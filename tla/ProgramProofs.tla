---------------------------- MODULE ProgramProofs ----------------------------
(***************************************************************************)
(* Proofs about what the library is wrapped in: the checksum (module       *)
(* Blake2b), for blocks of every size, counter words of every width and    *)
(* messages of every length, and the two programs (module Tools), for any  *)
(* set of paths, any number of pieces and any choice of arguments.         *)
(***************************************************************************)
EXTENDS Blake2b, Tools, SequenceTheorems, WellFoundedInduction, TLAPS

-----------------------------------------------------------------------------
(***************************************************************************)
(* The checksum: arithmetic.                                               *)
(***************************************************************************)
\* Division leaves a remainder.
LEMMA Divided ==
  ASSUME NEW a \in Nat, NEW b \in Nat \ {0}
  PROVE  /\ a \div b \in Nat /\ a % b \in 0 .. b - 1
         /\ a = (a \div b) * b + (a % b)
OBVIOUS

\* There is one quotient and one remainder.
LEMMA DividedOnce ==
  ASSUME NEW b \in Nat \ {0}, NEW q \in Nat, NEW r \in 0 .. b - 1
  PROVE  (q * b + r) \div b = q /\ (q * b + r) % b = r
OBVIOUS

\* The remainder of the successor.
LEMMA SuccessorModulo ==
  ASSUME NEW a \in Nat, NEW b \in Nat \ {0}
  PROVE  ((a % b) + 1) % b = (a + 1) % b
<1>1. PICK q \in Nat, r \in 0 .. b - 1 : a = q * b + r /\ a % b = r
  BY Divided
<1>2. CASE r + 1 < b
  <2>1. (r + 1) % b = r + 1
    BY <1>2
  <2>2. (q * b + (r + 1)) % b = r + 1
    BY <1>2, DividedOnce
  <2>. QED
    BY <1>1, <2>1, <2>2
<1>3. CASE r + 1 = b
  <2>1. (1 * b + 0) % b = 0 /\ ((q + 1) * b + 0) % b = 0
    BY DividedOnce
  <2>2. a + 1 = (q + 1) * b + 0 /\ r + 1 = 1 * b + 0
    BY <1>1, <1>3
  <2>. QED
    BY <1>1, <2>1, <2>2
<1>. QED
  BY <1>2, <1>3

\* Blocks do not overlap: those before the n-th end where it begins.
LEMMA BlocksInOrder ==
  ASSUME NEW k \in Nat, NEW n \in Nat, k < n
  PROVE  k * BlockBytes \in Nat /\ k * BlockBytes + BlockBytes <= n * BlockBytes
BY BlakeAssumption

\* A set of natural numbers that is not empty has a least element.
LEMMA LeastOf ==
  ASSUME NEW T \in SUBSET Nat, T # {}
  PROVE  \E x \in T : \A y \in T : x <= y
<1>1. PICK x \in T : \A y \in T : ~ (<<y, x>> \in OpToRel(<, Nat))
  BY NatLessThanWellFounded, WFMin
<1>2. OpToRel(<, Nat) = {p \in Nat \X Nat : p[1] < p[2]}
  BY Zenon DEF OpToRel
<1>3. ASSUME NEW y \in T PROVE x <= y
  <2>1. <<y, x>> \notin {p \in Nat \X Nat : p[1] < p[2]}
    BY <1>1, <1>2
  <2>. QED
    BY <2>1
<1>. QED
  BY <1>3

-----------------------------------------------------------------------------
(***************************************************************************)
(* The counter.                                                            *)
(***************************************************************************)
\* The two words that count n bytes.
Counter(n) == <<n % WordRange, (n \div WordRange) % WordRange>>

\* The states of the hash.
Compressed ==
  [block : [1 .. BlockBytes -> Nat], t : Nat \X Nat, f : Nat \X Nat]
State ==
  [h : Seq(Compressed), t : Nat \X Nat, f : Nat \X Nat,
   buf : [1 .. BlockBytes -> Nat], buflen : 0 .. BlockBytes]

\* The words of a counter are natural numbers.
LEMMA CounterType ==
  ASSUME NEW n \in Nat
  PROVE  Counter(n) \in Nat \X Nat
BY Divided, BlakeAssumption DEF Counter

\* Comparing the low word with what was added finds the carry.
LEMMA CounterAdds ==
  ASSUME NEW s \in State, NEW n \in Nat, NEW inc \in 0 .. BlockBytes, s.t = Counter(n)
  PROVE  IncrementCounter(s, inc) = [s EXCEPT !.t = Counter(n + inc)]
<1>. DEFINE w == WordRange
<1>1. w \in Nat \ {0} /\ inc \in 0 .. w - 1
  BY BlakeAssumption
<1>. HIDE DEF w
<1>2. PICK q \in Nat, r \in 0 .. w - 1 : n = q * w + r /\ n % w = r /\ n \div w = q
  BY <1>1, Divided
<1>. DEFINE low == (r + inc) % w
<1>3. IncrementCounter(s, inc)
        = [s EXCEPT !.t = <<low, IF low < inc THEN ((q % w) + 1) % w ELSE q % w>>]
  BY <1>2 DEF IncrementCounter, Counter, w
<1>4. CASE r + inc < w
  <2>1. PICK d \in 0 .. w - 1 : d = r + inc
    BY <1>1, <1>2, <1>4
  <2>2. low = d /\ ~ (low < inc)
    BY <1>1, <1>2, <2>1
  <2>3. (q * w + d) % w = d /\ (q * w + d) \div w = q
    BY <1>1, <1>2, DividedOnce
  <2>4. n + inc = q * w + d
    BY <1>1, <1>2, <2>1
  <2>5. Counter(n + inc) = <<d, q % w>>
    BY <2>3, <2>4 DEF Counter, w
  <2>. QED
    BY <1>3, <2>2, <2>5
<1>5. CASE r + inc >= w
  <2>1. PICK d \in 0 .. w - 1 : d = r + inc - w
    BY <1>1, <1>2, <1>5
  <2>2. low = d /\ low < inc
    <3>1. (1 * w + d) % w = d
      BY <1>1, <2>1, DividedOnce
    <3>2. r + inc = 1 * w + d /\ d < inc
      BY <1>1, <1>2, <2>1
    <3>. QED
      BY <3>1, <3>2
  <2>3. ((q + 1) * w + d) % w = d /\ ((q + 1) * w + d) \div w = q + 1
    <3>1. q + 1 \in Nat
      OBVIOUS
    <3>. QED
      BY <1>1, <3>1, DividedOnce
  <2>4. n + inc = (q + 1) * w + d
    BY <1>1, <1>2, <2>1
  <2>5. Counter(n + inc) = <<d, (q + 1) % w>>
    BY <2>3, <2>4 DEF Counter, w
  <2>6. ((q % w) + 1) % w = (q + 1) % w
    BY <1>1, <1>2, SuccessorModulo
  <2>. QED
    BY <1>3, <2>2, <2>5, <2>6
<1>. QED
  BY <1>1, <1>2, <1>4, <1>5

-----------------------------------------------------------------------------
(***************************************************************************)
(* The chain of compressed blocks.                                         *)
(***************************************************************************)
\* The block of msg behind the first n.
Block(msg, n) == [i \in 1 .. BlockBytes |-> msg[n * BlockBytes + i]]

\* The first n blocks of msg are compressed, none of them as the last one.
ChainOf(s, n, msg) ==
  /\ s.t = Counter(n * BlockBytes) /\ s.f = <<0, 0>>
  /\ Len(s.h) = n
  /\ \A k \in 1 .. n :
       s.h[k] = [block |-> Block(msg, k - 1), t |-> Counter(k * BlockBytes), f |-> <<0, 0>>]

\* Compressing the next block makes the chain one block longer and leaves the
\* buffer alone.
LEMMA CompressKeeps ==
  ASSUME NEW s \in State, NEW n \in Nat, NEW msg, ChainOf(s, n, msg),
         Block(msg, n) \in [1 .. BlockBytes -> Nat]
  PROVE  LET r == Compress(IncrementCounter(s, BlockBytes), Block(msg, n))
         IN  /\ r \in State /\ ChainOf(r, n + 1, msg)
             /\ r.buf = s.buf /\ r.buflen = s.buflen
<1>. DEFINE c == Counter(n * BlockBytes + BlockBytes)
            e == [block |-> Block(msg, n), t |-> c, f |-> <<0, 0>>]
            r == Compress(IncrementCounter(s, BlockBytes), Block(msg, n))
<1>1. n * BlockBytes \in Nat /\ BlockBytes \in 0 .. BlockBytes
      /\ n * BlockBytes + BlockBytes = (n + 1) * BlockBytes
  BY BlakeAssumption
<1>2. IncrementCounter(s, BlockBytes) = [s EXCEPT !.t = c]
  <2>1. s.t = Counter(n * BlockBytes)
    BY DEF ChainOf
  <2>. QED
    BY <1>1, <2>1, CounterAdds
<1>3. c \in Nat \X Nat
  BY <1>1, CounterType
<1>. HIDE DEF c
<1>4. r = [h |-> Append(s.h, e), t |-> c, f |-> s.f, buf |-> s.buf, buflen |-> s.buflen]
  <2>1. IncrementCounter(s, BlockBytes)
          = [h |-> s.h, t |-> c, f |-> s.f, buf |-> s.buf, buflen |-> s.buflen]
    BY <1>2 DEF State
  <2>2. s.f = <<0, 0>>
    BY DEF ChainOf
  <2>. DEFINE u == [h |-> s.h, t |-> c, f |-> s.f, buf |-> s.buf, buflen |-> s.buflen]
  <2>3. u.h = s.h /\ u.t = c /\ u.f = <<0, 0>>
    BY <2>2
  <2>4. Compress(u, Block(msg, n)) = [u EXCEPT !.h = Append(s.h, e)]
    BY <2>3 DEF Compress
  <2>5. r = [u EXCEPT !.h = Append(s.h, e)]
    BY <2>1, <2>4
  <2>. QED
    BY <2>5
<1>5. e \in Compressed
  BY <1>3 DEF Compressed
<1>. HIDE DEF e, r
<1>6. s.h \in Seq(Compressed) /\ Len(s.h) = n /\ s.f = <<0, 0>>
  BY DEF State, ChainOf
<1>7. /\ Append(s.h, e) \in Seq(Compressed) /\ Len(Append(s.h, e)) = n + 1
      /\ Append(s.h, e)[n + 1] = e
      /\ \A k \in 1 .. n : Append(s.h, e)[k] = s.h[k]
  BY <1>5, <1>6, AppendProperties
<1>8. r \in State
  BY <1>3, <1>4, <1>7 DEF State
<1>9. ChainOf(r, n + 1, msg)
  <2>1. r.h = Append(s.h, e) /\ r.t = c /\ r.f = <<0, 0>>
    BY <1>4, <1>6
  <2>2. ASSUME NEW k \in 1 .. n + 1
        PROVE  r.h[k] = [block |-> Block(msg, k - 1), t |-> Counter(k * BlockBytes),
                         f |-> <<0, 0>>]
    <3>1. CASE k \in 1 .. n
      BY <1>7, <2>1, <3>1 DEF ChainOf
    <3>2. CASE k = n + 1
      <4>1. k - 1 = n /\ k * BlockBytes = n * BlockBytes + BlockBytes
        BY <1>1, <3>2
      <4>. QED
        BY <1>7, <2>1, <3>2, <4>1 DEF e, c
    <3>. QED
      BY <3>1, <3>2
  <2>. QED
    BY <1>1, <1>7, <2>1, <2>2 DEF ChainOf, c
<1>. QED
  BY <1>4, <1>8, <1>9 DEF r

\* A chain of blocks of msg is one of the same blocks of a longer message.
LEMMA ChainOfLonger ==
  ASSUME NEW s, NEW n \in Nat, NEW msg \in Seq(Nat), NEW more \in Seq(Nat),
         n * BlockBytes <= Len(msg), ChainOf(s, n, msg)
  PROVE  ChainOf(s, n, msg \o more)
<1>1. PICK l \in Nat : l = Len(msg)
  BY LenProperties
<1>2. \A i \in 1 .. l : (msg \o more)[i] = msg[i]
  BY <1>1, ConcatProperties
<1>3. ASSUME NEW k \in 1 .. n PROVE Block(msg \o more, k - 1) = Block(msg, k - 1)
  <2>1. ASSUME NEW i \in 1 .. BlockBytes
        PROVE  (msg \o more)[(k - 1) * BlockBytes + i] = msg[(k - 1) * BlockBytes + i]
    <3>1. k - 1 \in Nat /\ k - 1 < n /\ BlockBytes \in Nat
      BY BlakeAssumption
    <3>2. PICK b \in Nat : b = (k - 1) * BlockBytes /\ b + BlockBytes <= n * BlockBytes
      BY <3>1, BlocksInOrder
    <3>3. n * BlockBytes <= l
      BY <1>1
    <3>4. b + BlockBytes <= l
      <4>1. PICK nb \in Nat : nb = n * BlockBytes
        BY <3>1
      <4>2. b + BlockBytes <= nb /\ nb <= l
        BY <3>2, <3>3, <4>1
      <4>. QED
        BY <3>1, <4>2
    <3>5. b + i \in 1 .. l
      BY <3>1, <3>4
    <3>. QED
      BY <1>2, <3>2, <3>5
  <2>. QED
    BY <2>1 DEF Block
<1>. QED
  BY <1>3 DEF ChainOf

-----------------------------------------------------------------------------
(***************************************************************************)
(* The buffer.                                                             *)
(***************************************************************************)
\* Of msg, n blocks are compressed and the buffer holds the bytes behind them.
Holds(s, n, msg) ==
  /\ s \in State /\ n \in Nat
  /\ ChainOf(s, n, msg)
  /\ \A i \in 1 .. s.buflen : s.buf[i] = msg[n * BlockBytes + i]

\* Keeping bytes that fit in the buffer holds them too.
LEMMA KeepHolds ==
  ASSUME NEW s, NEW n, NEW msg, Holds(s, n, msg),
         NEW in \in Seq(Nat), s.buflen + Len(in) <= BlockBytes,
         \A i \in 1 .. Len(in) : in[i] = msg[n * BlockBytes + s.buflen + i]
  PROVE  Holds(Keep(s, in), n, msg) /\ Keep(s, in).buflen = s.buflen + Len(in)
<1>1. PICK l \in Nat : l = Len(in)
  BY LenProperties
<1>2. PICK u \in 0 .. BlockBytes : u = s.buflen
  BY DEF Holds, State
<1>3. s \in State /\ n \in Nat /\ BlockBytes \in Nat /\ u + l <= BlockBytes
      /\ in \in [1 .. l -> Nat]
  BY <1>1, <1>2, BlakeAssumption DEF Holds
<1>. DEFINE buf == [i \in 1 .. BlockBytes |->
                      IF i \in u + 1 .. u + l THEN in[i - u] ELSE s.buf[i]]
            r == Keep(s, in)
<1>4. r = [h |-> s.h, t |-> s.t, f |-> s.f, buf |-> buf, buflen |-> u + l]
  <2>1. r = [s EXCEPT !.buf = buf, !.buflen = u + l]
    BY <1>1, <1>2 DEF Keep
  <2>. HIDE DEF buf, r
  <2>. QED
    BY <1>3, <2>1 DEF State
<1>5. buf \in [1 .. BlockBytes -> Nat]
  <2>1. ASSUME NEW i \in 1 .. BlockBytes
        PROVE  (IF i \in u + 1 .. u + l THEN in[i - u] ELSE s.buf[i]) \in Nat
    BY <1>3 DEF State
  <2>. QED
    BY <2>1
<1>6. r \in State
  BY <1>3, <1>4, <1>5 DEF State
<1>7. ASSUME NEW i \in 1 .. u + l PROVE buf[i] = msg[n * BlockBytes + i]
  <2>1. i \in 1 .. BlockBytes
    BY <1>3
  <2>2. CASE i <= u
    <3>1. buf[i] = s.buf[i]
      BY <1>3, <2>1, <2>2
    <3>. QED
      BY <1>2, <2>2, <3>1 DEF Holds
  <2>3. CASE i > u
    <3>1. buf[i] = in[i - u] /\ i - u \in 1 .. l
      BY <1>3, <2>1, <2>3
    <3>2. in[i - u] = msg[n * BlockBytes + u + (i - u)]
      BY <1>1, <1>2, <3>1
    <3>3. n * BlockBytes + u + (i - u) = n * BlockBytes + i
      <4>1. PICK b \in Nat : b = n * BlockBytes
        BY <1>3
      <4>. QED
        BY <4>1
    <3>. QED
      BY <3>1, <3>2, <3>3
  <2>. QED
    BY <2>2, <2>3
<1>. HIDE DEF buf, r
<1>8. r.h = s.h /\ r.t = s.t /\ r.f = s.f /\ r.buf = buf /\ r.buflen = u + l
  BY <1>4
<1>9. ChainOf(r, n, msg)
  BY <1>8 DEF ChainOf, Holds
<1>10. Holds(r, n, msg)
  BY <1>3, <1>6, <1>7, <1>8, <1>9 DEF Holds
<1>. QED
  BY <1>1, <1>2, <1>8, <1>10 DEF r

\* Emptying the buffer changes nothing else.
LEMMA Emptied ==
  ASSUME NEW s \in State
  PROVE  LET r == [s EXCEPT !.buflen = 0]
         IN  /\ r \in State /\ r.buflen = 0
             /\ r.h = s.h /\ r.t = s.t /\ r.f = s.f /\ r.buf = s.buf
<1>1. [s EXCEPT !.buflen = 0]
        = [h |-> s.h, t |-> s.t, f |-> s.f, buf |-> s.buf, buflen |-> 0]
  BY DEF State
<1>2. 0 \in 0 .. BlockBytes
  BY BlakeAssumption
<1>. QED
  BY <1>1, <1>2 DEF State

\* The part of a sequence behind the first a elements, up to the b-th.
LEMMA Slice ==
  ASSUME NEW q \in Seq(Nat), NEW a \in Nat, NEW b \in Nat, a <= b, b <= Len(q)
  PROVE  /\ SubSeq(q, a + 1, b) \in Seq(Nat)
         /\ Len(SubSeq(q, a + 1, b)) = b - a
         /\ \A i \in 1 .. b - a : SubSeq(q, a + 1, b)[i] = q[a + i]
<1>1. PICK l \in Nat : l = Len(q)
  BY LenProperties
<1>2. PICK c \in Int : c = a + 1
  OBVIOUS
<1>3. \A i \in c .. b : q[i] \in Nat
  <2>1. q \in [1 .. l -> Nat] /\ b <= l
    BY <1>1
  <2>. QED
    BY <1>2, <2>1
<1>4. /\ SubSeq(q, c, b) \in Seq(Nat)
      /\ Len(SubSeq(q, c, b)) = IF c <= b THEN b - c + 1 ELSE 0
      /\ \A i \in 1 .. b - c + 1 : SubSeq(q, c, b)[i] = q[c + i - 1]
  BY <1>3, SubSeqProperties
<1>5. /\ (IF c <= b THEN b - c + 1 ELSE 0) = b - a /\ b - c + 1 = b - a
      /\ \A i \in 1 .. b - a : c + i - 1 = a + i
  BY <1>2
<1>. QED
  BY <1>2, <1>4, <1>5

\* A sequence of a block's length that agrees with msg is that block of msg.
LEMMA IsBlock ==
  ASSUME NEW n \in Nat, NEW msg, NEW q \in Seq(Nat), Len(q) = BlockBytes,
         \A i \in 1 .. BlockBytes : q[i] = msg[n * BlockBytes + i]
  PROVE  q = Block(msg, n) /\ Block(msg, n) \in [1 .. BlockBytes -> Nat]
<1>1. q \in [1 .. BlockBytes -> Nat]
  OBVIOUS
<1>. QED
  BY <1>1 DEF Block

-----------------------------------------------------------------------------
(***************************************************************************)
(* The loop of update over the whole blocks of a chunk.                    *)
(***************************************************************************)
\* The k-th block of what is left of the chunk, and the states of the loop.
BlockOf(rest, k) == SubSeq(rest, (k - 1) * BlockBytes + 1, k * BlockBytes)
IsLoop(g, first, rest, n) ==
  g = [k \in 0 .. n |->
         IF k = 0 THEN Compress(IncrementCounter(first, BlockBytes), first.buf)
                  ELSE Compress(IncrementCounter(g[k - 1], BlockBytes), BlockOf(rest, k))]
Loop(first, rest, n) == CHOOSE g : IsLoop(g, first, rest, n)

\* What update does with a chunk that overflows the buffer.
LEMMA AbsorbIsLoop ==
  ASSUME NEW s, NEW in
  PROVE  LET fill  == BlockBytes - s.buflen
             rest  == SubSeq(in, fill + 1, Len(in))
             first == [Keep(s, SubSeq(in, 1, fill)) EXCEPT !.buflen = 0]
             n     == WholeBlocks(rest)
         IN  Absorb(s, in) = Keep(Loop(first, rest, n)[n],
                                  SubSeq(rest, n * BlockBytes + 1, Len(rest)))
BY DEF Absorb, Loop, IsLoop, BlockOf

\* The loop has states, for any number of blocks.
LEMMA LoopExists ==
  ASSUME NEW first, NEW rest, NEW n \in Nat
  PROVE  IsLoop(Loop(first, rest, n), first, rest, n)
<1>. DEFINE Step(k, s) == Compress(IncrementCounter(s, BlockBytes), BlockOf(rest, k))
            Start == Compress(IncrementCounter(first, BlockBytes), first.buf)
            Runs(m) == \E g : g = [k \in 0 .. m |-> IF k = 0 THEN Start ELSE Step(k, g[k - 1])]
            Without == {m \in Nat : ~ Runs(m)}
<1>. HIDE DEF Step, Start
<1>1. Without = {}
  <2>. SUFFICES ASSUME Without # {} PROVE FALSE
    OBVIOUS
  <2>1. PICK m \in Without : \A i \in Without : m <= i
    <3>1. Without \in SUBSET Nat
      OBVIOUS
    <3>. HIDE DEF Without
    <3>. QED
      BY <3>1, LeastOf
  <2>2. m \in Nat /\ ~ Runs(m)
    BY <2>1
  <2>3. m # 0
    <3>. SUFFICES ASSUME m = 0 PROVE Runs(0)
      BY <2>2
    <3>. DEFINE g == [k \in 0 .. 0 |-> Start]
    <3>1. g = [k \in 0 .. 0 |-> IF k = 0 THEN Start ELSE Step(k, g[k - 1])]
      OBVIOUS
    <3>. QED
      BY <3>1
  <2>4. Runs(m - 1)
    <3>1. m - 1 \in Nat /\ m - 1 \notin Without
      <4>1. m - 1 \in Nat /\ ~ (m <= m - 1)
        BY <2>2, <2>3
      <4>. HIDE DEF Without
      <4>. QED
        BY <2>1, <4>1
    <3>. QED
      BY <3>1
  <2>5. PICK g : g = [k \in 0 .. m - 1 |-> IF k = 0 THEN Start ELSE Step(k, g[k - 1])]
    BY <2>4
  <2>. DEFINE f == [k \in 0 .. m |-> IF k < m THEN g[k] ELSE Step(m, g[m - 1])]
  <2>6. ASSUME NEW k \in 0 .. m
        PROVE  f[k] = IF k = 0 THEN Start ELSE Step(k, f[k - 1])
    <3>1. CASE k = 0
      BY <2>2, <2>3, <2>5, <3>1
    <3>2. CASE k # 0 /\ k < m
      <4>1. f[k] = g[k] /\ f[k - 1] = g[k - 1] /\ k \in 0 .. m - 1
        BY <2>2, <3>2
      <4>2. g[k] = Step(k, g[k - 1])
        BY <2>5, <3>2, <4>1
      <4>. QED
        BY <3>2, <4>1, <4>2
    <3>3. CASE k = m
      <4>1. f[k] = Step(k, g[m - 1]) /\ f[k - 1] = g[m - 1]
        BY <2>2, <2>3, <3>3
      <4>. QED
        BY <2>3, <3>3, <4>1
    <3>. QED
      BY <2>2, <3>1, <3>2, <3>3
  <2>7. f = [k \in 0 .. m |-> f[k]]
    OBVIOUS
  <2>. HIDE DEF f
  <2>8. f = [k \in 0 .. m |-> IF k = 0 THEN Start ELSE Step(k, f[k - 1])]
    BY <2>6, <2>7
  <2>9. Runs(m)
    BY <2>8
  <2>. QED
    BY <2>2, <2>9
<1>2. Runs(n)
  BY <1>1
<1>3. \E g : IsLoop(g, first, rest, n)
  BY <1>2 DEF IsLoop, Step, Start
<1>. QED
  BY <1>3 DEF Loop

\* The k-th block of the rest of a chunk is the block of msg at its place.
LEMMA BlockOfIsBlock ==
  ASSUME NEW n \in Nat, NEW msg, NEW rest \in Seq(Nat), NEW k \in Nat \ {0},
         k * BlockBytes <= Len(rest),
         \A j \in 1 .. Len(rest) : rest[j] = msg[n * BlockBytes + j]
  PROVE  /\ BlockOf(rest, k) = Block(msg, n + (k - 1))
         /\ Block(msg, n + (k - 1)) \in [1 .. BlockBytes -> Nat]
<1>1. PICK l \in Nat : l = Len(rest)
  BY LenProperties
<1>2. BlockBytes \in Nat \ {0}
  BY BlakeAssumption
<1>3. PICK b \in Nat : b = (k - 1) * BlockBytes /\ b + BlockBytes = k * BlockBytes
  <2>1. (k - 1) * BlockBytes \in Nat /\ (k - 1) * BlockBytes + BlockBytes = k * BlockBytes
    BY <1>2
  <2>. QED
    BY <2>1
<1>4. b + BlockBytes <= l
  BY <1>1, <1>3
<1>5. BlockOf(rest, k) = SubSeq(rest, b + 1, b + BlockBytes)
  BY <1>3 DEF BlockOf
<1>6. PICK d \in Nat : d = b + BlockBytes /\ b <= d /\ d <= l /\ d - b = BlockBytes
  BY <1>2, <1>4
<1>7. /\ BlockOf(rest, k) \in Seq(Nat)
      /\ Len(BlockOf(rest, k)) = BlockBytes
      /\ \A i \in 1 .. BlockBytes : BlockOf(rest, k)[i] = rest[b + i]
  <2>1. b <= d /\ d <= Len(rest)
    BY <1>1, <1>6
  <2>2. /\ SubSeq(rest, b + 1, d) \in Seq(Nat) /\ Len(SubSeq(rest, b + 1, d)) = d - b
        /\ \A i \in 1 .. d - b : SubSeq(rest, b + 1, d)[i] = rest[b + i]
    BY <2>1, Slice
  <2>3. BlockOf(rest, k) = SubSeq(rest, b + 1, d)
    BY <1>5, <1>6
  <2>. QED
    BY <1>6, <2>2, <2>3
<1>8. ASSUME NEW i \in 1 .. BlockBytes
      PROVE  BlockOf(rest, k)[i] = msg[(n + (k - 1)) * BlockBytes + i]
  <2>1. b + i \in 1 .. l
    BY <1>2, <1>4
  <2>2. rest[b + i] = msg[n * BlockBytes + (b + i)]
    BY <1>1, <2>1
  <2>3. n * BlockBytes + (b + i) = (n + (k - 1)) * BlockBytes + i
    BY <1>2, <1>3
  <2>. QED
    BY <1>7, <2>2, <2>3
<1>9. n + (k - 1) \in Nat
  OBVIOUS
<1>. QED
  BY <1>7, <1>8, <1>9, IsBlock

\* Each round of the loop compresses one block more and leaves the buffer empty.
LEMMA LoopHolds ==
  ASSUME NEW first \in State, NEW n \in Nat, NEW msg, NEW rest \in Seq(Nat), NEW m \in Nat,
         first.buflen = 0, ChainOf(first, n, msg), first.buf = Block(msg, n),
         m * BlockBytes <= Len(rest),
         \A j \in 1 .. Len(rest) : rest[j] = msg[(n + 1) * BlockBytes + j]
  PROVE  /\ Loop(first, rest, m)[m] \in State
         /\ ChainOf(Loop(first, rest, m)[m], n + 1 + m, msg)
         /\ Loop(first, rest, m)[m].buflen = 0
<1>. DEFINE g == Loop(first, rest, m)
            Good(k) == g[k] \in State /\ ChainOf(g[k], n + 1 + k, msg) /\ g[k].buflen = 0
            Bad == {k \in 0 .. m : ~ Good(k)}
            Start == Compress(IncrementCounter(first, BlockBytes), first.buf)
            Step(k, s) == Compress(IncrementCounter(s, BlockBytes), BlockOf(rest, k))
<1>1. /\ g[0] = Start
      /\ \A k \in 1 .. m : g[k] = Step(k, g[k - 1])
  <2>1. g = [k \in 0 .. m |-> IF k = 0 THEN Start ELSE Step(k, g[k - 1])]
    <3>1. IsLoop(g, first, rest, m)
      BY LoopExists
    <3>. HIDE DEF g
    <3>. QED
      BY <3>1 DEF IsLoop
  <2>. HIDE DEF g, Start, Step
  <2>. QED
    BY <2>1
<1>. HIDE DEF g
<1>2. Good(0)
  <2>1. g[0] = Compress(IncrementCounter(first, BlockBytes), Block(msg, n))
    BY <1>1
  <2>2. Block(msg, n) \in [1 .. BlockBytes -> Nat]
    BY DEF State
  <2>. QED
    BY <2>1, <2>2, CompressKeeps
<1>3. ASSUME NEW k \in 1 .. m, Good(k - 1) PROVE Good(k)
  <2>1. g[k] = Compress(IncrementCounter(g[k - 1], BlockBytes), BlockOf(rest, k))
    BY <1>1
  <2>2. n + 1 \in Nat /\ k \in Nat \ {0} /\ n + 1 + (k - 1) \in Nat
    OBVIOUS
  <2>3. k * BlockBytes <= Len(rest)
    <3>1. PICK x \in Nat, y \in Nat : x = k * BlockBytes /\ y = m * BlockBytes /\ x <= y
      BY BlakeAssumption
    <3>2. PICK l \in Nat : l = Len(rest)
      BY LenProperties
    <3>3. y <= l
      BY <3>1, <3>2
    <3>. QED
      BY <3>1, <3>2, <3>3
  <2>4. /\ BlockOf(rest, k) = Block(msg, n + 1 + (k - 1))
        /\ Block(msg, n + 1 + (k - 1)) \in [1 .. BlockBytes -> Nat]
    BY <2>2, <2>3, BlockOfIsBlock
  <2>5. /\ g[k] \in State /\ ChainOf(g[k], n + 1 + (k - 1) + 1, msg)
        /\ g[k].buflen = g[k - 1].buflen
    BY <1>3, <2>1, <2>2, <2>4, CompressKeeps
  <2>6. n + 1 + (k - 1) + 1 = n + 1 + k
    OBVIOUS
  <2>. QED
    BY <1>3, <2>5, <2>6
<1>4. Bad = {}
  <2>. HIDE DEF Good
  <2>. SUFFICES ASSUME Bad # {} PROVE FALSE
    OBVIOUS
  <2>1. PICK k \in Bad : \A i \in Bad : k <= i
    <3>1. Bad \in SUBSET Nat
      OBVIOUS
    <3>. HIDE DEF Bad
    <3>. QED
      BY <3>1, LeastOf
  <2>2. k \in 0 .. m /\ ~ Good(k) /\ k # 0
    BY <1>2, <2>1
  <2>3. k - 1 \in 0 .. m /\ ~ (k <= k - 1)
    BY <2>2
  <2>4. k - 1 \notin Bad
    <3>. HIDE DEF Bad
    <3>. QED
      BY <2>1, <2>3
  <2>5. k \in 1 .. m /\ Good(k - 1)
    BY <2>2, <2>3, <2>4
  <2>. QED
    BY <1>3, <2>2, <2>5
<1>5. Good(m)
  <2>. HIDE DEF Good
  <2>. QED
    BY <1>4
<1>. QED
  BY <1>5 DEF g

\* What the loop starts from, as one hypothesis.
Ready(first, n, msg, rest, m) ==
  /\ first \in State /\ n \in Nat /\ rest \in Seq(Nat) /\ m \in Nat
  /\ first.buflen = 0 /\ ChainOf(first, n, msg) /\ first.buf = Block(msg, n)
  /\ m * BlockBytes <= Len(rest)
  /\ \A j \in 1 .. Len(rest) : rest[j] = msg[(n + 1) * BlockBytes + j]

\* The loop from such a start.
LEMMA LoopRuns ==
  ASSUME NEW first, NEW n, NEW msg, NEW rest, NEW m, Ready(first, n, msg, rest, m)
  PROVE  /\ Loop(first, rest, m)[m] \in State
         /\ ChainOf(Loop(first, rest, m)[m], n + 1 + m, msg)
         /\ Loop(first, rest, m)[m].buflen = 0
BY LoopHolds DEF Ready

\* A chunk that overflows the buffer is taken in: its last bytes, at least one
\* of them, are held back.
LEMMA AbsorbHolds ==
  ASSUME NEW s, NEW n, NEW msg, Holds(s, n, msg),
         NEW in \in Seq(Nat), Overflows(s, in),
         \A i \in 1 .. Len(in) : in[i] = msg[n * BlockBytes + s.buflen + i]
  PROVE  \E p \in Nat :
           /\ Holds(Absorb(s, in), p, msg)
           /\ p * BlockBytes + Absorb(s, in).buflen = n * BlockBytes + s.buflen + Len(in)
           /\ Absorb(s, in).buflen > 0
<1>1. PICK l \in Nat : l = Len(in)
  BY LenProperties
<1>2. PICK u \in 0 .. BlockBytes : u = s.buflen
  BY DEF Holds, State
<1>3. s \in State /\ n \in Nat /\ BlockBytes \in Nat \ {0}
  BY BlakeAssumption DEF Holds
<1>4. PICK fill \in Nat : fill = BlockBytes - u /\ u + fill = BlockBytes
  BY <1>3
<1>5. l > fill
  BY <1>1, <1>2, <1>4 DEF Overflows
<1>6. PICK b \in Nat : b = n * BlockBytes /\ (n + 1) * BlockBytes = b + BlockBytes
  BY <1>3
<1>. DEFINE head  == SubSeq(in, 1, fill)
            rest  == SubSeq(in, fill + 1, Len(in))
            full  == Keep(s, head)
            first == [full EXCEPT !.buflen = 0]
            m     == WholeBlocks(rest)
            g     == Loop(first, rest, m)[m]
            tail  == SubSeq(rest, m * BlockBytes + 1, Len(rest))
<1>7. Absorb(s, in) = Keep(g, tail)
  BY <1>2, <1>4, AbsorbIsLoop
<1>8. /\ head \in Seq(Nat) /\ Len(head) = fill
      /\ \A i \in 1 .. fill : head[i] = in[i]
  <2>1. PICK z \in Nat : z = 0
    OBVIOUS
  <2>2. z <= fill /\ fill <= Len(in)
    BY <1>1, <1>5, <2>1
  <2>3. /\ SubSeq(in, z + 1, fill) \in Seq(Nat) /\ Len(SubSeq(in, z + 1, fill)) = fill - z
        /\ \A i \in 1 .. fill - z : SubSeq(in, z + 1, fill)[i] = in[z + i]
    BY <2>2, Slice
  <2>4. z + 1 = 1 /\ fill - z = fill /\ \A i \in 1 .. fill : z + i = i
    BY <2>1
  <2>. QED
    BY <2>3, <2>4
<1>9. PICK rl \in Nat : rl = l - fill /\ rl > 0
  BY <1>5
<1>10. /\ rest \in Seq(Nat) /\ Len(rest) = rl
       /\ \A j \in 1 .. rl : rest[j] = in[fill + j]
  <2>1. fill <= l /\ l <= Len(in)
    BY <1>1, <1>5
  <2>2. /\ SubSeq(in, fill + 1, l) \in Seq(Nat) /\ Len(SubSeq(in, fill + 1, l)) = l - fill
        /\ \A i \in 1 .. l - fill : SubSeq(in, fill + 1, l)[i] = in[fill + i]
    BY <2>1, Slice
  <2>. QED
    BY <1>1, <1>9, <2>2
<1>. HIDE DEF head, rest
<1>11. Holds(full, n, msg) /\ full.buflen = BlockBytes
  <2>1. s.buflen + Len(head) = BlockBytes /\ BlockBytes <= BlockBytes
    BY <1>2, <1>3, <1>4, <1>8
  <2>2. \A i \in 1 .. Len(head) : head[i] = msg[n * BlockBytes + s.buflen + i]
    <3>1. \A i \in 1 .. fill : i \in 1 .. l
      BY <1>5
    <3>. QED
      BY <1>1, <1>8, <3>1
  <2>. QED
    BY <1>8, <2>1, <2>2, KeepHolds
<1>. HIDE DEF full
<1>12. first \in State /\ first.buflen = 0 /\ ChainOf(first, n, msg) /\ first.buf = Block(msg, n)
  <2>1. full \in State /\ ChainOf(full, n, msg)
        /\ \A i \in 1 .. BlockBytes : full.buf[i] = msg[n * BlockBytes + i]
    BY <1>11 DEF Holds
  <2>2. full.buf = Block(msg, n)
    BY <2>1 DEF State, Block
  <2>3. /\ first \in State /\ first.buflen = 0
        /\ first.h = full.h /\ first.t = full.t /\ first.f = full.f /\ first.buf = full.buf
    BY <2>1, Emptied
  <2>. QED
    BY <2>1, <2>2, <2>3 DEF ChainOf
<1>. HIDE DEF first
<1>13. PICK mb \in Nat : m \in Nat /\ mb = m * BlockBytes /\ mb < rl /\ rl <= mb + BlockBytes
  <2>1. rl - 1 \in Nat /\ m = (rl - 1) \div BlockBytes
    BY <1>9, <1>10 DEF WholeBlocks
  <2>2. PICK r \in 0 .. BlockBytes - 1 : m \in Nat /\ rl - 1 = m * BlockBytes + r
    BY <1>3, <2>1, Divided
  <2>3. m * BlockBytes \in Nat
    BY <1>3, <2>2
  <2>. QED
    BY <1>3, <1>9, <2>2, <2>3
<1>. HIDE DEF m
<1>14. \A j \in 1 .. Len(rest) : rest[j] = msg[(n + 1) * BlockBytes + j]
  <2>1. ASSUME NEW j \in 1 .. rl PROVE rest[j] = msg[b + BlockBytes + j]
    <3>1. fill + j \in 1 .. l
      BY <1>9
    <3>2. in[fill + j] = msg[b + u + (fill + j)]
      BY <1>1, <1>2, <1>6, <3>1
    <3>3. b + u + (fill + j) = b + BlockBytes + j
      BY <1>3, <1>4
    <3>. QED
      BY <1>10, <3>2, <3>3
  <2>. QED
    BY <1>6, <1>10, <2>1
<1>15. g \in State /\ ChainOf(g, n + 1 + m, msg) /\ g.buflen = 0
  <2>1. m \in Nat /\ m * BlockBytes <= Len(rest)
    BY <1>10, <1>13
  <2>2. rest \in Seq(Nat) /\ n \in Nat
    BY <1>3, <1>10
  <2>3. Ready(first, n, msg, rest, m)
    BY <1>12, <1>14, <2>1, <2>2 DEF Ready
  <2>4. /\ Loop(first, rest, m)[m] \in State
        /\ ChainOf(Loop(first, rest, m)[m], n + 1 + m, msg)
        /\ Loop(first, rest, m)[m].buflen = 0
    BY <2>3, LoopRuns
  <2>. QED
    BY <2>4
<1>. HIDE DEF g
<1>16. PICK p \in Nat : p = n + 1 + m /\ p * BlockBytes = b + BlockBytes + mb
  <2>1. (n + 1 + m) * BlockBytes = (n + 1) * BlockBytes + m * BlockBytes
    BY <1>3, <1>13
  <2>. QED
    BY <1>3, <1>6, <1>13, <2>1
<1>17. Holds(g, p, msg)
  BY <1>15, <1>16 DEF Holds
<1>18. /\ tail \in Seq(Nat) /\ Len(tail) = rl - mb
       /\ \A i \in 1 .. rl - mb : tail[i] = rest[mb + i]
  <2>1. mb <= rl /\ rl <= Len(rest)
    BY <1>10, <1>13
  <2>2. tail = SubSeq(rest, mb + 1, rl)
    BY <1>10, <1>13
  <2>3. rest \in Seq(Nat)
    BY <1>10
  <2>4. /\ SubSeq(rest, mb + 1, rl) \in Seq(Nat) /\ Len(SubSeq(rest, mb + 1, rl)) = rl - mb
        /\ \A i \in 1 .. rl - mb : SubSeq(rest, mb + 1, rl)[i] = rest[mb + i]
    BY <2>1, <2>3, Slice
  <2>. QED
    BY <2>2, <2>4
<1>. HIDE DEF tail
<1>19. Holds(Keep(g, tail), p, msg) /\ Keep(g, tail).buflen = g.buflen + Len(tail)
  <2>1. g.buflen + Len(tail) <= BlockBytes
    BY <1>3, <1>13, <1>15, <1>18
  <2>2. ASSUME NEW i \in 1 .. Len(tail)
        PROVE  tail[i] = msg[p * BlockBytes + g.buflen + i]
    <3>1. i \in 1 .. rl - mb /\ mb + i \in 1 .. rl
      BY <1>13, <1>18
    <3>2. tail[i] = msg[b + BlockBytes + (mb + i)]
      BY <1>6, <1>10, <1>14, <1>18, <3>1
    <3>3. b + BlockBytes + (mb + i) = p * BlockBytes + g.buflen + i
      BY <1>3, <1>15, <1>16, <3>1
    <3>. QED
      BY <3>2, <3>3
  <2>3. tail \in Seq(Nat)
    BY <1>18
  <2>. QED
    BY <1>17, <2>1, <2>2, <2>3, KeepHolds
<1>20. Keep(g, tail).buflen = rl - mb /\ rl - mb > 0
  BY <1>13, <1>15, <1>18, <1>19
<1>21. p * BlockBytes + (rl - mb) = n * BlockBytes + s.buflen + Len(in)
  <2>1. b + BlockBytes + mb + (rl - mb) = b + u + l
    BY <1>3, <1>4, <1>9
  <2>. QED
    BY <1>1, <1>2, <1>6, <1>16, <2>1
<1>. QED
  BY <1>7, <1>19, <1>20, <1>21

-----------------------------------------------------------------------------
(***************************************************************************)
(* The inductive invariant: until final, the first whole blocks of what    *)
(* was fed are compressed and the rest, not empty once a byte was fed, is  *)
(* in the buffer; after final the digest is that of what was fed.          *)
(***************************************************************************)
\* What update keeps of the bytes fed.
Buffering(s, msg) ==
  /\ Holds(s, Len(s.h), msg)
  /\ Len(s.h) * BlockBytes + s.buflen = Len(msg)
  /\ Len(msg) > 0 => s.buflen > 0

BlakeInv ==
  /\ fed \in Seq(Nat) /\ Len(fed) <= MaxMessage
  /\ digest = <<>> => Buffering(S, fed)
  /\ digest # <<>> => digest = Hash(fed)

\* The start.
LEMMA BInitEstablishes == BInit => BlakeInv
<1>. SUFFICES ASSUME BInit PROVE BlakeInv
  OBVIOUS
<1>1. S.h = <<>> /\ S.t = <<0, 0>> /\ S.f = <<0, 0>> /\ S.buflen = 0
      /\ S.h \in Seq(Compressed) /\ Len(S.h) = 0
  BY DEF BInit
<1>2. S \in State
  <2>1. 0 \in 0 .. BlockBytes /\ [i \in 1 .. BlockBytes |-> 0] \in [1 .. BlockBytes -> Nat]
    BY BlakeAssumption
  <2>2. <<>> \in Seq(Compressed) /\ <<0, 0>> \in Nat \X Nat
    OBVIOUS
  <2>. QED
    BY <2>1, <2>2 DEF BInit, State
<1>3. Counter(0 * BlockBytes) = <<0, 0>>
  <2>1. WordRange \in Nat \ {0} /\ 0 \in 0 .. WordRange - 1 /\ BlockBytes \in Nat
    BY BlakeAssumption
  <2>2. (0 * WordRange + 0) \div WordRange = 0 /\ (0 * WordRange + 0) % WordRange = 0
    BY <2>1, DividedOnce
  <2>3. 0 * WordRange + 0 = 0 /\ 0 * BlockBytes = 0
    BY <2>1
  <2>. QED
    BY <2>2, <2>3 DEF Counter
<1>4. ChainOf(S, 0, fed)
  BY <1>1, <1>3 DEF ChainOf
<1>5. Holds(S, 0, fed)
  BY <1>1, <1>2, <1>4 DEF Holds
<1>6. fed \in Seq(Nat) /\ Len(fed) = 0 /\ 0 * BlockBytes + 0 = 0 /\ 0 <= MaxMessage
  BY BlakeAssumption DEF BInit
<1>. QED
  BY <1>1, <1>5, <1>6 DEF BlakeInv, Buffering, BInit

\* A chunk is a sequence of numbers.
LEMMA ChunkIsSequence ==
  ASSUME NEW in \in Chunks
  PROVE  in \in Seq(Nat)
<1>1. PICK len \in 0 .. MaxChunk : in \in [1 .. len -> Bytes]
  BY DEF Chunks
<1>2. len \in Nat /\ \A i \in 1 .. len : in[i] \in Nat
  <2>1. MaxChunk \in Nat /\ \A x \in Bytes : x \in Nat
    BY BlakeAssumption
  <2>2. \A i \in 1 .. len : in[i] \in Bytes
    BY <1>1
  <2>3. len \in Nat
    BY <1>1, <2>1
  <2>. QED
    BY <2>1, <2>2, <2>3
<1>3. in = [i \in 1 .. len |-> in[i]]
  BY <1>1
<1>. QED
  BY <1>2, <1>3

\* What is held of a message is held of every longer one.
LEMMA HoldsLonger ==
  ASSUME NEW s, NEW msg \in Seq(Nat), NEW more \in Seq(Nat), Buffering(s, msg)
  PROVE  Holds(s, Len(s.h), msg \o more)
<1>1. PICK n \in Nat : n = Len(s.h) /\ Holds(s, n, msg)
  BY DEF Buffering, Holds
<1>2. PICK l \in Nat : l = Len(msg)
  BY LenProperties
<1>3. PICK b \in Nat : b = n * BlockBytes
  BY <1>1, BlakeAssumption
<1>4. PICK u \in Nat : u = s.buflen
  BY <1>1 DEF Holds, State
<1>5. b + u = l
  BY <1>1, <1>2, <1>3, <1>4 DEF Buffering
<1>6. ChainOf(s, n, msg \o more)
  <2>1. n * BlockBytes <= Len(msg) /\ ChainOf(s, n, msg)
    BY <1>1, <1>2, <1>3, <1>5 DEF Holds
  <2>. QED
    BY <2>1, ChainOfLonger
<1>7. \A i \in 1 .. l : (msg \o more)[i] = msg[i]
  BY <1>2, ConcatProperties
<1>8. ASSUME NEW i \in 1 .. s.buflen
      PROVE  s.buf[i] = (msg \o more)[n * BlockBytes + i]
  <2>1. b + i \in 1 .. l
    BY <1>4, <1>5
  <2>2. s.buf[i] = msg[b + i]
    BY <1>1, <1>3 DEF Holds
  <2>. QED
    BY <1>3, <1>7, <2>1, <2>2
<1>. QED
  BY <1>1, <1>6, <1>8 DEF Holds

\* An update takes its chunk in.
LEMMA UpdateBuffers ==
  ASSUME NEW s, NEW msg \in Seq(Nat), NEW in \in Seq(Nat), Buffering(s, msg)
  PROVE  Buffering(IF Overflows(s, in) THEN Absorb(s, in) ELSE Keep(s, in), msg \o in)
<1>1. PICK n \in Nat : n = Len(s.h) /\ Holds(s, n, msg)
  BY DEF Buffering, Holds
<1>2. PICK l \in Nat : l = Len(msg)
  BY LenProperties
<1>3. PICK b \in Nat : b = n * BlockBytes
  BY <1>1, BlakeAssumption
<1>4. PICK u \in 0 .. BlockBytes : u = s.buflen
  BY <1>1 DEF Holds, State
<1>5. b + u = l
  BY <1>1, <1>2, <1>3, <1>4 DEF Buffering
<1>6. PICK k \in Nat : k = Len(in)
  BY LenProperties
<1>. DEFINE all == msg \o in
<1>7. all \in Seq(Nat) /\ Len(all) = l + k /\ \A i \in 1 .. k : all[l + i] = in[i]
  BY <1>2, <1>6, ConcatProperties
<1>8. Holds(s, n, all)
  BY <1>1, HoldsLonger
<1>. HIDE DEF all
<1>9. \A i \in 1 .. Len(in) : in[i] = all[n * BlockBytes + s.buflen + i]
  BY <1>3, <1>4, <1>5, <1>6, <1>7
<1>10. CASE Overflows(s, in)
  <2>1. PICK p \in Nat :
          /\ Holds(Absorb(s, in), p, all)
          /\ p * BlockBytes + Absorb(s, in).buflen = n * BlockBytes + s.buflen + Len(in)
          /\ Absorb(s, in).buflen > 0
    BY <1>8, <1>9, <1>10, AbsorbHolds
  <2>2. Len(Absorb(s, in).h) = p
    BY <2>1 DEF Holds, ChainOf
  <2>3. n * BlockBytes + s.buflen + Len(in) = Len(all)
    BY <1>3, <1>4, <1>5, <1>6, <1>7
  <2>4. Buffering(Absorb(s, in), all)
    BY <2>1, <2>2, <2>3 DEF Buffering
  <2>. QED
    BY <1>10, <2>4 DEF all
<1>11. CASE ~ Overflows(s, in)
  <2>1. s.buflen + Len(in) <= BlockBytes
    BY <1>4, <1>6, <1>11, BlakeAssumption DEF Overflows
  <2>2. Holds(Keep(s, in), n, all) /\ Keep(s, in).buflen = u + k
    BY <1>4, <1>6, <1>8, <1>9, <2>1, KeepHolds
  <2>3. Len(Keep(s, in).h) = n
    BY <2>2 DEF Holds, ChainOf
  <2>4. b + (u + k) = l + k
    <3>1. u \in Nat
      BY BlakeAssumption
    <3>. QED
      BY <1>5, <3>1
  <2>5. l + k > 0 => u + k > 0
    BY <1>1, <1>2, <1>4 DEF Buffering
  <2>6. Buffering(Keep(s, in), all)
    BY <1>3, <1>7, <2>2, <2>3, <2>4, <2>5 DEF Buffering
  <2>. QED
    BY <1>11, <2>6 DEF all
<1>. QED
  BY <1>10, <1>11

\* A buffering state leaves as many blocks as the message has, the last one
\* in the buffer.
LEMMA BlocksAndBuffer ==
  ASSUME NEW s, NEW msg \in Seq(Nat), Buffering(s, msg)
  PROVE  BlockCount(msg) = Len(s.h) + 1
<1>1. PICK n \in Nat : n = Len(s.h) /\ Holds(s, n, msg)
  BY DEF Buffering, Holds
<1>2. PICK l \in Nat : l = Len(msg)
  BY LenProperties
<1>3. PICK b \in Nat : b = n * BlockBytes
  BY <1>1, BlakeAssumption
<1>4. BlockBytes \in Nat \ {0}
  BY BlakeAssumption
<1>5. PICK u \in 0 .. BlockBytes : u = s.buflen
  BY <1>1 DEF Holds, State
<1>6. u \in Nat
  BY <1>4
<1>7. b + u = l /\ (l > 0 => u > 0)
  BY <1>1, <1>2, <1>3, <1>5 DEF Buffering
<1>8. CASE msg = <<>>
  <2>1. l = 0
    BY <1>2, <1>8
  <2>2. b = 0
    BY <1>6, <1>7, <2>1
  <2>3. n = 0
    <3>1. n # 0 => n * BlockBytes # 0
      BY <1>4
    <3>. QED
      BY <1>3, <2>2, <3>1
  <2>. QED
    BY <1>1, <1>8, <2>3 DEF BlockCount
<1>9. CASE msg # <<>>
  <2>1. l > 0
    BY <1>2, <1>9, EmptySeq
  <2>2. PICK r \in 0 .. BlockBytes - 1 : r = u - 1
    BY <1>4, <1>7, <2>1
  <2>3. l + BlockBytes - 1 = (n + 1) * BlockBytes + r
    <3>1. (n + 1) * BlockBytes = b + BlockBytes
      BY <1>3, <1>4
    <3>. QED
      BY <1>4, <1>7, <2>2, <3>1
  <2>4. ((n + 1) * BlockBytes + r) \div BlockBytes = n + 1
    <3>1. PICK q \in Nat : q = n + 1
      OBVIOUS
    <3>2. (q * BlockBytes + r) \div BlockBytes = q
      BY <1>4, DividedOnce
    <3>. QED
      BY <3>1, <3>2
  <2>. QED
    BY <1>1, <1>2, <1>9, <2>3, <2>4 DEF BlockCount
<1>. QED
  BY <1>8, <1>9

\* What final compresses: the buffer, padded, with the last-block flag and the
\* length of the message.
LEMMA FinalBlock ==
  ASSUME NEW s, NEW msg \in Seq(Nat), Buffering(s, msg)
  PROVE  LET z == SetLastBlock(IncrementCounter(s, s.buflen))
             e == [block |-> Padded(s), t |-> Counter(Len(msg)), f |-> <<Flag, 0>>]
         IN  [Compress(z, Padded(z)) EXCEPT !.buf = Padded(z)].h = Append(s.h, e)
<1>1. PICK n \in Nat : n = Len(s.h) /\ Holds(s, n, msg)
  BY DEF Buffering, Holds
<1>2. PICK b \in Nat : b = n * BlockBytes
  BY <1>1, BlakeAssumption
<1>. DEFINE c == Counter(Len(msg))
            y == [h |-> s.h, t |-> c, f |-> s.f, buf |-> s.buf, buflen |-> s.buflen]
            z == [h |-> s.h, t |-> c, f |-> <<Flag, 0>>, buf |-> s.buf, buflen |-> s.buflen]
<1>3. s \in State /\ s.buflen \in 0 .. BlockBytes /\ s.t = Counter(b) /\ s.f = <<0, 0>>
  BY <1>1, <1>2 DEF Holds, ChainOf, State
<1>4. b + s.buflen = Len(msg)
  BY <1>1, <1>2 DEF Buffering
<1>5. IncrementCounter(s, s.buflen) = y
  <2>1. IncrementCounter(s, s.buflen) = [s EXCEPT !.t = Counter(b + s.buflen)]
    BY <1>3, CounterAdds
  <2>. QED
    BY <1>3, <1>4, <2>1 DEF State
<1>6. SetLastBlock(y) = z
  BY <1>3 DEF SetLastBlock
<1>7. Padded(z) = Padded(s)
  BY DEF Padded
<1>. HIDE DEF c
<1>8. [Compress(z, Padded(s)) EXCEPT !.buf = Padded(s)].h
        = Append(s.h, [block |-> Padded(s), t |-> c, f |-> <<Flag, 0>>])
  BY DEF Compress
<1>. QED
  BY <1>5, <1>6, <1>7, <1>8 DEF c

\* The digest final returns is that of the message.
LEMMA FinalHashes ==
  ASSUME NEW s, NEW msg \in Seq(Nat), Buffering(s, msg)
  PROVE  LET e == [block |-> Padded(s), t |-> Counter(Len(msg)), f |-> <<Flag, 0>>]
         IN  Append(s.h, e) = Hash(msg) /\ Append(s.h, e) # <<>>
<1>1. PICK n \in Nat : n = Len(s.h) /\ Holds(s, n, msg)
  BY DEF Buffering, Holds
<1>2. PICK l \in Nat : l = Len(msg)
  BY LenProperties
<1>3. PICK b \in Nat : b = n * BlockBytes
  BY <1>1, BlakeAssumption
<1>4. BlockBytes \in Nat \ {0}
  BY BlakeAssumption
<1>5. PICK u \in 0 .. BlockBytes : u = s.buflen
  BY <1>1 DEF Holds, State
<1>6. u \in Nat /\ u <= BlockBytes
  BY <1>4
<1>7. b + u = l
  BY <1>1, <1>2, <1>3, <1>5 DEF Buffering
<1>8. BlockCount(msg) = n + 1
  BY <1>1, BlocksAndBuffer
<1>. DEFINE e == [block |-> Padded(s), t |-> Counter(l), f |-> <<Flag, 0>>]
            upto(k) == IF k = n + 1 THEN l ELSE k * BlockBytes
            block(k) == [i \in 1 .. BlockBytes |->
                           LET j == (k - 1) * BlockBytes + i
                           IN  IF j <= l THEN msg[j] ELSE 0]
            count(k) == <<upto(k) % WordRange, (upto(k) \div WordRange) % WordRange>>
            row(k) == [block |-> block(k), t |-> count(k),
                       f |-> <<IF k = n + 1 THEN Flag ELSE 0, 0>>]
<1>9. Hash(msg) = [k \in 1 .. n + 1 |-> row(k)]
  BY <1>2, <1>8 DEF Hash
<1>10. row(n + 1) = e
  <2>1. (n + 1 - 1) * BlockBytes = b
    <3>1. n + 1 - 1 = n
      OBVIOUS
    <3>. QED
      BY <1>3, <3>1
  <2>2. ASSUME NEW i \in 1 .. BlockBytes
        PROVE  (IF b + i <= l THEN msg[b + i] ELSE 0) = (IF i <= s.buflen THEN s.buf[i] ELSE 0)
    <3>1. i \in Nat /\ i >= 1
      BY <1>4
    <3>2. b + i <= l <=> i <= u
      BY <1>6, <1>7, <3>1
    <3>3. ASSUME i <= u PROVE s.buf[i] = msg[b + i]
      BY <1>1, <1>3, <1>5, <1>6, <3>1, <3>3 DEF Holds
    <3>. QED
      BY <1>5, <3>2, <3>3
  <2>3. block(n + 1) = Padded(s)
    BY <2>1, <2>2 DEF Padded
  <2>4. upto(n + 1) = l
    OBVIOUS
  <2>5. count(n + 1) = Counter(l)
    <3>. HIDE DEF upto
    <3>. QED
      BY <2>4 DEF Counter
  <2>. HIDE DEF block, count
  <2>. QED
    BY <2>3, <2>5
<1>11. ASSUME NEW k \in 1 .. n
       PROVE  row(k) = [block |-> Block(msg, k - 1), t |-> Counter(k * BlockBytes),
                        f |-> <<0, 0>>]
  <2>1. PICK a \in Nat : a = (k - 1) * BlockBytes /\ a + BlockBytes <= b
    <3>1. k - 1 \in Nat /\ k - 1 < n
      OBVIOUS
    <3>. QED
      BY <1>3, <3>1, BlocksInOrder
  <2>2. ASSUME NEW i \in 1 .. BlockBytes PROVE a + i <= l
    BY <1>4, <1>6, <1>7, <2>1
  <2>3. block(k) = Block(msg, k - 1)
    BY <2>1, <2>2 DEF Block
  <2>4. k # n + 1 /\ upto(k) = k * BlockBytes
    OBVIOUS
  <2>5. count(k) = Counter(k * BlockBytes)
    <3>. HIDE DEF upto
    <3>. QED
      BY <2>4 DEF Counter
  <2>. HIDE DEF block, count
  <2>. QED
    BY <2>3, <2>4, <2>5
<1>. HIDE DEF e, row
<1>12. /\ Append(s.h, e) \in [1 .. n + 1 -> Compressed \cup {e}]
       /\ Append(s.h, e)[n + 1] = e
       /\ \A k \in 1 .. n : Append(s.h, e)[k] = s.h[k]
  <2>1. s.h \in Seq(Compressed) /\ Len(s.h) = n
    BY <1>1 DEF Holds, State
  <2>. DEFINE T == Compressed \cup {e}
  <2>2. s.h \in Seq(T) /\ e \in T
    <3>1. s.h \in [1 .. n -> Compressed]
      BY <2>1
    <3>2. \A k \in 1 .. n : s.h[k] \in T
      BY <3>1
    <3>3. s.h \in [1 .. n -> T]
      <4>. HIDE DEF T
      <4>. QED
        BY <3>1, <3>2
    <3>. QED
      BY <3>3
  <2>. HIDE DEF T
  <2>3. /\ Append(s.h, e) \in Seq(T) /\ Len(Append(s.h, e)) = n + 1
        /\ Append(s.h, e)[n + 1] = e
        /\ \A k \in 1 .. n : Append(s.h, e)[k] = s.h[k]
    BY <2>1, <2>2, AppendProperties
  <2>4. Append(s.h, e) \in [1 .. n + 1 -> T]
    <3>1. PICK q \in Seq(T) : q = Append(s.h, e)
      BY <2>3
    <3>2. q \in [1 .. Len(q) -> T] /\ Len(q) = n + 1
      BY <2>3, <3>1, LenProperties
    <3>. QED
      BY <3>1, <3>2
  <2>. QED
    BY <2>3, <2>4 DEF T
<1>13. ASSUME NEW k \in 1 .. n + 1 PROVE Append(s.h, e)[k] = row(k)
  <2>1. CASE k = n + 1
    BY <1>10, <1>12, <2>1
  <2>2. CASE k # n + 1
    <3>1. k \in 1 .. n
      BY <2>2
    <3>2. s.h[k] = [block |-> Block(msg, k - 1), t |-> Counter(k * BlockBytes), f |-> <<0, 0>>]
      BY <1>1, <3>1 DEF Holds, ChainOf
    <3>. QED
      BY <1>11, <1>12, <3>1, <3>2
  <2>. QED
    BY <2>1, <2>2
<1>14. Append(s.h, e) = Hash(msg)
  BY <1>9, <1>12, <1>13
<1>15. Append(s.h, e) # <<>>
  <2>1. n \in Nat
    BY <1>1
  <2>2. 1 \in DOMAIN Append(s.h, e)
    BY <1>12, <2>1
  <2>3. DOMAIN <<>> = {}
    OBVIOUS
  <2>. QED
    BY <2>2, <2>3
<1>. QED
  BY <1>2, <1>14, <1>15 DEF e

\* Every step of the hash preserves the invariant.
LEMMA BNextPreserves == BlakeInv /\ [BNext]_bvars => BlakeInv'
<1>. SUFFICES ASSUME BlakeInv, [BNext]_bvars PROVE BlakeInv'
  OBVIOUS
<1>1. ASSUME NEW in \in Chunks, Update(in) PROVE BlakeInv'
  <2>1. digest = <<>> /\ digest' = <<>> /\ fed' = fed \o in
        /\ S' = IF Overflows(S, in) THEN Absorb(S, in) ELSE Keep(S, in)
    BY <1>1 DEF Update
  <2>2. fed \in Seq(Nat) /\ in \in Seq(Nat) /\ Buffering(S, fed)
    BY <2>1, ChunkIsSequence DEF BlakeInv
  <2>3. Buffering(IF Overflows(S, in) THEN Absorb(S, in) ELSE Keep(S, in), fed \o in)
    BY <2>2, UpdateBuffers
  <2>4. Buffering(S', fed')
    BY <2>1, <2>3
  <2>5. fed' \in Seq(Nat) /\ Len(fed') <= MaxMessage
    <3>1. Len(fed) + Len(in) <= MaxMessage
      BY <1>1 DEF Update
    <3>2. fed \o in \in Seq(Nat) /\ Len(fed \o in) = Len(fed) + Len(in)
      BY <2>2, ConcatProperties
    <3>. QED
      BY <2>1, <3>1, <3>2
  <2>. QED
    BY <2>1, <2>4, <2>5 DEF BlakeInv
<1>2. ASSUME Final PROVE BlakeInv'
  <2>. DEFINE z == SetLastBlock(IncrementCounter(S, S.buflen))
              e == [block |-> Padded(S), t |-> Counter(Len(fed)), f |-> <<Flag, 0>>]
  <2>1. digest = <<>> /\ digest' = S'.h /\ fed' = fed
        /\ S' = [Compress(z, Padded(z)) EXCEPT !.buf = Padded(z)]
    BY <1>2 DEF Final
  <2>2. fed \in Seq(Nat) /\ Buffering(S, fed)
    BY <2>1 DEF BlakeInv
  <2>3. [Compress(z, Padded(z)) EXCEPT !.buf = Padded(z)].h = Append(S.h, e)
    BY <2>2, FinalBlock
  <2>4. Append(S.h, e) = Hash(fed) /\ Append(S.h, e) # <<>>
    BY <2>2, FinalHashes
  <2>. HIDE DEF z, e
  <2>5. digest' = Hash(fed) /\ digest' # <<>>
    BY <2>1, <2>3, <2>4
  <2>6. Hash(fed)' = Hash(fed)
    BY <2>1 DEF Hash, BlockCount
  <2>. QED
    BY <2>1, <2>2, <2>5, <2>6 DEF BlakeInv
<1>3. CASE UNCHANGED bvars
  BY <1>3 DEF bvars, BlakeInv, Buffering, Holds, ChainOf, Hash, BlockCount
<1>. QED
  BY <1>1, <1>2, <1>3 DEF BNext

\* The inductive invariant holds in every state.
THEOREM BlakeInvariance == BSpec => []BlakeInv
<1>. QED
  BY BInitEstablishes, BNextPreserves, PTL DEF BSpec

\* The digest depends on the bytes and not on how they are cut into updates:
\* for every size of block, of counter word and of message, blake2b_update
\* (lines 155-178) and blake2b_final feed the compression function exactly
\* the blocks, counters and flags of the whole message.
THEOREM DigestOfTheMessage == BSpec => []ChunkingInvisible
<1>1. BlakeInv => ChunkingInvisible
  BY DEF BlakeInv, ChunkingInvisible
<1>. QED
  BY <1>1, BlakeInvariance, PTL

\* The two words together count every number below their range.
LEMMA CounterCounts ==
  ASSUME NEW x \in Nat, x < WordRange * WordRange
  PROVE  Counter(x)[1] + Counter(x)[2] * WordRange = x
<1>. DEFINE w == WordRange
<1>1. w \in Nat \ {0} /\ x < w * w
  BY BlakeAssumption
<1>. HIDE DEF w
<1>2. PICK q \in Nat, r \in 0 .. w - 1 : x = q * w + r /\ x % w = r /\ x \div w = q
  BY <1>1, Divided
<1>3. q < w
  <2>1. ASSUME q >= w PROVE FALSE
    <3>1. q * w >= w * w
      BY <1>1, <2>1
    <3>2. PICK y \in Nat, z \in Nat : y = q * w /\ z = w * w
      BY <1>1
    <3>. QED
      BY <1>1, <1>2, <3>1, <3>2
  <2>. QED
    BY <1>1, <2>1
<1>4. q % w = q
  <2>1. q \in 0 .. w - 1 /\ 0 \in Nat
    BY <1>1, <1>3
  <2>2. (0 * w + q) % w = q
    BY <1>1, <2>1, DividedOnce
  <2>. QED
    BY <1>1, <2>2
<1>5. Counter(x) = <<r, q>>
  BY <1>2, <1>4 DEF Counter, w
<1>6. r + q * w = x
  <2>1. PICK y \in Nat : y = q * w
    BY <1>1
  <2>. QED
    BY <1>1, <1>2, <2>1
<1>. QED
  BY <1>5, <1>6 DEF w

\* Before final nothing fed is lost: it is compressed, counted, or in the
\* buffer, which is not empty once a byte was fed.  A message stays below what
\* the two words of the counter count (2^128 bytes in the code; the code does
\* not look for the end of the second word).
THEOREM LastBlockHeldBack ==
  MaxMessage < WordRange * WordRange /\ BSpec => []BufferHoldsBack
<1>. SUFFICES ASSUME MaxMessage < WordRange * WordRange PROVE BSpec => []BufferHoldsBack
  OBVIOUS
<1>1. ASSUME BlakeInv, digest = <<>>
      PROVE  /\ Len(S.h) * BlockBytes + S.buflen = Len(fed)
             /\ S.t[1] + S.t[2] * WordRange = Len(S.h) * BlockBytes
             /\ S.buflen \in 0 .. BlockBytes
             /\ fed # <<>> => S.buflen > 0
             /\ SubSeq(S.buf, 1, S.buflen) = SubSeq(fed, Len(fed) - S.buflen + 1, Len(fed))
  <2>1. fed \in Seq(Nat) /\ Buffering(S, fed)
    BY <1>1 DEF BlakeInv
  <2>2. PICK n \in Nat : n = Len(S.h) /\ Holds(S, n, fed)
    BY <2>1 DEF Buffering, Holds
  <2>3. PICK l \in Nat : l = Len(fed)
    BY <2>1, LenProperties
  <2>4. PICK b \in Nat : b = n * BlockBytes
    BY <2>2, BlakeAssumption
  <2>5. BlockBytes \in Nat \ {0} /\ MaxMessage \in Nat /\ WordRange * WordRange \in Nat
    BY BlakeAssumption
  <2>6. PICK u \in Nat : u = S.buflen /\ u \in 0 .. BlockBytes
    BY <2>2, <2>5 DEF Holds, State
  <2>7. b + u = l /\ (l > 0 => u > 0) /\ l <= MaxMessage
    BY <1>1, <2>1, <2>2, <2>3, <2>4, <2>6 DEF Buffering, BlakeInv
  <2>8. S.t[1] + S.t[2] * WordRange = b
    <3>1. b < WordRange * WordRange
      <4>1. PICK w \in Nat : w = WordRange * WordRange
        BY <2>5
      <4>. QED
        BY <1>1, <2>5, <2>7, <4>1
    <3>2. S.t = Counter(b)
      BY <2>2, <2>4 DEF Holds, ChainOf
    <3>3. Counter(b)[1] + Counter(b)[2] * WordRange = b
      BY <3>1, CounterCounts
    <3>. QED
      BY <3>2, <3>3
  <2>9. fed # <<>> => u > 0
    BY <2>1, <2>3, <2>7, EmptySeq
  <2>10. SubSeq(S.buf, 1, u) = SubSeq(fed, b + 1, l)
    <3>1. S.buf \in Seq(Nat) /\ Len(S.buf) = BlockBytes
      BY <2>2, <2>5 DEF Holds, State
    <3>2. PICK z \in Nat : z = 0
      OBVIOUS
    <3>3. /\ SubSeq(S.buf, z + 1, u) \in Seq(Nat) /\ Len(SubSeq(S.buf, z + 1, u)) = u - z
          /\ \A i \in 1 .. u - z : SubSeq(S.buf, z + 1, u)[i] = S.buf[z + i]
      <4>1. z <= u /\ u <= Len(S.buf)
        BY <2>5, <2>6, <3>1, <3>2
      <4>. QED
        BY <3>1, <4>1, Slice
    <3>4. /\ SubSeq(fed, b + 1, l) \in Seq(Nat) /\ Len(SubSeq(fed, b + 1, l)) = l - b
          /\ \A i \in 1 .. l - b : SubSeq(fed, b + 1, l)[i] = fed[b + i]
      <4>1. b <= l /\ l <= Len(fed)
        BY <2>3, <2>7
      <4>. QED
        BY <2>1, <4>1, Slice
    <3>5. z + 1 = 1 /\ u - z = u /\ l - b = u /\ \A i \in 1 .. u : z + i = i
      BY <2>7, <3>2
    <3>. DEFINE p == SubSeq(S.buf, 1, u)
                q == SubSeq(fed, b + 1, l)
    <3>6. p \in Seq(Nat) /\ Len(p) = u /\ \A i \in 1 .. u : p[i] = S.buf[i]
      BY <3>3, <3>5
    <3>7. q \in Seq(Nat) /\ Len(q) = u /\ \A i \in 1 .. u : q[i] = fed[b + i]
      BY <3>4, <3>5
    <3>8. \A i \in 1 .. u : S.buf[i] = fed[b + i]
      BY <2>2, <2>4, <2>6 DEF Holds
    <3>. HIDE DEF p, q
    <3>9. p = q
      <4>1. \A i \in 1 .. u : p[i] = q[i]
        BY <3>6, <3>7, <3>8
      <4>. QED
        BY <3>6, <3>7, <4>1, SeqEqual
    <3>. QED
      BY <3>9 DEF p, q
  <2>11. l - u + 1 = b + 1
    BY <2>7
  <2>. QED
    BY <2>2, <2>3, <2>4, <2>6, <2>7, <2>8, <2>9, <2>10, <2>11
<1>2. BlakeInv => BufferHoldsBack
  BY <1>1 DEF BufferHoldsBack
<1>. QED
  BY <1>2, BlakeInvariance, PTL

-----------------------------------------------------------------------------
(***************************************************************************)
(* The programs: the inductive invariant.                                  *)
(***************************************************************************)
Stages == {"usage", "map1", "map2", "open", "read", "library", "flush", "sync",
           "close", "unmap", "exiting", "crashed"}

Contents == {Missing, Original} \cup 0 .. Pieces

TTypeOK ==
  /\ tool \in {"qbdiff", "qbpatch"} /\ syncable \in BOOLEAN
  /\ in1 \in Paths /\ in2 \in Paths /\ out \in Paths
  /\ stage \in Stages
  /\ status \in {"running", "exit0", "exit1", "killed", "crashed"}
  /\ handed \in 0 .. Pieces
  /\ file \in [Paths -> Contents] /\ disk \in [Paths -> Contents]

\* From the moment the output is opened until main ends, and whenever the stream
\* holds something, both inputs are mapped.
InputsMapped ==
  status = "running" =>
    /\ stage = "map2" => in1 \in mapped
    /\ stage \in {"open", "read", "library", "flush", "sync", "close", "unmap"}
         => {in1, in2} \subseteq mapped
    /\ handed > 0 => {in1, in2} \subseteq mapped

\* The stages behind the flush are reached with the whole output in the page
\* cache, those behind fsync with the output on the medium.
FlushedInOrder ==
  /\ stage = "flush" => handed = Pieces
  /\ stage \in {"sync", "close", "unmap"} => file[out] = Pieces
  /\ stage \in {"close", "unmap"} /\ syncable => disk[out] = Pieces

\* A run that has reported success was at its end, or the machine has crashed
\* since and has lost nothing of an output that was on the medium.
SuccessLasts ==
  status = "exit0" =>
    /\ stage \in {"unmap", "crashed"}
    /\ stage = "crashed" /\ syncable => file[out] = Pieces /\ disk[out] = Pieces

ToolsInv == TTypeOK /\ InputsMapped /\ FlushedInOrder /\ SuccessLasts

-----------------------------------------------------------------------------
(***************************************************************************)
(* The invariant is inductive.                                             *)
(***************************************************************************)
\* Where each stage leads.
LEMMA AfterStage ==
  /\ After["usage"] = "map1" /\ After["map1"] = "map2" /\ After["map2"] = "open"
  /\ After["open"] = "read" /\ After["read"] = "library" /\ After["library"] = "flush"
  /\ After["flush"] = "sync" /\ After["sync"] = "close" /\ After["close"] = "unmap"
BY DEF After

\* The tools start with nothing mapped or written.
LEMMA InitEstablishes == TInit => ToolsInv
BY ToolsAssumption
   DEF TInit, Arguments, ToolsInv, TTypeOK, InputsMapped, FlushedInOrder, SuccessLasts, Stages,
       Contents, Missing, Original, Empty

\* The calls of main up to the opening of the output.
LEMMA OpeningPreserves ==
  ToolsInv /\ (Usage \/ MapFirst \/ MapSecond \/ OpenOutput) => ToolsInv'
<1>. SUFFICES ASSUME ToolsInv, Usage \/ MapFirst \/ MapSecond \/ OpenOutput PROVE ToolsInv'
  OBVIOUS
<1>. USE ToolsAssumption, AfterStage
     DEF ToolsInv, Usage, MapFirst, MapSecond, OpenOutput, MapFile, At, Proceed, Exits, setting
<1>1. TTypeOK'
  BY DEF TTypeOK, Stages, Contents, Empty
<1>2. InputsMapped'
  BY DEF TTypeOK, InputsMapped
<1>3. FlushedInOrder' /\ SuccessLasts'
  BY DEF TTypeOK, FlushedInOrder, SuccessLasts
<1>. QED
  BY <1>1, <1>2, <1>3

\* The library and its output stream.
LEMMA LibraryPreserves ==
  ToolsInv /\ (ReadInputs \/ Fwrite \/ StreamWrites \/ LibraryReturns \/ LibraryFails) => ToolsInv'
<1>. SUFFICES ASSUME ToolsInv,
                     ReadInputs \/ Fwrite \/ StreamWrites \/ LibraryReturns \/ LibraryFails
              PROVE  ToolsInv'
  OBVIOUS
<1>. USE ToolsAssumption, AfterStage
     DEF ToolsInv, ReadInputs, Fwrite, StreamWrites, LibraryReturns, LibraryFails, At, Proceed,
         Exits, setting
<1>1. TTypeOK'
  BY DEF TTypeOK, Stages, Contents
<1>2. InputsMapped'
  BY DEF TTypeOK, InputsMapped
<1>3. FlushedInOrder'
  BY DEF TTypeOK, FlushedInOrder
<1>4. SuccessLasts'
  BY DEF TTypeOK, SuccessLasts
<1>. QED
  BY <1>1, <1>2, <1>3, <1>4

\* close_out_file and the end of main.
LEMMA ClosingPreserves ==
  ToolsInv /\ (Flush \/ Fsync \/ Fclose \/ UnmapAndReturn \/ ExitFailing) => ToolsInv'
<1>. SUFFICES ASSUME ToolsInv, Flush \/ Fsync \/ Fclose \/ UnmapAndReturn \/ ExitFailing
              PROVE  ToolsInv'
  OBVIOUS
<1>. USE ToolsAssumption, AfterStage DEF ToolsInv, At, Proceed, Exits, setting
<1>1. CASE Flush
  BY <1>1 DEF Flush, TTypeOK, Stages, InputsMapped, FlushedInOrder, SuccessLasts
<1>2. CASE Fsync
  <2>1. PICK answer \in Answers :
          \/ Fatal(answer) /\ Exits
          \/ Retried(answer) /\ UNCHANGED tvars
          \/ /\ ~Fatal(answer) /\ ~Retried(answer)
             /\ stage' = After[stage]
             /\ disk' = IF answer = "ok" THEN [disk EXCEPT ![out] = file[out]] ELSE disk
             /\ UNCHANGED <<setting, mapped, handed, status, file>>
    BY <1>2 DEF Fsync
  <2>2. CASE Exits \/ UNCHANGED tvars
    BY <1>2, <2>2 DEF Fsync, TTypeOK, Stages, InputsMapped, FlushedInOrder, SuccessLasts, tvars
  <2>3. CASE /\ ~Fatal(answer) /\ ~Retried(answer)
             /\ stage' = After[stage]
             /\ disk' = IF answer = "ok" THEN [disk EXCEPT ![out] = file[out]] ELSE disk
             /\ UNCHANGED <<setting, mapped, handed, status, file>>
    <3>1. stage = "sync" /\ status = "running" /\ stage' = "close"
      BY <1>2, <2>3 DEF Fsync
    <3>2. syncable => answer = "ok"
      BY <2>3 DEF Answers, Fatal, Retried
    <3>. QED
      BY <2>3, <3>1, <3>2 DEF TTypeOK, Stages, InputsMapped, FlushedInOrder, SuccessLasts
  <2>. QED
    BY <2>1, <2>2, <2>3
<1>3. CASE Fclose \/ UnmapAndReturn \/ ExitFailing
  BY <1>3 DEF Fclose, UnmapAndReturn, ExitFailing, TTypeOK, Stages, InputsMapped, FlushedInOrder,
              SuccessLasts
<1>. QED
  BY <1>1, <1>2, <1>3

\* The kernel writes back at any time, and the machine may crash at any time.
LEMMA MachinePreserves ==
  ToolsInv /\ ((\E path \in Paths : Writeback(path)) \/ Crash) => ToolsInv'
<1>. SUFFICES ASSUME ToolsInv, (\E path \in Paths : Writeback(path)) \/ Crash PROVE ToolsInv'
  OBVIOUS
<1>. USE ToolsAssumption DEF ToolsInv, setting
<1>1. CASE \E path \in Paths : Writeback(path)
  BY <1>1 DEF Writeback, TTypeOK, InputsMapped, FlushedInOrder, SuccessLasts
<1>2. CASE Crash
  BY <1>2 DEF Crash, TTypeOK, Stages, InputsMapped, FlushedInOrder, SuccessLasts
<1>. QED
  BY <1>1, <1>2

-----------------------------------------------------------------------------
(***************************************************************************)
(* The theorems.                                                           *)
(***************************************************************************)
LEMMA NextPreserves == ToolsInv /\ [TNext]_tvars => ToolsInv'
<1>. SUFFICES ASSUME ToolsInv, [TNext]_tvars PROVE ToolsInv'
  OBVIOUS
<1>1. CASE UNCHANGED tvars
  BY <1>1 DEF tvars, setting, ToolsInv, TTypeOK, InputsMapped, FlushedInOrder, SuccessLasts
<1>. QED
  BY <1>1, OpeningPreserves, LibraryPreserves, ClosingPreserves, MachinePreserves DEF TNext, Main

\* The inductive invariant holds in every state of both programs.
THEOREM Invariance == TSpec => []ToolsInv
<1>1. TInit => ToolsInv
  BY InitEstablishes
<1>2. ToolsInv /\ [TNext]_tvars => ToolsInv'
  BY NextPreserves
<1>. QED
  BY <1>1, <1>2, PTL DEF TSpec

\* A run that reports success has left the whole output, on the medium if fsync
\* is supported there: a crash right after does not take it back.
THEOREM SuccessIsAlwaysDurable == TSpec => []SuccessIsDurable
<1>1. ToolsInv => SuccessIsDurable
  BY DEF ToolsInv, FlushedInOrder, SuccessLasts, SuccessIsDurable
<1>. QED
  BY <1>1, Invariance, PTL

\* No run touches the file at the output path before both inputs are mapped.
THEOREM OutputComesAfterInputs == TSpec => OutputAfterInputs
<1>. DEFINE A == file'[out] # file[out] /\ stage' # "crashed" => {in1, in2} \subseteq mapped
<1>1. ToolsInv /\ [TNext]_tvars => [A]_tvars
  <2>. SUFFICES ASSUME ToolsInv, TNext, file' # file, stage' # "crashed"
                PROVE  {in1, in2} \subseteq mapped
    OBVIOUS
  <2>1. OpenOutput \/ StreamWrites
    BY DEF TNext, Main, Usage, MapFirst, MapSecond, MapFile, ReadInputs, Fwrite, LibraryReturns,
           LibraryFails, Flush, Fsync, Fclose, UnmapAndReturn, ExitFailing, Writeback, Crash, Proceed,
           Exits, setting, tvars
  <2>2. CASE OpenOutput
    BY <2>2 DEF OpenOutput, Exits, At, ToolsInv, InputsMapped
  <2>3. CASE StreamWrites
    <3>1. status = "running" /\ handed > 0
      BY <2>3, ToolsAssumption DEF StreamWrites, ToolsInv, TTypeOK
    <3>. QED
      BY <3>1 DEF ToolsInv, InputsMapped
  <2>. QED
    BY <2>1, <2>2, <2>3
<1>. QED
  BY <1>1, Invariance, PTL DEF TSpec, OutputAfterInputs

=============================================================================

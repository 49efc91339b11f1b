--------------------------- MODULE SaisOmpProofs ---------------------------
(***************************************************************************)
(* Proofs about module SaisOmp, for texts of every size, any number of     *)
(* threads and caches of any size, and every interleaving of the threads.  *)
(***************************************************************************)
EXTENDS SaisOmp, FiniteSetTheorems, SequenceTheorems, TLAPS

-----------------------------------------------------------------------------
(***************************************************************************)
(* The parts of the threads.                                               *)
(***************************************************************************)
\* Division leaves a remainder.
LEMMA Divided ==
  ASSUME NEW a \in Nat, NEW b \in Nat \ {0}
  PROVE  a \div b \in Nat /\ \E r \in 0 .. b - 1 : a = (a \div b) * b + r
<1>1. /\ a \div b \in Nat /\ a % b \in 0 .. b - 1
      /\ a = (a \div b) * b + (a % b)
  OBVIOUS
<1>. QED
  BY <1>1

\* The stride of a thread: all of them together take no more than there is, and
\* what is left over is less than a block and a thread each.
LEMMA StrideType ==
  ASSUME NEW size \in Nat
  PROVE  /\ Stride(size) \in Nat
         /\ NThreads * Stride(size) <= size
         /\ size < NThreads * (Stride(size) + Align)
<1>1. NThreads \in Nat \ {0, 1} /\ Align \in Nat \ {0}
  BY ThreadsAssumption
<1>2. PICK q \in Nat, r \in 0 .. NThreads - 1 : size = q * NThreads + r /\ q = size \div NThreads
  BY <1>1, Divided
<1>3. PICK b \in Nat, e \in 0 .. Align - 1 : q = b * Align + e /\ b = q \div Align
  BY <1>1, Divided
<1>4. PICK s \in Nat : s = Stride(size) /\ s = Align * b
  BY <1>1, <1>2, <1>3 DEF Stride
<1>5. s <= q /\ q + 1 <= s + Align
  BY <1>1, <1>3, <1>4
<1>6. NThreads * s <= NThreads * q /\ NThreads * (q + 1) <= NThreads * (s + Align)
  BY <1>1, <1>5
<1>7. NThreads * (q + 1) = NThreads * q + NThreads
  BY <1>1
<1>8. NThreads * q \in Nat /\ NThreads * s \in Nat /\ NThreads * (s + Align) \in Nat
  BY <1>1
<1>. QED
  BY <1>1, <1>2, <1>4, <1>6, <1>7, <1>8

\* Each part begins and ends in the array; the parts follow each other, and the
\* last one ends where the array does.
LEMMA PartBounds ==
  ASSUME NEW size \in Nat, NEW t \in Threads
  PROVE  /\ From(t, size) \in Nat /\ Part(t, size) \in Nat
         /\ From(t, size) + Part(t, size) <= size
         /\ t = LastThread => From(t, size) + Part(t, size) = size
         /\ t # LastThread => Part(t, size) = Stride(size)
         /\ \A u \in Threads : t < u => From(t, size) + Part(t, size) <= From(u, size)
<1>1. NThreads \in Nat \ {0, 1}
  BY ThreadsAssumption
<1>2. PICK s \in Nat : s = Stride(size) /\ NThreads * s <= size
  BY StrideType
<1>3. t \in Nat /\ t <= NThreads - 1 /\ LastThread = NThreads - 1 /\ LastThread \in Nat
  BY <1>1 DEF Threads, LastThread
<1>4. \A u \in Threads : From(u, size) = u * s /\ u * s \in Nat
  BY <1>2 DEF From, Threads
<1>5. ASSUME NEW u \in Nat, u < NThreads PROVE u * s + s <= NThreads * s
  <2>1. (u + 1) * s <= NThreads * s
    BY <1>1, <1>2, <1>5
  <2>. QED
    BY <2>1
<1>6. NThreads * s \in Nat /\ t * s \in Nat /\ t * s + s <= NThreads * s
  BY <1>1, <1>3, <1>5
<1>7. CASE t = LastThread
  <2>1. From(t, size) = t * s /\ Part(t, size) = size - t * s
    BY <1>4, <1>7 DEF Part
  <2>2. \A u \in Threads : ~ (t < u)
    BY <1>3, <1>7 DEF Threads
  <2>. QED
    BY <1>2, <1>6, <1>7, <2>1, <2>2
<1>8. CASE t # LastThread
  <2>1. From(t, size) = t * s /\ Part(t, size) = s
    BY <1>2, <1>4, <1>8 DEF Part
  <2>2. ASSUME NEW u \in Threads, t < u PROVE t * s + s <= u * s
    <3>1. u \in Nat /\ t + 1 <= u
      BY <1>3, <2>2 DEF Threads
    <3>2. (t + 1) * s <= u * s
      BY <1>3, <3>1
    <3>. QED
      BY <1>3, <3>2
  <2>. QED
    BY <1>2, <1>4, <1>6, <1>8, <2>1, <2>2
<1>. QED
  BY <1>7, <1>8

\* Elements of the parts of two threads are different.
LEMMA PartsDisjoint ==
  ASSUME NEW size \in Nat, NEW t \in Threads, NEW u \in Threads, t # u,
         NEW i \in Int, NEW j \in Int, i < Part(t, size), j < Part(u, size), i >= 0, j >= 0
  PROVE  From(t, size) + i # From(u, size) + j
<1>1. t < u \/ u < t
  BY DEF Threads
<1>2. /\ From(t, size) \in Nat /\ Part(t, size) \in Nat
      /\ From(u, size) \in Nat /\ Part(u, size) \in Nat
  BY PartBounds
<1>3. \/ From(t, size) + Part(t, size) <= From(u, size)
      \/ From(u, size) + Part(u, size) <= From(t, size)
  BY <1>1, PartBounds
<1>. QED
  BY <1>2, <1>3

\* No element is in the parts of two threads.
LEMMA PartsApart ==
  ASSUME NEW size \in Nat, NEW t \in Threads, NEW u \in Threads, t # u
  PROVE  \A i \in From(t, size) .. From(t, size) + Part(t, size) - 1 :
           i \notin From(u, size) .. From(u, size) + Part(u, size) - 1
<1>1. PICK f \in Nat, p \in Nat, g \in Nat, q \in Nat :
        f = From(t, size) /\ p = Part(t, size) /\ g = From(u, size) /\ q = Part(u, size)
  BY PartBounds
<1>2. t < u \/ u < t
  BY DEF Threads
<1>3. f + p <= g \/ g + q <= f
  BY <1>1, <1>2, PartBounds
<1>. QED
  BY <1>1, <1>3

\* Every element is in the part of a thread.
LEMMA PartsCover ==
  ASSUME NEW size \in Nat, NEW i \in 0 .. size - 1
  PROVE  \E t \in Threads : i \in From(t, size) .. From(t, size) + Part(t, size) - 1
<1>1. NThreads \in Nat \ {0, 1} /\ LastThread \in Threads /\ LastThread = NThreads - 1
  BY ThreadsAssumption DEF Threads, LastThread
<1>2. PICK s \in Nat : s = Stride(size) /\ NThreads * s <= size
  BY StrideType
<1>3. \A t \in Threads : From(t, size) = t * s /\ t * s \in Nat
  BY <1>2 DEF From, Threads
<1>4. CASE i >= From(LastThread, size)
  <2>1. From(LastThread, size) + Part(LastThread, size) = size /\ From(LastThread, size) \in Nat
        /\ Part(LastThread, size) \in Nat
    BY <1>1, PartBounds
  <2>. QED
    BY <1>1, <1>4, <2>1
<1>5. CASE i < From(LastThread, size)
  <2>1. i < LastThread * s /\ LastThread * s \in Nat
    BY <1>1, <1>3, <1>5
  <2>2. s # 0
    BY <1>1, <2>1
  <2>3. PICK t \in Nat, e \in 0 .. s - 1 : i = t * s + e
    <3>1. i \in Nat /\ s \in Nat \ {0}
      BY <2>2
    <3>. QED
      BY <3>1, Divided
  <2>4. t < LastThread
    <3>. SUFFICES ASSUME LastThread <= t PROVE FALSE
      BY <1>1
    <3>1. LastThread * s <= t * s
      BY <1>1
    <3>2. t * s \in Nat
      OBVIOUS
    <3>. QED
      BY <2>1, <2>3, <3>1, <3>2
  <2>5. t \in Threads /\ t # LastThread
    BY <1>1, <2>4 DEF Threads
  <2>6. From(t, size) = t * s /\ Part(t, size) = s /\ t * s \in Nat
    BY <1>2, <1>3, <2>5, PartBounds
  <2>. QED
    BY <2>3, <2>5, <2>6
<1>. QED
  <2>1. From(LastThread, size) \in Nat
    BY <1>1, PartBounds
  <2>. QED
    BY <1>4, <1>5, <2>1

-----------------------------------------------------------------------------
(***************************************************************************)
(* Widening in place: the inductive invariant.                             *)
(***************************************************************************)
\* The call a sort was made with.
JobGiven ==
  /\ kind \in {"8u", "6k", "4k", "2k", "1k", "wide", "wide_names"}
  /\ n \in Nat /\ n >= Threshold /\ text \in [0 .. n - 1 -> 0 .. Symbols - 1]
  /\ Wide => n <= Half - 1

MemoryKept == DOMAIN mem = 0 .. CacheAt + 2 * NThreads * CacheSize - 1

\* Where the sort of a wide array is.  Half of what is narrow, or less, is being
\* widened.
WideControl ==
  /\ pc \in {"count", "halve", "widen", "done"}
  /\ at \in [Threads -> Nat]
  /\ pc # "count" => run \in 0 .. n
  /\ pc = "widen" => m \in Nat /\ m <= run /\ run + m <= n

\* An entry is narrow as long as no thread has come to it.
StillNarrow(i) ==
  /\ pc # "done"
  /\ \/ i < run
     \/ /\ pc = "widen"
        /\ \E t \in Threads : i \in run + From(t, m) + at[t] .. run + From(t, m) + Part(t, m) - 1

\* Once sorted, each entry is where it was put, narrow or wide.
WideEntries ==
  pc # "count" =>
    \A i \in 0 .. n - 1 :
      IF StillNarrow(i) THEN mem[i] = SuffixArray(text, n)[i]
                        ELSE mem[2 * i] = SuffixArray(text, n)[i] /\ mem[2 * i + 1] = 0

\* The text is as it was given, and from the sort on it is narrow.
WideText ==
  /\ pc = "count" => \A a \in DOMAIN Given : mem[a] = Given[a]
  /\ pc # "count" => \A p \in 0 .. n - 1 : mem[F.T + p] = text[p]

\* A wide array needs no caches.
NothingCached == th = [t \in Threads |-> th[t]] /\ \A t \in Threads : th[t].cache = <<>>

\* The smallest variant of libsais_main_32s does without the radix sort scan.
NoRadix == kind = "1k" => scan # "radix"

WideInv ==
  /\ JobGiven /\ NoRadix
  /\ Wide => MemoryKept /\ WideControl /\ WideEntries /\ WideText /\ NothingCached

-----------------------------------------------------------------------------
(***************************************************************************)
(* The invariant is inductive.                                             *)
(***************************************************************************)
\* The frame of a wide array: the narrow array and its free space, and the wide
\* entries, end before the text begins.
LEMMA WideFrame ==
  ASSUME JobGiven, Wide
  PROVE  /\ F.T = 2 * n + 2 /\ F.fs \in Nat /\ n + F.fs <= F.T
         /\ CacheAt = 4 * n + 2
         /\ kind # "8u"
<1>1. kind \in {"wide", "wide_names"} /\ n \in Nat /\ n <= Half - 1 /\ Half \in Nat
  BY HalfAssumption DEF JobGiven, Wide
<1>2. F.T = 2 * (n + WideFree) /\ F.fs = NarrowFree(n) /\ WideFree = 1
  BY <1>1 DEF F, Wide, WideFree
<1>3. F.fs \in Nat /\ n + F.fs <= 2 * n + 2
  BY <1>1, <1>2 DEF NarrowFree
<1>4. CacheAt = F.T + 2 * n + 0
  BY <1>1, <1>2 DEF CacheAt, Wide
<1>. QED
  BY <1>1, <1>2, <1>3, <1>4

\* What a step leaves of the call.
LEMMA CallKept ==
  ASSUME UNCHANGED <<kind, text>>
  PROVE  /\ n' = n /\ F' = F /\ CacheAt' = CacheAt /\ (Wide <=> Wide')
         /\ Given' = Given
         /\ (JobGiven <=> JobGiven')
BY DEF n, F, CacheAt, Wide, Given, JobGiven, PerSymbol

\* The initial state.
LEMMA WideStarts == ThreadsInit => WideInv
<1>. SUFFICES ASSUME ThreadsInit PROVE WideInv
  OBVIOUS
<1>1. PICK job \in Jobs : kind = job.kind /\ text = job.text
  BY DEF ThreadsInit
<1>2. JobGiven /\ NoRadix
  <2>1. JobGiven
    BY <1>1, ThreadsAssumption, WideAssumption DEF JobGiven, n, Wide
  <2>2. NoRadix
    BY DEF ThreadsInit, NoRadix
  <2>. QED
    BY <2>1, <2>2
<1>3. ASSUME Wide
      PROVE  MemoryKept /\ WideControl /\ WideEntries /\ WideText /\ NothingCached
  <2>0. pc = "count" /\ at = [t \in Threads |-> 0]
    BY DEF ThreadsInit
  <2>1. PICK x \in Junk : mem = [a \in 0 .. CacheAt + 2 * NThreads * CacheSize - 1 |->
                                   IF a \in DOMAIN Given THEN Given[a] ELSE x]
    BY DEF ThreadsInit
  <2>2. MemoryKept
    BY <2>1 DEF MemoryKept
  <2>3. WideControl /\ WideEntries
    BY <2>0 DEF WideControl, WideEntries
  <2>4. DOMAIN Given \subseteq 0 .. CacheAt + 2 * NThreads * CacheSize - 1
    <3>1. PICK z \in Nat : z = 2 * NThreads * CacheSize
      BY ThreadsAssumption
    <3>2. n \in Nat /\ F.T = 2 * n + 2 /\ CacheAt = 4 * n + 2
      BY <1>2, <1>3, WideFrame DEF JobGiven
    <3>3. DOMAIN Given = F.T .. F.T + 2 * n - 1 \/ DOMAIN Given = F.T .. F.T + n - 1
      BY DEF Given
    <3>. QED
      BY <3>1, <3>2, <3>3
  <2>5. WideText
    BY <2>0, <2>1, <2>4 DEF WideText
  <2>6. NothingCached
    BY DEF ThreadsInit, NothingCached
  <2>. QED
    BY <2>2, <2>3, <2>5, <2>6
<1>. QED
  BY <1>2, <1>3 DEF WideInv

\* The words of the array and of its text are in memory.
LEMMA WideAddresses ==
  ASSUME JobGiven, Wide, MemoryKept
  PROVE  0 .. 4 * n + 1 \subseteq DOMAIN mem
<1>1. PICK z \in Nat : z = 2 * NThreads * CacheSize
  BY ThreadsAssumption
<1>2. DOMAIN mem = 0 .. 4 * n + 2 + z - 1
  BY <1>1, WideFrame DEF MemoryKept
<1>. QED
  BY <1>1, <1>2 DEF JobGiven

\* Narrowing moves every second word to the front: word base + i of memory M is
\* what word base + 2 i was, and the words behind are as they were.
NarrowStep(M, base, unused, x, i) == [x EXCEPT ![base + i] = x[base + 2 * i]]

NarrowKeep(M, base, unused, x, i) ==
  /\ DOMAIN x = DOMAIN M
  /\ \A a \in DOMAIN M : a > base + i => x[a] = M[a]
  /\ \A p \in 0 .. i : x[base + p] = M[base + 2 * p]

Narrowing == INSTANCE Loops WITH step <- NarrowStep, Keep <- NarrowKeep

\* The names a wide call is for are its text, once narrowed
\* (libsais64_convert_inplace_64u_to_32u).
LEMMA NarrowedGives ==
  ASSUME JobGiven, kind = "wide_names", MemoryKept,
         \A a \in DOMAIN Given : mem[a] = Given[a]
  PROVE  /\ DOMAIN Narrowed(mem) = DOMAIN mem
         /\ \A p \in 0 .. n - 1 : Narrowed(mem)[F.T + p] = text[p]
<1>1. n \in Nat /\ F.T = 2 * n + 2 /\ Wide
  BY WideFrame DEF JobGiven, Wide
<1>2. 0 .. 4 * n + 1 \subseteq DOMAIN mem
  BY <1>1, WideAddresses
<1>3. PICK base \in Nat : base = F.T
  BY <1>1
<1>4. NarrowKeep(mem, base, 0, Narrowed(mem), n - 1)
  <2>1. NarrowKeep(mem, base, 0, mem, 0 - 1)
    BY DEF NarrowKeep
  <2>2. ASSUME NEW i \in 0 .. n - 1, NEW x, NarrowKeep(mem, base, 0, x, i - 1)
        PROVE  NarrowKeep(mem, base, 0, NarrowStep(mem, base, 0, x, i), i)
    <3>. DEFINE y == NarrowStep(mem, base, 0, x, i)
    <3>1. base + i \in DOMAIN mem /\ base + 2 * i \in DOMAIN mem /\ DOMAIN x = DOMAIN mem
      BY <1>1, <1>2, <1>3, <2>2 DEF NarrowKeep
    <3>2. /\ DOMAIN y = DOMAIN mem
          /\ \A a \in DOMAIN mem : y[a] = IF a = base + i THEN x[base + 2 * i] ELSE x[a]
      BY <3>1 DEF NarrowStep
    <3>. HIDE DEF y
    <3>3. x[base + 2 * i] = mem[base + 2 * i]
      BY <3>1, <2>2 DEF NarrowKeep
    <3>4. ASSUME NEW a \in DOMAIN mem, a > base + i PROVE y[a] = mem[a]
      <4>1. a # base + i /\ a > base + (i - 1)
        BY <3>4, MemoryKept DEF MemoryKept
      <4>. QED
        BY <3>2, <2>2, <4>1 DEF NarrowKeep
    <3>5. ASSUME NEW p \in 0 .. i PROVE y[base + p] = mem[base + 2 * p]
      <4>1. CASE p = i
        BY <3>1, <3>2, <3>3, <4>1
      <4>2. CASE p # i
        <5>1. p \in 0 .. i - 1 /\ base + p # base + i /\ base + p \in DOMAIN mem
          BY <1>1, <1>2, <1>3, <4>2
        <5>. QED
          BY <3>2, <2>2, <5>1 DEF NarrowKeep
      <4>. QED
        BY <4>1, <4>2
    <3>6. NarrowKeep(mem, base, 0, y, i)
      BY <3>2, <3>4, <3>5 DEF NarrowKeep
    <3>. QED
      BY <3>6 DEF y
  <2>3. NarrowKeep(mem, base, 0, Narrowing!UpTo(mem, base, 0, mem, 0, n - 1), n - 1)
    <3>1. 0 \in Int /\ n - 1 \in Int /\ 0 <= (n - 1) + 1
      BY <1>1
    <3>. HIDE DEF NarrowStep, NarrowKeep
    <3>. QED
      BY <2>1, <2>2, <3>1, Narrowing!UpKeeps
  <2>4. Narrowed(mem) = Narrowing!UpTo(mem, F.T, 0, mem, 0, n - 1)
    BY DEF Narrowed, Up, NarrowStep, Narrowing!UpTo
  <2>. QED
    BY <1>3, <2>3, <2>4
<1>5. ASSUME NEW p \in 0 .. n - 1 PROVE Narrowed(mem)[F.T + p] = text[p]
  <2>1. Narrowed(mem)[base + p] = mem[base + 2 * p]
    BY <1>4, <1>5 DEF NarrowKeep
  <2>2. base + 2 * p \in DOMAIN Given /\ Given[base + 2 * p] = text[p]
    BY <1>1, <1>3 DEF Given
  <2>. QED
    BY <1>3, <2>1, <2>2
<1>. QED
  BY <1>4, <1>5 DEF NarrowKeep

\* What is left to show of a step of the sort of a wide array.
LEMMA WideKept ==
  ASSUME WideInv, UNCHANGED <<kind, text>>, DOMAIN mem' = DOMAIN mem, th' = th,
         Wide, WideControl', WideEntries', WideText'
  PROVE  WideInv'
<1>0. NoRadix'
  BY DEF NoRadix, Wide
<1>1. /\ n' = n /\ CacheAt' = CacheAt /\ (Wide <=> Wide') /\ JobGiven'
  BY CallKept DEF WideInv
<1>2. MemoryKept' /\ NothingCached'
  BY <1>1 DEF WideInv, MemoryKept, NothingCached
<1>. QED
  BY <1>0, <1>1, <1>2 DEF WideInv

\* Sorting leaves the suffixes in order, and the text, narrow now, as it is.
LEMMA SortNarrowKeeps == ASSUME WideInv, SortNarrow PROVE WideInv'
<1>0. Wide /\ JobGiven /\ MemoryKept /\ WideText /\ pc = "count" /\ UNCHANGED <<kind, text>>
  BY DEF SortNarrow, Goes, WideInv
<1>. DEFINE M == IF kind = "wide_names" THEN Narrowed(mem) ELSE mem
<1>. DEFINE Result(sa, x) == Goes("halve", Overwrite(Overwrite(M, n, F.fs, LAMBDA j : x), 0, n,
                                                     LAMBDA j : sa[j]), th)
            given == [p \in 0 .. n - 1 |-> Sym(M, F, p)]
<1>1. PICK sa, x : sa = SuffixArray(given, n) /\ Result(sa, x)
  <2>1. \E t \in {given} : \E sa \in {SuffixArray(t, n)}, x \in Junk \cup {n} : Result(sa, x)
    BY DEF SortNarrow
  <2>. HIDE DEF Result, given
  <2>. QED
    BY <2>1
<1>2. n \in Nat /\ F.T = 2 * n + 2 /\ F.fs \in Nat /\ n + F.fs <= F.T
      /\ text \in [0 .. n - 1 -> 0 .. Symbols - 1]
  BY <1>0, WideFrame DEF JobGiven
<1>3. 0 .. 4 * n + 1 \subseteq DOMAIN mem
  BY <1>0, WideAddresses
<1>4. DOMAIN M = DOMAIN mem /\ \A p \in 0 .. n - 1 : M[F.T + p] = text[p]
  <2>1. CASE kind = "wide_names"
    BY <2>1, <1>0, NarrowedGives DEF WideText
  <2>2. CASE kind # "wide_names"
    <3>1. \A a \in DOMAIN Given : mem[a] = Given[a]
      BY <1>0 DEF WideText
    <3>2. \A p \in 0 .. n - 1 : F.T + p \in DOMAIN Given /\ Given[F.T + p] = text[p]
      BY <2>2, <1>2 DEF Given
    <3>. QED
      BY <2>2, <3>1, <3>2
  <2>. QED
    BY <2>1, <2>2
<1>. HIDE DEF M
<1>5. [p \in 0 .. n - 1 |-> Sym(M, F, p)] = text
  BY <1>2, <1>4 DEF Sym
<1>6. sa = SuffixArray(text, n)
  BY <1>1, <1>5
<1>7. /\ pc' = "halve" /\ th' = th /\ at' = [t \in Threads |-> 0] /\ run' = n
      /\ mem' = [a \in DOMAIN mem |->
                   IF a \in 0 .. n - 1 THEN sa[a]
                   ELSE IF a \in n .. n + F.fs - 1 THEN x ELSE M[a]]
  <2>1. run' = n
    BY DEF SortNarrow
  <2>. QED
    BY <1>1, <1>2, <1>4, <2>1 DEF Goes, Overwrite
<1>8. n' = n /\ F' = F /\ Wide' /\ SuffixArray(text, n)' = SuffixArray(text, n)
  BY <1>0, CallKept
<1>9. WideControl'
  BY <1>2, <1>7, <1>8 DEF WideControl
<1>10. WideEntries'
  <2>1. \A i \in 0 .. n - 1 : mem'[i] = SuffixArray(text, n)[i]
    BY <1>2, <1>3, <1>6, <1>7
  <2>2. \A i \in 0 .. n - 1 : StillNarrow(i)'
    BY <1>7, <1>2 DEF StillNarrow
  <2>. QED
    BY <1>8, <2>1, <2>2 DEF WideEntries
<1>11. WideText'
  <2>1. ASSUME NEW p \in 0 .. n - 1 PROVE mem'[F.T + p] = text[p]
    <3>1. F.T + p \in DOMAIN mem /\ ~ (F.T + p \in 0 .. n - 1)
          /\ ~ (F.T + p \in n .. n + F.fs - 1)
      BY <1>2, <1>3
    <3>. QED
      BY <3>1, <1>4, <1>7
  <2>. QED
    BY <1>0, <1>7, <1>8, <2>1 DEF WideText
<1>. QED
  BY <1>0, <1>7, <1>9, <1>10, <1>11, WideKept

\* What is narrow still, before the threads start and after they have joined.
LEMMA NarrowAlone ==
  ASSUME pc = "halve", NEW i PROVE StillNarrow(i) <=> i < run
BY DEF StillNarrow

\* If the entries and the text stay, and what is narrow, the invariant does.
LEMMA EntriesStay ==
  ASSUME WideInv, Wide, pc # "count", pc' # "count", UNCHANGED <<kind, text, mem, th>>,
         WideControl', \A i \in 0 .. n - 1 : StillNarrow(i)' <=> StillNarrow(i)
  PROVE  WideInv'
<1>1. n' = n /\ F' = F /\ Wide' /\ SuffixArray(text, n)' = SuffixArray(text, n)
  BY CallKept
<1>2. WideEntries'
  <2>1. ASSUME NEW i \in 0 .. n - 1
        PROVE  IF StillNarrow(i)' THEN mem'[i] = SuffixArray(text, n)[i]
               ELSE mem'[2 * i] = SuffixArray(text, n)[i] /\ mem'[2 * i + 1] = 0
    BY DEF WideInv, WideEntries
  <2>. QED
    BY <1>1, <2>1 DEF WideEntries
<1>3. WideText'
  BY <1>1 DEF WideInv, WideText
<1>. QED
  BY <1>2, <1>3, WideKept

\* The threads start with all of the upper half narrow.
LEMMA WidenHalfKeeps == ASSUME WideInv, WidenHalf PROVE WideInv'
<1>1. /\ Wide /\ JobGiven /\ WideControl /\ pc = "halve" /\ run \in 0 .. n /\ n \in Nat
      /\ UNCHANGED <<kind, text, mem, th>>
  BY DEF WidenHalf, Goes, WideInv, WideControl, JobGiven
<1>2. PICK h \in Nat : h = run \div 2 /\ h <= run - h
  BY <1>1
<1>3. /\ pc' = "widen" /\ at' = [t \in Threads |-> 0] /\ m' = h /\ run' = run - h
  BY <1>2 DEF WidenHalf, Goes
<1>4. n' = n
  BY <1>1, CallKept
<1>5. WideControl'
  BY <1>1, <1>2, <1>3, <1>4 DEF WideControl
<1>6. ASSUME NEW i \in 0 .. n - 1 PROVE StillNarrow(i)' <=> StillNarrow(i)
  <2>1. StillNarrow(i) <=> i < run
    BY <1>1, NarrowAlone
  <2>2. StillNarrow(i)' <=>
          \/ i < run - h
          \/ \E t \in Threads : i \in run - h + From(t, h) + 0
                                       .. run - h + From(t, h) + Part(t, h) - 1
    BY <1>3 DEF StillNarrow
  <2>3. ASSUME i < run, ~ (i < run - h)
        PROVE  \E t \in Threads : i \in run - h + From(t, h) + 0
                                         .. run - h + From(t, h) + Part(t, h) - 1
    <3>1. i - (run - h) \in 0 .. h - 1
      BY <1>1, <1>2, <2>3
    <3>2. PICK t \in Threads : i - (run - h) \in From(t, h) .. From(t, h) + Part(t, h) - 1
      BY <3>1, PartsCover
    <3>3. From(t, h) \in Nat /\ Part(t, h) \in Nat
      BY PartBounds
    <3>4. i \in run - h + From(t, h) + 0 .. run - h + From(t, h) + Part(t, h) - 1
      BY <1>1, <3>2, <3>3
    <3>. QED
      BY <3>4
  <2>4. ASSUME NEW t \in Threads,
               i \in run - h + From(t, h) + 0 .. run - h + From(t, h) + Part(t, h) - 1
        PROVE  i < run
    <3>1. /\ From(t, h) \in Nat /\ Part(t, h) \in Nat
          /\ From(t, h) + Part(t, h) <= h
      BY PartBounds
    <3>. QED
      BY <1>1, <2>4, <3>1
  <2>. QED
    BY <1>1, <2>1, <2>2, <2>3, <2>4
<1>. QED
  BY <1>1, <1>3, <1>5, <1>6, EntriesStay

\* Behind the barrier all of the upper half is wide.
LEMMA JoinWidenKeeps == ASSUME WideInv, JoinWiden PROVE WideInv'
<1>1. /\ Wide /\ JobGiven /\ WideControl /\ pc = "widen" /\ m \in Nat /\ run \in 0 .. n
      /\ n \in Nat /\ at \in [Threads -> Nat]
      /\ UNCHANGED <<kind, text, mem, th, run, m>>
      /\ pc' = "halve" /\ at' = [t \in Threads |-> 0]
      /\ \A t \in Threads : at[t] >= Part(t, m)
  BY DEF JoinWiden, Goes, WideInv, WideControl, JobGiven, SizeWide, locals
<1>2. WideControl'
  <2>1. n' = n
    BY <1>1, CallKept
  <2>. QED
    BY <1>1, <2>1 DEF WideControl
<1>3. ASSUME NEW i \in 0 .. n - 1 PROVE StillNarrow(i)' <=> StillNarrow(i)
  <2>1. StillNarrow(i)' <=> i < run
    BY <1>1 DEF StillNarrow
  <2>2. ASSUME NEW t \in Threads PROVE ~ (i \in run + From(t, m) + at[t]
                                              .. run + From(t, m) + Part(t, m) - 1)
    <3>1. From(t, m) \in Nat /\ Part(t, m) \in Nat /\ at[t] \in Nat /\ at[t] >= Part(t, m)
      BY <1>1, PartBounds
    <3>. QED
      BY <1>1, <3>1
  <2>. QED
    BY <1>1, <2>1, <2>2 DEF StillNarrow
<1>. QED
  BY <1>1, <1>2, <1>3, EntriesStay

\* A thread is at an entry of its part of the upper half, which is narrow still;
\* no other thread comes to that entry, and what it is widened to lies above
\* everything narrow and below the text.
LEMMA WideElement ==
  ASSUME WideInv, Wide, NEW t \in Threads, at[t] < SizeWide(t)
  PROVE  LET i == run + From(t, m) + at[t]
         IN  /\ pc = "widen" /\ i \in 0 .. n - 1 /\ run <= i
             /\ StillNarrow(i)
             /\ \A j \in 0 .. n - 1 : StillNarrow(j) => j < 2 * i
             /\ \A u \in Threads : t # u /\ at[u] < SizeWide(u) => i # run + From(u, m) + at[u]
             /\ \A u \in Threads :
                  t # u => ~ (i \in run + From(u, m) + at[u] .. run + From(u, m) + Part(u, m) - 1)
<1>1. /\ n \in Nat /\ run \in 0 .. n /\ pc = "widen" /\ m \in Nat /\ m <= run /\ run + m <= n
      /\ at \in [Threads -> Nat]
  BY DEF WideInv, WideControl, JobGiven, SizeWide
<1>2. \A u \in Threads : /\ SizeWide(u) = Part(u, m)
                         /\ From(u, m) \in Nat /\ Part(u, m) \in Nat
                         /\ From(u, m) + Part(u, m) <= m
  BY <1>1, PartBounds DEF SizeWide
<1>3. PICK i \in Int : i = run + From(t, m) + at[t]
  BY <1>1, <1>2
<1>4. i \in 0 .. n - 1 /\ run <= i
  BY <1>1, <1>2, <1>3
<1>5. StillNarrow(i)
  <2>1. i \in run + From(t, m) + at[t] .. run + From(t, m) + Part(t, m) - 1
    BY <1>1, <1>2, <1>3
  <2>. QED
    BY <1>1, <2>1 DEF StillNarrow
<1>6. ASSUME NEW j \in 0 .. n - 1, StillNarrow(j) PROVE j < 2 * i
  <2>1. j < run + m /\ m # 0
    <3>1. CASE j < run
      BY <1>1, <1>2, <1>3, <3>1
    <3>2. CASE \E u \in Threads : j \in run + From(u, m) + at[u] .. run + From(u, m) + Part(u, m) - 1
      <4>1. PICK u \in Threads : j \in run + From(u, m) + at[u] .. run + From(u, m) + Part(u, m) - 1
        BY <3>2
      <4>. QED
        BY <1>1, <1>2, <4>1
    <3>. QED
      BY <1>6, <3>1, <3>2 DEF StillNarrow
  <2>. QED
    BY <1>1, <1>4, <2>1
<1>7. ASSUME NEW u \in Threads, t # u
      PROVE  /\ ~ (i \in run + From(u, m) + at[u] .. run + From(u, m) + Part(u, m) - 1)
             /\ at[u] < SizeWide(u) => i # run + From(u, m) + at[u]
  <2>1. ASSUME NEW j \in Nat, j < Part(u, m) PROVE i # run + From(u, m) + j
    <3>1. From(t, m) + at[t] # From(u, m) + j
      BY <1>1, <1>2, <1>7, <2>1, PartsDisjoint
    <3>. QED
      BY <1>1, <1>2, <1>3, <2>1, <3>1
  <2>2. ASSUME i \in run + From(u, m) + at[u] .. run + From(u, m) + Part(u, m) - 1 PROVE FALSE
    <3>1. PICK j \in Int : j = i - run - From(u, m)
      BY <1>1, <1>2
    <3>2. j \in Nat /\ j < Part(u, m)
      BY <1>1, <1>2, <1>7, <2>2, <3>1
    <3>. QED
      BY <1>1, <1>2, <1>7, <2>1, <3>1, <3>2
  <2>. QED
    BY <1>1, <1>2, <1>7, <2>1, <2>2
<1>. QED
  BY <1>1, <1>3, <1>4, <1>5, <1>6, <1>7

\* A thread widens an entry.
LEMMA WorkWideKeeps ==
  ASSUME WideInv, NEW t \in Threads, WorkWide(t)
  PROVE  WideInv'
<1>1. Wide /\ at[t] < SizeWide(t) /\ Advance(t, ElemWide(t))
  BY DEF WorkWide
<1>2. PICK i \in 0 .. n - 1 :
        /\ i = run + From(t, m) + at[t] /\ pc = "widen" /\ run <= i /\ StillNarrow(i)
        /\ \A j \in 0 .. n - 1 : StillNarrow(j) => j < 2 * i
        /\ \A u \in Threads :
             t # u => ~ (i \in run + From(u, m) + at[u] .. run + From(u, m) + Part(u, m) - 1)
  BY <1>1, WideElement
<1>3. /\ JobGiven /\ MemoryKept /\ WideControl /\ WideEntries /\ WideText
      /\ n \in Nat /\ at \in [Threads -> Nat] /\ run \in 0 .. n /\ m \in Nat
  BY <1>1, <1>2 DEF WideInv, JobGiven, WideControl
<1>4. /\ mem' = [a \in DOMAIN mem |-> IF a = 2 * i THEN mem[i] ELSE IF a = 2 * i + 1 THEN 0 ELSE mem[a]]
      /\ th' = [th EXCEPT ![t] = th[t]] /\ at' = [at EXCEPT ![t] = @ + 1]
      /\ UNCHANGED <<kind, text, pc, run, m>>
  <2>1. ElemWide(t) = Does({i}, Widened(i), th[t])
    BY <1>2 DEF ElemWide
  <2>2. /\ ElemWide(t).writes = Widened(i) /\ ElemWide(t).th = th[t]
    BY <2>1 DEF Does
  <2>3. /\ DOMAIN Widened(i) = {2 * i, 2 * i + 1}
        /\ Widened(i)[2 * i] = mem[i] /\ Widened(i)[2 * i + 1] = 0
    BY DEF Widened
  <2>4. mem' = [a \in DOMAIN mem |-> IF a \in DOMAIN Widened(i) THEN Widened(i)[a] ELSE mem[a]]
        /\ th' = [th EXCEPT ![t] = th[t]] /\ at' = [at EXCEPT ![t] = @ + 1]
        /\ UNCHANGED <<kind, text, pc, run, m>>
    BY <1>1, <2>2 DEF Advance, locals
  <2>. QED
    BY <2>3, <2>4
<1>5. th' = th
  <2>1. th = [u \in Threads |-> th[u]]
    BY <1>1 DEF WideInv, NothingCached
  <2>. QED
    BY <1>4, <2>1
<1>6. n' = n /\ F' = F /\ Wide' /\ SuffixArray(text, n)' = SuffixArray(text, n)
  BY <1>1, <1>4, CallKept
<1>7. WideControl'
  BY <1>2, <1>3, <1>4, <1>6 DEF WideControl
<1>8. ASSUME NEW j \in 0 .. n - 1 PROVE StillNarrow(j)' <=> StillNarrow(j) /\ j # i
  <2>. DEFINE Left(u) == j \in run + From(u, m) + at[u] .. run + From(u, m) + Part(u, m) - 1
              LeftNow(u) == j \in run + From(u, m) + at'[u] .. run + From(u, m) + Part(u, m) - 1
  <2>1. \A u \in Threads : u # t => (LeftNow(u) <=> Left(u))
    BY <1>3, <1>4
  <2>2. LeftNow(t) <=> Left(t) /\ j # i
    <3>1. at'[t] = at[t] + 1 /\ at[t] \in Nat /\ From(t, m) \in Nat /\ Part(t, m) \in Nat
      BY <1>3, <1>4, PartBounds
    <3>. QED
      BY <1>2, <1>3, <3>1
  <2>3. StillNarrow(j) <=> j < run \/ \E u \in Threads : Left(u)
    BY <1>2 DEF StillNarrow
  <2>4. StillNarrow(j)' <=> j < run \/ \E u \in Threads : LeftNow(u)
    BY <1>2, <1>4 DEF StillNarrow
  <2>5. ~ (i < run)
    BY <1>2, <1>3
  <2>6. j = i => \A u \in Threads : u # t => ~ Left(u)
    BY <1>2
  <2>. HIDE DEF Left, LeftNow
  <2>. QED
    BY <2>1, <2>2, <2>3, <2>4, <2>5, <2>6
<1>9. 0 .. 4 * n + 1 \subseteq DOMAIN mem
  BY <1>1, <1>3, WideAddresses
<1>10. WideEntries'
  <2>. DEFINE sa == SuffixArray(text, n)
  <2>1. ASSUME NEW j \in 0 .. n - 1
        PROVE  IF StillNarrow(j) THEN mem[j] = sa[j] ELSE mem[2 * j] = sa[j] /\ mem[2 * j + 1] = 0
    BY <1>2, <1>3 DEF WideEntries
  <2>. HIDE DEF sa
  <2>2. ASSUME NEW j \in 0 .. n - 1
        PROVE  IF StillNarrow(j)' THEN mem'[j] = sa[j]
               ELSE mem'[2 * j] = sa[j] /\ mem'[2 * j + 1] = 0
    <3>1. j \in DOMAIN mem /\ 2 * j \in DOMAIN mem /\ 2 * j + 1 \in DOMAIN mem
      BY <1>3, <1>9
    <3>2. CASE j = i
      <4>1. ~ StillNarrow(j)' /\ mem[j] = sa[j]
        BY <1>2, <1>8, <2>1, <3>2
      <4>2. mem'[2 * j] = mem[j] /\ mem'[2 * j + 1] = 0
        BY <1>3, <1>4, <3>1, <3>2
      <4>. QED
        BY <4>1, <4>2
    <3>3. CASE j # i /\ StillNarrow(j)
      <4>1. j < 2 * i
        BY <1>2, <3>3
      <4>2. mem'[j] = mem[j]
        BY <1>3, <1>4, <3>1, <4>1
      <4>. QED
        BY <1>8, <2>1, <3>3, <4>2
    <3>4. CASE j # i /\ ~ StillNarrow(j)
      <4>1. mem'[2 * j] = mem[2 * j] /\ mem'[2 * j + 1] = mem[2 * j + 1]
        BY <1>3, <1>4, <3>1, <3>4
      <4>. QED
        BY <1>8, <2>1, <3>4, <4>1
    <3>. QED
      BY <3>2, <3>3, <3>4
  <2>. QED
    BY <1>6, <2>2 DEF WideEntries, sa
<1>11. WideText'
  <2>1. F.T = 2 * n + 2
    BY <1>1, <1>3, WideFrame
  <2>2. ASSUME NEW p \in 0 .. n - 1 PROVE mem'[F.T + p] = mem[F.T + p]
    <3>1. F.T + p \in DOMAIN mem /\ F.T + p # 2 * i /\ F.T + p # 2 * i + 1
      BY <1>3, <1>9, <2>1
    <3>. QED
      BY <1>4, <3>1
  <2>. QED
    BY <1>2, <1>3, <1>4, <1>6, <2>2 DEF WideText
<1>. QED
  BY <1>1, <1>4, <1>5, <1>7, <1>10, <1>11, WideKept

\* Widening from the end: the entries of memory M from i on are wide, those in
\* front of it and what lies behind the last one are as they were.
WidenStep(M, size, unused, x, i) == [x EXCEPT ![2 * i] = x[i], ![2 * i + 1] = 0]

WidenKeep(M, size, unused, x, i) ==
  /\ DOMAIN x = DOMAIN M
  /\ \A j \in 0 .. i - 1 : x[j] = M[j]
  /\ \A j \in i .. size - 1 : x[2 * j] = M[j] /\ x[2 * j + 1] = 0
  /\ \A a \in DOMAIN M : a >= 2 * size => x[a] = M[a]

Widening == INSTANCE Loops WITH step <- WidenStep, Keep <- WidenKeep

\* The whole loop widens the first size entries.
LEMMA WidenedGives ==
  ASSUME NEW M, NEW top \in Nat, DOMAIN M = 0 .. top, NEW size \in Nat, 2 * size <= top
  PROVE  WidenKeep(M, size, 0, Widening!DownTo(M, size, 0, M, size - 1, 0), 0)
<1>1. WidenKeep(M, size, 0, M, (size - 1) + 1)
  <2>1. WidenKeep(M, size, 0, M, size)
    BY DEF WidenKeep
  <2>2. (size - 1) + 1 = size
    OBVIOUS
  <2>. QED
    BY <2>1, <2>2
<1>2. ASSUME NEW i \in 0 .. size - 1, NEW x, WidenKeep(M, size, 0, x, i + 1)
      PROVE  WidenKeep(M, size, 0, WidenStep(M, size, 0, x, i), i)
  <2>. DEFINE y == WidenStep(M, size, 0, x, i)
  <2>1. /\ DOMAIN x = 0 .. top
        /\ 2 * i \in 0 .. top /\ 2 * i + 1 \in 0 .. top /\ i \in 0 .. top
    BY <1>2 DEF WidenKeep
  <2>2. /\ DOMAIN y = 0 .. top
        /\ \A a \in 0 .. top : y[a] = IF a = 2 * i + 1 THEN 0 ELSE IF a = 2 * i THEN x[i] ELSE x[a]
    BY <2>1 DEF WidenStep
  <2>. HIDE DEF y
  <2>3. ASSUME NEW j \in 0 .. i - 1 PROVE y[j] = M[j]
    <3>1. j \in 0 .. top /\ j # 2 * i /\ j # 2 * i + 1 /\ j \in 0 .. (i + 1) - 1
      BY <2>1
    <3>. QED
      BY <1>2, <2>2, <3>1 DEF WidenKeep
  <2>4. ASSUME NEW j \in i .. size - 1 PROVE y[2 * j] = M[j] /\ y[2 * j + 1] = 0
    <3>1. CASE j = i
      <4>1. x[i] = M[i]
        BY <1>2 DEF WidenKeep
      <4>. QED
        BY <2>1, <2>2, <3>1, <4>1
    <3>2. CASE j # i
      <4>1. /\ j \in i + 1 .. size - 1 /\ 2 * j \in 0 .. top /\ 2 * j + 1 \in 0 .. top
            /\ 2 * j # 2 * i /\ 2 * j # 2 * i + 1 /\ 2 * j + 1 # 2 * i /\ 2 * j + 1 # 2 * i + 1
        BY <3>2
      <4>2. x[2 * j] = M[j] /\ x[2 * j + 1] = 0
        BY <1>2, <4>1 DEF WidenKeep
      <4>3. y[2 * j] = x[2 * j] /\ y[2 * j + 1] = x[2 * j + 1]
        BY <2>2, <4>1
      <4>. QED
        BY <4>2, <4>3
    <3>. QED
      BY <3>1, <3>2
  <2>5. ASSUME NEW a \in 0 .. top, a >= 2 * size PROVE y[a] = M[a]
    <3>1. a # 2 * i /\ a # 2 * i + 1
      BY <2>5
    <3>2. x[a] = M[a]
      BY <1>2, <2>5 DEF WidenKeep
    <3>. QED
      BY <2>2, <3>1, <3>2
  <2>6. WidenKeep(M, size, 0, y, i)
    BY <2>2, <2>3, <2>4, <2>5 DEF WidenKeep
  <2>. QED
    BY <2>6 DEF y
<1>3. size - 1 \in Int /\ 0 \in Int /\ 0 <= (size - 1) + 1
  OBVIOUS
<1>. HIDE DEF WidenStep, WidenKeep
<1>. QED
  BY <1>1, <1>2, <1>3, Widening!DownKeeps

\* The master thread widens the rest.
LEMMA WidenRestKeeps == ASSUME WideInv, WidenRest PROVE WideInv'
<1>1. /\ Wide /\ JobGiven /\ MemoryKept /\ WideEntries /\ WideText
      /\ pc = "halve" /\ run \in 0 .. n /\ n \in Nat
      /\ UNCHANGED <<kind, text, th>> /\ pc' = "done" /\ run' = run
      /\ at' = [t \in Threads |-> 0]
  BY DEF WidenRest, Goes, WideInv, WideControl, JobGiven, locals
<1>2. mem' = Widening!DownTo(mem, run, 0, mem, run - 1, 0)
  BY DEF WidenRest, Goes, Down, WidenStep, Widening!DownTo
<1>3. 0 .. 4 * n + 1 \subseteq DOMAIN mem
  BY <1>1, WideAddresses
<1>4. PICK top \in Nat : DOMAIN mem = 0 .. top /\ 2 * run <= top
  <2>1. PICK z \in Nat : z = 2 * NThreads * CacheSize
    BY ThreadsAssumption
  <2>2. DOMAIN mem = 0 .. 4 * n + 1 + z
    BY <1>1, <2>1, WideFrame DEF MemoryKept
  <2>. QED
    BY <1>1, <2>1, <2>2
<1>5. WidenKeep(mem, run, 0, mem', 0)
  BY <1>1, <1>2, <1>4, WidenedGives
<1>6. n' = n /\ F' = F /\ Wide' /\ SuffixArray(text, n)' = SuffixArray(text, n)
  BY <1>1, CallKept
<1>7. WideControl'
  BY <1>1, <1>6 DEF WideControl
<1>8. WideEntries'
  <2>. DEFINE sa == SuffixArray(text, n)
  <2>1. ASSUME NEW j \in 0 .. n - 1
        PROVE  IF j < run THEN mem[j] = sa[j] ELSE mem[2 * j] = sa[j] /\ mem[2 * j + 1] = 0
    BY <1>1, NarrowAlone DEF WideEntries
  <2>. HIDE DEF sa
  <2>2. ASSUME NEW j \in 0 .. n - 1 PROVE mem'[2 * j] = sa[j] /\ mem'[2 * j + 1] = 0
    <3>1. CASE j < run
      BY <1>1, <1>5, <2>1, <3>1 DEF WidenKeep
    <3>2. CASE ~ (j < run)
      <4>1. 2 * j \in DOMAIN mem /\ 2 * j + 1 \in DOMAIN mem /\ 2 * j >= 2 * run
            /\ 2 * j + 1 >= 2 * run
        BY <1>1, <1>3, <3>2
      <4>. QED
        BY <1>5, <2>1, <3>2, <4>1 DEF WidenKeep
    <3>. QED
      BY <3>1, <3>2
  <2>3. \A j \in 0 .. n - 1 : ~ StillNarrow(j)'
    BY <1>1 DEF StillNarrow
  <2>. QED
    BY <1>6, <2>2, <2>3 DEF WideEntries, sa
<1>9. WideText'
  <2>1. ASSUME NEW p \in 0 .. n - 1 PROVE mem'[F.T + p] = mem[F.T + p]
    <3>1. F.T + p \in DOMAIN mem /\ F.T + p >= 2 * run
      BY <1>1, <1>3, WideFrame
    <3>. QED
      BY <1>5, <3>1 DEF WidenKeep
  <2>. QED
    BY <1>1, <1>6, <2>1 DEF WideText
<1>10. DOMAIN mem' = DOMAIN mem
  BY <1>5 DEF WidenKeep
<1>. QED
  BY <1>1, <1>7, <1>8, <1>9, <1>10, WideKept

\* The other sorts leave the call as it is, do nothing for a wide array, and
\* only the larger variants start a radix sort scan.
Elsewhere ==
  /\ UNCHANGED <<kind, text>>
  /\ ~ Wide \/ pc \notin {"count", "halve", "widen", "done"}
  /\ scan' \in {scan, "up", "down", "final_up", "final_down"} \/ kind \in {"6k", "4k", "2k"}

\* No step of the sort of bytes touches what belongs to the other sorts.
LEMMA Others8u == Next8u => Elsewhere
<1>1. ASSUME NEW t \in Threads, Work8u(t) PROVE Elsewhere
  BY <1>1 DEF Work8u, Advance, Elsewhere, Wide, locals
<1>2. CASE \/ JoinCount \/ JoinRadix \/ JoinShift \/ SkipZero \/ ScanAlone \/ ScanTogether
           \/ JoinPrepare \/ JoinPlace \/ ScanDone
  BY <1>2 DEF JoinCount, JoinRadix, JoinShift, SkipZero, ScanAlone, ScanTogether, JoinPrepare,
              JoinPlace, ScanDone, Joined, Scanning, Goes, Elsewhere, Wide, locals
<1>3. CASE \/ JoinRenumber \/ JoinGatherMarked \/ JoinGather \/ JoinRepair \/ JoinReconstruct
           \/ JoinClear
  BY <1>3 DEF JoinRenumber, JoinGatherMarked, JoinGather, JoinRepair, JoinReconstruct, JoinClear,
              Joined, Goes, Elsewhere, Wide, locals
<1>4. CASE Sort \/ StartPartial \/ Rename \/ Named \/ Recurse \/ StartFinal
  BY <1>4 DEF Sort, StartPartial, Rename, Named, Recurse, StartFinal, Goes, Elsewhere, locals
<1>. QED
  BY <1>1, <1>2, <1>3, <1>4 DEF Next8u

\* Nor does one of the sort of integers.
LEMMA Others32s == NoRadix /\ Next32s => Elsewhere
<1>. SUFFICES ASSUME NoRadix, Next32s PROVE Elsewhere
  OBVIOUS
<1>1. ASSUME NEW t \in Threads, Work32s(t) PROVE Elsewhere
  BY <1>1 DEF Work32s, Advance, Elsewhere, Ints32s, Wide, locals
<1>2. CASE Count32s \/ Count1k
  BY <1>2 DEF Count32s, Count1k, StartScan, Goes, Elsewhere, Wide
<1>3. CASE ScanAlone32s \/ StartBlock \/ JoinFetch \/ JoinPut
  BY <1>3 DEF ScanAlone32s, StartBlock, JoinFetch, JoinPut, Joined32s, Scanning32s, Goes,
              Elsewhere, Ints32s, Wide
<1>4. CASE EndRadix
  <2>1. kind \in {"6k", "4k", "2k"} /\ ~ Wide
    BY <1>4 DEF EndRadix, ScannedAll, Scanning32s, Ints32s, NoRadix, Wide
  <2>2. \E M, g : StartScan("up", M, g)
    BY <1>4, <2>1 DEF EndRadix
  <2>. QED
    BY <2>1, <2>2 DEF StartScan, Goes, Elsewhere
<1>5. CASE EndUp \/ EndFinalUp
  <2>1. \E s \in {"down", "final_down"} : \E M, g : StartScan(s, M, g)
    BY <1>5 DEF EndUp, EndFinalUp
  <2>2. ~ Wide
    BY <1>5 DEF EndUp, EndFinalUp, ScannedAll, Scanning32s, Ints32s, Wide
  <2>. QED
    BY <2>1, <2>2 DEF StartScan, Goes, Elsewhere
<1>6. CASE EndDown \/ EndFinalDown
  <2>1. \E next, M : Goes(next, M, th)
    BY <1>6 DEF EndDown, EndFinalDown
  <2>2. ~ Wide /\ scan' = scan
    BY <1>6 DEF EndDown, EndFinalDown, ScannedAll, Scanning32s, Ints32s, Wide, locals
  <2>. QED
    BY <2>1, <2>2 DEF Goes, Elsewhere
<1>7. CASE Recurse32s \/ Recount \/ Order
  BY <1>7 DEF Recurse32s, Recount, Order, StartScan, Goes, Elsewhere, locals
<1>. QED
  BY <1>1, <1>2, <1>3, <1>4, <1>5, <1>6, <1>7 DEF Next32s

\* Every step keeps the invariant.
LEMMA WideNext == WideInv /\ [OmpNext]_vars => WideInv'
<1>. SUFFICES ASSUME WideInv, [OmpNext]_vars PROVE WideInv'
  OBVIOUS
<1>1. ASSUME Elsewhere PROVE WideInv'
  <2>1. ~ Wide
    BY <1>1 DEF WideInv, WideControl, Elsewhere
  <2>2. JobGiven' /\ ~ Wide'
    BY <1>1, <2>1, CallKept DEF WideInv, Elsewhere
  <2>3. NoRadix'
    BY <1>1 DEF WideInv, NoRadix, Elsewhere
  <2>. QED
    BY <2>2, <2>3 DEF WideInv
<1>2. CASE Next8u
  BY <1>1, <1>2, Others8u
<1>3. CASE Next32s
  BY <1>1, <1>3, Others32s DEF WideInv
<1>4. CASE NextWide
  BY <1>4, SortNarrowKeeps, WidenHalfKeeps, JoinWidenKeeps, WidenRestKeeps, WorkWideKeeps
     DEF NextWide
<1>5. CASE Done \/ UNCHANGED vars
  <2>1. UNCHANGED vars
    BY <1>5 DEF Done
  <2>2. UNCHANGED <<kind, text, mem, pc, at, th, scan, run, m>>
    BY <2>1 DEF vars
  <2>3. n' = n /\ F' = F /\ CacheAt' = CacheAt /\ (Wide <=> Wide') /\ Given' = Given
        /\ (JobGiven <=> JobGiven')
    BY <2>2, CallKept
  <2>4. \A i : StillNarrow(i)' <=> StillNarrow(i)
    BY <2>2 DEF StillNarrow
  <2>5. MemoryKept' <=> MemoryKept
    BY <2>2, <2>3 DEF MemoryKept
  <2>6. (WideControl' <=> WideControl) /\ (NothingCached' <=> NothingCached)
    BY <2>2, <2>3 DEF WideControl, NothingCached
  <2>7. WideEntries' <=> WideEntries
    BY <2>2, <2>3, <2>4 DEF WideEntries
  <2>8. WideText' <=> WideText
    BY <2>2, <2>3 DEF WideText
  <2>9. NoRadix' <=> NoRadix
    BY <2>2 DEF NoRadix
  <2>. QED
    BY <2>3, <2>5, <2>6, <2>7, <2>8, <2>9 DEF WideInv
<1>. QED
  BY <1>2, <1>3, <1>4, <1>5 DEF OmpNext

\* The inductive invariant of the wide sort holds throughout.
LEMMA WideInvariance == OmpSpec => []WideInv
<1>1. ThreadsInit => WideInv
  BY WideStarts
<1>2. WideInv /\ [OmpNext]_vars => WideInv'
  BY WideNext
<1>. QED
  BY <1>1, <1>2, PTL DEF OmpSpec

\* The suffix array as module SearchProofs knows it; the theorem used is about every
\* text, whatever stands for the state and the bounds of the search.
Found == INSTANCE SearchProofs WITH
  OldSizes <- {1}, NewSizes <- {1}, ByteRange <- 1, TailValues <- {0},
  old_size <- 1, old <- text, new_size <- 1, new <- text, I <- mem, spc <- pc,
  st <- run, en <- run, old_pos <- m, max_len <- m

\* The entries of the suffix array are offsets.
LEMMA EntriesAreOffsets ==
  ASSUME JobGiven PROVE SuffixArray(text, n) \in [0 .. n - 1 -> 0 .. n - 1]
<1>1. n \in Nat /\ text \in [0 .. n - 1 -> Int]
  BY ThreadsAssumption DEF JobGiven
<1>2. Found!SuffixArray(text, n) \in [0 .. n - 1 -> 0 .. n - 1]
  BY <1>1, Found!SuffixArraySorted
<1>3. Found!SuffixArray(text, n) = SuffixArray(text, n)
  BY DEF SuffixArray, SuffixLess, Found!SuffixArray, Found!SuffixLess,
         Cardinality, Found!Cardinality
<1>. QED
  BY <1>2, <1>3

\* What a busy thread does to a wide array.
LEMMA WideWrites ==
  ASSUME WideInv, Wide, NEW t \in Threads, Busy(t)
  PROVE  \E i \in 0 .. n - 1 :
           /\ i = run + From(t, m) + at[t] /\ StillNarrow(i)
           /\ at[t] < SizeWide(t)
           /\ \A j \in 0 .. n - 1 : StillNarrow(j) => j < 2 * i
           /\ \A u \in Threads : t # u /\ at[u] < SizeWide(u) => i # run + From(u, m) + at[u]
           /\ Elem(t).reads = {i} /\ DOMAIN Elem(t).writes = {2 * i, 2 * i + 1}
<1>1. at[t] < SizeWide(t) /\ Elem(t) = ElemWide(t)
  BY WideFrame DEF WideInv, Busy, Elem
<1>2. PICK i \in 0 .. n - 1 :
        /\ i = run + From(t, m) + at[t] /\ StillNarrow(i)
        /\ \A j \in 0 .. n - 1 : StillNarrow(j) => j < 2 * i
        /\ \A u \in Threads : t # u /\ at[u] < SizeWide(u) => i # run + From(u, m) + at[u]
  BY <1>1, WideElement
<1>3. Elem(t) = Does({i}, Widened(i), th[t])
  BY <1>1, <1>2 DEF ElemWide
<1>4. Elem(t).reads = {i} /\ Elem(t).writes = Widened(i)
  BY <1>3 DEF Does
<1>5. DOMAIN Widened(i) = {2 * i, 2 * i + 1}
  BY DEF Widened
<1>. QED
  BY <1>1, <1>2, <1>4, <1>5

-----------------------------------------------------------------------------
(***************************************************************************)
(* What follows for the sorts that libsais64.c leaves to libsais.c.        *)
(***************************************************************************)
\* Whatever its size, the number of threads and their interleaving, a wide array
\* comes back as the suffix array of its text, and the text as it was, if the sort
\* of the narrow array in it returns its suffix array (libsais64_omp, libsais64_main_32s, libsais64_convert_inplace_32u_to_64u_omp).
THEOREM WideSorts == OmpSpec => [](Wide => ParallelSorts)
<1>1. ASSUME WideInv, Wide PROVE ParallelSorts
  <2>. SUFFICES ASSUME pc = "done" PROVE ParallelSorts
    BY DEF ParallelSorts
  <2>. DEFINE sa == SuffixArray(text, n)
  <2>1. JobGiven /\ WideEntries /\ WideText
    BY <1>1 DEF WideInv
  <2>2. sa \in [0 .. n - 1 -> 0 .. n - 1]
    BY <2>1, EntriesAreOffsets
  <2>3. \A i \in 0 .. n - 1 : mem[2 * i] = sa[i] /\ mem[2 * i + 1] = 0
    BY <2>1 DEF WideEntries, StillNarrow
  <2>4. PICK double \in Int : double = 2 * Half
    BY HalfAssumption
  <2>. HIDE DEF sa
  <2>5. \A i \in 0 .. n - 1 : mem[2 * i] + double * mem[2 * i + 1] = sa[i]
    BY <2>2, <2>3
  <2>6. [i \in 0 .. n - 1 |-> mem[2 * i] + double * mem[2 * i + 1]] = sa
    BY <2>2, <2>5
  <2>7. [i \in 0 .. n - 1 |-> IF Wide THEN mem[2 * i] + 2 * Half * mem[2 * i + 1] ELSE mem[i]] = sa
    BY <1>1, <2>4, <2>6
  <2>8. \A p \in 0 .. n - 1 : Sym(mem, F, p) = text[p]
    BY <2>1 DEF WideText, Sym
  <2>. QED
    BY <2>7, <2>8 DEF ParallelSorts, sa
<1>. QED
  BY <1>1, WideInvariance, PTL

\* While an array is widened in place, no thread overwrites what another one is
\* about to read or write: the entries widened at once are not more than half
\* of those that are narrow (libsais64_convert_inplace_32u_to_64u_omp).
THEOREM WideRaces == OmpSpec => [](Wide => NoRaces)
<1>1. ASSUME WideInv, Wide PROVE NoRaces
  <2>. SUFFICES ASSUME NEW t \in Threads, NEW u \in Threads, t # u, Busy(t), Busy(u)
                PROVE  DOMAIN Elem(t).writes \cap (Elem(u).reads \cup DOMAIN Elem(u).writes) = {}
    BY DEF NoRaces
  <2>1. PICK i \in 0 .. n - 1 :
          /\ \A j \in 0 .. n - 1 : StillNarrow(j) => j < 2 * i
          /\ at[u] < SizeWide(u) => i # run + From(u, m) + at[u]
          /\ DOMAIN Elem(t).writes = {2 * i, 2 * i + 1}
    BY <1>1, WideWrites
  <2>2. PICK j \in 0 .. n - 1 :
          /\ j = run + From(u, m) + at[u] /\ StillNarrow(j) /\ at[u] < SizeWide(u)
          /\ Elem(u).reads = {j} /\ DOMAIN Elem(u).writes = {2 * j, 2 * j + 1}
    BY <1>1, WideWrites
  <2>3. i # j /\ j < 2 * i
    BY <2>1, <2>2
  <2>4. n \in Nat
    BY <1>1 DEF WideInv, JobGiven
  <2>. QED
    BY <2>1, <2>2, <2>3, <2>4
<1>. QED
  BY <1>1, WideInvariance, PTL

\* The threads widen nothing outside of the memory of the sort, and need no
\* caches for it.
THEOREM WideFits == OmpSpec => [](Wide => CacheFits)
<1>1. ASSUME WideInv, Wide PROVE CacheFits
  <2>1. CachesHold
    <3>1. CacheSize \in Nat /\ Len(<<>>) = 0
      BY ThreadsAssumption
    <3>. QED
      BY <1>1, <3>1 DEF CachesHold, WideInv, NothingCached
  <2>2. ASSUME NEW t \in Threads, Busy(t) PROVE DOMAIN Elem(t).writes \subseteq DOMAIN mem
    <3>1. PICK i \in 0 .. n - 1 : DOMAIN Elem(t).writes = {2 * i, 2 * i + 1}
      BY <1>1, <2>2, WideWrites
    <3>2. 0 .. 4 * n + 1 \subseteq DOMAIN mem /\ n \in Nat
      BY <1>1, WideAddresses DEF WideInv, JobGiven
    <3>. QED
      BY <3>1, <3>2
  <2>. QED
    BY <2>1, <2>2 DEF CacheFits
<1>. QED
  BY <1>1, WideInvariance, PTL

-----------------------------------------------------------------------------
(***************************************************************************)
(* The caches of the threads: the inductive invariant.                     *)
(***************************************************************************)
Fields == {"tab", "cache", "m", "last", "l", "d"}

HasCache(r) == DOMAIN r = Fields /\ \E S : r.cache \in Seq(S)

\* In a run that is prepared, a thread caches no more than it has read.
CachesInv ==
  /\ at \in [Threads -> Nat]
  /\ th = [t \in Threads |-> th[t]] /\ \A t \in Threads : HasCache(th[t])
  /\ IF pc = "prepare"
       THEN /\ run \in 1 .. MaxBlock
            /\ \A t \in Threads : Len(th[t].cache) <= at[t] /\ at[t] <= Part(t, run)
       ELSE CachesHold

\* While the threads of a sort of bytes count, a thread writes to its block of SA
\* alone, from its end down, one entry at most for each that it has read.
Counting ==
  /\ mem \in [0 .. CacheAt + 2 * NThreads * CacheSize - 1 -> Int]
  /\ \A t \in Threads :
       LET end == From(t, n) + Part(t, n)
       IN  /\ th[t].tab \in [0 .. 4 * Symbols - 1 -> Int]
           /\ at[t] <= Part(t, n)
           /\ th[t].l \in end - 1 - at[t] .. end - 1

\* The scans of bytes know where they are and how far they go.
ScansInv ==
  kind = "8u" =>
    /\ pos \in Int /\ run \in Int /\ first \in Int /\ left \in Int
    /\ scan \in {"none", "up", "down", "final_up", "final_down"}
    /\ scan = "none" => pc \in {"count", "sort", "radix", "partial", "final"}
    /\ pc = "count" => Counting

\* No part of a run of MaxBlock entries or less exceeds a cache: the blocks of
\* the threads are cut at multiples of Align, and the last one takes the rest.
LEMMA PartFitsCache ==
  ASSUME NEW r \in 1 .. MaxBlock, NEW t \in Threads
  PROVE  Part(t, r) <= CacheSize /\ Part(t, r) \in Nat
<1>1. NThreads \in Nat \ {0, 1} /\ Align \in Nat \ {0} /\ CacheSize \in Nat
  BY ThreadsAssumption
<1>2. PICK rest \in Int : rest = CacheSize - Align * NThreads
  BY <1>1
<1>3. MaxBlock = NThreads * rest
  BY <1>2 DEF MaxBlock
<1>4. PICK s \in Nat : s = Stride(r) /\ NThreads * s <= r /\ r < NThreads * (s + Align)
  <2>1. r \in Nat
    BY <1>1, <1>3
  <2>. QED
    BY <2>1, StrideType
<1>5. r \in Nat /\ r <= NThreads * rest
  BY <1>1, <1>3
<1>6. s <= rest
  <2>. SUFFICES ASSUME s >= rest + 1 PROVE FALSE
    OBVIOUS
  <2>1. NThreads * s >= NThreads * (rest + 1) /\ NThreads * (rest + 1) = NThreads * rest + NThreads
    BY <1>1
  <2>. QED
    BY <1>1, <1>4, <1>5, <2>1
<1>7. PICK spare \in Nat : spare = Align * NThreads
  BY <1>1
<1>8. rest = CacheSize - spare
  BY <1>2, <1>7
<1>9. From(LastThread, r) = NThreads * s - s /\ NThreads * (s + Align) = NThreads * s + spare
  <2>1. (NThreads - 1) * s = NThreads * s - s
    BY <1>1
  <2>2. NThreads * (s + Align) = NThreads * s + NThreads * Align /\ NThreads * Align = Align * NThreads
    BY <1>1
  <2>. QED
    BY <1>4, <1>7, <2>1, <2>2 DEF From, LastThread
<1>10. PICK p \in Nat : p = NThreads * s
  BY <1>1
<1>11. Part(t, r) = IF t = LastThread THEN r - (p - s) ELSE s
  BY <1>4, <1>9, <1>10 DEF Part
<1>12. Part(t, r) \in Nat
  BY <1>5, PartBounds
<1>. QED
  BY <1>1, <1>4, <1>5, <1>6, <1>8, <1>9, <1>10, <1>11, <1>12

\* There is a run of entries that are not zero, no longer than a block, which a
\* zero, the end of the scan or that of the block ends.
LEMMA RunLengthIs ==
  ASSUME Room \in Int, Room > 0, pos \in Int, mem[pos] # 0
  PROVE  RunLength \in 1 .. MaxBlock /\ RunLength <= Room
<1>1. PICK top \in Nat \ {0} : /\ MaxBlock \in Int /\ top <= MaxBlock /\ top <= Room
                               /\ top = MaxBlock \/ top = Room
  <2>1. MaxBlock \in Nat \ {0}
    <3>1. NThreads \in Nat \ {0, 1} /\ Align \in Nat \ {0} /\ CacheSize \in Nat
          /\ CacheSize > Align * NThreads
      BY ThreadsAssumption
    <3>2. PICK rest \in Nat \ {0} : rest = CacheSize - Align * NThreads
      BY <3>1
    <3>. QED
      BY <3>1, <3>2 DEF MaxBlock
  <2>2. CASE MaxBlock <= Room
    BY <2>1, <2>2
  <2>3. CASE Room <= MaxBlock
    BY <2>1, <2>3
  <2>. QED
    BY <2>1, <2>2, <2>3
<1>. DEFINE Ends == {j \in 1 .. top : j = top \/ mem[Ahead(j)] = 0}
<1>2. PICK r \in Ends : \A j \in Ends : r <= j
  <2>1. Ends \in SUBSET Nat /\ top \in Ends
    OBVIOUS
  <2>. HIDE DEF Ends
  <2>. QED
    BY <2>1, Narrowing!LeastNatural
<1>3. ASSUME NEW j \in 0 .. r - 1 PROVE mem[Ahead(j)] # 0
  <2>1. CASE j = 0
    <3>1. Ahead(0) = pos
      BY DEF Ahead
    <3>. QED
      BY <2>1, <3>1
  <2>2. CASE j # 0
    BY <1>2, <2>2
  <2>. QED
    BY <2>1, <2>2
<1>. DEFINE Good(q) == /\ q <= MaxBlock
                       /\ \A j \in 0 .. q - 1 : mem[Ahead(j)] # 0
                       /\ q = MaxBlock \/ q = Room \/ mem[Ahead(q)] = 0
<1>4. r \in 1 .. Room /\ Good(r)
  <2>1. r \in 1 .. top /\ (r = top \/ mem[Ahead(r)] = 0)
    BY <1>2
  <2>2. r \in 1 .. Room /\ r <= MaxBlock
    BY <1>1, <2>1
  <2>3. r = MaxBlock \/ r = Room \/ mem[Ahead(r)] = 0
    BY <1>1, <2>1
  <2>. QED
    BY <1>3, <2>2, <2>3
<1>5. RunLength = CHOOSE q \in 1 .. Room : Good(q)
  BY DEF RunLength
<1>6. RunLength \in 1 .. Room /\ Good(RunLength)
  <2>. HIDE DEF Good
  <2>. QED
    BY <1>4, <1>5
<1>. QED
  BY <1>6

\* There is a next entry that is not zero, or the end of the scan.
LEMMA SkipIs ==
  ASSUME Room \in Int, Room > 0, pos \in Int, mem[pos] = 0
  PROVE  (CHOOSE j \in 1 .. Room : /\ \A i \in 0 .. j - 1 : mem[Ahead(i)] = 0
                                   /\ j = Room \/ mem[Ahead(j)] # 0) \in 1 .. Room
<1>. DEFINE Ends == {j \in 1 .. Room : j = Room \/ mem[Ahead(j)] # 0}
<1>2. PICK r \in Ends : \A j \in Ends : r <= j
  <2>1. Ends \in SUBSET Nat /\ Room \in Ends
    OBVIOUS
  <2>. HIDE DEF Ends
  <2>. QED
    BY <2>1, Narrowing!LeastNatural
<1>3. ASSUME NEW j \in 0 .. r - 1 PROVE mem[Ahead(j)] = 0
  <2>1. CASE j = 0
    <3>1. Ahead(0) = pos
      BY DEF Ahead
    <3>. QED
      BY <2>1, <3>1
  <2>2. CASE j # 0
    BY <1>2, <2>2
  <2>. QED
    BY <2>1, <2>2
<1>. DEFINE Good(q) == /\ \A j \in 0 .. q - 1 : mem[Ahead(j)] = 0
                       /\ q = Room \/ mem[Ahead(q)] # 0
<1>4. r \in 1 .. Room /\ Good(r)
  BY <1>2, <1>3
<1>5. (CHOOSE q \in 1 .. Room : Good(q)) \in 1 .. Room
  <2>. HIDE DEF Good
  <2>. QED
    BY <1>4
<1>. QED
  BY <1>5

\* Thread states r with the caches of q.
SameCaches(r, q) ==
  /\ r = [t \in Threads |-> r[t]]
  /\ \A t \in Threads : DOMAIN r[t] = DOMAIN q[t] /\ r[t].cache = q[t].cache

\* In a run that is prepared, what is cached so far is less than the part of a thread.
LEMMA CachesHoldNow == CachesInv => CachesHold
<1>. SUFFICES ASSUME CachesInv, pc = "prepare" PROVE CachesHold
  BY DEF CachesInv
<1>1. ASSUME NEW t \in Threads PROVE Len(th[t].cache) <= CacheSize
  <2>1. Len(th[t].cache) <= at[t] /\ at[t] <= Part(t, run) /\ at[t] \in Nat
    BY DEF CachesInv
  <2>2. Part(t, run) <= CacheSize /\ Part(t, run) \in Nat
    BY PartFitsCache DEF CachesInv
  <2>3. PICK S : th[t].cache \in Seq(S)
    BY DEF CachesInv, HasCache
  <2>4. Len(th[t].cache) \in Nat
    BY <2>3
  <2>5. CacheSize \in Nat
    BY ThreadsAssumption
  <2>. QED
    BY <2>1, <2>2, <2>4, <2>5
<1>. QED
  BY <1>1 DEF CachesHold

\* A step that leaves the caches as they are, when no run is prepared after it.
LEMMA QuietKeeps ==
  ASSUME CachesInv, SameCaches(th', th), pc' # "prepare", at' \in [Threads -> Nat]
  PROVE  CachesInv'
<1>1. \A t \in Threads : HasCache(th'[t]) /\ th'[t].cache = th[t].cache
  BY DEF CachesInv, SameCaches, HasCache
<1>2. \A t \in Threads : Len(th'[t].cache) <= CacheSize
  BY <1>1, CachesHoldNow DEF CachesHold
<1>3. th' = [t \in Threads |-> th'[t]]
  BY DEF SameCaches
<1>. QED
  BY <1>1, <1>2, <1>3 DEF CachesInv, CachesHold

\* Outside of a run that is prepared, no thread caches anything.
LEMMA ElemKeepsCache ==
  ASSUME NEW t \in Threads, HasCache(th[t]), at[t] \in Nat, at[t] < Size8u(t), pc # "prepare"
  PROVE  DOMAIN Elem8u(t).th = Fields /\ Elem8u(t).th.cache = th[t].cache
<1>. DEFINE Kept(r) == DOMAIN r = Fields /\ r.cache = th[t].cache
<1>1. CASE pc = "count"
  <2>1. Elem8u(t) = CountElem(t)
    BY <1>1 DEF Elem8u
  <2>2. Kept(CountElem(t).th)
    BY DEF CountElem, Does, HasCache, Fields
  <2>. QED
    BY <2>1, <2>2
<1>2. CASE pc = "radix"
  <2>1. Elem8u(t) = RadixElem(t)
    BY <1>2 DEF Elem8u
  <2>2. Kept(RadixElem(t).th)
    BY DEF RadixElem, Does, HasCache, Fields
  <2>. QED
    BY <2>1, <2>2
<1>3. CASE pc = "place" /\ Partial
  <2>1. Elem8u(t) = PlaceElem(t)
    BY <1>3 DEF Elem8u
  <2>2. Kept(PlaceElem(t).th)
    BY DEF PlaceElem, Does, HasCache, Fields
  <2>. QED
    BY <2>1, <2>2
<1>4. CASE pc = "place" /\ ~ Partial
  <2>1. Elem8u(t) = FinalPlaceElem(t)
    BY <1>4 DEF Elem8u
  <2>2. Kept(FinalPlaceElem(t).th)
    BY DEF FinalPlaceElem, Does, HasCache, Fields
  <2>. QED
    BY <2>1, <2>2
<1>5. CASE pc = "shift"
  BY <1>5 DEF Elem8u, ShiftElem, Does, HasCache
<1>6. CASE pc = "clear"
  BY <1>6 DEF Elem8u, ClearElem, Does, HasCache
<1>7. CASE pc = "repair"
  BY <1>7 DEF Elem8u, RepairElem, Does, HasCache
<1>8. CASE pc = "reconstruct"
  BY <1>8 DEF Elem8u, ReconstructElem, Does, HasCache
<1>9. CASE pc = "renumber"
  <2>1. Elem8u(t) = RenumberElem(t)
    BY <1>9 DEF Elem8u
  <2>2. Kept(RenumberElem(t).th)
    BY DEF RenumberElem, Does, HasCache, Fields
  <2>. QED
    BY <2>1, <2>2
<1>10. CASE pc = "gather_marked"
  <2>1. Elem8u(t) = GatherMarkedElem(t)
    BY <1>10 DEF Elem8u
  <2>2. Kept(GatherMarkedElem(t).th)
    BY DEF GatherMarkedElem, Does, HasCache, Fields
  <2>. QED
    BY <2>1, <2>2
<1>11. CASE pc = "gather"
  <2>1. Elem8u(t) = GatherElem(t)
    BY <1>11 DEF Elem8u
  <2>2. Kept(GatherElem(t).th)
    BY DEF GatherElem, Does, HasCache, Fields
  <2>. QED
    BY <2>1, <2>2
<1>. QED
  BY <1>1, <1>2, <1>3, <1>4, <1>5, <1>6, <1>7, <1>8, <1>9, <1>10, <1>11 DEF Size8u

\* In a run that is prepared, a thread caches one entry at most.
LEMMA ElemCachesOne ==
  ASSUME NEW t \in Threads, HasCache(th[t]), pc = "prepare"
  PROVE  LET r == Elem8u(t).th
         IN  HasCache(r) /\ Len(r.cache) <= Len(th[t].cache) + 1
<1>1. PICK S : th[t].cache \in Seq(S)
  BY DEF HasCache
<1>2. Len(th[t].cache) \in Nat
  BY <1>1
<1>3. ASSUME NEW x
      PROVE  /\ Append(th[t].cache, x) \in Seq(S \cup {x})
             /\ Len(Append(th[t].cache, x)) = Len(th[t].cache) + 1
  <2>1. th[t].cache \in Seq(S \cup {x})
    BY <1>1
  <2>. QED
    BY <2>1
<1>. DEFINE OneMore(r) == HasCache(r) /\ Len(r.cache) <= Len(th[t].cache) + 1
<1>6. ASSUME NEW r, NEW x, DOMAIN r = Fields, r.cache = Append(th[t].cache, x)
      PROVE  OneMore(r)
  <2>1. \E Q : r.cache \in Seq(Q)
    BY <1>3, <1>6
  <2>2. Len(r.cache) <= Len(th[t].cache) + 1
    BY <1>2, <1>3, <1>6
  <2>. QED
    BY <1>6, <2>1, <2>2 DEF HasCache
<1>7. OneMore(th[t])
  BY <1>2
<1>. HIDE DEF OneMore
<1>. SUFFICES OneMore(Elem8u(t).th)
  BY DEF OneMore
<1>4. CASE Partial
  <2>1. Elem8u(t) = PrepareElem(t)
    BY <1>4 DEF Elem8u
  <2>2. PICK x : DOMAIN PrepareElem(t).th = Fields
                 /\ PrepareElem(t).th.cache = Append(th[t].cache, x)
    BY DEF PrepareElem, Does, HasCache, Fields
  <2>. QED
    BY <1>6, <2>1, <2>2
<1>5. CASE ~ Partial
  <2>1. Elem8u(t) = FinalPrepareElem(t)
    BY <1>5 DEF Elem8u
  <2>2. \/ FinalPrepareElem(t).th = th[t]
        \/ \E x : /\ DOMAIN FinalPrepareElem(t).th = Fields
                  /\ FinalPrepareElem(t).th.cache = Append(th[t].cache, x)
    BY DEF FinalPrepareElem, Does, HasCache, Fields
  <2>. QED
    BY <1>6, <1>7, <2>1, <2>2
<1>. QED
  BY <1>4, <1>5

\* Merging what the threads counted changes their tables, never their caches:
\* q are the states of the threads before.
MergePartialStep(q, base, unused, s, t) == MergeNames(MergeSlots(s, t, base, 2 * Symbols), t)
MergeFinalStep(q, base, unused, s, t)   == MergeSlots(s, t, base, Symbols)

MergeKeep(q, base, unused, s, t) ==
  /\ "th" \in DOMAIN s /\ SameCaches(s.th, q)
  /\ \A u \in Threads : "tab" \in DOMAIN q[u] /\ "cache" \in DOMAIN q[u]

MergingPartial == INSTANCE Loops WITH step <- MergePartialStep, Keep <- MergeKeep
MergingFinal   == INSTANCE Loops WITH step <- MergeFinalStep, Keep <- MergeKeep

\* Giving a thread its slots leaves the caches alone.
LEMMA MergeSlotsKeeps ==
  ASSUME NEW q, NEW base, NEW size, NEW s, NEW t \in Threads, MergeKeep(q, 0, 0, s, 0)
  PROVE  MergeKeep(q, 0, 0, MergeSlots(s, t, base, size), 0)
<1>. DEFINE r == MergeSlots(s, t, base, size)
<1>1. PICK tab : r.th = [s.th EXCEPT ![t].tab = tab] /\ "th" \in DOMAIN r
  BY DEF MergeSlots, MergeKeep
<1>. HIDE DEF r
<1>2. s.th = [u \in Threads |-> s.th[u]]
  BY DEF MergeKeep, SameCaches
<1>3. \A u \in Threads : r.th[u] = IF u = t THEN [s.th[t] EXCEPT !.tab = tab] ELSE s.th[u]
  BY <1>1, <1>2
<1>4. r.th = [u \in Threads |-> r.th[u]]
  BY <1>1, <1>2
<1>5. \A u \in Threads : DOMAIN r.th[u] = DOMAIN q[u] /\ r.th[u].cache = q[u].cache
  BY <1>3 DEF MergeKeep, SameCaches
<1>6. MergeKeep(q, 0, 0, r, 0)
  BY <1>1, <1>4, <1>5 DEF MergeKeep, SameCaches
<1>. QED
  BY <1>6 DEF r

\* Giving it its groups does too.
LEMMA MergeNamesKeeps ==
  ASSUME NEW q, NEW s, NEW t \in Threads, MergeKeep(q, 0, 0, s, 0)
  PROVE  MergeKeep(q, 0, 0, MergeNames(s, t), 0)
<1>. DEFINE r == MergeNames(s, t)
<1>1. PICK tab, g : r.th = [s.th EXCEPT ![t].d = g, ![t].tab = tab] /\ "th" \in DOMAIN r
  BY DEF MergeNames
<1>. HIDE DEF r
<1>2. s.th = [u \in Threads |-> s.th[u]]
  BY DEF MergeKeep, SameCaches
<1>3. \A u \in Threads : r.th[u] = IF u = t THEN [[s.th[t] EXCEPT !.d = g] EXCEPT !.tab = tab]
                                            ELSE s.th[u]
  BY <1>1, <1>2
<1>4. r.th = [u \in Threads |-> r.th[u]]
  BY <1>1, <1>2
<1>5. \A u \in Threads : DOMAIN r.th[u] = DOMAIN q[u] /\ r.th[u].cache = q[u].cache
  BY <1>3 DEF MergeKeep, SameCaches
<1>6. MergeKeep(q, 0, 0, r, 0)
  BY <1>1, <1>4, <1>5 DEF MergeKeep, SameCaches
<1>. QED
  BY <1>6 DEF r

\* So does the whole merge, of either kind of scan.
LEMMA MergedKeepCaches ==
  ASSUME CachesInv
  PROVE  SameCaches(MergedPartial.th, th) /\ SameCaches(MergedFinal.th, th)
<1>1. /\ LastThread \in Int /\ 0 \in Int
      /\ 0 <= LastThread + 1
      /\ \A t \in 0 .. LastThread : t \in Threads
  BY ThreadsAssumption DEF LastThread, Threads
<1>2. ASSUME NEW x, x.th = th, "th" \in DOMAIN x, NEW base, NEW i PROVE MergeKeep(th, base, 0, x, i)
  BY <1>2 DEF MergeKeep, SameCaches, CachesInv, HasCache, Fields
<1>3. \A base, s, i, j : MergeKeep(th, base, 0, s, i) => MergeKeep(th, 0, 0, s, j)
  BY DEF MergeKeep
<1>4. \A base, s, i, j : MergeKeep(th, 0, 0, s, i) => MergeKeep(th, base, 0, s, j)
  BY DEF MergeKeep
<1>5. ASSUME NEW x, x.th = th, "th" \in DOMAIN x, NEW base
      PROVE  /\ MergeKeep(th, base, 0, MergingPartial!UpTo(th, base, 0, x, 0, LastThread), LastThread)
             /\ MergeKeep(th, base, 0, MergingPartial!DownTo(th, base, 0, x, LastThread, 0), 0)
  <2>1. ASSUME NEW i \in 0 .. LastThread, NEW s, MergeKeep(th, 0, 0, s, 0)
        PROVE  MergeKeep(th, 0, 0, MergePartialStep(th, base, 0, s, i), 0)
    BY <1>1, <2>1, MergeSlotsKeeps, MergeNamesKeeps DEF MergePartialStep
  <2>2. \A i \in 0 .. LastThread : \A s :
          MergeKeep(th, base, 0, s, i - 1) => MergeKeep(th, base, 0, MergePartialStep(th, base, 0, s, i), i)
    BY <1>3, <1>4, <2>1
  <2>3. \A i \in 0 .. LastThread : \A s :
          MergeKeep(th, base, 0, s, i + 1) => MergeKeep(th, base, 0, MergePartialStep(th, base, 0, s, i), i)
    BY <1>3, <1>4, <2>1
  <2>4. MergeKeep(th, base, 0, x, 0 - 1) /\ MergeKeep(th, base, 0, x, LastThread + 1)
    BY <1>2, <1>5
  <2>. HIDE DEF MergeKeep, MergePartialStep
  <2>. QED
    BY <1>1, <2>2, <2>3, <2>4, MergingPartial!UpKeeps, MergingPartial!DownKeeps
<1>6. ASSUME NEW x, x.th = th, "th" \in DOMAIN x, NEW base
      PROVE  /\ MergeKeep(th, base, 0, MergingFinal!UpTo(th, base, 0, x, 0, LastThread), LastThread)
             /\ MergeKeep(th, base, 0, MergingFinal!DownTo(th, base, 0, x, LastThread, 0), 0)
  <2>1. ASSUME NEW i \in 0 .. LastThread, NEW s, MergeKeep(th, 0, 0, s, 0)
        PROVE  MergeKeep(th, 0, 0, MergeFinalStep(th, base, 0, s, i), 0)
    BY <1>1, <2>1, MergeSlotsKeeps DEF MergeFinalStep
  <2>2. \A i \in 0 .. LastThread : \A s :
          MergeKeep(th, base, 0, s, i - 1) => MergeKeep(th, base, 0, MergeFinalStep(th, base, 0, s, i), i)
    BY <1>3, <1>4, <2>1
  <2>3. \A i \in 0 .. LastThread : \A s :
          MergeKeep(th, base, 0, s, i + 1) => MergeKeep(th, base, 0, MergeFinalStep(th, base, 0, s, i), i)
    BY <1>3, <1>4, <2>1
  <2>4. MergeKeep(th, base, 0, x, 0 - 1) /\ MergeKeep(th, base, 0, x, LastThread + 1)
    BY <1>2, <1>6
  <2>. HIDE DEF MergeKeep, MergeFinalStep
  <2>. QED
    BY <1>1, <2>2, <2>3, <2>4, MergingFinal!UpKeeps, MergingFinal!DownKeeps
<1>. DEFINE x == [M |-> mem, th |-> th, d |-> d]
            partial == IF Upwards THEN F.B + 4 * Symbols ELSE F.B
            final   == IF Upwards THEN F.B + 6 * Symbols ELSE F.B + 7 * Symbols
<1>7. MergedPartial = IF Upwards THEN MergingPartial!UpTo(th, partial, 0, x, 0, LastThread)
                                 ELSE MergingPartial!DownTo(th, partial, 0, x, LastThread, 0)
  BY DEF MergedPartial, InScanOrder, Up, Down, MergePartialStep, MergingPartial!UpTo,
         MergingPartial!DownTo
<1>8. MergedFinal = IF Upwards THEN MergingFinal!UpTo(th, final, 0, x, 0, LastThread)
                               ELSE MergingFinal!DownTo(th, final, 0, x, LastThread, 0)
  BY DEF MergedFinal, InScanOrder, Up, Down, MergeFinalStep, MergingFinal!UpTo,
         MergingFinal!DownTo
<1>9. x.th = th /\ "th" \in DOMAIN x
  OBVIOUS
<1>. HIDE DEF x, partial, final
<1>. QED
  BY <1>5, <1>6, <1>7, <1>8, <1>9 DEF MergeKeep

\* The frame of a sort of bytes, and the end of its memory.
MemoryTop == CacheAt + 2 * NThreads * CacheSize - 1

\* A sort of bytes has one free entry, and its table lies behind the text.
LEMMA BytesFrame ==
  ASSUME JobGiven, kind = "8u"
  PROVE  /\ F.T = n + 1 /\ F.B = 2 * n + 1 /\ F.k = Symbols /\ F.n = n
         /\ Symbols \in Nat \ {0} /\ n \in Nat
         /\ MemoryTop \in Nat /\ MemoryTop >= 2 * n + 8 * Symbols
<1>1. /\ F.T = n + 1 /\ F.B = 2 * n + 1 /\ F.k = Symbols /\ F.n = n /\ n \in Nat
  BY DEF F, Wide, JobGiven
<1>2. CacheAt = n + 1 + n + 8 * Symbols
  BY <1>1 DEF CacheAt, Wide, PerSymbol
<1>3. Symbols \in Nat \ {0}
  BY ThreadsAssumption
<1>4. PICK z \in Nat \ {0} : z = 2 * NThreads * CacheSize
  <2>1. NThreads \in Nat \ {0} /\ CacheSize \in Nat \ {0}
    <3>1. PICK p \in Nat : p = Align * NThreads
      BY ThreadsAssumption
    <3>. QED
      BY <3>1, ThreadsAssumption
  <2>2. NThreads * CacheSize \in Nat \ {0}
    BY <2>1
  <2>. QED
    BY <2>1, <2>2
<1>5. MemoryTop = 2 * n + 8 * Symbols + z
  BY <1>1, <1>2, <1>3, <1>4 DEF MemoryTop
<1>. QED
  BY <1>1, <1>3, <1>4, <1>5

\* The blocks of LMS suffixes move to the end of SA: the memory keeps numbers, and
\* the blocks of the threads from t on are no longer than their parts.
CountedOwn ==
  [t \in Threads |->
     LET end == From(t, n) + Part(t, n)
         cnt == end - 1 - th[t].l
     IN  [th[t] EXCEPT !.m = cnt, !.last = IF cnt > 0 THEN mem[end - 1] ELSE @]]

CountStep(own, unused1, unused2, s, t) ==
  LET total == s.m + own[t].m
      end   == From(t, n) + Part(t, n)
      moved == IF t # LastThread
                 THEN Move(s.M, n - total, end - own[t].m, own[t].m) ELSE s.M
  IN  [M  |-> Overwrite(moved, F.B, 4 * Symbols,
                        LAMBDA e : s.M[F.B + e] + own[t].tab[e]),
       th |-> [s.th EXCEPT ![t] = [own[t] EXCEPT !.tab =
                 [e \in DOMAIN Zeros |-> s.M[F.B + e]]]],
       m  |-> total]

CountKeep(own, unused1, unused2, s, t) ==
  /\ s.M \in [0 .. MemoryTop -> Int]
  /\ SameCaches(s.th, own)
  /\ s.m \in Nat /\ s.m <= IF t > LastThread THEN 0 ELSE n - From(t, n)

CountingUp == INSTANCE Loops WITH step <- CountStep, Keep <- CountKeep

\* Moving the block of a thread keeps the memory made of numbers.
LEMMA CountStepKeeps ==
  ASSUME JobGiven, kind = "8u", NEW own, NEW t \in 0 .. LastThread, NEW s,
         own[t].m \in 0 .. Part(t, n), own[t].tab \in [0 .. 4 * Symbols - 1 -> Int],
         "tab" \in DOMAIN own[t], "cache" \in DOMAIN own[t],
         CountKeep(own, 0, 0, s, t + 1)
  PROVE  CountKeep(own, 0, 0, CountStep(own, 0, 0, s, t), t)
<1>1. /\ F.B = 2 * n + 1 /\ Symbols \in Nat \ {0} /\ n \in Nat
      /\ MemoryTop \in Nat /\ MemoryTop >= 2 * n + 8 * Symbols
  BY BytesFrame
<1>2. t \in Threads /\ LastThread \in Nat /\ t \in Nat /\ t <= LastThread
  BY ThreadsAssumption DEF Threads, LastThread
<1>3. PICK from \in Nat, part \in Nat :
        /\ from = From(t, n) /\ part = Part(t, n) /\ from + part <= n
        /\ t = LastThread => from + part = n
        /\ \A u \in Threads : t < u => from + part <= From(u, n)
  <2>1. n \in Nat /\ t \in Threads
    BY <1>1, <1>2
  <2>. QED
    BY <2>1, PartBounds
<1>4. PICK cnt \in Nat, end \in Nat :
        /\ cnt = own[t].m /\ cnt <= part
        /\ end = From(t, n) + Part(t, n) /\ end = from + part
  BY <1>3
<1>5. PICK total \in Nat, before \in Nat : total = before + cnt /\ before = s.m
  BY <1>4 DEF CountKeep
<1>6. total <= n - from
  <2>1. before <= IF t + 1 > LastThread THEN 0 ELSE n - From(t + 1, n)
    BY <1>5 DEF CountKeep
  <2>2. CASE t = LastThread
    <3>1. before <= 0 /\ from + part = n
      BY <1>2, <1>3, <2>1, <2>2
    <3>. QED
      BY <1>1, <1>4, <1>5, <3>1
  <2>3. CASE t # LastThread
    <3>1. t + 1 \in Threads /\ ~ (t + 1 > LastThread) /\ t < t + 1
      BY <1>2, <2>3 DEF Threads, LastThread
    <3>2. PICK next \in Nat : next = From(t + 1, n)
      BY <1>1, <3>1, PartBounds
    <3>3. from + part <= next /\ before <= n - next
      BY <1>3, <2>1, <3>1, <3>2
    <3>4. PICK size \in Nat : size = n
      BY <1>1
    <3>5. before <= size - next /\ cnt <= part /\ from + part <= next
      BY <1>4, <3>3, <3>4
    <3>6. before + cnt <= size - from
      BY <3>5
    <3>. QED
      BY <1>5, <3>4, <3>6
  <2>. QED
    BY <2>2, <2>3
<1>. DEFINE moved == IF t # LastThread THEN Move(s.M, n - total, end - cnt, cnt) ELSE s.M
            M     == Overwrite(moved, F.B, 4 * Symbols, LAMBDA e : s.M[F.B + e] + own[t].tab[e])
            tab   == [e \in DOMAIN Zeros |-> s.M[F.B + e]]
            r     == [s.th EXCEPT ![t] = [own[t] EXCEPT !.tab = tab]]
<1>7. CountStep(own, 0, 0, s, t) = [M |-> M, th |-> r, m |-> total]
  BY <1>4, <1>5 DEF CountStep
<1>8. s.M \in [0 .. MemoryTop -> Int]
  BY DEF CountKeep
<1>9. moved \in [0 .. MemoryTop -> Int]
  <2>1. Move(s.M, n - total, end - cnt, cnt) \in [0 .. MemoryTop -> Int]
    <3>1. ASSUME NEW a \in n - total .. n - total + cnt - 1
          PROVE  end - cnt + (a - (n - total)) \in 0 .. MemoryTop
      <4>0. PICK place \in Int : place = n - total
        BY <1>1
      <4>1. PICK j \in Int : j = a - (n - total) /\ 0 <= j /\ j <= cnt - 1
        <5>1. a \in place .. place + cnt - 1
          BY <3>1, <4>0
        <5>2. a - place \in Int /\ 0 <= a - place /\ a - place <= cnt - 1
          BY <5>1
        <5>. QED
          BY <4>0, <5>2
      <4>2. 0 <= end - cnt + j /\ end - cnt + j <= end - 1
        <5>1. cnt <= end
          BY <1>3, <1>4
        <5>. QED
          BY <4>1, <5>1
      <4>3. end - cnt + j \in 0 .. MemoryTop
        <5>1. PICK top \in Nat : top = MemoryTop /\ end <= top
          BY <1>1, <1>3, <1>4
        <5>2. PICK q \in Int : q = end - cnt + j
          BY <4>1
        <5>3. q \in 0 .. top
          BY <4>2, <5>1, <5>2
        <5>. QED
          BY <5>1, <5>2, <5>3
      <4>. QED
        BY <4>0, <4>1, <4>3
    <3>. QED
      BY <1>8, <3>1 DEF Move, Overwrite
  <2>. QED
    BY <1>8, <2>1
<1>. HIDE DEF moved
<1>10. M \in [0 .. MemoryTop -> Int]
  <2>1. \A a \in F.B .. F.B + 4 * Symbols - 1 :
          s.M[F.B + (a - F.B)] + own[t].tab[a - F.B] \in Int
    <3>1. \A a \in F.B .. F.B + 4 * Symbols - 1 :
            F.B + (a - F.B) \in 0 .. MemoryTop /\ a - F.B \in 0 .. 4 * Symbols - 1
      <4>1. PICK symbols \in Nat, length \in Nat, top \in Nat :
              /\ symbols = Symbols /\ length = n /\ top = MemoryTop
              /\ F.B = 2 * length + 1 /\ top >= 2 * length + 8 * symbols /\ symbols # 0
        BY <1>1
      <4>2. \A a \in 2 * length + 1 .. 2 * length + 1 + 4 * symbols - 1 :
              /\ 2 * length + 1 + (a - (2 * length + 1)) \in 0 .. top
              /\ a - (2 * length + 1) \in 0 .. 4 * symbols - 1
        BY <4>1
      <4>. QED
        BY <4>1, <4>2
    <3>2. \A a \in F.B .. F.B + 4 * Symbols - 1 :
            s.M[F.B + (a - F.B)] \in Int /\ own[t].tab[a - F.B] \in Int
      BY <1>8, <3>1
    <3>. QED
      BY <3>2
  <2>. QED
    BY <1>9, <2>1 DEF Overwrite
<1>11. SameCaches(r, own)
  <2>1. s.th = [u \in Threads |-> s.th[u]]
    BY DEF CountKeep, SameCaches
  <2>2. \A u \in Threads : r[u] = IF u = t THEN [own[t] EXCEPT !.tab = tab] ELSE s.th[u]
    BY <2>1
  <2>3. r = [u \in Threads |-> r[u]]
    BY <2>1
  <2>. HIDE DEF r
  <2>4. \A u \in Threads : DOMAIN r[u] = DOMAIN own[u] /\ r[u].cache = own[u].cache
    BY <2>2 DEF CountKeep, SameCaches
  <2>. QED
    BY <2>3, <2>4 DEF SameCaches
<1>. HIDE DEF M, r
<1>12. CountKeep(own, 0, 0, [M |-> M, th |-> r, m |-> total], t)
  BY <1>2, <1>3, <1>6, <1>10, <1>11 DEF CountKeep
<1>. QED
  BY <1>7, <1>12

\* What the master thread does when all have counted: the memory is made of numbers,
\* the caches are as they were, and there are at most n LMS suffixes.
LEMMA CountedGives ==
  ASSUME JobGiven, kind = "8u", CachesInv, Counting
  PROVE  /\ Counted.M \in [0 .. MemoryTop -> Int]
         /\ SameCaches(Counted.th, th)
         /\ Counted.m \in 0 .. n
<1>1. /\ F.B = 2 * n + 1 /\ Symbols \in Nat \ {0} /\ n \in Nat
      /\ MemoryTop \in Nat /\ MemoryTop >= 2 * n + 8 * Symbols
  BY BytesFrame
<1>2. LastThread \in Nat /\ Threads = 0 .. LastThread
  BY ThreadsAssumption DEF Threads, LastThread
<1>. DEFINE own == CountedOwn
            x   == [M |-> Fill(mem, F.B, 4 * Symbols, 0), th |-> own, m |-> 0]
<1>3. ASSUME NEW t \in Threads
      PROVE  /\ own[t].m \in 0 .. Part(t, n) /\ own[t].tab \in [0 .. 4 * Symbols - 1 -> Int]
             /\ DOMAIN own[t] = DOMAIN th[t] /\ own[t].cache = th[t].cache
             /\ "tab" \in DOMAIN own[t] /\ "cache" \in DOMAIN own[t]
  <2>1. PICK end \in Int : end = From(t, n) + Part(t, n)
    BY <1>1, PartBounds
  <2>2. PICK cnt \in Int : cnt = end - 1 - th[t].l
    BY <2>1 DEF Counting
  <2>3. cnt \in 0 .. Part(t, n)
    <3>1. /\ at[t] \in Nat /\ at[t] <= Part(t, n) /\ th[t].l \in end - 1 - at[t] .. end - 1
      BY <2>1 DEF Counting, CachesInv
    <3>2. Part(t, n) \in Nat
      BY <1>1, PartBounds
    <3>. QED
      BY <2>1, <2>2, <3>1, <3>2
  <2>4. PICK y : own[t] = [[th[t] EXCEPT !.m = cnt] EXCEPT !.last = y]
    BY <2>1, <2>2 DEF CountedOwn
  <2>. HIDE DEF own
  <2>5. DOMAIN th[t] = Fields
    BY DEF CachesInv, HasCache
  <2>6. /\ own[t].m = cnt /\ own[t].tab = th[t].tab /\ DOMAIN own[t] = Fields
        /\ own[t].cache = th[t].cache
    BY <2>4, <2>5 DEF Fields
  <2>. QED
    BY <2>3, <2>5, <2>6 DEF Counting, Fields
<1>4. own = [t \in Threads |-> own[t]]
  BY DEF CountedOwn
<1>5. Counted = CountingUp!DownTo(own, 0, 0, x, LastThread, 0)
  BY DEF Counted, CountedOwn, CountStep, Down, CountingUp!DownTo
<1>6. CountKeep(own, 0, 0, x, LastThread + 1)
  <2>1. mem \in [0 .. MemoryTop -> Int]
    BY DEF Counting, MemoryTop
  <2>2. Fill(mem, F.B, 4 * Symbols, 0) \in [0 .. MemoryTop -> Int]
    BY <2>1 DEF Fill, Overwrite
  <2>. HIDE DEF own
  <2>3. SameCaches(own, own)
    BY <1>4 DEF SameCaches
  <2>. QED
    BY <1>2, <2>2, <2>3 DEF CountKeep
<1>. HIDE DEF own, x
<1>7. \A i \in 0 .. LastThread : \A s :
        CountKeep(own, 0, 0, s, i + 1) => CountKeep(own, 0, 0, CountStep(own, 0, 0, s, i), i)
  BY <1>2, <1>3, CountStepKeeps
<1>8. CountKeep(own, 0, 0, Counted, 0)
  <2>1. LastThread \in Int /\ 0 \in Int /\ 0 <= LastThread + 1
    BY <1>2
  <2>. HIDE DEF CountKeep, CountStep
  <2>. QED
    BY <1>5, <1>6, <1>7, <2>1, CountingUp!DownKeeps
<1>9. From(0, n) = 0 /\ ~ (0 > LastThread)
  <2>1. Stride(n) \in Nat
    BY <1>1, StrideType
  <2>. QED
    BY <1>2, <2>1 DEF From
<1>10. SameCaches(Counted.th, th)
  BY <1>3, <1>8 DEF CountKeep, SameCaches
<1>. QED
  BY <1>1, <1>8, <1>9, <1>10 DEF CountKeep

\* The suffixes in the buckets of the partial sort are counted by a number.
SumStep(C, unused1, unused2, x, i) == x + AfterL(C, F, i)
SumKeep(C, unused1, unused2, x, i) == x \in Int

Summing == INSTANCE Loops WITH step <- SumStep, Keep <- SumKeep

\* The number of entries of the first scan, which the radix sort table gives.
LEMMA LeftIsNumber ==
  ASSUME JobGiven, kind = "8u", NEW M, DOMAIN M = 0 .. MemoryTop,
         \A a \in 0 .. 2 * n + 4 * Symbols : M[a] \in Int, NEW f \in Int
  PROVE  RadixInit8u(M, F, f).left \in Int
<1>1. /\ F.B = 2 * n + 1 /\ F.k = Symbols /\ Symbols \in Nat \ {0} /\ n \in Nat
      /\ MemoryTop \in Nat /\ MemoryTop >= 2 * n + 8 * Symbols
  BY BytesFrame
<1>. DEFINE C == WithoutFirst4(M, F, f)
            few(e) == {p \in 0 .. f : 4 * Sym(M, F, p) + ClassIn(TypeL(M, F), p) = e}
<1>2. ASSUME NEW e PROVE Cardinality(few(e)) \in Int
  <2>1. IsFiniteSet(0 .. f)
    BY FS_Interval
  <2>2. few(e) \subseteq 0 .. f
    OBVIOUS
  <2>. HIDE DEF few
  <2>. QED
    BY <2>1, <2>2, FS_Subset, FS_CardinalityType
<1>3. \A a \in 0 .. MemoryTop :
        C[a] = IF a \in F.B .. F.B + 4 * F.k - 1
                 THEN Table(M, F, a - F.B) - Cardinality(few(a - F.B)) ELSE M[a]
  BY DEF WithoutFirst4, Overwrite
<1>. HIDE DEF C, few
<1>4. ASSUME NEW e \in 0 .. 4 * Symbols - 1 PROVE Table(C, F, e) \in Int
  <2>1. PICK a \in Int : a = F.B + e
    BY <1>1
  <2>2. /\ a \in 0 .. MemoryTop /\ a \in F.B .. F.B + 4 * F.k - 1 /\ a - F.B = e
        /\ a \in 0 .. 2 * n + 4 * Symbols
    BY <1>1, <2>1
  <2>3. C[a] = M[a] - Cardinality(few(e))
    BY <1>3, <2>1, <2>2 DEF Table
  <2>. QED
    BY <1>2, <2>1, <2>2, <2>3 DEF Table
<1>5. ASSUME NEW c \in 0 .. Symbols - 1 PROVE AfterL(C, F, c) \in Int
  <2>1. 4 * c + 1 \in 0 .. 4 * Symbols - 1 /\ 4 * c + 3 \in 0 .. 4 * Symbols - 1
    BY <1>1
  <2>. QED
    BY <1>4, <2>1 DEF AfterL
<1>6. RadixInit8u(M, F, f).left = Summing!UpTo(C, 0, 0, 0, 0, F.k - 1)
  BY DEF RadixInit8u, Below, Up, SumStep, Summing!UpTo, C
<1>7. SumKeep(C, 0, 0, Summing!UpTo(C, 0, 0, 0, 0, Symbols - 1), Symbols - 1)
  <2>1. SumKeep(C, 0, 0, 0, 0 - 1)
    BY DEF SumKeep
  <2>2. \A i \in 0 .. Symbols - 1 : \A x :
          SumKeep(C, 0, 0, x, i - 1) => SumKeep(C, 0, 0, SumStep(C, 0, 0, x, i), i)
    BY <1>5 DEF SumKeep, SumStep
  <2>3. 0 \in Int /\ Symbols - 1 \in Int /\ 0 <= (Symbols - 1) + 1
    BY <1>1
  <2>. HIDE DEF SumKeep, SumStep
  <2>. QED
    BY <2>1, <2>2, <2>3, Summing!UpKeeps
<1>. QED
  BY <1>1, <1>6, <1>7 DEF SumKeep

\* When the threads have counted, the position of the first LMS suffix and the
\* number of entries of the first scan are numbers.
LEMMA JoinCountKeeps ==
  ASSUME JobGiven, CachesInv, ScansInv, JoinCount
  PROVE  /\ SameCaches(th', th) /\ pc' \in {"sort", "final"}
         /\ at' = [t \in Threads |-> 0]
         /\ first' \in Int /\ left' \in Int /\ UNCHANGED <<pos, run, scan>>
<1>1. kind = "8u" /\ pc = "count" /\ Counting /\ first \in Int /\ left \in Int
  BY DEF JoinCount, Joined, ScansInv
<1>2. /\ F.B = 2 * n + 1 /\ F.k = Symbols /\ Symbols \in Nat \ {0} /\ n \in Nat
      /\ MemoryTop \in Nat /\ MemoryTop >= 2 * n + 8 * Symbols
  BY <1>1, BytesFrame
<1>. DEFINE s == Counted
            M == StartAndEnd8u(s.M, F)
            r == RadixInit8u(M, F, M[n - s.m])
<1>3. /\ s.M \in [0 .. MemoryTop -> Int] /\ SameCaches(s.th, th) /\ s.m \in 0 .. n
  BY <1>1, CountedGives
<1>4. /\ IF s.m > 0
           THEN /\ Goes("sort", Fill(r.M, 0, n - s.m, 0), s.th)
                /\ first' = M[n - s.m] /\ left' = r.left
           ELSE /\ Goes("final", Fill(M, 0, n, 0), s.th)
                /\ UNCHANGED <<first, left>>
      /\ UNCHANGED <<scan, pos, run, d, names>>
  BY DEF JoinCount
<1>. HIDE DEF s
<1>5. DOMAIN M = 0 .. MemoryTop /\ \A a \in 0 .. 2 * n + 4 * Symbols : M[a] \in Int
  <2>1. ASSUME NEW a \in 0 .. 2 * n + 4 * Symbols
        PROVE  a \in 0 .. MemoryTop /\ ~ (a \in F.B + 6 * F.k .. F.B + 6 * F.k + 2 * F.k - 1)
    BY <1>2
  <2>. QED
    BY <1>3, <2>1 DEF StartAndEnd8u, StartAndEnd, Overwrite
<1>. HIDE DEF M
<1>6. CASE s.m > 0
  <2>1. n - s.m \in 0 .. 2 * n + 4 * Symbols
    BY <1>2, <1>3, <1>6
  <2>2. M[n - s.m] \in Int
    BY <1>5, <2>1
  <2>3. r.left \in Int
    BY <1>1, <1>5, <2>2, LeftIsNumber
  <2>. HIDE DEF r
  <2>. QED
    BY <1>3, <1>4, <1>6, <2>2, <2>3 DEF Goes
<1>7. CASE ~ (s.m > 0)
  BY <1>1, <1>3, <1>4, <1>7 DEF Goes
<1>. QED
  BY <1>6, <1>7

\* A scan of bytes knows its room.
LEMMA RoomIsNumber ==
  ASSUME JobGiven, ScansInv, kind = "8u"
  PROVE  Room \in Int /\ \A j \in Int : Ahead(j) \in Int
<1>1. n \in Nat /\ pos \in Int /\ left \in Int /\ scan # "radix"
  BY DEF ScansInv, JobGiven
<1>2. Last \in Int
  BY <1>1 DEF Last, Upwards
<1>. QED
  BY <1>1, <1>2 DEF Room, Ahead, Upwards

\* A thread counts or gathers an entry at the end of its block.
LEMMA CountElemKeeps ==
  ASSUME JobGiven, kind = "8u", pc = "count", CachesInv, Counting,
         NEW t \in Threads, Work8u(t)
  PROVE  Counting'
<1>1. at[t] < Part(t, n) /\ Advance(t, CountElem(t))
  BY DEF Work8u, Size8u, Elem8u
<1>2. n \in Nat /\ UNCHANGED <<kind, text>> /\ n' = n /\ CacheAt' = CacheAt
  <2>1. UNCHANGED <<kind, text>>
    BY <1>1 DEF Advance
  <2>. QED
    BY <2>1, CallKept DEF JobGiven
<1>3. PICK end \in Nat, part \in Nat :
        end = From(t, n) + Part(t, n) /\ part = Part(t, n) /\ part <= end
  BY <1>2, PartBounds
<1>4. PICK done \in Nat, l \in Int :
        done = at[t] /\ done < part /\ l = th[t].l /\ l \in end - 1 - done .. end - 1
  BY <1>1, <1>3 DEF CachesInv, Counting
<1>. DEFINE p == From(t, n) + Part(t, n) - 1 - at[t]
            lms == IsLMS(TypeL(mem, F), p)
            e == 4 * Sym(mem, F, p) + ClassIn(TypeL(mem, F), p)
            r == [th[t] EXCEPT !.l = @ - Bit(lms), !.tab[e] = @ + 1]
<1>5. CountElem(t) = Does({}, One(th[t].l, p), r)
  BY DEF CountElem
<1>6. p \in Int
  <2>1. From(t, n) \in Nat /\ Part(t, n) \in Nat
    BY <1>2, PartBounds
  <2>. QED
    BY <1>4, <2>1
<1>. HIDE DEF p, lms, e
<1>7. /\ mem' = [a \in DOMAIN mem |-> IF a \in {th[t].l} THEN p ELSE mem[a]]
      /\ th' = [th EXCEPT ![t] = r] /\ at' = [at EXCEPT ![t] = @ + 1]
  BY <1>1, <1>5 DEF Advance, Does, One
<1>8. r.l = l - Bit(lms) /\ r.tab = [th[t].tab EXCEPT ![e] = @ + 1]
  BY <1>4 DEF CachesInv, HasCache, Fields
<1>9. r.tab \in [0 .. 4 * Symbols - 1 -> Int]
  <2>1. PICK tab \in [0 .. 4 * Symbols - 1 -> Int] : tab = th[t].tab
    BY DEF Counting
  <2>2. r.tab = [tab EXCEPT ![e] = tab[e] + 1]
    BY <1>8, <2>1
  <2>. HIDE DEF r
  <2>3. \A i \in 0 .. 4 * Symbols - 1 : [tab EXCEPT ![e] = tab[e] + 1][i] \in Int
    OBVIOUS
  <2>. QED
    BY <2>2, <2>3
<1>10. r.l \in end - 1 - (done + 1) .. end - 1
  <2>1. Bit(lms) \in {0, 1}
    BY DEF Bit
  <2>. QED
    BY <1>3, <1>4, <1>8, <2>1
<1>. HIDE DEF r
<1>11. mem' \in [0 .. CacheAt + 2 * NThreads * CacheSize - 1 -> Int]
  BY <1>6, <1>7 DEF Counting
<1>12. ASSUME NEW u \in Threads
       PROVE  LET uend == From(u, n) + Part(u, n)
              IN  /\ th'[u].tab \in [0 .. 4 * Symbols - 1 -> Int]
                  /\ at'[u] <= Part(u, n)
                  /\ th'[u].l \in uend - 1 - at'[u] .. uend - 1
  <2>1. th = [v \in Threads |-> th[v]] /\ at \in [Threads -> Nat]
    BY DEF CachesInv
  <2>2. CASE u = t
    <3>1. th'[u] = r /\ at'[u] = done + 1
      BY <1>4, <1>7, <2>1, <2>2
    <3>. QED
      BY <1>3, <1>4, <1>9, <1>10, <2>2, <3>1
  <2>3. CASE u # t
    <3>1. th'[u] = th[u] /\ at'[u] = at[u]
      BY <1>7, <2>1, <2>3
    <3>. QED
      BY <3>1 DEF Counting
  <2>. QED
    BY <2>2, <2>3
<1>. QED
  BY <1>2, <1>11, <1>12 DEF Counting

\* A thread takes a step in the sort of bytes.
LEMMA Work8uKeeps ==
  ASSUME JobGiven, CachesInv, ScansInv, NEW t \in Threads, Work8u(t)
  PROVE  CachesInv' /\ ScansInv'
<1>1. kind = "8u" /\ at[t] < Size8u(t) /\ Advance(t, Elem8u(t))
  BY DEF Work8u
<1>2. /\ th' = [th EXCEPT ![t] = Elem8u(t).th] /\ at' = [at EXCEPT ![t] = @ + 1]
      /\ UNCHANGED <<kind, text, pc, run, pos, first, left, scan>>
  BY <1>1 DEF Advance, locals
<1>3. /\ at \in [Threads -> Nat] /\ th = [u \in Threads |-> th[u]]
      /\ \A u \in Threads : HasCache(th[u])
  BY DEF CachesInv
<1>4. \A u \in Threads : u # t => th'[u] = th[u] /\ at'[u] = at[u]
  BY <1>2, <1>3
<1>5. th'[t] = Elem8u(t).th /\ at'[t] = at[t] + 1 /\ at' \in [Threads -> Nat]
      /\ th' = [u \in Threads |-> th'[u]]
  BY <1>2, <1>3
<1>6. CachesInv'
  <2>1. CASE pc = "prepare"
    <3>1. HasCache(th'[t]) /\ Len(th'[t].cache) <= Len(th[t].cache) + 1
      BY <1>3, <1>5, <2>1, ElemCachesOne
    <3>2. /\ run \in 1 .. MaxBlock
          /\ \A u \in Threads : Len(th[u].cache) <= at[u] /\ at[u] <= Part(u, run)
      BY <2>1 DEF CachesInv
    <3>3. PICK part \in Int : part = Part(t, run) /\ at[t] < part
      <4>1. Part(t, run) \in Nat
        BY <3>2, PartFitsCache
      <4>. QED
        BY <1>1, <2>1, <4>1 DEF Size8u
    <3>4. at'[t] <= Part(t, run)
      BY <1>3, <1>5, <3>3
    <3>5. Len(th'[t].cache) <= at'[t]
      <4>1. PICK S : th[t].cache \in Seq(S)
        BY <1>3 DEF HasCache
      <4>2. PICK R : th'[t].cache \in Seq(R)
        BY <3>1 DEF HasCache
      <4>3. Len(th[t].cache) \in Nat /\ Len(th'[t].cache) \in Nat
        BY <4>1, <4>2
      <4>. QED
        BY <1>3, <1>5, <3>1, <3>2, <4>3
    <3>6. \A u \in Threads : /\ HasCache(th'[u])
                             /\ Len(th'[u].cache) <= at'[u] /\ at'[u] <= Part(u, run)
      BY <1>3, <1>4, <3>1, <3>2, <3>4, <3>5
    <3>. QED
      BY <1>2, <1>5, <2>1, <3>2, <3>6 DEF CachesInv
  <2>2. CASE pc # "prepare"
    <3>1. DOMAIN Elem8u(t).th = Fields /\ Elem8u(t).th.cache = th[t].cache
      BY <1>1, <1>3, <2>2, ElemKeepsCache
    <3>2. SameCaches(th', th)
      BY <1>3, <1>4, <1>5, <3>1 DEF SameCaches, HasCache
    <3>. QED
      BY <1>2, <1>5, <2>2, <3>2, QuietKeeps
  <2>. QED
    BY <2>1, <2>2
<1>7. ScansInv'
  <2>1. CASE pc = "count"
    <3>1. Counting'
      BY <1>1, <2>1, CountElemKeeps DEF ScansInv
    <3>. QED
      BY <1>1, <1>2, <3>1 DEF ScansInv
  <2>2. CASE pc # "count"
    BY <1>2, <2>2 DEF ScansInv
  <2>. QED
    BY <2>1, <2>2
<1>. QED
  BY <1>6, <1>7

\* A step to pc next, with the caches as they are, when no run is prepared there.
LEMMA GoesKeeps ==
  ASSUME CachesInv, ScansInv, NEW next, NEW M, NEW r,
         Goes(next, M, r), next \notin {"count", "prepare"}, SameCaches(r, th),
         kind = "8u" => /\ pos' \in Int /\ run' \in Int /\ first' \in Int /\ left' \in Int
                        /\ scan' \in {"none", "up", "down", "final_up", "final_down"}
                        /\ scan' = "none" => next \in {"sort", "radix", "partial", "final"}
  PROVE  CachesInv' /\ ScansInv'
<1>1. pc' = next /\ th' = r /\ at' = [t \in Threads |-> 0] /\ kind' = kind
  BY DEF Goes
<1>2. CachesInv'
  <2>1. at' \in [Threads -> Nat] /\ SameCaches(th', th) /\ pc' # "prepare"
    BY <1>1
  <2>. QED
    BY <2>1, QuietKeeps
<1>. QED
  BY <1>1, <1>2 DEF ScansInv

\* Thread states have the caches they have.
LEMMA CachesSame ==
  ASSUME CachesInv
  PROVE  SameCaches(th, th)
BY DEF CachesInv, HasCache, Fields, SameCaches

\* The steps between the regions before the scans.
LEMMA SortStepsKeep ==
  ASSUME JobGiven, CachesInv, ScansInv,
         JoinCount \/ Sort \/ JoinRadix \/ StartPartial \/ JoinShift
  PROVE  CachesInv' /\ ScansInv'
<1>1. CASE JoinCount
  <2>1. /\ SameCaches(th', th) /\ pc' \in {"sort", "final"} /\ at' = [t \in Threads |-> 0]
        /\ first' \in Int /\ left' \in Int /\ UNCHANGED <<pos, run, scan>>
    BY <1>1, JoinCountKeeps
  <2>2. kind' = kind
    BY <1>1 DEF JoinCount, Goes
  <2>3. CachesInv'
    <3>1. at' \in [Threads -> Nat] /\ pc' # "prepare"
      BY <2>1
    <3>. QED
      BY <2>1, <3>1, QuietKeeps
  <2>. QED
    BY <2>1, <2>2, <2>3 DEF ScansInv
<1>2. CASE Sort
  <2>1. UNCHANGED <<pos, run, first, left, scan>> /\ pc = "sort"
    BY <1>2 DEF Sort, locals
  <2>2. \/ Goes("radix", mem, [t \in Threads |-> [th[t] EXCEPT !.tab = RadixTable(t, mem)]])
        \/ Goes("partial", RadixSort8u(mem, F, m), th)
    BY <1>2 DEF Sort
  <2>3. SameCaches([t \in Threads |-> [th[t] EXCEPT !.tab = RadixTable(t, mem)]], th)
    BY DEF CachesInv, HasCache, Fields, SameCaches
  <2>4. kind = "8u" => /\ pos' \in Int /\ run' \in Int /\ first' \in Int /\ left' \in Int
                       /\ scan' \in {"none", "up", "down", "final_up", "final_down"}
    BY <2>1 DEF ScansInv
  <2>. QED
    BY <2>2, <2>3, <2>4, CachesSame, GoesKeeps
<1>3. CASE JoinRadix
  <2>1. Goes("partial", mem, th) /\ UNCHANGED <<pos, run, first, left, scan>>
    BY <1>3 DEF JoinRadix, locals
  <2>2. kind = "8u" => /\ pos' \in Int /\ run' \in Int /\ first' \in Int /\ left' \in Int
                       /\ scan' \in {"none", "up", "down", "final_up", "final_down"}
    BY <2>1 DEF ScansInv
  <2>. QED
    BY <2>1, <2>2, CachesSame, GoesKeeps
<1>4. CASE StartPartial
  <2>1. \E M : Goes("shift", M, th) \/ Goes("scan", M, th)
    BY <1>4 DEF StartPartial
  <2>2. scan' = "up" /\ pos' = 0 /\ UNCHANGED <<run, first, left>>
    BY <1>4 DEF StartPartial
  <2>3. kind = "8u" => /\ pos' \in Int /\ run' \in Int /\ first' \in Int /\ left' \in Int
    BY <2>2 DEF ScansInv
  <2>. QED
    BY <2>1, <2>2, <2>3, CachesSame, GoesKeeps
<1>5. CASE JoinShift
  <2>1. kind = "8u" /\ pc = "shift" /\ UNCHANGED <<run, first, left>> /\ n \in Nat
    BY <1>5 DEF JoinShift, Joined, JobGiven
  <2>2. pos \in Int /\ run \in Int /\ first \in Int /\ left \in Int /\ scan # "none"
        /\ scan \in {"none", "up", "down", "final_up", "final_down"}
    BY <2>1 DEF ScansInv
  <2>3. \/ (\E M : Goes("rename", M, th)) /\ UNCHANGED <<scan, pos>>
        \/ Goes("scan", mem, th) /\ scan' = "down" /\ pos' = First("down")
    BY <1>5 DEF JoinShift
  <2>4. First("down") \in Int
    BY <2>1, <2>2 DEF First
  <2>5. run' \in Int /\ first' \in Int /\ left' \in Int
    BY <2>1, <2>2
  <2>6. CASE (\E M : Goes("rename", M, th)) /\ UNCHANGED <<scan, pos>>
    BY <2>2, <2>5, <2>6, CachesSame, GoesKeeps
  <2>7. CASE Goes("scan", mem, th) /\ scan' = "down" /\ pos' = First("down")
    BY <2>4, <2>5, <2>7, CachesSame, GoesKeeps
  <2>. QED
    BY <2>3, <2>6, <2>7
<1>. QED
  BY <1>1, <1>2, <1>3, <1>4, <1>5

\* The steps of a scan: a run that is prepared is never longer than MaxBlock, and
\* starts with caches that are empty.
LEMMA ScanStepsKeep ==
  ASSUME JobGiven, CachesInv, ScansInv,
         SkipZero \/ ScanAlone \/ ScanTogether \/ JoinPrepare \/ JoinPlace \/ ScanDone
  PROVE  CachesInv' /\ ScansInv'
<1>1. /\ kind = "8u" /\ pc \in {"scan", "prepare", "place"}
  BY DEF SkipZero, ScanAlone, ScanTogether, JoinPrepare, JoinPlace, ScanDone, Scanning, Joined
<1>2. /\ pos \in Int /\ run \in Int /\ first \in Int /\ left \in Int
      /\ scan \in {"up", "down", "final_up", "final_down"}
  BY <1>1 DEF ScansInv
<1>3. Room \in Int /\ \A j \in Int : Ahead(j) \in Int
  BY <1>1, RoomIsNumber
<1>4. ASSUME UNCHANGED <<kind, pc, at, th, scan, run, first, left>>, pos' \in Int, pc = "scan"
      PROVE  CachesInv' /\ ScansInv'
  <2>1. CachesInv'
    BY <1>4, CachesSame, QuietKeeps DEF CachesInv
  <2>. QED
    BY <1>1, <1>2, <1>4, <2>1 DEF ScansInv
<1>5. CASE SkipZero
  <2>. DEFINE next == CHOOSE j \in 1 .. Room : /\ \A i \in 0 .. j - 1 : mem[Ahead(i)] = 0
                                               /\ j = Room \/ mem[Ahead(j)] # 0
  <2>1. Room > 0 /\ mem[pos] = 0 /\ pos' = Ahead(next) /\ pc = "scan"
        /\ UNCHANGED <<kind, pc, at, th, scan, run, first, left>>
    BY <1>5 DEF SkipZero, Scanning
  <2>2. next \in 1 .. Room
    BY <1>2, <1>3, <2>1, SkipIs
  <2>. HIDE DEF next
  <2>3. pos' \in Int
    BY <1>3, <2>1, <2>2
  <2>. QED
    BY <1>4, <2>1, <2>3
<1>6. ASSUME Room > 0, mem[pos] # 0 PROVE RunLength \in 1 .. MaxBlock /\ MaxBlock \in Int
  <2>1. MaxBlock \in Int
    <3>1. NThreads \in Int /\ CacheSize - Align * NThreads \in Int
      BY ThreadsAssumption
    <3>. QED
      BY <3>1 DEF MaxBlock
  <2>. QED
    BY <1>2, <1>3, <1>6, <2>1, RunLengthIs
<1>7. CASE ScanAlone
  <2>1. Room > 0 /\ mem[pos] # 0 /\ pos' = Ahead(RunLength) /\ pc = "scan"
        /\ UNCHANGED <<kind, pc, at, th, scan, run, first, left>>
    BY <1>7 DEF ScanAlone, Scanning
  <2>2. pos' \in Int
    BY <1>3, <1>6, <2>1
  <2>. QED
    BY <1>4, <2>1, <2>2
<1>8. CASE ScanTogether
  <2>. DEFINE r == [t \in Threads |-> [Fresh(th[t]) EXCEPT !.d = IF Partial THEN 1 ELSE @]]
  <2>1. Room > 0 /\ mem[pos] # 0 /\ Goes("prepare", mem, r) /\ run' = RunLength
        /\ UNCHANGED <<scan, pos, first, left>>
    BY <1>8 DEF ScanTogether
  <2>2. run' \in 1 .. MaxBlock /\ run' \in Int
    BY <1>6, <2>1
  <2>3. th' = r /\ pc' = "prepare" /\ kind' = kind /\ at' = [t \in Threads |-> 0]
    BY <2>1 DEF Goes
  <2>4. ASSUME NEW t \in Threads PROVE HasCache(r[t]) /\ r[t].cache = <<>>
    <3>1. HasCache(th[t])
      BY DEF CachesInv
    <3>2. DOMAIN Fresh(th[t]) = Fields /\ Fresh(th[t]).cache = <<>>
      BY <3>1 DEF HasCache, Fields, Fresh
    <3>3. DOMAIN r[t] = Fields /\ r[t].cache = <<>>
      BY <3>2 DEF Fields
    <3>4. <<>> \in Seq({})
      OBVIOUS
    <3>. QED
      BY <3>3, <3>4 DEF HasCache
  <2>5. th' = [t \in Threads |-> th'[t]]
    BY <2>3
  <2>. HIDE DEF r
  <2>6. ASSUME NEW t \in Threads PROVE Part(t, run') \in Nat
    BY <2>2, PartFitsCache
  <2>7. \A t \in Threads : HasCache(th'[t]) /\ Len(th'[t].cache) <= at'[t] /\ at'[t] <= Part(t, run')
    <3>1. Len(<<>>) = 0
      OBVIOUS
    <3>. QED
      BY <2>3, <2>4, <2>6, <3>1
  <2>8. CachesInv'
    <3>1. at' \in [Threads -> Nat]
      BY <2>3
    <3>2. Part(0, 0)' = Part(0, 0) /\ MaxBlock' = MaxBlock
      BY DEF MaxBlock, Part, From, Stride, LastThread
    <3>. QED
      BY <2>2, <2>3, <2>5, <2>7, <3>1 DEF CachesInv
  <2>. QED
    BY <1>2, <2>1, <2>2, <2>3, <2>8 DEF ScansInv
<1>9. CASE JoinPrepare
  <2>1. \E M : Goes("place", M, MergedPartial.th) \/ Goes("place", M, MergedFinal.th)
    BY <1>9 DEF JoinPrepare
  <2>2. UNCHANGED <<scan, pos, run, first, left>>
    BY <1>9 DEF JoinPrepare
  <2>. QED
    BY <1>2, <2>1, <2>2, MergedKeepCaches, GoesKeeps
<1>10. CASE JoinPlace
  <2>1. Goes("scan", mem, th) /\ pos' = Ahead(run) /\ UNCHANGED <<scan, run, first, left>>
    BY <1>10 DEF JoinPlace
  <2>2. pos' \in Int
    BY <1>2, <1>3, <2>1
  <2>. QED
    BY <1>2, <2>1, <2>2, CachesSame, GoesKeeps
<1>11. CASE ScanDone
  <2>1. \E next \in {"shift", "rename", "clear", "done"} : Goes(next, mem, th)
    BY <1>2, <1>11 DEF ScanDone
  <2>2. UNCHANGED <<scan, pos, run, first, left>>
    BY <1>11 DEF ScanDone, locals
  <2>. QED
    BY <1>2, <2>1, <2>2, CachesSame, GoesKeeps
<1>. QED
  BY <1>5, <1>7, <1>8, <1>9, <1>10, <1>11

\* The steps between the regions from the naming on.
LEMMA NamingStepsKeep ==
  ASSUME JobGiven, CachesInv, ScansInv,
         \/ Rename \/ JoinRenumber \/ Named \/ JoinGatherMarked \/ Recurse
         \/ JoinGather \/ JoinRepair \/ JoinReconstruct \/ StartFinal \/ JoinClear
  PROVE  CachesInv' /\ ScansInv'
<1>1. n \in Int
  BY DEF JobGiven
<1>2. CASE StartFinal
  <2>1. \E M : Goes("scan", M, th)
    BY <1>2 DEF StartFinal
  <2>2. scan' = "final_up" /\ pos' = 0 /\ UNCHANGED <<run, first, left>>
    BY <1>2 DEF StartFinal
  <2>3. kind = "8u" => run' \in Int /\ first' \in Int /\ left' \in Int
    BY <2>2 DEF ScansInv
  <2>. QED
    BY <2>1, <2>2, <2>3, CachesSame, GoesKeeps
<1>3. CASE JoinClear
  <2>1. Goes("scan", mem, th) /\ scan' = "final_down" /\ pos' = First("final_down")
        /\ UNCHANGED <<run, first, left>>
    BY <1>3 DEF JoinClear
  <2>2. kind = "8u" => run' \in Int /\ first' \in Int /\ left' \in Int
    BY <2>1 DEF ScansInv
  <2>3. First("final_down") \in Int
    BY <1>1 DEF First
  <2>. QED
    BY <2>1, <2>2, <2>3, CachesSame, GoesKeeps
<1>4. CASE \/ Rename \/ JoinRenumber \/ Named \/ JoinGatherMarked \/ Recurse
           \/ JoinGather \/ JoinRepair \/ JoinReconstruct
  <2>1. UNCHANGED <<scan, pos, run, first, left>>
    BY <1>4 DEF Rename, JoinRenumber, Named, JoinGatherMarked, Recurse, JoinGather, JoinRepair,
                JoinReconstruct, locals
  <2>2. pc \notin {"count", "sort", "radix", "partial", "final"}
    BY <1>4 DEF Rename, JoinRenumber, Named, JoinGatherMarked, Recurse, JoinGather, JoinRepair,
                JoinReconstruct, Joined
  <2>3. \E next \in {"renumber", "named", "final", "gather_marked", "recurse", "gather",
                     "repair", "reconstruct"} :
          \E M, r : Goes(next, M, r) /\ SameCaches(r, th)
    <3>1. CASE Rename
      <4>. DEFINE upto(t) == Up(LAMBDA sum, u : sum + Negatives(u), 0, 0, t - 1)
                  r == [t \in Threads |-> [th[t] EXCEPT !.l = upto(t)]]
      <4>1. \E M : Goes("renumber", M, r) \/ Goes("named", M, th)
        BY <3>1 DEF Rename
      <4>. HIDE DEF upto
      <4>2. SameCaches(r, th)
        BY DEF CachesInv, HasCache, Fields, SameCaches
      <4>. HIDE DEF r
      <4>. QED
        BY <4>1, <4>2, CachesSame
    <3>2. CASE Named
      <4>. DEFINE r == [t \in Threads |-> [th[t] EXCEPT !.l = GatherEnd(t) - 1]]
      <4>1. \E M : Goes("final", M, th) \/ Goes("recurse", M, th) \/ Goes("gather_marked", M, r)
        BY <3>2 DEF Named
      <4>2. SameCaches(r, th)
        BY DEF CachesInv, HasCache, Fields, SameCaches
      <4>. HIDE DEF r
      <4>. QED
        BY <4>1, <4>2, CachesSame
    <3>3. CASE Recurse
      <4>. DEFINE r == [t \in Threads |-> [th[t] EXCEPT !.l = n - 1 - Later(t)]]
      <4>1. \E M : Goes("gather", M, r)
        BY <3>3 DEF Recurse
      <4>2. SameCaches(r, th)
        BY DEF CachesInv, HasCache, Fields, SameCaches
      <4>. HIDE DEF r
      <4>. QED
        BY <4>1, <4>2
    <3>4. CASE JoinRenumber \/ JoinGatherMarked \/ JoinGather \/ JoinRepair \/ JoinReconstruct
      BY <3>4, CachesSame
         DEF JoinRenumber, JoinGatherMarked, JoinGather, JoinRepair, JoinReconstruct
    <3>. QED
      BY <1>4, <3>1, <3>2, <3>3, <3>4
  <2>4. kind = "8u" => /\ pos' \in Int /\ run' \in Int /\ first' \in Int /\ left' \in Int
                       /\ scan' \in {"up", "down", "final_up", "final_down"}
    BY <2>1, <2>2 DEF ScansInv
  <2>. QED
    BY <2>3, <2>4, CachesSame, GoesKeeps
<1>. QED
  BY <1>2, <1>3, <1>4

\* The sort of an array of integers keeps its cache in the memory, and nothing in
\* the caches of the thread states.
LEMMA Steps32sKeep ==
  ASSUME JobGiven, NoRadix, CachesInv, ScansInv, Next32s
  PROVE  CachesInv' /\ ScansInv'
<1>1. ASSUME NEW t \in Threads, Work32s(t) PROVE CachesInv' /\ ScansInv'
  <2>1. Ints32s /\ at[t] < Size32s(t) /\ Advance(t, Elem32s(t)) /\ at \in [Threads -> Nat]
    BY <1>1 DEF Work32s, CachesInv
  <2>2. pc \in {"fetch", "put"}
    BY <2>1 DEF Size32s
  <2>3. Elem32s(t).th = th[t]
    BY <2>2 DEF Elem32s, FetchElem, PutElem, Does
  <2>4. th' = [th EXCEPT ![t] = th[t]] /\ at' = [at EXCEPT ![t] = @ + 1] /\ UNCHANGED <<kind, pc>>
    BY <2>1, <2>3 DEF Advance
  <2>5. th' = th /\ at' \in [Threads -> Nat]
    <3>1. th = [u \in Threads |-> th[u]]
      BY DEF CachesInv
    <3>. QED
      BY <2>1, <2>4, <3>1
  <2>6. CachesInv'
    BY <2>2, <2>4, <2>5, CachesSame, QuietKeeps
  <2>. QED
    BY <2>1, <2>4, <2>6 DEF ScansInv, Ints32s
<1>2. CASE Order
  <2>1. \E M : Goes("scan", M, th)
    BY <1>2 DEF Order, StartScan
  <2>2. scan' = "final_up" /\ run' = 0 /\ pos' = First("final_up") /\ UNCHANGED <<first, left>>
    BY <1>2 DEF Order, StartScan
  <2>3. First("final_up") \in Int
    BY DEF First
  <2>4. kind = "8u" => first' \in Int /\ left' \in Int
    BY <2>2 DEF ScansInv
  <2>. QED
    BY <2>1, <2>2, <2>3, <2>4, CachesSame, GoesKeeps
<1>3. CASE Recurse32s \/ Recount
  <2>1. (\E M : Goes("order", M, th)) /\ UNCHANGED <<scan, pos, run, first, left>>
        /\ pc \in {"call", "recount"}
    BY <1>3 DEF Recurse32s, Recount, locals
  <2>2. kind = "8u" => /\ pos' \in Int /\ run' \in Int /\ first' \in Int /\ left' \in Int
                       /\ scan' \in {"up", "down", "final_up", "final_down"}
    BY <2>1 DEF ScansInv
  <2>. QED
    BY <2>1, <2>2, CachesSame, GoesKeeps
<1>4. CASE \/ Count32s \/ Count1k \/ ScanAlone32s \/ StartBlock \/ JoinFetch \/ JoinPut
           \/ EndRadix \/ EndUp \/ EndDown \/ EndFinalUp \/ EndFinalDown
  <2>1. kind # "8u"
    BY <1>4 DEF Count32s, Count1k, ScanAlone32s, StartBlock, JoinFetch, JoinPut, EndRadix, EndUp,
                EndDown, EndFinalUp, EndFinalDown, ScannedAll, Scanning32s, Joined32s, Ints32s
  <2>2. \E next \in {"scan", "fetch", "put", "call", "recount", "done"} :
          \E M : Goes(next, M, th)
    <3>1. CASE Count32s \/ Count1k
      BY <3>1 DEF Count32s, Count1k, StartScan
    <3>2. CASE ScanAlone32s \/ StartBlock \/ JoinFetch \/ JoinPut
      BY <3>2 DEF ScanAlone32s, StartBlock, JoinFetch, JoinPut
    <3>3. CASE EndRadix
      <4>1. kind \in {"6k", "4k", "2k"}
        BY <3>3 DEF EndRadix, ScannedAll, Scanning32s, Ints32s, NoRadix
      <4>. QED
        BY <3>3, <4>1 DEF EndRadix, StartScan
    <3>4. CASE EndUp \/ EndFinalUp
      BY <3>4 DEF EndUp, EndFinalUp, StartScan
    <3>5. CASE EndDown \/ EndFinalDown
      BY <3>5 DEF EndDown, EndFinalDown
    <3>. QED
      BY <1>4, <3>1, <3>2, <3>3, <3>4, <3>5
  <2>. QED
    BY <2>1, <2>2, CachesSame, GoesKeeps
<1>. QED
  BY <1>1, <1>2, <1>3, <1>4 DEF Next32s

\* The sort of a wide array keeps nothing in the caches of the thread states either.
LEMMA StepsWideKeep ==
  ASSUME CachesInv, ScansInv, NextWide
  PROVE  CachesInv' /\ ScansInv'
<1>1. ASSUME NEW t \in Threads, WorkWide(t) PROVE CachesInv' /\ ScansInv'
  <2>1. Wide /\ at[t] < SizeWide(t) /\ Advance(t, ElemWide(t)) /\ at \in [Threads -> Nat]
    BY <1>1 DEF WorkWide, CachesInv
  <2>2. pc = "widen" /\ ElemWide(t).th = th[t]
    BY <2>1 DEF SizeWide, ElemWide, Does
  <2>3. th' = [th EXCEPT ![t] = th[t]] /\ at' = [at EXCEPT ![t] = @ + 1] /\ UNCHANGED <<kind, pc>>
    BY <2>1, <2>2 DEF Advance
  <2>4. th' = th /\ at' \in [Threads -> Nat]
    <3>1. th = [u \in Threads |-> th[u]]
      BY DEF CachesInv
    <3>. QED
      BY <2>1, <2>3, <3>1
  <2>5. CachesInv'
    BY <2>2, <2>3, <2>4, CachesSame, QuietKeeps
  <2>. QED
    BY <2>1, <2>3, <2>5 DEF ScansInv, Wide
<1>2. CASE SortNarrow \/ WidenHalf \/ JoinWiden \/ WidenRest
  <2>1. kind # "8u" /\ \E next \in {"halve", "widen", "done"} : \E M : Goes(next, M, th)
    BY <1>2 DEF SortNarrow, WidenHalf, JoinWiden, WidenRest, Wide
  <2>. QED
    BY <2>1, CachesSame, GoesKeeps
<1>. QED
  BY <1>1, <1>2 DEF NextWide

\* Every step keeps the invariant.
LEMMA CachesNext ==
  WideInv /\ CachesInv /\ ScansInv /\ [OmpNext]_vars => CachesInv' /\ ScansInv'
<1>. SUFFICES ASSUME WideInv, CachesInv, ScansInv, [OmpNext]_vars PROVE CachesInv' /\ ScansInv'
  OBVIOUS
<1>1. JobGiven /\ NoRadix
  BY DEF WideInv
<1>2. CASE Next8u
  BY <1>1, <1>2, Work8uKeeps, SortStepsKeep, ScanStepsKeep, NamingStepsKeep DEF Next8u
<1>3. CASE Next32s
  BY <1>1, <1>3, Steps32sKeep
<1>4. CASE NextWide
  BY <1>4, StepsWideKeep
<1>5. CASE Done \/ UNCHANGED vars
  <2>1. UNCHANGED <<kind, text, mem, pc, at, th, scan, pos, run, first, left>>
    BY <1>5 DEF Done, vars
  <2>2. n' = n /\ CacheAt' = CacheAt
    BY <2>1, CallKept
  <2>3. (Counting' <=> Counting) /\ (CachesHold' <=> CachesHold)
    BY <2>1, <2>2 DEF Counting, CachesHold
  <2>. QED
    BY <2>1, <2>3 DEF CachesInv, ScansInv
<1>. QED
  BY <1>2, <1>3, <1>4, <1>5 DEF OmpNext

\* The call begins with memory that holds numbers, and nothing cached or counted.
LEMMA CachesStart == ThreadsInit => CachesInv /\ ScansInv
<1>. SUFFICES ASSUME ThreadsInit PROVE CachesInv /\ ScansInv
  OBVIOUS
<1>. DEFINE fresh(t) == [tab |-> Zeros, cache |-> <<>>, m |-> 0, last |-> 0,
                         l |-> From(t, n) + Part(t, n) - 1, d |-> 0]
<1>1. /\ pc = "count" /\ at = [t \in Threads |-> 0] /\ th = [t \in Threads |-> fresh(t)]
      /\ scan = "none" /\ pos = 0 /\ run = 0 /\ first = 0 /\ left = 0
  BY DEF ThreadsInit
<1>2. JobGiven
  BY WideStarts DEF WideInv
<1>3. ASSUME NEW t \in Threads
      PROVE  /\ DOMAIN th[t] = Fields /\ th[t].cache = <<>> /\ th[t].tab = Zeros
             /\ th[t].l = From(t, n) + Part(t, n) - 1
  BY <1>1 DEF Fields
<1>4. th = [t \in Threads |-> th[t]]
  BY <1>1
<1>5. CachesInv
  <2>1. <<>> \in Seq({}) /\ Len(<<>>) = 0 /\ CacheSize \in Nat
    BY ThreadsAssumption
  <2>2. \A t \in Threads : HasCache(th[t])
    BY <1>3, <2>1 DEF HasCache
  <2>3. CachesHold
    BY <1>3, <2>1 DEF CachesHold
  <2>. QED
    BY <1>1, <1>4, <2>2, <2>3 DEF CachesInv
<1>6. ASSUME kind = "8u" PROVE Counting
  <2>1. n \in Nat /\ F.T = n + 1 /\ text \in [0 .. n - 1 -> 0 .. Symbols - 1] /\ Symbols \in Nat
        /\ Half \in Nat
    BY <1>2, <1>6, BytesFrame, HalfAssumption DEF JobGiven
  <2>2. Given = [a \in F.T .. F.T + n - 1 |-> text[a - F.T]]
    BY <1>6 DEF Given
  <2>3. ASSUME NEW a \in DOMAIN Given PROVE Given[a] \in Int
    <3>1. a \in n + 1 .. n + n
      BY <2>1, <2>2
    <3>2. Given[a] = text[a - (n + 1)] /\ a - (n + 1) \in 0 .. n - 1
      BY <2>1, <2>2, <3>1
    <3>3. text[a - (n + 1)] \in 0 .. Symbols - 1
      BY <2>1, <3>2
    <3>. QED
      BY <2>1, <3>2, <3>3
  <2>4. PICK x \in Junk : mem = [a \in 0 .. CacheAt + 2 * NThreads * CacheSize - 1 |->
                                   IF a \in DOMAIN Given THEN Given[a] ELSE x]
    BY DEF ThreadsInit
  <2>5. x \in Int
    BY <2>1, ThreadsAssumption
  <2>6. mem \in [0 .. CacheAt + 2 * NThreads * CacheSize - 1 -> Int]
    <3>. HIDE DEF Given
    <3>. QED
      BY <2>3, <2>4, <2>5
  <2>7. Zeros \in [0 .. 4 * Symbols - 1 -> Int]
    BY DEF Zeros
  <2>8. ASSUME NEW t \in Threads
        PROVE  LET end == From(t, n) + Part(t, n)
               IN  /\ th[t].tab \in [0 .. 4 * Symbols - 1 -> Int]
                   /\ at[t] <= Part(t, n)
                   /\ th[t].l \in end - 1 - at[t] .. end - 1
    <3>1. PICK from \in Nat, part \in Nat : from = From(t, n) /\ part = Part(t, n)
      BY <2>1, PartBounds
    <3>2. at[t] = 0 /\ th[t].l = from + part - 1 /\ th[t].tab = Zeros
      BY <1>1, <1>3, <3>1
    <3>. QED
      BY <2>7, <3>1, <3>2
  <2>. QED
    BY <2>6, <2>8 DEF Counting
<1>. QED
  BY <1>1, <1>5, <1>6 DEF ScansInv

\* The invariant of the caches holds throughout.
LEMMA CachesInvariance == OmpSpec => [](CachesInv /\ ScansInv)
<1>1. ThreadsInit => CachesInv /\ ScansInv
  BY CachesStart
<1>2. WideInv /\ CachesInv /\ ScansInv /\ [OmpNext]_vars => CachesInv' /\ ScansInv'
  BY CachesNext
<1>. QED
  BY <1>1, <1>2, WideInvariance, PTL DEF OmpSpec

\* Whatever the text, the number of threads and how they interleave, what a
\* thread caches in a scan of libsais_main_8u finds room in its part of the
\* thread cache (LIBSAIS_PER_THREAD_CACHE_SIZE); this is why a run is limited to
\* NThreads * (CacheSize - Align * NThreads) entries.
THEOREM CachesNeverOverflow == OmpSpec => []CachesHold
BY CachesInvariance, CachesHoldNow, PTL

-----------------------------------------------------------------------------
(***************************************************************************)
(* Counting and preparing in parallel.                                     *)
(***************************************************************************)
\* A thread that counts writes to its own part of SA.
LEMMA CountWrites ==
  ASSUME JobGiven, kind = "8u", pc = "count", Counting, CachesInv,
         NEW t \in Threads, Busy(t)
  PROVE  /\ Elem(t).reads = {}
         /\ DOMAIN Elem(t).writes \subseteq From(t, n) .. From(t, n) + Part(t, n) - 1
<1>1. at[t] < Part(t, n) /\ at[t] \in Nat /\ n \in Nat
  BY DEF Busy, Size8u, CachesInv, JobGiven
<1>2. Elem(t).reads = {} /\ DOMAIN Elem(t).writes = {th[t].l}
  BY DEF Elem, Elem8u, CountElem, Does, One
<1>3. PICK from \in Nat, part \in Nat, end \in Nat :
        /\ from = From(t, n) /\ part = Part(t, n)
        /\ end = From(t, n) + Part(t, n) /\ end = from + part
  BY <1>1, PartBounds
<1>4. th[t].l \in end - 1 - at[t] .. end - 1
  BY <1>3 DEF Counting
<1>. QED
  BY <1>1, <1>2, <1>3, <1>4

\* The entry a thread prepares is one of its own part of the run.
PartOf(t) ==
  IF Upwards THEN pos + From(t, run) .. pos + From(t, run) + Part(t, run) - 1
             ELSE pos - run + From(t, run) + 1 .. pos - run + From(t, run) + Part(t, run)

\* What a thread touches when it prepares is in its part of the run.
LEMMA PrepareTouches ==
  ASSUME kind = "8u", pc = "prepare", CachesInv, ScansInv, NEW t \in Threads, Busy(t)
  PROVE  /\ Elem(t).reads \subseteq PartOf(t)
         /\ DOMAIN Elem(t).writes \subseteq PartOf(t)
<1>1. at[t] < Part(t, run) /\ at[t] \in Nat /\ pos \in Int /\ run \in Nat
  <2>1. run \in Int /\ run \in 1 .. MaxBlock
    BY DEF CachesInv, ScansInv
  <2>. QED
    BY <2>1 DEF Busy, Size8u, CachesInv, ScansInv
<1>2. /\ Elem(t).reads = {Entry(t)}
      /\ DOMAIN Elem(t).writes \in {{}, {Entry(t)}}
  BY DEF Elem, Elem8u, PrepareElem, FinalPrepareElem, Does, One, None
<1>3. PICK from \in Nat, part \in Nat : from = From(t, run) /\ part = Part(t, run)
  BY <1>1, PartBounds
<1>4. Entry(t) \in PartOf(t)
  BY <1>1, <1>3 DEF Entry, PartOf
<1>. QED
  BY <1>2, <1>4

\* While the threads of libsais_main_8u count and gather
\* (libsais_count_and_gather_lms_suffixes_8u_omp), and while they read a run into
\* their caches (libsais_partial_sorting_scan_left_to_right_8u_block_omp and the
\* other scans of blocks), none writes an entry of SA that another one is about to
\* read or write: the part of each is its own, up to the last entry.
THEOREM PreparedApart == OmpSpec => [](kind = "8u" /\ pc \in {"count", "prepare"} => NoRaces)
<1>1. WideInv /\ CachesInv /\ ScansInv => (kind = "8u" /\ pc \in {"count", "prepare"} => NoRaces)
  <2>. SUFFICES ASSUME WideInv, CachesInv, ScansInv, kind = "8u", pc \in {"count", "prepare"},
                       NEW t \in Threads, NEW u \in Threads, t # u, Busy(t), Busy(u)
                PROVE  DOMAIN Elem(t).writes
                         \cap (Elem(u).reads \cup DOMAIN Elem(u).writes) = {}
    BY DEF NoRaces
  <2>1. JobGiven /\ n \in Nat
    BY DEF WideInv, JobGiven
  <2>2. CASE pc = "count"
    <3>1. Counting
      BY <2>2 DEF ScansInv
    <3>2. /\ Elem(u).reads = {}
          /\ DOMAIN Elem(t).writes \subseteq From(t, n) .. From(t, n) + Part(t, n) - 1
          /\ DOMAIN Elem(u).writes \subseteq From(u, n) .. From(u, n) + Part(u, n) - 1
      BY <2>1, <2>2, <3>1, CountWrites
    <3>3. \A i \in From(t, n) .. From(t, n) + Part(t, n) - 1 :
            i \notin From(u, n) .. From(u, n) + Part(u, n) - 1
      BY <2>1, PartsApart
    <3>. QED
      BY <3>2, <3>3
  <2>3. CASE pc = "prepare"
    <3>1. run \in Nat /\ pos \in Int
      <4>1. run \in Int /\ run \in 1 .. MaxBlock
        BY <2>3 DEF CachesInv, ScansInv
      <4>. QED
        BY <4>1 DEF ScansInv
    <3>2. /\ Elem(u).reads \cup DOMAIN Elem(u).writes \subseteq PartOf(u)
          /\ DOMAIN Elem(t).writes \subseteq PartOf(t)
      BY <2>3, PrepareTouches
    <3>3. PartOf(t) \cap PartOf(u) = {}
      <4>1. PICK f \in Nat, p \in Nat, g \in Nat, q \in Nat :
              f = From(t, run) /\ p = Part(t, run) /\ g = From(u, run) /\ q = Part(u, run)
        BY <3>1, PartBounds
      <4>2. \A i \in f .. f + p - 1 : i \notin g .. g + q - 1
        BY <3>1, <4>1, PartsApart
      <4>3. ASSUME NEW i \in PartOf(t), i \in PartOf(u) PROVE FALSE
        <5>1. CASE Upwards
          <6>1. i - pos \in f .. f + p - 1 /\ i - pos \in g .. g + q - 1
            BY <3>1, <4>1, <4>3, <5>1 DEF PartOf
          <6>. QED
            BY <4>2, <6>1
        <5>2. CASE ~ Upwards
          <6>1. i - 1 - (pos - run) \in f .. f + p - 1 /\ i - 1 - (pos - run) \in g .. g + q - 1
            BY <3>1, <4>1, <4>3, <5>2 DEF PartOf
          <6>. QED
            BY <4>2, <6>1
        <5>. QED
          BY <5>1, <5>2
      <4>. QED
        BY <4>3
    <3>. QED
      BY <3>2, <3>3
  <2>. QED
    BY <2>2, <2>3
<1>. QED
  BY <1>1, CachesInvariance, WideInvariance, PTL

\* While the threads of libsais_main_8u count and gather
\* (libsais_count_and_gather_lms_suffixes_8u_omp), none writes outside of the memory
\* of the sort: each gathers downwards from the end of its part, and there are no
\* more LMS suffixes in it than entries.
THEOREM CountingFits == OmpSpec => [](kind = "8u" /\ pc = "count" => CacheFits)
<1>1. WideInv /\ CachesInv /\ ScansInv => (kind = "8u" /\ pc = "count" => CacheFits)
  <2>. SUFFICES ASSUME WideInv, CachesInv, ScansInv, kind = "8u", pc = "count" PROVE CacheFits
    OBVIOUS
  <2>1. JobGiven /\ Counting
    BY DEF WideInv, ScansInv
  <2>2. PICK size \in Nat, top \in Nat :
          size = n /\ top >= size /\ DOMAIN mem = 0 .. top
    <3>1. n \in Nat /\ MemoryTop \in Nat /\ MemoryTop >= 2 * n + 8 * Symbols /\ Symbols \in Nat
      BY <2>1, BytesFrame
    <3>2. DOMAIN mem = 0 .. MemoryTop
      BY <2>1 DEF Counting, MemoryTop
    <3>3. MemoryTop >= n
      BY <3>1
    <3>. QED
      BY <3>1, <3>2, <3>3
  <2>3. ASSUME NEW t \in Threads, Busy(t) PROVE DOMAIN Elem(t).writes \subseteq DOMAIN mem
    <3>1. DOMAIN Elem(t).writes \subseteq From(t, n) .. From(t, n) + Part(t, n) - 1
      BY <2>1, <2>3, CountWrites
    <3>2. PICK from \in Nat, part \in Nat :
            from = From(t, n) /\ part = Part(t, n) /\ from + part <= size
      BY <2>2, PartBounds
    <3>. QED
      BY <2>2, <3>1, <3>2
  <2>. QED
    BY <2>3, CachesHoldNow DEF CacheFits
<1>. QED
  BY <1>1, CachesInvariance, WideInvariance, PTL

-----------------------------------------------------------------------------
(***************************************************************************)
(* The blocks of libsais_main_32s: the inductive invariant.                *)
(***************************************************************************)
\* The scans whose range does not depend on what the sort has counted: only the
\* partial scans of the largest variant do.
FixedRange == kind # "6k" \/ scan \notin {"up", "down"}

\* A scan is within SA, and its block no longer than the rest of it or the cache.
BlocksInv ==
  Ints32s =>
    /\ pc \in {"count", "scan", "fetch", "put", "call", "recount", "order", "done"}
    /\ scan \in {"none", "radix", "up", "down", "final_up", "final_down"}
    /\ scan = "none" => pc = "count"
    /\ scan = "radix" => m \in 0 .. n
    /\ pc \in {"scan", "fetch", "put"} /\ FixedRange =>
         /\ pos \in Int
         /\ IF Upwards THEN pos >= 0 ELSE pos <= n - 1
    /\ pc \in {"fetch", "put"} /\ FixedRange =>
         run \in Nat \ {0} /\ run <= Room /\ run <= NThreads * CacheSize

\* The rest of a scan, and what lies behind a part of it.
LEMMA RoomIs ==
  ASSUME JobGiven, BlocksInv, Ints32s, FixedRange, pc \in {"scan", "fetch", "put"}
  PROVE  /\ Room \in Int
         /\ \A j \in Int : Ahead(j) = IF Upwards THEN pos + j ELSE pos - j
         /\ Upwards => Room = n - pos
         /\ ~ Upwards => Room <= pos + 1
<1>1. n \in Nat /\ pos \in Int /\ scan \in {"radix", "up", "down", "final_up", "final_down"}
      /\ kind # "8u" /\ (scan = "radix" => m \in Int /\ m <= n)
  BY DEF JobGiven, BlocksInv, Ints32s
<1>2. /\ Last \in Int
      /\ Upwards => Last = n - 1
      /\ ~ Upwards => Last >= 0
  BY <1>1 DEF Last, Upwards, FixedRange
<1>. QED
  BY <1>1, <1>2 DEF Room, Ahead

\* The cache of all threads has at least one entry.
LEMMA CacheEntries == NThreads * CacheSize \in Nat \ {0}
<1>1. NThreads \in Nat \ {0} /\ CacheSize \in Nat \ {0}
  <2>1. PICK spare \in Nat : spare = Align * NThreads
    BY ThreadsAssumption
  <2>. QED
    BY <2>1, ThreadsAssumption
<1>. QED
  BY <1>1

\* A step of a scan of integers that leaves it in the scan keeps it within SA.
LEMMA AheadKeeps ==
  ASSUME JobGiven, BlocksInv, Ints32s, pc \in {"scan", "put"},
         UNCHANGED <<kind, text, scan, m, run>>,
         pc' = "scan", NEW size, pos' = Ahead(size),
         FixedRange => size \in Nat /\ size <= Room
  PROVE  BlocksInv'
<1>1. n' = n /\ (FixedRange' <=> FixedRange) /\ (Upwards' <=> Upwards)
  BY CallKept DEF FixedRange, Upwards
<1>2. ASSUME FixedRange PROVE pos' \in Int /\ IF Upwards THEN pos' >= 0 ELSE pos' <= n - 1
  <2>1. /\ Room \in Int /\ Ahead(size) = IF Upwards THEN pos + size ELSE pos - size
        /\ pos \in Int /\ n \in Nat /\ (IF Upwards THEN pos >= 0 ELSE pos <= n - 1)
    BY <1>2, RoomIs DEF BlocksInv, JobGiven
  <2>. QED
    BY <1>2, <2>1
<1>. QED
  BY <1>1, <1>2 DEF BlocksInv, Ints32s

\* A step into a scan that begins at its first entry.
LEMMA StartKeeps ==
  ASSUME JobGiven, NEW s \in {"radix", "up", "down", "final_up", "final_down"}, NEW M, NEW g,
         StartScan(s, M, g), pos' = First(s),
         s = "radix" => m' \in 0 .. n
  PROVE  BlocksInv'
<1>1. n' = n /\ n \in Nat /\ pc' = "scan" /\ kind' = kind /\ scan' = s /\ run' = 0
  BY CallKept DEF StartScan, Goes, JobGiven
<1>2. ASSUME Ints32s, kind # "6k" \/ s \notin {"up", "down"}
      PROVE  pos' \in Int /\ IF Upwards' THEN pos' >= 0 ELSE pos' <= n - 1
  <2>1. kind # "8u"
    BY <1>2 DEF Ints32s
  <2>2. First(s) = IF s \in {"up", "final_up"} THEN 0 ELSE n - 1
    BY <1>2, <2>1 DEF First
  <2>. QED
    BY <1>1, <1>2, <2>2 DEF Upwards
<1>. QED
  BY <1>1, <1>2 DEF BlocksInv, Ints32s, FixedRange

\* The steps of libsais_main_32s.
LEMMA Blocks32sKeep ==
  ASSUME JobGiven, NoRadix, CachesInv, BlocksInv, Ints32s, Next32s
  PROVE  BlocksInv'
<1>1. n \in Nat /\ NThreads * CacheSize \in Nat \ {0}
  BY CacheEntries DEF JobGiven
<1>2. ASSUME NEW t \in Threads, Work32s(t) PROVE BlocksInv'
  <2>1. UNCHANGED <<kind, text, pc, scan, pos, run, m, first, left>>
    BY <1>2 DEF Work32s, Advance, locals
  <2>2. n' = n
    BY <2>1, CallKept
  <2>3. Room' = Room /\ (FixedRange' <=> FixedRange) /\ (Upwards' <=> Upwards)
    BY <2>1, <2>2 DEF Room, Last, FixedRange, Upwards
  <2>. QED
    BY <2>1, <2>2, <2>3 DEF BlocksInv, Ints32s
<1>3. CASE Count32s \/ Count1k
  <2>1. CASE Count32s
    <3>. DEFINE lms == LMSPositions(mem, F)
    <3>1. /\ m' = Cardinality(lms) /\ pos' = First("radix")
          /\ \E M : StartScan("radix", M, 0)
      BY <2>1 DEF Count32s
    <3>2. Cardinality(lms) \in 0 .. n
      <4>1. lms \subseteq 0 .. n - 1
        BY DEF LMSPositions, F
      <4>2. IsFiniteSet(0 .. n - 1) /\ Cardinality(0 .. n - 1) = n
        <5>1. PICK size \in Nat : size = n
          BY <1>1
        <5>2. IsFiniteSet(0 .. size - 1) /\ Cardinality(0 .. size - 1) = size
          BY FS_Interval
        <5>. QED
          BY <5>1, <5>2
      <4>. HIDE DEF lms
      <4>3. IsFiniteSet(lms) /\ Cardinality(lms) <= Cardinality(0 .. n - 1)
        BY <4>1, <4>2, FS_Subset
      <4>4. Cardinality(lms) \in Nat
        BY <4>3, FS_CardinalityType
      <4>. QED
        BY <1>1, <4>2, <4>3, <4>4
    <3>. HIDE DEF lms
    <3>. QED
      BY <3>1, <3>2, StartKeeps
  <2>2. CASE Count1k
    <3>1. pos' = First("up") /\ \E M : StartScan("up", M, 0)
      BY <2>2 DEF Count1k
    <3>. QED
      BY <3>1, StartKeeps
  <2>. QED
    BY <1>3, <2>1, <2>2
<1>4. CASE EndRadix
  <2>1. pos' = First("up") /\ \E M, g : StartScan("up", M, g)
    <3>1. kind \in {"6k", "4k", "2k"}
      BY <1>4 DEF EndRadix, ScannedAll, Scanning32s, Ints32s, NoRadix
    <3>. QED
      BY <1>4, <3>1 DEF EndRadix
  <2>. QED
    BY <2>1, StartKeeps
<1>5. CASE Order
  <2>1. pos' = First("final_up") /\ \E M, g : StartScan("final_up", M, g)
    BY <1>5 DEF Order
  <2>. QED
    BY <2>1, StartKeeps
<1>6. CASE EndUp \/ EndFinalUp
  <2>1. \E s \in {"down", "final_down"} : pos' = First(s) /\ \E M, g : StartScan(s, M, g)
    BY <1>6 DEF EndUp, EndFinalUp
  <2>. QED
    BY <2>1, StartKeeps
<1>7. CASE EndDown \/ EndFinalDown \/ Recurse32s \/ Recount
  <2>1. /\ UNCHANGED <<kind, text, scan, m>> /\ scan # "none"
        /\ pc' \in {"call", "recount", "order", "done"}
    BY <1>7 DEF EndDown, EndFinalDown, Recurse32s, Recount, ScannedAll, Goes, locals, BlocksInv
  <2>2. n' = n
    BY <2>1, CallKept
  <2>. QED
    BY <2>1, <2>2 DEF BlocksInv, Ints32s
<1>8. ASSUME FixedRange, pc = "scan", Room > 0
      PROVE  /\ Block \in Nat \ {0} /\ Block <= Room /\ Block <= NThreads * CacheSize
             /\ Room \in Nat
  <2>1. Room \in Int
    BY <1>8, RoomIs
  <2>. QED
    BY <1>1, <1>8, <2>1 DEF Block
<1>9. CASE ScanAlone32s
  <2>. DEFINE size == IF AtStart /\ Small THEN Room ELSE Block
  <2>1. /\ pc = "scan" /\ Room > 0 /\ pos' = Ahead(size) /\ pc' = "scan"
        /\ UNCHANGED <<kind, text, scan, m, run>>
    BY <1>9 DEF ScanAlone32s, Scanning32s, Goes
  <2>2. FixedRange => size \in Nat /\ size <= Room
    BY <1>8, <2>1
  <2>. HIDE DEF size
  <2>. QED
    BY <2>1, <2>2, AheadKeeps
<1>10. CASE StartBlock
  <2>1. /\ pc = "scan" /\ Room > 0 /\ pc' = "fetch" /\ run' = Block
        /\ UNCHANGED <<kind, text, scan, pos, m, first, left>>
    BY <1>10 DEF StartBlock, Scanning32s, Goes
  <2>2. n' = n
    BY <2>1, CallKept
  <2>3. Room' = Room /\ (FixedRange' <=> FixedRange) /\ (Upwards' <=> Upwards)
    BY <2>1, <2>2 DEF Room, Last, FixedRange, Upwards
  <2>. QED
    BY <1>8, <2>1, <2>2, <2>3 DEF BlocksInv, Ints32s
<1>11. CASE JoinFetch
  <2>1. /\ pc = "fetch" /\ pc' = "put"
        /\ UNCHANGED <<kind, text, scan, pos, run, m, first, left>>
    BY <1>11 DEF JoinFetch, Joined32s, Goes
  <2>2. n' = n
    BY <2>1, CallKept
  <2>3. Room' = Room /\ (FixedRange' <=> FixedRange) /\ (Upwards' <=> Upwards)
    BY <2>1, <2>2 DEF Room, Last, FixedRange, Upwards
  <2>. QED
    BY <2>1, <2>2, <2>3 DEF BlocksInv, Ints32s
<1>12. CASE JoinPut
  <2>1. /\ pc = "put" /\ pc' = "scan" /\ pos' = Ahead(run)
        /\ UNCHANGED <<kind, text, scan, run, m>>
    BY <1>12 DEF JoinPut, Joined32s, Goes
  <2>2. FixedRange => run \in Nat /\ run <= Room
    BY <2>1 DEF BlocksInv
  <2>. QED
    BY <2>1, <2>2, AheadKeeps
<1>. QED
  BY <1>2, <1>3, <1>4, <1>5, <1>6, <1>7, <1>9, <1>10, <1>11, <1>12 DEF Next32s

\* Every step keeps the invariant: the sorts of bytes and of wide arrays do
\* nothing for an array of integers.
LEMMA BlocksNext == WideInv /\ CachesInv /\ BlocksInv /\ [OmpNext]_vars => BlocksInv'
<1>. SUFFICES ASSUME WideInv, CachesInv, BlocksInv, [OmpNext]_vars, Ints32s' PROVE BlocksInv'
  BY DEF BlocksInv
<1>1. JobGiven /\ NoRadix
  BY DEF WideInv
<1>2. kind' = kind
  <2>1. Next8u \/ Next32s => kind' = kind
    BY <1>1, Others8u, Others32s DEF Elsewhere
  <2>2. NextWide => kind' = kind
    BY DEF NextWide, SortNarrow, WidenHalf, JoinWiden, WidenRest, WorkWide, Goes, Advance
  <2>. QED
    BY <2>1, <2>2 DEF OmpNext, Done, vars
<1>3. Ints32s /\ kind # "8u" /\ ~ Wide
  BY <1>2 DEF Ints32s, Wide
<1>4. pc \in {"count", "scan", "fetch", "put", "call", "recount", "order", "done"}
  BY <1>3 DEF BlocksInv
<1>5. ~ Next8u
  BY <1>3, <1>4 DEF Next8u, Work8u, JoinCount, JoinRadix, JoinShift, SkipZero, ScanAlone,
       ScanTogether, JoinPrepare, JoinPlace, ScanDone, JoinRenumber, JoinGatherMarked, JoinGather,
       JoinRepair, JoinReconstruct, JoinClear, Joined, Scanning,
       Sort, StartPartial, Rename, Named, Recurse, StartFinal
<1>6. ~ NextWide
  BY <1>3 DEF NextWide, SortNarrow, WidenHalf, JoinWiden, WidenRest, WorkWide
<1>7. CASE Next32s
  BY <1>1, <1>3, <1>7, Blocks32sKeep
<1>8. CASE Done \/ UNCHANGED vars
  <2>1. UNCHANGED <<kind, text, pc, scan, pos, run, m, first, left>>
    BY <1>8 DEF Done, vars
  <2>2. n' = n
    BY <2>1, CallKept
  <2>3. Room' = Room /\ (FixedRange' <=> FixedRange) /\ (Upwards' <=> Upwards)
    BY <2>1, <2>2 DEF Room, Last, FixedRange, Upwards
  <2>. QED
    BY <2>1, <2>2, <2>3 DEF BlocksInv, Ints32s
<1>. QED
  BY <1>5, <1>6, <1>7, <1>8 DEF OmpNext

\* The invariant of the blocks holds throughout.
LEMMA BlocksInvariance == OmpSpec => []BlocksInv
<1>1. ThreadsInit => BlocksInv
  BY DEF ThreadsInit, BlocksInv
<1>2. WideInv /\ CachesInv /\ BlocksInv /\ [OmpNext]_vars => BlocksInv'
  BY BlocksNext
<1>3. OmpSpec => []CachesInv
  BY CachesInvariance, PTL
<1>. QED
  BY <1>1, <1>2, <1>3, WideInvariance, PTL DEF OmpSpec

\* What a thread that fetches touches: an entry of its part of the block, and the
\* two words of the cache that are that entry's.
LEMMA FetchTouches ==
  ASSUME JobGiven, CachesInv, BlocksInv, Ints32s, FixedRange, pc = "fetch",
         NEW t \in Threads, Busy(t)
  PROVE  \E j \in From(t, run) .. From(t, run) + Part(t, run) - 1 :
           /\ Low + j \in 0 .. n - 1 /\ j < NThreads * CacheSize
           /\ Elem(t).reads = {Low + j}
           /\ DOMAIN Elem(t).writes = {Low + j, CacheAt + 2 * j, CacheAt + 2 * j + 1}
<1>1. /\ run \in Nat \ {0} /\ run <= Room /\ run <= NThreads * CacheSize
      /\ pos \in Int /\ (IF Upwards THEN pos >= 0 ELSE pos <= n - 1)
      /\ n \in Nat
  BY DEF BlocksInv, JobGiven
<1>2. /\ Room \in Int
      /\ Upwards => Room = n - pos
      /\ ~ Upwards => Room <= pos + 1
  BY RoomIs
<1>3. kind # "8u" /\ ~ Wide
  BY DEF Ints32s, Wide
<1>4. Busy(t) => at[t] < Part(t, run)
  BY <1>3 DEF Busy, Size32s
<1>5. PICK from \in Nat, part \in Nat, j \in Nat :
        /\ from = From(t, run) /\ part = Part(t, run) /\ from + part <= run
        /\ j = from + at[t] /\ j < from + part /\ j >= from
  <2>1. at[t] \in Nat /\ run \in Nat
    BY <1>1 DEF CachesInv
  <2>2. PICK from \in Nat, part \in Nat :
          from = From(t, run) /\ part = Part(t, run) /\ from + part <= run
    BY <2>1, PartBounds
  <2>. QED
    BY <1>4, <2>1, <2>2
<1>6. Low \in Int /\ Low >= 0 /\ Low + run <= n
  BY <1>1, <1>2 DEF Low
<1>7. PICK i \in Int : i = Low + j
  BY <1>6
<1>8. i = Low + From(t, run) + at[t]
  <2>1. at[t] \in Nat
    BY DEF CachesInv
  <2>. QED
    BY <1>5, <1>6, <1>7, <2>1
<1>9. SymbolOf(i) = CacheAt + 2 * j /\ IndexOf(i) = CacheAt + 2 * j + 1
  <2>1. i - Low = j
    BY <1>6, <1>7
  <2>. QED
    BY <2>1 DEF SymbolOf, IndexOf
<1>10. /\ Elem(t).reads = {i}
       /\ DOMAIN Elem(t).writes = {i, IndexOf(i), SymbolOf(i)}
  BY <1>3, <1>8 DEF Elem, Elem32s, FetchElem, Does
<1>11. i \in 0 .. n - 1 /\ j < NThreads * CacheSize
       /\ j \in From(t, run) .. From(t, run) + Part(t, run) - 1
  <2>1. NThreads * CacheSize \in Nat
    BY CacheEntries
  <2>. QED
    BY <1>1, <1>5, <1>6, <1>7, <2>1
<1>. QED
  BY <1>7, <1>9, <1>10, <1>11

\* SA ends before the cache of an array of integers begins.
LEMMA CacheBehind ==
  ASSUME JobGiven, Ints32s
  PROVE  CacheAt \in Nat /\ CacheAt >= n
<1>1. n \in Nat /\ kind # "8u" /\ ~ Wide /\ Symbols \in Nat
  BY ThreadsAssumption DEF JobGiven, Ints32s, Wide
<1>2. PerSymbol \in {6, 4, 2, 1}
  BY <1>1 DEF PerSymbol, Ints32s
<1>3. PerSymbol * Symbols \in Nat
  BY <1>1, <1>2
<1>4. CacheAt = n + PerSymbol * Symbols + n + 0
  BY <1>1 DEF CacheAt, F
<1>. QED
  BY <1>1, <1>3, <1>4

\* While the threads of libsais_main_32s fetch a block
\* (libsais_radix_sort_lms_suffixes_32s_block_gather and the ..._block_gather of
\* the other scans), none writes an entry of SA or a word of the cache that
\* another one is about to read or write, and none leaves SA and the thread cache,
\* however long the block and the scan are.  Of the largest variant this is shown
\* for the scans over all of SA.
THEOREM FetchedApart ==
  OmpSpec => [](Ints32s /\ FixedRange /\ pc = "fetch" =>
                  /\ NoRaces
                  /\ \A t \in Threads : Busy(t) => DOMAIN Elem(t).writes \subseteq
                       0 .. n - 1 \cup CacheAt .. CacheAt + 2 * NThreads * CacheSize - 1)
<1>. DEFINE Within(t) == DOMAIN Elem(t).writes \subseteq
              0 .. n - 1 \cup CacheAt .. CacheAt + 2 * NThreads * CacheSize - 1
<1>1. ASSUME WideInv, CachesInv, BlocksInv, Ints32s, FixedRange, pc = "fetch"
      PROVE  NoRaces /\ \A t \in Threads : Busy(t) => Within(t)
  <2>1. JobGiven /\ n \in Nat /\ CacheAt \in Nat /\ CacheAt >= n /\ run \in Nat
    BY <1>1, CacheBehind DEF WideInv, JobGiven, BlocksInv
  <2>2. ASSUME NEW t \in Threads, NEW u \in Threads, t # u, Busy(t), Busy(u)
        PROVE  DOMAIN Elem(t).writes \cap (Elem(u).reads \cup DOMAIN Elem(u).writes) = {}
    <3>1. PICK j \in From(t, run) .. From(t, run) + Part(t, run) - 1 :
             /\ Low + j \in 0 .. n - 1
             /\ DOMAIN Elem(t).writes = {Low + j, CacheAt + 2 * j, CacheAt + 2 * j + 1}
      BY <1>1, <2>1, <2>2, FetchTouches
    <3>2. PICK i \in From(u, run) .. From(u, run) + Part(u, run) - 1 :
             /\ Low + i \in 0 .. n - 1
             /\ Elem(u).reads = {Low + i}
             /\ DOMAIN Elem(u).writes = {Low + i, CacheAt + 2 * i, CacheAt + 2 * i + 1}
      BY <1>1, <2>1, <2>2, FetchTouches
    <3>3. i # j /\ i \in Int /\ j \in Int
      <4>1. i # j
        BY <2>1, <2>2, PartsApart
      <4>2. i \in Int /\ j \in Int
        BY <2>1, PartBounds
      <4>. QED
        BY <4>1, <4>2
    <3>4. Low \in Int
      BY <1>1 DEF Low, BlocksInv
    <3>5. Low + i # Low + j /\ CacheAt + 2 * i # CacheAt + 2 * j
          /\ CacheAt + 2 * i # CacheAt + 2 * j + 1 /\ CacheAt + 2 * i + 1 # CacheAt + 2 * j
      BY <2>1, <3>3, <3>4
    <3>6. i >= 0 /\ j >= 0
      BY <2>1, <3>3, PartBounds
    <3>. QED
      BY <2>1, <3>1, <3>2, <3>3, <3>4, <3>5, <3>6
  <2>3. ASSUME NEW t \in Threads, Busy(t) PROVE Within(t)
    <3>1. PICK j \in From(t, run) .. From(t, run) + Part(t, run) - 1 :
             /\ Low + j \in 0 .. n - 1 /\ j < NThreads * CacheSize
             /\ DOMAIN Elem(t).writes = {Low + j, CacheAt + 2 * j, CacheAt + 2 * j + 1}
      BY <1>1, <2>1, <2>3, FetchTouches
    <3>2. j \in Int /\ j >= 0
      BY <2>1, <3>1, PartBounds
    <3>3. PICK size \in Nat : size = NThreads * CacheSize
      BY CacheEntries
    <3>4. 2 * NThreads * CacheSize = 2 * size
      BY <3>3, ThreadsAssumption
    <3>. QED
      BY <2>1, <3>1, <3>2, <3>3, <3>4
  <2>. QED
    BY <2>2, <2>3 DEF NoRaces
<1>2. WideInv /\ CachesInv /\ BlocksInv =>
        (Ints32s /\ FixedRange /\ pc = "fetch" =>
           NoRaces /\ \A t \in Threads : Busy(t) => Within(t))
  BY <1>1
<1>3. OmpSpec => []CachesInv
  BY CachesInvariance, PTL
<1>. QED
  BY <1>2, <1>3, WideInvariance, BlocksInvariance, PTL

=============================================================================

------------------------------ MODULE Blake2b ------------------------------
(***************************************************************************)
(* The streaming side of src/src/blake2b.c: init, update with chunks of    *)
(* any length, final.  The compression function is a chain: the state h is *)
(* the sequence of what was compressed, each entry the block with the      *)
(* counter and the flags that enter it.  Two chains are the same digest    *)
(* only if they are equal (no collisions).                                 *)
(*                                                                         *)
(* A block has BlockBytes bytes (128 in the code) and a word of the        *)
(* counter WordRange values (2^64): small values make blocks fill up and   *)
(* the counter carry within a few bytes.                                   *)
(***************************************************************************)
EXTENDS Integers, Sequences

CONSTANTS
  BlockBytes,     \* BLAKE2B_BLOCKBYTES
  WordRange,      \* number of values of a word of the counter
  Bytes,          \* the byte values of messages; 0 is also the padding
  MaxMessage,     \* bound: bytes fed in one run
  MaxChunk        \* bound: bytes of one call of blake2b_update

ASSUME BlakeAssumption ==
  /\ BlockBytes \in Nat \ {0}
  /\ WordRange \in Nat /\ BlockBytes < WordRange
  /\ Bytes \subseteq Nat /\ 0 \in Bytes
  /\ MaxMessage \in Nat /\ MaxChunk \in Nat

VARIABLES
  S,         \* blake2b_state: h, t, f, buf, buflen
  fed,       \* the bytes of all updates so far (read by no action)
  digest     \* what blake2b_final returned; empty before

bvars == <<S, fed, digest>>

-----------------------------------------------------------------------------
Flag == WordRange - 1

\* A mutant without the carry to the second word.
IncrementCounterLow(s, inc) ==
  [s EXCEPT !.t = <<(s.t[1] + inc) % WordRange, s.t[2]>>]

\* blake2b_increment_counter: two words, the carry found by comparing.
IncrementCounter(s, inc) ==
  LET low == (s.t[1] + inc) % WordRange
  IN  [s EXCEPT !.t = <<low, IF low < inc THEN (s.t[2] + 1) % WordRange
                                          ELSE s.t[2]>>]

\* blake2b_set_lastblock; last_node is never set.
SetLastBlock(s) == [s EXCEPT !.f = <<Flag, s.f[2]>>]

Compress(s, block) ==
  [s EXCEPT !.h = Append(s.h, [block |-> block, t |-> s.t, f |-> s.f])]

\* memcpy of a chunk to the buffer, behind the bytes it holds.
Keep(s, in) ==
  [s EXCEPT !.buf = [i \in 1 .. BlockBytes |->
                       IF i \in s.buflen + 1 .. s.buflen + Len(in)
                         THEN in[i - s.buflen] ELSE s.buf[i]],
            !.buflen = s.buflen + Len(in)]

\* A mutant that compresses every whole block it has, the last one too.
WholeBlocksAll(rest) == Len(rest) \div BlockBytes

\* When a chunk makes update compress, and how many whole blocks it then takes
\* from the rest of the chunk: always one byte is left over.
Overflows(s, in) == Len(in) > BlockBytes - s.buflen
WholeBlocks(rest) == (Len(rest) - 1) \div BlockBytes

Absorb(s, in) ==
  LET fill  == BlockBytes - s.buflen
      rest  == SubSeq(in, fill + 1, Len(in))
      first == [Keep(s, SubSeq(in, 1, fill)) EXCEPT !.buflen = 0]
      block(k) == SubSeq(rest, (k - 1) * BlockBytes + 1, k * BlockBytes)
      after[k \in 0 .. WholeBlocks(rest)] ==
        IF k = 0 THEN Compress(IncrementCounter(first, BlockBytes), first.buf)
                 ELSE Compress(IncrementCounter(after[k - 1], BlockBytes), block(k))
      taken == WholeBlocks(rest) * BlockBytes
  IN  Keep(after[WholeBlocks(rest)], SubSeq(rest, taken + 1, Len(rest)))

\* A mutant that leaves the buffer as it is.
PaddedStale(s) == s.buf

\* The padding overwrites what earlier blocks have left in the buffer.
Padded(s) == [i \in 1 .. BlockBytes |-> IF i <= s.buflen THEN s.buf[i] ELSE 0]

-----------------------------------------------------------------------------
BInit ==
  /\ S = [h |-> <<>>, t |-> <<0, 0>>, f |-> <<0, 0>>,
          buf |-> [i \in 1 .. BlockBytes |-> 0], buflen |-> 0]
  /\ fed = <<>>
  /\ digest = <<>>

Update(in) ==
  /\ digest = <<>>
  /\ Len(fed) + Len(in) <= MaxMessage
  /\ S' = IF Overflows(S, in) THEN Absorb(S, in) ELSE Keep(S, in)
  /\ fed' = fed \o in
  /\ UNCHANGED digest

Final ==
  /\ digest = <<>>
  /\ LET s == SetLastBlock(IncrementCounter(S, S.buflen))
     IN  S' = [Compress(s, Padded(s)) EXCEPT !.buf = Padded(s)]
  /\ digest' = S'.h
  /\ UNCHANGED fed

Chunks == UNION {[1 .. len -> Bytes] : len \in 0 .. MaxChunk}

BNext == (\E in \in Chunks : Update(in)) \/ Final

BSpec == BInit /\ [][BNext]_bvars

-----------------------------------------------------------------------------
\* The digest of a message as BLAKE2 defines it: the message is cut into blocks,
\* the last one padded with zeros and the only one with the flag (an empty
\* message has one block), and each block is compressed with the number of
\* bytes up to its end.
BlockCount(msg) == IF msg = <<>> THEN 1
                   ELSE (Len(msg) + BlockBytes - 1) \div BlockBytes

Hash(msg) ==
  [k \in 1 .. BlockCount(msg) |->
     LET upto == IF k = BlockCount(msg) THEN Len(msg) ELSE k * BlockBytes
     IN  [block |-> [i \in 1 .. BlockBytes |->
                       LET j == (k - 1) * BlockBytes + i
                       IN  IF j <= Len(msg) THEN msg[j] ELSE 0],
          t |-> <<upto % WordRange, (upto \div WordRange) % WordRange>>,
          f |-> <<IF k = BlockCount(msg) THEN Flag ELSE 0, 0>>]]

\* However the message is cut into updates, the digest is that of the message:
\* the buffering of blake2b_update (lines 155-178) and the padding of
\* blake2b_final neither lose nor repeat a byte, nor miscount one.
ChunkingInvisible == digest # <<>> => digest = Hash(fed)

\* Before final, what is compressed and what is buffered make up the bytes fed,
\* the counter counts the compressed ones, and a full block stays in the buffer
\* until it is known not to be the last (line 160 compares with >).
BufferHoldsBack ==
  digest = <<>> =>
    /\ Len(S.h) * BlockBytes + S.buflen = Len(fed)
    /\ S.t[1] + S.t[2] * WordRange = Len(S.h) * BlockBytes
    /\ S.buflen \in 0 .. BlockBytes
    /\ fed # <<>> => S.buflen > 0
    /\ SubSeq(S.buf, 1, S.buflen) = SubSeq(fed, Len(fed) - S.buflen + 1, Len(fed))
=============================================================================

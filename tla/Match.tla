------------------------------- MODULE Match -------------------------------
(***************************************************************************)
(* The matcher of qbdiff: match32 and match64 of src/libqbdiff.c, which    *)
(* differ only in the width of the suffix array and in the slack of their  *)
(* buffers.  It scans `new' from left to right, asks the suffix-array      *)
(* search for a match in `old' at each position, and every time the match  *)
(* moves to another alignment writes one control record and the bytes it   *)
(* accounts for.                                                           *)
(*                                                                         *)
(* What is abstracted:                                                     *)
(*  - The search is its contract (SearchResults): some position of `old',  *)
(*    and a length that leaves neither file.  Module MatchSearch runs the  *)
(*    binary search step by step and implements this module.               *)
(*  - A `for' loop that only keeps a best-so-far length is the operator    *)
(*    BestLength on the score the loop maintains.                          *)
(*  - The int64_t offsets are integers; the record fields are encoded by   *)
(*    wi64 (module Int64).                                                 *)
(*  - cb grows freely.  The code writes 24 bytes per record into a buffer  *)
(*    of new_size + new_size / 50 + 50 bytes (5 in match64) and tests no   *)
(*    limit: what is shown here is about runs whose records fit it.        *)
(*  - ByteRange (256), Margin (8) and the file sizes (256 or more) are     *)
(*    constants, so that small instances exercise every branch.            *)
(***************************************************************************)
EXTENDS Integers, Sequences, FiniteSets, Int64

CONSTANTS
  OldSizes,    \* possible values of old_size
  NewSizes,    \* possible values of new_size
  ByteRange,   \* number of values of a byte
  Margin       \* the match must beat the current alignment by this much

ASSUME MatchAssumption ==
  /\ OldSizes \subseteq 1 .. Half - 1
  /\ NewSizes \subseteq 1 .. Half - 1
  /\ ByteRange \in Nat \ {0}
  /\ Margin \in Nat

VARIABLES
  pc,            \* "while", "for", "record" or "done"
  old_size, new_size,
  old, new,      \* the two files: arrays indexed from 0
  new_pos,       \* scan position in new
  old_pos,       \* position in old of the latest match
  match_len,     \* length of the latest match
  old_score,     \* bytes of the match that the last alignment matches too
  new_peek,      \* old_score has counted the bytes of new before new_peek
  last_new_pos,  \* end in new of what the records account for
  last_old_pos,  \* position in old that corresponds to last_new_pos
  last_offset,   \* old_pos - new_pos at the last record: the last alignment
  cb,            \* control records
  db, dblen,     \* differences of the approximately matched bytes
  eb, eblen      \* bytes copied verbatim

files   == <<old_size, new_size, old, new>>
scan    == <<new_pos, old_pos, match_len, old_score, new_peek>>
last    == <<last_new_pos, last_old_pos, last_offset>>
streams == <<cb, db, dblen, eb, eblen>>
vars    == <<pc, files, scan, last, streams>>

Byte == 0 .. ByteRange - 1

\* An array none of whose bytes is written yet.
EmptyArray == [j \in 0 .. -1 |-> 0]

MinOf(a, b) == IF a < b THEN a ELSE b
MaxOf(a, b) == IF a < b THEN b ELSE a

-----------------------------------------------------------------------------
(***************************************************************************)
(* The search: its result satisfies this whatever the contents of the      *)
(* suffix array, as long as its entries are offsets into old.              *)
(***************************************************************************)
SearchResults ==
  [pos : 0 .. old_size - 1, len : 0 .. MinOf(old_size, new_size - new_pos)]

\* Byte i of new is the byte of old at the last alignment.
MatchesLast(i) ==
  /\ i + last_offset < old_size
  /\ old[i + last_offset] = new[i]

\* old_score after the loop over new_peek, for a match of len bytes.
ScoreUpTo(len) ==
  old_score + Cardinality({i \in new_peek .. new_pos + len - 1 : MatchesLast(i)})

\* A mutant of StopsScan that stops at an empty match.
StopsScanEmpty(len, score) == len = score \/ len > score + Margin

\* The scan stops at a match that the last alignment also finds in full, or
\* at one that is clearly better.
StopsScan(len, score) ==
  \/ len = score /\ len # 0
  \/ len > score + Margin

-----------------------------------------------------------------------------
(***************************************************************************)
(* How far the record stretches.  The loops of the code keep the length    *)
(* with the best score so far and replace it only by a strictly better     *)
(* one: what they leave is the shortest of the best lengths.               *)
(***************************************************************************)
BestLength(score) ==
  CHOOSE k \in DOMAIN score :
    \A j \in DOMAIN score :
      score[j] < score[k] \/ (score[j] = score[k] /\ k <= j)

\* How many of k bytes agree when old from o is laid over new from n.
Agreeing(o, n, k) ==
  Cardinality({i \in 0 .. k - 1 : old[o + i] = new[n + i]})

\* A mutant of FuzzyForward that never reaches the last byte of old.
FuzzyForwardShy ==
  LET limit == MinOf(new_pos - last_new_pos, old_size - 1 - last_old_pos)
  IN  BestLength([k \in 0 .. limit |->
                    2 * Agreeing(last_old_pos, last_new_pos, k) - k])

\* len_fuzzyforward: the previous match extended forward.
FuzzyForward ==
  LET limit == MinOf(new_pos - last_new_pos, old_size - last_old_pos)
  IN  BestLength([k \in 0 .. limit |->
                    2 * Agreeing(last_old_pos, last_new_pos, k) - k])

\* len_fuzzybackward: the next match, if there is one, extended backward.
FuzzyBackward ==
  LET limit == IF new_pos < new_size
               THEN MinOf(new_pos - last_new_pos, old_pos) ELSE 0
  IN  BestLength([k \in 0 .. limit |->
                    2 * Agreeing(old_pos - k, new_pos - k, k) - k])

\* A mutant of Overlap that counts one byte too many.
OverlapInclusive == (last_new_pos + FuzzyForward) - (new_pos - FuzzyBackward) + 1

\* Bytes of new that both extensions claim (not positive if there are none).
Overlap == (last_new_pos + FuzzyForward) - (new_pos - FuzzyBackward)

\* How many of the overlapping bytes stay with the forward extension.
FuzzyShift ==
  BestLength([k \in 0 .. Overlap |->
    Agreeing(last_old_pos + FuzzyForward - Overlap,
             last_new_pos + FuzzyForward - Overlap, k)
    - Agreeing(old_pos - FuzzyBackward, new_pos - FuzzyBackward, k)])

\* A mutant of AddLen that does not resolve the overlap.
AddLenOverlapping == FuzzyForward

\* The lengths after the overlap has been shared out.
AddLen  == IF Overlap > 0 THEN FuzzyForward + FuzzyShift - Overlap
                          ELSE FuzzyForward
BackLen == IF Overlap > 0 THEN FuzzyBackward - FuzzyShift
                          ELSE FuzzyBackward

\* A mutant of CopyLen that ignores the backward extension.
CopyLenForward == new_pos - (last_new_pos + AddLen)

\* A mutant of Seek that leads to the match, not to its backward extension.
SeekToMatch == old_pos - (last_old_pos + AddLen)

\* The second and third number of a control record; AddLen is the first.
CopyLen == (new_pos - BackLen) - (last_new_pos + AddLen)
Seek    == (old_pos - BackLen) - (last_old_pos + AddLen)

\* A mutant of NeedsRecord that leaves out the last record.
NeedsRecordInside == match_len # old_score

\* A record is due when the match leaves the last alignment, or at the end.
NeedsRecord == match_len # old_score \/ new_pos = new_size

-----------------------------------------------------------------------------
Init ==
  /\ pc = "while"
  /\ old_size \in OldSizes
  /\ new_size \in NewSizes
  /\ old \in [0 .. old_size - 1 -> Byte]
  /\ new \in [0 .. new_size - 1 -> Byte]
  /\ new_pos = 0 /\ old_pos = 0 /\ match_len = 0
  /\ old_score = 0 /\ new_peek = 0
  /\ last_new_pos = 0 /\ last_old_pos = 0 /\ last_offset = 0
  /\ cb = <<>>
  /\ db = EmptyArray /\ dblen = 0
  /\ eb = EmptyArray /\ eblen = 0

\* A mutant of ResumeAt that skips a byte behind the match.
ResumeAtNext == new_pos + match_len + 1

\* Where the scan resumes: behind the match.
ResumeAt == new_pos + match_len

\* A mutant of PeekFrom that counts from the start of the file.
PeekFromStart == 0

\* new_peek starts where the scan does.
PeekFrom == ResumeAt

\* The head of the outer loop.
NextMatch ==
  /\ pc = "while"
  /\ new_pos < new_size
  /\ old_score' = 0
  /\ new_pos' = ResumeAt
  /\ new_peek' = PeekFrom
  /\ pc' = "for"
  /\ UNCHANGED <<files, old_pos, match_len, last, streams>>

\* One iteration of the scan that finds a match worth stopping at.
StopScan(r) ==
  /\ pc = "for"
  /\ new_pos < new_size
  /\ StopsScan(r.len, ScoreUpTo(r.len))
  /\ old_pos' = r.pos
  /\ match_len' = r.len
  /\ old_score' = ScoreUpTo(r.len)
  /\ new_peek' = MaxOf(new_peek, new_pos + r.len)
  /\ pc' = "record"
  /\ UNCHANGED <<files, new_pos, last, streams>>

\* A mutant of ScoreLeft that keeps the score of the byte.
ScoreLeftKept == 0

\* The score of the byte that the scan leaves, counted or not.
ScoreLeft == IF MatchesLast(new_pos) THEN 1 ELSE 0

\* One iteration of the scan that goes on to the next byte, whose score is
\* taken back because the scan leaves it.
Advance(r) ==
  /\ pc = "for"
  /\ new_pos < new_size
  /\ ~StopsScan(r.len, ScoreUpTo(r.len))
  /\ old_pos' = r.pos
  /\ match_len' = r.len
  /\ old_score' = ScoreUpTo(r.len) - ScoreLeft
  /\ new_peek' = MaxOf(new_peek, new_pos + r.len)
  /\ new_pos' = new_pos + 1
  /\ UNCHANGED <<pc, files, last, streams>>

\* The scan reaches the end of new.
EndScan ==
  /\ pc = "for"
  /\ new_pos >= new_size
  /\ pc' = "record"
  /\ UNCHANGED <<files, scan, last, streams>>

\* The match continues the last alignment: nothing to write yet.
SkipRecord ==
  /\ pc = "record"
  /\ ~NeedsRecord
  /\ pc' = "while"
  /\ UNCHANGED <<files, scan, last, streams>>

\* Write a record: AddLen differences, CopyLen bytes, and the seek in old.
WriteRecord ==
  /\ pc = "record"
  /\ NeedsRecord
  /\ db' = [j \in 0 .. dblen + AddLen - 1 |->
              IF j < dblen THEN db[j]
              ELSE (new[last_new_pos + (j - dblen)]
                    - old[last_old_pos + (j - dblen)]) % ByteRange]
  /\ eb' = [j \in 0 .. eblen + CopyLen - 1 |->
              IF j < eblen THEN eb[j]
              ELSE new[last_new_pos + AddLen + (j - eblen)]]
  /\ dblen' = dblen + AddLen
  /\ eblen' = eblen + CopyLen
  /\ cb' = Append(cb, [add |-> Wi64(AddLen), copy |-> Wi64(CopyLen),
                       seek |-> Wi64(Seek)])
  /\ last_new_pos' = new_pos - BackLen
  /\ last_old_pos' = old_pos - BackLen
  /\ last_offset' = old_pos - new_pos
  /\ pc' = "while"
  /\ UNCHANGED <<files, scan>>

\* The outer loop ends and the streams are returned.
Finish ==
  /\ pc = "while"
  /\ new_pos >= new_size
  /\ pc' = "done"
  /\ UNCHANGED <<files, scan, last, streams>>

\* The matcher has returned: nothing more happens.
Returned == pc = "done" /\ UNCHANGED vars

Next ==
  \/ NextMatch
  \/ \E r \in SearchResults : StopScan(r) \/ Advance(r)
  \/ EndScan
  \/ SkipRecord
  \/ WriteRecord
  \/ Finish
  \/ Returned

Spec == Init /\ [][Next]_vars

\* The matcher is a sequential loop that runs as long as it has a step.
FairSpec == Spec /\ WF_vars(Next)

-----------------------------------------------------------------------------
(***************************************************************************)
(* Properties.                                                             *)
(***************************************************************************)
Records == [add : Word, copy : Word, seek : Word]

\* The matcher's variables keep their types: positions are offsets into their
\* files, and the streams hold the bytes their lengths announce.
TypeOK ==
  /\ pc \in {"while", "for", "record", "done"}
  /\ old_size \in OldSizes /\ new_size \in NewSizes
  /\ old \in [0 .. old_size - 1 -> Byte]
  /\ new \in [0 .. new_size - 1 -> Byte]
  /\ new_pos \in 0 .. new_size
  /\ old_pos \in 0 .. old_size - 1
  /\ match_len \in 0 .. old_size
  /\ old_score \in Int /\ new_peek \in Nat
  /\ last_new_pos \in 0 .. new_size
  /\ last_old_pos \in 0 .. old_size - 1
  /\ last_offset \in Int
  /\ cb \in Seq(Records)
  /\ dblen \in Nat /\ db \in [0 .. dblen - 1 -> Byte]
  /\ eblen \in Nat /\ eb \in [0 .. eblen - 1 -> Byte]

\* Every byte of new before last_new_pos is in exactly one of the two streams,
\* so neither outgrows its buffer of new_size + new_size / 50 + slack bytes
\* (the mallocs of db and eb in match32 and match64).
StreamsFit ==
  /\ dblen + eblen = last_new_pos
  /\ last_new_pos <= new_pos
  /\ new_pos <= new_size

\* old[new_peek + last_offset] and old[new_pos + last_offset] are read under an
\* upper bound only: both indices have to stay non-negative by themselves.
LastOffsetReads ==
  pc = "for" /\ new_pos < new_size =>
    /\ new_peek + last_offset >= 0
    /\ new_pos + last_offset >= 0

\* While a record is being cut, the ranges that the two extensions and the
\* shared overlap read lie inside both files, although the loop over the
\* overlap tests no bound.
RecordReads ==
  pc = "record" /\ NeedsRecord =>
    /\ last_old_pos + FuzzyForward <= old_size
    /\ FuzzyBackward <= old_pos
    /\ Overlap <= FuzzyForward
    /\ Overlap <= FuzzyBackward

\* qbdiff_patch rejects a record with a negative length: the two extensions
\* must never be cut so that the bytes between them are negative in number.
LengthsNonNegative ==
  \A k \in 1 .. Len(cb) : Ri64(cb[k].add) >= 0 /\ Ri64(cb[k].copy) >= 0

\* When the matcher returns, its records account for the whole of new.
NewCovered == pc = "done" => last_new_pos = new_size

\* old_score is kept by two loops that run ahead of each other: it is the
\* number of bytes between the scan and new_peek that the last alignment
\* matches, or minus that number while the scan is ahead of new_peek.
ScoreIsWindow ==
  pc = "for" =>
    old_score = Cardinality({i \in new_pos .. new_peek - 1 : MatchesLast(i)})
                - Cardinality({i \in new_peek .. new_pos - 1 : MatchesLast(i)})

\* What the proofs need on top of the above: a match does not leave new, so the
\* outer loop may skip all of it; both alignments stay behind the start of old;
\* and the record that ends the loop has covered new.
RoomForMatch ==
  pc \in {"while", "record"} /\ new_pos < new_size => new_pos + match_len <= new_size

OffsetsInside ==
  /\ new_pos + last_offset >= 0
  /\ pc = "for" => new_peek + last_offset >= 0

CoveredAtEnd ==
  pc \in {"while", "done"} /\ new_pos >= new_size => last_new_pos = new_size

\* The inductive invariant.
MatchInv ==
  /\ TypeOK
  /\ StreamsFit
  /\ RoomForMatch
  /\ OffsetsInside
  /\ CoveredAtEnd
  /\ LengthsNonNegative
  /\ pc = "done" => new_pos >= new_size

\* The matcher returns: every iteration moves the scan, even one that stops at
\* a match of length 0.
MatcherReturns == <>(pc = "done")

=============================================================================

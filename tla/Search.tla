------------------------------- MODULE Search -------------------------------
(***************************************************************************)
(* One call of search32 or search64 of src/libqbdiff.c: the binary search  *)
(* of the suffix array I of old for a long match of a prefix of new.  The  *)
(* recursion is a tail recursion on st and en; each call is a step.        *)
(*                                                                         *)
(* libsais fills I[0 .. old_size - 1].  The search also reads I[old_size], *)
(* the one entry of the array that belongs to no suffix: it holds whatever *)
(* the allocation or the scratch use of libsais left there (TailValues).   *)
(* A tail that is negative makes matchlen read before old, which may give  *)
(* any length.  search64 prints the tail when a leaf reads it (lines       *)
(* 181-182), search32 does not; this is the one difference of the two      *)
(* besides the width of I, and it changes nothing here.                    *)
(***************************************************************************)
EXTENDS Integers, FiniteSets, Suffixes

CONSTANTS
  OldSizes, NewSizes,   \* possible values of old_size and new_size
  ByteRange,            \* number of values of a byte
  TailValues            \* what I[old_size] may hold

ASSUME SearchAssumption ==
  /\ OldSizes \subseteq Nat \ {0}
  /\ NewSizes \subseteq Nat \ {0}
  /\ ByteRange \in Nat \ {0}
  /\ TailValues \subseteq Int /\ TailValues # {}

VARIABLES
  old_size, old,     \* the file searched
  new_size, new,     \* the rest of the new file, from the scan position
  I,                 \* the suffix array, and the entry behind it
  spc,               \* "call", "probe" or "returned"
  st, en,            \* the interval of I under search
  old_pos, max_len   \* the best match so far: the two out parameters

inputs == <<old_size, old, new_size, new, I>>
svars  == <<inputs, spc, st, en, old_pos, max_len>>

Shorter(a, b) == IF a < b THEN a ELSE b
Longer(a, b)  == IF a < b THEN b ELSE a

-----------------------------------------------------------------------------
\* The length of the common prefix of old from offset o and new.
MatchLen(o) ==
  LET limit == Shorter(old_size - o, new_size)
  IN  Cardinality({i \in 1 .. limit :
        \A j \in 0 .. i - 1 : old[o + j] = new[j]})

\* What matchlen may return for an entry of I read at a leaf.
LeafLens(o) == IF o >= 0 THEN {MatchLen(o)}
                         ELSE 0 .. Shorter(old_size - o, new_size)

\* A mutant of SuffixBelow that compares the first byte only.
SuffixBelowFirstByte(o) == old[o] < new[0]

\* memcmp says that the suffix at o is smaller than new on their common length:
\* a suffix that is a prefix of new compares equal.
SuffixBelow(o) ==
  LET len == MatchLen(o)
  IN  /\ len < Shorter(old_size - o, new_size)
      /\ old[o + len] < new[len]

\* The array match32 gets: the suffix array and one more entry.
WithTail(sa, size, tail) ==
  [k \in 0 .. size |-> IF k < size THEN sa[k] ELSE tail]

-----------------------------------------------------------------------------
\* The length of the match at the start of old.
StartLen == MatchLen(0)

\* The first call covers the whole array and sets the out parameters: the
\* length is that of the match at the start of old, the position is I[0].
Begin ==
  /\ spc = "call"
  /\ st' = 0 /\ en' = old_size
  /\ max_len' = StartLen
  /\ old_pos' = I[0]
  /\ spc' = "probe"
  /\ UNCHANGED inputs

\* A mutant of Middle that never moves.
MiddleStuck == st

Middle == st + (en - st) \div 2

\* A mutant of MiddlePos that keeps the position of the previous match.
MiddlePosKept == old_pos

\* The position recorded at the middle entry: it changes with the length.
MiddlePos == IF MatchLen(I[Middle]) > max_len THEN I[Middle] ELSE old_pos

\* The match at the middle entry is recorded if it is longer.
RecordMiddle ==
  /\ max_len' = Longer(max_len, MatchLen(I[Middle]))
  /\ old_pos' = MiddlePos

\* The search goes on in the upper half.
GoUp ==
  /\ spc = "probe" /\ en - st >= 2
  /\ SuffixBelow(I[Middle])
  /\ RecordMiddle
  /\ st' = Middle
  /\ UNCHANGED <<inputs, spc, en>>

\* The search goes on in the lower half.
GoDown ==
  /\ spc = "probe" /\ en - st >= 2
  /\ ~SuffixBelow(I[Middle])
  /\ RecordMiddle
  /\ en' = Middle
  /\ UNCHANGED <<inputs, spc, st>>

\* A mutant of LeafPos that takes the last of two equally long matches.
LeafPosLast(x, y) ==
  IF y >= max_len /\ y >= x THEN I[en] ELSE IF x > max_len THEN I[st] ELSE old_pos

\* The position after both entries of a leaf, with matches of x and y bytes,
\* are compared, the lower one first.
LeafPos(x, y) ==
  IF y > max_len /\ y > x THEN I[en] ELSE IF x > max_len THEN I[st] ELSE old_pos

\* Two adjacent entries are left.
Leaf ==
  /\ spc = "probe" /\ en - st < 2
  /\ \E x \in LeafLens(I[st]), y \in LeafLens(I[en]) :
       /\ max_len' = Longer(max_len, Longer(x, y))
       /\ old_pos' = LeafPos(x, y)
  /\ spc' = "returned"
  /\ UNCHANGED <<inputs, st, en>>

SearchStep == Begin \/ GoUp \/ GoDown \/ Leaf

Return == spc = "returned" /\ UNCHANGED svars

SearchInit ==
  /\ old_size \in OldSizes /\ new_size \in NewSizes
  /\ old \in [0 .. old_size - 1 -> 0 .. ByteRange - 1]
  /\ new \in [0 .. new_size - 1 -> 0 .. ByteRange - 1]
  /\ \E tail \in TailValues :
       I = WithTail(SuffixArray(old, old_size), old_size, tail)
  /\ spc = "call"
  /\ st = 0 /\ en = 0 /\ old_pos = 0 /\ max_len = 0

SearchSpec == SearchInit /\ [][SearchStep \/ Return]_svars /\ WF_svars(SearchStep)

-----------------------------------------------------------------------------
(***************************************************************************)
(* Properties.                                                             *)
(***************************************************************************)
\* The position returned is the entry behind the suffix array, which lies before
\* old.  Only the last leaf reads this entry: there the search has found the
\* greatest suffix of old to be smaller than new, unless it is the only one.
FoundBefore ==
  /\ old_pos < 0
  /\ old_pos = I[old_size]
  /\ old_size = 1 \/ SuffixBelow(I[old_size - 1])

\* Whatever the entry behind the suffix array holds: the position returned is
\* inside old, and a length beyond that of the match at the start of old is that
\* of a match at this position; or it is that entry, and before old.
BeyondStartIsMatch ==
  spc = "returned" =>
    \/ FoundBefore
    \/ /\ old_pos \in 0 .. old_size - 1
       /\ max_len > MatchLen(0) =>
            /\ old_pos + max_len <= old_size
            /\ \A j \in 0 .. max_len - 1 : old[old_pos + j] = new[j]

\* memcmp compares only the common length, so a suffix of old that is a proper
\* prefix of new looks equal to it and sends the search down.  Without such a
\* suffix the length found is the longest there is.
LongestUnlessCut ==
  /\ spc = "returned"
  /\ \A o \in 0 .. old_size - 1 : MatchLen(o) = old_size - o => MatchLen(o) = new_size
  => \A o \in 0 .. old_size - 1 : MatchLen(o) <= max_len

\* Every recursive call narrows the interval: the search returns.
SearchReturns == <>(spc = "returned")

\* The comment in search32 on its leaf: "en" and "st" are adjacent indices in
\* the suffix-sorted array, whose entries are the offsets of suffixes.
LeafInSuffixArray ==
  spc = "probe" /\ en - st < 2 =>
    /\ en = st + 1
    /\ {st, en} \subseteq {k \in 0 .. old_size - 1 : I[k] \in 0 .. old_size - 1}

=============================================================================

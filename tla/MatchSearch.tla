---------------------------- MODULE MatchSearch ----------------------------
(***************************************************************************)
(* The matcher with its binary search: match32 (match64) calls search32    *)
(* (search64) at every position of its scan.  Each call runs step by step  *)
(* as module Search describes it, on the part of new behind new_pos; the   *)
(* matcher goes on with the result when the call returns.                  *)
(*                                                                         *)
(* The two out parameters of the search are old_pos and match_len of the   *)
(* matcher.  They are s_pos and s_len here until the call returns, since   *)
(* the matcher reads neither before.                                       *)
(***************************************************************************)
EXTENDS Match

CONSTANT TailValues    \* what I[old_size] may hold

ASSUME TailAssumption == TailValues \subseteq Int /\ TailValues # {}

VARIABLES
  I,               \* the suffix array of old, and the entry behind it
  spc,             \* where the search is: "call", "probe" or "returned"
  st, en,          \* the interval under search
  s_pos, s_len     \* its out parameters

searching == <<spc, st, en, s_pos, s_len>>
allvars   == <<vars, I, searching>>

\* What is left of new: the arguments new + new_pos and new_size - new_pos.
RestSize == new_size - new_pos
Rest     == [j \in 0 .. RestSize - 1 |-> new[new_pos + j]]

S == INSTANCE Search WITH new <- Rest, new_size <- RestSize,
                          old_pos <- s_pos, max_len <- s_len

-----------------------------------------------------------------------------
MSInit ==
  /\ Init
  /\ \E tail \in TailValues :
       I = S!WithTail(S!SuffixArray(old, old_size), old_size, tail)
  /\ spc = "call" /\ st = 0 /\ en = 0 /\ s_pos = 0 /\ s_len = 0

\* The search takes a step.
Searching ==
  /\ pc = "for" /\ new_pos < new_size
  /\ UNCHANGED vars
  /\ S!SearchStep

\* The search has returned a position before old.
Lost == spc = "returned" /\ s_pos < 0

\* The search has returned: the matcher finishes its iteration of the scan.
Scan ==
  /\ spc = "returned" /\ ~ Lost
  /\ LET r == [pos |-> s_pos, len |-> s_len] IN StopScan(r) \/ Advance(r)
  /\ spc' = "call" /\ st' = 0 /\ en' = 0 /\ s_pos' = 0 /\ s_len' = 0
  /\ UNCHANGED I

\* The matcher does anything else.
MatchStep ==
  /\ NextMatch \/ EndScan \/ SkipRecord \/ WriteRecord \/ Finish \/ Returned
  /\ UNCHANGED <<I, searching>>

\* What the matcher does with a position before old is undefined.
Undefined == Lost /\ UNCHANGED allvars

MSNext == Searching \/ Scan \/ MatchStep \/ Undefined

\* The thread runs as long as it has a step.
MSSpec == MSInit /\ [][MSNext]_allvars /\ WF_allvars(MSNext)

-----------------------------------------------------------------------------
(***************************************************************************)
(* Properties.                                                             *)
(***************************************************************************)
\* The only way to a position before old is a negative entry behind the suffix
\* array, found where the rest of new is greater than every suffix of old (or
\* old has only one).
LostByEntry == Lost => S!FoundBefore

\* The matcher with its search implements module Match, up to a search that
\* returns a position before old, which takes an entry behind the array that is
\* negative.  While that is not so, and whatever else the entry holds, every
\* result of the search meets the contract SearchResults that Match relies on.
ImplementsMatch == Spec /\ []LostByEntry

\* A file compared with itself, or with a longer one that starts like it, costs
\* one record that copies nothing: the first match ends the scan and the whole
\* file stays aligned with the start of old.  The entry behind the array makes
\* no difference here.
PrefixIsOneRecord ==
  new_size <= old_size /\ (\A j \in 0 .. new_size - 1 : new[j] = old[j]) =>
    /\ ~ Lost
    /\ pc = "done" => /\ Len(cb) = 1
                      /\ dblen = new_size
                      /\ \A j \in 0 .. dblen - 1 : db[j] = 0

=============================================================================

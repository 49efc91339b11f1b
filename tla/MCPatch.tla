------------------------------ MODULE MCPatch ------------------------------
(***************************************************************************)
(* Model checking qbdiff_patch on deltas that qbdiff need not have written *)
(* for the old file at hand.  The delta has two control records and as     *)
(* many difference and extra bytes as they can ask for, and the records    *)
(* account for the new file, so that the loop never runs out of them.      *)
(***************************************************************************)
EXTENDS Patch

\* The lengths and seeks of a record: negative, small, and too long.
Ctrls == [add : {Wi64(x) : x \in -1 .. 2}, copy : {Wi64(x) : x \in -1 .. 3},
          seek : {Wi64(x) : x \in -3 .. 2}]

Accounted(r) == Ri64(r.add) + Ri64(r.copy)

\* Differences and extra bytes that qbdiff may have left in the streams.
Ones  == [j \in 0 .. 5 |-> 1]
NewFiles == {[j \in 0 .. 2 |-> 1], [j \in 0 .. 2 |-> j % 2]}

Deltas ==
  {[magic |-> "QBDB1", cksum |-> Cksum(file), old_size |-> Wi64(2),
    new_size |-> Wi64(size), cb |-> <<r, s>>, db |-> Ones, eb |-> Ones] :
      size \in {-1, 3}, file \in NewFiles, r \in Ctrls, s \in Ctrls}

\* A full delta that holds the file it says or another one, and no delta at all.
Others ==
  {[magic |-> "QBDF1", cksum |-> Cksum(file), new_size |-> Wi64(3), full |-> g] :
     file \in NewFiles, g \in NewFiles}
  \cup {[magic |-> "QBDX9", new_size |-> Wi64(3)]}

MCInit ==
  /\ PInit
  /\ delta \in Others \cup {d \in Deltas :
         Accounted(d.cb[1]) + Accounted(d.cb[2]) >= Ri64(d.new_size)}

MCNext ==
  /\ UNCHANGED delta
  /\ \/ \E file \in [0 .. 1 -> Byte] : Call(file, 2, "whole")
     \/ PNext

MCSpec == MCInit /\ [][MCNext]_<<pvars, delta>> /\ WF_<<pvars, delta>>(MCNext)

=============================================================================

--------------------------- MODULE MCMatchSearch ---------------------------
(***************************************************************************)
(* Model checking the matcher with its search on small files.              *)
(***************************************************************************)
EXTENDS MatchSearch

SmallOldSizes == 1 .. 4
SmallNewSizes == 1 .. 5
SmallTails    == {-2, 0, 2, 7}

=============================================================================

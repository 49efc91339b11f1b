------------------------------ MODULE MCMatch ------------------------------
(***************************************************************************)
(* Model checking Match on every pair of small files.                      *)
(***************************************************************************)
EXTENDS Match

SmallOldSizes == {2,3}
SmallNewSizes == {5}

=============================================================================

------------------------------ MODULE MCSearch ------------------------------
(***************************************************************************)
(* Model checking one call of the search on every pair of small files.     *)
(* The entry behind the suffix array takes the values that a zeroed page   *)
(* (0) and other data (an offset inside old, one behind it, one before it) *)
(* leave.                                                                  *)
(***************************************************************************)
EXTENDS Search

SmallOldSizes == 1 .. 5
SmallNewSizes == 1 .. 4
SmallTails    == {-2, 0, 2, 7}

=============================================================================

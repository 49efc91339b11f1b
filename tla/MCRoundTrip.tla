---------------------------- MODULE MCRoundTrip ----------------------------
(***************************************************************************)
(* Model checking the round trip on small files.                           *)
(***************************************************************************)
EXTENDS RoundTrip

SmallOldSizes == {2, 3}
SmallNewSizes == {2, 4}

=============================================================================

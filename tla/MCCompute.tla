----------------------------- MODULE MCCompute -----------------------------
(***************************************************************************)
(* Model checking qbdiff_compute with streams that compress well or badly. *)
(***************************************************************************)
EXTENDS Compute

SmallLengths == {1, 3}

=============================================================================

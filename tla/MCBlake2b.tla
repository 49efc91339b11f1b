----------------------------- MODULE MCBlake2b -----------------------------
(***************************************************************************)
(* Blocks of three bytes, counter words of four values: messages of up to  *)
(* ten bytes make four blocks, their counter carries twice, and one update *)
(* may compress three blocks.                                              *)
(***************************************************************************)
EXTENDS Blake2b
=============================================================================

------------------------------ MODULE MCTools ------------------------------
(***************************************************************************)
(* Three paths, so that inputs and output may all differ or coincide, and  *)
(* an output of two pieces: nothing, a part, all of it.                    *)
(***************************************************************************)
EXTENDS Tools

CONSTANTS a, b, c

MCPaths == {a, b, c}
=============================================================================

------------------------------- MODULE Int64 -------------------------------
(***************************************************************************)
(* The 64-bit integers of a patch file, as wi64 writes them and ri64 reads *)
(* them back (include/libqbdiff_private.h).  wi64 stores the eight bytes   *)
(* of the two's complement representation, most significant byte first;   *)
(* the eight bytes are abstracted to the unsigned number they spell.       *)
(* Half is 2^63 in the program and small in the model-checking runs.       *)
(***************************************************************************)
EXTENDS Integers

CONSTANT Half

ASSUME HalfAssumption == Half \in Nat \ {0}

\* The values an int64_t holds, and the numbers eight bytes can spell.
Int64 == -Half .. Half - 1
Word  == 0 .. 2 * Half - 1

\* The bytes that represent x: a negative x is offset by 2^64.
Wi64(x) == IF x < 0 THEN x + 2 * Half ELSE x

\* A mutant of Ri64 that loses the sign, as an unsigned result type would.
Ri64Unsigned(w) == w

\* The value that eight bytes represent: the top bit is the sign.
Ri64(w) == IF w < Half THEN w ELSE w - 2 * Half

=============================================================================

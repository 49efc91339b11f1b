----------------------------- MODULE SaisMemory -----------------------------
(***************************************************************************)
(* The memory of libsais and the loops over it.                            *)
(*                                                                         *)
(* A memory is a function from addresses 0, 1, ... to words.  The array SA *)
(* of the caller is at address 0; behind its n entries and the fs free     *)
(* ones lie the text and what has been allocated since.  A text, a table   *)
(* of buckets or the array of a recursive call is an address in it, so     *)
(* that what overlaps in the program overlaps here.                        *)
(*                                                                         *)
(* A word has the values -Half .. Half - 1.  Its sign bit is the mark that *)
(* separates groups of equal entries, its next bit (SUFFIX_GROUP_MARKER)   *)
(* a second one.                                                           *)
(***************************************************************************)
EXTENDS Integers, FiniteSets

CONSTANT Half        \* 2^31 in libsais.c, 2^63 in libsais64.c

ASSUME HalfAssumption == Half \in Nat \ {0} /\ Half % 2 = 0

Group == Half \div 2                      \* SUFFIX_GROUP_MARKER

Bit(b) == IF b THEN 1 ELSE 0

\* x & SAINT_MAX, p | SAINT_MIN if b, x ^ SAINT_MIN.
Unmark(x)  == x % Half
Mark(p, b) == IF b THEN p - Half ELSE p
Flip(x)    == IF x < 0 THEN x + Half ELSE x - Half

\* The group bit of a word that is not negative.
InGroup(p) == p \div Group
Ungroup(p) == p % Group

-----------------------------------------------------------------------------
\* for (i = from; i <= to; i++) x = step(x, i), and the same downwards.
Up(step(_, _), x, from, to) ==
  LET after[i \in from - 1 .. to] == IF i < from THEN x ELSE step(after[i - 1], i)
  IN  IF to < from THEN x ELSE after[to]

Down(step(_, _), x, from, to) ==
  LET after[i \in to .. from + 1] == IF i > from THEN x ELSE step(after[i + 1], i)
  IN  IF from < to THEN x ELSE after[to]

\* The sum of the entries val(0) .. val(c - 1).
Below(val(_), c) == Up(LAMBDA sum, d : sum + val(d), 0, 0, c - 1)

\* Entries base .. base + len - 1 become val(0) .. val(len - 1).
Overwrite(M, base, len, val(_)) ==
  [a \in DOMAIN M |-> IF a \in base .. base + len - 1 THEN val(a - base) ELSE M[a]]

Fill(M, base, len, x)   == Overwrite(M, base, len, LAMBDA j : x)    \* memset
Move(M, to, from, len)  == Overwrite(M, to, len, LAMBDA j : M[from + j])

-----------------------------------------------------------------------------
\* The text of a frame F: F.n symbols at address F.T.
Sym(M, F, p) == M[F.T + p]

\* 1 if the suffix at p is larger than the one at p + 1 (L), 0 if smaller (S);
\* the loops find it from the right, the last suffix is larger than the end.
TypeL(M, F) ==
  LET L[p \in 0 .. F.n - 1] ==
        IF p = F.n - 1 THEN 1
        ELSE Bit(Sym(M, F, p) > Sym(M, F, p + 1) - L[p + 1])
  IN  [p \in 0 .. F.n - 1 |-> L[p]]

\* (s & 3) when position p is counted: its own type and that of p - 1; before
\* the first position stands a symbol smaller than all others.
ClassIn(L, p) == 2 * L[p] + (IF p = 0 THEN 0 ELSE L[p - 1])

IsLMS(L, p) == ClassIn(L, p) = 1

\* The members of a finite set of numbers in ascending order, from 0.
Ascending(S) ==
  [j \in 0 .. Cardinality(S) - 1 |->
     CHOOSE p \in S : Cardinality({q \in S : q < p}) = j]
=============================================================================

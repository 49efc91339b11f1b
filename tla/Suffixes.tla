------------------------------ MODULE Suffixes ------------------------------
(***************************************************************************)
(* What diff of src/libqbdiff.c asks of libsais: the array of all suffixes *)
(* of a text in ascending order, the end of the text counting as smaller   *)
(* than any symbol.                                                        *)
(***************************************************************************)
EXTENDS Integers, FiniteSets

\* The order of the suffixes of text, of which size is the length.
SuffixLess(text, size, a, b) ==
  \E len \in 0 .. size - b :
    /\ len <= size - a
    /\ \A j \in 0 .. len - 1 : text[a + j] = text[b + j]
    /\ \/ a + len = size /\ b + len < size
       \/ a + len < size /\ b + len < size /\ text[a + len] < text[b + len]

\* The array libsais returns: entry k is the offset of the suffix that has k
\* smaller ones.
SuffixArray(text, size) ==
  [k \in 0 .. size - 1 |->
     CHOOSE a \in 0 .. size - 1 :
       Cardinality({b \in 0 .. size - 1 : SuffixLess(text, size, b, a)}) = k]
=============================================================================

------------------------------ MODULE SaisWide ------------------------------
(***************************************************************************)
(* The part of libsais64.c that leaves the sorting to libsais.c: an array  *)
(* of 64-bit entries is sorted as one of 32-bit entries in the same        *)
(* memory, and widened in place.  Entry i of the wide array is words 2 i   *)
(* and 2 i + 1 (the low word first), so that widening entry i overwrites   *)
(* two narrow entries.                                                     *)
(*                                                                         *)
(* A call of kind "wide" is one of libsais64_omp by diff, with bytes; one  *)
(* of kind "wide_names" is one of libsais64_main_32s, whose text is made   *)
(* of 64-bit words, narrowed in place first.  Sorting stands for what      *)
(* libsais_omp and libsais_int_omp return (modules SaisParallel, Sais).    *)
(***************************************************************************)
EXTENDS SaisThreads

\* Calls that are passed on: the text is short enough for 32 bits, and what is
\* left for the narrow sort is worth it.
ASSUME WideAssumption ==
  \A job \in Jobs :
    LET size == Cardinality(DOMAIN job.text)
    IN  job.kind \in {"wide", "wide_names"} =>
          /\ size <= Half - 1
          /\ job.kind = "wide_names" =>
               \/ NarrowFree(size) \div Symbols >= 4
               \/ NarrowFree(size) >= WideFree

\* libsais64_convert_inplace_64u_to_32u: the low words move to the front.
Narrowed(M) ==
  Up(LAMBDA x, i : [x EXCEPT ![F.T + i] = x[F.T + 2 * i]], M, 0, n - 1)

\* The entries of the narrow array: the suffixes in order, and in the free ones
\* whatever the sort has left there.
SortNarrow ==
  /\ Wide /\ pc = "count"
  /\ LET M == IF kind = "wide_names" THEN Narrowed(mem) ELSE mem
     IN  \E t \in {[p \in 0 .. n - 1 |-> Sym(M, F, p)]} :
         \E sa \in {SuffixArray(t, n)}, x \in Junk \cup {n} :
           Goes("halve", Overwrite(Overwrite(M, n, F.fs, LAMBDA j : x), 0, n, LAMBDA j : sa[j]), th)
  /\ run' = n
  /\ UNCHANGED <<scan, pos, d, m, first, left, names>>

\* The upper half of what is narrow still is widened by all threads, as none of
\* it is overwritten meanwhile; the rest, when it is short, from its end.
WidenHalf ==
  /\ Wide /\ pc = "halve" /\ run >= Threshold
  /\ m' = run \div 2 /\ run' = run - run \div 2
  /\ Goes("widen", mem, th)
  /\ UNCHANGED <<scan, pos, d, first, left, names>>

Widened(i) == [a \in {2 * i, 2 * i + 1} |-> IF a = 2 * i THEN mem[i] ELSE 0]

SizeWide(t) == IF pc = "widen" THEN Part(t, m) ELSE 0

ElemWide(t) ==
  LET i == run + From(t, m) + at[t] IN Does({i}, Widened(i), th[t])

WorkWide(t) == Wide /\ at[t] < SizeWide(t) /\ Advance(t, ElemWide(t))

JoinWiden ==
  /\ Wide /\ pc = "widen" /\ \A t \in Threads : at[t] >= SizeWide(t)
  /\ Goes("halve", mem, th)
  /\ UNCHANGED locals

WidenRest ==
  /\ Wide /\ pc = "halve" /\ run < Threshold
  /\ Goes("done",
          Down(LAMBDA x, i : [x EXCEPT ![2 * i] = x[i], ![2 * i + 1] = 0], mem, run - 1, 0), th)
  /\ UNCHANGED locals

NextWide ==
  \/ SortNarrow \/ WidenHalf \/ JoinWiden \/ WidenRest
  \/ \E t \in Threads : WorkWide(t)
=============================================================================

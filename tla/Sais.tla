-------------------------------- MODULE Sais --------------------------------
(***************************************************************************)
(* The construction of the suffix array, sequentially: libsais and         *)
(* libsais_int of libsais.c, libsais_main_8u and the recursive             *)
(* libsais_main_32s in its four variants, which differ in how many table   *)
(* entries per symbol find room in the free space behind SA.               *)
(*                                                                         *)
(* The stack holds a frame for each call: its variant, the addresses of    *)
(* its text and its table, the locals that outlive a step, and (history)   *)
(* the text it was given.  All calls share one memory and one SA, the      *)
(* recursive ones with the text they are given inside it; a step of the    *)
(* model is what the code does between two points where the array has a    *)
(* meaning of its own.                                                     *)
(***************************************************************************)
EXTENDS SaisNames, Sequences, Suffixes

CONSTANTS
  Jobs,         \* calls: records of bytes, text, n, k and fs
  Junk          \* what uninitialised memory may hold

ASSUME JunkAssumption == Junk \subseteq -Half .. Half - 1 /\ Junk # {}

VARIABLES mem, stack, job, result

vars == <<mem, stack, job, result>>

Running == 1           \* the value of result before there is one

F == Head(stack)

\* A table is cut from the free space, or taken by malloc at the end of what is
\* allocated; what was there, junk, stays.
Top(M)           == Cardinality(DOMAIN M)
Grow(M, size, x) == [a \in 0 .. Top(M) + size - 1 |-> IF a < Top(M) THEN M[a] ELSE x]
Shrink(M, top)   == [a \in 0 .. top - 1 |-> M[a]]

TextAt(M, addr, n) == [i \in 0 .. n - 1 |-> M[addr + i]]

\* The variant for n symbols below k with fs entries of free space.
Variant(k, fs) ==
  CASE fs \div k >= 6            -> "6k"
    [] fs \div k \in {4, 5}      -> "4k"
    [] fs \div k \in {2, 3}      -> "2k"
    [] OTHER                     -> "1k"

\* Where libsais_main_32s finds its table, if in the free space.
TableOf(n, k, fs) ==
  n + fs - k * (CASE Variant(k, fs) = "6k" -> 6 [] Variant(k, fs) = "4k" -> 4
                  [] Variant(k, fs) = "2k" -> 2 [] OTHER -> 1)

Call(kind, M, T, n, k, fs, B) ==
  [kind |-> kind, T |-> T, n |-> n, k |-> k, fs |-> fs, B |-> B, pc |-> "gather",
   text |-> TextAt(M, T, n), m |-> 0, f |-> 0, names |-> 0, first |-> 0, left |-> 0,
   heap |-> FALSE, code |-> 0]

\* What a call uses of its free space: an index of SA is a positive word.
Usable(n, free) ==
  LET room == Half - 1 - n IN IF free < room THEN free ELSE room

Call32s(M, T, n, k, free) ==
  LET fs == Usable(n, free) IN Call(Variant(k, fs), M, T, n, k, fs, TableOf(n, k, fs))

SInit ==
  /\ job \in Jobs
  /\ \E x \in Junk :
       mem = [a \in 0 .. 2 * job.n + job.fs - 1 |->
                IF a < job.n + job.fs THEN x ELSE job.text[a - job.n - job.fs]]
  /\ stack = <<>>
  /\ result = Running

At(kind, pc) == stack # <<>> /\ F.kind = kind /\ F.pc = pc

Becomes(M, G) ==
  /\ mem' = M
  /\ stack' = <<G>> \o Tail(stack)
  /\ UNCHANGED <<job, result>>

-----------------------------------------------------------------------------
\* The calls of the library; a text of less than two symbols is sorted.
Short ==
  /\ stack = <<>> /\ result = Running /\ job.n < 2
  /\ mem' = IF job.n = 1 THEN [mem EXCEPT ![0] = 0] ELSE mem
  /\ result' = 0
  /\ UNCHANGED <<stack, job>>

Libsais ==
  /\ stack = <<>> /\ result = Running /\ job.n >= 2 /\ job.bytes
  /\ \/ \E x \in Junk :
          LET M == Grow(mem, 8 * job.k, x)
          IN  /\ mem' = M
              /\ stack' = <<[Call("8u", M, job.n + job.fs, job.n, job.k, Usable(job.n, job.fs),
                                    Top(mem))
                               EXCEPT !.heap = TRUE]>>
              /\ UNCHANGED result
     \/ result' = -2 /\ UNCHANGED <<mem, stack>>
  /\ UNCHANGED job

LibsaisInt ==
  /\ stack = <<>> /\ result = Running /\ job.n >= 2 /\ ~job.bytes
  /\ stack' = <<Call32s(mem, job.n + job.fs, job.n, job.k, job.fs)>>
  /\ UNCHANGED <<mem, job, result>>

-----------------------------------------------------------------------------
\* Counting the suffixes and gathering the LMS suffixes at the end of SA.
Gathered(M) ==
  LET m == Cardinality(LMSPositions(mem, F))
  IN  [F EXCEPT !.m = m, !.first = M[F.n - m]]

Gather8u ==
  /\ At("8u", "gather")
  /\ LET M == StartAndEnd8u(CountAndGather8u(mem, F), F)
         m == Cardinality(LMSPositions(mem, F))
     IN  IF m > 0 THEN Becomes(M, [Gathered(M) EXCEPT !.pc = "sort"])
                  ELSE Becomes(Fill(M, 0, F.n, 0), [F EXCEPT !.pc = "final"])

\* The three variants with tables for the L and S suffixes; at most one LMS
\* suffix is sorted.
GatherOr(M, next, few) ==
  LET m == Cardinality(LMSPositions(mem, F))
  IN  IF m > 1 THEN Becomes(next, [Gathered(M) EXCEPT !.pc = "sort"])
      ELSE Becomes([M EXCEPT ![0] = M[F.n - 1]], [F EXCEPT !.m = m, !.pc = few])

Gather6k ==
  /\ At("6k", "gather")
  /\ LET M == CountAndGather4k(mem, F)
     IN  GatherOr(M, Fill(M, 0, F.n - Cardinality(LMSPositions(mem, F)), 0), "place_few")

Gather4k ==
  /\ At("4k", "gather")
  /\ LET M == CountAndGather2k(mem, F) IN GatherOr(M, M, "place")

Gather2k ==
  /\ At("2k", "gather")
  /\ LET M == CountAndGather2k(mem, F) IN GatherOr(M, M, "place")

\* The smallest variant takes its table from the heap when the free space does
\* not hold it, again after a recursive call.
NeedsHeap == F.fs < F.k /\ ~F.heap

Alloc1k ==
  /\ stack # <<>> /\ F.kind = "1k" /\ F.pc \in {"gather", "place"} /\ NeedsHeap
  /\ \/ \E x \in Junk :
          Becomes(Grow(mem, F.k, x), [F EXCEPT !.B = Top(mem), !.heap = TRUE])
     \/ Becomes(mem, [F EXCEPT !.pc = "return", !.code = -2])

Gather1k ==
  /\ At("1k", "gather") /\ ~NeedsHeap
  /\ LET counted == End1k(CountSuffixes32s(Fill(mem, 0, F.n, 0), F), F)
         sorted  == RadixSort1k(counted, F)
     IN  Becomes(sorted.M, [F EXCEPT !.m = sorted.m,
                                     !.pc = IF sorted.m > 1 THEN "induce" ELSE "final"])
-----------------------------------------------------------------------------
\* Sorting the LMS suffixes by their first symbol.
Sort8u ==
  /\ At("8u", "sort")
  /\ LET init == RadixInit8u(mem, F, F.first)
     IN  Becomes(PartialInit8u(RadixSort8u(init.M, F, F.m), F, F.first, init.left),
                 [F EXCEPT !.left = init.left, !.pc = "induce"])

Sort6k ==
  /\ At("6k", "sort")
  /\ LET init   == RadixInit6k(mem, F, F.first)
         sorted == SetMarkers6k(RadixSort6k(init.M, F, F.m), F)
     IN  Becomes(PartialInit6k(sorted, F, F.first, init.left),
                 [F EXCEPT !.left = init.left, !.pc = "induce"])

Sort4k ==
  /\ At("4k", "sort")
  /\ LET init   == RadixAndPartialInit4k(mem, F, F.first)
         sorted == SetMarkers4k(RadixSort2k(init, F, F.m), F)
     IN  Becomes(PlaceInterval4k(sorted, F, F.m - 1), [F EXCEPT !.pc = "induce"])

Sort2k ==
  /\ At("2k", "sort")
  /\ LET sorted == RadixSort2k(RadixInit2k(mem, F, F.first), F, F.m)
     IN  Becomes(StartAndEnd2k(PlaceInterval2k(sorted, F, F.m - 1), F),
                 [F EXCEPT !.pc = "induce"])

\* Inducing the order of the LMS substrings, which end up in front.
Induce ==
  /\ stack # <<>> /\ F.pc = "induce"
  /\ Becomes(CASE F.kind = "8u" -> InducePartial8u(mem, F, F.first, F.left)
               [] F.kind = "6k" -> InducePartial6k(mem, F, F.first, F.left)
               [] F.kind = "4k" -> InducePartial4k(mem, F)
               [] F.kind = "2k" -> InducePartial2k(mem, F)
               [] F.kind = "1k" -> InducePartial1k(mem, F),
             [F EXCEPT !.pc = "name"])

-----------------------------------------------------------------------------
\* Naming the LMS substrings; when two have the same name, a recursive call
\* sorts the text of the names, which lies behind the free space it is given.
Named8u ==
  /\ At("8u", "name")
  /\ LET s == RenumberAndGather8u(mem, F, F.m)
     IN  Becomes(s.M, [F EXCEPT !.names = s.names,
                                !.pc = IF s.names < F.m THEN "call" ELSE "place"])

\* Without a call, the variants with several tables count again.
NamedOr(s, M) ==
  IF s.names < F.m THEN Becomes(s.M, [F EXCEPT !.names = s.names, !.pc = "compact"])
                   ELSE Becomes(M, [F EXCEPT !.names = s.names, !.pc = "place"])

Named32s ==
  /\ stack # <<>> /\ F.pc = "name" /\ F.kind \in {"6k", "4k"}
  /\ LET s == RenumberAndMark4k(mem, F, F.m) IN NamedOr(s, CountLMS2k(s.M, F))

Named2k ==
  /\ At("2k", "name")
  /\ LET s == RenumberAndMark1k(mem, F, F.m) IN NamedOr(s, CountLMS2k(s.M, F))

\* A mutant of Named1k that keeps the table during the recursive call.
Named1kKept ==
  /\ At("1k", "name")
  /\ LET s == RenumberAndMark1k(mem, F, F.m) IN NamedOr(s, s.M)

Named1k ==
  /\ At("1k", "name")
  /\ LET s == RenumberAndMark1k(mem, F, F.m)
     IN  IF s.names < F.m /\ F.heap
           THEN Becomes(Shrink(s.M, F.B),
                        [F EXCEPT !.names = s.names, !.heap = FALSE, !.pc = "compact"])
           ELSE NamedOr(s, s.M)

Compact ==
  /\ stack # <<>> /\ F.pc = "compact"
  /\ LET s == CompactLMS(mem, F, F.m) IN Becomes(s.M, [F EXCEPT !.f = s.f, !.pc = "call"])

\* A mutant of FreeBehind that forgets the text of the names.
FreeBehindText(G) == G.fs + G.n - G.m + G.f

\* What the result and the text of the names leave free.
FreeBehind(G) == G.fs + G.n - 2 * G.m + G.f

Recurse ==
  /\ stack # <<>> /\ F.pc = "call"
  /\ stack' = <<Call32s(mem, F.n + F.fs - F.m + F.f, F.m - F.f, F.names - F.f,
                        FreeBehind(F))>> \o stack
  /\ UNCHANGED <<mem, job, result>>

\* A call frees its table, the smallest variant only when it succeeds, and
\* returns to the one below it or to the caller of the library; an error passes
\* through all calls.
Freed == IF F.heap /\ (F.kind = "8u" \/ F.code = 0) THEN Shrink(mem, F.B) ELSE mem

Return ==
  /\ stack # <<>> /\ F.pc = "return"
  /\ mem' = Freed
  /\ IF Len(stack) > 1
       THEN /\ stack' = <<[stack[2] EXCEPT !.code = F.code,
                             !.pc = IF F.code = 0 THEN "back" ELSE "return"]>>
                        \o SubSeq(stack, 3, Len(stack))
            /\ UNCHANGED result
       ELSE /\ stack' = <<>>
            /\ result' = F.code
  /\ UNCHANGED job

\* The ranks it found become LMS suffixes again.
Back8u ==
  /\ At("8u", "back")
  /\ Becomes(Reconstruct(GatherLMS8u(mem, F), F, F.m), [F EXCEPT !.pc = "place"])

Back32s ==
  /\ stack # <<>> /\ F.pc = "back" /\ F.kind \in {"6k", "4k", "2k"}
  /\ Becomes(ReconstructCompacted2k(mem, F, F.m, F.f), [F EXCEPT !.pc = "place"])

Back1k ==
  /\ At("1k", "back")
  /\ Becomes(ReconstructCompacted1k(mem, F, F.m, F.f), [F EXCEPT !.pc = "place"])

-----------------------------------------------------------------------------
\* Placing the sorted LMS suffixes and inducing the order of all others.
Place8u ==
  /\ At("8u", "place")
  /\ Becomes(PlaceInterval8u(mem, F, F.m), [F EXCEPT !.pc = "final"])

PlaceFew6k ==
  /\ At("6k", "place_few")
  /\ Becomes(PlaceHistogram6k(StartAndEnd6k(mem, F), F, F.m), [F EXCEPT !.pc = "final_few"])

Place4k ==
  /\ stack # <<>> /\ F.pc = "place" /\ F.kind \in {"6k", "4k"}
  /\ Becomes(PlaceHistogram4k(StartAndEnd4k(mem, F), F, F.m), [F EXCEPT !.pc = "final"])

Place2k ==
  /\ At("2k", "place")
  /\ Becomes(StartAndEnd2k(PlaceHistogram2k(End2k(mem, F), F, F.m), F), [F EXCEPT !.pc = "final"])

Place1k ==
  /\ At("1k", "place") /\ ~NeedsHeap
  /\ Becomes(PlaceInterval1k(End1k(CountSuffixes32s(mem, F), F), F, F.m),
             [F EXCEPT !.pc = "final"])

Final ==
  /\ stack # <<>> /\ F.pc \in {"final", "final_few"}
  /\ Becomes(CASE F.kind = "8u" -> InduceFinal8u(mem, F)
               [] F.pc = "final_few" -> InduceFinal6k(mem, F)
               [] F.pc = "final" /\ F.kind \in {"6k", "4k"} -> InduceFinal4k(mem, F)
               [] F.kind = "2k" -> InduceFinal2k(mem, F)
               [] F.kind = "1k" -> InduceFinal1k(mem, F),
             [F EXCEPT !.pc = "return"])

Finished == result # Running /\ UNCHANGED vars

SNext ==
  \/ Short \/ Libsais \/ LibsaisInt
  \/ Gather8u \/ Gather6k \/ Gather4k \/ Gather2k \/ Gather1k
  \/ Alloc1k
  \/ Sort8u \/ Sort6k \/ Sort4k \/ Sort2k \/ Induce
  \/ Named8u \/ Named32s \/ Named2k \/ Named1k \/ Compact \/ Recurse \/ Return
  \/ Back8u \/ Back32s \/ Back1k
  \/ Place8u \/ PlaceFew6k \/ Place4k \/ Place2k \/ Place1k \/ Final
  \/ Finished

SSpec == SInit /\ [][SNext]_vars

-----------------------------------------------------------------------------
\* A call that succeeds, that of the program and each recursive one, leaves the
\* suffix array of the text it was given in SA and the text as it was, whatever
\* unused memory held (libsais_main_32s, libsais_main_8u).
Sorts ==
  stack # <<>> /\ F.pc = "return" /\ F.code = 0 =>
    LET sa == SuffixArray(F.text, F.n)
    IN  /\ \A i \in 0 .. F.n - 1 : mem[i] = sa[i]
        /\ TextAt(mem, F.T, F.n) = F.text

\* The text of a recursive call has its suffixes in the order of the LMS
\* suffixes its symbols stand for, those that were not set aside as unique
\* (libsais_renumber_and_mark_distinct_lms_suffixes_32s_4k_omp and _1k_omp,
\* libsais_compact_lms_suffixes_32s_omp, libsais_renumber_and_gather_8u).
ReducedOrder ==
  stack # <<>> /\ Len(stack) > 1 /\ F.pc = "gather" /\ F.code = 0 =>
    LET G   == stack[2]
        lms == LMSPositions(G.text, [G EXCEPT !.T = 0])
        pos == Ascending({p \in lms : mem[G.T + p] >= 0})
    IN  /\ DOMAIN pos = 0 .. F.n - 1
        /\ \A i, j \in 0 .. F.n - 1 :
             SuffixLess(F.text, F.n, i, j) <=> SuffixLess(G.text, G.n, pos[i], pos[j])

\* A step writes to nothing but the array and the free space of the call it
\* belongs to, its table, and, as marks of unique suffixes, the text of a call
\* for integers: the recursion leaves what its callers keep alone.  (What is behind
\* all that is allocated is not in mem: a write to it changes nothing here.)
Own(a) ==
  IF a \in F.T .. F.T + F.n - 1
    THEN F.kind # "8u" /\ Unmark(mem[a]) = Unmark(mem'[a])
    ELSE a \in 0 .. F.n + F.fs - 1 \/ (F.heap /\ a >= F.B)

StaysInside ==
  [][stack # <<>> =>
       \A a \in DOMAIN mem \cap DOMAIN mem' : mem[a] = mem'[a] \/ Own(a)]_vars

\* Every table that was allocated is freed when the library returns, also when a
\* later allocation fails (libsais_free_aligned).
NothingLeaked == result # Running => DOMAIN mem = 0 .. 2 * job.n + job.fs - 1

\* What the search may read behind the suffix array after libsais(old, I,
\* old_size, 1, NULL): what malloc left there, or a number below old_size.
EntryBehind ==
  result = 0 /\ job.bytes /\ job.fs = 1 => mem[job.n] \in Junk \cup 0 .. job.n - 1
=============================================================================

---------------------------- MODULE SaisThreads ----------------------------
(***************************************************************************)
(* What the two sorts of libsais.c share when they run with several OpenMP *)
(* threads.  In a parallel region every thread works through its part of   *)
(* an array, one element a step, in any order with the others; at a        *)
(* barrier they wait for each other, and the master thread combines what   *)
(* they found.                                                             *)
(*                                                                         *)
(* The sorts are libsais_main_8u (module SaisParallel), the variants of    *)
(* libsais_main_32s (module SaisCached), and those of libsais64.c for      *)
(* texts that 32 bits can index (module SaisWide).  Their recursive calls  *)
(* are those of module Sais; here they stand for what they return.         *)
(***************************************************************************)
EXTENDS SaisNames, Sequences, Suffixes

CONSTANTS
  Jobs,         \* calls: records of kind and text over 0 .. Symbols - 1
  Symbols,      \* ALPHABET_SIZE, or k
  NThreads,
  Align,        \* 16, blocks of threads are cut at multiples of it
  Threshold,    \* 65536, the smallest array that is worth a region
  CacheSize,    \* LIBSAIS_PER_THREAD_CACHE_SIZE
  Junk

ASSUME ThreadsAssumption ==
  /\ NThreads \in Nat \ {0, 1} /\ Align \in Nat \ {0}
  /\ Threshold \in Nat
  /\ CacheSize \in Nat /\ CacheSize > Align * NThreads
  /\ Symbols \in Nat \ {0} /\ Junk \subseteq -Half .. Half - 1
  /\ \A job \in Jobs :
       LET size == Cardinality(DOMAIN job.text)
       IN  /\ job.kind \in {"8u", "6k", "4k", "2k", "1k", "wide", "wide_names"}
           /\ size \in Nat /\ size >= Threshold
           /\ job.text \in [0 .. size - 1 -> 0 .. Symbols - 1]

VARIABLES
  kind, text, mem,
  pc,           \* the region, or the step between two regions
  at,           \* for each thread, the elements it has done
  th,           \* for each thread, its state, table and cache
  scan,         \* the scan of SA the sort is in
  pos, run, d,  \* its position, its run or block and the group it is in
  m, first, left, names

vars   == <<kind, text, mem, pc, at, th, scan, pos, run, d, m, first, left, names>>
locals == <<scan, pos, run, d, m, first, left, names>>

n == Cardinality(DOMAIN text)

Wide == kind \in {"wide", "wide_names"}

\* Free entries of a wide array, and of the narrow one in the same memory:
\* both together may not have more than 32 bits can index.
WideFree == 1
NarrowFree(size) == IF 2 * (WideFree + size) <= Half - 1 THEN 2 * WideFree + size
                                                         ELSE Half - 1 - size

\* The frame of the call.  The table of libsais_main_8u is allocated; that of
\* libsais_main_32s fills the free space.  Behind them lies the cache.
PerSymbol ==
  CASE kind = "8u" \/ Wide -> 8 [] kind = "6k" -> 6 [] kind = "4k" -> 4 [] kind = "2k" -> 2
    [] kind = "1k" -> 1

F ==
  LET fs == IF kind = "8u" THEN 1 ELSE IF Wide THEN NarrowFree(n) ELSE PerSymbol * Symbols
  IN  [T |-> IF Wide THEN 2 * (n + WideFree) ELSE n + fs, n |-> n, k |-> Symbols, fs |-> fs,
       B |-> IF kind = "8u" THEN 2 * n + fs ELSE n]

CacheAt == F.T + (IF Wide THEN 2 * n ELSE n) + (IF kind = "8u" THEN PerSymbol * Symbols ELSE 0)

\* The words in which the text is given: 64-bit names have a high word of zeros.
Given ==
  IF kind = "wide_names"
    THEN [a \in F.T .. F.T + 2 * n - 1 |-> IF (a - F.T) % 2 = 0 THEN text[(a - F.T) \div 2] ELSE 0]
    ELSE [a \in F.T .. F.T + n - 1 |-> text[a - F.T]]

Threads == 0 .. NThreads - 1
Master  == 0
LastThread == NThreads - 1

\* The part of size elements that is thread t's: omp_block_start, _size.
Stride(size)  == Align * ((size \div NThreads) \div Align)
From(t, size) == t * Stride(size)
Part(t, size) == IF t = LastThread THEN size - From(t, size) ELSE Stride(size)

Zeros == [e \in 0 .. 4 * Symbols - 1 |-> 0]

\* The scans and the entries they go from and to; the sort of bytes and the
\* largest variant know how many entries their partial scans need.
Upwards == scan \in {"up", "final_up"}
Partial == scan \in {"up", "down"}

First(s) ==
  CASE s \in {"up", "final_up"}         -> 0
    [] s = "down" /\ kind \in {"8u", "6k"} -> n - first - 1
    [] OTHER                            -> n - 1

Last ==
  CASE scan = "up"   /\ kind \in {"8u", "6k"} -> left - 1
    [] scan = "down" /\ kind \in {"8u", "6k"} -> left + 1
    [] scan = "radix"                      -> n - m + 1
    [] OTHER                               -> IF Upwards THEN n - 1 ELSE 0

Ahead(j) == IF Upwards THEN pos + j ELSE pos - j
Room     == IF Upwards THEN Last - pos + 1 ELSE pos - Last + 1

-----------------------------------------------------------------------------
\* What a thread does with an element: the entries it reads and writes, and its
\* own state afterwards.
Does(reads, writes, r) == [reads |-> reads, writes |-> writes, th |-> r]
One(a, x) == [b \in {a} |-> x]
None == [b \in {} |-> 0]

\* The step of thread t that does e in the region it is in.
Advance(t, e) ==
  /\ mem' = [a \in DOMAIN mem |-> IF a \in DOMAIN e.writes THEN e.writes[a] ELSE mem[a]]
  /\ th' = [th EXCEPT ![t] = e.th]
  /\ at' = [at EXCEPT ![t] = @ + 1]
  /\ UNCHANGED <<kind, text, pc, locals>>

\* The step to pc next, with memory M and thread states r.
Goes(next, M, r) ==
  /\ pc' = next /\ mem' = M /\ th' = r
  /\ at' = [t \in Threads |-> 0]
  /\ UNCHANGED <<kind, text>>

ThreadsInit ==
  /\ \E job \in Jobs : kind = job.kind /\ text = job.text
  /\ \E x \in Junk :
       mem = [a \in 0 .. CacheAt + 2 * NThreads * CacheSize - 1 |->
                IF a \in DOMAIN Given THEN Given[a] ELSE x]
  /\ pc = "count"
  /\ at = [t \in Threads |-> 0]
  /\ th = [t \in Threads |-> [tab |-> Zeros, cache |-> <<>>, m |-> 0, last |-> 0,
                              l |-> From(t, n) + Part(t, n) - 1, d |-> 0]]
  /\ scan = "none" /\ pos = 0 /\ run = 0 /\ d = 0
  /\ m = 0 /\ first = 0 /\ left = 0 /\ names = 0

Done == pc = "done" /\ UNCHANGED vars

\* However the threads interleave, the result is the suffix array, and the text
\* is as it was (libsais_main_8u, libsais_main_32s, libsais64_omp).
ParallelSorts ==
  pc = "done" =>
    /\ [i \in 0 .. n - 1 |-> IF Wide THEN mem[2 * i] + 2 * Half * mem[2 * i + 1] ELSE mem[i]]
         = SuffixArray(text, n)
    /\ \A p \in 0 .. n - 1 : Sym(mem, F, p) = text[p]
=============================================================================

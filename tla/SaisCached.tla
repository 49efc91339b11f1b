----------------------------- MODULE SaisCached -----------------------------
(***************************************************************************)
(* libsais_main_32s of libsais.c with several OpenMP threads, for texts of *)
(* at least two LMS suffixes; counting, naming and compaction as the       *)
(* sequential code does them.                                              *)
(*                                                                         *)
(* A scan goes over SA in blocks that fit into the cache.  The threads     *)
(* fetch the entries of a block with the symbols they induce by (and clear *)
(* them in SA), the master thread alone induces from the cached entries,   *)
(* and the threads put the results where they belong.  An entry may be     *)
(* induced into the block that is cached; the master then fetches it into  *)
(* the cache in its turn, as SA still holds what was there before.         *)
(***************************************************************************)
EXTENDS SaisThreads

CONSTANT BlockMin       \* 16384, the smallest block that is worth a region

ASSUME CachedAssumption ==
  /\ BlockMin \in Nat
  /\ \A job \in Jobs :
       LET size == Cardinality(DOMAIN job.text)
       IN  job.kind \in {"6k", "4k", "2k", "1k"} =>
             Cardinality(LMSPositions(job.text, [T |-> 0, n |-> size])) > 1

Ints32s == kind \in {"6k", "4k", "2k", "1k"}

\* Which scans have names for groups: with a table entry for each L or S bucket,
\* in the group bit, or not at all.
Named32s == kind = "6k" /\ Partial
Grouped  == kind = "4k" /\ Partial

\* The block of a scan, and the cache entry of SA entry i.
Low  == IF Upwards THEN pos ELSE pos - run + 1
High == Low + run
SymbolOf(i) == CacheAt + 2 * (i - Low)
IndexOf(i)  == SymbolOf(i) + 1

Empty == -Half          \* SAINT_MIN

\* Whether what is induced, symbol a before b, waits for the other scan.
Marks(a, b) == IF Upwards THEN a < b ELSE a > b

\* The entry x of SA as it is cached over c.
FetchedBare(x, c, before) ==
  IF x > 0 THEN [index  |-> Mark(x - 1, Marks(Sym(mem, F, before), Sym(mem, F, x - 1))),
                 symbol |-> Sym(mem, F, x - 1)]
           ELSE c

FetchedGrouped(x, c) ==
  LET p == Ungroup(x)
  IN  IF x > 0 THEN [index  |-> x,
                     symbol |-> 2 * Sym(mem, F, p - 1)
                                + Bit(Marks(Sym(mem, F, p - 2), Sym(mem, F, p - 1)))]
               ELSE c

FetchedNamed(x) ==
  LET p == Unmark(x)
  IN  [index |-> x,
       symbol |-> IF p = 0 THEN 0
                  ELSE IF Upwards THEN VGeq(mem, F, 4, p) ELSE VGt(mem, F, 4, p)]

Fetched(x, c) ==
  CASE scan = "radix" -> [index |-> x, symbol |-> Sym(mem, F, x)]
    [] Named32s       -> FetchedNamed(x)
    [] Grouped        -> FetchedGrouped(x, c)
    [] Partial /\ ~Named32s /\ ~Grouped -> FetchedBare(x, c, x - 2)
    [] OTHER          -> FetchedBare(x, c, x - 1 - Bit(x > 1))

\* What is left of it where it was.
Leaves(x) ==
  CASE scan = "radix" \/ Named32s -> x
    [] Partial /\ ~Named32s -> IF x > 0 THEN 0 ELSE IF Upwards THEN Unmark(x) ELSE x
    [] OTHER                -> IF Upwards THEN Flip(x) ELSE Unmark(x)

FetchElem(t) ==
  LET i == Low + From(t, run) + at[t]
      x == mem[i]
      c == Fetched(x, [index |-> mem[IndexOf(i)], symbol |-> Empty])
  IN  Does({i}, [a \in {i, IndexOf(i), SymbolOf(i)} |->
                   CASE a = i            -> Leaves(x)
                     [] a = IndexOf(i)   -> c.index
                     [] a = SymbolOf(i)  -> c.symbol], th[t])

\* The table entry with the next slot of symbol v, and that of its last group.
Slots == F.B + (CASE kind \in {"6k", "4k"} -> IF Upwards THEN 2 * Symbols ELSE 3 * Symbols
                  [] kind = "2k"           -> IF Upwards THEN Symbols ELSE 0
                  [] kind = "1k"           -> 0)

SlotOf(v) ==
  CASE scan = "radix" -> IF kind = "6k" THEN F.B + 4 * Symbols + v ELSE F.B + 2 * v + 1
    [] Named32s       -> F.B + v
    [] Grouped        -> Slots + v \div 2
    [] OTHER          -> Slots + v

GroupOf(v) == IF Named32s THEN F.B + 2 + v ELSE F.B + v

\* Whether the slot to is in the block that is cached.
InBlock(to) == scan # "radix" /\ IF Upwards THEN to < High ELSE to >= Low

\* The master's turn with the cached entry of i.
InduceCached(s, i) ==
  LET v    == s.M[SymbolOf(i)]
      p    == s.M[IndexOf(i)]
      g    == s.d + (IF Named32s THEN Bit(p < 0) ELSE IF Grouped THEN InGroup(p) ELSE 0)
      new  == s.M[GroupOf(v)] # g
      x    == CASE Named32s -> IF new THEN Mark(Unmark(p) - 1, TRUE) ELSE p - 1
                [] Grouped  -> Mark(Ungroup(p) - 1 + (IF new THEN Group ELSE 0), v % 2 = 1)
                [] OTHER    -> p
      to   == IF Upwards THEN s.M[SlotOf(v)] ELSE s.M[SlotOf(v)] - 1
      done == [s.M EXCEPT ![SlotOf(v)]   = IF Upwards THEN to + 1 ELSE to,
                          ![SymbolOf(i)] = to,
                          ![IndexOf(i)]  = IF InBlock(to) THEN Leaves(x) ELSE x]
      named == IF Named32s \/ Grouped THEN [done EXCEPT ![GroupOf(v)] = g] ELSE done
      c    == Fetched(x, [index |-> s.M[IndexOf(to)], symbol |-> s.M[SymbolOf(to)]])
  IN  IF v < 0 THEN s
      ELSE [M |-> IF InBlock(to) THEN [named EXCEPT ![IndexOf(to)] = c.index,
                                                    ![SymbolOf(to)] = c.symbol]
                                 ELSE named,
            d |-> g]

Induced ==
  LET s == [M |-> mem, d |-> d]
  IN  IF Upwards THEN Up(InduceCached, s, Low, High - 1) ELSE Down(InduceCached, s, High - 1, Low)

PutElem(t) ==
  LET i == Low + From(t, run) + at[t]
  IN  Does({IndexOf(i), SymbolOf(i)},
           IF mem[SymbolOf(i)] >= 0 THEN One(mem[SymbolOf(i)], mem[IndexOf(i)]) ELSE None,
           th[t])

Size32s(t) == IF pc \in {"fetch", "put"} THEN Part(t, run) ELSE 0
Elem32s(t) == IF pc = "fetch" THEN FetchElem(t) ELSE PutElem(t)

Work32s(t) == Ints32s /\ at[t] < Size32s(t) /\ Advance(t, Elem32s(t))

Joined32s(region) ==
  Ints32s /\ pc = region /\ \A t \in Threads : at[t] >= Size32s(t)

-----------------------------------------------------------------------------
\* Counting and gathering, and the tables of the first scan.  The smallest
\* variant finds and sorts the LMS suffixes in one pass and starts inducing.
StartScan(s, M, g) ==
  /\ Goes("scan", M, th)
  /\ scan' = s /\ d' = g /\ run' = 0

Count32s ==
  /\ kind \in {"6k", "4k", "2k"} /\ pc = "count"
  /\ LET M == IF kind = "6k" THEN CountAndGather4k(mem, F) ELSE CountAndGather2k(mem, F)
         lms  == Cardinality(LMSPositions(mem, F))
         least == M[n - lms]
         init == RadixInit6k(Fill(M, 0, n - lms, 0), F, least)
     IN  /\ m' = lms /\ first' = least
         /\ CASE kind = "6k" -> StartScan("radix", init.M, 0) /\ left' = init.left
              [] kind = "4k" -> /\ StartScan("radix", RadixAndPartialInit4k(M, F, least), 0)
                                /\ UNCHANGED left
              [] kind = "2k" -> StartScan("radix", RadixInit2k(M, F, least), 0) /\ UNCHANGED left
  /\ pos' = First("radix")
  /\ UNCHANGED names

Count1k ==
  /\ kind = "1k" /\ pc = "count"
  /\ LET sorted == RadixSort1k(End1k(CountSuffixes32s(Fill(mem, 0, n, 0), F), F), F)
         M == Start1k(CountSuffixes32s(sorted.M, F), F)
     IN  m' = sorted.m /\ StartScan("up", LastBare(M, F, F.B), 0)
  /\ pos' = First("up")
  /\ UNCHANGED <<first, left, names>>

\* The sequential scan of the entries lo .. hi - 1.
Alone(lo, hi) ==
  LET s == [M |-> mem, d |-> d]
      bare(M) == [M |-> M, d |-> d]
  IN  CASE scan = "radix" /\ kind = "6k" -> bare(RadixScan6k(mem, F, hi - 1, lo))
        [] scan = "radix" /\ kind # "6k" -> bare(RadixScan2k(mem, F, hi - 1, lo))
        [] scan = "up" /\ Named32s       -> PartialLtoR6k(s, F, lo, hi)
        [] scan = "up" /\ Grouped        -> PartialLtoR4k(s, F, lo, hi)
        [] scan = "up" /\ kind \in {"2k", "1k"} -> bare(PartialLtoR1k(mem, F, Slots, lo, hi))
        [] scan = "down" /\ Named32s     -> PartialRtoL6k(s, F, hi - 1, lo)
        [] scan = "down" /\ Grouped      -> PartialRtoL4k(s, F, hi - 1, lo)
        [] scan = "down" /\ kind \in {"2k", "1k"} ->
             bare(PartialRtoL1k(mem, F, Slots, hi - 1, lo))
        [] scan = "final_up"             -> bare(FinalLtoR(mem, F, Slots, lo, hi))
        [] scan = "final_down"           -> bare(FinalRtoL(mem, F, Slots, hi - 1, lo))

Scanning32s == Ints32s /\ pc = "scan"

\* Scans of a small range need no blocks; neither do small blocks need threads.
Small == (IF scan = "radix" THEN m ELSE Room) < Threshold
AtStart == pos = First(scan)

Block == IF Room < NThreads * CacheSize THEN Room ELSE NThreads * CacheSize

ScanAlone32s ==
  /\ Scanning32s /\ Room > 0
  /\ (AtStart /\ Small) \/ Block < BlockMin
  /\ LET size == IF AtStart /\ Small THEN Room ELSE Block
         s == IF Upwards THEN Alone(pos, pos + size) ELSE Alone(pos - size + 1, pos + 1)
     IN  /\ Goes("scan", s.M, th)
         /\ d' = s.d /\ pos' = Ahead(size)
  /\ UNCHANGED <<scan, run, m, first, left, names>>

StartBlock ==
  /\ Scanning32s /\ Room > 0
  /\ ~(AtStart /\ Small) /\ Block >= BlockMin
  /\ Goes("fetch", mem, th)
  /\ run' = Block
  /\ UNCHANGED <<scan, pos, d, m, first, left, names>>

JoinFetch ==
  /\ Joined32s("fetch")
  /\ Goes("put", Induced.M, th) /\ d' = Induced.d
  /\ UNCHANGED <<scan, pos, run, m, first, left, names>>

JoinPut ==
  /\ Joined32s("put")
  /\ Goes("scan", mem, th)
  /\ pos' = Ahead(run)
  /\ UNCHANGED <<scan, run, d, m, first, left, names>>

-----------------------------------------------------------------------------
\* Between the scans.
ScannedAll(s) == Scanning32s /\ scan = s /\ Room = 0

\* The tables for inducing; the last suffix comes before the scan.
EndRadix ==
  /\ ScannedAll("radix")
  /\ LET cleared == Fill(SetMarkers6k(mem, F), n - m, m, 0)
         named   == PartialLtoR6kAll(PartialInit6k(cleared, F, first, left), F, 0)
         placed  == PlaceInterval4k(SetMarkers4k(mem, F), F, m - 1)
         grouped == LastGrouped(Fill(placed, F.B, 2 * Symbols, 0), F)
         bare    == LastBare(StartAndEnd2k(PlaceInterval2k(mem, F, m - 1), F), F, F.B + Symbols)
     IN  CASE kind = "6k" -> StartScan("up", named.M, named.d)
           [] kind = "4k" -> StartScan("up", grouped.M, grouped.d)
           [] kind = "2k" -> StartScan("up", bare, d)
  /\ pos' = First("up")
  /\ UNCHANGED <<m, first, left, names>>

EndUp ==
  /\ ScannedAll("up")
  /\ StartScan("down", CASE kind = "6k" -> ShiftBuckets6k(ShiftMarkers6k(mem, F), F)
                         [] kind = "4k" -> ShiftMarkers4k(mem, F)
                         [] kind = "2k" -> mem
                         [] kind = "1k" -> End1k(CountSuffixes32s(mem, F), F), d)
  /\ pos' = First("down")
  /\ UNCHANGED <<m, first, left, names>>

EndDown ==
  /\ ScannedAll("down")
  /\ LET M == CASE kind = "6k" -> mem
                [] kind = "4k" -> GatherMarked4k(mem, F)
                [] kind \in {"2k", "1k"} -> GatherMarked1k(mem, F)
         s == IF kind \in {"6k", "4k"} THEN RenumberAndMark4k(M, F, m)
                                       ELSE RenumberAndMark1k(M, F, m)
     IN  /\ names' = s.names
         /\ Goes(IF s.names < m THEN "call" ELSE "recount", s.M, th)
  /\ UNCHANGED <<scan, pos, run, d, m, first, left>>

\* The call sorts what is left of the names when the f that occur once are set
\* aside in front of them; what lies between these and its result is free space.
Recurse32s ==
  /\ pc = "call"
  /\ \E x \in Junk :
       LET s    == CompactLMS(mem, F, m)
           size == m - s.f
           SA   == SuffixArray([i \in 0 .. size - 1 |-> s.M[n + F.fs - size + i]], size)
           free == Fill(s.M, size, F.fs + n - 2 * m + s.f, x)
           M    == Overwrite(free, 0, size, LAMBDA i : SA[i])
       IN  Goes("order", IF kind = "1k" THEN ReconstructCompacted1k(M, F, m, s.f)
                                         ELSE ReconstructCompacted2k(M, F, m, s.f), th)
  /\ UNCHANGED locals

Recount ==
  /\ pc = "recount"
  /\ Goes("order", IF kind = "1k" THEN mem ELSE CountLMS2k(mem, F), th)
  /\ UNCHANGED locals

\* The sorted LMS suffixes are placed, then the last suffix.
Order ==
  /\ pc = "order"
  /\ LET placed ==
           CASE kind \in {"6k", "4k"} -> PlaceHistogram4k(StartAndEnd4k(mem, F), F, m)
             [] kind = "2k" -> StartAndEnd2k(PlaceHistogram2k(End2k(mem, F), F, m), F)
             [] kind = "1k" ->
                  Start1k(CountSuffixes32s(
                    PlaceInterval1k(End1k(CountSuffixes32s(mem, F), F), F, m), F), F)
         slots == CASE kind \in {"6k", "4k"} -> F.B + 2 * Symbols
                    [] kind = "2k" -> F.B + Symbols
                    [] kind = "1k" -> F.B
     IN  StartScan("final_up", PutLast(placed, F, slots), d)
  /\ pos' = First("final_up")
  /\ UNCHANGED <<m, first, left, names>>

EndFinalUp ==
  /\ ScannedAll("final_up")
  /\ StartScan("final_down",
               IF kind = "1k" THEN End1k(CountSuffixes32s(mem, F), F) ELSE mem, d)
  /\ pos' = First("final_down")
  /\ UNCHANGED <<m, first, left, names>>

EndFinalDown == ScannedAll("final_down") /\ Goes("done", mem, th) /\ UNCHANGED locals

Next32s ==
  \/ \E t \in Threads : Work32s(t)
  \/ Count32s \/ Count1k \/ ScanAlone32s \/ StartBlock \/ JoinFetch \/ JoinPut
  \/ EndRadix \/ EndUp \/ EndDown \/ Recurse32s \/ Recount \/ Order
  \/ EndFinalUp \/ EndFinalDown
=============================================================================

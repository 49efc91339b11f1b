---------------------------- MODULE SaisParallel ----------------------------
(***************************************************************************)
(* libsais_main_8u of libsais.c with several OpenMP threads.  In a         *)
(* parallel region every thread works through its part of an array, one    *)
(* element a step, in any order with the others; at a barrier they wait    *)
(* for each other, and the master thread combines what they counted.       *)
(*                                                                         *)
(* The scans that induce an order work on a run of entries that are not    *)
(* zero: each thread reads its part into a cache and counts, the master    *)
(* turns the counts into slots, and each thread places what it has cached. *)
(* This is only right if no entry of the run is induced by another one of  *)
(* it, which is why every slot that waits for an entry has to be zero.     *)
(*                                                                         *)
(* The recursive call for the names is libsais_main_32s of module Sais; it *)
(* stands here for what it returns.                                        *)
(***************************************************************************)
EXTENDS SaisThreads

CONSTANT
  ParBlock      \* 64 * ALPHABET_SIZE, the smallest run that is worth a region

ASSUME ParallelAssumption == ParBlock \in Nat \ {0}

\* A mutant of MaxBlock that forgets the rounding to multiples of Align.
MaxBlockFull == NThreads * CacheSize

\* The longest run: no thread's part of it exceeds its cache.
MaxBlock == NThreads * (CacheSize - Align * NThreads)

Later(t) == Up(LAMBDA sum, u : sum + th[u].m, 0, t + 1, LastThread)

\* Thread tables start a region anew.
Fresh(r) == [r EXCEPT !.tab = Zeros, !.cache = <<>>]

-----------------------------------------------------------------------------
\* Counting and gathering: each thread gathers the LMS suffixes of its block at
\* the block's end.
CountElem(t) ==
  LET L == TypeL(mem, F)
      p == From(t, n) + Part(t, n) - 1 - at[t]
      e == 4 * Sym(mem, F, p) + ClassIn(L, p)
  IN  Does({}, One(th[t].l, p),
           [th[t] EXCEPT !.l = @ - Bit(IsLMS(L, p)), !.tab[e] = @ + 1])

\* The master moves the blocks to the end of SA, from the last one down, and
\* leaves in each thread's table the counts of the threads behind it.
Counted ==
  LET own == [t \in Threads |->
                LET end == From(t, n) + Part(t, n)
                    cnt == end - 1 - th[t].l
                IN  [th[t] EXCEPT !.m = cnt, !.last = IF cnt > 0 THEN mem[end - 1] ELSE @]]
  IN  Down(LAMBDA s, t :
             LET total == s.m + own[t].m
                 end   == From(t, n) + Part(t, n)
                 moved == IF t # LastThread
                            THEN Move(s.M, n - total, end - own[t].m, own[t].m) ELSE s.M
             IN  [M  |-> Overwrite(moved, F.B, 4 * Symbols,
                                   LAMBDA e : s.M[F.B + e] + own[t].tab[e]),
                  th |-> [s.th EXCEPT ![t] = [own[t] EXCEPT !.tab =
                            [e \in DOMAIN Zeros |-> s.M[F.B + e]]]],
                  m  |-> total],
           [M |-> Fill(mem, F.B, 4 * Symbols, 0), th |-> own, m |-> 0], LastThread, 0)

\* Radix sort: the slots of a thread are those of the symbol less what the
\* threads behind it take; the first LMS suffix is left out.
RadixFrom(t) ==
  LET start == Later(t) + th[t].m
      skip  == IF start = m /\ th[t].m > 0 THEN 1 ELSE 0
  IN  [start |-> n - start + skip, size |-> th[t].m - skip]

RadixElem(t) ==
  LET block == RadixFrom(t)
      i == block.start + block.size - 1 - at[t]
      e == 2 * Sym(mem, F, mem[i])
  IN  Does({i}, One(th[t].tab[e] - 1, mem[i]), [th[t] EXCEPT !.tab[e] = @ - 1])

RadixTable(t, M) ==
  [e \in DOMAIN Zeros |->
     IF e < 2 * Symbols /\ e % 2 = 0 THEN M[F.B + 4 * Symbols + e] - th[t].tab[2 * e + 1]
     ELSE th[t].tab[e]]
-----------------------------------------------------------------------------
\* The scans.  A run is the entries pos .. pos + run - 1, or, from right to
\* left, pos - run + 1 .. pos; Entry is the one a thread is at.
Entry(t) ==
  IF Upwards THEN pos + From(t, run) + at[t]
             ELSE pos - run + From(t, run) + Part(t, run) - at[t]

\* Partial sorts: the cache keeps the entry and the table entry v it goes to;
\* the thread's table counts them, and holds the last group of each v.
PrepareElem(t) ==
  LET p == mem[Entry(t)]
      g == th[t].d + Bit(p < 0)
      v == IF Upwards THEN VGeq(mem, F, 2, Unmark(p)) ELSE VGt(mem, F, 2, Unmark(p))
  IN  Does({Entry(t)}, None,
           [th[t] EXCEPT !.d = g, !.tab[v] = @ + 1, !.tab[2 * Symbols + v] = g,
                         !.cache = Append(@, [index |-> p, symbol |-> v])])

PlaceElem(t) ==
  LET c == th[t].cache[at[t] + 1]
      v == c.symbol
      g == th[t].d + Bit(c.index < 0)
      x == IF th[t].tab[2 * Symbols + v] # g THEN Mark(Unmark(c.index) - 1, TRUE)
                                             ELSE c.index - 1
      slot == IF Upwards THEN th[t].tab[v] ELSE th[t].tab[v] - 1
  IN  Does({}, One(slot, x),
           [th[t] EXCEPT !.d = g, !.tab[v] = IF Upwards THEN @ + 1 ELSE @ - 1,
                         !.tab[2 * Symbols + v] = g])

\* Final sorts: the mark of the entry read is flipped or taken away.
FinalPrepareElem(t) ==
  LET i == Entry(t)
      p == mem[i]
      c == Sym(mem, F, p - 1)
      before == Sym(mem, F, p - 1 - Bit(p > 1))
      other  == IF Upwards THEN before < c ELSE before > c
  IN  Does({i}, One(i, IF Upwards THEN Flip(p) ELSE Unmark(p)),
           IF p > 0 THEN [th[t] EXCEPT !.tab[c] = @ + 1,
                            !.cache = Append(@, [index |-> Mark(p - 1, other), symbol |-> c])]
                    ELSE th[t])

FinalPlaceElem(t) ==
  LET c == th[t].cache[at[t] + 1]
      v == c.symbol
  IN  Does({}, One(IF Upwards THEN th[t].tab[v] ELSE th[t].tab[v] - 1, c.index),
           [th[t] EXCEPT !.tab[v] = IF Upwards THEN @ + 1 ELSE @ - 1])

\* The master gives each thread, in the order of the scan, the slots behind
\* those of the threads before it: the slots from table entry base on, of
\* size entries.
InScanOrder(step(_, _), x) ==
  IF Upwards THEN Up(step, x, 0, LastThread) ELSE Down(step, x, LastThread, 0)

\* A mutant of MergeSlots by which all threads start with the same slots.
MergeSlotsShared(s, t, base, size) ==
  LET B(e) == s.th[t].tab[e]
  IN  [s EXCEPT !.th[t].tab = [e \in DOMAIN Zeros |->
                                 IF e < size THEN s.M[base + e] ELSE B(e)]]

MergeSlots(s, t, base, size) ==
  LET B(e) == s.th[t].tab[e]
  IN  [s EXCEPT !.M = Overwrite(s.M, base, size, LAMBDA e :
                        IF Upwards THEN s.M[base + e] + B(e) ELSE s.M[base + e] - B(e)),
                !.th[t].tab = [e \in DOMAIN Zeros |->
                                 IF e < size THEN s.M[base + e] ELSE B(e)]]

\* The groups a thread counted from 1 follow those of the threads before it.
MergeNames(s, t) ==
  LET base == F.B + 2 * Symbols
      B(e) == s.th[t].tab[2 * Symbols + e]
      counted == s.th[t].d - 1
  IN  [M  |-> Overwrite(s.M, base, 2 * Symbols, LAMBDA e :
                IF B(e) > 0 THEN B(e) + s.d - 1 ELSE s.M[base + e]),
       th |-> [s.th EXCEPT ![t].d = s.d,
                 ![t].tab = [e \in DOMAIN Zeros |->
                    IF e >= 2 * Symbols THEN s.M[base + e - 2 * Symbols] ELSE s.th[t].tab[e]]],
       d  |-> s.d + counted]

MergedPartial ==
  InScanOrder(LAMBDA s, t : MergeNames(MergeSlots(s, t,
                 IF Upwards THEN F.B + 4 * Symbols ELSE F.B, 2 * Symbols), t),
              [M |-> mem, th |-> th, d |-> d])

MergedFinal ==
  InScanOrder(LAMBDA s, t : MergeSlots(s, t,
                 IF Upwards THEN F.B + 6 * Symbols ELSE F.B + 7 * Symbols, Symbols),
              [M |-> mem, th |-> th, d |-> d])

\* parallel for, schedule(static, 1): the symbols are dealt out in turn.
Turn(t)         == t + at[t] * NThreads
Turns(t, count) == Cardinality({j \in 0 .. count - 1 : j % NThreads = t})

ShiftElem(t) ==
  LET c    == Symbols - 1 - Turn(t)
      from == mem[F.B + 4 * Symbols + 2 * c] - 1
      to   == mem[F.B + 2 * (c - 1)]
      M    == ShiftMarks(mem, from, to)
  IN  Does(to .. from, [a \in to .. from |-> M[a]], th[t])

\* A mutant of ClearElem that leaves the LMS suffixes for the second scan.
ClearElemKept(t) == Does({}, None, th[t])

ClearElem(t) ==
  LET c == Turn(t)
  IN  Does({}, [a \in mem[F.B + 6 * Symbols + c] .. mem[F.B + 7 * Symbols + c] - 1 |-> 0],
           th[t])

-----------------------------------------------------------------------------
\* Names: the threads count the groups of their part first.
Negatives(t) ==
  Cardinality({i \in From(t, m) .. From(t, m) + Part(t, m) - 1 : mem[i] < 0})

RenumberElem(t) ==
  LET i == From(t, m) + at[t]
      p == mem[i]
  IN  Does({i}, One(NameAt(m, Unmark(p)), Mark(th[t].l, TRUE)),
           [th[t] EXCEPT !.l = @ + Bit(p < 0)])

Half2 == n \div 2

\* The last thread gathers to the end of the free space, the others to the end
\* of their part, from where the master moves them.
GatherEnd(t) == IF t = LastThread THEN n + F.fs ELSE m + From(t, Half2) + Part(t, Half2)

GatherMarkedElem(t) ==
  LET i == m + From(t, Half2) + Part(t, Half2) - 1 - at[t]
      x == mem[i]
  IN  Does({i}, One(th[t].l, Unmark(x)), [th[t] EXCEPT !.l = @ - Bit(x < 0)])

GatheredMarked ==
  Down(LAMBDA s, t :
         LET count == GatherEnd(t) - 1 - th[t].l
             to    == s.to - count
         IN  [M  |-> IF t # LastThread THEN Move(s.M, to, th[t].l + 1, count) ELSE s.M,
              to |-> to],
       [M |-> mem, to |-> n + F.fs], LastThread, 0).M

\* Gathering the LMS suffixes again, each block where it belongs.  The entry a
\* thread writes last, and every entry that is no LMS suffix, may fall on the
\* slot of the last LMS suffix of the thread before it, which repairs it behind
\* the barrier.
GatherElem(t) ==
  LET p == From(t, n) + Part(t, n) - 1 - at[t]
      counts == at[t] < Part(t, n) - 1 /\ IsLMS(TypeL(mem, F), p)
  IN  Does({}, One(th[t].l, p), [th[t] EXCEPT !.l = @ - Bit(counts)])

RepairElem(t) == Does({}, One(n - 1 - Later(t), th[t].last), th[t])

ReconstructElem(t) ==
  LET i == From(t, m) + at[t]
  IN  Does({i, n - m + mem[i]}, One(i, mem[n - m + mem[i]]), th[t])

-----------------------------------------------------------------------------
\* What is left for a thread in the region pc, and its next element.
Size8u(t) ==
  CASE pc \in {"count", "gather"}          -> Part(t, n)
    [] pc = "radix"                        -> RadixFrom(t).size
    [] pc = "prepare"                      -> Part(t, run)
    [] pc = "place"                        -> Len(th[t].cache)
    [] pc = "shift"                        -> Turns(t, Symbols - 1)
    [] pc = "clear"                        -> Turns(t, Symbols)
    [] pc \in {"renumber", "reconstruct"}  -> Part(t, m)
    [] pc = "gather_marked"                -> Part(t, Half2)
    [] pc = "repair"                       -> Bit(th[t].m > 0)
    [] OTHER                               -> 0

Elem8u(t) ==
  CASE pc = "count"                    -> CountElem(t)
    [] pc = "radix"                    -> RadixElem(t)
    [] pc = "prepare" /\ Partial       -> PrepareElem(t)
    [] pc = "place" /\ Partial         -> PlaceElem(t)
    [] pc = "shift"                    -> ShiftElem(t)
    [] pc = "renumber"                 -> RenumberElem(t)
    [] pc = "gather_marked"            -> GatherMarkedElem(t)
    [] pc = "gather"                   -> GatherElem(t)
    [] pc = "repair"                   -> RepairElem(t)
    [] pc = "reconstruct"              -> ReconstructElem(t)
    [] pc = "prepare" /\ ~Partial      -> FinalPrepareElem(t)
    [] pc = "place" /\ ~Partial        -> FinalPlaceElem(t)
    [] pc = "clear"                    -> ClearElem(t)

Work8u(t) == kind = "8u" /\ at[t] < Size8u(t) /\ Advance(t, Elem8u(t))

\* All threads are at the barrier behind the region.
Joined(region) == kind = "8u" /\ pc = region /\ \A t \in Threads : at[t] >= Size8u(t)

-----------------------------------------------------------------------------
\* The steps between the regions: what the master thread does alone.
JoinCount ==
  /\ Joined("count")
  /\ LET s == Counted
         M == StartAndEnd8u(s.M, F)
         r == RadixInit8u(M, F, M[n - s.m])
     IN  /\ m' = s.m
         /\ IF s.m > 0
              THEN /\ Goes("sort", Fill(r.M, 0, n - s.m, 0), s.th)
                   /\ first' = M[n - s.m] /\ left' = r.left
              ELSE /\ Goes("final", Fill(M, 0, n, 0), s.th)
                   /\ UNCHANGED <<first, left>>
  /\ UNCHANGED <<scan, pos, run, d, names>>

Sort ==
  /\ pc = "sort"
  /\ IF m >= Threshold
       THEN Goes("radix", mem, [t \in Threads |-> [th[t] EXCEPT !.tab = RadixTable(t, mem)]])
       ELSE Goes("partial", RadixSort8u(mem, F, m), th)
  /\ UNCHANGED locals

JoinRadix == Joined("radix") /\ Goes("partial", mem, th) /\ UNCHANGED locals

\* The unsorted copy is cleared; the last suffix comes before the scan.
StartPartial ==
  /\ pc = "partial"
  /\ LET M == Fill(PartialInit8u(Fill(mem, n - m, m, 0), F, first, left),
                   F.B + 2 * Symbols, 2 * Symbols, 0)
         s == PartialLtoR8uAll(M, F, IF left < Threshold THEN left ELSE 0)
     IN  /\ Goes(IF left < Threshold THEN "shift" ELSE "scan", s.M, th)
         /\ d' = s.d
  /\ scan' = "up" /\ pos' = 0
  /\ UNCHANGED <<run, m, first, left, names>>

JoinShift ==
  /\ Joined("shift")
  /\ IF n - first - left - 1 < Threshold
       THEN /\ Goes("rename", PartialRtoL8uAll([M |-> mem, d |-> d], F, first, left).M, th)
            /\ UNCHANGED <<scan, pos>>
       ELSE Goes("scan", mem, th) /\ scan' = "down" /\ pos' = First("down")
  /\ UNCHANGED <<run, d, m, first, left, names>>

-----------------------------------------------------------------------------
\* A scan looks for the next entry that is not zero and the run that starts
\* with it.
Scanning == kind = "8u" /\ pc = "scan"

RunLength ==
  CHOOSE r \in 1 .. Room :
    /\ r <= MaxBlock
    /\ \A j \in 0 .. r - 1 : mem[Ahead(j)] # 0
    /\ r = MaxBlock \/ r = Room \/ mem[Ahead(r)] = 0

SkipZero ==
  /\ Scanning /\ Room > 0 /\ mem[pos] = 0
  /\ LET next == CHOOSE j \in 1 .. Room :
                   /\ \A i \in 0 .. j - 1 : mem[Ahead(i)] = 0
                   /\ j = Room \/ mem[Ahead(j)] # 0
     IN  pos' = Ahead(next)
  /\ UNCHANGED <<kind, text, mem, pc, at, th, scan, run, d, m, first, left, names>>

\* A short run is scanned by the master alone.
ScanRun(r) ==
  CASE scan = "up"       -> PartialLtoR8u([M |-> mem, d |-> d], F, pos, pos + r)
    [] scan = "down"     -> PartialRtoL8u([M |-> mem, d |-> d], F, pos, pos - r + 1)
    [] scan = "final_up" ->
         [M |-> FinalLtoR(mem, F, F.B + 6 * Symbols, pos, pos + r), d |-> d]
    [] scan = "final_down" ->
         [M |-> FinalRtoL(mem, F, F.B + 7 * Symbols, pos, pos - r + 1), d |-> d]

ScanAlone ==
  /\ Scanning /\ Room > 0 /\ mem[pos] # 0 /\ RunLength < ParBlock
  /\ LET s == ScanRun(RunLength)
     IN  mem' = s.M /\ d' = s.d /\ pos' = Ahead(RunLength)
  /\ UNCHANGED <<kind, text, pc, at, th, scan, run, m, first, left, names>>

ScanTogether ==
  /\ Scanning /\ Room > 0 /\ mem[pos] # 0 /\ RunLength >= ParBlock
  /\ Goes("prepare", mem,
          [t \in Threads |-> [Fresh(th[t]) EXCEPT !.d = IF Partial THEN 1 ELSE @]])
  /\ run' = RunLength
  /\ UNCHANGED <<scan, pos, d, m, first, left, names>>

JoinPrepare ==
  /\ Joined("prepare")
  /\ LET s == IF Partial THEN MergedPartial ELSE MergedFinal
     IN  Goes("place", s.M, s.th) /\ d' = s.d
  /\ UNCHANGED <<scan, pos, run, m, first, left, names>>

JoinPlace ==
  /\ Joined("place")
  /\ Goes("scan", mem, th)
  /\ pos' = Ahead(run)
  /\ UNCHANGED <<scan, run, d, m, first, left, names>>

ScanDone ==
  /\ Scanning /\ Room = 0
  /\ Goes(CASE scan = "up" -> "shift" [] scan = "down" -> "rename"
            [] scan = "final_up" -> "clear" [] scan = "final_down" -> "done", mem, th)
  /\ UNCHANGED locals

-----------------------------------------------------------------------------
\* Naming.
Rename ==
  /\ pc = "rename"
  /\ LET M == Fill(mem, m, Half2, 0)
         s == Renumber8u(M, m)
         upto(t) == Up(LAMBDA sum, u : sum + Negatives(u), 0, 0, t - 1)
     IN  IF m >= Threshold
           THEN /\ Goes("renumber", M, [t \in Threads |-> [th[t] EXCEPT !.l = upto(t)]])
                /\ names' = upto(NThreads)
           ELSE Goes("named", s.M, th) /\ names' = s.name
  /\ UNCHANGED <<scan, pos, run, d, m, first, left>>

JoinRenumber == Joined("renumber") /\ Goes("named", mem, th) /\ UNCHANGED locals

Named ==
  /\ pc = "named"
  /\ IF names = m THEN Goes("final", Overwrite(mem, 0, m, LAMBDA i : Unmark(mem[i])), th)
     ELSE IF n >= 2 * Threshold
       THEN Goes("gather_marked", mem,
                 [t \in Threads |-> [th[t] EXCEPT !.l = GatherEnd(t) - 1]])
     ELSE Goes("recurse", GatherNames8u(mem, F, m), th)
  /\ UNCHANGED locals

JoinGatherMarked ==
  Joined("gather_marked") /\ Goes("recurse", GatheredMarked, th) /\ UNCHANGED locals

\* The call sorts the names, with what lies between them and its result as
\* free space.
Recurse ==
  /\ pc = "recurse"
  /\ \E x \in Junk :
       LET T  == n + F.fs - m
           SA == SuffixArray([i \in 0 .. m - 1 |-> mem[T + i]], m)
       IN  Goes("gather", Overwrite(Fill(mem, m, T - m, x), 0, m, LAMBDA i : SA[i]),
                [t \in Threads |-> [th[t] EXCEPT !.l = n - 1 - Later(t)]])
  /\ UNCHANGED locals

JoinGather == Joined("gather") /\ Goes("repair", mem, th) /\ UNCHANGED locals

JoinRepair ==
  /\ Joined("repair")
  /\ IF m >= Threshold THEN Goes("reconstruct", mem, th)
                       ELSE Goes("final", Reconstruct(mem, F, m), th)
  /\ UNCHANGED locals

JoinReconstruct == Joined("reconstruct") /\ Goes("final", mem, th) /\ UNCHANGED locals

\* The sorted LMS suffixes are placed, then the last suffix.
StartFinal ==
  /\ pc = "final"
  /\ Goes("scan", PutLast(IF m > 0 THEN PlaceInterval8u(mem, F, m) ELSE mem, F,
                              F.B + 6 * Symbols), th)
  /\ scan' = "final_up" /\ pos' = 0
  /\ UNCHANGED <<run, d, m, first, left, names>>

JoinClear ==
  /\ Joined("clear")
  /\ Goes("scan", mem, th)
  /\ scan' = "final_down" /\ pos' = First("final_down")
  /\ UNCHANGED <<run, d, m, first, left, names>>

Next8u ==
  \/ \E t \in Threads : Work8u(t)
  \/ JoinCount \/ Sort \/ JoinRadix \/ StartPartial \/ JoinShift
  \/ SkipZero \/ ScanAlone \/ ScanTogether \/ JoinPrepare \/ JoinPlace \/ ScanDone
  \/ Rename \/ JoinRenumber \/ Named \/ JoinGatherMarked \/ Recurse
  \/ JoinGather \/ JoinRepair \/ JoinReconstruct \/ StartFinal \/ JoinClear
=============================================================================

----------------------------- MODULE SaisNames -----------------------------
(***************************************************************************)
(* What libsais.c does between the partial and the final sort: sorting the *)
(* LMS suffixes by their first symbol, naming the LMS substrings by rank,  *)
(* compacting the names into a text for the recursive call, turning the    *)
(* result back into LMS suffixes and placing these; and the final scans.   *)
(*                                                                         *)
(* m is the number of LMS suffixes.  The name of the suffix at p is kept   *)
(* in SA[m + p / 2]: two LMS suffixes are never neighbours.                *)
(***************************************************************************)
EXTENDS SaisInduce

NameAt(m, p) == m + (p \div 2)

\* Words wrap around; only values that are overwritten ever do.
Wrap(x) == ((x + Half) % (2 * Half)) - Half

-----------------------------------------------------------------------------
\* Radix sorts by the first symbol: the slots are table entries.
RadixSort(M, F, from, to, slot(_)) ==
  Down(LAMBDA x, i : PutDown(x, slot(Sym(x, F, x[i])), x[i]), M, from, to)

RadixScan6k(M, F, from, to) == RadixSort(M, F, from, to, LAMBDA c : F.B + 4 * F.k + c)
RadixScan2k(M, F, from, to) == RadixSort(M, F, from, to, LAMBDA c : F.B + 2 * c + 1)

RadixSort8u(M, F, m) ==
  RadixSort(M, F, F.n - 1, F.n - m + 1, LAMBDA c : F.B + 4 * F.k + 2 * c)
RadixSort6k(M, F, m) == RadixScan6k(M, F, F.n - 1, F.n - m + 1)
RadixSort2k(M, F, m) == RadixScan2k(M, F, F.n - 1, F.n - m + 1)

\* The form that finds the LMS suffixes itself; the one put last, the first in
\* the text, is taken out again if there are others.
RadixSort1k(M, F) ==
  LET lms   == LMSPositions(M, F)
      put   == Down(LAMBDA x, p : IF p \in lms THEN PutDown(x, F.B + Sym(x, F, p), p) ELSE x,
                    M, F.n - 1, 1)
      first == CHOOSE p \in lms : \A q \in lms : p <= q
      m     == Cardinality(lms)
  IN  [M |-> IF m > 1 THEN [put EXCEPT ![put[F.B + Sym(M, F, first)]] = 0] ELSE put,
       m |-> m]

\* The first entry of every bucket but the last starts a group.
SetMarkers6k(M, F) ==
  Up(LAMBDA x, c : [x EXCEPT ![x[F.B + 4 * F.k + c]] = Mark(Unmark(@), TRUE)],
     M, 0, F.k - 2)
SetMarkers4k(M, F) ==
  Up(LAMBDA x, c : [x EXCEPT ![x[F.B + 2 * c + 1]] = IF InGroup(Unmark(@)) = 1 THEN @ ELSE @ + Group],
     M, 0, F.k - 2)

-----------------------------------------------------------------------------
\* Naming for bytes: SA[0 .. m - 1] holds the LMS suffixes in order, the last
\* of each group of equal substrings marked.
Renumber8u(M, m) ==
  Up(LAMBDA s, i : [M |-> [s.M EXCEPT ![NameAt(m, Unmark(s.M[i]))] = Mark(s.name, TRUE)],
                    name |-> s.name + Bit(s.M[i] < 0)],
     [M |-> M, name |-> 0], 0, m - 1)

\* The names, in the order of the text, move to the end of the free space.
GatherNames8u(M, F, m) ==
  Down(LAMBDA s, i : [M |-> [s.M EXCEPT ![s.l] = Unmark(s.M[i])],
                      l |-> s.l - Bit(s.M[i] < 0)],
       [M |-> M, l |-> F.n + F.fs - 1], m + F.n \div 2 - 1, m).M

RenumberAndGather8u(M, F, m) ==
  LET s == Renumber8u(Fill(M, m, F.n \div 2, 0), m)
  IN  [M |-> IF s.name < m THEN GatherNames8u(s.M, F, m)
             ELSE Overwrite(s.M, 0, m, LAMBDA i : Unmark(s.M[i])),
       names |-> s.name]

-----------------------------------------------------------------------------
\* Naming for integers: a name is marked if its substring occurs once.
RenumberDistinct4k(M, m) ==
  Up(LAMBDA s, i :
       LET x == s.M[i]
       IN  [M |-> [s.M EXCEPT ![i] = Unmark(x),
                              ![NameAt(m, Unmark(x))] = Mark(s.name, x < 0 /\ s.prev < 0)],
            name |-> s.name + Bit(x < 0),
            prev |-> x],
     [M |-> M, name |-> 1, prev |-> 0], 0, m - 1)

\* A mutant of MarkDistinct by which every unique name keeps its mark.
MarkDistinctAll(M, F, m) == M

\* In the order of the text, a mark stays only behind a marked name.
MarkDistinct(M, F, m) ==
  Up(LAMBDA s, i :
       LET x == s.M[i]
       IN  [M |-> IF s.prev < 0 THEN s.M ELSE [s.M EXCEPT ![i] = Unmark(x)],
            prev |-> IF x = 0 THEN s.prev ELSE x],
     [M |-> M, prev |-> 0], m, m + F.n \div 2 - 1).M

RenumberAndMark4k(M, F, m) ==
  LET s == RenumberDistinct4k(Fill(M, m, F.n \div 2, 0), m)
  IN  [M |-> IF s.name - 1 < m THEN MarkDistinct(s.M, F, m) ELSE s.M, names |-> s.name - 1]

Clamp(M, F, m) ==
  Overwrite(M, m, F.n \div 2, LAMBDA i : IF M[m + i] < 0 THEN Unmark(M[m + i]) ELSE 0)

\* Without marks of groups the substrings themselves are compared; their
\* lengths are kept where the names will be.
SubstringsDiffer(M, F, p, q, plen, qlen) ==
  plen # qlen \/ \E l \in 0 .. plen - 1 : Sym(M, F, p + l) # Sym(M, F, q + l)

RenumberAndMark1k(M, F, m) ==
  LET gathered == Fill(GatherLMS32s(M, F), m, F.n - 2 * m, 0)
      lengths  == Up(LAMBDA x, i :
                       [x EXCEPT ![NameAt(m, x[i])] =
                          IF i = F.n - 1 THEN Mark(1, TRUE) ELSE Mark(x[i + 1] - x[i] + 1, TRUE)],
                     gathered, F.n - m, F.n - 1)
      clamped  == Clamp(lengths, F, m)
      named    == Up(LAMBDA s, i :
                       LET q == s.M[i]
                           qlen == s.M[NameAt(m, q)]
                           diff == SubstringsDiffer(M, F, s.p, q, s.plen, qlen)
                       IN  [M |-> [s.M EXCEPT ![NameAt(m, s.p)] = Mark(s.name, s.diff /\ diff)],
                            name |-> s.name + Bit(diff), diff |-> diff, p |-> q, plen |-> qlen],
                     [M |-> clamped, name |-> 1, diff |-> TRUE,
                      p |-> clamped[0], plen |-> clamped[NameAt(m, clamped[0])]],
                     1, m - 1)
      done     == [named.M EXCEPT ![NameAt(m, named.p)] = Mark(named.name, named.diff)]
  IN  [M |-> IF named.name < m THEN MarkDistinct(done, F, m) ELSE done, names |-> named.name]

-----------------------------------------------------------------------------
\* Compaction: a suffix with a unique name keeps its rank and a mark in the
\* text; the others get names that count the common ones only.
RenumberUnique(M, F, m) ==
  Up(LAMBDA s, i :
       LET p == s.M[i]
           x == s.M[NameAt(m, p)]
       IN  IF x < 0
             THEN [M |-> [s.M EXCEPT ![F.T + p] = Mark(Unmark(@), TRUE),
                                     ![NameAt(m, p)] = Mark(i, TRUE)],
                   f |-> s.f + 1]
             ELSE [s EXCEPT !.M[NameAt(m, p)] = x - s.f],
     [M |-> M, f |-> 0], 0, m - 1)

\* In the order of the text, the ranks go in front of SA[m], the names in front
\* of the end of the free space, and then the ranks behind these.
CompactUnique(M, F, m, f) ==
  LET s == Down(LAMBDA x, i :
                  LET p == x.M[i]
                      left == [x.M EXCEPT ![x.l] = Unmark(p)]
                  IN  [M |-> [left EXCEPT ![x.r] = Wrap(p - 1)],
                       l |-> x.l - Bit(p < 0), r |-> x.r - Bit(p > 0)],
                [M |-> M, l |-> m - 1, r |-> F.n + F.fs - 1], m + F.n \div 2 - 1, m)
  IN  Move(s.M, F.n + F.fs - m, m - f, f)

CompactLMS(M, F, m) ==
  LET s == RenumberUnique(M, F, m)
  IN  [M |-> CompactUnique(s.M, F, m, s.f), f |-> s.f]

\* The result of the recursive call: ranks among the gathered suffixes.
Reconstruct(M, F, m) == Overwrite(M, 0, m, LAMBDA i : M[F.n - m + M[i]])

\* The unique suffixes go to their ranks, the others to what is left.
MergeUnique(M, F, m) ==
  Up(LAMBDA s, i : IF Sym(s.M, F, i) < 0
                     THEN [M |-> [s.M EXCEPT ![F.T + i] = Unmark(@), ![s.M[s.at]] = i],
                           at |-> s.at + 1]
                     ELSE s,
     [M |-> M, at |-> F.n - m - 1], 0, F.n - 1).M

MergeNonunique(M, F, m, f) ==
  Up(LAMBDA s, i : IF s.M[i] = 0 THEN [M |-> [s.M EXCEPT ![i] = s.M[s.at]], at |-> s.at + 1]
                                 ELSE s,
     [M |-> M, at |-> F.n - m - 1 + f], 0, m - 1).M

MergeCompacted(M, F, m, f) == MergeNonunique(MergeUnique(M, F, m), F, m, f)

\* Back from the recursive call with f unique suffixes set aside.
Restore(M, F, m, f, gatherCompacted(_, _), gather(_, _)) ==
  LET saved    == Move(M, F.n - m - 1, F.n + F.fs - m, f)
      sorted   == Reconstruct(gatherCompacted(saved, F), F, m - f)
      shifted  == Fill(Move(sorted, F.n - m - 1 + f, 0, m - f), 0, m, 0)
  IN  IF f > 0 THEN MergeCompacted(shifted, F, m, f)
               ELSE Reconstruct(gather(M, F), F, m)

ReconstructCompacted2k(M, F, m, f) ==
  Restore(M, F, m, f, CountAndGatherCompacted2k, CountAndGather2k)
ReconstructCompacted1k(M, F, m, f) ==
  Restore(M, F, m, f, GatherCompacted32s, GatherLMS32s)

-----------------------------------------------------------------------------
\* The m sorted suffixes at the front of SA move to the ends of their buckets,
\* len(c) to the one that ends at end(c), and the rest of SA is cleared.
Place(M, F, m, len(_), end(_)) ==
  LET s == Down(LAMBDA x, c :
                  IF len(c) > 0
                    THEN LET cleared == Fill(x.M, end(c), x.j - end(c), 0)
                         IN  [M |-> Move(cleared, end(c) - len(c), x.m - len(c), len(c)),
                              j |-> end(c) - len(c), m |-> x.m - len(c)]
                    ELSE x,
                [M |-> M, j |-> F.n, m |-> m], F.k - 2, 0)
  IN  Fill(s.M, 0, s.j, 0)

PlaceInterval8u(M, F, m) ==
  Place(M, F, m, LAMBDA c : Table(M, F, 2 * c + 3) - Table(M, F, 2 * c + 1),
        LAMBDA c : Table(M, F, 7 * F.k + c))
PlaceInterval4k(M, F, m) ==
  Place(M, F, m, LAMBDA c : Table(M, F, 2 * c + 3) - Table(M, F, 2 * c + 1),
        LAMBDA c : Table(M, F, 3 * F.k + c))
PlaceInterval2k(M, F, m) ==
  Place(M, F, m, LAMBDA c : Table(M, F, 2 * c + 3) - Table(M, F, 2 * c + 1),
        LAMBDA c : Table(M, F, 2 * c))
PlaceHistogram6k(M, F, m) ==
  Place(M, F, m, LAMBDA c : Table(M, F, 4 * c + 1), LAMBDA c : Table(M, F, 5 * F.k + c))
PlaceHistogram4k(M, F, m) ==
  Place(M, F, m, LAMBDA c : Table(M, F, 2 * c + 1), LAMBDA c : Table(M, F, 3 * F.k + c))
PlaceHistogram2k(M, F, m) ==
  Place(M, F, m, LAMBDA c : Table(M, F, 2 * c + 1), LAMBDA c : Table(M, F, 2 * c))

PlaceInterval1k(M, F, m) ==
  LET s == Down(LAMBDA x, i :
                  LET p   == x.M[i]
                      c   == Sym(M, F, p)
                      end == Table(M, F, c)
                  IN  IF c = x.c THEN [x EXCEPT !.M[x.l - 1] = p, !.l = x.l - 1]
                      ELSE [M |-> [Fill(x.M, end, x.l - end, 0) EXCEPT ![end - 1] = p],
                            l |-> end - 1, c |-> c],
                [M |-> M, l |-> Table(M, F, F.k - 1), c |-> F.k - 1], m - 1, 0)
  IN  Fill(s.M, 0, s.l, 0)

-----------------------------------------------------------------------------
\* The final scans.
FinalStep(M, F, i, put(_, _, _), slots, marks(_, _), seen) ==
  LET x == M[i]
      p == x - 1
      c == Sym(M, F, p)
      before == Sym(M, F, p - Bit(p > 0))
      M1 == [M EXCEPT ![i] = seen]
  IN  IF x > 0 THEN put(M1, slots + c, Mark(p, marks(before, c))) ELSE M1

FinalLtoR(M, F, slots, from, to) ==
  Up(LAMBDA x, i : FinalStep(x, F, i, PutUp, slots, Less, Flip(x[i])), M, from, to - 1)
FinalRtoL(M, F, slots, from, to) ==
  Down(LAMBDA x, i : FinalStep(x, F, i, PutDown, slots, Greater, Unmark(x[i])), M, from, to)

\* The last suffix, which no other one induces.
PutLast(M, F, slots) ==
  LET c == Sym(M, F, F.n - 1)
  IN  PutUp(M, slots + c, Mark(F.n - 1, Sym(M, F, F.n - 2) < c))

\* A mutant of FinalLtoR8uAll that scans the entry behind SA too.
FinalLtoR8uAllBehind(M, F) ==
  FinalLtoR(PutLast(M, F, F.B + 6 * F.k), F, F.B + 6 * F.k, 0, F.n + 1)

FinalLtoR8uAll(M, F)  == FinalLtoR(PutLast(M, F, F.B + 6 * F.k), F, F.B + 6 * F.k, 0, F.n)
FinalRtoL8uAll(M, F)  == FinalRtoL(M, F, F.B + 7 * F.k, F.n - 1, 0)
FinalLtoR32sAll(M, F, slots) == FinalLtoR(PutLast(M, F, slots), F, slots, 0, F.n)

InduceFinal8u(M, F) == FinalRtoL8uAll(FinalLtoR8uAll(M, F), F)
InduceFinal6k(M, F) ==
  FinalRtoL(FinalLtoR32sAll(M, F, F.B + 4 * F.k), F, F.B + 5 * F.k, F.n - 1, 0)
InduceFinal4k(M, F) ==
  FinalRtoL(FinalLtoR32sAll(M, F, F.B + 2 * F.k), F, F.B + 3 * F.k, F.n - 1, 0)
InduceFinal2k(M, F) == FinalRtoL(FinalLtoR32sAll(M, F, F.B + F.k), F, F.B, F.n - 1, 0)
\* A mutant of InduceFinal1k whose second scan uses the table the first has moved.
InduceFinal1kStale(M, F) ==
  FinalRtoL(FinalLtoR32sAll(Start1k(CountSuffixes32s(M, F), F), F, F.B), F, F.B, F.n - 1, 0)

InduceFinal1k(M, F) ==
  LET up == FinalLtoR32sAll(Start1k(CountSuffixes32s(M, F), F), F, F.B)
  IN  FinalRtoL(End1k(CountSuffixes32s(up, F), F), F, F.B, F.n - 1, 0)
=============================================================================

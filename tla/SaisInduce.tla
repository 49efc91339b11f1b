----------------------------- MODULE SaisInduce -----------------------------
(***************************************************************************)
(* The induction scans of libsais.c.  The order of the LMS substrings (the *)
(* partial sorts) and of all suffixes (the final sorts) is induced from    *)
(* entries already in place: a scan from left to right puts the suffix one *)
(* position earlier, if it is of type L, at the start of its bucket, one   *)
(* from right to left those of type S at the end of theirs.  A scan meets  *)
(* the entries it has itself put ahead of it.                              *)
(*                                                                         *)
(* The state of a partial scan is s: the memory s.M and the number s.d of  *)
(* the group of equal substrings the scan is in.  An entry that is induced *)
(* from another group than the last one of its bucket gets the mark that   *)
(* starts a new group.                                                     *)
(***************************************************************************)
EXTENDS SaisBuckets

\* Entry p goes to SA at the position in table entry slot, which moves on:
\* SA[slot++] = p and SA[--slot] = p.
PutUp(M, slot, p)   == [M EXCEPT ![M[slot]] = p, ![slot] = M[slot] + 1]
PutDown(M, slot, p) == [M EXCEPT ![M[slot] - 1] = p, ![slot] = M[slot] - 1]

\* A scan step of the tables that keep the L and S suffixes of a symbol apart:
\* v is the entry of suffix p - 1, name the table entry with its last group.
\* Every entry scanned is a suffix.
InduceNamed(s, i, put(_, _, _), slot(_), name(_), v(_)) ==
  LET x == s.M[i]
      p == Unmark(x)
      d == s.d + Bit(x < 0)
      new == s.M[name(v(p))] # d
  IN  [M |-> [put(s.M, slot(v(p)), Mark(p - 1, new)) EXCEPT ![name(v(p))] = d], d |-> d]

\* One of the tables with one slot for a symbol: entries that are marked are of
\* the other type and wait; an entry that has induced another is cleared.  keep
\* says whether the scan takes the mark from those that wait.
InduceGrouped(s, i, put(_, _, _), F, slots, marks(_, _), keep) ==
  LET x  == s.M[i]
      p  == Ungroup(x)
      d  == s.d + InGroup(x)
      c  == Sym(s.M, F, p - 1)
      other == marks(Sym(s.M, F, p - 2), c)
      name  == F.B + 2 * c + Bit(other)
      entry == Mark(p - 1 + (IF s.M[name] # d THEN Group ELSE 0), other)
  IN  IF x > 0
        THEN [M |-> [put([s.M EXCEPT ![i] = 0], slots + c, entry) EXCEPT ![name] = d],
              d |-> d]
        ELSE [s EXCEPT !.M[i] = IF keep THEN x ELSE Unmark(x)]

InduceBare(M, i, put(_, _, _), F, slots, marks(_, _), keep) ==
  LET p == M[i]
      c == Sym(M, F, p - 1)
  IN  IF p > 0
        THEN put([M EXCEPT ![i] = 0], slots + c, Mark(p - 1, marks(Sym(M, F, p - 2), c)))
        ELSE [M EXCEPT ![i] = IF keep THEN p ELSE Unmark(p)]

Less(a, b)    == a < b
Greater(a, b) == a > b

\* The table entries of suffix p - 1: larger or equal (left to right), larger
\* (right to left) than its successor, seen from the symbol before it.
VGeq(M, F, w, p) == w * Sym(M, F, p - 1) + Bit(Sym(M, F, p - 2) >= Sym(M, F, p - 1))
VGt(M, F, w, p)  == w * Sym(M, F, p - 1) + Bit(Sym(M, F, p - 2) > Sym(M, F, p - 1))

-----------------------------------------------------------------------------
\* Partial sorts from left to right: first the last suffix, which no other one
\* induces, then the scan.
PartialLtoR8u(s, F, from, to) ==
  Up(LAMBDA x, i : InduceNamed(x, i, PutUp, LAMBDA v : F.B + 4 * F.k + v,
                     LAMBDA v : F.B + 2 * F.k + v, LAMBDA p : VGeq(x.M, F, 2, p)),
     s, from, to - 1)

PartialLtoR8uAll(M, F, left) ==
  LET v == VGeq(M, F, 2, F.n)
      M1 == PutUp(M, F.B + 4 * F.k + v, Mark(F.n - 1, TRUE))
  IN  PartialLtoR8u([M |-> [M1 EXCEPT ![F.B + 2 * F.k + v] = 1], d |-> 1], F, 0, left)

PartialLtoR6k(s, F, from, to) ==
  Up(LAMBDA x, i : InduceNamed(x, i, PutUp, LAMBDA v : F.B + v,
                     LAMBDA v : F.B + 2 + v, LAMBDA p : VGeq(x.M, F, 4, p)),
     s, from, to - 1)

PartialLtoR6kAll(M, F, left) ==
  LET v == VGeq(M, F, 4, F.n)
      M1 == PutUp(M, F.B + v, Mark(F.n - 1, TRUE))
  IN  PartialLtoR6k([M |-> [M1 EXCEPT ![F.B + 2 + v] = 1], d |-> 1], F, 0, left)

PartialLtoR4k(s, F, from, to) ==
  Up(LAMBDA x, i : InduceGrouped(x, i, PutUp, F, F.B + 2 * F.k, Less, FALSE),
     s, from, to - 1)

LastGrouped(M, F) ==
  LET c     == Sym(M, F, F.n - 1)
      other == Sym(M, F, F.n - 2) < c
      M1    == PutUp(M, F.B + 2 * F.k + c, Mark(F.n - 1 + Group, other))
  IN  [M |-> [M1 EXCEPT ![F.B + 2 * c + Bit(other)] = 1], d |-> 1]

PartialLtoR4kAll(M, F) == PartialLtoR4k(LastGrouped(M, F), F, 0, F.n)

PartialLtoR1k(M, F, slots, from, to) ==
  Up(LAMBDA x, i : InduceBare(x, i, PutUp, F, slots, Less, FALSE), M, from, to - 1)

LastBare(M, F, slots) ==
  LET c == Sym(M, F, F.n - 1)
  IN  PutUp(M, slots + c, Mark(F.n - 1, Sym(M, F, F.n - 2) < c))

PartialLtoR1kAll(M, F, slots) == PartialLtoR1k(LastBare(M, F, slots), F, slots, 0, F.n)

-----------------------------------------------------------------------------
\* Between the scans the marks move from the first entry of a group to the last.
ShiftMarks(M, from, to) ==
  Down(LAMBDA s, i :
         LET p == s.M[i]
         IN  [M    |-> [s.M EXCEPT ![i] = Mark(Unmark(p), s.mark)],
              mark |-> p < 0],
       [M |-> M, mark |-> TRUE], from, to).M

ShiftMarkers8u(M, F) ==
  Down(LAMBDA x, c : ShiftMarks(x, x[F.B + 4 * F.k + 2 * c] - 1, x[F.B + 2 * (c - 1)]),
       M, F.k - 1, 1)

ShiftMarkers6k(M, F) ==
  Down(LAMBDA x, c : ShiftMarks(x, x[F.B + 4 * c] - 1, x[F.B + 4 * F.k + 2 * (c - 1)]),
       M, F.k - 1, 1)

ShiftMarkers4k(M, F) ==
  Down(LAMBDA s, i :
         LET p == s.M[i]
         IN  IF p > 0 THEN [M |-> [s.M EXCEPT ![i] = Ungroup(p) + s.group],
                            group |-> InGroup(p) * Group]
                      ELSE s,
       [M |-> M, group |-> Group], F.n - 1, 0).M

-----------------------------------------------------------------------------
\* Partial sorts from right to left.
PartialRtoL8u(s, F, from, to) ==
  Down(LAMBDA x, i : InduceNamed(x, i, PutDown, LAMBDA v : F.B + v,
                       LAMBDA v : F.B + 2 * F.k + v, LAMBDA p : VGt(x.M, F, 2, p)),
       s, from, to)

PartialRtoL8uAll(s, F, first, left) == PartialRtoL8u(s, F, F.n - first - 1, left + 1)

PartialRtoL6k(s, F, from, to) ==
  Down(LAMBDA x, i : InduceNamed(x, i, PutDown, LAMBDA v : F.B + v,
                       LAMBDA v : F.B + 2 + v, LAMBDA p : VGt(x.M, F, 4, p)),
       s, from, to)

PartialRtoL6kAll(s, F, first, left) == PartialRtoL6k(s, F, F.n - first - 1, left + 1)

PartialRtoL4k(s, F, from, to) ==
  Down(LAMBDA x, i : InduceGrouped(x, i, PutDown, F, F.B + 3 * F.k, Greater, TRUE),
       s, from, to)

PartialRtoL1k(M, F, slots, from, to) ==
  Down(LAMBDA x, i : InduceBare(x, i, PutDown, F, slots, Greater, TRUE), M, from, to)

\* The marked entries move to the front.
GatherMarked(M, n, clean(_)) ==
  Up(LAMBDA s, i : LET x == s.M[i]
                   IN  [M |-> [s.M EXCEPT ![s.l] = clean(x)], l |-> s.l + Bit(x < 0)],
     [M |-> M, l |-> 0], 0, n - 1).M

\* (s - SUFFIX_GROUP_MARKER) & ~SUFFIX_GROUP_MARKER: without the group bit, the
\* mark stays on what starts a group.
CleanGroup(x) ==
  LET y == x - Group
  IN  IF y < -Half THEN Ungroup(y + 2 * Half) ELSE Mark(Ungroup(Unmark(y)), y < 0)

GatherMarked4k(M, F) == GatherMarked(M, F.n, CleanGroup)
GatherMarked1k(M, F) == GatherMarked(M, F.n, Unmark)
-----------------------------------------------------------------------------
\* The partial sorts as a whole.
InducePartial8u(M, F, first, left) ==
  LET up      == PartialLtoR8uAll(Fill(M, F.B + 2 * F.k, 2 * F.k, 0), F, left)
      shifted == [up EXCEPT !.M = ShiftMarkers8u(up.M, F)]
  IN  PartialRtoL8uAll(shifted, F, first, left).M

InducePartial6k(M, F, first, left) ==
  LET up      == PartialLtoR6kAll(M, F, left)
      shifted == [up EXCEPT !.M = ShiftBuckets6k(ShiftMarkers6k(up.M, F), F)]
  IN  PartialRtoL6kAll(shifted, F, first, left).M

InducePartial4k(M, F) ==
  LET up      == PartialLtoR4kAll(Fill(M, F.B, 2 * F.k, 0), F)
      shifted == [up EXCEPT !.M = ShiftMarkers4k(up.M, F)]
  IN  GatherMarked4k(PartialRtoL4k(shifted, F, F.n - 1, 0).M, F)

InducePartial2k(M, F) ==
  GatherMarked1k(PartialRtoL1k(PartialLtoR1kAll(M, F, F.B + F.k), F, F.B, F.n - 1, 0), F)

InducePartial1k(M, F) ==
  LET up == PartialLtoR1kAll(Start1k(CountSuffixes32s(M, F), F), F, F.B)
  IN  GatherMarked1k(PartialRtoL1k(End1k(CountSuffixes32s(up, F), F), F, F.B, F.n - 1, 0), F)

=============================================================================

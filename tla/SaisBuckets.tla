---------------------------- MODULE SaisBuckets ----------------------------
(***************************************************************************)
(* Counting of suffixes and the bucket tables of libsais.c.  F is the      *)
(* frame of a call: text F.T of F.n symbols below F.k, table F.B.          *)
(*                                                                         *)
(* BUCKETS_INDEX2(c, s) is 2c + s, BUCKETS_INDEX4(c, s) is 4c + s.  The    *)
(* tables of main_8u have eight entries per byte value, those of main_32s  *)
(* six, four, two or one per symbol, as many as fit behind SA.             *)
(***************************************************************************)
EXTENDS SaisMemory

\* Gathering writes the LMS positions in ascending order to the end of SA; the
\* loop also leaves the last position it looked at in the entry before them.
Gather(M, F, taken, last) ==
  LET pos == Ascending(taken)
      m   == Cardinality(taken)
  IN  [a \in DOMAIN M |->
         IF a \in F.n - m .. F.n - 1 THEN pos[a - (F.n - m)]
         ELSE IF a = F.n - 1 - m THEN last ELSE M[a]]

LMSPositions(M, F) == LET L == TypeL(M, F) IN {p \in 0 .. F.n - 1 : IsLMS(L, p)}

\* Counting clears the table and counts the positions by a key.
Count(M, F, size, key(_)) ==
  Overwrite(M, F.B, size, LAMBDA e : Cardinality({p \in 0 .. F.n - 1 : key(p) = e}))

-----------------------------------------------------------------------------
\* The passes over the text.
GatherLMS8u(M, F)  == Gather(M, F, LMSPositions(M, F), 0)
GatherLMS32s(M, F) == Gather(M, F, LMSPositions(M, F), 1)

\* In a compacted text the unique LMS suffixes carry a mark and are left out:
\* (s & 3) == (c1 >= 0).
UnmarkedLMS(M, F) ==
  LET L == TypeL(M, F)
  IN  {p \in 0 .. F.n - 1 : ClassIn(L, p) = Bit(Sym(M, F, p) >= 0)}

GatherCompacted32s(M, F) == Gather(M, F, UnmarkedLMS(M, F), 1)

CountAndGather8u(M, F) ==
  LET L == TypeL(M, F)
  IN  Gather(Count(M, F, 4 * F.k, LAMBDA p : 4 * Sym(M, F, p) + ClassIn(L, p)),
             F, LMSPositions(M, F), 0)

CountAndGather4k(M, F) ==
  LET L == TypeL(M, F)
  IN  Gather(Count(M, F, 4 * F.k, LAMBDA p : 4 * Sym(M, F, p) + ClassIn(L, p)),
             F, LMSPositions(M, F), 0)

CountLMS2k(M, F) ==
  LET L == TypeL(M, F)
  IN  Count(M, F, 2 * F.k, LAMBDA p : 2 * Sym(M, F, p) + Bit(IsLMS(L, p)))

CountAndGather2k(M, F) == Gather(CountLMS2k(M, F), F, LMSPositions(M, F), 0)

CountAndGatherCompacted2k(M, F) ==
  LET L == TypeL(M, F)
      counted == Count(M, F, 2 * F.k,
                   LAMBDA p : 2 * Unmark(Sym(M, F, p)) + Bit(IsLMS(L, p)))
  IN  Gather(counted, F, UnmarkedLMS(M, F), 0)

CountSuffixes32s(M, F) == Count(M, F, F.k, LAMBDA p : Sym(M, F, p))

-----------------------------------------------------------------------------
\* Starts and ends of buckets.  Each is a loop over the symbols with running
\* sums; the entries are read before the loop overwrites them.
Table(M, F, e) == M[F.B + e]

\* The suffixes of symbol c, in a table of four and of two entries a symbol.
All4(M, F, c) == Table(M, F, 4 * c) + Table(M, F, 4 * c + 1)
                 + Table(M, F, 4 * c + 2) + Table(M, F, 4 * c + 3)
All2(M, F, c) == Table(M, F, 2 * c) + Table(M, F, 2 * c + 1)

\* Starts at entry from of the table, ends at entry from + k.
StartAndEnd(M, F, from, all(_)) ==
  Overwrite(M, F.B + from, 2 * F.k,
            LAMBDA e : IF e < F.k THEN Below(all, e) ELSE Below(all, e - F.k + 1))

StartAndEnd8u(M, F) == StartAndEnd(M, F, 6 * F.k, LAMBDA c : All4(M, F, c))
StartAndEnd6k(M, F) == StartAndEnd(M, F, 4 * F.k, LAMBDA c : All4(M, F, c))
StartAndEnd4k(M, F) == StartAndEnd(M, F, 2 * F.k, LAMBDA c : All2(M, F, c))

End2k(M, F) ==
  Overwrite(M, F.B, 2 * F.k,
            LAMBDA e : IF e % 2 = 0 THEN Below(LAMBDA c : All2(M, F, c), e \div 2 + 1)
                                    ELSE Table(M, F, e))

StartAndEnd2k(M, F) ==
  Overwrite(M, F.B, 2 * F.k,
            LAMBDA e : IF e < F.k THEN Table(M, F, 2 * e)
                       ELSE IF e = F.k THEN 0 ELSE Table(M, F, 2 * (e - F.k - 1)))

Start1k(M, F) == Overwrite(M, F.B, F.k, LAMBDA e : Below(LAMBDA c : Table(M, F, c), e))
End1k(M, F)   == Overwrite(M, F.B, F.k, LAMBDA e : Below(LAMBDA c : Table(M, F, c), e + 1))

-----------------------------------------------------------------------------
\* Tables for sorting the LMS suffixes by their first symbol.  The suffixes up
\* to the first LMS suffix are taken out of the counts: no induced order
\* reaches them.
WithoutFirst4(M, F, first) ==
  LET L == TypeL(M, F)
  IN  Overwrite(M, F.B, 4 * F.k,
        LAMBDA e : Table(M, F, e) -
          Cardinality({p \in 0 .. first : 4 * Sym(M, F, p) + ClassIn(L, p) = e}))

\* What precedes an LMS suffix or is one: the classes with type L before.
AfterL(M, F, c) == Table(M, F, 4 * c + 1) + Table(M, F, 4 * c + 3)

\* The two forms that also return the number of suffixes in the buckets.
RadixInit8u(M, F, first) ==
  LET counts == WithoutFirst4(M, F, first)
      all(c) == AfterL(counts, F, c)
  IN  [M |-> Overwrite(counts, F.B + 4 * F.k, 2 * F.k,
               LAMBDA e : Below(all, e \div 2 + (IF e % 2 = 0 THEN 1 ELSE 0))),
       left |-> Below(all, F.k)]

RadixInit6k(M, F, first) ==
  LET counts == WithoutFirst4(M, F, first)
      all(c) == AfterL(counts, F, c)
  IN  [M |-> Overwrite(counts, F.B + 4 * F.k, F.k, LAMBDA e : Below(all, e + 1)),
       left |-> Below(all, F.k)]

\* The first LMS suffix no longer counts as one.
DemoteFirst(M, F, first) ==
  LET e == F.B + 2 * Sym(M, F, first)
  IN  [M EXCEPT ![e] = @ + 1, ![e + 1] = @ - 1]

RadixInit2k(M, F, first) ==
  LET counts == DemoteFirst(M, F, first)
      upto(val(_), e) == Below(val, e \div 2 + 1)
  IN  Overwrite(counts, F.B, 2 * F.k,
        LAMBDA e : IF e % 2 = 0 THEN upto(LAMBDA c : All2(counts, F, c), e)
                   ELSE upto(LAMBDA c : Table(counts, F, 2 * c + 1), e))

RadixAndPartialInit4k(M, F, first) ==
  LET counts == DemoteFirst(M, F, first)
  IN  StartAndEnd(
        Overwrite(counts, F.B, 2 * F.k,
          LAMBDA e : IF e % 2 = 0 THEN Table(counts, F, e)
                     ELSE Below(LAMBDA c : Table(counts, F, 2 * c + 1), e \div 2 + 1)),
        F, 2 * F.k, LAMBDA c : All2(counts, F, c))

-----------------------------------------------------------------------------
\* Tables for inducing the order of the LMS substrings.
PartialInit8u(M, F, first, left) ==
  LET e == F.B + 4 * Sym(M, F, first) + 1
      counts == [M EXCEPT ![e] = @ + 1]
      upto(c) == left + 1 + Below(LAMBDA d : Table(counts, F, 4 * d)
                                             + Table(counts, F, 4 * d + 2), c)
      temp == Overwrite(counts, F.B + 4 * F.k, 2 * F.k,
                LAMBDA j : IF j % 2 = 0 THEN upto(j \div 2) ELSE Table(counts, F, 4 * F.k + j))
  IN  Overwrite(temp, F.B, 2 * F.k,
        LAMBDA j : IF j % 2 = 0 THEN upto(j \div 2 + 1)
                   ELSE Below(LAMBDA d : Table(counts, F, 4 * d + 1), j \div 2 + 1))

PartialInit6k(M, F, first, left) ==
  LET SS_SL(c) == Table(M, F, 4 * c) + Table(M, F, 4 * c + 2)
      LS(c)    == Table(M, F, 4 * c + 1)
      LS_LL(c) == LS(c) + Table(M, F, 4 * c + 3)
      sum0(c)  == left + 1 + Below(SS_SL, c)
      sum1(c)  == Below(LS, c) + Bit(c > Sym(M, F, first))
      main     == Overwrite(M, F.B, 4 * F.k,
                    LAMBDA e : CASE e % 4 = 0 -> sum0(e \div 4)
                                 [] e % 4 = 1 -> Below(LS_LL, e \div 4)
                                 [] OTHER     -> 0)
  IN  Overwrite(main, F.B + 4 * F.k, 2 * F.k,
        LAMBDA j : IF j % 2 = 0 THEN sum0(j \div 2 + 1) ELSE sum1(j \div 2 + 1))

ShiftBuckets6k(M, F) ==
  Overwrite(M, F.B, 4 * F.k,
    LAMBDA e : IF e % 4 < 2 THEN Table(M, F, 4 * F.k + 2 * (e \div 4) + (e % 4))
                            ELSE Table(M, F, e))
=============================================================================

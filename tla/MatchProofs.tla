---------------------------- MODULE MatchProofs ----------------------------
(***************************************************************************)
(* Proofs about modules Match and MatchSearch, for files of every size,    *)
(* bytes of every range and every margin.  The first part is about the     *)
(* matcher, whatever its search answers; the second one shows that the     *)
(* matcher with its binary search implements it, for every entry behind    *)
(* the suffix array that is not negative.                                  *)
(***************************************************************************)
EXTENDS MatchSearch, FiniteSetTheorems, SequenceTheorems, WellFoundedInduction, TLAPS

-----------------------------------------------------------------------------
(***************************************************************************)
(* The codec.                                                              *)
(***************************************************************************)
\* ri64 gives back what wi64 wrote, the negative numbers included.
THEOREM Ri64OfWi64 ==
  ASSUME NEW x \in Int64
  PROVE  Wi64(x) \in Word /\ Ri64(Wi64(x)) = x
BY HalfAssumption DEF Int64, Word, Wi64, Ri64

-----------------------------------------------------------------------------
(***************************************************************************)
(* Counting.                                                               *)
(***************************************************************************)
\* Counting some of the numbers of an interval gives a natural number, at most
\* the length of the interval.
LEMMA CountInInterval ==
  ASSUME NEW a \in Int, NEW b \in Int, NEW Them \in SUBSET (a .. b)
  PROVE  /\ Cardinality(Them) \in Nat
         /\ Cardinality(Them) <= (IF a > b THEN 0 ELSE b - a + 1)
<1>1. IsFiniteSet(a .. b) /\ Cardinality(a .. b) = IF a > b THEN 0 ELSE b - a + 1
  BY FS_Interval
<1>2. IsFiniteSet(Them) /\ Cardinality(Them) <= Cardinality(a .. b)
  BY <1>1, FS_Subset
<1>3. Cardinality(Them) \in Nat
  BY <1>2, FS_CardinalityType
<1>. QED
  BY <1>1, <1>2, <1>3

\* The number of bytes that agree in a stretch of k is between 0 and k.
LEMMA AgreeingType ==
  ASSUME NEW o, NEW n, NEW k \in Nat
  PROVE  Agreeing(o, n, k) \in 0 .. k
<1>. DEFINE Them == {i \in 0 .. k - 1 : old[o + i] = new[n + i]}
<1>1. Them \in SUBSET (0 .. k - 1) /\ k - 1 \in Int /\ 0 \in Int
  OBVIOUS
<1>.  HIDE DEF Them
<1>2. Cardinality(Them) \in Nat /\ Cardinality(Them) <= (IF 0 > k - 1 THEN 0 ELSE k - 1 - 0 + 1)
  BY <1>1, CountInInterval
<1>. QED
  BY <1>2 DEF Agreeing, Them

-----------------------------------------------------------------------------
(***************************************************************************)
(* The best length.                                                        *)
(***************************************************************************)
\* A set of natural numbers that is not empty has a least element.
LEMMA LeastNatural ==
  ASSUME NEW T \in SUBSET Nat, T # {}
  PROVE  \E x \in T : \A y \in T : x <= y
<1>1. PICK x \in T : \A y \in T : ~ (<<y, x>> \in OpToRel(<, Nat))
  BY NatLessThanWellFounded, WFMin
<1>2. OpToRel(<, Nat) = {p \in Nat \X Nat : p[1] < p[2]}
  BY Zenon DEF OpToRel
<1>3. ASSUME NEW y \in T PROVE x <= y
  <2>1. <<y, x>> \notin {p \in Nat \X Nat : p[1] < p[2]}
    BY <1>1, <1>2
  <2>. QED
    BY <2>1
<1>. QED
  BY <1>3

\* BestLength has a value: for some length of 0 .. m, and for the shortest of
\* several, no other length of 0 .. m has a better score.
LEMMA BestExists ==
  ASSUME NEW n \in Nat, NEW score \in [0 .. n -> Int], NEW m \in 0 .. n
  PROVE  \E k \in 0 .. m : \A j \in 0 .. m :
           score[j] < score[k] \/ (score[j] = score[k] /\ k <= j)
<1>. DEFINE Best(k, l) == \A j \in 0 .. l :
              score[j] < score[k] \/ (score[j] = score[k] /\ k <= j)
            Without == {l \in 0 .. n : \A k \in 0 .. l : ~Best(k, l)}
<1>. SUFFICES ASSUME Without # {} PROVE FALSE
  OBVIOUS
<1>1. PICK l \in Without : \A i \in Without : l <= i
  <2>1. Without \in SUBSET Nat
    OBVIOUS
  <2>. HIDE DEF Without
  <2>. QED
    BY <2>1, LeastNatural
<1>2. l \in 0 .. n /\ \A k \in 0 .. l : ~Best(k, l)
  BY <1>1
<1>3. l # 0
  BY <1>2
<1>4. l - 1 \in 0 .. n /\ l - 1 \notin Without
  <2>1. l - 1 \in 0 .. n
    BY <1>2, <1>3
  <2>2. CASE l - 1 \in Without
    <3>1. l <= l - 1
      BY <1>1, <2>2
    <3>. QED
      BY <3>1, <1>2
  <2>. QED
    BY <2>1, <2>2
<1>5. PICK k \in 0 .. l - 1 : Best(k, l - 1)
  BY <1>4
<1>6. \A j \in 0 .. l : score[j] \in Int /\ (j = l \/ j \in 0 .. l - 1)
  BY <1>2
<1>7. k \in 0 .. l /\ l \in 0 .. l
  BY <1>2, <1>5
<1>8. CASE score[l] > score[k]
  <2>1. ASSUME NEW j \in 0 .. l
        PROVE  score[j] < score[l] \/ (score[j] = score[l] /\ l <= j)
    <3>1. CASE j = l
      BY <1>2, <3>1
    <3>2. CASE j \in 0 .. l - 1
      <4>1. score[j] < score[k] \/ score[j] = score[k]
        BY <1>5, <3>2
      <4>2. score[j] \in Int /\ score[k] \in Int /\ score[l] \in Int
        BY <1>6, <1>7
      <4>. QED
        BY <1>8, <4>1, <4>2
    <3>. QED
      BY <1>6, <3>1, <3>2
  <2>2. Best(l, l)
    BY <2>1
  <2>. HIDE DEF Best
  <2>. QED
    BY <1>2, <1>7, <2>2
<1>9. CASE ~ (score[l] > score[k])
  <2>1. ASSUME NEW j \in 0 .. l
        PROVE  score[j] < score[k] \/ (score[j] = score[k] /\ k <= j)
    BY <1>2, <1>5, <1>6, <1>7, <1>9
  <2>2. Best(k, l)
    BY <2>1
  <2>. HIDE DEF Best
  <2>. QED
    BY <1>2, <1>7, <2>2
<1>. QED
  BY <1>8, <1>9

\* BestLength returns a length that was considered, and none has a better score.
LEMMA BestLengthSpec ==
  ASSUME NEW n \in Nat, NEW score \in [0 .. n -> Int]
  PROVE  /\ BestLength(score) \in 0 .. n
         /\ \A j \in 0 .. n : score[j] <= score[BestLength(score)]
<1>. DEFINE Q(k) == \A j \in 0 .. n :
                      score[j] < score[k] \/ (score[j] = score[k] /\ k <= j)
<1>1. \E k \in 0 .. n : Q(k)
  <2>1. n \in 0 .. n
    OBVIOUS
  <2>. QED
    BY <2>1, BestExists
<1>2. BestLength(score) = CHOOSE k \in 0 .. n : Q(k)
  BY DEF BestLength
<1>. HIDE DEF Q
<1>3. BestLength(score) \in 0 .. n /\ Q(BestLength(score))
  BY <1>1, <1>2
<1>. QED
  BY <1>3 DEF Q

-----------------------------------------------------------------------------
(***************************************************************************)
(* The lengths of a record.                                                *)
(***************************************************************************)
\* The forward extension stays inside what is left of both files.
LEMMA ForwardType ==
  ASSUME TypeOK, StreamsFit
  PROVE  /\ FuzzyForward \in Nat
         /\ FuzzyForward <= new_pos - last_new_pos
         /\ FuzzyForward <= old_size - last_old_pos
<1>. DEFINE limit == MinOf(new_pos - last_new_pos, old_size - last_old_pos)
            score == [k \in 0 .. limit |->
                        2 * Agreeing(last_old_pos, last_new_pos, k) - k]
<1>1. /\ limit \in Nat
      /\ limit <= new_pos - last_new_pos
      /\ limit <= old_size - last_old_pos
  BY MatchAssumption, HalfAssumption DEF TypeOK, StreamsFit, MinOf
<1>2. FuzzyForward = BestLength(score)
  BY DEF FuzzyForward
<1>. HIDE DEF limit
<1>3. score \in [0 .. limit -> Int]
  <2>1. \A k \in 0 .. limit : Agreeing(last_old_pos, last_new_pos, k) \in 0 .. k
    BY <1>1, AgreeingType
  <2>. QED
    BY <1>1, <2>1
<1>. HIDE DEF score
<1>4. BestLength(score) \in 0 .. limit
  BY <1>1, <1>3, BestLengthSpec
<1>. QED
  BY <1>1, <1>2, <1>4, MatchAssumption, HalfAssumption DEF TypeOK

\* The backward extension stays behind both the last record and the start of
\* old, and there is none at the end of new.
LEMMA BackwardType ==
  ASSUME TypeOK, StreamsFit
  PROVE  /\ FuzzyBackward \in Nat
         /\ FuzzyBackward <= new_pos - last_new_pos
         /\ FuzzyBackward <= old_pos
         /\ new_pos = new_size => FuzzyBackward = 0
<1>. DEFINE limit == IF new_pos < new_size
                     THEN MinOf(new_pos - last_new_pos, old_pos) ELSE 0
            score == [k \in 0 .. limit |->
                        2 * Agreeing(old_pos - k, new_pos - k, k) - k]
<1>1. /\ limit \in Nat
      /\ limit <= new_pos - last_new_pos
      /\ limit <= old_pos
      /\ new_pos = new_size => limit = 0
  BY MatchAssumption, HalfAssumption DEF TypeOK, StreamsFit, MinOf
<1>2. FuzzyBackward = BestLength(score)
  BY DEF FuzzyBackward
<1>. HIDE DEF limit
<1>3. score \in [0 .. limit -> Int]
  <2>1. \A k \in 0 .. limit : Agreeing(old_pos - k, new_pos - k, k) \in 0 .. k
    BY <1>1, AgreeingType
  <2>. QED
    BY <1>1, <2>1
<1>. HIDE DEF score
<1>4. BestLength(score) \in 0 .. limit
  BY <1>1, <1>3, BestLengthSpec
<1>. QED
  BY <1>1, <1>2, <1>4, MatchAssumption, HalfAssumption DEF TypeOK

\* The shift shares out no more than the overlap.
LEMMA ShiftType ==
  ASSUME Overlap \in Nat
  PROVE  FuzzyShift \in 0 .. Overlap
<1>. DEFINE F == last_old_pos + FuzzyForward - Overlap
            G == last_new_pos + FuzzyForward - Overlap
            H == old_pos - FuzzyBackward
            J == new_pos - FuzzyBackward
            score == [k \in 0 .. Overlap |-> Agreeing(F, G, k) - Agreeing(H, J, k)]
<1>1. FuzzyShift = BestLength(score)
  BY DEF FuzzyShift
<1>. HIDE DEF F, G, H, J
<1>2. \A k \in 0 .. Overlap : Agreeing(F, G, k) \in 0 .. k /\ Agreeing(H, J, k) \in 0 .. k
  BY AgreeingType
<1>3. score \in [0 .. Overlap -> Int]
  BY <1>2
<1>. HIDE DEF score
<1>. QED
  BY <1>1, <1>3, BestLengthSpec

\* The three lengths of a record: the two extensions and the bytes between them
\* make up the stretch of new since the last record, and none is negative.
LEMMA RecordLengths ==
  ASSUME TypeOK, StreamsFit
  PROVE  /\ AddLen \in Nat /\ BackLen \in Nat /\ CopyLen \in Nat
         /\ AddLen + CopyLen + BackLen = new_pos - last_new_pos
         /\ AddLen <= FuzzyForward
         /\ BackLen <= FuzzyBackward
         /\ Overlap \in Int
         /\ Overlap <= FuzzyForward /\ Overlap <= FuzzyBackward
<1>1. /\ new_pos \in Int /\ last_new_pos \in Int
  BY MatchAssumption, HalfAssumption DEF TypeOK
<1>2. /\ FuzzyForward \in Nat /\ FuzzyForward <= new_pos - last_new_pos
      /\ FuzzyBackward \in Nat /\ FuzzyBackward <= new_pos - last_new_pos
  BY ForwardType, BackwardType
<1>3. Overlap = FuzzyForward + FuzzyBackward - (new_pos - last_new_pos) /\ Overlap \in Int
  BY <1>1, <1>2 DEF Overlap
<1>4. CASE Overlap > 0
  <2>1. FuzzyShift \in 0 .. Overlap
    BY <1>3, <1>4, ShiftType
  <2>2. AddLen = FuzzyForward + FuzzyShift - Overlap /\ BackLen = FuzzyBackward - FuzzyShift
    BY <1>4 DEF AddLen, BackLen
  <2>3. AddLen + BackLen = new_pos - last_new_pos
    BY <1>1, <1>2, <1>3, <2>1, <2>2
  <2>. QED
    BY <1>1, <1>2, <1>3, <2>1, <2>2, <2>3 DEF CopyLen
<1>5. CASE ~ (Overlap > 0)
  <2>1. AddLen = FuzzyForward /\ BackLen = FuzzyBackward
    BY <1>5 DEF AddLen, BackLen
  <2>. QED
    BY <1>1, <1>2, <1>3, <1>5, <2>1 DEF CopyLen
<1>. QED
  BY <1>4, <1>5

-----------------------------------------------------------------------------
(***************************************************************************)
(* The inductive invariant.                                                *)
(***************************************************************************)
\* A difference of bytes is a byte.
LEMMA DifferenceIsByte ==
  ASSUME NEW x \in Int
  PROVE  x % ByteRange \in Byte
BY MatchAssumption DEF Byte

\* The score counts bytes.
LEMMA ScoreType ==
  ASSUME TypeOK, NEW len \in Nat
  PROVE  ScoreUpTo(len) \in Int
<1>. DEFINE Them == {i \in new_peek .. new_pos + len - 1 : MatchesLast(i)}
<1>1. new_peek \in Int /\ new_pos + len - 1 \in Int /\ old_score \in Int
  BY MatchAssumption, HalfAssumption DEF TypeOK
<1>2. Them \in SUBSET (new_peek .. new_pos + len - 1)
  OBVIOUS
<1>. HIDE DEF Them
<1>3. Cardinality(Them) \in Nat
  BY <1>1, <1>2, CountInInterval
<1>. QED
  BY <1>1, <1>3 DEF ScoreUpTo, Them

\* The sizes are integers, and positive.
LEMMA SizesType ==
  ASSUME TypeOK
  PROVE  /\ old_size \in 1 .. Half - 1 /\ new_size \in 1 .. Half - 1
         /\ old_size \in Nat \ {0} /\ new_size \in Nat \ {0} /\ Half \in Nat
BY MatchAssumption, HalfAssumption DEF TypeOK

\* Nothing is accounted for at the start.
LEMMA InitEstablishes == Init => MatchInv
<1>. SUFFICES ASSUME Init PROVE MatchInv
  OBVIOUS
<1>. USE DEF Init
<1>1. old_size \in Nat \ {0} /\ new_size \in Nat \ {0}
  BY MatchAssumption, HalfAssumption
<1>2. TypeOK
  BY <1>1 DEF TypeOK, EmptyArray, Records
<1>. QED
  BY <1>1, <1>2 DEF MatchInv, StreamsFit, RoomForMatch, OffsetsInside,
                    CoveredAtEnd, LengthsNonNegative

\* The head of the outer loop moves behind the match that was found.
LEMMA NextMatchPreserves == MatchInv /\ NextMatch => MatchInv'
<1>. SUFFICES ASSUME MatchInv, NextMatch PROVE MatchInv'
  OBVIOUS
<1>. USE DEF MatchInv, NextMatch, ResumeAt, PeekFrom, files, last, streams
<1>1. new_pos + match_len <= new_size /\ match_len \in Nat /\ new_pos \in Nat
  BY SizesType DEF TypeOK, RoomForMatch
<1>2. new_size \in Nat /\ new_pos' = new_pos + match_len /\ new_pos' \in 0 .. new_size
  BY <1>1, SizesType
<1>3. TypeOK'
  BY <1>1, <1>2 DEF TypeOK
<1>4. StreamsFit'
  BY <1>1, <1>2, SizesType DEF StreamsFit, TypeOK
<1>5. OffsetsInside'
  BY <1>1, <1>2 DEF OffsetsInside, TypeOK
<1>6. LengthsNonNegative'
  BY DEF LengthsNonNegative
<1>. QED
  BY <1>2, <1>3, <1>4, <1>5, <1>6 DEF RoomForMatch, CoveredAtEnd

\* A turn of the scan, which ends it or takes it one byte on, for any answer of
\* the search.
LEMMA ScanPreserves ==
  ASSUME MatchInv, NEW r \in SearchResults, StopScan(r) \/ Advance(r)
  PROVE  MatchInv'
<1>. USE DEF MatchInv
<1>1. /\ r.pos \in 0 .. old_size - 1
      /\ r.len \in 0 .. old_size
      /\ r.len <= new_size - new_pos
  BY SizesType DEF SearchResults, MinOf, TypeOK
<1>2. r.len \in Nat /\ new_pos \in Nat /\ new_size \in Nat /\ new_peek \in Nat /\ last_offset \in Int
  BY <1>1, SizesType DEF TypeOK
<1>3. ScoreUpTo(r.len) \in Int
  BY <1>2, ScoreType
<1>4. MaxOf(new_peek, new_pos + r.len) \in Nat /\ new_peek <= MaxOf(new_peek, new_pos + r.len)
  BY <1>2 DEF MaxOf
<1>5. CASE StopScan(r)
  <2>. USE <1>5 DEF StopScan, files, last, streams
  <2>1. TypeOK'
    BY <1>1, <1>2, <1>3, <1>4 DEF TypeOK
  <2>2. StreamsFit' /\ OffsetsInside' /\ LengthsNonNegative'
    BY DEF StreamsFit, OffsetsInside, LengthsNonNegative
  <2>3. RoomForMatch'
    BY <1>1, <1>2 DEF RoomForMatch
  <2>. QED
    BY <2>1, <2>2, <2>3 DEF CoveredAtEnd
<1>6. CASE Advance(r)
  <2>. USE <1>6 DEF Advance, files, last, streams
  <2>1. ScoreUpTo(r.len) - ScoreLeft \in Int /\ new_pos + 1 \in 0 .. new_size
    BY <1>2, <1>3 DEF ScoreLeft
  <2>2. TypeOK'
    BY <1>1, <1>2, <1>4, <2>1 DEF TypeOK
  <2>3. StreamsFit'
    BY <1>2, SizesType DEF StreamsFit, TypeOK
  <2>4. OffsetsInside'
    BY <1>2, <1>4 DEF OffsetsInside
  <2>5. LengthsNonNegative'
    BY DEF LengthsNonNegative
  <2>. QED
    BY <2>2, <2>3, <2>4, <2>5 DEF RoomForMatch, CoveredAtEnd
<1>. QED
  BY <1>5, <1>6

\* The steps that change nothing but pc.
LEMMA ControlPreserves ==
  MatchInv /\ (EndScan \/ SkipRecord \/ Finish \/ UNCHANGED vars) => MatchInv'
<1>. SUFFICES ASSUME MatchInv, EndScan \/ SkipRecord \/ Finish \/ UNCHANGED vars
              PROVE  MatchInv'
  OBVIOUS
<1>1. UNCHANGED <<files, scan, last, streams>>
  BY DEF EndScan, SkipRecord, Finish, vars
<1>2. pc' \in {"while", "for", "record", "done"}
  BY DEF EndScan, SkipRecord, Finish, vars, MatchInv, TypeOK
<1>3. TypeOK' /\ StreamsFit' /\ LengthsNonNegative'
  BY <1>1, <1>2 DEF MatchInv, TypeOK, StreamsFit, LengthsNonNegative, files, scan, last, streams
<1>. QED
  BY <1>1, <1>3, SizesType DEF EndScan, SkipRecord, Finish, vars, MatchInv, TypeOK, NeedsRecord, RoomForMatch,
     OffsetsInside, CoveredAtEnd, StreamsFit, files, scan, last, streams

\* What a record asks for lies in both files, and the codec can carry its numbers.
LEMMA RecordFits ==
  ASSUME TypeOK, StreamsFit
  PROVE  /\ AddLen \in Nat /\ BackLen \in Nat /\ CopyLen \in Nat
         /\ AddLen + CopyLen + BackLen = new_pos - last_new_pos
         /\ AddLen <= old_size - last_old_pos
         /\ BackLen <= old_pos
         /\ new_pos = new_size => BackLen = 0
         /\ AddLen \in Int64 /\ CopyLen \in Int64 /\ Seek \in Int64
<1>1. /\ old_size \in 1 .. Half - 1 /\ new_size \in 1 .. Half - 1 /\ Half \in Nat
      /\ new_pos \in 0 .. new_size /\ last_new_pos \in 0 .. new_size
      /\ old_pos \in 0 .. old_size - 1 /\ last_old_pos \in 0 .. old_size - 1
  BY SizesType DEF TypeOK
<1>2. /\ AddLen \in Nat /\ BackLen \in Nat /\ CopyLen \in Nat
      /\ AddLen + CopyLen + BackLen = new_pos - last_new_pos
      /\ AddLen <= FuzzyForward
      /\ BackLen <= FuzzyBackward
  BY RecordLengths
<1>3. FuzzyForward \in Nat /\ FuzzyForward <= old_size - last_old_pos
  BY ForwardType
<1>4. /\ FuzzyBackward \in Nat /\ FuzzyBackward <= old_pos
      /\ new_pos = new_size => FuzzyBackward = 0
  BY BackwardType
<1>5. /\ AddLen <= old_size - last_old_pos
      /\ BackLen <= old_pos
      /\ new_pos = new_size => BackLen = 0
  BY <1>1, <1>2, <1>3, <1>4
<1>. QED
  BY <1>1, <1>2, <1>5 DEF Int64, Seek

\* A record takes the streams and the alignment on together.
LEMMA WriteRecordPreserves == MatchInv /\ WriteRecord => MatchInv'
<1>. SUFFICES ASSUME MatchInv, WriteRecord PROVE MatchInv'
  OBVIOUS
<1>. USE DEF files, scan
<1>1. TypeOK /\ StreamsFit
  BY DEF MatchInv
<1>2. /\ old_size \in 1 .. Half - 1 /\ new_size \in 1 .. Half - 1 /\ Half \in Nat
      /\ new_pos \in 0 .. new_size /\ last_new_pos \in 0 .. new_size
      /\ old_pos \in 0 .. old_size - 1 /\ last_old_pos \in 0 .. old_size - 1
      /\ dblen \in Nat /\ eblen \in Nat
  BY <1>1, SizesType DEF TypeOK
<1>3. /\ AddLen \in Nat /\ BackLen \in Nat /\ CopyLen \in Nat
      /\ AddLen + CopyLen + BackLen = new_pos - last_new_pos
      /\ AddLen <= old_size - last_old_pos
      /\ BackLen <= old_pos
      /\ new_pos = new_size => BackLen = 0
      /\ AddLen \in Int64 /\ CopyLen \in Int64 /\ Seek \in Int64
  BY <1>1, RecordFits
<1>4. AddLen \in Int64 /\ CopyLen \in Int64 /\ Seek \in Int64
  BY <1>3
<1>5. /\ new_pos - BackLen \in 0 .. new_size
      /\ old_pos - BackLen \in 0 .. old_size - 1
      /\ old_pos - new_pos \in Int
      /\ dblen + AddLen \in Nat /\ eblen + CopyLen \in Nat
  BY <1>2, <1>3
<1>6. db' \in [0 .. dblen' - 1 -> Byte]
  <2>1. ASSUME NEW j \in 0 .. dblen + AddLen - 1, ~ (j < dblen)
        PROVE  (new[last_new_pos + (j - dblen)] - old[last_old_pos + (j - dblen)]) % ByteRange
                 \in Byte
    <3>1. /\ last_new_pos + (j - dblen) \in 0 .. new_size - 1
          /\ last_old_pos + (j - dblen) \in 0 .. old_size - 1
      BY <1>2, <1>3, <2>1
    <3>2. /\ new[last_new_pos + (j - dblen)] \in Int
          /\ old[last_old_pos + (j - dblen)] \in Int
      BY <1>1, <3>1, MatchAssumption DEF TypeOK, Byte
    <3>. QED
      BY <3>2, DifferenceIsByte
  <2>2. \A j \in 0 .. dblen + AddLen - 1 : j < dblen => db[j] \in Byte
    BY <1>1, <1>2, <1>3 DEF TypeOK
  <2>. DEFINE Value(j) == IF j < dblen THEN db[j]
                          ELSE (new[last_new_pos + (j - dblen)]
                                - old[last_old_pos + (j - dblen)]) % ByteRange
  <2>3. ASSUME NEW j \in 0 .. dblen + AddLen - 1
        PROVE  Value(j) \in Byte
    <3>1. CASE j < dblen
      BY <2>2, <3>1
    <3>2. CASE ~ (j < dblen)
      BY <2>1, <3>2
    <3>. QED
      BY <3>1, <3>2
  <2>4. db' = [j \in 0 .. dblen + AddLen - 1 |-> Value(j)]
    BY DEF WriteRecord
  <2>. DEFINE D == 0 .. dblen + AddLen - 1
  <2>5. D = 0 .. dblen' - 1
    <3>1. dblen' = dblen + AddLen
      BY DEF WriteRecord
    <3>. QED
      BY <1>2, <1>3, <3>1
  <2>6. db' = [j \in D |-> Value(j)] /\ \A j \in D : Value(j) \in Byte
    BY <2>3, <2>4
  <2>. HIDE DEF Value, D
  <2>7. db' \in [D -> Byte]
    BY <2>6
  <2>. QED
    BY <2>5, <2>7
<1>7. eb' \in [0 .. eblen' - 1 -> Byte]
  <2>1. ASSUME NEW j \in 0 .. eblen + CopyLen - 1, ~ (j < eblen)
        PROVE  new[last_new_pos + AddLen + (j - eblen)] \in Byte
    <3>1. last_new_pos + AddLen + (j - eblen) \in 0 .. new_size - 1
      BY <1>2, <1>3, <2>1
    <3>. QED
      BY <1>1, <3>1 DEF TypeOK
  <2>2. \A j \in 0 .. eblen + CopyLen - 1 : j < eblen => eb[j] \in Byte
    BY <1>1, <1>2, <1>3 DEF TypeOK
  <2>. DEFINE Value(j) == IF j < eblen THEN eb[j]
                          ELSE new[last_new_pos + AddLen + (j - eblen)]
  <2>3. ASSUME NEW j \in 0 .. eblen + CopyLen - 1
        PROVE  Value(j) \in Byte
    <3>1. CASE j < eblen
      BY <2>2, <3>1
    <3>2. CASE ~ (j < eblen)
      BY <2>1, <3>2
    <3>. QED
      BY <3>1, <3>2
  <2>4. eb' = [j \in 0 .. eblen + CopyLen - 1 |-> Value(j)]
    BY DEF WriteRecord
  <2>. DEFINE D == 0 .. eblen + CopyLen - 1
  <2>5. D = 0 .. eblen' - 1
    <3>1. eblen' = eblen + CopyLen
      BY DEF WriteRecord
    <3>. QED
      BY <1>2, <1>3, <3>1
  <2>6. eb' = [j \in D |-> Value(j)] /\ \A j \in D : Value(j) \in Byte
    BY <2>3, <2>4
  <2>. HIDE DEF Value, D
  <2>7. eb' \in [D -> Byte]
    BY <2>6
  <2>. QED
    BY <2>5, <2>7
<1>8. /\ cb' \in Seq(Records)
      /\ LengthsNonNegative'
  <2>. DEFINE r == [add |-> Wi64(AddLen), copy |-> Wi64(CopyLen), seek |-> Wi64(Seek)]
  <2>1. r \in Records /\ Ri64(r.add) = AddLen /\ Ri64(r.copy) = CopyLen
    BY <1>4, Ri64OfWi64 DEF Records
  <2>2. cb' = Append(cb, r) /\ cb \in Seq(Records)
    BY <1>1 DEF WriteRecord, TypeOK
  <2>. HIDE DEF r
  <2>3. /\ cb' \in Seq(Records)
        /\ Len(cb') = Len(cb) + 1
        /\ \A i \in 1 .. Len(cb) : cb'[i] = cb[i]
        /\ cb'[Len(cb) + 1] = r
    BY <2>1, <2>2, AppendProperties
  <2>4. LengthsNonNegative
    BY DEF MatchInv
  <2>5. ASSUME NEW k \in 1 .. Len(cb')
        PROVE  Ri64(cb'[k].add) >= 0 /\ Ri64(cb'[k].copy) >= 0
    <3>1. Len(cb) \in Nat
      BY <2>2, LenProperties
    <3>2. CASE k = Len(cb) + 1
      BY <1>3, <2>1, <2>3, <3>2
    <3>3. CASE k \in 1 .. Len(cb)
      BY <2>3, <2>4, <3>3 DEF LengthsNonNegative
    <3>. QED
      BY <2>3, <2>5, <3>1, <3>2, <3>3
  <2>. QED
    BY <2>3, <2>5 DEF LengthsNonNegative
<1>9. TypeOK'
  BY <1>1, <1>5, <1>6, <1>7, <1>8 DEF WriteRecord, TypeOK
<1>10. StreamsFit'
  BY <1>1, <1>2, <1>3 DEF WriteRecord, StreamsFit
<1>11. RoomForMatch' /\ OffsetsInside' /\ CoveredAtEnd'
  BY <1>1, <1>2, <1>3 DEF WriteRecord, MatchInv, RoomForMatch, OffsetsInside, CoveredAtEnd
<1>. QED
  BY <1>8, <1>9, <1>10, <1>11 DEF WriteRecord, MatchInv

-----------------------------------------------------------------------------
(***************************************************************************)
(* The theorems.                                                           *)
(***************************************************************************)
\* No step of the matcher leaves the inductive invariant.
LEMMA NextPreserves == MatchInv /\ [Next]_vars => MatchInv'
<1>. SUFFICES ASSUME MatchInv, [Next]_vars PROVE MatchInv'
  OBVIOUS
<1>1. CASE NextMatch
  BY <1>1, NextMatchPreserves
<1>2. CASE \E r \in SearchResults : StopScan(r) \/ Advance(r)
  BY <1>2, ScanPreserves
<1>3. CASE EndScan \/ SkipRecord \/ Finish \/ Returned \/ UNCHANGED vars
  BY <1>3, ControlPreserves DEF Returned
<1>4. CASE WriteRecord
  BY <1>4, WriteRecordPreserves
<1>. QED
  BY <1>1, <1>2, <1>3, <1>4 DEF Next

\* The inductive invariant holds in every state of the matcher.
THEOREM Invariance == Spec => []MatchInv
<1>1. Init => MatchInv
  BY InitEstablishes
<1>2. MatchInv /\ [Next]_vars => MatchInv'
  BY NextPreserves
<1>. QED
  BY <1>1, <1>2, PTL DEF Spec

\* The positions of match32 and match64 stay inside their files, whatever the
\* files and the results of the search.
THEOREM TypeCorrect == Spec => []TypeOK
<1>1. MatchInv => TypeOK
  BY DEF MatchInv
<1>. QED
  BY <1>1, Invariance, PTL

\* The difference and the extra stream never hold more bytes than new has, so
\* the buffers of match32 and match64 are large enough for them.
THEOREM StreamsAlwaysFit == Spec => []StreamsFit
<1>1. MatchInv => StreamsFit
  BY DEF MatchInv
<1>. QED
  BY <1>1, Invariance, PTL

\* The scan never reads old at a negative index of the last alignment, although
\* match32 and match64 test the upper bound only.
THEOREM LastOffsetInside == Spec => []LastOffsetReads
<1>1. MatchInv => LastOffsetReads
  BY DEF MatchInv, OffsetsInside, LastOffsetReads
<1>. QED
  BY <1>1, Invariance, PTL

\* The loops that cut a record read inside both files.
THEOREM RecordsReadInside == Spec => []RecordReads
<1>1. ASSUME MatchInv PROVE RecordReads
  <2>1. TypeOK /\ StreamsFit
    BY <1>1 DEF MatchInv
  <2>2. FuzzyForward \in Nat /\ FuzzyForward <= old_size - last_old_pos
    BY <2>1, ForwardType
  <2>3. FuzzyBackward <= old_pos
    BY <2>1, BackwardType
  <2>4. Overlap <= FuzzyForward /\ Overlap <= FuzzyBackward
    BY <2>1, RecordLengths
  <2>5. old_size \in Nat /\ last_old_pos \in Nat
    BY <2>1, SizesType DEF TypeOK
  <2>. QED
    BY <2>2, <2>3, <2>4, <2>5 DEF RecordReads
<1>. QED
  BY <1>1, Invariance, PTL

\* No control record of the matcher has a negative length: qbdiff_patch would
\* refuse it.
THEOREM LengthsAccepted == Spec => []LengthsNonNegative
<1>1. MatchInv => LengthsNonNegative
  BY DEF MatchInv
<1>. QED
  BY <1>1, Invariance, PTL

\* The records of a matcher that has returned account for all of new.
THEOREM CoversNew == Spec => []NewCovered
<1>1. MatchInv => NewCovered
  BY DEF MatchInv, CoveredAtEnd, NewCovered
<1>. QED
  BY <1>1, Invariance, PTL

-----------------------------------------------------------------------------
(***************************************************************************)
(* The score of the scan.  It is a signed count: Matched counts the bytes  *)
(* of new from a to b - 1 that the last alignment matches, Window(a, b)    *)
(* counts them as negative when b is before a.  Windows add up, whatever   *)
(* the order of their ends, and each assignment of the scan adds one.      *)
(***************************************************************************)
Matched(a, b) == {i \in a .. b - 1 : MatchesLast(i)}

Window(a, b) == Cardinality(Matched(a, b)) - Cardinality(Matched(b, a))

\* The bytes of an interval are those of its two parts.
LEMMA MatchedSplit ==
  ASSUME NEW a \in Int, NEW b \in Int, NEW c \in Int, a <= b, b <= c
  PROVE  /\ Cardinality(Matched(a, b)) \in Nat
         /\ Cardinality(Matched(a, c)) = Cardinality(Matched(a, b)) + Cardinality(Matched(b, c))
<1>1. ASSUME NEW x \in Int, NEW y \in Int
      PROVE  IsFiniteSet(Matched(x, y)) /\ Cardinality(Matched(x, y)) \in Nat
  <2>1. Matched(x, y) \in SUBSET (x .. y - 1) /\ y - 1 \in Int
    BY DEF Matched
  <2>2. IsFiniteSet(x .. y - 1)
    BY <2>1, FS_Interval
  <2>3. IsFiniteSet(Matched(x, y))
    BY <2>1, <2>2, FS_Subset
  <2>. QED
    BY <2>3, FS_CardinalityType
<1>2. Matched(a, c) = Matched(a, b) \cup Matched(b, c) /\ Matched(a, b) \cap Matched(b, c) = {}
  BY DEF Matched
<1>3. Cardinality(Matched(a, b) \cup Matched(b, c))
        = Cardinality(Matched(a, b)) + Cardinality(Matched(b, c))
          - Cardinality(Matched(a, b) \cap Matched(b, c))
  BY <1>1, FS_Union
<1>4. Cardinality(Matched(a, b) \cap Matched(b, c)) = 0
  BY <1>2, FS_EmptySet
<1>5. Cardinality(Matched(a, b)) \in Nat /\ Cardinality(Matched(b, c)) \in Nat
  BY <1>1
<1>. HIDE DEF Matched
<1>. QED
  BY <1>2, <1>3, <1>4, <1>5

\* An interval without bytes has none that match.
LEMMA MatchedNone ==
  ASSUME NEW a \in Int, NEW b \in Int, b <= a
  PROVE  Cardinality(Matched(a, b)) = 0
<1>1. Matched(a, b) = {}
  BY DEF Matched
<1>. QED
  BY <1>1, FS_EmptySet

\* Windows add up.
LEMMA WindowsAdd ==
  ASSUME NEW a \in Int, NEW b \in Int, NEW c \in Int
  PROVE  /\ Window(a, b) \in Int
         /\ Window(a, c) = Window(a, b) + Window(b, c)
<1>. DEFINE N(x, y) == Cardinality(Matched(x, y))
<1>1. \A x, y \in Int : N(x, y) \in Nat
  <2>. TAKE x, y \in Int
  <2>1. CASE x <= y
    BY <2>1, MatchedSplit
  <2>2. CASE ~ (x <= y)
    BY <2>2, MatchedNone
  <2>. QED
    BY <2>1, <2>2
<1>2. \A x, y, z \in Int : x <= y /\ y <= z => N(x, z) = N(x, y) + N(y, z)
  BY MatchedSplit
<1>3. \A x, y \in Int : y <= x => N(x, y) = 0
  BY MatchedNone
<1>. HIDE DEF N
<1>4. N(a, b) - N(b, a) \in Int
  BY <1>1
<1>5. N(a, c) - N(c, a) = N(a, b) - N(b, a) + N(b, c) - N(c, b)
  <2>1. /\ N(a, b) \in Nat /\ N(b, a) \in Nat /\ N(b, c) \in Nat /\ N(c, b) \in Nat
        /\ N(a, c) \in Nat /\ N(c, a) \in Nat
    BY <1>1
  <2>. QED
    BY <1>2, <1>3, <2>1
<1>. QED
  BY <1>4, <1>5 DEF Window, N

\* The score of a byte is the window that it makes up.
LEMMA ScoreLeftIsWindow ==
  ASSUME new_pos \in Int
  PROVE  ScoreLeft = Window(new_pos, new_pos + 1)
<1>1. Cardinality(Matched(new_pos + 1, new_pos)) = 0
  BY MatchedNone
<1>2. CASE MatchesLast(new_pos)
  <2>1. Matched(new_pos, new_pos + 1) = {new_pos}
    BY <1>2 DEF Matched
  <2>2. Cardinality({new_pos}) = 1
    BY FS_Singleton
  <2>. QED
    BY <1>1, <1>2, <2>1, <2>2 DEF Window, ScoreLeft
<1>3. CASE ~MatchesLast(new_pos)
  <2>1. Matched(new_pos, new_pos + 1) = {}
    BY <1>3 DEF Matched
  <2>2. Cardinality({}) = 0
    BY FS_EmptySet
  <2>. QED
    BY <1>1, <1>3, <2>1, <2>2 DEF Window, ScoreLeft
<1>. QED
  BY <1>2, <1>3

\* The loop over new_peek: if the score is the window before it, it is after it.
LEMMA ScoreUpToIsWindow ==
  ASSUME new_pos \in Int, new_peek \in Int, NEW len \in Nat, old_score = Window(new_pos, new_peek)
  PROVE  ScoreUpTo(len) = Window(new_pos, MaxOf(new_peek, new_pos + len))
<1>. DEFINE e == new_pos + len
<1>1. e \in Int /\ ScoreUpTo(len) = Window(new_pos, new_peek) + Cardinality(Matched(new_peek, e))
  BY DEF ScoreUpTo, Matched
<1>2. MaxOf(new_peek, new_pos + len) = IF new_peek < e THEN e ELSE new_peek
  BY DEF MaxOf
<1>. HIDE DEF e
<1>3. CASE new_peek < e
  <2>1. Cardinality(Matched(e, new_peek)) = 0
    BY <1>1, <1>3, MatchedNone
  <2>2. Cardinality(Matched(new_peek, e)) \in Nat
    BY <1>1, <1>3, MatchedSplit
  <2>3. Window(new_peek, e) = Cardinality(Matched(new_peek, e))
    BY <2>1, <2>2 DEF Window
  <2>4. Window(new_pos, e) = Window(new_pos, new_peek) + Window(new_peek, e)
    BY <1>1, WindowsAdd
  <2>. QED
    BY <1>1, <1>2, <1>3, <2>3, <2>4
<1>4. CASE ~ (new_peek < e)
  <2>1. Cardinality(Matched(new_peek, e)) = 0
    BY <1>1, <1>4, MatchedNone
  <2>2. Window(new_pos, new_peek) \in Int
    BY WindowsAdd
  <2>. QED
    BY <1>1, <1>2, <1>4, <2>1, <2>2
<1>. QED
  BY <1>3, <1>4

\* The score of match32 and match64 is at all times the number of bytes between
\* the scan and new_peek that the last alignment matches, negative if the scan is
\* ahead.
THEOREM ScoreCountsWindow == Spec => []ScoreIsWindow
<1>. DEFINE Inv == pc = "for" => old_score = Window(new_pos, new_peek)
<1>1. Init => Inv
  BY DEF Init
<1>2. MatchInv /\ Inv /\ [Next]_vars => Inv'
  <2>. SUFFICES ASSUME MatchInv, Inv, [Next]_vars, pc' = "for"
                PROVE  old_score' = Window(new_pos, new_peek)'
    OBVIOUS
  <2>1. /\ new_pos \in Nat /\ new_peek \in Nat /\ match_len \in Nat
        /\ new_size \in Nat /\ old_size \in Nat
    BY SizesType DEF MatchInv, TypeOK
  <2>2. CASE NextMatch
    <3>1. old_score' = 0 /\ new_pos' = new_pos + match_len /\ new_peek' = new_pos'
      BY <2>2 DEF NextMatch, ResumeAt, PeekFrom
    <3>2. new_pos' \in Int
      BY <2>1, <3>1
    <3>3. (Matched(new_pos, new_peek) = {} /\ Matched(new_peek, new_pos) = {})'
      BY <3>1, <3>2 DEF Matched
    <3>4. (Cardinality(Matched(new_pos, new_peek)) = 0 /\ Cardinality(Matched(new_peek, new_pos)) = 0)'
      BY <3>3, FS_EmptySet
    <3>5. (Window(new_pos, new_peek) = 0)'
      BY <3>4 DEF Window
    <3>. QED
      BY <3>1, <3>5
  <2>3. ASSUME NEW r \in SearchResults, Advance(r) PROVE old_score' = Window(new_pos, new_peek)'
    <3>1. /\ pc = "for" /\ r.len \in Nat
          /\ old_score' = ScoreUpTo(r.len) - ScoreLeft
          /\ new_peek' = MaxOf(new_peek, new_pos + r.len)
          /\ new_pos' = new_pos + 1
          /\ UNCHANGED <<old, new, old_size, last_offset>>
      BY <2>1, <2>3 DEF Advance, SearchResults, files, last, MinOf
    <3>2. new_peek' \in Int
      BY <2>1, <3>1 DEF MaxOf
    <3>3. \A x, y : Window(x, y)' = Window(x, y)
      BY <3>1 DEF Window, Matched, MatchesLast
    <3>4. ScoreUpTo(r.len) = Window(new_pos, new_peek')
      BY <2>1, <3>1, ScoreUpToIsWindow
    <3>5. ScoreLeft = Window(new_pos, new_pos + 1)
      BY <2>1, ScoreLeftIsWindow
    <3>6. /\ Window(new_pos, new_peek') = Window(new_pos, new_pos + 1) + Window(new_pos + 1, new_peek')
          /\ Window(new_pos, new_pos + 1) \in Int /\ Window(new_pos + 1, new_peek') \in Int
      <4>1. new_pos \in Int /\ new_pos + 1 \in Int
        BY <2>1
      <4>. QED
        BY <3>2, <4>1, WindowsAdd
    <3>7. old_score' = Window(new_pos', new_peek')
      BY <3>1, <3>4, <3>5, <3>6
    <3>. QED
      BY <3>1, <3>7 DEF Window, Matched, MatchesLast
  <2>4. CASE UNCHANGED vars \/ Returned
    BY <2>4 DEF Returned, vars, files, scan, last, Window, Matched, MatchesLast
  <2>. QED
    BY <2>2, <2>3, <2>4 DEF Next, StopScan, EndScan, SkipRecord, WriteRecord, Finish
<1>3. Inv => ScoreIsWindow
  BY DEF ScoreIsWindow, Window, Matched
<1>. QED
  BY <1>1, <1>2, <1>3, Invariance, PTL DEF Spec

-----------------------------------------------------------------------------
(***************************************************************************)
(* Every step comes closer to the end.  What is left of new shrinks in the *)
(* scan and with every match that is skipped.  The hard case is a scan     *)
(* that stops at an empty match, after which the outer loop does not move: *)
(* it stops so with a negative score only, and the next scan starts with   *)
(* the score 0.                                                            *)
(***************************************************************************)
\* What is left to do; a scan that may stop without a match counts for more
\* than the record and the head of the loop that follow it.
StepsLeft ==
  IF new_pos >= new_size
    THEN CASE pc = "for"    -> 3
           [] pc = "record" -> 2
           [] pc = "while"  -> 1
           [] pc = "done"   -> 0
    ELSE CASE pc = "for"    -> 4 * (1 + new_size - new_pos) + (IF old_score < 0 THEN 3 ELSE 0)
           [] pc = "record" -> 4 * (1 + new_size - new_pos - match_len) + 2
           [] pc = "while"  -> 4 * (1 + new_size - new_pos - match_len) + 1

\* There is always a natural number of steps left.
LEMMA StepsLeftType == MatchInv => StepsLeft \in Nat
<1>. SUFFICES ASSUME MatchInv PROVE StepsLeft \in Nat
  OBVIOUS
<1>1. /\ new_pos \in Nat /\ match_len \in Nat /\ new_size \in Nat /\ new_pos <= new_size
      /\ pc \in {"while", "for", "record", "done"}
      /\ pc \in {"while", "record"} /\ new_pos < new_size => new_pos + match_len <= new_size
      /\ pc = "done" => new_pos >= new_size
  BY SizesType DEF MatchInv, TypeOK, StreamsFit, RoomForMatch
<1>2. CASE new_pos >= new_size
  BY <1>1, <1>2 DEF StepsLeft
<1>3. CASE ~ (new_pos >= new_size)
  <2>1. new_pos < new_size /\ pc # "done"
    BY <1>1, <1>3
  <2>2. CASE pc = "for"
    BY <1>1, <1>3, <2>2 DEF StepsLeft
  <2>3. CASE pc = "record"
    BY <1>1, <1>3, <2>1, <2>3 DEF StepsLeft
  <2>4. CASE pc = "while"
    BY <1>1, <1>3, <2>1, <2>4 DEF StepsLeft
  <2>. QED
    BY <1>1, <2>1, <2>2, <2>3, <2>4
<1>. QED
  BY <1>2, <1>3

\* A scan that has counted nothing against itself stops at a match only.
LEMMA NoEmptyStop ==
  ASSUME TypeOK, old_score >= 0, NEW len \in Nat, StopsScan(len, ScoreUpTo(len))
  PROVE  len > 0
<1>. DEFINE Them == {i \in new_peek .. new_pos + len - 1 : MatchesLast(i)}
<1>1. new_peek \in Int /\ new_pos + len - 1 \in Int /\ old_score \in Int /\ Margin \in Nat
  BY MatchAssumption, HalfAssumption DEF TypeOK
<1>2. Them \in SUBSET (new_peek .. new_pos + len - 1)
  OBVIOUS
<1>. HIDE DEF Them
<1>3. Cardinality(Them) \in Nat
  BY <1>1, <1>2, CountInInterval
<1>4. ScoreUpTo(len) = old_score + Cardinality(Them)
  BY DEF ScoreUpTo, Them
<1>5. ScoreUpTo(len) \in Int /\ ScoreUpTo(len) >= 0
  BY <1>1, <1>3, <1>4
<1>. QED
  BY <1>1, <1>5 DEF StopsScan

\* The matcher cannot run for ever, whatever the search answers: each of its
\* steps leaves fewer to do (the outer loops of match32 and match64, whose head
\* moves by match_len, which may be 0).
THEOREM EveryStepIsProgress ==
  Spec => [](StepsLeft \in Nat) /\ [][StepsLeft' < StepsLeft]_vars
<1>. DEFINE A == StepsLeft' < StepsLeft
            T == /\ new_pos \in Nat /\ match_len \in Nat /\ new_size \in Nat /\ new_pos <= new_size
                 /\ old_score \in Int
<1>1. MatchInv => T
  BY SizesType DEF MatchInv, TypeOK, StreamsFit
<1>2. MatchInv /\ T /\ T' /\ [Next]_vars => [A]_vars
  <2>. SUFFICES ASSUME MatchInv, T, T', Next, ~ UNCHANGED vars
                PROVE  StepsLeft' < StepsLeft
    OBVIOUS
  <2>1. /\ new_pos \in Nat /\ match_len \in Nat /\ new_size \in Nat /\ new_pos <= new_size
        /\ old_score \in Int
    OBVIOUS
  <2>0. pc \in {"while", "record"} /\ new_pos < new_size => new_pos + match_len <= new_size
    BY DEF MatchInv, RoomForMatch
  <2>2. /\ new_pos' \in Nat /\ match_len' \in Nat /\ new_pos' <= new_size' /\ old_score' \in Int
    OBVIOUS
  <2>. HIDE DEF T
  <2>3. CASE NextMatch
    <3>1. /\ pc = "while" /\ pc' = "for" /\ new_pos < new_size /\ old_score' = 0
          /\ new_pos' = new_pos + match_len /\ match_len' = match_len /\ new_size' = new_size
      BY <2>3 DEF NextMatch, ResumeAt, files
    <3>2. StepsLeft = 4 * (1 + new_size - new_pos - match_len) + 1
      BY <2>0, <2>1, <3>1 DEF StepsLeft
    <3>3. CASE new_pos' >= new_size
      <4>1. StepsLeft' = 3
        BY <3>1, <3>3 DEF StepsLeft
      <4>. QED
        BY <2>0, <2>1, <3>1, <3>2, <4>1
    <3>4. CASE ~ (new_pos' >= new_size)
      <4>1. StepsLeft' = 4 * (1 + new_size - new_pos')
        BY <2>1, <2>2, <3>1, <3>4 DEF StepsLeft
      <4>. QED
        BY <2>0, <2>1, <3>1, <3>2, <4>1
    <3>. QED
      BY <3>3, <3>4
  <2>4. ASSUME NEW r \in SearchResults, StopScan(r) PROVE StepsLeft' < StepsLeft
    <3>1. /\ pc = "for" /\ pc' = "record" /\ new_pos < new_size /\ r.len \in Nat
          /\ match_len' = r.len /\ new_pos' = new_pos /\ new_size' = new_size
          /\ StopsScan(r.len, ScoreUpTo(r.len))
      BY <2>2, <2>4 DEF StopScan, files
    <3>2. StepsLeft = 4 * (1 + new_size - new_pos) + (IF old_score < 0 THEN 3 ELSE 0)
      BY <2>0, <2>1, <3>1 DEF StepsLeft
    <3>3. StepsLeft' = 4 * (1 + new_size - new_pos - r.len) + 2
      BY <2>0, <2>1, <3>1 DEF StepsLeft
    <3>4. old_score < 0 \/ r.len > 0
      BY <2>1, <3>1, NoEmptyStop DEF MatchInv
    <3>. QED
      BY <2>1, <3>1, <3>2, <3>3, <3>4
  <2>5. ASSUME NEW r \in SearchResults, Advance(r) PROVE StepsLeft' < StepsLeft
    <3>1. /\ pc = "for" /\ pc' = "for" /\ new_pos < new_size
          /\ new_pos' = new_pos + 1 /\ new_size' = new_size
      BY <2>5 DEF Advance, files
    <3>2. StepsLeft = 4 * (1 + new_size - new_pos) + (IF old_score < 0 THEN 3 ELSE 0)
      BY <2>0, <2>1, <3>1 DEF StepsLeft
    <3>3. CASE new_pos' >= new_size
      <4>1. StepsLeft' = 3
        BY <3>1, <3>3 DEF StepsLeft
      <4>. QED
        BY <2>0, <2>1, <3>1, <3>2, <4>1
    <3>4. CASE ~ (new_pos' >= new_size)
      <4>1. StepsLeft' = 4 * (1 + new_size - new_pos') + (IF old_score' < 0 THEN 3 ELSE 0)
        BY <2>1, <2>2, <3>1, <3>4 DEF StepsLeft
      <4>. QED
        BY <2>1, <2>2, <3>1, <3>2, <4>1
    <3>. QED
      BY <3>3, <3>4
  <2>6. CASE EndScan
    BY <2>6 DEF EndScan, files, scan, StepsLeft
  <2>7. CASE SkipRecord \/ WriteRecord
    <3>1. /\ pc = "record" /\ pc' = "while"
          /\ new_pos' = new_pos /\ match_len' = match_len /\ new_size' = new_size
      BY <2>7 DEF SkipRecord, WriteRecord, files, scan
    <3>2. CASE new_pos >= new_size
      BY <3>1, <3>2 DEF StepsLeft
    <3>3. CASE ~ (new_pos >= new_size)
      BY <2>0, <2>1, <3>1, <3>3 DEF StepsLeft
    <3>. QED
      BY <3>2, <3>3
  <2>8. CASE Finish
    BY <2>8 DEF Finish, files, scan, StepsLeft
  <2>9. CASE Returned
    BY <2>9 DEF Returned
  <2>. QED
    BY <2>3, <2>4, <2>5, <2>6, <2>7, <2>8, <2>9 DEF Next
<1>3. MatchInv => StepsLeft \in Nat
  BY StepsLeftType
<1>. QED
  BY <1>1, <1>2, <1>3, Invariance, PTL DEF Spec

-----------------------------------------------------------------------------
(***************************************************************************)
(* The matcher with its binary search.                                     *)
(***************************************************************************)
\* What is proved of one call of the search holds of each call the matcher makes.
SP == INSTANCE SearchProofs WITH new <- Rest, new_size <- RestSize,
                                 old_pos <- s_pos, max_len <- s_len

\* The array made before the scan is never written again.
ArrayKept ==
  \E tail \in TailValues : I = S!WithTail(S!SuffixArray(old, old_size), old_size, tail)

\* The search runs inside an iteration of the scan only.
SearchInScan ==
  /\ spc \in {"call", "probe", "returned"}
  /\ spc # "call" => pc = "for" /\ new_pos < new_size

\* While it runs, its own invariants hold of what is left of new.
SearchRuns == spc # "call" => SP!SearchInv /\ SP!BestIsMatch

MSInv == MatchInv /\ ArrayKept /\ SearchInScan /\ SearchRuns

-----------------------------------------------------------------------------
(***************************************************************************)
(* One call of the search.                                                 *)
(***************************************************************************)
\* The constants of the search satisfy what module Search asks of them.
LEMMA SearchConstants == SP!SearchAssumption
<1>1. OldSizes \subseteq Nat \ {0} /\ NewSizes \subseteq Nat \ {0}
  BY MatchAssumption, HalfAssumption
<1>2. ByteRange \in Nat \ {0} /\ TailValues \subseteq Int /\ TailValues # {}
  BY MatchAssumption, TailAssumption
<1>. QED
  BY <1>1, <1>2 DEF SP!SearchAssumption

\* Both instances of the search count alike.
LEMMA SameCardinality == ASSUME NEW X PROVE S!Cardinality(X) = SP!Cardinality(X)
BY DEF S!Cardinality, SP!Cardinality

\* They compare alike.
LEMMA SameMatch ==
  ASSUME NEW o
  PROVE  /\ S!MatchLen(o) = SP!MatchLen(o)
         /\ S!SuffixBelow(o) <=> SP!SuffixBelow(o)
         /\ S!LeafLens(o) = SP!LeafLens(o)
<1>1. S!MatchLen(o) = SP!MatchLen(o)
  BY SameCardinality DEF S!MatchLen, S!Shorter, SP!MatchLen, SP!Shorter
<1>. QED
  BY <1>1 DEF S!SuffixBelow, S!LeafLens, S!Shorter, SP!SuffixBelow, SP!LeafLens, SP!Shorter

\* They take the same steps.
LEMMA SameSearch == S!SearchStep <=> SP!SearchStep
<1>1. S!Begin <=> SP!Begin
  BY SameMatch DEF S!Begin, S!StartLen, S!inputs, SP!Begin, SP!StartLen, SP!inputs
<1>2. S!RecordMiddle <=> SP!RecordMiddle
  BY SameMatch DEF S!RecordMiddle, S!MiddlePos, S!Middle, S!Longer,
                   SP!RecordMiddle, SP!MiddlePos, SP!Middle, SP!Longer
<1>3. (S!GoUp <=> SP!GoUp) /\ (S!GoDown <=> SP!GoDown)
  BY <1>2, SameMatch DEF S!GoUp, S!GoDown, S!Middle, S!inputs,
                         SP!GoUp, SP!GoDown, SP!Middle, SP!inputs
<1>4. S!Leaf <=> SP!Leaf
  <2>1. \A x, y : S!LeafPos(x, y) = SP!LeafPos(x, y)
    BY DEF S!LeafPos, SP!LeafPos
  <2>. QED
    BY <2>1, SameMatch DEF S!Leaf, S!Longer, S!inputs, SP!Leaf, SP!Longer, SP!inputs
<1>. QED
  BY <1>1, <1>3, <1>4 DEF S!SearchStep, SP!SearchStep

\* They mean the same entry behind the array.
LEMMA SameFound == S!FoundBefore <=> SP!FoundBefore
BY SameMatch DEF S!FoundBefore, SP!FoundBefore

\* They are given the same array.
LEMMA SameArray ==
  ASSUME NEW tail
  PROVE  S!WithTail(S!SuffixArray(old, old_size), old_size, tail)
           = SP!WithTail(SP!SuffixArray(old, old_size), old_size, tail)
BY DEF S!WithTail, S!SuffixArray, S!SuffixLess, S!Cardinality, S!IsFiniteSet,
       SP!WithTail, SP!SuffixArray, SP!SuffixLess, SP!Cardinality, SP!IsFiniteSet

\* A call of the search gets what module Search expects.
LEMMA CallInputs ==
  ASSUME MatchInv, ArrayKept, new_pos < new_size
  PROVE  SP!InputsOK
<1>1. /\ old_size \in Nat \ {0} /\ new_size \in Nat /\ new_pos \in 0 .. new_size
      /\ old \in [0 .. old_size - 1 -> Byte] /\ new \in [0 .. new_size - 1 -> Byte]
  BY SizesType DEF MatchInv, TypeOK
<1>2. Byte \subseteq Int
  BY DEF Byte
<1>3. RestSize \in Nat \ {0}
  BY <1>1 DEF RestSize
<1>4. Rest \in [0 .. RestSize - 1 -> Int]
  <2>1. ASSUME NEW j \in 0 .. RestSize - 1 PROVE new[new_pos + j] \in Int
    <3>1. new_pos + j \in 0 .. new_size - 1
      BY <1>1 DEF RestSize
    <3>. QED
      BY <1>1, <1>2, <3>1
  <2>. QED
    BY <2>1 DEF Rest
<1>5. \E tail \in TailValues :
        I = SP!WithTail(SP!SuffixArray(old, old_size), old_size, tail)
  BY SameArray DEF ArrayKept
<1>. QED
  BY <1>1, <1>2, <1>3, <1>4, <1>5 DEF SP!InputsOK

-----------------------------------------------------------------------------
(***************************************************************************)
(* The steps of the matcher with its search.                               *)
(***************************************************************************)
\* Nothing but the matcher's own variables is in the matcher's invariant.
LEMMA StepsOfMatch ==
  ASSUME MSInv, [Next]_vars
  PROVE  MatchInv'
BY NextPreserves DEF MSInv

\* A step of the search leaves the matcher as it is.
LEMMA SearchingPreserves == MSInv /\ Searching => MSInv'
<1>. SUFFICES ASSUME MSInv, Searching PROVE MSInv'
  OBVIOUS
<1>1. /\ pc = "for" /\ new_pos < new_size
      /\ UNCHANGED vars /\ SP!SearchStep
  BY SameSearch DEF Searching
<1>2. UNCHANGED <<pc, old_size, old, new_size, new_pos>>
  BY <1>1 DEF vars, files, scan
<1>3. UNCHANGED I /\ spc \in {"call", "probe"} /\ spc' \in {"probe", "returned"}
  BY <1>1 DEF SP!SearchStep, SP!Begin, SP!GoUp, SP!GoDown, SP!Leaf, SP!inputs
<1>4. SP!SearchInv /\ SP!BestIsMatch
  <2>1. CASE spc = "call"
    <3>1. SP!InputsOK
      BY <1>1, CallInputs DEF MSInv
    <3>. QED
      BY <2>1, <3>1, SearchConstants, SP!SearchStarts DEF SP!BestIsMatch
  <2>2. CASE spc # "call"
    BY <2>2 DEF MSInv, SearchRuns
  <2>. QED
    BY <2>1, <2>2
<1>5. SP!SearchInv'
  BY <1>1, <1>4, SearchConstants, SP!SearchStepPreserves
<1>6. SP!BestIsMatch'
  BY <1>1, <1>4, SearchConstants, SP!MatchStepPreserves
<1>7. MatchInv'
  BY <1>1, StepsOfMatch
<1>8. ArrayKept'
  BY <1>2, <1>3 DEF MSInv, ArrayKept, S!WithTail, S!SuffixArray, S!SuffixLess
<1>9. SearchInScan'
  BY <1>1, <1>2, <1>3 DEF SearchInScan
<1>. QED
  BY <1>5, <1>6, <1>7, <1>8, <1>9 DEF MSInv, SearchRuns

\* A position before old is the entry behind the suffix array.
LEMMA LostByEntryOnly == MSInv => LostByEntry
<1>. SUFFICES ASSUME MSInv, Lost PROVE SP!FoundBefore
  BY SameFound DEF LostByEntry
<1>1. SP!BestInside \/ SP!BestBefore
  BY DEF MSInv, SearchRuns, Lost, SP!BestIsMatch
<1>2. ~ SP!BestInside
  <2>1. old_size \in Nat
    BY SizesType DEF MSInv, MatchInv, TypeOK
  <2>. QED
    BY <2>1 DEF Lost, SP!BestInside
<1>. QED
  BY <1>1, <1>2 DEF SP!BestBefore

\* Any other result of the search is what its contract in module Match promises.
LEMMA ResultKeepsContract ==
  ASSUME MSInv, spc = "returned", ~ Lost
  PROVE  [pos |-> s_pos, len |-> s_len] \in SearchResults
<1>1. SP!SearchInv /\ SP!BestIsMatch /\ new_pos < new_size
  BY DEF MSInv, SearchRuns, SearchInScan
<1>2. /\ s_pos \in 0 .. old_size - 1
      /\ s_len <= old_size /\ s_len <= RestSize
  BY <1>1 DEF Lost, SP!BestIsMatch, SP!BestInside, SP!BestBefore, SP!FoundBefore
<1>3. s_len \in Nat
  BY <1>1 DEF SP!SearchInv, SP!BestOK
<1>4. old_size \in Nat /\ new_size \in Nat /\ new_pos \in Nat
  BY SizesType DEF MSInv, MatchInv, TypeOK
<1>5. s_len \in 0 .. MinOf(old_size, new_size - new_pos)
  BY <1>2, <1>3, <1>4 DEF MinOf, RestSize
<1>. QED
  BY <1>2, <1>5 DEF SearchResults

\* Every step is a step of module Match, or changes nothing of it.
LEMMA StepsImplement == MSInv /\ [MSNext]_allvars => [Next]_vars
<1>. SUFFICES ASSUME MSInv, [MSNext]_allvars PROVE [Next]_vars
  OBVIOUS
<1>1. CASE Searching
  BY <1>1 DEF Searching
<1>2. CASE Scan
  <2>1. [pos |-> s_pos, len |-> s_len] \in SearchResults
    BY <1>2, ResultKeepsContract DEF Scan
  <2>. QED
    BY <1>2, <2>1 DEF Scan, Next
<1>3. CASE MatchStep
  BY <1>3 DEF MatchStep, Next
<1>4. CASE Undefined \/ UNCHANGED allvars
  BY <1>4 DEF Undefined, allvars
<1>. QED
  BY <1>1, <1>2, <1>3, <1>4 DEF MSNext

\* The array stays what it is while no step writes it.
LEMMA ArrayUntouched ==
  ASSUME ArrayKept, UNCHANGED <<I, old, old_size>>
  PROVE  ArrayKept'
BY DEF ArrayKept, S!WithTail, S!SuffixArray, S!SuffixLess

\* A step of the matcher finds the search between two calls.
LEMMA MatcherPreserves == MSInv /\ (Scan \/ MatchStep) => MSInv'
<1>. SUFFICES ASSUME MSInv, Scan \/ MatchStep PROVE MSInv'
  OBVIOUS
<1>1. MatchInv'
  <2>1. [Next]_vars
    BY StepsImplement DEF MSNext
  <2>. QED
    BY <2>1, StepsOfMatch
<1>2. UNCHANGED <<I, files>>
  BY DEF Scan, MatchStep, StopScan, Advance, NextMatch, EndScan, SkipRecord, WriteRecord,
         Finish, Returned, vars
<1>3. ArrayKept'
  BY <1>2, ArrayUntouched DEF MSInv, files
<1>4. spc' = "call"
  <2>1. CASE Scan
    BY <2>1 DEF Scan
  <2>2. CASE MatchStep
    <3>1. pc # "for" \/ new_pos >= new_size
      BY <2>2 DEF MatchStep, NextMatch, EndScan, SkipRecord, WriteRecord, Finish, Returned
    <3>2. new_pos \in Int /\ new_size \in Int
      BY SizesType DEF MSInv, MatchInv, TypeOK
    <3>3. spc = "call"
      BY <3>1, <3>2 DEF MSInv, SearchInScan
    <3>. QED
      BY <2>2, <3>3 DEF MatchStep, searching
  <2>. QED
    BY <2>1, <2>2
<1>. QED
  BY <1>1, <1>3, <1>4 DEF MSInv, SearchInScan, SearchRuns

\* The entry behind the suffix array is one of the values it may have.
LEMMA TailKept ==
  ASSUME MSInv
  PROVE  \E tail \in TailValues : I[old_size] = tail
<1>1. PICK tail \in TailValues : I = S!WithTail(S!SuffixArray(old, old_size), old_size, tail)
  BY DEF MSInv, ArrayKept
<1>2. old_size \in Nat
  BY SizesType DEF MSInv, MatchInv, TypeOK
<1>. HIDE DEF S!SuffixArray
<1>3. I[old_size] = tail
  BY <1>1, <1>2 DEF S!WithTail
<1>. QED
  BY <1>3

\* No step writes it.
LEMMA EntryUntouched == [MSNext]_allvars => UNCHANGED <<I, old_size>>
<1>. SUFFICES ASSUME [MSNext]_allvars PROVE UNCHANGED <<I, old_size>>
  OBVIOUS
<1>1. CASE Searching
  BY <1>1, SameSearch DEF Searching, vars, files, SP!SearchStep, SP!Begin, SP!GoUp, SP!GoDown,
                          SP!Leaf, SP!inputs
<1>2. CASE Scan \/ MatchStep
  BY <1>2 DEF Scan, MatchStep, StopScan, Advance, NextMatch, EndScan, SkipRecord, WriteRecord,
         Finish, Returned, vars, files
<1>3. CASE Undefined \/ UNCHANGED allvars
  BY <1>3 DEF Undefined, allvars, vars, files
<1>. QED
  BY <1>1, <1>2, <1>3 DEF MSNext

\* The search has not begun when the matcher starts.
LEMMA MSInitEstablishes == MSInit => MSInv
BY InitEstablishes DEF MSInit, MSInv, ArrayKept, SearchInScan, SearchRuns

\* No step of the matcher with its search leaves the inductive invariant.
LEMMA MSNextPreserves == MSInv /\ [MSNext]_allvars => MSInv'
<1>1. ASSUME MSInv, UNCHANGED allvars PROVE MSInv'
  <2>1. UNCHANGED <<vars, I, searching, pc, old_size, old, new_size, new, new_pos>>
    BY <1>1 DEF allvars, vars, files, scan
  <2>2. MatchInv' /\ ArrayKept'
    BY <1>1, <2>1, StepsOfMatch, ArrayUntouched DEF MSInv
  <2>3. SearchInScan'
    BY <1>1, <2>1 DEF MSInv, SearchInScan, searching
  <2>4. UNCHANGED SP!svars
    BY <2>1 DEF searching, Rest, RestSize, SP!svars, SP!inputs
  <2>5. SearchRuns'
    BY <1>1, <2>1, <2>4, SearchConstants, SP!SearchStutters, SP!MatchStutters
       DEF MSInv, SearchRuns, searching
  <2>. QED
    BY <2>2, <2>3, <2>5 DEF MSInv
<1>. QED
  BY <1>1, SearchingPreserves, MatcherPreserves DEF MSNext, Undefined

\* The inductive invariant holds in every state of the matcher with its search.
THEOREM MSInvariance == MSSpec => []MSInv
BY MSInitEstablishes, MSNextPreserves, PTL DEF MSSpec

\* Whatever lies behind the suffix array, the matcher with its binary search
\* implements the matcher with the contract of a search: each result is a
\* position in old and a length that leaves neither file.  It stops doing so in
\* one case only, at a search that returns a negative entry behind the array.
THEOREM SearchImplementsMatch == MSSpec => ImplementsMatch
<1>1. MSInit => Init
  BY DEF MSInit
<1>2. MSInv /\ [MSNext]_allvars => [Next]_vars
  BY StepsImplement
<1>3. MSInv => LostByEntry
  BY LostByEntryOnly
<1>. QED
  BY <1>1, <1>2, <1>3, MSInvariance, PTL DEF MSSpec, ImplementsMatch, Spec

\* An entry that is not negative is not taken for a position before old.
LEMMA NotLostByNat == MSInv /\ I[old_size] >= 0 => ~ Lost
<1>. SUFFICES ASSUME MSInv, I[old_size] >= 0, Lost PROVE FALSE
  OBVIOUS
<1>1. S!FoundBefore
  BY LostByEntryOnly DEF LostByEntry
<1>2. s_pos < 0 /\ s_pos = I[old_size]
  BY <1>1 DEF S!FoundBefore
<1>3. \E tail \in TailValues : I[old_size] = tail
  BY TailKept
<1>. QED
  BY <1>2, <1>3, TailAssumption

\* The entry behind the array is never written, so a matcher that starts with one
\* that is not negative is never lost: it implements module Match to its end.
THEOREM NeverLost == MSSpec /\ I[old_size] >= 0 => []~ Lost
<1>1. [MSNext]_allvars => (I[old_size] >= 0 => (I[old_size] >= 0)')
  BY EntryUntouched
<1>. QED
  BY <1>1, NotLostByNat, MSInvariance, PTL DEF MSSpec

-----------------------------------------------------------------------------
(***************************************************************************)
(* A new file that the old one starts with.                                *)
(***************************************************************************)
IsPrefix == new_size <= old_size /\ \A j \in 0 .. new_size - 1 : new[j] = old[j]

\* No record is written yet.
NothingWritten ==
  last_new_pos = 0 /\ last_old_pos = 0 /\ last_offset = 0 /\ cb = <<>> /\ dblen = 0

\* The one record is written, and it copies nothing.
OneRecord ==
  Len(cb) = 1 /\ dblen = new_size /\ \A j \in 0 .. dblen - 1 : db[j] = 0

\* The run goes through five stages: the first search, the match it finds, which
\* the start of old continues; the end of new; the record of that; and the end.
\* Each stage but the last starts at one end of new.
Course ==
  \/ /\ pc = "while" /\ new_pos = 0 /\ NothingWritten
     /\ match_len \in {0, new_size}
  \/ pc = "for" /\ new_pos = 0 /\ new_peek = 0 /\ old_score = 0 /\ NothingWritten
  \/ /\ pc = "record" /\ new_pos = 0 /\ NothingWritten
     /\ match_len = new_size /\ old_score = new_size
  \/ pc \in {"for", "record"} /\ new_pos = new_size /\ NothingWritten
  \/ pc \in {"while", "done"} /\ new_pos = new_size /\ OneRecord

\* Laid over each other at their starts, the files agree in every byte of new.
LEMMA PrefixAgrees ==
  ASSUME TypeOK, IsPrefix, NEW k \in 0 .. new_size
  PROVE  Agreeing(0, 0, k) = k
<1>1. new_size \in Nat
  BY SizesType
<1>2. {i \in 0 .. k - 1 : old[0 + i] = new[0 + i]} = 0 .. k - 1
  BY <1>1 DEF IsPrefix
<1>3. Cardinality(0 .. k - 1) = k
  BY <1>1, FS_Interval
<1>. QED
  BY <1>2, <1>3 DEF Agreeing

\* The last alignment is that of the starts, so it matches every byte of new.
LEMMA PrefixScore ==
  ASSUME TypeOK, IsPrefix, last_offset = 0, new_pos = 0, new_peek = 0, old_score = 0
  PROVE  ScoreUpTo(new_size) = new_size
<1>1. new_size \in Nat /\ old_size \in Nat
  BY SizesType
<1>2. {i \in 0 .. new_size - 1 : MatchesLast(i)} = 0 .. new_size - 1
  <2>1. ASSUME NEW i \in 0 .. new_size - 1 PROVE MatchesLast(i)
    <3>1. i + last_offset = i /\ i < old_size /\ old[i] = new[i]
      BY <1>1 DEF IsPrefix
    <3>. QED
      BY <3>1 DEF MatchesLast
  <2>. QED
    BY <2>1
<1>3. Cardinality(0 .. new_size - 1) = new_size
  BY <1>1, FS_Interval
<1>. DEFINE Agreed == {i \in new_peek .. new_pos + new_size - 1 : MatchesLast(i)}
<1>4. Agreed = 0 .. new_size - 1
  <2>1. new_peek .. new_pos + new_size - 1 = 0 .. new_size - 1
    BY <1>1
  <2>. QED
    BY <1>2, <2>1
<1>5. ScoreUpTo(new_size) = old_score + Cardinality(Agreed)
  BY DEF ScoreUpTo
<1>. HIDE DEF Agreed
<1>. QED
  BY <1>1, <1>3, <1>4, <1>5

\* The first search finds all of new at the start of old, and nothing longer, so
\* the entry behind the array is not taken.
LEMMA PrefixFound ==
  ASSUME MSInv, IsPrefix, spc = "returned", new_pos = 0
  PROVE  s_len = new_size /\ ~ Lost
<1>1. SP!SearchInv /\ SP!BestIsMatch /\ SP!InputsOK /\ TypeOK
  BY DEF MSInv, SearchRuns, SP!SearchInv, MatchInv
<1>2. new_size \in Nat \ {0} /\ old_size \in Nat \ {0} /\ new_size <= old_size
  BY <1>1, SizesType DEF IsPrefix
<1>3. RestSize = new_size /\ \A j \in 0 .. new_size - 1 : Rest[j] = new[j]
  <2>1. RestSize = new_size
    BY <1>2 DEF RestSize
  <2>. QED
    BY <1>2, <2>1 DEF Rest
<1>4. SP!MatchLen(0) = new_size
  <2>1. 0 \in 0 .. old_size - 1
    BY <1>2
  <2>2. /\ SP!MatchLen(0) \in Nat
        /\ SP!MatchLen(0) <= RestSize
        /\ SP!MatchLen(0) < old_size - 0 /\ SP!MatchLen(0) < RestSize
             => old[0 + SP!MatchLen(0)] # Rest[SP!MatchLen(0)]
    BY <1>1, <2>1, SearchConstants, SP!MatchLenInside
  <2>3. PICK m \in Nat : m = SP!MatchLen(0)
    BY <2>2
  <2>4. m < new_size => old[m] = Rest[m]
    BY <1>2, <1>3 DEF IsPrefix
  <2>. QED
    BY <1>2, <1>3, <2>2, <2>3, <2>4
<1>5. s_len \in Nat /\ s_len >= SP!MatchLen(0) /\ s_len <= RestSize
  BY <1>1 DEF SP!SearchInv, SP!BestOK, SP!BestIsMatch, SP!BestInside, SP!BestBefore
<1>6. ~ Lost
  <2>1. ~ SP!BestBefore
    BY <1>2, <1>3, <1>4, <1>5 DEF SP!BestBefore
  <2>. QED
    BY <1>1, <1>2, <2>1 DEF Lost, SP!BestIsMatch, SP!BestInside
<1>. QED
  BY <1>2, <1>3, <1>4, <1>5, <1>6

\* At the end of new, the record is the whole of new as differences, all zero.
LEMMA PrefixRecord ==
  ASSUME TypeOK, StreamsFit, IsPrefix, NothingWritten, new_pos = new_size, WriteRecord
  PROVE  OneRecord'
<1>1. new_size \in Nat /\ old_size \in Nat /\ new_size <= old_size
  BY SizesType DEF IsPrefix
<1>. DEFINE score == [k \in 0 .. new_size |-> 2 * Agreeing(0, 0, k) - k]
<1>2. FuzzyForward = BestLength(score)
  <2>1. MinOf(new_pos - last_new_pos, old_size - last_old_pos) = new_size
    BY <1>1 DEF MinOf, NothingWritten
  <2>. QED
    BY <2>1 DEF FuzzyForward, NothingWritten
<1>3. \A k \in 0 .. new_size : score[k] = k
  BY <1>1, PrefixAgrees
<1>4. score \in [0 .. new_size -> Int]
  <2>1. \A k \in 0 .. new_size : 2 * Agreeing(0, 0, k) - k \in Int
    BY <1>1, PrefixAgrees
  <2>. QED
    BY <2>1
<1>. HIDE DEF score
<1>5. FuzzyForward = new_size
  <2>1. PICK b \in 0 .. new_size : b = BestLength(score) /\ \A j \in 0 .. new_size : score[j] <= score[b]
    BY <1>1, <1>4, BestLengthSpec
  <2>2. score[new_size] <= score[b] /\ score[b] = b /\ score[new_size] = new_size
    BY <1>1, <1>3, <2>1
  <2>. QED
    BY <1>1, <1>2, <2>1, <2>2
<1>6. FuzzyBackward = 0
  BY BackwardType
<1>7. AddLen = new_size
  <2>1. Overlap = 0
    BY <1>1, <1>5, <1>6 DEF Overlap, NothingWritten
  <2>. QED
    BY <1>5, <2>1 DEF AddLen
<1>8. Len(cb') = 1 /\ dblen' = new_size /\ new_size' = new_size
  BY <1>1, <1>7 DEF WriteRecord, NothingWritten, files
<1>9. ASSUME NEW j \in 0 .. new_size - 1 PROVE db'[j] = 0
  <2>1. db' = [i \in 0 .. 0 + new_size - 1 |->
                 IF i < 0 THEN db[i] ELSE (new[0 + (i - 0)] - old[0 + (i - 0)]) % ByteRange]
    BY <1>7 DEF WriteRecord, NothingWritten
  <2>2. db'[j] = (new[j] - old[j]) % ByteRange
    BY <1>1, <2>1
  <2>3. old[j] \in Int /\ new[j] = old[j]
    BY <1>1 DEF IsPrefix, TypeOK, Byte
  <2>. QED
    BY <2>2, <2>3, MatchAssumption
<1>. QED
  BY <1>8, <1>9 DEF OneRecord

\* The steps of the matcher keep to the course.
LEMMA CourseKept ==
  ASSUME MSInv, IsPrefix, Course, MSNext
  PROVE  Course'
<1>1. TypeOK /\ StreamsFit
  BY DEF MSInv, MatchInv
<1>2. new_size \in Nat \ {0}
  BY <1>1, SizesType
<1>3. CASE Searching
  BY <1>3 DEF Searching, vars, files, scan, last, streams, Course, NothingWritten, OneRecord
<1>4. CASE Scan
  <2>1. spc = "returned" /\ pc = "for" /\ new_pos < new_size
    BY <1>4 DEF Scan, StopScan, Advance
  <2>2. new_pos = 0 /\ new_peek = 0 /\ old_score = 0 /\ NothingWritten
    BY <1>2, <2>1 DEF Course
  <2>3. s_len = new_size /\ ScoreUpTo(s_len) = new_size
    BY <1>1, <2>1, <2>2, PrefixFound, PrefixScore DEF NothingWritten
  <2>4. StopScan([pos |-> s_pos, len |-> s_len])
    BY <1>2, <1>4, <2>3 DEF Scan, Advance, StopsScan
  <2>. QED
    BY <2>2, <2>3, <2>4 DEF StopScan, Course, NothingWritten, files, last, streams
<1>5. CASE MatchStep
  <2>1. CASE NextMatch
    <3>1. new_pos = 0 /\ NothingWritten /\ match_len \in {0, new_size}
      BY <1>2, <2>1 DEF NextMatch, Course
    <3>2. new_pos' \in {0, new_size} /\ new_peek' = new_pos' /\ old_score' = 0 /\ pc' = "for"
      BY <1>2, <2>1, <3>1 DEF NextMatch, ResumeAt, PeekFrom
    <3>. QED
      BY <2>1, <3>1, <3>2 DEF NextMatch, Course, NothingWritten, files, last, streams
  <2>2. CASE EndScan
    BY <1>2, <2>2 DEF EndScan, Course, NothingWritten, files, scan, last, streams
  <2>3. CASE SkipRecord
    BY <1>2, <2>3 DEF SkipRecord, NeedsRecord, Course, NothingWritten, files, scan, last, streams
  <2>4. CASE WriteRecord
    <3>1. new_pos = new_size /\ NothingWritten
      BY <1>2, <2>4 DEF WriteRecord, NeedsRecord, Course
    <3>2. OneRecord'
      BY <1>1, <2>4, <3>1, PrefixRecord
    <3>. QED
      BY <2>4, <3>1, <3>2 DEF WriteRecord, Course, files, scan
  <2>5. CASE Finish
    BY <1>2, <2>5 DEF Finish, Course, OneRecord, files, scan, last, streams
  <2>6. CASE Returned
    BY <2>6 DEF Returned, vars, files, scan, last, streams, Course, NothingWritten, OneRecord
  <2>. QED
    BY <1>5, <2>1, <2>2, <2>3, <2>4, <2>5, <2>6 DEF MatchStep
<1>6. CASE Undefined
  BY <1>6 DEF Undefined, allvars, vars, files, scan, last, streams, Course, NothingWritten, OneRecord
<1>. QED
  BY <1>3, <1>4, <1>5, <1>6 DEF MSNext

\* A file compared with itself, or with a longer one that starts like it, costs
\* one record, which copies nothing, whatever its size and contents and whatever
\* lies behind the suffix array.
THEOREM PrefixCostsOneRecord == MSSpec => []PrefixIsOneRecord
<1>1. MSInit => (IsPrefix => Course)
  BY DEF MSInit, Init, Course, NothingWritten
<1>2. MSInv /\ (IsPrefix => Course) /\ [MSNext]_allvars => (IsPrefix => Course)'
  <2>. SUFFICES ASSUME MSInv, IsPrefix => Course, [MSNext]_allvars, IsPrefix'
                PROVE  Course'
    OBVIOUS
  <2>1. [Next]_vars
    BY StepsImplement
  <2>2. UNCHANGED files
    BY <2>1 DEF Next, StopScan, Advance, NextMatch, EndScan, SkipRecord, WriteRecord,
                Finish, Returned, vars
  <2>3. IsPrefix
    BY <2>2 DEF IsPrefix, files
  <2>4. CASE UNCHANGED allvars
    BY <2>3, <2>4 DEF allvars, vars, files, scan, last, streams, Course, NothingWritten, OneRecord
  <2>. QED
    BY <2>3, <2>4, CourseKept
<1>3. MSInv /\ (IsPrefix => Course) => PrefixIsOneRecord
  <2>. SUFFICES ASSUME MSInv, IsPrefix, Course PROVE ~ Lost /\ (pc = "done" => OneRecord)
    BY DEF IsPrefix, PrefixIsOneRecord, OneRecord
  <2>1. pc = "done" => OneRecord
    BY DEF Course
  <2>2. ASSUME Lost PROVE FALSE
    <3>1. spc = "returned" /\ pc = "for" /\ new_pos < new_size
      BY <2>2 DEF Lost, MSInv, SearchInScan
    <3>2. new_size \in Nat
      BY SizesType DEF MSInv, MatchInv
    <3>3. new_pos = 0
      BY <3>1, <3>2 DEF Course
    <3>. QED
      BY <2>2, <3>1, <3>3, PrefixFound
  <2>. QED
    BY <2>1, <2>2
<1>. QED
  BY <1>1, <1>2, <1>3, MSInvariance, PTL DEF MSSpec

=============================================================================

-------------------------- MODULE RoundTripProofs --------------------------
(***************************************************************************)
(* Proofs about module RoundTrip, for files of every size, bytes of every  *)
(* range and every margin: what qbdiff writes, qbpatch turns back into the *)
(* new file.                                                               *)
(***************************************************************************)
EXTENDS RoundTrip, MatchProofs

-----------------------------------------------------------------------------
(***************************************************************************)
(* The inductive invariant: what the matcher has written.                  *)
(***************************************************************************)
\* The three numbers of control record k, as they are read back.
AddOf(k)  == Ri64(cb[k].add)
CopyOf(k) == Ri64(cb[k].copy)
SeekOf(k) == Ri64(cb[k].seek)

\* The five positions of the matcher, or of qbdiff_patch, at a record.
Positions == [new : Nat, old : Nat, cb : Nat, db : Nat, eb : Nat]

\* Where record k leads from position p.
Behind(p, k) == [new |-> p.new + AddOf(k) + CopyOf(k),
                 old |-> p.old + AddOf(k) + SeekOf(k),
                 cb  |-> k,
                 db  |-> p.db + AddOf(k),
                 eb  |-> p.eb + CopyOf(k)]

\* Each record begins where the one before it leads, and the last one leads to
\* where the matcher is.
Chained ==
  /\ starts \in Seq(Positions)
  /\ Len(starts) = Len(cb) + 1
  /\ starts[1] = [new |-> 0, old |-> 0, cb |-> 0, db |-> 0, eb |-> 0]
  /\ starts[Len(cb) + 1] = Here
  /\ \A k \in 1 .. Len(cb) : starts[k + 1] = Behind(starts[k], k)

\* Each record accounts for bytes that are inside both files and in the streams.
RecordsInside ==
  \A k \in 1 .. Len(cb) :
    /\ AddOf(k) \in Nat /\ CopyOf(k) \in Nat /\ SeekOf(k) \in Int
    /\ starts[k].cb = k - 1
    /\ starts[k].new + AddOf(k) + CopyOf(k) <= last_new_pos
    /\ starts[k].old + AddOf(k) <= old_size
    /\ starts[k].old + AddOf(k) + SeekOf(k) \in 0 .. old_size - 1
    /\ starts[k].db + AddOf(k) <= dblen
    /\ starts[k].eb + CopyOf(k) <= eblen

\* The differences of a record are those between the bytes of new and old that
\* it stands for, and its extra bytes are the bytes of new behind them.
StreamBytes ==
  \A k \in 1 .. Len(cb) :
    /\ \A j \in 0 .. AddOf(k) - 1 :
         db[starts[k].db + j]
           = (new[starts[k].new + j] - old[starts[k].old + j]) % ByteRange
    /\ \A j \in 0 .. CopyOf(k) - 1 :
         eb[starts[k].eb + j] = new[starts[k].new + AddOf(k) + j]

WriterInv == MatchInv /\ Chained /\ RecordsInside /\ StreamBytes

-----------------------------------------------------------------------------
(***************************************************************************)
(* The inductive invariant: what qbdiff_patch makes of it.                 *)
(***************************************************************************)
StreamDelta == [magic |-> "QBDB1", cksum |-> P!Cksum(new),
                old_size |-> Wi64(old_size), new_size |-> Wi64(new_size),
                cb |-> cb, db |-> db, eb |-> eb]

FullDelta == [magic |-> "QBDF1", cksum |-> P!Cksum(new),
              new_size |-> Wi64(new_size), full |-> new]

\* The delta is written once, when the matcher has returned, and never delivered
\* before that.
DeltaWritten ==
  \/ delta = [magic |-> "none"] /\ ppc = "idle"
  \/ pc = "done" /\ delta \in {StreamDelta, FullDelta}

\* Where qbdiff_patch is: nothing is applied before the streams are unpacked, and
\* they are not unpacked unless the delta is whole and old has the right size.
Stages ==
  /\ ppc \in {"idle", "open", "unpack", "apply", "verify", "returned"}
  /\ ppc # "idle" => base_size = Cardinality(DOMAIN base)
  /\ ppc \in {"idle", "open", "unpack"} =>
       p_new_pos = 0 /\ p_old_pos = 0 /\ cb_off = 0 /\ db_off = 0 /\ eb_off = 0
  /\ ppc \in {"unpack", "apply"} => P!Big
  /\ ppc \in {"unpack", "apply", "verify"} => received = "whole"
  /\ ppc \in {"unpack", "apply", "verify"} /\ P!Big => base_size = old_size

\* While it applies records, qbdiff_patch is where the matcher was at the same
\* record, and with the right old file it has restored what is behind it.
Restoring ==
  ppc \in {"apply", "verify"} /\ P!Big =>
    /\ cb_off \in 0 .. Len(cb)
    /\ starts[cb_off + 1] = [new |-> p_new_pos, old |-> p_old_pos, cb |-> cb_off,
                             db |-> db_off, eb |-> eb_off]
    /\ new_data = [j \in 0 .. new_size - 1 |-> new_data[j]]
    /\ base = old => \A j \in 0 .. p_new_pos - 1 : new_data[j] = new[j]

\* When it comes to verify the right old file has led to the new one.
Restored ==
  ppc = "verify" /\ (P!Full \/ base = old) => new_data = new

\* Nothing is written before qbdiff_patch returns.
Results ==
  /\ ppc # "returned" => result = "none" /\ new_file = P!EmptyFile
  /\ NothingButNew
  /\ WrongOldCaughtByChecksum
  /\ RestoresNew

RTInv == WriterInv /\ DeltaWritten /\ Stages /\ Restoring /\ Restored /\ Results

-----------------------------------------------------------------------------
(***************************************************************************)
(* The matcher keeps its part.                                             *)
(***************************************************************************)
\* Every record is followed by a start, so the records and starts are indexed
\* from one.
LEMMA ChainIndices ==
  ASSUME TypeOK, Chained
  PROVE  /\ Len(cb) \in Nat
         /\ \A k \in 1 .. Len(cb) + 1 : starts[k] \in Positions
<1>1. Len(cb) \in Nat
  BY LenProperties DEF TypeOK
<1>2. \A k \in 1 .. Len(starts) : starts[k] \in Positions
  BY ElementOfSeq DEF Chained
<1>. QED
  BY <1>1, <1>2 DEF Chained

\* A step of the matcher that does not write a record leaves alone what the
\* records and streams are about.
LEMMA OnlyWriteRecordWrites ==
  Next => WriteRecord \/ UNCHANGED <<files, last, streams>>
BY DEF Next, NextMatch, StopScan, Advance, EndScan, SkipRecord, Finish, Returned,
       vars, files, scan, last, streams

\* What the writer knows depends on the files, the streams and the last alignment
\* only.
LEMMA WriterUntouched ==
  ASSUME WriterInv, MatchInv', UNCHANGED <<files, last, streams, starts>>
  PROVE  WriterInv'
<1>. USE DEF files, last, streams
<1>1. Chained'
  BY DEF WriterInv, Chained, Here, Behind, AddOf, CopyOf, SeekOf
<1>2. RecordsInside'
  BY DEF WriterInv, RecordsInside, AddOf, CopyOf, SeekOf
<1>3. StreamBytes'
  BY DEF WriterInv, StreamBytes, AddOf, CopyOf, SeekOf
<1>. QED
  BY <1>1, <1>2, <1>3 DEF WriterInv

\* A written record leads from where the last one ended to where the matcher is
\* now, and the bytes that it adds to the streams are those it stands for.
LEMMA WriterExtended ==
  ASSUME WriterInv, WriteRecord, MatchInv', starts' = Append(starts, Here')
  PROVE  WriterInv'
<1>. DEFINE r == [add |-> Wi64(AddLen), copy |-> Wi64(CopyLen), seek |-> Wi64(Seek)]
<1>1. TypeOK /\ StreamsFit /\ Chained /\ RecordsInside /\ StreamBytes /\ TypeOK'
  BY DEF WriterInv, MatchInv
<1>2. /\ AddLen \in Nat /\ BackLen \in Nat /\ CopyLen \in Nat
      /\ AddLen + CopyLen + BackLen = new_pos - last_new_pos
      /\ AddLen <= old_size - last_old_pos
      /\ AddLen \in Int64 /\ CopyLen \in Int64 /\ Seek \in Int64
  BY <1>1, RecordFits
<1>3. Ri64(r.add) = AddLen /\ Ri64(r.copy) = CopyLen /\ Ri64(r.seek) = Seek
  BY <1>2, Ri64OfWi64
<1>4. /\ old_size \in Nat /\ new_size \in Nat /\ new_pos \in Nat /\ old_pos \in Nat
      /\ last_new_pos \in Nat /\ last_old_pos \in Nat /\ dblen \in Nat /\ eblen \in Nat
      /\ Seek \in Int
  <2>1. TypeOK
    BY <1>1
  <2>2. Seek \in Int
    BY <1>2, HalfAssumption DEF Int64
  <2>. HIDE DEF r
  <2>. QED
    BY <2>1, <2>2, SizesType DEF TypeOK
<1>5. /\ last_new_pos' = last_new_pos + AddLen + CopyLen
      /\ last_old_pos' = last_old_pos + AddLen + Seek
      /\ dblen' = dblen + AddLen /\ eblen' = eblen + CopyLen
      /\ UNCHANGED <<old_size, new_size, old, new>>
  BY <1>2, <1>4 DEF WriteRecord, Seek, files
<1>6. cb \in Seq(Records) /\ cb' = Append(cb, r) /\ Len(cb) \in Nat
  BY <1>1, ChainIndices DEF WriteRecord, TypeOK
<1>7. PICK n \in Nat : n = Len(cb)
  BY <1>6
<1>8. r \in Records
  BY <1>2, Ri64OfWi64 DEF Records
<1>.  HIDE DEF r
<1>9. Len(cb') = n + 1 /\ cb'[n + 1] = r /\ \A k \in 1 .. n : cb'[k] = cb[k]
  BY <1>6, <1>7, <1>8, AppendProperties
<1>10. Here' \in Positions
  <2>1. last_new_pos' \in Nat /\ last_old_pos' \in Nat /\ dblen' \in Nat /\ eblen' \in Nat
    BY <1>2, <1>4, <1>5, <1>1 DEF TypeOK
  <2>2. Len(cb') \in Nat
    BY <1>7, <1>9
  <2>. QED
    BY <2>1, <2>2 DEF Here, Positions
<1>11. /\ starts' \in Seq(Positions)
       /\ Len(starts') = n + 2 /\ starts'[n + 2] = Here'
       /\ \A k \in 1 .. n + 1 : starts'[k] = starts[k]
  <2>1. starts \in Seq(Positions) /\ Len(starts) = n + 1
    BY <1>1, <1>7 DEF Chained
  <2>2. /\ starts' \in Seq(Positions)
        /\ Len(starts') = Len(starts) + 1 /\ starts'[Len(starts) + 1] = Here'
        /\ \A k \in 1 .. Len(starts) : starts'[k] = starts[k]
    BY <1>10, <2>1, AppendProperties
  <2>. QED
    BY <1>7, <2>1, <2>2
<1>12. \A k \in 1 .. n : AddOf(k)' = AddOf(k) /\ CopyOf(k)' = CopyOf(k) /\ SeekOf(k)' = SeekOf(k)
  BY <1>9 DEF AddOf, CopyOf, SeekOf, Ri64
<1>13. AddOf(n + 1)' = AddLen /\ CopyOf(n + 1)' = CopyLen /\ SeekOf(n + 1)' = Seek
  BY <1>3, <1>9 DEF AddOf, CopyOf, SeekOf, Ri64
<1>14. /\ starts[n + 1] = starts'[n + 1]
       /\ starts'[n + 1] = [new |-> last_new_pos, old |-> last_old_pos, cb |-> n,
                            db |-> dblen, eb |-> eblen]
  BY <1>1, <1>7, <1>11 DEF Chained, Here
<1>15. Here' = [new |-> last_new_pos + AddLen + CopyLen, old |-> last_old_pos + AddLen + Seek,
                cb |-> n + 1, db |-> dblen + AddLen, eb |-> eblen + CopyLen]
  BY <1>5, <1>9 DEF Here
<1>16. Chained'
  <2>1. starts'[1] = starts[1]
    BY <1>11
  <2>2. ASSUME NEW k \in 1 .. n
        PROVE  starts'[k + 1] = Behind(starts[k], k)'
    BY <1>1, <1>7, <1>11, <1>12, <2>2 DEF Chained, Behind
  <2>3. starts'[n + 2] = Behind(starts[n + 1], n + 1)'
    BY <1>11, <1>13, <1>14, <1>15 DEF Behind, Here
  <2>4. ASSUME NEW k \in 1 .. n + 1
        PROVE  starts'[k + 1] = Behind(starts[k], k)'
    <3>1. CASE k = n + 1
      <4>1. k + 1 = n + 2
        BY <3>1
      <4>. QED
        BY <2>3, <3>1, <4>1 DEF Behind, AddOf, CopyOf, SeekOf, Ri64
    <3>2. CASE k \in 1 .. n
      BY <2>2, <3>2
    <3>3. k \in 1 .. n \/ k = n + 1
      BY <2>4, <1>7
    <3>. QED
      BY <3>1, <3>2, <3>3
  <2>5. Len(starts') = Len(cb') + 1 /\ starts'[Len(cb') + 1] = Here'
    BY <1>9, <1>11
  <2>. QED
    BY <1>1, <1>9, <1>11, <2>1, <2>4, <2>5 DEF Chained
<1>17. RecordsInside'
  <2>. DEFINE Inside(k) ==
         /\ AddOf(k) \in Nat /\ CopyOf(k) \in Nat /\ SeekOf(k) \in Int
         /\ starts[k].cb = k - 1
         /\ starts[k].new + AddOf(k) + CopyOf(k) <= last_new_pos
         /\ starts[k].old + AddOf(k) <= old_size
         /\ starts[k].old + AddOf(k) + SeekOf(k) \in 0 .. old_size - 1
         /\ starts[k].db + AddOf(k) <= dblen
         /\ starts[k].eb + CopyOf(k) <= eblen
  <2>1. ASSUME NEW k \in 1 .. n PROVE Inside(k)'
    <3>1. Inside(k)
      BY <1>1, <1>7 DEF RecordsInside
    <3>2. starts[k] \in Positions
      BY <1>1, <1>7, ChainIndices
    <3>3. /\ starts[k].new \in Nat /\ starts[k].old \in Nat
          /\ starts[k].db \in Nat /\ starts[k].eb \in Nat
      BY <3>2 DEF Positions
    <3>4. starts'[k] = starts[k]
      BY <1>11
    <3>5. AddOf(k)' = AddOf(k) /\ CopyOf(k)' = CopyOf(k) /\ SeekOf(k)' = SeekOf(k)
      BY <1>12
    <3>6. /\ AddOf(k) \in Nat /\ CopyOf(k) \in Nat /\ SeekOf(k) \in Int
          /\ last_new_pos <= last_new_pos' /\ dblen <= dblen' /\ eblen <= eblen'
          /\ last_new_pos' \in Nat /\ dblen' \in Nat /\ eblen' \in Nat /\ old_size' = old_size
      BY <1>2, <1>4, <1>5, <3>1
    <3>7. starts[k].new + AddOf(k) + CopyOf(k) <= last_new_pos'
      <4>1. starts[k].new + AddOf(k) + CopyOf(k) <= last_new_pos
        BY <3>1
      <4>2. starts[k].new + AddOf(k) + CopyOf(k) \in Int
        BY <3>3, <3>6
      <4>. QED
        BY <1>4, <3>6, <4>1, <4>2
    <3>8. /\ starts[k].old + AddOf(k) <= old_size'
          /\ starts[k].old + AddOf(k) + SeekOf(k) \in 0 .. old_size' - 1
      BY <3>1, <3>6
    <3>9. starts[k].db + AddOf(k) <= dblen'
      <4>1. starts[k].db + AddOf(k) <= dblen
        BY <3>1
      <4>2. starts[k].db + AddOf(k) \in Int
        BY <3>3, <3>6
      <4>. QED
        BY <1>4, <3>6, <4>1, <4>2
    <3>10. starts[k].eb + CopyOf(k) <= eblen'
      <4>1. starts[k].eb + CopyOf(k) <= eblen
        BY <3>1
      <4>2. starts[k].eb + CopyOf(k) \in Int
        BY <3>3, <3>6
      <4>. QED
        BY <1>4, <3>6, <4>1, <4>2
    <3>. QED
      BY <3>1, <3>4, <3>5, <3>7, <3>8, <3>9, <3>10
  <2>2. ASSUME NEW k, k = n + 1 PROVE Inside(k)'
    <3>1. AddOf(k)' = AddLen /\ CopyOf(k)' = CopyLen /\ SeekOf(k)' = Seek
      BY <1>13, <2>2 DEF AddOf, CopyOf, SeekOf, Ri64
    <3>2. starts'[k] = [new |-> last_new_pos, old |-> last_old_pos, cb |-> n,
                        db |-> dblen, eb |-> eblen]
      BY <1>14, <2>2
    <3>3. starts'[k].new = last_new_pos /\ starts'[k].old = last_old_pos
      BY <3>2
    <3>4. starts'[k].db = dblen /\ starts'[k].eb = eblen
      BY <3>2
    <3>5. starts'[k].cb = n
      BY <3>2
    <3>6. starts'[k].cb = k - 1
      BY <2>2, <3>5
    <3>7. last_old_pos' \in 0 .. old_size' - 1
      BY <1>1 DEF TypeOK
    <3>8. AddOf(k)' \in Nat /\ CopyOf(k)' \in Nat /\ SeekOf(k)' \in Int
      BY <1>2, <1>4, <3>1
    <3>9. /\ starts'[k].new + AddOf(k)' + CopyOf(k)' <= last_new_pos'
          /\ starts'[k].db + AddOf(k)' <= dblen' /\ starts'[k].eb + CopyOf(k)' <= eblen'
      BY <1>2, <1>4, <1>5, <3>1, <3>3, <3>4
    <3>10. /\ starts'[k].old + AddOf(k)' <= old_size'
           /\ starts'[k].old + AddOf(k)' + SeekOf(k)' = last_old_pos'
      BY <1>2, <1>4, <1>5, <3>1, <3>3
    <3>. QED
      BY <3>6, <3>7, <3>8, <3>9, <3>10
  <2>3. \A k \in 1 .. n + 1 : k \in 1 .. n \/ k = n + 1
    BY <1>7
  <2>4. \A k \in 1 .. n + 1 : Inside(k)'
    BY <2>1, <2>2, <2>3
  <2>. QED
    BY <1>9, <2>4 DEF RecordsInside
<1>18. /\ \A i \in 0 .. dblen - 1 : db'[i] = db[i]
       /\ \A j \in 0 .. AddLen - 1 :
            db'[dblen + j] = (new[last_new_pos + j] - old[last_old_pos + j]) % ByteRange
  <2>1. ASSUME NEW i \in 0 .. dblen - 1 PROVE db'[i] = db[i]
    <3>1. i \in 0 .. dblen + AddLen - 1 /\ i < dblen
      BY <1>2, <1>4
    <3>. QED
      BY <3>1 DEF WriteRecord
  <2>2. ASSUME NEW j \in 0 .. AddLen - 1
        PROVE  db'[dblen + j] = (new[last_new_pos + j] - old[last_old_pos + j]) % ByteRange
    <3>1. /\ dblen + j \in 0 .. dblen + AddLen - 1
          /\ ~ (dblen + j < dblen) /\ (dblen + j) - dblen = j
      BY <1>2, <1>4
    <3>. QED
      BY <3>1 DEF WriteRecord
  <2>. QED
    BY <2>1, <2>2
<1>19. /\ \A i \in 0 .. eblen - 1 : eb'[i] = eb[i]
       /\ \A j \in 0 .. CopyLen - 1 : eb'[eblen + j] = new[last_new_pos + AddLen + j]
  <2>1. ASSUME NEW i \in 0 .. eblen - 1 PROVE eb'[i] = eb[i]
    <3>1. i \in 0 .. eblen + CopyLen - 1 /\ i < eblen
      BY <1>2, <1>4
    <3>. QED
      BY <3>1 DEF WriteRecord
  <2>2. ASSUME NEW j \in 0 .. CopyLen - 1
        PROVE  eb'[eblen + j] = new[last_new_pos + AddLen + j]
    <3>1. /\ eblen + j \in 0 .. eblen + CopyLen - 1
          /\ ~ (eblen + j < eblen) /\ (eblen + j) - eblen = j
      BY <1>2, <1>4
    <3>. QED
      BY <3>1 DEF WriteRecord
  <2>. QED
    BY <2>1, <2>2
<1>20. StreamBytes'
  <2>. DEFINE Bytes(k) ==
         /\ \A j \in 0 .. AddOf(k) - 1 :
              db[starts[k].db + j]
                = (new[starts[k].new + j] - old[starts[k].old + j]) % ByteRange
         /\ \A j \in 0 .. CopyOf(k) - 1 :
              eb[starts[k].eb + j] = new[starts[k].new + AddOf(k) + j]
  <2>1. ASSUME NEW k \in 1 .. n PROVE Bytes(k)'
    <3>1. Bytes(k)
      BY <1>1, <1>7 DEF StreamBytes
    <3>2. starts[k] \in Positions
      BY <1>1, <1>7, ChainIndices
    <3>3. starts[k].db \in Nat /\ starts[k].eb \in Nat
      BY <3>2 DEF Positions
    <3>4. /\ AddOf(k) \in Nat /\ CopyOf(k) \in Nat
          /\ starts[k].db + AddOf(k) <= dblen
          /\ starts[k].eb + CopyOf(k) <= eblen
      BY <1>1, <1>7 DEF RecordsInside
    <3>5. \A j \in 0 .. AddOf(k) - 1 : starts[k].db + j \in 0 .. dblen - 1
      <4>1. PICK x \in Nat, a \in Nat : x = starts[k].db /\ a = AddOf(k) /\ x + a <= dblen
        BY <3>3, <3>4
      <4>2. dblen \in Nat
        BY <1>4
      <4>3. \A j \in 0 .. a - 1 : x + j \in 0 .. dblen - 1
        BY <4>1, <4>2
      <4>. QED
        BY <4>1, <4>3
    <3>6. \A j \in 0 .. CopyOf(k) - 1 : starts[k].eb + j \in 0 .. eblen - 1
      <4>1. PICK x \in Nat, a \in Nat : x = starts[k].eb /\ a = CopyOf(k) /\ x + a <= eblen
        BY <3>3, <3>4
      <4>2. eblen \in Nat
        BY <1>4
      <4>3. \A j \in 0 .. a - 1 : x + j \in 0 .. eblen - 1
        BY <4>1, <4>2
      <4>. QED
        BY <4>1, <4>3
    <3>7. starts'[k] = starts[k]
      BY <1>11
    <3>8. AddOf(k)' = AddOf(k) /\ CopyOf(k)' = CopyOf(k) /\ new' = new /\ old' = old
      BY <1>5, <1>12
    <3>9. ASSUME NEW j \in 0 .. AddOf(k) - 1
          PROVE  db'[starts[k].db + j]
                   = (new[starts[k].new + j] - old[starts[k].old + j]) % ByteRange
      BY <1>18, <3>1, <3>5
    <3>10. ASSUME NEW j \in 0 .. CopyOf(k) - 1
           PROVE  eb'[starts[k].eb + j] = new[starts[k].new + AddOf(k) + j]
      BY <1>19, <3>1, <3>6
    <3>. QED
      BY <3>7, <3>8, <3>9, <3>10
  <2>2. ASSUME NEW k, k = n + 1 PROVE Bytes(k)'
    <3>1. AddOf(k)' = AddLen /\ CopyOf(k)' = CopyLen
      BY <1>13, <2>2 DEF AddOf, CopyOf, Ri64
    <3>2. starts'[k] = [new |-> last_new_pos, old |-> last_old_pos, cb |-> n,
                        db |-> dblen, eb |-> eblen]
      BY <1>14, <2>2
    <3>3. starts'[k].new = last_new_pos /\ starts'[k].old = last_old_pos
      BY <3>2
    <3>4. starts'[k].db = dblen /\ starts'[k].eb = eblen
      BY <3>2
    <3>5. new' = new /\ old' = old
      BY <1>5
    <3>. QED
      BY <1>18, <1>19, <3>1, <3>3, <3>4, <3>5
  <2>3. \A k \in 1 .. n + 1 : k \in 1 .. n \/ k = n + 1
    BY <1>7
  <2>4. \A k \in 1 .. n + 1 : Bytes(k)'
    BY <2>1, <2>2, <2>3
  <2>. QED
    BY <1>9, <2>4 DEF StreamBytes
<1>. QED
  BY <1>16, <1>17, <1>20 DEF WriterInv
\* Whatever the matcher does, its part of the invariant is kept.
LEMMA WriterPreserved ==
  ASSUME WriterInv, Matching
  PROVE  WriterInv' /\ UNCHANGED files
<1>1. MatchInv'
  BY NextPreserves DEF WriterInv, Matching
<1>2. CASE WriteRecord
  <2>1. cb \in Seq(Records) /\ Len(cb) \in Nat
    BY ChainIndices DEF WriterInv, MatchInv, TypeOK
  <2>2. TypeOK /\ StreamsFit
    BY DEF WriterInv, MatchInv
  <2>3. Wi64(AddLen) \in Word /\ Wi64(CopyLen) \in Word /\ Wi64(Seek) \in Word
    BY <2>2, RecordFits, Ri64OfWi64
  <2>4. [add |-> Wi64(AddLen), copy |-> Wi64(CopyLen), seek |-> Wi64(Seek)] \in Records
    BY <2>3 DEF Records
  <2>5. Len(cb') = Len(cb) + 1
    BY <1>2, <2>1, <2>4, AppendProperties DEF WriteRecord
  <2>6. cb' # cb
    BY <2>1, <2>5
  <2>7. starts' = Append(starts, Here')
    BY <2>6 DEF Matching
  <2>. QED
    BY <1>1, <1>2, <2>7, WriterExtended DEF WriteRecord
<1>3. CASE UNCHANGED <<files, last, streams>>
  <2>1. UNCHANGED starts
    BY <1>3 DEF streams, Matching
  <2>. QED
    BY <1>1, <1>3, <2>1, WriterUntouched
<1>. QED
  BY <1>2, <1>3, OnlyWriteRecordWrites DEF Matching

\* While the matcher runs there is no delta and qbdiff_patch has not begun.
LEMMA MatchingPreserves == RTInv /\ Matching => RTInv'
<1>. SUFFICES ASSUME RTInv, Matching PROVE RTInv'
  OBVIOUS
<1>. USE DEF files, patching
<1>1. WriterInv' /\ UNCHANGED files
  BY WriterPreserved DEF RTInv
<1>2. ppc = "idle" /\ UNCHANGED <<delta, patching>>
  BY DEF Matching
<1>3. DeltaWritten'
  <2>1. CASE delta = [magic |-> "none"]
    BY <1>2, <2>1 DEF DeltaWritten
  <2>2. CASE pc = "done" /\ delta \in {StreamDelta, FullDelta}
    <3>1. UNCHANGED vars
      BY <2>2 DEF Matching, Next, NextMatch, StopScan, Advance, EndScan, SkipRecord,
                  WriteRecord, Finish, Returned
    <3>. QED
      BY <1>2, <2>2, <3>1 DEF DeltaWritten, StreamDelta, FullDelta, P!Cksum, Wi64, vars, streams
  <2>. QED
    BY <2>1, <2>2 DEF RTInv, DeltaWritten
<1>4. Stages'
  BY <1>2 DEF RTInv, Stages
<1>5. Restoring' /\ Restored'
  BY <1>2 DEF Restoring, Restored
<1>6. Results'
  BY <1>1, <1>2 DEF RTInv, Results, NothingButNew, WrongOldCaughtByChecksum, RestoresNew,
                    P!EmptyFile
<1>. QED
  BY <1>1, <1>3, <1>4, <1>5, <1>6 DEF RTInv

-----------------------------------------------------------------------------
(***************************************************************************)
(* Writing the delta and delivering it.                                    *)
(***************************************************************************)
\* The matcher's part does not depend on anything else.
LEMMA WriterSame ==
  ASSUME WriterInv, UNCHANGED <<vars, starts>>
  PROVE  WriterInv'
<1>1. MatchInv'
  BY NextPreserves DEF WriterInv
<1>. QED
  BY <1>1, WriterUntouched DEF vars

\* The delta describes the streams the matcher has written.
LEMMA EncodePreserves == RTInv /\ Encode => RTInv'
<1>. SUFFICES ASSUME RTInv, Encode PROVE RTInv'
  OBVIOUS
<1>. USE DEF vars, files, streams, patching
<1>1. WriterInv'
  BY WriterSame DEF RTInv, Encode
<1>2. delta = [magic |-> "none"] /\ ppc = "idle" /\ ppc' = "idle"
  BY DEF RTInv, Encode, DeltaWritten, StreamDelta, FullDelta
<1>3. DeltaWritten'
  BY DEF Encode, DeltaWritten, StreamDelta, FullDelta, P!Cksum, Wi64
<1>4. Stages'
  BY <1>2 DEF RTInv, Encode, Stages
<1>5. Restoring' /\ Restored'
  BY <1>2 DEF Restoring, Restored
<1>6. Results'
  BY <1>2 DEF RTInv, Encode, Results, NothingButNew, WrongOldCaughtByChecksum, RestoresNew,
              P!EmptyFile
<1>. QED
  BY <1>1, <1>3, <1>4, <1>5, <1>6 DEF RTInv

\* The delta is handed over as it was written, or the first part of it.
LEMMA DeliverPreserves == RTInv /\ Deliver => RTInv'
<1>. SUFFICES ASSUME RTInv, Deliver PROVE RTInv'
  OBVIOUS
<1>. USE DEF vars, files, streams
<1>1. WriterInv'
  BY WriterSame DEF RTInv, Deliver
<1>2. ppc = "idle" /\ ppc' = "open" /\ delta.magic # "none"
  BY DEF Deliver, P!Call
<1>3. UNCHANGED <<delta, new_data, p_new_pos, p_old_pos, cb_off, db_off, eb_off, result,
                  new_file>>
  BY DEF Deliver, P!Call, P!offsets
<1>4. DeltaWritten'
  <2>1. pc = "done" /\ delta \in {StreamDelta, FullDelta}
    BY <1>2 DEF RTInv, DeltaWritten
  <2>. QED
    BY <2>1 DEF Deliver, DeltaWritten, StreamDelta, FullDelta, P!Cksum, Wi64
<1>5. Stages'
  <2>1. old_size = Cardinality(DOMAIN old)
    <3>1. DOMAIN old = 0 .. old_size - 1 /\ old_size \in Nat
      BY SizesType DEF RTInv, WriterInv, MatchInv, TypeOK
    <3>2. Cardinality(0 .. old_size - 1) = IF 0 > old_size - 1 THEN 0 ELSE (old_size - 1) - 0 + 1
      BY <3>1, FS_Interval
    <3>. QED
      BY <3>1, <3>2
  <2>2. base_size' = Cardinality(DOMAIN base')
    BY <2>1 DEF Deliver, P!Call
  <2>. QED
    BY <1>2, <1>3, <2>2 DEF RTInv, Stages
<1>6. Restoring' /\ Restored'
  BY <1>2 DEF Restoring, Restored
<1>7. Results'
  <2>1. new' = new
    BY DEF Deliver
  <2>. QED
    BY <1>2, <1>3, <2>1 DEF RTInv, Results, NothingButNew, WrongOldCaughtByChecksum,
                            RestoresNew, P!EmptyFile
<1>. QED
  BY <1>1, <1>4, <1>5, <1>6, <1>7 DEF RTInv

-----------------------------------------------------------------------------
(***************************************************************************)
(* qbdiff_patch: what it finds in the delta.                               *)
(***************************************************************************)
\* Once the delta is delivered, it is of one of the two kinds, and its header
\* holds the sizes and the checksum of the files it was made from.
LEMMA DeltaRead ==
  ASSUME RTInv, ppc # "idle"
  PROVE  /\ pc = "done" /\ last_new_pos = new_size
         /\ (P!Big /\ ~P!Full /\ delta = StreamDelta) \/ (P!Full /\ ~P!Big /\ delta = FullDelta)
         /\ delta.cksum = P!Cksum(new)
         /\ P!NewSize = new_size
         /\ P!Big => P!OldSize = old_size
         /\ base = old => base_size = old_size
<1>1. pc = "done" /\ delta \in {StreamDelta, FullDelta}
  BY DEF RTInv, DeltaWritten
<1>2. last_new_pos = new_size
  BY <1>1 DEF RTInv, WriterInv, MatchInv, CoveredAtEnd
<1>3. /\ (P!Big /\ ~P!Full /\ delta = StreamDelta) \/ (P!Full /\ ~P!Big /\ delta = FullDelta)
      /\ delta.cksum = P!Cksum(new)
  BY <1>1 DEF P!Big, P!Full, StreamDelta, FullDelta
<1>4. old_size \in Int64 /\ new_size \in Int64 /\ old_size \in Nat
  BY SizesType, HalfAssumption DEF RTInv, WriterInv, MatchInv, TypeOK, Int64
<1>5. Ri64(Wi64(old_size)) = old_size /\ Ri64(Wi64(new_size)) = new_size
  BY <1>4, Ri64OfWi64
<1>6. delta.new_size = Wi64(new_size) /\ (P!Big => delta.old_size = Wi64(old_size))
  BY <1>3 DEF StreamDelta, FullDelta
<1>7. P!NewSize = new_size /\ (P!Big => P!OldSize = old_size)
  BY <1>5, <1>6 DEF P!NewSize, P!OldSize, P!Ri64, Ri64
<1>8. ASSUME base = old PROVE base_size = old_size
  <2>1. DOMAIN old = 0 .. old_size - 1
    BY DEF RTInv, WriterInv, MatchInv, TypeOK
  <2>2. Cardinality(0 .. old_size - 1) = IF 0 > old_size - 1 THEN 0 ELSE (old_size - 1) - 0 + 1
    BY <1>4, FS_Interval
  <2>3. base_size = Cardinality(DOMAIN base)
    BY DEF RTInv, Stages
  <2>. QED
    BY <1>4, <1>8, <2>1, <2>2, <2>3
<1>. QED
  BY <1>1, <1>2, <1>3, <1>7, <1>8

\* A step of qbdiff_patch leaves the delta and what it was made from alone.
LEMMA PatchingFrame ==
  ASSUME RTInv, Patching
  PROVE  /\ WriterInv' /\ ppc # "idle"
         /\ DeltaWritten'
         /\ (P!Big)' = P!Big /\ (P!Full)' = P!Full
<1>1. ppc # "idle"
  BY DEF Patching, P!PNext, P!TooShort, P!BadMagic, P!FullFails, P!FullUnpack,
         P!HeaderMissing, P!WrongOldSize, P!StreamsMissing, P!AllocFails, P!Allocate,
         P!UnpackStream, P!UnpackFails, P!Unpack, P!RefuseRecord, P!ApplyRecord, P!EndApply,
         P!Mismatch, P!Write, P!WriteFails, P!PReturned, P!HeaderFits, P!HeaderRead
<1>2. WriterInv'
  BY WriterSame DEF RTInv, Patching
<1>3. pc = "done" /\ delta \in {StreamDelta, FullDelta}
  BY <1>1 DEF RTInv, DeltaWritten
<1>4. DeltaWritten'
  BY <1>3 DEF Patching, DeltaWritten, StreamDelta, FullDelta, P!Cksum, Wi64, vars, files, streams
<1>5. (P!Big)' = P!Big /\ (P!Full)' = P!Full
  BY DEF Patching, P!Big, P!Full
<1>. QED
  BY <1>1, <1>2, <1>4, <1>5

\* A return with an error writes nothing; what is to be shown of each is that it
\* blames the delta only for an old file of the wrong size.
LEMMA FailPreserves ==
  ASSUME RTInv, Patching, NEW blocks, NEW code, P!FailFreeing(blocks, code),
         ppc # "returned", code \notin {"OK", "IOERR"},
         code = "BADPATCH" => base_size # old_size,
         received = "whole" /\ base = old => code \in ResourceErrors
  PROVE  RTInv'
<1>1. /\ ppc' = "returned" /\ result' = code
      /\ UNCHANGED <<base, base_size, received, new_data, new_file>>
  BY DEF P!FailFreeing
<1>2. WriterInv' /\ DeltaWritten' /\ ppc # "idle"
  BY PatchingFrame
<1>3. Stages'
  BY <1>1, <1>2 DEF RTInv, Stages
<1>4. Restoring' /\ Restored'
  BY <1>1 DEF Restoring, Restored
<1>5. Results'
  <2>1. new' = new /\ old' = old /\ old_size' = old_size
    BY DEF Patching, vars, files
  <2>2. new_file = P!EmptyFile
    BY DEF RTInv, Results
  <2>3. DOMAIN new_file = {}
    BY <2>2 DEF P!EmptyFile
  <2>. QED
    BY <1>1, <2>1, <2>3 DEF Results, NothingButNew, WrongOldCaughtByChecksum, RestoresNew,
                            ResourceErrors
<1>. QED
  BY <1>2, <1>3, <1>4, <1>5 DEF RTInv

-----------------------------------------------------------------------------
(***************************************************************************)
(* qbdiff_patch: one record.                                               *)
(***************************************************************************)
\* As long as the new file is not complete there is a record, it begins where
\* qbdiff_patch is, and it passes the sanity checks.
LEMMA RecordAccepted ==
  ASSUME RTInv, ppc = "apply", p_new_pos < new_size
  PROVE  \E k \in 1 .. Len(cb) :
           /\ cb_off = k - 1
           /\ P!Ctrl = [add |-> AddOf(k), copy |-> CopyOf(k), seek |-> SeekOf(k)]
           /\ starts[k] = [new |-> p_new_pos, old |-> p_old_pos, cb |-> cb_off,
                           db |-> db_off, eb |-> eb_off]
           /\ starts[k + 1] = Behind(starts[k], k)
           /\ ~ P!BadAdd /\ ~ P!BadCopy
<1>1. P!Big /\ TypeOK /\ Chained /\ RecordsInside /\ old_size \in Nat /\ new_size \in Nat
  BY SizesType DEF RTInv, Stages, WriterInv, MatchInv, TypeOK
<1>2. delta = StreamDelta /\ last_new_pos = new_size /\ P!NewSize = new_size
      /\ P!OldSize = old_size
  BY <1>1, DeltaRead
<1>3. /\ cb_off \in 0 .. Len(cb)
      /\ starts[cb_off + 1] = [new |-> p_new_pos, old |-> p_old_pos, cb |-> cb_off,
                               db |-> db_off, eb |-> eb_off]
  BY <1>1 DEF RTInv, Restoring
<1>4. PICK n \in Nat : n = Len(cb)
  BY <1>1, ChainIndices
<1>5. cb_off # n
  <2>1. ASSUME cb_off = n PROVE FALSE
    <3>1. starts[cb_off + 1] = Here
      BY <1>1, <1>4, <2>1 DEF Chained
    <3>2. starts[cb_off + 1].new = p_new_pos
      BY <1>3
    <3>3. p_new_pos = last_new_pos
      BY <3>1, <3>2 DEF Here
    <3>. QED
      BY <1>1, <1>2, <3>3
  <2>. QED
    BY <2>1
<1>6. PICK k \in 1 .. n : k = cb_off + 1 /\ cb_off = k - 1
  <2>1. cb_off \in 0 .. n
    BY <1>3, <1>4
  <2>2. cb_off + 1 \in 1 .. n /\ cb_off = (cb_off + 1) - 1
    BY <1>5, <2>1
  <2>. QED
    BY <2>2
<1>7. P!Ctrl = [add |-> AddOf(k), copy |-> CopyOf(k), seek |-> SeekOf(k)]
  BY <1>2, <1>6 DEF P!Ctrl, P!Ri64, AddOf, CopyOf, SeekOf, Ri64, StreamDelta
<1>8. starts[k] = [new |-> p_new_pos, old |-> p_old_pos, cb |-> cb_off,
                   db |-> db_off, eb |-> eb_off]
  BY <1>3, <1>6
<1>9. /\ AddOf(k) \in Nat /\ CopyOf(k) \in Nat /\ SeekOf(k) \in Int
      /\ starts[k].new + AddOf(k) + CopyOf(k) <= new_size
      /\ starts[k].old + AddOf(k) + SeekOf(k) \in 0 .. old_size - 1
  BY <1>1, <1>2, <1>4 DEF RecordsInside
<1>10. starts[k].new = p_new_pos /\ starts[k].old = p_old_pos
  BY <1>8
<1>11. p_new_pos \in Nat /\ p_old_pos \in Nat
  <2>1. starts[k] \in Positions
    BY <1>1, <1>4, ChainIndices
  <2>. QED
    BY <1>10, <2>1 DEF Positions
<1>12. P!Ctrl.add = AddOf(k) /\ P!Ctrl.copy = CopyOf(k) /\ P!Ctrl.seek = SeekOf(k)
  BY <1>7
<1>13. ~ P!BadAdd
  BY <1>1, <1>2, <1>9, <1>10, <1>11, <1>12 DEF P!BadAdd
<1>14. ~ P!BadCopy
  BY <1>1, <1>2, <1>9, <1>10, <1>11, <1>12 DEF P!BadCopy
<1>15. starts[k + 1] = Behind(starts[k], k)
  BY <1>1, <1>4 DEF Chained
<1>. QED
  BY <1>4, <1>6, <1>7, <1>8, <1>13, <1>14, <1>15

\* Adding the byte of old to the difference gives the byte of new back, although
\* both are reduced to the range of a byte.
LEMMA AddUndoesSubtract ==
  ASSUME NEW x \in Byte, NEW y \in Byte
  PROVE  (((x - y) % ByteRange) + y) % ByteRange = x
<1>1. ByteRange \in Nat \ {0} /\ x \in 0 .. ByteRange - 1 /\ y \in 0 .. ByteRange - 1
  BY MatchAssumption DEF Byte
<1>2. CASE x >= y
  <2>1. x - y \in 0 .. ByteRange - 1
    BY <1>1, <1>2
  <2>2. (x - y) % ByteRange = x - y
    BY <1>1, <2>1
  <2>3. (x - y) + y = x
    BY <1>1
  <2>4. x % ByteRange = x
    BY <1>1
  <2>. QED
    BY <2>2, <2>3, <2>4
<1>3. CASE x < y
  <2>1. x - y \in - ByteRange .. -1
    BY <1>1, <1>3
  <2>2. (x - y) % ByteRange = (x - y) + ByteRange
    BY <1>1, <2>1
  <2>3. ((x - y) + ByteRange) + y = x + ByteRange /\ x + ByteRange \in ByteRange .. 2 * ByteRange - 1
    BY <1>1
  <2>4. (x + ByteRange) % ByteRange = (x + ByteRange) - ByteRange
    BY <1>1, <2>3
  <2>. QED
    BY <1>1, <2>2, <2>3, <2>4
<1>. QED
  BY <1>1, <1>2, <1>3

\* Applying a record leads to the start of the next one, and restores the bytes
\* it accounts for if the old file is the right one.
LEMMA ApplyPreserves ==
  ASSUME RTInv, Patching, P!ApplyRecord
  PROVE  RTInv'
<1>1. /\ ppc = "apply" /\ ppc' = "apply" /\ ppc # "idle"
      /\ UNCHANGED <<base, base_size, received, result, new_file>>
  BY DEF P!ApplyRecord
<1>2. WriterInv' /\ DeltaWritten' /\ (P!Big)' = P!Big /\ (P!Full)' = P!Full
  BY PatchingFrame
<1>3. UNCHANGED <<old_size, new_size, old, new, cb, starts, delta>>
  BY DEF Patching, vars, files, streams
<1>4. P!Big /\ TypeOK /\ RecordsInside /\ StreamBytes /\ old_size \in Nat /\ new_size \in Nat
  BY <1>1, SizesType DEF RTInv, Stages, WriterInv, MatchInv, TypeOK
<1>5. /\ delta = StreamDelta /\ last_new_pos = new_size
      /\ P!NewSize = new_size /\ P!OldSize = old_size
  BY <1>1, <1>4, DeltaRead
<1>6. p_new_pos < new_size
  BY <1>5 DEF P!ApplyRecord
<1>7. PICK k \in 1 .. Len(cb) :
        /\ cb_off = k - 1
        /\ P!Ctrl = [add |-> AddOf(k), copy |-> CopyOf(k), seek |-> SeekOf(k)]
        /\ starts[k] = [new |-> p_new_pos, old |-> p_old_pos, cb |-> cb_off,
                        db |-> db_off, eb |-> eb_off]
        /\ starts[k + 1] = Behind(starts[k], k)
  BY <1>1, <1>6, RecordAccepted
<1>8. PICK a \in Nat, c \in Nat, s \in Int : a = AddOf(k) /\ c = CopyOf(k) /\ s = SeekOf(k)
  BY <1>4 DEF RecordsInside
<1>9. P!Ctrl.add = a /\ P!Ctrl.copy = c /\ P!Ctrl.seek = s
  BY <1>7, <1>8
<1>10. /\ starts[k].new = p_new_pos /\ starts[k].old = p_old_pos
       /\ starts[k].db = db_off /\ starts[k].eb = eb_off
  BY <1>7
<1>11. /\ p_new_pos \in Nat /\ p_old_pos \in Nat /\ db_off \in Nat /\ eb_off \in Nat
  <2>1. starts[k] \in Positions
    <3>1. Len(cb) \in Nat /\ \A i \in 1 .. Len(cb) + 1 : starts[i] \in Positions
      BY <1>4, ChainIndices DEF RTInv, WriterInv
    <3>2. PICK n \in Nat : n = Len(cb)
      BY <3>1
    <3>. QED
      BY <3>1, <3>2
  <2>. QED
    BY <1>10, <2>1 DEF Positions
<1>12. /\ p_new_pos + a + c <= new_size
       /\ p_old_pos + a <= old_size
  BY <1>4, <1>5, <1>8, <1>10 DEF RecordsInside
<1>13. /\ p_new_pos' = p_new_pos + a + c /\ p_old_pos' = p_old_pos + a + s
       /\ cb_off' = k /\ db_off' = db_off + a /\ eb_off' = eb_off + c
  BY <1>7, <1>9 DEF P!ApplyRecord, P!OldAfter, P!NextCtrl
<1>14. starts'[cb_off' + 1] = [new |-> p_new_pos', old |-> p_old_pos', cb |-> cb_off',
                               db |-> db_off', eb |-> eb_off']
  BY <1>3, <1>7, <1>8, <1>10, <1>13 DEF Behind
<1>15. cb_off' \in 0 .. Len(cb')
  <2>1. Len(cb) \in Nat
    BY <1>4, LenProperties DEF TypeOK
  <2>. QED
    BY <1>3, <1>13, <2>1
<1>. DEFINE Applied(j) ==
       IF j < p_new_pos \/ j >= p_new_pos + a + c THEN new_data[j]
       ELSE IF j < p_new_pos + a
       THEN (db[db_off + (j - p_new_pos)] + P!OldByte(p_old_pos + (j - p_new_pos))) % ByteRange
       ELSE eb[eb_off + (j - (p_new_pos + a))]
<1>16. new_data' = [j \in 0 .. new_size - 1 |-> Applied(j)]
  BY <1>5, <1>9 DEF P!ApplyRecord, P!ExtraFrom, StreamDelta
<1>17. new_data' = [j \in 0 .. new_size' - 1 |-> new_data'[j]]
  <2>. HIDE DEF Applied
  <2>. QED
    BY <1>3, <1>16
<1>18. ASSUME base = old, NEW j \in 0 .. p_new_pos + a + c - 1
       PROVE  new_data'[j] = new[j]
  <2>1. j \in 0 .. new_size - 1
    BY <1>4, <1>11, <1>12
  <2>2. new_data'[j] = Applied(j)
    <3>. HIDE DEF Applied
    <3>. QED
      BY <1>16, <2>1
  <2>3. CASE j < p_new_pos
    <3>1. new_data[j] = new[j]
      BY <1>1, <1>4, <1>11, <1>18, <2>3 DEF RTInv, Restoring
    <3>. QED
      BY <2>2, <2>3, <3>1
  <2>4. CASE p_new_pos <= j /\ j < p_new_pos + a
    <3>1. PICK i \in 0 .. a - 1 : j - p_new_pos = i /\ p_new_pos + i = j
      BY <1>11, <2>4
    <3>2. db[db_off + i] = (new[p_new_pos + i] - old[p_old_pos + i]) % ByteRange
      BY <1>4, <1>8, <1>10 DEF StreamBytes
    <3>3. p_old_pos + i \in 0 .. old_size - 1
      BY <1>4, <1>11, <1>12
    <3>4. P!OldByte(p_old_pos + i) = old[p_old_pos + i]
      <4>1. p_old_pos + i >= 0 /\ p_old_pos + i < P!OldSize
        BY <1>4, <1>5, <3>3
      <4>. QED
        BY <1>18, <4>1 DEF P!OldByte
    <3>5. new[j] \in Byte /\ old[p_old_pos + i] \in Byte
      BY <1>4, <2>1, <3>3 DEF TypeOK
    <3>6. ~ (j < p_new_pos \/ j >= p_new_pos + a + c)
      BY <1>11, <2>4
    <3>7. Applied(j) = (db[db_off + i] + P!OldByte(p_old_pos + i)) % ByteRange
      BY <2>4, <3>1, <3>6
    <3>. QED
      BY <2>2, <3>1, <3>2, <3>4, <3>5, <3>7, AddUndoesSubtract
  <2>5. CASE p_new_pos + a <= j
    <3>1. PICK i \in 0 .. c - 1 : j - (p_new_pos + a) = i /\ p_new_pos + a + i = j
      BY <1>11, <2>5
    <3>2. eb[eb_off + i] = new[p_new_pos + a + i]
      BY <1>4, <1>8, <1>10 DEF StreamBytes
    <3>3. ~ (j < p_new_pos \/ j >= p_new_pos + a + c) /\ ~ (j < p_new_pos + a)
      BY <1>11, <2>5
    <3>4. Applied(j) = eb[eb_off + i]
      BY <3>1, <3>3
    <3>. QED
      BY <2>2, <3>1, <3>2, <3>4
  <2>. QED
    BY <1>11, <2>3, <2>4, <2>5
<1>19. Restoring'
  <2>1. base' = old' => \A j \in 0 .. p_new_pos' - 1 : new_data'[j] = new'[j]
    <3>. SUFFICES ASSUME base' = old', NEW j \in 0 .. p_new_pos' - 1
                  PROVE  new_data'[j] = new'[j]
      OBVIOUS
    <3>1. base = old /\ new' = new
      BY <1>1, <1>3
    <3>2. j \in 0 .. p_new_pos + a + c - 1
      BY <1>11, <1>13
    <3>. HIDE DEF Applied
    <3>. QED
      BY <1>18, <3>1, <3>2
  <2>. QED
    BY <1>14, <1>15, <1>17, <2>1 DEF Restoring
<1>20. Stages'
  BY <1>1, <1>2, <1>3, <1>4 DEF RTInv, Stages
<1>21. Restored'
  BY <1>1 DEF Restored
<1>22. Results'
  BY <1>1, <1>3 DEF RTInv, Results, NothingButNew, WrongOldCaughtByChecksum, RestoresNew,
                    P!EmptyFile
<1>. QED
  BY <1>2, <1>19, <1>20, <1>21, <1>22 DEF RTInv

-----------------------------------------------------------------------------
(***************************************************************************)
(* qbdiff_patch: the other steps.                                          *)
(***************************************************************************)
\* The exits that return an error.
LEMMA ErrorsPreserve ==
  ASSUME RTInv, Patching,
         \/ P!TooShort \/ P!BadMagic \/ P!FullFails \/ P!HeaderMissing \/ P!WrongOldSize
         \/ P!StreamsMissing \/ P!AllocFails \/ P!UnpackFails \/ P!RefuseRecord \/ P!Mismatch
  PROVE  RTInv'
<1>1. ppc # "idle"
  BY PatchingFrame
<1>2. /\ P!Big \/ P!Full
      /\ P!NewSize = new_size /\ delta.cksum = P!Cksum(new)
      /\ P!Big => P!OldSize = old_size
      /\ base = old => base_size = old_size
  BY <1>1, DeltaRead
<1>3. CASE P!TooShort
  BY <1>3, FailPreserves DEF P!TooShort, P!Fail
<1>4. CASE P!BadMagic
  BY <1>2, <1>4 DEF P!BadMagic
<1>5. CASE P!FullFails
  BY <1>5, FailPreserves DEF P!FullFails, P!Fail, ResourceErrors
<1>6. CASE P!HeaderMissing
  BY <1>6, FailPreserves DEF P!HeaderMissing, P!Fail
<1>7. CASE P!WrongOldSize
  BY <1>2, <1>7, FailPreserves DEF P!WrongOldSize, P!HeaderRead, P!Fail
<1>8. CASE P!StreamsMissing
  <2>1. ~ (P!NewSize < 0)
    BY <1>2, SizesType DEF RTInv, WriterInv, MatchInv, TypeOK
  <2>. QED
    BY <1>8, <2>1, FailPreserves DEF P!StreamsMissing, P!HeaderFits, P!HeaderRead, P!Fail
<1>9. CASE P!AllocFails
  BY <1>9, FailPreserves DEF P!AllocFails, P!HeaderFits, P!HeaderRead, P!Fail, ResourceErrors
<1>10. CASE P!UnpackFails
  BY <1>10, FailPreserves DEF P!UnpackFails, P!Fail, ResourceErrors
<1>11. CASE P!RefuseRecord
  <2>1. ppc = "apply" /\ p_new_pos < new_size /\ (P!BadAdd \/ P!BadCopy)
    BY <1>2, <1>11 DEF P!RefuseRecord
  <2>. QED
    BY <2>1, RecordAccepted
<1>12. CASE P!Mismatch
  <2>1. ppc = "verify" /\ new_data # new
    BY <1>2, <1>12 DEF P!Mismatch, P!Intact
  <2>2. base # old
    BY <2>1 DEF RTInv, Restored
  <2>. QED
    BY <1>12, <2>1, <2>2, FailPreserves DEF P!Mismatch
<1>. QED
  BY <1>3, <1>4, <1>5, <1>6, <1>7, <1>8, <1>9, <1>10, <1>11, <1>12

\* The steps before the records are applied.
LEMMA UnpackingPreserves ==
  ASSUME RTInv, Patching,
         P!FullUnpack \/ P!Allocate \/ P!UnpackStream \/ P!Unpack
  PROVE  RTInv'
<1>1. /\ WriterInv' /\ DeltaWritten' /\ ppc # "idle"
      /\ (P!Big)' = P!Big /\ (P!Full)' = P!Full
  BY PatchingFrame
<1>2. /\ P!NewSize = new_size
      /\ (P!Big /\ ~P!Full /\ delta = StreamDelta) \/ (P!Full /\ ~P!Big /\ delta = FullDelta)
      /\ P!Big => P!OldSize = old_size
  BY <1>1, DeltaRead
<1>3. UNCHANGED <<old_size, new_size, old, new, cb, starts, delta>>
  BY DEF Patching, vars, files, streams
<1>4. /\ ppc \in {"open", "unpack"} /\ ppc' \in {"unpack", "apply", "verify"}
      /\ UNCHANGED <<base, base_size, received, p_new_pos, p_old_pos, cb_off, db_off, eb_off,
                     result, new_file>>
  BY DEF P!FullUnpack, P!Allocate, P!UnpackStream, P!Unpack, P!HeaderFits, P!HeaderRead, P!offsets
<1>5. /\ p_new_pos = 0 /\ p_old_pos = 0 /\ cb_off = 0 /\ db_off = 0 /\ eb_off = 0
      /\ base_size = Cardinality(DOMAIN base)
      /\ ppc = "unpack" => P!Big /\ received = "whole" /\ base_size = old_size
  BY <1>4 DEF RTInv, Stages
<1>6. Stages'
  <2>1. received = "whole"
    BY <1>5 DEF P!FullUnpack, P!Allocate, P!UnpackStream, P!Unpack
  <2>2. ppc' # "verify" => P!Big /\ base_size = old_size
    BY <1>2, <1>5 DEF P!FullUnpack, P!Allocate, P!UnpackStream, P!Unpack, P!HeaderFits,
                      P!HeaderRead
  <2>3. ppc' = "verify" => ~ P!Big
    BY <1>2, <1>5 DEF P!FullUnpack, P!Allocate, P!UnpackStream, P!Unpack
  <2>4. ppc' \in {"unpack", "apply", "verify"} /\ ppc' # "idle" /\ base_size' = Cardinality(DOMAIN base')
    BY <1>4, <1>5
  <2>. QED
    BY <1>1, <1>3, <1>4, <1>5, <2>1, <2>2, <2>3, <2>4 DEF Stages
<1>7. Restoring'
  <2>. SUFFICES ASSUME ppc' \in {"apply", "verify"}, P!Big PROVE Restoring'
    BY <1>1 DEF Restoring
  <2>1. P!Unpack
    BY <1>2 DEF P!FullUnpack, P!Allocate, P!UnpackStream, P!Unpack
  <2>2. new_data' = [j \in 0 .. new_size - 1 |-> 0]
    BY <1>2, <2>1 DEF P!Unpack
  <2>3. new_data' = [j \in 0 .. new_size' - 1 |-> new_data'[j]]
    BY <1>3, <2>2
  <2>4. starts'[cb_off' + 1] = [new |-> p_new_pos', old |-> p_old_pos', cb |-> cb_off',
                                db |-> db_off', eb |-> eb_off']
    BY <1>3, <1>4, <1>5 DEF RTInv, WriterInv, Chained
  <2>5. cb_off' \in 0 .. Len(cb')
    <3>1. Len(cb) \in Nat
      BY ChainIndices DEF RTInv, WriterInv, MatchInv
    <3>. QED
      BY <1>3, <1>4, <1>5, <3>1
  <2>6. \A j \in 0 .. p_new_pos' - 1 : new_data'[j] = new'[j]
    BY <1>4, <1>5
  <2>. QED
    BY <2>3, <2>4, <2>5, <2>6 DEF Restoring
<1>8. Restored'
  <2>. SUFFICES ASSUME ppc' = "verify" PROVE new_data' = new'
    BY DEF Restored
  <2>1. P!FullUnpack /\ P!Full
    BY <1>4 DEF P!FullUnpack, P!Allocate, P!UnpackStream, P!Unpack
  <2>2. new_data' = delta.full /\ delta = FullDelta
    BY <1>2, <2>1 DEF P!FullUnpack
  <2>. QED
    BY <1>3, <2>2 DEF FullDelta
<1>9. Results'
  BY <1>3, <1>4 DEF RTInv, Results, NothingButNew, WrongOldCaughtByChecksum, RestoresNew,
                    P!EmptyFile
<1>. QED
  BY <1>1, <1>6, <1>7, <1>8, <1>9 DEF RTInv

\* The loop over the records ends where new does.
LEMMA EndApplyPreserves ==
  ASSUME RTInv, Patching, P!EndApply
  PROVE  RTInv'
<1>1. /\ WriterInv' /\ DeltaWritten' /\ ppc # "idle"
      /\ (P!Big)' = P!Big /\ (P!Full)' = P!Full
  BY PatchingFrame
<1>2. UNCHANGED <<old_size, new_size, old, new, cb, starts, delta>>
  BY DEF Patching, vars, files, streams
<1>3. /\ ppc = "apply" /\ ppc' = "verify"
      /\ UNCHANGED <<base, base_size, received, new_data, p_new_pos, p_old_pos, cb_off, db_off,
                     eb_off, result, new_file>>
  BY DEF P!EndApply, P!offsets
<1>4. P!Big /\ ~P!Full /\ P!NewSize = new_size
  BY <1>1, <1>3, DeltaRead DEF RTInv, Stages
<1>5. /\ new_data = [j \in 0 .. new_size - 1 |-> new_data[j]]
      /\ base = old => \A j \in 0 .. p_new_pos - 1 : new_data[j] = new[j]
      /\ starts[cb_off + 1] = [new |-> p_new_pos, old |-> p_old_pos, cb |-> cb_off,
                               db |-> db_off, eb |-> eb_off]
      /\ cb_off \in 0 .. Len(cb)
  BY <1>3, <1>4 DEF RTInv, Restoring
<1>6. p_new_pos \in Nat /\ new_size \in Nat /\ new_size <= p_new_pos
  <2>1. starts[cb_off + 1] \in Positions
    <3>1. Len(cb) \in Nat /\ \A k \in 1 .. Len(cb) + 1 : starts[k] \in Positions
      BY ChainIndices DEF RTInv, WriterInv, MatchInv
    <3>2. PICK n \in Nat : n = Len(cb)
      BY <3>1
    <3>3. cb_off + 1 \in 1 .. n + 1
      BY <1>5, <3>2
    <3>. QED
      BY <3>1, <3>2, <3>3
  <2>2. starts[cb_off + 1].new \in Nat
    BY <2>1 DEF Positions
  <2>3. p_new_pos \in Nat
    BY <1>5, <2>2
  <2>4. new_size \in Nat
    BY SizesType DEF RTInv, WriterInv, MatchInv, TypeOK
  <2>. QED
    BY <1>4, <2>3, <2>4 DEF P!EndApply
<1>7. ASSUME base = old PROVE new_data = new
  <2>1. ASSUME NEW j \in 0 .. new_size - 1 PROVE new_data[j] = new[j]
    <3>1. j \in 0 .. p_new_pos - 1
      BY <1>6
    <3>. QED
      BY <1>5, <1>7, <3>1
  <2>2. new = [j \in 0 .. new_size - 1 |-> new[j]]
    BY DEF RTInv, WriterInv, MatchInv, TypeOK
  <2>. QED
    BY <1>5, <2>1, <2>2
<1>8. Stages'
  BY <1>1, <1>2, <1>3, <1>4 DEF RTInv, Stages
<1>9. Restoring'
  BY <1>2, <1>3, <1>5 DEF Restoring
<1>10. Restored'
  BY <1>1, <1>2, <1>3, <1>4, <1>7 DEF Restored
<1>11. Results'
  BY <1>2, <1>3 DEF RTInv, Results, NothingButNew, WrongOldCaughtByChecksum, RestoresNew,
                    P!EmptyFile
<1>. QED
  BY <1>1, <1>8, <1>9, <1>10, <1>11 DEF RTInv

\* A file is written only if its checksum is that of new, and then it is new.
LEMMA WritingPreserves ==
  ASSUME RTInv, Patching, P!Write \/ P!WriteFails
  PROVE  RTInv'
<1>1. /\ WriterInv' /\ DeltaWritten' /\ ppc # "idle"
      /\ (P!Big)' = P!Big /\ (P!Full)' = P!Full
  BY PatchingFrame
<1>2. UNCHANGED <<old_size, new_size, old, new>>
  BY DEF Patching, vars, files
<1>3. /\ ppc = "verify" /\ ppc' = "returned" /\ P!Intact
      /\ UNCHANGED <<base, base_size, received, new_data>>
  BY DEF P!Write, P!WriteFails
<1>4. new_data = new
  <2>1. P!Cksum(new_data) = P!Cksum(new)
    BY <1>1, <1>3, DeltaRead DEF P!Intact
  <2>2. P!Cksum(new_data).blake2b = P!Cksum(new).blake2b
    BY <2>1
  <2>. QED
    BY <2>2 DEF P!Cksum
<1>5. Stages'
  BY <1>1, <1>2, <1>3 DEF RTInv, Stages
<1>6. Restoring' /\ Restored'
  BY <1>3 DEF Restoring, Restored
<1>7. Results'
  <2>1. CASE P!Write
    <3>1. result' = "OK" /\ new_file' = new
      BY <1>4, <2>1 DEF P!Write
    <3>. QED
      BY <1>2, <1>3, <3>1 DEF Results, NothingButNew, WrongOldCaughtByChecksum, RestoresNew
  <2>2. CASE P!WriteFails
    <3>1. PICK n \in 0 .. new_size - 1 : new_file' = [j \in 0 .. n - 1 |-> new_data[j]]
      BY <1>1, <2>2, DeltaRead DEF P!WriteFails
    <3>2. result' = "IOERR" /\ \A j \in DOMAIN new_file' : new_file'[j] = new[j]
      BY <1>4, <2>2, <3>1 DEF P!WriteFails
    <3>. QED
      BY <1>2, <1>3, <3>2 DEF Results, NothingButNew, WrongOldCaughtByChecksum, RestoresNew,
                              ResourceErrors
  <2>. QED
    BY <2>1, <2>2
<1>. QED
  BY <1>1, <1>5, <1>6, <1>7 DEF RTInv

-----------------------------------------------------------------------------
(***************************************************************************)
(* The theorems.                                                           *)
(***************************************************************************)
LEMMA RTInitEstablishes == RTInit => RTInv
<1>. SUFFICES ASSUME RTInit PROVE RTInv
  OBVIOUS
<1>1. MatchInv
  BY InitEstablishes DEF RTInit
<1>2. /\ cb = <<>> /\ last_new_pos = 0 /\ last_old_pos = 0 /\ dblen = 0 /\ eblen = 0
      /\ starts = <<Here>>
  BY DEF RTInit, Init
<1>3. Len(cb) = 0 /\ Here = [new |-> 0, old |-> 0, cb |-> 0, db |-> 0, eb |-> 0]
  BY <1>2 DEF Here
<1>4. Here \in Positions
  BY <1>3 DEF Positions
<1>5. starts \in Seq(Positions) /\ Len(starts) = 1 /\ starts[1] = Here
  BY <1>2, <1>4
<1>6. Chained /\ RecordsInside /\ StreamBytes
  BY <1>3, <1>5 DEF Chained, RecordsInside, StreamBytes
<1>7. DeltaWritten /\ Stages /\ Restoring /\ Restored
  BY DEF RTInit, P!PInit, DeltaWritten, Stages, Restoring, Restored
<1>8. Results
  BY DEF RTInit, P!PInit, P!EmptyFile, Results, NothingButNew, WrongOldCaughtByChecksum, RestoresNew
<1>. QED
  BY <1>1, <1>6, <1>7, <1>8 DEF RTInv, WriterInv

\* A step that changes nothing.
LEMMA StutterPreserves ==
  ASSUME RTInv, UNCHANGED rtvars
  PROVE  RTInv'
<1>. USE DEF rtvars, patching
<1>1. WriterInv'
  BY WriterSame DEF RTInv
<1>2. DeltaWritten'
  <2>1. CASE delta = [magic |-> "none"] /\ ppc = "idle"
    BY <2>1 DEF DeltaWritten
  <2>2. CASE pc = "done" /\ delta \in {StreamDelta, FullDelta}
    BY <2>2 DEF DeltaWritten, StreamDelta, FullDelta, P!Cksum, Wi64, vars, files, streams
  <2>. QED
    BY <2>1, <2>2 DEF RTInv, DeltaWritten
<1>3. Stages'
  BY DEF RTInv, Stages, P!Big, vars, files
<1>4. Restoring' /\ Restored'
  BY DEF RTInv, Restoring, Restored, P!Big, P!Full, vars, files, streams
<1>5. Results'
  BY DEF RTInv, Results, NothingButNew, WrongOldCaughtByChecksum, RestoresNew, P!EmptyFile,
         vars, files
<1>. QED
  BY <1>1, <1>2, <1>3, <1>4, <1>5 DEF RTInv

\* No step of the two programs leaves the inductive invariant.
LEMMA RTNextPreserves == RTInv /\ [RTNext]_rtvars => RTInv'
<1>. SUFFICES ASSUME RTInv, [RTNext]_rtvars PROVE RTInv'
  OBVIOUS
<1>1. CASE Matching \/ Encode \/ Deliver
  BY <1>1, MatchingPreserves, EncodePreserves, DeliverPreserves
<1>2. CASE Patching
  <2>1. CASE P!PReturned
    <3>1. UNCHANGED rtvars
      BY <1>2, <2>1 DEF Patching, P!PReturned, P!pvars, P!offsets, rtvars, patching
    <3>. QED
      BY <3>1, StutterPreserves
  <2>. QED
    BY <1>2, <2>1, ErrorsPreserve, UnpackingPreserves, ApplyPreserves, EndApplyPreserves,
       WritingPreserves DEF Patching, P!PNext
<1>3. CASE UNCHANGED rtvars
  BY <1>3, StutterPreserves
<1>. QED
  BY <1>1, <1>2, <1>3 DEF RTNext

\* The inductive invariant holds in every state of qbdiff and qbpatch.
THEOREM RTInvariance == RTSpec => []RTInv
<1>1. RTInit => RTInv
  BY RTInitEstablishes
<1>2. RTInv /\ [RTNext]_rtvars => RTInv'
  BY RTNextPreserves
<1>. QED
  BY <1>1, <1>2, PTL DEF RTSpec

\* qbdiff_patch gives back the file that the delta was made for, from the old
\* file it was made from, unless memory or the disk fails: for every pair of
\* files whose control records fit their buffer, which is not modelled, and every
\* result inside old that a search may return.
THEOREM NewFileRestored == RTSpec => []RestoresNew
<1>1. RTInv => RestoresNew
  BY DEF RTInv, Results
<1>. QED
  BY <1>1, RTInvariance, PTL

\* qbdiff_patch never writes a byte that is not the one of new at that place,
\* whatever old file and part of the delta it is given.
THEOREM OnlyNewWritten == RTSpec => []NothingButNew
<1>1. RTInv => NothingButNew
  BY DEF RTInv, Results
<1>. QED
  BY <1>1, RTInvariance, PTL

\* A delta of qbdiff is refused as bad for an old file of the wrong size only:
\* its records pass the sanity checks with every file of the right size.
THEOREM RecordsFitAnyOld == RTSpec => []WrongOldCaughtByChecksum
<1>1. RTInv => WrongOldCaughtByChecksum
  BY DEF RTInv, Results
<1>. QED
  BY <1>1, RTInvariance, PTL

\* qbdiff_patch is at each record where the matcher was when it began it.
THEOREM PatchFollowsMatcher == RTSpec => []FollowsMatcher
<1>1. RTInv => FollowsMatcher
  BY DEF RTInv, Restoring, FollowsMatcher
<1>. QED
  BY <1>1, RTInvariance, PTL

\* The reads of the streams by qbdiff_patch, which it does not test, stay inside
\* the streams of qbdiff.
THEOREM StreamReadsInside == RTSpec => []StreamReads
<1>1. ASSUME RTInv PROVE StreamReads
  <2>. SUFFICES ASSUME ppc = "apply", p_new_pos < new_size
                PROVE  /\ cb_off < Len(cb)
                       /\ db_off + AddOf(cb_off + 1) <= dblen
                       /\ eb_off + CopyOf(cb_off + 1) <= eblen
    BY DEF StreamReads, AddOf, CopyOf
  <2>1. PICK k \in 1 .. Len(cb) :
          /\ cb_off = k - 1
          /\ starts[k] = [new |-> p_new_pos, old |-> p_old_pos, cb |-> cb_off,
                          db |-> db_off, eb |-> eb_off]
    BY <1>1, RecordAccepted
  <2>2. PICK n \in Nat : n = Len(cb)
    BY <1>1, ChainIndices DEF RTInv, WriterInv, MatchInv
  <2>3. cb_off + 1 = k /\ cb_off < n
    BY <2>1, <2>2
  <2>4. starts[k].db = db_off /\ starts[k].eb = eb_off
    BY <2>1
  <2>5. starts[k].db + AddOf(k) <= dblen /\ starts[k].eb + CopyOf(k) <= eblen
    BY <1>1 DEF RTInv, WriterInv, RecordsInside
  <2>. QED
    BY <2>2, <2>3, <2>4, <2>5
<1>. QED
  BY <1>1, RTInvariance, PTL

\* With the right old file, what qbdiff_patch has restored before it comes to a
\* record is the beginning of new.
THEOREM PrefixRestored == RTSpec => []RestoredSoFar
<1>1. RTInv => RestoredSoFar
  BY DEF RTInv, Stages, Restoring, RestoredSoFar
<1>. QED
  BY <1>1, RTInvariance, PTL

-----------------------------------------------------------------------------
(***************************************************************************)
(* qbdiff_patch ends.                                                      *)
(***************************************************************************)
\* The streams that are still packed.
StreamsLeft ==
  (IF "cb" \in buffers THEN 0 ELSE 1) + (IF "db" \in buffers THEN 0 ELSE 1)
    + (IF "eb" \in buffers THEN 0 ELSE 1)

\* How many steps qbdiff_patch can still take: it unpacks three streams, zeroes
\* the new file, applies the records, and verifies the result.
PatchStepsLeft ==
  CASE ppc = "open"   -> Len(cb) + 7
    [] ppc = "unpack" -> Len(cb) + 3 + StreamsLeft
    [] ppc = "apply"  -> Len(cb) + 2 - cb_off
    [] ppc = "verify" -> 1
    [] OTHER          -> 0

\* What is left is a number, since no more records are read than there are.
LEMMA PatchStepsLeftType ==
  ASSUME RTInv
  PROVE  /\ PatchStepsLeft \in Nat /\ Len(cb) \in Nat
         /\ ppc \in {"open", "unpack", "apply", "verify"} => PatchStepsLeft > 0
<1>1. PICK n \in Nat : n = Len(cb)
  BY ChainIndices DEF RTInv, WriterInv, MatchInv
<1>2. StreamsLeft \in 0 .. 3
  BY DEF StreamsLeft
<1>3. ppc = "apply" => cb_off \in 0 .. n
  BY <1>1 DEF RTInv, Stages, Restoring
<1>. QED
  BY <1>1, <1>2, <1>3 DEF PatchStepsLeft

\* qbdiff_patch cannot run for ever on a delta of qbdiff: each of its steps
\* leaves fewer to do, though a record may account for no byte.
THEOREM EveryPatchStepIsProgress ==
  RTSpec => /\ [](PatchStepsLeft \in Nat)
            /\ [][ppc # "idle" => PatchStepsLeft' < PatchStepsLeft]_patching
<1>1. ASSUME RTInv, Patching, ppc # "returned" PROVE PatchStepsLeft' < PatchStepsLeft
  <2>1. PICK n \in Nat : n = Len(cb) /\ n = Len(cb')
    BY <1>1, PatchStepsLeftType DEF Patching, vars, streams
  <2>2. PatchStepsLeft \in Nat
    BY <1>1, PatchStepsLeftType
  <2>3. CASE ppc' = "returned"
    <3>1. ppc \in {"open", "unpack", "apply", "verify"}
      BY <1>1, PatchingFrame DEF RTInv, Stages
    <3>. QED
      BY <1>1, <2>3, <3>1, PatchStepsLeftType DEF PatchStepsLeft
  <2>4. CASE P!Allocate
    <3>1. ppc = "open" /\ ppc' = "unpack" /\ StreamsLeft' \in 0 .. 3
      BY <2>4 DEF P!Allocate, P!HeaderFits, P!HeaderRead, StreamsLeft
    <3>. QED
      BY <2>1, <3>1 DEF PatchStepsLeft
  <2>5. CASE P!FullUnpack
    <3>1. ppc = "open" /\ ppc' = "verify"
      BY <2>5 DEF P!FullUnpack
    <3>. QED
      BY <2>1, <3>1 DEF PatchStepsLeft
  <2>6. CASE P!UnpackStream
    <3>1. ppc = "unpack" /\ ppc' = "unpack"
      BY <2>6 DEF P!UnpackStream
    <3>2. PICK s \in {"cb", "db", "eb"} : s \notin buffers /\ buffers' = buffers \cup {s}
      BY <2>6 DEF P!UnpackStream, P!PackedStreams, P!NextStream
    <3>3. StreamsLeft \in Nat /\ StreamsLeft' \in Nat /\ StreamsLeft' < StreamsLeft
      BY <3>2 DEF StreamsLeft
    <3>. QED
      BY <2>1, <3>1, <3>3 DEF PatchStepsLeft
  <2>7. CASE P!Unpack
    <3>1. ppc = "unpack" /\ ppc' = "apply" /\ cb_off' = 0 /\ StreamsLeft \in 0 .. 3
      BY <1>1, <2>7 DEF P!Unpack, P!offsets, RTInv, Stages, StreamsLeft
    <3>. QED
      BY <2>1, <3>1 DEF PatchStepsLeft
  <2>8. CASE P!ApplyRecord
    <3>1. ppc = "apply" /\ ppc' = "apply" /\ cb_off' = cb_off + 1
      BY <2>8 DEF P!ApplyRecord, P!NextCtrl
    <3>2. cb_off \in 0 .. n
      BY <1>1, <2>1, <3>1 DEF RTInv, Stages, Restoring
    <3>. QED
      BY <2>1, <3>1, <3>2 DEF PatchStepsLeft
  <2>9. CASE P!EndApply
    <3>1. ppc = "apply" /\ ppc' = "verify"
      BY <2>9 DEF P!EndApply
    <3>2. cb_off \in 0 .. n
      BY <1>1, <2>1, <3>1 DEF RTInv, Stages, Restoring
    <3>. QED
      BY <2>1, <3>1, <3>2 DEF PatchStepsLeft
  <2>10. \/ ppc' = "returned" \/ P!Allocate \/ P!FullUnpack \/ P!UnpackStream
         \/ P!Unpack \/ P!ApplyRecord \/ P!EndApply
    BY <1>1 DEF Patching, P!PNext, P!TooShort, P!BadMagic, P!FullFails, P!HeaderMissing,
         P!WrongOldSize, P!StreamsMissing, P!AllocFails, P!UnpackFails, P!RefuseRecord,
         P!Mismatch, P!Write, P!WriteFails, P!PReturned, P!Fail, P!FailFreeing
  <2>. QED
    BY <2>3, <2>4, <2>5, <2>6, <2>7, <2>8, <2>9, <2>10
<1>2. ASSUME RTInv, [RTNext]_rtvars
      PROVE  [ppc # "idle" => PatchStepsLeft' < PatchStepsLeft]_patching
  <2>. SUFFICES ASSUME ppc # "idle", ~ UNCHANGED patching PROVE PatchStepsLeft' < PatchStepsLeft
    OBVIOUS
  <2>1. Patching
    BY <1>2 DEF RTNext, Matching, Encode, Deliver, P!Call, rtvars
  <2>2. ppc # "returned"
    BY <2>1 DEF Patching, P!PNext, P!TooShort, P!BadMagic, P!FullFails, P!FullUnpack,
         P!HeaderMissing, P!WrongOldSize, P!StreamsMissing, P!AllocFails, P!Allocate,
         P!UnpackStream, P!UnpackFails, P!Unpack, P!RefuseRecord, P!ApplyRecord, P!EndApply,
         P!Mismatch, P!Write, P!WriteFails, P!PReturned, P!HeaderFits, P!HeaderRead,
         P!pvars, P!offsets, patching
  <2>. QED
    BY <1>1, <1>2, <2>1, <2>2
<1>3. RTInv => PatchStepsLeft \in Nat
  BY PatchStepsLeftType
<1>. QED
  BY <1>2, <1>3, RTInvariance, PTL DEF RTSpec

-----------------------------------------------------------------------------
(***************************************************************************)
(* The programs with the binary search.                                    *)
(***************************************************************************)
\* Module RoundTrip lets the search answer what its contract allows.  Here the
\* matcher runs the binary search of module MatchSearch instead, on the suffix
\* array of old; the rest is as it was.
SearchedInit ==
  /\ MSInit /\ P!PInit
  /\ delta = [magic |-> "none"]
  /\ starts = <<Here>>

SearchedMatching ==
  /\ MSNext
  /\ ppc = "idle" /\ UNCHANGED <<delta, patching>>
  /\ starts' = IF cb' = cb THEN starts ELSE Append(starts, Here')

SearchedNext ==
  \/ SearchedMatching
  \/ (Encode \/ Deliver \/ Patching) /\ UNCHANGED <<I, searching>>

searchedvars == <<rtvars, I, searching>>

SearchedSpec == SearchedInit /\ [][SearchedNext]_searchedvars

\* The matcher with its search takes a step, or none.
LEMMA SearchedStep ==
  [SearchedNext]_searchedvars => [MSNext]_allvars
<1>. SUFFICES ASSUME [SearchedNext]_searchedvars PROVE [MSNext]_allvars
  OBVIOUS
<1>1. CASE SearchedMatching
  BY <1>1 DEF SearchedMatching
<1>2. CASE (Encode \/ Deliver \/ Patching) /\ UNCHANGED <<I, searching>>
  BY <1>2 DEF Encode, Deliver, Patching, allvars
<1>3. CASE UNCHANGED searchedvars
  BY <1>3 DEF searchedvars, rtvars, allvars
<1>. QED
  BY <1>1, <1>2, <1>3 DEF SearchedNext

\* What the programs do with the search, they may do in module RoundTrip: a step
\* of the search itself changes nothing there.
LEMMA SearchedImplements ==
  MSInv /\ [SearchedNext]_searchedvars => [RTNext]_rtvars
<1>. SUFFICES ASSUME MSInv, [SearchedNext]_searchedvars PROVE [RTNext]_rtvars
  OBVIOUS
<1>1. CASE SearchedMatching
  <2>1. [Next]_vars
    BY <1>1, StepsImplement DEF SearchedMatching
  <2>2. CASE Next
    BY <1>1, <2>2 DEF SearchedMatching, RTNext, Matching
  <2>3. CASE UNCHANGED vars
    <3>1. starts' = starts
      BY <1>1, <2>3 DEF SearchedMatching, vars, streams
    <3>. QED
      BY <1>1, <2>3, <3>1 DEF SearchedMatching, rtvars
  <2>. QED
    BY <2>1, <2>2, <2>3
<1>2. CASE Encode \/ Deliver \/ Patching
  BY <1>2 DEF RTNext
<1>3. CASE UNCHANGED searchedvars
  BY <1>3 DEF searchedvars
<1>. QED
  BY <1>1, <1>2, <1>3 DEF SearchedNext

\* qbdiff with its binary search, and qbpatch, do only what module RoundTrip
\* allows, whatever lies behind the suffix array.  They are followed up to a
\* search that returns a position before old; it takes an entry behind the array
\* that is negative, where the rest of new is greater than every suffix of old
\* (or old has only one).
THEOREM SearchedImplementsRoundTrip ==
  SearchedSpec => RTInit /\ [][RTNext]_rtvars /\ []LostByEntry
<1>1. SearchedInit => RTInit /\ MSInv
  BY MSInitEstablishes DEF SearchedInit, RTInit, MSInit
<1>2. MSInv /\ [SearchedNext]_searchedvars => MSInv'
  BY SearchedStep, MSNextPreserves
<1>3. MSInv /\ [SearchedNext]_searchedvars => [RTNext]_rtvars
  BY SearchedImplements
<1>4. MSInv => LostByEntry
  BY LostByEntryOnly
<1>. QED
  BY <1>1, <1>2, <1>3, <1>4, PTL DEF SearchedSpec

\* With the binary search, and an entry behind the suffix array that is not
\* negative when the search begins, no search ever returns a position before old:
\* qbdiff_patch gives back the new file from the old one, unless memory or the
\* disk fails, and writes nothing but the new file from any old file and part of
\* the delta.
THEOREM SearchedFileRestored ==
  SearchedSpec /\ I[old_size] >= 0 => [](~ Lost /\ RestoresNew /\ NothingButNew)
<1>1. RTInit => RTInv
  BY RTInitEstablishes
<1>2. RTInv /\ [RTNext]_rtvars => RTInv'
  BY RTNextPreserves
<1>3. RTInv => RestoresNew /\ NothingButNew
  BY DEF RTInv, Results
<1>4. SearchedInit => MSInv
  BY MSInitEstablishes DEF SearchedInit, MSInit
<1>5. MSInv /\ [SearchedNext]_searchedvars => MSInv'
  BY SearchedStep, MSNextPreserves
<1>6. MSInv /\ I[old_size] >= 0 => ~ Lost
  BY NotLostByNat
<1>7. [SearchedNext]_searchedvars => (I[old_size] >= 0 => (I[old_size] >= 0)')
  BY SearchedStep, EntryUntouched
<1>. QED
  BY <1>1, <1>2, <1>3, <1>4, <1>5, <1>6, <1>7, SearchedImplementsRoundTrip, PTL DEF SearchedSpec

=============================================================================

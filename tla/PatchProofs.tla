---------------------------- MODULE PatchProofs ----------------------------
(***************************************************************************)
(* Proofs about module Patch: one call of qbdiff_patch, for every old file *)
(* and every delta, made by qbdiff or not, complete or not.                *)
(*                                                                         *)
(* qbdiff_patch does not test the ends of the three streams.  What is      *)
(* proved holds as long as a run does not read past them                   *)
(* (StreamsSuffice); theorem StreamReadsInside of module RoundTripProofs   *)
(* says that no delta of qbdiff leads it there.                            *)
(***************************************************************************)
EXTENDS Patch, SequenceTheorems, TLAPS

-----------------------------------------------------------------------------
(***************************************************************************)
(* One call of qbdiff_patch.                                               *)
(***************************************************************************)
\* Eight bytes spell every number of a header and of a record; the rest of a
\* delta is bytes.  Nothing is asked of a delta of a third kind.
AnyDelta ==
  /\ Big => /\ delta.old_size \in Word /\ delta.new_size \in Word
            /\ delta.cb \in Seq([add : Word, copy : Word, seek : Word])
            /\ delta.db \in [DOMAIN delta.db -> Byte]
            /\ delta.eb \in [DOMAIN delta.eb -> Byte]
  /\ Full => /\ delta.new_size \in Word
             /\ delta.full \in [DOMAIN delta.full -> Byte]

PatchInit == PInit /\ AnyDelta

PatchNext ==
  /\ UNCHANGED delta
  /\ \/ \E len \in Nat : \E file \in [0 .. len - 1 -> Byte] :
          \E part \in {"below70", "below133", "cut", "whole"} : Call(file, len, part)
     \/ PNext

PatchSpec == PatchInit /\ [][PatchNext]_<<pvars, delta>>

\* The next record, and the bytes it takes if it is accepted, are in the streams.
StreamsSuffice ==
  ppc = "apply" /\ new_pos < NewSize =>
    /\ cb_off < Len(delta.cb)
    /\ ~BadAdd /\ ~BadCopy =>
         /\ \A j \in 0 .. Ctrl.add - 1 : db_off + j \in DOMAIN delta.db
         /\ \A j \in 0 .. Ctrl.copy - 1 : eb_off + j \in DOMAIN delta.eb

-----------------------------------------------------------------------------
(***************************************************************************)
(* The inductive invariant.                                                *)
(***************************************************************************)
\* What is allocated at each point: the blocks that the exits from there free.
Allocated ==
  /\ ppc \in {"idle", "open"} => buffers = {}
  /\ ppc = "unpack" => buffers \subseteq {"new_data", "cb", "db", "eb"} /\ "new_data" \in buffers
  /\ ppc = "apply" => buffers = {"new_data", "cb", "db", "eb"}
  /\ ppc = "verify" => buffers = Freed
  /\ OneKnownLeak

\* The header was accepted before the streams were unpacked.
Accepted ==
  /\ ppc \in {"unpack", "apply"} => Big /\ OldSize = old_len /\ NewSize \in Nat
  /\ ppc = "verify" => Big \/ Full
  /\ ppc = "verify" /\ Big => OldSize = old_len /\ NewSize \in Nat
  /\ ppc \in {"idle", "open", "unpack"} => new_pos = 0 /\ old_pos = 0

\* Nothing is written before the end of the call.
Unwritten == ppc # "returned" => result = "none" /\ new_file = EmptyFile

PatchInv ==
  /\ AnyDelta /\ PTypeOK
  /\ Allocated /\ Accepted /\ Unwritten
  /\ IntactOrNothing

\* No step writes the delta, so what is read from it does not change.
LEMMA DeltaFixed ==
  ASSUME UNCHANGED delta
  PROVE  /\ (AnyDelta <=> AnyDelta') /\ (Big <=> Big') /\ (Full <=> Full')
         /\ Freed' = Freed /\ NewSize' = NewSize /\ OldSize' = OldSize
BY DEF AnyDelta, Big, Full, Freed, NewSize, OldSize, Ri64, Byte, Word

\* The numbers that eight bytes spell are integers.
LEMMA WordsSpellIntegers ==
  ASSUME NEW w \in Word
  PROVE  Ri64(w) \in Int
BY HalfAssumption DEF Word, Ri64

\* A delta is of one kind.
LEMMA OneKind == ~ (Big /\ Full)
BY DEF Big, Full

\* Returning an error leaves nothing written, and nothing allocated but for the
\* new file of a full delta that has the wrong checksum.
LEMMA FailPreserves ==
  ASSUME PatchInv, UNCHANGED delta, NEW blocks,
         NEW code \in {"NOMEM", "BADPATCH", "TRUNCPATCH", "BADCKSUM", "LZMAERR"},
         FailFreeing(blocks, code), ppc \in {"open", "unpack", "apply", "verify"},
         buffers \ blocks = IF Full /\ code = "BADCKSUM" THEN {"uncompressed"} ELSE {}
  PROVE  PatchInv'
<1>. USE DEF FailFreeing
<1>1. /\ AnyDelta' /\ (Big' <=> Big) /\ (Full' <=> Full) /\ NewSize' = NewSize /\ OldSize' = OldSize
      /\ ppc' = "returned" /\ result' = code
      /\ UNCHANGED <<old, old_len, received, new_data, offsets, new_file>>
  BY DeltaFixed DEF PatchInv
<1>2. PTypeOK'
  BY <1>1 DEF PatchInv, PTypeOK, offsets
<1>3. Allocated'
  BY <1>1 DEF Allocated, OneKnownLeak
<1>4. Accepted' /\ Unwritten'
  BY <1>1 DEF Accepted, Unwritten
<1>5. IntactOrNothing'
  <2>1. new_file = EmptyFile /\ new_file' = EmptyFile
    BY <1>1 DEF PatchInv, Unwritten
  <2>2. DOMAIN EmptyFile = {}
    BY DEF EmptyFile
  <2>. QED
    BY <1>1, <2>1, <2>2 DEF IntactOrNothing
<1>. QED
  BY <1>1, <1>2, <1>3, <1>4, <1>5 DEF PatchInv

\* Every check of the header, every allocation and every record that fails.
LEMMA FailuresPreserve ==
  ASSUME PatchInv, UNCHANGED delta,
         \/ TooShort \/ BadMagic \/ FullFails \/ HeaderMissing \/ WrongOldSize
         \/ StreamsMissing \/ AllocFails \/ UnpackFails \/ RefuseRecord \/ Mismatch
  PROVE  PatchInv'
<1>1. CASE TooShort \/ BadMagic \/ HeaderMissing \/ WrongOldSize \/ StreamsMissing
  <2>1. ppc = "open" /\ buffers = {}
    BY <1>1 DEF TooShort, BadMagic, HeaderMissing, WrongOldSize, StreamsMissing,
                HeaderFits, HeaderRead, PatchInv, Allocated
  <2>2. PICK code \in {"BADPATCH", "TRUNCPATCH"} : FailFreeing(Freed, code)
    BY <1>1 DEF TooShort, BadMagic, HeaderMissing, WrongOldSize, StreamsMissing, Fail
  <2>. QED
    BY <2>1, <2>2, FailPreserves
<1>2. CASE FullFails \/ AllocFails
  <2>1. ppc = "open" /\ buffers = {}
    BY <1>2 DEF FullFails, AllocFails, HeaderFits, HeaderRead, PatchInv, Allocated
  <2>2. PICK code \in {"NOMEM", "LZMAERR"} : FailFreeing(Freed, code)
    BY <1>2 DEF FullFails, AllocFails, Fail
  <2>. QED
    BY <2>1, <2>2, FailPreserves
<1>3. CASE UnpackFails \/ RefuseRecord
  <2>1. ppc \in {"unpack", "apply"} /\ ~Full /\ buffers \subseteq Freed
    BY <1>3, OneKind DEF UnpackFails, RefuseRecord, PatchInv, Allocated, Accepted, Freed
  <2>2. PICK code \in {"NOMEM", "LZMAERR", "BADPATCH"} : FailFreeing(Freed, code)
    BY <1>3 DEF UnpackFails, RefuseRecord, Fail
  <2>. QED
    BY <2>1, <2>2, FailPreserves
<1>4. CASE Mismatch
  <2>1. ppc = "verify" /\ buffers = Freed
    BY <1>4 DEF Mismatch, PatchInv, Allocated
  <2>2. FailFreeing(IF Full THEN {} ELSE Freed, "BADCKSUM")
    BY <1>4 DEF Mismatch
  <2>3. buffers \ (IF Full THEN {} ELSE Freed) = IF Full THEN {"uncompressed"} ELSE {}
    BY <2>1 DEF Freed
  <2>. QED
    BY <2>1, <2>2, <2>3, FailPreserves
<1>. QED
  BY <1>1, <1>2, <1>3, <1>4

\* The call begins.
LEMMA CallPreserves ==
  ASSUME PatchInv, UNCHANGED delta,
         NEW len \in Nat, NEW file \in [0 .. len - 1 -> Byte],
         NEW part \in {"below70", "below133", "cut", "whole"}, Call(file, len, part)
  PROVE  PatchInv'
<1>. USE DEF Call, offsets
<1>1. AnyDelta' /\ (Big' <=> Big) /\ NewSize' = NewSize /\ OldSize' = OldSize
  BY DeltaFixed DEF PatchInv
<1>2. PTypeOK'
  BY DEF PatchInv, PTypeOK
<1>3. Allocated' /\ Accepted' /\ Unwritten'
  BY DEF PatchInv, Allocated, OneKnownLeak, Accepted, Unwritten
<1>4. IntactOrNothing'
  BY DEF PatchInv, IntactOrNothing
<1>. QED
  BY <1>1, <1>2, <1>3, <1>4 DEF PatchInv

\* The header is accepted, and the streams or the full delta are unpacked.
LEMMA UnpackingPreserves ==
  ASSUME PatchInv, UNCHANGED delta, FullUnpack \/ Allocate \/ UnpackStream \/ Unpack
  PROVE  PatchInv'
<1>1. /\ AnyDelta' /\ (Big' <=> Big) /\ (Full' <=> Full)
      /\ Freed' = Freed /\ NewSize' = NewSize /\ OldSize' = OldSize
  BY DeltaFixed DEF PatchInv
<1>2. /\ UNCHANGED <<old, old_len, received, offsets, result, new_file>>
      /\ ppc \in {"open", "unpack"} /\ ppc' \in {"verify", "unpack", "apply"}
  BY DEF FullUnpack, Allocate, UnpackStream, Unpack, HeaderFits, HeaderRead
<1>3. result = "none" /\ new_file = EmptyFile /\ new_pos = 0 /\ old_pos = 0
  BY <1>2 DEF PatchInv, Unwritten, Accepted
<1>4. Unwritten'
  BY <1>2, <1>3 DEF Unwritten
<1>5. IntactOrNothing'
  <2>1. DOMAIN EmptyFile = {}
    BY DEF EmptyFile
  <2>. QED
    BY <1>2, <1>3, <2>1 DEF IntactOrNothing
<1>6. Accepted' /\ Allocated' /\ PTypeOK'
  <2>1. CASE FullUnpack
    <3>1. Full /\ ~Big /\ delta.full \in [DOMAIN delta.full -> Byte]
      BY <2>1, OneKind DEF FullUnpack, PatchInv, AnyDelta
    <3>2. Accepted' /\ Allocated'
      BY <1>1, <2>1, <3>1 DEF FullUnpack, Accepted, Allocated, OneKnownLeak, Freed
    <3>3. PTypeOK'
      BY <1>1, <2>1, <3>1 DEF FullUnpack, PatchInv, PTypeOK, Freed, offsets
    <3>. QED
      BY <3>2, <3>3
  <2>2. CASE Allocate
    <3>1. Big /\ OldSize = old_len /\ NewSize \in Int /\ NewSize >= 0
      BY <2>2, WordsSpellIntegers
         DEF Allocate, HeaderFits, HeaderRead, PatchInv, AnyDelta, NewSize
    <3>2. Accepted' /\ Allocated'
      BY <1>1, <1>2, <1>3, <2>2, <3>1 DEF Allocate, Accepted, Allocated, OneKnownLeak, offsets
    <3>3. PTypeOK'
      BY <1>1, <2>2, <3>1 DEF Allocate, PatchInv, PTypeOK, offsets
    <3>. QED
      BY <3>2, <3>3
  <2>3. CASE UnpackStream
    <3>1. NextStream \in {"cb", "db", "eb"}
      BY DEF NextStream
    <3>2. Accepted' /\ Allocated'
      BY <1>1, <1>2, <2>3, <3>1
         DEF UnpackStream, PatchInv, Accepted, Allocated, OneKnownLeak, offsets
    <3>3. PTypeOK'
      BY <1>1, <2>3, <3>1 DEF UnpackStream, PatchInv, PTypeOK, offsets
    <3>. QED
      BY <3>2, <3>3
  <2>4. CASE Unpack
    <3>1. Big /\ ~Full /\ OldSize = old_len /\ NewSize \in Nat /\ old_len \in Nat
      BY <2>4, OneKind DEF Unpack, PatchInv, Accepted, PTypeOK
    <3>2. buffers = {"new_data", "cb", "db", "eb"}
      BY <2>4 DEF Unpack, PackedStreams, PatchInv, Allocated
    <3>3. Accepted' /\ Allocated'
      BY <1>1, <2>4, <3>1, <3>2 DEF Unpack, Accepted, Allocated, OneKnownLeak
    <3>4. PTypeOK'
      <4>1. 0 \in Byte
        BY ByteRangeAssumption DEF Byte
      <4>2. /\ DOMAIN new_data' = 0 .. NewSize - 1
            /\ new_data' \in [0 .. NewSize - 1 -> Byte]
        BY <2>4, <4>1 DEF Unpack
      <4>3. new_pos' \in 0 .. NewSize /\ old_pos' \in 0 .. OldSize
        BY <1>2, <1>3, <3>1 DEF offsets
      <4>. QED
        BY <1>1, <1>2, <2>4, <3>1, <3>2, <4>2, <4>3 DEF Unpack, PatchInv, PTypeOK, Freed, offsets
    <3>. QED
      BY <3>3, <3>4
  <2>. QED
    BY <2>1, <2>2, <2>3, <2>4
<1>. QED
  BY <1>1, <1>4, <1>5, <1>6 DEF PatchInv

\* A record that passes the checks stays inside both files.
LEMMA ApplyPreserves ==
  ASSUME PatchInv, UNCHANGED delta, StreamsSuffice, ApplyRecord
  PROVE  PatchInv'
<1>1. /\ AnyDelta' /\ (Big' <=> Big) /\ (Full' <=> Full)
      /\ Freed' = Freed /\ NewSize' = NewSize /\ OldSize' = OldSize
  BY DeltaFixed DEF PatchInv
<1>2. /\ UNCHANGED <<old, old_len, received, ppc, buffers, result, new_file>>
      /\ ppc = "apply" /\ new_pos < NewSize /\ ~BadAdd /\ ~BadCopy
  BY DEF ApplyRecord
<1>3. /\ Big /\ OldSize = old_len /\ NewSize \in Nat /\ old_len \in Nat
      /\ new_pos \in 0 .. NewSize /\ old_pos \in 0 .. OldSize
      /\ cb_off \in Nat /\ db_off \in Nat /\ eb_off \in Nat
      /\ old \in [0 .. old_len - 1 -> Byte]
      /\ new_data \in [0 .. NewSize - 1 -> Byte]
  BY <1>2 DEF PatchInv, Accepted, PTypeOK
<1>4. PICK add \in Int, copy \in Int, seek \in Int :
        Ctrl = [add |-> add, copy |-> copy, seek |-> seek]
  <2>1. delta.cb[cb_off + 1] \in [add : Word, copy : Word, seek : Word]
    <3>1. delta.cb \in Seq([add : Word, copy : Word, seek : Word]) /\ cb_off < Len(delta.cb)
      BY <1>2, <1>3 DEF PatchInv, AnyDelta, StreamsSuffice
    <3>2. cb_off + 1 \in 1 .. Len(delta.cb)
      BY <1>3, <3>1, LenProperties
    <3>. QED
      BY <3>1, <3>2, ElementOfSeq
  <2>2. /\ Ri64(delta.cb[cb_off + 1].add) \in Int
        /\ Ri64(delta.cb[cb_off + 1].copy) \in Int
        /\ Ri64(delta.cb[cb_off + 1].seek) \in Int
    BY <2>1, WordsSpellIntegers
  <2>. QED
    BY <2>2 DEF Ctrl
<1>5. Ctrl.add = add /\ Ctrl.copy = copy /\ Ctrl.seek = seek
  BY <1>4
<1>6. /\ add \in Nat /\ copy \in Nat
      /\ new_pos + add + copy <= NewSize
      /\ old_pos + add + seek \in 0 .. OldSize
  BY <1>2, <1>3, <1>5 DEF BadAdd, BadCopy
<1>7. /\ \A j \in 0 .. add - 1 : delta.db[db_off + j] \in Byte
      /\ \A j \in 0 .. copy - 1 : delta.eb[eb_off + j] \in Byte
  BY <1>2, <1>3, <1>5 DEF PatchInv, AnyDelta, StreamsSuffice
<1>. DEFINE Value(j) ==
       IF j < new_pos \/ j >= new_pos + add + copy THEN new_data[j]
       ELSE IF j < new_pos + add
       THEN (delta.db[db_off + (j - new_pos)] + OldByte(old_pos + (j - new_pos))) % ByteRange
       ELSE delta.eb[eb_off + (j - (new_pos + add))]
<1>8. new_data' = [j \in 0 .. NewSize - 1 |-> Value(j)]
  BY <1>5 DEF ApplyRecord, ExtraFrom
<1>9. ASSUME NEW j \in 0 .. NewSize - 1 PROVE Value(j) \in Byte
  <2>1. CASE j < new_pos \/ j >= new_pos + add + copy
    BY <1>3, <2>1
  <2>2. CASE j >= new_pos /\ j < new_pos + add
    <3>1. PICK d \in Int : d = delta.db[db_off + (j - new_pos)]
      <4>1. j - new_pos \in 0 .. add - 1
        BY <1>3, <1>6, <2>2
      <4>2. Byte \subseteq Int
        BY DEF Byte
      <4>. QED
        BY <1>7, <4>1, <4>2
    <3>2. PICK o \in Int : o = OldByte(old_pos + (j - new_pos))
      BY <1>3 DEF OldByte, Byte
    <3>3. Value(j) = (d + o) % ByteRange
      BY <1>3, <1>6, <2>2, <3>1, <3>2
    <3>. QED
      BY <3>3, ByteRangeAssumption DEF Byte
  <2>3. CASE j >= new_pos + add /\ j < new_pos + add + copy
    <3>1. j - (new_pos + add) \in 0 .. copy - 1
      BY <1>3, <1>6, <2>3
    <3>2. Value(j) = delta.eb[eb_off + (j - (new_pos + add))]
      BY <1>3, <1>6, <2>3
    <3>. QED
      BY <1>7, <3>1, <3>2
  <2>. QED
    BY <1>3, <1>6, <2>1, <2>2, <2>3
<1>. HIDE DEF Value
<1>10. new_data' \in [0 .. NewSize - 1 -> Byte]
  BY <1>8, <1>9
<1>11. /\ cb_off' = cb_off + 1 /\ db_off' = db_off + add /\ eb_off' = eb_off + copy
       /\ new_pos' = new_pos + add + copy /\ old_pos' = old_pos + add + seek
  BY <1>5 DEF ApplyRecord, NextCtrl, OldAfter
<1>12. PTypeOK'
  <2>1. new_pos' \in 0 .. NewSize /\ old_pos' \in 0 .. OldSize
        /\ cb_off' \in Nat /\ db_off' \in Nat /\ eb_off' \in Nat
    BY <1>3, <1>6, <1>11
  <2>. QED
    BY <1>1, <1>2, <1>10, <2>1 DEF PatchInv, PTypeOK
<1>13. Allocated' /\ Accepted' /\ Unwritten'
  BY <1>1, <1>2, <1>3 DEF PatchInv, Allocated, OneKnownLeak, Accepted, Unwritten, EmptyFile
<1>14. IntactOrNothing'
  <2>1. new_file' = EmptyFile /\ result' = "none"
    BY <1>2 DEF PatchInv, Unwritten
  <2>2. DOMAIN EmptyFile = {}
    BY DEF EmptyFile
  <2>. QED
    BY <2>1, <2>2 DEF IntactOrNothing
<1>. QED
  BY <1>1, <1>12, <1>13, <1>14 DEF PatchInv

\* The new file is complete; it is written, all of it or the beginning of it.
LEMMA WritingPreserves ==
  ASSUME PatchInv, UNCHANGED delta, EndApply \/ Write \/ WriteFails
  PROVE  PatchInv'
<1>1. /\ AnyDelta' /\ (Big' <=> Big) /\ (Full' <=> Full)
      /\ Freed' = Freed /\ NewSize' = NewSize /\ OldSize' = OldSize
      /\ UNCHANGED <<old, old_len, received, new_data, offsets>>
  BY DeltaFixed DEF PatchInv, EndApply, Write, WriteFails
<1>2. CASE EndApply
  <2>1. PTypeOK'
    BY <1>1, <1>2 DEF EndApply, PatchInv, PTypeOK, offsets
  <2>2. Big /\ ~Full
    BY <1>2, OneKind DEF EndApply, PatchInv, Accepted
  <2>3. Allocated' /\ Accepted' /\ Unwritten'
    BY <1>1, <1>2, <2>2
       DEF EndApply, PatchInv, Allocated, OneKnownLeak, Accepted, Unwritten, Freed, EmptyFile
  <2>4. IntactOrNothing'
    BY <1>1, <1>2 DEF EndApply, PatchInv, IntactOrNothing, Cksum
  <2>. QED
    BY <1>1, <2>1, <2>3, <2>4 DEF PatchInv
<1>3. CASE Write \/ WriteFails
  <2>1. /\ ppc = "verify" /\ ppc' = "returned" /\ buffers' = buffers \ Freed
        /\ result' \in {"OK", "IOERR"} /\ Intact
    BY <1>3 DEF Write, WriteFails
  <2>2. PTypeOK'
    BY <1>1, <2>1 DEF PatchInv, PTypeOK, offsets
  <2>3. buffers' = {}
    BY <2>1 DEF PatchInv, Allocated
  <2>4. Allocated' /\ Accepted' /\ Unwritten'
    BY <1>1, <2>1, <2>3 DEF Allocated, OneKnownLeak, Accepted, Unwritten
  <2>5. Cksum(new_data)' = delta.cksum'
    BY <1>1, <2>1 DEF Intact, Cksum
  <2>6. result' = "OK" => new_file' = new_data'
    BY <1>1, <1>3 DEF Write, WriteFails
  <2>7. \A j \in DOMAIN new_file' : new_file'[j] = new_data'[j]
    BY <1>1, <1>3 DEF Write, WriteFails
  <2>. QED
    BY <1>1, <2>2, <2>4, <2>5, <2>6, <2>7 DEF PatchInv, IntactOrNothing
<1>. QED
  BY <1>2, <1>3

\* A step that changes nothing.
LEMMA PatchStutters ==
  ASSUME PatchInv, UNCHANGED <<pvars, delta>>
  PROVE  PatchInv'
<1>1. /\ AnyDelta' /\ (Big' <=> Big) /\ (Full' <=> Full)
      /\ Freed' = Freed /\ NewSize' = NewSize /\ OldSize' = OldSize
  BY DeltaFixed DEF PatchInv
<1>2. PTypeOK' /\ Allocated' /\ Accepted' /\ Unwritten' /\ IntactOrNothing'
  BY <1>1 DEF PatchInv, pvars, offsets, PTypeOK, Allocated, OneKnownLeak, Accepted, Unwritten,
     EmptyFile, IntactOrNothing, Cksum
<1>. QED
  BY <1>1, <1>2 DEF PatchInv

-----------------------------------------------------------------------------
(***************************************************************************)
(* The theorems.                                                           *)
(***************************************************************************)
\* The inductive invariant holds while the streams are long enough.
THEOREM PatchInvariance == PatchSpec /\ []StreamsSuffice => []PatchInv
<1>1. PatchInit => PatchInv
  <2>. SUFFICES ASSUME PatchInit PROVE PatchInv
    OBVIOUS
  <2>. USE DEF PatchInit, PInit
  <2>1. PTypeOK
    BY DEF PTypeOK, EmptyFile
  <2>2. Allocated /\ Accepted /\ Unwritten
    BY DEF Allocated, OneKnownLeak, Accepted, Unwritten
  <2>3. IntactOrNothing
    BY DEF IntactOrNothing, EmptyFile
  <2>. QED
    BY <2>1, <2>2, <2>3 DEF PatchInv
<1>2. PatchInv /\ StreamsSuffice /\ [PatchNext]_<<pvars, delta>> => PatchInv'
  <2>. SUFFICES ASSUME PatchInv, StreamsSuffice, [PatchNext]_<<pvars, delta>> PROVE PatchInv'
    OBVIOUS
  <2>1. CASE UNCHANGED <<pvars, delta>>
    BY <2>1, PatchStutters
  <2>2. CASE PatchNext
    <3>1. UNCHANGED delta
      BY <2>2 DEF PatchNext
    <3>2. CASE PNext
      BY <3>1, <3>2, FailuresPreserve, UnpackingPreserves, ApplyPreserves, WritingPreserves,
         PatchStutters DEF PNext, PReturned
    <3>. QED
      BY <2>2, <3>1, <3>2, CallPreserves DEF PatchNext
  <2>. QED
    BY <2>1, <2>2
<1>. QED
  BY <1>1, <1>2, PTL DEF PatchSpec

\* The sanity checks keep both positions inside their files, and every byte
\* written to the new file a byte, whatever numbers the records hold.
THEOREM PatchTypeCorrect == PatchSpec /\ []StreamsSuffice => []PTypeOK
<1>1. PatchInv => PTypeOK
  BY DEF PatchInv
<1>. QED
  BY <1>1, PatchInvariance, PTL

\* No byte reaches the new file but those of a file with the right checksum.
THEOREM NothingWrittenUnchecked == PatchSpec /\ []StreamsSuffice => []IntactOrNothing
<1>1. PatchInv => IntactOrNothing
  BY DEF PatchInv
<1>. QED
  BY <1>1, PatchInvariance, PTL

\* Whatever fails, everything that was allocated is freed, but for the new file
\* of a full delta that has the wrong checksum.
THEOREM OneLeakOnly == PatchSpec /\ []StreamsSuffice => []OneKnownLeak
<1>1. PatchInv => OneKnownLeak
  BY DEF PatchInv, Allocated
<1>. QED
  BY <1>1, PatchInvariance, PTL

=============================================================================

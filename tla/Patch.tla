------------------------------- MODULE Patch -------------------------------
(***************************************************************************)
(* qbdiff_patch of src/libqbdiff.c.  A delta of the QBDF1 kind holds the   *)
(* new file itself.  For one of the QBDB1 kind qbdiff_patch checks the     *)
(* header, unpacks the three streams and applies one control record after  *)
(* the other.  Either way the new file is written if its checksum is right.*)
(*                                                                         *)
(* What is abstracted:                                                     *)
(*  - A delta is a record of its magic, its header fields, its three       *)
(*    streams (QBDB1) or the new file in full (QBDF1).                     *)
(*    Compression (liblzma) either gives the data back or fails.           *)
(*  - received says how much of the delta file there is: less than 70      *)
(*    bytes, less than 133, less than its header announces, or all of it.  *)
(*  - The checksum of a file is a value that only this file has.           *)
(*  - The offsets into cb count records instead of bytes.                  *)
(***************************************************************************)
EXTENDS Integers, Sequences, FiniteSets, Int64

CONSTANT ByteRange    \* number of values of a byte

ASSUME ByteRangeAssumption == ByteRange \in Nat \ {0}

VARIABLES
  old, old_len,        \* the old file qbpatch was given
  delta,               \* the delta file
  received,            \* how much of it there is
  ppc,                 \* "idle", "open", "unpack", "apply", "verify", "returned"
  buffers,             \* what qbdiff_patch has allocated and not freed
  new_data,            \* the new file under construction
  new_pos, old_pos,    \* positions in new_data and old
  cb_off, db_off, eb_off,   \* positions in the three streams
  result,              \* the error code
  new_file             \* what has been written to the new file

offsets == <<new_pos, old_pos, cb_off, db_off, eb_off>>
pvars   == <<old, old_len, received, ppc, buffers, new_data, offsets, result, new_file>>

Byte == 0 .. ByteRange - 1

\* A file none of whose bytes is written yet.
EmptyFile == [j \in 0 .. -1 |-> 0]

\* blake2b_cksum, for which no two files collide.
Cksum(file) == [blake2b |-> file]

\* The two kinds of delta.
Big  == delta.magic = "QBDB1"
Full == delta.magic = "QBDF1"

\* The fields of the header as they are read back.
OldSize == Ri64(delta.old_size)
NewSize == Ri64(delta.new_size)

\* The control record at cb_off.
Ctrl == [add  |-> Ri64(delta.cb[cb_off + 1].add),
         copy |-> Ri64(delta.cb[cb_off + 1].copy),
         seek |-> Ri64(delta.cb[cb_off + 1].seek)]

-----------------------------------------------------------------------------
PInit ==
  /\ old = EmptyFile /\ old_len = 0
  /\ received = "below70"
  /\ ppc = "idle"
  /\ buffers = {}
  /\ new_data = EmptyFile
  /\ new_pos = 0 /\ old_pos = 0 /\ cb_off = 0 /\ db_off = 0 /\ eb_off = 0
  /\ result = "none"
  /\ new_file = EmptyFile

\* qbpatch calls qbdiff_patch with an old file and some part of the delta.
Call(file, len, part) ==
  /\ ppc = "idle"
  /\ old' = file /\ old_len' = len /\ received' = part
  /\ ppc' = "open"
  /\ UNCHANGED <<buffers, new_data, offsets, result, new_file>>

\* A mutant of Freed that forgets the last stream.
FreedButExtra == IF Full THEN {"uncompressed"} ELSE {"new_data", "cb", "db"}

\* What the exits free: one after the write of a full delta; the label err and
\* the end of the other branch, where pointers may still be NULL.
Freed == IF Full THEN {"uncompressed"} ELSE {"new_data", "cb", "db", "eb"}

\* Return an error code without writing anything.
FailFreeing(blocks, code) ==
  /\ result' = code
  /\ buffers' = buffers \ blocks
  /\ ppc' = "returned"
  /\ UNCHANGED <<old, old_len, received, new_data, offsets, new_file>>

Fail(code) == FailFreeing(Freed, code)

\* The file is shorter than any delta.
TooShort == ppc = "open" /\ received = "below70" /\ Fail("TRUNCPATCH")

\* The file is not a delta.
BadMagic == ppc = "open" /\ received # "below70" /\ ~Big /\ ~Full /\ Fail("BADPATCH")

\* The new file of a full delta is not all there, or cannot be unpacked.
FullFails ==
  /\ ppc = "open" /\ received # "below70" /\ Full
  /\ \E code \in {"NOMEM", "LZMAERR"} : Fail(code)

\* A full delta is unpacked: it holds as many bytes as its header says.
FullUnpack ==
  /\ ppc = "open" /\ received = "whole" /\ Full
  /\ DOMAIN delta.full = 0 .. NewSize - 1
  /\ buffers' = {"uncompressed"}
  /\ new_data' = delta.full
  /\ ppc' = "verify"
  /\ UNCHANGED <<old, old_len, received, offsets, result, new_file>>

\* The file ends before the header of the streams does.
HeaderMissing == ppc = "open" /\ received = "below133" /\ Big /\ Fail("TRUNCPATCH")

\* The header is there, and has the size of the old file.
HeaderRead == ppc = "open" /\ received \in {"cut", "whole"} /\ Big
HeaderFits == HeaderRead /\ OldSize = old_len

\* The header is for an old file of another size.
WrongOldSize == HeaderRead /\ OldSize # old_len /\ Fail("BADPATCH")

\* A length is negative (the size of old cannot be, it is old_len), or the file
\* does not end where the streams do.
StreamsMissing ==
  /\ HeaderFits
  /\ NewSize < 0 \/ received = "cut"
  /\ Fail("TRUNCPATCH")

\* The new file does not fit in memory.
AllocFails == HeaderFits /\ received = "whole" /\ NewSize >= 0 /\ Fail("NOMEM")

Allocate ==
  /\ HeaderFits /\ received = "whole" /\ NewSize >= 0
  /\ buffers' = {"new_data"}
  /\ ppc' = "unpack"
  /\ UNCHANGED <<old, old_len, received, new_data, offsets, result, new_file>>

\* The streams are unpacked one after the other, each into a buffer of its own.
PackedStreams == {"cb", "db", "eb"} \ buffers
NextStream    == IF "cb" \in PackedStreams THEN "cb" ELSE IF "db" \in PackedStreams THEN "db" ELSE "eb"

UnpackStream ==
  /\ ppc = "unpack" /\ PackedStreams # {}
  /\ buffers' = buffers \cup {NextStream}
  /\ UNCHANGED <<old, old_len, received, ppc, new_data, offsets, result, new_file>>

\* One of the streams cannot be unpacked; decompress has freed its buffer.
UnpackFails ==
  /\ ppc = "unpack" /\ PackedStreams # {}
  /\ \E code \in {"NOMEM", "LZMAERR"} : Fail(code)

\* The streams are unpacked and the new file is zeroed.
Unpack ==
  /\ ppc = "unpack" /\ PackedStreams = {}
  /\ new_data' = [j \in 0 .. NewSize - 1 |-> 0]
  /\ ppc' = "apply"
  /\ UNCHANGED <<old, old_len, received, buffers, offsets, result, new_file>>

-----------------------------------------------------------------------------
\* The two sanity checks of the loop: before the differences are added, and
\* before the extra bytes are copied.
BadAdd ==
  \/ Ctrl.add < 0 \/ Ctrl.copy < 0
  \/ new_pos + Ctrl.add > NewSize

\* A mutant of BadCopy that accepts a seek before the start of old.
BadCopyHighOnly ==
  \/ new_pos + Ctrl.add + Ctrl.copy > NewSize
  \/ old_pos + Ctrl.add + Ctrl.seek > OldSize

BadCopy ==
  \/ new_pos + Ctrl.add + Ctrl.copy > NewSize
  \/ old_pos + Ctrl.add + Ctrl.seek > OldSize
  \/ old_pos + Ctrl.add + Ctrl.seek < 0

\* A record that does not fit the two files is refused.
RefuseRecord ==
  /\ ppc = "apply" /\ new_pos < NewSize
  /\ BadAdd \/ BadCopy
  /\ Fail("BADPATCH")

\* A byte of old, which counts as 0 outside the file.
OldByte(i) == IF i >= 0 /\ i < OldSize THEN old[i] ELSE 0

\* A mutant of OldAfter that forgets the bytes that were added.
OldAfterSeek == old_pos + Ctrl.seek

\* Where the next record starts in old.
OldAfter == old_pos + Ctrl.add + Ctrl.seek

\* A mutant of ExtraFrom that takes the extra bytes from the start.
ExtraFromStart == 0

\* Where the extra bytes of the record start in eb.
ExtraFrom == eb_off

\* The next control record.
NextCtrl == cb_off + 1

\* Add the differences to old, copy the extra bytes, and move on.
ApplyRecord ==
  /\ ppc = "apply" /\ new_pos < NewSize
  /\ ~BadAdd /\ ~BadCopy
  /\ new_data' = [j \in 0 .. NewSize - 1 |->
       IF j < new_pos \/ j >= new_pos + Ctrl.add + Ctrl.copy THEN new_data[j]
       ELSE IF j < new_pos + Ctrl.add
       THEN (delta.db[db_off + (j - new_pos)] + OldByte(old_pos + (j - new_pos))) % ByteRange
       ELSE delta.eb[ExtraFrom + (j - (new_pos + Ctrl.add))]]
  /\ cb_off' = NextCtrl
  /\ db_off' = db_off + Ctrl.add
  /\ eb_off' = eb_off + Ctrl.copy
  /\ new_pos' = new_pos + Ctrl.add + Ctrl.copy
  /\ old_pos' = OldAfter
  /\ UNCHANGED <<old, old_len, received, ppc, buffers, result, new_file>>

\* All of the new file is there: check it.
EndApply ==
  /\ ppc = "apply" /\ new_pos >= NewSize
  /\ ppc' = "verify"
  /\ UNCHANGED <<old, old_len, received, buffers, new_data, offsets, result, new_file>>

\* A mutant of Intact that accepts every file.
IntactAlways == TRUE

\* The checksum is the one of the file the delta was made from.
Intact == Cksum(new_data) = delta.cksum

\* The new file is not the right one.  A full delta returns at once (line 762).
Mismatch == ppc = "verify" /\ ~Intact /\ FailFreeing(IF Full THEN {} ELSE Freed, "BADCKSUM")

\* The new file is written.
Write ==
  /\ ppc = "verify" /\ Intact
  /\ new_file' = new_data
  /\ result' = "OK"
  /\ buffers' = buffers \ Freed
  /\ ppc' = "returned"
  /\ UNCHANGED <<old, old_len, received, new_data, offsets>>

\* The write stops short.
WriteFails ==
  /\ ppc = "verify" /\ Intact
  /\ \E n \in 0 .. NewSize - 1 : new_file' = [j \in 0 .. n - 1 |-> new_data[j]]
  /\ result' = "IOERR"
  /\ buffers' = buffers \ Freed
  /\ ppc' = "returned"
  /\ UNCHANGED <<old, old_len, received, new_data, offsets>>

PReturned == ppc = "returned" /\ UNCHANGED pvars

\* qbdiff_patch, once it is called.
PNext ==
  \/ TooShort \/ BadMagic \/ FullFails \/ FullUnpack
  \/ HeaderMissing \/ WrongOldSize \/ StreamsMissing
  \/ AllocFails \/ Allocate \/ UnpackStream \/ UnpackFails \/ Unpack
  \/ RefuseRecord \/ ApplyRecord \/ EndApply
  \/ Mismatch \/ Write \/ WriteFails
  \/ PReturned

-----------------------------------------------------------------------------
(***************************************************************************)
(* Properties, for any delta.                                              *)
(***************************************************************************)
\* The patcher's variables keep their types.  In particular the sanity checks
\* keep the position in new_data inside the new file and the position in old
\* inside the old one, whatever the control records say.
PTypeOK ==
  /\ ppc \in {"idle", "open", "unpack", "apply", "verify", "returned"}
  /\ received \in {"below70", "below133", "cut", "whole"}
  /\ old_len \in Nat /\ old \in [0 .. old_len - 1 -> Byte]
  /\ result \in {"none", "OK", "NOMEM", "IOERR", "BADPATCH", "TRUNCPATCH",
                 "BADCKSUM", "LZMAERR"}
  /\ cb_off \in Nat /\ db_off \in Nat /\ eb_off \in Nat
  /\ buffers \subseteq {"uncompressed", "new_data", "cb", "db", "eb"}
  /\ ppc \in {"apply", "verify"} => Freed \subseteq buffers
  /\ new_data \in [DOMAIN new_data -> Byte]
  /\ ppc \in {"apply", "verify"} => DOMAIN new_data = 0 .. NewSize - 1
  /\ ppc \in {"apply", "verify"} /\ Big =>
       /\ new_pos \in 0 .. NewSize
       /\ old_pos \in 0 .. OldSize

\* A byte reaches the new file only when the whole new file has been rebuilt and
\* has the checksum of the delta.
IntactOrNothing ==
  /\ DOMAIN new_file # {} => Cksum(new_data) = delta.cksum
  /\ \A j \in DOMAIN new_file : new_file[j] = new_data[j]
  /\ result = "OK" => new_file = new_data

\* qbdiff_patch returns nothing allocated, whichever check, allocation or write
\* fails first, but for the new file of a full delta that turns out wrong.
OneKnownLeak ==
  ppc = "returned" =>
    buffers = IF Full /\ result = "BADCKSUM" THEN {"uncompressed"} ELSE {}

=============================================================================

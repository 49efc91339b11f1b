----------------------------- MODULE RoundTrip -----------------------------
(***************************************************************************)
(* qbdiff and qbpatch together: the matcher (module Match) makes the       *)
(* streams, qbdiff_compute puts them into a delta, and qbdiff_patch        *)
(* (module Patch) applies the delta.  The old file that qbpatch is given   *)
(* is the one qbdiff was given or another one, and the delta may have lost *)
(* its end on the way.  As in Match, the buffer of the control records is  *)
(* taken to be large enough for them.                                      *)
(***************************************************************************)
EXTENDS Match

VARIABLES
  base, base_size,     \* the old file of qbpatch
  delta,               \* the delta, once qbdiff has written it
  received,            \* how much of it qbpatch gets
  ppc, buffers, new_data, p_new_pos, p_old_pos, cb_off, db_off, eb_off, result,
  new_file,            \* as in Patch
  starts               \* history: where each record starts

patching == <<base, base_size, received, ppc, buffers, new_data, p_new_pos, p_old_pos,
              cb_off, db_off, eb_off, result, new_file>>
rtvars   == <<vars, delta, patching, starts>>

P == INSTANCE Patch WITH old <- base, old_len <- base_size,
                         new_pos <- p_new_pos, old_pos <- p_old_pos

\* The old files given to qbpatch: the right one, each one that differs from it
\* in one byte, and one that is a byte longer.
Bases ==
  {old} \cup {[old EXCEPT ![i] = b] : i \in 0 .. old_size - 1, b \in Byte}
        \cup {[j \in 0 .. old_size |-> IF j < old_size THEN old[j] ELSE 0]}

\* Where the records written so far end.
Here == [new |-> last_new_pos, old |-> last_old_pos, cb |-> Len(cb),
         db |-> dblen, eb |-> eblen]

-----------------------------------------------------------------------------
RTInit ==
  /\ Init /\ P!PInit
  /\ delta = [magic |-> "none"]
  /\ starts = <<Here>>

\* The matcher takes a step; every record it writes is remembered.
Matching ==
  /\ Next
  /\ ppc = "idle" /\ UNCHANGED <<delta, patching>>
  /\ starts' = IF cb' = cb THEN starts ELSE Append(starts, Here')

\* qbdiff_compute writes the delta: the streams, or the whole of new if they
\* take up more than nine tenths of it.  Which of the two it is depends on how
\* well the streams can be compressed.
Encode ==
  /\ pc = "done" /\ delta.magic = "none"
  /\ \/ delta' = [magic |-> "QBDB1", cksum |-> P!Cksum(new),
                  old_size |-> Wi64(old_size), new_size |-> Wi64(new_size),
                  cb |-> cb, db |-> db, eb |-> eb]
     \/ delta' = [magic |-> "QBDF1", cksum |-> P!Cksum(new),
                  new_size |-> Wi64(new_size), full |-> new]
  /\ UNCHANGED <<vars, patching, starts>>

\* The delta reaches qbpatch, whole or not, with some old file.
Deliver ==
  /\ delta.magic # "none"
  /\ \/ \E file \in Bases : P!Call(file, Cardinality(DOMAIN file), "whole")
     \/ \E part \in {"below70", "below133", "cut"} : P!Call(old, old_size, part)
  /\ UNCHANGED <<vars, delta, starts>>

\* qbdiff_patch takes a step.
Patching ==
  /\ UNCHANGED <<vars, delta, starts>>
  /\ P!PNext

RTNext == Matching \/ Encode \/ Deliver \/ Patching

\* Each program, once started, runs as long as it has a step.  Nothing makes a
\* user call qbpatch.
RTSpec ==
  /\ RTInit /\ [][RTNext]_rtvars
  /\ WF_rtvars(Matching \/ Encode) /\ WF_rtvars(Patching)

-----------------------------------------------------------------------------
(***************************************************************************)
(* Properties.                                                             *)
(***************************************************************************)
\* The codes that say that the machine failed, not the delta.
ResourceErrors == {"NOMEM", "LZMAERR", "IOERR"}

\* With the whole delta and the old file it was made from, qbdiff_patch gives
\* the new file back, unless memory or the disk fails: it never refuses a
\* record of qbdiff and never ends with a wrong checksum.
RestoresNew ==
  ppc = "returned" /\ received = "whole" /\ base = old =>
    \/ result = "OK" /\ new_file = new
    \/ result \in ResourceErrors

\* Whatever old file and part of the delta qbdiff_patch gets, it writes nothing
\* but the new file: all of it if it returns QBERR_OK, the beginning of it if
\* the write fails, and not a byte otherwise.
NothingButNew ==
  /\ \A j \in DOMAIN new_file : new_file[j] = new[j]
  /\ result = "OK" => new_file = new
  /\ result \notin {"OK", "IOERR"} => DOMAIN new_file = {}

\* A wrong old file of the right size is caught by the checksum alone: the
\* records fit every file of that size.
WrongOldCaughtByChecksum == result = "BADPATCH" => base_size # old_size

\* The reads of the three streams, which qbdiff_patch does not test, stay inside
\* them: there is a record as long as the new file is not complete, and its
\* bytes are there.
StreamReads ==
  ppc = "apply" /\ p_new_pos < new_size =>
    /\ cb_off < Len(cb)
    /\ db_off + Ri64(cb[cb_off + 1].add) <= dblen
    /\ eb_off + Ri64(cb[cb_off + 1].copy) <= eblen

\* qbdiff_patch walks in the footsteps of the matcher: when it comes to a record,
\* its five positions are those the matcher had when it began that record.
FollowsMatcher ==
  ppc \in {"apply", "verify"} /\ P!Big =>
    starts[cb_off + 1] = [new |-> p_new_pos, old |-> p_old_pos, cb |-> cb_off,
                          db |-> db_off, eb |-> eb_off]

\* With the right old file, what is restored so far is the beginning of new.
RestoredSoFar ==
  ppc = "apply" /\ base = old =>
    \A j \in 0 .. p_new_pos - 1 : new_data[j] = new[j]

\* Both programs end, though a record may account for no byte at all.
RoundTripEnds ==
  /\ <>(delta.magic # "none")
  /\ ppc = "open" ~> ppc = "returned"

=============================================================================

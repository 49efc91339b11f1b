------------------------------ MODULE Compute ------------------------------
(***************************************************************************)
(* qbdiff_compute of src/libqbdiff.c, with diff and compress: what it      *)
(* allocates, what it writes, and what happens when a step fails.  The     *)
(* three streams are compressed by the threads of an OpenMP loop; the      *)
(* thread that called qbdiff_compute does everything else.                 *)
(*                                                                         *)
(* What is abstracted:                                                     *)
(*  - The files: large tells whether both have 256 bytes, and the matcher  *)
(*    is one step (module Match runs it).                                  *)
(*  - A compressed stream is its length, one of Lengths; Limit stands for  *)
(*    nine tenths of new_size.                                             *)
(*  - The delta is the sequence of the parts fwrite was given; the eight   *)
(*    numbers behind the checksum are one part.  A write that fails adds   *)
(*    nothing.                                                             *)
(*  - heap holds the names of the blocks that malloc returned and nobody   *)
(*    has freed.                                                           *)
(***************************************************************************)
EXTENDS Integers, Sequences, FiniteSets, Folds

CONSTANTS
  Lengths,    \* lengths of a compressed stream
  Limit       \* a longer sum makes qbdiff_compute write the whole of new

ASSUME ComputeAssumption ==
  /\ Lengths \subseteq Nat \ {0}
  /\ Limit \in Nat

Streams == {"cb", "db", "eb"}

\* The block that compress allocates for a stream: newcb, newdb and neweb.
NewBlock == [cb |-> "newcb", db |-> "newdb", eb |-> "neweb"]

VARIABLES
  cpc,        \* where qbdiff_compute is
  large,      \* both files have at least 256 bytes
  tpc,        \* where the loop iteration of each stream is
  n, nl,      \* its compressed stream: "null" or "data", and the length
  kind,       \* the kind of delta: "none", "QBDF1" or "QBDB1"
  file,       \* the delta file
  heap,       \* allocated blocks
  result      \* what qbdiff_compute returns

compression == <<tpc, n, nl>>
cvars       == <<cpc, large, compression, kind, file, heap, result>>

\* The parts of a delta, in the order they are written.
FullLayout == <<"QBDF1", "cksum", "size", "new">>
BigLayout  == <<"QBDB1", "cksum", "sizes", "cb", "db", "eb">>
Layout     == IF kind = "QBDF1" THEN FullLayout ELSE BigLayout

-----------------------------------------------------------------------------
CInit ==
  /\ cpc = "start"
  /\ large \in BOOLEAN
  /\ tpc = [s \in Streams |-> "idle"]
  /\ n = [s \in Streams |-> "null"]
  /\ nl = [s \in Streams |-> 0]
  /\ kind = "none"
  /\ file = <<>>
  /\ heap = {}
  /\ result = "none"

\* qbdiff_compute returns code after freeing blocks.
ReturnFreeing(blocks, code) ==
  /\ heap' = heap \ blocks
  /\ result' = code
  /\ cpc' = "returned"
  /\ UNCHANGED <<large, compression, kind, file>>

\* Small files are not compared: the delta is the new file.
Small ==
  /\ cpc = "start" /\ ~large
  /\ kind' = "QBDF1"
  /\ cpc' = "write"
  /\ UNCHANGED <<large, compression, file, heap, result>>

\* diff allocates the suffix array.
AllocSuffixArray ==
  /\ cpc = "start" /\ large
  /\ heap' = heap \cup {"I"}
  /\ cpc' = "sais"
  /\ UNCHANGED <<large, compression, kind, file, result>>

\* There is no memory for it.
NoSuffixArray == cpc = "start" /\ large /\ ReturnFreeing({}, "NOMEM")

\* libsais fails: diff returns without freeing the array.
SaisFails == cpc = "sais" /\ ReturnFreeing({}, "SAIS")

\* The matcher cannot allocate one of its three buffers: it frees those it has,
\* and diff frees the suffix array.
NoBuffers == cpc = "sais" /\ ReturnFreeing({"I"}, "NOMEM")

\* The matcher leaves its three buffers, and the suffix array is freed.
Matched ==
  /\ cpc = "sais"
  /\ heap' = (heap \ {"I"}) \cup Streams
  /\ cpc' = "compress"
  /\ UNCHANGED <<large, compression, kind, file, result>>

-----------------------------------------------------------------------------
(***************************************************************************)
(* The parallel loop: compress for each of the streams.                    *)
(***************************************************************************)
\* compress zeroes the length and allocates as much as the stream has, and 64
\* bytes.
CompressAlloc(s) ==
  /\ cpc = "compress" /\ tpc[s] = "idle"
  /\ n' = [n EXCEPT ![s] = "data"]
  /\ heap' = heap \cup {NewBlock[s]}
  /\ tpc' = [tpc EXCEPT ![s] = "encode"]
  /\ UNCHANGED <<cpc, large, nl, kind, file, result>>

\* lzma_stream_buffer_encode succeeds.
CompressEncode(s) ==
  /\ cpc = "compress" /\ tpc[s] = "encode"
  /\ \E len \in Lengths : nl' = [nl EXCEPT ![s] = len]
  /\ tpc' = [tpc EXCEPT ![s] = "done"]
  /\ UNCHANGED <<cpc, large, n, kind, file, heap, result>>

\* The preset or the allocation fails, and *dest is left NULL.
CompressNoMemory(s) ==
  /\ cpc = "compress" /\ tpc[s] = "idle"
  /\ tpc' = [tpc EXCEPT ![s] = "done"]
  /\ UNCHANGED <<cpc, large, n, nl, kind, file, heap, result>>

\* A mutant of EncodeFailure that does not reset the pointer it has freed.
EncodeFailureDangling(s) ==
  /\ heap' = heap \ {NewBlock[s]}
  /\ UNCHANGED n

\* What compress undoes when the encoder fails, which it does when the result
\* does not fit: the block is freed and *dest is NULL again.
EncodeFailure(s) ==
  /\ heap' = heap \ {NewBlock[s]}
  /\ n' = [n EXCEPT ![s] = "null"]

CompressFails(s) ==
  /\ cpc = "compress" /\ tpc[s] = "encode"
  /\ EncodeFailure(s)
  /\ tpc' = [tpc EXCEPT ![s] = "done"]
  /\ UNCHANGED <<cpc, large, nl, kind, file, result>>

\* A mutant of LoopEnds that does not wait for the last thread.
LoopEndsEarly == cpc = "compress" /\ \E s \in Streams : tpc[s] = "done"

\* The threads meet at the end of the loop.
LoopEnds == cpc = "compress" /\ \A s \in Streams : tpc[s] = "done"

\* The results of the three calls of compress are not looked at.  The delta
\* holds the streams, or the whole of new if they take up too much.
Choose ==
  /\ LoopEnds
  /\ kind' = IF MapThenFoldSet(+, 0, LAMBDA s : nl[s], LAMBDA T : CHOOSE s \in T : TRUE, Streams)
                > Limit
             THEN "QBDF1" ELSE "QBDB1"
  /\ cpc' = "write"
  /\ UNCHANGED <<large, compression, file, heap, result>>

-----------------------------------------------------------------------------
(***************************************************************************)
(* Writing the delta.                                                      *)
(***************************************************************************)
\* The buffers that both exits of the large case free.  free(NULL) does nothing.
Pointers == {NewBlock[s] : s \in {t \in Streams : n[t] = "data"}} \cup Streams

\* What the exit frees: the small case has no buffers but the compressed file.
ExitFrees(blocks) == IF large THEN Pointers \cup blocks ELSE blocks

\* The part that is written next.
Part == Layout[Len(file) + 1]
Written == cpc = "write" /\ Len(file) = Len(Layout)

\* What fwrite puts into the file for a part: nothing for a stream that compress
\* failed on, since its pointer is NULL and its length 0.
Content(part) ==
  IF part \in Streams /\ n[part] = "null" THEN [part |-> part, data |-> "missing"]
  ELSE [part |-> part, data |-> "whole"]

\* Before its size is written, new is compressed as a whole.
NeedsNew == kind = "QBDF1" /\ Part = "size" /\ "compressed" \notin heap

CompressNew ==
  /\ cpc = "write" /\ ~Written /\ NeedsNew
  /\ heap' = heap \cup {"compressed"}
  /\ UNCHANGED <<cpc, large, compression, kind, file, result>>

\* compress fails on new.
CompressNewFails ==
  /\ cpc = "write" /\ ~Written /\ NeedsNew
  /\ \E code \in {"NOMEM", "LZMAERR"} : ReturnFreeing(ExitFrees({}), code)

WritePart ==
  /\ cpc = "write" /\ ~Written /\ ~NeedsNew
  /\ file' = Append(file, Content(Part))
  /\ UNCHANGED <<cpc, large, compression, kind, heap, result>>

\* A mutant of WriteFailure that reports success.
WriteFailureIgnored == "OK"

\* The code a failed write ends with.
WriteFailure == "IOERR"

\* fwrite fails.  Only the small case frees the compressed file.
WritePartFails ==
  /\ cpc = "write" /\ ~Written /\ ~NeedsNew
  /\ ReturnFreeing(ExitFrees(IF large THEN {} ELSE {"compressed"}), WriteFailure)

\* A mutant of FreedAtEnd that forgets the compressed new file.
FreedAtEndButNew == {}

\* Besides the buffers: the compressed new file, if there is one.
FreedAtEnd == {"compressed"}

\* Everything is written and freed.
Done == Written /\ ReturnFreeing(ExitFrees(FreedAtEnd), "OK")

CReturned == cpc = "returned" /\ UNCHANGED cvars

CNext ==
  \/ Small \/ AllocSuffixArray \/ NoSuffixArray \/ SaisFails \/ NoBuffers \/ Matched
  \/ \E s \in Streams :
       CompressAlloc(s) \/ CompressEncode(s) \/ CompressNoMemory(s) \/ CompressFails(s)
  \/ Choose
  \/ CompressNew \/ CompressNewFails \/ WritePart \/ WritePartFails \/ Done
  \/ CReturned

CSpec == CInit /\ [][CNext]_cvars

-----------------------------------------------------------------------------
(***************************************************************************)
(* Properties.                                                             *)
(***************************************************************************)
\* The variables keep their types.  In particular a stream has a length only if
\* it has data, and none changes after the threads have met: the delta is cut
\* from streams that are settled.
CTypeOK ==
  /\ cpc \in {"start", "sais", "compress", "write", "returned"}
  /\ large \in BOOLEAN
  /\ tpc \in [Streams -> {"idle", "encode", "done"}]
  /\ n \in [Streams -> {"null", "data"}]
  /\ nl \in [Streams -> Lengths \cup {0}]
  /\ kind \in {"none", "QBDF1", "QBDB1"}
  /\ heap \subseteq Streams \cup {"newcb", "newdb", "neweb", "I", "compressed"}
  /\ result \in {"none", "OK", "NOMEM", "IOERR", "LZMAERR", "SAIS"}
  /\ \A s \in Streams :
       /\ nl[s] # 0 => n[s] = "data" /\ tpc[s] = "done"
       /\ large /\ cpc = "write" => tpc[s] = "done" /\ (n[s] = "data" => nl[s] # 0)
  /\ \A i \in DOMAIN file : i <= Len(Layout) /\ file[i].part = Layout[i]

\* The whole of a delta, as qbdiff_patch needs it.
Complete ==
  /\ Len(file) = Len(Layout)
  /\ \A i \in DOMAIN file : file[i].data = "whole"

\* QBERR_OK and a usable delta go together, if none of the three calls of
\* compress has failed: an error never leaves a delta that qbdiff_patch accepts,
\* and success never one that it does not.
OKMeansComplete ==
  cpc = "returned" /\ (\A s \in Streams : tpc[s] = "done" => n[s] = "data") =>
    (result = "OK" <=> kind # "none" /\ Complete)

\* No block is freed twice, and none is used after it was freed: what the
\* pointers say is on the heap until qbdiff_compute returns.
PointersLive ==
  large /\ cpc \in {"compress", "write"} => Pointers \subseteq heap

\* When qbdiff_compute returns, only the blocks of two error paths are left: the
\* suffix array when libsais fails, and the compressed new file of the large
\* case when a write fails.
OnlyKnownLeaks ==
  cpc = "returned" => heap \subseteq IF result = "SAIS" THEN {"I"}
                                     ELSE IF result = "IOERR" /\ large THEN {"compressed"}
                                     ELSE {}

\* man/qbdiff.1.in: qbdiff computes the difference and writes it to a binary file
\* suitable for use with qbpatch.  A run that reports success has not done so
\* when compress failed on one of the streams.
WritesSuitableFile == cpc = "returned" /\ result = "OK" => Complete

=============================================================================

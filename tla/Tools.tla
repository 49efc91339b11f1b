------------------------------- MODULE Tools -------------------------------
(***************************************************************************)
(* The two programs around the library: main of qbdiff.c and of qbpatch.c  *)
(* with map_file, unmap_file and close_out_file of libqbdiff_private.h     *)
(* (the Linux forms), and what they leave in the file system.              *)
(*                                                                         *)
(* A file has contents in the page cache (file) and on the medium (disk),  *)
(* which writeback brings up to date at any time and fsync for certain.    *)
(* Of the contents counts: no file, an input as the user made it, or the   *)
(* number of pieces of the output that are there, 0 for an empty file and  *)
(* Pieces for all of it.  The name of a new file is taken to reach the     *)
(* medium with its contents.  The library is its result: it reads its      *)
(* inputs, hands pieces to the output stream and may fail at any point.    *)
(***************************************************************************)
EXTENDS Integers

CONSTANTS Paths, Pieces

ASSUME ToolsAssumption == Pieces \in Nat \ {0}

Missing  == -2
Original == -1
Empty    == 0

VARIABLES
  tool,          \* which of the two programs
  in1, in2, out, \* the paths of the two inputs and the output
  syncable,      \* the output is a file that fsync supports
  stage,         \* where main is
  mapped,        \* the paths that map_file has mapped
  handed,        \* pieces the library has passed to fwrite
  status,        \* "running", "exit0", "exit1", "killed" or "crashed"
  file, disk     \* contents by path

setting == <<tool, in1, in2, out, syncable>>
tvars   == <<setting, stage, mapped, handed, status, file, disk>>

-----------------------------------------------------------------------------
\* A mutant of the order: the output is opened before the second input.
AfterOpenEarly ==
  [usage |-> "map1", map1 |-> "open", open |-> "map2", map2 |-> "read",
   read |-> "library", library |-> "flush", flush |-> "sync",
   sync |-> "close", close |-> "unmap"]

\* The order of the calls of main and of close_out_file.
After ==
  [usage |-> "map1", map1 |-> "map2", map2 |-> "open", open |-> "read",
   read |-> "library", library |-> "flush", flush |-> "sync",
   sync |-> "close", close |-> "unmap"]

\* The argument order of qbpatch is old new delta.
Arguments ==
  \E a, b, c \in Paths :
    \/ tool = "qbdiff"  /\ in1 = a /\ in2 = b /\ out = c
    \/ tool = "qbpatch" /\ in1 = a /\ in2 = c /\ out = b

TInit ==
  /\ tool \in {"qbdiff", "qbpatch"}
  /\ Arguments
  /\ syncable \in BOOLEAN
  /\ stage = "usage" /\ status = "running"
  /\ mapped = {} /\ handed = 0
  /\ file \in [Paths -> {Missing, Empty, Original}]
  /\ disk = file

At(s) == status = "running" /\ stage = s

Proceed ==
  /\ stage' = After[stage]
  /\ UNCHANGED <<setting, status, disk>>

\* exit(1) or return 1: from anywhere; the streams are flushed on the way.
Exits ==
  /\ stage' = "exiting"
  /\ UNCHANGED <<setting, status, mapped, handed, file, disk>>

Usage ==
  /\ At("usage")
  /\ \/ Exits                                \* argc < 4
     \/ Proceed /\ UNCHANGED <<mapped, handed, file>>

\* open, fstat and mmap; mmap refuses a length of 0.
MapFile(path) ==
  /\ file[path] \notin {Missing, Empty}
  /\ mapped' = mapped \cup {path}
  /\ Proceed
  /\ UNCHANGED <<handed, file>>

MapFirst  == At("map1") /\ (MapFile(in1) \/ Exits)
MapSecond == At("map2") /\ (MapFile(in2) \/ Exits)

\* fopen with "wb" creates the output or cuts it to nothing.
OpenOutput ==
  /\ At("open")
  /\ \/ /\ file' = [file EXCEPT ![out] = Empty]
        /\ Proceed
        /\ UNCHANGED <<mapped, handed>>
     \/ Exits

-----------------------------------------------------------------------------
\* The library always reads the second input (qbdiff the new file, for its
\* checksum; qbpatch the delta) and, unless the delta is a full one, the first.
\* A page behind the end of a mapped file that was cut is SIGBUS.
ReadInputs ==
  /\ At("read")
  /\ \E read \in {{in2}, {in1, in2}} :
       IF \E path \in read : file[path] # Original
         THEN status' = "killed"
              /\ UNCHANGED <<setting, stage, mapped, handed, file, disk>>
         ELSE Proceed /\ UNCHANGED <<mapped, handed, file>>

Fwrite ==
  /\ At("library") /\ handed < Pieces
  /\ handed' = handed + 1
  /\ UNCHANGED <<setting, stage, mapped, status, file, disk>>

\* The stream passes pieces on to the kernel: whenever it is full, in fflush
\* and in exit.
StreamWrites ==
  /\ status = "running" /\ stage \in {"library", "flush", "exiting"}
  /\ file[out] \in 0 .. handed - 1
  /\ file' = [file EXCEPT ![out] = @ + 1]
  /\ UNCHANGED <<setting, stage, mapped, handed, status, disk>>

\* The library returns QBERR_OK, having handed over everything, or an error:
\* qbpatch may, for a short delta, before it has read anything.
LibraryReturns ==
  /\ At("library") /\ handed = Pieces
  /\ Proceed
  /\ UNCHANGED <<mapped, handed, file>>

LibraryFails ==
  /\ At("library") \/ (At("read") /\ tool = "qbpatch")
  /\ Exits

-----------------------------------------------------------------------------
\* fflush returns 0 when the stream is empty.
Flush ==
  /\ At("flush")
  /\ \/ /\ file[out] = handed
        /\ Proceed
        /\ UNCHANGED <<mapped, handed, file>>
     \/ Exits

\* What fsync may answer: EINTR needs no variable, the answer is asked again.
Answers == IF syncable THEN {"ok", "EINTR", "EIO"} ELSE {"EINVAL", "EINTR"}

\* Two mutants of the tests: any answer ends the loop; EINVAL is asked again.
FatalNever(answer)     == FALSE
RetriedInvalid(answer) == answer \in {"EINTR", "EINVAL"}

Fatal(answer)   == answer \notin {"ok", "EINVAL", "EINTR"}
Retried(answer) == answer = "EINTR"

Fsync ==
  /\ At("sync")
  /\ \E answer \in Answers :
       \/ Fatal(answer) /\ Exits
       \/ Retried(answer) /\ UNCHANGED tvars
       \/ /\ ~Fatal(answer) /\ ~Retried(answer)
          /\ stage' = After[stage]
          /\ disk' = IF answer = "ok" THEN [disk EXCEPT ![out] = file[out]] ELSE disk
          /\ UNCHANGED <<setting, mapped, handed, status, file>>

Fclose ==
  /\ At("close")
  /\ \/ Proceed /\ UNCHANGED <<mapped, handed, file>>
     \/ Exits

\* munmap and close of both inputs, return 0.
UnmapAndReturn ==
  /\ At("unmap")
  /\ status' = "exit0" /\ mapped' = {}
  /\ UNCHANGED <<setting, stage, handed, file, disk>>

\* The end of a failing run; what the stream still holds may be lost.
ExitFailing ==
  /\ At("exiting")
  /\ status' = "exit1" /\ mapped' = {}
  /\ UNCHANGED <<setting, stage, handed, file, disk>>

-----------------------------------------------------------------------------
\* The kernel and the machine.
Writeback(path) ==
  /\ disk[path] # file[path]
  /\ disk' = [disk EXCEPT ![path] = file[path]]
  /\ UNCHANGED <<setting, stage, mapped, handed, status, file>>

\* What a run has reported before the crash stays reported.
Crash ==
  /\ stage # "crashed"
  /\ stage' = "crashed"
  /\ status' = IF status = "running" THEN "crashed" ELSE status
  /\ file' = disk /\ mapped' = {}
  /\ UNCHANGED <<setting, handed, disk>>

Main ==
  \/ Usage \/ MapFirst \/ MapSecond \/ OpenOutput
  \/ ReadInputs \/ Fwrite \/ StreamWrites
  \/ LibraryReturns \/ LibraryFails
  \/ Flush \/ Fsync \/ Fclose \/ UnmapAndReturn \/ ExitFailing

TNext == Main \/ (\E path \in Paths : Writeback(path)) \/ Crash

TSpec == TInit /\ [][TNext]_tvars /\ WF_tvars(Main)

-----------------------------------------------------------------------------
\* A run that reports success has put the whole output into the file and, where
\* fsync is supported, on the medium: also when the machine crashes right after
\* (close_out_file, lines 97-124).
SuccessIsDurable ==
  status = "exit0" =>
    /\ stage # "crashed" => file[out] = Pieces
    /\ syncable => disk[out] = Pieces /\ file[out] = Pieces

\* A run that cannot map both inputs leaves the file at the output path as it
\* was, in the page cache and, without a crash, on the medium: nothing is cut
\* before both files are there (main, lines 41-44 and 42-45).
OutputAfterInputs ==
  [][file'[out] # file[out] /\ stage' # "crashed" => {in1, in2} \subseteq mapped]_tvars

\* The program ends, however often fsync is interrupted, when some answer is
\* not an interruption.
ToolEnds == <>(status # "running")
=============================================================================

--------------------------- MODULE ComputeProofs ---------------------------
(***************************************************************************)
(* Proofs about module Compute, for every set of compressed lengths and    *)
(* every limit.                                                            *)
(***************************************************************************)
EXTENDS Compute, SequenceTheorems, TLAPS

-----------------------------------------------------------------------------
(***************************************************************************)
(* The inductive invariant: what is true at each place of qbdiff_compute.  *)
(***************************************************************************)
Parts == {"QBDF1", "QBDB1", "cksum", "size", "sizes", "new", "cb", "db", "eb"}

\* The delta is an initial part of its layout, and each part is what Content
\* makes of it.
Prefix ==
  /\ file \in Seq([part : Parts, data : {"whole", "missing"}])
  /\ Len(file) <= Len(Layout)
  /\ \A i \in 1 .. Len(file) : file[i] = Content(Layout[i])

\* The blocks that compress has left.
NewBlocks == {NewBlock[s] : s \in {t \in Streams : n[t] = "data"}}

\* The loop iterations have all ended, and what has data has a length.
Settled == \A s \in Streams : tpc[s] = "done" /\ (n[s] = "data" => nl[s] # 0)

AtStart ==
  cpc \in {"start", "sais"} =>
    /\ kind = "none" /\ file = <<>>
    /\ tpc = [s \in Streams |-> "idle"] /\ n = [s \in Streams |-> "null"]
    /\ nl = [s \in Streams |-> 0]
    /\ heap = IF cpc = "start" THEN {} ELSE {"I"}
    /\ cpc = "sais" => large

InLoop ==
  cpc = "compress" =>
    /\ large /\ kind = "none" /\ file = <<>>
    /\ heap = Streams \cup NewBlocks
    /\ \A s \in Streams :
         /\ tpc[s] = "idle" => n[s] = "null"
         /\ tpc[s] = "encode" => n[s] = "data"
         /\ tpc[s] = "done" /\ n[s] = "data" => nl[s] # 0

\* While the delta is written, nothing but the compressed new file may be on the
\* heap besides the buffers, and it is there once its size is written.
Writing ==
  cpc = "write" =>
    /\ kind # "none"
    /\ large => Settled /\ heap \ {"compressed"} = Streams \cup NewBlocks
    /\ ~large => kind = "QBDF1" /\ heap \subseteq {"compressed"}
    /\ kind = "QBDB1" => "compressed" \notin heap
    /\ kind = "QBDF1" /\ Len(file) > 2 => "compressed" \in heap

\* The code that is returned tells whether the delta has all of its parts.
Returning ==
  /\ result = "none" <=> cpc # "returned"
  /\ cpc = "returned" => (result = "OK" <=> kind # "none" /\ Len(file) = Len(Layout))
  /\ kind = "QBDB1" => large /\ Settled

ComputeInv ==
  CTypeOK /\ Prefix /\ AtStart /\ InLoop /\ Writing /\ Returning /\ OnlyKnownLeaks

-----------------------------------------------------------------------------
(***************************************************************************)
(* Lemmas.                                                                 *)
(***************************************************************************)
\* Both layouts, part by part.
LEMMA LayoutParts ==
  /\ kind = "QBDF1" => /\ Len(Layout) = 4
                       /\ Layout[1] = "QBDF1" /\ Layout[2] = "cksum"
                       /\ Layout[3] = "size" /\ Layout[4] = "new"
  /\ kind # "QBDF1" => /\ Len(Layout) = 6
                       /\ Layout[1] = "QBDB1" /\ Layout[2] = "cksum" /\ Layout[3] = "sizes"
                       /\ Layout[4] = "cb" /\ Layout[5] = "db" /\ Layout[6] = "eb"
BY DEF Layout, FullLayout, BigLayout

\* A part whose content is missing is a stream that compress failed on.
LEMMA ContentType ==
  ASSUME NEW part \in Parts
  PROVE  /\ Content(part) \in [part : Parts, data : {"whole", "missing"}]
         /\ Content(part).part = part
         /\ Content(part).data = "missing" <=> part \in Streams /\ n[part] = "null"
BY DEF Content

\* What the pointers point to.
LEMMA PointersAre == Pointers = Streams \cup NewBlocks
BY DEF Pointers, NewBlocks

\* The blocks of the streams have names of their own.
LEMMA BlockNames ==
  /\ NewBlocks \subseteq {"newcb", "newdb", "neweb"}
  /\ \A s \in Streams : NewBlock[s] \in {"newcb", "newdb", "neweb"}
  /\ \A s, t \in Streams : NewBlock[s] = NewBlock[t] => s = t
BY DEF NewBlocks, NewBlock, Streams

-----------------------------------------------------------------------------
(***************************************************************************)
(* The invariant is inductive.                                             *)
(***************************************************************************)
LEMMA InitEstablishes == CInit => ComputeInv
BY LayoutParts DEF CInit, ComputeInv, CTypeOK, Prefix, AtStart, InLoop, Writing, Returning, OnlyKnownLeaks

\* Before the loop: small files, the suffix array, the matcher, and the errors of
\* the three.
LEMMA StartPreserves ==
  ComputeInv /\ (Small \/ AllocSuffixArray \/ NoSuffixArray \/ SaisFails \/ NoBuffers \/ Matched)
    => ComputeInv'
<1>. SUFFICES ASSUME ComputeInv,
                     Small \/ AllocSuffixArray \/ NoSuffixArray \/ SaisFails \/ NoBuffers \/ Matched
              PROVE  ComputeInv'
  OBVIOUS
<1>. USE DEF compression
<1>1. /\ cpc \in {"start", "sais"} /\ kind = "none" /\ file = <<>> /\ Len(file) = 0
      /\ file' = file /\ UNCHANGED <<large, tpc, n, nl>>
  BY DEF ComputeInv, AtStart, Small, AllocSuffixArray, NoSuffixArray, SaisFails, NoBuffers, Matched,
         ReturnFreeing
<1>2. CTypeOK'
  <2>1. DOMAIN file' = {}
    BY <1>1
  <2>. QED
    BY <1>1, <2>1 DEF ComputeInv, CTypeOK, AtStart, Small, AllocSuffixArray, NoSuffixArray,
              SaisFails, NoBuffers, Matched, ReturnFreeing, Streams
<1>3. Prefix'
  BY <1>1, LayoutParts DEF Prefix, Layout, FullLayout, BigLayout
<1>4. AtStart'
  BY <1>1 DEF ComputeInv, AtStart, Small, AllocSuffixArray, NoSuffixArray, SaisFails, NoBuffers,
              Matched, ReturnFreeing
<1>5. InLoop'
  BY <1>1 DEF ComputeInv, AtStart, InLoop, Small, AllocSuffixArray, NoSuffixArray, SaisFails,
              NoBuffers, Matched, ReturnFreeing, NewBlocks, Streams
<1>6. Writing'
  BY <1>1 DEF ComputeInv, AtStart, Writing, Small, AllocSuffixArray, NoSuffixArray, SaisFails,
              NoBuffers, Matched, ReturnFreeing
<1>7. Returning'
  BY <1>1 DEF ComputeInv, AtStart, Returning, Small, AllocSuffixArray, NoSuffixArray, SaisFails,
              NoBuffers, Matched, ReturnFreeing
<1>8. OnlyKnownLeaks'
  BY <1>1 DEF ComputeInv, AtStart, OnlyKnownLeaks, Small, AllocSuffixArray, NoSuffixArray, SaisFails,
              NoBuffers, Matched, ReturnFreeing
<1>. QED
  BY <1>2, <1>3, <1>4, <1>5, <1>6, <1>7, <1>8 DEF ComputeInv

\* A thread of the loop: it changes what belongs to its stream.
LEMMA CompressPreserves ==
  ASSUME ComputeInv, NEW s \in Streams,
         CompressAlloc(s) \/ CompressEncode(s) \/ CompressNoMemory(s) \/ CompressFails(s)
  PROVE  ComputeInv'
<1>. USE DEF EncodeFailure
<1>1. /\ cpc = "compress" /\ UNCHANGED <<cpc, large, kind, file, result>>
      /\ large /\ kind = "none" /\ file = <<>> /\ result = "none"
  BY DEF ComputeInv, InLoop, Returning, CompressAlloc, CompressEncode, CompressNoMemory, CompressFails
<1>2. CTypeOK'
  BY <1>1, BlockNames, ComputeAssumption
     DEF ComputeInv, CTypeOK, InLoop, CompressAlloc, CompressEncode, CompressNoMemory, CompressFails
<1>3. Prefix'
  BY <1>1, LayoutParts DEF Prefix, Layout, FullLayout, BigLayout
<1>4. InLoop'
  <2>1. heap' = Streams \cup NewBlocks'
    <3>. DEFINE Has(t) == n[t] = "data"
    <3>1. heap = Streams \cup NewBlocks /\ n \in [Streams -> {"null", "data"}]
      BY <1>1 DEF ComputeInv, InLoop, CTypeOK
    <3>2. CASE CompressAlloc(s)
      BY <3>1, <3>2, BlockNames DEF CompressAlloc, NewBlocks
    <3>3. CASE CompressEncode(s) \/ CompressNoMemory(s)
      BY <3>1, <3>3 DEF CompressEncode, CompressNoMemory, NewBlocks
    <3>4. CASE CompressFails(s)
      <4>1. NewBlock[s] \notin Streams
        BY BlockNames DEF Streams
      <4>. QED
        BY <3>1, <3>4, <4>1, BlockNames DEF CompressFails, NewBlocks
    <3>. QED
      BY <3>2, <3>3, <3>4
  <2>2. \A t \in Streams :
         /\ tpc'[t] = "idle" => n'[t] = "null"
         /\ tpc'[t] = "encode" => n'[t] = "data"
         /\ tpc'[t] = "done" /\ n'[t] = "data" => nl'[t] # 0
    BY <1>1, ComputeAssumption
       DEF ComputeInv, CTypeOK, InLoop, CompressAlloc, CompressEncode, CompressNoMemory, CompressFails
  <2>. QED
    BY <1>1, <2>1, <2>2 DEF InLoop
<1>5. AtStart' /\ Writing' /\ Returning' /\ OnlyKnownLeaks'
  BY <1>1 DEF ComputeInv, AtStart, Writing, Returning, OnlyKnownLeaks
<1>. QED
  BY <1>2, <1>3, <1>4, <1>5 DEF ComputeInv

\* The end of the loop.
LEMMA ChoosePreserves == ComputeInv /\ Choose => ComputeInv'
<1>. SUFFICES ASSUME ComputeInv, Choose PROVE ComputeInv'
  OBVIOUS
<1>1. /\ cpc = "compress" /\ cpc' = "write" /\ kind' \in {"QBDF1", "QBDB1"}
      /\ UNCHANGED <<large, tpc, n, nl, file, heap, result>>
      /\ \A s \in Streams : tpc[s] = "done"
  BY DEF Choose, LoopEnds, compression
<1>2. large /\ kind = "none" /\ file = <<>> /\ Len(file) = 0 /\ heap = Streams \cup NewBlocks
  BY <1>1 DEF ComputeInv, InLoop
<1>3. Settled /\ Settled'
  BY <1>1 DEF ComputeInv, InLoop, Settled
<1>4. CTypeOK'
  <2>1. DOMAIN file' = {}
    BY <1>1, <1>2
  <2>. QED
    BY <1>1, <1>3, <2>1 DEF ComputeInv, CTypeOK, Settled
<1>5. Prefix'
  BY <1>1, <1>2, LayoutParts DEF Prefix, Layout, FullLayout, BigLayout
<1>6. Writing'
  <2>1. "compressed" \notin heap
    BY <1>2, BlockNames DEF Streams
  <2>. QED
    BY <1>1, <1>2, <1>3, <2>1 DEF Writing, NewBlocks
<1>7. Returning' /\ AtStart' /\ InLoop' /\ OnlyKnownLeaks'
  BY <1>1, <1>2, <1>3 DEF ComputeInv, Returning, AtStart, InLoop, OnlyKnownLeaks
<1>. QED
  BY <1>4, <1>5, <1>6, <1>7 DEF ComputeInv

\* The parts that are still to be written are parts of the layout.
LEMMA NextPart ==
  ASSUME ComputeInv, cpc = "write", ~Written
  PROVE  /\ Len(file) \in Nat /\ Len(file) < Len(Layout) /\ Part \in Parts
         /\ kind = "QBDF1" => (Part = "size" <=> Len(file) = 2)
<1>. DEFINE l == Len(file)
            k == Len(Layout)
<1>1. l \in Nat /\ l <= k /\ l # k /\ Part = Layout[l + 1]
  BY DEF ComputeInv, Prefix, Written, Part
<1>2. (kind = "QBDF1" => k = 4) /\ (kind # "QBDF1" => k = 6)
  BY LayoutParts
<1>. HIDE DEF l, k
<1>3. CASE kind = "QBDF1"
  <2>1. l \in {0, 1, 2, 3} /\ l < k
    BY <1>2, <1>1, <1>3
  <2>2. Part \in Parts /\ (Part = "size" <=> l = 2)
    BY <1>1, <1>3, <2>1, LayoutParts DEF Parts
  <2>. QED
    BY <1>1, <2>1, <2>2 DEF l, k
<1>4. CASE kind # "QBDF1"
  <2>1. l \in {0, 1, 2, 3, 4, 5} /\ l < k
    BY <1>2, <1>1, <1>4
  <2>2. Part \in Parts
    BY <1>1, <1>4, <2>1, LayoutParts DEF Parts
  <2>. QED
    BY <1>1, <1>4, <2>1, <2>2 DEF l, k
<1>. QED
  BY <1>3, <1>4

\* A part reaches the file.
LEMMA WritePartPreserves == ComputeInv /\ WritePart => ComputeInv'
<1>. SUFFICES ASSUME ComputeInv, WritePart PROVE ComputeInv'
  OBVIOUS
<1>. USE DEF compression
<1>1. /\ cpc = "write" /\ ~Written /\ ~NeedsNew
      /\ file' = Append(file, Content(Part))
      /\ UNCHANGED <<cpc, large, tpc, n, nl, kind, heap, result>>
  BY DEF WritePart
<1>2. /\ Len(file) \in Nat /\ Len(file) < Len(Layout) /\ Part \in Parts
      /\ kind = "QBDF1" => (Part = "size" <=> Len(file) = 2)
  BY <1>1, NextPart
<1>3. /\ file' \in Seq([part : Parts, data : {"whole", "missing"}])
      /\ Len(file') = Len(file) + 1
      /\ \A i \in 1 .. Len(file) : file'[i] = file[i]
      /\ file'[Len(file) + 1] = Content(Part)
  BY <1>1, <1>2, ContentType, AppendProperties DEF ComputeInv, Prefix
<1>4. Layout' = Layout /\ \A part : Content(part)' = Content(part)
  BY <1>1 DEF Layout, Content
<1>5. Prefix'
  <2>1. ASSUME NEW i \in 1 .. Len(file') PROVE file'[i] = Content(Layout[i])
    BY <1>2, <1>3 DEF ComputeInv, Prefix, Part
  <2>2. (\A i \in 1 .. Len(file) : file[i] = Content(Layout[i]))'
    BY <1>1, <2>1 DEF Content, Layout
  <2>3. Len(Layout) \in Nat
    BY LayoutParts
  <2>. QED
    BY <1>2, <1>3, <1>4, <2>2, <2>3 DEF Prefix
<1>6. CTypeOK'
  <2>1. ASSUME NEW i \in DOMAIN file' PROVE i <= Len(Layout') /\ file'[i].part = Layout'[i]
    <3>1. i \in 1 .. Len(file')
      BY <1>3
    <3>2. Len(file') \in Nat /\ Len(file') <= Len(Layout) /\ file'[i] = Content(Layout[i])
      BY <1>2, <1>3, <1>4, <1>5, <3>1 DEF Prefix
    <3>3. Len(Layout) \in {4, 6} /\ \A j \in 1 .. Len(Layout) : Layout[j] \in Parts
      <4>1. CASE kind = "QBDF1"
        BY <4>1 DEF Layout, FullLayout, Parts
      <4>2. CASE kind # "QBDF1"
        BY <4>2 DEF Layout, BigLayout, Parts
      <4>. QED
        BY <4>1, <4>2
    <3>4. i \in 1 .. Len(Layout)
      BY <3>1, <3>2, <3>3
    <3>. QED
      BY <1>4, <3>2, <3>3, <3>4, ContentType
  <2>. QED
    BY <1>1, <2>1 DEF ComputeInv, CTypeOK
<1>7. Writing'
  <2>1. kind = "QBDF1" /\ Len(file) >= 2 => "compressed" \in heap
    <3>. DEFINE l == Len(file)
    <3>1. l \in Nat /\ (kind = "QBDF1" /\ l > 2 => "compressed" \in heap)
      BY <1>1, <1>2 DEF ComputeInv, Writing
    <3>2. kind = "QBDF1" /\ l = 2 => "compressed" \in heap
      BY <1>1, <1>2 DEF NeedsNew
    <3>3. kind = "QBDF1" /\ l >= 2 => "compressed" \in heap
      <4>. HIDE DEF l
      <4>. QED
        BY <3>1, <3>2
    <3>. QED
      BY <3>3
  <2>. QED
    BY <1>1, <1>2, <1>3, <2>1 DEF ComputeInv, Writing, Settled, NewBlocks
<1>8. AtStart' /\ InLoop' /\ Returning' /\ OnlyKnownLeaks'
  BY <1>1, <1>4 DEF ComputeInv, AtStart, InLoop, Returning, OnlyKnownLeaks, Settled
<1>. QED
  BY <1>5, <1>6, <1>7, <1>8 DEF ComputeInv

\* The new file is compressed before its size is written.
LEMMA CompressNewPreserves == ComputeInv /\ CompressNew => ComputeInv'
<1>. SUFFICES ASSUME ComputeInv, CompressNew PROVE ComputeInv'
  OBVIOUS
<1>1. /\ cpc = "write" /\ kind = "QBDF1" /\ heap' = heap \cup {"compressed"}
      /\ UNCHANGED <<cpc, large, tpc, n, nl, kind, file, result>>
  BY DEF CompressNew, NeedsNew, compression
<1>2. Layout' = Layout /\ \A part : Content(part)' = Content(part)
  BY <1>1 DEF Layout, Content
<1>3. CTypeOK'
  BY <1>1, <1>2 DEF ComputeInv, CTypeOK
<1>4. Prefix'
  BY <1>1, <1>2 DEF ComputeInv, Prefix
<1>5. Writing'
  BY <1>1 DEF ComputeInv, Writing, Settled, NewBlocks
<1>. QED
  BY <1>1, <1>2, <1>3, <1>4, <1>5
     DEF ComputeInv, AtStart, InLoop, Returning, OnlyKnownLeaks, Settled

\* The exits of the part that writes free every buffer.
LEMMA WritingReturns ==
  ComputeInv /\ (CompressNewFails \/ WritePartFails \/ Done) => ComputeInv'
<1>. SUFFICES ASSUME ComputeInv, CompressNewFails \/ WritePartFails \/ Done
              PROVE  ComputeInv'
  OBVIOUS
<1>1. /\ cpc = "write" /\ cpc' = "returned"
      /\ UNCHANGED <<large, tpc, n, nl, kind, file>>
      /\ heap' \subseteq heap
      /\ result' \in {"NOMEM", "LZMAERR", "IOERR", "OK"}
  BY DEF CompressNewFails, WritePartFails, Done, Written, ReturnFreeing, compression, WriteFailure
<1>2. kind \in {"QBDF1", "QBDB1"}
  BY <1>1 DEF ComputeInv, Writing, CTypeOK
<1>3. Layout' = Layout /\ \A part : Content(part)' = Content(part)
  BY <1>1 DEF Layout, Content
<1>4. CTypeOK'
  BY <1>1, <1>3 DEF ComputeInv, CTypeOK
<1>5. Prefix'
  BY <1>1, <1>3 DEF ComputeInv, Prefix
<1>6. Returning'
  <2>1. result' = "OK" <=> Len(file) = Len(Layout)
    BY DEF CompressNewFails, WritePartFails, Done, Written, ReturnFreeing, WriteFailure
  <2>. QED
    BY <1>1, <1>2, <1>3, <2>1 DEF ComputeInv, Returning, Settled
<1>7. OnlyKnownLeaks'
  <2>1. heap \subseteq {"compressed"} \cup (IF large THEN Pointers ELSE {})
    BY <1>1, PointersAre DEF ComputeInv, Writing
  <2>2. CASE CompressNewFails
    <3>1. "compressed" \notin heap /\ heap' = heap \ ExitFrees({}) /\ result' \in {"NOMEM", "LZMAERR"}
      BY <2>2 DEF CompressNewFails, NeedsNew, ReturnFreeing
    <3>. QED
      BY <2>1, <3>1 DEF OnlyKnownLeaks, ExitFrees
  <2>3. CASE WritePartFails
    <3>1. heap' = heap \ ExitFrees(IF large THEN {} ELSE {"compressed"}) /\ result' = "IOERR"
      BY <2>3 DEF WritePartFails, ReturnFreeing, WriteFailure
    <3>. QED
      BY <1>1, <2>1, <3>1 DEF OnlyKnownLeaks, ExitFrees
  <2>4. CASE Done
    <3>1. heap' = heap \ ExitFrees({"compressed"})
      BY <2>4 DEF Done, ReturnFreeing, FreedAtEnd
    <3>. QED
      BY <2>1, <3>1 DEF OnlyKnownLeaks, ExitFrees
  <2>. QED
    BY <2>2, <2>3, <2>4
<1>. QED
  BY <1>1, <1>4, <1>5, <1>6, <1>7 DEF ComputeInv, AtStart, InLoop, Writing

-----------------------------------------------------------------------------
(***************************************************************************)
(* The theorems.                                                           *)
(***************************************************************************)
LEMMA NextPreserves == ComputeInv /\ [CNext]_cvars => ComputeInv'
<1>. SUFFICES ASSUME ComputeInv, [CNext]_cvars PROVE ComputeInv'
  OBVIOUS
<1>1. CASE Small \/ AllocSuffixArray \/ NoSuffixArray \/ SaisFails \/ NoBuffers \/ Matched
  BY <1>1, StartPreserves
<1>2. CASE \E s \in Streams :
             CompressAlloc(s) \/ CompressEncode(s) \/ CompressNoMemory(s) \/ CompressFails(s)
  BY <1>2, CompressPreserves
<1>3. CASE Choose
  BY <1>3, ChoosePreserves
<1>4. CASE CompressNew
  BY <1>4, CompressNewPreserves
<1>5. CASE WritePart
  BY <1>5, WritePartPreserves
<1>6. CASE CompressNewFails \/ WritePartFails \/ Done
  BY <1>6, WritingReturns
<1>7. CASE CReturned \/ UNCHANGED cvars
  BY <1>7 DEF CReturned, cvars, compression, ComputeInv, CTypeOK, Prefix, AtStart, InLoop, Writing,
              Returning, OnlyKnownLeaks, Settled, NewBlocks, Layout, Content
<1>. QED
  BY <1>1, <1>2, <1>3, <1>4, <1>5, <1>6, <1>7 DEF CNext

\* The inductive invariant holds in every state of qbdiff_compute.
THEOREM Invariance == CSpec => []ComputeInv
<1>1. CInit => ComputeInv
  BY InitEstablishes
<1>2. ComputeInv /\ [CNext]_cvars => ComputeInv'
  BY NextPreserves
<1>. QED
  BY <1>1, <1>2, PTL DEF CSpec

\* The variables of qbdiff_compute keep their types: the delta is written from
\* streams that no thread works on any more.
THEOREM TypeCorrect == CSpec => []CTypeOK
<1>1. ComputeInv => CTypeOK
  BY DEF ComputeInv
<1>. QED
  BY <1>1, Invariance, PTL

\* qbdiff_compute says QBERR_OK exactly when it has written a whole delta, as
\* long as no call of compress has failed, whose result it drops.
THEOREM SuccessMeansComplete == CSpec => []OKMeansComplete
<1>1. ASSUME ComputeInv PROVE OKMeansComplete
  <2>. SUFFICES ASSUME cpc = "returned", \A s \in Streams : tpc[s] = "done" => n[s] = "data"
                PROVE  result = "OK" <=> kind # "none" /\ Complete
    BY DEF OKMeansComplete
  <2>1. result = "OK" <=> kind # "none" /\ Len(file) = Len(Layout)
    BY <1>1 DEF ComputeInv, Returning
  <2>2. ASSUME kind # "none", NEW i \in DOMAIN file PROVE file[i].data = "whole"
    <3>1. i \in 1 .. Len(file) /\ Len(file) <= Len(Layout) /\ file[i] = Content(Layout[i])
          /\ Len(file) \in Nat
      BY <1>1, <2>2 DEF ComputeInv, Prefix
    <3>2. Layout[i] \in Parts /\ (Layout[i] \in Streams => kind = "QBDB1")
      BY <1>1, <2>2, <3>1, LayoutParts DEF Parts, Streams, ComputeInv, CTypeOK
    <3>3. ~ (Layout[i] \in Streams /\ n[Layout[i]] = "null")
      BY <1>1, <3>2 DEF ComputeInv, Returning, Settled
    <3>. QED
      BY <3>1, <3>2, <3>3, ContentType
  <2>. QED
    BY <2>1, <2>2 DEF Complete
<1>. QED
  BY <1>1, Invariance, PTL

\* No block is freed twice or used after it was freed.
THEOREM PointersAlwaysLive == CSpec => []PointersLive
<1>1. ComputeInv => PointersLive
  BY PointersAre DEF ComputeInv, InLoop, Writing, PointersLive
<1>. QED
  BY <1>1, Invariance, PTL

\* Of all the ways out of qbdiff_compute, two leave a block behind, and one each.
THEOREM LeaksAreKnown == CSpec => []OnlyKnownLeaks
<1>1. ComputeInv => OnlyKnownLeaks
  BY DEF ComputeInv
<1>. QED
  BY <1>1, Invariance, PTL

=============================================================================

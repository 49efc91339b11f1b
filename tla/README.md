# qbdiff in TLA+

qbdiff computes a delta between two binary files, qbpatch applies it. Both are
thin programs around a library of two functions, `qbdiff_compute` and
`qbdiff_patch` (`src/src/libqbdiff.c`), which builds on a suffix sorter that is kept in
the repository (`src/src/libsais.c`). This directory specifies the library, the sorter and the
two programs, checks them with TLC on small instances, and proves the safety of
the library and of both programs for files of any size with TLAPS. Two conditions go with that. The control records
of a delta fit the buffer that the matcher allocates for them, whose capacity the code does not test and the models do not have
(section 6). And what is proved of the matcher together with its own search ends at a search that returns a position before `old`; this takes a
negative number in the uninitialised entry behind the suffix array, and the theorems say so (section 4). Of the sorter the sharing of
arrays and caches between threads is proved, for any number of them; the order it makes is checked only.

What makes this code hard is index arithmetic: a matcher with a dozen positions that
move at different times, several reads that test one bound of two, a patcher
that trusts the records of the matcher to account for exactly the bytes that are
there, and a sorter whose array is its work space, its table and its result in turn. The
concurrency is that of OpenMP loops: three compressions in the library, and the
regions of the sorter.

## 1. Inventory

| Component | Code | State | Operations | Hard part | What makes it correct |
|---|---|---|---|---|---|
| Suffix-array search | `search32`, `search64`, `matchlen` | interval `[st, en]`, best position and length | recursion on one half, leaf | starts one entry behind the array; memcmp on the common length | the interval narrows; what is returned is usable |
| Matcher | `match32`, `match64` | scan position, match, score window, last alignment, three streams | outer loop, scan, extension, overlap, record | one-sided bounds; score kept by two loops; overlap | reads stay inside, lengths stay non-negative, all of new is covered, it returns |
| Integer codec | `wi64`, `ri64` | none | encode, decode | sign of a seek | decode after encode is the identity |
| Delta writer | `qbdiff_compute`, `diff`, `compress` | heap, three compressed streams, delta file | allocate, sort, match, compress in parallel, choose the kind, write | partial failure, dropped results, what each exit frees | success and a usable delta go together; no double free |
| Patcher | `qbdiff_patch`, `decompress` | header, five positions, new file under construction | check, unpack, apply a record, verify, write | records are data; two-step bounds test; streams read untested | nothing but the right file is written; positions stay inside |
| Checksum | `blake2b.c` | hash, counter, partial block | init, update, final | last full block, 128-bit counter | same value however the input is cut |
| Tools | `qbdiff.c`, `qbpatch.c`, `open_output`, `close_out_file`, `map_file` | mappings, output file | map, create, run, flush, sync, close | output is truncated first; retry of fsync | success means the file is on disk |
| Suffix sorting | `libsais.c`, `libsais64.c` | the array with its free space, tables, a stack of calls; with threads their caches and counts | gather, sort and name LMS suffixes, recurse, induce; five variants, cached blocks, widening to 64 bits | everything shares one array; marks in the sign and group bits; entries that are zero on purpose; threads that cut one array | result is the suffix array; no call touches the memory of its callers; threads do not meet in a slot |
| liblzma | external | - | encode, decode | result may not fit | gives the data back or fails |
| Strings, build | `qbdiff_error`, `qbdiff_version`, configure | - | - | - | - |

How they interact: `qbdiff_compute` calls `diff`, which has libsais sort `old` and
calls the matcher; the matcher calls the search at every position of its scan and
leaves three streams (`cb` control records, `db` differences, `eb` extra bytes).
An OpenMP loop compresses the three streams, and they are written behind a header
and the checksum of `new`. `qbdiff_patch` reads the header, unpacks the streams
and replays the records over `old`. Threads share the arrays `n` and `nl` of that loop, and
inside libsais the suffix array and the tables; the only thing that travels between the
two programs is the delta file. Nothing is persisted besides the output, and
there is no recovery: what remains after a failure or a crash is the question of `Tools`.

Files with less than 256 bytes, and those whose streams are larger than nine
tenths of `new`, become a delta that holds `new` in full (`QBDF1`); the others
become `QBDB1`.

## 2. Modules

| Module | Models | Built on |
|---|---|---|
| `Int64` | `wi64`, `ri64` | - |
| `Match` | `match32`/`match64` with the search as a contract | `Int64` |
| `Search` | one call of `search32`/`search64` | - |
| `MatchSearch` | the matcher calling the search step by step; implements `Match` | `Match`, `Search` |
| `Patch` | `qbdiff_patch` on any delta | `Int64` |
| `RoundTrip` | matcher, delta, `qbdiff_patch` | `Match`, `Patch` |
| `Compute` | `qbdiff_compute` as a sequence of resources and failures | - |
| `Blake2b` | buffering, counter and padding of the checksum | - |
| `Tools` | the `main` of both programs, `map_file`, `close_out_file`, over a file system that fails and crashes | - |
| `Suffixes` | what a suffix array is | - |
| `SaisMemory` | the memory of libsais and its loops, marks and symbols | - |
| `SaisBuckets` | gathering and counting suffixes, tables of buckets | `SaisMemory` |
| `SaisInduce` | the partial orders, induced in both directions | `SaisBuckets` |
| `SaisNames` | sorting, naming, compacting, merging and placing LMS suffixes; the final order | `SaisInduce` |
| `Sais` | `libsais`, `libsais_int`, `libsais_main_8u`, `libsais_main_32s` as a stack of calls | `SaisNames`, `Suffixes` |
| `SaisThreads` | regions, barriers and the steps of threads | `SaisNames`, `Suffixes` |
| `SaisParallel` | `libsais_main_8u` with threads | `SaisThreads` |
| `SaisCached` | the block scans of `libsais_main_32s` with threads | `SaisThreads` |
| `SaisWide` | sorting and widening in place of `libsais64.c` | `SaisThreads` |
| `SaisOmp` | whichever of the three a call needs | the three |
| `SearchProofs`, `PatchProofs`, `ComputeProofs` | theorems about one module each (section 4) | the module they name, TLAPS |
| `MatchProofs` | theorems about the matcher; its refinement, and what it does with its own search | `MatchSearch`, an instance of `SearchProofs` |
| `RoundTripProofs` | what qbdiff writes, qbpatch turns back into the new file | `RoundTrip`, `MatchProofs` |
| `ProgramProofs` | theorems about the checksum and about the two programs | `Blake2b`, `Tools` |
| `Loops` | induction over a loop, by instances that give its step and what that keeps | - |
| `SaisOmpProofs` | how the threads of the sorts share arrays and caches | `SaisOmp`, instances of `Loops` and `SearchProofs` |
| `MC...` | values and initial states for TLC | the module they name |

`match32` and `match64` are the same text apart from the width of the suffix
array and the slack of their buffers (50 bytes and 5); `search32` and `search64` apart from that width and a line of `search64`
that prints the entry behind the array when a leaf reads it (lines 181-182), which changes nothing. Each pair is
one module.

### Match

The variables are the locals of `match32` under their names (`new_pos`,
`old_pos`, `match_len`, `old_score`, `new_peek`, `last_new_pos`, `last_old_pos`,
`last_offset`) and the three streams. `pc` says which loop control is in:

- `NextMatch`: head of the outer loop, `new_peek = new_pos += match_len`.
- `StopScan`, `Advance`: one iteration of the scan, which calls the search, counts
  the score up to the end of the match, and either breaks or takes back the
  score of the byte it leaves. `EndScan`: the scan reaches the end of `new`.
- `SkipRecord`, `WriteRecord`: the `if` behind the scan. `WriteRecord` is the whole
  body: both extensions, the overlap, the bytes, the three numbers, the new
  alignment.
- `Finish`, `Returned`: the end.

The three loops that look for a best length keep a running count and replace the
best by a strictly better one. They are one operator, `BestLength`: the shortest
of the best lengths. `cb` grows by a record at a time without a limit; the 24 bytes that the code writes are not set against
the size of its buffer (section 6). The search is abstracted to `SearchResults`: any position of
`old`, and any length that leaves neither file. That is all the matcher needs to be
safe, and it is deliberately weaker than "a match" (see section 5).

### Search

A call of the recursive function is a step. `I` has one entry more than `old` has
suffixes, as `diff` allocates it and as the first call (`en = old_size`) uses it.
What that entry holds is a constant, `TailValues`. A negative tail makes `matchlen`
read before `old`; any length may come out (`LeafLens`).

`MatchSearch` replaces `SearchResults` by the steps of `Search` on the rest of `new`
and states the refinement `ImplementsMatch` of `Match`. All runs take four tails: zero, an offset inside `old`, one behind its end,
and a negative one. The suffix sorter never stores a negative number there (`EntryBehind`), but memory that `malloc`
recycles may hold one. Nothing of it matters as long as the search returns something else. When it does return such an entry
(`Lost`), the matcher goes on at a position before `old` and reads what is not part of the file, if it can be read at all:
its behaviour has no meaning in the code, and the model follows it no further (`Undefined`). `ImplementsMatch` therefore has two parts: up to there
every step is one of `Match`, and that point is reached only as `LostByEntry` says: the position is the
negative entry itself, and the greatest suffix of `old` is smaller than the rest of `new`, or is the only one. A new file that `old`
starts with never gets there (`PrefixIsOneRecord`).

### Patch

One action per stage of `qbdiff_patch`. A delta is a record of its fields;
how much of the file arrived is one of four cases (`received`): less than 70 bytes,
less than 133, less than the header announces, all. `RefuseRecord` and `ApplyRecord`
are the loop body with both sanity checks; the changes that a refused record makes to
buffers that are freed at once are not kept. `buffers` is what is allocated; the streams are
unpacked one by one, each may fail, and `Freed` is what an exit frees. The checksum
is a collision-free function of the file.

### RoundTrip

The matcher runs, `Encode` makes a delta of either kind (which one depends on the
compressor), and `Deliver` gives it, whole or truncated, to `qbdiff_patch` together
with the right old file, one that differs in a byte, or one that is longer. `starts` is a
history variable: the positions the matcher had when it began each record.

### Compute

The data are gone; what is left is order and failure. Every allocation, the
suffix sorter, every encoder call and every write may fail. The three iterations of the
parallel loop (`tpc`) interleave. `heap` is the set of blocks that are allocated, so that
a double free, a dangling pointer and a leak are visible. The delta is the sequence
of the parts that were written. A stream that was not compressed is a `missing` part.

### Blake2b

`S` is `blake2b_state`. A compression is not computed: the chain value `h` is the sequence of
what `blake2b_compress` was given each time (the block, the counter, the flags), so two digests
are equal when and only when they were computed from the same blocks in the same way. The counter is
two words of `WordRange` values, with the carry of the code.

### Tools

`stage` is the call `main` has come to, `After` the order of the calls. `file` is what a path
holds for everyone who reads it, `disk` what is left after a crash; contents are `Missing`,
`Original`, `Empty` or the number of pieces of the output. Any of the three paths may coincide.
The stream writes pieces whenever it likes (`StreamWrites`), the kernel writes back whenever it
likes (`Writeback`), and the machine may crash at any moment. A mapping of a file that was cut
in the meantime kills the program when it is read. Of the two programs' differences, the order of
the arguments is kept, and that qbpatch may refuse a delta before it has read it all. The variants for
Windows are not modelled. fsync of a new file is taken to make its name durable too.

### Sais

`mem` is the memory as words by address: the array `SA`, its free space, and behind it the text and
what has been allocated since. Texts of recursive calls and tables lie where the code puts them, in
the same memory, and uninitialised words hold `Junk`. `stack` holds a frame per call. A step
is what the code does between two points at which the array has a meaning: gather, sort, name,
compact and recurse, come back and place, induce. Inside a step the loops are operators over
memories (`Up`, `Down`), one per function of libsais.c and named after it, and they run in the order of the
code: an entry that is induced is seen by the same loop later on. Words
have `2 * Half` values with the sign bit and the group bit as marks. `GatherLMS32s` and the like
are shared by the variants as in the code.

The modules are cut along the phases of the algorithm. Loops that the code unrolls or prefetches for are
written once. Each variant is chosen as in the code, by the entries of free space per symbol, so a
recursive call may be of any variant.

### SaisThreads, SaisParallel, SaisCached, SaisWide

With threads, a region is a `pc`. In it `Work` is one element of one thread: the entries it reads
and writes (`Does`), so that races are visible. A `Join` is the barrier behind a
region and what the master thread does there. Parts are cut with the stride of the code
(multiples of `Align`, the rest for the last thread). `SaisParallel` is all of `libsais_main_8u`;
its recursive call stands for its result. In `SaisCached` a block of entries is fetched by the threads,
induced by the master in the cache, and put by the threads; counting,
naming and compaction are the sequential operators. `SaisWide` begins where a narrow
sort of libsais.c has returned, in an array twice as large as it needs.

## 3. Runs

| Run | Bounds | What it shows |
|---|---|---|
| `match` | old of 2 or 3 bytes, new of 5, two byte values, margin 1 | safety and termination of the matcher for every search result |
| `search` | old to 5 bytes, new to 4, four tails, one negative | what a call of the search guarantees, whatever lies behind the array |
| `search_leaf` | same | finding: a leaf reads behind the suffix array |
| `match_search` | old to 4, new to 5, the same tails | the matcher with the real search implements the abstract one, and when it may stop doing so |
| `patch` | old of 2 bytes, new of 3, two records with lengths -1..3 and seeks -3..2 | the sanity checks of the patcher, any record; what its exits free |
| `round_trip` | old of 2 or 3 bytes, new of 2 or 4 | restoration, and its absence with wrong inputs |
| `compute` | compressed lengths 1 and 3, limit 5 | failures and thread orders |
| `compute_suitable` | same | finding: success without a stream |
| `blake2b` | blocks of 3 bytes, messages to 10 bytes in updates of any length, two byte values | the checksum is that of the message, however it is cut |
| `tools` | three paths, an output of two pieces | what exit status 0 means after a crash; inputs before output; the end |
| `sais` | all texts of 3 symbols to 6 and of 2 to 7, and texts of 6 three- or 9 two-letter words (some with 18 symbols); free space for every variant | every variant sorts, inside its memory, and frees its tables |
| `sais_omp` | two threads, blocks and caches of 6 entries, texts of up to 24 symbols; widening up to 31 entries | the same with threads, in every interleaving |

Why the bounds are enough. Files of two byte values and up to five bytes give
every comparison both outcomes, and matches that continue, leave and return to an
alignment. The real margin of 8 bytes would make every match in such files too
short to stop the scan; a margin of 1 lets it stop for both reasons. `new` of 5 bytes
holds two matches, a mismatch between them, and both extensions with an overlap.
The 256-byte threshold is gone from `Match`: the code is exercised on sizes smaller than
those it sees, and nothing in it depends on the sizes. `Half` stands for 2^63: 8
(or 4) leaves room for every length and seek that these files can produce, so that
the sign bit is used. In `Compute` the two lengths give sums on both sides
of the limit. The proofs of section 4 need none of these bounds.

In `blake2b` an update may fill the buffer exactly, leave it full, or bring several blocks, and the
low counter word overflows twice. In `tools` two pieces give an output that is empty, partial and
complete; three paths allow every coincidence of inputs and output.

In `sais` short texts reach every corner of the first level, and texts made of two or three words
have names that repeat, so that a second level and, with two words, a third one is called; the
free space is given so that 6k, 4k, 2k and 1k are all called from outside, too. `TLC` fires every action of
each. In `sais_omp` the real thresholds (65536 entries, blocks of 16384, caches of 24576, 16 entries to
an alignment) are constants of a few entries: otherwise no region would be entered by a text TLC can
sort. Both threads have work in every region, runs of entries are longer than a cache, and blocks follow each other. Texts for the integer
variants have at least two LMS suffixes (`CachedAssumption`); fewer
are sorted without a region. More than two threads are not checked; the theorems of `SaisOmpProofs` are for any number.

Some properties deserve a word:

- `ScoreIsWindow` is the invariant behind `old_score`: it is the number of bytes in
  `[new_pos, new_peek)` that the last alignment matches, or minus the number in
  `[new_peek, new_pos)` when the scan overtakes the count. Nothing in the code says so.
- `FollowsMatcher` relates the two programs: when the patcher comes to record k, its
  five positions are those the matcher had when it began record k.
- `WrongOldCaughtByChecksum` says that an old file of the right size never makes a
  record invalid. The size and the checksum are all that protects a user who
  patches the wrong file.
- `LongestUnlessCut` bounds what the search misses: memcmp compares only the common length, so
  a suffix of `old` that is a proper prefix of the rest of `new` sends it to the wrong
  half. Without such a suffix the length found is the longest there is.

- `OneKnownLeak` and `OnlyKnownLeaks` account for every block on every exit of the two library functions; what
  they allow are the error paths that leave something behind (section 5).
- `SuccessIsDurable` relates the exit status to what is on the medium after a crash at any later moment, through
  the stream, the page cache and the interrupted `fsync`.
- `StaysInside` is an action property over the whole stack: a step of a recursive call changes only the array and
  the free space it was handed, and its own table, never the text or the table of a caller.
- `ReducedOrder` states what the recursion is for: the order of the names is the order of the LMS suffixes they stand for.
- `EntryBehind` is the answer of libsais to the finding on the leaf: behind the suffix array there is what `malloc`
  left, or a small number.
- `NoRaces` compares, in every state, what any two threads are about to do. The exception is the region in which
  LMS suffixes are gathered: there a thread may write one entry that belongs to its neighbour, and its owner
  repairs it after a barrier (`JoinGather`, lines 541-543). `ParallelSorts` shows that the repair is complete.

### Fairness

The matcher, the search and the patcher are sequential functions: weak fairness on
the next-state relation says only that the processor goes on. In `RoundTrip` the two
programs have weak fairness each, and nothing makes the user run `qbpatch`.
`Compute` has no loop apart from the parallel one over three streams and is checked
for safety and deadlock. In `Tools` the program has weak fairness, the crash and the write-back have none.
An `fsync` that is interrupted for ever changes nothing, so weak fairness of the program says here that some answer is not an
interruption; without that `ToolEnds` would be false, as it is for the code. The sorts are checked for
safety; with threads, the absence of a deadlock at the barriers is checked too. `Sais` has no loop between steps but the
recursion, whose texts are at most half as long.

Liveness is worth checking in the matcher because its outer loop moves by `match_len`, which
may be 0, and in the patcher because a record may account for no byte (`RoundTripEnds`). The deltas of
run `patch` have records that account for the whole of `new`, which `StreamReads` shows for those that
qbdiff writes; a delta without enough records would be read past its end and is
outside the model.

### Mutants

Each checked property has an operator in its module, `A mutant of ...`, which changes
one definition of the model the way a slip in the code would (an off-by-one in the
overlap, a record left out at the end, a result counted twice). TLC finds the
property violated with it.

## 4. Proofs

Every invariant that a run checks outside of the sorter is a theorem, for all values of the
constants; of the sorter `NoRaces`, `CacheFits` and `ParallelSorts` are, for the calls and regions that the table names. So are the refinement `ImplementsMatch` and the action property `OutputAfterInputs`. Each
rests on an inductive invariant of its module, which TLC has checked in the model of the run before it was
proved. The properties alone are not inductive; what follows says what had to be added.

| Module | Inductive invariant | Theorems, and the properties they state |
|---|---|---|
| `MatchProofs` | `MatchInv` | `TypeCorrect` (`TypeOK`), `StreamsAlwaysFit` (`StreamsFit`), `LastOffsetInside` (`LastOffsetReads`), `RecordsReadInside` (`RecordReads`), `LengthsAccepted` (`LengthsNonNegative`), `CoversNew` (`NewCovered`), `ScoreCountsWindow` (`ScoreIsWindow`), `EveryStepIsProgress`, `Ri64OfWi64` |
| `SearchProofs` | `SearchInv`, `BestIsMatch` (`BestInside` or `BestBefore`) | `SuffixArraySorted`, `LongestFound` (`LongestUnlessCut`), `FoundIsMatch` (`BeyondStartIsMatch`), `CallsHalve` |
| `MatchProofs`, with the search | `MSInv`, `Course` | `SearchImplementsMatch` (`ImplementsMatch`), `NeverLost`, `PrefixCostsOneRecord` (`PrefixIsOneRecord`) |
| `PatchProofs` | `PatchInv` | `PatchTypeCorrect` (`PTypeOK`), `NothingWrittenUnchecked` (`IntactOrNothing`), `OneLeakOnly` (`OneKnownLeak`) |
| `RoundTripProofs` | `RTInv` | `NewFileRestored` (`RestoresNew`), `OnlyNewWritten` (`NothingButNew`), `RecordsFitAnyOld` (`WrongOldCaughtByChecksum`), `PatchFollowsMatcher` (`FollowsMatcher`), `StreamReadsInside` (`StreamReads`), `PrefixRestored` (`RestoredSoFar`), `EveryPatchStepIsProgress`; with the search: `SearchedImplementsRoundTrip` (`LostByEntry`), `SearchedFileRestored` (`RestoresNew`, `NothingButNew`; entry behind the array not negative) |
| `ComputeProofs` | `ComputeInv` | `TypeCorrect` (`CTypeOK`), `SuccessMeansComplete` (`OKMeansComplete`), `PointersAlwaysLive` (`PointersLive`), `LeaksAreKnown` (`OnlyKnownLeaks`) |
| `ProgramProofs`, the checksum | `BlakeInv` | `DigestOfTheMessage` (`ChunkingInvisible`), `LastBlockHeldBack` (`BufferHoldsBack`) |
| `ProgramProofs`, the programs | `ToolsInv` | `SuccessIsAlwaysDurable` (`SuccessIsDurable`), `OutputComesAfterInputs` (`OutputAfterInputs`) |
| `SaisOmpProofs`, wide arrays | `WideInv` | `WideSorts` (`ParallelSorts`), `WideRaces` (`NoRaces`), `WideFits` (`CacheFits`) |
| `SaisOmpProofs`, bytes | `CachesInv`, `ScansInv` | `CachesNeverOverflow` (`CachesHold`, the first half of `CacheFits`), `CountingFits` (`CacheFits` while threads count), `PreparedApart` (`NoRaces` while threads count or prepare) |
| `SaisOmpProofs`, integers | `BlocksInv` | `FetchedApart` (`NoRaces` while threads fetch) |

That each invariant holds in every state is a theorem of its own (`Invariance`, `SearchInvariance`,
`MSInvariance`, `PatchInvariance`, `RTInvariance`, `BlakeInvariance`, and the lemmas `WideInvariance`, `CachesInvariance`
and `BlocksInvariance`).

### Assumptions

The constants satisfy the `ASSUME`s of the modules, which TLC evaluates: sizes are positive and below
`Half` (`MatchAssumption`; `qbdiff_compute` compares only files of 256 bytes and more, whose sizes fit an
`int64_t`), and blocks, words and limits are positive. Some theorems have a hypothesis of their own:

- `NeverLost` and `SearchedFileRestored`: `I[old_size] >= 0`, the entry behind the suffix array is not negative when the search
  begins. The code does not see to that (finding 1): `diff` leaves the entry as `malloc` gave it. `FoundIsMatch`, `SearchImplementsMatch`,
  `PrefixCostsOneRecord` and `SearchedImplementsRoundTrip` need no such hypothesis; they hold for any entry, and
  say what a negative one can do.
- all theorems of `MatchProofs` and `RoundTripProofs` are about a `cb` that has room for every record (section 6).
- the theorems of `PatchProofs`: `[]StreamsSuffice`, a run never reads past the end of a stream, which `qbdiff_patch` does
  not test. They are about any delta, whoever made it, and that is the class of deltas for which the code has
  a meaning. Every delta of qbdiff is in it: this is `StreamReadsInside`.
- the theorems of `SaisOmpProofs` have the assumptions of their modules: at least two threads, and a cache with room for more than
  `Align` entries of each (`ThreadsAssumption`; 24576 entries of the code against 16 to a thread), a call with a text over its alphabet
  that is not shorter than the threshold under which libsais starts no threads.
  `WideSorts` says what the widening makes of a narrow suffix array; that libsais.c returns one is `SortNarrow`'s
  own choice, which run `sais_omp` checks for the other kinds of call.
- `LastBlockHeldBack`: `MaxMessage < WordRange * WordRange`, that is 2^128 bytes; the second word of the counter has no
  carry.

### The matcher (`MatchInv`)

- `RoomForMatch`: outside the scan, a match never leaves `new`, so `NextMatch` may skip all of it;
- `OffsetsInside`: `new_pos + last_offset >= 0`, and `new_peek + last_offset >= 0` in the scan. It is
  established by `last_offset = old_pos - new_pos` and kept because both positions only grow. This is
  why the one-sided tests of lines 277 and 289 are enough;
- `CoveredAtEnd`: the record that is forced at the end of `new` has covered it.

Below it are lemmas about the operators. `BestLengthSpec` shows that `BestLength` of a score
over `0 .. n` exists and lies there (a least element of a set of naturals, `LeastNatural` and
`BestExists`). `ForwardType`, `BackwardType` and `ShiftType` follow. `RecordLengths` is the
heart: after the overlap is shared out, both extensions are not negative, do not cross, and
end inside their files. `RecordFits` adds that the three numbers fit 64 bits, so that `Ri64OfWi64` gives them back.
`ScoreCountsWindow` moves the window one byte at a time with lemmas on the cardinality of a set that gains or loses
an element.

`EveryStepIsProgress` is the safety side of `MatcherReturns`: `StepsLeft` is a natural number that each step makes
smaller. Four steps are allowed to each byte of `new` that is left, and a step of the outer loop that skips
nothing is paid for by the scan before it: a scan that has counted nothing against itself stops at a match only
(`NoEmptyStop`), and one that has, has left a byte behind. That some step is taken until the end is what fairness and
the absence of deadlock add, and TLC checks.

### The search (`SearchInv`)

`SuffixArraySorted` shows that ordering suffixes by their rank (how many suffixes are smaller) is a permutation in
ascending order: the order of suffixes is a total order (`SuffixTotal`, `SuffixTransitive`), so ranks are
distinct, and an injection of a finite set into itself is onto. The invariant adds to `LongestUnlessCut`
that both ends of the interval have been compared (`EndsCompared`), and that matches can only get shorter
away from the place where new belongs (`MatchGrowsBelow`, `MatchShrinksAbove`). The second needs that no suffix is
cut (`NoneCut`), which is where the condition of `LongestUnlessCut` comes from.
`BestIsMatch` ties the position to the length once it exceeds that at the start of `old` (`BestInside`). At the last leaf the entry
behind the array may win with any length, if it is negative (`BestBefore`); `EndsCompared` says that the other end of that leaf is a
suffix smaller than new.
`CallsHalve` bounds the recursion: the stack is logarithmic in `old_size`, whether or not the compiler turns the tail call into a loop.

`MatchProofs` uses these through an instance on the rest of `new`. `MSInv` says that the array stays the one that was
sorted and that a search runs inside an iteration of the scan only. A step of the search is a stutter of
`Match`; the step in which the scan takes its result is one of `StopScan`, `Advance`, since a result that is not before `old` meets the
contract (`ResultKeepsContract`). With `SearchImplementsMatch` the
theorems of `MatchProofs` hold of the matcher with its own search, up to a result before `old`; with `NeverLost` to the end, if the entry
behind the array is not negative (no step writes it, `EntryUntouched`). `Course` follows the
matcher on a new file that is a beginning of old: it finds all of it at position 0 by the first search and
writes one record.

### The patcher (`PatchInv`) and the round trip (`RTInv`)

`PatchInv` adds to the three properties what is allocated at each stage (`Allocated`), what has been accepted of
the header (`Accepted`) and that nothing is written before the end. `AnyDelta` is all it asks of a delta:
numbers of eight bytes and bytes.

`RTInv` relates the two programs. `WriterInv` describes what the matcher has written: `Chained` (each record leads from the
start of its own to the start of the next), `RecordsInside` and `StreamBytes` (the differences of record k
are those of the bytes it stands for). `DeltaWritten` and `Stages` say what the delta is and when it is looked at, and
`Restoring` puts the patcher on the chain. From these `RecordAccepted` follows (there is a record and both sanity checks pass), and
`AddUndoesSubtract`: the byte of old plus the difference is the byte of new, although both are reduced modulo
`ByteRange`. The step `ApplyRecord` then extends the restored beginning of the file by the bytes of
one record.

`EveryPatchStepIsProgress` is to `RoundTripEnds` what `EveryStepIsProgress` is to `MatcherReturns`; its measure counts the
records that are left, of which there are finitely many by `StreamReadsInside` though one may account for no byte.

`SearchedSpec` is qbdiff with its binary search in place of the contract. `SearchedImplementsRoundTrip` shows that it does
only what `RoundTrip` allows, up to a search that returns a position before `old`, and when there can be one. `SearchedFileRestored` carries the
main theorem over to the programs with their search under the condition that the entry behind the suffix array is not negative.

### The threads of the sorter (`WideInv`, `CachesInv`, `BlocksInv`)

Everything rests on how an array is cut: `PartBounds`, `PartsDisjoint`, `PartsApart` and `PartsCover` show that the parts that
`From` and `Part` give are within the array, disjoint and cover it, for every size, number of threads and alignment.

`WideInv` describes an array of 64-bit entries that holds the narrow one in its front half. Entry `i` is either narrow still
(`StillNarrow`: in front of `run`, or in the part of a thread that has not come to it) or wide where it belongs (`WideEntries`),
and the text is behind both (`WideText`). The half that is widened at once, `run .. run + m - 1` with
`m <= run`, is written at `2 * run` and behind, where nothing narrow is left to read. The last thread-free loop goes down for the same reason.

`CachesInv` ties the caches of the byte sort to the run they belong to: in a run that is prepared, a thread has cached at
most what it has read, which is at most its part (`PartFitsCache`: the part of a thread of a run of `MaxBlock`
entries or less fits its cache, also that of the last thread, which takes the rest). Everywhere else a
cache is only kept or emptied, which has to be shown of every step, the merges of the master thread included
(`MergedKeepCaches`). That a run is never longer than `MaxBlock` follows from its definition only where a run exists: the
scan must know where it is (`ScansInv`), and for the first scan that means that the memory it is counted in
is made of numbers (`Counting`, `CountedGives`, `LeftIsNumber`).

`BlocksInv` keeps the scans of the integer sorts within `SA` and their blocks within the cache. The
partial scans of the largest variant are left out (`FixedRange`): they begin and end where its counts say.

### The rest

`ComputeInv` says for each place in `qbdiff_compute` what is on the heap (`AtStart`, `InLoop`, `Writing`) and that the file
is an initial part of its layout (`Prefix`); it holds in every interleaving of the three compressions.
`BlakeInv` is the loop invariant of the streaming hash: the compressed blocks are the first blocks of what was fed, each
with its counter and flags, and the rest is in the buffer, which is not empty. Its lemmas are about one loop
of `blake2b_update` (`LoopRuns`) and about cutting a sequence. `ToolsInv` says which
inputs are mapped at each call and that each of flush, sync and close finds the work of the one before it done, on the medium if
it can be synchronised; `SuccessLasts` keeps that through a crash.

### Induction

The library's induction theorems take an operator as a parameter and cannot be cited here. Where a proof needs
induction over numbers it takes the least element of the set of counterexamples, from the well-foundedness of `<` on `Nat`
(`LeastNatural`). For the loops of the sorter this is done once: `Loops` has the step and the invariant of a loop as
constants, shows that the recursive function of the loop exists, and proves by the least counterexample that what each step keeps, the loop
keeps (`UpKeeps`, `DownKeeps`). A loop is then an instance of the module, `Narrowing`, `Widening`, `CountingUp`, `Summing` and the two
of merging.

### Only model-checked

- The liveness properties `MatcherReturns`, `SearchReturns`, `RoundTripEnds` and `ToolEnds`: liveness under fairness and `ENABLED` are
  out of the prover's reach. For the first three the theorems on measures give the part that does not need it; an interrupted
  `fsync` has no measure.
- What depends on the contents of the sorter's tables: `Sorts`, `ReducedOrder`, `NothingLeaked`, `StaysInside`, `EntryBehind`; `ParallelSorts`
  for bytes and integers; `NoRaces` and the second half of `CacheFits` in the regions whose entries are slots
  (`radix`, `place`, `shift`, `clear`, `put`) or names (`renumber`, `gather_marked`, `reconstruct`), and in the
  partial scans of the largest variant. There an address is an entry of a table or of the array, and that it lies within the
  array or apart from those of another thread is what induced sorting is about: how many suffixes a bucket has, and that the scans
  meet each once. That theory is not developed here.

## 5. Findings

1. `search_leaf`: the first interval ends at `old_size`, one entry behind the last suffix. A leaf that is
   reached without moving that end compares the file at whatever the entry holds. If that is negative, the result may be a position
before `old` (`LostByEntry`, `FoundBefore`).
2. `compute_suitable`: the parallel loop drops the results of `compress`. A stream that does not
   fit its buffer, or for which there is no memory, is missing from a delta that is
   reported as complete. `qbpatch` then refuses it.

`OnlyKnownLeaks` records two error paths of `qbdiff_compute` that leave a buffer behind (the suffix array when
libsais fails, the compressed new file when the write of a large full delta fails), `OneKnownLeak` one of
`qbdiff_patch` (the unpacked file when the checksum of a full delta is wrong).

Not a finding, but worth knowing: the search pairs the length of the match at the start of `old` with the position `I[0]`
(lines 120-123), and returns both when no probe finds a longer match, although the bytes at that position may differ. The delta
stays correct, since differences are computed from the bytes themselves (`BeyondStartIsMatch`, `RestoresNew`).

## 6. Not modelled, and why

- In libsais.c: the threaded counting, naming and compaction of the integer variants (the operators are the
  sequential ones there), and what qbdiff never calls: generalized suffix arrays, frequencies, BWT and its
  inverse, PLCP and LCP. Alignment of tables and caches in memory, prefetching and unrolling have no meaning in the model.
- In libsais64.c: its own sort, which is the text of libsais.c with wider words (a file of 2 GB is needed to reach it);
  the conversions around libsais.c are modelled.
- The compression function of BLAKE2b: arithmetic on fixed tables without a branch.
- liblzma: external; it gives the data back or fails.
- The header in bytes: lengths between 70 and 77 bytes, where the length of what follows is negative, and sums that overflow
  an `int64_t`. What is read behind a mapped file has no value in the model.
- In the sorter, memory that is not allocated: `mem` has no words there, so a write behind everything allocated changes nothing in
  `Sais`, and `StaysInside` sees it only by its effects (a result that is wrong). With threads `CacheFits` looks at the addresses of the writes themselves.
- The capacity of `cb` (line 240). `StreamsFit` bounds `db` and `eb` by the size of `new`; no such bound
  is shown for the control stream, whose records take 24 bytes for as little as nine
  bytes of `new`, and nothing in the repository says what is meant to hold.
- The tools on Windows and without `fsync`; `qbdiff_error` and `qbdiff_version`, constant tables; build files.
- The branch of `qbdiff_compute` without OpenMP: the file does not compile without it (line 34).

## 7. Plan

Done: the matcher, the search and their composition, the patcher with its buffers, the round trip, the delta writer, the checksum, the
tools, the suffix sorter sequentially and with threads; the safety of all but the sorter as theorems, the refinement
of `Match` and its composition with the round trip, measures for the loops of the matcher, the search and the patcher; the parts, caches and blocks of the
sorter's threads, and widening in place.

What is worth proving next:

1. The counts of the byte sort: that after `Counted` a bucket of the table has as many slots as the text has suffixes of its kind. With it
   the slots of two threads in `radix` and `place` are apart, and `NoRaces` and `CacheFits` hold in these regions.
2. The partial scans of the largest integer variant (`FixedRange` in `FetchedApart`), which needs the counts of its table.
3. That a step of `Sais` writes inside its frame (`StaysInside`), from the same counts.

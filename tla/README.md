# A verification development for applesauce

Applesauce compresses and decompresses files transparently on macOS (APFS/HFS+
"decmpfs" compression). Its library reads every file of a directory tree, compresses
or decompresses it block by block on a pool of threads, writes the result to a
temporary file, optionally verifies it, and renames it over the original. With a
*scratch* (memory or a directory) the result is staged first and copied later, either
file by file or in *batches* that separate reading phases from writing phases.

This directory holds TLA+ models of the concurrent core, TLC runs that check them on
small instances, and TLAPS proofs of what matters most. Source paths below are relative
to `src/crates/`; `PROJECT.json` maps every definition to the lines it models.

Contents: [inventory](#inventory), [modules](#modules), [runs](#runs),
[fairness](#fairness), [what is proved](#what-is-proved), [findings](#findings),
[remarks](#remarks), [not modelled](#not-modelled), [plan](#plan).

## Inventory

### Components and their state

| component | source | state | operations |
|---|---|---|---|
| sequential queue | `applesauce/src/seq_queue.rs` | a bounded channel of oneshots; a shared cell with the first error or the success | `prepare_send`, `Slot::finish`, `Slot::error`, dropping a slot, `Sender::finish`, `try_for_each`, `Receiver::finish` |
| scratch budget | `applesauce/src/scratch.rs` | bytes used, stopped flag, one condition variable; bytes of each reservation | `reserve`, `shrink_to`, `Reservation::drop`, `stop` |
| scratch payloads | `applesauce/src/scratch.rs` | one temporary file or buffer per file being staged; the buffer's capacity | `payload`, `write`, `seek`, `finish`, `reader`, `close` |
| batch coordinator | `applesauce/src/threads/batching.rs` | files admitted since the last drain; a completion per file; acknowledgements | `submit`, `drain`, `flush_volume` |
| readers (8 threads) | `threads/reader.rs` | the file in hand, the slot in hand | `handle_item`, `with_file_chunks` |
| compressors (one per core) | `threads/compressing.rs` | the block in hand | `handle_item` |
| writers (16 threads) | `threads/writer.rs` | the file in hand: its stream, temporary file or payload | `handle_item`, `write_blocks`, `stage_*`, `finish_*_file`, `verify_file`, `persist_file` |
| publishers | `threads/writer.rs` | the staged file in hand | `PublishHandler::handle_item`, `publish`, `copy_payload` |
| pools and shutdown | `threads/mod.rs` | one bounded channel per pool; thread handles | `BgWorker::new`, `handle_fn`, `ThreadJoiner::drop` |
| scan | `threads/mod.rs`, `scan.rs` | the walk, statistics, per-file `Context`s | `scan`, `Walker::run`, `Context::drop`, `OperationContext::drop` |
| source guard | `threads/source_guard.rs` | a cached snapshot of the files that some process has open for writing | `before_publish`, `has_writer` |
| times, volumes | `times.rs`, `volumes.rs` | directories whose times to reset; temporary directories per volume | `Resetter::activate`/`drop`, `tempfile_for` |
| compression state | `info.rs` | none | `get_compression_state`, `get` |
| extended attributes | `xattr.rs` | buffers that grow from one attempt to the next | `with_names`, `raw_names`, `len`, `read` |
| file format | `applesauce-core/src` (`writer.rs`, `reader.rs`, `decmpfs.rs`, `compressor/*`) | blocks written so far, block table | `add_block`, `finish_decmpfs_data`, `read_block_into` |
| resource fork | `resource-fork/src/lib.rs` | a 32-bit position | `read`, `write`, `seek` |
| command line | `applesauce-cli/src` | progress bars | argument parsing, rendering |

### How they interact

* `scan` walks the tree on the calling thread and sends a `reader::WorkItem` per
  eligible file, over the readers' channel or through the batch coordinator.
* A reader reserves scratch space (unless the coordinator did), opens the source,
  creates a sequential queue, sends its receiving end to the writers' channel (capacity
  4) and then prepares a slot per block. Blocks go with their slots to the compressors
  (capacity 8); when decompressing by reading, the reader fills the slot itself.
* A writer drains one sequential queue in order. Without scratch it verifies, sets
  attributes, asks the source guard and renames. With scratch it stages a payload,
  shrinks the reservation to what the payload takes, and sends a `StagedFile` to the
  publishers (capacity 4) or puts it in the file's `Completion`.
* A file's reader and writer share the `Completion`; whoever drops it last sends it to
  the coordinator. After the last one the coordinator sends the staged files to the
  publishers, counts their acknowledgements, and flushes the volumes.
* Every work item holds an `Arc` of the file's `Context`, which holds an `Arc` of the
  `OperationContext`; the drop of the latter sends the statistics that `scan` waits for.
* After the scans, `BackgroundThreads` drops its pools field by field; each drop closes
  a channel and joins the threads.

### Hard behaviours

* **Races for one result.** A stream's outcome is decided by its sender, by any slot and
  by the receiver, in any order, and travels beside the data.
* **Drop order as protocol.** Slots, completions, reservations, contexts, payloads and
  pools do their work in destructors; the order of fields and of locals decides what
  other threads can see in between.
* **Bounded channels in a cycle of waits.** Readers wait for space in three channels and
  for scratch space; writers for readers and compressors; the coordinator for all of
  them; publishers are fed by the coordinator which they acknowledge to.
* **Partial failure.** Opening, reading, compressing, writing, staging, publishing,
  deleting and flushing can each fail, at any file, and nothing may stall, leak scratch
  space or replace a file by an incomplete one.
* **Time of check, time of use.** The source may change between its first `stat` and the
  rename, and the snapshot of open writers is cached for five seconds.
* **Reference counts as protocol.** Statistics, directory times and temporary directories
  are settled by whichever thread drops the last reference.
* **Retries.** Names and values of extended attributes are asked for by size first, and
  again if they have grown.
* **Crashes** between the creation of temporary files and the rename.
* **Numeric edges**: unsigned budget arithmetic; worst-case reservation sizes; 32-bit
  resource fork positions.

No state is persisted between runs of the program, and no file is tried twice.
`PROJECT.json` lists every hazard at its line with the properties that cover it.

### What makes each component correct

* Sequential queue: items in order without gaps; success only for a complete stream; the
  first explicit error wins; nobody blocks forever.
* Scratch budget: bytes are conserved and bounded; no lost wakeup; stop is final; every
  request is settled.
* Batching: the coordinator never waits for space; phases do not overlap; batches are
  bounded; nothing is left over between batches; the scan ends.
* Pipeline: no deadlock; complete files only; the verifier owns the source; payloads are
  covered by reservations; all threads are joined.
* Publication and source guard: the path always names the old or the complete new file;
  the new one shows one state of the source, never a mixture; nothing that others did
  before the last look is lost; a writer older than a snapshot can be is not missed.
* Scan, times, volumes: each file counted once at its start and once at its end, as what
  it has become; directories get their times back before the scan returns; of a file that
  two roots lead to, nothing is made from what the operation itself put in its place;
  temporary directories are removed.
* File format, resource fork, payloads: blocks are read back as they were added; a file
  that lacks a block is not labelled as compressed (only asserted if it was to have one
  block: finding 4), nor one with an offset that does not fit; reservations cover every
  output.
* Extended attributes: a report is of one moment or fails; the retries end.

## Modules

| module | models | lines of thought |
|---|---|---|
| `OrderedDelivery` | what a sequential queue promises | abstract: items 1..N in order, then one verdict |
| `SeqQueue` | `seq_queue.rs` as reader, compressors and writer drive it for one file | each atomic access to a channel, a oneshot or the result cell is one action |
| `SeqQueueProofs` | theorems about `SeqQueue` | TLAPS |
| `ScratchBudget` | `Budget` and `Reservation` of `scratch.rs` | a critical section is one action; waiting and waking are separate |
| `ScratchBudgetProofs` | theorems about `ScratchBudget` | TLAPS |
| `Batch` | `batching.rs` with the readers, writers and publishers it paces | composes with `ScratchBudget` by refinement |
| `BatchProofs` | theorems about `Batch` | TLAPS |
| `Pipeline` | the four thread pools without batching, and their shutdown | composes with `ScratchBudget` by refinement |
| `PipelineProofs` | theorems about `Pipeline` | TLAPS |
| `AtomicReplace` | what replacing a file promises | abstract: others change the file, a look, one exchange |
| `Publish` | one file from `scan` to the rename, among other programs | each system call on the source, the temporary file or the path is one action |
| `PublishProofs` | theorems about `Publish` | TLAPS |
| `Scan` | one operation over several roots: `threads/mod.rs`, `scan.rs`, `volumes.rs`, `times.rs`, the decision of `info.rs` | each entry of a listing is an actor; every drop is a step of its own |
| `ScanProofs` | theorems about `Scan` | TLAPS |
| `BlockFile` | what a compressed file promises | abstract: blocks are added, sealed, read back |
| `CompressedFile` | `applesauce-core`'s writer, reader and formats, the resource fork, payloads | a file is a sequence of cells: words of tables and pieces of blocks |
| `CompressedFileProofs` | theorems about `CompressedFile` | TLAPS |
| `Xattr` | `xattr.rs` as `info.rs get` uses it | each system call is one action among those of other programs |
| `XattrProofs` | theorems about `Xattr` | TLAPS |
| `MCPipeline`, `MCScan`, `MCXattr` | instances for TLC | |

Definitions whose comment starts with "Seeded fault" are not the code's. Each stands
before a definition and repeats it with one plausible bug; replacing the definition by it
makes a property fail, which shows that the property can.

**SeqQueue.** `slot[k]` follows block k from `prepare_send` to its end; `chan` is the
crossbeam channel; `final` is the `FinalSuccess` cell with the origin of an error;
`rx`/`cur` is the receiver's place in `try_for_each`. The steps that matter are the ones
the code separates: `Slot::error` records the error and then drops the oneshot
(`SlotError`, `SlotErrorDrop`), a dropped slot does it the other way round (`SlotDrop`,
`SlotDropFinal`), `Sender::finish` records the result and then disconnects (`FinishOk` or
`FinishErr`, `Disconnect`). `mode` selects how the reader uses its slot. `PanicBy` says
which threads may panic. The refinement to `OrderedDelivery` maps `delivered`, the items
that a panicking compressor deserted, the existence of a failure, and the verdict: success
needs all items, or that the next one was deserted (finding 1).

**ScratchBudget.** A request is one call of `reserve` and the reservation it returns; `st`
is where it is. `Woken` is `notify_all`. `SpuriousWakeup` is what condition variables
allow. The sum of the reservations is written `Total`, the number of cells of a bar
chart, because sums of cardinalities are easier to reason about; see below.

**Batch.** The coordinator is the variable `co` (with `back`, where it goes after a
drain); `comp[f]` is the `Completion` of file f; `rd`, `wr` and `pay` are its reader,
writer and staged payload; `hold` and `res` its reservation. Every file has a reader and
writer of its own, which allows every order that pools of 8 and 16 threads allow; that
the pools themselves cannot deadlock is the subject of `Pipeline`. Blocks are abstracted
to the result of the stream. `Admit` is enabled only when there is room, that is, the
coordinator waits otherwise. `CoordinatorNeverWaits` says it never has to.

**Pipeline.** Pools are numbers of threads: a queued item is taken while fewer of its
kind than threads are in hand. `rd`, `wr` and `pub` place each file in its reader, writer
and publisher; `blk` each block. Queues are sets with a capacity rather than sequences:
a superset of the orders of a FIFO channel. `setup` is chosen at first: the mode, scratch
or none, the blocks of a file and the threads of each pool. `main` is the thread that scans and then
drops `BackgroundThreads` in `DropOrder`. `payload` is the set of files whose payload
exists; `DeleteFails` says who may fail to delete one. The sequential queue appears as
what `SeqQueue` establishes for it, without panics.

**Publish.** `path` is what the file's name leads to; `inode` holds each file's contents
(a number per block), extended attributes, access rights, change time and whether its
flags protect it. `pc` follows the file through `scan` (`Scan`), the reader (`Open`,
`ReadBlock`, `AllRead`), `publish` (`Reopen` in a batch, `CopyXattrs`, `CopyContents`),
`finish_*_file` (`CopyRights`, `VerifyBlock`, `Verified`), `before_publish` (`Look`,
`Collect`/`Collected` or `Consult`, `LookAgain`) and `persist_file` (`Rename`,
`ResetTimes`). Between any two of these steps other programs may write a block through an
open handle, set attributes, protect the file, rename another file over it or the original
back, remove it, open and close it. `route` selects the order of the steps: without
scratch the writer copies the extended attributes while the reader reads; with scratch
the publisher does; in a batch the handle is closed in between and the source opened
again. `same_source` compares identity, length, times, links and flags; the model compares
the inode and the change time, since on APFS none of the others changes without the change
time. This is the assumption the whole guard rests on: every change has a change time
of its own. Writes through a shared mapping, which may set it late, are outside the model.

An encoder, or whatever keeps a payload, may yield `Garbage` where the result is
verified: the properties then rest on the verification. Where it is not, they are trusted.
`VerifyBlock` stands for both branches of `verify_file`. Manual decompression does not
read the original through the kernel but decodes its compressed blocks a second time
(`verify_manually`). It passes in no state in which `VerifyBlock` does not, as long as two
things hold: whoever writes to a compressed file makes the kernel decompress it first, so
that no old block is left to compare with; and the decoder is right, since a fault of its
own would be in both passes. There, `Garbage` is what happens to the payload after the
decoding.
`Stop` is any failure before the rename and also the death of the process: either leaves
the path alone. `Collect` and `Collected` are two steps under the mutex, because a
collection looks at the processes first and is dated afterwards; "another" is a
publisher of another file. `first`, `exposed` and `checkedAt` are history variables.
`exposed` says whether others have changed anything since the path was last looked at;
in `AtomicReplace` this is the limit of the promise: `README.md:78-82` of the repository
calls the check best effort.

**Scan.** An entry is a file together with the root that leads to it; `entry` follows it
from its listing to the drop of its last reference. A walker's threads list directories
(`List`, with `save_times`) ahead of the calling thread, which visits entries in any order
(`PassBy` for what is not counted, `Visit` for the rest). `Visit` is the body of scan's
closure, decision, counting and submission included. jwalk calls the code that saves the
times (`process_read_dir`) for the root itself, too, as an entry of the directory above it,
so that a file named as a root has a listing and a Resetter for its directory:
`applesauce/src/lib.rs:562-591` tests that. (The same call for a root that is a directory
saves times which no file's Resetter refers to; it is left out.) Of what the pools do with a
file this module has what two `Context`s of one file can see of each other: the source is
opened (`Open`); `tempfile_for` and `before_publish` look at it once more (`Check`); and the
new file is renamed over whatever is there by then (`Rename`), without a lock since the
check. `FileFails` is every other way. The end is taken apart, since two threads hold the
`Context` and either may drop it last: `Report`, `Count`, `DropFirst`, `DropSecond`.
Without any root that can be looked at there is nobody to walk, and `StartWalking` leaves
the scan without a walker.
`DropResetter` is the drop of the last entry of a listing. `operation` is the
`OperationContext`: its drop sends the statistics (`SendStats`) and then, in whatever
thread, drops the volumes with their temporary directories (`RemoveTempDirs`), while scan
may return. `touched` is the set of directories whose times are not what they were;
`missed` and `unlucky` are history variables that say where a call failed. `MaxFaults`
bounds how many do; `source` is the version that a reader opened. A lookup of a volume that
fails is forgotten, except for the system's own, which `system_volinfo` then takes for one
without compression (`Init`).

**CompressedFile.** One file from `Writer::new` to the last block read back. The parts of
a fork or payload are *cells*: a 32-bit word of a table, or a piece of a block, of the
trailer or of a hole left by a seek. So tables are written and parsed for real, with offsets
that are computed on one side and used on the other. `storage` says whether the writer
writes the fork itself or a payload on disk or in memory, which the publisher copies in
buffers. `Chunk` reads and compresses: a block becomes anything that the compressor's
buffer allows, and with `ShortReads` a chunk may be shorter than a block. `EndOfStream`
may come early, as `SeqQueue` allows when a compressor panics (`LostBlocks`), and
`finish_decmpfs_data` evaluates its `debug_assert!` if `DebugAssertions` says so. The constants are the code's sizes scaled down with
their order kept; `MaxOffset` is small enough that both the fork's position and an offset
in a table can pass it. `write_uncompressed_block` decompresses whatever was read - or what
any other program may have made of it - into a payload of the file's size.

**Xattr.** `attrs` is the file; other programs set and remove attributes between any two
system calls, `MaxChanges` times. Values are distinguishable in every byte, so that a
mixture is visible. `room` and `buf` are the buffers, which are kept from one attempt to
the next.

## Runs

| run | instance | shows |
|---|---|---|
| `seq_queue` | 4 blocks, channel of 2, reader and compressors may panic | `ReadErrorReported`, `FirstErrorWins`, `EveryoneStops`; implements `OrderedDelivery` |
| `scratch_budget` | limit 3, 3 requests of 0 to 4 bytes | `Conserved`, `NoLostWakeup`, `NothingAdmittedAfterStop`, `EveryRequestSettles` |
| `batch` | limit 3, target 2, 2 files of 1 to 4, queue of 1 | `CoordinatorNeverWaits`, `PhasesSeparate`, `BatchBounded`, `DrainedClean`, `EveryFileSettles`; implements `ScratchBudget` |
| `pipeline` | 2 files, channels of 1; staged: 1 block, limit 1, two readers or one of each; direct: 2 blocks, 1 thread each, all modes | `PublishedComplete`, `VerifierOwnsSource`, `BacklogCovered`, `EverythingEnds`; implements `ScratchBudget` |
| `publish` | 2 blocks, 3 routes; 2 further changes, or 4 ticks with refresh after 2 and collection up to 1 | `NoTornFile`, `OldWritersSeen`; implements `AtomicReplace` |
| `scan` | 3 files in two directories, walked by one root; one of the files given again by a second; 1 failing call | `StatsComplete`, `TimesKept`, `NeverFromOutput`, `EverythingCleanedUp` |
| `compressed_file` | 3 formats, 3 storages, files of 1 to 3 blocks of 2 cells, short chunks, lost blocks, with debug assertions | `ReservationSuffices`, `PublishedIsReadable`; implements `BlockFile` |
| `xattr` | 3 attributes, values of 0 to 2 bytes, 3 changes | `ReportOfOneMoment`, `NoTornValue`, `EveryReportEnds` |
| `seq_queue_unfinished`, `pipeline_payload_left`, `second_block`, `missing_block` | minimal | the findings below; TLC must find the property violated |

Each passing run checks the type invariant of its module too.

**Why the bounds are enough.** A sequential queue of two slots and four blocks can be
full, empty, or half full while the receiver waits on one slot, with a further block to
come after any failure; more blocks repeat these situations. Three requests let one
hold, one wait, and one overtake, with sizes of zero, of exactly the rest, of the whole
limit and of more than the limit. Two files of every size from 1 to 4 are below, at and
above the target, at the limit, and refused; the second finds the first in its batch, or
drained before it, so that one batch follows another. In the pipeline, capacities
of one with as few threads make every wait happen that larger pools can only postpone:
with two files, one waits for whatever the other holds. With scratch and a limit of one,
the second file gets its reservation as soon as the first one's shrank or
was released, so that both stages overlap.

In `scan` one directory holds one file and the other two, so that a listing has a last
entry and one that is not the last, while the entries of another listing are under way. The
single file is reached from both roots, by a walk and by name, and takes every kind of
metadata that the decision distinguishes; of the others one is plain and compressible and
one is protected. Both Contexts of the file may be opened, checked and renamed in any order,
and the second root may save the times of its directory before or after the first has
replaced it. One failing call can be any: a lookup of the volume, a directory's times, a
stat, a file. The
volume is the system's, which `Volumes::new` may or may not be able to use; if not, the
root hosts a temporary directory. `ScanProofs` has any number of volumes and failing calls.

In `compressed_file` a file of one block may stay in the attribute or move to the fork; one
of three has a first, a middle and a last block, which may be short. With blocks of 2 and
buffers of 4 cells, a block shrinks, stays or grows; a fork of LZFSE blocks can pass
`MaxOffset`, and the others just fit. `CopyBuffer` copies in one, two or three pieces.
In `xattr` three changes are what it takes to fool a retry: the value changes after its size
was told, again before it is read, and a third time afterwards.

In `publish` two changes beyond the initial state are what a mixture takes: one between
two reads and one more that could hide it, such as the return of the original under its
name; two blocks let one be read before and one after a change. Opening, closing and
removing are not counted and not bounded. The clock matters only to the snapshot, which
knows openings and closings, while the other properties are about changes: so the clock
moves only as long as there were no further changes (`TimedEdits`). Four ticks are a
collection of one tick, an interval of two, and one more, so that a snapshot can expire
and a second one be collected. `PublishProofs` has both at once, in any number.
`CollectTime` is an assumption: the code does not bound it, and the property is relative
to it.

Sizes are small numbers in units of the target and limit; nothing depends on bytes.
Every run checks for deadlock: the one state in which nothing moves is the modelled end
(`Terminated`).

## Fairness

Weak fairness of each thread: a thread whose next step is enabled takes it in the end.
The operating system schedules threads so, no step of the code spins, and crossbeam
channels hand every queued item to some receiver. Requests of the budget need fairness
of `Test` (a thread that can take the mutex does) and of `Drop` (a reservation is dropped
in the end, which `Batch` and `Pipeline` justify: every path of a file ends in a drop).
Neither reading, compressing, writing nor flushing is assumed to succeed, only to return.
`Stop`, spurious wakeups, failures and panics get no fairness. There is no assumption
that a waiting request is served before later ones; with finitely many files each is
served in the end.

`Scan` has weak fairness of `Next` as a whole, which is less than fairness of each thread:
something happens as long as anything can. That is enough, because no step can be repeated
forever. `Xattr` has weak fairness of the reporting thread; other programs stop changing
the file after `MaxChanges` times - against one that never stops, no retry can win - and no
system call has to fail for the report to end. `Publish` and `CompressedFile` are about
safety only.

## What is proved

Every theorem holds for all values of the constants that satisfy the module's assumption.
All 24 invariants that passing runs check are theorems, and so are all five action properties
and all five refinements; `BacklogCovered` and `ImplementsBlockFile` are in the cases in which
they hold, findings 2 and 4.

`SeqQueueProofs` proves, for every number of blocks, every capacity of the channel and
every choice of threads that may panic (`SeqQueueAssumption`):

* `TypeCorrect`: `Spec => []TypeOK`;
* `ReadErrorIsReported`: `Spec => []ReadErrorReported` - a reader that fails, while no
  compressor does, is heard;
* `FirstErrorIsKept`: `Spec => FirstErrorWins`, an action property;
* `UnfinishedIsError`: `"compressor" \notin PanicBy => (Spec => []UnfinishedSlotIsError)` -
  the test's expectation holds as long as no compressor panics. Without the hypothesis it
  is false, which is finding 1;
* `DeliveryImplemented`: `Spec => ImplementsOrderedDelivery` - with panics, too.

The invariant (`IInv`) says where each block is between the reader and the writer
(`Queued`, `Placed`, `Filled`) and reads the shared cell in both directions: what is in
the cell has happened (`Sound`), and what has happened is in the cell until the receiver
takes it (`Complete`). A verdict is therefore the truth when it is given; that it remains
so is `Answered`. Where finding 1 comes from is visible here: `Complete` holds of every
slot that recorded its error before it was dropped, and of no slot that was deserted.

`ScratchBudgetProofs` proves, for every limit, every finite set of requests and every
set of sizes (`ScratchBudgetAssumption`):

* `TypeCorrect`: `Spec => []TypeOK`;
* `BudgetConserved`: `Spec => []Conserved` - the counter equals the sum of the live
  reservations and never exceeds the limit;
* `WakeupsAreNotLost`: `Spec => []NoLostWakeup`;
* `StopIsFinal`: `Spec => NothingAdmittedAfterStop`, an action property.

The inductive invariant is `IInv == TypeOK /\ Conserved /\ NoLostWakeup`. Types alone are
not inductive (a drop could make `used` negative), so `Conserved` is needed: a single
reservation is bounded by the sum. `Conserved` needs that what is not live holds nothing,
its last conjunct. `NoLostWakeup` is inductive with the others: `used` decreases only in
steps that wake everybody, and `stopped` is set only by one that does.

The proof hinges on one lemma about sums, `TotalOfUpdate`: changing one reservation
changes the total by the difference. A sum over a finite set is usually defined by
recursion, which takes an induction to reason about. `Total` is the cardinality of a set
of cells, request by height, instead, and the lemma follows from the library theorems on
cardinalities alone: the cells of one request are an interval (`BarSize`), and the
total is that bar plus the rest (`TotalSplits`). `Release` covers the three ways
in which bytes come back; there is one lemma per kind of step, `NextIInv` joins them.

`PublishProofs` proves, for every number of blocks, of changes and of clock ticks and
every set of routes (`PublishAssumption`):

* `PublishedIsNotTorn`: `Spec => NoTornFile` - the file that replaces the source shows its
  contents, attributes and rights as they were together at the scan;
* `PublishImplementsAtomicReplace`: `Spec => ImplementsAtomicReplace` - initial states map
  to initial states, and every step maps to `Others`, `Look`, `Replace` or to no change.

`NoTornFile` is a claim about one step, and nothing in the state before it says why it is
true: the copies may have been made long ago, from a file that has changed since. The
inductive invariant (`IInv`, theorem `PublishInvariant`) says it in a conditional form.
`ChangeTimeTells`: an original that has the change time of the scan holds what it held
then. `IntactCopies`: *if* the path still leads to it unchanged, then the handle is to it,
and every block, attribute and right copied or verified so far is that of the scan. A
change by others makes the condition false for good, since numbers of changes are not
used twice (`NumbersFresh`); a step of applesauce only has to preserve the conclusion.
The last look establishes the condition, and from there on only the temporary file
matters, which nobody else knows (`TemporaryPrivate`): `RenameReady`. The refinement adds
`LastLook`: with nothing exposed since the last look, the path still shows what scan saw
and is not protected.

* `TypeCorrect`: `Spec => []TypeOK` - handles lead to inodes that exist, changes are
  numbered without gaps, no date lies in the future (`Placed`, `Numbered`, `Dated`);
* `OldWritersAreSeen`: `Spec => OldWritersSeen` - who has had the source open for longer
  than `RefreshInterval + CollectTime` is seen by the last check.

The first is proved as three parts, because no single call of the solver handles sets of
functions and clock arithmetic together. For the second, `Watched` follows the clock: a
collection takes at most `CollectTime` (`Clocked`); one that began after a program opened
the file has seen it (`Witnessed`); so a program that the check did not see opened the file
later than that much before it (`Cleared`).

`ScanProofs` proves, for every set of files, directories and volumes, every sequence of
roots with what they lead to, and any number of failing calls (`ScanAssumption`: the
constants have the types their comments say, a root either is walked, with its own
directory, or names files of one, and the marks `Nowhere` and `Elsewhere` are not
directories):

* `StatisticsAreComplete`: `Spec => []StatsComplete` - when the statistics are sent, every
  file that was counted at its start has one entry at its end, and a truthful one;
* `TimesAreKept`: `Spec => []TimesKept` - when scan returns, the times of every directory
  are those it had, with the exceptions that the property names.

Both speak of one late moment, so the invariant says what leads up to it. `InOrder`: where
an entry may be in each phase; `EndInOrder`: the statistics are sent when no entry holds
the operation any more. `ListedOnce` and `FilesOnly` say who becomes an entry. `Counted`
gives the number of entries at the start and end as a function of where the file is - this
is what excludes counting by the publisher *and* the drop; `Truthful` ties the recorded
state to the disk, of files that one root leads to. `TimesInHand` is the heart of the
second theorem: a directory that is touched has an active Resetter, which holds the
original times, *and somebody still holds it* - or a later root has saved the touched times;
`HostsKnown` separates directories that host a temporary one. There is a lemma per action where several conjuncts need it
(`DropResetterKeepsTimes`), otherwise one step per action under each conjunct.

* `OutputIsNeverTheSource`: `Spec => NeverFromOutput`, an action property - two Contexts of
  one file may both rename, but what the second renames is made from the file as it was
  found, too. `Remade` says that a file that was replaced is compressed, or plain when
  decompressing; `Described`, that who has passed the check opened the version it was
  listed with, and that this was worth submitting;
* `TypeCorrect`: `Spec => []TypeOK` - for which `ReplacedByEntries` bounds how often a file
  is replaced by the number of entries that could, and so by the number of roots. The proof
  did not go through at first: with no root that could be looked at (`threads/mod.rs:218-220`),
  the model started a walker of root 1, which does not exist and which nobody would drop.
  `StartWalking` now follows the code; the run has roots and had not seen it.

`CompressedFileProofs` proves, for every size of file, block, header, trailer and
attribute, every format and storage, and whatever the codecs yield
(`CompressedFileAssumption`: a buffer has room for more than a block, the header of the
attribute fits into it):

* `ReservationsSuffice`: `Spec => []ReservationSuffices` - no write to memory scratch is
  refused, no payload exceeds what was reserved, `shrink_to` never panics, and
  decompressed data stays within the file's size.

The invariant (`IInv`, theorem `InvariantHolds`) bounds the position of the payload while
blocks arrive: one header and as many buffers as there are blocks (`Staged`), as long as
these are no more than the length of the file takes. Sealing is the hard step: ZLIB appends
a trailer and writes its header and table over the room that was left, LZ formats only a
table (`ZlibFits`, `LzFits`); and it only happens with the reserved number of blocks, which
is what makes the conditional bound unconditional from then on (`Attribute`). The growth of
a buffer is bounded by `WriteFits`, products of unknowns by `Products`.

* `PublishedCanBeRead`: `Spec => []PublishedIsReadable`;
* `OnlyBlockIsThere`: `Spec => []OnlyBlockPresent`, if `debug_assert!` is evaluated or no block
  gets lost (`DebugAssertions \/ ~LostBlocks`) - run `missing_block` violates the property
  without this hypothesis, finding 4;
* `BlockFileImplemented`: `Spec => ImplementsBlockFile` under the same hypothesis - a file is
  sealed only with as many blocks as its size takes, and a published file gives back all of
  them, unchanged and in order. `BlocksComeBack` says the same of every build, of behaviours
  with `[]OnlyBlockPresent`;
* `TypeCorrect`: `Spec => []TypeOK`.

These follow from a second invariant (`Trip`, theorem `RoundTrip`), which says what lies in
the file at each stage. While blocks arrive, block k lies where the sizes of those before
it add up to, behind a hole as long as the header (`Laid`, with `Raw`). `finish` fills the
hole: the table it writes contains the same sums, and a trailer comes behind the last block
(`LzSealed`, `ZlibSealed`), so that the result has a `Layout`, with no hole left. A
copy from scratch is a prefix of the payload, and all of it when it ends (`Copies`).
`OpenReader` then computes from the table the offset and length of each block, `Info(k)`,
and `read_block_into` finds the block there (`ReadBack`, with `TableRead` and `BlockRead`).
An offset that does not fit, or a number of blocks that is not the reserved one, stops the
file before `Label`, so that no table with a wrong sum is ever read.
In the refinement, a block that is added, the seal and each block read are the steps of
`BlockFile`; everything else changes none of its variables.

The writer and the reader add sizes up with a recursive function, `Offsets`. TLA+ defines
it by `CHOOSE`, so the first thing to prove is that a function with these equations exists,
by induction (`SumsExist`). The induction theorems of the library take an operator that the
installed provers cannot instantiate; but the well-foundedness of the naturals needs none.
It yields a least element of any set of naturals (`LeastNat`), and applied to the set of
the numbers for which a claim fails, it is an induction.

`BatchProofs` proves, for every number of files and publishers, every limit, every target
up to it and all sizes (`BatchAssumption`):

* `TypeCorrect`: `Spec => []TypeOK`;
* `NeverWaitsForSpace`: `Spec => []CoordinatorNeverWaits` - the coordinator never asks for
  space that is not there;
* `PhasesAreSeparate`: `Spec => []PhasesSeparate`;
* `BatchesAreBounded`: `Spec => []BatchBounded`;
* `BatchesLeaveNothing`: `Spec => []DrainedClean`;
* `BudgetImplemented`: `Spec => ImplementsScratchBudget`.

The coordinator counts completions and the budget counts bytes; that the two agree is what
all of these need, and neither of them says it. The invariant says of one file, for all
files, who shares its `Completion` (`Shared`), where its payload is (`Handed`), who holds
its reservation (`Held`) and how far the walk is (`Walked`). `Paced` is about the
coordinator: `pending` is the number of files in the batch, and what is reserved stays
within the target, or is all of one file, which is drained before the next. What the budget adds up to is
not proved again: `IInv` contains the invariant of `ScratchBudgetProofs` for the instance
of the budget that the files use (`BudgetProofs!IInv`), and each step of `Batch` maps to a
step of the budget or to none, which is `BudgetImplemented`.

`PipelineProofs` proves, for every number of files, blocks and threads, every capacity and
every limit (`PipelineAssumption`):

* `TypeCorrect`: `Spec => []TypeOK`;
* `OnlyWholeFilesPublished`: `Spec => []PublishedComplete`;
* `SourceIsOwned`: `Spec => []VerifierOwnsSource` - the `expect` on
  `Arc::get_mut` in the writer and the publisher cannot fail;
* `BudgetImplemented`: `Spec => ImplementsScratchBudget`;
* `BacklogIsCovered`: `"writer" \notin DeleteFails => (Spec => []BacklogCovered)` - what lies
  in scratch is paid for, provided a writer can delete what it gives up. Run
  `pipeline_payload_left` violates the property without this hypothesis, finding 2.

A step works on one file, so the invariant is a statement about one file again (`Local`):
how far its reader, writer and publisher are relative to one another (`InOrder`), what
became of its blocks (`Flow`: a file that the writer believes complete was read to its end
and has lost no block) and who has its reservation and payload (`Reserved`). As in
`Batch`, the budget's invariant is that of `ScratchBudgetProofs`.

`XattrProofs` proves, for every set of attributes, all sets of lengths and any number of
changes (`XattrAssumption`, in which the set of plain attributes is finite: `listxattr`
returns finitely many):

* `TypeCorrect`: `Spec => []TypeOK`;
* `ReadIsNotTorn`: `Spec => []NoTornValue` - what `read` returns is a value that the attribute
  had, unless it had three in one call;
* `ReportIsOfOneMoment`: `Spec => []ReportOfOneMoment` - a report covers the attributes of
  one moment.

The invariant follows the length of the buffer (`Buffered`): it can be longer than the
length `read` was told only after a round in which the attribute was longer still, and
shorter before - three lengths, hence three values, all of which `seen` has (`Stored`).
`Taken` says the same of the value once it was returned. `Counted` and `Sized` are what the
types need.

For the report, `Moment` names the moment: there is one whose names are exactly those
that the report accounts for (`Accounts`) and those that it has still to look at (`Rest`).
A step takes a name from the second to the first; one whose attribute is gone leads to an
error instead. The total is a fold over a set, and that a further attribute adds its length
to it (`TotalGrows`) needs that the order of a fold makes no difference (`AnyOrder`). These
are inductions over the size of a set, by a smallest set for which the claim would fail
(`SmallestSet`).

**Only model-checked:** all liveness, `EverythingEnds` and its like: it needs `ENABLED` and
fairness, which the prover does not have. The properties of the runs that expect a violation
are refuted, not proved.

## Findings

1. **An abandoned block can be reported as success** (`seq_queue.rs:106`, run
   `seq_queue_unfinished`). A dropped slot loses its oneshot before it records the
   error. If a compressor panics while the reader has already finished with success, the
   writer can read `Ok` in between. Test `unfinished_send_becomes_err` expects the error;
   it passes because a single thread cannot look in between. Swapping the fields of
   `Slot` would restore the order of `Slot::error`.
2. **A payload left behind is not counted** (`scratch.rs:312`, run
   `pipeline_payload_left`). The publisher stops the budget when it cannot delete a
   payload; the error path of staging ignores it and releases the reservation.
3. **A second block panics a writer** (`applesauce-core/src/writer.rs:70-73`, run
   `second_block`). The reader turns a source of at most one block into two chunks if it is
   truncated while it is read and has grown back before the next read; the total length,
   the only thing compared, is right. The writer of a single block asserts that this cannot
   happen. With more blocks the count at the end refuses the file.
4. **A file may be published without its only block** (`applesauce-core/src/writer.rs:102`,
   run `missing_block`). If a compressor panics with the one block of a file and finding 1
   strikes, the writer finishes the file as if it had all its blocks. Of several blocks the
   number is checked, and the file refused (lines 110-115); that the only block of a file
   that is not empty is there is a `debug_assert!`. A release build labels and publishes a
   file with the header alone, unless verification was asked for, which notices.

## Remarks

Observations without a run of their own.

* *A block's error can be lost* (`seq_queue.rs:172-175`): when a block fails and a later
  slot is queued, `Receiver::finish` receives that slot, logs that this should not happen,
  and returns the unknown error. `FirstErrorWins` is about the cell, not about this.
* *Directory times have exceptions.* The tests expect every directory's modification time
  to be unchanged (`applesauce/src/lib.rs:430-437`, and 562-591 with a directory and a file
  beside it as roots). `TimesKept` has to exempt a directory that hosts the operation's temporary
  directory - which is made before times are saved, and removed after they were set - and
  one that two roots lead to, if the listing of the later root comes when a file of the
  earlier one has been replaced and the times are not yet set back: the later Resetter then
  saves the touched times and restores those. The roots of that test share no directory.
* *A file that two roots lead to may be replaced twice.* Between the check of the source
  (`threads/writer.rs:346`) and the rename (352) nothing is locked, and there are sixteen
  writers: both Contexts may pass the check before either renames. The second rename then
  replaces what the first published by the same again, made from the same original
  (`NeverFromOutput`). It is the window in which a change by any other program is lost, too.
* *Scan can return before its temporary directories are gone*: the statistics are sent
  first (`threads/mod.rs:92`), and the last reference may be a worker's.
* *Temporary directories are recognised by path* (`volumes.rs:152-155`). `tempfile` makes
  paths absolute, while the command line passes roots on as they were given. Under a
  relative root on another volume than the system's, the walker reports relative paths, and
  the comparison fails. `Scan` leaves the walk of temporary directories out.
* *Decompressing counts every file as incompressible or not, too*: `lib.rs:129` says the
  field is "only present when compressing". And `SkipReason` lets files through that could
  not be compressed; decompressing by reading rewrites them as plain files.
* *Extended attributes can be torn.* `xattr::read` keeps its buffer between attempts and
  does not cut it when the value has the length that was just told (`xattr.rs:222-231`).
  If the value was longer in an earlier attempt, its tail remains. It takes two changes
  during one call; `NoTornValue` states exactly this limit. `rfork_storage.rs` reads the
  decmpfs attribute the same way.

## Not modelled

* What codecs compute, and the vendored LZFSE library.
* System calls: flags, volume capabilities, libproc. Where their failure matters it is a
  nondeterministic outcome.
* The command line and the rendering of progress; folder statistics (`get_recursive`), a
  parallel sum without shared state.
* A process that shrinks its pools because handlers panicked.
* Decompression of files that are damaged, beyond what its length does to a payload.
* Weak memory: all shared data is behind mutexes and channels, except relaxed counters
  and flags that are read after the drop of the last reference.
* The times that `reset_times` restores: a program that writes to the new file between the
  rename and this call gets its modification time overwritten.
* When progress tasks end. A reader or writer drops its `Completion` before its `Context`
  (`writer.rs:365`, `reader.rs:177-181`), so a flush may start while a finished file's
  task still exists, which `batching.rs:109-110` does not expect; only the display shows it.

## Plan

Written, in this order: `OrderedDelivery`, `SeqQueue`; `ScratchBudget` with its proofs;
`Batch`; `Pipeline`; `AtomicReplace`, `Publish` with its proofs; `BlockFile`,
`CompressedFile` with its proofs; `Xattr`; `Scan` with its proofs; the proofs of `Pipeline`,
`Batch`, `SeqQueue` and `Xattr`; the remaining safety properties of `Publish` and `Scan`;
the round trip of `CompressedFile` and the report of `Xattr`.

What would come next:

1. A variant of `Pipeline` with panicking handlers and shrinking pools, and its proofs.

# A verification project for libpmemstream

libpmemstream keeps a log in persistent memory: a *stream* holds *regions*, a
region holds *entries*, entries are appended concurrently to different regions,
ordered by a global *timestamp*, and read by iterators. This directory holds TLA+
models of the library (`src/src/`), the TLC configurations that check them on small
instances, and theorems checked by TLAPS.

- Sections 1 and 2: the system, its parts and how they interact.
- Section 3: the modules and how they correspond to the code.
- Section 4: the runs, their bounds and what they show. Section 5: fairness.
- Section 6: what is proved, from what and how.
- Section 7: where code and documentation disagree.
- Section 8: what is not modelled. Section 9: the plan.

File names without a directory are in `src/src/`; `L` is `libpmemstream.c`.

## 1. Inventory

| component | state | operations | what makes it correct |
|---|---|---|---|
| **commit pipeline** (`L` 440-481, 570-617, 663-916) | `next_timestamp`, `processing_timestamp`, `committed_timestamp`, `persisted_timestamp`, `header->persisted_timestamp` (persistent), `async_ops[1024]`, `async_ops_semaphore`, `ready_timestamps`; in each future `timestamp, first, processing, last` | acquire and publish a timestamp; poll of a committed and of a persisted wait | an entry is committed only when it is durable, in the order of timestamps; every timestamp is processed by exactly one future; a slot is used again only when it is free; a completed wait keeps its promise; every wait ends |
| **region allocator** (`region_allocator/`) | persistent header: `free_offset`, `recovery_free_offset`, free list, allocated list | initialize, allocate, free, extend the free list, three recoveries | every call is atomic with respect to power failures; a region is in exactly one list; a new region is empty |
| **persistent list** (`singly_linked_list.h`) | `head`, `tail`, links in the regions | insert head or tail, remove head or element, runtime init | its asserts hold, after a power failure between any two stores too |
| **region log** (`L` 483-661, `span.c`) | headers (size and type; timestamp) and payload of entries in persistent memory, `append_offset` | reserve, (async) append, (async) publish | what is visible is what was appended and committed, in order, also after power failures |
| **region recovery** (`L` 98-129, `region.c` 202-339) | `max_valid_timestamp` (persistent), `region_runtime.state`, `region_lock` | mark regions at open; find the tail and open for writing | no entry of an earlier life of the stream becomes visible, although timestamps are used again; the tail is the end of the valid entries |
| **iterators** (`iterator.c`) | entry iterator: region, offset; region iterator: region | new, seek_first, is_valid, next, get, delete | an entry iterator returns a prefix of the log while a writer appends |
| **region runtimes** (`region.c` 16-200) | critnib from region offset to runtime | get or create, remove, destroy | one runtime for each region, whoever creates it; none outlives its region |
| **critnib** (`critnib/critnib.c`) | radix tree, deferred reuse of removed nodes | insert, remove, iter (under a mutex); get, find (without) | a get answers with a value that was there during its call; insertions and removals are exact; no node is lost or freed twice; searches find the nearest key |
| **stream open** (`L` 16-265) | signature, sizes, all of the above | is_initialized, init, from_map, delete | an interrupted initialisation is repeated; the timestamps start from what is on the medium |
| **span** (`span.c`, `span.h`) | - | pack and unpack size and type, aligned sizes, atomic load and store of a header | the pieces come out as they went in; spans stay aligned to 8 bytes |
| **memory operations** (`pmemstream_runtime.h`, `common/util.h`, libpmem2) | CPU caches and the medium | store, flush, drain, persist; atomics | - |
| **data mover** (miniasync, not in the repository) | copies in flight | `vdm_memcpy`, polls | - |

Interaction. An application thread calls `pmemstream_async_append`. It makes sure
that the region has a runtime and is recovered (runtimes, recovery; the recovery uses
an entry iterator), reserves room (region log), acquires a timestamp and fills a slot
(pipeline), starts the copy (data mover), writes the headers (region log) and publishes
the timestamp (pipeline). It then polls a wait future. Whoever polls does the work: a
poll claims the next batch of timestamps, polls the copies, persists entries, and
advances the committed timestamp, or leaves its batch in `ready_timestamps` for the
owner of the batch before it. Iterators read the committed timestamp and the region, and
take part in recovery when they reach the end of a region. `pmemstream_from_map` runs
the allocator's recovery, marks the regions and starts from the persisted timestamp.

## 2. What is hard here

- *Interleavings.* Futures race on three timestamps without a lock. Their batches finish
  in any order and are handed over through a shared tree; values loaded at the start of
  a poll are used at its end.
- *Power failures.* Between any two stores; a store reaches the medium before, after
  or without an earlier one. Recovery can be interrupted and repeated, and timestamps
  above the persisted one are given out again.
- *Readers without locks*: entry iterators against the writer of the region and against
  recovery; `critnib_get` over nodes that leave the tree and come back as others.
- *Limits.* 1024 slots, `sem_trywait`, ENOMEM of the trees, a region filled exactly.
- *Reuse.* Slots, timestamps, regions, nodes of trees are used again, and each has readers
  that may still remember what it was.
- *Waiting.* A future makes progress only when it is polled, and may depend on others.

`PROJECT.json` lists each hazard at the line where it bites, with the properties that
would show it going wrong, and those that no property covers yet with the reason.

## 3. The modules

| module | models | role |
|---|---|---|
| `CommitSpec` | the promise of the pipeline | issue, make durable, commit in order, record as persisted |
| `CommitPipeline` | commit pipeline, wait futures | one action per access to shared memory |
| `CommitPipelineProofs` | - | theorems about `CommitPipeline`: types, persisted timestamps, batches, slots and refinement |
| `AllocatorSpec` | the promise of the allocator | every operation at once, no power failure visible |
| `RegionAllocator` | allocator, list macros, initialisation and recovery at open, region iterator | one action per store, drain and assert |
| `AllocatorListProofs`, `RegionAllocatorProofs` | - | theorems about `RegionAllocator`: what an access and a list operation do; the invariant, recovery, refinement, the iterator |
| `LogSpec` | the promise of the regions to a reader | commit in order; a power failure takes what was not persisted; a region that is freed is empty |
| `RegionLog` | append, publish, entry iterator, recovery of regions, map of runtimes, release of a region | one action per store or load of a header, or call of the map |
| `RegionLogProofs`, `RegionHistoryProofs`, `RegionLayoutProofs`, `RegionVisibleProofs` | - | theorems about `RegionLog`: runtimes and locks; operations and timestamps; the layout of entries; what readers see, and refinement |
| `CritnibSpec` | the promise of the critnib | a map; a get answers with a value that was current during the call |
| `Critnib` | the critnib | one action per store of a writer and per load of a get |
| `CritnibProofs` | - | theorems about `Critnib`: the tree and its walks, what each store of a call does, what a get may rely on; the invariant and refinement |
| `MCCommitPipeline`, `MCRegionAllocator`, `MCRegionLog`, `MCCritnib` | - | the instances for TLC |

The four systems meet at narrow interfaces, and each module replaces its neighbours by
what they promise: `RegionLog` has the pipeline as `ProcessOp`, `Commit` and
`RecordPersisted`, which is what `CommitSpec` allows and `CommitPipeline` is shown to
implement; `CommitPipeline` knows an entry only by its timestamp; both leave the list of
regions to `RegionAllocator`, which keeps of a region the two words the others depend
on (`max_valid_timestamp` and the first header); `RegionLog` allocates and frees a region in
one step, as `AllocatorSpec` does. Both trees of the library, the map of runtimes
and `ready_timestamps`, are critnibs: their insertions, removals and gets are single steps in
`RegionLog` and `CommitPipeline`. `CritnibSpec` promises as much: insertions and removals
take effect at once, and the answer of a get was current at some instant of the call, which
is where the single step is taken.

Names with an underscore (`Fits_NoHeader`) are *seeded faults*: variants of the definition
below them with a plausible bug. They are not part of any specification; `PROJECT.json`
says which property must fail when one takes the place of the original.

### CommitPipeline

A *client* is a thread with the one future it polls. `pc` is its place in the code, `loc`
its local variables, `fut` its future (`struct pmemstream_async_wait_data`).

| code | actions |
|---|---|
| `pmemstream_acquire_timestamp` | `TryWait`, `SlotWait`, `FetchAdd` |
| `pmemstream_async_publish_generic`, `pmemstream_publish_timestamp` | `AppendBegin`, `FillSlot`, `PublishTimestamp` |
| start and return of a wait | `WaitBegin`, `LoadCommitted`, `LoadPersisted`, `WaitReturns` |
| `pmemstream_acquire_timestamps_for_processing` | `LoadProcessing`, `CasProcessing` |
| `pmemstream_process_async_ops` | `Process` |
| `pmemstream_process_ready_timestamp_batches` | `PopReady` |
| `pmemstream_increase_committed_timestamp` | `ClearSlots` (debug builds), `AddCommitted`, `PostSlot` |
| `pmemstream_mark_timestamp_batch_as_committed` | `InsertReady`, `InsertFails`, `AwaitCommitted` |
| `pmemstream_async_wait_persisted_impl` | `CasHeader`, `PersistHeader`, `CasPersisted` |
| the data mover | `CopyDone` |

All shared accesses in this code are acquire/release atomics, semaphore calls or tree
operations under a mutex, and are modelled as sequentially consistent. The wait for a slot
inside `pmemstream_acquire_timestamp` is a third kind of future, because the code polls a
committed wait there. Waits are for timestamps that were acquired, as the documentation
presumes; the wait for a slot may be for one that was not (section 7). The clients are
interchangeable, and `pipeline_batches`, which checks no liveness, declares them symmetric.
Data left out: what an entry contains and where it lies. `durable` is the set of operations that were
persisted, `copying` those whose copy is on its way.

### RegionAllocator

The allocator is sequential: `pmemstream_region_allocate` and `_free` carry "XXX: lock".
An operation is the *sequence* of its accesses, computed in the memory it starts in (`Then`
joins the parts of a call), and `Step` executes one access. `cache` is what the CPUs see;
`medium` gives for every 8-byte word the set of values it may have after a power failure:
a store adds a value, a drain leaves the current one. `Crash` picks one value for each
word and empties `todo`; `Open` runs all of recovery, where the next `Crash` may come.
All regions have the size of the first one, which is a documented constraint (doc
`libpmemstream.7.md`:82). `allocated`, `free` and `used` are auxiliary: they record the
lists when the last call ended and never influence a step.

| code | definitions |
|---|---|
| list macros (`singly_linked_list.h`) | `InsertHead`, `InsertTail`, `RemoveHead`, `RemoveRegion`, `RuntimeInit`, `SlistInvariants` |
| `allocator_region_allocate`, `_free` | `Allocate` with `ExtendFreeList`, `HeadToAllocatedTail`; `Free` |
| `pmemstream_from_map` | `Open`: `IsInitialized`, `InitStream`, the recoveries, `MarkRegions` |
| `pmemstream_region_iterator_seek_first`, `_next`, `_is_valid` | `SeekFirst`, `IteratorNext` |
| the first append to a region | `Use` |

A stream begins with a file that is all zero or that held a stream of another block size,
full of regions in use (`OldStream`): then `pmemstream_is_initialized` refuses it and
`pmemstream_init` overwrites it. The signature is larger than what reaches the medium at
once, so it is two words, each whole (1) or not (0). It is cleared without a drain of its
own; what makes that safe is that a whole signature of the *old* stream can come back only
together with the old block size, or before anything else was stored, and the drain
of `allocator_initialize` lies between.

The region iterator walks the allocated list while regions are allocated and freed, also
the one it stands on: freeing leaves the link in the allocated list, so that the
iterator still finds its way. That is the documented loop over regions that frees some of them; the
application looks at the iterator again before it makes another call, since a region that
is allocated again goes to the end of the list and takes the iterator with it. Two auxiliary
fields follow an iteration: `met`, the regions it returned, and `stayed`, those that have been
allocated ever since it started, which are the ones it must not miss, repeat or reorder.

### RegionLog

A region is an array of cells, an entry a header cell (two words: `span`, `timestamp`) and
payload cells. `cellsMedium` is as `medium` above; the words of one header share a
cache line and reach the medium in the order of the stores, unless the cell is in
`SplitCells`. Payload cells look like the header of a valid entry: the most misleading
content an application can append.

| code | actions |
|---|---|
| `pmemstream_async_append`, `pmemstream_reserve` | `AppendBegin`, `Reserve` |
| `pmemstream_async_publish_generic` | `AcquireTimestamp`, `ClearNext`, `StoreTimestamp`, `StoreSpan`, `Publish` |
| `region_runtime_*_initialize_for_write_locked` and `_no_lock` | `Initialize`, `Lock`, `RecheckState`, `SetMaxValid`, `WriteReady` |
| `pmemstream_process_async_ops` (bytes that are persisted) | `ProcessOp` |
| `check_entry_consistency`, iterator `seek_first`, `is_valid`, `next` | `ReadBegin`, `LoadCommitted`, `LoadMaxValid`, `LoadSpan`, `LoadTimestamp` |
| `region_runtimes_map_get_or_create` (by an append and by an iterator) | `LookUp`, `Create`, `CreateFails` |
| `pmemstream_region_free` | `Free`, `RemoveRuntime` |
| `pmemstream_region_allocate` (what it leaves of the old content) | `Allocate` |
| `pmemstream_mark_regions_for_recovery` | `MarkRegion`, `Opened` |
| power failure and `pmemstream_from_map` | `Crash` |

A runtime is a pair of the thread that created it and its region, so that two threads that
both miss in the map create two of them, and the one that is refused with EEXIST must go on
with the other's. `pmemstream_region_runtime_initialize` and `pmemstream_region_usable_size`
do what an append does up to its bounds check, and coincide with an append that is
refused. A region is freed when no call on it is running and no operation is in flight, which
the application has to see to; it is not allocated again before its runtime left the map
(the lock that the comment at `L` 308 asks for).

Each region has one writer, which the documentation demands (doc 7.md:68). The search for
the tail under `region_lock` is one step: nobody else changes what it reads, since the
region's writer is either the searcher or waiting and the marks bound what is valid. `reserve`
followed by `publish` is the same sequence with the copy made by the application. What
happens after the header of a region was destroyed (section 7) is not followed.

### Critnib

`mem` holds the words a walk may read (root, `remove_count`, children, shift and path of nodes,
key and value of leaves), `pool` the lists of freed objects and those that rest for
`DELETED_LIFE` removals. A writer takes the mutex, and its call is the sequence of its stores,
computed from the memory nobody else changes (`Begin`), and executed one by one (`WriterStep`).

| code | definitions |
|---|---|
| `critnib_insert` | `CritnibInsert` with `InsertionPoint`, `CriticalShift`, `FillLeaf`, `FillNode` |
| `critnib_remove` | `CritnibRemove` with `LinkOf`, `Siblings`, `Expire`, `Rest` |
| `alloc_node`, `alloc_leaf`, `free_node`, `free_leaf` | `Alloc`, `Free`, `FreeSteps` |
| `critnib_get` | `GetBegin`, `LoadCount`, `LoadRoot`, `LoadChild`, `LoadKey`, `LoadValue`, `Recheck`, `GetReturns` |
| `critnib_find`, `find_le`, `find_ge` | `Find`, `FindLe`, `FindGe` |
| `critnib_iter`, `critnib_delete` | `Iter`, `DeleteFrees` |

A freed object is linked through a word that a stalled walk may still read: `child[0]` of a
node, `value` of a leaf. These links are words of `mem`, so a walk follows them as the
code does. `malloc` may fail at any call, after the leaf and before the node too. A new node is
filled in one step: a walk meets it before it is linked only when it has been stale
for long. The shift of a node is read in one step with the child it picks, for the same
reason. `update = 1` is left out: nobody calls it.

The queries are operators, evaluated on every tree that nobody is changing: `critnib_iter`
holds the mutex, and `critnib_find` is part of the component though the library does not
call it. `critnib_iter` prunes a node when `path | path_mask(shift) < min`, where one
expects the largest key below the node; with `min` above 0 it may pass over keys. The library
calls it with 0 only, and that is what `QueriesAreRight` states.

## 4. The runs

| run | bounds | states | what it shows |
|---|---|---|---|
| `pipeline_waits` | 2 clients, 2 slots, 3 appends, batch 1, both kinds of wait, persisted timestamp 1 at open | 142k | `TypeOK`; `PersistedBehindCommitted`; `SlotIsFree`; `CompletedWaitHolds`; `CodeAsserts`; `TimestampsNeverDecrease`; `WaitEnds` |
| `pipeline_batches` | 2 clients, 4 slots, 6 appends, batch 2, NDEBUG, ENOMEM possible | 252k | `BatchesAreDisjoint`, `NoTimestampIsLost`, `CommittedIsDurable`, `SlotIsFree`; refinement of `CommitSpec` |
| `pipeline_slot_wait` | 2 clients, 2 slots, 3 appends | - | violation of `SlotWaitEnds` |
| `pipeline_no_memory_deadlock` | 2 clients, 4 slots, 4 appends, ENOMEM | - | violation of `MarkReturns` |
| `allocator_crashes` | 3 regions, 5 calls, 2 power failures, a new file or an older stream | 610k | `TypeOK`; `InitializationIsWhole`; `EachRegionInOneList`, `SlistAsserts`, `NewRegionIsEmpty`; `IterationIsComplete`; `OpenMarksRegions`; refinement of `AllocatorSpec` |
| `allocator_extension` | 3 calls, 1 power failure, also inside the extension | - | violation of `FreeOffsetBehindLists` |
| `log_crashes` | 2 regions of 5 cells, 3 appends of size 1, 1 release, 2 power failures | 559k | `TypeOK`; refinement of `LogSpec` |
| `log_iterator` | 1 region of 5 cells, 3 appends of sizes 1 and 2, 1 iteration, 1 release, 2 power failures | 1.43M | `VisibleIsCommittedLog`, `IteratorSeesLog`, `AppendOffsetIsTail`, `OneRuntimePerRegion` |
| `log_exact_fill` | 2 regions of 4 cells, 2 appends | - | violation of `RegionHeadersIntact` |
| `log_split_header` | 1 region, cell 2 split, 3 appends, 2 power failures | - | violation of `AppendIsAtomic` |
| `critnib_stale_walks` | 1 writer, 1 reader, 4 keys of 2 digits, 3 children, 3 insertions, 3 removals, `DELETED_LIFE` 2, ENOMEM possible | 1.46M | `CritnibTypeOK`, `OperationsAreExact`, `ObjectsHaveOnePlace`, `QueriesAreRight`; refinement of `CritnibSpec` |
| `critnib_walk` | 3 keys, 2 children, 3 insertions, 3 removals, `DELETED_LIFE` 1 | - | violation of `GetEnds` |

Why the bounds are enough for the cases that matter:

- *Pipeline.* A batch of k timestamps can be left in `ready_timestamps` only when there are
  k + 2 slots: its owner is at work on it, one timestamp before it is not committed, and
  one more has to be handed out for the claim. Hence two clients, batches of two and
  four slots: a batch at the head, one that is left behind it and popped by the other
  client, and an insertion that fails. Six appends make the ring wrap, and without the
  asserts' clearing the slots hold old timestamps. `pipeline_waits` has the debug build, both
  kinds of wait and liveness. Three racing waits would be needed for a third value
  in the compare-and-swaps; the theorems of section 6 cover any number.
- *Allocator.* Three regions give a list with a head, a middle and a tail, hence every
  branch of every list macro. Two power failures are one during a call and one
  during its recovery or its initialisation, and five calls fill, empty and fill again.
- *Log.* Two power failures give three lives of the stream: entries of the first are
  still there when the third gives out their timestamps again. Entries of two sizes let the
  header of a new life fall on a payload of an old one. Two regions let one stay
  unrecovered while the persisted timestamp grows through the other. One release is enough
  for a region to come back with what its first life left, before and after a power
  failure.
- *Critnib.* Two nodes and three leaves make a tree of two levels, whose collapse has a
  grandparent; three children of a node make the difference between a node that collapses and
  one that does not; with three removals and a life of 2 (16 in the code) a node that a
  walk stands on rests, goes to the pool and is used again for other keys at another level.
  Each key has its own value, so an answer put together from two lives of a leaf is a wrong one.
  One writer at a time has the mutex; a second one would only change who makes the calls.

Bounds in the modules: `MaxAppends`, `WaitKinds` (pipeline); `MaxOperations`, `MaxCrashes`
(allocator); `Sizes`, `MaxAppends`, `MaxReads`, `MaxFrees`, `MaxCrashes` (log); `Keys`,
`Values`, `LookedUp`, `MaxNodes`, `MaxLeaves`, `MaxInserts`, `MaxRemoves` (critnib). Deadlock is checked in the
pipeline runs; in the others the bounded calls run out and `CHECK_DEADLOCK FALSE` says so.
`CrashInExtension = FALSE` in `allocator_crashes` excludes exactly the window that
`allocator_extension` shows, to check everything else beyond it.

The properties in words, at the definitions: each has its comment in its module.

## 5. Fairness

`FairSpec` of `CommitPipeline` assumes

- weak fairness of every client's started call, `Append(c) \/ Poll(c)`: threads are
  scheduled, and a future is polled to completion, which the documentation demands of
  the application (doc 7.md:158-166). A thread that leaves a future unpolled is outside
  this assumption, and other waits may depend on its batch;
- weak fairness of `CopyDone(n)` for every copy in flight: the data mover finishes.

Starting an append or a wait is never assumed. `WaitEnds` holds under these assumptions,
and the two liveness findings fail under them, so neither is a matter of scheduling.

`CritnibFairSpec` of `Critnib` assumes weak fairness of the call that holds the mutex and of
every get that was started: threads are scheduled. No call is assumed to start. `GetEnds`
fails under it, with a writer that has finished: it is not the writers that keep the get busy.

The allocator and the log have no liveness property: their operations contain no wait other
than `region_lock`.

## 6. What is proved

Every theorem holds for all values of the constants: any number of clients, slots, regions,
cells, sizes, and any bounds on calls, appends, reads, releases and power failures. The assumptions
on the constants (`PipelineAssumption`, `AllocatorAssumption`, `LogAssumption`,
`CritnibAssumption`) say no more than that they are numbers and sets of the right kind, and
`ValuesAssumption` that no value stored in a critnib is NULL; TLC evaluates them in the runs. Each module of proofs EXTENDS
the one before it, since each invariant is inductive only together with the earlier ones.

### The pipeline

| module | theorem | statement |
|---|---|---|
| `CommitPipelineProofs` | `TypeCorrect` | `[]TypeOK` |
| | `CompletedWaitsHold` | `[]CompletedWaitHolds`: a completed wait's timestamp is committed, for a persisted wait also recorded on the medium |
| | `PersistedNeverAhead` | `[]TimestampsOrdered`: persisted (DRAM) <= header on the medium <= header in the caches <= committed |
| | `TimestampsGrow` | `TimestampsNeverDecrease` |
| | `SecondCasAlwaysSucceeds` | the second compare-and-swap of a persisted wait never fails |
| | `BatchInvariant` | the batches tile the timestamps from the committed to the processing one |
| | `BatchesNeverOverlap`, `NothingIsLost` | `[]BatchesAreDisjoint`, `[]NoTimestampIsLost` |
| | `CommitIsExclusive` | one client at a time is about to add to the committed timestamp |
| | `AssertsHold` | `[]CodeAsserts` |
| | `PipelineInvariant` | the conjunction of all invariants of the pipeline |
| | `SlotsAreFree`, `CommittedAlwaysDurable`, `PersistedStaysBehind` | `[]SlotIsFree`, `[]CommittedIsDurable`, `[]PersistedBehindCommitted` |
| | `PipelineRefines` | `Spec => ImplementsCommitSpec` |

- *Types.* `TypeOK` is not inductive: with unsigned arithmetic `processing - first` is a number
  only while `first <= processing <= last`. `TypeInv` adds `WellFormed`: that order for every
  future, that a loaded processing timestamp lies below the one waited for at the
  compare-and-swap, and that a client about to add has the batch size as its operand.
- *Persisted timestamps.* A compare-and-swap that succeeds proves only that a value has not
  changed, not that the new one is larger and covered. `PersistInv` adds for every client what
  its earlier steps established (`PersistFacts`). These facts bound growing timestamps from
  below, so steps of other clients keep them, for any number of racing waits.
  `HeaderInv` then says that between its two compare-and-swaps a client keeps
  everybody else from getting through the first, so the alternative that the code's assert
  allows for the second cannot happen.
- *Batches.* No property of batches is inductive alone: that two batches are disjoint is known
  only because each was cut off at the processing timestamp. `BatchInv` says that the batches
  that clients own, the one that was popped and those in `ready_timestamps` tile the interval
  from `committed` to `processing` (`Tiling`), and that whoever is in
  `pmemstream_increase_committed_timestamp` holds the tile that begins at `committed`. One lemma
  for each of the ways a tile is made, handed over or used up keeps it. The plain atomic add
  and the clearing of slots need no lock because there is one first tile.
- *Slots.* `CountInv` counts: the semaphore, the clients between `sem_trywait` and their
  timestamp, the posts still to be made and the timestamps not committed add up to the number
  of slots. Hence the timestamps not committed lie less than a ring apart and
  never share a slot (`SlotInv`). `DurableInv` follows durability from the slot a poll looks at
  to the batch that is handed over. With them each action maps to one of `CommitSpec` or to a
  stutter.

### The region allocator

| module | theorem | statement |
|---|---|---|
| `RegionAllocatorProofs` | `AllocatorInvariant` | the inductive invariant of the allocator, its recovery and the initialisation |
| | `AllocatorTypes` | `[]TypeOK` |
| | `HeaderIsWhole` | `[]InitializationIsWhole`: a signature that is found after power failures has a whole header behind it |
| | `RegionsAreListedOnce` | `[]EachRegionInOneList` |
| | `ListAssertsHold` | `[]SlistAsserts`, in the calls and in recovery |
| | `AllocatedRegionsAreEmpty` | `[]NewRegionIsEmpty` |
| | `OpeningMarks` | `OpenMarksRegions` |
| | `AllocatorImplementsSpec` | `Spec => ImplementsAllocatorSpec`: every call is atomic with respect to power failures |
| | `IterationsAreComplete` | `[]IterationIsComplete` |

All of them hold for a stream of any number of regions, any number of calls and any number of
power failures, also in the middle of a recovery. They assume `~CrashInExtension`: no power
failure falls between the two stores of `perform_free_list_extension`. The assumption
is needed, since `allocator_extension` shows that the recovery misses that window (section 7);
`allocator_crashes` makes it too.

The argument goes from a single store to a whole call.

- *Accesses* (`AllocatorListProofs`, first part). `Access` is one store, drain or assert, `Reach`
  a sequence of accesses that stays in a set of states and passes its asserts; `ReachJoin`
  puts the parts of a call together as `Then` does. `Images` are the memories a power failure
  may leave; `StoreImages` says that a store adds to them those with the new word, so a set of
  states that is safe from power failures is kept by looking at one word at a time. The chain that
  a list starts with (`ChainFrom`) is walked with the well-founded order of the regions
  that are still ahead, and `ChainIs` says that a list which links a sequence of regions is that
  sequence.
- *Lists* (second part). `Linked(c, l, S)` says that the links of list l lead through S, `Exact`
  that head and tail fit as well, `Tight` and `Stale` that one of the two is out of date, as a power
  failure may leave it. For each macro one lemma says what it makes of a list and in which of these shapes a
  power failure finds it between two of its stores, and `RuntimeInit` brings each of them back to
  `Exact`. This is where the order of the stores in `singly_linked_list.h` matters.
- *Calls* (`RegionAllocatorProofs`). A memory is in `Recoverable(G, u)` when its lists have one of
  these shapes and its recovery leads to one of the lists in G. Every state inside `Allocate`, `Free`
  and the extension is recoverable to the lists before or after the call; a region in both
  lists is one that was being allocated, one named by `recovery_free_offset` was being freed. Every
  state inside a recovery is recoverable to the *same* lists, so that any number of
  failures during recovery do no harm.
- *Initialisation.* `Whole` are the memories in which the signature is not valid, or the header is
  that of a new stream; it is safe at every store of `pmemstream_init` because of the drain that
  lies between clearing the signature and writing it, with the block size of the old stream still
  different where its signature may come back.
- *The invariant* `IInv`. `Restart`: after a power failure the memory is recoverable to one of
  the `Outcomes` of the lists at the end of the last call; these are the steps of
  `AllocatorSpec`. `Underway`: the accesses still to be made lead to a state that ends in an
  outcome, through states that are safe (`Home`). `AtRest`: between calls the lists are exactly
  what `allocated` and `free` record. A step of `Spec` is then one access along a path
  that is known to exist, so the invariant is kept by all accesses for one reason, and
  the work is in the start of a call and of an opening.
- *The iterator* (`Iterates`, inductive together with `IInv`). There is a place p in the allocated
  list such that of the regions that stayed exactly those up to p were met, in the order of the
  list, and the iterator stands at p, or on a freed region whose link leads to the region behind
  p. A call that ends removes a region, appends one, or does nothing (`ReturnList`), and keeps the
  order of those that stayed; the link in the freed region is what `Free` must not touch.

### The region log

| module | theorem | statement |
|---|---|---|
| `RegionLogProofs` | `RuntimeInvariant` | types; the map of runtimes, their states, locks and users fit together |
| | `OneRuntime` | `[]OneRuntimePerRegion` |
| | `RecoveryIsExclusive` | two threads are never inside the recovery of one region |
| `RegionHistoryProofs` | `HistoryInvariant` | operations in flight, logs, timestamps and marks fit together |
| | `OperationsAreTheUncommitted` | an entry is uncommitted exactly as long as one operation for it is in flight |
| | `MarksHideNoEntry` | `max_valid_timestamp` never hides a committed entry |
| `RegionVisibleProofs` | `LayoutInvariant` | the inductive invariant of the log, with the layout of `RegionLayoutProofs` |
| | `VisibleIsTheCommittedLog` | `[]VisibleIsCommittedLog` |
| | `AppendOffsetIsTheTail` | `[]AppendOffsetIsTail` |
| | `IteratorSeesTheLog` | `[]IteratorSeesLog` |
| | `RegionsRefineLog` | `Spec => ImplementsLogSpec` |
| | `LogTypesHold` | `[]TypeOK` |

`RegionLayoutProofs` and `RegionVisibleProofs` assume `SplitCells = {}`: no header straddles two cache lines. The
assumption is needed, since `log_split_header` shows that an entry which was never committed
becomes visible without it (section 7); the runs that check these properties make it too. The
first two modules do not need it, nor does anything there depend on where an entry lies.

The invariant grows in four layers.

- *Runtimes and locks* (`RuntimeIInv`). Which runtime a thread holds, that it is the one in the
  map, that `region_lock` is held from the second check of the state to the end of the recovery,
  and that whoever appends found the region ready. Here also is what the recursive
  definitions return: `ScanFrom` and `TailFrom` unfold a walk over a region by one step,
  and `OutcomesSound` says that a power failure leaves one of the possible values
  in each word.
- *History* (`HistoryIInv`). `Counted` bounds the timestamps by the appends. `History` ties each
  operation in flight to one entry of a log and back, with growing timestamps, also when a power
  failure gives timestamps out again. `Marked` says of `max_valid_timestamp`, in the
  caches and for every value it may have on the medium, that it hides no entry, that a
  region which is not yet recovered holds only committed entries, and that a region that is
  ready has UINT64_MAX on the medium and nothing else.
- *Layout* (`Layout` in `LayoutIInv`). `Tiled`: entries follow each other without a gap.
  `Written`: what is published has its header, what is copied its payload, and what is durable
  is on the medium and nothing else. `Stores`: how far the writer is with its header.
  `Headed`: a header that is not complete is empty or has its own timestamp, on the medium too
  as soon as the entry before it is durable. `Ended`: what lies behind the last entry is empty
  or has a timestamp above the bound that readers use. The last two are the heart: they explain why
  one cleared word and two ordered stores are enough, why `pmemstream_process_async_ops` has to
  persist the header behind the entry, and what `max_valid_timestamp` is for when the same
  timestamps are given out again.
- *Readers* (`Appends`, `Recovers`, `Reads`). The append offset is the tail; a recovery that is
  under way has found it and cleared the span there; an iterator stands behind what it returned,
  and a span it loaded is that of the next entry unless the timestamp it is going to load
  is too large. From these, `ScanIs` and `TailIs` compute what a walk over the region returns.

For the refinement `Upto(log[r], committed)` is what a walk shows (`ShowsCommitted`), so an
action maps to `LogSpec` by what it does to the logs and to the committed timestamp: `Commit` adds
the one entry with the next timestamp, `Free` takes a region away, `Crash` cuts every log at the
persisted timestamp, and every other action, all the stores and recoveries, is a stutter.
`LogTypesHold` comes last because that an append offset stays in its region rests on the tail
that a recovery finds.

### The critnib

| module | theorem | statement |
|---|---|---|
| `CritnibProofs` | `CritnibInvariant` | the tree, the pools, what rests, the stores still to be made and the gets fit together |
| | `CritnibTypes` | `[]CritnibTypeOK` |
| | `CritnibOperationsAreExact` | `[]OperationsAreExact` |
| | `CritnibImplementsSpec` | `CritnibFairSpec => ImplementsCritnibSpec`: a get answers with a value that was current during its call |

They hold for any fanout, number of digits, keys, values, nodes, leaves, `DELETED_LIFE`, readers,
writers and calls, with malloc failing at any call.

- *Keys.* `PowerFacts`, `DivFacts` and `TopFacts` give the arithmetic of nibbles; `SameAbove` says
  that keys which agree above a nibble have all higher nibbles in common, `CriticalShiftFacts`
  that two different keys have a topmost nibble in which they differ.
- *Walks.* `EndOfWalk`, `InsertionPoint` and `LinkOf` follow links through a memory in which a
  walk might go in circles. `WalkExists` shows that such a function exists whatever the
  links are, and `WalkFacts` gives its equation; nothing about a particular memory is needed for that.
- *The tree.* `Tree(m, N, K)`: the nodes N and the leaves K are linked once each, and what hangs
  below a node has its path and its nibble there (`Fits`). `Route` are the links a key may be found
  at; `WalkComes` shows by induction on the shift that a walk comes to each of them that matches
  its key, so that `Content` is the keys and values of K (`LookupFacts`), and `SameContent`,
  `LeafAdded` and `LeafTaken` say what a change of the tree means.
- *Stores.* A `View` is the memory with its tree and the age of what rests; `Moves(v, s, w)`
  says that the store s leads from one good view to another which keeps the words of what was
  in the tree or rests, until `DELETED_LIFE` removals have been counted. One lemma for each kind of
  store a call makes: into an object nobody reads, the count of removals, the link of a leaf, of
  a new node, of an unlinked leaf, of a collapsed node. `InsertLands` and `RemoveLands`
  put the stores of a call together (`Runs`): they lead to a view whose content is what the call
  reports (`Exact`) and whose pools are in order (`PoolOk`). The facts about the pools,
  `Chained` and `Resting`, say that no object is in two places, so that what `Alloc` returns is read by nobody
  who is not late.
- *Gets.* `GetOk(g, v)`: as long as fewer than `DELETED_LIFE` removals were counted since g
  started, g stands in the tree or in the set F of what left the tree meanwhile and is still as it was,
  and from there its walk ends at a value that was current (`Fine`). `GetKeeps` shows that each
  store of a writer keeps that, `GetChild` and its neighbours that each load does; `Recheck`
  lets no other get answer. This is why a get may walk over nodes that are unlinked under it,
  why the grace period is counted in removals, and why a collapse must not touch the node
  it takes out.

A writer's store shows as an insertion, a removal or nothing (`ShowWriterStep`), and the recheck of a
get as its answer (`ShowRecheck`).

### Only model-checked

- `ObjectsHaveOnePlace` and `QueriesAreRight` of `Critnib`: what `critnib_delete`, `critnib_find`
  and `critnib_iter` compute is defined by recursion over subtrees with folds over their children,
  and that they visit everything is an induction over data. That an object is not in two
  places is part of `CritnibInvariant`; that none is lost is checked by TLC only.
- Liveness (`WaitEnds`, `GetEnds`, `SlotWaitEnds`, `MarkReturns`), which needs ENABLED.

## 7. Where code and documentation disagree

Each of these is a run that TLC ends with a counterexample.

1. `pipeline_slot_wait` (`L` 453-458). After `sem_trywait` failed, the thread reads the
   committed timestamp and waits for the next one, without looking at the semaphore again.
   When all outstanding operations are committed in between, that timestamp belongs to no
   entry, and the thread spins although all slots are free, until somebody else appends.
   The documentation says it has to wait for some of the previous operations.
2. `pipeline_no_memory_deadlock` (`L` 750-758). A batch owner that got ENOMEM waits until the
   batch before it is committed. When that batch is in `ready_timestamps`, only the owner
   of a batch would pop it, and the wait is meant "to avoid deadlocks".
3. `allocator_extension` (`region_allocator.c` 7-27). After a power failure between the
   insertion of a new region and the update of `free_offset` the list head *equals*
   `free_offset`, and the recovery tests `head > free_offset`. The region is in a list
   and behind `free_offset`, against the comment at `allocator_base.h`:18.
4. `log_exact_fill` (`L` 603-606, `region.c` 214-216). An entry may end exactly at the end
   of its region; clearing the header behind it then clears the header of the next region.
5. `log_split_header` (`span.c` 54-59). Headers are aligned to 8 bytes and have 16, so a
   header may lie in two cache lines, and the order of its stores is not the order in which
   they become durable. With an old, valid timestamp behind the new size, an uncommitted
   entry is visible after a restart.
6. `critnib_walk` (`critnib/critnib.c` 511-520). `critnib_get` reads `remove_count` again only
   after its walk, and the comment at line 228 relies on the walk to end. `free_node`
   overwrites `child[0]` with the link of the pool: when a node A goes to the pool and after
   it B, which A still has as a child, then B's `child[0]` is A. A get that stalled on one of
   them, and whose key selects `child[0]` of B, goes round between the two until one is used
   again. Every get that does end is right (`CritnibImplementsSpec`).

## 8. What is not modelled

- *Opening and closing* beyond the persistent state: the checks of the
  parameters in `pmemstream_validate_sizes`, prefaulting, the error
  paths of `pmemstream_from_map` (they release memory, or forget to), `pmemstream_delete`.
- *Freeing or allocating regions concurrently*, and between the two halves of
  `pmemstream_region_free`: the code asks for a lock it does not have, and nothing says
  what should hold.
- *Searches in a critnib that changes* (`critnib_find` while others insert and remove):
  nobody calls it.
- *Packing of size and type in one word, alignment of sizes*: in the plan. A size is
  a number of cells in `RegionLog`.
- *Two writers in one region*, a second reserve before publish: forbidden by the doc and
  by the comment in `include/libpmemstream.h`:128.
- *Weak memory*: release/acquire atomics are taken as sequentially consistent.
- *Overflow of 64-bit timestamps and offsets*: they would take centuries of appends.
- Build files, tests, examples, benchmarks and scripts: no logic of the library.

## 9. Plan

Done: all modules of section 3; every safety invariant, action property and refinement that a
run checks of the pipeline, of the region allocator and of the region log is proved, and so are
types, exactness and refinement of the critnib. What is left:

1. Proofs that the critnib loses no object and that its queries are right, by induction over the tree.
2. `Span`: packing, alignment and total sizes as operators with lemmas, used by the bounds
   check of `pmemstream_reserve`.
3. `perform_free_list_extension` with the test that would make `CrashInExtension` superfluous in
   the theorems of `RegionAllocatorProofs`, once the library has it.

----------------------------- MODULE RegionLog -----------------------------
(***************************************************************************)
(* The content of regions: how an append lays an entry down in persistent  *)
(* memory, how an iterator reads it back, and how a region is recovered    *)
(* after a power failure (src/src/libpmemstream.c, region.c, iterator.c,   *)
(* span.c).                                                                *)
(*                                                                         *)
(* A region is an array of cells.  An entry of size s is a header cell     *)
(* (span: its size and type; timestamp) and s payload cells.  Each region  *)
(* has one writer: the doc forbids concurrent appends to a region.  The    *)
(* writer also frees its region, when nobody uses it, and may get it again *)
(* from the allocator.  What DRAM keeps of a region is its runtime; the    *)
(* first thread that needs it creates it and puts it into a map, the       *)
(* critnib of module Critnib, whose operations are single steps here.      *)
(*                                                                         *)
(* Persistence: the two words of a header lie in one cache line and reach  *)
(* the medium in the order they were stored, unless the cell is in         *)
(* SplitCells (the header straddles two lines); different cells reach it   *)
(* in any order until they are persisted.  The payload of every entry      *)
(* looks like the header of a valid entry, the worst content there is.     *)
(*                                                                         *)
(* Abstracted: the commit pipeline (CommitPipeline) is what CommitSpec     *)
(* says: a published operation whose copy is complete is persisted in any  *)
(* order and committed in the order of timestamps.                         *)
(*                                                                         *)
(* A definition with an underscore in its name is a seeded fault.          *)
(***************************************************************************)
EXTENDS Naturals, Sequences, FiniteSets, SequencesExt

CONSTANTS
  Regions,     \* 0 .. n, in the order they lie in the stream
  Reader,      \* the thread of the iterator
  Nobody,      \* the holder of a lock nobody holds
  Capacity,    \* cells of a region
  Sizes,       \* bound: sizes of the entries, in cells
  SplitCells,  \* cells whose header would straddle two cache lines
  MaxAppends,  \* bound: appends
  MaxReads,    \* bound: iterations
  MaxFrees,    \* bound: releases of regions
  MaxCrashes   \* bound: power failures

ASSUME LogAssumption ==
  /\ IsFiniteSet(Regions) /\ Regions = 0 .. Cardinality(Regions) - 1
  /\ {Reader, Nobody} \intersect Regions = {} /\ Reader # Nobody
  /\ Nobody \notin (Regions \union {Reader}) \X Regions
  /\ Capacity \in Nat \ {0}
  /\ Sizes \subseteq 1 .. Capacity
  /\ SplitCells \subseteq 0 .. Capacity - 1
  /\ MaxAppends \in Nat /\ MaxReads \in Nat /\ MaxFrees \in Nat /\ MaxCrashes \in Nat

VARIABLES
  cells,       \* [span, timestamp, payload] of each cell, as the CPUs see it
  maxValid,    \* span_region.max_valid_timestamp of each region
  isRegion,    \* the header of the region itself still says SPAN_REGION
  cellsMedium, maxValidMedium, \* the values that may be on the medium
  allocated,   \* the regions in the allocated list (RegionAllocator)
  next, committed, persisted,  \* the timestamps of the stream
  ops,         \* the operations in flight
  runtimeOf,   \* region_runtimes_map.container
  state,       \* region_runtime.state
  appendOffset, lock,          \* region_runtime.append_offset, region_lock
  phase,       \* "opening" (pmemstream_from_map) or "running"
  pc, loc,     \* of the writers and of the reader
  log,         \* auxiliary: what was appended to each region
  appends, reads, frees, crashes \* counters, bounded

memory == <<cells, maxValid, isRegion, cellsMedium, maxValidMedium, allocated>>
timestamps == <<next, committed, persisted, ops>>
runtime == <<runtimeOf, state, appendOffset, lock>>
counters == <<appends, reads, frees, crashes>>
vars == <<memory, timestamps, runtime, phase, pc, loc, log, counters>>

-----------------------------------------------------------------------------
Actors == Regions \union {Reader}
Places == Regions \X (0 .. Capacity - 1)
Forever == MaxAppends + 1     \* UINT64_MAX
Empty == 0                    \* SPAN_EMPTY; a positive span is an entry of that size
NoOffset == 2 * Capacity + 1  \* PMEMSTREAM_INVALID_OFFSET

\* The runtime object an actor created for a region.
Runtimes == Actors \X Regions

NoLocals == [region |-> 0, runtime |-> Nobody, offset |-> 0, size |-> 0, timestamp |-> 0,
             valid |-> 0, seen |-> << >>]

Goto(a, label) == pc' = [pc EXCEPT ![a] = label]

NoCell == [span |-> Empty, timestamp |-> 0, payload |-> 0]

\* The bytes of append a, which read as the header of an entry with timestamp 1.
PayloadCell(a) == [span |-> 1, timestamp |-> 1, payload |-> a]

\* What may be on the medium at a place once c was stored there.
Stored(p, c) ==
  IF p[2] \in SplitCells
  THEN [span : {v.span : v \in cellsMedium[p] \union {c}},
        timestamp : {v.timestamp : v \in cellsMedium[p] \union {c}},
        payload : {v.payload : v \in cellsMedium[p] \union {c}}]
  ELSE cellsMedium[p] \union {c}

StoreCell(p, c) ==
  /\ cells' = [cells EXCEPT ![p] = c]
  /\ cellsMedium' = [cellsMedium EXCEPT ![p] = Stored(p, c)]

\* span_base_atomic_store of an empty span: one word is cleared.  Behind the last
\* cell that word belongs to the header of the next region.
ClearSpan(r, i) ==
  IF i < Capacity
  THEN StoreCell(<<r, i>>, [cells[<<r, i>>] EXCEPT !.span = Empty]) /\ UNCHANGED isRegion
  ELSE /\ isRegion' = [q \in Regions |-> isRegion[q] /\ q # r + 1]
       /\ UNCHANGED <<cells, cellsMedium>>

Smaller(a, b) == IF a < b THEN a ELSE b

\* check_entry_consistency
IsValid(c, valid) == c.span # Empty /\ c.timestamp # 0 /\ c.timestamp <= valid
ValidAt(r, i) == i < Capacity /\ IsValid(cells[<<r, i>>], Smaller(committed, maxValid[r]))

EntryAt(r, i) ==
  [timestamp |-> cells[<<r, i>>].timestamp, offset |-> i,
   payload |-> [k \in 1 .. cells[<<r, i>>].span |->
                  IF i + k < Capacity THEN cells[<<r, i + k>>].payload ELSE 0]]

\* What an iteration over the whole region returns, and where it ends.
Scan(r) ==
  LET from[i \in 0 .. 2 * Capacity] ==
        IF ValidAt(r, i) THEN <<EntryAt(r, i)>> \o from[i + 1 + cells[<<r, i>>].span] ELSE << >>
  IN  from[0]
TailOf(r) ==
  LET from[i \in 0 .. 2 * Capacity] ==
        IF ValidAt(r, i) THEN from[i + 1 + cells[<<r, i>>].span] ELSE i
  IN  from[0]

-----------------------------------------------------------------------------
\* A new stream whose regions were just allocated: their first header is zero.
Init ==
  /\ cells = [p \in Places |-> NoCell]
  /\ cellsMedium = [p \in Places |-> {cells[p]}]
  /\ maxValid = [r \in Regions |-> Forever]
  /\ maxValidMedium = [r \in Regions |-> {Forever}]
  /\ isRegion = [r \in Regions |-> TRUE]
  /\ next = 1 /\ committed = 0 /\ persisted = 0
  /\ ops = {}
  /\ allocated = Regions
  /\ runtimeOf = [r \in Regions |-> Nobody]
  /\ state = [o \in Runtimes |-> "none"]
  /\ appendOffset = [o \in Runtimes |-> NoOffset]
  /\ lock = [o \in Runtimes |-> Nobody]
  /\ phase = "running"
  /\ pc = [a \in Actors |-> "idle"]
  /\ loc = [a \in Actors |-> NoLocals]
  /\ log = [r \in Regions |-> << >>]
  /\ appends = 0 /\ reads = 0 /\ frees = 0 /\ crashes = 0

-----------------------------------------------------------------------------
(* region_runtimes_map_get_or_create                                       *)

\* An append goes on to recovery, an iterator to its first entry.
HaveRuntime(a, o) ==
  /\ loc' = [loc EXCEPT ![a].runtime = o]
  /\ Goto(a, IF a = Reader THEN "load_committed" ELSE "initialize")

LookUp(a) ==
  /\ pc[a] = "look_up"
  /\ \/ runtimeOf[loc[a].region] # Nobody /\ HaveRuntime(a, runtimeOf[loc[a].region])
     \/ runtimeOf[loc[a].region] = Nobody /\ Goto(a, "create") /\ UNCHANGED loc
  /\ UNCHANGED <<memory, timestamps, runtime, phase, log, counters>>

\* The insertion fails with EEXIST when somebody else was faster: then the runtime
\* just created is freed and the other one is taken.
Create_KeepsOwn(a) ==
  /\ pc[a] = "create"
  /\ LET o == <<a, loc[a].region>>
     IN  /\ runtimeOf' = [runtimeOf EXCEPT ![loc[a].region] = IF @ = Nobody THEN o ELSE @]
         /\ state' = [state EXCEPT ![o] = "read_ready"]
         /\ HaveRuntime(a, o)
  /\ UNCHANGED <<memory, timestamps, appendOffset, lock, phase, log, counters>>
Create(a) ==
  /\ pc[a] = "create"
  /\ LET o == <<a, loc[a].region>>
     IN  \/ /\ runtimeOf[loc[a].region] = Nobody
            /\ runtimeOf' = [runtimeOf EXCEPT ![loc[a].region] = o]
            /\ state' = [state EXCEPT ![o] = "read_ready"]
            /\ HaveRuntime(a, o)
         \/ /\ runtimeOf[loc[a].region] # Nobody
            /\ HaveRuntime(a, runtimeOf[loc[a].region])
            /\ UNCHANGED <<runtimeOf, state>>
  /\ UNCHANGED <<memory, timestamps, appendOffset, lock, phase, log, counters>>

\* calloc or the insertion runs out of memory: the call returns the error.
CreateFails(a) ==
  /\ pc[a] = "create"
  /\ loc' = [loc EXCEPT ![a] = NoLocals]
  /\ Goto(a, "idle")
  /\ UNCHANGED <<memory, timestamps, runtime, phase, log, counters>>

GetOrCreate(a) == LookUp(a) \/ Create(a) \/ CreateFails(a)

-----------------------------------------------------------------------------
(* Recovery of a region before its first use for writing                   *)

\* A writer goes on with its append; an iterator is at its end, where it may look
\* again (is_valid), unless it is still before its first entry (seek_first).
AfterRecovery(a) ==
  \/ a # Reader /\ Goto(a, "reserve") /\ UNCHANGED loc
  \/ a = Reader /\ Goto(a, "idle") /\ loc' = [loc EXCEPT ![a] = NoLocals]
  \/ a = Reader /\ loc[a].offset # 0 /\ Goto(a, "load_committed") /\ UNCHANGED loc

\* The state is checked before region_lock is taken and, below, again with it.
Initialize(a) ==
  /\ pc[a] = "initialize"
  /\ \/ state[loc[a].runtime] = "write_ready" /\ AfterRecovery(a)
     \/ state[loc[a].runtime] = "read_ready" /\ Goto(a, "lock") /\ UNCHANGED loc
  /\ UNCHANGED <<memory, timestamps, runtime, phase, log, counters>>

Lock(a) ==
  /\ pc[a] = "lock"
  /\ lock[loc[a].runtime] = Nobody
  /\ lock' = [lock EXCEPT ![loc[a].runtime] = a]
  /\ Goto(a, "recheck")
  /\ UNCHANGED <<memory, timestamps, runtimeOf, state, appendOffset, phase, loc, log, counters>>

\* A writer looks for the tail now, an iterator brings the one it found.
RecheckState_Missing(a) ==
  /\ pc[a] = "recheck"
  /\ LET r == loc[a].region
         o == loc[a].runtime
         tail == IF a = Reader THEN loc[a].offset ELSE TailOf(r)
     IN  /\ appendOffset' = [appendOffset EXCEPT ![o] = tail]
         /\ ClearSpan(r, tail)
  /\ Goto(a, "set_max_valid")
  /\ UNCHANGED <<maxValid, maxValidMedium, allocated, timestamps, runtimeOf, state, lock, phase,
                 loc, log, counters>>
RecheckState(a) ==
  /\ pc[a] = "recheck"
  /\ LET r == loc[a].region
         o == loc[a].runtime
         tail == IF a = Reader THEN loc[a].offset ELSE TailOf(r)
     IN  \/ /\ state[o] = "write_ready"
            /\ lock' = [lock EXCEPT ![o] = Nobody]
            /\ AfterRecovery(a)
            /\ UNCHANGED <<cells, isRegion, cellsMedium, appendOffset>>
         \/ /\ state[o] = "read_ready"
            /\ appendOffset' = [appendOffset EXCEPT ![o] = tail]
            /\ ClearSpan(r, tail)
            /\ Goto(a, "set_max_valid")
            /\ UNCHANGED <<lock, loc>>
  /\ UNCHANGED <<maxValid, maxValidMedium, allocated, timestamps, runtimeOf, state, phase, log,
                 counters>>

\* The cleared span is persisted, then max_valid_timestamp is set ...
SetMaxValid(a) ==
  /\ pc[a] = "set_max_valid"
  /\ LET r == loc[a].region
         o == loc[a].runtime
         p == <<r, appendOffset[o]>>
     IN  /\ cellsMedium' = IF p \in Places THEN [cellsMedium EXCEPT ![p] = {cells[p]}]
                           ELSE cellsMedium
         /\ maxValid' = [maxValid EXCEPT ![r] = Forever]
         /\ maxValidMedium' = [maxValidMedium EXCEPT ![r] = @ \union {Forever}]
  /\ Goto(a, "write_ready")
  /\ UNCHANGED <<cells, isRegion, allocated, timestamps, runtime, phase, loc, log, counters>>

\* ... and persisted, and the region is open for writing.
WriteReady(a) ==
  /\ pc[a] = "write_ready"
  /\ LET r == loc[a].region
         o == loc[a].runtime
     IN  /\ maxValidMedium' = [maxValidMedium EXCEPT ![r] = {maxValid[r]}]
         /\ state' = [state EXCEPT ![o] = "write_ready"]
         /\ lock' = [lock EXCEPT ![o] = Nobody]
  /\ AfterRecovery(a)
  /\ UNCHANGED <<cells, maxValid, isRegion, cellsMedium, allocated, timestamps, runtimeOf,
                 appendOffset, phase, log, counters>>

Recover(a) == Initialize(a) \/ Lock(a) \/ RecheckState(a) \/ SetMaxValid(a) \/ WriteReady(a)

-----------------------------------------------------------------------------
(* An append: pmemstream_reserve and pmemstream_async_publish_generic      *)

AppendBegin(r) ==
  /\ phase = "running" /\ pc[r] = "idle" /\ r \in allocated
  /\ appends < MaxAppends
  /\ appends' = appends + 1
  /\ \E s \in Sizes :
       loc' = [loc EXCEPT ![r] = [NoLocals EXCEPT !.region = r, !.size = s]]
  /\ Goto(r, "look_up")
  /\ UNCHANGED <<memory, timestamps, runtime, phase, log, reads, frees, crashes>>

Fits_NoHeader(o, s) == appendOffset[o] + s <= Capacity
Fits(o, s) == appendOffset[o] + s + 1 <= Capacity

Reserve(r) ==
  /\ pc[r] = "reserve"
  /\ \/ /\ Fits(loc[r].runtime, loc[r].size)
        /\ loc' = [loc EXCEPT ![r].offset = appendOffset[loc[r].runtime]]
        /\ appendOffset' = [appendOffset EXCEPT ![loc[r].runtime] = @ + loc[r].size + 1]
        /\ Goto(r, "acquire")
     \/ /\ ~Fits(loc[r].runtime, loc[r].size)
        /\ loc' = [loc EXCEPT ![r] = NoLocals]
        /\ Goto(r, "idle")
        /\ UNCHANGED appendOffset
  /\ UNCHANGED <<memory, timestamps, runtimeOf, state, lock, phase, log, counters>>

\* From here on the data mover may copy the payload.
AcquireTimestamp(r) ==
  /\ pc[r] = "acquire"
  /\ next' = next + 1
  /\ ops' = ops \union {[timestamp |-> next, region |-> r, offset |-> loc[r].offset,
                         size |-> loc[r].size, append |-> appends,
                         copied |-> FALSE, published |-> FALSE, durable |-> FALSE]}
  /\ log' = [log EXCEPT ![r] = Append(@, [timestamp |-> next, offset |-> loc[r].offset,
                                          payload |-> [k \in 1 .. loc[r].size |-> appends]])]
  /\ loc' = [loc EXCEPT ![r].timestamp = next]
  /\ Goto(r, "clear_next")
  /\ UNCHANGED <<memory, committed, persisted, runtime, phase, counters>>

ClearNext_Missing(r) ==
  /\ pc[r] = "clear_next"
  /\ Goto(r, "store_timestamp")
  /\ UNCHANGED <<memory, timestamps, runtime, phase, loc, log, counters>>
ClearNext(r) ==
  /\ pc[r] = "clear_next"
  /\ ClearSpan(r, loc[r].offset + loc[r].size + 1)
  /\ Goto(r, "store_timestamp")
  /\ UNCHANGED <<maxValid, maxValidMedium, allocated, timestamps, runtime, phase, loc, log,
                 counters>>

\* span_timestamped_base_atomic_store: the timestamp first ...
StoreHeader(r, label, c, then) ==
  /\ pc[r] = label
  /\ StoreCell(<<r, loc[r].offset>>, c)
  /\ Goto(r, then)
  /\ UNCHANGED <<maxValid, isRegion, maxValidMedium, allocated, timestamps, runtime, phase, loc,
                 log, counters>>
StoreTimestamp(r) ==
  StoreHeader(r, "store_timestamp",
              [cells[<<r, loc[r].offset>>] EXCEPT !.timestamp = loc[r].timestamp], "store_span")

\* ... then size and type.
StoreSpan(r) ==
  StoreHeader(r, "store_span", [cells[<<r, loc[r].offset>>] EXCEPT !.span = loc[r].size], "publish")

Publish(r) ==
  /\ pc[r] = "publish"
  /\ ops' = {IF op.timestamp = loc[r].timestamp THEN [op EXCEPT !.published = TRUE] ELSE op :
               op \in ops}
  /\ loc' = [loc EXCEPT ![r] = NoLocals]
  /\ Goto(r, "idle")
  /\ UNCHANGED <<memory, next, committed, persisted, runtime, phase, log, counters>>

Write(r) ==
  \/ Reserve(r) \/ AcquireTimestamp(r) \/ ClearNext(r)
  \/ StoreTimestamp(r) \/ StoreSpan(r) \/ Publish(r)

-----------------------------------------------------------------------------
(* The data mover and the commit pipeline                                  *)

PayloadPlaces(op) == {op.region} \X (op.offset + 1 .. op.offset + op.size)

CopyDone(op) ==
  /\ ~op.copied
  /\ ops' = (ops \ {op}) \union {[op EXCEPT !.copied = TRUE]}
  /\ cells' = [p \in Places |-> IF p \in PayloadPlaces(op) THEN PayloadCell(op.append)
                                ELSE cells[p]]
  /\ cellsMedium' = [p \in Places |-> IF p \in PayloadPlaces(op)
                                      THEN Stored(p, PayloadCell(op.append)) ELSE cellsMedium[p]]
  /\ UNCHANGED <<maxValid, isRegion, maxValidMedium, allocated, next, committed, persisted,
                 runtime, phase, pc, loc, log, counters>>

\* pmemstream_process_async_ops persists the entry and the header behind it.
PersistedPlaces_EntryOnly(op) == {op.region} \X (op.offset .. op.offset + op.size)
PersistedPlaces(op) == {op.region} \X (op.offset .. op.offset + op.size + 1)

ProcessOp(op) ==
  /\ op.copied /\ op.published /\ ~op.durable
  /\ ops' = (ops \ {op}) \union {[op EXCEPT !.durable = TRUE]}
  /\ cellsMedium' = [p \in Places |-> IF p \in PersistedPlaces(op) THEN {cells[p]}
                                      ELSE cellsMedium[p]]
  /\ UNCHANGED <<cells, maxValid, isRegion, maxValidMedium, allocated, next, committed, persisted,
                 runtime, phase, pc, loc, log, counters>>

Commit(op) ==
  /\ op.timestamp = committed + 1 /\ op.durable
  /\ committed' = committed + 1
  /\ ops' = ops \ {op}
  /\ UNCHANGED <<memory, next, persisted, runtime, phase, pc, loc, log, counters>>

\* header->persisted_timestamp, on the medium
RecordPersisted ==
  /\ phase = "running"
  /\ persisted < committed
  /\ persisted' = committed
  /\ UNCHANGED <<memory, next, committed, ops, runtime, phase, pc, loc, log, counters>>

-----------------------------------------------------------------------------
(* The entry iterator: seek_first, then is_valid, get and next             *)

ReadBegin ==
  /\ phase = "running" /\ pc[Reader] = "idle"
  /\ reads < MaxReads
  /\ reads' = reads + 1
  /\ \E r \in allocated : loc' = [loc EXCEPT ![Reader] = [NoLocals EXCEPT !.region = r]]
  /\ Goto(Reader, "look_up")
  /\ UNCHANGED <<memory, timestamps, runtime, phase, log, appends, frees, crashes>>

\* check_entry_consistency reads the committed timestamp first, ...
LoadCommitted_Uncommitted ==
  /\ pc[Reader] = "load_committed"
  /\ \/ /\ loc[Reader].offset >= Capacity
        /\ Goto(Reader, "initialize")
        /\ UNCHANGED loc
     \/ /\ loc[Reader].offset < Capacity
        /\ loc' = [loc EXCEPT ![Reader].valid = next - 1]
        /\ Goto(Reader, "load_max_valid")
  /\ UNCHANGED <<memory, timestamps, runtime, phase, log, counters>>
LoadCommitted ==
  /\ pc[Reader] = "load_committed"
  /\ \/ /\ loc[Reader].offset >= Capacity
        /\ Goto(Reader, "initialize")
        /\ UNCHANGED loc
     \/ /\ loc[Reader].offset < Capacity
        /\ loc' = [loc EXCEPT ![Reader].valid = committed]
        /\ Goto(Reader, "load_max_valid")
  /\ UNCHANGED <<memory, timestamps, runtime, phase, log, counters>>

LoadMaxValid ==
  /\ pc[Reader] = "load_max_valid"
  /\ loc' = [loc EXCEPT ![Reader].valid = Smaller(@, maxValid[loc[Reader].region])]
  /\ Goto(Reader, "load_span")
  /\ UNCHANGED <<memory, timestamps, runtime, phase, log, counters>>

\* ... then the span and then the timestamp.
LoadSpan ==
  /\ pc[Reader] = "load_span"
  /\ loc' = [loc EXCEPT ![Reader].size = cells[<<loc[Reader].region, loc[Reader].offset>>].span]
  /\ Goto(Reader, "load_timestamp")
  /\ UNCHANGED <<memory, timestamps, runtime, phase, log, counters>>

\* A valid entry is returned and the iterator advances; at an invalid one the
\* data ends and the region is recovered.
LoadTimestamp ==
  /\ pc[Reader] = "load_timestamp"
  /\ LET l == loc[Reader]
         c == [span |-> l.size, timestamp |-> cells[<<l.region, l.offset>>].timestamp]
     IN  \/ /\ IsValid(c, l.valid)
            /\ loc' = [loc EXCEPT ![Reader].seen = Append(@, EntryAt(l.region, l.offset)),
                                  ![Reader].offset = @ + l.size + 1]
            /\ Goto(Reader, "load_committed")
         \/ /\ ~IsValid(c, l.valid)
            /\ Goto(Reader, "initialize")
            /\ UNCHANGED loc
  /\ UNCHANGED <<memory, timestamps, runtime, phase, log, counters>>

Read == ReadBegin \/ LoadCommitted \/ LoadMaxValid \/ LoadSpan \/ LoadTimestamp

-----------------------------------------------------------------------------
(* pmemstream_region_free, and the region allocated again                  *)

\* The application does not free a region that is in use.
Unused(r) ==
  /\ pc[r] = "idle"
  /\ pc[Reader] # "idle" => loc[Reader].region # r
  /\ \A op \in ops : op.region # r

Free(r) ==
  /\ phase = "running" /\ r \in allocated /\ Unused(r)
  /\ frees < MaxFrees
  /\ frees' = frees + 1
  /\ allocated' = allocated \ {r}
  /\ log' = [log EXCEPT ![r] = << >>]
  /\ Goto(r, "remove_runtime")
  /\ UNCHANGED <<cells, maxValid, isRegion, cellsMedium, maxValidMedium, timestamps, runtime, phase,
                 loc, appends, reads, crashes>>

\* region_runtimes_map_remove: out of the map, and freed.
RemoveRuntime_Missing(r) ==
  /\ pc[r] = "remove_runtime"
  /\ Goto(r, "idle")
  /\ UNCHANGED <<memory, timestamps, runtime, phase, loc, log, counters>>
RemoveRuntime(r) ==
  /\ pc[r] = "remove_runtime"
  /\ runtimeOf' = [runtimeOf EXCEPT ![r] = Nobody]
  /\ state' = [o \in Runtimes |-> IF o = runtimeOf[r] THEN "none" ELSE state[o]]
  /\ appendOffset' = [o \in Runtimes |-> IF o = runtimeOf[r] THEN NoOffset ELSE appendOffset[o]]
  /\ Goto(r, "idle")
  /\ UNCHANGED <<memory, timestamps, lock, phase, loc, log, counters>>

\* What the allocator leaves of the old content: all but the first header.
Allocate_HeaderKept(r) ==
  /\ phase = "running" /\ r \notin allocated /\ pc[r] = "idle"
  /\ allocated' = allocated \union {r}
  /\ maxValid' = [maxValid EXCEPT ![r] = Forever]
  /\ maxValidMedium' = [maxValidMedium EXCEPT ![r] = {Forever}]
  /\ UNCHANGED <<cells, cellsMedium, isRegion, timestamps, runtime, phase, pc, loc, log, counters>>
Allocate(r) ==
  /\ phase = "running" /\ r \notin allocated /\ pc[r] = "idle"
  /\ allocated' = allocated \union {r}
  /\ maxValid' = [maxValid EXCEPT ![r] = Forever]
  /\ maxValidMedium' = [maxValidMedium EXCEPT ![r] = {Forever}]
  /\ cells' = [cells EXCEPT ![<<r, 0>>] = NoCell]
  /\ cellsMedium' = [cellsMedium EXCEPT ![<<r, 0>>] = {NoCell}]
  /\ UNCHANGED <<isRegion, timestamps, runtime, phase, pc, loc, log, counters>>

-----------------------------------------------------------------------------
(* Power failure and restart                                               *)

\* All ways to choose one of the values in m[w] for every w.
Outcomes(m) ==
  LET unsettled == {w \in DOMAIN m : Cardinality(m[w]) > 1}
      one == [w \in DOMAIN m |-> CHOOSE v \in m[w] : TRUE]
  IN  FoldSet(LAMBDA w, chosen : {[f EXCEPT ![w] = v] : f \in chosen, v \in m[w]}, {one}, unsettled)

\* The entries up to timestamp n: the timestamps of a log grow.
Upto(entries, n) ==
  SubSeq(entries, 1, Cardinality({k \in DOMAIN entries : entries[k].timestamp <= n}))

\* The DRAM is lost; pmemstream_from_map starts from the persisted timestamp.
Crash ==
  /\ crashes < MaxCrashes
  /\ crashes' = crashes + 1
  /\ cells' \in Outcomes(cellsMedium)
  /\ cellsMedium' = [p \in Places |-> {cells'[p]}]
  /\ maxValid' \in Outcomes(maxValidMedium)
  /\ maxValidMedium' = [r \in Regions |-> {maxValid'[r]}]
  /\ next' = persisted + 1 /\ committed' = persisted
  /\ ops' = {}
  /\ runtimeOf' = [r \in Regions |-> Nobody]
  /\ state' = [o \in Runtimes |-> "none"]
  /\ appendOffset' = [o \in Runtimes |-> NoOffset]
  /\ lock' = [o \in Runtimes |-> Nobody]
  /\ phase' = "opening"
  /\ pc' = [a \in Actors |-> "idle"]
  /\ loc' = [a \in Actors |-> NoLocals]
  /\ log' = [r \in Regions |-> Upto(log[r], persisted)]
  /\ UNCHANGED <<isRegion, allocated, persisted, appends, reads, frees>>

\* pmemstream_mark_regions_for_recovery, region by region, ...
NeedsMark_Always(r) == maxValid[r] # persisted
NeedsMark(r) == maxValid[r] = Forever

MarkRegion(r) ==
  /\ phase = "opening" /\ r \in allocated
  /\ NeedsMark(r)
  /\ maxValid' = [maxValid EXCEPT ![r] = persisted]
  /\ maxValidMedium' = [maxValidMedium EXCEPT ![r] = @ \union {persisted}]
  /\ UNCHANGED <<cells, isRegion, cellsMedium, allocated, timestamps, runtime, phase, pc, loc, log,
                 counters>>

\* ... and its drain.
Opened ==
  /\ phase = "opening"
  /\ \A r \in allocated : ~NeedsMark(r)
  /\ maxValidMedium' = [r \in Regions |-> {maxValid[r]}]
  /\ phase' = "running"
  /\ UNCHANGED <<cells, maxValid, isRegion, cellsMedium, allocated, timestamps, runtime, pc, loc,
                 log, counters>>

-----------------------------------------------------------------------------
Next ==
  \/ \E r \in Regions : AppendBegin(r) \/ Write(r) \/ MarkRegion(r)
  \/ \E r \in Regions : Free(r) \/ RemoveRuntime(r) \/ Allocate(r)
  \/ \E a \in Actors : GetOrCreate(a) \/ Recover(a)
  \/ Read
  \/ \E op \in ops : CopyDone(op) \/ ProcessOp(op) \/ Commit(op)
  \/ RecordPersisted
  \/ Crash \/ Opened

Spec == Init /\ [][Next]_vars

-----------------------------------------------------------------------------
(* Properties                                                              *)

CellValues == [span : 0 .. Capacity, timestamp : 0 .. MaxAppends, payload : 0 .. MaxAppends]

\* Every variable holds a value of its type; no offset leaves its region.
TypeOK ==
  /\ cells \in [Places -> CellValues] /\ maxValid \in [Regions -> 0 .. Forever]
  /\ \A p \in Places : cellsMedium[p] \subseteq CellValues
  /\ \A r \in Regions : maxValidMedium[r] \subseteq 0 .. Forever
  /\ persisted <= committed /\ committed < next
  /\ allocated \subseteq Regions
  /\ runtimeOf \in [Regions -> Runtimes \union {Nobody}]
  /\ state \in [Runtimes -> {"none", "read_ready", "write_ready"}]
  /\ appendOffset \in [Runtimes -> 0 .. Capacity \union {NoOffset}]
  /\ lock \in [Runtimes -> Actors \union {Nobody}]

\* What a reader finds in a region, in memory, is what was appended to it and
\* committed, in order: nothing is missing, reordered or corrupted, nothing
\* uncommitted is visible, and after any power failures no entry appears that was
\* not persisted, although timestamps are used again; and a region that was freed
\* and allocated again shows nothing of what it held before.
VisibleIsCommittedLog == \A r \in allocated : Scan(r) = Upto(log[r], committed)

\* The same of an iterator that reads word by word while entries are appended and
\* the region is recovered: what it returned so far is a prefix of that log.
IteratorSeesLog ==
  pc[Reader] # "idle" =>
    IsPrefix(loc[Reader].seen, Upto(log[loc[Reader].region], committed))

\* The place of the next append is the end of the entries appended so far, also
\* when an iterator found it without the lock: no entry is overwritten or skipped.
Length(entries) ==
  IF entries = << >> THEN 0 ELSE Last(entries).offset + 1 + Len(Last(entries).payload)
AppendOffsetIsTail ==
  \A r \in allocated :
    runtimeOf[r] # Nobody /\ state[runtimeOf[r]] = "write_ready" /\ pc[r] # "acquire" =>
      appendOffset[runtimeOf[r]] = Length(log[r])

\* All threads that use a region use the same runtime, hence the same lock, also
\* when two of them create it at once; and no runtime stays behind outside the map.
OneRuntimePerRegion ==
  /\ \A a \in Actors :
       loc[a].runtime # Nobody => loc[a].runtime = runtimeOf[loc[a].region]
  /\ \A o \in Runtimes : state[o] # "none" => \E r \in Regions : runtimeOf[r] = o

\* What a reader may see changes only as LogSpec says: one entry at a time, in the
\* order of timestamps, and a power failure takes only what was not persisted.
Abstract == INSTANCE LogSpec WITH
  visible <- [r \in Regions |-> IF r \in allocated THEN Scan(r) ELSE << >>]
ImplementsLogSpec == Abstract!Spec

\* assert(span_get_type(span_region) == SPAN_REGION) in pmemstream_reserve
RegionHeadersIntact == \A r \in Regions : isRegion[r]

\* doc/libpmemstream.7.md: an entry append is atomic, there are no data
\* consistency issues: a visible entry has the payload it was appended with.
AppendIsAtomic ==
  \A r \in Regions : \A k \in DOMAIN Scan(r) : Scan(r)[k] \in Range(log[r])
=============================================================================

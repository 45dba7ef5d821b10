--------------------------- MODULE CommitPipeline ---------------------------
(***************************************************************************)
(* The commit pipeline of a stream (src/src/libpmemstream.c): how appends  *)
(* acquire and publish timestamps, and how the futures returned by         *)
(* pmemstream_async_wait_committed and pmemstream_async_wait_persisted,    *)
(* polled by any number of threads, process the published operations in    *)
(* batches and advance the committed and the persisted timestamp.          *)
(*                                                                         *)
(* A client is a thread of the application together with the one future    *)
(* it polls.  Every action is one access to shared memory with the local   *)
(* computation that follows it; all such accesses are acquire/release      *)
(* atomics, semaphore calls or operations of the critnib, so they are      *)
(* modelled as sequentially consistent.                                    *)
(*                                                                         *)
(* Abstracted: the content and the place of an entry (an operation is      *)
(* known by its timestamp), the persistent bytes (the set durable), the    *)
(* data mover (the set copying of operations whose data is on its way).    *)
(*                                                                         *)
(* A definition with an underscore in its name is a seeded fault of the    *)
(* definition below it: the property it must violate is in PROJECT.json.   *)
(***************************************************************************)
EXTENDS Naturals

CONSTANTS
  Clients,          \* threads that append and wait
  MaxConcurrency,   \* PMEMSTREAM_MAX_CONCURRENCY
  ProcessingBatch,  \* PMEMSTREAM_TIMESTAMP_PROCESSING_BATCH
  InitialTimestamp, \* persisted_timestamp in the header at open
  MaxAppends,       \* bound: appends the clients may start
  WaitKinds,        \* bound: the waits the clients use
  DebugBuild,       \* TRUE: NDEBUG is not defined
  InsertMayFail     \* TRUE: critnib_insert may return ENOMEM

ASSUME PipelineAssumption ==
  /\ MaxConcurrency \in Nat \ {0}
  /\ ProcessingBatch \in Nat \ {0}
  /\ InitialTimestamp \in Nat
  /\ MaxAppends \in Nat
  /\ WaitKinds \subseteq {"committed", "persisted"}
  /\ DebugBuild \in BOOLEAN
  /\ InsertMayFail \in BOOLEAN

VARIABLES
  next,        \* next_timestamp
  processing,  \* processing_timestamp
  committed,   \* committed_timestamp
  persisted,   \* persisted_timestamp (DRAM)
  header,      \* header->persisted_timestamp as the CPUs see it
  headerDurable, \* header->persisted_timestamp on the medium
  semaphore,   \* async_ops_semaphore
  ready,       \* ready_timestamps: the set of batches <<first, count>>
  slots,       \* async_ops
  copying,     \* operations whose future is not complete
  durable,     \* operations whose bytes were persisted
  budget,      \* appends that may still start
  pc,          \* where each client is
  fut,         \* the future each client polls
  loc          \* the local variables of each client

shared == <<next, processing, committed, persisted, header, headerDurable,
            semaphore, ready, slots, copying, durable, budget>>
vars == <<shared, pc, fut, loc>>

-----------------------------------------------------------------------------
InvalidTimestamp == 0

SlotIndex(n) == n % MaxConcurrency

NoFuture == [kind |-> "none", timestamp |-> 0, first |-> 0, processing |-> 0, last |-> 0]

\* kind "slot" is the wait for a free slot inside pmemstream_acquire_timestamp
NewFuture(kind, n) == [NoFuture EXCEPT !.kind = kind, !.timestamp = n]

\* committed, persisted: values loaded by the poll; processing: loaded before the CAS;
\* num: operand of pmemstream_increase_committed_timestamp; own: its caller
\* commits the batch of its own future, not one taken from ready;
\* timestamp: the one acquired by the append.
NoLocals == [committed |-> 0, persisted |-> 0, processing |-> 0, num |-> 0,
             own |-> FALSE, timestamp |-> 0]

Goto(c, label) == pc' = [pc EXCEPT ![c] = label]

SlotCount_OneMore == MaxConcurrency + 1
SlotCount == MaxConcurrency

ShouldAcquire_AlsoLastBatch(f) == f.last = f.processing
ShouldAcquire(f) == f.last = f.processing /\ f.timestamp > f.last

BatchSize_Swapped(f) == f.first - f.processing
BatchSize(f) == f.processing - f.first

\* Nothing lies between the committed timestamp this poll knows and its batch.
IsHead_Unordered(f, l) == l.committed <= f.first
IsHead(f, l) == l.committed = f.first

\* atomic_compare_exchange: the variable still has the value loaded before.
CasSucceeds_Store(current, expected) == TRUE
CasSucceeds(current, expected) == current = expected

PollStart(f) == IF f.kind = "persisted" THEN "load_persisted" ELSE "load_committed"

\* FUTURE_STATE_RUNNING: the client will poll the future again.
ReturnRunning(c, f) ==
  /\ Goto(c, PollStart(f))
  /\ fut' = [fut EXCEPT ![c] = f]
  /\ loc' = [loc EXCEPT ![c] = NoLocals]

CallIncrease(c, f, l) ==
  /\ Goto(c, IF DebugBuild THEN "clear_slots" ELSE "add_committed")
  /\ fut' = [fut EXCEPT ![c] = f]
  /\ loc' = [loc EXCEPT ![c] = l]

CommitOwnBatch(c, f, l) ==
  CallIncrease(c, f, [l EXCEPT !.num = BatchSize(f), !.own = TRUE])

\* The end of a poll, once no ready batch follows the committed timestamp.
FinishPoll(c, f, l) ==
  \/ IsHead(f, l) /\ CommitOwnBatch(c, f, l)
  \/ /\ ~IsHead(f, l)
     /\ ShouldAcquire(f)
     /\ Goto(c, "insert")
     /\ UNCHANGED <<fut, loc>>
  \/ /\ ~IsHead(f, l)
     /\ ~ShouldAcquire(f)
     /\ ReturnRunning(c, f)

\* The part of a poll that follows pmemstream_process_async_ops.
AfterProcess(c, f, l) ==
  \/ IsHead(f, l) /\ CommitOwnBatch(c, f, l)
  \/ /\ ~IsHead(f, l)
     /\ Goto(c, "pop")
     /\ fut' = [fut EXCEPT ![c] = f]
     /\ loc' = [loc EXCEPT ![c] = l]

-----------------------------------------------------------------------------
Init ==
  /\ next = InitialTimestamp + 1
  /\ processing = InitialTimestamp
  /\ committed = InitialTimestamp
  /\ persisted = InitialTimestamp
  /\ header = InitialTimestamp
  /\ headerDurable = InitialTimestamp
  /\ semaphore = SlotCount
  /\ ready = {}
  /\ slots = [i \in 0 .. MaxConcurrency - 1 |-> [timestamp |-> InvalidTimestamp, op |-> 0]]
  /\ copying = {}
  /\ durable = {}
  /\ budget = MaxAppends
  /\ pc = [c \in Clients |-> "idle"]
  /\ fut = [c \in Clients |-> NoFuture]
  /\ loc = [c \in Clients |-> NoLocals]

-----------------------------------------------------------------------------
(* pmemstream_async_publish_generic and pmemstream_acquire_timestamp       *)

AppendBegin(c) ==
  /\ pc[c] = "idle"
  /\ budget > 0
  /\ budget' = budget - 1
  /\ Goto(c, "trywait")
  /\ UNCHANGED <<next, processing, committed, persisted, header, headerDurable,
                 semaphore, ready, slots, copying, durable, fut, loc>>

TryWait(c) ==
  /\ pc[c] = "trywait"
  /\ \/ /\ semaphore > 0
        /\ semaphore' = semaphore - 1
        /\ Goto(c, "fetch")
     \/ /\ semaphore = 0
        /\ Goto(c, "slot_wait")
        /\ UNCHANGED semaphore
  /\ UNCHANGED <<next, processing, committed, persisted, header, headerDurable,
                 ready, slots, copying, durable, budget, fut, loc>>

\* The committed timestamp is read after the semaphore was found to be zero.
SlotWait(c) ==
  /\ pc[c] = "slot_wait"
  /\ fut' = [fut EXCEPT ![c] = NewFuture("slot", committed + 1)]
  /\ Goto(c, "load_committed")
  /\ UNCHANGED <<shared, loc>>

FetchAdd(c) ==
  /\ pc[c] = "fetch"
  /\ loc' = [loc EXCEPT ![c].timestamp = next]
  /\ next' = next + 1
  /\ Goto(c, "fill")
  /\ UNCHANGED <<processing, committed, persisted, header, headerDurable,
                 semaphore, ready, slots, copying, durable, budget, fut>>

\* async_op->future, entry and size; the first poll of the future starts the copy.
FillSlot(c) ==
  /\ pc[c] = "fill"
  /\ slots' = [slots EXCEPT ![SlotIndex(loc[c].timestamp)].op = loc[c].timestamp]
  /\ copying' = copying \union {loc[c].timestamp}
  /\ Goto(c, "publish")
  /\ UNCHANGED <<next, processing, committed, persisted, header, headerDurable,
                 semaphore, ready, durable, budget, fut, loc>>

PublishTimestamp(c) ==
  /\ pc[c] = "publish"
  /\ slots' = [slots EXCEPT ![SlotIndex(loc[c].timestamp)].timestamp = loc[c].timestamp]
  /\ Goto(c, "idle")
  /\ loc' = [loc EXCEPT ![c] = NoLocals]
  /\ UNCHANGED <<next, processing, committed, persisted, header, headerDurable,
                 semaphore, ready, copying, durable, budget, fut>>

\* The data mover finishes a copy (at once for a synchronous mover).
CopyDone(n) ==
  /\ copying' = copying \ {n}
  /\ UNCHANGED <<next, processing, committed, persisted, header, headerDurable,
                 semaphore, ready, slots, durable, budget, pc, fut, loc>>

-----------------------------------------------------------------------------
(* The poll of pmemstream_async_wait_committed                             *)

WaitBegin(c, kind, n) ==
  /\ pc[c] = "idle"
  /\ fut' = [fut EXCEPT ![c] = NewFuture(kind, n)]
  /\ Goto(c, PollStart(fut'[c]))
  /\ UNCHANGED <<shared, loc>>

\* Where a poll continues when the committed timestamp is at least its own.
Completed(c, l) ==
  /\ Goto(c, CASE fut[c].kind = "persisted" -> "cas_header"
               [] fut[c].kind = "committed" -> "done"
               [] OTHER -> "trywait")
  /\ fut' = [fut EXCEPT ![c] = IF @.kind = "slot" THEN NoFuture ELSE @]
  /\ loc' = [loc EXCEPT ![c] = l]

IsCommitted_ByProcessing(f) == f.timestamp <= processing
IsCommitted(f) == f.timestamp <= committed

LoadCommitted(c) ==
  /\ pc[c] = "load_committed"
  /\ LET f == fut[c]
         l == [loc[c] EXCEPT !.committed = committed]
     IN  \/ IsCommitted(f) /\ Completed(c, [l EXCEPT !.committed = 0])
         \/ /\ ~IsCommitted(f)
            /\ \/ /\ ShouldAcquire(f)
                  /\ Goto(c, "load_processing")
                  /\ loc' = [loc EXCEPT ![c] = l]
                  /\ UNCHANGED fut
               \/ /\ f.processing < f.last
                  /\ Goto(c, "process")
                  /\ loc' = [loc EXCEPT ![c] = l]
                  /\ UNCHANGED fut
               \/ /\ f.processing = f.last
                  /\ ~ShouldAcquire(f)
                  /\ AfterProcess(c, f, l)
  /\ UNCHANGED shared

\* pmemstream_acquire_timestamps_for_processing: some other future owns the
\* part of the queue this one waits for.
OwnedByOther_OffByOne(f) == f.timestamp < processing
OwnedByOther(f) == f.timestamp <= processing

LoadProcessing(c) ==
  /\ pc[c] = "load_processing"
  /\ \/ /\ OwnedByOther(fut[c])
        /\ ReturnRunning(c, fut[c])
     \/ /\ ~OwnedByOther(fut[c])
        /\ loc' = [loc EXCEPT ![c].processing = processing]
        /\ Goto(c, "cas_processing")
        /\ UNCHANGED fut
  /\ UNCHANGED shared

LastOfBatch(n, current) ==
  IF n - current > ProcessingBatch THEN current + ProcessingBatch ELSE n

CasProcessing(c) ==
  /\ pc[c] = "cas_processing"
  /\ LET current == loc[c].processing
         last    == LastOfBatch(fut[c].timestamp, current)
     IN  \/ /\ CasSucceeds(processing, current)
            /\ processing' = last
            /\ fut' = [fut EXCEPT ![c].first = current, ![c].processing = current,
                                  ![c].last = last]
            /\ loc' = [loc EXCEPT ![c].processing = 0]
            /\ Goto(c, "process")
         \/ /\ ~CasSucceeds(processing, current)
            /\ ReturnRunning(c, fut[c])
            /\ UNCHANGED processing
  /\ UNCHANGED <<next, committed, persisted, header, headerDurable, semaphore,
                 ready, slots, copying, durable, budget>>

\* pmemstream_process_async_ops
OpIsComplete_NoPoll(slot, n) == slot.timestamp = n
OpIsComplete_AnyTimestamp(slot, n) ==
  slot.timestamp # InvalidTimestamp /\ slot.op \notin copying
OpIsComplete(slot, n) == slot.timestamp = n /\ slot.op \notin copying

Process(c) ==
  /\ pc[c] = "process"
  /\ LET f    == fut[c]
         slot == slots[SlotIndex(f.processing + 1)]
     IN  \/ /\ OpIsComplete(slot, f.processing + 1)
            /\ durable' = durable \union {slot.op}
            /\ AfterProcess(c, [f EXCEPT !.processing = @ + 1], loc[c])
         \/ /\ ~OpIsComplete(slot, f.processing + 1)
            /\ ReturnRunning(c, f)
            /\ UNCHANGED durable
  /\ UNCHANGED <<next, processing, committed, persisted, header, headerDurable,
                 semaphore, ready, slots, copying, budget>>

\* pmemstream_process_ready_timestamp_batches: a batch that ends after upto is
\* removed and forgotten.
FitsUpto(batch, upto) == batch[1] + batch[2] <= upto

PopReady(c) ==
  /\ pc[c] = "pop"
  /\ LET found == {b \in ready : b[1] = loc[c].committed}
     IN  /\ ready' = ready \ found
         /\ \/ \E b \in found :
                 /\ FitsUpto(b, fut[c].last)
                 /\ CallIncrease(c, fut[c], [loc[c] EXCEPT !.committed = @ + b[2],
                                                          !.num = b[2], !.own = FALSE])
            \/ /\ \A b \in found : ~FitsUpto(b, fut[c].last)
               /\ FinishPoll(c, fut[c], loc[c])
  /\ UNCHANGED <<next, processing, committed, persisted, header, headerDurable,
                 semaphore, slots, copying, durable, budget>>

-----------------------------------------------------------------------------
(* pmemstream_increase_committed_timestamp                                 *)

ClearSlots(c) ==
  /\ pc[c] = "clear_slots"
  /\ LET cleared == {SlotIndex(committed + i) : i \in 1 .. loc[c].num}
     IN  slots' = [i \in DOMAIN slots |->
                     IF i \in cleared THEN [slots[i] EXCEPT !.timestamp = InvalidTimestamp]
                                      ELSE slots[i]]
  /\ Goto(c, "add_committed")
  /\ UNCHANGED <<next, processing, committed, persisted, header, headerDurable,
                 semaphore, ready, copying, durable, budget, fut, loc>>

\* The future's first_timestamp moves only after the call; nothing reads it before.
AddCommitted_StaleFirst(c) ==
  /\ pc[c] = "add_committed"
  /\ committed' = committed + loc[c].num
  /\ Goto(c, "post_slots")
  /\ UNCHANGED <<next, processing, persisted, header, headerDurable, semaphore,
                 ready, slots, copying, durable, budget, fut, loc>>
AddCommitted(c) ==
  /\ pc[c] = "add_committed"
  /\ committed' = committed + loc[c].num
  /\ fut' = [fut EXCEPT ![c].first = IF loc[c].own THEN @ + loc[c].num ELSE @]
  /\ Goto(c, "post_slots")
  /\ UNCHANGED <<next, processing, persisted, header, headerDurable, semaphore,
                 ready, slots, copying, durable, budget, loc>>

PostSlot(c) ==
  /\ pc[c] = "post_slots"
  /\ loc[c].num > 0
  /\ semaphore' = semaphore + 1
  /\ loc' = [loc EXCEPT ![c].num = @ - 1]
  /\ UNCHANGED <<next, processing, committed, persisted, header, headerDurable,
                 ready, slots, copying, durable, budget, pc, fut>>

IncreaseReturns(c) ==
  /\ pc[c] = "post_slots"
  /\ loc[c].num = 0
  /\ \/ loc[c].own /\ ReturnRunning(c, fut[c])
     \/ ~loc[c].own /\ Goto(c, "pop") /\ UNCHANGED <<fut, loc>>
  /\ UNCHANGED shared

-----------------------------------------------------------------------------
(* pmemstream_mark_timestamp_batch_as_committed                            *)

InsertReady(c) ==
  /\ pc[c] = "insert"
  /\ ready' = ready \union {<<fut[c].first, BatchSize(fut[c])>>}
  /\ ReturnRunning(c, fut[c])
  /\ UNCHANGED <<next, processing, committed, persisted, header, headerDurable,
                 semaphore, slots, copying, durable, budget>>

InsertFails(c) ==
  /\ pc[c] = "insert"
  /\ InsertMayFail
  /\ Goto(c, "await_committed")
  /\ UNCHANGED <<shared, fut, loc>>

\* The busy wait of the ENOMEM path.
AwaitCommitted_NoWait(c) ==
  /\ pc[c] = "await_committed"
  /\ CommitOwnBatch(c, fut[c], loc[c])
  /\ UNCHANGED shared
AwaitCommitted(c) ==
  /\ pc[c] = "await_committed"
  /\ committed = fut[c].first
  /\ CommitOwnBatch(c, fut[c], loc[c])
  /\ UNCHANGED shared

-----------------------------------------------------------------------------
(* The rest of the poll of pmemstream_async_wait_persisted                 *)

LoadPersisted(c) ==
  /\ pc[c] = "load_persisted"
  /\ \/ /\ fut[c].timestamp <= persisted
        /\ Goto(c, "done")
        /\ UNCHANGED loc
     \/ /\ fut[c].timestamp > persisted
        /\ loc' = [loc EXCEPT ![c].persisted = persisted]
        /\ Goto(c, "load_committed")
  /\ UNCHANGED <<shared, fut>>

CasHeader(c) ==
  /\ pc[c] = "cas_header"
  /\ \/ /\ CasSucceeds(header, loc[c].persisted)
        /\ header' = fut[c].timestamp
        /\ Goto(c, "persist_header")
        /\ UNCHANGED <<fut, loc>>
     \/ /\ ~CasSucceeds(header, loc[c].persisted)
        /\ ReturnRunning(c, fut[c])
        /\ UNCHANGED header
  /\ UNCHANGED <<next, processing, committed, persisted, headerDurable, semaphore,
                 ready, slots, copying, durable, budget>>

PersistHeader_Missing(c) ==
  /\ pc[c] = "persist_header"
  /\ Goto(c, "cas_persisted")
  /\ UNCHANGED <<shared, fut, loc>>
PersistHeader(c) ==
  /\ pc[c] = "persist_header"
  /\ headerDurable' = header
  /\ Goto(c, "cas_persisted")
  /\ UNCHANGED <<next, processing, committed, persisted, header, semaphore,
                 ready, slots, copying, durable, budget, fut, loc>>

CasPersisted(c) ==
  /\ pc[c] = "cas_persisted"
  /\ persisted' = IF CasSucceeds(persisted, loc[c].persisted) THEN fut[c].timestamp
                                                            ELSE persisted
  /\ Goto(c, "done")
  /\ UNCHANGED <<next, processing, committed, header, headerDurable, semaphore,
                 ready, slots, copying, durable, budget, fut, loc>>

\* FUTURE_STATE_COMPLETE: the application may go on.
WaitReturns(c) ==
  /\ pc[c] = "done"
  /\ Goto(c, "idle")
  /\ fut' = [fut EXCEPT ![c] = NoFuture]
  /\ loc' = [loc EXCEPT ![c] = NoLocals]
  /\ UNCHANGED shared

-----------------------------------------------------------------------------
Increase(c) == ClearSlots(c) \/ AddCommitted(c) \/ PostSlot(c) \/ IncreaseReturns(c)

Append(c) == TryWait(c) \/ SlotWait(c) \/ FetchAdd(c) \/ FillSlot(c) \/ PublishTimestamp(c)

Poll(c) ==
  \/ LoadCommitted(c) \/ LoadProcessing(c) \/ CasProcessing(c) \/ Process(c)
  \/ PopReady(c) \/ Increase(c) \/ InsertReady(c) \/ InsertFails(c) \/ AwaitCommitted(c)
  \/ LoadPersisted(c) \/ CasHeader(c) \/ PersistHeader(c) \/ CasPersisted(c)
  \/ WaitReturns(c)

\* An application waits for timestamps that entries already have.
Next ==
  \/ \E c \in Clients :
       \/ AppendBegin(c)
       \/ \E kind \in WaitKinds, n \in InitialTimestamp + 1 .. next - 1 :
            WaitBegin(c, kind, n)
       \/ Append(c)
       \/ Poll(c)
  \/ \E n \in copying : CopyDone(n)

Spec == Init /\ [][Next]_vars

(***************************************************************************)
(* A started call keeps running, a future is polled to completion and the  *)
(* data mover finishes its copies; no client has to start a call.          *)
(***************************************************************************)
Fairness ==
  /\ \A c \in Clients : WF_vars(Append(c) \/ Poll(c))
  /\ \A n \in 1 .. InitialTimestamp + MaxAppends :
       WF_vars(n \in copying /\ CopyDone(n))

FairSpec == Spec /\ Fairness

-----------------------------------------------------------------------------
(* Properties                                                              *)

Labels == {"idle", "trywait", "slot_wait", "fetch", "fill", "publish",
  "load_persisted", "load_committed", "load_processing", "cas_processing", "process",
  "pop", "clear_slots", "add_committed", "post_slots", "insert", "await_committed",
  "cas_header", "persist_header", "cas_persisted", "done"}
Futures == [kind : {"none", "committed", "persisted", "slot"},
            timestamp : Nat, first : Nat, processing : Nat, last : Nat]
Batches == Nat \X Nat
SlotArrays == [0 .. MaxConcurrency - 1 -> [timestamp : Nat, op : Nat]]
Locals == [committed : Nat, persisted : Nat, processing : Nat,
           num : Nat, own : BOOLEAN, timestamp : Nat]

\* Every variable holds a value of the type the code gives it; no unsigned
\* subtraction wraps.
TypeOK ==
  /\ next \in Nat /\ processing \in Nat /\ committed \in Nat
  /\ persisted \in Nat /\ header \in Nat /\ headerDurable \in Nat
  /\ semaphore \in Nat /\ budget \in Nat
  /\ ready \subseteq Batches
  /\ slots \in SlotArrays
  /\ copying \subseteq Nat /\ durable \subseteq Nat
  /\ pc \in [Clients -> Labels]
  /\ fut \in [Clients -> Futures]
  /\ loc \in [Clients -> Locals]

\* An entry is committed, hence visible to iterators, only after its data was
\* copied and persisted, whichever client processed it and whatever the order
\* in which the copies finished.
CommittedIsDurable ==
  \A n \in InitialTimestamp + 1 .. committed : n \in durable /\ n \notin copying

\* After pmemstream_process_async_ops and before the poll returns, the future's
\* finished batch has not been handed over yet.
InTail(c) == pc[c] \in {"pop", "clear_slots", "add_committed", "post_slots",
                        "insert", "await_committed"}

\* The timestamps a future, a client that took a batch out of ready_timestamps,
\* and a batch in ready_timestamps are responsible for.
OwnBatch(c) ==
  IF ShouldAcquire(fut[c]) /\ ~InTail(c) THEN {} ELSE fut[c].first + 1 .. fut[c].last
PoppedBatch(c) ==
  IF pc[c] \in {"clear_slots", "add_committed"} /\ ~loc[c].own
  THEN loc[c].committed - loc[c].num + 1 .. loc[c].committed
  ELSE {}
ReadyBatch(b) == b[1] + 1 .. b[1] + b[2]

\* No two holders are responsible for the same timestamp: no operation is
\* processed twice and committed_timestamp has one writer at a time, although
\* it is increased by a plain atomic add.
BatchesAreDisjoint ==
  /\ \A c, d \in Clients : c # d => /\ OwnBatch(c) \intersect OwnBatch(d) = {}
                                    /\ PoppedBatch(c) \intersect PoppedBatch(d) = {}
  /\ \A c, d \in Clients : OwnBatch(c) \intersect PoppedBatch(d) = {}
  /\ \A b \in ready, c \in Clients :
       ReadyBatch(b) \intersect (OwnBatch(c) \union PoppedBatch(c)) = {}
  /\ \A a, b \in ready : a # b => ReadyBatch(a) \intersect ReadyBatch(b) = {}

\* Between committed and processing no timestamp is orphaned: the batch a client
\* takes out of ready_timestamps is never dropped, a completed future keeps none.
NoTimestampIsLost ==
  committed + 1 .. processing =
    UNION ({OwnBatch(c) : c \in Clients} \union {PoppedBatch(c) : c \in Clients}
             \union {ReadyBatch(b) : b \in ready})

\* What recovery relies on: the persisted timestamp in memory, on the medium and
\* in the caches are never ahead of one another the wrong way, nor of what is
\* committed; the API promises persisted <= committed.
TimestampsOrdered ==
  persisted <= headerDurable /\ headerDurable <= header /\ header <= committed

\* ... and nothing is committed, or declared persisted, that was not issued.
PersistedBehindCommitted == TimestampsOrdered /\ committed < next

\* When an append gets its slot, the operation that used it before is committed
\* (in a debug build its timestamp is cleared: the asserts of acquire and publish).
SlotIsFree ==
  \A c \in Clients : pc[c] \in {"fill", "publish"} =>
    LET slot == slots[SlotIndex(loc[c].timestamp)]
    IN  /\ slot.timestamp <= committed
        /\ slot.op <= committed \/ slot.op = loc[c].timestamp
        /\ DebugBuild => slot.timestamp = InvalidTimestamp

\* A completed wait keeps its promise: committed up to its timestamp, and for a
\* persisted wait also recorded on the medium, so that a restart finds it.
CompletedWaitHolds ==
  \A c \in Clients : pc[c] = "done" =>
    /\ fut[c].timestamp <= committed
    /\ fut[c].kind = "persisted" => fut[c].timestamp <= headerDurable

\* The asserts of process_async_ops, mark_timestamp_batch_as_committed and of
\* the second compare-and-swap of wait_persisted.
CodeAsserts ==
  \A c \in Clients :
    /\ pc[c] = "process" => /\ fut[c].processing < fut[c].timestamp
                            /\ fut[c].processing < fut[c].last
    /\ pc[c] = "insert" => \A b \in ready : b[1] # fut[c].first
    /\ pc[c] = "cas_persisted" =>
         persisted = loc[c].persisted \/ persisted > fut[c].timestamp

\* The four published timestamps never go back, although each is written by
\* several clients.
TimestampsNeverDecrease ==
  [][/\ committed' >= committed
     /\ persisted' >= persisted
     /\ header' >= header
     /\ headerDurable' >= headerDurable]_vars

\* The pipeline implements CommitSpec: in-order commit of durable entries only.
Abstract == INSTANCE CommitSpec WITH
  issued <- next - 1, durable <- durable, committed <- committed, persisted <- header
ImplementsCommitSpec == Abstract!Spec

IsWaiting(c) == fut[c].kind # "none" /\ pc[c] # "done"

\* A wait for a timestamp that some entry has ends, even when other futures own
\* the batches in front of it.
WaitEnds ==
  \A c \in Clients : (IsWaiting(c) /\ fut[c].timestamp < next) ~> ~IsWaiting(c)

\* doc/libpmemstream.7.md: "When all slots are taken, a thread has to wait for
\* some of the previous operations to finish."  An append waits for a slot no
\* longer than that.
SlotWaitEnds ==
  \A c \in Clients : pc[c] = "slot_wait" ~> pc[c] = "fetch"

\* The comment in mark_timestamp_batch_as_committed: "To avoid deadlocks, we
\* cannot proceed - we need to wait on other concurrent operations to finish."
MarkReturns ==
  \A c \in Clients : pc[c] = "await_committed" ~> pc[c] # "await_committed"
=============================================================================

------------------------ MODULE CommitPipelineProofs ------------------------
(***************************************************************************)
(* Theorems about CommitPipeline, for every value of its constants: types, *)
(* the published timestamps, and the batches, where every timestamp        *)
(* between the committed and the processing one has exactly one holder;    *)
(* and about its slots: the semaphore counts them, a slot is reused only   *)
(* when its operation is committed, and what is committed is durable.      *)
(* With them the pipeline implements CommitSpec.                           *)
(***************************************************************************)
EXTENDS FiniteSetTheorems, Integers, CommitPipeline, TLAPS

ClientStep(c) ==
  \/ AppendBegin(c)
  \/ \E kind \in WaitKinds, n \in InitialTimestamp + 1 .. next - 1 : WaitBegin(c, kind, n)
  \/ TryWait(c) \/ SlotWait(c) \/ FetchAdd(c) \/ FillSlot(c) \/ PublishTimestamp(c)
  \/ LoadCommitted(c) \/ LoadProcessing(c) \/ CasProcessing(c) \/ Process(c)
  \/ PopReady(c) \/ ClearSlots(c) \/ AddCommitted(c) \/ PostSlot(c) \/ IncreaseReturns(c)
  \/ InsertReady(c) \/ InsertFails(c) \/ AwaitCommitted(c)
  \/ LoadPersisted(c) \/ CasHeader(c) \/ PersistHeader(c) \/ CasPersisted(c)
  \/ WaitReturns(c)

\* A step is a step of one client or of the data mover.
LEMMA NextCases ==
  Next <=> \/ \E c \in Clients : ClientStep(c)
           \/ \E n \in copying : CopyDone(n)
BY DEF Next, ClientStep, Append, Poll, Increase

-----------------------------------------------------------------------------
(* Type correctness.  The operands of the subtractions are unsigned: they   *)
(* stay in Nat because a future's range is ordered, a future that goes for  *)
(* a batch lies beyond the processing timestamp it loaded, and the batch    *)
(* being committed is the processed part of the range.                      *)

WellFormed(label, f, l) ==
  /\ label \in Labels /\ f \in Futures /\ l \in Locals
  /\ f.first <= f.processing /\ f.processing <= f.last
  /\ label = "cas_processing" => l.processing < f.timestamp
  /\ label = "process" => f.processing < f.last
  /\ label \in {"clear_slots", "add_committed"} /\ l.own => l.num = f.processing - f.first

TypeInv == TypeOK /\ \A c \in Clients : WellFormed(pc[c], fut[c], loc[c])

\* Client c goes to label, its future and its locals become f and l.
Moves(c, label, f, l) ==
  /\ pc' = [pc EXCEPT ![c] = label]
  /\ fut' = [fut EXCEPT ![c] = f]
  /\ loc' = [loc EXCEPT ![c] = l]

USE PipelineAssumption

LEMMA LabelType == \A label \in {"idle", "trywait", "slot_wait", "fetch", "fill", "publish",
  "load_persisted", "load_committed", "load_processing", "cas_processing", "process",
  "pop", "clear_slots", "add_committed", "post_slots", "insert", "await_committed",
  "cas_header", "persist_header", "cas_persisted", "done"} : label \in Labels
BY DEF Labels

LEMMA NoFutureType ==
  /\ NoFuture \in Futures /\ NoFuture.first = 0 /\ NoFuture.processing = 0 /\ NoFuture.last = 0
  /\ NoLocals \in Locals
BY DEF NoFuture, NoLocals, Futures, Locals

LEMMA NewFutureType ==
  ASSUME NEW kind \in {"committed", "persisted", "slot"}, NEW n \in Nat
  PROVE  /\ NewFuture(kind, n) \in Futures
         /\ NewFuture(kind, n).kind = kind /\ NewFuture(kind, n).timestamp = n
         /\ NewFuture(kind, n).first = 0 /\ NewFuture(kind, n).processing = 0
         /\ NewFuture(kind, n).last = 0
BY DEF NewFuture, NoFuture, Futures

LEMMA PollStartType == \A f : PollStart(f) \in {"load_persisted", "load_committed"} /\ PollStart(f) \in Labels
BY DEF PollStart, Labels

LEMMA TypeInvInit == Init => TypeInv
<1> SUFFICES ASSUME Init PROVE TypeInv
  OBVIOUS
<1>1. TypeOK
  BY NoFutureType, LabelType DEF Init, TypeOK, Batches, SlotArrays, SlotCount, InvalidTimestamp
<1>2. ASSUME NEW c \in Clients PROVE WellFormed(pc[c], fut[c], loc[c])
  BY NoFutureType, LabelType DEF Init, WellFormed
<1> QED BY <1>1, <1>2 DEF TypeInv

\* What is left to show of a step in which one client moves.
LEMMA MovePreservesTypes ==
  ASSUME TypeInv, NEW c \in Clients, NEW label, NEW f, NEW l,
         Moves(c, label, f, l), WellFormed(label, f, l)
  PROVE  /\ pc' \in [Clients -> Labels] /\ fut' \in [Clients -> Futures]
         /\ loc' \in [Clients -> Locals]
         /\ (\A d \in Clients : WellFormed(pc[d], fut[d], loc[d]))'
<1>1. /\ pc' \in [Clients -> Labels] /\ fut' \in [Clients -> Futures]
      /\ loc' \in [Clients -> Locals]
  BY DEF TypeInv, TypeOK, Moves, WellFormed
<1>2. ASSUME NEW d \in Clients PROVE WellFormed(pc'[d], fut'[d], loc'[d])
  <2>1. CASE d = c
    BY <2>1 DEF TypeInv, TypeOK, Moves
  <2>2. CASE d # c
    BY <2>2 DEF TypeInv, TypeOK, Moves
  <2> QED BY <2>1, <2>2
<1> QED BY <1>1, <1>2

SharedTypes ==
  /\ next \in Nat /\ processing \in Nat /\ committed \in Nat
  /\ persisted \in Nat /\ header \in Nat /\ headerDurable \in Nat
  /\ semaphore \in Nat /\ budget \in Nat
  /\ ready \subseteq Batches /\ slots \in SlotArrays
  /\ copying \subseteq Nat /\ durable \subseteq Nat

LEMMA TypeInvFromMove ==
  ASSUME TypeInv, NEW c \in Clients, NEW label, NEW f, NEW l,
         Moves(c, label, f, l), WellFormed(label, f, l), SharedTypes'
  PROVE  TypeInv'
BY MovePreservesTypes DEF TypeInv, TypeOK, SharedTypes

\* The locals and the future of a client that only moves to another label.
LEMMA StayMoves ==
  ASSUME TypeInv, NEW c \in Clients, NEW label, Goto(c, label), UNCHANGED <<fut, loc>>
  PROVE  Moves(c, label, fut[c], loc[c])
BY DEF TypeInv, TypeOK, Goto, Moves

LEMMA ReturnMoves ==
  ASSUME TypeInv, NEW c \in Clients, NEW f \in Futures, f.first <= f.processing,
         f.processing <= f.last, ReturnRunning(c, f)
  PROVE  /\ Moves(c, PollStart(f), f, NoLocals)
         /\ WellFormed(PollStart(f), f, NoLocals)
BY NoFutureType, PollStartType DEF ReturnRunning, Goto, Moves, WellFormed

IncreaseLabel == IF DebugBuild THEN "clear_slots" ELSE "add_committed"
OwnLocals(f, l) == [l EXCEPT !.num = BatchSize(f), !.own = TRUE]

LEMMA CommitOwnMoves ==
  ASSUME TypeInv, NEW c \in Clients, NEW f \in Futures, NEW l \in Locals,
         f.first <= f.processing, f.processing <= f.last, CommitOwnBatch(c, f, l)
  PROVE  /\ Moves(c, IncreaseLabel, f, OwnLocals(f, l))
         /\ WellFormed(IncreaseLabel, f, OwnLocals(f, l))
<1>1. BatchSize(f) \in Nat /\ BatchSize(f) = f.processing - f.first
  BY DEF BatchSize, Futures
<1>2. OwnLocals(f, l) \in Locals /\ OwnLocals(f, l).num = BatchSize(f)
  BY <1>1 DEF OwnLocals, Locals
<1>3. IncreaseLabel \in {"clear_slots", "add_committed"} /\ IncreaseLabel \in Labels
  BY LabelType DEF IncreaseLabel
<1>4. Moves(c, IncreaseLabel, f, OwnLocals(f, l))
  BY DEF CommitOwnBatch, CallIncrease, Goto, Moves, IncreaseLabel, OwnLocals
<1> QED
  BY <1>1, <1>2, <1>3, <1>4 DEF WellFormed

LEMMA AfterProcessMoves ==
  ASSUME TypeInv, NEW c \in Clients, NEW f \in Futures, NEW l \in Locals,
         f.first <= f.processing, f.processing <= f.last, AfterProcess(c, f, l)
  PROVE  \/ /\ IsHead(f, l)
            /\ Moves(c, IncreaseLabel, f, OwnLocals(f, l))
            /\ WellFormed(IncreaseLabel, f, OwnLocals(f, l))
         \/ /\ ~IsHead(f, l)
            /\ Moves(c, "pop", f, l)
            /\ WellFormed("pop", f, l)
<1>1. CASE IsHead(f, l)
  BY <1>1, CommitOwnMoves DEF AfterProcess
<1>2. CASE ~IsHead(f, l)
  BY <1>2, LabelType DEF AfterProcess, Goto, Moves, WellFormed
<1> QED BY <1>1, <1>2

LEMMA FinishPollMoves ==
  ASSUME TypeInv, NEW c \in Clients, FinishPoll(c, fut[c], loc[c])
  PROVE  \/ /\ IsHead(fut[c], loc[c])
            /\ Moves(c, IncreaseLabel, fut[c], OwnLocals(fut[c], loc[c]))
            /\ WellFormed(IncreaseLabel, fut[c], OwnLocals(fut[c], loc[c]))
         \/ /\ ~IsHead(fut[c], loc[c])
            /\ ShouldAcquire(fut[c])
            /\ Moves(c, "insert", fut[c], loc[c])
            /\ WellFormed("insert", fut[c], loc[c])
         \/ /\ ~IsHead(fut[c], loc[c])
            /\ ~ShouldAcquire(fut[c])
            /\ Moves(c, PollStart(fut[c]), fut[c], NoLocals)
            /\ WellFormed(PollStart(fut[c]), fut[c], NoLocals)
<1>0. WellFormed(pc[c], fut[c], loc[c])
  BY DEF TypeInv
<1>1. CASE IsHead(fut[c], loc[c])
  BY <1>0, <1>1, CommitOwnMoves DEF FinishPoll, WellFormed
<1>2. CASE ~IsHead(fut[c], loc[c]) /\ ShouldAcquire(fut[c])
  BY <1>0, <1>2, LabelType, StayMoves DEF FinishPoll, WellFormed
<1>3. CASE ~IsHead(fut[c], loc[c]) /\ ~ShouldAcquire(fut[c])
  BY <1>0, <1>3, ReturnMoves DEF FinishPoll, WellFormed
<1> QED BY <1>1, <1>2, <1>3

LEMMA TypeInvAppend ==
  ASSUME TypeInv, NEW c \in Clients, AppendBegin(c) \/ Append(c)
  PROVE  TypeInv'
<1> USE DEF TypeInv, TypeOK
<1>0. WellFormed(pc[c], fut[c], loc[c])
  OBVIOUS
<1>1. CASE AppendBegin(c)
  <2>1. Moves(c, "trywait", fut[c], loc[c]) /\ WellFormed("trywait", fut[c], loc[c])
    BY <1>0, <1>1, LabelType, StayMoves DEF AppendBegin, WellFormed
  <2> QED BY <1>1, <2>1, TypeInvFromMove DEF AppendBegin, SharedTypes
<1>2. CASE TryWait(c)
  <2>1. PICK label \in {"fetch", "slot_wait"} : Goto(c, label)
    BY <1>2 DEF TryWait
  <2>2. Moves(c, label, fut[c], loc[c]) /\ WellFormed(label, fut[c], loc[c])
    BY <1>0, <1>2, <2>1, LabelType, StayMoves DEF TryWait, WellFormed
  <2> QED BY <1>2, <2>2, TypeInvFromMove DEF TryWait, SharedTypes
<1>3. CASE SlotWait(c)
  <2>1. Moves(c, "load_committed", NewFuture("slot", committed + 1), loc[c])
    BY <1>3 DEF SlotWait, Goto, Moves
  <2>2. WellFormed("load_committed", NewFuture("slot", committed + 1), loc[c])
    BY <1>0, LabelType, NewFutureType DEF WellFormed
  <2> QED BY <1>3, <2>1, <2>2, TypeInvFromMove DEF SlotWait, SharedTypes, shared
<1>4. CASE FetchAdd(c)
  <2> DEFINE l == [loc[c] EXCEPT !.timestamp = next]
  <2>1. Moves(c, "fill", fut[c], l)
    BY <1>4 DEF FetchAdd, Goto, Moves
  <2>2. WellFormed("fill", fut[c], l)
    BY <1>0, LabelType DEF WellFormed, Locals
  <2> QED BY <1>4, <2>1, <2>2, TypeInvFromMove DEF FetchAdd, SharedTypes
<1>5. CASE FillSlot(c)
  <2>1. Moves(c, "publish", fut[c], loc[c]) /\ WellFormed("publish", fut[c], loc[c])
    BY <1>0, <1>5, LabelType, StayMoves DEF FillSlot, WellFormed
  <2>2. loc[c].timestamp \in Nat
    BY <1>0 DEF WellFormed, Locals
  <2>3. slots' \in SlotArrays
    BY <1>5, <2>2 DEF FillSlot, SlotIndex, SlotArrays
  <2> QED BY <1>5, <2>1, <2>2, <2>3, TypeInvFromMove DEF FillSlot, SharedTypes
<1>6. CASE PublishTimestamp(c)
  <2>1. Moves(c, "idle", fut[c], NoLocals)
    BY <1>6 DEF PublishTimestamp, Goto, Moves
  <2>2. WellFormed("idle", fut[c], NoLocals)
    BY <1>0, LabelType, NoFutureType DEF WellFormed
  <2>3. loc[c].timestamp \in Nat
    BY <1>0 DEF WellFormed, Locals
  <2>4. slots' \in SlotArrays
    BY <1>6, <2>3 DEF PublishTimestamp, SlotIndex, SlotArrays
  <2> QED BY <1>6, <2>1, <2>2, <2>4, TypeInvFromMove DEF PublishTimestamp, SharedTypes
<1> QED BY <1>1, <1>2, <1>3, <1>4, <1>5, <1>6 DEF Append

LEMMA TypeInvWait ==
  ASSUME TypeInv, NEW c \in Clients
  PROVE  /\ \A kind \in WaitKinds, n \in InitialTimestamp + 1 .. next - 1 :
              WaitBegin(c, kind, n) => TypeInv'
         /\ LoadCommitted(c) \/ LoadProcessing(c) \/ CasProcessing(c) \/ Process(c) => TypeInv'
<1> USE DEF TypeInv, TypeOK
<1>0. WellFormed(pc[c], fut[c], loc[c])
  OBVIOUS
<1>1. ASSUME NEW kind \in WaitKinds, NEW n \in InitialTimestamp + 1 .. next - 1,
             WaitBegin(c, kind, n)
      PROVE  TypeInv'
  <2> DEFINE f == NewFuture(kind, n)
  <2>1. Moves(c, PollStart(f), f, loc[c])
    BY <1>1 DEF WaitBegin, Goto, Moves
  <2>2. WellFormed(PollStart(f), f, loc[c])
    BY <1>0, PollStartType, NewFutureType DEF WellFormed
  <2> QED BY <1>1, <2>1, <2>2, TypeInvFromMove DEF WaitBegin, SharedTypes, shared
<1>2. ASSUME LoadCommitted(c) PROVE TypeInv'
  <2> DEFINE f == fut[c]
             l == [loc[c] EXCEPT !.committed = committed]
             l0 == [l EXCEPT !.committed = 0]
  <2>0. /\ f \in Futures /\ l \in Locals /\ l0 \in Locals
        /\ f.first <= f.processing /\ f.processing <= f.last
        /\ SharedTypes'
    BY <1>0, <1>2 DEF WellFormed, Locals, LoadCommitted, shared, SharedTypes
  <2>1. CASE IsCommitted(f)
    <3>1. Completed(c, l0)
      BY <1>2, <2>1 DEF LoadCommitted
    <3>2. PICK label \in {"cas_header", "done", "trywait"}, g \in {f, NoFuture} :
            Moves(c, label, g, l0)
      BY <3>1 DEF Completed, Goto, Moves
    <3>3. WellFormed(label, g, l0)
      BY <2>0, LabelType, NoFutureType DEF WellFormed
    <3> QED BY <2>0, <3>2, <3>3, TypeInvFromMove
  <2>2. CASE ~IsCommitted(f) /\ AfterProcess(c, f, l)
    BY <2>0, <2>2, AfterProcessMoves, TypeInvFromMove
  <2>3. CASE ~IsCommitted(f) /\ ~AfterProcess(c, f, l)
    <3>1. PICK label \in {"load_processing", "process"} :
            Moves(c, label, f, l) /\ (label = "process" => f.processing < f.last)
      BY <1>2, <2>3 DEF LoadCommitted, Goto, Moves
    <3>2. WellFormed(label, f, l)
      BY <2>0, <3>1, LabelType DEF WellFormed
    <3> QED BY <2>0, <3>1, <3>2, TypeInvFromMove
  <2> QED BY <2>1, <2>2, <2>3
<1>3. ASSUME LoadProcessing(c) PROVE TypeInv'
  <2>0. SharedTypes'
    BY <1>3 DEF LoadProcessing, shared, SharedTypes
  <2>1. CASE OwnedByOther(fut[c])
    BY <1>0, <1>3, <2>0, <2>1, ReturnMoves, TypeInvFromMove DEF LoadProcessing, WellFormed
  <2>2. CASE ~OwnedByOther(fut[c])
    <3> DEFINE l == [loc[c] EXCEPT !.processing = processing]
    <3>1. Moves(c, "cas_processing", fut[c], l)
      BY <1>3, <2>2 DEF LoadProcessing, Goto, Moves
    <3>2. WellFormed("cas_processing", fut[c], l)
      BY <1>0, <2>2, LabelType DEF OwnedByOther, WellFormed, Futures, Locals
    <3> QED BY <2>0, <3>1, <3>2, TypeInvFromMove
  <2> QED BY <2>1, <2>2
<1>4. ASSUME CasProcessing(c) PROVE TypeInv'
  <2> DEFINE current == loc[c].processing
             last == LastOfBatch(fut[c].timestamp, current)
  <2>1. CASE CasSucceeds(processing, current)
    <3> DEFINE f == [fut[c] EXCEPT !.first = current, !.processing = current, !.last = last]
               l == [loc[c] EXCEPT !.processing = 0]
    <3>1. Moves(c, "process", f, l) /\ processing' = last
      BY <1>4, <2>1 DEF CasProcessing, Goto, Moves
    <3>2. current \in Nat /\ last \in Nat /\ current < last
      BY <1>0, <1>4 DEF CasProcessing, WellFormed, Locals, Futures, LastOfBatch
    <3>3. f \in Futures /\ f.first = current /\ f.processing = current /\ f.last = last
      BY <1>0, <3>2 DEF WellFormed, Futures
    <3>4. l \in Locals
      BY <1>0 DEF WellFormed, Locals
    <3>5. WellFormed("process", f, l)
      BY <3>2, <3>3, <3>4, LabelType DEF WellFormed
    <3> QED BY <1>4, <3>1, <3>2, <3>5, TypeInvFromMove DEF CasProcessing, SharedTypes
  <2>2. CASE ~CasSucceeds(processing, current)
    BY <1>0, <1>4, <2>2, ReturnMoves, TypeInvFromMove DEF CasProcessing, WellFormed, SharedTypes
  <2> QED BY <2>1, <2>2
<1>5. ASSUME Process(c) PROVE TypeInv'
  <2> DEFINE n == fut[c].processing + 1
             slot == slots[SlotIndex(n)]
             f == [fut[c] EXCEPT !.processing = @ + 1]
  <2>1. CASE OpIsComplete(slot, n)
    <3>1. /\ f \in Futures /\ f.first <= f.processing /\ f.processing <= f.last
          /\ n \in Nat
      BY <1>0, <1>5 DEF Process, WellFormed, Futures
    <3>2. slot.op \in Nat
      BY <3>1, SMTT(30) DEF SlotIndex, SlotArrays
    <3>3. AfterProcess(c, f, loc[c]) /\ SharedTypes'
      BY <1>5, <2>1, <3>2 DEF Process, SharedTypes
    <3>4. loc[c] \in Locals
      BY <1>0 DEF WellFormed
    <3> HIDE DEF f, TypeInv, TypeOK
    <3>5. \E label, l : Moves(c, label, f, l) /\ WellFormed(label, f, l)
      BY <3>1, <3>3, <3>4, AfterProcessMoves
    <3> QED BY <3>3, <3>5, TypeInvFromMove
  <2>2. CASE ~OpIsComplete(slot, n)
    BY <1>0, <1>5, <2>2, ReturnMoves, TypeInvFromMove DEF Process, WellFormed, SharedTypes
  <2> QED BY <2>1, <2>2
<1> QED BY <1>1, <1>2, <1>3, <1>4, <1>5

PoppedLocals(l, k) == [l EXCEPT !.committed = @ + k, !.num = k, !.own = FALSE]

LEMMA PoppedLocalsType ==
  ASSUME NEW l \in Locals, NEW k \in Nat
  PROVE  PoppedLocals(l, k) \in Locals /\ ~PoppedLocals(l, k).own
<1>1. l.committed + k \in Nat
  BY DEF Locals
<1>2. [[l EXCEPT !.committed = @ + k] EXCEPT !.num = k] \in Locals
  BY <1>1 DEF Locals
<1> QED BY <1>1, <1>2 DEF PoppedLocals, Locals

\* pmemstream_process_ready_timestamp_batches and
\* pmemstream_increase_committed_timestamp
LEMMA TypeInvCommit ==
  ASSUME TypeInv, NEW c \in Clients
  PROVE  /\ PopReady(c) => TypeInv'
         /\ Increase(c) => TypeInv'
<1> USE DEF TypeInv, TypeOK
<1>0. WellFormed(pc[c], fut[c], loc[c])
  OBVIOUS
<1>1. ASSUME PopReady(c) PROVE TypeInv'
  <2> DEFINE found == {b \in ready : b[1] = loc[c].committed}
  <2>0. SharedTypes'
    BY <1>1 DEF PopReady, SharedTypes
  <2>1. ASSUME NEW b \in found,
               CallIncrease(c, fut[c], [loc[c] EXCEPT !.committed = @ + b[2],
                                                     !.num = b[2], !.own = FALSE])
        PROVE  TypeInv'
    <3> DEFINE l == PoppedLocals(loc[c], b[2])
    <3>1. b[2] \in Nat
      BY DEF Batches
    <3>2. l \in Locals /\ ~l.own
      BY <1>0, <3>1, PoppedLocalsType DEF WellFormed
    <3>3. Moves(c, IncreaseLabel, fut[c], l)
      BY <2>1 DEF PoppedLocals, CallIncrease, Goto, Moves, IncreaseLabel
    <3>4. WellFormed(IncreaseLabel, fut[c], l)
      BY <1>0, <3>2, LabelType DEF WellFormed, IncreaseLabel
    <3> QED BY <2>0, <3>3, <3>4, TypeInvFromMove
  <2>2. ASSUME FinishPoll(c, fut[c], loc[c]) PROVE TypeInv'
    <3> HIDE DEF TypeInv, TypeOK
    <3>1. \E label, f, l : Moves(c, label, f, l) /\ WellFormed(label, f, l)
      BY <2>2, FinishPollMoves
    <3> QED BY <2>0, <3>1, TypeInvFromMove
  <2> QED BY <1>1, <2>1, <2>2 DEF PopReady
<1>2. ASSUME Increase(c) PROVE TypeInv'
  <2>1. CASE ClearSlots(c)
    <3>1. Moves(c, "add_committed", fut[c], loc[c])
      BY <2>1, StayMoves DEF ClearSlots
    <3>2. WellFormed("add_committed", fut[c], loc[c])
      BY <1>0, <2>1, LabelType DEF ClearSlots, WellFormed
    <3>3. slots' \in SlotArrays
      BY <2>1 DEF ClearSlots, SlotArrays, InvalidTimestamp
    <3> QED BY <2>1, <3>1, <3>2, <3>3, TypeInvFromMove DEF ClearSlots, SharedTypes
  <2>2. CASE AddCommitted(c)
    <3> DEFINE f == [fut[c] EXCEPT !.first = IF loc[c].own THEN @ + loc[c].num ELSE @]
    <3>1. Moves(c, "post_slots", f, loc[c])
      BY <2>2 DEF AddCommitted, Goto, Moves
    <3>2. f \in Futures /\ f.first <= f.processing /\ f.processing <= f.last
      <4>1. CASE loc[c].own
        <5>1. fut[c].first + loc[c].num = fut[c].processing
          BY <1>0, <2>2, <4>1 DEF AddCommitted, WellFormed, Futures
        <5> QED BY <1>0, <4>1, <5>1 DEF WellFormed, Futures
      <4>2. CASE ~loc[c].own
        BY <1>0, <4>2 DEF WellFormed, Futures
      <4> QED BY <4>1, <4>2
    <3>3. WellFormed("post_slots", f, loc[c]) /\ loc[c].num \in Nat
      BY <1>0, <3>2, LabelType DEF WellFormed, Locals
    <3> QED BY <2>2, <3>1, <3>3, TypeInvFromMove DEF AddCommitted, SharedTypes
  <2>3. CASE PostSlot(c)
    <3> DEFINE l == [loc[c] EXCEPT !.num = @ - 1]
    <3>1. Moves(c, "post_slots", fut[c], l)
      BY <2>3 DEF PostSlot, Moves
    <3>2. WellFormed("post_slots", fut[c], l)
      BY <1>0, <2>3, LabelType DEF PostSlot, WellFormed, Locals
    <3> QED BY <2>3, <3>1, <3>2, TypeInvFromMove DEF PostSlot, SharedTypes
  <2>4. CASE IncreaseReturns(c)
    <3>1. CASE loc[c].own
      BY <1>0, <2>4, <3>1, ReturnMoves, TypeInvFromMove
         DEF IncreaseReturns, WellFormed, shared, SharedTypes
    <3>2. CASE ~loc[c].own
      <4>1. Moves(c, "pop", fut[c], loc[c]) /\ WellFormed("pop", fut[c], loc[c])
        BY <1>0, <2>4, <3>2, LabelType, StayMoves DEF IncreaseReturns, WellFormed
      <4> QED BY <2>4, <4>1, TypeInvFromMove DEF IncreaseReturns, shared, SharedTypes
    <3> QED BY <3>1, <3>2
  <2> QED BY <1>2, <2>1, <2>2, <2>3, <2>4 DEF Increase
<1> QED BY <1>1, <1>2

\* pmemstream_mark_timestamp_batch_as_committed
LEMMA TypeInvMark ==
  ASSUME TypeInv, NEW c \in Clients,
         InsertReady(c) \/ InsertFails(c) \/ AwaitCommitted(c)
  PROVE  TypeInv'
<1> USE DEF TypeInv, TypeOK
<1>0. WellFormed(pc[c], fut[c], loc[c])
  OBVIOUS
<1>1. CASE InsertReady(c)
  <2>1. <<fut[c].first, BatchSize(fut[c])>> \in Batches
    BY <1>0 DEF WellFormed, Futures, BatchSize, Batches
  <2>2. SharedTypes' /\ ReturnRunning(c, fut[c])
    BY <1>1, <2>1 DEF InsertReady, SharedTypes
  <2> QED BY <1>0, <2>2, ReturnMoves, TypeInvFromMove DEF WellFormed
<1>2. CASE InsertFails(c)
  <2>1. Moves(c, "await_committed", fut[c], loc[c])
    BY <1>2, StayMoves DEF InsertFails
  <2>2. WellFormed("await_committed", fut[c], loc[c])
    BY <1>0, LabelType DEF WellFormed
  <2> QED BY <1>2, <2>1, <2>2, TypeInvFromMove DEF InsertFails, shared, SharedTypes
<1>3. CASE AwaitCommitted(c)
  BY <1>0, <1>3, CommitOwnMoves, TypeInvFromMove
     DEF AwaitCommitted, WellFormed, shared, SharedTypes
<1> QED BY <1>1, <1>2, <1>3

\* The rest of pmemstream_async_wait_persisted.
LEMMA TypeInvPersist ==
  ASSUME TypeInv, NEW c \in Clients,
         \/ LoadPersisted(c) \/ CasHeader(c) \/ PersistHeader(c)
         \/ CasPersisted(c) \/ WaitReturns(c)
  PROVE  TypeInv'
<1> USE DEF TypeInv, TypeOK
<1>0. WellFormed(pc[c], fut[c], loc[c]) /\ fut[c].timestamp \in Nat
  BY DEF WellFormed, Futures
<1>1. CASE LoadPersisted(c)
  <2> DEFINE l == [loc[c] EXCEPT !.persisted = persisted]
  <2>1. PICK label \in {"done", "load_committed"}, g \in {loc[c], l} :
          Moves(c, label, fut[c], g)
    BY <1>1 DEF LoadPersisted, Goto, Moves
  <2>2. l \in Locals
    BY <1>0 DEF WellFormed, Locals
  <2>3. WellFormed(label, fut[c], g)
    BY <1>0, <2>2, LabelType DEF WellFormed
  <2> QED BY <1>1, <2>1, <2>3, TypeInvFromMove DEF LoadPersisted, shared, SharedTypes
<1>2. CASE CasHeader(c)
  <2>1. CASE CasSucceeds(header, loc[c].persisted)
    <3>1. Moves(c, "persist_header", fut[c], loc[c])
      BY <1>2, <2>1, StayMoves DEF CasHeader
    <3>2. WellFormed("persist_header", fut[c], loc[c])
      BY <1>0, LabelType DEF WellFormed
    <3> QED BY <1>0, <1>2, <2>1, <3>1, <3>2, TypeInvFromMove DEF CasHeader, SharedTypes
  <2>2. CASE ~CasSucceeds(header, loc[c].persisted)
    BY <1>0, <1>2, <2>2, ReturnMoves, TypeInvFromMove DEF CasHeader, WellFormed, SharedTypes
  <2> QED BY <2>1, <2>2
<1>3. CASE PersistHeader(c)
  <2>1. Moves(c, "cas_persisted", fut[c], loc[c])
    BY <1>3, StayMoves DEF PersistHeader
  <2>2. WellFormed("cas_persisted", fut[c], loc[c])
    BY <1>0, LabelType DEF WellFormed
  <2> QED BY <1>3, <2>1, <2>2, TypeInvFromMove DEF PersistHeader, SharedTypes
<1>4. CASE CasPersisted(c)
  <2>1. Moves(c, "done", fut[c], loc[c])
    BY <1>4, StayMoves DEF CasPersisted
  <2>2. WellFormed("done", fut[c], loc[c])
    BY <1>0, LabelType DEF WellFormed
  <2> QED BY <1>0, <1>4, <2>1, <2>2, TypeInvFromMove DEF CasPersisted, SharedTypes
<1>5. CASE WaitReturns(c)
  <2>1. Moves(c, "idle", NoFuture, NoLocals)
    BY <1>5 DEF WaitReturns, Goto, Moves
  <2>2. WellFormed("idle", NoFuture, NoLocals)
    BY LabelType, NoFutureType DEF WellFormed
  <2> QED BY <1>5, <2>1, <2>2, TypeInvFromMove DEF WaitReturns, shared, SharedTypes
<1> QED BY <1>1, <1>2, <1>3, <1>4, <1>5

LEMMA TypeInvNext == TypeInv /\ [Next]_vars => TypeInv'
<1> SUFFICES ASSUME TypeInv, [Next]_vars PROVE TypeInv'
  OBVIOUS
<1>1. ASSUME NEW c \in Clients, ClientStep(c) PROVE TypeInv'
  BY <1>1, TypeInvAppend, TypeInvWait, TypeInvCommit, TypeInvMark, TypeInvPersist
     DEF ClientStep, Append, Increase
<1>2. ASSUME NEW n \in copying, CopyDone(n) PROVE TypeInv'
  BY <1>2 DEF CopyDone, TypeInv, TypeOK
<1>3. CASE UNCHANGED vars
  BY <1>3 DEF vars, shared, TypeInv, TypeOK
<1> QED BY <1>1, <1>2, <1>3, NextCases

\* The two facts about a future's range that the code's asserts and its
\* unsigned subtractions need hold with the types, in every reachable state.
THEOREM TypeInvariant == Spec => []TypeInv
<1> QED BY TypeInvInit, TypeInvNext, PTL DEF Spec

\* Every variable of the pipeline keeps its type; no subtraction wraps.
THEOREM TypeCorrect == Spec => []TypeOK
<1>1. TypeInv => TypeOK
  BY DEF TypeInv
<1> QED BY <1>1, TypeInvariant, PTL

-----------------------------------------------------------------------------
(* The persisted timestamp.  A poll of wait_persisted carries the value of  *)
(* persisted_timestamp it loaded, which is below the timestamp it waits     *)
(* for; that and the order of its steps (committed, header, medium, DRAM)   *)
(* is all the two compare-and-swaps need, whatever the other clients do.    *)

PollLabels == {"load_committed", "load_processing", "cas_processing", "process", "pop",
  "clear_slots", "add_committed", "post_slots", "insert", "await_committed"}

PersistFacts(c) ==
  /\ pc[c] \in PollLabels /\ fut[c].kind = "persisted" => loc[c].persisted < fut[c].timestamp
  /\ pc[c] \in {"cas_header", "persist_header", "cas_persisted"} =>
       fut[c].kind = "persisted" /\ loc[c].persisted < fut[c].timestamp
  /\ pc[c] = "cas_header" => fut[c].timestamp <= committed
  /\ pc[c] = "persist_header" => fut[c].timestamp <= header
  /\ pc[c] = "cas_persisted" => fut[c].timestamp <= headerDurable
  /\ pc[c] = "done" => /\ fut[c].timestamp <= committed
                       /\ fut[c].kind = "persisted" => fut[c].timestamp <= headerDurable

PersistInv == TimestampsOrdered /\ \A c \in Clients : PersistFacts(c)

NeverDecrease ==
  /\ committed' >= committed /\ persisted' >= persisted
  /\ header' >= header /\ headerDurable' >= headerDurable

\* What a step of client c has to establish.
PersistStep(c) == NeverDecrease /\ TimestampsOrdered' /\ PersistFacts(c)'

OnlyMoves(c) ==
  \A d \in Clients \ {c} : pc'[d] = pc[d] /\ fut'[d] = fut[d] /\ loc'[d] = loc[d]

\* The poll goes on: neither the future's wait nor the loaded value changes.
PollGoesOn(c) ==
  /\ pc[c] \in PollLabels /\ pc'[c] \in PollLabels
  /\ fut'[c].kind = fut[c].kind /\ fut'[c].timestamp = fut[c].timestamp
  /\ loc'[c].persisted = loc[c].persisted

LEMMA FieldTypes ==
  ASSUME TypeInv, NEW c \in Clients
  PROVE  /\ fut[c].timestamp \in Nat /\ loc[c].persisted \in Nat /\ loc[c].num \in Nat
         /\ pc[c] \in Labels /\ fut[c] \in Futures /\ loc[c] \in Locals
         /\ persisted \in Nat /\ header \in Nat /\ headerDurable \in Nat /\ committed \in Nat
         /\ pc \in [Clients -> Labels] /\ fut \in [Clients -> Futures]
         /\ loc \in [Clients -> Locals]
<1>1. fut[c] \in Futures /\ loc[c] \in Locals
  BY DEF TypeInv, TypeOK
<1> QED BY <1>1 DEF TypeInv, TypeOK, Futures, Locals

LEMMA PersistInvFromStep ==
  ASSUME TypeInv, PersistInv, NEW c \in Clients, OnlyMoves(c), PersistStep(c), TypeInv'
  PROVE  PersistInv'
<1>1. ASSUME NEW d \in Clients PROVE PersistFacts(d)'
  <2>1. CASE d = c
    BY <2>1 DEF PersistStep
  <2>2. CASE d # c
    <3>1. /\ fut[d].timestamp \in Nat /\ committed \in Nat /\ header \in Nat
          /\ headerDurable \in Nat
      BY FieldTypes
    <3>2. committed' \in Nat /\ header' \in Nat /\ headerDurable' \in Nat
      BY DEF TypeInv, TypeOK
    <3> QED BY <2>2, <3>1, <3>2 DEF PersistStep, OnlyMoves, NeverDecrease, PersistInv, PersistFacts
  <2> QED BY <2>1, <2>2
<1> QED BY <1>1 DEF PersistInv, PersistStep

LEMMA QuietStep ==
  ASSUME TypeInv, PersistInv, NEW c \in Clients,
         UNCHANGED <<committed, persisted, header, headerDurable>>
  PROVE  NeverDecrease /\ TimestampsOrdered'
<1>1. committed \in Nat /\ persisted \in Nat /\ header \in Nat /\ headerDurable \in Nat
  BY FieldTypes
<1> QED BY <1>1 DEF PersistInv, NeverDecrease, TimestampsOrdered

LEMMA PollGoesOnFacts ==
  ASSUME PersistInv, NEW c \in Clients, PollGoesOn(c)
  PROVE  PersistFacts(c)'
BY DEF PersistInv, PollGoesOn, PersistFacts, PollLabels

LEMMA OutsidePollFacts ==
  ASSUME NEW c \in Clients,
         pc'[c] \in {"idle", "trywait", "slot_wait", "fetch", "fill", "publish", "load_persisted"}
  PROVE  PersistFacts(c)'
BY DEF PersistFacts, PollLabels

LEMMA StartFacts ==
  ASSUME NEW c \in Clients, pc'[c] = PollStart(fut'[c])
  PROVE  PersistFacts(c)'
BY DEF PollStart, PersistFacts, PollLabels

LEMMA ReturnFacts ==
  ASSUME TypeInv, NEW c \in Clients, NEW f, ReturnRunning(c, f)
  PROVE  PersistFacts(c)' /\ OnlyMoves(c)
<1>1. pc \in [Clients -> Labels] /\ fut \in [Clients -> Futures] /\ loc \in [Clients -> Locals]
  BY FieldTypes
<1>2. pc'[c] = PollStart(fut'[c]) /\ OnlyMoves(c)
  BY <1>1 DEF ReturnRunning, Goto, OnlyMoves
<1> QED BY <1>2, StartFacts

LEMMA GotoMoves ==
  ASSUME TypeInv, NEW c \in Clients, NEW label, Goto(c, label),
         \/ UNCHANGED <<fut, loc>>
         \/ \E f, l : fut' = [fut EXCEPT ![c] = f] /\ loc' = [loc EXCEPT ![c] = l]
  PROVE  pc'[c] = label /\ OnlyMoves(c)
<1>1. pc \in [Clients -> Labels] /\ fut \in [Clients -> Futures] /\ loc \in [Clients -> Locals]
  BY FieldTypes
<1> QED BY <1>1 DEF Goto, OnlyMoves

\* f and l differ from the client's future and locals in nothing that the
\* persisted timestamp depends on.
SameWait(c, f, l) ==
  /\ f.kind = fut[c].kind /\ f.timestamp = fut[c].timestamp
  /\ l.persisted = loc[c].persisted

LEMMA GoOnFacts ==
  ASSUME TypeInv, PersistInv, NEW c \in Clients, pc[c] \in PollLabels,
         NEW label \in PollLabels, NEW f, NEW l, Moves(c, label, f, l), SameWait(c, f, l)
  PROVE  PersistFacts(c)' /\ OnlyMoves(c)
<1>1. pc \in [Clients -> Labels] /\ fut \in [Clients -> Futures] /\ loc \in [Clients -> Locals]
  BY FieldTypes
<1>2. pc'[c] = label /\ fut'[c] = f /\ loc'[c] = l /\ OnlyMoves(c)
  BY <1>1 DEF Moves, OnlyMoves
<1> QED BY <1>2, PollGoesOnFacts DEF PollGoesOn, SameWait

LEMMA CallIncreaseFacts ==
  ASSUME TypeInv, PersistInv, NEW c \in Clients, pc[c] \in PollLabels,
         NEW f, NEW l, SameWait(c, f, l), CallIncrease(c, f, l)
  PROVE  PersistFacts(c)' /\ OnlyMoves(c)
<1>1. Moves(c, IncreaseLabel, f, l) /\ IncreaseLabel \in PollLabels
  BY DEF CallIncrease, Goto, Moves, IncreaseLabel, PollLabels
<1> QED BY <1>1, GoOnFacts

LEMMA CommitOwnFacts ==
  ASSUME TypeInv, PersistInv, NEW c \in Clients, pc[c] \in PollLabels,
         NEW f, NEW l \in Locals, SameWait(c, f, l), CommitOwnBatch(c, f, l)
  PROVE  PersistFacts(c)' /\ OnlyMoves(c)
<1> DEFINE k == [l EXCEPT !.num = BatchSize(f), !.own = TRUE]
<1>1. k.persisted = l.persisted
  BY DEF Locals
<1>2. SameWait(c, f, k)
  BY <1>1 DEF SameWait
<1> HIDE DEF k
<1>3. CallIncrease(c, f, k)
  BY DEF CommitOwnBatch, k
<1> QED BY <1>2, <1>3, CallIncreaseFacts

LEMMA AfterProcessFacts ==
  ASSUME TypeInv, PersistInv, NEW c \in Clients, pc[c] \in PollLabels,
         NEW f, NEW l \in Locals, SameWait(c, f, l), AfterProcess(c, f, l)
  PROVE  PersistFacts(c)' /\ OnlyMoves(c)
<1>1. CASE IsHead(f, l)
  BY <1>1, CommitOwnFacts DEF AfterProcess
<1>2. CASE ~IsHead(f, l)
  <2>1. Moves(c, "pop", f, l) /\ "pop" \in PollLabels
    BY <1>2 DEF AfterProcess, Goto, Moves, PollLabels
  <2> QED BY <2>1, GoOnFacts
<1> QED BY <1>1, <1>2

LEMMA FinishPollFacts ==
  ASSUME TypeInv, PersistInv, NEW c \in Clients, pc[c] \in PollLabels,
         FinishPoll(c, fut[c], loc[c])
  PROVE  PersistFacts(c)' /\ OnlyMoves(c)
<1>1. loc[c] \in Locals /\ SameWait(c, fut[c], loc[c])
  BY FieldTypes DEF SameWait
<1>2. CASE CommitOwnBatch(c, fut[c], loc[c])
  BY <1>1, <1>2, CommitOwnFacts
<1>3. CASE Goto(c, "insert") /\ UNCHANGED <<fut, loc>>
  BY <1>1, <1>3, StayMoves, GoOnFacts DEF PollLabels
<1>4. CASE ReturnRunning(c, fut[c])
  BY <1>4, ReturnFacts
<1> QED BY <1>2, <1>3, <1>4 DEF FinishPoll

LEMMA PersistInvAppend ==
  ASSUME TypeInv, PersistInv, NEW c \in Clients,
         \/ AppendBegin(c) \/ Append(c)
         \/ \E kind \in WaitKinds, n \in InitialTimestamp + 1 .. next - 1 : WaitBegin(c, kind, n)
  PROVE  PersistStep(c) /\ OnlyMoves(c)
<1>0. pc \in [Clients -> Labels] /\ fut \in [Clients -> Futures] /\ loc \in [Clients -> Locals]
  BY FieldTypes
<1>1. UNCHANGED <<committed, persisted, header, headerDurable>>
  BY DEF AppendBegin, Append, TryWait, SlotWait, FetchAdd, FillSlot, PublishTimestamp,
         WaitBegin, shared
<1>2. CASE AppendBegin(c) \/ TryWait(c) \/ FetchAdd(c) \/ FillSlot(c) \/ PublishTimestamp(c)
  <2>1. /\ pc'[c] \in {"idle", "trywait", "slot_wait", "fetch", "fill", "publish"}
        /\ OnlyMoves(c)
    BY <1>0, <1>2 DEF AppendBegin, TryWait, FetchAdd, FillSlot, PublishTimestamp, Goto, OnlyMoves
  <2> QED BY <1>1, <2>1, QuietStep, OutsidePollFacts DEF PersistStep
<1>3. CASE SlotWait(c)
  <2>1. pc'[c] = "load_committed" /\ fut'[c].kind = "slot" /\ OnlyMoves(c)
    BY <1>0, <1>3 DEF SlotWait, NewFuture, NoFuture, Goto, OnlyMoves
  <2>2. PersistFacts(c)'
    BY <2>1 DEF PersistFacts
  <2> QED BY <1>1, <2>1, <2>2, QuietStep DEF PersistStep
<1>4. ASSUME NEW kind \in WaitKinds, NEW n \in InitialTimestamp + 1 .. next - 1,
             WaitBegin(c, kind, n)
      PROVE  PersistStep(c) /\ OnlyMoves(c)
  <2>1. pc'[c] = PollStart(fut'[c]) /\ OnlyMoves(c)
    BY <1>0, <1>4 DEF WaitBegin, Goto, OnlyMoves
  <2> QED BY <1>1, <2>1, QuietStep, StartFacts DEF PersistStep
<1> QED BY <1>2, <1>3, <1>4 DEF Append

LEMMA PersistInvPoll ==
  ASSUME TypeInv, PersistInv, NEW c \in Clients,
         \/ LoadCommitted(c) \/ LoadProcessing(c) \/ CasProcessing(c) \/ Process(c)
         \/ PopReady(c) \/ InsertReady(c) \/ InsertFails(c) \/ AwaitCommitted(c)
  PROVE  PersistStep(c) /\ OnlyMoves(c)
<1>0. /\ pc \in [Clients -> Labels] /\ fut \in [Clients -> Futures] /\ loc \in [Clients -> Locals]
      /\ fut[c] \in Futures /\ loc[c] \in Locals /\ SameWait(c, fut[c], loc[c])
  BY FieldTypes DEF SameWait
<1>1. UNCHANGED <<committed, persisted, header, headerDurable>>
  BY DEF LoadCommitted, LoadProcessing, CasProcessing, Process, PopReady, InsertReady,
         InsertFails, AwaitCommitted, shared
<1>2. NeverDecrease /\ TimestampsOrdered'
  BY <1>1, QuietStep
<1>3. pc[c] \in PollLabels
  BY DEF LoadCommitted, LoadProcessing, CasProcessing, Process, PopReady, InsertReady,
         InsertFails, AwaitCommitted, PollLabels
<1>4. ASSUME LoadCommitted(c) PROVE PersistFacts(c)' /\ OnlyMoves(c)
  <2> DEFINE f == fut[c]
             l == [loc[c] EXCEPT !.committed = committed]
             l0 == [l EXCEPT !.committed = 0]
  <2>0. /\ l \in Locals /\ l0 \in Locals /\ SameWait(c, f, l)
        /\ l0.persisted = loc[c].persisted
    BY <1>0, FieldTypes DEF Locals, SameWait
  <2>1. CASE IsCommitted(f)
    <3>1. Completed(c, l0)
      BY <1>4, <2>1 DEF LoadCommitted
    <3>2. /\ OnlyMoves(c) /\ loc'[c] = l0
          /\ pc'[c] = CASE f.kind = "persisted" -> "cas_header"
                        [] f.kind = "committed" -> "done"
                        [] OTHER -> "trywait"
          /\ fut'[c] = IF f.kind = "slot" THEN NoFuture ELSE f
      BY <1>0, <3>1 DEF Completed, Goto, OnlyMoves
    <3>3. f.timestamp <= committed' /\ (f.kind = "persisted" => l0.persisted < f.timestamp)
      BY <1>1, <1>3, <2>0, <2>1 DEF IsCommitted, PersistInv, PersistFacts
    <3> QED BY <3>2, <3>3 DEF PersistFacts, PollLabels
  <2>2. CASE ~IsCommitted(f) /\ AfterProcess(c, f, l)
    BY <1>3, <2>0, <2>2, AfterProcessFacts
  <2>3. CASE ~IsCommitted(f) /\ ~AfterProcess(c, f, l)
    <3>1. PICK label \in {"load_processing", "process"} : Moves(c, label, f, l)
      BY <1>0, <1>4, <2>3 DEF LoadCommitted, Goto, Moves
    <3> QED BY <1>3, <2>0, <3>1, GoOnFacts DEF PollLabels
  <2> QED BY <2>1, <2>2, <2>3
<1>5. ASSUME LoadProcessing(c) PROVE PersistFacts(c)' /\ OnlyMoves(c)
  <2>1. CASE OwnedByOther(fut[c])
    BY <1>5, <2>1, ReturnFacts DEF LoadProcessing
  <2>2. CASE ~OwnedByOther(fut[c])
    <3> DEFINE l == [loc[c] EXCEPT !.processing = processing]
    <3>1. Moves(c, "cas_processing", fut[c], l) /\ "cas_processing" \in PollLabels
      BY <1>0, <1>5, <2>2 DEF LoadProcessing, Goto, Moves, PollLabels
    <3>2. SameWait(c, fut[c], l)
      BY <1>0 DEF SameWait, Locals
    <3> QED BY <1>3, <3>1, <3>2, GoOnFacts
  <2> QED BY <2>1, <2>2
<1>6. ASSUME CasProcessing(c) PROVE PersistFacts(c)' /\ OnlyMoves(c)
  <2> DEFINE current == loc[c].processing
             last == LastOfBatch(fut[c].timestamp, current)
  <2>1. CASE CasSucceeds(processing, current)
    <3> DEFINE f == [fut[c] EXCEPT !.first = current, !.processing = current, !.last = last]
               l == [loc[c] EXCEPT !.processing = 0]
    <3>1. Moves(c, "process", f, l) /\ "process" \in PollLabels
      BY <1>6, <2>1 DEF CasProcessing, Goto, Moves, PollLabels
    <3>2. SameWait(c, f, l)
      BY <1>0 DEF SameWait, Futures, Locals
    <3> QED BY <1>3, <3>1, <3>2, GoOnFacts
  <2>2. CASE ~CasSucceeds(processing, current)
    BY <1>6, <2>2, ReturnFacts DEF CasProcessing
  <2> QED BY <2>1, <2>2
<1>7. ASSUME Process(c) PROVE PersistFacts(c)' /\ OnlyMoves(c)
  <2> DEFINE f == [fut[c] EXCEPT !.processing = @ + 1]
  <2>1. SameWait(c, f, loc[c])
    BY <1>0 DEF SameWait, Futures
  <2>2. CASE AfterProcess(c, f, loc[c])
    <3> HIDE DEF f
    <3> QED BY <1>0, <1>3, <2>1, <2>2, AfterProcessFacts
  <2>3. CASE ReturnRunning(c, fut[c])
    BY <2>3, ReturnFacts
  <2> QED BY <1>7, <2>2, <2>3 DEF Process
<1>8. ASSUME PopReady(c) PROVE PersistFacts(c)' /\ OnlyMoves(c)
  <2>1. ASSUME NEW b, CallIncrease(c, fut[c], PoppedLocals(loc[c], b[2]))
        PROVE  PersistFacts(c)' /\ OnlyMoves(c)
    <3>1. SameWait(c, fut[c], PoppedLocals(loc[c], b[2]))
      BY <1>0 DEF SameWait, PoppedLocals, Locals
    <3> QED BY <1>3, <2>1, <3>1, CallIncreaseFacts
  <2>2. CASE FinishPoll(c, fut[c], loc[c])
    BY <1>3, <2>2, FinishPollFacts
  <2> QED BY <1>8, <2>1, <2>2 DEF PopReady, PoppedLocals
<1>9. ASSUME InsertReady(c) PROVE PersistFacts(c)' /\ OnlyMoves(c)
  BY <1>9, ReturnFacts DEF InsertReady
<1>10. ASSUME InsertFails(c) PROVE PersistFacts(c)' /\ OnlyMoves(c)
  BY <1>0, <1>3, <1>10, StayMoves, GoOnFacts DEF InsertFails, PollLabels
<1>11. ASSUME AwaitCommitted(c) PROVE PersistFacts(c)' /\ OnlyMoves(c)
  BY <1>0, <1>3, <1>11, CommitOwnFacts DEF AwaitCommitted
<1> QED BY <1>2, <1>4, <1>5, <1>6, <1>7, <1>8, <1>9, <1>10, <1>11 DEF PersistStep

LEMMA PersistInvIncrease ==
  ASSUME TypeInv, PersistInv, NEW c \in Clients, Increase(c)
  PROVE  PersistStep(c) /\ OnlyMoves(c)
<1>0. /\ pc \in [Clients -> Labels] /\ fut \in [Clients -> Futures] /\ loc \in [Clients -> Locals]
      /\ fut[c] \in Futures /\ loc[c] \in Locals /\ SameWait(c, fut[c], loc[c])
      /\ loc[c].num \in Nat
  BY FieldTypes DEF SameWait
<1>1. pc[c] \in PollLabels
  BY DEF Increase, ClearSlots, AddCommitted, PostSlot, IncreaseReturns, PollLabels
<1>2. CASE AddCommitted(c)
  <2> DEFINE f == [fut[c] EXCEPT !.first = IF loc[c].own THEN @ + loc[c].num ELSE @]
  <2>1. Moves(c, "post_slots", f, loc[c]) /\ "post_slots" \in PollLabels
    BY <1>0, <1>2 DEF AddCommitted, Goto, Moves, PollLabels
  <2>2. SameWait(c, f, loc[c])
    BY <1>0 DEF SameWait, Futures
  <2>3. PersistFacts(c)' /\ OnlyMoves(c)
    BY <1>1, <2>1, <2>2, GoOnFacts
  <2>4. NeverDecrease /\ TimestampsOrdered'
    BY <1>0, <1>2, FieldTypes DEF AddCommitted, PersistInv, NeverDecrease, TimestampsOrdered
  <2> QED BY <2>3, <2>4 DEF PersistStep
<1>3. CASE ClearSlots(c) \/ PostSlot(c) \/ IncreaseReturns(c)
  <2>1. NeverDecrease /\ TimestampsOrdered'
    BY <1>3, QuietStep DEF ClearSlots, PostSlot, IncreaseReturns, shared
  <2>2. CASE ClearSlots(c)
    BY <1>0, <1>1, <2>1, <2>2, StayMoves, GoOnFacts DEF ClearSlots, PollLabels, PersistStep
  <2>3. CASE PostSlot(c)
    <3> DEFINE l == [loc[c] EXCEPT !.num = @ - 1]
    <3>1. Moves(c, "post_slots", fut[c], l) /\ "post_slots" \in PollLabels
      BY <1>0, <2>3 DEF PostSlot, Moves, PollLabels
    <3>2. SameWait(c, fut[c], l)
      BY <1>0 DEF SameWait, Locals
    <3> QED BY <1>1, <2>1, <3>1, <3>2, GoOnFacts DEF PersistStep
  <2>4. CASE IncreaseReturns(c) /\ loc[c].own
    BY <2>1, <2>4, ReturnFacts DEF IncreaseReturns, PersistStep
  <2>5. CASE IncreaseReturns(c) /\ ~loc[c].own
    BY <1>0, <1>1, <2>1, <2>5, StayMoves, GoOnFacts DEF IncreaseReturns, PollLabels, PersistStep
  <2> QED BY <1>3, <2>2, <2>3, <2>4, <2>5
<1> QED BY <1>2, <1>3 DEF Increase

LEMMA PersistInvPersist ==
  ASSUME TypeInv, PersistInv, NEW c \in Clients,
         \/ LoadPersisted(c) \/ CasHeader(c) \/ PersistHeader(c)
         \/ CasPersisted(c) \/ WaitReturns(c)
  PROVE  PersistStep(c) /\ OnlyMoves(c)
<1>0. /\ pc \in [Clients -> Labels] /\ fut \in [Clients -> Futures] /\ loc \in [Clients -> Locals]
      /\ loc[c] \in Locals /\ fut[c].timestamp \in Nat /\ loc[c].persisted \in Nat
      /\ persisted \in Nat /\ header \in Nat /\ headerDurable \in Nat /\ committed \in Nat
  BY FieldTypes
<1>1. PersistFacts(c) /\ TimestampsOrdered
  BY DEF PersistInv
<1>2. CASE LoadPersisted(c)
  <2>1. NeverDecrease /\ TimestampsOrdered'
    BY <1>2, QuietStep DEF LoadPersisted, shared
  <2>2. OnlyMoves(c) /\ UNCHANGED <<fut, persisted, headerDurable, committed>>
    BY <1>0, <1>2 DEF LoadPersisted, Goto, OnlyMoves, shared
  <2>3. CASE fut[c].timestamp <= persisted
    <3>1. pc'[c] = "done" /\ fut[c].timestamp <= headerDurable /\ fut[c].timestamp <= committed
      BY <1>0, <1>1, <1>2, <2>3 DEF LoadPersisted, Goto, TimestampsOrdered
    <3> QED BY <2>1, <2>2, <3>1 DEF PersistStep, PersistFacts, PollLabels
  <2>4. CASE fut[c].timestamp > persisted
    <3>1. pc'[c] = "load_committed" /\ loc'[c].persisted < fut'[c].timestamp
      BY <1>0, <1>2, <2>2, <2>4 DEF LoadPersisted, Goto, Locals
    <3> QED BY <2>1, <2>2, <3>1 DEF PersistStep, PersistFacts, PollLabels
  <2> QED BY <1>0, <2>3, <2>4
<1>3. CASE CasHeader(c)
  <2>1. CASE CasSucceeds(header, loc[c].persisted)
    <3>1. /\ pc'[c] = "persist_header" /\ OnlyMoves(c) /\ UNCHANGED <<fut, loc>>
          /\ header' = fut[c].timestamp /\ UNCHANGED <<committed, persisted, headerDurable>>
      BY <1>0, <1>3, <2>1 DEF CasHeader, Goto, OnlyMoves
    <3>2. /\ header = loc[c].persisted /\ header < fut[c].timestamp
          /\ fut[c].timestamp <= committed /\ fut[c].kind = "persisted"
      BY <1>1, <1>3, <2>1 DEF CasHeader, CasSucceeds, PersistFacts
    <3>3. NeverDecrease /\ TimestampsOrdered'
      BY <1>0, <1>1, <3>1, <3>2 DEF NeverDecrease, TimestampsOrdered
    <3>4. PersistFacts(c)'
      BY <1>0, <3>1, <3>2 DEF PersistFacts, PollLabels
    <3> QED BY <3>1, <3>3, <3>4 DEF PersistStep
  <2>2. CASE ~CasSucceeds(header, loc[c].persisted)
    BY <1>3, <2>2, ReturnFacts, QuietStep DEF CasHeader, PersistStep
  <2> QED BY <2>1, <2>2
<1>4. CASE PersistHeader(c)
  <2>1. /\ pc'[c] = "cas_persisted" /\ OnlyMoves(c) /\ UNCHANGED <<fut, loc>>
        /\ headerDurable' = header /\ UNCHANGED <<committed, persisted, header>>
    BY <1>0, <1>4 DEF PersistHeader, Goto, OnlyMoves
  <2>2. /\ fut[c].timestamp <= header /\ fut[c].kind = "persisted"
        /\ loc[c].persisted < fut[c].timestamp
    BY <1>1, <1>4 DEF PersistHeader, PersistFacts
  <2>3. NeverDecrease /\ TimestampsOrdered'
    BY <1>0, <1>1, <2>1 DEF NeverDecrease, TimestampsOrdered
  <2>4. PersistFacts(c)'
    BY <2>1, <2>2 DEF PersistFacts, PollLabels
  <2> QED BY <2>1, <2>3, <2>4 DEF PersistStep
<1>5. CASE CasPersisted(c)
  <2>1. /\ pc'[c] = "done" /\ OnlyMoves(c) /\ UNCHANGED <<fut, loc>>
        /\ persisted' = IF CasSucceeds(persisted, loc[c].persisted) THEN fut[c].timestamp
                                                                  ELSE persisted
        /\ UNCHANGED <<committed, header, headerDurable>>
    BY <1>0, <1>5 DEF CasPersisted, Goto, OnlyMoves
  <2>2. fut[c].timestamp <= headerDurable /\ loc[c].persisted < fut[c].timestamp
    BY <1>1, <1>5 DEF CasPersisted, PersistFacts
  <2>3. NeverDecrease /\ TimestampsOrdered'
    BY <1>0, <1>1, <2>1, <2>2 DEF CasSucceeds, NeverDecrease, TimestampsOrdered
  <2>4. fut[c].timestamp <= committed
    BY <1>0, <1>1, <2>2 DEF TimestampsOrdered
  <2>5. PersistFacts(c)'
    BY <2>1, <2>2, <2>4 DEF PersistFacts, PollLabels
  <2> QED BY <2>1, <2>3, <2>5 DEF PersistStep
<1>6. CASE WaitReturns(c)
  <2>1. pc'[c] = "idle" /\ OnlyMoves(c)
    BY <1>0, <1>6 DEF WaitReturns, Goto, OnlyMoves
  <2> QED BY <1>6, <2>1, QuietStep, OutsidePollFacts DEF WaitReturns, shared, PersistStep
<1> QED BY <1>2, <1>3, <1>4, <1>5, <1>6

LEMMA PersistInvInit == Init => PersistInv
<1> SUFFICES ASSUME Init PROVE PersistInv
  OBVIOUS
<1>1. TimestampsOrdered
  BY DEF Init, TimestampsOrdered
<1>2. ASSUME NEW c \in Clients PROVE PersistFacts(c)
  BY DEF Init, PersistFacts, PollLabels
<1> QED BY <1>1, <1>2 DEF PersistInv

LEMMA PersistInvNext ==
  TypeInv /\ PersistInv /\ [Next]_vars => PersistInv' /\ NeverDecrease
<1> SUFFICES ASSUME TypeInv, PersistInv, [Next]_vars PROVE PersistInv' /\ NeverDecrease
  OBVIOUS
<1>0. TypeInv'
  BY TypeInvNext
<1>1. ASSUME NEW c \in Clients, ClientStep(c) PROVE PersistInv' /\ NeverDecrease
  <2>1. PersistStep(c) /\ OnlyMoves(c)
    BY <1>1, PersistInvAppend, PersistInvPoll, PersistInvIncrease, PersistInvPersist
       DEF ClientStep, Append, Increase
  <2> QED BY <1>0, <2>1, PersistInvFromStep DEF PersistStep
<1>2. CASE /\ UNCHANGED <<pc, fut, loc>>
           /\ UNCHANGED <<committed, persisted, header, headerDurable>>
  <2>1. /\ committed \in Nat /\ persisted \in Nat
        /\ header \in Nat /\ headerDurable \in Nat
    BY DEF TypeInv, TypeOK
  <2>2. ASSUME NEW c \in Clients PROVE PersistFacts(c)'
    BY <1>2 DEF PersistInv, PersistFacts
  <2> QED BY <1>2, <2>1, <2>2 DEF PersistInv, TimestampsOrdered, NeverDecrease
<1> QED BY <1>1, <1>2, NextCases DEF CopyDone, vars, shared

\* In every reachable state each client's local facts about the persisted timestamp
\* and the header hold, whatever the others do between its steps.
THEOREM PersistInvariant == Spec => [](TypeInv /\ PersistInv)
<1>1. Init => TypeInv /\ PersistInv
  BY TypeInvInit, PersistInvInit
<1>2. TypeInv /\ PersistInv /\ [Next]_vars => (TypeInv /\ PersistInv)'
  BY TypeInvNext, PersistInvNext
<1> QED BY <1>1, <1>2, PTL DEF Spec

\* A wait that completed keeps its promise for ever: what it waited for is
\* committed and, for a persisted wait, recorded on the medium.
THEOREM CompletedWaitsHold == Spec => []CompletedWaitHolds
<1>1. PersistInv => CompletedWaitHolds
  BY DEF PersistInv, PersistFacts, CompletedWaitHolds
<1> QED BY <1>1, PersistInvariant, PTL

\* The persisted timestamp in memory is never ahead of the one on the medium,
\* that one never ahead of the header in the caches, and none of them ahead of
\* what is committed.
THEOREM PersistedNeverAhead == Spec => []TimestampsOrdered
<1>1. PersistInv => TimestampsOrdered
  BY DEF PersistInv
<1> QED BY <1>1, PersistInvariant, PTL

\* None of the four published timestamps ever goes back.
THEOREM TimestampsGrow == Spec => TimestampsNeverDecrease
<1>1. TypeInv /\ PersistInv /\ [Next]_vars => [NeverDecrease]_vars
  BY PersistInvNext
<1> QED BY <1>1, PersistInvariant, PTL DEF Spec, TimestampsNeverDecrease, NeverDecrease

-----------------------------------------------------------------------------
(* The assert of the second compare-and-swap.  A client whose first one     *)
(* succeeded has moved the header past persisted_timestamp, and until its   *)
(* second one no other client can move either of them.                      *)

HeaderLabels == {"persist_header", "cas_persisted"}

HeaderInv ==
  /\ \A c \in Clients : loc[c].persisted <= persisted
  /\ \A c \in Clients : pc[c] \in HeaderLabels =>
       loc[c].persisted = persisted /\ header = fut[c].timestamp
  /\ \A c, d \in Clients : pc[c] \in HeaderLabels /\ pc[d] \in HeaderLabels => c = d

\* Nothing is loaded, or the loaded value is forgotten.
KeepsLoaded(c) == loc'[c].persisted \in {loc[c].persisted, 0}

LEMMA HeaderInvQuiet ==
  ASSUME TypeInv, HeaderInv, NEW c \in Clients, OnlyMoves(c), pc'[c] \notin HeaderLabels,
         UNCHANGED <<header, persisted>>,
         KeepsLoaded(c) \/ loc'[c].persisted = persisted
  PROVE  HeaderInv'
<1>1. persisted \in Nat
  BY FieldTypes
<1>2. \A d \in Clients : loc'[d].persisted <= persisted
  <2>1. loc'[c].persisted <= persisted
    BY <1>1 DEF HeaderInv, KeepsLoaded
  <2> QED BY <2>1 DEF HeaderInv, OnlyMoves
<1>3. \A d \in Clients : pc'[d] \in HeaderLabels =>
        d # c /\ pc[d] \in HeaderLabels /\ fut'[d] = fut[d] /\ loc'[d] = loc[d]
  BY DEF OnlyMoves
<1> QED BY <1>2, <1>3 DEF HeaderInv

LEMMA LoadedByMove ==
  ASSUME TypeInv, NEW c \in Clients, NEW label, NEW f, NEW l, Moves(c, label, f, l),
         label \notin HeaderLabels, l.persisted \in {loc[c].persisted, 0}
  PROVE  KeepsLoaded(c) /\ pc'[c] \notin HeaderLabels
<1>1. pc \in [Clients -> Labels] /\ loc \in [Clients -> Locals]
  BY FieldTypes
<1> QED BY <1>1 DEF Moves, KeepsLoaded

LEMMA LoadedByReturn ==
  ASSUME TypeInv, NEW c \in Clients, NEW f, ReturnRunning(c, f)
  PROVE  KeepsLoaded(c) /\ pc'[c] \notin HeaderLabels
<1>1. Moves(c, PollStart(f), f, NoLocals) /\ PollStart(f) \notin HeaderLabels
  BY DEF ReturnRunning, Goto, Moves, PollStart, HeaderLabels
<1> QED BY <1>1, LoadedByMove DEF NoLocals

LEMMA LoadedByIncrease ==
  ASSUME TypeInv, NEW c \in Clients, NEW f, NEW l, CallIncrease(c, f, l),
         l.persisted \in {loc[c].persisted, 0}
  PROVE  KeepsLoaded(c) /\ pc'[c] \notin HeaderLabels
<1>1. Moves(c, IncreaseLabel, f, l) /\ IncreaseLabel \notin HeaderLabels
  BY DEF CallIncrease, Goto, Moves, IncreaseLabel, HeaderLabels
<1> QED BY <1>1, LoadedByMove

LEMMA LoadedByCommitOwn ==
  ASSUME TypeInv, NEW c \in Clients, NEW f, NEW l \in Locals, CommitOwnBatch(c, f, l),
         l.persisted \in {loc[c].persisted, 0}
  PROVE  KeepsLoaded(c) /\ pc'[c] \notin HeaderLabels
<1> DEFINE k == [l EXCEPT !.num = BatchSize(f), !.own = TRUE]
<1>1. k.persisted = l.persisted
  BY DEF Locals
<1> HIDE DEF k
<1>2. CallIncrease(c, f, k)
  BY DEF CommitOwnBatch, k
<1> QED BY <1>1, <1>2, LoadedByIncrease

LEMMA LoadedByAfterProcess ==
  ASSUME TypeInv, NEW c \in Clients, NEW f, NEW l \in Locals, AfterProcess(c, f, l),
         l.persisted \in {loc[c].persisted, 0}
  PROVE  KeepsLoaded(c) /\ pc'[c] \notin HeaderLabels
<1>1. CASE CommitOwnBatch(c, f, l)
  BY <1>1, LoadedByCommitOwn
<1>2. CASE Moves(c, "pop", f, l)
  BY <1>2, LoadedByMove DEF HeaderLabels
<1> QED BY <1>1, <1>2 DEF AfterProcess, Goto, Moves

LEMMA LoadedByFinishPoll ==
  ASSUME TypeInv, NEW c \in Clients, FinishPoll(c, fut[c], loc[c])
  PROVE  KeepsLoaded(c) /\ pc'[c] \notin HeaderLabels
<1>1. CASE CommitOwnBatch(c, fut[c], loc[c])
  BY <1>1, FieldTypes, LoadedByCommitOwn
<1>2. CASE Goto(c, "insert") /\ UNCHANGED <<fut, loc>>
  BY <1>2, StayMoves, LoadedByMove DEF HeaderLabels
<1>3. CASE ReturnRunning(c, fut[c])
  BY <1>3, LoadedByReturn
<1> QED BY <1>1, <1>2, <1>3 DEF FinishPoll

LEMMA HeaderInvPoll ==
  ASSUME TypeInv, PersistInv, HeaderInv, NEW c \in Clients,
         \/ LoadCommitted(c) \/ LoadProcessing(c) \/ CasProcessing(c) \/ Process(c)
         \/ PopReady(c) \/ InsertReady(c) \/ InsertFails(c) \/ AwaitCommitted(c)
         \/ Increase(c)
  PROVE  HeaderInv'
<1> USE DEF HeaderLabels
<1>0. /\ pc \in [Clients -> Labels] /\ fut \in [Clients -> Futures] /\ loc \in [Clients -> Locals]
      /\ loc[c] \in Locals
  BY FieldTypes
<1>1. OnlyMoves(c)
  BY PersistInvPoll, PersistInvIncrease
<1>2. UNCHANGED <<header, persisted>>
  BY DEF LoadCommitted, LoadProcessing, CasProcessing, Process, PopReady, InsertReady,
         InsertFails, AwaitCommitted, Increase, ClearSlots, AddCommitted, PostSlot,
         IncreaseReturns, shared
<1> DEFINE Goal == KeepsLoaded(c) /\ pc'[c] \notin HeaderLabels
<1>3. ASSUME LoadCommitted(c) PROVE Goal
  <2> DEFINE l == [loc[c] EXCEPT !.committed = committed]
             l0 == [l EXCEPT !.committed = 0]
  <2>1. l \in Locals /\ l.persisted = loc[c].persisted /\ l0.persisted = loc[c].persisted
    BY <1>0, FieldTypes DEF Locals
  <2>2. CASE Completed(c, l0)
    BY <1>0, <2>1, <2>2 DEF Completed, Goto, KeepsLoaded
  <2>3. CASE AfterProcess(c, fut[c], l)
    BY <2>1, <2>3, LoadedByAfterProcess
  <2>4. CASE \E label \in {"load_processing", "process"} : Moves(c, label, fut[c], l)
    BY <2>1, <2>4, LoadedByMove
  <2> QED BY <1>0, <1>3, <2>2, <2>3, <2>4 DEF LoadCommitted, Goto, Moves
<1>4. ASSUME LoadProcessing(c) PROVE Goal
  <2> DEFINE l == [loc[c] EXCEPT !.processing = processing]
  <2>1. l.persisted = loc[c].persisted
    BY <1>0 DEF Locals
  <2>2. CASE Moves(c, "cas_processing", fut[c], l)
    <3> HIDE DEF l
    <3> QED BY <2>1, <2>2, LoadedByMove
  <2>3. CASE ReturnRunning(c, fut[c])
    BY <2>3, LoadedByReturn
  <2> QED BY <1>0, <1>4, <2>2, <2>3 DEF LoadProcessing, Goto, Moves
<1>5. ASSUME CasProcessing(c) PROVE Goal
  <2>1. CASE ReturnRunning(c, fut[c])
    BY <2>1, LoadedByReturn
  <2>2. CASE Goto(c, "process") /\ loc' = [loc EXCEPT ![c].processing = 0]
    BY <1>0, <2>2 DEF Goto, KeepsLoaded, Locals
  <2> QED BY <1>5, <2>1, <2>2 DEF CasProcessing
<1>6. ASSUME Process(c) PROVE Goal
  <2>1. CASE ReturnRunning(c, fut[c])
    BY <2>1, LoadedByReturn
  <2>2. CASE AfterProcess(c, [fut[c] EXCEPT !.processing = @ + 1], loc[c])
    BY <1>0, <2>2, LoadedByAfterProcess
  <2> QED BY <1>6, <2>1, <2>2 DEF Process
<1>7. ASSUME PopReady(c) PROVE Goal
  <2>1. ASSUME NEW b, CallIncrease(c, fut[c], PoppedLocals(loc[c], b[2])) PROVE Goal
    <3>1. PoppedLocals(loc[c], b[2]).persisted = loc[c].persisted
      BY <1>0 DEF PoppedLocals, Locals
    <3> QED BY <2>1, <3>1, LoadedByIncrease
  <2>2. CASE FinishPoll(c, fut[c], loc[c])
    BY <2>2, LoadedByFinishPoll
  <2> QED BY <1>7, <2>1, <2>2 DEF PopReady, PoppedLocals
<1>8. ASSUME InsertReady(c) PROVE Goal
  BY <1>8, LoadedByReturn DEF InsertReady
<1>9. ASSUME AwaitCommitted(c) PROVE Goal
  BY <1>0, <1>9, LoadedByCommitOwn DEF AwaitCommitted
<1>10. ASSUME IncreaseReturns(c) /\ loc[c].own PROVE Goal
  BY <1>10, LoadedByReturn DEF IncreaseReturns
<1>11. ASSUME InsertFails(c) \/ ClearSlots(c) \/ AddCommitted(c) \/ PostSlot(c)
              \/ (IncreaseReturns(c) /\ ~loc[c].own)
       PROVE  Goal
  BY <1>0, <1>11 DEF InsertFails, ClearSlots, AddCommitted, PostSlot, IncreaseReturns,
                     Goto, KeepsLoaded, Locals
<1> HIDE DEF HeaderLabels
<1> QED BY <1>1, <1>2, <1>3, <1>4, <1>5, <1>6, <1>7, <1>8, <1>9, <1>10, <1>11, HeaderInvQuiet
        DEF Increase

LEMMA HeaderInvAppend ==
  ASSUME TypeInv, PersistInv, HeaderInv, NEW c \in Clients,
         \/ AppendBegin(c) \/ Append(c) \/ LoadPersisted(c) \/ WaitReturns(c)
         \/ \E kind \in WaitKinds, n \in InitialTimestamp + 1 .. next - 1 : WaitBegin(c, kind, n)
  PROVE  HeaderInv'
<1>0. /\ pc \in [Clients -> Labels] /\ fut \in [Clients -> Futures] /\ loc \in [Clients -> Locals]
      /\ loc[c] \in Locals /\ persisted \in Nat
  BY FieldTypes
<1>1. OnlyMoves(c)
  BY PersistInvAppend, PersistInvPersist
<1>2. UNCHANGED <<header, persisted>>
  BY DEF AppendBegin, Append, TryWait, SlotWait, FetchAdd, FillSlot, PublishTimestamp,
         LoadPersisted, WaitReturns, WaitBegin, shared
<1>3. CASE AppendBegin(c) \/ TryWait(c) \/ SlotWait(c) \/ FetchAdd(c) \/ FillSlot(c)
  <2>1. KeepsLoaded(c) /\ pc'[c] \notin HeaderLabels
    BY <1>0, <1>3 DEF AppendBegin, TryWait, SlotWait, FetchAdd, FillSlot, Goto,
                      KeepsLoaded, HeaderLabels, Locals
  <2> QED BY <1>1, <1>2, <2>1, HeaderInvQuiet
<1>4. CASE PublishTimestamp(c) \/ WaitReturns(c)
  <2>1. KeepsLoaded(c) /\ pc'[c] \notin HeaderLabels
    BY <1>0, <1>4 DEF PublishTimestamp, WaitReturns, Goto, KeepsLoaded, HeaderLabels, NoLocals
  <2> QED BY <1>1, <1>2, <2>1, HeaderInvQuiet
<1>5. ASSUME NEW kind \in WaitKinds, NEW n \in InitialTimestamp + 1 .. next - 1,
             WaitBegin(c, kind, n)
      PROVE  HeaderInv'
  <2>1. KeepsLoaded(c) /\ pc'[c] \notin HeaderLabels
    BY <1>0, <1>5 DEF WaitBegin, Goto, KeepsLoaded, HeaderLabels, PollStart
  <2> QED BY <1>1, <1>2, <2>1, HeaderInvQuiet
<1>6. CASE LoadPersisted(c)
  <2>1. pc'[c] \notin HeaderLabels /\ (KeepsLoaded(c) \/ loc'[c].persisted = persisted)
    BY <1>0, <1>6 DEF LoadPersisted, Goto, KeepsLoaded, HeaderLabels, Locals
  <2> QED BY <1>1, <1>2, <2>1, HeaderInvQuiet
<1> QED BY <1>3, <1>4, <1>5, <1>6 DEF Append

LEMMA HeaderInvPersist ==
  ASSUME TypeInv, PersistInv, HeaderInv, NEW c \in Clients,
         CasHeader(c) \/ PersistHeader(c) \/ CasPersisted(c)
  PROVE  HeaderInv'
<1>0. /\ pc \in [Clients -> Labels] /\ fut \in [Clients -> Futures] /\ loc \in [Clients -> Locals]
      /\ persisted \in Nat /\ header \in Nat /\ headerDurable \in Nat
      /\ \A d \in Clients : loc[d].persisted \in Nat /\ fut[d].timestamp \in Nat
  BY FieldTypes
<1>1. OnlyMoves(c) /\ PersistFacts(c) /\ TimestampsOrdered
  BY PersistInvPersist DEF PersistInv
<1>2. CASE CasHeader(c) /\ CasSucceeds(header, loc[c].persisted)
  <2>1. /\ header' = fut[c].timestamp /\ header = loc[c].persisted /\ persisted' = persisted
        /\ pc' = [pc EXCEPT ![c] = "persist_header"] /\ fut' = fut /\ loc' = loc
    BY <1>2 DEF CasHeader, CasSucceeds, Goto
  <2>2. header = persisted
    BY <1>0, <1>1, <2>1 DEF HeaderInv, TimestampsOrdered
  <2>3. ASSUME NEW d \in Clients, pc[d] \in HeaderLabels PROVE FALSE
    <3>1. header = fut[d].timestamp /\ loc[d].persisted = persisted
      BY <2>3 DEF HeaderInv
    <3>2. loc[d].persisted < fut[d].timestamp
      BY <2>3 DEF PersistInv, PersistFacts, HeaderLabels
    <3>3. loc[d].persisted = fut[d].timestamp /\ fut[d].timestamp \in Nat
      BY <1>0, <2>2, <3>1
    <3> QED BY <3>2, <3>3
  <2>4. \A d \in Clients : pc'[d] \in HeaderLabels => d = c
    BY <1>0, <2>1, <2>3
  <2> QED BY <2>1, <2>2, <2>4 DEF HeaderInv
<1>3. CASE CasHeader(c) /\ ~CasSucceeds(header, loc[c].persisted)
  <2>1. ReturnRunning(c, fut[c]) /\ UNCHANGED <<header, persisted>>
    BY <1>3 DEF CasHeader
  <2> QED BY <1>1, <2>1, LoadedByReturn, HeaderInvQuiet
<1>4. CASE PersistHeader(c)
  <2>1. /\ pc[c] \in HeaderLabels /\ UNCHANGED <<header, persisted, fut, loc>>
        /\ pc' = [pc EXCEPT ![c] = "cas_persisted"]
    BY <1>4 DEF PersistHeader, HeaderLabels, Goto
  <2>2. \A d \in Clients : pc'[d] \in HeaderLabels <=> pc[d] \in HeaderLabels
    BY <1>0, <2>1 DEF HeaderLabels
  <2> QED BY <2>1, <2>2 DEF HeaderInv
<1>5. CASE CasPersisted(c)
  <2>1. /\ pc[c] \in HeaderLabels /\ UNCHANGED <<header, fut, loc>>
        /\ pc' = [pc EXCEPT ![c] = "done"] /\ persisted' >= persisted /\ persisted' \in Nat
    <3>1. persisted' >= persisted
      BY <1>5, PersistInvPersist DEF PersistStep, NeverDecrease
    <3> QED BY <1>0, <1>5, <3>1 DEF CasPersisted, HeaderLabels, Goto
  <2>2. \A d \in Clients : pc'[d] \notin HeaderLabels
    BY <1>0, <2>1 DEF HeaderInv, HeaderLabels
  <2>3. \A d \in Clients : loc'[d].persisted <= persisted'
    BY <1>0, <2>1 DEF HeaderInv
  <2> QED BY <2>2, <2>3 DEF HeaderInv
<1> QED BY <1>2, <1>3, <1>4, <1>5

LEMMA HeaderInvInit == Init => HeaderInv
BY DEF Init, HeaderInv, HeaderLabels, NoLocals

LEMMA HeaderInvNext ==
  TypeInv /\ PersistInv /\ HeaderInv /\ [Next]_vars => HeaderInv'
<1> SUFFICES ASSUME TypeInv, PersistInv, HeaderInv, [Next]_vars PROVE HeaderInv'
  OBVIOUS
<1>1. ASSUME NEW c \in Clients, ClientStep(c) PROVE HeaderInv'
  BY <1>1, HeaderInvPoll, HeaderInvAppend, HeaderInvPersist DEF ClientStep, Append, Increase
<1>2. CASE UNCHANGED <<pc, fut, loc, header, persisted>>
  BY <1>2 DEF HeaderInv
<1> QED BY <1>1, <1>2, NextCases DEF CopyDone, vars, shared

\* What pmemstream_async_wait_persisted relies on between its two
\* compare-and-swaps.
THEOREM HeaderInvariant == Spec => [](TypeInv /\ PersistInv /\ HeaderInv)
<1>1. TypeInv /\ PersistInv /\ HeaderInv /\ [Next]_vars => (TypeInv /\ PersistInv /\ HeaderInv)'
  BY TypeInvNext, PersistInvNext, HeaderInvNext
<1> QED BY TypeInvInit, PersistInvInit, HeaderInvInit, <1>1, PTL DEF Spec

\* The second compare-and-swap of wait_persisted never fails: the alternative in
\* its assert (another thread persisted more in between) cannot happen.
SecondCasSucceeds ==
  \A c \in Clients : pc[c] = "cas_persisted" => CasSucceeds(persisted, loc[c].persisted)

\* The second compare-and-swap of pmemstream_async_wait_persisted never fails, for
\* any number of clients that poll persisted waits.
THEOREM SecondCasAlwaysSucceeds == Spec => []SecondCasSucceeds
<1>1. HeaderInv => SecondCasSucceeds
  BY DEF HeaderInv, HeaderLabels, SecondCasSucceeds, CasSucceeds
<1> QED BY <1>1, HeaderInvariant, PTL

-----------------------------------------------------------------------------
(* The batches as tiles: own and popped map each client to the timestamps   *)
(* it is responsible for, rdy is the set of ready batches, and together     *)
(* they cover lo + 1 .. hi without overlap.                                 *)

Tiling(own, popped, rdy, lo, hi) ==
  /\ \A c, d \in Clients, n \in Nat : n \in own[c] /\ n \in own[d] => c = d
  /\ \A c, d \in Clients, n \in Nat : n \in popped[c] /\ n \in popped[d] => c = d
  /\ \A c, d \in Clients, n \in Nat : ~(n \in own[c] /\ n \in popped[d])
  /\ \A b \in rdy, c \in Clients, n \in Nat :
       n \in ReadyBatch(b) => n \notin own[c] /\ n \notin popped[c]
  /\ \A a, b \in rdy, n \in Nat : n \in ReadyBatch(a) /\ n \in ReadyBatch(b) => a = b
  /\ \A n \in Nat : n \in lo + 1 .. hi <=>
       \/ \E c \in Clients : n \in own[c] \/ n \in popped[c]
       \/ \E b \in rdy : n \in ReadyBatch(b)

Owners == [Clients -> SUBSET Nat]

LEMMA TilesAcquired ==
  ASSUME NEW own \in Owners, NEW popped \in Owners, NEW rdy, NEW lo \in Nat, NEW hi \in Nat,
         Tiling(own, popped, rdy, lo, hi), lo <= hi,
         NEW c \in Clients, own[c] = {}, NEW last \in Nat, hi <= last
  PROVE  Tiling([own EXCEPT ![c] = hi + 1 .. last], popped, rdy, lo, last)
<1> DEFINE new == [own EXCEPT ![c] = hi + 1 .. last]
<1>1. \A d \in Clients, n \in Nat :
        n \in new[d] <=> n \in own[d] \/ (d = c /\ n \in hi + 1 .. last)
  BY DEF Owners
<1>2. \A n \in Nat : n \in hi + 1 .. last => n \notin lo + 1 .. hi
  OBVIOUS
<1>3. \A n \in Nat : n \in lo + 1 .. last <=> n \in lo + 1 .. hi \/ n \in hi + 1 .. last
  OBVIOUS
<1> QED BY <1>1, <1>2, <1>3 DEF Tiling

LEMMA TilesInserted ==
  ASSUME NEW own \in Owners, NEW popped \in Owners, NEW rdy, NEW lo \in Nat, NEW hi \in Nat,
         Tiling(own, popped, rdy, lo, hi),
         NEW c \in Clients, NEW b, own[c] = ReadyBatch(b)
  PROVE  Tiling([own EXCEPT ![c] = {}], popped, rdy \union {b}, lo, hi)
<1> DEFINE new == [own EXCEPT ![c] = {}]
           more == rdy \union {b}
<1>1. \A d \in Clients, n \in Nat : n \in new[d] <=> n \in own[d] /\ d # c
  BY DEF Owners
<1>2. \A a : a \in more <=> a \in rdy \/ a = b
  OBVIOUS
<1>3. \A n \in Nat : n \in ReadyBatch(b) <=> n \in own[c]
  OBVIOUS
<1> HIDE DEF new, more
<1>4. \A a \in more, d \in Clients, n \in Nat :
        n \in ReadyBatch(a) => n \notin new[d] /\ n \notin popped[d]
  BY <1>1, <1>2, <1>3 DEF Tiling
<1>5. \A a, e \in more, n \in Nat : n \in ReadyBatch(a) /\ n \in ReadyBatch(e) => a = e
  BY <1>2, <1>3 DEF Tiling
<1>6. \A n \in Nat : n \in lo + 1 .. hi <=>
        \/ \E d \in Clients : n \in new[d] \/ n \in popped[d]
        \/ \E a \in more : n \in ReadyBatch(a)
  BY <1>1, <1>2, <1>3 DEF Tiling
<1>7. Tiling(new, popped, more, lo, hi)
  BY <1>1, <1>4, <1>5, <1>6 DEF Tiling
<1> QED BY <1>7 DEF new, more

LEMMA TilesPopped ==
  ASSUME NEW own \in Owners, NEW popped \in Owners, NEW rdy, NEW lo \in Nat, NEW hi \in Nat,
         Tiling(own, popped, rdy, lo, hi),
         NEW c \in Clients, popped[c] = {}, NEW b \in rdy, ReadyBatch(b) \subseteq Nat
  PROVE  Tiling(own, [popped EXCEPT ![c] = ReadyBatch(b)], rdy \ {b}, lo, hi)
<1> DEFINE new == [popped EXCEPT ![c] = ReadyBatch(b)]
           less == rdy \ {b}
<1>1. \A d \in Clients, n \in Nat :
        n \in new[d] <=> n \in popped[d] \/ (d = c /\ n \in ReadyBatch(b))
  BY DEF Owners
<1>2. \A a : a \in less <=> a \in rdy /\ a # b
  OBVIOUS
<1> HIDE DEF new, less
<1>3. \A d, e \in Clients, n \in Nat : n \in new[d] /\ n \in new[e] => d = e
  BY <1>1 DEF Tiling
<1>4. \A d, e \in Clients, n \in Nat : ~(n \in own[d] /\ n \in new[e])
  BY <1>1 DEF Tiling
<1>5. \A a \in less, d \in Clients, n \in Nat :
        n \in ReadyBatch(a) => n \notin own[d] /\ n \notin new[d]
  BY <1>1, <1>2 DEF Tiling
<1>6. \A n \in Nat : n \in lo + 1 .. hi <=>
        \/ \E d \in Clients : n \in own[d] \/ n \in new[d]
        \/ \E a \in less : n \in ReadyBatch(a)
  <2> SUFFICES ASSUME NEW n \in Nat
               PROVE  n \in lo + 1 .. hi <=>
                        \/ \E d \in Clients : n \in own[d] \/ n \in new[d]
                        \/ \E a \in less : n \in ReadyBatch(a)
    OBVIOUS
  <2>1. CASE n \in ReadyBatch(b)
    BY <1>1, <2>1 DEF Tiling
  <2>2. CASE n \notin ReadyBatch(b)
    BY <1>1, <1>2, <2>2 DEF Tiling
  <2> QED BY <2>1, <2>2
<1>7. Tiling(own, new, less, lo, hi)
  BY <1>2, <1>3, <1>4, <1>5, <1>6 DEF Tiling
<1> QED BY <1>7 DEF new, less

LEMMA TilesCommittedOwn ==
  ASSUME NEW own \in Owners, NEW popped \in Owners, NEW rdy, NEW lo \in Nat, NEW hi \in Nat,
         Tiling(own, popped, rdy, lo, hi),
         NEW c \in Clients, NEW k \in Nat, NEW j \in Nat, own[c] = lo + 1 .. k,
         lo <= j, j <= k
  PROVE  Tiling([own EXCEPT ![c] = j + 1 .. k], popped, rdy, j, hi)
<1> DEFINE new == [own EXCEPT ![c] = j + 1 .. k]
           In(n) == n \in lo + 1 .. j
<1>1. \A d \in Clients, n \in Nat : n \in new[d] <=> n \in own[d] /\ ~(d = c /\ In(n))
  BY DEF Owners
<1>2. \A n \in Nat : n \in j + 1 .. hi <=> n \in lo + 1 .. hi /\ ~In(n)
  OBVIOUS
<1>3. \A n \in Nat : In(n) => n \in own[c]
  OBVIOUS
<1> HIDE DEF new, In
<1>4. \A n \in Nat : n \in j + 1 .. hi <=>
        \/ \E d \in Clients : n \in new[d] \/ n \in popped[d]
        \/ \E a \in rdy : n \in ReadyBatch(a)
  <2> SUFFICES ASSUME NEW n \in Nat
               PROVE  n \in j + 1 .. hi <=>
                        \/ \E d \in Clients : n \in new[d] \/ n \in popped[d]
                        \/ \E a \in rdy : n \in ReadyBatch(a)
    OBVIOUS
  <2>1. CASE In(n)
    BY <1>1, <1>2, <1>3, <2>1 DEF Tiling
  <2>2. CASE ~In(n)
    BY <1>1, <1>2, <2>2 DEF Tiling
  <2> QED BY <2>1, <2>2
<1>5. Tiling(new, popped, rdy, j, hi)
  BY <1>1, <1>4 DEF Tiling
<1> QED BY <1>5 DEF new

LEMMA TilesCommittedPopped ==
  ASSUME NEW own \in Owners, NEW popped \in Owners, NEW rdy, NEW lo \in Nat, NEW hi \in Nat,
         Tiling(own, popped, rdy, lo, hi),
         NEW c \in Clients, NEW j \in Nat, popped[c] = lo + 1 .. j, lo <= j
  PROVE  Tiling(own, [popped EXCEPT ![c] = {}], rdy, j, hi)
<1> DEFINE new == [popped EXCEPT ![c] = {}]
           In(n) == n \in lo + 1 .. j
<1>1. \A d \in Clients, n \in Nat : n \in new[d] <=> n \in popped[d] /\ d # c
  BY DEF Owners
<1>2. \A n \in Nat : n \in j + 1 .. hi <=> n \in lo + 1 .. hi /\ ~In(n)
  OBVIOUS
<1>3. \A n \in Nat : In(n) <=> n \in popped[c]
  OBVIOUS
<1> HIDE DEF new, In
<1>4. \A n \in Nat : n \in j + 1 .. hi <=>
        \/ \E d \in Clients : n \in own[d] \/ n \in new[d]
        \/ \E a \in rdy : n \in ReadyBatch(a)
  <2> SUFFICES ASSUME NEW n \in Nat
               PROVE  n \in j + 1 .. hi <=>
                        \/ \E d \in Clients : n \in own[d] \/ n \in new[d]
                        \/ \E a \in rdy : n \in ReadyBatch(a)
    OBVIOUS
  <2>1. CASE In(n)
    BY <1>1, <1>2, <1>3, <2>1 DEF Tiling
  <2>2. CASE ~In(n)
    BY <1>1, <1>2, <1>3, <2>2 DEF Tiling
  <2> QED BY <2>1, <2>2
<1>5. Tiling(own, new, rdy, j, hi)
  BY <1>1, <1>4 DEF Tiling
<1> QED BY <1>5 DEF new

-----------------------------------------------------------------------------
(* The inductive invariant.  A batch is handed from a future to the set of  *)
(* ready batches or to pmemstream_increase_committed_timestamp, and from    *)
(* the ready batches to the client that pops it; what a client is about to  *)
(* commit always starts at the committed timestamp, and only one holder can *)
(* have the timestamp after it.                                             *)

AppendLabels == {"idle", "trywait", "slot_wait", "fetch", "fill", "publish"}
TailLabels == {"pop", "clear_slots", "add_committed", "post_slots", "insert", "await_committed"}
CommittingLabels == {"clear_slots", "add_committed"}

\* OwnBatch and PoppedBatch of a client at label with future f and locals l.
OwnAt(label, f) ==
  IF ShouldAcquire(f) /\ label \notin TailLabels THEN {} ELSE f.first + 1 .. f.last
PoppedAt(label, l) ==
  IF label \in CommittingLabels /\ ~l.own THEN l.committed - l.num + 1 .. l.committed ELSE {}

\* n is the committed timestamp.
BatchFacts(label, f, l, n) ==
  /\ f.last <= f.timestamp
  /\ f.first = f.last /\ f.timestamp = f.last => f.last <= n
  /\ label \in AppendLabels => OwnAt(label, f) = {}
  /\ label \in {"load_processing", "cas_processing", "insert", "await_committed"} => ShouldAcquire(f)
  /\ label \in {"pop", "insert", "await_committed"} \union CommittingLabels => f.first < f.processing
  /\ label = "post_slots" => IF l.own THEN f.first = f.processing ELSE f.first < f.processing
  /\ label \in CommittingLabels /\ l.own => n = f.first
  /\ IF label \in CommittingLabels /\ ~l.own THEN l.committed = n + l.num /\ l.num > 0
                                              ELSE l.committed <= n

Owns == [c \in Clients |-> OwnAt(pc[c], fut[c])]
Pops == [c \in Clients |-> PoppedAt(pc[c], loc[c])]

BatchInv ==
  /\ committed <= processing
  /\ \A b \in ready : b[2] > 0
  /\ Tiling(Owns, Pops, ready, committed, processing)
  /\ \A c \in Clients : BatchFacts(pc[c], fut[c], loc[c], committed)

LEMMA BatchesAt ==
  ASSUME NEW c \in Clients
  PROVE  /\ OwnBatch(c) = OwnAt(pc[c], fut[c])
         /\ PoppedBatch(c) = PoppedAt(pc[c], loc[c])
BY DEF OwnBatch, PoppedBatch, OwnAt, PoppedAt, InTail, TailLabels, CommittingLabels

LEMMA BatchTypes ==
  ASSUME TypeInv, BatchInv
  PROVE  /\ Owns \in Owners /\ Pops \in Owners
         /\ committed \in Nat /\ processing \in Nat
         /\ \A b \in ready : b[1] \in Nat /\ b[2] \in Nat /\ b = <<b[1], b[2]>>
         /\ \A b \in ready : ReadyBatch(b) \subseteq Nat
<1>1. committed \in Nat /\ processing \in Nat /\ ready \subseteq Batches
  BY DEF TypeInv, TypeOK
<1>2. \A b \in ready : b[1] \in Nat /\ b[2] \in Nat /\ b = <<b[1], b[2]>>
  BY <1>1 DEF Batches
<1>5. \A b \in ready : ReadyBatch(b) \subseteq Nat
  BY <1>2 DEF ReadyBatch
<1>3. ASSUME NEW c \in Clients PROVE Owns[c] \in SUBSET Nat
  <2>1. fut[c].first \in Nat /\ fut[c].last \in Nat
    BY FieldTypes DEF Futures
  <2> QED BY <2>1 DEF Owns, OwnAt
<1>4. ASSUME NEW c \in Clients
      PROVE Pops[c] \in SUBSET Nat
  <2>1. loc[c].committed \in Nat /\ loc[c].num \in Nat
    BY FieldTypes DEF Locals
  <2> QED BY <1>1, <2>1 DEF BatchInv, Pops, PoppedAt, BatchFacts
<1> QED BY <1>1, <1>2, <1>3, <1>4, <1>5 DEF Owners, Owns, Pops

\* What is left to show of a step in which one client moves.
LEMMA BatchInvFromMove ==
  ASSUME TypeInv, BatchInv, NEW c \in Clients, NEW label, NEW f, NEW l, Moves(c, label, f, l),
         committed' <= processing', \A b \in ready' : b[2] > 0,
         Tiling([Owns EXCEPT ![c] = OwnAt(label, f)], [Pops EXCEPT ![c] = PoppedAt(label, l)],
                ready', committed', processing'),
         BatchFacts(label, f, l, committed'),
         \A d \in Clients \ {c} : BatchFacts(pc[d], fut[d], loc[d], committed')
  PROVE  BatchInv'
<1>1. /\ pc \in [Clients -> Labels] /\ fut \in [Clients -> Futures]
      /\ loc \in [Clients -> Locals]
  BY FieldTypes
<1>2. \A d \in Clients : /\ pc'[d] = IF d = c THEN label ELSE pc[d]
                         /\ fut'[d] = IF d = c THEN f ELSE fut[d]
                         /\ loc'[d] = IF d = c THEN l ELSE loc[d]
  BY <1>1 DEF Moves
<1>3. Owns' = [Owns EXCEPT ![c] = OwnAt(label, f)]
  BY <1>2 DEF Owns, OwnAt
<1>4. Pops' = [Pops EXCEPT ![c] = PoppedAt(label, l)]
  BY <1>2 DEF Pops, PoppedAt
<1>5. \A d \in Clients : BatchFacts(pc[d], fut[d], loc[d], committed)'
  BY <1>2 DEF BatchFacts
<1>6. (\A b \in ready : b[2] > 0)' /\ (committed <= processing)'
  OBVIOUS
<1>7. Tiling(Owns, Pops, ready, committed, processing)'
  BY <1>3, <1>4 DEF Tiling
<1> QED BY <1>5, <1>6, <1>7 DEF BatchInv

\* A step that moves no batch: the client keeps what it is responsible for.
KeepsBatches(c, label, f, l) ==
  /\ OwnAt(label, f) = OwnAt(pc[c], fut[c])
  /\ PoppedAt(label, l) = PoppedAt(pc[c], loc[c])
  /\ BatchFacts(label, f, l, committed)

LEMMA BatchInvQuiet ==
  ASSUME TypeInv, BatchInv, NEW c \in Clients, NEW label, NEW f, NEW l, Moves(c, label, f, l),
         UNCHANGED <<committed, processing, ready>>, KeepsBatches(c, label, f, l)
  PROVE  BatchInv'
<1>1. Owns = [Owns EXCEPT ![c] = OwnAt(label, f)] /\ Pops = [Pops EXCEPT ![c] = PoppedAt(label, l)]
  BY DEF KeepsBatches, Owns, Pops
<1>2. committed' = committed /\ processing' = processing /\ ready' = ready
  OBVIOUS
<1>3. Tiling([Owns EXCEPT ![c] = OwnAt(label, f)], [Pops EXCEPT ![c] = PoppedAt(label, l)],
             ready', committed', processing')
  BY <1>1, <1>2 DEF BatchInv
<1>4. BatchFacts(label, f, l, committed')
  BY <1>2 DEF KeepsBatches
<1>5. \A d \in Clients \ {c} : BatchFacts(pc[d], fut[d], loc[d], committed')
  BY <1>2 DEF BatchInv
<1> QED BY <1>2, <1>3, <1>4, <1>5, BatchInvFromMove DEF BatchInv

\* Every timestamp a client is responsible for lies above the committed one.
LEMMA OwnAboveCommitted ==
  ASSUME TypeInv, BatchInv, NEW c \in Clients
  PROVE  /\ \A n \in OwnAt(pc[c], fut[c]) : committed < n /\ n <= processing
         /\ \A n \in PoppedAt(pc[c], loc[c]) : committed < n /\ n <= processing
<1>1. /\ Owns \in Owners /\ Pops \in Owners /\ committed \in Nat /\ processing \in Nat
  BY BatchTypes
<1>2. /\ \A n \in Owns[c] : n \in Nat /\ n \in committed + 1 .. processing
      /\ \A n \in Pops[c] : n \in Nat /\ n \in committed + 1 .. processing
  BY <1>1 DEF BatchInv, Tiling, Owners
<1>3. Owns[c] = OwnAt(pc[c], fut[c]) /\ Pops[c] = PoppedAt(pc[c], loc[c])
  BY DEF Owns, Pops
<1> QED BY <1>1, <1>2, <1>3

LEMMA RangeTypes ==
  ASSUME TypeInv, NEW c \in Clients
  PROVE  /\ fut[c].first \in Nat /\ fut[c].processing \in Nat /\ fut[c].last \in Nat
         /\ fut[c].timestamp \in Nat /\ loc[c].committed \in Nat /\ loc[c].num \in Nat
         /\ loc[c].own \in BOOLEAN /\ loc[c].timestamp \in Nat
         /\ fut[c].first <= fut[c].processing /\ fut[c].processing <= fut[c].last
         /\ fut[c] \in Futures /\ loc[c] \in Locals
         /\ WellFormed(pc[c], fut[c], loc[c])
<1>1. fut[c] \in Futures /\ loc[c] \in Locals /\ WellFormed(pc[c], fut[c], loc[c])
  BY DEF TypeInv, TypeOK
<1> QED BY <1>1 DEF Futures, Locals, WellFormed

LEMMA BatchInvInit == Init => BatchInv
<1> SUFFICES ASSUME Init PROVE BatchInv
  OBVIOUS
<1>1. NoFuture.last = 0 /\ NoFuture.first = 0 /\ NoFuture.processing = 0 /\ NoFuture.timestamp = 0
  BY DEF NoFuture
<1>2. ASSUME NEW c \in Clients
      PROVE  /\ OwnAt(pc[c], fut[c]) = {} /\ PoppedAt(pc[c], loc[c]) = {}
             /\ BatchFacts(pc[c], fut[c], loc[c], committed)
  BY <1>1 DEF Init, OwnAt, PoppedAt, BatchFacts, CommittingLabels, TailLabels, ShouldAcquire, NoLocals
<1>3. Tiling(Owns, Pops, ready, committed, processing)
  BY <1>2 DEF Init, Tiling, Owns, Pops
<1> QED BY <1>2, <1>3 DEF Init, BatchInv

\* A poll that returns FUTURE_STATE_RUNNING outside its tail, or in it with an
\* empty or unfinished batch, keeps its batch.
LEMMA ReturnKeeps ==
  ASSUME TypeInv, BatchInv, NEW c \in Clients, pc[c] \notin CommittingLabels,
         \/ pc[c] \notin TailLabels
         \/ ~ShouldAcquire(fut[c])
         \/ fut[c].first = fut[c].last
  PROVE  KeepsBatches(c, PollStart(fut[c]), fut[c], NoLocals)
<1>1. /\ PollStart(fut[c]) \notin TailLabels \union AppendLabels
      /\ PollStart(fut[c]) \notin CommittingLabels
      /\ PollStart(fut[c]) \notin {"load_processing", "cas_processing", "insert", "await_committed"}
      /\ PollStart(fut[c]) \notin {"pop", "insert", "await_committed"} \union CommittingLabels
      /\ PollStart(fut[c]) # "post_slots"
  BY DEF PollStart, TailLabels, AppendLabels, CommittingLabels
<1>2. /\ fut[c].first \in Nat /\ fut[c].last \in Nat /\ committed \in Nat
      /\ NoLocals.committed = 0 /\ BatchFacts(pc[c], fut[c], loc[c], committed)
  BY RangeTypes, BatchTypes DEF BatchInv, NoLocals
<1>3. fut[c].first = fut[c].last => fut[c].first + 1 .. fut[c].last = {}
  BY <1>2
<1>4. OwnAt(PollStart(fut[c]), fut[c]) = OwnAt(pc[c], fut[c])
  BY <1>1, <1>3 DEF OwnAt
<1>5. PoppedAt(PollStart(fut[c]), NoLocals) = PoppedAt(pc[c], loc[c])
  BY <1>1 DEF PoppedAt
<1>6. BatchFacts(PollStart(fut[c]), fut[c], NoLocals, committed)
  BY <1>1, <1>2 DEF BatchFacts
<1> QED BY <1>4, <1>5, <1>6 DEF KeepsBatches

\* A batch that starts at the committed timestamp goes on to be committed.
LEMMA CommitOwnKeeps ==
  ASSUME TypeInv, BatchInv, NEW c \in Clients, pc[c] \notin CommittingLabels,
         NEW f \in Futures, NEW l \in Locals,
         OwnAt(pc[c], fut[c]) = f.first + 1 .. f.last,
         f.first < f.processing, f.processing <= f.last, f.last <= f.timestamp,
         l.committed <= committed, IsHead(f, l)
  PROVE  KeepsBatches(c, IncreaseLabel, f, OwnLocals(f, l))
<1>0. /\ f.first \in Nat /\ f.last \in Nat /\ f.processing \in Nat /\ l.committed \in Nat
      /\ committed \in Nat
  BY BatchTypes DEF Futures, Locals
<1>1. committed = f.first
  <2>1. f.first + 1 \in OwnAt(pc[c], fut[c])
    BY <1>0
  <2>2. committed < f.first + 1
    BY <2>1, OwnAboveCommitted
  <2> QED BY <1>0, <2>2 DEF IsHead
<1>2. OwnLocals(f, l).own /\ OwnLocals(f, l).committed = l.committed
  BY DEF OwnLocals, Locals
<1>3. IncreaseLabel \in CommittingLabels /\ IncreaseLabel \in TailLabels
  BY DEF IncreaseLabel, CommittingLabels, TailLabels
<1>4. OwnAt(IncreaseLabel, f) = OwnAt(pc[c], fut[c])
  BY <1>3 DEF OwnAt
<1>5. PoppedAt(IncreaseLabel, OwnLocals(f, l)) = PoppedAt(pc[c], loc[c])
  BY <1>2 DEF PoppedAt
<1>6. /\ IncreaseLabel \notin AppendLabels \union {"post_slots"}
      /\ IncreaseLabel \notin {"load_processing", "cas_processing", "insert", "await_committed"}
  BY DEF IncreaseLabel, AppendLabels
<1>7. BatchFacts(IncreaseLabel, f, OwnLocals(f, l), committed)
  BY <1>0, <1>1, <1>2, <1>3, <1>6 DEF BatchFacts
<1> QED BY <1>4, <1>5, <1>7 DEF KeepsBatches

\* The end of a poll that processed an operation or had nothing left to process.
LEMMA AfterProcessKeeps ==
  ASSUME TypeInv, BatchInv, NEW c \in Clients, pc[c] \in {"load_committed", "process"},
         NEW f \in Futures, NEW l \in Locals, AfterProcess(c, f, l),
         OwnAt(pc[c], fut[c]) = f.first + 1 .. f.last,
         f.first < f.processing, f.processing <= f.last, f.last <= f.timestamp,
         l.committed <= committed, UNCHANGED <<committed, processing, ready>>
  PROVE  BatchInv'
<1>0. /\ f.first \in Nat /\ f.last \in Nat /\ f.processing \in Nat
      /\ pc[c] \notin CommittingLabels
  BY DEF Futures, CommittingLabels
<1>1. CASE IsHead(f, l)
  <2>1. Moves(c, IncreaseLabel, f, OwnLocals(f, l))
    BY <1>0, <1>1, AfterProcessMoves
  <2> QED BY <1>0, <1>1, <2>1, CommitOwnKeeps, BatchInvQuiet
<1>2. CASE ~IsHead(f, l)
  <2>1. Moves(c, "pop", f, l)
    BY <1>0, <1>2, AfterProcessMoves
  <2>2. KeepsBatches(c, "pop", f, l)
    BY <1>0 DEF KeepsBatches, OwnAt, PoppedAt, BatchFacts, TailLabels, CommittingLabels, AppendLabels
  <2> QED BY <2>1, <2>2, BatchInvQuiet
<1> QED BY <1>1, <1>2

\* A future that holds no timestamp.
LEMMA FreshFuture ==
  /\ \A label : OwnAt(label, NoFuture) = {}
  /\ \A label, kind : \A n \in Nat \ {0} : OwnAt(label, NewFuture(kind, n)) = {}
  /\ NoFuture.first = 0 /\ NoFuture.last = 0 /\ NoFuture.timestamp = 0
BY DEF OwnAt, NewFuture, NoFuture

LEMMA BatchInvAppend ==
  ASSUME TypeInv, BatchInv, NEW c \in Clients, AppendBegin(c) \/ Append(c)
  PROVE  BatchInv'
<1> USE DEF AppendLabels, TailLabels, CommittingLabels
<1>0. /\ BatchFacts(pc[c], fut[c], loc[c], committed) /\ committed \in Nat
      /\ pc \in [Clients -> Labels] /\ fut \in [Clients -> Futures] /\ loc \in [Clients -> Locals]
      /\ loc[c] \in Locals /\ NoLocals.committed = 0
  BY FieldTypes DEF BatchInv, NoLocals
<1>1. UNCHANGED <<committed, processing, ready>>
  BY DEF AppendBegin, Append, TryWait, SlotWait, FetchAdd, FillSlot, PublishTimestamp, shared
<1>2. CASE AppendBegin(c) \/ TryWait(c) \/ FillSlot(c) \/ FetchAdd(c) \/ PublishTimestamp(c)
  <2>1. PICK label \in AppendLabels,
             l \in {loc[c], [loc[c] EXCEPT !.timestamp = next], NoLocals} :
          Moves(c, label, fut[c], l)
    BY <1>0, <1>2 DEF AppendBegin, TryWait, FetchAdd, FillSlot, PublishTimestamp, Goto, Moves
  <2>2. pc[c] \in AppendLabels
    BY <1>2 DEF AppendBegin, TryWait, FetchAdd, FillSlot, PublishTimestamp
  <2>3. l.committed <= committed
    BY <1>0, <2>2 DEF BatchFacts, Locals
  <2>4. KeepsBatches(c, label, fut[c], l)
    BY <1>0, <2>1, <2>2, <2>3 DEF KeepsBatches, OwnAt, PoppedAt, BatchFacts
  <2> QED BY <1>1, <2>1, <2>4, BatchInvQuiet
<1>3. CASE SlotWait(c)
  <2> DEFINE f == NewFuture("slot", committed + 1)
  <2>1. Moves(c, "load_committed", f, loc[c])
    BY <1>0, <1>3 DEF SlotWait, Goto, Moves
  <2>2. OwnAt(pc[c], fut[c]) = {} /\ loc[c].committed <= committed
    BY <1>0, <1>3 DEF SlotWait, BatchFacts
  <2>3. f.first = 0 /\ f.last = 0 /\ f.timestamp = committed + 1
    BY <1>0, NewFutureType
  <2>4. OwnAt("load_committed", f) = OwnAt(pc[c], fut[c])
    BY <1>0, <2>2, FreshFuture
  <2> HIDE DEF f
  <2>5. KeepsBatches(c, "load_committed", f, loc[c])
    BY <1>0, <1>3, <2>2, <2>3, <2>4 DEF SlotWait, KeepsBatches, PoppedAt, BatchFacts
  <2> QED BY <1>1, <2>1, <2>5, BatchInvQuiet
<1> QED BY <1>2, <1>3 DEF Append

LEMMA BatchInvWait ==
  ASSUME TypeInv, PersistInv, BatchInv, NEW c \in Clients,
         \/ \E kind \in WaitKinds, n \in InitialTimestamp + 1 .. next - 1 : WaitBegin(c, kind, n)
         \/ LoadPersisted(c) \/ CasHeader(c) \/ PersistHeader(c) \/ CasPersisted(c)
         \/ WaitReturns(c)
  PROVE  BatchInv'
<1> USE DEF AppendLabels, TailLabels, CommittingLabels
<1>0. /\ BatchFacts(pc[c], fut[c], loc[c], committed) /\ committed \in Nat
      /\ pc \in [Clients -> Labels] /\ fut \in [Clients -> Futures] /\ loc \in [Clients -> Locals]
      /\ loc[c] \in Locals /\ NoLocals.committed = 0 /\ next \in Nat
  BY FieldTypes DEF BatchInv, NoLocals, TypeInv, TypeOK
<1>1. UNCHANGED <<committed, processing, ready>>
  BY DEF WaitBegin, LoadPersisted, CasHeader, PersistHeader, CasPersisted, WaitReturns, shared
<1>2. ASSUME NEW kind \in WaitKinds, NEW n \in InitialTimestamp + 1 .. next - 1,
             WaitBegin(c, kind, n)
      PROVE  BatchInv'
  <2> DEFINE f == NewFuture(kind, n)
  <2>1. Moves(c, PollStart(f), f, loc[c])
    BY <1>0, <1>2 DEF WaitBegin, Goto, Moves
  <2>2. OwnAt(pc[c], fut[c]) = {} /\ pc[c] = "idle" /\ loc[c].committed <= committed
    BY <1>0, <1>2 DEF WaitBegin, BatchFacts
  <2>3. f.first = 0 /\ f.last = 0 /\ f.timestamp = n /\ n \in Nat \ {0}
    BY <1>0, NewFutureType
  <2>4. \A label : OwnAt(label, f) = {}
    BY <2>2, <2>3, FreshFuture
  <2> HIDE DEF f
  <2>5. PollStart(f) \in {"load_persisted", "load_committed"}
    BY PollStartType
  <2>6. KeepsBatches(c, PollStart(f), f, loc[c])
    BY <1>0, <2>2, <2>3, <2>4, <2>5 DEF KeepsBatches, PoppedAt, BatchFacts
  <2> QED BY <1>1, <2>1, <2>6, BatchInvQuiet
<1>3. CASE LoadPersisted(c) \/ PersistHeader(c) \/ CasPersisted(c)
           \/ (CasHeader(c) /\ CasSucceeds(header, loc[c].persisted))
  <2> DEFINE quiet == {"load_persisted", "load_committed", "cas_header", "persist_header",
                       "cas_persisted", "done"}
  <2>1. PICK label \in quiet, l \in {loc[c], [loc[c] EXCEPT !.persisted = persisted]} :
          Moves(c, label, fut[c], l)
    BY <1>0, <1>3 DEF LoadPersisted, CasHeader, PersistHeader, CasPersisted, Goto, Moves
  <2>2. pc[c] \in quiet
    BY <1>3 DEF LoadPersisted, CasHeader, PersistHeader, CasPersisted
  <2>3. l.committed = loc[c].committed
    BY <1>0 DEF Locals
  <2>4. KeepsBatches(c, label, fut[c], l)
    BY <1>0, <2>1, <2>2, <2>3 DEF KeepsBatches, OwnAt, PoppedAt, BatchFacts
  <2> QED BY <1>1, <2>1, <2>4, BatchInvQuiet
<1>4. CASE CasHeader(c) /\ ~CasSucceeds(header, loc[c].persisted)
  <2>1. ReturnRunning(c, fut[c]) /\ pc[c] = "cas_header"
    BY <1>4 DEF CasHeader
  <2>2. Moves(c, PollStart(fut[c]), fut[c], NoLocals)
    BY <2>1, RangeTypes, ReturnMoves
  <2> QED BY <1>1, <2>1, <2>2, ReturnKeeps, BatchInvQuiet
<1>5. CASE WaitReturns(c)
  <2>1. Moves(c, "idle", NoFuture, NoLocals) /\ pc[c] = "done"
    BY <1>5 DEF WaitReturns, Goto, Moves
  <2>2. fut[c].last <= committed
    BY <1>0, <2>1, RangeTypes DEF PersistInv, PersistFacts, BatchFacts
  <2>3. OwnAt(pc[c], fut[c]) = {}
    <3>1. \A n \in OwnAt(pc[c], fut[c]) : n \in Nat /\ n <= fut[c].last
      BY RangeTypes DEF OwnAt
    <3> QED BY <1>0, <2>2, <3>1, RangeTypes, OwnAboveCommitted
  <2>4. OwnAt("idle", NoFuture) = OwnAt(pc[c], fut[c])
    BY <1>0, <2>1, <2>3, FreshFuture
  <2>5. PoppedAt("idle", NoLocals) = PoppedAt(pc[c], loc[c])
    BY <1>0, <2>1 DEF PoppedAt
  <2>6. BatchFacts("idle", NoFuture, NoLocals, committed)
    BY <1>0, FreshFuture DEF BatchFacts
  <2>7. KeepsBatches(c, "idle", NoFuture, NoLocals)
    BY <2>4, <2>5, <2>6 DEF KeepsBatches
  <2> QED BY <1>1, <2>1, <2>7, BatchInvQuiet
<1> QED BY <1>2, <1>3, <1>4, <1>5

\* The poll up to and including pmemstream_process_async_ops.
LEMMA BatchInvLoad ==
  ASSUME TypeInv, BatchInv, NEW c \in Clients, LoadCommitted(c) \/ LoadProcessing(c)
  PROVE  BatchInv'
<1> USE DEF AppendLabels, TailLabels, CommittingLabels
<1>0. /\ BatchFacts(pc[c], fut[c], loc[c], committed) /\ committed \in Nat
      /\ pc \in [Clients -> Labels] /\ fut \in [Clients -> Futures] /\ loc \in [Clients -> Locals]
      /\ loc[c] \in Locals /\ NoLocals.committed = 0
  BY FieldTypes DEF BatchInv, NoLocals
<1>1. UNCHANGED <<committed, processing, ready>>
  BY DEF LoadCommitted, LoadProcessing, shared
<1>2. ASSUME LoadCommitted(c) PROVE BatchInv'
  <2> DEFINE f == fut[c]
             l == [loc[c] EXCEPT !.committed = committed]
             l0 == [l EXCEPT !.committed = 0]
  <2>0. /\ l \in Locals /\ l0 \in Locals /\ l.committed = committed /\ l0.committed = 0
        /\ pc[c] = "load_committed"
    BY <1>0, <1>2 DEF Locals, LoadCommitted
  <2>1. CASE IsCommitted(f)
    <3>1. Completed(c, l0)
      BY <1>2, <2>1 DEF LoadCommitted
    <3>2. PICK label \in {"cas_header", "done", "trywait"}, g \in {f, NoFuture} :
            Moves(c, label, g, l0)
      BY <1>0, <3>1 DEF Completed, Goto, Moves
    <3>3. OwnAt(pc[c], f) = {}
      <4>1. f.last <= committed
        BY <1>0, <2>1, RangeTypes DEF IsCommitted, BatchFacts
      <4>2. \A n \in OwnAt(pc[c], f) : n \in Nat /\ n <= f.last
        BY RangeTypes DEF OwnAt
      <4> QED BY <1>0, <4>1, <4>2, RangeTypes, OwnAboveCommitted
    <3>4. OwnAt(label, g) = {}
      BY <2>0, <3>2, <3>3, FreshFuture DEF OwnAt
    <3>5. KeepsBatches(c, label, g, l0)
      BY <1>0, <2>0, <3>2, <3>3, <3>4, FreshFuture DEF KeepsBatches, PoppedAt, BatchFacts
    <3> QED BY <1>1, <3>2, <3>5, BatchInvQuiet
  <2>2. CASE /\ ~IsCommitted(f) /\ AfterProcess(c, f, l)
             /\ f.processing = f.last /\ ~ShouldAcquire(f)
    <3>1. f.first < f.processing
      BY <1>0, <2>2, RangeTypes DEF IsCommitted, ShouldAcquire, BatchFacts
    <3>2. OwnAt(pc[c], f) = f.first + 1 .. f.last
      BY <2>2 DEF OwnAt
    <3>3. /\ f \in Futures /\ f.processing <= f.last /\ f.last <= f.timestamp
          /\ l.committed <= committed
      BY <1>0, <2>0, RangeTypes DEF BatchFacts
    <3> HIDE DEF l
    <3> QED BY <1>1, <2>0, <2>2, <3>1, <3>2, <3>3, AfterProcessKeeps
  <2>3. CASE ~IsCommitted(f) /\ ShouldAcquire(f) /\ Moves(c, "load_processing", f, l)
    <3>1. KeepsBatches(c, "load_processing", f, l)
      BY <1>0, <2>0, <2>3 DEF KeepsBatches, OwnAt, PoppedAt, BatchFacts
    <3> QED BY <1>1, <2>3, <3>1, BatchInvQuiet
  <2>4. CASE ~IsCommitted(f) /\ f.processing < f.last /\ Moves(c, "process", f, l)
    <3>1. KeepsBatches(c, "process", f, l)
      BY <1>0, <2>0, <2>4 DEF KeepsBatches, OwnAt, PoppedAt, BatchFacts
    <3> QED BY <1>1, <2>4, <3>1, BatchInvQuiet
  <2>5. \/ IsCommitted(f)
        \/ /\ ~IsCommitted(f) /\ AfterProcess(c, f, l)
           /\ f.processing = f.last /\ ~ShouldAcquire(f)
        \/ ~IsCommitted(f) /\ ShouldAcquire(f) /\ Moves(c, "load_processing", f, l)
        \/ ~IsCommitted(f) /\ f.processing < f.last /\ Moves(c, "process", f, l)
    BY <1>0, <1>2 DEF LoadCommitted, Goto, Moves
  <2> QED BY <2>1, <2>2, <2>3, <2>4, <2>5
<1>3. ASSUME LoadProcessing(c) PROVE BatchInv'
  <2>0. pc[c] = "load_processing" /\ loc[c].committed <= committed
    BY <1>0, <1>3 DEF LoadProcessing, BatchFacts
  <2>1. CASE OwnedByOther(fut[c])
    <3>1. Moves(c, PollStart(fut[c]), fut[c], NoLocals)
      BY <1>3, <2>1, RangeTypes, ReturnMoves DEF LoadProcessing
    <3> QED BY <1>1, <2>0, <3>1, ReturnKeeps, BatchInvQuiet
  <2>2. CASE ~OwnedByOther(fut[c])
    <3> DEFINE l == [loc[c] EXCEPT !.processing = processing]
    <3>1. Moves(c, "cas_processing", fut[c], l) /\ l.committed = loc[c].committed
      BY <1>0, <1>3, <2>2 DEF LoadProcessing, Goto, Moves, Locals
    <3>2. KeepsBatches(c, "cas_processing", fut[c], l)
      BY <1>0, <2>0, <3>1 DEF KeepsBatches, OwnAt, PoppedAt, BatchFacts
    <3> QED BY <1>1, <3>1, <3>2, BatchInvQuiet
  <2> QED BY <2>1, <2>2
<1> QED BY <1>2, <1>3

\* The compare-and-swap gives the future the timestamps after processing.
LEMMA BatchInvAcquire ==
  ASSUME TypeInv, BatchInv, NEW c \in Clients, CasProcessing(c)
  PROVE  BatchInv'
<1> USE DEF AppendLabels, TailLabels, CommittingLabels
<1> DEFINE current == loc[c].processing
           last == LastOfBatch(fut[c].timestamp, current)
           f == [fut[c] EXCEPT !.first = current, !.processing = current, !.last = last]
           l == [loc[c] EXCEPT !.processing = 0]
<1>0. /\ BatchFacts(pc[c], fut[c], loc[c], committed) /\ committed \in Nat /\ processing \in Nat
      /\ pc[c] = "cas_processing" /\ current \in Nat /\ current < fut[c].timestamp
      /\ fut[c] \in Futures /\ loc[c] \in Locals /\ fut[c].timestamp \in Nat
  BY RangeTypes, BatchTypes DEF BatchInv, CasProcessing, WellFormed, Locals
<1>1. CASE CasSucceeds(processing, current)
  <2>1. Moves(c, "process", f, l) /\ processing' = last /\ processing = current
        /\ UNCHANGED <<committed, ready>>
    BY <1>1 DEF CasProcessing, CasSucceeds, Goto, Moves
  <2>2. last \in Nat /\ current < last /\ last <= fut[c].timestamp
    BY <1>0 DEF LastOfBatch
  <2>3. /\ f.first = current /\ f.last = last /\ f.processing = current
        /\ f.timestamp = fut[c].timestamp /\ l.committed = loc[c].committed
    BY <1>0 DEF Futures, Locals
  <2> HIDE DEF f, l, last
  <2>4. OwnAt("process", f) = processing + 1 .. last
    BY <1>0, <2>1, <2>2, <2>3 DEF OwnAt, ShouldAcquire
  <2>5. Owns[c] = {} /\ Pops[c] = PoppedAt("process", l)
    BY <1>0 DEF Owns, Pops, OwnAt, PoppedAt, BatchFacts
  <2>6. Pops = [Pops EXCEPT ![c] = PoppedAt("process", l)]
    BY <2>5 DEF Pops
  <2>7. Tiling([Owns EXCEPT ![c] = OwnAt("process", f)], [Pops EXCEPT ![c] = PoppedAt("process", l)],
               ready, committed, last)
    <3>1. Tiling(Owns, Pops, ready, committed, processing) /\ committed <= processing
      BY DEF BatchInv
    <3>2. processing <= last /\ Owns \in Owners /\ Pops \in Owners
      BY <2>1, <2>2, BatchTypes
    <3>3. Tiling([Owns EXCEPT ![c] = processing + 1 .. last], Pops, ready, committed, last)
      BY <1>0, <2>2, <2>5, <3>1, <3>2, TilesAcquired
    <3> QED BY <2>4, <2>6, <3>3
  <2>8. BatchFacts("process", f, l, committed)
    BY <1>0, <2>1, <2>2, <2>3 DEF BatchFacts
  <2>9. committed' <= processing'
    BY <1>0, <2>1, <2>2 DEF BatchInv
  <2> QED BY <2>1, <2>7, <2>8, <2>9, BatchInvFromMove DEF BatchInv
<1>2. CASE ~CasSucceeds(processing, current)
  <2>1. Moves(c, PollStart(fut[c]), fut[c], NoLocals) /\ UNCHANGED <<committed, processing, ready>>
    BY <1>2, RangeTypes, ReturnMoves DEF CasProcessing
  <2> QED BY <1>0, <2>1, ReturnKeeps, BatchInvQuiet
<1> QED BY <1>1, <1>2

LEMMA BatchInvProcess ==
  ASSUME TypeInv, BatchInv, NEW c \in Clients, Process(c)
  PROVE  BatchInv'
<1> USE DEF AppendLabels, TailLabels, CommittingLabels
<1> DEFINE f == [fut[c] EXCEPT !.processing = @ + 1]
<1>0. /\ BatchFacts(pc[c], fut[c], loc[c], committed) /\ pc[c] = "process"
      /\ fut[c].processing < fut[c].last /\ UNCHANGED <<committed, processing, ready>>
      /\ fut[c] \in Futures
  BY RangeTypes DEF BatchInv, Process, WellFormed
<1>1. CASE AfterProcess(c, f, loc[c])
  <2>1. /\ f \in Futures /\ f.first = fut[c].first /\ f.last = fut[c].last
        /\ f.processing = fut[c].processing + 1 /\ f.timestamp = fut[c].timestamp
    BY <1>0 DEF Futures
  <2>2. OwnAt(pc[c], fut[c]) = f.first + 1 .. f.last
    BY <1>0, <2>1, RangeTypes DEF OwnAt, ShouldAcquire
  <2>3. f.first < f.processing /\ f.processing <= f.last /\ f.last <= f.timestamp
        /\ loc[c].committed <= committed
    BY <1>0, <2>1, RangeTypes DEF BatchFacts
  <2> HIDE DEF f
  <2> QED BY <1>0, <1>1, <2>1, <2>2, <2>3, RangeTypes, AfterProcessKeeps
<1>2. CASE ReturnRunning(c, fut[c])
  <2>1. Moves(c, PollStart(fut[c]), fut[c], NoLocals)
    BY <1>2, RangeTypes, ReturnMoves
  <2> QED BY <1>0, <2>1, ReturnKeeps, BatchInvQuiet
<1> QED BY <1>1, <1>2 DEF Process

\* A client that is about to pop, or to commit, sits right behind its batch: a
\* ready batch that starts at the value it loaded lies before its own batch.
LEMMA FoundBatch ==
  ASSUME TypeInv, BatchInv, NEW c \in Clients, pc[c] = "pop",
         NEW b \in ready, b[1] = loc[c].committed
  PROVE  /\ b[1] = committed
         /\ b[1] + b[2] <= fut[c].first
         /\ \A a \in ready : a[1] = loc[c].committed => a = b
<1>0. /\ BatchFacts("pop", fut[c], loc[c], committed)
      /\ Tiling(Owns, Pops, ready, committed, processing)
      /\ \A a \in ready : a[2] > 0
  BY DEF BatchInv
<1>1. /\ committed \in Nat /\ processing \in Nat
      /\ \A a \in ready : a[1] \in Nat /\ a[2] \in Nat
  BY BatchTypes
<1>2. loc[c].committed <= committed /\ fut[c].first < fut[c].last /\ fut[c].first \in Nat
      /\ fut[c].last \in Nat
  BY <1>0, RangeTypes DEF BatchFacts, CommittingLabels
<1>3. ASSUME NEW a \in ready, a[1] = loc[c].committed
      PROVE  a[1] + 1 \in ReadyBatch(a) /\ a[1] + 1 \in Nat /\ a[1] = committed
  <2>1. a[1] + 1 \in ReadyBatch(a) /\ a[1] + 1 \in Nat
    BY <1>0, <1>1 DEF ReadyBatch
  <2>2. a[1] + 1 \in committed + 1 .. processing
    BY <1>0, <2>1 DEF Tiling
  <2> QED BY <1>1, <1>2, <1>3, <2>1, <2>2
<1>4. \A a \in ready : a[1] = loc[c].committed => a = b
  BY <1>0, <1>3 DEF Tiling
<1>5. b[1] + b[2] <= fut[c].first
  <2>1. Owns[c] = fut[c].first + 1 .. fut[c].last
    BY DEF Owns, OwnAt, TailLabels
  <2>2. fut[c].first + 1 \in Owns[c] /\ fut[c].first + 1 \in Nat
    BY <1>2, <2>1
  <2>3. fut[c].first + 1 \in committed + 1 .. processing
    BY <1>0, <2>2 DEF Tiling
  <2>4. fut[c].first + 1 \notin ReadyBatch(b)
    BY <1>0, <2>2 DEF Tiling
  <2>5. committed <= fut[c].first
    BY <1>1, <1>2, <2>3
  <2> QED BY <1>1, <1>2, <1>3, <2>4, <2>5 DEF ReadyBatch
<1> QED BY <1>3, <1>4, <1>5

LEMMA BatchInvPop ==
  ASSUME TypeInv, BatchInv, NEW c \in Clients, PopReady(c)
  PROVE  BatchInv'
<1> USE DEF AppendLabels, TailLabels, CommittingLabels
<1> DEFINE found == {b \in ready : b[1] = loc[c].committed}
<1>0. /\ BatchFacts("pop", fut[c], loc[c], committed) /\ pc[c] = "pop"
      /\ UNCHANGED <<committed, processing>> /\ ready' = ready \ found
      /\ committed \in Nat /\ processing \in Nat
  BY BatchTypes DEF BatchInv, PopReady
<1>1. ASSUME NEW b \in found,
             CallIncrease(c, fut[c], [loc[c] EXCEPT !.committed = @ + b[2],
                                                   !.num = b[2], !.own = FALSE])
      PROVE  BatchInv'
  <2> DEFINE l == PoppedLocals(loc[c], b[2])
  <2>1. Moves(c, IncreaseLabel, fut[c], l)
    BY <1>1 DEF PoppedLocals, CallIncrease, Goto, Moves, IncreaseLabel
  <2>2. /\ b[1] = committed /\ b \in ready /\ b[1] = loc[c].committed
        /\ b[1] \in Nat /\ b[2] \in Nat /\ b[2] > 0
        /\ ReadyBatch(b) \subseteq Nat /\ found = {b}
    BY <1>0, FoundBatch, BatchTypes DEF BatchInv
  <2>3. l.committed = committed + b[2] /\ l.num = b[2] /\ ~l.own
    BY <2>2, RangeTypes DEF PoppedLocals, Locals
  <2> HIDE DEF l
  <2>4. IncreaseLabel \in CommittingLabels
    BY DEF IncreaseLabel
  <2>5. PoppedAt(IncreaseLabel, l) = ReadyBatch(b)
    <3>1. PoppedAt(IncreaseLabel, l) = l.committed - l.num + 1 .. l.committed
      BY <2>3, <2>4 DEF PoppedAt
    <3>2. l.committed - l.num = committed
      <4> DEFINE k == b[2]
      <4>1. k \in Nat /\ committed \in Nat /\ l.committed = committed + k /\ l.num = k
        BY <1>0, <2>2, <2>3
      <4> HIDE DEF k
      <4> QED BY <4>1
    <3>3. ReadyBatch(b) = committed + 1 .. l.committed
      BY <2>2, <2>3 DEF ReadyBatch
    <3> QED BY <3>1, <3>2, <3>3
  <2>6. Owns = [Owns EXCEPT ![c] = OwnAt(IncreaseLabel, fut[c])]
    BY <1>0, <2>4 DEF Owns, OwnAt
  <2>7. Tiling([Owns EXCEPT ![c] = OwnAt(IncreaseLabel, fut[c])],
               [Pops EXCEPT ![c] = PoppedAt(IncreaseLabel, l)], ready', committed, processing)
    <3>1. Tiling(Owns, Pops, ready, committed, processing) /\ Owns \in Owners /\ Pops \in Owners
      BY BatchTypes DEF BatchInv
    <3>2. Pops[c] = {}
      BY <1>0 DEF Pops, PoppedAt
    <3>3. Tiling(Owns, [Pops EXCEPT ![c] = ReadyBatch(b)], ready \ {b}, committed, processing)
      BY <1>0, <2>2, <3>1, <3>2, TilesPopped
    <3> QED BY <1>0, <2>2, <2>5, <2>6, <3>3
  <2>8. BatchFacts(IncreaseLabel, fut[c], l, committed)
    BY <1>0, <2>2, <2>3, <2>4 DEF BatchFacts, IncreaseLabel
  <2>9. (\A a \in ready' : a[2] > 0) /\ committed' <= processing'
    BY <1>0 DEF BatchInv
  <2> QED BY <1>0, <2>1, <2>7, <2>8, <2>9, BatchInvFromMove DEF BatchInv
<1>2. CASE /\ \A b \in found : ~FitsUpto(b, fut[c].last)
           /\ FinishPoll(c, fut[c], loc[c])
  <2>1. found = {}
    <3> SUFFICES ASSUME NEW b \in found PROVE FALSE
      OBVIOUS
    <3>1. b[1] + b[2] <= fut[c].first /\ b[1] \in Nat /\ b[2] \in Nat
      BY <1>0, FoundBatch, BatchTypes
    <3>2. FitsUpto(b, fut[c].last)
      BY <3>1, RangeTypes DEF FitsUpto
    <3> QED BY <1>2, <3>2
  <2>2. UNCHANGED <<committed, processing, ready>>
    BY <1>0, <2>1
  <2>3. /\ fut[c].last <= fut[c].timestamp /\ loc[c].committed <= committed
        /\ OwnAt(pc[c], fut[c]) = fut[c].first + 1 .. fut[c].last
        /\ fut[c].first < fut[c].processing
    BY <1>0 DEF BatchFacts, OwnAt
  <2>4. CASE IsHead(fut[c], loc[c]) /\ Moves(c, IncreaseLabel, fut[c], OwnLocals(fut[c], loc[c]))
    BY <1>0, <2>2, <2>3, <2>4, RangeTypes, CommitOwnKeeps, BatchInvQuiet
  <2>5. CASE ShouldAcquire(fut[c]) /\ Moves(c, "insert", fut[c], loc[c])
    <3>1. KeepsBatches(c, "insert", fut[c], loc[c])
      BY <1>0, <2>5 DEF KeepsBatches, OwnAt, PoppedAt, BatchFacts
    <3> QED BY <2>2, <2>5, <3>1, BatchInvQuiet
  <2>6. CASE ~ShouldAcquire(fut[c]) /\ Moves(c, PollStart(fut[c]), fut[c], NoLocals)
    BY <1>0, <2>2, <2>6, ReturnKeeps, BatchInvQuiet
  <2> QED BY <1>2, <2>4, <2>5, <2>6, FinishPollMoves
<1> QED BY <1>1, <1>2 DEF PopReady

\* pmemstream_increase_committed_timestamp: while c is about to advance the
\* committed timestamp by its batch, no other client is.
LEMMA OneCommitter ==
  ASSUME TypeInv, BatchInv, NEW c \in Clients, NEW d \in Clients,
         pc[c] \in CommittingLabels, pc[d] \in CommittingLabels
  PROVE  c = d
<1>1. /\ Tiling(Owns, Pops, ready, committed, processing) /\ committed \in Nat
      /\ BatchFacts(pc[c], fut[c], loc[c], committed)
      /\ BatchFacts(pc[d], fut[d], loc[d], committed)
  BY BatchTypes DEF BatchInv
<1>2. ASSUME NEW e \in Clients, pc[e] \in CommittingLabels,
             BatchFacts(pc[e], fut[e], loc[e], committed)
      PROVE  committed + 1 \in Owns[e] \/ committed + 1 \in Pops[e]
  <2>1. CASE loc[e].own
    <3>1. committed = fut[e].first /\ fut[e].first < fut[e].last /\ fut[e].last \in Nat
      BY <1>2, <2>1, RangeTypes DEF BatchFacts
    <3>2. OwnAt(pc[e], fut[e]) = fut[e].first + 1 .. fut[e].last
      BY <1>2 DEF OwnAt, CommittingLabels, TailLabels
    <3> QED BY <1>1, <3>1, <3>2 DEF Owns
  <2>2. CASE ~loc[e].own
    <3>1. loc[e].committed = committed + loc[e].num /\ loc[e].num > 0 /\ loc[e].num \in Nat
      BY <1>2, <2>2, RangeTypes DEF BatchFacts
    <3>2. PoppedAt(pc[e], loc[e]) = loc[e].committed - loc[e].num + 1 .. loc[e].committed
      BY <1>2, <2>2 DEF PoppedAt
    <3> QED BY <1>1, <3>1, <3>2 DEF Pops
  <2> QED BY <2>1, <2>2
<1>3. committed + 1 \in Nat
  BY <1>1
<1>4. /\ committed + 1 \in Owns[c] \/ committed + 1 \in Pops[c]
      /\ committed + 1 \in Owns[d] \/ committed + 1 \in Pops[d]
  BY <1>1, <1>2
<1> QED BY <1>1, <1>3, <1>4 DEF Tiling

\* What any client knows survives an increase of the committed timestamp by
\* the one client that is committing.
LEMMA OthersKeepFacts ==
  ASSUME TypeInv, BatchInv, NEW c \in Clients, pc[c] = "add_committed",
         NEW n \in Nat, committed <= n, NEW d \in Clients \ {c}
  PROVE  BatchFacts(pc[d], fut[d], loc[d], n)
<1>1. pc[d] \notin CommittingLabels
  BY OneCommitter DEF CommittingLabels
<1>2. BatchFacts(pc[d], fut[d], loc[d], committed) /\ committed \in Nat
  BY BatchTypes DEF BatchInv
<1>3. fut[d].last \in Nat /\ loc[d].committed \in Nat
  BY RangeTypes
<1> QED BY <1>1, <1>2, <1>3 DEF BatchFacts

LEMMA BatchInvAdd ==
  ASSUME TypeInv, BatchInv, NEW c \in Clients, AddCommitted(c)
  PROVE  BatchInv'
<1> DEFINE f == [fut[c] EXCEPT !.first = IF loc[c].own THEN @ + loc[c].num ELSE @]
           n == committed + loc[c].num
<1>0. /\ BatchFacts("add_committed", fut[c], loc[c], committed) /\ pc[c] = "add_committed"
      /\ committed' = n /\ n \in Nat /\ committed \in Nat /\ processing \in Nat
      /\ committed <= n /\ UNCHANGED <<processing, ready>>
      /\ fut[c] \in Futures /\ loc[c].num \in Nat
      /\ Tiling(Owns, Pops, ready, committed, processing)
      /\ Owns \in Owners /\ Pops \in Owners
  BY BatchTypes, RangeTypes DEF BatchInv, AddCommitted
<1>1. Moves(c, "post_slots", f, loc[c])
  <2>1. loc = [loc EXCEPT ![c] = loc[c]] /\ loc' = loc
    BY FieldTypes DEF AddCommitted
  <2> QED BY <2>1 DEF AddCommitted, Goto, Moves
<1>2. /\ f.last = fut[c].last /\ f.timestamp = fut[c].timestamp
      /\ f.processing = fut[c].processing
      /\ f.first = IF loc[c].own THEN fut[c].first + loc[c].num ELSE fut[c].first
  BY <1>0 DEF Futures
<1>3. PoppedAt("post_slots", loc[c]) = {}
  BY DEF PoppedAt, CommittingLabels
<1>4. OwnAt("post_slots", f) = f.first + 1 .. f.last
  BY DEF OwnAt, TailLabels
<1>5. \A d \in Clients \ {c} : BatchFacts(pc[d], fut[d], loc[d], committed')
  BY <1>0, OthersKeepFacts
<1> HIDE DEF f, n
<1>6. CASE loc[c].own
  <2>1. /\ committed = fut[c].first /\ fut[c].first < fut[c].processing
        /\ n = fut[c].processing /\ f.first = n
        /\ fut[c].first \in Nat /\ fut[c].processing \in Nat /\ fut[c].last \in Nat
        /\ n <= fut[c].last /\ loc[c].committed \in Nat
    BY <1>0, <1>2, <1>6, RangeTypes DEF BatchFacts, WellFormed, CommittingLabels, n
  <2>2. Owns[c] = committed + 1 .. fut[c].last
    BY <1>0, <2>1 DEF Owns, OwnAt, TailLabels
  <2>3. Tiling([Owns EXCEPT ![c] = n + 1 .. fut[c].last], Pops, ready, n, processing)
    BY <1>0, <2>1, <2>2, TilesCommittedOwn
  <2>4. Pops = [Pops EXCEPT ![c] = PoppedAt("post_slots", loc[c])]
    BY <1>0, <1>3, <1>6 DEF Pops, PoppedAt
  <2>5. Tiling([Owns EXCEPT ![c] = OwnAt("post_slots", f)],
               [Pops EXCEPT ![c] = PoppedAt("post_slots", loc[c])], ready', committed', processing')
    BY <1>0, <1>2, <1>4, <2>1, <2>3, <2>4
  <2>6. committed' <= processing'
    <3>1. fut[c].last \in Owns[c]
      BY <1>0, <2>1, <2>2
    <3>2. fut[c].last \in committed + 1 .. processing
      BY <1>0, <2>1, <3>1 DEF Tiling
    <3> QED BY <1>0, <2>1, <3>2
  <2>7. BatchFacts("post_slots", f, loc[c], committed')
    BY <1>0, <1>2, <1>6, <2>1 DEF BatchFacts, AppendLabels, CommittingLabels
  <2> QED BY <1>0, <1>1, <1>5, <2>5, <2>6, <2>7, BatchInvFromMove DEF BatchInv
<1>7. CASE ~loc[c].own
  <2>1. loc[c].committed = n /\ loc[c].num > 0 /\ n - loc[c].num = committed
    BY <1>0, <1>7 DEF BatchFacts, CommittingLabels, n
  <2>2. Pops[c] = committed + 1 .. n
    BY <1>0, <1>7, <2>1 DEF Pops, PoppedAt, CommittingLabels
  <2>3. Tiling(Owns, [Pops EXCEPT ![c] = {}], ready, n, processing)
    BY <1>0, <2>2, TilesCommittedPopped
  <2>4. Owns = [Owns EXCEPT ![c] = OwnAt("post_slots", f)]
    BY <1>0, <1>2, <1>4, <1>7 DEF Owns, OwnAt, TailLabels
  <2>5. Tiling([Owns EXCEPT ![c] = OwnAt("post_slots", f)],
               [Pops EXCEPT ![c] = PoppedAt("post_slots", loc[c])], ready', committed', processing')
    BY <1>0, <1>3, <2>3, <2>4
  <2>6. committed' <= processing'
    <3>1. n \in Pops[c]
      BY <1>0, <2>1, <2>2
    <3>2. n \in committed + 1 .. processing
      BY <1>0, <3>1 DEF Tiling
    <3> QED BY <1>0, <3>2
  <2>7. BatchFacts("post_slots", f, loc[c], committed')
    <3>1. fut[c].last \in Nat
      BY RangeTypes
    <3> QED BY <1>0, <1>2, <1>7, <2>1, <3>1 DEF BatchFacts, AppendLabels, CommittingLabels
  <2> QED BY <1>0, <1>1, <1>5, <2>5, <2>6, <2>7, BatchInvFromMove DEF BatchInv
<1> QED BY <1>6, <1>7

LEMMA BatchInvIncrease ==
  ASSUME TypeInv, BatchInv, NEW c \in Clients, ClearSlots(c) \/ PostSlot(c) \/ IncreaseReturns(c)
  PROVE  BatchInv'
<1> USE DEF AppendLabels, TailLabels, CommittingLabels
<1>0. /\ BatchFacts(pc[c], fut[c], loc[c], committed) /\ loc[c] \in Locals
      /\ UNCHANGED <<committed, processing, ready>>
      /\ pc \in [Clients -> Labels] /\ fut \in [Clients -> Futures] /\ loc \in [Clients -> Locals]
  BY FieldTypes DEF BatchInv, ClearSlots, PostSlot, IncreaseReturns, shared
<1>1. CASE ClearSlots(c)
  <2>1. Moves(c, "add_committed", fut[c], loc[c]) /\ pc[c] = "clear_slots"
    BY <1>1, StayMoves DEF ClearSlots
  <2>2. KeepsBatches(c, "add_committed", fut[c], loc[c])
    BY <1>0, <2>1 DEF KeepsBatches, OwnAt, PoppedAt, BatchFacts
  <2> QED BY <1>0, <2>1, <2>2, BatchInvQuiet
<1>2. CASE PostSlot(c)
  <2> DEFINE l == [loc[c] EXCEPT !.num = @ - 1]
  <2>1. Moves(c, "post_slots", fut[c], l) /\ pc[c] = "post_slots"
    BY <1>0, <1>2 DEF PostSlot, Moves
  <2>2. l.committed = loc[c].committed /\ l.own = loc[c].own
    BY <1>0 DEF Locals
  <2> HIDE DEF l
  <2>3. KeepsBatches(c, "post_slots", fut[c], l)
    BY <1>0, <2>1, <2>2 DEF KeepsBatches, OwnAt, PoppedAt, BatchFacts
  <2> QED BY <1>0, <2>1, <2>3, BatchInvQuiet
<1>3. CASE IncreaseReturns(c) /\ loc[c].own
  <2>1. Moves(c, PollStart(fut[c]), fut[c], NoLocals) /\ pc[c] = "post_slots"
    BY <1>3, RangeTypes, ReturnMoves DEF IncreaseReturns
  <2>2. ~ShouldAcquire(fut[c]) \/ fut[c].first = fut[c].last
    BY <1>0, <1>3, <2>1 DEF BatchFacts, ShouldAcquire
  <2> QED BY <1>0, <2>1, <2>2, ReturnKeeps, BatchInvQuiet
<1>4. CASE IncreaseReturns(c) /\ ~loc[c].own
  <2>1. Moves(c, "pop", fut[c], loc[c]) /\ pc[c] = "post_slots"
    BY <1>4, StayMoves DEF IncreaseReturns
  <2>2. KeepsBatches(c, "pop", fut[c], loc[c])
    BY <1>0, <1>4, <2>1 DEF KeepsBatches, OwnAt, PoppedAt, BatchFacts
  <2> QED BY <1>0, <2>1, <2>2, BatchInvQuiet
<1> QED BY <1>1, <1>2, <1>3, <1>4

\* pmemstream_mark_timestamp_batch_as_committed
LEMMA BatchInvMark ==
  ASSUME TypeInv, BatchInv, NEW c \in Clients,
         InsertReady(c) \/ InsertFails(c) \/ AwaitCommitted(c)
  PROVE  BatchInv'
<1> USE DEF AppendLabels, TailLabels, CommittingLabels
<1>0. /\ BatchFacts(pc[c], fut[c], loc[c], committed)
      /\ pc[c] \in {"insert", "await_committed"} /\ ShouldAcquire(fut[c])
      /\ fut[c].first < fut[c].processing /\ loc[c].committed <= committed
      /\ fut[c].last <= fut[c].timestamp /\ UNCHANGED <<committed, processing>>
      /\ OwnAt(pc[c], fut[c]) = fut[c].first + 1 .. fut[c].last
      /\ PoppedAt(pc[c], loc[c]) = {}
  BY DEF BatchInv, BatchFacts, InsertReady, InsertFails, AwaitCommitted, OwnAt, PoppedAt, shared
<1>1. CASE InsertReady(c)
  <2> DEFINE b == <<fut[c].first, BatchSize(fut[c])>>
             label == PollStart(fut[c])
  <2>1. Moves(c, label, fut[c], NoLocals) /\ ready' = ready \union {b}
    BY <1>1, RangeTypes, ReturnMoves DEF InsertReady
  <2>2. /\ b[2] = fut[c].processing - fut[c].first /\ b[2] > 0
        /\ fut[c].first + b[2] = fut[c].last
    BY <1>0, RangeTypes DEF BatchSize, ShouldAcquire
  <2>3. Owns[c] = ReadyBatch(b)
    BY <1>0, <2>2 DEF Owns, ReadyBatch
  <2>4. label \in {"load_persisted", "load_committed"}
    BY PollStartType
  <2> HIDE DEF b, label
  <2>5. OwnAt(label, fut[c]) = {} /\ PoppedAt(label, NoLocals) = {}
    BY <1>0, <2>4 DEF OwnAt, PoppedAt
  <2>6. Pops = [Pops EXCEPT ![c] = {}]
    BY <1>0 DEF Pops
  <2>7. Tiling([Owns EXCEPT ![c] = OwnAt(label, fut[c])],
               [Pops EXCEPT ![c] = PoppedAt(label, NoLocals)], ready', committed', processing')
    <3>1. Tiling(Owns, Pops, ready, committed, processing) /\ committed \in Nat
          /\ processing \in Nat /\ Owns \in Owners /\ Pops \in Owners
      BY BatchTypes DEF BatchInv
    <3>2. Tiling([Owns EXCEPT ![c] = {}], Pops, ready \union {b}, committed, processing)
      BY <2>3, <3>1, TilesInserted
    <3> QED BY <1>0, <2>1, <2>5, <2>6, <3>2
  <2>8. BatchFacts(label, fut[c], NoLocals, committed) /\ NoLocals.committed = 0
    BY <1>0, <2>4, BatchTypes DEF BatchFacts, NoLocals
  <2>9. (\A a \in ready' : a[2] > 0) /\ committed' <= processing'
    BY <1>0, <2>1, <2>2 DEF BatchInv
  <2> QED BY <1>0, <2>1, <2>7, <2>8, <2>9, BatchInvFromMove DEF BatchInv
<1>2. CASE InsertFails(c)
  <2>1. Moves(c, "await_committed", fut[c], loc[c]) /\ pc[c] = "insert"
        /\ UNCHANGED <<committed, processing, ready>>
    BY <1>2, StayMoves DEF InsertFails, shared
  <2>2. KeepsBatches(c, "await_committed", fut[c], loc[c])
    BY <1>0, <2>1 DEF KeepsBatches, OwnAt, PoppedAt, BatchFacts
  <2> QED BY <2>1, <2>2, BatchInvQuiet
<1>3. CASE AwaitCommitted(c)
  <2>1. Moves(c, IncreaseLabel, fut[c], OwnLocals(fut[c], loc[c])) /\ committed = fut[c].first
        /\ UNCHANGED <<committed, processing, ready>>
    BY <1>3, RangeTypes, CommitOwnMoves DEF AwaitCommitted, shared
  <2>2. KeepsBatches(c, IncreaseLabel, fut[c], OwnLocals(fut[c], loc[c]))
    <3>1. /\ OwnLocals(fut[c], loc[c]).own
          /\ OwnLocals(fut[c], loc[c]).committed = loc[c].committed
      BY RangeTypes DEF OwnLocals, Locals
    <3>2. IncreaseLabel \in CommittingLabels /\ IncreaseLabel \in TailLabels
      BY DEF IncreaseLabel
    <3> QED BY <1>0, <2>1, <3>1, <3>2 DEF KeepsBatches, OwnAt, PoppedAt, BatchFacts
  <2> QED BY <2>1, <2>2, BatchInvQuiet
<1> QED BY <1>1, <1>2, <1>3

LEMMA BatchInvNext ==
  TypeInv /\ PersistInv /\ BatchInv /\ [Next]_vars => BatchInv'
<1> SUFFICES ASSUME TypeInv, PersistInv, BatchInv, [Next]_vars PROVE BatchInv'
  OBVIOUS
<1>1. ASSUME NEW c \in Clients, ClientStep(c) PROVE BatchInv'
  BY <1>1, BatchInvAppend, BatchInvWait, BatchInvLoad, BatchInvAcquire, BatchInvProcess,
     BatchInvPop, BatchInvAdd, BatchInvIncrease, BatchInvMark DEF ClientStep, Append
<1>2. CASE UNCHANGED <<pc, fut, loc, committed, processing, ready>>
  <2>1. Owns' = Owns /\ Pops' = Pops
    BY <1>2 DEF Owns, Pops, OwnAt, PoppedAt
  <2>2. Tiling(Owns, Pops, ready, committed, processing)'
    BY <1>2, <2>1 DEF BatchInv, Tiling
  <2>3. (\A c \in Clients : BatchFacts(pc[c], fut[c], loc[c], committed))'
    BY <1>2 DEF BatchInv, BatchFacts
  <2> QED BY <1>2, <2>2, <2>3 DEF BatchInv
<1> QED BY <1>1, <1>2, NextCases DEF CopyDone, vars, shared

\* Whatever the clients do, the batches cover what lies between the committed and
\* the processing timestamp, and a client commits from the committed one on.
THEOREM BatchInvariant == Spec => [](TypeInv /\ PersistInv /\ BatchInv)
<1>1. TypeInv /\ PersistInv /\ BatchInv /\ [Next]_vars => (TypeInv /\ PersistInv /\ BatchInv)'
  BY TypeInvNext, PersistInvNext, BatchInvNext
<1> QED BY TypeInvInit, PersistInvInit, BatchInvInit, <1>1, PTL DEF Spec

LEMMA BatchInvDisjoint == TypeInv /\ BatchInv => BatchesAreDisjoint
<1> SUFFICES ASSUME TypeInv, BatchInv PROVE BatchesAreDisjoint
  OBVIOUS
<1>1. /\ Tiling(Owns, Pops, ready, committed, processing)
      /\ Owns \in Owners /\ Pops \in Owners
      /\ \A b \in ready : ReadyBatch(b) \subseteq Nat
  BY BatchTypes DEF BatchInv
<1>2. \A c \in Clients : /\ OwnBatch(c) = Owns[c] /\ PoppedBatch(c) = Pops[c]
                         /\ Owns[c] \subseteq Nat /\ Pops[c] \subseteq Nat
  BY <1>1, BatchesAt DEF Owns, Pops, Owners
<1>3. ASSUME NEW c \in Clients, NEW d \in Clients
      PROVE  /\ c # d => /\ OwnBatch(c) \intersect OwnBatch(d) = {}
                         /\ PoppedBatch(c) \intersect PoppedBatch(d) = {}
             /\ OwnBatch(c) \intersect PoppedBatch(d) = {}
  BY <1>1, <1>2 DEF Tiling
<1>4. ASSUME NEW b \in ready, NEW c \in Clients
      PROVE  ReadyBatch(b) \intersect (OwnBatch(c) \union PoppedBatch(c)) = {}
  BY <1>1, <1>2 DEF Tiling
<1>5. ASSUME NEW a \in ready, NEW b \in ready, a # b
      PROVE  ReadyBatch(a) \intersect ReadyBatch(b) = {}
  BY <1>1, <1>5 DEF Tiling
<1> QED BY <1>3, <1>4, <1>5 DEF BatchesAreDisjoint

\* No timestamp has two holders, whatever the number of clients, of slots and of
\* appends: no operation is processed twice and pmemstream_increase_committed_timestamp
\* has one caller at a time.
THEOREM BatchesNeverOverlap == Spec => []BatchesAreDisjoint
BY BatchInvariant, BatchInvDisjoint, PTL

LEMMA BatchInvComplete == TypeInv /\ BatchInv => NoTimestampIsLost
<1> SUFFICES ASSUME TypeInv, BatchInv PROVE NoTimestampIsLost
  OBVIOUS
<1>1. /\ Tiling(Owns, Pops, ready, committed, processing)
      /\ Owns \in Owners /\ Pops \in Owners
      /\ \A b \in ready : ReadyBatch(b) \subseteq Nat
      /\ committed \in Nat /\ processing \in Nat
  BY BatchTypes DEF BatchInv
<1>2. \A c \in Clients : /\ OwnBatch(c) = Owns[c] /\ PoppedBatch(c) = Pops[c]
                         /\ Owns[c] \subseteq Nat /\ Pops[c] \subseteq Nat
  BY <1>1, BatchesAt DEF Owns, Pops, Owners
<1> DEFINE held == UNION ({OwnBatch(c) : c \in Clients} \union {PoppedBatch(c) : c \in Clients}
                            \union {ReadyBatch(b) : b \in ready})
<1>3. \A n : n \in held <=> \/ \E c \in Clients : n \in Owns[c] \/ n \in Pops[c]
                            \/ \E b \in ready : n \in ReadyBatch(b)
  BY <1>2
<1>4. \A n : n \in held => n \in Nat
  BY <1>1, <1>2, <1>3
<1>5. \A n : n \in committed + 1 .. processing => n \in Nat
  BY <1>1
<1> HIDE DEF held
<1>6. \A n \in Nat : n \in committed + 1 .. processing <=> n \in held
  BY <1>1, <1>3 DEF Tiling
<1>7. committed + 1 .. processing = held
  BY <1>4, <1>5, <1>6
<1> QED BY <1>7 DEF NoTimestampIsLost, held

\* Every timestamp between the committed and the processing one has a holder: no
\* batch is dropped, not even the one popped from ready_timestamps.
THEOREM NothingIsLost == Spec => []NoTimestampIsLost
BY BatchInvariant, BatchInvComplete, PTL

\* Only one client at a time is inside pmemstream_increase_committed_timestamp
\* before its atomic add.
OneClientCommits ==
  \A c, d \in Clients :
    pc[c] \in CommittingLabels /\ pc[d] \in CommittingLabels => c = d

\* The plain atomic add of the committed timestamp needs no lock: at most one
\* client is about to execute it.
THEOREM CommitIsExclusive == Spec => []OneClientCommits
<1>1. TypeInv /\ BatchInv => OneClientCommits
  BY OneCommitter DEF OneClientCommits
<1> QED BY <1>1, BatchInvariant, PTL

LEMMA BatchInvAsserts == TypeInv /\ BatchInv /\ HeaderInv => CodeAsserts
<1> SUFFICES ASSUME TypeInv, BatchInv, HeaderInv, NEW c \in Clients
             PROVE  /\ pc[c] = "process" => /\ fut[c].processing < fut[c].timestamp
                                            /\ fut[c].processing < fut[c].last
                    /\ pc[c] = "insert" => \A b \in ready : b[1] # fut[c].first
                    /\ pc[c] = "cas_persisted" =>
                         persisted = loc[c].persisted \/ persisted > fut[c].timestamp
  BY DEF CodeAsserts
<1>0. BatchFacts(pc[c], fut[c], loc[c], committed)
  BY DEF BatchInv
<1>1. pc[c] = "process" => /\ fut[c].processing < fut[c].timestamp
                           /\ fut[c].processing < fut[c].last
  BY <1>0, RangeTypes DEF BatchFacts, WellFormed
<1>2. ASSUME pc[c] = "insert", NEW b \in ready PROVE b[1] # fut[c].first
  <2>1. fut[c].first < fut[c].last
    BY <1>0, <1>2, RangeTypes DEF BatchFacts
  <2>2. fut[c].first + 1 \in Owns[c] /\ fut[c].first + 1 \in Nat
    BY <1>2, <2>1, RangeTypes DEF Owns, OwnAt, TailLabels
  <2>3. fut[c].first + 1 \notin ReadyBatch(b)
    BY <2>2 DEF BatchInv, Tiling
  <2>4. b[1] \in Nat /\ b[2] \in Nat /\ b[2] > 0
    BY BatchTypes DEF BatchInv
  <2> QED BY <2>3, <2>4 DEF ReadyBatch
<1>3. pc[c] = "cas_persisted" => persisted = loc[c].persisted
  BY DEF HeaderInv, HeaderLabels
<1> QED BY <1>1, <1>2, <1>3

\* None of the asserts of pmemstream_process_async_ops,
\* pmemstream_mark_timestamp_batch_as_committed and wait_persisted can fire.
THEOREM AssertsHold == Spec => []CodeAsserts
BY BatchInvariant, HeaderInvariant, BatchInvAsserts, PTL

-----------------------------------------------------------------------------
(* Slot indices: timestamps less than MaxConcurrency apart have different    *)
(* slots.                                                                    *)

LEMMA Division ==
  ASSUME NEW m \in Nat \ {0}, NEW a \in Nat
  PROVE  a = m * (a \div m) + (a % m) /\ a \div m \in Nat /\ a % m \in Nat
BY SMT

LEMMA NextMultiple ==
  ASSUME NEW m \in Nat \ {0}, NEW p \in Int, NEW q \in Int, p < q
  PROVE  m * q >= m * p + m
<1>1. q = p + 1 + (q - p - 1) /\ q - p - 1 \in Nat
  OBVIOUS
<1>2. m * q = m * p + m + m * (q - p - 1)
  BY <1>1
<1>3. m * (q - p - 1) \in Nat
  BY <1>1
<1> QED BY <1>2, <1>3

LEMMA SameRemainder ==
  ASSUME NEW m \in Nat \ {0}, NEW a \in Nat, NEW b \in Nat, a % m = b % m, a < b
  PROVE  b - a >= m
<1> DEFINE p == a \div m
           q == b \div m
           r == a % m
<1>1. a = m * p + r /\ b = m * q + r /\ p \in Nat /\ q \in Nat /\ r \in Nat
  BY Division
<1> HIDE DEF p, q, r
<1>2. m * p \in Nat /\ m * q \in Nat
  BY <1>1
<1>3. CASE q <= p
  <2>1. m * q <= m * p
    BY <1>1, <1>3, NextMultiple
  <2> QED BY <1>1, <1>2, <2>1
<1>4. CASE p < q
  BY <1>1, <1>2, <1>4, NextMultiple
<1> QED BY <1>1, <1>3, <1>4

SlotIndices == 0 .. MaxConcurrency - 1

LEMMA SlotIndexType ==
  ASSUME NEW n \in Nat
  PROVE  SlotIndex(n) \in SlotIndices
BY DEF SlotIndex, SlotIndices

LEMMA SlotIndexInjective ==
  ASSUME NEW lo \in Nat, NEW a \in Nat, NEW b \in Nat, lo < a, lo < b,
         NEW hi \in Nat, a <= hi, b <= hi, hi - lo <= MaxConcurrency,
         SlotIndex(a) = SlotIndex(b)
  PROVE  a = b
<1>1. MaxConcurrency \in Nat \ {0} /\ a % MaxConcurrency = b % MaxConcurrency
  BY DEF SlotIndex
<1>2. CASE a < b
  <2>1. b - a >= MaxConcurrency
    BY <1>1, <1>2, SameRemainder
  <2> QED BY <2>1
<1>3. CASE b < a
  <2>1. a - b >= MaxConcurrency
    BY <1>1, <1>3, SameRemainder
  <2> QED BY <2>1
<1> QED BY <1>2, <1>3

-----------------------------------------------------------------------------
(* The semaphore.  Its value, the appends between sem_trywait and the fetch  *)
(* of a timestamp, the timestamps not committed yet and the committed ones   *)
(* whose slot is still to be posted add up to the number of slots.           *)

Fetching == {c \in Clients : pc[c] = "fetch"}
Posting == {p \in Clients \X Nat : pc[p[1]] = "post_slots" /\ p[2] \in 1 .. loc[p[1]].num}

CountInv ==
  /\ IsFiniteSet(Fetching) /\ IsFiniteSet(Posting)
  /\ committed < next
  /\ (next - 1 - committed) + Cardinality(Fetching) + Cardinality(Posting) + semaphore
       = MaxConcurrency

LEMMA CountTypes ==
  ASSUME TypeInv, CountInv
  PROVE  /\ next \in Nat /\ committed \in Nat /\ semaphore \in Nat
         /\ Cardinality(Fetching) \in Nat /\ Cardinality(Posting) \in Nat
         /\ next - 1 - committed <= MaxConcurrency
<1>1. next \in Nat /\ committed \in Nat /\ semaphore \in Nat
  BY DEF TypeInv, TypeOK
<1>2. Cardinality(Fetching) \in Nat /\ Cardinality(Posting) \in Nat
  BY FS_CardinalityType DEF CountInv
<1> QED BY <1>1, <1>2 DEF CountInv

LEMMA CountInvInit == Init => CountInv
<1> SUFFICES ASSUME Init PROVE CountInv
  OBVIOUS
<1>1. Fetching = {} /\ Posting = {}
  BY DEF Init, Fetching, Posting
<1>2. IsFiniteSet({}) /\ Cardinality({}) = 0
  BY FS_EmptySet
<1> QED BY <1>1, <1>2 DEF Init, CountInv, SlotCount

\* A step that takes, fetches, commits and posts nothing.
LEMMA CountInvQuiet ==
  ASSUME TypeInv, CountInv, NEW c \in Clients, OnlyMoves(c), UNCHANGED <<next, committed, semaphore>>,
         pc[c] # "fetch", pc'[c] # "fetch", pc'[c] # "post_slots",
         pc[c] = "post_slots" => loc[c].num = 0
  PROVE  CountInv'
<1>1. Fetching' = Fetching
  BY DEF OnlyMoves, Fetching
<1>2. Posting' = Posting
  BY DEF OnlyMoves, Posting
<1> QED BY <1>1, <1>2 DEF CountInv

\* The tokens of a client that is about to post n slots.
Pairs(c, n) == {<<c, i>> : i \in 1 .. n}

LEMMA PairsCount ==
  ASSUME NEW c, NEW n \in Nat
  PROVE  IsFiniteSet(Pairs(c, n)) /\ Cardinality(Pairs(c, n)) = n
<1> DEFINE pair == [i \in 1 .. n |-> <<c, i>>]
<1>1. pair \in Bijection(1 .. n, Pairs(c, n))
  BY DEF Pairs, Bijection, Injection, Surjection, IsInjective
<1>2. ExistsBijection(1 .. n, Pairs(c, n))
  BY <1>1 DEF ExistsBijection
<1>3. IsFiniteSet(1 .. n) /\ Cardinality(1 .. n) = n
  BY FS_Interval
<1> QED BY <1>2, <1>3, FS_Bijection

-----------------------------------------------------------------------------
(* The slots.  A timestamp above the committed one has a slot of its own;    *)
(* the operation in it is the one the timestamp belongs to; a timestamp is   *)
(* durable only once it was published, and every processed part of a batch   *)
(* is durable.                                                              *)

FillLabels == {"fill", "publish"}

RingFacts(i) ==
  /\ slots[i].timestamp < next /\ slots[i].op < next
  /\ slots[i].timestamp > committed =>
       slots[i].op = slots[i].timestamp /\ SlotIndex(slots[i].timestamp) = i
  /\ slots[i].op > committed => SlotIndex(slots[i].op) = i
  /\ DebugBuild => slots[i].timestamp = 0 \/ slots[i].timestamp > committed

FillFacts(c) ==
  /\ pc[c] \in FillLabels =>
       /\ committed < loc[c].timestamp /\ loc[c].timestamp < next
       /\ loc[c].timestamp \notin durable
       /\ \A i \in SlotIndices : slots[i].timestamp # loc[c].timestamp
       /\ \A d \in Clients \ {c} : pc[d] \in FillLabels => loc[d].timestamp # loc[c].timestamp
  /\ pc[c] = "publish" => slots[SlotIndex(loc[c].timestamp)].op = loc[c].timestamp
  /\ DebugBuild /\ pc[c] = "add_committed" =>
       \A n \in committed + 1 .. committed + loc[c].num : slots[SlotIndex(n)].timestamp = 0

Processed(f) == f.first + 1 .. f.processing

DurableInv ==
  /\ durable \intersect copying = {}
  /\ \A n \in durable : n < next
  /\ InitialTimestamp <= committed
  /\ InitialTimestamp + 1 .. committed \subseteq durable
  /\ \A c \in Clients : Processed(fut[c]) \subseteq durable
  /\ \A c \in Clients : PoppedAt(pc[c], loc[c]) \subseteq durable
  /\ \A b \in ready : ReadyBatch(b) \subseteq durable

SlotInv ==
  /\ \A i \in SlotIndices : RingFacts(i)
  /\ \A c \in Clients : FillFacts(c)
  /\ DurableInv

LEMMA SlotTypes ==
  ASSUME TypeInv
  PROVE  /\ next \in Nat /\ committed \in Nat /\ durable \subseteq Nat /\ copying \subseteq Nat
         /\ ready \subseteq Batches /\ DOMAIN slots = SlotIndices /\ slots \in SlotArrays
         /\ \A i \in SlotIndices : slots[i].timestamp \in Nat /\ slots[i].op \in Nat
         /\ \A c \in Clients : loc[c].timestamp \in Nat /\ loc[c].num \in Nat
BY FieldTypes, RangeTypes DEF TypeInv, TypeOK, SlotArrays, SlotIndices

LEMMA SlotInvInit == Init => SlotInv
<1> SUFFICES ASSUME Init PROVE SlotInv
  OBVIOUS
<1>1. ASSUME NEW i \in SlotIndices PROVE RingFacts(i)
  BY DEF Init, RingFacts, SlotIndices, InvalidTimestamp
<1>2. ASSUME NEW c \in Clients PROVE FillFacts(c)
  BY DEF Init, FillFacts, FillLabels
<1>3. DurableInv
  BY DEF Init, DurableInv, Processed, PoppedAt, CommittingLabels, NoFuture
<1> QED BY <1>1, <1>2, <1>3 DEF SlotInv

\* What a client is about to add to the committed timestamp is durable.
LEMMA CommittingIsDurable ==
  ASSUME TypeInv, BatchInv, DurableInv, NEW c \in Clients, pc[c] \in CommittingLabels
  PROVE  committed + 1 .. committed + loc[c].num \subseteq durable
<1>1. BatchFacts(pc[c], fut[c], loc[c], committed) /\ committed \in Nat
  BY BatchTypes DEF BatchInv
<1>2. CASE loc[c].own
  <2>1. committed = fut[c].first /\ committed + loc[c].num = fut[c].processing
    BY <1>1, <1>2, RangeTypes DEF BatchFacts, WellFormed, CommittingLabels
  <2> QED BY <2>1 DEF DurableInv, Processed
<1>3. CASE ~loc[c].own
  <2>1. loc[c].committed = committed + loc[c].num /\ loc[c].committed - loc[c].num = committed
    BY <1>1, <1>3, RangeTypes DEF BatchFacts
  <2>2. PoppedAt(pc[c], loc[c]) = committed + 1 .. committed + loc[c].num
    BY <1>3, <2>1 DEF PoppedAt
  <2> QED BY <2>2 DEF DurableInv
<1> QED BY <1>2, <1>3

\* ... hence below the next timestamp.
LEMMA CommittingIsIssued ==
  ASSUME TypeInv, BatchInv, CountInv, DurableInv, NEW c \in Clients, pc[c] \in CommittingLabels
  PROVE  committed + loc[c].num < next
<1>1. committed \in Nat /\ next \in Nat /\ loc[c].num \in Nat /\ committed < next
  BY CountTypes, SlotTypes DEF CountInv
<1>2. CASE loc[c].num > 0
  <2>1. committed + loc[c].num \in durable
    BY <1>1, <1>2, CommittingIsDurable
  <2> QED BY <2>1 DEF DurableInv
<1> QED BY <1>1, <1>2

\* Two timestamps that are issued and not committed have different slots.
LEMMA SameSlot ==
  ASSUME TypeInv, CountInv, NEW a \in Nat, NEW b \in Nat, committed < a, committed < b,
         a < next, b < next, SlotIndex(a) = SlotIndex(b)
  PROVE  a = b
<1>1. committed \in Nat /\ next - 1 \in Nat /\ next - 1 - committed <= MaxConcurrency
  BY CountTypes DEF CountInv
<1>2. a <= next - 1 /\ b <= next - 1 /\ next \in Nat
  BY CountTypes
<1> QED BY <1>1, <1>2, SlotIndexInjective

\* A step of a client that does not fill its slot, touches no slot and commits
\* nothing; it may make the operation of a published slot durable.
CalmMove(label, f, l) ==
  /\ label \notin FillLabels \union {"fetch", "post_slots"}
  /\ DebugBuild => label # "add_committed"
  /\ Processed(f) \subseteq durable'
  /\ PoppedAt(label, l) \subseteq durable'

CalmSlots ==
  /\ UNCHANGED <<next, committed, slots, copying>>
  /\ durable \subseteq durable'
  /\ \A n \in durable' \ durable :
       n \notin copying /\ \E i \in SlotIndices : slots[i].timestamp = n
  /\ \A b \in ready' : ReadyBatch(b) \subseteq durable'

LEMMA SlotInvCalm ==
  ASSUME TypeInv, SlotInv, NEW c \in Clients, NEW label, NEW f, NEW l, Moves(c, label, f, l),
         pc[c] \notin FillLabels, label \notin FillLabels,
         DebugBuild => label # "add_committed",
         Processed(f) \subseteq durable', PoppedAt(label, l) \subseteq durable', CalmSlots
  PROVE  SlotInv'
<1>1. /\ pc \in [Clients -> Labels] /\ fut \in [Clients -> Futures]
      /\ loc \in [Clients -> Locals]
  BY FieldTypes
<1>2. \A d \in Clients : /\ pc'[d] = IF d = c THEN label ELSE pc[d]
                         /\ fut'[d] = IF d = c THEN f ELSE fut[d]
                         /\ loc'[d] = IF d = c THEN l ELSE loc[d]
  BY <1>1 DEF Moves
<1>3. /\ next' = next /\ committed' = committed /\ slots' = slots /\ copying' = copying
      /\ \A n \in durable' : n \in durable \/ \E i \in SlotIndices : slots[i].timestamp = n
  BY DEF CalmSlots
<1>4. ASSUME NEW i \in SlotIndices PROVE RingFacts(i)'
  BY <1>3 DEF SlotInv, RingFacts
<1>5. ASSUME NEW d \in Clients PROVE FillFacts(d)'
  <2>1. CASE d = c
    BY <1>2, <2>1 DEF FillFacts, FillLabels
  <2>2. CASE d # c
    <3>1. pc'[d] = pc[d] /\ loc'[d] = loc[d] /\ FillFacts(d)
      BY <1>2, <2>2 DEF SlotInv
    <3>2. pc[d] \in FillLabels => loc[d].timestamp \notin durable'
      BY <1>3, <3>1 DEF FillFacts
    <3>3. \A e \in Clients \ {d} : pc'[e] \in FillLabels => pc[e] \in FillLabels /\ loc'[e] = loc[e]
      BY <1>2
    <3> QED BY <1>3, <3>1, <3>2, <3>3 DEF FillFacts
  <2> QED BY <2>1, <2>2
<1>6. DurableInv'
  <2>1. (durable \intersect copying = {})'
    BY DEF CalmSlots, SlotInv, DurableInv
  <2>2. \A n \in durable' : n < next'
    BY <1>3 DEF SlotInv, DurableInv, RingFacts
  <2>3. InitialTimestamp <= committed' /\ InitialTimestamp + 1 .. committed' \subseteq durable'
    BY <1>3 DEF CalmSlots, SlotInv, DurableInv
  <2>4. ASSUME NEW d \in Clients
        PROVE  Processed(fut'[d]) \subseteq durable' /\ PoppedAt(pc'[d], loc'[d]) \subseteq durable'
    BY <1>2 DEF CalmSlots, SlotInv, DurableInv
  <2>5. \A d \in Clients : Processed(fut'[d]) \subseteq durable'
    BY <2>4
  <2> QED BY <2>1, <2>2, <2>3, <2>4, <2>5 DEF CalmSlots, DurableInv
<1> QED BY <1>4, <1>5, <1>6 DEF SlotInv

\* Both invariants after a calm move.
LEMMA CalmStep ==
  ASSUME TypeInv, CountInv, SlotInv, NEW c \in Clients, NEW label, NEW f, NEW l,
         Moves(c, label, f, l), CalmMove(label, f, l), CalmSlots, semaphore' = semaphore,
         pc[c] \notin FillLabels \union {"fetch"}, pc[c] = "post_slots" => loc[c].num = 0
  PROVE  CountInv' /\ SlotInv'
<1>1. /\ pc \in [Clients -> Labels] /\ fut \in [Clients -> Futures]
      /\ loc \in [Clients -> Locals]
  BY FieldTypes
<1>2. OnlyMoves(c) /\ pc'[c] = label
  BY <1>1 DEF Moves, OnlyMoves
<1>3. CountInv'
  BY <1>2, CountInvQuiet DEF CalmMove, CalmSlots
<1>4. SlotInv'
  BY SlotInvCalm DEF CalmMove
<1> QED BY <1>3, <1>4

LEMMA CalmReturn ==
  ASSUME NEW f, Processed(f) \subseteq durable'
  PROVE  CalmMove(PollStart(f), f, NoLocals)
BY DEF CalmMove, PollStart, FillLabels, PoppedAt, CommittingLabels

LEMMA CalmCommitOwn ==
  ASSUME NEW f, NEW l \in Locals, Processed(f) \subseteq durable'
  PROVE  CalmMove(IncreaseLabel, f, OwnLocals(f, l))
<1>1. OwnLocals(f, l).own
  BY DEF OwnLocals, Locals
<1> QED BY <1>1 DEF CalmMove, IncreaseLabel, FillLabels, PoppedAt, CommittingLabels

\* Every step that leaves the slots, the durable set and the counters alone.
Untouched == UNCHANGED <<next, committed, semaphore, slots, durable, copying>>

LEMMA UntouchedIsCalm ==
  ASSUME SlotInv, Untouched, \A b \in ready' : b \in ready \/ ReadyBatch(b) \subseteq durable
  PROVE  CalmSlots
BY DEF SlotInv, DurableInv, CalmSlots, Untouched

LEMMA ProcessedIsDurable ==
  ASSUME TypeInv, SlotInv, NEW c \in Clients
  PROVE  Processed(fut[c]) \subseteq durable
BY DEF SlotInv, DurableInv

\* pmemstream_async_publish_generic
LEMMA TokenTaken ==
  ASSUME TypeInv, CountInv, NEW c \in Clients, pc[c] = "trywait", semaphore > 0,
         semaphore' = semaphore - 1, UNCHANGED <<next, committed, fut, loc>>, Goto(c, "fetch")
  PROVE  CountInv'
<1>1. pc' = [pc EXCEPT ![c] = "fetch"] /\ pc \in [Clients -> Labels]
  BY FieldTypes DEF Goto
<1>2. Fetching' = Fetching \union {c} /\ c \notin Fetching
  BY <1>1 DEF Fetching
<1>3. Posting' = Posting
  BY <1>1 DEF Posting
<1>4. IsFiniteSet(Fetching') /\ Cardinality(Fetching') = Cardinality(Fetching) + 1
  BY <1>2, FS_AddElement DEF CountInv
<1> QED BY <1>3, <1>4, CountTypes DEF CountInv

LEMMA TokenUsed ==
  ASSUME TypeInv, CountInv, NEW c \in Clients, FetchAdd(c)
  PROVE  CountInv'
<1>1. pc' = [pc EXCEPT ![c] = "fill"] /\ pc \in [Clients -> Labels] /\ pc[c] = "fetch"
      /\ next' = next + 1 /\ UNCHANGED <<committed, semaphore>>
      /\ loc' = [loc EXCEPT ![c].timestamp = next] /\ loc \in [Clients -> Locals]
  BY FieldTypes DEF FetchAdd, Goto
<1>2. Fetching' = Fetching \ {c} /\ c \in Fetching
  BY <1>1 DEF Fetching
<1>3. Posting' = Posting
  BY <1>1 DEF Posting
<1>4. IsFiniteSet(Fetching') /\ Cardinality(Fetching') = Cardinality(Fetching) - 1
  BY <1>2, FS_RemoveElement DEF CountInv
<1> QED BY <1>1, <1>3, <1>4, CountTypes DEF CountInv

LEMMA TokensCommitted ==
  ASSUME TypeInv, BatchInv, CountInv, DurableInv, NEW c \in Clients, AddCommitted(c)
  PROVE  CountInv'
<1> DEFINE num == loc[c].num
           pairs == Pairs(c, num)
<1>1. pc' = [pc EXCEPT ![c] = "post_slots"] /\ pc \in [Clients -> Labels] /\ pc[c] = "add_committed"
      /\ committed' = committed + num /\ UNCHANGED <<next, semaphore, loc>> /\ num \in Nat
  BY RangeTypes, FieldTypes DEF AddCommitted, Goto
<1>2. Fetching' = Fetching
  BY <1>1 DEF Fetching
<1>3. Posting' = Posting \union pairs /\ Posting \intersect pairs = {}
  BY <1>1 DEF Posting, Pairs
<1>4. IsFiniteSet(pairs) /\ Cardinality(pairs) = num
  BY <1>1, PairsCount
<1>5. IsFiniteSet(Posting') /\ Cardinality(Posting') = Cardinality(Posting) + num
  <2> HIDE DEF pairs
  <2>1. Cardinality({}) = 0
    BY FS_EmptySet
  <2>2. /\ IsFiniteSet(Posting \union pairs)
        /\ Cardinality(Posting \union pairs) = Cardinality(Posting) + Cardinality(pairs) - 0
    BY <1>3, <1>4, <2>1, FS_Union DEF CountInv
  <2> QED BY <1>1, <1>3, <1>4, <2>2, CountTypes
<1>6. committed + num < next
  BY <1>1, CommittingIsIssued DEF CommittingLabels
<1> QED BY <1>1, <1>2, <1>5, <1>6, CountTypes DEF CountInv

LEMMA TokenPosted ==
  ASSUME TypeInv, CountInv, NEW c \in Clients, PostSlot(c)
  PROVE  CountInv'
<1>1. pc[c] = "post_slots" /\ loc[c].num > 0 /\ semaphore' = semaphore + 1
      /\ UNCHANGED <<pc, next, committed>> /\ loc[c].num \in Nat
      /\ loc' = [loc EXCEPT ![c].num = @ - 1] /\ loc \in [Clients -> Locals]
  BY RangeTypes, FieldTypes DEF PostSlot
<1>2. Fetching' = Fetching
  BY <1>1 DEF Fetching
<1>3. \A d \in Clients : loc'[d].num = IF d = c THEN loc[c].num - 1 ELSE loc[d].num
  BY <1>1 DEF Locals
<1>4. Posting' = Posting \ {<<c, loc[c].num>>} /\ <<c, loc[c].num>> \in Posting
  BY <1>1, <1>3, RangeTypes DEF Posting
<1>5. IsFiniteSet(Posting') /\ Cardinality(Posting') = Cardinality(Posting) - 1
  BY <1>4, FS_RemoveElement DEF CountInv
<1> QED BY <1>1, <1>2, <1>5, CountTypes DEF CountInv

LEMMA SlotInvAppend ==
  ASSUME TypeInv, BatchInv, CountInv, SlotInv, NEW c \in Clients,
         AppendBegin(c) \/ TryWait(c) \/ SlotWait(c)
  PROVE  CountInv' /\ SlotInv'
<1> USE DEF FillLabels
<1>0. /\ pc \in [Clients -> Labels] /\ fut \in [Clients -> Futures] /\ loc \in [Clients -> Locals]
      /\ Processed(fut[c]) \subseteq durable /\ committed \in Nat
  BY FieldTypes, ProcessedIsDurable
<1>1. /\ UNCHANGED <<next, committed, slots, durable, copying, ready>>
      /\ CalmSlots
  BY DEF AppendBegin, TryWait, SlotWait, shared, CalmSlots, SlotInv, DurableInv
<1>2. CASE AppendBegin(c) \/ (TryWait(c) /\ semaphore = 0)
  <2>1. PICK label \in {"trywait", "slot_wait"} :
          Moves(c, label, fut[c], loc[c]) /\ semaphore' = semaphore
    BY <1>2, StayMoves DEF AppendBegin, TryWait
  <2>2. CalmMove(label, fut[c], loc[c])
    BY <1>0, <1>1, <2>1 DEF CalmMove, PoppedAt, CommittingLabels
  <2> QED BY <1>1, <1>2, <2>1, <2>2, CalmStep DEF AppendBegin, TryWait
<1>3. CASE TryWait(c) /\ semaphore > 0
  <2>1. Goto(c, "fetch") /\ semaphore' = semaphore - 1 /\ pc[c] = "trywait"
        /\ UNCHANGED <<fut, loc>>
    BY <1>3 DEF TryWait
  <2>2. CountInv'
    BY <1>1, <1>3, <2>1, TokenTaken
  <2>3. Moves(c, "fetch", fut[c], loc[c])
    BY <2>1, StayMoves
  <2>4. SlotInv'
    BY <1>0, <1>1, <2>1, <2>3, SlotInvCalm DEF PoppedAt, CommittingLabels
  <2> QED BY <2>2, <2>4
<1>4. CASE SlotWait(c)
  <2> DEFINE f == NewFuture("slot", committed + 1)
  <2>1. Moves(c, "load_committed", f, loc[c]) /\ semaphore' = semaphore /\ pc[c] = "slot_wait"
    BY <1>0, <1>4 DEF SlotWait, Goto, Moves, shared
  <2>2. Processed(f) = {}
    BY <1>0, NewFutureType DEF Processed
  <2> HIDE DEF f
  <2>3. CalmMove("load_committed", f, loc[c])
    BY <2>2 DEF CalmMove, PoppedAt, CommittingLabels
  <2> QED BY <1>1, <2>1, <2>3, CalmStep
<1>5. semaphore \in Nat
  BY CountTypes
<1> QED BY <1>2, <1>3, <1>4, <1>5

\* The fetched timestamp is above everything issued so far.
LEMMA SlotInvFetch ==
  ASSUME TypeInv, CountInv, SlotInv, NEW c \in Clients, FetchAdd(c)
  PROVE  SlotInv'
<1>0. /\ next \in Nat /\ committed \in Nat /\ committed < next /\ durable \subseteq Nat
      /\ \A i \in SlotIndices : slots[i].timestamp \in Nat /\ slots[i].op \in Nat
      /\ \A d \in Clients : loc[d].timestamp \in Nat
  BY SlotTypes DEF CountInv
<1>1. /\ next' = next + 1 /\ UNCHANGED <<committed, slots, durable, copying, ready, fut>>
      /\ \A d \in Clients : pc'[d] = IF d = c THEN "fill" ELSE pc[d]
      /\ \A d \in Clients : d # c => loc'[d] = loc[d]
      /\ loc'[c].timestamp = next /\ pc[c] = "fetch"
  <2>1. pc \in [Clients -> Labels] /\ loc \in [Clients -> Locals]
    BY FieldTypes
  <2> QED BY <2>1 DEF FetchAdd, Goto, Locals
<1>2. ASSUME NEW i \in SlotIndices PROVE RingFacts(i)'
  BY <1>0, <1>1 DEF SlotInv, RingFacts
<1>3. ASSUME NEW d \in Clients PROVE FillFacts(d)'
  <2>1. CASE d = c
    <3>1. pc'[d] = "fill" /\ loc'[d].timestamp = next
      BY <1>1, <2>1
    <3>2. next \notin durable /\ \A i \in SlotIndices : slots[i].timestamp # next
      BY <1>0 DEF SlotInv, DurableInv, RingFacts
    <3>3. \A e \in Clients \ {d} : pc'[e] \in FillLabels => loc'[e].timestamp # next
      BY <1>0, <1>1, <2>1 DEF SlotInv, FillFacts
    <3> QED BY <1>0, <1>1, <3>1, <3>2, <3>3 DEF FillFacts
  <2>2. CASE d # c
    <3>1. FillFacts(d) /\ pc'[d] = pc[d] /\ loc'[d] = loc[d]
      BY <1>1, <2>2 DEF SlotInv
    <3>2. pc[d] \in FillLabels => loc[d].timestamp < next + 1
      BY <1>0, <3>1 DEF FillFacts
    <3>3. ASSUME NEW e \in Clients \ {d}, pc'[e] \in FillLabels, pc[d] \in FillLabels
          PROVE  loc'[e].timestamp # loc[d].timestamp
      <4>1. CASE e = c
        BY <1>0, <1>1, <3>1, <3>3, <4>1 DEF FillFacts
      <4>2. CASE e # c
        BY <1>1, <3>1, <3>3, <4>2 DEF FillFacts
      <4> QED BY <4>1, <4>2
    <3> QED BY <1>1, <3>1, <3>2, <3>3 DEF FillFacts
  <2> QED BY <2>1, <2>2
<1>4. DurableInv'
  <2>1. \A d \in Clients : PoppedAt(pc'[d], loc'[d]) = PoppedAt(pc[d], loc[d])
    BY <1>1 DEF PoppedAt, CommittingLabels
  <2> QED BY <1>0, <1>1, <2>1 DEF SlotInv, DurableInv
<1> QED BY <1>2, <1>3, <1>4 DEF SlotInv

\* The slot of a timestamp being filled holds no other uncommitted operation.
LEMMA SlotOfFilled ==
  ASSUME TypeInv, CountInv, SlotInv, NEW c \in Clients, pc[c] \in FillLabels
  PROVE  LET n == loc[c].timestamp
             i == SlotIndex(n)
         IN  /\ n \in Nat /\ committed < n /\ n < next /\ i \in SlotIndices
             /\ slots[i].timestamp <= committed
             /\ slots[i].op <= committed \/ slots[i].op = n
             /\ \A d \in Clients \ {c} : pc[d] \in FillLabels => SlotIndex(loc[d].timestamp) # i
             /\ \A m \in durable : committed < m => SlotIndex(m) # i
<1> DEFINE n == loc[c].timestamp
           i == SlotIndex(n)
<1>1. /\ n \in Nat /\ committed < n /\ n < next /\ i \in SlotIndices /\ n \notin durable
      /\ \A j \in SlotIndices : slots[j].timestamp # n
      /\ committed \in Nat /\ durable \subseteq Nat
      /\ slots[i].timestamp \in Nat /\ slots[i].op \in Nat
  BY SlotTypes, SlotIndexType DEF SlotInv, FillFacts
<1>2. RingFacts(i)
  BY <1>1 DEF SlotInv
<1>3. slots[i].timestamp <= committed
  <2> SUFFICES ASSUME slots[i].timestamp > committed PROVE FALSE
    BY <1>1
  <2>1. SlotIndex(slots[i].timestamp) = i /\ slots[i].timestamp < next
    BY <1>2 DEF RingFacts
  <2> HIDE DEF i
  <2>2. slots[i].timestamp = n
    BY <1>1, <2>1, SameSlot DEF i
  <2> QED BY <1>1, <2>2
<1>4. slots[i].op <= committed \/ slots[i].op = n
  <2>1. slots[i].op > committed => SlotIndex(slots[i].op) = i /\ slots[i].op < next
    BY <1>2 DEF RingFacts
  <2> QED BY <1>1, <2>1, SameSlot
<1>5. ASSUME NEW d \in Clients \ {c}, pc[d] \in FillLabels
      PROVE  SlotIndex(loc[d].timestamp) # i
  <2>1. /\ loc[d].timestamp \in Nat /\ committed < loc[d].timestamp
        /\ loc[d].timestamp < next /\ loc[d].timestamp # n
    BY <1>5, SlotTypes DEF SlotInv, FillFacts
  <2> QED BY <1>1, <2>1, SameSlot
<1>6. ASSUME NEW m \in durable, committed < m PROVE SlotIndex(m) # i
  <2>1. m \in Nat /\ m < next /\ m # n
    BY <1>1 DEF SlotInv, DurableInv
  <2> QED BY <1>1, <1>6, <2>1, SameSlot
<1> QED BY <1>1, <1>3, <1>4, <1>5, <1>6

LEMMA SlotInvFill ==
  ASSUME TypeInv, CountInv, SlotInv, NEW c \in Clients, FillSlot(c)
  PROVE  CountInv' /\ SlotInv'
<1> DEFINE n == loc[c].timestamp
           i == SlotIndex(n)
<1>0. /\ n \in Nat /\ committed < n /\ n < next /\ i \in SlotIndices
      /\ slots[i].timestamp <= committed
      /\ \A d \in Clients \ {c} : pc[d] \in FillLabels => SlotIndex(loc[d].timestamp) # i
      /\ n \notin durable /\ committed \in Nat /\ next \in Nat
      /\ pc[c] = "fill"
  BY SlotOfFilled, SlotTypes DEF FillSlot, FillLabels, SlotInv, FillFacts
<1> HIDE DEF i
<1>1. /\ UNCHANGED <<next, committed, semaphore, durable, ready, fut, loc>>
      /\ copying' = copying \union {n}
      /\ \A d \in Clients : pc'[d] = IF d = c THEN "publish" ELSE pc[d]
      /\ \A j \in SlotIndices : slots'[j].timestamp = slots[j].timestamp
      /\ \A j \in SlotIndices : slots'[j].op = IF j = i THEN n ELSE slots[j].op
  <2>1. pc \in [Clients -> Labels] /\ slots \in SlotArrays
    BY FieldTypes, SlotTypes
  <2>2. slots' = [slots EXCEPT ![i].op = n]
    BY DEF FillSlot, i
  <2>3. \A j \in SlotIndices : slots'[j] = IF j = i THEN [slots[j] EXCEPT !.op = n] ELSE slots[j]
    BY <2>1, <2>2 DEF SlotArrays, SlotIndices
  <2>4. \A j \in SlotIndices : slots[j] \in [timestamp : Nat, op : Nat]
    BY <2>1 DEF SlotArrays, SlotIndices
  <2>5. /\ \A j \in SlotIndices : slots'[j].timestamp = slots[j].timestamp
        /\ \A j \in SlotIndices : slots'[j].op = IF j = i THEN n ELSE slots[j].op
    BY <2>3, <2>4
  <2>6. pc' = [pc EXCEPT ![c] = "publish"]
    BY DEF FillSlot, Goto
  <2>7. \A d \in Clients : pc'[d] = IF d = c THEN "publish" ELSE pc[d]
    BY <2>1, <2>6
  <2> QED BY <2>5, <2>7 DEF FillSlot
<1>2. ASSUME NEW j \in SlotIndices PROVE RingFacts(j)'
  <2>1. RingFacts(j)
    BY DEF SlotInv
  <2>2. CASE j = i
    <3>1. ~(slots[j].timestamp > committed)
      BY <1>0, <2>2, SlotTypes
    <3> QED BY <1>0, <1>1, <2>1, <2>2, <3>1 DEF RingFacts, i
  <2>3. CASE j # i
    BY <1>1, <2>1, <2>3 DEF RingFacts
  <2> QED BY <2>2, <2>3
<1>3. ASSUME NEW d \in Clients PROVE FillFacts(d)'
  <2>1. FillFacts(d) /\ loc[d].timestamp \in Nat /\ loc[d].num \in Nat
    BY SlotTypes DEF SlotInv
  <2>2. pc'[d] \in FillLabels <=> pc[d] \in FillLabels
    BY <1>0, <1>1 DEF FillLabels
  <2>3. pc'[d] \in FillLabels =>
          /\ committed < loc[d].timestamp /\ loc[d].timestamp < next
          /\ loc[d].timestamp \notin durable
          /\ \A j \in SlotIndices : slots'[j].timestamp # loc[d].timestamp
          /\ \A e \in Clients \ {d} : pc'[e] \in FillLabels => loc[e].timestamp # loc[d].timestamp
    <3>1. \A e \in Clients : pc'[e] \in FillLabels <=> pc[e] \in FillLabels
      BY <1>0, <1>1 DEF FillLabels
    <3> QED BY <1>1, <2>1, <3>1 DEF FillFacts
  <2>4. ASSUME pc'[d] = "publish" PROVE slots'[SlotIndex(loc[d].timestamp)].op = loc[d].timestamp
    <3>1. CASE d = c
      BY <1>0, <1>1, <3>1 DEF i
    <3>2. CASE d # c
      <4>1. pc[d] = "publish" /\ SlotIndex(loc[d].timestamp) # i
        BY <1>0, <1>1, <2>4, <3>2 DEF FillLabels
      <4> QED BY <1>1, <2>1, <4>1, SlotIndexType DEF FillFacts
    <3> QED BY <3>1, <3>2
  <2>5. ASSUME DebugBuild, pc'[d] = "add_committed",
               NEW m \in committed + 1 .. committed + loc[d].num
        PROVE  slots'[SlotIndex(m)].timestamp = 0
    <3>1. pc[d] = "add_committed" /\ m \in Nat
      BY <1>0, <1>1, <2>1, <2>5
    <3> QED BY <1>1, <2>1, <2>5, <3>1, SlotIndexType DEF FillFacts
  <2> QED BY <1>1, <2>3, <2>4, <2>5 DEF FillFacts
<1>4. DurableInv'
  <2>1. \A d \in Clients : PoppedAt(pc'[d], loc'[d]) = PoppedAt(pc[d], loc[d])
    BY <1>0, <1>1 DEF PoppedAt, CommittingLabels
  <2> QED BY <1>0, <1>1, <2>1 DEF SlotInv, DurableInv
<1>5. CountInv'
  <2>1. OnlyMoves(c) /\ pc'[c] = "publish"
    BY <1>1 DEF OnlyMoves
  <2> QED BY <1>0, <1>1, <2>1, CountInvQuiet
<1> QED BY <1>2, <1>3, <1>4, <1>5 DEF SlotInv

LEMMA SlotInvPublish ==
  ASSUME TypeInv, BatchInv, CountInv, SlotInv, NEW c \in Clients, PublishTimestamp(c)
  PROVE  CountInv' /\ SlotInv'
<1> DEFINE n == loc[c].timestamp
           i == SlotIndex(n)
<1>0. /\ n \in Nat /\ committed < n /\ n < next /\ i \in SlotIndices
      /\ \A m \in durable : committed < m => SlotIndex(m) # i
      /\ slots[i].op = n /\ committed \in Nat /\ next \in Nat /\ pc[c] = "publish"
  BY SlotOfFilled, SlotTypes DEF PublishTimestamp, FillLabels, SlotInv, FillFacts
<1> HIDE DEF i
<1>1. /\ UNCHANGED <<next, committed, semaphore, durable, copying, ready, fut>>
      /\ \A d \in Clients : pc'[d] = IF d = c THEN "idle" ELSE pc[d]
      /\ \A d \in Clients \ {c} : loc'[d] = loc[d]
      /\ \A j \in SlotIndices : slots'[j].op = slots[j].op
      /\ \A j \in SlotIndices : slots'[j].timestamp = IF j = i THEN n ELSE slots[j].timestamp
  <2>1. pc \in [Clients -> Labels] /\ loc \in [Clients -> Locals] /\ slots \in SlotArrays
    BY FieldTypes, SlotTypes
  <2>2. slots' = [slots EXCEPT ![i].timestamp = n]
    BY DEF PublishTimestamp, i
  <2>3. \A j \in SlotIndices : slots'[j] = IF j = i THEN [slots[j] EXCEPT !.timestamp = n] ELSE slots[j]
    BY <2>1, <2>2 DEF SlotArrays, SlotIndices
  <2>4. \A j \in SlotIndices : slots[j] \in [timestamp : Nat, op : Nat]
    BY <2>1 DEF SlotArrays, SlotIndices
  <2>5. /\ \A j \in SlotIndices : slots'[j].op = slots[j].op
        /\ \A j \in SlotIndices : slots'[j].timestamp = IF j = i THEN n ELSE slots[j].timestamp
    BY <2>3, <2>4
  <2>6. pc' = [pc EXCEPT ![c] = "idle"] /\ loc' = [loc EXCEPT ![c] = NoLocals]
    BY DEF PublishTimestamp, Goto
  <2>7. /\ \A d \in Clients : pc'[d] = IF d = c THEN "idle" ELSE pc[d]
        /\ \A d \in Clients \ {c} : loc'[d] = loc[d]
    BY <2>1, <2>6
  <2> QED BY <2>5, <2>7 DEF PublishTimestamp
<1>2. ASSUME NEW j \in SlotIndices PROVE RingFacts(j)'
  <2>1. RingFacts(j)
    BY DEF SlotInv
  <2>2. CASE j = i
    BY <1>0, <1>1, <2>1, <2>2 DEF RingFacts, i
  <2>3. CASE j # i
    BY <1>1, <2>1, <2>3 DEF RingFacts
  <2> QED BY <2>2, <2>3
<1>3. ASSUME NEW d \in Clients PROVE FillFacts(d)'
  <2>1. CASE d = c
    BY <1>1, <2>1 DEF FillFacts, FillLabels
  <2>2. CASE d # c
    <3>1. /\ FillFacts(d) /\ pc'[d] = pc[d] /\ loc'[d] = loc[d]
          /\ loc[d].timestamp \in Nat /\ loc[d].num \in Nat
      BY <1>1, <2>2, SlotTypes DEF SlotInv
    <3>2. ASSUME pc[d] \in FillLabels
          PROVE  /\ \A j \in SlotIndices : slots'[j].timestamp # loc[d].timestamp
                 /\ \A e \in Clients \ {d} : pc'[e] \in FillLabels => loc'[e].timestamp # loc[d].timestamp
      <4>1. loc[d].timestamp # n
        BY <1>0, <2>2, <3>1, <3>2 DEF FillFacts, FillLabels
      <4> QED BY <1>1, <3>1, <3>2, <4>1 DEF FillFacts, FillLabels
    <3>3. pc[d] = "publish" => slots'[SlotIndex(loc[d].timestamp)].op = loc[d].timestamp
      BY <1>1, <3>1, SlotIndexType DEF FillFacts
    <3>4. ASSUME DebugBuild, pc[d] = "add_committed",
                 NEW m \in committed + 1 .. committed + loc[d].num
          PROVE  slots'[SlotIndex(m)].timestamp = 0
      <4>1. m \in Nat /\ committed < m /\ slots[SlotIndex(m)].timestamp = 0
        BY <1>0, <3>1, <3>4 DEF FillFacts
      <4>2. m \in durable
        BY <3>4, CommittingIsDurable DEF CommittingLabels, SlotInv
      <4> QED BY <1>0, <1>1, <4>1, <4>2, SlotIndexType
    <3> QED BY <1>1, <3>1, <3>2, <3>3, <3>4 DEF FillFacts
  <2> QED BY <2>1, <2>2
<1>4. DurableInv'
  <2>1. \A d \in Clients : PoppedAt(pc'[d], loc'[d]) \subseteq durable
    <3>1. PoppedAt(pc'[c], loc'[c]) = {}
      BY <1>1 DEF PoppedAt, CommittingLabels
    <3> QED BY <1>1, <3>1 DEF SlotInv, DurableInv
  <2> QED BY <1>1, <2>1 DEF SlotInv, DurableInv
<1>5. CountInv'
  <2>1. OnlyMoves(c) /\ pc'[c] = "idle"
    BY <1>1 DEF OnlyMoves
  <2> QED BY <1>0, <1>1, <2>1, CountInvQuiet
<1> QED BY <1>2, <1>3, <1>4, <1>5 DEF SlotInv

-----------------------------------------------------------------------------
(* pmemstream_increase_committed_timestamp                                   *)

LEMMA SlotInvClear ==
  ASSUME TypeInv, CountInv, SlotInv, NEW c \in Clients, ClearSlots(c)
  PROVE  CountInv' /\ SlotInv'
<1> DEFINE cleared == {SlotIndex(committed + i) : i \in 1 .. loc[c].num}
<1>0. /\ committed \in Nat /\ next \in Nat /\ committed < next /\ pc[c] = "clear_slots"
      /\ \A j \in SlotIndices : slots[j].timestamp \in Nat /\ slots[j].op \in Nat
      /\ \A d \in Clients : loc[d].timestamp \in Nat /\ loc[d].num \in Nat
  BY SlotTypes DEF ClearSlots, CountInv
<1>1. /\ UNCHANGED <<next, committed, semaphore, durable, copying, ready, fut, loc>>
      /\ \A d \in Clients : pc'[d] = IF d = c THEN "add_committed" ELSE pc[d]
      /\ \A j \in SlotIndices : slots'[j].op = slots[j].op
      /\ \A j \in SlotIndices : slots'[j].timestamp = IF j \in cleared THEN 0 ELSE slots[j].timestamp
  <2>1. pc \in [Clients -> Labels] /\ DOMAIN slots = SlotIndices /\ slots \in SlotArrays
    BY FieldTypes, SlotTypes
  <2>2. \A j \in SlotIndices : slots'[j] =
          IF j \in cleared THEN [slots[j] EXCEPT !.timestamp = 0] ELSE slots[j]
    BY <2>1 DEF ClearSlots, InvalidTimestamp
  <2>3. \A j \in SlotIndices : slots[j] \in [timestamp : Nat, op : Nat]
    BY <2>1 DEF SlotArrays, SlotIndices
  <2> HIDE DEF cleared
  <2>4. /\ \A j \in SlotIndices : slots'[j].op = slots[j].op
        /\ \A j \in SlotIndices : slots'[j].timestamp = IF j \in cleared THEN 0 ELSE slots[j].timestamp
    BY <2>2, <2>3
  <2>5. pc' = [pc EXCEPT ![c] = "add_committed"]
    BY DEF ClearSlots, Goto
  <2>6. \A d \in Clients : pc'[d] = IF d = c THEN "add_committed" ELSE pc[d]
    BY <2>1, <2>5
  <2> QED BY <2>4, <2>6 DEF ClearSlots
<1>2. \A n \in committed + 1 .. committed + loc[c].num : SlotIndex(n) \in cleared
  <2>1. ASSUME NEW n \in committed + 1 .. committed + loc[c].num
        PROVE  n = committed + (n - committed) /\ n - committed \in 1 .. loc[c].num
    BY <1>0
  <2> QED BY <2>1
<1> HIDE DEF cleared
<1>3. ASSUME NEW j \in SlotIndices PROVE RingFacts(j)'
  BY <1>0, <1>1 DEF SlotInv, RingFacts
<1>4. ASSUME NEW d \in Clients PROVE FillFacts(d)'
  <2>1. FillFacts(d)
    BY DEF SlotInv
  <2>2. CASE d = c
    <3>1. pc'[d] = "add_committed" /\ pc'[d] \notin FillLabels /\ pc'[d] # "publish"
      BY <1>1, <2>2 DEF FillLabels
    <3>2. \A n \in committed + 1 .. committed + loc[c].num : n \in Nat
      BY <1>0
    <3>3. \A n \in committed + 1 .. committed + loc[c].num : slots'[SlotIndex(n)].timestamp = 0
      BY <1>1, <1>2, <3>2, SlotIndexType
    <3> QED BY <1>1, <2>2, <3>1, <3>3 DEF FillFacts
  <2>3. CASE d # c
    <3>1. pc'[d] = pc[d] /\ loc'[d] = loc[d] /\ loc[d].timestamp \in Nat /\ loc[d].num \in Nat
      BY <1>0, <1>1, <2>3
    <3>2. ASSUME pc[d] \in FillLabels
          PROVE  /\ \A j \in SlotIndices : slots'[j].timestamp # loc[d].timestamp
                 /\ \A e \in Clients \ {d} : pc'[e] \in FillLabels => loc'[e].timestamp # loc[d].timestamp
      BY <1>0, <1>1, <2>1, <3>2 DEF FillFacts, FillLabels
    <3>3. pc[d] = "publish" => slots'[SlotIndex(loc[d].timestamp)].op = loc[d].timestamp
      BY <1>1, <2>1, <3>1, SlotIndexType DEF FillFacts
    <3>4. ASSUME DebugBuild, pc[d] = "add_committed",
                 NEW n \in committed + 1 .. committed + loc[d].num
          PROVE  slots'[SlotIndex(n)].timestamp = 0
      <4>1. n \in Nat /\ slots[SlotIndex(n)].timestamp = 0
        BY <1>0, <2>1, <3>4 DEF FillFacts
      <4> QED BY <1>1, <4>1, SlotIndexType
    <3> QED BY <1>1, <2>1, <3>1, <3>2, <3>3, <3>4 DEF FillFacts
  <2> QED BY <2>2, <2>3
<1>5. DurableInv'
  <2>1. \A d \in Clients : PoppedAt(pc'[d], loc'[d]) = PoppedAt(pc[d], loc[d])
    BY <1>0, <1>1 DEF PoppedAt, CommittingLabels
  <2> QED BY <1>1, <2>1 DEF SlotInv, DurableInv
<1>6. CountInv'
  <2>1. OnlyMoves(c) /\ pc'[c] = "add_committed"
    BY <1>1 DEF OnlyMoves
  <2> QED BY <1>0, <1>1, <2>1, CountInvQuiet
<1> QED BY <1>3, <1>4, <1>5, <1>6 DEF SlotInv

\* What becomes committed was durable, so it is not being filled by anyone.
LEMMA SlotInvAdd ==
  ASSUME TypeInv, BatchInv, CountInv, SlotInv, NEW c \in Clients, AddCommitted(c)
  PROVE  CountInv' /\ SlotInv'
<1> DEFINE n == committed + loc[c].num
<1>0. /\ committed \in Nat /\ next \in Nat /\ pc[c] = "add_committed" /\ n \in Nat
      /\ committed <= n /\ loc[c].num \in Nat
      /\ committed + 1 .. n \subseteq durable
      /\ \A j \in SlotIndices : slots[j].timestamp \in Nat /\ slots[j].op \in Nat
      /\ \A d \in Clients : loc[d].timestamp \in Nat /\ loc[d].num \in Nat
  BY SlotTypes, CommittingIsDurable DEF AddCommitted, CommittingLabels, SlotInv
<1>1. /\ UNCHANGED <<next, slots, durable, copying, ready, loc>> /\ committed' = n
      /\ \A d \in Clients : pc'[d] = IF d = c THEN "post_slots" ELSE pc[d]
      /\ \A d \in Clients \ {c} : fut'[d] = fut[d]
      /\ fut'[c].first >= fut[c].first /\ fut'[c].processing = fut[c].processing
      /\ fut'[c].first \in Nat
  <2>1. pc \in [Clients -> Labels] /\ fut \in [Clients -> Futures] /\ fut[c].first \in Nat
        /\ fut[c] \in Futures
    BY FieldTypes, RangeTypes
  <2>2. pc' = [pc EXCEPT ![c] = "post_slots"]
        /\ fut' = [fut EXCEPT ![c].first = IF loc[c].own THEN @ + loc[c].num ELSE @]
    BY DEF AddCommitted, Goto
  <2>3. \A d \in Clients : pc'[d] = IF d = c THEN "post_slots" ELSE pc[d]
    BY <2>1, <2>2
  <2>4. \A d \in Clients \ {c} : fut'[d] = fut[d]
    BY <2>1, <2>2
  <2>5. /\ fut'[c].first = IF loc[c].own THEN fut[c].first + loc[c].num ELSE fut[c].first
        /\ fut'[c].processing = fut[c].processing
    BY <2>1, <2>2 DEF Futures
  <2>6. fut'[c].first >= fut[c].first /\ fut'[c].first \in Nat
    BY <1>0, <2>1, <2>5
  <2> QED BY <2>3, <2>4, <2>5, <2>6 DEF AddCommitted
<1> HIDE DEF n
<1>2. ASSUME NEW j \in SlotIndices PROVE RingFacts(j)'
  <2>1. RingFacts(j)
    BY DEF SlotInv
  <2>2. ASSUME DebugBuild, slots[j].timestamp # 0 PROVE slots[j].timestamp > n
    <3>1. slots[j].timestamp > committed /\ SlotIndex(slots[j].timestamp) = j
      BY <2>1, <2>2 DEF RingFacts
    <3>2. \A m \in committed + 1 .. n : slots[SlotIndex(m)].timestamp = 0
      BY <1>0, <2>2 DEF SlotInv, FillFacts, n
    <3>3. ASSUME slots[j].timestamp <= n PROVE FALSE
      <4>1. slots[j].timestamp \in committed + 1 .. n
        BY <1>0, <3>1, <3>3
      <4> QED BY <2>2, <3>1, <3>2, <4>1
    <3> QED BY <1>0, <3>3
  <2>3. \A m \in Nat : m > n => m > committed
    BY <1>0
  <2> QED BY <1>0, <1>1, <2>1, <2>2, <2>3 DEF RingFacts
<1>3. ASSUME NEW d \in Clients PROVE FillFacts(d)'
  <2>1. CASE d = c
    BY <1>1, <2>1 DEF FillFacts, FillLabels
  <2>2. CASE d # c
    <3>1. pc'[d] = pc[d] /\ loc'[d] = loc[d] /\ FillFacts(d)
      BY <1>1, <2>2 DEF SlotInv
    <3>2. pc[d] # "add_committed"
      BY <1>0, <2>2, OneCommitter DEF CommittingLabels
    <3>3. pc[d] \in FillLabels => n < loc[d].timestamp
      BY <1>0, <3>1 DEF FillFacts
    <3>4. \A e \in Clients : pc'[e] \in FillLabels => pc[e] \in FillLabels
      BY <1>1 DEF FillLabels
    <3> QED BY <1>1, <3>1, <3>2, <3>3, <3>4 DEF FillFacts
  <2> QED BY <2>1, <2>2
<1>4. DurableInv'
  <2>1. \A d \in Clients : PoppedAt(pc'[d], loc'[d]) \subseteq durable
    <3>1. PoppedAt(pc'[c], loc'[c]) = {}
      BY <1>1 DEF PoppedAt, CommittingLabels
    <3> QED BY <1>1, <3>1 DEF SlotInv, DurableInv
  <2>2. \A d \in Clients : Processed(fut'[d]) \subseteq durable
    <3>1. Processed(fut'[c]) \subseteq Processed(fut[c])
      BY <1>1, RangeTypes DEF Processed
    <3> QED BY <1>1, <3>1 DEF SlotInv, DurableInv
  <2>3. InitialTimestamp <= n /\ InitialTimestamp + 1 .. n \subseteq durable
    <3>1. InitialTimestamp <= committed /\ InitialTimestamp + 1 .. committed \subseteq durable
      BY DEF SlotInv, DurableInv
    <3>2. InitialTimestamp \in Nat
      OBVIOUS
    <3>3. \A m \in InitialTimestamp + 1 .. n :
            m \in InitialTimestamp + 1 .. committed \/ m \in committed + 1 .. n
      BY <1>0, <3>1, <3>2
    <3> QED BY <1>0, <3>1, <3>2, <3>3
  <2> QED BY <1>1, <2>1, <2>2, <2>3 DEF SlotInv, DurableInv
<1>5. CountInv'
  BY TokensCommitted DEF SlotInv
<1> QED BY <1>2, <1>3, <1>4, <1>5 DEF SlotInv

\* sem_post for each committed timestamp, and the return.
LEMMA SlotInvPost ==
  ASSUME TypeInv, BatchInv, CountInv, SlotInv, NEW c \in Clients, PostSlot(c) \/ IncreaseReturns(c)
  PROVE  CountInv' /\ SlotInv'
<1> USE DEF FillLabels, CommittingLabels
<1>0. /\ pc \in [Clients -> Labels] /\ fut \in [Clients -> Futures] /\ loc \in [Clients -> Locals]
      /\ UNCHANGED <<next, committed, slots, durable, copying, ready>> /\ pc[c] = "post_slots"
  BY FieldTypes DEF PostSlot, IncreaseReturns, shared
<1>1. CalmSlots /\ Processed(fut[c]) \subseteq durable'
  BY <1>0, ProcessedIsDurable DEF CalmSlots, SlotInv, DurableInv
<1>2. CASE PostSlot(c)
  <2> DEFINE l == [loc[c] EXCEPT !.num = @ - 1]
  <2>1. Moves(c, "post_slots", fut[c], l)
    BY <1>0, <1>2 DEF PostSlot, Moves
  <2>2. PoppedAt("post_slots", l) = {}
    BY DEF PoppedAt
  <2> HIDE DEF l
  <2>3. SlotInv'
    BY <1>0, <1>1, <2>1, <2>2, SlotInvCalm
  <2> QED BY <1>2, <2>3, TokenPosted
<1>3. CASE IncreaseReturns(c) /\ loc[c].own
  <2>1. Moves(c, PollStart(fut[c]), fut[c], NoLocals) /\ loc[c].num = 0 /\ semaphore' = semaphore
    BY <1>3, RangeTypes, ReturnMoves DEF IncreaseReturns, shared
  <2> QED BY <1>0, <1>1, <2>1, CalmReturn, CalmStep
<1>4. CASE IncreaseReturns(c) /\ ~loc[c].own
  <2>1. Moves(c, "pop", fut[c], loc[c]) /\ loc[c].num = 0 /\ semaphore' = semaphore
    BY <1>4, StayMoves DEF IncreaseReturns, shared
  <2>2. CalmMove("pop", fut[c], loc[c])
    BY <1>1 DEF CalmMove, PoppedAt
  <2> QED BY <1>0, <1>1, <2>1, <2>2, CalmStep
<1> QED BY <1>2, <1>3, <1>4

-----------------------------------------------------------------------------
(* The polls.  They leave the slots alone.                                   *)

LEMMA SlotInvWait ==
  ASSUME TypeInv, BatchInv, CountInv, SlotInv, NEW c \in Clients,
         \/ \E kind \in WaitKinds, n \in InitialTimestamp + 1 .. next - 1 : WaitBegin(c, kind, n)
         \/ LoadPersisted(c) \/ CasHeader(c) \/ PersistHeader(c) \/ CasPersisted(c)
         \/ WaitReturns(c)
  PROVE  CountInv' /\ SlotInv'
<1> USE DEF FillLabels, CommittingLabels
<1>0. /\ pc \in [Clients -> Labels] /\ fut \in [Clients -> Futures] /\ loc \in [Clients -> Locals]
      /\ next \in Nat /\ UNCHANGED <<next, committed, semaphore, slots, durable, copying, ready>>
  BY FieldTypes, SlotTypes
     DEF WaitBegin, LoadPersisted, CasHeader, PersistHeader, CasPersisted, WaitReturns, shared
<1>1. CalmSlots /\ Processed(fut[c]) \subseteq durable'
  BY <1>0, ProcessedIsDurable DEF CalmSlots, SlotInv, DurableInv
<1>2. ASSUME NEW kind \in WaitKinds, NEW n \in InitialTimestamp + 1 .. next - 1,
             WaitBegin(c, kind, n)
      PROVE  CountInv' /\ SlotInv'
  <2> DEFINE f == NewFuture(kind, n)
  <2>1. Moves(c, PollStart(f), f, loc[c]) /\ pc[c] = "idle"
    BY <1>0, <1>2 DEF WaitBegin, Goto, Moves
  <2>2. Processed(f) = {}
    BY <1>0, NewFutureType DEF Processed
  <2> HIDE DEF f
  <2>3. PollStart(f) \in {"load_persisted", "load_committed"}
    BY PollStartType
  <2>4. CalmMove(PollStart(f), f, loc[c])
    BY <2>2, <2>3 DEF CalmMove, PoppedAt
  <2> QED BY <1>0, <1>1, <2>1, <2>4, CalmStep
<1>3. CASE LoadPersisted(c) \/ PersistHeader(c) \/ CasPersisted(c)
           \/ (CasHeader(c) /\ CasSucceeds(header, loc[c].persisted))
  <2> DEFINE quiet == {"load_persisted", "load_committed", "cas_header", "persist_header",
                       "cas_persisted", "done"}
  <2>1. PICK label \in quiet, l \in {loc[c], [loc[c] EXCEPT !.persisted = persisted]} :
          Moves(c, label, fut[c], l)
    BY <1>0, <1>3 DEF LoadPersisted, CasHeader, PersistHeader, CasPersisted, Goto, Moves
  <2>2. pc[c] \in quiet
    BY <1>3 DEF LoadPersisted, CasHeader, PersistHeader, CasPersisted
  <2>3. CalmMove(label, fut[c], l)
    BY <1>1, <2>1 DEF CalmMove, PoppedAt
  <2> QED BY <1>0, <1>1, <2>1, <2>2, <2>3, CalmStep
<1>4. CASE CasHeader(c) /\ ~CasSucceeds(header, loc[c].persisted)
  <2>1. Moves(c, PollStart(fut[c]), fut[c], NoLocals) /\ pc[c] = "cas_header"
    BY <1>4, RangeTypes, ReturnMoves DEF CasHeader
  <2> QED BY <1>0, <1>1, <2>1, CalmReturn, CalmStep
<1>5. CASE WaitReturns(c)
  <2>1. Moves(c, "idle", NoFuture, NoLocals) /\ pc[c] = "done"
    BY <1>5 DEF WaitReturns, Goto, Moves
  <2>2. CalmMove("idle", NoFuture, NoLocals)
    BY DEF CalmMove, PoppedAt, Processed, NoFuture
  <2> QED BY <1>0, <1>1, <2>1, <2>2, CalmStep
<1> QED BY <1>2, <1>3, <1>4, <1>5

\* The end of a poll, with a future whose processed part is durable.
LEMMA SlotInvAfterProcess ==
  ASSUME TypeInv, CountInv, SlotInv, NEW c \in Clients, pc[c] \in {"load_committed", "process"},
         NEW f \in Futures, NEW l \in Locals, AfterProcess(c, f, l),
         f.first <= f.processing, f.processing <= f.last,
         Processed(f) \subseteq durable', CalmSlots, semaphore' = semaphore
  PROVE  CountInv' /\ SlotInv'
<1>1. CASE Moves(c, IncreaseLabel, f, OwnLocals(f, l))
  BY <1>1, CalmCommitOwn, CalmStep DEF FillLabels
<1>2. CASE Moves(c, "pop", f, l)
  <2>1. CalmMove("pop", f, l)
    BY DEF CalmMove, PoppedAt, FillLabels, CommittingLabels
  <2> QED BY <1>2, <2>1, CalmStep DEF FillLabels
<1> QED BY <1>1, <1>2, AfterProcessMoves

LEMMA SlotInvLoad ==
  ASSUME TypeInv, BatchInv, CountInv, SlotInv, NEW c \in Clients,
         LoadCommitted(c) \/ LoadProcessing(c)
  PROVE  CountInv' /\ SlotInv'
<1> USE DEF FillLabels, CommittingLabels
<1>0. /\ pc \in [Clients -> Labels] /\ fut \in [Clients -> Futures] /\ loc \in [Clients -> Locals]
      /\ loc[c] \in Locals /\ committed \in Nat
      /\ UNCHANGED <<next, committed, semaphore, slots, durable, copying, ready>>
  BY FieldTypes, SlotTypes DEF LoadCommitted, LoadProcessing, shared
<1>1. CalmSlots /\ Processed(fut[c]) \subseteq durable'
  BY <1>0, ProcessedIsDurable DEF CalmSlots, SlotInv, DurableInv
<1>2. ASSUME LoadCommitted(c) PROVE CountInv' /\ SlotInv'
  <2> DEFINE f == fut[c]
             l == [loc[c] EXCEPT !.committed = committed]
             l0 == [l EXCEPT !.committed = 0]
  <2>0. l \in Locals /\ pc[c] = "load_committed"
    BY <1>0, <1>2 DEF Locals, LoadCommitted
  <2>1. CASE Completed(c, l0)
    <3>1. PICK label \in {"cas_header", "done", "trywait"}, g \in {f, NoFuture} :
            Moves(c, label, g, l0)
      BY <1>0, <2>1 DEF Completed, Goto, Moves
    <3>2. Processed(g) \subseteq durable'
      BY <1>1, <3>1 DEF Processed, NoFuture
    <3>3. CalmMove(label, g, l0)
      BY <3>1, <3>2 DEF CalmMove, PoppedAt
    <3> QED BY <1>0, <1>1, <2>0, <3>1, <3>3, CalmStep
  <2>2. CASE AfterProcess(c, f, l)
    BY <1>0, <1>1, <2>0, <2>2, RangeTypes, SlotInvAfterProcess
  <2>3. ASSUME NEW label \in {"load_processing", "process"}, Moves(c, label, f, l)
        PROVE  CountInv' /\ SlotInv'
    <3>1. CalmMove(label, f, l)
      BY <1>1 DEF CalmMove, PoppedAt
    <3> QED BY <1>0, <1>1, <2>0, <2>3, <3>1, CalmStep
  <2>4. \/ Completed(c, l0) \/ AfterProcess(c, f, l)
        \/ \E label \in {"load_processing", "process"} : Moves(c, label, f, l)
    BY <1>0, <1>2 DEF LoadCommitted, Goto, Moves
  <2> QED BY <2>1, <2>2, <2>3, <2>4
<1>3. ASSUME LoadProcessing(c) PROVE CountInv' /\ SlotInv'
  <2>0. pc[c] = "load_processing"
    BY <1>3 DEF LoadProcessing
  <2>1. CASE OwnedByOther(fut[c])
    <3>1. Moves(c, PollStart(fut[c]), fut[c], NoLocals)
      BY <1>3, <2>1, RangeTypes, ReturnMoves DEF LoadProcessing
    <3> QED BY <1>0, <1>1, <2>0, <3>1, CalmReturn, CalmStep
  <2>2. CASE ~OwnedByOther(fut[c])
    <3> DEFINE l == [loc[c] EXCEPT !.processing = processing]
    <3>1. Moves(c, "cas_processing", fut[c], l)
      BY <1>0, <1>3, <2>2 DEF LoadProcessing, Goto, Moves
    <3>2. CalmMove("cas_processing", fut[c], l)
      BY <1>1 DEF CalmMove, PoppedAt
    <3> QED BY <1>0, <1>1, <2>0, <3>1, <3>2, CalmStep
  <2> QED BY <2>1, <2>2
<1> QED BY <1>2, <1>3

LEMMA SlotInvAcquire ==
  ASSUME TypeInv, CountInv, SlotInv, NEW c \in Clients, CasProcessing(c)
  PROVE  CountInv' /\ SlotInv'
<1> USE DEF FillLabels, CommittingLabels
<1> DEFINE current == loc[c].processing
           last == LastOfBatch(fut[c].timestamp, current)
           f == [fut[c] EXCEPT !.first = current, !.processing = current, !.last = last]
           l == [loc[c] EXCEPT !.processing = 0]
<1>0. /\ UNCHANGED <<next, committed, semaphore, slots, durable, copying, ready>>
      /\ pc[c] = "cas_processing" /\ fut[c] \in Futures /\ current \in Nat
  BY RangeTypes DEF CasProcessing, Locals
<1>1. CalmSlots /\ Processed(fut[c]) \subseteq durable'
  BY <1>0, ProcessedIsDurable DEF CalmSlots, SlotInv, DurableInv
<1>2. CASE CasSucceeds(processing, current)
  <2>1. Moves(c, "process", f, l)
    BY <1>2 DEF CasProcessing, Goto, Moves
  <2>2. f.first = current /\ f.processing = current
    BY <1>0 DEF Futures
  <2> HIDE DEF f, l
  <2>3. Processed(f) = {}
    BY <1>0, <2>2 DEF Processed
  <2>4. CalmMove("process", f, l)
    BY <2>3 DEF CalmMove, PoppedAt
  <2> QED BY <1>0, <1>1, <2>1, <2>4, CalmStep
<1>3. CASE ~CasSucceeds(processing, current)
  <2>1. Moves(c, PollStart(fut[c]), fut[c], NoLocals)
    BY <1>3, RangeTypes, ReturnMoves DEF CasProcessing
  <2> QED BY <1>0, <1>1, <2>1, CalmReturn, CalmStep
<1> QED BY <1>2, <1>3

\* pmemstream_process_async_ops: the slot of the next timestamp of the batch
\* holds the operation of that timestamp, and that operation becomes durable.
LEMMA ProcessedSlot ==
  ASSUME TypeInv, BatchInv, CountInv, SlotInv, NEW c \in Clients, pc[c] = "process",
         OpIsComplete(slots[SlotIndex(fut[c].processing + 1)], fut[c].processing + 1)
  PROVE  LET n == fut[c].processing + 1
             i == SlotIndex(n)
         IN  /\ n \in Nat /\ i \in SlotIndices /\ committed < n /\ n < next
             /\ slots[i].timestamp = n /\ slots[i].op = n /\ n \notin copying
<1> DEFINE n == fut[c].processing + 1
           i == SlotIndex(n)
<1>1. /\ n \in Nat /\ i \in SlotIndices /\ committed \in Nat
      /\ slots[i].timestamp = n /\ slots[i].op \notin copying
      /\ fut[c].first + 1 <= n /\ n <= fut[c].last
      /\ fut[c].first \in Nat /\ fut[c].last \in Nat
  <2>1. fut[c].processing < fut[c].last
    BY RangeTypes DEF WellFormed
  <2> QED BY <2>1, RangeTypes, SlotIndexType, SlotTypes DEF OpIsComplete
<1>2. n \in OwnAt(pc[c], fut[c])
  <2>1. ~ShouldAcquire(fut[c])
    BY RangeTypes DEF ShouldAcquire, WellFormed
  <2> QED BY <1>1, <2>1 DEF OwnAt
<1>3. committed < n
  BY <1>2, OwnAboveCommitted
<1>4. RingFacts(i)
  BY <1>1 DEF SlotInv
<1> HIDE DEF i
<1>5. slots[i].op = n /\ n < next
  BY <1>1, <1>3, <1>4 DEF RingFacts
<1> QED BY <1>1, <1>3, <1>5 DEF i

LEMMA SlotInvProcess ==
  ASSUME TypeInv, BatchInv, CountInv, SlotInv, NEW c \in Clients, Process(c)
  PROVE  CountInv' /\ SlotInv'
<1> DEFINE n == fut[c].processing + 1
           i == SlotIndex(n)
           f == [fut[c] EXCEPT !.processing = @ + 1]
<1>0. /\ UNCHANGED <<next, committed, semaphore, slots, copying, ready>> /\ pc[c] = "process"
      /\ fut[c] \in Futures /\ fut[c].processing < fut[c].last
  BY RangeTypes DEF Process, WellFormed
<1>1. CASE OpIsComplete(slots[i], n)
  <2>1. /\ n \in Nat /\ i \in SlotIndices /\ slots[i].timestamp = n /\ slots[i].op = n
        /\ n \notin copying
    BY <1>0, <1>1, ProcessedSlot
  <2>2. durable' = durable \union {n} /\ AfterProcess(c, f, loc[c])
    BY <1>1, <2>1 DEF Process
  <2>3. CalmSlots
    BY <1>0, <2>1, <2>2 DEF CalmSlots, SlotInv, DurableInv
  <2>4. /\ f \in Futures /\ f.first = fut[c].first /\ f.last = fut[c].last /\ f.processing = n
    BY <1>0 DEF Futures
  <2> HIDE DEF f
  <2>5. f.first <= f.processing /\ f.processing <= f.last
    BY <1>0, <2>4, RangeTypes
  <2>6. Processed(f) \subseteq durable'
    <3>1. \A m \in Processed(f) : m \in Processed(fut[c]) \/ m = n
      BY <2>4, RangeTypes DEF Processed
    <3> QED BY <2>2, <3>1, ProcessedIsDurable
  <2> QED BY <1>0, <2>2, <2>3, <2>4, <2>5, <2>6, RangeTypes, SlotInvAfterProcess
<1>2. CASE ~OpIsComplete(slots[i], n)
  <2>1. Moves(c, PollStart(fut[c]), fut[c], NoLocals) /\ durable' = durable
    BY <1>2, RangeTypes, ReturnMoves DEF Process
  <2>2. CalmSlots /\ Processed(fut[c]) \subseteq durable'
    BY <1>0, <2>1, ProcessedIsDurable DEF CalmSlots, SlotInv, DurableInv
  <2> QED BY <1>0, <2>1, <2>2, CalmReturn, CalmStep DEF FillLabels
<1> QED BY <1>1, <1>2

\* The popped batch was durable when it was inserted.
LEMMA SlotInvPop ==
  ASSUME TypeInv, BatchInv, CountInv, SlotInv, NEW c \in Clients, PopReady(c)
  PROVE  CountInv' /\ SlotInv'
<1> USE DEF FillLabels, CommittingLabels
<1> DEFINE found == {b \in ready : b[1] = loc[c].committed}
<1>0. /\ UNCHANGED <<next, committed, semaphore, slots, durable, copying>> /\ pc[c] = "pop"
      /\ ready' = ready \ found /\ loc[c] \in Locals
  BY RangeTypes DEF PopReady
<1>1. CalmSlots /\ Processed(fut[c]) \subseteq durable'
  BY <1>0, ProcessedIsDurable DEF CalmSlots, SlotInv, DurableInv
<1>2. ASSUME NEW b \in found,
             CallIncrease(c, fut[c], [loc[c] EXCEPT !.committed = @ + b[2],
                                                   !.num = b[2], !.own = FALSE])
      PROVE  CountInv' /\ SlotInv'
  <2> DEFINE l == PoppedLocals(loc[c], b[2])
  <2>1. Moves(c, IncreaseLabel, fut[c], l)
    BY <1>2 DEF PoppedLocals, CallIncrease, Goto, Moves, IncreaseLabel
  <2>2. /\ b[1] = loc[c].committed /\ b \in ready /\ b[1] \in Nat /\ b[2] \in Nat
        /\ loc[c].committed \in Nat
    BY RangeTypes, BatchTypes
  <2>3. l.committed = loc[c].committed + b[2] /\ l.num = b[2]
    BY <1>0 DEF PoppedLocals, Locals
  <2> HIDE DEF l
  <2>4. PoppedAt(IncreaseLabel, l) \subseteq durable'
    <3>1. l.committed - l.num = b[1] /\ l.committed = b[1] + b[2]
      <4> DEFINE k == b[2]
      <4>1. k \in Nat /\ b[1] \in Nat /\ l.committed = b[1] + k /\ l.num = k
        BY <2>2, <2>3
      <4> HIDE DEF k
      <4>2. l.committed - l.num = b[1]
        BY <4>1
      <4> QED BY <4>1, <4>2 DEF k
    <3>2. PoppedAt(IncreaseLabel, l) \subseteq ReadyBatch(b)
      BY <3>1 DEF PoppedAt, ReadyBatch
    <3> QED BY <1>0, <2>2, <3>2 DEF SlotInv, DurableInv
  <2>5. CalmMove(IncreaseLabel, fut[c], l)
    BY <1>1, <2>4 DEF CalmMove, IncreaseLabel
  <2> QED BY <1>0, <1>1, <2>1, <2>5, CalmStep
<1>3. CASE FinishPoll(c, fut[c], loc[c])
  <2>1. CASE Moves(c, IncreaseLabel, fut[c], OwnLocals(fut[c], loc[c]))
    BY <1>0, <1>1, <2>1, CalmCommitOwn, CalmStep
  <2>2. CASE Moves(c, "insert", fut[c], loc[c])
    <3>1. CalmMove("insert", fut[c], loc[c])
      BY <1>1 DEF CalmMove, PoppedAt
    <3> QED BY <1>0, <1>1, <2>2, <3>1, CalmStep
  <2>3. CASE Moves(c, PollStart(fut[c]), fut[c], NoLocals)
    BY <1>0, <1>1, <2>3, CalmReturn, CalmStep
  <2> QED BY <1>3, <2>1, <2>2, <2>3, FinishPollMoves
<1> QED BY <1>2, <1>3 DEF PopReady

LEMMA SlotInvMark ==
  ASSUME TypeInv, BatchInv, CountInv, SlotInv, NEW c \in Clients,
         InsertReady(c) \/ InsertFails(c) \/ AwaitCommitted(c)
  PROVE  CountInv' /\ SlotInv'
<1> USE DEF FillLabels, CommittingLabels
<1>0. /\ UNCHANGED <<next, committed, semaphore, slots, durable, copying>>
      /\ pc[c] \in {"insert", "await_committed"} /\ loc[c] \in Locals
      /\ Processed(fut[c]) \subseteq durable /\ Processed(fut[c]) \subseteq durable'
  BY RangeTypes, ProcessedIsDurable DEF InsertReady, InsertFails, AwaitCommitted, shared
<1>1. CASE InsertReady(c)
  <2> DEFINE b == <<fut[c].first, BatchSize(fut[c])>>
  <2>1. Moves(c, PollStart(fut[c]), fut[c], NoLocals) /\ ready' = ready \union {b}
    BY <1>1, RangeTypes, ReturnMoves DEF InsertReady
  <2>2. b[1] = fut[c].first /\ b[1] + b[2] = fut[c].processing
    BY RangeTypes DEF BatchSize
  <2> HIDE DEF b
  <2>3. ReadyBatch(b) \subseteq durable
    BY <1>0, <2>2 DEF ReadyBatch, Processed
  <2>4. CalmSlots
    BY <1>0, <2>1, <2>3 DEF CalmSlots, SlotInv, DurableInv
  <2> QED BY <1>0, <2>1, <2>4, CalmReturn, CalmStep
<1>2. CASE InsertFails(c) \/ AwaitCommitted(c)
  <2>1. CalmSlots
    BY <1>0, <1>2 DEF InsertFails, AwaitCommitted, shared, CalmSlots, SlotInv, DurableInv
  <2>2. CASE InsertFails(c)
    <3>1. Moves(c, "await_committed", fut[c], loc[c])
      BY <2>2, StayMoves DEF InsertFails
    <3>2. CalmMove("await_committed", fut[c], loc[c])
      BY <1>0 DEF CalmMove, PoppedAt
    <3> QED BY <1>0, <2>1, <3>1, <3>2, CalmStep
  <2>3. CASE AwaitCommitted(c)
    <3>1. Moves(c, IncreaseLabel, fut[c], OwnLocals(fut[c], loc[c]))
      BY <2>3, RangeTypes, CommitOwnMoves DEF AwaitCommitted
    <3> QED BY <1>0, <2>1, <3>1, CalmCommitOwn, CalmStep
  <2> QED BY <1>2, <2>2, <2>3
<1> QED BY <1>1, <1>2

-----------------------------------------------------------------------------
(* Every step.                                                              *)

\* The data mover only takes operations out of the set being copied.
LEMMA SlotInvCopied ==
  ASSUME CountInv, SlotInv, NEW n \in copying, CopyDone(n)
  PROVE  CountInv' /\ SlotInv'
<1>1. /\ UNCHANGED <<next, committed, semaphore, slots, durable, ready, pc, fut, loc>>
      /\ copying' \subseteq copying
  BY DEF CopyDone
<1>2. CountInv'
  <2>1. Fetching' = Fetching /\ Posting' = Posting
    BY <1>1 DEF Fetching, Posting
  <2> QED BY <1>1, <2>1 DEF CountInv
<1>3. \A i \in SlotIndices : RingFacts(i)'
  BY <1>1 DEF SlotInv, RingFacts
<1>4. \A c \in Clients : FillFacts(c)'
  BY <1>1 DEF SlotInv, FillFacts
<1>5. DurableInv'
  BY <1>1 DEF SlotInv, DurableInv
<1> QED BY <1>2, <1>3, <1>4, <1>5 DEF SlotInv

LEMMA SlotInvNext ==
  TypeInv /\ BatchInv /\ CountInv /\ SlotInv /\ [Next]_vars => CountInv' /\ SlotInv'
<1> SUFFICES ASSUME TypeInv, BatchInv, CountInv, SlotInv, [Next]_vars PROVE CountInv' /\ SlotInv'
  OBVIOUS
<1>1. ASSUME NEW c \in Clients, ClientStep(c) PROVE CountInv' /\ SlotInv'
  <2>1. CASE AppendBegin(c) \/ TryWait(c) \/ SlotWait(c) \/ FetchAdd(c) \/ FillSlot(c)
             \/ PublishTimestamp(c)
    BY <2>1, SlotInvAppend, TokenUsed, SlotInvFetch, SlotInvFill, SlotInvPublish
  <2>2. CASE \/ \E kind \in WaitKinds, n \in InitialTimestamp + 1 .. next - 1 : WaitBegin(c, kind, n)
             \/ LoadPersisted(c) \/ CasHeader(c) \/ PersistHeader(c) \/ CasPersisted(c)
             \/ WaitReturns(c)
    BY <2>2, SlotInvWait
  <2>3. CASE LoadCommitted(c) \/ LoadProcessing(c) \/ CasProcessing(c) \/ Process(c) \/ PopReady(c)
    BY <2>3, SlotInvLoad, SlotInvAcquire, SlotInvProcess, SlotInvPop
  <2>4. CASE ClearSlots(c) \/ AddCommitted(c) \/ PostSlot(c) \/ IncreaseReturns(c)
    BY <2>4, SlotInvClear, SlotInvAdd, SlotInvPost
  <2>5. CASE InsertReady(c) \/ InsertFails(c) \/ AwaitCommitted(c)
    BY <2>5, SlotInvMark
  <2> QED BY <1>1, <2>1, <2>2, <2>3, <2>4, <2>5 DEF ClientStep
<1>2. ASSUME NEW n \in copying, CopyDone(n) PROVE CountInv' /\ SlotInv'
  BY <1>2, SlotInvCopied
<1>3. CASE UNCHANGED vars
  <2>1. /\ UNCHANGED <<next, committed, semaphore, slots, durable, copying, ready, pc, fut, loc>>
    BY <1>3 DEF vars, shared
  <2>2. Fetching' = Fetching /\ Posting' = Posting
    BY <2>1 DEF Fetching, Posting
  <2>3. CountInv'
    BY <2>1, <2>2 DEF CountInv
  <2>4. \A i \in SlotIndices : RingFacts(i)'
    BY <2>1 DEF SlotInv, RingFacts
  <2>5. \A c \in Clients : FillFacts(c)'
    BY <2>1 DEF SlotInv, FillFacts
  <2>6. DurableInv'
    BY <2>1 DEF SlotInv, DurableInv
  <2> QED BY <2>3, <2>4, <2>5, <2>6 DEF SlotInv
<1> QED BY <1>1, <1>2, <1>3, NextCases

PipelineInv == TypeInv /\ PersistInv /\ BatchInv /\ CountInv /\ SlotInv

\* Whatever the clients do, async_ops_semaphore counts the free slots, a timestamp
\* that is not committed has a slot of its own, and every batch handed over for
\* committing is durable.
THEOREM PipelineInvariant == Spec => []PipelineInv
<1>1. Init => PipelineInv
  BY TypeInvInit, PersistInvInit, BatchInvInit, CountInvInit, SlotInvInit DEF PipelineInv
<1>2. PipelineInv /\ [Next]_vars => PipelineInv'
  BY TypeInvNext, PersistInvNext, BatchInvNext, SlotInvNext DEF PipelineInv
<1> QED BY <1>1, <1>2, PTL DEF Spec

\* Nothing is committed, hence visible to iterators, before its data was copied
\* and persisted, for any number of clients polling any futures.
THEOREM CommittedAlwaysDurable == Spec => []CommittedIsDurable
<1>1. PipelineInv => CommittedIsDurable
  BY DEF PipelineInv, SlotInv, DurableInv, CommittedIsDurable
<1> QED BY <1>1, PipelineInvariant, PTL

\* pmemstream_acquire_timestamp never gives a slot away while the operation that
\* used it before is not committed, for any number of slots and of appends.
THEOREM SlotsAreFree == Spec => []SlotIsFree
<1>1. ASSUME PipelineInv, NEW c \in Clients, pc[c] \in FillLabels
      PROVE  LET slot == slots[SlotIndex(loc[c].timestamp)]
             IN  /\ slot.timestamp <= committed
                 /\ slot.op <= committed \/ slot.op = loc[c].timestamp
                 /\ DebugBuild => slot.timestamp = InvalidTimestamp
  <2> DEFINE i == SlotIndex(loc[c].timestamp)
  <2>1. /\ i \in SlotIndices /\ slots[i].timestamp <= committed
        /\ slots[i].op <= committed \/ slots[i].op = loc[c].timestamp
        /\ committed \in Nat /\ slots[i].timestamp \in Nat
    BY <1>1, SlotOfFilled, SlotTypes DEF PipelineInv
  <2> HIDE DEF i
  <2>2. DebugBuild => slots[i].timestamp = 0
    BY <1>1, <2>1 DEF PipelineInv, SlotInv, RingFacts
  <2> QED BY <2>1, <2>2 DEF i, InvalidTimestamp
<1>2. PipelineInv => SlotIsFree
  BY <1>1 DEF SlotIsFree, FillLabels
<1> QED BY <1>2, PipelineInvariant, PTL

\* The API's promise persisted <= committed, and nothing is committed that was
\* not issued.
THEOREM PersistedStaysBehind == Spec => []PersistedBehindCommitted
<1>1. PipelineInv => PersistedBehindCommitted
  BY DEF PipelineInv, PersistInv, CountInv, PersistedBehindCommitted
<1> QED BY <1>1, PipelineInvariant, PTL

-----------------------------------------------------------------------------
(* The pipeline implements CommitSpec.  The abstract persisted timestamp is  *)
(* the one in the header.                                                   *)

LEMMA AbstractInit == Init => Abstract!Init
BY DEF Init, Abstract!Init

\* Steps that give no timestamp and publish none map to stutters.
LEMMA AbstractStutter ==
  ASSUME UNCHANGED <<next, durable, committed, header>>
  PROVE  UNCHANGED Abstract!vars
BY DEF Abstract!vars

\* The first compare-and-swap of wait_persisted is the abstract Persist.
LEMMA AbstractPersist ==
  ASSUME PipelineInv, NEW c \in Clients, CasHeader(c)
  PROVE  [Abstract!Next]_(Abstract!vars)
<1>1. CASE CasSucceeds(header, loc[c].persisted)
  <2>1. /\ pc[c] = "cas_header" /\ header' = fut[c].timestamp /\ loc[c].persisted = header
        /\ UNCHANGED <<next, durable, committed>>
    BY <1>1 DEF CasHeader, CasSucceeds
  <2>2. /\ header < fut[c].timestamp /\ fut[c].timestamp <= committed
        /\ fut[c].timestamp \in Nat /\ committed \in Nat /\ header \in Nat
    BY <2>1, FieldTypes DEF PipelineInv, PersistInv, PersistFacts
  <2>3. fut[c].timestamp \in 1 .. committed
    BY <2>2
  <2>4. Abstract!Persist(fut[c].timestamp)
    BY <2>1, <2>2 DEF Abstract!Persist
  <2> QED BY <2>3, <2>4 DEF Abstract!Next
<1>2. CASE ~CasSucceeds(header, loc[c].persisted)
  BY <1>2, AbstractStutter DEF CasHeader
<1> QED BY <1>1, <1>2

\* The atomic add of pmemstream_increase_committed_timestamp is Commit: what it
\* adds is durable and was issued.
LEMMA AbstractCommit ==
  ASSUME PipelineInv, NEW c \in Clients, AddCommitted(c)
  PROVE  [Abstract!Next]_(Abstract!vars)
<1> DEFINE n == committed + loc[c].num
<1>1. /\ pc[c] = "add_committed" /\ committed' = n /\ UNCHANGED <<next, durable, header>>
      /\ committed \in Nat /\ loc[c].num \in Nat /\ next \in Nat
  BY SlotTypes DEF AddCommitted, PipelineInv
<1>2. committed + 1 .. n \subseteq durable /\ n < next
  BY <1>1, CommittingIsDurable, CommittingIsIssued DEF PipelineInv, SlotInv, CommittingLabels
<1>3. CASE loc[c].num = 0
  BY <1>1, <1>3, AbstractStutter
<1>4. CASE loc[c].num > 0
  <2>1. n \in committed + 1 .. next - 1
    BY <1>1, <1>2, <1>4
  <2>2. Abstract!Commit(n)
    BY <1>1, <1>2 DEF Abstract!Commit
  <2> QED BY <2>1, <2>2 DEF Abstract!Next
<1> QED BY <1>1, <1>3, <1>4

\* A completed operation becomes durable once: the batch it belongs to has one owner.
LEMMA AbstractProcess ==
  ASSUME PipelineInv, NEW c \in Clients, Process(c)
  PROVE  [Abstract!Next]_(Abstract!vars)
<1> DEFINE n == fut[c].processing + 1
<1>1. /\ pc[c] = "process" /\ UNCHANGED <<next, committed, header>>
  BY DEF Process
<1>2. CASE OpIsComplete(slots[SlotIndex(n)], n)
  <2>1. /\ n \in Nat /\ committed < n /\ n < next /\ slots[SlotIndex(n)].op = n
        /\ committed \in Nat /\ next \in Nat
    BY <1>1, <1>2, ProcessedSlot, SlotTypes DEF PipelineInv
  <2>2. durable' = durable \union {n}
    BY <1>2, <2>1 DEF Process
  <2>3. CASE n \in durable
    BY <1>1, <2>2, <2>3, AbstractStutter
  <2>4. CASE n \notin durable
    <3>1. n \in committed + 1 .. next - 1
      BY <2>1
    <3>2. Abstract!MakeDurable(n)
      BY <1>1, <2>2, <2>4 DEF Abstract!MakeDurable
    <3> QED BY <3>1, <3>2 DEF Abstract!Next
  <2> QED BY <2>3, <2>4
<1>3. CASE ~OpIsComplete(slots[SlotIndex(n)], n)
  BY <1>1, <1>3, AbstractStutter DEF Process
<1> QED BY <1>2, <1>3

LEMMA AbstractStep ==
  ASSUME PipelineInv, [Next]_vars
  PROVE  [Abstract!Next]_(Abstract!vars)
<1>1. ASSUME NEW c \in Clients, ClientStep(c) PROVE [Abstract!Next]_(Abstract!vars)
  <2>1. CASE FetchAdd(c)
    <3>1. next \in Nat
      BY SlotTypes DEF PipelineInv
    <3>2. Abstract!Issue
      BY <2>1, <3>1 DEF FetchAdd, Abstract!Issue
    <3> QED BY <3>2 DEF Abstract!Next
  <2>2. CASE Process(c) \/ AddCommitted(c) \/ CasHeader(c)
    BY <2>2, AbstractProcess, AbstractCommit, AbstractPersist
  <2>3. CASE \/ AppendBegin(c) \/ TryWait(c) \/ SlotWait(c) \/ FillSlot(c) \/ PublishTimestamp(c)
             \/ \E kind \in WaitKinds, n \in InitialTimestamp + 1 .. next - 1 : WaitBegin(c, kind, n)
             \/ LoadCommitted(c) \/ LoadProcessing(c) \/ CasProcessing(c) \/ PopReady(c)
    BY <2>3, AbstractStutter
       DEF AppendBegin, TryWait, SlotWait, FillSlot, PublishTimestamp, WaitBegin,
           LoadCommitted, LoadProcessing, CasProcessing, PopReady, shared
  <2>4. CASE \/ ClearSlots(c) \/ PostSlot(c) \/ IncreaseReturns(c)
             \/ InsertReady(c) \/ InsertFails(c) \/ AwaitCommitted(c)
             \/ LoadPersisted(c) \/ PersistHeader(c) \/ CasPersisted(c) \/ WaitReturns(c)
    BY <2>4, AbstractStutter
       DEF ClearSlots, PostSlot, IncreaseReturns, InsertReady, InsertFails, AwaitCommitted,
           LoadPersisted, PersistHeader, CasPersisted, WaitReturns, shared
  <2> QED BY <1>1, <2>1, <2>2, <2>3, <2>4 DEF ClientStep
<1>2. ASSUME NEW n \in copying, CopyDone(n) PROVE [Abstract!Next]_(Abstract!vars)
  BY <1>2, AbstractStutter DEF CopyDone
<1>3. CASE UNCHANGED vars
  BY <1>3, AbstractStutter DEF vars, shared
<1> QED BY <1>1, <1>2, <1>3, NextCases

\* The futures, batches, slots and compare-and-swaps of the pipeline implement
\* CommitSpec: timestamps are issued one by one, committed in order and only when
\* durable, and the header never runs ahead of the committed timestamp.
THEOREM PipelineRefines == Spec => ImplementsCommitSpec
<1>1. PipelineInv /\ [Next]_vars => [Abstract!Next]_(Abstract!vars)
  BY AbstractStep
<1> QED BY AbstractInit, <1>1, PipelineInvariant, PTL DEF Spec, ImplementsCommitSpec, Abstract!Spec

=============================================================================

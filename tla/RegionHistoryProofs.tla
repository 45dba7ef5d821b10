------------------------ MODULE RegionHistoryProofs ------------------------
(***************************************************************************)
(* Proofs about RegionLog, second part: what the operations in flight, the *)
(* entries appended to each region, the timestamps of the stream and the   *)
(* max_valid_timestamp of the regions say of each other.  Nothing here     *)
(* depends on where in a region an entry lies.                             *)
(***************************************************************************)
EXTENDS RegionLogProofs

-----------------------------------------------------------------------------
(* The invariant                                                           *)

\* The labels of an append that has no timestamp yet.
Preparing == Searching \union Recovering \union Locked \union {"reserve", "acquire"}
Preparers == {r \in Regions : pc[r] \in Preparing}

\* Each append takes one timestamp at most.
Counted ==
  /\ next + Cardinality(Preparers) <= appends + 1 /\ appends <= MaxAppends
  /\ persisted <= committed /\ committed < next

\* The timestamps of a region grow, and a region that is not allocated holds nothing.
LogTimes(r) ==
  /\ \A k \in 1 .. Len(log[r]) : 0 < log[r][k].timestamp /\ log[r][k].timestamp < next
  /\ \A j, k \in 1 .. Len(log[r]) : j < k => log[r][j].timestamp < log[r][k].timestamp
  /\ r \notin allocated => log[r] = << >>

\* An operation in flight is an entry of its region that is not committed, ...
Matches(e, op) ==
  /\ e.timestamp = op.timestamp /\ e.offset = op.offset
  /\ e.payload = [k \in 1 .. op.size |-> op.append]
InFlight(op) ==
  /\ committed < op.timestamp /\ op.timestamp < next
  /\ 1 <= op.append /\ op.append <= MaxAppends
  /\ op.durable => op.copied /\ op.published
  /\ op.published \/ (pc[op.region] \in Storing /\ loc[op.region].timestamp = op.timestamp)
  /\ \E k \in 1 .. Len(log[op.region]) : Matches(log[op.region][k], op)

\* ... each such entry has its operation, and no timestamp is used twice.
Pending(r) ==
  \A k \in 1 .. Len(log[r]) :
    committed < log[r][k].timestamp =>
      \E op \in ops : op.region = r /\ op.timestamp = log[r][k].timestamp
Distinct == \A op, oq \in ops : op.timestamp = oq.timestamp => op = oq

\* A writer that stores headers is at work on the last entry of its region.
WriterOK(r) ==
  /\ pc[r] \in Preparing => loc[r].size \in Sizes
  /\ pc[r] \in Storing =>
       /\ Len(log[r]) > 0
       /\ LET e == log[r][Len(log[r])]
          IN  /\ e.timestamp = loc[r].timestamp /\ committed < e.timestamp
              /\ e.offset = loc[r].offset /\ Len(e.payload) = loc[r].size
       /\ \A op \in ops : op.timestamp = loc[r].timestamp => ~op.published

History ==
  /\ \A r \in Regions : LogTimes(r) /\ Pending(r) /\ WriterOK(r)
  /\ \A op \in ops : InFlight(op)
  /\ Distinct

\* max_valid_timestamp is UINT64_MAX or marks a timestamp the stream was opened with, and
\* lets through all that the region holds.  Until a region is recovered it holds nothing
\* that is not committed; once it is, the medium has UINT64_MAX and nothing else.
NotReady(r) == runtimeOf[r] = Nobody \/ state[runtimeOf[r]] # "write_ready"
Marked(r) ==
  /\ \A mv \in maxValidMedium[r] :
       mv # Forever => mv <= persisted /\ \A k \in 1 .. Len(log[r]) : log[r][k].timestamp <= mv
  /\ \/ maxValidMedium[r] = {maxValid[r]}
     \/ phase = "running" /\ maxValid[r] = Forever
     \/ phase = "opening" /\ maxValid[r] = persisted /\ maxValidMedium[r] = {Forever, persisted}
  /\ NotReady(r) => \A k \in 1 .. Len(log[r]) : log[r][k].timestamp <= committed
  /\ ~NotReady(r) => maxValidMedium[r] = {Forever}
Marks ==
  /\ \A r \in allocated : Marked(r)
  /\ \A a \in Actors : pc[a] = "write_ready" => maxValid[loc[a].region] = Forever
  /\ phase = "opening" => committed = persisted /\ next = persisted + 1

HistoryIInv == RuntimeIInv /\ Counted /\ History /\ Marks

-----------------------------------------------------------------------------
(* What the proofs below keep using                                        *)

LEMMA LabelSets ==
  /\ Preparing = {"look_up", "create", "initialize", "lock", "recheck", "set_max_valid",
                  "write_ready", "reserve", "acquire"}
  /\ Storing = {"clear_next", "store_timestamp", "store_span", "publish"}
  /\ Preparing \intersect Storing = {} /\ Preparing \intersect Resting = {}
  /\ Storing \intersect Resting = {} /\ Storing \subseteq Writing
  BY DEF Preparing, Storing, Searching, Recovering, Locked, Resting, Writing

LEMMA StateTypes ==
  ASSUME Types
  PROVE  /\ next \in Nat /\ committed \in Nat /\ persisted \in Nat /\ appends \in Nat
         /\ MaxAppends \in Nat /\ Forever \in Nat /\ Forever = MaxAppends + 1
         /\ ops \in SUBSET Operations /\ allocated \in SUBSET Regions
         /\ log \in [Regions -> Seq(Entries)] /\ loc \in [Actors -> Locals]
         /\ maxValid \in [Regions -> Nat] /\ maxValidMedium \in [Regions -> SUBSET Nat]
         /\ Regions \subseteq Actors /\ pc = [b \in Actors |-> pc[b]]
         /\ \A r \in Regions : maxValid[r] \in maxValidMedium[r]
  BY Constants DEF Types, TimestampTypes, CounterTypes, ActorTypes, RegionTypes

\* The pieces of a log.
LEMMA LogTypes ==
  ASSUME Types, NEW r \in Regions
  PROVE  /\ log[r] \in Seq(Entries) /\ Len(log[r]) \in Nat
         /\ \A k \in 1 .. Len(log[r]) :
              /\ log[r][k] \in Entries /\ log[r][k].timestamp \in Nat /\ log[r][k].offset \in Nat
              /\ log[r][k].payload \in Seq(Nat) /\ Len(log[r][k].payload) \in Nat
<1>1. log[r] \in Seq(Entries)
  BY StateTypes
<1>2. Len(log[r]) \in Nat /\ \A k \in 1 .. Len(log[r]) : log[r][k] \in Entries
  BY <1>1
<1>3. \A e \in Entries : /\ e.timestamp \in Nat /\ e.offset \in Nat /\ e.payload \in Seq(Nat)
                         /\ Len(e.payload) \in Nat
  BY DEF Entries
<1> QED
  BY <1>1, <1>2, <1>3

LEMMA OpTypes ==
  ASSUME Types, NEW op \in ops
  PROVE  /\ op.timestamp \in Nat /\ op.region \in Regions /\ op.offset \in Nat /\ op.size \in Nat
         /\ op.append \in Nat /\ op.copied \in BOOLEAN /\ op.published \in BOOLEAN
         /\ op.durable \in BOOLEAN /\ op.size \in 0 .. Capacity
  BY StateTypes, Constants DEF Operations

\* An operation belongs to one entry.
LEMMA OneEntry ==
  ASSUME Types, History, NEW op \in ops, NEW r \in Regions, NEW k \in 1 .. Len(log[r]),
         log[r][k].timestamp = op.timestamp
  PROVE  r = op.region /\ Matches(log[r][k], op)
<1>1. committed < log[r][k].timestamp
  BY DEF History, InFlight
<1>2. PICK oq \in ops : oq.region = r /\ oq.timestamp = log[r][k].timestamp
  BY <1>1 DEF History, Pending
<1>3. oq = op
  BY <1>2 DEF History, Distinct
<1>4. PICK j \in 1 .. Len(log[r]) : Matches(log[r][j], op)
  BY <1>2, <1>3 DEF History, InFlight
<1>5. log[r][j].timestamp = log[r][k].timestamp
  BY <1>4 DEF Matches
<1>6. j = k
  <2>0. Len(log[r]) \in Nat /\ log[r][j].timestamp \in Nat /\ log[r][k].timestamp \in Nat
    BY LogTypes
  <2>1. /\ j \in Nat /\ k \in Nat /\ log[r][j].timestamp \in Nat /\ log[r][k].timestamp \in Nat
    BY <2>0
  <2>2. /\ j < k => log[r][j].timestamp < log[r][k].timestamp
        /\ k < j => log[r][k].timestamp < log[r][j].timestamp
    BY DEF History, LogTimes
  <2> QED
    BY <1>5, <2>1, <2>2
<1> QED
  BY <1>2, <1>3, <1>4, <1>6

-----------------------------------------------------------------------------
(* Counted is kept                                                         *)

LEMMA PreparersFinite ==
  /\ IsFiniteSet(Preparers) /\ Cardinality(Preparers) \in Nat
  /\ \A S \in SUBSET Preparers : IsFiniteSet(S) /\ Cardinality(S) <= Cardinality(Preparers)
                                 /\ Cardinality(S) \in Nat
<1>1. IsFiniteSet(Regions) /\ Preparers \subseteq Regions
  BY Constants DEF Preparers
<1>2. IsFiniteSet(Preparers)
  BY <1>1, FS_Subset
<1> QED
  BY <1>2, FS_Subset, FS_CardinalityType

\* No append begins and none takes its timestamp.
LEMMA CountedKept ==
  ASSUME Types, Types', Counted, Preparers' \subseteq Preparers,
         next' = next, appends' = appends, persisted' <= committed', committed' < next
  PROVE  Counted'
<1>1. /\ Cardinality(Preparers') <= Cardinality(Preparers) /\ Cardinality(Preparers') \in Nat
      /\ Cardinality(Preparers) \in Nat
  BY PreparersFinite
<1>2. next \in Nat /\ appends \in Nat
  BY StateTypes
<1>3. next + Cardinality(Preparers) <= appends + 1 /\ appends <= MaxAppends
  BY DEF Counted
<1>4. next' + Cardinality(Preparers') <= appends' + 1
  BY <1>1, <1>2, <1>3
<1> QED
  BY <1>3, <1>4 DEF Counted

\* pmemstream_async_append begins.
LEMMA CountedMore ==
  ASSUME Types, Types', Counted, NEW r \in Regions, Preparers' \subseteq Preparers \union {r},
         next' = next, persisted' = persisted, committed' = committed,
         appends' = appends + 1, appends < MaxAppends
  PROVE  Counted'
<1>1. IsFiniteSet(Preparers) /\ Cardinality(Preparers) \in Nat
  BY PreparersFinite
<1>2. /\ IsFiniteSet(Preparers \union {r})
      /\ Cardinality(Preparers \union {r}) \in Nat
      /\ Cardinality(Preparers \union {r}) <= Cardinality(Preparers) + 1
  <2>1. /\ IsFiniteSet(Preparers \union {r})
        /\ Cardinality(Preparers \union {r})
             = IF r \in Preparers THEN Cardinality(Preparers) ELSE Cardinality(Preparers) + 1
    BY <1>1, FS_AddElement
  <2> HIDE DEF Preparers
  <2> QED
    BY <1>1, <2>1
<1>3. /\ Cardinality(Preparers') <= Cardinality(Preparers \union {r})
      /\ Cardinality(Preparers') \in Nat
  BY <1>2, FS_Subset, FS_CardinalityType
<1>4. next \in Nat /\ appends \in Nat /\ MaxAppends \in Nat
  BY StateTypes
<1>5. next + Cardinality(Preparers) <= appends + 1 /\ persisted <= committed /\ committed < next
  BY DEF Counted
<1>6. next' + Cardinality(Preparers') <= appends' + 1
  BY <1>1, <1>2, <1>3, <1>4, <1>5
<1>7. appends' <= MaxAppends
  BY <1>4
<1> QED
  BY <1>5, <1>6, <1>7 DEF Counted

\* pmemstream_acquire_timestamp.
LEMMA CountedLess ==
  ASSUME Types, Types', Counted, NEW r \in Preparers, Preparers' = Preparers \ {r},
         next' = next + 1, persisted' = persisted, committed' = committed, appends' = appends
  PROVE  Counted' /\ next <= appends
<1>1. IsFiniteSet(Preparers) /\ Cardinality(Preparers) \in Nat
  BY PreparersFinite
<1>2. Cardinality(Preparers') = Cardinality(Preparers) - 1 /\ Cardinality(Preparers') \in Nat
  BY <1>1, FS_RemoveElement, FS_CardinalityType
<1>4. next \in Nat /\ appends \in Nat /\ MaxAppends \in Nat /\ committed \in Nat
  BY StateTypes
<1>5. /\ next + Cardinality(Preparers) <= appends + 1 /\ persisted <= committed /\ committed < next
      /\ appends <= MaxAppends
  BY DEF Counted
<1>6. next' + Cardinality(Preparers') <= appends' + 1 /\ next <= appends
  BY <1>1, <1>2, <1>4, <1>5
<1>7. committed' < next'
  BY <1>4, <1>5
<1> QED
  BY <1>5, <1>6, <1>7 DEF Counted

\* All timestamps fit below UINT64_MAX.
LEMMA BelowForever ==
  ASSUME Types, Counted
  PROVE  next <= Forever /\ persisted < Forever /\ committed < Forever /\ next <= MaxAppends + 1
<1>1. Cardinality(Preparers) \in Nat
  BY PreparersFinite
<1> QED
  BY <1>1, StateTypes DEF Counted

-----------------------------------------------------------------------------
(* Steps that leave the log and the operations alone                       *)

\* The writer of r neither takes a timestamp nor publishes one.
WriterQuiet(r) ==
  /\ pc[r] \in Storing <=> pc'[r] \in Storing
  /\ pc[r] \in Storing => /\ loc'[r].timestamp = loc[r].timestamp
                          /\ loc'[r].offset = loc[r].offset /\ loc'[r].size = loc[r].size
  /\ pc'[r] \in Preparing => loc'[r].size \in Sizes

LEMMA HistoryQuiet ==
  ASSUME Types, History, UNCHANGED <<log, ops, next, committed>>, allocated \subseteq allocated',
         \A r \in Regions : WriterQuiet(r)
  PROVE  History'
<1>1. ASSUME NEW r \in Regions PROVE LogTimes(r)'
  BY <1>1 DEF History, LogTimes
<1>2. ASSUME NEW r \in Regions PROVE Pending(r)'
  BY <1>2 DEF History, Pending
<1>3. ASSUME NEW r \in Regions PROVE WriterOK(r)'
  BY <1>3 DEF History, WriterOK, WriterQuiet
<1>4. ASSUME NEW op \in ops PROVE InFlight(op)'
  <2>1. op.region \in Regions
    BY OpTypes
  <2> QED
    BY <2>1 DEF History, InFlight, WriterQuiet
<1> QED
  BY <1>1, <1>2, <1>3, <1>4 DEF History, Distinct

\* A step of one actor before it takes a timestamp, or of the iterator.
Quiet(a, l, x) ==
  /\ pc' = [pc EXCEPT ![a] = l] /\ loc' = [loc EXCEPT ![a] = x]
  /\ a # Reader =>
       /\ l \in Preparing \union Resting
       /\ l \in Preparing => pc[a] \in Preparing /\ x.size = loc[a].size
       /\ pc[a] \notin Storing
QuietStep == \E a \in Actors : \E l : \E x \in Locals : Quiet(a, l, x)

LEMMA QuietWriters ==
  ASSUME Types, History, QuietStep
  PROVE  Preparers' \subseteq Preparers /\ \A r \in Regions : WriterQuiet(r)
<1>0. PICK a \in Actors : \E l : \E x \in Locals : Quiet(a, l, x)
  BY DEF QuietStep
<1>1. PICK l : \E x \in Locals : Quiet(a, l, x)
  BY <1>0
<1>3. PICK x \in Locals : Quiet(a, l, x)
  BY <1>1
<1>2. \A b \in Actors : (b # a => pc'[b] = pc[b] /\ loc'[b] = loc[b]) /\ pc'[a] = l /\ loc'[a] = x
  BY <1>3, StateTypes DEF Quiet
<1>4. ASSUME NEW r \in Regions
      PROVE  WriterQuiet(r) /\ (pc'[r] \in Preparing => pc[r] \in Preparing)
  <2>1. r \in Actors /\ r # Reader
    BY Constants
  <2>2. pc[r] \in Preparing => loc[r].size \in Sizes
    BY DEF History, WriterOK
  <2>3. CASE r # a
    BY <1>2, <2>1, <2>2, <2>3 DEF WriterQuiet
  <2>4. CASE r = a
    <3>1. /\ l \in Preparing \union Resting /\ pc[r] \notin Storing
          /\ l \in Preparing => pc[r] \in Preparing /\ x.size = loc[r].size
      BY <1>3, <2>1, <2>4 DEF Quiet
    <3>2. l \notin Storing
      BY <3>1, LabelSets
    <3> QED
      BY <1>2, <2>1, <2>2, <2>4, <3>1, <3>2 DEF WriterQuiet
  <2> QED
    BY <2>3, <2>4
<1> QED
  BY <1>4 DEF Preparers

LEMMA QuietKeeps ==
  ASSUME Types, Types', Counted, History, QuietStep,
         UNCHANGED <<log, ops, next, committed, persisted, allocated, appends>>
  PROVE  Counted' /\ History'
<1>1. Preparers' \subseteq Preparers /\ \A r \in Regions : WriterQuiet(r)
  BY QuietWriters
<1>2. allocated \subseteq allocated' /\ persisted' <= committed' /\ committed' < next
  BY DEF Counted
<1> QED
  BY <1>1, <1>2, CountedKept, HistoryQuiet

\* get_or_create, the recovery, the refusal of a reserve, and all of the iterator.
LEMMA GetOrCreateQuiet ==
  ASSUME RuntimeIInv, RuntimeIInv', NEW a \in Actors, GetOrCreate(a)
  PROVE  QuietStep
<1>1. /\ pc[a] \in {"look_up", "create"} /\ loc[a] \in Locals /\ loc'[a] \in Locals
      /\ loc = [loc EXCEPT ![a] = loc[a]]
  <2>1. loc'[a] \in Locals
    BY DEF RuntimeIInv, Types, ActorTypes
  <2> QED
    BY <2>1, Before DEF GetOrCreate, LookUp, Create, CreateFails
<1>2. pc[a] \in Preparing /\ pc[a] \notin Storing /\ "idle" \in Resting /\ "idle" \notin Preparing
      /\ "create" \in Preparing /\ "initialize" \in Preparing
  BY <1>1, LabelSets DEF Resting
<1>3. ASSUME NEW o, HaveRuntime(a, o) PROVE QuietStep
  <2> DEFINE l == IF a = Reader THEN "load_committed" ELSE "initialize"
             x == [loc[a] EXCEPT !.runtime = o]
  <2>1. pc' = [pc EXCEPT ![a] = l] /\ loc' = [loc EXCEPT ![a] = x]
    BY <1>3 DEF HaveRuntime, Goto
  <2>2. x.size = loc[a].size /\ loc'[a] = x
    BY <1>1, <2>1, StateTypes DEF Locals, RuntimeIInv
  <2>3. a # Reader => l \in Preparing
    BY <1>2
  <2> HIDE DEF l, x
  <2>4. Quiet(a, l, x) /\ x \in Locals
    BY <1>1, <1>2, <2>1, <2>2, <2>3 DEF Quiet
  <2> QED
    BY <2>4 DEF QuietStep
<1>4. CASE Goto(a, "create") /\ UNCHANGED loc
  <2>1. Quiet(a, "create", loc[a])
    BY <1>1, <1>2, <1>4 DEF Quiet, Goto
  <2> QED
    BY <1>1, <2>1 DEF QuietStep
<1>5. CASE CreateFails(a)
  <2>1. Quiet(a, "idle", NoLocals)
    BY <1>1, <1>2, <1>5 DEF Quiet, Goto, CreateFails
  <2> QED
    BY <2>1, NoLocalsType DEF QuietStep
<1> QED
  BY <1>3, <1>4, <1>5 DEF GetOrCreate, LookUp, Create

LEMMA AfterRecoveryQuiet ==
  ASSUME RuntimeIInv, NEW a \in Actors, pc[a] \in Preparing, AfterRecovery(a)
  PROVE  QuietStep
<1>1. /\ loc[a] \in Locals /\ loc = [loc EXCEPT ![a] = loc[a]] /\ pc[a] \notin Storing
      /\ "reserve" \in Preparing
  BY Before, LabelSets
<1>2. CASE a # Reader /\ Goto(a, "reserve") /\ UNCHANGED loc
  <2>1. Quiet(a, "reserve", loc[a])
    BY <1>1, <1>2 DEF Quiet, Goto
  <2> QED
    BY <1>1, <2>1 DEF QuietStep
<1>3. CASE a = Reader /\ Goto(a, "idle") /\ loc' = [loc EXCEPT ![a] = NoLocals]
  <2>1. Quiet(a, "idle", NoLocals)
    BY <1>3 DEF Quiet, Goto
  <2> QED
    BY <2>1, NoLocalsType DEF QuietStep
<1>4. CASE a = Reader /\ loc[a].offset # 0 /\ Goto(a, "load_committed") /\ UNCHANGED loc
  <2>1. Quiet(a, "load_committed", loc[a])
    BY <1>1, <1>4 DEF Quiet, Goto
  <2> QED
    BY <1>1, <2>1 DEF QuietStep
<1> QED
  BY <1>2, <1>3, <1>4 DEF AfterRecovery

LEMMA RecoverQuiet ==
  ASSUME RuntimeIInv, NEW a \in Actors, Recover(a)
  PROVE  QuietStep
<1>1. /\ pc[a] \in {"initialize", "lock", "recheck", "set_max_valid", "write_ready"}
      /\ loc[a] \in Locals /\ loc = [loc EXCEPT ![a] = loc[a]]
  BY Before DEF Recover, Initialize, Lock, RecheckState, SetMaxValid, WriteReady
<1>2. /\ pc[a] \in Preparing /\ pc[a] \notin Storing
      /\ "lock" \in Preparing /\ "recheck" \in Preparing /\ "set_max_valid" \in Preparing
      /\ "write_ready" \in Preparing
  BY <1>1, LabelSets
<1>3. ASSUME NEW l \in Preparing, Goto(a, l), loc' = loc PROVE QuietStep
  <2>1. Quiet(a, l, loc[a])
    BY <1>1, <1>2, <1>3 DEF Quiet, Goto
  <2> QED
    BY <1>1, <2>1 DEF QuietStep
<1>4. CASE AfterRecovery(a)
  BY <1>2, <1>4, AfterRecoveryQuiet
<1>5. CASE Initialize(a)
  BY <1>2, <1>3, <1>4, <1>5 DEF Initialize
<1>6. CASE Lock(a)
  BY <1>2, <1>3, <1>6 DEF Lock
<1>7. CASE RecheckState(a)
  BY <1>2, <1>3, <1>4, <1>7 DEF RecheckState
<1>8. CASE SetMaxValid(a)
  BY <1>2, <1>3, <1>8 DEF SetMaxValid
<1>9. CASE WriteReady(a)
  BY <1>4, <1>9 DEF WriteReady
<1> QED
  BY <1>5, <1>6, <1>7, <1>8, <1>9 DEF Recover

LEMMA ReadQuiet ==
  ASSUME RuntimeIInv, RuntimeIInv', Read
  PROVE  QuietStep
<1>1. Reader \in Actors /\ loc'[Reader] \in Locals
  BY Constants DEF RuntimeIInv, Types, ActorTypes
<1>2. \E l, x : pc' = [pc EXCEPT ![Reader] = l] /\ loc' = [loc EXCEPT ![Reader] = x]
  <2>1. loc = [loc EXCEPT ![Reader] = loc[Reader]]
    BY <1>1, Before
  <2>2. CASE ReadBegin
    BY <2>2 DEF ReadBegin, Goto
  <2>3. CASE LoadCommitted
    BY <2>1, <2>3 DEF LoadCommitted, Goto
  <2>4. CASE LoadMaxValid
    BY <2>4 DEF LoadMaxValid, Goto
  <2>5. CASE LoadSpan
    BY <2>5 DEF LoadSpan, Goto
  <2>6. CASE LoadTimestamp
    BY <2>1, <2>6 DEF LoadTimestamp, Goto
  <2> QED
    BY <2>2, <2>3, <2>4, <2>5, <2>6 DEF Read
<1>3. PICK l, x : pc' = [pc EXCEPT ![Reader] = l] /\ loc' = [loc EXCEPT ![Reader] = x]
  BY <1>2
<1>4. loc'[Reader] = x
  BY <1>1, <1>3, StateTypes DEF RuntimeIInv
<1>5. Quiet(Reader, l, x) /\ x \in Locals
  BY <1>1, <1>3, <1>4 DEF Quiet
<1> QED
  BY <1>1, <1>5 DEF QuietStep

-----------------------------------------------------------------------------
(* The other steps of a writer                                             *)

LEMMA AppendBeginHistory ==
  ASSUME RuntimeIInv, RuntimeIInv', Counted, History, NEW r \in Regions, AppendBegin(r)
  PROVE  Counted' /\ History'
<1>1. PICK s \in Sizes : loc' = [loc EXCEPT ![r] = [NoLocals EXCEPT !.region = r, !.size = s]]
  BY DEF AppendBegin
<1>2. /\ pc[r] = "idle" /\ pc' = [pc EXCEPT ![r] = "look_up"] /\ appends' = appends + 1
      /\ appends < MaxAppends
      /\ UNCHANGED <<log, ops, next, committed, persisted, allocated>>
  BY DEF AppendBegin, Goto, timestamps, memory
<1>3. Types /\ Types' /\ r \in Actors /\ pc = [b \in Actors |-> pc[b]] /\ loc \in [Actors -> Locals]
  BY Constants, StateTypes DEF RuntimeIInv
<1>4. \A q \in Regions : q # r => pc'[q] = pc[q] /\ loc'[q] = loc[q]
  BY <1>1, <1>2, <1>3, Constants
<1>5. pc'[r] = "look_up" /\ loc'[r].size = s
  BY <1>1, <1>2, <1>3 DEF NoLocals
<1>6. Preparers' \subseteq Preparers \union {r}
  BY <1>4 DEF Preparers
<1>7. ASSUME NEW q \in Regions PROVE WriterQuiet(q)
  <2>1. pc[q] \in Preparing => loc[q].size \in Sizes
    BY DEF History, WriterOK
  <2>2. "idle" \notin Storing /\ "look_up" \notin Storing
    BY DEF Storing
  <2> QED
    BY <1>2, <1>4, <1>5, <2>1, <2>2 DEF WriterQuiet
<1>8. Counted'
  BY <1>2, <1>3, <1>6, CountedMore
<1> QED
  BY <1>2, <1>3, <1>7, <1>8, HistoryQuiet

LEMMA ReserveHistory ==
  ASSUME RuntimeIInv, RuntimeIInv', Counted, History, NEW r \in Regions, Reserve(r)
  PROVE  Counted' /\ History'
<1>1. /\ pc[r] = "reserve" /\ r \in Actors /\ loc[r] \in Locals /\ loc'[r] \in Locals
      /\ UNCHANGED <<log, ops, next, committed, persisted, allocated, appends>>
      /\ pc[r] \in Preparing /\ pc[r] \notin Storing /\ "acquire" \in Preparing
      /\ "idle" \in Resting /\ "idle" \notin Preparing
  <2>1. loc'[r] \in Locals /\ loc[r] \in Locals /\ r \in Actors
    BY Constants DEF RuntimeIInv, Types, ActorTypes
  <2> QED
    BY <2>1, LabelSets DEF Reserve, memory, timestamps, counters, Resting
<1>2. CASE loc' = [loc EXCEPT ![r].offset = appendOffset[loc[r].runtime]] /\ Goto(r, "acquire")
  <2> DEFINE x == [loc[r] EXCEPT !.offset = appendOffset[loc[r].runtime]]
  <2>1. x.size = loc[r].size
    BY <1>1 DEF Locals
  <2>2. loc' = [loc EXCEPT ![r] = x] /\ pc' = [pc EXCEPT ![r] = "acquire"]
    BY <1>2 DEF Goto
  <2>3. loc'[r] = x
    BY <1>1, <2>2, StateTypes DEF RuntimeIInv
  <2> HIDE DEF x
  <2>4. Quiet(r, "acquire", x) /\ x \in Locals
    BY <1>1, <2>1, <2>2, <2>3 DEF Quiet
  <2>5. QuietStep
    BY <1>1, <2>4 DEF QuietStep
  <2> QED
    BY <1>1, <2>5, QuietKeeps DEF RuntimeIInv
<1>3. CASE loc' = [loc EXCEPT ![r] = NoLocals] /\ Goto(r, "idle")
  <2>1. Quiet(r, "idle", NoLocals) /\ NoLocals \in Locals
    BY <1>1, <1>3, NoLocalsType DEF Quiet, Goto
  <2>2. QuietStep
    BY <1>1, <2>1 DEF QuietStep
  <2> QED
    BY <1>1, <2>2, QuietKeeps DEF RuntimeIInv
<1> QED
  BY <1>2, <1>3 DEF Reserve

\* The stores of a header.
LEMMA StoringHistory ==
  ASSUME RuntimeIInv, RuntimeIInv', Counted, History, NEW r \in Regions,
         ClearNext(r) \/ StoreTimestamp(r) \/ StoreSpan(r)
  PROVE  /\ Counted' /\ History' /\ \A q \in Regions : WriterQuiet(q)
         /\ UNCHANGED <<log, ops, next, committed, persisted, allocated, loc, appends>>
         /\ \E l \in Storing : pc' = [pc EXCEPT ![r] = l]
<1>1. /\ pc[r] \in Storing
      /\ UNCHANGED <<log, ops, next, committed, persisted, allocated, loc, appends>>
      /\ \E l \in Storing : pc' = [pc EXCEPT ![r] = l]
  BY DEF ClearNext, StoreTimestamp, StoreSpan, StoreHeader, Goto, Storing, timestamps, counters
<1>2. PICK l \in Storing : pc' = [pc EXCEPT ![r] = l]
  BY <1>1
<1>3. Types /\ Types' /\ r \in Actors /\ pc = [b \in Actors |-> pc[b]] /\ Regions \subseteq Actors
  BY Constants, StateTypes DEF RuntimeIInv
<1>4. \A q \in Regions : q # r => pc'[q] = pc[q]
  BY <1>2, <1>3
<1>5. pc'[r] \in Storing /\ pc'[r] \notin Preparing
  BY <1>2, <1>3, LabelSets
<1>6. ASSUME NEW q \in Regions PROVE WriterQuiet(q)
  <2>1. pc[q] \in Preparing => loc[q].size \in Sizes
    BY DEF History, WriterOK
  <2> QED
    BY <1>1, <1>4, <1>5, <2>1 DEF WriterQuiet
<1>7. Preparers' \subseteq Preparers
  BY <1>4, <1>5 DEF Preparers
<1>8. Counted'
  BY <1>1, <1>3, <1>7, CountedKept DEF Counted
<1> QED
  BY <1>1, <1>3, <1>6, <1>8, HistoryQuiet

\* A timestamp is taken: a new entry at the end of the log, and its operation.
NewOp(r) ==
  [timestamp |-> next, region |-> r, offset |-> loc[r].offset,
   size |-> loc[r].size, append |-> appends,
   copied |-> FALSE, published |-> FALSE, durable |-> FALSE]
NewEntry(r) ==
  [timestamp |-> next, offset |-> loc[r].offset, payload |-> [k \in 1 .. loc[r].size |-> appends]]

LEMMA AcquireEffect ==
  ASSUME RuntimeIInv, NEW r \in Regions, AcquireTimestamp(r)
  PROVE  /\ pc[r] = "acquire" /\ next' = next + 1 /\ ops' = ops \union {NewOp(r)}
         /\ Len(log'[r]) = Len(log[r]) + 1 /\ log'[r][Len(log[r]) + 1] = NewEntry(r)
         /\ Len(log[r]) \in Nat
         /\ \A k \in 1 .. Len(log[r]) : log'[r][k] = log[r][k]
         /\ \A q \in Regions : q # r => log'[q] = log[q] /\ pc'[q] = pc[q] /\ loc'[q] = loc[q]
         /\ pc'[r] = "clear_next" /\ loc'[r] = [loc[r] EXCEPT !.timestamp = next]
         /\ loc'[r].timestamp = next /\ loc'[r].offset = loc[r].offset
         /\ loc'[r].size = loc[r].size /\ loc'[r].region = loc[r].region
         /\ loc'[r].runtime = loc[r].runtime
         /\ NewEntry(r).timestamp = next /\ NewEntry(r).offset = loc[r].offset
         /\ Len(NewEntry(r).payload) = loc[r].size /\ loc[r].size \in Nat
         /\ pc'[Reader] = pc[Reader] /\ loc'[Reader] = loc[Reader]
         /\ UNCHANGED <<memory, committed, persisted, runtime, phase, counters>>
<1>1. /\ pc[r] = "acquire" /\ next' = next + 1 /\ ops' = ops \union {NewOp(r)}
      /\ log' = [log EXCEPT ![r] = Append(@, NewEntry(r))]
      /\ loc' = [loc EXCEPT ![r].timestamp = next]
      /\ pc' = [pc EXCEPT ![r] = "clear_next"]
      /\ UNCHANGED <<memory, committed, persisted, runtime, phase, counters>>
  BY DEF AcquireTimestamp, Goto, NewOp, NewEntry
<1>2. /\ r \in Actors /\ Reader \in Actors /\ Reader # r /\ Regions \subseteq Actors
      /\ pc = [b \in Actors |-> pc[b]] /\ loc \in [Actors -> Locals]
      /\ log \in [Regions -> Seq(Entries)] /\ appends \in Nat /\ next \in Nat
  BY Constants, StateTypes DEF RuntimeIInv
<1>3. log[r] \in Seq(Entries) /\ log'[r] = Append(log[r], NewEntry(r))
  BY <1>1, <1>2
<1>4. /\ Len(log'[r]) = Len(log[r]) + 1 /\ log'[r][Len(log[r]) + 1] = NewEntry(r)
      /\ Len(log[r]) \in Nat
      /\ \A k \in 1 .. Len(log[r]) : log'[r][k] = log[r][k]
  BY <1>3
<1>5. /\ \A q \in Regions : q # r => log'[q] = log[q] /\ pc'[q] = pc[q] /\ loc'[q] = loc[q]
      /\ pc'[r] = "clear_next" /\ loc'[r] = [loc[r] EXCEPT !.timestamp = next]
      /\ pc'[Reader] = pc[Reader] /\ loc'[Reader] = loc[Reader]
  BY <1>1, <1>2
<1>6. loc[r] \in Locals /\ loc[r].size \in Nat
  BY <1>2, Constants DEF Locals
<1>7. /\ loc'[r].timestamp = next /\ loc'[r].offset = loc[r].offset
      /\ loc'[r].size = loc[r].size /\ loc'[r].region = loc[r].region
      /\ loc'[r].runtime = loc[r].runtime
  BY <1>5, <1>6 DEF Locals
<1>8. /\ NewEntry(r).timestamp = next /\ NewEntry(r).offset = loc[r].offset
      /\ Len(NewEntry(r).payload) = loc[r].size
  BY <1>2, <1>6 DEF NewEntry
<1> QED
  BY <1>1, <1>4, <1>5, <1>6, <1>7, <1>8

LEMMA AcquireHistory ==
  ASSUME RuntimeIInv, RuntimeIInv', Counted, History, NEW r \in Regions, AcquireTimestamp(r)
  PROVE  Counted' /\ History'
<1> DEFINE n == Len(log[r])
           op == NewOp(r)
           e == NewEntry(r)
<1>1. /\ pc[r] = "acquire" /\ next' = next + 1 /\ ops' = ops \union {op}
      /\ Len(log'[r]) = n + 1 /\ log'[r][n + 1] = e /\ n \in Nat
      /\ \A k \in 1 .. n : log'[r][k] = log[r][k]
      /\ \A q \in Regions : q # r => log'[q] = log[q] /\ pc'[q] = pc[q] /\ loc'[q] = loc[q]
      /\ pc'[r] = "clear_next" /\ loc'[r].timestamp = next /\ loc'[r].offset = loc[r].offset
      /\ loc'[r].size = loc[r].size
      /\ e.timestamp = next /\ e.offset = loc[r].offset /\ Len(e.payload) = loc[r].size
      /\ UNCHANGED <<allocated, committed, persisted, appends>>
  BY AcquireEffect DEF memory, counters
<1>2. /\ op.timestamp = next /\ op.region = r /\ op.offset = loc[r].offset /\ op.size = loc[r].size
      /\ op.append = appends /\ ~op.published /\ ~op.durable /\ Matches(e, op)
  BY DEF NewOp, NewEntry, Matches
<1> HIDE DEF n, op, e
<1>3. /\ Types /\ Types' /\ next \in Nat /\ committed \in Nat /\ appends \in Nat
      /\ committed < next /\ appends <= MaxAppends
  BY StateTypes DEF RuntimeIInv, Counted
<1>4. /\ "acquire" \in Preparing /\ "clear_next" \notin Preparing /\ "clear_next" \in Storing
      /\ "acquire" \notin Storing
  BY LabelSets
<1>5. r \in Preparers /\ Preparers' = Preparers \ {r}
  BY <1>1, <1>4 DEF Preparers
<1>6. Counted' /\ next <= appends
  BY <1>1, <1>3, <1>5, CountedLess
<1>7. r \in allocated
  BY <1>1, Before, Constants DEF Resting
<1>8. \A k \in 1 .. n : 0 < log[r][k].timestamp /\ log[r][k].timestamp < next
                         /\ log[r][k].timestamp \in Nat
  BY <1>3, LogTypes DEF History, LogTimes, n
<1>9. ASSUME NEW q \in Regions PROVE LogTimes(q)'
  <2>1. LogTimes(q)
    BY DEF History
  <2>2. CASE q # r
    <3>1. \A k \in 1 .. Len(log[q]) : log[q][k].timestamp \in Nat
      BY <1>3, LogTypes
    <3> QED
      BY <1>1, <1>3, <2>1, <2>2, <3>1, SMTT(30) DEF LogTimes
  <2>3. CASE q = r
    <3>1. ASSUME NEW k \in 1 .. Len(log'[r])
          PROVE  0 < log'[r][k].timestamp /\ log'[r][k].timestamp < next'
      <4>1. CASE k \in 1 .. n
        <5>1. log'[r][k] = log[r][k]
          BY <1>1, <4>1
        <5>2. 0 < log[r][k].timestamp /\ log[r][k].timestamp < next /\ log[r][k].timestamp \in Nat
          BY <1>8, <4>1
        <5>3. next' = next + 1
          BY <1>1
        <5> QED
          BY <1>3, <5>1, <5>2, <5>3
      <4>2. CASE k = n + 1
        BY <1>1, <1>3, <4>2
      <4> QED
        BY <1>1, <4>1, <4>2
    <3>2. ASSUME NEW j \in 1 .. Len(log'[r]), NEW k \in 1 .. Len(log'[r]), j < k
          PROVE  log'[r][j].timestamp < log'[r][k].timestamp
      <4>1. j \in 1 .. n
        BY <1>1, <3>2
      <4>2. CASE k \in 1 .. n
        BY <1>1, <2>1, <2>3, <3>2, <4>1, <4>2 DEF LogTimes, n
      <4>3. CASE k = n + 1
        BY <1>1, <1>8, <4>1, <4>3
      <4> QED
        BY <1>1, <4>2, <4>3
    <3> QED
      BY <1>1, <1>7, <2>3, <3>1, <3>2 DEF LogTimes
  <2> QED
    BY <2>2, <2>3
<1>10. ASSUME NEW q \in Regions PROVE Pending(q)'
  <2>1. Pending(q)
    BY DEF History
  <2>2. CASE q # r
    BY <1>1, <2>1, <2>2 DEF Pending
  <2>3. CASE q = r
    <3>1. ASSUME NEW k \in 1 .. Len(log'[r]), committed < log'[r][k].timestamp
          PROVE  \E o \in ops' : o.region = r /\ o.timestamp = log'[r][k].timestamp
      <4>1. CASE k \in 1 .. n
        BY <1>1, <2>1, <2>3, <3>1, <4>1 DEF Pending, n
      <4>2. CASE k = n + 1
        BY <1>1, <1>2, <4>2
      <4> QED
        BY <1>1, <4>1, <4>2
    <3> QED
      BY <1>1, <2>3, <3>1 DEF Pending
  <2> QED
    BY <2>2, <2>3
<1>11. \A o \in ops : o.timestamp < next /\ o.timestamp \in Nat
  BY <1>3, OpTypes DEF History, InFlight
<1>12. Distinct'
  <2>1. \A o \in ops : o.timestamp # next
    BY <1>3, <1>11
  <2> QED
    BY <1>1, <1>2, <2>1 DEF History, Distinct
<1>13. ASSUME NEW o \in ops' PROVE InFlight(o)'
  <2>1. CASE o \in ops
    <3>1. InFlight(o) /\ o.region \in Regions
      BY <1>3, <2>1, OpTypes DEF History
    <3>2. o.published \/ (pc'[o.region] \in Storing /\ loc'[o.region].timestamp = o.timestamp)
      BY <1>1, <1>4, <3>1 DEF InFlight
    <3>3. \E k \in 1 .. Len(log'[o.region]) : Matches(log'[o.region][k], o)
      <4>1. PICK k \in 1 .. Len(log[o.region]) : Matches(log[o.region][k], o)
        BY <3>1 DEF InFlight
      <4>2. k \in 1 .. Len(log'[o.region]) /\ log'[o.region][k] = log[o.region][k]
        BY <1>1, <3>1 DEF n
      <4>3. Matches(log'[o.region][k], o)
        BY <4>1, <4>2
      <4> QED
        BY <4>2, <4>3
    <3>4. o.timestamp < next'
      BY <1>1, <1>3, <1>11, <2>1
    <3>5. committed' < o.timestamp /\ 1 <= o.append /\ o.append <= MaxAppends
          /\ (o.durable => o.copied /\ o.published)
      BY <1>1, <3>1 DEF InFlight
    <3> QED
      BY <3>2, <3>3, <3>4, <3>5 DEF InFlight, Matches
  <2>2. CASE o = op
    <3>1. n + 1 \in 1 .. Len(log'[r])
      BY <1>1
    <3>2. \E k \in 1 .. Len(log'[r]) : Matches(log'[r][k], op)
      BY <1>1, <1>2, <3>1
    <3>3. 1 <= appends /\ next < next' /\ committed' < next
      BY <1>1, <1>3, <1>6
    <3> QED
      BY <1>1, <1>2, <1>3, <1>4, <2>2, <3>2, <3>3, ZenonT(30) DEF InFlight, Matches
  <2> QED
    BY <1>1, <2>1, <2>2
<1>14. ASSUME NEW q \in Regions PROVE WriterOK(q)'
  <2>1. WriterOK(q)
    BY DEF History
  <2>2. CASE q # r
    <3>1. pc[q] \in Storing => loc[q].timestamp # next
      <4> SUFFICES ASSUME pc[q] \in Storing PROVE loc[q].timestamp # next
        OBVIOUS
      <4>1. Len(log[q]) > 0 /\ log[q][Len(log[q])].timestamp = loc[q].timestamp
        BY <2>1 DEF WriterOK
      <4>2. Len(log[q]) \in 1 .. Len(log[q])
        BY <1>3, <4>1, LogTypes
      <4>3. log[q][Len(log[q])].timestamp < next /\ log[q][Len(log[q])].timestamp \in Nat
        BY <1>3, <4>2, LogTypes DEF History, LogTimes
      <4> QED
        BY <1>3, <4>1, <4>3
    <3> QED
      BY <1>1, <1>2, <2>1, <2>2, <3>1 DEF WriterOK
  <2>3. CASE q = r
    <3>1. \A o \in ops' : o.timestamp = next => ~o.published
      BY <1>1, <1>2, <1>3, <1>11
    <3>2. Len(log'[r]) > 0 /\ log'[r][Len(log'[r])] = e
      BY <1>1
    <3> QED
      BY <1>1, <1>3, <1>4, <2>3, <3>1, <3>2 DEF WriterOK
  <2> QED
    BY <2>2, <2>3
<1> QED
  BY <1>6, <1>9, <1>10, <1>12, <1>13, <1>14 DEF History

-----------------------------------------------------------------------------
(* Steps of the operations in flight                                       *)

\* One operation has more of its work done.
LEMMA OneOpChanged ==
  ASSUME Types, History, NEW op \in ops, NEW done, ops' = (ops \ {op}) \union {done},
         done.timestamp = op.timestamp, done.region = op.region, done.offset = op.offset,
         done.size = op.size, done.append = op.append, done.published = op.published,
         done.durable => done.copied /\ done.published,
         UNCHANGED <<log, next, committed, allocated, pc, loc>>
  PROVE  History'
<1>1. ASSUME NEW r \in Regions PROVE LogTimes(r)' /\ Pending(r)' /\ WriterOK(r)'
  <2>1. LogTimes(r) /\ Pending(r) /\ WriterOK(r)
    BY DEF History
  <2>2. LogTimes(r)'
    BY <2>1 DEF LogTimes
  <2>3. Pending(r)'
    BY <2>1 DEF Pending
  <2>4. \A o \in ops' : \E oq \in ops : o.timestamp = oq.timestamp /\ o.published = oq.published
    OBVIOUS
  <2>5. WriterOK(r)'
    BY <2>1, <2>4 DEF WriterOK
  <2> QED
    BY <2>2, <2>3, <2>5
<1>2. ASSUME NEW o \in ops' PROVE InFlight(o)'
  <2>1. PICK oq \in ops : /\ o.timestamp = oq.timestamp /\ o.region = oq.region /\ o.offset = oq.offset
                          /\ o.size = oq.size /\ o.append = oq.append /\ o.published = oq.published
                          /\ o = done \/ o = oq
    OBVIOUS
  <2>2. InFlight(oq)
    BY DEF History
  <2>3. o.durable => o.copied /\ o.published
    BY <2>1, <2>2 DEF InFlight
  <2> QED
    BY <2>1, <2>2, <2>3 DEF InFlight, Matches
<1>3. Distinct'
  BY DEF History, Distinct
<1> QED
  BY <1>1, <1>2, <1>3 DEF History

LEMMA CopyDoneHistory ==
  ASSUME RuntimeIInv, RuntimeIInv', Counted, History, NEW op \in ops, CopyDone(op)
  PROVE  Counted' /\ History'
<1> DEFINE done == [op EXCEPT !.copied = TRUE]
<1>1. /\ ops' = (ops \ {op}) \union {done}
      /\ UNCHANGED <<log, next, committed, persisted, allocated, pc, loc, appends>>
  BY DEF CopyDone, counters
<1>2. op \in Operations /\ InFlight(op) /\ Types /\ Types'
  BY DEF RuntimeIInv, Types, TimestampTypes, History
<1>3. /\ done.timestamp = op.timestamp /\ done.region = op.region /\ done.offset = op.offset
      /\ done.size = op.size /\ done.append = op.append /\ done.published = op.published
      /\ done.durable => done.copied /\ done.published
  BY <1>2 DEF Operations, InFlight
<1>4. Preparers' = Preparers
  BY <1>1 DEF Preparers
<1> HIDE DEF done
<1>5. History'
  BY <1>1, <1>2, <1>3, OneOpChanged
<1>6. Counted'
  BY <1>1, <1>2, <1>4, CountedKept DEF Counted
<1> QED
  BY <1>5, <1>6

LEMMA ProcessOpHistory ==
  ASSUME RuntimeIInv, RuntimeIInv', Counted, History, NEW op \in ops, ProcessOp(op)
  PROVE  Counted' /\ History'
<1> DEFINE done == [op EXCEPT !.durable = TRUE]
<1>1. /\ ops' = (ops \ {op}) \union {done} /\ op.copied /\ op.published
      /\ UNCHANGED <<log, next, committed, persisted, allocated, pc, loc, appends>>
  BY DEF ProcessOp, counters
<1>2. op \in Operations /\ InFlight(op) /\ Types /\ Types'
  BY DEF RuntimeIInv, Types, TimestampTypes, History
<1>3. /\ done.timestamp = op.timestamp /\ done.region = op.region /\ done.offset = op.offset
      /\ done.size = op.size /\ done.append = op.append /\ done.published = op.published
      /\ done.durable => done.copied /\ done.published
  BY <1>1, <1>2 DEF Operations, InFlight
<1>4. Preparers' = Preparers
  BY <1>1 DEF Preparers
<1> HIDE DEF done
<1>5. History'
  BY <1>1, <1>2, <1>3, OneOpChanged
<1>6. Counted'
  BY <1>1, <1>2, <1>4, CountedKept DEF Counted
<1> QED
  BY <1>5, <1>6

\* The last store of a header was made.
LEMMA PublishEffect ==
  ASSUME RuntimeIInv, History, NEW r \in Regions, Publish(r)
  PROVE  /\ pc[r] = "publish" /\ pc'[r] = "idle" /\ loc'[r] = NoLocals
         /\ \A q \in Regions : q # r => pc'[q] = pc[q] /\ loc'[q] = loc[q]
         /\ pc'[Reader] = pc[Reader] /\ loc'[Reader] = loc[Reader]
         /\ UNCHANGED <<memory, next, committed, persisted, runtime, phase, log, counters>>
         /\ \A o \in ops' : \E oq \in ops :
              /\ o.timestamp = oq.timestamp /\ o.region = oq.region /\ o.offset = oq.offset
              /\ o.size = oq.size /\ o.append = oq.append /\ o.copied = oq.copied
              /\ o.durable = oq.durable
              /\ IF oq.timestamp = loc[r].timestamp THEN o.published ELSE o = oq
         /\ \A oq \in ops : \E o \in ops' :
              /\ o.timestamp = oq.timestamp /\ o.region = oq.region /\ o.copied = oq.copied
              /\ o.durable = oq.durable
              /\ IF oq.timestamp = loc[r].timestamp THEN o.published ELSE o = oq
         /\ \A o, oq \in ops' : o.timestamp = oq.timestamp => o = oq
<1>1. /\ pc[r] = "publish" /\ pc' = [pc EXCEPT ![r] = "idle"] /\ loc' = [loc EXCEPT ![r] = NoLocals]
      /\ UNCHANGED <<memory, next, committed, persisted, runtime, phase, log, counters>>
  BY DEF Publish, Goto
<1> DEFINE Done(op) == IF op.timestamp = loc[r].timestamp THEN [op EXCEPT !.published = TRUE] ELSE op
<1>2. ops' = {Done(op) : op \in ops}
  BY DEF Publish
<1>3. ASSUME NEW oq \in ops
      PROVE  /\ Done(oq).timestamp = oq.timestamp /\ Done(oq).region = oq.region
             /\ Done(oq).offset = oq.offset
             /\ Done(oq).size = oq.size /\ Done(oq).append = oq.append /\ Done(oq).copied = oq.copied
             /\ Done(oq).durable = oq.durable
             /\ IF oq.timestamp = loc[r].timestamp THEN Done(oq).published ELSE Done(oq) = oq
  <2>1. oq \in Operations
    BY StateTypes DEF RuntimeIInv
  <2> QED
    BY <2>1 DEF Operations
<1> HIDE DEF Done
<1>4. \A o \in ops' : \E oq \in ops : o = Done(oq)
  BY <1>2
<1>5. \A oq \in ops : Done(oq) \in ops'
  BY <1>2
<1>6. \A o, oq \in ops' : o.timestamp = oq.timestamp => o = oq
  BY <1>3, <1>4 DEF History, Distinct
<1>7. /\ pc'[r] = "idle" /\ loc'[r] = NoLocals
      /\ \A q \in Regions : q # r => pc'[q] = pc[q] /\ loc'[q] = loc[q]
      /\ pc'[Reader] = pc[Reader] /\ loc'[Reader] = loc[Reader]
  <2>1. r \in Actors /\ Reader \in Actors /\ Reader # r /\ Regions \subseteq Actors
    BY Constants
  <2> QED
    BY <1>1, <2>1, StateTypes DEF RuntimeIInv
<1>8. \A oq \in ops : \E o \in ops' :
        /\ o.timestamp = oq.timestamp /\ o.region = oq.region /\ o.copied = oq.copied
        /\ o.durable = oq.durable
        /\ IF oq.timestamp = loc[r].timestamp THEN o.published ELSE o = oq
  BY <1>3, <1>5
<1>9. \A o \in ops' : \E oq \in ops :
        /\ o.timestamp = oq.timestamp /\ o.region = oq.region /\ o.offset = oq.offset
        /\ o.size = oq.size /\ o.append = oq.append /\ o.copied = oq.copied
        /\ o.durable = oq.durable
        /\ IF oq.timestamp = loc[r].timestamp THEN o.published ELSE o = oq
  BY <1>3, <1>4
<1> QED
  BY <1>1, <1>6, <1>7, <1>8, <1>9

LEMMA PublishHistory ==
  ASSUME RuntimeIInv, RuntimeIInv', Counted, History, NEW r \in Regions, Publish(r)
  PROVE  Counted' /\ History'
<1>1. /\ pc[r] = "publish" /\ pc'[r] = "idle"
      /\ \A q \in Regions : q # r => pc'[q] = pc[q] /\ loc'[q] = loc[q]
      /\ UNCHANGED <<log, next, committed, persisted, allocated, appends>>
      /\ \A o \in ops' : \E oq \in ops :
           /\ o.timestamp = oq.timestamp /\ o.region = oq.region /\ o.offset = oq.offset
           /\ o.size = oq.size /\ o.append = oq.append /\ o.copied = oq.copied
           /\ o.durable = oq.durable
           /\ IF oq.timestamp = loc[r].timestamp THEN o.published ELSE o = oq
      /\ \A oq \in ops : \E o \in ops' : o.timestamp = oq.timestamp /\ o.region = oq.region
      /\ Distinct'
  BY PublishEffect DEF memory, counters, Distinct
<1>2. Types /\ Types'
  BY DEF RuntimeIInv
<1>3. "publish" \in Storing /\ "idle" \notin Storing /\ "idle" \notin Preparing
      /\ "publish" \notin Preparing
  BY LabelSets
<1>4. Counted'
  <2>1. Preparers' \subseteq Preparers
    BY <1>1, <1>3 DEF Preparers
  <2> QED
    BY <1>1, <1>2, <2>1, CountedKept DEF Counted
<1>5. ASSUME NEW q \in Regions PROVE LogTimes(q)' /\ Pending(q)'
  BY <1>1 DEF History, LogTimes, Pending
<1>6. ASSUME NEW o \in ops' PROVE InFlight(o)'
  <2>1. PICK oq \in ops : /\ o.timestamp = oq.timestamp /\ o.region = oq.region
           /\ o.offset = oq.offset
           /\ o.size = oq.size /\ o.append = oq.append /\ o.copied = oq.copied
           /\ o.durable = oq.durable
           /\ IF oq.timestamp = loc[r].timestamp THEN o.published ELSE o = oq
    BY <1>1
  <2>2. InFlight(oq) /\ oq.region \in Regions
    BY <1>2, OpTypes DEF History
  <2>3. o.published \/ (pc'[o.region] \in Storing /\ loc'[o.region].timestamp = o.timestamp)
    BY <1>1, <2>1, <2>2 DEF InFlight
  <2>4. o.durable => o.copied /\ o.published
    BY <2>1, <2>2 DEF InFlight
  <2> QED
    BY <1>1, <2>1, <2>2, <2>3, <2>4 DEF InFlight, Matches
<1>7. ASSUME NEW q \in Regions PROVE WriterOK(q)'
  <2>1. WriterOK(q) /\ WriterOK(r)
    BY DEF History
  <2>2. CASE q = r
    BY <1>1, <1>3, <2>2 DEF WriterOK
  <2>3. CASE q # r
    <3>1. ASSUME pc[q] \in Storing, NEW o \in ops', o.timestamp = loc[q].timestamp
          PROVE  ~o.published
      <4>1. PICK oq \in ops : /\ o.timestamp = oq.timestamp
               /\ IF oq.timestamp = loc[r].timestamp THEN o.published ELSE o = oq
        BY <1>1
      <4>2. ~oq.published
        BY <2>1, <3>1, <4>1 DEF WriterOK
      <4>3. ASSUME oq.timestamp = loc[r].timestamp PROVE FALSE
        <5>1. /\ Len(log[r]) > 0 /\ log[r][Len(log[r])].timestamp = oq.timestamp
              /\ Len(log[q]) > 0 /\ log[q][Len(log[q])].timestamp = oq.timestamp
          BY <1>1, <1>3, <2>1, <3>1, <4>1, <4>3 DEF WriterOK
        <5>2. Len(log[r]) \in 1 .. Len(log[r]) /\ Len(log[q]) \in 1 .. Len(log[q])
          BY <1>2, <5>1, LogTypes
        <5>3. oq.region = r /\ oq.region = q
          BY <1>2, <5>1, <5>2, OneEntry
        <5> QED
          BY <2>3, <5>3
      <4> QED
        BY <4>1, <4>2, <4>3
    <3> QED
      BY <1>1, <2>1, <2>3, <3>1 DEF WriterOK
  <2> QED
    BY <2>2, <2>3
<1> QED
  BY <1>1, <1>4, <1>5, <1>6, <1>7 DEF History

LEMMA CommitHistory ==
  ASSUME RuntimeIInv, RuntimeIInv', Counted, History, NEW op \in ops, Commit(op)
  PROVE  Counted' /\ History'
<1>1. /\ op.timestamp = committed + 1 /\ op.durable /\ committed' = committed + 1
      /\ ops' = ops \ {op}
      /\ UNCHANGED <<log, next, persisted, allocated, pc, loc, appends>>
  BY DEF Commit, memory, counters
<1>2. Types /\ Types' /\ committed \in Nat /\ next \in Nat /\ persisted \in Nat
  BY StateTypes DEF RuntimeIInv
<1>3. Counted'
  <2>1. Preparers' = Preparers
    BY <1>1 DEF Preparers
  <2>2. op.timestamp < next /\ persisted <= committed
    BY DEF History, InFlight, Counted
  <2> QED
    BY <1>1, <1>2, <2>1, <2>2, CountedKept
<1>4. ASSUME NEW q \in Regions, NEW k \in 1 .. Len(log[q]), committed + 1 < log[q][k].timestamp
      PROVE  committed < log[q][k].timestamp /\ log[q][k].timestamp # op.timestamp
  <2>1. log[q][k].timestamp \in Nat
    BY <1>2, <1>4, LogTypes
  <2> QED
    BY <1>1, <1>2, <1>4, <2>1
<1>5. ASSUME NEW q \in Regions PROVE LogTimes(q)' /\ Pending(q)'
  BY <1>1, <1>4 DEF History, LogTimes, Pending
<1>6. ASSUME NEW o \in ops' PROVE InFlight(o)'
  <2>1. InFlight(o) /\ o \in ops /\ o.timestamp # op.timestamp /\ o.timestamp \in Nat
    BY <1>1, <1>2, OpTypes DEF History, Distinct
  <2>2. committed' < o.timestamp
    BY <1>1, <1>2, <2>1 DEF InFlight
  <2> QED
    BY <1>1, <2>1, <2>2 DEF InFlight, Matches
<1>7. ASSUME NEW q \in Regions PROVE WriterOK(q)'
  <2>1. WriterOK(q)
    BY DEF History
  <2>2. ASSUME pc[q] \in Storing
        PROVE  committed' < log[q][Len(log[q])].timestamp
    <3>1. /\ Len(log[q]) > 0 /\ log[q][Len(log[q])].timestamp = loc[q].timestamp
          /\ committed < log[q][Len(log[q])].timestamp
          /\ op.timestamp = loc[q].timestamp => ~op.published
      BY <2>1, <2>2 DEF WriterOK
    <3>2. Len(log[q]) \in 1 .. Len(log[q])
      BY <1>2, <3>1, LogTypes
    <3>3. log[q][Len(log[q])].timestamp \in Nat
      BY <1>2, <3>2, LogTypes
    <3>4. op.published
      BY <1>1 DEF History, InFlight
    <3> QED
      BY <1>1, <1>2, <3>1, <3>3, <3>4
  <2> QED
    BY <1>1, <2>1, <2>2 DEF WriterOK
<1>8. Distinct'
  BY <1>1 DEF History, Distinct
<1> QED
  BY <1>3, <1>5, <1>6, <1>7, <1>8 DEF History

-----------------------------------------------------------------------------
(* Regions come and go; power failures                                     *)

\* Steps that leave the actors, the log and the operations alone.
LEMMA IdleHistory ==
  ASSUME RuntimeIInv, RuntimeIInv', Counted, History,
         UNCHANGED <<log, ops, next, committed, appends, pc, loc>>, allocated \subseteq allocated',
         persisted' \in {persisted, committed}
  PROVE  Counted' /\ History'
<1>1. Types /\ Types'
  BY DEF RuntimeIInv
<1>2. ASSUME NEW q \in Regions PROVE WriterQuiet(q)
  <2>1. WriterOK(q)
    BY DEF History
  <2> QED
    BY <2>1 DEF WriterQuiet, WriterOK
<1>3. History'
  BY <1>1, <1>2, HistoryQuiet
<1>4. Preparers' = Preparers /\ persisted' <= committed'
  BY <1>1, StateTypes DEF Preparers, Counted
<1>5. Counted'
  BY <1>1, <1>4, CountedKept DEF Counted
<1> QED
  BY <1>3, <1>5

LEMMA FreeEffect ==
  ASSUME RuntimeIInv, NEW r \in Regions, Free(r)
  PROVE  /\ r \in allocated /\ pc[r] = "idle" /\ allocated' = allocated \ {r} /\ phase = "running"
         /\ \A op \in ops : op.region # r
         /\ log'[r] = << >> /\ pc'[r] = "remove_runtime"
         /\ \A q \in Regions : q # r => log'[q] = log[q]
         /\ \A b \in Actors : b # r => pc'[b] = pc[b]
         /\ \A b \in Actors : pc'[b] \notin Resting => pc'[b] = pc[b] /\ loc[b].region # r
         /\ UNCHANGED <<cells, maxValid, isRegion, cellsMedium, maxValidMedium, timestamps, runtime,
                        phase, loc, appends>>
<1>1. /\ r \in allocated /\ Unused(r) /\ phase = "running"
      /\ allocated' = allocated \ {r} /\ log' = [log EXCEPT ![r] = << >>]
      /\ pc' = [pc EXCEPT ![r] = "remove_runtime"]
      /\ UNCHANGED <<cells, maxValid, isRegion, cellsMedium, maxValidMedium, timestamps, runtime,
                     phase, loc, appends>>
  BY DEF Free, Goto
<1>2. /\ log \in [Regions -> Seq(Entries)] /\ pc = [b \in Actors |-> pc[b]] /\ r \in Actors
  BY Constants, StateTypes DEF RuntimeIInv
<1>3. /\ log'[r] = << >> /\ pc'[r] = "remove_runtime"
      /\ \A q \in Regions : q # r => log'[q] = log[q]
      /\ \A b \in Actors : b # r => pc'[b] = pc[b]
  BY <1>1, <1>2
<1>4. pc[r] = "idle" /\ \A op \in ops : op.region # r
  BY <1>1 DEF Unused
<1>5. ASSUME NEW b \in Actors, pc'[b] \notin Resting PROVE pc'[b] = pc[b] /\ loc[b].region # r
  <2>1. b # r
    BY <1>3, <1>5 DEF Resting
  <2>2. pc'[b] = pc[b]
    BY <1>3, <2>1
  <2>3. CASE b = Reader
    <3>1. pc[Reader] # "idle"
      BY <1>5, <2>2, <2>3 DEF Resting
    <3> QED
      BY <1>1, <2>2, <2>3, <3>1 DEF Unused
  <2>4. CASE b # Reader
    BY <1>5, <2>1, <2>2, <2>4, Before
  <2> QED
    BY <2>3, <2>4
<1> QED
  BY <1>1, <1>3, <1>4, <1>5

LEMMA FreeHistory ==
  ASSUME RuntimeIInv, RuntimeIInv', Counted, History, NEW r \in Regions, Free(r)
  PROVE  Counted' /\ History'
<1>1. /\ allocated' = allocated \ {r}
      /\ \A op \in ops : op.region # r
      /\ log'[r] = << >> /\ pc'[r] = "remove_runtime"
      /\ \A q \in Regions : q # r => log'[q] = log[q] /\ pc'[q] = pc[q]
      /\ UNCHANGED <<ops, next, committed, persisted, loc, appends>>
  BY FreeEffect, Constants DEF timestamps
<1>2. Types /\ Types'
  BY DEF RuntimeIInv
<1>3. "remove_runtime" \notin Preparing /\ "remove_runtime" \notin Storing
  BY LabelSets
<1>4. Preparers' \subseteq Preparers
  BY <1>1, <1>3 DEF Preparers
<1>5. Counted'
  BY <1>1, <1>2, <1>4, CountedKept DEF Counted
<1>6. Len(log'[r]) = 0 /\ \A k \in 1 .. 0 : FALSE
  BY <1>1
<1>7. ASSUME NEW q \in Regions PROVE LogTimes(q)' /\ Pending(q)' /\ WriterOK(q)'
  <2>1. LogTimes(q) /\ Pending(q) /\ WriterOK(q)
    BY DEF History
  <2>2. CASE q = r
    <3>1. LogTimes(q)' /\ Pending(q)'
      BY <1>1, <1>6, <2>2 DEF LogTimes, Pending
    <3> QED
      BY <1>1, <1>3, <2>2, <3>1 DEF WriterOK
  <2>3. CASE q # r
    BY <1>1, <2>1, <2>3 DEF LogTimes, Pending, WriterOK
  <2> QED
    BY <2>2, <2>3
<1>8. ASSUME NEW op \in ops' PROVE InFlight(op)'
  <2>1. InFlight(op) /\ op.region # r /\ op.region \in Regions
    BY <1>1, <1>2, OpTypes DEF History
  <2> QED
    BY <1>1, <2>1 DEF InFlight
<1> QED
  BY <1>1, <1>5, <1>7, <1>8 DEF History, Distinct

LEMMA RemoveRuntimeEffect ==
  ASSUME RuntimeIInv, NEW r \in Regions, RemoveRuntime(r)
  PROVE  /\ pc[r] = "remove_runtime" /\ r \notin allocated
         /\ pc' = [pc EXCEPT ![r] = "idle"] /\ pc'[r] = "idle"
         /\ \A b \in Actors : b # r => pc'[b] = pc[b]
         /\ \A q \in allocated : runtimeOf'[q] = runtimeOf[q]
         /\ \A q \in allocated : runtimeOf[q] # Nobody =>
              /\ state'[runtimeOf[q]] = state[runtimeOf[q]]
              /\ appendOffset'[runtimeOf[q]] = appendOffset[runtimeOf[q]]
         /\ UNCHANGED <<memory, timestamps, lock, phase, loc, log, counters>>
<1>1. /\ pc[r] = "remove_runtime" /\ pc' = [pc EXCEPT ![r] = "idle"]
      /\ runtimeOf' = [runtimeOf EXCEPT ![r] = Nobody]
      /\ state' = [o \in Runtimes |-> IF o = runtimeOf[r] THEN "none" ELSE state[o]]
      /\ appendOffset' = [o \in Runtimes |-> IF o = runtimeOf[r] THEN NoOffset ELSE appendOffset[o]]
      /\ UNCHANGED <<memory, timestamps, lock, phase, loc, log, counters>>
  BY DEF RemoveRuntime, Goto
<1>2. /\ r \in Actors /\ pc = [b \in Actors |-> pc[b]] /\ allocated \in SUBSET Regions
      /\ runtimeOf \in [Regions -> Runtimes \union {Nobody}] /\ Mapped
  BY Constants, StateTypes DEF RuntimeIInv, RuntimeInv, Types, RuntimeTypes
<1>3. r \notin allocated
  BY <1>1, <1>2, Before DEF ActorOK, Placed
<1>4. pc'[r] = "idle" /\ \A b \in Actors : b # r => pc'[b] = pc[b]
  BY <1>1, <1>2
<1>5. ASSUME NEW q \in allocated, runtimeOf[q] # Nobody
      PROVE  runtimeOf[q] \in Runtimes /\ runtimeOf[q] # runtimeOf[r]
  <2>1. q \in Regions /\ q # r
    BY <1>2, <1>3
  <2>2. runtimeOf[q] \in Runtimes /\ runtimeOf[q][2] = q
    BY <1>2, <1>5, <2>1 DEF Mapped
  <2>3. runtimeOf[r] # Nobody => runtimeOf[r][2] = r
    BY <1>2 DEF Mapped
  <2> QED
    BY <1>5, <2>1, <2>2, <2>3
<1>6. \A q \in allocated : q \in Regions /\ q # r
  BY <1>2, <1>3
<1>7. \A q \in allocated : runtimeOf'[q] = runtimeOf[q]
  BY <1>1, <1>2, <1>6
<1>8. ASSUME NEW q \in allocated, runtimeOf[q] # Nobody
      PROVE  /\ state'[runtimeOf[q]] = state[runtimeOf[q]]
             /\ appendOffset'[runtimeOf[q]] = appendOffset[runtimeOf[q]]
  BY <1>1, <1>5, <1>8
<1> QED
  BY <1>1, <1>3, <1>4, <1>7, <1>8

LEMMA RemoveRuntimeHistory ==
  ASSUME RuntimeIInv, RuntimeIInv', Counted, History, NEW r \in Regions, RemoveRuntime(r)
  PROVE  Counted' /\ History'
<1>1. /\ pc[r] = "remove_runtime" /\ pc' = [pc EXCEPT ![r] = "idle"]
      /\ UNCHANGED <<log, ops, next, committed, persisted, allocated, appends>> /\ loc' = loc
  BY RemoveRuntimeEffect DEF memory, timestamps, counters
<1>2. r \in Actors /\ loc[r] \in Locals /\ loc = [loc EXCEPT ![r] = loc[r]] /\ Types /\ Types'
  BY Constants, Before DEF RuntimeIInv
<1>3. "idle" \in Resting /\ "idle" \notin Preparing /\ pc[r] \notin Storing
  BY <1>1, LabelSets DEF Resting
<1>4. Quiet(r, "idle", loc[r])
  BY <1>1, <1>2, <1>3 DEF Quiet
<1>5. QuietStep
  BY <1>2, <1>4 DEF QuietStep
<1> QED
  BY <1>1, <1>2, <1>5, QuietKeeps

\* Where Upto cuts a log: behind the last entry that is not too young.
LEMMA UptoCut ==
  ASSUME NEW s \in Seq(Entries), NEW n \in Nat,
         \A j, k \in 1 .. Len(s) : j < k => s[j].timestamp < s[k].timestamp
  PROVE  \E m \in 0 .. Len(s) :
           /\ Upto(s, n) = SubSeq(s, 1, m) /\ Len(Upto(s, n)) = m
           /\ \A i \in 1 .. m : Upto(s, n)[i] = s[i]
           /\ \A k \in 1 .. Len(s) : s[k].timestamp <= n <=> k <= m
<1> DEFINE K == {k \in DOMAIN s : s[k].timestamp <= n}
           T == {x \in Nat : x > Len(s) \/ (x >= 1 /\ s[x].timestamp > n)}
<1>1. Len(s) \in Nat /\ DOMAIN s = 1 .. Len(s)
  OBVIOUS
<1>2. \A k \in 1 .. Len(s) : s[k].timestamp \in Nat
  <2>1. \A k \in 1 .. Len(s) : s[k] \in Entries
    OBVIOUS
  <2> QED
    BY <2>1 DEF Entries
<1>3. T \in SUBSET Nat /\ T # {}
  <2>1. Len(s) + 1 \in T
    BY <1>1
  <2> QED
    BY <2>1
<1>4. PICK x \in T : \A y \in T : ~(<<y, x>> \in OpToRel(<, Nat))
  <2> HIDE DEF T
  <2> QED
    BY <1>3, NatLessThanWellFounded, WFMin
<1>40. x \in Nat /\ (x > Len(s) \/ (x >= 1 /\ s[x].timestamp > n))
  OBVIOUS
<1>5. x \in Nat /\ x >= 1 /\ \A y \in 1 .. Len(s) : y < x => s[y].timestamp <= n
  <2>1. x \in Nat /\ x >= 1
    BY <1>1, <1>40
  <2>2. ASSUME NEW y \in 1 .. Len(s), y < x PROVE s[y].timestamp <= n
    <3>1. y \in Nat /\ y >= 1
      BY <1>1
    <3>2. y \notin T
      <4> HIDE DEF T
      <4>1. <<y, x>> \in OpToRel(<, Nat)
        BY <2>1, <2>2, <3>1 DEF OpToRel
      <4> QED
        BY <1>4, <4>1
    <3> QED
      BY <1>2, <3>1, <3>2
  <2> QED
    BY <2>1, <2>2
<1>6. \A y \in 1 .. Len(s) : y >= x => s[y].timestamp > n
  <2> SUFFICES ASSUME NEW y \in 1 .. Len(s), y >= x PROVE s[y].timestamp > n
    OBVIOUS
  <2>1. x \in 1 .. Len(s) /\ s[x].timestamp > n
    BY <1>1, <1>40, <1>5
  <2>2. s[x].timestamp \in Nat /\ s[y].timestamp \in Nat
    BY <1>2, <2>1
  <2>3. y # x => s[x].timestamp < s[y].timestamp
    BY <1>1, <2>1
  <2> QED
    BY <2>1, <2>2, <2>3
<1> DEFINE m == IF x > Len(s) THEN Len(s) ELSE x - 1
<1>7. m \in 0 .. Len(s) /\ \A k \in 1 .. Len(s) : s[k].timestamp <= n <=> k <= m
  <2>1. m \in 0 .. Len(s) /\ \A k \in 1 .. Len(s) : k <= m <=> k < x
    BY <1>1, <1>5
  <2> HIDE DEF m, T
  <2>2. ASSUME NEW k \in 1 .. Len(s) PROVE s[k].timestamp <= n <=> k < x
    <3>1. k \in Nat /\ s[k].timestamp \in Nat
      BY <1>2
    <3>2. CASE k < x
      BY <1>5, <3>2
    <3>3. CASE ~(k < x)
      BY <1>5, <1>6, <3>1, <3>3
    <3> QED
      BY <3>2, <3>3
  <2> QED
    BY <2>1, <2>2
<1> HIDE DEF m, T
<1>8. K = 1 .. m
  BY <1>1, <1>7
<1>9. Cardinality(K) = m
  <2>1. m \in Int /\ 1 \in Int
    BY <1>1, <1>7
  <2>2. Cardinality(1 .. m) = IF 1 > m THEN 0 ELSE m - 1 + 1
    BY <2>1, FS_Interval
  <2> HIDE DEF K
  <2> QED
    BY <1>1, <1>7, <1>8, <2>2
<1>10. Upto(s, n) = SubSeq(s, 1, m)
  BY <1>9 DEF Upto
<1>11. /\ Len(SubSeq(s, 1, m)) = m /\ \A i \in 1 .. m : SubSeq(s, 1, m)[i] = s[i]
  BY <1>7
<1> QED
  BY <1>7, <1>10, <1>11

LEMMA CrashHistory ==
  ASSUME RuntimeIInv, RuntimeIInv', Counted, History, Crash
  PROVE  Counted' /\ History'
<1>1. /\ next' = persisted + 1 /\ committed' = persisted /\ ops' = {}
      /\ pc' = [a \in Actors |-> "idle"] /\ log' = [r \in Regions |-> Upto(log[r], persisted)]
      /\ UNCHANGED <<allocated, persisted, appends>>
  BY DEF Crash
<1>2. Types /\ Types' /\ persisted \in Nat /\ Regions \subseteq Actors /\ next \in Nat
      /\ committed \in Nat
  BY StateTypes DEF RuntimeIInv
<1>3. \A r \in Regions : pc'[r] \notin Preparing /\ pc'[r] \notin Storing
  BY <1>1, <1>2, LabelSets DEF Resting
<1>4. Counted'
  <2>1. Preparers' = {}
    BY <1>3 DEF Preparers
  <2>2. Cardinality(Preparers') = 0
    BY <2>1, FS_EmptySet
  <2>3. /\ next + Cardinality(Preparers) <= appends + 1 /\ appends <= MaxAppends
        /\ persisted <= committed /\ committed < next
    BY DEF Counted
  <2>4. Cardinality(Preparers) \in Nat /\ appends \in Nat
    BY <1>2, PreparersFinite, StateTypes
  <2>5. next' + 0 <= appends' + 1
    BY <1>1, <1>2, <2>3, <2>4
  <2>6. committed' < next' /\ persisted' <= committed'
    BY <1>1, <1>2
  <2> QED
    BY <1>1, <2>2, <2>3, <2>5, <2>6 DEF Counted
<1>5. ASSUME NEW r \in Regions PROVE LogTimes(r)' /\ Pending(r)' /\ WriterOK(r)'
  <2>1. LogTimes(r) /\ log[r] \in Seq(Entries)
    BY <1>2, LogTypes DEF History
  <2>2. \A j, k \in 1 .. Len(log[r]) : j < k => log[r][j].timestamp < log[r][k].timestamp
    BY <2>1 DEF LogTimes
  <2>3. PICK m \in 0 .. Len(log[r]) :
          /\ Len(log'[r]) = m /\ \A i \in 1 .. m : log'[r][i] = log[r][i]
          /\ \A k \in 1 .. Len(log[r]) : log[r][k].timestamp <= persisted <=> k <= m
    <3>1. log'[r] = Upto(log[r], persisted)
      BY <1>1
    <3>2. \E m \in 0 .. Len(log[r]) :
            /\ Upto(log[r], persisted) = SubSeq(log[r], 1, m) /\ Len(Upto(log[r], persisted)) = m
            /\ \A i \in 1 .. m : Upto(log[r], persisted)[i] = log[r][i]
            /\ \A k \in 1 .. Len(log[r]) : log[r][k].timestamp <= persisted <=> k <= m
      BY <1>2, <2>1, <2>2, UptoCut
    <3> QED
      BY <3>1, <3>2
  <2>4. ASSUME NEW k \in 1 .. Len(log'[r])
        PROVE  /\ k \in 1 .. Len(log[r]) /\ log'[r][k] = log[r][k]
               /\ log'[r][k].timestamp <= persisted /\ 0 < log'[r][k].timestamp
               /\ log'[r][k].timestamp \in Nat
    <3>1. k \in 1 .. m /\ k \in 1 .. Len(log[r]) /\ k <= m
      BY <2>1, <2>3
    <3>2. log'[r][k] = log[r][k] /\ log[r][k].timestamp <= persisted
      BY <2>3, <3>1
    <3>3. 0 < log[r][k].timestamp /\ log[r][k].timestamp \in Nat
      BY <1>2, <2>1, <3>1, LogTypes DEF LogTimes
    <3> QED
      BY <3>1, <3>2, <3>3
  <2>5. \A k \in 1 .. Len(log'[r]) : log'[r][k].timestamp < next'
    BY <1>1, <1>2, <2>4
  <2>6. \A j, k \in 1 .. Len(log'[r]) : j < k => log'[r][j].timestamp < log'[r][k].timestamp
    BY <2>2, <2>4
  <2>7. r \notin allocated => log'[r] = << >>
    <3> SUFFICES ASSUME r \notin allocated PROVE log'[r] = << >>
      OBVIOUS
    <3>1. Len(log[r]) = 0
      BY <2>1 DEF LogTimes
    <3>2. Len(log'[r]) = 0
      BY <2>3, <3>1
    <3>3. log'[r] \in Seq(Entries)
      BY <1>2 DEF Types, ActorTypes
    <3> QED
      BY <3>2, <3>3
  <2>8. LogTimes(r)'
    BY <1>1, <2>4, <2>5, <2>6, <2>7 DEF LogTimes
  <2>9. Pending(r)'
    <3>1. \A k \in 1 .. Len(log'[r]) : ~(committed' < log'[r][k].timestamp)
      BY <1>1, <1>2, <2>4
    <3> QED
      BY <3>1 DEF Pending
  <2> QED
    BY <1>3, <2>8, <2>9 DEF WriterOK
<1> QED
  BY <1>1, <1>4, <1>5 DEF History, Distinct

-----------------------------------------------------------------------------
(* Marks is kept                                                           *)

\* No actor gets to the last step of a recovery.
NoneGetsReady ==
  \A b \in Actors : pc'[b] = "write_ready" => pc[b] = "write_ready" /\ loc'[b] = loc[b]

LEMMA Elsewhere ==
  ASSUME Types, NEW a \in Actors, NEW l, NEW x, l # "write_ready",
         pc' = [pc EXCEPT ![a] = l], loc' = [loc EXCEPT ![a] = x]
  PROVE  NoneGetsReady
<1>1. \A b \in Actors : b # a => pc'[b] = pc[b] /\ loc'[b] = loc[b]
  BY StateTypes
<1>2. pc'[a] = l
  BY StateTypes
<1> QED
  BY <1>1, <1>2 DEF NoneGetsReady

\* The same of a step that leaves the locals of the actor alone.
LEMMA ElsewhereJust ==
  ASSUME RuntimeIInv, NEW a \in Actors, NEW l, l # "write_ready",
         pc' = [pc EXCEPT ![a] = l], loc' = loc
  PROVE  NoneGetsReady
<1>1. loc' = [loc EXCEPT ![a] = loc[a]]
  BY Before
<1> QED
  BY <1>1, Elsewhere DEF RuntimeIInv

LEMMA AfterRecoveryElsewhere ==
  ASSUME RuntimeIInv, NEW a \in Actors, AfterRecovery(a)
  PROVE  NoneGetsReady
<1>1. Types
  BY DEF RuntimeIInv
<1>2. CASE a # Reader /\ Goto(a, "reserve") /\ UNCHANGED loc
  BY <1>2, ElsewhereJust DEF Goto
<1>3. CASE a = Reader /\ Goto(a, "idle") /\ loc' = [loc EXCEPT ![a] = NoLocals]
  BY <1>1, <1>3, Elsewhere DEF Goto
<1>4. CASE a = Reader /\ loc[a].offset # 0 /\ Goto(a, "load_committed") /\ UNCHANGED loc
  BY <1>4, ElsewhereJust DEF Goto
<1> QED
  BY <1>2, <1>3, <1>4 DEF AfterRecovery

LEMMA ActorElsewhere ==
  ASSUME RuntimeIInv, NEW a \in Actors,
         GetOrCreate(a) \/ Initialize(a) \/ Lock(a) \/ RecheckState(a)
  PROVE  NoneGetsReady
<1>1. Types
  BY DEF RuntimeIInv
<1>2. ASSUME NEW l, l # "write_ready", Goto(a, l), loc' = loc PROVE NoneGetsReady
  BY <1>2, ElsewhereJust DEF Goto
<1>3. ASSUME NEW o, HaveRuntime(a, o) PROVE NoneGetsReady
  <2> DEFINE l == IF a = Reader THEN "load_committed" ELSE "initialize"
             x == [loc[a] EXCEPT !.runtime = o]
  <2>1. pc' = [pc EXCEPT ![a] = l] /\ loc' = [loc EXCEPT ![a] = x] /\ l # "write_ready"
    BY <1>3 DEF HaveRuntime, Goto
  <2> HIDE DEF l, x
  <2> QED
    BY <1>1, <2>1, Elsewhere
<1>4. CASE CreateFails(a)
  <2>1. pc' = [pc EXCEPT ![a] = "idle"] /\ loc' = [loc EXCEPT ![a] = NoLocals]
    BY <1>4 DEF CreateFails, Goto
  <2> QED
    BY <1>1, <2>1, Elsewhere
<1>5. CASE GetOrCreate(a)
  BY <1>2, <1>3, <1>4, <1>5 DEF GetOrCreate, LookUp, Create
<1>6. CASE Initialize(a)
  BY <1>2, <1>6, AfterRecoveryElsewhere DEF Initialize
<1>7. CASE Lock(a)
  BY <1>2, <1>7 DEF Lock
<1>8. CASE RecheckState(a)
  BY <1>2, <1>8, AfterRecoveryElsewhere DEF RecheckState
<1> QED
  BY <1>5, <1>6, <1>7, <1>8

LEMMA WriterElsewhere ==
  ASSUME RuntimeIInv, NEW r \in Regions,
         AppendBegin(r) \/ Write(r) \/ RemoveRuntime(r) \/ Free(r)
  PROVE  NoneGetsReady
<1>1. Types /\ r \in Actors
  BY Constants DEF RuntimeIInv
<1>2. ASSUME NEW l, l # "write_ready", Goto(r, l), loc' = loc PROVE NoneGetsReady
  BY <1>1, <1>2, ElsewhereJust DEF Goto
<1>3. ASSUME NEW l, NEW x, l # "write_ready", Goto(r, l), loc' = [loc EXCEPT ![r] = x]
      PROVE NoneGetsReady
  BY <1>1, <1>3, Elsewhere DEF Goto
<1>4. CASE AppendBegin(r)
  BY <1>3, <1>4 DEF AppendBegin
<1>5. CASE Reserve(r)
  <2>1. CASE loc' = [loc EXCEPT ![r].offset = appendOffset[loc[r].runtime]] /\ Goto(r, "acquire")
    <3>1. loc' = [loc EXCEPT ![r] = [loc[r] EXCEPT !.offset = appendOffset[loc[r].runtime]]]
      BY <2>1
    <3> QED
      BY <1>3, <2>1, <3>1
  <2> QED
    BY <1>3, <1>5, <2>1 DEF Reserve
<1>6. CASE AcquireTimestamp(r)
  <2>1. loc' = [loc EXCEPT ![r] = [loc[r] EXCEPT !.timestamp = next]] /\ Goto(r, "clear_next")
    BY <1>6 DEF AcquireTimestamp
  <2> QED
    BY <1>3, <2>1
<1>7. CASE ClearNext(r) \/ StoreTimestamp(r) \/ StoreSpan(r)
  BY <1>2, <1>7 DEF ClearNext, StoreTimestamp, StoreSpan, StoreHeader
<1>8. CASE Publish(r)
  BY <1>3, <1>8 DEF Publish
<1>9. CASE RemoveRuntime(r) \/ Free(r)
  BY <1>2, <1>9 DEF RemoveRuntime, Free
<1> QED
  BY <1>4, <1>5, <1>6, <1>7, <1>8, <1>9 DEF Write

LEMMA ReadElsewhere ==
  ASSUME RuntimeIInv, Read
  PROVE  NoneGetsReady
<1>1. Reader \in Actors /\ Types
  BY Constants DEF RuntimeIInv
<1>2. ASSUME NEW l, l # "write_ready", Goto(Reader, l), loc' = loc PROVE NoneGetsReady
  BY <1>1, <1>2, ElsewhereJust DEF Goto
<1>3. ASSUME NEW l, NEW x, l # "write_ready", Goto(Reader, l), loc' = [loc EXCEPT ![Reader] = x]
      PROVE NoneGetsReady
  BY <1>1, <1>3, Elsewhere DEF Goto
<1>4. CASE ReadBegin
  BY <1>3, <1>4 DEF ReadBegin
<1>5. CASE LoadCommitted
  BY <1>2, <1>3, <1>5 DEF LoadCommitted
<1>6. CASE LoadMaxValid
  BY <1>3, <1>6 DEF LoadMaxValid
<1>7. CASE LoadSpan
  BY <1>3, <1>7 DEF LoadSpan
<1>8. CASE LoadTimestamp
  BY <1>2, <1>3, <1>8 DEF LoadTimestamp
<1> QED
  BY <1>4, <1>5, <1>6, <1>7, <1>8 DEF Read

\* Steps that change neither max_valid_timestamp nor a log.
LEMMA MarksQuiet ==
  ASSUME Types, Types', Marks, UNCHANGED <<maxValid, maxValidMedium, allocated, log, phase>>,
         committed <= committed', persisted <= persisted',
         phase = "opening" => UNCHANGED <<next, committed, persisted>>,
         \A r \in allocated : NotReady(r)' <=> NotReady(r),
         NoneGetsReady
  PROVE  Marks'
<1>1. ASSUME NEW r \in allocated PROVE Marked(r)'
  <2>1. Marked(r) /\ r \in Regions
    BY StateTypes DEF Marks
  <2>2. /\ \A mv \in maxValidMedium[r] : mv \in Nat
        /\ \A k \in 1 .. Len(log[r]) : log[r][k].timestamp \in Nat
        /\ committed \in Nat /\ committed' \in Nat /\ persisted \in Nat /\ persisted' \in Nat
    <3>1. \A k \in 1 .. Len(log[r]) : log[r][k].timestamp \in Nat
      BY <2>1, LogTypes
    <3>2. maxValidMedium[r] \in SUBSET Nat
      BY <2>1, StateTypes
    <3>3. committed \in Nat /\ committed' \in Nat /\ persisted \in Nat /\ persisted' \in Nat
      BY DEF Types, TimestampTypes
    <3> QED
      BY <3>1, <3>2, <3>3
  <2>3. \A mv \in maxValidMedium[r] : mv <= persisted => mv <= persisted'
    BY <2>2
  <2>4. \A k \in 1 .. Len(log[r]) : log[r][k].timestamp <= committed => log[r][k].timestamp <= committed'
    BY <2>2
  <2> QED
    BY <2>1, <2>3, <2>4 DEF Marked
<1>2. ASSUME NEW a \in Actors, pc'[a] = "write_ready" PROVE maxValid'[loc'[a].region] = Forever
  BY <1>2 DEF Marks, NoneGetsReady
<1> QED
  BY <1>1, <1>2 DEF Marks

\* Which regions are ready is left alone.
LEMMA ReadyUnchanged ==
  ASSUME UNCHANGED <<runtimeOf, state>>
  PROVE  \A r \in allocated : NotReady(r)' <=> NotReady(r)
  BY DEF NotReady

LEMMA CreateReady ==
  ASSUME RuntimeIInv, NEW a \in Actors, Create(a)
  PROVE  \A r \in allocated : NotReady(r)' <=> NotReady(r)
<1> DEFINE q == loc[a].region
           o == <<a, q>>
<1>1. /\ q \in Regions /\ o \in Runtimes /\ allocated \in SUBSET Regions
      /\ runtimeOf \in [Regions -> Runtimes \union {Nobody}]
      /\ state = [p \in Runtimes |-> state[p]] /\ Mapped /\ Nobody \notin Runtimes
  <2>1. pc[a] \notin Resting
    BY DEF Create, Resting
  <2>2. q \in Regions
    BY <2>1, Before
  <2> QED
    BY <2>2, StateTypes, Constants
    DEF RuntimeIInv, RuntimeInv, Types, RuntimeTypes, RegionTypes, Runtimes
<1>2. CASE /\ runtimeOf[q] = Nobody /\ runtimeOf' = [runtimeOf EXCEPT ![q] = o]
           /\ state' = [state EXCEPT ![o] = "read_ready"]
  <2> SUFFICES ASSUME NEW r \in allocated PROVE NotReady(r)' <=> NotReady(r)
    OBVIOUS
  <2>1. CASE r = q
    <3>1. runtimeOf'[q] = o /\ state'[o] = "read_ready"
      BY <1>1, <1>2
    <3> QED
      BY <1>2, <2>1, <3>1 DEF NotReady
  <2>2. CASE r # q
    <3>1. runtimeOf'[r] = runtimeOf[r] /\ r \in Regions
      BY <1>1, <1>2, <2>2
    <3>2. runtimeOf[r] # Nobody => runtimeOf[r] \in Runtimes /\ runtimeOf[r][2] = r
      BY <1>1, <3>1 DEF Mapped
    <3>3. o[2] # r
      BY <2>2
    <3>4. runtimeOf[r] # Nobody => state'[runtimeOf[r]] = state[runtimeOf[r]]
      BY <1>1, <1>2, <3>2, <3>3
    <3> QED
      BY <3>1, <3>4 DEF NotReady
  <2> QED
    BY <2>1, <2>2
<1>3. CASE UNCHANGED <<runtimeOf, state>>
  BY <1>3, ReadyUnchanged
<1> QED
  BY <1>2, <1>3 DEF Create

LEMMA QuietMarks ==
  ASSUME HistoryIInv, RuntimeIInv', NEW a \in Actors,
         GetOrCreate(a) \/ Initialize(a) \/ Lock(a) \/ RecheckState(a)
  PROVE  Marks'
<1>1. NoneGetsReady
  BY ActorElsewhere DEF HistoryIInv
<1>2. /\ UNCHANGED <<maxValid, maxValidMedium, allocated, log, phase, next, committed, persisted>>
      /\ Create(a) \/ UNCHANGED <<runtimeOf, state>>
  BY DEF GetOrCreate, LookUp, Create, CreateFails, Initialize, Lock, RecheckState, memory,
         timestamps, runtime
<1>3. \A r \in allocated : NotReady(r)' <=> NotReady(r)
  BY <1>2, CreateReady, ReadyUnchanged DEF HistoryIInv
<1>4. Types /\ Types' /\ Marks /\ committed <= committed' /\ persisted <= persisted'
  BY <1>2, StateTypes DEF HistoryIInv, RuntimeIInv
<1> QED
  BY <1>1, <1>2, <1>3, <1>4, MarksQuiet

\* The steps of a writer that take no timestamp, and all of the iterator.
LEMMA WriterMarks ==
  ASSUME HistoryIInv, RuntimeIInv', NEW r,
         \/ /\ r \in Regions
            /\ \/ AppendBegin(r) \/ Reserve(r) \/ ClearNext(r) \/ StoreTimestamp(r)
               \/ StoreSpan(r) \/ Publish(r)
         \/ Read
  PROVE  Marks'
<1>1. NoneGetsReady
  BY WriterElsewhere, ReadElsewhere DEF HistoryIInv, Write
<1>2. UNCHANGED <<maxValid, maxValidMedium, allocated, log, phase, next, committed, persisted,
                  runtimeOf, state>>
  BY DEF AppendBegin, Reserve, ClearNext, StoreTimestamp, StoreSpan, StoreHeader, Publish, Read,
         ReadBegin, LoadCommitted, LoadMaxValid, LoadSpan, LoadTimestamp, memory, timestamps, runtime
<1>3. Types /\ Types' /\ Marks /\ committed <= committed' /\ persisted <= persisted'
  BY <1>2, StateTypes DEF HistoryIInv, RuntimeIInv
<1> QED
  BY <1>1, <1>2, <1>3, MarksQuiet, ReadyUnchanged

LEMMA RemoveRuntimeMarks ==
  ASSUME HistoryIInv, RuntimeIInv', NEW r \in Regions, RemoveRuntime(r)
  PROVE  Marks'
<1>1. NoneGetsReady /\ RuntimeIInv
  BY WriterElsewhere DEF HistoryIInv
<1>2. /\ UNCHANGED <<maxValid, maxValidMedium, allocated, log, phase, next, committed, persisted>>
      /\ \A q \in allocated : runtimeOf'[q] = runtimeOf[q]
      /\ \A q \in allocated : runtimeOf[q] # Nobody => state'[runtimeOf[q]] = state[runtimeOf[q]]
  BY <1>1, RemoveRuntimeEffect DEF memory, timestamps
<1>3. \A q \in allocated : NotReady(q)' <=> NotReady(q)
  BY <1>2 DEF NotReady
<1>4. Types /\ Types' /\ Marks /\ committed <= committed' /\ persisted <= persisted'
  BY <1>2, StateTypes DEF HistoryIInv, RuntimeIInv
<1> QED
  BY <1>1, <1>2, <1>3, <1>4, MarksQuiet

\* The data mover and the commit pipeline.
LEMMA PipelineMarks ==
  ASSUME HistoryIInv, RuntimeIInv', NEW op,
         \/ op \in ops /\ (CopyDone(op) \/ ProcessOp(op) \/ Commit(op))
         \/ RecordPersisted
  PROVE  Marks'
<1>1. UNCHANGED <<maxValid, maxValidMedium, allocated, log, phase, next, runtimeOf, state, pc, loc>>
  BY DEF CopyDone, ProcessOp, Commit, RecordPersisted, memory, runtime
<1>2. NoneGetsReady
  BY <1>1 DEF NoneGetsReady
<1>3. Types /\ Types' /\ Marks /\ committed \in Nat /\ persisted \in Nat
  BY StateTypes DEF HistoryIInv, RuntimeIInv
<1>4. committed <= committed' /\ persisted <= persisted'
  BY <1>3, StateTypes DEF CopyDone, ProcessOp, Commit, RecordPersisted, memory, runtime
<1>5. phase = "opening" => UNCHANGED <<committed, persisted>>
  <2>1. phase = "opening" => ops = {}
    BY DEF HistoryIInv, RuntimeIInv, RuntimeInv, OpsOfUsed
  <2> QED
    BY <2>1 DEF RecordPersisted
<1> QED
  BY <1>1, <1>2, <1>3, <1>4, <1>5, MarksQuiet, ReadyUnchanged

\* What an actor that holds region_lock, or a writer, knows of its region.
LEMMA OfTheActor ==
  ASSUME RuntimeIInv, NEW a \in Actors
  PROVE  /\ pc[a] \in Locked =>
              /\ loc[a].region \in allocated /\ loc[a].region \in Regions /\ phase = "running"
              /\ loc[a].runtime \in Runtimes /\ runtimeOf[loc[a].region] = loc[a].runtime
              /\ loc[a].runtime[2] = loc[a].region
         /\ pc[a] \in {"set_max_valid", "write_ready"} => NotReady(loc[a].region)
         /\ pc[a] \in Writing => ~NotReady(loc[a].region) /\ loc[a].region = a /\ a \in allocated
<1>1. ASSUME pc[a] \in Locked
      PROVE  /\ loc[a].region \in allocated /\ loc[a].region \in Regions /\ phase = "running"
             /\ loc[a].runtime \in Runtimes /\ runtimeOf[loc[a].region] = loc[a].runtime
             /\ loc[a].runtime[2] = loc[a].region
  <2>1. pc[a] \in HasRuntime /\ pc[a] \notin Resting /\ pc[a] # "idle"
    BY <1>1 DEF HasRuntime, Locked, Resting
  <2>2. phase = "opening" => pc[a] = "idle"
    BY Before DEF ActorOK
  <2>3. phase \in {"opening", "running"}
    BY DEF RuntimeIInv, Types, ActorTypes
  <2> QED
    BY <2>1, <2>2, <2>3, Before
<1>2. ASSUME pc[a] \in {"set_max_valid", "write_ready"} PROVE NotReady(loc[a].region)
  <2>1. pc[a] \in Locked
    BY <1>2 DEF Locked
  <2>2. state[loc[a].runtime] = "read_ready"
    BY <1>2, Before DEF ActorOK, Ready
  <2> QED
    BY <1>1, <2>1, <2>2 DEF NotReady
<1>3. ASSUME pc[a] \in Writing
      PROVE  ~NotReady(loc[a].region) /\ loc[a].region = a /\ a \in allocated
  <2>1. pc[a] \in HasRuntime /\ pc[a] \notin Resting
    BY <1>3 DEF HasRuntime, Writing, Storing, Resting
  <2>2. state[loc[a].runtime] = "write_ready"
    BY <1>3, Before DEF ActorOK, Ready
  <2>3. a # Reader
    <3>1. pc[a] \notin ReaderLabels
      BY <1>3 DEF Writing, Storing, ReaderLabels, Searching, Recovering, Locked, Checking
    <3> QED
      BY <3>1, Before DEF ActorOK, Placed
  <2>4. /\ loc[a].runtime = runtimeOf[loc[a].region] /\ loc[a].runtime # Nobody
        /\ loc[a].region = a /\ loc[a].region \in allocated
    BY <2>1, <2>3, Before
  <2> QED
    BY <2>2, <2>4 DEF NotReady
<1> QED
  BY <1>1, <1>2, <1>3

LEMMA AcquireMarks ==
  ASSUME HistoryIInv, RuntimeIInv', NEW r \in Regions, AcquireTimestamp(r)
  PROVE  Marks'
<1>1. RuntimeIInv /\ Marks /\ Types /\ r \in Actors
  BY Constants DEF HistoryIInv, RuntimeIInv
<1>2. /\ pc[r] = "acquire" /\ \A q \in Regions : q # r => log'[q] = log[q]
      /\ UNCHANGED <<maxValid, maxValidMedium, allocated, committed, persisted, runtimeOf, state,
                     phase>>
  BY <1>1, AcquireEffect DEF memory, runtime
<1>3. NoneGetsReady
  BY <1>1, WriterElsewhere DEF Write
<1>4. ~NotReady(r) /\ phase # "opening"
  <2>1. pc[r] \in Writing
    BY <1>2 DEF Writing
  <2>2. phase # "opening"
    BY <1>1, <1>2, Before DEF ActorOK
  <2> QED
    BY <1>1, <2>1, <2>2, OfTheActor, Before
<1>5. \A q \in allocated : NotReady(q)' <=> NotReady(q)
  BY <1>2, ReadyUnchanged
<1>6. ASSUME NEW q \in allocated PROVE Marked(q)'
  <2>1. Marked(q) /\ q \in Regions
    BY <1>1, StateTypes DEF Marks
  <2>2. CASE q = r
    <3>1. maxValidMedium[q] = {Forever}
      BY <1>4, <2>1, <2>2 DEF Marked
    <3> QED
      BY <1>2, <1>4, <1>5, <2>1, <2>2, <3>1 DEF Marked
  <2>3. CASE q # r
    <3>1. log'[q] = log[q]
      BY <1>2, <2>1, <2>3
    <3> QED
      BY <1>2, <1>5, <2>1, <3>1 DEF Marked
  <2> QED
    BY <2>2, <2>3
<1>7. \A a \in Actors : pc'[a] = "write_ready" => maxValid'[loc'[a].region] = Forever
  BY <1>1, <1>2, <1>3 DEF Marks, NoneGetsReady
<1> QED
  BY <1>2, <1>4, <1>6, <1>7 DEF Marks

LEMMA SetMaxValidMarks ==
  ASSUME HistoryIInv, RuntimeIInv', NEW a \in Actors, SetMaxValid(a)
  PROVE  Marks'
<1> DEFINE r == loc[a].region
<1>1. RuntimeIInv /\ Marks /\ Types
  BY DEF HistoryIInv, RuntimeIInv
<1>2. /\ pc[a] = "set_max_valid" /\ pc' = [pc EXCEPT ![a] = "write_ready"]
      /\ maxValid' = [maxValid EXCEPT ![r] = Forever]
      /\ maxValidMedium' = [maxValidMedium EXCEPT ![r] = @ \union {Forever}]
      /\ UNCHANGED <<allocated, next, committed, persisted, runtimeOf, state, phase, log, loc>>
  BY DEF SetMaxValid, Goto, timestamps, runtime
<1>3. r \in allocated /\ r \in Regions /\ phase = "running" /\ NotReady(r)
  <2>1. pc[a] \in Locked
    BY <1>2 DEF Locked
  <2> QED
    BY <1>1, <1>2, <2>1, OfTheActor
<1>4. /\ maxValid'[r] = Forever /\ maxValidMedium'[r] = maxValidMedium[r] \union {Forever}
      /\ \A q \in Regions : q # r => maxValid'[q] = maxValid[q]
                                     /\ maxValidMedium'[q] = maxValidMedium[q]
      /\ \A b \in Actors : b # a => pc'[b] = pc[b]
  BY <1>1, <1>2, <1>3, StateTypes
<1>5. \A q \in allocated : NotReady(q)' <=> NotReady(q)
  BY <1>2, ReadyUnchanged
<1> HIDE DEF r
<1>6. ASSUME NEW q \in allocated PROVE Marked(q)'
  <2>1. Marked(q) /\ q \in Regions
    BY <1>1, StateTypes DEF Marks
  <2>2. CASE q = r
    BY <1>2, <1>3, <1>4, <1>5, <2>1, <2>2 DEF Marked
  <2>3. CASE q # r
    <3>1. maxValid'[q] = maxValid[q] /\ maxValidMedium'[q] = maxValidMedium[q]
      BY <1>4, <2>1, <2>3
    <3> QED
      BY <1>2, <1>5, <2>1, <3>1 DEF Marked
  <2> QED
    BY <2>2, <2>3
<1>7. ASSUME NEW b \in Actors, pc'[b] = "write_ready" PROVE maxValid'[loc'[b].region] = Forever
  <2>1. CASE b = a
    BY <1>2, <1>4, <2>1 DEF r
  <2>2. CASE b # a
    <3>1. pc[b] = "write_ready"
      BY <1>4, <1>7, <2>2
    <3>2. pc[b] \in Locked
      BY <3>1 DEF Locked
    <3>3. loc[b].region \in Regions /\ maxValid[loc[b].region] = Forever
      BY <1>1, <3>1, <3>2, OfTheActor DEF Marks
    <3> QED
      BY <1>2, <1>4, <3>3
  <2> QED
    BY <2>1, <2>2
<1> QED
  BY <1>2, <1>3, <1>6, <1>7 DEF Marks

LEMMA WriteReadyMarks ==
  ASSUME HistoryIInv, RuntimeIInv', NEW a \in Actors, WriteReady(a)
  PROVE  Marks'
<1> DEFINE r == loc[a].region
           o == loc[a].runtime
<1>1. RuntimeIInv /\ Marks /\ Types
  BY DEF HistoryIInv, RuntimeIInv
<1>2. /\ pc[a] = "write_ready"
      /\ maxValidMedium' = [maxValidMedium EXCEPT ![r] = {maxValid[r]}]
      /\ state' = [state EXCEPT ![o] = "write_ready"]
      /\ UNCHANGED <<maxValid, allocated, next, committed, persisted, runtimeOf, phase, log>>
  BY DEF WriteReady, timestamps
<1>3. /\ r \in allocated /\ r \in Regions /\ phase = "running" /\ o \in Runtimes
      /\ runtimeOf[r] = o /\ o[2] = r /\ maxValid[r] = Forever
  <2>1. pc[a] \in Locked
    BY <1>2 DEF Locked
  <2> QED
    BY <1>1, <1>2, <2>1, OfTheActor DEF Marks
<1>4. /\ maxValidMedium'[r] = {Forever} /\ state'[o] = "write_ready"
      /\ \A q \in Regions : q # r => maxValidMedium'[q] = maxValidMedium[q]
      /\ \A p \in Runtimes : p # o => state'[p] = state[p]
  <2>1. state \in [Runtimes -> {"none", "read_ready", "write_ready"}]
    BY <1>1 DEF Types, RuntimeTypes
  <2>2. maxValidMedium \in [Regions -> SUBSET Nat]
    BY <1>1, StateTypes
  <2> QED
    BY <1>2, <1>3, <2>1, <2>2
<1>5. NoneGetsReady
  BY <1>1, AfterRecoveryElsewhere DEF WriteReady
<1> HIDE DEF r, o
<1>6. ASSUME NEW q \in allocated PROVE Marked(q)'
  <2>1. Marked(q) /\ q \in Regions
    BY <1>1, StateTypes DEF Marks
  <2>2. CASE q = r
    <3>1. ~NotReady(q)'
      BY <1>2, <1>3, <1>4, <2>2, Constants DEF NotReady
    <3> QED
      BY <1>2, <1>3, <1>4, <2>1, <2>2, <3>1 DEF Marked
  <2>3. CASE q # r
    <3>1. maxValidMedium'[q] = maxValidMedium[q]
      BY <1>4, <2>1, <2>3
    <3>2. runtimeOf[q] # Nobody => runtimeOf[q] \in Runtimes /\ runtimeOf[q][2] = q
      BY <1>1, <2>1 DEF RuntimeIInv, RuntimeInv, Mapped, Types, RuntimeTypes
    <3>3. runtimeOf[q] # Nobody => state'[runtimeOf[q]] = state[runtimeOf[q]]
      BY <1>3, <1>4, <2>3, <3>2
    <3>4. NotReady(q)' <=> NotReady(q)
      BY <1>2, <3>3 DEF NotReady
    <3> QED
      BY <1>2, <2>1, <3>1, <3>4 DEF Marked
  <2> QED
    BY <2>2, <2>3
<1>7. \A b \in Actors : pc'[b] = "write_ready" => maxValid'[loc'[b].region] = Forever
  BY <1>1, <1>2, <1>5 DEF Marks, NoneGetsReady
<1> QED
  BY <1>2, <1>3, <1>6, <1>7 DEF Marks

LEMMA FreeMarks ==
  ASSUME HistoryIInv, RuntimeIInv', NEW r \in Regions, Free(r)
  PROVE  Marks'
<1>1. RuntimeIInv /\ Marks /\ Types
  BY DEF HistoryIInv, RuntimeIInv
<1>2. /\ allocated' = allocated \ {r} /\ phase = "running" /\ phase' = phase
      /\ \A q \in Regions : q # r => log'[q] = log[q]
      /\ UNCHANGED <<maxValid, maxValidMedium, next, committed, persisted, runtimeOf, state>>
  BY <1>1, FreeEffect DEF timestamps, runtime
<1>3. NoneGetsReady
  BY <1>1, WriterElsewhere
<1>4. ASSUME NEW q \in allocated' PROVE Marked(q)'
  <2>1. Marked(q) /\ q \in Regions /\ log'[q] = log[q]
    BY <1>1, <1>2, StateTypes DEF Marks
  <2> QED
    BY <1>2, <2>1 DEF Marked, NotReady
<1>5. \A a \in Actors : pc'[a] = "write_ready" => maxValid'[loc'[a].region] = Forever
  BY <1>1, <1>2, <1>3 DEF Marks, NoneGetsReady
<1> QED
  BY <1>2, <1>4, <1>5 DEF Marks

LEMMA AllocateMarks ==
  ASSUME HistoryIInv, RuntimeIInv', NEW r \in Regions, Allocate(r)
  PROVE  Marks'
<1>1. RuntimeIInv /\ Marks /\ Types /\ History
  BY DEF HistoryIInv, RuntimeIInv
<1>2. /\ allocated' = allocated \union {r} /\ phase = "running" /\ r \notin allocated
      /\ maxValid' = [maxValid EXCEPT ![r] = Forever]
      /\ maxValidMedium' = [maxValidMedium EXCEPT ![r] = {Forever}]
      /\ UNCHANGED <<next, committed, persisted, runtimeOf, state, pc, loc, log, phase>>
  BY DEF Allocate, timestamps, runtime
<1>3. /\ maxValid'[r] = Forever /\ maxValidMedium'[r] = {Forever}
      /\ \A q \in Regions : q # r => maxValid'[q] = maxValid[q]
                                     /\ maxValidMedium'[q] = maxValidMedium[q]
  BY <1>1, <1>2, StateTypes
<1>4. ASSUME NEW q \in allocated' PROVE Marked(q)'
  <2>1. CASE q = r
    <3>1. log[r] = << >>
      BY <1>1, <1>2 DEF History, LogTimes
    <3>2. \A k \in 1 .. Len(log[r]) : FALSE
      BY <3>1
    <3> QED
      BY <1>2, <1>3, <2>1, <3>2 DEF Marked
  <2>2. CASE q # r
    <3>1. q \in allocated /\ Marked(q) /\ q \in Regions
      BY <1>1, <1>2, <2>2, StateTypes DEF Marks
    <3>2. maxValid'[q] = maxValid[q] /\ maxValidMedium'[q] = maxValidMedium[q]
      BY <1>3, <2>2, <3>1
    <3> QED
      BY <1>2, <3>1, <3>2 DEF Marked, NotReady
  <2> QED
    BY <2>1, <2>2
<1>5. ASSUME NEW a \in Actors, pc'[a] = "write_ready" PROVE maxValid'[loc'[a].region] = Forever
  <2>1. pc[a] = "write_ready" /\ pc[a] \in Locked
    BY <1>2, <1>5 DEF Locked
  <2>2. loc[a].region \in Regions /\ maxValid[loc[a].region] = Forever
    BY <1>1, <2>1, OfTheActor DEF Marks
  <2> QED
    BY <1>2, <1>3, <2>2
<1> QED
  BY <1>2, <1>4, <1>5 DEF Marks

\* The entries that survive a power failure.
LEMMA CrashLog ==
  ASSUME RuntimeIInv, RuntimeIInv', History, Crash, NEW r \in Regions
  PROVE  \E m \in 0 .. Len(log[r]) :
           /\ log'[r] = SubSeq(log[r], 1, m) /\ Len(log'[r]) = m
           /\ \A i \in 1 .. m : log'[r][i] = log[r][i]
           /\ \A k \in 1 .. Len(log[r]) : log[r][k].timestamp <= persisted <=> k <= m
<1>1. log'[r] = Upto(log[r], persisted)
  BY DEF Crash
<1>2. log[r] \in Seq(Entries) /\ persisted \in Nat
  BY StateTypes DEF RuntimeIInv
<1>3. \A j, k \in 1 .. Len(log[r]) : j < k => log[r][j].timestamp < log[r][k].timestamp
  BY DEF History, LogTimes
<1>4. \E m \in 0 .. Len(log[r]) :
        /\ Upto(log[r], persisted) = SubSeq(log[r], 1, m) /\ Len(Upto(log[r], persisted)) = m
        /\ \A i \in 1 .. m : Upto(log[r], persisted)[i] = log[r][i]
        /\ \A k \in 1 .. Len(log[r]) : log[r][k].timestamp <= persisted <=> k <= m
  BY <1>2, <1>3, UptoCut
<1> QED
  BY <1>1, <1>4

LEMMA CrashMarks ==
  ASSUME HistoryIInv, RuntimeIInv', Crash
  PROVE  Marks'
<1>1. RuntimeIInv /\ Marks /\ Types /\ History /\ Regions \subseteq Actors
  BY StateTypes DEF HistoryIInv, RuntimeIInv
<1>2. /\ allocated' = allocated /\ persisted' = persisted /\ next' = persisted + 1
      /\ committed' = persisted /\ phase' = "opening"
      /\ maxValidMedium' = [r \in Regions |-> {maxValid'[r]}]
      /\ runtimeOf' = [r \in Regions |-> Nobody]
      /\ pc' = [a \in Actors |-> "idle"]
  BY DEF Crash
<1>3. \A r \in Regions : maxValid'[r] \in maxValidMedium[r]
  BY <1>1, CrashOutcome
<1>4. ASSUME NEW r \in allocated PROVE Marked(r)'
  <2>1. Marked(r) /\ r \in Regions
    BY <1>1, StateTypes DEF Marks
  <2>2. maxValidMedium'[r] = {maxValid'[r]} /\ NotReady(r)' /\ maxValid'[r] \in maxValidMedium[r]
    BY <1>2, <1>3, <2>1 DEF NotReady
  <2>3. \A k \in 1 .. Len(log'[r]) :
          /\ k \in 1 .. Len(log[r]) /\ log'[r][k].timestamp = log[r][k].timestamp
          /\ log'[r][k].timestamp <= persisted
    <3>1. PICK m \in 0 .. Len(log[r]) :
            /\ log'[r] = SubSeq(log[r], 1, m) /\ Len(log'[r]) = m
            /\ \A i \in 1 .. m : log'[r][i] = log[r][i]
            /\ \A k \in 1 .. Len(log[r]) : log[r][k].timestamp <= persisted <=> k <= m
      BY <1>1, <2>1, CrashLog
    <3>2. Len(log[r]) \in Nat
      BY <1>1, <2>1, LogTypes
    <3>3. ASSUME NEW k \in 1 .. Len(log'[r])
          PROVE  /\ k \in 1 .. Len(log[r]) /\ log'[r][k].timestamp = log[r][k].timestamp
                 /\ log'[r][k].timestamp <= persisted
      <4>1. k \in 1 .. m /\ k \in 1 .. Len(log[r]) /\ k <= m
        BY <3>1, <3>2
      <4> QED
        BY <3>1, <4>1
    <3> QED
      BY <3>3
  <2>4. ASSUME NEW mv \in maxValidMedium'[r], mv # Forever
        PROVE  mv <= persisted' /\ \A k \in 1 .. Len(log'[r]) : log'[r][k].timestamp <= mv
    <3>1. mv \in maxValidMedium[r]
      BY <2>2
    <3>2. mv <= persisted /\ \A k \in 1 .. Len(log[r]) : log[r][k].timestamp <= mv
      BY <2>1, <2>4, <3>1 DEF Marked
    <3> QED
      BY <1>2, <2>3, <3>2
  <2> QED
    BY <1>2, <2>2, <2>3, <2>4 DEF Marked
<1> QED
  BY <1>2, <1>4 DEF Marks

LEMMA MarkRegionMarks ==
  ASSUME HistoryIInv, RuntimeIInv', NEW r \in Regions, MarkRegion(r)
  PROVE  Marks'
<1>1. RuntimeIInv /\ Marks /\ Types /\ Counted
  BY DEF HistoryIInv, RuntimeIInv
<1>2. /\ phase = "opening" /\ r \in allocated /\ maxValid[r] = Forever
      /\ maxValid' = [maxValid EXCEPT ![r] = persisted]
      /\ maxValidMedium' = [maxValidMedium EXCEPT ![r] = @ \union {persisted}]
      /\ UNCHANGED <<allocated, next, committed, persisted, runtimeOf, state, pc, loc, log, phase>>
  BY DEF MarkRegion, NeedsMark, timestamps, runtime
<1>3. /\ maxValid'[r] = persisted /\ maxValidMedium'[r] = maxValidMedium[r] \union {persisted}
      /\ \A q \in Regions : q # r => maxValid'[q] = maxValid[q]
                                     /\ maxValidMedium'[q] = maxValidMedium[q]
  BY <1>1, <1>2, StateTypes
<1>4. persisted # Forever /\ persisted \in Nat /\ committed = persisted /\ persisted <= persisted
  <2>1. persisted < Forever /\ persisted \in Nat /\ Forever \in Nat
    BY <1>1, BelowForever, StateTypes
  <2> QED
    BY <1>1, <1>2, <2>1 DEF Marks
<1>5. ASSUME NEW q \in allocated PROVE Marked(q)'
  <2>1. Marked(q) /\ q \in Regions
    BY <1>1, StateTypes DEF Marks
  <2>2. CASE q = r
    <3>1. maxValidMedium[r] = {Forever}
      BY <1>2, <1>4, <2>1, <2>2 DEF Marked
    <3>2. NotReady(r) /\ NotReady(r)'
      BY <1>1, <1>2, <2>1, <2>2 DEF NotReady, RuntimeIInv, RuntimeInv, Mapped
    <3>3. \A k \in 1 .. Len(log[r]) : log[r][k].timestamp <= persisted
      BY <1>4, <2>1, <2>2, <3>2 DEF Marked
    <3>4. maxValidMedium'[r] = {Forever, persisted}
      BY <1>3, <3>1
    <3>5. \A mv \in maxValidMedium'[r] : mv # Forever => mv = persisted
      BY <3>4
    <3> QED
      BY <1>2, <1>3, <1>4, <2>2, <3>2, <3>3, <3>4, <3>5 DEF Marked
  <2>3. CASE q # r
    <3>1. maxValid'[q] = maxValid[q] /\ maxValidMedium'[q] = maxValidMedium[q]
      BY <1>3, <2>1, <2>3
    <3> QED
      BY <1>2, <2>1, <3>1 DEF Marked, NotReady
  <2> QED
    BY <2>2, <2>3
<1>6. \A a \in Actors : pc'[a] # "write_ready"
  <2>1. \A a \in Actors : pc[a] = "idle"
    BY <1>1, <1>2, Before DEF ActorOK
  <2> QED
    BY <1>2, <2>1
<1> QED
  BY <1>1, <1>2, <1>5, <1>6 DEF Marks

LEMMA OpenedMarks ==
  ASSUME HistoryIInv, RuntimeIInv', Opened
  PROVE  Marks'
<1>1. RuntimeIInv /\ Marks /\ Types
  BY DEF HistoryIInv, RuntimeIInv
<1>2. /\ phase = "opening" /\ phase' = "running" /\ \A r \in allocated : maxValid[r] # Forever
      /\ maxValidMedium' = [r \in Regions |-> {maxValid[r]}]
      /\ UNCHANGED <<maxValid, allocated, next, committed, persisted, runtimeOf, state, pc, loc, log>>
  BY DEF Opened, NeedsMark, timestamps, runtime
<1>3. ASSUME NEW r \in allocated PROVE Marked(r)'
  <2>1. Marked(r) /\ r \in Regions
    BY <1>1, StateTypes DEF Marks
  <2>2. maxValidMedium'[r] = {maxValid[r]} /\ maxValid[r] \in maxValidMedium[r]
    BY <1>1, <1>2, <2>1, StateTypes
  <2>3. NotReady(r) /\ NotReady(r)'
    BY <1>1, <1>2, <2>1 DEF NotReady, RuntimeIInv, RuntimeInv, Mapped
  <2> QED
    BY <1>2, <2>1, <2>2, <2>3 DEF Marked
<1>4. \A a \in Actors : pc'[a] # "write_ready"
  <2>1. \A a \in Actors : pc[a] = "idle"
    BY <1>1, <1>2, Before DEF ActorOK
  <2> QED
    BY <1>2, <2>1
<1> QED
  BY <1>2, <1>3, <1>4 DEF Marks

-----------------------------------------------------------------------------
(* The invariant is inductive                                              *)

LEMMA HistoryInit == Init => HistoryIInv
<1> SUFFICES ASSUME Init PROVE HistoryIInv
  OBVIOUS
<1>1. RuntimeIInv
  BY RuntimeInit
<1>2. /\ next = 1 /\ committed = 0 /\ persisted = 0 /\ ops = {} /\ appends = 0
      /\ allocated = Regions /\ phase = "running"
      /\ runtimeOf = [r \in Regions |-> Nobody] /\ log = [r \in Regions |-> << >>]
      /\ maxValid = [r \in Regions |-> Forever]
      /\ maxValidMedium = [r \in Regions |-> {Forever}]
      /\ pc = [a \in Actors |-> "idle"]
  BY DEF Init
<1>3. Regions \subseteq Actors /\ MaxAppends \in Nat
  BY Constants
<1>4. \A r \in Regions : pc[r] = "idle" /\ "idle" \notin Preparing /\ "idle" \notin Storing
  BY <1>2, <1>3 DEF Preparing, Storing, Searching, Recovering, Locked
<1>5. Counted
  <2>1. Preparers = {}
    BY <1>4 DEF Preparers
  <2>2. Cardinality(Preparers) = 0
    BY <2>1, FS_EmptySet
  <2> QED
    BY <1>2, <1>3, <2>2 DEF Counted
<1>6. ASSUME NEW r \in Regions PROVE LogTimes(r) /\ Pending(r) /\ WriterOK(r)
  <2>1. log[r] = << >> /\ Len(log[r]) = 0
    BY <1>2
  <2>2. \A k \in 1 .. Len(log[r]) : FALSE
    BY <2>1
  <2> QED
    BY <1>4, <2>1, <2>2 DEF LogTimes, Pending, WriterOK
<1>7. History
  BY <1>2, <1>6 DEF History, Distinct
<1>8. ASSUME NEW r \in Regions PROVE Marked(r)
  <2>1. log[r] = << >> /\ maxValid[r] = Forever /\ maxValidMedium[r] = {Forever}
        /\ NotReady(r)
    BY <1>2 DEF NotReady
  <2>2. \A k \in 1 .. Len(log[r]) : FALSE
    BY <2>1
  <2> QED
    BY <2>1, <2>2 DEF Marked
<1>9. Marks
  BY <1>2, <1>8 DEF Marks
<1> QED
  BY <1>1, <1>5, <1>7, <1>9 DEF HistoryIInv

LEMMA HistoryStutters ==
  ASSUME HistoryIInv, UNCHANGED vars
  PROVE  Counted' /\ History' /\ Marks'
<1>1. UNCHANGED <<memory, timestamps, runtime, phase, pc, loc, log, counters>>
  BY DEF vars
<1>2. UNCHANGED <<maxValid, maxValidMedium, allocated, next, committed, persisted, ops, runtimeOf,
                  state, appends>>
  BY <1>1 DEF memory, timestamps, runtime, counters
<1>3. Counted'
  BY <1>1, <1>2 DEF HistoryIInv, Counted, Preparers
<1>4. History'
  BY <1>1, <1>2 DEF HistoryIInv, History, LogTimes, Pending, WriterOK, InFlight, Matches, Distinct
<1>5. Marks'
  BY <1>1, <1>2 DEF HistoryIInv, Marks, Marked, NotReady
<1> QED
  BY <1>3, <1>4, <1>5

\* Recover leaves the history alone.
LEMMA QuietHistory ==
  ASSUME HistoryIInv, RuntimeIInv',
         (\E a \in Actors : GetOrCreate(a) \/ Recover(a)) \/ Read
  PROVE  Counted' /\ History'
<1>1. RuntimeIInv /\ Types /\ Types' /\ Counted /\ History
  BY DEF HistoryIInv, RuntimeIInv
<1>2. QuietStep
  BY <1>1, GetOrCreateQuiet, RecoverQuiet, ReadQuiet
<1>3. UNCHANGED <<log, ops, next, committed, persisted, allocated, appends>>
  BY DEF GetOrCreate, LookUp, Create, CreateFails, Recover, Initialize, Lock, RecheckState,
         SetMaxValid, WriteReady, Read, ReadBegin, LoadCommitted, LoadMaxValid, LoadSpan,
         LoadTimestamp, memory, timestamps, counters
<1> QED
  BY <1>1, <1>2, <1>3, QuietKeeps

LEMMA IdleSteps ==
  ASSUME HistoryIInv, RuntimeIInv', NEW r,
         RecordPersisted \/ Opened \/ Allocate(r) \/ MarkRegion(r)
  PROVE  Counted' /\ History'
<1>1. RuntimeIInv /\ Counted /\ History
  BY DEF HistoryIInv
<1>2. /\ UNCHANGED <<log, ops, next, committed, appends, pc, loc>> /\ allocated \subseteq allocated'
      /\ persisted' \in {persisted, committed}
  BY DEF RecordPersisted, Opened, Allocate, MarkRegion, memory, timestamps, counters
<1> QED
  BY <1>1, <1>2, IdleHistory

LEMMA HistorySteps == HistoryIInv /\ [Next]_vars => HistoryIInv'
<1> SUFFICES ASSUME HistoryIInv, [Next]_vars PROVE HistoryIInv'
  OBVIOUS
<1>0. RuntimeIInv /\ RuntimeIInv' /\ Counted /\ History
  BY RuntimeSteps DEF HistoryIInv
<1> SUFFICES Counted' /\ History' /\ Marks'
  BY <1>0 DEF HistoryIInv
<1>1. CASE UNCHANGED vars
  BY <1>1, HistoryStutters
<1>2. ASSUME NEW r \in Regions, AppendBegin(r) \/ Write(r) \/ MarkRegion(r)
      PROVE  Counted' /\ History' /\ Marks'
  <2>1. CASE AppendBegin(r)
    BY <1>0, <2>1, AppendBeginHistory, WriterMarks
  <2>2. CASE Reserve(r)
    BY <1>0, <2>2, ReserveHistory, WriterMarks
  <2>3. CASE AcquireTimestamp(r)
    BY <1>0, <2>3, AcquireHistory, AcquireMarks
  <2>4. CASE ClearNext(r) \/ StoreTimestamp(r) \/ StoreSpan(r)
    BY <1>0, <2>4, StoringHistory, WriterMarks
  <2>5. CASE Publish(r)
    BY <1>0, <2>5, PublishHistory, WriterMarks
  <2>6. CASE MarkRegion(r)
    BY <1>0, <2>6, IdleSteps, MarkRegionMarks
  <2> QED
    BY <1>2, <2>1, <2>2, <2>3, <2>4, <2>5, <2>6 DEF Write
<1>3. ASSUME NEW r \in Regions, Free(r) \/ RemoveRuntime(r) \/ Allocate(r)
      PROVE  Counted' /\ History' /\ Marks'
  <2>1. CASE Free(r)
    BY <1>0, <2>1, FreeHistory, FreeMarks
  <2>2. CASE RemoveRuntime(r)
    BY <1>0, <2>2, RemoveRuntimeHistory, RemoveRuntimeMarks
  <2>3. CASE Allocate(r)
    BY <1>0, <2>3, IdleSteps, AllocateMarks
  <2> QED
    BY <1>3, <2>1, <2>2, <2>3
<1>4. ASSUME NEW a \in Actors, GetOrCreate(a) \/ Recover(a)
      PROVE  Counted' /\ History' /\ Marks'
  <2>1. Counted' /\ History'
    BY <1>0, <1>4, QuietHistory
  <2>2. CASE GetOrCreate(a) \/ Initialize(a) \/ Lock(a) \/ RecheckState(a)
    BY <1>0, <2>1, <2>2, QuietMarks
  <2>3. CASE SetMaxValid(a)
    BY <1>0, <2>1, <2>3, SetMaxValidMarks
  <2>4. CASE WriteReady(a)
    BY <1>0, <2>1, <2>4, WriteReadyMarks
  <2> QED
    BY <1>4, <2>2, <2>3, <2>4 DEF Recover
<1>5. CASE Read
  BY <1>0, <1>5, QuietHistory, WriterMarks
<1>6. ASSUME NEW op \in ops, CopyDone(op) \/ ProcessOp(op) \/ Commit(op)
      PROVE  Counted' /\ History' /\ Marks'
  BY <1>0, <1>6, CopyDoneHistory, ProcessOpHistory, CommitHistory, PipelineMarks
<1>7. CASE RecordPersisted
  BY <1>0, <1>7, IdleSteps, PipelineMarks
<1>8. CASE Crash
  BY <1>0, <1>8, CrashHistory, CrashMarks
<1>9. CASE Opened
  BY <1>0, <1>9, IdleSteps, OpenedMarks
<1> QED
  BY <1>1, <1>2, <1>3, <1>4, <1>5, <1>6, <1>7, <1>8, <1>9 DEF Next


-----------------------------------------------------------------------------
(* Theorems                                                                *)

\* In every reachable state, whatever the constants are: the timestamps of a region
\* grow, none is used twice, the operations in flight are the entries that are not
\* committed, a header is being stored in the last entry of its region only, and
\* max_valid_timestamp is UINT64_MAX or a timestamp the stream was opened with.
THEOREM HistoryInvariant == Spec => []HistoryIInv
  BY HistoryInit, HistorySteps, PTL DEF Spec

\* An entry is committed or it has an operation in flight, never both: the timestamps
\* that publish waits for are exactly those of the entries nobody may read yet, with
\* reserve, publish, commit, release of regions and power failures in any order.
InFlightOrCommitted ==
  \A r \in Regions : \A k \in 1 .. Len(log[r]) :
    committed < log[r][k].timestamp <=> \E op \in ops : op.timestamp = log[r][k].timestamp

\* No operation is lost or committed twice (pmemstream_async_publish_generic,
\* pmemstream_process_async_ops).
THEOREM OperationsAreTheUncommitted == Spec => []InFlightOrCommitted
<1>1. HistoryIInv => InFlightOrCommitted
  <2> SUFFICES ASSUME HistoryIInv, NEW r \in Regions, NEW k \in 1 .. Len(log[r])
               PROVE  committed < log[r][k].timestamp
                        <=> \E op \in ops : op.timestamp = log[r][k].timestamp
    BY DEF InFlightOrCommitted
  <2>1. committed < log[r][k].timestamp => \E op \in ops : op.timestamp = log[r][k].timestamp
    BY DEF HistoryIInv, History, Pending
  <2>2. ASSUME NEW op \in ops, op.timestamp = log[r][k].timestamp
        PROVE  committed < log[r][k].timestamp
    <3>1. committed < op.timestamp
      BY DEF HistoryIInv, History, InFlight
    <3> QED
      BY <2>2, <3>1
  <2> QED
    BY <2>1, <2>2
<1> QED
  BY <1>1, HistoryInvariant, PTL

\* What max_valid_timestamp hides: nothing that was committed when the region was
\* marked or later; and once a region is open for writing, nothing at all, neither
\* in memory nor on the medium after a power failure.
MarksHideNothing ==
  \A r \in allocated : \A mv \in maxValidMedium[r] \union {maxValid[r]} :
    /\ \A k \in 1 .. Len(log[r]) : log[r][k].timestamp <= mv
    /\ mv # Forever => mv <= persisted /\ (runtimeOf[r] # Nobody =>
                                             state[runtimeOf[r]] # "write_ready")

LEMMA MarksHide == HistoryIInv => MarksHideNothing
<1> SUFFICES ASSUME HistoryIInv, NEW r \in allocated,
                    NEW mv \in maxValidMedium[r] \union {maxValid[r]}
             PROVE  /\ \A k \in 1 .. Len(log[r]) : log[r][k].timestamp <= mv
                    /\ mv # Forever => mv <= persisted /\ (runtimeOf[r] # Nobody =>
                                                             state[runtimeOf[r]] # "write_ready")
  BY DEF MarksHideNothing
<1>1. Types /\ Counted /\ Marked(r) /\ LogTimes(r) /\ r \in Regions
  BY StateTypes DEF HistoryIInv, RuntimeIInv, Marks, History
<1>2. maxValid[r] \in maxValidMedium[r]
  BY <1>1, StateTypes
<1>3. mv \in maxValidMedium[r]
  BY <1>2
<1>4. CASE mv # Forever
  <2>1. NotReady(r)
    BY <1>1, <1>3, <1>4 DEF Marked
  <2> QED
    BY <1>1, <1>3, <1>4, <2>1 DEF Marked, NotReady
<1>5. CASE mv = Forever
  <2>1. \A k \in 1 .. Len(log[r]) : log[r][k].timestamp \in Nat /\ log[r][k].timestamp < next
    BY <1>1, LogTypes DEF LogTimes
  <2>2. next \in Nat /\ next <= Forever /\ Forever \in Nat
    BY <1>1, StateTypes, BelowForever
  <2>3. \A k \in 1 .. Len(log[r]) : log[r][k].timestamp <= Forever
    BY <2>1, <2>2
  <2> QED
    BY <1>5, <2>3
<1> QED
  BY <1>4, <1>5

\* An entry that was persisted is never made invalid by the mark of a recovery, and
\* what a power failure left behind is: its timestamp is above the mark until the
\* region is recovered (pmemstream_mark_regions_for_recovery).
THEOREM MarksHideNoEntry == Spec => []MarksHideNothing
  BY MarksHide, HistoryInvariant, PTL

=============================================================================

-------------------------- MODULE RegionAllocator --------------------------
(***************************************************************************)
(* The region allocator (src/src/region_allocator/, singly_linked_list.h)  *)
(* and the opening of a stream: two persistent singly linked lists, the    *)
(* initialisation of the header and the recovery when the stream is        *)
(* opened, down to the single store, flush and drain, with a power failure *)
(* between any two of them, also while an opening is running.              *)
(*                                                                         *)
(* The allocator is sequential ("XXX: lock" in pmemstream_region_allocate):*)
(* an operation is the sequence of its accesses to persistent memory,      *)
(* computed from the memory it starts in, and executed one by one.         *)
(*                                                                         *)
(* Abstracted: a region has size 1, so its offset is its number (the doc   *)
(* allows one size per stream); of a region's content only the first entry *)
(* (data) and max_valid_timestamp are kept; persistence is per 8-byte word *)
(* and a word that was stored but not drained may or may not survive.  The *)
(* signature lies in two words.  The file a stream is made of is new, all  *)
(* zero, or held a stream of another block size.                           *)
(*                                                                         *)
(* A definition with an underscore in its name is a seeded fault.          *)
(***************************************************************************)
EXTENDS Naturals, Sequences, FiniteSets, SequencesExt

CONSTANTS
  Capacity,        \* header->size, in regions
  MaxCrashes,      \* bound: power failures
  MaxOperations,   \* bound: calls of the application
  CrashInExtension \* FALSE: no power failure separates the two stores of
                   \* perform_free_list_extension

ASSUME AllocatorAssumption ==
  /\ Capacity \in Nat \ {0}
  /\ MaxCrashes \in Nat /\ MaxOperations \in Nat
  /\ CrashInExtension \in BOOLEAN

VARIABLES
  cache,      \* the words of the header and of the regions as the CPU sees them
  medium,     \* the values each word may have after a power failure
  todo,       \* the accesses the running call has still to make
  phase,      \* "down", "opening" (in pmemstream_from_map) or "running"
  iterator,   \* the offset of the region iterator; auxiliary: the regions it met
              \* and those that have been allocated ever since it started
  operations, crashes, \* counters, bounded
  allocated,  \* auxiliary: the allocated list when the last call ended
  free,       \* auxiliary: the free regions when the last call ended
  used        \* auxiliary: allocated regions the application appended to

vars == <<cache, medium, todo, phase, iterator, operations, crashes,
          allocated, free, used>>

-----------------------------------------------------------------------------
(* Words, accesses and lists                                               *)

Regions == 0 .. Capacity - 1
Places == 0 .. Capacity   \* the last one is what follows the end of the stream
Invalid == Capacity + 1   \* SLIST_INVALID_OFFSET, and UINT64_MAX as a timestamp

Hd(list) == <<"head", list, 0>>
Tl(list) == <<"tail", list, 0>>
Nxt(list, r) == <<"next", list, r>>     \* allocator_entry_metadata
FreeOffset == <<"free_offset", "header", 0>>
RecoveryFreeOffset == <<"recovery_free_offset", "header", 0>>
MaxValid(r) == <<"max_valid_timestamp", "region", r>>
Data(r) == <<"data", "region", r>>
Signature == {<<"signature", "header", i>> : i \in 1 .. 2}
Size(kind) == <<"size", kind, 0>>       \* stream_size, block_size
PersistedTimestamp == <<"persisted_timestamp", "header", 0>>

Words ==
  {Hd(list) : list \in {"free", "allocated"}} \union {Tl(list) : list \in {"free", "allocated"}}
    \union {Nxt(list, r) : list \in {"free", "allocated"}, r \in Places}
    \union {FreeOffset, RecoveryFreeOffset}
    \union {MaxValid(r) : r \in Places} \union {Data(r) : r \in Places}
    \union Signature \union {Size("stream"), Size("block"), PersistedTimestamp}

\* store_with_flush; the drain that makes all earlier stores durable; an assert
\* of SLIST_INVARIANTS.
Store(word, value) == [access |-> "store", word |-> word, value |-> value]
Drain == [access |-> "drain"]
Check(list) == [access |-> "assert", list |-> list]

Persist(word, value) == <<Store(word, value), Drain>>

Perform(m, step) ==
  IF step.access = "store" THEN [m EXCEPT ![step.word] = step.value] ELSE m

\* steps, and then what Op does in the memory they leave behind.
Then(m, steps, Op(_)) == steps \o Op(FoldLeft(Perform, m, steps))

\* The n-th element of a list, Invalid after the last one.
Walk(m, list) ==
  LET at[n \in 0 .. Capacity] ==
        IF n = 0 THEN m[Hd(list)]
        ELSE IF at[n - 1] = Invalid THEN Invalid ELSE m[Nxt(list, at[n - 1])]
  IN  at
Elements(m, list) == {Walk(m, list)[n] : n \in 0 .. Capacity} \ {Invalid}
\* The elements of a list in its order.
Listed(m, list) == [k \in 1 .. Cardinality(Elements(m, list)) |-> Walk(m, list)[k - 1]]

\* SLIST_INVARIANTS
SlistInvariants(m, list) ==
  /\ m[Hd(list)] # Invalid <=> m[Tl(list)] # Invalid
  /\ m[Tl(list)] # Invalid => m[Nxt(list, m[Tl(list)])] = Invalid

ListInit(list) == <<Store(Tl(list), Invalid), Store(Hd(list), Invalid), Drain>>

RuntimeInit_KeepTail(m, list) ==
  (IF (m[Hd(list)] = Invalid \/ m[Tl(list)] = Invalid) /\ m[Hd(list)] # m[Tl(list)]
   THEN ListInit(list) ELSE << >>) \o <<Check(list)>>
RuntimeInit(m, list) ==
  (IF (m[Hd(list)] = Invalid \/ m[Tl(list)] = Invalid) /\ m[Hd(list)] # m[Tl(list)]
   THEN ListInit(list)
   ELSE IF m[Hd(list)] # Invalid /\ m[Nxt(list, m[Tl(list)])] # Invalid
   THEN <<Store(Tl(list), m[Nxt(list, m[Tl(list)])])>>
   ELSE << >>) \o <<Check(list)>>

InsertHead(m, list, r) ==
  <<Check(list)>>
    \o (IF m[Hd(list)] = Invalid THEN <<Store(Tl(list), r)>> ELSE << >>)
    \o Persist(Nxt(list, r), m[Hd(list)]) \o Persist(Hd(list), r) \o <<Check(list)>>

InsertTail(m, list, r) ==
  <<Check(list)>>
    \o (IF m[Hd(list)] = Invalid THEN InsertHead(m, list, r)
        ELSE Persist(Nxt(list, r), Invalid) \o Persist(Nxt(list, m[Tl(list)]), r)
               \o Persist(Tl(list), r))
    \o <<Check(list)>>

RemoveHead(m, list) ==
  IF m[Hd(list)] = Invalid THEN <<Check(list)>>
  ELSE <<Check(list)>>
         \o (IF m[Tl(list)] = m[Hd(list)] THEN ListInit(list)
             ELSE Persist(Hd(list), m[Nxt(list, m[Hd(list)])]))
         \o <<Check(list)>>

RemoveRegion(m, list, r) ==
  LET previous == CHOOSE p \in Elements(m, list) : m[Nxt(list, p)] = r
  IN  IF r \notin Elements(m, list) THEN <<Check(list)>>
      ELSE <<Check(list)>>
             \o (IF m[Hd(list)] = r THEN RemoveHead(m, list)
                 ELSE (IF m[Nxt(list, r)] = Invalid THEN Persist(Tl(list), previous) ELSE << >>)
                        \o Persist(Nxt(list, previous), m[Nxt(list, r)]))
             \o <<Check(list)>>

-----------------------------------------------------------------------------
(* The operations of the allocator                                         *)

FreeListExtension(m) ==
  InsertHead(m, "free", m[FreeOffset]) \o Persist(FreeOffset, m[FreeOffset] + 1)

\* extend_free_list: the new span, then the list
ExtendFreeList(m) ==
  LET r == m[FreeOffset]
  IN  Then(m, <<Store(Nxt("allocated", r), Invalid), Store(Nxt("free", r), Invalid),
                Store(MaxValid(r), 0), Drain>>, FreeListExtension)

HeadToAllocatedTail_NotCleared(m) ==
  LET r == m[Hd("free")]
  IN  Persist(MaxValid(r), Invalid)
        \o Then(m, InsertTail(m, "allocated", r), LAMBDA n : RemoveHead(n, "free"))
HeadToAllocatedTail_RemoveFirst(m) ==
  LET r == m[Hd("free")]
  IN  Persist(MaxValid(r), Invalid) \o Persist(Data(r), 0)
        \o Then(m, RemoveHead(m, "free"), LAMBDA n : InsertTail(n, "allocated", r))
HeadToAllocatedTail(m) ==
  LET r == m[Hd("free")]
  IN  Persist(MaxValid(r), Invalid) \o Persist(Data(r), 0)
        \o Then(m, InsertTail(m, "allocated", r), LAMBDA n : RemoveHead(n, "free"))

\* Space for one more region after free_offset.
HasRoom_OffByOne(m) == m[FreeOffset] <= Capacity
HasRoom(m) == m[FreeOffset] + 1 <= Capacity

AllocateSteps(m) ==
  IF m[Hd("free")] = Invalid THEN Then(m, ExtendFreeList(m), HeadToAllocatedTail)
  ELSE HeadToAllocatedTail(m)

FreeSteps_LinkCleared(m, r) ==
  Then(m, Persist(RecoveryFreeOffset, r) \o InsertHead(m, "free", r),
       LAMBDA n : RemoveRegion(n, "allocated", r))
    \o Persist(Nxt("allocated", r), Invalid) \o Persist(RecoveryFreeOffset, Invalid)
FreeSteps(m, r) ==
  Then(m, Persist(RecoveryFreeOffset, r) \o InsertHead(m, "free", r),
       LAMBDA n : RemoveRegion(n, "allocated", r)) \o Persist(RecoveryFreeOffset, Invalid)

RecoverExtension(m) ==
  IF m[Hd("free")] # Invalid /\ m[Hd("free")] > m[FreeOffset]
  THEN Persist(FreeOffset, m[FreeOffset] + 1) ELSE << >>

RecoverMove(m) ==
  IF m[Hd("free")] # Invalid /\ m[Hd("free")] = m[Tl("allocated")]
  THEN RemoveHead(m, "free") ELSE << >>

RecoverFree_Skipped(m) == << >>
RecoverFree(m) ==
  LET r == m[RecoveryFreeOffset]
  IN  IF r = Invalid THEN << >>
      ELSE IF m[Hd("free")] # r THEN FreeSteps(m, r)
      ELSE RemoveRegion(m, "allocated", r) \o Persist(RecoveryFreeOffset, Invalid)

\* pmemstream_mark_regions_for_recovery
MarkSteps(m) ==
  LET Mark(steps, r) == IF m[MaxValid(r)] # Invalid THEN steps
                        ELSE Append(steps, Store(MaxValid(r), m[PersistedTimestamp]))
  IN  FoldLeft(Mark, << >>, Listed(m, "allocated"))
MarkRegions_NoDrain(m) == MarkSteps(m)
MarkRegions(m) == MarkSteps(m) \o <<Drain>>

\* The signature is whole (1), and so are the sizes the caller gives.
IsInitialized(m) == \A w \in Signature \union {Size("stream"), Size("block")} : m[w] = 1

SignatureSteps(value) == [i \in 1 .. 2 |-> Store(<<"signature", "header", i>>, value)]

\* allocator_initialize
InitAllocator ==
  <<Store(FreeOffset, 0), Store(RecoveryFreeOffset, Invalid), Drain>>
    \o ListInit("free") \o ListInit("allocated")

\* pmemstream_init; the signature is cleared first, without a drain, and set last.
InitStream_NotPersisted ==
  SignatureSteps(0) \o InitAllocator
    \o <<Store(Size("stream"), 1), Store(Size("block"), 1), Store(PersistedTimestamp, 0)>>
    \o SignatureSteps(1) \o <<Drain>>
InitStream ==
  SignatureSteps(0) \o InitAllocator
    \o <<Store(Size("stream"), 1), Store(Size("block"), 1), Store(PersistedTimestamp, 0), Drain>>
    \o SignatureSteps(1) \o <<Drain>>

\* pmemstream_from_map: initialisation, allocator_runtime_initialize, marking of regions
OpenSteps(m) ==
  Then(m, IF IsInitialized(m) THEN << >> ELSE InitStream, LAMBDA i :
  Then(i, RuntimeInit(i, "allocated") \o RuntimeInit(i, "free"),
       LAMBDA a : Then(a, RecoverExtension(a),
       LAMBDA b : Then(b, RecoverMove(b),
       LAMBDA c : Then(c, RecoverFree(c), MarkRegions)))))

-----------------------------------------------------------------------------
\* What the file held: nothing, or a stream of another block size whose regions
\* are all allocated and in use.
NewFile == [w \in Words |-> 0]
OldStream ==
  [w \in Words |->
     CASE w \in Signature \union {Size("stream"), PersistedTimestamp} \/ w[1] = "data" -> 1
       [] w = Size("block") -> 2
       [] w = FreeOffset -> Capacity
       [] w = Hd("allocated") -> 0
       [] w = Tl("allocated") -> Capacity - 1
       [] w[1] = "next" /\ w[2] = "allocated" /\ w[3] + 1 < Capacity -> w[3] + 1
       [] OTHER -> Invalid]

NoIterator == [at |-> Invalid, met |-> << >>, stayed |-> {}]

Init ==
  /\ cache \in {NewFile, OldStream}
  /\ medium = [w \in Words |-> {cache[w]}]
  /\ todo = << >>
  /\ phase = "down"
  /\ iterator = NoIterator
  /\ operations = 0 /\ crashes = 0
  /\ allocated = << >> /\ free = {} /\ used = {}

Idle == phase = "running" /\ todo = << >>

\* The application looks at an iterator whose region it freed before it does more.
Call(steps) ==
  /\ Idle
  /\ iterator.at \in Elements(cache, "allocated") \union {Invalid}
  /\ operations < MaxOperations
  /\ operations' = operations + 1
  /\ todo' = steps
  /\ iterator' = IF iterator.at = Invalid THEN NoIterator ELSE iterator
  /\ UNCHANGED <<cache, medium, phase, crashes, allocated, free, used>>

\* allocator_region_allocate; without room it changes nothing.
Allocate ==
  /\ cache[Hd("free")] # Invalid \/ HasRoom(cache)
  /\ Call(AllocateSteps(cache))

\* allocator_region_free of a region the application allocated
Free == \E r \in Elements(cache, "allocated") : Call(FreeSteps(cache, r))

\* The application appends its first entry: the region's recovery makes
\* max_valid_timestamp UINT64_MAX again, the entry lands in data.
Use ==
  \E r \in Elements(cache, "allocated") \ used :
    /\ Idle
    /\ used' = used \union {r}
    /\ cache' = [cache EXCEPT ![Data(r)] = 1, ![MaxValid(r)] = Invalid]
    /\ medium' = [medium EXCEPT ![Data(r)] = {1}, ![MaxValid(r)] = {Invalid}]
    /\ UNCHANGED <<todo, phase, iterator, operations, crashes, allocated, free>>

\* pmemstream_region_iterator_seek_first and pmemstream_region_iterator_next
MoveTo(r, met, stayed) ==
  /\ iterator' = [at |-> r, met |-> IF r \in stayed THEN Append(met, r) ELSE met, stayed |-> stayed]
  /\ UNCHANGED <<cache, medium, todo, phase, operations, crashes, allocated, free, used>>

SeekFirst ==
  /\ Idle
  /\ iterator.at = Invalid
  /\ MoveTo(cache[Hd("allocated")], << >>, Elements(cache, "allocated"))

IteratorNext ==
  /\ Idle
  /\ iterator.at # Invalid
  /\ MoveTo(cache[Nxt("allocated", iterator.at)], iterator.met, iterator.stayed)

\* The next access of the running call; after the last one the call returns.
Step ==
  /\ todo # << >>
  /\ cache' = Perform(cache, Head(todo))
  /\ medium' = CASE Head(todo).access = "store" ->
                      [medium EXCEPT ![Head(todo).word] = @ \union {Head(todo).value}]
                 [] Head(todo).access = "drain" -> [w \in Words |-> {cache[w]}]
                 [] OTHER -> medium
  /\ todo' = Tail(todo)
  /\ IF todo' = << >>
     THEN /\ phase' = "running"
          /\ allocated' = Listed(cache', "allocated")
          /\ free' = Elements(cache', "free")
          /\ used' = used \intersect Elements(cache', "allocated")
          /\ iterator' = [iterator EXCEPT !.stayed = @ \intersect Elements(cache', "allocated")]
     ELSE UNCHANGED <<phase, iterator, allocated, free, used>>
  /\ UNCHANGED <<operations, crashes>>

\* Power fails: every word has one of the values that may have reached the medium.
Crash ==
  /\ crashes < MaxCrashes
  /\ phase # "down"
  /\ crashes' = crashes + 1
  /\ LET unsettled == {w \in Words : Cardinality(medium[w]) > 1}
     IN  \E value \in [unsettled -> UNION {medium[w] : w \in unsettled}] :
           /\ \A w \in unsettled : value[w] \in medium[w]
           /\ cache' = [w \in Words |-> IF w \in unsettled THEN value[w]
                                        ELSE CHOOSE v \in medium[w] : TRUE]
  /\ CrashInExtension \/ ~IsInitialized(cache') \/ cache'[Hd("free")] # cache'[FreeOffset]
  /\ medium' = [w \in Words |-> {cache'[w]}]
  /\ todo' = << >>
  /\ phase' = "down"
  /\ iterator' = NoIterator
  /\ UNCHANGED <<operations, allocated, free, used>>

Open ==
  /\ phase = "down"
  /\ phase' = "opening"
  /\ todo' = OpenSteps(cache)
  /\ UNCHANGED <<cache, medium, iterator, operations, crashes, allocated, free, used>>

Next == Allocate \/ Free \/ Use \/ SeekFirst \/ IteratorNext \/ Step \/ Crash \/ Open

Spec == Init /\ [][Next]_vars

-----------------------------------------------------------------------------
(* Properties                                                              *)

\* Words hold offsets of regions, the end of the stream or the invalid offset.
TypeOK ==
  /\ cache \in [Words -> 0 .. Invalid] /\ cache[FreeOffset] \in 0 .. Capacity
  /\ medium \in [Words -> SUBSET (0 .. Invalid)]
  /\ phase \in {"down", "opening", "running"}
  /\ iterator.at \in Regions \union {Invalid} /\ iterator.stayed \subseteq Regions
  /\ operations \in 0 .. MaxOperations /\ crashes \in 0 .. MaxCrashes
  /\ free \subseteq Regions /\ used \subseteq Regions
  /\ \A i \in DOMAIN allocated : allocated[i] \in Regions

\* A header that passes for initialised is complete before the first call, whatever
\* reached the medium of an initialisation that was cut short: the lists are empty
\* and nothing of an older stream is left.
InitializationIsWhole ==
  phase = "down" /\ operations = 0 /\ IsInitialized(cache) =>
    /\ \A list \in {"free", "allocated"} : cache[Hd(list)] = Invalid /\ cache[Tl(list)] = Invalid
    /\ cache[FreeOffset] = 0 /\ cache[RecoveryFreeOffset] = Invalid
    /\ cache[PersistedTimestamp] = 0

\* Between calls, whatever power failures there were, each list ends and ends in
\* its tail, and every region below free_offset is in exactly one of them: none
\* is leaked and none is both free and allocated.
EachRegionInOneList ==
  Idle =>
    /\ \A list \in {"free", "allocated"} : Walk(cache, list)[Capacity] = Invalid
    /\ Elements(cache, "free") \intersect Elements(cache, "allocated") = {}
    /\ Elements(cache, "free") \union Elements(cache, "allocated") = 0 .. cache[FreeOffset] - 1

\* The asserts of the list macros hold, in the middle of a recovery too.
SlistAsserts ==
  todo # << >> /\ Head(todo).access = "assert" => SlistInvariants(cache, Head(todo).list)

\* What the application did not write to since it was allocated is empty, on the
\* medium as well, although the region may have held entries before.
NewRegionIsEmpty ==
  Idle => \A r \in Elements(cache, "allocated") \ used : medium[Data(r)] = {0}

\* An iteration over the regions meets every region that is allocated all the while
\* once and in the order of allocation, although others, and the one the iterator
\* stands on, are freed and allocated meanwhile.
IterationIsComplete ==
  Idle =>
    /\ iterator.at = Invalid => iterator.stayed \subseteq Range(iterator.met)
    /\ \A k, l \in DOMAIN iterator.met :
         iterator.met[k] \in iterator.stayed /\ iterator.met[k] = iterator.met[l] => k = l
    /\ \A i, j \in DOMAIN allocated :
         i < j /\ {allocated[i], allocated[j]} \subseteq iterator.stayed /\ allocated[j] \in Range(iterator.met)
           => \E k, l \in DOMAIN iterator.met :
                k < l /\ iterator.met[k] = allocated[i] /\ iterator.met[l] = allocated[j]

\* When a stream is open no allocated region still claims that all its entries
\* are valid, and no later power failure can bring such a claim back.
OpenMarksRegions ==
  [][phase = "opening" /\ phase' = "running" =>
       \A r \in Elements(cache', "allocated") : Invalid \notin medium'[MaxValid(r)]]_vars

\* Allocation and release are atomic with respect to power failures, and regions
\* are listed in the order of their creation.
Abstract == INSTANCE AllocatorSpec
ImplementsAllocatorSpec == Abstract!Spec

\* allocator_base.h: "Memory after this offset is not yet tracked by any list."
FreeOffsetBehindLists ==
  Idle => \A r \in Elements(cache, "free") \union Elements(cache, "allocated") :
            r < cache[FreeOffset]
=============================================================================

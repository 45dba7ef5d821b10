------------------------------ MODULE Critnib ------------------------------
(***************************************************************************)
(* The critnib (src/src/critnib/critnib.c): a radix tree from keys to      *)
(* pointers.  Insertions and removals hold a mutex; critnib_get walks the  *)
(* tree without it.  Nodes that leave the tree rest for DELETED_LIFE       *)
(* removals, then go to a pool and are used again: a get notices by the    *)
(* number of removals that it may have read such a node, and restarts.     *)
(*                                                                         *)
(* A writer is the sequence of its stores (todo), computed when it has     *)
(* the mutex from the memory nobody else changes, and executed one by      *)
(* one, each visible to the walks.  A walk is one load of the code at a    *)
(* time, except that the shift of a node is read with the child it picks.  *)
(*                                                                         *)
(* Abstracted: a nibble has Fanout values and a key Digits nibbles, shift  *)
(* counts nibbles; malloc may fail at any call and fails once MaxNodes     *)
(* nodes or MaxLeaves leaves were taken; the memory is sequentially        *)
(* consistent.                                                             *)
(*                                                                         *)
(* A definition with an underscore in its name is a seeded fault.          *)
(***************************************************************************)
EXTENDS Naturals, Sequences, FiniteSets, SequencesExt

CONSTANTS
  Readers, Writers, \* threads that call critnib_get; critnib_insert and critnib_remove
  Keys,        \* bound: the keys they use
  Values,      \* bound: the values they store for each key
  Fanout,      \* SLNODES
  Digits,      \* nibbles of a key
  DeletedLife, \* DELETED_LIFE
  MaxNodes, MaxLeaves, \* bound: what malloc has to give
  LookedUp,    \* bound: the keys that are looked up
  MaxInserts, MaxRemoves \* bound: insertions and removals

\* The weight of a nibble, 1 << shift.
Power[shift \in Nat] == IF shift = 0 THEN 1 ELSE Fanout * Power[shift - 1]

ASSUME CritnibAssumption ==
  /\ Fanout \in Nat \ {0, 1} /\ Digits \in Nat \ {0}
  /\ Keys \subseteq 0 .. Power[Digits] - 1
  /\ DeletedLife \in Nat \ {0}
  /\ MaxNodes \in Nat /\ MaxLeaves \in Nat /\ MaxInserts \in Nat /\ MaxRemoves \in Nat
  /\ LookedUp \subseteq Keys

VARIABLES
  mem,   \* the words the walks may read
  pool,  \* deleted_node, deleted_leaf, pending_del_* and what was taken from malloc
  todo,  \* the stores the thread that holds the mutex has still to make
  call,  \* the call that holds the mutex, with the result it will return
  get,   \* the critnib_get each thread runs
  content, \* auxiliary: the value a walk through mem finds for each key
  inserts \* counter, bounded

critnibVars == <<mem, pool, todo, call, get, content, inserts>>

-----------------------------------------------------------------------------
(* Memory                                                                  *)

Null == <<"null", 0>>
Nodes == {<<"node", i>> : i \in 1 .. MaxNodes}
Leaves == {<<"leaf", i>> : i \in 1 .. MaxLeaves}  \* is_leaf
Refs == Nodes \union Leaves \union {Null}

\* What is stored is never NULL (region_runtimes_map_create_runtime, critnib_insert's caller).
ASSUME ValuesAssumption == \A key \in Keys : Null \notin Values[key]

Root == <<"root", Null, 0>>
RemoveCount == <<"remove_count", Null, 0>>
Child(n, i) == <<"child", n, i>>
Shift(n) == <<"shift", n, 0>>
Path(n) == <<"path", n, 0>>
Key(k) == <<"key", k, 0>>
Value(k) == <<"value", k, 0>>

Links == {Root} \union {Child(n, i) : n \in Nodes, i \in 0 .. Fanout - 1}
Places == Links \union {RemoveCount} \union {Shift(n) : n \in Nodes} \union {Path(n) : n \in Nodes}
            \union {Key(k) : k \in Leaves} \union {Value(k) : k \in Leaves}

Store(place, value) == [p \in {place} |-> value]

Slice(key, shift) == (key \div Power[shift]) % Fanout           \* slice_index
PathMask(shift) == Power[Digits] - Power[shift + 1]          \* path_mask
Above(key, shift) == key - (key % Power[shift + 1])           \* key & path_mask(shift)

\* util_mssb_index64(a ^ b) rounded down to a nibble
CriticalShift_Lowest(a, b) ==
  CHOOSE s \in 0 .. Digits - 1 : Slice(a, s) # Slice(b, s) /\ a % Power[s] = b % Power[s]
CriticalShift(a, b) ==
  CHOOSE s \in 0 .. Digits - 1 : Slice(a, s) # Slice(b, s) /\ Above(a, s) = Above(b, s)

\* The link a walk for key ends at, the first one that holds no node.
EndOfWalk(m, key) ==
  LET from[p \in Links] ==
        IF m[p] \in Nodes THEN from[Child(m[p], Slice(key, m[Shift(m[p])]))] ELSE p
  IN  from[Root]

Lookup(m, key) ==
  LET k == m[EndOfWalk(m, key)]
  IN  IF k \in Leaves /\ m[Key(k)] = key THEN m[Value(k)] ELSE Null

Content(m) == [key \in Keys |-> Lookup(m, key)]

-----------------------------------------------------------------------------
(* The pools of freed nodes and leaves, linked through child[0] and value  *)

PoolLink(x) == IF x \in Nodes THEN Child(x, 0) ELSE Value(x)
Supply == [node |-> MaxNodes, leaf |-> MaxLeaves]

\* alloc_node, alloc_leaf: the object and the pool that remains, where malloc gives
\* the kinds of objects in given.
Alloc(p, kind, given) ==
  IF p.deleted[kind] # Null
  THEN <<p.deleted[kind], [p EXCEPT !.deleted[kind] = mem[PoolLink(@)]]>>
  ELSE IF kind \in given /\ p.taken[kind] < Supply[kind]
  THEN <<<<kind, p.taken[kind] + 1>>, [p EXCEPT !.taken[kind] = @ + 1]>>
  ELSE <<Null, p>>

\* free_node, free_leaf
Free(p, x) == IF x = Null THEN p ELSE [p EXCEPT !.deleted[x[1]] = x]
FreeSteps(p, x) == IF x = Null THEN << >> ELSE <<Store(PoolLink(x), p.deleted[x[1]])>>

-----------------------------------------------------------------------------
NoCall ==
  [op |-> "none", thread |-> Null, key |-> 0, value |-> Null, result |-> Null, before |-> << >>]
NoGet == [pc |-> "idle", key |-> 0, removes |-> 0, at |-> Null, result |-> Null, possible |-> {}]

Ok == <<"ok", 0>>
Exists == <<"EEXIST", 0>>
NoMemory == <<"ENOMEM", 0>>

CritnibInit ==
  /\ mem = [p \in Places |-> IF p \in Links \/ p[1] = "value" THEN Null ELSE 0]
  /\ pool = [deleted |-> [node |-> Null, leaf |-> Null],
             pending |-> [node |-> [i \in 0 .. DeletedLife - 1 |-> Null],
                          leaf |-> [i \in 0 .. DeletedLife - 1 |-> Null]],
             taken |-> [node |-> 0, leaf |-> 0]]
  /\ todo = << >>
  /\ call = NoCall
  /\ get = [t \in Readers |-> NoGet]
  /\ content = Content(mem)
  /\ inserts = 0

\* A call that has the mutex: what it stores, the pools it leaves, its result.
Begin(t, op, key, value, steps, p, result) ==
  /\ call' = [op |-> op, thread |-> t, key |-> key, value |-> value, result |-> result,
              before |-> content]
  /\ todo' = steps
  /\ pool' = p
  /\ inserts' = IF op = "insert" THEN inserts + 1 ELSE inserts
  /\ UNCHANGED <<mem, get, content>>

-----------------------------------------------------------------------------
(* critnib_insert (update = 0, as the library calls it)                    *)

\* Where the descent stops: no node, or one whose path the key does not share.
InsertionPoint_AnyPath(key) == EndOfWalk(mem, key)
InsertionPoint(key) ==
  LET from[p \in Links] ==
        IF mem[p] \in Nodes /\ mem[Path(mem[p])] = Above(key, mem[Shift(mem[p])])
        THEN from[Child(mem[p], Slice(key, mem[Shift(mem[p])]))] ELSE p
  IN  from[Root]

FillLeaf(k, key, value) == <<Store(Key(k), key), Store(Value(k), value)>>

\* A node above the leaf k and the subtree other, whose path differs from key.  One
\* step: a walk that meets the node before it is linked is stale anyway.
FillNode(n, key, k, path, other) ==
  LET shift == CriticalShift(path, key)
      child == [i \in 0 .. Fanout - 1 |-> CASE i = Slice(key, shift) -> k
                                          [] i = Slice(path, shift) -> other
                                          [] OTHER -> Null]
  IN  <<[p \in {Child(n, i) : i \in 0 .. Fanout - 1} \union {Shift(n), Path(n)} |->
           CASE p = Shift(n) -> shift [] p = Path(n) -> Above(key, shift) [] OTHER -> child[p[3]]]>>

CritnibInsert(t, key, value, given) ==
  LET leaf  == Alloc(pool, "leaf", given)
      k     == leaf[1]
      filled == FillLeaf(k, key, value)
      undone == filled \o FreeSteps(leaf[2], k)     \* free_leaf(c, to_leaf(kn))
      link  == InsertionPoint(key)
      n     == mem[link]
      path  == IF n \in Leaves THEN mem[Key(n)] ELSE mem[Path(n)]
      node  == Alloc(leaf[2], "node", given)
  IN  /\ call = NoCall
      /\ \/ k = Null /\ Begin(t, "insert", key, value, << >>, pool, NoMemory)
         \/ /\ k # Null /\ n = Null
            /\ Begin(t, "insert", key, value, filled \o <<Store(link, k)>>, leaf[2], Ok)
         \/ /\ k # Null /\ n # Null /\ path = key
            /\ Begin(t, "insert", key, value, undone, Free(leaf[2], k), Exists)
         \/ /\ k # Null /\ n # Null /\ path # key /\ node[1] = Null
            /\ Begin(t, "insert", key, value, undone, Free(leaf[2], k), NoMemory)
         \/ /\ k # Null /\ n # Null /\ path # key /\ node[1] # Null
            /\ Begin(t, "insert", key, value,
                     filled \o FillNode(node[1], key, k, path, n) \o <<Store(link, node[1])>>,
                     node[2], Ok)

-----------------------------------------------------------------------------
(* critnib_remove                                                          *)

\* What rested for DELETED_LIFE removals goes to the pools.
Expire(p, del) == Free(Free(p, p.pending.node[del]), p.pending.leaf[del])
ExpireSteps(p, del) ==
  FreeSteps(p, p.pending.node[del])
    \o FreeSteps(Free(p, p.pending.node[del]), p.pending.leaf[del])

\* n and k start to rest; Null where there is none.
Rest_NodeLost(p, del, n, k) == [p EXCEPT !.pending.node[del] = Null, !.pending.leaf[del] = k]
Rest_Swapped(p, del, n, k) == [p EXCEPT !.pending.node[del] = k, !.pending.leaf[del] = n]
Rest(p, del, n, k) == [p EXCEPT !.pending.node[del] = n, !.pending.leaf[del] = k]

\* n_parent: the link through which a walk for key comes to n.
LinkOf(n, key) ==
  LET from[p \in Links] ==
        IF mem[p] \in Nodes \ {n} THEN from[Child(mem[p], Slice(key, mem[Shift(mem[p])]))] ELSE p
  IN  from[Root]

\* The children of n beside the one that is removed.
Siblings(n, slice) == {i \in (0 .. Fanout - 1) \ {slice} : mem[Child(n, i)] # Null}

CritnibRemove(t, key) ==
  LET del    == mem[RemoveCount] % DeletedLife
      expire == <<Store(RemoveCount, mem[RemoveCount] + 1)>> \o ExpireSteps(pool, del)
      kLink  == EndOfWalk(mem, key)
      k      == mem[kLink]
      found  == k \in Leaves /\ mem[Key(k)] = key
      n      == kLink[2]
      others == Siblings(n, Slice(key, mem[Shift(n)]))
      Unlink(steps, node) ==
        Begin(t, "remove", key, Null, expire \o <<Store(kLink, Null)>> \o steps,
              Rest(Expire(pool, del), del, node, k), mem[Value(k)])
  IN  /\ call = NoCall
      /\ \/ /\ mem[Root] = Null
            /\ Begin(t, "remove", key, Null, << >>, pool, Null)
         \/ /\ mem[Root] # Null /\ ~found
            /\ Begin(t, "remove", key, Null, expire, Rest(Expire(pool, del), del, Null, Null), Null)
         \/ found /\ kLink = Root /\ Unlink(<< >>, Null)
         \/ found /\ kLink # Root /\ Cardinality(others) # 1 /\ Unlink(<< >>, Null)
         \/ /\ found /\ kLink # Root
            /\ \E i \in others : /\ others = {i}
                                 /\ Unlink(<<Store(LinkOf(n, key), mem[Child(n, i)])>>, n)

\* One store of the call that holds the mutex.  A get in progress may answer
\* with what its key means now.
WriterStep ==
  /\ todo # << >>
  /\ mem' = [p \in Places |-> IF p \in DOMAIN Head(todo) THEN Head(todo)[p] ELSE mem[p]]
  /\ todo' = Tail(todo)
  /\ content' = Content(mem')
  /\ get' = [t \in Readers |->
               IF get[t].pc = "idle" THEN get[t]
               ELSE [get[t] EXCEPT !.possible = @ \union {content'[get[t].key]}]]
  /\ UNCHANGED <<pool, call, inserts>>

\* The mutex is unlocked.
Unlock(t) ==
  /\ todo = << >>
  /\ call # NoCall /\ call.thread = t
  /\ call' = NoCall
  /\ UNCHANGED <<mem, pool, todo, get, content, inserts>>

-----------------------------------------------------------------------------
(* critnib_get                                                             *)

GetGoto(t, g, label) ==
  /\ get' = [get EXCEPT ![t] = [g EXCEPT !.pc = label]]
  /\ UNCHANGED <<mem, pool, todo, call, content, inserts>>

GetBegin(t, key) ==
  /\ get[t].pc = "idle"
  /\ GetGoto(t, [NoGet EXCEPT !.key = key, !.possible = {content[key]}], "count")

LoadCount(t) ==
  /\ get[t].pc = "count"
  /\ GetGoto(t, [get[t] EXCEPT !.removes = mem[RemoveCount]], "root")

LoadRoot(t) ==
  /\ get[t].pc = "root"
  /\ GetGoto(t, [get[t] EXCEPT !.at = mem[Root]], "walk")

LoadChild(t) ==
  /\ get[t].pc = "walk" /\ get[t].at \in Nodes
  /\ GetGoto(t, [get[t] EXCEPT !.at = mem[Child(@, Slice(get[t].key, mem[Shift(@)]))]], "walk")

Hits(g) == g.at # Null /\ mem[Key(g.at)] = g.key

LoadKey(t) ==
  /\ get[t].pc = "walk" /\ get[t].at \notin Nodes
  /\ \/ Hits(get[t]) /\ GetGoto(t, get[t], "value")
     \/ /\ ~Hits(get[t])
        /\ GetGoto(t, [get[t] EXCEPT !.at = Null, !.result = Null], "recheck")

LoadValue(t) ==
  /\ get[t].pc = "value"
  /\ GetGoto(t, [get[t] EXCEPT !.at = Null, !.result = mem[Value(get[t].at)]], "recheck")

\* Some node on the way may have been used again.
IsStale_Late(before, after) == before + DeletedLife < after
IsStale(before, after) == before + DeletedLife <= after

Recheck(t) ==
  /\ get[t].pc = "recheck"
  /\ \/ /\ IsStale(get[t].removes, mem[RemoveCount])
        /\ GetGoto(t, [get[t] EXCEPT !.removes = 0, !.result = Null], "count")
     \/ /\ ~IsStale(get[t].removes, mem[RemoveCount])
        /\ GetGoto(t, [get[t] EXCEPT !.removes = 0], "done")

GetReturns(t) ==
  /\ get[t].pc = "done"
  /\ GetGoto(t, NoGet, "idle")

GetStep(t) ==
  \/ LoadCount(t) \/ LoadRoot(t) \/ LoadChild(t) \/ LoadKey(t) \/ LoadValue(t) \/ Recheck(t)

-----------------------------------------------------------------------------
(* Queries, which run while nobody writes                                  *)

\* find_predecessor, find_successor: the last and the first leaf below n.
FindPredecessor(m, n) ==
  LET from[x \in Refs] ==
        IF x \in Leaves THEN x
        ELSE from[m[Child(x, Max({i \in 0 .. Fanout - 1 : m[Child(x, i)] # Null}))]]
  IN  from[n]
FindSuccessor(m, n) ==
  LET from[x \in Refs] ==
        IF x \in Leaves THEN x
        ELSE from[m[Child(x, Min({i \in 0 .. Fanout - 1 : m[Child(x, i)] # Null}))]]
  IN  from[n]

FindLe(m, n, key) ==
  LET from[x \in Refs] ==
        IF x = Null THEN Null
        ELSE IF x \in Leaves THEN IF m[Key(x)] <= key THEN x ELSE Null
        ELSE IF Above(key, m[Shift(x)]) # m[Path(x)]
        THEN IF m[Path(x)] < key THEN FindPredecessor(m, x) ELSE Null
        ELSE LET slice == Slice(key, m[Shift(x)])
                 inside == from[m[Child(x, slice)]]
                 left == {i \in 0 .. slice - 1 : m[Child(x, i)] # Null}
             IN  IF inside # Null \/ left = {} THEN inside
                 ELSE FindPredecessor(m, m[Child(x, Max(left))])
  IN  from[n]

FindGe(m, n, key) ==
  LET from[x \in Refs] ==
        IF x = Null THEN Null
        ELSE IF x \in Leaves THEN IF m[Key(x)] >= key THEN x ELSE Null
        ELSE IF Above(key, m[Shift(x)]) # m[Path(x)]
        THEN IF m[Path(x)] > key THEN FindSuccessor(m, x) ELSE Null
        ELSE LET slice == Slice(key, m[Shift(x)])
                 inside == from[m[Child(x, slice)]]
                 right == {i \in slice + 1 .. Fanout - 1 : m[Child(x, i)] # Null}
             IN  IF inside # Null \/ right = {} THEN inside
                 ELSE FindSuccessor(m, m[Child(x, Min(right))])
  IN  from[n]

\* critnib_find: the leaf that is found, or Null.
Find(m, key, dir) ==
  LET top == Power[Digits] - 1
      k   == m[EndOfWalk(m, key)]
  IN  CASE dir = "<"  -> IF key = 0 THEN Null ELSE FindLe(m, m[Root], key - 1)
        [] dir = "<=" -> FindLe(m, m[Root], key)
        [] dir = "="  -> IF k \in Leaves /\ m[Key(k)] = key THEN k ELSE Null
        [] dir = ">=" -> FindGe(m, m[Root], key)
        [] dir = ">"  -> IF key = top THEN Null ELSE FindGe(m, m[Root], key + 1)

\* critnib_iter, with a callback that never aborts: the keys it is called with,
\* and whether the rest of the tree is given up.
IterBelow(m, n, min, max) ==
  LET from[x \in Refs] ==
        IF x \in Leaves
        THEN [keys |-> IF m[Key(x)] \in min .. max THEN <<m[Key(x)]>> ELSE << >>, stop |-> FALSE]
        ELSE IF m[Path(x)] > max THEN [keys |-> << >>, stop |-> TRUE]
        ELSE IF PathMask(m[Shift(x)]) < min THEN [keys |-> << >>, stop |-> FALSE]
        ELSE FoldLeft(LAMBDA done, i :
                        IF done.stop \/ m[Child(x, i - 1)] = Null THEN done
                        ELSE [keys |-> done.keys \o from[m[Child(x, i - 1)]].keys,
                              stop |-> from[m[Child(x, i - 1)]].stop],
                      [keys |-> << >>, stop |-> FALSE], [i \in 1 .. Fanout |-> i])
  IN  from[n]
Iter(m, min, max) == IF m[Root] = Null THEN << >> ELSE IterBelow(m, m[Root], min, max).keys

\* critnib_delete: the objects it gives back to malloc, in order (delete_node
\* frees a subtree before its root).
DeleteFrees(m, p) ==
  LET below[x \in Refs] ==
        CASE x = Null -> << >>
          [] x \in Leaves -> <<x>>
          [] OTHER -> FoldLeft(LAMBDA done, i : done \o below[m[Child(x, i - 1)]], << >>,
                               [i \in 1 .. Fanout |-> i]) \o <<x>>
      chain[x \in Refs] == IF x = Null THEN << >> ELSE <<x>> \o chain[m[PoolLink(x)]]
      resting == [i \in 1 .. DeletedLife |-> p.pending.node[i - 1]]
                   \o [i \in 1 .. DeletedLife |-> p.pending.leaf[i - 1]]
  IN  below[m[Root]] \o chain[p.deleted.node] \o chain[p.deleted.leaf]
        \o SelectSeq(resting, LAMBDA x : x # Null)

-----------------------------------------------------------------------------
(* The critnib used by threads that call it as they like                   *)

CritnibNext ==
  \/ \E t \in Writers, key \in Keys :
       \/ /\ inserts < MaxInserts
          /\ \E v \in Values[key], given \in SUBSET {"node", "leaf"} : CritnibInsert(t, key, v, given)
       \/ mem[RemoveCount] < MaxRemoves /\ CritnibRemove(t, key)
  \/ WriterStep
  \/ \E t \in Writers : Unlock(t)
  \/ \E t \in Readers, key \in LookedUp : GetBegin(t, key)
  \/ \E t \in Readers : GetStep(t) \/ GetReturns(t)

CritnibFairSpec ==
  /\ CritnibInit /\ [][CritnibNext]_critnibVars
  /\ WF_critnibVars(WriterStep \/ \E t \in Writers : Unlock(t))
  /\ \A t \in Readers : WF_critnibVars(GetStep(t) \/ GetReturns(t))

-----------------------------------------------------------------------------
(* Properties                                                              *)

\* The words, the pools and the gets keep their types: a walk never leaves the
\* objects of the critnib (comment at critnib.c:228).
CritnibTypeOK ==
  /\ \A p \in Links : mem[p] \in Refs
  /\ mem[RemoveCount] \in Nat
  /\ \A n \in Nodes : mem[Shift(n)] \in 0 .. Digits - 1 /\ mem[Path(n)] \in Nat
  /\ \A k \in Leaves : mem[Value(k)] \in (UNION {Values[key] : key \in Keys}) \union Leaves \union {Null}
  /\ \A i \in 0 .. DeletedLife - 1 : /\ pool.pending.node[i] \in Nodes \union {Null}
                                      /\ pool.pending.leaf[i] \in Leaves \union {Null}
  /\ \A t \in Readers : get[t].at \in Refs

\* A get changes no word, so it is enough to look where none runs.
NoGetRuns == \A t \in Readers : get[t].pc = "idle"

\* What the call c reports of the content before it and of now, the content it leaves.
Exact(c, now) ==
  LET old == c.before[c.key]
  IN  \/ c.op = "insert" /\ c.result = Ok /\ old = Null /\ now = [c.before EXCEPT ![c.key] = c.value]
      \/ c.op = "insert" /\ c.result = Exists /\ old # Null /\ now = c.before
      \/ c.op = "insert" /\ c.result = NoMemory /\ now = c.before
      \/ c.op = "remove" /\ c.result = old /\ now = [c.before EXCEPT ![c.key] = Null]

\* Insertions and removals have their effect as a whole and report it: EEXIST
\* exactly for a key that has a value, and the value a removal took out, although
\* an insertion, a removal and a get descend in three different ways.
OperationsAreExact == NoGetRuns /\ todo = << >> /\ call # NoCall => Exact(call, content)

\* Each object taken from malloc is in the tree, in a pool or resting, and in one
\* of them only: critnib_delete frees each of them once.
ObjectsHaveOnePlace ==
  NoGetRuns /\ call = NoCall =>
    LET frees == DeleteFrees(mem, pool)
    IN  /\ Len(frees) = pool.taken.node + pool.taken.leaf
        /\ ToSet(frees) = {<<kind, i>> : kind \in {"node", "leaf"}, i \in 1 .. MaxNodes + MaxLeaves}
                            \intersect {x \in Refs : x # Null /\ x[2] <= pool.taken[x[1]]}

\* On a tree that insertions and removals left behind, critnib_find finds the
\* nearest key, and critnib_iter from 0, as region_runtimes_map_destroy calls it,
\* visits every key up to its limit once and in order.
QueriesAreRight ==
  NoGetRuns /\ call = NoCall =>
    LET present == {key \in Keys : content[key] # Null}
        Answers(key, dir, wanted, Best(_)) ==
          Find(mem, key, dir) = IF wanted = {} THEN Null
                                ELSE LET k == EndOfWalk(mem, Best(wanted))
                                     IN  mem[k]
    IN  \A key \in 0 .. Power[Digits] - 1 :
          /\ Answers(key, "<", {k \in present : k < key}, Max)
          /\ Answers(key, "<=", {k \in present : k <= key}, Max)
          /\ Answers(key, "=", {k \in present : k = key}, Max)
          /\ Answers(key, ">=", {k \in present : k >= key}, Min)
          /\ Answers(key, ">", {k \in present : k > key}, Min)
          /\ Iter(mem, 0, key) = SetToSortSeq({k \in present : k <= key}, <)

Abstract == INSTANCE CritnibSpec WITH
  Threads <- Readers,
  Values <- UNION {Values[key] : key \in Keys},
  map <- content,
  gets <- [t \in Readers |->
             IF get[t].pc = "idle" THEN [key |-> {}, possible |-> {}, answer |-> {}]
             ELSE [key |-> {get[t].key}, possible |-> get[t].possible,
                   answer |-> IF get[t].pc = "done" THEN {get[t].result} ELSE {}]]

\* The guarantee of the comment at critnib.c:72: an operation takes effect at one
\* store, and a get answers with a value that was current during the call.
ImplementsCritnibSpec == Abstract!Spec

\* A get whose thread keeps running returns once the writers are done: it "will
\* notice the result being bogus" after the walk (comment at critnib.c:228).
GetEnds == \A t \in Readers : (get[t].pc # "idle") ~> (get[t].pc = "idle")
=============================================================================

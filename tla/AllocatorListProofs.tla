------------------------ MODULE AllocatorListProofs -------------------------
(***************************************************************************)
(* Proofs about RegionAllocator, first part: the words of a stream and     *)
(* what an access does to them and to the medium, lists as sequences of    *)
(* regions, and what each list operation and RuntimeInit make of a list,   *)
(* with the states a power failure may find in between.                    *)
(***************************************************************************)
EXTENDS RegionAllocator, FiniteSetTheorems, WellFoundedInduction, TLAPS

-----------------------------------------------------------------------------
(* Induction over the naturals, by sets                                    *)

\* A set of natural numbers that has 0 and with n also n + 1 has them all.
LEMMA Induction ==
  ASSUME NEW S \in SUBSET Nat, 0 \in S, \A n \in S : n + 1 \in S
  PROVE  S = Nat
<1>1. SUFFICES ASSUME Nat \ S # {} PROVE FALSE
  OBVIOUS
<1> DEFINE T == Nat \ S
<1>2. T \in SUBSET Nat /\ T # {}
  BY <1>1
<1>3. PICK x \in T : \A y \in T : ~(<<y, x>> \in OpToRel(<, Nat))
  BY <1>2, NatLessThanWellFounded, WFMin
<1>4. x \in Nat /\ x # 0
  BY <1>2
<1>5. x - 1 \in Nat /\ x - 1 < x /\ x - 1 + 1 = x
  BY <1>4
<1>6. x - 1 \notin T
  BY <1>3, <1>4, <1>5 DEF OpToRel
<1> QED
  BY <1>5, <1>6

\* What holds at 0 and is kept by every step holds up to N.
LEMMA UpTo ==
  ASSUME NEW N \in Nat, NEW S \in SUBSET Nat, 0 \in S, \A n \in S : n < N => n + 1 \in S
  PROVE  0 .. N \subseteq S
<1> DEFINE T == {n \in Nat : n <= N => n \in S}
<1>1. 0 \in T
  OBVIOUS
<1>2. ASSUME NEW n \in T PROVE n + 1 \in T
  OBVIOUS
<1>3. T = Nat
  <2> HIDE DEF T
  <2>1. T \in SUBSET Nat
    BY DEF T
  <2> QED
    BY <1>1, <1>2, <2>1, Induction
<1> QED
  BY <1>3

LEMMA HasMax ==
  ASSUME NEW N \in Nat, NEW T \in SUBSET (1 .. N), T # {}
  PROVE  \E x \in T : \A y \in T : x >= y
<1> DEFINE S == {n \in Nat : \A U \in SUBSET (1 .. n) : U # {} => \E x \in U : \A y \in U : x >= y}
<1>1. 0 \in S
  <2>1. 1 .. 0 = {}
    OBVIOUS
  <2> QED
    BY <2>1
<1>2. ASSUME NEW n \in S PROVE n + 1 \in S
  <2>1. SUFFICES ASSUME NEW U \in SUBSET (1 .. n + 1), U # {}
                 PROVE  \E x \in U : \A y \in U : x >= y
    OBVIOUS
  <2>2. CASE n + 1 \in U
    BY <2>2
  <2>3. CASE n + 1 \notin U
    <3>1. U \in SUBSET (1 .. n)
      BY <2>3
    <3> QED
      BY <2>1, <3>1
  <2> QED
    BY <2>2, <2>3
<1>3. S = Nat
  <2> HIDE DEF S
  <2>1. S \in SUBSET Nat
    BY DEF S
  <2> QED
    BY <1>1, <1>2, <2>1, Induction
<1> QED
  BY <1>3

-----------------------------------------------------------------------------
(* What the folds over a sequence return                                   *)

Result(m, steps) == FoldLeft(Perform, m, steps)

\* Both folds of the module: over the accesses of a call, over the regions to mark.
MarkOne(m, steps, r) ==
  IF m[MaxValid(r)] # Invalid THEN steps ELSE Append(steps, Store(MaxValid(r), m[PersistedTimestamp]))
Combine(kind, m, sofar, x) ==
  IF kind = "perform" THEN Perform(sofar, x) ELSE MarkOne(m, sofar, x)
FoldBody(kind, m, base, s, g) ==
  [T \in SUBSET DOMAIN s |->
     IF T = {} THEN base
     ELSE Combine(kind, m, g[T \ {CHOOSE x \in T : \A y \in T : x >= y}],
                  s[CHOOSE x \in T : \A y \in T : x >= y])]

\* The recursion in MapThenFoldSet is well founded.
LEMMA FoldExists ==
  ASSUME NEW E, NEW s \in Seq(E), NEW kind, NEW m, NEW base
  PROVE  \E g : g = FoldBody(kind, m, base, s, g)
<1> DEFINE D == DOMAIN s
           Body(g) == FoldBody(kind, m, base, s, g)
           Good(n, g) == \A T \in SUBSET D : T \subseteq 1 .. n => g[T] = Body(g)[T]
           S == {n \in Nat : \E g : g = [T \in SUBSET D |-> g[T]] /\ Good(n, g)}
<1>0. D = 1 .. Len(s) /\ Len(s) \in Nat
  OBVIOUS
<1>1. 0 \in S
  <2> DEFINE G == [T \in SUBSET D |-> base]
  <2>1. G = [T \in SUBSET D |-> G[T]]
    OBVIOUS
  <2>2. Good(0, G)
    <3> SUFFICES ASSUME NEW T \in SUBSET D, T \subseteq 1 .. 0 PROVE G[T] = Body(G)[T]
      OBVIOUS
    <3>1. T = {}
      OBVIOUS
    <3> HIDE DEF G
    <3>2. Body(G)[T] = base
      BY <3>1 DEF FoldBody
    <3> HIDE DEF Body
    <3> QED
      BY <3>2 DEF G
  <2>3. \E g : g = [T \in SUBSET D |-> g[T]] /\ Good(0, g)
    <3> HIDE DEF Good, G
    <3> QED
      BY <2>1, <2>2
  <2> HIDE DEF Good
  <2> QED
    BY <2>3
<1>2. ASSUME NEW n \in S PROVE n + 1 \in S
  <2>1. n \in Nat /\ n + 1 \in Nat
    OBVIOUS
  <2>2. PICK F : F = [T \in SUBSET D |-> F[T]] /\ Good(n, F)
    <3> HIDE DEF Good
    <3> QED
      OBVIOUS
  <2> DEFINE G == [T \in SUBSET D |-> IF T \subseteq 1 .. n THEN F[T] ELSE Body(F)[T]]
  <2>3. G = [T \in SUBSET D |-> G[T]]
    OBVIOUS
  <2>4. ASSUME NEW T \in SUBSET D, T \subseteq 1 .. n + 1 PROVE G[T] = Body(G)[T]
    <3>1. G[T] = Body(F)[T]
      <4> HIDE DEF Body
      <4> QED
        BY <2>2
    <3>2. CASE T # {}
      <4> DEFINE x == CHOOSE x \in T : \A y \in T : x >= y
      <4>1. x \in T /\ \A y \in T : x >= y
        <5>1. T \in SUBSET (1 .. n + 1)
          BY <2>4
        <5>2. \E z \in T : \A y \in T : z >= y
          BY <2>1, <3>2, <5>1, HasMax
        <5> QED
          BY <5>2
      <4>2. T \ {x} \in SUBSET D /\ T \ {x} \subseteq 1 .. n
        <5> HIDE DEF x
        <5> QED
          BY <4>1, <2>1, <2>4
      <4>3. G[T \ {x}] = F[T \ {x}]
        BY <4>2
      <4>4. Body(F)[T] = Combine(kind, m, F[T \ {x}], s[x]) /\ Body(G)[T] = Combine(kind, m, G[T \ {x}], s[x])
        <5> HIDE DEF G
        <5> QED
          BY <3>2 DEF FoldBody
      <4> HIDE DEF x, G, Body
      <4> QED
        BY <3>1, <4>3, <4>4
    <3>3. CASE T = {}
      <4>1. Body(F)[T] = base /\ Body(G)[T] = base
        <5> HIDE DEF G
        <5> QED
          BY <3>3 DEF FoldBody
      <4> HIDE DEF Body, G
      <4> QED
        BY <3>1, <4>1
    <3> QED
      BY <3>2, <3>3
  <2>5. Good(n + 1, G)
    <3> HIDE DEF G, Body
    <3> QED
      BY <2>4
  <2>6. \E g : g = [T \in SUBSET D |-> g[T]] /\ Good(n + 1, g)
    <3> HIDE DEF Good, G
    <3> QED
      BY <2>3, <2>5
  <2> HIDE DEF Good
  <2> QED
    BY <2>1, <2>6
<1>3. S = Nat
  <2> HIDE DEF S
  <2>1. S \in SUBSET Nat
    BY DEF S
  <2> QED
    BY <1>1, <1>2, <2>1, Induction
<1>4. PICK g : g = [T \in SUBSET D |-> g[T]] /\ Good(Len(s), g)
  <2> HIDE DEF Good
  <2> QED
    BY <1>0, <1>3
<1>5. \A T \in SUBSET D : g[T] = Body(g)[T]
  <2> HIDE DEF Body
  <2> QED
    BY <1>0, <1>4
<1>6. Body(g) = [T \in SUBSET D |-> Body(g)[T]]
  BY DEF FoldBody
<1>7. g = Body(g)
  <2> HIDE DEF Body
  <2> QED
    BY <1>4, <1>5, <1>6
<1> QED
  BY <1>7

\* A sequence is folded one element after the other.
IsTrace(kind, m, base, s, h) ==
  /\ h[0] = base
  /\ \A i \in 1 .. Len(s) : h[i] = Combine(kind, m, h[i - 1], s[i])

LEMMA FoldTrace ==
  ASSUME NEW E, NEW s \in Seq(E), NEW kind, NEW m, NEW base,
         NEW g, g = FoldBody(kind, m, base, s, g)
  PROVE  \E h : IsTrace(kind, m, base, s, h) /\ g[DOMAIN s] = h[Len(s)]
<1> DEFINE h == [i \in 0 .. Len(s) |-> g[1 .. i]]
<1>1. Len(s) \in Nat /\ DOMAIN s = 1 .. Len(s)
  OBVIOUS
<1>2. h[0] = base
  <2>1. 1 .. 0 = {} /\ {} \in SUBSET DOMAIN s
    OBVIOUS
  <2>2. g[{}] = base
    BY <2>1 DEF FoldBody
  <2> QED
    BY <1>1, <2>1, <2>2
<1>3. ASSUME NEW i \in 1 .. Len(s) PROVE h[i] = Combine(kind, m, h[i - 1], s[i])
  <2> DEFINE T == 1 .. i
             x == CHOOSE x \in T : \A y \in T : x >= y
  <2>1. T \in SUBSET DOMAIN s /\ T # {} /\ i \in T /\ \A y \in T : i >= y
    <3>1. i \in Nat /\ i >= 1 /\ i <= Len(s)
      BY <1>1
    <3>2. i \in T /\ \A y \in T : i >= y
      BY <3>1
    <3>3. \A y \in T : y \in 1 .. Len(s)
      BY <3>1, <1>1
    <3> HIDE DEF T
    <3> QED
      BY <3>2, <3>3, <1>1
  <2>2. x = i
    <3>1. x \in T /\ \A y \in T : x >= y
      BY <2>1
    <3> HIDE DEF x
    <3> QED
      BY <3>1, <2>1
  <2>3. g[T] = Combine(kind, m, g[T \ {x}], s[x])
    <3> HIDE DEF T
    <3> QED
      BY <2>1 DEF FoldBody
  <2>4. T \ {i} = 1 .. i - 1 /\ i - 1 \in 0 .. Len(s) /\ i \in 0 .. Len(s)
    BY <1>1
  <2> HIDE DEF x, T
  <2>5. g[T] = Combine(kind, m, g[1 .. i - 1], s[i])
    BY <2>2, <2>3, <2>4
  <2> QED
    BY <2>4, <2>5 DEF T
<1>4. h[Len(s)] = g[DOMAIN s]
  BY <1>1
<1> HIDE DEF h
<1> QED
  BY <1>2, <1>3, <1>4 DEF IsTrace

LEMMA ResultTrace ==
  ASSUME NEW E, NEW s \in Seq(E), NEW m
  PROVE  \E h : IsTrace("perform", m, m, s, h) /\ Result(m, s) = h[Len(s)]
<1> DEFINE Body(g) == [T \in SUBSET DOMAIN s |->
             IF T = {} THEN m
             ELSE Perform(g[T \ {CHOOSE x \in T : \A y \in T : x >= y}],
                          s[CHOOSE x \in T : \A y \in T : x >= y])]
           Iter == CHOOSE g : g = Body(g)
<1>1. \A g : Body(g) = FoldBody("perform", m, m, s, g)
  BY DEF FoldBody, Combine
<1>2. Result(m, s) = Iter[DOMAIN s]
  BY DEF Result, FoldLeft, MapThenFoldSet, Max
<1> HIDE DEF Body
<1>3. \E g : g = Body(g)
  BY <1>1, FoldExists
<1>4. Iter = Body(Iter)
  BY <1>3
<1> HIDE DEF Iter
<1> QED
  BY <1>1, <1>2, <1>4, FoldTrace

LEMMA MarkTrace ==
  ASSUME NEW m, Listed(m, "allocated") \in Seq(Regions)
  PROVE  \E h : /\ IsTrace("mark", m, << >>, Listed(m, "allocated"), h)
                /\ MarkSteps(m) = h[Len(Listed(m, "allocated"))]
<1> DEFINE s == Listed(m, "allocated")
           Body(g) == [T \in SUBSET DOMAIN s |->
             IF T = {} THEN << >>
             ELSE MarkOne(m, g[T \ {CHOOSE x \in T : \A y \in T : x >= y}],
                          s[CHOOSE x \in T : \A y \in T : x >= y])]
           Iter == CHOOSE g : g = Body(g)
<1>1. \A g : Body(g) = FoldBody("mark", m, << >>, s, g)
  BY DEF FoldBody, Combine
<1>2. MarkSteps(m) = Iter[DOMAIN s]
  BY DEF MarkSteps, FoldLeft, MapThenFoldSet, Max, MarkOne
<1> HIDE DEF Body, s
<1>3. \E g : g = Body(g)
  BY <1>1, FoldExists DEF s
<1>4. Iter = Body(Iter)
  BY <1>3
<1> HIDE DEF Iter
<1>5. \E h : IsTrace("mark", m, << >>, s, h) /\ Iter[DOMAIN s] = h[Len(s)]
  BY <1>1, <1>4, FoldTrace DEF s
<1> QED
  BY <1>2, <1>5 DEF s

-----------------------------------------------------------------------------
(* Words                                                                   *)

Lists == {"free", "allocated"}
Links == Regions \union {Invalid}

\* The words of a list: its head, its tail and the links of all regions.
ListWords(l) == {w \in Words : w[2] = l}

\* What a word may hold: links are offsets of regions or invalid.
Holds(w) ==
  IF w[1] \in {"head", "tail", "next", "recovery_free_offset"} THEN Links
  ELSE IF w[1] = "free_offset" THEN 0 .. Capacity ELSE 0 .. Invalid

LEMMA PlaceFacts ==
  /\ Capacity \in Nat /\ Capacity >= 1 /\ Invalid \in Nat /\ Invalid > Capacity
  /\ Regions \subseteq Places /\ Regions \subseteq Nat /\ Invalid \notin Places
  /\ Links \subseteq 0 .. Invalid /\ Regions \subseteq Links /\ Invalid \in Links
BY AllocatorAssumption DEF Regions, Places, Invalid, Links

\* The head, the tail and the links of a list are different words.
LEMMA ListWordFacts ==
  ASSUME NEW l \in Lists
  PROVE  /\ Hd(l) \in ListWords(l) /\ Tl(l) \in ListWords(l) /\ Hd(l) # Tl(l)
         /\ \A r \in Places : Nxt(l, r) \in ListWords(l)
         /\ \A r \in Places : Nxt(l, r) # Hd(l) /\ Nxt(l, r) # Tl(l)
         /\ \A r, q \in Places : Nxt(l, r) = Nxt(l, q) => r = q
         /\ Holds(Hd(l)) = Links /\ Holds(Tl(l)) = Links
         /\ \A r \in Places : Holds(Nxt(l, r)) = Links
         /\ ListWords(l) \subseteq Words
BY DEF Lists, ListWords, Words, Hd, Tl, Nxt, Holds

\* The lists have no word in common, and no word of the header or of a region's
\* content belongs to a list.
LEMMA ListWordsApart ==
  /\ ListWords("free") \intersect ListWords("allocated") = {}
  /\ \A l \in Lists :
       /\ FreeOffset \notin ListWords(l) /\ RecoveryFreeOffset \notin ListWords(l)
       /\ PersistedTimestamp \notin ListWords(l)
       /\ \A r \in Places : Data(r) \notin ListWords(l) /\ MaxValid(r) \notin ListWords(l)
       /\ Signature \intersect ListWords(l) = {}
       /\ Size("stream") \notin ListWords(l) /\ Size("block") \notin ListWords(l)
BY DEF ListWords, Lists, FreeOffset, RecoveryFreeOffset, PersistedTimestamp, Data, MaxValid,
       Signature, Size

LEMMA HeaderWordFacts ==
  /\ FreeOffset \in Words /\ RecoveryFreeOffset \in Words /\ PersistedTimestamp \in Words
  /\ Size("stream") \in Words /\ Size("block") \in Words /\ Signature \subseteq Words
  /\ \A r \in Places : Data(r) \in Words /\ MaxValid(r) \in Words
  /\ Holds(FreeOffset) = 0 .. Capacity /\ Holds(RecoveryFreeOffset) = Links
  /\ Holds(PersistedTimestamp) = 0 .. Invalid
  /\ Holds(Size("stream")) = 0 .. Invalid /\ Holds(Size("block")) = 0 .. Invalid
  /\ \A w \in Signature : Holds(w) = 0 .. Invalid
  /\ \A r \in Places : Holds(Data(r)) = 0 .. Invalid /\ Holds(MaxValid(r)) = 0 .. Invalid
BY DEF Words, FreeOffset, RecoveryFreeOffset, PersistedTimestamp, Data, MaxValid, Signature, Size,
       Holds

LEMMA HeaderWordsApart ==
  /\ FreeOffset # RecoveryFreeOffset /\ FreeOffset # PersistedTimestamp
  /\ RecoveryFreeOffset # PersistedTimestamp
  /\ \A w \in Signature \union {Size("stream"), Size("block")} :
       w # FreeOffset /\ w # RecoveryFreeOffset /\ w # PersistedTimestamp
  /\ \A r \in Places : \A w \in Signature \union
           {Size("stream"), Size("block"), FreeOffset, RecoveryFreeOffset, PersistedTimestamp} :
       w # Data(r) /\ w # MaxValid(r)
  /\ \A r, q \in Places : Data(r) # MaxValid(q)
  /\ \A r, q \in Places : (Data(r) = Data(q) => r = q) /\ (MaxValid(r) = MaxValid(q) => r = q)
  /\ Size("stream") # Size("block") /\ \A w \in Signature : w # Size("stream") /\ w # Size("block")
BY DEF FreeOffset, RecoveryFreeOffset, PersistedTimestamp, Data, MaxValid, Signature, Size

-----------------------------------------------------------------------------
(* Memory with what a power failure may leave of it                        *)

Memories == {c \in [Words -> 0 .. Invalid] : \A w \in Words : c[w] \in Holds(w)}
Media == {m \in [Words -> SUBSET (0 .. Invalid)] : \A w \in Words : m[w] \subseteq Holds(w)}
States == {s \in [cache : Memories, medium : Media] : \A w \in Words : s.cache[w] \in s.medium[w]}

\* What a power failure may leave.
Images(m) == {c \in Memories : \A w \in Words : c[w] \in m[w]}

Settled(c) == [w \in Words |-> {c[w]}]

Accesses == [access : {"store"}, word : Words, value : 0 .. Invalid]
              \union {Drain} \union {Check(l) : l \in Lists}

\* The effect of an access, as in Step.
Access(s, step) ==
  [cache  |-> Perform(s.cache, step),
   medium |-> CASE step.access = "store" -> [s.medium EXCEPT ![step.word] = @ \union {step.value}]
                [] step.access = "drain" -> Settled(s.cache)
                [] OTHER -> s.medium]

LEMMA StateFacts ==
  ASSUME NEW s \in States
  PROVE  /\ s = [cache |-> s.cache, medium |-> s.medium]
         /\ s.cache \in Memories /\ s.medium \in Media /\ s.cache \in Images(s.medium)
         /\ \A w \in Words : s.cache[w] \in s.medium[w] /\ s.medium[w] \subseteq Holds(w)
         /\ \A w \in Words : s.cache[w] \in Holds(w)
BY DEF States, Media, Memories, Images

LEMMA AccessStore ==
  ASSUME NEW s \in States, NEW w \in Words, NEW v \in Holds(w)
  PROVE  /\ Store(w, v) \in Accesses /\ Access(s, Store(w, v)) \in States
         /\ Access(s, Store(w, v)).cache = [s.cache EXCEPT ![w] = v]
         /\ Access(s, Store(w, v)).medium = [s.medium EXCEPT ![w] = @ \union {v}]
<1>1. v \in 0 .. Invalid
  BY PlaceFacts DEF Holds
<1>2. Store(w, v) \in Accesses
  BY <1>1 DEF Store, Accesses
<1>3. /\ Access(s, Store(w, v)).cache = [s.cache EXCEPT ![w] = v]
      /\ Access(s, Store(w, v)).medium = [s.medium EXCEPT ![w] = @ \union {v}]
  BY DEF Access, Perform, Store
<1>4. [s.cache EXCEPT ![w] = v] \in Memories
  BY <1>1 DEF States, Memories
<1>5. [s.medium EXCEPT ![w] = @ \union {v}] \in Media
  BY <1>1 DEF States, Media
<1>6. \A x \in Words : [s.cache EXCEPT ![w] = v][x] \in [s.medium EXCEPT ![w] = @ \union {v}][x]
  BY DEF States, Memories, Media
<1>7. Access(s, Store(w, v)) = [cache |-> Access(s, Store(w, v)).cache,
                                medium |-> Access(s, Store(w, v)).medium]
  BY DEF Access
<1> QED
  BY <1>2, <1>3, <1>4, <1>5, <1>6, <1>7 DEF States

LEMMA AccessDrain ==
  ASSUME NEW s \in States
  PROVE  /\ Drain \in Accesses /\ Access(s, Drain) \in States
         /\ Access(s, Drain) = [cache |-> s.cache, medium |-> Settled(s.cache)]
<1>1. Access(s, Drain) = [cache |-> s.cache, medium |-> Settled(s.cache)]
  BY DEF Access, Perform, Drain
<1>2. Settled(s.cache) \in Media
  BY DEF Settled, Media, States, Memories
<1>3. \A w \in Words : s.cache[w] \in Settled(s.cache)[w]
  BY DEF Settled
<1> QED
  BY <1>1, <1>2, <1>3 DEF States, Accesses

LEMMA AccessCheck ==
  ASSUME NEW s \in States, NEW l \in Lists
  PROVE  Check(l) \in Accesses /\ Access(s, Check(l)) = s
BY DEF Access, Perform, Check, Accesses, States

LEMMA SettledImages ==
  ASSUME NEW m \in Memories, NEW c \in Images(Settled(m))
  PROVE  c = m
BY DEF Images, Settled, Memories

LEMMA SettledState ==
  ASSUME NEW m \in Memories
  PROVE  /\ [cache |-> m, medium |-> Settled(m)] \in States
         /\ \A w \in Words : Settled(m)[w] = {m[w]}
BY DEF States, Settled, Media, Memories

-----------------------------------------------------------------------------
(* What a call does to the memory, access by access                        *)

\* The accesses steps lead from s to t, through states in C only, and no assert fails.
Reach(s, steps, t, C) ==
  /\ steps \in Seq(Accesses)
  /\ \E h \in [0 .. Len(steps) -> C] :
       /\ h[0] = s /\ h[Len(steps)] = t
       /\ \A i \in 1 .. Len(steps) :
            /\ h[i] = Access(h[i - 1], steps[i])
            /\ steps[i].access = "assert" => SlistInvariants(h[i - 1].cache, steps[i].list)

LEMMA ReachNone ==
  ASSUME NEW C, NEW s \in C
  PROVE  Reach(s, << >>, s, C)
<1> DEFINE h == [i \in 0 .. 0 |-> s]
<1>1. h \in [0 .. Len(<< >>) -> C] /\ h[0] = s /\ h[Len(<< >>)] = s
  OBVIOUS
<1>2. 1 .. Len(<< >>) = {} /\ << >> \in Seq(Accesses)
  OBVIOUS
<1> HIDE DEF h
<1> QED
  BY <1>1, <1>2 DEF Reach

LEMMA ReachEnds ==
  ASSUME NEW C, NEW s, NEW t, NEW a, Reach(s, a, t, C)
  PROVE  a \in Seq(Accesses) /\ s \in C /\ t \in C
BY DEF Reach

\* One call after the other.
LEMMA ReachThen ==
  ASSUME NEW C, NEW s, NEW t, NEW u, NEW a, NEW b, Reach(s, a, t, C), Reach(t, b, u, C)
  PROVE  Reach(s, a \o b, u, C)
<1>1. a \in Seq(Accesses) /\ b \in Seq(Accesses)
  BY DEF Reach
<1>2. PICK f \in [0 .. Len(a) -> C] :
        /\ f[0] = s /\ f[Len(a)] = t
        /\ \A i \in 1 .. Len(a) :
             /\ f[i] = Access(f[i - 1], a[i])
             /\ a[i].access = "assert" => SlistInvariants(f[i - 1].cache, a[i].list)
  BY DEF Reach
<1>3. PICK g \in [0 .. Len(b) -> C] :
        /\ g[0] = t /\ g[Len(b)] = u
        /\ \A i \in 1 .. Len(b) :
             /\ g[i] = Access(g[i - 1], b[i])
             /\ b[i].access = "assert" => SlistInvariants(g[i - 1].cache, b[i].list)
  BY DEF Reach
<1> DEFINE h == [i \in 0 .. Len(a \o b) |-> IF i <= Len(a) THEN f[i] ELSE g[i - Len(a)]]
<1>4. /\ Len(a) \in Nat /\ Len(b) \in Nat /\ Len(a \o b) = Len(a) + Len(b)
      /\ a \o b \in Seq(Accesses)
      /\ \A i \in 1 .. Len(a) + Len(b) :
           (a \o b)[i] = IF i <= Len(a) THEN a[i] ELSE b[i - Len(a)]
  BY <1>1
<1>5. h \in [0 .. Len(a \o b) -> C]
  BY <1>2, <1>3, <1>4
<1>6. h[0] = s /\ h[Len(a \o b)] = u
  <2>1. h[0] = f[0]
    BY <1>4
  <2>2. h[Len(a) + Len(b)] = g[Len(b)]
    BY <1>2, <1>3, <1>4
  <2> QED
    BY <2>1, <2>2, <1>2, <1>3, <1>4
<1>7. ASSUME NEW i \in 1 .. Len(a \o b)
      PROVE  /\ h[i] = Access(h[i - 1], (a \o b)[i])
             /\ (a \o b)[i].access = "assert" => SlistInvariants(h[i - 1].cache, (a \o b)[i].list)
  <2>1. CASE i <= Len(a)
    <3>1. h[i] = f[i] /\ h[i - 1] = f[i - 1] /\ (a \o b)[i] = a[i] /\ i \in 1 .. Len(a)
      BY <1>4, <2>1
    <3> HIDE DEF h
    <3> QED
      BY <3>1, <1>2
  <2>2. CASE i > Len(a)
    <3> DEFINE j == i - Len(a)
    <3>1. j \in 1 .. Len(b) /\ (a \o b)[i] = b[j]
      BY <1>4, <2>2
    <3>2. h[i] = g[j]
      BY <1>4, <2>2
    <3>3. h[i - 1] = g[j - 1]
      <4>1. CASE j = 1
        <5>1. i - 1 = Len(a) /\ h[Len(a)] = f[Len(a)] /\ j - 1 = 0
          BY <4>1, <1>4
        <5> HIDE DEF h, j
        <5> QED
          BY <5>1, <1>2, <1>3
      <4>2. CASE j # 1
        <5>1. i \in Nat /\ i <= Len(a) + Len(b) /\ i > Len(a) + 1
          BY <4>2, <1>4, <2>2
        <5>2. i - 1 > Len(a) /\ i - 1 - Len(a) = j - 1 /\ i - 1 \in 0 .. Len(a \o b)
          BY <5>1, <1>4
        <5>3. h[i - 1] = g[i - 1 - Len(a)]
          BY <5>2, <1>4
        <5> HIDE DEF h, j
        <5> QED
          BY <5>2, <5>3
      <4> QED
        BY <4>1, <4>2
    <3> HIDE DEF h, j
    <3> QED
      BY <3>1, <3>2, <3>3, <1>3
  <2> QED
    BY <2>1, <2>2, <1>4
<1> HIDE DEF h
<1> QED
  BY <1>4, <1>5, <1>6, <1>7 DEF Reach

LEMMA ReachOne ==
  ASSUME NEW C, NEW s \in C, NEW x \in Accesses, Access(s, x) \in C,
         x.access = "assert" => SlistInvariants(s.cache, x.list)
  PROVE  Reach(s, <<x>>, Access(s, x), C)
<1> DEFINE h == [i \in 0 .. 1 |-> IF i = 0 THEN s ELSE Access(s, x)]
           a == <<x>>
<1>1. Len(a) = 1 /\ a[1] = x /\ a \in Seq(Accesses)
  OBVIOUS
<1>2. h \in [0 .. 1 -> C] /\ h[0] = s /\ h[1] = Access(s, x)
  OBVIOUS
<1>3. \A i \in 1 .. Len(a) : i = 1 /\ i - 1 = 0
  BY <1>1
<1> HIDE DEF h, a
<1>4. Reach(s, a, Access(s, x), C)
  BY <1>1, <1>2, <1>3 DEF Reach
<1> QED
  BY <1>4 DEF a

LEMMA ReachWider ==
  ASSUME NEW C, NEW D, NEW s, NEW t, NEW a, Reach(s, a, t, C), C \subseteq D
  PROVE  Reach(s, a, t, D)
<1>1. [0 .. Len(a) -> C] \subseteq [0 .. Len(a) -> D]
  OBVIOUS
<1> QED
  BY <1>1 DEF Reach

\* What is left when the first access is made.
LEMMA ReachRest ==
  ASSUME NEW C, NEW s, NEW t, NEW a, Reach(s, a, t, C), a # << >>
  PROVE  /\ Head(a) \in Accesses /\ Tail(a) \in Seq(Accesses)
         /\ Reach(Access(s, Head(a)), Tail(a), t, C)
         /\ Head(a).access = "assert" => SlistInvariants(s.cache, Head(a).list)
<1>1. a \in Seq(Accesses) /\ Len(a) \in Nat /\ Len(a) > 0
  BY DEF Reach
<1>2. PICK f \in [0 .. Len(a) -> C] :
        /\ f[0] = s /\ f[Len(a)] = t
        /\ \A i \in 1 .. Len(a) :
             /\ f[i] = Access(f[i - 1], a[i])
             /\ a[i].access = "assert" => SlistInvariants(f[i - 1].cache, a[i].list)
  BY DEF Reach
<1> DEFINE b == Tail(a)
           h == [i \in 0 .. Len(b) |-> f[i + 1]]
<1>3. /\ b \in Seq(Accesses) /\ Len(b) = Len(a) - 1 /\ Head(a) = a[1] /\ a[1] \in Accesses
      /\ \A i \in 1 .. Len(b) : b[i] = a[i + 1]
  BY <1>1
<1>4. h \in [0 .. Len(b) -> C] /\ h[0] = f[1] /\ h[Len(b)] = f[Len(a)]
  <2> HIDE DEF b
  <2> QED
    BY <1>1, <1>3
<1>5. ASSUME NEW i \in 1 .. Len(b)
      PROVE  /\ h[i] = Access(h[i - 1], b[i])
             /\ b[i].access = "assert" => SlistInvariants(h[i - 1].cache, b[i].list)
  <2>1. /\ h[i] = f[i + 1] /\ h[i - 1] = f[i] /\ i + 1 \in 1 .. Len(a) /\ i + 1 - 1 = i
        /\ b[i] = a[i + 1]
    <3> HIDE DEF b
    <3> QED
      BY <1>1, <1>3
  <2> HIDE DEF h, b
  <2> QED
    BY <2>1, <1>2
<1>6. f[1] = Access(s, Head(a)) /\ (Head(a).access = "assert" => SlistInvariants(s.cache, Head(a).list))
  <2>1. 1 \in 1 .. Len(a) /\ 1 - 1 = 0
    BY <1>1
  <2> QED
    BY <2>1, <1>2, <1>3
<1> HIDE DEF h
<1>7. Reach(Access(s, Head(a)), b, t, C)
  <2> HIDE DEF b
  <2> QED
    BY <1>2, <1>3, <1>4, <1>5, <1>6 DEF Reach
<1> QED
  BY <1>3, <1>6, <1>7

LEMMA ReachEmpty ==
  ASSUME NEW C, NEW s, NEW t, Reach(s, << >>, t, C)
  PROVE  t = s
BY DEF Reach

\* The cache at the end is what Then computes for what follows.
LEMMA ReachResult ==
  ASSUME NEW C, NEW s, NEW t, NEW a, Reach(s, a, t, C)
  PROVE  Result(s.cache, a) = t.cache
<1>1. a \in Seq(Accesses) /\ Len(a) \in Nat
  BY DEF Reach
<1>2. PICK f \in [0 .. Len(a) -> C] :
        /\ f[0] = s /\ f[Len(a)] = t
        /\ \A i \in 1 .. Len(a) : f[i] = Access(f[i - 1], a[i])
  BY DEF Reach
<1>3. PICK g : IsTrace("perform", s.cache, s.cache, a, g) /\ Result(s.cache, a) = g[Len(a)]
  BY <1>1, ResultTrace
<1> DEFINE S == {n \in Nat : n <= Len(a) => g[n] = f[n].cache}
<1>4. 0 \in S
  BY <1>2, <1>3 DEF IsTrace
<1>5. ASSUME NEW n \in S, n < Len(a) PROVE n + 1 \in S
  <2>1. n + 1 \in 1 .. Len(a) /\ n + 1 - 1 = n /\ g[n] = f[n].cache
    BY <1>1, <1>5
  <2>2. g[n + 1] = Combine("perform", s.cache, g[n], a[n + 1]) /\ f[n + 1] = Access(f[n], a[n + 1])
    BY <1>2, <1>3, <2>1 DEF IsTrace
  <2>3. g[n + 1] = Perform(g[n], a[n + 1])
    BY <2>2 DEF Combine
  <2>4. f[n + 1].cache = Perform(f[n].cache, a[n + 1])
    BY <2>2 DEF Access
  <2> QED
    BY <2>1, <2>3, <2>4
<1>6. Len(a) \in S
  <2> HIDE DEF S
  <2>1. S \in SUBSET Nat
    BY DEF S
  <2>2. 0 .. Len(a) \subseteq S
    BY <1>1, <1>4, <1>5, <2>1, UpTo
  <2> QED
    BY <2>2, <1>1
<1> QED
  BY <1>1, <1>2, <1>3, <1>6

-----------------------------------------------------------------------------
(* Single accesses and the pairs that make one store durable               *)

Put(s, w, v) == Access(s, Store(w, v))
Flushed(s) == Access(s, Drain)

LEMMA ReachStore ==
  ASSUME NEW C, NEW s \in C, C \subseteq States, NEW w \in Words, NEW v \in Holds(w), Put(s, w, v) \in C
  PROVE  Reach(s, <<Store(w, v)>>, Put(s, w, v), C)
<1>1. Store(w, v) \in Accesses /\ Store(w, v).access # "assert"
  BY AccessStore DEF Store
<1> QED
  BY <1>1, ReachOne DEF Put

LEMMA ReachDrain ==
  ASSUME NEW C, NEW s \in C, C \subseteq States, Flushed(s) \in C
  PROVE  Reach(s, <<Drain>>, Flushed(s), C)
<1>1. Drain \in Accesses /\ Drain.access # "assert"
  BY DEF Drain, Accesses
<1> QED
  BY <1>1, ReachOne DEF Flushed

LEMMA ReachCheck ==
  ASSUME NEW C, NEW s \in C, C \subseteq States, NEW l \in Lists, SlistInvariants(s.cache, l)
  PROVE  Reach(s, <<Check(l)>>, s, C)
<1>1. Check(l) \in Accesses /\ Access(s, Check(l)) = s /\ Check(l).list = l
  BY AccessCheck DEF Check
<1> QED
  BY <1>1, ReachOne

\* A drain adds no image that was not there.
LEMMA FlushedFacts ==
  ASSUME NEW s \in States
  PROVE  /\ Flushed(s) \in States /\ Flushed(s).cache = s.cache
         /\ Flushed(s).medium = Settled(s.cache)
         /\ \A w \in Words : Flushed(s).medium[w] = {s.cache[w]} /\ Flushed(s).medium[w] \subseteq s.medium[w]
         /\ Images(Flushed(s).medium) \subseteq Images(s.medium)
         /\ \A c \in Images(Flushed(s).medium) : c = s.cache
<1>1. /\ Flushed(s) \in States /\ Flushed(s).cache = s.cache
      /\ Flushed(s).medium = Settled(s.cache)
  BY AccessDrain DEF Flushed
<1>2. \A w \in Words : Settled(s.cache)[w] = {s.cache[w]}
  BY DEF Settled
<1>3. \A w \in Words : Settled(s.cache)[w] \subseteq s.medium[w]
  BY <1>2, StateFacts
<1>4. \A c \in Images(Settled(s.cache)) : c = s.cache
  BY SettledImages, StateFacts
<1> QED
  BY <1>1, <1>2, <1>3, <1>4, StateFacts

LEMMA PutFacts ==
  ASSUME NEW s \in States, NEW w \in Words, NEW v \in Holds(w)
  PROVE  /\ Put(s, w, v) \in States
         /\ Put(s, w, v).cache[w] = v
         /\ \A x \in Words \ {w} : Put(s, w, v).cache[x] = s.cache[x]
         /\ Put(s, w, v).medium[w] = s.medium[w] \union {v}
         /\ \A x \in Words \ {w} : Put(s, w, v).medium[x] = s.medium[x]
<1>1. s.cache \in [Words -> 0 .. Invalid] /\ s.medium \in [Words -> SUBSET (0 .. Invalid)]
  BY DEF States, Memories, Media
<1>2. /\ Put(s, w, v) \in States
      /\ Put(s, w, v).cache = [s.cache EXCEPT ![w] = v]
      /\ Put(s, w, v).medium = [s.medium EXCEPT ![w] = @ \union {v}]
  BY AccessStore DEF Put
<1> HIDE DEF Put
<1> QED
  BY <1>1, <1>2

\* What reached the medium with a store of v under way is v or what it was before.
LEMMA PutImages ==
  ASSUME NEW s \in States, NEW w \in Words, NEW v \in Holds(w), NEW c \in Images(Put(s, w, v).medium)
  PROVE  /\ c \in Memories
         /\ \A x \in Words \ {w} : c[x] \in s.medium[x]
         /\ c[w] = v \/ (c[w] \in s.medium[w] /\ c \in Images(s.medium))
<1>1. c \in Memories /\ \A x \in Words : c[x] \in Put(s, w, v).medium[x]
  BY DEF Images
<1>2. \A x \in Words \ {w} : c[x] \in s.medium[x]
  BY <1>1, PutFacts
<1>3. c[w] = v \/ c[w] \in s.medium[w]
  BY <1>1, PutFacts
<1>4. c[w] \in s.medium[w] => c \in Images(s.medium)
  BY <1>1, <1>2 DEF Images
<1> QED
  BY <1>1, <1>2, <1>3, <1>4

LEMMA ConcatFacts ==
  ASSUME NEW E, NEW a \in Seq(E), NEW b \in Seq(E)
  PROVE  /\ a \o b \in Seq(E) /\ Len(a \o b) = Len(a) + Len(b)
         /\ \A i \in 1 .. Len(a) + Len(b) : (a \o b)[i] = IF i <= Len(a) THEN a[i] ELSE b[i - Len(a)]
OBVIOUS

LEMMA PairConcat ==
  ASSUME NEW E, NEW x \in E, NEW y \in E
  PROVE  <<x>> \o <<y>> = <<x, y>>
<1>1. PICK a : a = <<x>>
  OBVIOUS
<1>2. PICK b : b = <<y>>
  OBVIOUS
<1>3. a \in Seq(E) /\ Len(a) = 1 /\ a[1] = x /\ b \in Seq(E) /\ Len(b) = 1 /\ b[1] = y
  BY <1>1, <1>2
<1>4. PICK c : c = a \o b
  OBVIOUS
<1>5. c \in Seq(E) /\ Len(c) = 2 /\ \A i \in 1 .. 2 : c[i] = IF i <= 1 THEN a[i] ELSE b[i - 1]
  BY <1>3, <1>4, ConcatFacts
<1>6. c[1] = x /\ c[2] = y
  BY <1>3, <1>5
<1>7. c = <<x, y>>
  BY <1>5, <1>6
<1> QED
  BY <1>1, <1>2, <1>4, <1>7

LEMMA ReachPersist ==
  ASSUME NEW C, NEW s \in C, C \subseteq States, NEW w \in Words, NEW v \in Holds(w),
         Put(s, w, v) \in C, Flushed(Put(s, w, v)) \in C
  PROVE  Reach(s, Persist(w, v), Flushed(Put(s, w, v)), C)
<1> DEFINE u == Put(s, w, v)
<1>1. Reach(s, <<Store(w, v)>>, u, C)
  BY ReachStore
<1>2. Reach(u, <<Drain>>, Flushed(u), C)
  BY ReachDrain
<1> HIDE DEF u
<1>3. Reach(s, <<Store(w, v)>> \o <<Drain>>, Flushed(u), C)
  BY <1>1, <1>2, ReachThen
<1>4. <<Store(w, v)>> \o <<Drain>> = <<Store(w, v), Drain>>
  <2>1. PICK x : x = Store(w, v)
    OBVIOUS
  <2>2. PICK y : y = Drain
    OBVIOUS
  <2>3. x \in Accesses /\ y \in Accesses
    BY <2>1, <2>2, AccessStore DEF Accesses
  <2>6. <<x>> \o <<y>> = <<x, y>>
    BY <2>3, PairConcat
  <2> QED
    BY <2>1, <2>2, <2>6
<1> QED
  BY <1>3, <1>4 DEF Persist, u

-----------------------------------------------------------------------------
(* Lists                                                                   *)

Chains == {S \in Seq(Regions) : \A i, j \in 1 .. Len(S) : S[i] = S[j] => i = j}

\* The links of the list l lead through the regions of S and end after its last one.
Linked(c, l, S) ==
  S # << >> => /\ c[Hd(l)] = S[1]
               /\ \A i \in 1 .. Len(S) : i < Len(S) => c[Nxt(l, S[i])] = S[i + 1]
               /\ c[Nxt(l, S[Len(S)])] = Invalid

\* The list is S; of an empty list either end may be out of date.
Tight(c, l, S) ==
  /\ Linked(c, l, S)
  /\ S = << >> => c[Hd(l)] = Invalid \/ c[Tl(l)] = Invalid
  /\ S # << >> => c[Tl(l)] = S[Len(S)]

\* The tail is one region behind.
Stale(c, l, S) == Linked(c, l, S) /\ Len(S) >= 2 /\ c[Tl(l)] = S[Len(S) - 1]

Exact(c, l, S) ==
  /\ Linked(c, l, S)
  /\ S = << >> => c[Hd(l)] = Invalid /\ c[Tl(l)] = Invalid
  /\ S # << >> => c[Tl(l)] = S[Len(S)]

LEMMA ChainFacts ==
  ASSUME NEW S \in Chains
  PROVE  /\ S \in Seq(Regions) /\ Len(S) \in Nat /\ Len(S) <= Capacity
         /\ \A i, j \in 1 .. Len(S) : S[i] = S[j] => i = j
         /\ \A i \in 1 .. Len(S) : S[i] \in Regions /\ S[i] \in Places /\ S[i] # Invalid
         /\ Range(S) = {S[i] : i \in 1 .. Len(S)} /\ Range(S) \subseteq Regions
         /\ IsFiniteSet(Range(S)) /\ Cardinality(Range(S)) = Len(S)
         /\ (S = << >>) = (Len(S) = 0)
<1>1. S \in Seq(Regions) /\ Len(S) \in Nat /\ DOMAIN S = 1 .. Len(S) /\ (S = << >>) = (Len(S) = 0)
  BY DEF Chains
<1>2. \A i, j \in 1 .. Len(S) : S[i] = S[j] => i = j
  BY DEF Chains
<1>3. \A i \in 1 .. Len(S) : S[i] \in Regions
  BY <1>1
<1>4. Range(S) = {S[i] : i \in 1 .. Len(S)}
  BY <1>1 DEF Range
<1>5. S \in Injection(1 .. Len(S), Range(S)) /\ S \in Surjection(1 .. Len(S), Range(S))
  <2>1. S \in [1 .. Len(S) -> Range(S)]
    BY <1>1, <1>4
  <2> QED
    BY <1>1, <1>2, <1>4, <2>1 DEF Injection, Surjection, IsInjective
<1>6. IsFiniteSet(1 .. Len(S)) /\ Cardinality(1 .. Len(S)) = Len(S)
  BY <1>1, FS_Interval
<1>7. IsFiniteSet(Range(S)) /\ Cardinality(Range(S)) = Len(S)
  BY <1>5, <1>6, FS_Surjection, FS_Injection
<1>8. IsFiniteSet(Regions) /\ Cardinality(Regions) = Capacity
  BY FS_Interval, PlaceFacts DEF Regions
<1>9. Len(S) <= Capacity
  <2>1. Range(S) \in SUBSET Regions
    BY <1>3, <1>4
  <2>2. Cardinality(Range(S)) <= Cardinality(Regions)
    BY <1>8, <2>1, FS_Subset
  <2> QED
    BY <1>7, <1>8, <2>2
<1> QED
  BY <1>1, <1>2, <1>3, <1>4, <1>7, <1>9, PlaceFacts

\* The n-th step of a walk over a list, counted from 0.
LEMMA WalkOf ==
  ASSUME NEW m \in Memories, NEW l \in Lists, NEW S \in Chains, Exact(m, l, S)
  PROVE  \A n \in 0 .. Capacity : Walk(m, l)[n] = IF n < Len(S) THEN S[n + 1] ELSE Invalid
<1> DEFINE Body(at) == [n \in 0 .. Capacity |->
             IF n = 0 THEN m[Hd(l)]
             ELSE IF at[n - 1] = Invalid THEN Invalid ELSE m[Nxt(l, at[n - 1])]]
           W == CHOOSE at : at = Body(at)
           G == [n \in 0 .. Capacity |-> IF n < Len(S) THEN S[n + 1] ELSE Invalid]
<1>1. Walk(m, l) = W
  BY DEF Walk
<1>2. ASSUME NEW n \in 0 .. Capacity, n # 0 PROVE G[n] = Body(G)[n]
  <2>1. n - 1 \in 0 .. Capacity /\ n - 1 + 1 = n /\ n \in Nat
    BY <1>2, PlaceFacts
  <2>2. Body(G)[n] = IF G[n - 1] = Invalid THEN Invalid ELSE m[Nxt(l, G[n - 1])]
    BY <1>2
  <2>3. CASE n - 1 < Len(S)
    <3>1. n \in 1 .. Len(S) /\ S # << >> /\ G[n - 1] = S[n] /\ S[n] # Invalid
      BY <2>1, <2>3, ChainFacts
    <3>2. Body(G)[n] = m[Nxt(l, S[n])]
      BY <2>2, <3>1
    <3>3. CASE n < Len(S)
      BY <3>1, <3>2, <3>3 DEF Exact, Linked
    <3>4. CASE ~(n < Len(S))
      <4>1. n = Len(S)
        BY <3>1, <3>4, ChainFacts
      <4>2. m[Nxt(l, S[n])] = Invalid
        BY <3>1, <4>1 DEF Exact, Linked
      <4> QED
        BY <3>2, <3>4, <4>2
    <3> QED
      BY <3>3, <3>4
  <2>4. CASE ~(n - 1 < Len(S))
    <3>1. ~(n < Len(S)) /\ G[n - 1] = Invalid
      BY <2>1, <2>4, ChainFacts
    <3> QED
      BY <2>2, <3>1
  <2> QED
    BY <2>3, <2>4
<1>3. G[0] = Body(G)[0]
  <2>1. 0 \in 0 .. Capacity
    BY PlaceFacts
  <2>2. Body(G)[0] = m[Hd(l)]
    BY <2>1
  <2>3. G[0] = IF 0 < Len(S) THEN S[1] ELSE Invalid
    BY <2>1
  <2> QED
    BY <2>2, <2>3, ChainFacts DEF Exact, Linked
<1>4. G = Body(G)
  <2>1. \A n \in 0 .. Capacity : G[n] = Body(G)[n]
    <3> HIDE DEF G, Body
    <3> QED
      BY <1>2, <1>3
  <2>2. G = [n \in 0 .. Capacity |-> G[n]] /\ Body(G) = [n \in 0 .. Capacity |-> Body(G)[n]]
    OBVIOUS
  <2> HIDE DEF G, Body
  <2> QED
    BY <2>1, <2>2
<1>5. W = Body(W)
  <2> HIDE DEF G, Body
  <2> QED
    BY <1>4
<1> DEFINE T == {n \in Nat : n <= Capacity => W[n] = G[n]}
<1>6. 0 \in T
  <2>1. 0 \in 0 .. Capacity
    BY PlaceFacts
  <2>2. Body(W)[0] = m[Hd(l)] /\ Body(G)[0] = m[Hd(l)]
    <3> HIDE DEF W, G
    <3> QED
      BY <2>1
  <2> HIDE DEF W, G, Body
  <2> QED
    BY <2>2, <1>4, <1>5
<1>7. ASSUME NEW n \in T, n < Capacity PROVE n + 1 \in T
  <2>1. n + 1 \in 0 .. Capacity /\ n + 1 # 0 /\ n + 1 - 1 = n /\ W[n] = G[n] /\ n + 1 \in Nat
    BY <1>7, PlaceFacts
  <2>2. Body(W)[n + 1] = Body(G)[n + 1]
    <3> HIDE DEF W, G
    <3> QED
      BY <2>1
  <2> HIDE DEF W, G, Body
  <2> QED
    BY <2>1, <2>2, <1>4, <1>5
<1>8. 0 .. Capacity \subseteq T
  <2> HIDE DEF T
  <2>1. T \in SUBSET Nat
    BY DEF T
  <2> QED
    BY <1>6, <1>7, <2>1, UpTo, PlaceFacts
<1>9. \A n \in 0 .. Capacity : W[n] = G[n]
  <2> HIDE DEF W, G
  <2> QED
    BY <1>8, PlaceFacts
<1> HIDE DEF W
<1> QED
  BY <1>1, <1>9

LEMMA ListedOf ==
  ASSUME NEW m \in Memories, NEW l \in Lists, NEW S \in Chains, Exact(m, l, S)
  PROVE  /\ Elements(m, l) = Range(S) /\ Listed(m, l) = S
         /\ Walk(m, l)[Capacity] = Invalid
<1>1. \A n \in 0 .. Capacity : Walk(m, l)[n] = IF n < Len(S) THEN S[n + 1] ELSE Invalid
  BY WalkOf
<1> DEFINE W == Walk(m, l)
<1> HIDE DEF W
<1>2. Elements(m, l) = {W[n] : n \in 0 .. Capacity} \ {Invalid}
  BY DEF Elements, W
<1>3. \A n \in 0 .. Capacity : W[n] = IF n < Len(S) THEN S[n + 1] ELSE Invalid
  BY <1>1 DEF W
<1>4. Elements(m, l) \subseteq Range(S)
  <2>1. SUFFICES ASSUME NEW n \in 0 .. Capacity, W[n] # Invalid PROVE W[n] \in Range(S)
    BY <1>2
  <2>2. W[n] = S[n + 1] /\ n + 1 \in 1 .. Len(S)
    BY <1>3, <2>1, ChainFacts, PlaceFacts
  <2> QED
    BY <2>2, ChainFacts
<1>5. Range(S) \subseteq Elements(m, l)
  <2>1. SUFFICES ASSUME NEW i \in 1 .. Len(S) PROVE S[i] \in Elements(m, l)
    BY ChainFacts
  <2>2. i - 1 \in 0 .. Capacity /\ i - 1 < Len(S) /\ i - 1 + 1 = i
    BY ChainFacts, PlaceFacts
  <2>3. W[i - 1] = S[i] /\ S[i] # Invalid
    BY <1>3, <2>2, ChainFacts
  <2> QED
    BY <1>2, <2>2, <2>3
<1>6. Elements(m, l) = Range(S) /\ Cardinality(Elements(m, l)) = Len(S)
  <2>1. Elements(m, l) = Range(S)
    BY <1>4, <1>5
  <2> QED
    BY <2>1, ChainFacts
<1>7. Listed(m, l) = [k \in 1 .. Len(S) |-> W[k - 1]]
  BY <1>6 DEF Listed, W
<1>8. \A k \in 1 .. Len(S) : W[k - 1] = S[k]
  <2>1. SUFFICES ASSUME NEW k \in 1 .. Len(S) PROVE W[k - 1] = S[k]
    OBVIOUS
  <2>2. k - 1 \in 0 .. Capacity /\ k - 1 < Len(S) /\ k - 1 + 1 = k
    BY ChainFacts, PlaceFacts
  <2> QED
    BY <1>3, <2>2
<1>9. Listed(m, l) = S
  <2>1. S = [k \in 1 .. Len(S) |-> S[k]]
    BY ChainFacts
  <2>2. [k \in 1 .. Len(S) |-> W[k - 1]] = [k \in 1 .. Len(S) |-> S[k]]
    BY <1>8
  <2> QED
    BY <1>7, <2>1, <2>2
<1>10. W[Capacity] = Invalid
  <2>1. Capacity \in 0 .. Capacity /\ ~(Capacity < Len(S))
    BY ChainFacts, PlaceFacts
  <2> QED
    BY <1>3, <2>1
<1> QED
  BY <1>6, <1>9, <1>10 DEF W

-----------------------------------------------------------------------------
(* Chains of regions                                                       *)

WithHead(r, S) == [k \in 1 .. Len(S) + 1 |-> IF k = 1 THEN r ELSE S[k - 1]]

LEMMA ConsFacts ==
  ASSUME NEW S \in Chains, NEW r \in Regions \ Range(S)
  PROVE  /\ WithHead(r, S) \in Chains /\ Len(WithHead(r, S)) = Len(S) + 1 /\ WithHead(r, S)[1] = r
         /\ \A i \in 1 .. Len(S) : WithHead(r, S)[i + 1] = S[i]
         /\ Range(WithHead(r, S)) = Range(S) \union {r} /\ WithHead(r, S) # << >>
<1> DEFINE T == WithHead(r, S)
           n == Len(S)
<1>1. n \in Nat /\ \A i \in 1 .. n : S[i] \in Regions /\ S[i] # r
  BY ChainFacts
<1>2. T = [k \in 1 .. n + 1 |-> IF k = 1 THEN r ELSE S[k - 1]]
  BY DEF WithHead
<1>3. \A k \in 1 .. n + 1 : T[k] \in Regions
  BY <1>1, <1>2
<1>4. T \in Seq(Regions) /\ Len(T) = n + 1
  <2>1. T \in [1 .. n + 1 -> Regions]
    BY <1>2, <1>3
  <2> HIDE DEF T, n
  <2> QED
    BY <1>1, <2>1
<1>5. T[1] = r /\ \A i \in 1 .. n : T[i + 1] = S[i]
  BY <1>1, <1>2
<1>6. ASSUME NEW i \in 1 .. n + 1, NEW j \in 1 .. n + 1, T[i] = T[j] PROVE i = j
  <2>1. CASE i = 1
    BY <1>1, <1>2, <1>6, <2>1
  <2>2. CASE j = 1
    BY <1>1, <1>2, <1>6, <2>2
  <2>3. CASE i # 1 /\ j # 1
    <3>1. i - 1 \in 1 .. n /\ j - 1 \in 1 .. n /\ S[i - 1] = S[j - 1]
      BY <1>1, <1>2, <1>6, <2>3
    <3>2. i - 1 = j - 1
      BY <3>1, ChainFacts
    <3> QED
      BY <3>2, <1>1
  <2> QED
    BY <2>1, <2>2, <2>3
<1>7. T \in Chains
  <2> HIDE DEF T
  <2> QED
    BY <1>4, <1>6 DEF Chains
<1>8. Range(T) = Range(S) \union {r}
  <2>1. Range(T) = {T[k] : k \in 1 .. n + 1}
    <3> HIDE DEF T
    <3> QED
      BY <1>4, <1>7, ChainFacts
  <2>2. Range(S) = {S[k] : k \in 1 .. n}
    BY ChainFacts
  <2>3. Range(T) \subseteq Range(S) \union {r}
    <3>1. SUFFICES ASSUME NEW k \in 1 .. n + 1, k # 1 PROVE T[k] \in Range(S)
      BY <1>5, <2>1
    <3>2. k - 1 \in 1 .. n /\ T[k] = S[k - 1]
      BY <1>1, <1>2, <3>1
    <3> QED
      BY <2>2, <3>2
  <2>4. Range(S) \subseteq Range(T)
    <3>1. \A i \in 1 .. n : i + 1 \in 1 .. n + 1
      BY <1>1
    <3> QED
      BY <1>5, <2>1, <2>2, <3>1
  <2>5. r \in Range(T)
    BY <1>1, <1>5, <2>1
  <2> QED
    BY <2>3, <2>4, <2>5
<1>9. T # << >>
  <2> HIDE DEF T
  <2> QED
    BY <1>1, <1>4, <1>7, ChainFacts
<1> QED
  BY <1>4, <1>5, <1>7, <1>8, <1>9

LEMMA TailFacts ==
  ASSUME NEW S \in Chains, S # << >>
  PROVE  /\ Tail(S) \in Chains /\ Len(Tail(S)) = Len(S) - 1
         /\ \A i \in 1 .. Len(S) - 1 : Tail(S)[i] = S[i + 1]
         /\ Range(Tail(S)) = Range(S) \ {S[1]}
<1>1. S \in Seq(Regions) /\ Len(S) \in Nat /\ Len(S) >= 1
  BY ChainFacts
<1>2. /\ Tail(S) \in Seq(Regions) /\ Len(Tail(S)) = Len(S) - 1
      /\ \A i \in 1 .. Len(S) - 1 : Tail(S)[i] = S[i + 1]
  BY <1>1
<1>3. Tail(S) \in Chains
  <2>1. ASSUME NEW i \in 1 .. Len(S) - 1, NEW j \in 1 .. Len(S) - 1, Tail(S)[i] = Tail(S)[j] PROVE i = j
    <3>1. i + 1 \in 1 .. Len(S) /\ j + 1 \in 1 .. Len(S) /\ S[i + 1] = S[j + 1]
      BY <1>1, <1>2, <2>1
    <3>2. i + 1 = j + 1
      BY <3>1, ChainFacts
    <3> QED
      BY <3>2
  <2> QED
    BY <1>2, <2>1 DEF Chains
<1>4. Range(Tail(S)) = Range(S) \ {S[1]}
  <2>1. Range(Tail(S)) = {Tail(S)[i] : i \in 1 .. Len(S) - 1}
    BY <1>2, <1>3, ChainFacts
  <2>2. Range(S) = {S[i] : i \in 1 .. Len(S)}
    BY ChainFacts
  <2>3. ASSUME NEW i \in 1 .. Len(S) - 1 PROVE Tail(S)[i] \in Range(S) \ {S[1]}
    <3>1. i + 1 \in 1 .. Len(S) /\ 1 \in 1 .. Len(S) /\ i + 1 # 1 /\ Tail(S)[i] = S[i + 1]
      BY <1>1, <1>2
    <3>2. S[i + 1] # S[1]
      BY <3>1, ChainFacts
    <3> QED
      BY <2>2, <3>1, <3>2
  <2>4. ASSUME NEW i \in 1 .. Len(S), S[i] # S[1] PROVE S[i] \in Range(Tail(S))
    <3>1. i - 1 \in 1 .. Len(S) - 1 /\ i - 1 + 1 = i
      BY <1>1, <2>4
    <3>2. Tail(S)[i - 1] = S[i]
      BY <1>2, <3>1
    <3> QED
      BY <2>1, <3>1, <3>2
  <2> QED
    BY <2>1, <2>2, <2>3, <2>4
<1> QED
  BY <1>2, <1>3, <1>4

LEMMA AppendFacts ==
  ASSUME NEW S \in Chains, NEW r \in Regions \ Range(S)
  PROVE  /\ Append(S, r) \in Chains /\ Len(Append(S, r)) = Len(S) + 1
         /\ Append(S, r)[Len(S) + 1] = r /\ \A i \in 1 .. Len(S) : Append(S, r)[i] = S[i]
         /\ Range(Append(S, r)) = Range(S) \union {r} /\ Append(S, r) # << >>
<1>1. PICK T : T = Append(S, r)
  OBVIOUS
<1>2. S \in Seq(Regions) /\ Len(S) \in Nat /\ \A i \in 1 .. Len(S) : S[i] \in Regions /\ S[i] # r
  BY ChainFacts
<1>3. /\ T \in Seq(Regions) /\ Len(T) = Len(S) + 1
      /\ T[Len(S) + 1] = r /\ \A i \in 1 .. Len(S) : T[i] = S[i]
  BY <1>1, <1>2
<1>4. ASSUME NEW i \in 1 .. Len(S) + 1, NEW j \in 1 .. Len(S) + 1, T[i] = T[j] PROVE i = j
  <2>1. i \in 1 .. Len(S) \/ i = Len(S) + 1
    BY <1>2
  <2>2. j \in 1 .. Len(S) \/ j = Len(S) + 1
    BY <1>2
  <2> QED
    BY <1>2, <1>3, <1>4, <2>1, <2>2, ChainFacts
<1>5. T \in Chains
  BY <1>3, <1>4 DEF Chains
<1>6. Range(T) = {T[i] : i \in 1 .. Len(S) + 1} /\ Range(S) = {S[i] : i \in 1 .. Len(S)}
  BY <1>3, <1>5, ChainFacts
<1>7. Range(T) = Range(S) \union {r}
  <2>1. \A i \in 1 .. Len(S) + 1 : i \in 1 .. Len(S) \/ i = Len(S) + 1
    BY <1>2
  <2>2. \A i \in 1 .. Len(S) : i \in 1 .. Len(S) + 1
    BY <1>2
  <2>3. Len(S) + 1 \in 1 .. Len(S) + 1
    BY <1>2
  <2> QED
    BY <1>3, <1>6, <2>1, <2>2, <2>3
<1>8. T # << >>
  BY <1>2, <1>3, <1>5, ChainFacts
<1> QED
  BY <1>1, <1>3, <1>5, <1>7, <1>8

LEMMA RemoveAtFacts ==
  ASSUME NEW S \in Chains, NEW i \in 1 .. Len(S)
  PROVE  /\ RemoveAt(S, i) \in Chains /\ Len(RemoveAt(S, i)) = Len(S) - 1
         /\ \A k \in 1 .. Len(S) - 1 : RemoveAt(S, i)[k] = IF k < i THEN S[k] ELSE S[k + 1]
         /\ Range(RemoveAt(S, i)) = Range(S) \ {S[i]}
<1>1. S \in Seq(Regions) /\ Len(S) \in Nat /\ i \in Nat /\ i >= 1 /\ i <= Len(S)
  BY ChainFacts
<1>2. PICK a : a = SubSeq(S, 1, i - 1)
  OBVIOUS
<1>3. PICK b : b = SubSeq(S, i + 1, Len(S))
  OBVIOUS
<1>4. a \in Seq(Regions) /\ Len(a) = i - 1 /\ \A k \in 1 .. i - 1 : a[k] = S[k]
  BY <1>1, <1>2
<1>5. b \in Seq(Regions) /\ Len(b) = Len(S) - i /\ \A k \in 1 .. Len(S) - i : b[k] = S[k + i]
  <2>1. \A k \in 1 .. Len(S) - i : k + i \in 1 .. Len(S) /\ i + 1 + k - 1 = k + i
    BY <1>1
  <2> QED
    BY <1>1, <1>3, <2>1
<1>6. PICK T : T = a \o b
  OBVIOUS
<1>7. RemoveAt(S, i) = T
  BY <1>2, <1>3, <1>6 DEF RemoveAt
<1>8. /\ T \in Seq(Regions) /\ Len(T) = Len(S) - 1
      /\ \A k \in 1 .. Len(S) - 1 : T[k] = IF k <= i - 1 THEN a[k] ELSE b[k - (i - 1)]
  BY <1>1, <1>4, <1>5, <1>6, ConcatFacts
<1>9. ASSUME NEW k \in 1 .. Len(S) - 1 PROVE T[k] = IF k < i THEN S[k] ELSE S[k + 1]
  <2>1. CASE k < i
    BY <1>1, <1>4, <1>8, <2>1
  <2>2. CASE ~(k < i)
    <3>1. k - (i - 1) \in 1 .. Len(S) - i /\ k - (i - 1) + i = k + 1 /\ ~(k <= i - 1)
      BY <1>1, <2>2
    <3> QED
      BY <1>5, <1>8, <2>2, <3>1
  <2> QED
    BY <2>1, <2>2
<1>10. ASSUME NEW k \in 1 .. Len(S) - 1, NEW j \in 1 .. Len(S) - 1, T[k] = T[j] PROVE k = j
  <2> DEFINE kk == IF k < i THEN k ELSE k + 1
             jj == IF j < i THEN j ELSE j + 1
  <2>1. kk \in 1 .. Len(S) /\ jj \in 1 .. Len(S) /\ T[k] = S[kk] /\ T[j] = S[jj]
    BY <1>1, <1>9
  <2>2. kk = jj
    <3> HIDE DEF kk, jj
    <3>1. S[kk] = S[jj]
      BY <1>10, <2>1
    <3> QED
      BY <2>1, <3>1 DEF Chains
  <2> QED
    BY <1>1, <2>2
<1>11. T \in Chains
  BY <1>8, <1>10 DEF Chains
<1>12. Range(T) = {T[k] : k \in 1 .. Len(S) - 1} /\ Range(S) = {S[k] : k \in 1 .. Len(S)}
  BY <1>8, <1>11, ChainFacts
<1>13. ASSUME NEW k \in 1 .. Len(S) - 1 PROVE T[k] \in Range(S) \ {S[i]}
  <2> DEFINE kk == IF k < i THEN k ELSE k + 1
  <2>1. kk \in 1 .. Len(S) /\ T[k] = S[kk] /\ kk # i
    BY <1>1, <1>9
  <2> HIDE DEF kk
  <2>2. S[kk] # S[i]
    BY <2>1, ChainFacts
  <2> QED
    BY <1>12, <2>1, <2>2
<1>14. ASSUME NEW k \in 1 .. Len(S), S[k] # S[i] PROVE S[k] \in Range(T)
  <2>1. CASE k < i
    <3>1. k \in 1 .. Len(S) - 1 /\ T[k] = S[k]
      BY <1>1, <1>9, <2>1
    <3> QED
      BY <3>1, <1>12
  <2>2. CASE k > i
    <3>1. k - 1 \in 1 .. Len(S) - 1 /\ ~(k - 1 < i) /\ k - 1 + 1 = k
      BY <1>1, <2>2
    <3>2. T[k - 1] = S[k]
      BY <1>9, <3>1
    <3> QED
      BY <3>1, <3>2, <1>12
  <2>3. k # i
    BY <1>14
  <2> QED
    BY <1>1, <2>1, <2>2, <2>3
<1>15. Range(T) = Range(S) \ {S[i]}
  BY <1>12, <1>13, <1>14
<1> QED
  BY <1>7, <1>8, <1>9, <1>11, <1>15

-----------------------------------------------------------------------------
(* A list of which the memory changes while everything else stays          *)

\* t differs from s in the words of the list l only, and in what is settled.
Beside(s, t, l) ==
  \A w \in Words \ ListWords(l) : t.cache[w] = s.cache[w] /\ t.medium[w] \subseteq s.medium[w]

\* The states beside s in which a power failure leaves the list in one of the forms K.
Within(s, l, K) == {t \in States : Beside(s, t, l) /\ \A c \in Images(t.medium) : c \in K}

TightSet(l, S) == {c \in Memories : Tight(c, l, S)}
StaleSet(l, S) == {c \in Memories : Stale(c, l, S)}

SettledOn(s, l) == \A w \in ListWords(l) : s.medium[w] = {s.cache[w]}

\* The list is S in the cache and on the medium.
Held(s, l, S) == Exact(s.cache, l, S) /\ SettledOn(s, l)

LEMMA BesideSelf ==
  ASSUME NEW s, NEW l
  PROVE  Beside(s, s, l)
BY DEF Beside

LEMMA BesideTrans ==
  ASSUME NEW s, NEW t, NEW u, NEW l, Beside(s, t, l), Beside(t, u, l)
  PROVE  Beside(s, u, l)
BY DEF Beside

LEMMA SettledEverywhere ==
  ASSUME NEW s \in States
  PROVE  \A l \in Lists : SettledOn(Flushed(s), l)
<1>1. SUFFICES ASSUME NEW l \in Lists, NEW w \in ListWords(l)
               PROVE  Flushed(s).medium[w] = {Flushed(s).cache[w]}
  BY DEF SettledOn
<1>2. w \in Words
  BY DEF ListWords
<1> QED
  BY <1>2, FlushedFacts

LEMMA WithinPut ==
  ASSUME NEW l \in Lists, NEW s, NEW K, NEW t \in Within(s, l, K),
         NEW w \in ListWords(l), NEW v \in Holds(w),
         \A c \in Images(Put(t, w, v).medium) : c[w] = v => c \in K
  PROVE  Put(t, w, v) \in Within(s, l, K)
<1>1. t \in States /\ Beside(s, t, l) /\ w \in Words
  BY DEF Within, ListWords
<1>2. Put(t, w, v) \in States
  BY <1>1, PutFacts
<1>3. ASSUME NEW x \in Words \ ListWords(l)
      PROVE  Put(t, w, v).cache[x] = t.cache[x] /\ Put(t, w, v).medium[x] = t.medium[x]
  <2>1. x \in Words \ {w}
    OBVIOUS
  <2> QED
    BY <1>1, <2>1, PutFacts
<1>4. Beside(s, Put(t, w, v), l)
  BY <1>1, <1>3 DEF Beside
<1>5. ASSUME NEW c \in Images(Put(t, w, v).medium) PROVE c \in K
  <2>1. c[w] = v \/ c \in Images(t.medium)
    BY <1>1, PutImages
  <2> QED
    BY <2>1 DEF Within
<1> QED
  BY <1>2, <1>4, <1>5 DEF Within

LEMMA WithinFlushed ==
  ASSUME NEW l \in Lists, NEW s, NEW K, NEW t \in Within(s, l, K)
  PROVE  Flushed(t) \in Within(s, l, K)
<1>1. t \in States /\ Beside(s, t, l)
  BY DEF Within
<1>2. Flushed(t) \in States /\ Images(Flushed(t).medium) \subseteq Images(t.medium)
  BY <1>1, FlushedFacts
<1>3. \A w \in Words : Flushed(t).cache[w] = t.cache[w] /\ Flushed(t).medium[w] \subseteq t.medium[w]
  BY <1>1, FlushedFacts
<1>4. Beside(s, Flushed(t), l)
  BY <1>1, <1>3 DEF Beside
<1> QED
  BY <1>2, <1>4 DEF Within

\* A store to a settled word of a settled list.
LEMMA WithinPersist ==
  ASSUME NEW l \in Lists, NEW s, NEW K, NEW t \in Within(s, l, K), SettledOn(t, l),
         NEW w \in ListWords(l), NEW v \in Holds(w),
         \A c \in Memories : (c[w] = v /\ \A x \in ListWords(l) \ {w} : c[x] = t.cache[x]) => c \in K
  PROVE  \E u \in Within(s, l, K) :
           /\ Reach(t, Persist(w, v), u, Within(s, l, K))
           /\ SettledOn(u, l) /\ u.cache[w] = v
           /\ \A x \in Words \ {w} : u.cache[x] = t.cache[x]
           /\ u.medium = Settled(u.cache)
<1>1. t \in States /\ w \in Words /\ ListWords(l) \subseteq Words
  BY DEF Within, ListWords
<1>2. ASSUME NEW c \in Images(Put(t, w, v).medium), c[w] = v PROVE c \in K
  <2>1. c \in Memories /\ \A x \in Words \ {w} : c[x] \in t.medium[x]
    BY <1>1, PutImages
  <2>2. \A x \in ListWords(l) \ {w} : c[x] = t.cache[x]
    BY <1>1, <2>1 DEF SettledOn
  <2> QED
    BY <1>2, <2>1, <2>2
<1>3. Put(t, w, v) \in Within(s, l, K)
  BY <1>2, WithinPut
<1>4. Flushed(Put(t, w, v)) \in Within(s, l, K)
  BY <1>3, WithinFlushed
<1>5. Within(s, l, K) \subseteq States
  BY DEF Within
<1>6. Reach(t, Persist(w, v), Flushed(Put(t, w, v)), Within(s, l, K))
  BY <1>1, <1>3, <1>4, <1>5, ReachPersist
<1>7. Put(t, w, v) \in States
  BY <1>3, <1>5
<1>8. SettledOn(Flushed(Put(t, w, v)), l)
  BY <1>7, SettledEverywhere
<1>9. Flushed(Put(t, w, v)).cache = Put(t, w, v).cache
  BY <1>7, FlushedFacts
<1>10. Flushed(Put(t, w, v)).medium = Settled(Flushed(Put(t, w, v)).cache)
  BY <1>7, <1>9, FlushedFacts
<1>11. Put(t, w, v).cache[w] = v /\ \A x \in Words \ {w} : Put(t, w, v).cache[x] = t.cache[x]
  BY <1>1, PutFacts
<1> QED
  BY <1>4, <1>6, <1>8, <1>9, <1>10, <1>11

\* The state a call of the list starts in.
LEMMA HeldWithin ==
  ASSUME NEW l \in Lists, NEW s \in States, NEW K, SettledOn(s, l),
         \A c \in Memories : (\A x \in ListWords(l) : c[x] = s.cache[x]) => c \in K
  PROVE  s \in Within(s, l, K)
<1>1. ASSUME NEW c \in Images(s.medium) PROVE c \in K
  <2>1. c \in Memories /\ \A x \in Words : c[x] \in s.medium[x]
    BY DEF Images
  <2>2. \A x \in ListWords(l) : c[x] = s.cache[x]
    BY <2>1 DEF SettledOn, ListWords
  <2> QED
    BY <1>1, <2>1, <2>2
<1> QED
  BY <1>1, BesideSelf DEF Within

\* A list depends on its words only.
LEMMA SameList ==
  ASSUME NEW l \in Lists, NEW c, NEW d, NEW S \in Chains,
         \A x \in ListWords(l) : c[x] = d[x]
  PROVE  /\ Exact(d, l, S) => Exact(c, l, S) /\ Tight(c, l, S)
         /\ Tight(d, l, S) => Tight(c, l, S)
         /\ Stale(d, l, S) => Stale(c, l, S)
<1>1. c[Hd(l)] = d[Hd(l)] /\ c[Tl(l)] = d[Tl(l)] /\ \A r \in Places : c[Nxt(l, r)] = d[Nxt(l, r)]
  BY ListWordFacts
<1>2. \A i \in 1 .. Len(S) : c[Nxt(l, S[i])] = d[Nxt(l, S[i])]
  BY <1>1, ChainFacts
<1>3. S # << >> => Len(S) \in 1 .. Len(S) /\ c[Nxt(l, S[Len(S)])] = d[Nxt(l, S[Len(S)])]
  BY <1>2, ChainFacts
<1>4. Linked(d, l, S) => Linked(c, l, S)
  BY <1>1, <1>2, <1>3 DEF Linked
<1> QED
  BY <1>1, <1>4 DEF Exact, Tight, Stale

\* What SLIST_INVARIANTS asks for.
LEMMA ExactInvariants ==
  ASSUME NEW l \in Lists, NEW c, NEW S \in Chains, Exact(c, l, S)
  PROVE  /\ SlistInvariants(c, l)
         /\ c[Hd(l)] = Invalid <=> S = << >>
         /\ S # << >> => c[Hd(l)] = S[1] /\ c[Tl(l)] = S[Len(S)] /\ c[Nxt(l, S[Len(S)])] = Invalid
<1>1. S # << >> => 1 \in 1 .. Len(S) /\ Len(S) \in 1 .. Len(S)
  BY ChainFacts
<1>2. S # << >> => S[1] # Invalid /\ S[Len(S)] # Invalid
  BY <1>1, ChainFacts
<1> QED
  BY <1>2 DEF Exact, Linked, SlistInvariants

-----------------------------------------------------------------------------
(* SLIST_INSERT_HEAD                                                       *)

LEMMA LinkedCons ==
  ASSUME NEW l \in Lists, NEW c, NEW d, NEW S \in Chains, NEW r \in Regions \ Range(S),
         Linked(c, l, S),
         d[Hd(l)] = r, d[Nxt(l, r)] = IF S = << >> THEN Invalid ELSE S[1],
         \A x \in ListWords(l) \ {Hd(l), Tl(l), Nxt(l, r)} : d[x] = c[x]
  PROVE  Linked(d, l, WithHead(r, S))
<1> DEFINE T == WithHead(r, S)
<1>1. /\ T \in Chains /\ Len(T) = Len(S) + 1 /\ T[1] = r /\ \A i \in 1 .. Len(S) : T[i + 1] = S[i]
  BY ConsFacts
<1> HIDE DEF T
<1>2. Len(S) \in Nat
  BY ChainFacts
<1>3. ASSUME NEW i \in 1 .. Len(S) PROVE d[Nxt(l, S[i])] = c[Nxt(l, S[i])]
  <2>1. S[i] \in Places /\ r \in Places /\ S[i] # r
    BY ChainFacts, PlaceFacts
  <2> QED
    BY <2>1, ListWordFacts
<1>4. ASSUME NEW i \in 1 .. Len(T), i < Len(T) PROVE d[Nxt(l, T[i])] = T[i + 1]
  <2>1. CASE i = 1
    <3>1. 1 \in 1 .. Len(S) /\ S # << >> /\ T[1 + 1] = S[1]
      BY <1>1, <1>2, <1>4, <2>1, ChainFacts
    <3> QED
      BY <3>1, <2>1, <1>1
  <2>2. CASE i # 1
    <3>1. i - 1 \in 1 .. Len(S) /\ i - 1 + 1 = i /\ i \in 1 .. Len(S) /\ i - 1 < Len(S) /\ S # << >>
      BY <1>1, <1>2, <1>4, <2>2, ChainFacts
    <3>2. T[i] = S[i - 1] /\ T[i + 1] = S[i]
      BY <1>1, <3>1
    <3>3. d[Nxt(l, S[i - 1])] = c[Nxt(l, S[i - 1])] /\ c[Nxt(l, S[i - 1])] = S[i - 1 + 1]
      BY <1>3, <3>1 DEF Linked
    <3> QED
      BY <3>1, <3>2, <3>3
  <2> QED
    BY <2>1, <2>2
<1>5. d[Nxt(l, T[Len(T)])] = Invalid
  <2>1. CASE S = << >>
    BY <1>1, <2>1, ChainFacts
  <2>2. CASE S # << >>
    <3>1. Len(S) \in 1 .. Len(S)
      BY <2>2, ChainFacts
    <3>2. T[Len(T)] = S[Len(S)] /\ c[Nxt(l, S[Len(S)])] = Invalid
      BY <1>1, <2>2, <3>1 DEF Linked
    <3> QED
      BY <1>3, <3>1, <3>2
  <2> QED
    BY <2>1, <2>2
<1> QED
  BY <1>1, <1>4, <1>5 DEF Linked, T

LEMMA InsertHeadEffect ==
  ASSUME NEW l \in Lists, NEW s \in States, NEW S \in Chains, NEW r \in Regions \ Range(S),
         Held(s, l, S),
         NEW K, K = TightSet(l, S) \union TightSet(l, WithHead(r, S))
  PROVE  \E t \in Within(s, l, K) :
           /\ Reach(s, InsertHead(s.cache, l, r), t, Within(s, l, K))
           /\ Held(t, l, WithHead(r, S)) /\ t.medium = Settled(t.cache)
<1> DEFINE W == Within(s, l, K)
           T == WithHead(r, S)
           h == s.cache[Hd(l)]
           X == IF h = Invalid THEN <<Store(Tl(l), r)>> ELSE << >>
<1>1. /\ T \in Chains /\ Len(T) = Len(S) + 1 /\ T[1] = r /\ \A i \in 1 .. Len(S) : T[i + 1] = S[i]
      /\ T # << >> /\ Len(S) \in Nat /\ (S = << >>) = (Len(S) = 0)
  BY ConsFacts, ChainFacts
<1>2. /\ Hd(l) \in ListWords(l) /\ Tl(l) \in ListWords(l) /\ Nxt(l, r) \in ListWords(l)
      /\ Hd(l) # Tl(l) /\ Nxt(l, r) # Hd(l) /\ Nxt(l, r) # Tl(l) /\ ListWords(l) \subseteq Words
      /\ Holds(Hd(l)) = Links /\ Holds(Tl(l)) = Links /\ Holds(Nxt(l, r)) = Links
  BY ListWordFacts, PlaceFacts
<1>3. /\ Exact(s.cache, l, S) /\ SettledOn(s, l) /\ r \in Links /\ Invalid \in Links
      /\ h = (IF S = << >> THEN Invalid ELSE S[1]) /\ h \in Links /\ (h = Invalid <=> S = << >>)
  <2>1. h \in Links
    BY <1>2, StateFacts
  <2>2. h = Invalid <=> S = << >>
    BY ExactInvariants DEF Held
  <2> QED
    BY <2>1, <2>2, PlaceFacts DEF Held, Exact, Linked
<1>4. W \subseteq States
  BY DEF Within
<1>5. s \in W
  <2>1. \A c \in Memories : (\A x \in ListWords(l) : c[x] = s.cache[x]) => c \in K
    BY <1>3, SameList DEF TightSet
  <2> QED
    BY <1>3, <2>1, HeldWithin
\* Until the head is stored the list is what it was.
<1>6. ASSUME NEW c \in Memories, c[Hd(l)] = h, S = << >> \/ c[Tl(l)] = s.cache[Tl(l)],
             \A x \in ListWords(l) \ {Hd(l), Tl(l), Nxt(l, r)} : c[x] = s.cache[x]
      PROVE  c \in K
  <2>1. CASE S = << >>
    BY <1>3, <1>6, <2>1 DEF TightSet, Tight, Linked
  <2>2. CASE S # << >>
    <3>1. ASSUME NEW i \in 1 .. Len(S) PROVE c[Nxt(l, S[i])] = s.cache[Nxt(l, S[i])]
      <4>1. S[i] \in Places /\ r \in Places /\ S[i] # r
        BY ChainFacts, PlaceFacts
      <4> QED
        BY <4>1, <1>6, ListWordFacts
    <3>2. Len(S) \in 1 .. Len(S)
      BY <1>1, <2>2
    <3>3. Linked(c, l, S)
      BY <1>3, <1>6, <3>1, <3>2 DEF Exact, Linked
    <3> QED
      BY <1>3, <1>6, <2>2, <3>3 DEF TightSet, Tight, Exact
  <2> QED
    BY <2>1, <2>2
\* Afterwards it has one region more.
<1>7. ASSUME NEW c, c[Hd(l)] = r, c[Nxt(l, r)] = h,
             c[Tl(l)] = (IF S = << >> THEN r ELSE s.cache[Tl(l)]),
             \A x \in ListWords(l) \ {Hd(l), Tl(l), Nxt(l, r)} : c[x] = s.cache[x]
      PROVE  Exact(c, l, T)
  <2>1. Linked(c, l, T)
    BY <1>3, <1>7, LinkedCons DEF Exact
  <2>2. c[Tl(l)] = T[Len(T)]
    <3>1. CASE S = << >>
      BY <1>1, <1>7, <3>1
    <3>2. CASE S # << >>
      <4>1. s.cache[Tl(l)] = S[Len(S)] /\ Len(S) \in 1 .. Len(S)
        BY <1>1, <1>3, <3>2 DEF Exact
      <4> QED
        BY <1>1, <1>7, <3>2, <4>1
    <3> QED
      BY <3>1, <3>2
  <2> QED
    BY <1>1, <2>1, <2>2 DEF Exact
<1> HIDE DEF W, T
<1>8. SlistInvariants(s.cache, l)
  BY <1>3, ExactInvariants
<1>9. Reach(s, <<Check(l)>>, s, W)
  BY <1>4, <1>5, <1>8, ReachCheck
<1>10. \E u \in W :
         /\ Reach(s, (<<Check(l)>> \o X) \o Persist(Nxt(l, r), h), u, W)
         /\ SettledOn(u, l) /\ u.cache[Nxt(l, r)] = h /\ u.cache[Hd(l)] = h
         /\ u.cache[Tl(l)] = (IF S = << >> THEN r ELSE s.cache[Tl(l)])
         /\ \A x \in ListWords(l) \ {Hd(l), Tl(l), Nxt(l, r)} : u.cache[x] = s.cache[x]
  <2>1. CASE S = << >>
    <3>1. PICK p : p = Put(s, Tl(l), r)
      OBVIOUS
    <3>2. PICK q : q = Put(p, Nxt(l, r), h)
      OBVIOUS
    <3>3. p \in States /\ q \in States
      BY <1>2, <1>3, <3>1, <3>2, PutFacts
    <3>4. /\ \A x \in Words \ {Tl(l)} : p.cache[x] = s.cache[x] /\ p.medium[x] = s.medium[x]
          /\ p.cache[Tl(l)] = r
      BY <1>2, <1>3, <3>1, PutFacts
    <3>5. /\ \A x \in Words \ {Nxt(l, r)} : q.cache[x] = p.cache[x] /\ q.medium[x] = p.medium[x]
          /\ q.cache[Nxt(l, r)] = h
      <4> HIDE DEF h, X
      <4>1. Nxt(l, r) \in Words /\ h \in Holds(Nxt(l, r))
        BY <1>2, <1>3
      <4> QED
        BY <3>2, <3>3, <4>1, PutFacts
    <3>6. p \in W
      <4>1. ASSUME NEW c \in Images(p.medium) PROVE c \in K
        <5>1. c \in Memories /\ \A x \in Words : c[x] \in p.medium[x]
          BY DEF Images
        <5>2. \A x \in ListWords(l) \ {Tl(l)} : c[x] = s.cache[x]
          BY <1>2, <1>3, <3>4, <5>1 DEF SettledOn
        <5> QED
          BY <1>2, <1>6, <2>1, <5>1, <5>2
      <4> QED
        BY <1>2, <1>3, <1>5, <3>1, <4>1, WithinPut DEF W
    <3>7. q \in W
      <4>1. ASSUME NEW c \in Images(q.medium) PROVE c \in K
        <5>1. c \in Memories /\ \A x \in Words : c[x] \in q.medium[x]
          BY DEF Images
        <5>2. \A x \in ListWords(l) \ {Tl(l), Nxt(l, r)} : c[x] = s.cache[x]
          BY <1>2, <1>3, <3>4, <3>5, <5>1 DEF SettledOn
        <5> QED
          BY <1>2, <1>6, <2>1, <5>1, <5>2
      <4> QED
        BY <1>2, <1>3, <3>2, <3>6, <4>1, WithinPut DEF W
    <3>8. Flushed(q) \in W
      BY <3>7, WithinFlushed DEF W
    <3>9. X = <<Store(Tl(l), r)>>
      BY <1>3, <2>1
    <3>10. Reach(s, X, p, W)
      BY <1>2, <1>3, <1>4, <1>5, <3>1, <3>6, <3>9, ReachStore
    <3>11. Reach(p, Persist(Nxt(l, r), h), Flushed(q), W)
      BY <1>2, <1>3, <1>4, <3>2, <3>6, <3>7, <3>8, ReachPersist
    <3> HIDE DEF X
    <3>12. Reach(s, (<<Check(l)>> \o X) \o Persist(Nxt(l, r), h), Flushed(q), W)
      <4>1. Reach(s, <<Check(l)>> \o X, p, W)
        BY <1>9, <3>10, ReachThen
      <4> QED
        BY <4>1, <3>11, ReachThen
    <3>13. Flushed(q).cache = q.cache /\ SettledOn(Flushed(q), l)
      BY <3>3, FlushedFacts, SettledEverywhere
    <3>14. q.cache[Hd(l)] = h /\ q.cache[Tl(l)] = r
      BY <1>2, <3>4, <3>5
    <3>15. \A x \in ListWords(l) \ {Hd(l), Tl(l), Nxt(l, r)} : q.cache[x] = s.cache[x]
      BY <1>2, <3>4, <3>5
    <3> QED
      BY <2>1, <3>5, <3>8, <3>12, <3>13, <3>14, <3>15
  <2>2. CASE S # << >>
    <3>1. X = << >> /\ Reach(s, X, s, W)
      BY <1>3, <1>5, <2>2, ReachNone
    <3>2. \A c \in Memories : (c[Nxt(l, r)] = h /\ \A x \in ListWords(l) \ {Nxt(l, r)} : c[x] = s.cache[x]) => c \in K
      BY <1>2, <1>6
    <3>3. PICK u \in W : /\ Reach(s, Persist(Nxt(l, r), h), u, W)
                         /\ SettledOn(u, l) /\ u.cache[Nxt(l, r)] = h
                         /\ \A x \in Words \ {Nxt(l, r)} : u.cache[x] = s.cache[x]
      BY <1>2, <1>3, <1>5, <3>2, WithinPersist DEF W
    <3> HIDE DEF X
    <3>4. Reach(s, (<<Check(l)>> \o X) \o Persist(Nxt(l, r), h), u, W)
      <4>1. Reach(s, <<Check(l)>> \o X, s, W)
        BY <1>9, <3>1, ReachThen
      <4> QED
        BY <4>1, <3>3, ReachThen
    <3>5. u.cache[Hd(l)] = h /\ u.cache[Tl(l)] = s.cache[Tl(l)]
      BY <1>2, <3>3
    <3>6. \A x \in ListWords(l) \ {Hd(l), Tl(l), Nxt(l, r)} : u.cache[x] = s.cache[x]
      BY <1>2, <3>3
    <3> QED
      BY <2>2, <3>3, <3>4, <3>5, <3>6
  <2> QED
    BY <2>1, <2>2
<1>11. PICK u \in W :
         /\ Reach(s, (<<Check(l)>> \o X) \o Persist(Nxt(l, r), h), u, W)
         /\ SettledOn(u, l) /\ u.cache[Nxt(l, r)] = h /\ u.cache[Hd(l)] = h
         /\ u.cache[Tl(l)] = (IF S = << >> THEN r ELSE s.cache[Tl(l)])
         /\ \A x \in ListWords(l) \ {Hd(l), Tl(l), Nxt(l, r)} : u.cache[x] = s.cache[x]
  BY <1>10
<1>12. \A c \in Memories : (c[Hd(l)] = r /\ \A x \in ListWords(l) \ {Hd(l)} : c[x] = u.cache[x]) => c \in K
  <2>1. SUFFICES ASSUME NEW c \in Memories, c[Hd(l)] = r, \A x \in ListWords(l) \ {Hd(l)} : c[x] = u.cache[x]
                 PROVE  c \in K
    OBVIOUS
  <2>2. Exact(c, l, T)
    BY <1>2, <1>7, <1>11, <2>1
  <2>3. Tight(c, l, T)
    BY <1>1, <2>2 DEF Exact, Tight
  <2> QED
    BY <2>3 DEF TightSet, T
<1>13. PICK t \in W : /\ Reach(u, Persist(Hd(l), r), t, W)
                      /\ SettledOn(t, l) /\ t.cache[Hd(l)] = r
                      /\ \A x \in Words \ {Hd(l)} : t.cache[x] = u.cache[x]
                      /\ t.medium = Settled(t.cache)
  BY <1>2, <1>3, <1>11, <1>12, WithinPersist DEF W
<1>14. Exact(t.cache, l, T)
  <2>1. \A x \in ListWords(l) \ {Hd(l), Tl(l), Nxt(l, r)} : t.cache[x] = s.cache[x]
    BY <1>2, <1>11, <1>13
  <2>2. t.cache[Nxt(l, r)] = h /\ t.cache[Tl(l)] = (IF S = << >> THEN r ELSE s.cache[Tl(l)])
    BY <1>2, <1>11, <1>13
  <2> QED
    BY <1>7, <1>13, <2>1, <2>2
<1>15. SlistInvariants(t.cache, l)
  BY <1>1, <1>14, ExactInvariants
<1>16. Reach(t, <<Check(l)>>, t, W)
  BY <1>4, <1>15, ReachCheck
<1> HIDE DEF X, h
<1>17. Reach(s, ((<<Check(l)>> \o X) \o Persist(Nxt(l, r), h)) \o Persist(Hd(l), r), t, W)
  BY <1>11, <1>13, ReachThen
<1>18. Reach(s, (((<<Check(l)>> \o X) \o Persist(Nxt(l, r), h)) \o Persist(Hd(l), r)) \o <<Check(l)>>, t, W)
  BY <1>16, <1>17, ReachThen
<1>19. InsertHead(s.cache, l, r) = (((<<Check(l)>> \o X) \o Persist(Nxt(l, r), h)) \o Persist(Hd(l), r)) \o <<Check(l)>>
  BY DEF InsertHead, X, h
<1> QED
  BY <1>13, <1>14, <1>18, <1>19 DEF Held, W, T

-----------------------------------------------------------------------------
(* SLIST_INSERT_TAIL                                                       *)

LEMMA WithinWider ==
  ASSUME NEW s, NEW l, NEW K, NEW L, K \subseteq L
  PROVE  Within(s, l, K) \subseteq Within(s, l, L)
BY DEF Within

LEMMA LinkedAppend ==
  ASSUME NEW l \in Lists, NEW c, NEW d, NEW S \in Chains, NEW r \in Regions \ Range(S),
         S # << >>, Linked(c, l, S),
         d[Nxt(l, r)] = Invalid, d[Nxt(l, S[Len(S)])] = r,
         \A x \in ListWords(l) \ {Tl(l), Nxt(l, r), Nxt(l, S[Len(S)])} : d[x] = c[x]
  PROVE  Linked(d, l, Append(S, r))
<1> DEFINE T == Append(S, r)
<1>1. /\ T \in Chains /\ Len(T) = Len(S) + 1 /\ T[Len(S) + 1] = r
      /\ \A i \in 1 .. Len(S) : T[i] = S[i]
  BY AppendFacts
<1> HIDE DEF T
<1>2. Len(S) \in Nat /\ Len(S) \in 1 .. Len(S) /\ 1 \in 1 .. Len(S)
  BY ChainFacts
<1>3. ASSUME NEW i \in 1 .. Len(S), i < Len(S) PROVE d[Nxt(l, S[i])] = c[Nxt(l, S[i])]
  <2>1. S[i] \in Places /\ r \in Places /\ S[i] # r /\ S[Len(S)] \in Places
    BY <1>2, ChainFacts, PlaceFacts
  <2>2. S[i] # S[Len(S)]
    BY <1>2, <1>3, ChainFacts
  <2>3. Nxt(l, S[i]) \in ListWords(l) \ {Tl(l), Nxt(l, r), Nxt(l, S[Len(S)])}
    BY <2>1, <2>2, ListWordFacts
  <2> QED
    BY <2>3
<1>4. ASSUME NEW i \in 1 .. Len(T), i < Len(T) PROVE d[Nxt(l, T[i])] = T[i + 1]
  <2>1. i \in 1 .. Len(S) /\ T[i] = S[i]
    BY <1>1, <1>2, <1>4
  <2>2. CASE i < Len(S)
    <3>1. i + 1 \in 1 .. Len(S) /\ T[i + 1] = S[i + 1]
      BY <1>1, <1>2, <2>1, <2>2
    <3>2. c[Nxt(l, S[i])] = S[i + 1]
      BY <2>1, <2>2 DEF Linked
    <3> QED
      BY <1>3, <2>1, <2>2, <3>1, <3>2
  <2>3. CASE ~(i < Len(S))
    <3>1. i = Len(S)
      BY <1>2, <2>1, <2>3
    <3> QED
      BY <1>1, <2>1, <3>1
  <2> QED
    BY <2>2, <2>3
<1>5. d[Nxt(l, T[Len(T)])] = Invalid
  BY <1>1
<1>6. d[Hd(l)] = T[1]
  <2>1. c[Hd(l)] = S[1] /\ T[1] = S[1]
    BY <1>1, <1>2 DEF Linked
  <2>2. r \in Places /\ S[Len(S)] \in Places
    BY <1>2, ChainFacts, PlaceFacts
  <2>3. Hd(l) \in ListWords(l) \ {Tl(l), Nxt(l, r), Nxt(l, S[Len(S)])}
    BY <2>2, ListWordFacts
  <2> QED
    BY <2>1, <2>3
<1> QED
  BY <1>4, <1>5, <1>6 DEF Linked, T

LEMMA InsertTailEffect ==
  ASSUME NEW l \in Lists, NEW s \in States, NEW S \in Chains, NEW r \in Regions \ Range(S),
         Held(s, l, S),
         NEW K, K = TightSet(l, S) \union TightSet(l, Append(S, r)) \union StaleSet(l, Append(S, r))
  PROVE  \E t \in Within(s, l, K) :
           /\ Reach(s, InsertTail(s.cache, l, r), t, Within(s, l, K))
           /\ Held(t, l, Append(S, r)) /\ t.medium = Settled(t.cache)
<1> DEFINE W == Within(s, l, K)
           T == Append(S, r)
           z == s.cache[Tl(l)]
           X == IF s.cache[Hd(l)] = Invalid THEN InsertHead(s.cache, l, r)
                ELSE (Persist(Nxt(l, r), Invalid) \o Persist(Nxt(l, z), r)) \o Persist(Tl(l), r)
<1>1. /\ T \in Chains /\ Len(T) = Len(S) + 1 /\ T[Len(S) + 1] = r
      /\ \A i \in 1 .. Len(S) : T[i] = S[i]
      /\ T # << >> /\ Len(S) \in Nat /\ (S = << >>) = (Len(S) = 0)
  BY AppendFacts, ChainFacts
<1>2. /\ Exact(s.cache, l, S) /\ SettledOn(s, l) /\ r \in Links /\ Invalid \in Links
      /\ (s.cache[Hd(l)] = Invalid <=> S = << >>)
  BY PlaceFacts, ExactInvariants DEF Held
<1>3. W \subseteq States
  BY DEF Within
<1>4. s \in W
  <2>1. \A c \in Memories : (\A x \in ListWords(l) : c[x] = s.cache[x]) => c \in K
    BY <1>2, SameList DEF TightSet
  <2> QED
    BY <1>2, <2>1, HeldWithin
<1> HIDE DEF W, T
<1>5. \E t \in W : Reach(s, X, t, W) /\ Held(t, l, T) /\ t.medium = Settled(t.cache)
  <2>1. CASE S = << >>
    <3>1. WithHead(r, S) = T
      <4>0. Len(S) + 1 = 1
        BY <1>1, <2>1
      <4>1. WithHead(r, S) \in Chains /\ Len(WithHead(r, S)) = 1 /\ WithHead(r, S)[1] = r
        <5>1. WithHead(r, S) \in Chains /\ Len(WithHead(r, S)) = Len(S) + 1 /\ WithHead(r, S)[1] = r
          BY ConsFacts
        <5> QED
          BY <4>0, <5>1
      <4>2. PICK U : U = WithHead(r, S)
        OBVIOUS
      <4>3. U \in Seq(Regions) /\ T \in Seq(Regions) /\ Len(U) = 1 /\ Len(T) = 1 /\ U[1] = T[1]
        BY <1>1, <2>1, <4>1, <4>2, ChainFacts
      <4>4. U = T
        BY <4>3
      <4> QED
        BY <4>2, <4>4
    <3>2. PICK L : L = TightSet(l, S) \union TightSet(l, WithHead(r, S))
      OBVIOUS
    <3>3. PICK t \in Within(s, l, L) :
            /\ Reach(s, InsertHead(s.cache, l, r), t, Within(s, l, L))
            /\ Held(t, l, WithHead(r, S)) /\ t.medium = Settled(t.cache)
      BY <3>2, InsertHeadEffect
    <3>4. Within(s, l, L) \subseteq W
      BY <3>1, <3>2, WithinWider DEF W, T
    <3>5. Reach(s, InsertHead(s.cache, l, r), t, W)
      BY <3>3, <3>4, ReachWider
    <3>6. X = InsertHead(s.cache, l, r)
      BY <1>2, <2>1
    <3> QED
      BY <3>1, <3>3, <3>4, <3>5, <3>6
  <2>2. CASE S # << >>
    <3>1. z = S[Len(S)] /\ Len(S) \in 1 .. Len(S) /\ z \in Places /\ r \in Places /\ z # r /\ Linked(s.cache, l, S)
      BY <1>1, <1>2, <2>2, ChainFacts, PlaceFacts DEF Exact
    <3>2. /\ Hd(l) \in ListWords(l) /\ Tl(l) \in ListWords(l) /\ Nxt(l, r) \in ListWords(l)
          /\ Nxt(l, z) \in ListWords(l) /\ Nxt(l, r) # Nxt(l, z) /\ ListWords(l) \subseteq Words
          /\ Hd(l) # Tl(l) /\ Nxt(l, r) # Hd(l) /\ Nxt(l, r) # Tl(l) /\ Nxt(l, z) # Hd(l) /\ Nxt(l, z) # Tl(l)
          /\ Holds(Tl(l)) = Links /\ Holds(Nxt(l, r)) = Links /\ Holds(Nxt(l, z)) = Links
      BY <3>1, ListWordFacts
    <3> HIDE DEF z
    \* the link of a region outside of the list
    <3>3. ASSUME NEW c, \A x \in ListWords(l) \ {Nxt(l, r)} : c[x] = s.cache[x]
          PROVE  Tight(c, l, S)
      <4>1. ASSUME NEW i \in 1 .. Len(S) PROVE c[Nxt(l, S[i])] = s.cache[Nxt(l, S[i])]
        <5>1. S[i] \in Places /\ S[i] # r
          BY ChainFacts
        <5> QED
          BY <3>1, <3>3, <5>1, ListWordFacts
      <4>2. Linked(c, l, S)
        BY <3>1, <3>2, <3>3, <4>1 DEF Linked
      <4> QED
        BY <1>2, <2>2, <3>2, <3>3, <4>2 DEF Tight, Exact
    <3>4. \A c \in Memories : (c[Nxt(l, r)] = Invalid /\ \A x \in ListWords(l) \ {Nxt(l, r)} : c[x] = s.cache[x]) => c \in K
      BY <3>3 DEF TightSet
    <3>5. PICK u \in W : /\ Reach(s, Persist(Nxt(l, r), Invalid), u, W)
                         /\ SettledOn(u, l) /\ u.cache[Nxt(l, r)] = Invalid
                         /\ \A x \in Words \ {Nxt(l, r)} : u.cache[x] = s.cache[x]
      BY <1>2, <1>4, <3>2, <3>4, WithinPersist DEF W
    <3>6. ASSUME NEW c, c[Nxt(l, z)] = r, c[Nxt(l, r)] = Invalid,
                 \A x \in ListWords(l) \ {Tl(l), Nxt(l, r), Nxt(l, z)} : c[x] = s.cache[x]
          PROVE  Linked(c, l, T)
      BY <2>2, <3>1, <3>6, LinkedAppend DEF T
    <3>7. \A c \in Memories : (c[Nxt(l, z)] = r /\ \A x \in ListWords(l) \ {Nxt(l, z)} : c[x] = u.cache[x]) => c \in K
      <4>1. SUFFICES ASSUME NEW c \in Memories, c[Nxt(l, z)] = r,
                            \A x \in ListWords(l) \ {Nxt(l, z)} : c[x] = u.cache[x]
                     PROVE  c \in K
        OBVIOUS
      <4>2. c[Nxt(l, r)] = Invalid
        BY <3>2, <3>5, <4>1
      <4>3. \A x \in ListWords(l) \ {Tl(l), Nxt(l, r), Nxt(l, z)} : c[x] = s.cache[x]
        BY <3>2, <3>5, <4>1
      <4>4. Linked(c, l, T)
        BY <3>6, <4>1, <4>2, <4>3
      <4>5. c[Tl(l)] = z
        BY <3>2, <3>5, <4>1 DEF z
      <4>6. Len(T) >= 2 /\ T[Len(T) - 1] = z
        <5>1. Len(T) - 1 = Len(S)
          BY <1>1
        <5> QED
          BY <1>1, <3>1, <5>1
      <4> QED
        BY <4>4, <4>5, <4>6 DEF StaleSet, Stale, T
    <3>8. PICK v \in W : /\ Reach(u, Persist(Nxt(l, z), r), v, W)
                         /\ SettledOn(v, l) /\ v.cache[Nxt(l, z)] = r
                         /\ \A x \in Words \ {Nxt(l, z)} : v.cache[x] = u.cache[x]
      BY <1>2, <3>2, <3>5, <3>7, WithinPersist DEF W
    <3>9. ASSUME NEW c, c[Tl(l)] = r, \A x \in ListWords(l) \ {Tl(l)} : c[x] = v.cache[x]
          PROVE  Exact(c, l, T) /\ Tight(c, l, T)
      <4>1. c[Nxt(l, z)] = r /\ c[Nxt(l, r)] = Invalid
        BY <3>2, <3>5, <3>8, <3>9
      <4>2. \A x \in ListWords(l) \ {Tl(l), Nxt(l, r), Nxt(l, z)} : c[x] = s.cache[x]
        BY <3>2, <3>5, <3>8, <3>9
      <4>3. Linked(c, l, T)
        BY <3>6, <4>1, <4>2
      <4> QED
        BY <1>1, <3>9, <4>3 DEF Exact, Tight
    <3>10. \A c \in Memories : (c[Tl(l)] = r /\ \A x \in ListWords(l) \ {Tl(l)} : c[x] = v.cache[x]) => c \in K
      BY <3>9 DEF TightSet, T
    <3>11. PICK t \in W : /\ Reach(v, Persist(Tl(l), r), t, W)
                          /\ SettledOn(t, l) /\ t.cache[Tl(l)] = r
                          /\ \A x \in Words \ {Tl(l)} : t.cache[x] = v.cache[x]
                          /\ t.medium = Settled(t.cache)
      BY <1>2, <3>2, <3>8, <3>10, WithinPersist DEF W
    <3>12. Held(t, l, T)
      BY <3>2, <3>9, <3>11 DEF Held
    <3>13. Reach(s, Persist(Nxt(l, r), Invalid) \o Persist(Nxt(l, z), r), v, W)
      BY <3>5, <3>8, ReachThen
    <3>14. Reach(s, (Persist(Nxt(l, r), Invalid) \o Persist(Nxt(l, z), r)) \o Persist(Tl(l), r), t, W)
      BY <3>11, <3>13, ReachThen
    <3>15. X = (Persist(Nxt(l, r), Invalid) \o Persist(Nxt(l, z), r)) \o Persist(Tl(l), r)
      BY <1>2, <2>2
    <3> QED
      BY <3>11, <3>12, <3>14, <3>15
  <2> QED
    BY <2>1, <2>2
<1>6. PICK t \in W : Reach(s, X, t, W) /\ Held(t, l, T) /\ t.medium = Settled(t.cache)
  BY <1>5
<1>7. SlistInvariants(s.cache, l) /\ SlistInvariants(t.cache, l)
  BY <1>1, <1>2, <1>6, ExactInvariants DEF Held
<1>8. Reach(s, <<Check(l)>>, s, W) /\ Reach(t, <<Check(l)>>, t, W)
  BY <1>3, <1>4, <1>6, <1>7, ReachCheck
<1>9. InsertTail(s.cache, l, r) = (<<Check(l)>> \o X) \o <<Check(l)>>
  BY DEF InsertTail
<1> HIDE DEF X
<1>10. Reach(s, <<Check(l)>> \o X, t, W)
  BY <1>6, <1>8, ReachThen
<1>11. Reach(s, (<<Check(l)>> \o X) \o <<Check(l)>>, t, W)
  BY <1>8, <1>10, ReachThen
<1> QED
  BY <1>6, <1>9, <1>11 DEF W, T

LEMMA SameSequence ==
  ASSUME NEW E, NEW a \in Seq(E), NEW b \in Seq(E), Len(a) = Len(b),
         \A i \in 1 .. Len(a) : a[i] = b[i]
  PROVE  a = b
<1>1. a = [i \in 1 .. Len(a) |-> a[i]] /\ b = [i \in 1 .. Len(a) |-> b[i]]
  OBVIOUS
<1> QED
  BY <1>1

LEMMA TripleConcat ==
  ASSUME NEW E, NEW x \in E, NEW y \in E, NEW z \in E
  PROVE  (<<x>> \o <<y>>) \o <<z>> = <<x, y, z>>
<1>1. PICK a : a = <<x, y>>
  OBVIOUS
<1>2. PICK b : b = <<z>>
  OBVIOUS
<1>3. a \in Seq(E) /\ Len(a) = 2 /\ a[1] = x /\ a[2] = y /\ b \in Seq(E) /\ Len(b) = 1 /\ b[1] = z
  BY <1>1, <1>2
<1>4. PICK c : c = a \o b
  OBVIOUS
<1>5. /\ c \in Seq(E) /\ Len(c) = Len(a) + Len(b)
      /\ \A i \in 1 .. Len(a) + Len(b) : c[i] = IF i <= Len(a) THEN a[i] ELSE b[i - Len(a)]
  BY <1>3, <1>4, ConcatFacts
<1>6. Len(c) = 3 /\ c[1] = x /\ c[2] = y /\ c[3] = z
  BY <1>3, <1>5
<1>7. c = <<x, y, z>>
  <2>1. PICK d : d = <<x, y, z>>
    OBVIOUS
  <2>2. d \in Seq(E) /\ Len(d) = 3 /\ d[1] = x /\ d[2] = y /\ d[3] = z
    BY <2>1
  <2>3. \A i \in 1 .. 3 : c[i] = d[i]
    <3>1. SUFFICES ASSUME NEW i \in 1 .. 3 PROVE c[i] = d[i]
      OBVIOUS
    <3>2. i = 1 \/ i = 2 \/ i = 3
      OBVIOUS
    <3> QED
      BY <3>2, <1>6, <2>2
  <2>4. c = d
    BY <1>5, <1>6, <2>2, <2>3, SameSequence
  <2> QED
    BY <2>1, <2>4
<1>8. <<x>> \o <<y>> = a
  BY <1>1, PairConcat
<1> QED
  BY <1>2, <1>4, <1>7, <1>8

-----------------------------------------------------------------------------
(* SLIST_INIT                                                              *)

\* Emptying a list of which a power failure may leave each end as it was.
LEMMA ListInitEffect ==
  ASSUME NEW l \in Lists, NEW s \in States, SettledOn(s, l), NEW K,
         \A c \in Memories :
           /\ c[Hd(l)] \in {s.cache[Hd(l)], Invalid} /\ c[Tl(l)] \in {s.cache[Tl(l)], Invalid}
           /\ \A x \in ListWords(l) \ {Hd(l), Tl(l)} : c[x] = s.cache[x]
           => c \in K
  PROVE  \E t \in Within(s, l, K) :
           /\ Reach(s, ListInit(l), t, Within(s, l, K))
           /\ Held(t, l, << >>) /\ t.medium = Settled(t.cache)
           /\ \A x \in Words \ {Hd(l), Tl(l)} : t.cache[x] = s.cache[x]
<1> DEFINE W == Within(s, l, K)
<1>1. /\ Hd(l) \in ListWords(l) /\ Tl(l) \in ListWords(l) /\ Hd(l) # Tl(l) /\ ListWords(l) \subseteq Words
      /\ Holds(Hd(l)) = Links /\ Holds(Tl(l)) = Links /\ Invalid \in Links
  BY ListWordFacts, PlaceFacts
<1>2. W \subseteq States
  BY DEF Within
<1>3. s \in W
  <2>1. \A c \in Memories : (\A x \in ListWords(l) : c[x] = s.cache[x]) => c \in K
    BY <1>1
  <2> QED
    BY <2>1, HeldWithin
<1>4. PICK p : p = Put(s, Tl(l), Invalid)
  OBVIOUS
<1>5. PICK q : q = Put(p, Hd(l), Invalid)
  OBVIOUS
<1>6. p \in States /\ q \in States
  BY <1>1, <1>4, <1>5, PutFacts
<1>7. /\ \A x \in Words \ {Tl(l)} : p.cache[x] = s.cache[x] /\ p.medium[x] = s.medium[x]
      /\ p.cache[Tl(l)] = Invalid /\ p.medium[Tl(l)] = s.medium[Tl(l)] \union {Invalid}
  BY <1>1, <1>4, PutFacts
<1>8. /\ \A x \in Words \ {Hd(l)} : q.cache[x] = p.cache[x] /\ q.medium[x] = p.medium[x]
      /\ q.cache[Hd(l)] = Invalid /\ q.medium[Hd(l)] = p.medium[Hd(l)] \union {Invalid}
  BY <1>1, <1>5, <1>6, PutFacts
<1>9. \A x \in ListWords(l) : s.medium[x] = {s.cache[x]}
  BY DEF SettledOn
<1>10. p \in W
  <2>1. ASSUME NEW c \in Images(p.medium) PROVE c \in K
    <3>1. c \in Memories /\ \A x \in Words : c[x] \in p.medium[x]
      BY DEF Images
    <3>2. /\ c[Hd(l)] \in {s.cache[Hd(l)], Invalid} /\ c[Tl(l)] \in {s.cache[Tl(l)], Invalid}
          /\ \A x \in ListWords(l) \ {Hd(l), Tl(l)} : c[x] = s.cache[x]
      BY <1>1, <1>7, <1>9, <3>1
    <3> QED
      BY <3>1, <3>2
  <2> QED
    BY <1>1, <1>3, <1>4, <2>1, WithinPut
<1>11. q \in W
  <2>1. ASSUME NEW c \in Images(q.medium) PROVE c \in K
    <3>1. c \in Memories /\ \A x \in Words : c[x] \in q.medium[x]
      BY DEF Images
    <3>2. /\ c[Hd(l)] \in {s.cache[Hd(l)], Invalid} /\ c[Tl(l)] \in {s.cache[Tl(l)], Invalid}
          /\ \A x \in ListWords(l) \ {Hd(l), Tl(l)} : c[x] = s.cache[x]
      BY <1>1, <1>7, <1>8, <1>9, <3>1
    <3> QED
      BY <3>1, <3>2
  <2> QED
    BY <1>1, <1>5, <1>10, <2>1, WithinPut
<1>12. Flushed(q) \in W
  BY <1>11, WithinFlushed
<1> HIDE DEF W
<1>13. /\ Reach(s, <<Store(Tl(l), Invalid)>>, p, W) /\ Reach(p, <<Store(Hd(l), Invalid)>>, q, W)
       /\ Reach(q, <<Drain>>, Flushed(q), W)
  BY <1>1, <1>2, <1>3, <1>4, <1>5, <1>10, <1>11, <1>12, ReachStore, ReachDrain
<1>14. Reach(s, (<<Store(Tl(l), Invalid)>> \o <<Store(Hd(l), Invalid)>>) \o <<Drain>>, Flushed(q), W)
  <2>1. Reach(s, <<Store(Tl(l), Invalid)>> \o <<Store(Hd(l), Invalid)>>, q, W)
    BY <1>13, ReachThen
  <2> QED
    BY <1>13, <2>1, ReachThen
<1>15. ListInit(l) = (<<Store(Tl(l), Invalid)>> \o <<Store(Hd(l), Invalid)>>) \o <<Drain>>
  BY TripleConcat DEF ListInit
<1>16. /\ Flushed(q).cache = q.cache /\ SettledOn(Flushed(q), l)
       /\ Flushed(q).medium = Settled(Flushed(q).cache)
  BY <1>6, FlushedFacts, SettledEverywhere
<1>17. q.cache[Hd(l)] = Invalid /\ q.cache[Tl(l)] = Invalid
  BY <1>1, <1>7, <1>8
<1>18. \A x \in Words \ {Hd(l), Tl(l)} : q.cache[x] = s.cache[x]
  BY <1>7, <1>8
<1>19. Held(Flushed(q), l, << >>)
  BY <1>16, <1>17 DEF Held, Exact, Linked
<1> QED
  BY <1>12, <1>14, <1>15, <1>16, <1>18, <1>19 DEF W

-----------------------------------------------------------------------------
(* SLIST_REMOVE_HEAD                                                       *)

LEMMA LinkedTail ==
  ASSUME NEW l \in Lists, NEW c, NEW d, NEW S \in Chains, Len(S) >= 2, Linked(c, l, S),
         d[Hd(l)] = S[2], \A x \in ListWords(l) \ {Hd(l), Tl(l)} : d[x] = c[x]
  PROVE  Linked(d, l, Tail(S))
<1> DEFINE T == Tail(S)
<1>1. S # << >> /\ Len(S) \in Nat
  BY ChainFacts
<1>2. T \in Chains /\ Len(T) = Len(S) - 1 /\ \A i \in 1 .. Len(S) - 1 : T[i] = S[i + 1]
  BY <1>1, TailFacts
<1> HIDE DEF T
<1>3. ASSUME NEW i \in 1 .. Len(S) PROVE d[Nxt(l, S[i])] = c[Nxt(l, S[i])]
  <2>1. S[i] \in Places
    BY ChainFacts
  <2> QED
    BY <2>1, ListWordFacts
<1>4. ASSUME NEW i \in 1 .. Len(T), i < Len(T) PROVE d[Nxt(l, T[i])] = T[i + 1]
  <2>1. i + 1 \in 1 .. Len(S) /\ i + 1 < Len(S) /\ i \in 1 .. Len(S) - 1 /\ i + 1 \in 1 .. Len(S) - 1
    BY <1>1, <1>2, <1>4
  <2>2. T[i] = S[i + 1] /\ T[i + 1] = S[i + 1 + 1]
    BY <1>2, <2>1
  <2>3. c[Nxt(l, S[i + 1])] = S[i + 1 + 1]
    BY <1>1, <2>1 DEF Linked
  <2>4. d[Nxt(l, S[i + 1])] = c[Nxt(l, S[i + 1])]
    BY <1>3, <2>1
  <2> QED
    BY <2>2, <2>3, <2>4
<1>5. d[Nxt(l, T[Len(T)])] = Invalid
  <2>1. Len(S) \in 1 .. Len(S) /\ Len(S) - 1 \in 1 .. Len(S) - 1 /\ Len(S) - 1 + 1 = Len(S)
    BY <1>1
  <2>2. T[Len(T)] = S[Len(S)]
    BY <1>2, <2>1
  <2>3. c[Nxt(l, S[Len(S)])] = Invalid
    BY <1>1 DEF Linked
  <2> QED
    BY <1>3, <2>1, <2>2, <2>3
<1>6. d[Hd(l)] = T[1]
  <2>1. 1 \in 1 .. Len(S) - 1 /\ 1 + 1 = 2
    BY <1>1
  <2> QED
    BY <1>2, <2>1
<1> QED
  BY <1>4, <1>5, <1>6 DEF Linked, T

LEMMA RemoveHeadEffect ==
  ASSUME NEW l \in Lists, NEW s \in States, NEW S \in Chains, S # << >>, Held(s, l, S),
         NEW K, K = TightSet(l, S) \union TightSet(l, Tail(S))
  PROVE  \E t \in Within(s, l, K) :
           /\ Reach(s, RemoveHead(s.cache, l), t, Within(s, l, K))
           /\ Held(t, l, Tail(S)) /\ t.medium = Settled(t.cache)
<1> DEFINE W == Within(s, l, K)
           T == Tail(S)
           X == IF s.cache[Tl(l)] = s.cache[Hd(l)] THEN ListInit(l)
                ELSE Persist(Hd(l), s.cache[Nxt(l, s.cache[Hd(l)])])
<1>1. /\ T \in Chains /\ Len(T) = Len(S) - 1 /\ \A i \in 1 .. Len(S) - 1 : T[i] = S[i + 1]
      /\ Len(S) \in Nat /\ Len(S) >= 1 /\ 1 \in 1 .. Len(S) /\ Len(S) \in 1 .. Len(S)
  BY TailFacts, ChainFacts
<1>2. /\ Hd(l) \in ListWords(l) /\ Tl(l) \in ListWords(l) /\ Hd(l) # Tl(l) /\ ListWords(l) \subseteq Words
      /\ Holds(Hd(l)) = Links /\ Invalid \in Links
  BY ListWordFacts, PlaceFacts
<1>3. /\ Exact(s.cache, l, S) /\ SettledOn(s, l) /\ Linked(s.cache, l, S)
      /\ s.cache[Hd(l)] = S[1] /\ s.cache[Tl(l)] = S[Len(S)] /\ S[1] # Invalid /\ S[1] \in Places
  BY <1>1, ExactInvariants, ChainFacts DEF Held, Exact
<1>4. W \subseteq States
  BY DEF Within
<1>5. \A c \in Memories : (\A x \in ListWords(l) : c[x] = s.cache[x]) => c \in K
  BY <1>3, SameList DEF TightSet
<1>6. s \in W
  BY <1>3, <1>5, HeldWithin
<1> HIDE DEF W
<1>7. \E t \in W : Reach(s, X, t, W) /\ Held(t, l, T) /\ t.medium = Settled(t.cache)
  <2>1. CASE Len(S) = 1
    <3>1. T = << >>
      BY <1>1, <2>1, ChainFacts
    <3>2. \A c \in Memories :
            /\ c[Hd(l)] \in {s.cache[Hd(l)], Invalid} /\ c[Tl(l)] \in {s.cache[Tl(l)], Invalid}
            /\ \A x \in ListWords(l) \ {Hd(l), Tl(l)} : c[x] = s.cache[x]
            => c \in K
      <4>1. SUFFICES ASSUME NEW c \in Memories,
                            c[Hd(l)] \in {s.cache[Hd(l)], Invalid}, c[Tl(l)] \in {s.cache[Tl(l)], Invalid},
                            \A x \in ListWords(l) \ {Hd(l), Tl(l)} : c[x] = s.cache[x]
                     PROVE  c \in K
        OBVIOUS
      <4>2. CASE c[Hd(l)] = Invalid \/ c[Tl(l)] = Invalid
        <5>1. Tight(c, l, T)
          BY <3>1, <4>2 DEF Tight, Linked
        <5> QED
          BY <5>1 DEF TightSet
      <4>3. CASE c[Hd(l)] = s.cache[Hd(l)] /\ c[Tl(l)] = s.cache[Tl(l)]
        <5>1. \A x \in ListWords(l) : c[x] = s.cache[x]
          BY <4>1, <4>3
        <5> QED
          BY <1>5, <5>1
      <4> QED
        BY <4>1, <4>2, <4>3
    <3>3. PICK t \in W : Reach(s, ListInit(l), t, W) /\ Held(t, l, << >>) /\ t.medium = Settled(t.cache)
      BY <1>3, <3>2, ListInitEffect DEF W
    <3>4. X = ListInit(l)
      BY <1>3, <2>1
    <3> QED
      BY <3>1, <3>3, <3>4
  <2>2. CASE Len(S) # 1
    <3>1. Len(S) >= 2 /\ 2 \in 1 .. Len(S) /\ 1 < Len(S) /\ 1 + 1 = 2 /\ S # << >> /\ 1 \in 1 .. Len(S)
      BY <1>1, <2>2
    <3>2. S[1] # S[Len(S)] /\ S[2] \in Links
      <4>1. S[1] # S[Len(S)]
        BY <1>1, <3>1, ChainFacts
      <4>2. S[2] \in Regions
        BY <3>1, ChainFacts
      <4> QED
        BY <4>1, <4>2, PlaceFacts
    <3>3. s.cache[Nxt(l, S[1])] = S[2]
      BY <1>3, <3>1 DEF Linked
    <3>4. X = Persist(Hd(l), S[2])
      BY <1>3, <3>2, <3>3
    <3>5. ASSUME NEW c, c[Hd(l)] = S[2], \A x \in ListWords(l) \ {Hd(l)} : c[x] = s.cache[x]
          PROVE  Exact(c, l, T) /\ Tight(c, l, T)
      <4>1. Linked(c, l, T)
        BY <1>3, <3>1, <3>5, LinkedTail
      <4>2. c[Tl(l)] = T[Len(T)] /\ T # << >>
        <5>1. Len(S) - 1 \in 1 .. Len(S) - 1 /\ Len(S) - 1 + 1 = Len(S) /\ Len(T) # 0
          BY <1>1, <3>1
        <5>2. T[Len(T)] = S[Len(S)]
          BY <1>1, <5>1
        <5>3. c[Tl(l)] = s.cache[Tl(l)]
          BY <1>2, <3>5
        <5> HIDE DEF T
        <5> QED
          BY <1>1, <1>3, <5>1, <5>2, <5>3, ChainFacts
      <4> QED
        BY <4>1, <4>2 DEF Exact, Tight
    <3>6. \A c \in Memories : (c[Hd(l)] = S[2] /\ \A x \in ListWords(l) \ {Hd(l)} : c[x] = s.cache[x]) => c \in K
      BY <3>5 DEF TightSet
    <3>7. PICK t \in W : /\ Reach(s, Persist(Hd(l), S[2]), t, W)
                         /\ SettledOn(t, l) /\ t.cache[Hd(l)] = S[2]
                         /\ \A x \in Words \ {Hd(l)} : t.cache[x] = s.cache[x]
                         /\ t.medium = Settled(t.cache)
      BY <1>2, <1>3, <1>6, <3>2, <3>6, WithinPersist DEF W
    <3>8. Held(t, l, T)
      BY <1>2, <3>5, <3>7 DEF Held
    <3> QED
      BY <3>4, <3>7, <3>8
  <2> QED
    BY <2>1, <2>2
<1>8. PICK t \in W : Reach(s, X, t, W) /\ Held(t, l, T) /\ t.medium = Settled(t.cache)
  BY <1>7
<1>9. SlistInvariants(s.cache, l) /\ SlistInvariants(t.cache, l)
  BY <1>1, <1>3, <1>8, ExactInvariants DEF Held
<1>10. Reach(s, <<Check(l)>>, s, W) /\ Reach(t, <<Check(l)>>, t, W)
  BY <1>4, <1>6, <1>8, <1>9, ReachCheck DEF W
<1>11. RemoveHead(s.cache, l) = (<<Check(l)>> \o X) \o <<Check(l)>>
  BY <1>3 DEF RemoveHead
<1> HIDE DEF X, T
<1>12. Reach(s, <<Check(l)>> \o X, t, W)
  BY <1>8, <1>10, ReachThen
<1>13. Reach(s, (<<Check(l)>> \o X) \o <<Check(l)>>, t, W)
  BY <1>10, <1>12, ReachThen
<1> QED
  BY <1>8, <1>11, <1>13 DEF W, T

-----------------------------------------------------------------------------
(* slist_remove                                                            *)

LEMMA RemoveAtHead ==
  ASSUME NEW S \in Chains, S # << >>
  PROVE  RemoveAt(S, 1) = Tail(S)
<1>1. Len(S) \in Nat /\ 1 \in 1 .. Len(S)
  <2>1. Len(S) \in Nat /\ Len(S) # 0
    BY ChainFacts
  <2> QED
    BY <2>1
<1>2. PICK T : T = RemoveAt(S, 1)
  OBVIOUS
<1>3. PICK U : U = Tail(S)
  OBVIOUS
<1>4. /\ T \in Chains /\ Len(T) = Len(S) - 1
      /\ \A k \in 1 .. Len(S) - 1 : T[k] = IF k < 1 THEN S[k] ELSE S[k + 1]
  BY <1>1, <1>2, RemoveAtFacts
<1>5. U \in Chains /\ Len(U) = Len(S) - 1 /\ \A k \in 1 .. Len(S) - 1 : U[k] = S[k + 1]
  BY <1>3, TailFacts
<1>6. \A k \in 1 .. Len(T) : T[k] = U[k]
  BY <1>4, <1>5
<1>7. T \in Seq(Regions) /\ U \in Seq(Regions)
  BY <1>4, <1>5, ChainFacts
<1> QED
  BY <1>2, <1>3, <1>4, <1>5, <1>6, <1>7, SameSequence

LEMMA LinkedRemove ==
  ASSUME NEW l \in Lists, NEW c, NEW d, NEW S \in Chains, NEW i \in 2 .. Len(S), Linked(c, l, S),
         d[Nxt(l, S[i - 1])] = c[Nxt(l, S[i])],
         \A x \in ListWords(l) \ {Tl(l), Nxt(l, S[i - 1])} : d[x] = c[x]
  PROVE  Linked(d, l, RemoveAt(S, i))
<1> DEFINE T == RemoveAt(S, i)
<1>1. Len(S) \in Nat /\ i \in 1 .. Len(S) /\ i - 1 \in 1 .. Len(S) /\ Len(S) >= 2 /\ S # << >>
  BY ChainFacts
<1>2. /\ T \in Chains /\ Len(T) = Len(S) - 1
      /\ \A k \in 1 .. Len(S) - 1 : T[k] = IF k < i THEN S[k] ELSE S[k + 1]
  BY <1>1, RemoveAtFacts
<1> HIDE DEF T
<1>3. ASSUME NEW k \in 1 .. Len(S), k # i - 1 PROVE d[Nxt(l, S[k])] = c[Nxt(l, S[k])]
  <2>1. S[k] \in Places /\ S[i - 1] \in Places /\ S[k] # S[i - 1]
    BY <1>1, <1>3, ChainFacts
  <2> QED
    BY <2>1, ListWordFacts
<1>4. \A k \in 1 .. Len(S) : k < Len(S) => c[Nxt(l, S[k])] = S[k + 1]
  BY <1>1 DEF Linked
<1>5. c[Nxt(l, S[Len(S)])] = Invalid /\ c[Hd(l)] = S[1]
  BY <1>1 DEF Linked
<1>6. ASSUME NEW k \in 1 .. Len(T), k < Len(T) PROVE d[Nxt(l, T[k])] = T[k + 1]
  <2>1. k \in 1 .. Len(S) - 1 /\ k + 1 \in 1 .. Len(S) - 1 /\ k + 1 \in 1 .. Len(S) /\ k + 1 < Len(S)
    BY <1>1, <1>2, <1>6
  <2>2. CASE k < i - 1
    <3>1. T[k] = S[k] /\ T[k + 1] = S[k + 1] /\ k \in 1 .. Len(S) /\ k # i - 1 /\ k < Len(S)
      BY <1>1, <1>2, <2>1, <2>2
    <3> QED
      BY <3>1, <1>3, <1>4
  <2>3. CASE k = i - 1
    <3>1. T[k] = S[i - 1] /\ T[k + 1] = S[k + 1 + 1] /\ i < Len(S) /\ k + 1 + 1 = i + 1
      BY <1>1, <1>2, <2>1, <2>3
    <3>2. c[Nxt(l, S[i])] = S[i + 1]
      BY <1>1, <1>4, <3>1
    <3> QED
      BY <3>1, <3>2
  <2>4. CASE k > i - 1
    <3>1. T[k] = S[k + 1] /\ T[k + 1] = S[k + 1 + 1] /\ k + 1 # i - 1
      <4>1. ~(k < i) /\ ~(k + 1 < i) /\ k + 1 # i - 1
        BY <2>1, <2>4
      <4> QED
        BY <1>2, <2>1, <4>1
    <3>2. c[Nxt(l, S[k + 1])] = S[k + 1 + 1]
      BY <1>4, <2>1
    <3> QED
      BY <3>1, <3>2, <1>3, <2>1
  <2> QED
    BY <1>1, <2>1, <2>2, <2>3, <2>4
<1>7. d[Nxt(l, T[Len(T)])] = Invalid
  <2>1. Len(S) - 1 \in 1 .. Len(S) - 1 /\ Len(S) - 1 + 1 = Len(S) /\ Len(S) \in 1 .. Len(S)
    BY <1>1
  <2>2. CASE i = Len(S)
    <3>1. T[Len(T)] = S[i - 1]
      BY <1>1, <1>2, <2>1, <2>2
    <3> QED
      BY <3>1, <1>5, <2>2
  <2>3. CASE i # Len(S)
    <3>1. T[Len(T)] = S[Len(S)] /\ Len(S) # i - 1
      BY <1>1, <1>2, <2>1, <2>3
    <3> QED
      BY <3>1, <1>3, <1>5, <2>1
  <2> QED
    BY <2>2, <2>3
<1>8. d[Hd(l)] = T[1]
  <2>1. T[1] = S[1]
    BY <1>1, <1>2
  <2>2. S[i - 1] \in Places
    BY <1>1, ChainFacts
  <2>3. Hd(l) \in ListWords(l) \ {Tl(l), Nxt(l, S[i - 1])}
    BY <2>2, ListWordFacts
  <2> QED
    BY <2>1, <2>3, <1>5
<1> QED
  BY <1>6, <1>7, <1>8 DEF Linked, T

\* The link to a region comes from the one before it.
LEMMA PreviousOf ==
  ASSUME NEW l \in Lists, NEW m \in Memories, NEW S \in Chains, NEW i \in 2 .. Len(S), Exact(m, l, S)
  PROVE  (CHOOSE p \in Elements(m, l) : m[Nxt(l, p)] = S[i]) = S[i - 1]
<1>1. Len(S) \in Nat /\ i \in 1 .. Len(S) /\ i - 1 \in 1 .. Len(S) /\ i - 1 < Len(S) /\ i - 1 + 1 = i /\ S # << >>
  BY ChainFacts
<1>2. Linked(m, l, S)
  BY DEF Exact
<1>3. Elements(m, l) = {S[k] : k \in 1 .. Len(S)}
  BY ListedOf, ChainFacts
<1>4. m[Nxt(l, S[i - 1])] = S[i]
  <2>1. m[Nxt(l, S[i - 1])] = S[i - 1 + 1]
    BY <1>1, <1>2 DEF Linked
  <2> QED
    BY <1>1, <2>1
<1>5. ASSUME NEW k \in 1 .. Len(S), m[Nxt(l, S[k])] = S[i] PROVE k = i - 1
  <2>1. CASE k < Len(S)
    <3>1. k + 1 \in 1 .. Len(S) /\ S[k + 1] = S[i]
      BY <1>1, <1>2, <1>5, <2>1 DEF Linked
    <3>2. k + 1 = i
      BY <1>1, <3>1, ChainFacts
    <3> QED
      BY <3>2
  <2>2. CASE ~(k < Len(S))
    <3>1. k = Len(S)
      BY <1>1, <2>2
    <3>2. m[Nxt(l, S[k])] = Invalid
      BY <1>1, <1>2, <3>1 DEF Linked
    <3> QED
      BY <1>1, <1>5, <3>2, ChainFacts
  <2> QED
    BY <2>1, <2>2
<1>6. S[i - 1] \in Elements(m, l)
  BY <1>1, <1>3
<1>7. \A p \in Elements(m, l) : m[Nxt(l, p)] = S[i] => p = S[i - 1]
  BY <1>3, <1>5
<1> QED
  BY <1>4, <1>6, <1>7

LEMMA RemoveRegionEffect ==
  ASSUME NEW l \in Lists, NEW s \in States, NEW S \in Chains, NEW i \in 1 .. Len(S), Held(s, l, S),
         NEW K, TightSet(l, S) \subseteq K, TightSet(l, RemoveAt(S, i)) \subseteq K,
         i = Len(S) => StaleSet(l, S) \subseteq K
  PROVE  \E t \in Within(s, l, K) :
           /\ Reach(s, RemoveRegion(s.cache, l, S[i]), t, Within(s, l, K))
           /\ Held(t, l, RemoveAt(S, i)) /\ t.medium = Settled(t.cache)
<1> DEFINE W == Within(s, l, K)
           T == RemoveAt(S, i)
           r == S[i]
           previous == CHOOSE p \in Elements(s.cache, l) : s.cache[Nxt(l, p)] = r
           Y == IF s.cache[Nxt(l, r)] = Invalid THEN Persist(Tl(l), previous) ELSE << >>
           X == IF s.cache[Hd(l)] = r THEN RemoveHead(s.cache, l)
                ELSE Y \o Persist(Nxt(l, previous), s.cache[Nxt(l, r)])
<1>1. /\ T \in Chains /\ Len(T) = Len(S) - 1
      /\ \A k \in 1 .. Len(S) - 1 : T[k] = IF k < i THEN S[k] ELSE S[k + 1]
      /\ Len(S) \in Nat /\ Len(S) >= 1 /\ 1 \in 1 .. Len(S) /\ Len(S) \in 1 .. Len(S) /\ S # << >>
  <2>1. /\ T \in Chains /\ Len(T) = Len(S) - 1
        /\ \A k \in 1 .. Len(S) - 1 : T[k] = IF k < i THEN S[k] ELSE S[k + 1]
    BY RemoveAtFacts
  <2>2. Len(S) \in Nat /\ (S = << >>) = (Len(S) = 0)
    BY ChainFacts
  <2>3. Len(S) >= 1 /\ 1 \in 1 .. Len(S) /\ Len(S) \in 1 .. Len(S)
    BY <2>2
  <2> HIDE DEF T
  <2> QED
    BY <2>1, <2>2, <2>3
<1>2. /\ Tl(l) \in ListWords(l) /\ ListWords(l) \subseteq Words
      /\ Holds(Tl(l)) = Links /\ Invalid \in Links
  BY ListWordFacts, PlaceFacts
<1>3. /\ Exact(s.cache, l, S) /\ SettledOn(s, l) /\ Linked(s.cache, l, S)
      /\ s.cache[Hd(l)] = S[1] /\ s.cache[Tl(l)] = S[Len(S)]
  BY <1>1, ExactInvariants DEF Held, Exact
<1>4. W \subseteq States /\ s.cache \in Memories
  BY StateFacts DEF Within
<1>5. \A c \in Memories : (\A x \in ListWords(l) : c[x] = s.cache[x]) => c \in K
  <2>1. SUFFICES ASSUME NEW c \in Memories, \A x \in ListWords(l) : c[x] = s.cache[x] PROVE c \in K
    OBVIOUS
  <2>2. Tight(c, l, S)
    BY <1>3, <2>1, SameList
  <2> QED
    BY <2>2 DEF TightSet
<1>6. s \in W
  BY <1>3, <1>5, HeldWithin
<1>7. r \in Elements(s.cache, l) /\ r \in Regions /\ r \in Places
  <2>1. Elements(s.cache, l) = Range(S)
    BY <1>3, <1>4, ListedOf
  <2> QED
    BY <2>1, ChainFacts
<1> HIDE DEF W
<1>8. \E t \in W : Reach(s, X, t, W) /\ Held(t, l, T) /\ t.medium = Settled(t.cache)
  <2>1. CASE i = 1
    <3>1. T = Tail(S)
      <4>1. RemoveAt(S, 1) = Tail(S)
        BY <1>1, RemoveAtHead
      <4> QED
        BY <2>1, <4>1
    <3>2. PICK L : L = TightSet(l, S) \union TightSet(l, Tail(S))
      OBVIOUS
    <3>3. L \subseteq K
      BY <3>1, <3>2
    <3>4. PICK t \in Within(s, l, L) :
            /\ Reach(s, RemoveHead(s.cache, l), t, Within(s, l, L))
            /\ Held(t, l, Tail(S)) /\ t.medium = Settled(t.cache)
      BY <1>1, <3>2, RemoveHeadEffect
    <3>5. Within(s, l, L) \subseteq W
      BY <3>3, WithinWider DEF W
    <3>6. Reach(s, RemoveHead(s.cache, l), t, W)
      BY <3>4, <3>5, ReachWider
    <3>7. X = RemoveHead(s.cache, l)
      BY <1>3, <2>1
    <3> QED
      BY <3>1, <3>4, <3>5, <3>6, <3>7
  <2>2. CASE i # 1
    <3>1. i \in 2 .. Len(S) /\ i - 1 \in 1 .. Len(S)
      BY <1>1, <2>2
    <3>2. PICK p : p = S[i - 1]
      OBVIOUS
    <3>3. previous = p
      BY <1>3, <1>4, <3>1, <3>2, PreviousOf
    <3>4. p \in Regions /\ p \in Places /\ p \in Links /\ S[1] # r
      BY <1>1, <2>2, <3>1, <3>2, ChainFacts, PlaceFacts
    <3>5. PICK z : z = s.cache[Nxt(l, r)]
      OBVIOUS
    <3>6. /\ Nxt(l, r) \in ListWords(l) /\ Nxt(l, p) \in ListWords(l) /\ Nxt(l, p) # Tl(l)
          /\ Nxt(l, r) # Tl(l) /\ Holds(Nxt(l, p)) = Links /\ z \in Links
      <4>1. /\ Nxt(l, r) \in ListWords(l) /\ Nxt(l, p) \in ListWords(l) /\ Nxt(l, p) # Tl(l)
            /\ Nxt(l, r) # Tl(l) /\ Holds(Nxt(l, p)) = Links /\ Holds(Nxt(l, r)) = Links
        BY <1>7, <3>4, ListWordFacts
      <4>2. z \in Links
        BY <1>2, <3>5, <4>1, StateFacts
      <4> QED
        BY <4>1, <4>2
    <3>7. X = Y \o Persist(Nxt(l, p), z) /\ Y = IF z = Invalid THEN Persist(Tl(l), p) ELSE << >>
      <4> HIDE DEF previous
      <4>1. Y = IF z = Invalid THEN Persist(Tl(l), p) ELSE << >>
        BY <3>3, <3>5
      <4>2. s.cache[Hd(l)] # r
        BY <1>3, <3>4
      <4> HIDE DEF Y
      <4>3. X = Y \o Persist(Nxt(l, previous), s.cache[Nxt(l, r)])
        BY <4>2
      <4> QED
        BY <3>3, <3>5, <4>1, <4>3
    <3>8. z = Invalid <=> i = Len(S)
      <4>1. CASE i = Len(S)
        BY <1>1, <1>3, <3>5, <4>1 DEF Linked
      <4>2. CASE i # Len(S)
        <5>1. i < Len(S) /\ i \in 1 .. Len(S) /\ i + 1 \in 1 .. Len(S)
          BY <1>1, <4>2
        <5>2. z = S[i + 1]
          BY <1>1, <1>3, <3>5, <5>1 DEF Linked
        <5> QED
          BY <4>2, <5>1, <5>2, ChainFacts
      <4> QED
        BY <4>1, <4>2
    <3> HIDE DEF X, Y, r, previous
    \* the tail is stored first
    <3>9. \E u \in W : /\ Reach(s, Y, u, W) /\ SettledOn(u, l)
                       /\ u.cache[Tl(l)] = (IF i = Len(S) THEN p ELSE S[Len(S)])
                       /\ \A x \in Words \ {Tl(l)} : u.cache[x] = s.cache[x]
      <4>1. CASE i = Len(S)
        <5>1. Y = Persist(Tl(l), p)
          BY <3>7, <3>8, <4>1
        <5>2. \A c \in Memories : (c[Tl(l)] = p /\ \A x \in ListWords(l) \ {Tl(l)} : c[x] = s.cache[x]) => c \in K
          <6>1. SUFFICES ASSUME NEW c \in Memories, c[Tl(l)] = p,
                                \A x \in ListWords(l) \ {Tl(l)} : c[x] = s.cache[x]
                         PROVE  c \in K
            OBVIOUS
          <6>2. c[Hd(l)] = s.cache[Hd(l)] /\ \A q \in Places : c[Nxt(l, q)] = s.cache[Nxt(l, q)]
            BY <6>1, ListWordFacts
          <6>3. \A k \in 1 .. Len(S) : c[Nxt(l, S[k])] = s.cache[Nxt(l, S[k])]
            BY <6>2, ChainFacts
          <6>4. Linked(c, l, S)
            BY <1>1, <1>3, <6>2, <6>3 DEF Linked
          <6>5. Len(S) >= 2 /\ c[Tl(l)] = S[Len(S) - 1]
            BY <3>1, <3>2, <4>1, <6>1, <1>1
          <6>6. c \in StaleSet(l, S)
            BY <6>4, <6>5 DEF StaleSet, Stale
          <6> QED
            BY <4>1, <6>6
        <5>3. PICK u \in W : /\ Reach(s, Persist(Tl(l), p), u, W)
                             /\ SettledOn(u, l) /\ u.cache[Tl(l)] = p
                             /\ \A x \in Words \ {Tl(l)} : u.cache[x] = s.cache[x]
          BY <1>2, <1>3, <1>6, <3>4, <5>2, WithinPersist DEF W
        <5> QED
          BY <4>1, <5>1, <5>3
      <4>2. CASE i # Len(S)
        <5>1. Y = << >> /\ Reach(s, Y, s, W)
          BY <1>6, <3>7, <3>8, <4>2, ReachNone
        <5> QED
          BY <1>3, <1>6, <4>2, <5>1
      <4> QED
        BY <4>1, <4>2
    <3>10. PICK u \in W : /\ Reach(s, Y, u, W) /\ SettledOn(u, l)
                          /\ u.cache[Tl(l)] = (IF i = Len(S) THEN p ELSE S[Len(S)])
                          /\ \A x \in Words \ {Tl(l)} : u.cache[x] = s.cache[x]
      BY <3>9
    <3>11. ASSUME NEW c, c[Nxt(l, p)] = z, \A x \in ListWords(l) \ {Nxt(l, p)} : c[x] = u.cache[x]
           PROVE  Exact(c, l, T) /\ Tight(c, l, T)
      <4>1. \A x \in ListWords(l) \ {Tl(l), Nxt(l, p)} : c[x] = s.cache[x]
        BY <1>2, <3>10, <3>11
      <4>2. Linked(c, l, T)
        <5>1. c[Nxt(l, S[i - 1])] = s.cache[Nxt(l, S[i])]
          BY <3>2, <3>5, <3>11 DEF r
        <5>2. \A x \in ListWords(l) \ {Tl(l), Nxt(l, S[i - 1])} : c[x] = s.cache[x]
          BY <3>2, <4>1
        <5> QED
          BY <1>3, <3>1, <5>1, <5>2, LinkedRemove
      <4>3. c[Tl(l)] = T[Len(T)] /\ T # << >>
        <5>1. Len(S) - 1 \in 1 .. Len(S) - 1 /\ Len(T) # 0 /\ Len(S) - 1 + 1 = Len(S)
          BY <1>1, <3>1
        <5>2. c[Tl(l)] = u.cache[Tl(l)]
          BY <1>2, <3>6, <3>11
        <5>3. T[Len(T)] = IF i = Len(S) THEN S[i - 1] ELSE S[Len(S)]
          BY <1>1, <3>1, <5>1
        <5> HIDE DEF T
        <5> QED
          BY <1>1, <3>2, <3>10, <5>1, <5>2, <5>3, ChainFacts
      <4> QED
        BY <4>2, <4>3 DEF Exact, Tight
    <3>12. \A c \in Memories : (c[Nxt(l, p)] = z /\ \A x \in ListWords(l) \ {Nxt(l, p)} : c[x] = u.cache[x]) => c \in K
      BY <3>11 DEF TightSet
    <3>13. PICK t \in W : /\ Reach(u, Persist(Nxt(l, p), z), t, W)
                          /\ SettledOn(t, l) /\ t.cache[Nxt(l, p)] = z
                          /\ \A x \in Words \ {Nxt(l, p)} : t.cache[x] = u.cache[x]
                          /\ t.medium = Settled(t.cache)
      BY <1>2, <3>6, <3>10, <3>12, WithinPersist DEF W
    <3>14. Held(t, l, T)
      BY <1>2, <3>11, <3>13 DEF Held
    <3>15. Reach(s, X, t, W)
      BY <3>7, <3>10, <3>13, ReachThen
    <3> QED
      BY <3>13, <3>14, <3>15
  <2> QED
    BY <2>1, <2>2
<1>9. PICK t \in W : Reach(s, X, t, W) /\ Held(t, l, T) /\ t.medium = Settled(t.cache)
  BY <1>8
<1>10. SlistInvariants(s.cache, l) /\ SlistInvariants(t.cache, l)
  BY <1>1, <1>3, <1>9, ExactInvariants DEF Held
<1>11. Reach(s, <<Check(l)>>, s, W) /\ Reach(t, <<Check(l)>>, t, W)
  BY <1>4, <1>6, <1>9, <1>10, ReachCheck
<1>12. RemoveRegion(s.cache, l, r) = (<<Check(l)>> \o X) \o <<Check(l)>>
  BY <1>7 DEF RemoveRegion
<1> HIDE DEF X, T, r
<1>13. Reach(s, <<Check(l)>> \o X, t, W)
  BY <1>9, <1>11, ReachThen
<1>14. Reach(s, (<<Check(l)>> \o X) \o <<Check(l)>>, t, W)
  BY <1>11, <1>13, ReachThen
<1> QED
  BY <1>9, <1>12, <1>14 DEF W, T, r

\* A region that is not in the list is only looked for.
LEMMA RemoveNothing ==
  ASSUME NEW l \in Lists, NEW s \in States, NEW S \in Chains, NEW r \in Regions \ Range(S),
         Exact(s.cache, l, S), NEW C, C \subseteq States, s \in C
  PROVE  Reach(s, RemoveRegion(s.cache, l, r), s, C)
<1>1. r \notin Elements(s.cache, l) /\ SlistInvariants(s.cache, l)
  BY StateFacts, ListedOf, ExactInvariants
<1>2. RemoveRegion(s.cache, l, r) = <<Check(l)>>
  BY <1>1 DEF RemoveRegion
<1> QED
  BY <1>1, <1>2, ReachCheck

-----------------------------------------------------------------------------
(* SLIST_RUNTIME_INIT                                                      *)

LEMMA RuntimeInitEffect ==
  ASSUME NEW l \in Lists, NEW s \in States, NEW S \in Chains, SettledOn(s, l),
         Tight(s.cache, l, S) \/ Stale(s.cache, l, S),
         NEW K, TightSet(l, S) \subseteq K, Stale(s.cache, l, S) => StaleSet(l, S) \subseteq K
  PROVE  \E t \in Within(s, l, K) :
           /\ Reach(s, RuntimeInit(s.cache, l), t, Within(s, l, K))
           /\ Exact(t.cache, l, S) /\ (SettledOn(t, l) \/ Stale(s.cache, l, S))
<1> DEFINE W == Within(s, l, K)
           y == s.cache[Nxt(l, s.cache[Tl(l)])]
           X == IF (s.cache[Hd(l)] = Invalid \/ s.cache[Tl(l)] = Invalid) /\ s.cache[Hd(l)] # s.cache[Tl(l)]
                THEN ListInit(l)
                ELSE IF s.cache[Hd(l)] # Invalid /\ y # Invalid THEN <<Store(Tl(l), y)>> ELSE << >>
<1>1. /\ Hd(l) \in ListWords(l) /\ Tl(l) \in ListWords(l) /\ Hd(l) # Tl(l) /\ ListWords(l) \subseteq Words
      /\ Holds(Tl(l)) = Links /\ Invalid \in Links
  BY ListWordFacts, PlaceFacts
<1>2. W \subseteq States
  BY DEF Within
<1>3. \A c \in Memories : (\A x \in ListWords(l) : c[x] = s.cache[x]) => c \in K
  <2>1. SUFFICES ASSUME NEW c \in Memories, \A x \in ListWords(l) : c[x] = s.cache[x] PROVE c \in K
    OBVIOUS
  <2>2. CASE Tight(s.cache, l, S)
    BY <2>1, <2>2, SameList DEF TightSet
  <2>3. CASE Stale(s.cache, l, S)
    BY <2>1, <2>3, SameList DEF StaleSet
  <2> QED
    BY <2>2, <2>3
<1>4. s \in W
  BY <1>3, HeldWithin
<1> HIDE DEF W
<1>5. \E t \in W : Reach(s, X, t, W) /\ Exact(t.cache, l, S) /\ (SettledOn(t, l) \/ Stale(s.cache, l, S))
  <2>1. CASE Tight(s.cache, l, S) /\ S = << >>
    <3>1. s.cache[Hd(l)] = Invalid \/ s.cache[Tl(l)] = Invalid
      BY <2>1 DEF Tight
    <3>2. CASE s.cache[Hd(l)] # s.cache[Tl(l)]
      <4>1. \A c \in Memories :
              /\ c[Hd(l)] \in {s.cache[Hd(l)], Invalid} /\ c[Tl(l)] \in {s.cache[Tl(l)], Invalid}
              /\ \A x \in ListWords(l) \ {Hd(l), Tl(l)} : c[x] = s.cache[x]
              => c \in K
        <5>1. SUFFICES ASSUME NEW c \in Memories,
                              c[Hd(l)] \in {s.cache[Hd(l)], Invalid}, c[Tl(l)] \in {s.cache[Tl(l)], Invalid}
                       PROVE  c \in K
          OBVIOUS
        <5>2. Tight(c, l, S)
          BY <2>1, <3>1, <5>1 DEF Tight, Linked
        <5> QED
          BY <5>2 DEF TightSet
      <4>2. PICK t \in W : Reach(s, ListInit(l), t, W) /\ Held(t, l, << >>)
        BY <4>1, ListInitEffect DEF W
      <4>3. X = ListInit(l)
        BY <3>1, <3>2
      <4> QED
        BY <2>1, <4>2, <4>3 DEF Held
    <3>3. CASE s.cache[Hd(l)] = s.cache[Tl(l)]
      <4>1. X = << >>
        BY <3>1, <3>3
      <4>2. Exact(s.cache, l, S)
        BY <2>1, <3>1, <3>3 DEF Exact, Tight
      <4> HIDE DEF X
      <4> QED
        BY <1>4, <4>1, <4>2, ReachNone
    <3> QED
      BY <3>2, <3>3
  <2>2. CASE Tight(s.cache, l, S) /\ S # << >>
    <3>1. Exact(s.cache, l, S)
      BY <2>2 DEF Exact, Tight
    <3>2. Len(S) \in 1 .. Len(S) /\ 1 \in 1 .. Len(S)
      <4>1. Len(S) \in Nat /\ Len(S) # 0
        BY <2>2, ChainFacts
      <4> QED
        BY <4>1
    <3>3. s.cache[Hd(l)] # Invalid /\ s.cache[Tl(l)] # Invalid /\ y = Invalid
      BY <2>2, <3>1, <3>2, ExactInvariants, ChainFacts
    <3>4. X = << >>
      BY <3>3
    <3> HIDE DEF X
    <3> QED
      BY <1>4, <3>1, <3>4, ReachNone
  <2>3. CASE Stale(s.cache, l, S)
    <3>1. /\ Linked(s.cache, l, S) /\ Len(S) >= 2 /\ s.cache[Tl(l)] = S[Len(S) - 1] /\ Len(S) \in Nat
          /\ Len(S) - 1 \in 1 .. Len(S) /\ Len(S) - 1 < Len(S) /\ Len(S) - 1 + 1 = Len(S)
          /\ Len(S) \in 1 .. Len(S) /\ 1 \in 1 .. Len(S)
      <4>1. Linked(s.cache, l, S) /\ Len(S) >= 2 /\ s.cache[Tl(l)] = S[Len(S) - 1] /\ Len(S) \in Nat
        BY <2>3, ChainFacts DEF Stale
      <4> QED
        BY <4>1
    <3>2. S # << >>
      BY <3>1, ChainFacts
    <3>3. y = S[Len(S)] /\ s.cache[Hd(l)] = S[1]
      <4>1. s.cache[Nxt(l, S[Len(S) - 1])] = S[Len(S) - 1 + 1]
        BY <3>1, <3>2 DEF Linked
      <4> QED
        BY <3>1, <3>2, <4>1 DEF Linked
    <3>4. PICK z : z = S[Len(S)]
      OBVIOUS
    <3>5. S[Len(S) - 1] # Invalid /\ S[1] # Invalid /\ z # Invalid /\ z \in Links
      BY <3>1, <3>4, ChainFacts, PlaceFacts
    <3>6. X = <<Store(Tl(l), z)>>
      BY <3>1, <3>3, <3>4, <3>5
    <3> HIDE DEF X, y
    <3>7. PICK t : t = Put(s, Tl(l), z)
      OBVIOUS
    <3>8. /\ t \in States /\ t.cache[Tl(l)] = z /\ \A x \in Words \ {Tl(l)} : t.cache[x] = s.cache[x]
          /\ \A x \in Words \ {Tl(l)} : t.medium[x] = s.medium[x]
      BY <1>1, <3>5, <3>7, PutFacts
    <3>9. ASSUME NEW c, c[Tl(l)] = z, \A x \in ListWords(l) \ {Tl(l)} : c[x] = s.cache[x]
          PROVE  Exact(c, l, S) /\ Tight(c, l, S)
      <4>1. c[Hd(l)] = s.cache[Hd(l)] /\ \A q \in Places : c[Nxt(l, q)] = s.cache[Nxt(l, q)]
        BY <3>9, ListWordFacts
      <4>2. \A k \in 1 .. Len(S) : c[Nxt(l, S[k])] = s.cache[Nxt(l, S[k])]
        BY <4>1, ChainFacts
      <4>3. Linked(c, l, S)
        BY <3>1, <4>1, <4>2 DEF Linked
      <4> QED
        BY <3>2, <3>4, <3>9, <4>3 DEF Exact, Tight
    <3>10. t \in W
      <4>1. ASSUME NEW c \in Images(t.medium), c[Tl(l)] = z PROVE c \in K
        <5>1. c \in Memories /\ \A x \in Words : c[x] \in t.medium[x]
          BY DEF Images
        <5>2. \A x \in ListWords(l) \ {Tl(l)} : c[x] = s.cache[x]
          BY <1>1, <3>8, <5>1 DEF SettledOn
        <5>3. Tight(c, l, S)
          BY <3>9, <4>1, <5>2
        <5> QED
          BY <5>1, <5>3 DEF TightSet
      <4> QED
        BY <1>1, <1>4, <3>5, <3>7, <4>1, WithinPut DEF W
    <3>11. Reach(s, X, t, W)
      BY <1>1, <1>2, <1>4, <3>5, <3>6, <3>7, <3>10, ReachStore
    <3>12. Exact(t.cache, l, S)
      BY <1>1, <3>8, <3>9
    <3> QED
      BY <2>3, <3>10, <3>11, <3>12
  <2> QED
    BY <2>1, <2>2, <2>3
<1>6. PICK t \in W : Reach(s, X, t, W) /\ Exact(t.cache, l, S) /\ (SettledOn(t, l) \/ Stale(s.cache, l, S))
  BY <1>5
<1>7. SlistInvariants(t.cache, l)
  BY <1>6, ExactInvariants
<1>8. Reach(t, <<Check(l)>>, t, W)
  BY <1>2, <1>6, <1>7, ReachCheck
<1>9. RuntimeInit(s.cache, l) = X \o <<Check(l)>>
  BY DEF RuntimeInit
<1> HIDE DEF X
<1>10. Reach(s, X \o <<Check(l)>>, t, W)
  BY <1>6, <1>8, ReachThen
<1> QED
  BY <1>6, <1>9, <1>10 DEF W

=============================================================================

----------------------- MODULE RegionAllocatorProofs ------------------------
(***************************************************************************)
(* Theorems about RegionAllocator, for a stream of any size and any number *)
(* of calls and power failures: what the calls and the opening of a stream *)
(* lead to, whatever state a power failure finds, the invariant that       *)
(* follows, what the invariant says about types, lists, asserts,           *)
(* initialisation, marks and AllocatorSpec, and that an iterator meets     *)
(* every region that stays allocated.                                      *)
(***************************************************************************)
EXTENDS AllocatorListProofs

-----------------------------------------------------------------------------
(* What a power failure may leave of a stream, and what a call ends in     *)

\* The first free region was appended to the allocated list and is still to be removed.
Shared(A, F) ==
  A # << >> /\ F # << >> /\ A[Len(A)] = F[1] /\ Range(A) \intersect Range(F) = {F[1]}

\* The recovery from the lists A and F leads to one of the outcomes G: a region in both
\* lists was being allocated, the one in recovery_free_offset is being freed.
Pending(c, A, F, G) ==
  LET r == c[RecoveryFreeOffset]
  IN  \/ /\ r = Invalid
         /\ Range(A) \intersect Range(F) = {} \/ Shared(A, F)
         /\ <<A, Range(F) \ Range(A)>> \in G
      \/ /\ r # Invalid
         /\ Range(A) \intersect Range(F) \subseteq {r}
         /\ r \in Range(F) => F[1] = r
         /\ \/ \E i \in 1 .. Len(A) : A[i] = r /\ <<RemoveAt(A, i), Range(F) \union {r}>> \in G
            \/ r \notin Range(A) /\ r \in Range(F) /\ <<A, Range(F)>> \in G

\* The header and the regions; u are the regions the application wrote to.
Kept(c, A, F, G, u) ==
  /\ c[PersistedTimestamp] = 0
  /\ \A r \in Range(A) \ u : c[Data(r)] = 0
  /\ Range(A) \union Range(F) = 0 .. c[FreeOffset] - 1
  /\ Pending(c, A, F, G)

Shape(c, A, F) ==
  /\ \/ Tight(c, "allocated", A)
     \/ Stale(c, "allocated", A) /\ c[RecoveryFreeOffset] \in {Invalid, A[Len(A)]}
  /\ Tight(c, "free", F)

Recover(c, A, F, G, u) == Shape(c, A, F) /\ Kept(c, A, F, G, u)

\* The images a power failure may leave; the one between the stores of an extension apart.
Recoverable(G, u) ==
  {c \in Memories :
     /\ IsInitialized(c)
     /\ c[Hd("free")] = c[FreeOffset] \/ \E A, F \in Chains : Recover(c, A, F, G, u)}

Safe(R) == {t \in States : Images(t.medium) \subseteq R}

Good(t, A, F, u) ==
  /\ t \in States /\ t.medium = Settled(t.cache) /\ IsInitialized(t.cache)
  /\ Exact(t.cache, "allocated", A) /\ Exact(t.cache, "free", F)
  /\ Range(A) \intersect Range(F) = {} /\ Range(A) \union Range(F) = 0 .. t.cache[FreeOffset] - 1
  /\ t.cache[RecoveryFreeOffset] = Invalid /\ t.cache[PersistedTimestamp] = 0
  /\ \A r \in Range(A) \ u : t.cache[Data(r)] = 0

Ends(G, u) == {t \in States : \E A, F \in Chains : Good(t, A, F, u) /\ <<A, Range(F)>> \in G}

\* The words outside of the lists that recovery reads.
HeaderWords == Signature \union {Size("stream"), Size("block"), FreeOffset, RecoveryFreeOffset,
                                 PersistedTimestamp}

LEMMA HeaderApart ==
  /\ HeaderWords \subseteq Words
  /\ \A l \in Lists : HeaderWords \intersect ListWords(l) = {}
  /\ \A r \in Places : Data(r) \notin HeaderWords /\ MaxValid(r) \notin HeaderWords
BY HeaderWordFacts, ListWordsApart, HeaderWordsApart DEF HeaderWords

LEMMA SameInitialized ==
  ASSUME NEW c, NEW d, \A w \in HeaderWords : c[w] = d[w], IsInitialized(d)
  PROVE  IsInitialized(c)
BY DEF IsInitialized, HeaderWords

LEMMA SameKept ==
  ASSUME NEW c, NEW d, NEW A, NEW F, NEW G, NEW u, Kept(d, A, F, G, u),
         c[FreeOffset] = d[FreeOffset], c[RecoveryFreeOffset] = d[RecoveryFreeOffset],
         c[PersistedTimestamp] = d[PersistedTimestamp],
         \A r \in Range(A) \ u : c[Data(r)] = d[Data(r)]
  PROVE  Kept(c, A, F, G, u)
BY DEF Kept, Pending

\* What a power failure leaves outside of a list while the list is worked on.
LEMMA BesideImage ==
  ASSUME NEW l \in Lists, NEW s \in States, NEW K, NEW t \in Within(s, l, K), NEW c \in Images(t.medium)
  PROVE  /\ c \in K /\ c \in Memories
         /\ \E d \in Images(s.medium) : \A w \in Words \ ListWords(l) : c[w] = d[w]
<1>1. c \in K /\ c \in Memories /\ \A w \in Words : c[w] \in t.medium[w]
  BY DEF Within, Images
<1>2. \A w \in Words \ ListWords(l) : t.medium[w] \subseteq s.medium[w]
  BY DEF Within, Beside
<1> DEFINE d == [w \in Words |-> IF w \in ListWords(l) THEN s.cache[w] ELSE c[w]]
<1>3. d \in Memories
  BY <1>1 DEF Memories, States
<1>4. \A w \in Words : d[w] \in s.medium[w]
  BY <1>1, <1>2, StateFacts
<1>5. d \in Images(s.medium)
  BY <1>3, <1>4 DEF Images
<1>6. \A w \in Words \ ListWords(l) : c[w] = d[w]
  OBVIOUS
<1> HIDE DEF d
<1> QED
  BY <1>1, <1>5, <1>6

LEMMA SafeWithin ==
  ASSUME NEW l \in Lists, NEW s \in States, NEW K, NEW R,
         \A d \in Images(s.medium) : \A c \in Memories :
           c \in K /\ (\A w \in Words \ ListWords(l) : c[w] = d[w]) => c \in R
  PROVE  Within(s, l, K) \subseteq Safe(R)
<1>1. SUFFICES ASSUME NEW t \in Within(s, l, K), NEW c \in Images(t.medium) PROVE c \in R
  BY DEF Safe, Within
<1> QED
  BY BesideImage

\* A store that is made durable in a settled memory.
LEMMA SafePersist ==
  ASSUME NEW R, NEW s \in Safe(R), s.medium = Settled(s.cache), NEW w \in Words, NEW v \in Holds(w),
         \A c \in Memories : c[w] = v /\ (\A x \in Words \ {w} : c[x] = s.cache[x]) => c \in R
  PROVE  \E t \in Safe(R) :
           /\ Reach(s, Persist(w, v), t, Safe(R))
           /\ t.medium = Settled(t.cache) /\ t.cache[w] = v
           /\ \A x \in Words \ {w} : t.cache[x] = s.cache[x]
<1>1. s \in States /\ Safe(R) \subseteq States
  BY DEF Safe
<1>2. PICK p : p = Put(s, w, v)
  OBVIOUS
<1>3. p \in States /\ p.cache[w] = v /\ \A x \in Words \ {w} : p.cache[x] = s.cache[x]
  BY <1>1, <1>2, PutFacts
<1>4. ASSUME NEW c \in Images(p.medium) PROVE c \in R
  <2>1. /\ c \in Memories /\ \A x \in Words \ {w} : c[x] \in s.medium[x]
        /\ c[w] = v \/ c \in Images(s.medium)
    BY <1>1, <1>2, PutImages
  <2>2. \A x \in Words \ {w} : c[x] = s.cache[x]
    BY <2>1 DEF Settled
  <2>3. CASE c[w] = v
    BY <2>1, <2>2, <2>3
  <2>4. CASE c \in Images(s.medium)
    BY <2>4 DEF Safe
  <2> QED
    BY <2>1, <2>3, <2>4
<1>5. p \in Safe(R)
  BY <1>3, <1>4 DEF Safe
<1>6. /\ Flushed(p) \in States /\ Flushed(p).cache = p.cache
      /\ Flushed(p).medium = Settled(p.cache) /\ Images(Flushed(p).medium) \subseteq Images(p.medium)
  BY <1>3, FlushedFacts
<1>7. Flushed(p) \in Safe(R)
  BY <1>5, <1>6 DEF Safe
<1>8. Reach(s, Persist(w, v), Flushed(p), Safe(R))
  BY <1>1, <1>2, <1>5, <1>7, ReachPersist
<1> QED
  BY <1>3, <1>6, <1>7, <1>8

\* The list macros read the words of their list only.
LEMMA SameCalls ==
  ASSUME NEW l \in Lists, NEW m \in Memories, NEW n \in Memories, \A x \in ListWords(l) : m[x] = n[x]
  PROVE  /\ \A r : InsertHead(m, l, r) = InsertHead(n, l, r)
         /\ \A r : InsertTail(m, l, r) = InsertTail(n, l, r)
         /\ RemoveHead(m, l) = RemoveHead(n, l)
<1>1. m[Hd(l)] = n[Hd(l)] /\ m[Tl(l)] = n[Tl(l)] /\ m[Hd(l)] \in Links
  BY ListWordFacts DEF Memories
<1>2. \A r : InsertHead(m, l, r) = InsertHead(n, l, r)
  BY <1>1 DEF InsertHead
<1>3. \A r : InsertTail(m, l, r) = InsertTail(n, l, r)
  BY <1>1, <1>2 DEF InsertTail
<1>4. m[Hd(l)] # Invalid => m[Nxt(l, m[Hd(l)])] = n[Nxt(l, n[Hd(l)])]
  <2>1. m[Hd(l)] # Invalid => m[Hd(l)] \in Places
    BY <1>1, PlaceFacts DEF Links
  <2> QED
    BY <1>1, <2>1, ListWordFacts
<1>5. RemoveHead(m, l) = RemoveHead(n, l)
  BY <1>1, <1>4 DEF RemoveHead
<1> QED
  BY <1>2, <1>3, <1>5

-----------------------------------------------------------------------------
(* From the head of the free list to the tail of the allocated list        *)

LEMMA SettledImage ==
  ASSUME NEW s \in States, s.medium = Settled(s.cache), NEW c \in Images(s.medium)
  PROVE  c = s.cache
BY StateFacts, SettledImages

LEMMA GoodFacts ==
  ASSUME NEW s, NEW A \in Chains, NEW F \in Chains, NEW u, Good(s, A, F, u)
  PROVE  /\ s \in States /\ s.medium = Settled(s.cache) /\ s.cache \in Memories
         /\ \A c \in Images(s.medium) : c = s.cache
         /\ Held(s, "allocated", A) /\ Held(s, "free", F)
         /\ SettledOn(s, "allocated") /\ SettledOn(s, "free")
         /\ (s.cache[Hd("free")] = Invalid <=> F = << >>) /\ (F # << >> => s.cache[Hd("free")] = F[1])
         /\ (s.cache[Hd("allocated")] = Invalid <=> A = << >>)
         /\ Elements(s.cache, "allocated") = Range(A) /\ Elements(s.cache, "free") = Range(F)
         /\ Listed(s.cache, "allocated") = A
<1>1. s \in States /\ s.medium = Settled(s.cache)
  BY DEF Good
<1>2. s.cache \in Memories /\ \A c \in Images(s.medium) : c = s.cache
  BY <1>1, StateFacts, SettledImage
<1>3. "allocated" \in Lists /\ "free" \in Lists
  BY DEF Lists
<1>4. SettledOn(s, "allocated") /\ SettledOn(s, "free")
  BY <1>1 DEF SettledOn, Settled, ListWords
<1>5. Exact(s.cache, "allocated", A) /\ Exact(s.cache, "free", F)
  BY DEF Good
<1> QED
  BY <1>1, <1>2, <1>3, <1>4, <1>5, ExactInvariants, ListedOf DEF Held

LEMMA MoveEffect ==
  ASSUME NEW s, NEW A \in Chains, NEW F \in Chains, NEW u, Good(s, A, F, u), F # << >>,
         NEW G, <<A, Range(F)>> \in G, <<Append(A, F[1]), Range(F) \ {F[1]}>> \in G
  PROVE  \E t \in Ends(G, u) : Reach(s, HeadToAllocatedTail(s.cache), t, Safe(Recoverable(G, u)))
<1> DEFINE r == F[1]
           m == s.cache
           R == Recoverable(G, u)
           B == Append(A, r)
           E == Tail(F)
<1>1. "allocated" \in Lists /\ "free" \in Lists
  BY DEF Lists
<1>2. /\ s \in States /\ s.medium = Settled(m) /\ m \in Memories /\ \A c \in Images(s.medium) : c = m
      /\ Held(s, "allocated", A) /\ Held(s, "free", F) /\ m[Hd("free")] = r
  BY GoodFacts
<1>3. /\ IsInitialized(m) /\ Exact(m, "allocated", A) /\ Exact(m, "free", F)
      /\ Range(A) \intersect Range(F) = {} /\ Range(A) \union Range(F) = 0 .. m[FreeOffset] - 1
      /\ m[RecoveryFreeOffset] = Invalid /\ m[PersistedTimestamp] = 0
      /\ \A q \in Range(A) \ u : m[Data(q)] = 0
  BY DEF Good
<1>4. /\ r \in Range(F) /\ r \in Regions \ Range(A) /\ r \in Places /\ r \in Links
  <2>1. 1 \in 1 .. Len(F)
    <3>1. Len(F) \in Nat /\ Len(F) # 0
      BY ChainFacts
    <3> QED
      BY <3>1
  <2>2. r \in Range(F) /\ r \in Regions
    BY <2>1, ChainFacts
  <2> QED
    BY <1>3, <2>2, PlaceFacts
<1>5. Range(A) \subseteq Regions /\ Range(A) \subseteq Places /\ Invalid \in Links
  BY ChainFacts, PlaceFacts
<1>6. B \in Chains /\ B # << >> /\ Len(B) = Len(A) + 1 /\ B[Len(A) + 1] = r /\ Range(B) = Range(A) \union {r}
  BY <1>4, AppendFacts
<1>7. E \in Chains /\ Range(E) = Range(F) \ {r}
  BY TailFacts
<1>8. /\ MaxValid(r) \in Words /\ Data(r) \in Words /\ MaxValid(r) # Data(r)
      /\ Invalid \in Holds(MaxValid(r)) /\ 0 \in Holds(Data(r))
      /\ \A l \in Lists : MaxValid(r) \notin ListWords(l) /\ Data(r) \notin ListWords(l)
      /\ \A w \in HeaderWords : w # MaxValid(r) /\ w # Data(r)
      /\ \A q \in Range(A) : Data(q) # MaxValid(r) /\ Data(q) # Data(r) /\ Data(q) \in Words
  <2> HIDE DEF r
  <2>1. MaxValid(r) \in Words /\ Data(r) \in Words /\ Invalid \in Holds(MaxValid(r)) /\ 0 \in Holds(Data(r))
    BY <1>4, HeaderWordFacts, PlaceFacts
  <2>2. MaxValid(r) # Data(r)
    BY <1>4, HeaderWordsApart
  <2>3. \A l \in Lists : MaxValid(r) \notin ListWords(l) /\ Data(r) \notin ListWords(l)
    BY <1>4, ListWordsApart
  <2>4. \A w \in HeaderWords : w # MaxValid(r) /\ w # Data(r)
    BY <1>4, HeaderApart
  <2>5. ASSUME NEW q \in Range(A) PROVE Data(q) # MaxValid(r) /\ Data(q) # Data(r) /\ Data(q) \in Words
    <3>1. q \in Places /\ q # r
      BY <1>4, <1>5
    <3> QED
      BY <3>1, <1>4, HeaderWordFacts, HeaderWordsApart
  <2> QED
    BY <2>1, <2>2, <2>3, <2>4, <2>5
<1> HIDE DEF m, r, B, E
\* Nothing but the content of the region changed yet.
<1>9. ASSUME NEW c \in Memories, \A x \in Words \ {MaxValid(r), Data(r)} : c[x] = m[x]
      PROVE  /\ IsInitialized(c) /\ Exact(c, "allocated", A) /\ Exact(c, "free", F)
             /\ Tight(c, "allocated", A) /\ Tight(c, "free", F)
             /\ \A w \in HeaderWords : c[w] = m[w]
             /\ \A q \in Range(A) : c[Data(q)] = m[Data(q)]
             /\ c \in R
  <2>1. \A w \in HeaderWords : c[w] = m[w]
    BY <1>8, <1>9, HeaderApart
  <2>2. \A q \in Range(A) : c[Data(q)] = m[Data(q)]
    BY <1>8, <1>9
  <2>3. \A l \in Lists : \A w \in ListWords(l) : c[w] = m[w]
    BY <1>8, <1>9 DEF ListWords
  <2>4. /\ Exact(c, "allocated", A) /\ Exact(c, "free", F)
        /\ Tight(c, "allocated", A) /\ Tight(c, "free", F)
    BY <1>1, <1>3, <2>3, SameList
  <2>5. IsInitialized(c)
    BY <1>3, <2>1, SameInitialized
  <2>6. Range(F) \ Range(A) = Range(F)
    BY <1>3
  <2>7. Kept(c, A, F, G, u)
    BY <1>3, <2>1, <2>2, <2>6 DEF Kept, Pending, HeaderWords
  <2>8. c \in R
    BY <2>4, <2>5, <2>7 DEF Recoverable, Recover, Shape
  <2> QED
    BY <2>1, <2>2, <2>4, <2>5, <2>8
<1>10. s \in Safe(R)
  BY <1>2, <1>9 DEF Safe
<1>11. PICK p \in Safe(R) :
         /\ Reach(s, Persist(MaxValid(r), Invalid), p, Safe(R))
         /\ p.medium = Settled(p.cache) /\ p.cache[MaxValid(r)] = Invalid
         /\ \A x \in Words \ {MaxValid(r)} : p.cache[x] = m[x]
  <2>1. \A c \in Memories :
          c[MaxValid(r)] = Invalid /\ (\A x \in Words \ {MaxValid(r)} : c[x] = s.cache[x]) => c \in R
    BY <1>9 DEF m
  <2> HIDE DEF R
  <2> QED
    BY <1>2, <1>8, <1>10, <2>1, SafePersist DEF m
<1>12. PICK v \in Safe(R) :
         /\ Reach(p, Persist(Data(r), 0), v, Safe(R))
         /\ v.medium = Settled(v.cache) /\ v.cache[Data(r)] = 0
         /\ \A x \in Words \ {Data(r)} : v.cache[x] = p.cache[x]
  <2>1. \A c \in Memories :
          c[Data(r)] = 0 /\ (\A x \in Words \ {Data(r)} : c[x] = p.cache[x]) => c \in R
    BY <1>9, <1>11
  <2> HIDE DEF R
  <2> QED
    BY <1>8, <1>11, <2>1, SafePersist
<1>13. v \in States /\ v.cache \in Memories /\ \A x \in Words \ {MaxValid(r), Data(r)} : v.cache[x] = m[x]
  BY <1>11, <1>12, StateFacts DEF Safe
<1>14. /\ IsInitialized(v.cache) /\ Exact(v.cache, "allocated", A) /\ Exact(v.cache, "free", F)
       /\ \A w \in HeaderWords : v.cache[w] = m[w]
       /\ \A q \in Range(A) : v.cache[Data(q)] = m[Data(q)]
  BY <1>9, <1>13
<1>15. Held(v, "allocated", A) /\ Held(v, "free", F) /\ \A c \in Images(v.medium) : c = v.cache
  BY <1>12, <1>13, <1>14, SettledImage DEF Held, SettledOn, Settled, ListWords
\* The region is in both lists.
<1>16. ASSUME NEW c \in Memories,
              \/ Tight(c, "free", F) /\ (Tight(c, "allocated", B) \/ Stale(c, "allocated", B))
              \/ Tight(c, "free", E) /\ Tight(c, "allocated", B),
              \A x \in Words \ (ListWords("allocated") \union ListWords("free")) : c[x] = v.cache[x]
       PROVE  c \in R
  <2>1. \A w \in HeaderWords : c[w] = m[w]
    BY <1>1, <1>14, <1>16, HeaderApart
  <2>2. \A q \in Range(A) : c[Data(q)] = m[Data(q)]
    BY <1>1, <1>5, <1>8, <1>14, <1>16, ListWordsApart
  <2>3. c[Data(r)] = 0
    BY <1>1, <1>8, <1>12, <1>16
  <2>4. IsInitialized(c)
    BY <1>3, <2>1, SameInitialized
  <2>5. /\ c[RecoveryFreeOffset] = Invalid /\ c[PersistedTimestamp] = 0 /\ c[FreeOffset] = m[FreeOffset]
        /\ \A q \in Range(B) \ u : c[Data(q)] = 0
    BY <1>3, <1>6, <2>1, <2>2, <2>3 DEF HeaderWords
  <2>6. CASE Tight(c, "free", F) /\ (Tight(c, "allocated", B) \/ Stale(c, "allocated", B))
    <3>1. Range(B) \union Range(F) = 0 .. c[FreeOffset] - 1
      BY <1>3, <1>4, <1>6, <2>5
    <3>2. Shared(B, F)
      <4>1. Range(B) \intersect Range(F) = {r}
        BY <1>3, <1>4, <1>6
      <4> QED
        BY <1>6, <4>1 DEF Shared, r
    <3>3. <<B, Range(F) \ Range(B)>> \in G
      <4>1. Range(F) \ Range(B) = Range(F) \ {r}
        BY <1>3, <1>6
      <4> QED
        BY <4>1 DEF B, r
    <3>4. Kept(c, B, F, G, u)
      BY <2>5, <3>1, <3>2, <3>3 DEF Kept, Pending
    <3>5. Shape(c, B, F)
      BY <2>5, <2>6 DEF Shape
    <3> QED
      BY <1>6, <2>4, <3>4, <3>5 DEF Recoverable, Recover
  <2>7. CASE Tight(c, "free", E) /\ Tight(c, "allocated", B)
    <3>1. Range(B) \union Range(E) = 0 .. c[FreeOffset] - 1
      BY <1>3, <1>4, <1>6, <1>7, <2>5
    <3>2. Range(B) \intersect Range(E) = {}
      BY <1>3, <1>6, <1>7
    <3>3. <<B, Range(E) \ Range(B)>> \in G
      <4>1. Range(E) \ Range(B) = Range(F) \ {r}
        BY <1>3, <1>6, <1>7
      <4> QED
        BY <4>1 DEF B, r
    <3>4. Kept(c, B, E, G, u)
      BY <2>5, <3>1, <3>2, <3>3 DEF Kept, Pending
    <3>5. Shape(c, B, E)
      BY <2>7 DEF Shape
    <3> QED
      BY <1>6, <1>7, <2>4, <3>4, <3>5 DEF Recoverable, Recover
  <2> QED
    BY <1>16, <2>6, <2>7
<1>17. PICK K : K = TightSet("allocated", A) \union TightSet("allocated", B) \union StaleSet("allocated", B)
  OBVIOUS
<1>18. PICK x \in Within(v, "allocated", K) :
         /\ Reach(v, InsertTail(v.cache, "allocated", r), x, Within(v, "allocated", K))
         /\ Held(x, "allocated", B) /\ x.medium = Settled(x.cache)
  BY <1>1, <1>4, <1>13, <1>15, <1>17, InsertTailEffect DEF B
<1>19. Within(v, "allocated", K) \subseteq Safe(R)
  <2>1. ASSUME NEW d \in Images(v.medium), NEW c \in Memories, c \in K,
               \A w \in Words \ ListWords("allocated") : c[w] = d[w]
        PROVE  c \in R
    <3>1. \A w \in Words \ ListWords("allocated") : c[w] = v.cache[w]
      BY <1>15, <2>1
    <3>2. \A w \in ListWords("free") : c[w] = v.cache[w]
      BY <3>1, ListWordsApart DEF ListWords
    <3>3. Tight(c, "free", F)
      BY <1>1, <1>14, <3>2, SameList
    <3>4. CASE Tight(c, "allocated", A)
      <4>1. \A w \in HeaderWords : c[w] = m[w]
        BY <1>1, <1>14, <3>1, HeaderApart
      <4>2. \A q \in Range(A) : c[Data(q)] = m[Data(q)]
        BY <1>1, <1>5, <1>8, <1>14, <3>1, ListWordsApart
      <4>3. IsInitialized(c)
        BY <1>3, <4>1, SameInitialized
      <4>4. Range(F) \ Range(A) = Range(F)
        BY <1>3
      <4>5. Kept(c, A, F, G, u)
        BY <1>3, <4>1, <4>2, <4>4 DEF Kept, Pending, HeaderWords
      <4> QED
        BY <3>3, <3>4, <4>3, <4>5 DEF Recoverable, Recover, Shape
    <3>5. CASE Tight(c, "allocated", B) \/ Stale(c, "allocated", B)
      BY <1>16, <3>1, <3>3, <3>5
    <3> QED
      BY <1>17, <2>1, <3>4, <3>5 DEF TightSet, StaleSet
  <2> HIDE DEF R
  <2> QED
    BY <1>1, <1>13, <2>1, SafeWithin
<1>20. /\ x \in States /\ x \in Safe(R) /\ x.cache \in Memories
       /\ \A w \in Words \ ListWords("allocated") : x.cache[w] = v.cache[w]
  BY <1>18, <1>19, StateFacts DEF Within, Beside
<1>21. \A w \in ListWords("free") : x.cache[w] = v.cache[w] /\ v.cache[w] = m[w]
  BY <1>1, <1>8, <1>13, <1>20, ListWordsApart DEF ListWords
<1>22. Held(x, "free", F) /\ \A c \in Images(x.medium) : c = x.cache
  <2>1. Exact(x.cache, "free", F)
    BY <1>1, <1>14, <1>21, SameList
  <2> QED
    BY <1>18, <1>20, <2>1, SettledImage DEF Held, SettledOn, Settled, ListWords
<1>23. PICK L : L = TightSet("free", F) \union TightSet("free", E)
  OBVIOUS
<1>24. PICK t \in Within(x, "free", L) :
         /\ Reach(x, RemoveHead(x.cache, "free"), t, Within(x, "free", L))
         /\ Held(t, "free", E) /\ t.medium = Settled(t.cache)
  BY <1>1, <1>20, <1>22, <1>23, RemoveHeadEffect DEF E
<1>25. Within(x, "free", L) \subseteq Safe(R)
  <2>1. ASSUME NEW d \in Images(x.medium), NEW c \in Memories, c \in L,
               \A w \in Words \ ListWords("free") : c[w] = d[w]
        PROVE  c \in R
    <3>1. \A w \in Words \ ListWords("free") : c[w] = x.cache[w]
      BY <1>22, <2>1
    <3>2. \A w \in ListWords("allocated") : c[w] = x.cache[w]
      BY <3>1, ListWordsApart DEF ListWords
    <3>3. Tight(c, "allocated", B)
      BY <1>1, <1>6, <1>18, <3>2, SameList DEF Held
    <3>4. \A w \in Words \ (ListWords("allocated") \union ListWords("free")) : c[w] = v.cache[w]
      BY <1>20, <3>1
    <3> QED
      BY <1>16, <1>23, <2>1, <3>3, <3>4 DEF TightSet
  <2> HIDE DEF R
  <2> QED
    BY <1>1, <1>20, <2>1, SafeWithin
<1>26. /\ t \in States /\ t.cache \in Memories
       /\ \A w \in Words \ ListWords("free") : t.cache[w] = x.cache[w]
  BY <1>24, <1>25, StateFacts DEF Within, Beside, Safe
<1>27. Good(t, B, E, u) /\ t \in Ends(G, u)
  <2>1. \A w \in ListWords("allocated") : t.cache[w] = x.cache[w]
    BY <1>26, ListWordsApart DEF ListWords
  <2>2. Exact(t.cache, "allocated", B) /\ Exact(t.cache, "free", E)
    BY <1>1, <1>6, <1>18, <1>24, <2>1, SameList DEF Held
  <2>3. \A w \in Words \ (ListWords("allocated") \union ListWords("free")) : t.cache[w] = v.cache[w]
    BY <1>20, <1>26
  <2>4. \A w \in HeaderWords : t.cache[w] = m[w]
    BY <1>1, <1>14, <2>3, HeaderApart
  <2>5. \A q \in Range(A) : t.cache[Data(q)] = m[Data(q)]
    BY <1>1, <1>5, <1>8, <1>14, <2>3, ListWordsApart
  <2>6. t.cache[Data(r)] = 0
    BY <1>1, <1>8, <1>12, <2>3
  <2>7. IsInitialized(t.cache)
    BY <1>3, <2>4, SameInitialized
  <2>8. /\ t.cache[RecoveryFreeOffset] = Invalid /\ t.cache[PersistedTimestamp] = 0
        /\ t.cache[FreeOffset] = m[FreeOffset] /\ \A q \in Range(B) \ u : t.cache[Data(q)] = 0
    BY <1>3, <1>6, <2>4, <2>5, <2>6 DEF HeaderWords
  <2>9. Range(B) \intersect Range(E) = {} /\ Range(B) \union Range(E) = 0 .. t.cache[FreeOffset] - 1
    BY <1>3, <1>4, <1>6, <1>7, <2>8
  <2>10. Good(t, B, E, u)
    BY <1>24, <1>26, <2>2, <2>7, <2>8, <2>9 DEF Good
  <2>11. <<B, Range(E)>> \in G
    BY <1>7 DEF B, r
  <2> QED
    BY <1>6, <1>7, <1>26, <2>10, <2>11 DEF Ends
\* The call was composed from the memory it started in.
<1>28. InsertTail(v.cache, "allocated", r) = InsertTail(m, "allocated", r)
  <2>1. \A w \in ListWords("allocated") : v.cache[w] = m[w]
    BY <1>1, <1>8, <1>13 DEF ListWords
  <2> QED
    BY <1>1, <1>2, <1>13, <2>1, SameCalls
<1>29. PICK y \in Within(s, "allocated", K) : Reach(s, InsertTail(m, "allocated", r), y, Within(s, "allocated", K))
  BY <1>1, <1>2, <1>4, <1>17, InsertTailEffect DEF B, m
<1>30. Result(m, InsertTail(m, "allocated", r)) = y.cache
  BY <1>29, ReachResult DEF m
<1>31. RemoveHead(y.cache, "free") = RemoveHead(x.cache, "free")
  <2>1. y \in States /\ \A w \in Words \ ListWords("allocated") : y.cache[w] = m[w]
    BY <1>29 DEF Within, Beside, m
  <2>2. y.cache \in Memories
    BY <2>1, StateFacts
  <2>3. \A w \in ListWords("free") : y.cache[w] = x.cache[w]
    BY <1>21, <2>1, ListWordsApart DEF ListWords
  <2> QED
    BY <1>1, <1>20, <2>2, <2>3, SameCalls
<1>32. HeadToAllocatedTail(m) =
         (Persist(MaxValid(r), Invalid) \o Persist(Data(r), 0))
           \o (InsertTail(m, "allocated", r) \o RemoveHead(Result(m, InsertTail(m, "allocated", r)), "free"))
  BY <1>2 DEF HeadToAllocatedTail, Then, Result
<1> HIDE DEF R
<1>33. Reach(s, Persist(MaxValid(r), Invalid) \o Persist(Data(r), 0), v, Safe(R))
  BY <1>11, <1>12, ReachThen
<1>34. Reach(v, InsertTail(m, "allocated", r), x, Safe(R))
  BY <1>18, <1>19, <1>28, ReachWider
<1>35. Reach(x, RemoveHead(Result(m, InsertTail(m, "allocated", r)), "free"), t, Safe(R))
  BY <1>24, <1>25, <1>30, <1>31, ReachWider
<1>36. Reach(v, InsertTail(m, "allocated", r) \o RemoveHead(Result(m, InsertTail(m, "allocated", r)), "free"), t, Safe(R))
  BY <1>34, <1>35, ReachThen
<1>37. Reach(s, HeadToAllocatedTail(m), t, Safe(R))
  BY <1>32, <1>33, <1>36, ReachThen
<1> QED
  BY <1>27, <1>37 DEF m, R

-----------------------------------------------------------------------------
(* A new region, and allocation                                            *)

LEMMA SameLinks ==
  ASSUME NEW l, NEW c, NEW d, NEW S \in Chains, c[Hd(l)] = d[Hd(l)], c[Tl(l)] = d[Tl(l)],
         \A q \in Range(S) : c[Nxt(l, q)] = d[Nxt(l, q)]
  PROVE  /\ Exact(d, l, S) => Exact(c, l, S)
         /\ Tight(d, l, S) => Tight(c, l, S)
<1>1. \A i \in 1 .. Len(S) : c[Nxt(l, S[i])] = d[Nxt(l, S[i])]
  BY ChainFacts
<1>2. S # << >> => Len(S) \in 1 .. Len(S)
  BY ChainFacts
<1>3. Linked(d, l, S) => Linked(c, l, S)
  BY <1>1, <1>2 DEF Linked
<1> QED
  BY <1>3 DEF Exact, Tight

LEMMA FourConcat ==
  ASSUME NEW E, NEW x \in E, NEW y \in E, NEW z \in E, NEW v \in E
  PROVE  ((<<x>> \o <<y>>) \o <<z>>) \o <<v>> = <<x, y, z, v>>
<1>1. PICK a : a = <<x, y, z>>
  OBVIOUS
<1>2. PICK b : b = <<v>>
  OBVIOUS
<1>3. a \in Seq(E) /\ Len(a) = 3 /\ a[1] = x /\ a[2] = y /\ a[3] = z /\ b \in Seq(E) /\ Len(b) = 1 /\ b[1] = v
  BY <1>1, <1>2
<1>4. PICK c : c = a \o b
  OBVIOUS
<1>5. /\ c \in Seq(E) /\ Len(c) = Len(a) + Len(b)
      /\ \A i \in 1 .. Len(a) + Len(b) : c[i] = IF i <= Len(a) THEN a[i] ELSE b[i - Len(a)]
  BY <1>3, <1>4, ConcatFacts
<1>6. Len(c) = 4 /\ c[1] = x /\ c[2] = y /\ c[3] = z /\ c[4] = v
  BY <1>3, <1>5
<1>7. c = <<x, y, z, v>>
  <2>1. PICK d : d = <<x, y, z, v>>
    OBVIOUS
  <2>2. d \in Seq(E) /\ Len(d) = 4 /\ d[1] = x /\ d[2] = y /\ d[3] = z /\ d[4] = v
    BY <2>1
  <2>3. \A i \in 1 .. 4 : c[i] = d[i]
    <3>1. SUFFICES ASSUME NEW i \in 1 .. 4 PROVE c[i] = d[i]
      OBVIOUS
    <3>2. i = 1 \/ i = 2 \/ i = 3 \/ i = 4
      OBVIOUS
    <3> QED
      BY <3>2, <1>6, <2>2
  <2>4. c = d
    BY <1>5, <1>6, <2>2, <2>3, SameSequence
  <2> QED
    BY <2>1, <2>4
<1>8. (<<x>> \o <<y>>) \o <<z>> = a
  BY <1>1, TripleConcat
<1> QED
  BY <1>2, <1>4, <1>7, <1>8

\* Three stores and the drain.
LEMMA ReachThree ==
  ASSUME NEW R, NEW s \in Safe(R), s.medium = Settled(s.cache), NEW w1 \in Words, NEW w2 \in Words, NEW w3 \in Words,
         NEW v1 \in Holds(w1), NEW v2 \in Holds(w2), NEW v3 \in Holds(w3), w1 # w2, w1 # w3, w2 # w3,
         \A c \in Memories : (\A x \in Words \ {w1, w2, w3} : c[x] = s.cache[x]) => c \in R
  PROVE  \E t \in Safe(R) :
           /\ Reach(s, <<Store(w1, v1), Store(w2, v2), Store(w3, v3), Drain>>, t, Safe(R))
           /\ t.medium = Settled(t.cache) /\ t.cache[w1] = v1 /\ t.cache[w2] = v2 /\ t.cache[w3] = v3
           /\ \A x \in Words \ {w1, w2, w3} : t.cache[x] = s.cache[x]
<1>1. s \in States /\ Safe(R) \subseteq States
  BY DEF Safe
<1>2. PICK p : p = Put(s, w1, v1)
  OBVIOUS
<1>3. PICK q : q = Put(p, w2, v2)
  OBVIOUS
<1>4. PICK y : y = Put(q, w3, v3)
  OBVIOUS
<1>5. /\ p \in States /\ p.cache[w1] = v1
      /\ \A x \in Words \ {w1} : p.cache[x] = s.cache[x] /\ p.medium[x] = s.medium[x]
  BY <1>1, <1>2, PutFacts
<1>6. /\ q \in States /\ q.cache[w2] = v2
      /\ \A x \in Words \ {w2} : q.cache[x] = p.cache[x] /\ q.medium[x] = p.medium[x]
  BY <1>3, <1>5, PutFacts
<1>7. /\ y \in States /\ y.cache[w3] = v3
      /\ \A x \in Words \ {w3} : y.cache[x] = q.cache[x] /\ y.medium[x] = q.medium[x]
  BY <1>4, <1>6, PutFacts
<1>8. ASSUME NEW t \in States, \A x \in Words \ {w1, w2, w3} : t.medium[x] = s.medium[x]
      PROVE  t \in Safe(R)
  <2>1. ASSUME NEW c \in Images(t.medium) PROVE c \in R
    <3>1. c \in Memories /\ \A x \in Words : c[x] \in t.medium[x]
      BY DEF Images
    <3>2. \A x \in Words \ {w1, w2, w3} : c[x] \in s.medium[x]
      BY <1>8, <3>1
    <3>3. \A x \in Words \ {w1, w2, w3} : c[x] = s.cache[x]
      BY <3>2 DEF Settled
    <3> QED
      BY <3>1, <3>3
  <2> QED
    BY <2>1 DEF Safe
<1>9. p \in Safe(R) /\ q \in Safe(R) /\ y \in Safe(R)
  BY <1>5, <1>6, <1>7, <1>8
<1>10. PICK t : t = Flushed(y)
  OBVIOUS
<1>11. t \in States /\ t.cache = y.cache /\ t.medium = Settled(t.cache) /\ Images(t.medium) \subseteq Images(y.medium)
  BY <1>7, <1>10, FlushedFacts
<1>12. t \in Safe(R)
  BY <1>9, <1>11 DEF Safe
<1>13. /\ Reach(s, <<Store(w1, v1)>>, p, Safe(R)) /\ Reach(p, <<Store(w2, v2)>>, q, Safe(R))
       /\ Reach(q, <<Store(w3, v3)>>, y, Safe(R)) /\ Reach(y, <<Drain>>, t, Safe(R))
  BY <1>1, <1>2, <1>3, <1>4, <1>9, <1>10, <1>12, ReachStore, ReachDrain
<1>14. Reach(s, ((<<Store(w1, v1)>> \o <<Store(w2, v2)>>) \o <<Store(w3, v3)>>) \o <<Drain>>, t, Safe(R))
  <2>1. Reach(s, <<Store(w1, v1)>> \o <<Store(w2, v2)>>, q, Safe(R))
    BY <1>13, ReachThen
  <2>2. Reach(s, (<<Store(w1, v1)>> \o <<Store(w2, v2)>>) \o <<Store(w3, v3)>>, y, Safe(R))
    BY <1>13, <2>1, ReachThen
  <2> QED
    BY <1>13, <2>2, ReachThen
<1>15. ((<<Store(w1, v1)>> \o <<Store(w2, v2)>>) \o <<Store(w3, v3)>>) \o <<Drain>>
         = <<Store(w1, v1), Store(w2, v2), Store(w3, v3), Drain>>
  <2>1. PICK a1 : a1 = Store(w1, v1)
    OBVIOUS
  <2>2. PICK a2 : a2 = Store(w2, v2)
    OBVIOUS
  <2>3. PICK a3 : a3 = Store(w3, v3)
    OBVIOUS
  <2>4. PICK a4 : a4 = Drain
    OBVIOUS
  <2>5. ((<<a1>> \o <<a2>>) \o <<a3>>) \o <<a4>> = <<a1, a2, a3, a4>>
    <3>1. a1 \in {a1, a2, a3, a4} /\ a2 \in {a1, a2, a3, a4} /\ a3 \in {a1, a2, a3, a4} /\ a4 \in {a1, a2, a3, a4}
      OBVIOUS
    <3> QED
      BY <3>1, FourConcat
  <2> QED
    BY <2>1, <2>2, <2>3, <2>4, <2>5
<1>16. t.cache[w1] = v1 /\ t.cache[w2] = v2 /\ t.cache[w3] = v3
  BY <1>5, <1>6, <1>7, <1>11
<1>17. \A x \in Words \ {w1, w2, w3} : t.cache[x] = s.cache[x]
  BY <1>5, <1>6, <1>7, <1>11
<1> QED
  BY <1>11, <1>12, <1>14, <1>15, <1>16, <1>17

LEMMA ExtendEffect ==
  ASSUME NEW s, NEW A \in Chains, NEW u, Good(s, A, << >>, u), HasRoom(s.cache),
         NEW G, <<A, {}>> \in G, \A r \in Regions \ Range(A) : <<A, {r}>> \in G
  PROVE  \E t \in States : \E F \in Chains :
           /\ Reach(s, ExtendFreeList(s.cache), t, Safe(Recoverable(G, u)))
           /\ Good(t, A, F, u) /\ Len(F) = 1 /\ F[1] = s.cache[FreeOffset] /\ Range(F) = {F[1]}
           /\ F[1] \in Regions \ Range(A)
<1> DEFINE m == s.cache
           r == m[FreeOffset]
           R == Recoverable(G, u)
           F == WithHead(r, << >>)
           w1 == Nxt("allocated", r)
           w2 == Nxt("free", r)
           w3 == MaxValid(r)
<1>0. << >> \in Chains /\ Range(<< >>) = {}
  BY DEF Chains, Range
<1>1. "allocated" \in Lists /\ "free" \in Lists
  BY DEF Lists
<1>2. /\ s \in States /\ s.medium = Settled(m) /\ m \in Memories /\ \A c \in Images(s.medium) : c = m
  BY <1>0, GoodFacts
<1>3. /\ IsInitialized(m) /\ Exact(m, "allocated", A) /\ Exact(m, "free", << >>)
      /\ Range(A) = 0 .. m[FreeOffset] - 1
      /\ m[RecoveryFreeOffset] = Invalid /\ m[PersistedTimestamp] = 0
      /\ \A q \in Range(A) \ u : m[Data(q)] = 0
  BY <1>0 DEF Good
<1>4. r \in Regions /\ r \in Places /\ r \notin Range(A) /\ r \in Nat /\ r + 1 \in 0 .. Capacity
  <2>1. r \in 0 .. Capacity
    BY <1>2, HeaderWordFacts, StateFacts
  <2>2. r + 1 <= Capacity
    BY DEF HasRoom
  <2>3. r \in Regions
    BY <2>1, <2>2, PlaceFacts DEF Regions
  <2> HIDE DEF r, m
  <2> QED
    BY <2>1, <2>2, <2>3, <1>3, PlaceFacts DEF r
<1>5. Range(A) \subseteq Regions /\ Range(A) \subseteq Places /\ Invalid \in Links /\ r \in Links
  BY <1>4, ChainFacts, PlaceFacts
<1>6. /\ F \in Chains /\ Len(F) = 1 /\ F[1] = r /\ Range(F) = {r} /\ F # << >>
  <2>1. PICK e : e = << >>
    OBVIOUS
  <2>2. e \in Chains /\ Range(e) = {} /\ Len(e) = 0 /\ r \in Regions \ Range(e) /\ F = WithHead(r, e)
    BY <1>0, <1>4, <2>1
  <2> HIDE DEF F, r
  <2>3. F \in Chains /\ Len(F) = Len(e) + 1 /\ F[1] = r /\ Range(F) = Range(e) \union {r} /\ F # << >>
    BY <2>2, ConsFacts
  <2> QED
    BY <2>2, <2>3
<1> HIDE DEF m, r, F
<1>7. /\ w1 \in Words /\ w2 \in Words /\ w3 \in Words /\ w1 # w2 /\ w1 # w3 /\ w2 # w3
      /\ w1 \in ListWords("allocated") /\ w2 \in ListWords("free")
      /\ Invalid \in Holds(w1) /\ Invalid \in Holds(w2) /\ 0 \in Holds(w3)
  <2>1. w1 \in ListWords("allocated") /\ w2 \in ListWords("free") /\ Holds(w1) = Links /\ Holds(w2) = Links
    BY <1>1, <1>4, ListWordFacts
  <2>2. w3 \in Words /\ Holds(w3) = 0 .. Invalid /\ w3 \notin ListWords("allocated") /\ w3 \notin ListWords("free")
    BY <1>1, <1>4, HeaderWordFacts, ListWordsApart
  <2>3. w1 # w2
    BY <2>1, ListWordsApart
  <2> QED
    BY <2>1, <2>2, <2>3, <1>5, PlaceFacts DEF ListWords
<1>8. /\ \A w \in HeaderWords : w \in Words \ {w1, w2, w3}
      /\ \A q \in Range(A) : Data(q) \in Words \ {w1, w2, w3}
      /\ \A l \in Lists : Hd(l) \in Words \ {w1, w2, w3} /\ Tl(l) \in Words \ {w1, w2, w3}
      /\ \A q \in Range(A) : Nxt("allocated", q) \in Words \ {w1, w2, w3}
  <2>1. \A w \in HeaderWords : w \in Words \ {w1, w2, w3}
    BY <1>1, <1>4, <1>7, HeaderApart
  <2>2. \A q \in Range(A) : Data(q) \in Words \ {w1, w2, w3}
    <3>1. SUFFICES ASSUME NEW q \in Range(A) PROVE Data(q) \in Words \ {w1, w2, w3}
      OBVIOUS
    <3>2. q \in Places
      BY <1>5
    <3>3. Data(q) \in Words /\ Data(q) \notin ListWords("allocated") /\ Data(q) \notin ListWords("free")
      BY <1>1, <3>2, HeaderWordFacts, ListWordsApart
    <3>4. Data(q) # w3
      BY <1>4, <3>2, HeaderWordsApart
    <3> HIDE DEF w1, w2, w3
    <3> QED
      BY <1>7, <3>3, <3>4
  <2>3. \A l \in Lists : Hd(l) \in Words \ {w1, w2, w3} /\ Tl(l) \in Words \ {w1, w2, w3}
    BY <1>4 DEF Hd, Tl, Nxt, MaxValid, Words, Lists
  <2>4. \A q \in Range(A) : Nxt("allocated", q) \in Words \ {w1, w2, w3}
    <3>1. SUFFICES ASSUME NEW q \in Range(A) PROVE Nxt("allocated", q) \in Words \ {w1, w2, w3}
      OBVIOUS
    <3>2. q \in Places /\ q # r
      BY <1>4, <1>5
    <3>3. Nxt("allocated", q) \in ListWords("allocated") /\ Nxt("allocated", q) # w1
      BY <1>1, <1>4, <3>2, ListWordFacts
    <3>4. w2 \notin ListWords("allocated") /\ w3 \notin ListWords("allocated")
      BY <1>1, <1>4, <1>7, ListWordsApart
    <3> QED
      BY <3>3, <3>4 DEF ListWords
  <2> QED
    BY <2>1, <2>2, <2>3, <2>4
<1> HIDE DEF w1, w2, w3
\* The span of the region is of no list yet.
<1>9. ASSUME NEW c \in Memories, \A x \in Words \ {w1, w2, w3} : c[x] = m[x]
      PROVE  /\ IsInitialized(c) /\ Exact(c, "allocated", A) /\ Exact(c, "free", << >>)
             /\ Tight(c, "allocated", A) /\ Tight(c, "free", << >>)
             /\ \A w \in HeaderWords : c[w] = m[w]
             /\ \A q \in Range(A) : c[Data(q)] = m[Data(q)]
             /\ Kept(c, A, << >>, G, u)
             /\ c \in R
  <2>1. \A w \in HeaderWords : c[w] = m[w]
    BY <1>8, <1>9
  <2>2. \A q \in Range(A) : c[Data(q)] = m[Data(q)]
    BY <1>8, <1>9
  <2>3. Exact(c, "allocated", A) /\ Tight(c, "allocated", A)
    <3>1. Tight(m, "allocated", A)
      BY <1>3 DEF Tight, Exact
    <3> QED
      BY <1>1, <1>3, <1>8, <1>9, <3>1, SameLinks
  <2>4. Exact(c, "free", << >>) /\ Tight(c, "free", << >>)
    BY <1>1, <1>3, <1>8, <1>9 DEF Exact, Tight, Linked
  <2>5. IsInitialized(c)
    BY <1>3, <2>1, SameInitialized
  <2>6. Range(<< >>) \ Range(A) = {} /\ Range(A) \intersect Range(<< >>) = {}
    BY <1>0
  <2>7. Kept(c, A, << >>, G, u)
    BY <1>0, <1>3, <2>1, <2>2, <2>6 DEF Kept, Pending, HeaderWords
  <2>8. c \in R
    BY <1>0, <2>3, <2>4, <2>5, <2>7 DEF Recoverable, Recover, Shape
  <2> QED
    BY <2>1, <2>2, <2>3, <2>4, <2>5, <2>7, <2>8
<1>10. s \in Safe(R)
  BY <1>2, <1>9 DEF Safe
<1> DEFINE span == <<Store(w1, Invalid), Store(w2, Invalid), Store(w3, 0), Drain>>
<1>11. PICK e \in Safe(R) :
         /\ Reach(s, span, e, Safe(R)) /\ e.medium = Settled(e.cache)
         /\ \A x \in Words \ {w1, w2, w3} : e.cache[x] = m[x]
  <2>1. \A c \in Memories : (\A x \in Words \ {w1, w2, w3} : c[x] = s.cache[x]) => c \in R
    BY <1>9 DEF m
  <2> HIDE DEF R
  <2> QED
    BY <1>2, <1>7, <1>10, <2>1, ReachThree DEF m
<1> HIDE DEF span
<1>12. e \in States /\ e.cache \in Memories /\ \A c \in Images(e.medium) : c = e.cache
  BY <1>11, StateFacts, SettledImage DEF Safe
<1>13. /\ IsInitialized(e.cache) /\ Exact(e.cache, "allocated", A) /\ Exact(e.cache, "free", << >>)
       /\ \A w \in HeaderWords : e.cache[w] = m[w]
       /\ \A q \in Range(A) : e.cache[Data(q)] = m[Data(q)]
       /\ Kept(e.cache, A, << >>, G, u)
  BY <1>9, <1>11, <1>12
<1>14. e.cache[FreeOffset] = r /\ e.cache[RecoveryFreeOffset] = Invalid /\ e.cache[PersistedTimestamp] = 0
  BY <1>3, <1>13 DEF HeaderWords, r
<1>15. PICK K : K = TightSet("free", << >>) \union TightSet("free", F)
  OBVIOUS
<1>16. Held(e, "free", << >>)
  BY <1>11, <1>13 DEF Held, SettledOn, Settled, ListWords
<1>17. PICK x \in Within(e, "free", K) :
         /\ Reach(e, InsertHead(e.cache, "free", r), x, Within(e, "free", K))
         /\ Held(x, "free", F) /\ x.medium = Settled(x.cache)
  <2>1. PICK z : z = << >>
    OBVIOUS
  <2>2. z \in Chains /\ r \in Regions \ Range(z) /\ Held(e, "free", z) /\ F = WithHead(r, z)
    BY <1>0, <1>4, <1>16, <2>1 DEF F
  <2>3. K = TightSet("free", z) \union TightSet("free", WithHead(r, z))
    BY <1>15, <2>1, <2>2
  <2> QED
    BY <1>1, <1>12, <2>2, <2>3, InsertHeadEffect
\* The list has the region, free_offset not yet: the image this is not proved for.
<1>18. Within(e, "free", K) \subseteq Safe(R)
  <2>1. ASSUME NEW d \in Images(e.medium), NEW c \in Memories, c \in K,
               \A w \in Words \ ListWords("free") : c[w] = d[w]
        PROVE  c \in R
    <3>1. \A w \in Words \ ListWords("free") : c[w] = e.cache[w]
      BY <1>12, <2>1
    <3>2. \A w \in ListWords("allocated") : c[w] = e.cache[w]
      BY <3>1, ListWordsApart DEF ListWords
    <3>3. Tight(c, "allocated", A)
      BY <1>1, <1>13, <3>2, SameList
    <3>4. \A w \in HeaderWords : c[w] = e.cache[w]
      BY <1>1, <3>1, HeaderApart
    <3>5. \A q \in Range(A) : c[Data(q)] = e.cache[Data(q)]
      BY <1>1, <1>5, <3>1, ListWordsApart, HeaderWordFacts
    <3>6. IsInitialized(c)
      BY <1>13, <3>4, SameInitialized
    <3>7. CASE Tight(c, "free", << >>)
      <4>1. Kept(c, A, << >>, G, u)
        <5>1. /\ c[FreeOffset] = e.cache[FreeOffset] /\ c[RecoveryFreeOffset] = e.cache[RecoveryFreeOffset]
              /\ c[PersistedTimestamp] = e.cache[PersistedTimestamp]
          BY <3>4 DEF HeaderWords
        <5> QED
          BY <1>13, <3>5, <5>1, SameKept
      <4> QED
        BY <1>0, <3>3, <3>6, <3>7, <4>1 DEF Recoverable, Recover, Shape
    <3>8. CASE Tight(c, "free", F)
      <4>1. c[Hd("free")] = F[1] /\ c[FreeOffset] = r
        BY <1>6, <1>14, <3>4, <3>8 DEF Tight, Linked, HeaderWords
      <4> QED
        BY <1>6, <3>6, <4>1 DEF Recoverable
    <3> QED
      BY <1>15, <2>1, <3>7, <3>8 DEF TightSet
  <2> HIDE DEF R
  <2> QED
    BY <1>1, <1>12, <2>1, SafeWithin
<1>19. /\ x \in States /\ x \in Safe(R) /\ x.cache \in Memories
       /\ \A w \in Words \ ListWords("free") : x.cache[w] = e.cache[w]
  BY <1>17, <1>18, StateFacts DEF Within, Beside
<1>20. Exact(x.cache, "allocated", A) /\ Exact(x.cache, "free", F)
  <2>1. \A w \in ListWords("allocated") : x.cache[w] = e.cache[w]
    BY <1>19, ListWordsApart DEF ListWords
  <2> QED
    BY <1>1, <1>13, <1>17, <2>1, SameList DEF Held
<1>21. /\ \A w \in HeaderWords : x.cache[w] = m[w]
       /\ \A q \in Range(A) : x.cache[Data(q)] = m[Data(q)]
  <2>1. \A w \in HeaderWords : x.cache[w] = m[w]
    BY <1>1, <1>13, <1>19, HeaderApart
  <2>2. \A q \in Range(A) : x.cache[Data(q)] = m[Data(q)]
    BY <1>1, <1>5, <1>13, <1>19, ListWordsApart, HeaderWordFacts
  <2> QED
    BY <2>1, <2>2
<1>22. FreeOffset \in Words /\ r + 1 \in Holds(FreeOffset) /\ \A l \in Lists : FreeOffset \notin ListWords(l)
  BY <1>4, HeaderWordFacts, ListWordsApart
\* Now the region is tracked.
<1>23. ASSUME NEW c \in Memories, c[FreeOffset] = r + 1, \A w \in Words \ {FreeOffset} : c[w] = x.cache[w]
       PROVE  /\ IsInitialized(c) /\ Exact(c, "allocated", A) /\ Exact(c, "free", F)
              /\ c[RecoveryFreeOffset] = Invalid /\ c[PersistedTimestamp] = 0
              /\ \A q \in Range(A) \ u : c[Data(q)] = 0
              /\ Range(A) \union Range(F) = 0 .. c[FreeOffset] - 1
              /\ c \in R
  <2>1. \A l \in Lists : \A w \in ListWords(l) : c[w] = x.cache[w]
    BY <1>22, <1>23 DEF ListWords
  <2>2. Exact(c, "allocated", A) /\ Tight(c, "allocated", A) /\ Exact(c, "free", F) /\ Tight(c, "free", F)
    BY <1>1, <1>6, <1>20, <2>1, SameList
  <2>3. \A w \in HeaderWords \ {FreeOffset} : c[w] = m[w]
    BY <1>21, <1>23, HeaderApart
  <2>4. IsInitialized(c)
    <3>1. \A w \in Signature \union {Size("stream"), Size("block")} : w # FreeOffset /\ w \in HeaderWords
      BY HeaderWordsApart DEF HeaderWords
    <3> QED
      BY <1>3, <2>3, <3>1 DEF IsInitialized
  <2>5. c[RecoveryFreeOffset] = Invalid /\ c[PersistedTimestamp] = 0
    BY <1>3, <2>3, HeaderWordsApart DEF HeaderWords
  <2>6. \A q \in Range(A) \ u : c[Data(q)] = 0
    <3>1. \A q \in Range(A) : Data(q) \in Words \ {FreeOffset}
      BY <1>5, HeaderWordFacts, HeaderWordsApart
    <3> QED
      BY <1>3, <1>21, <1>23, <3>1
  <2>7. Range(A) \union Range(F) = 0 .. c[FreeOffset] - 1
    <3>1. 0 .. r + 1 - 1 = (0 .. r - 1) \union {r}
      BY <1>4
    <3>2. Range(A) = 0 .. r - 1
      BY <1>3 DEF r
    <3>3. 0 .. c[FreeOffset] - 1 = 0 .. r + 1 - 1
      BY <1>4, <1>23
    <3> QED
      BY <1>6, <3>1, <3>2, <3>3
  <2>8. Kept(c, A, F, G, u)
    <3>1. Range(A) \intersect Range(F) = {} /\ Range(F) \ Range(A) = {r}
      BY <1>4, <1>6
    <3>2. <<A, {r}>> \in G
      BY <1>4
    <3>3. <<A, Range(F) \ Range(A)>> \in G
      BY <3>1, <3>2
    <3> QED
      BY <2>5, <2>6, <2>7, <3>1, <3>3 DEF Kept, Pending
  <2>9. c \in R
    BY <1>6, <2>2, <2>4, <2>8 DEF Recoverable, Recover, Shape
  <2> QED
    BY <2>2, <2>4, <2>5, <2>6, <2>7, <2>9
<1>24. PICK t \in Safe(R) :
         /\ Reach(x, Persist(FreeOffset, r + 1), t, Safe(R))
         /\ t.medium = Settled(t.cache) /\ t.cache[FreeOffset] = r + 1
         /\ \A w \in Words \ {FreeOffset} : t.cache[w] = x.cache[w]
  <2>1. \A c \in Memories :
          c[FreeOffset] = r + 1 /\ (\A w \in Words \ {FreeOffset} : c[w] = x.cache[w]) => c \in R
    BY <1>23
  <2> HIDE DEF R
  <2> QED
    BY <1>17, <1>19, <1>22, <2>1, SafePersist
<1>25. t \in States /\ Good(t, A, F, u)
  <2>1. t \in States /\ t.cache \in Memories
    BY <1>24, StateFacts DEF Safe
  <2>2. Range(A) \intersect Range(F) = {}
    BY <1>4, <1>6
  <2> HIDE DEF R
  <2> QED
    BY <1>23, <1>24, <2>1, <2>2 DEF Good
<1>26. Result(m, span) = e.cache
  BY <1>11, ReachResult DEF m
<1>27. ExtendFreeList(m) = span \o (InsertHead(e.cache, "free", r) \o Persist(FreeOffset, r + 1))
  <2>1. ExtendFreeList(m) = span \o FreeListExtension(Result(m, span))
    BY DEF ExtendFreeList, Then, Result, span, w1, w2, w3, r
  <2>2. FreeListExtension(e.cache) = InsertHead(e.cache, "free", r) \o Persist(FreeOffset, r + 1)
    BY <1>14 DEF FreeListExtension
  <2> QED
    BY <1>26, <2>1, <2>2
<1> HIDE DEF R
<1>28. Reach(e, InsertHead(e.cache, "free", r), x, Safe(R))
  BY <1>17, <1>18, ReachWider
<1>29. Reach(e, InsertHead(e.cache, "free", r) \o Persist(FreeOffset, r + 1), t, Safe(R))
  BY <1>24, <1>28, ReachThen
<1>30. Reach(s, ExtendFreeList(m), t, Safe(R))
  BY <1>11, <1>27, <1>29, ReachThen
<1> QED
  BY <1>4, <1>6, <1>25, <1>30 DEF m, r, R

LEMMA AllocateEffect ==
  ASSUME NEW s, NEW A \in Chains, NEW F \in Chains, NEW u, Good(s, A, F, u),
         s.cache[Hd("free")] # Invalid \/ HasRoom(s.cache),
         NEW G, <<A, Range(F)>> \in G,
         \A r \in Range(F) : <<Append(A, r), Range(F) \ {r}>> \in G,
         Range(F) = {} => \A r \in Regions \ Range(A) : <<A, {r}>> \in G /\ <<Append(A, r), {}>> \in G
  PROVE  \E t \in Ends(G, u) : Reach(s, AllocateSteps(s.cache), t, Safe(Recoverable(G, u)))
<1>1. s.cache[Hd("free")] = Invalid <=> F = << >>
  BY GoodFacts
<1>2. CASE F # << >>
  <2>1. F[1] \in Range(F)
    <3>1. Len(F) \in Nat /\ Len(F) # 0
      BY <1>2, ChainFacts
    <3>2. 1 \in 1 .. Len(F)
      BY <3>1
    <3> QED
      BY <3>2, ChainFacts
  <2>2. AllocateSteps(s.cache) = HeadToAllocatedTail(s.cache)
    BY <1>1, <1>2 DEF AllocateSteps
  <2> QED
    BY <1>2, <2>1, <2>2, MoveEffect
<1>3. CASE F = << >>
  <2>1. Range(F) = {} /\ Good(s, A, << >>, u) /\ HasRoom(s.cache)
    BY <1>1, <1>3 DEF Range
  <2>2. PICK v \in States, E \in Chains :
          /\ Reach(s, ExtendFreeList(s.cache), v, Safe(Recoverable(G, u)))
          /\ Good(v, A, E, u) /\ Len(E) = 1 /\ Range(E) = {E[1]} /\ E[1] \in Regions \ Range(A)
    BY <2>1, ExtendEffect
  <2>3. <<A, Range(E)>> \in G /\ <<Append(A, E[1]), Range(E) \ {E[1]}>> \in G
    <3>1. Range(E) \ {E[1]} = {}
      BY <2>2
    <3> QED
      BY <2>1, <2>2, <3>1
  <2>4. E # << >>
    <3>1. E \in Chains /\ Len(E) = 1 /\ Len(E) # 0
      BY <2>2
    <3>2. (E = << >>) = (Len(E) = 0)
      BY <3>1, ChainFacts
    <3> QED
      BY <3>1, <3>2
  <2>5. PICK t \in Ends(G, u) : Reach(v, HeadToAllocatedTail(v.cache), t, Safe(Recoverable(G, u)))
    BY <2>2, <2>3, <2>4, MoveEffect
  <2>6. Result(s.cache, ExtendFreeList(s.cache)) = v.cache
    BY <2>2, ReachResult
  <2>7. AllocateSteps(s.cache) = ExtendFreeList(s.cache) \o HeadToAllocatedTail(v.cache)
    BY <1>1, <1>3, <2>6 DEF AllocateSteps, Then, Result
  <2> QED
    BY <2>2, <2>5, <2>7, ReachThen
<1> QED
  BY <1>2, <1>3

-----------------------------------------------------------------------------
(* Release                                                                 *)

\* A settled memory with the lists A and F.
Ready(s, A, F, u) ==
  /\ s \in States /\ s.medium = Settled(s.cache) /\ IsInitialized(s.cache)
  /\ Exact(s.cache, "allocated", A) /\ Exact(s.cache, "free", F)
  /\ Range(A) \union Range(F) = 0 .. s.cache[FreeOffset] - 1
  /\ s.cache[PersistedTimestamp] = 0
  /\ \A r \in Range(A) \ u : s.cache[Data(r)] = 0

LEMMA ReadyFacts ==
  ASSUME NEW s, NEW A \in Chains, NEW F \in Chains, NEW u, Ready(s, A, F, u)
  PROVE  /\ s \in States /\ s.medium = Settled(s.cache) /\ s.cache \in Memories
         /\ \A c \in Images(s.medium) : c = s.cache
         /\ Held(s, "allocated", A) /\ Held(s, "free", F)
         /\ (s.cache[Hd("free")] = Invalid <=> F = << >>) /\ (F # << >> => s.cache[Hd("free")] = F[1])
         /\ (A = << >> => s.cache[Tl("allocated")] = Invalid)
         /\ (A # << >> => s.cache[Tl("allocated")] = A[Len(A)])
         /\ Range(A) \subseteq Places /\ Range(A) \subseteq Regions
<1>1. s \in States /\ s.medium = Settled(s.cache)
  BY DEF Ready
<1>2. s.cache \in Memories /\ \A c \in Images(s.medium) : c = s.cache
  BY <1>1, StateFacts, SettledImage
<1>3. "allocated" \in Lists /\ "free" \in Lists
  BY DEF Lists
<1>4. SettledOn(s, "allocated") /\ SettledOn(s, "free")
  BY <1>1 DEF SettledOn, Settled, ListWords
<1>5. Exact(s.cache, "allocated", A) /\ Exact(s.cache, "free", F)
  BY DEF Ready
<1>6. (A = << >> => s.cache[Tl("allocated")] = Invalid) /\ (A # << >> => s.cache[Tl("allocated")] = A[Len(A)])
  BY <1>5 DEF Exact
<1>7. Range(A) \subseteq Places /\ Range(A) \subseteq Regions
  BY ChainFacts, PlaceFacts
<1> QED
  BY <1>1, <1>2, <1>3, <1>4, <1>5, <1>6, <1>7, ExactInvariants DEF Held

\* Recovery needs no more of an image than its lists and the header.
LEMMA ReadyImage ==
  ASSUME NEW s, NEW A \in Chains, NEW F \in Chains, NEW u, Ready(s, A, F, u),
         NEW c \in Memories, \A w \in HeaderWords \ {RecoveryFreeOffset} : c[w] = s.cache[w],
         \A q \in Range(A) : c[Data(q)] = s.cache[Data(q)],
         NEW B \in Chains, NEW E \in Chains, Shape(c, B, E), Range(B) \subseteq Range(A),
         Range(B) \union Range(E) = Range(A) \union Range(F),
         NEW G, Pending(c, B, E, G)
  PROVE  c \in Recoverable(G, u)
<1>1. IsInitialized(c)
  <2>1. \A w \in Signature \union {Size("stream"), Size("block")} : w \in HeaderWords \ {RecoveryFreeOffset}
    BY HeaderWordsApart DEF HeaderWords
  <2> QED
    BY <2>1 DEF IsInitialized, Ready
<1>2. c[PersistedTimestamp] = 0 /\ c[FreeOffset] = s.cache[FreeOffset]
  <2>1. PersistedTimestamp \in HeaderWords \ {RecoveryFreeOffset} /\ FreeOffset \in HeaderWords \ {RecoveryFreeOffset}
    BY HeaderWordsApart DEF HeaderWords
  <2> QED
    BY <2>1 DEF Ready
<1>3. \A q \in Range(B) \ u : c[Data(q)] = 0
  BY DEF Ready
<1>4. Range(B) \union Range(E) = 0 .. c[FreeOffset] - 1
  BY <1>2 DEF Ready
<1> QED
  BY <1>1, <1>2, <1>3, <1>4 DEF Recoverable, Recover, Kept

\* The region that is being freed leaves the allocated list.
LEMMA ReleaseEffect ==
  ASSUME NEW s, NEW A \in Chains, NEW F \in Chains, NEW u, Ready(s, A, F, u),
         NEW i \in 1 .. Len(A), F # << >>, F[1] = A[i], Range(A) \intersect Range(F) = {A[i]},
         s.cache[RecoveryFreeOffset] = A[i],
         NEW G, <<RemoveAt(A, i), Range(F)>> \in G
  PROVE  \E t \in Ends(G, u) : \E x :
           /\ Reach(s, RemoveRegion(s.cache, "allocated", A[i]), x, Safe(Recoverable(G, u)))
           /\ Reach(x, Persist(RecoveryFreeOffset, Invalid), t, Safe(Recoverable(G, u)))
<1> DEFINE r == A[i]
           B == RemoveAt(A, i)
           R == Recoverable(G, u)
<1>1. "allocated" \in Lists /\ "free" \in Lists
  BY DEF Lists
<1>2. /\ s \in States /\ s.medium = Settled(s.cache) /\ s.cache \in Memories
      /\ \A c \in Images(s.medium) : c = s.cache
      /\ Held(s, "allocated", A) /\ Held(s, "free", F) /\ Range(A) \subseteq Places
      /\ Exact(s.cache, "free", F)
  BY ReadyFacts DEF Ready
<1>3. r # Invalid /\ r \in Range(A) /\ r \in Range(F)
  BY ChainFacts
<1>4. B \in Chains /\ Range(B) = Range(A) \ {r}
  BY RemoveAtFacts
<1>5. /\ RecoveryFreeOffset \in Words /\ Invalid \in Holds(RecoveryFreeOffset)
      /\ \A l \in Lists : RecoveryFreeOffset \notin ListWords(l)
      /\ \A q \in Places : Data(q) # RecoveryFreeOffset /\ Data(q) \in Words
      /\ RecoveryFreeOffset \in HeaderWords
  BY HeaderWordFacts, HeaderWordsApart, ListWordsApart, PlaceFacts DEF HeaderWords
<1> HIDE DEF r, B
<1>6. PICK K : K = TightSet("allocated", A) \union TightSet("allocated", B)
                     \union (IF i = Len(A) THEN StaleSet("allocated", A) ELSE {})
  OBVIOUS
<1>7. PICK x \in Within(s, "allocated", K) :
        /\ Reach(s, RemoveRegion(s.cache, "allocated", r), x, Within(s, "allocated", K))
        /\ Held(x, "allocated", B) /\ x.medium = Settled(x.cache)
  <2>1. /\ TightSet("allocated", A) \subseteq K /\ TightSet("allocated", B) \subseteq K
        /\ i = Len(A) => StaleSet("allocated", A) \subseteq K
    BY <1>6
  <2> QED
    BY <1>1, <1>2, <2>1, RemoveRegionEffect DEF r, B
<1>8. Within(s, "allocated", K) \subseteq Safe(R)
  <2>1. ASSUME NEW d \in Images(s.medium), NEW c \in Memories, c \in K,
               \A w \in Words \ ListWords("allocated") : c[w] = d[w]
        PROVE  c \in R
    <3>1. \A w \in Words \ ListWords("allocated") : c[w] = s.cache[w]
      BY <1>2, <2>1
    <3>2. \A w \in HeaderWords : c[w] = s.cache[w]
      BY <1>1, <3>1, HeaderApart
    <3>3. \A q \in Range(A) : c[Data(q)] = s.cache[Data(q)]
      BY <1>1, <1>2, <1>5, <3>1, ListWordsApart
    <3>4. Tight(c, "free", F)
      <4>1. \A w \in ListWords("free") : c[w] = s.cache[w]
        BY <3>1, ListWordsApart DEF ListWords
      <4> QED
        BY <1>1, <1>2, <4>1, SameList
    <3>5. c[RecoveryFreeOffset] = r
      BY <1>5, <3>2 DEF r
    <3>6. CASE Tight(c, "allocated", A) \/ (i = Len(A) /\ Stale(c, "allocated", A))
      <4>1. Shape(c, A, F)
        BY <3>4, <3>5, <3>6 DEF Shape, r
      <4>2. Range(F) \union {r} = Range(F)
        BY <1>3
      <4>3. Pending(c, A, F, G)
        BY <1>3, <3>5, <4>2 DEF Pending, r
      <4> QED
        BY <3>2, <3>3, <4>1, <4>3, ReadyImage
    <3>7. CASE Tight(c, "allocated", B)
      <4>1. Shape(c, B, F)
        BY <3>4, <3>7 DEF Shape
      <4>2. Range(B) \intersect Range(F) = {} /\ r \notin Range(B)
        BY <1>4 DEF r
      <4>3. Pending(c, B, F, G)
        BY <1>3, <3>5, <4>2 DEF Pending, r, B
      <4>4. Range(B) \subseteq Range(A) /\ Range(B) \union Range(F) = Range(A) \union Range(F)
        BY <1>3, <1>4
      <4> QED
        BY <1>4, <3>2, <3>3, <4>1, <4>3, <4>4, ReadyImage
    <3> QED
      BY <1>6, <2>1, <3>6, <3>7 DEF TightSet, StaleSet
  <2> HIDE DEF R
  <2> QED
    BY <1>1, <1>2, <2>1, SafeWithin
<1>9. /\ x \in States /\ x \in Safe(R) /\ x.cache \in Memories
      /\ \A w \in Words \ ListWords("allocated") : x.cache[w] = s.cache[w]
  BY <1>7, <1>8, StateFacts DEF Within, Beside
<1>10. ASSUME NEW c \in Memories, c[RecoveryFreeOffset] = Invalid,
              \A w \in Words \ {RecoveryFreeOffset} : c[w] = x.cache[w]
       PROVE  /\ Exact(c, "allocated", B) /\ Exact(c, "free", F)
              /\ \A w \in HeaderWords \ {RecoveryFreeOffset} : c[w] = s.cache[w]
              /\ \A q \in Range(A) : c[Data(q)] = s.cache[Data(q)]
              /\ c \in R
  <2>1. \A w \in HeaderWords \ {RecoveryFreeOffset} : c[w] = s.cache[w]
    BY <1>1, <1>9, <1>10, HeaderApart
  <2>2. \A q \in Range(A) : c[Data(q)] = s.cache[Data(q)]
    BY <1>1, <1>2, <1>5, <1>9, <1>10, ListWordsApart
  <2>3. Exact(c, "allocated", B) /\ Tight(c, "allocated", B)
    <3>1. \A w \in ListWords("allocated") : c[w] = x.cache[w]
      BY <1>1, <1>5, <1>10 DEF ListWords
    <3> QED
      BY <1>1, <1>4, <1>7, <3>1, SameList DEF Held
  <2>4. Exact(c, "free", F) /\ Tight(c, "free", F)
    <3>1. \A w \in ListWords("free") : c[w] = s.cache[w]
      BY <1>1, <1>5, <1>9, <1>10, ListWordsApart DEF ListWords
    <3> QED
      BY <1>1, <1>2, <3>1, SameList
  <2>5. Shape(c, B, F)
    BY <2>3, <2>4 DEF Shape
  <2>6. Range(B) \intersect Range(F) = {} /\ Range(F) \ Range(B) = Range(F)
    BY <1>4 DEF r
  <2>7. Pending(c, B, F, G)
    <3>1. <<B, Range(F)>> \in G
      BY DEF B
    <3> QED
      BY <1>10, <2>6, <3>1 DEF Pending
  <2>8. Range(B) \subseteq Range(A) /\ Range(B) \union Range(F) = Range(A) \union Range(F)
    BY <1>3, <1>4
  <2>9. c \in R
    BY <1>4, <2>1, <2>2, <2>5, <2>7, <2>8, ReadyImage
  <2> QED
    BY <2>1, <2>2, <2>3, <2>4, <2>9
<1>11. PICK t \in Safe(R) :
         /\ Reach(x, Persist(RecoveryFreeOffset, Invalid), t, Safe(R))
         /\ t.medium = Settled(t.cache) /\ t.cache[RecoveryFreeOffset] = Invalid
         /\ \A w \in Words \ {RecoveryFreeOffset} : t.cache[w] = x.cache[w]
  <2>1. \A c \in Memories :
          c[RecoveryFreeOffset] = Invalid /\ (\A w \in Words \ {RecoveryFreeOffset} : c[w] = x.cache[w]) => c \in R
    BY <1>10
  <2> HIDE DEF R
  <2> QED
    BY <1>5, <1>7, <1>9, <2>1, SafePersist
<1>12. t \in Ends(G, u)
  <2>1. t \in States /\ t.cache \in Memories
    BY <1>11, StateFacts DEF Safe
  <2>2. /\ Exact(t.cache, "allocated", B) /\ Exact(t.cache, "free", F)
        /\ \A w \in HeaderWords \ {RecoveryFreeOffset} : t.cache[w] = s.cache[w]
        /\ \A q \in Range(A) : t.cache[Data(q)] = s.cache[Data(q)]
    BY <1>10, <1>11, <2>1
  <2>3. IsInitialized(t.cache)
    <3>1. \A w \in Signature \union {Size("stream"), Size("block")} : w \in HeaderWords \ {RecoveryFreeOffset}
      BY HeaderWordsApart DEF HeaderWords
    <3> QED
      BY <2>2, <3>1 DEF IsInitialized, Ready
  <2>4. t.cache[PersistedTimestamp] = 0 /\ t.cache[FreeOffset] = s.cache[FreeOffset]
    <3>1. PersistedTimestamp \in HeaderWords \ {RecoveryFreeOffset} /\ FreeOffset \in HeaderWords \ {RecoveryFreeOffset}
      BY HeaderWordsApart DEF HeaderWords
    <3> QED
      BY <2>2, <3>1 DEF Ready
  <2>5. \A q \in Range(B) \ u : t.cache[Data(q)] = 0
    BY <1>4, <2>2 DEF Ready
  <2>6. Range(B) \intersect Range(F) = {}
    BY <1>4 DEF r
  <2>7. Range(B) \union Range(F) = 0 .. t.cache[FreeOffset] - 1
    <3>1. Range(B) \union Range(F) = Range(A) \union Range(F)
      BY <1>3, <1>4
    <3> QED
      BY <2>4, <3>1 DEF Ready
  <2>8. Good(t, B, F, u)
    BY <1>11, <2>1, <2>2, <2>3, <2>4, <2>5, <2>6, <2>7 DEF Good
  <2> QED
    BY <1>4, <2>1, <2>8 DEF Ends, B
<1> HIDE DEF R
<1>13. Reach(s, RemoveRegion(s.cache, "allocated", r), x, Safe(R))
  BY <1>7, <1>8, ReachWider
<1> QED
  BY <1>11, <1>12, <1>13 DEF R, r

-----------------------------------------------------------------------------
(* The recovery when a stream is opened                                    *)

\* The lists are A and F again; the store to the tail of the allocated list may not be
\* durable yet.
Restored(s, A, F, u) ==
  /\ s \in States /\ IsInitialized(s.cache)
  /\ Exact(s.cache, "allocated", A) /\ Exact(s.cache, "free", F)
  /\ Range(A) \union Range(F) = 0 .. s.cache[FreeOffset] - 1
  /\ s.cache[PersistedTimestamp] = 0
  /\ \A r \in Range(A) \ u : s.cache[Data(r)] = 0
  /\ \A w \in Words \ ListWords("allocated") : s.medium[w] = {s.cache[w]}
  /\ \/ SettledOn(s, "allocated")
     \/ /\ A # << >> /\ s.cache[RecoveryFreeOffset] \in {Invalid, A[Len(A)]}
        /\ \A c \in Images(s.medium) : Tight(c, "allocated", A) \/ Stale(c, "allocated", A)

LEMMA RestoredFacts ==
  ASSUME NEW s, NEW A \in Chains, NEW F \in Chains, NEW u, Restored(s, A, F, u)
  PROVE  /\ s \in States /\ s.cache \in Memories
         /\ Ready(Flushed(s), A, F, u) /\ Flushed(s).cache = s.cache
         /\ SettledOn(s, "allocated") => Ready(s, A, F, u)
         /\ Held(s, "free", F)
         /\ (s.cache[Hd("free")] = Invalid <=> F = << >>) /\ (F # << >> => s.cache[Hd("free")] = F[1])
         /\ (A = << >> => s.cache[Tl("allocated")] = Invalid)
         /\ (A # << >> => s.cache[Tl("allocated")] = A[Len(A)])
         /\ Range(A) \subseteq Places /\ Range(A) \subseteq Regions
<1>1. s \in States /\ s.cache \in Memories /\ s.medium \in Media
  BY StateFacts DEF Restored
<1>2. /\ Flushed(s) \in States /\ Flushed(s).cache = s.cache
      /\ Flushed(s).medium = Settled(s.cache)
  BY <1>1, FlushedFacts
<1>3. Ready(Flushed(s), A, F, u)
  BY <1>2 DEF Ready, Restored
<1>4. SettledOn(s, "allocated") => Ready(s, A, F, u)
  <2>1. SUFFICES ASSUME SettledOn(s, "allocated") PROVE Ready(s, A, F, u)
    OBVIOUS
  <2>2. \A w \in Words : s.medium[w] = {s.cache[w]}
    BY <2>1 DEF SettledOn, Restored
  <2>3. s.medium = Settled(s.cache)
    BY <1>1, <2>2 DEF Settled, Media
  <2> QED
    BY <2>3 DEF Ready, Restored
<1>5. Held(s, "free", F)
  <2>1. ListWords("free") \subseteq Words \ ListWords("allocated")
    BY ListWordsApart DEF ListWords
  <2> QED
    BY <2>1 DEF Held, SettledOn, Restored
<1> QED
  BY <1>1, <1>2, <1>3, <1>4, <1>5, ReadyFacts

\* A power failure leaves the lists as they are.
LEMMA RestoredImages ==
  ASSUME NEW s, NEW A \in Chains, NEW F \in Chains, NEW u, Restored(s, A, F, u),
         NEW c \in Images(s.medium)
  PROVE  /\ c \in Memories /\ \A w \in Words \ ListWords("allocated") : c[w] = s.cache[w]
         /\ \A w \in HeaderWords : c[w] = s.cache[w]
         /\ \A q \in Range(A) : c[Data(q)] = s.cache[Data(q)]
         /\ Tight(c, "free", F)
         /\ \/ Tight(c, "allocated", A)
            \/ Stale(c, "allocated", A) /\ c[RecoveryFreeOffset] \in {Invalid, A[Len(A)]}
<1>1. "allocated" \in Lists /\ "free" \in Lists
  BY DEF Lists
<1>2. c \in Memories /\ \A w \in Words : c[w] \in s.medium[w]
  BY DEF Images
<1>3. \A w \in Words \ ListWords("allocated") : c[w] = s.cache[w]
  BY <1>2 DEF Restored
<1>4. \A w \in HeaderWords : c[w] = s.cache[w]
  BY <1>1, <1>3, HeaderApart
<1>5. \A q \in Range(A) : c[Data(q)] = s.cache[Data(q)]
  <2>1. ASSUME NEW q \in Range(A) PROVE c[Data(q)] = s.cache[Data(q)]
    <3>1. q \in Places
      BY RestoredFacts
    <3>2. Data(q) \in Words \ ListWords("allocated")
      BY <1>1, <3>1, HeaderWordFacts, ListWordsApart
    <3> QED
      BY <1>3, <3>2
  <2> QED
    BY <2>1
<1>6. Tight(c, "free", F)
  <2>1. \A w \in ListWords("free") : c[w] = s.cache[w]
    BY <1>3, ListWordsApart DEF ListWords
  <2> QED
    BY <1>1, <2>1, SameList DEF Restored
<1>7. \/ Tight(c, "allocated", A)
      \/ Stale(c, "allocated", A) /\ c[RecoveryFreeOffset] \in {Invalid, A[Len(A)]}
  <2>1. CASE SettledOn(s, "allocated")
    <3>1. \A w \in ListWords("allocated") : c[w] = s.cache[w]
      BY <1>2, <2>1 DEF SettledOn, ListWords
    <3> QED
      BY <1>1, <3>1, SameList DEF Restored
  <2>2. CASE ~SettledOn(s, "allocated")
    <3>1. c[RecoveryFreeOffset] = s.cache[RecoveryFreeOffset]
      BY <1>4 DEF HeaderWords
    <3> QED
      BY <2>2, <3>1 DEF Restored
  <2> QED
    BY <2>1, <2>2
<1> QED
  BY <1>2, <1>3, <1>4, <1>5, <1>6, <1>7

LEMMA RestoredSafe ==
  ASSUME NEW s, NEW A \in Chains, NEW F \in Chains, NEW u, Restored(s, A, F, u),
         NEW G, Pending(s.cache, A, F, G)
  PROVE  s \in Safe(Recoverable(G, u))
<1>1. s \in States
  BY DEF Restored
<1>2. ASSUME NEW c \in Images(s.medium) PROVE c \in Recoverable(G, u)
  <2>1. /\ c \in Memories
        /\ \A w \in HeaderWords : c[w] = s.cache[w]
        /\ \A q \in Range(A) : c[Data(q)] = s.cache[Data(q)]
        /\ Shape(c, A, F)
    BY RestoredImages DEF Shape
  <2>2. IsInitialized(c)
    BY <2>1, SameInitialized DEF Restored
  <2>3. Kept(c, A, F, G, u)
    BY <2>1 DEF Kept, Restored, Pending, HeaderWords
  <2> QED
    BY <2>1, <2>2, <2>3 DEF Recoverable, Recover
<1> QED
  BY <1>1, <1>2 DEF Safe

LEMMA TightNotStale ==
  ASSUME NEW c, NEW l, NEW S \in Chains, Tight(c, l, S)
  PROVE  ~Stale(c, l, S)
<1>1. SUFFICES ASSUME Len(S) >= 2, S[Len(S)] = S[Len(S) - 1] PROVE FALSE
  <2>1. Len(S) >= 2 => S # << >>
    BY ChainFacts
  <2> QED
    BY <1>1, <2>1 DEF Tight, Stale
<1>2. Len(S) \in Nat /\ Len(S) \in 1 .. Len(S) /\ Len(S) - 1 \in 1 .. Len(S) /\ Len(S) - 1 # Len(S)
  BY <1>1, ChainFacts
<1> QED
  BY <1>1, <1>2 DEF Chains

LEMMA SameRuntimeInit ==
  ASSUME NEW l \in Lists, NEW m \in Memories, NEW n \in Memories, \A x \in ListWords(l) : m[x] = n[x]
  PROVE  RuntimeInit(m, l) = RuntimeInit(n, l)
<1>1. m[Hd(l)] = n[Hd(l)] /\ m[Tl(l)] = n[Tl(l)] /\ m[Tl(l)] \in Links
  BY ListWordFacts DEF Memories
<1>2. m[Tl(l)] # Invalid => m[Nxt(l, m[Tl(l)])] = n[Nxt(l, m[Tl(l)])]
  <2>1. m[Tl(l)] # Invalid => m[Tl(l)] \in Places
    BY <1>1, PlaceFacts DEF Links
  <2> QED
    BY <2>1, ListWordFacts
<1>3. CASE (m[Hd(l)] = Invalid \/ m[Tl(l)] = Invalid) /\ m[Hd(l)] # m[Tl(l)]
  BY <1>1, <1>3 DEF RuntimeInit
<1>4. CASE ~((m[Hd(l)] = Invalid \/ m[Tl(l)] = Invalid) /\ m[Hd(l)] # m[Tl(l)])
  BY <1>1, <1>2, <1>4 DEF RuntimeInit
<1> QED
  BY <1>3, <1>4

LEMMA RuntimeEffect ==
  ASSUME NEW s \in States, s.medium = Settled(s.cache), IsInitialized(s.cache),
         NEW A \in Chains, NEW F \in Chains, NEW G, NEW u, Recover(s.cache, A, F, G, u)
  PROVE  \E t : /\ Reach(s, RuntimeInit(s.cache, "allocated") \o RuntimeInit(s.cache, "free"), t,
                         Safe(Recoverable(G, u)))
                /\ Restored(t, A, F, u) /\ Pending(t.cache, A, F, G)
<1> DEFINE m == s.cache
           R == Recoverable(G, u)
<1>1. "allocated" \in Lists /\ "free" \in Lists
  BY DEF Lists
<1>2. m \in Memories /\ \A c \in Images(s.medium) : c = m
  BY StateFacts, SettledImage
<1>3. SettledOn(s, "allocated") /\ \A w \in Words : s.medium[w] = {s.cache[w]}
  BY DEF SettledOn, Settled, ListWords
<1>4. Shape(m, A, F) /\ Kept(m, A, F, G, u)
  BY DEF Recover
<1>5. PICK K : K = TightSet("allocated", A) \union
                     (IF Stale(m, "allocated", A) THEN StaleSet("allocated", A) ELSE {})
  OBVIOUS
<1>6. PICK p \in Within(s, "allocated", K) :
        /\ Reach(s, RuntimeInit(m, "allocated"), p, Within(s, "allocated", K))
        /\ Exact(p.cache, "allocated", A) /\ (SettledOn(p, "allocated") \/ Stale(m, "allocated", A))
  <2>1. TightSet("allocated", A) \subseteq K /\ (Stale(m, "allocated", A) => StaleSet("allocated", A) \subseteq K)
    BY <1>5
  <2>2. Tight(m, "allocated", A) \/ Stale(m, "allocated", A)
    BY <1>4 DEF Shape
  <2> QED
    BY <1>1, <1>3, <2>1, <2>2, RuntimeInitEffect
<1>7. /\ p \in States /\ p.cache \in Memories
      /\ \A w \in Words \ ListWords("allocated") : p.cache[w] = m[w] /\ p.medium[w] = {m[w]}
  <2>1. p \in States /\ p.cache \in Memories /\ \A w \in Words : p.cache[w] \in p.medium[w]
    BY <1>6, StateFacts DEF Within
  <2>2. \A w \in Words \ ListWords("allocated") : p.cache[w] = m[w] /\ p.medium[w] \subseteq {m[w]}
    BY <1>3, <1>6 DEF Within, Beside
  <2> QED
    BY <2>1, <2>2
<1>8. \A w \in ListWords("free") : w \in Words \ ListWords("allocated")
  BY ListWordsApart DEF ListWords
<1>9. Tight(p.cache, "free", F) /\ SettledOn(p, "free")
  BY <1>1, <1>4, <1>7, <1>8, SameList DEF Shape, SettledOn
<1>10. ~Stale(p.cache, "free", F)
  BY <1>9, TightNotStale
<1>11. PICK L : L = TightSet("free", F)
  OBVIOUS
<1>12. PICK t \in Within(p, "free", L) :
         /\ Reach(p, RuntimeInit(p.cache, "free"), t, Within(p, "free", L))
         /\ Exact(t.cache, "free", F) /\ SettledOn(t, "free")
  BY <1>1, <1>7, <1>9, <1>10, <1>11, RuntimeInitEffect
<1>13. RuntimeInit(p.cache, "free") = RuntimeInit(m, "free")
  BY <1>1, <1>2, <1>7, <1>8, SameRuntimeInit
<1>14. /\ t \in States /\ t.cache \in Memories /\ \A w \in Words : t.cache[w] \in t.medium[w]
       /\ \A w \in Words \ ListWords("free") : t.cache[w] = p.cache[w] /\ t.medium[w] \subseteq p.medium[w]
  BY <1>12, StateFacts DEF Within, Beside
<1>15. \A w \in ListWords("allocated") : w \in Words \ ListWords("free")
  BY ListWordsApart DEF ListWords
\* The words that are read besides the lists.
<1>16. /\ \A w \in HeaderWords : w \notin ListWords("allocated") /\ w \notin ListWords("free") /\ w \in Words
       /\ \A q \in Places : /\ Data(q) \notin ListWords("allocated") /\ Data(q) \notin ListWords("free")
                            /\ Data(q) \in Words
       /\ Range(A) \subseteq Places
  <2>1. Range(A) \subseteq Places
    BY ChainFacts, PlaceFacts
  <2> QED
    BY <1>1, <2>1, HeaderApart, ListWordsApart, HeaderWordFacts
<1> HIDE DEF R, m
\* An image of the medium in between.
<1>17. ASSUME NEW c \in Memories, Tight(c, "free", F),
              Tight(c, "allocated", A) \/ (Stale(m, "allocated", A) /\ Stale(c, "allocated", A)),
              \A w \in HeaderWords : c[w] = m[w], \A q \in Range(A) : c[Data(q)] = m[Data(q)]
       PROVE  c \in R
  <2>1. ~Tight(m, "allocated", A) \/ ~Stale(m, "allocated", A)
    BY TightNotStale
  <2>2. Stale(m, "allocated", A) => m[RecoveryFreeOffset] \in {Invalid, A[Len(A)]}
    BY <1>4, <2>1 DEF Shape
  <2>3. c[RecoveryFreeOffset] = m[RecoveryFreeOffset]
    BY <1>17 DEF HeaderWords
  <2>4. Shape(c, A, F)
    BY <1>17, <2>2, <2>3 DEF Shape
  <2>5. IsInitialized(c)
    BY <1>17, SameInitialized DEF m
  <2>6. Kept(c, A, F, G, u)
    BY <1>4, <1>17, SameKept DEF HeaderWords
  <2> QED
    BY <2>4, <2>5, <2>6 DEF R, Recoverable, Recover
<1>18. Within(s, "allocated", K) \subseteq Safe(R)
  <2>1. ASSUME NEW d \in Images(s.medium), NEW c \in Memories, c \in K,
               \A w \in Words \ ListWords("allocated") : c[w] = d[w]
        PROVE  c \in R
    <3>1. \A w \in Words \ ListWords("allocated") : c[w] = m[w]
      BY <1>2, <2>1
    <3>2. Tight(c, "free", F)
      BY <1>1, <1>4, <1>8, <3>1, SameList DEF Shape
    <3>3. Tight(c, "allocated", A) \/ (Stale(m, "allocated", A) /\ Stale(c, "allocated", A))
      BY <1>5, <2>1 DEF TightSet, StaleSet
    <3>4. (\A w \in HeaderWords : c[w] = m[w]) /\ \A q \in Range(A) : c[Data(q)] = m[Data(q)]
      BY <1>16, <3>1
    <3> QED
      BY <1>17, <2>1, <3>2, <3>3, <3>4
  <2> QED
    BY <1>1, <2>1, SafeWithin
<1>19. Within(p, "free", L) \subseteq Safe(R)
  <2>1. ASSUME NEW d \in Images(p.medium), NEW c \in Memories, c \in L,
               \A w \in Words \ ListWords("free") : c[w] = d[w]
        PROVE  c \in R
    <3>1. d \in K /\ d \in Memories
      BY <1>6, <2>1 DEF Within, Images
    <3>2. \A w \in Words \ ListWords("allocated") : d[w] = m[w]
      BY <1>7, <2>1 DEF Images
    <3>3. \A w \in ListWords("allocated") : c[w] = d[w]
      BY <1>15, <2>1
    <3>4. Tight(d, "allocated", A) \/ (Stale(m, "allocated", A) /\ Stale(d, "allocated", A))
      BY <1>5, <3>1 DEF TightSet, StaleSet
    <3>5. Tight(c, "allocated", A) \/ (Stale(m, "allocated", A) /\ Stale(c, "allocated", A))
      BY <1>1, <3>3, <3>4, SameList
    <3>6. (\A w \in HeaderWords : c[w] = m[w]) /\ \A q \in Range(A) : c[Data(q)] = m[Data(q)]
      BY <1>16, <2>1, <3>2
    <3> QED
      BY <1>11, <1>17, <2>1, <3>5, <3>6 DEF TightSet
  <2> QED
    BY <1>1, <1>7, <2>1, SafeWithin
<1>20. Reach(s, RuntimeInit(m, "allocated") \o RuntimeInit(m, "free"), t, Safe(R))
  <2>1. Reach(s, RuntimeInit(m, "allocated"), p, Safe(R))
    BY <1>6, <1>18, ReachWider
  <2>2. Reach(p, RuntimeInit(m, "free"), t, Safe(R))
    BY <1>12, <1>13, <1>19, ReachWider
  <2> QED
    BY <2>1, <2>2, ReachThen
<1>21. (\A w \in HeaderWords : t.cache[w] = m[w]) /\ \A q \in Range(A) : t.cache[Data(q)] = m[Data(q)]
  BY <1>7, <1>14, <1>16
<1>22. Exact(t.cache, "allocated", A)
  BY <1>1, <1>6, <1>14, <1>15, SameList
<1>23. \A w \in Words \ ListWords("allocated") : t.medium[w] = {t.cache[w]}
  <2>1. ASSUME NEW w \in Words \ ListWords("allocated"), w \notin ListWords("free")
        PROVE  t.medium[w] = {t.cache[w]}
    BY <1>7, <1>14, <2>1
  <2> QED
    BY <1>12, <2>1 DEF SettledOn
<1>24. \/ SettledOn(t, "allocated")
       \/ /\ A # << >> /\ t.cache[RecoveryFreeOffset] \in {Invalid, A[Len(A)]}
          /\ \A c \in Images(t.medium) : Tight(c, "allocated", A) \/ Stale(c, "allocated", A)
  <2>1. CASE SettledOn(p, "allocated")
    <3>1. \A w \in ListWords("allocated") : t.medium[w] = {t.cache[w]}
      BY <1>14, <1>15, <2>1 DEF SettledOn
    <3> QED
      BY <3>1 DEF SettledOn
  <2>2. CASE Stale(m, "allocated", A) /\ ~Tight(m, "allocated", A)
    <3>1. A # << >> /\ t.cache[RecoveryFreeOffset] \in {Invalid, A[Len(A)]}
      <4>1. Len(A) >= 2 => A # << >>
        BY ChainFacts
      <4> QED
        BY <1>4, <1>21, <2>2, <4>1 DEF Shape, HeaderWords, Stale
    <3>2. ASSUME NEW c \in Images(t.medium) PROVE Tight(c, "allocated", A) \/ Stale(c, "allocated", A)
      <4>1. PICK d \in Images(p.medium) : \A w \in Words \ ListWords("free") : c[w] = d[w]
        BY <1>1, <1>7, <1>12, BesideImage
      <4>2. d \in K
        BY <1>6 DEF Within
      <4>3. \A w \in ListWords("allocated") : c[w] = d[w]
        BY <1>15, <4>1
      <4>4. Tight(d, "allocated", A) \/ Stale(d, "allocated", A)
        BY <1>5, <4>2 DEF TightSet, StaleSet
      <4> QED
        BY <1>1, <4>3, <4>4, SameList
    <3> QED
      BY <3>1, <3>2
  <2>3. CASE Tight(m, "allocated", A)
    <3>1. ~Stale(m, "allocated", A)
      BY <2>3, TightNotStale
    <3> QED
      BY <1>6, <2>1, <3>1
  <2> QED
    BY <1>6, <2>1, <2>2, <2>3
<1>25. IsInitialized(t.cache)
  BY <1>21, SameInitialized DEF m
<1>26. Kept(t.cache, A, F, G, u)
  BY <1>4, <1>21, SameKept DEF HeaderWords
<1>27. Restored(t, A, F, u) /\ Pending(t.cache, A, F, G)
  BY <1>12, <1>14, <1>22, <1>23, <1>24, <1>25, <1>26 DEF Restored, Kept
<1> QED
  BY <1>20, <1>27 DEF R, m

LEMMA RecoverMoveEffect ==
  ASSUME NEW s, NEW A \in Chains, NEW F \in Chains, NEW u, Restored(s, A, F, u),
         NEW G, Pending(s.cache, A, F, G)
  PROVE  \E t : \E E \in Chains :
           /\ Reach(s, RecoverMove(s.cache), t, Safe(Recoverable(G, u)))
           /\ Restored(t, A, E, u) /\ Pending(t.cache, A, E, G)
           /\ (A # << >> /\ E # << >> => E[1] # A[Len(A)])
<1> DEFINE m == s.cache
           R == Recoverable(G, u)
           E == Tail(F)
           r == F[1]
<1>1. "allocated" \in Lists /\ "free" \in Lists
  BY DEF Lists
<1>2. /\ s \in States /\ m \in Memories /\ Held(s, "free", F)
      /\ (m[Hd("free")] = Invalid <=> F = << >>) /\ (F # << >> => m[Hd("free")] = F[1])
      /\ (A = << >> => m[Tl("allocated")] = Invalid)
      /\ (A # << >> => m[Tl("allocated")] = A[Len(A)])
      /\ Range(A) \subseteq Places
  BY RestoredFacts
<1>3. s \in Safe(R)
  BY RestoredSafe
<1>4. CASE ~(F # << >> /\ A # << >> /\ F[1] = A[Len(A)])
  <2>1. RecoverMove(m) = << >>
    BY <1>2, <1>4 DEF RecoverMove
  <2>2. Reach(s, RecoverMove(m), s, Safe(R))
    BY <1>3, <2>1, ReachNone
  <2> QED
    BY <1>4, <2>2
<1>5. CASE F # << >> /\ A # << >> /\ F[1] = A[Len(A)]
  <2>1. /\ E \in Chains /\ Len(E) = Len(F) - 1 /\ Range(E) = Range(F) \ {r} /\ r \in Range(F)
        /\ \A i \in 1 .. Len(F) - 1 : E[i] = F[i + 1]
    <3>1. Len(F) \in Nat /\ Len(F) # 0 /\ 1 \in 1 .. Len(F)
      BY <1>5, ChainFacts
    <3>2. r \in Range(F)
      BY <3>1, ChainFacts
    <3> QED
      BY <1>5, <3>2, TailFacts
  <2>2. Len(A) \in 1 .. Len(A) /\ r \in Range(A) /\ A[Len(A)] = r
    <3>1. Len(A) \in Nat /\ Len(A) # 0 /\ Len(A) \in 1 .. Len(A)
      BY <1>5, ChainFacts
    <3> QED
      BY <1>5, <3>1, ChainFacts
  <2>3. RecoverMove(m) = RemoveHead(m, "free")
    BY <1>2, <1>5 DEF RecoverMove
  <2>4. PICK K : K = TightSet("free", F) \union TightSet("free", E)
    OBVIOUS
  <2>5. PICK t \in Within(s, "free", K) :
          /\ Reach(s, RemoveHead(m, "free"), t, Within(s, "free", K))
          /\ Held(t, "free", E) /\ t.medium = Settled(t.cache)
    BY <1>1, <1>2, <1>5, <2>4, RemoveHeadEffect
  <2>6. Range(A) \intersect Range(E) = {} /\ Range(A) \union Range(E) = Range(A) \union Range(F)
    <3>1. Range(A) \intersect Range(F) = {r}
      BY <2>1, <2>2 DEF Pending, Shared
    <3> QED
      BY <2>1, <2>2, <3>1
  <2> HIDE DEF E, r, m
  \* With the region in both lists or in the allocated list only.
  <2>7. ASSUME NEW c, c[RecoveryFreeOffset] = m[RecoveryFreeOffset]
        PROVE  Pending(c, A, F, G) /\ Pending(c, A, E, G)
    <3>1. Pending(c, A, F, G)
      BY <2>7 DEF Pending, m
    <3>2. CASE c[RecoveryFreeOffset] = Invalid
      <4>1. <<A, Range(F) \ Range(A)>> \in G
        BY <3>1, <3>2 DEF Pending
      <4>2. Range(E) \ Range(A) = Range(F) \ Range(A)
        BY <2>1, <2>2
      <4>3. <<A, Range(E) \ Range(A)>> \in G
        BY <4>1, <4>2
      <4> QED
        BY <2>6, <3>1, <3>2, <4>3 DEF Pending
    <3>3. CASE c[RecoveryFreeOffset] # Invalid
      <4>1. PICK x : x = c[RecoveryFreeOffset]
        OBVIOUS
      <4>2. x = r
        BY <2>1, <2>2, <3>1, <3>3, <4>1 DEF Pending
      <4>3. r \notin Range(E) /\ Range(E) \union {r} = Range(F) \union {r}
        BY <2>1
      <4>4. PICK i \in 1 .. Len(A) : A[i] = r /\ <<RemoveAt(A, i), Range(F) \union {r}>> \in G
        BY <2>2, <3>1, <3>3, <4>1, <4>2 DEF Pending
      <4> QED
        BY <2>6, <3>1, <3>3, <4>1, <4>2, <4>3, <4>4 DEF Pending
    <3> QED
      BY <3>1, <3>2, <3>3
  <2>8. Within(s, "free", K) \subseteq Safe(R)
    <3>1. ASSUME NEW d \in Images(s.medium), NEW c \in Memories, c \in K,
                 \A w \in Words \ ListWords("free") : c[w] = d[w]
          PROVE  c \in R
      <4>1. /\ \A w \in HeaderWords : d[w] = m[w]
            /\ \A q \in Range(A) : d[Data(q)] = m[Data(q)]
            /\ \/ Tight(d, "allocated", A)
               \/ Stale(d, "allocated", A) /\ d[RecoveryFreeOffset] \in {Invalid, A[Len(A)]}
        BY <3>1, RestoredImages DEF m
      <4>2. /\ \A w \in HeaderWords : c[w] = m[w]
            /\ \A q \in Range(A) : c[Data(q)] = m[Data(q)]
            /\ c[RecoveryFreeOffset] = d[RecoveryFreeOffset]
        <5>1. \A w \in HeaderWords : c[w] = m[w]
          BY <1>1, <3>1, <4>1, HeaderApart
        <5>2. \A q \in Range(A) : c[Data(q)] = m[Data(q)]
          BY <1>1, <1>2, <3>1, <4>1, HeaderWordFacts, ListWordsApart
        <5> QED
          BY <4>1, <5>1, <5>2 DEF HeaderWords
      <4>3. \A w \in ListWords("allocated") : c[w] = d[w]
        BY <3>1, ListWordsApart DEF ListWords
      <4>4. \/ Tight(c, "allocated", A)
            \/ Stale(c, "allocated", A) /\ c[RecoveryFreeOffset] \in {Invalid, A[Len(A)]}
        BY <1>1, <4>1, <4>2, <4>3, SameList
      <4>5. Pending(c, A, F, G) /\ Pending(c, A, E, G)
        BY <2>7, <4>2 DEF HeaderWords
      <4>6. PICK y : Ready(y, A, F, u) /\ y.cache = m
        BY RestoredFacts DEF m
      <4>7. CASE Tight(c, "free", F)
        <5>1. Shape(c, A, F)
          BY <4>4, <4>7 DEF Shape
        <5> QED
          BY <3>1, <4>2, <4>5, <4>6, <5>1, ReadyImage
      <4>8. CASE Tight(c, "free", E)
        <5>1. Shape(c, A, E)
          BY <4>4, <4>8 DEF Shape
        <5>2. Range(A) \subseteq Range(A) /\ \A w \in HeaderWords \ {RecoveryFreeOffset} : c[w] = y.cache[w]
          BY <4>2, <4>6
        <5>3. \A q \in Range(A) : c[Data(q)] = y.cache[Data(q)]
          BY <4>2, <4>6
        <5>4. c \in Recoverable(G, u)
          BY <2>1, <2>6, <3>1, <4>5, <4>6, <5>1, <5>2, <5>3, ReadyImage
        <5> QED
          BY <5>4 DEF R
      <4> QED
        BY <2>4, <3>1, <4>7, <4>8 DEF TightSet
    <3> HIDE DEF R
    <3> QED
      BY <1>1, <1>2, <3>1, SafeWithin
  <2>9. Reach(s, RecoverMove(m), t, Safe(R))
    BY <2>3, <2>5, <2>8, ReachWider
  <2>10. /\ t \in States
         /\ \A w \in Words \ ListWords("free") : t.cache[w] = m[w]
         /\ \A w \in Words : t.medium[w] = {t.cache[w]}
    BY <2>5 DEF Within, Beside, m, Settled
  <2>11. Restored(t, A, E, u)
    <3>1. \A w \in HeaderWords : t.cache[w] = m[w]
      BY <1>1, <2>10, HeaderApart
    <3>2. \A q \in Range(A) : t.cache[Data(q)] = m[Data(q)]
      BY <1>1, <1>2, <2>10, HeaderWordFacts, ListWordsApart
    <3>3. Exact(t.cache, "allocated", A)
      <4>1. \A w \in ListWords("allocated") : t.cache[w] = m[w]
        BY <2>10, ListWordsApart DEF ListWords
      <4> QED
        BY <1>1, <4>1, SameList DEF Restored, m
    <3>4. IsInitialized(t.cache)
      BY <3>1, SameInitialized DEF Restored, m
    <3>5. SettledOn(t, "allocated")
      BY <2>10 DEF SettledOn, ListWords
    <3>6. t.cache[FreeOffset] = m[FreeOffset] /\ t.cache[PersistedTimestamp] = m[PersistedTimestamp]
      BY <3>1 DEF HeaderWords
    <3> QED
      BY <2>5, <2>6, <2>10, <3>2, <3>3, <3>4, <3>5, <3>6 DEF Restored, Held, m
  <2>12. Pending(t.cache, A, E, G)
    <3>1. t.cache[RecoveryFreeOffset] = m[RecoveryFreeOffset]
      BY <1>1, <2>10, HeaderWordFacts, ListWordsApart
    <3> QED
      BY <2>7, <3>1
  <2>13. E # << >> => E[1] # A[Len(A)]
    <3>1. SUFFICES ASSUME E # << >> PROVE E[1] \in Range(E)
      BY <2>1, <2>2
    <3>2. Len(E) \in Nat /\ Len(E) # 0 /\ 1 \in 1 .. Len(E)
      BY <2>1, <3>1, ChainFacts
    <3> QED
      BY <2>1, <3>2, ChainFacts
  <2> QED
    BY <2>1, <2>9, <2>11, <2>12, <2>13 DEF m
<1> QED
  BY <1>4, <1>5

LEMMA FreeEffect ==
  ASSUME NEW s, NEW A \in Chains, NEW F \in Chains, NEW u, Restored(s, A, F, u),
         NEW i \in 1 .. Len(A), Range(A) \intersect Range(F) = {},
         s.cache[RecoveryFreeOffset] \in {Invalid, A[i]},
         SettledOn(s, "allocated") \/ s.cache[RecoveryFreeOffset] = A[i],
         NEW G, <<RemoveAt(A, i), Range(F) \union {A[i]}>> \in G,
         s.cache[RecoveryFreeOffset] = Invalid => <<A, Range(F)>> \in G
  PROVE  \E t \in Ends(G, u) : Reach(s, FreeSteps(s.cache, A[i]), t, Safe(Recoverable(G, u)))
<1> DEFINE r == A[i]
           R == Recoverable(G, u)
           E == WithHead(r, F)
           m == s.cache
<1>1. "allocated" \in Lists /\ "free" \in Lists
  BY DEF Lists
<1>0. PICK y : Ready(y, A, F, u) /\ y.cache = m
  BY RestoredFacts
<1>2. /\ s \in States /\ m \in Memories
      /\ Held(s, "free", F) /\ Range(A) \subseteq Places
      /\ Exact(m, "free", F) /\ Exact(m, "allocated", A)
  BY RestoredFacts DEF Restored
<1>3. r # Invalid /\ r \in Range(A) /\ r \in Regions \ Range(F) /\ r \in Links
  <2>1. A[i] \in Range(A) /\ Range(A) \subseteq Regions
    BY ChainFacts
  <2> QED
    BY <2>1, PlaceFacts
<1>4. E \in Chains /\ E # << >> /\ E[1] = r /\ Range(E) = Range(F) \union {r}
  BY <1>3, ConsFacts
<1>5. /\ RecoveryFreeOffset \in Words /\ Holds(RecoveryFreeOffset) = Links
      /\ \A l \in Lists : RecoveryFreeOffset \notin ListWords(l)
      /\ \A q \in Places : Data(q) # RecoveryFreeOffset /\ Data(q) \in Words
      /\ RecoveryFreeOffset \in HeaderWords
  BY HeaderWordFacts, HeaderWordsApart, ListWordsApart, PlaceFacts DEF HeaderWords
<1> HIDE DEF r, E, m
\* The region to free is noted or not yet.
<1>6a. ASSUME NEW c, c[RecoveryFreeOffset] \in {m[RecoveryFreeOffset], r}
       PROVE  Pending(c, A, F, G)
  <2>1. Range(F) \ Range(A) = Range(F)
    OBVIOUS
  <2>2. CASE c[RecoveryFreeOffset] = r
    BY <1>3, <2>2 DEF Pending, r
  <2>3. CASE c[RecoveryFreeOffset] # r
    <3>1. c[RecoveryFreeOffset] = Invalid /\ s.cache[RecoveryFreeOffset] = Invalid
      BY <1>6a, <2>3 DEF m, r
    <3> QED
      BY <2>1, <3>1 DEF Pending
  <2> QED
    BY <2>2, <2>3
<1>6. ASSUME NEW c \in Memories, c[RecoveryFreeOffset] \in {m[RecoveryFreeOffset], r},
             \A w \in Words \ {RecoveryFreeOffset} : c[w] = m[w]
      PROVE  c \in R
  <2>1. \A w \in HeaderWords \ {RecoveryFreeOffset} : c[w] = y.cache[w]
    BY <1>0, <1>6, HeaderApart
  <2>2. \A q \in Range(A) : c[Data(q)] = y.cache[Data(q)]
    BY <1>0, <1>2, <1>5, <1>6
  <2>3. \A l \in Lists : \A w \in ListWords(l) : c[w] = m[w]
    BY <1>5, <1>6 DEF ListWords
  <2>4. Tight(c, "allocated", A) /\ Tight(c, "free", F)
    BY <1>1, <1>2, <2>3, SameList
  <2>5. Shape(c, A, F)
    BY <2>4 DEF Shape
  <2>7. Pending(c, A, F, G)
    BY <1>6, <1>6a
  <2> QED
    BY <1>0, <2>1, <2>2, <2>5, <2>7, ReadyImage
<1>7. s \in Safe(R)
  <2>1. Pending(s.cache, A, F, G)
    BY <1>6a DEF m
  <2> QED
    BY <2>1, RestoredSafe
<1>8. PICK p \in Safe(R) :
        /\ Reach(s, Persist(RecoveryFreeOffset, r), p, Safe(R))
        /\ p.medium = Settled(p.cache) /\ p.cache[RecoveryFreeOffset] = r
        /\ \A w \in Words \ {RecoveryFreeOffset} : p.cache[w] = m[w]
  <2>1. CASE SettledOn(s, "allocated")
    <3>1. \A c \in Memories :
            c[RecoveryFreeOffset] = r /\ (\A w \in Words \ {RecoveryFreeOffset} : c[w] = s.cache[w]) => c \in R
      BY <1>6 DEF m
    <3>2. s.medium = Settled(s.cache)
      BY <2>1, RestoredFacts DEF Ready
    <3> HIDE DEF R
    <3> QED
      BY <1>3, <1>5, <1>7, <3>1, <3>2, SafePersist DEF m
  <2>2. CASE m[RecoveryFreeOffset] = r
    <3>1. s.medium[RecoveryFreeOffset] = {r}
      BY <1>1, <1>5, <2>2 DEF Restored, m
    <3>2. PICK z : z = Put(s, RecoveryFreeOffset, r)
      OBVIOUS
    <3>3. /\ z \in States /\ z.cache[RecoveryFreeOffset] = r
          /\ \A w \in Words \ {RecoveryFreeOffset} : z.cache[w] = m[w]
          /\ \A w \in Words : z.medium[w] = s.medium[w]
      <4>1. r \in Holds(RecoveryFreeOffset)
        BY <1>3, <1>5
      <4>2. /\ z \in States /\ z.cache[RecoveryFreeOffset] = r
            /\ \A w \in Words \ {RecoveryFreeOffset} : z.cache[w] = s.cache[w]
            /\ z.medium[RecoveryFreeOffset] = s.medium[RecoveryFreeOffset] \union {r}
            /\ \A w \in Words \ {RecoveryFreeOffset} : z.medium[w] = s.medium[w]
        BY <1>2, <1>5, <3>2, <4>1, PutFacts
      <4> QED
        BY <3>1, <4>2 DEF m
    <3>4. Images(z.medium) = Images(s.medium)
      BY <3>3 DEF Images
    <3>5. z \in Safe(R) /\ Safe(R) \subseteq States
      BY <1>7, <3>3, <3>4 DEF Safe
    <3>6. PICK p : p = Flushed(z)
      OBVIOUS
    <3>7. /\ p \in States /\ p.cache = z.cache /\ p.medium = Settled(p.cache)
          /\ Images(p.medium) \subseteq Images(z.medium)
      BY <3>3, <3>6, FlushedFacts
    <3>8. p \in Safe(R)
      BY <3>5, <3>7 DEF Safe
    <3>9. Reach(s, Persist(RecoveryFreeOffset, r), p, Safe(R))
      BY <1>3, <1>5, <1>7, <3>2, <3>5, <3>6, <3>8, ReachPersist
    <3> QED
      BY <3>3, <3>7, <3>8, <3>9
  <2> QED
    BY <2>1, <2>2 DEF m, r
<1>9. p \in States /\ p.cache \in Memories /\ \A c \in Images(p.medium) : c = p.cache
  BY <1>8, StateFacts, SettledImage DEF Safe
<1>10. \A l \in Lists : \A w \in ListWords(l) : p.cache[w] = m[w]
  BY <1>5, <1>8 DEF ListWords
<1>11. Held(p, "free", F) /\ Exact(p.cache, "allocated", A)
  <2>1. Exact(p.cache, "free", F) /\ Exact(p.cache, "allocated", A)
    BY <1>1, <1>2, <1>10, SameList
  <2> QED
    BY <1>8, <2>1 DEF Held, SettledOn, Settled, ListWords
<1>12. PICK K : K = TightSet("free", F) \union TightSet("free", E)
  OBVIOUS
<1>13. PICK x \in Within(p, "free", K) :
         /\ Reach(p, InsertHead(p.cache, "free", r), x, Within(p, "free", K))
         /\ Held(x, "free", E) /\ x.medium = Settled(x.cache)
  BY <1>1, <1>3, <1>9, <1>11, <1>12, InsertHeadEffect DEF E
<1>14. Within(p, "free", K) \subseteq Safe(R)
  <2>1. ASSUME NEW d \in Images(p.medium), NEW c \in Memories, c \in K,
               \A w \in Words \ ListWords("free") : c[w] = d[w]
        PROVE  c \in R
    <3>1. \A w \in Words \ ListWords("free") : c[w] = p.cache[w]
      BY <1>9, <2>1
    <3>2. \A w \in HeaderWords \ {RecoveryFreeOffset} : c[w] = y.cache[w]
      BY <1>1, <1>0, <1>8, <3>1, HeaderApart
    <3>3. \A q \in Range(A) : c[Data(q)] = y.cache[Data(q)]
      BY <1>1, <1>2, <1>5, <1>0, <1>8, <3>1, ListWordsApart
    <3>4. Tight(c, "allocated", A)
      <4>1. \A w \in ListWords("allocated") : c[w] = p.cache[w]
        BY <3>1, ListWordsApart DEF ListWords
      <4> QED
        BY <1>1, <1>11, <4>1, SameList
    <3>5. c[RecoveryFreeOffset] = r
      BY <1>1, <1>5, <1>8, <3>1
    <3>6. CASE Tight(c, "free", F)
      <4>1. Shape(c, A, F)
        BY <3>4, <3>6 DEF Shape
      <4>2. Pending(c, A, F, G)
        BY <1>3, <3>5 DEF Pending, r
      <4> QED
        BY <1>0, <3>2, <3>3, <4>1, <4>2, ReadyImage
    <3>7. CASE Tight(c, "free", E)
      <4>1. Shape(c, A, E)
        BY <3>4, <3>7 DEF Shape
      <4>2. Range(A) \intersect Range(E) \subseteq {r} /\ Range(E) \union {r} = Range(F) \union {r}
        BY <1>4
      <4>3. Pending(c, A, E, G)
        BY <1>3, <1>4, <3>5, <4>2 DEF Pending, r
      <4>4. Range(A) \union Range(E) = Range(A) \union Range(F)
        BY <1>3, <1>4
      <4> QED
        BY <1>0, <1>4, <3>2, <3>3, <4>1, <4>3, <4>4, ReadyImage
    <3> QED
      BY <1>12, <2>1, <3>6, <3>7 DEF TightSet
  <2> HIDE DEF R
  <2> QED
    BY <1>1, <1>9, <2>1, SafeWithin
<1>15. /\ x \in States /\ x.cache \in Memories
       /\ \A w \in Words \ ListWords("free") : x.cache[w] = p.cache[w]
  BY <1>13, StateFacts DEF Within, Beside
<1>16. Ready(x, A, E, u) /\ x.cache[RecoveryFreeOffset] = r
  <2>1. \A w \in HeaderWords \ {RecoveryFreeOffset} : x.cache[w] = y.cache[w]
    BY <1>0, <1>1, <1>8, <1>15, HeaderApart
  <2>2. \A q \in Range(A) : x.cache[Data(q)] = y.cache[Data(q)]
    BY <1>1, <1>2, <1>5, <1>8, <1>0, <1>15, ListWordsApart
  <2>3. Exact(x.cache, "allocated", A)
    <3>1. \A w \in ListWords("allocated") : x.cache[w] = p.cache[w]
      BY <1>15, ListWordsApart DEF ListWords
    <3> QED
      BY <1>1, <1>11, <3>1, SameList
  <2>4. Exact(x.cache, "free", E)
    BY <1>13 DEF Held
  <2>5. IsInitialized(x.cache)
    <3>1. \A w \in Signature \union {Size("stream"), Size("block")} : w \in HeaderWords \ {RecoveryFreeOffset}
      BY HeaderWordsApart DEF HeaderWords
    <3> QED
      BY <1>0, <2>1, <3>1 DEF IsInitialized, Ready
  <2>6. x.cache[PersistedTimestamp] = 0 /\ x.cache[FreeOffset] = y.cache[FreeOffset]
    <3>1. PersistedTimestamp \in HeaderWords \ {RecoveryFreeOffset} /\ FreeOffset \in HeaderWords \ {RecoveryFreeOffset}
      BY HeaderWordsApart DEF HeaderWords
    <3> QED
      BY <1>0, <2>1, <3>1 DEF Ready
  <2>7. \A q \in Range(A) \ u : x.cache[Data(q)] = 0
    BY <1>0, <2>2 DEF Ready
  <2>8. Range(A) \union Range(E) = 0 .. x.cache[FreeOffset] - 1
    <3>1. Range(A) \union Range(E) = Range(A) \union Range(F)
      BY <1>3, <1>4
    <3> QED
      BY <1>0, <2>6, <3>1 DEF Ready
  <2>9. x.cache[RecoveryFreeOffset] = r
    BY <1>1, <1>5, <1>8, <1>15
  <2> QED
    BY <1>13, <1>15, <2>3, <2>4, <2>5, <2>6, <2>7, <2>8, <2>9 DEF Ready
<1>17. PICK t, z :
         /\ t \in Ends(G, u)
         /\ Reach(x, RemoveRegion(x.cache, "allocated", r), z, Safe(R))
         /\ Reach(z, Persist(RecoveryFreeOffset, Invalid), t, Safe(R))
  <2>1. Range(A) \intersect Range(E) = {A[i]} /\ E[1] = A[i] /\ x.cache[RecoveryFreeOffset] = A[i]
    BY <1>3, <1>4, <1>16 DEF r
  <2>2. <<RemoveAt(A, i), Range(E)>> \in G
    BY <1>4 DEF r
  <2>3. \E t \in Ends(G, u) : \E z :
           /\ Reach(x, RemoveRegion(x.cache, "allocated", A[i]), z, Safe(Recoverable(G, u)))
           /\ Reach(z, Persist(RecoveryFreeOffset, Invalid), t, Safe(Recoverable(G, u)))
    BY <1>4, <1>16, <2>1, <2>2, ReleaseEffect
  <2> QED
    BY <2>3 DEF r
<1>18. InsertHead(p.cache, "free", r) = InsertHead(m, "free", r)
  BY <1>1, <1>2, <1>9, <1>10, SameCalls
<1> HIDE DEF R
<1>19. Reach(s, Persist(RecoveryFreeOffset, r) \o InsertHead(m, "free", r), x, Safe(R))
  <2>1. Reach(p, InsertHead(m, "free", r), x, Safe(R))
    BY <1>13, <1>14, <1>18, ReachWider
  <2> QED
    BY <1>8, <2>1, ReachThen
<1>20. Result(m, Persist(RecoveryFreeOffset, r) \o InsertHead(m, "free", r)) = x.cache
  BY <1>19, ReachResult DEF m
<1>21. FreeSteps(m, r) =
         ((Persist(RecoveryFreeOffset, r) \o InsertHead(m, "free", r)) \o RemoveRegion(x.cache, "allocated", r))
           \o Persist(RecoveryFreeOffset, Invalid)
  BY <1>20 DEF FreeSteps, Then, Result
<1>22. Reach(s, (Persist(RecoveryFreeOffset, r) \o InsertHead(m, "free", r)) \o RemoveRegion(x.cache, "allocated", r),
             z, Safe(R))
  BY <1>17, <1>19, ReachThen
<1>23. Reach(s, FreeSteps(m, r), t, Safe(R))
  BY <1>17, <1>21, <1>22, ReachThen
<1> QED
  BY <1>17, <1>23 DEF m, r, R

LEMMA GoodRestored ==
  ASSUME NEW s, NEW A \in Chains, NEW F \in Chains, NEW u, Good(s, A, F, u)
  PROVE  Restored(s, A, F, u) /\ SettledOn(s, "allocated")
<1>1. \A w \in Words : s.medium[w] = {s.cache[w]}
  BY DEF Good, Settled
<1>2. SettledOn(s, "allocated")
  BY <1>1 DEF SettledOn, ListWords
<1> QED
  BY <1>1, <1>2 DEF Good, Restored

\* Recovery found out what became of every region.
Sorted(t, A, F, G, u) ==
  /\ Restored(t, A, F, u) /\ t.cache[RecoveryFreeOffset] = Invalid
  /\ Range(A) \intersect Range(F) = {} /\ <<A, Range(F)>> \in G

LEMMA EndsSorted ==
  ASSUME NEW G, NEW u, NEW t \in Ends(G, u)
  PROVE  \E A, F \in Chains : Sorted(t, A, F, G, u)
<1>1. PICK A \in Chains, F \in Chains : Good(t, A, F, u) /\ <<A, Range(F)>> \in G
  BY DEF Ends
<1>2. Restored(t, A, F, u)
  BY <1>1, GoodRestored
<1>3. t.cache[RecoveryFreeOffset] = Invalid /\ Range(A) \intersect Range(F) = {}
  BY <1>1 DEF Good
<1> QED
  BY <1>1, <1>2, <1>3 DEF Sorted

LEMMA ForgetEffect ==
  ASSUME NEW s, NEW A \in Chains, NEW F \in Chains, NEW u, Ready(s, A, F, u),
         NEW r \in Regions \ Range(A), s.cache[RecoveryFreeOffset] = r, F # << >>, F[1] = r,
         Range(A) \intersect Range(F) = {}, NEW G, <<A, Range(F)>> \in G
  PROVE  \E t \in Ends(G, u) :
           Reach(s, RemoveRegion(s.cache, "allocated", r) \o Persist(RecoveryFreeOffset, Invalid), t,
                 Safe(Recoverable(G, u)))
<1> DEFINE R == Recoverable(G, u)
           m == s.cache
<1>1. "allocated" \in Lists /\ "free" \in Lists
  BY DEF Lists
<1>2. /\ s \in States /\ s.medium = Settled(m) /\ m \in Memories
      /\ \A c \in Images(s.medium) : c = m
      /\ Exact(m, "free", F) /\ Exact(m, "allocated", A) /\ Range(A) \subseteq Places
  BY ReadyFacts DEF Ready
<1>3. Invalid \in Links /\ r # Invalid /\ Range(F) \ Range(A) = Range(F) /\ r \in Range(F)
  <2>1. 1 \in 1 .. Len(F)
    <3>1. Len(F) \in Nat /\ Len(F) # 0
      BY ChainFacts
    <3> QED
      BY <3>1
  <2>2. r \in Range(F)
    BY <2>1, ChainFacts
  <2> QED
    BY <2>2, PlaceFacts
<1>4. /\ RecoveryFreeOffset \in Words /\ Holds(RecoveryFreeOffset) = Links
      /\ \A l \in Lists : RecoveryFreeOffset \notin ListWords(l)
      /\ \A q \in Places : Data(q) # RecoveryFreeOffset /\ Data(q) \in Words
  BY HeaderWordFacts, HeaderWordsApart, ListWordsApart
<1> HIDE DEF m, R
<1>5. ASSUME NEW c \in Memories, c[RecoveryFreeOffset] \in {r, Invalid},
             \A w \in Words \ {RecoveryFreeOffset} : c[w] = m[w]
      PROVE  /\ \A w \in HeaderWords \ {RecoveryFreeOffset} : c[w] = m[w]
             /\ \A q \in Range(A) : c[Data(q)] = m[Data(q)]
             /\ Exact(c, "allocated", A) /\ Exact(c, "free", F)
             /\ c \in R
  <2>1. \A w \in HeaderWords \ {RecoveryFreeOffset} : c[w] = m[w]
    BY <1>5, HeaderApart
  <2>2. \A q \in Range(A) : c[Data(q)] = m[Data(q)]
    BY <1>2, <1>4, <1>5
  <2>3. \A l \in Lists : \A w \in ListWords(l) : c[w] = m[w]
    BY <1>4, <1>5 DEF ListWords
  <2>4. /\ Exact(c, "allocated", A) /\ Exact(c, "free", F)
        /\ Tight(c, "allocated", A) /\ Tight(c, "free", F)
    BY <1>1, <1>2, <2>3, SameList
  <2>5. Shape(c, A, F)
    BY <2>4 DEF Shape
  <2>6. Pending(c, A, F, G)
    BY <1>3, <1>5 DEF Pending
  <2>7. c \in R
    BY <2>1, <2>2, <2>5, <2>6, ReadyImage DEF m, R
  <2> QED
    BY <2>1, <2>2, <2>4, <2>7
<1>6. s \in Safe(R)
  BY <1>2, <1>5 DEF Safe, m
<1>7. PICK t \in Safe(R) :
        /\ Reach(s, Persist(RecoveryFreeOffset, Invalid), t, Safe(R))
        /\ t.medium = Settled(t.cache) /\ t.cache[RecoveryFreeOffset] = Invalid
        /\ \A w \in Words \ {RecoveryFreeOffset} : t.cache[w] = m[w]
  <2>1. \A c \in Memories :
          c[RecoveryFreeOffset] = Invalid /\ (\A w \in Words \ {RecoveryFreeOffset} : c[w] = s.cache[w]) => c \in R
    BY <1>5 DEF m
  <2> QED
    BY <1>2, <1>3, <1>4, <1>6, <2>1, SafePersist DEF m
<1>8. Reach(s, RemoveRegion(m, "allocated", r), s, Safe(R))
  <2>1. Safe(R) \subseteq States
    BY DEF Safe
  <2> QED
    BY <1>1, <1>2, <1>6, <2>1, RemoveNothing DEF m
<1>9. Reach(s, RemoveRegion(m, "allocated", r) \o Persist(RecoveryFreeOffset, Invalid), t, Safe(R))
  BY <1>7, <1>8, ReachThen
<1>10. t \in States /\ t.cache \in Memories
  BY <1>7, StateFacts DEF Safe
<1>11. /\ \A w \in HeaderWords \ {RecoveryFreeOffset} : t.cache[w] = m[w]
       /\ \A q \in Range(A) : t.cache[Data(q)] = m[Data(q)]
       /\ Exact(t.cache, "allocated", A) /\ Exact(t.cache, "free", F)
  BY <1>5, <1>7, <1>10
<1>12. Good(t, A, F, u)
  <2>1. IsInitialized(t.cache)
    <3>1. \A w \in Signature \union {Size("stream"), Size("block")} : w \in HeaderWords \ {RecoveryFreeOffset}
      BY HeaderWordsApart DEF HeaderWords
    <3> QED
      BY <1>11, <3>1 DEF IsInitialized, Ready, m
  <2>2. t.cache[PersistedTimestamp] = m[PersistedTimestamp] /\ t.cache[FreeOffset] = m[FreeOffset]
    <3>1. PersistedTimestamp \in HeaderWords \ {RecoveryFreeOffset} /\ FreeOffset \in HeaderWords \ {RecoveryFreeOffset}
      BY HeaderWordsApart DEF HeaderWords
    <3> QED
      BY <1>11, <3>1
  <2> QED
    BY <1>7, <1>10, <1>11, <2>1, <2>2 DEF Good, Ready, m
<1> QED
  BY <1>9, <1>10, <1>12 DEF Ends, m, R

LEMMA RecoverFreeEffect ==
  ASSUME NEW s, NEW A \in Chains, NEW F \in Chains, NEW u, Restored(s, A, F, u),
         NEW G, Pending(s.cache, A, F, G), A # << >> /\ F # << >> => F[1] # A[Len(A)]
  PROVE  \E t : \E B, E \in Chains :
           Reach(s, RecoverFree(s.cache), t, Safe(Recoverable(G, u))) /\ Sorted(t, B, E, G, u)
<1> DEFINE m == s.cache
           R == Recoverable(G, u)
           r == m[RecoveryFreeOffset]
<1>1. /\ s \in States /\ m \in Memories
      /\ (m[Hd("free")] = Invalid <=> F = << >>) /\ (F # << >> => m[Hd("free")] = F[1])
      /\ SettledOn(s, "allocated") => Ready(s, A, F, u)
  BY RestoredFacts
<1>2. s \in Safe(R)
  BY RestoredSafe
<1>3. r \in Links
  BY <1>1, HeaderWordFacts DEF Memories
<1>4. A # << >> => Len(A) \in 1 .. Len(A) /\ A[Len(A)] \in Range(A)
  <2>1. A # << >> => Len(A) \in Nat /\ Len(A) # 0 /\ Len(A) \in 1 .. Len(A)
    BY ChainFacts
  <2> QED
    BY <2>1, ChainFacts
<1>5. \A i \in 1 .. Len(A) : A # << >> /\ A[i] \in Range(A)
  BY ChainFacts
<1>6. F # << >> => F[1] \in Range(F)
  <2>1. F # << >> => Len(F) \in Nat /\ Len(F) # 0 /\ 1 \in 1 .. Len(F)
    BY ChainFacts
  <2> QED
    BY <2>1, ChainFacts
<1>7. SettledOn(s, "allocated") \/ (A # << >> /\ r = A[Len(A)]) \/ r = Invalid
  BY DEF Restored
<1> HIDE DEF m, r, R
<1>8. CASE r = Invalid
  <2>1. RecoverFree(m) = << >>
    BY <1>8 DEF RecoverFree, r
  <2>2. Reach(s, RecoverFree(m), s, Safe(R))
    BY <1>2, <2>1, ReachNone
  <2>3. Range(A) \intersect Range(F) = {}
    BY <1>8, <1>6 DEF Pending, Shared, r, m
  <2>4. Range(F) \ Range(A) = Range(F)
    BY <2>3
  <2>5. <<A, Range(F)>> \in G
    BY <1>8, <2>4 DEF Pending, r, m
  <2> QED
    BY <1>8, <2>2, <2>3, <2>5 DEF Sorted, r, m, R
<1>9. CASE r # Invalid /\ m[Hd("free")] # r
  <2>1. r \notin Range(F)
    <3>1. F = << >> => Range(F) = {}
      BY ChainFacts
    <3>2. r \in Range(F) => F[1] = r
      BY <1>9 DEF Pending, r, m
    <3> QED
      BY <1>1, <1>9, <3>1, <3>2
  <2>2. PICK i \in 1 .. Len(A) : A[i] = r /\ <<RemoveAt(A, i), Range(F) \union {r}>> \in G
    BY <1>9, <2>1 DEF Pending, r, m
  <2>3. Range(A) \intersect Range(F) = {}
    BY <1>9, <2>1 DEF Pending, r, m
  <2>4. RecoverFree(m) = FreeSteps(m, r)
    BY <1>9 DEF RecoverFree, r
  <2>5. PICK t \in Ends(G, u) : Reach(s, FreeSteps(s.cache, A[i]), t, Safe(Recoverable(G, u)))
    <3>1. s.cache[RecoveryFreeOffset] = A[i] /\ A[i] # Invalid
      BY <1>9, <2>2 DEF r, m
    <3> QED
      BY <2>2, <2>3, <3>1, FreeEffect
  <2> QED
    BY <2>2, <2>4, <2>5, EndsSorted DEF m, R
<1>10. CASE r # Invalid /\ m[Hd("free")] = r
  <2>1. F # << >> /\ F[1] = r /\ r \in Regions
    BY <1>1, <1>3, <1>10 DEF Links
  <2>2. r \in Range(F)
    BY <1>6, <2>1
  <2>3. RecoverFree(m) = RemoveRegion(m, "allocated", r) \o Persist(RecoveryFreeOffset, Invalid)
    BY <1>10 DEF RecoverFree, r
  <2>4. SettledOn(s, "allocated") /\ Ready(s, A, F, u)
    BY <1>1, <1>7, <1>10, <2>1
  <2>5. Range(A) \intersect Range(F) \subseteq {r}
    BY <1>10 DEF Pending, r, m
  <2>6. CASE r \in Range(A)
    <3>1. PICK i \in 1 .. Len(A) : A[i] = r /\ <<RemoveAt(A, i), Range(F) \union {r}>> \in G
      BY <1>10, <2>6 DEF Pending, r, m
    <3>2. Range(A) \intersect Range(F) = {A[i]} /\ Range(F) \union {r} = Range(F)
      BY <2>2, <2>5, <2>6, <3>1
    <3>3. <<RemoveAt(A, i), Range(F)>> \in G /\ F[1] = A[i] /\ s.cache[RecoveryFreeOffset] = A[i]
      BY <2>1, <3>1, <3>2 DEF r, m
    <3>4. PICK t, x :
            /\ t \in Ends(G, u)
            /\ Reach(s, RemoveRegion(s.cache, "allocated", A[i]), x, Safe(Recoverable(G, u)))
            /\ Reach(x, Persist(RecoveryFreeOffset, Invalid), t, Safe(Recoverable(G, u)))
      BY <2>1, <2>4, <3>2, <3>3, ReleaseEffect
    <3>5. Reach(s, RecoverFree(m), t, Safe(R))
      BY <2>3, <3>1, <3>4, ReachThen DEF m, R
    <3> QED
      BY <3>4, <3>5, EndsSorted DEF m, R
  <2>7. CASE r \notin Range(A)
    <3>1. Range(A) \intersect Range(F) = {}
      BY <2>5, <2>7
    <3>2. <<A, Range(F)>> \in G
      <4>1. ~\E i \in 1 .. Len(A) : A[i] = r
        BY <1>5, <2>7
      <4> QED
        BY <1>10, <4>1 DEF Pending, r, m
    <3>3. PICK t \in Ends(G, u) :
            Reach(s, RemoveRegion(s.cache, "allocated", r) \o Persist(RecoveryFreeOffset, Invalid), t,
                  Safe(Recoverable(G, u)))
      <4>1. s.cache[RecoveryFreeOffset] = r
        BY DEF r, m
      <4> QED
        BY <2>1, <2>4, <2>7, <3>1, <3>2, <4>1, ForgetEffect
    <3> QED
      BY <2>3, <3>3, EndsSorted DEF m, R
  <2> QED
    BY <2>6, <2>7
<1> QED
  BY <1>8, <1>9, <1>10

-----------------------------------------------------------------------------
(* Marking the regions                                                     *)

\* Recovery reads neither max_valid_timestamp nor anything else of a region but its data.
LEMMA SameRecoverable ==
  ASSUME NEW G, NEW u, NEW d \in Recoverable(G, u), NEW c \in Memories,
         \A l \in Lists : \A w \in ListWords(l) : c[w] = d[w],
         \A w \in HeaderWords : c[w] = d[w], \A q \in Regions : c[Data(q)] = d[Data(q)]
  PROVE  c \in Recoverable(G, u)
<1>1. "allocated" \in Lists /\ "free" \in Lists
  BY DEF Lists
<1>2. IsInitialized(c)
  BY SameInitialized DEF Recoverable
<1>3. CASE d[Hd("free")] = d[FreeOffset]
  <2>1. c[Hd("free")] = c[FreeOffset]
    BY <1>1, <1>3, ListWordFacts DEF HeaderWords
  <2> QED
    BY <1>2, <2>1 DEF Recoverable
<1>4. ASSUME NEW A \in Chains, NEW F \in Chains, Recover(d, A, F, G, u) PROVE c \in Recoverable(G, u)
  <2>1. Range(A) \subseteq Regions
    BY ChainFacts
  <2>2. Kept(c, A, F, G, u)
    BY <1>4, <2>1, SameKept DEF Recover, HeaderWords
  <2>3. c[RecoveryFreeOffset] = d[RecoveryFreeOffset]
    BY DEF HeaderWords
  <2>4. Shape(c, A, F)
    BY <1>1, <1>4, <2>3, SameList DEF Recover, Shape
  <2> QED
    BY <1>2, <2>2, <2>4 DEF Recoverable, Recover
<1> QED
  BY <1>3, <1>4 DEF Recoverable

\* x is s but for some marks.
Marking(s, x) ==
  /\ x \in States
  /\ \A w \in Words \ {MaxValid(r) : r \in Regions} :
       x.cache[w] = s.cache[w] /\ x.medium[w] = s.medium[w]
  /\ \A r \in Regions : x.cache[MaxValid(r)] \in {s.cache[MaxValid(r)], 0}

LEMMA MarksApart ==
  /\ \A l \in Lists : \A w \in ListWords(l) : w \in Words \ {MaxValid(r) : r \in Regions}
  /\ \A w \in HeaderWords : w \in Words \ {MaxValid(r) : r \in Regions}
  /\ \A q \in Regions : Data(q) \in Words \ {MaxValid(r) : r \in Regions}
  /\ \A r \in Regions : MaxValid(r) \in Words /\ Holds(MaxValid(r)) = 0 .. Invalid
<1>1. Regions \subseteq Places
  BY PlaceFacts
<1>2. \A l \in Lists : \A w \in ListWords(l) : w \in Words \ {MaxValid(r) : r \in Regions}
  BY <1>1, ListWordsApart DEF ListWords
<1>3. \A w \in HeaderWords : w \in Words \ {MaxValid(r) : r \in Regions}
  BY <1>1, HeaderApart
<1>4. \A q \in Regions : Data(q) \in Words \ {MaxValid(r) : r \in Regions}
  BY <1>1, HeaderWordFacts, HeaderWordsApart
<1> QED
  BY <1>1, <1>2, <1>3, <1>4, HeaderWordFacts

LEMMA MarkingSafe ==
  ASSUME NEW G, NEW u, NEW s \in Safe(Recoverable(G, u)), NEW x, Marking(s, x)
  PROVE  x \in Safe(Recoverable(G, u))
<1>1. s \in States /\ x \in States
  BY DEF Safe, Marking
<1>2. ASSUME NEW c \in Images(x.medium) PROVE c \in Recoverable(G, u)
  <2>1. c \in Memories /\ \A w \in Words : c[w] \in x.medium[w]
    BY <1>2 DEF Images
  <2>2. PICK d : d = [w \in Words |-> IF w \in {MaxValid(r) : r \in Regions} THEN s.cache[w] ELSE c[w]]
    OBVIOUS
  <2>3. \A w \in Words : d[w] \in s.medium[w] /\ d[w] \in Holds(w)
    BY <1>1, <2>1, <2>2, StateFacts DEF Marking, Memories
  <2>4. d \in Memories
    <3>1. \A w \in Words : d[w] \in 0 .. Invalid
      BY <1>1, <2>1, <2>2, StateFacts DEF Memories
    <3> QED
      BY <2>2, <2>3, <3>1 DEF Memories
  <2>5. d \in Recoverable(G, u)
    BY <2>3, <2>4 DEF Images, Safe
  <2>6. \A w \in Words \ {MaxValid(r) : r \in Regions} : c[w] = d[w]
    BY <2>2
  <2> QED
    BY <2>1, <2>5, <2>6, MarksApart, SameRecoverable
<1> QED
  BY <1>1, <1>2 DEF Safe

LEMMA MarkEffect ==
  ASSUME NEW s, NEW A \in Chains, NEW F \in Chains, NEW u, NEW G, Sorted(s, A, F, G, u)
  PROVE  \E t \in Ends(G, u) :
           /\ Reach(s, MarkRegions(s.cache), t, Safe(Recoverable(G, u)))
           /\ \A r \in Elements(t.cache, "allocated") : t.cache[MaxValid(r)] # Invalid
<1> DEFINE R == Recoverable(G, u)
           m == s.cache
<1>1. "allocated" \in Lists /\ "free" \in Lists
  BY DEF Lists
<1>2. Restored(s, A, F, u) /\ Range(A) \intersect Range(F) = {} /\ <<A, Range(F)>> \in G
  BY DEF Sorted
<1>3. s \in States /\ m \in Memories /\ Exact(m, "allocated", A) /\ Exact(m, "free", F)
  BY <1>2, RestoredFacts DEF Restored
<1>4. m[PersistedTimestamp] = 0 /\ 0 \in 0 .. Invalid /\ 0 # Invalid
  BY <1>2, PlaceFacts DEF Restored
<1>5. Listed(m, "allocated") = A
  BY <1>1, <1>3, ListedOf
<1>6. s \in Safe(R)
  <2>1. Range(F) \ Range(A) = Range(F)
    BY <1>2
  <2>2. Pending(s.cache, A, F, G)
    BY <1>2, <2>1 DEF Pending, Sorted
  <2> QED
    BY <1>2, <2>2, RestoredSafe
<1>7. /\ A \in Seq(Regions) /\ Len(A) \in Nat
      /\ \A i \in 1 .. Len(A) : A[i] \in Regions
      /\ Range(A) = {A[i] : i \in 1 .. Len(A)}
  BY ChainFacts
<1>8. PICK h : IsTrace("mark", m, << >>, A, h) /\ MarkSteps(m) = h[Len(A)]
  <2>1. Listed(m, "allocated") \in Seq(Regions)
    BY <1>5, <1>7
  <2>2. \E h : /\ IsTrace("mark", m, << >>, Listed(m, "allocated"), h)
               /\ MarkSteps(m) = h[Len(Listed(m, "allocated"))]
    BY <2>1, MarkTrace
  <2> QED
    BY <1>5, <2>2
<1> HIDE DEF m, R
<1>9. Safe(R) \subseteq States
  BY DEF Safe
<1> DEFINE P(k, x) == /\ Reach(s, h[k], x, Safe(R)) /\ Marking(s, x)
                      /\ \A i \in 1 .. k : x.cache[MaxValid(A[i])] # Invalid
           S == {k \in 0 .. Len(A) : \E x : P(k, x)}
<1>10. 0 \in S
  <2>1. h[0] = << >>
    BY <1>8 DEF IsTrace
  <2>2. Reach(s, h[0], s, Safe(R))
    BY <1>6, <2>1, ReachNone
  <2>3. Marking(s, s)
    BY <1>3 DEF Marking
  <2>4. P(0, s)
    BY <2>2, <2>3
  <2> QED
    BY <1>7, <2>4
<1>11. ASSUME NEW k \in S, k < Len(A) PROVE k + 1 \in S
  <2>1. k \in Nat /\ k + 1 \in 1 .. Len(A) /\ k + 1 \in 0 .. Len(A) /\ (k + 1) - 1 = k
    BY <1>7, <1>11
  <2>2. PICK x : P(k, x)
    BY <1>11
  <2>3. PICK r \in Regions : r = A[k + 1]
    BY <1>7, <2>1
  <2>4. h[k + 1] = MarkOne(m, h[k], r)
    BY <1>8, <2>1, <2>3 DEF IsTrace, Combine
  <2>5. MaxValid(r) \in Words /\ Holds(MaxValid(r)) = 0 .. Invalid
    BY MarksApart
  <2>6. CASE m[MaxValid(r)] # Invalid
    <3>1. h[k + 1] = h[k]
      BY <2>4, <2>6 DEF MarkOne
    <3>2. x.cache[MaxValid(A[k + 1])] # Invalid
      BY <1>4, <2>2, <2>3, <2>6 DEF Marking, m
    <3>3. \A i \in 1 .. k + 1 : i \in 1 .. k \/ i = k + 1
      BY <2>1
    <3>4. P(k + 1, x)
      BY <2>2, <3>1, <3>2, <3>3
    <3> QED
      BY <2>1, <3>4
  <2>7. CASE m[MaxValid(r)] = Invalid
    <3>1. PICK b : b = Store(MaxValid(r), 0)
      OBVIOUS
    <3>2. h[k] \in Seq(Accesses) /\ x \in Safe(R) /\ x \in States
      BY <1>9, <2>2, ReachEnds
    <3>3. h[k + 1] = Append(h[k], b)
      BY <1>4, <2>4, <2>7, <3>1 DEF MarkOne
    <3>4. b \in Accesses
      BY <1>4, <2>5, <3>1, <3>2, AccessStore
    <3>5. Append(h[k], b) = h[k] \o <<b>>
      BY <3>2, <3>4
    <3>6. PICK y : y = Put(x, MaxValid(r), 0)
      OBVIOUS
    <3>7. /\ y \in States /\ y.cache[MaxValid(r)] = 0
          /\ \A w \in Words \ {MaxValid(r)} : y.cache[w] = x.cache[w] /\ y.medium[w] = x.medium[w]
      <4>1. 0 \in Holds(MaxValid(r))
        BY <1>4, <2>5
      <4>2. /\ Put(x, MaxValid(r), 0) \in States /\ Put(x, MaxValid(r), 0).cache[MaxValid(r)] = 0
            /\ \A w \in Words \ {MaxValid(r)} : Put(x, MaxValid(r), 0).cache[w] = x.cache[w]
            /\ \A w \in Words \ {MaxValid(r)} : Put(x, MaxValid(r), 0).medium[w] = x.medium[w]
        <5>1. PICK w : w = MaxValid(r)
          OBVIOUS
        <5>2. w \in Words /\ 0 \in Holds(w)
          BY <2>5, <4>1, <5>1
        <5>3. /\ Put(x, w, 0) \in States /\ Put(x, w, 0).cache[w] = 0
              /\ \A v \in Words \ {w} : Put(x, w, 0).cache[v] = x.cache[v]
              /\ \A v \in Words \ {w} : Put(x, w, 0).medium[v] = x.medium[v]
          BY <3>2, <5>2, PutFacts
        <5> QED
          BY <5>1, <5>3
      <4> QED
        BY <3>6, <4>2
    <3>8. Marking(s, y)
      <4>1. \A w \in Words \ {MaxValid(q) : q \in Regions} :
              y.cache[w] = s.cache[w] /\ y.medium[w] = s.medium[w]
        BY <2>2, <3>7 DEF Marking
      <4>2. \A q \in Regions : y.cache[MaxValid(q)] \in {s.cache[MaxValid(q)], 0}
        <5>1. ASSUME NEW q \in Regions, MaxValid(q) # MaxValid(r)
              PROVE  y.cache[MaxValid(q)] \in {s.cache[MaxValid(q)], 0}
          BY <2>2, <3>7, <5>1, MarksApart DEF Marking
        <5> QED
          BY <3>7, <5>1
      <4> QED
        BY <3>7, <4>1, <4>2 DEF Marking
    <3>9. y \in Safe(R)
      BY <1>6, <3>8, MarkingSafe DEF R
    <3>10. Reach(x, <<b>>, y, Safe(R))
      <4>1. 0 \in Holds(MaxValid(r))
        BY <1>4, <2>5
      <4> QED
        BY <1>9, <2>5, <3>1, <3>2, <3>6, <3>9, <4>1, ReachStore
    <3>11. Reach(s, h[k + 1], y, Safe(R))
      BY <2>2, <3>3, <3>5, <3>10, ReachThen
    <3>12. \A i \in 1 .. k + 1 : y.cache[MaxValid(A[i])] # Invalid
      <4>1. ASSUME NEW i \in 1 .. k PROVE y.cache[MaxValid(A[i])] # Invalid
        <5>1. A[i] \in Regions /\ MaxValid(A[i]) \in Words
          BY <1>7, <2>1, MarksApart
        <5>2. x.cache[MaxValid(A[i])] # Invalid
          BY <2>2
        <5> QED
          BY <1>4, <3>7, <5>1, <5>2
      <4>2. \A i \in 1 .. k + 1 : i \in 1 .. k \/ i = k + 1
        BY <2>1
      <4> QED
        BY <1>4, <2>3, <3>7, <4>1, <4>2
    <3>13. P(k + 1, y)
      BY <3>8, <3>11, <3>12
    <3> QED
      BY <2>1, <3>13
  <2> QED
    BY <2>6, <2>7
<1>12. Len(A) \in S
  <2>1. S \in SUBSET Nat
    OBVIOUS
  <2> HIDE DEF S
  <2>2. 0 .. Len(A) \subseteq S
    BY <1>7, <1>10, <1>11, <2>1, UpTo
  <2> QED
    BY <1>7, <2>2
<1>13. PICK x : P(Len(A), x)
  BY <1>12
<1> HIDE DEF S
<1>14. PICK t : t = Flushed(x)
  OBVIOUS
<1>15. x \in Safe(R) /\ x \in States
  BY <1>6, <1>13, MarkingSafe DEF Marking, R
<1>16. t \in States /\ t.cache = x.cache /\ t.medium = Settled(t.cache) /\ Images(t.medium) \subseteq Images(x.medium)
  BY <1>14, <1>15, FlushedFacts
<1>17. t \in Safe(R)
  BY <1>15, <1>16 DEF Safe
<1>18. Reach(s, MarkRegions(m), t, Safe(R))
  <2>1. Reach(x, <<Drain>>, t, Safe(R))
    BY <1>9, <1>14, <1>15, <1>17, ReachDrain
  <2>2. Reach(s, MarkSteps(m), x, Safe(R))
    BY <1>8, <1>13
  <2> QED
    BY <2>1, <2>2, ReachThen DEF MarkRegions
<1>19. \A w \in Words \ {MaxValid(q) : q \in Regions} : t.cache[w] = m[w]
  BY <1>13, <1>16 DEF Marking, m
<1>20. /\ \A l \in Lists : \A w \in ListWords(l) : t.cache[w] = m[w]
       /\ \A w \in HeaderWords : t.cache[w] = m[w]
       /\ \A q \in Regions : t.cache[Data(q)] = m[Data(q)]
  BY <1>19, MarksApart
<1>21. Good(t, A, F, u)
  <2>1. Exact(t.cache, "allocated", A) /\ Exact(t.cache, "free", F)
    BY <1>1, <1>3, <1>20, SameList
  <2>2. IsInitialized(t.cache)
    BY <1>2, <1>20, SameInitialized DEF Restored, m
  <2>3. /\ t.cache[FreeOffset] = m[FreeOffset] /\ t.cache[PersistedTimestamp] = 0
        /\ t.cache[RecoveryFreeOffset] = Invalid
    BY <1>4, <1>20 DEF HeaderWords, Sorted, m
  <2>4. \A q \in Range(A) \ u : t.cache[Data(q)] = 0
    BY <1>2, <1>7, <1>20 DEF Restored, m
  <2> QED
    BY <1>2, <1>16, <2>1, <2>2, <2>3, <2>4 DEF Good, Restored, m
<1>22. \A r \in Elements(t.cache, "allocated") : t.cache[MaxValid(r)] # Invalid
  <2>1. Elements(t.cache, "allocated") = Range(A)
    BY <1>21, GoodFacts
  <2> QED
    BY <1>7, <1>13, <1>16, <2>1
<1>23. t \in Ends(G, u)
  BY <1>2, <1>16, <1>21 DEF Ends
<1> QED
  BY <1>18, <1>22, <1>23 DEF m, R

-----------------------------------------------------------------------------
(* Opening an initialised stream                                           *)

\* What remains of OpenSteps after each of its parts.
AfterFree(m) == RecoverFree(m) \o MarkRegions(Result(m, RecoverFree(m)))
AfterMove(m) == RecoverMove(m) \o AfterFree(Result(m, RecoverMove(m)))
AfterExtension(m) == RecoverExtension(m) \o AfterMove(Result(m, RecoverExtension(m)))
Runtime(m) == RuntimeInit(m, "allocated") \o RuntimeInit(m, "free")
AfterInit(m) == Runtime(m) \o AfterExtension(Result(m, Runtime(m)))

LEMMA OpenStepsParts ==
  ASSUME NEW m
  PROVE  /\ IsInitialized(m) => OpenSteps(m) = << >> \o AfterInit(Result(m, << >>))
         /\ ~IsInitialized(m) => OpenSteps(m) = InitStream \o AfterInit(Result(m, InitStream))
BY DEF OpenSteps, AfterInit, Runtime, AfterExtension, AfterMove, AfterFree, Then, Result

LEMMA RecoveryEffect ==
  ASSUME NEW s \in States, s.medium = Settled(s.cache), IsInitialized(s.cache),
         NEW A \in Chains, NEW F \in Chains, NEW G, NEW u, Recover(s.cache, A, F, G, u)
  PROVE  \E t \in Ends(G, u) :
           /\ Reach(s, OpenSteps(s.cache), t, Safe(Recoverable(G, u)))
           /\ \A r \in Elements(t.cache, "allocated") : t.cache[MaxValid(r)] # Invalid
<1> DEFINE m == s.cache
           R == Recoverable(G, u)
<1>1. PICK a : /\ Reach(s, Runtime(m), a, Safe(R))
               /\ Restored(a, A, F, u) /\ Pending(a.cache, A, F, G)
  BY RuntimeEffect DEF Runtime
<1>2. RecoverExtension(a.cache) = << >>
  <2>1. /\ (a.cache[Hd("free")] = Invalid <=> F = << >>)
        /\ (F # << >> => a.cache[Hd("free")] = F[1]) /\ a.cache \in Memories
    BY <1>1, RestoredFacts
  <2>2. F # << >> => F[1] \in Range(F)
    <3>1. F # << >> => Len(F) \in Nat /\ Len(F) # 0 /\ 1 \in 1 .. Len(F)
      BY ChainFacts
    <3> QED
      BY <3>1, ChainFacts
  <2>3. a.cache[FreeOffset] \in Nat
    BY <2>1, HeaderWordFacts, PlaceFacts DEF Memories
  <2>4. F # << >> => F[1] \in 0 .. a.cache[FreeOffset] - 1
    BY <1>1, <2>2 DEF Restored
  <2>5. F # << >> => ~(F[1] > a.cache[FreeOffset])
    BY <2>3, <2>4
  <2> QED
    BY <2>1, <2>5 DEF RecoverExtension
<1>3. PICK b : \E E \in Chains :
        /\ Reach(a, RecoverMove(a.cache), b, Safe(R))
        /\ Restored(b, A, E, u) /\ Pending(b.cache, A, E, G)
        /\ (A # << >> /\ E # << >> => E[1] # A[Len(A)])
  BY <1>1, RecoverMoveEffect
<1>4. PICK c : \E B, D \in Chains :
        Reach(b, RecoverFree(b.cache), c, Safe(R)) /\ Sorted(c, B, D, G, u)
  BY <1>3, RecoverFreeEffect
<1>5. PICK t \in Ends(G, u) :
        /\ Reach(c, MarkRegions(c.cache), t, Safe(R))
        /\ \A r \in Elements(t.cache, "allocated") : t.cache[MaxValid(r)] # Invalid
  BY <1>4, MarkEffect
<1> HIDE DEF R
<1>6. Reach(b, AfterFree(b.cache), t, Safe(R))
  <2>1. Result(b.cache, RecoverFree(b.cache)) = c.cache
    BY <1>4, ReachResult
  <2> QED
    BY <1>4, <1>5, <2>1, ReachThen DEF AfterFree
<1>7. Reach(a, AfterMove(a.cache), t, Safe(R))
  <2>1. Result(a.cache, RecoverMove(a.cache)) = b.cache
    BY <1>3, ReachResult
  <2> QED
    BY <1>3, <1>6, <2>1, ReachThen DEF AfterMove
<1>8. Reach(a, AfterExtension(a.cache), t, Safe(R))
  <2>1. PICK z : z = << >>
    OBVIOUS
  <2>2. Reach(a, z, a, Safe(R))
    BY <1>3, <2>1, ReachEnds, ReachNone
  <2>3. Result(a.cache, z) = a.cache
    BY <2>2, ReachResult
  <2>4. Reach(a, z \o AfterMove(a.cache), t, Safe(R))
    BY <1>7, <2>2, ReachThen
  <2> QED
    BY <1>2, <2>1, <2>3, <2>4 DEF AfterExtension
<1>9. Reach(s, AfterInit(m), t, Safe(R))
  <2>1. Result(m, Runtime(m)) = a.cache
    BY <1>1, ReachResult
  <2> QED
    BY <1>1, <1>8, <2>1, ReachThen DEF AfterInit
<1>10. Reach(s, OpenSteps(m), t, Safe(R))
  <2>1. PICK z : z = << >>
    OBVIOUS
  <2>2. Reach(s, z, s, Safe(R))
    BY <1>9, <2>1, ReachEnds, ReachNone
  <2>3. Result(m, z) = m
    BY <2>2, ReachResult
  <2>4. Reach(s, z \o AfterInit(m), t, Safe(R))
    BY <1>9, <2>2, ReachThen
  <2> QED
    BY <2>1, <2>3, <2>4, OpenStepsParts
<1> QED
  BY <1>5, <1>10 DEF R

-----------------------------------------------------------------------------
(* Initialising a stream                                                   *)

\* What an initialisation leaves.
Pristine(c) ==
  /\ IsInitialized(c)
  /\ \A l \in Lists : c[Hd(l)] = Invalid /\ c[Tl(l)] = Invalid
  /\ c[FreeOffset] = 0 /\ c[RecoveryFreeOffset] = Invalid /\ c[PersistedTimestamp] = 0

\* The images in which a header that passes for initialised is complete.
Whole == {c \in Memories : IsInitialized(c) => Pristine(c)}

Unsigned(t) == t \in States /\ \A c \in Images(t.medium) : ~IsInitialized(c)

\* The words IsInitialized reads.
Marker == Signature \union {Size("stream"), Size("block")}

LEMMA UnsignedWhole ==
  ASSUME NEW t, Unsigned(t)
  PROVE  t \in Safe(Whole)
BY DEF Unsigned, Safe, Whole, Images

LEMMA PutUnsigned ==
  ASSUME NEW s, Unsigned(s), NEW w \in Words, NEW v \in Holds(w),
         w \notin Marker \/ (w \in Marker /\ v # 1)
  PROVE  Unsigned(Put(s, w, v))
<1>1. s \in States
  BY DEF Unsigned
<1>2. PICK t : t = Put(s, w, v)
  OBVIOUS
<1>3. t \in States
  BY <1>1, <1>2, PutFacts
<1>4. ASSUME NEW c \in Images(t.medium) PROVE ~IsInitialized(c)
  <2>1. /\ c \in Memories /\ \A x \in Words \ {w} : c[x] \in s.medium[x]
        /\ c[w] = v \/ c \in Images(s.medium)
    BY <1>1, <1>2, PutImages
  <2>2. CASE w \in Marker /\ v # 1 /\ c[w] = v
    BY <2>2 DEF IsInitialized, Marker
  <2>3. CASE w \notin Marker
    <3>1. PICK d : d = [x \in Words |-> IF x = w THEN s.cache[w] ELSE c[x]]
      OBVIOUS
    <3>2. \A x \in Words : d[x] \in s.medium[x] /\ d[x] \in Holds(x) /\ d[x] \in 0 .. Invalid
      BY <1>1, <2>1, <3>1, StateFacts DEF Memories
    <3>3. d \in Images(s.medium)
      BY <3>1, <3>2 DEF Images, Memories
    <3>4. ~IsInitialized(d)
      BY <3>3 DEF Unsigned
    <3>5. Marker \subseteq Words
      BY HeaderWordFacts DEF Marker
    <3>6. \A x \in Marker : c[x] = d[x]
      BY <2>3, <3>1, <3>5
    <3> QED
      BY <3>4, <3>6 DEF IsInitialized, Marker
  <2> QED
    BY <2>1, <2>2, <2>3 DEF Unsigned
<1> QED
  BY <1>2, <1>3, <1>4 DEF Unsigned

LEMMA FlushedUnsigned ==
  ASSUME NEW s, Unsigned(s)
  PROVE  Unsigned(Flushed(s))
BY FlushedFacts DEF Unsigned

\* Two stores and a drain, away from what marks a stream as initialised.
LEMMA UnsignedPair ==
  ASSUME NEW s, Unsigned(s), NEW w1 \in Words \ Marker, NEW w2 \in Words \ Marker, w1 # w2,
         NEW v1 \in Holds(w1), NEW v2 \in Holds(w2)
  PROVE  \E t : /\ Unsigned(t)
                /\ Reach(s, <<Store(w1, v1), Store(w2, v2), Drain>>, t, Safe(Whole))
                /\ t.medium = Settled(t.cache) /\ t.cache[w1] = v1 /\ t.cache[w2] = v2
                /\ \A x \in Words \ {w1, w2} : t.cache[x] = s.cache[x]
<1>1. s \in States /\ s \in Safe(Whole) /\ Safe(Whole) \subseteq States
  BY UnsignedWhole DEF Unsigned, Safe
<1>2. PICK p : p = Put(s, w1, v1)
  OBVIOUS
<1>3. Unsigned(p) /\ p \in Safe(Whole) /\ p \in States
  <2>1. Unsigned(p)
    BY <1>2, PutUnsigned
  <2> QED
    BY <2>1, UnsignedWhole DEF Unsigned
<1>4. p.cache[w1] = v1 /\ \A x \in Words \ {w1} : p.cache[x] = s.cache[x]
  BY <1>1, <1>2, PutFacts
<1>5. PICK q : q = Put(p, w2, v2)
  OBVIOUS
<1>6. Unsigned(q) /\ q \in Safe(Whole) /\ q \in States
  <2>1. Unsigned(q)
    BY <1>3, <1>5, PutUnsigned
  <2> QED
    BY <2>1, UnsignedWhole DEF Unsigned
<1>7. q.cache[w2] = v2 /\ \A x \in Words \ {w2} : q.cache[x] = p.cache[x]
  BY <1>3, <1>5, PutFacts
<1>8. PICK t : t = Flushed(q)
  OBVIOUS
<1>9. Unsigned(t) /\ t \in Safe(Whole)
  <2>1. Unsigned(t)
    BY <1>6, <1>8, FlushedUnsigned
  <2> QED
    BY <2>1, UnsignedWhole
<1>10. t.cache = q.cache /\ t.medium = Settled(t.cache)
  BY <1>6, <1>8, FlushedFacts
<1>11. Reach(s, <<Store(w1, v1)>>, p, Safe(Whole))
  BY <1>1, <1>2, <1>3, ReachStore
<1>12. Reach(p, <<Store(w2, v2)>>, q, Safe(Whole))
  BY <1>1, <1>3, <1>5, <1>6, ReachStore
<1>13. Reach(q, <<Drain>>, t, Safe(Whole))
  BY <1>1, <1>6, <1>8, <1>9, ReachDrain
<1>14. Reach(s, (<<Store(w1, v1)>> \o <<Store(w2, v2)>>) \o <<Drain>>, t, Safe(Whole))
  <2>1. Reach(s, <<Store(w1, v1)>> \o <<Store(w2, v2)>>, q, Safe(Whole))
    BY <1>11, <1>12, ReachThen
  <2> QED
    BY <1>13, <2>1, ReachThen
<1>15. (<<Store(w1, v1)>> \o <<Store(w2, v2)>>) \o <<Drain>> = <<Store(w1, v1), Store(w2, v2), Drain>>
  <2>1. Store(w1, v1) \in Accesses /\ Store(w2, v2) \in Accesses /\ Drain \in Accesses
    BY <1>1, AccessStore, AccessDrain
  <2> QED
    BY <2>1, TripleConcat
<1> QED
  BY <1>4, <1>7, <1>9, <1>10, <1>14, <1>15

Sign(i) == <<"signature", "header", i>>

LEMMA SignFacts ==
  /\ Sign(1) \in Words /\ Sign(2) \in Words /\ Sign(1) # Sign(2)
  /\ Sign(1) \in Marker /\ Sign(2) \in Marker /\ Sign(1) \in Signature /\ Sign(2) \in Signature
  /\ \A i \in {1, 2}, v \in {0, 1} : v \in Holds(Sign(i)) /\ Store(Sign(i), v) \in Accesses
  /\ \A v \in {0, 1} : SignatureSteps(v) = <<Store(Sign(1), v)>> \o <<Store(Sign(2), v)>>
<1>1. Sign(1) \in Signature /\ Sign(2) \in Signature /\ Sign(1) # Sign(2)
  BY DEF Signature, Sign
<1>2. Sign(1) \in Words /\ Sign(2) \in Words /\ Sign(1) \in Marker /\ Sign(2) \in Marker
  BY <1>1, HeaderWordFacts DEF Marker
<1>3. \A v \in {0, 1} : v \in 0 .. Invalid
  BY PlaceFacts
<1>4. \A i \in {1, 2}, v \in {0, 1} : v \in Holds(Sign(i)) /\ Store(Sign(i), v) \in Accesses
  <2>1. ASSUME NEW i \in {1, 2}, NEW v \in {0, 1} PROVE v \in Holds(Sign(i)) /\ Store(Sign(i), v) \in Accesses
    <3>1. Sign(i) \in Words /\ Sign(i) \in Signature
      BY <1>1, <1>2
    <3>2. v \in Holds(Sign(i))
      BY <1>3, <3>1, HeaderWordFacts
    <3>3. Store(Sign(i), v) \in Accesses
      BY <1>3, <3>1 DEF Accesses, Store
    <3> QED
      BY <3>2, <3>3
  <2> QED
    BY <2>1
<1>5. ASSUME NEW v \in {0, 1} PROVE SignatureSteps(v) = <<Store(Sign(1), v)>> \o <<Store(Sign(2), v)>>
  <2>1. PICK x \in Accesses : x = Store(Sign(1), v)
    BY <1>4
  <2>2. PICK y \in Accesses : y = Store(Sign(2), v)
    BY <1>4
  <2>3. <<x>> \o <<y>> = <<x, y>>
    BY PairConcat
  <2>4. PICK a : a = SignatureSteps(v)
    OBVIOUS
  <2>5. a = [i \in 1 .. 2 |-> Store(Sign(i), v)]
    BY <2>4 DEF SignatureSteps, Sign
  <2>6. \A i \in 1 .. 2 : a[i] = <<x, y>>[i]
    <3>1. \A i \in 1 .. 2 : i = 1 \/ i = 2
      OBVIOUS
    <3> QED
      BY <2>1, <2>2, <2>5, <3>1
  <2>7. Len(a) = 2 /\ a \in Seq(Accesses) /\ <<x, y>> \in Seq(Accesses) /\ Len(<<x, y>>) = 2
    <3>1. \A i \in 1 .. 2 : a[i] \in Accesses
      <4>1. \A i \in 1 .. 2 : i \in {1, 2}
        OBVIOUS
      <4> QED
        BY <1>4, <2>5, <4>1
    <3>2. a = [i \in 1 .. 2 |-> a[i]]
      BY <2>5
    <3> QED
      BY <3>1, <3>2
  <2>8. a = <<x, y>>
    BY <2>6, <2>7, SameSequence
  <2> QED
    BY <2>1, <2>2, <2>3, <2>4, <2>8
<1> QED
  BY <1>1, <1>2, <1>4, <1>5

\* The signature is cleared.
LEMMA ClearEffect ==
  ASSUME NEW s, Unsigned(s)
  PROVE  \E t : /\ Unsigned(t) /\ Reach(s, SignatureSteps(0), t, Safe(Whole))
                /\ t.cache[Sign(1)] = 0 /\ t.cache[Sign(2)] = 0
                /\ \A x \in Words \ {Sign(1), Sign(2)} : t.cache[x] = s.cache[x]
<1>1. PICK a, b : a = Sign(1) /\ b = Sign(2)
  OBVIOUS
<1>2. /\ a \in Words /\ b \in Words /\ a # b /\ a \in Marker /\ b \in Marker
      /\ 0 \in Holds(a) /\ 0 \in Holds(b) /\ 0 # 1
      /\ SignatureSteps(0) = <<Store(a, 0)>> \o <<Store(b, 0)>>
  BY <1>1, SignFacts
<1>3. s \in States /\ s \in Safe(Whole) /\ Safe(Whole) \subseteq States
  BY UnsignedWhole DEF Unsigned, Safe
<1>4. PICK p : p = Put(s, a, 0)
  OBVIOUS
<1>5. Unsigned(p)
  BY <1>2, <1>4, PutUnsigned
<1>6. PICK t : t = Put(p, b, 0)
  OBVIOUS
<1>7. Unsigned(t)
  BY <1>2, <1>5, <1>6, PutUnsigned
<1>8. p \in Safe(Whole) /\ t \in Safe(Whole) /\ p \in States
  BY <1>5, <1>7, UnsignedWhole DEF Unsigned
<1>9. Reach(s, <<Store(a, 0)>>, p, Safe(Whole)) /\ Reach(p, <<Store(b, 0)>>, t, Safe(Whole))
  BY <1>2, <1>3, <1>4, <1>6, <1>8, ReachStore
<1>10. Reach(s, SignatureSteps(0), t, Safe(Whole))
  BY <1>2, <1>9, ReachThen
<1>11. p.cache[a] = 0 /\ \A x \in Words \ {a} : p.cache[x] = s.cache[x]
  BY <1>2, <1>3, <1>4, PutFacts
<1>12. t.cache[b] = 0 /\ \A x \in Words \ {b} : t.cache[x] = p.cache[x]
  BY <1>2, <1>6, <1>8, PutFacts
<1> QED
  BY <1>1, <1>2, <1>7, <1>10, <1>11, <1>12

\* The signature is set, last of all.
LEMMA SignEffect ==
  ASSUME NEW s \in States, s.medium = Settled(s.cache), s.cache[Sign(2)] = 0,
         s.cache[Size("stream")] = 1, s.cache[Size("block")] = 1,
         \A l \in Lists : s.cache[Hd(l)] = Invalid /\ s.cache[Tl(l)] = Invalid,
         s.cache[FreeOffset] = 0, s.cache[RecoveryFreeOffset] = Invalid, s.cache[PersistedTimestamp] = 0
  PROVE  \E t \in Safe(Whole) :
           /\ Reach(s, SignatureSteps(1) \o <<Drain>>, t, Safe(Whole))
           /\ t.medium = Settled(t.cache) /\ Pristine(t.cache)
<1>1. PICK a, b : a = Sign(1) /\ b = Sign(2)
  OBVIOUS
<1>2. /\ a \in Words /\ b \in Words /\ a # b /\ a \in Signature /\ b \in Signature
      /\ 1 \in Holds(a) /\ 1 \in Holds(b) /\ 0 # 1
      /\ SignatureSteps(1) = <<Store(a, 1)>> \o <<Store(b, 1)>>
  BY <1>1, SignFacts
<1>3. Safe(Whole) \subseteq States /\ s.cache \in Memories /\ \A w \in Words : s.medium[w] = {s.cache[w]}
  BY StateFacts DEF Safe, Settled
<1>4. ASSUME NEW c \in Memories, \A w \in Words \ {a, b} : c[w] = s.cache[w]
      PROVE  c \in Whole
  <2>1. /\ \A l \in Lists : Hd(l) \in Words \ {a, b} /\ Tl(l) \in Words \ {a, b}
        /\ FreeOffset \in Words \ {a, b} /\ RecoveryFreeOffset \in Words \ {a, b}
        /\ PersistedTimestamp \in Words \ {a, b}
    <3>1. ASSUME NEW l \in Lists PROVE Hd(l) \in Words \ {a, b} /\ Tl(l) \in Words \ {a, b}
      <4>1. Hd(l) \in ListWords(l) /\ Tl(l) \in ListWords(l) /\ ListWords(l) \subseteq Words
        BY ListWordFacts
      <4>2. a \notin ListWords(l) /\ b \notin ListWords(l)
        BY <1>2, ListWordsApart
      <4> QED
        BY <4>1, <4>2
    <3>2. /\ FreeOffset \in Words \ {a, b} /\ RecoveryFreeOffset \in Words \ {a, b}
          /\ PersistedTimestamp \in Words \ {a, b}
      BY <1>2, HeaderWordFacts, HeaderWordsApart
    <3> QED
      BY <3>1, <3>2
  <2> QED
    BY <1>4, <2>1 DEF Whole, Pristine
<1>5. s \in Safe(Whole)
  <2>1. \A c \in Images(s.medium) : c \in Whole
    BY <1>3, <1>4 DEF Images
  <2> QED
    BY <2>1 DEF Safe
<1>6. PICK p : p = Put(s, a, 1)
  OBVIOUS
<1>7. /\ p \in States /\ p.cache[a] = 1 /\ p.medium[a] = {s.cache[a], 1}
      /\ \A x \in Words \ {a} : p.cache[x] = s.cache[x]
      /\ \A x \in Words \ {a} : p.medium[x] = {s.cache[x]}
  <2>1. /\ p \in States /\ p.cache[a] = 1 /\ p.medium[a] = s.medium[a] \union {1}
        /\ \A x \in Words \ {a} : p.cache[x] = s.cache[x]
        /\ \A x \in Words \ {a} : p.medium[x] = s.medium[x]
    BY <1>2, <1>6, PutFacts
  <2> QED
    BY <1>2, <1>3, <2>1
<1>8. PICK q : q = Put(p, b, 1)
  OBVIOUS
<1>9. /\ q \in States /\ q.cache[b] = 1
      /\ \A x \in Words \ {b} : q.cache[x] = p.cache[x]
      /\ \A x \in Words \ {b} : q.medium[x] = p.medium[x]
  BY <1>2, <1>7, <1>8, PutFacts
<1>10. p \in Safe(Whole)
  <2>1. \A c \in Images(p.medium) : c \in Whole
    BY <1>4, <1>7 DEF Images
  <2> QED
    BY <1>7, <2>1 DEF Safe
<1>11. q \in Safe(Whole)
  <2>1. ASSUME NEW c \in Images(q.medium) PROVE c \in Whole
    <3>1. c \in Memories /\ \A w \in Words : c[w] \in q.medium[w]
      BY DEF Images
    <3>2. \A w \in Words \ {a, b} : q.medium[w] = {s.cache[w]}
      BY <1>7, <1>9
    <3>3. \A w \in Words \ {a, b} : c[w] = s.cache[w]
      BY <3>1, <3>2
    <3> QED
      BY <1>4, <3>1, <3>3
  <2> QED
    BY <1>9, <2>1 DEF Safe
<1>12. PICK t : t = Flushed(q)
  OBVIOUS
<1>13. t \in States /\ t.cache = q.cache /\ t.medium = Settled(t.cache) /\ Images(t.medium) \subseteq Images(q.medium)
  BY <1>9, <1>12, FlushedFacts
<1>14. t \in Safe(Whole)
  BY <1>11, <1>13 DEF Safe
<1>15. Reach(s, <<Store(a, 1)>>, p, Safe(Whole))
  BY <1>2, <1>3, <1>5, <1>6, <1>10, ReachStore
<1>16. Reach(p, <<Store(b, 1)>>, q, Safe(Whole))
  BY <1>2, <1>3, <1>8, <1>10, <1>11, ReachStore
<1>17. Reach(q, <<Drain>>, t, Safe(Whole))
  BY <1>3, <1>11, <1>12, <1>14, ReachDrain
<1>18. Reach(s, SignatureSteps(1) \o <<Drain>>, t, Safe(Whole))
  <2>1. Reach(s, SignatureSteps(1), q, Safe(Whole))
    BY <1>2, <1>15, <1>16, ReachThen
  <2> QED
    BY <1>17, <2>1, ReachThen
<1>19. t.cache \in Memories /\ \A w \in Words \ {a, b} : t.cache[w] = s.cache[w]
  BY <1>7, <1>9, <1>13, StateFacts
<1>20. IsInitialized(t.cache)
  <2>1. t.cache[a] = 1 /\ t.cache[b] = 1
    BY <1>2, <1>7, <1>9, <1>13
  <2>2. Signature = {a, b}
    <3>1. \A i \in 1 .. 2 : i = 1 \/ i = 2
      OBVIOUS
    <3> QED
      BY <1>1, <1>2, <3>1 DEF Signature, Sign
  <2>3. Size("stream") \in Words \ {a, b} /\ Size("block") \in Words \ {a, b}
    BY <1>2, HeaderWordFacts, HeaderWordsApart
  <2> QED
    BY <1>19, <2>1, <2>2, <2>3 DEF IsInitialized
<1>21. Pristine(t.cache)
  BY <1>4, <1>19, <1>20 DEF Whole
<1> QED
  BY <1>13, <1>14, <1>18, <1>21

LEMMA ListInitUnsigned ==
  ASSUME NEW s, Unsigned(s), NEW l \in Lists
  PROVE  \E t : /\ Unsigned(t) /\ Reach(s, ListInit(l), t, Safe(Whole))
                /\ t.medium = Settled(t.cache) /\ t.cache[Hd(l)] = Invalid /\ t.cache[Tl(l)] = Invalid
                /\ \A x \in Words \ ListWords(l) : t.cache[x] = s.cache[x]
<1>1. PICK a, b : a = Hd(l) /\ b = Tl(l)
  OBVIOUS
<1>2. /\ a \in Words \ Marker /\ b \in Words \ Marker /\ a # b
      /\ Invalid \in Holds(a) /\ Invalid \in Holds(b) /\ a \in ListWords(l) /\ b \in ListWords(l)
  <2>1. /\ a \in ListWords(l) /\ b \in ListWords(l) /\ ListWords(l) \subseteq Words /\ a # b
        /\ Holds(a) = Links /\ Holds(b) = Links
    BY <1>1, ListWordFacts
  <2>2. Marker \intersect ListWords(l) = {}
    BY ListWordsApart DEF Marker
  <2> QED
    BY <2>1, <2>2, PlaceFacts
<1>3. PICK t : /\ Unsigned(t)
               /\ Reach(s, <<Store(b, Invalid), Store(a, Invalid), Drain>>, t, Safe(Whole))
               /\ t.medium = Settled(t.cache) /\ t.cache[b] = Invalid /\ t.cache[a] = Invalid
               /\ \A x \in Words \ {b, a} : t.cache[x] = s.cache[x]
  BY <1>2, UnsignedPair
<1> QED
  BY <1>1, <1>2, <1>3 DEF ListInit

LEMMA InitStreamEffect ==
  ASSUME NEW s \in States, s.medium = Settled(s.cache), ~IsInitialized(s.cache)
  PROVE  \E t \in Safe(Whole) :
           /\ Reach(s, InitStream, t, Safe(Whole))
           /\ t.medium = Settled(t.cache) /\ Pristine(t.cache)
<1>1. "allocated" \in Lists /\ "free" \in Lists
  BY DEF Lists
<1>2. Unsigned(s)
  <2>1. \A c \in Images(s.medium) : c = s.cache
    BY SettledImage
  <2> QED
    BY <2>1 DEF Unsigned
<1>3. PICK a : /\ Unsigned(a) /\ Reach(s, SignatureSteps(0), a, Safe(Whole))
               /\ a.cache[Sign(1)] = 0 /\ a.cache[Sign(2)] = 0
               /\ \A x \in Words \ {Sign(1), Sign(2)} : a.cache[x] = s.cache[x]
  BY <1>2, ClearEffect
<1>4. /\ FreeOffset \in Words \ Marker /\ RecoveryFreeOffset \in Words \ Marker
      /\ FreeOffset # RecoveryFreeOffset /\ 0 \in Holds(FreeOffset) /\ Invalid \in Holds(RecoveryFreeOffset)
  BY HeaderWordFacts, HeaderWordsApart, PlaceFacts DEF Marker
<1>5. PICK b : /\ Unsigned(b)
               /\ Reach(a, <<Store(FreeOffset, 0), Store(RecoveryFreeOffset, Invalid), Drain>>, b, Safe(Whole))
               /\ b.cache[FreeOffset] = 0 /\ b.cache[RecoveryFreeOffset] = Invalid
               /\ \A x \in Words \ {FreeOffset, RecoveryFreeOffset} : b.cache[x] = a.cache[x]
  <2>1. PICK w1, w2, v1, v2 : w1 = FreeOffset /\ w2 = RecoveryFreeOffset /\ v1 = 0 /\ v2 = Invalid
    OBVIOUS
  <2>2. \E t : /\ Unsigned(t)
               /\ Reach(a, <<Store(w1, v1), Store(w2, v2), Drain>>, t, Safe(Whole))
               /\ t.medium = Settled(t.cache) /\ t.cache[w1] = v1 /\ t.cache[w2] = v2
               /\ \A x \in Words \ {w1, w2} : t.cache[x] = a.cache[x]
    <3>1. w1 \in Words \ Marker /\ w2 \in Words \ Marker /\ w1 # w2 /\ v1 \in Holds(w1) /\ v2 \in Holds(w2)
      BY <1>4, <2>1
    <3> QED
      BY <1>3, <3>1, UnsignedPair
  <2> QED
    BY <2>1, <2>2
<1>6. PICK c : /\ Unsigned(c) /\ Reach(b, ListInit("free"), c, Safe(Whole))
               /\ c.cache[Hd("free")] = Invalid /\ c.cache[Tl("free")] = Invalid
               /\ \A x \in Words \ ListWords("free") : c.cache[x] = b.cache[x]
  BY <1>1, <1>5, ListInitUnsigned
<1>7. PICK d : /\ Unsigned(d) /\ Reach(c, ListInit("allocated"), d, Safe(Whole))
               /\ d.medium = Settled(d.cache)
               /\ d.cache[Hd("allocated")] = Invalid /\ d.cache[Tl("allocated")] = Invalid
               /\ \A x \in Words \ ListWords("allocated") : d.cache[x] = c.cache[x]
  BY <1>1, <1>6, ListInitUnsigned
<1>8. /\ \A l \in Lists : d.cache[Hd(l)] = Invalid /\ d.cache[Tl(l)] = Invalid
      /\ d.cache[FreeOffset] = 0 /\ d.cache[RecoveryFreeOffset] = Invalid
      /\ d.cache[Sign(1)] = 0 /\ d.cache[Sign(2)] = 0
  <2>1. /\ Hd("free") \in Words \ ListWords("allocated") /\ Tl("free") \in Words \ ListWords("allocated")
    BY <1>1, ListWordFacts, ListWordsApart
  <2>2. \A l \in Lists : /\ FreeOffset \in Words \ ListWords(l) /\ RecoveryFreeOffset \in Words \ ListWords(l)
                         /\ Sign(1) \in Words \ ListWords(l) /\ Sign(2) \in Words \ ListWords(l)
    BY SignFacts, HeaderWordFacts, ListWordsApart
  <2>3. /\ Sign(1) \in Words \ {FreeOffset, RecoveryFreeOffset}
        /\ Sign(2) \in Words \ {FreeOffset, RecoveryFreeOffset}
    BY SignFacts, HeaderWordsApart
  <2>4. d.cache[Hd("free")] = Invalid /\ d.cache[Tl("free")] = Invalid
    BY <1>6, <1>7, <2>1
  <2>5. \A l \in Lists : d.cache[Hd(l)] = Invalid /\ d.cache[Tl(l)] = Invalid
    BY <1>7, <2>4 DEF Lists
  <2>6. d.cache[FreeOffset] = 0 /\ d.cache[RecoveryFreeOffset] = Invalid
    BY <1>1, <1>5, <1>6, <1>7, <2>2
  <2>7. d.cache[Sign(1)] = 0 /\ d.cache[Sign(2)] = 0
    BY <1>1, <1>3, <1>5, <1>6, <1>7, <2>2, <2>3
  <2> QED
    BY <2>5, <2>6, <2>7
<1>9. PICK w1, w2, w3 : w1 = Size("stream") /\ w2 = Size("block") /\ w3 = PersistedTimestamp
  OBVIOUS
<1>10. /\ w1 \in Words /\ w2 \in Words /\ w3 \in Words /\ w1 # w2 /\ w1 # w3 /\ w2 # w3
       /\ 1 \in Holds(w1) /\ 1 \in Holds(w2) /\ 0 \in Holds(w3)
  BY <1>9, HeaderWordFacts, HeaderWordsApart, PlaceFacts
<1>11. Sign(1) \notin {w1, w2, w3} /\ Sign(2) \notin {w1, w2, w3}
  BY <1>9, SignFacts, HeaderWordsApart
<1>12. PICK e \in Safe(Whole) :
         /\ Reach(d, <<Store(w1, 1), Store(w2, 1), Store(w3, 0), Drain>>, e, Safe(Whole))
         /\ e.medium = Settled(e.cache) /\ e.cache[w1] = 1 /\ e.cache[w2] = 1 /\ e.cache[w3] = 0
         /\ \A x \in Words \ {w1, w2, w3} : e.cache[x] = d.cache[x]
  <2>1. \A m \in Memories : (\A x \in Words \ {w1, w2, w3} : m[x] = d.cache[x]) => m \in Whole
    <3>1. ASSUME NEW m \in Memories, \A x \in Words \ {w1, w2, w3} : m[x] = d.cache[x] PROVE ~IsInitialized(m)
      <4>1. m[Sign(1)] = 0
        BY <1>8, <1>11, <3>1, SignFacts
      <4> QED
        BY <4>1, SignFacts DEF IsInitialized
    <3> QED
      BY <3>1 DEF Whole
  <2>2. d \in Safe(Whole)
    BY <1>7, UnsignedWhole
  <2>3. PICK R, v1, v2, v3 : R = Whole /\ v1 = 1 /\ v2 = 1 /\ v3 = 0
    OBVIOUS
  <2>4. \E t \in Safe(R) :
           /\ Reach(d, <<Store(w1, v1), Store(w2, v2), Store(w3, v3), Drain>>, t, Safe(R))
           /\ t.medium = Settled(t.cache) /\ t.cache[w1] = v1 /\ t.cache[w2] = v2 /\ t.cache[w3] = v3
           /\ \A x \in Words \ {w1, w2, w3} : t.cache[x] = d.cache[x]
    <3>1. v1 \in Holds(w1) /\ v2 \in Holds(w2) /\ v3 \in Holds(w3)
      BY <1>10, <2>3
    <3>2. d \in Safe(R) /\ \A m \in Memories : (\A x \in Words \ {w1, w2, w3} : m[x] = d.cache[x]) => m \in R
      BY <2>1, <2>2, <2>3
    <3> HIDE <2>1, <2>2, <2>3
    <3> QED
      BY <1>7, <1>10, <3>1, <3>2, ReachThree
  <2> QED
    BY <2>3, <2>4
<1>13. /\ e \in States /\ e.cache[Sign(2)] = 0
       /\ e.cache[Size("stream")] = 1 /\ e.cache[Size("block")] = 1 /\ e.cache[PersistedTimestamp] = 0
       /\ \A l \in Lists : e.cache[Hd(l)] = Invalid /\ e.cache[Tl(l)] = Invalid
       /\ e.cache[FreeOffset] = 0 /\ e.cache[RecoveryFreeOffset] = Invalid
  <2>1. e \in States
    BY <1>12 DEF Safe
  <2>2. e.cache[Sign(2)] = 0
    BY <1>8, <1>11, <1>12, SignFacts
  <2>3. \A l \in Lists : Hd(l) \in Words \ {w1, w2, w3} /\ Tl(l) \in Words \ {w1, w2, w3}
    <3>1. ASSUME NEW l \in Lists PROVE Hd(l) \in Words \ {w1, w2, w3} /\ Tl(l) \in Words \ {w1, w2, w3}
      <4>1. Hd(l) \in ListWords(l) /\ Tl(l) \in ListWords(l) /\ ListWords(l) \subseteq Words
        BY ListWordFacts
      <4>2. w1 \notin ListWords(l) /\ w2 \notin ListWords(l) /\ w3 \notin ListWords(l)
        BY <1>9, ListWordsApart
      <4> QED
        BY <4>1, <4>2
    <3> QED
      BY <3>1
  <2>4. FreeOffset \in Words \ {w1, w2, w3} /\ RecoveryFreeOffset \in Words \ {w1, w2, w3}
    BY <1>9, HeaderWordFacts, HeaderWordsApart
  <2> QED
    BY <1>8, <1>9, <1>12, <2>1, <2>2, <2>3, <2>4
<1>14. PICK t \in Safe(Whole) :
         /\ Reach(e, SignatureSteps(1) \o <<Drain>>, t, Safe(Whole))
         /\ t.medium = Settled(t.cache) /\ Pristine(t.cache)
  BY <1>12, <1>13, SignEffect
<1>15. Reach(a, InitAllocator, d, Safe(Whole))
  <2>1. Reach(a, <<Store(FreeOffset, 0), Store(RecoveryFreeOffset, Invalid), Drain>> \o ListInit("free"), c, Safe(Whole))
    BY <1>5, <1>6, ReachThen
  <2>2. Reach(a, (<<Store(FreeOffset, 0), Store(RecoveryFreeOffset, Invalid), Drain>> \o ListInit("free"))
                    \o ListInit("allocated"), d, Safe(Whole))
    BY <1>7, <2>1, ReachThen
  <2> QED
    BY <2>2 DEF InitAllocator
<1>16. Reach(s, SignatureSteps(0) \o InitAllocator, d, Safe(Whole))
  BY <1>3, <1>15, ReachThen
<1>17. PICK z : z = <<Store(w1, 1), Store(w2, 1), Store(w3, 0), Drain>>
  OBVIOUS
<1>18. Reach(s, (SignatureSteps(0) \o InitAllocator) \o z, e, Safe(Whole))
  BY <1>12, <1>16, <1>17, ReachThen
<1>19. SignatureSteps(1) \in Seq(Accesses) /\ <<Drain>> \in Seq(Accesses) /\ z \in Seq(Accesses)
       /\ SignatureSteps(0) \o InitAllocator \in Seq(Accesses)
  <2>1. Store(Sign(1), 1) \in Accesses /\ Store(Sign(2), 1) \in Accesses
    BY SignFacts
  <2>2. SignatureSteps(1) = <<Store(Sign(1), 1)>> \o <<Store(Sign(2), 1)>>
    BY SignFacts
  <2>3. SignatureSteps(1) \in Seq(Accesses)
    <3>1. PICK p \in Accesses, q \in Accesses : p = Store(Sign(1), 1) /\ q = Store(Sign(2), 1)
      BY <2>1
    <3>2. <<p>> \o <<q>> \in Seq(Accesses)
      OBVIOUS
    <3> QED
      BY <2>2, <3>1, <3>2
  <2>4. Drain \in Accesses
    BY AccessDrain
  <2>5. z \in Seq(Accesses) /\ SignatureSteps(0) \o InitAllocator \in Seq(Accesses)
    BY <1>12, <1>16, <1>17, ReachEnds
  <2> QED
    BY <2>3, <2>4, <2>5
<1>20. Reach(s, ((SignatureSteps(0) \o InitAllocator) \o z) \o (SignatureSteps(1) \o <<Drain>>), t, Safe(Whole))
  BY <1>14, <1>18, ReachThen
<1>21. InitStream = (((SignatureSteps(0) \o InitAllocator) \o z) \o SignatureSteps(1)) \o <<Drain>>
  BY <1>9, <1>17 DEF InitStream
<1>22. PICK x \in Seq(Accesses) : x = (SignatureSteps(0) \o InitAllocator) \o z
  BY <1>18, ReachEnds
<1>23. x \o (SignatureSteps(1) \o <<Drain>>) = (x \o SignatureSteps(1)) \o <<Drain>>
  BY <1>19
<1>24. Reach(s, InitStream, t, Safe(Whole))
  BY <1>20, <1>21, <1>22, <1>23
<1> QED
  BY <1>14, <1>24

LEMMA EmptyChain == << >> \in Chains /\ Range(<< >>) = {}
<1>1. PICK z : z = << >>
  OBVIOUS
<1>2. z \in Chains
  BY <1>1 DEF Chains
<1> QED
  BY <1>1, <1>2, ChainFacts

LEMMA PristineGood ==
  ASSUME NEW s \in States, s.medium = Settled(s.cache), Pristine(s.cache), NEW u
  PROVE  /\ Good(s, << >>, << >>, u) /\ s \in Safe(Whole)
         /\ Elements(s.cache, "allocated") = {} /\ Listed(s.cache, "allocated") = << >>
<1>1. PICK z : z = << >>
  OBVIOUS
<1>2. z \in Chains /\ Range(z) = {} /\ (z = << >>)
  BY <1>1, EmptyChain
<1>3. \A l \in Lists : Exact(s.cache, l, z)
  BY <1>1 DEF Exact, Linked, Pristine
<1>4. "allocated" \in Lists /\ "free" \in Lists
  BY DEF Lists
<1>5. 0 .. s.cache[FreeOffset] - 1 = {}
  BY DEF Pristine
<1>6. Good(s, z, z, u)
  BY <1>2, <1>3, <1>4, <1>5 DEF Good, Pristine
<1>7. s \in Safe(Whole)
  <2>1. \A c \in Images(s.medium) : c = s.cache /\ c \in Memories
    BY SettledImage, StateFacts
  <2> QED
    BY <2>1 DEF Safe, Whole
<1>8. Elements(s.cache, "allocated") = Range(z) /\ Listed(s.cache, "allocated") = z
  BY <1>2, <1>6, GoodFacts
<1> QED
  BY <1>1, <1>2, <1>6, <1>7, <1>8

LEMMA PristineEffect ==
  ASSUME NEW s \in States, s.medium = Settled(s.cache), Pristine(s.cache)
  PROVE  Reach(s, AfterInit(s.cache), s, Safe(Whole))
<1> DEFINE m == s.cache
           C == Safe(Whole)
<1>1. "allocated" \in Lists /\ "free" \in Lists
  BY DEF Lists
<1>2. s \in C /\ C \subseteq States /\ Listed(m, "allocated") = << >>
  BY PristineGood DEF Safe
<1>3. /\ \A l \in Lists : m[Hd(l)] = Invalid /\ m[Tl(l)] = Invalid
      /\ m[RecoveryFreeOffset] = Invalid
  BY DEF Pristine
<1> HIDE DEF C, m
<1>4. ASSUME NEW l \in Lists PROVE Reach(s, RuntimeInit(m, l), s, C)
  <2>1. RuntimeInit(m, l) = << >> \o <<Check(l)>>
    BY <1>3 DEF RuntimeInit
  <2>2. PICK z : z = << >>
    OBVIOUS
  <2>3. Reach(s, z, s, C)
    BY <1>2, <2>2, ReachNone
  <2>4. SlistInvariants(s.cache, l)
    BY <1>3 DEF SlistInvariants, m
  <2>5. Reach(s, <<Check(l)>>, s, C)
    BY <1>2, <2>4, ReachCheck
  <2> QED
    BY <2>1, <2>2, <2>3, <2>5, ReachThen
<1>5. Reach(s, Runtime(m), s, C)
  BY <1>1, <1>4, ReachThen DEF Runtime
<1>6. PICK z : z = << >>
  OBVIOUS
<1>7. RecoverExtension(m) = z /\ RecoverMove(m) = z /\ RecoverFree(m) = z
  BY <1>1, <1>3, <1>6 DEF RecoverExtension, RecoverMove, RecoverFree
<1>8. Reach(s, z, s, C)
  BY <1>2, <1>6, ReachNone
<1>9. Result(m, z) = m /\ Result(m, Runtime(m)) = m
  BY <1>5, <1>8, ReachResult DEF m
<1>10. Reach(s, MarkRegions(m), s, C)
  <2>1. Listed(m, "allocated") \in Seq(Regions)
    BY <1>2, EmptyChain DEF Chains
  <2>2. PICK h : /\ IsTrace("mark", m, << >>, Listed(m, "allocated"), h)
                 /\ MarkSteps(m) = h[Len(Listed(m, "allocated"))]
    BY <2>1, MarkTrace
  <2>3. MarkSteps(m) = z
    <3>1. Len(Listed(m, "allocated")) = 0
      <4>1. PICK y : y = << >>
        OBVIOUS
      <4>2. Len(y) = 0
        BY <4>1
      <4> QED
        BY <1>2, <4>1, <4>2
    <3> QED
      BY <1>6, <2>2, <3>1 DEF IsTrace
  <2>4. Flushed(s) = s
    <3>1. Access(s, Drain) = [cache |-> s.cache, medium |-> Settled(s.cache)]
      BY AccessDrain
    <3>2. s = [cache |-> s.cache, medium |-> s.medium]
      BY StateFacts
    <3> QED
      BY <3>1, <3>2 DEF Flushed
  <2>5. Reach(s, <<Drain>>, s, C)
    BY <1>2, <2>4, ReachDrain
  <2>6. Reach(s, z \o <<Drain>>, s, C)
    BY <1>8, <2>5, ReachThen
  <2> QED
    BY <2>3, <2>6 DEF MarkRegions
<1>11. Reach(s, AfterFree(m), s, C)
  BY <1>7, <1>8, <1>9, <1>10, ReachThen DEF AfterFree
<1>12. Reach(s, AfterMove(m), s, C)
  BY <1>7, <1>8, <1>9, <1>11, ReachThen DEF AfterMove
<1>13. Reach(s, AfterExtension(m), s, C)
  BY <1>7, <1>8, <1>9, <1>12, ReachThen DEF AfterExtension
<1>14. Reach(s, AfterInit(m), s, C)
  BY <1>5, <1>9, <1>13, ReachThen DEF AfterInit
<1> QED
  BY <1>14 DEF m, C

\* The first opening of a file, however often it was cut short before.
LEMMA BlankEffect ==
  ASSUME NEW s \in States, s.medium = Settled(s.cache), s.cache \in Whole
  PROVE  \E t \in Safe(Whole) :
           /\ Reach(s, OpenSteps(s.cache), t, Safe(Whole))
           /\ t.medium = Settled(t.cache) /\ Pristine(t.cache)
<1>1. CASE IsInitialized(s.cache)
  <2>1. Pristine(s.cache)
    BY <1>1 DEF Whole
  <2>2. Reach(s, AfterInit(s.cache), s, Safe(Whole))
    BY <2>1, PristineEffect
  <2>3. PICK z : z = << >>
    OBVIOUS
  <2>4. s \in Safe(Whole)
    BY <2>2, ReachEnds
  <2>5. Reach(s, z, s, Safe(Whole))
    BY <2>3, <2>4, ReachNone
  <2>6. Result(s.cache, z) = s.cache
    BY <2>5, ReachResult
  <2>7. Reach(s, z \o AfterInit(s.cache), s, Safe(Whole))
    BY <2>2, <2>5, ReachThen
  <2>8. Reach(s, OpenSteps(s.cache), s, Safe(Whole))
    BY <1>1, <2>3, <2>6, <2>7, OpenStepsParts
  <2> QED
    BY <2>1, <2>4, <2>8
<1>2. CASE ~IsInitialized(s.cache)
  <2>1. PICK t \in Safe(Whole) :
          /\ Reach(s, InitStream, t, Safe(Whole))
          /\ t.medium = Settled(t.cache) /\ Pristine(t.cache)
    BY <1>2, InitStreamEffect
  <2>2. t \in States
    BY <2>1 DEF Safe
  <2>3. Reach(t, AfterInit(t.cache), t, Safe(Whole))
    BY <2>1, <2>2, PristineEffect
  <2>4. Result(s.cache, InitStream) = t.cache
    BY <2>1, ReachResult
  <2>5. Reach(s, InitStream \o AfterInit(t.cache), t, Safe(Whole))
    BY <2>1, <2>3, ReachThen
  <2>6. Reach(s, OpenSteps(s.cache), t, Safe(Whole))
    BY <1>2, <2>4, <2>5, OpenStepsParts
  <2> QED
    BY <2>1, <2>6
<1> QED
  BY <1>1, <1>2

-----------------------------------------------------------------------------
(* The inductive invariant                                                 *)

current == [cache |-> cache, medium |-> medium]

\* What a call or an interrupted call may make of the lists: nothing, or one step of
\* AllocatorSpec.
Outcomes(A, f) ==
  {<<A, f>>}
    \union {<<A, f \union {r}>> : r \in Regions \ (Range(A) \union f)}
    \union {<<Append(A, r), f \ {r}>> : r \in IF f = {} THEN Regions \ Range(A) ELSE f}
    \union {<<RemoveAt(A, i), f \union {A[i]}>> : i \in 1 .. Len(A)}

Outcome == Outcomes(allocated, free)

\* The states a power failure may be met in: before the first call of the application the
\* header is whole or not initialised, later the stream can be recovered to an outcome.
Home == IF operations = 0 THEN Safe(Whole) ELSE Safe(Recoverable(Outcome, used))

Ended(t) ==
  IF operations = 0 THEN t \in Safe(Whole) /\ t.medium = Settled(t.cache) /\ Pristine(t.cache)
  ELSE t \in Ends(Outcome, used)

Marked(t) == \A r \in Elements(t.cache, "allocated") : t.cache[MaxValid(r)] # Invalid

Types ==
  /\ current \in States
  /\ phase \in {"down", "opening", "running"}
  /\ iterator = [at |-> iterator.at, met |-> iterator.met, stayed |-> iterator.stayed]
  /\ iterator.at \in Links /\ iterator.stayed \subseteq Regions
  /\ operations \in 0 .. MaxOperations /\ crashes \in 0 .. MaxCrashes
  /\ allocated \in Chains /\ free \subseteq Regions /\ used \subseteq Range(allocated)
  /\ operations = 0 => allocated = << >> /\ free = {} /\ used = {}

\* After a power failure.
Restart ==
  phase = "down" =>
    /\ todo = << >> /\ medium = Settled(cache)
    /\ operations = 0 => cache \in Whole
    /\ operations # 0 => /\ IsInitialized(cache)
                         /\ \E A, F \in Chains : Recover(cache, A, F, Outcome, used)

\* A running call leads to an outcome through states a power failure may be met in.
Underway ==
  phase # "down" /\ ~Idle =>
    \E t : Reach(current, todo, t, Home) /\ Ended(t) /\ (phase = "opening" => Marked(t))

\* Between the calls the lists are those of the last outcome.
AtRest ==
  Idle => /\ \E F \in Chains : Good(current, allocated, F, used) /\ Range(F) = free
          /\ operations = 0 => Pristine(cache)

IInv == Types /\ Restart /\ Underway /\ AtRest

LEMMA CurrentFacts ==
  ASSUME Types
  PROVE  /\ current \in States /\ current.cache = cache /\ current.medium = medium
         /\ cache \in Memories /\ medium \in Media
         /\ \A w \in Words : cache[w] \in medium[w]
<1>1. current \in States /\ current.cache = cache /\ current.medium = medium
  BY DEF Types, current
<1> QED
  BY <1>1, StateFacts

-----------------------------------------------------------------------------
(* The initial states                                                      *)

LEMMA NewFileFacts ==
  NewFile \in Memories /\ ~IsInitialized(NewFile)
<1>1. 0 \in Links /\ 0 \in 0 .. Capacity /\ 0 \in 0 .. Invalid
  BY PlaceFacts DEF Links, Regions
<1>2. \A w \in Words : 0 \in Holds(w)
  BY <1>1 DEF Holds
<1>3. NewFile \in Memories
  BY <1>1, <1>2 DEF NewFile, Memories
<1>4. NewFile[Size("block")] = 0
  BY HeaderWordFacts DEF NewFile
<1> QED
  BY <1>3, <1>4 DEF IsInitialized

LEMMA OldStreamFacts ==
  OldStream \in Memories /\ ~IsInitialized(OldStream)
<1>1. /\ 0 \in Links /\ Capacity - 1 \in Links /\ Invalid \in Links /\ Capacity \in 0 .. Capacity
      /\ 1 \in 0 .. Invalid /\ 2 \in 0 .. Invalid /\ Links \subseteq 0 .. Invalid
      /\ 0 .. Capacity \subseteq 0 .. Invalid
  <2>1. Capacity \in Nat /\ Capacity >= 1 /\ Invalid = Capacity + 1 /\ Links = (0 .. Capacity - 1) \union {Invalid}
    BY PlaceFacts DEF Links, Regions, Invalid
  <2> QED
    BY <2>1
<1>2. OldStream[Size("block")] = 2
  <2>1. Size("block") \in Words
    BY HeaderWordFacts
  <2>2. Size("block") \notin Signature \union {Size("stream"), PersistedTimestamp} /\ Size("block")[1] # "data"
    BY HeaderWordsApart DEF Size
  <2> QED
    BY <2>1, <2>2 DEF OldStream, Size, FreeOffset, Hd, Tl
<1>3. ASSUME NEW w \in Words PROVE OldStream[w] \in Holds(w)
  <2>1. CASE w \in Signature \union {Size("stream"), PersistedTimestamp} \/ w[1] = "data"
    BY <1>1, <2>1 DEF OldStream, Holds, Signature, Size, PersistedTimestamp, FreeOffset, Hd, Tl
  <2>2. CASE w = Size("block")
    BY <1>1, <1>2, <2>2 DEF Holds, Size
  <2>3. CASE w = FreeOffset
    BY <1>1, <2>3 DEF OldStream, Holds, Signature, Size, PersistedTimestamp, FreeOffset, Hd, Tl
  <2>4. CASE w = Hd("allocated")
    BY <1>1, <2>4 DEF OldStream, Holds, Signature, Size, PersistedTimestamp, FreeOffset, Hd, Tl
  <2>5. CASE w = Tl("allocated")
    BY <1>1, <2>5 DEF OldStream, Holds, Signature, Size, PersistedTimestamp, FreeOffset, Hd, Tl
  <2>6. CASE w[1] = "next" /\ w[2] = "allocated" /\ w[3] + 1 < Capacity
    <3>1. PICK r \in Places : w = Nxt("allocated", r)
      BY <2>6 DEF Words, Nxt, Hd, Tl, FreeOffset, RecoveryFreeOffset, MaxValid, Data, Signature, Size,
                  PersistedTimestamp
    <3>2. w[1] = "next" /\ w[3] = r /\ r + 1 \in Links
      BY <2>6, <3>1, PlaceFacts DEF Nxt, Places, Links, Regions
    <3>3. OldStream[w] = r + 1
      BY <2>6, <3>1, <3>2 DEF OldStream, Nxt, Signature, Size, PersistedTimestamp, FreeOffset, Hd, Tl
    <3> QED
      BY <3>2, <3>3 DEF Holds
  <2>7. CASE ~(\/ w \in Signature \union {Size("stream"), PersistedTimestamp} \/ w[1] = "data"
               \/ w = Size("block") \/ w = FreeOffset \/ w = Hd("allocated") \/ w = Tl("allocated")
               \/ w[1] = "next" /\ w[2] = "allocated" /\ w[3] + 1 < Capacity)
    <3>1. OldStream[w] = Invalid
      BY <2>7 DEF OldStream
    <3>2. w[1] # "free_offset"
      BY <2>7 DEF Words, Nxt, Hd, Tl, FreeOffset, RecoveryFreeOffset, MaxValid, Data, Signature, Size,
                  PersistedTimestamp
    <3>3. Invalid \in 0 .. Invalid
      BY PlaceFacts
    <3> QED
      BY <1>1, <3>1, <3>2, <3>3 DEF Holds
  <2> QED
    BY <2>1, <2>2, <2>3, <2>4, <2>5, <2>6, <2>7
<1>4. \A w \in Words : Holds(w) \subseteq 0 .. Invalid
  BY <1>1 DEF Holds
<1>5. OldStream \in Memories
  BY <1>3, <1>4 DEF OldStream, Memories
<1> QED
  BY <1>2, <1>5 DEF IsInitialized

LEMMA InitIInv == Init => IInv
<1>1. SUFFICES ASSUME Init PROVE IInv
  OBVIOUS
<1>2. cache \in Memories /\ ~IsInitialized(cache)
  BY <1>1, NewFileFacts, OldStreamFacts DEF Init
<1>3. medium = Settled(cache)
  BY <1>1 DEF Init, Settled
<1>4. current \in States
  BY <1>2, <1>3, SettledState DEF current
<1>5. cache \in Whole
  BY <1>2 DEF Whole
<1>6. Types
  <2>1. MaxOperations \in Nat /\ MaxCrashes \in Nat
    BY AllocatorAssumption
  <2>2. << >> \in Chains
    BY EmptyChain
  <2>3. /\ iterator.at = Invalid /\ iterator.stayed = {}
        /\ iterator = [at |-> iterator.at, met |-> iterator.met, stayed |-> iterator.stayed]
    BY <1>1 DEF Init, NoIterator
  <2> QED
    BY <1>1, <1>4, <2>1, <2>2, <2>3, PlaceFacts DEF Types, Init
<1>7. Restart
  BY <1>1, <1>3, <1>5 DEF Restart, Init
<1>8. Underway /\ AtRest
  BY <1>1 DEF Underway, AtRest, Idle, Init
<1> QED
  BY <1>6, <1>7, <1>8 DEF IInv

-----------------------------------------------------------------------------
(* Every step keeps the invariant                                          *)

LEMMA SameOutcomes ==
  ASSUME UNCHANGED <<allocated, free, used>>
  PROVE  Outcome' = Outcome /\ used' = used
BY DEF Outcome

\* A power failure is always met in a state from which recovery leads to an outcome.
LEMMA CurrentHome ==
  ASSUME IInv, phase # "down"
  PROVE  current \in Home
<1>1. CASE ~Idle
  BY <1>1, ReachEnds DEF IInv, Underway
<1>2. CASE Idle
  <2>1. PICK F \in Chains : Good(current, allocated, F, used) /\ Range(F) = free
    BY <1>2 DEF IInv, AtRest
  <2>2. allocated \in Chains /\ current \in States /\ current.cache = cache /\ current.medium = medium
    BY CurrentFacts DEF IInv, Types
  <2>3. CASE operations = 0
    <3>1. Pristine(current.cache) /\ current.medium = Settled(current.cache)
      BY <1>2, <2>1, <2>2, <2>3 DEF IInv, AtRest, Good
    <3>2. current \in Safe(Whole)
      BY <2>2, <3>1, PristineGood
    <3> QED
      BY <2>3, <3>2 DEF Home
  <2>4. CASE operations # 0
    <3>1. Restored(current, allocated, F, used)
      BY <2>1, <2>2, GoodRestored
    <3>2. Range(F) \ Range(allocated) = Range(F) /\ <<allocated, Range(F)>> \in Outcome
      BY <2>1 DEF Good, Outcome, Outcomes
    <3>3. Pending(current.cache, allocated, F, Outcome)
      BY <2>1, <3>2 DEF Pending, Good
    <3>4. current \in Safe(Recoverable(Outcome, used))
      BY <2>2, <3>1, <3>3, RestoredSafe
    <3> QED
      BY <2>4, <3>4 DEF Home
  <2> QED
    BY <2>3, <2>4
<1> QED
  BY <1>1, <1>2

LEMMA RestFacts ==
  ASSUME IInv, Idle
  PROVE  \E F \in Chains :
           /\ allocated \in Chains /\ Good(current, allocated, F, used) /\ Range(F) = free
           /\ current \in States /\ current.cache = cache /\ current.medium = medium
           /\ medium = Settled(cache) /\ cache \in Memories
           /\ Elements(cache, "allocated") = Range(allocated) /\ Elements(cache, "free") = free
           /\ Listed(cache, "allocated") = allocated
           /\ Range(allocated) \subseteq Regions /\ used \subseteq Range(allocated)
<1>1. PICK F \in Chains : Good(current, allocated, F, used) /\ Range(F) = free
  BY DEF IInv, AtRest
<1>2. /\ current \in States /\ current.cache = cache /\ current.medium = medium
      /\ allocated \in Chains /\ cache \in Memories /\ used \subseteq Range(allocated)
  BY CurrentFacts DEF IInv, Types
<1>3. /\ Elements(cache, "allocated") = Range(allocated) /\ Elements(cache, "free") = Range(F)
      /\ Listed(cache, "allocated") = allocated /\ medium = Settled(cache)
  BY <1>1, <1>2, GoodFacts
<1>4. Range(allocated) \subseteq Regions
  BY <1>2, ChainFacts
<1> QED
  BY <1>1, <1>2, <1>3, <1>4

\* A call whose accesses lead to an outcome.
LEMMA CallIInv ==
  ASSUME IInv, NEW steps, Call(steps),
         \E t \in Ends(Outcome, used) : Reach(current, steps, t, Safe(Recoverable(Outcome, used)))
  PROVE  IInv'
<1>1. /\ Idle /\ operations < MaxOperations /\ operations' = operations + 1 /\ todo' = steps
      /\ UNCHANGED <<cache, medium, phase, crashes, allocated, free, used>>
  BY DEF Call
<1>2. operations \in Nat /\ MaxOperations \in Nat /\ operations' # 0 /\ operations' \in 0 .. MaxOperations
  BY <1>1, AllocatorAssumption DEF IInv, Types
<1>3. current' = current /\ Outcome' = Outcome /\ phase' = "running"
  BY <1>1 DEF current, Outcome, Idle
<1>4. Types'
  <2>1. /\ iterator' = [at |-> iterator'.at, met |-> iterator'.met, stayed |-> iterator'.stayed]
        /\ iterator'.at \in Links /\ iterator'.stayed \subseteq Regions
    BY PlaceFacts DEF Call, IInv, Types, NoIterator
  <2>2. crashes' \in 0 .. MaxCrashes
    BY <1>1 DEF IInv, Types
  <2> QED
    BY <1>1, <1>2, <1>3, <2>1, <2>2 DEF IInv, Types
<1>5. Restart'
  BY <1>3 DEF Restart
<1>6. Underway'
  <2>1. PICK t \in Ends(Outcome, used) : Reach(current, steps, t, Safe(Recoverable(Outcome, used)))
    OBVIOUS
  <2>2. Home' = Safe(Recoverable(Outcome, used))
    BY <1>1, <1>2, <1>3 DEF Home
  <2>3. Ended(t)'
    BY <1>1, <1>2, <1>3 DEF Ended
  <2> QED
    BY <1>1, <1>3, <2>1, <2>2, <2>3 DEF Underway
<1>7. AtRest'
  <2>1. PICK F \in Chains : Good(current, allocated, F, used) /\ Range(F) = free
    BY <1>1 DEF IInv, AtRest
  <2>2. Good(current, allocated, F, used)' /\ Range(F) = free'
    BY <1>1, <1>3, <2>1 DEF Good
  <2> QED
    BY <1>2, <2>2 DEF AtRest
<1> QED
  BY <1>4, <1>5, <1>6, <1>7 DEF IInv

LEMMA AllocateIInv ==
  ASSUME IInv, Allocate
  PROVE  IInv'
<1>1. Idle /\ (cache[Hd("free")] # Invalid \/ HasRoom(cache)) /\ Call(AllocateSteps(cache))
  BY DEF Allocate, Call
<1>2. PICK F \in Chains :
        /\ allocated \in Chains /\ Good(current, allocated, F, used) /\ Range(F) = free
        /\ current.cache = cache
  BY <1>1, RestFacts
<1>3. <<allocated, Range(F)>> \in Outcome
  BY <1>2 DEF Outcome, Outcomes
<1>4. \A r \in Range(F) : <<Append(allocated, r), Range(F) \ {r}>> \in Outcome
  BY <1>2 DEF Outcome, Outcomes
<1>5. Range(F) = {} => \A r \in Regions \ Range(allocated) :
                         <<allocated, {r}>> \in Outcome /\ <<Append(allocated, r), {}>> \in Outcome
  <2>1. SUFFICES ASSUME free = {}, NEW r \in Regions \ Range(allocated)
                 PROVE  <<allocated, {r}>> \in Outcome /\ <<Append(allocated, r), {}>> \in Outcome
    BY <1>2
  <2>2. free \union {r} = {r} /\ free \ {r} = {} /\ r \in Regions \ (Range(allocated) \union free)
    BY <2>1
  <2> QED
    BY <2>1, <2>2 DEF Outcome, Outcomes
<1>6. \E t \in Ends(Outcome, used) : Reach(current, AllocateSteps(cache), t, Safe(Recoverable(Outcome, used)))
  <2>1. PICK G, s : G = Outcome /\ s = current
    OBVIOUS
  <2>2. \E t \in Ends(G, used) : Reach(s, AllocateSteps(s.cache), t, Safe(Recoverable(G, used)))
    BY <1>1, <1>2, <1>3, <1>4, <1>5, <2>1, AllocateEffect
  <2> QED
    BY <1>2, <2>1, <2>2
<1> QED
  BY <1>1, <1>6, CallIInv

LEMMA FreeIInv ==
  ASSUME IInv, Free
  PROVE  IInv'
<1>1. PICK r \in Elements(cache, "allocated") : Call(FreeSteps(cache, r))
  BY DEF Free
<1>2. Idle
  BY <1>1 DEF Call
<1>3. PICK F \in Chains :
        /\ allocated \in Chains /\ Good(current, allocated, F, used) /\ Range(F) = free
        /\ current.cache = cache /\ Elements(cache, "allocated") = Range(allocated)
  BY <1>2, RestFacts
<1>4. PICK i \in 1 .. Len(allocated) : allocated[i] = r
  BY <1>1, <1>3, ChainFacts
<1>5. \E t \in Ends(Outcome, used) : Reach(current, FreeSteps(cache, r), t, Safe(Recoverable(Outcome, used)))
  <2>1. PICK G, s : G = Outcome /\ s = current
    OBVIOUS
  <2>2. <<allocated, Range(F)>> \in G /\ <<RemoveAt(allocated, i), Range(F) \union {allocated[i]}>> \in G
    BY <1>3, <2>1 DEF Outcome, Outcomes
  <2>3. Restored(s, allocated, F, used) /\ SettledOn(s, "allocated")
    BY <1>3, <2>1, GoodRestored
  <2>4. Range(allocated) \intersect Range(F) = {} /\ s.cache[RecoveryFreeOffset] = Invalid
    BY <1>3, <2>1 DEF Good
  <2>5. \E t \in Ends(G, used) : Reach(s, FreeSteps(s.cache, allocated[i]), t, Safe(Recoverable(G, used)))
    BY <1>3, <2>2, <2>3, <2>4, FreeEffect
  <2> QED
    BY <1>3, <1>4, <2>1, <2>5
<1> QED
  BY <1>1, <1>5, CallIInv

LEMMA UseIInv ==
  ASSUME IInv, Use
  PROVE  IInv'
<1>1. PICK r \in Elements(cache, "allocated") \ used :
        /\ Idle /\ used' = used \union {r}
        /\ cache' = [cache EXCEPT ![Data(r)] = 1, ![MaxValid(r)] = Invalid]
        /\ medium' = [medium EXCEPT ![Data(r)] = {1}, ![MaxValid(r)] = {Invalid}]
        /\ UNCHANGED <<todo, phase, iterator, operations, crashes, allocated, free>>
  BY DEF Use
<1>2. PICK F \in Chains :
        /\ allocated \in Chains /\ Good(current, allocated, F, used) /\ Range(F) = free
        /\ current \in States /\ current.cache = cache /\ current.medium = medium
        /\ medium = Settled(cache) /\ cache \in Memories
        /\ Elements(cache, "allocated") = Range(allocated)
        /\ Range(allocated) \subseteq Regions /\ used \subseteq Range(allocated)
  BY <1>1, RestFacts
<1>3. r \in Range(allocated) /\ r \in Regions /\ r \in Places /\ r \notin used
  BY <1>1, <1>2, PlaceFacts
<1>4. /\ Data(r) \in Words /\ MaxValid(r) \in Words /\ Data(r) # MaxValid(r)
      /\ Holds(Data(r)) = 0 .. Invalid /\ Holds(MaxValid(r)) = 0 .. Invalid
      /\ 1 \in 0 .. Invalid /\ Invalid \in 0 .. Invalid
  <2>1. 1 \in 0 .. Invalid /\ Invalid \in 0 .. Invalid
    BY PlaceFacts
  <2> QED
    BY <1>3, <2>1, HeaderWordFacts, HeaderWordsApart
<1>5. /\ cache' \in [Words -> 0 .. Invalid] /\ cache'[Data(r)] = 1 /\ cache'[MaxValid(r)] = Invalid
      /\ \A w \in Words \ {Data(r), MaxValid(r)} : cache'[w] = cache[w]
  BY <1>1, <1>2, <1>4 DEF Memories
<1>6. cache' \in Memories
  <2>1. \A w \in Words : cache'[w] \in Holds(w)
    BY <1>2, <1>4, <1>5 DEF Memories
  <2> QED
    BY <1>5, <2>1 DEF Memories
<1>7. medium' = Settled(cache')
  <2>1. medium \in [Words -> SUBSET (0 .. Invalid)]
    BY <1>2, SettledState, StateFacts DEF Media
  <2>2. \A w \in Words : medium'[w] = {cache'[w]}
    <3>1. SUFFICES ASSUME NEW w \in Words PROVE medium'[w] = {cache'[w]}
      OBVIOUS
    <3>2. medium'[w] = IF w = MaxValid(r) THEN {Invalid} ELSE IF w = Data(r) THEN {1} ELSE medium[w]
      BY <1>1, <1>4, <2>1
    <3>3. medium[w] = {cache[w]}
      BY <1>2, SettledState
    <3> QED
      BY <1>4, <1>5, <3>2, <3>3
  <2> QED
    BY <1>1, <2>1, <2>2 DEF Settled
<1>8. current' \in States /\ current'.cache = cache' /\ current'.medium = medium'
  <2>1. current' = [cache |-> cache', medium |-> Settled(cache')]
    BY <1>7 DEF current
  <2> QED
    BY <1>6, <1>7, <2>1, SettledState
<1>9. /\ \A l \in Lists : \A w \in ListWords(l) : cache'[w] = cache[w]
      /\ \A w \in HeaderWords : cache'[w] = cache[w]
      /\ \A q \in Range(allocated) \ {r} : cache'[Data(q)] = cache[Data(q)]
  <2>1. ASSUME NEW l \in Lists, NEW w \in ListWords(l) PROVE cache'[w] = cache[w]
    BY <1>3, <1>5, ListWordsApart, ListWordFacts
  <2>2. ASSUME NEW w \in HeaderWords PROVE cache'[w] = cache[w]
    BY <1>3, <1>5, HeaderApart
  <2>3. ASSUME NEW q \in Range(allocated) \ {r} PROVE cache'[Data(q)] = cache[Data(q)]
    <3>1. q \in Places /\ Data(q) \in Words
      BY <1>2, PlaceFacts, HeaderWordFacts
    <3>2. Data(q) # Data(r) /\ Data(q) # MaxValid(r)
      BY <1>3, <3>1, HeaderWordsApart
    <3> QED
      BY <1>5, <3>1, <3>2
  <2> QED
    BY <2>1, <2>2, <2>3
<1>10. Good(current', allocated, F, used')
  <2>1. Exact(cache', "allocated", allocated) /\ Exact(cache', "free", F)
    BY <1>2, <1>9, SameList DEF Good, Lists
  <2>2. IsInitialized(cache')
    BY <1>2, <1>9, SameInitialized DEF Good
  <2>3. /\ cache'[FreeOffset] = cache[FreeOffset] /\ cache'[RecoveryFreeOffset] = cache[RecoveryFreeOffset]
        /\ cache'[PersistedTimestamp] = cache[PersistedTimestamp]
    BY <1>9 DEF HeaderWords
  <2>4. \A q \in Range(allocated) \ used' : cache'[Data(q)] = 0
    BY <1>1, <1>2, <1>9 DEF Good
  <2> QED
    BY <1>2, <1>7, <1>8, <2>1, <2>2, <2>3, <2>4 DEF Good
<1>11. operations # 0
  <2>1. allocated # << >>
    BY <1>2, <1>3, EmptyChain
  <2> QED
    BY <2>1 DEF IInv, Types
<1>12. Types'
  BY <1>1, <1>2, <1>3, <1>8, <1>11 DEF IInv, Types
<1>13. AtRest'
  <2>1. Good(current, allocated, F, used)'
    BY <1>1, <1>10
  <2>2. Range(F) = free' /\ operations' # 0
    BY <1>1, <1>2, <1>11
  <2> QED
    BY <2>1, <2>2 DEF AtRest
<1>14. Restart' /\ Underway'
  BY <1>1 DEF Restart, Underway, Idle
<1> QED
  BY <1>12, <1>13, <1>14 DEF IInv

LEMMA MoveIInv ==
  ASSUME IInv, SeekFirst \/ IteratorNext
  PROVE  IInv'
<1>1. Idle /\ UNCHANGED <<cache, medium, todo, phase, operations, crashes, allocated, free, used>>
  BY DEF SeekFirst, IteratorNext, MoveTo
<1>2. PICK F \in Chains :
        /\ Good(current, allocated, F, used) /\ Range(F) = free /\ cache \in Memories
        /\ Elements(cache, "allocated") = Range(allocated) /\ Range(allocated) \subseteq Regions
  BY <1>1, RestFacts
<1>3. current' = current /\ Outcome' = Outcome
  BY <1>1 DEF current, Outcome
<1>4. /\ iterator' = [at |-> iterator'.at, met |-> iterator'.met, stayed |-> iterator'.stayed]
      /\ iterator'.at \in Links /\ iterator'.stayed \subseteq Regions
  <2>1. CASE SeekFirst
    <3>1. cache[Hd("allocated")] \in Links
      BY <1>2, ListWordFacts DEF Memories, Lists
    <3> QED
      BY <1>2, <2>1, <3>1 DEF SeekFirst, MoveTo
  <2>2. CASE IteratorNext
    <3>1. iterator.at \in Places
      BY <2>2, PlaceFacts DEF IteratorNext, IInv, Types, Links
    <3>2. cache[Nxt("allocated", iterator.at)] \in Links
      BY <1>2, <3>1, ListWordFacts DEF Memories, Lists
    <3> QED
      BY <2>2, <3>2 DEF IteratorNext, MoveTo, IInv, Types
  <2> QED
    BY <2>1, <2>2
<1>5. Types'
  BY <1>1, <1>3, <1>4 DEF IInv, Types
<1>6. AtRest'
  <2>1. Good(current, allocated, F, used)'
    BY <1>1, <1>2, <1>3
  <2> QED
    BY <1>1, <1>2, <2>1 DEF IInv, AtRest
<1>7. Restart' /\ Underway'
  BY <1>1 DEF Restart, Underway, Idle
<1> QED
  BY <1>5, <1>6, <1>7 DEF IInv

LEMMA HomeStates == Home \subseteq States
BY DEF Home, Safe

\* The next access of a call.
LEMMA StepFacts ==
  ASSUME IInv, Step
  PROVE  /\ phase # "down" /\ ~Idle
         /\ \E t : /\ Reach(current, todo, t, Home) /\ Reach(current', todo', t, Home)
                   /\ Ended(t) /\ (phase = "opening" => Marked(t))
                   /\ current' \in States /\ current'.cache = cache' /\ current'.medium = medium'
                   /\ (todo' = << >> => t = current')
<1>1. todo # << >>
  BY DEF Step
<1>2. phase # "down" /\ ~Idle
  BY <1>1 DEF IInv, Restart, Idle
<1>3. PICK t : Reach(current, todo, t, Home) /\ Ended(t) /\ (phase = "opening" => Marked(t))
  BY <1>2 DEF IInv, Underway
<1>4. Reach(Access(current, Head(todo)), Tail(todo), t, Home)
  BY <1>1, <1>3, ReachRest
<1>5. current' = Access(current, Head(todo))
  <2>1. current.cache = cache /\ current.medium = medium
    BY DEF current
  <2>2. /\ cache' = Perform(cache, Head(todo))
        /\ medium' = CASE Head(todo).access = "store" ->
                             [medium EXCEPT ![Head(todo).word] = @ \union {Head(todo).value}]
                       [] Head(todo).access = "drain" -> [w \in Words |-> {cache[w]}]
                       [] OTHER -> medium
    BY DEF Step
  <2>3. Settled(cache) = [w \in Words |-> {cache[w]}]
    BY DEF Settled
  <2>4. current' = [cache |-> cache', medium |-> medium']
    BY DEF current
  <2> QED
    BY <2>1, <2>2, <2>3, <2>4 DEF Access
<1>6. todo' = Tail(todo)
  BY DEF Step
<1>7. Reach(current', todo', t, Home)
  BY <1>4, <1>5, <1>6
<1>8. current' \in States
  BY <1>7, ReachEnds, HomeStates
<1>9. current'.cache = cache' /\ current'.medium = medium'
  BY DEF current
<1>10. todo' = << >> => t = current'
  BY <1>7, ReachEmpty
<1> QED
  BY <1>2, <1>3, <1>7, <1>8, <1>9, <1>10

\* The last access of a call makes the lists those of an outcome.
LEMMA ReturnFacts ==
  ASSUME IInv, Step, todo' = << >>
  PROVE  /\ phase' = "running" /\ operations' = operations
         /\ \E F \in Chains : Good(current', allocated', F, used') /\ Range(F) = free'
         /\ allocated' \in Chains /\ free' \subseteq Regions /\ used' \subseteq Range(allocated')
         /\ operations = 0 => allocated' = << >> /\ free' = {} /\ used' = {} /\ Pristine(cache')
         /\ operations # 0 => <<allocated', free'>> \in Outcome
<1>1. /\ phase' = "running" /\ operations' = operations
      /\ allocated' = Listed(cache', "allocated") /\ free' = Elements(cache', "free")
      /\ used' = used \intersect Elements(cache', "allocated")
  BY DEF Step
<1>2. Ended(current') /\ current' \in States /\ current'.cache = cache' /\ current'.medium = medium'
  BY StepFacts
<1>3. CASE operations = 0
  <2>1. /\ Pristine(cache') /\ current'.medium = Settled(current'.cache)
    BY <1>2, <1>3 DEF Ended
  <2>2. Good(current', << >>, << >>, used') /\ Elements(cache', "allocated") = {} /\ Listed(cache', "allocated") = << >>
    BY <1>2, <2>1, PristineGood
  <2>3. << >> \in Chains /\ Range(<< >>) = {}
    BY EmptyChain
  <2>4. PICK E : E = << >>
    OBVIOUS
  <2>5. Elements(cache', "free") = Range(E)
    BY <1>2, <2>2, <2>3, <2>4, GoodFacts
  <2>6. allocated' = << >> /\ free' = {} /\ used' = {}
    BY <1>1, <2>2, <2>3, <2>4, <2>5
  <2>7. \E F \in Chains : Good(current', allocated', F, used') /\ Range(F) = free'
    BY <2>2, <2>3, <2>6
  <2> QED
    BY <1>1, <1>3, <2>1, <2>3, <2>6, <2>7
<1>4. CASE operations # 0
  <2>1. PICK A, F \in Chains : Good(current', A, F, used) /\ <<A, Range(F)>> \in Outcome
    BY <1>2, <1>4 DEF Ended, Ends
  <2>2. /\ Elements(cache', "allocated") = Range(A) /\ Elements(cache', "free") = Range(F)
        /\ Listed(cache', "allocated") = A
    BY <1>2, <2>1, GoodFacts
  <2>3. allocated' = A /\ free' = Range(F) /\ used' = used \intersect Range(A)
    BY <1>1, <2>2
  <2>4. Good(current', A, F, used')
    <3>1. Range(A) \ used' = Range(A) \ used
      BY <2>3
    <3> QED
      BY <2>1, <3>1 DEF Good
  <2>5. Range(F) \subseteq Regions
    BY <2>1, ChainFacts
  <2> QED
    BY <1>1, <1>4, <2>1, <2>3, <2>4, <2>5
<1> QED
  BY <1>3, <1>4

LEMMA StepIInv ==
  ASSUME IInv, Step
  PROVE  IInv'
<1>1. operations' = operations /\ crashes' = crashes
  BY DEF Step
<1>2. phase # "down" /\ ~Idle /\ current' \in States
  BY StepFacts
<1>3. CASE todo' # << >>
  <2>1. UNCHANGED <<phase, iterator, allocated, free, used>>
    BY <1>3 DEF Step
  <2>2. Types'
    BY <1>1, <1>2, <2>1 DEF IInv, Types
  <2>3. Outcome' = Outcome /\ Home' = Home
    BY <1>1, <2>1 DEF Outcome, Home
  <2>4. Underway'
    <3>1. PICK t : Reach(current', todo', t, Home) /\ Ended(t) /\ (phase = "opening" => Marked(t))
      BY StepFacts
    <3>2. Ended(t)' /\ Marked(t)' = Marked(t)
      BY <1>1, <2>1, <2>3, <3>1 DEF Ended, Marked
    <3> QED
      BY <2>1, <2>3, <3>1, <3>2 DEF Underway
  <2>5. Restart' /\ AtRest'
    BY <1>2, <1>3, <2>1 DEF Restart, AtRest, Idle
  <2> QED
    BY <2>2, <2>4, <2>5 DEF IInv
<1>4. CASE todo' = << >>
  <2>1. /\ phase' = "running" /\ operations' = operations
        /\ \E F \in Chains : Good(current', allocated', F, used') /\ Range(F) = free'
        /\ allocated' \in Chains /\ free' \subseteq Regions /\ used' \subseteq Range(allocated')
        /\ operations = 0 => allocated' = << >> /\ free' = {} /\ used' = {} /\ Pristine(cache')
    BY <1>4, ReturnFacts
  <2>2. /\ iterator' = [at |-> iterator'.at, met |-> iterator'.met, stayed |-> iterator'.stayed]
        /\ iterator'.at \in Links /\ iterator'.stayed \subseteq Regions
    <3>1. /\ iterator = [at |-> iterator.at, met |-> iterator.met, stayed |-> iterator.stayed]
          /\ iterator.at \in Links /\ iterator.stayed \subseteq Regions
      BY DEF IInv, Types
    <3>2. iterator' = [iterator EXCEPT !.stayed = @ \intersect Elements(cache', "allocated")]
      BY <1>4 DEF Step
    <3> QED
      BY <3>1, <3>2
  <2>3. Types'
    BY <1>1, <1>2, <2>1, <2>2 DEF IInv, Types
  <2>4. Restart' /\ Underway'
    BY <1>4, <2>1 DEF Restart, Underway, Idle
  <2>5. AtRest'
    BY <1>1, <2>1 DEF AtRest
  <2> QED
    BY <2>3, <2>4, <2>5 DEF IInv
<1> QED
  BY <1>3, <1>4

LEMMA CrashIInv ==
  ASSUME IInv, Crash, ~CrashInExtension
  PROVE  IInv'
<1>1. /\ phase # "down" /\ crashes < MaxCrashes /\ crashes' = crashes + 1
      /\ medium' = Settled(cache') /\ todo' = << >> /\ phase' = "down" /\ iterator' = NoIterator
      /\ UNCHANGED <<operations, allocated, free, used>>
      /\ ~IsInitialized(cache') \/ cache'[Hd("free")] # cache'[FreeOffset]
  BY DEF Crash, Settled
<1>2. cache' \in Images(medium) /\ cache' \in Memories
  <2>1. /\ medium \in Media /\ \A w \in Words : cache[w] \in medium[w]
    BY CurrentFacts DEF IInv
  <2>2. \E value, U :
          /\ \A w \in U : value[w] \in medium[w]
          /\ cache' = [w \in Words |-> IF w \in U THEN value[w] ELSE CHOOSE v \in medium[w] : TRUE]
    <3>1. \E x \in [{z \in Words : Cardinality(medium[z]) > 1} ->
                      UNION {medium[y] : y \in {z \in Words : Cardinality(medium[z]) > 1}}] :
            /\ \A w \in {z \in Words : Cardinality(medium[z]) > 1} : x[w] \in medium[w]
            /\ cache' = [w \in Words |-> IF w \in {z \in Words : Cardinality(medium[z]) > 1} THEN x[w]
                                         ELSE CHOOSE v \in medium[w] : TRUE]
      BY DEF Crash
    <3> QED
      BY <3>1
  <2>3. \A w \in Words : cache'[w] \in medium[w]
    BY <2>1, <2>2
  <2>6. cache' = [w \in Words |-> cache'[w]]
    BY <2>2
  <2>4. \A w \in Words : cache'[w] \in Holds(w) /\ cache'[w] \in 0 .. Invalid
    BY <2>1, <2>3 DEF Media
  <2>5. cache' \in Memories
    BY <2>4, <2>6 DEF Memories
  <2> QED
    BY <2>3, <2>5 DEF Images
<1>3. current \in Home /\ current.medium = medium
  BY <1>1, CurrentHome, CurrentFacts DEF IInv
<1>4. current' \in States
  <2>1. current' = [cache |-> cache', medium |-> Settled(cache')]
    BY <1>1 DEF current
  <2> QED
    BY <1>2, <2>1, SettledState
<1>5. Types'
  <2>1. crashes' \in 0 .. MaxCrashes
    <3>1. crashes \in Nat /\ MaxCrashes \in Nat
      BY AllocatorAssumption DEF IInv, Types
    <3> QED
      BY <1>1, <3>1
  <2>2. /\ iterator' = [at |-> iterator'.at, met |-> iterator'.met, stayed |-> iterator'.stayed]
        /\ iterator'.at \in Links /\ iterator'.stayed \subseteq Regions
    BY <1>1, PlaceFacts DEF NoIterator
  <2> QED
    BY <1>1, <1>4, <2>1, <2>2 DEF IInv, Types
<1>6. Restart'
  <2>1. Outcome' = Outcome
    BY <1>1 DEF Outcome
  <2>2. CASE operations = 0
    <3>1. cache' \in Whole
      BY <1>2, <1>3, <2>2 DEF Home, Safe
    <3> QED
      BY <1>1, <2>2, <3>1 DEF Restart
  <2>3. CASE operations # 0
    <3>1. cache' \in Recoverable(Outcome, used)
      BY <1>2, <1>3, <2>3 DEF Home, Safe
    <3>2. IsInitialized(cache') /\ \E A, F \in Chains : Recover(cache', A, F, Outcome, used)
      BY <1>1, <3>1 DEF Recoverable
    <3> QED
      BY <1>1, <2>1, <2>3, <3>2 DEF Restart
  <2> QED
    BY <2>2, <2>3
<1>7. Underway' /\ AtRest'
  BY <1>1 DEF Underway, AtRest, Idle
<1> QED
  BY <1>5, <1>6, <1>7 DEF IInv

LEMMA OpenIInv ==
  ASSUME IInv, Open
  PROVE  IInv'
<1>1. /\ phase = "down" /\ phase' = "opening" /\ todo' = OpenSteps(cache)
      /\ UNCHANGED <<cache, medium, iterator, operations, crashes, allocated, free, used>>
  BY DEF Open
<1>2. current' = current /\ Outcome' = Outcome /\ Home' = Home
  BY <1>1 DEF current, Outcome, Home
<1>3. Types'
  BY <1>1, <1>2 DEF IInv, Types
<1>4. Restart' /\ AtRest'
  BY <1>1 DEF Restart, AtRest, Idle
<1>5. \E t : Reach(current, OpenSteps(cache), t, Home) /\ Ended(t) /\ Marked(t)
  <2>1. PICK s : s = current
    OBVIOUS
  <2>2. s \in States /\ s.cache = cache /\ s.medium = medium /\ s.medium = Settled(s.cache)
    BY <1>1, <2>1, CurrentFacts DEF IInv, Restart
  <2>3. CASE operations = 0
    <3>1. s.cache \in Whole
      BY <1>1, <2>2, <2>3 DEF IInv, Restart
    <3>2. PICK t \in Safe(Whole) :
            /\ Reach(s, OpenSteps(s.cache), t, Safe(Whole))
            /\ t.medium = Settled(t.cache) /\ Pristine(t.cache)
      BY <2>2, <3>1, BlankEffect
    <3>3. t \in States
      BY DEF Safe
    <3>4. Elements(t.cache, "allocated") = {}
      BY <3>2, <3>3, PristineGood
    <3>5. Home = Safe(Whole) /\ Ended(t) /\ Marked(t)
      BY <2>3, <3>2, <3>4 DEF Home, Ended, Marked
    <3> QED
      BY <2>1, <2>2, <3>2, <3>5
  <2>4. CASE operations # 0
    <3>1. PICK A, F \in Chains : Recover(s.cache, A, F, Outcome, used) /\ IsInitialized(s.cache)
      BY <1>1, <2>2, <2>4 DEF IInv, Restart
    <3>2. PICK G : G = Outcome
      OBVIOUS
    <3>3. PICK t \in Ends(G, used) :
            /\ Reach(s, OpenSteps(s.cache), t, Safe(Recoverable(G, used)))
            /\ \A r \in Elements(t.cache, "allocated") : t.cache[MaxValid(r)] # Invalid
      BY <2>2, <3>1, <3>2, RecoveryEffect
    <3>4. Home = Safe(Recoverable(G, used)) /\ Ended(t) /\ Marked(t)
      BY <2>4, <3>2, <3>3 DEF Home, Ended, Marked
    <3> QED
      BY <2>1, <2>2, <3>3, <3>4
  <2> QED
    BY <2>3, <2>4
<1>6. Underway'
  <2>1. PICK t : Reach(current, OpenSteps(cache), t, Home) /\ Ended(t) /\ Marked(t)
    BY <1>5
  <2>2. Ended(t)' /\ Marked(t)'
    BY <1>1, <1>2, <2>1 DEF Ended, Marked
  <2> QED
    BY <1>1, <1>2, <2>1, <2>2 DEF Underway
<1> QED
  BY <1>3, <1>4, <1>6 DEF IInv

LEMMA NextIInv ==
  ASSUME IInv, [Next]_vars, ~CrashInExtension
  PROVE  IInv'
<1>1. CASE UNCHANGED vars
  <2>1. UNCHANGED <<cache, medium, todo, phase, iterator, operations, crashes, allocated, free, used>>
    BY <1>1 DEF vars
  <2>2. current' = current /\ Outcome' = Outcome /\ Home' = Home
    BY <2>1 DEF current, Outcome, Home
  <2>3. Types'
    BY <2>1, <2>2 DEF IInv, Types
  <2>4. Restart'
    BY <2>1, <2>2 DEF IInv, Restart
  <2>5. Underway'
    <3>1. SUFFICES ASSUME phase # "down", ~Idle PROVE Underway'
      BY <2>1 DEF Underway, Idle
    <3>2. PICK t : Reach(current, todo, t, Home) /\ Ended(t) /\ (phase = "opening" => Marked(t))
      BY <3>1 DEF IInv, Underway
    <3>3. Ended(t)' /\ Marked(t)' = Marked(t)
      BY <2>1, <2>2, <3>2 DEF Ended, Marked
    <3> QED
      BY <2>1, <2>2, <3>2, <3>3 DEF Underway
  <2>6. AtRest'
    <3>1. SUFFICES ASSUME Idle PROVE AtRest'
      BY <2>1 DEF AtRest, Idle
    <3>2. PICK F \in Chains : Good(current, allocated, F, used) /\ Range(F) = free
      BY <3>1 DEF IInv, AtRest
    <3>3. Good(current, allocated, F, used)' /\ Range(F) = free'
      BY <2>1, <2>2, <3>2
    <3> QED
      BY <2>1, <3>1, <3>3 DEF IInv, AtRest
  <2> QED
    BY <2>3, <2>4, <2>5, <2>6 DEF IInv
<1>2. CASE Allocate
  BY <1>2, AllocateIInv
<1>3. CASE Free
  BY <1>3, FreeIInv
<1>4. CASE Use
  BY <1>4, UseIInv
<1>5. CASE SeekFirst \/ IteratorNext
  BY <1>5, MoveIInv
<1>6. CASE Step
  BY <1>6, StepIInv
<1>7. CASE Crash
  BY <1>7, CrashIInv
<1>8. CASE Open
  BY <1>8, OpenIInv
<1> QED
  BY <1>1, <1>2, <1>3, <1>4, <1>5, <1>6, <1>7, <1>8 DEF Next

\* The inductive invariant: the lists between calls are those of the last call that
\* returned, a call in progress leads to an outcome only through states whose every
\* image after a power failure can be recovered to an outcome, and so can the image a
\* stream that is down was left with.
THEOREM AllocatorInvariant ==
  ASSUME ~CrashInExtension
  PROVE  Spec => []IInv
<1>1. Init => IInv
  BY InitIInv
<1>2. IInv /\ [Next]_vars => IInv'
  BY NextIInv
<1> QED
  BY <1>1, <1>2, PTL DEF Spec

-----------------------------------------------------------------------------
(* What follows from it                                                    *)

LEMMA IInvTypeOK == IInv => TypeOK
<1>1. SUFFICES ASSUME IInv PROVE TypeOK
  OBVIOUS
<1>2. cache \in Memories /\ medium \in Media
  BY <1>1, CurrentFacts DEF IInv
<1>3. cache \in [Words -> 0 .. Invalid] /\ cache[FreeOffset] \in 0 .. Capacity
  BY <1>2, HeaderWordFacts DEF Memories
<1>4. medium \in [Words -> SUBSET (0 .. Invalid)]
  BY <1>2 DEF Media
<1>5. Range(allocated) \subseteq Regions /\ \A i \in DOMAIN allocated : allocated[i] \in Regions
  BY <1>1, ChainFacts DEF IInv, Types, Chains
<1> QED
  BY <1>1, <1>3, <1>4, <1>5 DEF IInv, Types, TypeOK, Links

LEMMA IInvWhole == IInv => InitializationIsWhole
BY DEF IInv, Restart, InitializationIsWhole, Whole, Pristine, Lists

LEMMA IInvOneList == IInv => EachRegionInOneList
<1>1. SUFFICES ASSUME IInv, Idle PROVE EachRegionInOneList
  BY DEF EachRegionInOneList
<1>2. PICK F \in Chains :
        /\ allocated \in Chains /\ Good(current, allocated, F, used)
        /\ current.cache = cache /\ cache \in Memories
  BY <1>1, RestFacts
<1>3. /\ Exact(cache, "allocated", allocated) /\ Exact(cache, "free", F)
      /\ Range(allocated) \intersect Range(F) = {}
      /\ Range(allocated) \union Range(F) = 0 .. cache[FreeOffset] - 1
  BY <1>2 DEF Good
<1>4. /\ Elements(cache, "allocated") = Range(allocated) /\ Walk(cache, "allocated")[Capacity] = Invalid
      /\ Elements(cache, "free") = Range(F) /\ Walk(cache, "free")[Capacity] = Invalid
  BY <1>2, <1>3, ListedOf DEF Lists
<1> QED
  BY <1>3, <1>4 DEF EachRegionInOneList

LEMMA IInvAsserts == IInv => SlistAsserts
<1>1. SUFFICES ASSUME IInv, todo # << >>, Head(todo).access = "assert"
               PROVE  SlistInvariants(cache, Head(todo).list)
  BY DEF SlistAsserts
<1>2. phase # "down" /\ ~Idle
  BY <1>1 DEF IInv, Restart, Idle
<1>3. PICK t : Reach(current, todo, t, Home)
  BY <1>1, <1>2 DEF IInv, Underway
<1>4. SlistInvariants(current.cache, Head(todo).list)
  BY <1>1, <1>3, ReachRest
<1> QED
  BY <1>4 DEF current

LEMMA IInvEmpty == IInv => NewRegionIsEmpty
<1>1. SUFFICES ASSUME IInv, Idle, NEW r \in Elements(cache, "allocated") \ used
               PROVE  medium[Data(r)] = {0}
  BY DEF NewRegionIsEmpty
<1>2. PICK F \in Chains :
        /\ Good(current, allocated, F, used) /\ current.cache = cache /\ medium = Settled(cache)
        /\ cache \in Memories /\ Elements(cache, "allocated") = Range(allocated)
        /\ Range(allocated) \subseteq Regions
  BY <1>1, RestFacts
<1>3. cache[Data(r)] = 0
  BY <1>1, <1>2 DEF Good
<1>4. Data(r) \in Words
  BY <1>1, <1>2, PlaceFacts, HeaderWordFacts
<1> QED
  BY <1>2, <1>3, <1>4, SettledState

\* Every word is on the medium when a call returns.
LEMMA ReturnMarked ==
  ASSUME IInv, Step, phase = "opening", phase' = "running"
  PROVE  \A r \in Elements(cache', "allocated") : Invalid \notin medium'[MaxValid(r)]
<1>1. todo' = << >>
  BY DEF Step
<1>2. Marked(current') /\ current' \in States /\ current'.cache = cache' /\ current'.medium = medium'
  BY <1>1, StepFacts
<1>3. PICK F \in Chains : Good(current', allocated', F, used') /\ allocated' \in Chains
  BY <1>1, ReturnFacts
<1>4. /\ medium' = Settled(cache') /\ cache' \in Memories
      /\ Elements(cache', "allocated") = Range(allocated')
  BY <1>2, <1>3, GoodFacts
<1>5. Range(allocated') \subseteq Regions
  BY <1>3, ChainFacts
<1>6. SUFFICES ASSUME NEW r \in Elements(cache', "allocated") PROVE Invalid \notin medium'[MaxValid(r)]
  OBVIOUS
<1>7. cache'[MaxValid(r)] # Invalid
  BY <1>2, <1>6 DEF Marked
<1>8. MaxValid(r) \in Words
  BY <1>4, <1>5, <1>6, PlaceFacts, HeaderWordFacts
<1>9. medium'[MaxValid(r)] = {cache'[MaxValid(r)]}
  BY <1>4, <1>8, SettledState
<1> QED
  BY <1>7, <1>9

LEMMA NextMarks ==
  ASSUME IInv, [Next]_vars
  PROVE  [phase = "opening" /\ phase' = "running" =>
            \A r \in Elements(cache', "allocated") : Invalid \notin medium'[MaxValid(r)]]_vars
<1>1. SUFFICES ASSUME Next, phase = "opening", phase' = "running"
               PROVE  \A r \in Elements(cache', "allocated") : Invalid \notin medium'[MaxValid(r)]
  OBVIOUS
<1>2. Step
  BY <1>1 DEF Next, Allocate, Free, Use, SeekFirst, IteratorNext, MoveTo, Crash, Open, Call, Idle
<1> QED
  BY <1>1, <1>2, ReturnMarked

-----------------------------------------------------------------------------
(* The abstract specification                                              *)

LEMMA InitAbstract == Init => Abstract!Init
BY DEF Init, Abstract!Init

\* An outcome is a step of the abstract specification.
LEMMA OutcomeAbstract ==
  ASSUME allocated \in Chains, <<allocated', free'>> \in Outcome
  PROVE  [Abstract!Next]_<<allocated, free>>
<1>1. Abstract!Known = Range(allocated) \union free
  BY DEF Abstract!Known, Abstract!Range, Range
<1>2. DOMAIN allocated = 1 .. Len(allocated)
  BY DEF Chains
<1>3. CASE allocated' = allocated /\ free' = free
  BY <1>3
<1>4. ASSUME NEW r \in Regions \ (Range(allocated) \union free),
             allocated' = allocated, free' = free \union {r}
      PROVE  Abstract!Extend
  BY <1>1, <1>4 DEF Abstract!Extend
<1>5. ASSUME NEW r \in IF free = {} THEN Regions \ Range(allocated) ELSE free,
             allocated' = Append(allocated, r), free' = free \ {r}
      PROVE  Abstract!Allocate
  BY <1>1, <1>5 DEF Abstract!Allocate
<1>6. ASSUME NEW i \in 1 .. Len(allocated),
             allocated' = RemoveAt(allocated, i), free' = free \union {allocated[i]}
      PROVE  Abstract!Free
  BY <1>2, <1>6 DEF Abstract!Free, Abstract!RemoveAt, RemoveAt
<1>7. \/ allocated' = allocated /\ free' = free
      \/ \E r \in Regions \ (Range(allocated) \union free) : allocated' = allocated /\ free' = free \union {r}
      \/ \E r \in IF free = {} THEN Regions \ Range(allocated) ELSE free :
           allocated' = Append(allocated, r) /\ free' = free \ {r}
      \/ \E i \in 1 .. Len(allocated) : allocated' = RemoveAt(allocated, i) /\ free' = free \union {allocated[i]}
  BY DEF Outcome, Outcomes
<1> QED
  BY <1>3, <1>4, <1>5, <1>6, <1>7 DEF Abstract!Next

LEMMA NextAbstract ==
  ASSUME IInv, [Next]_vars
  PROVE  [Abstract!Next]_<<allocated, free>>
<1>1. CASE UNCHANGED <<allocated, free>>
  BY <1>1
<1>2. CASE Step /\ todo' = << >>
  <2>1. CASE operations = 0
    <3>1. allocated' = << >> /\ free' = {} /\ allocated = << >> /\ free = {}
      BY <1>2, <2>1, ReturnFacts DEF IInv, Types
    <3> QED
      BY <3>1
  <2>2. CASE operations # 0
    <3>1. <<allocated', free'>> \in Outcome
      BY <1>2, <2>2, ReturnFacts
    <3> QED
      BY <3>1, OutcomeAbstract DEF IInv, Types
  <2> QED
    BY <2>1, <2>2
<1>3. Next => UNCHANGED <<allocated, free>> \/ (Step /\ todo' = << >>)
  BY DEF Next, Allocate, Free, Use, SeekFirst, IteratorNext, MoveTo, Crash, Open, Call, Step
<1>4. UNCHANGED vars => UNCHANGED <<allocated, free>>
  BY DEF vars
<1> QED
  BY <1>1, <1>2, <1>3, <1>4

-----------------------------------------------------------------------------
(* Theorems                                                                *)

\* The words of the header and of the regions hold offsets of the stream or the
\* invalid offset, in the CPU's view and on the medium, whatever power failures
\* there are: no list operation of region_allocator.h or singly_linked_list.h and
\* no recovery stores anything else.
THEOREM AllocatorTypes ==
  ASSUME ~CrashInExtension
  PROVE  Spec => []TypeOK
BY AllocatorInvariant, IInvTypeOK, PTL

\* A signature that survives a power failure in pmemstream_init stands for a complete
\* header: empty lists, nothing of an older stream.
THEOREM HeaderIsWhole ==
  ASSUME ~CrashInExtension
  PROVE  Spec => []InitializationIsWhole
BY AllocatorInvariant, IInvWhole, PTL

\* Between the calls of the application, whatever power failures there were, every
\* region below free_offset is in exactly one of the two lists, and both end.
THEOREM RegionsAreListedOnce ==
  ASSUME ~CrashInExtension
  PROVE  Spec => []EachRegionInOneList
BY AllocatorInvariant, IInvOneList, PTL

\* SLIST_INVARIANTS holds wherever a list macro asserts it, in recovery as well.
THEOREM ListAssertsHold ==
  ASSUME ~CrashInExtension
  PROVE  Spec => []SlistAsserts
BY AllocatorInvariant, IInvAsserts, PTL

\* allocator_region_allocate hands out regions that are empty on the medium.
THEOREM AllocatedRegionsAreEmpty ==
  ASSUME ~CrashInExtension
  PROVE  Spec => []NewRegionIsEmpty
BY AllocatorInvariant, IInvEmpty, PTL

\* When pmemstream_from_map returns, every allocated region is marked for its
\* recovery, and the marks are on the medium.
THEOREM OpeningMarks ==
  ASSUME ~CrashInExtension
  PROVE  Spec => OpenMarksRegions
<1>1. IInv /\ [Next]_vars =>
        [phase = "opening" /\ phase' = "running" =>
           \A r \in Elements(cache', "allocated") : Invalid \notin medium'[MaxValid(r)]]_vars
  BY NextMarks
<1> QED
  BY <1>1, AllocatorInvariant, PTL DEF Spec, OpenMarksRegions

\* allocator_region_allocate, allocator_region_free and the recovery after a power
\* failure in any of them make the lists what one step of AllocatorSpec makes them,
\* or leave them as they were.
THEOREM AllocatorImplementsSpec ==
  ASSUME ~CrashInExtension
  PROVE  Spec => ImplementsAllocatorSpec
<1>1. Init => Abstract!Init
  BY InitAbstract
<1>2. IInv /\ [Next]_vars => [Abstract!Next]_<<allocated, free>>
  BY NextAbstract
<1> QED
  BY <1>1, <1>2, AllocatorInvariant, PTL DEF Spec, ImplementsAllocatorSpec, Abstract!Spec

-----------------------------------------------------------------------------
(* What a call leaves alone                                                *)

\* The accesses that do not store to the word w.
Others(w) == {a \in Accesses : a.access = "store" => a.word # w /\ a.value \in Holds(a.word)}

LEMMA HoldsFacts ==
  ASSUME NEW x
  PROVE  Holds(x) \subseteq 0 .. Invalid
<1>1. Capacity \in Nat /\ Invalid \in Nat /\ Links \subseteq 0 .. Invalid /\ Invalid > Capacity
  BY PlaceFacts
<1>2. 0 .. Capacity \subseteq 0 .. Invalid
  BY <1>1
<1> QED
  BY <1>1, <1>2 DEF Holds

\* What sequences of accesses are made of.
LEMMA OtherAccesses ==
  ASSUME NEW w, NEW x \in Words, x # w, NEW v \in Holds(x), NEW l \in Lists
  PROVE  /\ Store(x, v) \in Others(w) /\ Drain \in Others(w) /\ Check(l) \in Others(w)
         /\ Persist(x, v) \in Seq(Others(w))
<1>1. Store(x, v) \in Accesses /\ Store(x, v).word = x /\ Store(x, v).value = v
  <2>1. v \in 0 .. Invalid
    BY HoldsFacts
  <2> QED
    BY <2>1 DEF Store, Accesses
<1>2. Drain \in Accesses /\ Drain.access # "store"
  BY DEF Drain, Accesses
<1>3. Check(l) \in Accesses /\ Check(l).access # "store"
  BY DEF Check, Accesses
<1>4. Store(x, v) \in Others(w) /\ Drain \in Others(w) /\ Check(l) \in Others(w)
  BY <1>1, <1>2, <1>3 DEF Others
<1>5. PICK a, b : a = Store(x, v) /\ b = Drain
  OBVIOUS
<1>6. <<a, b>> \in Seq(Others(w))
  BY <1>4, <1>5
<1> QED
  BY <1>4, <1>5, <1>6 DEF Persist

\* They leave w as it is.
LEMMA ResultOther ==
  ASSUME NEW w \in Words, NEW steps \in Seq(Others(w)), NEW m \in Memories
  PROVE  Result(m, steps) \in Memories /\ Result(m, steps)[w] = m[w]
<1>1. PICK h : IsTrace("perform", m, m, steps, h) /\ Result(m, steps) = h[Len(steps)]
  BY ResultTrace
<1>2. Len(steps) \in Nat
  OBVIOUS
<1> DEFINE G == {k \in Nat : k <= Len(steps) => h[k] \in Memories /\ h[k][w] = m[w]}
<1>3. 0 \in G
  BY <1>1 DEF IsTrace
<1>4. ASSUME NEW k \in G, k < Len(steps) PROVE k + 1 \in G
  <2>1. k \in Nat /\ k + 1 \in 1 .. Len(steps) /\ (k + 1) - 1 = k /\ h[k] \in Memories /\ h[k][w] = m[w]
    BY <1>2, <1>4
  <2>2. h[k + 1] = Perform(h[k], steps[k + 1])
    BY <1>1, <2>1 DEF IsTrace, Combine
  <2>3. steps[k + 1] \in Others(w)
    BY <2>1
  <2>4. PICK c, a : c = h[k] /\ a = steps[k + 1]
    OBVIOUS
  <2>5. c \in Memories /\ c[w] = m[w] /\ a \in Others(w) /\ h[k + 1] = Perform(c, a)
    BY <2>1, <2>2, <2>3, <2>4
  <2>6. CASE a.access = "store"
    <3>1. a.word \in Words /\ a.word # w /\ a.value \in Holds(a.word) /\ a.value \in 0 .. Invalid
      BY <2>5, <2>6 DEF Others, Accesses, Drain, Check
    <3>2. Perform(c, a) = [c EXCEPT ![a.word] = a.value]
      BY <2>6 DEF Perform
    <3>3. Perform(c, a) \in Memories /\ Perform(c, a)[w] = c[w]
      BY <2>5, <3>1, <3>2 DEF Memories
    <3> QED
      BY <2>1, <2>5, <3>3
  <2>7. CASE a.access # "store"
    BY <2>1, <2>5, <2>7 DEF Perform
  <2> QED
    BY <2>6, <2>7
<1> HIDE DEF G
<1>5. G \subseteq Nat
  BY DEF G
<1>6. 0 .. Len(steps) \subseteq G
  BY <1>2, <1>3, <1>4, <1>5, UpTo
<1>7. Len(steps) \in G
  BY <1>2, <1>6
<1> QED
  BY <1>1, <1>2, <1>7 DEF G

LEMMA OtherConcat ==
  ASSUME NEW w, NEW a \in Seq(Others(w)), NEW b \in Seq(Others(w))
  PROVE  a \o b \in Seq(Others(w))
BY ConcatFacts

LEMMA OtherLists ==
  ASSUME NEW w, NEW l \in Lists, Tl(l) # w, Hd(l) # w
  PROVE  ListInit(l) \in Seq(Others(w)) /\ <<Check(l)>> \in Seq(Others(w)) /\ << >> \in Seq(Others(w))
<1>1. Tl(l) \in Words /\ Hd(l) \in Words /\ Invalid \in Holds(Tl(l)) /\ Invalid \in Holds(Hd(l))
  BY ListWordFacts, PlaceFacts
<1>2. /\ Store(Tl(l), Invalid) \in Others(w) /\ Store(Hd(l), Invalid) \in Others(w)
      /\ Drain \in Others(w) /\ Check(l) \in Others(w)
  BY <1>1, OtherAccesses
<1>3. PICK a, b, c, d : a = Store(Tl(l), Invalid) /\ b = Store(Hd(l), Invalid) /\ c = Drain /\ d = Check(l)
  OBVIOUS
<1>4. <<a, b, c>> \in Seq(Others(w)) /\ <<d>> \in Seq(Others(w)) /\ << >> \in Seq(Others(w))
  BY <1>2, <1>3
<1> QED
  BY <1>3, <1>4 DEF ListInit

\* Inserting a region at the head of one list does not touch what is not of this list.
LEMMA OtherInsert ==
  ASSUME NEW l \in Lists, NEW m \in Memories, NEW r \in Regions, NEW w \in Words \ ListWords(l)
  PROVE  InsertHead(m, l, r) \in Seq(Others(w))
<1>1. /\ Tl(l) \in Words /\ Hd(l) \in Words /\ Nxt(l, r) \in Words
      /\ Tl(l) # w /\ Hd(l) # w /\ Nxt(l, r) # w
  BY ListWordFacts, PlaceFacts
<1>2. /\ r \in Holds(Tl(l)) /\ r \in Holds(Hd(l)) /\ m[Hd(l)] \in Holds(Nxt(l, r))
  BY <1>1, ListWordFacts, PlaceFacts DEF Memories
<1>3. PICK a, b, c, d : /\ a = <<Check(l)>> /\ b = (IF m[Hd(l)] = Invalid THEN <<Store(Tl(l), r)>> ELSE << >>)
                        /\ c = Persist(Nxt(l, r), m[Hd(l)]) /\ d = Persist(Hd(l), r)
  OBVIOUS
<1>4. a \in Seq(Others(w)) /\ << >> \in Seq(Others(w))
  BY <1>1, <1>3, OtherLists
<1>5. b \in Seq(Others(w))
  <2>1. PICK e : e = Store(Tl(l), r)
    OBVIOUS
  <2>2. e \in Others(w)
    BY <1>1, <1>2, <2>1, OtherAccesses
  <2>3. <<e>> \in Seq(Others(w))
    BY <2>2
  <2> QED
    BY <1>3, <1>4, <2>1, <2>3
<1>6. c \in Seq(Others(w)) /\ d \in Seq(Others(w))
  BY <1>1, <1>2, <1>3, OtherAccesses
<1>7. a \o b \in Seq(Others(w))
  BY <1>4, <1>5, OtherConcat
<1>8. (a \o b) \o c \in Seq(Others(w))
  BY <1>6, <1>7, OtherConcat
<1>9. ((a \o b) \o c) \o d \in Seq(Others(w))
  BY <1>6, <1>8, OtherConcat
<1>10. (((a \o b) \o c) \o d) \o a \in Seq(Others(w))
  BY <1>4, <1>9, OtherConcat
<1>11. InsertHead(m, l, r) = (((a \o b) \o c) \o d) \o a
  BY <1>3 DEF InsertHead
<1> QED
  BY <1>10, <1>11

\* SLIST_REMOVE leaves the link of the region it removes as it is.
LEMMA OtherRemove ==
  ASSUME NEW l \in Lists, NEW m \in Memories, NEW S \in Chains, NEW i \in 1 .. Len(S), Exact(m, l, S)
  PROVE  RemoveRegion(m, l, S[i]) \in Seq(Others(Nxt(l, S[i])))
<1> DEFINE w == Nxt(l, S[i])
           O == Seq(Others(w))
           previous == CHOOSE p \in Elements(m, l) : m[Nxt(l, p)] = S[i]
<1>1. S[i] \in Regions /\ S[i] \in Places /\ S[i] \in Range(S)
  BY ChainFacts
<1>2. /\ Tl(l) \in Words /\ Hd(l) \in Words /\ w \in Words /\ Tl(l) # w /\ Hd(l) # w
      /\ m[w] \in Links /\ Holds(Tl(l)) = Links /\ Holds(Hd(l)) = Links
  BY <1>1, ListWordFacts DEF Memories
<1>3. Elements(m, l) = Range(S)
  BY ListedOf
<1>4. PICK a : a = <<Check(l)>>
  OBVIOUS
<1>5. a \in O /\ << >> \in O /\ ListInit(l) \in O
  BY <1>2, <1>4, OtherLists
<1>6. RemoveHead(m, l) \in O
  <2>1. PICK q : q = m[Nxt(l, m[Hd(l)])]
    OBVIOUS
  <2>2. S # << >> /\ m[Hd(l)] = S[1] /\ S[1] \in Places
    <3>1. S # << >> /\ 1 \in 1 .. Len(S)
      BY ChainFacts
    <3> QED
      BY <3>1, ExactInvariants, ChainFacts
  <2>3. q \in Links
    BY <2>1, <2>2, ListWordFacts DEF Memories
  <2>4. PICK b : b = IF m[Tl(l)] = m[Hd(l)] THEN ListInit(l) ELSE Persist(Hd(l), q)
    OBVIOUS
  <2>5. Persist(Hd(l), q) \in O
    BY <1>2, <2>3, OtherAccesses
  <2>6. b \in O
    BY <1>5, <2>4, <2>5
  <2>7. RemoveHead(m, l) = a \/ RemoveHead(m, l) = (a \o b) \o a
    BY <1>4, <2>1, <2>4 DEF RemoveHead
  <2> HIDE DEF w
  <2>8. (a \o b) \o a \in O
    <3>1. a \o b \in O
      BY <1>5, <2>6, OtherConcat
    <3> QED
      BY <1>5, <3>1, OtherConcat
  <2> QED
    BY <1>5, <2>7, <2>8
<1> DEFINE X == IF m[Hd(l)] = S[i] THEN RemoveHead(m, l)
                ELSE (IF m[Nxt(l, S[i])] = Invalid THEN Persist(Tl(l), previous) ELSE << >>)
                       \o Persist(Nxt(l, previous), m[Nxt(l, S[i])])
<1>8. RemoveRegion(m, l, S[i]) = (a \o X) \o a
  <2>1. S[i] \in Elements(m, l)
    BY <1>1, <1>3
  <2>2. RemoveRegion(m, l, S[i]) = (<<Check(l)>> \o X) \o <<Check(l)>>
    BY <2>1 DEF RemoveRegion
  <2> QED
    BY <1>4, <2>2
<1>9. X \in O
  <2>1. CASE m[Hd(l)] = S[i]
    BY <1>6, <2>1
  <2>2. CASE m[Hd(l)] # S[i]
    <3>1. i # 1 /\ i \in 2 .. Len(S) /\ i - 1 \in 1 .. Len(S) /\ i - 1 # i
      <4>1. S # << >> /\ Len(S) \in Nat /\ i # 1
        BY <2>2, ExactInvariants, ChainFacts
      <4> QED
        BY <4>1
    <3>2. previous = S[i - 1]
      BY <3>1, PreviousOf
    <3>3. previous # S[i] /\ previous \in Places /\ previous \in Regions /\ previous \in Links
      <4>1. S[i - 1] # S[i] /\ S[i - 1] \in Regions /\ S[i - 1] \in Places
        BY <3>1, ChainFacts
      <4> QED
        BY <3>2, <4>1, PlaceFacts
    <3>4. Nxt(l, previous) # w /\ Nxt(l, previous) \in Words /\ Holds(Nxt(l, previous)) = Links
      BY <1>1, <3>3, ListWordFacts
    <3> HIDE DEF previous
    <3>5. PICK b, c : /\ b = (IF m[Nxt(l, S[i])] = Invalid THEN Persist(Tl(l), previous) ELSE << >>)
                      /\ c = Persist(Nxt(l, previous), m[Nxt(l, S[i])])
      OBVIOUS
    <3>6. Persist(Tl(l), previous) \in O /\ c \in O
      BY <1>2, <3>3, <3>4, <3>5, OtherAccesses
    <3>7. b \in O
      BY <1>5, <3>5, <3>6
    <3>8. b \o c \in O
      BY <3>6, <3>7, OtherConcat
    <3>9. X = b \o c
      BY <2>2, <3>5
    <3> QED
      BY <3>8, <3>9
  <2> QED
    BY <2>1, <2>2
<1> HIDE DEF w, X
<1>10. a \o X \in O
  BY <1>5, <1>9, OtherConcat
<1>11. (a \o X) \o a \in O
  BY <1>5, <1>10, OtherConcat
<1> QED
  BY <1>8, <1>11 DEF w

\* allocator_region_free leaves the link of the region it frees as it is: an iterator
\* that stands on it finds the region that followed.
LEMMA FreeLeaves ==
  ASSUME NEW m \in Memories, NEW S \in Chains, NEW i \in 1 .. Len(S), Exact(m, "allocated", S)
  PROVE  Result(m, FreeSteps(m, S[i]))[Nxt("allocated", S[i])] = m[Nxt("allocated", S[i])]
<1>1. "allocated" \in Lists /\ "free" \in Lists
  BY DEF Lists
<1>2. PICK r : r = S[i]
  OBVIOUS
<1>3. r \in Regions /\ r \in Places /\ r \in Links
  BY <1>2, ChainFacts, PlaceFacts
<1>4. PICK pre : pre = Persist(RecoveryFreeOffset, r) \o InsertHead(m, "free", r)
  OBVIOUS
<1>5. ASSUME NEW w \in ListWords("allocated") PROVE pre \in Seq(Others(w)) /\ w \in Words
  <2>1. w \in Words \ ListWords("free") /\ RecoveryFreeOffset # w /\ RecoveryFreeOffset \in Words
        /\ Holds(RecoveryFreeOffset) = Links
    BY <1>1, ListWordFacts, ListWordsApart, HeaderWordFacts
  <2>2. PICK a, b : a = Persist(RecoveryFreeOffset, r) /\ b = InsertHead(m, "free", r)
    OBVIOUS
  <2>3. a \in Seq(Others(w))
    BY <1>1, <1>3, <2>1, <2>2, OtherAccesses
  <2>4. b \in Seq(Others(w))
    BY <1>1, <1>3, <2>1, <2>2, OtherInsert
  <2> QED
    BY <1>4, <2>1, <2>2, <2>3, <2>4, OtherConcat
<1>6. PICK n : n = Result(m, pre)
  OBVIOUS
<1>7. n \in Memories /\ \A w \in ListWords("allocated") : n[w] = m[w]
  <2>1. Hd("allocated") \in ListWords("allocated")
    BY <1>1, ListWordFacts
  <2> QED
    BY <1>5, <1>6, <2>1, ResultOther
<1>8. Exact(n, "allocated", S)
  BY <1>1, <1>7, SameList
<1>9. PICK w : w = Nxt("allocated", r)
  OBVIOUS
<1>10. w \in ListWords("allocated") /\ w \in Words
  BY <1>1, <1>3, <1>9, ListWordFacts
<1>11. PICK b, c : b = RemoveRegion(n, "allocated", r) /\ c = Persist(RecoveryFreeOffset, Invalid)
  OBVIOUS
<1>12. pre \in Seq(Others(w)) /\ b \in Seq(Others(w)) /\ c \in Seq(Others(w))
  <2>1. pre \in Seq(Others(w))
    BY <1>5, <1>10
  <2>2. b \in Seq(Others(w))
    BY <1>1, <1>2, <1>7, <1>8, <1>9, <1>11, OtherRemove
  <2>3. /\ RecoveryFreeOffset \in Words /\ RecoveryFreeOffset # w /\ Invalid \in Holds(RecoveryFreeOffset)
    BY <1>1, <1>10, HeaderWordFacts, ListWordsApart, PlaceFacts
  <2>4. c \in Seq(Others(w))
    BY <1>1, <1>11, <2>3, OtherAccesses
  <2> QED
    BY <2>1, <2>2, <2>4
<1>13. (pre \o b) \o c \in Seq(Others(w))
  <2>1. pre \o b \in Seq(Others(w))
    BY <1>12, OtherConcat
  <2> QED
    BY <1>12, <2>1, OtherConcat
<1>14. FreeSteps(m, r) = (pre \o b) \o c
  BY <1>4, <1>6, <1>11 DEF FreeSteps, Then, Result
<1>15. Result(m, FreeSteps(m, r))[w] = m[w]
  BY <1>10, <1>13, <1>14, ResultOther
<1> QED
  BY <1>2, <1>9, <1>15

-----------------------------------------------------------------------------
(* The iterator over the regions                                           *)

\* The region after the i-th of the list.
After(i) == IF i = Len(allocated) THEN Invalid ELSE allocated[i + 1]

\* The iterator has passed p regions of the list, the one it stands on included; from a
\* region that was freed under it, it goes to the next one.
Passed(p) ==
  /\ \A i \in 1 .. Len(allocated) :
       allocated[i] \in iterator.stayed => (i <= p <=> allocated[i] \in Range(iterator.met))
  /\ iterator.at = Invalid => p = Len(allocated)
  /\ iterator.at \in Range(allocated) => p >= 1 /\ allocated[p] = iterator.at
  /\ iterator.at # Invalid /\ iterator.at \notin Range(allocated) =>
       Idle /\ cache[Nxt("allocated", iterator.at)] = After(p)

\* In the memory m the iterator stands on a region of the list or still finds the one
\* that was the next.
Arrives(m, i) ==
  /\ allocated[i] = iterator.at
  /\ iterator.at \in Elements(m, "allocated") \/ m[Nxt("allocated", iterator.at)] = After(i)

InOrder ==
  \A k, l \in 1 .. Len(iterator.met) :
    k < l /\ iterator.met[k] \in iterator.stayed /\ iterator.met[l] \in iterator.stayed =>
      \A i, j \in 1 .. Len(allocated) :
        iterator.met[k] = allocated[i] /\ iterator.met[l] = allocated[j] => i < j

Iterates ==
  /\ iterator.met \in Seq(Regions) /\ iterator.stayed \subseteq Range(allocated)
  /\ InOrder
  /\ \E p \in 0 .. Len(allocated) : Passed(p)
  /\ ~Idle /\ iterator.at = Invalid => iterator.stayed = {}
  /\ ~Idle /\ iterator.at # Invalid =>
       phase = "running" /\ \E i \in 1 .. Len(allocated) : Arrives(Result(cache, todo), i)

LEMMA LinkAfter ==
  ASSUME NEW i \in 1 .. Len(allocated), Exact(cache, "allocated", allocated), allocated \in Chains
  PROVE  cache[Nxt("allocated", allocated[i])] = After(i)
<1>1. Linked(cache, "allocated", allocated)
  BY DEF Exact
<1>2. Len(allocated) \in Nat /\ allocated # << >>
  BY ChainFacts
<1> QED
  BY <1>1, <1>2 DEF Linked, After

LEMMA SameInOrder ==
  ASSUME InOrder, iterator'.met = iterator.met, iterator'.stayed \subseteq iterator.stayed,
         allocated' = allocated
  PROVE  InOrder'
<1>1. SUFFICES ASSUME NEW k \in 1 .. Len(iterator.met), NEW l \in 1 .. Len(iterator.met), k < l,
                      iterator.met[k] \in iterator.stayed, iterator.met[l] \in iterator.stayed,
                      NEW i \in 1 .. Len(allocated), NEW j \in 1 .. Len(allocated),
                      iterator.met[k] = allocated[i], iterator.met[l] = allocated[j]
               PROVE  i < j
  BY DEF InOrder
<1> QED
  BY <1>1 DEF InOrder

LEMMA NoneIterates ==
  ASSUME IInv', iterator'.at = Invalid, iterator'.stayed = {}, iterator'.met \in Seq(Regions)
  PROVE  Iterates'
<1>1. allocated' \in Chains
  BY DEF IInv, Types
<1>2. Invalid \notin Range(allocated') /\ Len(allocated') \in 0 .. Len(allocated')
  BY <1>1, ChainFacts, PlaceFacts
<1>3. Passed(Len(allocated))'
  BY <1>2 DEF Passed
<1> QED
  BY <1>2, <1>3 DEF Iterates, InOrder

LEMMA InitIterates == Init => Iterates
<1>1. SUFFICES ASSUME Init PROVE Iterates
  OBVIOUS
<1>2. /\ iterator.at = Invalid /\ iterator.stayed = {} /\ iterator.met = << >> /\ allocated = << >>
  BY <1>1 DEF Init, NoIterator
<1>3. Range(allocated) = {} /\ Len(allocated) = 0 /\ Len(allocated) \in 0 .. Len(allocated)
  BY <1>2, EmptyChain
<1>4. Passed(Len(allocated))
  BY <1>2, <1>3 DEF Passed
<1>5. iterator.met \in Seq(Regions) /\ InOrder
  BY <1>2 DEF InOrder
<1> QED
  BY <1>2, <1>3, <1>4, <1>5 DEF Iterates

LEMMA CallIterates ==
  ASSUME IInv, IInv', Iterates, NEW steps, Call(steps),
         iterator.at # Invalid => \E i \in 1 .. Len(allocated) : Arrives(Result(cache, steps), i)
  PROVE  Iterates'
<1>1. /\ Idle /\ todo' = steps /\ UNCHANGED <<cache, phase, allocated>>
      /\ iterator.at \in Elements(cache, "allocated") \union {Invalid}
      /\ iterator' = IF iterator.at = Invalid THEN NoIterator ELSE iterator
  BY DEF Call
<1>2. CASE iterator.at = Invalid
  <2>1. iterator'.at = Invalid /\ iterator'.stayed = {} /\ iterator'.met \in Seq(Regions)
    BY <1>1, <1>2 DEF NoIterator
  <2> QED
    BY <2>1, NoneIterates
<1>3. CASE iterator.at # Invalid
  <2>1. iterator.at \in Range(allocated) /\ iterator' = iterator
    BY <1>1, <1>3, RestFacts
  <2>2. PICK p \in 0 .. Len(allocated) : Passed(p)
    BY DEF Iterates
  <2>3. Passed(p)'
    BY <1>1, <2>1, <2>2 DEF Passed
  <2>4. InOrder'
    <3>1. iterator' = iterator /\ allocated' = allocated /\ InOrder
      BY <1>1, <2>1 DEF Iterates
    <3> QED
      BY <3>1, SameInOrder
  <2>5. PICK i \in 1 .. Len(allocated) : Arrives(Result(cache, steps), i)
    BY <1>3
  <2>6. Arrives(Result(cache, todo), i)'
    BY <1>1, <2>1, <2>5 DEF Arrives, After
  <2>7. phase' = "running"
    BY <1>1 DEF Idle
  <2> QED
    BY <1>1, <1>3, <2>1, <2>2, <2>3, <2>4, <2>5, <2>6, <2>7 DEF Iterates
<1> QED
  BY <1>2, <1>3

LEMMA AllocateIterates ==
  ASSUME IInv, IInv', Iterates, Allocate
  PROVE  Iterates'
<1>1. /\ Idle /\ (cache[Hd("free")] # Invalid \/ HasRoom(cache)) /\ Call(AllocateSteps(cache))
      /\ iterator.at \in Elements(cache, "allocated") \union {Invalid}
  BY DEF Allocate, Call
<1>2. PICK F \in Chains :
        /\ allocated \in Chains /\ Good(current, allocated, F, used) /\ current.cache = cache
        /\ Elements(cache, "allocated") = Range(allocated)
  BY <1>1, RestFacts
<1>3. ASSUME iterator.at # Invalid
      PROVE  \E i \in 1 .. Len(allocated) : Arrives(Result(cache, AllocateSteps(cache)), i)
  <2>1. PICK i \in 1 .. Len(allocated) : allocated[i] = iterator.at
    BY <1>1, <1>2, <1>3, ChainFacts
  <2>2. PICK s : s = current
    OBVIOUS
  <2>3. PICK G : G = {<<allocated, Range(F)>>}
                       \union {<<Append(allocated, r), Range(F) \ {r}>> : r \in Range(F)}
                       \union {<<allocated, {r}>> : r \in Regions \ Range(allocated)}
                       \union {<<Append(allocated, r), {}>> : r \in Regions \ Range(allocated)}
    OBVIOUS
  <2>4. PICK t \in Ends(G, used) : Reach(s, AllocateSteps(s.cache), t, Safe(Recoverable(G, used)))
    <3>1. <<allocated, Range(F)>> \in G
      BY <2>3
    <3>2. \A r \in Range(F) : <<Append(allocated, r), Range(F) \ {r}>> \in G
      BY <2>3
    <3>3. Range(F) = {} => \A r \in Regions \ Range(allocated) :
                             <<allocated, {r}>> \in G /\ <<Append(allocated, r), {}>> \in G
      BY <2>3
    <3> QED
      BY <1>1, <1>2, <2>2, <3>1, <3>2, <3>3, AllocateEffect
  <2>5. PICK B, E \in Chains : Good(t, B, E, used) /\ <<B, Range(E)>> \in G
    BY <2>4 DEF Ends
  <2>6. B = allocated \/ \E r : B = Append(allocated, r)
    BY <2>3, <2>5
  <2>7. i \in 1 .. Len(B) /\ B[i] = iterator.at
    BY <1>2, <2>1, <2>6, ChainFacts
  <2>8. iterator.at \in Range(B)
    BY <2>5, <2>7, ChainFacts
  <2>9. t.cache = Result(cache, AllocateSteps(cache))
    BY <1>2, <2>2, <2>4, ReachResult
  <2>10. Elements(t.cache, "allocated") = Range(B)
    BY <2>5, GoodFacts
  <2> QED
    BY <2>1, <2>8, <2>9, <2>10 DEF Arrives
<1> QED
  BY <1>1, <1>3, CallIterates

LEMMA FreeIterates ==
  ASSUME IInv, IInv', Iterates, Free
  PROVE  Iterates'
<1>1. PICK r \in Elements(cache, "allocated") : Call(FreeSteps(cache, r))
  BY DEF Free
<1>2. Idle /\ iterator.at \in Elements(cache, "allocated") \union {Invalid}
  BY <1>1 DEF Call
<1>3. PICK F \in Chains :
        /\ allocated \in Chains /\ Good(current, allocated, F, used) /\ current.cache = cache
        /\ cache \in Memories /\ Elements(cache, "allocated") = Range(allocated)
  BY <1>2, RestFacts
<1>4. PICK j \in 1 .. Len(allocated) : allocated[j] = r
  BY <1>1, <1>3, ChainFacts
<1>5. ASSUME iterator.at # Invalid
      PROVE  \E i \in 1 .. Len(allocated) : Arrives(Result(cache, FreeSteps(cache, r)), i)
  <2>1. PICK i \in 1 .. Len(allocated) : allocated[i] = iterator.at
    BY <1>2, <1>3, <1>5, ChainFacts
  <2>2. PICK s : s = current
    OBVIOUS
  <2>3. PICK G : G = {<<allocated, Range(F)>>, <<RemoveAt(allocated, j), Range(F) \union {allocated[j]}>>}
    OBVIOUS
  <2>4. PICK t \in Ends(G, used) : Reach(s, FreeSteps(s.cache, allocated[j]), t, Safe(Recoverable(G, used)))
    <3>1. Restored(s, allocated, F, used) /\ SettledOn(s, "allocated")
      BY <1>3, <2>2, GoodRestored
    <3>2. Range(allocated) \intersect Range(F) = {} /\ s.cache[RecoveryFreeOffset] = Invalid
      BY <1>3, <2>2 DEF Good
    <3>3. <<allocated, Range(F)>> \in G /\ <<RemoveAt(allocated, j), Range(F) \union {allocated[j]}>> \in G
      BY <2>3
    <3> QED
      BY <1>3, <3>1, <3>2, <3>3, FreeEffect
  <2>5. PICK B, E \in Chains : Good(t, B, E, used) /\ <<B, Range(E)>> \in G
    BY <2>4 DEF Ends
  <2>6. t.cache = Result(cache, FreeSteps(cache, r))
    BY <1>3, <1>4, <2>2, <2>4, ReachResult
  <2>7. Elements(t.cache, "allocated") = Range(B)
    BY <2>5, GoodFacts
  <2>8. CASE i = j
    <3>1. Exact(cache, "allocated", allocated)
      BY <1>3 DEF Good
    <3>2. t.cache[Nxt("allocated", r)] = cache[Nxt("allocated", r)]
      BY <1>3, <1>4, <2>6, <3>1, FreeLeaves
    <3>3. cache[Nxt("allocated", allocated[i])] = After(i)
      BY <1>3, <3>1, LinkAfter
    <3> QED
      BY <1>4, <2>1, <2>6, <2>8, <3>2, <3>3 DEF Arrives
  <2>9. CASE i # j
    <3>1. B = allocated \/ B = RemoveAt(allocated, j)
      BY <2>3, <2>5
    <3>2. iterator.at \in Range(allocated) /\ iterator.at # allocated[j]
      BY <1>3, <2>1, <2>9, ChainFacts
    <3>3. iterator.at \in Range(B)
      BY <1>3, <3>1, <3>2, RemoveAtFacts
    <3> QED
      BY <2>1, <2>6, <2>7, <3>3 DEF Arrives
  <2> QED
    BY <2>8, <2>9
<1> QED
  BY <1>1, <1>5, CallIterates

LEMMA UseIterates ==
  ASSUME IInv, Iterates, Use
  PROVE  Iterates'
<1>1. PICK r \in Elements(cache, "allocated") \ used :
        /\ Idle /\ cache' = [cache EXCEPT ![Data(r)] = 1, ![MaxValid(r)] = Invalid]
        /\ UNCHANGED <<todo, phase, iterator, allocated>>
  BY DEF Use
<1>2. cache \in Memories /\ r \in Regions
  BY <1>1, RestFacts
<1>3. Idle' /\ iterator.at \in Links
  BY <1>1 DEF Idle, IInv, Types
<1>4. PICK p \in 0 .. Len(allocated) : Passed(p)
  BY DEF Iterates
<1>5. iterator.at # Invalid => cache'[Nxt("allocated", iterator.at)] = cache[Nxt("allocated", iterator.at)]
  <2>1. SUFFICES ASSUME iterator.at # Invalid
                 PROVE  cache'[Nxt("allocated", iterator.at)] = cache[Nxt("allocated", iterator.at)]
    OBVIOUS
  <2>2. PICK w : w = Nxt("allocated", iterator.at)
    OBVIOUS
  <2>3. iterator.at \in Places /\ r \in Places
    BY <1>2, <1>3, <2>1, PlaceFacts DEF Links
  <2>4. w \in ListWords("allocated") /\ w \in Words
    BY <2>2, <2>3, ListWordFacts DEF Lists
  <2>5. w # Data(r) /\ w # MaxValid(r)
    BY <2>3, <2>4, ListWordsApart DEF Lists
  <2>6. cache'[w] = cache[w]
    BY <1>1, <1>2, <2>4, <2>5 DEF Memories
  <2> QED
    BY <2>2, <2>6
<1>6. Passed(p)'
  BY <1>1, <1>3, <1>4, <1>5 DEF Passed, After
<1>7. InOrder'
  BY <1>1, SameInOrder DEF Iterates
<1> QED
  BY <1>1, <1>3, <1>4, <1>6, <1>7 DEF Iterates

LEMMA SeekIterates ==
  ASSUME IInv, IInv', SeekFirst
  PROVE  Iterates'
<1>1. Idle /\ UNCHANGED <<cache, todo, phase, allocated>>
  BY DEF SeekFirst, MoveTo
<1>2. PICK F \in Chains :
        /\ allocated \in Chains /\ Good(current, allocated, F, used) /\ current.cache = cache
        /\ Elements(cache, "allocated") = Range(allocated) /\ Range(allocated) \subseteq Regions
  BY <1>1, RestFacts
<1>3. PICK r : r = cache[Hd("allocated")]
  OBVIOUS
<1>4. /\ iterator'.at = r /\ iterator'.stayed = Range(allocated)
      /\ iterator'.met = IF r \in Range(allocated) THEN Append(<< >>, r) ELSE << >>
  BY <1>2, <1>3 DEF SeekFirst, MoveTo
<1>5. Exact(cache, "allocated", allocated)
  BY <1>2 DEF Good
<1>6. Idle'
  BY <1>1 DEF Idle
<1>7. CASE allocated = << >>
  <2>1. Range(allocated) = {} /\ Len(allocated) = 0 /\ 0 \in 0 .. Len(allocated) /\ r = Invalid
    BY <1>3, <1>5, <1>7, EmptyChain DEF Exact
  <2>2. iterator'.at = Invalid /\ iterator'.stayed = {} /\ iterator'.met = << >>
    BY <1>4, <2>1
  <2> QED
    BY <2>2, NoneIterates
<1>8. CASE allocated # << >>
  <2>1. /\ Len(allocated) \in Nat /\ 1 \in 1 .. Len(allocated) /\ 1 \in 0 .. Len(allocated)
        /\ r = allocated[1] /\ r \in Range(allocated) /\ r \in Regions /\ r # Invalid
        /\ \A i \in 1 .. Len(allocated) : allocated[i] = allocated[1] => i = 1
    <3>1. Len(allocated) \in Nat /\ Len(allocated) # 0
      BY <1>2, <1>8, ChainFacts
    <3>2. 1 \in 1 .. Len(allocated) /\ 1 \in 0 .. Len(allocated)
      BY <3>1
    <3>3. r = allocated[1]
      BY <1>3, <1>5, <1>8 DEF Exact, Linked
    <3> QED
      BY <1>2, <3>1, <3>2, <3>3, ChainFacts
  <2>2. iterator'.met = <<r>> /\ iterator'.met \in Seq(Regions) /\ Len(iterator'.met) = 1 /\ Range(iterator'.met) = {r}
    <3>1. Append(<< >>, r) = <<r>>
      OBVIOUS
    <3>2. Range(<<r>>) = {r}
      BY DEF Range
    <3> QED
      BY <1>4, <2>1, <3>1, <3>2
  <2>3. \A i \in 1 .. Len(allocated) : i <= 1 <=> allocated[i] \in {r}
    BY <2>1
  <2>4. Passed(1)'
    BY <1>1, <1>4, <2>1, <2>2, <2>3 DEF Passed
  <2>5. InOrder'
    BY <2>2 DEF InOrder
  <2> QED
    BY <1>1, <1>4, <1>6, <2>1, <2>2, <2>4, <2>5 DEF Iterates
<1> QED
  BY <1>7, <1>8

LEMMA NextIterates ==
  ASSUME IInv, IInv', Iterates, IteratorNext
  PROVE  Iterates'
<1>1. Idle /\ iterator.at # Invalid /\ UNCHANGED <<cache, todo, phase, allocated>>
  BY DEF IteratorNext, MoveTo
<1>2. PICK F \in Chains :
        /\ allocated \in Chains /\ Good(current, allocated, F, used) /\ current.cache = cache
        /\ Range(allocated) \subseteq Regions
  BY <1>1, RestFacts
<1>3. PICK r : r = cache[Nxt("allocated", iterator.at)]
  OBVIOUS
<1>4. /\ iterator'.at = r /\ iterator'.stayed = iterator.stayed
      /\ iterator'.met = IF r \in iterator.stayed THEN Append(iterator.met, r) ELSE iterator.met
  BY <1>3 DEF IteratorNext, MoveTo
<1>5. PICK p \in 0 .. Len(allocated) : Passed(p)
  BY DEF Iterates
<1>6. /\ Len(allocated) \in Nat /\ p \in Nat /\ p <= Len(allocated)
      /\ \A i \in 1 .. Len(allocated) : allocated[i] \in Regions /\ allocated[i] # Invalid
      /\ \A i, j \in 1 .. Len(allocated) : allocated[i] = allocated[j] => i = j
  BY <1>2, <1>5, ChainFacts
<1>7. r = After(p)
  <2>1. CASE iterator.at \in Range(allocated)
    <3>1. p \in 1 .. Len(allocated) /\ allocated[p] = iterator.at
      BY <1>5, <1>6, <2>1 DEF Passed
    <3> QED
      BY <1>2, <1>3, <3>1, LinkAfter DEF Good
  <2>2. CASE iterator.at \notin Range(allocated)
    BY <1>1, <1>3, <1>5, <2>2 DEF Passed
  <2> QED
    BY <2>1, <2>2
<1>8. Idle'
  BY <1>1 DEF Idle
<1>9. iterator.met \in Seq(Regions) /\ iterator.stayed \subseteq Range(allocated) /\ InOrder
  BY DEF Iterates
<1>10. CASE p = Len(allocated)
  <2>1. r = Invalid /\ r \notin Range(allocated) /\ iterator'.met = iterator.met
    BY <1>2, <1>4, <1>7, <1>9, <1>10, PlaceFacts DEF After
  <2>2. Passed(p)'
    BY <1>1, <1>4, <1>5, <1>10, <2>1 DEF Passed
  <2>3. InOrder'
    BY <1>1, <1>4, <1>9, <2>1, SameInOrder
  <2> QED
    BY <1>1, <1>4, <1>5, <1>8, <1>9, <2>1, <2>2, <2>3 DEF Iterates
<1>11. CASE p # Len(allocated)
  <2>1. /\ r = allocated[p + 1] /\ p + 1 \in 1 .. Len(allocated) /\ p + 1 \in 0 .. Len(allocated)
        /\ p + 1 >= 1
    BY <1>6, <1>7, <1>11 DEF After
  <2>2. r \in Regions /\ r # Invalid /\ r \in Range(allocated)
    BY <1>2, <1>6, <2>1, ChainFacts
  <2>3. \A i \in 1 .. Len(allocated) : i <= p + 1 <=> i <= p \/ allocated[i] = r
    BY <1>6, <2>1
  <2>4. \A i \in 1 .. Len(allocated) :
          allocated[i] \in iterator.stayed => (i <= p <=> allocated[i] \in Range(iterator.met))
    BY <1>5 DEF Passed
  <2>5. CASE r \notin iterator.stayed
    <3>1. iterator'.met = iterator.met
      BY <1>4, <2>5
    <3>2. Passed(p + 1)'
      BY <1>1, <1>4, <2>1, <2>2, <2>3, <2>4, <2>5, <3>1 DEF Passed
    <3>3. InOrder'
      BY <1>1, <1>4, <1>9, <3>1, SameInOrder
    <3> QED
      BY <1>1, <1>4, <1>8, <1>9, <2>1, <2>2, <3>1, <3>2, <3>3 DEF Iterates
  <2>6. CASE r \in iterator.stayed
    <3>1. PICK M, N : M = iterator.met /\ N = iterator'.met
      OBVIOUS
    <3>2. /\ M \in Seq(Regions) /\ N = Append(M, r) /\ Len(N) = Len(M) + 1 /\ Len(M) \in Nat
          /\ N[Len(M) + 1] = r /\ N \in Seq(Regions) /\ \A k \in 1 .. Len(M) : N[k] = M[k]
      BY <1>4, <1>9, <2>2, <2>6, <3>1
    <3>3. Range(N) = Range(M) \union {r}
      <4>1. /\ Range(N) = {N[k] : k \in 1 .. Len(M) + 1}
            /\ Range(M) = {M[k] : k \in 1 .. Len(M)}
        BY <3>2 DEF Range
      <4>2. \A k \in 1 .. Len(M) + 1 : k \in 1 .. Len(M) \/ k = Len(M) + 1
        BY <3>2
      <4>3. \A k \in 1 .. Len(M) : k \in 1 .. Len(M) + 1
        BY <3>2
      <4>4. Len(M) + 1 \in 1 .. Len(M) + 1
        BY <3>2
      <4> QED
        BY <3>2, <4>1, <4>2, <4>3, <4>4
    <3>4. Passed(p + 1)'
      <4>1. \A i \in 1 .. Len(allocated) :
              allocated[i] \in iterator.stayed => (i <= p + 1 <=> allocated[i] \in Range(N))
        BY <2>3, <2>4, <3>1, <3>3
      <4> QED
        BY <1>1, <1>4, <2>1, <2>2, <3>1, <4>1 DEF Passed
    <3>5. InOrder'
      <4>1. SUFFICES ASSUME NEW k \in 1 .. Len(N), NEW l \in 1 .. Len(N), k < l,
                            N[k] \in iterator.stayed, N[l] \in iterator.stayed,
                            NEW i \in 1 .. Len(allocated), NEW j \in 1 .. Len(allocated),
                            N[k] = allocated[i], N[l] = allocated[j]
                     PROVE  i < j
        BY <1>1, <1>4, <3>1 DEF InOrder
      <4>2. k \in 1 .. Len(M) /\ N[k] = M[k] /\ N[k] \in Range(M)
        <5>1. k \in 1 .. Len(M)
          BY <3>2, <4>1
        <5> QED
          BY <3>2, <5>1 DEF Range
      <4>3. CASE l \in 1 .. Len(M)
        <5>1. N[l] = M[l]
          BY <3>2, <4>3
        <5> QED
          BY <1>9, <3>1, <4>1, <4>2, <4>3, <5>1 DEF InOrder
      <4>4. CASE l \notin 1 .. Len(M)
        <5>1. l = Len(M) + 1
          <6>1. l \in 1 .. Len(M) + 1
            BY <3>2, <4>1
          <6> QED
            BY <3>2, <4>4, <6>1
        <5>2. allocated[j] = allocated[p + 1] /\ j = p + 1
          BY <1>6, <2>1, <3>2, <4>1, <5>1
        <5>3. i <= p
          BY <2>4, <3>1, <4>1, <4>2
        <5> QED
          BY <1>6, <5>2, <5>3
      <4> QED
        BY <4>3, <4>4
    <3>6. iterator'.met \in Seq(Regions)
      BY <3>1, <3>2
    <3> QED
      BY <1>1, <1>4, <1>8, <1>9, <2>1, <3>4, <3>5, <3>6 DEF Iterates
  <2> QED
    BY <2>5, <2>6
<1> QED
  BY <1>10, <1>11

\* The accesses that are left lead to the same memory as before.
LEMMA StepResult ==
  ASSUME IInv, Step
  PROVE  Result(cache', todo') = Result(cache, todo) /\ (todo' = << >> => Result(cache, todo) = cache')
<1>1. PICK t : /\ Reach(current, todo, t, Home) /\ Reach(current', todo', t, Home)
               /\ current'.cache = cache' /\ (todo' = << >> => t = current')
  BY StepFacts
<1>2. current.cache = cache
  BY DEF current
<1>3. PICK s, x : s = current /\ x = current'
  OBVIOUS
<1>4. Result(s.cache, todo) = t.cache /\ Result(x.cache, todo') = t.cache
  BY <1>1, <1>3, ReachResult
<1> QED
  BY <1>1, <1>2, <1>3, <1>4

\* What the return of a call makes of the list under the iterator.
LEMMA ReturnList ==
  ASSUME IInv, Step, todo' = << >>, allocated # << >>
  PROVE  /\ allocated' \in Chains /\ Elements(cache', "allocated") = Range(allocated')
         /\ \/ allocated' = allocated
            \/ \E r : allocated' = Append(allocated, r)
            \/ \E j \in 1 .. Len(allocated) : allocated' = RemoveAt(allocated, j)
<1>1. operations # 0
  BY DEF IInv, Types
<1>2. /\ \E F \in Chains : Good(current', allocated', F, used') /\ Range(F) = free'
      /\ allocated' \in Chains /\ <<allocated', free'>> \in Outcome
  BY <1>1, ReturnFacts
<1>3. Elements(cache', "allocated") = Range(allocated')
  <2>1. PICK F \in Chains : Good(current', allocated', F, used')
    BY <1>2
  <2>2. current'.cache = cache'
    BY DEF current
  <2> QED
    BY <1>2, <2>1, <2>2, GoodFacts
<1> QED
  BY <1>2, <1>3 DEF Outcome, Outcomes

LEMMA RunIterates ==
  ASSUME IInv, IInv', Iterates, Step, todo' # << >>
  PROVE  Iterates'
<1>1. UNCHANGED <<phase, iterator, allocated>>
  BY DEF Step
<1>2. ~Idle /\ ~Idle'
  BY StepFacts DEF Idle
<1>3. PICK p \in 0 .. Len(allocated) : Passed(p)
  BY DEF Iterates
<1>4. Passed(p)'
  BY <1>1, <1>2, <1>3 DEF Passed
<1>5. InOrder'
  BY <1>1, SameInOrder DEF Iterates
<1>6. ASSUME iterator.at # Invalid
      PROVE  phase = "running" /\ \E i \in 1 .. Len(allocated) : Arrives(Result(cache, todo), i)'
  <2>1. phase = "running"
    BY <1>2, <1>6 DEF Iterates
  <2>2. PICK i \in 1 .. Len(allocated) : Arrives(Result(cache, todo), i)
    BY <1>2, <1>6 DEF Iterates
  <2>3. PICK m : m = Result(cache, todo) /\ m = Result(cache', todo')
    BY StepResult
  <2>4. Arrives(Result(cache, todo), i)'
    BY <1>1, <2>2, <2>3 DEF Arrives, After
  <2> QED
    BY <2>1, <2>4
<1> QED
  BY <1>1, <1>2, <1>3, <1>4, <1>5, <1>6 DEF Iterates

LEMMA ReturnIterates ==
  ASSUME IInv, IInv', Iterates, Step, todo' = << >>
  PROVE  Iterates'
<1>1. /\ phase' = "running" /\ Idle'
      /\ iterator' = [iterator EXCEPT !.stayed = @ \intersect Elements(cache', "allocated")]
      /\ iterator = [at |-> iterator.at, met |-> iterator.met, stayed |-> iterator.stayed]
  BY DEF Step, Idle, IInv, Types
<1>2. /\ iterator'.at = iterator.at /\ iterator'.met = iterator.met
      /\ iterator'.stayed = iterator.stayed \intersect Elements(cache', "allocated")
  BY <1>1
<1>3. ~Idle /\ iterator.met \in Seq(Regions) /\ iterator.stayed \subseteq Range(allocated) /\ InOrder
  BY StepFacts DEF Iterates
<1>4. CASE iterator.at = Invalid
  <2>1. iterator'.at = Invalid /\ iterator'.stayed = {}
    BY <1>2, <1>3, <1>4 DEF Iterates
  <2> QED
    BY <1>2, <1>3, <2>1, NoneIterates
<1>5. CASE iterator.at # Invalid
  <2>1. PICK A, B, met, stayed : A = allocated /\ B = allocated' /\ met = iterator.met /\ stayed = iterator.stayed
    OBVIOUS
  <2>2. PICK p \in 0 .. Len(A) : Passed(p)
    BY <2>1 DEF Iterates
  <2>3. PICK i \in 1 .. Len(A) : Arrives(cache', i)
    <3>1. Result(cache, todo) = cache'
      BY StepResult
    <3> QED
      BY <1>3, <1>5, <2>1, <3>1 DEF Iterates
  <2>4. /\ A \in Chains /\ Len(A) \in Nat /\ Range(A) = {A[k] : k \in 1 .. Len(A)} /\ A # << >>
        /\ \A k, j \in 1 .. Len(A) : A[k] = A[j] => k = j
    <3>1. A \in Chains
      BY <2>1 DEF IInv, Types
    <3> QED
      BY <2>3, <3>1, ChainFacts
  <2>5. /\ iterator.at = A[p] /\ p \in 1 .. Len(A) /\ p = i
        /\ \A k \in 1 .. Len(A) : A[k] \in stayed => (k <= p <=> A[k] \in Range(met))
    <3>1. iterator.at \in Range(A) /\ A[i] = iterator.at
      BY <2>1, <2>3, <2>4 DEF Arrives
    <3>2. p >= 1 /\ A[p] = iterator.at
      BY <2>1, <2>2, <3>1 DEF Passed
    <3>3. p \in 1 .. Len(A)
      BY <2>4, <3>2
    <3>4. \A k \in 1 .. Len(A) : A[k] \in stayed => (k <= p <=> A[k] \in Range(met))
      BY <2>1, <2>2 DEF Passed
    <3> QED
      BY <2>4, <3>1, <3>2, <3>3, <3>4
  <2>6. /\ B \in Chains /\ Elements(cache', "allocated") = Range(B)
        /\ \/ B = A \/ \E r : B = Append(A, r) \/ \E j \in 1 .. Len(A) : B = RemoveAt(A, j)
    BY <2>1, <2>4, ReturnList
  <2>7. /\ Len(B) \in Nat /\ Range(B) = {B[k] : k \in 1 .. Len(B)}
        /\ \A k, j \in 1 .. Len(B) : B[k] = B[j] => k = j
    BY <2>6, ChainFacts
  <2>8. iterator'.stayed \subseteq Range(B) /\ iterator'.stayed \subseteq stayed
    BY <1>2, <2>1, <2>6
\* The regions of the new list that stayed have kept their order.
  <2>9. SUFFICES
          /\ \A x, y \in 1 .. Len(A), k, j \in 1 .. Len(B) :
               A[x] = B[k] /\ A[y] = B[j] /\ x < y => k < j
          /\ \E q \in 0 .. Len(B) :
               /\ \A k \in 1 .. Len(B) : B[k] \in stayed => (k <= q <=> B[k] \in Range(met))
               /\ A[p] \in Range(B) => q >= 1 /\ B[q] = A[p]
               /\ A[p] \notin Range(B) =>
                    cache'[Nxt("allocated", A[p])] = IF q = Len(B) THEN Invalid ELSE B[q + 1]
    <3>1. PICK q \in 0 .. Len(B) :
               /\ \A k \in 1 .. Len(B) : B[k] \in stayed => (k <= q <=> B[k] \in Range(met))
               /\ A[p] \in Range(B) => q >= 1 /\ B[q] = A[p]
               /\ A[p] \notin Range(B) =>
                    cache'[Nxt("allocated", A[p])] = IF q = Len(B) THEN Invalid ELSE B[q + 1]
      BY <2>9
    <3>2. Passed(q)'
      BY <1>1, <1>2, <1>5, <2>1, <2>5, <2>8, <3>1 DEF Passed, After
    <3>3. InOrder'
      <4>1. iterator'.met = met /\ allocated' = B /\ allocated = A /\ iterator.met = met /\ iterator.stayed = stayed
        BY <1>2, <2>1
      <4>2. \A k, l \in 1 .. Len(met) :
              k < l /\ met[k] \in stayed /\ met[l] \in stayed =>
                \A x, y \in 1 .. Len(A) : met[k] = A[x] /\ met[l] = A[y] => x < y
        BY <1>3, <4>1, SMTT(30) DEF Iterates, InOrder
      <4>3. ASSUME NEW k \in 1 .. Len(met), NEW l \in 1 .. Len(met), k < l,
                   met[k] \in iterator'.stayed, met[l] \in iterator'.stayed,
                   NEW a \in 1 .. Len(B), NEW b \in 1 .. Len(B), met[k] = B[a], met[l] = B[b]
            PROVE  a < b
        <5>1. met[k] \in stayed /\ met[l] \in stayed
          BY <2>8, <4>3
        <5>2. stayed \subseteq Range(A)
          BY <1>3, <2>1 DEF Iterates
        <5>3. PICK x \in 1 .. Len(A) : A[x] = met[k]
          BY <2>4, <5>1, <5>2, SMTT(30)
        <5>4. PICK y \in 1 .. Len(A) : A[y] = met[l]
          BY <2>4, <5>1, <5>2, SMTT(30)
        <5>5. x < y
          BY <4>2, <4>3, <5>1, <5>3, <5>4
        <5> QED
          BY <2>9, <4>3, <5>3, <5>4, <5>5
      <4> QED
        BY <4>1, <4>3 DEF InOrder
    <3> QED
      BY <1>1, <1>2, <1>3, <2>1, <2>8, <3>1, <3>2, <3>3 DEF Iterates
  <2>10. CASE B = A
    <3>1. \A x, y \in 1 .. Len(A), k, j \in 1 .. Len(B) : A[x] = B[k] /\ A[y] = B[j] /\ x < y => k < j
      BY <2>4, <2>10
    <3>2. A[p] \in Range(B) /\ p >= 1 /\ p \in 0 .. Len(B)
      BY <2>4, <2>5, <2>10
    <3> QED
      BY <2>5, <2>10, <3>1, <3>2
  <2>11. ASSUME NEW r, B = Append(A, r)
         PROVE  /\ \A x, y \in 1 .. Len(A), k, j \in 1 .. Len(B) : A[x] = B[k] /\ A[y] = B[j] /\ x < y => k < j
                /\ p \in 0 .. Len(B) /\ B[p] = A[p] /\ A[p] \in Range(B)
                /\ \A k \in 1 .. Len(B) : B[k] \in stayed => (k <= p <=> B[k] \in Range(met))
    <3>1. /\ Len(B) = Len(A) + 1 /\ B[Len(A) + 1] = r /\ \A k \in 1 .. Len(A) : B[k] = A[k]
      <4>1. A \in Seq(Regions)
        BY <2>4 DEF Chains
      <4> QED
        BY <2>11, <4>1
    <3>2. \A k \in 1 .. Len(A) : k \in 1 .. Len(B)
      BY <2>4, <3>1
    <3>3. Len(A) + 1 \in 1 .. Len(B)
      BY <2>4, <3>1
    <3>4. \A k \in 1 .. Len(A) : A[k] # r
      <4>1. \A k \in 1 .. Len(A) : k # Len(A) + 1
        BY <2>4
      <4> QED
        BY <2>7, <3>1, <3>2, <3>3, <4>1
    <3>5. \A x \in 1 .. Len(A), k \in 1 .. Len(B) : A[x] = B[k] => x = k
      BY <2>7, <3>1, <3>2
    <3>6. \A k \in 1 .. Len(B) : k \in 1 .. Len(A) \/ k = Len(A) + 1
      BY <2>4, <3>1
    <3>7. r \notin stayed
      BY <1>3, <2>1, <2>4, <3>4
    <3>8. \A k \in 1 .. Len(B) : B[k] \in stayed => (k <= p <=> B[k] \in Range(met))
      BY <2>5, <3>1, <3>6, <3>7
    <3>9. p \in 0 .. Len(B) /\ B[p] = A[p] /\ A[p] \in Range(B)
      BY <2>4, <2>5, <2>7, <3>1, <3>2
    <3> QED
      BY <3>5, <3>8, <3>9
  <2>12. ASSUME NEW j \in 1 .. Len(A), B = RemoveAt(A, j)
         PROVE  /\ \A x, y \in 1 .. Len(A), k, l \in 1 .. Len(B) : A[x] = B[k] /\ A[y] = B[l] /\ x < y => k < l
                /\ \E q \in 0 .. Len(B) :
                     /\ \A k \in 1 .. Len(B) : B[k] \in stayed => (k <= q <=> B[k] \in Range(met))
                     /\ A[p] \in Range(B) => q >= 1 /\ B[q] = A[p]
                     /\ A[p] \notin Range(B) =>
                          cache'[Nxt("allocated", A[p])] = IF q = Len(B) THEN Invalid ELSE B[q + 1]
    <3>1. /\ Len(B) = Len(A) - 1 /\ \A k \in 1 .. Len(B) : B[k] = IF k < j THEN A[k] ELSE A[k + 1]
      BY <2>4, <2>12, RemoveAtFacts
    <3>2. \A k \in 1 .. Len(B) : k \in 1 .. Len(A) /\ k + 1 \in 1 .. Len(A) /\ k \in Nat
      BY <2>4, <3>1
    <3>3. \A x \in 1 .. Len(A), k \in 1 .. Len(B) : A[x] = B[k] => x = IF k < j THEN k ELSE k + 1
      BY <2>4, <3>1, <3>2
    <3>4. \A x, y \in 1 .. Len(A), k, l \in 1 .. Len(B) : A[x] = B[k] /\ A[y] = B[l] /\ x < y => k < l
      <4>1. SUFFICES ASSUME NEW x \in 1 .. Len(A), NEW y \in 1 .. Len(A), NEW k \in 1 .. Len(B), NEW l \in 1 .. Len(B),
                            A[x] = B[k], A[y] = B[l], x < y
                     PROVE  k < l
        OBVIOUS
      <4>2. /\ x = IF k < j THEN k ELSE k + 1
            /\ y = IF l < j THEN l ELSE l + 1
        BY <3>3, <4>1
      <4>3. k \in Nat /\ l \in Nat /\ j \in Nat
        BY <2>4, <3>2
      <4> QED
        BY <4>1, <4>2, <4>3
    <3>5. PICK q : q = IF j <= p THEN p - 1 ELSE p
      OBVIOUS
    <3>6. q \in 0 .. Len(B) /\ q \in Nat /\ j \in Nat /\ p \in Nat
      BY <2>4, <2>5, <3>1, <3>5
    <3>7. ASSUME NEW k \in 1 .. Len(B), B[k] \in stayed PROVE k <= q <=> B[k] \in Range(met)
      <4>1. PICK x \in 1 .. Len(A) : x = (IF k < j THEN k ELSE k + 1) /\ B[k] = A[x]
        BY <3>1, <3>2
      <4>2. x <= p <=> k <= q
        BY <3>2, <3>5, <3>6, <4>1
      <4> QED
        BY <2>5, <3>7, <4>1, <4>2
    <3>8. CASE j # p
      <4>1. q \in 1 .. Len(B) /\ B[q] = A[p]
        <5>1. q \in 1 .. Len(B)
          BY <2>4, <2>5, <3>1, <3>5, <3>6, <3>8
        <5>2. CASE j <= p
          <6>1. ~(q < j) /\ q + 1 = p
            BY <2>5, <3>5, <3>6, <3>8, <5>2
          <6> QED
            BY <3>1, <5>1, <6>1
        <5>3. CASE ~(j <= p)
          <6>1. q < j /\ q = p
            BY <2>5, <3>5, <3>6, <5>3
          <6> QED
            BY <3>1, <5>1, <6>1
        <5> QED
          BY <5>2, <5>3
      <4>2. A[p] \in Range(B) /\ q >= 1
        BY <2>7, <4>1
      <4> QED
        BY <3>4, <3>6, <3>7, <4>1, <4>2
    <3>9. CASE j = p
      <4>1. A[p] \notin Range(B)
        <5>1. Range(B) = Range(A) \ {A[j]}
          BY <2>4, <2>12, RemoveAtFacts
        <5> QED
          BY <3>9, <5>1
      <4>2. cache'[Nxt("allocated", A[p])] = After(p)
        BY <2>3, <2>5, <2>6, <4>1 DEF Arrives
      <4>3. After(p) = IF q = Len(B) THEN Invalid ELSE B[q + 1]
        <5>1. q = p - 1
          BY <3>5, <3>6, <3>9
        <5>2. CASE p = Len(A)
          BY <2>1, <3>1, <5>1, <5>2 DEF After
        <5>3. CASE p # Len(A)
          <6>1. q # Len(B) /\ q + 1 = p /\ p \in 1 .. Len(B) /\ ~(p < j)
            BY <2>4, <2>5, <3>1, <3>6, <3>9, <5>1, <5>3
          <6>2. B[q + 1] = A[p + 1]
            BY <3>1, <6>1
          <6> QED
            BY <2>1, <5>3, <6>1, <6>2 DEF After
        <5> QED
          BY <5>2, <5>3
      <4> QED
        BY <3>4, <3>6, <3>7, <4>1, <4>2, <4>3
    <3> QED
      BY <3>8, <3>9
  <2>13. CASE \E r : B = Append(A, r)
    <3>1. PICK r : B = Append(A, r)
      BY <2>13
    <3>2. p >= 1
      BY <2>5
    <3> QED
      BY <2>11, <3>1, <3>2
  <2>14. CASE \E j \in 1 .. Len(A) : B = RemoveAt(A, j)
    BY <2>12, <2>14
  <2> QED
    BY <2>6, <2>10, <2>13, <2>14
<1> QED
  BY <1>4, <1>5

LEMMA NextIteratesToo ==
  ASSUME IInv, IInv', Iterates, [Next]_vars
  PROVE  Iterates'
<1>1. CASE UNCHANGED vars
  <2>1. UNCHANGED <<cache, todo, phase, iterator, allocated>>
    BY <1>1 DEF vars
  <2>2. Idle' = Idle
    BY <2>1 DEF Idle
  <2>3. PICK p \in 0 .. Len(allocated) : Passed(p)
    BY DEF Iterates
  <2>4. Passed(p)'
    BY <2>1, <2>2, <2>3 DEF Passed, After
  <2>5. InOrder'
    BY <2>1, SameInOrder DEF Iterates
  <2>6. \A i : Arrives(Result(cache, todo), i) => Arrives(Result(cache, todo), i)'
    BY <2>1 DEF Arrives, After
  <2> QED
    BY <2>1, <2>2, <2>3, <2>4, <2>5, <2>6 DEF Iterates
<1>2. CASE Allocate
  BY <1>2, AllocateIterates
<1>3. CASE Free
  BY <1>3, FreeIterates
<1>4. CASE Use
  BY <1>4, UseIterates
<1>5. CASE SeekFirst
  BY <1>5, SeekIterates
<1>6. CASE IteratorNext
  BY <1>6, NextIterates
<1>7. CASE Step
  BY <1>7, RunIterates, ReturnIterates
<1>8. CASE Crash
  <2>1. iterator' = NoIterator
    BY <1>8 DEF Crash
  <2>2. iterator'.at = Invalid /\ iterator'.stayed = {} /\ iterator'.met \in Seq(Regions)
    BY <2>1 DEF NoIterator
  <2> QED
    BY <2>2, NoneIterates
<1>9. CASE Open
  <2>1. phase = "down" /\ iterator' = iterator
    BY <1>9 DEF Open
  <2>2. iterator.at = Invalid /\ iterator.stayed = {} /\ iterator.met \in Seq(Regions)
    BY <2>1 DEF Iterates, Idle
  <2> QED
    BY <2>1, <2>2, NoneIterates
<1> QED
  BY <1>1, <1>2, <1>3, <1>4, <1>5, <1>6, <1>7, <1>8, <1>9 DEF Next

LEMMA IteratesComplete == IInv /\ Iterates => IterationIsComplete
<1>1. SUFFICES ASSUME IInv, Iterates, Idle PROVE IterationIsComplete
  BY DEF IterationIsComplete
<1>2. PICK A, met, stayed : A = allocated /\ met = iterator.met /\ stayed = iterator.stayed
  OBVIOUS
<1>3. /\ met \in Seq(Regions) /\ stayed \subseteq Range(A) /\ Len(met) \in Nat /\ DOMAIN met = 1 .. Len(met)
      /\ Range(met) = {met[k] : k \in 1 .. Len(met)}
  <2>1. met \in Seq(Regions) /\ stayed \subseteq Range(A)
    BY <1>1, <1>2 DEF Iterates
  <2> QED
    BY <2>1 DEF Range
<1>4. /\ Len(A) \in Nat /\ DOMAIN A = 1 .. Len(A) /\ Range(A) = {A[k] : k \in 1 .. Len(A)}
      /\ \A i, j \in 1 .. Len(A) : A[i] = A[j] => i = j
  <2>1. A \in Chains /\ A \in Seq(Regions)
    BY <1>1, <1>2 DEF IInv, Types, Chains
  <2> QED
    BY <2>1, ChainFacts
<1>5. PICK p \in 0 .. Len(A) :
        /\ \A i \in 1 .. Len(A) : A[i] \in stayed => (i <= p <=> A[i] \in Range(met))
        /\ iterator.at = Invalid => p = Len(A)
  BY <1>1, <1>2 DEF Iterates, Passed
<1>6. \A k, l \in 1 .. Len(met) : k < l /\ met[k] \in stayed /\ met[l] \in stayed =>
        \A i, j \in 1 .. Len(A) : met[k] = A[i] /\ met[l] = A[j] => i < j
  BY <1>1, <1>2 DEF Iterates, InOrder
<1>7. iterator.at = Invalid => stayed \subseteq Range(met)
  <2>1. SUFFICES ASSUME iterator.at = Invalid, NEW r \in stayed PROVE r \in Range(met)
    OBVIOUS
  <2>2. PICK i \in 1 .. Len(A) : A[i] = r
    BY <1>3, <1>4, <2>1
  <2>3. i <= p
    BY <1>4, <1>5, <2>1, <2>2
  <2> QED
    BY <1>5, <2>1, <2>2, <2>3
<1>8. ASSUME NEW k \in DOMAIN met, NEW l \in DOMAIN met, met[k] \in stayed, met[k] = met[l] PROVE k = l
  <2>1. PICK i \in 1 .. Len(A) : A[i] = met[k]
    BY <1>3, <1>4, <1>8
  <2>2. ~(i < i)
    BY <1>4
  <2>3. ~(k < l) /\ ~(l < k)
    BY <1>3, <1>6, <1>8, <2>1, <2>2
  <2> QED
    BY <1>3, <2>3
<1>9. ASSUME NEW i \in DOMAIN A, NEW j \in DOMAIN A, i < j, A[i] \in stayed, A[j] \in stayed, A[j] \in Range(met)
      PROVE  \E k, l \in DOMAIN met : k < l /\ met[k] = A[i] /\ met[l] = A[j]
  <2>1. j <= p /\ i <= p
    BY <1>4, <1>5, <1>9
  <2>2. A[i] \in Range(met)
    BY <1>4, <1>5, <1>9, <2>1
  <2>3. PICK k, l \in 1 .. Len(met) : met[k] = A[i] /\ met[l] = A[j]
    BY <1>3, <1>9, <2>2
  <2>4. k # l
    BY <1>4, <1>9, <2>3
  <2>5. ~(l < k)
    <3>1. ~(j < i)
      BY <1>4, <1>9
    <3> QED
      BY <1>4, <1>6, <1>9, <2>3, <3>1
  <2>6. k < l
    BY <1>3, <2>4, <2>5
  <2> QED
    BY <1>3, <2>3, <2>6
<1> QED
  BY <1>2, <1>7, <1>8, <1>9 DEF IterationIsComplete

\* An iterator that pmemstream_region_iterator_next leads to the end has met every
\* region that has been allocated ever since it started, each once and in the order
\* of the list, whatever was allocated and freed under it and wherever the power
\* failed before.
THEOREM IterationsAreComplete ==
  ASSUME ~CrashInExtension
  PROVE  Spec => []IterationIsComplete
<1>1. Init => Iterates
  BY InitIterates
<1>2. IInv /\ IInv' /\ Iterates /\ [Next]_vars => Iterates'
  BY NextIteratesToo
<1>3. IInv /\ Iterates => IterationIsComplete
  BY IteratesComplete
<1>4. Spec => []IInv
  BY AllocatorInvariant
<1> QED
  BY <1>1, <1>2, <1>3, <1>4, PTL DEF Spec

=============================================================================

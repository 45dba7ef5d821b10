-------------------------- MODULE RegionLogProofs --------------------------
(***************************************************************************)
(* Proofs about RegionLog, first part: what its recursive definitions      *)
(* (Scan, TailOf, Outcomes) return, the types of its variables, and who    *)
(* may use which runtime of a region when (OneRuntimePerRegion, and the    *)
(* exclusion of region_lock).                                              *)
(***************************************************************************)
EXTENDS RegionLog, FiniteSetTheorems, WellFoundedInduction, TLAPS

-----------------------------------------------------------------------------
(* Induction over the naturals, by sets                                    *)

\* A set of natural numbers that has 0 and with n also n + 1 has them all.
LEMMA Induction ==
  ASSUME NEW S \in SUBSET Nat, 0 \in S, \A n \in S : n + 1 \in S
  PROVE  S = Nat
<1>1. SUFFICES ASSUME Nat \ S # {} PROVE FALSE
  OBVIOUS
<1> DEFINE T == Nat \ S
<1>2. T \in SUBSET Nat /\ T # {}
  BY <1>1
<1>3. PICK x \in T : \A y \in T : ~(<<y, x>> \in OpToRel(<, Nat))
  BY <1>2, NatLessThanWellFounded, WFMin
<1>4. x \in Nat /\ x # 0
  BY <1>2
<1>5. x - 1 \in Nat /\ x - 1 < x /\ x - 1 + 1 = x
  BY <1>4
<1>6. x - 1 \notin T
  BY <1>3, <1>4, <1>5 DEF OpToRel
<1> QED
  BY <1>5, <1>6

-----------------------------------------------------------------------------
(* Types                                                                   *)

Cell == [span : 0 .. Capacity, timestamp : Nat, payload : Nat]
Entries == [timestamp : Nat, offset : Nat, payload : Seq(Nat)]
Operations ==
  [timestamp : Nat, region : Regions, offset : Nat, size : 0 .. Capacity, append : Nat,
   copied : BOOLEAN, published : BOOLEAN, durable : BOOLEAN]
Locals ==
  [region : Nat, runtime : Runtimes \union {Nobody}, offset : Nat, size : 0 .. Capacity,
   timestamp : Nat, valid : Nat, seen : Seq(Entries)]

CellTypes ==
  /\ cells \in [Places -> Cell]
  /\ cellsMedium \in [Places -> SUBSET Cell]
  /\ \A p \in Places : cells[p] \in cellsMedium[p]
RegionTypes ==
  /\ maxValid \in [Regions -> Nat]
  /\ maxValidMedium \in [Regions -> SUBSET Nat]
  /\ \A r \in Regions : maxValid[r] \in maxValidMedium[r]
  /\ isRegion \in [Regions -> BOOLEAN]
  /\ allocated \in SUBSET Regions
TimestampTypes ==
  /\ next \in Nat /\ committed \in Nat /\ persisted \in Nat
  /\ ops \in SUBSET Operations
RuntimeTypes ==
  /\ runtimeOf \in [Regions -> Runtimes \union {Nobody}]
  /\ state \in [Runtimes -> {"none", "read_ready", "write_ready"}]
  /\ appendOffset \in [Runtimes -> Nat]
  /\ lock \in [Runtimes -> Actors \union {Nobody}]
ActorTypes ==
  /\ phase \in {"opening", "running"}
  /\ pc = [b \in Actors |-> pc[b]]
  /\ loc \in [Actors -> Locals]
  /\ log \in [Regions -> Seq(Entries)]
CounterTypes == appends \in Nat /\ reads \in Nat /\ frees \in Nat /\ crashes \in Nat
Types ==
  CellTypes /\ RegionTypes /\ TimestampTypes /\ RuntimeTypes /\ ActorTypes /\ CounterTypes

LEMMA Constants ==
  /\ IsFiniteSet(Regions) /\ Regions \subseteq Nat
  /\ Capacity \in Nat /\ Capacity > 0
  /\ Reader \in Actors /\ Reader \notin Regions /\ Regions \subseteq Actors
  /\ Nobody \notin Actors /\ Nobody \notin Runtimes
  /\ \A s \in Sizes : s \in Nat /\ 1 <= s /\ s <= Capacity
  /\ Forever \in Nat /\ Forever = MaxAppends + 1 /\ MaxAppends \in Nat
<1>1. /\ IsFiniteSet(Regions) /\ Regions = 0 .. Cardinality(Regions) - 1
      /\ {Reader, Nobody} \intersect Regions = {} /\ Reader # Nobody
      /\ Nobody \notin (Regions \union {Reader}) \X Regions
  BY LogAssumption
<1>2. /\ Capacity \in Nat \ {0} /\ Sizes \subseteq 1 .. Capacity /\ MaxAppends \in Nat
  BY LogAssumption
<1>3. Regions \subseteq Nat
  BY <1>1, FS_CardinalityType
<1>4. Capacity \in Nat /\ Capacity > 0
  BY <1>2
<1>5. \A s \in Sizes : s \in Nat /\ 1 <= s /\ s <= Capacity
  BY <1>2
<1>6. Forever \in Nat /\ Forever = MaxAppends + 1 /\ MaxAppends \in Nat
  BY <1>2 DEF Forever
<1>7. /\ Reader \in Actors /\ Reader \notin Regions /\ Regions \subseteq Actors
      /\ Nobody \notin Actors /\ Nobody \notin Runtimes
  BY <1>1 DEF Actors, Runtimes
<1> QED
  BY <1>1, <1>3, <1>4, <1>5, <1>6, <1>7

-----------------------------------------------------------------------------
(* What the recursive definitions return                                   *)

ScanBody(r, f) ==
  [i \in 0 .. 2 * Capacity |->
     IF ValidAt(r, i) THEN <<EntryAt(r, i)>> \o f[i + 1 + cells[<<r, i>>].span] ELSE << >>]
TailBody(r, f) ==
  [i \in 0 .. 2 * Capacity |-> IF ValidAt(r, i) THEN f[i + 1 + cells[<<r, i>>].span] ELSE i]

\* A valid header has room for its entry, or ends the walk.
LEMMA NextIndex ==
  ASSUME Types, NEW r \in Regions, NEW i \in 0 .. 2 * Capacity, ValidAt(r, i)
  PROVE  /\ <<r, i>> \in Places
         /\ i + 1 + cells[<<r, i>>].span \in 0 .. 2 * Capacity
         /\ i < i + 1 + cells[<<r, i>>].span
<1>1. i \in 0 .. Capacity - 1
  BY Constants DEF ValidAt
<1>2. <<r, i>> \in Places
  BY <1>1 DEF Places
<1>3. cells[<<r, i>>].span \in 0 .. Capacity
  BY <1>2 DEF Types, CellTypes, Cell
<1> QED
  BY <1>1, <1>2, <1>3, Constants

\* The recursion in Scan is well founded: every step goes to a higher index.
LEMMA ScanFrom ==
  ASSUME Types, NEW r \in Regions
  PROVE  \E f : f = ScanBody(r, f) /\ Scan(r) = f[0]
<1> DEFINE D == 0 .. 2 * Capacity
           Good(n, f) == /\ DOMAIN f = D
                         /\ \A i \in D : i + n > 2 * Capacity => f[i] = ScanBody(r, f)[i]
           S == {n \in Nat : \E f : f = [i \in D |-> f[i]] /\ Good(n, f)}
<1>1. 0 \in S
  <2> DEFINE f0 == [i \in D |-> 0]
  <2>1. f0 = [i \in D |-> f0[i]] /\ DOMAIN f0 = D
    OBVIOUS
  <2>2. \A i \in D : ~(i + 0 > 2 * Capacity)
    BY Constants
  <2> QED
    BY <2>1, <2>2
<1>2. ASSUME NEW n \in S PROVE n + 1 \in S
  <2>1. n \in Nat
    OBVIOUS
  <2>2. PICK f : f = [i \in D |-> f[i]] /\ Good(n, f)
    OBVIOUS
  <2> DEFINE g == [i \in D |-> IF i + n > 2 * Capacity THEN f[i] ELSE ScanBody(r, f)[i]]
  <2>3. g = [i \in D |-> g[i]] /\ DOMAIN g = D
    OBVIOUS
  <2>4. ASSUME NEW i \in D, i + (n + 1) > 2 * Capacity PROVE g[i] = ScanBody(r, g)[i]
    <3>1. g[i] = ScanBody(r, f)[i]
      BY <2>2
    <3>2. CASE ValidAt(r, i)
      <4> DEFINE j == i + 1 + cells[<<r, i>>].span
      <4>1. j \in D /\ j > i
        BY <3>2, NextIndex
      <4>2. j + n > 2 * Capacity
        BY <4>1, <2>1, <2>4, Constants
      <4>3. g[j] = f[j]
        BY <4>1, <4>2
      <4> QED
        BY <3>1, <3>2, <4>3 DEF ScanBody
    <3>3. CASE ~ValidAt(r, i)
      BY <3>1, <3>3 DEF ScanBody
    <3> QED
      BY <3>2, <3>3
  <2>5. Good(n + 1, g)
    BY <2>3, <2>4
  <2>6. \E h : h = [i \in D |-> h[i]] /\ Good(n + 1, h)
    <3> HIDE DEF Good, g
    <3> QED
      BY <2>3, <2>5
  <2>7. n + 1 \in Nat
    BY <2>1
  <2> HIDE DEF Good
  <2> QED
    BY <2>6, <2>7
<1>3. S = Nat
  <2> HIDE DEF S
  <2>1. S \in SUBSET Nat
    BY DEF S
  <2> QED
    BY <1>1, <1>2, <2>1, Induction
<1>4. 2 * Capacity + 1 \in S
  BY <1>3, Constants, SMTT(30)
<1>5. PICK f : f = [i \in D |-> f[i]] /\ Good(2 * Capacity + 1, f)
  BY <1>4
<1>6. f = ScanBody(r, f)
  <2>1. \A i \in D : f[i] = ScanBody(r, f)[i]
    BY <1>5, Constants
  <2>2. ScanBody(r, f) = [i \in D |-> ScanBody(r, f)[i]]
    BY DEF ScanBody
  <2> QED
    BY <1>5, <2>1, <2>2
<1> DEFINE h == CHOOSE g : g = ScanBody(r, g)
<1>7. h = ScanBody(r, h)
  BY <1>6
<1>8. Scan(r) = h[0]
  BY DEF Scan, ScanBody
<1> QED
  BY <1>7, <1>8

\* So is the one in TailOf, which returns an index.
LEMMA TailFrom ==
  ASSUME Types, NEW r \in Regions
  PROVE  \E f : f = TailBody(r, f) /\ TailOf(r) = f[0] /\ TailOf(r) \in Nat
<1> DEFINE D == 0 .. 2 * Capacity
           Good(n, f) == /\ DOMAIN f = D
                         /\ \A i \in D : i + n > 2 * Capacity => f[i] = TailBody(r, f)[i]
           S == {n \in Nat : \E f : f = [i \in D |-> f[i]] /\ Good(n, f)}
<1>1. 0 \in S
  <2> DEFINE f0 == [i \in D |-> 0]
  <2>1. f0 = [i \in D |-> f0[i]] /\ DOMAIN f0 = D
    OBVIOUS
  <2>2. \A i \in D : ~(i + 0 > 2 * Capacity)
    BY Constants
  <2> QED
    BY <2>1, <2>2
<1>2. ASSUME NEW n \in S PROVE n + 1 \in S
  <2>1. n \in Nat
    OBVIOUS
  <2>2. PICK f : f = [i \in D |-> f[i]] /\ Good(n, f)
    OBVIOUS
  <2> DEFINE g == [i \in D |-> IF i + n > 2 * Capacity THEN f[i] ELSE TailBody(r, f)[i]]
  <2>3. g = [i \in D |-> g[i]] /\ DOMAIN g = D
    OBVIOUS
  <2>4. ASSUME NEW i \in D, i + (n + 1) > 2 * Capacity PROVE g[i] = TailBody(r, g)[i]
    <3>1. g[i] = TailBody(r, f)[i]
      BY <2>2
    <3>2. CASE ValidAt(r, i)
      <4> DEFINE j == i + 1 + cells[<<r, i>>].span
      <4>1. j \in D /\ j > i
        BY <3>2, NextIndex
      <4>2. j + n > 2 * Capacity
        BY <4>1, <2>1, <2>4, Constants
      <4>3. g[j] = f[j]
        BY <4>1, <4>2
      <4> QED
        BY <3>1, <3>2, <4>3 DEF TailBody
    <3>3. CASE ~ValidAt(r, i)
      BY <3>1, <3>3 DEF TailBody
    <3> QED
      BY <3>2, <3>3
  <2>5. Good(n + 1, g)
    BY <2>3, <2>4
  <2>6. \E h : h = [i \in D |-> h[i]] /\ Good(n + 1, h)
    <3> HIDE DEF Good, g
    <3> QED
      BY <2>3, <2>5
  <2>7. n + 1 \in Nat
    BY <2>1
  <2> HIDE DEF Good
  <2> QED
    BY <2>6, <2>7
<1>3. S = Nat
  <2> HIDE DEF S
  <2>1. S \in SUBSET Nat
    BY DEF S
  <2> QED
    BY <1>1, <1>2, <2>1, Induction
<1>4. 2 * Capacity + 1 \in S
  BY <1>3, Constants, SMTT(30)
<1>5. PICK f : f = [i \in D |-> f[i]] /\ Good(2 * Capacity + 1, f)
  BY <1>4
<1>6. f = TailBody(r, f)
  <2>1. \A i \in D : f[i] = TailBody(r, f)[i]
    BY <1>5, Constants
  <2>2. TailBody(r, f) = [i \in D |-> TailBody(r, f)[i]]
    BY DEF TailBody
  <2> QED
    BY <1>5, <2>1, <2>2
<1> DEFINE h == CHOOSE g : g = TailBody(r, g)
<1>7. h = TailBody(r, h)
  BY <1>6
<1>8. TailOf(r) = h[0]
  BY DEF TailOf, TailBody
<1>9. h[0] \in Nat
  <2> HIDE DEF h
  <2> DEFINE U == {n \in Nat : \A i \in D : i + n > 2 * Capacity => h[i] \in Nat}
  <2>1. 0 \in U
    BY Constants
  <2>2. ASSUME NEW n \in U PROVE n + 1 \in U
    <3>1. ASSUME NEW i \in D, i + (n + 1) > 2 * Capacity PROVE h[i] \in Nat
      <4>1. CASE ValidAt(r, i)
        <5> DEFINE j == i + 1 + cells[<<r, i>>].span
        <5>1. j \in D /\ j > i
          BY <4>1, NextIndex
        <5>2. j + n > 2 * Capacity
          BY <5>1, <3>1, Constants
        <5>3. h[j] \in Nat
          BY <5>1, <5>2
        <5> QED
          BY <4>1, <5>3, <1>7 DEF TailBody
      <4>2. CASE ~ValidAt(r, i)
        BY <4>2, <1>7 DEF TailBody
      <4> QED
        BY <4>1, <4>2
    <3> QED
      BY <3>1
  <2>3. U = Nat
    <3> HIDE DEF U
    <3>1. U \in SUBSET Nat
      BY DEF U
    <3> QED
      BY <2>1, <2>2, <3>1, Induction
  <2>4. 2 * Capacity + 1 \in Nat /\ 0 \in D /\ 0 + (2 * Capacity + 1) > 2 * Capacity
    BY Constants
  <2>5. 2 * Capacity + 1 \in U
    <3> HIDE DEF U
    <3> QED
      BY <2>3, <2>4
  <2> QED
    BY <2>4, <2>5
<1> HIDE DEF h
<1> QED
  BY <1>7, <1>8, <1>9

Unsettled(m) == {w \in DOMAIN m : Cardinality(m[w]) > 1}
Settled(m) == [w \in DOMAIN m |-> CHOOSE v \in m[w] : TRUE]
Extended(m, w, chosen) == {[g EXCEPT ![w] = v] : g \in chosen, v \in m[w]}
OutcomesBody(m, F) ==
  [T \in SUBSET Unsettled(m) |->
     IF T = {} THEN {Settled(m)}
     ELSE Extended(m, CHOOSE x \in T : TRUE, F[T \ {CHOOSE x \in T : TRUE}])]

LEMMA ExtendedElement ==
  ASSUME NEW m, NEW w, NEW chosen, NEW g \in Extended(m, w, chosen)
  PROVE  \E h \in chosen, v \in m[w] : g = [h EXCEPT ![w] = v]
  BY DEF Extended

\* What FoldSet adds up to in Outcomes: one of the values at every place.
LEMMA OutcomesSound ==
  ASSUME NEW m, IsFiniteSet(DOMAIN m), \A w \in DOMAIN m : m[w] # {},
         NEW f \in Outcomes(m)
  PROVE  /\ f = [w \in DOMAIN m |-> f[w]]
         /\ \A w \in DOMAIN m : f[w] \in m[w]
<1> DEFINE W == Unsettled(m)
           Body(F) == OutcomesBody(m, F)
           Good(n, F) == /\ DOMAIN F = SUBSET W
                         /\ \A T \in SUBSET W : Cardinality(T) < n => F[T] = Body(F)[T]
           S == {n \in Nat : \E F : F = [T \in SUBSET W |-> F[T]] /\ Good(n, F)}
<1>1. IsFiniteSet(W) /\ \A T \in SUBSET W : IsFiniteSet(T) /\ Cardinality(T) \in Nat
  BY FS_Subset, FS_CardinalityType DEF Unsettled
<1>2. ASSUME NEW T \in SUBSET W, T # {}
      PROVE  LET x == CHOOSE y \in T : TRUE
             IN  x \in T /\ T \ {x} \in SUBSET W /\ Cardinality(T \ {x}) < Cardinality(T)
  <2> DEFINE x == CHOOSE y \in T : TRUE
  <2>1. x \in T
    BY <1>2
  <2>2. Cardinality(T \ {x}) = Cardinality(T) - 1 /\ Cardinality(T) \in Nat
    BY <1>1, <2>1, FS_RemoveElement
  <2> HIDE DEF x
  <2>3. x \in T /\ T \ {x} \in SUBSET W /\ Cardinality(T \ {x}) < Cardinality(T)
    BY <2>1, <2>2
  <2> QED
    BY <2>3 DEF x
<1>3. 0 \in S
  <2> DEFINE F0 == [T \in SUBSET W |-> {}]
  <2>1. \A T \in SUBSET W : ~(Cardinality(T) < 0)
    BY <1>1
  <2>2. Good(0, F0) /\ F0 = [T \in SUBSET W |-> F0[T]]
    BY <2>1
  <2>3. \E F : F = [T \in SUBSET W |-> F[T]] /\ Good(0, F)
    <3> HIDE DEF Good, F0
    <3> QED
      BY <2>2
  <2> HIDE DEF Good
  <2> QED
    BY <2>3
<1>4. ASSUME NEW n \in S PROVE n + 1 \in S
  <2>1. n \in Nat /\ n + 1 \in Nat
    OBVIOUS
  <2>2. PICK F : F = [T \in SUBSET W |-> F[T]] /\ Good(n, F)
    <3> HIDE DEF Good
    <3> QED
      OBVIOUS
  <2> DEFINE G == [T \in SUBSET W |-> IF Cardinality(T) < n THEN F[T] ELSE Body(F)[T]]
  <2>3. G = [T \in SUBSET W |-> G[T]] /\ DOMAIN G = SUBSET W
    OBVIOUS
  <2>4. ASSUME NEW T \in SUBSET W, Cardinality(T) < n + 1 PROVE G[T] = Body(G)[T]
    <3>1. G[T] = Body(F)[T]
      <4> HIDE DEF Body
      <4> QED
        BY <2>2
    <3>2. CASE T # {}
      <4> DEFINE x == CHOOSE y \in T : TRUE
      <4>1. x \in T /\ T \ {x} \in SUBSET W /\ Cardinality(T \ {x}) < Cardinality(T)
        BY <3>2, <1>2
      <4>2. Cardinality(T \ {x}) < n
        BY <4>1, <2>1, <2>4, <1>1
      <4>3. G[T \ {x}] = F[T \ {x}]
        BY <4>1, <4>2
      <4>4. Body(F)[T] = Extended(m, x, F[T \ {x}]) /\ Body(G)[T] = Extended(m, x, G[T \ {x}])
        <5> HIDE DEF G, W
        <5> QED
          BY <3>2 DEF OutcomesBody, W
      <4> HIDE DEF x, G, Body
      <4> QED
        BY <3>1, <4>3, <4>4
    <3>3. CASE T = {}
      <4>1. Body(F)[T] = {Settled(m)} /\ Body(G)[T] = {Settled(m)}
        <5> HIDE DEF G
        <5> QED
          BY <3>3 DEF OutcomesBody
      <4> HIDE DEF Body, G
      <4> QED
        BY <3>1, <4>1
    <3> QED
      BY <3>2, <3>3
  <2>5. Good(n + 1, G)
    <3> HIDE DEF G, Body
    <3> QED
      BY <2>3, <2>4
  <2>6. \E H : H = [T \in SUBSET W |-> H[T]] /\ Good(n + 1, H)
    <3> HIDE DEF Good, G
    <3> QED
      BY <2>3, <2>5
  <2> HIDE DEF Good
  <2> QED
    BY <2>1, <2>6
<1>5. S = Nat
  <2> HIDE DEF S
  <2>1. S \in SUBSET Nat
    BY DEF S
  <2> QED
    BY <1>3, <1>4, <2>1, Induction
<1>6. \E F : F = Body(F)
  <2>1. Cardinality(W) + 1 \in Nat
    BY <1>1
  <2>2. PICK F : F = [T \in SUBSET W |-> F[T]] /\ Good(Cardinality(W) + 1, F)
    <3> HIDE DEF Good
    <3> QED
      BY <1>5, <2>1
  <2>3. ASSUME NEW T \in SUBSET W PROVE Cardinality(T) < Cardinality(W) + 1
    <3>1. Cardinality(T) <= Cardinality(W) /\ Cardinality(T) \in Nat /\ Cardinality(W) \in Nat
      BY <1>1, FS_Subset
    <3> QED
      BY <3>1
  <2>4. \A T \in SUBSET W : F[T] = Body(F)[T]
    <3> HIDE DEF Body
    <3> QED
      BY <2>2, <2>3
  <2>5. Body(F) = [T \in SUBSET W |-> Body(F)[T]]
    BY DEF OutcomesBody
  <2> HIDE DEF Body
  <2> QED
    BY <2>2, <2>4, <2>5
<1> DEFINE Iter == CHOOSE F : F = Body(F)
<1>7. Iter = Body(Iter)
  <2> HIDE DEF Body
  <2> QED
    BY <1>6
<1>8. Outcomes(m) = Iter[W]
  BY DEF Outcomes, FoldSet, MapThenFoldSet, OutcomesBody, Extended, Settled, Unsettled
<1> DEFINE Choice(g) == g = [w \in DOMAIN m |-> g[w]] /\ \A w \in DOMAIN m : g[w] \in m[w]
           U == {n \in Nat : \A T \in SUBSET W : Cardinality(T) < n => \A g \in Iter[T] : Choice(g)}
<1>9. 0 \in U
  <2>1. \A T \in SUBSET W : ~(Cardinality(T) < 0)
    BY <1>1
  <2> HIDE DEF Choice
  <2> QED
    BY <2>1
<1>10. ASSUME NEW n \in U PROVE n + 1 \in U
  <2>0. n \in Nat /\ n + 1 \in Nat
    OBVIOUS
  <2>1. ASSUME NEW T \in SUBSET W, Cardinality(T) < n + 1, NEW g \in Iter[T]
        PROVE  Choice(g)
    <3>1. CASE T = {}
      <4>1. Iter[T] = {Settled(m)}
        <5> HIDE DEF Iter
        <5> QED
          BY <3>1, <1>7 DEF OutcomesBody
      <4>2. g = Settled(m)
        BY <4>1, <2>1
      <4> QED
        BY <4>2 DEF Settled
    <3>2. CASE T # {}
      <4> DEFINE x == CHOOSE y \in T : TRUE
      <4>1. x \in T /\ T \ {x} \in SUBSET W /\ Cardinality(T \ {x}) < Cardinality(T)
        BY <3>2, <1>2
      <4>2. Iter[T] = Extended(m, x, Iter[T \ {x}])
        <5> HIDE DEF Iter
        <5> QED
          BY <3>2, <1>7 DEF OutcomesBody
      <4>3. g \in Extended(m, x, Iter[T \ {x}])
        <5> HIDE DEF Iter, x
        <5> QED
          BY <4>2, <2>1
      <4>4. PICK h \in Iter[T \ {x}], v \in m[x] : g = [h EXCEPT ![x] = v]
        <5> HIDE DEF Iter, x
        <5> QED
          BY <4>3, ExtendedElement
      <4>5. Choice(h)
        <5>1. Cardinality(T \ {x}) < n
          <6> HIDE DEF x
          <6> QED
            BY <4>1, <2>0, <2>1, <1>1
        <5> HIDE DEF Iter, x, Choice
        <5> QED
          BY <5>1, <4>1, <4>4
      <4> HIDE DEF x, Iter
      <4> QED
        BY <4>4, <4>5
    <3> QED
      BY <3>1, <3>2
  <2> HIDE DEF Choice
  <2> QED
    BY <2>0, <2>1
<1>11. U = Nat
  <2> HIDE DEF U
  <2>1. U \in SUBSET Nat
    BY DEF U
  <2> QED
    BY <1>9, <1>10, <2>1, Induction
<1>12. Cardinality(W) + 1 \in U /\ Cardinality(W) < Cardinality(W) + 1
  <2>1. Cardinality(W) \in Nat
    BY <1>1
  <2> HIDE DEF U
  <2> QED
    BY <1>11, <2>1
<1>13. Choice(f)
  <2> HIDE DEF Choice, Iter
  <2>1. f \in Iter[W]
    BY <1>8
  <2> QED
    BY <2>1, <1>12
<1> QED
  BY <1>13

-----------------------------------------------------------------------------
(* Who uses which runtime                                                  *)

Resting == {"idle", "remove_runtime"}
Searching == {"look_up", "create"}
Recovering == {"initialize", "lock"}
Locked == {"recheck", "set_max_valid", "write_ready"}
Storing == {"clear_next", "store_timestamp", "store_span", "publish"}
Writing == {"reserve", "acquire"} \union Storing
Checking == {"load_max_valid", "load_span", "load_timestamp"}
WriterLabels == Resting \union Searching \union Recovering \union Locked \union Writing
ReaderLabels ==
  {"idle", "load_committed"} \union Searching \union Recovering \union Locked \union Checking
HasRuntime == Recovering \union Locked \union Writing \union Checking \union {"load_committed"}

\* What holds of an actor a at label l with locals x.  A region in use is allocated;
\* an actor that went through get_or_create has the runtime that is in the map;
\* region_lock is held from the second check of the state to the end of the recovery;
\* nothing runs while the stream is being opened.
Placed(a, l, x) ==
  /\ l \in (IF a = Reader THEN ReaderLabels ELSE WriterLabels)
  /\ l \notin Resting => x.region \in allocated /\ (a # Reader => x.region = a)
  /\ l = "remove_runtime" => a \notin allocated
  /\ l \in Checking => x.offset < Capacity
Holds(a, l, x) ==
  IF l \in HasRuntime THEN x.runtime # Nobody /\ x.runtime = runtimeOf[x.region]
  ELSE x.runtime = Nobody
Locks(a, l, x) == \A o \in Runtimes : lock[o] = a <=> (l \in Locked /\ x.runtime = o)
Ready(a, l, x) ==
  /\ l \in {"set_max_valid", "write_ready"} => state[x.runtime] = "read_ready"
  /\ l \in Writing => state[x.runtime] = "write_ready"
ActorOK(a, l, x) ==
  /\ Placed(a, l, x) /\ Holds(a, l, x) /\ Locks(a, l, x) /\ Ready(a, l, x)
  /\ phase = "opening" => l = "idle"

\* The map has the runtimes that exist, each under its region.
Mapped ==
  /\ \A r \in Regions : runtimeOf[r] # Nobody => state[runtimeOf[r]] # "none" /\ runtimeOf[r][2] = r
  /\ \A o \in Runtimes : state[o] # "none" => runtimeOf[o[2]] = o
  /\ \A r \in Regions : r \notin allocated /\ pc[r] # "remove_runtime" => runtimeOf[r] = Nobody
  /\ phase = "opening" => \A r \in Regions : runtimeOf[r] = Nobody

OpsOfUsed == (\A op \in ops : op.region \in allocated) /\ (phase = "opening" => ops = {})

RuntimeInv == (\A a \in Actors : ActorOK(a, pc[a], loc[a])) /\ Mapped /\ OpsOfUsed

-----------------------------------------------------------------------------
(* Types are kept                                                          *)

\* What is stored may reach the medium.
LEMMA StoredTypes ==
  ASSUME CellTypes, NEW p \in Places, NEW c \in Cell
  PROVE  c \in Stored(p, c) /\ Stored(p, c) \in SUBSET Cell
<1> DEFINE V == cellsMedium[p] \union {c}
<1>1. V \in SUBSET Cell /\ c \in V
  BY DEF CellTypes
<1>2. \A v \in V : v.span \in 0 .. Capacity /\ v.timestamp \in Nat /\ v.payload \in Nat
  BY <1>1 DEF Cell
<1>3. c = [span |-> c.span, timestamp |-> c.timestamp, payload |-> c.payload]
  BY DEF Cell
<1> HIDE DEF V
<1>4. CASE p[2] \in SplitCells
  <2>1. Stored(p, c) = [span : {v.span : v \in V}, timestamp : {v.timestamp : v \in V},
                        payload : {v.payload : v \in V}]
    BY <1>4 DEF Stored, V
  <2>2. c.span \in {v.span : v \in V} /\ c.timestamp \in {v.timestamp : v \in V}
        /\ c.payload \in {v.payload : v \in V}
    BY <1>1
  <2>3. c \in Stored(p, c)
    BY <2>1, <2>2, <1>3
  <2>4. /\ {v.span : v \in V} \subseteq 0 .. Capacity /\ {v.timestamp : v \in V} \subseteq Nat
        /\ {v.payload : v \in V} \subseteq Nat
    BY <1>2
  <2>5. Stored(p, c) \subseteq Cell
    BY <2>1, <2>4 DEF Cell
  <2> QED
    BY <2>3, <2>5
<1>5. CASE p[2] \notin SplitCells
  BY <1>1, <1>5 DEF Stored, V
<1> QED
  BY <1>4, <1>5

LEMMA StoreTypes ==
  ASSUME CellTypes, NEW p, NEW c, p \in Places => c \in Cell, StoreCell(p, c)
  PROVE  CellTypes'
<1>1. CASE p \in Places
  <2>1. c \in Stored(p, c) /\ Stored(p, c) \in SUBSET Cell
    BY <1>1, StoredTypes
  <2> QED
    BY <1>1, <2>1 DEF CellTypes, StoreCell
<1>2. CASE p \notin Places
  <2>1. cells' = cells /\ cellsMedium' = cellsMedium
    BY <1>2 DEF CellTypes, StoreCell
  <2> QED
    BY <2>1 DEF CellTypes
<1> QED
  BY <1>1, <1>2

LEMMA ClearTypes ==
  ASSUME CellTypes, RegionTypes, NEW r \in Regions, NEW i \in Nat, ClearSpan(r, i)
  PROVE  CellTypes' /\ isRegion' \in [Regions -> BOOLEAN]
<1>1. CASE i < Capacity
  <2> DEFINE c == [cells[<<r, i>>] EXCEPT !.span = Empty]
  <2>1. <<r, i>> \in Places
    BY <1>1, Constants DEF Places
  <2>2. c \in Cell
    BY <2>1, Constants DEF CellTypes, Cell, Empty
  <2>3. StoreCell(<<r, i>>, c) /\ isRegion' = isRegion
    BY <1>1 DEF ClearSpan
  <2> HIDE DEF c
  <2> QED
    BY <2>2, <2>3, StoreTypes DEF RegionTypes
<1>2. CASE ~(i < Capacity)
  <2>1. /\ isRegion' = [q \in Regions |-> isRegion[q] /\ q # r + 1]
        /\ cells' = cells /\ cellsMedium' = cellsMedium
    BY <1>2 DEF ClearSpan
  <2> QED
    BY <2>1 DEF CellTypes, RegionTypes
<1> QED
  BY <1>1, <1>2

\* What a reader takes from a region is an entry.
LEMMA EntryType ==
  ASSUME Types, NEW r \in Regions, NEW i \in 0 .. Capacity - 1
  PROVE  EntryAt(r, i) \in Entries
<1>1. <<r, i>> \in Places
  BY DEF Places
<1>2. cells[<<r, i>>].timestamp \in Nat /\ cells[<<r, i>>].span \in Nat
  BY <1>1, Constants DEF Types, CellTypes, Cell
<1>3. \A k \in 1 .. cells[<<r, i>>].span : i + k < Capacity => cells[<<r, i + k>>].payload \in Nat
  <2> SUFFICES ASSUME NEW k \in 1 .. cells[<<r, i>>].span, i + k < Capacity
               PROVE  cells[<<r, i + k>>].payload \in Nat
    OBVIOUS
  <2>1. <<r, i + k>> \in Places
    BY <1>2, Constants DEF Places
  <2> QED
    BY <2>1 DEF Types, CellTypes, Cell
<1>4. [k \in 1 .. cells[<<r, i>>].span |->
         IF i + k < Capacity THEN cells[<<r, i + k>>].payload ELSE 0] \in Seq(Nat)
  <2> DEFINE n == cells[<<r, i>>].span
             f == [k \in 1 .. n |-> IF i + k < Capacity THEN cells[<<r, i + k>>].payload ELSE 0]
  <2>1. f \in [1 .. n -> Nat]
    BY <1>3
  <2>2. n \in Nat
    BY <1>2
  <2> HIDE DEF f, n
  <2>3. f \in Seq(Nat)
    BY <2>1, <2>2
  <2> QED
    BY <2>3 DEF f, n
<1>5. i \in Nat
  BY Constants
<1> QED
  BY <1>2, <1>4, <1>5 DEF EntryAt, Entries

\* The entries up to a timestamp are a prefix.
LEMMA UptoPrefix ==
  ASSUME NEW S, NEW s \in Seq(S), NEW n
  PROVE  \E m \in 0 .. Len(s) :
           /\ m = Cardinality({k \in DOMAIN s : s[k].timestamp <= n})
           /\ Upto(s, n) = SubSeq(s, 1, m)
           /\ Upto(s, n) \in Seq(S) /\ Len(Upto(s, n)) = m
           /\ \A i \in 1 .. m : Upto(s, n)[i] = s[i]
<1> DEFINE K == {k \in DOMAIN s : s[k].timestamp <= n}
<1>1. IsFiniteSet(1 .. Len(s)) /\ Cardinality(1 .. Len(s)) = Len(s)
  <2>1. Len(s) \in Nat /\ Len(s) \in Int /\ 1 \in Int
    OBVIOUS
  <2>2. /\ IsFiniteSet(1 .. Len(s))
        /\ Cardinality(1 .. Len(s)) = IF 1 > Len(s) THEN 0 ELSE Len(s) - 1 + 1
    BY <2>1, FS_Interval
  <2> QED
    BY <2>1, <2>2
<1>2. IsFiniteSet(K) /\ Cardinality(K) <= Len(s)
  BY <1>1, FS_Subset
<1>3. Cardinality(K) \in 0 .. Len(s)
  BY <1>2, FS_CardinalityType
<1>4. Upto(s, n) = SubSeq(s, 1, Cardinality(K))
  BY DEF Upto
<1> DEFINE m == Cardinality(K)
<1>5. m = Cardinality({k \in DOMAIN s : s[k].timestamp <= n})
  OBVIOUS
<1> HIDE DEF m, K
<1>6. /\ SubSeq(s, 1, m) \in Seq(S) /\ Len(SubSeq(s, 1, m)) = m
      /\ \A i \in 1 .. m : SubSeq(s, 1, m)[i] = s[i]
  BY <1>3 DEF m
<1> QED
  BY <1>3, <1>4, <1>5, <1>6 DEF m

-----------------------------------------------------------------------------
(* The types and RuntimeInv are kept by every step                         *)

RuntimeIInv == Types /\ RuntimeInv

\* A step of actor a that leaves the runtimes alone.
LEMMA Move ==
  ASSUME RuntimeIInv, NEW a \in Actors, NEW l, NEW x \in Locals,
         pc' = [pc EXCEPT ![a] = l], loc' = [loc EXCEPT ![a] = x],
         UNCHANGED <<allocated, runtimeOf, state, lock, phase>>,
         ActorOK(a, l, x)
  PROVE  /\ \A b \in Actors : ActorOK(b, pc[b], loc[b])'
         /\ pc' = [b \in Actors |-> pc'[b]]
         /\ loc' \in [Actors -> Locals]
<1>1. /\ pc = [b \in Actors |-> pc[b]] /\ loc \in [Actors -> Locals]
      /\ \A b \in Actors : ActorOK(b, pc[b], loc[b])
  BY DEF RuntimeIInv, Types, ActorTypes, RuntimeInv
<1>2. \A b \in Actors : (b # a => pc'[b] = pc[b] /\ loc'[b] = loc[b]) /\ pc'[a] = l /\ loc'[a] = x
  BY <1>1
<1>3. \A b \in Actors : ActorOK(b, pc'[b], loc'[b])
  BY <1>1, <1>2
<1>4. ASSUME NEW b \in Actors PROVE ActorOK(b, pc[b], loc[b])'
  <2>1. ActorOK(b, pc'[b], loc'[b])
    BY <1>3
  <2> QED
    BY <2>1 DEF ActorOK, Placed, Holds, Locks, Ready
<1> QED
  BY <1>1, <1>4

\* The rest of the state after such a step.
LEMMA MoveKeeps ==
  ASSUME RuntimeIInv, NEW a \in Actors, NEW l, NEW x \in Locals,
         pc' = [pc EXCEPT ![a] = l], loc' = [loc EXCEPT ![a] = x],
         UNCHANGED <<allocated, runtimeOf, state, lock, phase>>,
         ActorOK(a, l, x), pc[a] # "remove_runtime",
         CellTypes', RegionTypes', TimestampTypes', OpsOfUsed',
         appendOffset' \in [Runtimes -> Nat], log' \in [Regions -> Seq(Entries)],
         CounterTypes'
  PROVE  RuntimeIInv'
<1>1. /\ \A b \in Actors : ActorOK(b, pc[b], loc[b])'
      /\ pc' = [b \in Actors |-> pc'[b]] /\ loc' \in [Actors -> Locals]
  BY Move
<1>2. ActorTypes' /\ RuntimeTypes'
  BY <1>1 DEF RuntimeIInv, Types, ActorTypes, RuntimeTypes
<1>3. Mapped'
  <2>1. Mapped /\ pc = [b \in Actors |-> pc[b]]
    BY DEF RuntimeIInv, RuntimeInv, Types, ActorTypes
  <2>2. \A r \in Regions : pc[r] = "remove_runtime" => pc'[r] = "remove_runtime"
    BY <2>1, Constants
  <2>3. \A r \in Regions : r \notin allocated' /\ pc'[r] # "remove_runtime" => runtimeOf'[r] = Nobody
    BY <2>1, <2>2 DEF Mapped
  <2> QED
    BY <2>1, <2>3 DEF Mapped
<1> QED
  BY <1>1, <1>2, <1>3 DEF RuntimeIInv, RuntimeInv, Types

\* Nothing but the actor's place has changed.
LEMMA JustMove ==
  ASSUME RuntimeIInv, NEW a \in Actors, NEW l, NEW x \in Locals,
         pc' = [pc EXCEPT ![a] = l], loc' = [loc EXCEPT ![a] = x],
         UNCHANGED <<memory, timestamps, runtime, phase, log>>,
         CounterTypes',
         ActorOK(a, l, x), pc[a] # "remove_runtime"
  PROVE  RuntimeIInv'
<1>1. CellTypes' /\ RegionTypes' /\ TimestampTypes' /\ OpsOfUsed'
  BY DEF RuntimeIInv, RuntimeInv, Types, CellTypes, RegionTypes, TimestampTypes, OpsOfUsed, memory,
         timestamps
<1>2. /\ appendOffset' \in [Runtimes -> Nat] /\ log' \in [Regions -> Seq(Entries)]
      /\ UNCHANGED <<allocated, runtimeOf, state, lock, phase>>
  BY DEF RuntimeIInv, Types, RuntimeTypes, ActorTypes, runtime, memory
<1> QED
  BY <1>1, <1>2, MoveKeeps

LEMMA OnlyMoves ==
  ASSUME RuntimeIInv, NEW a \in Actors, NEW l, NEW x \in Locals,
         pc' = [pc EXCEPT ![a] = l], loc' = [loc EXCEPT ![a] = x],
         UNCHANGED <<memory, timestamps, runtime, phase, log, counters>>,
         ActorOK(a, l, x), pc[a] # "remove_runtime"
  PROVE  RuntimeIInv'
<1>1. CounterTypes'
  BY DEF counters, CounterTypes, RuntimeIInv, Types
<1> QED
  BY <1>1, JustMove

LEMMA NoLocalsType ==
  /\ NoLocals \in Locals /\ NoLocals.runtime = Nobody /\ NoLocals.seen = << >>
  /\ NoLocals.offset = 0
<1>1. << >> \in Seq(Entries) /\ 0 \in 0 .. Capacity /\ 0 \in Nat
  BY Constants
<1> QED
  BY <1>1 DEF NoLocals, Locals

\* What is known of an actor before its step.
LEMMA Before ==
  ASSUME RuntimeIInv, NEW a \in Actors
  PROVE  /\ loc[a] \in Locals /\ ActorOK(a, pc[a], loc[a])
         /\ pc = [b \in Actors |-> pc[b]] /\ loc \in [Actors -> Locals]
         /\ loc = [loc EXCEPT ![a] = loc[a]]
         /\ pc[a] \notin Resting =>
              /\ loc[a].region \in allocated /\ loc[a].region \in Regions
              /\ a # Reader => a \in Regions /\ loc[a].region = a
         /\ pc[a] \in HasRuntime =>
              /\ loc[a].runtime \in Runtimes /\ loc[a].runtime = runtimeOf[loc[a].region]
              /\ loc[a].runtime[2] = loc[a].region
              /\ state[loc[a].runtime] \in {"read_ready", "write_ready"}
              /\ loc[a].runtime # Nobody
<1>1. /\ loc[a] \in Locals /\ ActorOK(a, pc[a], loc[a])
      /\ pc = [b \in Actors |-> pc[b]] /\ loc \in [Actors -> Locals]
      /\ allocated \subseteq Regions
  BY DEF RuntimeIInv, RuntimeInv, Types, ActorTypes, RegionTypes
<1>2. loc = [loc EXCEPT ![a] = loc[a]]
  BY <1>1
<1>3. ASSUME pc[a] \notin Resting
      PROVE  /\ loc[a].region \in allocated /\ loc[a].region \in Regions
             /\ a # Reader => a \in Regions /\ loc[a].region = a
  BY <1>1, <1>3 DEF ActorOK, Placed, Actors
<1>4. ASSUME pc[a] \in HasRuntime
      PROVE  /\ loc[a].runtime \in Runtimes /\ loc[a].runtime = runtimeOf[loc[a].region]
             /\ loc[a].runtime[2] = loc[a].region
             /\ state[loc[a].runtime] \in {"read_ready", "write_ready"}
             /\ loc[a].runtime # Nobody
  <2>1. loc[a].runtime # Nobody /\ loc[a].runtime = runtimeOf[loc[a].region]
    BY <1>1, <1>4 DEF ActorOK, Holds
  <2>2. loc[a].runtime \in Runtimes
    BY <1>1, <2>1 DEF Locals
  <2>3. pc[a] \notin Resting
    BY <1>4 DEF HasRuntime, Recovering, Locked, Writing, Storing, Checking, Resting
  <2>4. state[loc[a].runtime] # "none" /\ loc[a].runtime[2] = loc[a].region
    BY <1>3, <2>1, <2>3 DEF RuntimeIInv, RuntimeInv, Mapped
  <2> QED
    BY <2>1, <2>2, <2>4 DEF RuntimeIInv, Types, RuntimeTypes
<1> QED
  BY <1>1, <1>2, <1>3, <1>4

LEMMA LookUpKeeps ==
  ASSUME RuntimeIInv, NEW a \in Actors, LookUp(a)
  PROVE  RuntimeIInv'
<1> DEFINE o == runtimeOf[loc[a].region]
           y == [loc[a] EXCEPT !.runtime = o]
           l == IF a = Reader THEN "load_committed" ELSE "initialize"
<1>1. /\ pc[a] = "look_up" /\ loc[a] \in Locals /\ ActorOK(a, pc[a], loc[a])
      /\ UNCHANGED <<memory, timestamps, runtime, phase, log, counters>>
      /\ loc[a].region \in allocated /\ loc[a].region \in Regions
      /\ a # Reader => a \in Regions /\ loc[a].region = a
  BY Before DEF LookUp, Resting
<1>2. CASE o # Nobody
  <2>1. pc' = [pc EXCEPT ![a] = l] /\ loc' = [loc EXCEPT ![a] = y]
    BY <1>1, <1>2, Before DEF LookUp, HaveRuntime, Goto
  <2>2. y \in Locals /\ y.region = loc[a].region /\ y.runtime = o
    BY <1>1 DEF Locals, RuntimeIInv, Types, RuntimeTypes
  <2>3. ActorOK(a, l, y)
    <3> HIDE DEF y, o
    <3> QED
      BY <1>1, <1>2, <2>2
      DEF o, ActorOK, Placed, Holds, Locks, Ready, ReaderLabels, WriterLabels, Resting,
          Searching, Recovering, Locked, Writing, Storing, Checking, HasRuntime
  <2>4. pc[a] # "remove_runtime"
    BY <1>1
  <2> HIDE DEF y, l
  <2> QED
    BY <1>1, <2>1, <2>2, <2>3, <2>4, OnlyMoves
<1>3. CASE o = Nobody
  <2>1. pc' = [pc EXCEPT ![a] = "create"] /\ loc' = [loc EXCEPT ![a] = loc[a]]
    BY <1>1, <1>3, Before DEF LookUp, Goto
  <2>2. ActorOK(a, "create", loc[a])
    BY <1>1 DEF ActorOK, Placed, Holds, Locks, Ready, ReaderLabels, WriterLabels, Resting,
          Searching, Recovering, Locked, Writing, Storing, Checking, HasRuntime
  <2> QED
    BY <1>1, <2>1, <2>2, OnlyMoves
<1> QED
  BY <1>2, <1>3

\* An actor that ends its operation.
LEMMA Ends ==
  ASSUME RuntimeIInv, NEW a \in Actors, pc[a] \notin Locked
  PROVE  ActorOK(a, "idle", NoLocals)
<1>2. ActorOK(a, pc[a], loc[a])
  BY Before
<1>3. "idle" \notin Locked /\ "idle" \notin HasRuntime /\ "idle" \in Resting
  BY DEF ReaderLabels, WriterLabels, Resting,
          Searching, Recovering, Locked, Writing, Storing, Checking, HasRuntime
<1>4. "idle" \in ReaderLabels /\ "idle" \in WriterLabels /\ "idle" \notin Checking /\ "idle" \notin Writing
  BY DEF ReaderLabels, WriterLabels, Resting,
          Searching, Recovering, Locked, Writing, Storing, Checking, HasRuntime
<1>5. NoLocals.runtime = Nobody
  BY NoLocalsType
<1>6. Locks(a, "idle", NoLocals)
  BY <1>2, <1>3 DEF ActorOK, Locks
<1>7. Placed(a, "idle", NoLocals) /\ Holds(a, "idle", NoLocals) /\ Ready(a, "idle", NoLocals)
  BY <1>3, <1>4, <1>5 DEF Placed, Holds, Ready
<1> QED
  BY <1>6, <1>7 DEF ActorOK

\* An actor that goes on with the same runtime.
LEMMA Stays ==
  ASSUME RuntimeIInv, NEW a \in Actors, pc[a] \in HasRuntime,
         NEW l \in HasRuntime, NEW x \in Locals,
         x.region = loc[a].region, x.runtime = loc[a].runtime,
         l \in (IF a = Reader THEN ReaderLabels ELSE WriterLabels),
         l \in Locked <=> pc[a] \in Locked,
         l \in Checking => x.offset < Capacity,
         l \in {"set_max_valid", "write_ready"} => state[loc[a].runtime] = "read_ready",
         l \in Writing => state[loc[a].runtime] = "write_ready"
  PROVE  ActorOK(a, l, x)
<1>1. ActorOK(a, pc[a], loc[a])
  BY Before
<1>2. /\ pc[a] \notin Resting /\ pc[a] # "idle" /\ l # "idle" /\ l # "remove_runtime"
      /\ l \notin Resting
  BY DEF ReaderLabels, WriterLabels, Resting,
          Searching, Recovering, Locked, Writing, Storing, Checking, HasRuntime
<1>3. Placed(a, l, x)
  BY <1>1, <1>2 DEF ActorOK, Placed
<1>4. Holds(a, l, x)
  BY <1>1, <1>2 DEF ActorOK, Holds
<1>5. Locks(a, l, x) /\ Ready(a, l, x)
  BY <1>1, <1>2 DEF ActorOK, Locks, Ready
<1>6. phase # "opening"
  BY <1>1, <1>2 DEF ActorOK
<1> QED
  BY <1>3, <1>4, <1>5, <1>6 DEF ActorOK

LEMMA CreateFailsKeeps ==
  ASSUME RuntimeIInv, NEW a \in Actors, CreateFails(a)
  PROVE  RuntimeIInv'
<1>1. /\ pc[a] = "create" /\ pc' = [pc EXCEPT ![a] = "idle"] /\ loc' = [loc EXCEPT ![a] = NoLocals]
      /\ UNCHANGED <<memory, timestamps, runtime, phase, log, counters>>
  BY DEF CreateFails, Goto
<1>2. pc[a] \notin Locked
  BY <1>1 DEF Locked
<1> QED
  BY <1>1, <1>2, Ends, NoLocalsType, OnlyMoves

\* What follows a recovery, for an actor that does not hold region_lock.
LEMMA AfterRecoveryKeeps ==
  ASSUME RuntimeIInv, NEW a \in Actors, AfterRecovery(a), pc[a] = "initialize",
         state[loc[a].runtime] = "write_ready",
         UNCHANGED <<memory, timestamps, runtime, phase, log, counters>>
  PROVE  RuntimeIInv'
<1>1. pc[a] \in HasRuntime /\ pc[a] \notin Locked /\ pc[a] \notin Resting
  BY DEF ReaderLabels, WriterLabels, Resting,
          Searching, Recovering, Locked, Writing, Storing, Checking, HasRuntime
<1>0. pc[a] # "remove_runtime" /\ loc[a] \in Locals /\ loc = [loc EXCEPT ![a] = loc[a]]
  BY Before
<1>2. CASE a # Reader /\ Goto(a, "reserve") /\ UNCHANGED loc
  <2>1. ActorOK(a, "reserve", loc[a])
    BY <1>1, <1>2, Stays, Before DEF ReaderLabels, WriterLabels, Resting,
          Searching, Recovering, Locked, Writing, Storing, Checking, HasRuntime
  <2> QED
    BY <1>0, <1>2, <2>1, OnlyMoves DEF Goto
<1>3. CASE a = Reader /\ Goto(a, "idle") /\ loc' = [loc EXCEPT ![a] = NoLocals]
  BY <1>0, <1>1, <1>3, Ends, NoLocalsType, OnlyMoves DEF Goto
<1>4. CASE a = Reader /\ loc[a].offset # 0 /\ Goto(a, "load_committed") /\ UNCHANGED loc
  <2>1. ActorOK(a, "load_committed", loc[a])
    BY <1>1, <1>4, Stays, Before DEF ReaderLabels, WriterLabels, Resting,
          Searching, Recovering, Locked, Writing, Storing, Checking, HasRuntime
  <2> QED
    BY <1>0, <1>4, <2>1, OnlyMoves DEF Goto
<1> QED
  BY <1>2, <1>3, <1>4 DEF AfterRecovery

LEMMA InitializeKeeps ==
  ASSUME RuntimeIInv, NEW a \in Actors, Initialize(a)
  PROVE  RuntimeIInv'
<1>1. /\ pc[a] = "initialize"
      /\ UNCHANGED <<memory, timestamps, runtime, phase, log, counters>>
  BY DEF Initialize
<1>0. pc[a] # "remove_runtime" /\ loc[a] \in Locals /\ loc = [loc EXCEPT ![a] = loc[a]]
  BY <1>1, Before
<1>2. CASE state[loc[a].runtime] = "write_ready" /\ AfterRecovery(a)
  BY <1>1, <1>2, AfterRecoveryKeeps
<1>3. CASE state[loc[a].runtime] = "read_ready" /\ Goto(a, "lock") /\ UNCHANGED loc
  <2>1. ActorOK(a, "lock", loc[a])
    BY <1>1, Stays, Before DEF ReaderLabels, WriterLabels, Resting,
          Searching, Recovering, Locked, Writing, Storing, Checking, HasRuntime
  <2> QED
    BY <1>0, <1>1, <1>3, <2>1, OnlyMoves DEF Goto
<1> QED
  BY <1>2, <1>3 DEF Initialize

LEMMA AppendBeginKeeps ==
  ASSUME RuntimeIInv, NEW r \in Regions, AppendBegin(r)
  PROVE  RuntimeIInv'
<1>1. PICK s \in Sizes : loc' = [loc EXCEPT ![r] = [NoLocals EXCEPT !.region = r, !.size = s]]
  BY DEF AppendBegin
<1> DEFINE x == [NoLocals EXCEPT !.region = r, !.size = s]
<1>2. /\ pc[r] = "idle" /\ r \in allocated /\ phase = "running" /\ appends' = appends + 1
      /\ pc' = [pc EXCEPT ![r] = "look_up"]
      /\ UNCHANGED <<memory, timestamps, runtime, phase, log, reads, frees, crashes>>
      /\ r \in Actors /\ r # Reader
  BY Constants DEF AppendBegin, Goto
<1>3. x \in Locals /\ x.runtime = Nobody /\ x.region = r
  <2>1. s \in 0 .. Capacity /\ r \in Nat
    BY Constants
  <2> QED
    BY <2>1, NoLocalsType DEF Locals
<1>4. ActorOK(r, "look_up", x)
  <2>1. ActorOK(r, pc[r], loc[r])
    BY <1>2, Before
  <2> HIDE DEF x
  <2> QED
    BY <1>2, <1>3, <2>1 DEF ActorOK, Placed, Holds, Locks, Ready, ReaderLabels, WriterLabels, Resting,
          Searching, Recovering, Locked, Writing, Storing, Checking, HasRuntime
<1>5. CounterTypes'
  BY <1>2 DEF CounterTypes, RuntimeIInv, Types
<1>6. pc[r] # "remove_runtime"
  BY <1>2
<1> HIDE DEF x
<1> QED
  BY <1>1, <1>2, <1>3, <1>4, <1>5, <1>6, JustMove DEF x

LEMMA ReadBeginKeeps ==
  ASSUME RuntimeIInv, ReadBegin
  PROVE  RuntimeIInv'
<1>1. PICK r \in allocated : loc' = [loc EXCEPT ![Reader] = [NoLocals EXCEPT !.region = r]]
  BY DEF ReadBegin
<1> DEFINE x == [NoLocals EXCEPT !.region = r]
<1>2. /\ pc[Reader] = "idle" /\ phase = "running" /\ reads' = reads + 1
      /\ pc' = [pc EXCEPT ![Reader] = "look_up"]
      /\ UNCHANGED <<memory, timestamps, runtime, phase, log, appends, frees, crashes>>
      /\ Reader \in Actors /\ r \in Regions
  BY Constants DEF ReadBegin, Goto, RuntimeIInv, Types, RegionTypes
<1>3. x \in Locals /\ x.runtime = Nobody /\ x.region = r
  BY <1>2, NoLocalsType, Constants DEF Locals
<1>4. ActorOK(Reader, "look_up", x)
  <2>1. ActorOK(Reader, pc[Reader], loc[Reader])
    BY <1>2, Before
  <2> HIDE DEF x
  <2> QED
    BY <1>2, <1>3, <2>1 DEF ActorOK, Placed, Holds, Locks, Ready, ReaderLabels, WriterLabels, Resting,
          Searching, Recovering, Locked, Writing, Storing, Checking, HasRuntime
<1>5. CounterTypes'
  BY <1>2 DEF CounterTypes, RuntimeIInv, Types
<1>6. pc[Reader] # "remove_runtime"
  BY <1>2
<1> HIDE DEF x
<1> QED
  BY <1>1, <1>2, <1>3, <1>4, <1>5, <1>6, JustMove DEF x

LEMMA ReserveKeeps ==
  ASSUME RuntimeIInv, NEW r \in Regions, Reserve(r)
  PROVE  RuntimeIInv'
<1> DEFINE o == loc[r].runtime
           x == [loc[r] EXCEPT !.offset = appendOffset[o]]
<1>1. /\ r \in Actors /\ r # Reader /\ pc[r] = "reserve" /\ pc[r] \in HasRuntime
      /\ pc[r] \notin Locked
      /\ UNCHANGED <<memory, timestamps, runtimeOf, state, lock, phase, log, counters>>
  BY Constants DEF Reserve, ReaderLabels, WriterLabels, Resting,
          Searching, Recovering, Locked, Writing, Storing, Checking, HasRuntime
<1>2. /\ loc[r] \in Locals /\ loc[r].size \in Nat /\ o \in Runtimes
      /\ appendOffset \in [Runtimes -> Nat] /\ state[o] = "write_ready"
  <2>1. loc[r] \in Locals /\ o \in Runtimes /\ ActorOK(r, pc[r], loc[r])
    BY <1>1, Before
  <2>2. loc[r].size \in Nat
    BY <2>1, Constants DEF Locals
  <2>3. state[o] = "write_ready"
    BY <1>1, <2>1 DEF ActorOK, Ready, Writing
  <2> QED
    BY <2>1, <2>2, <2>3 DEF RuntimeIInv, Types, RuntimeTypes
<1>3. appendOffset' \in [Runtimes -> Nat]
  BY <1>2 DEF Reserve
<1>4. /\ CellTypes' /\ RegionTypes' /\ TimestampTypes' /\ CounterTypes' /\ OpsOfUsed'
      /\ log' \in [Regions -> Seq(Entries)]
      /\ UNCHANGED <<allocated, runtimeOf, state, lock, phase>>
  BY <1>1 DEF RuntimeIInv, RuntimeInv, Types, CellTypes, RegionTypes, TimestampTypes, CounterTypes,
              ActorTypes, OpsOfUsed, memory, timestamps, counters
<1>5. pc[r] # "remove_runtime"
  BY <1>1
<1>6. CASE /\ loc' = [loc EXCEPT ![r].offset = appendOffset[o]]
           /\ Goto(r, "acquire")
  <2>1. loc' = [loc EXCEPT ![r] = x] /\ pc' = [pc EXCEPT ![r] = "acquire"]
    BY <1>6 DEF Goto
  <2>2. x \in Locals /\ x.region = loc[r].region /\ x.runtime = loc[r].runtime
    BY <1>2 DEF Locals
  <2>3. ActorOK(r, "acquire", x)
    <3> HIDE DEF x
    <3> QED
      BY <1>1, <1>2, <2>2, Stays DEF ReaderLabels, WriterLabels, Resting,
          Searching, Recovering, Locked, Writing, Storing, Checking, HasRuntime
  <2> HIDE DEF x
  <2> QED
    BY <1>1, <1>3, <1>4, <1>5, <2>1, <2>2, <2>3, MoveKeeps
<1>7. CASE loc' = [loc EXCEPT ![r] = NoLocals] /\ Goto(r, "idle")
  <2>1. pc' = [pc EXCEPT ![r] = "idle"] /\ ActorOK(r, "idle", NoLocals)
    BY <1>1, <1>7, Ends DEF Goto
  <2> QED
    BY <1>1, <1>3, <1>4, <1>5, <1>7, <2>1, NoLocalsType, MoveKeeps
<1> QED
  BY <1>6, <1>7 DEF Reserve

\* A step of a writer that keeps its runtime and leaves the runtimes alone.
LEMMA WriterKeeps ==
  ASSUME RuntimeIInv, NEW r \in Regions, pc[r] \in Writing,
         NEW l \in Writing, NEW x \in Locals,
         x.region = loc[r].region, x.runtime = loc[r].runtime,
         pc' = [pc EXCEPT ![r] = l], loc' = [loc EXCEPT ![r] = x],
         CellTypes', RegionTypes', TimestampTypes', OpsOfUsed', CounterTypes',
         log' \in [Regions -> Seq(Entries)],
         UNCHANGED <<allocated, runtime, phase>>
  PROVE  RuntimeIInv'
<1>1. /\ r \in Actors /\ r # Reader /\ pc[r] \in HasRuntime /\ pc[r] \notin Locked
      /\ l \in HasRuntime /\ l \in WriterLabels /\ l \notin Locked /\ l \notin Checking
      /\ pc[r] # "remove_runtime" /\ l \notin {"set_max_valid", "write_ready"}
  BY Constants DEF ReaderLabels, WriterLabels, Resting,
          Searching, Recovering, Locked, Writing, Storing, Checking, HasRuntime
<1>2. state[loc[r].runtime] = "write_ready"
  BY <1>1, Before DEF ActorOK, Ready
<1>3. ActorOK(r, l, x)
  BY <1>1, <1>2, Stays
<1>4. /\ appendOffset' \in [Runtimes -> Nat]
      /\ UNCHANGED <<allocated, runtimeOf, state, lock, phase>>
  BY DEF runtime, RuntimeIInv, Types, RuntimeTypes
<1> QED
  BY <1>1, <1>3, <1>4, MoveKeeps

LEMMA AcquireKeeps ==
  ASSUME RuntimeIInv, NEW r \in Regions, AcquireTimestamp(r)
  PROVE  RuntimeIInv'
<1> DEFINE op == [timestamp |-> next, region |-> r, offset |-> loc[r].offset,
                  size |-> loc[r].size, append |-> appends,
                  copied |-> FALSE, published |-> FALSE, durable |-> FALSE]
           e == [timestamp |-> next, offset |-> loc[r].offset,
                 payload |-> [k \in 1 .. loc[r].size |-> appends]]
           x == [loc[r] EXCEPT !.timestamp = next]
<1>1. /\ r \in Actors /\ pc[r] = "acquire" /\ next' = next + 1 /\ ops' = ops \union {op}
      /\ log' = [log EXCEPT ![r] = Append(@, e)]
      /\ loc' = [loc EXCEPT ![r].timestamp = next]
      /\ pc' = [pc EXCEPT ![r] = "clear_next"]
      /\ UNCHANGED <<memory, committed, persisted, runtime, phase, counters>>
  BY Constants DEF AcquireTimestamp, Goto
<1>2. /\ loc[r] \in Locals /\ next \in Nat /\ committed \in Nat /\ persisted \in Nat
      /\ ops \in SUBSET Operations /\ log \in [Regions -> Seq(Entries)] /\ appends \in Nat
      /\ OpsOfUsed
  BY <1>1, Before DEF RuntimeIInv, RuntimeInv, Types, TimestampTypes, ActorTypes, CounterTypes
<1>3. loc[r].offset \in Nat /\ loc[r].size \in 0 .. Capacity /\ loc[r].size \in Nat
  BY <1>2, Constants DEF Locals
<1>4. op \in Operations /\ op.region = r
  BY <1>2, <1>3 DEF Operations
<1>5. e \in Entries
  <2>1. [k \in 1 .. loc[r].size |-> appends] \in Seq(Nat)
    BY <1>2, <1>3
  <2> QED
    BY <1>2, <1>3, <2>1 DEF Entries
<1>6. x \in Locals /\ x.region = loc[r].region /\ x.runtime = loc[r].runtime
  BY <1>2 DEF Locals
<1>7. loc' = [loc EXCEPT ![r] = x]
  BY <1>1
<1> HIDE DEF op, e, x
<1>8. TimestampTypes' /\ log' \in [Regions -> Seq(Entries)]
  <2>1. next' \in Nat /\ committed' \in Nat /\ persisted' \in Nat /\ ops' \in SUBSET Operations
    BY <1>1, <1>2, <1>4
  <2>2. Append(log[r], e) \in Seq(Entries)
    BY <1>2, <1>5
  <2>3. log' \in [Regions -> Seq(Entries)]
    BY <1>1, <1>2, <2>2
  <2> QED
    BY <2>1, <2>3 DEF TimestampTypes
<1>9. CellTypes' /\ RegionTypes' /\ CounterTypes' /\ UNCHANGED <<allocated, runtime, phase>>
  BY <1>1 DEF RuntimeIInv, Types, CellTypes, RegionTypes, CounterTypes, memory, counters
<1>10. OpsOfUsed'
  <2>1. r \in allocated /\ phase # "opening"
    BY <1>1, Before, Constants DEF ActorOK, Resting
  <2> QED
    BY <1>1, <1>2, <1>4, <1>9, <2>1 DEF OpsOfUsed
<1>11. pc[r] \in Writing /\ "clear_next" \in Writing
  BY <1>1 DEF Writing, Storing
<1> QED
  BY <1>1, <1>6, <1>7, <1>8, <1>9, <1>10, <1>11, WriterKeeps

\* A writer that stores something on its way.
LEMMA StoringKeeps ==
  ASSUME RuntimeIInv, NEW r \in Regions, pc[r] \in Writing, NEW l \in Writing,
         pc' = [pc EXCEPT ![r] = l], CellTypes', isRegion' \in [Regions -> BOOLEAN],
         UNCHANGED <<maxValid, maxValidMedium, allocated, timestamps, runtime, phase, loc, log,
                     counters>>
  PROVE  RuntimeIInv'
<1>1. /\ TimestampTypes' /\ RegionTypes' /\ CounterTypes' /\ OpsOfUsed'
      /\ log' \in [Regions -> Seq(Entries)]
      /\ UNCHANGED <<allocated, runtime, phase>>
  BY DEF RuntimeIInv, RuntimeInv, Types, TimestampTypes, RegionTypes, CounterTypes, ActorTypes,
         OpsOfUsed, timestamps, counters
<1>2. loc[r] \in Locals /\ loc' = [loc EXCEPT ![r] = loc[r]]
  BY Before, Constants
<1> QED
  BY <1>1, <1>2, WriterKeeps

LEMMA ClearNextKeeps ==
  ASSUME RuntimeIInv, NEW r \in Regions, ClearNext(r)
  PROVE  RuntimeIInv'
<1>1. loc[r].offset + loc[r].size + 1 \in Nat
  <2>1. loc[r] \in Locals
    BY Before, Constants
  <2>2. loc[r].offset \in Nat /\ loc[r].size \in Nat
    BY <2>1, Constants DEF Locals
  <2> QED
    BY <2>2
<1>2. CellTypes' /\ isRegion' \in [Regions -> BOOLEAN]
  BY <1>1, ClearTypes DEF ClearNext, RuntimeIInv, Types
<1>3. "clear_next" \in Writing /\ "store_timestamp" \in Writing
  BY DEF Writing, Storing
<1> QED
  BY <1>2, <1>3, StoringKeeps DEF ClearNext, Goto

LEMMA StoreHeaderKeeps ==
  ASSUME RuntimeIInv, NEW r \in Regions, StoreTimestamp(r) \/ StoreSpan(r)
  PROVE  RuntimeIInv'
<1> DEFINE p == <<r, loc[r].offset>>
           c == cells[p]
           ct == [c EXCEPT !.timestamp = loc[r].timestamp]
           cs == [c EXCEPT !.span = loc[r].size]
<1>1. loc[r].timestamp \in Nat /\ loc[r].size \in 0 .. Capacity
  <2>1. loc[r] \in Locals
    BY Before, Constants
  <2> QED
    BY <2>1 DEF Locals
<1>2. p \in Places => ct \in Cell /\ cs \in Cell
  <2>1. p \in Places => c \in Cell
    BY DEF RuntimeIInv, Types, CellTypes
  <2> HIDE DEF c
  <2> QED
    BY <1>1, <2>1 DEF Cell
<1>3. /\ "store_timestamp" \in Writing /\ "store_span" \in Writing /\ "publish" \in Writing
  BY DEF Writing, Storing
<1>4. isRegion \in [Regions -> BOOLEAN] /\ CellTypes
  BY DEF RuntimeIInv, Types, RegionTypes
<1>5. CASE StoreTimestamp(r)
  <2>1. StoreCell(p, ct)
    BY <1>5 DEF StoreTimestamp, StoreHeader
  <2>2. CellTypes'
    <3> HIDE DEF ct, p
    <3> QED
      BY <1>2, <1>4, <2>1, StoreTypes
  <2>3. /\ pc[r] = "store_timestamp" /\ pc' = [pc EXCEPT ![r] = "store_span"] /\ isRegion' = isRegion
        /\ UNCHANGED <<maxValid, maxValidMedium, allocated, timestamps, runtime, phase, loc, log,
                       counters>>
    BY <1>5 DEF StoreTimestamp, StoreHeader, Goto
  <2> QED
    BY <1>3, <1>4, <2>2, <2>3, StoringKeeps
<1>6. CASE StoreSpan(r)
  <2>1. StoreCell(p, cs)
    BY <1>6 DEF StoreSpan, StoreHeader
  <2>2. CellTypes'
    <3> HIDE DEF cs, p
    <3> QED
      BY <1>2, <1>4, <2>1, StoreTypes
  <2>3. /\ pc[r] = "store_span" /\ pc' = [pc EXCEPT ![r] = "publish"] /\ isRegion' = isRegion
        /\ UNCHANGED <<maxValid, maxValidMedium, allocated, timestamps, runtime, phase, loc, log,
                       counters>>
    BY <1>6 DEF StoreSpan, StoreHeader, Goto
  <2> QED
    BY <1>3, <1>4, <2>2, <2>3, StoringKeeps
<1> QED
  BY <1>5, <1>6

LEMMA PublishKeeps ==
  ASSUME RuntimeIInv, NEW r \in Regions, Publish(r)
  PROVE  RuntimeIInv'
<1> DEFINE P(op) == IF op.timestamp = loc[r].timestamp THEN [op EXCEPT !.published = TRUE] ELSE op
<1>1. /\ r \in Actors /\ pc[r] = "publish" /\ ops' = {P(op) : op \in ops}
      /\ loc' = [loc EXCEPT ![r] = NoLocals] /\ pc' = [pc EXCEPT ![r] = "idle"]
      /\ UNCHANGED <<memory, next, committed, persisted, runtime, phase, log, counters>>
  BY Constants DEF Publish, Goto
<1>2. \A op \in ops : P(op) \in Operations /\ P(op).region = op.region
  <2>1. \A op \in ops : op \in Operations
    BY DEF RuntimeIInv, Types, TimestampTypes
  <2> QED
    BY <2>1 DEF Operations
<1> HIDE DEF P
<1>3. TimestampTypes' /\ OpsOfUsed'
  <2>1. ops' \in SUBSET Operations
    BY <1>1, <1>2
  <2>2. \A op \in ops' : op.region \in allocated
    BY <1>1, <1>2 DEF RuntimeIInv, RuntimeInv, OpsOfUsed
  <2>3. phase = "opening" => ops' = {}
    BY <1>1 DEF RuntimeIInv, RuntimeInv, OpsOfUsed
  <2> QED
    BY <1>1, <2>1, <2>2, <2>3 DEF TimestampTypes, OpsOfUsed, RuntimeIInv, Types, memory
<1>4. /\ CellTypes' /\ RegionTypes' /\ CounterTypes' /\ log' \in [Regions -> Seq(Entries)]
      /\ appendOffset' \in [Runtimes -> Nat]
      /\ UNCHANGED <<allocated, runtimeOf, state, lock, phase>>
  BY <1>1 DEF RuntimeIInv, Types, CellTypes, RegionTypes, RuntimeTypes, CounterTypes, ActorTypes,
              memory, counters, runtime
<1>5. pc[r] \notin Locked /\ pc[r] # "remove_runtime"
  BY <1>1 DEF Locked
<1> QED
  BY <1>1, <1>3, <1>4, <1>5, Ends, NoLocalsType, MoveKeeps

\* A step of the reader in its checks.
LEMMA ReaderKeeps ==
  ASSUME RuntimeIInv, pc[Reader] \in Checking \union {"load_committed"},
         NEW l \in Checking \union {"load_committed", "initialize"}, NEW x \in Locals,
         x.region = loc[Reader].region, x.runtime = loc[Reader].runtime,
         l \in Checking => x.offset < Capacity,
         pc' = [pc EXCEPT ![Reader] = l], loc' = [loc EXCEPT ![Reader] = x],
         UNCHANGED <<memory, timestamps, runtime, phase, log, counters>>
  PROVE  RuntimeIInv'
<1>1. /\ Reader \in Actors /\ pc[Reader] \in HasRuntime /\ pc[Reader] \notin Locked
      /\ l \in HasRuntime /\ l \notin Locked /\ l \notin {"set_max_valid", "write_ready"}
      /\ l \notin Writing /\ l \in ReaderLabels /\ pc[Reader] # "remove_runtime"
  BY Constants DEF ReaderLabels, WriterLabels, Resting,
          Searching, Recovering, Locked, Writing, Storing, Checking, HasRuntime
<1>2. ActorOK(Reader, l, x)
  BY <1>1, Stays
<1> QED
  BY <1>1, <1>2, OnlyMoves

LEMMA LoadCommittedKeeps ==
  ASSUME RuntimeIInv, LoadCommitted
  PROVE  RuntimeIInv'
<1>1. /\ pc[Reader] = "load_committed" /\ loc[Reader] \in Locals
      /\ loc = [loc EXCEPT ![Reader] = loc[Reader]]
      /\ UNCHANGED <<memory, timestamps, runtime, phase, log, counters>>
  BY Before, Constants DEF LoadCommitted
<1>2. "initialize" \notin Checking /\ "load_max_valid" \in Checking
  BY DEF Checking
<1>3. CASE Goto(Reader, "initialize") /\ UNCHANGED loc
  BY <1>1, <1>2, <1>3, ReaderKeeps DEF Goto
<1>4. CASE /\ loc[Reader].offset < Capacity
           /\ loc' = [loc EXCEPT ![Reader].valid = committed]
           /\ Goto(Reader, "load_max_valid")
  <2> DEFINE x == [loc[Reader] EXCEPT !.valid = committed]
  <2>1. /\ x \in Locals /\ x.region = loc[Reader].region /\ x.runtime = loc[Reader].runtime
        /\ x.offset = loc[Reader].offset
    <3>1. committed \in Nat
      BY DEF RuntimeIInv, Types, TimestampTypes
    <3> QED
      BY <1>1, <3>1 DEF Locals
  <2>2. loc' = [loc EXCEPT ![Reader] = x] /\ pc' = [pc EXCEPT ![Reader] = "load_max_valid"]
    BY <1>4 DEF Goto
  <2> HIDE DEF x
  <2> QED
    BY <1>1, <1>2, <1>4, <2>1, <2>2, ReaderKeeps
<1> QED
  BY <1>3, <1>4 DEF LoadCommitted

LEMMA LoadMaxValidKeeps ==
  ASSUME RuntimeIInv, LoadMaxValid
  PROVE  RuntimeIInv'
<1> DEFINE v == Smaller(loc[Reader].valid, maxValid[loc[Reader].region])
           x == [loc[Reader] EXCEPT !.valid = v]
<1>1. /\ pc[Reader] = "load_max_valid" /\ loc[Reader] \in Locals
      /\ loc' = [loc EXCEPT ![Reader] = x] /\ pc' = [pc EXCEPT ![Reader] = "load_span"]
      /\ UNCHANGED <<memory, timestamps, runtime, phase, log, counters>>
  BY Before, Constants DEF LoadMaxValid, Goto
<1>2. "load_max_valid" \in Checking /\ "load_span" \in Checking
  BY DEF Checking
<1>3. loc[Reader].region \in Regions /\ ActorOK(Reader, pc[Reader], loc[Reader])
  BY <1>1, Before, Constants DEF Resting
<1>4. v \in Nat
  BY <1>1, <1>3 DEF Smaller, Locals, RuntimeIInv, Types, RegionTypes
<1>5. loc[Reader].offset < Capacity
  BY <1>1, <1>2, <1>3 DEF ActorOK, Placed
<1> HIDE DEF v
<1>6. /\ x \in Locals /\ x.region = loc[Reader].region /\ x.runtime = loc[Reader].runtime
      /\ x.offset < Capacity
  BY <1>1, <1>4, <1>5 DEF Locals
<1> HIDE DEF x
<1> QED
  BY <1>1, <1>2, <1>6, ReaderKeeps

LEMMA LoadSpanKeeps ==
  ASSUME RuntimeIInv, LoadSpan
  PROVE  RuntimeIInv'
<1> DEFINE s == cells[<<loc[Reader].region, loc[Reader].offset>>].span
           x == [loc[Reader] EXCEPT !.size = s]
<1>1. /\ pc[Reader] = "load_span" /\ loc[Reader] \in Locals
      /\ loc' = [loc EXCEPT ![Reader] = x] /\ pc' = [pc EXCEPT ![Reader] = "load_timestamp"]
      /\ UNCHANGED <<memory, timestamps, runtime, phase, log, counters>>
  BY Before, Constants DEF LoadSpan, Goto
<1>2. "load_span" \in Checking /\ "load_timestamp" \in Checking
  BY DEF Checking
<1>3. loc[Reader].region \in Regions /\ ActorOK(Reader, pc[Reader], loc[Reader])
  BY <1>1, Before, Constants DEF Resting
<1>4. loc[Reader].offset < Capacity /\ loc[Reader].offset \in Nat
  BY <1>1, <1>2, <1>3 DEF ActorOK, Placed, Locals
<1>5. s \in 0 .. Capacity
  <2>1. <<loc[Reader].region, loc[Reader].offset>> \in Places
    BY <1>3, <1>4, Constants DEF Places
  <2> QED
    BY <2>1 DEF RuntimeIInv, Types, CellTypes, Cell
<1> HIDE DEF s
<1>6. /\ x \in Locals /\ x.region = loc[Reader].region /\ x.runtime = loc[Reader].runtime
      /\ x.offset < Capacity
  BY <1>1, <1>4, <1>5 DEF Locals
<1> HIDE DEF x
<1> QED
  BY <1>1, <1>2, <1>6, ReaderKeeps

LEMMA LoadTimestampKeeps ==
  ASSUME RuntimeIInv, LoadTimestamp
  PROVE  RuntimeIInv'
<1> DEFINE e == EntryAt(loc[Reader].region, loc[Reader].offset)
           x == [loc[Reader] EXCEPT !.seen = Append(@, e), !.offset = @ + loc[Reader].size + 1]
<1>1. /\ pc[Reader] = "load_timestamp" /\ loc[Reader] \in Locals
      /\ loc = [loc EXCEPT ![Reader] = loc[Reader]] /\ loc \in [Actors -> Locals]
      /\ UNCHANGED <<memory, timestamps, runtime, phase, log, counters>>
      /\ Reader \in Actors
  BY Before, Constants DEF LoadTimestamp
<1>2. /\ "load_timestamp" \in Checking /\ "load_committed" \notin Checking
      /\ "initialize" \notin Checking
  BY DEF Checking
<1>3. CASE Goto(Reader, "initialize") /\ UNCHANGED loc
  BY <1>1, <1>2, <1>3, ReaderKeeps DEF Goto
<1>4. CASE /\ loc' = [loc EXCEPT ![Reader].seen = Append(@, e),
                                 ![Reader].offset = @ + loc[Reader].size + 1]
           /\ Goto(Reader, "load_committed")
  <2>1. loc[Reader].region \in Regions /\ ActorOK(Reader, pc[Reader], loc[Reader])
    BY <1>1, Before, Constants DEF Resting
  <2>2. loc[Reader].offset < Capacity /\ loc[Reader].offset \in Nat
    BY <1>1, <1>2, <2>1 DEF ActorOK, Placed, Locals
  <2>3. e \in Entries
    <3>1. loc[Reader].offset \in 0 .. Capacity - 1
      BY <2>2, Constants
    <3> QED
      BY <2>1, <3>1, EntryType DEF RuntimeIInv
  <2> HIDE DEF e
  <2>4. loc' = [loc EXCEPT ![Reader] = x] /\ pc' = [pc EXCEPT ![Reader] = "load_committed"]
    BY <1>1, <1>4 DEF Goto, Locals
  <2>5. /\ x \in Locals /\ x.region = loc[Reader].region /\ x.runtime = loc[Reader].runtime
    <3>1. /\ Append(loc[Reader].seen, e) \in Seq(Entries)
          /\ loc[Reader].offset + loc[Reader].size + 1 \in Nat
      BY <1>1, <2>3, Constants DEF Locals
    <3> QED
      BY <1>1, <3>1 DEF Locals
  <2> HIDE DEF x
  <2> QED
    BY <1>1, <1>2, <2>4, <2>5, ReaderKeeps
<1> QED
  BY <1>3, <1>4 DEF LoadTimestamp

LEMMA SetMaxValidKeeps ==
  ASSUME RuntimeIInv, NEW a \in Actors, SetMaxValid(a)
  PROVE  RuntimeIInv'
<1> DEFINE r == loc[a].region
           p == <<r, appendOffset[loc[a].runtime]>>
<1>1. /\ pc[a] = "set_max_valid" /\ loc[a] \in Locals /\ loc = [loc EXCEPT ![a] = loc[a]]
      /\ cellsMedium' = IF p \in Places THEN [cellsMedium EXCEPT ![p] = {cells[p]}]
                        ELSE cellsMedium
      /\ maxValid' = [maxValid EXCEPT ![r] = Forever]
      /\ maxValidMedium' = [maxValidMedium EXCEPT ![r] = @ \union {Forever}]
      /\ pc' = [pc EXCEPT ![a] = "write_ready"] /\ loc' = loc
      /\ UNCHANGED <<cells, isRegion, allocated, timestamps, runtime, phase, loc, log, counters>>
  BY Before DEF SetMaxValid, Goto
<1>2. CellTypes'
  <2> HIDE DEF p
  <2> QED
    BY <1>1 DEF RuntimeIInv, Types, CellTypes
<1>3. RegionTypes'
  BY <1>1, Constants DEF RuntimeIInv, Types, RegionTypes
<1>4. /\ TimestampTypes' /\ CounterTypes' /\ log' \in [Regions -> Seq(Entries)] /\ OpsOfUsed'
      /\ appendOffset' \in [Runtimes -> Nat]
      /\ UNCHANGED <<allocated, runtimeOf, state, lock, phase>>
  BY <1>1 DEF RuntimeIInv, RuntimeInv, OpsOfUsed, Types, TimestampTypes, RuntimeTypes, CounterTypes,
              ActorTypes, timestamps, counters, runtime
<1>5. ActorOK(a, "write_ready", loc[a])
  <2>1. ActorOK(a, pc[a], loc[a])
    BY Before
  <2>2. state[loc[a].runtime] = "read_ready"
    BY <1>1, <2>1 DEF ActorOK, Ready
  <2> QED
    BY <1>1, <2>2, Stays DEF ReaderLabels, WriterLabels, Resting,
          Searching, Recovering, Locked, Writing, Storing, Checking, HasRuntime
<1> QED
  BY <1>1, <1>2, <1>3, <1>4, <1>5, MoveKeeps

\* A step of actor a that takes or releases the lock of runtime o, or opens it for
\* writing while holding its lock, is no concern of the others.
LEMMA LockMove ==
  ASSUME RuntimeIInv, NEW a \in Actors, NEW o \in Runtimes, NEW h \in {a, Nobody},
         lock[o] \in {a, Nobody}, lock' = [lock EXCEPT ![o] = h],
         \/ state' = state
         \/ state' = [state EXCEPT ![o] = "write_ready"] /\ lock[o] = a /\ state[o] # "none",
         NEW l, NEW x \in Locals, pc[a] # "remove_runtime",
         pc' = [pc EXCEPT ![a] = l], loc' = [loc EXCEPT ![a] = x],
         UNCHANGED <<allocated, runtimeOf, phase>>
  PROVE  /\ \A b \in Actors \ {a} : ActorOK(b, pc[b], loc[b])'
         /\ pc' = [b \in Actors |-> pc'[b]] /\ loc' \in [Actors -> Locals]
         /\ pc'[a] = l /\ loc'[a] = x
         /\ Mapped'
<1>1. /\ pc = [b \in Actors |-> pc[b]] /\ loc \in [Actors -> Locals]
      /\ \A b \in Actors : ActorOK(b, pc[b], loc[b])
      /\ lock \in [Runtimes -> Actors \union {Nobody}]
      /\ state \in [Runtimes -> {"none", "read_ready", "write_ready"}]
  BY DEF RuntimeIInv, Types, ActorTypes, RuntimeTypes, RuntimeInv
<1>2. ASSUME NEW b \in Actors \ {a} PROVE ActorOK(b, pc[b], loc[b])'
  <2>1. pc'[b] = pc[b] /\ loc'[b] = loc[b] /\ ActorOK(b, pc[b], loc[b]) /\ b # Nobody
    BY <1>1, Constants
  <2>2. Placed(b, pc[b], loc[b])' /\ Holds(b, pc[b], loc[b])'
    BY <2>1 DEF ActorOK, Placed, Holds
  <2>3. Locks(b, pc[b], loc[b])'
    <3>1. \A q \in Runtimes : lock'[q] = b <=> lock[q] = b
      BY <1>1, <2>1
    <3> QED
      BY <2>1, <3>1 DEF ActorOK, Locks
  <2>4. Ready(b, pc[b], loc[b])'
    <3>1. CASE state' = state
      BY <2>1, <3>1 DEF ActorOK, Ready
    <3>2. CASE state' = [state EXCEPT ![o] = "write_ready"] /\ lock[o] = a
      <4>1. pc[b] \in Locked => loc[b].runtime # o
        BY <2>1, <3>2 DEF ActorOK, Locks
      <4>2. \A q \in Runtimes : q # o => state'[q] = state[q]
        BY <3>2, <1>1
      <4>3. state'[o] = "write_ready"
        BY <3>2, <1>1
      <4>4. pc[b] \in Writing \union {"set_max_valid", "write_ready"} => loc[b].runtime \in Runtimes
        BY Before DEF HasRuntime, Locked
      <4>5. pc[b] \in {"set_max_valid", "write_ready"} => state'[loc[b].runtime] = "read_ready"
        BY <2>1, <4>1, <4>2, <4>4 DEF ActorOK, Ready, Locked
      <4>6. pc[b] \in Writing => state'[loc[b].runtime] = "write_ready"
        BY <2>1, <4>2, <4>3, <4>4 DEF ActorOK, Ready
      <4> QED
        BY <2>1, <4>5, <4>6 DEF Ready
    <3> QED
      BY <3>1, <3>2
  <2>5. phase' = "opening" => pc'[b] = "idle"
    BY <2>1 DEF ActorOK
  <2> QED
    BY <2>2, <2>3, <2>4, <2>5 DEF ActorOK
<1>3. pc' = [b \in Actors |-> pc'[b]] /\ loc' \in [Actors -> Locals] /\ pc'[a] = l /\ loc'[a] = x
  BY <1>1
<1>4. Mapped'
  <2>1. Mapped
    BY DEF RuntimeIInv, RuntimeInv
  <2>2. \A q \in Runtimes : state'[q] # "none" <=> state[q] # "none"
    BY <1>1
  <2>3. \A r \in Regions : runtimeOf[r] # Nobody => runtimeOf[r] \in Runtimes
    BY DEF RuntimeIInv, Types, RuntimeTypes
  <2>4. \A r \in Regions : r \notin allocated' /\ pc'[r] # "remove_runtime" => runtimeOf'[r] = Nobody
    BY <1>1, <2>1, Constants DEF Mapped
  <2>5. \A r \in Regions : runtimeOf'[r] # Nobody => state'[runtimeOf'[r]] # "none" /\ runtimeOf'[r][2] = r
    BY <2>1, <2>2, <2>3 DEF Mapped
  <2>6. \A q \in Runtimes : state'[q] # "none" => runtimeOf'[q[2]] = q
    BY <2>1, <2>2 DEF Mapped
  <2>7. phase' = "opening" => \A r \in Regions : runtimeOf'[r] = Nobody
    BY <2>1 DEF Mapped
  <2> QED
    BY <2>4, <2>5, <2>6, <2>7 DEF Mapped
<1> QED
  BY <1>2, <1>3, <1>4

LEMMA LockKeeps ==
  ASSUME RuntimeIInv, NEW a \in Actors, Lock(a)
  PROVE  RuntimeIInv'
<1> DEFINE o == loc[a].runtime
<1>1. /\ pc[a] = "lock" /\ lock[o] = Nobody /\ lock' = [lock EXCEPT ![o] = a]
      /\ pc' = [pc EXCEPT ![a] = "recheck"] /\ loc' = loc /\ state' = state
      /\ UNCHANGED <<memory, timestamps, runtimeOf, state, appendOffset, phase, loc, log, counters>>
      /\ UNCHANGED <<allocated, runtimeOf, phase>>
  BY DEF Lock, Goto, memory
<1>2. pc[a] \in HasRuntime /\ pc[a] \notin Locked /\ "recheck" \in Locked /\ pc[a] # "remove_runtime"
      /\ "recheck" \in HasRuntime /\ "recheck" \in ReaderLabels /\ "recheck" \in WriterLabels
      /\ "recheck" \notin Checking \union Writing \union Resting /\ pc[a] \notin Resting
  BY <1>1 DEF ReaderLabels, WriterLabels, Resting,
          Searching, Recovering, Locked, Writing, Storing, Checking, HasRuntime
<1>3. /\ o \in Runtimes /\ loc[a] \in Locals /\ loc' = [loc EXCEPT ![a] = loc[a]]
      /\ ActorOK(a, pc[a], loc[a])
  BY <1>1, <1>2, Before
<1>4. /\ \A b \in Actors \ {a} : ActorOK(b, pc[b], loc[b])'
      /\ pc' = [b \in Actors |-> pc'[b]] /\ loc' \in [Actors -> Locals]
      /\ pc'[a] = "recheck" /\ loc'[a] = loc[a]
      /\ Mapped'
  <2> HIDE DEF o
  <2> QED
    BY <1>1, <1>2, <1>3, LockMove
<1>5. lock \in [Runtimes -> Actors \union {Nobody}] /\ a # Nobody
  BY Constants DEF RuntimeIInv, Types, RuntimeTypes
<1>6. ActorOK(a, pc[a], loc[a])'
  <2>1. Locks(a, pc[a], loc[a])'
    <3>1. \A q \in Runtimes : lock[q] # a
      BY <1>2, <1>3 DEF ActorOK, Locks
    <3>2. \A q \in Runtimes : lock'[q] = a <=> q = o
      BY <1>1, <1>5, <3>1
    <3> QED
      BY <1>2, <1>4, <3>2 DEF Locks
  <2>2. Placed(a, pc[a], loc[a])'
    BY <1>1, <1>2, <1>3, <1>4 DEF ActorOK, Placed
  <2>3. Holds(a, pc[a], loc[a])'
    BY <1>1, <1>2, <1>3, <1>4 DEF ActorOK, Holds
  <2>4. Ready(a, pc[a], loc[a])' /\ phase' # "opening"
    BY <1>1, <1>2, <1>3, <1>4 DEF ActorOK, Ready
  <2> QED
    BY <2>1, <2>2, <2>3, <2>4 DEF ActorOK
<1>7. /\ CellTypes' /\ RegionTypes' /\ TimestampTypes' /\ CounterTypes' /\ OpsOfUsed'
  BY <1>1 DEF RuntimeIInv, RuntimeInv, OpsOfUsed, Types, CellTypes, RegionTypes, TimestampTypes,
              CounterTypes, memory, timestamps, counters
<1>8. RuntimeTypes' /\ ActorTypes'
  BY <1>1, <1>4, <1>5 DEF RuntimeIInv, Types, RuntimeTypes, ActorTypes
<1> QED
  BY <1>4, <1>6, <1>7, <1>8 DEF RuntimeIInv, RuntimeInv, Types

\* The end of a recovery: the runtime is open for writing and its lock is released.
LEMMA ReleaseKeeps ==
  ASSUME RuntimeIInv, NEW a \in Actors, pc[a] \in Locked, AfterRecovery(a),
         lock' = [lock EXCEPT ![loc[a].runtime] = Nobody],
         \/ state' = state /\ state[loc[a].runtime] = "write_ready"
         \/ state' = [state EXCEPT ![loc[a].runtime] = "write_ready"],
         UNCHANGED <<allocated, runtimeOf, appendOffset, timestamps, phase, log, counters>>,
         CellTypes', RegionTypes'
  PROVE  RuntimeIInv'
<1> DEFINE o == loc[a].runtime
<1>1. PICK l, x : /\ pc' = [pc EXCEPT ![a] = l] /\ loc' = [loc EXCEPT ![a] = x]
                  /\ \/ a # Reader /\ l = "reserve" /\ x = loc[a]
                     \/ a = Reader /\ l = "load_committed" /\ x = loc[a]
                     \/ a = Reader /\ l = "idle" /\ x = NoLocals
  <2>1. loc = [loc EXCEPT ![a] = loc[a]]
    BY Before
  <2> QED
    BY <2>1 DEF AfterRecovery, Goto
<1>2. /\ pc[a] \in HasRuntime /\ pc[a] # "remove_runtime" /\ pc[a] \notin Resting
  BY DEF ReaderLabels, WriterLabels, Resting,
          Searching, Recovering, Locked, Writing, Storing, Checking, HasRuntime
<1>3. /\ o \in Runtimes /\ loc[a] \in Locals /\ ActorOK(a, pc[a], loc[a])
      /\ state[o] # "none" /\ x \in Locals /\ NoLocals.runtime = Nobody
      /\ x = NoLocals \/ x = loc[a]
  BY <1>1, <1>2, Before, NoLocalsType
<1>4. lock[o] = a
  BY <1>3 DEF ActorOK, Locks
<1>5. lock \in [Runtimes -> Actors \union {Nobody}] /\ a # Nobody
      /\ state \in [Runtimes -> {"none", "read_ready", "write_ready"}]
  BY Constants DEF RuntimeIInv, Types, RuntimeTypes
<1>6. /\ \A b \in Actors \ {a} : ActorOK(b, pc[b], loc[b])'
      /\ pc' = [b \in Actors |-> pc'[b]] /\ loc' \in [Actors -> Locals]
      /\ pc'[a] = l /\ loc'[a] = x
      /\ Mapped'
  <2> HIDE DEF o
  <2>1. lock' = [lock EXCEPT ![o] = Nobody]
    BY DEF o
  <2>2. \/ state' = state
        \/ state' = [state EXCEPT ![o] = "write_ready"] /\ lock[o] = a /\ state[o] # "none"
    BY <1>3, <1>4 DEF o
  <2>3. UNCHANGED <<allocated, runtimeOf, phase>>
    OBVIOUS
  <2>4. o \in Runtimes /\ lock[o] \in {a, Nobody} /\ Nobody \in {a, Nobody} /\ x \in Locals
    BY <1>3, <1>4
  <2> QED
    BY <1>1, <1>2, <2>1, <2>2, <2>3, <2>4, LockMove
<1>7. state'[o] = "write_ready"
  BY <1>3, <1>5
<1>8. l \notin Locked /\ l \notin Checking /\ l \notin {"set_max_valid", "write_ready"} /\ l # "remove_runtime"
  BY <1>1 DEF Locked, Checking
<1>9. ActorOK(a, pc[a], loc[a])'
  <2>1. Locks(a, pc[a], loc[a])'
    <3>1. \A q \in Runtimes : lock[q] = a => q = o
      BY <1>3 DEF ActorOK, Locks
    <3>2. \A q \in Runtimes : lock'[q] # a
      BY <1>5, <3>1
    <3> QED
      BY <1>6, <1>8, <3>2 DEF Locks
  <2>2. Placed(a, pc[a], loc[a])'
    <3>1. /\ l \in (IF a = Reader THEN ReaderLabels ELSE WriterLabels)
          /\ l \notin Resting => x = loc[a]
      BY <1>1 DEF ReaderLabels, WriterLabels, Resting,
          Searching, Recovering, Locked, Writing, Storing, Checking, HasRuntime
    <3>2. loc[a].region \in allocated /\ (a # Reader => loc[a].region = a)
      BY <1>2, Before
    <3> QED
      BY <1>6, <1>8, <3>1, <3>2 DEF Placed
  <2>3. Holds(a, pc[a], loc[a])'
    <3>1. CASE x = loc[a] /\ l \in HasRuntime
      BY <1>2, <1>3, <1>6, <3>1 DEF ActorOK, Holds
    <3>2. CASE x = NoLocals /\ l = "idle"
      <4>1. "idle" \notin HasRuntime
        BY DEF ReaderLabels, WriterLabels, Resting,
          Searching, Recovering, Locked, Writing, Storing, Checking, HasRuntime
      <4> QED
        BY <1>3, <1>6, <3>2, <4>1 DEF Holds
    <3> QED
      BY <1>1, <3>1, <3>2 DEF ReaderLabels, WriterLabels, Resting,
          Searching, Recovering, Locked, Writing, Storing, Checking, HasRuntime
  <2>4. Ready(a, pc[a], loc[a])'
    <3>1. l \in Writing => x = loc[a]
      BY <1>1 DEF ReaderLabels, WriterLabels, Resting,
          Searching, Recovering, Locked, Writing, Storing, Checking, HasRuntime
    <3> QED
      BY <1>6, <1>7, <1>8, <3>1 DEF Ready
  <2>5. phase' # "opening"
    BY <1>2, <1>3 DEF ActorOK, Resting
  <2> QED
    BY <2>1, <2>2, <2>3, <2>4, <2>5 DEF ActorOK
<1>10. /\ TimestampTypes' /\ CounterTypes' /\ OpsOfUsed'
  BY DEF RuntimeIInv, RuntimeInv, OpsOfUsed, Types, TimestampTypes, CounterTypes, timestamps, counters
<1>11. RuntimeTypes' /\ ActorTypes'
  BY <1>5, <1>6 DEF RuntimeIInv, Types, RuntimeTypes, ActorTypes
<1> QED
  BY <1>6, <1>9, <1>10, <1>11 DEF RuntimeIInv, RuntimeInv, Types

LEMMA RecheckStateKeeps ==
  ASSUME RuntimeIInv, NEW a \in Actors, RecheckState(a)
  PROVE  RuntimeIInv'
<1> DEFINE r == loc[a].region
           o == loc[a].runtime
           tail == IF a = Reader THEN loc[a].offset ELSE TailOf(r)
<1>1. /\ pc[a] = "recheck"
      /\ UNCHANGED <<maxValid, maxValidMedium, allocated, timestamps, runtimeOf, state, phase, log,
                     counters>>
  BY DEF RecheckState
<1>2. pc[a] \in Locked /\ pc[a] \in HasRuntime /\ pc[a] \notin Resting /\ pc[a] # "remove_runtime"
  BY <1>1 DEF ReaderLabels, WriterLabels, Resting,
          Searching, Recovering, Locked, Writing, Storing, Checking, HasRuntime
<1>3. /\ loc[a] \in Locals /\ loc = [loc EXCEPT ![a] = loc[a]] /\ r \in Regions /\ o \in Runtimes
  BY <1>2, Before
<1>4. CASE /\ state[o] = "write_ready" /\ lock' = [lock EXCEPT ![o] = Nobody] /\ AfterRecovery(a)
           /\ UNCHANGED <<cells, isRegion, cellsMedium, appendOffset>>
  <2>1. CellTypes' /\ RegionTypes'
    BY <1>1, <1>4 DEF RuntimeIInv, Types, CellTypes, RegionTypes
  <2> QED
    BY <1>1, <1>2, <1>4, <2>1, ReleaseKeeps
<1>5. CASE /\ state[o] = "read_ready" /\ appendOffset' = [appendOffset EXCEPT ![o] = tail]
           /\ ClearSpan(r, tail) /\ Goto(a, "set_max_valid") /\ UNCHANGED <<lock, loc>>
  <2>1. tail \in Nat
    <3>1. loc[a].offset \in Nat
      BY <1>3 DEF Locals
    <3>2. TailOf(r) \in Nat
      BY <1>3, TailFrom DEF RuntimeIInv
    <3> QED
      BY <3>1, <3>2
  <2> HIDE DEF tail
  <2>2. CellTypes' /\ isRegion' \in [Regions -> BOOLEAN]
    BY <1>3, <1>5, <2>1, ClearTypes DEF RuntimeIInv, Types
  <2>3. RegionTypes' /\ appendOffset' \in [Runtimes -> Nat]
    BY <1>1, <1>5, <2>1, <2>2 DEF RuntimeIInv, Types, RegionTypes, RuntimeTypes
  <2>4. /\ TimestampTypes' /\ CounterTypes' /\ log' \in [Regions -> Seq(Entries)] /\ OpsOfUsed'
        /\ UNCHANGED <<allocated, runtimeOf, state, lock, phase>>
    BY <1>1, <1>5 DEF RuntimeIInv, RuntimeInv, OpsOfUsed, Types, TimestampTypes, CounterTypes,
              ActorTypes, timestamps, counters
  <2>5. ActorOK(a, "set_max_valid", loc[a])
    BY <1>1, <1>3, <1>5, Stays DEF ReaderLabels, WriterLabels, Resting,
          Searching, Recovering, Locked, Writing, Storing, Checking, HasRuntime
  <2>6. pc' = [pc EXCEPT ![a] = "set_max_valid"] /\ loc' = [loc EXCEPT ![a] = loc[a]]
    BY <1>3, <1>5 DEF Goto
  <2> QED
    BY <1>2, <1>3, <2>2, <2>3, <2>4, <2>5, <2>6, MoveKeeps
<1> QED
  BY <1>4, <1>5 DEF RecheckState

LEMMA WriteReadyKeeps ==
  ASSUME RuntimeIInv, NEW a \in Actors, WriteReady(a)
  PROVE  RuntimeIInv'
<1>1. /\ pc[a] = "write_ready" /\ AfterRecovery(a)
      /\ maxValidMedium' = [maxValidMedium EXCEPT ![loc[a].region] = {maxValid[loc[a].region]}]
      /\ state' = [state EXCEPT ![loc[a].runtime] = "write_ready"]
      /\ lock' = [lock EXCEPT ![loc[a].runtime] = Nobody]
      /\ UNCHANGED <<cells, maxValid, isRegion, cellsMedium, allocated, timestamps, runtimeOf,
                     appendOffset, phase, log, counters>>
  BY DEF WriteReady
<1>2. pc[a] \in Locked /\ pc[a] \notin Resting
  BY <1>1 DEF Locked, Resting
<1>3. loc[a].region \in Regions
  BY <1>2, Before
<1>4. CellTypes' /\ RegionTypes'
  BY <1>1, <1>3 DEF RuntimeIInv, Types, CellTypes, RegionTypes
<1> QED
  BY <1>1, <1>2, <1>4, ReleaseKeeps

LEMMA CreateKeeps ==
  ASSUME RuntimeIInv, NEW a \in Actors, Create(a)
  PROVE  RuntimeIInv'
<1> DEFINE r == loc[a].region
           l == IF a = Reader THEN "load_committed" ELSE "initialize"
           own == <<a, r>>
           old == runtimeOf[r]
           new == [loc[a] EXCEPT !.runtime = own]
           taken == [loc[a] EXCEPT !.runtime = old]
<1>1. /\ pc[a] = "create" /\ loc[a] \in Locals /\ ActorOK(a, pc[a], loc[a])
      /\ UNCHANGED <<memory, timestamps, appendOffset, lock, phase, log, counters>>
      /\ r \in allocated /\ r \in Regions
      /\ a # Reader => a \in Regions /\ r = a
  BY Before DEF Create, Resting
<1>2. /\ pc = [b \in Actors |-> pc[b]] /\ loc \in [Actors -> Locals]
      /\ \A b \in Actors : ActorOK(b, pc[b], loc[b])
      /\ lock \in [Runtimes -> Actors \union {Nobody}]
      /\ state \in [Runtimes -> {"none", "read_ready", "write_ready"}]
      /\ runtimeOf \in [Regions -> Runtimes \union {Nobody}]
      /\ appendOffset \in [Runtimes -> Nat] /\ Mapped /\ OpsOfUsed
  BY DEF RuntimeIInv, Types, ActorTypes, RuntimeTypes, RuntimeInv
<1>3. own \in Runtimes /\ own # Nobody /\ own[2] = r
  BY <1>1, Constants DEF Runtimes
<1>4. pc' = [pc EXCEPT ![a] = l] /\ loc' = [loc EXCEPT ![a].runtime = IF old = Nobody THEN own ELSE old]
  BY DEF Create, HaveRuntime, Goto
<1>5. /\ pc[a] \notin Locked /\ pc[a] \notin HasRuntime /\ l \notin Locked /\ l \in HasRuntime
      /\ l \notin Checking /\ l \notin Writing \union {"set_max_valid", "write_ready"} \union Resting
      /\ l \in (IF a = Reader THEN ReaderLabels ELSE WriterLabels) /\ pc[a] # "remove_runtime"
      /\ pc[a] \notin Resting
  BY <1>1 DEF ReaderLabels, WriterLabels, Resting,
          Searching, Recovering, Locked, Writing, Storing, Checking, HasRuntime
<1>6. CASE old # Nobody
  <2>1. UNCHANGED <<runtimeOf, state>> /\ loc' = [loc EXCEPT ![a] = taken]
    BY <1>4, <1>6 DEF Create
  <2>2. /\ taken \in Locals /\ taken.region = r /\ taken.runtime = old
    BY <1>1, <1>2 DEF Locals
  <2>3. ActorOK(a, l, taken)
    <3> HIDE DEF taken, l
    <3>1. Placed(a, l, taken)
      BY <1>1, <1>5, <2>2 DEF Placed, Resting
    <3>2. Holds(a, l, taken) /\ Ready(a, l, taken)
      BY <1>5, <1>6, <2>2 DEF Holds, Ready
    <3>3. Locks(a, l, taken) /\ phase # "opening"
      BY <1>1, <1>5 DEF ActorOK, Locks, Resting
    <3> QED
      BY <3>1, <3>2, <3>3 DEF ActorOK
  <2> HIDE DEF taken, l
  <2>4. UNCHANGED <<memory, timestamps, runtime, phase, log, counters>>
    BY <1>1, <2>1 DEF runtime
  <2> QED
    BY <1>4, <1>5, <2>1, <2>2, <2>3, <2>4, OnlyMoves
<1>7. CASE old = Nobody
  <2>1. /\ runtimeOf' = [runtimeOf EXCEPT ![r] = own] /\ state' = [state EXCEPT ![own] = "read_ready"]
        /\ loc' = [loc EXCEPT ![a] = new]
    BY <1>4, <1>7 DEF Create
  <2>2. /\ new \in Locals /\ new.region = r /\ new.runtime = own
    BY <1>1, <1>3 DEF Locals
  <2> HIDE DEF new, own, l, r
  <2>3. ASSUME NEW b \in Actors PROVE ActorOK(b, pc[b], loc[b])'
    <3>1. CASE b = a
      <4>1. pc'[a] = l /\ loc'[a] = new
        BY <1>2, <1>4, <2>1
      <4>2. /\ allocated' = allocated /\ lock' = lock /\ phase' = phase
            /\ runtimeOf'[r] = own /\ phase # "opening"
        BY <1>1, <1>2, <2>1 DEF memory, ActorOK
      <4>3. Placed(b, pc[b], loc[b])'
        BY <1>1, <1>5, <2>2, <3>1, <4>1, <4>2 DEF Placed, Resting
      <4>4. Ready(b, pc[b], loc[b])'
        BY <1>5, <3>1, <4>1 DEF Ready
      <4>5. Locks(b, pc[b], loc[b])'
        BY <1>1, <1>5, <3>1, <4>1, <4>2 DEF ActorOK, Locks
      <4>6. Holds(b, pc[b], loc[b])'
        BY <1>3, <1>5, <2>2, <3>1, <4>1, <4>2 DEF Holds
      <4> QED
        BY <4>2, <4>3, <4>4, <4>5, <4>6 DEF ActorOK
    <3>2. CASE b # a
      <4>1. pc'[b] = pc[b] /\ loc'[b] = loc[b] /\ ActorOK(b, pc[b], loc[b])
        BY <1>2, <1>4, <2>1, <3>2
      <4>2. pc[b] \in HasRuntime =>
              /\ loc[b].region \in Regions /\ loc[b].region # r /\ loc[b].runtime \in Runtimes
              /\ loc[b].runtime # own
        <5>1. ASSUME pc[b] \in HasRuntime PROVE loc[b].region \in Regions
          BY <5>1, Before DEF ReaderLabels, WriterLabels, Resting,
          Searching, Recovering, Locked, Writing, Storing, Checking, HasRuntime
        <5> QED
          BY <5>1, <1>3, <1>7, Before DEF r
      <4>3. Placed(b, pc[b], loc[b])' /\ Locks(b, pc[b], loc[b])' /\ phase' = phase
        BY <1>1, <4>1 DEF ActorOK, Placed, Locks, memory
      <4>4. Holds(b, pc[b], loc[b])'
        BY <1>2, <2>1, <4>1, <4>2 DEF ActorOK, Holds
      <4>5. Ready(b, pc[b], loc[b])'
        <5>1. pc[b] \in Writing \union {"set_max_valid", "write_ready"} => pc[b] \in HasRuntime
          BY DEF HasRuntime, Locked
        <5> QED
          BY <1>2, <2>1, <4>1, <4>2, <5>1 DEF ActorOK, Ready
      <4> QED
        BY <4>1, <4>3, <4>4, <4>5 DEF ActorOK
    <3> QED
      BY <3>1, <3>2
  <2>4. Mapped'
    <3>1. ASSUME NEW q \in Regions, runtimeOf'[q] # Nobody
          PROVE  state'[runtimeOf'[q]] # "none" /\ runtimeOf'[q][2] = q
      BY <3>1, <1>2, <1>3, <2>1 DEF Mapped
    <3>2. ASSUME NEW o \in Runtimes, state'[o] # "none" PROVE runtimeOf'[o[2]] = o
      <4>1. o[2] \in Regions
        BY DEF Runtimes
      <4>2. CASE o = own
        BY <1>1, <1>2, <1>3, <2>1, <4>2
      <4>3. CASE o # own
        <5>1. runtimeOf[o[2]] = o /\ o # Nobody
          BY <1>2, <2>1, <3>2, <4>3, Constants DEF Mapped
        <5> QED
          BY <1>2, <1>7, <2>1, <4>1, <5>1
      <4> QED
        BY <4>2, <4>3
    <3>3. \A q \in Regions : q \notin allocated' /\ pc'[q] # "remove_runtime" => runtimeOf'[q] = Nobody
      <4>1. allocated' = allocated /\ \A q \in Regions : q \notin allocated => q # r /\ q # a
        <5>1. allocated' = allocated
          BY <1>1 DEF memory
        <5>2. r \in allocated /\ (a \in Regions => a = r)
          BY <1>1, Constants
        <5> QED
          BY <5>1, <5>2
      <4>2. ASSUME NEW q \in Regions, q \notin allocated', pc'[q] # "remove_runtime"
            PROVE  runtimeOf'[q] = Nobody
        <5>1. q \notin allocated /\ q # r /\ q # a /\ q \in Actors
          BY <4>1, <4>2, Constants
        <5>2. pc[q] # "remove_runtime"
          BY <1>2, <1>4, <4>2, <5>1
        <5>3. runtimeOf[q] = Nobody
          BY <1>2, <5>1, <5>2 DEF Mapped
        <5> QED
          BY <1>2, <2>1, <5>1, <5>3
      <4> QED
        BY <4>2
    <3>4. phase' # "opening"
      BY <1>1, <1>5 DEF ActorOK, Resting
    <3> QED
      BY <3>1, <3>2, <3>3, <3>4 DEF Mapped
  <2>5. /\ CellTypes' /\ RegionTypes' /\ TimestampTypes' /\ CounterTypes' /\ OpsOfUsed'
    BY <1>1 DEF RuntimeIInv, RuntimeInv, OpsOfUsed, Types, CellTypes, RegionTypes, TimestampTypes,
                CounterTypes, memory, timestamps, counters
  <2>6. RuntimeTypes'
    BY <1>1, <1>2, <1>3, <2>1 DEF RuntimeTypes
  <2>7. ActorTypes'
    <3>1. pc' = [b \in Actors |-> pc'[b]] /\ loc' \in [Actors -> Locals]
      BY <1>2, <1>4, <2>1, <2>2
    <3> QED
      BY <1>1, <3>1 DEF ActorTypes, RuntimeIInv, Types
  <2> QED
    BY <2>3, <2>4, <2>5, <2>6, <2>7 DEF RuntimeIInv, RuntimeInv, Types
<1> QED
  BY <1>6, <1>7

\* Regions that are released or allocated, and the map without the runtime of one.
LEMMA RegionsKeep ==
  ASSUME RuntimeIInv, NEW r \in Regions, Free(r) \/ RemoveRuntime(r) \/ Allocate(r)
  PROVE  RuntimeIInv'
<1>1. /\ pc = [b \in Actors |-> pc[b]] /\ loc \in [Actors -> Locals]
      /\ \A b \in Actors : ActorOK(b, pc[b], loc[b])
      /\ lock \in [Runtimes -> Actors \union {Nobody}]
      /\ state \in [Runtimes -> {"none", "read_ready", "write_ready"}]
      /\ runtimeOf \in [Regions -> Runtimes \union {Nobody}]
      /\ appendOffset \in [Runtimes -> Nat] /\ Mapped /\ OpsOfUsed
      /\ log \in [Regions -> Seq(Entries)]
      /\ CellTypes /\ RegionTypes /\ TimestampTypes /\ CounterTypes /\ ActorTypes /\ RuntimeTypes
  BY DEF RuntimeIInv, Types, ActorTypes, RuntimeTypes, RuntimeInv
<1>2. r \in Actors /\ r # Reader
  BY Constants
<1>3. CASE Free(r)
  <2>1. /\ phase = "running" /\ r \in allocated /\ Unused(r) /\ frees' = frees + 1
        /\ allocated' = allocated \ {r} /\ log' = [log EXCEPT ![r] = << >>]
        /\ pc' = [pc EXCEPT ![r] = "remove_runtime"]
        /\ UNCHANGED <<cells, maxValid, isRegion, cellsMedium, maxValidMedium, timestamps, runtime,
                       phase, loc, appends, reads, crashes>>
    BY <1>3 DEF Free, Goto
  <2>2. ASSUME NEW b \in Actors PROVE ActorOK(b, pc[b], loc[b])'
    <3>1. loc'[b] = loc[b] /\ ActorOK(b, pc[b], loc[b]) /\ phase' = phase
      BY <1>1, <2>1
    <3>2. CASE b = r
      <4>1. pc[r] = "idle" /\ pc'[r] = "remove_runtime"
        BY <1>1, <1>2, <2>1 DEF Unused
      <4>2. /\ "remove_runtime" \in Resting /\ "remove_runtime" \in WriterLabels
            /\ "remove_runtime" \notin HasRuntime /\ "remove_runtime" \notin Locked
            /\ "remove_runtime" \notin Writing /\ "remove_runtime" \notin Checking
            /\ "idle" \notin HasRuntime /\ "idle" \notin Locked
        BY DEF ReaderLabels, WriterLabels, Resting,
          Searching, Recovering, Locked, Writing, Storing, Checking, HasRuntime
      <4> QED
        BY <1>2, <2>1, <3>1, <3>2, <4>1, <4>2 DEF ActorOK, Placed, Holds, Locks, Ready, runtime
    <3>3. CASE b # r
      <4>1. pc'[b] = pc[b]
        BY <1>1, <2>1, <3>3
      <4>2. pc[b] \notin Resting => loc[b].region # r
        BY <2>1, <3>1, <3>3 DEF ActorOK, Placed, Unused, Resting
      <4> QED
        BY <2>1, <3>1, <4>1, <4>2 DEF ActorOK, Placed, Holds, Locks, Ready, runtime
    <3> QED
      BY <3>2, <3>3
  <2>3. Mapped'
    <3>1. \A q \in Regions : q \notin allocated' /\ pc'[q] # "remove_runtime" => runtimeOf'[q] = Nobody
      BY <1>1, <1>2, <2>1, Constants DEF Mapped, runtime
    <3> QED
      BY <1>1, <2>1, <3>1 DEF Mapped, runtime
  <2>4. OpsOfUsed'
    BY <1>1, <2>1 DEF OpsOfUsed, Unused, timestamps
  <2>5. CellTypes' /\ RegionTypes' /\ TimestampTypes' /\ CounterTypes'
    BY <1>1, <2>1 DEF CellTypes, RegionTypes, TimestampTypes, CounterTypes, timestamps
  <2>6. ActorTypes' /\ RuntimeTypes'
    <3>1. << >> \in Seq(Entries)
      OBVIOUS
    <3> QED
      BY <1>1, <2>1, <3>1 DEF ActorTypes, RuntimeTypes, runtime
  <2> QED
    BY <2>2, <2>3, <2>4, <2>5, <2>6 DEF RuntimeIInv, RuntimeInv, Types
<1>4. CASE RemoveRuntime(r)
  <2> DEFINE old == runtimeOf[r]
  <2>1. /\ pc[r] = "remove_runtime" /\ runtimeOf' = [runtimeOf EXCEPT ![r] = Nobody]
        /\ state' = [o \in Runtimes |-> IF o = old THEN "none" ELSE state[o]]
        /\ appendOffset' = [o \in Runtimes |-> IF o = old THEN NoOffset ELSE appendOffset[o]]
        /\ pc' = [pc EXCEPT ![r] = "idle"]
        /\ UNCHANGED <<memory, timestamps, lock, phase, loc, log, counters>>
        /\ UNCHANGED <<allocated>>
    BY <1>4 DEF RemoveRuntime, Goto, memory
  <2>2. old # Nobody => old \in Runtimes /\ old[2] = r
    BY <1>1 DEF Mapped
  <2>3. r \notin allocated /\ phase # "opening"
    BY <1>1, <1>2, <2>1 DEF ActorOK, Placed
  <2> HIDE DEF old
  <2>4. ASSUME NEW b \in Actors PROVE ActorOK(b, pc[b], loc[b])'
    <3>1. loc'[b] = loc[b] /\ ActorOK(b, pc[b], loc[b]) /\ phase' = phase
      BY <1>1, <2>1
    <3>2. CASE b = r
      <4>1. pc[r] = "remove_runtime" /\ pc'[r] = "idle"
        BY <1>1, <1>2, <2>1
      <4>2. /\ "idle" \in Resting /\ "idle" \in WriterLabels
            /\ "remove_runtime" \notin HasRuntime /\ "remove_runtime" \notin Locked
            /\ "idle" \notin Writing /\ "idle" \notin Checking
            /\ "idle" \notin HasRuntime /\ "idle" \notin Locked
        BY DEF ReaderLabels, WriterLabels, Resting,
          Searching, Recovering, Locked, Writing, Storing, Checking, HasRuntime
      <4> QED
        BY <1>2, <2>1, <3>1, <3>2, <4>1, <4>2 DEF ActorOK, Placed, Holds, Locks, Ready
    <3>3. CASE b # r
      <4>1. pc'[b] = pc[b]
        BY <1>1, <2>1, <3>3
      <4>2. pc[b] \in HasRuntime =>
              /\ loc[b].region # r /\ loc[b].region \in Regions /\ loc[b].runtime # old
              /\ loc[b].runtime \in Runtimes
        <5>1. pc[b] \in HasRuntime => pc[b] \notin Resting
          BY DEF ReaderLabels, WriterLabels, Resting,
          Searching, Recovering, Locked, Writing, Storing, Checking, HasRuntime
        <5> QED
          BY <2>2, <2>3, <5>1, Before
      <4>3. Holds(b, pc[b], loc[b])'
        BY <1>1, <2>1, <3>1, <4>1, <4>2 DEF ActorOK, Holds
      <4>4. Ready(b, pc[b], loc[b])'
        <5>1. pc[b] \in Writing \union {"set_max_valid", "write_ready"} => pc[b] \in HasRuntime
          BY DEF HasRuntime, Locked
        <5> QED
          BY <2>1, <3>1, <4>1, <4>2, <5>1 DEF ActorOK, Ready
      <4>5. Placed(b, pc[b], loc[b])' /\ Locks(b, pc[b], loc[b])'
        BY <2>1, <3>1, <4>1 DEF ActorOK, Placed, Locks
      <4> QED
        BY <3>1, <4>1, <4>3, <4>4, <4>5 DEF ActorOK
    <3> QED
      BY <3>2, <3>3
  <2>5. Mapped'
    <3>1. ASSUME NEW q \in Regions, runtimeOf'[q] # Nobody
          PROVE  state'[runtimeOf'[q]] # "none" /\ runtimeOf'[q][2] = q
      <4>1. q # r /\ runtimeOf'[q] = runtimeOf[q]
        BY <1>1, <2>1, <3>1
      <4>2. runtimeOf[q] \in Runtimes /\ runtimeOf[q][2] = q /\ state[runtimeOf[q]] # "none"
        BY <1>1, <3>1, <4>1 DEF Mapped
      <4>3. runtimeOf[q] # old
        BY <2>2, <4>1, <4>2, Constants
      <4> QED
        BY <2>1, <4>1, <4>2, <4>3
    <3>2. ASSUME NEW o \in Runtimes, state'[o] # "none" PROVE runtimeOf'[o[2]] = o
      <4>1. o # old /\ state[o] # "none" /\ o[2] \in Regions
        BY <2>1, <3>2 DEF Runtimes
      <4>2. runtimeOf[o[2]] = o
        BY <1>1, <4>1 DEF Mapped
      <4> QED
        BY <1>1, <2>1, <4>1, <4>2 DEF old
    <3>3. \A q \in Regions : q \notin allocated' /\ pc'[q] # "remove_runtime" => runtimeOf'[q] = Nobody
      BY <1>1, <1>2, <2>1, Constants DEF Mapped
    <3> QED
      BY <2>1, <2>3, <3>1, <3>2, <3>3 DEF Mapped
  <2>6. /\ CellTypes' /\ RegionTypes' /\ TimestampTypes' /\ CounterTypes' /\ OpsOfUsed'
    BY <1>1, <2>1 DEF OpsOfUsed, CellTypes, RegionTypes, TimestampTypes, CounterTypes, memory,
                      timestamps, counters
  <2>7. ActorTypes' /\ RuntimeTypes'
    <3>1. NoOffset \in Nat
      BY Constants DEF NoOffset
    <3> QED
      BY <1>1, <2>1, <3>1 DEF ActorTypes, RuntimeTypes
  <2> QED
    BY <2>4, <2>5, <2>6, <2>7 DEF RuntimeIInv, RuntimeInv, Types
<1>5. CASE Allocate(r)
  <2>1. /\ phase = "running" /\ r \notin allocated /\ pc[r] = "idle"
        /\ allocated' = allocated \union {r}
        /\ maxValid' = [maxValid EXCEPT ![r] = Forever]
        /\ maxValidMedium' = [maxValidMedium EXCEPT ![r] = {Forever}]
        /\ cells' = [cells EXCEPT ![<<r, 0>>] = NoCell]
        /\ cellsMedium' = [cellsMedium EXCEPT ![<<r, 0>>] = {NoCell}]
        /\ UNCHANGED <<isRegion, timestamps, runtime, phase, pc, loc, log, counters>>
    BY <1>5 DEF Allocate
  <2>2. ASSUME NEW b \in Actors PROVE ActorOK(b, pc[b], loc[b])'
    <3>1. pc'[b] = pc[b] /\ loc'[b] = loc[b] /\ ActorOK(b, pc[b], loc[b]) /\ phase' = phase
      BY <1>1, <2>1
    <3>2. pc[b] = "remove_runtime" => b # r
      BY <2>1
    <3> QED
      BY <2>1, <3>1, <3>2 DEF ActorOK, Placed, Holds, Locks, Ready, runtime
  <2>3. Mapped' /\ OpsOfUsed'
    BY <1>1, <2>1 DEF Mapped, OpsOfUsed, runtime, timestamps
  <2>4. CellTypes'
    <3>1. NoCell \in Cell
      BY Constants DEF NoCell, Cell, Empty
    <3> QED
      BY <1>1, <2>1, <3>1 DEF CellTypes
  <2>5. RegionTypes'
    BY <1>1, <2>1, Constants DEF RegionTypes
  <2>6. TimestampTypes' /\ CounterTypes' /\ ActorTypes' /\ RuntimeTypes'
    BY <1>1, <2>1 DEF TimestampTypes, CounterTypes, ActorTypes, RuntimeTypes, runtime, timestamps, counters
  <2> QED
    BY <2>2, <2>3, <2>4, <2>5, <2>6 DEF RuntimeIInv, RuntimeInv, Types
<1> QED
  BY <1>3, <1>4, <1>5

LEMMA PlacesAreFinite == IsFiniteSet(Places)
<1>1. 0 \in Int /\ Capacity - 1 \in Int
  BY Constants
<1>2. IsFiniteSet(0 .. Capacity - 1)
  BY <1>1, FS_Interval
<1> QED
  BY <1>2, Constants, FS_Product DEF Places

\* After a power failure every word has one of the values that may have been on the
\* medium.
LEMMA CrashOutcome ==
  ASSUME Types, Crash
  PROVE  /\ cells' \in [Places -> Cell] /\ \A p \in Places : cells'[p] \in cellsMedium[p]
         /\ maxValid' \in [Regions -> Nat] /\ \A r \in Regions : maxValid'[r] \in maxValidMedium[r]
<1>1. /\ cellsMedium \in [Places -> SUBSET Cell] /\ maxValidMedium \in [Regions -> SUBSET Nat]
      /\ DOMAIN cellsMedium = Places /\ DOMAIN maxValidMedium = Regions
      /\ \A p \in Places : cellsMedium[p] # {}
      /\ \A r \in Regions : maxValidMedium[r] # {}
  BY DEF Types, CellTypes, RegionTypes
<1>2. cells' \in Outcomes(cellsMedium) /\ maxValid' \in Outcomes(maxValidMedium)
  BY DEF Crash
<1>3. cells' = [p \in Places |-> cells'[p]] /\ \A p \in Places : cells'[p] \in cellsMedium[p]
  BY <1>1, <1>2, PlacesAreFinite, OutcomesSound
<1>4. maxValid' = [r \in Regions |-> maxValid'[r]] /\ \A r \in Regions : maxValid'[r] \in maxValidMedium[r]
  BY <1>1, <1>2, Constants, OutcomesSound
<1> QED
  BY <1>1, <1>3, <1>4

LEMMA CrashKeeps ==
  ASSUME RuntimeIInv, Crash
  PROVE  RuntimeIInv'
<1>1. /\ cells' \in [Places -> Cell] /\ \A p \in Places : cells'[p] \in cellsMedium[p]
      /\ maxValid' \in [Regions -> Nat] /\ \A r \in Regions : maxValid'[r] \in maxValidMedium[r]
  BY CrashOutcome DEF RuntimeIInv
<1>2. Types
  BY DEF RuntimeIInv
<1>3. /\ cellsMedium' = [p \in Places |-> {cells'[p]}]
      /\ maxValidMedium' = [r \in Regions |-> {maxValid'[r]}]
      /\ next' = persisted + 1 /\ committed' = persisted /\ ops' = {}
      /\ runtimeOf' = [r \in Regions |-> Nobody]
      /\ state' = [o \in Runtimes |-> "none"]
      /\ appendOffset' = [o \in Runtimes |-> NoOffset]
      /\ lock' = [o \in Runtimes |-> Nobody]
      /\ phase' = "opening"
      /\ pc' = [a \in Actors |-> "idle"]
      /\ loc' = [a \in Actors |-> NoLocals]
      /\ log' = [r \in Regions |-> Upto(log[r], persisted)]
      /\ crashes' = crashes + 1
      /\ UNCHANGED <<isRegion, allocated, persisted, appends, reads, frees>>
  BY DEF Crash
<1>4. CellTypes' /\ RegionTypes'
  BY <1>1, <1>2, <1>3 DEF Types, CellTypes, RegionTypes
<1>5. TimestampTypes' /\ CounterTypes' /\ OpsOfUsed'
  BY <1>2, <1>3 DEF Types, TimestampTypes, CounterTypes, OpsOfUsed
<1>6. RuntimeTypes'
  <2>1. NoOffset \in Nat
    BY Constants DEF NoOffset
  <2> QED
    BY <1>3, <2>1 DEF RuntimeTypes
<1>7. ActorTypes'
  <2>1. ASSUME NEW r \in Regions PROVE Upto(log[r], persisted) \in Seq(Entries)
    <3>1. log[r] \in Seq(Entries)
      BY <1>2 DEF Types, ActorTypes
    <3> QED
      BY <3>1, UptoPrefix
  <2>2. log' \in [Regions -> Seq(Entries)]
    BY <1>3, <2>1
  <2>3. loc' \in [Actors -> Locals] /\ pc' = [b \in Actors |-> pc'[b]]
    BY <1>3, NoLocalsType
  <2> QED
    BY <1>3, <2>2, <2>3 DEF ActorTypes
<1>8. Mapped'
  BY <1>3 DEF Mapped
<1>9. ASSUME NEW a \in Actors PROVE ActorOK(a, pc[a], loc[a])'
  <2>1. pc'[a] = "idle" /\ loc'[a] = NoLocals /\ NoLocals.runtime = Nobody /\ a # Nobody
    BY <1>3, NoLocalsType, Constants
  <2>2. /\ "idle" \in Resting /\ "idle" \in WriterLabels /\ "idle" \in ReaderLabels
        /\ "idle" \notin Writing /\ "idle" \notin Checking
        /\ "idle" \notin HasRuntime /\ "idle" \notin Locked
    BY DEF ReaderLabels, WriterLabels, Resting,
          Searching, Recovering, Locked, Writing, Storing, Checking, HasRuntime
  <2>3. \A o \in Runtimes : lock'[o] # a
    BY <1>3, <2>1
  <2> QED
    BY <2>1, <2>2, <2>3 DEF ActorOK, Placed, Holds, Locks, Ready
<1> QED
  BY <1>4, <1>5, <1>6, <1>7, <1>8, <1>9 DEF RuntimeIInv, RuntimeInv, Types

\* Steps in which no actor takes part.
LEMMA OthersKeep ==
  ASSUME RuntimeIInv, UNCHANGED <<allocated, runtime, pc, loc, log, counters>>,
         CellTypes', RegionTypes', TimestampTypes', OpsOfUsed',
         phase' = phase \/ phase' = "running"
  PROVE  RuntimeIInv'
<1>1. UNCHANGED <<allocated, runtimeOf, state, lock, appendOffset, pc, loc, log>>
  BY DEF runtime
<1>2. RuntimeTypes' /\ ActorTypes' /\ CounterTypes'
  BY <1>1 DEF RuntimeIInv, Types, RuntimeTypes, ActorTypes, CounterTypes, counters
<1>3. Mapped'
  BY <1>1 DEF RuntimeIInv, RuntimeInv, Mapped
<1>4. ASSUME NEW a \in Actors PROVE ActorOK(a, pc[a], loc[a])'
  BY <1>1 DEF RuntimeIInv, RuntimeInv, ActorOK, Placed, Holds, Locks, Ready
<1> QED
  BY <1>2, <1>3, <1>4 DEF RuntimeIInv, RuntimeInv, Types

LEMMA CopyDoneKeeps ==
  ASSUME RuntimeIInv, NEW op \in ops, CopyDone(op)
  PROVE  RuntimeIInv'
<1> DEFINE done == [op EXCEPT !.copied = TRUE]
           c == PayloadCell(op.append)
<1>1. /\ ops' = (ops \ {op}) \union {done}
      /\ cells' = [p \in Places |-> IF p \in PayloadPlaces(op) THEN c ELSE cells[p]]
      /\ cellsMedium' = [p \in Places |-> IF p \in PayloadPlaces(op) THEN Stored(p, c)
                                         ELSE cellsMedium[p]]
      /\ UNCHANGED <<maxValid, isRegion, maxValidMedium, allocated, next, committed, persisted,
                     runtime, phase, pc, loc, log, counters>>
  BY DEF CopyDone
<1>2. op \in Operations /\ Types
  BY DEF RuntimeIInv, Types, TimestampTypes
<1>3. done \in Operations /\ done.region = op.region
  BY <1>2 DEF Operations
<1>4. c \in Cell
  <2>1. op.append \in Nat /\ 1 \in 0 .. Capacity
    BY <1>2, Constants DEF Operations
  <2> QED
    BY <2>1 DEF PayloadCell, Cell
<1> HIDE DEF done, c
<1>5. \A p \in Places : c \in Stored(p, c) /\ Stored(p, c) \in SUBSET Cell
  BY <1>2, <1>4, StoredTypes DEF Types
<1>6. CellTypes'
  BY <1>1, <1>2, <1>4, <1>5 DEF Types, CellTypes
<1>7. RegionTypes' /\ TimestampTypes' /\ OpsOfUsed'
  BY <1>1, <1>2, <1>3 DEF RuntimeIInv, RuntimeInv, Types, RegionTypes, TimestampTypes, OpsOfUsed
<1> QED
  BY <1>1, <1>6, <1>7, OthersKeep

LEMMA ProcessOpKeeps ==
  ASSUME RuntimeIInv, NEW op \in ops, ProcessOp(op)
  PROVE  RuntimeIInv'
<1> DEFINE done == [op EXCEPT !.durable = TRUE]
<1>1. /\ ops' = (ops \ {op}) \union {done} /\ cells' = cells
      /\ cellsMedium' = [p \in Places |-> IF p \in PersistedPlaces(op) THEN {cells[p]}
                                         ELSE cellsMedium[p]]
      /\ UNCHANGED <<maxValid, isRegion, maxValidMedium, allocated, next, committed, persisted,
                     runtime, phase, pc, loc, log, counters>>
  BY DEF ProcessOp
<1>2. op \in Operations /\ Types
  BY DEF RuntimeIInv, Types, TimestampTypes
<1>3. done \in Operations /\ done.region = op.region
  BY <1>2 DEF Operations
<1> HIDE DEF done
<1>4. CellTypes'
  BY <1>1, <1>2 DEF Types, CellTypes
<1>5. RegionTypes' /\ TimestampTypes' /\ OpsOfUsed'
  BY <1>1, <1>2, <1>3 DEF RuntimeIInv, RuntimeInv, Types, RegionTypes, TimestampTypes, OpsOfUsed
<1> QED
  BY <1>1, <1>4, <1>5, OthersKeep

LEMMA TimestampsKeep ==
  ASSUME RuntimeIInv, (\E op \in ops : Commit(op)) \/ RecordPersisted
  PROVE  RuntimeIInv'
<1>1. /\ committed' \in {committed, committed + 1} /\ persisted' \in {persisted, committed}
      /\ ops' \subseteq ops
      /\ UNCHANGED <<memory, next, runtime, phase, pc, loc, log, counters>>
  BY DEF Commit, RecordPersisted
<1>2. CellTypes' /\ RegionTypes' /\ TimestampTypes' /\ OpsOfUsed' /\ UNCHANGED allocated
  BY <1>1 DEF RuntimeIInv, RuntimeInv, Types, CellTypes, RegionTypes, TimestampTypes, OpsOfUsed, memory
<1> QED
  BY <1>1, <1>2, OthersKeep

LEMMA OpeningKeeps ==
  ASSUME RuntimeIInv, (\E r \in Regions : MarkRegion(r)) \/ Opened
  PROVE  RuntimeIInv'
<1>1. CASE Opened
  <2>1. /\ maxValidMedium' = [r \in Regions |-> {maxValid[r]}] /\ phase' = "running"
        /\ UNCHANGED <<cells, maxValid, isRegion, cellsMedium, allocated, timestamps, runtime, pc,
                       loc, log, counters>>
    BY <1>1 DEF Opened
  <2>2. CellTypes' /\ RegionTypes' /\ TimestampTypes' /\ OpsOfUsed'
    BY <2>1 DEF RuntimeIInv, RuntimeInv, Types, CellTypes, RegionTypes, TimestampTypes, OpsOfUsed,
                timestamps
  <2> QED
    BY <2>1, <2>2, OthersKeep
<1>2. ASSUME NEW r \in Regions, MarkRegion(r) PROVE RuntimeIInv'
  <2>1. /\ maxValid' = [maxValid EXCEPT ![r] = persisted]
        /\ maxValidMedium' = [maxValidMedium EXCEPT ![r] = @ \union {persisted}]
        /\ UNCHANGED <<cells, isRegion, cellsMedium, allocated, timestamps, runtime, phase, pc, loc,
                       log, counters>>
    BY <1>2 DEF MarkRegion
  <2>2. CellTypes' /\ RegionTypes' /\ TimestampTypes' /\ OpsOfUsed'
    BY <2>1 DEF RuntimeIInv, RuntimeInv, Types, CellTypes, RegionTypes, TimestampTypes, OpsOfUsed,
                timestamps
  <2> QED
    BY <2>1, <2>2, OthersKeep
<1> QED
  BY <1>1, <1>2

LEMMA RuntimeInit == Init => RuntimeIInv
<1> SUFFICES ASSUME Init PROVE RuntimeIInv
  OBVIOUS
<1>1. /\ cells = [p \in Places |-> NoCell]
      /\ cellsMedium = [p \in Places |-> {cells[p]}]
      /\ maxValid = [r \in Regions |-> Forever]
      /\ maxValidMedium = [r \in Regions |-> {Forever}]
      /\ isRegion = [r \in Regions |-> TRUE]
      /\ next = 1 /\ committed = 0 /\ persisted = 0 /\ ops = {}
      /\ allocated = Regions
      /\ runtimeOf = [r \in Regions |-> Nobody]
      /\ state = [o \in Runtimes |-> "none"]
      /\ appendOffset = [o \in Runtimes |-> NoOffset]
      /\ lock = [o \in Runtimes |-> Nobody]
      /\ phase = "running"
      /\ pc = [a \in Actors |-> "idle"]
      /\ loc = [a \in Actors |-> NoLocals]
      /\ log = [r \in Regions |-> << >>]
      /\ appends = 0 /\ reads = 0 /\ frees = 0 /\ crashes = 0
  BY DEF Init
<1>2. CellTypes
  <2>1. NoCell \in Cell
    BY Constants DEF NoCell, Cell, Empty
  <2> QED
    BY <1>1, <2>1 DEF CellTypes
<1>3. RegionTypes /\ TimestampTypes /\ CounterTypes /\ OpsOfUsed
  BY <1>1, Constants DEF RegionTypes, TimestampTypes, CounterTypes, OpsOfUsed
<1>4. RuntimeTypes
  <2>1. NoOffset \in Nat
    BY Constants DEF NoOffset
  <2> QED
    BY <1>1, <2>1 DEF RuntimeTypes
<1>5. ActorTypes
  <2>1. << >> \in Seq(Entries)
    OBVIOUS
  <2> QED
    BY <1>1, <2>1, NoLocalsType DEF ActorTypes
<1>6. Mapped
  BY <1>1 DEF Mapped
<1>7. ASSUME NEW a \in Actors PROVE ActorOK(a, pc[a], loc[a])
  <2>1. pc[a] = "idle" /\ loc[a] = NoLocals /\ NoLocals.runtime = Nobody /\ a # Nobody
    BY <1>1, NoLocalsType, Constants
  <2>2. /\ "idle" \in Resting /\ "idle" \in WriterLabels /\ "idle" \in ReaderLabels
        /\ "idle" \notin Writing /\ "idle" \notin Checking
        /\ "idle" \notin HasRuntime /\ "idle" \notin Locked
    BY DEF ReaderLabels, WriterLabels, Resting,
          Searching, Recovering, Locked, Writing, Storing, Checking, HasRuntime
  <2>3. \A o \in Runtimes : lock[o] # a
    BY <1>1, <2>1
  <2> QED
    BY <2>1, <2>2, <2>3 DEF ActorOK, Placed, Holds, Locks, Ready
<1> QED
  BY <1>2, <1>3, <1>4, <1>5, <1>6, <1>7 DEF RuntimeIInv, RuntimeInv, Types

LEMMA RuntimeStutters == RuntimeIInv /\ UNCHANGED vars => RuntimeIInv'
<1> SUFFICES ASSUME RuntimeIInv, UNCHANGED vars PROVE RuntimeIInv'
  OBVIOUS
<1>1. UNCHANGED <<memory, timestamps, runtime, phase, pc, loc, log, counters>>
  BY DEF vars
<1>2. CellTypes' /\ RegionTypes' /\ TimestampTypes' /\ OpsOfUsed' /\ UNCHANGED allocated
  BY <1>1 DEF RuntimeIInv, RuntimeInv, Types, CellTypes, RegionTypes, TimestampTypes, OpsOfUsed,
              timestamps, memory
<1> QED
  BY <1>1, <1>2, OthersKeep

LEMMA RuntimeSteps == RuntimeIInv /\ [Next]_vars => RuntimeIInv'
<1> SUFFICES ASSUME RuntimeIInv, [Next]_vars PROVE RuntimeIInv'
  OBVIOUS
<1>1. CASE UNCHANGED vars
  BY <1>1, RuntimeStutters
<1>2. ASSUME NEW r \in Regions, AppendBegin(r) \/ Write(r) \/ MarkRegion(r) PROVE RuntimeIInv'
  BY <1>2, AppendBeginKeeps, ReserveKeeps, AcquireKeeps, ClearNextKeeps, StoreHeaderKeeps,
     PublishKeeps, OpeningKeeps DEF Write
<1>3. ASSUME NEW r \in Regions, Free(r) \/ RemoveRuntime(r) \/ Allocate(r) PROVE RuntimeIInv'
  BY <1>3, RegionsKeep
<1>4. ASSUME NEW a \in Actors, GetOrCreate(a) \/ Recover(a) PROVE RuntimeIInv'
  BY <1>4, LookUpKeeps, CreateKeeps, CreateFailsKeeps, InitializeKeeps, LockKeeps,
     RecheckStateKeeps, SetMaxValidKeeps, WriteReadyKeeps DEF GetOrCreate, Recover
<1>5. CASE Read
  BY <1>5, ReadBeginKeeps, LoadCommittedKeeps, LoadMaxValidKeeps, LoadSpanKeeps,
     LoadTimestampKeeps DEF Read
<1>6. ASSUME NEW op \in ops, CopyDone(op) \/ ProcessOp(op) \/ Commit(op) PROVE RuntimeIInv'
  BY <1>6, CopyDoneKeeps, ProcessOpKeeps, TimestampsKeep
<1>7. CASE RecordPersisted
  BY <1>7, TimestampsKeep
<1>8. CASE Crash \/ Opened
  BY <1>8, CrashKeeps, OpeningKeeps
<1> QED
  BY <1>1, <1>2, <1>3, <1>4, <1>5, <1>6, <1>7, <1>8 DEF Next

-----------------------------------------------------------------------------
(* Theorems                                                                *)

\* In every reachable state, power failures and any values of the constants
\* included, the variables have their types and the runtimes of regions, their
\* users, their states and their locks fit together (region.c).
THEOREM RuntimeInvariant == Spec => []RuntimeIInv
  BY RuntimeInit, RuntimeSteps, PTL DEF Spec

\* All threads that use a region use the same runtime of it, hence the same
\* region_lock, also when two of them create it at once and when the region is
\* released and allocated again (region_runtimes_map_get_or_create).
THEOREM OneRuntime == Spec => []OneRuntimePerRegion
<1>1. RuntimeIInv => OneRuntimePerRegion
  <2> SUFFICES ASSUME RuntimeIInv PROVE OneRuntimePerRegion
    OBVIOUS
  <2>1. ASSUME NEW a \in Actors, loc[a].runtime # Nobody
        PROVE  loc[a].runtime = runtimeOf[loc[a].region]
    BY <2>1 DEF RuntimeIInv, RuntimeInv, ActorOK, Holds
  <2>2. ASSUME NEW o \in Runtimes, state[o] # "none" PROVE \E r \in Regions : runtimeOf[r] = o
    <3>1. o[2] \in Regions
      BY DEF Runtimes
    <3> QED
      BY <2>2, <3>1 DEF RuntimeIInv, RuntimeInv, Mapped
  <2> QED
    BY <2>1, <2>2 DEF OneRuntimePerRegion
<1> QED
  BY <1>1, RuntimeInvariant, PTL

\* One thread at a time recovers a region: two actors between the second check of
\* the state of the runtime and the end of the recovery are in different regions
\* (region_runtime_initialize_for_write_locked under region_lock).
OneRecoverer ==
  \A a, b \in Actors :
    pc[a] \in Locked /\ pc[b] \in Locked /\ loc[a].region = loc[b].region => a = b

LEMMA OneRecovers == RuntimeIInv => OneRecoverer
<1> SUFFICES ASSUME RuntimeIInv, NEW a \in Actors, NEW b \in Actors, pc[a] \in Locked, pc[b] \in Locked,
                    loc[a].region = loc[b].region
             PROVE  a = b
  BY DEF OneRecoverer
<1>1. pc[a] \in HasRuntime /\ pc[b] \in HasRuntime
  BY DEF HasRuntime
<1>2. loc[a].runtime = loc[b].runtime /\ loc[a].runtime \in Runtimes
  BY <1>1, Before
<1>3. lock[loc[a].runtime] = a /\ lock[loc[b].runtime] = b
  BY <1>2, Before DEF ActorOK, Locks
<1> QED
  BY <1>2, <1>3

\* Two threads, of the writer and of the iterator, are never inside the recovery of one
\* region at once.
THEOREM RecoveryIsExclusive == Spec => []OneRecoverer
  BY OneRecovers, RuntimeInvariant, PTL

=============================================================================

--------------------------- MODULE CritnibProofs ----------------------------
(***************************************************************************)
(* Theorems about Critnib, for any keys, values, numbers of threads and    *)
(* calls, and any sizes.  The memory is a tree, the pools and what rests   *)
(* between them; each store of a call leads from one such memory to        *)
(* another, a call leaves the content it reports, and an object a get may  *)
(* meet keeps its words until the get can tell that it is late.  With them *)
(* the critnib implements CritnibSpec.                                     *)
(***************************************************************************)
EXTENDS Critnib, WellFoundedInduction, SequenceTheorems, TLAPS

-----------------------------------------------------------------------------
(* Induction over the naturals, by sets                                    *)

\* A set of natural numbers that has 0 and with n also n + 1 has them all.
LEMMA Induction ==
  ASSUME NEW S \in SUBSET Nat, 0 \in S, \A n \in S : n + 1 \in S
  PROVE  S = Nat
<1>1. SUFFICES ASSUME Nat \ S # {} PROVE FALSE
  OBVIOUS
<1> DEFINE T == Nat \ S
<1>2. T \in SUBSET Nat /\ T # {}
  BY <1>1
<1>3. PICK x \in T : \A y \in T : ~(<<y, x>> \in OpToRel(<, Nat))
  BY <1>2, NatLessThanWellFounded, WFMin
<1>4. x \in Nat /\ x # 0
  BY <1>2
<1>5. x - 1 \in Nat /\ x - 1 < x /\ x - 1 + 1 = x
  BY <1>4
<1>6. x - 1 \notin T
  BY <1>3, <1>4, <1>5 DEF OpToRel
<1> QED
  BY <1>5, <1>6

-----------------------------------------------------------------------------
(* The weights of nibbles                                                  *)

\* Power up to n.
Powers(n, g) == g \in [0 .. n -> Nat \ {0}] /\ g[0] = 1 /\ \A s \in 0 .. n : s < n => g[s + 1] = Fanout * g[s]

LEMMA FanoutFacts == Fanout \in Nat /\ Fanout >= 2 /\ Digits \in Nat /\ Digits >= 1 /\ DeletedLife \in Nat /\ DeletedLife >= 1
BY CritnibAssumption

LEMMA PowersExist == \A n \in Nat : \E g : Powers(n, g)
<1> DEFINE S == {n \in Nat : \E g : Powers(n, g)}
<1>1. 0 \in S
  <2> DEFINE g == [s \in 0 .. 0 |-> 1]
  <2>1. Powers(0, g)
    BY DEF Powers
  <2> QED
    BY <2>1
<1>2. ASSUME NEW n \in S PROVE n + 1 \in S
  <2>1. PICK g : Powers(n, g)
    BY <1>2
  <2> DEFINE h == [s \in 0 .. n + 1 |-> IF s = n + 1 THEN Fanout * g[n] ELSE g[s]]
  <2>2. g \in [0 .. n -> Nat \ {0}] /\ g[0] = 1 /\ \A s \in 0 .. n : s < n => g[s + 1] = Fanout * g[s]
    BY <2>1 DEF Powers
  <2>3. Fanout * g[n] \in Nat \ {0}
    <3>1. g[n] \in Nat \ {0}
      BY <2>2
    <3> QED
      BY <3>1, FanoutFacts
  <2>4. h \in [0 .. n + 1 -> Nat \ {0}]
    <3>1. ASSUME NEW s \in 0 .. n + 1, s # n + 1 PROVE g[s] \in Nat \ {0}
      <4>1. s \in 0 .. n
        BY <3>1
      <4> QED
        BY <2>2, <4>1
    <3> QED
      BY <2>3, <3>1
  <2>5. h[0] = 1
    BY <2>2
  <2>6. ASSUME NEW s \in 0 .. n + 1, s < n + 1 PROVE h[s + 1] = Fanout * h[s]
    <3>1. h[s] = g[s] /\ s \in 0 .. n /\ s + 1 \in 0 .. n + 1
      BY <2>6
    <3>2. CASE s = n
      BY <3>1, <3>2
    <3>3. CASE s # n
      <4>1. s < n /\ s + 1 # n + 1
        BY <3>1, <3>3
      <4> QED
        BY <2>2, <3>1, <4>1
    <3> QED
      BY <3>2, <3>3
  <2>7. Powers(n + 1, h)
    <3> HIDE DEF h
    <3> QED
      BY <2>4, <2>5, <2>6 DEF Powers
  <2> QED
    BY <2>7
<1>3. S = Nat
  <2> HIDE DEF S
  <2>1. S \in SUBSET Nat
    BY DEF S
  <2> QED
    BY <1>1, <1>2, <2>1, Induction
<1> QED
  BY <1>3

LEMMA PowersAgree ==
  ASSUME NEW n \in Nat, NEW k \in Nat, NEW g, NEW h, Powers(n, g), Powers(k, h)
  PROVE  \A s \in Nat : s <= n /\ s <= k => g[s] = h[s]
<1> DEFINE S == {s \in Nat : s <= n /\ s <= k => g[s] = h[s]}
<1>1. 0 \in S
  BY DEF Powers
<1>2. ASSUME NEW s \in S PROVE s + 1 \in S
  <2>1. SUFFICES ASSUME s + 1 <= n, s + 1 <= k PROVE g[s + 1] = h[s + 1]
    OBVIOUS
  <2>2. s \in 0 .. n /\ s < n /\ s \in 0 .. k /\ s < k /\ s <= n /\ s <= k
    BY <2>1
  <2>3. g[s] = h[s]
    BY <1>2, <2>2
  <2> QED
    BY <2>2, <2>3 DEF Powers
<1>3. S = Nat
  <2> HIDE DEF S
  <2>1. S \in SUBSET Nat
    BY DEF S
  <2> QED
    BY <1>1, <1>2, <2>1, Induction
<1> QED
  BY <1>3

LEMMA PowerFacts ==
  /\ Power \in [Nat -> Nat \ {0}] /\ Power[0] = 1
  /\ \A s \in Nat : Power[s + 1] = Fanout * Power[s]
<1> DEFINE Body(p) == [s \in Nat |-> IF s = 0 THEN 1 ELSE Fanout * p[s - 1]]
           G == [n \in Nat |-> (CHOOSE g : Powers(n, g))[n]]
<1>1. ASSUME NEW n \in Nat PROVE Powers(n, CHOOSE g : Powers(n, g))
  BY PowersExist
<1>2. ASSUME NEW n \in Nat, NEW g, Powers(n, g) PROVE G[n] = g[n]
  <2>1. Powers(n, CHOOSE h : Powers(n, h))
    BY <1>1
  <2>2. PICK c : c = CHOOSE h : Powers(n, h)
    OBVIOUS
  <2>3. c[n] = g[n]
    BY <1>2, <2>1, <2>2, PowersAgree
  <2> QED
    BY <2>2, <2>3
<1>3. G[0] = 1 /\ \A n \in Nat : G[n] \in Nat \ {0}
  <2>1. ASSUME NEW n \in Nat PROVE G[n] \in Nat \ {0} /\ (n = 0 => G[n] = 1)
    <3>1. PICK g : Powers(n, g)
      BY PowersExist
    <3>2. G[n] = g[n]
      BY <1>2, <3>1
    <3> HIDE DEF G
    <3> QED
      BY <3>1, <3>2 DEF Powers
  <2> QED
    BY <2>1
<1>4. \A n \in Nat : G[n + 1] = Fanout * G[n]
  <2> TAKE n \in Nat
  <2>1. PICK g : Powers(n + 1, g)
    BY PowersExist
  <2>2. n + 1 \in Nat /\ n \in 0 .. n + 1 /\ n < n + 1
    OBVIOUS
  <2>3. G[n + 1] = g[n + 1]
    BY <1>2, <2>1, <2>2
  <2>4. PICK h : Powers(n, h)
    BY PowersExist
  <2>5. G[n] = h[n]
    BY <1>2, <2>4
  <2>6. h[n] = g[n]
    <3>1. \A s \in Nat : s <= n /\ s <= n + 1 => h[s] = g[s]
      BY <2>1, <2>2, <2>4, PowersAgree
    <3> QED
      BY <2>2, <3>1
  <2>7. g[n + 1] = Fanout * g[n]
    BY <2>1, <2>2 DEF Powers
  <2> HIDE DEF G
  <2> QED
    BY <2>3, <2>5, <2>6, <2>7
<1>5. G = Body(G)
  <2>1. \A s \in Nat : G[s] = Body(G)[s]
    <3> TAKE s \in Nat
    <3>1. Body(G)[s] = IF s = 0 THEN 1 ELSE Fanout * G[s - 1]
      <4> HIDE DEF G
      <4> QED
        OBVIOUS
    <3>2. CASE s = 0
      BY <1>3, <3>1, <3>2
    <3>3. CASE s # 0
      <4>1. s - 1 \in Nat /\ s - 1 + 1 = s
        BY <3>3
      <4>2. G[s] = Fanout * G[s - 1]
        BY <1>4, <4>1
      <4> QED
        BY <3>1, <3>3, <4>2
    <3> QED
      BY <3>2, <3>3
  <2>2. G = [s \in Nat |-> G[s]] /\ Body(G) = [s \in Nat |-> Body(G)[s]]
    OBVIOUS
  <2> HIDE DEF G, Body
  <2> QED
    BY <2>1, <2>2
<1>6. Power = CHOOSE p : p = Body(p)
  BY DEF Power
<1>7. Power = Body(Power)
  <2> HIDE DEF G, Body
  <2> QED
    BY <1>5, <1>6
<1>8. \A s \in Nat : Power[s] = IF s = 0 THEN 1 ELSE Fanout * Power[s - 1]
  <2>1. \A s \in Nat : Body(Power)[s] = IF s = 0 THEN 1 ELSE Fanout * Power[s - 1]
    OBVIOUS
  <2> HIDE DEF Body
  <2> QED
    BY <1>7, <2>1
<1>9. Power = [s \in Nat |-> Power[s]]
  <2>1. Body(Power) = [s \in Nat |-> Body(Power)[s]]
    OBVIOUS
  <2> HIDE DEF Body
  <2> QED
    BY <1>7, <2>1
<1>10. Power[0] = 1 /\ \A s \in Nat : Power[s + 1] = Fanout * Power[s]
  <2>1. ASSUME NEW s \in Nat PROVE s + 1 \in Nat /\ s + 1 # 0 /\ s + 1 - 1 = s
    OBVIOUS
  <2> QED
    BY <1>8, <2>1
<1> DEFINE S == {s \in Nat : Power[s] \in Nat \ {0}}
<1>11. 0 \in S
  BY <1>10
<1>12. ASSUME NEW s \in S PROVE s + 1 \in S
  <2>1. Power[s] \in Nat \ {0} /\ Power[s + 1] = Fanout * Power[s] /\ s + 1 \in Nat
    BY <1>10
  <2>2. Fanout * Power[s] \in Nat \ {0}
    BY <2>1, FanoutFacts
  <2> QED
    BY <2>1, <2>2
<1>13. S = Nat
  <2> HIDE DEF S
  <2>1. S \in SUBSET Nat
    BY DEF S
  <2> QED
    BY <1>11, <1>12, <2>1, Induction
<1>14. \A s \in Nat : Power[s] \in Nat \ {0}
  BY <1>13
<1> QED
  BY <1>9, <1>10, <1>14

-----------------------------------------------------------------------------
(* Division                                                                *)

LEMMA DivFacts ==
  ASSUME NEW a \in Nat, NEW m \in Nat \ {0}
  PROVE  \E q, r \in Nat : q = a \div m /\ r = a % m /\ a = m * q + r /\ r < m
<1> DEFINE q == a \div m
           r == a % m
<1>1. r = a - m * q
  OBVIOUS
<1>2. q \in Nat /\ r \in Nat /\ r < m
  OBVIOUS
<1>5. q = a \div m /\ r = a % m
  OBVIOUS
<1> HIDE DEF q, r
<1>3. m * q \in Nat
  BY <1>2
<1>4. a = m * q + r
  BY <1>1, <1>2, <1>3
<1> QED
  BY <1>2, <1>4, <1>5, Zenon

LEMMA MulMono ==
  ASSUME NEW m \in Nat, NEW p \in Nat, NEW q \in Nat, p < q
  PROVE  m * p + m <= m * q
<1>1. PICK d : d = q - p - 1
  OBVIOUS
<1>4. d \in Nat /\ q = p + 1 + d
  BY <1>1
<1>2. m * q = m * p + m + m * d
  BY <1>4
<1>3. m * d \in Nat /\ m * p \in Nat
  BY <1>4
<1> QED
  BY <1>2, <1>3

LEMMA DivUnique ==
  ASSUME NEW m \in Nat \ {0}, NEW q \in Nat, NEW r \in Nat, r < m, NEW a \in Nat, a = m * q + r
  PROVE  a \div m = q /\ a % m = r
<1>1. PICK p, s \in Nat : p = a \div m /\ s = a % m /\ a = m * p + s /\ s < m
  BY DivFacts
<1>2. m * p \in Nat /\ m * q \in Nat
  BY <1>1
<1>3. ~(p < q)
  <2>1. SUFFICES ASSUME p < q PROVE FALSE
    OBVIOUS
  <2>2. m * p + m <= m * q
    BY <1>1, <2>1, MulMono
  <2> QED
    BY <1>1, <1>2, <2>2
<1>4. ~(q < p)
  <2>1. SUFFICES ASSUME q < p PROVE FALSE
    OBVIOUS
  <2>2. m * q + m <= m * p
    BY <1>1, <2>1, MulMono
  <2> QED
    BY <1>1, <1>2, <2>2
<1>5. p = q
  BY <1>1, <1>3, <1>4
<1>6. s = r
  BY <1>1, <1>2, <1>5
<1> QED
  BY <1>1, <1>5, <1>6

LEMMA DivDiv ==
  ASSUME NEW a \in Nat, NEW m \in Nat \ {0}, NEW b \in Nat \ {0}
  PROVE  a \div (b * m) = (a \div m) \div b
<1>1. PICK q, r \in Nat : q = a \div m /\ r = a % m /\ a = m * q + r /\ r < m
  BY DivFacts
<1>2. PICK p, s \in Nat : p = q \div b /\ s = q % b /\ q = b * p + s /\ s < b
  BY <1>1, DivFacts
<1>3. a = (b * m) * p + (m * s + r)
  <2>1. a = m * q + r /\ q = b * p + s
    BY <1>1, <1>2
  <2>2. m * (b * p + s) = (b * m) * p + m * s
    OBVIOUS
  <2>3. m * s \in Nat /\ (b * m) * p \in Nat
    OBVIOUS
  <2> QED
    BY <2>1, <2>2, <2>3
<1>4. m * s + m <= m * b
  BY <1>2, MulMono
<1>5. m * s + r \in Nat /\ m * s + r < b * m /\ b * m \in Nat \ {0}
  <2>1. m * s \in Nat /\ m * b = b * m /\ b * m \in Nat
    BY <1>2
  <2> QED
    BY <1>1, <1>4, <2>1
<1>6. a \div (b * m) = p
  <2>1. PICK M, R : M = b * m /\ R = m * s + r
    OBVIOUS
  <2>2. M \in Nat \ {0} /\ R \in Nat /\ R < M /\ a = M * p + R
    BY <1>3, <1>5, <2>1
  <2>3. a \div M = p
    BY <2>2, DivUnique
  <2> QED
    BY <2>1, <2>3
<1> QED
  BY <1>1, <1>2, <1>6

\* Of DeletedLife numbers in a row no two have the same remainder.
LEMMA SameRemainder ==
  ASSUME NEW a \in Nat, NEW b \in Nat, NEW d \in Nat \ {0}, a % d = b % d, a < b
  PROVE  a + d <= b
<1>0. PICK p, r \in Nat : p = a \div d /\ r = a % d /\ a = d * p + r /\ r < d
  BY DivFacts
<1>5. PICK q, t \in Nat : q = b \div d /\ t = b % d /\ b = d * q + t /\ t < d
  BY DivFacts
<1>1. a = d * p + r /\ b = d * q + r
  BY <1>0, <1>5
<1>2. d * p \in Nat /\ d * q \in Nat
  BY <1>1
<1>3. p < q
  <2>1. SUFFICES ASSUME ~(p < q) PROVE FALSE
    OBVIOUS
  <2>2. CASE p = q
    BY <1>1, <2>2
  <2>3. CASE q < p
    <3>1. d * q + d <= d * p
      BY <1>1, <2>3, MulMono
    <3> QED
      BY <1>1, <1>2, <3>1
  <2> QED
    BY <1>1, <2>1, <2>2, <2>3
<1>4. d * p + d <= d * q
  BY <1>1, <1>3, MulMono
<1> QED
  BY <1>1, <1>2, <1>4

-----------------------------------------------------------------------------
(* The nibbles of a key                                                    *)

KeyRange == 0 .. Power[Digits] - 1
Slices == 0 .. Fanout - 1
Shifts == 0 .. Digits - 1

\* What is left of a key when the nibbles below shift are dropped.
Top(a, shift) == a \div Power[shift]

LEMMA TopFacts ==
  ASSUME NEW a \in Nat, NEW s \in Nat
  PROVE  /\ Top(a, s) \in Nat /\ Top(a, s + 1) \in Nat
         /\ Slice(a, s) \in Slices
         /\ Top(a, s) = Fanout * Top(a, s + 1) + Slice(a, s)
         /\ Top(a, s + 1) = Top(a, s) \div Fanout
         /\ Slice(a, s) = Top(a, s) % Fanout
         /\ Above(a, s) = Power[s + 1] * Top(a, s + 1)
         /\ Above(a, s) \in Nat /\ Above(a, s) <= a
<1>1. Power[s] \in Nat \ {0} /\ Power[s + 1] \in Nat \ {0} /\ Power[s + 1] = Fanout * Power[s]
  BY PowerFacts
<1>2. Fanout \in Nat \ {0}
  BY FanoutFacts
<1>3. Top(a, s) \in Nat /\ Top(a, s + 1) \in Nat
  BY <1>1, DivFacts DEF Top
<1>4. Top(a, s + 1) = Top(a, s) \div Fanout
  BY <1>1, <1>2, DivDiv DEF Top
<1>5. Slice(a, s) = Top(a, s) % Fanout
  BY DEF Slice, Top
<1>6. /\ Top(a, s) = Fanout * Top(a, s + 1) + Slice(a, s)
      /\ Slice(a, s) \in Nat /\ Slice(a, s) < Fanout
  <2>1. PICK p, q, r : p = Top(a, s) /\ q = Top(a, s + 1) /\ r = Slice(a, s)
    OBVIOUS
  <2>2. PICK q1, r1 \in Nat : q1 = p \div Fanout /\ r1 = p % Fanout /\ p = Fanout * q1 + r1 /\ r1 < Fanout
    BY <1>2, <1>3, <2>1, DivFacts
  <2>3. q1 = q /\ r1 = r
    BY <1>4, <1>5, <2>1, <2>2
  <2> QED
    BY <2>1, <2>2, <2>3
<1>7. Slice(a, s) \in Slices
  BY <1>2, <1>6 DEF Slices
<1>12. PICK m \in Nat \ {0} : m = Power[s + 1]
  BY <1>1
<1>8. PICK q, r \in Nat : q = a \div m /\ r = a % m /\ a = m * q + r /\ r < m
  BY DivFacts
<1>9. Above(a, s) = a - r /\ q = Top(a, s + 1)
  BY <1>8, <1>12 DEF Above, Top
<1>10. m * q \in Nat
  BY <1>8
<1>11. Above(a, s) = m * q /\ Above(a, s) \in Nat /\ Above(a, s) <= a
  BY <1>8, <1>9, <1>10
<1> QED
  BY <1>3, <1>4, <1>5, <1>6, <1>7, <1>9, <1>11, <1>12

\* Two keys share what is above a nibble when they have the same top.
LEMMA AboveTop ==
  ASSUME NEW a \in Nat, NEW b \in Nat, NEW s \in Nat
  PROVE  Above(a, s) = Above(b, s) <=> Top(a, s + 1) = Top(b, s + 1)
<1> DEFINE p == Top(a, s + 1)
           q == Top(b, s + 1)
           m == Power[s + 1]
<1>1. Above(a, s) = m * p /\ Above(b, s) = m * q /\ p \in Nat /\ q \in Nat
  BY TopFacts
<1>2. m \in Nat \ {0}
  BY PowerFacts
<1> HIDE DEF p, q, m
<1>3. p # q => m * p # m * q
  <2>1. m * p \in Nat /\ m * q \in Nat
    BY <1>1, <1>2
  <2>2. CASE p < q
    <3>1. m * p + m <= m * q
      BY <1>1, <1>2, <2>2, MulMono
    <3> QED
      BY <1>2, <2>1, <3>1
  <2>3. CASE q < p
    <3>1. m * q + m <= m * p
      BY <1>1, <1>2, <2>3, MulMono
    <3> QED
      BY <1>2, <2>1, <3>1
  <2> QED
    BY <1>1, <2>2, <2>3
<1> QED
  BY <1>1, <1>3 DEF p, q, m

\* Keys with the same top have the same nibbles above.
LEMMA SameAbove ==
  ASSUME NEW a \in Nat, NEW b \in Nat, NEW s \in Nat, Above(a, s) = Above(b, s)
  PROVE  /\ \A u \in Nat : u >= s => Above(a, u) = Above(b, u)
         /\ \A u \in Nat : u > s => Slice(a, u) = Slice(b, u)
<1> DEFINE S == {d \in Nat : Top(a, s + 1 + d) = Top(b, s + 1 + d)}
<1>1. 0 \in S
  <2>1. s + 1 + 0 = s + 1
    OBVIOUS
  <2> QED
    BY <2>1, AboveTop
<1>2. ASSUME NEW d \in S PROVE d + 1 \in S
  <2>1. s + 1 + (d + 1) = (s + 1 + d) + 1 /\ s + 1 + d \in Nat
    OBVIOUS
  <2>2. /\ Top(a, (s + 1 + d) + 1) = Top(a, s + 1 + d) \div Fanout
        /\ Top(b, (s + 1 + d) + 1) = Top(b, s + 1 + d) \div Fanout
    BY <2>1, TopFacts
  <2> QED
    BY <2>1, <2>2
<1>3. S = Nat
  <2> HIDE DEF S
  <2>1. S \in SUBSET Nat
    BY DEF S
  <2> QED
    BY <1>1, <1>2, <2>1, Induction
<1>4. \A u \in Nat : u > s => Top(a, u) = Top(b, u)
  <2> TAKE u \in Nat
  <2>1. SUFFICES ASSUME u > s PROVE Top(a, u) = Top(b, u)
    OBVIOUS
  <2>2. u - s - 1 \in Nat /\ s + 1 + (u - s - 1) = u
    BY <2>1
  <2>3. u - s - 1 \in S
    BY <1>3, <2>2
  <2> QED
    BY <2>2, <2>3
<1>5. ASSUME NEW u \in Nat, u >= s PROVE Above(a, u) = Above(b, u)
  <2>1. u + 1 \in Nat /\ u + 1 > s
    BY <1>5
  <2> QED
    BY <1>4, <2>1, AboveTop
<1>6. ASSUME NEW u \in Nat, u > s PROVE Slice(a, u) = Slice(b, u)
  <2>1. Top(a, u) = Top(b, u)
    BY <1>4, <1>6
  <2> QED
    BY <2>1, TopFacts
<1> QED
  BY <1>5, <1>6

\* What is above a nibble is its own path.
LEMMA AboveAbove ==
  ASSUME NEW a \in Nat, NEW s \in Nat
  PROVE  Above(a, s) \in Nat /\ Above(Above(a, s), s) = Above(a, s)
<1> DEFINE m == Power[s + 1]
           q == Top(a, s + 1)
           b == Above(a, s)
<1>1. b = m * q /\ q \in Nat /\ b \in Nat
  BY TopFacts
<1>2. m \in Nat \ {0}
  BY PowerFacts
<1>3. Top(b, s + 1) = b \div m
  BY DEF Top
<1> HIDE DEF m, q, b
<1>4. b \div m = q
  <2>1. b = m * q + 0
    <3>1. m * q \in Nat
      BY <1>1, <1>2
    <3> QED
      BY <1>1, <3>1
  <2> QED
    BY <1>1, <1>2, <2>1, DivUnique
<1>5. Above(b, s) = Above(a, s)
  BY <1>1, <1>3, <1>4, AboveTop DEF q
<1> QED
  BY <1>1, <1>5 DEF b

\* util_mssb_index64 finds the topmost nibble in which two keys differ.
LEMMA CriticalShiftFacts ==
  ASSUME NEW a \in KeyRange, NEW b \in KeyRange, a # b
  PROVE  /\ CriticalShift(a, b) \in Shifts
         /\ Slice(a, CriticalShift(a, b)) # Slice(b, CriticalShift(a, b))
         /\ Above(a, CriticalShift(a, b)) = Above(b, CriticalShift(a, b))
<1>1. a \in Nat /\ b \in Nat /\ Digits \in Nat /\ Digits >= 1 /\ Power[Digits] \in Nat \ {0}
      /\ a < Power[Digits] /\ b < Power[Digits]
  BY PowerFacts, FanoutFacts DEF KeyRange
<1>2. Top(a, Digits) = 0 /\ Top(b, Digits) = 0
  <2>1. a = Power[Digits] * 0 + a /\ b = Power[Digits] * 0 + b
    BY <1>1
  <2> QED
    BY <1>1, <2>1, DivUnique DEF Top
<1>3. Top(a, 0) = a /\ Top(b, 0) = b
  BY <1>1, PowerFacts DEF Top
<1>4. PICK s \in Shifts : Top(a, s) # Top(b, s) /\ Top(a, s + 1) = Top(b, s + 1)
  <2>1. SUFFICES ASSUME \A s \in Shifts : Top(a, s + 1) = Top(b, s + 1) => Top(a, s) = Top(b, s)
                 PROVE  FALSE
    OBVIOUS
  <2> DEFINE S == {d \in Nat : d <= Digits => Top(a, Digits - d) = Top(b, Digits - d)}
  <2>2. 0 \in S
    <3>1. Digits - 0 = Digits
      BY <1>1
    <3> QED
      BY <1>2, <3>1
  <2>3. ASSUME NEW d \in S PROVE d + 1 \in S
    <3>1. SUFFICES ASSUME d + 1 <= Digits PROVE Top(a, Digits - (d + 1)) = Top(b, Digits - (d + 1))
      OBVIOUS
    <3>2. Digits - (d + 1) \in Shifts /\ (Digits - (d + 1)) + 1 = Digits - d /\ d <= Digits
      BY <1>1, <3>1 DEF Shifts
    <3> QED
      BY <2>1, <2>3, <3>2
  <2>4. S = Nat
    <3> HIDE DEF S
    <3>1. S \in SUBSET Nat
      BY DEF S
    <3> QED
      BY <2>2, <2>3, <3>1, Induction
  <2>5. Digits \in S /\ Digits - Digits = 0
    BY <1>1, <2>4
  <2> QED
    BY <1>1, <1>3, <2>5
<1>5. s \in Nat
  BY <1>4 DEF Shifts
<1>6. Slice(a, s) # Slice(b, s) /\ Above(a, s) = Above(b, s)
  <2>1. /\ Top(a, s) = Fanout * Top(a, s + 1) + Slice(a, s)
        /\ Top(b, s) = Fanout * Top(b, s + 1) + Slice(b, s)
    BY <1>1, <1>5, TopFacts
  <2> QED
    BY <1>1, <1>4, <1>5, <2>1, AboveTop
<1>7. \E u \in 0 .. Digits - 1 : Slice(a, u) # Slice(b, u) /\ Above(a, u) = Above(b, u)
  BY <1>4, <1>6 DEF Shifts
<1> QED
  BY <1>7 DEF CriticalShift, Shifts

-----------------------------------------------------------------------------
(* The words of the objects                                                *)

Objects == Nodes \union Leaves
AllValues == UNION {Values[key] : key \in Keys}

LEMMA RefFacts ==
  /\ Refs = Objects \union {Null} /\ Nodes \subseteq Objects /\ Leaves \subseteq Objects
  /\ Null \notin Objects /\ Null \notin Nodes /\ Null \notin Leaves
  /\ \A x \in Nodes : x \notin Leaves /\ x[1] = "node"
  /\ \A x \in Leaves : x \notin Nodes /\ x[1] = "leaf"
BY DEF Refs, Objects, Nodes, Leaves, Null

\* The second part of a word tells whose it is.
LEMMA PlaceFacts ==
  /\ Root \in Links /\ Root \in Places /\ Root[2] = Null
  /\ RemoveCount \in Places /\ RemoveCount \notin Links /\ RemoveCount[2] = Null
  /\ Links \subseteq Places
  /\ \A n \in Nodes : \A i \in Slices :
       Child(n, i) \in Links /\ Child(n, i) \in Places /\ Child(n, i)[2] = n /\ Child(n, i)[3] = i
  /\ \A n \in Nodes : /\ Shift(n) \in Places /\ Shift(n) \notin Links /\ Shift(n)[2] = n
                      /\ Path(n) \in Places /\ Path(n) \notin Links /\ Path(n)[2] = n
  /\ \A k \in Leaves : /\ Key(k) \in Places /\ Key(k) \notin Links /\ Key(k)[2] = k
                       /\ Value(k) \in Places /\ Value(k) \notin Links /\ Value(k)[2] = k
  /\ \A p \in Links : p = Root \/ \E n \in Nodes, i \in Slices : p = Child(n, i)
<1>1. Root[2] = Null /\ RemoveCount[2] = Null
  BY DEF Root, RemoveCount
<1>2. Root \in Links /\ Links \subseteq Places /\ RemoveCount \in Places
  BY DEF Links, Places
<1>3. \A n \in Nodes : \A i \in Slices : Child(n, i) \in Links /\ Child(n, i)[2] = n /\ Child(n, i)[3] = i
  BY DEF Links, Slices, Child
<1>4. \A p \in Links : p = Root \/ \E n \in Nodes, i \in Slices : p = Child(n, i)
  BY DEF Links, Slices
<1>5. \A n \in Nodes : Shift(n) \in Places /\ Shift(n)[2] = n /\ Path(n) \in Places /\ Path(n)[2] = n
  BY DEF Places, Shift, Path
<1>6. \A k \in Leaves : Key(k) \in Places /\ Key(k)[2] = k /\ Value(k) \in Places /\ Value(k)[2] = k
  BY DEF Places, Key, Value
<1>7. \A p \in Links : p[1] \in {"root", "child"}
  BY <1>4 DEF Root, Child
<1>8. /\ RemoveCount[1] = "remove_count" /\ \A x : Shift(x)[1] = "shift" /\ Path(x)[1] = "path"
      /\ \A x : Key(x)[1] = "key" /\ Value(x)[1] = "value"
  BY DEF RemoveCount, Shift, Path, Key, Value
<1>9. RemoveCount \notin Links /\ \A x : Shift(x) \notin Links /\ Path(x) \notin Links
                                       /\ Key(x) \notin Links /\ Value(x) \notin Links
  BY <1>7, <1>8
<1> QED
  BY <1>1, <1>2, <1>3, <1>4, <1>5, <1>6, <1>9

LEMMA PlacesApart ==
  /\ \A n \in Nodes : \A i \in Slices : Child(n, i) # Root /\ Child(n, i) # RemoveCount
  /\ \A n \in Nodes : Shift(n) # Path(n) /\ Shift(n) # Root /\ Path(n) # Root
  /\ \A n \in Nodes : Shift(n) # RemoveCount /\ Path(n) # RemoveCount
  /\ \A k \in Leaves : Key(k) # Value(k) /\ Key(k) # Root /\ Value(k) # Root
  /\ \A k \in Leaves : Key(k) # RemoveCount /\ Value(k) # RemoveCount
<1>1. \A n \in Nodes : Shift(n) # Path(n)
  BY DEF Shift, Path
<1>2. \A k \in Leaves : Key(k) # Value(k)
  BY DEF Key, Value
<1> QED
  BY <1>1, <1>2, PlaceFacts, RefFacts

\* The words hold what they are meant for.
Memory(m) ==
  /\ m = [p \in Places |-> m[p]]
  /\ \A p \in Links : m[p] \in Refs
  /\ m[RemoveCount] \in Nat
  /\ \A n \in Nodes : m[Shift(n)] \in Shifts /\ m[Path(n)] \in KeyRange
  /\ \A k \in Leaves : m[Key(k)] \in KeyRange /\ m[Value(k)] \in AllValues \union Leaves \union {Null}

LEMMA ShiftFacts ==
  /\ \A s \in Shifts : s \in Nat /\ s < Digits
  /\ \A key \in KeyRange : key \in Nat /\ key < Power[Digits]
  /\ Keys \subseteq KeyRange
BY FanoutFacts, PowerFacts, CritnibAssumption DEF Shifts, KeyRange

-----------------------------------------------------------------------------
(* Walks                                                                   *)

\* h leads from p by steps outside of T to q.
Leads(S, T, next, p, q, k, h) ==
  /\ h \in [0 .. k -> S] /\ h[0] = p /\ h[k] = q
  /\ \A i \in 0 .. k : i < k => h[i] \notin T /\ h[i + 1] = next[h[i]]
Arrivals(S, T, next, p) == {q \in S : q \in T /\ \E k \in Nat : \E h : Leads(S, T, next, p, q, k, h)}

LEMMA ArrivalsAt ==
  ASSUME NEW S, NEW T, NEW next \in [S -> S], NEW p \in S, p \in T
  PROVE  Arrivals(S, T, next, p) = {p}
<1>1. p \in Arrivals(S, T, next, p)
  <2> DEFINE h == [i \in 0 .. 0 |-> p]
  <2>1. Leads(S, T, next, p, p, 0, h)
    BY DEF Leads
  <2> QED
    BY <2>1 DEF Arrivals
<1>2. ASSUME NEW q \in Arrivals(S, T, next, p) PROVE q = p
  <2>1. PICK k \in Nat : \E h : Leads(S, T, next, p, q, k, h)
    BY <1>2 DEF Arrivals
  <2>2. PICK h : Leads(S, T, next, p, q, k, h)
    BY <2>1
  <2>3. ~(0 < k)
    BY <2>2 DEF Leads
  <2>4. k = 0
    BY <2>3
  <2> QED
    BY <2>2, <2>4 DEF Leads
<1> QED
  BY <1>1, <1>2

LEMMA ArrivalsNext ==
  ASSUME NEW S, NEW T, NEW next \in [S -> S], NEW p \in S, p \notin T
  PROVE  Arrivals(S, T, next, p) = Arrivals(S, T, next, next[p])
<1>1. ASSUME NEW q \in Arrivals(S, T, next, p) PROVE q \in Arrivals(S, T, next, next[p])
  <2>1. PICK k \in Nat : \E h : Leads(S, T, next, p, q, k, h)
    BY <1>1 DEF Arrivals
  <2>2. PICK h : Leads(S, T, next, p, q, k, h)
    BY <2>1
  <2>3. k # 0 /\ q \in T /\ q \in S
    BY <1>1, <2>2 DEF Leads, Arrivals
  <2>4. PICK j \in Nat : k = j + 1
    BY <2>3
  <2> DEFINE g == [i \in 0 .. j |-> h[i + 1]]
  <2>5. h \in [0 .. k -> S] /\ h[0] = p /\ h[k] = q /\ \A i \in 0 .. k : i < k => h[i] \notin T /\ h[i + 1] = next[h[i]]
    BY <2>2 DEF Leads
  <2>6. Leads(S, T, next, next[p], q, j, g)
    <3>1. \A i \in 0 .. j : i + 1 \in 0 .. k /\ (i < j => i + 1 < k)
      BY <2>4
    <3>2. g \in [0 .. j -> S] /\ g[j] = q
      BY <2>4, <2>5, <3>1
    <3>3. g[0] = next[p]
      BY <2>4, <2>5
    <3>4. \A i \in 0 .. j : i < j => g[i] \notin T /\ g[i + 1] = next[g[i]]
      <4> TAKE i \in 0 .. j
      <4>1. SUFFICES ASSUME i < j PROVE g[i] \notin T /\ g[i + 1] = next[g[i]]
        OBVIOUS
      <4>2. i + 1 \in 0 .. j /\ g[i] = h[i + 1] /\ g[i + 1] = h[i + 1 + 1]
        BY <4>1
      <4> QED
        BY <2>5, <3>1, <4>1, <4>2
    <3> HIDE DEF g
    <3> QED
      BY <3>2, <3>3, <3>4 DEF Leads
  <2> QED
    BY <2>3, <2>6 DEF Arrivals
<1>2. ASSUME NEW q \in Arrivals(S, T, next, next[p]) PROVE q \in Arrivals(S, T, next, p)
  <2>1. PICK k \in Nat : \E h : Leads(S, T, next, next[p], q, k, h)
    BY <1>2 DEF Arrivals
  <2>2. PICK h : Leads(S, T, next, next[p], q, k, h)
    BY <2>1
  <2> DEFINE g == [i \in 0 .. k + 1 |-> IF i = 0 THEN p ELSE h[i - 1]]
  <2>3. h \in [0 .. k -> S] /\ h[0] = next[p] /\ h[k] = q /\ \A i \in 0 .. k : i < k => h[i] \notin T /\ h[i + 1] = next[h[i]]
    BY <2>2 DEF Leads
  <2>4. Leads(S, T, next, p, q, k + 1, g)
    <3>1. \A i \in 0 .. k + 1 : i # 0 => i - 1 \in 0 .. k
      OBVIOUS
    <3>2. g \in [0 .. k + 1 -> S]
      BY <2>3, <3>1
    <3>3. g[0] = p /\ g[k + 1] = q
      BY <2>3
    <3>4. \A i \in 0 .. k + 1 : i < k + 1 => g[i] \notin T /\ g[i + 1] = next[g[i]]
      <4> TAKE i \in 0 .. k + 1
      <4>1. SUFFICES ASSUME i < k + 1 PROVE g[i] \notin T /\ g[i + 1] = next[g[i]]
        OBVIOUS
      <4>2. g[i + 1] = h[i]
        BY <4>1
      <4>3. CASE i = 0
        BY <2>3, <4>2, <4>3
      <4>4. CASE i # 0
        <5>1. i - 1 \in 0 .. k /\ i - 1 < k /\ i - 1 + 1 = i /\ g[i] = h[i - 1]
          BY <4>1, <4>4
        <5> QED
          BY <2>3, <4>2, <5>1
      <4> QED
        BY <4>3, <4>4
    <3> HIDE DEF g
    <3> QED
      BY <3>2, <3>3, <3>4 DEF Leads
  <2>5. k + 1 \in Nat
    OBVIOUS
  <2> HIDE DEF g
  <2> QED
    BY <1>2, <2>4, <2>5 DEF Arrivals
<1> QED
  BY <1>1, <1>2

\* A walk that follows next until it is in T, wherever it goes where it never ends.
Follows(S, T, next, f) == f = [p \in S |-> IF p \in T THEN p ELSE f[next[p]]]

LEMMA WalkExists ==
  ASSUME NEW S, NEW T, NEW next \in [S -> S]
  PROVE  \E f : Follows(S, T, next, f)
<1> DEFINE A(p) == Arrivals(S, T, next, p)
           f == [p \in S |-> CHOOSE q : q \in A(p)]
<1>1. ASSUME NEW p \in S PROVE f[p] = IF p \in T THEN p ELSE f[next[p]]
  <2>1. f[p] = CHOOSE q : q \in A(p)
    OBVIOUS
  <2>2. CASE p \in T
    <3>1. A(p) = {p}
      BY <2>2, ArrivalsAt
    <3> HIDE DEF A
    <3>2. (CHOOSE q : q \in A(p)) = p
      BY <3>1
    <3> HIDE DEF f
    <3> QED
      BY <2>1, <2>2, <3>2
  <2>3. CASE p \notin T
    <3>1. A(p) = A(next[p])
      BY <2>3, ArrivalsNext
    <3>2. f[next[p]] = CHOOSE q : q \in A(next[p])
      OBVIOUS
    <3> HIDE DEF A, f
    <3> QED
      BY <2>1, <2>3, <3>1, <3>2
  <2> QED
    BY <2>2, <2>3
<1>2. f = [p \in S |-> f[p]]
  OBVIOUS
<1> HIDE DEF f
<1>3. Follows(S, T, next, f)
  BY <1>1, <1>2 DEF Follows
<1> QED
  BY <1>3

\* The child of the node at p that a walk for key takes.
Onward(m, key, p) == Child(m[p], Slice(key, m[Shift(m[p])]))

LEMMA OnwardFacts ==
  ASSUME NEW m, Memory(m), NEW key \in Nat, NEW p \in Links, m[p] \in Nodes
  PROVE  /\ Onward(m, key, p) \in Links /\ m[Shift(m[p])] \in Shifts /\ m[Shift(m[p])] \in Nat
         /\ Slice(key, m[Shift(m[p])]) \in Slices
<1>1. m[Shift(m[p])] \in Shifts /\ m[Shift(m[p])] \in Nat
  BY ShiftFacts DEF Memory
<1>2. Slice(key, m[Shift(m[p])]) \in Slices
  BY <1>1, TopFacts
<1> QED
  BY <1>1, <1>2, PlaceFacts DEF Onward

\* A walk through the nodes at the links of G.
LEMMA GuidedWalk ==
  ASSUME NEW m, Memory(m), NEW key \in Nat, NEW G, \A p \in G : p \in Links /\ m[p] \in Nodes
  PROVE  \E f : f = [p \in Links |-> IF p \in G THEN f[Onward(m, key, p)] ELSE p]
<1> DEFINE T == Links \ G
           next == [p \in Links |-> IF p \in G THEN Onward(m, key, p) ELSE p]
<1>1. next \in [Links -> Links]
  <2>1. \A p \in Links : p \in G => Onward(m, key, p) \in Links
    BY OnwardFacts
  <2> QED
    BY <2>1
<1>2. PICK f : Follows(Links, T, next, f)
  <2> HIDE DEF T, next
  <2> QED
    BY <1>1, WalkExists
<1>3. \A p \in Links : (IF p \in T THEN p ELSE f[next[p]]) = (IF p \in G THEN f[Onward(m, key, p)] ELSE p)
  OBVIOUS
<1>4. f = [p \in Links |-> IF p \in G THEN f[Onward(m, key, p)] ELSE p]
  <2> HIDE DEF T, next
  <2> QED
    BY <1>2, <1>3 DEF Follows
<1> QED
  BY <1>4

\* EndOfWalk
Walk(m, key) ==
  CHOOSE from : from = [p \in Links |-> IF m[p] \in Nodes THEN from[Child(m[p], Slice(key, m[Shift(m[p])]))] ELSE p]

LEMMA WalkFacts ==
  ASSUME NEW m, Memory(m), NEW key \in Nat
  PROVE  /\ EndOfWalk(m, key) = Walk(m, key)[Root]
         /\ \A p \in Links : Walk(m, key)[p] = IF m[p] \in Nodes THEN Walk(m, key)[Onward(m, key, p)] ELSE p
<1> DEFINE Body(f) == [p \in Links |-> IF m[p] \in Nodes THEN f[Child(m[p], Slice(key, m[Shift(m[p])]))] ELSE p]
           G == {p \in Links : m[p] \in Nodes}
<1>1. EndOfWalk(m, key) = Walk(m, key)[Root]
  BY DEF EndOfWalk, Walk
<1>2. Walk(m, key) = CHOOSE f : f = Body(f)
  BY DEF Walk
<1>3. PICK f : f = [p \in Links |-> IF p \in G THEN f[Onward(m, key, p)] ELSE p]
  <2>1. \A p \in G : p \in Links /\ m[p] \in Nodes
    OBVIOUS
  <2> HIDE DEF G
  <2> QED
    BY <2>1, GuidedWalk
<1>4. \A p \in Links : (IF p \in G THEN f[Onward(m, key, p)] ELSE p) = Body(f)[p]
  BY DEF Onward
<1>5. f = Body(f)
  <2>1. Body(f) = [p \in Links |-> Body(f)[p]]
    OBVIOUS
  <2> HIDE DEF Body, G
  <2> QED
    BY <1>3, <1>4, <2>1
<1>6. Walk(m, key) = Body(Walk(m, key))
  <2> HIDE DEF Body
  <2> QED
    BY <1>2, <1>5
<1>7. PICK w : w = Walk(m, key)
  OBVIOUS
<1>8. \A p \in Links : Body(w)[p] = IF m[p] \in Nodes THEN w[Onward(m, key, p)] ELSE p
  BY DEF Onward
<1>9. w = Body(w)
  <2> HIDE DEF Body
  <2> QED
    BY <1>6, <1>7
<1> HIDE DEF Body
<1>10. \A p \in Links : w[p] = IF m[p] \in Nodes THEN w[Onward(m, key, p)] ELSE p
  BY <1>8, <1>9
<1> QED
  BY <1>1, <1>7, <1>10

-----------------------------------------------------------------------------
(* The tree                                                                *)

TreeLinks(N) == {p \in Links : p = Root \/ p[2] \in N}

PathOf(m, x) == IF x \in Leaves THEN m[Key(x)] ELSE m[Path(x)]

\* What is above the nibble of a node is the same for all keys below it.
Matches(m, key, n) == Above(key, m[Shift(n)]) = m[Path(n)]
Fits(m, n, i, x) ==
  /\ Matches(m, PathOf(m, x), n) /\ Slice(PathOf(m, x), m[Shift(n)]) = i
  /\ x \in Nodes => m[Shift(x)] < m[Shift(n)]

\* The nodes N and the leaves K form the tree below the root.
Tree(m, N, K) ==
  /\ Memory(m) /\ N \subseteq Nodes /\ K \subseteq Leaves
  /\ \A p \in TreeLinks(N) : m[p] \in N \union K \union {Null}
  /\ \A p, q \in TreeLinks(N) : m[p] = m[q] /\ m[p] # Null => p = q
  /\ \A x \in N \union K : \E p \in TreeLinks(N) : m[p] = x
  /\ \A n \in N : Matches(m, m[Path(n)], n)
  /\ \A n \in N : \A i \in Slices : m[Child(n, i)] # Null => Fits(m, n, i, m[Child(n, i)])
  /\ \A k \in K : m[Value(k)] \in AllValues

LEMMA TreeLinkFacts ==
  ASSUME NEW N, N \subseteq Nodes
  PROVE  /\ Root \in TreeLinks(N) /\ TreeLinks(N) \subseteq Links
         /\ \A n \in N : \A i \in Slices : Child(n, i) \in TreeLinks(N)
         /\ \A p \in TreeLinks(N) : p = Root \/ \E n \in N, i \in Slices : p = Child(n, i)
<1>1. Root \in TreeLinks(N) /\ TreeLinks(N) \subseteq Links
  BY PlaceFacts DEF TreeLinks
<1>2. ASSUME NEW n \in N, NEW i \in Slices PROVE Child(n, i) \in TreeLinks(N)
  BY PlaceFacts DEF TreeLinks
<1>3. ASSUME NEW p \in TreeLinks(N), p # Root PROVE \E n \in N, i \in Slices : p = Child(n, i)
  <2>1. p \in Links /\ p[2] \in N
    BY <1>3 DEF TreeLinks
  <2>2. PICK n \in Nodes, i \in Slices : p = Child(n, i)
    BY <1>3, <2>1, PlaceFacts
  <2>3. n \in N
    BY <2>1, <2>2, PlaceFacts
  <2> QED
    BY <2>2, <2>3
<1> QED
  BY <1>1, <1>2, <1>3

LEMMA NodeFacts ==
  ASSUME NEW m, Memory(m)
  PROVE  /\ \A n \in Nodes : /\ m[Shift(n)] \in Shifts /\ m[Shift(n)] \in Nat /\ m[Shift(n)] < Digits
                             /\ m[Path(n)] \in KeyRange /\ m[Path(n)] \in Nat
                             /\ \A key \in Nat : Slice(key, m[Shift(n)]) \in Slices
         /\ \A k \in Leaves : m[Key(k)] \in KeyRange /\ m[Key(k)] \in Nat
         /\ \A x \in Objects : PathOf(m, x) \in KeyRange /\ PathOf(m, x) \in Nat
<1>1. \A n \in Nodes : m[Shift(n)] \in Shifts /\ m[Path(n)] \in KeyRange
  BY DEF Memory
<1>2. \A k \in Leaves : m[Key(k)] \in KeyRange
  BY DEF Memory
<1>3. \A n \in Nodes : m[Shift(n)] \in Nat /\ m[Shift(n)] < Digits /\ m[Path(n)] \in Nat
  BY <1>1, ShiftFacts
<1>4. \A n \in Nodes : \A key \in Nat : Slice(key, m[Shift(n)]) \in Slices
  BY <1>3, TopFacts
<1>5. \A k \in Leaves : m[Key(k)] \in Nat
  BY <1>2, ShiftFacts
<1>6. \A x \in Objects : PathOf(m, x) \in KeyRange
  BY <1>1, <1>2 DEF PathOf, Objects
<1> QED
  BY <1>1, <1>2, <1>3, <1>4, <1>5, <1>6, ShiftFacts

\* A key that matches a node matches the node above it.
LEMMA MatchesAbove ==
  ASSUME NEW m, Memory(m), NEW n \in Nodes, NEW x \in Nodes, NEW i, Fits(m, n, i, x),
         Matches(m, m[Path(x)], x), NEW key \in Nat, Matches(m, key, x)
  PROVE  Matches(m, key, n) /\ Slice(key, m[Shift(n)]) = i /\ m[Shift(x)] < m[Shift(n)]
<1>1. PICK s, u, path : s = m[Shift(x)] /\ u = m[Shift(n)] /\ path = m[Path(x)]
  OBVIOUS
<1>2. s \in Nat /\ u \in Nat /\ path \in Nat
  BY <1>1, NodeFacts
<1>3. PathOf(m, x) = path
  BY <1>1, RefFacts DEF PathOf
<1>4. s < u /\ Above(path, u) = m[Path(n)] /\ Slice(path, u) = i
  BY <1>1, <1>3 DEF Fits, Matches
<1>5. Above(key, s) = Above(path, s)
  BY <1>1 DEF Matches
<1>6. Above(key, u) = Above(path, u) /\ Slice(key, u) = Slice(path, u)
  <2>1. u >= s /\ u > s
    BY <1>2, <1>4
  <2> QED
    BY <1>2, <1>5, <2>1, SameAbove
<1> QED
  BY <1>1, <1>4, <1>6 DEF Matches

\* f follows the walk for key through the nodes at the links of G.
Guided(m, key, G, f) == \A p \in Links : f[p] = IF p \in G THEN f[Onward(m, key, p)] ELSE p

\* A walk comes to every node that matches its key, unless it ends above.
LEMMA WalkComes ==
  ASSUME NEW m, NEW N, NEW K, Tree(m, N, K), NEW key \in Nat, NEW G, NEW f, Guided(m, key, G, f),
         NEW n \in N, Matches(m, key, n), NEW p \in TreeLinks(N), m[p] = n,
         \A q \in TreeLinks(N) :
            m[q] \in N /\ Matches(m, key, m[q]) /\ m[Shift(m[q])] > m[Shift(n)] => q \in G
  PROVE  f[Root] = f[p]
<1> DEFINE S == {d \in Nat :
                   \A x \in N : Matches(m, key, x) /\ m[Shift(x)] >= m[Shift(n)] /\ Digits - m[Shift(x)] <= d
                     => \A q \in TreeLinks(N) : m[q] = x => f[Root] = f[q]}
<1>1. Memory(m) /\ N \subseteq Nodes /\ Digits \in Nat
  BY FanoutFacts DEF Tree
<1>2. \A x \in N : m[Shift(x)] \in Nat /\ m[Shift(x)] < Digits
  BY <1>1, NodeFacts
<1>3. 0 \in S
  BY <1>1, <1>2
<1>4. ASSUME NEW d \in S PROVE d + 1 \in S
  <2>1. SUFFICES ASSUME NEW x \in N, Matches(m, key, x), m[Shift(x)] >= m[Shift(n)],
                        Digits - m[Shift(x)] <= d + 1, NEW q \in TreeLinks(N), m[q] = x
                 PROVE  f[Root] = f[q]
    OBVIOUS
  <2>2. SUFFICES ASSUME q # Root PROVE f[Root] = f[q]
    OBVIOUS
  <2>3. PICK y \in N, i \in Slices : q = Child(y, i)
    BY <1>1, <2>2, TreeLinkFacts
  <2>4. x # Null /\ x \in Nodes /\ y \in Nodes
    BY <1>1, RefFacts
  <2>5. Fits(m, y, i, x) /\ Matches(m, m[Path(x)], x)
    BY <2>1, <2>3, <2>4 DEF Tree
  <2>6. Matches(m, key, y) /\ Slice(key, m[Shift(y)]) = i /\ m[Shift(x)] < m[Shift(y)]
    BY <1>1, <2>1, <2>4, <2>5, MatchesAbove
  <2>7. PICK r \in TreeLinks(N) : m[r] = y
    BY DEF Tree
  <2>8. /\ m[Shift(y)] >= m[Shift(n)] /\ Digits - m[Shift(y)] <= d /\ m[Shift(y)] > m[Shift(n)]
    <3>1. PICK a, b, c : a = m[Shift(x)] /\ b = m[Shift(y)] /\ c = m[Shift(n)]
      OBVIOUS
    <3>2. a \in Nat /\ b \in Nat /\ c \in Nat /\ d \in Nat
      BY <1>2, <1>4, <3>1
    <3>3. a < b /\ a >= c /\ Digits - a <= d + 1
      BY <2>1, <2>6, <3>1
    <3>4. b >= c /\ Digits - b <= d /\ b > c
      BY <1>1, <3>2, <3>3
    <3> QED
      BY <3>1, <3>4
  <2>9. f[Root] = f[r]
    BY <1>4, <2>6, <2>7, <2>8
  <2>10. r \in G /\ r \in Links
    BY <1>1, <2>6, <2>7, <2>8, TreeLinkFacts
  <2>11. f[r] = f[Onward(m, key, r)] /\ Onward(m, key, r) = q
    BY <2>3, <2>6, <2>7, <2>10 DEF Guided, Onward
  <2> QED
    BY <2>9, <2>11
<1>5. S = Nat
  <2> HIDE DEF S
  <2>1. S \in SUBSET Nat
    BY DEF S
  <2> QED
    BY <1>3, <1>4, <2>1, Induction
<1>6. Digits - m[Shift(n)] <= Digits /\ m[Shift(n)] >= m[Shift(n)]
  <2>1. PICK a \in Nat : a = m[Shift(n)]
    BY <1>2
  <2> QED
    BY <1>1, <2>1
<1>7. Digits \in S
  BY <1>1, <1>5
<1> QED
  BY <1>6, <1>7

\* The links a walk for key may come by.
Route(m, N, key) == {Root} \union {Child(n, Slice(key, m[Shift(n)])) : n \in {x \in N : Matches(m, key, x)}}

LEMMA RouteFacts ==
  ASSUME NEW m, NEW N, NEW K, Tree(m, N, K), NEW key \in Nat
  PROVE  /\ Route(m, N, key) \subseteq TreeLinks(N) /\ Root \in Route(m, N, key)
         /\ \A n \in N : Matches(m, key, n) => Child(n, Slice(key, m[Shift(n)])) \in Route(m, N, key)
<1>1. Memory(m) /\ N \subseteq Nodes
  BY DEF Tree
<1>2. ASSUME NEW n \in N PROVE Child(n, Slice(key, m[Shift(n)])) \in TreeLinks(N)
  <2>1. Slice(key, m[Shift(n)]) \in Slices
    BY <1>1, NodeFacts
  <2> QED
    BY <1>1, <2>1, TreeLinkFacts
<1> QED
  BY <1>1, <1>2, TreeLinkFacts DEF Route

\* The link a key is found at: where its leaf is linked the nodes above match.
LEMMA RouteToKey ==
  ASSUME NEW m, NEW N, NEW K, Tree(m, N, K), NEW p \in TreeLinks(N), m[p] # Null
  PROVE  p \in Route(m, N, PathOf(m, m[p]))
<1>1. Memory(m) /\ N \subseteq Nodes /\ m[p] \in Objects
  BY RefFacts DEF Tree, Objects
<1>2. PathOf(m, m[p]) \in Nat
  BY <1>1, NodeFacts
<1>3. CASE p = Root
  BY <1>2, <1>3, RouteFacts
<1>4. CASE p # Root
  <2>1. PICK n \in N, i \in Slices : p = Child(n, i)
    BY <1>1, <1>4, TreeLinkFacts
  <2>2. Fits(m, n, i, m[p])
    BY <2>1 DEF Tree
  <2>3. Matches(m, PathOf(m, m[p]), n) /\ Slice(PathOf(m, m[p]), m[Shift(n)]) = i
    BY <2>2 DEF Fits
  <2> QED
    BY <1>2, <2>1, <2>3, RouteFacts
<1> QED
  BY <1>3, <1>4

LEMMA WalkRoute ==
  ASSUME NEW m, NEW N, NEW K, Tree(m, N, K), NEW key \in Nat, NEW p \in Route(m, N, key)
  PROVE  EndOfWalk(m, key) = Walk(m, key)[p]
<1>1. Memory(m) /\ N \subseteq Nodes
  BY DEF Tree
<1>2. EndOfWalk(m, key) = Walk(m, key)[Root]
  BY <1>1, WalkFacts
<1>3. CASE p = Root
  BY <1>2, <1>3
<1>4. CASE p # Root
  <2>1. PICK n \in N : Matches(m, key, n) /\ p = Child(n, Slice(key, m[Shift(n)]))
    BY <1>4 DEF Route
  <2>2. PICK q \in TreeLinks(N) : m[q] = n
    BY DEF Tree
  <2> DEFINE G == {r \in Links : m[r] \in Nodes}
             f == Walk(m, key)
  <2>3. Guided(m, key, G, f)
    BY <1>1, WalkFacts DEF Guided
  <2>4. \A r \in TreeLinks(N) : m[r] \in N => r \in G
    BY <1>1, TreeLinkFacts
  <2>5. f[q] = f[Onward(m, key, q)]
    BY <1>1, <2>2, <2>3, <2>4, TreeLinkFacts DEF Guided
  <2>6. Onward(m, key, q) = p
    BY <2>1, <2>2 DEF Onward
  <2> HIDE DEF f, G
  <2>7. f[Root] = f[q]
    BY <2>1, <2>2, <2>3, <2>4, WalkComes
  <2> QED
    BY <1>2, <2>5, <2>6, <2>7 DEF f
<1> QED
  BY <1>3, <1>4

\* Below a node a walk ends at a link of the tree without a node, and a leaf it
\* finds there belongs below that node.
LEMMA WalkBelow ==
  ASSUME NEW m, NEW N, NEW K, Tree(m, N, K), NEW key \in Nat, NEW n \in N, NEW i \in Slices
  PROVE  LET e == Walk(m, key)[Child(n, i)]
         IN  /\ e \in TreeLinks(N) /\ m[e] \in K \union {Null}
             /\ m[e] # Null => Matches(m, m[Key(m[e])], n)
<1> DEFINE W == Walk(m, key)
           Ends(x, j) == /\ W[Child(x, j)] \in TreeLinks(N) /\ m[W[Child(x, j)]] \in K \union {Null}
                         /\ m[W[Child(x, j)]] # Null => Matches(m, m[Key(m[W[Child(x, j)]])], x)
           S == {d \in Nat : \A x \in N : m[Shift(x)] <= d => \A j \in Slices : Ends(x, j)}
<1>1. Memory(m) /\ N \subseteq Nodes /\ K \subseteq Leaves /\ Digits \in Nat
  BY FanoutFacts DEF Tree
<1>2. \A x \in N : m[Shift(x)] \in Nat /\ m[Shift(x)] < Digits
  BY <1>1, NodeFacts
<1>3. ASSUME NEW x \in N, NEW j \in Slices,
             m[Child(x, j)] \in N => \A l \in Slices : Ends(m[Child(x, j)], l)
      PROVE  Ends(x, j)
  <2>1. PICK p, y : p = Child(x, j) /\ y = m[p]
    OBVIOUS
  <2>2. p \in TreeLinks(N) /\ p \in Links /\ y \in N \union K \union {Null}
    BY <1>1, <2>1, TreeLinkFacts DEF Tree
  <2>3. W[p] = IF y \in Nodes THEN W[Onward(m, key, p)] ELSE p
    BY <1>1, <2>1, <2>2, WalkFacts
  <2>4. y # Null => Fits(m, x, j, y)
    BY <2>1 DEF Tree
  <2>5. CASE y = Null
    BY <2>1, <2>2, <2>3, <2>5, RefFacts
  <2>6. CASE y \in K
    <3>1. W[p] = p /\ y \in Leaves
      BY <1>1, <2>3, <2>6, RefFacts
    <3>2. Matches(m, m[Key(y)], x)
      BY <2>4, <2>6, <3>1, RefFacts DEF Fits, PathOf
    <3> QED
      BY <2>1, <2>2, <2>6, <3>1, <3>2
  <2>7. CASE y \in N
    <3>1. PICK l \in Slices : Onward(m, key, p) = Child(y, l)
      BY <1>1, <2>1, <2>7, NodeFacts DEF Onward
    <3>2. W[p] = W[Child(y, l)] /\ Ends(y, l)
      <4>1. W[p] = W[Child(y, l)]
        BY <1>1, <2>3, <2>7, <3>1
      <4>2. m[Child(x, j)] = y
        BY <2>1
      <4> HIDE DEF Ends
      <4> QED
        BY <1>3, <2>7, <4>1, <4>2
    <3>3. PICK e : e = W[p]
      OBVIOUS
    <3>4. e \in TreeLinks(N) /\ m[e] \in K \union {Null} /\ (m[e] # Null => Matches(m, m[Key(m[e])], y))
      BY <3>2, <3>3
    <3>5. m[e] # Null => Matches(m, m[Key(m[e])], x)
      <4>1. SUFFICES ASSUME m[e] # Null PROVE Matches(m, m[Key(m[e])], x)
        OBVIOUS
      <4>2. m[Key(m[e])] \in Nat
        BY <1>1, <3>4, <4>1, NodeFacts
      <4>3. Fits(m, x, j, y) /\ Matches(m, m[Path(y)], y)
        BY <1>1, <2>4, <2>7, RefFacts DEF Tree
      <4> QED
        BY <1>1, <2>7, <3>4, <4>1, <4>2, <4>3, MatchesAbove
    <3> HIDE DEF W
    <3> QED
      BY <2>1, <3>3, <3>4, <3>5
  <2> QED
    BY <2>2, <2>5, <2>6, <2>7
<1>4. ASSUME NEW x \in N, NEW j \in Slices, m[Child(x, j)] \in N
      PROVE  m[Shift(m[Child(x, j)])] < m[Shift(x)]
  <2>1. m[Child(x, j)] # Null /\ m[Child(x, j)] \in Nodes
    BY <1>1, <1>4, RefFacts
  <2>2. Fits(m, x, j, m[Child(x, j)])
    BY <2>1 DEF Tree
  <2> QED
    BY <2>1, <2>2 DEF Fits
<1> HIDE DEF Ends
<1>5. 0 \in S
  <2>1. SUFFICES ASSUME NEW x \in N, m[Shift(x)] <= 0, NEW j \in Slices PROVE Ends(x, j)
    OBVIOUS
  <2>2. m[Child(x, j)] \notin N
    <3>1. SUFFICES ASSUME m[Child(x, j)] \in N PROVE FALSE
      OBVIOUS
    <3>2. PICK a, b : a = m[Shift(m[Child(x, j)])] /\ b = m[Shift(x)]
      OBVIOUS
    <3>3. a < b /\ a \in Nat /\ b \in Nat /\ b <= 0
      BY <1>2, <1>4, <2>1, <3>1, <3>2
    <3> QED
      BY <3>3
  <2> QED
    BY <1>3, <2>2
<1>6. ASSUME NEW d \in S PROVE d + 1 \in S
  <2>1. SUFFICES ASSUME NEW x \in N, m[Shift(x)] <= d + 1, NEW j \in Slices PROVE Ends(x, j)
    OBVIOUS
  <2>2. ASSUME m[Child(x, j)] \in N, NEW l \in Slices PROVE Ends(m[Child(x, j)], l)
    <3>1. PICK a, b : a = m[Shift(m[Child(x, j)])] /\ b = m[Shift(x)]
      OBVIOUS
    <3>2. a < b /\ a \in Nat /\ b \in Nat /\ b <= d + 1 /\ d \in Nat
      BY <1>2, <1>4, <1>6, <2>1, <2>2, <3>1
    <3>3. a <= d
      BY <3>2
    <3> QED
      BY <1>6, <2>2, <3>1, <3>3
  <2> QED
    BY <1>3, <2>2
<1>7. S = Nat
  <2> HIDE DEF S
  <2>1. S \in SUBSET Nat
    BY DEF S
  <2> QED
    BY <1>5, <1>6, <2>1, Induction
<1>8. Digits \in S /\ m[Shift(n)] <= Digits
  BY <1>1, <1>2, <1>7
<1>9. Ends(n, i)
  BY <1>8
<1> QED
  BY <1>9 DEF Ends

LEMMA WalkEnds ==
  ASSUME NEW m, NEW N, NEW K, Tree(m, N, K), NEW key \in Nat
  PROVE  EndOfWalk(m, key) \in TreeLinks(N) /\ m[EndOfWalk(m, key)] \in K \union {Null}
<1>1. Memory(m) /\ N \subseteq Nodes /\ K \subseteq Leaves
  BY DEF Tree
<1>2. Root \in TreeLinks(N) /\ Root \in Links /\ m[Root] \in N \union K \union {Null}
  BY <1>1, TreeLinkFacts DEF Tree
<1>3. EndOfWalk(m, key) = IF m[Root] \in Nodes THEN Walk(m, key)[Onward(m, key, Root)] ELSE Root
  BY <1>1, <1>2, WalkFacts
<1>4. CASE m[Root] \in N
  <2>1. PICK i \in Slices : Onward(m, key, Root) = Child(m[Root], i)
    BY <1>1, <1>4, NodeFacts DEF Onward
  <2>2. PICK n \in N : n = m[Root]
    BY <1>4
  <2>3. EndOfWalk(m, key) = Walk(m, key)[Child(n, i)]
    BY <1>1, <1>3, <2>1, <2>2
  <2>4. Walk(m, key)[Child(n, i)] \in TreeLinks(N) /\ m[Walk(m, key)[Child(n, i)]] \in K \union {Null}
    BY WalkBelow
  <2> QED
    BY <2>3, <2>4
<1>5. CASE m[Root] \notin N
  <2>1. m[Root] \notin Nodes
    BY <1>1, <1>2, <1>5, RefFacts
  <2> QED
    BY <1>2, <1>3, <1>5, <2>1
<1> QED
  BY <1>4, <1>5

\* A key is found at the link of its leaf.
LEMMA KeyAt ==
  ASSUME NEW m, NEW N, NEW K, Tree(m, N, K), NEW k \in K, NEW p \in TreeLinks(N), m[p] = k
  PROVE  EndOfWalk(m, m[Key(k)]) = p
<1>1. Memory(m) /\ N \subseteq Nodes /\ k \in Leaves /\ k # Null /\ k \notin Nodes
  BY RefFacts DEF Tree
<1>2. PICK key \in Nat : key = m[Key(k)]
  BY <1>1, NodeFacts
<1>3. PathOf(m, k) = key
  BY <1>1, <1>2 DEF PathOf
<1>4. p \in Route(m, N, key)
  BY <1>1, <1>3, RouteToKey
<1>5. EndOfWalk(m, key) = Walk(m, key)[p]
  BY <1>4, WalkRoute
<1>6. p \in Links
  BY <1>1, TreeLinkFacts
<1>7. Walk(m, key)[p] = p
  BY <1>1, <1>6, WalkFacts
<1> QED
  BY <1>2, <1>5, <1>7

LEMMA LookupFacts ==
  ASSUME NEW m, NEW N, NEW K, Tree(m, N, K), NEW key \in Nat
  PROVE  /\ \A k \in K : m[Key(k)] = key => /\ m[EndOfWalk(m, key)] = k
                                            /\ Lookup(m, key) = m[Value(k)] /\ Lookup(m, key) \in AllValues
         /\ (\A k \in K : m[Key(k)] # key) => Lookup(m, key) = Null
<1>1. K \subseteq Leaves
  BY DEF Tree
<1>2. Lookup(m, key) = LET k == m[EndOfWalk(m, key)]
                       IN  IF k \in Leaves /\ m[Key(k)] = key THEN m[Value(k)] ELSE Null
  BY DEF Lookup
<1>3. ASSUME NEW k \in K, m[Key(k)] = key PROVE m[EndOfWalk(m, key)] = k
  <2>1. PICK p \in TreeLinks(N) : m[p] = k
    BY DEF Tree
  <2>2. EndOfWalk(m, m[Key(k)]) = p
    BY <2>1, KeyAt
  <2> QED
    BY <1>3, <2>1, <2>2
<1>4. ASSUME NEW k \in K, m[Key(k)] = key PROVE Lookup(m, key) = m[Value(k)] /\ m[Value(k)] \in AllValues
  <2>1. m[EndOfWalk(m, key)] = k
    BY <1>3, <1>4
  <2> QED
    BY <1>1, <1>2, <1>4, <2>1 DEF Tree
<1>5. ASSUME \A k \in K : m[Key(k)] # key PROVE Lookup(m, key) = Null
  <2>1. m[EndOfWalk(m, key)] \in K \union {Null}
    BY WalkEnds
  <2>2. m[EndOfWalk(m, key)] \notin K => m[EndOfWalk(m, key)] \notin Leaves
    BY <2>1, RefFacts
  <2> QED
    BY <1>2, <1>5, <2>2
<1> QED
  BY <1>3, <1>4, <1>5

LEMMA OneLeaf ==
  ASSUME NEW m, NEW N, NEW K, Tree(m, N, K), NEW k \in K, NEW l \in K, m[Key(k)] = m[Key(l)]
  PROVE  k = l
<1>1. PICK key \in Nat : key = m[Key(k)]
  BY NodeFacts DEF Tree
<1>2. m[EndOfWalk(m, key)] = k /\ m[EndOfWalk(m, key)] = l
  BY <1>1, LookupFacts
<1> QED
  BY <1>2

LEMMA ContentFacts ==
  ASSUME NEW m, NEW N, NEW K, Tree(m, N, K)
  PROVE  /\ Content(m) = [key \in Keys |-> Content(m)[key]]
         /\ \A key \in Keys : /\ Content(m)[key] = Lookup(m, key) /\ key \in Nat
                              /\ Content(m)[key] \in AllValues \union {Null}
<1>1. Content(m) = [key \in Keys |-> Lookup(m, key)]
  BY DEF Content
<1>2. ASSUME NEW key \in Keys PROVE key \in Nat /\ Lookup(m, key) \in AllValues \union {Null}
  <2>1. key \in Nat
    BY ShiftFacts
  <2>2. CASE \E k \in K : m[Key(k)] = key
    BY <2>1, <2>2, LookupFacts
  <2>3. CASE ~\E k \in K : m[Key(k)] = key
    BY <2>1, <2>3, LookupFacts
  <2> QED
    BY <2>1, <2>2, <2>3
<1> QED
  BY <1>1, <1>2

\* The same leaves with the same keys and values mean the same.
LEMMA SameContent ==
  ASSUME NEW m, NEW N, NEW K, Tree(m, N, K), NEW m2, NEW N2, Tree(m2, N2, K),
         \A k \in K : m2[Key(k)] = m[Key(k)] /\ m2[Value(k)] = m[Value(k)]
  PROVE  Content(m2) = Content(m)
<1>1. ASSUME NEW key \in Nat PROVE Lookup(m2, key) = Lookup(m, key)
  <2>1. CASE \E k \in K : m[Key(k)] = key
    BY <2>1, LookupFacts
  <2>2. CASE ~\E k \in K : m[Key(k)] = key
    BY <2>2, LookupFacts
  <2> QED
    BY <2>1, <2>2
<1>2. \A key \in Keys : key \in Nat
  BY ShiftFacts
<1> QED
  BY <1>1, <1>2 DEF Content

\* One leaf more has its value for its key.
LEMMA LeafAdded ==
  ASSUME NEW m, NEW N, NEW K, Tree(m, N, K), NEW m2, NEW N2, NEW k, k \notin K,
         Tree(m2, N2, K \union {k}), \A l \in K : m2[Key(l)] = m[Key(l)] /\ m2[Value(l)] = m[Value(l)]
  PROVE  /\ m2[Key(k)] \in Nat /\ m2[Value(k)] \in AllValues
         /\ Lookup(m, m2[Key(k)]) = Null
         /\ Content(m2) = [Content(m) EXCEPT ![m2[Key(k)]] = m2[Value(k)]]
<1>1. PICK new \in Nat : new = m2[Key(k)]
  <2>1. Memory(m2) /\ k \in Leaves
    BY DEF Tree
  <2> QED
    BY <2>1, NodeFacts
<1>2. \A l \in K : m[Key(l)] # new
  <2> TAKE l \in K
  <2>1. SUFFICES ASSUME m[Key(l)] = new PROVE FALSE
    OBVIOUS
  <2>2. m2[Key(l)] = m2[Key(k)]
    BY <1>1, <2>1
  <2>3. l = k
    BY <2>2, OneLeaf
  <2> QED
    BY <2>3
<1>3. Lookup(m, new) = Null
  BY <1>2, LookupFacts
<1>4. Lookup(m2, new) = m2[Value(k)] /\ m2[Value(k)] \in AllValues
  BY <1>1, LookupFacts
<1>5. ASSUME NEW key \in Nat, key # new PROVE Lookup(m2, key) = Lookup(m, key)
  <2>1. CASE \E l \in K : m[Key(l)] = key
    BY <2>1, LookupFacts
  <2>2. CASE ~\E l \in K : m[Key(l)] = key
    <3>1. \A l \in K \union {k} : m2[Key(l)] # key
      BY <1>1, <1>5, <2>2
    <3>2. Lookup(m2, key) = Null
      BY <3>1, LookupFacts
    <3>3. Lookup(m, key) = Null
      BY <2>2, LookupFacts
    <3> QED
      BY <3>2, <3>3
  <2> QED
    BY <2>1, <2>2
<1>6. \A key \in Keys : key \in Nat
  BY ShiftFacts
<1> QED
  BY <1>1, <1>3, <1>4, <1>5, <1>6 DEF Content

\* One leaf less leaves its key without a value.
LEMMA LeafTaken ==
  ASSUME NEW m, NEW N, NEW K, Tree(m, N, K), NEW m2, NEW N2, NEW k \in K,
         Tree(m2, N2, K \ {k}), \A l \in K : m2[Key(l)] = m[Key(l)] /\ m2[Value(l)] = m[Value(l)]
  PROVE  /\ m[Key(k)] \in Nat /\ Lookup(m, m[Key(k)]) = m[Value(k)] /\ m[Value(k)] \in AllValues
         /\ Content(m2) = [Content(m) EXCEPT ![m[Key(k)]] = Null]
<1>1. PICK old \in Nat : old = m[Key(k)]
  BY NodeFacts DEF Tree
<1>2. Lookup(m, old) = m[Value(k)] /\ m[Value(k)] \in AllValues
  BY <1>1, LookupFacts
<1>3. Lookup(m2, old) = Null
  <2>1. \A l \in K \ {k} : m2[Key(l)] # old
    BY <1>1, OneLeaf
  <2> QED
    BY <2>1, LookupFacts
<1>4. ASSUME NEW key \in Nat, key # old PROVE Lookup(m2, key) = Lookup(m, key)
  <2>1. CASE \E l \in K : m[Key(l)] = key
    <3>1. PICK l \in K \ {k} : m[Key(l)] = key
      BY <1>1, <1>4, <2>1
    <3>2. Lookup(m2, key) = m2[Value(l)]
      BY <3>1, LookupFacts
    <3>3. Lookup(m, key) = m[Value(l)]
      BY <3>1, LookupFacts
    <3> QED
      BY <3>2, <3>3
  <2>2. CASE ~\E l \in K : m[Key(l)] = key
    <3>1. \A l \in K \ {k} : m2[Key(l)] # key
      BY <2>2
    <3>2. Lookup(m2, key) = Null
      BY <3>1, LookupFacts
    <3>3. Lookup(m, key) = Null
      BY <2>2, LookupFacts
    <3> QED
      BY <3>2, <3>3
  <2> QED
    BY <2>1, <2>2
<1>5. \A key \in Keys : key \in Nat
  BY ShiftFacts
<1> QED
  BY <1>1, <1>2, <1>3, <1>4, <1>5 DEF Content

-----------------------------------------------------------------------------
(* The descents of insertions and removals                                 *)

\* The walk of critnib_insert
Descent(m, key) ==
  CHOOSE from : from = [p \in Links |->
                          IF m[p] \in Nodes /\ m[Path(m[p])] = Above(key, m[Shift(m[p])])
                          THEN from[Child(m[p], Slice(key, m[Shift(m[p])]))] ELSE p]
\* The walk of critnib_remove to the link of n
Search(m, n, key) ==
  CHOOSE from : from = [p \in Links |->
                          IF m[p] \in Nodes \ {n} THEN from[Child(m[p], Slice(key, m[Shift(m[p])]))] ELSE p]

Shared(m, key) == {p \in Links : m[p] \in Nodes /\ Matches(m, key, m[p])}
Others(m, n) == {p \in Links : m[p] \in Nodes \ {n}}

LEMMA DescentFacts ==
  ASSUME NEW m, Memory(m), NEW key \in Nat
  PROVE  Guided(m, key, Shared(m, key), Descent(m, key))
<1> DEFINE Body(f) == [p \in Links |->
                         IF m[p] \in Nodes /\ m[Path(m[p])] = Above(key, m[Shift(m[p])])
                         THEN f[Child(m[p], Slice(key, m[Shift(m[p])]))] ELSE p]
<1>2. Descent(m, key) = CHOOSE f : f = Body(f)
  BY DEF Descent
<1>3. PICK f : f = [p \in Links |-> IF p \in Shared(m, key) THEN f[Onward(m, key, p)] ELSE p]
  <2>1. \A p \in Shared(m, key) : p \in Links /\ m[p] \in Nodes
    BY DEF Shared
  <2>2. PICK G : G = Shared(m, key)
    OBVIOUS
  <2> QED
    BY <2>1, <2>2, GuidedWalk
<1>4. \A w : \A p \in Links : (IF p \in Shared(m, key) THEN w[Onward(m, key, p)] ELSE p) = Body(w)[p]
  BY DEF Onward, Shared, Matches
<1>5. f = Body(f)
  <2>1. Body(f) = [p \in Links |-> Body(f)[p]]
    OBVIOUS
  <2> HIDE DEF Body
  <2> QED
    BY <1>3, <1>4, <2>1
<1>6. Descent(m, key) = Body(Descent(m, key))
  <2> HIDE DEF Body
  <2> QED
    BY <1>2, <1>5
<1>7. PICK w : w = Descent(m, key)
  OBVIOUS
<1>9. w = Body(w)
  <2> HIDE DEF Body
  <2> QED
    BY <1>6, <1>7
<1> HIDE DEF Body
<1>10. \A p \in Links : w[p] = IF p \in Shared(m, key) THEN w[Onward(m, key, p)] ELSE p
  BY <1>4, <1>9
<1> QED
  BY <1>7, <1>10 DEF Guided

LEMMA SearchFacts ==
  ASSUME NEW m, Memory(m), NEW key \in Nat, NEW n
  PROVE  Guided(m, key, Others(m, n), Search(m, n, key))
<1> DEFINE Body(f) == [p \in Links |->
                         IF m[p] \in Nodes \ {n} THEN f[Child(m[p], Slice(key, m[Shift(m[p])]))] ELSE p]
<1>2. Search(m, n, key) = CHOOSE f : f = Body(f)
  BY DEF Search
<1>3. PICK f : f = [p \in Links |-> IF p \in Others(m, n) THEN f[Onward(m, key, p)] ELSE p]
  <2>1. \A p \in Others(m, n) : p \in Links /\ m[p] \in Nodes
    BY DEF Others
  <2>2. PICK G : G = Others(m, n)
    OBVIOUS
  <2> QED
    BY <2>1, <2>2, GuidedWalk
<1>4. \A w : \A p \in Links : (IF p \in Others(m, n) THEN w[Onward(m, key, p)] ELSE p) = Body(w)[p]
  BY DEF Onward, Others
<1>5. f = Body(f)
  <2>1. Body(f) = [p \in Links |-> Body(f)[p]]
    OBVIOUS
  <2> HIDE DEF Body
  <2> QED
    BY <1>3, <1>4, <2>1
<1>6. Search(m, n, key) = Body(Search(m, n, key))
  <2> HIDE DEF Body
  <2> QED
    BY <1>2, <1>5
<1>7. PICK w : w = Search(m, n, key)
  OBVIOUS
<1>9. w = Body(w)
  <2> HIDE DEF Body
  <2> QED
    BY <1>6, <1>7
<1> HIDE DEF Body
<1>10. \A p \in Links : w[p] = IF p \in Others(m, n) THEN w[Onward(m, key, p)] ELSE p
  BY <1>4, <1>9
<1> QED
  BY <1>7, <1>10 DEF Guided

\* A descent for an insertion ends on the route of its key, at no node that matches.
LEMMA DescentEnds ==
  ASSUME NEW m, NEW N, NEW K, Tree(m, N, K), NEW key \in Nat
  PROVE  Descent(m, key)[Root] \in Route(m, N, key) /\ Descent(m, key)[Root] \notin Shared(m, key)
<1> DEFINE W == Descent(m, key)
           Ends(p) == W[p] \in Route(m, N, key) /\ W[p] \notin Shared(m, key)
           S == {d \in Nat : \A x \in N : Matches(m, key, x) /\ m[Shift(x)] <= d
                               => Ends(Child(x, Slice(key, m[Shift(x)])))}
<1>1. Memory(m) /\ N \subseteq Nodes /\ K \subseteq Leaves /\ Digits \in Nat
  BY FanoutFacts DEF Tree
<1>2. \A x \in N : m[Shift(x)] \in Nat /\ m[Shift(x)] < Digits
  BY <1>1, NodeFacts
<1>9. Route(m, N, key) \subseteq TreeLinks(N) /\ TreeLinks(N) \subseteq Links
  BY <1>1, RouteFacts, TreeLinkFacts
<1>3. ASSUME NEW p \in Route(m, N, key),
             m[p] \in N /\ Matches(m, key, m[p]) => Ends(Child(m[p], Slice(key, m[Shift(m[p])])))
      PROVE  Ends(p)
  <2>1. p \in Links /\ m[p] \in N \union K \union {Null}
    BY <1>9 DEF Tree
  <2>2. W[p] = IF p \in Shared(m, key) THEN W[Onward(m, key, p)] ELSE p
    BY <1>1, <2>1, DescentFacts DEF Guided
  <2>3. CASE p \in Shared(m, key)
    <3>1. m[p] \in N /\ Matches(m, key, m[p])
      BY <1>1, <2>1, <2>3, RefFacts DEF Shared
    <3>2. Ends(Onward(m, key, p))
      BY <1>3, <3>1 DEF Onward
    <3> HIDE DEF W
    <3> QED
      BY <2>2, <2>3, <3>2
  <2>4. CASE p \notin Shared(m, key)
    BY <2>2, <2>4
  <2> QED
    BY <2>3, <2>4
<1>4. ASSUME NEW x \in N, Matches(m, key, x), NEW p, p = Child(x, Slice(key, m[Shift(x)])), m[p] \in N
      PROVE  p \in Route(m, N, key) /\ m[Shift(m[p])] < m[Shift(x)]
  <2>1. p \in Route(m, N, key)
    BY <1>4, RouteFacts
  <2>2. Slice(key, m[Shift(x)]) \in Slices
    BY <1>1, NodeFacts
  <2>3. m[p] # Null /\ m[p] \in Nodes
    BY <1>1, <1>4, RefFacts
  <2>4. Fits(m, x, Slice(key, m[Shift(x)]), m[p])
    BY <1>4, <2>2, <2>3 DEF Tree
  <2> QED
    BY <2>1, <2>3, <2>4 DEF Fits
<1>5. ASSUME NEW d \in Nat, NEW x \in N, Matches(m, key, x), m[Shift(x)] <= d,
             \A y \in N : Matches(m, key, y) /\ m[Shift(y)] < d => Ends(Child(y, Slice(key, m[Shift(y)])))
      PROVE  Ends(Child(x, Slice(key, m[Shift(x)])))
  <2>1. PICK p : p = Child(x, Slice(key, m[Shift(x)]))
    OBVIOUS
  <2>2. p \in Route(m, N, key)
    BY <1>5, <2>1, RouteFacts
  <2> HIDE DEF Ends
  <2>3. m[p] \in N /\ Matches(m, key, m[p]) => Ends(Child(m[p], Slice(key, m[Shift(m[p])])))
    <3>1. SUFFICES ASSUME m[p] \in N, Matches(m, key, m[p]) PROVE m[Shift(m[p])] < d
      BY <1>5
    <3>2. PICK a, b : a = m[Shift(m[p])] /\ b = m[Shift(x)]
      OBVIOUS
    <3>3. a < b /\ a \in Nat /\ b \in Nat /\ b <= d
      BY <1>2, <1>4, <1>5, <2>1, <3>1, <3>2
    <3> QED
      BY <3>2, <3>3
  <2> QED
    BY <1>3, <2>1, <2>2, <2>3
<1> HIDE DEF Ends
<1>6. 0 \in S
  <2>1. SUFFICES ASSUME NEW x \in N, Matches(m, key, x), m[Shift(x)] <= 0 PROVE Ends(Child(x, Slice(key, m[Shift(x)])))
    OBVIOUS
  <2>2. \A y \in N : ~(m[Shift(y)] < 0)
    BY <1>2
  <2> QED
    BY <1>5, <2>1, <2>2
<1>7. ASSUME NEW d \in S PROVE d + 1 \in S
  <2>1. SUFFICES ASSUME NEW x \in N, Matches(m, key, x), m[Shift(x)] <= d + 1 PROVE Ends(Child(x, Slice(key, m[Shift(x)])))
    OBVIOUS
  <2>2. \A y \in N : m[Shift(y)] < d + 1 => m[Shift(y)] <= d
    BY <1>2
  <2>3. d + 1 \in Nat
    OBVIOUS
  <2> QED
    BY <1>5, <1>7, <2>1, <2>2, <2>3
<1>8. S = Nat
  <2> HIDE DEF S
  <2>1. S \in SUBSET Nat
    BY DEF S
  <2> QED
    BY <1>6, <1>7, <2>1, Induction
<1>10. \A x \in N : m[Shift(x)] <= Digits
  BY <1>1, <1>2
<1>11. Digits \in S
  BY <1>1, <1>8
<1>12. \A x \in N : Matches(m, key, x) => Ends(Child(x, Slice(key, m[Shift(x)])))
  BY <1>10, <1>11
<1>13. Root \in Route(m, N, key)
  BY RouteFacts
<1>14. Ends(Root)
  BY <1>3, <1>12, <1>13
<1> QED
  BY <1>14 DEF Ends

\* A removal comes to the link of the node above its leaf.
LEMMA SearchEnds ==
  ASSUME NEW m, NEW N, NEW K, Tree(m, N, K), NEW key \in Nat, NEW n \in N, Matches(m, key, n),
         NEW p \in TreeLinks(N), m[p] = n
  PROVE  Search(m, n, key)[Root] = p
<1>1. Memory(m) /\ N \subseteq Nodes
  BY DEF Tree
<1>2. PICK f, G : f = Search(m, n, key) /\ G = Others(m, n)
  OBVIOUS
<1>3. Guided(m, key, G, f)
  BY <1>1, <1>2, SearchFacts
<1>4. \A q \in TreeLinks(N) : m[q] \in N /\ Matches(m, key, m[q]) /\ m[Shift(m[q])] > m[Shift(n)] => q \in G
  <2> TAKE q \in TreeLinks(N)
  <2>1. SUFFICES ASSUME m[q] \in N, m[Shift(m[q])] > m[Shift(n)] PROVE q \in G
    OBVIOUS
  <2>2. PICK a : a = m[Shift(n)]
    OBVIOUS
  <2>3. a \in Nat /\ ~(a > a)
    BY <1>1, <2>2, NodeFacts
  <2>4. m[q] # n /\ m[q] \in Nodes /\ q \in Links
    BY <1>1, <2>1, <2>2, <2>3, TreeLinkFacts
  <2> QED
    BY <1>2, <2>4 DEF Others
<1>5. f[Root] = f[p]
  BY <1>3, <1>4, WalkComes
<1>6. f[p] = p
  <2>1. p \in Links /\ p \notin G
    BY <1>1, <1>2, TreeLinkFacts DEF Others
  <2> QED
    BY <1>3, <2>1 DEF Guided
<1> QED
  BY <1>2, <1>5, <1>6

LEMMA PointFacts ==
  ASSUME NEW key
  PROVE  InsertionPoint(key) = Descent(mem, key)[Root] /\ \A n : LinkOf(n, key) = Search(mem, n, key)[Root]
BY DEF InsertionPoint, LinkOf, Descent, Search

-----------------------------------------------------------------------------
(* What a walk finds from where it is                                      *)

\* From x a walk for key ends with one of the values in possible.
Fine(m, key, possible, x) ==
  /\ x = Null => Null \in possible
  /\ x \in Leaves => (IF m[Key(x)] = key THEN m[Value(x)] ELSE Null) \in possible
  /\ x \in Nodes /\ ~Matches(m, key, x) => Null \in possible

\* On the route of its key a walk finds what the key means.
LEMMA RouteFine ==
  ASSUME NEW m, NEW N, NEW K, Tree(m, N, K), NEW key \in Nat, NEW p \in Route(m, N, key),
         NEW possible, Lookup(m, key) \in possible
  PROVE  Fine(m, key, possible, m[p])
<1>1. Memory(m) /\ N \subseteq Nodes /\ K \subseteq Leaves
  BY DEF Tree
<1>2. p \in TreeLinks(N) /\ p \in Links /\ m[p] \in N \union K \union {Null}
  BY <1>1, RouteFacts, TreeLinkFacts DEF Tree
<1>3. EndOfWalk(m, key) = Walk(m, key)[p]
  BY WalkRoute
<1>4. Walk(m, key)[p] = IF m[p] \in Nodes THEN Walk(m, key)[Onward(m, key, p)] ELSE p
  BY <1>1, <1>2, WalkFacts
<1>5. Lookup(m, key) = IF m[EndOfWalk(m, key)] \in Leaves /\ m[Key(m[EndOfWalk(m, key)])] = key
                       THEN m[Value(m[EndOfWalk(m, key)])] ELSE Null
  BY DEF Lookup
<1>6. CASE m[p] \notin Nodes
  <2>1. EndOfWalk(m, key) = p
    BY <1>3, <1>4, <1>6
  <2>2. m[p] \in Leaves \/ m[p] = Null
    BY <1>1, <1>2, <1>6
  <2> QED
    BY <1>5, <1>6, <2>1, <2>2, RefFacts DEF Fine
<1>7. CASE m[p] \in Nodes
  <2>1. SUFFICES ASSUME ~Matches(m, key, m[p]) PROVE Lookup(m, key) = Null
    BY <1>7, RefFacts DEF Fine
  <2>2. PICK n \in N : n = m[p]
    BY <1>1, <1>2, <1>7, RefFacts
  <2>3. PICK i \in Slices : Onward(m, key, p) = Child(n, i)
    BY <1>1, <2>2, NodeFacts DEF Onward
  <2>4. PICK e : e = Walk(m, key)[Child(n, i)]
    OBVIOUS
  <2>5. e \in TreeLinks(N) /\ m[e] \in K \union {Null} /\ (m[e] # Null => Matches(m, m[Key(m[e])], n))
    BY <2>4, WalkBelow
  <2>6. EndOfWalk(m, key) = e
    BY <1>3, <1>4, <1>7, <2>3, <2>4
  <2>7. ~(m[e] \in Leaves /\ m[Key(m[e])] = key)
    BY <2>1, <2>2, <2>5, RefFacts
  <2> QED
    BY <1>5, <2>6, <2>7
<1> QED
  BY <1>6, <1>7

-----------------------------------------------------------------------------
(* What a store makes of the tree                                          *)

Put(m, s) == [p \in Places |-> IF p \in DOMAIN s THEN s[p] ELSE m[p]]

LEMMA StoreFacts ==
  ASSUME NEW m, NEW p, NEW x, NEW m2, m2 = Put(m, Store(p, x)), p \in Places
  PROVE  /\ m2 = [q \in Places |-> m2[q]] /\ m2[p] = x
         /\ \A q \in Places : q # p => m2[q] = m[q]
BY DEF Put, Store

\* The words of an object that are not links.
SameWords(m, m2, x) ==
  /\ x \in Nodes => m2[Shift(x)] = m[Shift(x)] /\ m2[Path(x)] = m[Path(x)]
  /\ x \in Leaves => m2[Key(x)] = m[Key(x)] /\ m2[Value(x)] = m[Value(x)]

LEMMA SameWordsFacts ==
  ASSUME NEW m, NEW m2, NEW x \in Objects, SameWords(m, m2, x)
  PROVE  /\ PathOf(m2, x) = PathOf(m, x)
         /\ x \in Nodes => \A key : Matches(m2, key, x) = Matches(m, key, x)
         /\ \A key, possible : Fine(m2, key, possible, x) = Fine(m, key, possible, x)
         /\ \A n \in Nodes : \A i : SameWords(m, m2, n) => Fits(m2, n, i, x) = Fits(m, n, i, x)
<1>1. PathOf(m2, x) = PathOf(m, x)
  BY DEF PathOf, SameWords, Objects
<1>2. ASSUME NEW n \in Nodes, SameWords(m, m2, n), NEW key PROVE Matches(m2, key, n) = Matches(m, key, n)
  BY <1>2 DEF Matches, SameWords
<1>3. ASSUME NEW key, NEW possible PROVE Fine(m2, key, possible, x) = Fine(m, key, possible, x)
  <2>1. x # Null
    BY RefFacts
  <2>2. CASE x \in Leaves
    BY <2>1, <2>2, RefFacts DEF Fine, SameWords
  <2>3. CASE x \in Nodes
    BY <1>2, <2>1, <2>3, RefFacts DEF Fine
  <2> QED
    BY <2>2, <2>3 DEF Objects
<1>4. ASSUME NEW n \in Nodes, NEW i, SameWords(m, m2, n) PROVE Fits(m2, n, i, x) = Fits(m, n, i, x)
  <2>1. m2[Shift(n)] = m[Shift(n)]
    BY <1>4 DEF SameWords
  <2>2. x \in Nodes => m2[Shift(x)] = m[Shift(x)]
    BY DEF SameWords
  <2>3. Matches(m2, PathOf(m2, x), n) = Matches(m, PathOf(m, x), n)
    BY <1>1, <1>2, <1>4
  <2> QED
    BY <1>1, <2>1, <2>2, <2>3 DEF Fits
<1> QED
  BY <1>1, <1>2, <1>3, <1>4

\* Stores elsewhere leave the tree as it is.
Agree(m, m2, N, K) == \A q \in Places : q = Root \/ q[2] \in N \union K => m2[q] = m[q]

LEMMA SameTree ==
  ASSUME NEW m, NEW N, NEW K, Tree(m, N, K), NEW m2, Memory(m2), Agree(m, m2, N, K)
  PROVE  Tree(m2, N, K) /\ \A x \in N \union K : SameWords(m, m2, x)
<1>1. Memory(m) /\ N \subseteq Nodes /\ K \subseteq Leaves
  BY DEF Tree
<1>2. \A p \in TreeLinks(N) : m2[p] = m[p]
  <2>1. \A p \in TreeLinks(N) : p \in Places /\ (p = Root \/ p[2] \in N)
    BY PlaceFacts DEF TreeLinks
  <2> QED
    BY <2>1 DEF Agree
<1>3. \A x \in N \union K : SameWords(m, m2, x)
  BY <1>1, PlaceFacts, RefFacts DEF SameWords, Agree
<1>4. \A n \in N : Matches(m2, m2[Path(n)], n)
  <2> TAKE n \in N
  <2>1. m2[Path(n)] = m[Path(n)] /\ Matches(m, m[Path(n)], n)
    BY <1>1, <1>3 DEF Tree, SameWords
  <2> QED
    BY <1>1, <1>3, <2>1, RefFacts, SameWordsFacts
<1>5. ASSUME NEW n \in N, NEW i \in Slices, m2[Child(n, i)] # Null PROVE Fits(m2, n, i, m2[Child(n, i)])
  <2>1. PICK p, x : p = Child(n, i) /\ x = m[p]
    OBVIOUS
  <2>2. p \in TreeLinks(N) /\ m2[p] = x /\ x \in N \union K \union {Null}
    BY <1>1, <1>2, <2>1, TreeLinkFacts DEF Tree
  <2>3. x \in N \union K /\ Fits(m, n, i, x)
    BY <1>5, <2>1, <2>2 DEF Tree
  <2>4. Fits(m2, n, i, x)
    BY <1>1, <1>3, <2>3, RefFacts, SameWordsFacts
  <2> QED
    BY <2>1, <2>2, <2>4
<1>6. \A k \in K : m2[Value(k)] \in AllValues
  BY <1>1, <1>3 DEF Tree, SameWords
<1>7. /\ \A p \in TreeLinks(N) : m2[p] \in N \union K \union {Null}
      /\ \A p, q \in TreeLinks(N) : m2[p] = m2[q] /\ m2[p] # Null => p = q
      /\ \A x \in N \union K : \E p \in TreeLinks(N) : m2[p] = x
  BY <1>2 DEF Tree
<1> QED
  BY <1>1, <1>3, <1>4, <1>5, <1>6, <1>7 DEF Tree

\* One link changes.
LEMMA Relink ==
  ASSUME NEW m, Memory(m), NEW p \in Links, NEW x \in Refs, NEW m2, m2 = Put(m, Store(p, x))
  PROVE  /\ Memory(m2) /\ m2[p] = x /\ \A q \in Links : q # p => m2[q] = m[q]
         /\ m2[RemoveCount] = m[RemoveCount]
         /\ \A y \in Objects : SameWords(m, m2, y)
         /\ \A n \in Nodes : m2[Shift(n)] = m[Shift(n)] /\ m2[Path(n)] = m[Path(n)]
         /\ \A k \in Leaves : m2[Key(k)] = m[Key(k)] /\ m2[Value(k)] = m[Value(k)]
<1>1. p \in Places /\ RemoveCount \in Places /\ RemoveCount # p
  BY PlaceFacts
<1>2. m2 = [q \in Places |-> m2[q]] /\ m2[p] = x /\ \A q \in Places : q # p => m2[q] = m[q]
  BY <1>1, StoreFacts
<1>3. \A n \in Nodes : m2[Shift(n)] = m[Shift(n)] /\ m2[Path(n)] = m[Path(n)]
  BY <1>2, PlaceFacts
<1>4. \A k \in Leaves : m2[Key(k)] = m[Key(k)] /\ m2[Value(k)] = m[Value(k)]
  BY <1>2, PlaceFacts
<1>5. m2[RemoveCount] = m[RemoveCount]
  BY <1>1, <1>2
<1>6. \A q \in Links : q # p => m2[q] = m[q]
  BY <1>2, PlaceFacts
<1>7. \A q \in Links : m2[q] \in Refs
  BY <1>2, <1>6 DEF Memory
<1>8. Memory(m2)
  BY <1>2, <1>3, <1>4, <1>5, <1>7 DEF Memory
<1> QED
  BY <1>2, <1>3, <1>4, <1>5, <1>6, <1>8 DEF SameWords

\* An object belongs at every link of its route.
LEMMA RouteFits ==
  ASSUME NEW m, NEW N, NEW K, Tree(m, N, K), NEW key \in Nat, NEW n \in N, NEW i \in Slices,
         Child(n, i) \in Route(m, N, key)
  PROVE  Matches(m, key, n) /\ Slice(key, m[Shift(n)]) = i
<1>1. N \subseteq Nodes /\ Memory(m)
  BY DEF Tree
<1>2. Child(n, i) # Root
  BY <1>1, PlacesApart
<1>3. PICK x \in N : Matches(m, key, x) /\ Child(n, i) = Child(x, Slice(key, m[Shift(x)]))
  BY <1>2 DEF Route
<1>4. Slice(key, m[Shift(x)]) \in Slices
  BY <1>1, NodeFacts
<1>5. n = x /\ i = Slice(key, m[Shift(x)])
  BY <1>1, <1>3, <1>4, PlaceFacts
<1> QED
  BY <1>3, <1>5

\* A leaf is linked where there is none.
LEMMA LinkLeaf ==
  ASSUME NEW m, NEW N, NEW K, Tree(m, N, K), NEW k \in Leaves, k \notin K, m[Value(k)] \in AllValues,
         NEW p \in Route(m, N, m[Key(k)]), m[p] = Null, NEW m2, m2 = Put(m, Store(p, k))
  PROVE  Tree(m2, N, K \union {k})
<1>1. Memory(m) /\ N \subseteq Nodes /\ K \subseteq Leaves /\ k \in Refs /\ k # Null /\ k \notin Nodes /\ k \in Objects
  BY RefFacts DEF Tree
<1>2. PICK key \in Nat : key = m[Key(k)]
  BY <1>1, NodeFacts
<1>3. p \in TreeLinks(N) /\ TreeLinks(N) \subseteq Links /\ p \in Links
  BY <1>1, <1>2, RouteFacts, TreeLinkFacts
<1>4. /\ Memory(m2) /\ m2[p] = k /\ \A q \in Links : q # p => m2[q] = m[q]
      /\ \A y \in Objects : SameWords(m, m2, y)
      /\ \A n \in Nodes : m2[Shift(n)] = m[Shift(n)] /\ m2[Path(n)] = m[Path(n)]
      /\ \A l \in Leaves : m2[Key(l)] = m[Key(l)] /\ m2[Value(l)] = m[Value(l)]
  BY <1>1, <1>3, Relink
<1>5. \A q \in TreeLinks(N) : m2[q] = IF q = p THEN k ELSE m[q]
  BY <1>3, <1>4
<1>6. \A q \in TreeLinks(N) : m2[q] \in N \union (K \union {k}) \union {Null}
  BY <1>5 DEF Tree
<1>7. \A q \in TreeLinks(N) : m[q] # k
  BY <1>1 DEF Tree
<1>8. \A q, r \in TreeLinks(N) : m2[q] = m2[r] /\ m2[q] # Null => q = r
  BY <1>5, <1>7 DEF Tree
<1>9. \A x \in N \union (K \union {k}) : \E q \in TreeLinks(N) : m2[q] = x
  <2>1. ASSUME NEW x \in N \union K PROVE \E q \in TreeLinks(N) : m2[q] = x
    <3>1. PICK q \in TreeLinks(N) : m[q] = x
      BY DEF Tree
    <3>2. q # p
      BY <1>1, <2>1, <3>1, RefFacts
    <3> QED
      BY <1>5, <3>1, <3>2
  <2> QED
    BY <1>3, <1>4, <2>1
<1>10. \A n \in N : Matches(m2, m2[Path(n)], n)
  BY <1>1, <1>4 DEF Tree, Matches
<1>11. ASSUME NEW n \in N, NEW i \in Slices, m2[Child(n, i)] # Null PROVE Fits(m2, n, i, m2[Child(n, i)])
  <2>1. PICK q, x : q = Child(n, i) /\ x = m2[q]
    OBVIOUS
  <2>2. q \in TreeLinks(N) /\ n \in Nodes /\ x \in Objects
    BY <1>1, <1>6, <1>11, <2>1, TreeLinkFacts, RefFacts
  <2>3. Fits(m, n, i, x)
    <3>1. CASE q = p
      <4>1. Matches(m, key, n) /\ Slice(key, m[Shift(n)]) = i
        BY <1>2, <2>1, <3>1, RouteFits
      <4> QED
        BY <1>1, <1>2, <1>4, <2>1, <3>1, <4>1 DEF Fits, PathOf
    <3>2. CASE q # p
      BY <1>5, <1>11, <2>1, <2>2, <3>2 DEF Tree
    <3> QED
      BY <3>1, <3>2
  <2>4. Fits(m2, n, i, x)
    BY <1>1, <1>4, <2>2, <2>3, RefFacts, SameWordsFacts
  <2> QED
    BY <2>1, <2>4
<1>12. \A l \in K \union {k} : m2[Value(l)] \in AllValues
  BY <1>1, <1>4 DEF Tree
<1> QED
  BY <1>1, <1>4, <1>6, <1>8, <1>9, <1>10, <1>11, <1>12 DEF Tree

\* A leaf is unlinked.
LEMMA UnlinkLeaf ==
  ASSUME NEW m, NEW N, NEW K, Tree(m, N, K), NEW k \in K, NEW p \in TreeLinks(N), m[p] = k,
         NEW m2, m2 = Put(m, Store(p, Null))
  PROVE  Tree(m2, N, K \ {k})
<1>1. Memory(m) /\ N \subseteq Nodes /\ K \subseteq Leaves /\ Null \in Refs /\ k # Null /\ k \notin N
  BY RefFacts DEF Tree
<1>3. TreeLinks(N) \subseteq Links /\ p \in Links
  BY <1>1, TreeLinkFacts
<1>4. /\ Memory(m2) /\ m2[p] = Null /\ \A q \in Links : q # p => m2[q] = m[q]
      /\ \A y \in Objects : SameWords(m, m2, y)
      /\ \A n \in Nodes : m2[Shift(n)] = m[Shift(n)] /\ m2[Path(n)] = m[Path(n)]
      /\ \A l \in Leaves : m2[Key(l)] = m[Key(l)] /\ m2[Value(l)] = m[Value(l)]
  BY <1>1, <1>3, Relink
<1>5. \A q \in TreeLinks(N) : m2[q] = IF q = p THEN Null ELSE m[q]
  BY <1>3, <1>4
<1>7. \A q \in TreeLinks(N) : q # p => m[q] # k
  BY <1>1 DEF Tree
<1>6. \A q \in TreeLinks(N) : m2[q] \in N \union (K \ {k}) \union {Null}
  BY <1>5, <1>7 DEF Tree
<1>8. \A q, r \in TreeLinks(N) : m2[q] = m2[r] /\ m2[q] # Null => q = r
  BY <1>5 DEF Tree
<1>9. ASSUME NEW x \in N \union (K \ {k}) PROVE \E q \in TreeLinks(N) : m2[q] = x
  <2>1. PICK q \in TreeLinks(N) : m[q] = x
    BY DEF Tree
  <2>2. q # p
    BY <1>1, <1>9, <2>1
  <2> QED
    BY <1>5, <2>1, <2>2
<1>10. \A n \in N : Matches(m2, m2[Path(n)], n)
  BY <1>1, <1>4 DEF Tree, Matches
<1>11. ASSUME NEW n \in N, NEW i \in Slices, m2[Child(n, i)] # Null PROVE Fits(m2, n, i, m2[Child(n, i)])
  <2>1. PICK q, x : q = Child(n, i) /\ x = m2[q]
    OBVIOUS
  <2>2. q \in TreeLinks(N) /\ n \in Nodes /\ x \in Objects
    BY <1>1, <1>6, <1>11, <2>1, TreeLinkFacts, RefFacts
  <2>3. Fits(m, n, i, x)
    BY <1>5, <1>11, <2>1, <2>2 DEF Tree
  <2>4. Fits(m2, n, i, x)
    BY <1>1, <1>4, <2>2, <2>3, RefFacts, SameWordsFacts
  <2> QED
    BY <2>1, <2>4
<1>12. \A l \in K \ {k} : m2[Value(l)] \in AllValues
  BY <1>1, <1>4 DEF Tree
<1>13. K \ {k} \subseteq Leaves
  BY <1>1
<1> QED
  BY <1>1, <1>4, <1>6, <1>8, <1>9, <1>10, <1>11, <1>12, <1>13 DEF Tree

\* A node with one child gives its place to the child.
NodeCollapse(m, N, K, n, p, i, m2) ==
  /\ Tree(m, N, K) /\ n \in N /\ p \in TreeLinks(N) /\ m[p] = n /\ i \in Slices /\ m[Child(n, i)] # Null
  /\ \A j \in Slices : j # i => m[Child(n, j)] = Null
  /\ m2 = Put(m, Store(p, m[Child(n, i)]))

LEMMA CollapseNode ==
  ASSUME NEW m, NEW N, NEW K, NEW n, NEW p, NEW i, NEW m2, NodeCollapse(m, N, K, n, p, i, m2)
  PROVE  Tree(m2, N \ {n}, K) /\ \A j \in Slices : p # Child(n, j)
<1> SUFFICES
      ASSUME Tree(m, N, K), n \in N, p \in TreeLinks(N), m[p] = n,
             i \in Slices, m[Child(n, i)] # Null,
             \A j \in Slices : j # i => m[Child(n, j)] = Null,
             m2 = Put(m, Store(p, m[Child(n, i)]))
      PROVE  Tree(m2, N \ {n}, K) /\ \A j \in Slices : p # Child(n, j)
  BY DEF NodeCollapse
<1>0. PICK y, c : y = m[c] /\ c = Child(n, i)
  OBVIOUS
<1>1. Memory(m) /\ N \subseteq Nodes /\ K \subseteq Leaves /\ n \in Nodes /\ n # Null /\ n \notin K
  BY RefFacts DEF Tree
<1>2. c \in TreeLinks(N) /\ y \in N \union K /\ y # Null /\ y \in Objects /\ y \in Refs /\ Fits(m, n, i, y)
  <2>1. c \in TreeLinks(N) /\ y # Null
    BY <1>0, <1>1, TreeLinkFacts
  <2>2. y \in N \union K /\ Fits(m, n, i, y)
    BY <1>0, <2>1 DEF Tree
  <2> QED
    BY <1>1, <2>1, <2>2, RefFacts
<1>3. TreeLinks(N) \subseteq Links /\ p \in Links
  BY <1>1, TreeLinkFacts
<1>4. /\ Memory(m2) /\ m2[p] = y /\ \A q \in Links : q # p => m2[q] = m[q]
      /\ \A z \in Objects : SameWords(m, m2, z)
      /\ \A x \in Nodes : m2[Shift(x)] = m[Shift(x)] /\ m2[Path(x)] = m[Path(x)]
      /\ \A l \in Leaves : m2[Key(l)] = m[Key(l)] /\ m2[Value(l)] = m[Value(l)]
  BY <1>0, <1>1, <1>2, <1>3, Relink
<1>5. \A q \in TreeLinks(N) : m2[q] = IF q = p THEN y ELSE m[q]
  BY <1>3, <1>4
<1>6. \A x \in N : m[Shift(x)] \in Nat
  BY <1>1, NodeFacts
<1>7. ASSUME NEW x \in N, NEW j \in Slices, m[Child(x, j)] \in N PROVE m[Child(x, j)] # x
  <2>1. Fits(m, x, j, m[Child(x, j)]) /\ m[Child(x, j)] \in Nodes
    BY <1>1, <1>7, RefFacts DEF Tree
  <2>2. PICK a, b : a = m[Shift(m[Child(x, j)])] /\ b = m[Shift(x)]
    OBVIOUS
  <2>3. a \in Nat /\ b \in Nat /\ a < b
    BY <1>6, <1>7, <2>1, <2>2 DEF Fits
  <2>4. a # b
    BY <2>3
  <2> QED
    BY <2>2, <2>4
<1>8. \A j \in Slices : p # Child(n, j)
  BY <1>7
<1>9. y # n
  BY <1>0, <1>7
<1>10. TreeLinks(N \ {n}) \subseteq TreeLinks(N) /\ p \in TreeLinks(N \ {n}) /\ c \notin TreeLinks(N \ {n})
       /\ \A q \in TreeLinks(N) : q \notin TreeLinks(N \ {n}) => \E j \in Slices : q = Child(n, j)
  <2>1. \A q \in TreeLinks(N) : q = Root \/ \E x \in N, j \in Slices : q = Child(x, j)
    BY <1>1, TreeLinkFacts
  <2>2. \A q \in TreeLinks(N) : q \in Links
    BY <1>3
  <2>3. \A x \in N, j \in Slices : Child(x, j)[2] = x
    BY <1>1, PlaceFacts
  <2>4. \A q \in TreeLinks(N) : q \notin TreeLinks(N \ {n}) => \E j \in Slices : q = Child(n, j)
    BY <2>1, <2>2, <2>3 DEF TreeLinks
  <2>5. c \notin TreeLinks(N \ {n})
    BY <1>0, <1>1, <2>3, PlacesApart DEF TreeLinks
  <2>6. p \in TreeLinks(N \ {n})
    BY <1>8, <2>4
  <2> QED
    BY <2>4, <2>5, <2>6 DEF TreeLinks
<1>11. \A q \in TreeLinks(N \ {n}) : q # p => m[q] # n /\ m[q] # y
  <2> TAKE q \in TreeLinks(N \ {n})
  <2>1. SUFFICES ASSUME q # p PROVE m[q] # n /\ m[q] # y
    OBVIOUS
  <2>2. q \in TreeLinks(N) /\ q # c
    BY <1>10
  <2>3. m[q] # n
    BY <1>1, <2>1, <2>2 DEF Tree
  <2>4. m[q] # y
    BY <1>0, <1>2, <2>2 DEF Tree
  <2> QED
    BY <2>3, <2>4
<1>12. \A q \in TreeLinks(N \ {n}) : m2[q] \in (N \ {n}) \union K \union {Null}
  BY <1>1, <1>2, <1>5, <1>9, <1>10, <1>11 DEF Tree
<1>13. \A q, r \in TreeLinks(N \ {n}) : m2[q] = m2[r] /\ m2[q] # Null => q = r
  <2> TAKE q, r \in TreeLinks(N \ {n})
  <2>1. q \in TreeLinks(N) /\ r \in TreeLinks(N)
    BY <1>10
  <2>2. SUFFICES ASSUME m2[q] = m2[r], m2[q] # Null PROVE q = r
    OBVIOUS
  <2>3. CASE q # p /\ r # p
    BY <1>5, <2>1, <2>2, <2>3 DEF Tree
  <2>4. CASE q = p
    BY <1>5, <1>11, <2>1, <2>2, <2>4
  <2>5. CASE r = p
    BY <1>5, <1>11, <2>1, <2>2, <2>5
  <2> QED
    BY <2>3, <2>4, <2>5
<1>14. ASSUME NEW x \in (N \ {n}) \union K PROVE \E q \in TreeLinks(N \ {n}) : m2[q] = x
  <2>1. PICK q \in TreeLinks(N) : m[q] = x
    BY DEF Tree
  <2>2. q # p
    BY <1>1, <1>14, <2>1
  <2>3. CASE q \in TreeLinks(N \ {n})
    BY <1>5, <2>1, <2>2, <2>3
  <2>4. CASE q \notin TreeLinks(N \ {n})
    <3>1. PICK j \in Slices : q = Child(n, j)
      BY <1>10, <2>4
    <3>2. x # Null
      BY <1>1, <1>14, RefFacts
    <3>3. j = i
      BY <2>1, <3>1, <3>2
    <3>4. x = y
      BY <1>0, <2>1, <3>1, <3>3
    <3> QED
      BY <1>4, <1>10, <3>4
  <2> QED
    BY <2>3, <2>4
<1>15. \A x \in N : Matches(m2, m2[Path(x)], x)
  BY <1>1, <1>4 DEF Tree, Matches
<1>16. ASSUME NEW x \in N \ {n}, NEW j \in Slices, m2[Child(x, j)] # Null PROVE Fits(m2, x, j, m2[Child(x, j)])
  <2>1. PICK q, z : q = Child(x, j) /\ z = m2[q]
    OBVIOUS
  <2>2. q \in TreeLinks(N \ {n}) /\ q \in TreeLinks(N) /\ x \in Nodes /\ z \in N \union K /\ z \in Objects
    <3>1. q \in TreeLinks(N \ {n})
      BY <1>1, <2>1, TreeLinkFacts
    <3> QED
      BY <1>1, <1>10, <1>12, <1>16, <2>1, <3>1, RefFacts
  <2>3. Fits(m, x, j, z)
    <3>1. CASE q # p
      BY <1>5, <1>16, <2>1, <2>2, <3>1 DEF Tree
    <3>2. CASE q = p
      <4>1. z = y /\ Fits(m, x, j, n)
        <5>1. z = y
          BY <1>5, <2>1, <2>2, <3>2
        <5>2. m[Child(x, j)] = n
          BY <2>1, <3>2
        <5> QED
          BY <1>1, <5>1, <5>2 DEF Tree
      <4>2. PICK path \in Nat : path = PathOf(m, y)
        BY <1>1, <1>2, NodeFacts
      <4>3. Matches(m, path, n)
        BY <1>2, <4>2 DEF Fits
      <4>4. Matches(m, m[Path(n)], n)
        BY DEF Tree
      <4>5. Matches(m, path, x) /\ Slice(path, m[Shift(x)]) = j /\ m[Shift(n)] < m[Shift(x)]
        BY <1>1, <2>2, <4>1, <4>3, <4>4, MatchesAbove
      <4>6. y \in Nodes => m[Shift(y)] < m[Shift(x)]
        <5>1. SUFFICES ASSUME y \in Nodes PROVE m[Shift(y)] < m[Shift(x)]
          OBVIOUS
        <5>2. PICK a, b, d : a = m[Shift(y)] /\ b = m[Shift(n)] /\ d = m[Shift(x)]
          OBVIOUS
        <5>3. a \in Nat /\ b \in Nat /\ d \in Nat
          BY <1>1, <2>2, <5>1, <5>2, NodeFacts
        <5>4. a < b /\ b < d
          BY <1>2, <4>5, <5>1, <5>2 DEF Fits
        <5>5. a < d
          BY <5>3, <5>4
        <5> QED
          BY <5>2, <5>5
      <4> QED
        BY <4>1, <4>2, <4>5, <4>6 DEF Fits
    <3> QED
      BY <3>1, <3>2
  <2>4. Fits(m2, x, j, z)
    BY <1>1, <1>4, <2>2, <2>3, RefFacts, SameWordsFacts
  <2> QED
    BY <2>1, <2>4
<1>17. \A l \in K : m2[Value(l)] \in AllValues
  BY <1>1, <1>4 DEF Tree
<1>18. N \ {n} \subseteq Nodes
  BY <1>1
<1>19. Tree(m2, N \ {n}, K)
  BY <1>1, <1>4, <1>12, <1>13, <1>14, <1>15, <1>16, <1>17, <1>18 DEF Tree
<1> QED
  BY <1>8, <1>19

\* The new node above the leaf of key and what is at p now.
Splits(m, x, key, k, y) ==
  LET s == CriticalShift(PathOf(m, y), key)
  IN  /\ m[Shift(x)] = s /\ m[Path(x)] = Above(key, s)
      /\ \A i \in Slices : m[Child(x, i)] = CASE i = Slice(key, s) -> k
                                             [] i = Slice(PathOf(m, y), s) -> y
                                             [] OTHER -> Null

LEMMA SplitFits ==
  ASSUME NEW m, NEW N, NEW K, Tree(m, N, K), NEW key \in KeyRange, NEW p \in Route(m, N, key),
         m[p] # Null, PathOf(m, m[p]) # key, m[p] \in Nodes => ~Matches(m, key, m[p]),
         NEW x \in Nodes, NEW k \in Leaves, m[Key(k)] = key, Splits(m, x, key, k, m[p])
  PROVE  /\ Matches(m, m[Path(x)], x)
         /\ \A i \in Slices : m[Child(x, i)] # Null => Fits(m, x, i, m[Child(x, i)])
         /\ \E i, j \in Slices : /\ i # j /\ m[Child(x, i)] = k /\ m[Child(x, j)] = m[p]
                                 /\ \A l \in Slices : l # i /\ l # j => m[Child(x, l)] = Null
         /\ \A n \in N, i \in Slices : p = Child(n, i) => Fits(m, n, i, x)
<1>1. Memory(m) /\ N \subseteq Nodes /\ K \subseteq Leaves
  BY DEF Tree
<1>2. PICK y, path, s : y = m[p] /\ path = PathOf(m, y) /\ s = CriticalShift(path, key)
  OBVIOUS
<1>3. p \in TreeLinks(N) /\ y \in N \union K /\ y # Null /\ y \in Objects
  <2>1. key \in Nat
    BY ShiftFacts
  <2>2. p \in TreeLinks(N)
    BY <2>1, RouteFacts
  <2> QED
    BY <1>1, <1>2, <2>2, RefFacts DEF Tree
<1>4. path \in KeyRange /\ path \in Nat /\ key \in Nat /\ path # key
  BY <1>1, <1>2, <1>3, NodeFacts, ShiftFacts
<1>5. s \in Shifts /\ s \in Nat /\ Slice(path, s) # Slice(key, s) /\ Above(path, s) = Above(key, s)
  BY <1>2, <1>4, CriticalShiftFacts, ShiftFacts
<1>6. m[Shift(x)] = s /\ m[Path(x)] = Above(key, s)
  BY <1>2 DEF Splits
<1>7. Slice(path, s) \in Slices /\ Slice(key, s) \in Slices
  BY <1>4, <1>5, TopFacts
<1>8. /\ m[Child(x, Slice(key, s))] = k /\ m[Child(x, Slice(path, s))] = y
      /\ \A l \in Slices : l # Slice(key, s) /\ l # Slice(path, s) => m[Child(x, l)] = Null
  BY <1>2, <1>5, <1>7 DEF Splits
<1>9. Above(key, s) \in Nat /\ Above(Above(key, s), s) = Above(key, s)
  BY <1>4, <1>5, AboveAbove
<1>10. Matches(m, m[Path(x)], x)
  BY <1>6, <1>9 DEF Matches
<1>11. PathOf(m, k) = key /\ k \notin Nodes
  BY RefFacts DEF PathOf
<1>12. Fits(m, x, Slice(key, s), k)
  BY <1>6, <1>11 DEF Fits, Matches
<1>13. y \in Nodes => m[Shift(y)] < s
  <2>1. SUFFICES ASSUME y \in Nodes PROVE m[Shift(y)] < s
    OBVIOUS
  <2>2. PICK u : u = m[Shift(y)]
    OBVIOUS
  <2>3. u \in Nat /\ y \in N
    BY <1>1, <1>3, <2>1, <2>2, NodeFacts, RefFacts
  <2>4. path = m[Path(y)] /\ Above(path, u) = path /\ Above(key, u) # path
    <3>1. path = m[Path(y)]
      BY <1>2, <2>1, RefFacts DEF PathOf
    <3>2. Matches(m, m[Path(y)], y) /\ ~Matches(m, key, y)
      BY <1>2, <2>1, <2>3 DEF Tree
    <3> QED
      BY <2>2, <3>1, <3>2 DEF Matches
  <2>5. ~(u >= s)
    BY <1>4, <1>5, <2>3, <2>4, SameAbove
  <2> QED
    BY <1>5, <2>2, <2>3, <2>5
<1>14. Fits(m, x, Slice(path, s), y)
  BY <1>2, <1>5, <1>6, <1>13 DEF Fits, Matches
<1>15. \A i \in Slices : m[Child(x, i)] # Null => Fits(m, x, i, m[Child(x, i)])
  <2> TAKE i \in Slices
  <2>1. CASE i = Slice(key, s)
    BY <1>8, <1>12, <2>1
  <2>2. CASE i = Slice(path, s)
    BY <1>8, <1>14, <2>2
  <2>3. CASE i # Slice(key, s) /\ i # Slice(path, s)
    BY <1>8, <2>3
  <2> QED
    BY <2>1, <2>2, <2>3
<1>16. ASSUME NEW n \in N, NEW i \in Slices, p = Child(n, i) PROVE Fits(m, n, i, x)
  <2>1. Matches(m, key, n) /\ Slice(key, m[Shift(n)]) = i
    BY <1>4, <1>16, RouteFits
  <2>2. Fits(m, n, i, y)
    BY <1>2, <1>3, <1>16 DEF Tree
  <2>3. PICK u : u = m[Shift(n)]
    OBVIOUS
  <2>4. u \in Nat
    BY <1>1, <2>3, NodeFacts
  <2>5. Above(path, u) = Above(key, u) /\ Slice(path, u) = Slice(key, u)
    BY <1>2, <2>1, <2>2, <2>3 DEF Fits, Matches
  <2>6. s # u
    BY <1>5, <2>5
  <2>7. ~(s > u)
    BY <1>4, <1>5, <2>4, <2>5, SameAbove
  <2>8. s < u
    BY <1>5, <2>4, <2>6, <2>7
  <2>9. Above(Above(key, s), u) = Above(key, u) /\ Slice(Above(key, s), u) = Slice(key, u)
    <3>1. PICK b \in Nat : b = Above(key, s)
      BY <1>9
    <3>2. Above(b, s) = Above(key, s)
      BY <1>9, <3>1
    <3>3. u >= s /\ u > s
      BY <1>5, <2>4, <2>8
    <3>4. Above(b, u) = Above(key, u) /\ Slice(b, u) = Slice(key, u)
      BY <1>4, <1>5, <2>4, <3>2, <3>3, SameAbove
    <3> QED
      BY <3>1, <3>4
  <2>10. PathOf(m, x) = Above(key, s)
    BY <1>6, RefFacts DEF PathOf
  <2> QED
    BY <1>6, <2>1, <2>3, <2>8, <2>9, <2>10 DEF Fits, Matches
<1>17. \E i, j \in Slices : /\ i # j /\ m[Child(x, i)] = k /\ m[Child(x, j)] = m[p]
                            /\ \A l \in Slices : l # i /\ l # j => m[Child(x, l)] = Null
  BY <1>2, <1>5, <1>7, <1>8
<1> QED
  BY <1>10, <1>15, <1>16, <1>17

\* A new node takes the place of what the key does not match, above it and the new leaf.
LEMMA SplitLink ==
  ASSUME NEW m, NEW N, NEW K, Tree(m, N, K), NEW key \in KeyRange, NEW p \in Route(m, N, key),
         m[p] # Null, PathOf(m, m[p]) # key, m[p] \in Nodes => ~Matches(m, key, m[p]),
         NEW x \in Nodes, x \notin N, NEW k \in Leaves, k \notin K, m[Key(k)] = key, m[Value(k)] \in AllValues,
         Splits(m, x, key, k, m[p]), NEW m2, m2 = Put(m, Store(p, x))
  PROVE  Tree(m2, N \union {x}, K \union {k})
<1>1. Memory(m) /\ N \subseteq Nodes /\ K \subseteq Leaves /\ x \in Refs /\ x # Null /\ k # Null
  BY RefFacts DEF Tree
<1>2. PICK y : y = m[p]
  OBVIOUS
<1>3. p \in TreeLinks(N) /\ p \in Links /\ TreeLinks(N) \subseteq Links /\ y \in N \union K /\ y # Null
  <2>1. key \in Nat
    BY ShiftFacts
  <2>2. p \in TreeLinks(N)
    BY <2>1, RouteFacts
  <2> QED
    BY <1>1, <1>2, <2>2, TreeLinkFacts DEF Tree
<1>4. /\ Memory(m2) /\ m2[p] = x /\ \A q \in Links : q # p => m2[q] = m[q]
      /\ \A z \in Objects : SameWords(m, m2, z)
      /\ \A n \in Nodes : m2[Shift(n)] = m[Shift(n)] /\ m2[Path(n)] = m[Path(n)]
      /\ \A l \in Leaves : m2[Key(l)] = m[Key(l)] /\ m2[Value(l)] = m[Value(l)]
  BY <1>1, <1>3, Relink
<1>5. PICK i, j \in Slices : /\ i # j /\ m[Child(x, i)] = k /\ m[Child(x, j)] = y
                             /\ \A l \in Slices : l # i /\ l # j => m[Child(x, l)] = Null
  BY <1>2, SplitFits
<1>6. /\ Matches(m, m[Path(x)], x)
      /\ \A l \in Slices : m[Child(x, l)] # Null => Fits(m, x, l, m[Child(x, l)])
      /\ \A n \in N, l \in Slices : p = Child(n, l) => Fits(m, n, l, x)
  BY SplitFits
<1>7. /\ TreeLinks(N) \subseteq TreeLinks(N \union {x})
      /\ \A q \in TreeLinks(N \union {x}) : q \in TreeLinks(N) \/ \E l \in Slices : q = Child(x, l)
      /\ \A l \in Slices : Child(x, l) \in TreeLinks(N \union {x}) /\ Child(x, l) \notin TreeLinks(N)
      /\ TreeLinks(N \union {x}) \subseteq Links
  <2>1. \A l \in Slices : Child(x, l) \in Links /\ Child(x, l)[2] = x /\ Child(x, l) # Root
    BY PlaceFacts, PlacesApart
  <2>2. N \union {x} \subseteq Nodes
    BY <1>1
  <2>3. \A q \in TreeLinks(N \union {x}) : q = Root \/ \E n \in N \union {x}, l \in Slices : q = Child(n, l)
    BY <2>2, TreeLinkFacts
  <2>4. \A n \in N, l \in Slices : Child(n, l) \in TreeLinks(N)
    BY <1>1, TreeLinkFacts
  <2>5. Root \in TreeLinks(N)
    BY <1>1, TreeLinkFacts
  <2>6. \A q \in TreeLinks(N \union {x}) : q \in TreeLinks(N) \/ \E l \in Slices : q = Child(x, l)
    BY <2>3, <2>4, <2>5
  <2> QED
    BY <2>1, <2>6 DEF TreeLinks
<1>8. /\ \A q \in TreeLinks(N) : m2[q] = IF q = p THEN x ELSE m[q]
      /\ \A l \in Slices : m2[Child(x, l)] = m[Child(x, l)]
  BY <1>3, <1>4, <1>7
<1>9. \A q \in TreeLinks(N) : m[q] # x /\ m[q] # k /\ (q # p => m[q] # y)
  <2>1. \A q \in TreeLinks(N) : m[q] \in N \union K \union {Null}
    BY DEF Tree
  <2>2. k \notin N /\ x \notin K
    BY <1>1, RefFacts
  <2>3. \A q \in TreeLinks(N) : q # p => m[q] # y
    BY <1>2, <1>3 DEF Tree
  <2> QED
    BY <1>1, <2>1, <2>2, <2>3
<1>10. \A l \in Slices : m2[Child(x, l)] = IF l = i THEN k ELSE IF l = j THEN y ELSE Null
  BY <1>5, <1>8
<1>11. k # y /\ k # x /\ y # x
  BY <1>2, <1>3, <1>9, RefFacts
<1>12. \A q \in TreeLinks(N \union {x}) : m2[q] \in (N \union {x}) \union (K \union {k}) \union {Null}
  <2> TAKE q \in TreeLinks(N \union {x})
  <2>1. CASE q \in TreeLinks(N)
    BY <1>8, <2>1 DEF Tree
  <2>2. CASE \E l \in Slices : q = Child(x, l)
    BY <1>3, <1>10, <2>2
  <2> QED
    BY <1>7, <2>1, <2>2
<1>13. \A q, r \in TreeLinks(N \union {x}) : m2[q] = m2[r] /\ m2[q] # Null => q = r
  <2> TAKE q, r \in TreeLinks(N \union {x})
  <2>1. SUFFICES ASSUME m2[q] = m2[r], m2[q] # Null PROVE q = r
    OBVIOUS
  <2>2. CASE q \in TreeLinks(N) /\ r \in TreeLinks(N)
    BY <1>8, <1>9, <2>1, <2>2 DEF Tree
  <2>3. ASSUME NEW l \in Slices, q = Child(x, l), r \in TreeLinks(N) PROVE FALSE
    <3>1. m2[q] = k \/ m2[q] = y
      BY <1>10, <2>1, <2>3
    <3>2. m2[r] # k /\ m2[r] # y
      BY <1>8, <1>9, <1>11, <2>3
    <3> QED
      BY <2>1, <3>1, <3>2
  <2>4. ASSUME NEW l \in Slices, r = Child(x, l), q \in TreeLinks(N) PROVE FALSE
    <3>1. m2[r] = k \/ m2[r] = y
      BY <1>10, <2>1, <2>4
    <3>2. m2[q] # k /\ m2[q] # y
      BY <1>8, <1>9, <1>11, <2>4
    <3> QED
      BY <2>1, <3>1, <3>2
  <2>5. ASSUME NEW a \in Slices, q = Child(x, a), NEW b \in Slices, r = Child(x, b) PROVE q = r
    BY <1>10, <1>11, <2>1, <2>5
  <2> QED
    BY <1>7, <2>2, <2>3, <2>4, <2>5
<1>14. ASSUME NEW z \in (N \union {x}) \union (K \union {k}) PROVE \E q \in TreeLinks(N \union {x}) : m2[q] = z
  <2>1. CASE z = x
    BY <1>3, <1>4, <1>7, <2>1
  <2>2. CASE z = k
    BY <1>7, <1>10, <2>2
  <2>3. CASE z = y
    BY <1>5, <1>7, <1>10, <2>3
  <2>4. CASE z \in N \union K /\ z # y
    <3>1. PICK q \in TreeLinks(N) : m[q] = z
      BY <2>4 DEF Tree
    <3>2. q # p
      BY <1>2, <2>4, <3>1
    <3> QED
      BY <1>7, <1>8, <3>1, <3>2
  <2> QED
    BY <1>14, <2>1, <2>2, <2>3, <2>4
<1>15. \A n \in N \union {x} : Matches(m2, m2[Path(n)], n)
  BY <1>1, <1>4, <1>6 DEF Tree, Matches
<1>16. ASSUME NEW n \in N \union {x}, NEW l \in Slices, m2[Child(n, l)] # Null
       PROVE  Fits(m2, n, l, m2[Child(n, l)])
  <2>1. PICK q, z : q = Child(n, l) /\ z = m2[q]
    OBVIOUS
  <2>2. n \in Nodes /\ q \in TreeLinks(N \union {x}) /\ z \in Objects
    <3>1. N \union {x} \subseteq Nodes
      BY <1>1
    <3>2. n \in Nodes /\ q \in TreeLinks(N \union {x})
      BY <2>1, <3>1, TreeLinkFacts
    <3> QED
      BY <1>1, <1>12, <1>16, <2>1, <3>2, RefFacts
  <2>3. Fits(m, n, l, z)
    <3>1. CASE n = x
      BY <1>6, <1>8, <1>16, <2>1, <3>1
    <3>2. CASE n \in N
      <4>1. q \in TreeLinks(N)
        BY <1>1, <2>1, <3>2, TreeLinkFacts
      <4>2. CASE q = p
        BY <1>6, <1>8, <2>1, <3>2, <4>1, <4>2
      <4>3. CASE q # p
        BY <1>8, <1>16, <2>1, <3>2, <4>1, <4>3 DEF Tree
      <4> QED
        BY <4>2, <4>3
    <3> QED
      BY <3>1, <3>2
  <2>4. Fits(m2, n, l, z)
    BY <1>1, <1>4, <2>2, <2>3, RefFacts, SameWordsFacts
  <2> QED
    BY <2>1, <2>4
<1>17. \A l \in K \union {k} : m2[Value(l)] \in AllValues
  BY <1>1, <1>4 DEF Tree
<1>18. N \union {x} \subseteq Nodes /\ K \union {k} \subseteq Leaves
  BY <1>1
<1> QED
  BY <1>4, <1>12, <1>13, <1>14, <1>15, <1>16, <1>17, <1>18 DEF Tree

-----------------------------------------------------------------------------
(* Views: the words, the tree in them, and what rests                      *)

\* age tells at which removal an object that rests left the tree.
View(m, N, K, age) == [mem |-> m, nodes |-> N, leaves |-> K, age |-> age]
Live(v) == v.nodes \union v.leaves
Kept(v) == Live(v) \union DOMAIN v.age
Count(v) == v.mem[RemoveCount]

Good(v) ==
  /\ Tree(v.mem, v.nodes, v.leaves)
  /\ v.age = [x \in DOMAIN v.age |-> v.age[x]] /\ DOMAIN v.age \subseteq Objects
  /\ \A x \in DOMAIN v.age : /\ x \notin Live(v)
                             /\ v.age[x] \in Nat /\ v.age[x] < Count(v) /\ Count(v) <= v.age[x] + DeletedLife

\* What a walk may have seen is not touched before its removal is DeletedLife removals old.
Keeps(v, w) ==
  /\ Count(v) <= Count(w)
  /\ \A x \in Kept(v) : SameWords(v.mem, w.mem, x)
  /\ \A x \in Live(v) : x \in Live(w) \/ (x \in DOMAIN w.age /\ w.age[x] + 1 = Count(w))
  /\ \A x \in DOMAIN v.age : Count(w) <= v.age[x] + DeletedLife => x \in DOMAIN w.age /\ w.age[x] = v.age[x]
  /\ \A x \in Kept(v) : x \in Nodes /\ x \notin w.nodes
                          => \A i \in Slices : w.mem[Child(x, i)] = v.mem[Child(x, i)]

\* The content changes as an insertion or a removal of one key does.
Changes(c, d) ==
  \/ d = c
  \/ \E key \in Keys : \/ c[key] = Null /\ \E value \in AllValues : d = [c EXCEPT ![key] = value]
                       \/ c[key] # Null /\ d = [c EXCEPT ![key] = Null]

Moves(v, s, w) ==
  /\ w.mem = Put(v.mem, s) /\ Good(v) /\ Good(w) /\ Keeps(v, w)
  /\ Changes(Content(v.mem), Content(w.mem))

LEMMA GoodFacts ==
  ASSUME NEW v, Good(v)
  PROVE  /\ Tree(v.mem, v.nodes, v.leaves) /\ Memory(v.mem) /\ Count(v) \in Nat
         /\ v.nodes \subseteq Nodes /\ v.leaves \subseteq Leaves /\ Live(v) \subseteq Objects
         /\ DOMAIN v.age \subseteq Objects /\ Kept(v) \subseteq Objects
         /\ TreeLinks(v.nodes) \subseteq Links /\ Links \subseteq Places
<1>1. Tree(v.mem, v.nodes, v.leaves) /\ DOMAIN v.age \subseteq Objects
  BY DEF Good
<1>2. Memory(v.mem) /\ v.nodes \subseteq Nodes /\ v.leaves \subseteq Leaves
  BY <1>1 DEF Tree
<1>3. Live(v) \subseteq Objects
  BY <1>2, RefFacts DEF Live
<1>4. Count(v) \in Nat
  BY <1>2 DEF Memory, Count
<1> QED
  BY <1>1, <1>2, <1>3, <1>4, TreeLinkFacts, PlaceFacts DEF Kept

LEMMA ChangesNot == ASSUME NEW c PROVE Changes(c, c)
BY DEF Changes

\* A store to an object that is neither in the tree nor rests.
LEMMA MovePrivate ==
  ASSUME NEW v, Good(v), NEW x \in Objects, x \notin Kept(v), NEW s,
         \A q \in DOMAIN s : q \in Places => q[2] = x,
         NEW w, w = View(Put(v.mem, s), v.nodes, v.leaves, v.age), Memory(w.mem)
  PROVE  /\ Moves(v, s, w) /\ Content(w.mem) = Content(v.mem) /\ Count(w) = Count(v)
         /\ \A q \in Places : q[2] # x => w.mem[q] = v.mem[q]
<1>1. w.mem = Put(v.mem, s) /\ w.nodes = v.nodes /\ w.leaves = v.leaves /\ w.age = v.age
  BY DEF View
<1>2. \A q \in Places : q[2] # x => w.mem[q] = v.mem[q]
  BY <1>1 DEF Put
<1>3. /\ Tree(v.mem, v.nodes, v.leaves) /\ Memory(v.mem) /\ Kept(v) \subseteq Objects
      /\ v.nodes \subseteq Nodes /\ v.leaves \subseteq Leaves /\ Live(v) \subseteq Objects
  BY GoodFacts
<1>4. x # Null /\ Root \in Places /\ Root[2] = Null /\ RemoveCount \in Places /\ RemoveCount[2] = Null
  BY RefFacts, PlaceFacts
<1>5. Agree(v.mem, w.mem, v.nodes, v.leaves)
  BY <1>2, <1>4 DEF Agree, Kept, Live
<1>6. Tree(w.mem, w.nodes, w.leaves) /\ \A y \in Live(v) : SameWords(v.mem, w.mem, y)
  BY <1>1, <1>3, <1>5, SameTree DEF Live
<1>7. Count(w) = Count(v) /\ Live(w) = Live(v)
  BY <1>1, <1>2, <1>4 DEF Count, Live
<1>8. \A y \in Objects : y # x => SameWords(v.mem, w.mem, y)
  BY <1>2, PlaceFacts DEF SameWords
<1>9. Content(w.mem) = Content(v.mem)
  <2>1. \A k \in v.leaves : w.mem[Key(k)] = v.mem[Key(k)] /\ w.mem[Value(k)] = v.mem[Value(k)]
    BY <1>3, <1>6 DEF SameWords, Live
  <2> QED
    BY <1>1, <1>3, <1>6, <2>1, SameContent
<1>10. Good(w)
  BY <1>1, <1>6, <1>7 DEF Good
<1>11. \A y \in Kept(v) : y \in Nodes => \A i \in Slices : w.mem[Child(y, i)] = v.mem[Child(y, i)]
  BY <1>2, PlaceFacts
<1>12. Keeps(v, w)
  <2>1. Count(v) <= Count(w)
    BY <1>7, GoodFacts
  <2>2. \A y \in Kept(v) : SameWords(v.mem, w.mem, y)
    BY <1>3, <1>8
  <2>3. \A y \in DOMAIN v.age : y \in DOMAIN w.age /\ w.age[y] = v.age[y]
    BY <1>1
  <2> QED
    BY <1>7, <1>11, <2>1, <2>2, <2>3 DEF Keeps
<1>13. Changes(Content(v.mem), Content(w.mem))
  BY <1>9, ChangesNot
<1> QED
  BY <1>1, <1>2, <1>7, <1>9, <1>10, <1>12, <1>13 DEF Moves

\* A removal counts itself: what is DeletedLife removals old rests no longer.
Younger(v) == [x \in {y \in DOMAIN v.age : Count(v) < v.age[y] + DeletedLife} |-> v.age[x]]

LEMMA MoveCount ==
  ASSUME NEW v, Good(v), NEW s, s = Store(RemoveCount, Count(v) + 1),
         NEW w, w = View(Put(v.mem, s), v.nodes, v.leaves, Younger(v))
  PROVE  /\ Moves(v, s, w) /\ Content(w.mem) = Content(v.mem) /\ Count(w) = Count(v) + 1
         /\ \A q \in Places : q # RemoveCount => w.mem[q] = v.mem[q]
<1>1. w.mem = Put(v.mem, s) /\ w.nodes = v.nodes /\ w.leaves = v.leaves /\ w.age = Younger(v)
  BY DEF View
<1>2. /\ RemoveCount \in Places /\ RemoveCount \notin Links /\ Root \in Links /\ RemoveCount[2] = Null
      /\ Links \subseteq Places
  BY PlaceFacts
<1>3. /\ w.mem = [q \in Places |-> w.mem[q]] /\ w.mem[RemoveCount] = Count(v) + 1
      /\ \A q \in Places : q # RemoveCount => w.mem[q] = v.mem[q]
  BY <1>1, <1>2, StoreFacts
<1>4. /\ Tree(v.mem, v.nodes, v.leaves) /\ Memory(v.mem) /\ Kept(v) \subseteq Objects /\ Count(v) \in Nat
      /\ v.nodes \subseteq Nodes /\ v.leaves \subseteq Leaves /\ Live(v) \subseteq Objects
  BY GoodFacts
<1>5. Memory(w.mem)
  <2>1. \A q \in Links : w.mem[q] = v.mem[q]
    BY <1>2, <1>3
  <2>2. \A n \in Nodes : w.mem[Shift(n)] = v.mem[Shift(n)] /\ w.mem[Path(n)] = v.mem[Path(n)]
    BY <1>3, PlaceFacts, PlacesApart
  <2>3. \A k \in Leaves : w.mem[Key(k)] = v.mem[Key(k)] /\ w.mem[Value(k)] = v.mem[Value(k)]
    BY <1>3, PlaceFacts, PlacesApart
  <2>4. w.mem[RemoveCount] \in Nat
    BY <1>3, <1>4
  <2> QED
    BY <1>3, <1>4, <2>1, <2>2, <2>3, <2>4 DEF Memory
<1>6. Agree(v.mem, w.mem, v.nodes, v.leaves)
  <2>1. Null \notin Live(v) /\ RemoveCount # Root
    BY <1>2, <1>4, RefFacts
  <2> QED
    BY <1>2, <1>3, <2>1 DEF Agree, Live
<1>7. Tree(w.mem, w.nodes, w.leaves) /\ \A y \in Live(v) : SameWords(v.mem, w.mem, y)
  BY <1>1, <1>4, <1>5, <1>6, SameTree DEF Live
<1>8. Count(w) = Count(v) + 1 /\ Live(w) = Live(v)
  BY <1>1, <1>3 DEF Count, Live
<1>9. \A y \in Objects : SameWords(v.mem, w.mem, y)
  BY <1>3, PlaceFacts, PlacesApart DEF SameWords
<1>10. Content(w.mem) = Content(v.mem)
  <2>1. \A k \in v.leaves : w.mem[Key(k)] = v.mem[Key(k)] /\ w.mem[Value(k)] = v.mem[Value(k)]
    BY <1>4, <1>7 DEF SameWords, Live
  <2> QED
    BY <1>1, <1>4, <1>7, <2>1, SameContent
<1>11. \A x \in DOMAIN v.age : /\ x \notin Live(v) /\ v.age[x] \in Nat /\ v.age[x] < Count(v)
                               /\ x \in Objects
  BY DEF Good
<1>12. Good(w)
  <2>1. DOMAIN w.age = {y \in DOMAIN v.age : Count(v) < v.age[y] + DeletedLife}
        /\ \A x \in DOMAIN w.age : w.age[x] = v.age[x]
    BY <1>1 DEF Younger
  <2>2. w.age = [x \in DOMAIN w.age |-> w.age[x]]
    BY <1>1 DEF Younger
  <2>3. \A x \in DOMAIN w.age : x \notin Live(w) /\ x \in Objects /\ w.age[x] \in Nat
    BY <1>8, <1>11, <2>1
  <2>4. \A x \in DOMAIN w.age : w.age[x] < Count(w) /\ Count(w) <= w.age[x] + DeletedLife
    <3> TAKE x \in DOMAIN w.age
    <3>1. PICK a, c \in Nat : a = w.age[x] /\ c = Count(v)
      BY <1>4, <2>3
    <3>2. a < c /\ c < a + DeletedLife
      BY <1>11, <2>1, <3>1
    <3>3. a < c + 1 /\ c + 1 <= a + DeletedLife
      BY <3>1, <3>2, FanoutFacts
    <3> QED
      BY <1>8, <3>1, <3>3
  <2> QED
    BY <1>7, <2>2, <2>3, <2>4 DEF Good
<1>13. Keeps(v, w)
  <2>1. Count(v) <= Count(w)
    BY <1>4, <1>8
  <2>2. \A x \in DOMAIN v.age : Count(w) <= v.age[x] + DeletedLife => x \in DOMAIN w.age /\ w.age[x] = v.age[x]
    <3> TAKE x \in DOMAIN v.age
    <3>1. SUFFICES ASSUME Count(w) <= v.age[x] + DeletedLife PROVE Count(v) < v.age[x] + DeletedLife
      BY <1>1 DEF Younger
    <3>2. PICK a, c \in Nat : a = v.age[x] /\ c = Count(v)
      BY <1>4, <1>11
    <3>3. c + 1 <= a + DeletedLife
      BY <1>8, <3>1, <3>2
    <3>4. c < a + DeletedLife
      BY <3>2, <3>3, FanoutFacts
    <3> QED
      BY <3>2, <3>4
  <2>3. \A x \in Kept(v) : x \in Nodes => \A i \in Slices : w.mem[Child(x, i)] = v.mem[Child(x, i)]
    BY <1>2, <1>3, PlaceFacts
  <2> QED
    BY <1>4, <1>8, <1>9, <2>1, <2>2, <2>3 DEF Keeps
<1>14. Changes(Content(v.mem), Content(w.mem))
  BY <1>10, ChangesNot
<1> QED
  BY <1>1, <1>3, <1>8, <1>10, <1>12, <1>13, <1>14 DEF Moves

\* One link of the tree changes, and what leaves the tree rests.
LinkStep(v, p, s, w) ==
  /\ w.mem = Put(v.mem, s) /\ Tree(w.mem, w.nodes, w.leaves)
  /\ w.age = [y \in DOMAIN w.age |-> w.age[y]]
  /\ \A y \in DOMAIN v.age : y \in DOMAIN w.age /\ w.age[y] = v.age[y]
  /\ \A y \in DOMAIN w.age : y \in DOMAIN v.age \/ (y \in Live(v) /\ w.age[y] \in Nat /\ w.age[y] + 1 = Count(v))
  /\ \A y \in DOMAIN w.age : y \notin Live(w)
  /\ \A y \in Live(v) : y \in Live(w) \/ y \in DOMAIN w.age
  /\ \A n \in v.nodes : n \notin w.nodes => \A j \in Slices : p # Child(n, j)
  /\ Changes(Content(v.mem), Content(w.mem))

LEMMA MoveLink ==
  ASSUME NEW v, Good(v), NEW p \in TreeLinks(v.nodes), NEW x \in Refs, NEW s, s = Store(p, x),
         NEW w, LinkStep(v, p, s, w)
  PROVE  Moves(v, s, w) /\ Count(w) = Count(v)
<1>0. /\ w.mem = Put(v.mem, s) /\ Tree(w.mem, w.nodes, w.leaves)
      /\ w.age = [y \in DOMAIN w.age |-> w.age[y]]
      /\ \A y \in DOMAIN v.age : y \in DOMAIN w.age /\ w.age[y] = v.age[y]
      /\ \A y \in DOMAIN w.age : y \in DOMAIN v.age \/ (y \in Live(v) /\ w.age[y] \in Nat /\ w.age[y] + 1 = Count(v))
      /\ \A y \in DOMAIN w.age : y \notin Live(w)
      /\ \A y \in Live(v) : y \in Live(w) \/ y \in DOMAIN w.age
      /\ \A n \in v.nodes : n \notin w.nodes => \A j \in Slices : p # Child(n, j)
      /\ Changes(Content(v.mem), Content(w.mem))
  BY DEF LinkStep
<1>1. /\ Tree(v.mem, v.nodes, v.leaves) /\ Memory(v.mem) /\ Kept(v) \subseteq Objects /\ Count(v) \in Nat
      /\ v.nodes \subseteq Nodes /\ v.leaves \subseteq Leaves /\ Live(v) \subseteq Objects
      /\ p \in Links
  BY GoodFacts
<1>2. /\ \A q \in Links : q # p => w.mem[q] = v.mem[q]
      /\ w.mem[RemoveCount] = v.mem[RemoveCount]
      /\ \A y \in Objects : SameWords(v.mem, w.mem, y)
  BY <1>0, <1>1, Relink
<1>3. Count(w) = Count(v)
  BY <1>2 DEF Count
<1>4. \A y \in DOMAIN v.age : /\ y \in Objects /\ y \notin Live(v)
                              /\ v.age[y] \in Nat /\ v.age[y] < Count(v) /\ Count(v) <= v.age[y] + DeletedLife
  BY DEF Good
<1>5. \A y \in DOMAIN w.age : y \in Objects /\ w.age[y] \in Nat /\ w.age[y] < Count(w) /\ Count(w) <= w.age[y] + DeletedLife
  <2> TAKE y \in DOMAIN w.age
  <2>1. CASE y \in DOMAIN v.age
    BY <1>0, <1>3, <1>4, <2>1
  <2>2. CASE y \in Live(v) /\ w.age[y] \in Nat /\ w.age[y] + 1 = Count(v)
    <3>1. PICK a \in Nat : a = w.age[y]
      BY <2>2
    <3>2. a < a + 1 /\ a + 1 <= a + DeletedLife
      BY FanoutFacts
    <3> QED
      BY <1>0, <1>1, <1>3, <2>2, <3>1, <3>2
  <2> QED
    BY <1>0, <2>1, <2>2
<1>6. Good(w)
  BY <1>0, <1>5 DEF Good
<1>7. ASSUME NEW y \in Kept(v), y \in Nodes, y \notin w.nodes, NEW i \in Slices
      PROVE  w.mem[Child(y, i)] = v.mem[Child(y, i)]
  <2>1. Child(y, i) \in Links /\ Child(y, i)[2] = y /\ Child(y, i) # Root
    BY <1>7, PlaceFacts, PlacesApart
  <2>2. Child(y, i) # p
    <3>1. CASE y \in v.nodes
      BY <1>0, <1>7, <3>1
    <3>2. CASE y \notin v.nodes
      BY <2>1, <3>2 DEF TreeLinks
    <3> QED
      BY <3>1, <3>2
  <2> QED
    BY <1>2, <2>1, <2>2
<1>8. Keeps(v, w)
  <2>1. Count(v) <= Count(w)
    BY <1>1, <1>3
  <2>2. \A y \in Kept(v) : SameWords(v.mem, w.mem, y)
    BY <1>1, <1>2
  <2>3. \A y \in Live(v) : y \in Live(w) \/ (y \in DOMAIN w.age /\ w.age[y] + 1 = Count(w))
    BY <1>0, <1>3, <1>4
  <2> QED
    BY <1>0, <1>7, <2>1, <2>2, <2>3 DEF Keeps
<1> QED
  BY <1>0, <1>3, <1>6, <1>8 DEF Moves

LEMMA ContentOf ==
  ASSUME NEW m, NEW key \in Keys
  PROVE  Content(m)[key] = Lookup(m, key)
BY DEF Content

\* A leaf is linked.
LEMMA MoveInsert ==
  ASSUME NEW v, Good(v), NEW k \in Leaves, k \notin Kept(v), v.mem[Key(k)] \in Keys, v.mem[Value(k)] \in AllValues,
         NEW p \in Route(v.mem, v.nodes, v.mem[Key(k)]), v.mem[p] = Null, NEW s, s = Store(p, k),
         NEW w, w = View(Put(v.mem, s), v.nodes, v.leaves \union {k}, v.age)
  PROVE  /\ Moves(v, s, w) /\ Count(w) = Count(v)
         /\ Content(v.mem)[v.mem[Key(k)]] = Null
         /\ Content(w.mem) = [Content(v.mem) EXCEPT ![v.mem[Key(k)]] = v.mem[Value(k)]]
<1>1. w.mem = Put(v.mem, s) /\ w.nodes = v.nodes /\ w.leaves = v.leaves \union {k} /\ w.age = v.age
  BY DEF View
<1>2. /\ Tree(v.mem, v.nodes, v.leaves) /\ Memory(v.mem) /\ v.leaves \subseteq Leaves /\ k \in Refs /\ k \notin v.leaves
      /\ k \in Objects
  BY GoodFacts, RefFacts DEF Kept, Live
<1>3. Tree(w.mem, v.nodes, v.leaves \union {k})
  BY <1>1, <1>2, LinkLeaf
<1>4. PICK key \in Nat : key = v.mem[Key(k)]
  BY ShiftFacts
<1>5. p \in TreeLinks(v.nodes) /\ p \in Links
  BY <1>2, <1>4, RouteFacts, GoodFacts
<1>6. \A l \in Leaves : w.mem[Key(l)] = v.mem[Key(l)] /\ w.mem[Value(l)] = v.mem[Value(l)]
  BY <1>1, <1>2, <1>5, Relink
<1>7. /\ Lookup(v.mem, key) = Null
      /\ Content(w.mem) = [Content(v.mem) EXCEPT ![key] = v.mem[Value(k)]]
  <2>1. \A l \in v.leaves : w.mem[Key(l)] = v.mem[Key(l)] /\ w.mem[Value(l)] = v.mem[Value(l)]
    BY <1>2, <1>6
  <2>2. w.mem[Key(k)] = key /\ w.mem[Value(k)] = v.mem[Value(k)]
    BY <1>4, <1>6
  <2> QED
    <3>1. PICK m, m2, N, K, N2 : m = v.mem /\ m2 = w.mem /\ N = v.nodes /\ K = v.leaves /\ N2 = w.nodes
      OBVIOUS
    <3>2. Tree(m, N, K) /\ Tree(m2, N2, K \union {k}) /\ k \notin K
      BY <1>1, <1>2, <1>3, <3>1
    <3>3. \A l \in K : m2[Key(l)] = m[Key(l)] /\ m2[Value(l)] = m[Value(l)]
      BY <2>1, <3>1
    <3>4. Lookup(m, m2[Key(k)]) = Null /\ Content(m2) = [Content(m) EXCEPT ![m2[Key(k)]] = m2[Value(k)]]
      BY <3>2, <3>3, LeafAdded
    <3> QED
      BY <2>2, <3>1, <3>4
<1>8. Content(v.mem)[key] = Null
  BY <1>4, <1>7, ContentOf
<1>9. Changes(Content(v.mem), Content(w.mem))
  BY <1>4, <1>7, <1>8 DEF Changes
<1>10. Moves(v, s, w) /\ Count(w) = Count(v)
  <2>1. v.age = [y \in DOMAIN v.age |-> v.age[y]] /\ \A y \in DOMAIN v.age : y \notin Live(v) /\ y # k
    BY DEF Good, Kept
  <2>2. Live(w) = Live(v) \union {k}
    BY <1>1 DEF Live
  <2>3. w.age = [y \in DOMAIN w.age |-> w.age[y]] /\ \A y \in DOMAIN w.age : y \notin Live(w) /\ y \in DOMAIN v.age
    BY <1>1, <2>1, <2>2
  <2> QED
    <3>1. LinkStep(v, p, s, w)
      BY <1>1, <1>3, <1>9, <2>2, <2>3 DEF LinkStep
    <3> QED
      BY <1>2, <1>5, <3>1, MoveLink
<1> QED
  BY <1>4, <1>7, <1>8, <1>10

\* A new node is linked, with the leaf and what was there.
Gains(c, key, value) == [c EXCEPT ![key] = value]
SplitStep(v, k, key, x, p, s, w) ==
  /\ Good(v) /\ k \in Leaves /\ k \notin Kept(v) /\ key \in Keys /\ v.mem[Key(k)] = key
  /\ v.mem[Value(k)] \in AllValues /\ x \in Nodes /\ x \notin Kept(v)
  /\ p \in Route(v.mem, v.nodes, key) /\ v.mem[p] # Null /\ PathOf(v.mem, v.mem[p]) # key
  /\ v.mem[p] \in Nodes => ~Matches(v.mem, key, v.mem[p])
  /\ Splits(v.mem, x, key, k, v.mem[p]) /\ s = Store(p, x)
  /\ w = View(Put(v.mem, s), v.nodes \union {x}, v.leaves \union {k}, v.age)

LEMMA MoveSplit ==
  ASSUME NEW v, NEW k, NEW key, NEW x, NEW p, NEW s, NEW w, SplitStep(v, k, key, x, p, s, w)
  PROVE  /\ Moves(v, s, w) /\ Count(w) = Count(v)
         /\ Content(v.mem)[key] = Null
         /\ Content(w.mem) = Gains(Content(v.mem), key, v.mem[Value(k)])
<1> SUFFICES
      ASSUME Good(v), k \in Leaves, k \notin Kept(v), key \in Keys, v.mem[Key(k)] = key,
             v.mem[Value(k)] \in AllValues, x \in Nodes, x \notin Kept(v),
             p \in Route(v.mem, v.nodes, key), v.mem[p] # Null, PathOf(v.mem, v.mem[p]) # key,
             v.mem[p] \in Nodes => ~Matches(v.mem, key, v.mem[p]),
             Splits(v.mem, x, key, k, v.mem[p]), s = Store(p, x),
             w = View(Put(v.mem, s), v.nodes \union {x}, v.leaves \union {k}, v.age)
      PROVE  /\ Moves(v, s, w) /\ Count(w) = Count(v)
             /\ Content(v.mem)[key] = Null
             /\ Content(w.mem) = Gains(Content(v.mem), key, v.mem[Value(k)])
  BY DEF SplitStep
<1>1. w.mem = Put(v.mem, s) /\ w.nodes = v.nodes \union {x} /\ w.leaves = v.leaves \union {k} /\ w.age = v.age
  BY DEF View
<1>2. /\ Tree(v.mem, v.nodes, v.leaves) /\ Memory(v.mem) /\ v.leaves \subseteq Leaves /\ x \in Refs
      /\ k \notin v.leaves /\ x \notin v.nodes /\ x \in Objects
  BY GoodFacts, RefFacts DEF Kept, Live
<1>3. key \in KeyRange /\ key \in Nat
  BY ShiftFacts
<1>4. Tree(w.mem, v.nodes \union {x}, v.leaves \union {k})
  BY <1>1, <1>2, <1>3, SplitLink
<1>5. p \in TreeLinks(v.nodes) /\ p \in Links
  BY <1>2, <1>3, RouteFacts, GoodFacts
<1>6. \A l \in Leaves : w.mem[Key(l)] = v.mem[Key(l)] /\ w.mem[Value(l)] = v.mem[Value(l)]
  BY <1>1, <1>2, <1>5, Relink
<1>7. /\ Lookup(v.mem, key) = Null
      /\ Content(w.mem) = [Content(v.mem) EXCEPT ![key] = v.mem[Value(k)]]
  <2>1. \A l \in v.leaves : w.mem[Key(l)] = v.mem[Key(l)] /\ w.mem[Value(l)] = v.mem[Value(l)]
    BY <1>2, <1>6
  <2>2. w.mem[Key(k)] = key /\ w.mem[Value(k)] = v.mem[Value(k)]
    BY <1>6
  <2> QED
    <3>1. PICK m, m2, N, K, N2 : m = v.mem /\ m2 = w.mem /\ N = v.nodes /\ K = v.leaves /\ N2 = w.nodes
      OBVIOUS
    <3>2. Tree(m, N, K) /\ Tree(m2, N2, K \union {k}) /\ k \notin K
      BY <1>1, <1>2, <1>4, <3>1
    <3>3. \A l \in K : m2[Key(l)] = m[Key(l)] /\ m2[Value(l)] = m[Value(l)]
      BY <2>1, <3>1
    <3>4. Lookup(m, m2[Key(k)]) = Null /\ Content(m2) = [Content(m) EXCEPT ![m2[Key(k)]] = m2[Value(k)]]
      <4> HIDE <1>1, <1>4, <2>1, <2>2
      <4> QED
        BY <3>2, <3>3, LeafAdded, SMTT(60)
    <3> QED
      BY <2>2, <3>1, <3>4
<1>8. Content(v.mem)[key] = Null
  BY <1>7, ContentOf
<1>9. Changes(Content(v.mem), Content(w.mem))
  BY <1>7, <1>8 DEF Changes
<1>10. Moves(v, s, w) /\ Count(w) = Count(v)
  <2>1. v.age = [y \in DOMAIN v.age |-> v.age[y]] /\ \A y \in DOMAIN v.age : y \notin Live(v) /\ y # k /\ y # x
    BY DEF Good, Kept
  <2>2. Live(w) = Live(v) \union {k, x}
    BY <1>1 DEF Live
  <2>3. w.age = [y \in DOMAIN w.age |-> w.age[y]] /\ \A y \in DOMAIN w.age : y \notin Live(w) /\ y \in DOMAIN v.age
    BY <1>1, <2>1, <2>2
  <2>4. Tree(w.mem, w.nodes, w.leaves) /\ \A n \in v.nodes : n \in w.nodes
    BY <1>1, <1>4
  <2> QED
    <3>1. LinkStep(v, p, s, w)
      BY <1>1, <1>9, <2>2, <2>3, <2>4 DEF LinkStep
    <3> QED
      BY <1>2, <1>5, <3>1, MoveLink
<1> QED
  BY <1>7, <1>8, <1>10 DEF Gains

\* What leaves the tree in a removal that has counted itself.
Aged(v, x) == [y \in DOMAIN v.age \union {x} |-> IF y = x THEN Count(v) - 1 ELSE v.age[y]]

AgesOn(v, x, age) ==
  /\ age = [y \in DOMAIN age |-> age[y]] /\ DOMAIN age = DOMAIN v.age \union {x}
  /\ \A y \in DOMAIN v.age : y \in DOMAIN age /\ age[y] = v.age[y]
  /\ age[x] \in Nat /\ age[x] + 1 = Count(v)

LEMMA AgedFacts ==
  ASSUME NEW v, Good(v), NEW x \in Live(v), Count(v) > 0
  PROVE  AgesOn(v, x, Aged(v, x))
<1>1. x \notin DOMAIN v.age /\ Count(v) \in Nat
  BY GoodFacts DEF Good
<1>2. Count(v) - 1 \in Nat /\ Count(v) - 1 + 1 = Count(v)
  BY <1>1
<1>3. PICK age : age = Aged(v, x)
  OBVIOUS
<1>4. AgesOn(v, x, age)
  BY <1>1, <1>2, <1>3 DEF Aged, AgesOn
<1> QED
  BY <1>3, <1>4

\* A leaf leaves the tree.
LEMMA MoveUnlink ==
  ASSUME NEW v, Good(v), Count(v) > 0, NEW p \in TreeLinks(v.nodes), NEW k \in v.leaves, v.mem[p] = k,
         v.mem[Key(k)] \in Keys, Null \notin AllValues, NEW s, s = Store(p, Null),
         NEW w, w = View(Put(v.mem, s), v.nodes, v.leaves \ {k}, Aged(v, k))
  PROVE  /\ Moves(v, s, w) /\ Count(w) = Count(v)
         /\ Content(v.mem)[v.mem[Key(k)]] = v.mem[Value(k)]
         /\ Content(w.mem) = [Content(v.mem) EXCEPT ![v.mem[Key(k)]] = Null]
<1>1. w.mem = Put(v.mem, s) /\ w.nodes = v.nodes /\ w.leaves = v.leaves \ {k} /\ w.age = Aged(v, k)
  BY DEF View
<1>2. /\ Tree(v.mem, v.nodes, v.leaves) /\ Memory(v.mem) /\ v.leaves \subseteq Leaves /\ v.nodes \subseteq Nodes
      /\ Null \in Refs /\ k \in Live(v) /\ p \in Links
  BY GoodFacts, RefFacts DEF Live
<1>3. Tree(w.mem, v.nodes, v.leaves \ {k})
  BY <1>1, <1>2, UnlinkLeaf
<1>4. PICK key \in Keys : key = v.mem[Key(k)]
  OBVIOUS
<1>6. \A l \in Leaves : w.mem[Key(l)] = v.mem[Key(l)] /\ w.mem[Value(l)] = v.mem[Value(l)]
  BY <1>1, <1>2, Relink
<1>7. /\ Lookup(v.mem, key) = v.mem[Value(k)] /\ v.mem[Value(k)] \in AllValues
      /\ Content(w.mem) = [Content(v.mem) EXCEPT ![key] = Null]
  <2>1. \A l \in v.leaves : w.mem[Key(l)] = v.mem[Key(l)] /\ w.mem[Value(l)] = v.mem[Value(l)]
    BY <1>2, <1>6
  <2> QED
    <3>1. PICK m, m2, N, K, N2 : m = v.mem /\ m2 = w.mem /\ N = v.nodes /\ K = v.leaves /\ N2 = w.nodes
      OBVIOUS
    <3>2. Tree(m, N, K) /\ Tree(m2, N2, K \ {k}) /\ k \in K
      BY <1>1, <1>2, <1>3, <3>1
    <3>3. \A l \in K : m2[Key(l)] = m[Key(l)] /\ m2[Value(l)] = m[Value(l)]
      BY <2>1, <3>1
    <3>4. /\ Lookup(m, m[Key(k)]) = m[Value(k)] /\ m[Value(k)] \in AllValues
          /\ Content(m2) = [Content(m) EXCEPT ![m[Key(k)]] = Null]
      BY <3>2, <3>3, LeafTaken
    <3> QED
      BY <1>4, <3>1, <3>4
<1>8. Content(v.mem)[key] = v.mem[Value(k)]
  BY <1>4, <1>7, ContentOf
<1>9. Changes(Content(v.mem), Content(w.mem))
  BY <1>4, <1>7, <1>8 DEF Changes
<1>10. Moves(v, s, w) /\ Count(w) = Count(v)
  <2>1. /\ w.age = [y \in DOMAIN w.age |-> w.age[y]] /\ DOMAIN w.age = DOMAIN v.age \union {k}
        /\ \A y \in DOMAIN v.age : y \in DOMAIN w.age /\ w.age[y] = v.age[y]
        /\ w.age[k] \in Nat /\ w.age[k] + 1 = Count(v)
    <3>1. PICK age : age = w.age
      OBVIOUS
    <3>2. k \in Live(v) /\ age = Aged(v, k)
      BY <1>1, <1>2, <3>1
    <3>3. /\ age = [y \in DOMAIN age |-> age[y]] /\ DOMAIN age = DOMAIN v.age \union {k}
          /\ \A y \in DOMAIN v.age : y \in DOMAIN age /\ age[y] = v.age[y]
          /\ age[k] \in Nat /\ age[k] + 1 = Count(v)
      <4>1. AgesOn(v, k, age)
        BY <3>2, AgedFacts
      <4> QED
        BY <4>1 DEF AgesOn
    <3> QED
      BY <3>1, <3>3
  <2>2. Live(w) = Live(v) \ {k}
    BY <1>1, <1>2, RefFacts DEF Live
  <2>3. \A y \in DOMAIN w.age : y \notin Live(w)
    BY <2>1, <2>2 DEF Good
  <2>4. \A y \in DOMAIN w.age : y \in DOMAIN v.age \/ (y \in Live(v) /\ w.age[y] \in Nat /\ w.age[y] + 1 = Count(v))
    BY <1>2, <2>1
  <2>5. \A y \in Live(v) : y \in Live(w) \/ y \in DOMAIN w.age
    BY <2>1, <2>2
  <2>6. Tree(w.mem, w.nodes, w.leaves) /\ \A n \in v.nodes : n \in w.nodes
    BY <1>1, <1>3
  <2> QED
    <3>1. LinkStep(v, p, s, w)
      BY <1>1, <1>9, <2>1, <2>3, <2>4, <2>5, <2>6 DEF LinkStep
    <3> QED
      BY <1>2, <3>1, MoveLink
<1> QED
  BY <1>4, <1>7, <1>8, <1>10

\* A node with one child leaves the tree.
CollapseStep(v, p, n, i, s, w) ==
  /\ Good(v) /\ Count(v) > 0 /\ p \in TreeLinks(v.nodes) /\ n \in v.nodes /\ v.mem[p] = n
  /\ i \in Slices /\ v.mem[Child(n, i)] # Null
  /\ \A j \in Slices : j # i => v.mem[Child(n, j)] = Null
  /\ s = Store(p, v.mem[Child(n, i)])
  /\ w = View(Put(v.mem, s), v.nodes \ {n}, v.leaves, Aged(v, n))

LEMMA MoveCollapse ==
  ASSUME NEW v, NEW p, NEW n, NEW i, NEW s, NEW w, CollapseStep(v, p, n, i, s, w)
  PROVE  Moves(v, s, w) /\ Count(w) = Count(v) /\ Content(w.mem) = Content(v.mem)
<1>0. /\ Good(v) /\ Count(v) > 0 /\ p \in TreeLinks(v.nodes) /\ n \in v.nodes /\ v.mem[p] = n
      /\ i \in Slices /\ v.mem[Child(n, i)] # Null
      /\ \A j \in Slices : j # i => v.mem[Child(n, j)] = Null
      /\ s = Store(p, v.mem[Child(n, i)])
      /\ w = View(Put(v.mem, s), v.nodes \ {n}, v.leaves, Aged(v, n))
  BY DEF CollapseStep
<1>1. w.mem = Put(v.mem, s) /\ w.nodes = v.nodes \ {n} /\ w.leaves = v.leaves /\ w.age = Aged(v, n)
  BY <1>0 DEF View
<1>2. /\ Tree(v.mem, v.nodes, v.leaves) /\ Memory(v.mem) /\ v.leaves \subseteq Leaves /\ v.nodes \subseteq Nodes
      /\ n \in Live(v) /\ p \in Links
  BY <1>0, GoodFacts DEF Live
<1>3. PICK child : child = v.mem[Child(n, i)]
  OBVIOUS
<1>4. child \in Refs
  <2>1. Child(n, i) \in Links
    BY <1>0, <1>2, PlaceFacts
  <2> QED
    BY <1>0, <1>2, <1>3, <2>1 DEF Memory
<1>5. Tree(w.mem, v.nodes \ {n}, v.leaves) /\ \A j \in Slices : p # Child(n, j)
  <2>1. PICK m, m2, N, K : m = v.mem /\ m2 = w.mem /\ N = v.nodes /\ K = v.leaves
    OBVIOUS
  <2>2. NodeCollapse(m, N, K, n, p, i, m2)
    BY <1>0, <1>1, <1>2, <2>1 DEF NodeCollapse
  <2>3. Tree(m2, N \ {n}, K) /\ \A j \in Slices : p # Child(n, j)
    BY <2>2, CollapseNode
  <2> QED
    BY <1>0, <2>1, <2>3
<1>6. \A l \in Leaves : w.mem[Key(l)] = v.mem[Key(l)] /\ w.mem[Value(l)] = v.mem[Value(l)]
  BY <1>0, <1>1, <1>2, <1>3, <1>4, Relink
<1>7. Content(w.mem) = Content(v.mem)
  <2>1. \A l \in v.leaves : w.mem[Key(l)] = v.mem[Key(l)] /\ w.mem[Value(l)] = v.mem[Value(l)]
    BY <1>0, <1>2, <1>6
  <2> QED
    <3>1. PICK m, m2, N, K, N2 : m = v.mem /\ m2 = w.mem /\ N = v.nodes /\ K = v.leaves /\ N2 = w.nodes
      OBVIOUS
    <3>2. Tree(m, N, K) /\ Tree(m2, N2, K)
      BY <1>0, <1>1, <1>2, <1>5, <3>1
    <3>3. \A l \in K : m2[Key(l)] = m[Key(l)] /\ m2[Value(l)] = m[Value(l)]
      BY <1>0, <2>1, <3>1
    <3>4. Content(m2) = Content(m)
      BY <1>0, <3>2, <3>3, SameContent
    <3> QED
      BY <1>0, <3>1, <3>4
<1>9. Changes(Content(v.mem), Content(w.mem))
  BY <1>0, <1>7, ChangesNot
<1>10. Moves(v, s, w) /\ Count(w) = Count(v)
  <2>1. /\ w.age = [y \in DOMAIN w.age |-> w.age[y]] /\ DOMAIN w.age = DOMAIN v.age \union {n}
        /\ \A y \in DOMAIN v.age : y \in DOMAIN w.age /\ w.age[y] = v.age[y]
        /\ w.age[n] \in Nat /\ w.age[n] + 1 = Count(v)
    <3>1. PICK age : age = w.age
      OBVIOUS
    <3>2. n \in Live(v) /\ age = Aged(v, n)
      BY <1>0, <1>1, <1>2, <3>1
    <3>3. /\ age = [y \in DOMAIN age |-> age[y]] /\ DOMAIN age = DOMAIN v.age \union {n}
          /\ \A y \in DOMAIN v.age : y \in DOMAIN age /\ age[y] = v.age[y]
          /\ age[n] \in Nat /\ age[n] + 1 = Count(v)
      <4>1. AgesOn(v, n, age)
        BY <1>0, <3>2, AgedFacts
      <4> QED
        BY <1>0, <4>1 DEF AgesOn
    <3> QED
      BY <1>0, <3>1, <3>3
  <2>2. Live(w) = Live(v) \ {n}
    BY <1>0, <1>1, <1>2, RefFacts DEF Live
  <2>3. \A y \in DOMAIN w.age : y \notin Live(w)
    BY <1>0, <2>1, <2>2 DEF Good
  <2>4. \A y \in DOMAIN w.age : y \in DOMAIN v.age \/ (y \in Live(v) /\ w.age[y] \in Nat /\ w.age[y] + 1 = Count(v))
    BY <1>0, <1>2, <2>1
  <2>5. \A y \in Live(v) : y \in Live(w) \/ y \in DOMAIN w.age
    BY <1>0, <2>1, <2>2
  <2>6. Tree(w.mem, w.nodes, w.leaves) /\ \A y \in v.nodes : y \notin w.nodes => \A j \in Slices : p # Child(y, j)
    BY <1>0, <1>1, <1>5
  <2> QED
    <3>0. \A y \in DOMAIN v.age : y \in DOMAIN w.age /\ w.age[y] = v.age[y]
      BY <1>0, <2>1
    <3>1. LinkStep(v, p, s, w)
      BY <1>1, <1>9, <2>1, <2>3, <2>4, <2>5, <2>6, <3>0 DEF LinkStep
    <3>2. s = Store(p, child)
      BY <1>0, <1>3
    <3> QED
      BY <1>0, <1>4, <3>1, <3>2, MoveLink
<1> QED
  BY <1>0, <1>7, <1>10

-----------------------------------------------------------------------------
(* What a get may rely on                                                  *)

GetType == [pc : {"idle", "count", "root", "walk", "value", "recheck", "done"}, key : Nat, removes : Nat,
            at : Refs, result : AllValues \union Leaves \union {Null}, possible : SUBSET (AllValues \union {Null})]

\* F: what left the tree since the get counted the removals and is still as it was then.
Seen(g, v, F) ==
  /\ F \subseteq DOMAIN v.age /\ \A x \in F : g.removes <= v.age[x] + 1
  /\ \A x \in F : x \in Nodes => Matches(v.mem, v.mem[Path(x)], x)
  /\ \A x \in F : x \in Nodes => \A i \in Slices : v.mem[Child(x, i)] # Null =>
        v.mem[Child(x, i)] \in Live(v) \union F /\ Fits(v.mem, x, i, v.mem[Child(x, i)])
  /\ \A x \in F : x \in Nodes /\ Matches(v.mem, g.key, x) =>
        Fine(v.mem, g.key, g.possible, v.mem[Child(x, Slice(g.key, v.mem[Shift(x)]))])

\* The get is at an object of the tree or of F, and from there finds what it may answer.
Stands(g, v, F) ==
  /\ g.pc = "walk" => g.at \in Live(v) \union F \union {Null} /\ Fine(v.mem, g.key, g.possible, g.at)
  /\ g.pc = "value" => g.at \in Live(v) \union F /\ g.at \in Leaves /\ v.mem[Value(g.at)] \in g.possible
  /\ g.pc = "recheck" => g.result \in g.possible

Walking == {"root", "walk", "value", "recheck"}

GetOk(g, v) ==
  /\ g \in GetType
  /\ g.pc # "idle" => g.key \in Keys /\ Content(v.mem)[g.key] \in g.possible
  /\ g.pc = "value" => g.at \in Leaves
  /\ g.pc \in Walking => g.removes <= Count(v)
  /\ g.pc \in Walking /\ Count(v) < g.removes + DeletedLife => \E F : Seen(g, v, F) /\ Stands(g, v, F)
  /\ g.pc = "done" => g.result \in g.possible

LEMMA FineStays ==
  ASSUME NEW m, NEW m2, NEW x, x \in Objects => SameWords(m, m2, x), NEW key, NEW possible, NEW more,
         possible \subseteq more, x \in Refs, Fine(m, key, possible, x)
  PROVE  Fine(m2, key, more, x)
<1>1. Fine(m, key, more, x)
  BY DEF Fine
<1>2. CASE x \in Objects
  BY <1>1, <1>2, SameWordsFacts
<1>3. CASE x = Null
  BY <1>1, <1>3, RefFacts DEF Fine
<1> QED
  BY <1>2, <1>3, RefFacts

\* A store of the writer leaves a get what it relies on, with one more possible value.
LEMMA GetKeeps ==
  ASSUME NEW v, NEW s, NEW w, Moves(v, s, w), NEW g, GetOk(g, v), g.pc # "idle",
         NEW h, h = [g EXCEPT !.possible = @ \union {Content(w.mem)[g.key]}]
  PROVE  GetOk(h, w)
<1>1. Good(v) /\ Good(w) /\ Keeps(v, w)
  BY DEF Moves
<1>2. /\ Tree(v.mem, v.nodes, v.leaves) /\ Memory(v.mem) /\ Count(v) \in Nat /\ Kept(v) \subseteq Objects
      /\ v.nodes \subseteq Nodes /\ v.leaves \subseteq Leaves /\ Live(v) \subseteq Objects
  BY <1>1, GoodFacts
<1>3. Tree(w.mem, w.nodes, w.leaves) /\ Count(w) \in Nat /\ \A x \in DOMAIN w.age : x \notin Live(w)
  BY <1>1, GoodFacts DEF Good
<1>4. /\ h \in GetType /\ h.pc = g.pc /\ h.key = g.key /\ h.at = g.at /\ h.removes = g.removes /\ h.result = g.result
      /\ h.possible = g.possible \union {Content(w.mem)[g.key]} /\ g.key \in Keys
      /\ g.possible \subseteq h.possible /\ g.removes \in Nat
  <2>1. g \in GetType /\ g.key \in Keys
    BY DEF GetOk
  <2>2. PICK value : value = Content(w.mem)[g.key]
    OBVIOUS
  <2>3. value \in AllValues \union {Null}
    BY <1>3, <2>1, <2>2, ContentFacts
  <2>4. h = [g EXCEPT !.possible = @ \union {value}]
    BY <2>2
  <2> QED
    BY <2>1, <2>2, <2>3, <2>4 DEF GetType
<1>5. /\ Count(v) <= Count(w)
      /\ \A x \in Kept(v) : SameWords(v.mem, w.mem, x)
      /\ \A x \in Live(v) : x \in Live(w) \/ (x \in DOMAIN w.age /\ w.age[x] + 1 = Count(w))
      /\ \A x \in DOMAIN v.age : Count(w) <= v.age[x] + DeletedLife => x \in DOMAIN w.age /\ w.age[x] = v.age[x]
      /\ \A x \in Kept(v) : x \in Nodes /\ x \notin w.nodes
                              => \A i \in Slices : w.mem[Child(x, i)] = v.mem[Child(x, i)]
  BY <1>1 DEF Keeps
<1>6. g.pc \in Walking => h.removes <= Count(w)
  BY <1>2, <1>3, <1>4, <1>5 DEF GetOk
<1>7. ASSUME g.pc \in Walking, Count(w) < g.removes + DeletedLife
      PROVE  \E F : Seen(h, w, F) /\ Stands(h, w, F)
  <2>1. Count(v) < g.removes + DeletedLife
    BY <1>2, <1>3, <1>4, <1>5, <1>7, FanoutFacts
  <2>2. PICK F : Seen(g, v, F) /\ Stands(g, v, F)
    BY <1>7, <2>1 DEF GetOk
  <2> DEFINE E == F \union {x \in Live(v) : x \notin Live(w)}
  <2>3. \A x \in F : x \in DOMAIN v.age /\ g.removes <= v.age[x] + 1
    BY <2>2 DEF Seen
  <2>4. \A x \in F : x \in DOMAIN w.age /\ w.age[x] = v.age[x]
    <3> TAKE x \in F
    <3>1. PICK a, c, d, r \in Nat : a = v.age[x] /\ c = Count(w) /\ d = DeletedLife /\ r = g.removes
      BY <1>1, <1>3, <1>4, <2>3, FanoutFacts DEF Good
    <3>2. c < r + d /\ r <= a + 1
      BY <1>7, <2>3, <3>1
    <3>3. c <= a + d
      BY <3>2
    <3> QED
      BY <1>5, <2>3, <3>1, <3>3
  <2>5. \A x \in E : x \in DOMAIN w.age /\ h.removes <= w.age[x] + 1 /\ x \in Kept(v)
    <3> TAKE x \in E
    <3>1. CASE x \in F
      BY <1>4, <2>3, <2>4, <3>1 DEF Kept
    <3>2. CASE x \notin F
      <4>1. x \in DOMAIN w.age /\ w.age[x] + 1 = Count(w) /\ x \in Kept(v)
        BY <1>5, <3>2 DEF Kept
      <4> QED
        BY <1>4, <1>6, <1>7, <4>1
    <3> QED
      BY <3>1, <3>2
  <2>6. Live(v) \union F \subseteq Live(w) \union E /\ Live(v) \union F \subseteq Kept(v)
    BY <2>5 DEF Kept
  <2>7. ASSUME NEW x \in E, x \in Nodes
        PROVE  /\ Matches(v.mem, v.mem[Path(x)], x)
               /\ \A i \in Slices : v.mem[Child(x, i)] # Null =>
                     v.mem[Child(x, i)] \in Live(v) \union F /\ Fits(v.mem, x, i, v.mem[Child(x, i)])
               /\ Matches(v.mem, g.key, x) =>
                     Fine(v.mem, g.key, g.possible, v.mem[Child(x, Slice(g.key, v.mem[Shift(x)]))])
    <3>1. CASE x \in F
      BY <2>2, <2>7, <3>1 DEF Seen
    <3>2. CASE x \notin F
      <4>1. x \in v.nodes
        BY <1>2, <2>7, <3>2, RefFacts DEF Live
      <4>2. Matches(v.mem, v.mem[Path(x)], x)
        BY <1>2, <4>1 DEF Tree
      <4>3. ASSUME NEW i \in Slices, v.mem[Child(x, i)] # Null
            PROVE  v.mem[Child(x, i)] \in Live(v) \union F /\ Fits(v.mem, x, i, v.mem[Child(x, i)])
        <5>1. Child(x, i) \in TreeLinks(v.nodes)
          BY <1>2, <4>1, TreeLinkFacts
        <5> QED
          BY <1>2, <4>1, <4>3, <5>1 DEF Tree, Live
      <4>4. ASSUME Matches(v.mem, g.key, x)
            PROVE  Fine(v.mem, g.key, g.possible, v.mem[Child(x, Slice(g.key, v.mem[Shift(x)]))])
        <5>1. PICK m, N, K, key, p : /\ m = v.mem /\ N = v.nodes /\ K = v.leaves /\ key = g.key
                                     /\ p = Child(x, Slice(key, m[Shift(x)]))
          OBVIOUS
        <5>2. Tree(m, N, K) /\ key \in Nat /\ Lookup(m, key) \in g.possible
          BY <1>2, <1>4, <5>1, ShiftFacts, ContentOf DEF GetOk
        <5>3. p \in Route(m, N, key)
          BY <4>1, <4>4, <5>1, <5>2, RouteFacts
        <5>4. Fine(m, key, g.possible, m[p])
          BY <5>2, <5>3, RouteFine
        <5> QED
          BY <5>1, <5>4
      <4> QED
        BY <4>2, <4>3, <4>4
    <3> QED
      BY <3>1, <3>2
  <2>8. ASSUME NEW x \in E, x \in Nodes
        PROVE  /\ SameWords(v.mem, w.mem, x) /\ x \in Objects /\ w.mem[Shift(x)] = v.mem[Shift(x)]
               /\ w.mem[Path(x)] = v.mem[Path(x)]
               /\ \A i \in Slices : w.mem[Child(x, i)] = v.mem[Child(x, i)]
    <3>1. x \in Kept(v) /\ x \notin w.nodes /\ x \in Objects
      BY <1>2, <1>3, <2>5 DEF Live
    <3> QED
      BY <1>5, <2>8, <3>1 DEF SameWords
  <2>9. Seen(h, w, E)
    <3>1. \A x \in E : x \in Nodes => Matches(w.mem, w.mem[Path(x)], x)
      BY <2>7, <2>8, SameWordsFacts
    <3>2. ASSUME NEW x \in E, x \in Nodes, NEW i \in Slices, w.mem[Child(x, i)] # Null
          PROVE  w.mem[Child(x, i)] \in Live(w) \union E /\ Fits(w.mem, x, i, w.mem[Child(x, i)])
      <4>1. PICK y : y = v.mem[Child(x, i)]
        OBVIOUS
      <4>2. w.mem[Child(x, i)] = y
        BY <2>8, <3>2, <4>1
      <4>3. y \in Live(v) \union F /\ Fits(v.mem, x, i, y)
        BY <2>7, <3>2, <4>1, <4>2
      <4>4. y \in Live(w) \union E /\ y \in Kept(v) /\ y \in Objects /\ SameWords(v.mem, w.mem, y)
        BY <1>2, <1>5, <2>6, <4>3
      <4>5. Fits(w.mem, x, i, y)
        <5>1. PICK m, m2 : m = v.mem /\ m2 = w.mem
          OBVIOUS
        <5>2. Fits(m2, x, i, y) = Fits(m, x, i, y)
          BY <2>8, <3>2, <4>4, <5>1, SameWordsFacts
        <5> QED
          BY <4>3, <5>1, <5>2
      <4> QED
        BY <4>2, <4>4, <4>5
    <3>3. ASSUME NEW x \in E, x \in Nodes, Matches(w.mem, h.key, x)
          PROVE  Fine(w.mem, h.key, h.possible, w.mem[Child(x, Slice(h.key, w.mem[Shift(x)]))])
      <4>1. PICK i : i = Slice(g.key, v.mem[Shift(x)])
        OBVIOUS
      <4>2. i = Slice(h.key, w.mem[Shift(x)]) /\ i \in Slices
        <5>1. g.key \in Nat
          BY <1>4, ShiftFacts
        <5> QED
          BY <1>2, <1>4, <2>8, <3>3, <4>1, <5>1, NodeFacts
      <4>3. PICK y : y = v.mem[Child(x, i)]
        OBVIOUS
      <4>4. w.mem[Child(x, i)] = y
        BY <2>8, <3>3, <4>2, <4>3
      <4>5. Matches(v.mem, g.key, x)
        BY <1>4, <2>8, <3>3, SameWordsFacts
      <4>6. Fine(v.mem, g.key, g.possible, y)
        BY <2>7, <3>3, <4>1, <4>3, <4>5
      <4>7. y \in Refs /\ (y \in Objects => SameWords(v.mem, w.mem, y))
        <5>1. y # Null => y \in Live(v) \union F
          BY <2>7, <3>3, <4>2, <4>3
        <5>2. y # Null => y \in Kept(v)
          BY <2>6, <5>1
        <5> QED
          BY <1>2, <1>5, <5>2, RefFacts
      <4>8. PICK m, m2, more : m = v.mem /\ m2 = w.mem /\ more = h.possible
        OBVIOUS
      <4>9. Fine(m2, g.key, more, y)
        BY <1>4, <4>6, <4>7, <4>8, FineStays
      <4> QED
        BY <1>4, <4>2, <4>4, <4>8, <4>9
    <3>4. E \subseteq DOMAIN w.age /\ \A x \in E : h.removes <= w.age[x] + 1
      BY <2>5
    <3> HIDE DEF E
    <3> QED
      BY <3>1, <3>2, <3>3, <3>4 DEF Seen
  <2>10. Stands(h, w, E)
    <3>1. ASSUME g.pc = "walk"
          PROVE  g.at \in Live(w) \union E \union {Null} /\ Fine(w.mem, h.key, h.possible, g.at)
      <4>1. g.at \in Live(v) \union F \union {Null} /\ Fine(v.mem, g.key, g.possible, g.at)
        BY <2>2, <3>1 DEF Stands
      <4>2. g.at \in Refs /\ (g.at \in Objects => SameWords(v.mem, w.mem, g.at))
        <5>1. g.at = Null \/ g.at \in Kept(v)
          BY <2>6, <4>1
        <5> QED
          BY <1>2, <1>5, <5>1, RefFacts
      <4>3. PICK m, m2, more, x : m = v.mem /\ m2 = w.mem /\ more = h.possible /\ x = g.at
        OBVIOUS
      <4>4. Fine(m2, g.key, more, x)
        BY <1>4, <4>1, <4>2, <4>3, FineStays
      <4>5. g.at \in Live(w) \union E \union {Null}
        BY <2>6, <4>1
      <4> QED
        BY <1>4, <4>3, <4>4, <4>5
    <3>2. ASSUME g.pc = "value"
          PROVE  g.at \in Live(w) \union E /\ g.at \in Leaves /\ w.mem[Value(g.at)] \in h.possible
      <4>1. g.at \in Live(v) \union F /\ g.at \in Leaves /\ v.mem[Value(g.at)] \in g.possible
        BY <2>2, <3>2 DEF Stands
      <4>2. g.at \in Kept(v) /\ g.at \in Live(w) \union E
        BY <2>6, <4>1
      <4>3. w.mem[Value(g.at)] = v.mem[Value(g.at)]
        BY <1>5, <4>1, <4>2 DEF SameWords
      <4> QED
        BY <1>4, <4>1, <4>2, <4>3
    <3>3. g.pc = "recheck" => g.result \in h.possible
      BY <1>4, <2>2 DEF Stands
    <3> HIDE DEF E
    <3> QED
      BY <1>4, <3>1, <3>2, <3>3 DEF Stands
  <2> QED
    BY <2>9, <2>10
<1>8. Content(w.mem)[h.key] \in h.possible
  BY <1>4
<1>9. (h.pc = "value" => h.at \in Leaves) /\ (h.pc = "done" => h.result \in h.possible)
  BY <1>4 DEF GetOk
<1> QED
  BY <1>4, <1>6, <1>7, <1>8, <1>9 DEF GetOk

\* The loads of a get, with the words of v.
LEMMA GetIdle ==
  ASSUME NEW v
  PROVE  GetOk(NoGet, v)
<1>1. NoGet \in GetType /\ NoGet.pc = "idle"
  BY RefFacts DEF NoGet, GetType
<1> QED
  BY <1>1 DEF GetOk, Walking

LEMMA GetStarts ==
  ASSUME NEW v, Good(v), NEW key \in Keys,
         NEW h, h = [[NoGet EXCEPT !.key = key, !.possible = {Content(v.mem)[key]}] EXCEPT !.pc = "count"]
  PROVE  GetOk(h, v)
<1>1. PICK value : value = Content(v.mem)[key]
  OBVIOUS
<1>2. value \in AllValues \union {Null} /\ key \in Nat
  <2>1. PICK m, N, K : m = v.mem /\ N = v.nodes /\ K = v.leaves
    OBVIOUS
  <2>2. Tree(m, N, K)
    BY <2>1 DEF Good
  <2> QED
    BY <1>1, <2>1, <2>2, ContentFacts
<1>3. h = [pc |-> "count", key |-> key, removes |-> 0, at |-> Null, result |-> Null, possible |-> {value}]
  BY <1>1 DEF NoGet
<1>4. h \in GetType
  BY <1>2, <1>3, RefFacts DEF GetType
<1> QED
  BY <1>1, <1>3, <1>4 DEF GetOk, Walking

LEMMA GetCounts ==
  ASSUME NEW v, Good(v), NEW g, GetOk(g, v), g.pc = "count",
         NEW h, h = [[g EXCEPT !.removes = Count(v)] EXCEPT !.pc = "root"]
  PROVE  GetOk(h, v)
<1>1. Count(v) \in Nat /\ g \in GetType
  BY GoodFacts DEF GetOk
<1>2. /\ h \in GetType /\ h.pc = "root" /\ h.removes = Count(v) /\ h.key = g.key /\ h.possible = g.possible
  BY <1>1 DEF GetType
<1>3. Seen(h, v, {}) /\ Stands(h, v, {})
  BY <1>2 DEF Seen, Stands
<1>4. h.removes <= Count(v)
  BY <1>1, <1>2
<1> QED
  BY <1>2, <1>3, <1>4 DEF GetOk, Walking

LEMMA SeenFacts ==
  ASSUME NEW v, NEW g, NEW h, NEW F, Seen(g, v, F), h.removes = g.removes, h.key = g.key, h.possible = g.possible
  PROVE  Seen(h, v, F)
BY DEF Seen

\* On the route of its key the get is fine.
LEMMA FineOnRoute ==
  ASSUME NEW v, Good(v), NEW key \in Keys, NEW possible, Content(v.mem)[key] \in possible,
         NEW p \in Route(v.mem, v.nodes, key)
  PROVE  Fine(v.mem, key, possible, v.mem[p]) /\ v.mem[p] \in Live(v) \union {Null}
<1>1. PICK m, N, K : m = v.mem /\ N = v.nodes /\ K = v.leaves
  OBVIOUS
<1>2. Tree(m, N, K) /\ key \in Nat /\ Lookup(m, key) \in possible
  BY <1>1, ShiftFacts, ContentOf DEF Good
<1>3. p \in Route(m, N, key)
  BY <1>1
<1>4. Fine(m, key, possible, m[p])
  BY <1>2, <1>3, RouteFine
<1>5. p \in TreeLinks(N)
  BY <1>2, <1>3, RouteFacts
<1> QED
  BY <1>1, <1>2, <1>4, <1>5 DEF Tree, Live

LEMMA GetRoot ==
  ASSUME NEW v, Good(v), NEW g, GetOk(g, v), g.pc = "root",
         NEW h, h = [[g EXCEPT !.at = v.mem[Root]] EXCEPT !.pc = "walk"]
  PROVE  GetOk(h, v)
<1>1. g \in GetType /\ g.key \in Keys /\ Content(v.mem)[g.key] \in g.possible
  BY DEF GetOk
<1>2. Tree(v.mem, v.nodes, v.leaves) /\ Memory(v.mem) /\ v.mem[Root] \in Refs
  BY GoodFacts, PlaceFacts DEF Memory
<1>3. /\ h \in GetType /\ h.pc = "walk" /\ h.removes = g.removes /\ h.key = g.key /\ h.possible = g.possible
      /\ h.at = v.mem[Root]
  BY <1>1, <1>2 DEF GetType
<1>4. Fine(v.mem, g.key, g.possible, v.mem[Root]) /\ v.mem[Root] \in Live(v) \union {Null}
  <2>1. Root \in Route(v.mem, v.nodes, g.key)
    BY DEF Route
  <2> QED
    BY <1>1, <2>1, FineOnRoute
<1>5. ASSUME Count(v) < g.removes + DeletedLife PROVE \E F : Seen(h, v, F) /\ Stands(h, v, F)
  <2>1. PICK F : Seen(g, v, F)
    BY <1>5 DEF GetOk, Walking
  <2>2. Seen(h, v, F)
    BY <1>3, <2>1, SeenFacts
  <2>3. Stands(h, v, F)
    BY <1>3, <1>4 DEF Stands
  <2> QED
    BY <2>2, <2>3
<1> QED
  BY <1>1, <1>3, <1>5 DEF GetOk, Walking

LEMMA GetChild ==
  ASSUME NEW v, Good(v), NEW g, GetOk(g, v), g.pc = "walk", g.at \in Nodes,
         NEW h, h = [[g EXCEPT !.at = v.mem[Child(@, Slice(g.key, v.mem[Shift(@)]))]] EXCEPT !.pc = "walk"]
  PROVE  GetOk(h, v)
<1>1. g \in GetType /\ g.key \in Keys /\ Content(v.mem)[g.key] \in g.possible /\ g.key \in Nat
  BY ShiftFacts DEF GetOk
<1>2. PICK n, i, y : n = g.at /\ i = Slice(g.key, v.mem[Shift(n)]) /\ y = v.mem[Child(n, i)]
  OBVIOUS
<1>3. Tree(v.mem, v.nodes, v.leaves) /\ Memory(v.mem) /\ n \in Nodes /\ i \in Slices /\ y \in Refs
  <2>1. Tree(v.mem, v.nodes, v.leaves) /\ Memory(v.mem) /\ n \in Nodes
    BY <1>2, GoodFacts
  <2>2. i \in Slices
    BY <1>1, <1>2, <2>1, NodeFacts
  <2>3. Child(n, i) \in Links
    BY <2>1, <2>2, PlaceFacts
  <2> QED
    BY <1>2, <2>1, <2>2, <2>3 DEF Memory
<1>4. /\ h \in GetType /\ h.pc = "walk" /\ h.removes = g.removes /\ h.key = g.key /\ h.possible = g.possible
      /\ h.at = y
  <2>1. h = [[g EXCEPT !.at = y] EXCEPT !.pc = "walk"]
    BY <1>1, <1>2 DEF GetType
  <2> QED
    BY <1>1, <1>3, <2>1 DEF GetType
<1>5. ASSUME Count(v) < g.removes + DeletedLife PROVE \E F : Seen(h, v, F) /\ Stands(h, v, F)
  <2>1. PICK F : Seen(g, v, F) /\ Stands(g, v, F)
    BY <1>5 DEF GetOk, Walking
  <2>2. Seen(h, v, F)
    BY <1>4, <2>1, SeenFacts
  <2>3. n \in Live(v) \union F /\ Fine(v.mem, g.key, g.possible, n)
    BY <1>2, <1>3, <2>1, RefFacts DEF Stands
  <2>4. /\ Matches(v.mem, v.mem[Path(n)], n)
        /\ y # Null => y \in Live(v) \union F /\ Fits(v.mem, n, i, y)
    <3>1. CASE n \in F
      BY <1>2, <1>3, <2>1, <3>1 DEF Seen
    <3>2. CASE n \in Live(v)
      <4>1. n \in v.nodes /\ v.nodes \subseteq Nodes
        BY <1>3, <3>2, GoodFacts, RefFacts DEF Live
      <4>2. Child(n, i) \in TreeLinks(v.nodes)
        BY <1>3, <4>1, TreeLinkFacts
      <4> QED
        BY <1>2, <1>3, <4>1, <4>2 DEF Tree, Live
    <3> QED
      BY <2>3, <3>1, <3>2
  <2>5. Fine(v.mem, g.key, g.possible, y)
    <3>1. CASE Matches(v.mem, g.key, n) /\ n \in F
      BY <1>2, <1>3, <2>1, <3>1 DEF Seen
    <3>2. CASE Matches(v.mem, g.key, n) /\ n \in Live(v)
      <4>1. n \in v.nodes
        BY <1>3, <3>2, GoodFacts, RefFacts DEF Live
      <4>2. Child(n, i) \in Route(v.mem, v.nodes, g.key)
        BY <1>2, <3>2, <4>1 DEF Route
      <4> QED
        BY <1>1, <1>2, <4>2, FineOnRoute
    <3>3. CASE ~Matches(v.mem, g.key, n)
      <4>1. Null \in g.possible
        BY <1>3, <2>3, <3>3 DEF Fine
      <4>2. y \in Leaves => v.mem[Key(y)] # g.key
        <5>1. SUFFICES ASSUME y \in Leaves, v.mem[Key(y)] = g.key PROVE FALSE
          OBVIOUS
        <5>2. Matches(v.mem, PathOf(v.mem, y), n)
          BY <2>4, <5>1, RefFacts DEF Fits
        <5> QED
          BY <3>3, <5>1, <5>2 DEF PathOf
      <4> QED
        BY <4>1, <4>2 DEF Fine
    <3> QED
      BY <2>3, <3>1, <3>2, <3>3
  <2>6. Stands(h, v, F)
    BY <1>4, <2>4, <2>5 DEF Stands
  <2> QED
    BY <2>2, <2>6
<1> QED
  BY <1>1, <1>4, <1>5 DEF GetOk, Walking

LEMMA GetHits ==
  ASSUME NEW v, Good(v), NEW g, GetOk(g, v), g.pc = "walk", g.at \notin Nodes, g.at # Null,
         v.mem[Key(g.at)] = g.key, NEW h, h = [g EXCEPT !.pc = "value"]
  PROVE  GetOk(h, v)
<1>1. g \in GetType /\ g.key \in Keys /\ Content(v.mem)[g.key] \in g.possible
  BY DEF GetOk
<1>2. g.at \in Leaves
  BY <1>1, RefFacts DEF GetType, Objects
<1>3. /\ h \in GetType /\ h.pc = "value" /\ h.removes = g.removes /\ h.key = g.key /\ h.possible = g.possible
      /\ h.at = g.at
  BY <1>1 DEF GetType
<1>4. ASSUME Count(v) < g.removes + DeletedLife PROVE \E F : Seen(h, v, F) /\ Stands(h, v, F)
  <2>1. PICK F : Seen(g, v, F) /\ Stands(g, v, F)
    BY <1>4 DEF GetOk, Walking
  <2>2. Seen(h, v, F)
    BY <1>3, <2>1, SeenFacts
  <2>3. g.at \in Live(v) \union F /\ v.mem[Value(g.at)] \in g.possible
    BY <1>2, <2>1 DEF Stands, Fine
  <2>4. Stands(h, v, F)
    BY <1>2, <1>3, <2>3 DEF Stands
  <2> QED
    BY <2>2, <2>4
<1> QED
  BY <1>1, <1>2, <1>3, <1>4 DEF GetOk, Walking

LEMMA GetMisses ==
  ASSUME NEW v, Good(v), NEW g, GetOk(g, v), g.pc = "walk", g.at \notin Nodes,
         ~(g.at # Null /\ v.mem[Key(g.at)] = g.key),
         NEW h, h = [[g EXCEPT !.at = Null, !.result = Null] EXCEPT !.pc = "recheck"]
  PROVE  GetOk(h, v)
<1>1. g \in GetType /\ g.key \in Keys /\ Content(v.mem)[g.key] \in g.possible
  BY DEF GetOk
<1>2. g.at \in Leaves \/ g.at = Null
  BY <1>1, RefFacts DEF GetType, Objects
<1>3. /\ h \in GetType /\ h.pc = "recheck" /\ h.removes = g.removes /\ h.key = g.key /\ h.possible = g.possible
      /\ h.result = Null
  BY <1>1, RefFacts DEF GetType
<1>4. ASSUME Count(v) < g.removes + DeletedLife PROVE \E F : Seen(h, v, F) /\ Stands(h, v, F)
  <2>1. PICK F : Seen(g, v, F) /\ Stands(g, v, F)
    BY <1>4 DEF GetOk, Walking
  <2>2. Seen(h, v, F)
    BY <1>3, <2>1, SeenFacts
  <2>3. Null \in g.possible
    BY <1>2, <2>1, RefFacts DEF Stands, Fine
  <2>4. Stands(h, v, F)
    BY <1>3, <2>3 DEF Stands
  <2> QED
    BY <2>2, <2>4
<1> QED
  BY <1>1, <1>3, <1>4 DEF GetOk, Walking

LEMMA GetValue ==
  ASSUME NEW v, Good(v), NEW g, GetOk(g, v), g.pc = "value",
         NEW h, h = [[g EXCEPT !.at = Null, !.result = v.mem[Value(g.at)]] EXCEPT !.pc = "recheck"]
  PROVE  GetOk(h, v)
<1>1. g \in GetType /\ g.key \in Keys /\ Content(v.mem)[g.key] \in g.possible /\ g.at \in Leaves
  BY DEF GetOk
<1>2. PICK value : value = v.mem[Value(g.at)]
  OBVIOUS
<1>3. value \in AllValues \union Leaves \union {Null}
  <2>1. Memory(v.mem)
    BY GoodFacts
  <2> QED
    BY <1>1, <1>2, <2>1 DEF Memory
<1>4. /\ h \in GetType /\ h.pc = "recheck" /\ h.removes = g.removes /\ h.key = g.key /\ h.possible = g.possible
      /\ h.result = value
  BY <1>1, <1>2, <1>3, RefFacts DEF GetType
<1>5. ASSUME Count(v) < g.removes + DeletedLife PROVE \E F : Seen(h, v, F) /\ Stands(h, v, F)
  <2>1. PICK F : Seen(g, v, F) /\ Stands(g, v, F)
    BY <1>5 DEF GetOk, Walking
  <2>2. Seen(h, v, F)
    BY <1>4, <2>1, SeenFacts
  <2>3. Stands(h, v, F)
    BY <1>2, <1>4, <2>1 DEF Stands
  <2> QED
    BY <2>2, <2>3
<1> QED
  BY <1>1, <1>4, <1>5 DEF GetOk, Walking

LEMMA GetAgain ==
  ASSUME NEW v, NEW g, GetOk(g, v), g.pc = "recheck",
         NEW h, h = [[g EXCEPT !.removes = 0, !.result = Null] EXCEPT !.pc = "count"]
  PROVE  GetOk(h, v)
<1>1. g \in GetType /\ g.key \in Keys /\ Content(v.mem)[g.key] \in g.possible
  BY DEF GetOk
<1>2. h \in GetType /\ h.pc = "count" /\ h.key = g.key /\ h.possible = g.possible
  BY <1>1, RefFacts DEF GetType
<1> QED
  BY <1>1, <1>2 DEF GetOk, Walking

LEMMA GetDone ==
  ASSUME NEW v, Good(v), NEW g, GetOk(g, v), g.pc = "recheck", ~IsStale(g.removes, Count(v)),
         NEW h, h = [[g EXCEPT !.removes = 0] EXCEPT !.pc = "done"]
  PROVE  GetOk(h, v) /\ h.result \in g.possible /\ h.result = g.result /\ h.possible = g.possible /\ h.key = g.key
<1>1. g \in GetType /\ g.key \in Keys /\ Content(v.mem)[g.key] \in g.possible
  BY DEF GetOk
<1>2. h \in GetType /\ h.pc = "done" /\ h.key = g.key /\ h.possible = g.possible /\ h.result = g.result
  BY <1>1 DEF GetType
<1>3. Count(v) < g.removes + DeletedLife
  <2>1. PICK c, r, d \in Nat : c = Count(v) /\ r = g.removes /\ d = DeletedLife
    BY <1>1, GoodFacts, FanoutFacts DEF GetType
  <2>2. ~(r + d <= c)
    BY <2>1 DEF IsStale
  <2>3. c < r + d
    BY <2>2
  <2> QED
    BY <2>1, <2>3
<1>4. g.result \in g.possible
  BY <1>3 DEF GetOk, Walking, Stands
<1> QED
  BY <1>1, <1>2, <1>4 DEF GetOk, Walking

-----------------------------------------------------------------------------
(* The stores of a call, one after the other                               *)

Steps(s) == \E S : s \in Seq(S)

Runs(v, s, w) ==
  /\ Good(v) /\ Steps(s)
  /\ \E h : h[0] = v /\ h[Len(s)] = w /\ \A i \in 1 .. Len(s) : Moves(h[i - 1], s[i], h[i])

LEMMA RunsNone ==
  ASSUME NEW v, Good(v)
  PROVE  Runs(v, << >>, v)
<1>1. Steps(<< >>) /\ Len(<< >>) = 0
  <2>1. << >> \in Seq({}) /\ Len(<< >>) = 0
    OBVIOUS
  <2> QED
    BY <2>1 DEF Steps
<1> DEFINE h == [i \in {0} |-> v]
<1>2. h[0] = v
  OBVIOUS
<1> HIDE DEF h
<1> QED
  BY <1>1, <1>2 DEF Runs

LEMMA RunsNoneOnly ==
  ASSUME NEW v, NEW w, Runs(v, << >>, w)
  PROVE  w = v
<1>1. Len(<< >>) = 0
  OBVIOUS
<1> QED
  BY <1>1 DEF Runs

LEMMA RunsOne ==
  ASSUME NEW v, NEW s, NEW w, Moves(v, s, w)
  PROVE  Runs(v, <<s>>, w)
<1>1. Steps(<<s>>) /\ Len(<<s>>) = 1 /\ <<s>>[1] = s
  <2>1. <<s>> \in Seq({s}) /\ Len(<<s>>) = 1 /\ <<s>>[1] = s
    OBVIOUS
  <2> QED
    BY <2>1 DEF Steps
<1> DEFINE h == [i \in 0 .. 1 |-> IF i = 0 THEN v ELSE w]
<1>2. h[0] = v /\ h[1] = w
  OBVIOUS
<1>3. PICK t : t = <<s>>
  OBVIOUS
<1>4. \A i \in 1 .. Len(t) : Moves(h[i - 1], t[i], h[i])
  <2> TAKE i \in 1 .. Len(t)
  <2>1. i = 1 /\ i - 1 = 0
    BY <1>1, <1>3
  <2> HIDE DEF h
  <2> QED
    BY <1>1, <1>2, <1>3, <2>1
<1>5. Good(v)
  BY DEF Moves
<1> HIDE DEF h
<1> QED
  BY <1>1, <1>2, <1>3, <1>4, <1>5 DEF Runs

LEMMA StepsConcat ==
  ASSUME NEW s, NEW t, Steps(s), Steps(t)
  PROVE  /\ Steps(s \o t) /\ Len(s) \in Nat /\ Len(t) \in Nat /\ Len(s \o t) = Len(s) + Len(t)
         /\ \A i \in 1 .. Len(s) : (s \o t)[i] = s[i]
         /\ \A i \in 1 .. Len(t) : (s \o t)[Len(s) + i] = t[i]
<1>1. PICK S : s \in Seq(S)
  BY DEF Steps
<1>2. PICK T : t \in Seq(T)
  BY DEF Steps
<1>3. PICK U : U = S \union T
  OBVIOUS
<1>4. s \in Seq(U) /\ t \in Seq(U)
  <2>1. s \in [1 .. Len(s) -> S] /\ Len(s) \in Nat /\ t \in [1 .. Len(t) -> T] /\ Len(t) \in Nat
    BY <1>1, <1>2
  <2>2. s \in [1 .. Len(s) -> U] /\ t \in [1 .. Len(t) -> U]
    BY <1>3, <2>1
  <2> QED
    BY <2>1, <2>2, SeqDef
<1>5. s \o t \in Seq(U) /\ Len(s \o t) = Len(s) + Len(t) /\ Len(s) \in Nat /\ Len(t) \in Nat
  BY <1>4
<1>6. \A i \in 1 .. Len(s) : (s \o t)[i] = s[i]
  BY <1>4
<1>7. \A i \in 1 .. Len(t) : (s \o t)[Len(s) + i] = t[i]
  BY <1>4
<1> QED
  BY <1>5, <1>6, <1>7 DEF Steps

LEMMA RunsOn ==
  ASSUME NEW u, NEW s, NEW v, Runs(u, s, v), NEW t, NEW w, Runs(v, t, w)
  PROVE  Runs(u, s \o t, w)
<1>1. Steps(s) /\ Steps(t) /\ Good(u)
  BY DEF Runs
<1>2. PICK q : q = s \o t
  OBVIOUS
<1>3. /\ Steps(q) /\ Len(s) \in Nat /\ Len(t) \in Nat /\ Len(q) = Len(s) + Len(t)
      /\ \A i \in 1 .. Len(s) : q[i] = s[i]
      /\ \A i \in 1 .. Len(t) : q[Len(s) + i] = t[i]
  BY <1>1, <1>2, StepsConcat
<1>4. PICK g : g[0] = u /\ g[Len(s)] = v /\ \A i \in 1 .. Len(s) : Moves(g[i - 1], s[i], g[i])
  BY DEF Runs
<1>5. PICK k : k[0] = v /\ k[Len(t)] = w /\ \A i \in 1 .. Len(t) : Moves(k[i - 1], t[i], k[i])
  BY DEF Runs
<1>6. PICK a, b \in Nat : a = Len(s) /\ b = Len(t)
  BY <1>3
<1> DEFINE h == [i \in 0 .. a + b |-> IF i <= a THEN g[i] ELSE k[i - a]]
<1>7. h[0] = u /\ h[a + b] = w
  <2>1. CASE b = 0
    BY <1>4, <1>5, <1>6, <2>1
  <2>2. CASE b # 0
    <3>1. ~(a + b <= a) /\ a + b - a = b /\ 0 <= a /\ 0 \in 0 .. a + b /\ a + b \in 0 .. a + b
      BY <2>2
    <3> QED
      BY <1>4, <1>5, <1>6, <3>1
  <2> QED
    BY <2>1, <2>2
<1>8. ASSUME NEW i \in 1 .. a + b PROVE Moves(h[i - 1], q[i], h[i])
  <2>1. CASE i <= a
    <3>1. i \in 1 .. a /\ i - 1 <= a /\ i - 1 \in 0 .. a + b /\ i \in 0 .. a + b
      BY <2>1
    <3>2. h[i - 1] = g[i - 1] /\ h[i] = g[i]
      BY <2>1, <3>1
    <3> HIDE DEF h
    <3> QED
      BY <1>3, <1>4, <1>6, <3>1, <3>2
  <2>2. CASE i > a
    <3>1. PICK j \in 1 .. b : i = a + j
      <4>1. i - a \in 1 .. b /\ i = a + (i - a)
        BY <2>2
      <4> QED
        BY <4>1
    <3>2. h[i] = k[j]
      <4>1. ~(i <= a) /\ i - a = j /\ i \in 0 .. a + b
        BY <2>2, <3>1
      <4> QED
        BY <4>1
    <3>3. h[i - 1] = k[j - 1]
      <4>1. CASE j = 1
        <5>1. i - 1 = a /\ a \in 0 .. a + b /\ j - 1 = 0
          BY <3>1, <4>1
        <5> QED
          BY <1>4, <1>5, <1>6, <5>1
      <4>2. CASE j # 1
        <5>1. ~(i - 1 <= a) /\ i - 1 - a = j - 1 /\ i - 1 \in 0 .. a + b
          BY <3>1, <4>2
        <5> QED
          BY <5>1
      <4> QED
        BY <4>1, <4>2
    <3>4. q[i] = t[j]
      BY <1>3, <1>6, <3>1
    <3> HIDE DEF h
    <3> QED
      BY <1>5, <1>6, <3>1, <3>2, <3>3, <3>4
  <2> QED
    BY <2>1, <2>2
<1> HIDE DEF h
<1>9. Runs(u, q, w)
  BY <1>1, <1>3, <1>6, <1>7, <1>8 DEF Runs
<1> QED
  BY <1>2, <1>9

LEMMA RunsHead ==
  ASSUME NEW v, NEW s, NEW w, Runs(v, s, w), s # << >>
  PROVE  \E u : Moves(v, Head(s), u) /\ Runs(u, Tail(s), w)
<1>1. PICK S : s \in Seq(S)
  BY DEF Runs, Steps
<1>2. PICK h : h[0] = v /\ h[Len(s)] = w /\ \A i \in 1 .. Len(s) : Moves(h[i - 1], s[i], h[i])
  BY DEF Runs
<1>3. Len(s) \in Nat /\ Len(s) # 0 /\ Head(s) = s[1] /\ 1 \in 1 .. Len(s) /\ 1 - 1 = 0
  BY <1>1
<1>4. PICK t : t = Tail(s)
  OBVIOUS
<1>5. t \in Seq(S) /\ Len(t) = Len(s) - 1 /\ \A i \in 1 .. Len(t) : t[i] = s[i + 1]
  BY <1>1, <1>3, <1>4
<1>6. Moves(v, Head(s), h[1])
  BY <1>2, <1>3
<1> DEFINE g == [i \in 0 .. Len(t) |-> h[i + 1]]
<1>7. g[0] = h[1] /\ g[Len(t)] = w
  BY <1>2, <1>3, <1>5
<1>8. ASSUME NEW i \in 1 .. Len(t) PROVE Moves(g[i - 1], t[i], g[i])
  <2>1. i + 1 \in 1 .. Len(s) /\ i + 1 - 1 = i /\ i - 1 + 1 = i /\ i - 1 \in 0 .. Len(t) /\ i \in 0 .. Len(t)
    BY <1>3, <1>5
  <2>2. Moves(h[i + 1 - 1], s[i + 1], h[i + 1])
    BY <1>2, <2>1
  <2>3. g[i - 1] = h[i] /\ g[i] = h[i + 1]
    BY <2>1
  <2> HIDE DEF g
  <2> QED
    BY <1>5, <2>1, <2>2, <2>3
<1> HIDE DEF g
<1>9. Runs(h[1], t, w)
  BY <1>5, <1>6, <1>7, <1>8 DEF Runs, Steps, Moves
<1> QED
  BY <1>4, <1>6, <1>9

-----------------------------------------------------------------------------
(* The pools                                                               *)

Kinds == {"node", "leaf"}
Slots == 0 .. DeletedLife - 1
PoolType == [deleted : [Kinds -> Refs], pending : [Kinds -> [Slots -> Refs]], taken : [Kinds -> Nat]]

\* The objects P are linked from the heads, each from one place.
Chained(m, p, P) ==
  /\ p \in PoolType /\ P \subseteq Objects
  /\ \A kind \in Kinds : p.deleted[kind] # Null => p.deleted[kind] \in P /\ p.deleted[kind][1] = kind
  /\ \A x \in P : m[PoolLink(x)] # Null => /\ m[PoolLink(x)] \in P /\ m[PoolLink(x)][1] = x[1]
                                           /\ m[PoolLink(x)] # p.deleted[x[1]]
  /\ \A x, y \in P : m[PoolLink(x)] = m[PoolLink(y)] /\ m[PoolLink(x)] # Null => x = y

\* What rests is in the slot of its removal.
Resting(p, age) ==
  /\ \A kind \in Kinds, i \in Slots : p.pending[kind][i] # Null =>
        /\ p.pending[kind][i] \in DOMAIN age /\ p.pending[kind][i][1] = kind
        /\ age[p.pending[kind][i]] % DeletedLife = i
  /\ \A x \in DOMAIN age : p.pending[x[1]][age[x] % DeletedLife] = x

\* Malloc gave the objects X.
Counted(p, X) ==
  /\ \A kind \in Kinds : p.taken[kind] <= Supply[kind]
  /\ \A x \in X : x[2] <= p.taken[x[1]]

PoolOk(v, p, P) ==
  /\ Chained(v.mem, p, P) /\ Resting(p, v.age)
  /\ \A x \in P : x \notin Kept(v)
  /\ Counted(p, Kept(v) \union P)

LEMMA ObjectFacts ==
  /\ \A x \in Objects : /\ x[1] \in Kinds /\ (x \in Nodes <=> x[1] = "node") /\ (x \in Leaves <=> x[1] = "leaf")
                        /\ x[2] \in Nat /\ x = <<x[1], x[2]>>
  /\ \A kind \in Kinds : \A i \in Nat : i >= 1 /\ i <= Supply[kind] => <<kind, i>> \in Objects
<1>1. \A x \in Objects : /\ x[1] \in Kinds /\ (x \in Nodes <=> x[1] = "node") /\ (x \in Leaves <=> x[1] = "leaf")
                         /\ x[2] \in Nat /\ x = <<x[1], x[2]>>
  BY CritnibAssumption DEF Objects, Nodes, Leaves, Kinds
<1>2. Supply["node"] = MaxNodes /\ Supply["leaf"] = MaxLeaves
  BY DEF Supply
<1>3. ASSUME NEW kind \in Kinds, NEW i \in Nat, i >= 1, i <= Supply[kind] PROVE <<kind, i>> \in Objects
  <2>1. CASE kind = "node"
    BY <1>2, <1>3, <2>1, CritnibAssumption DEF Objects, Nodes
  <2>2. CASE kind = "leaf"
    BY <1>2, <1>3, <2>2, CritnibAssumption DEF Objects, Leaves
  <2> QED
    BY <2>1, <2>2 DEF Kinds
<1> QED
  BY <1>1, <1>3

LEMMA PoolLinkFacts ==
  /\ \A x \in Objects : PoolLink(x) \in Places /\ PoolLink(x)[2] = x
  /\ \A x \in Nodes : PoolLink(x) = Child(x, 0) /\ 0 \in Slices
  /\ \A x \in Leaves : PoolLink(x) = Value(x)
<1>1. 0 \in Slices
  BY FanoutFacts DEF Slices
<1>2. \A x \in Nodes : PoolLink(x) = Child(x, 0)
  BY DEF PoolLink
<1>3. \A x \in Leaves : PoolLink(x) = Value(x)
  BY RefFacts DEF PoolLink
<1> QED
  BY <1>1, <1>2, <1>3, PlaceFacts DEF Objects

\* Stores elsewhere leave the pools as they are.
LEMMA ChainedStays ==
  ASSUME NEW m, NEW p, NEW P, Chained(m, p, P), NEW m2, NEW q, q \in PoolType, q.deleted = p.deleted,
         \A x \in P : m2[PoolLink(x)] = m[PoolLink(x)]
  PROVE  Chained(m2, q, P)
BY DEF Chained

\* alloc_node, alloc_leaf: the object is from the pool, or nobody had it.
LEMMA AllocFacts ==
  ASSUME NEW p, NEW P, Chained(mem, p, P), NEW X, P \subseteq X, X \subseteq Objects, Counted(p, X),
         NEW kind \in Kinds, NEW given, NEW a, a = Alloc(p, kind, given), a[1] # Null
  PROVE  /\ a[1] \in Objects /\ a[1][1] = kind /\ (a[1] \in P \/ a[1] \notin X)
         /\ Chained(mem, a[2], P \ {a[1]}) /\ a[2].pending = p.pending
         /\ Counted(a[2], X \union {a[1]})
<1>1. p \in PoolType
  BY DEF Chained
<1>2. CASE p.deleted[kind] # Null
  <2>1. PICK x : x = p.deleted[kind]
    OBVIOUS
  <2>2. x \in P /\ x[1] = kind /\ x \in Objects
    BY <1>2, <2>1 DEF Chained
  <2>3. PICK next : next = mem[PoolLink(x)]
    OBVIOUS
  <2>4. PICK q : q = [p EXCEPT !.deleted[kind] = next]
    OBVIOUS
  <2>5. a[1] = x /\ a[2] = q
    <3>1. q = [p EXCEPT !.deleted[kind] = mem[PoolLink(@)]]
      BY <1>1, <2>1, <2>3, <2>4 DEF PoolType
    <3> QED
      BY <1>2, <2>1, <3>1 DEF Alloc
  <2>6. next \in Refs /\ (next # Null => next \in P /\ next[1] = kind /\ next # x)
    <3>1. next # Null => next \in P /\ next[1] = kind /\ next # x
      BY <2>1, <2>2, <2>3 DEF Chained
    <3> QED
      BY <3>1, RefFacts DEF Chained
  <2>7. /\ q \in PoolType /\ q.deleted[kind] = next /\ q.pending = p.pending /\ q.taken = p.taken
        /\ \A l \in Kinds : l # kind => q.deleted[l] = p.deleted[l]
    BY <1>1, <2>4, <2>6 DEF PoolType
  <2>8. Chained(mem, q, P \ {x})
    <3>1. \A l \in Kinds : q.deleted[l] # Null => q.deleted[l] \in P \ {x} /\ q.deleted[l][1] = l
      <4> TAKE l \in Kinds
      <4>1. CASE l = kind
        BY <2>6, <2>7, <4>1
      <4>2. CASE l # kind
        BY <2>2, <2>7, <4>2 DEF Chained
      <4> QED
        BY <4>1, <4>2
    <3>2. ASSUME NEW y \in P \ {x}, mem[PoolLink(y)] # Null
          PROVE  /\ mem[PoolLink(y)] \in P \ {x} /\ mem[PoolLink(y)][1] = y[1]
                 /\ mem[PoolLink(y)] # q.deleted[y[1]]
      <4>1. /\ mem[PoolLink(y)] \in P /\ mem[PoolLink(y)][1] = y[1] /\ mem[PoolLink(y)] # p.deleted[y[1]]
            /\ y \in Objects /\ y[1] \in Kinds
        BY <3>2, ObjectFacts DEF Chained
      <4>2. mem[PoolLink(y)] # x
        BY <2>1, <2>2, <4>1
      <4>3. mem[PoolLink(y)] # q.deleted[y[1]]
        <5>1. CASE y[1] = kind
          BY <2>2, <2>3, <2>7, <3>2, <5>1 DEF Chained
        <5>2. CASE y[1] # kind
          BY <2>7, <4>1, <5>2
        <5> QED
          BY <5>1, <5>2
      <4> QED
        BY <4>1, <4>2, <4>3
    <3>3. P \ {x} \subseteq Objects
      BY DEF Chained
    <3>4. \A y, z \in P \ {x} : mem[PoolLink(y)] = mem[PoolLink(z)] /\ mem[PoolLink(y)] # Null => y = z
      BY DEF Chained
    <3> QED
      BY <2>7, <3>1, <3>2, <3>3, <3>4 DEF Chained
  <2>9. Counted(q, X \union {x})
    BY <2>2, <2>7 DEF Counted
  <2> QED
    BY <2>2, <2>5, <2>7, <2>8, <2>9
<1>3. CASE p.deleted[kind] = Null
  <2>1. kind \in given /\ p.taken[kind] < Supply[kind] /\ a = <<<<kind, p.taken[kind] + 1>>, [p EXCEPT !.taken[kind] = @ + 1]>>
    BY <1>3 DEF Alloc
  <2>2. PICK x, q : x = <<kind, p.taken[kind] + 1>> /\ q = [p EXCEPT !.taken[kind] = @ + 1]
    OBVIOUS
  <2>3. a[1] = x /\ a[2] = q
    BY <2>1, <2>2
  <2>4. p.taken[kind] \in Nat /\ Supply[kind] \in Nat
    BY <1>1, CritnibAssumption DEF PoolType, Supply, Kinds
  <2>5. /\ q \in PoolType /\ q.deleted = p.deleted /\ q.pending = p.pending /\ q.taken[kind] = p.taken[kind] + 1
        /\ \A l \in Kinds : l # kind => q.taken[l] = p.taken[l]
    <3>1. PICK n \in Nat : n = p.taken[kind] + 1
      BY <2>4
    <3>2. q = [p EXCEPT !.taken[kind] = n]
      BY <2>2, <3>1
    <3>3. /\ q \in PoolType /\ q.deleted = p.deleted /\ q.pending = p.pending /\ q.taken[kind] = n
          /\ \A l \in Kinds : l # kind => q.taken[l] = p.taken[l]
      BY <1>1, <3>2 DEF PoolType
    <3> QED
      BY <3>1, <3>3
  <2>6. x \in Objects /\ x[1] = kind /\ x[2] = p.taken[kind] + 1
    <3>1. p.taken[kind] + 1 \in Nat /\ p.taken[kind] + 1 >= 1 /\ p.taken[kind] + 1 <= Supply[kind]
      BY <2>1, <2>4
    <3> QED
      BY <2>2, <3>1, ObjectFacts
  <2>7. x \notin X
    <3>1. ~(x[2] <= p.taken[x[1]])
      BY <2>4, <2>6
    <3> QED
      BY <3>1 DEF Counted
  <2>8. Chained(mem, q, P \ {x})
    <3>1. P \ {x} = P
      BY <2>7
    <3> QED
      BY <2>5, <3>1, ChainedStays
  <2>9. Counted(q, X \union {x})
    <3>1. \A l \in Kinds : q.taken[l] <= Supply[l]
      <4> TAKE l \in Kinds
      <4>1. CASE l = kind
        BY <2>1, <2>4, <2>5, <4>1
      <4>2. CASE l # kind
        BY <2>5, <4>2 DEF Counted
      <4> QED
        BY <4>1, <4>2
    <3>2. ASSUME NEW y \in X PROVE y[2] <= q.taken[y[1]]
      <4>1. y[2] \in Nat /\ y[1] \in Kinds /\ y[2] <= p.taken[y[1]]
        BY ObjectFacts DEF Counted
      <4>2. CASE y[1] = kind
        BY <2>4, <2>5, <4>1, <4>2
      <4>3. CASE y[1] # kind
        BY <2>5, <4>1, <4>3
      <4> QED
        BY <4>2, <4>3
    <3>3. x[2] <= q.taken[x[1]]
      BY <2>4, <2>5, <2>6
    <3> QED
      BY <3>1, <3>2, <3>3 DEF Counted
  <2> QED
    BY <2>3, <2>5, <2>6, <2>7, <2>8, <2>9
<1> QED
  BY <1>2, <1>3

\* free_node, free_leaf
LEMMA FreeFacts ==
  ASSUME NEW m, NEW p, NEW P, Chained(m, p, P), NEW x \in Objects, x \notin P,
         NEW m2, m2[PoolLink(x)] = p.deleted[x[1]], \A q \in Places : q[2] # x => m2[q] = m[q]
  PROVE  /\ Chained(m2, Free(p, x), P \union {x}) /\ Free(p, x).pending = p.pending /\ Free(p, x).taken = p.taken
<1>1. p \in PoolType /\ x # Null /\ x[1] \in Kinds /\ x \in Refs /\ P \subseteq Objects
  BY ObjectFacts, RefFacts DEF Chained
<1>2. PICK q : q = [p EXCEPT !.deleted[x[1]] = x]
  OBVIOUS
<1>3. Free(p, x) = q
  BY <1>1, <1>2 DEF Free
<1>4. /\ q \in PoolType /\ q.deleted[x[1]] = x /\ q.pending = p.pending /\ q.taken = p.taken
      /\ \A kind \in Kinds : kind # x[1] => q.deleted[kind] = p.deleted[kind]
  BY <1>1, <1>2 DEF PoolType
<1>5. \A y \in P : m2[PoolLink(y)] = m[PoolLink(y)]
  BY <1>1, PoolLinkFacts
<1>6. PICK old : old = p.deleted[x[1]]
  OBVIOUS
<1>7. m2[PoolLink(x)] = old /\ (old # Null => old \in P /\ old[1] = x[1] /\ old # x)
  BY <1>1, <1>6 DEF Chained
<1>8. \A kind \in Kinds : q.deleted[kind] # Null => q.deleted[kind] \in P \union {x} /\ q.deleted[kind][1] = kind
  BY <1>4 DEF Chained
<1>9. ASSUME NEW y \in P \union {x}, m2[PoolLink(y)] # Null
      PROVE  /\ m2[PoolLink(y)] \in P \union {x} /\ m2[PoolLink(y)][1] = y[1] /\ m2[PoolLink(y)] # q.deleted[y[1]]
  <2>1. CASE y = x
    BY <1>4, <1>7, <1>9, <2>1
  <2>2. CASE y \in P
    <3>1. m2[PoolLink(y)] \in P /\ m2[PoolLink(y)][1] = y[1] /\ m2[PoolLink(y)] # p.deleted[y[1]] /\ y[1] \in Kinds
      BY <1>1, <1>5, <1>9, <2>2, ObjectFacts DEF Chained
    <3>2. CASE y[1] = x[1]
      BY <1>4, <3>1, <3>2
    <3>3. CASE y[1] # x[1]
      BY <1>4, <3>1, <3>3
    <3> QED
      BY <3>1, <3>2, <3>3
  <2> QED
    BY <2>1, <2>2
<1>10. ASSUME NEW y \in P \union {x}, NEW z \in P \union {x}, m2[PoolLink(y)] = m2[PoolLink(z)], m2[PoolLink(y)] # Null
       PROVE  y = z
  <2>1. CASE y \in P /\ z \in P
    BY <1>5, <1>10, <2>1 DEF Chained
  <2>2. ASSUME NEW w \in P, m2[PoolLink(w)] = m2[PoolLink(x)], m2[PoolLink(w)] # Null PROVE FALSE
    <3>1. m2[PoolLink(w)] = old /\ old # Null
      BY <1>7, <2>2
    <3>2. old[1] = w[1] /\ old # p.deleted[w[1]]
      BY <1>5, <3>1 DEF Chained
    <3> QED
      BY <1>6, <1>7, <3>1, <3>2
  <2> QED
    BY <1>10, <2>1, <2>2
<1>11. P \union {x} \subseteq Objects
  BY <1>1
<1>12. Chained(m2, q, P \union {x})
  BY <1>4, <1>8, <1>9, <1>10, <1>11 DEF Chained
<1> QED
  BY <1>3, <1>4, <1>12

-----------------------------------------------------------------------------
(* Stores to objects nobody reads                                          *)

Private(v, w, x) ==
  /\ w.nodes = v.nodes /\ w.leaves = v.leaves /\ w.age = v.age /\ Good(w)
  /\ Content(w.mem) = Content(v.mem) /\ Count(w) = Count(v)
  /\ \A q \in Places : q[2] # x => w.mem[q] = v.mem[q]

LEMMA PrivateMove ==
  ASSUME NEW v, Good(v), NEW x \in Objects, x \notin Kept(v), NEW s, \A q \in DOMAIN s : q \in Places => q[2] = x,
         NEW m2, m2 = Put(v.mem, s), Memory(m2)
  PROVE  \E w : Moves(v, s, w) /\ Private(v, w, x) /\ w.mem = m2
<1>1. PICK w : w = View(Put(v.mem, s), v.nodes, v.leaves, v.age)
  OBVIOUS
<1>2. w.mem = m2 /\ w.nodes = v.nodes /\ w.leaves = v.leaves /\ w.age = v.age
  BY <1>1 DEF View
<1>3. /\ Moves(v, s, w) /\ Content(w.mem) = Content(v.mem) /\ Count(w) = Count(v)
      /\ \A q \in Places : q[2] # x => w.mem[q] = v.mem[q]
  BY <1>1, <1>2, MovePrivate
<1>4. Good(w)
  BY <1>3 DEF Moves
<1> QED
  BY <1>2, <1>3, <1>4 DEF Private

LEMMA PrivateKept ==
  ASSUME NEW v, NEW w, NEW x, Private(v, w, x)
  PROVE  Live(w) = Live(v) /\ Kept(w) = Kept(v)
  BY DEF Private, Live, Kept

LEMMA LeafStore ==
  ASSUME NEW m, Memory(m), NEW k \in Leaves, NEW p, NEW x, NEW m2, m2 = Put(m, Store(p, x)),
         \/ p = Key(k) /\ x \in KeyRange
         \/ p = Value(k) /\ x \in AllValues \union Leaves \union {Null}
  PROVE  Memory(m2) /\ m2[p] = x /\ \A q \in Places : q # p => m2[q] = m[q]
<1>1. p \in Places /\ p \notin Links /\ p # RemoveCount
  BY PlaceFacts, PlacesApart
<1>2. m2 = [q \in Places |-> m2[q]] /\ m2[p] = x /\ \A q \in Places : q # p => m2[q] = m[q]
  BY <1>1, StoreFacts
<1>3. \A q \in Links : m2[q] \in Refs
  BY <1>1, <1>2, PlaceFacts DEF Memory
<1>4. m2[RemoveCount] \in Nat
  BY <1>1, <1>2, PlaceFacts DEF Memory
<1>5. ASSUME NEW n \in Nodes PROVE m2[Shift(n)] \in Shifts /\ m2[Path(n)] \in KeyRange
  <2>1. Shift(n)[2] = n /\ Path(n)[2] = n /\ Shift(n) \in Places /\ Path(n) \in Places /\ p[2] = k /\ n # k
    BY PlaceFacts, RefFacts
  <2>2. Shift(n) # p /\ Path(n) # p
    BY <2>1
  <2> QED
    BY <1>2, <2>1, <2>2 DEF Memory
<1>6. ASSUME NEW l \in Leaves PROVE m2[Key(l)] \in KeyRange /\ m2[Value(l)] \in AllValues \union Leaves \union {Null}
  <2>1. /\ Key(l) \in Places /\ Value(l) \in Places
        /\ m[Key(l)] \in KeyRange /\ m[Value(l)] \in AllValues \union Leaves \union {Null}
    BY PlaceFacts DEF Memory
  <2>2. CASE l = k
    <3>1. Key(k) # Value(k)
      BY PlacesApart
    <3> QED
      BY <1>2, <2>1, <2>2, <3>1
  <2>3. CASE l # k
    <3>1. Key(l)[2] = l /\ Value(l)[2] = l /\ p[2] = k
      BY PlaceFacts
    <3>2. Key(l) # p /\ Value(l) # p
      BY <2>3, <3>1
    <3> QED
      BY <1>2, <2>1, <3>2
  <2> QED
    BY <2>2, <2>3
<1> QED
  BY <1>2, <1>3, <1>4, <1>5, <1>6 DEF Memory

LEMMA StoreDomain ==
  ASSUME NEW p, NEW x, NEW y, p[2] = y
  PROVE  \A q \in DOMAIN Store(p, x) : q \in Places => q[2] = y
  BY DEF Store

\* A new leaf gets its key and its value.
LEMMA FillFacts ==
  ASSUME NEW v, Good(v), NEW k \in Leaves, k \notin Kept(v), NEW key \in Keys, NEW value \in AllValues
  PROVE  \E w : /\ Runs(v, FillLeaf(k, key, value), w) /\ Private(v, w, k)
                /\ w.mem[Key(k)] = key /\ w.mem[Value(k)] = value
<1>1. /\ k \in Objects /\ Key(k)[2] = k /\ Value(k)[2] = k /\ Key(k) # Value(k)
      /\ key \in KeyRange /\ Key(k) \in Places /\ Value(k) \in Places
  BY RefFacts, PlaceFacts, PlacesApart, ShiftFacts
<1>2. PICK s, t : s = Store(Key(k), key) /\ t = Store(Value(k), value)
  OBVIOUS
<1>3. /\ \A q \in DOMAIN s : q \in Places => q[2] = k
      /\ \A q \in DOMAIN t : q \in Places => q[2] = k
  BY <1>1, <1>2, StoreDomain
<1>4. PICK m : m = v.mem
  OBVIOUS
<1>5. PICK m1 : m1 = Put(m, s)
  OBVIOUS
<1>6. Memory(m) /\ Memory(m1) /\ m1[Key(k)] = key
  BY <1>1, <1>2, <1>4, <1>5, GoodFacts, LeafStore
<1>7. PICK u : Moves(v, s, u) /\ Private(v, u, k) /\ u.mem = m1
  BY <1>1, <1>3, <1>4, <1>5, <1>6, PrivateMove
<1>8. PICK m2 : m2 = Put(m1, t)
  OBVIOUS
<1>9. Memory(m2) /\ m2[Value(k)] = value /\ m2[Key(k)] = key
  BY <1>1, <1>2, <1>6, <1>8, LeafStore
<1>10. Good(u) /\ k \notin Kept(u)
  BY <1>7, PrivateKept DEF Private
<1>11. PICK w : Moves(u, t, w) /\ Private(u, w, k) /\ w.mem = m2
  BY <1>1, <1>3, <1>7, <1>8, <1>9, <1>10, PrivateMove
<1>12. Runs(v, <<s>> \o <<t>>, w)
  BY <1>7, <1>11, RunsOne, RunsOn
<1>13. FillLeaf(k, key, value) = <<s>> \o <<t>>
  BY <1>2 DEF FillLeaf
<1>14. Private(v, w, k)
  BY <1>7, <1>11 DEF Private
<1> QED
  BY <1>9, <1>11, <1>12, <1>13, <1>14

\* What is freed links to what was free.
Freed(x) == {x} \ {Null}

FreeRun(v, p, P, x, w) ==
  /\ Runs(v, FreeSteps(p, x), w) /\ Private(v, w, x) /\ Chained(w.mem, Free(p, x), P \union Freed(x))
  /\ \A q \in Places : q[2] \notin Freed(x) => w.mem[q] = v.mem[q]

LEMMA FreeRuns ==
  ASSUME NEW v, Good(v), NEW p, NEW P, Chained(v.mem, p, P), NEW x \in Refs, x \notin Kept(v), x \notin P
  PROVE  /\ \E w : FreeRun(v, p, P, x, w)
         /\ Free(p, x).pending = p.pending /\ Free(p, x).taken = p.taken
<1>1. CASE x = Null
  <2>1. Runs(v, FreeSteps(p, x), v) /\ Free(p, x) = p /\ Freed(x) = {}
    BY <1>1, RunsNone DEF FreeSteps, Free, Freed
  <2>2. Private(v, v, x)
    BY DEF Private
  <2>3. P \union Freed(x) = P
    BY <2>1
  <2> QED
    BY <2>1, <2>2, <2>3 DEF FreeRun
<1>2. CASE x # Null
  <2>1. x \in Objects /\ Freed(x) = {x}
    BY <1>2, RefFacts DEF Freed
  <2>2. PICK y, s : y = p.deleted[x[1]] /\ s = Store(PoolLink(x), y)
    OBVIOUS
  <2>3. FreeSteps(p, x) = <<s>>
    BY <1>2, <2>2 DEF FreeSteps
  <2>4. y \in Refs /\ (x \in Leaves => y \in Leaves \union {Null})
    <3>1. x[1] \in Kinds /\ p \in PoolType
      BY <2>1, ObjectFacts DEF Chained
    <3>2. y \in Refs
      BY <2>2, <3>1 DEF PoolType
    <3>3. y # Null => y \in Objects /\ y[1] = x[1]
      BY <2>2, <3>1 DEF Chained
    <3> QED
      BY <2>1, <3>2, <3>3, ObjectFacts
  <2>5. PICK m : m = v.mem
    OBVIOUS
  <2>6. PICK m2 : m2 = Put(m, s)
    OBVIOUS
  <2>7. PoolLink(x) \in Places /\ PoolLink(x)[2] = x
    BY <2>1, PoolLinkFacts
  <2>8. Memory(m) /\ Memory(m2) /\ m2[PoolLink(x)] = y
    <3>1. Memory(m)
      BY <2>5, GoodFacts
    <3>2. CASE x \in Nodes
      <4>1. PoolLink(x) \in Links
        BY <3>2, PoolLinkFacts, PlaceFacts
      <4> QED
        BY <2>2, <2>4, <2>6, <3>1, <4>1, Relink
    <3>3. CASE x \in Leaves
      <4>1. PoolLink(x) = Value(x) /\ y \in AllValues \union Leaves \union {Null}
        BY <2>4, <3>3, PoolLinkFacts
      <4> QED
        BY <2>2, <2>6, <3>1, <3>3, <4>1, LeafStore
    <3> QED
      BY <2>1, <3>1, <3>2, <3>3 DEF Objects
  <2>9. \A q \in DOMAIN s : q \in Places => q[2] = x
    BY <2>2, <2>7, StoreDomain
  <2>10. PICK w : Moves(v, s, w) /\ Private(v, w, x) /\ w.mem = m2
    BY <2>1, <2>5, <2>6, <2>8, <2>9, PrivateMove
  <2>11. \A q \in Places : q[2] # x => m2[q] = m[q]
    BY <2>5, <2>10 DEF Private
  <2>12. m2[PoolLink(x)] = p.deleted[x[1]] /\ Chained(m, p, P)
    BY <2>2, <2>5, <2>8
  <2>13. Chained(m2, Free(p, x), P \union {x}) /\ Free(p, x).pending = p.pending /\ Free(p, x).taken = p.taken
    BY <2>1, <2>11, <2>12, FreeFacts
  <2>14. Runs(v, <<s>>, w)
    BY <2>10, RunsOne
  <2>15. \A q \in Places : q[2] \notin Freed(x) => w.mem[q] = v.mem[q]
    BY <2>1, <2>5, <2>10, <2>11
  <2> QED
    BY <2>1, <2>3, <2>10, <2>13, <2>14, <2>15 DEF FreeRun
<1> QED
  BY <1>1, <1>2

-----------------------------------------------------------------------------
(* What a call finds and what it leaves                                    *)

\* Malloc may have given more.
LEMMA CountedLess ==
  ASSUME NEW p, NEW X, Counted(p, X), NEW Y, Y \subseteq X, NEW q, q.taken = p.taken
  PROVE  Counted(q, Y)
  BY DEF Counted

\* The objects of the tree are the same in two memories.
LEMMA RouteStays ==
  ASSUME NEW m, NEW N, NEW key, NEW m2, \A n \in N : m2[Shift(n)] = m[Shift(n)] /\ m2[Path(n)] = m[Path(n)]
  PROVE  Route(m2, N, key) = Route(m, N, key)
<1>1. \A n \in N : Matches(m2, key, n) = Matches(m, key, n)
  BY DEF Matches
<1>2. PICK A, B : A = {x \in N : Matches(m, key, x)} /\ B = {x \in N : Matches(m2, key, x)}
  OBVIOUS
<1>3. A = B /\ A \subseteq N
  BY <1>1, <1>2
<1>4. Route(m, N, key) = {Root} \union {Child(n, Slice(key, m[Shift(n)])) : n \in A}
  BY <1>2 DEF Route
<1>5. Route(m2, N, key) = {Root} \union {Child(n, Slice(key, m2[Shift(n)])) : n \in B}
  BY <1>2 DEF Route
<1>6. \A n \in A : Child(n, Slice(key, m2[Shift(n)])) = Child(n, Slice(key, m[Shift(n)]))
  BY <1>3
<1> QED
  BY <1>3, <1>4, <1>5, <1>6

LEMMA PrivateWords ==
  ASSUME NEW v, Good(v), NEW w, NEW x, x \notin Kept(v), x # Null, Private(v, w, x)
  PROVE  /\ \A p \in TreeLinks(v.nodes) : w.mem[p] = v.mem[p]
         /\ \A y \in Kept(v) : SameWords(v.mem, w.mem, y)
         /\ \A key : Route(w.mem, v.nodes, key) = Route(v.mem, v.nodes, key)
<1>1. \A q \in Places : q[2] # x => w.mem[q] = v.mem[q]
  BY DEF Private
<1>2. v.nodes \subseteq Nodes /\ v.nodes \subseteq Kept(v) /\ Kept(v) \subseteq Objects
  BY GoodFacts DEF Kept, Live
<1>3. ASSUME NEW p \in TreeLinks(v.nodes) PROVE w.mem[p] = v.mem[p]
  <2>1. p \in Places /\ (p[2] = Null \/ p[2] \in v.nodes)
    BY <1>2, TreeLinkFacts, PlaceFacts DEF TreeLinks
  <2> QED
    BY <1>1, <1>2, <2>1
<1>4. ASSUME NEW y \in Kept(v) PROVE SameWords(v.mem, w.mem, y)
  <2>1. y # x
    OBVIOUS
  <2>2. y \in Nodes => Shift(y) \in Places /\ Path(y) \in Places /\ Shift(y)[2] = y /\ Path(y)[2] = y
    BY PlaceFacts
  <2>3. y \in Leaves => Key(y) \in Places /\ Value(y) \in Places /\ Key(y)[2] = y /\ Value(y)[2] = y
    BY PlaceFacts
  <2> QED
    BY <1>1, <2>1, <2>2, <2>3 DEF SameWords
<1>5. \A key : Route(w.mem, v.nodes, key) = Route(v.mem, v.nodes, key)
  <2>1. \A n \in v.nodes : w.mem[Shift(n)] = v.mem[Shift(n)] /\ w.mem[Path(n)] = v.mem[Path(n)]
    BY <1>2, <1>4 DEF SameWords
  <2> QED
    BY <2>1, RouteStays
<1> QED
  BY <1>3, <1>4, <1>5

\* What a call has of the pools: P is free, Y is in its hands.
Have(v, p, P, Y) ==
  /\ Chained(v.mem, p, P) /\ Resting(p, v.age) /\ \A x \in P : x \notin Kept(v)
  /\ Counted(p, Kept(v) \union P \union Y) /\ Y \subseteq Objects /\ \A x \in Y : x \notin P

LEMMA AllocTakes ==
  ASSUME NEW v, Good(v), v.mem = mem, NEW p, NEW P, NEW Y, Have(v, p, P, Y),
         NEW kind \in Kinds, NEW given, NEW a, a = Alloc(p, kind, given), a[1] # Null
  PROVE  /\ a[1] \in Objects /\ a[1][1] = kind /\ a[1] \notin Kept(v) /\ a[1] \notin Y
         /\ Have(v, a[2], P \ {a[1]}, Y \union {a[1]})
<1>1. PICK X : X = Kept(v) \union P \union Y
  OBVIOUS
<1>2. P \subseteq X /\ X \subseteq Objects /\ Counted(p, X) /\ Chained(mem, p, P)
  BY <1>1, GoodFacts DEF Have, Chained
<1>3. /\ a[1] \in Objects /\ a[1][1] = kind /\ (a[1] \in P \/ a[1] \notin X)
      /\ Chained(mem, a[2], P \ {a[1]}) /\ a[2].pending = p.pending
      /\ Counted(a[2], X \union {a[1]})
  BY <1>2, AllocFacts
<1>4. a[1] \notin Kept(v) /\ a[1] \notin Y
  BY <1>1, <1>3 DEF Have
<1>5. Resting(a[2], v.age)
  BY <1>3 DEF Have, Resting
<1>6. Counted(a[2], Kept(v) \union (P \ {a[1]}) \union (Y \union {a[1]}))
  BY <1>1, <1>3, CountedLess
<1> QED
  BY <1>3, <1>4, <1>5, <1>6 DEF Have

\* A new node gets its words.
LEMMA NodeMove ==
  ASSUME NEW v, Good(v), NEW x \in Nodes, x \notin Kept(v), NEW k \in Leaves, NEW y \in Live(v),
         NEW key \in KeyRange, NEW path, path = PathOf(v.mem, y), path # key
  PROVE  \E s, w : /\ FillNode(x, key, k, path, y) = <<s>> /\ Moves(v, s, w) /\ Private(v, w, x)
                   /\ Splits(w.mem, x, key, k, y)
<1>1. y \in Objects /\ x \in Objects /\ y # x /\ y \in Refs /\ k \in Refs /\ Null \in Refs /\ Memory(v.mem)
  BY GoodFacts, RefFacts DEF Kept
<1>2. path \in KeyRange /\ key \in Nat
  BY <1>1, NodeFacts, ShiftFacts
<1>3. PICK shift : shift = CriticalShift(path, key)
  OBVIOUS
<1>4. shift \in Shifts /\ shift \in Nat /\ Slice(path, shift) # Slice(key, shift)
  BY <1>2, <1>3, CriticalShiftFacts, ShiftFacts
<1>5. PICK i, j, above : i = Slice(key, shift) /\ j = Slice(path, shift) /\ above = Above(key, shift)
  OBVIOUS
<1>6. above \in KeyRange
  <2>1. above \in Nat /\ above <= key
    BY <1>2, <1>4, <1>5, TopFacts
  <2>2. key <= Power[Digits] - 1 /\ Power[Digits] \in Nat
    BY FanoutFacts, PowerFacts DEF KeyRange
  <2> QED
    BY <1>2, <2>1, <2>2 DEF KeyRange
<1>7. PICK child : child = [l \in Slices |-> CASE l = i -> k [] l = j -> y [] OTHER -> Null]
  OBVIOUS
<1>8. PICK D : D = {Child(x, l) : l \in Slices} \union {Shift(x), Path(x)}
  OBVIOUS
<1>9. PICK s : s = [p \in D |-> CASE p = Shift(x) -> shift [] p = Path(x) -> above [] OTHER -> child[p[3]]]
  OBVIOUS
<1>10. FillNode(x, key, k, path, y) = <<s>>
  BY <1>3, <1>5, <1>7, <1>8, <1>9 DEF FillNode, Slices
<1>11. /\ Shift(x) \in Places /\ Path(x) \in Places /\ Shift(x)[2] = x /\ Path(x)[2] = x
       /\ Shift(x) \notin Links /\ Path(x) \notin Links /\ Shift(x) # Path(x)
       /\ \A l \in Slices : Child(x, l) \in Links /\ Child(x, l) \in Places /\ Child(x, l)[2] = x /\ Child(x, l)[3] = l
  BY PlaceFacts, PlacesApart
<1>12. D \subseteq Places /\ \A p \in D : p[2] = x
  BY <1>8, <1>11
<1>13. /\ s[Shift(x)] = shift /\ s[Path(x)] = above
       /\ \A l \in Slices : s[Child(x, l)] = child[l]
       /\ DOMAIN s = D
  <2>1. Shift(x) \in D /\ Path(x) \in D /\ \A l \in Slices : Child(x, l) \in D /\ Child(x, l) # Shift(x) /\ Child(x, l) # Path(x)
    BY <1>8, <1>11
  <2> QED
    BY <1>9, <1>11, <2>1
<1>14. PICK m, m2 : m = v.mem /\ m2 = Put(m, s)
  OBVIOUS
<1>15. m2 = [p \in Places |-> m2[p]] /\ \A p \in Places : m2[p] = IF p \in D THEN s[p] ELSE m[p]
  BY <1>13, <1>14 DEF Put
<1>16. /\ m2[Shift(x)] = shift /\ m2[Path(x)] = above /\ \A l \in Slices : m2[Child(x, l)] = child[l]
  BY <1>8, <1>11, <1>13, <1>15
<1>17. \A l \in Slices : child[l] \in Refs
  BY <1>1, <1>7
<1>18. Memory(m2)
  <2>1. Memory(m)
    BY <1>1, <1>14
  <2>2. ASSUME NEW p \in Links PROVE m2[p] \in Refs
    <3>1. p \in Places /\ m[p] \in Refs
      BY <2>1, PlaceFacts DEF Memory
    <3>2. CASE p \in D
      <4>1. PICK l \in Slices : p = Child(x, l)
        BY <1>8, <1>11, <3>2
      <4> QED
        BY <1>16, <1>17, <4>1
    <3> QED
      BY <1>15, <3>1, <3>2
  <2>3. m2[RemoveCount] \in Nat
    <3>1. RemoveCount \notin D
      BY <1>8, PlacesApart
    <3> QED
      BY <1>15, <2>1, <3>1, PlaceFacts DEF Memory
  <2>4. ASSUME NEW n \in Nodes PROVE m2[Shift(n)] \in Shifts /\ m2[Path(n)] \in KeyRange
    <3>1. CASE n = x
      BY <1>4, <1>6, <1>16, <3>1
    <3>2. CASE n # x
      <4>1. /\ Shift(n) \in Places /\ Path(n) \in Places /\ Shift(n) \notin D /\ Path(n) \notin D
            /\ m[Shift(n)] \in Shifts /\ m[Path(n)] \in KeyRange
        BY <1>12, <2>1, <3>2, PlaceFacts DEF Memory
      <4> QED
        BY <1>15, <4>1
    <3> QED
      BY <3>1, <3>2
  <2>5. ASSUME NEW l \in Leaves PROVE m2[Key(l)] \in KeyRange /\ m2[Value(l)] \in AllValues \union Leaves \union {Null}
    <3>1. /\ Key(l) \in Places /\ Value(l) \in Places /\ Key(l) \notin D /\ Value(l) \notin D
          /\ m[Key(l)] \in KeyRange /\ m[Value(l)] \in AllValues \union Leaves \union {Null}
      BY <1>12, <2>1, PlaceFacts, RefFacts DEF Memory
    <3> QED
      BY <1>15, <3>1
  <2> QED
    BY <1>15, <2>2, <2>3, <2>4, <2>5 DEF Memory
<1>19. \A q \in DOMAIN s : q \in Places => q[2] = x
  BY <1>12, <1>13
<1>20. PICK w : Moves(v, s, w) /\ Private(v, w, x) /\ w.mem = m2
  BY <1>1, <1>14, <1>18, <1>19, PrivateMove
<1>21. Splits(w.mem, x, key, k, y)
  <2>1. x # Null /\ y \in Kept(v)
    BY RefFacts DEF Kept
  <2>2. SameWords(v.mem, w.mem, y)
    BY <1>20, <2>1, PrivateWords
  <2>3. PathOf(w.mem, y) = path
    <3>1. m = v.mem /\ m2 = w.mem /\ SameWords(m, m2, y)
      BY <1>14, <1>20, <2>2
    <3>2. PathOf(m2, y) = PathOf(m, y)
      BY <1>1, <3>1, SameWordsFacts
    <3> QED
      BY <3>1, <3>2
  <2>4. \A l \in Slices : m2[Child(x, l)] = CASE l = i -> k [] l = j -> y [] OTHER -> Null
    BY <1>7, <1>16
  <2> QED
    BY <1>3, <1>5, <1>16, <1>20, <2>3, <2>4 DEF Splits
<1> QED
  BY <1>10, <1>20, <1>21

LEMMA HaveLands ==
  ASSUME NEW v, NEW p, NEW P, NEW Y, Have(v, p, P, Y), NEW w, w.age = v.age, Kept(w) \subseteq Kept(v) \union Y,
         \A q \in Places : q[2] \in P => w.mem[q] = v.mem[q]
  PROVE  PoolOk(w, p, P)
<1>1. /\ Chained(v.mem, p, P) /\ Resting(p, v.age) /\ p \in PoolType /\ P \subseteq Objects
      /\ \A x \in P : x \notin Kept(v) /\ x \notin Y
  BY DEF Have, Chained
<1>2. \A x \in P : w.mem[PoolLink(x)] = v.mem[PoolLink(x)]
  BY <1>1, PoolLinkFacts
<1>3. Chained(w.mem, p, P)
  <2>1. PICK m, m2 : m = v.mem /\ m2 = w.mem
    OBVIOUS
  <2> QED
    BY <1>1, <1>2, <2>1, ChainedStays
<1>4. Counted(p, Kept(w) \union P)
  <2>1. PICK X : X = Kept(v) \union P \union Y
    OBVIOUS
  <2>2. Counted(p, X) /\ Kept(w) \union P \subseteq X
    BY <2>1 DEF Have
  <2> QED
    BY <2>2, CountedLess
<1> QED
  BY <1>1, <1>3, <1>4 DEF PoolOk

\* A leaf that cannot be linked goes back.
Undone(v, steps, q, Q) ==
  \E w : Runs(v, steps, w) /\ PoolOk(w, q, Q) /\ Content(w.mem) = Content(v.mem)

LEMMA UndoneFacts ==
  ASSUME NEW v, Good(v), NEW k \in Leaves, k \notin Kept(v), NEW p, NEW P, Have(v, p, P, {k}),
         NEW key \in Keys, NEW value \in AllValues
  PROVE  Undone(v, FillLeaf(k, key, value) \o FreeSteps(p, k), Free(p, k), P \union {k})
<1>0. /\ Chained(v.mem, p, P) /\ Resting(p, v.age) /\ \A x \in P : x \notin Kept(v)
      /\ k \notin P /\ Counted(p, Kept(v) \union P \union {k})
  BY DEF Have
<1>1. PICK u : Runs(v, FillLeaf(k, key, value), u) /\ Private(v, u, k)
  BY FillFacts
<1>2. k \in Objects /\ k \in Refs /\ k # Null
  BY RefFacts
<1>3. Good(u) /\ Kept(u) = Kept(v) /\ k \notin Kept(u)
  BY <1>1, PrivateKept DEF Private
<1>4. Chained(u.mem, p, P)
  <2>1. p \in PoolType /\ P \subseteq Objects
    BY <1>0 DEF Chained
  <2>2. ASSUME NEW x \in P PROVE u.mem[PoolLink(x)] = v.mem[PoolLink(x)]
    <3>1. PoolLink(x) \in Places /\ PoolLink(x)[2] = x /\ x # k
      BY <1>0, <2>1, PoolLinkFacts
    <3> QED
      BY <1>1, <3>1 DEF Private
  <2>3. PICK m, m2 : m = v.mem /\ m2 = u.mem
    OBVIOUS
  <2> QED
    BY <1>0, <2>1, <2>2, <2>3, ChainedStays
<1>5. PICK q : q = Free(p, k)
  OBVIOUS
<1>55. PICK w : FreeRun(u, p, P, k, w)
  BY <1>0, <1>2, <1>3, <1>4, FreeRuns
<1>6. Runs(u, FreeSteps(p, k), w) /\ Private(u, w, k) /\ Chained(w.mem, q, P \union Freed(k))
  BY <1>5, <1>55 DEF FreeRun
<1>7. q.pending = p.pending /\ q.taken = p.taken /\ Freed(k) = {k}
  <2>1. q.pending = p.pending /\ q.taken = p.taken
    BY <1>0, <1>2, <1>3, <1>4, <1>5, FreeRuns
  <2> QED
    BY <1>2, <2>1 DEF Freed
<1>8. Runs(v, FillLeaf(k, key, value) \o FreeSteps(p, k), w)
  BY <1>1, <1>6, RunsOn
<1>9. Kept(w) = Kept(v) /\ w.age = v.age /\ Content(w.mem) = Content(v.mem)
  BY <1>1, <1>3, <1>6, PrivateKept DEF Private
<1>10. Resting(q, w.age)
  BY <1>0, <1>7, <1>9 DEF Resting
<1>11. Counted(q, Kept(w) \union (P \union {k}))
  BY <1>0, <1>7, <1>9, CountedLess
<1>12. PoolOk(w, q, P \union {k})
  BY <1>0, <1>6, <1>7, <1>9, <1>10, <1>11 DEF PoolOk
<1> QED
  BY <1>5, <1>8, <1>9, <1>12 DEF Undone

\* A leaf is filled and linked.
LEMMA InsertLeaf ==
  ASSUME NEW v, Good(v), NEW k \in Leaves, k \notin Kept(v), NEW p, NEW P, Have(v, p, P, {k}),
         NEW key \in Keys, NEW value \in AllValues,
         NEW link \in Route(v.mem, v.nodes, key), v.mem[link] = Null
  PROVE  \E w : /\ Runs(v, FillLeaf(k, key, value) \o <<Store(link, k)>>, w) /\ PoolOk(w, p, P)
                /\ Content(v.mem)[key] = Null /\ Content(w.mem) = [Content(v.mem) EXCEPT ![key] = value]
<1>1. PICK u : /\ Runs(v, FillLeaf(k, key, value), u) /\ Private(v, u, k)
               /\ u.mem[Key(k)] = key /\ u.mem[Value(k)] = value
  BY FillFacts
<1>2. /\ k # Null /\ key \in Nat /\ v.nodes \subseteq Nodes /\ v.nodes \subseteq Kept(v)
      /\ Tree(v.mem, v.nodes, v.leaves)
  BY RefFacts, GoodFacts, ShiftFacts DEF Kept, Live
<1>3. link \in TreeLinks(v.nodes)
  <2>1. PICK m, N, K : m = v.mem /\ N = v.nodes /\ K = v.leaves
    OBVIOUS
  <2> QED
    BY <1>2, <2>1, RouteFacts
<1>4. link \in Places /\ (link[2] = Null \/ link[2] \in v.nodes)
  BY <1>2, <1>3, TreeLinkFacts, PlaceFacts DEF TreeLinks
<1>5. u.mem[link] = Null /\ Route(u.mem, v.nodes, key) = Route(v.mem, v.nodes, key)
  BY <1>1, <1>2, <1>3, PrivateWords
<1>6. Good(u) /\ Kept(u) = Kept(v) /\ u.nodes = v.nodes /\ u.age = v.age /\ Content(u.mem) = Content(v.mem)
  BY <1>1, PrivateKept DEF Private
<1>7. PICK s : s = Store(link, k)
  OBVIOUS
<1>8. PICK w : w = View(Put(u.mem, s), u.nodes, u.leaves \union {k}, u.age)
  OBVIOUS
<1>9. /\ Moves(u, s, w) /\ Content(u.mem)[key] = Null
      /\ Content(w.mem) = [Content(u.mem) EXCEPT ![key] = value]
  BY <1>1, <1>5, <1>6, <1>7, <1>8, MoveInsert
<1>10. Runs(v, FillLeaf(k, key, value) \o <<s>>, w)
  BY <1>1, <1>9, RunsOne, RunsOn
<1>11. w.mem = Put(u.mem, s) /\ w.age = v.age /\ Kept(w) \subseteq Kept(v) \union {k}
  BY <1>6, <1>8 DEF View, Kept, Live
<1>12. ASSUME NEW q \in Places, q[2] \in P PROVE w.mem[q] = v.mem[q]
  <2>1. P \subseteq Objects /\ q[2] \notin Kept(v) /\ q[2] # k /\ q[2] # Null
    BY <1>12, RefFacts DEF Have, Chained
  <2>2. q # link
    BY <1>2, <1>4, <2>1
  <2>3. w.mem[q] = u.mem[q]
    <3>1. PICK m, m2 : m = u.mem /\ m2 = w.mem
      OBVIOUS
    <3> QED
      BY <1>4, <1>7, <1>11, <2>2, <3>1, StoreFacts
  <2> QED
    BY <1>1, <2>1, <2>3 DEF Private
<1>13. PoolOk(w, p, P)
  BY <1>11, <1>12, HaveLands
<1> QED
  BY <1>6, <1>7, <1>9, <1>10, <1>13

\* A leaf and a node are filled and linked above what the key does not match.
LEMMA InsertSplit ==
  ASSUME NEW v, Good(v), NEW k \in Leaves, k \notin Kept(v), NEW x \in Nodes, x \notin Kept(v),
         NEW p, NEW P, Have(v, p, P, {k} \union {x}),
         NEW key \in Keys, NEW value \in AllValues, NEW link \in Route(v.mem, v.nodes, key),
         NEW y, y = v.mem[link], y # Null, y \in Nodes => ~Matches(v.mem, key, y),
         NEW path, path = PathOf(v.mem, y), path # key
  PROVE  \E w : /\ Runs(v, FillLeaf(k, key, value) \o FillNode(x, key, k, path, y) \o <<Store(link, x)>>, w)
                /\ PoolOk(w, p, P)
                /\ Content(v.mem)[key] = Null /\ Content(w.mem) = [Content(v.mem) EXCEPT ![key] = value]
<1>1. PICK u : /\ Runs(v, FillLeaf(k, key, value), u) /\ Private(v, u, k)
               /\ u.mem[Key(k)] = key /\ u.mem[Value(k)] = value
  BY FillFacts
<1>2. /\ k # Null /\ x # Null /\ k # x /\ key \in Nat /\ key \in KeyRange
      /\ v.nodes \subseteq Nodes /\ v.nodes \subseteq Kept(v) /\ Tree(v.mem, v.nodes, v.leaves)
  BY RefFacts, GoodFacts, ShiftFacts DEF Kept, Live
<1>3. link \in TreeLinks(v.nodes)
  <2>1. PICK m, N, K : m = v.mem /\ N = v.nodes /\ K = v.leaves
    OBVIOUS
  <2> QED
    BY <1>2, <2>1, RouteFacts
<1>4. link \in Places /\ (link[2] = Null \/ link[2] \in v.nodes)
  BY <1>2, <1>3, TreeLinkFacts, PlaceFacts DEF TreeLinks
<1>5. y \in Live(v) /\ y \in Kept(v) /\ y \in Objects
  <2>1. y \in v.nodes \union v.leaves \union {Null}
    BY <1>2, <1>3 DEF Tree
  <2> QED
    BY <2>1, GoodFacts DEF Kept, Live
<1>6. /\ u.mem[link] = y /\ Route(u.mem, v.nodes, key) = Route(v.mem, v.nodes, key) /\ SameWords(v.mem, u.mem, y)
  BY <1>1, <1>2, <1>3, <1>5, PrivateWords
<1>7. /\ Good(u) /\ Kept(u) = Kept(v) /\ Live(u) = Live(v) /\ u.nodes = v.nodes /\ u.age = v.age
      /\ Content(u.mem) = Content(v.mem)
  BY <1>1, PrivateKept DEF Private
<1>8. PathOf(u.mem, y) = path
  <2>1. PICK m, m2 : m = v.mem /\ m2 = u.mem
    OBVIOUS
  <2> QED
    BY <1>5, <1>6, <2>1, SameWordsFacts
<1>9. PICK s, w : /\ FillNode(x, key, k, path, y) = <<s>> /\ Moves(u, s, w) /\ Private(u, w, x)
                  /\ Splits(w.mem, x, key, k, y)
  BY <1>2, <1>5, <1>7, <1>8, NodeMove
<1>10. /\ w.mem[link] = y /\ Route(w.mem, v.nodes, key) = Route(v.mem, v.nodes, key)
       /\ SameWords(u.mem, w.mem, y)
  BY <1>2, <1>3, <1>5, <1>6, <1>7, <1>9, PrivateWords
<1>11. /\ Good(w) /\ Kept(w) = Kept(v) /\ w.nodes = v.nodes /\ w.age = v.age /\ Content(w.mem) = Content(v.mem)
  BY <1>7, <1>9, PrivateKept DEF Private
<1>12. w.mem[Key(k)] = key /\ w.mem[Value(k)] = value
  <2>1. Key(k) \in Places /\ Value(k) \in Places /\ Key(k)[2] # x /\ Value(k)[2] # x
    BY <1>2, PlaceFacts
  <2> QED
    BY <1>1, <1>9, <2>1 DEF Private
<1>13. PathOf(w.mem, y) = path /\ (y \in Nodes => ~Matches(w.mem, key, y))
  <2>1. PICK m, m2, m3 : m = v.mem /\ m2 = u.mem /\ m3 = w.mem
    OBVIOUS
  <2>2. PathOf(m3, y) = PathOf(m2, y) /\ (y \in Nodes => Matches(m3, key, y) = Matches(m2, key, y))
    BY <1>5, <1>10, <2>1, SameWordsFacts
  <2>3. y \in Nodes => Matches(m2, key, y) = Matches(m, key, y)
    BY <1>5, <1>6, <2>1, SameWordsFacts
  <2> QED
    BY <1>8, <2>1, <2>2, <2>3
<1>14. PICK t : t = Store(link, x)
  OBVIOUS
<1>15. PICK z : z = View(Put(w.mem, t), w.nodes \union {x}, w.leaves \union {k}, w.age)
  OBVIOUS
<1>16. /\ Moves(w, t, z) /\ Content(w.mem)[key] = Null
       /\ Content(z.mem) = [Content(w.mem) EXCEPT ![key] = value]
  <2>1. link \in Route(w.mem, w.nodes, key) /\ k \notin Kept(w) /\ x \notin Kept(w) /\ Good(w)
    BY <1>10, <1>11
  <2>2. /\ w.mem[link] # Null /\ PathOf(w.mem, w.mem[link]) # key
        /\ w.mem[link] \in Nodes => ~Matches(w.mem, key, w.mem[link])
        /\ Splits(w.mem, x, key, k, w.mem[link])
    BY <1>9, <1>10, <1>13
  <2>3. w.mem[Key(k)] = key /\ w.mem[Value(k)] \in AllValues /\ w.mem[Value(k)] = value
    BY <1>12
  <2>4. SplitStep(w, k, key, x, link, t, z)
    BY <1>12, <1>14, <1>15, <2>1, <2>2, <2>3 DEF SplitStep
  <2>5. Moves(w, t, z)
    BY <2>4, MoveSplit
  <2>6. Content(w.mem)[key] = Null
    BY <2>4, MoveSplit
  <2>7. Content(z.mem) = Gains(Content(w.mem), key, w.mem[Value(k)])
    BY <2>4, MoveSplit
  <2> QED
    BY <2>3, <2>5, <2>6, <2>7 DEF Gains
<1>17. Runs(v, FillLeaf(k, key, value) \o FillNode(x, key, k, path, y) \o <<t>>, z)
  BY <1>1, <1>9, <1>16, RunsOne, RunsOn
<1>18. z.mem = Put(w.mem, t) /\ z.age = v.age /\ Kept(z) \subseteq Kept(v) \union ({k} \union {x})
  BY <1>11, <1>15 DEF View, Kept, Live
<1>19. ASSUME NEW q \in Places, q[2] \in P PROVE z.mem[q] = v.mem[q]
  <2>1. P \subseteq Objects /\ q[2] \notin Kept(v) /\ q[2] # k /\ q[2] # x /\ q[2] # Null
    BY <1>19, RefFacts DEF Have, Chained
  <2>2. q # link
    BY <1>2, <1>4, <2>1
  <2>3. z.mem[q] = w.mem[q]
    <3>1. PICK m, m2 : m = w.mem /\ m2 = z.mem
      OBVIOUS
    <3> QED
      BY <1>4, <1>14, <1>18, <2>2, <3>1, StoreFacts
  <2> QED
    BY <1>1, <1>9, <2>1, <2>3 DEF Private
<1>20. PoolOk(z, p, P)
  BY <1>18, <1>19, HaveLands
<1> QED
  BY <1>11, <1>14, <1>16, <1>17, <1>20

LEMMA Results == Ok # Exists /\ Ok # NoMemory /\ Exists # NoMemory
  BY DEF Ok, Exists, NoMemory

LEMMA InsertLands ==
  ASSUME NEW v, NEW P, Good(v), v.mem = mem, PoolOk(v, pool, P), content = Content(mem),
         NEW t, NEW key \in Keys, NEW value \in Values[key], NEW given, CritnibInsert(t, key, value, given)
  PROVE  \E w : Runs(v, todo', w) /\ (\E Q : PoolOk(w, pool', Q)) /\ Exact(call', Content(w.mem))
<1>1. value \in AllValues /\ key \in Nat /\ key \in KeyRange
  BY ShiftFacts DEF AllValues
<1>2. Have(v, pool, P, {})
  <2>1. Kept(v) \union P \union {} = Kept(v) \union P
    OBVIOUS
  <2> QED
    BY <2>1 DEF PoolOk, Have
<1>3. PICK leaf : leaf = Alloc(pool, "leaf", given)
  OBVIOUS
<1>4. PICK k, p1 : k = leaf[1] /\ p1 = leaf[2]
  OBVIOUS
<1>5. PICK link : link = InsertionPoint(key)
  OBVIOUS
<1>6. PICK n : n = mem[link]
  OBVIOUS
<1>7. PICK path : path = IF n \in Leaves THEN mem[Key(n)] ELSE mem[Path(n)]
  OBVIOUS
<1>8. PICK node : node = Alloc(p1, "node", given)
  OBVIOUS
<1>9. PICK x, p2 : x = node[1] /\ p2 = node[2]
  OBVIOUS
<1>10. PICK undone : undone = FillLeaf(k, key, value) \o FreeSteps(p1, k)
  OBVIOUS
<1>11. \/ k = Null /\ Begin(t, "insert", key, value, << >>, pool, NoMemory)
       \/ /\ k # Null /\ n = Null
          /\ Begin(t, "insert", key, value, FillLeaf(k, key, value) \o <<Store(link, k)>>, p1, Ok)
       \/ /\ k # Null /\ n # Null /\ path = key
          /\ Begin(t, "insert", key, value, undone, Free(p1, k), Exists)
       \/ /\ k # Null /\ n # Null /\ path # key /\ x = Null
          /\ Begin(t, "insert", key, value, undone, Free(p1, k), NoMemory)
       \/ /\ k # Null /\ n # Null /\ path # key /\ x # Null
          /\ Begin(t, "insert", key, value,
                   FillLeaf(k, key, value) \o FillNode(x, key, k, path, n) \o <<Store(link, x)>>, p2, Ok)
  BY <1>3, <1>4, <1>5, <1>6, <1>7, <1>8, <1>9, <1>10 DEF CritnibInsert
<1>12. k # Null => k \in Leaves /\ k \notin Kept(v) /\ k \notin P \ {k} /\ Have(v, p1, P \ {k}, {k})
  <2> SUFFICES ASSUME k # Null PROVE k \in Leaves /\ k \notin Kept(v) /\ Have(v, p1, P \ {k}, {k})
    OBVIOUS
  <2>1. "leaf" \in Kinds
    BY DEF Kinds
  <2>2. leaf[1] # Null
    BY <1>4
  <2>3. /\ leaf[1] \in Objects /\ leaf[1][1] = "leaf" /\ leaf[1] \notin Kept(v)
        /\ Have(v, leaf[2], P \ {leaf[1]}, {} \union {leaf[1]})
    BY <1>2, <1>3, <2>1, <2>2, AllocTakes
  <2>4. {} \union {k} = {k}
    OBVIOUS
  <2> QED
    BY <1>4, <2>3, <2>4, ObjectFacts
<1>13. PICK N, K : N = v.nodes /\ K = v.leaves /\ Tree(mem, N, K) /\ Memory(mem)
  BY GoodFacts
<1>14. /\ link \in Route(mem, N, key) /\ link \notin Shared(mem, key) /\ link \in TreeLinks(N) /\ link \in Links
  <2>1. link = Descent(mem, key)[Root]
    BY <1>5, PointFacts
  <2>2. link \in Route(mem, N, key) /\ link \notin Shared(mem, key)
    BY <1>1, <1>13, <2>1, DescentEnds
  <2> QED
    BY <1>1, <1>13, <2>2, RouteFacts DEF TreeLinks
<1>15. /\ n \in Refs /\ n \in N \union K \union {Null} /\ N \subseteq Nodes /\ K \subseteq Leaves
       /\ n \in Nodes => ~Matches(mem, key, n)
  BY <1>6, <1>13, <1>14 DEF Tree, Memory, Shared
<1>16. /\ path = PathOf(mem, n)
       /\ PathOf(v.mem, n) = PathOf(mem, n) /\ v.mem[link] = n /\ Route(v.mem, v.nodes, key) = Route(mem, N, key)
       /\ Matches(v.mem, key, n) = Matches(mem, key, n)
  BY <1>6, <1>7, <1>13 DEF PathOf
<1>17. ASSUME NEW result PROVE
         LET c == [op |-> "insert", thread |-> t, key |-> key, value |-> value, result |-> result, before |-> content]
         IN  /\ result = NoMemory => Exact(c, content)
             /\ result = Exists /\ content[key] # Null => Exact(c, content)
             /\ result = Ok /\ content[key] = Null => Exact(c, [content EXCEPT ![key] = value])
  BY Results DEF Exact
<1>18. CASE k = Null /\ Begin(t, "insert", key, value, << >>, pool, NoMemory)
  <2>1. todo' = << >> /\ pool' = pool
    BY <1>18 DEF Begin
  <2>2. Exact(call', Content(v.mem))
    BY <1>17, <1>18 DEF Begin
  <2>3. Runs(v, << >>, v)
    BY RunsNone
  <2> QED
    BY <2>1, <2>2, <2>3
<1>19. CASE /\ k # Null /\ n = Null
            /\ Begin(t, "insert", key, value, FillLeaf(k, key, value) \o <<Store(link, k)>>, p1, Ok)
  <2>0. PICK R : R = P \ {k}
    OBVIOUS
  <2>01. Have(v, p1, R, {k}) /\ k \in Leaves /\ k \notin Kept(v)
    BY <1>12, <1>19, <2>0
  <2>02. link \in Route(v.mem, v.nodes, key) /\ v.mem[link] = Null
    BY <1>14, <1>16, <1>19
  <2>1. PICK w : /\ Runs(v, FillLeaf(k, key, value) \o <<Store(link, k)>>, w) /\ PoolOk(w, p1, R)
                 /\ Content(v.mem)[key] = Null /\ Content(w.mem) = [Content(v.mem) EXCEPT ![key] = value]
    BY <1>1, <2>01, <2>02, InsertLeaf
  <2>2. todo' = FillLeaf(k, key, value) \o <<Store(link, k)>> /\ pool' = p1
    BY <1>19 DEF Begin
  <2>3. Exact(call', Content(w.mem))
    BY <1>17, <1>19, <2>1 DEF Begin
  <2> QED
    BY <2>1, <2>2, <2>3
<1>20. k # Null => \E w : Runs(v, undone, w) /\ PoolOk(w, Free(p1, k), (P \ {k}) \union {k}) /\ Content(w.mem) = content
  <2> SUFFICES ASSUME k # Null PROVE \E w : /\ Runs(v, undone, w) /\ PoolOk(w, Free(p1, k), (P \ {k}) \union {k})
                                            /\ Content(w.mem) = content
    OBVIOUS
  <2>1. PICK R : R = P \ {k}
    OBVIOUS
  <2>2. Have(v, p1, R, {k}) /\ k \in Leaves /\ k \notin Kept(v)
    BY <1>12, <2>1
  <2>3. PICK w : /\ Runs(v, FillLeaf(k, key, value) \o FreeSteps(p1, k), w)
                 /\ PoolOk(w, Free(p1, k), R \union {k}) /\ Content(w.mem) = Content(v.mem)
    <3>1. PICK steps, q, Q : steps = FillLeaf(k, key, value) \o FreeSteps(p1, k) /\ q = Free(p1, k) /\ Q = R \union {k}
      OBVIOUS
    <3>2. Undone(v, steps, q, Q)
      BY <1>1, <2>2, <3>1, UndoneFacts
    <3> QED
      BY <3>1, <3>2 DEF Undone
  <2> QED
    BY <1>10, <2>1, <2>3
<1>21. CASE /\ k # Null /\ n # Null /\ path = key
            /\ Begin(t, "insert", key, value, undone, Free(p1, k), Exists)
  <2>1. content[key] # Null
    <3>1. n \notin Nodes
      <4>1. n \in Nodes => n \in N /\ n \notin Leaves
        BY <1>15, RefFacts
      <4>2. n \in N => Matches(mem, mem[Path(n)], n)
        BY <1>13 DEF Tree
      <4> QED
        BY <1>15, <1>16, <1>21, <4>1, <4>2 DEF PathOf
    <3>2. n \in K /\ mem[Key(n)] = key
      BY <1>15, <1>7, <1>21, <3>1
    <3>3. Lookup(mem, key) \in AllValues
      BY <1>1, <1>13, <3>2, LookupFacts
    <3> QED
      BY <3>3, ContentOf, ValuesAssumption DEF AllValues
  <2>2. PICK w : Runs(v, undone, w) /\ PoolOk(w, Free(p1, k), (P \ {k}) \union {k}) /\ Content(w.mem) = content
    BY <1>20, <1>21
  <2>3. todo' = undone /\ pool' = Free(p1, k)
    BY <1>21 DEF Begin
  <2>4. Exact(call', Content(w.mem))
    BY <1>17, <1>21, <2>1, <2>2 DEF Begin
  <2> QED
    BY <2>2, <2>3, <2>4
<1>22. CASE /\ k # Null /\ n # Null /\ path # key /\ x = Null
            /\ Begin(t, "insert", key, value, undone, Free(p1, k), NoMemory)
  <2>1. PICK w : Runs(v, undone, w) /\ PoolOk(w, Free(p1, k), (P \ {k}) \union {k}) /\ Content(w.mem) = content
    BY <1>20, <1>22
  <2>2. todo' = undone /\ pool' = Free(p1, k)
    BY <1>22 DEF Begin
  <2>3. Exact(call', Content(w.mem))
    BY <1>17, <1>22, <2>1 DEF Begin
  <2> QED
    BY <2>1, <2>2, <2>3
<1>23. CASE /\ k # Null /\ n # Null /\ path # key /\ x # Null
            /\ Begin(t, "insert", key, value,
                     FillLeaf(k, key, value) \o FillNode(x, key, k, path, n) \o <<Store(link, x)>>, p2, Ok)
  <2>1. PICK R : R = (P \ {k}) \ {x}
    OBVIOUS
  <2>2. x \in Nodes /\ x \notin Kept(v) /\ Have(v, p2, R, {k} \union {x})
    <3>1. "node" \in Kinds
      BY DEF Kinds
    <3>2. node[1] # Null
      BY <1>9, <1>23
    <3>3. /\ node[1] \in Objects /\ node[1][1] = "node" /\ node[1] \notin Kept(v)
          /\ Have(v, node[2], (P \ {k}) \ {node[1]}, {k} \union {node[1]})
      BY <1>8, <1>12, <1>23, <3>1, <3>2, AllocTakes
    <3> QED
      BY <1>9, <2>1, <3>3, ObjectFacts
  <2>3. PICK w : /\ Runs(v, FillLeaf(k, key, value) \o FillNode(x, key, k, path, n) \o <<Store(link, x)>>, w)
                 /\ PoolOk(w, p2, R)
                 /\ Content(v.mem)[key] = Null /\ Content(w.mem) = [Content(v.mem) EXCEPT ![key] = value]
    BY <1>1, <1>12, <1>14, <1>15, <1>16, <1>23, <2>2, InsertSplit
  <2>4. todo' = FillLeaf(k, key, value) \o FillNode(x, key, k, path, n) \o <<Store(link, x)>> /\ pool' = p2
    BY <1>23 DEF Begin
  <2>5. Exact(call', Content(w.mem))
    BY <1>17, <1>23, <2>3 DEF Begin
  <2> QED
    BY <2>3, <2>4, <2>5
<1> QED
  BY <1>11, <1>18, <1>19, <1>21, <1>22, <1>23

-----------------------------------------------------------------------------
(* What rests                                                              *)

LEMMA AddRemainder ==
  ASSUME NEW a \in Nat, NEW d \in Nat \ {0}
  PROVE  (a + d) % d = a % d
<1>1. PICK q, r \in Nat : q = a \div d /\ r = a % d /\ a = d * q + r /\ r < d
  BY DivFacts
<1>2. PICK s, b \in Nat : s = q + 1 /\ b = a + d
  BY <1>1
<1>3. b = d * s + r
  BY <1>1, <1>2
<1>4. b % d = r
  <2>1. r \in Nat /\ r < d
    BY <1>1
  <2> QED
    BY <1>3, <2>1, DivUnique
<1> QED
  BY <1>1, <1>2, <1>4

\* What is in the slot of a removal has rested for DeletedLife removals.
LEMMA SlotFacts ==
  ASSUME NEW v, Good(v), NEW p, Resting(p, v.age), NEW c, c = Count(v), NEW x \in DOMAIN v.age
  PROVE  v.age[x] % DeletedLife = c % DeletedLife <=> x \notin DOMAIN Younger(v)
<1>1. PICK a, d : a = v.age[x] /\ d = DeletedLife
  OBVIOUS
<1>2. a \in Nat /\ c \in Nat /\ a < c /\ c <= a + d /\ d \in Nat \ {0}
  BY <1>1, GoodFacts, FanoutFacts DEF Good
<1>3. x \notin DOMAIN Younger(v) <=> ~(c < a + d)
  BY <1>1 DEF Younger
<1>4. ASSUME a % d = c % d PROVE ~(c < a + d)
  BY <1>2, <1>4, SameRemainder
<1>5. ASSUME ~(c < a + d) PROVE a % d = c % d
  <2>1. c = a + d
    BY <1>2, <1>5
  <2> QED
    BY <1>2, <2>1, AddRemainder
<1> QED
  BY <1>1, <1>3, <1>4, <1>5

\* The slot of a removal takes what leaves the tree in it.
Rested(v, age, n, k) ==
  /\ DOMAIN age = DOMAIN Younger(v) \union Freed(n) \union Freed(k)
  /\ \A x \in DOMAIN Younger(v) : age[x] = v.age[x]
  /\ n # Null => age[n] = Count(v)
  /\ k # Null => age[k] = Count(v)

LEMMA RestFacts ==
  ASSUME NEW v, Good(v), NEW p, Resting(p, v.age), NEW q \in PoolType, q.pending = p.pending,
         NEW n \in Nodes \union {Null}, NEW k \in Leaves \union {Null}, NEW age, Rested(v, age, n, k),
         NEW del, del = Count(v) % DeletedLife, NEW r, r = Rest(q, del, n, k)
  PROVE  Resting(r, age) /\ r \in PoolType /\ r.deleted = q.deleted /\ r.taken = q.taken
<1>1. del \in Slots /\ Count(v) \in Nat
  <2>1. PICK c : c = Count(v)
    OBVIOUS
  <2>2. c \in Nat /\ DeletedLife \in Nat \ {0}
    BY <2>1, GoodFacts, FanoutFacts
  <2>3. c % DeletedLife \in Nat /\ c % DeletedLife < DeletedLife
    BY <2>2, DivFacts
  <2> QED
    BY <2>1, <2>2, <2>3 DEF Slots
<1>2. /\ r \in PoolType /\ r.deleted = q.deleted /\ r.taken = q.taken
      /\ r.pending["node"][del] = n /\ r.pending["leaf"][del] = k
      /\ \A kind \in Kinds, i \in Slots : i # del => r.pending[kind][i] = p.pending[kind][i]
  <2>1. /\ n \in Refs /\ k \in Refs
    BY DEF Refs
  <2>2. r = [q EXCEPT !.pending.node[del] = n, !.pending.leaf[del] = k]
    BY DEF Rest
  <2>3. /\ r \in PoolType /\ r.deleted = q.deleted /\ r.taken = q.taken
        /\ r.pending["node"][del] = n /\ r.pending["leaf"][del] = k
        /\ \A i \in Slots : i # del => r.pending["node"][i] = q.pending["node"][i]
        /\ \A i \in Slots : i # del => r.pending["leaf"][i] = q.pending["leaf"][i]
    <3>1. PICK u : u = q.pending
      OBVIOUS
    <3>2. u \in [Kinds -> [Slots -> Refs]]
      BY <3>1 DEF PoolType
    <3>3. PICK z : z = [u EXCEPT !.node[del] = n, !.leaf[del] = k]
      OBVIOUS
    <3>4. r = [q EXCEPT !.pending = z]
      BY <2>2, <3>1, <3>3 DEF PoolType
    <3>5. PICK y : y = [u EXCEPT !.node[del] = n]
      OBVIOUS
    <3>6. z = [y EXCEPT !.leaf[del] = k]
      BY <3>3, <3>5
    <3>7. /\ y \in [Kinds -> [Slots -> Refs]] /\ y["leaf"] = u["leaf"] /\ y["node"][del] = n
          /\ \A i \in Slots : i # del => y["node"][i] = u["node"][i]
      BY <1>1, <2>1, <3>2, <3>5 DEF Kinds
    <3>8. /\ z \in [Kinds -> [Slots -> Refs]] /\ z["node"] = y["node"] /\ z["leaf"][del] = k
          /\ \A i \in Slots : i # del => z["leaf"][i] = y["leaf"][i]
      BY <1>1, <2>1, <3>6, <3>7 DEF Kinds
    <3>9. r \in PoolType /\ r.deleted = q.deleted /\ r.taken = q.taken /\ r.pending = z
      BY <3>4, <3>8 DEF PoolType
    <3> QED
      BY <3>1, <3>7, <3>8, <3>9
  <2> QED
    BY <2>3 DEF Kinds
<1>3. ASSUME NEW kind \in Kinds, NEW i \in Slots, r.pending[kind][i] # Null
      PROVE  /\ r.pending[kind][i] \in DOMAIN age /\ r.pending[kind][i][1] = kind
             /\ age[r.pending[kind][i]] % DeletedLife = i
  <2>1. CASE i = del
    <3>1. CASE kind = "node"
      <4>1. r.pending[kind][i] = n /\ n # Null
        BY <1>2, <1>3, <2>1, <3>1
      <4>2. n \in DOMAIN age /\ n[1] = "node" /\ age[n] % DeletedLife = del
        BY <4>1, RefFacts DEF Rested, Freed
      <4> QED
        BY <2>1, <3>1, <4>1, <4>2
    <3>2. CASE kind = "leaf"
      <4>1. r.pending[kind][i] = k /\ k # Null
        BY <1>2, <1>3, <2>1, <3>2
      <4>2. k \in DOMAIN age /\ k[1] = "leaf" /\ age[k] % DeletedLife = del
        BY <4>1, RefFacts DEF Rested, Freed
      <4> QED
        BY <2>1, <3>2, <4>1, <4>2
    <3> QED
      BY <3>1, <3>2 DEF Kinds
  <2>2. CASE i # del
    <3>1. PICK x : x = r.pending[kind][i]
      OBVIOUS
    <3>2. x = p.pending[kind][i] /\ x # Null
      BY <1>2, <1>3, <2>2, <3>1
    <3>3. x \in DOMAIN v.age /\ x[1] = kind /\ v.age[x] % DeletedLife = i
      BY <3>2 DEF Resting
    <3>4. x \in DOMAIN Younger(v)
      BY <2>2, <3>3, SlotFacts
    <3>5. x \in DOMAIN age /\ age[x] = v.age[x]
      BY <3>4 DEF Rested
    <3> QED
      BY <3>1, <3>3, <3>5
  <2> QED
    BY <2>1, <2>2
<1>4. ASSUME NEW x \in DOMAIN age PROVE r.pending[x[1]][age[x] % DeletedLife] = x
  <2>1. CASE x \in DOMAIN Younger(v)
    <3>1. x \in DOMAIN v.age /\ age[x] = v.age[x] /\ x \in Objects
      BY <2>1, GoodFacts DEF Younger, Rested
    <3>2. v.age[x] % DeletedLife # del
      BY <2>1, <3>1, SlotFacts
    <3>3. p.pending[x[1]][v.age[x] % DeletedLife] = x
      BY <3>1 DEF Resting
    <3>4. PICK a : a = v.age[x]
      OBVIOUS
    <3>5. a \in Nat /\ DeletedLife \in Nat \ {0}
      BY <3>1, <3>4, FanoutFacts DEF Good
    <3>6. a % DeletedLife \in Nat /\ a % DeletedLife < DeletedLife
      BY <3>5, DivFacts
    <3>7. a % DeletedLife \in Slots /\ x[1] \in Kinds
      BY <3>1, <3>5, <3>6, ObjectFacts DEF Slots
    <3> QED
      BY <1>2, <3>1, <3>2, <3>3, <3>4, <3>7
  <2>2. CASE x \notin DOMAIN Younger(v)
    <3>1. x # Null /\ (x = n \/ x = k) /\ age[x] = Count(v)
      BY <2>2 DEF Rested, Freed
    <3>2. CASE x = n
      BY <1>2, <3>1, <3>2, RefFacts
    <3>3. CASE x = k
      BY <1>2, <3>1, <3>3, RefFacts
    <3> QED
      BY <3>1, <3>2, <3>3
  <2> QED
    BY <2>1, <2>2
<1> QED
  BY <1>2, <1>3, <1>4 DEF Resting

-----------------------------------------------------------------------------
(* critnib_remove                                                          *)

\* The removal has counted itself, and what rested long enough is free.
Expired(v, P, p, u, Q) ==
  /\ Good(u) /\ u.nodes = v.nodes /\ u.leaves = v.leaves /\ u.age = Younger(v) /\ Count(u) = Count(v) + 1
  /\ Content(u.mem) = Content(v.mem)
  /\ \A q \in Places : q[2] \in Live(v) \/ q = Root => u.mem[q] = v.mem[q]
  /\ Chained(u.mem, p, Q) /\ Q \subseteq Kept(v) \union P /\ \A x \in Q : x \notin Kept(u)

LEMMA ExpireRuns ==
  ASSUME NEW v, NEW P, Good(v), v.mem = mem, PoolOk(v, pool, P),
         NEW c, c = mem[RemoveCount], NEW del, del = c % DeletedLife
  PROVE  /\ \E u, Q : /\ Runs(v, <<Store(RemoveCount, c + 1)>> \o ExpireSteps(pool, del), u)
                      /\ Expired(v, P, Expire(pool, del), u, Q)
         /\ Expire(pool, del).pending = pool.pending /\ Expire(pool, del).taken = pool.taken
<1>1. c = Count(v) /\ c \in Nat /\ del \in Slots
  <2>1. c = Count(v) /\ c \in Nat /\ DeletedLife \in Nat \ {0}
    BY GoodFacts, FanoutFacts DEF Count
  <2>2. c % DeletedLife \in Nat /\ c % DeletedLife < DeletedLife
    BY <2>1, DivFacts
  <2> QED
    BY <2>1, <2>2 DEF Slots
<1>2. /\ Chained(mem, pool, P) /\ Resting(pool, v.age) /\ P \subseteq Objects /\ pool \in PoolType
      /\ \A x \in P : x \notin Kept(v)
  BY DEF PoolOk, Chained
<1>3. PICK x, y : x = pool.pending.node[del] /\ y = pool.pending.leaf[del]
  OBVIOUS
<1>4. x \in Refs /\ y \in Refs
  BY <1>1, <1>2, <1>3 DEF PoolType, Kinds
<1>5. /\ x # Null => x \in DOMAIN v.age /\ x[1] = "node" /\ v.age[x] % DeletedLife = del
      /\ y # Null => y \in DOMAIN v.age /\ y[1] = "leaf" /\ v.age[y] % DeletedLife = del
  BY <1>1, <1>2, <1>3 DEF Resting, Kinds
<1>6. ASSUME NEW z \in {x, y}
      PROVE  z \notin Live(v) \union DOMAIN Younger(v) /\ z \notin P /\ Freed(z) \subseteq Kept(v)
  <2>1. CASE z = Null
    <3>1. z \notin Objects /\ Live(v) \subseteq Objects /\ DOMAIN Younger(v) \subseteq DOMAIN v.age /\ DOMAIN v.age \subseteq Objects
      BY <2>1, RefFacts, GoodFacts DEF Younger
    <3> QED
      BY <1>2, <2>1, <3>1 DEF Freed
  <2>2. CASE z # Null
    <3>1. z \in DOMAIN v.age /\ v.age[z] % DeletedLife = c % DeletedLife
      BY <1>5, <2>2
    <3>2. z \notin DOMAIN Younger(v)
      BY <1>1, <1>2, <3>1, SlotFacts
    <3>3. z \notin Live(v) /\ z \in Kept(v)
      BY <3>1 DEF Good, Kept
    <3> QED
      BY <1>2, <3>2, <3>3 DEF Freed
  <2> QED
    BY <2>1, <2>2
<1>7. PICK s : s = Store(RemoveCount, c + 1)
  OBVIOUS
<1>8. PICK u : u = View(Put(v.mem, s), v.nodes, v.leaves, Younger(v))
  OBVIOUS
<1>9. /\ Moves(v, s, u) /\ Content(u.mem) = Content(v.mem) /\ Count(u) = Count(v) + 1
      /\ \A q \in Places : q # RemoveCount => u.mem[q] = v.mem[q]
  BY <1>1, <1>7, <1>8, MoveCount
<1>10. u.nodes = v.nodes /\ u.leaves = v.leaves /\ u.age = Younger(v) /\ Good(u)
  BY <1>8, <1>9 DEF View, Moves
<1>11. Kept(u) = Live(v) \union DOMAIN Younger(v)
  BY <1>10 DEF Kept, Live
<1>12. Chained(u.mem, pool, P)
  <2>1. ASSUME NEW z \in P PROVE u.mem[PoolLink(z)] = mem[PoolLink(z)]
    <3>1. PoolLink(z) \in Places /\ PoolLink(z)[2] = z /\ z # Null
      BY <1>2, PoolLinkFacts, RefFacts
    <3>2. PoolLink(z) # RemoveCount
      BY <3>1, PlaceFacts
    <3> QED
      BY <1>9, <3>1, <3>2
  <2>2. PICK m2 : m2 = u.mem
    OBVIOUS
  <2> QED
    BY <1>2, <2>1, <2>2, ChainedStays
<1>13. PICK p : p = Free(pool, x)
  OBVIOUS
<1>14. PICK u2 : FreeRun(u, pool, P, x, u2)
  BY <1>4, <1>6, <1>10, <1>11, <1>12, FreeRuns
<1>141. /\ Runs(u, FreeSteps(pool, x), u2) /\ Private(u, u2, x) /\ Chained(u2.mem, p, P \union Freed(x))
        /\ \A q \in Places : q[2] \notin Freed(x) => u2.mem[q] = u.mem[q]
  BY <1>13, <1>14 DEF FreeRun
<1>15. p.pending = pool.pending /\ p.taken = pool.taken
  BY <1>4, <1>6, <1>10, <1>11, <1>12, <1>13, FreeRuns
<1>16. Good(u2) /\ Kept(u2) = Kept(u)
  BY <1>141, PrivateKept DEF Private
<1>17. PICK R : R = P \union Freed(x)
  OBVIOUS
<1>18. y \notin Kept(u2) /\ y \notin R
  BY <1>5, <1>6, <1>11, <1>16, <1>17 DEF Freed
<1>19. PICK r : r = Free(p, y)
  OBVIOUS
<1>20. Chained(u2.mem, p, R)
  BY <1>141, <1>17
<1>21. PICK u3 : FreeRun(u2, p, R, y, u3)
  BY <1>4, <1>16, <1>18, <1>20, FreeRuns
<1>211. /\ Runs(u2, FreeSteps(p, y), u3) /\ Private(u2, u3, y) /\ Chained(u3.mem, r, R \union Freed(y))
        /\ \A q \in Places : q[2] \notin Freed(y) => u3.mem[q] = u2.mem[q]
  BY <1>19, <1>21 DEF FreeRun
<1>22. r.pending = p.pending /\ r.taken = p.taken
  BY <1>4, <1>16, <1>18, <1>19, <1>20, FreeRuns
<1>23. Expire(pool, del) = r /\ ExpireSteps(pool, del) = FreeSteps(pool, x) \o FreeSteps(p, y)
  BY <1>3, <1>13, <1>19 DEF Expire, ExpireSteps
<1>24. Runs(v, <<s>> \o (FreeSteps(pool, x) \o FreeSteps(p, y)), u3)
  BY <1>9, <1>141, <1>211, RunsOne, RunsOn
<1>25. Expired(v, P, r, u3, R \union Freed(y))
  <2>1. Good(u3) /\ Kept(u3) = Kept(u)
    BY <1>16, <1>211, PrivateKept DEF Private
  <2>2. /\ u3.nodes = v.nodes /\ u3.leaves = v.leaves /\ u3.age = Younger(v) /\ Count(u3) = Count(v) + 1
        /\ Content(u3.mem) = Content(v.mem)
    BY <1>9, <1>10, <1>141, <1>211 DEF Private
  <2>3. ASSUME NEW q \in Places, q[2] \in Live(v) \/ q = Root PROVE u3.mem[q] = v.mem[q]
    <3>1. q[2] \notin Freed(x) /\ q[2] \notin Freed(y) /\ q # RemoveCount
      BY <1>6, <2>3, PlaceFacts, GoodFacts, RefFacts DEF Freed
    <3> QED
      BY <1>9, <1>141, <1>211, <3>1
  <2>4. R \union Freed(y) \subseteq Kept(v) \union P
    BY <1>6, <1>17
  <2>5. ASSUME NEW z \in R \union Freed(y) PROVE z \notin Kept(u3)
    <3>1. z \in P \/ z \in {x, y}
      BY <1>17, <2>5 DEF Freed
    <3>2. z \notin Kept(u)
      <4>1. CASE z \in P
        BY <1>2, <1>11, <4>1 DEF Kept, Younger
      <4>2. CASE z \in {x, y}
        BY <1>6, <1>11, <4>2
      <4> QED
        BY <3>1, <4>1, <4>2
    <3> QED
      BY <2>1, <3>2
  <2> QED
    BY <1>211, <2>1, <2>2, <2>3, <2>4, <2>5 DEF Expired
<1> QED
  BY <1>7, <1>15, <1>22, <1>23, <1>24, <1>25

LEMMA NoNullValue == Null \notin AllValues
  BY ValuesAssumption DEF AllValues

\* The pools when what leaves the tree rests.
LEMMA RestLands ==
  ASSUME NEW v, Good(v), NEW P, PoolOk(v, pool, P), NEW del, del = Count(v) % DeletedLife,
         NEW p, p.pending = pool.pending, p.taken = pool.taken,
         NEW w, NEW Q, Chained(w.mem, p, Q), Q \subseteq Kept(v) \union P, \A x \in Q : x \notin Kept(w),
         NEW n \in Nodes \union {Null}, NEW k \in Leaves \union {Null}, Rested(v, w.age, n, k),
         Kept(w) \subseteq Kept(v)
  PROVE  PoolOk(w, Rest(p, del, n, k), Q)
<1>1. Resting(pool, v.age) /\ Counted(pool, Kept(v) \union P)
  BY DEF PoolOk
<1>2. p \in PoolType
  BY DEF Chained
<1>3. PICK r, age : r = Rest(p, del, n, k) /\ age = w.age
  OBVIOUS
<1>4. Rested(v, age, n, k)
  BY <1>3
<1>5. Resting(r, age) /\ r \in PoolType /\ r.deleted = p.deleted /\ r.taken = p.taken
  BY <1>1, <1>2, <1>3, <1>4, RestFacts
<1>6. Chained(w.mem, r, Q)
  BY <1>5 DEF Chained
<1>7. Counted(r, Kept(w) \union Q)
  <2>1. PICK X, Y : X = Kept(v) \union P /\ Y = Kept(w) \union Q
    OBVIOUS
  <2>2. Counted(pool, X) /\ Y \subseteq X /\ r.taken = pool.taken
    BY <1>1, <1>5, <2>1
  <2>3. Counted(r, Y)
    BY <2>2, CountedLess
  <2> QED
    BY <2>1, <2>3
<1> QED
  BY <1>3, <1>5, <1>6, <1>7 DEF PoolOk

\* The leaf has left the tree.
Unlinked(v, P, p, k, link, key, Q, w) ==
  /\ Good(w) /\ w.nodes = v.nodes /\ w.leaves = v.leaves \ {k} /\ Count(w) = Count(v) + 1
  /\ k \in v.leaves /\ link \in TreeLinks(v.nodes) /\ Rested(v, w.age, Null, k)
  /\ Content(v.mem)[key] = v.mem[Value(k)] /\ Content(w.mem) = Gains(Content(v.mem), key, Null)
  /\ w.mem[link] = Null
  /\ \A q \in Places : (q[2] \in Live(v) \/ q = Root) /\ q # link => w.mem[q] = v.mem[q]
  /\ Chained(w.mem, p, Q) /\ Q \subseteq Kept(v) \union P /\ \A x \in Q : x \notin Kept(w)
  /\ Kept(w) \subseteq Kept(v)

LEMMA UnlinkRuns ==
  ASSUME NEW v, NEW P, Good(v), v.mem = mem, PoolOk(v, pool, P),
         NEW c, c = mem[RemoveCount], NEW del, del = c % DeletedLife,
         NEW key \in Keys, NEW link, link = EndOfWalk(mem, key), NEW k \in Leaves, k = mem[link], mem[Key(k)] = key
  PROVE  \E Q, w : /\ Runs(v, <<Store(RemoveCount, c + 1)>> \o ExpireSteps(pool, del) \o <<Store(link, Null)>>, w)
                   /\ Unlinked(v, P, Expire(pool, del), k, link, key, Q, w)
<1>1. PICK steps, p : steps = <<Store(RemoveCount, c + 1)>> \o ExpireSteps(pool, del) /\ p = Expire(pool, del)
  OBVIOUS
<1>2. PICK u, Q : Runs(v, steps, u) /\ Expired(v, P, p, u, Q)
  BY <1>1, ExpireRuns
<1>3. key \in Nat /\ key \in KeyRange /\ Tree(mem, v.nodes, v.leaves) /\ Count(v) \in Nat
  BY ShiftFacts, GoodFacts
<1>4. link \in TreeLinks(v.nodes) /\ k \in v.leaves
  <2>1. link \in TreeLinks(v.nodes) /\ mem[link] \in v.leaves \union {Null}
    BY <1>3, WalkEnds
  <2> QED
    BY <2>1, RefFacts
<1>5. /\ link \in Places /\ (link[2] \in Live(v) \/ link = Root)
      /\ Key(k) \in Places /\ Value(k) \in Places /\ Key(k)[2] = k /\ Value(k)[2] = k /\ k \in Live(v)
  <2>1. v.nodes \subseteq Nodes /\ v.leaves \subseteq Leaves
    BY GoodFacts
  <2> QED
    BY <1>4, <2>1, TreeLinkFacts, PlaceFacts DEF TreeLinks, Live
<1>6. link \in Places
  <2>1. v.nodes \subseteq Nodes
    BY GoodFacts
  <2> QED
    BY <1>4, <2>1, PlaceFacts, TreeLinkFacts
<1>7. /\ Good(u) /\ u.nodes = v.nodes /\ u.leaves = v.leaves /\ u.age = Younger(v) /\ Count(u) = Count(v) + 1
      /\ Content(u.mem) = Content(v.mem) /\ Count(u) > 0
      /\ u.mem[link] = k /\ u.mem[Key(k)] = key /\ u.mem[Value(k)] = v.mem[Value(k)]
      /\ Live(u) = Live(v)
  <2>1. /\ Good(u) /\ u.nodes = v.nodes /\ u.leaves = v.leaves /\ u.age = Younger(v) /\ Count(u) = Count(v) + 1
        /\ Content(u.mem) = Content(v.mem)
        /\ \A q \in Places : q[2] \in Live(v) \/ q = Root => u.mem[q] = v.mem[q]
    BY <1>2 DEF Expired
  <2>2. Count(u) > 0
    BY <1>3, <2>1
  <2> QED
    BY <1>5, <1>6, <2>1, <2>2 DEF Live
<1>8. PICK s : s = Store(link, Null)
  OBVIOUS
<1>9. PICK w : w = View(Put(u.mem, s), u.nodes, u.leaves \ {k}, Aged(u, k))
  OBVIOUS
<1>10. /\ Moves(u, s, w) /\ Count(w) = Count(u) /\ Content(u.mem)[key] = u.mem[Value(k)]
       /\ Content(w.mem) = [Content(u.mem) EXCEPT ![key] = Null]
  <2>1. link \in TreeLinks(u.nodes) /\ k \in u.leaves /\ u.mem[Key(k)] \in Keys
    BY <1>4, <1>7
  <2> QED
    BY <1>7, <1>8, <1>9, <2>1, NoNullValue, MoveUnlink
<1>11. w.mem = Put(u.mem, s) /\ w.nodes = v.nodes /\ w.leaves = v.leaves \ {k} /\ w.age = Aged(u, k) /\ Good(w)
  BY <1>7, <1>9, <1>10 DEF View, Moves
<1>12. Rested(v, w.age, Null, k)
  <2>1. /\ DOMAIN w.age = DOMAIN Younger(v) \union {k} /\ w.age[k] = Count(u) - 1
        /\ \A x \in DOMAIN Younger(v) : x # k => w.age[x] = Younger(v)[x]
    BY <1>7, <1>11 DEF Aged
  <2>2. Freed(Null) = {} /\ Freed(k) = {k} /\ k # Null
    BY RefFacts DEF Freed
  <2>3. \A x \in DOMAIN Younger(v) : Younger(v)[x] = v.age[x] /\ x # k
    BY <1>5 DEF Younger, Good
  <2>4. w.age[k] = Count(v)
    BY <1>3, <1>7, <2>1
  <2> QED
    BY <2>1, <2>2, <2>3, <2>4 DEF Rested
<1>13. Kept(w) \subseteq Kept(u) /\ Kept(u) \subseteq Kept(v)
  <2>1. DOMAIN w.age \subseteq DOMAIN u.age \union {k} /\ Live(w) \subseteq Live(u) /\ k \in Live(u)
    BY <1>5, <1>7, <1>11 DEF Aged, Live
  <2>2. DOMAIN Younger(v) \subseteq DOMAIN v.age
    BY DEF Younger
  <2> QED
    BY <1>7, <2>1, <2>2 DEF Kept
<1>14. w.mem[link] = Null /\ \A q \in Places : q # link => w.mem[q] = u.mem[q]
  <2>1. PICK m, m2 : m = u.mem /\ m2 = w.mem
    OBVIOUS
  <2> QED
    BY <1>6, <1>8, <1>11, <2>1, StoreFacts
<1>15. \A q \in Places : (q[2] \in Live(v) \/ q = Root) /\ q # link => w.mem[q] = v.mem[q]
  BY <1>2, <1>14 DEF Expired
<1>16. /\ Chained(u.mem, p, Q) /\ Q \subseteq Kept(v) \union P /\ Q \subseteq Objects /\ p \in PoolType
       /\ \A x \in Q : x \notin Kept(u)
  BY <1>2 DEF Expired, Chained
<1>17. Chained(w.mem, p, Q)
  <2>1. ASSUME NEW x \in Q PROVE w.mem[PoolLink(x)] = u.mem[PoolLink(x)]
    <3>1. PoolLink(x) \in Places /\ PoolLink(x)[2] = x /\ x \notin Live(v) /\ x # Null
      BY <1>7, <1>16, PoolLinkFacts, RefFacts DEF Kept
    <3>2. PoolLink(x) # link
      BY <1>5, <3>1, PlaceFacts
    <3> QED
      BY <1>14, <3>1, <3>2
  <2>2. PICK m, m2 : m = u.mem /\ m2 = w.mem
    OBVIOUS
  <2> QED
    BY <1>16, <2>1, <2>2, ChainedStays
<1>18. Unlinked(v, P, p, k, link, key, Q, w)
  BY <1>4, <1>7, <1>10, <1>11, <1>12, <1>13, <1>14, <1>15, <1>16, <1>17 DEF Unlinked, Gains
<1>19. Runs(v, steps \o <<s>>, w)
  BY <1>2, <1>10, RunsOne, RunsOn
<1> QED
  BY <1>1, <1>8, <1>18, <1>19

\* The node above the leaf has left the tree too.
Collapsed(v, P, p, n, k, Q, w, z) ==
  /\ Good(z) /\ Content(z.mem) = Content(w.mem) /\ Rested(v, z.age, n, k) /\ Kept(z) \subseteq Kept(v)
  /\ Chained(z.mem, p, Q) /\ \A x \in Q : x \notin Kept(z)

CollapseDue(v, P, p, k, link, key, Q, w, n, i) ==
  /\ Unlinked(v, P, p, k, link, key, Q, w) /\ k \in Leaves /\ k = mem[link] /\ mem[Key(k)] = key /\ link # Root
  /\ n = link[2] /\ Siblings(n, Slice(key, mem[Shift(n)])) = {i}

LEMMA CollapseRuns ==
  ASSUME NEW v, NEW P, Good(v), v.mem = mem, NEW p, NEW k, NEW link, NEW key \in Keys, NEW Q, NEW w,
         NEW n, NEW i, CollapseDue(v, P, p, k, link, key, Q, w, n, i)
  PROVE  /\ n \in Nodes
         /\ \E z : /\ Moves(w, Store(LinkOf(n, key), mem[Child(n, i)]), z)
                   /\ Collapsed(v, P, p, n, k, Q, w, z)
<1>0. /\ Unlinked(v, P, p, k, link, key, Q, w) /\ k \in Leaves /\ k = mem[link] /\ mem[Key(k)] = key /\ link # Root
      /\ n = link[2] /\ Siblings(n, Slice(key, mem[Shift(n)])) = {i}
  BY DEF CollapseDue
<1>1. PICK N, K : N = v.nodes /\ K = v.leaves
  OBVIOUS
<1>2. /\ Good(w) /\ w.nodes = N /\ w.leaves = K \ {k} /\ Count(w) = Count(v) + 1
      /\ k \in K /\ link \in TreeLinks(N) /\ Rested(v, w.age, Null, k)
      /\ w.mem[link] = Null /\ Kept(w) \subseteq Kept(v)
      /\ \A q \in Places : (q[2] \in N \/ q = Root) /\ q # link => w.mem[q] = mem[q]
      /\ Chained(w.mem, p, Q) /\ \A x \in Q : x \notin Kept(w)
  BY <1>0, <1>1 DEF Unlinked, Live
<1>3. Tree(mem, N, K) /\ key \in Nat /\ N \subseteq Nodes /\ Count(v) \in Nat
  BY <1>1, GoodFacts, ShiftFacts
<1>4. PICK slice : slice = Slice(key, mem[Shift(n)])
  OBVIOUS
<1>5. n \in N /\ Matches(mem, key, n) /\ link = Child(n, slice) /\ slice \in Slices /\ n \in Nodes /\ k # Null
  <2>1. k # Null /\ PathOf(mem, k) = key
    BY <1>0, RefFacts DEF PathOf
  <2>2. link \in Route(mem, N, key)
    BY <1>0, <1>2, <1>3, <2>1, RouteToKey
  <2>3. PICK x \in N : Matches(mem, key, x) /\ link = Child(x, Slice(key, mem[Shift(x)]))
    BY <1>0, <2>2 DEF Route
  <2>4. Slice(key, mem[Shift(x)]) \in Slices /\ x \in Nodes
    <3>1. Memory(mem)
      BY <1>3 DEF Tree
    <3> QED
      BY <1>3, <3>1, NodeFacts
  <2>5. link[2] = x
    BY <2>3, <2>4, PlaceFacts
  <2> QED
    BY <1>0, <1>4, <2>1, <2>3, <2>4, <2>5
<1>6. PICK pl \in TreeLinks(N) : mem[pl] = n
  BY <1>3, <1>5 DEF Tree
<1>7. LinkOf(n, key) = pl
  <2>1. Search(mem, n, key)[Root] = pl
    BY <1>3, <1>5, <1>6, SearchEnds
  <2> QED
    BY <2>1, PointFacts
<1>8. pl # link /\ pl \in Places /\ (pl[2] \in N \/ pl = Root) /\ (pl[2] \in N \/ pl[2] = Null)
  <2>1. pl # link
    BY <1>0, <1>5, <1>6, RefFacts
  <2> QED
    BY <1>3, <1>6, <2>1, TreeLinkFacts, PlaceFacts DEF TreeLinks
<1>9. w.mem[pl] = n
  BY <1>2, <1>6, <1>8
<1>10. /\ i \in Slices /\ i # slice /\ mem[Child(n, i)] # Null
       /\ \A j \in Slices : j # i /\ j # slice => mem[Child(n, j)] = Null
  BY <1>0, <1>4 DEF Siblings, Slices
<1>11. \A j \in Slices : j # slice => w.mem[Child(n, j)] = mem[Child(n, j)]
  <2> TAKE j \in Slices
  <2> HAVE j # slice
  <2>1. Child(n, j) \in Places /\ Child(n, j)[2] = n /\ Child(n, j)[3] = j /\ Child(n, slice)[3] = slice
    BY <1>5, PlaceFacts
  <2> QED
    BY <1>2, <1>5, <2>1
<1>12. w.mem[Child(n, i)] # Null /\ \A j \in Slices : j # i => w.mem[Child(n, j)] = Null
  BY <1>0, <1>2, <1>5, <1>10, <1>11
<1>13. PICK s : s = Store(pl, w.mem[Child(n, i)])
  OBVIOUS
<1>14. PICK z : z = View(Put(w.mem, s), w.nodes \ {n}, w.leaves, Aged(w, n))
  OBVIOUS
<1>15. Moves(w, s, z) /\ Count(z) = Count(w) /\ Content(z.mem) = Content(w.mem)
  <2>1. Good(w) /\ Count(w) > 0 /\ pl \in TreeLinks(w.nodes) /\ n \in w.nodes
    BY <1>2, <1>3, <1>5, <1>6
  <2> QED
    <3>1. CollapseStep(w, pl, n, i, s, z)
      BY <1>9, <1>10, <1>12, <1>13, <1>14, <2>1 DEF CollapseStep
    <3> QED
      BY <3>1, MoveCollapse
<1>16. z.mem = Put(w.mem, s) /\ z.nodes = N \ {n} /\ z.leaves = w.leaves /\ z.age = Aged(w, n) /\ Good(z)
  BY <1>2, <1>14, <1>15 DEF View, Moves
<1>17. Rested(v, z.age, n, k)
  <2>1. /\ DOMAIN z.age = DOMAIN w.age \union {n} /\ z.age[n] = Count(w) - 1
        /\ \A x \in DOMAIN w.age : x # n => z.age[x] = w.age[x]
    BY <1>16 DEF Aged
  <2>2. Freed(Null) = {} /\ Freed(k) = {k} /\ Freed(n) = {n} /\ n # Null /\ n # k
    BY <1>0, <1>5, RefFacts DEF Freed
  <2>3. /\ DOMAIN w.age = DOMAIN Younger(v) \union {k} /\ w.age[k] = Count(v)
        /\ \A x \in DOMAIN Younger(v) : w.age[x] = v.age[x]
    BY <1>2, <2>2 DEF Rested
  <2>4. \A x \in DOMAIN Younger(v) : x # n
    BY <1>1, <1>5 DEF Younger, Good, Live
  <2>5. z.age[n] = Count(v)
    BY <1>2, <1>3, <2>1
  <2>6. DOMAIN z.age = DOMAIN Younger(v) \union Freed(n) \union Freed(k)
    BY <2>1, <2>2, <2>3
  <2>7. z.age[k] = Count(v)
    BY <2>1, <2>2, <2>3
  <2> QED
    BY <2>1, <2>3, <2>4, <2>5, <2>6, <2>7 DEF Rested
<1>18. Kept(z) \subseteq Kept(w)
  <2>1. DOMAIN z.age = DOMAIN w.age \union {n}
    BY <1>16 DEF Aged
  <2>2. z.nodes \subseteq w.nodes /\ z.leaves = w.leaves /\ n \in w.nodes
    BY <1>2, <1>5, <1>16
  <2> QED
    BY <2>1, <2>2 DEF Kept, Live
<1>19. Chained(z.mem, p, Q)
  <2>1. Q \subseteq Objects /\ p \in PoolType
    BY <1>2 DEF Chained
  <2>2. pl \in Places /\ \A q \in Places : q # pl => z.mem[q] = w.mem[q]
    <3>1. PICK m, m2 : m = w.mem /\ m2 = z.mem
      OBVIOUS
    <3> QED
      BY <1>8, <1>13, <1>16, <3>1, StoreFacts
  <2>3. ASSUME NEW x \in Q PROVE z.mem[PoolLink(x)] = w.mem[PoolLink(x)]
    <3>1. PoolLink(x) \in Places /\ PoolLink(x)[2] = x /\ x # Null /\ x \notin N
      BY <1>2, <2>1, PoolLinkFacts, RefFacts DEF Kept, Live
    <3>2. PoolLink(x) # pl
      BY <1>8, <3>1
    <3> QED
      BY <2>2, <3>1, <3>2
  <2>4. PICK m, m2 : m = w.mem /\ m2 = z.mem
    OBVIOUS
  <2> QED
    BY <1>2, <2>1, <2>3, <2>4, ChainedStays
<1>20. Collapsed(v, P, p, n, k, Q, w, z)
  BY <1>2, <1>15, <1>16, <1>17, <1>18, <1>19 DEF Collapsed
<1>21. s = Store(LinkOf(n, key), mem[Child(n, i)])
  BY <1>7, <1>10, <1>11, <1>13
<1> QED
  BY <1>5, <1>15, <1>20, <1>21

\* The alternatives of a remove, over the values it computes first.
RemoveTurns(t, key, del, expire, p, link, k, n, others) ==
  \/ mem[Root] = Null /\ Begin(t, "remove", key, Null, << >>, pool, Null)
  \/ /\ mem[Root] # Null /\ ~(k \in Leaves /\ mem[Key(k)] = key)
     /\ Begin(t, "remove", key, Null, expire, Rest(p, del, Null, Null), Null)
  \/ /\ k \in Leaves /\ mem[Key(k)] = key
     /\ Begin(t, "remove", key, Null, expire \o <<Store(link, Null)>> \o << >>, Rest(p, del, Null, k), mem[Value(k)])
  \/ /\ k \in Leaves /\ mem[Key(k)] = key /\ link # Root
     /\ \E i \in others :
          /\ others = {i}
          /\ Begin(t, "remove", key, Null,
                   expire \o <<Store(link, Null)>> \o <<Store(LinkOf(n, key), mem[Child(n, i)])>>,
                   Rest(p, del, n, k), mem[Value(k)])

\* A remove, in whichever of its turns, makes a run of stores that lands in a good view.
LEMMA RemoveLands ==
  ASSUME NEW v, NEW P, Good(v), v.mem = mem, PoolOk(v, pool, P), content = Content(mem),
         NEW t, NEW key \in Keys, CritnibRemove(t, key)
  PROVE  \E w : Runs(v, todo', w) /\ (\E Q : PoolOk(w, pool', Q)) /\ Exact(call', Content(w.mem))
<1>1. PICK c : c = mem[RemoveCount]
  OBVIOUS
<1>2. PICK del : del = c % DeletedLife
  OBVIOUS
<1>3. PICK expire : expire = <<Store(RemoveCount, c + 1)>> \o ExpireSteps(pool, del)
  OBVIOUS
<1>4. PICK p : p = Expire(pool, del)
  OBVIOUS
<1>5. PICK link : link = EndOfWalk(mem, key)
  OBVIOUS
<1>6. PICK k, n : k = mem[link] /\ n = link[2]
  OBVIOUS
<1>7. PICK found : found = (k \in Leaves /\ mem[Key(k)] = key)
  OBVIOUS
<1>8. PICK others : others = Siblings(n, Slice(key, mem[Shift(n)]))
  OBVIOUS
<1>9. \/ mem[Root] = Null /\ Begin(t, "remove", key, Null, << >>, pool, Null)
      \/ mem[Root] # Null /\ ~found /\ Begin(t, "remove", key, Null, expire, Rest(p, del, Null, Null), Null)
      \/ /\ found
         /\ Begin(t, "remove", key, Null, expire \o <<Store(link, Null)>> \o << >>, Rest(p, del, Null, k), mem[Value(k)])
      \/ /\ found /\ link # Root
         /\ \E i \in others :
              /\ others = {i}
              /\ Begin(t, "remove", key, Null,
                       expire \o <<Store(link, Null)>> \o <<Store(LinkOf(n, key), mem[Child(n, i)])>>,
                       Rest(p, del, n, k), mem[Value(k)])
  <2>1. RemoveTurns(t, key, mem[RemoveCount] % DeletedLife,
                    <<Store(RemoveCount, mem[RemoveCount] + 1)>> \o ExpireSteps(pool, mem[RemoveCount] % DeletedLife),
                    Expire(pool, mem[RemoveCount] % DeletedLife), EndOfWalk(mem, key), mem[EndOfWalk(mem, key)],
                    EndOfWalk(mem, key)[2],
                    Siblings(EndOfWalk(mem, key)[2], Slice(key, mem[Shift(EndOfWalk(mem, key)[2])])))
    BY DEF CritnibRemove, RemoveTurns
  <2>2. RemoveTurns(t, key, del, expire, p, link, k, n, others)
    BY <1>1, <1>2, <1>3, <1>4, <1>5, <1>6, <1>8, <2>1
  <2> QED
    BY <1>7, <2>2 DEF RemoveTurns
<1>10. c = Count(v) /\ key \in Nat /\ Memory(mem) /\ Tree(mem, v.nodes, v.leaves)
  BY <1>1, GoodFacts, ShiftFacts DEF Count
<1>11. content = [k2 \in Keys |-> content[k2]] /\ content[key] = Lookup(mem, key)
  BY <1>10, ContentFacts
<1>12. ASSUME NEW result PROVE
         LET r == [op |-> "remove", thread |-> t, key |-> key, value |-> Null, result |-> result, before |-> content]
         IN  result = content[key] => Exact(r, Gains(content, key, Null))
  BY Results DEF Exact, Gains
<1>13. content[key] = Null => Gains(content, key, Null) = content
  BY <1>11 DEF Gains
<1>14. ~found => content[key] = Null
  BY <1>5, <1>6, <1>7, <1>11 DEF Lookup
<1>15. p.pending = pool.pending /\ p.taken = pool.taken
  BY <1>1, <1>2, <1>4, ExpireRuns
<1>16. CASE mem[Root] = Null /\ Begin(t, "remove", key, Null, << >>, pool, Null)
  <2>1. todo' = << >> /\ pool' = pool
    BY <1>16 DEF Begin
  <2>2. content[key] = Null
    <3>1. link = Root
      <4>1. Root \in Links /\ mem[Root] \notin Nodes
        BY <1>16, PlaceFacts, RefFacts
      <4> QED
        BY <1>5, <1>10, <4>1, WalkFacts
    <3>2. ~found
      BY <1>6, <1>7, <1>16, <3>1, RefFacts
    <3> QED
      BY <1>14, <3>2
  <2>3. Exact(call', Content(v.mem))
    BY <1>12, <1>13, <1>16, <2>2 DEF Begin
  <2> QED
    BY <2>1, <2>3, RunsNone
<1>17. CASE mem[Root] # Null /\ ~found /\ Begin(t, "remove", key, Null, expire, Rest(p, del, Null, Null), Null)
  <2>1. PICK u, Q : Runs(v, expire, u) /\ Expired(v, P, p, u, Q)
    BY <1>1, <1>2, <1>3, <1>4, ExpireRuns
  <2>2. /\ Good(u) /\ u.nodes = v.nodes /\ u.leaves = v.leaves /\ u.age = Younger(v)
        /\ Content(u.mem) = Content(v.mem)
        /\ Chained(u.mem, p, Q) /\ Q \subseteq Kept(v) \union P /\ \A x \in Q : x \notin Kept(u)
    BY <2>1 DEF Expired
  <2>3. Rested(v, u.age, Null, Null)
    BY <2>2 DEF Rested, Younger, Freed
  <2>4. Kept(u) \subseteq Kept(v)
    BY <2>2 DEF Kept, Live, Younger
  <2>5. PoolOk(u, Rest(p, del, Null, Null), Q)
    BY <1>2, <1>10, <1>15, <2>2, <2>3, <2>4, RestLands
  <2>6. todo' = expire /\ pool' = Rest(p, del, Null, Null)
    BY <1>17 DEF Begin
  <2>7. Exact(call', Content(u.mem))
    BY <1>12, <1>13, <1>14, <1>17, <2>2 DEF Begin
  <2> QED
    BY <2>1, <2>5, <2>6, <2>7
<1>18. found => /\ k \in Leaves /\ mem[Key(k)] = key
                /\ \E Q, w : Runs(v, expire \o <<Store(link, Null)>>, w) /\ Unlinked(v, P, p, k, link, key, Q, w)
  <2> SUFFICES ASSUME found PROVE \E Q, w : /\ Runs(v, expire \o <<Store(link, Null)>>, w)
                                            /\ Unlinked(v, P, p, k, link, key, Q, w)
    BY <1>7
  <2>1. k \in Leaves /\ mem[Key(k)] = key
    BY <1>7
  <2> QED
    BY <1>1, <1>2, <1>3, <1>4, <1>5, <1>6, <2>1, UnlinkRuns
<1>19. CASE /\ found
            /\ Begin(t, "remove", key, Null, expire \o <<Store(link, Null)>> \o << >>, Rest(p, del, Null, k), mem[Value(k)])
  <2>1. PICK Q, w : Runs(v, expire \o <<Store(link, Null)>>, w) /\ Unlinked(v, P, p, k, link, key, Q, w)
    BY <1>18, <1>19
  <2>2. /\ Good(w) /\ Rested(v, w.age, Null, k) /\ Kept(w) \subseteq Kept(v)
        /\ Content(v.mem)[key] = v.mem[Value(k)] /\ Content(w.mem) = Gains(Content(v.mem), key, Null)
        /\ Chained(w.mem, p, Q) /\ Q \subseteq Kept(v) \union P /\ \A x \in Q : x \notin Kept(w)
    BY <2>1 DEF Unlinked
  <2>3. Runs(v, expire \o <<Store(link, Null)>> \o << >>, w)
    BY <2>1, <2>2, RunsNone, RunsOn
  <2>4. PoolOk(w, Rest(p, del, Null, k), Q)
    BY <1>2, <1>10, <1>15, <1>18, <1>19, <2>2, RestLands
  <2>5. todo' = expire \o <<Store(link, Null)>> \o << >> /\ pool' = Rest(p, del, Null, k)
    BY <1>19 DEF Begin
  <2>6. Exact(call', Content(w.mem))
    BY <1>12, <1>19, <2>2 DEF Begin
  <2> QED
    BY <2>3, <2>4, <2>5, <2>6
<1>20. ASSUME found, link # Root, NEW i \in others, others = {i},
              Begin(t, "remove", key, Null,
                    expire \o <<Store(link, Null)>> \o <<Store(LinkOf(n, key), mem[Child(n, i)])>>,
                    Rest(p, del, n, k), mem[Value(k)])
       PROVE  \E w : Runs(v, todo', w) /\ (\E Q : PoolOk(w, pool', Q)) /\ Exact(call', Content(w.mem))
  <2>1. PICK Q, w : Runs(v, expire \o <<Store(link, Null)>>, w) /\ Unlinked(v, P, p, k, link, key, Q, w)
    BY <1>18, <1>20
  <2>2. /\ Content(v.mem)[key] = v.mem[Value(k)] /\ Content(w.mem) = Gains(Content(v.mem), key, Null)
        /\ Q \subseteq Kept(v) \union P
    BY <2>1 DEF Unlinked
  <2>3. PICK s : s = Store(LinkOf(n, key), mem[Child(n, i)])
    OBVIOUS
  <2>4. n \in Nodes /\ \E z : Moves(w, s, z) /\ Collapsed(v, P, p, n, k, Q, w, z)
    <3>1. CollapseDue(v, P, p, k, link, key, Q, w, n, i)
      BY <1>6, <1>8, <1>18, <1>20, <2>1 DEF CollapseDue
    <3> QED
      BY <2>3, <3>1, CollapseRuns
  <2>5. PICK z : Moves(w, s, z) /\ Collapsed(v, P, p, n, k, Q, w, z)
    BY <2>4
  <2>6. /\ Content(z.mem) = Content(w.mem) /\ Rested(v, z.age, n, k) /\ Kept(z) \subseteq Kept(v)
        /\ Chained(z.mem, p, Q) /\ \A x \in Q : x \notin Kept(z)
    BY <2>5 DEF Collapsed
  <2>7. Runs(v, expire \o <<Store(link, Null)>> \o <<s>>, z)
    BY <2>1, <2>5, RunsOne, RunsOn
  <2>8. PoolOk(z, Rest(p, del, n, k), Q)
    BY <1>2, <1>10, <1>15, <1>18, <1>20, <2>2, <2>4, <2>6, RestLands
  <2>9. todo' = expire \o <<Store(link, Null)>> \o <<s>> /\ pool' = Rest(p, del, n, k)
    BY <1>20, <2>3 DEF Begin
  <2>10. Exact(call', Content(z.mem))
    BY <1>12, <1>20, <2>2, <2>6 DEF Begin
  <2> QED
    BY <2>7, <2>8, <2>9, <2>10
<1> QED
  BY <1>9, <1>16, <1>17, <1>19, <1>20

-----------------------------------------------------------------------------
(* The invariant                                                           *)

\* v is the memory now and w the memory the call in progress leaves.
Holds(v, w) ==
  /\ v.mem = mem /\ Runs(v, todo, w)
  /\ \E P : PoolOk(w, pool, P)
  /\ call = NoCall => todo = << >>
  /\ call # NoCall => Exact(call, Content(w.mem))
  /\ \A t \in Readers : GetOk(get[t], v)

Inv ==
  /\ content = Content(mem) /\ get = [t \in Readers |-> get[t]]
  /\ \E v, w : Holds(v, w)

LEMMA InitTree ==
  ASSUME CritnibInit
  PROVE  Tree(mem, {}, {}) /\ mem[RemoveCount] = 0
<1>1. Null \in Refs /\ 0 \in Nat /\ 0 \in Shifts /\ 0 \in KeyRange
  <2>1. Digits \in Nat /\ Digits >= 1 /\ Power[Digits] \in Nat \ {0}
    BY FanoutFacts, PowerFacts
  <2> QED
    BY <2>1 DEF Refs, Shifts, KeyRange
<1>2. mem = [p \in Places |-> mem[p]] /\ \A p \in Places : mem[p] = IF p \in Links \/ p[1] = "value" THEN Null ELSE 0
  BY DEF CritnibInit
<1>3. /\ RemoveCount[1] # "value" /\ \A n \in Nodes : Shift(n)[1] # "value" /\ Path(n)[1] # "value"
      /\ \A k \in Leaves : Key(k)[1] # "value" /\ Value(k)[1] = "value"
  BY DEF RemoveCount, Shift, Path, Key, Value
<1>4. Memory(mem) /\ mem[RemoveCount] = 0
  <2>1. \A p \in Links : mem[p] = Null
    BY <1>2, PlaceFacts
  <2>2. mem[RemoveCount] = 0
    BY <1>2, <1>3, PlaceFacts
  <2>3. \A n \in Nodes : mem[Shift(n)] = 0 /\ mem[Path(n)] = 0
    BY <1>2, <1>3, PlaceFacts
  <2>4. \A k \in Leaves : mem[Key(k)] = 0 /\ mem[Value(k)] = Null
    BY <1>2, <1>3, PlaceFacts
  <2> QED
    BY <1>1, <1>2, <2>1, <2>2, <2>3, <2>4 DEF Memory
<1>5. TreeLinks({}) = {Root} /\ mem[Root] = Null
  BY <1>2, PlaceFacts DEF TreeLinks
<1> QED
  BY <1>4, <1>5 DEF Tree

LEMMA InitPool ==
  ASSUME CritnibInit
  PROVE  pool \in PoolType /\ \A kind \in Kinds :
           /\ pool.deleted[kind] = Null /\ pool.taken[kind] = 0
           /\ \A i \in Slots : pool.pending[kind][i] = Null
<1>0. PICK empty : empty = [i \in Slots |-> Null]
  OBVIOUS
<1>1. empty \in [Slots -> Refs] /\ \A i \in Slots : empty[i] = Null
  <2>1. Null \in Refs
    BY DEF Refs
  <2> QED
    BY <1>0, <2>1
<1>2. PICK deleted, pending, taken : /\ deleted = [node |-> Null, leaf |-> Null]
                                     /\ pending = [node |-> empty, leaf |-> empty]
                                     /\ taken = [node |-> 0, leaf |-> 0]
  OBVIOUS
<1>3. pool = [deleted |-> deleted, pending |-> pending, taken |-> taken]
  BY <1>0, <1>2 DEF CritnibInit, Slots
<1>4. deleted \in [Kinds -> Refs] /\ \A kind \in Kinds : deleted[kind] = Null
  BY <1>2 DEF Kinds, Refs
<1>5. pending \in [Kinds -> [Slots -> Refs]] /\ \A kind \in Kinds : pending[kind] = empty
  BY <1>1, <1>2 DEF Kinds
<1>6. taken \in [Kinds -> Nat] /\ \A kind \in Kinds : taken[kind] = 0
  BY <1>2 DEF Kinds
<1> QED
  BY <1>1, <1>3, <1>4, <1>5, <1>6 DEF PoolType

LEMMA CritnibInitInv ==
  ASSUME CritnibInit
  PROVE  Inv
<1>1. PICK age : age = [x \in {} |-> 0] /\ DOMAIN age = {}
  OBVIOUS
<1>2. PICK v : v = View(mem, {}, {}, age)
  OBVIOUS
<1>3. v.mem = mem /\ v.nodes = {} /\ v.leaves = {} /\ v.age = age
  BY <1>2 DEF View
<1>4. Good(v)
  BY <1>1, <1>3, InitTree DEF Good
<1>5. Live(v) = {} /\ Kept(v) = {}
  BY <1>1, <1>3 DEF Live, Kept
<1>6. PoolOk(v, pool, {})
  <2>1. Chained(v.mem, pool, {})
    BY InitPool DEF Chained
  <2>2. Resting(pool, v.age)
    BY <1>1, <1>3, InitPool DEF Resting
  <2>3. Counted(pool, {})
    <3>1. \A kind \in Kinds : 0 <= Supply[kind]
      BY CritnibAssumption DEF Supply, Kinds
    <3> QED
      BY <3>1, InitPool DEF Counted
  <2> QED
    BY <1>5, <2>1, <2>2, <2>3 DEF PoolOk
<1>7. Runs(v, << >>, v)
  BY <1>4, RunsNone
<1>8. Holds(v, v)
  BY <1>3, <1>6, <1>7, GetIdle DEF Holds, CritnibInit
<1> QED
  BY <1>8 DEF Inv, CritnibInit

LEMMA BeginKeeps ==
  ASSUME NEW t, NEW key \in Keys,
         \/ \E value \in Values[key], given \in SUBSET {"node", "leaf"} : CritnibInsert(t, key, value, given)
         \/ CritnibRemove(t, key)
  PROVE  call = NoCall /\ UNCHANGED <<mem, get, content>> /\ call' # NoCall
<1>1. call = NoCall
  BY DEF CritnibInsert, CritnibRemove
<1>2. \E op \in {"insert", "remove"} : call'.op = op /\ UNCHANGED <<mem, get, content>>
  <2>1. ASSUME NEW op \in {"insert", "remove"}, NEW value, NEW steps, NEW p, NEW result,
               Begin(t, op, key, value, steps, p, result)
        PROVE  call'.op = op /\ UNCHANGED <<mem, get, content>>
    BY <2>1 DEF Begin
  <2>2. ASSUME NEW value, NEW given, CritnibInsert(t, key, value, given)
        PROVE  \E steps, p, result : Begin(t, "insert", key, value, steps, p, result)
    BY <2>2 DEF CritnibInsert
  <2>3. ASSUME CritnibRemove(t, key)
        PROVE  \E steps, p, result : Begin(t, "remove", key, Null, steps, p, result)
    BY <2>3 DEF CritnibRemove
  <2>4. CASE \E value \in Values[key], given \in SUBSET {"node", "leaf"} : CritnibInsert(t, key, value, given)
    BY <2>1, <2>2, <2>4
  <2>5. CASE CritnibRemove(t, key)
    BY <2>1, <2>3, <2>5
  <2> QED
    BY <2>4, <2>5
<1> QED
  BY <1>1, <1>2 DEF NoCall

\* A call that has the mutex has computed its stores.
LEMMA BeginInv ==
  ASSUME Inv, NEW t, NEW key \in Keys,
         \/ \E value \in Values[key], given \in SUBSET {"node", "leaf"} : CritnibInsert(t, key, value, given)
         \/ CritnibRemove(t, key)
  PROVE  Inv'
<1>1. PICK v, x : Holds(v, x)
  BY DEF Inv
<1>2. call = NoCall /\ UNCHANGED <<mem, get, content>> /\ call' # NoCall
  BY BeginKeeps
<1>3. v.mem = mem /\ todo = << >> /\ Runs(v, << >>, x)
  BY <1>1, <1>2 DEF Holds
<1>4. Good(v) /\ x = v
  BY <1>3, RunsNoneOnly DEF Runs
<1>5. PICK P : PoolOk(v, pool, P)
  BY <1>1, <1>4 DEF Holds
<1>6. \E w : Runs(v, todo', w) /\ (\E Q : PoolOk(w, pool', Q)) /\ Exact(call', Content(w.mem))
  <2>1. content = Content(mem)
    BY DEF Inv
  <2>2. CASE \E value \in Values[key], given \in SUBSET {"node", "leaf"} : CritnibInsert(t, key, value, given)
    <3>1. PICK value \in Values[key], given \in SUBSET {"node", "leaf"} : CritnibInsert(t, key, value, given)
      BY <2>2
    <3> QED
      BY <1>3, <1>4, <1>5, <2>1, <3>1, InsertLands
  <2>3. CASE CritnibRemove(t, key)
    BY <1>3, <1>4, <1>5, <2>1, <2>3, RemoveLands
  <2> QED
    BY <2>2, <2>3
<1>7. PICK w : Runs(v, todo', w) /\ (\E Q : PoolOk(w, pool', Q)) /\ Exact(call', Content(w.mem))
  BY <1>6
<1>8. \A r \in Readers : GetOk(get'[r], v)
  BY <1>1, <1>2 DEF Holds
<1>9. Holds(v, w)'
  BY <1>2, <1>3, <1>7, <1>8 DEF Holds
<1> QED
  BY <1>2, <1>9 DEF Inv

\* The writer's next store moves it on, and every get keeps what it relies on.
LEMMA WriterStepInv ==
  ASSUME Inv, WriterStep
  PROVE  /\ Inv' /\ Changes(content, content')
<1>1. PICK v, w : Holds(v, w)
  BY DEF Inv
<1>2. PICK u : Moves(v, Head(todo), u) /\ Runs(u, Tail(todo), w)
  BY <1>1, RunsHead DEF Holds, WriterStep
<1>3. u.mem = mem' /\ v.mem = mem
  BY <1>1, <1>2 DEF Moves, Put, WriterStep, Holds
<1>4. content' = Content(u.mem) /\ content = Content(v.mem) /\ content' = Content(mem)'
  BY <1>3 DEF WriterStep, Inv
<1>5. ASSUME NEW t \in Readers PROVE GetOk(get'[t], u)
  <2>1. GetOk(get[t], v)
    BY <1>1 DEF Holds
  <2>2. CASE get[t].pc = "idle"
    <3>1. get'[t] = get[t]
      BY <2>2 DEF WriterStep
    <3> QED
      BY <2>1, <2>2, <3>1 DEF GetOk, Walking
  <2>3. CASE get[t].pc # "idle"
    <3>1. PICK h : h = [get[t] EXCEPT !.possible = @ \union {Content(u.mem)[get[t].key]}]
      OBVIOUS
    <3>2. get'[t] = h
      BY <1>4, <2>3, <3>1 DEF WriterStep
    <3>3. GetOk(h, u)
      BY <1>2, <2>1, <2>3, <3>1, GetKeeps
    <3> QED
      BY <3>2, <3>3
  <2> QED
    BY <2>2, <2>3
<1>6. get' = [t \in Readers |-> get'[t]]
  BY DEF WriterStep
<1>7. Holds(u, w)'
  <2>1. call # NoCall /\ UNCHANGED <<pool, call>> /\ todo' = Tail(todo)
    BY <1>1 DEF Holds, WriterStep
  <2>2. Exact(call', Content(w.mem)) /\ \E P : PoolOk(w, pool', P)
    BY <1>1, <2>1 DEF Holds
  <2> QED
    BY <1>2, <1>3, <1>5, <2>1, <2>2 DEF Holds
<1>8. Changes(content, content')
  BY <1>2, <1>4 DEF Moves
<1> QED
  BY <1>4, <1>6, <1>7, <1>8 DEF Inv

LEMMA UnlockInv ==
  ASSUME Inv, NEW t, Unlock(t)
  PROVE  Inv'
<1>1. PICK v, w : Holds(v, w)
  BY DEF Inv
<1>2. Holds(v, w)'
  BY <1>1 DEF Holds, Unlock
<1> QED
  BY <1>2 DEF Inv, Unlock

\* A step of a get, seen by the view of the memory.
GetMoves(t, v, h) == GetOk(h, v) /\ get' = [get EXCEPT ![t] = h] /\ UNCHANGED <<mem, pool, todo, call, content, inserts>>

LEMMA GetStepFacts ==
  ASSUME Inv, NEW v, NEW w, Holds(v, w), NEW t \in Readers
  PROVE  /\ Good(v) /\ v.mem = mem /\ Count(v) = mem[RemoveCount] /\ GetOk(get[t], v)
         /\ content = Content(v.mem)
  BY DEF Inv, Holds, Runs, Count

LEMMA GetMovesInv ==
  ASSUME Inv, NEW v, NEW w, Holds(v, w), NEW t \in Readers, NEW h, GetMoves(t, v, h)
  PROVE  Inv'
<1>1. get = [r \in Readers |-> get[r]]
  BY DEF Inv
<1>2. get' = [get EXCEPT ![t] = h] /\ GetOk(h, v)
  BY DEF GetMoves
<1>3. get' = [r \in Readers |-> get'[r]] /\ \A r \in Readers : get'[r] = IF r = t THEN h ELSE get[r]
  BY <1>1, <1>2
<1>4. \A r \in Readers : GetOk(get'[r], v)
  BY <1>2, <1>3 DEF Holds
<1>5. Holds(v, w)'
  BY <1>4 DEF Holds, GetMoves
<1> QED
  BY <1>3, <1>5 DEF Inv, GetMoves

LEMMA GetBeginInv ==
  ASSUME Inv, NEW t \in Readers, NEW key \in Keys, GetBegin(t, key)
  PROVE  Inv'
<1>1. PICK v, w : Holds(v, w)
  BY DEF Inv
<1>2. PICK h : h = [[NoGet EXCEPT !.key = key, !.possible = {Content(v.mem)[key]}] EXCEPT !.pc = "count"]
  OBVIOUS
<1>3. GetOk(h, v)
  BY <1>1, <1>2, GetStepFacts, GetStarts
<1>4. get' = [get EXCEPT ![t] = h]
  BY <1>1, <1>2, GetStepFacts DEF GetBegin, GetGoto
<1> QED
  BY <1>1, <1>3, <1>4, GetMovesInv DEF GetMoves, GetBegin, GetGoto

LEMMA LoadCountInv ==
  ASSUME Inv, NEW t \in Readers, LoadCount(t)
  PROVE  Inv'
<1>1. PICK v, w : Holds(v, w)
  BY DEF Inv
<1>2. PICK g, h : g = get[t] /\ h = [[g EXCEPT !.removes = Count(v)] EXCEPT !.pc = "root"]
  OBVIOUS
<1>3. GetOk(h, v)
  BY <1>1, <1>2, GetStepFacts, GetCounts DEF LoadCount
<1>4. get' = [get EXCEPT ![t] = h]
  BY <1>1, <1>2, GetStepFacts DEF LoadCount, GetGoto
<1> QED
  BY <1>1, <1>3, <1>4, GetMovesInv DEF GetMoves, LoadCount, GetGoto

LEMMA LoadRootInv ==
  ASSUME Inv, NEW t \in Readers, LoadRoot(t)
  PROVE  Inv'
<1>1. PICK v, w : Holds(v, w)
  BY DEF Inv
<1>2. PICK g, h : g = get[t] /\ h = [[g EXCEPT !.at = v.mem[Root]] EXCEPT !.pc = "walk"]
  OBVIOUS
<1>3. GetOk(h, v)
  BY <1>1, <1>2, GetStepFacts, GetRoot DEF LoadRoot
<1>4. get' = [get EXCEPT ![t] = h]
  BY <1>1, <1>2, GetStepFacts DEF LoadRoot, GetGoto
<1> QED
  BY <1>1, <1>3, <1>4, GetMovesInv DEF GetMoves, LoadRoot, GetGoto

LEMMA LoadChildInv ==
  ASSUME Inv, NEW t \in Readers, LoadChild(t)
  PROVE  Inv'
<1>1. PICK v, w : Holds(v, w)
  BY DEF Inv
<1>2. PICK g, h : /\ g = get[t]
                  /\ h = [[g EXCEPT !.at = v.mem[Child(@, Slice(g.key, v.mem[Shift(@)]))]] EXCEPT !.pc = "walk"]
  OBVIOUS
<1>3. GetOk(h, v)
  BY <1>1, <1>2, GetStepFacts, GetChild DEF LoadChild
<1>4. get' = [get EXCEPT ![t] = h]
  BY <1>1, <1>2, GetStepFacts DEF LoadChild, GetGoto
<1> QED
  BY <1>1, <1>3, <1>4, GetMovesInv DEF GetMoves, LoadChild, GetGoto

LEMMA LoadKeyInv ==
  ASSUME Inv, NEW t \in Readers, LoadKey(t)
  PROVE  Inv'
<1>1. PICK v, w : Holds(v, w)
  BY DEF Inv
<1>2. PICK g : g = get[t]
  OBVIOUS
<1>3. /\ Good(v) /\ GetOk(g, v) /\ g.pc = "walk" /\ g.at \notin Nodes
      /\ Hits(g) <=> g.at # Null /\ v.mem[Key(g.at)] = g.key
  BY <1>1, <1>2, GetStepFacts DEF LoadKey, Hits
<1>4. CASE Hits(g)
  <2>1. PICK h : h = [g EXCEPT !.pc = "value"]
    OBVIOUS
  <2>2. GetOk(h, v)
    BY <1>3, <1>4, <2>1, GetHits
  <2>3. get' = [get EXCEPT ![t] = h]
    BY <1>2, <1>4, <2>1 DEF LoadKey, GetGoto
  <2> QED
    BY <1>1, <2>2, <2>3, GetMovesInv DEF GetMoves, LoadKey, GetGoto
<1>5. CASE ~Hits(g)
  <2>1. PICK h : h = [[g EXCEPT !.at = Null, !.result = Null] EXCEPT !.pc = "recheck"]
    OBVIOUS
  <2>2. GetOk(h, v)
    BY <1>3, <1>5, <2>1, GetMisses
  <2>3. get' = [get EXCEPT ![t] = h]
    BY <1>2, <1>5, <2>1 DEF LoadKey, GetGoto
  <2> QED
    BY <1>1, <2>2, <2>3, GetMovesInv DEF GetMoves, LoadKey, GetGoto
<1> QED
  BY <1>4, <1>5

LEMMA LoadValueInv ==
  ASSUME Inv, NEW t \in Readers, LoadValue(t)
  PROVE  Inv'
<1>1. PICK v, w : Holds(v, w)
  BY DEF Inv
<1>2. PICK g, h : g = get[t] /\ h = [[g EXCEPT !.at = Null, !.result = v.mem[Value(g.at)]] EXCEPT !.pc = "recheck"]
  OBVIOUS
<1>3. GetOk(h, v)
  BY <1>1, <1>2, GetStepFacts, GetValue DEF LoadValue
<1>4. get' = [get EXCEPT ![t] = h]
  BY <1>1, <1>2, GetStepFacts DEF LoadValue, GetGoto
<1> QED
  BY <1>1, <1>3, <1>4, GetMovesInv DEF GetMoves, LoadValue, GetGoto

\* A get that is not stale answers with a value that was current during it.
LEMMA RecheckInv ==
  ASSUME Inv, NEW t \in Readers, Recheck(t)
  PROVE  /\ Inv'
         /\ get'[t].pc = "done" => get'[t].result \in get[t].possible
<1>1. PICK v, w : Holds(v, w)
  BY DEF Inv
<1>2. PICK g : g = get[t]
  OBVIOUS
<1>3. Good(v) /\ GetOk(g, v) /\ g.pc = "recheck" /\ mem[RemoveCount] = Count(v) /\ get = [r \in Readers |-> get[r]]
  BY <1>1, <1>2, GetStepFacts DEF Recheck, Inv
<1>4. CASE IsStale(g.removes, Count(v))
  <2>1. PICK h : h = [[g EXCEPT !.removes = 0, !.result = Null] EXCEPT !.pc = "count"]
    OBVIOUS
  <2>2. GetOk(h, v)
    BY <1>3, <2>1, GetAgain
  <2>3. get' = [get EXCEPT ![t] = h]
    BY <1>2, <1>3, <1>4, <2>1 DEF Recheck, GetGoto
  <2>4. get'[t].pc = "count"
    <3>1. h.pc = "count"
      <4>1. g \in GetType
        BY <1>3 DEF GetOk
      <4> QED
        BY <2>1, <4>1 DEF GetType
    <3> QED
      BY <1>3, <2>3, <3>1
  <2> QED
    BY <1>1, <2>2, <2>3, <2>4, GetMovesInv DEF GetMoves, Recheck, GetGoto
<1>5. CASE ~IsStale(g.removes, Count(v))
  <2>1. PICK h : h = [[g EXCEPT !.removes = 0] EXCEPT !.pc = "done"]
    OBVIOUS
  <2>2. GetOk(h, v) /\ h.result \in g.possible
    BY <1>3, <1>5, <2>1, GetDone
  <2>3. get' = [get EXCEPT ![t] = h]
    BY <1>2, <1>3, <1>5, <2>1 DEF Recheck, GetGoto
  <2>4. get'[t] = h
    BY <1>3, <2>3
  <2> QED
    BY <1>1, <1>2, <2>2, <2>3, <2>4, GetMovesInv DEF GetMoves, Recheck, GetGoto
<1> QED
  BY <1>4, <1>5

LEMMA GetReturnsInv ==
  ASSUME Inv, NEW t \in Readers, GetReturns(t)
  PROVE  Inv'
<1>1. PICK v, w : Holds(v, w)
  BY DEF Inv
<1>2. [NoGet EXCEPT !.pc = "idle"] = NoGet
  BY DEF NoGet
<1>3. get' = [get EXCEPT ![t] = NoGet]
  BY <1>2 DEF GetReturns, GetGoto
<1>4. GetMoves(t, v, NoGet)
  BY <1>3, GetIdle DEF GetMoves, GetReturns, GetGoto
<1> QED
  BY <1>1, <1>4, GetMovesInv

LEMMA CritnibNextInv ==
  ASSUME Inv, [CritnibNext]_critnibVars
  PROVE  Inv'
<1>1. ASSUME NEW t \in Writers, NEW key \in Keys,
             \/ \E value \in Values[key], given \in SUBSET {"node", "leaf"} : CritnibInsert(t, key, value, given)
             \/ CritnibRemove(t, key)
      PROVE  Inv'
  BY <1>1, BeginInv
<1>2. CASE WriterStep
  BY <1>2, WriterStepInv
<1>3. ASSUME NEW t \in Writers, Unlock(t) PROVE Inv'
  BY <1>3, UnlockInv
<1>4. ASSUME NEW t \in Readers, NEW key \in LookedUp, GetBegin(t, key) PROVE Inv'
  BY <1>4, GetBeginInv, CritnibAssumption
<1>5. ASSUME NEW t \in Readers, GetStep(t) \/ GetReturns(t) PROVE Inv'
  BY <1>5, LoadCountInv, LoadRootInv, LoadChildInv, LoadKeyInv, LoadValueInv, RecheckInv, GetReturnsInv DEF GetStep
<1>6. CASE UNCHANGED critnibVars
  <2>1. PICK v, w : Holds(v, w)
    BY DEF Inv
  <2>2. Holds(v, w)'
    BY <1>6, <2>1 DEF Holds, critnibVars
  <2> QED
    BY <1>6, <2>2 DEF Inv, critnibVars
<1> QED
  BY <1>1, <1>2, <1>3, <1>4, <1>5, <1>6 DEF CritnibNext

-----------------------------------------------------------------------------
(* The safety invariants                                                   *)

LEMMA InvTypeOK ==
  ASSUME Inv
  PROVE  CritnibTypeOK
<1>1. PICK v, w : Holds(v, w)
  BY DEF Inv
<1>2. PICK P : PoolOk(w, pool, P)
  BY <1>1 DEF Holds
<1>3. Memory(mem)
  BY <1>1, GoodFacts DEF Holds, Runs
<1>4. /\ \A p \in Links : mem[p] \in Refs
      /\ mem[RemoveCount] \in Nat
      /\ \A n \in Nodes : mem[Shift(n)] \in 0 .. Digits - 1 /\ mem[Path(n)] \in Nat
      /\ \A k \in Leaves : mem[Value(k)] \in (UNION {Values[key] : key \in Keys}) \union Leaves \union {Null}
  <2>1. \A n \in Nodes : mem[Shift(n)] \in Shifts /\ mem[Path(n)] \in Nat
    BY <1>3, NodeFacts
  <2>2. \A n \in Nodes : mem[Shift(n)] \in 0 .. Digits - 1
    BY <2>1 DEF Shifts
  <2>3. \A k \in Leaves : mem[Value(k)] \in (UNION {Values[key] : key \in Keys}) \union Leaves \union {Null}
    <3>1. \A k \in Leaves : mem[Value(k)] \in AllValues \union Leaves \union {Null}
      BY <1>3 DEF Memory
    <3> QED
      BY <3>1 DEF AllValues
  <2>4. (\A p \in Links : mem[p] \in Refs) /\ mem[RemoveCount] \in Nat
    BY <1>3 DEF Memory
  <2> QED
    BY <2>1, <2>2, <2>3, <2>4
<1>5. ASSUME NEW i \in 0 .. DeletedLife - 1
      PROVE  pool.pending.node[i] \in Nodes \union {Null} /\ pool.pending.leaf[i] \in Leaves \union {Null}
  <2>1. "node" \in Kinds /\ "leaf" \in Kinds /\ i \in Slots
    BY DEF Kinds, Slots
  <2>2. Resting(pool, w.age)
    BY <1>2 DEF PoolOk
  <2>3. pool \in PoolType
    BY <1>2 DEF PoolOk, Chained
  <2>4. \A kind \in Kinds : pool.pending[kind][i] \in Refs
    BY <2>1, <2>3 DEF PoolType
  <2>5. \A kind \in Kinds : pool.pending[kind][i] # Null => pool.pending[kind][i][1] = kind
    BY <2>1, <2>2 DEF Resting
  <2>6. \A kind \in Kinds : pool.pending[kind][i] # Null =>
          /\ pool.pending[kind][i] \in Objects /\ (kind = "node" => pool.pending[kind][i] \in Nodes)
          /\ (kind = "leaf" => pool.pending[kind][i] \in Leaves)
    BY <2>4, <2>5, RefFacts, ObjectFacts
  <2> QED
    BY <2>1, <2>6
<1>6. \A t \in Readers : get[t].at \in Refs
  BY <1>1 DEF Holds, GetOk, GetType
<1> QED
  BY <1>4, <1>5, <1>6 DEF CritnibTypeOK

LEMMA InvExact ==
  ASSUME Inv
  PROVE  OperationsAreExact
<1> SUFFICES ASSUME todo = << >>, call # NoCall PROVE Exact(call, content)
  BY DEF OperationsAreExact
<1>1. PICK v, w : Holds(v, w)
  BY DEF Inv
<1>2. w = v
  BY <1>1, RunsNoneOnly DEF Holds
<1> QED
  BY <1>1, <1>2 DEF Holds, Inv

\* The writer's stores lead from one good tree to another, what rests keeps its words
\* long enough, and every get finds a value that was current.
THEOREM CritnibInvariant == CritnibFairSpec => []Inv
<1>1. CritnibInit => Inv
  BY CritnibInitInv
<1>2. Inv /\ [CritnibNext]_critnibVars => Inv'
  BY CritnibNextInv
<1> QED
  BY <1>1, <1>2, PTL DEF CritnibFairSpec

\* The words, the pools and the gets keep their types.
THEOREM CritnibTypes == CritnibFairSpec => []CritnibTypeOK
<1>1. Inv => CritnibTypeOK
  BY InvTypeOK
<1> QED
  BY <1>1, CritnibInvariant, PTL

\* What an insertion or a removal reports is what it did to the content.
THEOREM CritnibOperationsAreExact == CritnibFairSpec => []OperationsAreExact
<1>1. Inv => OperationsAreExact
  BY InvExact
<1> QED
  BY <1>1, CritnibInvariant, PTL

-----------------------------------------------------------------------------
(* The critnib implements its specification                                *)

Shown(g) ==
  IF g.pc = "idle" THEN [key |-> {}, possible |-> {}, answer |-> {}]
  ELSE [key |-> {g.key}, possible |-> g.possible, answer |-> IF g.pc = "done" THEN {g.result} ELSE {}]
Gets == [t \in Readers |-> Shown(get[t])]

LEMMA ShowWrite ==
  ASSUME NEW key, NEW value, content' = [content EXCEPT ![key] = value],
         Gets' = [t \in Readers |-> IF key \in Gets[t].key THEN [Gets[t] EXCEPT !.possible = @ \union {value}] ELSE Gets[t]]
  PROVE  Abstract!Write(key, value)
  BY DEF Abstract!Write, Gets, Shown

LEMMA ShowBegin ==
  ASSUME NEW t, NEW key, content' = content, Gets[t] = [key |-> {}, possible |-> {}, answer |-> {}],
         Gets' = [Gets EXCEPT ![t] = [key |-> {key}, possible |-> {content[key]}, answer |-> {}]]
  PROVE  Abstract!GetBegin(t, key)
  BY DEF Abstract!GetBegin, Abstract!Idle, Gets, Shown

LEMMA ShowAnswer ==
  ASSUME NEW t, NEW value, content' = content, Gets[t].answer = {}, value \in Gets[t].possible,
         Gets' = [Gets EXCEPT ![t].answer = {value}]
  PROVE  Abstract!GetAnswers(t, value)
  BY DEF Abstract!GetAnswers, Gets, Shown

LEMMA ShowEnd ==
  ASSUME NEW t, content' = content, Gets[t].answer # {},
         Gets' = [Gets EXCEPT ![t] = [key |-> {}, possible |-> {}, answer |-> {}]]
  PROVE  Abstract!GetEnds(t)
  BY DEF Abstract!GetEnds, Abstract!Idle, Gets, Shown

ShowsStep == [Abstract!Next]_<<content, Gets>>

LEMMA ShowStutter ==
  ASSUME content' = content, \A t \in Readers : Shown(get'[t]) = Shown(get[t])
  PROVE  UNCHANGED <<content, Gets>>
  BY DEF Gets

LEMMA ShownFacts ==
  ASSUME Inv, NEW t \in Readers
  PROVE  /\ get[t] \in GetType
         /\ get[t].pc # "idle" => get[t].key \in Keys /\ content[get[t].key] \in get[t].possible
         /\ get[t].pc = "done" => get[t].result \in get[t].possible
<1>1. PICK v, w : Holds(v, w)
  BY DEF Inv
<1>2. GetOk(get[t], v) /\ content = Content(v.mem)
  BY <1>1, GetStepFacts
<1> QED
  BY <1>2 DEF GetOk

\* A store of the writer shows as an insertion, a removal or nothing.
LEMMA ShowWriterWrite ==
  ASSUME Inv, WriterStep, NEW key \in Keys, NEW value, content' = [content EXCEPT ![key] = value]
  PROVE  Abstract!Write(key, value)
<1>1. PICK v, w : Holds(v, w)
  BY DEF Inv
<1>2. content = [k \in Keys |-> content[k]]
  BY DEF Inv, Content
<1>3. ASSUME NEW t \in Readers
      PROVE  Shown(get'[t]) = IF key \in Shown(get[t]).key THEN [Shown(get[t]) EXCEPT !.possible = @ \union {value}]
                              ELSE Shown(get[t])
  <2>1. PICK g : g = get[t]
    OBVIOUS
  <2>2. CASE g.pc = "idle"
    <3>1. get'[t] = g
      BY <2>1, <2>2 DEF WriterStep
    <3> QED
      BY <2>1, <2>2, <3>1 DEF Shown
  <2>3. CASE g.pc # "idle"
    <3>1. g \in GetType /\ g.key \in Keys /\ content[g.key] \in g.possible
      BY <2>1, <2>3, ShownFacts
    <3>2. PICK h : h = [g EXCEPT !.possible = @ \union {content'[g.key]}]
      OBVIOUS
    <3>3. get'[t] = h
      BY <2>1, <2>3, <3>2 DEF WriterStep
    <3>4. h.pc = g.pc /\ h.key = g.key /\ h.result = g.result /\ h.possible = g.possible \union {content'[g.key]}
      BY <3>1, <3>2 DEF GetType
    <3>5. h.possible = IF key = g.key THEN g.possible \union {value} ELSE g.possible
      BY <1>2, <3>1, <3>4
    <3>6. key \in Shown(g).key <=> key = g.key
      BY <2>3 DEF Shown
    <3>7. CASE key = g.key
      BY <2>1, <2>3, <3>3, <3>4, <3>5, <3>6, <3>7 DEF Shown
    <3>8. CASE key # g.key
      BY <2>1, <2>3, <3>3, <3>4, <3>5, <3>6, <3>8 DEF Shown
    <3> QED
      BY <3>7, <3>8
  <2> QED
    BY <2>2, <2>3
<1>4. Gets' = [t \in Readers |-> IF key \in Gets[t].key THEN [Gets[t] EXCEPT !.possible = @ \union {value}] ELSE Gets[t]]
  BY <1>3 DEF Gets
<1> QED
  BY <1>4, ShowWrite

LEMMA ShowWriterStep ==
  ASSUME Inv, WriterStep
  PROVE  ShowsStep
<1>1. Changes(content, content')
  BY WriterStepInv
<1>2. CASE content' = content
  <2>1. ASSUME NEW t \in Readers PROVE Shown(get'[t]) = Shown(get[t])
    <3>1. PICK g : g = get[t]
      OBVIOUS
    <3>2. CASE g.pc = "idle"
      BY <3>1, <3>2 DEF WriterStep
    <3>3. CASE g.pc # "idle"
      <4>1. g \in GetType /\ content[g.key] \in g.possible
        BY <3>1, <3>3, ShownFacts
      <4>2. get'[t] = [g EXCEPT !.possible = @ \union {content'[g.key]}]
        BY <3>1, <3>3 DEF WriterStep
      <4>3. g.possible \union {content'[g.key]} = g.possible
        BY <1>2, <4>1
      <4>4. get'[t] = g
        BY <4>1, <4>2, <4>3 DEF GetType
      <4> QED
        BY <3>1, <4>4
    <3> QED
      BY <3>2, <3>3
  <2> QED
    BY <1>2, <2>1, ShowStutter DEF ShowsStep
<1>3. ASSUME NEW key \in Keys, content[key] = Null, NEW value \in AllValues, content' = [content EXCEPT ![key] = value]
      PROVE  ShowsStep
  <2>1. Abstract!Write(key, value)
    BY <1>3, ShowWriterWrite
  <2>2. Abstract!Insert(key, value)
    BY <1>3, <2>1 DEF Abstract!Insert
  <2> QED
    BY <2>2 DEF ShowsStep, Abstract!Next, AllValues
<1>4. ASSUME NEW key \in Keys, content[key] # Null, content' = [content EXCEPT ![key] = Null]
      PROVE  ShowsStep
  <2>1. Abstract!Write(key, Null)
    BY <1>4, ShowWriterWrite
  <2>2. Abstract!Remove(key)
    BY <1>4, <2>1 DEF Abstract!Remove
  <2> QED
    BY <2>2 DEF ShowsStep, Abstract!Next
<1> QED
  BY <1>1, <1>2, <1>3, <1>4 DEF Changes

\* What a step of one get shows.
LEMMA GotoFacts ==
  ASSUME Inv, NEW t \in Readers, NEW g, NEW label, GetGoto(t, g, label)
  PROVE  /\ content' = content /\ get'[t] = [g EXCEPT !.pc = label]
         /\ \A r \in Readers : r # t => get'[r] = get[r]
         /\ \A r \in Readers : r # t => Gets'[r] = Gets[r]
         /\ Gets' = [Gets EXCEPT ![t] = Shown(get'[t])]
<1>1. get = [r \in Readers |-> get[r]]
  BY DEF Inv
<1>2. content' = content /\ get' = [get EXCEPT ![t] = [g EXCEPT !.pc = label]]
  BY DEF GetGoto
<1>3. get'[t] = [g EXCEPT !.pc = label] /\ \A r \in Readers : r # t => get'[r] = get[r]
  BY <1>1, <1>2
<1>4. Gets = [r \in Readers |-> Shown(get[r])] /\ Gets' = [r \in Readers |-> Shown(get'[r])]
  BY DEF Gets
<1>5. \A r \in Readers : r # t => Gets'[r] = Gets[r]
  BY <1>3, <1>4
<1>6. Gets' = [Gets EXCEPT ![t] = Shown(get'[t])]
  BY <1>3, <1>4, <1>5
<1> QED
  BY <1>2, <1>3, <1>5, <1>6

LEMMA ShowGetBegin ==
  ASSUME Inv, NEW t \in Readers, NEW key \in Keys, GetBegin(t, key)
  PROVE  ShowsStep
<1>1. PICK g : g = [NoGet EXCEPT !.key = key, !.possible = {content[key]}]
  OBVIOUS
<1>2. GetGoto(t, g, "count") /\ get[t].pc = "idle"
  BY <1>1 DEF GetBegin
<1>3. g.pc = "idle" /\ [g EXCEPT !.pc = "count"].pc = "count" /\ [g EXCEPT !.pc = "count"].key = key
      /\ [g EXCEPT !.pc = "count"].possible = {content[key]}
  BY <1>1 DEF NoGet
<1>4. Shown(get'[t]) = [key |-> {key}, possible |-> {content[key]}, answer |-> {}]
  <2>1. PICK h : h = [g EXCEPT !.pc = "count"]
    OBVIOUS
  <2>2. get'[t] = h
    BY <1>2, <2>1, GotoFacts
  <2>3. h.pc = "count" /\ h.key = key /\ h.possible = {content[key]}
    BY <1>3, <2>1
  <2> QED
    BY <2>2, <2>3 DEF Shown
<1>5. Gets[t] = [key |-> {}, possible |-> {}, answer |-> {}]
  BY <1>2 DEF Gets, Shown
<1>6. content' = content /\ Gets' = [Gets EXCEPT ![t] = [key |-> {key}, possible |-> {content[key]}, answer |-> {}]]
  BY <1>2, <1>4, GotoFacts
<1>7. Abstract!GetBegin(t, key)
  BY <1>5, <1>6, ShowBegin
<1> QED
  BY <1>7 DEF ShowsStep, Abstract!Next

\* The loads of a get show nothing.
LEMMA ShowLoad ==
  ASSUME Inv, NEW t \in Readers, NEW g, NEW label, GetGoto(t, g, label), get[t].pc \notin {"idle", "done"},
         NEW h, h = [g EXCEPT !.pc = label],
         h.pc \notin {"idle", "done"}, h.key = get[t].key, h.possible = get[t].possible
  PROVE  ShowsStep
<1>1. get'[t] = h /\ content' = content /\ \A r \in Readers : r # t => get'[r] = get[r]
  BY GotoFacts
<1>2. Shown(h) = Shown(get[t])
  BY DEF Shown
<1> QED
  BY <1>1, <1>2, ShowStutter DEF ShowsStep

LEMMA ShowGetStep ==
  ASSUME Inv, NEW t \in Readers, GetStep(t), ~Recheck(t)
  PROVE  ShowsStep
<1>1. PICK g : g = get[t] /\ g \in GetType
  BY ShownFacts
<1>2. CASE LoadCount(t)
  <2>1. PICK x, h : x = [g EXCEPT !.removes = mem[RemoveCount]] /\ h = [x EXCEPT !.pc = "root"]
    OBVIOUS
  <2>2. h.pc = "root" /\ h.key = g.key /\ h.possible = g.possible
    BY <1>1, <2>1 DEF GetType
  <2>3. GetGoto(t, x, "root") /\ g.pc = "count"
    BY <1>1, <1>2, <2>1 DEF LoadCount
  <2> QED
    BY <1>1, <2>1, <2>2, <2>3, ShowLoad
<1>3. CASE LoadRoot(t)
  <2>1. PICK x, h : x = [g EXCEPT !.at = mem[Root]] /\ h = [x EXCEPT !.pc = "walk"]
    OBVIOUS
  <2>2. h.pc = "walk" /\ h.key = g.key /\ h.possible = g.possible
    BY <1>1, <2>1 DEF GetType
  <2>3. GetGoto(t, x, "walk") /\ g.pc = "root"
    BY <1>1, <1>3, <2>1 DEF LoadRoot
  <2> QED
    BY <1>1, <2>1, <2>2, <2>3, ShowLoad
<1>4. CASE LoadChild(t)
  <2>1. PICK x, h : /\ x = [g EXCEPT !.at = mem[Child(@, Slice(g.key, mem[Shift(@)]))]]
                    /\ h = [x EXCEPT !.pc = "walk"]
    OBVIOUS
  <2>2. h.pc = "walk" /\ h.key = g.key /\ h.possible = g.possible
    BY <1>1, <2>1 DEF GetType
  <2>3. GetGoto(t, x, "walk") /\ g.pc = "walk"
    BY <1>1, <1>4, <2>1 DEF LoadChild
  <2>4. h = [x EXCEPT !.pc = "walk"]
    BY <2>1
  <2>5. get[t].pc \notin {"idle", "done"} /\ h.pc \notin {"idle", "done"}
        /\ h.key = get[t].key /\ h.possible = get[t].possible
    BY <1>1, <2>2, <2>3
  <2> QED
    <3> HIDE <2>1
    <3> QED
      BY <2>3, <2>4, <2>5, ShowLoad
<1>5. CASE LoadKey(t)
  <2>1. PICK x, h : x = [g EXCEPT !.at = Null, !.result = Null] /\ h = [x EXCEPT !.pc = "recheck"]
    OBVIOUS
  <2>2. h.pc = "recheck" /\ h.key = g.key /\ h.possible = g.possible
    BY <1>1, <2>1 DEF GetType
  <2>3. PICK j : j = [g EXCEPT !.pc = "value"]
    OBVIOUS
  <2>4. j.pc = "value" /\ j.key = g.key /\ j.possible = g.possible
    BY <1>1, <2>3 DEF GetType
  <2>5. (GetGoto(t, x, "recheck") \/ GetGoto(t, g, "value")) /\ g.pc = "walk"
    BY <1>1, <1>5, <2>1 DEF LoadKey
  <2>6. CASE GetGoto(t, x, "recheck")
    BY <1>1, <2>1, <2>2, <2>5, <2>6, ShowLoad
  <2>7. CASE GetGoto(t, g, "value")
    BY <1>1, <2>3, <2>4, <2>5, <2>7, ShowLoad
  <2> QED
    BY <2>5, <2>6, <2>7
<1>6. CASE LoadValue(t)
  <2>1. PICK x, h : x = [g EXCEPT !.at = Null, !.result = mem[Value(g.at)]] /\ h = [x EXCEPT !.pc = "recheck"]
    OBVIOUS
  <2>2. h.pc = "recheck" /\ h.key = g.key /\ h.possible = g.possible
    BY <1>1, <2>1 DEF GetType
  <2>3. GetGoto(t, x, "recheck") /\ g.pc = "value"
    BY <1>1, <1>6, <2>1 DEF LoadValue
  <2> QED
    BY <1>1, <2>1, <2>2, <2>3, ShowLoad
<1> QED
  BY <1>2, <1>3, <1>4, <1>5, <1>6 DEF GetStep

\* The last check of a get shows its answer, or nothing.
LEMMA ShowRecheck ==
  ASSUME Inv, NEW t \in Readers, Recheck(t)
  PROVE  ShowsStep
<1>1. PICK g : g = get[t] /\ g \in GetType /\ g.pc = "recheck"
  BY ShownFacts DEF Recheck
<1>2. CASE IsStale(g.removes, mem[RemoveCount])
  <2>1. PICK x, h : x = [g EXCEPT !.removes = 0, !.result = Null] /\ h = [x EXCEPT !.pc = "count"]
    OBVIOUS
  <2>2. h.pc = "count" /\ h.key = g.key /\ h.possible = g.possible
    BY <1>1, <2>1 DEF GetType
  <2>3. GetGoto(t, x, "count")
    BY <1>1, <1>2, <2>1 DEF Recheck
  <2> QED
    BY <1>1, <2>1, <2>2, <2>3, ShowLoad
<1>3. CASE ~IsStale(g.removes, mem[RemoveCount])
  <2>1. PICK x, h : x = [g EXCEPT !.removes = 0] /\ h = [x EXCEPT !.pc = "done"]
    OBVIOUS
  <2>2. h.pc = "done" /\ h.key = g.key /\ h.possible = g.possible /\ h.result = g.result
    BY <1>1, <2>1 DEF GetType
  <2>3. GetGoto(t, x, "done")
    BY <1>1, <1>3, <2>1 DEF Recheck
  <2>4. get'[t] = h /\ content' = content /\ Gets' = [Gets EXCEPT ![t] = Shown(h)]
    <3>1. /\ content' = content /\ get'[t] = [x EXCEPT !.pc = "done"]
          /\ Gets' = [Gets EXCEPT ![t] = Shown(get'[t])]
      BY <2>3, GotoFacts
    <3> QED
      BY <2>1, <3>1
  <2>5. g.result \in g.possible /\ g.result \in AllValues \union {Null}
    <3>1. h.result \in g.possible
      BY <1>1, <2>2, <2>4, RecheckInv
    <3> QED
      BY <1>1, <2>2, <3>1 DEF GetType
  <2>6. /\ Gets[t] = [key |-> {g.key}, possible |-> g.possible, answer |-> {}]
        /\ Shown(h) = [key |-> {g.key}, possible |-> g.possible, answer |-> {g.result}]
    BY <1>1, <2>2 DEF Gets, Shown
  <2>7. Gets' = [Gets EXCEPT ![t].answer = {g.result}]
    <3>1. PICK a, b : a = Gets[t] /\ b = Shown(h)
      OBVIOUS
    <3>2. [a EXCEPT !.answer = {g.result}] = b
      BY <2>6, <3>1
    <3> QED
      BY <2>4, <3>1, <3>2
  <2>8. Abstract!GetAnswers(t, g.result)
    <3>1. Gets[t].answer = {} /\ g.result \in Gets[t].possible
      BY <2>5, <2>6
    <3>2. PICK value : value = g.result
      OBVIOUS
    <3> QED
      BY <2>4, <2>7, <3>1, <3>2, ShowAnswer
  <2> QED
    BY <2>5, <2>8 DEF ShowsStep, Abstract!Next, AllValues
<1> QED
  BY <1>2, <1>3

LEMMA ShowGetReturns ==
  ASSUME Inv, NEW t \in Readers, GetReturns(t)
  PROVE  ShowsStep
<1>1. GetGoto(t, NoGet, "idle") /\ get[t].pc = "done"
  BY DEF GetReturns
<1>2. Shown([NoGet EXCEPT !.pc = "idle"]) = [key |-> {}, possible |-> {}, answer |-> {}]
  BY DEF NoGet, Shown
<1>3. content' = content /\ Gets' = [Gets EXCEPT ![t] = [key |-> {}, possible |-> {}, answer |-> {}]]
  BY <1>1, <1>2, GotoFacts
<1>4. Gets[t].answer # {}
  BY <1>1 DEF Gets, Shown
<1>5. Abstract!GetEnds(t)
  BY <1>3, <1>4, ShowEnd
<1> QED
  BY <1>5 DEF ShowsStep, Abstract!Next

LEMMA ShowNext ==
  ASSUME Inv, [CritnibNext]_critnibVars
  PROVE  ShowsStep
<1>1. ASSUME UNCHANGED <<content, get>> PROVE ShowsStep
  BY <1>1, ShowStutter DEF ShowsStep
<1>2. ASSUME NEW t \in Writers, NEW key \in Keys,
             \/ \E value \in Values[key], given \in SUBSET {"node", "leaf"} : CritnibInsert(t, key, value, given)
             \/ CritnibRemove(t, key)
      PROVE  ShowsStep
  BY <1>1, <1>2, BeginKeeps
<1>3. CASE WriterStep
  BY <1>3, ShowWriterStep
<1>4. ASSUME NEW t \in Writers, Unlock(t) PROVE ShowsStep
  BY <1>1, <1>4 DEF Unlock
<1>5. ASSUME NEW t \in Readers, NEW key \in LookedUp, GetBegin(t, key) PROVE ShowsStep
  BY <1>5, ShowGetBegin, CritnibAssumption
<1>6. ASSUME NEW t \in Readers, GetStep(t) \/ GetReturns(t) PROVE ShowsStep
  BY <1>6, ShowGetStep, ShowRecheck, ShowGetReturns
<1>7. CASE UNCHANGED critnibVars
  BY <1>1, <1>7 DEF critnibVars
<1> QED
  BY <1>2, <1>3, <1>4, <1>5, <1>6, <1>7 DEF CritnibNext

LEMMA ShowInit == CritnibInit => Abstract!Init
<1> SUFFICES ASSUME CritnibInit PROVE Abstract!Init
  OBVIOUS
<1>1. Tree(mem, {}, {})
  BY InitTree
<1>2. content = Content(mem) /\ \A t \in Readers : get[t].pc = "idle"
  BY DEF CritnibInit, NoGet
<1>3. \A key \in Keys : Content(mem)[key] = Null
  BY <1>1, ContentFacts, LookupFacts
<1>4. content = [key \in Keys |-> Null]
  BY <1>2, <1>3 DEF Content
<1>5. Gets = [t \in Readers |-> [key |-> {}, possible |-> {}, answer |-> {}]]
  BY <1>2 DEF Gets, Shown
<1> QED
  BY <1>4, <1>5 DEF Abstract!Init, Abstract!Idle, Gets, Shown

\* Insertions and removals take effect at one store each, and a get, which takes no
\* lock, answers with a value that was current while it ran.
THEOREM CritnibImplementsSpec == CritnibFairSpec => ImplementsCritnibSpec
<1>1. Inv /\ [CritnibNext]_critnibVars => ShowsStep
  BY ShowNext
<1> QED
  BY ShowInit, <1>1, CritnibInvariant, PTL DEF CritnibFairSpec, ImplementsCritnibSpec, Abstract!Spec, ShowsStep, Gets, Shown

=============================================================================

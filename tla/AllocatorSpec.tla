--------------------------- MODULE AllocatorSpec ---------------------------
(***************************************************************************)
(* What the region allocator of a stream promises, crashes included: a     *)
(* region is fresh, free or allocated, allocated regions are listed in the *)
(* order of their allocation, and every operation happens at once.         *)
(***************************************************************************)
EXTENDS Naturals, Sequences, SequencesExt

CONSTANT Regions
VARIABLES allocated, free

Known == Range(allocated) \union free

Init == allocated = << >> /\ free = {}

\* A fresh part of the stream becomes a free region.
Extend == \E r \in Regions \ Known : free' = free \union {r} /\ UNCHANGED allocated

\* A free region or, when there is none, a fresh one is allocated.
Allocate ==
  /\ \E r \in IF free = {} THEN Regions \ Known ELSE free :
       allocated' = Append(allocated, r) /\ free' = free \ {r}

Free == \E i \in DOMAIN allocated :
  allocated' = RemoveAt(allocated, i) /\ free' = free \union {allocated[i]}

Next == Extend \/ Allocate \/ Free

Spec == Init /\ [][Next]_<<allocated, free>>
=============================================================================

------------------------------ MODULE LogSpec ------------------------------
(***************************************************************************)
(* What the regions of a stream promise to a reader, power failures        *)
(* included: what is visible in a region is what was appended to it, up to *)
(* the committed timestamp; a power failure takes away the entries above   *)
(* the persisted timestamp and no other, and adds none.                    *)
(***************************************************************************)
EXTENDS Naturals, Sequences, FiniteSets, SequencesExt

CONSTANT Regions
VARIABLES visible, committed, persisted

vars == <<visible, committed, persisted>>

\* The entries up to timestamp n: the timestamps of a region grow.
Upto(entries, n) ==
  SubSeq(entries, 1, Cardinality({k \in DOMAIN entries : entries[k].timestamp <= n}))

Init == visible = [r \in Regions |-> << >>] /\ committed = 0 /\ persisted = 0

\* The next entry in the order of timestamps appears at the end of its region.
Commit ==
  /\ committed' = committed + 1
  /\ \E r \in Regions :
       /\ \A q \in Regions \ {r} : visible'[q] = visible[q]
       /\ Len(visible'[r]) = Len(visible[r]) + 1
       /\ Front(visible'[r]) = visible[r]
       /\ Last(visible'[r]).timestamp = committed'
  /\ UNCHANGED persisted

Record == persisted < persisted' /\ persisted' <= committed /\ UNCHANGED <<visible, committed>>

Release ==
  /\ \E r \in Regions : visible' = [visible EXCEPT ![r] = << >>]
  /\ UNCHANGED <<committed, persisted>>

PowerFailure ==
  /\ visible' = [r \in Regions |-> Upto(visible[r], persisted)]
  /\ committed' = persisted
  /\ UNCHANGED persisted

Next == Commit \/ Record \/ Release \/ PowerFailure

Spec == Init /\ [][Next]_vars
=============================================================================

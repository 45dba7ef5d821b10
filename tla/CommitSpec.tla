----------------------------- MODULE CommitSpec -----------------------------
(***************************************************************************)
(* What the timestamps of a stream promise, without saying how: entries    *)
(* get consecutive timestamps, become durable in any order, are committed  *)
(* in timestamp order, only when every earlier entry is durable, and the   *)
(* persisted timestamp (the one recovery trusts) never runs ahead of the   *)
(* committed one.  CommitPipeline implements it.                           *)
(***************************************************************************)
EXTENDS Naturals

CONSTANT InitialTimestamp   \* persisted timestamp found when the stream was opened

VARIABLES
  issued,      \* highest timestamp given to an entry
  durable,     \* timestamps (above InitialTimestamp) whose entry reached the medium
  committed,   \* every entry up to it is visible to iterators
  persisted    \* every entry up to it survives a restart

vars == <<issued, durable, committed, persisted>>

Init ==
  /\ issued = InitialTimestamp
  /\ durable = {}
  /\ committed = InitialTimestamp
  /\ persisted = InitialTimestamp

Issue ==
  /\ issued' = issued + 1
  /\ UNCHANGED <<durable, committed, persisted>>

MakeDurable(n) ==
  /\ n \notin durable
  /\ durable' = durable \union {n}
  /\ UNCHANGED <<issued, committed, persisted>>

Commit(n) ==
  /\ committed + 1 .. n \subseteq durable
  /\ committed' = n
  /\ UNCHANGED <<issued, durable, persisted>>

Persist(n) ==
  /\ persisted < n
  /\ persisted' = n
  /\ UNCHANGED <<issued, durable, committed>>

Next ==
  \/ Issue
  \/ \E n \in committed + 1 .. issued : MakeDurable(n) \/ Commit(n)
  \/ \E n \in 1 .. committed : Persist(n)

Spec == Init /\ [][Next]_vars

=============================================================================

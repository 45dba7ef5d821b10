----------------------------- MODULE CritnibSpec -----------------------------
(***************************************************************************)
(* What a critnib promises (the comment that opens src/src/critnib/        *)
(* critnib.c): it is a map, an insertion or a removal takes effect at one  *)
(* instant, and a get, which takes no lock, answers with a value that was  *)
(* current at some instant between its start and its end.                  *)
(***************************************************************************)
CONSTANTS Threads, Keys, Values, Null

VARIABLES
  map,   \* the value of each key, Null where there is none
  gets   \* the get each thread runs: its key, the values that were current
         \* since it started, and its answer once it has one

Idle == [key |-> {}, possible |-> {}, answer |-> {}]

Init ==
  /\ map = [k \in Keys |-> Null]
  /\ gets = [t \in Threads |-> Idle]

Write(k, v) ==
  /\ map' = [map EXCEPT ![k] = v]
  /\ gets' = [t \in Threads |->
                IF k \in gets[t].key THEN [gets[t] EXCEPT !.possible = @ \union {v}]
                                     ELSE gets[t]]

Insert(k, v) == map[k] = Null /\ Write(k, v)
Remove(k) == map[k] # Null /\ Write(k, Null)

GetBegin(t, k) ==
  /\ gets[t] = Idle
  /\ gets' = [gets EXCEPT ![t] = [key |-> {k}, possible |-> {map[k]}, answer |-> {}]]
  /\ UNCHANGED map

GetAnswers(t, v) ==
  /\ gets[t].answer = {}
  /\ v \in gets[t].possible
  /\ gets' = [gets EXCEPT ![t].answer = {v}]
  /\ UNCHANGED map

GetEnds(t) ==
  /\ gets[t].answer # {}
  /\ gets' = [gets EXCEPT ![t] = Idle]
  /\ UNCHANGED map

Next ==
  \/ \E k \in Keys, v \in Values : Insert(k, v)
  \/ \E k \in Keys : Remove(k)
  \/ \E t \in Threads, k \in Keys : GetBegin(t, k)
  \/ \E t \in Threads, v \in Values \union {Null} : GetAnswers(t, v)
  \/ \E t \in Threads : GetEnds(t)

Spec == Init /\ [][Next]_<<map, gets>>
=============================================================================

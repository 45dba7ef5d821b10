----------------------------- MODULE MCCritnib -----------------------------
\* Critnib for TLC: a value tells for which key it was stored.
EXTENDS Critnib
MCValues == [key \in Keys |-> {<<"value", key>>}]
=============================================================================

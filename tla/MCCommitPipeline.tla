-------------------------- MODULE MCCommitPipeline --------------------------
(* Small instances of CommitPipeline for TLC.                              *)
EXTENDS CommitPipeline, TLC

ClientSymmetry == Permutations(Clients)
=============================================================================

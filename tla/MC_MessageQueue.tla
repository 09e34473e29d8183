---------------------------- MODULE MC_MessageQueue ----------------------------
(* Instances of MessageQueue for TLC. *)
EXTENDS MessageQueue, TLC

Interchangeable == Permutations(Producers)
================================================================================

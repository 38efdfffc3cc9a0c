---------------------------- MODULE MCHostWorker ----------------------------
(* Finite instances of HostWorker for TLC.                                 *)
EXTENDS HostWorker, TLC

RequestSymmetry == Permutations(Requests)
=============================================================================

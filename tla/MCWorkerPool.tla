----------------------------- MODULE MCWorkerPool -----------------------------
(* Instances of WorkerPool for TLC.                                            *)
EXTENDS WorkerPool, TLC

Symmetry == Permutations(Workers)
===============================================================================

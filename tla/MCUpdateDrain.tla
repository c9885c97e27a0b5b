----------------------------- MODULE MCUpdateDrain -----------------------------
(* Instances of UpdateDrain for TLC.                                           *)
EXTENDS UpdateDrain, TLC

Symmetry == Permutations(Workers) \cup Permutations(Updaters)

(* Leaves the pause switch alone.                                              *)
Unpaused == ~paused
===============================================================================

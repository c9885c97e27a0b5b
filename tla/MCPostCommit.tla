----------------------------- MODULE MCPostCommit -----------------------------
(* The instance of PostCommit for TLC.                                         *)
EXTENDS PostCommit
===============================================================================

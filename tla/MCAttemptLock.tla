----------------------------- MODULE MCAttemptLock -----------------------------
(* The instance of AttemptLock for TLC.                                        *)
EXTENDS AttemptLock
===============================================================================

----------------------------- MODULE JobLifecycle -----------------------------
(* What the job queue promises to its clients (the API, the CI poller, panels, *)
(* sync), with neither the workers' steps nor the lookups behind them.         *)
CONSTANTS Jobs, Workers, NoWorker

VARIABLES
  phase,    \* where the job stands; "stopping" is canceled but not let go of
  review,   \* whether the job has a review
  holder    \* the worker whose attempt at the job is registered

vars == <<phase, review, holder>>

Finished == {"done", "failed", "canceled"}

Init ==
  /\ phase = [j \in Jobs |-> "absent"]
  /\ review = [j \in Jobs |-> FALSE]
  /\ holder = [j \in Jobs |-> NoWorker]

Free(j) == holder[j] = NoWorker

Move(j, from, to) == phase[j] \in from /\ phase' = [phase EXCEPT ![j] = to]

Enqueue(j) == Move(j, {"absent"}, "queued") /\ UNCHANGED <<review, holder>>
Claim(j)   == Move(j, {"queued"}, "running") /\ UNCHANGED <<review, holder>>

(* A claim waits until the previous attempt has let go.                        *)
Hold(j, w) ==
  /\ Free(j) /\ phase[j] \in {"running", "stopping"}
  /\ holder' = [holder EXCEPT ![j] = w]
  /\ UNCHANGED <<phase, review>>

LetGo(j) ==
  /\ ~Free(j)
  /\ holder' = [holder EXCEPT ![j] = NoWorker]
  /\ UNCHANGED <<phase, review>>

(* The review is stored together with the done status, by a held attempt.      *)
Complete(j) ==
  /\ ~Free(j)
  /\ Move(j, {"running"}, "done")
  /\ review' = [review EXCEPT ![j] = TRUE]
  /\ UNCHANGED holder

GiveUp(j) ==
  /\ Move(j, {"running"}, "failed") \/ Move(j, {"running"}, "queued")
  /\ UNCHANGED <<review, holder>>

CancelJob(j) ==
  /\ Move(j, {"queued"}, "canceled") \/ Move(j, {"running"}, "stopping")
  /\ UNCHANGED <<review, holder>>

Stopped(j) == Move(j, {"stopping"}, "canceled") /\ UNCHANGED <<review, holder>>

Rerun(j) ==
  /\ Free(j)
  /\ Move(j, Finished, "queued")
  /\ review' = [review EXCEPT ![j] = FALSE]
  /\ UNCHANGED holder

(* Another machine's newer attempt replaces this one, review and all.          *)
Replace(j) ==
  /\ phase[j] # "absent"
  /\ \E to \in Finished \cup (IF Free(j) THEN {} ELSE {"stopping"}) :
       phase' = [phase EXCEPT ![j] = to]
  /\ review' = [review EXCEPT ![j] = FALSE]
  /\ UNCHANGED holder

(* A new daemon: nothing is held, and nothing stays half-way.                  *)
Recover ==
  /\ phase' = [j \in Jobs |-> CASE phase[j] = "running"  -> "queued"
                                [] phase[j] = "stopping" -> "canceled"
                                [] OTHER                 -> phase[j]]
  /\ holder' = [j \in Jobs |-> NoWorker]
  /\ UNCHANGED review

Next ==
  \/ \E j \in Jobs :
       \/ Enqueue(j) \/ Claim(j) \/ (\E w \in Workers : Hold(j, w)) \/ LetGo(j)
       \/ Complete(j) \/ GiveUp(j) \/ CancelJob(j) \/ Stopped(j)
       \/ Rerun(j) \/ Replace(j)
  \/ Recover

Spec == Init /\ [][Next]_vars
===============================================================================

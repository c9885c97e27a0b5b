------------------------------ MODULE WorkerPool ------------------------------
(* The daemon's review workers (internal/daemon/worker.go) over the job table  *)
(* and the attempt registry (internal/storage/job_attempts.go), with the three *)
(* parties that touch a running job from outside: the cancel endpoint, the     *)
(* orphan sweep and the sync pull.  Each action is one critical section, one    *)
(* transaction or one lock-free step of the code; in between, anything else    *)
(* may run.                                                                    *)
EXTENDS ReviewJobs

CONSTANTS
  NoJob,
  Cancelers,      \* requests to the cancel endpoint that may be in flight
  Requests,       \* request ids of reruns
  NoRequestJob,   \* a request id no rerun has used
  StoreErrors,    \* whether a worker's write of an outcome, or its or a cancel's
                  \* read of the row, may fail
  MaxClock,       \* bound: timestamps handed out
  MaxRestarts,    \* bound: daemon crashes
  MaxPulls        \* bound: newer attempts pulled from another machine

ASSUME PoolAssumption ==
  /\ NoJob \notin Jobs
  /\ NoRequestJob \notin Jobs
  /\ StoreErrors \in BOOLEAN
  /\ MaxClock \in Nat /\ MaxRestarts \in Nat /\ MaxPulls \in Nat

VARIABLES
  \* persistent: the database
  job,        \* review_jobs joined with reviews
  clock,      \* last timestamp handed out
  paused,     \* queue_paused of daemon_state
  draining,   \* shutdown_draining of daemon_state
  requests,   \* rerun requests recorded, with the job they requeued
  \* in memory
  active,     \* attempts.active: the worker whose attempt is registered
  running,    \* runningJobs: the registered cancel function and event owner
  pending,    \* pendingCancels, with the event owner
  targets,    \* updateInterruptTargets
  unsaved,    \* failedUpdateRequeues
  wk,         \* the workers
  cn,         \* cancel requests in flight
  sw,         \* the orphan sweep
  \* bounds
  restarts, pulls

db     == <<job, clock, paused, draining, requests>>
memory == <<active, running, pending, targets, unsaved>>
vars   == <<db, memory, wk, cn, sw, restarts, pulls>>

(* What a worker is about to do.  "check" acquires the transition locks and    *)
(* validates the attempt, "act" is the transition itself, still under them.    *)
WorkerPC == {"idle", "claiming", "claimed", "started", "run", "check", "act",
             "finish", "release", "free", "leave"}
Outcome  == {"none", "ok", "canceled", "error", "agentError", "fatal"}
Worker   == [pc : WorkerPC, job : Jobs \cup {NoJob}, started : Nat, enq : Nat,
             canceled : BOOLEAN, outcome : Outcome]
Idle     == [pc |-> "idle", job |-> NoJob, started |-> 0, enq |-> 0,
             canceled |-> FALSE, outcome |-> "none"]

Owners   == {"none", "worker", "caller"}   \* who announces a cancellation
Handler  == [worker : Workers \cup {NoWorker}, caller : BOOLEAN]
NoHandler == [worker |-> NoWorker, caller |-> FALSE]

(* A cancel request names the attempt whose row it canceled by the row's       *)
(* enqueue time.  "failed" is one that was answered because it could not read  *)
(* the row; it is kept as long as the row is that attempt.                     *)
CancelPC == {"reg1", "read1", "again", "reg2", "read2", "final", "failed"}
NoCancel == [pc |-> "idle", job |-> NoJob, caller |-> FALSE, enq |-> 0]
Cancel   == {NoCancel} \cup [pc : CancelPC, job : Jobs, caller : BOOLEAN, enq : Nat]

NoSweep  == [pc |-> "idle", job |-> NoJob, worker |-> NoWorker, started |-> 0]
Sweep    == {NoSweep} \cup
            [pc : {"listed", "unowned", "loaded"}, job : Jobs,
             worker : Workers \cup {NoWorker}, started : Nat]

Init ==
  /\ job = [j \in Jobs |-> Absent]
  /\ clock = 0 /\ paused = FALSE /\ draining = FALSE
  /\ requests = [r \in Requests |-> NoRequestJob]
  /\ active = [j \in Jobs |-> NoWorker]
  /\ running = [j \in Jobs |-> NoHandler]
  /\ pending = [j \in Jobs |-> "none"]
  /\ targets = {}
  /\ unsaved = [j \in Jobs |-> NoWorker]
  /\ wk = [w \in Workers |-> Idle]
  /\ cn = [c \in Cancelers |-> NoCancel]
  /\ sw = NoSweep
  /\ restarts = 0 /\ pulls = 0

-------------------------------------------------------------------------------
(* Operators over the state.                                                   *)

(* jobAttemptStatus: the row still is the attempt this worker claimed.         *)
AttemptCurrent(w) ==
  LET r == job[wk[w].job]
  IN  /\ r.status \in {"running", "canceled"}
      /\ r.worker = w
      /\ r.started = wk[w].started
      /\ r.enq = wk[w].enq

(* A worker inside runAttemptTransition read-holds attemptTransitionsMu and    *)
(* the attempts lock; a writer of either waits for all of them.                *)
InTransition(w) == wk[w].pc = "act"
NoTransition    == \A w \in Workers : ~InTransition(w)

(* ownsJob: workerJobs names the job, or the worker is about to learn what it  *)
(* claimed, or a failed update requeue still has to be repeated.               *)
Owns(w, j) ==
  \/ w \in Workers /\ (wk[w].pc = "claiming" \/ wk[w].job = j)
  \/ unsaved[j] # NoWorker

(* Slip: a row that is already canceled is not followed up.                 *)
Cancellable_NotCanceled(r) == CanCancel(r)

(* isJobCancellable: also a canceled row whose worker has not let go.          *)
Cancellable(r) == CanCancel(r) \/ HoldsSession(r)

At(w, pc)      == wk[w].pc = pc
GoTo(w, pc)    == wk' = [wk EXCEPT ![w].pc = pc]
(* Calling a registered cancel function.                                       *)
Interrupt(w)   == [wk EXCEPT ![w].canceled = TRUE]

Tick == clock < MaxClock /\ clock' = clock + 1

-------------------------------------------------------------------------------
(* Clients.                                                                    *)

Enqueue(j, s) ==
  /\ job[j].status = "absent"
  /\ Tick
  /\ job' = [job EXCEPT ![j] = Inserted(clock + 1, s, FALSE)]
  /\ UNCHANGED <<paused, draining, requests, memory, wk, cn, sw, restarts, pulls>>

(* Slip: an attempt that still unwinds does not refuse the rerun.           *)
CanRerun_Early(j) == CanReenqueue(job[j])

CanRerun(j) == active[j] = NoWorker /\ CanReenqueue(job[j])

(* The rerun endpoint for a standalone job: a request id seen before replays,  *)
(* a job whose attempt is still registered is refused.                         *)
Rerun(j, r) ==
  /\ requests[r] = NoRequestJob
  /\ NoTransition
  /\ CanRerun(j)
  /\ Tick
  /\ job' = [job EXCEPT ![j] = Reenqueued(job[j], clock + 1)]
  /\ requests' = [requests EXCEPT ![r] = j]
  /\ UNCHANGED <<paused, draining, memory, wk, cn, sw, restarts, pulls>>

SetPaused(p) ==
  /\ paused # p
  /\ paused' = p
  /\ UNCHANGED <<job, clock, draining, requests, memory, wk, cn, sw, restarts, pulls>>

(* retry_not_before passes.                                                    *)
BackoffElapses(j) ==
  /\ job[j].deferred
  /\ job' = [job EXCEPT ![j].deferred = FALSE]
  /\ UNCHANGED <<clock, paused, draining, requests, memory, wk, cn, sw, restarts, pulls>>

-------------------------------------------------------------------------------
(* Workers: the claim.                                                         *)

BeginClaim(w) ==
  /\ At(w, "idle") /\ ~paused
  /\ GoTo(w, "claiming")
  /\ UNCHANGED <<db, memory, cn, sw, restarts, pulls>>

(* Slip: the claim looks at queue_paused only.                              *)
GateOpen_PauseOnly == ~paused

GateOpen == ~paused /\ ~draining

ClaimJob(w) ==
  /\ At(w, "claiming") /\ GateOpen
  /\ \E j \in Jobs :
       /\ NextClaim(job, j)
       /\ Tick
       /\ job' = [job EXCEPT ![j] = Claimed(job, j, w, clock + 1)]
       /\ wk' = [wk EXCEPT ![w] = [Idle EXCEPT !.pc = "claimed", !.job = j,
                                     !.started = clock + 1, !.enq = job[j].enq]]
  /\ UNCHANGED <<paused, draining, requests, memory, cn, sw, restarts, pulls>>

ClaimNothing(w) ==
  /\ At(w, "claiming")
  /\ ~GateOpen \/ \A j \in Jobs : ~Eligible(job[j])
  /\ GoTo(w, "idle")
  /\ UNCHANGED <<db, memory, cn, sw, restarts, pulls>>

-------------------------------------------------------------------------------
(* Workers: the attempt.                                                       *)

(* Slip: the claim does not wait for the previous attempt.                  *)
PreviousGone_NoWait(j) == TRUE

PreviousGone(j) == active[j] = NoWorker

(* StartJobAttempt waits until no other attempt of the row is registered, then *)
(* registers unless the row moved on meanwhile.                                *)
StartAttempt(w) ==
  /\ At(w, "claimed")
  /\ NoTransition
  /\ PreviousGone(wk[w].job)
  /\ AttemptCurrent(w)
  /\ active' = [active EXCEPT ![wk[w].job] = w]
  /\ wk' = [wk EXCEPT ![w].pc = "started",
                      ![w].canceled = @ \/ job[wk[w].job].status = "canceled"]
  /\ UNCHANGED <<db, running, pending, targets, unsaved, cn, sw, restarts, pulls>>

StartDisplaced(w) ==
  /\ At(w, "claimed")
  /\ NoTransition
  /\ PreviousGone(wk[w].job)
  /\ ~AttemptCurrent(w)
  /\ GoTo(w, "release")
  /\ UNCHANGED <<db, memory, cn, sw, restarts, pulls>>

(* The job's wall-clock timeout fires while the previous attempt unwinds or    *)
(* the lock is taken, or the row cannot be read.                               *)
StartTimesOut(w) ==
  /\ At(w, "claimed")
  /\ ~PreviousGone(wk[w].job) \/ ~NoTransition \/ StoreErrors
  /\ wk' = [wk EXCEPT ![w].pc = "check", ![w].outcome = "error"]
  /\ UNCHANGED <<db, memory, cn, sw, restarts, pulls>>

(* registerRunningJob.                                                         *)
Register(w) ==
  LET j == wk[w].job IN
  /\ At(w, "started")
  /\ running' = [running EXCEPT ![j] = [worker |-> w, caller |-> pending[j] = "caller"]]
  /\ pending' = [pending EXCEPT ![j] = "none"]
  /\ wk' = [wk EXCEPT ![w].pc = "run",
                      ![w].canceled = @ \/ pending[j] # "none" \/ j \in targets]
  /\ UNCHANGED <<db, active, targets, unsaved, cn, sw, restarts, pulls>>

(* The attempt ends: the agent exits, is killed by its context, or never ran   *)
(* because an earlier stage failed.  A canceled context can still meet an agent *)
(* that had already answered.                                                  *)
AttemptEnds(w, outcome) ==
  /\ At(w, "run")
  /\ outcome \in (IF wk[w].canceled THEN {"canceled", "ok", "error"}
                                    ELSE {"ok", "error", "agentError", "fatal"})
  /\ wk' = [wk EXCEPT ![w].pc = "check", ![w].outcome = outcome]
  /\ UNCHANGED <<db, memory, cn, sw, restarts, pulls>>

AfterTransition(w) == IF active[wk[w].job] = w THEN "finish" ELSE "release"

(* runAttemptTransition.  An attempt an update targets goes back to the queue  *)
(* with no transition of its own ...                                           *)
Targeted(w)    == wk[w].job \in targets
Interrupted(w) == Targeted(w) /\ OwnedBy(job[wk[w].job], w)

TransitionInterrupted(w) ==
  /\ At(w, "check") /\ Interrupted(w)
  /\ job' = [job EXCEPT ![wk[w].job] = Requeued(@)]
  /\ GoTo(w, AfterTransition(w))
  /\ UNCHANGED <<clock, paused, draining, requests, memory, cn, sw, restarts, pulls>>

TransitionInterruptUnsaved(w) ==
  /\ StoreErrors
  /\ At(w, "check") /\ Targeted(w)
  /\ unsaved' = [unsaved EXCEPT ![wk[w].job] = w]
  /\ GoTo(w, AfterTransition(w))
  /\ UNCHANGED <<db, active, running, pending, targets, cn, sw, restarts, pulls>>

(* ... one whose row is no longer this attempt does nothing ...                *)
TransitionSkipped(w) ==
  /\ At(w, "check") /\ ~Interrupted(w)
  /\ ~AttemptCurrent(w)
  /\ GoTo(w, AfterTransition(w))
  /\ UNCHANGED <<db, memory, cn, sw, restarts, pulls>>

(* ... and any other keeps the locks until its transition is over.             *)
TransitionBegins(w) ==
  /\ At(w, "check") /\ ~Interrupted(w)
  /\ AttemptCurrent(w)
  /\ GoTo(w, "act")
  /\ UNCHANGED <<db, memory, cn, sw, restarts, pulls>>

(* The row after each transition.  A cancel may have landed since the check:   *)
(* then no WHERE clause matches.                                               *)
OutcomeRows(w) ==
  LET r == job[wk[w].job]
      failed   == IF OwnedBy(r, w) THEN {Failed(r)} ELSE {r}
      retried  == IF CanRetry(r, w) THEN {Retried(r)} ELSE {}
      \* no backup configured, or it cools down: the failover is skipped
      failover == IF CanFailover(r, w) THEN {FailedOver(r)} ELSE {}
      \* the write of the retry fails, the next one does not
      gaveUp   == IF StoreErrors THEN failed ELSE {}
      OrElse(S, T) == IF S # {} THEN S ELSE T
  IN CASE wk[w].outcome = "ok"         -> IF CanComplete(r)
                                          THEN {Completed(r, wk[w].started)} ELSE {r}
       [] wk[w].outcome = "error"      -> OrElse(retried, failed) \cup gaveUp
       [] wk[w].outcome = "agentError" -> OrElse(retried, failover \cup failed) \cup gaveUp
       [] wk[w].outcome = "fatal"      -> failover \cup failed
       [] OTHER                        -> {r}

TransitionEnds(w) ==
  /\ At(w, "act")
  /\ \E r \in OutcomeRows(w) : job' = [job EXCEPT ![wk[w].job] = r]
  /\ GoTo(w, AfterTransition(w))
  /\ UNCHANGED <<clock, paused, draining, requests, memory, cn, sw, restarts, pulls>>

(* The outcome cannot be stored: the row stays as it is.                       *)
TransitionUnsaved(w) ==
  /\ StoreErrors
  /\ At(w, "act")
  /\ GoTo(w, AfterTransition(w))
  /\ UNCHANGED <<db, memory, cn, sw, restarts, pulls>>

(* finishRunningJob: a successor that was canceled through this worker's       *)
(* handler keeps the cancellation.                                             *)
FinishRunning(w) ==
  LET j == wk[w].job
      canceledSuccessor == /\ running[j].caller
                           /\ job[j].status = "canceled"
                           /\ job[j].worker \notin {NoWorker, w}
  IN
  /\ At(w, "finish")
  /\ running' = [running EXCEPT ![j] = NoHandler]
  /\ \E known \in BOOLEAN :   \* the query for a successor may fail
       /\ ~known => StoreErrors
       /\ pending' = [pending EXCEPT ![j] = IF canceledSuccessor /\ known
                                            THEN "caller" ELSE "none"]
  /\ GoTo(w, "release")
  /\ UNCHANGED <<db, active, targets, unsaved, cn, sw, restarts, pulls>>

(* releaseCanceledClaim.                                                       *)
ReleaseClaim(w) ==
  LET j == wk[w].job IN
  /\ At(w, "release")
  /\ job' = [job EXCEPT ![j] = IF CanRelease(@, w) THEN Released(@) ELSE @]
  /\ GoTo(w, IF active[j] = w THEN "free" ELSE "leave")
  /\ UNCHANGED <<clock, paused, draining, requests, memory, cn, sw, restarts, pulls>>

ReleaseUnsaved(w) ==
  /\ StoreErrors
  /\ At(w, "release")
  /\ GoTo(w, IF active[wk[w].job] = w THEN "free" ELSE "leave")
  /\ UNCHANGED <<db, memory, cn, sw, restarts, pulls>>

(* The release function of StartJobAttempt.                                    *)
FreeAttempt(w) ==
  /\ At(w, "free")
  /\ NoTransition
  /\ active' = [active EXCEPT ![wk[w].job] = NoWorker]
  /\ GoTo(w, "leave")
  /\ UNCHANGED <<db, running, pending, targets, unsaved, cn, sw, restarts, pulls>>

(* Slip: workerJobs keeps the entry of a job that was left.                 *)
LeaveJob_Stays(w) ==
  /\ At(w, "leave")
  /\ GoTo(w, "idle")
  /\ UNCHANGED <<db, memory, cn, sw, restarts, pulls>>

LeaveJob(w) ==
  /\ At(w, "leave")
  /\ wk' = [wk EXCEPT ![w] = Idle]
  /\ UNCHANGED <<db, memory, cn, sw, restarts, pulls>>

-------------------------------------------------------------------------------
(* Cancellation: CancelJob in the database, then the pool's lookup, which      *)
(* rereads the row twice around its looks at runningJobs.                      *)

(* The request is about what the row now describes.                            *)
Concerns(c, j) == cn[c].job = j /\ cn[c].enq = job[j].enq

CancelRow(c, j, caller) ==
  /\ \/ cn[c].pc = "idle"
     \/ cn[c].pc = "failed" /\ ~Concerns(c, cn[c].job)
  /\ CanCancel(job[j])
  /\ job' = [job EXCEPT ![j] = Canceled(@)]
  /\ cn' = [cn EXCEPT ![c] = [pc |-> "reg1", job |-> j, caller |-> caller,
                              enq |-> job[j].enq]]
  /\ UNCHANGED <<clock, paused, draining, requests, memory, wk, sw, restarts, pulls>>

(* registeredJobCancel hit: the handler is told and called.                    *)
CancelRegistered(c) ==
  LET j == cn[c].job IN
  /\ cn[c].pc \in {"reg1", "again", "reg2", "final"}
  /\ running[j].worker # NoWorker
  /\ running' = [running EXCEPT ![j].caller = @ \/ cn[c].caller]
  /\ wk' = Interrupt(running[j].worker)
  /\ cn' = [cn EXCEPT ![c] = NoCancel]
  /\ UNCHANGED <<db, active, pending, targets, unsaved, sw, restarts, pulls>>

(* Where a request goes whose look at runningJobs misses.                      *)
AfterMiss == [reg1 |-> "read1", again |-> "failed", reg2 |-> "read2"]

CancelUnregistered(c) ==
  /\ cn[c].pc \in DOMAIN AfterMiss
  /\ running[cn[c].job].worker = NoWorker
  /\ cn' = [cn EXCEPT ![c].pc = AfterMiss[@]]
  /\ UNCHANGED <<db, memory, wk, sw, restarts, pulls>>

CancelRereads(c) ==
  /\ cn[c].pc \in {"read1", "read2"}
  /\ cn' = [cn EXCEPT ![c] = IF ~Cancellable(job[cn[c].job]) THEN NoCancel
               ELSE [cn[c] EXCEPT !.pc = IF cn[c].pc = "read1" THEN "reg2" ELSE "final"]]
  /\ UNCHANGED <<db, memory, wk, sw, restarts, pulls>>

(* The row cannot be read: after the first reading the registration is looked  *)
(* at once more, after the second the request gives up at once, with nothing   *)
(* left in pendingCancels.                                                     *)
CancelReadFails(c) ==
  /\ StoreErrors
  /\ cn[c].pc \in {"read1", "read2"}
  /\ cn' = [cn EXCEPT ![c].pc = IF @ = "read1" THEN "again" ELSE "failed"]
  /\ UNCHANGED <<db, memory, wk, sw, restarts, pulls>>

CancelPending(c) ==
  LET j == cn[c].job IN
  /\ cn[c].pc = "final"
  /\ running[j].worker = NoWorker
  /\ pending' = [pending EXCEPT ![j] = IF cn[c].caller THEN "caller"
                                       ELSE IF @ = "none" THEN "worker" ELSE @]
  /\ cn' = [cn EXCEPT ![c] = NoCancel]
  /\ UNCHANGED <<db, active, running, targets, unsaved, wk, sw, restarts, pulls>>

-------------------------------------------------------------------------------
(* The orphan sweep: list, ask the pool, load the row, and fail the attempt    *)
(* that was loaded if the pool still disowns it.                               *)

SweepList(j) ==
  /\ sw.pc = "idle"
  /\ job[j].status = "running" /\ job[j].worker # NoWorker
  /\ sw' = [NoSweep EXCEPT !.pc = "listed", !.job = j, !.worker = job[j].worker]
  /\ UNCHANGED <<db, memory, wk, cn, restarts, pulls>>

SweepOwned ==
  /\ sw.pc = "listed" /\ Owns(sw.worker, sw.job)
  /\ sw' = NoSweep
  /\ UNCHANGED <<db, memory, wk, cn, restarts, pulls>>

SweepUnowned ==
  /\ sw.pc = "listed" /\ ~Owns(sw.worker, sw.job)
  /\ sw' = [sw EXCEPT !.pc = "unowned"]
  /\ UNCHANGED <<db, memory, wk, cn, restarts, pulls>>

SweepLoad ==
  /\ sw.pc = "unowned"
  /\ sw' = [sw EXCEPT !.pc = "loaded", !.worker = job[sw.job].worker,
                      !.started = job[sw.job].started]
  /\ UNCHANGED <<db, memory, wk, cn, restarts, pulls>>

(* Slip: the owner is not asked again after the row was loaded.             *)
SweepFails_NoRecheck == /\ OwnedBy(job[sw.job], sw.worker)
                        /\ job[sw.job].started = sw.started

SweepFails == /\ ~Owns(sw.worker, sw.job)
              /\ OwnedBy(job[sw.job], sw.worker)
              /\ job[sw.job].started = sw.started

SweepFail ==
  /\ sw.pc = "loaded" /\ SweepFails
  /\ job' = [job EXCEPT ![sw.job] = Failed(@)]
  /\ sw' = NoSweep
  /\ UNCHANGED <<clock, paused, draining, requests, memory, wk, cn, restarts, pulls>>

SweepSpare ==
  /\ sw.pc = "loaded" /\ ~SweepFails
  /\ sw' = NoSweep
  /\ UNCHANGED <<db, memory, wk, cn, restarts, pulls>>

-------------------------------------------------------------------------------
(* Another machine reran a job this one has finished before, and its newer     *)
(* attempt arrives.  The pull write-locks the attempts and cancels a displaced *)
(* local attempt before it unlocks.                                            *)

Shared(j) == job[j].status \in Terminal \/ \E r \in Requests : requests[r] = j

Pull(j, status) ==
  /\ pulls < MaxPulls /\ pulls' = pulls + 1
  /\ Shared(j)
  /\ NoTransition
  /\ Tick
  /\ job' = [job EXCEPT ![j] = Pulled(@, status, clock + 1, active[j] # NoWorker)]
  /\ wk' = IF active[j] # NoWorker THEN Interrupt(active[j]) ELSE wk
  /\ UNCHANGED <<paused, draining, requests, memory, cn, sw, restarts>>

(* Slip: shutdown_draining survives the daemon that set it.                 *)
GateOnStart_Kept == draining

(* Server.Start clears the gate an interrupted shutdown left closed.          *)
GateOnStart == FALSE

(* The daemon dies at any moment and is started again.                         *)
Restart ==
  /\ restarts < MaxRestarts /\ restarts' = restarts + 1
  /\ job' = [j \in Jobs |-> ResetStale(job[j])]
  /\ draining' = GateOnStart
  /\ active' = [j \in Jobs |-> NoWorker]
  /\ running' = [j \in Jobs |-> NoHandler]
  /\ pending' = [j \in Jobs |-> "none"]
  /\ targets' = {}
  /\ unsaved' = [j \in Jobs |-> NoWorker]
  /\ wk' = [w \in Workers |-> Idle]
  /\ cn' = [c \in Cancelers |-> NoCancel]
  /\ sw' = NoSweep
  /\ UNCHANGED <<clock, paused, requests, pulls>>

-------------------------------------------------------------------------------
WorkerStep(w) ==
  \/ BeginClaim(w) \/ ClaimJob(w) \/ ClaimNothing(w)
  \/ StartAttempt(w) \/ StartDisplaced(w) \/ StartTimesOut(w) \/ Register(w)
  \/ \E o \in Outcome : AttemptEnds(w, o)
  \/ TransitionSkipped(w) \/ TransitionBegins(w)
  \/ TransitionEnds(w) \/ TransitionUnsaved(w)
  \/ FinishRunning(w) \/ ReleaseClaim(w) \/ ReleaseUnsaved(w) \/ FreeAttempt(w) \/ LeaveJob(w)

(* What an update brings about besides: the pool alone has no targets, so that *)
(* these two are part of UpdateDrain's next-state relation only.               *)
InterruptedStep(w) == TransitionInterrupted(w) \/ TransitionInterruptUnsaved(w)

ClientStep ==
  \/ \E j \in Jobs : \/ \E s \in Sessions \cup {NoSession} : Enqueue(j, s)
                     \/ \E r \in Requests : Rerun(j, r)
  \/ \E p \in BOOLEAN : SetPaused(p)

CancelStep(c) ==
  \/ CancelRegistered(c) \/ CancelUnregistered(c)
  \/ CancelRereads(c) \/ CancelReadFails(c) \/ CancelPending(c)

SweepStep ==
  \/ \E j \in Jobs : SweepList(j)
  \/ SweepOwned \/ SweepUnowned \/ SweepLoad \/ SweepFail \/ SweepSpare

Next ==
  \/ ClientStep
  \/ \E j \in Jobs : BackoffElapses(j)
  \/ \E w \in Workers : WorkerStep(w)
  \/ \E c \in Cancelers : \/ \E j \in Jobs, b \in BOOLEAN : CancelRow(c, j, b)
                          \/ CancelStep(c)
  \/ SweepStep
  \/ \E j \in Jobs, s \in {"done", "failed", "canceled"} : Pull(j, s)
  \/ Restart

Spec == Init /\ [][Next]_vars

-------------------------------------------------------------------------------
(* Properties.                                                                 *)

(* Every variable keeps its type; the worker pool's one type invariant.        *)
TypeOK ==
  /\ job \in [Jobs -> Row]
  /\ clock \in Nat /\ paused \in BOOLEAN /\ draining \in BOOLEAN
  /\ requests \in [Requests -> Jobs \cup {NoRequestJob}]
  /\ active \in [Jobs -> Workers \cup {NoWorker}]
  /\ running \in [Jobs -> Handler]
  /\ pending \in [Jobs -> Owners]
  /\ targets \in SUBSET Jobs
  /\ unsaved \in [Jobs -> Workers \cup {NoWorker}]
  /\ wk \in [Workers -> Worker]
  /\ cn \in [Cancelers -> Cancel]
  /\ sw \in Sweep
  /\ restarts \in Nat /\ pulls \in Nat

(* The attempt has started and its clean-up is not over.  An attempt whose     *)
(* start timed out passes "check" and "act" too, without having started.       *)
Executing(w, j) == wk[w].job = j /\ wk[w].pc \in {"started", "run", "finish", "free"}

(* At no time are two workers at work for one job, be it with an agent or with *)
(* the clean-up after it: a retry or a failover that is claimed again while    *)
(* the previous worker still unwinds waits for it, and so does a rerun         *)
(* (StartJobAttempt, ReenqueueJobWithRequest).                                 *)
OneAgentPerJob ==
  \A j \in Jobs : \A v, w \in Workers : Executing(v, j) /\ Executing(w, j) => v = w

(* A registered cancel function always belongs to the attempt that holds the   *)
(* job's registration, so that a cancel never reaches a worker that has gone   *)
(* on to something else (registerRunningJob, finishRunningJob).                *)
HandlerIsAttempt ==
  \A j \in Jobs :
    running[j].worker # NoWorker =>
      /\ active[j] = running[j].worker
      /\ wk[running[j].worker].job = j

(* No cancel is lost but by a row that cannot be read: once the request that   *)
(* canceled an attempt is answered, an agent that still runs for it has had    *)
(* its context canceled, whichever side of its registration the request fell   *)
(* on.  Only a request both of whose looks at the registration missed and one  *)
(* of whose readings of the row failed leaves it running, as cancelJob then    *)
(* returns false and marks nothing; requests for other attempts of the same    *)
(* job, in flight or failed, excuse nothing.                                   *)
NoLostCancel ==
  \A w \in Workers :
    (/\ At(w, "run")
     /\ AttemptCurrent(w) /\ job[wk[w].job].status = "canceled"
     /\ \A c \in Cancelers : ~Concerns(c, wk[w].job))
    => wk[w].canceled

(* A stored review was written by the attempt the row now describes, and a     *)
(* done row of this machine has its review: CompleteJob is scoped by status    *)
(* only and relies on runAttemptTransition to keep stale attempts out.         *)
ReviewOfThisAttempt ==
  \A j \in Jobs :
    LET r == job[j]
    IN  /\ r.review # 0 => r.status = "done" /\ r.review = r.started
        /\ r.status = "done" /\ r.started > r.enq => r.review = r.started

(* A running attempt is ended only by the worker that claimed this very        *)
(* attempt, or by the sweep when no worker owns it, or by a cancel, a pull or  *)
(* a daemon restart.                                                           *)
EndedByItsWorker ==
  [][\A j \in Jobs :
       (/\ job[j].status = "running"
        /\ job'[j].status \in {"done", "failed", "queued"}
        /\ job'[j].enq = job[j].enq
        /\ restarts' = restarts)
       => LET w == job[j].worker
          IN  \/ /\ wk[w].job = j
                 /\ wk[w].pc \in {"check", "act"} /\ wk'[w].pc # wk[w].pc
                 /\ wk[w].started = job[j].started
              \/ job'[j].status = "failed" /\ ~Owns(w, j)]_vars

(* Cancellation is final: a canceled row is only ever released, replaced by a  *)
(* newer pulled attempt, or requeued by a rerun once no worker holds its claim.*)
CanceledUntilRerun ==
  [][\A j \in Jobs :
       (job[j].status = "canceled" /\ job'[j].status # "canceled") =>
         \/ job'[j].enq > job[j].enq /\ job'[j].status \in Terminal
         \/ /\ job'[j].status = "queued" /\ requests' # requests
            /\ \A w \in Workers : wk[w].job = j => ~AttemptCurrent(w)]_vars

(* A finished job is requeued only when no worker is at work for it any more,  *)
(* not even one whose attempt a pulled row displaced                           *)
(* (ReenqueueJobWithRequest).                                                  *)
RerunAfterUnwind ==
  [][\A j \in Jobs :
       (job[j].status \in Terminal /\ job'[j].status = "queued")
       => \A w \in Workers : ~Executing(w, j)]_vars

(* At most one agent at a time resumes a session: the claim drops a session    *)
(* that a running job, or a canceled one whose agent has not exited, still     *)
(* writes to (releaseContestedSession).                                        *)
OneAgentPerSession ==
  \A v, w \in Workers :
    (/\ wk[v].pc \in {"started", "run"} /\ AttemptCurrent(v)
     /\ wk[w].pc \in {"started", "run"} /\ AttemptCurrent(w)
     /\ job[wk[v].job].session = job[wk[w].job].session
     /\ job[wk[v].job].session # NoSession)
    => v = w

(* An attempt whose context was canceled has a canceled row (or is being       *)
(* interrupted by an update): what processJob assumes when it drops such an    *)
(* attempt with "already marked as canceled in DB".                            *)
CanceledInDatabase ==
  \A w \in Workers :
    (At(w, "run") /\ AttemptCurrent(w) /\ wk[w].canceled /\ wk[w].job \notin targets)
    => job[wk[w].job].status = "canceled"

-------------------------------------------------------------------------------
(* The pool implements JobLifecycle, what clients of the queue rely on.        *)

Phase(r) ==
  IF r.status = "canceled" /\ r.worker # NoWorker THEN "stopping" ELSE r.status

Promise == INSTANCE JobLifecycle WITH
  phase  <- [j \in Jobs |-> Phase(job[j])],
  review <- [j \in Jobs |-> job[j].review # 0],
  holder <- active

(* Every behavior of the pool is one of the job lifecycle: one attempt at a    *)
(* time holds a job, only a held job is completed, the review appears and      *)
(* vanishes with the done phase, a canceled job waits for its worker.          *)
Lifecycle == Promise!Spec

-------------------------------------------------------------------------------
(* Liveness.  Workers poll, agents end by their timeout, requests are served   *)
(* and the sweep ticks; nobody need pause, rerun, cancel or crash anything.    *)
(* A worker that finds the queue empty is claiming for milliseconds every two  *)
(* seconds, so the sweep does not for ever meet a job's last worker in the     *)
(* middle of a claim: hence strong fairness for the sweep's steps at moments   *)
(* when that worker disowns the job.                                           *)
Disowned(j) == ~Owns(job[j].worker, j)

Fairness ==
  /\ \A w \in Workers : WF_vars(WorkerStep(w))
  /\ \A j \in Jobs : WF_vars(BackoffElapses(j))
  /\ \A c \in Cancelers : WF_vars(CancelStep(c))
  /\ WF_vars(SweepStep)
  /\ \A j \in Jobs : SF_vars(SweepList(j) /\ Disowned(j))
  /\ SF_vars(SweepUnowned) /\ SF_vars(SweepLoad /\ Disowned(sw.job)) /\ SF_vars(SweepFail)

FairSpec == Spec /\ Fairness

(* Unless the queue stays paused, every job that is queued or running reaches  *)
(* a terminal status, or at least is queued no later than its next rerun: no   *)
(* retry, failover, lost outcome or crash strands it.                          *)
JobsSettle ==
  <>[]~paused =>
    \A j \in Jobs : job[j].status \in {"queued", "running"} ~> job[j].status \in Terminal
===============================================================================

------------------------------ MODULE UpdateDrain ------------------------------
(* The update lease of internal/daemon/update_drain.go over the worker pool:   *)
(* `roborev update` closes the claim gate, waits for the running reviews to     *)
(* end or sends them back to the queue, and replaces the daemon.  A lease that  *)
(* is not renewed runs out and the gate reopens by itself.                      *)
EXTENDS WorkerPool

CONSTANTS
  Updaters,    \* update commands; each is its own owner
  NoUpdater,
  MaxLeases    \* bound: leases granted

ASSUME DrainAssumption == NoUpdater \notin Updaters /\ MaxLeases \in Nat

VARIABLES
  counted,     \* the workers activeWorkers counts
  lease,       \* updateDrain
  releasing,   \* where releaseExpiredLocked stands; it holds shutdownDrainMu
  up,          \* the update commands
  stopping,    \* shutdownDraining: the daemon is on its way out
  tokens       \* lease tokens handed out

drain == <<counted, lease, releasing, up, stopping, tokens>>
dvars == <<vars, drain>>

Policies == {"wait", "interrupt", "abort"}
Lease    == [token : 0 .. MaxLeases, owner : Updaters \cup {NoUpdater},
             policy : Policies, targeted : SUBSET Jobs,
             expired : BOOLEAN, recovering : BOOLEAN]
NoLease  == [token |-> 0, owner |-> NoUpdater, policy |-> "wait", targeted |-> {},
             expired |-> FALSE, recovering |-> FALSE]

Updater  == [pc : {"idle", "waiting", "ready", "gone"}, token : 0 .. MaxLeases]
NoUpdate == [pc |-> "idle", token |-> 0]
Gone     == [pc |-> "gone", token |-> 0]
Polling  == {"waiting", "ready"}

DInit ==
  /\ Init
  /\ counted = {}
  /\ lease = NoLease
  /\ releasing = "no"
  /\ up = [u \in Updaters |-> NoUpdate]
  /\ stopping = FALSE
  /\ tokens = 0

RunningJobs   == {j \in Jobs : job[j].status = "running"}
ActiveWorkers == counted

-------------------------------------------------------------------------------
(* The pool underneath.  A worker is counted from just after its claim until   *)
(* just after it has left the job; a stopping pool claims nothing more.        *)

PoolWorker(w) ==
  /\ At(w, "idle") => w \notin counted /\ ~stopping
  /\ At(w, "claimed") => w \in counted
  /\ WorkerStep(w) \/ InterruptedStep(w)
  /\ UNCHANGED drain

Count(w) ==
  /\ At(w, "claimed") /\ w \notin counted
  /\ counted' = counted \cup {w}
  /\ UNCHANGED <<vars, lease, releasing, up, stopping, tokens>>

Uncount(w) ==
  /\ At(w, "idle") /\ w \in counted
  /\ counted' = counted \ {w}
  /\ UNCHANGED <<vars, lease, releasing, up, stopping, tokens>>

-------------------------------------------------------------------------------
(* prepare.  An interrupting update write-locks the attempt transitions, so    *)
(* that the gate, the list of running jobs and their marks are one step for    *)
(* the workers.  Failures that leave the gate as it was are no step at all.    *)

(* Slip: the marks are set without the transition lock.                     *)
CanPrepare_Unlocked(policy) ==
  /\ releasing = "no" /\ ~stopping
  /\ lease = NoLease
  /\ tokens < MaxLeases /\ tokens' = tokens + 1

CanPrepare(policy) ==
  /\ releasing = "no" /\ ~stopping
  /\ lease = NoLease
  /\ tokens < MaxLeases /\ tokens' = tokens + 1
  /\ policy = "interrupt" => NoTransition

PrepareGrants(u, policy, answered) ==
  /\ up[u].pc = "idle"
  /\ CanPrepare(policy)
  /\ policy = "abort" => RunningJobs = {}
  /\ draining' = TRUE
  /\ lease' = [NoLease EXCEPT !.token = tokens', !.owner = u, !.policy = policy,
                              !.targeted = RunningJobs]
  /\ IF policy = "interrupt"
     THEN /\ targets' = targets \cup RunningJobs
          /\ wk' = [w \in Workers |->
                      [wk[w] EXCEPT !.canceled =
                         @ \/ \E j \in RunningJobs : running[j].worker = w]]
     ELSE UNCHANGED <<targets, wk>>
  /\ up' = IF answered THEN [up EXCEPT ![u] = [pc |-> "waiting", token |-> tokens']]
                       ELSE up
  /\ UNCHANGED <<job, clock, paused, requests, active, running, pending, unsaved,
                 cn, sw, restarts, pulls, counted, releasing, stopping>>

(* rollbackPreparationLocked cannot reopen the gate: a lease that nobody holds *)
(* retries.                                                                    *)
PrepareRollsBack(u, policy) ==
  /\ StoreErrors
  /\ up[u].pc = "idle"
  /\ CanPrepare(policy)
  /\ draining' = TRUE
  /\ lease' = [NoLease EXCEPT !.token = tokens', !.owner = u, !.policy = policy,
                              !.expired = TRUE, !.recovering = TRUE]
  /\ UNCHANGED <<job, clock, paused, requests, memory, wk, cn, sw, restarts, pulls,
                 counted, releasing, up, stopping>>

Held       == lease.token # 0 /\ ~lease.recovering /\ ~lease.expired
HoldsLease(u) == Held /\ releasing = "no" /\ ~stopping /\ up[u].token = lease.token

(* The owner asks again, because the first answer was lost.                    *)
PrepareRepeated(u, policy) ==
  /\ up[u].pc = "idle"
  /\ releasing = "no" /\ ~stopping /\ Held
  /\ lease.owner = u /\ lease.policy = policy
  /\ up' = [up EXCEPT ![u] = [pc |-> "waiting", token |-> lease.token]]
  /\ UNCHANGED <<vars, counted, lease, releasing, stopping, tokens>>

-------------------------------------------------------------------------------
(* The update command.  Each poll renews the lease and looks at the snapshot.  *)

Drained ==
  IF lease.policy = "interrupt"
  THEN lease.targeted \cap RunningJobs = {} /\ ActiveWorkers = {}
  ELSE RunningJobs = {}

PollSeesDrained(u) ==
  /\ up[u].pc = "waiting" /\ HoldsLease(u) /\ Drained
  /\ up' = [up EXCEPT ![u].pc = "ready"]
  /\ UNCHANGED <<vars, counted, lease, releasing, stopping, tokens>>

PollRefused(u) ==
  /\ up[u].pc \in Polling /\ releasing = "no" /\ ~HoldsLease(u)
  /\ up' = [up EXCEPT ![u] = Gone]
  /\ UNCHANGED <<vars, counted, lease, releasing, stopping, tokens>>

(* The command is interrupted or dies without releasing.                       *)
Abandon(u) ==
  /\ up[u].pc \in Polling
  /\ up' = [up EXCEPT ![u] = Gone]
  /\ UNCHANGED <<vars, counted, lease, releasing, stopping, tokens>>

LeaseExpires ==
  /\ Held /\ releasing = "no"
  /\ lease' = [lease EXCEPT !.expired = TRUE]
  /\ UNCHANGED <<vars, counted, releasing, up, stopping, tokens>>

-------------------------------------------------------------------------------
(* releaseExpiredLocked, entered by the release endpoint, the expiry timer or  *)
(* the recovery timer.                                                         *)

(* Slip: failed requeues are not repeated.                                  *)
FirstStep_Count == "count"

FirstStep == IF lease.policy = "interrupt" /\ ActiveWorkers = {} THEN "requeue" ELSE "count"

ReleaseLease(u) ==
  /\ up[u].pc \in Polling /\ HoldsLease(u)
  /\ lease' = [lease EXCEPT !.expired = TRUE]
  /\ releasing' = FirstStep
  /\ up' = [up EXCEPT ![u] = Gone]
  /\ UNCHANGED <<vars, counted, stopping, tokens>>

TimerFires ==
  /\ releasing = "no" /\ ~stopping
  /\ lease.expired
  /\ releasing' = FirstStep
  /\ UNCHANGED <<vars, counted, lease, up, stopping, tokens>>

Recovering ==
  /\ lease' = [lease EXCEPT !.recovering = TRUE]
  /\ releasing' = "no"

(* RetryFailedUpdateRequeues; some of the transactions may fail again.         *)
RequeueUnsaved(saved) ==
  LET failedRequeues == {j \in Jobs : unsaved[j] # NoWorker} IN
  /\ releasing = "requeue"
  /\ saved \subseteq failedRequeues
  /\ job' = [j \in Jobs |->
               IF j \in saved /\ OwnedBy(job[j], unsaved[j]) THEN Requeued(job[j]) ELSE job[j]]
  /\ unsaved' = [j \in Jobs |-> IF j \in saved THEN NoWorker ELSE unsaved[j]]
  /\ IF saved = failedRequeues
     THEN releasing' = "count" /\ UNCHANGED lease
     ELSE StoreErrors /\ Recovering
  /\ UNCHANGED <<clock, paused, draining, requests, active, running, pending, targets,
                 wk, cn, sw, restarts, pulls, counted, up, stopping, tokens>>

CountTargeted ==
  /\ releasing = "count"
  /\ IF lease.policy = "interrupt" /\ lease.targeted \cap RunningJobs # {}
     THEN Recovering ELSE releasing' = "active" /\ UNCHANGED lease
  /\ UNCHANGED <<vars, counted, up, stopping, tokens>>

CheckActive ==
  /\ releasing = "active"
  /\ IF lease.policy = "interrupt" /\ ActiveWorkers # {}
     THEN Recovering ELSE releasing' = "clear" /\ UNCHANGED lease
  /\ UNCHANGED <<vars, counted, up, stopping, tokens>>

(* Slip: the marks outlive the lease.                                       *)
ClearTargets_Forgets ==
  /\ releasing = "clear"
  /\ releasing' = "open"
  /\ UNCHANGED <<vars, counted, lease, up, stopping, tokens>>

(* The marks go while the gate is still closed.                                *)
ClearTargets ==
  /\ releasing = "clear"
  /\ targets' = {}
  /\ unsaved' = [j \in Jobs |-> NoWorker]
  /\ releasing' = "open"
  /\ UNCHANGED <<db, active, running, pending, wk, cn, sw, restarts, pulls,
                 counted, lease, up, stopping, tokens>>

OpenGate ==
  /\ releasing = "open"
  /\ draining' = FALSE
  /\ lease' = NoLease
  /\ releasing' = "no"
  /\ UNCHANGED <<job, clock, paused, requests, memory, wk, cn, sw, restarts, pulls,
                 counted, up, stopping, tokens>>

(* The count or the write of the gate fails: another timer.                    *)
ReleaseFails ==
  /\ StoreErrors
  /\ releasing \in {"count", "open"}
  /\ Recovering
  /\ UNCHANGED <<vars, counted, up, stopping, tokens>>

-------------------------------------------------------------------------------
(* beginShutdownDrain takes the closed gate over from the lease; the marks     *)
(* stay, so that interrupted attempts still unwind as such.                    *)

Shutdown ==
  /\ releasing = "no" /\ ~stopping
  /\ restarts < MaxRestarts
  /\ stopping' = TRUE
  /\ draining' = TRUE
  /\ lease' = NoLease
  /\ UNCHANGED <<job, clock, paused, requests, memory, wk, cn, sw, restarts, pulls,
                 counted, releasing, up, tokens>>

UpdaterShutsDown(u) == up[u].pc = "ready" /\ HoldsLease(u) /\ Shutdown

DRestart ==
  /\ Restart
  /\ counted' = {}
  /\ lease' = NoLease
  /\ releasing' = "no"
  /\ stopping' = FALSE
  /\ UNCHANGED <<up, tokens>>

-------------------------------------------------------------------------------
WorkerMoves(w) == PoolWorker(w) \/ Count(w) \/ Uncount(w)

PrepareStep(u) ==
  \E p \in Policies : \/ \E answered \in BOOLEAN : PrepareGrants(u, p, answered)
                      \/ PrepareRollsBack(u, p)
                      \/ PrepareRepeated(u, p)

UpdaterStep(u) == PollSeesDrained(u) \/ PollRefused(u) \/ UpdaterShutsDown(u)

ReleaseStep ==
  \/ TimerFires
  \/ \E S \in SUBSET Jobs : RequeueUnsaved(S)
  \/ CountTargeted \/ CheckActive \/ ClearTargets \/ OpenGate \/ ReleaseFails

DNext ==
  \/ ClientStep /\ UNCHANGED drain
  \/ \E j \in Jobs : BackoffElapses(j) /\ UNCHANGED drain
  \/ \E w \in Workers : WorkerMoves(w)
  \/ \E c \in Cancelers :
       /\ (\E j \in Jobs, b \in BOOLEAN : CancelRow(c, j, b)) \/ CancelStep(c)
       /\ UNCHANGED drain
  \/ SweepStep /\ UNCHANGED drain
  \/ \E u \in Updaters : PrepareStep(u) \/ UpdaterStep(u) \/ Abandon(u) \/ ReleaseLease(u)
  \/ LeaseExpires
  \/ ReleaseStep
  \/ Shutdown
  \/ DRestart

DSpec == DInit /\ [][DNext]_dvars

-------------------------------------------------------------------------------
(* Properties.                                                                 *)

(* Every variable the lease adds keeps its type.                               *)
DTypeOK ==
  /\ TypeOK
  /\ counted \in SUBSET Workers
  /\ lease \in Lease
  /\ releasing \in {"no", "requeue", "count", "active", "clear", "open"}
  /\ up \in [Updaters -> Updater]
  /\ stopping \in BOOLEAN
  /\ tokens \in 0 .. MaxLeases

(* An interrupt mark or a failed requeue only exists behind the closed gate,   *)
(* so that no attempt claimed later is interrupted for an update that is over  *)
(* (releaseExpiredLocked clears before it opens).                              *)
MarksBehindGate ==
  (targets # {} \/ \E j \in Jobs : unsaved[j] # NoWorker) => draining

(* Once an update command has seen the daemon drained, and while its lease     *)
(* lasts, no review is running; after an interrupt no worker is at work for    *)
(* more than a canceled job (waitForPreparedDrain).  A worker that only has to *)
(* forget its job may see a rerun queue that job again.                        *)
DrainedStaysDrained ==
  \A u \in Updaters :
    (up[u].pc = "ready" /\ HoldsLease(u)) =>
      /\ RunningJobs = {}
      /\ lease.policy = "interrupt" =>
           \A w \in Workers :
             wk[w].job # NoJob /\ ~At(w, "leave") => job[wk[w].job].status = "canceled"

(* An attempt an update interrupts goes back to the queue or is canceled by    *)
(* the user, and pays no retry: its worker never stores it as done, failed,    *)
(* retried or failed over (handleUpdateInterruption).                          *)
InterruptIsFree ==
  [][\A w \in Workers : \A j \in targets :
       (OwnedBy(job[j], w) /\ wk[w].job = j /\ AttemptCurrent(w) /\ restarts' = restarts)
       => /\ job'[j].status \in {"running", "queued", "canceled"}
          /\ job'[j].retry = job[j].retry /\ job'[j].agent = job[j].agent]_dvars

-------------------------------------------------------------------------------
(* Liveness.  An update command polls until its lease ends, or dies and stops  *)
(* renewing; one that interrupts waits 30 seconds at most; one that is ready   *)
(* stops the daemon or gives up; the timers fire; the database does not refuse *)
(* every write for ever; a daemon that is stopping stops.                      *)

Unrenewed == \A u \in Updaters : up[u].pc \in Polling => up[u].token # lease.token

GivesUp(u) ==
  /\ up[u].pc = "ready" \/ lease.policy = "interrupt"
  /\ ReleaseLease(u) \/ Abandon(u)

DFairness ==
  /\ \A w \in Workers : WF_dvars(WorkerMoves(w))
  /\ \A j \in Jobs : WF_dvars(BackoffElapses(j) /\ UNCHANGED drain)
  /\ \A c \in Cancelers : WF_dvars(CancelStep(c) /\ UNCHANGED drain)
  /\ WF_dvars(SweepStep /\ UNCHANGED drain)
  /\ \A j \in Jobs : SF_dvars(SweepList(j) /\ Disowned(j) /\ UNCHANGED drain)
  /\ SF_dvars(SweepUnowned /\ UNCHANGED drain)
  /\ SF_dvars(SweepLoad /\ Disowned(sw.job) /\ UNCHANGED drain)
  /\ SF_dvars(SweepFail /\ UNCHANGED drain)
  /\ \A u \in Updaters : WF_dvars(UpdaterStep(u) \/ GivesUp(u))
  /\ WF_dvars(LeaseExpires /\ Unrenewed)
  /\ WF_dvars(ReleaseStep)
  /\ SF_dvars(\E S \in SUBSET Jobs : RequeueUnsaved(S) /\ releasing' = "count")
  /\ SF_dvars(CountTargeted) /\ SF_dvars(OpenGate)
  /\ WF_dvars(stopping /\ DRestart)

DFairSpec == DSpec /\ DFairness

(* The claim gate never stays closed: not when the update command dies, not    *)
(* when an interrupted attempt could not be requeued, not when the rollback or *)
(* the reopening itself failed, not when the daemon is stopped half-way.       *)
GateReopens == draining ~> ~draining
===============================================================================

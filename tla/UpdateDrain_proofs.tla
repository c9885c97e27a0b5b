--------------------------- MODULE UpdateDrain_proofs ---------------------------
(* The update lease keeps what WorkerPool_proofs shows of the pool: an update   *)
(* interrupts attempts and requeues rows, but never touches the registry.       *)
EXTENDS UpdateDrain, WorkerPool_proofs

-------------------------------------------------------------------------------
(* Steps of the pool, and of the lease alone.                                  *)

(* Whatever changes no variable of the pool keeps its invariant.               *)
LEMMA PoolStutters ==
  ASSUME PoolInv, UNCHANGED vars
  PROVE  PoolInv'
<1>1. TypeOK'
  BY DEF PoolInv, TypeOK, vars, db, memory
<1> QED
  BY <1>1, Undisturbed DEF PoolInv, vars, memory

(* A grant may mark running jobs and call their cancel functions.              *)
LEMMA GrantKeeps ==
  ASSUME PoolInv, NEW u \in Updaters, NEW p \in Policies, NEW b \in BOOLEAN,
         PrepareGrants(u, p, b)
  PROVE  PoolInv'
<1> DEFINE hit(w) == \E j \in RunningJobs : running[j].worker = w
           int(w) == [wk[w] EXCEPT !.canceled = @ \/ hit(w)]
<1>1. /\ UNCHANGED <<job, clock, paused, requests, active, running, pending, unsaved,
                     cn, sw, restarts, pulls>>
      /\ draining' = TRUE
      /\ \/ UNCHANGED <<targets, wk>>
         \/ targets' = targets \cup RunningJobs /\ wk' = [w \in Workers |-> int(w)]
  BY DEF PrepareGrants
<1>2. RunningJobs \subseteq Jobs
  BY DEF RunningJobs
<1>3. wk \in [Workers -> Worker] /\ targets \in SUBSET Jobs
  BY DEF PoolInv, TypeOK
<1>4. \A w \in Workers : int(w) \in Worker /\ int(w).pc = wk[w].pc /\ int(w).job = wk[w].job
  <2> TAKE w \in Workers
  <2>1. wk[w] \in Worker /\ hit(w) \in BOOLEAN
    BY <1>3
  <2> HIDE DEF hit
  <2> QED
    BY <2>1 DEF Worker
<1> HIDE DEF int
<1>5. /\ wk' \in [Workers -> Worker] /\ targets' \in SUBSET Jobs
      /\ \A w \in Workers : wk'[w].pc = wk[w].pc /\ wk'[w].job = wk[w].job
  BY <1>1, <1>2, <1>3, <1>4
<1>6. TypeOK'
  BY <1>1, <1>5 DEF PoolInv, TypeOK
<1> QED
  BY <1>1, <1>5, <1>6, Undisturbed DEF PoolInv

(* The requeues that failed are repeated.                                      *)
LEMMA RequeueKeeps ==
  ASSUME PoolInv, NEW S \in SUBSET Jobs, RequeueUnsaved(S)
  PROVE  PoolInv'
<1>1. job' \in [Jobs -> Row]
  BY RequeuedIsRow DEF RequeueUnsaved, PoolInv, TypeOK
<1>2. unsaved' \in [Jobs -> Workers \cup {NoWorker}]
  BY DEF RequeueUnsaved, PoolInv, TypeOK
<1>3. TypeOK'
  BY <1>1, <1>2 DEF RequeueUnsaved, PoolInv, TypeOK
<1> QED
  BY <1>3, Undisturbed DEF RequeueUnsaved, PoolInv

(* The steps of the lease that write the gate or the marks.                    *)
LEMMA GateKeeps ==
  ASSUME PoolInv,
         \/ \E u \in Updaters, p \in Policies : PrepareRollsBack(u, p)
         \/ ClearTargets \/ OpenGate \/ Shutdown
  PROVE  PoolInv'
<1>1. UNCHANGED <<job, clock, paused, requests, active, running, pending, wk, cn, sw,
                  restarts, pulls>>
  BY DEF PrepareRollsBack, ClearTargets, OpenGate, Shutdown, db, memory
<1>2. draining' \in BOOLEAN
  BY DEF PrepareRollsBack, ClearTargets, OpenGate, Shutdown, db, PoolInv, TypeOK
<1>3. targets' \in SUBSET Jobs /\ unsaved' \in [Jobs -> Workers \cup {NoWorker}]
  BY DEF PrepareRollsBack, ClearTargets, OpenGate, Shutdown, memory, PoolInv, TypeOK
<1>4. TypeOK'
  BY <1>1, <1>2, <1>3 DEF PoolInv, TypeOK
<1> QED
  BY <1>1, <1>4, Undisturbed DEF PoolInv

(* Every step of the daemon with its update lease.                             *)
LEMMA DrainStep ==
  ASSUME PoolInv, DNext
  PROVE  PoolInv'
<1>1. CASE \E w \in Workers : WorkerMoves(w)
  <2>1. ASSUME NEW w \in Workers, PoolWorker(w) PROVE PoolInv'
    BY <2>1, WorkerKeeps, InterruptedKeeps DEF PoolWorker
  <2>2. ASSUME NEW w \in Workers, Count(w) \/ Uncount(w) PROVE PoolInv'
    BY <2>2, PoolStutters DEF Count, Uncount
  <2> QED
    BY <1>1, <2>1, <2>2 DEF WorkerMoves
<1>2. CASE \E u \in Updaters :
             PrepareStep(u) \/ UpdaterStep(u) \/ Abandon(u) \/ ReleaseLease(u)
  <2>1. PICK u \in Updaters :
          PrepareStep(u) \/ UpdaterStep(u) \/ Abandon(u) \/ ReleaseLease(u)
    BY <1>2
  <2>2. CASE PrepareStep(u)
    <3>1. ASSUME NEW p \in Policies, PrepareRepeated(u, p) PROVE PoolInv'
      BY <3>1, PoolStutters DEF PrepareRepeated
    <3> QED
      BY <2>2, <3>1, GrantKeeps, GateKeeps DEF PrepareStep
  <2>3. CASE UpdaterShutsDown(u)
    BY <2>3, GateKeeps DEF UpdaterShutsDown
  <2>4. CASE \/ PollSeesDrained(u) \/ PollRefused(u) \/ Abandon(u) \/ ReleaseLease(u)
    BY <2>4, PoolStutters DEF PollSeesDrained, PollRefused, Abandon, ReleaseLease
  <2> QED
    BY <2>1, <2>2, <2>3, <2>4 DEF UpdaterStep
<1>3. CASE ReleaseStep
  <2>1. CASE TimerFires \/ CountTargeted \/ CheckActive \/ ReleaseFails
    BY <2>1, PoolStutters DEF TimerFires, CountTargeted, CheckActive, ReleaseFails
  <2> QED
    BY <1>3, <2>1, RequeueKeeps, GateKeeps DEF ReleaseStep
<1>4. CASE LeaseExpires
  BY <1>4, PoolStutters DEF LeaseExpires
<1>5. CASE Shutdown \/ DRestart
  BY <1>5, GateKeeps, RestartKeeps DEF DRestart
<1> QED
  BY <1>1, <1>2, <1>3, <1>4, <1>5, ClientKeeps, BackoffKeeps, CancelRowKeeps,
     CancelKeeps, SweepKeeps DEF DNext

-------------------------------------------------------------------------------
(* The theorems.                                                               *)

(* The pool's invariant holds under updates and shutdowns too.                 *)
THEOREM DrainKeepsPool == DSpec => []PoolInv
<1>1. DInit => PoolInv
  BY PoolInit DEF DInit
<1>2. PoolInv /\ [DNext]_dvars => PoolInv'
  BY DrainStep, PoolStutters DEF dvars
<1> QED
  BY <1>1, <1>2, PTL DEF DSpec

(* No two workers are at work for one job, whatever updates interrupt, requeue *)
(* and release.                                                                *)
THEOREM DrainOneAgent == DSpec => []OneAgentPerJob
<1>1. PoolInv => OneAgentPerJob
  BY DEF PoolInv, Holds, OneAgentPerJob, Executing
<1> QED
  BY DrainKeepsPool, <1>1, PTL

-------------------------------------------------------------------------------
(* The lease's own variables.                                                  *)

LeaseTyped ==
  /\ counted \in SUBSET Workers
  /\ lease \in Lease
  /\ releasing \in {"no", "requeue", "count", "active", "clear", "open"}
  /\ up \in [Updaters -> Updater]
  /\ stopping \in BOOLEAN
  /\ tokens \in 0 .. MaxLeases

(* The lease a daemon begins with is of its type.                              *)
LEMMA NoLeaseTyped == NoLease \in Lease
  BY DrainAssumption DEF NoLease, Lease, Policies

(* A new lease has the next token; so has the command that is told of it.      *)
LEMMA PrepareTyped ==
  ASSUME LeaseTyped, NEW u \in Updaters, PrepareStep(u)
  PROVE  LeaseTyped'
<1> DEFINE given(p, S, b) == [NoLease EXCEPT !.token = tokens', !.owner = u, !.policy = p,
                                !.targeted = S, !.expired = b, !.recovering = b]
<1>1. NoLease \in Lease
  BY NoLeaseTyped
<1>2. ASSUME NEW p \in Policies, CanPrepare(p) PROVE tokens' \in 0 .. MaxLeases
  BY <1>2, DrainAssumption DEF CanPrepare, LeaseTyped
<1>3. ASSUME NEW p \in Policies, NEW b \in BOOLEAN, PrepareGrants(u, p, b)
      PROVE LeaseTyped'
  <2>1. RunningJobs \in SUBSET Jobs
    BY DEF RunningJobs
  <2>2. tokens' \in 0 .. MaxLeases
    BY <1>2, <1>3 DEF PrepareGrants
  <2>3. lease' \in Lease
    BY <1>1, <1>3, <2>1, <2>2 DEF PrepareGrants, Lease
  <2>4. up' \in [Updaters -> Updater]
    BY <1>3, <2>2 DEF PrepareGrants, LeaseTyped, Updater
  <2> QED
    BY <1>3, <2>2, <2>3, <2>4 DEF PrepareGrants, LeaseTyped
<1>4. ASSUME NEW p \in Policies, PrepareRollsBack(u, p) PROVE LeaseTyped'
  <2>1. tokens' \in 0 .. MaxLeases
    BY <1>2, <1>4 DEF PrepareRollsBack
  <2>2. lease' \in Lease
    BY <1>1, <1>4, <2>1 DEF PrepareRollsBack, Lease
  <2> QED
    BY <1>4, <2>1, <2>2 DEF PrepareRollsBack, LeaseTyped
<1>5. ASSUME NEW p \in Policies, PrepareRepeated(u, p) PROVE LeaseTyped'
  <2>1. lease.token \in 0 .. MaxLeases
    BY DEF LeaseTyped, Lease
  <2>2. up' \in [Updaters -> Updater]
    BY <1>5, <2>1 DEF PrepareRepeated, LeaseTyped, Updater
  <2> QED
    BY <1>5, <2>2 DEF PrepareRepeated, LeaseTyped
<1> QED
  BY <1>3, <1>4, <1>5 DEF PrepareStep

(* The rest of what the update command and the timers do to the lease.         *)
LEMMA ReleaseTyped ==
  ASSUME LeaseTyped,
         \/ \E u \in Updaters : UpdaterStep(u) \/ Abandon(u) \/ ReleaseLease(u)
         \/ LeaseExpires \/ ReleaseStep \/ Shutdown \/ DRestart
  PROVE  LeaseTyped'
<1>1. NoLease \in Lease
  BY NoLeaseTyped
<1>2. /\ [lease EXCEPT !.expired = TRUE] \in Lease
      /\ [lease EXCEPT !.recovering = TRUE] \in Lease
      /\ FirstStep \in {"requeue", "count"}
  BY DEF LeaseTyped, Lease, FirstStep
<1>3. Gone \in Updater
  BY DrainAssumption DEF Gone, Updater
<1>4. ASSUME NEW u \in Updaters, UpdaterStep(u) \/ Abandon(u) \/ ReleaseLease(u)
      PROVE LeaseTyped'
  <2>1. CASE PollSeesDrained(u)
    BY <2>1 DEF PollSeesDrained, LeaseTyped, Updater
  <2>2. CASE PollRefused(u) \/ Abandon(u)
    BY <1>3, <2>2 DEF PollRefused, Abandon, LeaseTyped
  <2>3. CASE UpdaterShutsDown(u)
    BY <1>1, <2>3 DEF UpdaterShutsDown, Shutdown, LeaseTyped
  <2>4. CASE ReleaseLease(u)
    BY <1>2, <1>3, <2>4 DEF ReleaseLease, LeaseTyped
  <2> QED
    BY <1>4, <2>1, <2>2, <2>3, <2>4 DEF UpdaterStep
<1>5. CASE LeaseExpires \/ TimerFires
  BY <1>2, <1>5 DEF LeaseExpires, TimerFires, LeaseTyped
<1>6. CASE \E S \in SUBSET Jobs : RequeueUnsaved(S)
  BY <1>2, <1>6 DEF RequeueUnsaved, Recovering, LeaseTyped
<1>7. CASE CountTargeted \/ CheckActive \/ ReleaseFails
  BY <1>2, <1>7 DEF CountTargeted, CheckActive, ReleaseFails, Recovering, LeaseTyped
<1>8. CASE ClearTargets \/ OpenGate \/ Shutdown \/ DRestart
  BY <1>1, <1>8 DEF ClearTargets, OpenGate, Shutdown, DRestart, LeaseTyped
<1> QED
  BY <1>4, <1>5, <1>6, <1>7, <1>8 DEF ReleaseStep

(* The lease's own variables keep their types.                                 *)
THEOREM DrainLeaseTyped == DSpec => []LeaseTyped
<1>1. DInit => LeaseTyped
  <2> SUFFICES ASSUME DInit PROVE LeaseTyped
    OBVIOUS
  <2>1. NoUpdate \in Updater /\ tokens \in 0 .. MaxLeases
    BY DrainAssumption DEF DInit, NoUpdate, Updater
  <2> QED
    BY NoLeaseTyped, <2>1 DEF DInit, LeaseTyped
<1>2. LeaseTyped /\ [DNext]_dvars => LeaseTyped'
  <2> SUFFICES ASSUME LeaseTyped, [DNext]_dvars PROVE LeaseTyped'
    OBVIOUS
  <2>1. CASE UNCHANGED drain
    BY <2>1 DEF LeaseTyped, drain
  <2>2. CASE \E w \in Workers : WorkerMoves(w)
    <3>1. ASSUME NEW w \in Workers, Count(w) \/ Uncount(w) PROVE LeaseTyped'
      BY <3>1 DEF Count, Uncount, LeaseTyped
    <3> QED
      BY <2>1, <2>2, <3>1 DEF WorkerMoves, PoolWorker
  <2> QED
    BY <2>1, <2>2, PrepareTyped, ReleaseTyped DEF DNext, dvars
<1> QED
  BY <1>1, <1>2, PTL DEF DSpec

(* Type correctness of the drain: the pool's variables and the lease's.        *)
THEOREM DrainTyped == DSpec => []DTypeOK
<1>1. PoolInv /\ LeaseTyped => DTypeOK
  BY DEF PoolInv, LeaseTyped, DTypeOK
<1> QED
  BY <1>1, DrainLeaseTyped, DrainKeepsPool, PTL

-------------------------------------------------------------------------------
(* The marks and the gate.  MarksBehindGate speaks of the gate alone; what     *)
(* makes the gate safe to open is that the marks are gone by then.             *)

NoMarks   == targets = {} /\ \A j \in Jobs : unsaved[j] = NoWorker
GateInv   == /\ NoMarks \/ draining
             /\ releasing = "open" => NoMarks
Unmarked  == UNCHANGED <<targets, unsaved>>

(* Only an attempt that is marked can fail to be requeued.                     *)
LEMMA InterruptedGate ==
  ASSUME TypeOK, GateInv, NEW w \in Workers, InterruptedStep(w), UNCHANGED releasing
  PROVE  GateInv'
<1>1. UNCHANGED draining
  BY DEF InterruptedStep, TransitionInterrupted, TransitionInterruptUnsaved, db
<1>2. CASE TransitionInterrupted(w)
  BY <1>1, <1>2 DEF TransitionInterrupted, GateInv, NoMarks, memory
<1>3. CASE TransitionInterruptUnsaved(w)
  <2>1. targets # {}
    BY <1>3 DEF TransitionInterruptUnsaved, Targeted
  <2> QED
    BY <1>1, <2>1 DEF GateInv, NoMarks
<1> QED
  BY <1>2, <1>3 DEF InterruptedStep

(* The other steps of the pool leave marks and gate alone.                     *)
LEMMA PoolUnmarked ==
  ASSUME \/ ClientStep
         \/ \E j \in Jobs : BackoffElapses(j)
         \/ \E w \in Workers : WorkerStep(w)
         \/ \E c \in Cancelers : \/ \E j \in Jobs, b \in BOOLEAN : CancelRow(c, j, b)
                                 \/ CancelStep(c)
         \/ SweepStep
  PROVE  Unmarked /\ UNCHANGED draining
<1>1. CASE ClientStep
  BY <1>1 DEF ClientStep, Enqueue, Rerun, SetPaused, Unmarked, memory
<1>2. CASE \E j \in Jobs : BackoffElapses(j)
  BY <1>2 DEF BackoffElapses, Unmarked, memory
<1>3. ASSUME NEW w \in Workers, WorkerStep(w) PROVE Unmarked /\ UNCHANGED draining
  <2>1. CASE BeginClaim(w) \/ ClaimJob(w) \/ ClaimNothing(w) \/ StartAttempt(w)
             \/ StartDisplaced(w) \/ StartTimesOut(w) \/ Register(w)
    BY <2>1 DEF BeginClaim, ClaimJob, ClaimNothing, StartAttempt, StartDisplaced,
                StartTimesOut, Register, Unmarked, db, memory
  <2>2. CASE (\E o \in Outcome : AttemptEnds(w, o)) \/ TransitionSkipped(w)
             \/ TransitionBegins(w) \/ TransitionEnds(w) \/ TransitionUnsaved(w)
    BY <2>2 DEF AttemptEnds, TransitionSkipped, TransitionBegins, TransitionEnds,
                TransitionUnsaved, Unmarked, db, memory
  <2>3. CASE FinishRunning(w) \/ ReleaseClaim(w) \/ ReleaseUnsaved(w) \/ FreeAttempt(w)
             \/ LeaveJob(w)
    BY <2>3 DEF FinishRunning, ReleaseClaim, ReleaseUnsaved, FreeAttempt, LeaveJob,
                Unmarked, db, memory
  <2> QED
    BY <1>3, <2>1, <2>2, <2>3 DEF WorkerStep
<1>4. CASE \E c \in Cancelers : \/ \E j \in Jobs, b \in BOOLEAN : CancelRow(c, j, b)
                                \/ CancelStep(c)
  BY <1>4 DEF CancelRow, CancelStep, CancelRegistered, CancelUnregistered, CancelRereads,
     CancelReadFails,
              CancelPending, Unmarked, db, memory
<1>5. CASE SweepStep
  BY <1>5 DEF SweepStep, SweepList, SweepOwned, SweepUnowned, SweepLoad, SweepFail,
              SweepSpare, Unmarked, db, memory
<1> QED
  BY <1>1, <1>2, <1>3, <1>4, <1>5

(* Every step of the lease.                                                    *)
LEMMA LeaseGate ==
  ASSUME GateInv,
         \/ \E u \in Updaters :
              PrepareStep(u) \/ UpdaterStep(u) \/ Abandon(u) \/ ReleaseLease(u)
         \/ LeaseExpires \/ ReleaseStep \/ Shutdown \/ DRestart
  PROVE  GateInv'
<1>1. ASSUME NEW u \in Updaters, PrepareStep(u) PROVE GateInv'
  <2>1. ASSUME NEW p \in Policies, NEW b \in BOOLEAN, PrepareGrants(u, p, b)
        PROVE GateInv'
    BY <2>1 DEF PrepareGrants, CanPrepare, GateInv
  <2>2. ASSUME NEW p \in Policies, PrepareRollsBack(u, p) PROVE GateInv'
    BY <2>2 DEF PrepareRollsBack, CanPrepare, GateInv
  <2>3. ASSUME NEW p \in Policies, PrepareRepeated(u, p) PROVE GateInv'
    BY <2>3 DEF PrepareRepeated, GateInv, NoMarks, vars, db, memory
  <2> QED
    BY <1>1, <2>1, <2>2, <2>3 DEF PrepareStep
<1>2. CASE Shutdown
  BY <1>2 DEF Shutdown, GateInv
<1>3. CASE DRestart
  BY <1>3 DEF DRestart, Restart, GateInv, NoMarks
<1>4. CASE \E S \in SUBSET Jobs : RequeueUnsaved(S)
  BY <1>4 DEF RequeueUnsaved, Recovering, GateInv, NoMarks
<1>5. CASE ClearTargets \/ OpenGate
  BY <1>5 DEF ClearTargets, OpenGate, GateInv, NoMarks, db, memory
<1>6. CASE \/ LeaseExpires \/ TimerFires \/ CountTargeted \/ CheckActive \/ ReleaseFails
           \/ \E u \in Updaters : \/ PollSeesDrained(u) \/ PollRefused(u) \/ Abandon(u)
                                  \/ ReleaseLease(u)
  <2>1. Unmarked /\ UNCHANGED draining
    BY <1>6 DEF LeaseExpires, TimerFires, CountTargeted, CheckActive, ReleaseFails,
                PollSeesDrained, PollRefused, Abandon, ReleaseLease, Unmarked, vars, db, memory
  <2>2. releasing' = "open" => releasing = "open"
    BY <1>6 DEF LeaseExpires, TimerFires, CountTargeted, CheckActive, ReleaseFails, Recovering,
                PollSeesDrained, PollRefused, Abandon, ReleaseLease, FirstStep
  <2> QED
    BY <2>1, <2>2 DEF GateInv, NoMarks, Unmarked
<1> QED
  BY <1>1, <1>2, <1>3, <1>4, <1>5, <1>6 DEF UpdaterStep, UpdaterShutsDown, ReleaseStep

(* The gate is closed while there are marks, which go before it opens.         *)
THEOREM DrainGate == DSpec => []GateInv
<1>1. DInit => GateInv
  BY DEF DInit, Init, GateInv, NoMarks
<1>2. PoolInv /\ GateInv /\ [DNext]_dvars => GateInv'
  <2> SUFFICES ASSUME PoolInv, GateInv, [DNext]_dvars PROVE GateInv'
    OBVIOUS
  <2>1. TypeOK
    BY DEF PoolInv
  <2>2. CASE UNCHANGED dvars
    BY <2>2 DEF GateInv, NoMarks, dvars, vars, memory, db, drain
  <2>3. ASSUME Unmarked, UNCHANGED <<draining, releasing>> PROVE GateInv'
    BY <2>3 DEF GateInv, NoMarks, Unmarked
  <2>4. CASE \E w \in Workers : WorkerMoves(w)
    <3>1. ASSUME NEW w \in Workers, Count(w) \/ Uncount(w) PROVE GateInv'
      BY <3>1, <2>3 DEF Count, Uncount, Unmarked, vars, db, memory
    <3>2. ASSUME NEW w \in Workers, PoolWorker(w) PROVE GateInv'
      BY <2>1, <2>3, <3>2, InterruptedGate, PoolUnmarked DEF PoolWorker, drain
    <3> QED
      BY <2>4, <3>1, <3>2 DEF WorkerMoves
  <2>5. ASSUME UNCHANGED drain,
               \/ ClientStep \/ (\E j \in Jobs : BackoffElapses(j)) \/ SweepStep
               \/ \E c \in Cancelers : \/ \E j \in Jobs, b \in BOOLEAN : CancelRow(c, j, b)
                                       \/ CancelStep(c)
        PROVE GateInv'
    BY <2>3, <2>5, PoolUnmarked DEF drain
  <2> QED
    BY <2>2, <2>4, <2>5, LeaseGate DEF DNext
<1> QED
  BY <1>1, <1>2, DrainKeepsPool, PTL DEF DSpec

(* No mark and no failed requeue outlives the closed gate, whatever updates    *)
(* are granted, expire, are rolled back or recovered.                          *)
THEOREM DrainMarks == DSpec => []MarksBehindGate
<1>1. GateInv => MarksBehindGate
  BY DEF GateInv, NoMarks, MarksBehindGate
<1> QED
  BY <1>1, DrainGate, PTL

-------------------------------------------------------------------------------
(* What a step of the daemon with its lease does to a row and to a worker:     *)
(* what the pool does, or a requeue for an update.                             *)

ByInterrupt(j) ==
  \E w \in Workers :
    /\ OwnedBy(job[j], w) /\ job'[j] = Requeued(job[j])
    /\ \/ wk[w].pc = "check" /\ wk[w].job = j /\ wk'[w].pc \in {"finish", "release"}
       \/ unsaved[j] = w

DRowStep(j) == ByInterrupt(j) \/ (RowStep(j) /\ ~ByPull(j))

(* The steps of the pool itself; it pulls nothing here.                        *)
PoolMoves ==
  \/ ClientStep
  \/ \E j \in Jobs : BackoffElapses(j)
  \/ \E w \in Workers : WorkerStep(w)
  \/ \E c \in Cancelers : \/ \E j \in Jobs, b \in BOOLEAN : CancelRow(c, j, b)
                          \/ CancelStep(c)
  \/ SweepStep

(* What the pool does to a row under the lease, ...                            *)
LEMMA PoolMovesRows ==
  ASSUME PoolInv, PoolMoves \/ Restart, NEW j \in Jobs
  PROVE  DRowStep(j)
<1>1. UNCHANGED pulls
  <2>1. CASE ClientStep \/ (\E i \in Jobs : BackoffElapses(i)) \/ Restart
    BY <2>1 DEF ClientStep, Enqueue, Rerun, SetPaused, BackoffElapses, Restart
  <2>2. CASE \E w \in Workers : WorkerStep(w)
    BY <2>2 DEF WorkerStep, BeginClaim, ClaimJob, ClaimNothing, StartAttempt, StartDisplaced,
      StartTimesOut, Register, AttemptEnds, TransitionSkipped, TransitionBegins, TransitionEnds,
      TransitionUnsaved, FinishRunning, ReleaseClaim, ReleaseUnsaved, FreeAttempt, LeaveJob
  <2>3. CASE \E c \in Cancelers : \/ \E i \in Jobs, b \in BOOLEAN : CancelRow(c, i, b)
                                  \/ CancelStep(c)
    BY <2>3 DEF CancelRow, CancelStep, CancelRegistered, CancelUnregistered, CancelRereads,
       CancelReadFails,
                CancelPending
  <2>4. CASE SweepStep
    BY <2>4 DEF SweepStep, SweepList, SweepOwned, SweepUnowned, SweepLoad, SweepFail, SweepSpare
  <2> QED
    BY <2>1, <2>2, <2>3, <2>4 DEF PoolMoves
<1>2. RowStep(j)
  BY NextRows DEF PoolMoves, Next
<1> QED
  BY <1>1, <1>2 DEF DRowStep, ByPull

(* ... and to a worker; it is what it does without one.                        *)
LEMMA PoolMovesWorkers ==
  ASSUME PoolInv, PoolMoves \/ Restart, NEW w \in Workers
  PROVE  WkStep(w)
BY NextWorkers DEF PoolMoves, Next

(* A worker that requeues for an update moves on; nobody else does.            *)
LEMMA InterruptedMoves ==
  ASSUME PoolInv, NEW v \in Workers, InterruptedStep(v), NEW w \in Workers
  PROVE  IF w = v
         THEN wk[w].pc = "check" /\ wk'[w].pc \in {"finish", "release"} /\ WkMoves(w)
         ELSE wk'[w] = wk[w]
<1>1. wk \in [Workers -> Worker] /\ GoTo(v, AfterTransition(v)) /\ At(v, "check")
  BY DEF InterruptedStep, TransitionInterrupted, TransitionInterruptUnsaved, PoolInv, TypeOK
<1>2. AfterTransition(v) \in {"finish", "release"}
  BY DEF AfterTransition
<1> HIDE DEF AfterTransition
<1>3. CASE w = v
  BY <1>1, <1>2, <1>3 DEF At, GoTo, Worker, WkMoves, Engaged, WorkerPC
<1>4. CASE w # v
  BY <1>1, <1>4 DEF GoTo
<1> QED
  BY <1>3, <1>4

(* An interrupted worker's row is requeued or left alone.                      *)
LEMMA InterruptedRows ==
  ASSUME PoolInv, NEW v \in Workers, InterruptedStep(v), NEW j \in Jobs
  PROVE  DRowStep(j)
<1>1. job \in [Jobs -> Row] /\ clock \in Nat
  BY DEF PoolInv, TypeOK
<1>2. CASE TransitionInterruptUnsaved(v)
  BY <1>2, RowsStay DEF TransitionInterruptUnsaved, db, DRowStep, ByPull
<1>3. CASE TransitionInterrupted(v)
  <2>1. CASE wk[v].job = j
    <3>1. OwnedBy(job[j], v) /\ job'[j] = Requeued(job[j])
      BY <1>1, <1>3, <2>1 DEF TransitionInterrupted, Interrupted
    <3> QED
      BY <2>1, <3>1, InterruptedMoves DEF DRowStep, ByInterrupt
  <2>2. CASE wk[v].job # j
    <3>1. job'[j] = job[j] /\ UNCHANGED <<clock, pulls>>
      BY <1>1, <1>3, <2>2 DEF TransitionInterrupted
    <3> QED
      BY <1>1, <3>1 DEF DRowStep, RowStep, ByPull
  <2> QED
    BY <2>1, <2>2
<1> QED
  BY <1>2, <1>3 DEF InterruptedStep

(* The lease writes no row but in a repeated requeue.                          *)
LeaseMoves ==
  \/ \E u \in Updaters : PrepareStep(u) \/ UpdaterStep(u) \/ Abandon(u) \/ ReleaseLease(u)
  \/ LeaseExpires \/ ReleaseStep \/ Shutdown
  \/ \E w \in Workers : Count(w) \/ Uncount(w)

(* What the update command and the lease do to a row, ...                      *)
LEMMA LeaseMovesRows ==
  ASSUME PoolInv, LeaseMoves, NEW j \in Jobs
  PROVE  DRowStep(j)
<1>1. job \in [Jobs -> Row] /\ clock \in Nat /\ unsaved[j] \in Workers \cup {NoWorker}
  BY DEF PoolInv, TypeOK
<1>2. ASSUME NEW S \in SUBSET Jobs, RequeueUnsaved(S) PROVE DRowStep(j)
  <2>1. CASE j \in S /\ OwnedBy(job[j], unsaved[j])
    <3>1. job'[j] = Requeued(job[j]) /\ unsaved[j] \in Workers
      BY <1>1, <1>2, <2>1 DEF RequeueUnsaved
    <3> QED
      BY <2>1, <3>1 DEF DRowStep, ByInterrupt
  <2>2. CASE ~(j \in S /\ OwnedBy(job[j], unsaved[j]))
    <3>1. job'[j] = job[j] /\ UNCHANGED <<clock, pulls>>
      BY <1>2, <2>2 DEF RequeueUnsaved
    <3> QED
      BY <1>1, <3>1 DEF DRowStep, RowStep, ByPull
  <2> QED
    BY <2>1, <2>2
<1>3. UNCHANGED <<job, clock, pulls>> => DRowStep(j)
  BY RowsStay DEF DRowStep, ByPull
<1>4. ASSUME NEW u \in Updaters, PrepareStep(u) PROVE DRowStep(j)
  BY <1>3, <1>4 DEF PrepareStep, PrepareGrants, PrepareRollsBack, PrepareRepeated, vars, db
<1>5. ASSUME NEW u \in Updaters, UpdaterStep(u) \/ Abandon(u) \/ ReleaseLease(u)
      PROVE  DRowStep(j)
  BY <1>3, <1>5 DEF UpdaterStep, PollSeesDrained, PollRefused, UpdaterShutsDown, Shutdown,
                    Abandon, ReleaseLease, vars, db
<1>6. CASE LeaseExpires \/ Shutdown \/ \E w \in Workers : Count(w) \/ Uncount(w)
  BY <1>3, <1>6 DEF LeaseExpires, Shutdown, Count, Uncount, vars, db
<1>7. CASE TimerFires \/ CountTargeted \/ CheckActive \/ ClearTargets \/ OpenGate \/ ReleaseFails
  BY <1>3, <1>7 DEF TimerFires, CountTargeted, CheckActive, ClearTargets, OpenGate,
                    ReleaseFails, vars, db
<1> QED
  BY <1>2, <1>4, <1>5, <1>6, <1>7 DEF LeaseMoves, ReleaseStep

(* ... and to a worker: they move none.                                        *)
LEMMA LeaseMovesWorkers ==
  ASSUME PoolInv, LeaseMoves, NEW w \in Workers
  PROVE  WkKept(w)
<1>1. wk \in [Workers -> Worker] /\ wk[w] \in Worker
  BY DEF PoolInv, TypeOK
<1>2. UNCHANGED wk => WkKept(w)
  BY DEF WkKept
<1>3. ASSUME NEW u \in Updaters, NEW p \in Policies, NEW b \in BOOLEAN,
             PrepareGrants(u, p, b), p = "interrupt"
      PROVE  WkKept(w)
  <2>1. wk'[w] = [wk[w] EXCEPT !.canceled =
                     wk[w].canceled \/ \E j \in RunningJobs : running[j].worker = w]
    BY <1>3 DEF PrepareGrants
  <2> QED
    BY <1>1, <2>1 DEF WkKept, Worker
<1>4. ASSUME NEW u \in Updaters, PrepareStep(u) PROVE WkKept(w)
  BY <1>2, <1>3, <1>4 DEF PrepareStep, PrepareGrants, PrepareRollsBack, PrepareRepeated, vars
<1>5. ASSUME NEW u \in Updaters, UpdaterStep(u) \/ Abandon(u) \/ ReleaseLease(u)
      PROVE  UNCHANGED wk
  BY <1>5 DEF UpdaterStep, PollSeesDrained, PollRefused, UpdaterShutsDown, Shutdown, Abandon,
              ReleaseLease, vars
<1>6. CASE LeaseExpires \/ Shutdown \/ \E v \in Workers : Count(v) \/ Uncount(v)
  BY <1>2, <1>6 DEF LeaseExpires, Shutdown, Count, Uncount, vars
<1>7. CASE ReleaseStep
  BY <1>2, <1>7 DEF ReleaseStep, TimerFires, RequeueUnsaved, CountTargeted, CheckActive,
                    ClearTargets, OpenGate, ReleaseFails, vars
<1> QED
  BY <1>2, <1>4, <1>5, <1>6, <1>7 DEF LeaseMoves

(* Every step is one of the pool, one of the lease, or an interrupted worker.  *)
LEMMA DNextSplits ==
  ASSUME DNext
  PROVE  \/ PoolMoves /\ UNCHANGED drain
         \/ DRestart
         \/ LeaseMoves
         \/ (\E v \in Workers : InterruptedStep(v)) /\ UNCHANGED drain
<1>1. ASSUME NEW w \in Workers, WorkerMoves(w)
      PROVE  \/ WorkerStep(w) /\ UNCHANGED drain
             \/ InterruptedStep(w) /\ UNCHANGED drain
             \/ Count(w) \/ Uncount(w)
  BY <1>1 DEF WorkerMoves, PoolWorker
<1> QED
  BY <1>1 DEF DNext, PoolMoves, LeaseMoves, DRestart

(* Every step is one of those for a row, ...                                   *)
LEMMA DNextRows ==
  ASSUME PoolInv, DNext, NEW j \in Jobs
  PROVE  DRowStep(j)
BY DNextSplits, PoolMovesRows, LeaseMovesRows, InterruptedRows DEF DRestart

(* ... and one of those for a worker.                                          *)
LEMMA DNextWorkers ==
  ASSUME PoolInv, DNext, NEW w \in Workers
  PROVE  WkStep(w)
<1>1. CASE LeaseMoves
  BY <1>1, LeaseMovesWorkers DEF WkStep
<1>2. ASSUME NEW v \in Workers, InterruptedStep(v) PROVE WkStep(w)
  BY <1>2, InterruptedMoves DEF WkStep, WkKept
<1> QED
  BY <1>1, <1>2, DNextSplits, PoolMovesWorkers DEF DRestart

-------------------------------------------------------------------------------
(* The invariant of the drain.  Until a worker is done with its transition the *)
(* row is the one it claimed, and no requeue of it is outstanding; a           *)
(* transition under way is not interrupted any more; a worker past the first   *)
(* moments of its claim is counted.                                            *)

Early == {"claimed", "started", "run", "check", "act"}

Resting == \A w \in Workers : wk[w].pc \in {"idle", "claiming"} => wk[w].job = NoJob

ClaimStands(w) ==
  /\ job[wk[w].job].status \in {"running", "canceled"}
  /\ job[wk[w].job].worker = w
  /\ unsaved[wk[w].job] # w

Claims == \A w \in Workers : wk[w].pc \in Early => ClaimStands(w)

ActSpared ==
  \A w \in Workers : At(w, "act") /\ Targeted(w) => job[wk[w].job].status = "canceled"

AllCounted ==
  \A w \in Workers : wk[w].pc \in Engaged \ {"claimed"} => w \in counted

(* Who a failed requeue may be recorded for.                                   *)
LEMMA DNextUnsaved ==
  ASSUME PoolInv, DNext, NEW j \in Jobs
  PROVE  \/ unsaved'[j] = unsaved[j]
         \/ unsaved'[j] = NoWorker
         \/ \E v \in Workers : /\ unsaved'[j] = v /\ wk[v].pc = "check"
                              /\ wk'[v].pc \in {"finish", "release"}
<1>1. unsaved \in [Jobs -> Workers \cup {NoWorker}]
  BY DEF PoolInv, TypeOK
<1>2. CASE PoolMoves \/ DRestart
  BY <1>2, PoolUnmarked DEF PoolMoves, Unmarked, DRestart, Restart
<1>3. ASSUME NEW v \in Workers, InterruptedStep(v)
      PROVE  \/ unsaved'[j] = unsaved[j]
             \/ /\ unsaved'[j] = v /\ wk[v].pc = "check"
                /\ wk'[v].pc \in {"finish", "release"}
  BY <1>1, <1>3, InterruptedMoves
     DEF InterruptedStep, TransitionInterrupted, TransitionInterruptUnsaved, memory
<1>4. CASE LeaseMoves
  <2>1. ASSUME NEW u \in Updaters,
               PrepareStep(u) \/ UpdaterStep(u) \/ Abandon(u) \/ ReleaseLease(u)
        PROVE  UNCHANGED unsaved
    BY <2>1 DEF PrepareStep, PrepareGrants, PrepareRollsBack, PrepareRepeated, UpdaterStep,
                PollSeesDrained, PollRefused, UpdaterShutsDown, Shutdown, Abandon, ReleaseLease,
                vars, memory
  <2>2. CASE LeaseExpires \/ Shutdown \/ \E w \in Workers : Count(w) \/ Uncount(w)
    BY <2>2 DEF LeaseExpires, Shutdown, Count, Uncount, vars, memory
  <2>3. CASE ReleaseStep
    BY <2>3 DEF ReleaseStep, TimerFires, RequeueUnsaved, CountTargeted, CheckActive,
                ClearTargets, OpenGate, ReleaseFails, vars, memory
  <2> QED
    BY <1>4, <2>1, <2>2, <2>3 DEF LeaseMoves
<1> QED
  BY <1>2, <1>3, <1>4, DNextSplits

(* No row begins to run behind the closed gate.                                *)
LEMMA NothingStarts ==
  ASSUME PoolInv, DNext, draining, NEW j \in Jobs, job'[j].status = "running"
  PROVE  job[j].status = "running"
<1>1. DRowStep(j) /\ job[j] \in Row
  BY DNextRows DEF PoolInv, TypeOK
<1>2. ~ByInterrupt(j) /\ ~ByClient(j)
  BY <1>1 DEF ByInterrupt, ByClient, Requeued, Reenqueued, Inserted, Absent, Row
<1>3. ~ByClaim(j)
  BY DEF ByClaim, GateOpen
<1>4. CASE ByOutcome(j)
  BY <1>4, OutcomeEnds DEF ByOutcome
<1>5. ~ByRelease(j) /\ ~ByCancel(j) /\ ~BySweep(j) /\ ~ByRestart(j)
  BY <1>1 DEF ByRelease, CanRelease, Released, ByCancel, Canceled, BySweep, Failed, ByRestart,
              ResetStale, Requeued, Row
<1>6. CASE ByBackoff(j)
  BY <1>1, <1>6 DEF ByBackoff, Row
<1> QED
  BY <1>1, <1>2, <1>3, <1>4, <1>5, <1>6 DEF DRowStep, RowStep

(* A worker that stays early keeps its claim ...                               *)
LEMMA EarlyKept ==
  ASSUME PoolInv, Claims, DNext, NEW w \in Workers,
         wk[w].pc \in Early, wk'[w].pc \in Early, wk'[w].job = wk[w].job
  PROVE  ClaimStands(w)'
<1> DEFINE j == wk[w].job
<1>1. /\ j \in Jobs /\ job[j] \in Row /\ w # NoWorker
      /\ job[j].status \in {"running", "canceled"} /\ job[j].worker = w /\ unsaved[j] # w
  BY OnJob DEF Claims, ClaimStands, Early, Engaged, WorkerPC
<1>2. \A v \in Workers : wk[v].pc \in Early /\ wk[v].job = j => v = w
  BY <1>1 DEF Claims, ClaimStands
<1>3. unsaved'[j] # w
  BY <1>1, DNextUnsaved DEF Early
<1>4. DRowStep(j)
  BY <1>1, DNextRows
<1>5. ~ByInterrupt(j)
  BY <1>1 DEF ByInterrupt, OwnedBy, Early
<1>6. ~ByClient(j) /\ ~ByClaim(j)
  BY <1>1 DEF ByClient, CanRerun, CanReenqueue, ByClaim, Eligible
<1>7. CASE ByOutcome(j)
  <2>1. wk[w].pc = "act" /\ wk'[w].pc # "act"
    BY <1>2, <1>7 DEF ByOutcome, Early
  <2>2. wk'[w].pc \notin Early
    BY <2>1, DNextWorkers, OnJob DEF WkStep, WkKept, WkMoves, WkClaims, ClaimJob, StartAttempt,
       Register, TransitionBegins, At, Early
  <2> QED
    BY <2>2
<1>8. ~ByRelease(j) /\ ~BySweep(j)
  BY <1>1 DEF ByRelease, CanRelease, BySweep, OwnedBy, Owns, Early
<1>9. ~ByRestart(j)
  BY DEF ByRestart, Restart, Idle, Early
<1>10. CASE ByBackoff(j) \/ ByCancel(j) \/ job'[j] = job[j]
  <2>1. job'[j].status \in {"running", "canceled"} /\ job'[j].worker = w
    BY <1>1, <1>10 DEF ByBackoff, ByCancel, Canceled, Row
  <2> QED
    BY <1>3, <2>1 DEF ClaimStands
<1> QED
  BY <1>4, <1>5, <1>6, <1>7, <1>8, <1>9, <1>10 DEF DRowStep, RowStep

(* ... and who is early after a step was so before, or has just claimed.       *)
LEMMA ComesEarly ==
  ASSUME PoolInv, DNext, NEW w \in Workers, wk'[w].pc \in Early
  PROVE  \/ wk[w].pc \in Early /\ wk'[w].job = wk[w].job
         \/ ClaimJob(w)
<1>1. WkStep(w) /\ wk \in [Workers -> Worker]
  BY DNextWorkers, OnJob
<1>2. CASE WkKept(w) \/ WkMoves(w)
  BY <1>2 DEF WkKept, WkMoves, Early
<1>3. CASE StartAttempt(w) \/ Register(w)
  BY <1>1, <1>3 DEF StartAttempt, Register, At, Worker, Early
<1>4. CASE TransitionBegins(w)
  BY <1>1, <1>4 DEF TransitionBegins, At, GoTo, Worker, Early
<1> QED
  BY <1>1, <1>2, <1>3, <1>4 DEF WkStep, WkClaims, Early

(* A claim is granted while nothing is marked.                                 *)
LEMMA ClaimStarts ==
  ASSUME PoolInv, GateInv, NEW w \in Workers, ClaimJob(w)
  PROVE  ClaimStands(w)'
<1>1. wk \in [Workers -> Worker] /\ job \in [Jobs -> Row] /\ w # NoWorker
  BY OnJob DEF PoolInv, TypeOK
<1>2. PICK j \in Jobs :
        /\ job' = [job EXCEPT ![j] = Claimed(job, j, w, clock + 1)]
        /\ wk' = [wk EXCEPT ![w] = [Idle EXCEPT !.pc = "claimed", !.job = j,
                                      !.started = clock + 1, !.enq = job[j].enq]]
  BY DEF ClaimJob
<1>3. wk'[w].job = j
  BY <1>1, <1>2 DEF Idle
<1>4. job'[j].status = "running" /\ job'[j].worker = w
  BY <1>1, <1>2 DEF Claimed, Row
<1>5. unsaved'[j] = NoWorker
  BY DEF ClaimJob, GateOpen, GateInv, NoMarks, memory
<1> QED
  BY <1>1, <1>3, <1>4, <1>5 DEF ClaimStands

(* Every step keeps what the claims of the workers say of the rows.            *)
LEMMA ClaimsKept ==
  ASSUME PoolInv, GateInv, Claims, DNext
  PROVE  Claims'
BY EarlyKept, ComesEarly, ClaimStarts DEF Claims

(* A worker without a claim has no job.                                        *)
LEMMA RestingKept ==
  ASSUME PoolInv, Resting, DNext
  PROVE  Resting'
<1> SUFFICES ASSUME NEW w \in Workers, wk'[w].pc \in {"idle", "claiming"}
             PROVE  wk'[w].job = NoJob
  BY DEF Resting
<1>1. WkStep(w) /\ wk \in [Workers -> Worker]
  BY DNextWorkers, OnJob
<1>2. ~WkMoves(w) /\ ~WkClaims(w)
  BY DEF WkMoves, WkClaims
<1>3. ~StartAttempt(w) /\ ~Register(w) /\ ~TransitionBegins(w)
  BY <1>1 DEF StartAttempt, Register, TransitionBegins, GoTo, Worker
<1>4. CASE WkKept(w)
  BY <1>4 DEF WkKept, Resting
<1> QED
  BY <1>1, <1>2, <1>3, <1>4 DEF WkStep, Resting

(* Marks are set while no transition is under way.                             *)
LEMMA NewMarks ==
  ASSUME PoolInv, DNext
  PROVE  targets' \subseteq targets \/ (NoTransition /\ \A w \in Workers : WkKept(w))
<1>1. CASE PoolMoves \/ DRestart
  BY <1>1, PoolUnmarked DEF PoolMoves, Unmarked, DRestart, Restart
<1>2. CASE \E v \in Workers : InterruptedStep(v)
  BY <1>2 DEF InterruptedStep, TransitionInterrupted, TransitionInterruptUnsaved, memory
<1>3. CASE LeaseMoves
  <2>1. ASSUME NEW u \in Updaters, NEW p \in Policies, NEW b \in BOOLEAN, PrepareGrants(u, p, b)
        PROVE  targets' \subseteq targets \/ NoTransition
    BY <2>1 DEF PrepareGrants, CanPrepare
  <2>2. ASSUME NEW u \in Updaters, NEW p \in Policies,
               PrepareRollsBack(u, p) \/ PrepareRepeated(u, p)
        PROVE  UNCHANGED targets
    BY <2>2 DEF PrepareRollsBack, PrepareRepeated, vars, memory
  <2>3. ASSUME NEW u \in Updaters, UpdaterStep(u) \/ Abandon(u) \/ ReleaseLease(u)
        PROVE  UNCHANGED targets
    BY <2>3 DEF UpdaterStep, PollSeesDrained, PollRefused, UpdaterShutsDown, Shutdown, Abandon,
                ReleaseLease, vars, memory
  <2>4. CASE LeaseExpires \/ Shutdown \/ \E w \in Workers : Count(w) \/ Uncount(w)
    BY <2>4 DEF LeaseExpires, Shutdown, Count, Uncount, vars, memory
  <2>5. CASE ReleaseStep
    BY <2>5 DEF ReleaseStep, TimerFires, RequeueUnsaved, CountTargeted, CheckActive,
                ClearTargets, OpenGate, ReleaseFails, vars, memory
  <2>6. targets' \subseteq targets \/ NoTransition
    BY <1>3, <2>1, <2>2, <2>3, <2>4, <2>5 DEF LeaseMoves, PrepareStep
  <2> QED
    BY <1>3, <2>6, LeaseMovesWorkers
<1> QED
  BY <1>1, <1>2, <1>3, DNextSplits

(* A transition that began for a marked job found it canceled, and none is     *)
(* overtaken by the marks.                                                     *)
LEMMA ActSparedKept ==
  ASSUME PoolInv, GateInv, Claims, ActSpared, DNext
  PROVE  ActSpared'
<1> SUFFICES ASSUME NEW w \in Workers, wk'[w].pc = "act", wk'[w].job \in targets'
             PROVE  job'[wk'[w].job].status = "canceled"
  BY DEF ActSpared, At, Targeted
<1>1. wk \in [Workers -> Worker] /\ WkStep(w)
  BY DNextWorkers, OnJob
<1>2. ClaimStands(w)'
  BY ClaimsKept DEF Claims, Early
<1>3. CASE TransitionBegins(w)
  <2>1. /\ wk[w].pc = "check" /\ wk'[w].job = wk[w].job /\ UNCHANGED <<job, targets>>
        /\ ~Interrupted(w)
    BY <1>1, <1>3 DEF TransitionBegins, At, GoTo, Worker, db, memory
  <2> QED
    BY <2>1 DEF Interrupted, Targeted, OwnedBy, Claims, ClaimStands, Early
<1>4. CASE WkKept(w)
  <2>1. wk[w].pc = "act" /\ wk'[w].job = wk[w].job /\ ~NoTransition
    BY <1>4 DEF WkKept, NoTransition, InTransition
  <2>2. wk[w].job \in targets /\ wk[w].job \in Jobs
    BY <2>1, NewMarks, OnJob DEF Engaged, WorkerPC
  <2>3. job[wk[w].job].status = "canceled" /\ draining
    BY <2>1, <2>2 DEF ActSpared, At, Targeted, GateInv, NoMarks
  <2>4. job'[wk[w].job].status # "running"
    BY <2>2, <2>3, NothingStarts
  <2> QED
    BY <1>2, <2>1, <2>4 DEF ClaimStands
<1>5. ~WkMoves(w) /\ ~WkClaims(w) /\ ~StartAttempt(w) /\ ~Register(w)
  BY <1>1 DEF WkMoves, WkClaims, StartAttempt, Register, Worker
<1> QED
  BY <1>1, <1>3, <1>4, <1>5 DEF WkStep

(* A worker is counted before it goes on, and until it has left its job.       *)
LEMMA CountedKept ==
  ASSUME PoolInv, AllCounted, DNext
  PROVE  AllCounted'
<1> SUFFICES ASSUME NEW w \in Workers, wk'[w].pc \in Engaged \ {"claimed"}
             PROVE  w \in counted'
  BY DEF AllCounted
<1>1. wk \in [Workers -> Worker] /\ WkStep(w)
  BY DNextWorkers, OnJob
<1>2. wk[w].pc \in Engaged
  <2>1. CASE WkKept(w) \/ WkMoves(w)
    BY <2>1 DEF WkKept, WkMoves
  <2>2. CASE StartAttempt(w) \/ Register(w) \/ TransitionBegins(w)
    BY <2>2 DEF StartAttempt, Register, TransitionBegins, At, Engaged, WorkerPC
  <2>3. ~WkClaims(w) /\ wk'[w].pc \notin {"idle", "claiming"}
    BY DEF WkClaims, Engaged
  <2> QED
    BY <1>1, <2>1, <2>2, <2>3 DEF WkStep
<1>3. ~DRestart
  BY DEF DRestart, Restart, Idle, Engaged
<1>4. w \in counted => w \in counted'
  <2>1. ASSUME NEW v \in Workers, Uncount(v) PROVE w \in counted => w \in counted'
    BY <1>2, <2>1 DEF Uncount, At, Engaged
  <2>2. ASSUME NEW v \in Workers, Count(v) PROVE w \in counted => w \in counted'
    BY <2>2 DEF Count
  <2>3. ASSUME NEW u \in Updaters,
               PrepareStep(u) \/ UpdaterStep(u) \/ Abandon(u) \/ ReleaseLease(u)
        PROVE  UNCHANGED counted
    BY <2>3 DEF PrepareStep, PrepareGrants, PrepareRollsBack, PrepareRepeated, UpdaterStep,
                PollSeesDrained, PollRefused, UpdaterShutsDown, Shutdown, Abandon, ReleaseLease
  <2>4. CASE LeaseExpires \/ Shutdown
    BY <2>4 DEF LeaseExpires, Shutdown
  <2>5. CASE ReleaseStep
    BY <2>5 DEF ReleaseStep, TimerFires, RequeueUnsaved, CountTargeted, CheckActive,
                ClearTargets, OpenGate, ReleaseFails
  <2> QED
    BY <1>3, <2>1, <2>2, <2>3, <2>4, <2>5, DNextSplits DEF LeaseMoves, drain
<1>5. CASE wk[w].pc # "claimed"
  BY <1>2, <1>4, <1>5 DEF AllCounted
<1>6. CASE wk[w].pc = "claimed"
  <2>1. ~WkKept(w)
    BY <1>6 DEF WkKept
  <2>2. ASSUME NEW v \in Workers, WorkerStep(v), v # w PROVE FALSE
    BY <2>1, <2>2, OthersStep DEF WkKept
  <2>3. ASSUME NEW v \in Workers, InterruptedStep(v) PROVE FALSE
    <3>1. v # w
      BY <1>6, <2>3, InterruptedMoves
    <3> QED
      BY <2>1, <2>3, <3>1, InterruptedMoves DEF WkKept
  <2>4. ~LeaseMoves
    BY <2>1, LeaseMovesWorkers
  <2>5. CASE \E v \in Workers : WorkerMoves(v)
    BY <1>4, <1>6, <2>2, <2>3, <2>4, <2>5 DEF WorkerMoves, PoolWorker, At, LeaseMoves
  <2>6. CASE ~\E v \in Workers : WorkerMoves(v)
    <3>1. CASE ClientStep \/ (\E j \in Jobs : BackoffElapses(j)) \/ SweepStep
      BY <2>1, <3>1 DEF ClientStep, Enqueue, Rerun, SetPaused, BackoffElapses, SweepStep,
         SweepList, SweepOwned, SweepUnowned, SweepLoad, SweepFail, SweepSpare, WkKept
    <3>2. ASSUME NEW c \in Cancelers, NEW j \in Jobs, NEW b \in BOOLEAN, CancelRow(c, j, b)
          PROVE  FALSE
      BY <2>1, <3>2 DEF CancelRow, WkKept
    <3>3. ASSUME NEW c \in Cancelers, CancelStep(c) PROVE FALSE
      <4>1. UNCHANGED wk \/ \E v : wk' = Interrupt(v)
        BY <3>3 DEF CancelStep, CancelRegistered, CancelUnregistered, CancelRereads, CancelReadFails, CancelPending
      <4> QED
        BY <1>1, <2>1, <4>1 DEF Interrupt, Worker, WkKept
    <3> QED
      BY <1>3, <2>4, <2>6, <3>1, <3>2, <3>3 DEF DNext, LeaseMoves
  <2> QED
    BY <2>5, <2>6
<1> QED
  BY <1>5, <1>6

-------------------------------------------------------------------------------
(* The lease over time.  Its token is new, the gate is closed as long as there *)
(* is one, and a lease that is held covers every running job: what runs was    *)
(* running when it was granted.                                                *)

Tokens == lease.token <= tokens /\ \A u \in Updaters : up[u].token <= tokens

Covers ==
  /\ lease.token # 0 => draining
  /\ Held => RunningJobs \subseteq lease.targeted

(* A lease is held from its grant until it expires or is given back.           *)
LEMMA HeldStep ==
  ASSUME LeaseTyped, DNext, Held'
  PROVE  \/ /\ Held /\ lease'.token = lease.token
            /\ lease'.policy = lease.policy /\ lease'.targeted = lease.targeted
         \/ \E u \in Updaters, p \in Policies, b \in BOOLEAN : PrepareGrants(u, p, b)
<1>1. UNCHANGED lease =>
        /\ Held /\ lease'.token = lease.token
        /\ lease'.policy = lease.policy /\ lease'.targeted = lease.targeted
  BY DEF Held
<1>2. ASSUME NEW u \in Updaters, NEW p \in Policies, PrepareRollsBack(u, p) PROVE FALSE
  <2>1. lease'.expired
    BY <1>2 DEF PrepareRollsBack, NoLease
  <2> QED
    BY <2>1 DEF Held
<1>3. ASSUME NEW u \in Updaters, NEW p \in Policies, PrepareRepeated(u, p)
      PROVE  UNCHANGED lease
  BY <1>3 DEF PrepareRepeated
<1>4. ASSUME lease' = NoLease PROVE FALSE
  BY <1>4 DEF NoLease, Held
<1>5. ASSUME NEW u \in Updaters, UpdaterStep(u) \/ Abandon(u) PROVE UNCHANGED lease
  BY <1>4, <1>5 DEF UpdaterStep, PollSeesDrained, PollRefused, UpdaterShutsDown, Shutdown, Abandon
<1>6. CASE lease' = [lease EXCEPT !.expired = TRUE] \/ lease' = [lease EXCEPT !.recovering = TRUE]
  <2>1. /\ lease'.token = lease.token /\ lease'.policy = lease.policy
        /\ lease'.targeted = lease.targeted
        /\ lease.expired => lease'.expired
        /\ lease.recovering => lease'.recovering
    BY <1>6 DEF LeaseTyped, Lease
  <2> QED
    BY <2>1 DEF Held
<1>7. CASE ReleaseStep
  BY <1>1, <1>4, <1>6, <1>7 DEF ReleaseStep, TimerFires, RequeueUnsaved, CountTargeted,
                                CheckActive, ClearTargets, OpenGate, ReleaseFails, Recovering
<1>8. CASE LeaseExpires \/ Shutdown \/ DRestart \/ \E w \in Workers : Count(w) \/ Uncount(w)
  BY <1>1, <1>4, <1>6, <1>8 DEF LeaseExpires, Shutdown, DRestart, Count, Uncount
<1>9. ASSUME NEW u \in Updaters, ReleaseLease(u) PROVE lease' = [lease EXCEPT !.expired = TRUE]
  BY <1>9 DEF ReleaseLease
<1> QED
  BY <1>1, <1>2, <1>3, <1>5, <1>6, <1>7, <1>8, <1>9, DNextSplits DEF LeaseMoves, PrepareStep, drain

(* The gate is closed when a lease is granted, and opened when it goes.        *)
LEMMA LeaseClosesGate ==
  ASSUME LeaseTyped, DNext, lease.token # 0 => draining, lease'.token # 0
  PROVE  draining'
<1>1. lease' # NoLease
  BY DEF NoLease
<1>2. CASE PoolMoves /\ UNCHANGED drain
  BY <1>2, PoolUnmarked DEF PoolMoves, drain
<1>3. ASSUME NEW v \in Workers, InterruptedStep(v), UNCHANGED drain PROVE draining'
  BY <1>3 DEF InterruptedStep, TransitionInterrupted, TransitionInterruptUnsaved, db, drain
<1>4. ASSUME NEW u \in Updaters, PrepareStep(u) PROVE draining'
  BY <1>4 DEF PrepareStep, PrepareGrants, PrepareRollsBack, PrepareRepeated, Held, vars, db
<1>5. ASSUME NEW u \in Updaters, UpdaterStep(u) \/ Abandon(u) PROVE draining'
  BY <1>1, <1>5 DEF UpdaterStep, PollSeesDrained, PollRefused, UpdaterShutsDown, Shutdown, Abandon,
                    vars, db
<1>6. CASE \/ LeaseExpires \/ \E u \in Updaters : ReleaseLease(u)
  <2>1. UNCHANGED draining /\ lease'.token = lease.token
    BY <1>6 DEF LeaseExpires, ReleaseLease, LeaseTyped, Lease, vars, db
  <2> QED
    BY <2>1
<1>7. CASE \E S \in SUBSET Jobs : RequeueUnsaved(S)
  <2>1. UNCHANGED draining /\ lease'.token = lease.token
    BY <1>7 DEF RequeueUnsaved, Recovering, LeaseTyped, Lease
  <2> QED
    BY <2>1
<1>8. CASE TimerFires \/ CountTargeted \/ CheckActive \/ ClearTargets \/ ReleaseFails
  <2>1. UNCHANGED draining /\ lease'.token = lease.token
    BY <1>8 DEF TimerFires, CountTargeted, CheckActive, ClearTargets, ReleaseFails, Recovering,
                LeaseTyped, Lease, vars, db
  <2> QED
    BY <2>1
<1>9. ASSUME OpenGate \/ Shutdown \/ DRestart PROVE FALSE
  BY <1>1, <1>9 DEF OpenGate, Shutdown, DRestart
<1>10. ASSUME NEW w \in Workers, Count(w) \/ Uncount(w) PROVE draining'
  BY <1>10 DEF Count, Uncount, vars, db
<1> QED
  BY <1>2, <1>3, <1>4, <1>5, <1>6, <1>7, <1>8, <1>9, <1>10, DNextSplits DEF LeaseMoves, ReleaseStep

(* The running jobs are those the lease was granted over, or fewer.            *)
LEMMA CoversKept ==
  ASSUME PoolInv, LeaseTyped, Covers, DNext
  PROVE  Covers'
<1>1. lease'.token # 0 => draining'
  BY LeaseClosesGate DEF Covers
<1>2. ASSUME Held' PROVE RunningJobs' \subseteq lease'.targeted
  <2>1. ASSUME Held, lease'.targeted = lease.targeted PROVE RunningJobs' \subseteq lease'.targeted
    <3>1. draining /\ RunningJobs \subseteq lease.targeted
      BY <2>1 DEF Covers, Held
    <3> QED
      BY <2>1, <3>1, NothingStarts DEF RunningJobs
  <2>2. ASSUME NEW u \in Updaters, NEW p \in Policies, NEW b \in BOOLEAN, PrepareGrants(u, p, b)
        PROVE  RunningJobs' \subseteq lease'.targeted
    <3>1. lease'.targeted = RunningJobs /\ UNCHANGED job
      BY <2>2 DEF PrepareGrants, NoLease
    <3> QED
      BY <3>1 DEF RunningJobs
  <2> QED
    BY <1>2, <2>1, <2>2, HeldStep
<1> QED
  BY <1>1, <1>2 DEF Covers

(* What an update command waits for, and what then holds as long as its lease. *)
Quiet ==
  /\ RunningJobs = {}
  /\ lease.policy = "interrupt" =>
       \A w \in Workers :
         /\ wk[w].pc \in {"finish", "release", "free"} => job[wk[w].job].status = "canceled"
         /\ wk[w].pc \in {"finish", "release"} => job[wk[w].job].worker = w

SeenQuiet ==
  \A u \in Updaters :
    (up[u].pc = "ready" /\ Held /\ up[u].token = lease.token) => Quiet

(* A canceled row whose worker still cleans up stays canceled, and keeps that  *)
(* worker's name until the worker itself takes it off.                         *)
LEMMA CanceledWaits ==
  ASSUME PoolInv, DNext, NEW w \in Workers, NEW j \in Jobs, wk[w].job = j,
         job[j].status = "canceled", job[j].worker = w \/ active[j] = w, ~Restart
  PROVE  /\ job'[j].status = "canceled"
         /\ job[j].worker = w => \/ job'[j].worker = w
                                 \/ wk[w].pc = "release" /\ wk'[w].pc # "release"
<1>1. DRowStep(j) /\ job[j] \in Row /\ w # NoWorker
  BY DNextRows, OnJob DEF PoolInv, TypeOK
<1>2. ~ByInterrupt(j) /\ ~ByClient(j) /\ ~ByClaim(j)
  BY <1>1 DEF ByInterrupt, OwnedBy, ByClient, CanRerun, CanReenqueue, ByClaim, Eligible
<1>3. ~ByCancel(j) /\ ~BySweep(j) /\ ~ByRestart(j)
  BY DEF ByCancel, CanCancel, BySweep, OwnedBy, ByRestart
<1>4. CASE ByOutcome(j)
  BY <1>4, OutcomeEnds DEF ByOutcome
<1>5. CASE ByRelease(j)
  BY <1>1, <1>5 DEF ByRelease, CanRelease, Released, Row
<1>6. CASE ByBackoff(j)
  BY <1>1, <1>6 DEF ByBackoff, Row
<1> QED
  BY <1>1, <1>2, <1>3, <1>4, <1>5, <1>6 DEF DRowStep, RowStep

(* Where a worker that cleans up comes from.                                   *)
LEMMA ComesToClean ==
  ASSUME PoolInv, DNext, NEW w \in Workers, wk'[w].pc \in {"finish", "release", "free"}
  PROVE  /\ wk'[w].job = wk[w].job /\ wk[w].job \in Jobs
         /\ wk[w].pc \in Early \cup {"finish", "release", "free"}
         /\ wk[w].pc = "free" => wk'[w].pc = "free"
         /\ wk[w].pc = "release" => wk'[w].pc \in {"release", "free"}
<1>1. wk \in [Workers -> Worker] /\ WkStep(w)
  BY DNextWorkers, OnJob
<1>2. wk[w].pc \in Engaged => wk[w].job \in Jobs
  BY OnJob
<1>3. CASE WkKept(w)
  BY <1>2, <1>3 DEF WkKept, Engaged, WorkerPC
<1>4. CASE WkMoves(w)
  BY <1>2, <1>4 DEF WkMoves, Early
<1>5. ~WkClaims(w) /\ ~StartAttempt(w) /\ ~Register(w) /\ ~TransitionBegins(w)
  BY <1>1 DEF WkClaims, StartAttempt, Register, TransitionBegins, GoTo, Worker
<1> QED
  BY <1>1, <1>3, <1>4, <1>5 DEF WkStep

(* Quiet stays, behind a closed gate.                                          *)
LEMMA QuietKept ==
  ASSUME PoolInv, Claims, DNext, draining, Quiet, lease'.policy = lease.policy
  PROVE  Quiet'
<1>1. RunningJobs' = {}
  BY NothingStarts DEF Quiet, RunningJobs
<1>2. ASSUME NEW w \in Workers, lease.policy = "interrupt",
             wk'[w].pc \in {"finish", "release", "free"}
      PROVE  /\ job'[wk'[w].job].status = "canceled"
             /\ wk'[w].pc \in {"finish", "release"} => job'[wk'[w].job].worker = w
  <2> DEFINE j == wk[w].job
  <2>1. /\ wk'[w].job = j /\ j \in Jobs
        /\ wk[w].pc \in Early \cup {"finish", "release", "free"}
        /\ wk[w].pc = "free" => wk'[w].pc = "free"
        /\ wk[w].pc = "release" => wk'[w].pc \in {"release", "free"}
    BY <1>2, ComesToClean
  <2>2. ~Restart
    BY <1>2 DEF Restart, Idle
  <2>3. job[j].status = "canceled" /\ (wk[w].pc # "free" => job[j].worker = w)
    <3>1. CASE wk[w].pc \in Early
      BY <2>1, <3>1 DEF Claims, ClaimStands, Quiet, RunningJobs
    <3>2. CASE wk[w].pc \in {"finish", "release", "free"}
      BY <1>2, <3>2 DEF Quiet
    <3> QED
      BY <2>1, <3>1, <3>2
  <2>4. wk[w].pc = "free" => active[j] = w
    BY DEF PoolInv, Holds
  <2>5. job[j].worker = w \/ active[j] = w
    BY <2>3, <2>4
  <2>6. /\ job'[j].status = "canceled"
        /\ job[j].worker = w => \/ job'[j].worker = w
                                \/ wk[w].pc = "release" /\ wk'[w].pc # "release"
    BY <2>1, <2>2, <2>3, <2>5, CanceledWaits
  <2> QED
    BY <1>2, <2>1, <2>3, <2>6
<1> QED
  BY <1>1, <1>2 DEF Quiet

(* Tokens are handed out in order, so that a new lease's is nobody else's.     *)
LEMMA TokensKept ==
  ASSUME LeaseTyped, Tokens, DNext
  PROVE  Tokens'
<1>1. /\ tokens \in Nat /\ lease.token \in Nat /\ lease.token <= tokens
      /\ \A u \in Updaters : up[u].token \in Nat /\ up[u].token <= tokens
  BY DrainAssumption DEF LeaseTyped, Lease, Updater, Tokens
<1>2. NoLease.token = 0 /\ Gone.token = 0
  BY DEF NoLease, Gone
<1>3. UNCHANGED <<lease, up, tokens>> => Tokens'
  BY DEF Tokens
<1>4. ASSUME tokens' \in {tokens, tokens + 1}, lease'.token \in {0, lease.token, tokens'},
             \A u \in Updaters : up'[u].token \in {0, up[u].token, lease.token, tokens'}
      PROVE  Tokens'
  <2>1. /\ tokens' \in Nat /\ tokens' >= tokens
        /\ 0 <= tokens' /\ lease.token <= tokens' /\ \A u \in Updaters : up[u].token <= tokens'
    BY <1>1, <1>4
  <2> QED
    BY <1>4, <2>1 DEF Tokens
<1>5. ASSUME NEW u \in Updaters, NEW p \in Policies, NEW b \in BOOLEAN, PrepareGrants(u, p, b)
      PROVE  Tokens'
  <2>1. tokens' = tokens + 1 /\ lease'.token = tokens'
    BY <1>5 DEF PrepareGrants, CanPrepare, NoLease
  <2>2. \A v \in Updaters : up'[v].token \in {up[v].token, tokens'}
    BY <1>5 DEF PrepareGrants, LeaseTyped
  <2> QED
    BY <1>4, <2>1, <2>2
<1>6. ASSUME NEW u \in Updaters, NEW p \in Policies, PrepareRollsBack(u, p) PROVE Tokens'
  <2>1. tokens' = tokens + 1 /\ lease'.token = tokens' /\ UNCHANGED up
    BY <1>6 DEF PrepareRollsBack, CanPrepare, NoLease
  <2> QED
    BY <1>4, <2>1
<1>7. ASSUME NEW u \in Updaters,
             \/ \E p \in Policies : PrepareRepeated(u, p)
             \/ PollSeesDrained(u) \/ PollRefused(u) \/ Abandon(u) \/ ReleaseLease(u)
      PROVE  Tokens'
  <2>1. tokens' = tokens /\ lease'.token = lease.token
    BY <1>7 DEF PrepareRepeated, PollSeesDrained, PollRefused, Abandon, ReleaseLease, LeaseTyped,
                Lease
  <2>2. \A v \in Updaters : up'[v].token \in {0, up[v].token, lease.token}
    BY <1>2, <1>7 DEF PrepareRepeated, PollSeesDrained, PollRefused, Abandon, ReleaseLease,
                      LeaseTyped, Updater
  <2> QED
    BY <1>4, <2>1, <2>2
<1>8. CASE LeaseExpires \/ ReleaseStep \/ Shutdown \/ DRestart
  <2>1. UNCHANGED <<up, tokens>>
    BY <1>8 DEF LeaseExpires, ReleaseStep, TimerFires, RequeueUnsaved, CountTargeted, CheckActive,
                ClearTargets, OpenGate, ReleaseFails, Shutdown, DRestart
  <2>2. lease'.token \in {0, lease.token}
    <3>1. CASE LeaseExpires \/ Shutdown \/ DRestart
      BY <1>2, <3>1 DEF LeaseExpires, Shutdown, DRestart, LeaseTyped, Lease
    <3>2. CASE ReleaseStep
      BY <1>2, <3>2 DEF ReleaseStep, TimerFires, RequeueUnsaved, CountTargeted, CheckActive,
                        ClearTargets, OpenGate, ReleaseFails, Recovering, LeaseTyped, Lease
    <3> QED
      BY <1>8, <3>1, <3>2
  <2> QED
    BY <1>4, <2>1, <2>2
<1>9. ASSUME NEW w \in Workers, Count(w) \/ Uncount(w) PROVE Tokens'
  BY <1>3, <1>9 DEF Count, Uncount
<1> QED
  BY <1>3, <1>5, <1>6, <1>7, <1>8, <1>9, DNextSplits
     DEF LeaseMoves, PrepareStep, UpdaterStep, UpdaterShutsDown, drain

(* An update command is ready once a poll has shown it a drained daemon.       *)
LEMMA ReadyStep ==
  ASSUME LeaseTyped, DNext, NEW u \in Updaters, up'[u].pc = "ready"
  PROVE  PollSeesDrained(u) \/ up'[u] = up[u]
<1>1. ASSUME NEW v \in Updaters, NEW p \in Policies, NEW b \in BOOLEAN, PrepareGrants(v, p, b)
      PROVE  up'[u] = up[u]
  BY <1>1 DEF PrepareGrants, LeaseTyped
<1>2. ASSUME NEW v \in Updaters, NEW p \in Policies,
             PrepareRollsBack(v, p) \/ PrepareRepeated(v, p)
      PROVE  up'[u] = up[u]
  BY <1>2 DEF PrepareRollsBack, PrepareRepeated, LeaseTyped
<1>3. ASSUME NEW v \in Updaters, PollRefused(v) \/ Abandon(v) \/ ReleaseLease(v)
      PROVE  up'[u] = up[u]
  BY <1>3 DEF PollRefused, Abandon, ReleaseLease, Gone, LeaseTyped
<1>4. ASSUME NEW v \in Updaters, PollSeesDrained(v)
      PROVE  PollSeesDrained(u) \/ up'[u] = up[u]
  BY <1>4 DEF PollSeesDrained, LeaseTyped
<1>5. CASE LeaseExpires \/ ReleaseStep \/ Shutdown \/ DRestart
  BY <1>5 DEF LeaseExpires, ReleaseStep, TimerFires, RequeueUnsaved, CountTargeted, CheckActive,
              ClearTargets, OpenGate, ReleaseFails, Shutdown, DRestart
<1>6. ASSUME NEW w \in Workers, Count(w) \/ Uncount(w) PROVE up'[u] = up[u]
  BY <1>6 DEF Count, Uncount
<1> QED
  BY <1>1, <1>2, <1>3, <1>4, <1>5, <1>6, DNextSplits
     DEF LeaseMoves, PrepareStep, UpdaterStep, UpdaterShutsDown, drain

(* What a poll sees: nobody who is past the first moments of a claim is at     *)
(* work after an interrupt, and no job the lease covers is running.            *)
LEMMA PollSeesQuiet ==
  ASSUME Covers, AllCounted, NEW u \in Updaters, PollSeesDrained(u)
  PROVE  Quiet'
<1>1. Held /\ Drained /\ UNCHANGED <<vars, lease>>
  BY DEF PollSeesDrained, HoldsLease
<1>2. RunningJobs = {}
  BY <1>1 DEF Drained, Covers
<1>3. lease.policy = "interrupt" => \A w \in Workers : wk[w].pc \notin {"finish", "release", "free"}
  BY <1>1 DEF Drained, ActiveWorkers, AllCounted, Engaged, WorkerPC
<1> QED
  BY <1>1, <1>2, <1>3 DEF Quiet, RunningJobs, vars, db

(* Every step keeps what an update has seen of the drain.                      *)
LEMMA SeenQuietKept ==
  ASSUME PoolInv, LeaseTyped, Claims, AllCounted, Tokens, Covers, SeenQuiet, DNext
  PROVE  SeenQuiet'
<1> SUFFICES ASSUME NEW u \in Updaters, up'[u].pc = "ready", Held', up'[u].token = lease'.token
             PROVE  Quiet'
  BY DEF SeenQuiet
<1>1. CASE PollSeesDrained(u)
  BY <1>1, PollSeesQuiet
<1>2. CASE up'[u] = up[u]
  <2>1. ASSUME NEW v \in Updaters, NEW p \in Policies, NEW b \in BOOLEAN, PrepareGrants(v, p, b)
        PROVE  FALSE
    <3>1. lease'.token = tokens + 1
      BY <2>1 DEF PrepareGrants, CanPrepare, NoLease
    <3>2. up[u].token \in Nat /\ tokens \in Nat /\ up[u].token <= tokens
      BY DrainAssumption DEF LeaseTyped, Updater, Tokens
    <3> QED
      BY <1>2, <3>1, <3>2
  <2>2. Held /\ lease'.token = lease.token /\ lease'.policy = lease.policy
    BY <2>1, HeldStep
  <2>3. Quiet /\ draining
    BY <1>2, <2>2 DEF SeenQuiet, Covers, Held
  <2> QED
    BY <2>2, <2>3, QuietKept
<1> QED
  BY <1>1, <1>2, ReadyStep

-------------------------------------------------------------------------------
(* What the update command relies on.                                          *)

DrainInv == Resting /\ Claims /\ ActSpared /\ AllCounted /\ Tokens /\ Covers /\ SeenQuiet

(* A claim stands until its transition is over, a marked attempt's transition  *)
(* only meets a canceled row, and a lease that is held covers what runs and    *)
(* keeps what its command has seen.                                            *)
THEOREM DrainInvariant == DSpec => []DrainInv
<1>1. DInit => DrainInv
  <2> SUFFICES ASSUME DInit PROVE DrainInv
    OBVIOUS
  <2>1. /\ \A w \in Workers : wk[w].pc = "idle" /\ wk[w].job = NoJob
        /\ lease.token = 0 /\ tokens = 0 /\ \A u \in Updaters : up[u].token = 0 /\ up[u].pc = "idle"
    BY DEF DInit, Init, Idle, NoLease, NoUpdate
  <2>2. Resting /\ Claims /\ ActSpared /\ AllCounted
    BY <2>1 DEF Resting, Claims, Early, ActSpared, At, AllCounted, Engaged
  <2>3. Tokens /\ Covers /\ SeenQuiet
    BY <2>1 DEF Tokens, Covers, Held, SeenQuiet
  <2> QED
    BY <2>2, <2>3 DEF DrainInv
<1>2. PoolInv /\ LeaseTyped /\ GateInv /\ DrainInv /\ [DNext]_dvars => DrainInv'
  <2> SUFFICES ASSUME PoolInv, LeaseTyped, GateInv, DrainInv, [DNext]_dvars PROVE DrainInv'
    OBVIOUS
  <2>1. CASE UNCHANGED dvars
    BY <2>1 DEF DrainInv, Resting, Claims, ClaimStands, ActSpared, At, Targeted, AllCounted, Tokens,
                Covers, Held, RunningJobs, SeenQuiet, Quiet, dvars, vars, db, memory, drain
  <2>2. CASE DNext
    BY <2>2, RestingKept, ClaimsKept, ActSparedKept, CountedKept, TokensKept, CoversKept,
       SeenQuietKept DEF DrainInv
  <2> QED
    BY <2>1, <2>2
<1> QED
  BY <1>1, <1>2, DrainKeepsPool, DrainLeaseTyped, DrainGate, PTL DEF DSpec

(* Once an update command has seen the daemon drained, no review runs while    *)
(* its lease lasts, and after an interrupt no worker is at work for more than  *)
(* a canceled job, whatever cancels, reruns, sweeps and other updates do.      *)
THEOREM DrainStays == DSpec => []DrainedStaysDrained
<1>1. PoolInv /\ DrainInv => DrainedStaysDrained
  <2> SUFFICES ASSUME PoolInv, DrainInv, NEW u \in Updaters, up[u].pc = "ready", HoldsLease(u)
               PROVE  /\ RunningJobs = {}
                      /\ lease.policy = "interrupt" =>
                           \A w \in Workers : wk[w].job # NoJob /\ ~At(w, "leave")
                             => job[wk[w].job].status = "canceled"
    BY DEF DrainedStaysDrained
  <2>1. Quiet
    BY DEF HoldsLease, DrainInv, SeenQuiet
  <2>2. ASSUME lease.policy = "interrupt", NEW w \in Workers, wk[w].job # NoJob, ~At(w, "leave")
        PROVE  job[wk[w].job].status = "canceled"
    <3>1. wk[w].pc \in Early \cup {"finish", "release", "free"} /\ wk[w].job \in Jobs
      BY <2>2, OnJob DEF DrainInv, Resting, At, Early, Engaged, WorkerPC
    <3>2. CASE wk[w].pc \in Early
      BY <2>1, <3>1, <3>2 DEF DrainInv, Claims, ClaimStands, Quiet, RunningJobs
    <3>3. CASE wk[w].pc \in {"finish", "release", "free"}
      BY <2>1, <2>2, <3>3 DEF Quiet
    <3> QED
      BY <3>1, <3>2, <3>3
  <2> QED
    BY <2>1, <2>2 DEF Quiet
<1> QED
  BY <1>1, DrainKeepsPool, DrainInvariant, PTL

(* An attempt an update interrupts is never stored as done, failed, retried or *)
(* failed over: it goes back to the queue, or was canceled, and pays nothing.  *)
THEOREM DrainInterruptsFree == DSpec => InterruptIsFree
<1> DEFINE Free ==
      \A w \in Workers : \A j \in targets :
        (OwnedBy(job[j], w) /\ wk[w].job = j /\ AttemptCurrent(w) /\ restarts' = restarts)
        => /\ job'[j].status \in {"running", "queued", "canceled"}
           /\ job'[j].retry = job[j].retry /\ job'[j].agent = job[j].agent
<1>1. PoolInv /\ DrainInv /\ [DNext]_dvars => [Free]_dvars
  <2> SUFFICES ASSUME PoolInv, DrainInv, DNext, NEW w \in Workers, NEW j \in targets,
                      OwnedBy(job[j], w), wk[w].job = j, restarts' = restarts
               PROVE  /\ job'[j].status \in {"running", "queued", "canceled"}
                      /\ job'[j].retry = job[j].retry /\ job'[j].agent = job[j].agent
    OBVIOUS
  <2>1. /\ j \in Jobs /\ job[j] \in Row /\ w # NoWorker /\ restarts \in Nat
        /\ job[j].status = "running" /\ job[j].worker = w
    BY OnJob DEF PoolInv, TypeOK, OwnedBy
  <2>2. DRowStep(j)
    BY <2>1, DNextRows
  <2>3. ~ByClient(j) /\ ~ByClaim(j) /\ ~ByRelease(j)
    BY <2>1 DEF ByClient, CanRerun, CanReenqueue, ByClaim, Eligible, ByRelease, CanRelease
  <2>4. ~ByRestart(j)
    BY <2>1 DEF ByRestart, Restart
  <2>5. ~BySweep(j)
    BY <2>1 DEF BySweep, OwnedBy, Owns
  <2>6. ~ByOutcome(j)
    BY <2>1 DEF ByOutcome, DrainInv, Claims, ClaimStands, Early, ActSpared, At, Targeted
  <2>7. CASE ByInterrupt(j)
    BY <2>1, <2>7 DEF ByInterrupt, Requeued, Row
  <2>8. CASE ByBackoff(j) \/ ByCancel(j) \/ job'[j] = job[j]
    BY <2>1, <2>8 DEF ByBackoff, ByCancel, Canceled, Row
  <2> QED
    BY <2>2, <2>3, <2>4, <2>5, <2>6, <2>7, <2>8 DEF DRowStep, RowStep
<1> QED
  BY <1>1, DrainKeepsPool, DrainInvariant, PTL DEF DSpec, InterruptIsFree
===============================================================================

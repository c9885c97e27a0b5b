--------------------------- MODULE WorkerPool_proofs ---------------------------
(* Proofs about WorkerPool, for any jobs, workers and bounds.                  *)
EXTENDS WorkerPool, ReviewJobs_proofs

-------------------------------------------------------------------------------
(* How the steps of a worker touch its record: the job it is on stays.         *)

Moves(w, pc) ==
  /\ wk'[w].pc = pc
  /\ wk'[w].job = wk[w].job
  /\ \A v \in Workers \ {w} : wk'[v] = wk[v]

(* A plain step from one place to the next.                                    *)
LEMMA GoToMoves ==
  ASSUME wk \in [Workers -> Worker], NEW w \in Workers, NEW pc \in WorkerPC, GoTo(w, pc)
  PROVE  wk' \in [Workers -> Worker] /\ Moves(w, pc)
BY DEF GoTo, Worker, Moves

(* The step that ends an attempt with an outcome.                              *)
LEMMA EndsMoves ==
  ASSUME wk \in [Workers -> Worker], NEW w \in Workers, NEW o \in Outcome,
         wk' = [wk EXCEPT ![w].pc = "check", ![w].outcome = o]
  PROVE  wk' \in [Workers -> Worker] /\ Moves(w, "check")
BY DEF Worker, WorkerPC, Moves

(* A step that may also learn of a cancellation.                               *)
LEMMA CanceledMoves ==
  ASSUME wk \in [Workers -> Worker], NEW w \in Workers, NEW pc \in WorkerPC,
         NEW b \in BOOLEAN,
         wk' = [wk EXCEPT ![w].pc = pc, ![w].canceled = b]
  PROVE  wk' \in [Workers -> Worker] /\ Moves(w, pc)
BY DEF Worker, Moves

(* A cancel function that is called moves nobody.                              *)
LEMMA InterruptKeeps ==
  ASSUME wk \in [Workers -> Worker], NEW w \in Workers, wk' = Interrupt(w)
  PROVE  /\ wk' \in [Workers -> Worker]
         /\ wk'[w].pc = wk[w].pc /\ wk'[w].job = wk[w].job
         /\ \A v \in Workers \ {w} : wk'[v] = wk[v]
BY DEF Interrupt, Worker

(* A worker without a job.                                                     *)
LEMMA IdleIsWorker == Idle \in Worker
BY DEF Idle, Worker, WorkerPC, Outcome

(* A worker that has just claimed a job.                                       *)
LEMMA ClaimedIsWorker ==
  ASSUME NEW j \in Jobs, NEW t \in Nat, NEW e \in Nat
  PROVE  [Idle EXCEPT !.pc = "claimed", !.job = j, !.started = t, !.enq = e] \in Worker
BY DEF Idle, Worker, WorkerPC, Outcome

(* The fields of a worker's record.                                            *)
LEMMA JobStays ==
  ASSUME wk \in [Workers -> Worker], NEW w \in Workers
  PROVE  wk[w].job \in Jobs \cup {NoJob} /\ wk[w].pc \in WorkerPC /\ wk[w].started \in Nat
         /\ wk[w].canceled \in BOOLEAN
BY DEF Worker

(* The empty values of the other parties.                                      *)
LEMMA NoneTyped == NoCancel \in Cancel /\ NoSweep \in Sweep /\ NoHandler \in Handler
BY DEF NoCancel, Cancel, NoSweep, Sweep, NoHandler, Handler

-------------------------------------------------------------------------------
(* The invariant.  A worker that is on a job knows which one; a registration   *)
(* belongs to a worker on that very job; who runs an agent, or is about to     *)
(* unregister, is registered; a cancel function in runningJobs belongs to the  *)
(* registered attempt and is gone before the registration is.                  *)

Engaged == WorkerPC \ {"idle", "claiming"}

HasJob == \A w \in Workers : wk[w].pc \in Engaged => wk[w].job \in Jobs

Registered ==
  \A j \in Jobs, w \in Workers :
    active[j] = w => wk[w].job = j /\ wk[w].pc \in Engaged \ {"claimed", "leave"}

Holds ==
  \A w \in Workers :
    wk[w].pc \in {"started", "run", "finish", "free"} => active[wk[w].job] = w

HandlerHeld ==
  \A j \in Jobs, w \in Workers :
    running[j].worker = w =>
      active[j] = w /\ wk[w].job = j /\ wk[w].pc \in {"run", "check", "act", "finish"}

PoolInv == TypeOK /\ HasJob /\ Registered /\ Holds /\ HandlerHeld

-------------------------------------------------------------------------------
(* Steps that leave the registry alone.                                        *)

(* A step after which every worker is where it was, on the job it was on.      *)
LEMMA Undisturbed ==
  ASSUME HasJob, Registered, Holds, HandlerHeld,
         UNCHANGED <<active, running>>,
         \A v \in Workers : wk'[v].pc = wk[v].pc /\ wk'[v].job = wk[v].job
  PROVE  HasJob' /\ Registered' /\ Holds' /\ HandlerHeld'
BY DEF HasJob, Registered, Holds, HandlerHeld

(* A step of a worker between two places where it is, or is not, registered.   *)
LEMMA RegistryStep ==
  ASSUME HasJob, Registered, Holds, HandlerHeld, NEW w \in Workers, NEW pc \in WorkerPC,
         UNCHANGED <<active, running>>, Moves(w, pc),
         pc \in Engaged => wk[w].pc \in Engaged,
         pc \notin Engaged \ {"claimed", "leave"} =>
           wk[w].pc \in {"idle", "claiming", "claimed", "leave"}
             \/ active[wk[w].job] # w,
         pc \in {"started", "run", "finish", "free"} => active[wk[w].job] = w,
         pc \notin {"run", "check", "act", "finish"} =>
           wk[w].pc \notin {"run", "check", "act", "finish"} \/ active[wk[w].job] # w
  PROVE  HasJob' /\ Registered' /\ Holds' /\ HandlerHeld'
<1>1. HasJob'
  BY DEF HasJob, Moves
<1>2. Registered'
  BY DEF Registered, Moves, Engaged
<1>3. Holds'
  BY DEF Holds, Moves
<1>4. HandlerHeld'
  BY DEF HandlerHeld, Moves
<1> QED
  BY <1>1, <1>2, <1>3, <1>4

-------------------------------------------------------------------------------
(* It holds at first and whatever step is taken.                               *)

(* A fresh daemon over an empty table.                                         *)
LEMMA PoolInit == Init => PoolInv
<1> SUFFICES ASSUME Init PROVE PoolInv
  OBVIOUS
<1>1. job \in [Jobs -> Row] /\ requests \in [Requests -> Jobs \cup {NoRequestJob}]
  BY AbsentIsRow DEF Init
<1>2. /\ active \in [Jobs -> Workers \cup {NoWorker}]
      /\ running \in [Jobs -> Handler]
      /\ pending \in [Jobs -> Owners]
      /\ unsaved \in [Jobs -> Workers \cup {NoWorker}]
      /\ targets \in SUBSET Jobs
  BY NoneTyped DEF Init, Owners
<1>3. wk \in [Workers -> Worker] /\ cn \in [Cancelers -> Cancel] /\ sw \in Sweep
  BY NoneTyped, IdleIsWorker DEF Init
<1>4. TypeOK
  BY <1>1, <1>2, <1>3 DEF Init, TypeOK
<1>5. \A w \in Workers : w # NoWorker /\ wk[w].pc = "idle"
  BY ConstAssumption DEF Init, Idle
<1>6. \A j \in Jobs : active[j] = NoWorker /\ running[j].worker = NoWorker
  BY DEF Init, NoHandler
<1>7. HasJob /\ Registered /\ Holds /\ HandlerHeld
  BY <1>5, <1>6 DEF HasJob, Registered, Holds, HandlerHeld, Engaged
<1> QED
  BY <1>4, <1>7 DEF PoolInv

(* Clients: the registry and the workers are not involved.  An enqueue.        *)
LEMMA EnqueueTyped ==
  ASSUME TypeOK, NEW j \in Jobs, NEW s \in Sessions \cup {NoSession}, Enqueue(j, s)
  PROVE  TypeOK'
<1>1. clock + 1 \in Nat
  BY DEF TypeOK
<1>2. Inserted(clock + 1, s, FALSE) \in Row
  BY <1>1, InsertedIsRow
<1> QED
  BY <1>1, <1>2 DEF Enqueue, Tick, TypeOK, memory

(* A rerun.                                                                    *)
LEMMA RerunTyped ==
  ASSUME TypeOK, NEW j \in Jobs, NEW r \in Requests, Rerun(j, r)
  PROVE  TypeOK'
<1>1. clock + 1 \in Nat /\ job[j] \in Row
  BY DEF TypeOK
<1>2. Reenqueued(job[j], clock + 1) \in Row
  BY <1>1, ReenqueuedIsRow
<1> QED
  BY <1>1, <1>2 DEF Rerun, Tick, TypeOK, memory

(* Every request of a client.                                                  *)
LEMMA ClientKeeps ==
  ASSUME PoolInv, ClientStep
  PROVE  PoolInv'
<1>1. UNCHANGED <<active, running, wk>>
  BY DEF ClientStep, Enqueue, Rerun, SetPaused, memory
<1>2. TypeOK'
  <2>1. ASSUME NEW p \in BOOLEAN, SetPaused(p) PROVE TypeOK'
    BY <2>1 DEF SetPaused, PoolInv, TypeOK, memory
  <2> QED
    BY <2>1, EnqueueTyped, RerunTyped DEF ClientStep, PoolInv
<1> QED
  BY <1>1, <1>2, Undisturbed DEF PoolInv

(* A backoff that passes.                                                      *)
LEMMA BackoffKeeps ==
  ASSUME PoolInv, NEW j \in Jobs, BackoffElapses(j)
  PROVE  PoolInv'
<1>1. [job[j] EXCEPT !.deferred = FALSE] \in Row
  BY UndeferredIsRow DEF PoolInv, TypeOK
<1>2. TypeOK'
  BY <1>1 DEF BackoffElapses, PoolInv, TypeOK, memory
<1> QED
  BY <1>2, Undisturbed DEF BackoffElapses, PoolInv, memory

-------------------------------------------------------------------------------
(* The claim.                                                                  *)

(* What is known of a worker that is on a job.                                 *)
LEMMA OnJob ==
  ASSUME PoolInv, NEW w \in Workers
  PROVE  /\ wk \in [Workers -> Worker] /\ job \in [Jobs -> Row]
         /\ wk[w].pc \in WorkerPC /\ wk[w].started \in Nat /\ wk[w].canceled \in BOOLEAN
         /\ w # NoWorker
         /\ wk[w].pc \in Engaged => wk[w].job \in Jobs /\ job[wk[w].job] \in Row
         /\ HasJob /\ Registered /\ Holds /\ HandlerHeld
BY JobStays, ConstAssumption DEF PoolInv, TypeOK, HasJob

(* A worker that is idle, polling, or about to start or leave holds nothing.   *)
LEMMA NotRegistered ==
  ASSUME PoolInv, NEW w \in Workers, wk[w].pc \in {"idle", "claiming", "claimed", "leave"}
  PROVE  /\ \A j \in Jobs : active[j] # w
         /\ \A j \in Jobs : running[j].worker # w
BY DEF PoolInv, Registered, HandlerHeld, Engaged

(* A worker that polls, or polls in vain.                                      *)
LEMMA PollKeeps ==
  ASSUME PoolInv, NEW w \in Workers, BeginClaim(w) \/ ClaimNothing(w)
  PROVE  PoolInv'
<1> DEFINE pc == IF At(w, "idle") THEN "claiming" ELSE "idle"
<1>1. GoTo(w, pc) /\ wk[w].pc \in {"idle", "claiming"}
  BY DEF BeginClaim, ClaimNothing, At
<1>2. pc \in WorkerPC /\ pc \notin Engaged /\ pc \in {"idle", "claiming"}
  BY DEF WorkerPC, Engaged
<1>3. UNCHANGED <<db, memory, cn, sw, restarts, pulls>>
  BY DEF BeginClaim, ClaimNothing
<1> HIDE DEF pc
<1>4. wk' \in [Workers -> Worker] /\ Moves(w, pc)
  BY <1>1, <1>2, GoToMoves, OnJob
<1>5. TypeOK'
  BY <1>3, <1>4 DEF PoolInv, TypeOK, db, memory
<1>6. HasJob' /\ Registered' /\ Holds' /\ HandlerHeld'
  BY <1>1, <1>2, <1>3, <1>4, OnJob, RegistryStep DEF memory
<1> QED
  BY <1>5, <1>6 DEF PoolInv

(* A worker that claims a job is registered nowhere, before and after.         *)
LEMMA ClaimKeeps ==
  ASSUME PoolInv, NEW w \in Workers, ClaimJob(w)
  PROVE  PoolInv'
<1> DEFINE on(j) == [Idle EXCEPT !.pc = "claimed", !.job = j,
                                 !.started = clock + 1, !.enq = job[j].enq]
<1>1. PICK j \in Jobs : /\ Tick
                        /\ job' = [job EXCEPT ![j] = Claimed(job, j, w, clock + 1)]
                        /\ wk' = [wk EXCEPT ![w] = on(j)]
  BY DEF ClaimJob
<1>2. clock + 1 \in Nat /\ job \in [Jobs -> Row] /\ job[j].enq \in Nat
  BY DEF PoolInv, TypeOK, Row
<1>3. on(j) \in Worker /\ on(j).pc = "claimed" /\ on(j).job = j
  BY <1>2, ClaimedIsWorker DEF Idle
<1> HIDE DEF on
<1>4. job' \in [Jobs -> Row]
  BY <1>1, <1>2, ClaimedIsRow
<1>5. /\ wk' \in [Workers -> Worker]
      /\ wk'[w].pc = "claimed" /\ wk'[w].job = j
      /\ \A v \in Workers \ {w} : wk'[v] = wk[v]
  BY <1>1, <1>3, OnJob
<1>6. UNCHANGED <<paused, draining, requests, memory, cn, sw, restarts, pulls>>
  BY DEF ClaimJob
<1>7. TypeOK'
  BY <1>1, <1>2, <1>4, <1>5, <1>6 DEF PoolInv, TypeOK, Tick, memory
<1>8. HasJob'
  BY <1>5 DEF PoolInv, HasJob
<1>9. /\ \A i \in Jobs : active[i] # w
      /\ \A i \in Jobs : running[i].worker # w
  BY NotRegistered DEF ClaimJob, At
<1>10. Registered' /\ Holds' /\ HandlerHeld'
  BY <1>5, <1>6, <1>9 DEF PoolInv, Registered, Holds, HandlerHeld, memory
<1> QED
  BY <1>7, <1>8, <1>10 DEF PoolInv

-------------------------------------------------------------------------------
(* The attempt.                                                                *)

(* StartJobAttempt registers where nobody is registered, so that nobody is ousted. *)
LEMMA StartKeeps ==
  ASSUME PoolInv, NEW w \in Workers, StartAttempt(w)
  PROVE  PoolInv'
<1> DEFINE j == wk[w].job
           b == wk[w].canceled \/ job[j].status = "canceled"
<1>1. /\ wk[w].pc = "claimed" /\ j \in Jobs /\ b \in BOOLEAN
      /\ active[j] = NoWorker /\ active' = [active EXCEPT ![j] = w]
      /\ wk' = [wk EXCEPT ![w].pc = "started", ![w].canceled = b]
  BY OnJob DEF StartAttempt, PreviousGone, At, Engaged, WorkerPC
<1>2. UNCHANGED <<db, running, pending, targets, unsaved, cn, sw, restarts, pulls>>
  BY DEF StartAttempt
<1> HIDE DEF b
<1>3. wk' \in [Workers -> Worker] /\ Moves(w, "started")
  BY <1>1, OnJob, CanceledMoves DEF WorkerPC
<1>4. active \in [Jobs -> Workers \cup {NoWorker}]
  BY DEF PoolInv, TypeOK
<1>5. TypeOK'
  BY <1>1, <1>2, <1>3, <1>4 DEF PoolInv, TypeOK, db
<1>6. HasJob' /\ Registered'
  BY <1>1, <1>3, <1>4, OnJob DEF HasJob, Registered, Moves, Engaged, WorkerPC
<1>7. Holds'
  BY <1>1, <1>3, <1>4, OnJob DEF Holds, HasJob, Moves, Engaged, WorkerPC
<1>8. HandlerHeld'
  BY <1>1, <1>2, <1>3, <1>4, OnJob DEF HandlerHeld, Moves
<1> QED
  BY <1>5, <1>6, <1>7, <1>8 DEF PoolInv

(* registerRunningJob publishes the cancel function of the registered attempt. *)
LEMMA RegisterKeeps ==
  ASSUME PoolInv, NEW w \in Workers, Register(w)
  PROVE  PoolInv'
<1> DEFINE j == wk[w].job
           b == wk[w].canceled \/ pending[j] # "none" \/ j \in targets
           h == [worker |-> w, caller |-> pending[j] = "caller"]
<1>1. /\ wk[w].pc = "started" /\ j \in Jobs /\ b \in BOOLEAN
      /\ running' = [running EXCEPT ![j] = h]
      /\ pending' = [pending EXCEPT ![j] = "none"]
      /\ wk' = [wk EXCEPT ![w].pc = "run", ![w].canceled = b]
  BY OnJob DEF Register, At, Engaged, WorkerPC
<1>2. UNCHANGED <<db, active, targets, unsaved, cn, sw, restarts, pulls>>
  BY DEF Register
<1>3. h \in Handler /\ h.worker = w
  BY DEF Handler
<1> HIDE DEF b, h
<1>4. wk' \in [Workers -> Worker] /\ Moves(w, "run")
  BY <1>1, OnJob, CanceledMoves DEF WorkerPC
<1>5. running \in [Jobs -> Handler] /\ pending \in [Jobs -> Owners]
  BY DEF PoolInv, TypeOK
<1>6. TypeOK'
  BY <1>1, <1>2, <1>3, <1>4, <1>5 DEF PoolInv, TypeOK, Owners, db
<1>7. HasJob' /\ Registered' /\ Holds'
  BY <1>1, <1>2, <1>4, OnJob DEF HasJob, Registered, Holds, Moves, Engaged, WorkerPC
<1>8. HandlerHeld'
  BY <1>1, <1>2, <1>3, <1>4, <1>5, OnJob DEF HandlerHeld, Holds, Moves
<1> QED
  BY <1>6, <1>7, <1>8 DEF PoolInv

(* Steps of a worker that change its outcome or its place only.                *)
LEMMA PlaceKeeps ==
  ASSUME PoolInv, NEW w \in Workers,
         \/ StartDisplaced(w) \/ StartTimesOut(w)
         \/ \E o \in Outcome : AttemptEnds(w, o)
         \/ TransitionSkipped(w) \/ TransitionBegins(w)
         \/ TransitionUnsaved(w) \/ ReleaseUnsaved(w)
  PROVE  PoolInv'
<1> DEFINE after == AfterTransition(w)
           left  == IF active[wk[w].job] = w THEN "free" ELSE "leave"
<1>1. UNCHANGED <<db, memory, cn, sw, restarts, pulls>>
  BY DEF StartDisplaced, StartTimesOut, AttemptEnds, TransitionSkipped,
         TransitionBegins, TransitionUnsaved, ReleaseUnsaved
<1>2. ASSUME NEW pc \in WorkerPC, Moves(w, pc), wk' \in [Workers -> Worker],
             \/ wk[w].pc = "claimed" /\ pc \in {"release", "check"}
             \/ wk[w].pc = "run" /\ pc = "check"
             \/ wk[w].pc = "check" /\ pc = "act"
             \/ wk[w].pc \in {"check", "act"} /\ pc = after
             \/ wk[w].pc = "release" /\ pc = left
      PROVE  PoolInv'
  <2>1. TypeOK'
    BY <1>1, <1>2 DEF PoolInv, TypeOK, db, memory
  <2>2. HasJob' /\ Registered' /\ Holds' /\ HandlerHeld'
    BY <1>1, <1>2, OnJob, RegistryStep DEF AfterTransition, Engaged, WorkerPC, memory
  <2> QED
    BY <2>1, <2>2 DEF PoolInv
<1>3. CASE StartDisplaced(w)
  BY <1>2, <1>3, GoToMoves, OnJob DEF StartDisplaced, At, WorkerPC
<1>4. CASE StartTimesOut(w)
  BY <1>2, <1>4, EndsMoves, OnJob DEF StartTimesOut, At, WorkerPC, Outcome
<1>5. CASE \E o \in Outcome : AttemptEnds(w, o)
  BY <1>2, <1>5, EndsMoves, OnJob DEF AttemptEnds, At, WorkerPC
<1>6. CASE TransitionBegins(w)
  BY <1>2, <1>6, GoToMoves, OnJob DEF TransitionBegins, At, WorkerPC
<1>7. CASE TransitionSkipped(w) \/ TransitionUnsaved(w)
  <2>1. after \in WorkerPC
    BY DEF AfterTransition, WorkerPC
  <2> QED
    BY <1>2, <1>7, <2>1, GoToMoves, OnJob DEF TransitionSkipped, TransitionUnsaved, At
<1>8. CASE ReleaseUnsaved(w)
  BY <1>2, <1>8, GoToMoves, OnJob DEF ReleaseUnsaved, At, WorkerPC
<1> QED
  BY <1>3, <1>4, <1>5, <1>6, <1>7, <1>8

(* Whatever a transition stores is a row.                                      *)
LEMMA OutcomeIsRow ==
  ASSUME PoolInv, NEW w \in Workers, wk[w].pc = "act", NEW r \in OutcomeRows(w)
  PROVE  r \in Row
<1> DEFINE old == job[wk[w].job]
<1>1. old \in Row /\ wk[w].started \in Nat
  BY OnJob DEF Engaged, WorkerPC
<1> HIDE DEF old
<1>2. /\ Completed(old, wk[w].started) \in Row /\ Failed(old) \in Row
      /\ FailedOver(old) \in Row
      /\ CanRetry(old, w) => Retried(old) \in Row
  BY <1>1, CompletedIsRow, EndedIsRow, FailedOverIsRow, RetriedIsRow
<1>3. CASE wk[w].outcome = "ok"
  BY <1>1, <1>2, <1>3 DEF OutcomeRows, old
<1>4. CASE wk[w].outcome = "error"
  BY <1>1, <1>2, <1>4 DEF OutcomeRows, old
<1>5. CASE wk[w].outcome = "agentError"
  BY <1>1, <1>2, <1>5 DEF OutcomeRows, old
<1>6. CASE wk[w].outcome = "fatal"
  BY <1>1, <1>2, <1>6 DEF OutcomeRows, old
<1>7. CASE wk[w].outcome \notin {"ok", "error", "agentError", "fatal"}
  BY <1>1, <1>7 DEF OutcomeRows, old
<1> QED
  BY <1>3, <1>4, <1>5, <1>6, <1>7

(* Steps of a worker that also write its job's row.                            *)
LEMMA RowStepKeeps ==
  ASSUME PoolInv, NEW w \in Workers,
         TransitionInterrupted(w) \/ TransitionEnds(w) \/ ReleaseClaim(w)
  PROVE  PoolInv'
<1> DEFINE after == AfterTransition(w)
           left  == IF active[wk[w].job] = w THEN "free" ELSE "leave"
           j     == wk[w].job
<1>1. UNCHANGED <<clock, paused, draining, requests, memory, cn, sw, restarts, pulls>>
  BY DEF TransitionInterrupted, TransitionEnds, ReleaseClaim
<1>2. wk[w].pc \in {"check", "act", "release"} /\ j \in Jobs /\ job[j] \in Row
  BY OnJob DEF TransitionInterrupted, TransitionEnds, ReleaseClaim, At, Engaged, WorkerPC
<1>3. job' \in [Jobs -> Row]
  <2>1. ASSUME NEW r \in Row, job' = [job EXCEPT ![j] = r] PROVE job' \in [Jobs -> Row]
    BY <2>1, <1>2, OnJob
  <2>2. CASE TransitionInterrupted(w)
    BY <2>1, <2>2, <1>2, RequeuedIsRow DEF TransitionInterrupted
  <2>3. CASE TransitionEnds(w)
    BY <2>1, <2>3, OutcomeIsRow DEF TransitionEnds, At
  <2>4. CASE ReleaseClaim(w)
    <3>1. (IF CanRelease(job[j], w) THEN Released(job[j]) ELSE job[j]) \in Row
      BY <1>2, EndedIsRow
    <3> QED
      BY <2>1, <2>4, <3>1 DEF ReleaseClaim
  <2> QED
    BY <2>2, <2>3, <2>4
<1>4. \E pc \in {after, left} :
        /\ GoTo(w, pc)
        /\ \/ pc = after /\ wk[w].pc \in {"check", "act"}
           \/ pc = left /\ wk[w].pc = "release"
  BY DEF TransitionInterrupted, TransitionEnds, ReleaseClaim, At
<1>5. PICK pc \in {after, left} :
        /\ GoTo(w, pc)
        /\ \/ pc = after /\ wk[w].pc \in {"check", "act"}
           \/ pc = left /\ wk[w].pc = "release"
  BY <1>4
<1>6. pc \in WorkerPC
  BY DEF AfterTransition, WorkerPC
<1>7. wk' \in [Workers -> Worker] /\ Moves(w, pc)
  BY <1>5, <1>6, GoToMoves, OnJob
<1>8. TypeOK'
  BY <1>1, <1>3, <1>7 DEF PoolInv, TypeOK, memory
<1>9. HasJob' /\ Registered' /\ Holds' /\ HandlerHeld'
  BY <1>1, <1>5, <1>6, <1>7, OnJob, RegistryStep DEF AfterTransition, Engaged, WorkerPC, memory
<1> QED
  BY <1>8, <1>9 DEF PoolInv

(* A requeue for an update that could not be stored.                           *)
LEMMA InterruptUnsavedKeeps ==
  ASSUME PoolInv, NEW w \in Workers, TransitionInterruptUnsaved(w)
  PROVE  PoolInv'
<1> DEFINE pc == AfterTransition(w)
<1>1. /\ wk[w].pc = "check" /\ GoTo(w, pc)
      /\ unsaved' = [unsaved EXCEPT ![wk[w].job] = w]
      /\ UNCHANGED <<db, active, running, pending, targets, cn, sw, restarts, pulls>>
  BY DEF TransitionInterruptUnsaved, At
<1>2. pc \in WorkerPC
  BY DEF AfterTransition, WorkerPC
<1>3. wk' \in [Workers -> Worker] /\ Moves(w, pc)
  BY <1>1, <1>2, GoToMoves, OnJob
<1>4. TypeOK'
  BY <1>1, <1>3 DEF PoolInv, TypeOK, db
<1>5. HasJob' /\ Registered' /\ Holds' /\ HandlerHeld'
  BY <1>1, <1>2, <1>3, OnJob, RegistryStep DEF AfterTransition, Engaged, WorkerPC
<1> QED
  BY <1>4, <1>5 DEF PoolInv

(* Letting go: the cancel function goes first, then the registration, then the *)
(* worker's own note of the job.                                               *)
LEMMA FinishKeeps ==
  ASSUME PoolInv, NEW w \in Workers, FinishRunning(w)
  PROVE  PoolInv'
<1> DEFINE j == wk[w].job
<1>1. wk[w].pc = "finish" /\ j \in Jobs /\ active[j] = w
  BY OnJob DEF FinishRunning, At, Engaged, WorkerPC, Holds
<1>2. /\ running' = [running EXCEPT ![j] = NoHandler] /\ GoTo(w, "release")
      /\ \E o \in {"caller", "none"} : pending' = [pending EXCEPT ![j] = o]
      /\ UNCHANGED <<db, active, targets, unsaved, cn, sw, restarts, pulls>>
  BY DEF FinishRunning
<1>3. wk' \in [Workers -> Worker] /\ Moves(w, "release")
  BY <1>2, GoToMoves, OnJob DEF WorkerPC
<1>4. /\ running \in [Jobs -> Handler] /\ pending \in [Jobs -> Owners]
      /\ NoHandler.worker = NoWorker
  BY DEF PoolInv, TypeOK, NoHandler
<1>5. TypeOK'
  BY <1>1, <1>2, <1>3, <1>4, NoneTyped DEF PoolInv, TypeOK, Owners, db
<1>6. HasJob' /\ Registered' /\ Holds'
  BY <1>1, <1>2, <1>3, OnJob DEF HasJob, Registered, Holds, Moves, Engaged, WorkerPC
<1>7. HandlerHeld'
  BY <1>1, <1>2, <1>3, <1>4, OnJob DEF HandlerHeld, Moves
<1> QED
  BY <1>5, <1>6, <1>7 DEF PoolInv

(* The release of an attempt: its cancel function is gone already.             *)
LEMMA FreeKeeps ==
  ASSUME PoolInv, NEW w \in Workers, FreeAttempt(w)
  PROVE  PoolInv'
<1> DEFINE j == wk[w].job
<1>1. wk[w].pc = "free" /\ j \in Jobs /\ active[j] = w
  BY OnJob DEF FreeAttempt, At, Engaged, WorkerPC, Holds
<1>2. /\ active' = [active EXCEPT ![j] = NoWorker] /\ GoTo(w, "leave")
      /\ UNCHANGED <<db, running, pending, targets, unsaved, cn, sw, restarts, pulls>>
  BY DEF FreeAttempt
<1>3. wk' \in [Workers -> Worker] /\ Moves(w, "leave")
  BY <1>2, GoToMoves, OnJob DEF WorkerPC
<1>4. active \in [Jobs -> Workers \cup {NoWorker}]
  BY DEF PoolInv, TypeOK
<1>5. TypeOK'
  BY <1>1, <1>2, <1>3, <1>4 DEF PoolInv, TypeOK, db
<1>6. HasJob' /\ Registered'
  BY <1>1, <1>2, <1>3, <1>4, OnJob, ConstAssumption
     DEF HasJob, Registered, Moves, Engaged, WorkerPC
<1>7. Holds'
  <2>1. ASSUME NEW v \in Workers \ {w}, wk[v].pc \in {"started", "run", "finish", "free"}
        PROVE  wk[v].job # j /\ active[wk[v].job] = v
    BY <2>1, <1>1, OnJob DEF Holds
  <2> QED
    BY <2>1, <1>1, <1>2, <1>3, <1>4, OnJob DEF Holds, Moves, HasJob, Engaged, WorkerPC
<1>8. HandlerHeld'
  <2>1. ASSUME NEW i \in Jobs, NEW v \in Workers, running[i].worker = v
        PROVE  active[i] = v /\ i # j
    BY <2>1, <1>1, OnJob DEF HandlerHeld
  <2> QED
    BY <2>1, <1>1, <1>2, <1>3, <1>4, OnJob DEF HandlerHeld, Moves
<1> QED
  BY <1>5, <1>6, <1>7, <1>8 DEF PoolInv

(* A worker that leaves its job is registered nowhere.                         *)
LEMMA LeaveKeeps ==
  ASSUME PoolInv, NEW w \in Workers, LeaveJob(w)
  PROVE  PoolInv'
<1>1. wk[w].pc = "leave" /\ wk' = [wk EXCEPT ![w] = Idle]
  BY DEF LeaveJob, At
<1>2. UNCHANGED <<db, memory, cn, sw, restarts, pulls>>
  BY DEF LeaveJob
<1>3. /\ wk' \in [Workers -> Worker] /\ wk'[w].pc = "idle"
      /\ \A v \in Workers \ {w} : wk'[v] = wk[v]
  BY <1>1, OnJob, IdleIsWorker DEF Idle
<1>4. TypeOK'
  BY <1>2, <1>3 DEF PoolInv, TypeOK, db, memory
<1>5. (\A j \in Jobs : active[j] # w) /\ (\A j \in Jobs : running[j].worker # w)
  BY <1>1, NotRegistered
<1>6. HasJob' /\ Registered' /\ Holds' /\ HandlerHeld'
  BY <1>2, <1>3, <1>5, OnJob
     DEF HasJob, Registered, Holds, HandlerHeld, Engaged, memory
<1> QED
  BY <1>4, <1>6 DEF PoolInv

(* Every step of a worker, and those an update brings about.                   *)
LEMMA WorkerKeeps ==
  ASSUME PoolInv, NEW w \in Workers, WorkerStep(w)
  PROVE  PoolInv'
BY PollKeeps, ClaimKeeps, StartKeeps, RegisterKeeps, PlaceKeeps, RowStepKeeps,
   FinishKeeps, FreeKeeps, LeaveKeeps DEF WorkerStep

(* An attempt that an update sends back to the queue.                          *)
LEMMA InterruptedKeeps ==
  ASSUME PoolInv, NEW w \in Workers, InterruptedStep(w)
  PROVE  PoolInv'
BY RowStepKeeps, InterruptUnsavedKeeps DEF InterruptedStep

-------------------------------------------------------------------------------
(* Cancellation.                                                               *)

(* CancelJob in the database.                                                  *)
LEMMA CancelRowKeeps ==
  ASSUME PoolInv, NEW c \in Cancelers, NEW j \in Jobs, NEW b \in BOOLEAN, CancelRow(c, j, b)
  PROVE  PoolInv'
<1>1. Canceled(job[j]) \in Row /\ job \in [Jobs -> Row]
  BY EndedIsRow DEF PoolInv, TypeOK
<1>2. [pc |-> "reg1", job |-> j, caller |-> b, enq |-> job[j].enq] \in Cancel
  BY <1>1 DEF Cancel, CancelPC, Row
<1>3. TypeOK'
  BY <1>1, <1>2 DEF CancelRow, PoolInv, TypeOK, memory
<1> QED
  BY <1>3, Undisturbed DEF CancelRow, PoolInv, memory

(* The lookup of a canceled job in the pool.                                   *)
LEMMA CancelKeeps ==
  ASSUME PoolInv, NEW c \in Cancelers, CancelStep(c)
  PROVE  PoolInv'
<1>1. cn \in [Cancelers -> Cancel] /\ pending \in [Jobs -> Owners]
      /\ running \in [Jobs -> Handler] /\ wk \in [Workers -> Worker]
  BY DEF PoolInv, TypeOK
<1>2. CASE CancelRegistered(c)
  <2> DEFINE j == cn[c].job
             w == running[j].worker
             h == [running[j] EXCEPT !.caller = @ \/ cn[c].caller]
  <2>1. /\ running' = [running EXCEPT ![j] = h] /\ wk' = Interrupt(w)
        /\ cn' = [cn EXCEPT ![c] = NoCancel]
        /\ UNCHANGED <<db, active, pending, targets, unsaved, sw, restarts, pulls>>
        /\ w # NoWorker
    BY <1>2 DEF CancelRegistered
  <2>2. j \in Jobs
    BY <1>1, <1>2 DEF CancelRegistered, Cancel, CancelPC, NoCancel
  <2>3. w \in Workers /\ h \in Handler /\ h.worker = w
    BY <1>1, <2>1, <2>2 DEF Handler, Cancel
  <2> HIDE DEF w, h
  <2>4. /\ wk' \in [Workers -> Worker]
        /\ \A v \in Workers : wk'[v].pc = wk[v].pc /\ wk'[v].job = wk[v].job
    BY <1>1, <2>1, <2>3, InterruptKeeps
  <2>5. TypeOK'
    BY <1>1, <2>1, <2>2, <2>3, <2>4, NoneTyped DEF PoolInv, TypeOK, db
  <2>6. \A i \in Jobs : running'[i].worker = running[i].worker
    BY <1>1, <2>1, <2>2, <2>3 DEF w
  <2>7. HasJob' /\ Registered' /\ Holds' /\ HandlerHeld'
    BY <2>1, <2>4, <2>6 DEF PoolInv, HasJob, Registered, Holds, HandlerHeld
  <2> QED
    BY <2>5, <2>7 DEF PoolInv
<1>3. CASE CancelUnregistered(c)
  <2>1. cn' \in [Cancelers -> Cancel]
    BY <1>1, <1>3 DEF CancelUnregistered, AfterMiss, Cancel, CancelPC, NoCancel
  <2>2. TypeOK'
    BY <1>3, <2>1 DEF CancelUnregistered, PoolInv, TypeOK, db, memory
  <2> QED
    BY <1>3, <2>2, Undisturbed DEF CancelUnregistered, PoolInv, memory
<1>4. CASE CancelRereads(c)
  <2>1. [cn[c] EXCEPT !.pc = IF cn[c].pc = "read1" THEN "reg2" ELSE "final"] \in Cancel
    BY <1>1, <1>4 DEF CancelRereads, Cancel, CancelPC, NoCancel
  <2>2. cn' \in [Cancelers -> Cancel]
    BY <1>1, <1>4, <2>1, NoneTyped DEF CancelRereads
  <2>3. TypeOK'
    BY <1>4, <2>2 DEF CancelRereads, PoolInv, TypeOK, db, memory
  <2> QED
    BY <1>4, <2>3, Undisturbed DEF CancelRereads, PoolInv, memory
<1>5. CASE CancelReadFails(c)
  <2>1. cn' \in [Cancelers -> Cancel]
    BY <1>1, <1>5 DEF CancelReadFails, Cancel, CancelPC, NoCancel
  <2>2. TypeOK'
    BY <1>5, <2>1 DEF CancelReadFails, PoolInv, TypeOK, db, memory
  <2> QED
    BY <1>5, <2>2, Undisturbed DEF CancelReadFails, PoolInv, memory
<1>6. CASE CancelPending(c)
  <2>1. cn' \in [Cancelers -> Cancel] /\ pending' \in [Jobs -> Owners]
    BY <1>1, <1>6, NoneTyped DEF CancelPending, Owners
  <2>2. TypeOK'
    BY <1>6, <2>1 DEF CancelPending, PoolInv, TypeOK, db
  <2> QED
    BY <1>6, <2>2, Undisturbed DEF CancelPending, PoolInv
<1> QED
  BY <1>2, <1>3, <1>4, <1>5, <1>6 DEF CancelStep

-------------------------------------------------------------------------------
(* The sweep, the sync pull and a restart.                                     *)

(* The orphan sweep touches rows only.                                         *)
LEMMA SweepKeeps ==
  ASSUME PoolInv, SweepStep
  PROVE  PoolInv'
<1>1. job \in [Jobs -> Row] /\ sw \in Sweep
  BY DEF PoolInv, TypeOK
<1>2. UNCHANGED <<clock, paused, draining, requests, memory, wk, cn, restarts, pulls>>
  BY DEF SweepStep, SweepList, SweepOwned, SweepUnowned, SweepLoad, SweepFail, SweepSpare, db
<1>3. job' \in [Jobs -> Row] /\ sw' \in Sweep
  <2>1. CASE \E j \in Jobs : SweepList(j)
    <3>1. PICK j \in Jobs : SweepList(j)
      BY <2>1
    <3>2. job[j].worker \in Workers \cup {NoWorker}
      BY <1>1 DEF Row
    <3> QED
      BY <1>1, <3>1, <3>2 DEF SweepList, Sweep, NoSweep, db
  <2>2. CASE SweepUnowned
    BY <1>1, <2>2 DEF SweepUnowned, Sweep, NoSweep, db
  <2>3. CASE SweepLoad
    <3>1. sw.job \in Jobs /\ sw.pc = "unowned"
      BY <1>1, <2>3 DEF SweepLoad, Sweep, NoSweep
    <3>2. job[sw.job].worker \in Workers \cup {NoWorker} /\ job[sw.job].started \in Nat
      BY <1>1, <3>1 DEF Row
    <3> QED
      BY <1>1, <2>3, <3>1, <3>2 DEF SweepLoad, Sweep, NoSweep, db
  <2>4. CASE SweepFail
    <3>1. sw.job \in Jobs
      BY <1>1, <2>4 DEF SweepFail, Sweep, NoSweep
    <3>2. Failed(job[sw.job]) \in Row
      BY <1>1, <3>1, EndedIsRow
    <3> QED
      BY <1>1, <2>4, <3>2, NoneTyped DEF SweepFail
  <2>5. CASE SweepOwned \/ SweepSpare
    BY <1>1, <2>5, NoneTyped DEF SweepOwned, SweepSpare, db
  <2> QED
    BY <2>1, <2>2, <2>3, <2>4, <2>5 DEF SweepStep
<1>4. TypeOK'
  BY <1>2, <1>3 DEF PoolInv, TypeOK, memory
<1> QED
  BY <1>2, <1>4, Undisturbed DEF PoolInv, memory

(* A pulled attempt changes a row and interrupts, but moves nobody.            *)
LEMMA PullKeeps ==
  ASSUME PoolInv, NEW j \in Jobs, NEW st \in {"done", "failed", "canceled"}, Pull(j, st)
  PROVE  PoolInv'
<1>1. /\ clock + 1 \in Nat /\ pulls + 1 \in Nat
      /\ job \in [Jobs -> Row] /\ job[j] \in Row
      /\ active \in [Jobs -> Workers \cup {NoWorker}]
      /\ wk \in [Workers -> Worker]
  BY DEF PoolInv, TypeOK
<1>2. Pulled(job[j], st, clock + 1, active[j] # NoWorker) \in Row
  BY <1>1, PulledIsRow
<1>3. /\ UNCHANGED <<paused, draining, requests, memory, cn, sw, restarts>>
      /\ clock' = clock + 1 /\ pulls' = pulls + 1 /\ job' \in [Jobs -> Row]
  BY <1>1, <1>2 DEF Pull, Tick
<1>4. /\ wk' \in [Workers -> Worker]
      /\ \A v \in Workers : wk'[v].pc = wk[v].pc /\ wk'[v].job = wk[v].job
  <2>1. CASE active[j] = NoWorker
    BY <1>1, <2>1 DEF Pull
  <2>2. CASE active[j] # NoWorker
    BY <1>1, <2>2, InterruptKeeps DEF Pull
  <2> QED
    BY <2>1, <2>2
<1>5. TypeOK'
  BY <1>1, <1>3, <1>4 DEF PoolInv, TypeOK, memory
<1> QED
  BY <1>3, <1>4, <1>5, Undisturbed DEF PoolInv, memory

(* A crash forgets the registry and every worker at once.                      *)
LEMMA RestartKeeps ==
  ASSUME PoolInv, Restart
  PROVE  PoolInv'
<1>1. job' \in [Jobs -> Row] /\ restarts' \in Nat
  BY ResetIsRow DEF Restart, PoolInv, TypeOK
<1>2. /\ active' \in [Jobs -> Workers \cup {NoWorker}]
      /\ running' \in [Jobs -> Handler]
      /\ pending' \in [Jobs -> Owners]
      /\ targets' \in SUBSET Jobs
      /\ unsaved' \in [Jobs -> Workers \cup {NoWorker}]
  BY NoneTyped DEF Restart, Owners
<1>3. /\ wk' \in [Workers -> Worker] /\ cn' \in [Cancelers -> Cancel] /\ sw' \in Sweep
      /\ draining' \in BOOLEAN
  BY NoneTyped, IdleIsWorker DEF Restart, GateOnStart
<1>4. TypeOK'
  BY <1>1, <1>2, <1>3 DEF Restart, PoolInv, TypeOK
<1>5. \A w \in Workers : w # NoWorker /\ wk'[w].pc = "idle"
  BY ConstAssumption DEF Restart, Idle
<1>6. \A j \in Jobs : active'[j] = NoWorker /\ running'[j].worker = NoWorker
  BY DEF Restart, NoHandler
<1>7. HasJob' /\ Registered' /\ Holds' /\ HandlerHeld'
  BY <1>5, <1>6 DEF HasJob, Registered, Holds, HandlerHeld, Engaged
<1> QED
  BY <1>4, <1>7 DEF PoolInv

-------------------------------------------------------------------------------
(* The theorems.                                                               *)

(* Whatever clients, workers, cancels, sweeps, pulls and crashes do, the       *)
(* database and the pool's maps keep their shape and the registry stays        *)
(* consistent with where the workers are.                                      *)
THEOREM PoolInvariant == Spec => []PoolInv
<1>1. PoolInv /\ [Next]_vars => PoolInv'
  <2> SUFFICES ASSUME PoolInv, [Next]_vars PROVE PoolInv'
    OBVIOUS
  <2>1. CASE UNCHANGED vars
    <3>1. TypeOK'
      BY <2>1 DEF PoolInv, TypeOK, vars, db, memory
    <3> QED
      BY <2>1, <3>1, Undisturbed DEF PoolInv, vars, memory
  <2>2. CASE Next
    BY <2>2, ClientKeeps, BackoffKeeps, WorkerKeeps, CancelRowKeeps, CancelKeeps,
       SweepKeeps, PullKeeps, RestartKeeps DEF Next
  <2> QED
    BY <2>1, <2>2
<1> QED
  BY PoolInit, <1>1, PTL DEF Spec

(* Every variable keeps its type, for any jobs, workers and bounds.            *)
THEOREM PoolTyped == Spec => []TypeOK
<1>1. PoolInv => TypeOK
  BY DEF PoolInv
<1> QED
  BY PoolInvariant, <1>1, PTL

(* At no time are two workers at work for one job, however many workers claim  *)
(* it again while an earlier attempt unwinds.                                  *)
THEOREM PoolOneAgent == Spec => []OneAgentPerJob
<1>1. PoolInv => OneAgentPerJob
  BY DEF PoolInv, Holds, OneAgentPerJob, Executing
<1> QED
  BY PoolInvariant, <1>1, PTL

(* A registered cancel function always belongs to the attempt that holds the   *)
(* job: a cancel cannot reach a worker that has gone on to another job.        *)
THEOREM PoolHandlers == Spec => []HandlerIsAttempt
<1>1. PoolInv => HandlerIsAttempt
  <2> SUFFICES ASSUME PoolInv, NEW j \in Jobs, running[j].worker # NoWorker
               PROVE  /\ active[j] = running[j].worker
                      /\ wk[running[j].worker].job = j
    BY DEF HandlerIsAttempt
  <2>1. running[j].worker \in Workers
    BY DEF PoolInv, TypeOK, Handler
  <2> QED
    BY <2>1 DEF PoolInv, HandlerHeld
<1> QED
  BY PoolInvariant, <1>1, PTL

-------------------------------------------------------------------------------
(* A finished job returns to the queue by a rerun alone.                       *)

(* An outcome ends a running row, or leaves the row as it is.                  *)
LEMMA OutcomeEnds ==
  ASSUME PoolInv, NEW w \in Workers, wk[w].pc = "act", NEW r \in OutcomeRows(w)
  PROVE  \/ r = job[wk[w].job]
         \/ /\ job[wk[w].job].status = "running"
            /\ r.status \in {"queued", "done", "failed"}
<1> DEFINE old == job[wk[w].job]
<1>1. old \in Row
  BY OnJob DEF Engaged, WorkerPC
<1> HIDE DEF old
<1>2. /\ Failed(old).status = "failed" /\ FailedOver(old).status = "queued"
      /\ Retried(old).status = "queued"
      /\ \A t : Completed(old, t).status = "done"
  BY <1>1 DEF Failed, FailedOver, Retried, Requeued, Completed, Row
<1>3. CanRetry(old, w) \/ CanFailover(old, w) \/ OwnedBy(old, w) \/ CanComplete(old)
        => old.status = "running"
  BY DEF CanRetry, CanFailover, OwnedBy, CanComplete
<1>4. CASE wk[w].outcome = "ok"
  BY <1>2, <1>3, <1>4 DEF OutcomeRows, old
<1>5. CASE wk[w].outcome = "error"
  BY <1>2, <1>3, <1>5 DEF OutcomeRows, old
<1>6. CASE wk[w].outcome = "agentError"
  BY <1>2, <1>3, <1>6 DEF OutcomeRows, old
<1>7. CASE wk[w].outcome = "fatal"
  BY <1>2, <1>3, <1>7 DEF OutcomeRows, old
<1>8. CASE wk[w].outcome \notin {"ok", "error", "agentError", "fatal"}
  BY <1>8 DEF OutcomeRows, old
<1> QED
  BY <1>4, <1>5, <1>6, <1>7, <1>8

(* Only a rerun moves a row from a terminal status to the queue.               *)
LEMMA OnlyRerunRequeues ==
  ASSUME PoolInv, Next, NEW j \in Jobs,
         job[j].status \in Terminal, job'[j].status = "queued"
  PROVE  \E r \in Requests : Rerun(j, r)
<1>1. job \in [Jobs -> Row] /\ job[j] \in Row /\ job'[j] # job[j]
      /\ job[j].status \notin {"queued", "running", "absent"}
  BY DEF PoolInv, TypeOK, Terminal
<1>2. CASE ClientStep
  <2>1. ASSUME NEW i \in Jobs, NEW s \in Sessions \cup {NoSession}, Enqueue(i, s)
        PROVE  FALSE
    BY <1>1, <2>1 DEF Enqueue
  <2>2. ASSUME NEW i \in Jobs, NEW r \in Requests, Rerun(i, r) PROVE i = j
    BY <1>1, <2>2 DEF Rerun
  <2>3. ~\E p \in BOOLEAN : SetPaused(p)
    BY <1>1 DEF SetPaused
  <2> QED
    BY <1>2, <2>1, <2>2, <2>3 DEF ClientStep
<1>3. ASSUME NEW i \in Jobs, BackoffElapses(i) PROVE FALSE
  BY <1>1, <1>3 DEF BackoffElapses, Row
<1>4. ASSUME NEW w \in Workers, WorkerStep(w) PROVE FALSE
  <2>1. wk[w].pc \in Engaged => wk[w].job \in Jobs
    BY OnJob
  <2>2. ~ClaimJob(w)
    <3>1. \A i \in Jobs : Claimed(job, i, w, clock + 1).status = "running"
      BY <1>1 DEF Claimed, Row
    <3> QED
      BY <1>1, <3>1 DEF ClaimJob
  <2>3. ~TransitionEnds(w)
    BY <1>1, <2>1, OutcomeEnds DEF TransitionEnds, At, Engaged, WorkerPC
  <2>4. ~ReleaseClaim(w)
    BY <1>1, <2>1 DEF ReleaseClaim, Released, Row, At, Engaged, WorkerPC
  <2>5. UNCHANGED job \/ ClaimJob(w) \/ TransitionEnds(w) \/ ReleaseClaim(w)
    BY <1>4 DEF WorkerStep, BeginClaim, ClaimNothing, StartAttempt, StartDisplaced,
                StartTimesOut, Register, AttemptEnds, TransitionSkipped, TransitionBegins,
                TransitionUnsaved, FinishRunning, ReleaseUnsaved, FreeAttempt, LeaveJob, db
  <2> QED
    BY <1>1, <2>2, <2>3, <2>4, <2>5
<1>5. ASSUME NEW c \in Cancelers, NEW i \in Jobs, NEW b \in BOOLEAN, CancelRow(c, i, b)
      PROVE  FALSE
  BY <1>1, <1>5 DEF CancelRow, Canceled, Row
<1>6. ASSUME NEW c \in Cancelers, CancelStep(c) PROVE FALSE
  BY <1>1, <1>6 DEF CancelStep, CancelRegistered, CancelUnregistered, CancelRereads,
     CancelReadFails,
                    CancelPending, db
<1>7. ASSUME SweepStep PROVE FALSE
  BY <1>1, <1>7 DEF SweepStep, SweepList, SweepOwned, SweepUnowned, SweepLoad, SweepFail,
                    SweepSpare, Failed, Row, db
<1>8. ASSUME NEW i \in Jobs, NEW st \in {"done", "failed", "canceled"}, Pull(i, st)
      PROVE  FALSE
  BY <1>1, <1>8 DEF Pull, Pulled, Row
<1>9. ASSUME Restart PROVE FALSE
  BY <1>1, <1>9 DEF Restart, ResetStale, Row
<1> QED
  BY <1>2, <1>3, <1>4, <1>5, <1>6, <1>7, <1>8, <1>9 DEF Next

(* A finished job is requeued only when no worker is at work for it any more.  *)
THEOREM PoolRerunWaits == Spec => RerunAfterUnwind
<1> DEFINE Waits ==
      \A j \in Jobs : (job[j].status \in Terminal /\ job'[j].status = "queued")
                      => \A w \in Workers : ~Executing(w, j)
<1>1. PoolInv /\ [Next]_vars => [Waits]_vars
  <2> SUFFICES ASSUME PoolInv, Next PROVE Waits
    OBVIOUS
  <2>1. ASSUME NEW j \in Jobs, job[j].status \in Terminal, job'[j].status = "queued",
               NEW w \in Workers
        PROVE  ~Executing(w, j)
    <3>1. active[j] = NoWorker
      BY <2>1, OnlyRerunRequeues DEF Rerun, CanRerun
    <3> QED
      BY <3>1, ConstAssumption DEF PoolInv, Holds, Executing
  <2> QED
    BY <2>1
<1> QED
  BY PoolInvariant, <1>1, PTL DEF Spec, RerunAfterUnwind
-------------------------------------------------------------------------------
(* What happens to the rows of the job table: by whom an attempt is ended,     *)
(* whose review is stored, what becomes of a canceled row, who resumes a       *)
(* session, and that the pool is a JobLifecycle.                               *)

(* How one row changes in one step.                                            *)

ByClient(j) ==
  \/ \E s \in Sessions \cup {NoSession} :
       job[j].status = "absent" /\ job'[j] = Inserted(clock + 1, s, FALSE)
  \/ /\ CanRerun(j) /\ NoTransition
     /\ job'[j] = Reenqueued(job[j], clock + 1) /\ requests' # requests

ByBackoff(j) == job'[j] = [job[j] EXCEPT !.deferred = FALSE]

ByClaim(j) ==
  \E w \in Workers :
    /\ wk[w].pc = "claiming" /\ Eligible(job[j]) /\ GateOpen
    /\ job'[j] = Claimed(job, j, w, clock + 1)
    /\ \A i \in Jobs \ {j} : job'[i] = job[i]

ByOutcome(j) ==
  \E w \in Workers :
    /\ wk[w].pc = "act" /\ wk[w].job = j /\ wk'[w].pc # "act"
    /\ job'[j] \in OutcomeRows(w)

ByRelease(j) ==
  \E w \in Workers :
    /\ wk[w].pc = "release" /\ wk[w].job = j /\ wk'[w].pc # "release"
    /\ CanRelease(job[j], w) /\ job'[j] = Released(job[j])

ByCancel(j) ==
  /\ CanCancel(job[j]) /\ job'[j] = Canceled(job[j])
  /\ \E c \in Cancelers : cn'[c].job = j /\ cn'[c].enq = job[j].enq

BySweep(j) ==
  \E w : OwnedBy(job[j], w) /\ ~Owns(w, j) /\ job'[j] = Failed(job[j])

ByPull(j) ==
  \E st \in {"done", "failed", "canceled"} :
    /\ Shared(j) /\ NoTransition
    /\ job'[j] = Pulled(job[j], st, clock + 1, active[j] # NoWorker) /\ pulls' # pulls

ByRestart(j) == Restart /\ job'[j] = ResetStale(job[j])

(* Time passes with the changes that take a stamp.                             *)
RowStep(j) ==
  \/ job'[j] = job[j] /\ clock' >= clock
  \/ (ByClient(j) \/ ByClaim(j) \/ ByPull(j)) /\ clock' = clock + 1
  \/ /\ \/ ByBackoff(j) \/ ByOutcome(j) \/ ByRelease(j) \/ ByCancel(j) \/ BySweep(j)
        \/ ByRestart(j)
     /\ clock' = clock

(* A step that stores no stamp and no row.                                     *)
LEMMA RowsStay ==
  ASSUME PoolInv, UNCHANGED <<job, clock>>, NEW j \in Jobs
  PROVE  RowStep(j)
<1>1. clock \in Nat
  BY DEF PoolInv, TypeOK
<1> QED
  BY <1>1 DEF RowStep

(* Clients.                                                                    *)
LEMMA ClientRows ==
  ASSUME PoolInv, ClientStep, NEW j \in Jobs
  PROVE  RowStep(j)
<1>1. job \in [Jobs -> Row] /\ clock \in Nat
      /\ requests \in [Requests -> Jobs \cup {NoRequestJob}]
  BY DEF PoolInv, TypeOK
<1>2. ASSUME NEW i \in Jobs, NEW s \in Sessions \cup {NoSession}, Enqueue(i, s)
      PROVE  RowStep(j)
  <2>1. clock' = clock + 1 /\ clock + 1 > clock
    BY <1>1, <1>2 DEF Enqueue, Tick
  <2>2. CASE i = j
    <3>1. ByClient(j)
      <4>1. job'[j] = Inserted(clock + 1, s, FALSE) /\ job[j].status = "absent"
        BY <1>1, <1>2, <2>2 DEF Enqueue
      <4> QED
        BY <4>1 DEF ByClient
    <3> QED
      BY <1>1, <2>1, <3>1 DEF RowStep
  <2>3. CASE i # j
    <3> DEFINE new == Inserted(clock + 1, s, FALSE)
    <3>1. job' = [job EXCEPT ![i] = new]
      BY <1>2 DEF Enqueue
    <3> HIDE DEF new
    <3>2. job'[j] = job[j]
      BY <1>1, <2>3, <3>1
    <3> QED
      BY <1>1, <2>1, <3>2 DEF RowStep
  <2> QED
    BY <2>2, <2>3
<1>3. ASSUME NEW i \in Jobs, NEW r \in Requests, Rerun(i, r) PROVE RowStep(j)
  <2>1. requests' # requests
    BY <1>1, <1>3, PoolAssumption DEF Rerun
  <2>2. clock' = clock + 1 /\ clock + 1 > clock
    BY <1>1, <1>3 DEF Rerun, Tick
  <2>3. CASE i = j
    <3>1. ByClient(j)
      BY <1>1, <1>3, <2>1, <2>3 DEF Rerun, ByClient
    <3> QED
      BY <1>1, <2>2, <3>1 DEF RowStep
  <2>4. CASE i # j
    BY <1>1, <1>3, <2>2, <2>4 DEF Rerun, RowStep
  <2> QED
    BY <2>3, <2>4
<1>4. ASSUME NEW p \in BOOLEAN, SetPaused(p) PROVE RowStep(j)
  BY <1>4, RowsStay DEF SetPaused
<1> QED
  BY <1>2, <1>3, <1>4 DEF ClientStep

(* Workers.                                                                    *)
LEMMA WorkerRows ==
  ASSUME PoolInv, NEW w \in Workers, WorkerStep(w), NEW j \in Jobs
  PROVE  RowStep(j)
<1>1. job \in [Jobs -> Row] /\ clock \in Nat /\ wk \in [Workers -> Worker]
  BY DEF PoolInv, TypeOK
<1>2. CASE ClaimJob(w)
  BY <1>1, <1>2 DEF ClaimJob, NextClaim, Tick, At, RowStep, ByClaim
<1>3. CASE TransitionEnds(w)
  <2>1. wk'[w].pc # "act"
    BY <1>1, <1>3 DEF TransitionEnds, GoTo, AfterTransition, Worker
  <2> QED
    BY <1>1, <1>3, <2>1 DEF TransitionEnds, At, RowStep, ByOutcome
<1>4. CASE ReleaseClaim(w)
  <2>1. wk'[w].pc # "release"
    BY <1>1, <1>4 DEF ReleaseClaim, GoTo, Worker
  <2> QED
    BY <1>1, <1>4, <2>1 DEF ReleaseClaim, At, RowStep, ByRelease
<1>5. UNCHANGED <<job, clock>> \/ ClaimJob(w) \/ TransitionEnds(w) \/ ReleaseClaim(w)
  BY DEF WorkerStep, BeginClaim, ClaimNothing, StartAttempt, StartDisplaced,
         StartTimesOut, Register, AttemptEnds, TransitionSkipped, TransitionBegins,
         TransitionUnsaved, FinishRunning, ReleaseUnsaved, FreeAttempt, LeaveJob, db
<1> QED
  BY <1>2, <1>3, <1>4, <1>5, RowsStay

(* Every step of the pool changes a row in one of these ways.                  *)
LEMMA NextRows ==
  ASSUME PoolInv, Next, NEW j \in Jobs
  PROVE  RowStep(j)
<1>1. job \in [Jobs -> Row] /\ clock \in Nat
  BY DEF PoolInv, TypeOK
<1>2. ASSUME NEW i \in Jobs, BackoffElapses(i) PROVE RowStep(j)
  <2>1. job'[j] = job[j] \/ ByBackoff(j)
    BY <1>1, <1>2 DEF BackoffElapses, ByBackoff
  <2> QED
    BY <1>1, <1>2, <2>1 DEF BackoffElapses, RowStep
<1>3. ASSUME NEW c \in Cancelers, NEW i \in Jobs, NEW b \in BOOLEAN, CancelRow(c, i, b)
      PROVE  RowStep(j)
  <2>1. cn \in [Cancelers -> Cancel]
    BY DEF PoolInv, TypeOK
  <2> QED
    BY <1>1, <1>3, <2>1 DEF CancelRow, RowStep, ByCancel
<1>4. ASSUME NEW c \in Cancelers, CancelStep(c) PROVE RowStep(j)
  BY <1>4, RowsStay DEF CancelStep, CancelRegistered, CancelUnregistered, CancelRereads,
     CancelReadFails,
                        CancelPending, db
<1>5. CASE SweepStep
  <2>1. CASE SweepFail
    BY <1>1, <2>1 DEF SweepFail, SweepFails, RowStep, BySweep
  <2>2. UNCHANGED <<job, clock>> \/ SweepFail
    BY <1>5 DEF SweepStep, SweepList, SweepOwned, SweepUnowned, SweepLoad, SweepSpare, db
  <2> QED
    BY <2>1, <2>2, RowsStay
<1>6. ASSUME NEW i \in Jobs, NEW st \in {"done", "failed", "canceled"}, Pull(i, st)
      PROVE  RowStep(j)
  <2>1. pulls' # pulls
    BY <1>6 DEF Pull, PoolInv, TypeOK
  <2> QED
    BY <1>1, <1>6, <2>1 DEF Pull, Tick, RowStep, ByPull
<1>7. CASE Restart
  BY <1>1, <1>7 DEF Restart, RowStep, ByRestart
<1> QED
  BY <1>2, <1>3, <1>4, <1>5, <1>6, <1>7, ClientRows, WorkerRows DEF Next

-------------------------------------------------------------------------------
(* What a row looks like at time t.  The review is the one of the attempt the  *)
(* row describes, which CompleteJob cannot know from its WHERE clause.         *)

RowOK(r, t) ==
  /\ r.status \in {"absent", "queued", "running", "done", "failed", "canceled"}
  /\ r.enq <= t /\ r.started <= t
  /\ r.status = "queued" => r.worker = NoWorker
  /\ r.status = "running" => r.worker # NoWorker /\ r.started > r.enq
  /\ r.review # 0 => r.status = "done" /\ r.review = r.started
  /\ r.status = "done" /\ r.started > r.enq => r.review = r.started

(* Time alone does no harm.                                                    *)
LEMMA LaterOK ==
  ASSUME NEW r \in Row, NEW t \in Nat, NEW u \in Nat, u >= t, RowOK(r, t)
  PROVE  RowOK(r, u)
BY DEF RowOK, Row

(* Clients insert and requeue.                                                 *)
LEMMA ClientOK ==
  ASSUME NEW r \in Row, NEW t \in Nat, RowOK(r, t),
         NEW s \in Sessions \cup {NoSession}
  PROVE  /\ RowOK(Inserted(t + 1, s, FALSE), t + 1)
         /\ RowOK(Reenqueued(r, t + 1), t + 1)
         /\ RowOK([r EXCEPT !.deferred = FALSE], t)
<1>1. RowOK(Inserted(t + 1, s, FALSE), t + 1)
  BY DEF RowOK, Inserted, Absent
<1>2. RowOK(Reenqueued(r, t + 1), t + 1)
  BY DEF RowOK, Reenqueued, Requeued, Row
<1>3. RowOK([r EXCEPT !.deferred = FALSE], t)
  BY DEF RowOK, Row
<1> QED
  BY <1>1, <1>2, <1>3

(* A claim has a later stamp than the enqueue.                                 *)
LEMMA ClaimOK ==
  ASSUME job \in [Jobs -> Row], NEW j \in Jobs, NEW t \in Nat, RowOK(job[j], t),
         Eligible(job[j]), NEW w \in Workers
  PROVE  RowOK(Claimed(job, j, w, t + 1), t + 1)
<1> DEFINE s == SessionAfterClaim(job, j)
           r == job[j]
           c == [r EXCEPT !.status = "running", !.worker = w, !.started = t + 1, !.session = s]
<1>1. Claimed(job, j, w, t + 1) = c
  BY DEF Claimed
<1>2. r \in Row /\ RowOK(r, t) /\ Eligible(r)
  OBVIOUS
<1> HIDE DEF s, r
<1>3. /\ c.status = "running" /\ c.worker = w /\ c.started = t + 1
      /\ c.enq = r.enq /\ c.review = r.review
  BY <1>2 DEF Row
<1>4. r.status = "queued" /\ r.enq \in Nat /\ r.enq <= t /\ r.review = 0
  BY <1>2 DEF Eligible, RowOK, Row
<1>5. w # NoWorker
  BY ConstAssumption
<1> HIDE DEF c
<1>6. RowOK(c, t + 1)
  BY <1>3, <1>4, <1>5 DEF RowOK
<1> QED
  BY <1>1, <1>6

(* The outcomes of a running attempt.                                          *)
LEMMA OutcomeOK ==
  ASSUME NEW r \in Row, NEW t \in Nat, RowOK(r, t), r.status = "running"
  PROVE  /\ RowOK(Failed(r), t) /\ RowOK(Retried(r), t) /\ RowOK(FailedOver(r), t)
         /\ RowOK(Completed(r, r.started), t)
<1>1. RowOK(Failed(r), t)
  BY DEF RowOK, Failed, Row
<1>2. RowOK(Retried(r), t)
  BY DEF RowOK, Retried, Requeued, Row
<1>3. RowOK(FailedOver(r), t)
  BY DEF RowOK, FailedOver, Requeued, Row
<1>4. RowOK(Completed(r, r.started), t)
  BY DEF RowOK, Completed, Row
<1> QED
  BY <1>1, <1>2, <1>3, <1>4

(* Cancels, releases, pulls and a restart.                                     *)
LEMMA OtherOK ==
  ASSUME NEW r \in Row, NEW t \in Nat, RowOK(r, t)
  PROVE  /\ CanCancel(r) => RowOK(Canceled(r), t)
         /\ r.status = "canceled" => RowOK(Released(r), t)
         /\ \A st \in {"done", "failed", "canceled"}, b \in BOOLEAN :
              RowOK(Pulled(r, st, t + 1, b), t + 1)
         /\ RowOK(ResetStale(r), t)
<1>1. CanCancel(r) => RowOK(Canceled(r), t)
  BY DEF RowOK, CanCancel, Canceled, Row
<1>2. r.status = "canceled" => RowOK(Released(r), t)
  BY DEF RowOK, Released, Row
<1>3. ASSUME NEW st \in {"done", "failed", "canceled"}, NEW b \in BOOLEAN
      PROVE  RowOK(Pulled(r, st, t + 1, b), t + 1)
  BY DEF RowOK, Pulled, Row
<1>4. RowOK(ResetStale(r), t)
  BY DEF RowOK, ResetStale, Requeued, Row
<1> QED
  BY <1>1, <1>2, <1>3, <1>4

-------------------------------------------------------------------------------
(* A transition holds the attempts lock: the row is still the attempt of the   *)
(* worker that is about to store its outcome, or has been canceled since.      *)

ActCurrent == \A w \in Workers : InTransition(w) => AttemptCurrent(w)

(* What a transition may make of a row that is its own.                        *)
LEMMA OutcomeOfAttempt ==
  ASSUME PoolInv, ActCurrent, NEW w \in Workers, wk[w].pc = "act", NEW r \in OutcomeRows(w)
  PROVE  \/ r = job[wk[w].job]
         \/ /\ OwnedBy(job[wk[w].job], w)
            /\ \/ r \in {Failed(job[wk[w].job]), FailedOver(job[wk[w].job])}
               \/ r = Retried(job[wk[w].job])
               \/ /\ r = Completed(job[wk[w].job], job[wk[w].job].started)
                  /\ wk[w].outcome = "ok"
<1> DEFINE old == job[wk[w].job]
<1>1. /\ old \in Row /\ old.started = wk[w].started
      /\ CanComplete(old) => OwnedBy(old, w)
      /\ CanRetry(old, w) => OwnedBy(old, w)
      /\ CanFailover(old, w) => OwnedBy(old, w)
  BY OnJob DEF ActCurrent, InTransition, AttemptCurrent, CanComplete, CanRetry, CanFailover,
               OwnedBy, Engaged, WorkerPC
<1> HIDE DEF old
<1>2. CASE wk[w].outcome = "ok"
  BY <1>1, <1>2 DEF OutcomeRows, old
<1>3. CASE wk[w].outcome = "error"
  BY <1>1, <1>3 DEF OutcomeRows, old
<1>4. CASE wk[w].outcome = "agentError"
  BY <1>1, <1>4 DEF OutcomeRows, old
<1>5. CASE wk[w].outcome = "fatal"
  BY <1>1, <1>5 DEF OutcomeRows, old
<1>6. CASE wk[w].outcome \notin {"ok", "error", "agentError", "fatal"}
  BY <1>1, <1>6 DEF OutcomeRows, old
<1> QED
  BY <1>2, <1>3, <1>4, <1>5, <1>6

(* Any step leaves the row in order.                                           *)
LEMMA RowKept ==
  ASSUME PoolInv, ActCurrent, NEW j \in Jobs, RowStep(j), clock' \in Nat, RowOK(job[j], clock)
  PROVE  RowOK(job'[j], clock')
<1>1. job \in [Jobs -> Row] /\ job[j] \in Row /\ clock \in Nat /\ (active[j] # NoWorker) \in BOOLEAN
  BY DEF PoolInv, TypeOK
<1>2. CASE job'[j] = job[j] /\ clock' >= clock
  BY <1>1, <1>2, LaterOK
<1>3. CASE ByClient(j) /\ clock' = clock + 1
  BY <1>1, <1>3, ClientOK DEF ByClient
<1>4. CASE ByClaim(j) /\ clock' = clock + 1
  BY <1>1, <1>4, ClaimOK DEF ByClaim
<1>5. CASE ByPull(j) /\ clock' = clock + 1
  BY <1>1, <1>5, OtherOK DEF ByPull
<1>6. CASE ByBackoff(j) /\ clock' = clock
  BY <1>1, <1>6, ClientOK DEF ByBackoff
<1>7. CASE ByOutcome(j) /\ clock' = clock
  BY <1>1, <1>7, OutcomeOfAttempt, OutcomeOK DEF ByOutcome, OwnedBy
<1>8. CASE (ByRelease(j) \/ ByCancel(j)) /\ clock' = clock
  BY <1>1, <1>8, OtherOK DEF ByRelease, ByCancel, CanRelease
<1>9. CASE BySweep(j) /\ clock' = clock
  BY <1>1, <1>9, OutcomeOK DEF BySweep, OwnedBy
<1>10. CASE ByRestart(j) /\ clock' = clock
  BY <1>1, <1>10, OtherOK DEF ByRestart
<1> QED
  BY <1>2, <1>3, <1>4, <1>5, <1>6, <1>7, <1>8, <1>9, <1>10 DEF RowStep

-------------------------------------------------------------------------------
(* How one worker changes in one step.                                         *)

WkKept(w) ==
  /\ wk'[w].pc = wk[w].pc /\ wk'[w].job = wk[w].job /\ wk'[w].outcome = wk[w].outcome
  /\ wk'[w].started = wk[w].started /\ wk'[w].enq = wk[w].enq
  /\ wk[w].canceled => wk'[w].canceled

WkMoves(w) ==
  /\ wk[w].pc \in Engaged
  /\ wk'[w].pc \in {"check", "finish", "release", "free", "leave"}
  /\ wk'[w].pc = "check" => \/ wk[w].pc = "run"
                            \/ wk[w].pc = "claimed" /\ wk'[w].outcome = "error"
  /\ wk'[w].pc = "finish" => wk[w].pc \in {"check", "act"}
  /\ wk'[w].pc = "release" => wk[w].pc \in {"claimed", "check", "act", "finish"}
  /\ wk'[w].pc = "free" => wk[w].pc = "release"
  /\ wk'[w].job = wk[w].job
  /\ wk'[w].started = wk[w].started /\ wk'[w].enq = wk[w].enq

WkClaims(w) ==
  /\ ClaimJob(w)
  /\ clock' = clock + 1
  /\ wk'[w].pc = "claimed" /\ wk'[w].started = clock + 1
  /\ wk'[w].outcome = "none"

WkStep(w) ==
  \/ WkKept(w)
  \/ WkMoves(w)
  \/ WkClaims(w)
  \/ StartAttempt(w) \/ Register(w) \/ TransitionBegins(w)
  \/ /\ wk'[w].pc \in {"idle", "claiming"}
     /\ \/ wk'[w].job = NoJob
        \/ wk[w].pc \in {"idle", "claiming"} /\ wk'[w].job = wk[w].job

(* A worker's own step.                                                        *)
LEMMA OwnStep ==
  ASSUME PoolInv, NEW w \in Workers, WorkerStep(w)
  PROVE  WkStep(w)
<1>1. wk \in [Workers -> Worker] /\ wk[w] \in Worker
  BY OnJob
<1>2. CASE BeginClaim(w) \/ ClaimNothing(w) \/ LeaveJob(w)
  BY <1>1, <1>2 DEF BeginClaim, ClaimNothing, LeaveJob, At, GoTo, Idle, Worker, WkStep
<1>3. CASE ClaimJob(w)
  BY <1>1, <1>3 DEF ClaimJob, Tick, Idle, WkStep, WkClaims
<1>4. CASE StartDisplaced(w) \/ StartTimesOut(w)
  BY <1>1, <1>4 DEF StartDisplaced, StartTimesOut, GoTo, At, Worker, Engaged, WorkerPC,
                    WkStep, WkMoves
<1>5. CASE \E o \in Outcome : AttemptEnds(w, o)
  BY <1>1, <1>5 DEF AttemptEnds, At, Worker, Engaged, WorkerPC, WkStep, WkMoves
<1>6. CASE TransitionSkipped(w) \/ TransitionEnds(w) \/ TransitionUnsaved(w)
  BY <1>1, <1>6 DEF TransitionSkipped, TransitionEnds, TransitionUnsaved, AfterTransition,
                    GoTo, At, Worker, Engaged, WorkerPC, WkStep, WkMoves
<1>7. CASE FinishRunning(w) \/ FreeAttempt(w)
  BY <1>1, <1>7 DEF FinishRunning, FreeAttempt, GoTo, At, Worker, Engaged, WorkerPC,
                    WkStep, WkMoves
<1>8. CASE ReleaseClaim(w) \/ ReleaseUnsaved(w)
  BY <1>1, <1>8 DEF ReleaseClaim, ReleaseUnsaved, GoTo, At, Worker, Engaged, WorkerPC,
                    WkStep, WkMoves
<1> QED
  BY <1>2, <1>3, <1>4, <1>5, <1>6, <1>7, <1>8 DEF WorkerStep, WkStep

(* A step of another worker.                                                   *)
LEMMA OthersStep ==
  ASSUME PoolInv, NEW v \in Workers, NEW w \in Workers, v # w, WorkerStep(v)
  PROVE  wk'[w] = wk[w]
<1>1. wk \in [Workers -> Worker]
  BY OnJob
<1>2. CASE BeginClaim(v) \/ ClaimNothing(v) \/ LeaveJob(v) \/ ClaimJob(v)
  BY <1>1, <1>2 DEF BeginClaim, ClaimNothing, LeaveJob, ClaimJob, GoTo
<1>3. CASE StartAttempt(v) \/ StartDisplaced(v) \/ StartTimesOut(v) \/ Register(v)
           \/ \E o \in Outcome : AttemptEnds(v, o)
  BY <1>1, <1>3 DEF StartAttempt, StartDisplaced, StartTimesOut, Register, AttemptEnds, GoTo
<1>4. CASE \/ TransitionSkipped(v) \/ TransitionBegins(v) \/ TransitionEnds(v)
           \/ TransitionUnsaved(v) \/ FinishRunning(v) \/ ReleaseClaim(v)
           \/ ReleaseUnsaved(v) \/ FreeAttempt(v)
  BY <1>1, <1>4 DEF TransitionSkipped, TransitionBegins, TransitionEnds, TransitionUnsaved,
                    FinishRunning, ReleaseClaim, ReleaseUnsaved, FreeAttempt, GoTo
<1> QED
  BY <1>2, <1>3, <1>4 DEF WorkerStep

(* A registration names a worker.                                              *)
LEMMA NamesWorker ==
  ASSUME PoolInv, NEW j \in Jobs
  PROVE  /\ active[j] # NoWorker => active[j] \in Workers
         /\ running[j].worker # NoWorker => running[j].worker \in Workers
BY DEF PoolInv, TypeOK, Handler

(* Any step of the pool.                                                       *)
LEMMA NextWorkers ==
  ASSUME PoolInv, Next, NEW w \in Workers
  PROVE  WkStep(w)
<1>1. wk \in [Workers -> Worker] /\ cn \in [Cancelers -> Cancel]
  BY DEF PoolInv, TypeOK
<1>2. UNCHANGED wk => WkStep(w)
  BY DEF WkStep, WkKept
<1>3. \A v \in Workers : wk' = Interrupt(v) => WkStep(w)
  BY <1>1, InterruptKeeps DEF Interrupt, Worker, WkStep, WkKept
<1>4. ASSUME ClientStep PROVE UNCHANGED wk
  BY <1>4 DEF ClientStep, Enqueue, Rerun, SetPaused
<1>5. ASSUME NEW j \in Jobs, BackoffElapses(j) PROVE UNCHANGED wk
  BY <1>5 DEF BackoffElapses
<1>6. ASSUME NEW v \in Workers, WorkerStep(v) PROVE WkStep(w)
  <2>1. CASE v = w
    BY <1>6, <2>1, OwnStep
  <2>2. CASE v # w
    BY <1>6, <2>2, OthersStep DEF WkStep, WkKept
  <2> QED
    BY <2>1, <2>2
<1>7. ASSUME NEW c \in Cancelers, NEW j \in Jobs, NEW b \in BOOLEAN, CancelRow(c, j, b)
      PROVE  UNCHANGED wk
  BY <1>7 DEF CancelRow
<1>8. ASSUME NEW c \in Cancelers, CancelStep(c) PROVE WkStep(w)
  <2>1. CASE CancelRegistered(c)
    <3>1. cn[c].job \in Jobs
      BY <1>1, <2>1 DEF CancelRegistered, Cancel, CancelPC, NoCancel
    <3> QED
      BY <1>3, <2>1, <3>1, NamesWorker DEF CancelRegistered
  <2>2. CASE ~CancelRegistered(c)
    BY <1>2, <1>8, <2>2 DEF CancelStep, CancelUnregistered, CancelRereads, CancelReadFails, CancelPending
  <2> QED
    BY <2>1, <2>2
<1>9. ASSUME SweepStep PROVE UNCHANGED wk
  BY <1>9 DEF SweepStep, SweepList, SweepOwned, SweepUnowned, SweepLoad, SweepFail, SweepSpare
<1>10. ASSUME NEW j \in Jobs, NEW st \in {"done", "failed", "canceled"}, Pull(j, st)
       PROVE  WkStep(w)
  BY <1>2, <1>3, <1>10, NamesWorker DEF Pull
<1>11. ASSUME Restart PROVE WkStep(w)
  BY <1>11 DEF Restart, Idle, WkStep
<1> QED
  BY <1>2, <1>4, <1>5, <1>6, <1>7, <1>8, <1>9, <1>10, <1>11 DEF Next

(* Time does not run backwards.                                                *)
LEMMA NextClock ==
  ASSUME PoolInv, Next
  PROVE  clock \in Nat /\ clock' \in Nat /\ clock' >= clock
<1>1. clock \in Nat
  BY DEF PoolInv, TypeOK
<1>2. CASE clock' = clock \/ clock' = clock + 1
  BY <1>1, <1>2
<1>3. CASE ClientStep
  BY <1>2, <1>3 DEF ClientStep, Enqueue, Rerun, SetPaused, Tick
<1>4. CASE \E w \in Workers : WorkerStep(w)
  BY <1>2, <1>4 DEF WorkerStep, BeginClaim, ClaimJob, Tick, ClaimNothing, StartAttempt,
    StartDisplaced, StartTimesOut, Register, AttemptEnds, TransitionSkipped, TransitionBegins,
    TransitionEnds, TransitionUnsaved, FinishRunning, ReleaseClaim, ReleaseUnsaved, FreeAttempt,
    LeaveJob, db
<1>5. ASSUME NEW c \in Cancelers, CancelStep(c) \/ \E j \in Jobs, b \in BOOLEAN : CancelRow(c, j, b)
      PROVE  clock' = clock
  BY <1>5 DEF CancelStep, CancelRow, CancelRegistered, CancelUnregistered, CancelRereads,
     CancelReadFails,
              CancelPending, db
<1>6. CASE SweepStep
  BY <1>2, <1>6 DEF SweepStep, SweepList, SweepOwned, SweepUnowned, SweepLoad, SweepFail,
                    SweepSpare, db
<1>7. CASE \/ \E j \in Jobs : BackoffElapses(j)
           \/ \E j \in Jobs, st \in {"done", "failed", "canceled"} : Pull(j, st)
           \/ Restart
  BY <1>2, <1>7 DEF BackoffElapses, Pull, Tick, Restart
<1> QED
  BY <1>2, <1>3, <1>4, <1>5, <1>6, <1>7 DEF Next

-------------------------------------------------------------------------------
(* The invariant: rows, stamps, sessions and the attempts behind them.         *)

RowsOK == \A j \in Jobs : RowOK(job[j], clock)

(* An attempt began in the past.                                               *)
Stamps == \A w \in Workers : wk[w].pc \in Engaged => wk[w].started <= clock

(* Who has an answer to store is registered.                                   *)
AnswerHeld ==
  \A w \in Workers :
    (wk[w].pc \in {"check", "act"} /\ wk[w].outcome = "ok") => active[wk[w].job] = w

SameSession(r, q) ==
  HoldsSession(r) /\ HoldsSession(q) /\ r.session = q.session /\ r.session # NoSession

OneHolder == \A i, j \in Jobs : SameSession(job[i], job[j]) => i = j

Requested == \A r \in Requests, j \in Jobs : requests[r] = j => job[j].status # "absent"

RowInv == PoolInv /\ ActCurrent /\ RowsOK /\ Stamps /\ AnswerHeld /\ OneHolder /\ Requested

(* A transition cannot be overtaken: what would change its row takes the lock  *)
(* it holds, or is meant for another status or another worker.                 *)
LEMMA ActCurrentKept ==
  ASSUME PoolInv, ActCurrent, Next
  PROVE  ActCurrent'
<1> SUFFICES ASSUME NEW w \in Workers, wk'[w].pc = "act" PROVE AttemptCurrent(w)'
  BY DEF ActCurrent, InTransition
<1>1. WkStep(w)
  BY NextWorkers
<1>2. CASE TransitionBegins(w)
  BY <1>2, OnJob DEF TransitionBegins, GoTo, Worker, AttemptCurrent, db
<1>3. CASE WkKept(w)
  <2> DEFINE j == wk[w].job
  <2>1. /\ wk[w].pc = "act" /\ AttemptCurrent(w) /\ j \in Jobs /\ ~NoTransition
        /\ job \in [Jobs -> Row] /\ job[j] \in Row /\ w # NoWorker
    BY <1>3, OnJob DEF WkKept, ActCurrent, InTransition, NoTransition, Engaged, WorkerPC
  <2>2. /\ job[j].status \in {"running", "canceled"} /\ job[j].worker = w
        /\ job[j].started = wk[w].started /\ job[j].enq = wk[w].enq
    BY <2>1 DEF AttemptCurrent
  <2>3. /\ job'[j].status \in {"running", "canceled"} /\ job'[j].worker = w
        /\ job'[j].started = job[j].started /\ job'[j].enq = job[j].enq
    <3>1. RowStep(j)
      BY <2>1, NextRows
    <3>2. ~ByClient(j) /\ ~ByClaim(j) /\ ~ByPull(j)
      BY <2>1, <2>2 DEF ByClient, ByClaim, ByPull, Eligible
    <3>3. ~ByOutcome(j)
      <4> SUFFICES ASSUME NEW v \in Workers, wk[v].pc = "act", wk[v].job = j, wk'[v].pc # "act"
                   PROVE  FALSE
        BY DEF ByOutcome
      <4>1. job[j].worker = v
        BY DEF ActCurrent, InTransition, AttemptCurrent
      <4> QED
        BY <2>2, <4>1, <1>3 DEF WkKept
    <3>4. ~ByRelease(j)
      BY <2>1, <2>2 DEF ByRelease, CanRelease
    <3>5. ~BySweep(j)
      BY <2>1, <2>2 DEF BySweep, OwnedBy, Owns
    <3>6. ~ByRestart(j)
      BY DEF ByRestart, Restart, Idle
    <3>7. CASE ByBackoff(j) \/ ByCancel(j) \/ job'[j] = job[j]
      BY <2>1, <2>2, <3>7 DEF ByBackoff, ByCancel, Canceled, Row
    <3> QED
      BY <3>1, <3>2, <3>3, <3>4, <3>5, <3>6, <3>7 DEF RowStep
  <2> QED
    BY <1>3, <2>2, <2>3 DEF WkKept, AttemptCurrent
<1>4. wk'[w].pc = "act" => ~WkMoves(w) /\ ~WkClaims(w) /\ ~StartAttempt(w) /\ ~Register(w)
  BY OnJob DEF WkMoves, WkClaims, StartAttempt, Register, Worker
<1> QED
  BY <1>1, <1>2, <1>3, <1>4 DEF WkStep

(* Stamps come from a clock that advances with each.                           *)
LEMMA StampsKept ==
  ASSUME PoolInv, Stamps, Next
  PROVE  Stamps'
<1> SUFFICES ASSUME NEW w \in Workers, wk'[w].pc \in Engaged PROVE wk'[w].started <= clock'
  BY DEF Stamps
<1>1. WkStep(w) /\ clock \in Nat /\ clock' \in Nat /\ clock' >= clock /\ wk[w].started \in Nat
  BY NextWorkers, NextClock, OnJob
<1>2. CASE WkKept(w) \/ WkMoves(w)
  BY <1>1, <1>2 DEF WkKept, WkMoves, Stamps
<1>3. CASE WkClaims(w)
  BY <1>1, <1>3 DEF WkClaims
<1>4. CASE StartAttempt(w) \/ Register(w) \/ TransitionBegins(w)
  <2>1. wk[w].pc \in Engaged /\ wk'[w].started = wk[w].started
    BY <1>4, OnJob DEF StartAttempt, Register, TransitionBegins, At, GoTo, Worker, Engaged, WorkerPC
  <2> QED
    BY <1>1, <2>1 DEF Stamps
<1>5. wk'[w].pc \notin {"idle", "claiming"}
  BY DEF Engaged
<1> QED
  BY <1>1, <1>2, <1>3, <1>4, <1>5 DEF WkStep

-------------------------------------------------------------------------------
(* The registry changes when an attempt starts, when it is over, or with the   *)
(* daemon.                                                                     *)
LEMMA NextActive ==
  ASSUME Next
  PROVE  \/ UNCHANGED active
         \/ \E v \in Workers : StartAttempt(v) \/ FreeAttempt(v)
         \/ Restart
<1>1. CASE ClientStep
  BY <1>1 DEF ClientStep, Enqueue, Rerun, SetPaused, memory
<1>2. CASE \E j \in Jobs : BackoffElapses(j)
  BY <1>2 DEF BackoffElapses, memory
<1>3. ASSUME NEW v \in Workers, WorkerStep(v)
      PROVE  UNCHANGED active \/ StartAttempt(v) \/ FreeAttempt(v)
  BY <1>3 DEF WorkerStep, BeginClaim, ClaimJob, ClaimNothing, StartDisplaced, StartTimesOut,
    Register, AttemptEnds, TransitionSkipped, TransitionBegins, TransitionEnds,
    TransitionUnsaved, FinishRunning, ReleaseClaim, ReleaseUnsaved, LeaveJob, memory
<1>4. ASSUME NEW c \in Cancelers, CancelStep(c) \/ \E j \in Jobs, b \in BOOLEAN : CancelRow(c, j, b)
      PROVE  UNCHANGED active
  BY <1>4 DEF CancelStep, CancelRow, CancelRegistered, CancelUnregistered, CancelRereads,
     CancelReadFails,
              CancelPending, memory
<1>5. CASE SweepStep
  BY <1>5 DEF SweepStep, SweepList, SweepOwned, SweepUnowned, SweepLoad, SweepFail,
              SweepSpare, memory
<1>6. CASE \E j \in Jobs, st \in {"done", "failed", "canceled"} : Pull(j, st)
  BY <1>6 DEF Pull, memory
<1> QED
  BY <1>1, <1>2, <1>3, <1>4, <1>5, <1>6 DEF Next

(* A registration lasts as long as its attempt.                                *)
LEMMA StaysRegistered ==
  ASSUME PoolInv, Next, NEW w \in Workers, NEW j \in Jobs, active[j] = w, wk[w].pc # "free"
  PROVE  active'[j] = w \/ Restart
<1>1. active \in [Jobs -> Workers \cup {NoWorker}] /\ w # NoWorker
  BY OnJob DEF PoolInv, TypeOK
<1>2. ASSUME NEW v \in Workers, StartAttempt(v) PROVE active'[j] = w
  BY <1>1, <1>2 DEF StartAttempt, PreviousGone
<1>3. ASSUME NEW v \in Workers, FreeAttempt(v) PROVE active'[j] = w
  <2>1. active[wk[v].job] = v /\ v # w
    BY <1>3, OnJob DEF FreeAttempt, At, Holds
  <2> QED
    BY <1>1, <1>3, <2>1 DEF FreeAttempt
<1> QED
  BY <1>2, <1>3, NextActive

(* An answer comes from an attempt that ran, and is stored before it lets go.  *)
LEMMA AnswerKept ==
  ASSUME PoolInv, AnswerHeld, Next
  PROVE  AnswerHeld'
<1> SUFFICES ASSUME NEW w \in Workers, wk'[w].pc \in {"check", "act"}, wk'[w].outcome = "ok"
             PROVE  active'[wk'[w].job] = w
  BY DEF AnswerHeld
<1>1. WkStep(w) /\ ~Restart
  BY NextWorkers DEF Restart, Idle
<1>2. /\ wk[w].pc \in Engaged /\ wk[w].pc # "free" /\ active[wk[w].job] = w
      /\ wk'[w].job = wk[w].job
  <2>1. CASE WkKept(w)
    BY <2>1 DEF WkKept, AnswerHeld, Engaged, WorkerPC
  <2>2. CASE WkMoves(w)
    BY <2>2, OnJob DEF WkMoves, Engaged, WorkerPC, Holds
  <2>3. CASE TransitionBegins(w)
    BY <2>3, OnJob DEF TransitionBegins, At, GoTo, Worker, AnswerHeld, Engaged, WorkerPC
  <2>4. ~WkClaims(w) /\ ~StartAttempt(w) /\ ~Register(w)
    BY OnJob DEF WkClaims, StartAttempt, Register, Worker
  <2> QED
    BY <1>1, <2>1, <2>2, <2>3, <2>4 DEF WkStep
<1>3. wk[w].job \in Jobs
  BY <1>2, OnJob
<1> QED
  BY <1>1, <1>2, <1>3, StaysRegistered

-------------------------------------------------------------------------------
(* A row takes part in a session by a claim only, and keeps the session it had *)
(* in everything else that leaves it there.                                    *)
LEMMA HolderStep ==
  ASSUME PoolInv, ActCurrent, RowsOK, NEW j \in Jobs, RowStep(j), ~ByClaim(j),
         HoldsSession(job'[j]), job'[j].session # NoSession
  PROVE  HoldsSession(job[j]) /\ job[j].session = job'[j].session
<1>1. job[j] \in Row /\ RowOK(job[j], clock)
  BY DEF PoolInv, TypeOK, RowsOK
<1>2. CASE ByClient(j)
  BY <1>1, <1>2 DEF ByClient, Inserted, Absent, Reenqueued, Requeued, HoldsSession, Row
<1>3. CASE ByBackoff(j)
  BY <1>1, <1>3 DEF ByBackoff, HoldsSession, Row
<1>4. CASE ByOutcome(j)
  <2>1. PICK w \in Workers : wk[w].pc = "act" /\ wk[w].job = j /\ job'[j] \in OutcomeRows(w)
    BY <1>4 DEF ByOutcome
  <2>2. job'[j] = job[j] \/ job'[j].status \in {"queued", "done", "failed"}
    <3> DEFINE r == job[j]
    <3>1. /\ Failed(r).status = "failed" /\ FailedOver(r).status = "queued"
          /\ Retried(r).status = "queued" /\ Completed(r, r.started).status = "done"
      BY <1>1 DEF Failed, FailedOver, Retried, Requeued, Completed, Row
    <3> QED
      BY <2>1, <3>1, OutcomeOfAttempt
  <2> QED
    BY <2>2 DEF HoldsSession
<1>5. CASE ByRelease(j)
  BY <1>1, <1>5 DEF ByRelease, CanRelease, Released, HoldsSession, Row
<1>6. CASE ByCancel(j)
  BY <1>1, <1>6 DEF ByCancel, CanCancel, Canceled, HoldsSession, RowOK, Row
<1>7. CASE BySweep(j)
  BY <1>1, <1>7 DEF BySweep, Failed, HoldsSession, Row
<1>8. CASE ByPull(j)
  BY <1>1, <1>8 DEF ByPull, Pulled, Row
<1>9. CASE ByRestart(j)
  BY <1>1, <1>9 DEF ByRestart, ResetStale, Requeued, HoldsSession, Row
<1> QED
  BY <1>2, <1>3, <1>4, <1>5, <1>6, <1>7, <1>8, <1>9 DEF RowStep

(* A claimed row resumes its session only when nobody else writes to it.       *)
LEMMA ClaimAlone ==
  ASSUME PoolInv, OneHolder, NEW j \in Jobs, ByClaim(j), NEW i \in Jobs, i # j
  PROVE  ~SameSession(job'[i], job'[j])
<1>1. PICK w \in Workers : /\ job'[j] = Claimed(job, j, w, clock + 1)
                           /\ \A k \in Jobs \ {j} : job'[k] = job[k]
  BY DEF ByClaim
<1>2. job[j] \in Row /\ job'[i] = job[i]
  BY <1>1 DEF PoolInv, TypeOK
<1>3. job'[j].session = SessionAfterClaim(job, j)
  BY <1>1, <1>2 DEF Claimed, Row
<1>4. HoldsSession(job[i]) /\ job[i].session = job[j].session => job'[j].session = NoSession
  BY <1>3 DEF SessionAfterClaim
<1>5. job'[j].session \in {NoSession, job[j].session}
  BY <1>3 DEF SessionAfterClaim
<1> QED
  BY <1>2, <1>4, <1>5 DEF SameSession

(* No two rows come to write to one session.                                   *)
LEMMA OneHolderKept ==
  ASSUME PoolInv, ActCurrent, RowsOK, OneHolder, Next
  PROVE  OneHolder'
<1> SUFFICES ASSUME NEW i \in Jobs, NEW j \in Jobs, SameSession(job'[i], job'[j]), i # j
             PROVE  FALSE
  BY DEF OneHolder
<1>1. RowStep(i) /\ RowStep(j) /\ SameSession(job'[j], job'[i])
  BY NextRows DEF SameSession
<1>2. ~ByClaim(i) /\ ~ByClaim(j)
  BY <1>1, ClaimAlone
<1>3. SameSession(job[i], job[j])
  BY <1>1, <1>2, HolderStep DEF SameSession
<1> QED
  BY <1>3 DEF OneHolder

(* A row that is there stays there.                                            *)
LEMMA StaysThere ==
  ASSUME PoolInv, ActCurrent, NEW j \in Jobs, RowStep(j), job'[j].status = "absent"
  PROVE  job[j].status = "absent"
<1>1. job[j] \in Row /\ job \in [Jobs -> Row]
  BY DEF PoolInv, TypeOK
<1>2. ~ByClient(j) /\ ~ByClaim(j) /\ ~ByPull(j) /\ ~ByCancel(j) /\ ~BySweep(j)
  BY <1>1 DEF ByClient, Inserted, Absent, Reenqueued, Requeued, ByClaim, Claimed, ByPull, Pulled,
              ByCancel, Canceled, BySweep, Failed, Row
<1>3. CASE ByBackoff(j) \/ ByRelease(j) \/ ByRestart(j)
  BY <1>1, <1>3 DEF ByBackoff, ByRelease, Released, ByRestart, ResetStale, Requeued, Row
<1>4. CASE ByOutcome(j)
  <2>1. PICK w \in Workers : wk[w].pc = "act" /\ wk[w].job = j /\ job'[j] \in OutcomeRows(w)
    BY <1>4 DEF ByOutcome
  <2>2. job'[j] = job[j] \/ job'[j].status \in {"queued", "done", "failed"}
    <3> DEFINE r == job[j]
    <3>1. /\ Failed(r).status = "failed" /\ FailedOver(r).status = "queued"
          /\ Retried(r).status = "queued" /\ Completed(r, r.started).status = "done"
      BY <1>1 DEF Failed, FailedOver, Retried, Requeued, Completed, Row
    <3> QED
      BY <2>1, <3>1, OutcomeOfAttempt
  <2> QED
    BY <2>2
<1> QED
  BY <1>2, <1>3, <1>4 DEF RowStep

(* A rerun is recorded for a row that is there.                                *)
LEMMA RequestedKept ==
  ASSUME PoolInv, ActCurrent, Requested, Next
  PROVE  Requested'
<1>1. requests \in [Requests -> Jobs \cup {NoRequestJob}] /\ job \in [Jobs -> Row]
  BY DEF PoolInv, TypeOK
<1>2. \A j \in Jobs : job'[j].status = "absent" => job[j].status = "absent"
  BY NextRows, StaysThere
<1>3. CASE UNCHANGED requests
  BY <1>2, <1>3 DEF Requested
<1>4. ASSUME NEW i \in Jobs, NEW q \in Requests, Rerun(i, q) PROVE Requested'
  <2>1. job[i].status # "absent" /\ requests' = [requests EXCEPT ![q] = i]
    BY <1>4 DEF Rerun, CanRerun, CanReenqueue
  <2> QED
    BY <1>1, <1>2, <2>1 DEF Requested
<1>5. UNCHANGED requests \/ \E i \in Jobs, q \in Requests : Rerun(i, q)
  <2>1. CASE ClientStep
    BY <2>1 DEF ClientStep, Enqueue, SetPaused
  <2>2. CASE \E j \in Jobs : BackoffElapses(j)
    BY <2>2 DEF BackoffElapses
  <2>3. CASE \E w \in Workers : WorkerStep(w)
    BY <2>3 DEF WorkerStep, BeginClaim, ClaimJob, ClaimNothing, StartAttempt, StartDisplaced,
      StartTimesOut, Register, AttemptEnds, TransitionSkipped, TransitionBegins, TransitionEnds,
      TransitionUnsaved, FinishRunning, ReleaseClaim, ReleaseUnsaved, FreeAttempt, LeaveJob, db
  <2>4. ASSUME NEW c \in Cancelers,
               CancelStep(c) \/ \E j \in Jobs, b \in BOOLEAN : CancelRow(c, j, b)
        PROVE  UNCHANGED requests
    BY <2>4 DEF CancelStep, CancelRow, CancelRegistered, CancelUnregistered, CancelRereads,
       CancelReadFails,
                CancelPending, db
  <2>5. CASE SweepStep
    BY <2>5 DEF SweepStep, SweepList, SweepOwned, SweepUnowned, SweepLoad, SweepFail,
                SweepSpare, db
  <2>6. CASE Restart \/ \E j \in Jobs, st \in {"done", "failed", "canceled"} : Pull(j, st)
    BY <2>6 DEF Pull, Restart
  <2> QED
    BY <2>1, <2>2, <2>3, <2>4, <2>5, <2>6 DEF Next
<1> QED
  BY <1>3, <1>4, <1>5

(* The rows of an empty table are in order.                                    *)
LEMMA RowInit == Init => RowInv
<1> SUFFICES ASSUME Init PROVE RowInv
  OBVIOUS
<1>1. \A j \in Jobs : job[j] = Absent
  BY DEF Init
<1>2. \A w \in Workers : wk[w].pc = "idle" /\ wk[w].outcome = "none"
  BY DEF Init, Idle
<1>3. RowOK(Absent, clock) /\ ~HoldsSession(Absent)
  BY DEF Init, RowOK, Absent, HoldsSession
<1>4. Requested
  BY PoolAssumption DEF Init, Requested
<1> QED
  BY <1>1, <1>2, <1>3, <1>4, PoolInit DEF RowInv, ActCurrent, InTransition, RowsOK, Stamps, Engaged,
     AnswerHeld, OneHolder, SameSession

(* Every reachable state is in order.                                          *)
THEOREM RowInvariant == Spec => []RowInv
<1>1. RowInv /\ [Next]_vars => RowInv'
  <2>1. CASE Next
    <3> SUFFICES ASSUME RowInv PROVE RowInv'
      BY <2>1
    <3>1. PoolInv'
      BY <2>1, ClientKeeps, BackoffKeeps, WorkerKeeps, CancelRowKeeps, CancelKeeps,
         SweepKeeps, PullKeeps, RestartKeeps DEF Next, RowInv
    <3>2. ActCurrent' /\ Stamps' /\ AnswerHeld' /\ OneHolder' /\ Requested'
      BY <2>1, ActCurrentKept, StampsKept, AnswerKept, OneHolderKept, RequestedKept DEF RowInv
    <3>3. RowsOK'
      BY <2>1, NextRows, NextClock, RowKept DEF RowInv, RowsOK
    <3> QED
      BY <3>1, <3>2, <3>3 DEF RowInv
  <2>2. CASE UNCHANGED vars
    BY <2>2 DEF vars, db, memory, RowInv, PoolInv, TypeOK, HasJob, Registered, Holds, HandlerHeld,
       ActCurrent, InTransition, AttemptCurrent, RowsOK, Stamps, AnswerHeld, OneHolder, Requested
  <2> QED
    BY <2>1, <2>2
<1> QED
  BY RowInit, <1>1, PTL DEF Spec

-------------------------------------------------------------------------------
(* What follows for the rows.                                                  *)

(* A stored review is the one of the attempt its row describes, and a done row *)
(* of this machine has its review, although CompleteJob asks for the status    *)
(* alone.                                                                      *)
THEOREM RowsHoldTheirReview == Spec => []ReviewOfThisAttempt
<1>1. RowInv => ReviewOfThisAttempt
  BY DEF RowInv, RowsOK, RowOK, ReviewOfThisAttempt
<1> QED
  BY RowInvariant, <1>1, PTL

(* No two agents resume one session.                                           *)
THEOREM OneSessionEach == Spec => []OneAgentPerSession
<1>1. RowInv => OneAgentPerSession
  <2> SUFFICES ASSUME RowInv, NEW v \in Workers, NEW w \in Workers,
                      wk[v].pc \in {"started", "run"}, AttemptCurrent(v),
                      wk[w].pc \in {"started", "run"}, AttemptCurrent(w),
                      job[wk[v].job].session = job[wk[w].job].session,
                      job[wk[v].job].session # NoSession
               PROVE  v = w
    BY DEF OneAgentPerSession
  <2>1. wk[v].job \in Jobs /\ wk[w].job \in Jobs /\ v # NoWorker /\ w # NoWorker
    BY OnJob DEF RowInv, Engaged, WorkerPC
  <2>2. SameSession(job[wk[v].job], job[wk[w].job])
    BY <2>1 DEF AttemptCurrent, SameSession, HoldsSession
  <2>3. wk[v].job = wk[w].job
    BY <2>1, <2>2 DEF RowInv, OneHolder
  <2> QED
    BY <2>3 DEF AttemptCurrent
<1> QED
  BY RowInvariant, <1>1, PTL

(* An attempt is ended by the worker that claimed it, by the sweep once the    *)
(* pool disowns it, or by a cancel, a pull or a new daemon.                    *)
THEOREM EndsByItsWorker == Spec => EndedByItsWorker
<1> DEFINE Ended(j) ==
      (/\ job[j].status = "running"
       /\ job'[j].status \in {"done", "failed", "queued"}
       /\ job'[j].enq = job[j].enq
       /\ restarts' = restarts)
      => LET w == job[j].worker
         IN  \/ /\ wk[w].job = j
                /\ wk[w].pc \in {"check", "act"} /\ wk'[w].pc # wk[w].pc
                /\ wk[w].started = job[j].started
             \/ job'[j].status = "failed" /\ ~Owns(w, j)
<1>1. RowInv /\ [Next]_vars => [\A j \in Jobs : Ended(j)]_vars
  <2> SUFFICES ASSUME RowInv, Next, NEW j \in Jobs,
                      job[j].status = "running", job'[j].status \in {"done", "failed", "queued"},
                      job'[j].enq = job[j].enq, restarts' = restarts
               PROVE  Ended(j)
    OBVIOUS
  <2>1. /\ RowStep(j) /\ job[j] \in Row /\ clock \in Nat /\ restarts \in Nat
        /\ RowOK(job[j], clock) /\ job[j].worker # NoWorker
    BY NextRows DEF RowInv, PoolInv, TypeOK, RowsOK, RowOK
  <2>2. ~ByClient(j) /\ ~ByClaim(j) /\ ~ByRelease(j)
    BY DEF ByClient, CanRerun, CanReenqueue, ByClaim, Eligible, ByRelease, CanRelease
  <2>3. ~ByPull(j)
    <3>1. ASSUME NEW st, NEW b PROVE Pulled(job[j], st, clock + 1, b).enq = clock + 1
      BY <2>1 DEF Pulled, Row
    <3>2. job[j].enq \in Nat /\ job[j].enq <= clock
      BY <2>1 DEF Row, RowOK
    <3> QED
      BY <2>1, <3>1, <3>2 DEF ByPull
  <2>4. ~ByBackoff(j) /\ ~ByCancel(j) /\ ~(job'[j] = job[j])
    BY <2>1 DEF ByBackoff, ByCancel, Canceled, Row
  <2>5. ~ByRestart(j)
    BY <2>1 DEF ByRestart, Restart
  <2>6. CASE ByOutcome(j)
    <3>1. PICK w \in Workers : wk[w].pc = "act" /\ wk[w].job = j /\ wk'[w].pc # "act"
      BY <2>6 DEF ByOutcome
    <3>2. job[j].worker = w /\ wk[w].started = job[j].started
      BY <3>1 DEF RowInv, ActCurrent, InTransition, AttemptCurrent
    <3> QED
      BY <3>1, <3>2
  <2>7. CASE BySweep(j)
    <3>1. PICK w : OwnedBy(job[j], w) /\ ~Owns(w, j) /\ job'[j] = Failed(job[j])
      BY <2>7 DEF BySweep
    <3> QED
      BY <2>1, <3>1 DEF OwnedBy, Failed, Row
  <2> QED
    BY <2>1, <2>2, <2>3, <2>4, <2>5, <2>6, <2>7 DEF RowStep
<1> QED
  BY RowInvariant, <1>1, PTL DEF Spec, EndedByItsWorker

(* A canceled row is released, replaced by a newer pulled attempt, or requeued *)
(* by a rerun once no worker holds its claim, and nothing else.                *)
THEOREM CanceledStays == Spec => CanceledUntilRerun
<1> DEFINE Kept(j) ==
      (job[j].status = "canceled" /\ job'[j].status # "canceled") =>
         \/ job'[j].enq > job[j].enq /\ job'[j].status \in Terminal
         \/ /\ job'[j].status = "queued" /\ requests' # requests
            /\ \A w \in Workers : wk[w].job = j => ~AttemptCurrent(w)
<1>1. RowInv /\ [Next]_vars => [\A j \in Jobs : Kept(j)]_vars
  <2> SUFFICES ASSUME RowInv, Next, NEW j \in Jobs,
                      job[j].status = "canceled", job'[j].status # "canceled"
               PROVE  Kept(j)
    OBVIOUS
  <2>1. /\ RowStep(j) /\ job[j] \in Row /\ clock \in Nat
        /\ RowOK(job[j], clock)
    BY NextRows DEF RowInv, PoolInv, TypeOK, RowsOK
  <2>2. ~ByClaim(j) /\ ~ByCancel(j) /\ ~BySweep(j) /\ ~(job'[j] = job[j])
    BY DEF ByClaim, Eligible, ByCancel, CanCancel, BySweep, OwnedBy
  <2>3. ~ByBackoff(j) /\ ~ByRelease(j) /\ ~ByRestart(j)
    BY <2>1 DEF ByBackoff, ByRelease, Released, ByRestart, ResetStale, Row
  <2>4. ~ByOutcome(j)
    <3> SUFFICES ASSUME NEW w \in Workers, wk[w].pc = "act", wk[w].job = j,
                        job'[j] \in OutcomeRows(w)
                 PROVE  FALSE
      BY DEF ByOutcome
    <3> QED
      BY OutcomeOfAttempt DEF RowInv, OwnedBy
  <2>5. CASE ByPull(j)
    BY <2>1, <2>5 DEF ByPull, Pulled, Row, RowOK, Terminal
  <2>6. CASE ByClient(j)
    <3>1. CanRerun(j) /\ job'[j] = Reenqueued(job[j], clock + 1) /\ requests' # requests
      BY <2>6 DEF ByClient
    <3>2. job'[j].status = "queued" /\ job[j].worker = NoWorker
      BY <2>1, <3>1 DEF Reenqueued, Requeued, Row, CanRerun, CanReenqueue
    <3>3. \A w \in Workers : wk[w].job = j => ~AttemptCurrent(w)
      BY <3>2, ConstAssumption DEF AttemptCurrent
    <3> QED
      BY <3>1, <3>2, <3>3
  <2> QED
    BY <2>1, <2>2, <2>3, <2>4, <2>5, <2>6 DEF RowStep
<1> QED
  BY RowInvariant, <1>1, PTL DEF Spec, CanceledUntilRerun

-------------------------------------------------------------------------------
(* The pool is a JobLifecycle: first what a step does to the phase and the     *)
(* review of one row.                                                          *)

Reviewed(r) == r.review # 0

SameReview(j) == Reviewed(job'[j]) <=> Reviewed(job[j])

RowPromise(j) ==
  LET from == Phase(job[j])
      to   == Phase(job'[j])
  IN  \/ from = to /\ SameReview(j)
      \/ from = "absent" /\ to = "queued" /\ SameReview(j)
      \/ from = "queued" /\ to \in {"running", "canceled"} /\ SameReview(j)
      \/ from = "running" /\ to \in {"failed", "queued", "stopping"} /\ SameReview(j)
      \/ active[j] # NoWorker /\ from = "running" /\ to = "done" /\ Reviewed(job'[j])
      \/ from = "stopping" /\ to = "canceled" /\ SameReview(j)
      \/ /\ active[j] = NoWorker /\ from \in {"done", "failed", "canceled"} /\ to = "queued"
         /\ ~Reviewed(job'[j])
      \/ /\ from # "absent" /\ ~Reviewed(job'[j])
         /\ \/ to \in {"done", "failed", "canceled"}
            \/ to = "stopping" /\ active[j] # NoWorker

(* What RowOK says of a row's phase and review.                                *)
LEMMA PhaseFacts ==
  ASSUME RowInv, NEW j \in Jobs
  PROVE  /\ job[j] \in Row /\ clock \in Nat
         /\ job[j].status = "queued" => job[j].worker = NoWorker
         /\ job[j].status = "running" => job[j].worker # NoWorker /\ job[j].started # 0
         /\ job[j].status # "done" => ~Reviewed(job[j])
         /\ job[j].status \in {"absent", "queued", "running", "done", "failed", "canceled"}
<1>1. job[j] \in Row /\ clock \in Nat /\ RowOK(job[j], clock)
  BY DEF RowInv, PoolInv, TypeOK, RowsOK
<1>2. job[j].status = "running" => job[j].started # 0
  BY <1>1 DEF RowOK, Row
<1> QED
  BY <1>1, <1>2 DEF RowOK, Reviewed

(* Clients: an insert or a rerun.                                              *)
LEMMA ClientPromise ==
  ASSUME RowInv, NEW j \in Jobs, ByClient(j)
  PROVE  RowPromise(j)
<1>1. CASE \E s \in Sessions \cup {NoSession} :
             job[j].status = "absent" /\ job'[j] = Inserted(clock + 1, s, FALSE)
  <2>1. /\ job'[j].status = "queued" /\ ~Reviewed(job'[j])
        /\ job[j].status = "absent" /\ ~Reviewed(job[j])
    BY <1>1, PhaseFacts DEF Inserted, Absent, Reviewed
  <2> QED
    BY <2>1 DEF RowPromise, Phase, SameReview
<1>2. CASE CanRerun(j) /\ job'[j] = Reenqueued(job[j], clock + 1)
  <2>1. job'[j].status = "queued" /\ ~Reviewed(job'[j])
    BY <1>2, PhaseFacts DEF Reenqueued, Requeued, Row, Reviewed
  <2>2. active[j] = NoWorker /\ Phase(job[j]) \in {"done", "failed", "canceled"}
    BY <1>2, PhaseFacts DEF CanRerun, CanReenqueue, Phase
  <2> QED
    BY <2>1, <2>2 DEF RowPromise, Phase
<1> QED
  BY <1>1, <1>2 DEF ByClient

(* A worker's outcome: only a registered worker stores an answer.              *)
LEMMA OutcomePromise ==
  ASSUME RowInv, NEW j \in Jobs, ByOutcome(j)
  PROVE  RowPromise(j)
<1> DEFINE r == job[j]
<1>1. PICK w \in Workers : wk[w].pc = "act" /\ wk[w].job = j /\ job'[j] \in OutcomeRows(w)
  BY DEF ByOutcome
<1>2. PoolInv /\ ActCurrent /\ r \in Row
  BY PhaseFacts DEF RowInv
<1>3. CASE job'[j] = r
  BY <1>3 DEF RowPromise, SameReview
<1>4. CASE OwnedBy(r, w) /\ job'[j] \in {Failed(r), FailedOver(r), Retried(r)}
  <2>1. /\ job'[j].status \in {"failed", "queued"} /\ job'[j].review = r.review
        /\ r.status = "running"
    BY <1>2, <1>4 DEF Failed, FailedOver, Retried, Requeued, Row, OwnedBy
  <2> QED
    BY <2>1 DEF RowPromise, Phase, SameReview, Reviewed
<1>5. CASE OwnedBy(r, w) /\ job'[j] = Completed(r, r.started) /\ wk[w].outcome = "ok"
  <2>1. /\ job'[j].status = "done" /\ job'[j].review = r.started /\ r.status = "running"
    BY <1>2, <1>5 DEF Completed, Row, OwnedBy
  <2>2. active[j] = w /\ w # NoWorker
    BY <1>1, <1>5, ConstAssumption DEF RowInv, AnswerHeld
  <2> QED
    BY <2>1, <2>2, PhaseFacts DEF RowPromise, Phase, Reviewed
<1> QED
  BY <1>1, <1>2, <1>3, <1>4, <1>5, OutcomeOfAttempt

(* The other changes of a running daemon.                                      *)
LEMMA OtherPromise ==
  ASSUME RowInv, NEW j \in Jobs,
         ByBackoff(j) \/ ByClaim(j) \/ ByRelease(j) \/ ByCancel(j) \/ BySweep(j)
  PROVE  RowPromise(j)
<1>1. job[j] \in Row
  BY PhaseFacts
<1>2. CASE ByBackoff(j)
  BY <1>1, <1>2 DEF ByBackoff, RowPromise, Phase, SameReview, Reviewed, Row
<1>3. CASE ByClaim(j)
  <2>1. job'[j].status = "running" /\ job'[j].review = job[j].review
    BY <1>1, <1>3 DEF ByClaim, Claimed, Row
  <2> QED
    BY <1>3, <2>1 DEF ByClaim, Eligible, RowPromise, Phase, SameReview, Reviewed
<1>4. CASE ByRelease(j)
  <2>1. job'[j].status = "canceled" /\ job'[j].worker = NoWorker /\ job'[j].review = job[j].review
    BY <1>1, <1>4 DEF ByRelease, CanRelease, Released, Row
  <2> QED
    BY <1>4, <2>1 DEF ByRelease, CanRelease, RowPromise, Phase, SameReview, Reviewed
<1>5. CASE ByCancel(j)
  <2>1. /\ job'[j].status = "canceled" /\ job'[j].worker = job[j].worker
        /\ job'[j].review = job[j].review
    BY <1>1, <1>5 DEF ByCancel, Canceled, Row
  <2> QED
    BY <1>5, <2>1, PhaseFacts DEF ByCancel, CanCancel, RowPromise, Phase, SameReview, Reviewed
<1>6. CASE BySweep(j)
  <2>1. job'[j].status = "failed" /\ job'[j].review = job[j].review /\ job[j].status = "running"
    BY <1>1, <1>6 DEF BySweep, OwnedBy, Failed, Row
  <2> QED
    BY <2>1 DEF RowPromise, Phase, SameReview, Reviewed
<1> QED
  BY <1>2, <1>3, <1>4, <1>5, <1>6

(* A pulled attempt: only a row that was there before is shared.               *)
LEMMA PullPromise ==
  ASSUME RowInv, NEW j \in Jobs, ByPull(j)
  PROVE  RowPromise(j)
<1>1. PICK st \in {"done", "failed", "canceled"} :
        Shared(j) /\ job'[j] = Pulled(job[j], st, clock + 1, active[j] # NoWorker)
  BY DEF ByPull
<1>2. job[j].status # "absent"
  BY <1>1 DEF Shared, Terminal, RowInv, Requested
<1>3. /\ job'[j].status = st /\ job'[j].review = 0
      /\ active[j] = NoWorker => job'[j].worker = NoWorker
  BY <1>1, PhaseFacts DEF Pulled, Row
<1> QED
  BY <1>2, <1>3 DEF RowPromise, Phase, Reviewed

(* Any change of a row of a running daemon.                                    *)
LEMMA RowMaps ==
  ASSUME RowInv, NEW j \in Jobs, RowStep(j), ~Restart
  PROVE  RowPromise(j)
<1>1. job'[j] = job[j] => RowPromise(j)
  BY DEF RowPromise, SameReview
<1>2. ~ByRestart(j)
  BY DEF ByRestart
<1> QED
  BY <1>1, <1>2, ClientPromise, OutcomePromise, OtherPromise, PullPromise DEF RowStep

-------------------------------------------------------------------------------
(* Then the steps of the whole table.                                          *)

Phases  == [j \in Jobs |-> Phase(job[j])]
Reviews == [j \in Jobs |-> job[j].review # 0]

(* A change of one row, with the registry as it was.                           *)
LEMMA OneRowPromise ==
  ASSUME NEW j \in Jobs, RowPromise(j), UNCHANGED active,
         \A i \in Jobs \ {j} : job'[i] = job[i]
  PROVE  Promise!Next \/ UNCHANGED <<Phases, Reviews, active>>
<1> DEFINE from == Phase(job[j])
           to   == Phase(job'[j])
<1>1. Phases[j] = from /\ Phases' = [Phases EXCEPT ![j] = to]
  BY DEF Phases
<1>2. SameReview(j) => Reviews' = Reviews
  BY DEF Reviews, SameReview, Reviewed
<1>3. Reviewed(job'[j]) => Reviews' = [Reviews EXCEPT ![j] = TRUE]
  BY DEF Reviews, Reviewed
<1>4. ~Reviewed(job'[j]) => Reviews' = [Reviews EXCEPT ![j] = FALSE]
  BY DEF Reviews, Reviewed
<1>5. from = to => Phases' = Phases
  BY DEF Phases
<1> HIDE DEF from, to
<1>6. CASE from = to /\ SameReview(j)
  BY <1>2, <1>5, <1>6
<1>7. CASE from = "absent" /\ to = "queued" /\ SameReview(j)
  BY <1>1, <1>2, <1>7 DEF Promise!Next, Promise!Enqueue, Promise!Move, Phases, Reviews
<1>8. CASE from = "queued" /\ to \in {"running", "canceled"} /\ SameReview(j)
  BY <1>1, <1>2, <1>8 DEF Promise!Next, Promise!Claim, Promise!CancelJob, Promise!Move,
                          Phases, Reviews
<1>9. CASE from = "running" /\ to \in {"failed", "queued", "stopping"} /\ SameReview(j)
  BY <1>1, <1>2, <1>9 DEF Promise!Next, Promise!GiveUp, Promise!CancelJob, Promise!Move,
                          Phases, Reviews
<1>10. CASE active[j] # NoWorker /\ from = "running" /\ to = "done" /\ Reviewed(job'[j])
  BY <1>1, <1>3, <1>10 DEF Promise!Next, Promise!Complete, Promise!Free, Promise!Move,
                           Phases, Reviews
<1>11. CASE from = "stopping" /\ to = "canceled" /\ SameReview(j)
  BY <1>1, <1>2, <1>11 DEF Promise!Next, Promise!Stopped, Promise!Move, Phases, Reviews
<1>12. CASE /\ active[j] = NoWorker /\ from \in {"done", "failed", "canceled"} /\ to = "queued"
            /\ ~Reviewed(job'[j])
  BY <1>1, <1>4, <1>12 DEF Promise!Next, Promise!Rerun, Promise!Free, Promise!Move,
                           Promise!Finished, Phases, Reviews
<1>13. CASE /\ from # "absent" /\ ~Reviewed(job'[j])
            /\ \/ to \in {"done", "failed", "canceled"}
               \/ to = "stopping" /\ active[j] # NoWorker
  BY <1>1, <1>4, <1>13 DEF Promise!Next, Promise!Replace, Promise!Free, Promise!Finished,
                           Phases, Reviews
<1> QED
  BY <1>6, <1>7, <1>8, <1>9, <1>10, <1>11, <1>12, <1>13 DEF RowPromise, from, to

(* An attempt that registers, and one that lets go.                            *)
LEMMA RegistryPromise ==
  ASSUME RowInv, NEW w \in Workers, StartAttempt(w) \/ FreeAttempt(w)
  PROVE  Promise!Next
<1> DEFINE j == wk[w].job
<1>1. j \in Jobs /\ UNCHANGED job /\ w # NoWorker
  BY OnJob DEF RowInv, StartAttempt, FreeAttempt, At, Engaged, WorkerPC, db
<1>2. UNCHANGED <<Phases, Reviews>>
  BY <1>1 DEF Phases, Reviews
<1>3. CASE StartAttempt(w)
  <2>1. active[j] = NoWorker /\ active' = [active EXCEPT ![j] = w]
    BY <1>3 DEF StartAttempt, PreviousGone
  <2>2. Phases[j] \in {"running", "stopping"}
    BY <1>1, <1>3 DEF StartAttempt, AttemptCurrent, Phases, Phase
  <2>3. Promise!Hold(j, w)
    BY <1>2, <2>1, <2>2 DEF Promise!Hold, Promise!Free, Phases, Reviews
  <2> QED
    BY <1>1, <2>3 DEF Promise!Next
<1>4. CASE FreeAttempt(w)
  <2>1. active[j] # NoWorker /\ active' = [active EXCEPT ![j] = NoWorker]
    BY <1>1, <1>4 DEF FreeAttempt, At, RowInv, PoolInv, Holds
  <2>2. Promise!LetGo(j)
    BY <1>2, <2>1 DEF Promise!LetGo, Promise!Free, Phases, Reviews
  <2> QED
    BY <1>1, <2>2 DEF Promise!Next
<1> QED
  BY <1>3, <1>4

(* A new daemon.                                                               *)
LEMMA RestartPromise ==
  ASSUME RowInv, Restart
  PROVE  Promise!Next
<1>1. ASSUME NEW j \in Jobs
      PROVE  /\ (job'[j].review # 0) <=> (job[j].review # 0)
             /\ Phase(job'[j]) = CASE Phase(job[j]) = "running"  -> "queued"
                                   [] Phase(job[j]) = "stopping" -> "canceled"
                                   [] OTHER                      -> Phase(job[j])
  <2>1. job[j] \in Row /\ job'[j] = ResetStale(job[j])
    BY PhaseFacts DEF Restart
  <2>2. CASE job[j].status = "running"
    BY <2>1, <2>2 DEF ResetStale, Requeued, Row, Phase
  <2>3. CASE job[j].status # "running"
    <3>1. /\ job'[j].status = job[j].status /\ job'[j].worker = NoWorker
          /\ job'[j].review = job[j].review
      BY <2>1, <2>3 DEF ResetStale, Row
    <3>2. Phase(job[j]) # "running" /\ job[j].status # "stopping"
      BY <2>1, <2>3 DEF Phase, Row, Status, Terminal
    <3> QED
      BY <3>1, <3>2 DEF Phase
  <2> QED
    BY <2>2, <2>3
<1>2. Reviews' = Reviews
  BY <1>1 DEF Reviews
<1>3. Phases' = [j \in Jobs |-> CASE Phases[j] = "running"  -> "queued"
                                 [] Phases[j] = "stopping" -> "canceled"
                                 [] OTHER                  -> Phases[j]]
  BY <1>1 DEF Phases
<1>4. active' = [j \in Jobs |-> NoWorker]
  BY DEF Restart
<1> QED
  BY <1>2, <1>3, <1>4 DEF Promise!Next, Promise!Recover, Phases, Reviews

(* Every other step changes one row at most.                                   *)
LEMMA OneRowAtATime ==
  ASSUME PoolInv, Next, ~Restart
  PROVE  UNCHANGED job \/ \E j \in Jobs : \A i \in Jobs \ {j} : job'[i] = job[i]
<1>1. job \in [Jobs -> Row] /\ sw \in Sweep
  BY DEF PoolInv, TypeOK
<1>2. CASE ClientStep
  <2>1. ASSUME NEW j \in Jobs, NEW s \in Sessions \cup {NoSession}, Enqueue(j, s)
        PROVE  \A i \in Jobs \ {j} : job'[i] = job[i]
    <3> DEFINE new == Inserted(clock + 1, s, FALSE)
    <3>1. job' = [job EXCEPT ![j] = new]
      BY <2>1 DEF Enqueue
    <3> HIDE DEF new
    <3> QED
      BY <1>1, <3>1
  <2>2. ASSUME NEW j \in Jobs, NEW r \in Requests, Rerun(j, r)
        PROVE  \A i \in Jobs \ {j} : job'[i] = job[i]
    BY <1>1, <2>2 DEF Rerun
  <2>3. ASSUME NEW p \in BOOLEAN, SetPaused(p) PROVE UNCHANGED job
    BY <2>3 DEF SetPaused
  <2> QED
    BY <1>2, <2>1, <2>2, <2>3 DEF ClientStep
<1>3. CASE \E j \in Jobs : BackoffElapses(j)
  BY <1>1, <1>3 DEF BackoffElapses
<1>4. ASSUME NEW w \in Workers, WorkerStep(w)
      PROVE  UNCHANGED job \/ \E j \in Jobs : \A i \in Jobs \ {j} : job'[i] = job[i]
  <2>1. CASE ClaimJob(w)
    BY <1>1, <2>1 DEF ClaimJob
  <2>2. CASE TransitionEnds(w) \/ ReleaseClaim(w)
    <3>1. wk[w].job \in Jobs
      BY <2>2, OnJob DEF TransitionEnds, ReleaseClaim, At, Engaged, WorkerPC
    <3> QED
      BY <1>1, <2>2, <3>1 DEF TransitionEnds, ReleaseClaim
  <2>3. UNCHANGED job \/ ClaimJob(w) \/ TransitionEnds(w) \/ ReleaseClaim(w)
    BY <1>4 DEF WorkerStep, BeginClaim, ClaimNothing, StartAttempt, StartDisplaced,
       StartTimesOut, Register, AttemptEnds, TransitionSkipped, TransitionBegins,
       TransitionUnsaved, FinishRunning, ReleaseUnsaved, FreeAttempt, LeaveJob, db
  <2> QED
    BY <2>1, <2>2, <2>3
<1>5. ASSUME NEW c \in Cancelers, NEW j \in Jobs, NEW b \in BOOLEAN, CancelRow(c, j, b)
      PROVE  \A i \in Jobs \ {j} : job'[i] = job[i]
  BY <1>1, <1>5 DEF CancelRow
<1>6. ASSUME NEW c \in Cancelers, CancelStep(c) PROVE UNCHANGED job
  BY <1>6 DEF CancelStep, CancelRegistered, CancelUnregistered, CancelRereads, CancelReadFails, CancelPending, db
<1>7. CASE SweepStep
  <2>1. CASE SweepFail
    <3>1. sw.job \in Jobs
      BY <1>1, <2>1 DEF SweepFail, Sweep, NoSweep
    <3> QED
      BY <1>1, <2>1, <3>1 DEF SweepFail
  <2>2. UNCHANGED job \/ SweepFail
    BY <1>7 DEF SweepStep, SweepList, SweepOwned, SweepUnowned, SweepLoad, SweepSpare, db
  <2> QED
    BY <2>1, <2>2
<1>8. ASSUME NEW j \in Jobs, NEW st \in {"done", "failed", "canceled"}, Pull(j, st)
      PROVE  \A i \in Jobs \ {j} : job'[i] = job[i]
  <2> DEFINE new == Pulled(job[j], st, clock + 1, active[j] # NoWorker)
  <2>1. job' = [job EXCEPT ![j] = new]
    BY <1>8 DEF Pull
  <2> HIDE DEF new
  <2> QED
    BY <1>1, <2>1
<1> QED
  BY <1>2, <1>3, <1>4, <1>5, <1>6, <1>7, <1>8 DEF Next

(* The pool is a JobLifecycle with its rows for the phases and the reviews and *)
(* the registry for the holders, for any jobs, workers and bounds.             *)
THEOREM PoolIsALifecycle == Spec => Lifecycle
<1>1. Init => Promise!Init
  <2> SUFFICES ASSUME Init PROVE Promise!Init
    OBVIOUS
  <2>1. \A j \in Jobs : Phase(job[j]) = "absent" /\ job[j].review = 0
    BY DEF Init, Absent, Phase
  <2>2. active = [j \in Jobs |-> NoWorker]
    BY DEF Init
  <2> QED
    BY <2>1, <2>2 DEF Promise!Init
<1>2. RowInv /\ [Next]_vars => [Promise!Next]_<<Phases, Reviews, active>>
  <2>1. ASSUME RowInv, Next, ~Restart
        PROVE  Promise!Next \/ UNCHANGED <<Phases, Reviews, active>>
    <3>1. CASE \E w \in Workers : StartAttempt(w) \/ FreeAttempt(w)
      BY <2>1, <3>1, RegistryPromise
    <3>2. CASE UNCHANGED active
      <4>1. CASE UNCHANGED job
        BY <3>2, <4>1 DEF Phases, Reviews
      <4>2. ASSUME NEW j \in Jobs, \A i \in Jobs \ {j} : job'[i] = job[i]
            PROVE  Promise!Next \/ UNCHANGED <<Phases, Reviews, active>>
        <5>1. RowPromise(j)
          BY <2>1, <4>2, NextRows, RowMaps DEF RowInv
        <5> QED
          BY <3>2, <4>2, <5>1, OneRowPromise
      <4>3. PoolInv
        BY <2>1 DEF RowInv
      <4> QED
        BY <2>1, <4>1, <4>2, <4>3, OneRowAtATime
    <3> QED
      BY <2>1, <3>1, <3>2, NextActive
  <2>2. UNCHANGED vars => UNCHANGED <<Phases, Reviews, active>>
    BY DEF vars, db, memory, Phases, Reviews
  <2> QED
    BY <2>1, <2>2, RestartPromise
<1>3. [Promise!Next]_<<Phases, Reviews, active>> => [Promise!Next]_(Promise!vars)
  BY DEF Promise!vars, Phases, Reviews
<1> QED
  BY RowInvariant, <1>1, <1>2, <1>3, PTL DEF Spec, Lifecycle, Promise!Spec

-------------------------------------------------------------------------------
(* Cancels.  Whoever runs an agent has its cancel function registered, and a   *)
(* cancel whose request is over has reached the attempt or waits for it; a     *)
(* request that could not read the row stays among the requests.               *)

Heard == \A w \in Workers : wk[w].pc = "run" => running[wk[w].job].worker = w

Asks(c, w) == cn[c].job = wk[w].job /\ cn[c].enq = wk[w].enq

Answered(w) == \A c \in Cancelers : ~Asks(c, w)

CanceledAttempt(w) == AttemptCurrent(w) /\ job[wk[w].job].status = "canceled"

Delivered ==
  \A w \in Workers :
    (wk[w].pc \in {"started", "run"} /\ CanceledAttempt(w) /\ Answered(w))
    => wk[w].canceled \/ (wk[w].pc = "started" /\ pending[wk[w].job] # "none")

(* What a step may do to the handlers, the pending cancels and the requests.   *)
LEMMA NextCancels ==
  ASSUME Next
  PROVE  \/ UNCHANGED <<running, pending, cn>>
         \/ \E v \in Workers : Register(v) \/ FinishRunning(v)
         \/ \E c \in Cancelers : \/ \E j \in Jobs, b \in BOOLEAN : CancelRow(c, j, b)
                                 \/ CancelStep(c)
         \/ Restart
<1>1. CASE ClientStep
  BY <1>1 DEF ClientStep, Enqueue, Rerun, SetPaused, memory
<1>2. CASE \E j \in Jobs : BackoffElapses(j)
  BY <1>2 DEF BackoffElapses, memory
<1>3. ASSUME NEW v \in Workers, WorkerStep(v)
      PROVE  UNCHANGED <<running, pending, cn>> \/ Register(v) \/ FinishRunning(v)
  BY <1>3 DEF WorkerStep, BeginClaim, ClaimJob, ClaimNothing, StartAttempt, StartDisplaced,
    StartTimesOut, AttemptEnds, TransitionSkipped, TransitionBegins, TransitionEnds,
    TransitionUnsaved, ReleaseClaim, ReleaseUnsaved, FreeAttempt, LeaveJob, memory
<1>4. CASE SweepStep
  BY <1>4 DEF SweepStep, SweepList, SweepOwned, SweepUnowned, SweepLoad, SweepFail,
              SweepSpare, memory
<1>5. CASE \E j \in Jobs, st \in {"done", "failed", "canceled"} : Pull(j, st)
  BY <1>5 DEF Pull, memory
<1> QED
  BY <1>1, <1>2, <1>3, <1>4, <1>5 DEF Next

(* Two workers that hold the same job are one.                                 *)
LEMMA SameHolder ==
  ASSUME PoolInv, NEW v \in Workers, NEW w \in Workers, wk[v].job = wk[w].job,
         wk[v].pc \in {"started", "run", "finish", "free"},
         wk[w].pc \in {"started", "run", "finish", "free"}
  PROVE  v = w
BY DEF PoolInv, Holds

(* A handler stays until its attempt has ended.                                *)
LEMMA HeardKept ==
  ASSUME PoolInv, Heard, Next
  PROVE  Heard'
<1> SUFFICES ASSUME NEW w \in Workers, wk'[w].pc = "run" PROVE running'[wk'[w].job].worker = w
  BY DEF Heard
<1>1. running \in [Jobs -> Handler] /\ cn \in [Cancelers -> Cancel] /\ WkStep(w)
      /\ wk \in [Workers -> Worker]
  BY NextWorkers DEF PoolInv, TypeOK
<1>2. CASE Register(w)
  <2>1. wk[w].job \in Jobs /\ wk'[w].job = wk[w].job
    BY <1>1, <1>2, OnJob DEF Register, At, Engaged, WorkerPC, Worker
  <2> QED
    BY <1>1, <1>2, <2>1 DEF Register
<1>3. CASE WkKept(w)
  <2>1. wk[w].pc = "run" /\ wk'[w].job = wk[w].job /\ running[wk[w].job].worker = w
        /\ wk[w].job \in Jobs
    BY <1>3, OnJob DEF WkKept, Heard, Engaged, WorkerPC
  <2>2. ASSUME NEW v \in Workers, Register(v) \/ FinishRunning(v)
        PROVE  running'[wk[w].job] = running[wk[w].job]
    <3>1. wk[v].pc \in {"started", "finish"} /\ wk[v].job # wk[w].job
      BY <2>1, <2>2, SameHolder DEF Register, FinishRunning, At
    <3> QED
      BY <1>1, <2>1, <2>2, <3>1 DEF Register, FinishRunning
  <2>3. ASSUME NEW c \in Cancelers, CancelStep(c)
        PROVE  running'[wk[w].job].worker = running[wk[w].job].worker
    <3>1. CASE CancelRegistered(c)
      BY <1>1, <2>1, <3>1 DEF CancelRegistered, Handler
    <3>2. UNCHANGED running \/ CancelRegistered(c)
      BY <2>3 DEF CancelStep, CancelUnregistered, CancelRereads, CancelReadFails, CancelPending, memory
    <3> QED
      BY <3>1, <3>2
  <2>4. ASSUME NEW c \in Cancelers, NEW j \in Jobs, NEW b \in BOOLEAN, CancelRow(c, j, b)
        PROVE  UNCHANGED running
    BY <2>4 DEF CancelRow, memory
  <2>5. ~Restart
    BY DEF Restart, Idle
  <2> QED
    BY <2>1, <2>2, <2>3, <2>4, <2>5, NextCancels
<1>4. ~WkMoves(w) /\ ~WkClaims(w) /\ ~StartAttempt(w) /\ ~TransitionBegins(w)
  BY OnJob DEF WkMoves, WkClaims, StartAttempt, TransitionBegins, GoTo, Worker
<1> QED
  BY <1>1, <1>2, <1>3, <1>4 DEF WkStep

(* A current attempt that is canceled was so before, or its row was just       *)
(* canceled.                                                                   *)
LEMMA CanceledBefore ==
  ASSUME RowInv, Next, NEW w \in Workers, WkKept(w), wk[w].pc \in Engaged, CanceledAttempt(w)'
  PROVE  CanceledAttempt(w) \/ ByCancel(wk[w].job)
<1> DEFINE j == wk[w].job
<1>1. /\ j \in Jobs /\ job[j] \in Row /\ w # NoWorker /\ clock \in Nat /\ wk[w].started \in Nat
      /\ wk[w].started <= clock /\ PoolInv /\ ActCurrent
  BY OnJob DEF RowInv, Stamps, PoolInv, TypeOK
<1>2. /\ job'[j].status = "canceled" /\ job'[j].worker = w
      /\ job'[j].started = wk[w].started /\ job'[j].enq = wk[w].enq
  BY DEF CanceledAttempt, AttemptCurrent, WkKept
<1>3. job'[j] = job[j] => CanceledAttempt(w)
  BY <1>2 DEF CanceledAttempt, AttemptCurrent
<1>4. CASE ByBackoff(j)
  <2>1. /\ job'[j].status = job[j].status /\ job'[j].worker = job[j].worker
        /\ job'[j].started = job[j].started /\ job'[j].enq = job[j].enq
    BY <1>1, <1>4 DEF ByBackoff, Row
  <2> QED
    BY <1>2, <2>1 DEF CanceledAttempt, AttemptCurrent
<1>5. ~ByClient(j) /\ ~ByClaim(j) /\ ~ByRelease(j) /\ ~BySweep(j)
  BY <1>1, <1>2 DEF ByClient, Inserted, Absent, Reenqueued, Requeued, ByClaim, Claimed,
     ByRelease, Released, BySweep, Failed, Row
<1>6. ~ByPull(j)
  <2>1. ASSUME NEW st, NEW b PROVE Pulled(job[j], st, clock + 1, b).started = clock + 1
    BY <1>1 DEF Pulled, Row
  <2> QED
    BY <1>1, <1>2, <2>1 DEF ByPull
<1>7. CASE ByOutcome(j)
  <2>1. PICK v \in Workers : wk[v].pc = "act" /\ wk[v].job = j /\ job'[j] \in OutcomeRows(v)
    BY <1>7 DEF ByOutcome
  <2>2. job'[j] = job[j] \/ job'[j].status \in {"queued", "done", "failed"}
    <3> DEFINE r == job[j]
    <3>1. /\ Failed(r).status = "failed" /\ FailedOver(r).status = "queued"
          /\ Retried(r).status = "queued" /\ Completed(r, r.started).status = "done"
      BY <1>1 DEF Failed, FailedOver, Retried, Requeued, Completed, Row
    <3> QED
      BY <1>1, <2>1, <3>1, OutcomeOfAttempt
  <2> QED
    BY <1>2, <1>3, <2>2
<1>8. ~ByRestart(j)
  BY DEF ByRestart, Restart, Idle, WkKept, Engaged
<1> QED
  BY <1>1, <1>3, <1>4, <1>5, <1>6, <1>7, <1>8, NextRows DEF RowStep

(* A worker whose attempt starts looks at its row, one whose agent starts      *)
(* looks for a pending cancel.                                                 *)
LEMMA StartDelivers ==
  ASSUME RowInv, Delivered, NEW w \in Workers, StartAttempt(w) \/ Register(w),
         CanceledAttempt(w)', Answered(w)'
  PROVE  wk'[w].canceled
<1>1. wk \in [Workers -> Worker] /\ wk[w] \in Worker
  BY OnJob DEF RowInv
<1>2. CASE StartAttempt(w)
  <2>1. job' = job /\ wk'[w].job = wk[w].job
    BY <1>1, <1>2 DEF StartAttempt, Worker, db
  <2>2. job[wk[w].job].status = "canceled"
    BY <2>1 DEF CanceledAttempt
  <2> QED
    BY <1>1, <1>2, <2>2 DEF StartAttempt, Worker
<1>3. CASE Register(w)
  <2>1. /\ UNCHANGED <<job, cn>> /\ wk'[w].job = wk[w].job /\ wk'[w].started = wk[w].started
        /\ wk'[w].enq = wk[w].enq /\ wk[w].pc = "started"
    BY <1>1, <1>3 DEF Register, At, Worker, db
  <2>2. CanceledAttempt(w) /\ Answered(w)
    BY <2>1 DEF CanceledAttempt, AttemptCurrent, Answered, Asks
  <2>3. wk[w].canceled \/ pending[wk[w].job] # "none"
    BY <2>1, <2>2 DEF Delivered
  <2> DEFINE heard == wk[w].canceled \/ pending[wk[w].job] # "none" \/ wk[w].job \in targets
  <2>4. wk' = [wk EXCEPT ![w].pc = "run", ![w].canceled = heard] /\ heard
    BY <1>1, <1>3, <2>3 DEF Register, Worker
  <2> HIDE DEF heard
  <2> QED
    BY <1>1, <2>4 DEF Worker
<1> QED
  BY <1>2, <1>3

(* A cancel request that ends has reached the attempt, or leaves its word.     *)
LEMMA RequestDelivers ==
  ASSUME RowInv, Heard, Delivered, NEW w \in Workers, wk[w].pc \in {"started", "run"}, WkKept(w),
         CanceledAttempt(w), Answered(w)', NEW c \in Cancelers, CancelStep(c)
  PROVE  wk'[w].canceled \/ (wk[w].pc = "started" /\ pending'[wk[w].job] # "none")
<1> DEFINE j == wk[w].job
<1>1. /\ wk \in [Workers -> Worker] /\ wk[w] \in Worker /\ cn \in [Cancelers -> Cancel]
      /\ pending \in [Jobs -> Owners] /\ running \in [Jobs -> Handler] /\ PoolInv
      /\ j \in Jobs /\ w # NoWorker
  BY OnJob DEF RowInv, PoolInv, TypeOK, Engaged, WorkerPC
<1>2. CASE Answered(w)
  <2>1. wk[w].canceled \/ (wk[w].pc = "started" /\ pending[j] # "none")
    BY <1>2 DEF Delivered
  <2>2. pending[j] # "none" => pending'[j] # "none"
    <3>1. CASE CancelPending(c)
      <4>1. cn[c].job \in Jobs
        BY <1>1, <3>1 DEF CancelPending, Cancel, CancelPC, NoCancel
      <4> QED
        BY <1>1, <3>1, <4>1 DEF CancelPending
    <3>2. UNCHANGED pending \/ CancelPending(c)
      BY DEF CancelStep, CancelRegistered, CancelUnregistered, CancelRereads,
                CancelReadFails, memory
    <3> QED
      BY <3>1, <3>2
  <2> QED
    BY <2>1, <2>2 DEF WkKept
<1>3. CASE ~Answered(w)
  <2>1. Asks(c, w) /\ ~(cn'[c].job = j /\ cn'[c].enq = wk[w].enq)
    <3>1. \A d \in Cancelers \ {c} : cn'[d] = cn[d]
      BY <1>1 DEF CancelStep, CancelRegistered, CancelUnregistered, CancelRereads, CancelReadFails, CancelPending
    <3> QED
      BY <1>3, <3>1 DEF Answered, Asks, WkKept
  <2>2. CASE CancelRegistered(c)
    <3>1. running[j].worker # NoWorker /\ wk' = Interrupt(running[j].worker)
      BY <2>1, <2>2 DEF CancelRegistered, Asks
    <3>2. running[j].worker \in Workers
      BY <1>1, <3>1, NamesWorker
    <3>3. active[j] = running[j].worker /\ active[j] = w
      BY <1>1, <3>2 DEF PoolInv, HandlerHeld, Holds
    <3> QED
      BY <1>1, <3>1, <3>3 DEF Interrupt, Worker
  <2>3. CASE CancelRereads(c)
    <3>1. Cancellable(job[j])
      BY <1>1 DEF CanceledAttempt, AttemptCurrent, Cancellable, HoldsSession
    <3>2. cn'[c].job = cn[c].job /\ cn'[c].enq = cn[c].enq
      BY <1>1, <2>1, <2>3, <3>1 DEF CancelRereads, Asks, Cancel, CancelPC, NoCancel
    <3> QED
      BY <2>1, <3>2 DEF Asks
  <2>4. CASE CancelPending(c)
    <3>1. running[j].worker = NoWorker /\ wk[w].pc = "started"
      BY <1>1, <2>1, <2>4 DEF CancelPending, Heard, Asks
    <3>2. pending'[j] # "none"
      BY <1>1, <2>1, <2>4 DEF CancelPending, Asks
    <3> QED
      BY <3>1, <3>2
  <2>5. ~CancelUnregistered(c) /\ ~CancelReadFails(c)
    BY <1>1, <2>1 DEF CancelUnregistered, CancelReadFails, Asks, Cancel, CancelPC, NoCancel
  <2> QED
    BY <2>2, <2>3, <2>4, <2>5 DEF CancelStep
<1> QED
  BY <1>2, <1>3

(* A worker that starts its agent, or unregisters it, is no other attempt's.   *)
LEMMA OthersDeliver ==
  ASSUME RowInv, NEW w \in Workers, wk[w].pc \in {"started", "run"}, WkKept(w),
         NEW v \in Workers, Register(v) \/ FinishRunning(v)
  PROVE  pending'[wk[w].job] = pending[wk[w].job] /\ UNCHANGED cn
<1>1. PoolInv /\ pending \in [Jobs -> Owners] /\ wk[w].job \in Jobs
  BY OnJob DEF RowInv, PoolInv, TypeOK, Engaged, WorkerPC
<1>2. wk[v].pc \in {"started", "finish"} /\ UNCHANGED cn
  BY DEF Register, FinishRunning, At
<1>3. wk'[v].pc \in {"run", "release"}
  BY <1>1, OnJob DEF Register, FinishRunning, GoTo, Worker
<1>4. v # w
  BY <1>2, <1>3 DEF WkKept
<1>5. wk[v].job # wk[w].job
  BY <1>1, <1>2, <1>4, SameHolder
<1> QED
  BY <1>1, <1>2, <1>5 DEF Register, FinishRunning

(* A request that has just canceled a row was not about a canceled attempt.    *)
LEMMA NewRequest ==
  ASSUME RowInv, NEW w \in Workers, wk[w].job \in Jobs, WkKept(w), CanceledAttempt(w),
         Answered(w)',
         NEW c \in Cancelers, NEW i \in Jobs, NEW b \in BOOLEAN, CancelRow(c, i, b)
  PROVE  Answered(w) /\ UNCHANGED pending
<1>1. cn \in [Cancelers -> Cancel]
  BY DEF RowInv, PoolInv, TypeOK
<1>2. \A d \in Cancelers \ {c} : cn'[d] = cn[d]
  BY <1>1 DEF CancelRow
<1>3. ~Asks(c, w)
  <2>1. job[wk[w].job].enq = wk[w].enq
    BY DEF CanceledAttempt, AttemptCurrent
  <2>2. cn[c] = NoCancel \/ ~Concerns(c, cn[c].job)
    BY <1>1 DEF CancelRow, Cancel, CancelPC
  <2>3. NoCancel.job # wk[w].job
    BY PoolAssumption DEF NoCancel
  <2> QED
    BY <2>1, <2>2, <2>3 DEF Concerns, Asks
<1> QED
  BY <1>2, <1>3 DEF Answered, Asks, CancelRow, WkKept, memory

(* Every cancel is delivered.                                                  *)
LEMMA DeliveredKept ==
  ASSUME RowInv, Heard, Delivered, Next
  PROVE  Delivered'
<1> SUFFICES ASSUME NEW w \in Workers, wk'[w].pc \in {"started", "run"},
                    CanceledAttempt(w)', Answered(w)', wk'[w].job = wk[w].job
             PROVE  wk'[w].canceled \/ (wk'[w].pc = "started" /\ pending'[wk'[w].job] # "none")
  <2>1. ASSUME NEW w \in Workers, wk'[w].pc \in {"started", "run"}
        PROVE  wk'[w].job = wk[w].job
    <3>1. WkStep(w) /\ wk \in [Workers -> Worker]
      BY <2>1, NextWorkers, OnJob DEF RowInv
    <3>2. StartAttempt(w) \/ Register(w) \/ TransitionBegins(w) => wk'[w].job = wk[w].job
      BY <3>1 DEF StartAttempt, Register, TransitionBegins, GoTo, Worker
    <3> QED
      BY <2>1, <3>1, <3>2 DEF WkStep, WkKept, WkMoves, WkClaims
  <2> QED
    BY <2>1 DEF Delivered
<1>1. WkStep(w) /\ PoolInv
  BY NextWorkers DEF RowInv
<1>2. CASE StartAttempt(w) \/ Register(w)
  BY <1>2, StartDelivers
<1>3. CASE WkKept(w)
  <2> DEFINE j == wk[w].job
  <2>1. wk[w].pc \in {"started", "run"} /\ wk[w].pc \in Engaged /\ j \in Jobs
    BY <1>1, <1>3, OnJob DEF WkKept, Engaged, WorkerPC
  <2>2. CanceledAttempt(w)
    <3>1. job'[j].enq = wk'[w].enq /\ wk'[w].job = j /\ job \in [Jobs -> Row]
      BY <1>1, <1>3 DEF CanceledAttempt, AttemptCurrent, WkKept, PoolInv, TypeOK
    <3>2. ~ByCancel(j)
      BY <2>1, <3>1 DEF ByCancel, Canceled, Row, Answered, Asks
    <3> QED
      BY <1>3, <2>1, <3>2, CanceledBefore
  <2>3. ASSUME Answered(w), pending'[j] = pending[j]
        PROVE  wk'[w].canceled \/ (wk'[w].pc = "started" /\ pending'[j] # "none")
    BY <1>3, <2>1, <2>2, <2>3 DEF Delivered, WkKept
  <2>4. ASSUME NEW c \in Cancelers, CancelStep(c)
        PROVE  wk'[w].canceled \/ (wk'[w].pc = "started" /\ pending'[j] # "none")
    BY <1>3, <2>1, <2>2, <2>4, RequestDelivers DEF WkKept
  <2>5. CASE UNCHANGED <<running, pending, cn>>
    BY <1>3, <2>3, <2>5 DEF Answered, Asks, WkKept
  <2>6. CASE \E v \in Workers : Register(v) \/ FinishRunning(v)
    BY <1>3, <2>1, <2>3, <2>6, OthersDeliver DEF Answered, Asks, WkKept
  <2>7. CASE \E c \in Cancelers, i \in Jobs, b \in BOOLEAN : CancelRow(c, i, b)
    BY <1>3, <2>1, <2>2, <2>3, <2>7, NewRequest
  <2>8. ~Restart
    BY <2>1, <1>3 DEF Restart, Idle, WkKept
  <2> QED
    BY <2>4, <2>5, <2>6, <2>7, <2>8, NextCancels
<1>4. ~WkMoves(w) /\ ~WkClaims(w) /\ ~TransitionBegins(w)
  BY <1>1, OnJob DEF WkMoves, WkClaims, TransitionBegins, GoTo, Worker
<1> QED
  BY <1>1, <1>2, <1>3, <1>4 DEF WkStep

(* No cancel is lost, on whichever side of the registration of the attempt it  *)
(* falls, but by a request that could not read the row.                        *)
THEOREM CancelsArrive == Spec => []NoLostCancel
<1> DEFINE Inv == Heard /\ Delivered
<1>1. Init => Inv
  BY DEF Init, Idle, Heard, Delivered
<1>2. RowInv /\ Inv /\ [Next]_vars => Inv'
  <2>1. CASE Next
    BY <2>1, HeardKept, DeliveredKept DEF RowInv
  <2>2. CASE UNCHANGED vars
    BY <2>2 DEF vars, db, memory, Heard, Delivered, CanceledAttempt, AttemptCurrent, Answered, Asks
  <2> QED
    BY <2>1, <2>2
<1>3. Inv => NoLostCancel
  <2> SUFFICES ASSUME Inv, NEW w \in Workers, wk[w].pc = "run", CanceledAttempt(w),
                      Answered(w)
               PROVE  wk[w].canceled
    BY DEF NoLostCancel, At, CanceledAttempt, AttemptCurrent, Answered, Asks, Concerns
  <2> QED
    BY DEF Delivered
<1> QED
  BY RowInvariant, <1>1, <1>2, <1>3, PTL DEF Spec
===============================================================================

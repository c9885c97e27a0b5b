------------------------------ MODULE ReviewJobs ------------------------------
(* The review_jobs table of internal/storage: one row per job and one         *)
(* operator per guarded UPDATE.  A guard operator is the statement's WHERE     *)
(* clause, a row operator its SET list.  The state machines of this project    *)
(* (WorkerPool, PanelRun, ...) are built from these operators.                 *)
EXTENDS Naturals

CONSTANTS
  Jobs,        \* row ids; naturals, because ClaimJob breaks ties by id
  Workers,     \* worker ids of the pool
  NoWorker,    \* worker_id IS NULL
  Sessions,    \* agent sessions a job may be asked to resume
  NoSession,   \* session_id IS NULL
  MaxRetries   \* maxRetries of internal/daemon/worker.go

ASSUME ConstAssumption ==
  /\ Jobs \subseteq Nat
  /\ NoWorker \notin Workers
  /\ NoSession \notin Sessions
  /\ MaxRetries \in Nat

Terminal == {"done", "failed", "canceled", "skipped", "applied", "rebased"}
Status   == {"absent", "queued", "running"} \cup Terminal

(* started and enq are the precise timestamps started_at and enqueued_at; 0    *)
(* stands for NULL.  review is the start stamp of the attempt that wrote the   *)
(* job's row in the reviews table, 0 when there is none.  deferred says that   *)
(* retry_not_before lies in the future.  agent tells the enqueued agent from   *)
(* its failover backup.                                                        *)
Row == [status   : Status,
        worker   : Workers \cup {NoWorker},
        started  : Nat,
        enq      : Nat,
        retry    : 0 .. MaxRetries,
        deferred : BOOLEAN,
        blocked  : BOOLEAN,
        agent    : {"enqueued", "backup"},
        session  : Sessions \cup {NoSession},
        review   : Nat]

Absent == [status |-> "absent", worker |-> NoWorker, started |-> 0, enq |-> 0,
           retry |-> 0, deferred |-> FALSE, blocked |-> FALSE,
           agent |-> "enqueued", session |-> NoSession, review |-> 0]

(* insertJobTx: a fresh queued row; a panel synthesis is inserted blocked.     *)
Inserted(t, session, blocked) ==
  [Absent EXCEPT !.status = "queued", !.enq = t, !.session = session,
                 !.blocked = blocked]

(* A row whose agent process may still be writing to its session.              *)
HoldsSession(r) ==
  \/ r.status = "running"
  \/ r.status = "canceled" /\ r.worker # NoWorker

Eligible(r) == r.status = "queued" /\ ~r.blocked /\ ~r.deferred

(* ORDER BY enqueued_at, id.                                                   *)
Before(rows, i, j) ==
  \/ rows[i].enq < rows[j].enq
  \/ rows[i].enq = rows[j].enq /\ i <= j

NextClaim(rows, j) ==
  /\ Eligible(rows[j])
  /\ \A i \in Jobs : Eligible(rows[i]) => Before(rows, j, i)

(* releaseContestedSession: a claimed job starts fresh when another holder     *)
(* already writes to the session it was to resume.                             *)
SessionAfterClaim(rows, j) ==
  IF \E i \in Jobs \ {j} : HoldsSession(rows[i]) /\ rows[i].session = rows[j].session
  THEN NoSession ELSE rows[j].session

Claimed(rows, j, w, t) ==
  [rows[j] EXCEPT !.status = "running", !.worker = w, !.started = t,
                  !.session = SessionAfterClaim(rows, j)]

OwnedBy(r, w) == r.status = "running" /\ r.worker = w

(* What every return to the queue clears.                                      *)
Requeued(r) ==
  [r EXCEPT !.status = "queued", !.worker = NoWorker, !.started = 0,
            !.session = NoSession]

(* Slip: one retry too many.                                                *)
CanRetry_OneMore(r, w) == OwnedBy(r, w) /\ r.retry <= MaxRetries

CanRetry(r, w) == OwnedBy(r, w) /\ r.retry < MaxRetries
Retried(r)     == [Requeued(r) EXCEPT !.retry = @ + 1, !.deferred = TRUE]

CanFailover(r, w) == OwnedBy(r, w) /\ r.agent # "backup"
FailedOver(r) ==
  [Requeued(r) EXCEPT !.agent = "backup", !.retry = 0, !.deferred = FALSE]

(* CompleteJob is scoped by status alone; stamp identifies the attempt whose   *)
(* output is stored.                                                           *)
CanComplete(r)      == r.status = "running"
Completed(r, stamp) == [r EXCEPT !.status = "done", !.review = stamp]

Failed(r) == [r EXCEPT !.status = "failed"]

CanCancel(r) == r.status \in {"queued", "running"}
Canceled(r)  == [r EXCEPT !.status = "canceled"]

CanRelease(r, w) == r.status = "canceled" /\ r.worker = w
Released(r)      == [r EXCEPT !.worker = NoWorker]

(* Slip: the worker that still holds a canceled row is ignored.             *)
CanReenqueue_Early(r) == r.status \in {"done", "failed", "skipped", "canceled"}
(* Slip: the review is not deleted.                                         *)
Reenqueued_KeepsReview(r, t) == [Requeued(r) EXCEPT !.enq = t, !.retry = 0]

(* ReenqueueJobWithRequest: the review goes, the attempt's identity advances;  *)
(* retry_not_before and claim_blocked stay as they are.                        *)
CanReenqueue(r) ==
  \/ r.status \in {"done", "failed", "skipped"}
  \/ r.status = "canceled" /\ r.worker = NoWorker
Reenqueued(r, t) ==
  [Requeued(r) EXCEPT !.enq = t, !.retry = 0, !.review = 0]

(* Slip: running rows are left as they are.                                 *)
ResetStale_LeavesRunning(r) == [r EXCEPT !.worker = NoWorker]

(* ResetStaleJobs, run once before the workers of a new daemon start.          *)
ResetStale(r) ==
  IF r.status = "running" THEN Requeued(r) ELSE [r EXCEPT !.worker = NoWorker]

(* Slip: the review of the displaced attempt is kept.                       *)
Pulled_KeepsReview(r, status, t, attemptActive) ==
  [r EXCEPT !.status = status, !.enq = t, !.started = t,
            !.worker = IF attemptActive THEN @ ELSE NoWorker,
            !.session = NoSession, !.agent = "enqueued"]

(* UpsertPulledJob with a newer attempt of another machine.  The worker id     *)
(* stays while a displaced local attempt is still unwinding.                   *)
Pulled(r, status, t, attemptActive) ==
  [r EXCEPT !.status = status, !.enq = t, !.started = t, !.review = 0,
            !.worker = IF attemptActive THEN @ ELSE NoWorker,
            !.session = NoSession, !.agent = "enqueued"]
===============================================================================

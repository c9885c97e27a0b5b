--------------------------- MODULE ReviewJobs_proofs ---------------------------
(* The row operators of ReviewJobs map rows to rows: the guarded UPDATEs of the *)
(* job table keep the type of what it stores.                                  *)
EXTENDS ReviewJobs, TLAPS


(* No retry is always within the limit.                                        *)
LEMMA NoRetries == 0 \in 0 .. MaxRetries
BY ConstAssumption

(* A row that is not there yet has the type of a row.                          *)
LEMMA AbsentIsRow == Absent \in Row
BY NoRetries DEF Absent, Row, Status

(* insertJobTx writes a row.                                                   *)
LEMMA InsertedIsRow ==
  ASSUME NEW t \in Nat, NEW s \in Sessions \cup {NoSession}, NEW b \in BOOLEAN
  PROVE  Inserted(t, s, b) \in Row
BY NoRetries DEF Inserted, Absent, Row, Status

(* ClaimJob writes a row, whether or not it drops the session.                 *)
LEMMA ClaimedIsRow ==
  ASSUME NEW rows \in [Jobs -> Row], NEW j \in Jobs, NEW w \in Workers, NEW t \in Nat
  PROVE  Claimed(rows, j, w, t) \in Row
<1>1. rows[j] \in Row
  OBVIOUS
<1>2. SessionAfterClaim(rows, j) \in Sessions \cup {NoSession}
  BY <1>1 DEF SessionAfterClaim, Row
<1> QED
  BY <1>1, <1>2 DEF Claimed, Row, Status

(* A row whose backoff has passed is a row.                                    *)
LEMMA UndeferredIsRow ==
  ASSUME NEW r \in Row
  PROVE  [r EXCEPT !.deferred = FALSE] \in Row
BY DEF Row

(* A requeued row is a row, with its retry count untouched.                    *)
LEMMA RequeuedIsRow ==
  ASSUME NEW r \in Row
  PROVE  Requeued(r) \in Row /\ Requeued(r).retry = r.retry
BY DEF Requeued, Row, Status

(* RetryJob keeps retry_count within the limit, because its guard read it below. *)
LEMMA RetriedIsRow ==
  ASSUME NEW r \in Row, NEW w, CanRetry(r, w)
  PROVE  Retried(r) \in Row
<1>1. r.retry \in Nat /\ r.retry + 1 \in 0 .. MaxRetries
  BY ConstAssumption DEF CanRetry, Row
<1> QED
  BY <1>1, RequeuedIsRow DEF Retried, Row

(* FailoverJob writes a row.                                                   *)
LEMMA FailedOverIsRow ==
  ASSUME NEW r \in Row
  PROVE  FailedOver(r) \in Row
BY RequeuedIsRow, NoRetries DEF FailedOver, Row

(* CompleteJob writes a row.                                                   *)
LEMMA CompletedIsRow ==
  ASSUME NEW r \in Row, NEW t \in Nat
  PROVE  Completed(r, t) \in Row
BY DEF Completed, Row, Status, Terminal

(* FailJob, CancelJob and ReleaseCanceledJobClaim write rows.                  *)
LEMMA EndedIsRow ==
  ASSUME NEW r \in Row
  PROVE  Failed(r) \in Row /\ Canceled(r) \in Row /\ Released(r) \in Row
BY DEF Failed, Canceled, Released, Row, Status, Terminal

(* ReenqueueJob writes a row.                                                  *)
LEMMA ReenqueuedIsRow ==
  ASSUME NEW r \in Row, NEW t \in Nat
  PROVE  Reenqueued(r, t) \in Row
BY RequeuedIsRow, NoRetries DEF Reenqueued, Row

(* ResetStaleJobs writes rows.                                                 *)
LEMMA ResetIsRow ==
  ASSUME NEW r \in Row
  PROVE  ResetStale(r) \in Row
<1>1. [r EXCEPT !.worker = NoWorker] \in Row
  BY DEF Row
<1> QED
  BY <1>1, RequeuedIsRow DEF ResetStale

(* UpsertPulledJob writes a row.                                               *)
LEMMA PulledIsRow ==
  ASSUME NEW r \in Row, NEW st \in {"done", "failed", "canceled"}, NEW t \in Nat,
         NEW b \in BOOLEAN
  PROVE  Pulled(r, st, t, b) \in Row
BY DEF Pulled, Row, Status, Terminal
================================================================================

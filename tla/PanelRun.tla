------------------------------- MODULE PanelRun -------------------------------
(* Panel runs: several member reviews and a synthesis job that is inserted     *)
(* claim-blocked and released once the voting members are terminal.  Workers,  *)
(* the cancel endpoint, the CI poller's runtime expiry, the safety sweep and   *)
(* the rerun endpoint all act on the rows; what WorkerPool checks about one    *)
(* attempt (locks, cancel functions, claims of a rerun) is not repeated here.  *)
EXTENDS ReviewJobs, FiniteSets

CONSTANTS
  Runs,        \* panel runs: 0 is enqueued first, later ones are reruns
  Width,       \* rows of a run: the members, then the synthesis
  NonVoting,   \* positions of members whose review the synthesis ignores
  NoJob, NoRun,
  Cancelers,   \* cancel requests that may be in flight
  Rerunners,   \* rerun requests that may be in flight
  Expiry,      \* whether the run is a CI panel whose members may run too long
  StoreErrors, \* whether a write may fail
  MaxRestarts  \* bound: daemon crashes

ASSUME PanelAssumption ==
  /\ Width \in Nat /\ Width > 1
  /\ Runs \subseteq Nat /\ 0 \in Runs
  /\ NonVoting \subseteq 1 .. (Width - 1)
  /\ Jobs = {r * Width + p : r \in Runs, p \in 1 .. Width}
  /\ NoJob \notin Jobs /\ NoRun \notin Runs
  /\ Expiry \in BOOLEAN /\ StoreErrors \in BOOLEAN /\ MaxRestarts \in Nat

VARIABLES
  job,      \* review_jobs
  source,   \* rerun_requests: the run whose synthesis a run replaces
  inputs,   \* voting members whose review the synthesis was made from
  wk,       \* the workers
  cn,       \* cancel requests
  rq,       \* rerun requests
  ex,       \* the expiry pass of the CI poller
  restarts

vars == <<job, source, inputs, wk, cn, rq, ex, restarts>>

Ids(r)     == {r * Width + p : p \in 1 .. Width}
Synth(r)   == r * Width + Width
Members(r) == Ids(r) \ {Synth(r)}
Voters(r)  == Members(r) \ {r * Width + p : p \in NonVoting}
RunOf(j)   == CHOOSE r \in Runs : j \in Ids(r)
IsSynth(j) == j = Synth(RunOf(j))

Inserts(r) == [j \in Jobs |-> IF j \in Ids(r)
                              THEN Inserted(r + 1, NoSession, IsSynth(j)) ELSE job[j]]

(* "gate" is a worker inside its transition that still has to call             *)
(* releaseIfPanelMember, "release" one that still has to give up its claim.    *)
Worker == [pc : {"idle", "run", "merge", "gate", "release"}, job : Jobs \cup {NoJob}]
Idle   == [pc |-> "idle", job |-> NoJob]

Cancel == [pc : {"idle", "cascade", "gate"}, job : Jobs \cup {NoJob}, todo : SUBSET Jobs]
NoCancel == [pc |-> "idle", job |-> NoJob, todo |-> {}]

Expire == [pc : {"idle", "cancel"}, run : Runs \cup {NoRun}, todo : SUBSET Jobs,
           hit : BOOLEAN]
NoExpire == [pc |-> "idle", run |-> NoRun, todo |-> {}, hit |-> FALSE]

Init ==
  /\ job = [j \in Jobs |-> IF j \in Ids(0) THEN Inserted(1, NoSession, IsSynth(j))
                                           ELSE Absent]
  /\ source = [r \in Runs |-> NoRun]
  /\ inputs = [r \in Runs |-> {}]
  /\ wk = [w \in Workers |-> Idle]
  /\ cn = [c \in Cancelers |-> NoCancel]
  /\ rq = [q \in Rerunners |-> NoRun]
  /\ ex = NoExpire
  /\ restarts = 0

-------------------------------------------------------------------------------
(* MaybeReleasePanelSynthesis: one statement, so that of several members that  *)
(* end together at least the last one sees the others.                         *)

IsTerminal(j)    == job[j].status \in Terminal
(* Slip: queued members are forgotten.                                      *)
CanUnblock_RunningOnly(r) ==
  job[Synth(r)].blocked /\ \A j \in Voters(r) : job[j].status # "running"

CanUnblock(r)    == job[Synth(r)].blocked /\ \A j \in Voters(r) : IsTerminal(j)
Unblocked(rows, r) == [rows EXCEPT ![Synth(r)].blocked = FALSE]
MaybeReleased(r) == IF CanUnblock(r) THEN Unblocked(job, r) ELSE job

(* The call, whose error is logged and no more.                                *)
TryRelease(r) == job' \in {MaybeReleased(r)} \cup (IF StoreErrors THEN {job} ELSE {})

At(w, pc) == wk[w].pc = pc
GoTo(w, pc) == wk' = [wk EXCEPT ![w].pc = pc]

-------------------------------------------------------------------------------
(* Workers.                                                                    *)

Claim(w) ==
  /\ At(w, "idle")
  /\ \E j \in Jobs :
       /\ NextClaim(job, j)
       /\ job' = [job EXCEPT ![j] = Claimed(job, j, w, RunOf(j) + 1)]
       /\ wk' = [wk EXCEPT ![w] = [pc |-> "run", job |-> j]]
  /\ UNCHANGED <<source, inputs, cn, rq, ex, restarts>>

BackoffElapses(j) ==
  /\ job[j].deferred
  /\ job' = [job EXCEPT ![j].deferred = FALSE]
  /\ UNCHANGED <<source, inputs, wk, cn, rq, ex, restarts>>

(* A row that is no longer this worker's has nothing done to it.  A worker     *)
(* whose agent was killed still looks at the gate; one whose agent had already *)
(* answered does not.                                                          *)
AttemptCanceled(w) ==
  /\ wk[w].pc \in {"run", "merge"} /\ job[wk[w].job].status = "canceled"
  /\ \E pc \in {"gate", "release"} : GoTo(w, pc)
  /\ UNCHANGED <<job, source, inputs, cn, rq, ex, restarts>>

AttemptFails(w) ==
  LET r == job[wk[w].job] IN
  /\ wk[w].pc \in {"run", "merge"} /\ OwnedBy(r, w)
  /\ \/ CanRetry(r, w) /\ job' = [job EXCEPT ![wk[w].job] = Retried(r)] /\ GoTo(w, "release")
     \/ job' = [job EXCEPT ![wk[w].job] = Failed(r)] /\ GoTo(w, "gate")
  /\ UNCHANGED <<source, inputs, cn, rq, ex, restarts>>

MemberCompletes(w) ==
  LET j == wk[w].job IN
  /\ At(w, "run") /\ ~IsSynth(j) /\ CanComplete(job[j])
  /\ job' = [job EXCEPT ![j] = Completed(@, @.started)]
  /\ GoTo(w, "gate")
  /\ UNCHANGED <<source, inputs, cn, rq, ex, restarts>>

(* processSynthesisJob reads the voting members' reviews; one whose output     *)
(* says nothing, or not enough, counts as failed.                              *)
ReadMembers(w) ==
  LET j == wk[w].job IN
  /\ At(w, "run") /\ IsSynth(j) /\ CanComplete(job[j])
  /\ \E S \in SUBSET {m \in Voters(RunOf(j)) : job[m].status = "done"} :
       inputs' = [inputs EXCEPT ![RunOf(j)] = S]
  /\ GoTo(w, "merge")
  /\ UNCHANGED <<job, source, cn, rq, ex, restarts>>

SynthesisCompletes(w) ==
  LET j == wk[w].job IN
  /\ At(w, "merge") /\ CanComplete(job[j]) /\ inputs[RunOf(j)] # {}
  /\ job' = [job EXCEPT ![j] = Completed(@, @.started)]
  /\ GoTo(w, "release")
  /\ UNCHANGED <<source, inputs, cn, rq, ex, restarts>>

(* failSynthesisWithoutReview: no member has anything to merge.                *)
SynthesisHasNothing(w) ==
  LET j == wk[w].job IN
  /\ At(w, "merge") /\ OwnedBy(job[j], w) /\ inputs[RunOf(j)] = {}
  /\ job' = [job EXCEPT ![j] = Failed(@)]
  /\ GoTo(w, "release")
  /\ UNCHANGED <<source, inputs, cn, rq, ex, restarts>>

OutcomeUnsaved(w) ==
  /\ StoreErrors
  /\ wk[w].pc \in {"run", "merge"}
  /\ GoTo(w, "release")
  /\ UNCHANGED <<job, source, inputs, cn, rq, ex, restarts>>

ReleaseGate(w) ==
  /\ At(w, "gate")
  /\ IF IsSynth(wk[w].job) THEN UNCHANGED job ELSE TryRelease(RunOf(wk[w].job))
  /\ GoTo(w, "release")
  /\ UNCHANGED <<source, inputs, cn, rq, ex, restarts>>

ReleaseClaim(w) ==
  LET j == wk[w].job IN
  /\ At(w, "release")
  /\ job' = [job EXCEPT ![j] = IF CanRelease(@, w) THEN Released(@) ELSE @]
  /\ wk' = [wk EXCEPT ![w] = Idle]
  /\ UNCHANGED <<source, inputs, cn, rq, ex, restarts>>

-------------------------------------------------------------------------------
(* The cancel endpoint: the parent before its members, one statement each.     *)

(* Slip: members whose review does not count are left running.              *)
CancelTarget_VotersOnly(c, j) ==
  /\ cn[c].pc = "idle"
  /\ CanCancel(job[j])
  /\ job' = [job EXCEPT ![j] = Canceled(@)]
  /\ cn' = [cn EXCEPT ![c] =
       IF IsSynth(j) THEN [pc |-> "cascade", job |-> j, todo |-> Voters(RunOf(j))]
                     ELSE [pc |-> "gate", job |-> j, todo |-> {}]]
  /\ UNCHANGED <<source, inputs, wk, rq, ex, restarts>>

(* Slip: the members are canceled before their synthesis.                   *)
CancelTarget_MembersFirst(c, j) ==
  /\ cn[c].pc = "idle"
  /\ CanCancel(job[j])
  /\ job' = IF IsSynth(j) THEN job ELSE [job EXCEPT ![j] = Canceled(@)]
  /\ cn' = [cn EXCEPT ![c] =
       IF IsSynth(j) THEN [pc |-> "cascade", job |-> j, todo |-> Ids(RunOf(j))]
                     ELSE [pc |-> "gate", job |-> j, todo |-> {}]]
  /\ UNCHANGED <<source, inputs, wk, rq, ex, restarts>>

CancelTarget(c, j) ==
  /\ cn[c].pc = "idle"
  /\ CanCancel(job[j])
  /\ job' = [job EXCEPT ![j] = Canceled(@)]
  /\ cn' = [cn EXCEPT ![c] =
       IF IsSynth(j) THEN [pc |-> "cascade", job |-> j, todo |-> Members(RunOf(j))]
                     ELSE [pc |-> "gate", job |-> j, todo |-> {}]]
  /\ UNCHANGED <<source, inputs, wk, rq, ex, restarts>>

(* Members are listed by id.                                                   *)
IsFirst(j, S) == \A i \in S : j <= i

CancelMember(c) ==
  /\ cn[c].pc = "cascade"
  /\ \E j \in cn[c].todo, stored \in BOOLEAN :   \* a member whose write fails is left behind
       /\ IsFirst(j, cn[c].todo)
       /\ ~stored => StoreErrors
       /\ job' = IF CanCancel(job[j]) /\ stored THEN [job EXCEPT ![j] = Canceled(@)] ELSE job
       /\ cn' = [cn EXCEPT ![c].todo = @ \ {j}]
  /\ UNCHANGED <<source, inputs, wk, rq, ex, restarts>>

CancelAnswered(c) ==
  /\ cn[c].pc = "cascade" /\ cn[c].todo = {}
  /\ cn' = [cn EXCEPT ![c] = NoCancel]
  /\ UNCHANGED <<job, source, inputs, wk, rq, ex, restarts>>

CancelGate(c) ==
  /\ cn[c].pc = "gate"
  /\ TryRelease(RunOf(cn[c].job))
  /\ cn' = [cn EXCEPT ![c] = NoCancel]
  /\ UNCHANGED <<source, inputs, wk, rq, ex, restarts>>

-------------------------------------------------------------------------------
(* expireTimedOutPanels: with one real result in hand, members that have been  *)
(* running for too long are canceled from a list read before.                  *)

ExpireList(r) ==
  LET late == {j \in Voters(r) : job[j].status = "running"} IN
  /\ Expiry /\ ex.pc = "idle"
  /\ \E j \in Voters(r) : job[j].status \in {"done", "failed", "canceled"}
  /\ \E S \in (SUBSET late) \ {{}} :
       ex' = [pc |-> "cancel", run |-> r, todo |-> S, hit |-> FALSE]
  /\ UNCHANGED <<job, source, inputs, wk, cn, rq, restarts>>

ExpireMember ==
  /\ ex.pc = "cancel"
  /\ \E j \in ex.todo :
       /\ IsFirst(j, ex.todo)
       /\ job' = [job EXCEPT ![j] = IF CanCancel(@) THEN Canceled(@) ELSE @]
       /\ ex' = [ex EXCEPT !.todo = @ \ {j}, !.hit = @ \/ CanCancel(job[j])]
  /\ UNCHANGED <<source, inputs, wk, cn, rq, restarts>>

ExpireEnds ==
  /\ ex.pc = "cancel" /\ ex.todo = {}
  /\ IF ex.hit THEN TryRelease(ex.run) ELSE UNCHANGED job
  /\ ex' = NoExpire
  /\ UNCHANGED <<source, inputs, wk, cn, rq, restarts>>

-------------------------------------------------------------------------------
(* The safety sweep: orphaned rows, then blocked runs.                         *)

Orphan(j) == job[j].status = "running" /\ \A w \in Workers : wk[w].job # j

SweepOrphan(j) ==
  /\ Orphan(j)
  /\ job' = [job EXCEPT ![j] = Failed(@)]
  /\ UNCHANGED <<source, inputs, wk, cn, rq, ex, restarts>>

(* Slip: runs with a failed or canceled member are not looked at.           *)
SweepStuck_AllDone(r) ==
  /\ CanUnblock(r) /\ \A j \in Voters(r) : job[j].status = "done"
  /\ job' = Unblocked(job, r)
  /\ UNCHANGED <<source, inputs, wk, cn, rq, ex, restarts>>

SweepStuck(r) ==
  /\ CanUnblock(r)
  /\ job' = Unblocked(job, r)
  /\ UNCHANGED <<source, inputs, wk, cn, rq, ex, restarts>>

-------------------------------------------------------------------------------
(* The rerun endpoint: rows are looked at one by one, then one transaction     *)
(* inserts the new run unless the source has a successor that is still active. *)

Rerunnable(r) == CanReenqueue(r)
Active(r) == \E j \in Ids(r) : job[j].status = "queued" \/ HoldsSession(job[j])

RerunChecks(q, r) ==
  /\ rq[q] = NoRun
  /\ \A j \in Ids(r) : Rerunnable(job[j])
  /\ rq' = [rq EXCEPT ![q] = r]
  /\ UNCHANGED <<job, source, inputs, wk, cn, ex, restarts>>

(* Slip: a successor counts only once its synthesis runs.                   *)
ActiveSuccessor_Running(r) ==
  \E s \in Runs : source[s] = r /\ HoldsSession(job[Synth(s)])

ActiveSuccessor(r) == \E s \in Runs : source[s] = r /\ Active(s)

RerunReplays(q) ==
  /\ rq[q] # NoRun /\ ActiveSuccessor(rq[q])
  /\ rq' = [rq EXCEPT ![q] = NoRun]
  /\ UNCHANGED <<job, source, inputs, wk, cn, ex, restarts>>

RerunInserts(q, s) ==
  /\ rq[q] # NoRun /\ ~ActiveSuccessor(rq[q])
  /\ \A j \in Ids(s) : job[j].status = "absent"
  /\ \A r \in Runs : r < s => job[Synth(r)].status # "absent"
  /\ job' = Inserts(s)
  /\ source' = [source EXCEPT ![s] = rq[q]]
  /\ rq' = [rq EXCEPT ![q] = NoRun]
  /\ UNCHANGED <<inputs, wk, cn, ex, restarts>>

-------------------------------------------------------------------------------
Restart ==
  /\ restarts < MaxRestarts /\ restarts' = restarts + 1
  /\ job' = [j \in Jobs |-> ResetStale(job[j])]
  /\ wk' = [w \in Workers |-> Idle]
  /\ cn' = [c \in Cancelers |-> NoCancel]
  /\ rq' = [q \in Rerunners |-> NoRun]
  /\ ex' = NoExpire
  /\ UNCHANGED <<source, inputs>>

WorkerStep(w) ==
  \/ Claim(w) \/ AttemptCanceled(w) \/ AttemptFails(w) \/ MemberCompletes(w)
  \/ ReadMembers(w) \/ SynthesisCompletes(w) \/ SynthesisHasNothing(w)
  \/ OutcomeUnsaved(w) \/ ReleaseGate(w) \/ ReleaseClaim(w)

CancelStep(c) == CancelMember(c) \/ CancelAnswered(c) \/ CancelGate(c)
ExpireStep    == ExpireMember \/ ExpireEnds
SweepStep     == (\E j \in Jobs : SweepOrphan(j)) \/ (\E r \in Runs : SweepStuck(r))

Next ==
  \/ \E w \in Workers : WorkerStep(w)
  \/ \E j \in Jobs : BackoffElapses(j)
  \/ \E c \in Cancelers : (\E j \in Jobs : CancelTarget(c, j)) \/ CancelStep(c)
  \/ (\E r \in Runs : ExpireList(r)) \/ ExpireStep
  \/ SweepStep
  \/ \E q \in Rerunners : \/ \E r \in Runs : RerunChecks(q, r) \/ RerunInserts(q, r)
                          \/ RerunReplays(q)
  \/ Restart

Spec == Init /\ [][Next]_vars

-------------------------------------------------------------------------------
(* Properties.                                                                 *)

(* Every variable keeps its type.                                              *)
TypeOK ==
  /\ job \in [Jobs -> Row]
  /\ source \in [Runs -> Runs \cup {NoRun}]
  /\ inputs \in [Runs -> SUBSET Jobs]
  /\ wk \in [Workers -> Worker]
  /\ cn \in [Cancelers -> Cancel]
  /\ rq \in [Rerunners -> Runs \cup {NoRun}]
  /\ ex \in Expire
  /\ restarts \in 0 .. MaxRestarts

(* A synthesis is made from final results only: while it is claimable, and     *)
(* ever after, no voting member can produce another one, through retries,      *)
(* cancels, expiry, crashes and reruns alike (MaybeReleasePanelSynthesis).     *)
SynthesisAfterMembers ==
  \A r \in Runs :
    /\ (job[Synth(r)].status \in {"queued", "running"} /\ ~job[Synth(r)].blocked)
         => \A j \in Voters(r) : IsTerminal(j)
    /\ job[Synth(r)].status = "done"
         => /\ inputs[r] # {}
            /\ \A j \in inputs[r] : job[j].status = "done" /\ job[j].review # 0

(* Once a cancel of the whole panel has been answered, no member is left to    *)
(* run, whatever workers, retries and other cancels did meanwhile; a crash in  *)
(* the middle of the cascade is the exception (cascadePanelMembers).           *)
CanceledPanelIsOver ==
  restarts = 0 =>
    \A r \in Runs :
      (job[Synth(r)].status = "canceled" /\ \A c \in Cancelers : cn[c].job # Synth(r))
      => \A j \in Members(r) : IsTerminal(j)

(* A cancel of the whole panel takes effect: when it has been answered the     *)
(* synthesis is canceled, not claimed and completed by a worker that saw its   *)
(* members canceled first (parent-first order of humaCancelJob).               *)
CancelTakesEffect ==
  [][\A c \in Cancelers :
       (cn[c].pc = "cascade" /\ cn'[c] = NoCancel /\ restarts' = restarts)
       => job'[cn[c].job].status = "canceled"]_vars

(* A source has at most one active successor, however many requests race.      *)
OneSuccessor ==
  \A r \in Runs : Cardinality({s \in Runs : source[s] = r /\ Active(s)}) <= 1

(* A new run starts only after every agent of the run it replaces has exited:  *)
(* they share a worktree (rerunPanelRun).                                      *)
RerunAfterUnwind ==
  [][\A s \in Runs :
       (source'[s] # source[s]) =>
         \A w \in Workers : wk[w].pc \in {"run", "merge"} => wk[w].job \notin Ids(source'[s])]_vars

(* "Queued members are never canceled by this sweep because queue age is not   *)
(* runtime" (expireTimedOutPanels).                                            *)
ExpirySparesQueued ==
  [][(ex.pc = "cancel" /\ ex' # ex) =>
       \A j \in Jobs : job[j].status = "queued" => job'[j].status # "canceled"]_vars

-------------------------------------------------------------------------------
(* Liveness.  Workers poll, agents end, requests and the expiry pass run to    *)
(* their end, the sweep ticks.                                                 *)
Fairness ==
  /\ \A w \in Workers : WF_vars(WorkerStep(w))
  /\ \A j \in Jobs : WF_vars(BackoffElapses(j))
  /\ \A c \in Cancelers : WF_vars(CancelStep(c))
  /\ WF_vars(ExpireStep)
  /\ \A j \in Jobs : WF_vars(SweepOrphan(j))
  /\ \A r \in Runs : WF_vars(SweepStuck(r))

FairSpec == Spec /\ Fairness

(* "The parent never hangs": every enqueued synthesis reaches a terminal       *)
(* status, also when the release after the last member's end is lost to an     *)
(* error or a crash.                                                           *)
PanelSettles ==
  \A r \in Runs : job[Synth(r)].status = "queued" ~> IsTerminal(Synth(r))
===============================================================================

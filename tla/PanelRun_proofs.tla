---------------------------- MODULE PanelRun_proofs ----------------------------
(* Proofs about PanelRun, for any runs, members, workers and requests: what a  *)
(* synthesis is made from, what a cancel of the panel leaves behind, and how   *)
(* reruns follow each other.                                                   *)
EXTENDS PanelRun, ReviewJobs_proofs, FiniteSetTheorems

-------------------------------------------------------------------------------
(* The ids of a run.                                                           *)

(* Runs do not overlap.                                                        *)
LEMMA RunUnique ==
  ASSUME NEW r \in Runs, NEW s \in Runs, NEW j \in Ids(r), j \in Ids(s)
  PROVE  r = s
<1>1. r \in Nat /\ s \in Nat /\ Width \in Nat /\ Width > 1
  BY PanelAssumption
<1>2. PICK p \in 1 .. Width, q \in 1 .. Width : j = r * Width + p /\ j = s * Width + q
  BY DEF Ids
<1>3. ASSUME NEW a \in Nat, NEW b \in Nat, a < b
      PROVE  a * Width + Width <= b * Width
  <2>1. PICK d \in Nat : b = a + 1 + d
    <3>1. b - a - 1 \in Nat /\ b = a + 1 + (b - a - 1)
      BY <1>3
    <3> QED
      BY <3>1
  <2>2. b * Width = a * Width + Width + d * Width /\ d * Width >= 0
    BY <1>1, <2>1
  <2>3. a * Width \in Nat /\ d * Width \in Nat
    BY <1>1
  <2> QED
    BY <1>1, <2>2, <2>3
<1>4. r * Width \in Nat /\ s * Width \in Nat
  BY <1>1
<1>5. ~(r < s) /\ ~(s < r)
  BY <1>1, <1>2, <1>3, <1>4
<1> QED
  BY <1>1, <1>5

(* The rows of a run, its synthesis among them.                                *)
LEMMA RunRows ==
  ASSUME NEW r \in Runs
  PROVE  /\ Ids(r) \subseteq Jobs /\ Synth(r) \in Ids(r)
         /\ Members(r) \subseteq Ids(r) /\ Synth(r) \notin Members(r)
         /\ Voters(r) \subseteq Members(r)
         /\ \A j \in Ids(r) : j = Synth(r) \/ j \in Members(r)
<1>1. Ids(r) \subseteq Jobs
  BY PanelAssumption DEF Ids
<1>2. Synth(r) \in Ids(r)
  <2>1. Width \in 1 .. Width
    BY PanelAssumption
  <2> QED
    BY <2>1 DEF Ids, Synth
<1> QED
  BY <1>1, <1>2 DEF Members, Voters

(* Every row belongs to one run.                                               *)
LEMMA RowRun ==
  ASSUME NEW j \in Jobs
  PROVE  RunOf(j) \in Runs /\ j \in Ids(RunOf(j))
<1>1. \E r \in Runs : j \in Ids(r)
  BY PanelAssumption DEF Ids
<1> QED
  BY <1>1 DEF RunOf

(* The run of a row of a given run.                                            *)
LEMMA RunOfRow ==
  ASSUME NEW r \in Runs, NEW j \in Ids(r)
  PROVE  RunOf(j) = r /\ (IsSynth(j) <=> j = Synth(r))
<1>1. j \in Jobs
  BY RunRows
<1>2. RunOf(j) = r
  BY <1>1, RowRun, RunUnique
<1> QED
  BY <1>2 DEF IsSynth

-------------------------------------------------------------------------------
(* Which row a worker, a cancel request and the expiry pass are busy with.     *)

WorkerOK(w) == wk[w].pc # "idle" => wk[w].job \in Jobs

CancelOK(c) ==
  /\ cn[c].pc = "idle" => cn[c] = NoCancel
  /\ cn[c].pc = "gate" => cn[c].job \in Jobs
  /\ cn[c].pc = "cascade" =>
       \E r \in Runs : cn[c].job = Synth(r) /\ cn[c].todo \subseteq Members(r)

ExpireOK == ex.pc = "cancel" => ex.run \in Runs /\ ex.todo \subseteq Voters(ex.run)

PanelInv ==
  /\ TypeOK
  /\ \A w \in Workers : WorkerOK(w)
  /\ \A c \in Cancelers : CancelOK(c)
  /\ ExpireOK

-------------------------------------------------------------------------------
(* How one row changes in one step.                                            *)

Quits(w) == wk[w].pc \in {"run", "merge"} /\ wk'[w].pc \notin {"run", "merge"}

ByInsert(j) ==
  /\ job[j].status = "absent"
  /\ \E q \in Rerunners, s \in Runs :
       /\ RerunInserts(q, s) /\ j \in Ids(s)
       /\ \A i \in Ids(s) : job'[i] = Inserted(s + 1, NoSession, IsSynth(i))

ByClaim(j) ==
  /\ Eligible(job[j])
  /\ \E w \in Workers : job'[j] = Claimed(job, j, w, RunOf(j) + 1)

ByBackoff(j) == job'[j] = [job[j] EXCEPT !.deferred = FALSE]

ByFailure(j) ==
  \/ \E w \in Workers :
       /\ Quits(w) /\ OwnedBy(job[j], w)
       /\ job'[j] = Failed(job[j]) \/ (CanRetry(job[j], w) /\ job'[j] = Retried(job[j]))
  \/ Orphan(j) /\ job'[j] = Failed(job[j])

ByReview(j) ==
  /\ CanComplete(job[j]) /\ job'[j] = Completed(job[j], job[j].started)
  /\ \E w \in Workers : Quits(w) /\ wk[w].job = j
  /\ IsSynth(j) => inputs[RunOf(j)] # {}
  /\ inputs' = inputs

ByGate(j) ==
  \E r \in Runs : j = Synth(r) /\ CanUnblock(r) /\ job'[j] = [job[j] EXCEPT !.blocked = FALSE]

ByRelease(j) ==
  \E w \in Workers :
    At(w, "release") /\ CanRelease(job[j], w) /\ job'[j] = Released(job[j])

ByCancel(j) ==
  /\ CanCancel(job[j]) /\ job'[j] = Canceled(job[j])
  /\ IsSynth(j) => \E c \in Cancelers : CancelTarget(c, j)

ByRestart(j) == Restart /\ job'[j] = ResetStale(job[j])

RowStep(j) ==
  \/ job'[j] = job[j]
  \/ ByInsert(j) \/ ByClaim(j) \/ ByBackoff(j) \/ ByFailure(j) \/ ByReview(j) \/ ByGate(j)
  \/ ByRelease(j) \/ ByCancel(j) \/ ByRestart(j)

RowsStep == job' \in [Jobs -> Row] /\ \A j \in Jobs : RowStep(j)

(* A step that changes no row.                                                 *)
LEMMA RowsStay ==
  ASSUME PanelInv, UNCHANGED job
  PROVE  RowsStep
BY DEF PanelInv, TypeOK, RowsStep, RowStep

(* A step that changes one row.                                                *)
LEMMA OneRow ==
  ASSUME PanelInv, NEW j \in Jobs, NEW row \in Row, job' = [job EXCEPT ![j] = row],
         job'[j] = row => RowStep(j)
  PROVE  RowsStep
<1>1. job \in [Jobs -> Row]
  BY DEF PanelInv, TypeOK
<1>2. job' \in [Jobs -> Row] /\ job'[j] = row /\ \A i \in Jobs \ {j} : job'[i] = job[i]
  BY <1>1
<1>3. RowStep(j)
  BY <1>2
<1>4. \A i \in Jobs : RowStep(i)
  BY <1>2, <1>3 DEF RowStep
<1> QED
  BY <1>2, <1>4 DEF RowsStep

(* A change that leaves the row as it was.                                     *)
LEMMA SameRow ==
  ASSUME PanelInv, NEW j \in Jobs, job' = [job EXCEPT ![j] = job[j]]
  PROVE  RowsStep
<1>1. job' = job
  BY DEF PanelInv, TypeOK
<1> QED
  BY <1>1, RowsStay

(* MaybeReleasePanelSynthesis, called or not.                                  *)
LEMMA GateRows ==
  ASSUME PanelInv, NEW r \in Runs, CanUnblock(r), job' = Unblocked(job, r)
  PROVE  RowsStep
<1> DEFINE j == Synth(r)
           row == [job[j] EXCEPT !.blocked = FALSE]
<1>1. j \in Jobs
  BY RunRows
<1>2. job \in [Jobs -> Row]
  BY DEF PanelInv, TypeOK
<1>3. row \in Row
  BY <1>1, <1>2 DEF Row
<1>4. job' = [job EXCEPT ![j] = row]
  BY DEF Unblocked
<1>5. job'[j] = row => RowStep(j)
  BY DEF RowStep, ByGate
<1> HIDE DEF row, j
<1> QED
  BY <1>1, <1>3, <1>4, <1>5, OneRow

(* The call by a worker, a cancel request or the expiry pass.                  *)
LEMMA TryRows ==
  ASSUME PanelInv, NEW r \in Runs, TryRelease(r)
  PROVE  RowsStep
<1>1. job' = job \/ (CanUnblock(r) /\ job' = Unblocked(job, r))
  BY DEF TryRelease, MaybeReleased
<1> QED
  BY <1>1, RowsStay, GateRows

-------------------------------------------------------------------------------
(* Each step changes the rows in one of these ways.                            *)

(* Workers.                                                                    *)
LEMMA WorkerRows ==
  ASSUME PanelInv, NEW w \in Workers, WorkerStep(w)
  PROVE  RowsStep
<1> DEFINE j == wk[w].job
<1>1. job \in [Jobs -> Row] /\ wk \in [Workers -> Worker] /\ WorkerOK(w)
  BY DEF PanelInv, TypeOK
<1>2. wk[w].pc # "idle" => j \in Jobs /\ RunOf(j) \in Runs /\ job[j] \in Row
  BY <1>1, RowRun DEF WorkerOK
<1>3. CASE Claim(w)
  <2>1. PICK i \in Jobs : Eligible(job[i]) /\ job' = [job EXCEPT ![i] = Claimed(job, i, w, RunOf(i) + 1)]
    BY <1>3 DEF Claim, NextClaim
  <2>2. RunOf(i) + 1 \in Nat
    <3> DEFINE r == RunOf(i)
    <3>1. r \in Nat
      BY RowRun, PanelAssumption
    <3> HIDE DEF r
    <3>2. r + 1 \in Nat
      BY <3>1
    <3> QED
      BY <3>2 DEF r
  <2> DEFINE row == Claimed(job, i, w, RunOf(i) + 1)
  <2>3. row \in Row
    BY <1>1, <2>2, ClaimedIsRow
  <2>4. job'[i] = row => RowStep(i)
    BY <2>1 DEF RowStep, ByClaim
  <2> HIDE DEF row
  <2>5. job' = [job EXCEPT ![i] = row]
    BY <2>1 DEF row
  <2> QED
    BY <2>3, <2>4, <2>5, OneRow
<1>4. CASE AttemptFails(w)
  <2>1. j \in Jobs /\ job[j] \in Row /\ OwnedBy(job[j], w) /\ Quits(w)
    BY <1>1, <1>2, <1>4 DEF AttemptFails, GoTo, Quits, Worker
  <2>2. CASE CanRetry(job[j], w) /\ job' = [job EXCEPT ![j] = Retried(job[j])]
    <3> DEFINE row == Retried(job[j])
    <3>1. row \in Row
      BY <1>2, <2>1, <2>2, RetriedIsRow
    <3>2. job'[j] = row => RowStep(j)
      BY <2>1, <2>2 DEF RowStep, ByFailure
    <3> HIDE DEF row, j
    <3>3. job' = [job EXCEPT ![j] = row]
      BY <2>2 DEF row, j
    <3> QED
      BY <2>1, <3>1, <3>2, <3>3, OneRow
  <2>3. CASE job' = [job EXCEPT ![j] = Failed(job[j])]
    <3> DEFINE row == Failed(job[j])
    <3>1. row \in Row
      BY <1>2, <2>1, EndedIsRow
    <3>2. job'[j] = row => RowStep(j)
      BY <2>1 DEF RowStep, ByFailure
    <3> HIDE DEF row, j
    <3>3. job' = [job EXCEPT ![j] = row]
      BY <2>3 DEF row, j
    <3> QED
      BY <2>1, <3>1, <3>2, <3>3, OneRow
  <2> QED
    BY <1>4, <2>2, <2>3 DEF AttemptFails
<1>5. CASE MemberCompletes(w) \/ SynthesisCompletes(w)
  <2>1. j \in Jobs /\ job[j] \in Row /\ CanComplete(job[j]) /\ Quits(w) /\ inputs' = inputs
    BY <1>1, <1>2, <1>5 DEF MemberCompletes, SynthesisCompletes, GoTo, At, Quits, Worker
  <2>2. IsSynth(j) => inputs[RunOf(j)] # {}
    BY <1>5 DEF MemberCompletes, SynthesisCompletes
  <2> DEFINE row == Completed(job[j], job[j].started)
  <2>3. row \in Row
    <3>1. job[j].started \in Nat
      BY <1>2, <2>1 DEF Row
    <3> QED
      BY <1>2, <2>1, <3>1, CompletedIsRow
  <2>4. job'[j] = row => RowStep(j)
    BY <2>1, <2>2 DEF RowStep, ByReview
  <2>5. job' = [job EXCEPT ![j] = row]
    BY <1>5 DEF MemberCompletes, SynthesisCompletes
  <2> HIDE DEF row, j
  <2> QED
    BY <2>1, <2>3, <2>4, <2>5, OneRow
<1>6. CASE SynthesisHasNothing(w)
  <2>1. j \in Jobs /\ job[j] \in Row /\ OwnedBy(job[j], w) /\ Quits(w)
    BY <1>1, <1>2, <1>6 DEF SynthesisHasNothing, GoTo, At, Quits, Worker
  <2> DEFINE row == Failed(job[j])
  <2>2. row \in Row
    BY <1>2, <2>1, EndedIsRow
  <2>3. job'[j] = row => RowStep(j)
    BY <2>1 DEF RowStep, ByFailure
  <2>4. job' = [job EXCEPT ![j] = row]
    BY <1>6 DEF SynthesisHasNothing
  <2> HIDE DEF row, j
  <2> QED
    BY <2>1, <2>2, <2>3, <2>4, OneRow
<1>7. CASE ReleaseGate(w)
  <2>1. UNCHANGED job \/ TryRelease(RunOf(j))
    BY <1>7 DEF ReleaseGate
  <2>2. RunOf(j) \in Runs
    BY <1>2, <1>7 DEF ReleaseGate, At
  <2> QED
    BY <2>1, <2>2, RowsStay, TryRows
<1>8. CASE ReleaseClaim(w)
  <2>1. j \in Jobs /\ job[j] \in Row /\ At(w, "release")
    BY <1>2, <1>8 DEF ReleaseClaim, At
  <2>2. CASE CanRelease(job[j], w)
    <3> DEFINE row == Released(job[j])
    <3>1. row \in Row
      BY <1>2, <2>1, EndedIsRow
    <3>2. job'[j] = row => RowStep(j)
      BY <2>1, <2>2 DEF RowStep, ByRelease
    <3>3. job' = [job EXCEPT ![j] = row]
      BY <1>8, <2>2 DEF ReleaseClaim
    <3> HIDE DEF row, j
    <3> QED
      BY <2>1, <3>1, <3>2, <3>3, OneRow
  <2>3. CASE ~CanRelease(job[j], w)
    <3>1. job' = [job EXCEPT ![j] = job[j]]
      BY <1>8, <2>3 DEF ReleaseClaim
    <3> QED
      BY <2>1, <3>1, SameRow
  <2> QED
    BY <2>2, <2>3
<1>9. CASE UNCHANGED job
  BY <1>9, RowsStay
<1> QED
  BY <1>3, <1>4, <1>5, <1>6, <1>7, <1>8, <1>9
     DEF WorkerStep, AttemptCanceled, ReadMembers, OutcomeUnsaved

(* Cancel requests: the members they cancel are not syntheses.                 *)
LEMMA CancelRows ==
  ASSUME PanelInv, NEW c \in Cancelers,
         (\E j \in Jobs : CancelTarget(c, j)) \/ CancelStep(c)
  PROVE  RowsStep
<1>1. job \in [Jobs -> Row] /\ CancelOK(c)
  BY DEF PanelInv, TypeOK
<1>2. ASSUME NEW j \in Jobs, CanCancel(job[j]), job' = [job EXCEPT ![j] = Canceled(job[j])],
             IsSynth(j) => CancelTarget(c, j)
      PROVE  RowsStep
  <2> DEFINE row == Canceled(job[j])
  <2>1. row \in Row
    BY <1>1, EndedIsRow
  <2>2. job'[j] = row => RowStep(j)
    BY <1>2 DEF RowStep, ByCancel
  <2>3. job' = [job EXCEPT ![j] = row]
    BY <1>2
  <2> HIDE DEF row
  <2> QED
    BY <2>1, <2>2, <2>3, OneRow
<1>3. ASSUME NEW j \in Jobs, CancelTarget(c, j) PROVE RowsStep
  BY <1>2, <1>3 DEF CancelTarget
<1>4. CASE CancelMember(c)
  <2>1. PICK j \in cn[c].todo, stored \in BOOLEAN :
          job' = IF CanCancel(job[j]) /\ stored THEN [job EXCEPT ![j] = Canceled(@)] ELSE job
    BY <1>4 DEF CancelMember
  <2>2. PICK r \in Runs : j \in Members(r)
    BY <1>1, <1>4, <2>1 DEF CancelMember, CancelOK
  <2>3. j \in Jobs /\ ~IsSynth(j)
    BY <2>2, RunRows, RunOfRow
  <2>4. job' = job \/ (CanCancel(job[j]) /\ job' = [job EXCEPT ![j] = Canceled(job[j])])
    BY <2>1
  <2> QED
    BY <1>2, <2>3, <2>4, RowsStay
<1>5. CASE CancelAnswered(c)
  BY <1>5, RowsStay DEF CancelAnswered
<1>6. CASE CancelGate(c)
  <2>1. RunOf(cn[c].job) \in Runs
    BY <1>1, <1>6, RowRun DEF CancelGate, CancelOK
  <2> QED
    BY <1>6, <2>1, TryRows DEF CancelGate
<1> QED
  BY <1>3, <1>4, <1>5, <1>6 DEF CancelStep

(* The expiry pass cancels voting members only.                                *)
LEMMA ExpireRows ==
  ASSUME PanelInv, (\E r \in Runs : ExpireList(r)) \/ ExpireStep
  PROVE  RowsStep
<1>1. job \in [Jobs -> Row] /\ ExpireOK
  BY DEF PanelInv, TypeOK
<1>2. ASSUME NEW r \in Runs, ExpireList(r) PROVE RowsStep
  BY <1>2, RowsStay DEF ExpireList
<1>3. CASE ExpireMember
  <2>1. PICK j \in ex.todo :
          job' = [job EXCEPT ![j] = IF CanCancel(job[j]) THEN Canceled(job[j]) ELSE job[j]]
    BY <1>3 DEF ExpireMember
  <2>2. ex.run \in Runs /\ j \in Voters(ex.run)
    BY <1>1, <1>3, <2>1 DEF ExpireMember, ExpireOK
  <2>3. j \in Jobs /\ ~IsSynth(j)
    BY <2>2, RunRows, RunOfRow
  <2>4. CASE ~CanCancel(job[j])
    BY <2>1, <2>3, <2>4, SameRow
  <2>5. CASE CanCancel(job[j])
    <3> DEFINE row == Canceled(job[j])
    <3>1. row \in Row
      BY <1>1, <2>3, EndedIsRow
    <3>2. job'[j] = row => RowStep(j)
      BY <2>3, <2>5 DEF RowStep, ByCancel
    <3>3. job' = [job EXCEPT ![j] = row]
      BY <2>1, <2>5
    <3> HIDE DEF row
    <3> QED
      BY <2>3, <3>1, <3>2, <3>3, OneRow
  <2> QED
    BY <2>4, <2>5
<1>4. CASE ExpireEnds
  BY <1>1, <1>4, RowsStay, TryRows DEF ExpireEnds, ExpireOK
<1> QED
  BY <1>2, <1>3, <1>4 DEF ExpireStep

(* The safety sweep.                                                           *)
LEMMA SweepRows ==
  ASSUME PanelInv, SweepStep
  PROVE  RowsStep
<1>1. job \in [Jobs -> Row]
  BY DEF PanelInv, TypeOK
<1>2. ASSUME NEW j \in Jobs, SweepOrphan(j) PROVE RowsStep
  <2> DEFINE row == Failed(job[j])
  <2>1. row \in Row
    BY <1>1, EndedIsRow
  <2>2. job'[j] = row => RowStep(j)
    BY <1>2 DEF SweepOrphan, RowStep, ByFailure
  <2>3. job' = [job EXCEPT ![j] = row]
    BY <1>2 DEF SweepOrphan
  <2> HIDE DEF row
  <2> QED
    BY <2>1, <2>2, <2>3, OneRow
<1>3. ASSUME NEW r \in Runs, SweepStuck(r) PROVE RowsStep
  BY <1>3, GateRows DEF SweepStuck
<1> QED
  BY <1>2, <1>3 DEF SweepStep

(* A rerun inserts the rows of one run, all of them absent before.             *)
LEMMA InsertRows ==
  ASSUME PanelInv, NEW q \in Rerunners, NEW s \in Runs, RerunInserts(q, s)
  PROVE  RowsStep
<1>1. job \in [Jobs -> Row] /\ Ids(s) \subseteq Jobs
  BY RunRows DEF PanelInv, TypeOK
<1>2. s + 1 \in Nat
  BY PanelAssumption
<1>3. \A i \in Jobs : job'[i] = IF i \in Ids(s) THEN Inserted(s + 1, NoSession, IsSynth(i)) ELSE job[i]
  BY DEF RerunInserts, Inserts
<1>4. \A i \in Ids(s) : Inserted(s + 1, NoSession, IsSynth(i)) \in Row
  <2>1. ASSUME NEW i \in Ids(s), NEW b \in BOOLEAN PROVE Inserted(s + 1, NoSession, b) \in Row
    <3> DEFINE t == s + 1
    <3>1. t \in Nat
      BY <1>2
    <3> HIDE DEF t
    <3>2. Inserted(t, NoSession, b) \in Row
      BY <3>1, InsertedIsRow
    <3> QED
      BY <3>2 DEF t
  <2> QED
    BY <2>1 DEF IsSynth
<1>5. job' \in [Jobs -> Row]
  <2>1. \A i \in Jobs : job'[i] \in Row
    BY <1>1, <1>3, <1>4
  <2>2. job' = [i \in Jobs |-> job'[i]]
    BY DEF RerunInserts, Inserts
  <2> QED
    BY <2>1, <2>2
<1>6. \A i \in Jobs : RowStep(i)
  <2>1. \A i \in Ids(s) : ByInsert(i)
    BY <1>1, <1>3 DEF RerunInserts, ByInsert
  <2> QED
    BY <1>3, <2>1 DEF RowStep
<1> QED
  BY <1>5, <1>6 DEF RowsStep

(* Every step of the panels changes the rows in one of these ways.             *)
LEMMA NextRows ==
  ASSUME PanelInv, Next
  PROVE  RowsStep
<1>1. job \in [Jobs -> Row]
  BY DEF PanelInv, TypeOK
<1>2. ASSUME NEW j \in Jobs, BackoffElapses(j) PROVE RowsStep
  <2> DEFINE row == [job[j] EXCEPT !.deferred = FALSE]
  <2>1. row \in Row
    BY <1>1, UndeferredIsRow
  <2>2. job'[j] = row => RowStep(j)
    BY DEF RowStep, ByBackoff
  <2>3. job' = [job EXCEPT ![j] = row]
    BY <1>2 DEF BackoffElapses
  <2> HIDE DEF row
  <2> QED
    BY <2>1, <2>2, <2>3, OneRow
<1>3. CASE Restart
  <2>1. job' \in [Jobs -> Row]
    BY <1>1, <1>3, ResetIsRow DEF Restart
  <2>2. \A j \in Jobs : RowStep(j)
    BY <1>3 DEF Restart, RowStep, ByRestart
  <2> QED
    BY <2>1, <2>2 DEF RowsStep
<1>4. ASSUME NEW q \in Rerunners, NEW r \in Runs, RerunChecks(q, r) \/ RerunInserts(q, r)
      PROVE  RowsStep
  BY <1>4, RowsStay, InsertRows DEF RerunChecks
<1>5. ASSUME NEW q \in Rerunners, RerunReplays(q) PROVE RowsStep
  BY <1>5, RowsStay DEF RerunReplays
<1> QED
  BY <1>2, <1>3, <1>4, <1>5, WorkerRows, CancelRows, ExpireRows, SweepRows DEF Next

-------------------------------------------------------------------------------
(* How the other variables change.                                             *)

Begins(w) ==
  /\ wk[w].pc = "idle"
  /\ \E j \in Jobs : /\ Eligible(job[j]) /\ job'[j] = Claimed(job, j, w, RunOf(j) + 1)
                    /\ wk'[w] = [pc |-> "run", job |-> j]

GoesOn(w) ==
  /\ wk[w].pc # "idle" /\ wk'[w].job = wk[w].job
  /\ wk'[w].pc \in {"gate", "release"} \/ (wk[w].pc = "run" /\ wk'[w].pc = "merge")

WorkerMove(w) == wk'[w] = wk[w] \/ Begins(w) \/ GoesOn(w) \/ wk'[w] = Idle

(* What the other steps leave alone.                                           *)
LEMMA NextFrame ==
  ASSUME PanelInv, Next
  PROVE  \/ \E w \in Workers : WorkerStep(w) /\ UNCHANGED <<source, cn, rq, ex, restarts>>
         \/ \E j \in Jobs : BackoffElapses(j) /\ UNCHANGED <<source, inputs, wk, cn, rq, ex, restarts>>
         \/ \E c \in Cancelers : /\ (\E j \in Jobs : CancelTarget(c, j)) \/ CancelStep(c)
                                /\ UNCHANGED <<source, inputs, wk, rq, ex, restarts>>
         \/ /\ (\E r \in Runs : ExpireList(r)) \/ ExpireStep
            /\ UNCHANGED <<source, inputs, wk, cn, rq, restarts>>
         \/ SweepStep /\ UNCHANGED <<source, inputs, wk, cn, rq, ex, restarts>>
         \/ \E q \in Rerunners, r \in Runs :
              (RerunChecks(q, r) \/ RerunInserts(q, r)) /\ UNCHANGED <<inputs, wk, cn, ex, restarts>>
         \/ \E q \in Rerunners :
              RerunReplays(q) /\ UNCHANGED <<job, source, inputs, wk, cn, ex, restarts>>
         \/ Restart /\ UNCHANGED <<source, inputs>>
<1>1. ASSUME NEW w \in Workers, WorkerStep(w)
      PROVE  UNCHANGED <<source, cn, rq, ex, restarts>>
  BY <1>1 DEF WorkerStep, Claim, AttemptCanceled, AttemptFails, MemberCompletes, ReadMembers,
              SynthesisCompletes, SynthesisHasNothing, OutcomeUnsaved, ReleaseGate, ReleaseClaim
<1>2. ASSUME NEW j \in Jobs, BackoffElapses(j)
      PROVE  UNCHANGED <<source, inputs, wk, cn, rq, ex, restarts>>
  BY <1>2 DEF BackoffElapses
<1>3. ASSUME NEW c \in Cancelers, (\E j \in Jobs : CancelTarget(c, j)) \/ CancelStep(c)
      PROVE  UNCHANGED <<source, inputs, wk, rq, ex, restarts>>
  BY <1>3 DEF CancelTarget, CancelStep, CancelMember, CancelAnswered, CancelGate
<1>4. ASSUME (\E r \in Runs : ExpireList(r)) \/ ExpireStep
      PROVE  UNCHANGED <<source, inputs, wk, cn, rq, restarts>>
  BY <1>4 DEF ExpireList, ExpireStep, ExpireMember, ExpireEnds
<1>5. ASSUME SweepStep PROVE UNCHANGED <<source, inputs, wk, cn, rq, ex, restarts>>
  BY <1>5 DEF SweepStep, SweepOrphan, SweepStuck
<1>6. ASSUME NEW q \in Rerunners, NEW r \in Runs, RerunChecks(q, r) \/ RerunInserts(q, r)
      PROVE  UNCHANGED <<inputs, wk, cn, ex, restarts>>
  BY <1>6 DEF RerunChecks, RerunInserts
<1>7. ASSUME NEW q \in Rerunners, RerunReplays(q)
      PROVE  UNCHANGED <<job, source, inputs, wk, cn, ex, restarts>>
  BY <1>7 DEF RerunReplays
<1>8. ASSUME Restart PROVE UNCHANGED <<source, inputs>>
  BY <1>8 DEF Restart
<1> HIDE DEF WorkerStep, BackoffElapses, CancelTarget, CancelStep, ExpireList, ExpireStep,
             SweepStep, RerunChecks, RerunInserts, RerunReplays, Restart
<1> QED
  BY <1>1, <1>2, <1>3, <1>4, <1>5, <1>6, <1>7, <1>8 DEF Next

(* Workers.                                                                    *)
LEMMA WorkerMoves ==
  ASSUME PanelInv, NEW w \in Workers, WorkerStep(w)
  PROVE  wk' \in [Workers -> Worker] /\ \A v \in Workers : WorkerMove(v)
<1>1. wk \in [Workers -> Worker] /\ job \in [Jobs -> Row]
  BY DEF PanelInv, TypeOK
<1>2. CASE Claim(w)
  <2>1. PICK j \in Jobs : /\ Eligible(job[j]) /\ wk[w].pc = "idle"
                          /\ job' = [job EXCEPT ![j] = Claimed(job, j, w, RunOf(j) + 1)]
                          /\ wk' = [wk EXCEPT ![w] = [pc |-> "run", job |-> j]]
    BY <1>2 DEF Claim, NextClaim, At
  <2>2. [pc |-> "run", job |-> j] \in Worker
    BY DEF Worker
  <2>3. wk' \in [Workers -> Worker] /\ wk'[w] = [pc |-> "run", job |-> j]
        /\ \A v \in Workers \ {w} : wk'[v] = wk[v]
    BY <1>1, <2>1, <2>2
  <2>4. job'[j] = Claimed(job, j, w, RunOf(j) + 1)
    BY <1>1, <2>1
  <2> QED
    BY <2>1, <2>3, <2>4 DEF WorkerMove, Begins
<1>3. ASSUME NEW pc \in {"merge", "gate", "release"}, GoTo(w, pc), wk[w].pc # "idle",
             pc = "merge" => wk[w].pc = "run"
      PROVE  wk' \in [Workers -> Worker] /\ \A v \in Workers : WorkerMove(v)
  <2>1. /\ wk' \in [Workers -> Worker] /\ wk'[w].pc = pc /\ wk'[w].job = wk[w].job
        /\ \A v \in Workers \ {w} : wk'[v] = wk[v]
    BY <1>1, <1>3 DEF GoTo, Worker
  <2> QED
    BY <1>3, <2>1 DEF WorkerMove, GoesOn
<1>4. CASE ReleaseClaim(w)
  <2>1. wk' = [wk EXCEPT ![w] = Idle] /\ Idle \in Worker
    BY <1>4 DEF ReleaseClaim, Idle, Worker
  <2> QED
    BY <1>1, <2>1 DEF WorkerMove
<1>5. CASE ReadMembers(w)
  BY <1>3, <1>5 DEF ReadMembers, At
<1>6. CASE AttemptCanceled(w) \/ AttemptFails(w) \/ MemberCompletes(w)
  BY <1>3, <1>6 DEF AttemptCanceled, AttemptFails, MemberCompletes, At
<1>7. CASE SynthesisCompletes(w) \/ SynthesisHasNothing(w) \/ OutcomeUnsaved(w) \/ ReleaseGate(w)
  BY <1>3, <1>7 DEF SynthesisCompletes, SynthesisHasNothing, OutcomeUnsaved, ReleaseGate, At
<1> QED
  BY <1>2, <1>4, <1>5, <1>6, <1>7 DEF WorkerStep

(* All workers.                                                                *)
LEMMA NextWorkers ==
  ASSUME PanelInv, Next
  PROVE  /\ wk' \in [Workers -> Worker] /\ \A w \in Workers : WorkerMove(w)
         /\ \A w \in Workers : WorkerOK(w)'
<1>1. wk \in [Workers -> Worker] /\ \A w \in Workers : WorkerOK(w)
  BY DEF PanelInv, TypeOK
<1>2. wk' \in [Workers -> Worker] /\ \A w \in Workers : WorkerMove(w)
  <2>1. CASE UNCHANGED wk
    BY <1>1, <2>1 DEF WorkerMove
  <2>2. CASE Restart
    <3>1. Idle \in Worker
      BY DEF Idle, Worker
    <3> QED
      BY <2>2, <3>1 DEF Restart, WorkerMove
  <2> QED
    BY <2>1, <2>2, NextFrame, WorkerMoves
<1>3. ASSUME NEW w \in Workers PROVE WorkerOK(w)'
  BY <1>1, <1>2 DEF WorkerOK, WorkerMove, Begins, GoesOn, Idle
<1> QED
  BY <1>2, <1>3

CancelMove(c) ==
  \/ cn'[c] = cn[c]
  \/ \E j \in Jobs : /\ CancelTarget(c, j)
                    /\ IF IsSynth(j)
                       THEN cn'[c] = [pc |-> "cascade", job |-> j, todo |-> Members(RunOf(j))]
                       ELSE cn'[c] = [pc |-> "gate", job |-> j, todo |-> {}]
  \/ /\ CancelMember(c)
     /\ \E j \in cn[c].todo : cn'[c] = [cn[c] EXCEPT !.todo = cn[c].todo \ {j}]
  \/ /\ cn'[c] = NoCancel
     /\ cn[c].pc = "gate" \/ (cn[c].pc = "cascade" /\ cn[c].todo = {}) \/ Restart

(* Cancel requests.                                                            *)
LEMMA CancelMoves ==
  ASSUME PanelInv, NEW c \in Cancelers,
         (\E j \in Jobs : CancelTarget(c, j)) \/ CancelStep(c)
  PROVE  cn' \in [Cancelers -> Cancel] /\ \A d \in Cancelers : CancelMove(d)
<1>1. cn \in [Cancelers -> Cancel]
  BY DEF PanelInv, TypeOK
<1>2. ASSUME NEW x \in Cancel, cn' = [cn EXCEPT ![c] = x]
      PROVE  /\ cn' \in [Cancelers -> Cancel] /\ cn'[c] = x
             /\ \A d \in Cancelers \ {c} : cn'[d] = cn[d]
  BY <1>1, <1>2
<1>3. ASSUME NEW j \in Jobs, CancelTarget(c, j)
      PROVE  cn' \in [Cancelers -> Cancel] /\ \A d \in Cancelers : CancelMove(d)
  <2> DEFINE x == IF IsSynth(j)
                  THEN [pc |-> "cascade", job |-> j, todo |-> Members(RunOf(j))]
                  ELSE [pc |-> "gate", job |-> j, todo |-> {}]
  <2>1. x \in Cancel
    <3>1. Members(RunOf(j)) \subseteq Jobs
      BY RowRun, RunRows
    <3> QED
      BY <3>1 DEF Cancel
  <2>2. cn' = [cn EXCEPT ![c] = x]
    BY <1>3 DEF CancelTarget
  <2>3. /\ cn' \in [Cancelers -> Cancel] /\ cn'[c] = x
        /\ \A d \in Cancelers \ {c} : cn'[d] = cn[d]
    <3> HIDE DEF x
    <3> QED
      BY <1>2, <2>1, <2>2
  <2> QED
    BY <1>3, <2>3 DEF CancelMove
<1>4. CASE CancelMember(c)
  <2>1. PICK j \in cn[c].todo : cn' = [cn EXCEPT ![c].todo = cn[c].todo \ {j}]
    BY <1>4 DEF CancelMember
  <2> DEFINE x == [cn[c] EXCEPT !.todo = cn[c].todo \ {j}]
  <2>2. x \in Cancel /\ cn' = [cn EXCEPT ![c] = x]
    BY <1>1, <2>1 DEF Cancel
  <2>3. /\ cn' \in [Cancelers -> Cancel] /\ cn'[c] = x
        /\ \A d \in Cancelers \ {c} : cn'[d] = cn[d]
    <3> HIDE DEF x
    <3> QED
      BY <1>2, <2>2
  <2> QED
    BY <1>4, <2>3 DEF CancelMove
<1>5. CASE CancelAnswered(c) \/ CancelGate(c)
  <2>1. NoCancel \in Cancel /\ cn' = [cn EXCEPT ![c] = NoCancel]
    BY <1>5 DEF CancelAnswered, CancelGate, NoCancel, Cancel
  <2>2. /\ cn' \in [Cancelers -> Cancel] /\ cn'[c] = NoCancel
        /\ \A d \in Cancelers \ {c} : cn'[d] = cn[d]
    BY <1>2, <2>1
  <2> QED
    BY <1>5, <2>2 DEF CancelMove, CancelAnswered, CancelGate
<1> QED
  BY <1>3, <1>4, <1>5 DEF CancelStep

(* All cancel requests: a cascade names a run and some of its members.         *)
LEMMA NextCancels ==
  ASSUME PanelInv, Next
  PROVE  /\ cn' \in [Cancelers -> Cancel] /\ \A c \in Cancelers : CancelMove(c)
         /\ \A c \in Cancelers : CancelOK(c)'
<1>1. cn \in [Cancelers -> Cancel] /\ \A c \in Cancelers : CancelOK(c)
  BY DEF PanelInv, TypeOK
<1>2. cn' \in [Cancelers -> Cancel] /\ \A c \in Cancelers : CancelMove(c)
  <2>1. CASE UNCHANGED cn
    BY <1>1, <2>1 DEF CancelMove
  <2>2. CASE Restart
    <3>1. NoCancel \in Cancel /\ cn' = [c \in Cancelers |-> NoCancel]
      BY <2>2 DEF Restart, NoCancel, Cancel
    <3> QED
      BY <2>2, <3>1 DEF CancelMove
  <2> QED
    BY <2>1, <2>2, NextFrame, CancelMoves
<1>3. ASSUME NEW c \in Cancelers PROVE CancelOK(c)'
  <2>1. CASE cn'[c] = cn[c]
    BY <1>1, <2>1 DEF CancelOK
  <2>2. ASSUME NEW j \in Jobs, IsSynth(j),
               cn'[c] = [pc |-> "cascade", job |-> j, todo |-> Members(RunOf(j))]
        PROVE  CancelOK(c)'
    <3>1. RunOf(j) \in Runs /\ j = Synth(RunOf(j))
      BY <2>2, RowRun DEF IsSynth
    <3>2. CancelOK(c)' = (/\ cn'[c].pc = "idle" => cn'[c] = NoCancel
                          /\ cn'[c].pc = "gate" => cn'[c].job \in Jobs
                          /\ cn'[c].pc = "cascade" =>
                               \E r \in Runs : cn'[c].job = Synth(r) /\ cn'[c].todo \subseteq Members(r))
      BY DEF CancelOK, Synth, Members, Ids
    <3> QED
      BY <2>2, <3>1, <3>2
  <2>3. ASSUME NEW j \in Jobs, cn'[c] = [pc |-> "gate", job |-> j, todo |-> {}]
        PROVE  CancelOK(c)'
    BY <2>3 DEF CancelOK
  <2>4. ASSUME CancelMember(c), NEW j \in cn[c].todo,
               cn'[c] = [cn[c] EXCEPT !.todo = cn[c].todo \ {j}]
        PROVE  CancelOK(c)'
    BY <1>1, <2>4 DEF CancelOK, Cancel, CancelMember
  <2>5. CASE cn'[c] = NoCancel
    BY <2>5 DEF CancelOK, NoCancel
  <2> QED
    BY <1>2, <2>1, <2>2, <2>3, <2>4, <2>5 DEF CancelMove
<1> QED
  BY <1>2, <1>3

(* The expiry pass.                                                            *)
LEMMA NextExpire ==
  ASSUME PanelInv, Next
  PROVE  ex' \in Expire /\ ExpireOK'
<1>1. ex \in Expire /\ ExpireOK
  BY DEF PanelInv, TypeOK
<1>2. CASE UNCHANGED ex
  BY <1>1, <1>2 DEF ExpireOK
<1>3. ASSUME NEW r \in Runs, ExpireList(r) PROVE ex' \in Expire /\ ExpireOK'
  <2>1. PICK S \in SUBSET Voters(r) : ex' = [pc |-> "cancel", run |-> r, todo |-> S, hit |-> FALSE]
    BY <1>3 DEF ExpireList
  <2>2. S \subseteq Jobs
    BY RunRows
  <2> QED
    BY <2>1, <2>2 DEF Expire, ExpireOK
<1>4. CASE ExpireMember
  <2>1. PICK j \in ex.todo, b \in BOOLEAN : ex' = [ex EXCEPT !.todo = ex.todo \ {j}, !.hit = b]
    <3>1. PICK j \in ex.todo :
            ex' = [ex EXCEPT !.todo = ex.todo \ {j}, !.hit = ex.hit \/ CanCancel(job[j])]
      BY <1>4 DEF ExpireMember
    <3> QED
      BY <3>1
  <2> QED
    BY <1>1, <1>4, <2>1 DEF Expire, ExpireOK, ExpireMember
<1>5. CASE ExpireEnds \/ Restart
  <2>1. ex' = NoExpire
    BY <1>5 DEF ExpireEnds, Restart
  <2>2. NoExpire \in Expire /\ NoExpire.pc = "idle"
    BY DEF NoExpire, Expire
  <2>3. ex'.pc # "cancel"
    BY <2>1, <2>2
  <2> QED
    BY <2>1, <2>2, <2>3 DEF ExpireOK
<1> QED
  BY <1>2, <1>3, <1>4, <1>5, NextFrame DEF ExpireStep

(* Rerun requests, what reruns replace, and what syntheses are made from.      *)
LEMMA NextRuns ==
  ASSUME PanelInv, Next
  PROVE  /\ rq' \in [Rerunners -> Runs \cup {NoRun}]
         /\ source' \in [Runs -> Runs \cup {NoRun}]
         /\ restarts' \in 0 .. MaxRestarts
<1>1. /\ rq \in [Rerunners -> Runs \cup {NoRun}] /\ source \in [Runs -> Runs \cup {NoRun}]
      /\ restarts \in 0 .. MaxRestarts
  BY DEF PanelInv, TypeOK
<1>2. CASE UNCHANGED <<source, rq, restarts>>
  BY <1>1, <1>2
<1>3. CASE Restart
  <2>1. restarts' \in 0 .. MaxRestarts
    <3>1. restarts \in Nat /\ MaxRestarts \in Nat /\ restarts < MaxRestarts /\ restarts' = restarts + 1
      BY <1>1, <1>3, PanelAssumption DEF Restart
    <3> QED
      BY <3>1
  <2> QED
    BY <1>1, <1>3, <2>1 DEF Restart
<1>4. ASSUME NEW q \in Rerunners, NEW r \in Runs, RerunChecks(q, r) \/ RerunInserts(q, r)
      PROVE  /\ rq' \in [Rerunners -> Runs \cup {NoRun}]
             /\ source' \in [Runs -> Runs \cup {NoRun}] /\ restarts' = restarts
  BY <1>1, <1>4 DEF RerunChecks, RerunInserts
<1>5. ASSUME NEW q \in Rerunners, RerunReplays(q)
      PROVE  rq' \in [Rerunners -> Runs \cup {NoRun}] /\ UNCHANGED <<source, restarts>>
  BY <1>1, <1>5 DEF RerunReplays
<1> QED
  BY <1>1, <1>2, <1>3, <1>4, <1>5, NextFrame

(* What a synthesis is made from changes only while it runs, and to reviews    *)
(* that voting members have.                                                   *)
LEMMA NextInputs ==
  ASSUME PanelInv, Next, NEW r \in Runs
  PROVE  /\ inputs' \in [Runs -> SUBSET Jobs]
         /\ \/ inputs'[r] = inputs[r]
            \/ /\ job[Synth(r)].status = "running" /\ job' = job
               /\ inputs'[r] \subseteq {m \in Voters(r) : job[m].status = "done"}
<1>1. inputs \in [Runs -> SUBSET Jobs] /\ \A w \in Workers : WorkerOK(w)
  BY DEF PanelInv, TypeOK
<1>2. CASE UNCHANGED inputs
  BY <1>1, <1>2
<1>3. ASSUME NEW w \in Workers, ReadMembers(w)
      PROVE  /\ inputs' \in [Runs -> SUBSET Jobs]
             /\ \/ inputs'[r] = inputs[r]
                \/ /\ job[Synth(r)].status = "running" /\ job' = job
                   /\ inputs'[r] \subseteq {m \in Voters(r) : job[m].status = "done"}
  <2> DEFINE s == RunOf(wk[w].job)
  <2>1. wk[w].job \in Jobs
    BY <1>1, <1>3 DEF ReadMembers, At, WorkerOK
  <2>2. s \in Runs /\ wk[w].job = Synth(s) /\ Voters(s) \subseteq Jobs
    BY <1>3, <2>1, RowRun, RunRows DEF ReadMembers, IsSynth
  <2>3. PICK S \in SUBSET {m \in Voters(s) : job[m].status = "done"} :
          inputs' = [inputs EXCEPT ![s] = S]
    BY <1>3 DEF ReadMembers
  <2>4. job[Synth(s)].status = "running" /\ job' = job
    BY <1>3, <2>2 DEF ReadMembers, CanComplete
  <2> HIDE DEF s
  <2> QED
    BY <1>1, <2>2, <2>3, <2>4
<1>4. ASSUME NEW w \in Workers, WorkerStep(w), ~ReadMembers(w) PROVE UNCHANGED inputs
  BY <1>4 DEF WorkerStep, Claim, AttemptCanceled, AttemptFails, MemberCompletes,
              SynthesisCompletes, SynthesisHasNothing, OutcomeUnsaved, ReleaseGate, ReleaseClaim
<1> QED
  BY <1>2, <1>3, <1>4, NextFrame

-------------------------------------------------------------------------------
(* The first invariant.                                                        *)

(* The first run's rows are inserted, nobody is busy.                          *)
LEMMA PanelInit == Init => PanelInv
<1> SUFFICES ASSUME Init PROVE PanelInv
  OBVIOUS
<1>1. job \in [Jobs -> Row]
  <2>1. ASSUME NEW j \in Jobs PROVE Inserted(1, NoSession, IsSynth(j)) \in Row
    BY InsertedIsRow DEF IsSynth
  <2> QED
    BY <2>1, AbsentIsRow DEF Init
<1>2. /\ source \in [Runs -> Runs \cup {NoRun}] /\ inputs \in [Runs -> SUBSET Jobs]
      /\ rq \in [Rerunners -> Runs \cup {NoRun}] /\ restarts \in 0 .. MaxRestarts
  BY PanelAssumption DEF Init
<1>3. wk \in [Workers -> Worker] /\ \A w \in Workers : WorkerOK(w)
  BY DEF Init, Idle, Worker, WorkerOK
<1>4. cn \in [Cancelers -> Cancel] /\ \A c \in Cancelers : CancelOK(c)
  BY DEF Init, NoCancel, Cancel, CancelOK
<1>5. ex \in Expire /\ ExpireOK
  BY DEF Init, NoExpire, Expire, ExpireOK
<1> QED
  BY <1>1, <1>2, <1>3, <1>4, <1>5 DEF PanelInv, TypeOK

(* A step keeps it.                                                            *)
LEMMA PanelNext == PanelInv /\ Next => PanelInv'
<1> SUFFICES ASSUME PanelInv, Next PROVE PanelInv'
  OBVIOUS
<1>1. job' \in [Jobs -> Row]
  BY NextRows DEF RowsStep
<1>2. inputs' \in [Runs -> SUBSET Jobs]
  BY NextInputs, PanelAssumption
<1> QED
  BY <1>1, <1>2, NextWorkers, NextCancels, NextExpire, NextRuns DEF PanelInv, TypeOK

(* A stuttering step keeps it.                                                 *)
LEMMA PanelStutters == PanelInv /\ UNCHANGED vars => PanelInv'
BY DEF PanelInv, TypeOK, WorkerOK, CancelOK, ExpireOK, vars

(* Workers, cancel requests and the expiry pass always name rows that exist, a *)
(* cascade the members of one run.                                             *)
THEOREM PanelInvariant == Spec => []PanelInv
<1>1. PanelInv /\ [Next]_vars => PanelInv'
  BY PanelNext, PanelStutters
<1> QED
  BY PanelInit, <1>1, PTL DEF Spec

(* Every variable of the panels keeps its type.                                *)
THEOREM PanelTyped == Spec => []TypeOK
<1>1. PanelInv => TypeOK
  BY DEF PanelInv
<1> QED
  BY PanelInvariant, <1>1, PTL

-------------------------------------------------------------------------------
(* What a synthesis is made from.                                              *)

(* A row that has ended keeps its status and its review; the model's runs are  *)
(* replaced by new rows, not requeued.                                         *)
LEMMA EndedStays ==
  ASSUME PanelInv, NEW j \in Jobs, RowStep(j), IsTerminal(j)
  PROVE  job'[j].status = job[j].status /\ job'[j].review = job[j].review
<1>1. job[j] \in Row
  BY DEF PanelInv, TypeOK
<1>2. job[j].status \notin {"absent", "queued", "running"}
  BY DEF IsTerminal, Terminal
<1>3. ~ByInsert(j) /\ ~ByClaim(j) /\ ~ByFailure(j) /\ ~ByReview(j) /\ ~ByCancel(j)
  BY <1>2 DEF ByInsert, ByClaim, Eligible, ByFailure, OwnedBy, Orphan, ByReview, CanComplete,
              ByCancel, CanCancel
<1>4. CASE ByBackoff(j)
  BY <1>1, <1>4 DEF ByBackoff, Row
<1>5. CASE ByGate(j)
  BY <1>1, <1>5 DEF ByGate, Row
<1>6. CASE ByRelease(j)
  BY <1>1, <1>6 DEF ByRelease, Released, Row
<1>7. CASE ByRestart(j)
  BY <1>1, <1>2, <1>7 DEF ByRestart, ResetStale, Row
<1> QED
  BY <1>3, <1>4, <1>5, <1>6, <1>7 DEF RowStep

(* A row has a start stamp while it runs, and a review once it is done.        *)
RowGood(j) ==
  /\ job[j].status = "running" => job[j].started # 0
  /\ job[j].status = "done" => job[j].review # 0

(* A synthesis that can be claimed, or runs, has only ended voting members.    *)
GateGood(r) ==
  (job[Synth(r)].status \in {"queued", "running"} /\ ~job[Synth(r)].blocked)
    => \A j \in Voters(r) : IsTerminal(j)

(* It is made from done members, and not from nothing.                         *)
InputsGood(r) ==
  /\ \A j \in inputs[r] : job[j].status = "done"
  /\ job[Synth(r)].status = "done" => inputs[r] # {}

GateInv ==
  /\ PanelInv
  /\ \A j \in Jobs : RowGood(j)
  /\ \A r \in Runs : GateGood(r) /\ InputsGood(r)

(* Claims, ends and releases keep a row's stamps.                              *)
LEMMA RowGoodKept ==
  ASSUME PanelInv, NEW j \in Jobs, RowStep(j), RowGood(j)
  PROVE  RowGood(j)'
<1>1. job[j] \in Row
  BY DEF PanelInv, TypeOK
<1>2. CASE job'[j] = job[j]
  BY <1>2 DEF RowGood
<1>3. CASE ByInsert(j)
  BY <1>3 DEF ByInsert, Inserted, Absent, RowGood
<1>4. CASE ByClaim(j)
  <2> DEFINE r == RunOf(j)
  <2>1. r \in Nat
    BY RowRun, PanelAssumption
  <2>2. PICK w \in Workers : job'[j] = Claimed(job, j, w, r + 1)
    BY <1>4 DEF ByClaim
  <2> HIDE DEF r
  <2>3. job'[j].status = "running" /\ job'[j].started = r + 1
    BY <1>1, <2>2 DEF Claimed, Row
  <2>4. r + 1 # 0
    BY <2>1
  <2> QED
    BY <2>3, <2>4 DEF RowGood
<1>5. CASE ByBackoff(j) \/ ByGate(j)
  BY <1>1, <1>5 DEF ByBackoff, ByGate, Row, RowGood
<1>6. CASE ByFailure(j)
  <2>1. job'[j].status \in {"failed", "queued"}
    BY <1>1, <1>6 DEF ByFailure, Failed, Retried, Requeued, Row
  <2> QED
    BY <2>1 DEF RowGood
<1>7. CASE ByReview(j)
  BY <1>1, <1>7 DEF ByReview, CanComplete, Completed, Row, RowGood
<1>8. CASE ByRelease(j) \/ ByCancel(j)
  BY <1>1, <1>8 DEF ByRelease, CanRelease, Released, ByCancel, Canceled, Row, RowGood
<1>9. CASE ByRestart(j)
  <2>1. job'[j].status # "running" /\ (job'[j].status = "done" => job[j].status = "done")
        /\ job'[j].review = job[j].review
    BY <1>1, <1>9 DEF ByRestart, ResetStale, Requeued, Row
  <2> QED
    BY <2>1 DEF RowGood
<1> QED
  BY <1>2, <1>3, <1>4, <1>5, <1>6, <1>7, <1>8, <1>9 DEF RowStep

(* A row that can be claimed, or runs, unblocked was so before, or its gate    *)
(* opens in this step.                                                         *)
LEMMA GateBefore ==
  ASSUME PanelInv, NEW r \in Runs, RowStep(Synth(r)),
         job'[Synth(r)].status \in {"queued", "running"}, ~job'[Synth(r)].blocked
  PROVE  \/ job[Synth(r)].status \in {"queued", "running"} /\ ~job[Synth(r)].blocked
         \/ CanUnblock(r)
<1> DEFINE j == Synth(r)
<1>1. j \in Jobs /\ IsSynth(j) /\ RunOf(j) = r /\ j \in Ids(r)
  BY RunRows, RunOfRow
<1>2. job[j] \in Row
  BY <1>1 DEF PanelInv, TypeOK
<1>3. CASE ByInsert(j)
  <2>1. PICK s \in Runs : job'[j] = Inserted(s + 1, NoSession, IsSynth(j))
    BY <1>3 DEF ByInsert
  <2>2. job'[j] = Inserted(s + 1, NoSession, TRUE)
    BY <1>1, <2>1
  <2>3. job'[j].blocked
    BY <2>2 DEF Inserted, Absent
  <2> QED
    BY <2>3
<1>4. CASE ByClaim(j)
  BY <1>4 DEF ByClaim, Eligible
<1>5. CASE ByBackoff(j)
  BY <1>2, <1>5 DEF ByBackoff, Row
<1>6. CASE ByFailure(j)
  <2>1. job[j].status = "running"
    BY <1>6 DEF ByFailure, OwnedBy, Orphan
  <2>2. job'[j].blocked = job[j].blocked
    BY <1>2, <1>6 DEF ByFailure, Failed, Retried, Requeued, Row
  <2> QED
    BY <2>1, <2>2
<1>7. CASE ByReview(j)
  BY <1>2, <1>7 DEF ByReview, Completed, Row
<1>8. CASE ByGate(j)
  <2>1. PICK s \in Runs : j = Synth(s) /\ CanUnblock(s)
    BY <1>8 DEF ByGate
  <2>2. s = r
    BY <1>1, <2>1, RunRows, RunUnique
  <2> QED
    BY <2>1, <2>2
<1>9. CASE ByRelease(j) \/ ByCancel(j)
  BY <1>2, <1>9 DEF ByRelease, CanRelease, Released, ByCancel, Canceled, Row
<1>10. CASE ByRestart(j)
  <2>1. job'[j].blocked = job[j].blocked
    BY <1>2, <1>10 DEF ByRestart, ResetStale, Requeued, Row
  <2>2. job[j].status = "running" \/ job'[j].status = job[j].status
    BY <1>2, <1>10 DEF ByRestart, ResetStale, Row
  <2> QED
    BY <2>1, <2>2
<1>11. CASE job'[j] = job[j]
  BY <1>11
<1> QED
  BY <1>3, <1>4, <1>5, <1>6, <1>7, <1>8, <1>9, <1>10, <1>11 DEF RowStep

(* A row is done by the completion of its attempt only.                        *)
LEMMA DoneBefore ==
  ASSUME PanelInv, NEW j \in Jobs, RowStep(j), job'[j].status = "done"
  PROVE  job[j].status = "done" \/ ByReview(j)
<1>1. job[j] \in Row
  BY DEF PanelInv, TypeOK
<1>2. CASE ByInsert(j) \/ ByClaim(j)
  BY <1>1, <1>2 DEF ByInsert, Inserted, Absent, ByClaim, Claimed, Row
<1>3. CASE ByBackoff(j) \/ ByGate(j)
  BY <1>1, <1>3 DEF ByBackoff, ByGate, Row
<1>4. CASE ByFailure(j)
  BY <1>1, <1>4 DEF ByFailure, Failed, Retried, Requeued, Row
<1>5. CASE ByRelease(j) \/ ByCancel(j)
  BY <1>1, <1>5 DEF ByRelease, Released, ByCancel, Canceled, Row
<1>6. CASE ByRestart(j)
  BY <1>1, <1>6 DEF ByRestart, ResetStale, Requeued, Row
<1> QED
  BY <1>2, <1>3, <1>4, <1>5, <1>6 DEF RowStep

(* A step keeps the invariant.                                                 *)
LEMMA GateNext == GateInv /\ Next => GateInv'
<1> SUFFICES ASSUME GateInv, Next PROVE GateInv'
  OBVIOUS
<1>1. PanelInv /\ PanelInv' /\ \A j \in Jobs : RowStep(j)
  BY NextRows, PanelNext DEF GateInv, RowsStep
<1>2. ASSUME NEW j \in Jobs PROVE RowGood(j)'
  BY <1>1, <1>2, RowGoodKept DEF GateInv
<1>3. ASSUME NEW r \in Runs PROVE GateGood(r)'
  <2>1. SUFFICES ASSUME job'[Synth(r)].status \in {"queued", "running"},
                        ~job'[Synth(r)].blocked, NEW j \in Voters(r)
                 PROVE  job'[j].status \in Terminal
    BY DEF GateGood, IsTerminal, Synth, Voters, Members, Ids
  <2>2. Synth(r) \in Jobs /\ j \in Jobs
    BY RunRows
  <2>3. CanUnblock(r) \/ (job[Synth(r)].status \in {"queued", "running"} /\ ~job[Synth(r)].blocked)
    BY <1>1, <2>1, <2>2, GateBefore
  <2>4. IsTerminal(j)
    BY <2>3 DEF GateInv, GateGood, CanUnblock
  <2> QED
    BY <1>1, <2>2, <2>4, EndedStays DEF IsTerminal
<1>4. ASSUME NEW r \in Runs PROVE InputsGood(r)'
  <2>1. Synth(r) \in Jobs /\ Voters(r) \subseteq Jobs /\ inputs[r] \subseteq Jobs
    BY RunRows DEF GateInv, PanelInv, TypeOK
  <2>2. \A j \in Jobs : job[j].status = "done" => job'[j].status = "done"
    BY <1>1, EndedStays DEF IsTerminal, Terminal
  <2>3. InputsGood(r)
    BY DEF GateInv
  <2>4. CASE inputs'[r] = inputs[r]
    <3>1. job'[Synth(r)].status = "done" => inputs[r] # {}
      <4>1. SUFFICES ASSUME job'[Synth(r)].status = "done" PROVE inputs[r] # {}
        OBVIOUS
      <4>2. job[Synth(r)].status = "done" \/ ByReview(Synth(r))
        BY <1>1, <2>1, <4>1, DoneBefore
      <4>3. RunOf(Synth(r)) = r /\ IsSynth(Synth(r))
        BY RunRows, RunOfRow
      <4> QED
        BY <2>3, <4>2, <4>3 DEF ByReview, InputsGood
    <3> QED
      BY <2>1, <2>2, <2>3, <2>4, <3>1 DEF InputsGood, Synth
  <2>5. CASE /\ job[Synth(r)].status = "running" /\ job' = job
             /\ inputs'[r] \subseteq {m \in Voters(r) : job[m].status = "done"}
    BY <2>1, <2>5 DEF InputsGood, Synth
  <2> QED
    BY <1>1, <2>4, <2>5, NextInputs
<1> QED
  BY <1>1, <1>2, <1>3, <1>4 DEF GateInv

(* The rows of the first run are queued, its synthesis blocked.                *)
LEMMA GateInit == Init => GateInv
<1> SUFFICES ASSUME Init PROVE GateInv
  OBVIOUS
<1>1. \A j \in Jobs : job[j].status \in {"queued", "absent"}
  BY DEF Init, Inserted, Absent
<1>2. ASSUME NEW r \in Runs PROVE GateGood(r) /\ InputsGood(r)
  <2> DEFINE j == Synth(r)
  <2>1. j \in Jobs /\ IsSynth(j)
    BY RunRows, RunOfRow
  <2>2. j \in Ids(0) => job[j] = Inserted(1, NoSession, TRUE)
    BY <2>1 DEF Init
  <2>3. j \notin Ids(0) => job[j] = Absent
    BY <2>1 DEF Init
  <2>4. job[j].status = "absent" \/ job[j].blocked
    <3>1. CASE j \in Ids(0)
      <4>1. job[j].blocked = TRUE
        BY <2>2, <3>1 DEF Inserted, Absent
      <4> QED
        BY <4>1
    <3>2. CASE j \notin Ids(0)
      BY <2>3, <3>2 DEF Absent
    <3> QED
      BY <3>1, <3>2
  <2> QED
    BY <1>1, <2>1, <2>4 DEF GateGood, InputsGood, Init
<1> QED
  BY <1>1, <1>2, PanelInit DEF GateInv, RowGood

(* The gate holds in every reachable state.                                    *)
THEOREM GateInvariant == Spec => []GateInv
<1>1. GateInv /\ UNCHANGED vars => GateInv'
  BY PanelStutters DEF GateInv, RowGood, GateGood, InputsGood, IsTerminal, vars
<1> QED
  BY GateInit, GateNext, <1>1, PTL DEF Spec

(* A synthesis is made from final results only, through retries, cancels,      *)
(* expiry, crashes and reruns.                                                 *)
THEOREM SynthesisIsFinal == Spec => []SynthesisAfterMembers
<1>1. GateInv => SynthesisAfterMembers
  <2> SUFFICES ASSUME GateInv, NEW r \in Runs
               PROVE  /\ GateGood(r)
                      /\ job[Synth(r)].status = "done"
                           => /\ inputs[r] # {}
                              /\ \A j \in inputs[r] : job[j].status = "done" /\ job[j].review # 0
    BY DEF SynthesisAfterMembers, GateGood
  <2>1. inputs[r] \subseteq Jobs
    BY DEF GateInv, PanelInv, TypeOK
  <2> QED
    BY <2>1 DEF GateInv, InputsGood, RowGood
<1> QED
  BY GateInvariant, <1>1, PTL

-------------------------------------------------------------------------------
(* What a cancel of the panel leaves behind.                                   *)

(* The rows of a run are inserted together.                                    *)
Together(r) ==
  job[Synth(r)].status # "absent" => \A j \in Members(r) : job[j].status # "absent"

(* A canceled synthesis has only ended members, but for those that a cascade   *)
(* has still to reach.                                                         *)
Cascaded(r) ==
  job[Synth(r)].status = "canceled" =>
    \A j \in Members(r) :
      \/ IsTerminal(j)
      \/ \E c \in Cancelers : cn[c].pc = "cascade" /\ cn[c].job = Synth(r) /\ j \in cn[c].todo

(* A cascade follows the cancel of its synthesis.                              *)
CascadeOfCanceled(c) == cn[c].pc = "cascade" => job[cn[c].job].status = "canceled"

CancelInv ==
  /\ PanelInv
  /\ \A r \in Runs : Together(r)
  /\ \A c \in Cancelers : CascadeOfCanceled(c)

(* A row does not become absent, and a row that is canceled was so before or   *)
(* is canceled by this step.                                                   *)
LEMMA CanceledBefore ==
  ASSUME PanelInv, NEW j \in Jobs, RowStep(j)
  PROVE  /\ job'[j].status = "absent" => job[j].status = "absent"
         /\ job'[j].status = "canceled" => job[j].status = "canceled" \/ ByCancel(j)
         /\ job'[j].status # "absent" => job[j].status # "absent" \/ ByInsert(j)
<1>1. job[j] \in Row
  BY DEF PanelInv, TypeOK
<1>2. CASE ByInsert(j)
  BY <1>2 DEF ByInsert, Inserted, Absent
<1>3. CASE ByClaim(j)
  BY <1>1, <1>3 DEF ByClaim, Eligible, Claimed, Row
<1>4. CASE ByBackoff(j) \/ ByGate(j)
  BY <1>1, <1>4 DEF ByBackoff, ByGate, Row
<1>5. CASE ByFailure(j)
  BY <1>1, <1>5 DEF ByFailure, OwnedBy, Orphan, Failed, Retried, Requeued, Row
<1>6. CASE ByReview(j)
  BY <1>1, <1>6 DEF ByReview, CanComplete, Completed, Row
<1>7. CASE ByRelease(j) \/ ByCancel(j)
  BY <1>1, <1>7 DEF ByRelease, CanRelease, Released, ByCancel, CanCancel, Canceled, Row
<1>8. CASE ByRestart(j)
  BY <1>1, <1>8 DEF ByRestart, ResetStale, Requeued, Row
<1> QED
  BY <1>2, <1>3, <1>4, <1>5, <1>6, <1>7, <1>8 DEF RowStep

(* A step keeps the first two.                                                 *)
LEMMA CancelNext == CancelInv /\ Next => CancelInv'
<1> SUFFICES ASSUME CancelInv, Next PROVE CancelInv'
  OBVIOUS
<1>1. PanelInv /\ PanelInv' /\ \A j \in Jobs : RowStep(j)
  BY NextRows, PanelNext DEF CancelInv, RowsStep
<1>2. ASSUME NEW r \in Runs PROVE Together(r)'
  <2>1. SUFFICES ASSUME job'[Synth(r)].status # "absent", NEW j \in Members(r)
                 PROVE  job'[j].status # "absent"
    BY DEF Together, Synth, Members, Ids
  <2>2. Synth(r) \in Jobs /\ j \in Jobs /\ j \in Ids(r) /\ Synth(r) \in Ids(r)
    BY RunRows
  <2>3. CASE job[Synth(r)].status # "absent"
    <3>1. job[j].status # "absent"
      BY <2>3 DEF CancelInv, Together
    <3> QED
      BY <1>1, <2>2, <3>1, CanceledBefore
  <2>4. CASE ByInsert(Synth(r))
    <3>1. PICK s \in Runs : Synth(r) \in Ids(s) /\ \A i \in Ids(s) : job'[i] = Inserted(s + 1, NoSession, IsSynth(i))
      BY <2>4 DEF ByInsert
    <3>2. s = r
      BY <2>2, <3>1, RunUnique
    <3>3. job'[j] = Inserted(s + 1, NoSession, IsSynth(j))
      BY <2>2, <3>1, <3>2
    <3> QED
      BY <3>3 DEF Inserted, Absent
  <2> QED
    BY <1>1, <2>1, <2>2, <2>3, <2>4, CanceledBefore
<1>3. ASSUME NEW c \in Cancelers PROVE CascadeOfCanceled(c)'
  <2>1. SUFFICES ASSUME cn'[c].pc = "cascade" PROVE job'[cn'[c].job].status = "canceled"
    BY DEF CascadeOfCanceled
  <2>2. CASE cn[c].pc = "cascade" /\ cn'[c].job = cn[c].job
    <3>1. job[cn[c].job].status = "canceled" /\ cn[c].job \in Jobs
      BY <2>2, RunRows DEF CancelInv, CascadeOfCanceled, PanelInv, CancelOK
    <3> QED
      BY <1>1, <2>2, <3>1, EndedStays DEF IsTerminal, Terminal
  <2>3. ASSUME NEW j \in Jobs, CancelTarget(c, j), cn'[c].job = j
        PROVE  job'[j].status = "canceled"
    BY <1>1, <2>3 DEF CancelTarget, Canceled, PanelInv, TypeOK, Row
  <2>4. \/ cn[c].pc = "cascade" /\ cn'[c].job = cn[c].job
        \/ \E j \in Jobs : CancelTarget(c, j) /\ cn'[c].job = j
    <3>1. CASE cn'[c] = cn[c]
      BY <2>1, <3>1
    <3>2. ASSUME NEW j \in Jobs, CancelTarget(c, j),
                 IF IsSynth(j)
                 THEN cn'[c] = [pc |-> "cascade", job |-> j, todo |-> Members(RunOf(j))]
                 ELSE cn'[c] = [pc |-> "gate", job |-> j, todo |-> {}]
          PROVE  cn'[c].job = j
      BY <3>2
    <3>3. ASSUME CancelMember(c), NEW j \in cn[c].todo,
                 cn'[c] = [cn[c] EXCEPT !.todo = cn[c].todo \ {j}]
          PROVE  cn[c].pc = "cascade" /\ cn'[c].job = cn[c].job
      BY <1>1, <3>3 DEF CancelMember, PanelInv, TypeOK, Cancel
    <3>4. CASE cn'[c] = NoCancel
      BY <2>1, <3>4 DEF NoCancel
    <3>5. CancelMove(c)
      BY <1>1, NextCancels
    <3> QED
      BY <3>1, <3>2, <3>3, <3>4, <3>5 DEF CancelMove
  <2> QED
    BY <2>2, <2>3, <2>4
<1> QED
  BY <1>1, <1>2, <1>3 DEF CancelInv

(* Nothing is canceled at first.                                               *)
LEMMA CancelInit == Init => CancelInv
<1> SUFFICES ASSUME Init PROVE CancelInv
  OBVIOUS
<1>1. ASSUME NEW r \in Runs PROVE Together(r)
  <2>1. SUFFICES ASSUME job[Synth(r)].status # "absent", NEW j \in Members(r)
                 PROVE  job[j].status # "absent"
    BY DEF Together
  <2>2. Synth(r) \in Jobs /\ Synth(r) \in Ids(r) /\ j \in Jobs /\ j \in Ids(r) /\ 0 \in Runs
    BY RunRows, PanelAssumption
  <2>3. Synth(r) \in Ids(0)
    BY <2>1, <2>2 DEF Init, Absent
  <2>4. r = 0
    BY <2>2, <2>3, RunUnique
  <2> QED
    BY <2>2, <2>4 DEF Init, Inserted, Absent
<1> QED
  BY <1>1, PanelInit DEF CancelInv, CascadeOfCanceled, Init, NoCancel

(* The invariant of cancels.                                                   *)
LEMMA CancelInvariant == Spec => []CancelInv
<1>1. CancelInv /\ UNCHANGED vars => CancelInv'
  BY PanelStutters DEF CancelInv, Together, CascadeOfCanceled, vars
<1> QED
  BY CancelInit, CancelNext, <1>1, PTL DEF Spec

(* A cancel of the whole panel takes effect: parent first, the synthesis is    *)
(* canceled before any member, and a canceled row stays canceled.              *)
THEOREM PanelCancelsTakeEffect == Spec => CancelTakesEffect
<1> DEFINE Effect ==
      \A c \in Cancelers :
        (cn[c].pc = "cascade" /\ cn'[c] = NoCancel /\ restarts' = restarts)
        => job'[cn[c].job].status = "canceled"
<1>1. CancelInv /\ [Next]_vars => [Effect]_vars
  <2> SUFFICES ASSUME CancelInv, Next, NEW c \in Cancelers, cn[c].pc = "cascade"
               PROVE  job'[cn[c].job].status = "canceled"
    BY DEF Effect
  <2>1. job[cn[c].job].status = "canceled" /\ cn[c].job \in Jobs
    BY RunRows DEF CancelInv, CascadeOfCanceled, PanelInv, CancelOK
  <2> QED
    BY <2>1, NextRows, EndedStays DEF CancelInv, RowsStep, IsTerminal, Terminal
<1>2. CancelTakesEffect <=> [][Effect]_vars
  BY DEF CancelTakesEffect
<1> HIDE DEF Effect
<1> QED
  BY CancelInvariant, <1>1, <1>2, PTL DEF Spec

(* A cascade that goes on has one member less to reach, which has ended.       *)
LEMMA CascadeReaches ==
  ASSUME PanelInv, CancelInv, ~StoreErrors, Next, restarts' = 0, NEW r \in Runs,
         NEW j \in Members(r), NEW c \in Cancelers, job[Synth(r)].status = "canceled",
         cn[c].pc = "cascade", cn[c].job = Synth(r), j \in cn[c].todo
  PROVE  \/ job'[j].status \in Terminal
         \/ cn'[c].pc = "cascade" /\ cn'[c].job = Synth(r) /\ j \in cn'[c].todo
<1>1. CancelMove(c) /\ restarts \in Nat /\ j \in Jobs /\ cn \in [Cancelers -> Cancel]
      /\ job \in [Jobs -> Row]
  BY NextCancels, RunRows DEF PanelInv, TypeOK
<1>2. ~Restart
  BY <1>1 DEF Restart
<1>3. \A i \in Jobs : ~CancelTarget(c, i)
  BY DEF CancelTarget
<1>4. ~(cn[c].pc = "gate" \/ (cn[c].pc = "cascade" /\ cn[c].todo = {}) \/ Restart)
  BY <1>2
<1>5. CASE cn'[c] = cn[c]
  BY <1>5
<1>6. CASE CancelMember(c)
  <2>1. PICK i \in cn[c].todo, stored \in BOOLEAN :
          /\ stored
          /\ job' = IF CanCancel(job[i]) /\ stored THEN [job EXCEPT ![i] = Canceled(job[i])] ELSE job
          /\ cn' = [cn EXCEPT ![c].todo = cn[c].todo \ {i}]
    BY <1>6 DEF CancelMember
  <2>2. cn'[c].pc = "cascade" /\ cn'[c].job = Synth(r) /\ cn'[c].todo = cn[c].todo \ {i}
    BY <1>1, <2>1 DEF Cancel
  <2>3. CASE i # j
    BY <2>2, <2>3
  <2>4. CASE i = j
    <3>1. CASE CanCancel(job[j])
      BY <1>1, <2>1, <2>4, <3>1 DEF Canceled, Row, Terminal
    <3>2. CASE ~CanCancel(job[j])
      <4>1. job[j].status # "absent"
        BY DEF CancelInv, Together
      <4>2. job[j].status \in Terminal
        BY <1>1, <3>2, <4>1 DEF CanCancel, Row, Status
      <4> QED
        BY <2>1, <2>4, <3>2, <4>2
    <3> QED
      BY <3>1, <3>2
  <2> QED
    BY <2>3, <2>4
<1> QED
  BY <1>1, <1>3, <1>4, <1>5, <1>6 DEF CancelMove

CascadeInv == restarts = 0 => \A r \in Runs : Cascaded(r)

(* A step keeps it, unless a member's write fails.                             *)
LEMMA CascadeNext ==
  ASSUME CancelInv, ~StoreErrors, Next, CascadeInv
  PROVE  CascadeInv'
<1>1. PanelInv /\ cn \in [Cancelers -> Cancel] /\ restarts \in Nat /\ \A j \in Jobs : RowStep(j)
  BY NextRows DEF CancelInv, PanelInv, TypeOK, RowsStep
<1>2. SUFFICES ASSUME restarts' = 0, NEW r \in Runs, job'[Synth(r)].status = "canceled",
                      NEW j \in Members(r)
               PROVE  \/ job'[j].status \in Terminal
                      \/ \E c \in Cancelers : /\ cn'[c].pc = "cascade" /\ cn'[c].job = Synth(r)
                                             /\ j \in cn'[c].todo
  BY DEF CascadeInv, Cascaded, IsTerminal, Synth, Members, Ids
<1>3. restarts = 0
  <2>1. restarts' = restarts \/ restarts' = restarts + 1
    BY NextFrame, <1>1 DEF Restart, RerunChecks, RerunInserts
  <2> QED
    BY <1>1, <1>2, <2>1
<1>4. Synth(r) \in Jobs /\ j \in Jobs /\ IsSynth(Synth(r)) /\ RunOf(Synth(r)) = r
  BY RunRows, RunOfRow
<1>5. CASE job[Synth(r)].status = "canceled"
  <2>1. CASE IsTerminal(j)
    BY <1>1, <1>4, <2>1, EndedStays DEF IsTerminal
  <2>2. ASSUME NEW c \in Cancelers, cn[c].pc = "cascade", cn[c].job = Synth(r), j \in cn[c].todo
        PROVE  \/ job'[j].status \in Terminal
               \/ cn'[c].pc = "cascade" /\ cn'[c].job = Synth(r) /\ j \in cn'[c].todo
    BY <1>1, <1>2, <1>5, <2>2, CascadeReaches
  <2> QED
    BY <1>3, <1>5, <2>1, <2>2 DEF CascadeInv, Cascaded
<1>6. ASSUME NEW c \in Cancelers, CancelTarget(c, Synth(r))
      PROVE  cn'[c].pc = "cascade" /\ cn'[c].job = Synth(r) /\ j \in cn'[c].todo
  <2>1. cn' = [cn EXCEPT ![c] = [pc |-> "cascade", job |-> Synth(r), todo |-> Members(r)]]
    BY <1>4, <1>6 DEF CancelTarget
  <2>2. cn'[c] = [pc |-> "cascade", job |-> Synth(r), todo |-> Members(r)]
    BY <1>1, <2>1
  <2> QED
    BY <2>2
<1> QED
  BY <1>1, <1>2, <1>4, <1>5, <1>6, CanceledBefore DEF ByCancel

(* Once a cancel of the whole panel has been answered, no member is left to    *)
(* run, as long as no write fails and the daemon does not die meanwhile.       *)
THEOREM CanceledPanelsEnd == ~StoreErrors => (Spec => []CanceledPanelIsOver)
<1> SUFFICES ASSUME ~StoreErrors PROVE Spec => []CanceledPanelIsOver
  OBVIOUS
<1>1. Init => CascadeInv
  <2> SUFFICES ASSUME Init, NEW r \in Runs PROVE job[Synth(r)].status # "canceled"
    BY DEF CascadeInv, Cascaded
  <2>1. Synth(r) \in Jobs
    BY RunRows
  <2> QED
    BY <2>1 DEF Init, Inserted, Absent
<1>2. CancelInv /\ CascadeInv /\ [Next]_vars => CascadeInv'
  <2>1. CancelInv /\ CascadeInv /\ Next => CascadeInv'
    BY CascadeNext
  <2>2. CascadeInv /\ UNCHANGED vars => CascadeInv'
    BY DEF CascadeInv, Cascaded, IsTerminal, vars
  <2> QED
    BY <2>1, <2>2
<1>3. CascadeInv => CanceledPanelIsOver
  BY DEF CascadeInv, Cascaded, CanceledPanelIsOver
<1> QED
  BY CancelInvariant, <1>1, <1>2, <1>3, PTL DEF Spec

-------------------------------------------------------------------------------
(* How reruns follow each other.                                               *)

Live(j) == job[j].status = "queued" \/ HoldsSession(job[j])

(* A row is live only if it was before or is inserted by this step.            *)
LEMMA LiveBefore ==
  ASSUME PanelInv, NEW j \in Jobs, RowStep(j), Live(j)'
  PROVE  Live(j) \/ ByInsert(j)
<1>1. job[j] \in Row
  BY DEF PanelInv, TypeOK
<1>2. Live(j)' <=> \/ job'[j].status \in {"queued", "running"}
                   \/ job'[j].status = "canceled" /\ job'[j].worker # NoWorker
  BY DEF Live, HoldsSession
<1>3. CASE job'[j] = job[j]
  BY <1>2, <1>3 DEF Live, HoldsSession
<1>4. CASE ByClaim(j)
  BY <1>4 DEF ByClaim, Eligible, Live
<1>5. CASE ByBackoff(j) \/ ByGate(j)
  <2>1. job'[j].status = job[j].status /\ job'[j].worker = job[j].worker
    BY <1>1, <1>5 DEF ByBackoff, ByGate, Row
  <2> QED
    BY <1>2, <2>1 DEF Live, HoldsSession
<1>6. CASE ByFailure(j) \/ ByReview(j)
  BY <1>6 DEF ByFailure, OwnedBy, Orphan, ByReview, CanComplete, Live, HoldsSession
<1>7. CASE ByRelease(j)
  <2>1. job'[j].status = "canceled" /\ job'[j].worker = NoWorker
    BY <1>1, <1>7 DEF ByRelease, CanRelease, Released, Row
  <2> QED
    BY <1>2, <2>1
<1>8. CASE ByCancel(j)
  BY <1>8 DEF ByCancel, CanCancel, Live, HoldsSession
<1>9. CASE ByRestart(j)
  <2>1. CASE job[j].status = "running"
    BY <2>1 DEF Live, HoldsSession
  <2>2. CASE job[j].status # "running"
    <3>1. job'[j].status = job[j].status /\ job'[j].worker = NoWorker
      BY <1>1, <1>9, <2>2 DEF ByRestart, ResetStale, Row
    <3> QED
      BY <1>2, <2>2, <3>1 DEF Live
  <2> QED
    BY <2>1, <2>2
<1> QED
  BY <1>3, <1>4, <1>5, <1>6, <1>7, <1>8, <1>9 DEF RowStep

(* Two active runs do not replace the same one.                                *)
Successors ==
  \A s, t \in Runs : (source[s] = source[t] /\ source[s] \in Runs /\ Active(s) /\ Active(t)) => s = t

(* A step other than a rerun's insert makes no run active.                     *)
LEMMA ActiveBefore ==
  ASSUME PanelInv, Next, NEW s \in Runs, Active(s)', ~Active(s)
  PROVE  \E q \in Rerunners : RerunInserts(q, s)
<1>1. PICK j \in Ids(s) : Live(j)'
  BY DEF Active, Live, Ids
<1>2. j \in Jobs /\ ~Live(j) /\ RowStep(j)
  BY RunRows, NextRows DEF Active, Live, RowsStep
<1>3. ByInsert(j)
  BY <1>1, <1>2, LiveBefore
<1>4. PICK q \in Rerunners, r \in Runs : RerunInserts(q, r) /\ j \in Ids(r)
  BY <1>3 DEF ByInsert
<1>5. r = s
  BY <1>4, RunUnique
<1> QED
  BY <1>4, <1>5

(* What a rerun's insert changes.                                              *)
LEMMA InsertFacts ==
  ASSUME PanelInv, NEW q \in Rerunners, NEW s \in Runs, RerunInserts(q, s)
  PROVE  /\ rq[q] \in Runs /\ source'[s] = rq[q] /\ \A t \in Runs \ {s} : source'[t] = source[t]
         /\ \A t \in Runs : source[t] = rq[q] => ~Active(t)
         /\ \A t \in Runs \ {s} : Active(t)' => Active(t)
<1>1. rq \in [Rerunners -> Runs \cup {NoRun}] /\ source \in [Runs -> Runs \cup {NoRun}]
  BY DEF PanelInv, TypeOK
<1>2. rq[q] \in Runs
  BY <1>1 DEF RerunInserts
<1>3. source'[s] = rq[q] /\ \A t \in Runs \ {s} : source'[t] = source[t]
  BY <1>1 DEF RerunInserts
<1>4. \A t \in Runs : source[t] = rq[q] => ~Active(t)
  BY <1>2 DEF RerunInserts, ActiveSuccessor
<1>5. ASSUME NEW t \in Runs \ {s}, Active(t)' PROVE Active(t)
  <2>1. PICK j \in Ids(t) : Live(j)'
    BY <1>5 DEF Active, Live, Ids
  <2>2. j \in Jobs /\ j \notin Ids(s)
    BY <1>5, RunRows, RunUnique
  <2>3. job'[j] = job[j]
    BY <2>2 DEF RerunInserts, Inserts
  <2>4. Live(j)
    BY <2>1, <2>3 DEF Live, HoldsSession
  <2> QED
    BY <2>4 DEF Active, Live
<1> QED
  BY <1>2, <1>3, <1>4, <1>5

(* A step keeps successors apart.                                              *)
LEMMA SuccessorsNext ==
  ASSUME PanelInv, Next, Successors
  PROVE  Successors'
<1>1. SUFFICES ASSUME NEW s \in Runs, NEW t \in Runs, source'[s] = source'[t],
                      source'[s] \in Runs, Active(s)', Active(t)', s # t
               PROVE  FALSE
  BY DEF Successors
<1>2. ASSUME NEW q \in Rerunners, NEW r \in Runs, RerunInserts(q, r) PROVE FALSE
  <2>1. /\ source'[r] = rq[q] /\ \A u \in Runs \ {r} : source'[u] = source[u]
        /\ \A u \in Runs : source[u] = rq[q] => ~Active(u)
        /\ \A u \in Runs \ {r} : Active(u)' => Active(u)
    BY <1>2, InsertFacts
  <2>2. CASE s # r /\ t # r
    BY <1>1, <2>1, <2>2 DEF Successors
  <2>3. CASE s = r
    BY <1>1, <2>1, <2>3
  <2>4. CASE t = r
    BY <1>1, <2>1, <2>4
  <2> QED
    BY <2>2, <2>3, <2>4
<1>3. CASE \A q \in Rerunners, r \in Runs : ~RerunInserts(q, r)
  <2>1. source' = source
    BY <1>3, NextFrame DEF RerunChecks
  <2>2. Active(s) /\ Active(t)
    BY <1>1, <1>3, ActiveBefore
  <2> QED
    BY <1>1, <2>1, <2>2 DEF Successors
<1> QED
  BY <1>2, <1>3

(* A source has at most one active successor, however many requests race.      *)
THEOREM SuccessorsApart == Spec => []OneSuccessor
<1>1. Init => Successors
  <2> SUFFICES ASSUME Init, NEW s \in Runs PROVE source[s] \notin Runs
    BY DEF Successors
  <2> QED
    BY PanelAssumption DEF Init
<1>2. PanelInv /\ Successors /\ [Next]_vars => Successors'
  <2>1. PanelInv /\ Successors /\ Next => Successors'
    BY SuccessorsNext
  <2>2. Successors /\ UNCHANGED vars => Successors'
    BY DEF Successors, Active, HoldsSession, Ids, vars
  <2> QED
    BY <2>1, <2>2
<1>3. Successors => OneSuccessor
  <2> SUFFICES ASSUME Successors, NEW r \in Runs
               PROVE  Cardinality({s \in Runs : source[s] = r /\ Active(s)}) <= 1
    BY DEF OneSuccessor
  <2> DEFINE S == {s \in Runs : source[s] = r /\ Active(s)}
  <2>1. \A s, t \in S : s = t
    BY DEF Successors
  <2>2. CASE S = {}
    BY <2>2, FS_EmptySet
  <2>3. CASE S # {}
    <3>1. PICK s \in S : S = {s}
      BY <2>1, <2>3
    <3>2. Cardinality(S) = 1
      BY <3>1, FS_Singleton
    <3> QED
      BY <3>2
  <2> QED
    BY <2>2, <2>3
<1> QED
  BY PanelInvariant, <1>1, <1>2, <1>3, PTL DEF Spec

(* A worker with an attempt in hand is the one its row names, even after the   *)
(* row was canceled.                                                           *)
RunnerOK(w) ==
  wk[w].pc \in {"run", "merge"}
    => /\ HoldsSession(job[wk[w].job]) /\ job[wk[w].job].worker = w

(* A run whose rerun is under way stays rerunnable.                            *)
RequestOK(q) == rq[q] \in Runs => \A j \in Ids(rq[q]) : CanReenqueue(job[j])

RunnerInv ==
  /\ PanelInv
  /\ \A w \in Workers : RunnerOK(w)
  /\ \A q \in Rerunners : RequestOK(q)

(* A row that could be rerun still can.                                        *)
LEMMA RerunnableStays ==
  ASSUME PanelInv, NEW j \in Jobs, RowStep(j), CanReenqueue(job[j])
  PROVE  CanReenqueue(job'[j])
<1>1. job[j] \in Row /\ IsTerminal(j)
  BY DEF PanelInv, TypeOK, CanReenqueue, IsTerminal, Terminal
<1>2. job'[j].status = job[j].status
  BY <1>1, EndedStays
<1>3. job[j].worker = NoWorker => job'[j].worker = NoWorker
  <2>1. ~ByInsert(j) /\ ~ByClaim(j) /\ ~ByFailure(j) /\ ~ByReview(j) /\ ~ByCancel(j)
    BY DEF CanReenqueue, ByInsert, ByClaim, Eligible, ByFailure, OwnedBy, Orphan, ByReview,
           CanComplete, ByCancel, CanCancel
  <2>2. CASE ByBackoff(j) \/ ByGate(j)
    BY <1>1, <2>2 DEF ByBackoff, ByGate, Row
  <2>3. CASE ByRelease(j) \/ ByRestart(j)
    BY <1>1, <2>3 DEF ByRelease, Released, ByRestart, ResetStale, Requeued, Row
  <2> QED
    BY <2>1, <2>2, <2>3 DEF RowStep
<1> QED
  BY <1>2, <1>3 DEF CanReenqueue

(* Nobody else ends, hands on or releases a worker's attempt.                  *)
LEMMA RunnerKept ==
  ASSUME RunnerInv, Next, NEW w \in Workers
  PROVE  RunnerOK(w)'
<1>1. PanelInv /\ \A v \in Workers : WorkerOK(v) /\ RunnerOK(v) /\ WorkerMove(v)
  BY NextWorkers DEF RunnerInv, PanelInv
<1>2. \A j \in Jobs : job[j] \in Row /\ RowStep(j)
  BY NextRows DEF RunnerInv, PanelInv, TypeOK, RowsStep
<1>3. SUFFICES ASSUME wk'[w].pc \in {"run", "merge"}
               PROVE  /\ HoldsSession(job'[wk'[w].job]) /\ job'[wk'[w].job].worker = w
  BY DEF RunnerOK, HoldsSession
<1>4. CASE Begins(w)
  <2>1. PICK j \in Jobs : job'[j] = Claimed(job, j, w, RunOf(j) + 1) /\ wk'[w] = [pc |-> "run", job |-> j]
    BY <1>4 DEF Begins
  <2>2. job'[j].status = "running" /\ job'[j].worker = w
    BY <1>2, <2>1 DEF Claimed, Row
  <2> QED
    BY <2>1, <2>2 DEF HoldsSession
<1>5. CASE wk[w].pc \in {"run", "merge"} /\ wk'[w].job = wk[w].job
  <2> DEFINE j == wk[w].job
  <2>1. j \in Jobs /\ HoldsSession(job[j]) /\ job[j].worker = w /\ w # NoWorker
    BY <1>1, <1>5, ConstAssumption DEF WorkerOK, RunnerOK
  <2>2. ~Restart
    BY <1>3 DEF Restart, Idle
  <2>3. ~Quits(w)
    BY <1>3 DEF Quits
  <2>4. ~ByInsert(j) /\ ~ByClaim(j) /\ ~ByRestart(j)
    BY <2>1, <2>2 DEF HoldsSession, ByInsert, ByClaim, Eligible, ByRestart
  <2>5. ~ByFailure(j)
    BY <2>1, <2>3 DEF ByFailure, OwnedBy, Orphan
  <2>6. ~ByReview(j)
    <3>1. ASSUME NEW v \in Workers, Quits(v), wk[v].job = j PROVE v = w
      BY <1>1, <2>1, <3>1 DEF Quits, RunnerOK
    <3> QED
      BY <2>3, <3>1 DEF ByReview
  <2>7. ~ByRelease(j)
    BY <1>5, <2>1 DEF ByRelease, CanRelease, At
  <2>8. job'[j].worker = w /\ (job'[j].status = job[j].status \/ job'[j].status = "canceled")
    <3>1. CASE job'[j] = job[j]
      BY <2>1, <3>1
    <3>2. CASE ByBackoff(j) \/ ByGate(j)
      BY <1>2, <2>1, <3>2 DEF ByBackoff, ByGate, Row
    <3>3. CASE ByCancel(j)
      BY <1>2, <2>1, <3>3 DEF ByCancel, Canceled, Row
    <3> QED
      BY <1>2, <2>1, <2>4, <2>5, <2>6, <2>7, <3>1, <3>2, <3>3 DEF RowStep
  <2> QED
    BY <1>5, <2>1, <2>8 DEF HoldsSession
<1> QED
  BY <1>1, <1>3, <1>4, <1>5 DEF WorkerMove, GoesOn, Idle

(* A step keeps what reruns rest on.                                           *)
LEMMA RunnerNext == RunnerInv /\ Next => RunnerInv'
<1> SUFFICES ASSUME RunnerInv, Next PROVE RunnerInv'
  OBVIOUS
<1>1. PanelInv /\ PanelInv' /\ \A j \in Jobs : RowStep(j)
  BY NextRows, PanelNext DEF RunnerInv, RowsStep
<1>2. ASSUME NEW q \in Rerunners PROVE RequestOK(q)'
  <2>1. SUFFICES ASSUME rq'[q] \in Runs, NEW j \in Ids(rq'[q])
                 PROVE  CanReenqueue(job'[j])
    BY DEF RequestOK, Ids, CanReenqueue
  <2>2. rq \in [Rerunners -> Runs \cup {NoRun}] /\ NoRun \notin Runs
    BY <1>1, PanelAssumption DEF PanelInv, TypeOK
  <2>3. rq'[q] = rq[q] \/ RerunChecks(q, rq'[q])
    <3>1. CASE UNCHANGED rq
      BY <3>1
    <3>2. CASE Restart
      BY <2>1, <2>2, <3>2 DEF Restart
    <3>3. ASSUME NEW p \in Rerunners, NEW r \in Runs, RerunChecks(p, r)
          PROVE  rq'[q] = rq[q] \/ RerunChecks(q, rq'[q])
      <4>1. rq' = [rq EXCEPT ![p] = r]
        BY <3>3 DEF RerunChecks
      <4>2. CASE p = q
        BY <2>2, <3>3, <4>1, <4>2
      <4>3. CASE p # q
        BY <2>2, <4>1, <4>3
      <4> QED
        BY <4>2, <4>3
    <3>4. ASSUME NEW p \in Rerunners, NEW r \in Runs, RerunInserts(p, r) \/ RerunReplays(p)
          PROVE  rq'[q] = rq[q]
      <4>1. rq' = [rq EXCEPT ![p] = NoRun]
        BY <3>4 DEF RerunInserts, RerunReplays
      <4> QED
        BY <2>1, <2>2, <4>1
    <3> QED
      BY <1>1, <3>1, <3>2, <3>3, <3>4, NextFrame, PanelAssumption
  <2>4. CASE rq'[q] = rq[q]
    BY <1>1, <2>1, <2>4, RunRows, RerunnableStays DEF RunnerInv, RequestOK
  <2>5. CASE RerunChecks(q, rq'[q])
    BY <2>1, <2>5 DEF RerunChecks, Rerunnable
  <2> QED
    BY <2>3, <2>4, <2>5
<1> QED
  BY <1>1, <1>2, RunnerKept DEF RunnerInv

(* The invariant of reruns: at first nobody has an attempt or a rerun in hand. *)
LEMMA RunnerInvariant == Spec => []RunnerInv
<1>1. Init => RunnerInv
  <2> SUFFICES ASSUME Init PROVE RunnerInv
    OBVIOUS
  <2>1. \A w \in Workers : wk[w].pc = "idle"
    BY DEF Init, Idle
  <2>2. \A q \in Rerunners : rq[q] \notin Runs
    BY PanelAssumption DEF Init
  <2> QED
    BY <2>1, <2>2, PanelInit DEF RunnerInv, RunnerOK, RequestOK
<1>2. RunnerInv /\ UNCHANGED vars => RunnerInv'
  BY PanelStutters DEF RunnerInv, RunnerOK, RequestOK, HoldsSession, CanReenqueue, vars
<1> QED
  BY <1>1, <1>2, RunnerNext, PTL DEF Spec

(* A new run starts only after every agent of the run it replaces has exited.  *)
THEOREM PanelRerunWaits == Spec => RerunAfterUnwind
<1> DEFINE Waits ==
      \A s \in Runs :
        (source'[s] # source[s]) =>
          \A w \in Workers : wk[w].pc \in {"run", "merge"} => wk[w].job \notin Ids(source'[s])
<1>1. RunnerInv /\ [Next]_vars => [Waits]_vars
  <2> SUFFICES ASSUME RunnerInv, Next, NEW s \in Runs, source'[s] # source[s],
                      NEW w \in Workers, wk[w].pc \in {"run", "merge"}
               PROVE  wk[w].job \notin Ids(source'[s])
    BY DEF Waits
  <2>1. PICK q \in Rerunners, r \in Runs : RerunInserts(q, r)
    <3>1. source' # source
      OBVIOUS
    <3> QED
      BY <3>1, NextFrame DEF RunnerInv, RerunChecks
  <2>2. rq[q] \in Runs /\ source'[s] = rq[q]
    BY <2>1, InsertFacts DEF RunnerInv
  <2>3. HoldsSession(job[wk[w].job]) /\ job[wk[w].job].worker # NoWorker
    BY ConstAssumption DEF RunnerInv, RunnerOK
  <2>4. ~CanReenqueue(job[wk[w].job])
    BY <2>3 DEF HoldsSession, CanReenqueue
  <2> QED
    BY <2>2, <2>4 DEF RunnerInv, RequestOK
<1>2. RerunAfterUnwind <=> [][Waits]_vars
  BY DEF RerunAfterUnwind
<1> HIDE DEF Waits
<1> QED
  BY RunnerInvariant, <1>1, <1>2, PTL DEF Spec
===============================================================================

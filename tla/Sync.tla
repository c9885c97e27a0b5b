--------------------------------- MODULE Sync ---------------------------------
(* Sync through PostgreSQL (internal/storage/sync.go, syncworker.go,           *)
(* postgres.go): every machine has a database of its own, uploads the ended    *)
(* attempts it made and the reviews it wrote or edited, and downloads what the *)
(* others uploaded.  No transaction spans two databases: an upload is stored   *)
(* in one and acknowledged in another, a download is read from one snapshot    *)
(* and stored later, while users enqueue, rerun and edit on every machine.     *)
(*                                                                             *)
(* Attempts of a job are ordered by enqueue time, then by machine; any clock   *)
(* may be behind.  A machine writes one review for each attempt that is done,  *)
(* so the attempt stands for the review's UUID.  A cursor with its lookback is *)
(* the set of rows a machine is sure to read again, `unseen`; it may read any  *)
(* others too.  Uploads go in batches of plan.limit rows (syncBatchSize), by   *)
(* the ids of the jobs on that machine, plan.id.                               *)
EXTENDS Integers, FiniteSets

CONSTANTS
  Machines,      \* machine ids, in the order of their UUIDs
  Jobs,          \* job UUIDs
  MaxTime,       \* bound: enqueue times
  Plans          \* bounds: where the jobs that exist were made (home), what users and
                 \* workers do (deeds), how often something fails (upsets); the batch
                 \* size (limit), the local ids, the machines with a fast clock

(* What users and workers do, each deed once.  fast: machines whose clock is   *)
(* ahead of that of PostgreSQL; no two jobs have the same id on a machine.     *)
Plan == [home : UNION {[S -> Machines] : S \in SUBSET Jobs},
         deeds : SUBSET ({"enqueue", "rerun", "edit", "cost"} \X Machines \X Jobs),
         upsets : Nat, limit : Nat \ {0}, id : [Machines -> [Jobs -> Nat]],
         fast : SUBSET Machines]

ASSUME SyncAssumption ==
  /\ Machines \subseteq Nat \ {0} /\ MaxTime \in Nat \ {0} /\ Plans \subseteq Plan
  /\ \A p \in Plans, m \in Machines, i, j \in Jobs : p.id[m][i] = p.id[m][j] => i = j

VARIABLES
  row,       \* row[m][j]: job j in the database of machine m
  review,    \* review[m][j]: the review of job j there
  remote,    \* remote[j]: job j and its reviews in PostgreSQL
  unseen,    \* unseen[m]: what was written since m last read all there was
  pass,      \* pass[m]: the sync pass of machine m
  linked,    \* linked[m]: m has met the PostgreSQL database there is
  edited,    \* edited[j]: the attempts whose review was ever edited
  plan,      \* what is left of the plan
  calm       \* every review that was stored was acknowledged

local == <<row, review>>
world == <<linked, edited, plan, calm>>
vars  == <<local, remote, unseen, pass, world>>

Attempt   == [t : 0 .. MaxTime, m : Machines \cup {0}]
NoAttempt == [t |-> 0, m |-> 0]
Terminal  == {"done", "failed"}
Author    == Machines \cup {0}

Row   == [at : Attempt, status : {"absent", "active"} \cup Terminal, cost : BOOLEAN,
          synced : BOOLEAN]
NoRow == [at |-> NoAttempt, status |-> "absent", cost |-> FALSE, synced |-> FALSE]

(* edit: the machine that closed or reopened the review last, 0 nobody; by:    *)
(* updated_by_machine_id; mark: its synced_at, "old" when the job's is later.  *)
Review   == [of : Attempt, edit : Author, by : Author, mark : {"none", "old", "current"}]
NoReview == [of |-> NoAttempt, edit |-> 0, by |-> 0, mark |-> "none"]

(* reviews: the attempts whose review is stored; edit, by: of the current one. *)
Remote   == [at : Attempt, status : {"absent"} \cup Terminal, cost : BOOLEAN,
             reviews : SUBSET Attempt, edit : Author, by : Author]
NoRemote == [at |-> NoAttempt, status |-> "absent", cost |-> FALSE, reviews |-> {},
             edit |-> 0, by |-> 0]

(* What a pass holds between two steps: uploaded rows and reviews, read ones.  *)
Found    == [at : Attempt, status : Terminal, cost : BOOLEAN, reviewed : BOOLEAN]
Version  == [of : Attempt, edit : Author, by : Author]
(* cur: the jobs that the cursors have not passed, the jobs whose reviews go   *)
(* in this round (throughJobID), and whether the round sent jobs.              *)
Cursor   == [jobs : SUBSET Jobs, reviews : SUBSET Jobs, through : SUBSET Jobs, sent : BOOLEAN]
Start    == [jobs |-> Jobs, reviews |-> Jobs, through |-> Jobs, sent |-> FALSE]
NoPass   == [pc |-> "idle", batch |-> <<>>, cur |-> Start]
Holds(T) == UNION {[S -> T] : S \in SUBSET Jobs}
Pass     == [pc : {"idle", "pull", "stored"}, batch : {<<>>}, cur : {Start}]
       \cup [pc : {"push", "reviews"}, batch : {<<>>}, cur : Cursor]
       \cup [pc : {"jobs"}, batch : Holds(Row), cur : Cursor]
       \cup [pc : {"pushed"}, batch : Holds(Review), cur : Cursor]
       \cup [pc : {"job"}, batch : Holds(Found), cur : {Start}]
       \cup [pc : {"review"}, batch : Holds(Version), cur : {Start}]

Older(a, b) == a.t < b.t \/ (a.t = b.t /\ a.m < b.m)

Owned(m, j)   == row[m][j].at.m = m
Pending(m, j) == review[m][j].by = m /\ review[m][j].mark = "none"
Reviewed(p)   == p.at \in p.reviews

(* The jobs that exist were reviewed and synced.                               *)
Init ==
  \E p \in Plans :
    LET first(j) == [t |-> 1, m |-> p.home[j]]
        exists(j) == j \in DOMAIN p.home IN
    /\ row = [m \in Machines |-> [j \in Jobs |->
         IF exists(j)
         THEN [at |-> first(j), status |-> "done", cost |-> TRUE, synced |-> TRUE]
         ELSE NoRow]]
    /\ review = [m \in Machines |-> [j \in Jobs |->
         IF exists(j) THEN [of |-> first(j), edit |-> 0, by |-> p.home[j], mark |-> "current"]
         ELSE NoReview]]
    /\ remote = [j \in Jobs |->
         IF exists(j) THEN [at |-> first(j), status |-> "done", cost |-> TRUE,
                            reviews |-> {first(j)}, edit |-> 0, by |-> p.home[j]]
         ELSE NoRemote]
    /\ unseen = [m \in Machines |-> {}]
    /\ pass = [m \in Machines |-> NoPass]
    /\ linked = [m \in Machines |-> TRUE]
    /\ edited = [j \in Jobs |-> {}]
    /\ plan = p
    /\ calm = TRUE

-------------------------------------------------------------------------------
(* Users and workers.                                                          *)

Does(deed) == deed \in plan.deeds /\ plan' = [plan EXCEPT !.deeds = @ \ {deed}]

Queued(m, t) == [NoRow EXCEPT !.at = [t |-> t, m |-> m], !.status = "active"]

Enqueue(m, j) ==
  /\ Does(<<"enqueue", m, j>>)
  /\ \A n \in Machines : row[n][j].status = "absent"
  /\ \E t \in 1 .. MaxTime : row' = [row EXCEPT ![m][j] = Queued(m, t)]
  /\ UNCHANGED <<review, remote, unseen, pass, linked, edited, calm>>

(* "failed" stands for every end without a review.                             *)
Finish(m, j) ==
  /\ row[m][j].status = "active"
  /\ \/ /\ row' = [row EXCEPT ![m][j].status = "done"]
        /\ review' = [review EXCEPT ![m][j] =
             [of |-> row[m][j].at, edit |-> 0, by |-> m, mark |-> "none"]]
     \/ /\ row' = [row EXCEPT ![m][j].status = "failed"]
        /\ UNCHANGED review
  /\ UNCHANGED <<remote, unseen, pass, world>>

(* SaveJobTokenUsage: the cost is known after the attempt has ended.           *)
SaveCost(m, j) ==
  /\ Does(<<"cost", m, j>>)
  /\ Owned(m, j) /\ row[m][j].status \in Terminal
  /\ row' = [row EXCEPT ![m][j].cost = TRUE, ![m][j].synced = FALSE]
  /\ UNCHANGED <<review, remote, unseen, pass, linked, edited, calm>>

(* ReenqueueJob: later than the attempt it replaces here, which need not be    *)
(* the newest there is.                                                        *)
Rerun(m, j) ==
  /\ Does(<<"rerun", m, j>>)
  /\ row[m][j].status \in Terminal
  /\ \E t \in row[m][j].at.t + 1 .. MaxTime : row' = [row EXCEPT ![m][j] = Queued(m, t)]
  /\ review' = [review EXCEPT ![m][j] = NoReview]
  /\ UNCHANGED <<remote, unseen, pass, linked, edited, calm>>

(* MarkReviewClosed: any machine closes or reopens any review it has.          *)
Edit(m, j) ==
  /\ Does(<<"edit", m, j>>)
  /\ review[m][j].of # NoAttempt
  /\ review' = [review EXCEPT ![m][j].edit = m, ![m][j].by = m, ![m][j].mark = "none"]
  /\ edited' = [edited EXCEPT ![j] = @ \cup {review[m][j].of}]
  /\ UNCHANGED <<row, remote, unseen, pass, linked, calm>>

-------------------------------------------------------------------------------
(* A sync pass: rounds of uploads, until one sends nothing, then a download.   *)

At(m, pc) == linked[m] /\ pass[m].pc = pc
Goes(m, pc, batch, cur) ==
  pass' = [pass EXCEPT ![m] = [pc |-> pc, batch |-> batch, cur |-> cur]]
Ends(m) == pass' = [pass EXCEPT ![m] = NoPass]

(* ORDER BY the job's id LIMIT limit; what comes after the last of these.      *)
FirstOf(m, S) ==
  {j \in S : Cardinality({i \in S : plan.id[m][i] < plan.id[m][j]}) < plan.limit}
After(m, S) == {j \in Jobs : \A i \in S : plan.id[m][i] < plan.id[m][j]}
Full(S)     == Cardinality(S) = plan.limit

(* What a machine may read: jobs of others, and reviews unless both the review *)
(* and the job are its own.                                                    *)
SeesJob(m, p)    == p.status # "absent" /\ p.at.m # m
SeesReview(m, p) == p.status = "done" /\ Reviewed(p) /\ (p.by # m \/ p.at.m # m)
Sees(m, kind, p) == IF kind = "job" THEN SeesJob(m, p) ELSE SeesReview(m, p)

Wrote(kind, S) ==
  unseen' = [m \in Machines |->
    unseen[m] \cup {<<kind, j>> : j \in {i \in S : Sees(m, kind, remote'[i])}}]

(* Upload: ended attempts of this machine that changed since they were         *)
(* acknowledged, then reviews.                                                 *)

(* Slip: attempts that have not ended are uploaded too.                        *)
JobsToSync_Active(m) ==
  {j \in Jobs : row[m][j].status # "absent" /\ Owned(m, j) /\ ~row[m][j].synced}

JobsToSync(m) ==
  {j \in Jobs : row[m][j].status \in Terminal /\ Owned(m, j) /\ ~row[m][j].synced}

Upserted(p, r) ==
  IF p.at = r.at THEN [p EXCEPT !.status = r.status, !.cost = r.cost]
  ELSE [p EXCEPT !.at = r.at, !.status = r.status, !.cost = r.cost, !.edit = 0, !.by = 0]

(* An attempt older than the stored one is not stored, and counts as done.     *)
(* With a full batch, only reviews of jobs up to its last one go next.         *)
PushJobs(m) ==
  LET cur == pass[m].cur
      S == FirstOf(m, JobsToSync(m) \cap cur.jobs)
      next == [cur EXCEPT !.jobs = IF S = {} THEN @ ELSE After(m, S),
                          !.through = IF Full(S) THEN Jobs \ After(m, S) ELSE Jobs,
                          !.sent = S # {}]
      stored == {j \in S : ~Older(row[m][j].at, remote[j].at)} IN
  /\ At(m, "idle") \/ At(m, "push")
  /\ remote' = [j \in Jobs |->
       IF j \in stored THEN Upserted(remote[j], row[m][j]) ELSE remote[j]]
  /\ Wrote("job", stored)
  /\ IF S = {} THEN Goes(m, "reviews", <<>>, next)
     ELSE Goes(m, "jobs", [j \in S |-> row[m][j]], next)
  /\ UNCHANGED <<local, world>>

(* Slip: the row is acknowledged whatever it holds by now.                     *)
StillUploaded_ById(r, uploaded) == r.at = uploaded.at

(* The WHERE clause of MarkJobsSynced.                                         *)
StillUploaded(r, uploaded) == r = uploaded

MarkJobsSynced(m) ==
  LET b == pass[m].batch
      S == {j \in DOMAIN b : StillUploaded(row[m][j], b[j])} IN
  /\ At(m, "jobs")
  /\ row' = [row EXCEPT ![m] = [j \in Jobs |->
       IF j \in S THEN [@[j] EXCEPT !.synced = TRUE] ELSE @[j]]]
  /\ review' = [review EXCEPT ![m] = [j \in Jobs |->
       IF j \in S /\ @[j].mark = "current" THEN [@[j] EXCEPT !.mark = "old"] ELSE @[j]]]
  /\ Goes(m, "reviews", <<>>, pass[m].cur)
  /\ UNCHANGED <<remote, unseen, world>>

(* Edits of this machine, and reviews of its own attempts that are not         *)
(* acknowledged since their job was; the job must have gone before.            *)
ReviewsToSync(m) ==
  {j \in Jobs : /\ review[m][j].of # NoAttempt /\ row[m][j].synced
                /\ Pending(m, j) \/ (Owned(m, j) /\ review[m][j].mark # "current")}

(* current_attempt.  (A job that is synced here is there: SyncedIsStored.)     *)
IsCurrent(p, a) == p.status = "done" /\ p.at = a

(* The job was replaced, the review of its new attempt has not arrived.        *)
Awaits(p, a) == p.status = "done" /\ p.at # a /\ a \in p.reviews /\ ~Reviewed(p)

(* A review that is not an edit of this machine (MetadataOnly) leaves what is  *)
(* stored alone and names no author.                                           *)
Merged(m, j) ==
  LET r == review[m][j] IN
  [remote[j] EXCEPT !.reviews = @ \cup {r.of},
                    !.by = IF Pending(m, j) THEN m ELSE 0,
                    !.edit = IF Pending(m, j) \/ r.of \notin remote[j].reviews THEN r.edit ELSE @]

(* The next batch: the first reviews that the cursor has not passed.           *)
ReviewBatch(m) ==
  FirstOf(m, ReviewsToSync(m) \cap pass[m].cur.reviews \cap pass[m].cur.through)

(* Slip: the batch is stored as a whole or not at all.                         *)
ReviewsStored_Together(m) ==
  LET S == ReviewBatch(m) IN
  IF \E j \in S : Awaits(remote[j], review[m][j].of) THEN {}
  ELSE {j \in S : IsCurrent(remote[j], review[m][j].of)}

ReviewsStored(m) == {j \in ReviewBatch(m) : IsCurrent(remote[j], review[m][j].of)}

(* advanceReviews; the next round starts.                                      *)
Passed(m) ==
  LET cur == pass[m].cur
      S == ReviewBatch(m) IN
  [Start EXCEPT !.jobs = cur.jobs,
                !.reviews = IF Full(S) THEN After(m, S) ELSE cur.reviews \ cur.through]

(* A review that awaits another one fails the batch: what else it holds is     *)
(* stored, nothing is acknowledged, and the pass ends.  A round that sent      *)
(* nothing is the last one.                                                    *)
PushReviews(m) ==
  LET stored == ReviewsStored(m)
      fails  == \E j \in ReviewBatch(m) : Awaits(remote[j], review[m][j].of) IN
  /\ At(m, "reviews")
  /\ remote' = [j \in Jobs |-> IF j \in stored THEN Merged(m, j) ELSE remote[j]]
  /\ Wrote("review", stored)
  /\ IF fails THEN Ends(m)
     ELSE IF stored # {} THEN Goes(m, "pushed", [j \in stored |-> review[m][j]], Passed(m))
     ELSE IF pass[m].cur.sent THEN Goes(m, "push", <<>>, Passed(m))
     ELSE Goes(m, "pull", <<>>, Start)
  /\ calm' = (calm /\ ~(fails /\ stored # {}))
  /\ UNCHANGED <<local, linked, edited, plan>>

SameVersion(r, s) == r.of = s.of /\ r.edit = s.edit /\ r.by = s.by

(* Acknowledges what is still what was uploaded.                               *)
MarkReviewsSynced(m) ==
  LET b == pass[m].batch IN
  /\ At(m, "pushed")
  /\ review' = [review EXCEPT ![m] = [j \in Jobs |->
       IF j \in DOMAIN b /\ SameVersion(@[j], b[j]) THEN [@[j] EXCEPT !.mark = "current"]
       ELSE @[j]]]
  /\ Goes(m, "push", <<>>, pass[m].cur)
  /\ UNCHANGED <<row, remote, unseen, world>>

-------------------------------------------------------------------------------
(* Download: jobs, then reviews of jobs that are known here.                   *)

(* What a read may return: all that is unseen, and any of the rest.            *)
Readable(m, kind, visible) ==
  {S \in SUBSET visible : \A j \in visible : <<kind, j>> \in unseen[m] => j \in S}

PullJobs(m) ==
  LET found(p) == [at |-> p.at, status |-> p.status, cost |-> p.cost, reviewed |-> Reviewed(p)] IN
  /\ At(m, "pull")
  /\ \E S \in Readable(m, "job", {j \in Jobs : SeesJob(m, remote[j])}) :
       Goes(m, "job", [j \in S |-> found(remote[j])], Start)
  /\ unseen' = [unseen EXCEPT ![m] = @ \ ({"job"} \X Jobs)]
  /\ UNCHANGED <<local, remote, world>>

(* Slip: the cursor advances although a row was not stored.                    *)
Unread_Advances(m, kind) == unseen' = [unseen EXCEPT ![m] = @ \ ({kind} \X Jobs)]

(* The cursor stays where it was: the same rows are read again.                *)
Unread(m, kind) == unseen' = [unseen EXCEPT ![m] = @ \cup ({kind} \X DOMAIN pass[m].batch)]

(* errReviewAttemptPending: the edit that waits here could belong to the       *)
(* review of the new attempt, as long as that has not arrived.                 *)
Held(m, j) ==
  LET f == pass[m].batch[j] IN
  /\ row[m][j].status # "absent" /\ Older(row[m][j].at, f.at)
  /\ f.status = "done" /\ ~f.reviewed /\ Pending(m, j)

(* Slip: the review of the attempt that was replaced stays.                    *)
Retired_Never(m, j, f) == FALSE

Retired(m, j, f) == f.at # row[m][j].at

(* Rows that are not older than those here; with an attempt goes its review.   *)
StoresJobs(m, S) ==
  LET b == pass[m].batch
      fresh == {j \in S : ~Older(b[j].at, row[m][j].at)} IN
  /\ row' = [row EXCEPT ![m] = [j \in Jobs |-> IF j \in fresh
       THEN [at |-> b[j].at, status |-> b[j].status, cost |-> b[j].cost, synced |-> TRUE]
       ELSE @[j]]]
  /\ review' = [review EXCEPT ![m] = [j \in Jobs |->
       IF j \in fresh /\ Retired(m, j, b[j]) THEN NoReview ELSE @[j]]]

StorePulledJobs(m) ==
  LET all  == DOMAIN pass[m].batch
      held == {j \in all : Held(m, j)} IN
  /\ At(m, "job")
  /\ \/ held = {} /\ StoresJobs(m, all) /\ Goes(m, "stored", <<>>, Start) /\ UNCHANGED unseen
     \/ /\ held # {} /\ Ends(m) /\ Unread(m, "job")
        /\ \E S \in SUBSET (all \ held) : StoresJobs(m, S)
  /\ UNCHANGED <<remote, world>>

(* The cursor does not move past reviews of jobs that are not known yet: they  *)
(* are within the lookback.                                                    *)
PullReviews(m) ==
  LET known == {j \in Jobs : row[m][j].status # "absent"}
      version(p) == [of |-> p.at, edit |-> p.edit, by |-> p.by] IN
  /\ At(m, "stored")
  /\ \E S \in Readable(m, "review", {j \in known : SeesReview(m, remote[j])}) :
       Goes(m, "review", [j \in S |-> version(remote[j])], Start)
  /\ unseen' = [unseen EXCEPT ![m] = @ \ ({"review"} \X known)]
  /\ UNCHANGED <<local, remote, world>>

(* Slip: an edit that waits to be uploaded is overwritten.                     *)
Takes_OverEdits(m, j, v) == v.of = row[m][j].at

(* Not while an edit waits to be uploaded.                                     *)
Takes(m, j, v) == v.of = row[m][j].at /\ ~Pending(m, j)

(* A version whose time is not later than that of the one here is dropped: one *)
(* that is here already may be, and any other if this machine wrote what is    *)
(* here by a clock that is ahead.                                              *)
Dropped(m, j, v) ==
  SameVersion(review[m][j], v) \/ (m \in plan.fast /\ review[m][j].by = m)

StoresReviews(m, S) ==
  LET b == pass[m].batch
      taken == {j \in S : Takes(m, j, b[j])} IN
  \E T \in SUBSET taken :
    /\ \A j \in taken \ T : Dropped(m, j, b[j])
    /\ review' = [review EXCEPT ![m] = [j \in Jobs |-> IF j \in T
         THEN [of |-> b[j].of, edit |-> b[j].edit, by |-> b[j].by, mark |-> "current"]
         ELSE @[j]]]

StorePulledReviews(m) ==
  LET all   == DOMAIN pass[m].batch
      ahead == {j \in all : Older(row[m][j].at, pass[m].batch[j].of)} IN
  /\ At(m, "review")
  /\ Ends(m)
  /\ \/ ahead = {} /\ StoresReviews(m, all) /\ UNCHANGED unseen
     \/ /\ ahead # {} /\ Unread(m, "review")
        /\ \E S \in SUBSET (all \ ahead) : StoresReviews(m, S)
  /\ UNCHANGED <<row, remote, world>>

-------------------------------------------------------------------------------
(* What goes wrong.                                                            *)

Upset ==
  /\ plan.upsets > 0
  /\ plan' = [plan EXCEPT !.upsets = @ - 1]
  /\ calm' = FALSE

(* A call fails, its answer is lost, or the daemon stops, and the pass ends.   *)
(* A daemon that only failed to acknowledge goes on without.                   *)
PassFails(m) ==
  /\ Upset
  /\ \/ pass[m].pc # "idle" /\ Ends(m)
     \/ pass[m].pc = "jobs" /\ Goes(m, "reviews", <<>>, pass[m].cur)
     \/ pass[m].pc = "pushed" /\ Goes(m, "push", <<>>, pass[m].cur)
  /\ IF pass[m].pc \in {"job", "review"} THEN Unread(m, pass[m].pc) ELSE UNCHANGED unseen
  /\ UNCHANGED <<local, remote, linked, edited>>

(* Every machine is pointed at another database, or it was recreated.          *)
DatabaseReplaced ==
  /\ Upset
  /\ remote' = [j \in Jobs |-> NoRemote]
  /\ pass' = [m \in Machines |-> NoPass]
  /\ linked' = [m \in Machines |-> FALSE]
  /\ unseen' = [m \in Machines |-> {}]
  /\ UNCHANGED <<local, edited>>

(* connect: nothing is synced yet, and everything there is unseen.             *)
Connect(m) ==
  /\ ~linked[m]
  /\ linked' = [linked EXCEPT ![m] = TRUE]
  /\ row' = [row EXCEPT ![m] = [j \in Jobs |-> [@[j] EXCEPT !.synced = FALSE]]]
  /\ review' = [review EXCEPT ![m] = [j \in Jobs |-> [@[j] EXCEPT !.mark = "none"]]]
  /\ unseen' = [unseen EXCEPT ![m] =
       {x \in {"job", "review"} \X Jobs : Sees(m, x[1], remote[x[2]])}]
  /\ UNCHANGED <<remote, pass, edited, plan, calm>>

-------------------------------------------------------------------------------
UserStep(m, j)   == Enqueue(m, j) \/ Rerun(m, j) \/ Edit(m, j)
WorkerStep(m, j) == Finish(m, j) \/ SaveCost(m, j)
SyncStep(m) ==
  \/ Connect(m)
  \/ PushJobs(m) \/ MarkJobsSynced(m) \/ PushReviews(m) \/ MarkReviewsSynced(m)
  \/ PullJobs(m) \/ StorePulledJobs(m) \/ PullReviews(m) \/ StorePulledReviews(m)

Next ==
  \/ \E m \in Machines :
       \/ \E j \in Jobs : UserStep(m, j) \/ WorkerStep(m, j)
       \/ SyncStep(m) \/ PassFails(m)
  \/ DatabaseReplaced

Spec == Init /\ [][Next]_vars

(* Agents end and the sync worker's ticker goes on; users need do nothing.     *)
Fairness ==
  \A m \in Machines : WF_vars(SyncStep(m)) /\ \A j \in Jobs : WF_vars(Finish(m, j))

FairSpec == Spec /\ Fairness

-------------------------------------------------------------------------------
STypeOK ==
  /\ row \in [Machines -> [Jobs -> Row]]
  /\ review \in [Machines -> [Jobs -> Review]]
  /\ remote \in [Jobs -> Remote]
  /\ unseen \in [Machines -> SUBSET ({"job", "review"} \X Jobs)]
  /\ pass \in [Machines -> Pass]
  /\ linked \in [Machines -> BOOLEAN]
  /\ edited \in [Jobs -> SUBSET Attempt]
  /\ plan \in Plan /\ calm \in BOOLEAN

(* The review a machine shows is that of the attempt it shows, which is done:  *)
(* no download, late or repeated, brings back the review of another attempt or *)
(* leaves one behind (upsertPulledJob, upsertPulledReview, ReenqueueJob).  An  *)
(* attempt that a machine made itself and that is done has its review there.   *)
ReviewOfItsAttempt ==
  \A m \in Machines, j \in Jobs :
    /\ review[m][j].of # NoAttempt =>
         review[m][j].of = row[m][j].at /\ row[m][j].status = "done"
    /\ row[m][j].status = "done" /\ Owned(m, j) => review[m][j].of = row[m][j].at

(* What a machine takes to be synced is in PostgreSQL, or something newer is:  *)
(* an acknowledgment never covers what changed after the upload, nor what only *)
(* a former database holds (MarkJobsSynced, MarkReviewsSynced, connect).       *)
SyncedIsStored ==
  \A m \in Machines, j \in Jobs : linked[m] =>
    LET p == remote[j] r == row[m][j] IN
    /\ r.synced =>
         /\ ~Older(p.at, r.at)
         /\ Owned(m, j) /\ p.at = r.at => p.status = r.status /\ p.cost = r.cost
    /\ review[m][j].mark # "none" /\ p.at = review[m][j].of => Reviewed(p)

Agree ==
  \A m \in Machines, j \in Jobs :
    LET p == remote[j] r == row[m][j] v == review[m][j] IN
    /\ r.at = p.at /\ r.status = p.status /\ r.cost = p.cost
    /\ p.status = "done" => Reviewed(p) /\ v.of = p.at
    /\ p.status = "done" => v.edit = p.edit \/ (m \in plan.fast /\ v.by = m)

(* A batch with a review that awaits another one leaves out a pending review   *)
(* that a later batch of the same pass would have held.                        *)
CutShort(m) ==
  /\ At(m, "reviews")
  /\ \E j \in ReviewBatch(m) : Awaits(remote[j], review[m][j].of)
  /\ \E j \in ReviewsToSync(m) \ ReviewBatch(m) : IsCurrent(remote[j], review[m][j].of)

(* When users have stopped, all machines and PostgreSQL come to show the same  *)
(* attempt of every job, with the same cost and the same version of its review:*)
(* batches that fail because a review awaits another one, downloads that are   *)
(* held back by an edit, and two machines that wait like this for each other   *)
(* all come to an end (doSync, errReviewAttemptPending).  Two things the code  *)
(* does not rule out are excused: batches that are cut short for ever, where   *)
(* two machines may wait for each other's left out review without end, and a   *)
(* machine with a fast clock that keeps the version it wrote itself.           *)
Converges == (<>[](\A m \in Machines : ~CutShort(m))) => <>[]Agree

(* An edit is not lost to another machine's copy: a review that was edited on  *)
(* any machine ends up with an edit in PostgreSQL, as long as its attempt is   *)
(* the current one and every stored review was acknowledged at once.           *)
EditsArrive ==
  <>[](calm => \A j \in Jobs : remote[j].at \in edited[j] => remote[j].edit # 0)
===============================================================================

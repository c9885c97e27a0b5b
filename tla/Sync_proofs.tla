------------------------------ MODULE Sync_proofs ------------------------------
(* Proofs about Sync, for any machines, jobs and plans: whose review a machine *)
(* shows, and what it may take to be in PostgreSQL.                            *)
EXTENDS Sync, TLAPS

-------------------------------------------------------------------------------
(* Types.                                                                      *)

(* What the rows of a job look like on a machine and in PostgreSQL.            *)
LEMMA RowsTyped ==
  ASSUME STypeOK, NEW m \in Machines, NEW j \in Jobs
  PROVE  /\ row[m][j] \in Row /\ row[m][j].at \in Attempt
         /\ review[m][j] \in Review /\ review[m][j].of \in Attempt
         /\ remote[j] \in Remote /\ remote[j].at \in Attempt
BY DEF STypeOK, Row, Review, Remote

(* The time of an attempt is a number within the bound.                        *)
LEMMA AttemptTime ==
  ASSUME NEW a \in Attempt
  PROVE  a.t \in 0 .. MaxTime /\ a.t \in Nat
<1>1. MaxTime \in Nat
  BY SyncAssumption
<1>2. a.t \in 0 .. MaxTime
  BY DEF Attempt
<1> QED
  BY <1>1, <1>2

(* So is the time of the attempt in a row.                                     *)
LEMMA RowTime ==
  ASSUME STypeOK, NEW m \in Machines, NEW j \in Jobs
  PROVE  row[m][j].at.t \in 0 .. MaxTime /\ row[m][j].at.t \in Nat
<1>1. row[m][j].at \in Attempt
  BY RowsTyped
<1> QED
  BY <1>1, AttemptTime

(* What a machine holds between two steps of a sync, by the step it is at.     *)
LEMMA BatchTyped ==
  ASSUME STypeOK, NEW m \in Machines
  PROVE  /\ pass[m].pc = "jobs" => pass[m].batch \in Holds(Row)
         /\ pass[m].pc = "pushed" => pass[m].batch \in Holds(Review)
         /\ pass[m].pc = "job" => pass[m].batch \in Holds(Found)
         /\ pass[m].pc = "review" => pass[m].batch \in Holds(Version)
<1>1. pass[m] \in Pass
  BY DEF STypeOK
<1> QED
  BY <1>1 DEF Pass

(* What the cursors of a pass have not passed are jobs.                        *)
LEMMA CursorTyped ==
  ASSUME STypeOK, NEW m \in Machines
  PROVE  /\ pass[m].cur \in Cursor
         /\ pass[m].pc \notin {"push", "reviews", "jobs", "pushed"} => pass[m].cur = Start
<1>1. pass[m] \in Pass
  BY DEF STypeOK
<1>2. Start \in Cursor
  BY DEF Start, Cursor
<1> QED
  BY <1>1, <1>2 DEF Pass

(* The next round of uploads starts with cursors of the same kind.             *)
LEMMA PassedTyped ==
  ASSUME STypeOK, NEW m \in Machines
  PROVE  Passed(m) \in Cursor
<1>1. pass[m].cur.jobs \subseteq Jobs /\ pass[m].cur.reviews \subseteq Jobs
  BY CursorTyped DEF Cursor
<1>2. After(m, ReviewBatch(m)) \subseteq Jobs
  BY DEF After
<1> QED
  BY <1>1, <1>2 DEF Passed, Start, Cursor

(* What is stored of a batch of reviews are reviews of jobs.                   *)
LEMMA StoredJobs ==
  ASSUME NEW m \in Machines
  PROVE  ReviewsStored(m) \subseteq Jobs
BY DEF ReviewsStored, ReviewBatch, FirstOf, ReviewsToSync

(* A batch of jobs is of jobs to be uploaded, and the cursors move on.         *)
LEMMA JobBatch ==
  ASSUME STypeOK, NEW m \in Machines, PushJobs(m)
  PROVE  \E S \in SUBSET JobsToSync(m), c \in Cursor :
           /\ LET stored == {j \in S : ~Older(row[m][j].at, remote[j].at)} IN
              /\ remote' = [j \in Jobs |->
                   IF j \in stored THEN Upserted(remote[j], row[m][j]) ELSE remote[j]]
              /\ Wrote("job", stored)
           /\ \/ Goes(m, "reviews", <<>>, c)
              \/ Goes(m, "jobs", [j \in S |-> row[m][j]], c)
<1> DEFINE cur == pass[m].cur
           S == FirstOf(m, JobsToSync(m) \cap cur.jobs)
           c == [cur EXCEPT !.jobs = IF S = {} THEN cur.jobs ELSE After(m, S),
                            !.through = IF Full(S) THEN Jobs \ After(m, S) ELSE Jobs,
                            !.sent = S # {}]
<1>1. S \in SUBSET JobsToSync(m)
  BY DEF FirstOf
<1>2. cur \in Cursor
  BY CursorTyped
<1>3. After(m, S) \subseteq Jobs
  BY DEF After
<1>4. c \in Cursor
  <2> HIDE DEF S, cur
  <2>1. (IF S = {} THEN cur.jobs ELSE After(m, S)) \in SUBSET Jobs
    BY <1>2, <1>3 DEF Cursor
  <2>2. (IF Full(S) THEN Jobs \ After(m, S) ELSE Jobs) \in SUBSET Jobs
    OBVIOUS
  <2>3. (S # {}) \in BOOLEAN
    OBVIOUS
  <2> QED
    BY <1>2, <2>1, <2>2, <2>3 DEF Cursor
<1>5. c = [cur EXCEPT !.jobs = IF S = {} THEN @ ELSE After(m, S),
                      !.through = IF Full(S) THEN Jobs \ After(m, S) ELSE Jobs,
                      !.sent = S # {}]
  BY <1>2 DEF Cursor
<1>6. /\ LET stored == {j \in S : ~Older(row[m][j].at, remote[j].at)} IN
         /\ remote' = [j \in Jobs |->
              IF j \in stored THEN Upserted(remote[j], row[m][j]) ELSE remote[j]]
         /\ Wrote("job", stored)
      /\ Goes(m, "reviews", <<>>, c) \/ Goes(m, "jobs", [j \in S |-> row[m][j]], c)
  BY <1>5 DEF PushJobs
<1> HIDE DEF S, c
<1> QED
  BY <1>1, <1>4, <1>6

(* The jobs of a batch, and what it has of each.                               *)
LEMMA HeldTyped ==
  ASSUME NEW T, NEW b \in Holds(T)
  PROVE  DOMAIN b \subseteq Jobs /\ \A j \in DOMAIN b : b[j] \in T
<1>1. PICK S \in SUBSET Jobs : b \in [S -> T]
  BY DEF Holds
<1> QED
  BY <1>1

(* Something for each of some jobs is a batch.                                 *)
LEMMA HoldsAll ==
  ASSUME NEW T, NEW S \in SUBSET Jobs, NEW b \in [S -> T]
  PROVE  b \in Holds(T)
BY DEF Holds

(* One entry of a table, and all those of one machine.                         *)
LEMMA PutRow ==
  ASSUME STypeOK, NEW m \in Machines, NEW j \in Jobs, NEW v \in Row,
         row' = [row EXCEPT ![m][j] = v]
  PROVE  /\ row' \in [Machines -> [Jobs -> Row]]
         /\ \A n \in Machines, i \in Jobs : row'[n][i] = IF n = m /\ i = j THEN v ELSE row[n][i]
BY DEF STypeOK

(* Writing one review changes no other.                                        *)
LEMMA PutReview ==
  ASSUME STypeOK, NEW m \in Machines, NEW j \in Jobs, NEW v \in Review,
         review' = [review EXCEPT ![m][j] = v]
  PROVE  /\ review' \in [Machines -> [Jobs -> Review]]
         /\ \A n \in Machines, i \in Jobs :
              review'[n][i] = IF n = m /\ i = j THEN v ELSE review[n][i]
BY DEF STypeOK

(* Writing the rows of one machine changes no other machine's, ...             *)
LEMMA PutRows ==
  ASSUME STypeOK, NEW m \in Machines, NEW g \in [Jobs -> Row], row' = [row EXCEPT ![m] = g]
  PROVE  /\ row' \in [Machines -> [Jobs -> Row]]
         /\ \A n \in Machines, i \in Jobs : row'[n][i] = IF n = m THEN g[i] ELSE row[n][i]
BY DEF STypeOK

(* ... and writing its reviews.                                                *)
LEMMA PutReviews ==
  ASSUME STypeOK, NEW m \in Machines, NEW g \in [Jobs -> Review],
         review' = [review EXCEPT ![m] = g]
  PROVE  /\ review' \in [Machines -> [Jobs -> Review]]
         /\ \A n \in Machines, i \in Jobs : review'[n][i] = IF n = m THEN g[i] ELSE review[n][i]
BY DEF STypeOK

(* What UpsertJob leaves in PostgreSQL is a row of it.                         *)
LEMMA UpsertTyped ==
  ASSUME NEW p \in Remote, NEW r \in Row, r.status \in Terminal
  PROVE  Upserted(p, r) \in Remote
BY DEF Upserted, Remote, Row, Author

(* So is what the merge of a review leaves.                                    *)
LEMMA MergeTyped ==
  ASSUME STypeOK, NEW m \in Machines, NEW j \in Jobs
  PROVE  Merged(m, j) \in Remote
<1> DEFINE by == IF Pending(m, j) THEN m ELSE 0
           edit == IF Pending(m, j) \/ review[m][j].of \notin remote[j].reviews
                   THEN review[m][j].edit ELSE remote[j].edit
<1>1. by \in Author
  BY DEF Author
<1>2. edit \in Author
  BY DEF STypeOK, Review, Remote
<1>3. remote[j] \in Remote /\ review[m][j].of \in Attempt
  BY DEF STypeOK, Review
<1> HIDE DEF by, edit
<1>4. [remote[j] EXCEPT !.reviews = @ \cup {review[m][j].of}, !.by = by, !.edit = edit] \in Remote
  BY <1>1, <1>2, <1>3 DEF Remote
<1> QED
  BY <1>4 DEF Merged, by, edit

(* A queued row is active, not synced, and of a new attempt.                   *)
LEMMA QueuedTyped ==
  ASSUME NEW m \in Machines, NEW t \in 0 .. MaxTime
  PROVE  /\ Queued(m, t) \in Row
         /\ Queued(m, t).at.t = t /\ Queued(m, t).at.m = m
         /\ Queued(m, t).status = "active" /\ ~Queued(m, t).synced
BY DEF Queued, NoRow, NoAttempt, Row, Attempt

(* The absence of a review is of its type.                                     *)
LEMMA NoReviewTyped ==
  NoReview \in Review /\ NoReview.of = NoAttempt /\ NoReview.mark = "none"
BY SyncAssumption DEF NoReview, NoAttempt, Review, Attempt, Author

(* A deed of the plan leaves the plan well formed, ...                         *)
LEMMA DoesTyped ==
  ASSUME STypeOK, NEW deed, Does(deed)
  PROVE  plan' \in Plan
<1>1. plan.deeds \ {deed} \subseteq plan.deeds
  OBVIOUS
<1> QED
  BY <1>1 DEF Does, STypeOK, Plan

(* ... and so does a disturbance.                                              *)
LEMMA UpsetTyped ==
  ASSUME STypeOK, Upset
  PROVE  plan' \in Plan /\ calm' \in BOOLEAN
<1>1. plan.upsets \in Nat /\ plan.upsets > 0
  BY DEF Upset, STypeOK, Plan
<1>2. plan.upsets - 1 \in Nat
  BY <1>1
<1> QED
  BY <1>2 DEF Upset, STypeOK, Plan

(* What a machine has yet to pull stays a set of jobs and reviews.             *)
LEMMA UnseenTyped ==
  ASSUME STypeOK, NEW kind \in {"job", "review"}, NEW S \in SUBSET Jobs, Wrote(kind, S)
  PROVE  unseen' \in [Machines -> SUBSET ({"job", "review"} \X Jobs)]
<1>1. \A i \in S : <<kind, i>> \in {"job", "review"} \X Jobs
  OBVIOUS
<1> QED
  BY <1>1 DEF Wrote, STypeOK

(* A sync goes on with a batch of the step it goes to, ...                     *)
LEMMA GoesTyped ==
  ASSUME STypeOK, NEW m \in Machines, NEW pc, NEW batch, NEW c, Goes(m, pc, batch, c),
         [pc |-> pc, batch |-> batch, cur |-> c] \in Pass
  PROVE  pass' \in [Machines -> Pass]
BY DEF Goes, STypeOK

(* ... or ends.                                                                *)
LEMMA EndsTyped ==
  ASSUME STypeOK, NEW m \in Machines, Ends(m)
  PROVE  pass' \in [Machines -> Pass]
BY DEF Ends, NoPass, Pass, STypeOK

(* Every step keeps the types.                                                 *)
LEMMA SyncTypes ==
  ASSUME STypeOK, Next
  PROVE  STypeOK'
<1> USE SyncAssumption
<1>1. ASSUME NEW m \in Machines, NEW j \in Jobs, Enqueue(m, j)
      PROVE  STypeOK'
  <2>1. PICK t \in 1 .. MaxTime : row' = [row EXCEPT ![m][j] = Queued(m, t)]
    BY <1>1 DEF Enqueue
  <2>2. t \in 0 .. MaxTime
    OBVIOUS
  <2>3. row' \in [Machines -> [Jobs -> Row]]
    BY <2>1, <2>2, QueuedTyped, PutRow
  <2> QED
    BY <1>1, <2>3, DoesTyped DEF Enqueue, STypeOK
<1>2. ASSUME NEW m \in Machines, NEW j \in Jobs, Rerun(m, j)
      PROVE  STypeOK'
  <2>1. PICK t \in row[m][j].at.t + 1 .. MaxTime : row' = [row EXCEPT ![m][j] = Queued(m, t)]
    BY <1>2 DEF Rerun
  <2>2. t \in 0 .. MaxTime
    BY RowsTyped DEF Attempt
  <2>3. row' \in [Machines -> [Jobs -> Row]]
    BY <2>1, <2>2, QueuedTyped, PutRow
  <2>4. review' \in [Machines -> [Jobs -> Review]]
    BY <1>2, NoReviewTyped, PutReview DEF Rerun
  <2> QED
    BY <1>2, <2>3, <2>4, DoesTyped DEF Rerun, STypeOK
<1>3. ASSUME NEW m \in Machines, NEW j \in Jobs, Edit(m, j)
      PROVE  STypeOK'
  <2>1. [review[m][j] EXCEPT !.edit = m, !.by = m, !.mark = "none"] \in Review
    BY RowsTyped DEF Review, Author
  <2>2. review' = [review EXCEPT ![m][j] =
                     [review[m][j] EXCEPT !.edit = m, !.by = m, !.mark = "none"]]
    BY <1>3 DEF Edit, STypeOK
  <2>3. review' \in [Machines -> [Jobs -> Review]]
    BY <2>1, <2>2, PutReview
  <2>4. edited' \in [Jobs -> SUBSET Attempt]
    BY <1>3, RowsTyped DEF Edit, STypeOK
  <2> QED
    BY <1>3, <2>3, <2>4, DoesTyped DEF Edit, STypeOK
<1>4. ASSUME NEW m \in Machines, NEW j \in Jobs, Finish(m, j)
      PROVE  STypeOK'
  <2>1. row[m][j] \in Row
    BY RowsTyped
  <2>2. PICK s \in Terminal : row' = [row EXCEPT ![m][j] = [row[m][j] EXCEPT !.status = s]]
    BY <1>4 DEF Finish, Terminal
  <2>3. [row[m][j] EXCEPT !.status = "done"] \in Row /\ [row[m][j] EXCEPT !.status = "failed"] \in Row
    BY <2>1 DEF Row, Terminal
  <2>4. row' \in [Machines -> [Jobs -> Row]]
    BY <2>2, <2>3, PutRow DEF Terminal
  <2>5. [of |-> row[m][j].at, edit |-> 0, by |-> m, mark |-> "none"] \in Review
    BY RowsTyped DEF Review, Author
  <2>6. review' \in [Machines -> [Jobs -> Review]]
    <3>1. CASE UNCHANGED review
      BY <3>1 DEF STypeOK
    <3>2. CASE review' = [review EXCEPT ![m][j] =
                 [of |-> row[m][j].at, edit |-> 0, by |-> m, mark |-> "none"]]
      BY <3>2, <2>5, PutReview
    <3> QED
      BY <1>4, <3>1, <3>2 DEF Finish
  <2> QED
    BY <1>4, <2>4, <2>6 DEF Finish, world, STypeOK
<1>5. ASSUME NEW m \in Machines, NEW j \in Jobs, SaveCost(m, j)
      PROVE  STypeOK'
  <2>1. [row[m][j] EXCEPT !.cost = TRUE, !.synced = FALSE] \in Row
    BY RowsTyped DEF Row
  <2>2. row' = [row EXCEPT ![m][j] = [row[m][j] EXCEPT !.cost = TRUE, !.synced = FALSE]]
    BY <1>5 DEF SaveCost, STypeOK
  <2>3. row' \in [Machines -> [Jobs -> Row]]
    BY <2>1, <2>2, PutRow
  <2> QED
    BY <1>5, <2>3, DoesTyped DEF SaveCost, STypeOK
<1>6. ASSUME NEW m \in Machines, Connect(m)
      PROVE  STypeOK'
  <2>1. row' = [row EXCEPT ![m] = [j \in Jobs |-> [row[m][j] EXCEPT !.synced = FALSE]]]
    BY <1>6 DEF Connect, STypeOK
  <2>2. [j \in Jobs |-> [row[m][j] EXCEPT !.synced = FALSE]] \in [Jobs -> Row]
    BY RowsTyped DEF Row
  <2>3. review' = [review EXCEPT ![m] = [j \in Jobs |-> [review[m][j] EXCEPT !.mark = "none"]]]
    BY <1>6 DEF Connect, STypeOK
  <2>4. [j \in Jobs |-> [review[m][j] EXCEPT !.mark = "none"]] \in [Jobs -> Review]
    BY RowsTyped DEF Review
  <2>5. row' \in [Machines -> [Jobs -> Row]] /\ review' \in [Machines -> [Jobs -> Review]]
    BY <2>1, <2>2, <2>3, <2>4, PutRows, PutReviews
  <2>6. unseen' \in [Machines -> SUBSET ({"job", "review"} \X Jobs)]
    BY <1>6 DEF Connect, STypeOK
  <2> QED
    BY <1>6, <2>5, <2>6 DEF Connect, STypeOK
<1>7. ASSUME NEW m \in Machines, PushJobs(m)
      PROVE  STypeOK'
  <2>1. JobsToSync(m) \subseteq Jobs /\ \A j \in JobsToSync(m) : row[m][j].status \in Terminal
    BY DEF JobsToSync
  <2>2. ASSUME NEW j \in JobsToSync(m)
        PROVE  Upserted(remote[j], row[m][j]) \in Remote
    BY <2>1, RowsTyped, UpsertTyped
  <2>3. PICK S \in SUBSET JobsToSync(m), c \in Cursor :
          /\ LET stored == {j \in S : ~Older(row[m][j].at, remote[j].at)} IN
             /\ remote' = [j \in Jobs |->
                  IF j \in stored THEN Upserted(remote[j], row[m][j]) ELSE remote[j]]
             /\ Wrote("job", stored)
          /\ Goes(m, "reviews", <<>>, c) \/ Goes(m, "jobs", [j \in S |-> row[m][j]], c)
    BY <1>7, JobBatch
  <2>4. remote' \in [Jobs -> Remote]
    BY <2>2, <2>3, RowsTyped
  <2>5. PICK R \in SUBSET Jobs : Wrote("job", R)
    BY <2>1, <2>3
  <2>6. [j \in S |-> row[m][j]] \in Holds(Row)
    BY <2>1, RowsTyped, HoldsAll
  <2>7. pass' \in [Machines -> Pass]
    BY <2>3, <2>6, GoesTyped DEF Pass
  <2> QED
    BY <1>7, <2>4, <2>5, <2>7, UnseenTyped DEF PushJobs, STypeOK, local, world
<1>8. ASSUME NEW m \in Machines, MarkJobsSynced(m)
      PROVE  STypeOK'
  <2>1. PICK S \in SUBSET DOMAIN pass[m].batch :
          /\ row' = [row EXCEPT ![m] = [j \in Jobs |->
               IF j \in S THEN [row[m][j] EXCEPT !.synced = TRUE] ELSE row[m][j]]]
          /\ review' = [review EXCEPT ![m] = [j \in Jobs |->
               IF j \in S /\ review[m][j].mark = "current"
               THEN [review[m][j] EXCEPT !.mark = "old"] ELSE review[m][j]]]
    BY <1>8 DEF MarkJobsSynced, STypeOK
  <2>2. [j \in Jobs |-> IF j \in S THEN [row[m][j] EXCEPT !.synced = TRUE] ELSE row[m][j]]
          \in [Jobs -> Row]
    BY RowsTyped DEF Row
  <2>3. [j \in Jobs |-> IF j \in S /\ review[m][j].mark = "current"
           THEN [review[m][j] EXCEPT !.mark = "old"] ELSE review[m][j]] \in [Jobs -> Review]
    BY RowsTyped DEF Review
  <2>4. row' \in [Machines -> [Jobs -> Row]] /\ review' \in [Machines -> [Jobs -> Review]]
    BY <2>1, <2>2, <2>3, PutRows, PutReviews
  <2>5. pass' \in [Machines -> Pass]
    BY <1>8, GoesTyped, CursorTyped DEF MarkJobsSynced, Pass
  <2> QED
    BY <1>8, <2>4, <2>5 DEF MarkJobsSynced, STypeOK, world
<1>9. ASSUME NEW m \in Machines, PushReviews(m)
      PROVE  STypeOK'
  <2>1. ReviewsStored(m) \subseteq Jobs
    BY StoredJobs
  <2>3. remote' \in [Jobs -> Remote]
    BY <1>9, MergeTyped, RowsTyped DEF PushReviews, STypeOK
  <2>4. Wrote("review", ReviewsStored(m))
    BY <1>9 DEF PushReviews
  <2>5. [j \in ReviewsStored(m) |-> review[m][j]] \in Holds(Review)
    BY <2>1, RowsTyped, HoldsAll
  <2>6. pass' \in [Machines -> Pass]
    <3>1. CASE Ends(m)
      BY <3>1, EndsTyped
    <3>2. CASE Goes(m, "pushed", [j \in ReviewsStored(m) |-> review[m][j]], Passed(m))
      BY <3>2, <2>5, PassedTyped, GoesTyped DEF Pass
    <3>3. CASE Goes(m, "push", <<>>, Passed(m))
      BY <3>3, PassedTyped, GoesTyped DEF Pass
    <3>4. CASE Goes(m, "pull", <<>>, Start)
      BY <3>4, GoesTyped DEF Pass
    <3> QED
      BY <1>9, <3>1, <3>2, <3>3, <3>4 DEF PushReviews
  <2>7. calm' \in BOOLEAN
    BY <1>9 DEF PushReviews
  <2> QED
    BY <1>9, <2>1, <2>3, <2>4, <2>6, <2>7, UnseenTyped DEF PushReviews, STypeOK, local
<1>a. ASSUME NEW m \in Machines, MarkReviewsSynced(m)
      PROVE  STypeOK'
  <2>1. PICK acked \in SUBSET Jobs :
          review' = [review EXCEPT ![m] = [j \in Jobs |->
               IF j \in acked THEN [review[m][j] EXCEPT !.mark = "current"] ELSE review[m][j]]]
    <3>1. {j \in DOMAIN pass[m].batch \cap Jobs : SameVersion(review[m][j], pass[m].batch[j])}
            \in SUBSET Jobs
      OBVIOUS
    <3> QED
      BY <1>a, <3>1 DEF MarkReviewsSynced, STypeOK
  <2>2. [j \in Jobs |-> IF j \in acked THEN [review[m][j] EXCEPT !.mark = "current"] ELSE review[m][j]]
          \in [Jobs -> Review]
    BY RowsTyped DEF Review
  <2>3. review' \in [Machines -> [Jobs -> Review]]
    BY <2>1, <2>2, PutReviews
  <2>4. pass' \in [Machines -> Pass]
    BY <1>a, GoesTyped, CursorTyped DEF MarkReviewsSynced, Pass
  <2> QED
    BY <1>a, <2>3, <2>4 DEF MarkReviewsSynced, STypeOK, world
<1>10. ASSUME NEW m \in Machines, PullJobs(m)
      PROVE  STypeOK'
  <2>4. PICK S \in SUBSET Jobs :
          /\ \A j \in S : SeesJob(m, remote[j])
          /\ Goes(m, "job", [j \in S |-> [at |-> remote[j].at, status |-> remote[j].status,
                 cost |-> remote[j].cost, reviewed |-> Reviewed(remote[j])]], Start)
    BY <1>10 DEF PullJobs, Readable
  <2>5. [j \in S |-> [at |-> remote[j].at, status |-> remote[j].status,
           cost |-> remote[j].cost, reviewed |-> Reviewed(remote[j])]] \in Holds(Found)
    <3>1. ASSUME NEW j \in S
          PROVE  [at |-> remote[j].at, status |-> remote[j].status,
                  cost |-> remote[j].cost, reviewed |-> Reviewed(remote[j])] \in Found
      BY <2>4, RowsTyped DEF Found, SeesJob, Remote, Reviewed
    <3> QED
      BY <3>1, HoldsAll
  <2>6. pass' \in [Machines -> Pass]
    BY <2>4, <2>5, GoesTyped DEF Pass
  <2> QED
    BY <1>10, <2>6 DEF PullJobs, STypeOK, local, world
<1>11. ASSUME NEW m \in Machines, NEW S, StoresJobs(m, S), pass[m].pc = "job",
             S \subseteq DOMAIN pass[m].batch
      PROVE  row' \in [Machines -> [Jobs -> Row]] /\ review' \in [Machines -> [Jobs -> Review]]
  <2> DEFINE b == pass[m].batch
             fresh == {j \in S : ~Older(b[j].at, row[m][j].at)}
  <2>1. \A j \in S : b[j] \in Found
    BY <1>11, BatchTyped, HeldTyped
  <2>2. row' = [row EXCEPT ![m] = [j \in Jobs |-> IF j \in fresh
       THEN [at |-> b[j].at, status |-> b[j].status, cost |-> b[j].cost, synced |-> TRUE]
       ELSE row[m][j]]]
    BY <1>11 DEF StoresJobs, STypeOK
  <2>3. review' = [review EXCEPT ![m] = [j \in Jobs |->
       IF j \in fresh /\ Retired(m, j, b[j]) THEN NoReview ELSE review[m][j]]]
    BY <1>11 DEF StoresJobs, STypeOK
  <2>4. [j \in Jobs |-> IF j \in fresh
       THEN [at |-> b[j].at, status |-> b[j].status, cost |-> b[j].cost, synced |-> TRUE]
       ELSE row[m][j]] \in [Jobs -> Row]
    BY <2>1, RowsTyped DEF Row, Found
  <2>5. [j \in Jobs |-> IF j \in fresh /\ Retired(m, j, b[j]) THEN NoReview ELSE review[m][j]]
          \in [Jobs -> Review]
    BY RowsTyped, NoReviewTyped
  <2> QED
    BY <2>2, <2>3, <2>4, <2>5, PutRows, PutReviews
<1>12. ASSUME NEW m \in Machines, StorePulledJobs(m)
      PROVE  STypeOK'
  <2>1. row' \in [Machines -> [Jobs -> Row]] /\ review' \in [Machines -> [Jobs -> Review]]
    BY <1>11, <1>12 DEF StorePulledJobs, At
  <2>2. pass' \in [Machines -> Pass]
    BY <1>12, GoesTyped, EndsTyped DEF StorePulledJobs, Pass
  <2>3. DOMAIN pass[m].batch \subseteq Jobs
    BY <1>12, BatchTyped, HeldTyped DEF StorePulledJobs, At
  <2>4. unseen' \in [Machines -> SUBSET ({"job", "review"} \X Jobs)]
    BY <1>12, <2>3 DEF StorePulledJobs, STypeOK, Unread
  <2> QED
    BY <1>12, <2>1, <2>2, <2>4 DEF StorePulledJobs, STypeOK, world
<1>13. ASSUME NEW m \in Machines, PullReviews(m)
      PROVE  STypeOK'
  <2>1. PICK S \in SUBSET Jobs :
          Goes(m, "review", [j \in S |->
            [of |-> remote[j].at, edit |-> remote[j].edit, by |-> remote[j].by]], Start)
    BY <1>13 DEF PullReviews, Readable
  <2>2. [j \in S |-> [of |-> remote[j].at, edit |-> remote[j].edit, by |-> remote[j].by]]
          \in Holds(Version)
    <3>1. ASSUME NEW j \in S
          PROVE  [of |-> remote[j].at, edit |-> remote[j].edit, by |-> remote[j].by] \in Version
      BY RowsTyped DEF Version, Remote
    <3> QED
      BY <3>1, HoldsAll
  <2>3. pass' \in [Machines -> Pass]
    BY <2>1, <2>2, GoesTyped DEF Pass
  <2> QED
    BY <1>13, <2>3 DEF PullReviews, STypeOK, local, world
<1>14. ASSUME NEW m \in Machines, NEW S, StoresReviews(m, S), pass[m].pc = "review",
             S \subseteq DOMAIN pass[m].batch
      PROVE  review' \in [Machines -> [Jobs -> Review]]
  <2> DEFINE b == pass[m].batch
  <2>1. \A j \in S : b[j] \in Version
    BY <1>14, BatchTyped, HeldTyped
  <2>2. PICK T \in SUBSET S : review' = [review EXCEPT ![m] = [j \in Jobs |-> IF j \in T
         THEN [of |-> b[j].of, edit |-> b[j].edit, by |-> b[j].by, mark |-> "current"]
         ELSE review[m][j]]]
    BY <1>14 DEF StoresReviews, STypeOK
  <2>3. [j \in Jobs |-> IF j \in T
         THEN [of |-> b[j].of, edit |-> b[j].edit, by |-> b[j].by, mark |-> "current"]
         ELSE review[m][j]] \in [Jobs -> Review]
    BY <2>1, RowsTyped DEF Review, Version
  <2> QED
    BY <2>2, <2>3, PutReviews
<1>15. ASSUME NEW m \in Machines, StorePulledReviews(m)
      PROVE  STypeOK'
  <2>1. review' \in [Machines -> [Jobs -> Review]]
    BY <1>14, <1>15 DEF StorePulledReviews, At
  <2>2. pass' \in [Machines -> Pass]
    BY <1>15, EndsTyped DEF StorePulledReviews
  <2>3. DOMAIN pass[m].batch \subseteq Jobs
    BY <1>15, BatchTyped, HeldTyped DEF StorePulledReviews, At
  <2>4. unseen' \in [Machines -> SUBSET ({"job", "review"} \X Jobs)]
    BY <1>15, <2>3 DEF StorePulledReviews, STypeOK, Unread
  <2> QED
    BY <1>15, <2>1, <2>2, <2>4 DEF StorePulledReviews, STypeOK, world
<1>16. ASSUME NEW m \in Machines, PassFails(m)
      PROVE  STypeOK'
  <2>1. plan' \in Plan /\ calm' \in BOOLEAN
    BY <1>16, UpsetTyped DEF PassFails
  <2>2. pass[m].cur \in Cursor
    BY CursorTyped
  <2>3. pass' \in [Machines -> Pass]
    BY <1>16, <2>2, GoesTyped, EndsTyped DEF PassFails, Pass
  <2>4. unseen' \in [Machines -> SUBSET ({"job", "review"} \X Jobs)]
    <3>1. CASE pass[m].pc \in {"job", "review"}
      <4>1. DOMAIN pass[m].batch \subseteq Jobs
        BY <3>1, BatchTyped, HeldTyped
      <4> QED
        BY <1>16, <3>1, <4>1 DEF PassFails, STypeOK, Unread
    <3> QED
      BY <1>16, <3>1 DEF PassFails, STypeOK
  <2> QED
    BY <1>16, <2>1, <2>3, <2>4 DEF PassFails, STypeOK, local
<1>17. ASSUME DatabaseReplaced
      PROVE  STypeOK'
  <2>1. NoRemote \in Remote
    BY DEF NoRemote, NoAttempt, Remote, Attempt, Author
  <2>2. NoPass \in Pass
    BY DEF NoPass, Pass
  <2> QED
    BY <1>17, <2>1, <2>2, UpsetTyped DEF DatabaseReplaced, STypeOK, local
<1> QED
  BY <1>1, <1>2, <1>3, <1>4, <1>5, <1>6, <1>7, <1>8, <1>9, <1>a, <1>10, <1>12, <1>13, <1>15,
     <1>16, <1>17 DEF Next, UserStep, WorkerStep, SyncStep

(* The types hold at the start.                                                *)
LEMMA SyncInitTyped ==
  ASSUME Init
  PROVE  STypeOK
<1> USE SyncAssumption
<1>1. PICK p \in Plans : Init!(p)
  BY DEF Init
<1> DEFINE first(j) == [t |-> 1, m |-> p.home[j]]
           exists(j) == j \in DOMAIN p.home
<1>2. p \in Plan
  OBVIOUS
<1>3. \A j \in Jobs : exists(j) => p.home[j] \in Machines /\ first(j) \in Attempt
  BY <1>2 DEF Plan, Attempt
<1> HIDE DEF first, exists
<1>4. NoRow \in Row /\ NoRemote \in Remote /\ NoReview \in Review /\ NoPass \in Pass
  BY NoReviewTyped DEF NoRow, NoRemote, NoPass, NoAttempt, Attempt, Author, Row, Remote, Pass
<1>5. row \in [Machines -> [Jobs -> Row]]
  <2>1. ASSUME NEW j \in Jobs, exists(j)
        PROVE  [at |-> first(j), status |-> "done", cost |-> TRUE, synced |-> TRUE] \in Row
    BY <1>3, <2>1 DEF Row, Terminal
  <2> QED
    BY <1>1, <1>4, <2>1 DEF first, exists
<1>6. review \in [Machines -> [Jobs -> Review]]
  <2>1. ASSUME NEW j \in Jobs, exists(j)
        PROVE  [of |-> first(j), edit |-> 0, by |-> p.home[j], mark |-> "current"] \in Review
    BY <1>3, <2>1 DEF Review, Author
  <2> QED
    BY <1>1, <1>4, <2>1 DEF first, exists
<1>7. remote \in [Jobs -> Remote]
  <2>1. ASSUME NEW j \in Jobs, exists(j)
        PROVE  [at |-> first(j), status |-> "done", cost |-> TRUE, reviews |-> {first(j)},
                edit |-> 0, by |-> p.home[j]] \in Remote
    BY <1>3, <2>1 DEF Remote, Terminal, Author
  <2> QED
    BY <1>1, <1>4, <2>1 DEF first, exists
<1> QED
  BY <1>1, <1>2, <1>4, <1>5, <1>6, <1>7 DEF STypeOK

(* The databases, the passes and what is left to do stay what they are said to *)
(* be: a pass only ever holds rows and reviews that fit the step it is at.     *)
THEOREM SyncTyped == Spec => []STypeOK
<1>1. STypeOK /\ UNCHANGED vars => STypeOK'
  BY DEF STypeOK, vars, local, world
<1> QED
  BY <1>1, SyncInitTyped, SyncTypes, PTL DEF Spec

-------------------------------------------------------------------------------
(* What a step may do to a row and its review, ...                             *)

SameReview(n, i) == review'[n][i] = review[n][i]

ByQueue(n, i) ==
  /\ row'[n][i].status = "active" /\ row'[n][i].at.m = n /\ ~row'[n][i].synced
  /\ row[n][i].status # "active" /\ row[n][i].at.t < row'[n][i].at.t
  /\ (row[n][i].status = "absent" /\ SameReview(n, i)) \/ review'[n][i] = NoReview

ByFinish(n, i) ==
  /\ row[n][i].status = "active"
  /\ row'[n][i].at = row[n][i].at /\ row'[n][i].synced = row[n][i].synced
  /\ \/ row'[n][i].status = "failed" /\ SameReview(n, i)
     \/ /\ row'[n][i].status = "done"
        /\ review'[n][i].of = row[n][i].at /\ review'[n][i].mark = "none"

ByCost(n, i) ==
  /\ row'[n][i].at = row[n][i].at /\ row'[n][i].status = row[n][i].status
  /\ row[n][i].status \in Terminal /\ ~row'[n][i].synced /\ SameReview(n, i)

ByEdit(n, i) ==
  /\ row'[n][i] = row[n][i]
  /\ review'[n][i].of = review[n][i].of /\ review'[n][i].mark = "none"

ByAck(n, i) ==
  /\ linked[n] /\ pass[n].pc = "jobs" /\ i \in DOMAIN pass[n].batch
  /\ pass[n].batch[i] = row[n][i] /\ row'[n][i] = [row[n][i] EXCEPT !.synced = TRUE]
  /\ review'[n][i].of = review[n][i].of
  /\ review[n][i].mark = "none" => review'[n][i].mark = "none"

ByReviewAck(n, i) ==
  /\ linked[n] /\ pass[n].pc = "pushed" /\ i \in DOMAIN pass[n].batch
  /\ pass[n].batch[i].of = review[n][i].of
  /\ row'[n][i] = row[n][i] /\ review'[n][i].of = review[n][i].of

ByPull(n, i) ==
  /\ linked[n] /\ pass[n].pc = "job" /\ i \in DOMAIN pass[n].batch
  /\ LET f == pass[n].batch[i] IN
     /\ ~Older(f.at, row[n][i].at)
     /\ row'[n][i] = [at |-> f.at, status |-> f.status, cost |-> f.cost, synced |-> TRUE]
     /\ \/ f.at = row[n][i].at /\ SameReview(n, i)
        \/ f.at # row[n][i].at /\ review'[n][i] = NoReview

ByPulledReview(n, i) ==
  /\ linked[n] /\ pass[n].pc = "review" /\ i \in DOMAIN pass[n].batch
  /\ pass[n].batch[i].of = row[n][i].at
  /\ row'[n][i] = row[n][i] /\ review'[n][i].of = row[n][i].at

ByConnect(n, i) ==
  /\ row'[n][i] = [row[n][i] EXCEPT !.synced = FALSE]
  /\ review'[n][i].of = review[n][i].of /\ review'[n][i].mark = "none"

RowStep(n, i) ==
  \/ row'[n][i] = row[n][i] /\ SameReview(n, i)
  \/ ByQueue(n, i) \/ ByFinish(n, i) \/ ByCost(n, i) \/ ByEdit(n, i)
  \/ ByAck(n, i) \/ ByReviewAck(n, i) \/ ByPull(n, i) \/ ByPulledReview(n, i)
  \/ ByConnect(n, i)

(* ... to a job in PostgreSQL, when machine n uploads, ...                     *)
PushStep(n, i) ==
  \/ remote'[i] = remote[i]
  \/ /\ pass[n].pc \in {"idle", "push"} /\ i \in JobsToSync(n) /\ ~Older(row[n][i].at, remote[i].at)
     /\ remote'[i].at = row[n][i].at /\ remote'[i].status = row[n][i].status
     /\ remote'[i].cost = row[n][i].cost /\ remote'[i].reviews = remote[i].reviews
  \/ /\ remote'[i].at = remote[i].at /\ remote'[i].status = remote[i].status
     /\ remote'[i].cost = remote[i].cost /\ remote[i].reviews \subseteq remote'[i].reviews

Replaced ==
  /\ \A i \in Jobs : remote'[i] = NoRemote
  /\ \A n \in Machines : ~linked'[n] /\ pass'[n] = NoPass

(* ... to what a machine knows of the database, ...                            *)
LinkStep(n) ==
  \/ linked'[n] = linked[n]
  \/ linked'[n] /\ remote' = remote /\ \A i \in Jobs : ByConnect(n, i)

RemoteStep ==
  /\ \/ remote' = remote
     \/ UNCHANGED <<row, review>> /\ \E n \in Machines : \A i \in Jobs : PushStep(n, i)
     \/ UNCHANGED <<row, review>> /\ Replaced
  /\ Replaced \/ \A n \in Machines : LinkStep(n)

(* ... and to what a pass holds.                                               *)
PassStep(n) ==
  LET pc == pass'[n].pc b == pass'[n].batch IN
  /\ pc # "idle" => linked[n] \/ pass[n].pc # "idle"
  /\ \/ pass'[n] = pass[n]
     \/ pc \in {"idle", "push", "reviews", "pull", "stored"}
     \/ /\ pc = "jobs" /\ DOMAIN b \subseteq JobsToSync(n)
        /\ \A i \in DOMAIN b :
             /\ b[i] = row[n][i]
             /\ ~Older(row[n][i].at, remote[i].at) =>
                  /\ remote'[i].at = row[n][i].at /\ remote'[i].status = row[n][i].status
                  /\ remote'[i].cost = row[n][i].cost
             /\ Older(row[n][i].at, remote[i].at) => remote'[i] = remote[i]
     \/ /\ pc = "pushed"
        /\ \A i \in DOMAIN b : b[i].of \in remote'[i].reviews
     \/ /\ pc = "job" /\ remote' = remote
        /\ \A i \in DOMAIN b : /\ SeesJob(n, remote[i])
                               /\ b[i].at = remote[i].at /\ b[i].status = remote[i].status
     \/ /\ pc = "review" /\ remote' = remote
        /\ \A i \in DOMAIN b : SeesReview(n, remote[i]) /\ b[i].of = remote[i].at

(* What holds of a row by itself.                                              *)
RowKept(n, i) ==
  /\ row[n][i].status = "absent" => row[n][i].at = NoAttempt
  /\ row[n][i].status = "active" => row[n][i].at.m = n /\ ~row[n][i].synced

(* Every step is one of the steps named for a row, for PostgreSQL and for a    *)
(* machine's sync.                                                             *)
LEMMA SyncSteps ==
  ASSUME STypeOK, Next, \A n \in Machines, i \in Jobs : RowKept(n, i)
  PROVE  /\ \A n \in Machines, i \in Jobs : RowStep(n, i)
         /\ RemoteStep
         /\ \A n \in Machines : PassStep(n)
<1> DEFINE Steps == /\ \A n \in Machines, i \in Jobs : RowStep(n, i)
                    /\ RemoteStep
                    /\ \A n \in Machines : PassStep(n)
<1> USE SyncAssumption
<1>q. UNCHANGED <<remote, linked>> => RemoteStep
  BY DEF RemoteStep, LinkStep
<1>p. UNCHANGED pass => \A n \in Machines : PassStep(n)
  BY DEF PassStep
<1>r. UNCHANGED <<row, review>> => \A n \in Machines, i \in Jobs : RowStep(n, i)
  BY DEF RowStep, SameReview
<1>s. ASSUME NEW m \in Machines, NEW j \in Jobs, RowStep(m, j),
             \A n \in Machines, i \in Jobs :
               (n = m /\ i = j) \/ (row'[n][i] = row[n][i] /\ review'[n][i] = review[n][i])
      PROVE  \A n \in Machines, i \in Jobs : RowStep(n, i)
  BY <1>s DEF RowStep, SameReview
<1> HIDE DEF Steps
<1>1. ASSUME NEW m \in Machines, NEW j \in Jobs, Enqueue(m, j)
      PROVE  Steps
  <2>1. PICK t \in 1 .. MaxTime : row' = [row EXCEPT ![m][j] = Queued(m, t)]
    BY <1>1 DEF Enqueue
  <2>2. row'[m][j] = Queued(m, t)
    BY <2>1 DEF STypeOK
  <2>3. \A n \in Machines, i \in Jobs :
          (n = m /\ i = j) \/ (row'[n][i] = row[n][i] /\ review'[n][i] = review[n][i])
    BY <1>1, <2>1 DEF Enqueue, STypeOK
  <2>4. RowStep(m, j)
    <3>1. row[m][j].status = "absent" /\ row[m][j].at.t = 0 /\ review'[m][j] = review[m][j]
      BY <1>1 DEF Enqueue, RowKept, NoAttempt
    <3>2. t \in 0 .. MaxTime /\ 0 < t
      OBVIOUS
    <3>3. Queued(m, t).at.m = m /\ Queued(m, t).at.t = t
      BY <3>2, QueuedTyped
    <3>4. Queued(m, t).status = "active" /\ ~Queued(m, t).synced
      BY <3>2, QueuedTyped
    <3> QED
      BY <2>2, <3>1, <3>2, <3>3, <3>4 DEF RowStep, ByQueue, SameReview
  <2> QED
    BY <1>1, <1>q, <1>p, <1>s, <2>3, <2>4 DEF Steps, Enqueue
<1>2. ASSUME NEW m \in Machines, NEW j \in Jobs, Rerun(m, j)
      PROVE  Steps
  <2>1. PICK t \in row[m][j].at.t + 1 .. MaxTime : row' = [row EXCEPT ![m][j] = Queued(m, t)]
    BY <1>2 DEF Rerun
  <2>2. row'[m][j] = Queued(m, t) /\ review'[m][j] = NoReview
    BY <1>2, <2>1 DEF Rerun, STypeOK
  <2>3. \A n \in Machines, i \in Jobs :
          (n = m /\ i = j) \/ (row'[n][i] = row[n][i] /\ review'[n][i] = review[n][i])
    BY <1>2, <2>1 DEF Rerun, STypeOK
  <2>4. RowStep(m, j)
    <3>1. row[m][j].status # "active"
      BY <1>2 DEF Rerun, Terminal
    <3>t. row[m][j].at.t \in Nat /\ MaxTime \in Nat
      BY RowTime
    <3>2. t \in 0 .. MaxTime /\ row[m][j].at.t < t
      BY <3>t
    <3>3. Queued(m, t).at.m = m /\ Queued(m, t).at.t = t
      BY <3>2, QueuedTyped
    <3>4. Queued(m, t).status = "active" /\ ~Queued(m, t).synced
      BY <3>2, QueuedTyped
    <3> QED
      BY <2>2, <3>1, <3>2, <3>3, <3>4 DEF RowStep, ByQueue
  <2> QED
    BY <1>2, <1>q, <1>p, <1>s, <2>3, <2>4 DEF Steps, Rerun
<1>3. ASSUME NEW m \in Machines, NEW j \in Jobs, Edit(m, j)
      PROVE  Steps
  <2>1. review'[m][j] = [review[m][j] EXCEPT !.edit = m, !.by = m, !.mark = "none"]
    BY <1>3 DEF Edit, STypeOK
  <2>2. row'[m][j] = row[m][j]
    BY <1>3 DEF Edit
  <2>3. \A n \in Machines, i \in Jobs :
          (n = m /\ i = j) \/ (row'[n][i] = row[n][i] /\ review'[n][i] = review[n][i])
    BY <1>3 DEF Edit, STypeOK
  <2>4. RowStep(m, j)
    <3>1. review[m][j] \in Review
      BY RowsTyped
    <3>2. review'[m][j].of = review[m][j].of /\ review'[m][j].mark = "none"
      BY <2>1, <3>1 DEF Review
    <3> QED
      BY <2>2, <3>2 DEF RowStep, ByEdit
  <2> QED
    BY <1>3, <1>q, <1>p, <1>s, <2>3, <2>4 DEF Steps, Edit
<1>4. ASSUME NEW m \in Machines, NEW j \in Jobs, Finish(m, j)
      PROVE  Steps
  <2>1. row[m][j] \in Row /\ row[m][j].status = "active"
    BY <1>4, RowsTyped DEF Finish
  <2>2. \A n \in Machines, i \in Jobs :
          (n = m /\ i = j) \/ (row'[n][i] = row[n][i] /\ review'[n][i] = review[n][i])
    BY <1>4 DEF Finish, STypeOK
  <2>3. \/ /\ row'[m][j] = [row[m][j] EXCEPT !.status = "done"]
           /\ review'[m][j] = [of |-> row[m][j].at, edit |-> 0, by |-> m, mark |-> "none"]
        \/ row'[m][j] = [row[m][j] EXCEPT !.status = "failed"] /\ review'[m][j] = review[m][j]
    <3>1. ASSUME NEW s, row' = [row EXCEPT ![m][j].status = s]
          PROVE  row'[m][j] = [row[m][j] EXCEPT !.status = s]
      BY <3>1 DEF STypeOK
    <3>2. ASSUME NEW v, review' = [review EXCEPT ![m][j] = v]
          PROVE  review'[m][j] = v
      BY <3>2 DEF STypeOK
    <3> QED
      BY <1>4, <3>1, <3>2 DEF Finish
  <2>4. RowStep(m, j)
    <3>1. row'[m][j].at = row[m][j].at /\ row'[m][j].synced = row[m][j].synced
      BY <2>1, <2>3 DEF Row
    <3>2. \/ /\ row'[m][j].status = "done"
             /\ review'[m][j].of = row[m][j].at /\ review'[m][j].mark = "none"
          \/ row'[m][j].status = "failed" /\ review'[m][j] = review[m][j]
      BY <2>1, <2>3 DEF Row
    <3> QED
      BY <2>1, <3>1, <3>2 DEF RowStep, ByFinish, SameReview
  <2> QED
    BY <1>4, <1>q, <1>p, <1>s, <2>2, <2>4 DEF Steps, Finish, world
<1>5. ASSUME NEW m \in Machines, NEW j \in Jobs, SaveCost(m, j)
      PROVE  Steps
  <2>1. row[m][j] \in Row /\ row[m][j].status \in Terminal
    BY <1>5, RowsTyped DEF SaveCost
  <2>2. \A n \in Machines, i \in Jobs :
          (n = m /\ i = j) \/ (row'[n][i] = row[n][i] /\ review'[n][i] = review[n][i])
    BY <1>5 DEF SaveCost, STypeOK
  <2>3. /\ row'[m][j] = [row[m][j] EXCEPT !.cost = TRUE, !.synced = FALSE]
        /\ review'[m][j] = review[m][j]
    BY <1>5 DEF SaveCost, STypeOK
  <2>4. RowStep(m, j)
    <3>1. /\ row'[m][j].at = row[m][j].at /\ row'[m][j].status = row[m][j].status
          /\ ~row'[m][j].synced
      BY <2>1, <2>3 DEF Row
    <3> QED
      BY <2>1, <2>3, <3>1 DEF RowStep, ByCost, SameReview
  <2> QED
    BY <1>5, <1>q, <1>p, <1>s, <2>2, <2>4 DEF Steps, SaveCost
<1>u. ASSUME NEW m \in Machines, PassStep(m), \A n \in Machines \ {m} : pass'[n] = pass[n]
      PROVE  \A n \in Machines : PassStep(n)
  BY <1>u DEF PassStep
<1>v. ASSUME NEW m \in Machines, linked[m], NEW pc \in {"push", "reviews", "pull", "stored"},
             NEW c, Goes(m, pc, <<>>, c)
      PROVE  \A n \in Machines : PassStep(n)
  BY <1>u, <1>v DEF PassStep, Goes, STypeOK
<1>w. ASSUME NEW m \in Machines, Ends(m)
      PROVE  \A n \in Machines : PassStep(n)
  BY <1>u, <1>w DEF PassStep, Ends, NoPass, STypeOK
<1>t. ASSUME NEW m \in Machines, \A i \in Jobs : RowStep(m, i),
             \A n \in Machines, i \in Jobs :
               n = m \/ (row'[n][i] = row[n][i] /\ review'[n][i] = review[n][i])
      PROVE  \A n \in Machines, i \in Jobs : RowStep(n, i)
  BY <1>t DEF RowStep, SameReview
<1>6. ASSUME NEW m \in Machines, Connect(m)
      PROVE  Steps
  <2>1. \A n \in Machines, i \in Jobs :
          n = m \/ (row'[n][i] = row[n][i] /\ review'[n][i] = review[n][i])
    BY <1>6 DEF Connect, STypeOK
  <2>2. \A i \in Jobs : /\ row'[m][i] = [row[m][i] EXCEPT !.synced = FALSE]
                        /\ review'[m][i] = [review[m][i] EXCEPT !.mark = "none"]
    BY <1>6 DEF Connect, STypeOK
  <2>3. ASSUME NEW i \in Jobs
        PROVE  ByConnect(m, i)
    <3>1. review[m][i] \in Review
      BY RowsTyped
    <3>2. review'[m][i] = [review[m][i] EXCEPT !.mark = "none"]
      BY <2>2
    <3>3. review'[m][i].of = review[m][i].of /\ review'[m][i].mark = "none"
      BY <3>1, <3>2 DEF Review
    <3> QED
      BY <2>2, <3>3 DEF ByConnect
  <2>4. RemoteStep
    BY <1>6, <2>3 DEF Connect, RemoteStep, LinkStep, STypeOK
  <2>5. \A i \in Jobs : RowStep(m, i)
    BY <2>3 DEF RowStep
  <2> QED
    BY <1>6, <1>p, <1>t, <2>1, <2>4, <2>5 DEF Steps, Connect
<1>7. ASSUME NEW m \in Machines, PushJobs(m)
      PROVE  Steps
  <2>1. JobsToSync(m) \subseteq Jobs
    BY DEF JobsToSync
  <2>2. PICK S \in SUBSET JobsToSync(m), c \in Cursor :
          /\ LET stored == {j \in S : ~Older(row[m][j].at, remote[j].at)} IN
             /\ remote' = [j \in Jobs |->
                  IF j \in stored THEN Upserted(remote[j], row[m][j]) ELSE remote[j]]
             /\ Wrote("job", stored)
          /\ Goes(m, "reviews", <<>>, c) \/ Goes(m, "jobs", [j \in S |-> row[m][j]], c)
    BY <1>7, JobBatch
  <2> DEFINE stored == {i \in S : ~Older(row[m][i].at, remote[i].at)}
  <2>u. \A i \in Jobs : remote'[i] = IF i \in stored THEN Upserted(remote[i], row[m][i]) ELSE remote[i]
    BY <2>2
  <2>3. ASSUME NEW i \in Jobs
        PROVE  LET p == Upserted(remote[i], row[m][i]) IN
               /\ p.at = row[m][i].at /\ p.status = row[m][i].status
               /\ p.cost = row[m][i].cost /\ p.reviews = remote[i].reviews
    <3>1. remote[i] \in Remote
      BY RowsTyped
    <3> QED
      BY <3>1 DEF Upserted, Remote
  <2>4. \A i \in Jobs : PushStep(m, i)
    BY <1>7, <2>u, <2>3 DEF PushStep, PushJobs, At
  <2>5. RemoteStep
    BY <1>7, <2>4 DEF PushJobs, RemoteStep, LinkStep, local, world
  <2>6. \A n \in Machines \ {m} : pass'[n] = pass[n]
    BY <2>2 DEF Goes, STypeOK
  <2>l. linked[m]
    BY <1>7 DEF PushJobs, At
  <2>7. PassStep(m)
    <3>1. CASE Goes(m, "reviews", <<>>, c)
      BY <3>1, <2>l, <1>v
    <3>2. CASE Goes(m, "jobs", [j \in S |-> row[m][j]], c)
      <4>1. pass'[m] = [pc |-> "jobs", batch |-> [i \in S |-> row[m][i]], cur |-> c]
        BY <3>2 DEF Goes, STypeOK
      <4>2. /\ pass'[m].pc = "jobs" /\ DOMAIN pass'[m].batch = S
            /\ \A i \in S : pass'[m].batch[i] = row[m][i]
        BY <4>1
      <4>3. \A i \in S : i \in Jobs
        BY <2>1
      <4> QED
        BY <2>l, <2>u, <2>3, <4>2, <4>3 DEF PassStep
    <3> QED
      BY <2>2, <3>1, <3>2
  <2>8. \A n \in Machines : PassStep(n)
    BY <2>6, <2>7, <1>u
  <2> QED
    BY <1>7, <1>r, <2>5, <2>8 DEF Steps, PushJobs, local
<1>8. ASSUME NEW m \in Machines, MarkJobsSynced(m)
      PROVE  Steps
  <2> DEFINE b == pass[m].batch
             S == {j \in DOMAIN b : StillUploaded(row[m][j], b[j])}
  <2>1. \A n \in Machines, i \in Jobs :
          n = m \/ (row'[n][i] = row[n][i] /\ review'[n][i] = review[n][i])
    BY <1>8 DEF MarkJobsSynced, STypeOK
  <2>2. \A i \in Jobs :
          /\ row'[m][i] = IF i \in S THEN [row[m][i] EXCEPT !.synced = TRUE] ELSE row[m][i]
          /\ review'[m][i] = IF i \in S /\ review[m][i].mark = "current"
               THEN [review[m][i] EXCEPT !.mark = "old"] ELSE review[m][i]
    BY <1>8 DEF MarkJobsSynced, STypeOK
  <2>3. ASSUME NEW i \in Jobs
        PROVE  RowStep(m, i)
    <3>1. CASE i \notin S
      BY <2>2, <3>1 DEF RowStep, SameReview
    <3>2. CASE i \in S
      <4>1. review[m][i] \in Review
        BY RowsTyped
      <4>2. /\ review'[m][i].of = review[m][i].of
            /\ review[m][i].mark = "none" => review'[m][i].mark = "none"
        BY <2>2, <4>1 DEF Review
      <4>3. row'[m][i] = [row[m][i] EXCEPT !.synced = TRUE]
        BY <2>2, <3>2
      <4>4. linked[m] /\ pass[m].pc = "jobs" /\ i \in DOMAIN b /\ b[i] = row[m][i]
        BY <1>8, <3>2 DEF MarkJobsSynced, At, StillUploaded
      <4> QED
        BY <4>2, <4>3, <4>4 DEF RowStep, ByAck
    <3> QED
      BY <3>1, <3>2
  <2>4. linked[m] /\ Goes(m, "reviews", <<>>, pass[m].cur)
    BY <1>8 DEF MarkJobsSynced, At
  <2>5. \A n \in Machines : PassStep(n)
    BY <2>4, <1>v
  <2> QED
    BY <1>8, <1>q, <1>t, <2>1, <2>3, <2>5 DEF Steps, MarkJobsSynced, world
<1>9. ASSUME NEW m \in Machines, PushReviews(m)
      PROVE  Steps
  <2>1. \A i \in Jobs : remote'[i] = IF i \in ReviewsStored(m) THEN Merged(m, i) ELSE remote[i]
    BY <1>9 DEF PushReviews
  <2>2. ASSUME NEW i \in Jobs
        PROVE  LET p == Merged(m, i) IN
               /\ p.at = remote[i].at /\ p.status = remote[i].status
               /\ p.cost = remote[i].cost /\ p.reviews = remote[i].reviews \cup {review[m][i].of}
    <3>1. remote[i] \in Remote
      BY RowsTyped
    <3> QED
      BY <3>1 DEF Merged, Remote
  <2>3. \A i \in Jobs : PushStep(m, i)
    BY <2>1, <2>2 DEF PushStep
  <2>4. RemoteStep
    BY <1>9, <2>3 DEF PushReviews, RemoteStep, LinkStep, local
  <2>5. \A n \in Machines \ {m} : pass'[n] = pass[n]
    BY <1>9 DEF PushReviews, Goes, Ends, STypeOK
  <2>6. ReviewsStored(m) \subseteq Jobs
    BY StoredJobs
  <2>7. PassStep(m)
    <3>1. CASE Ends(m)
      BY <3>1, <1>9 DEF Ends, NoPass, PassStep, STypeOK
    <3>2. CASE Goes(m, "pushed", [i \in ReviewsStored(m) |-> review[m][i]], Passed(m))
      <4>1. pass'[m] = [pc |-> "pushed", batch |-> [i \in ReviewsStored(m) |-> review[m][i]],
                        cur |-> Passed(m)]
        BY <3>2 DEF Goes, STypeOK
      <4>2. linked[m]
        BY <1>9 DEF PushReviews, At
      <4>3. \A i \in ReviewsStored(m) : review[m][i].of \in remote'[i].reviews
        BY <2>1, <2>2, <2>6
      <4> QED
        BY <4>1, <4>2, <4>3 DEF PassStep
    <3>3. CASE Goes(m, "push", <<>>, Passed(m)) \/ Goes(m, "pull", <<>>, Start)
      <4>1. linked[m]
        BY <1>9 DEF PushReviews, At
      <4> QED
        BY <3>3, <4>1, <1>v
    <3> QED
      BY <1>9, <3>1, <3>2, <3>3 DEF PushReviews
  <2>8. \A n \in Machines : PassStep(n)
    BY <2>5, <2>7, <1>u
  <2> QED
    BY <1>9, <1>r, <2>4, <2>8 DEF Steps, PushReviews, local
<1>a. ASSUME NEW m \in Machines, MarkReviewsSynced(m)
      PROVE  Steps
  <2> DEFINE b == pass[m].batch
             S == {j \in DOMAIN b : SameVersion(review[m][j], b[j])}
  <2>1. \A n \in Machines, i \in Jobs :
          n = m \/ (row'[n][i] = row[n][i] /\ review'[n][i] = review[n][i])
    BY <1>a DEF MarkReviewsSynced, STypeOK
  <2>2. \A i \in Jobs : /\ row'[m][i] = row[m][i]
                        /\ review'[m][i] = IF i \in S
                             THEN [review[m][i] EXCEPT !.mark = "current"] ELSE review[m][i]
    BY <1>a DEF MarkReviewsSynced, STypeOK
  <2>3. ASSUME NEW i \in Jobs
        PROVE  RowStep(m, i)
    <3>1. CASE i \notin S
      BY <2>2, <3>1 DEF RowStep, SameReview
    <3>2. CASE i \in S
      <4>1. review[m][i] \in Review
        BY RowsTyped
      <4>2. review'[m][i].of = review[m][i].of
        BY <2>2, <4>1 DEF Review
      <4>3. linked[m] /\ pass[m].pc = "pushed" /\ i \in DOMAIN b /\ b[i].of = review[m][i].of
        BY <1>a, <3>2 DEF MarkReviewsSynced, At, SameVersion
      <4> QED
        BY <2>2, <4>2, <4>3 DEF RowStep, ByReviewAck
    <3> QED
      BY <3>1, <3>2
  <2>4. linked[m] /\ Goes(m, "push", <<>>, pass[m].cur)
    BY <1>a DEF MarkReviewsSynced, At
  <2>5. \A n \in Machines : PassStep(n)
    BY <2>4, <1>v
  <2> QED
    BY <1>a, <1>q, <1>t, <2>1, <2>3, <2>5 DEF Steps, MarkReviewsSynced, world
<1>10. ASSUME NEW m \in Machines, PullJobs(m)
      PROVE  Steps
  <2>4. PICK R \in SUBSET Jobs :
          /\ \A j \in R : SeesJob(m, remote[j])
          /\ Goes(m, "job", [j \in R |-> [at |-> remote[j].at, status |-> remote[j].status,
                 cost |-> remote[j].cost, reviewed |-> Reviewed(remote[j])]], Start)
    BY <1>10 DEF PullJobs, Readable
  <2>5. \A n \in Machines \ {m} : pass'[n] = pass[n]
    BY <2>4 DEF Goes, STypeOK
  <2>6. PassStep(m)
    <3>1. pass'[m] = [pc |-> "job", batch |-> [j \in R |->
             [at |-> remote[j].at, status |-> remote[j].status,
              cost |-> remote[j].cost, reviewed |-> Reviewed(remote[j])]], cur |-> Start]
      BY <2>4 DEF Goes, STypeOK
    <3>2. /\ pass'[m].pc = "job" /\ DOMAIN pass'[m].batch = R
          /\ \A j \in R : /\ pass'[m].batch[j].at = remote[j].at
                         /\ pass'[m].batch[j].status = remote[j].status
      BY <3>1
    <3>3. linked[m] /\ remote' = remote
      BY <1>10 DEF PullJobs, At
    <3> QED
      BY <2>4, <3>2, <3>3 DEF PassStep
  <2>7. \A n \in Machines : PassStep(n)
    BY <2>5, <2>6, <1>u
  <2> QED
    BY <1>10, <1>q, <1>r, <2>7 DEF Steps, PullJobs, local, world
<1>11. ASSUME NEW m \in Machines, StorePulledJobs(m)
      PROVE  Steps
  <2> DEFINE b == pass[m].batch
  <2>1. PICK S \in SUBSET DOMAIN b : StoresJobs(m, S)
    BY <1>11 DEF StorePulledJobs
  <2> DEFINE fresh == {j \in S : ~Older(b[j].at, row[m][j].at)}
  <2>2. \A n \in Machines, i \in Jobs :
          n = m \/ (row'[n][i] = row[n][i] /\ review'[n][i] = review[n][i])
    BY <2>1 DEF StoresJobs, STypeOK
  <2>3. \A i \in Jobs :
          /\ row'[m][i] = IF i \in fresh
               THEN [at |-> b[i].at, status |-> b[i].status, cost |-> b[i].cost, synced |-> TRUE]
               ELSE row[m][i]
          /\ review'[m][i] = IF i \in fresh /\ b[i].at # row[m][i].at THEN NoReview ELSE review[m][i]
    BY <2>1 DEF StoresJobs, Retired, STypeOK
  <2>4. ASSUME NEW i \in Jobs
        PROVE  RowStep(m, i)
    <3>1. CASE i \notin fresh
      BY <2>3, <3>1 DEF RowStep, SameReview
    <3>2. CASE i \in fresh
      <4>1. linked[m] /\ pass[m].pc = "job" /\ i \in DOMAIN b
        BY <1>11, <3>2 DEF StorePulledJobs, At
      <4>2. ~Older(b[i].at, row[m][i].at)
        BY <3>2
      <4> QED
        BY <2>3, <3>2, <4>1, <4>2 DEF RowStep, ByPull, SameReview
    <3> QED
      BY <3>1, <3>2
  <2>5. linked[m] /\ (Ends(m) \/ Goes(m, "stored", <<>>, Start))
    BY <1>11 DEF StorePulledJobs, At
  <2>6. \A n \in Machines : PassStep(n)
    BY <2>5, <1>v, <1>w
  <2> QED
    BY <1>11, <1>q, <1>t, <2>2, <2>4, <2>6 DEF Steps, StorePulledJobs, world
<1>12. ASSUME NEW m \in Machines, PullReviews(m)
      PROVE  Steps
  <2>1. PICK R \in SUBSET Jobs :
          /\ \A j \in R : SeesReview(m, remote[j])
          /\ Goes(m, "review", [j \in R |->
               [of |-> remote[j].at, edit |-> remote[j].edit, by |-> remote[j].by]], Start)
    BY <1>12 DEF PullReviews, Readable
  <2>2. \A n \in Machines \ {m} : pass'[n] = pass[n]
    BY <2>1 DEF Goes, STypeOK
  <2>3. PassStep(m)
    <3>1. pass'[m] = [pc |-> "review", batch |-> [j \in R |->
             [of |-> remote[j].at, edit |-> remote[j].edit, by |-> remote[j].by]], cur |-> Start]
      BY <2>1 DEF Goes, STypeOK
    <3>2. /\ pass'[m].pc = "review" /\ DOMAIN pass'[m].batch = R
          /\ \A j \in R : pass'[m].batch[j].of = remote[j].at
      BY <3>1
    <3>3. linked[m] /\ remote' = remote
      BY <1>12 DEF PullReviews, At
    <3> QED
      BY <2>1, <3>2, <3>3 DEF PassStep
  <2>4. \A n \in Machines : PassStep(n)
    BY <2>2, <2>3, <1>u
  <2> QED
    BY <1>12, <1>q, <1>r, <2>4 DEF Steps, PullReviews, local, world
<1>13. ASSUME NEW m \in Machines, StorePulledReviews(m)
      PROVE  Steps
  <2> DEFINE b == pass[m].batch
  <2>1. PICK S \in SUBSET DOMAIN b : StoresReviews(m, S)
    BY <1>13 DEF StorePulledReviews
  <2>2. PICK T \in SUBSET S :
          /\ \A j \in T : Takes(m, j, b[j])
          /\ review' = [review EXCEPT ![m] = [j \in Jobs |-> IF j \in T
               THEN [of |-> b[j].of, edit |-> b[j].edit, by |-> b[j].by, mark |-> "current"]
               ELSE review[m][j]]]
    BY <2>1 DEF StoresReviews, STypeOK
  <2>3. \A n \in Machines, i \in Jobs :
          n = m \/ (row'[n][i] = row[n][i] /\ review'[n][i] = review[n][i])
    BY <1>13, <2>2 DEF StorePulledReviews, STypeOK
  <2>4. \A i \in Jobs :
          /\ row'[m][i] = row[m][i]
          /\ review'[m][i] = IF i \in T
               THEN [of |-> b[i].of, edit |-> b[i].edit, by |-> b[i].by, mark |-> "current"]
               ELSE review[m][i]
    BY <1>13, <2>2 DEF StorePulledReviews, STypeOK
  <2>5. ASSUME NEW i \in Jobs
        PROVE  RowStep(m, i)
    <3>1. CASE i \notin T
      BY <2>4, <3>1 DEF RowStep, SameReview
    <3>2. CASE i \in T
      <4>1. linked[m] /\ pass[m].pc = "review" /\ i \in DOMAIN b
        BY <1>13, <3>2 DEF StorePulledReviews, At
      <4>2. b[i].of = row[m][i].at
        BY <2>2, <3>2 DEF Takes
      <4>3. review'[m][i] = [of |-> b[i].of, edit |-> b[i].edit, by |-> b[i].by, mark |-> "current"]
        BY <2>4, <3>2
      <4>4. review'[m][i].of = b[i].of
        BY <4>3
      <4> QED
        BY <2>4, <4>1, <4>2, <4>4 DEF RowStep, ByPulledReview
    <3> QED
      BY <3>1, <3>2
  <2>6. \A n \in Machines : PassStep(n)
    BY <1>13, <1>w DEF StorePulledReviews
  <2> QED
    BY <1>13, <1>q, <1>t, <2>3, <2>5, <2>6 DEF Steps, StorePulledReviews, world
<1>14. ASSUME NEW m \in Machines, PassFails(m)
      PROVE  Steps
  <2>1. \A n \in Machines \ {m} : pass'[n] = pass[n]
    BY <1>14 DEF PassFails, Ends, Goes, STypeOK
  <2>2. PassStep(m)
    <3>1. CASE Ends(m)
      BY <3>1, <1>w
    <3>2. CASE pass[m].pc = "jobs" /\ Goes(m, "reviews", <<>>, pass[m].cur)
      BY <3>2 DEF Goes, PassStep, STypeOK
    <3>3. CASE pass[m].pc = "pushed" /\ Goes(m, "push", <<>>, pass[m].cur)
      BY <3>3 DEF Goes, PassStep, STypeOK
    <3> QED
      BY <1>14, <3>1, <3>2, <3>3 DEF PassFails
  <2>3. \A n \in Machines : PassStep(n)
    BY <2>1, <2>2, <1>u
  <2> QED
    BY <1>14, <1>q, <1>r, <2>3 DEF Steps, PassFails, local
<1>15. ASSUME DatabaseReplaced
      PROVE  Steps
  <2>1. Replaced
    BY <1>15 DEF DatabaseReplaced, Replaced
  <2>2. RemoteStep
    BY <1>15, <2>1 DEF DatabaseReplaced, RemoteStep, local
  <2>3. \A n \in Machines : PassStep(n)
    BY <2>1 DEF Replaced, PassStep, NoPass
  <2> QED
    BY <1>15, <1>r, <2>2, <2>3 DEF Steps, DatabaseReplaced, local
<1> QED
  BY <1>1, <1>2, <1>3, <1>4, <1>5, <1>6, <1>7, <1>8, <1>9, <1>a, <1>10, <1>11, <1>12, <1>13,
     <1>14, <1>15 DEF Next, UserStep, WorkerStep, SyncStep, Steps

-------------------------------------------------------------------------------
(* What anyone knows of how an attempt ended is true: it was said first by the *)
(* machine that made the attempt, once.                                        *)

PassTells(n, i, a, s) ==
  LET b == pass[n].batch IN
  /\ i \in DOMAIN b
  /\ \/ pass[n].pc \in {"jobs", "job"} /\ b[i].at = a /\ b[i].status = s
     \/ pass[n].pc = "review" /\ b[i].of = a /\ s = "done"

RowTells(n, i, a, s) == row[n][i].at = a /\ row[n][i].status = s

(* Somewhere attempt a of job i is known to have ended with status s.          *)
Told(i, a, s) ==
  /\ s \in Terminal
  /\ \/ remote[i].at = a /\ remote[i].status = s
     \/ \E n \in Machines : RowTells(n, i, a, s) \/ PassTells(n, i, a, s)

(* What a pass uploads its machine made and ended; what it downloads others.   *)
BatchKept(n) ==
  LET b == pass[n].batch IN
  /\ pass[n].pc = "jobs" =>
       \A i \in DOMAIN b : b[i].status \in Terminal /\ b[i].at.m = n
  /\ pass[n].pc = "job" => \A i \in DOMAIN b : b[i].at.m # n

OwnerAhead(i, a, s) == Told(i, a, s) => a.m \in Machines /\ a.t <= row[a.m][i].at.t
OneOutcome(i, a)    == ~(Told(i, a, "done") /\ Told(i, a, "failed"))
ActiveFresh(n, i, a, s) ==
  row[n][i].status = "active" /\ row[n][i].at = a => ~Told(i, a, s)

Knows ==
  /\ \A n \in Machines, i \in Jobs : RowKept(n, i)
  /\ \A n \in Machines : BatchKept(n)
  /\ \A i \in Jobs, a \in Attempt, s \in Terminal : OwnerAhead(i, a, s)
  /\ \A i \in Jobs, a \in Attempt : OneOutcome(i, a)
  /\ \A n \in Machines, i \in Jobs, a \in Attempt, s \in Terminal : ActiveFresh(n, i, a, s)

(* What is known of an attempt stays true of a row, and attempts never go      *)
(* back in time.                                                               *)
LEMMA KeepsRows ==
  ASSUME STypeOK, STypeOK', Knows, NEW n \in Machines, NEW i \in Jobs, RowStep(n, i)
  PROVE  /\ RowKept(n, i)'
         /\ row[n][i].at.t <= row'[n][i].at.t
         /\ row[n][i].at.t \in Nat /\ row'[n][i].at.t \in Nat
         /\ row'[n][i].status = "active" =>
              \/ ByQueue(n, i)
              \/ row[n][i].status = "active" /\ row'[n][i].at = row[n][i].at
<1>0. row'[n][i].at.t \in Nat
  BY SyncAssumption DEF STypeOK, Row, Attempt
<1>1. row[n][i] \in Row /\ row[n][i].at.t \in Nat /\ RowKept(n, i)
  BY RowsTyped, SyncAssumption DEF Attempt, Knows
<1>2. CASE row'[n][i] = row[n][i]
  BY <1>1, <1>2 DEF RowKept
<1>3. CASE ByQueue(n, i)
  BY <1>0, <1>1, <1>3 DEF RowKept, ByQueue
<1>4. CASE ByFinish(n, i)
  BY <1>1, <1>4 DEF RowKept, ByFinish
<1>5. CASE ByCost(n, i)
  BY <1>1, <1>5 DEF RowKept, ByCost, Terminal
<1>6. CASE ByAck(n, i)
  <2>1. row[n][i].status \in Terminal
    BY <1>6 DEF ByAck, Knows, BatchKept
  <2>2. row'[n][i].at = row[n][i].at /\ row'[n][i].status = row[n][i].status
    BY <1>1, <1>6 DEF ByAck, Row
  <2> QED
    BY <1>1, <2>1, <2>2 DEF RowKept, Terminal
<1>7. CASE ByPull(n, i)
  <2> DEFINE f == pass[n].batch[i]
  <2>1. f \in Found
    BY <1>7, BatchTyped, HeldTyped DEF ByPull
  <2>2. row'[n][i].at = f.at /\ row'[n][i].status = f.status /\ ~Older(f.at, row[n][i].at)
    BY <1>7 DEF ByPull
  <2>3. f.at.t \in Nat /\ f.status \in Terminal
    BY <2>1, SyncAssumption DEF Found, Attempt
  <2> QED
    BY <1>1, <2>2, <2>3 DEF RowKept, Older, Terminal
<1>8. CASE ByConnect(n, i)
  <2>1. /\ row'[n][i].at = row[n][i].at /\ row'[n][i].status = row[n][i].status
        /\ ~row'[n][i].synced
    BY <1>1, <1>8 DEF ByConnect, Row
  <2> QED
    BY <1>1, <2>1 DEF RowKept
<1>9. \/ row'[n][i] = row[n][i]
      \/ ByQueue(n, i) \/ ByFinish(n, i) \/ ByCost(n, i)
      \/ ByAck(n, i) \/ ByPull(n, i) \/ ByConnect(n, i)
  BY DEF RowStep, ByEdit, ByReviewAck, ByPulledReview
<1> QED
  BY <1>0, <1>1, <1>2, <1>3, <1>4, <1>5, <1>6, <1>7, <1>8, <1>9

(* News that an attempt ended comes from the machine where it ran.             *)
LEMMA News ==
  ASSUME STypeOK, NEW i \in Jobs, NEW a, NEW s,
         \A n \in Machines : RowStep(n, i), RemoteStep, \A n \in Machines : PassStep(n),
         Told(i, a, s)'
  PROVE  \/ Told(i, a, s)
         \/ \E n \in Machines : ByFinish(n, i) /\ row[n][i].at = a /\ row'[n][i].status = s
<1>1. s \in Terminal
  BY DEF Told
<1>2. CASE remote'[i].at = a /\ remote'[i].status = s
  <2>1. CASE remote' = remote
    BY <1>1, <1>2, <2>1 DEF Told
  <2>2. CASE \E n \in Machines : PushStep(n, i)
    <3>1. PICK n \in Machines : PushStep(n, i)
      BY <2>2
    <3>2. \/ remote[i].at = a /\ remote[i].status = s
          \/ RowTells(n, i, a, s)
      BY <1>2, <3>1 DEF PushStep, RowTells
    <3> QED
      BY <1>1, <3>2 DEF Told
  <2>3. CASE Replaced
    BY <1>1, <1>2, <2>3 DEF Replaced, NoRemote, Terminal
  <2> QED
    BY <2>1, <2>2, <2>3 DEF RemoteStep
<1>3. ASSUME NEW n \in Machines, RowTells(n, i, a, s)'
      PROVE  Told(i, a, s) \/ (ByFinish(n, i) /\ row[n][i].at = a /\ row'[n][i].status = s)
  <2>1. row[n][i] \in Row
    BY RowsTyped
  <2>2. CASE row'[n][i].at = row[n][i].at /\ row'[n][i].status = row[n][i].status
    BY <1>1, <1>3, <2>2 DEF Told, RowTells
  <2>3. CASE ByQueue(n, i)
    BY <1>1, <1>3, <2>3 DEF ByQueue, RowTells, Terminal
  <2>4. CASE ByFinish(n, i)
    BY <1>3, <2>4 DEF ByFinish, RowTells
  <2>5. CASE ByPull(n, i)
    <3>1. PassTells(n, i, a, s)
      BY <1>3, <2>5 DEF ByPull, PassTells, RowTells
    <3> QED
      BY <1>1, <3>1 DEF Told
  <2>6. CASE ByAck(n, i) \/ ByConnect(n, i)
    <3>1. row'[n][i].at = row[n][i].at /\ row'[n][i].status = row[n][i].status
      BY <2>1, <2>6 DEF ByAck, ByConnect, Row
    <3> QED
      BY <2>2, <3>1
  <2> QED
    BY <2>2, <2>3, <2>4, <2>5, <2>6
       DEF RowStep, ByCost, ByEdit, ByReviewAck, ByPulledReview
<1>4. ASSUME NEW n \in Machines, PassTells(n, i, a, s)'
      PROVE  Told(i, a, s)
  <2>1. i \in DOMAIN pass'[n].batch
    BY <1>4 DEF PassTells
  <2>2. CASE pass'[n] = pass[n]
    <3>1. PassTells(n, i, a, s)
      BY <1>4, <2>2 DEF PassTells
    <3> QED
      BY <1>1, <3>1 DEF Told
  <2>3. CASE pass'[n].pc = "jobs" /\ pass'[n].batch[i] = row[n][i]
    <3>1. RowTells(n, i, a, s)
      BY <1>4, <2>3 DEF PassTells, RowTells
    <3> QED
      BY <1>1, <3>1 DEF Told
  <2>4. CASE /\ pass'[n].pc = "job" /\ pass'[n].batch[i].at = remote[i].at
             /\ pass'[n].batch[i].status = remote[i].status
    BY <1>1, <1>4, <2>4 DEF PassTells, Told
  <2>5. CASE /\ pass'[n].pc = "review" /\ SeesReview(n, remote[i])
             /\ pass'[n].batch[i].of = remote[i].at
    BY <1>1, <1>4, <2>5 DEF PassTells, Told, SeesReview
  <2>6. CASE pass'[n].pc \in {"idle", "push", "reviews", "pull", "stored", "pushed"}
    BY <1>4, <2>6 DEF PassTells
  <2> QED
    BY <2>1, <2>2, <2>3, <2>4, <2>5, <2>6 DEF PassStep
<1> QED
  BY <1>2, <1>3, <1>4 DEF Told

(* It stays true of what a machine holds.                                      *)
LEMMA KeepsBatches ==
  ASSUME STypeOK, Knows, NEW n \in Machines, PassStep(n)
  PROVE  BatchKept(n)'
<1>1. BatchKept(n)
  BY DEF Knows
<1>2. CASE pass'[n] = pass[n]
  BY <1>1, <1>2 DEF BatchKept
<1>3. CASE pass'[n].pc \notin {"jobs", "job"}
  BY <1>3 DEF BatchKept
<1>4. CASE /\ pass'[n].pc = "jobs" /\ DOMAIN pass'[n].batch \subseteq JobsToSync(n)
           /\ \A i \in DOMAIN pass'[n].batch : pass'[n].batch[i] = row[n][i]
  BY <1>4 DEF BatchKept, JobsToSync, Owned
<1>5. CASE /\ pass'[n].pc = "job"
           /\ \A i \in DOMAIN pass'[n].batch :
                SeesJob(n, remote[i]) /\ pass'[n].batch[i].at = remote[i].at
  BY <1>5 DEF BatchKept, SeesJob
<1> QED
  BY <1>2, <1>3, <1>4, <1>5 DEF PassStep

(* Every step keeps what is known true.                                        *)
LEMMA SyncKnows ==
  ASSUME STypeOK, Knows, Next
  PROVE  Knows'
<1> USE SyncAssumption
<1>0. STypeOK'
  BY SyncTypes
<1>1. /\ \A n \in Machines, i \in Jobs : RowStep(n, i)
      /\ RemoteStep
      /\ \A n \in Machines : PassStep(n)
  BY SyncSteps DEF Knows
<1>2. \A n \in Machines, i \in Jobs :
        /\ RowKept(n, i)'
        /\ row[n][i].at.t <= row'[n][i].at.t
        /\ row[n][i].at.t \in Nat /\ row'[n][i].at.t \in Nat
        /\ row'[n][i].status = "active" =>
              \/ ByQueue(n, i)
              \/ row[n][i].status = "active" /\ row'[n][i].at = row[n][i].at
  BY <1>0, <1>1, KeepsRows
<1>3. \A n \in Machines : BatchKept(n)'
  BY <1>1, KeepsBatches
<1>4. ASSUME NEW i \in Jobs, NEW a \in Attempt, NEW s \in Terminal, Told(i, a, s)'
      PROVE  \/ Told(i, a, s)
             \/ /\ a.m \in Machines /\ ByFinish(a.m, i)
                /\ row[a.m][i].at = a /\ row'[a.m][i].status = s
  <2>0. \/ Told(i, a, s)
        \/ \E n \in Machines : ByFinish(n, i) /\ row[n][i].at = a /\ row'[n][i].status = s
    <3>1. \A n \in Machines : RowStep(n, i)
      BY <1>1, Zenon
    <3>2. RemoteStep /\ \A n \in Machines : PassStep(n)
      BY <1>1, Zenon
    <3> QED
      BY <1>4, <3>1, <3>2, News
  <2>1. CASE \E n \in Machines : ByFinish(n, i) /\ row[n][i].at = a /\ row'[n][i].status = s
    <3>1. PICK n \in Machines : ByFinish(n, i) /\ row[n][i].at = a /\ row'[n][i].status = s
      BY <2>1
    <3>2. n = a.m
      BY <3>1 DEF Knows, RowKept, ByFinish
    <3>3. a.m \in Machines /\ ByFinish(a.m, i)
      BY <3>1, <3>2, Zenon
    <3>4. row[a.m][i].at = a /\ row'[a.m][i].status = s
      BY <3>1, <3>2, Zenon
    <3> QED
      BY <3>3, <3>4, Zenon
  <2> QED
    BY <2>0, <2>1, Zenon
<1>5. ASSUME NEW i \in Jobs, NEW a \in Attempt, NEW s \in Terminal
      PROVE  OwnerAhead(i, a, s)'
  <2>1. ASSUME Told(i, a, s)'
        PROVE  a.m \in Machines /\ a.t <= row'[a.m][i].at.t
    <3>1. a.m \in Machines /\ a.t <= row[a.m][i].at.t
      <4>1. CASE Told(i, a, s)
        BY <4>1 DEF Knows, OwnerAhead
      <4>2. CASE a.m \in Machines /\ row[a.m][i].at = a
        <5>1. row[a.m][i].at.t \in Nat
          BY <4>2, RowTime
        <5> QED
          BY <4>2, <5>1
      <4> QED
        BY <1>4, <2>1, <4>1, <4>2
    <3>2. a.t \in Nat
      BY AttemptTime
    <3>3. /\ row[a.m][i].at.t <= row'[a.m][i].at.t
          /\ row[a.m][i].at.t \in Nat /\ row'[a.m][i].at.t \in Nat
      BY <1>2, <3>1
    <3> QED
      BY <3>1, <3>2, <3>3
  <2> QED
    BY <2>1 DEF OwnerAhead
<1>6. ASSUME NEW i \in Jobs, NEW a \in Attempt
      PROVE  OneOutcome(i, a)'
  <2>1. SUFFICES ASSUME Told(i, a, "done")', Told(i, a, "failed")'
                 PROVE  FALSE
    BY DEF OneOutcome
  <2>2. ASSUME a.m \in Machines, ByFinish(a.m, i), row[a.m][i].at = a, NEW s \in Terminal
        PROVE  ~Told(i, a, s)
    BY <2>2 DEF ByFinish, Knows, ActiveFresh
  <2>3. "done" \in Terminal /\ "failed" \in Terminal
    BY DEF Terminal
  <2>4. ~(Told(i, a, "done") /\ Told(i, a, "failed"))
    BY DEF Knows, OneOutcome
  <2> QED
    BY <1>4, <2>1, <2>2, <2>3, <2>4
<1>7. ASSUME NEW n \in Machines, NEW i \in Jobs, NEW a \in Attempt, NEW s \in Terminal
      PROVE  ActiveFresh(n, i, a, s)'
  <2>1. SUFFICES ASSUME row'[n][i].status = "active", row'[n][i].at = a, Told(i, a, s)'
                 PROVE  FALSE
    BY DEF ActiveFresh
  <2>2. a.m = n
    BY <1>2, <2>1 DEF RowKept
  <2>3. Told(i, a, s) \/ ByFinish(n, i)
    BY <1>4, <2>1, <2>2
  <2>4. CASE ByQueue(n, i)
    <3>n. ~ByFinish(n, i)
      BY <2>4 DEF ByQueue, ByFinish
    <3>1. Told(i, a, s)
      BY <2>3, <3>n
    <3>2. a.t <= row[n][i].at.t
      BY <2>2, <3>1 DEF Knows, OwnerAhead
    <3>3. row[n][i].at.t < a.t
      BY <2>1, <2>4 DEF ByQueue
    <3>4. row[n][i].at.t \in Nat /\ a.t \in Nat
      BY RowTime, AttemptTime
    <3> QED
      BY <3>2, <3>3, <3>4
  <2>5. CASE row[n][i].status = "active" /\ row[n][i].at = a
    <3>1. ~Told(i, a, s)
      BY <2>5 DEF Knows, ActiveFresh
    <3>2. ~ByFinish(n, i)
      BY <2>1 DEF ByFinish
    <3> QED
      BY <2>3, <3>1, <3>2
  <2> QED
    BY <1>2, <2>1, <2>4, <2>5
<1> QED
  BY <1>2, <1>3, <1>5, <1>6, <1>7 DEF Knows

(* At the start nothing is known.                                              *)
LEMMA InitKnows ==
  ASSUME Init
  PROVE  Knows
<1> USE SyncAssumption
<1>1. PICK p \in Plans : Init!(p)
  BY DEF Init
<1> DEFINE first(j) == [t |-> 1, m |-> p.home[j]]
           E == DOMAIN p.home
<1>2. \A n \in Machines, i \in Jobs :
        /\ i \in E => row[n][i].at = first(i) /\ row[n][i].status = "done"
        /\ i \notin E => row[n][i].at = NoAttempt /\ row[n][i].status = "absent"
  BY <1>1 DEF NoRow
<1>3. \A i \in Jobs : /\ i \in E => remote[i].at = first(i) /\ remote[i].status = "done"
                      /\ i \notin E => remote[i].status = "absent"
  BY <1>1 DEF NoRemote
<1>4. \A n \in Machines : pass[n].pc = "idle"
  BY <1>1 DEF NoPass
<1>5. \A i \in Jobs : i \in E => first(i).m \in Machines /\ first(i).t = 1
  BY <1>1 DEF Plan
<1> HIDE DEF first, E
<1>6. ASSUME NEW i \in Jobs, NEW a, NEW s, Told(i, a, s)
      PROVE  i \in E /\ a = first(i) /\ s = "done"
  BY <1>2, <1>3, <1>4, <1>6 DEF Told, RowTells, PassTells, Terminal
<1>7. \A n \in Machines, i \in Jobs : RowKept(n, i)
  BY <1>2 DEF RowKept
<1>8. \A n \in Machines : BatchKept(n)
  BY <1>4 DEF BatchKept
<1>9. ASSUME NEW i \in Jobs, NEW a \in Attempt, NEW s \in Terminal
      PROVE  OwnerAhead(i, a, s)
  <2>1. SUFFICES ASSUME Told(i, a, s)
                 PROVE  a.m \in Machines /\ a.t <= row[a.m][i].at.t
    BY DEF OwnerAhead
  <2>2. i \in E /\ a = first(i)
    BY <1>6, <2>1
  <2>3. a.m \in Machines /\ a.t = 1
    BY <1>5, <2>2
  <2>4. row[a.m][i].at = a
    BY <1>2, <2>2, <2>3
  <2> QED
    BY <2>3, <2>4
<1>10. ASSUME NEW i \in Jobs, NEW a \in Attempt
       PROVE  OneOutcome(i, a)
  <2>1. Told(i, a, "failed") => "failed" = "done"
    BY <1>6
  <2> QED
    BY <2>1 DEF OneOutcome
<1>11. ASSUME NEW n \in Machines, NEW i \in Jobs, NEW a \in Attempt, NEW s \in Terminal
       PROVE  ActiveFresh(n, i, a, s)
  BY <1>2 DEF ActiveFresh
<1> QED
  BY <1>7, <1>8, <1>9, <1>10, <1>11 DEF Knows

-------------------------------------------------------------------------------
(* ReviewOfItsAttempt.                                                         *)

ReviewKept(n, i) ==
  /\ review[n][i].of # NoAttempt =>
       review[n][i].of = row[n][i].at /\ row[n][i].status = "done"
  /\ row[n][i].status = "done" /\ Owned(n, i) => review[n][i].of = row[n][i].at

(* Every step leaves a machine with the review of the attempt in its row.      *)
LEMMA KeepsReviews ==
  ASSUME STypeOK, STypeOK', Knows, NEW n \in Machines, NEW i \in Jobs,
         RowStep(n, i), ReviewKept(n, i)
  PROVE  ReviewKept(n, i)'
<1> USE SyncAssumption
<1>1. row[n][i] \in Row /\ row[n][i].at \in Attempt /\ RowKept(n, i) /\ NoReview.of = NoAttempt
  BY RowsTyped, NoReviewTyped DEF Knows
<1>2. CASE /\ row'[n][i].at = row[n][i].at /\ row'[n][i].status = row[n][i].status
           /\ review'[n][i].of = review[n][i].of
  BY <1>2 DEF ReviewKept, Owned
<1>3. CASE ByQueue(n, i)
  BY <1>1, <1>3 DEF ReviewKept, ByQueue, SameReview
<1>4. CASE ByFinish(n, i)
  BY <1>1, <1>4 DEF ReviewKept, ByFinish, SameReview
<1>5. CASE ByPull(n, i)
  <2> DEFINE f == pass[n].batch[i]
  <2>1. f \in Found /\ f.at.m # n
    BY <1>5, BatchTyped, HeldTyped DEF ByPull, Knows, BatchKept
  <2>2. row'[n][i].at = f.at /\ row'[n][i].status = f.status
    BY <1>5 DEF ByPull
  <2>3. CASE f.at # row[n][i].at /\ review'[n][i] = NoReview
    BY <1>1, <2>1, <2>2, <2>3 DEF ReviewKept, Owned
  <2>4. CASE f.at = row[n][i].at /\ SameReview(n, i)
    <3>1. ASSUME review[n][i].of # NoAttempt
          PROVE  f.status = "done"
      <4>1. Told(i, f.at, "done")
        BY <2>4, <3>1 DEF ReviewKept, Told, RowTells, Terminal
      <4>2. PassTells(n, i, f.at, f.status) /\ f.status \in Terminal
        BY <1>5, <2>1 DEF PassTells, ByPull, Found
      <4>3. Told(i, f.at, f.status)
        BY <4>2 DEF Told
      <4> QED
        BY <1>1, <2>4, <4>1, <4>2, <4>3 DEF Knows, OneOutcome, Terminal
    <3> QED
      BY <2>1, <2>2, <2>4, <3>1 DEF ReviewKept, Owned, SameReview
  <2> QED
    BY <1>5, <2>3, <2>4 DEF ByPull
<1>6. CASE ByPulledReview(n, i)
  <2>1. row'[n][i] = row[n][i] /\ review'[n][i].of = row[n][i].at
    BY <1>6 DEF ByPulledReview
  <2>2. Told(i, row[n][i].at, "done")
    BY <1>6 DEF ByPulledReview, Told, PassTells, Terminal
  <2>3. row[n][i].at.m \in Machines
    BY <1>1, <2>2 DEF Knows, OwnerAhead, Terminal
  <2>4. row[n][i].status \in Terminal
    <3>1. row[n][i].status # "active"
      BY <1>1, <2>2 DEF Knows, ActiveFresh, Terminal
    <3>2. row[n][i].status # "absent"
      BY <1>1, <2>3 DEF RowKept, NoAttempt
    <3> QED
      BY <1>1, <3>1, <3>2 DEF Row
  <2>5. Told(i, row[n][i].at, row[n][i].status)
    BY <2>4 DEF Told, RowTells
  <2>6. row[n][i].status = "done"
    BY <1>1, <2>2, <2>4, <2>5 DEF Knows, OneOutcome, Terminal
  <2> QED
    BY <2>1, <2>6 DEF ReviewKept, Owned
<1>7. CASE ByAck(n, i) \/ ByConnect(n, i)
  <2>1. row'[n][i].at = row[n][i].at /\ row'[n][i].status = row[n][i].status
    BY <1>1, <1>7 DEF ByAck, ByConnect, Row
  <2> QED
    BY <1>2, <1>7, <2>1 DEF ByAck, ByConnect
<1>8. \/ /\ row'[n][i].at = row[n][i].at /\ row'[n][i].status = row[n][i].status
         /\ review'[n][i].of = review[n][i].of
      \/ ByQueue(n, i) \/ ByFinish(n, i) \/ ByPull(n, i) \/ ByPulledReview(n, i)
      \/ ByAck(n, i) \/ ByConnect(n, i)
  BY DEF RowStep, ByEdit, ByReviewAck, ByCost, SameReview
<1> QED
  BY <1>2, <1>3, <1>4, <1>5, <1>6, <1>7, <1>8

(* At the start there is no review.                                            *)
LEMMA InitReviews ==
  ASSUME Init, NEW n \in Machines, NEW i \in Jobs
  PROVE  ReviewKept(n, i)
<1>1. PICK p \in Plans : Init!(p)
  BY DEF Init
<1> DEFINE first == [t |-> 1, m |-> p.home[i]]
<1>2. \/ /\ row[n][i].at = first /\ row[n][i].status = "done"
         /\ review[n][i].of = first
      \/ row[n][i] = NoRow /\ review[n][i] = NoReview
  BY <1>1
<1> HIDE DEF first
<1> QED
  BY <1>2 DEF ReviewKept, NoRow, NoReview

(* A machine shows the review of the attempt it shows: no download, late or    *)
(* repeated, brings back the review of another attempt or leaves one behind    *)
(* (upsertPulledJob, upsertPulledReview, ReenqueueJob), for any machines, jobs *)
(* and failures, because an attempt ends once, on the machine that made it     *)
(* (Knows).                                                                    *)
THEOREM SyncReviews == Spec => []ReviewOfItsAttempt
<1> DEFINE Inv == Knows /\ \A n \in Machines, i \in Jobs : ReviewKept(n, i)
<1>1. Init => Inv
  BY InitKnows, InitReviews
<1>2. STypeOK /\ STypeOK' /\ Inv /\ [Next]_vars => Inv'
  <2>1. ASSUME STypeOK, STypeOK', Inv, Next
        PROVE  Inv'
    <3>1. Knows'
      BY <2>1, SyncKnows
    <3>2. \A n \in Machines, i \in Jobs : RowStep(n, i)
      BY <2>1, SyncSteps DEF Knows
    <3>3. \A n \in Machines, i \in Jobs : ReviewKept(n, i)'
      BY <2>1, <3>2, KeepsReviews
    <3> QED
      BY <3>1, <3>3
  <2>2. ASSUME Inv, UNCHANGED vars
        PROVE  Inv'
    <3>1. Knows'
      BY <2>2 DEF Knows, RowKept, BatchKept, OwnerAhead, OneOutcome, ActiveFresh, Told, RowTells,
                  PassTells, vars, local
    <3> QED
      BY <2>2, <3>1 DEF ReviewKept, Owned, vars, local
  <2> QED
    BY <2>1, <2>2
<1>3. Inv => ReviewOfItsAttempt
  BY DEF ReviewKept, ReviewOfItsAttempt
<1> QED
  BY <1>1, <1>2, <1>3, SyncTyped, PTL DEF Spec

-------------------------------------------------------------------------------
(* SyncedIsStored.                                                             *)

(* Older orders the attempts: it is transitive where it is used, and strict.   *)
LEMMA OlderOrder ==
  ASSUME NEW a \in Attempt, NEW b \in Attempt, NEW c \in Attempt
  PROVE  /\ ~Older(b, a) /\ ~Older(c, b) => ~Older(c, a)
         /\ Older(a, b) => ~Older(b, a) /\ a # b
         /\ ~Older(a, a)
<1>1. ASSUME NEW x \in Attempt
      PROVE  x.t \in Nat /\ x.m \in Nat
  <2>1. x.t \in 0 .. MaxTime /\ x.m \in Machines \cup {0}
    BY DEF Attempt
  <2>2. MaxTime \in Nat /\ \A m \in Machines : m \in Nat
    BY SyncAssumption
  <2> QED
    BY <2>1, <2>2
<1>2. a.t \in Nat /\ a.m \in Nat /\ b.t \in Nat /\ b.m \in Nat /\ c.t \in Nat /\ c.m \in Nat
  BY <1>1
<1>3. ~Older(b, a) /\ ~Older(c, b) => ~Older(c, a)
  BY <1>2 DEF Older
<1>4. Older(a, b) => ~Older(b, a) /\ a # b
  BY <1>2 DEF Older
<1>5. ~Older(a, a)
  BY <1>2 DEF Older
<1> QED
  BY <1>3, <1>4, <1>5

RowStored(n, i) ==
  linked[n] =>
    LET p == remote[i] r == row[n][i] v == review[n][i] IN
    /\ r.synced => /\ ~Older(p.at, r.at)
                   /\ Owned(n, i) /\ p.at = r.at => p.status = r.status /\ p.cost = r.cost
    /\ v.mark # "none" => v.of \in p.reviews

(* What a pass holds is in PostgreSQL, or something newer is.                  *)
PassStored(n, i) ==
  LET b == pass[n].batch p == remote[i] IN
  /\ pass[n].pc # "idle" => linked[n]
  /\ i \in DOMAIN b =>
       /\ pass[n].pc \in {"jobs", "job"} => ~Older(p.at, b[i].at)
       /\ pass[n].pc = "jobs" /\ p.at = b[i].at => p.status = b[i].status /\ p.cost = b[i].cost
       /\ pass[n].pc \in {"pushed", "review"} => b[i].of \in p.reviews

Stored ==
  \A n \in Machines, i \in Jobs : RowStored(n, i) /\ PassStored(n, i)

(* PostgreSQL only moves on, unless it is replaced.                            *)
LEMMA RemoteAhead ==
  ASSUME STypeOK, STypeOK', NEW i \in Jobs, NEW m \in Machines, PushStep(m, i), NEW a \in Attempt
  PROVE  /\ ~Older(remote[i].at, a) => ~Older(remote'[i].at, a)
         /\ remote[i].reviews \subseteq remote'[i].reviews
<1>1. remote[i].at \in Attempt /\ remote'[i].at \in Attempt
  BY RowsTyped DEF STypeOK, Remote
<1>2. ~Older(remote'[i].at, remote[i].at)
  BY <1>1, OlderOrder DEF PushStep
<1>3. remote[i].reviews \subseteq remote'[i].reviews
  BY DEF PushStep
<1> QED
  BY <1>1, <1>2, <1>3, OlderOrder

(* What a machine marked as synced is in PostgreSQL, or something newer is,    *)
(* after every step, ...                                                       *)
LEMMA KeepsStored ==
  ASSUME STypeOK, STypeOK', Knows, Stored, NEW n \in Machines, NEW i \in Jobs,
         RowStep(n, i), RemoteStep
  PROVE  RowStored(n, i)'
<1>1. /\ row[n][i] \in Row /\ row[n][i].at \in Attempt /\ review[n][i] \in Review
      /\ RowKept(n, i) /\ BatchKept(n) /\ NoReview.mark = "none"
  BY RowsTyped, NoReviewTyped DEF Knows
<1>2. SUFFICES ASSUME linked'[n]
               PROVE  RowStored(n, i)'
  BY DEF RowStored
<1>3. CASE ByConnect(n, i)
  <2>1. ~row'[n][i].synced /\ review'[n][i].mark = "none"
    BY <1>1, <1>3 DEF ByConnect, Row
  <2> QED
    BY <2>1 DEF RowStored
<1>4. CASE ~ByConnect(n, i)
  <2>1. linked[n] /\ RowStored(n, i) /\ PassStored(n, i)
    BY <1>2, <1>4 DEF RemoteStep, LinkStep, Replaced, Stored
  <2>2. ASSUME UNCHANGED <<row, review>>, NEW m \in Machines, PushStep(m, i)
        PROVE  RowStored(n, i)'
    <3> DEFINE p == remote[i] q == remote'[i] r == row[n][i]
    <3>1. /\ ~Older(p.at, r.at) => ~Older(q.at, r.at)
          /\ p.reviews \subseteq q.reviews
      BY <1>1, <2>2, RemoteAhead
    <3>2. ASSUME r.synced, Owned(n, i), q.at = r.at
          PROVE  q.status = r.status /\ q.cost = r.cost
      <4>1. i \notin JobsToSync(m) \/ row[m][i].at # r.at
        BY <3>2 DEF JobsToSync, Owned
      <4>2. q.at = p.at /\ q.status = p.status /\ q.cost = p.cost
        BY <2>2, <3>2, <4>1 DEF PushStep
      <4> QED
        BY <2>1, <3>2, <4>2 DEF RowStored
    <3> QED
      BY <2>1, <2>2, <3>1, <3>2 DEF RowStored, Owned
  <2>3. ASSUME remote' = remote
        PROVE  RowStored(n, i)'
    <3>1. CASE /\ row'[n][i] = row[n][i] \/ ~row'[n][i].synced
               /\ review'[n][i] = review[n][i] \/ review'[n][i].mark = "none"
      BY <2>1, <2>3, <3>1 DEF RowStored, Owned
    <3>2. CASE ByFinish(n, i)
      BY <1>1, <3>1, <3>2 DEF ByFinish, RowKept, SameReview
    <3>3. CASE ByAck(n, i)
      <4>1. /\ row'[n][i].at = row[n][i].at /\ row'[n][i].status = row[n][i].status
            /\ row'[n][i].cost = row[n][i].cost
        BY <1>1, <3>3 DEF ByAck, Row
      <4>2. /\ ~Older(remote[i].at, row[n][i].at)
            /\ remote[i].at = row[n][i].at =>
                 remote[i].status = row[n][i].status /\ remote[i].cost = row[n][i].cost
        BY <2>1, <3>3 DEF ByAck, PassStored
      <4>3. review'[n][i].mark # "none" => review'[n][i].of \in remote[i].reviews
        BY <2>1, <3>3 DEF ByAck, RowStored
      <4> QED
        BY <2>3, <4>1, <4>2, <4>3 DEF RowStored
    <3>4. CASE ByReviewAck(n, i)
      <4>1. review'[n][i].of \in remote[i].reviews /\ row'[n][i] = row[n][i]
        BY <2>1, <3>4 DEF ByReviewAck, PassStored
      <4> QED
        BY <2>1, <2>3, <4>1 DEF RowStored, Owned
    <3>5. CASE ByPull(n, i)
      <4>1. row'[n][i].at = pass[n].batch[i].at
        BY <3>5 DEF ByPull
      <4>2. row'[n][i].at.m # n /\ ~Older(remote[i].at, row'[n][i].at)
        BY <1>1, <2>1, <3>5, <4>1 DEF ByPull, BatchKept, PassStored
      <4>3. review'[n][i] = review[n][i] \/ review'[n][i].mark = "none"
        BY <1>1, <3>5 DEF ByPull, SameReview
      <4> QED
        BY <2>1, <2>3, <4>2, <4>3 DEF RowStored, Owned
    <3>6. CASE ByPulledReview(n, i)
      <4>1. row'[n][i] = row[n][i] /\ review'[n][i].of \in remote[i].reviews
        BY <2>1, <3>6 DEF ByPulledReview, PassStored
      <4> QED
        BY <2>1, <2>3, <4>1 DEF RowStored, Owned
    <3>7. CASE ByQueue(n, i) \/ ByCost(n, i) \/ ByEdit(n, i)
      BY <1>1, <3>1, <3>7 DEF ByQueue, ByCost, ByEdit, SameReview
    <3> QED
      BY <1>4, <3>1, <3>2, <3>3, <3>4, <3>5, <3>6, <3>7 DEF RowStep, SameReview
  <2>4. ~Replaced
    BY <1>2 DEF Replaced
  <2>5. remote' = remote \/ (UNCHANGED <<row, review>> /\ \E m \in Machines : PushStep(m, i))
    BY <2>4 DEF RemoteStep
  <2> QED
    BY <2>2, <2>3, <2>5
<1> QED
  BY <1>3, <1>4

(* ... and so is what it is about to mark.                                     *)
LEMMA KeepsPassStored ==
  ASSUME STypeOK, STypeOK', Knows, Stored, NEW n \in Machines, NEW i \in Jobs,
         PassStep(n), RemoteStep
  PROVE  PassStored(n, i)'
<1> DEFINE b == pass'[n].batch
<1>1. BatchKept(n) /\ PassStored(n, i)
  BY DEF Knows, Stored
<1>2. CASE pass'[n].pc = "idle"
  BY <1>2 DEF PassStored
<1>3. CASE pass'[n].pc # "idle"
  <2>1. ~Replaced
    BY <1>3 DEF Replaced, NoPass
  <2>2. linked'[n]
    BY <1>1, <1>3, <2>1 DEF PassStep, PassStored, RemoteStep, LinkStep
  <2>3. remote' = remote \/ \E m \in Machines : PushStep(m, i)
    BY <2>1 DEF RemoteStep
  <2>4. SUFFICES ASSUME i \in DOMAIN b
                 PROVE  PassStored(n, i)'
    BY <2>2 DEF PassStored
  <2>5. CASE pass'[n] = pass[n]
    <3>1. CASE remote' = remote
      BY <1>1, <2>2, <2>5, <3>1 DEF PassStored
    <3>2. ASSUME NEW m \in Machines, PushStep(m, i)
          PROVE  PassStored(n, i)'
      <4>1. pass[n].pc \in {"jobs", "job"} => ~Older(remote'[i].at, b[i].at)
        <5>1. ASSUME pass[n].pc \in {"jobs", "job"}
              PROVE  b[i].at \in Attempt
          <6>1. pass[n].batch[i] \in Row \/ pass[n].batch[i] \in Found
            BY <2>4, <2>5, <5>1, BatchTyped, HeldTyped
          <6> QED
            BY <2>5, <6>1 DEF Row, Found
        <5> QED
          BY <1>1, <2>4, <2>5, <3>2, <5>1, RemoteAhead DEF PassStored
      <4>2. ASSUME pass[n].pc = "jobs", remote'[i].at = b[i].at
            PROVE  remote'[i].status = b[i].status /\ remote'[i].cost = b[i].cost
        <5>1. b[i].at.m = n
          BY <1>1, <2>4, <2>5, <4>2 DEF BatchKept
        <5>2. /\ remote'[i].at = remote[i].at /\ remote'[i].status = remote[i].status
              /\ remote'[i].cost = remote[i].cost
          BY <3>2, <4>2, <5>1 DEF PushStep, JobsToSync, Owned
        <5> QED
          BY <1>1, <2>4, <2>5, <4>2, <5>2 DEF PassStored
      <4>3. pass[n].pc \in {"pushed", "review"} => b[i].of \in remote'[i].reviews
        BY <1>1, <2>4, <2>5, <3>2 DEF PassStored, PushStep
      <4> QED
        BY <2>2, <2>5, <4>1, <4>2, <4>3 DEF PassStored
    <3> QED
      BY <2>3, <3>1, <3>2
  <2>6. CASE /\ pass'[n].pc = "jobs" /\ b[i] = row[n][i]
             /\ ~Older(row[n][i].at, remote[i].at) =>
                  /\ remote'[i].at = row[n][i].at /\ remote'[i].status = row[n][i].status
                  /\ remote'[i].cost = row[n][i].cost
             /\ Older(row[n][i].at, remote[i].at) => remote'[i] = remote[i]
    <3>1. i \in Jobs /\ row[n][i].at \in Attempt /\ remote[i].at \in Attempt
      BY RowsTyped
    <3>2. CASE Older(row[n][i].at, remote[i].at)
      BY <2>2, <2>6, <3>1, <3>2, OlderOrder DEF PassStored
    <3>3. CASE ~Older(row[n][i].at, remote[i].at)
      BY <2>2, <2>6, <3>1, <3>3, OlderOrder DEF PassStored
    <3> QED
      BY <3>2, <3>3
  <2>7. CASE pass'[n].pc = "pushed" /\ b[i].of \in remote'[i].reviews
    BY <2>2, <2>7 DEF PassStored
  <2>8. CASE pass'[n].pc = "job" /\ remote' = remote /\ b[i].at = remote[i].at
    BY <2>2, <2>8, RowsTyped, OlderOrder DEF PassStored
  <2>9. CASE /\ pass'[n].pc = "review" /\ remote' = remote
             /\ SeesReview(n, remote[i]) /\ b[i].of = remote[i].at
    BY <2>2, <2>9 DEF PassStored, SeesReview, Reviewed
  <2>10. CASE pass'[n].pc \in {"push", "reviews", "pull", "stored"}
    BY <2>2, <2>10 DEF PassStored
  <2> QED
    BY <1>3, <2>4, <2>5, <2>6, <2>7, <2>8, <2>9, <2>10 DEF PassStep
<1> QED
  BY <1>2, <1>3

(* At the start nothing is marked.                                             *)
LEMMA InitStored ==
  ASSUME Init, NEW n \in Machines, NEW i \in Jobs
  PROVE  RowStored(n, i) /\ PassStored(n, i)
<1> USE SyncAssumption
<1>1. PICK p \in Plans : Init!(p)
  BY DEF Init
<1> DEFINE first == [t |-> 1, m |-> p.home[i]]
<1>2. \/ /\ i \in DOMAIN p.home
         /\ row[n][i] = [at |-> first, status |-> "done", cost |-> TRUE, synced |-> TRUE]
         /\ review[n][i].of = first
         /\ remote[i].at = first /\ remote[i].status = "done" /\ remote[i].cost = TRUE
         /\ remote[i].reviews = {first}
      \/ row[n][i] = NoRow /\ review[n][i] = NoReview
  BY <1>1
<1>3. pass[n].pc = "idle"
  BY <1>1 DEF NoPass
<1>4. i \in DOMAIN p.home => ~Older(first, first)
  <2>1. i \in DOMAIN p.home => first \in Attempt
    BY <1>1 DEF Plan, Attempt
  <2> QED
    BY <2>1, OlderOrder
<1> HIDE DEF first
<1>5. NoReview.mark = "none" /\ ~NoRow.synced
  BY DEF NoReview, NoRow
<1>6. PassStored(n, i)
  <2>1. linked[n]
    BY <1>1
  <2> QED
    BY <1>3, <2>1 DEF PassStored
<1>7. CASE row[n][i] = NoRow /\ review[n][i] = NoReview
  BY <1>5, <1>6, <1>7 DEF RowStored
<1>8. CASE row[n][i] # NoRow \/ review[n][i] # NoReview
  <2>1. /\ row[n][i].at = first /\ row[n][i].status = "done" /\ row[n][i].cost = TRUE
        /\ ~Older(first, first)
    BY <1>2, <1>4, <1>8
  <2> QED
    BY <1>2, <1>6, <1>8, <2>1 DEF RowStored
<1> QED
  BY <1>7, <1>8

(* What a machine takes to be synced is in PostgreSQL, or something newer is   *)
(* (MarkJobsSynced, MarkReviewsSynced, connect): what a pass holds was stored  *)
(* (PassStored), and an acknowledgment covers no more than that.               *)
THEOREM SyncStored == Spec => []SyncedIsStored
<1> DEFINE Inv == Knows /\ Stored
<1>1. Init => Inv
  BY InitKnows, InitStored DEF Stored
<1>2. STypeOK /\ STypeOK' /\ Inv /\ [Next]_vars => Inv'
  <2>1. ASSUME STypeOK, STypeOK', Inv, Next
        PROVE  Inv'
    <3>1. Knows'
      BY <2>1, SyncKnows
    <3>2. /\ \A n \in Machines, i \in Jobs : RowStep(n, i)
          /\ RemoteStep
          /\ \A n \in Machines : PassStep(n)
      BY <2>1, SyncSteps DEF Knows
    <3>3. \A n \in Machines, i \in Jobs : RowStored(n, i)' /\ PassStored(n, i)'
      BY <2>1, <3>2, KeepsStored, KeepsPassStored
    <3> QED
      BY <3>1, <3>3 DEF Stored
  <2>2. ASSUME Inv, UNCHANGED vars
        PROVE  Inv'
    <3>1. Knows'
      BY <2>2 DEF Knows, RowKept, BatchKept, OwnerAhead, OneOutcome, ActiveFresh, Told, RowTells,
                  PassTells, vars, local
    <3> QED
      BY <2>2, <3>1 DEF Stored, RowStored, PassStored, Owned, vars, local, world
  <2> QED
    BY <2>1, <2>2
<1>3. STypeOK /\ Inv => SyncedIsStored
  BY DEF Stored, RowStored, SyncedIsStored, Reviewed
<1> QED
  BY <1>1, <1>2, <1>3, SyncTyped, PTL DEF Spec

===============================================================================

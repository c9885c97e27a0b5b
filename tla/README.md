# roborev in TLA+

`roborev` reviews commits with coding agents. A daemon keeps a queue of review
jobs in SQLite (or replicates it through PostgreSQL), a pool of workers claims
jobs and runs one agent process per job, and everything else (the command
line, the web UI, CI, panels of several reviewers, updates of the daemon itself)
acts on the same job rows while the workers do. This directory holds TLA+
models of that core, the TLC configurations that check them, and TLAPS proofs.

Paths in this file are relative to the repository, which the models name
`src/`; `PROJECT.json` maps every definition to the lines it translates.

## Inventory

| Component | State | Operations | What makes it hard |
|---|---|---|---|
| Job table, `internal/storage/jobs.go` | one row per job: status, worker id, start and enqueue stamps, retry count, backoff, claim block, session; the review | guarded `UPDATE`s: claim, retry, failover, requeue, complete, fail, cancel, release, rerun, reset, pulled replacement | every guard is only a `WHERE` clause; callers read before and write after |
| Worker pool, `internal/daemon/worker.go` | `workerJobs`, `runningJobs`, `pendingCancels`, `updateInterruptTargets`, `failedUpdateRequeues` | claim loop, attempt, transition, clean-up, cancel | a row is requeued before its worker has cleaned up |
| Attempt registry and lock, `internal/storage/job_attempts.go` | `attempts.active`, a reader/writer lock whose writers can give up | `StartJobAttempt`, `RunJobAttempt`, release | one shared wake-up channel, abandoned waits |
| Cancel and rerun endpoints, `internal/daemon/server.go` | the request in flight | row first, then the pool's memory | the lookup happens after the commit |
| Orphan sweep, `internal/daemon/panel_sweep.go` | the attempt being looked at | list, ask the pool, load, fail | all four see different moments |
| Sync pull, `internal/storage/sync.go`, `sync_pull.go` | cursors, pull session | replaces a row by another machine's newer attempt | a local agent may still run for the row |
| Panels, `jobs.go`, `synthesis_worker.go`, `panel_cancel.go`, `rerun_panel.go` | members and a claim-blocked synthesis | release, cascade, expiry, rerun | the release is derived from rows many actors end |
| Update drain, `internal/daemon/update_drain.go` | lease, interrupt marks, `shutdown_draining` | prepare, renew, release, expire, recover, shutdown | a lease outlives its owner; each step can fail |
| CI poller, `internal/daemon/ci_poller.go`, `internal/storage/ci_panels.go`, `review_attempts.go` | panel mappings with posting and skip leases, attempts per head commit | poll, post, retire, defer, rearm, skip, rerun | posting is outside the database; two posters and the endpoints act at once |
| Post-commit batches, `cmd/roborev/postcommit.go`, `postcommit_batch.go`, `internal/daemon/postcommit_scheduler.go` | `post-commit-batches.json` under a file lock, quiet timers in the daemon | hooks of commits and pushes, quiet flush | branches are rewritten, renamed and deleted under recorded ranges; hooks are killed |
| Sync worker, `internal/storage/syncworker.go`, `sync.go`, `postgres.go` | `synced_at` of rows and reviews, pull cursors, the rows in PostgreSQL | connect, push, acknowledge, pull | no transaction spans two databases; rows arrive twice and late, and users act on every machine |
| Broadcaster, hooks, goal gate, budget, search index, agent hook, browser sessions, maintenance | mostly in memory | | see "Not modelled" |

Correct means: one agent per job at a time, one per resumed session; a canceled
job stays canceled until somebody reruns it and its agent is told to stop; an
outcome is stored only by the attempt it belongs to; every job, panel and drain
eventually ends; a panel's synthesis is made of final results; an update never
charges a job for being interrupted; a pull request gets one comment per run and
every head is reviewed, skipped or given up; a commit that was recorded for a
batch is reviewed in the end; machines that share jobs come to show the same.

## Modules

| Module | Models | Builds on |
|---|---|---|
| `ReviewJobs` | the rows: a guard operator per `WHERE` clause, a row operator per `SET` list | |
| `JobLifecycle` | abstract: what the queue promises to its clients | |
| `WorkerPool` | workers, attempt registry, cancel, rerun, sweep, pull, crash | `ReviewJobs`; refines `JobLifecycle` |
| `UpdateDrain` | the update lease and the update command | `WorkerPool` |
| `PanelRun` | panel members, synthesis, cascade, expiry, sweep, rerun | `ReviewJobs` |
| `RWLock` | abstract: a reader/writer lock | |
| `AttemptLock` | `attemptLock` with its counters and wake-up channel | refines `RWLock` |
| `CIPosting` | the CI poller's pass over one pull request, its posters, leases and attempts | |
| `PostCommit` | commit and push hooks, the batch file, the quiet timers | |
| `Sync` | several machines' databases, their sync passes, PostgreSQL | |
| `ReviewJobs_proofs`, `WorkerPool_proofs`, `UpdateDrain_proofs`, `PanelRun_proofs`, `AttemptLock_proofs`, `CIPosting_proofs`, `PostCommit_proofs`, `Sync_proofs` | theorems | the module they are named after; `UpdateDrain_proofs` and `PanelRun_proofs` also use what is proved of the rows and the pool |
| `MCWorkerPool`, `MCUpdateDrain`, `MCPanelRun`, `MCAttemptLock`, `MCCIPosting`, `MCPostCommit`, `MCSync` | instances for TLC | |

Operators whose name ends in `_Something` and whose comment begins with "Slip:"
are not part of any specification. Each is the definition after it with a
plausible mistake; replacing the one by the other must break the property
`PROJECT.json` names, which shows that the property depends on that line of code.

### ReviewJobs

SQLite runs one writer at a time and each operator is one statement or one
transaction, so a row operator is applied in one step. Timestamps are numbers
from a clock (`clock`) that hands out each one once: `started` and `enq` are
compared only for equality and order. `review` is the start stamp of the
attempt that wrote the review, so that a property can say whose review it is.
`deferred` says that `retry_not_before` is in the future. The `session_id` a
running agent captures for later reuse is not modelled, only the one a job was
asked to resume.

### WorkerPool

A worker walks through `idle, claiming, claimed, started, run, check, act,
finish, release, free, leave`. The boundaries are the places where the code lets
go of a lock or ends a transaction: between any two of them all other actors may
run.

- `BeginClaim`/`ClaimJob`/`ClaimNothing` are the loop of `worker`; `claiming` is
  the entry `workerClaimingJobID` the orphan sweep respects.
- `StartAttempt`, `StartDisplaced`, `StartTimesOut` are `StartJobAttempt`. The
  wait for the previous attempt is the guard `PreviousGone`.
- `Register` is `registerRunningJob`; `AttemptEnds` is everything the agent may
  do until it has ended.
- `check` to `act` is `runAttemptTransition`. It read-holds
  `attemptTransitionsMu` and the attempts lock until the transition is over, so
  reruns, pulls, starts and an interrupting update wait (`NoTransition`), while
  a cancel, which takes neither lock, may land in between. The retry, failover
  and failure of one transition are one step (`OutcomeRows`): each is guarded by
  `status = running` and the worker id, and only a cancel can change those
  meanwhile, after which all three guards fail.
- `FinishRunning`, `ReleaseClaim`, `FreeAttempt`, `LeaveJob` are the deferred
  calls of `processJob` and the end of the claim loop, in the code's order.
- `CancelRow` is the cancel endpoint's transaction. `CancelRegistered`,
  `CancelUnregistered`, `CancelRereads`, `CancelPending` are `cancelJob`, with
  the row read again around each look at `runningJobs`. Either reading may fail
  (`CancelReadFails`): after the first `runningJobs` is looked at once more, and
  whoever is not there by then is never told, since nothing is marked; the second
  ends the call at once. `NoLostCancel` excuses exactly an attempt whose latest
  request met such a failure.
- `SweepList` ... `SweepSpare` are `sweepOrphanedJobs` and `failOrphanedJob`.
- `Pull` is the replacement by a newer attempt of another machine. Only a job
  that was shared before, being terminal once or rerun, has such attempts.
- `Restart` is a crash at any moment followed by the start of a new daemon:
  memory is lost, `ResetStaleJobs` runs and `shutdown_draining` is cleared.

`processJob` asks `handleUpdateInterruption` once more before some of its
transitions; the call is repeated by the transition itself and is merged with it.
`InterruptedStep`, the two ways a transition ends for an attempt that an update
has marked, is defined here and takes part in `UpdateDrain`, which sets the marks.
Rebuttal jobs' extra claim condition, the resizing of the pool, classification,
goal and budget decisions before the agent starts and events are left out.

### UpdateDrain

Adds the lease, `activeWorkers`, the update command and the shutdown drain to the
pool, whose actions it reuses. `prepare` is one step because
`shutdownDrainMu` and, for an interrupting update, `attemptTransitionsMu` are
held throughout. `releaseExpiredLocked` is a sequence of steps since workers and
the database go on under it; `releasing` is the line it has reached. A failure
of `prepare` that is rolled back, a refusal, and an `abort` policy that meets
running jobs leave the state as it was and are no step. A `prepare` that meets an
expired lease first releases it: here that is `TimerFires` and a later call.

### PanelRun

Rows of a run are `r * Width + position`, the synthesis last; enqueue stamps are
equal within a run, as in one transaction. What `WorkerPool` checks about one
attempt is not repeated: an attempt here is `run`, then the transition, then the
call of `releaseIfPanelMember` (`gate`), then the release of the claim. Agents
may end at any moment, so that it does not matter whether one was told to. A
failover is not told from a retry. `IsFirst` is the order in which members are
listed. The sweep's own call of the release after it has failed an orphan is
left to `SweepStuck`, which does the same on a later tick.

### AttemptLock

One action per stretch of code under the lock's own mutex. `asleep` are the
goroutines whose copy of the shared channel is still open; `wakeLocked` closes
it for all of them.

### CIPosting

One pull request of one repository. `pr` is the request at the forge, `panel` the
rows of `ci_pr_panels` joined with what became of their synthesis job, `att` the
rows of `ci_pr_review_attempts`, one per head. Three kinds of actors touch them:

- two *posters*, the event listener (`Hear`) and the poll loop (`PostEnded`), each
  of which walks `postPanelRun`: claim the lease (`StartPost`), check that the
  request is still open at this head (`GuardTarget`, `RetireMoved`, `DropPanel`),
  see to it that the head has an attempt (`Backfill`; `Unreadable` is a reading that
  fails), decide on what is read of it (`Finalize`), comment (`Comment`), record
  (`Finish`), and deliver the commit status (`ClaimStatus`, `Deliver`), or write the
  deferral that was decided on (`Defer`) and retire (`RetireDeferred`). Every boundary
  is a call to the forge or the end of a transaction, where all others may run;
- the *poll loop*, in the order of `pollRepo` and `reconcile...`: clean up
  (`Clean`, `Sweep...`, `Forget`), check the head, filter it (`ClaimSkip`, `Skip`,
  `Skipped`, `Rest`, `QuietHours`, `Throttle`), enqueue (`EnqueueNew`, `Fetch`,
  `Create`), rearm stuck attempts, retry due ones, post ended runs, look at heads
  that were given up, and send statuses;
- the *endpoints*: `Cancel` with `CancelRetires`, and `Rerun`.

`LeaseAges` makes a lease stale: of a holder that is gone, or, as an upset, of one
that is only slow. `Fails` is a failing call or write, and counts as an upset like
a restart, a move of the request, a rerun and a lost announcement. `comments` and
`excuses` are history: what was posted, and how often the code's own rules (a lease
taken over, an answer lost, a record that failed) allow a second post.

Left out: upserts of an existing comment, the check that a repository is still the
same, pending commit statuses and the contents of a status, the health bookkeeping
in memory, experiments, several requests in one query, failing writes inside a
sweep, the row id of an attempt, a cancel announcement that is lost.

Seen while modelling, and part of the model: a poster whose lease went stale, or
whose row was retired under it, still runs `finalizePanelRun`, since neither
`DeferReviewAttempt` nor `ensureReviewAttempt` asks who owns the row, and
`releasePanelClaim` frees a lease whoever holds it; two posters, one of them with a
stale lease, decide on one reading of the streak and both count it, so that a head is
given up a failing run earlier than the limit says (`retry.go:48-50`), and a deferral
that comes late falls on the attempt of a newer run or on one that is done; a daemon
that dies between `DeferReviewAttempt` and `MarkPanelRetired` counts the same run a
second time; a
daemon that dies between the cancel of a synthesis and the retirement of its row
leaves an attempt pending that `attemptStuck` takes for one in flight, until the
request moves or closes (`Abandoned`).

### PostCommit

`chain` is the history as a tree of first parents, `ref` the branches, `saved` the
state file, with `ckpt` the last commit that was dealt with and `tip` the newest
one recorded. A hook waits for the file lock, plans under it (`PlanOfCommit`,
`PlanOfPush`, `PlanOfFlush`, after `Resolved` has let ranges follow their commits
to the branch that holds them now), and, still holding it, schedules a quiet flush
or enqueues a review (`Enqueue`) and moves the checkpoint (`Advance`). A push of
any set of branches and tags (`Push`) reads the recorded ranges without the lock: of
each entry whose range goes along (`Carriers`) it takes the farthest commit of it
(`Furthest`), and flushes them one by one (`NextFlush`), those of pushed branches first.
`Schedule`, `Fire` and `PlanOfFlush` are the daemon's side. `seen`, `reviewed`,
`pushed` and `asked` are history, as is `due` of a push: what it is held to.

The user's commands that rewrite or rename (`Amend`, `Reset`, `Rename`, `Delete`)
wait for the hooks the user's own terminal is running, which are in the foreground;
commits, switches and new branches overlap with a push, and the daemon flushes at any
time.

Left out: second parents of merges, a detached head, a state file that cannot be
read, commits git has pruned, branch review mode, the guard for a rebase in
progress, linked worktrees, a configuration that changes between the request of a
flush and its handling.

What a step may give up is part of the model, as narrowly as the code allows, and
`NothingForgotten` speaks of all the rest (`SeenIf`: a commit leaves `seen` only in
such a step, and only if the step has left it in no entry):

- a rewrite, a reset or a deleted branch gives up the range of an entry whose tip no
  branch holds any more, except what the entry's own branch still has (`Kept`);
- `Strays`: a range whose branch was rewritten is handed over to the first branch that
  holds its tip. It is cut short if that branch has an entry and one of the two
  checkpoints is not on it, and lost if no branch has the tip, not even its own;
- `Overlaps`: a plan for a head that is an ancestor of the entry's tip, which the branch
  no longer holds, sets the tip back; and so may the adoption of another range
  (`Loses`);
- an entry that is cleared because batches were switched off, up to a head its tip is
  not an ancestor of.

A push is held to what intact entries (`Intact`) had recorded on the pushed chains when
it began, however many commits, switches and quiet flushes run between its reading and
its flushes (`PushedReviewed`). These ways out are left, each a step of the code:

- a hook that failed, was killed or got no lock (`mishaps`);
- `Torn`: an entry of which the push carries two commits that are not on one chain, as
  with a branch and a tag on what it was before a rewrite. The flushes of a
  branch are merged into the one of the longest range (`postcommit_batch.go:684-715`);
- `TakenOver`: another hook's plan adopts the range of an entry, or hands it over, between
  the reading and the flush by the old name, which finds nothing;
- `Awaited`: batches are turned off, and a commit hook clears the entry in that time;
- a branch name that is used again during the push (`Branch`): the flush finds the
  new branch instead of the range of the old one.

Seen while modelling: all of these but the first break "pushed commits must never
leave the machine unreviewed" (`postcommit.go:338`); what was recorded stays pending or
was enqueued by someone else, as `NothingForgotten` says.

A commit hook asks git for the branch and the head after it has the lock: a checkout in between makes it plan for the other branch, and what was recorded
there beyond its head is set back. `handOffPostCommitRange` replaces its receiver's
checkpoint without a comparison when it is off the receiver's chain, although its
comment says "widened only if it extends the pending distance"
(`postcommit_batch.go:415`). A flush of a timer that was replaced meanwhile still
resolves and saves the state.

### Sync

Every machine has `row` and `review`, PostgreSQL has `remote`. A job's attempts are
ordered by enqueue time and then by machine (`Older`), which is how both databases
compare them; a clock may be behind, so a rerun need not make the newest attempt. A
machine writes one review per attempt that is done, hence the attempt stands for the
review's UUID. A review's `mark` is its `synced_at`, as far as it is compared with the
job's. A sync pass is a walk through `idle, jobs, reviews, pushed, push, pull, job,
stored, review`; each boundary is a call to PostgreSQL or the end of a local
transaction, and what the pass holds between two of them (`batch`) may be out of date
when it is used. Uploads go in batches of `plan.limit` rows, the first ones by local id
after the pass's cursor (`FirstOf`, `After`); a full batch is followed by another one, a
round of jobs by its reviews, and rounds by rounds until one sends nothing. The cursors
begin anew with every pass:

- `PushJobs`, `MarkJobsSynced`: ended attempts that changed since their last
  acknowledgment are uploaded unless a newer one is stored, and acknowledged where the
  row still is what was uploaded (`StillUploaded`);
- `PushReviews`: edits of this machine and reviews whose job was acknowledged later. A
  review that is no edit is sent as `MetadataOnly` and leaves what is stored alone. A
  review whose attempt was replaced waits for the new attempt's review
  (`errReviewAttemptPending`): its batch fails, although what else it holds is stored,
  and the pass ends without a later batch and without a download;
- `MarkReviewsSynced`: reviews that are still what was uploaded are acknowledged;
- `PullJobs`, `StorePulledJobs`: newer attempts replace rows and retire their reviews, unless an edit waits that could be
  of the new attempt's review (`Held`);
- `PullReviews`, `StorePulledReviews`: reviews of the attempt that is here, unless an
  edit waits; a review of an attempt that is not here yet ends the pass. A
  version whose time is not later than that of the one here is dropped (`Dropped`): a
  machine with a clock that is ahead (`plan.fast`) may drop any version in favour of one
  it wrote itself.

The cursors of downloads are not modelled as timestamps. They promise that what was
written after the last read is read again (`unseen`), and the lookback that anything else may be:
`Readable` allows every set in between. `DatabaseReplaced` and `Connect` are a
database with another id, after which nothing counts as synced.

Left out: comments, their batches and the rounds they cause, experiments, repositories
and commits, the conversion of legacy reviews, the repair of associations that older
versions lost (so that a review never changes its attempt), retention of prompts, and
statuses after `done`. `failed` stands for every end without a review. A failing upload of
jobs ends the pass, while the code goes on to reviews and ends it after them. The effect of
a pulled attempt on an agent at work is `Pull` in `WorkerPool`.

Seen while modelling: two machines can wait for each other for ever. Each holds an edit
that awaits the other's review; its first batch has the edit, the review the other awaits
comes after it, and every pass starts with the same batch, which fails (`CutShort`).
TLC finds this in the instance `Jammed` when `Converges` is stated without its condition,
and the instance `Skewed` refutes agreement when the machine whose clock is ahead is not
excused.

## Runs

All runs take TLC less than five minutes with two workers. Deadlock is not
checked in the state machines with bounded clocks, since they stop when the
bound is reached and an idle daemon waits for ever; it is checked in `lock`, `ci`
and `sync`; in `commits` the user may stop, as people do.

| Run | Instance | Question |
|---|---|---|
| `faults` | 1 job, 2 workers, 1 canceler, 1 rerun, 1 pull, 1 retry, failing reads and writes; 2.03M states | `OneAgentPerJob`, `NoLostCancel`, `ReviewOfThisAttempt`, `EndedByItsWorker`, `CanceledUntilRerun`, `RerunAfterUnwind`, and `Lifecycle`, the refinement of `JobLifecycle` |
| `live` | 1 job, 2 workers, 1 retry, 1 failover, 1 crash, failing writes; 193k | `JobsSettle` |
| `stale` | 1 job, 1 worker, 1 canceler, 1 rerun | finding: `CanceledInDatabase` |
| `drain` | 1 job, 1 worker, 1 update, 1 canceler, 1 rerun, 1 retry, failing writes; 5.2M | `MarksBehindGate`, `DrainedStaysDrained`, `InterruptIsFree` |
| `drain_live` | 1 job, 1 worker, 1 update, 1 crash or shutdown, failing writes; 49k | `GateReopens` |
| `panel` | 2 members, 2 workers, 1 retry, expiry, 1 crash, failing writes; 341k | `SynthesisAfterMembers`, `PanelSettles` |
| `panel_races` | 3 runs of 2 members of which 1 does not vote, 1 worker, 2 cancelers, 2 rerun requests; 863k | `CanceledPanelIsOver`, `CancelTakesEffect`, `OneSuccessor`, `RerunAfterUnwind` |
| `panel_expiry` | 2 members, 1 worker, 1 retry, expiry | finding: `ExpirySparesQueued` |
| `lock` | 3 goroutines | `NoLostWakeup`, `IsRWLock`, the refinement of `RWLock`, `WaitersServed`, `WritersNotStarved` |
| `ci` | 2 heads, 2 runs, 1 upset; 708k | `OneComment`, `DecidedOnce`, `SkipDecisionStands`, `AttemptOutlivesOldRun`, `GenuineBudget`, `ReviewsSettle` |
| `commits` | 3 commits after the first, 2 branches, batches of 3, 2 moves, 1 mishap; 393k | `NothingForgotten`, `PushedReviewed`, `FlushedWhenQuiet` |
| `sync` | 2 machines, 1 or 2 jobs, batches of 1 or 2, up to 4 deeds of users and 1 failure; 1.32M | `ReviewOfItsAttempt`, `SyncedIsStored`, `Converges`, `EditsArrive` |

### Bounds

`MaxClock` caps stamps, hence enqueues, claims, reruns and pulls together. In
`faults` four stamps allow an enqueue, a claim, a rerun or pull or retry, and a
claim after it: the second claim is what the hazards need, since they are about
two attempts of one row. One job suffices there because workers meet only in the
row and the memory of one job, and in the session they resume: that part,
`OneAgentPerSession`, is proved and has no run. In
`live` six stamps allow the enqueue and every claim that one retry, one
failover, the retry after it and one crash make possible, so that the bound
never is what ends a behavior. `MaxRetries` is 3 in the code; the guard is the
same for 1. A pool has four workers by default; two can overlap on a job, a
third waits like the second. `drain` is explored with the queue unpaused (state
constraint), and so is `drain_live`, which only removes behaviors with a paused queue. In `panel_races` the members
of a replacing run stay queued (state constraint): what is asked is which
replacements come about. In `ci` two heads and two runs let a request move, be
rerun or be retried once, and one upset comes at any point of either; in
`commits` three commits fill one batch or are split by a flush and a move. In `sync`
the instances of `Plans` each say what users do, once and at any moment: both machines
rerun one job and edit its review, with enqueue times 1 and 2 so that attempts tie and
order by machine; a new job is enqueued, priced late, rerun and edited elsewhere; and
two machines rerun one job each and edit the other's, the smallest case in which they
can wait for each other. `Jammed` is the same with batches of one row, each of which is
the edit that waits (one row stands for the 25 of the code: what matters is
that something comes after a full batch), `OneByOne` has such batches and one edit that
waits, `Skewed` a clock that is ahead. One failure comes at any step of any pass.
`faults` has no restarts: that a canceled job stays canceled over a crash is what
`CanceledStays` proves, and crashes are run in `live`. Model values of workers
are symmetric in the safety runs, and liveness runs use no symmetry.

### Fairness

Workers poll with a ticker, agents end by the job's timeout, a request that was
accepted runs to its end, and the sweep has a ticker of its own: weak fairness.
An idle worker is inside a claim for milliseconds every two seconds, and the
sweep looks again every minute, so it does not meet each of its looks in
such a moment for ever: strong fairness for the sweep's steps at moments when
the row's worker disowns it. `JobsSettle` is conditional on the queue not
staying paused. In `UpdateDrain` a lease is only sure to expire when nobody
renews it, an interrupting update gives up after thirty seconds, and a write that
is tried again and again succeeds in the end (strong fairness). No client is
assumed to act, and nobody to crash. In `CIPosting` the poll loop has a ticker, a
poster that has begun goes on, the listener reads its channel, agents end, an
abandoned lease gets old and a delay runs out (weak fairness each). In `PostCommit`
a hook that has begun runs on and a timer fires (weak fairness). In `Sync` the
worker's ticker goes on on every machine (`doSync` after every interval, whatever the
last pass came to) and agents end; users need do nothing, and failures stop (weak
fairness of each machine's pass, which has one enabled step at a time).

## Findings

- `stale`: `cancelJob` looks a job up by id after the row was canceled. When the
  job is rerun, claimed and registered before the lookup, the request cancels the
  new attempt; `processJob` drops it as "already marked as canceled in DB", and
  the row stays running until the sweep fails it.
- `panel_expiry`: the expiry pass promises to spare queued members, but cancels
  from a list; a member that returned to the queue meanwhile is canceled and
  tagged as timed out.

Differences without a run: `cancelJob` "returns false only if the job doesn't exist or
isn't in a cancellable state" (`worker.go:333-336`), but also does so when the row cannot
be read, and then the agent of a canceled row runs on until it ends by itself; the row of
a canceled job is released by its worker only,
so that a worker that has left, or whose write fails, leaves a row of which every
rerun says "canceled job is still stopping" until the daemon restarts;
`MaybeReleasePanelSynthesis` says that a synthesis
"always runs and lands a durable review" when every member failed, while
`processSynthesisJob` then fails the synthesis without one. A review that was stored
in PostgreSQL but not acknowledged, because the acknowledgment failed or another
review of its batch had to wait, is uploaded again in full, and the statement has no
guard by version: an edit that another machine made of the same review meanwhile is
overwritten (`reviewsToSyncQuery` means to prevent this for what is "already-synced",
`sync.go:780`). `EditsArrive` therefore speaks of histories in which every stored
review was acknowledged at once (`calm`). An edit by a machine whose clock is ahead of
PostgreSQL's hides a peer's later edit from that machine (`upsertPulledReview` compares
the two times), and batches that are cut short by a review that waits can keep two
machines apart for ever; `Converges` excuses these two and nothing else. A push and
another hook may leave pushed commits to a later review (see `PostCommit` above), and two
posters may count one failing run twice (see `CIPosting`).

## Proofs

TLAPS checks the theorems of eight modules, for every value of the constants. The
only assumptions are those the modules state: `ConstAssumption` and
`PoolAssumption` (job ids are naturals, the null values are no workers, jobs or
sessions, the bounds are naturals), for the lock, that the set of goroutines
is finite, `SyncAssumption` (machines are positive naturals, the plans are plans),
`CIAssumption` (there is a head, the null head is none, the limits are naturals, and the
retry budget is not zero) and `PostCommitAssumption` (branch names are finitely many positive naturals,
the bounds are naturals). In particular the theorems about the pool hold for any number
of jobs, workers, cancel requests and reruns, those about batches for any number of
commits, branches and mishaps, and whatever the bounds are, which only ever remove
steps. Every inductive invariant was first checked by TLC on a small instance.

**`WorkerPool_proofs`.** `OneAgentPerJob` is not inductive: it speaks of workers
that are at work for a job, and says nothing of why a worker that is about to
start is alone. The reason is the attempt registry, so the invariant `PoolInv` says
where in its life a worker is registered:

- `HasJob`: a worker that is neither idle nor polling knows its job;
- `Registered`: the attempt in `attempts.active` is of a worker that is on this
  very job and neither about to start nor about to leave;
- `Holds`: a worker that has started, runs its agent, unregisters its cancel
  function or frees its attempt is the registered one;
- `HandlerHeld`: a cancel function in `runningJobs` belongs to the registered
  attempt, from `registerRunningJob` until `finishRunningJob`;
- `TypeOK`, without which no step of arithmetic or records can be made.

A transition may find its worker registered or not (an attempt whose start timed
out is failed too), which is why `check`, `act` and `release` are not in `Holds`,
and why the steps out of them read the registry. `Holds` gives `OneAgentPerJob`
because a job has one registration, `HandlerHeld` gives `HandlerIsAttempt`:
unregistering before freeing, the order of the deferred calls in `processJob`, is
what keeps it. `RerunAfterUnwind` follows from `Holds` and the lemma
`OnlyRerunRequeues`, that among all steps only a rerun, which demands a free
registry, moves a row from a terminal status to the queue.

| Theorem | Says |
|---|---|
| `PoolInvariant` | `Spec => []PoolInv` |
| `PoolTyped` | `Spec => []TypeOK`, the retry count within its limit included |
| `PoolOneAgent` | `Spec => []OneAgentPerJob` |
| `PoolHandlers` | `Spec => []HandlerIsAttempt` |
| `PoolRerunWaits` | `Spec => RerunAfterUnwind` |

**`ReviewJobs_proofs`** holds what the row operators do to a row (lemmas only).

The second half of the module is about rows, which promise more than the registry
does: the invariant `RowInv` adds to `PoolInv`

- `ActCurrent`: a worker in the middle of a transition is the registered one;
- `RowsOK`: a row's type, its stamps, and which fields go with which status;
- `Stamps`: an attempt that a worker is engaged in began in the past;
- `AnswerHeld`: a worker that has an answer to store is the registered one;
- `OneHolder`: a session has one row that holds it;
- `Requested`: a rerun request names a row that exists.

Its proof does not go through the actions for every part of it. `RowStep` says what
any step may do to one row (inserted, claimed, requeued, ended by its worker,
canceled, released, rerun, pulled, swept, reset), `WkStep` what it may do to one
worker, and each part follows from those. The same case distinction gives the
action properties and the refinement: every kind of row step is an operation of
`JobLifecycle`. `NoLostCancel` is strengthened to `Delivered`, which also covers the attempt that is
not registered for cancellation yet: it is told, marked, still to be dealt with by a
request for this very attempt, or the reading of a request failed. `Heard` says that a
running agent has its cancel function registered.

| Theorem | Says |
|---|---|
| `RowInvariant` | `Spec => []RowInv` |
| `RowsHoldTheirReview` | `Spec => []ReviewOfThisAttempt` |
| `OneSessionEach` | `Spec => []OneAgentPerSession` |
| `EndsByItsWorker` | `Spec => EndedByItsWorker` |
| `CanceledStays` | `Spec => CanceledUntilRerun` |
| `PoolIsALifecycle` | `Spec => Lifecycle`: the pool implements `JobLifecycle` |
| `CancelsArrive` | `Spec => []NoLostCancel` |

**`UpdateDrain_proofs`.** The pool's invariant under the next-state relation of the
update drain: an update marks, interrupts and requeues, a shutdown closes the
gate, but no step of either touches the registry, so each is a step of the pool,
one that leaves the pool alone, or one that leaves every worker where it is
(`Undisturbed`). `MarksBehindGate` is inductive with the lease's types (`GateInv`):
marks are set after the gate is closed and cleared before it opens.

What a drained daemon promises the updater, `DrainedStaysDrained`, holds of what a
command has *seen*, and only together with why nothing can start running afterwards.
`DrainInv` says so:

- `Claims`: a worker that has claimed and not yet passed its transition owns its row,
  which is running or canceled;
- `ActSpared`: the transition of a marked attempt has nothing but a canceled row before
  it, since `InterruptedStep` took the others;
- `AllCounted`, `Tokens`: who is engaged is in `activeWorkers`, and no lease has a token
  that is still to be given;
- `Covers`: a lease closes the gate, and as long as it is held every running job is
  one it has marked or found;
- `SeenQuiet`: a command that has seen the daemon drained, under the lease it holds,
  finds no running job, and after an interrupt no worker at work for more than a
  canceled row.

The proof corrected the property: a worker that has freed its attempt and not yet left
may see its job rerun, and the row is in the queue by then, so `leave` is left out of
`DrainedStaysDrained`, and its run has a rerun now. `InterruptIsFree` follows from
`ActSpared` and from what a step may do to one row (`DRowStep`).

| Theorem | Says |
|---|---|
| `DrainKeepsPool` | `DSpec => []PoolInv` |
| `DrainOneAgent` | `DSpec => []OneAgentPerJob` |
| `DrainLeaseTyped`, `DrainTyped` | `DSpec => []LeaseTyped`, `DSpec => []DTypeOK` |
| `DrainGate`, `DrainMarks` | `DSpec => []GateInv`, `DSpec => []MarksBehindGate` |
| `DrainInvariant`, `DrainStays` | `DSpec => []DrainInv`, `DSpec => []DrainedStaysDrained` |
| `DrainInterruptsFree` | `DSpec => InterruptIsFree` |

**`PanelRun_proofs`.** Again `RowStep` lists what may happen to one row (`ByInsert`,
`ByClaim`, ..., `ByRestart`), `WorkerMove` and `CancelMove` what may happen to a
worker and to a request. `PanelInv` has the types and who is busy with what;
`GateInv` says that a running row has a start and a done one a review (`RowGood`),
that a synthesis that can be claimed or runs has only ended voting members
(`GateGood`), and that what it has read was done (`InputsGood`). A canceled panel is
over because of `Cascaded`: a member of a canceled synthesis that has not ended is on
the list of a request that is still cascading. That is where failing writes must be
excluded, since a member whose write fails is left behind. `OneSuccessor` is
strengthened to all runs, whatever their source is (`Successors`), and only an insert
makes a run active; `RerunAfterUnwind` rests on `RunnerInv`: an agent's row
names its worker, and a source that passed the checks stays rerunnable.

| Theorem | Says |
|---|---|
| `PanelInvariant`, `PanelTyped` | `Spec => []PanelInv`, `Spec => []TypeOK` |
| `GateInvariant`, `SynthesisIsFinal` | `Spec => []GateInv`, `Spec => []SynthesisAfterMembers` |
| `PanelCancelsTakeEffect` | `Spec => CancelTakesEffect` |
| `CanceledPanelsEnd` | `~StoreErrors => (Spec => []CanceledPanelIsOver)` |
| `SuccessorsApart` | `Spec => []OneSuccessor` |
| `PanelRerunWaits` | `Spec => RerunAfterUnwind` |

**`AttemptLock_proofs`.** The invariant `LockInv` joins the lock's own safety
properties to what its counters count: `readers` is the number of goroutines that
read, `waitingWriters` of those that wait to write, `writer` says that one writes.
`Exclusion` depends on the counters being right when a writer looks at them, and
`NoLostWakeup` on every step that lets a waiter proceed closing the
channel the waiter sleeps on, giving up included.

| Theorem | Says |
|---|---|
| `LockInvariant`, `LockTyped` | `Spec => []LockInv`, `Spec => []TypeOK` |
| `LockExcludes` | `Spec => []Exclusion` |
| `LockWakes` | `Spec => []NoLostWakeup` |
| `LockPrefersWriters` | `Spec => WritersFirst` |
| `LockRefines` | `Spec => IsRWLock`: the lock implements `RWLock` |

**`Sync_proofs`.** Again a step is described by what it may do to one row and its
review (`RowStep`), to PostgreSQL (`RemoteStep`: nothing, one machine's upload, or
a replacement) and to one pass (`PassStep`); `SyncSteps` shows it of every action.
The rest needs no actions:

- `Knows`: what any row, PostgreSQL or any pass tells of the end of an attempt is
  true. `Told(i, a, s)` collects them, and `News` shows that a new one comes only
  from the machine that ends the attempt. By then nobody has told
  anything of it (`ActiveFresh`), because a machine's own attempts only get later
  (`OwnerAhead`), so nobody ever tells two things (`OneOutcome`). A review that is
  downloaded for the attempt a machine shows finds it done for that reason, and
  not because the two were read together, which they were not.
- `Stored`: what a machine takes to be synced (`RowStored`) and what its pass holds
  between an upload and the acknowledgment (`PassStored`) is in PostgreSQL, or
  something newer is. PostgreSQL only moves on (`RemoteAhead`) until it is replaced,
  and then no machine is linked and no pass holds anything.

| Theorem | Says |
|---|---|
| `SyncTyped` | `Spec => []STypeOK` |
| `SyncReviews` | `Spec => []ReviewOfItsAttempt` |
| `SyncStored` | `Spec => []SyncedIsStored` |

**`CIPosting_proofs`.** A step of a poster, of the poll loop or of the rest is described
by what it may do to a row of `ci_pr_panels` (`RowStep`: nothing, a birth, or a later
stage that keeps what was decided) and to the other variables (`PosterSteps`,
`PollingSteps`, `EnvironmentSteps`); only the lemmas that establish these look at
actions. `CInv` has the types and `Known`: the runs that a poster, the
poll loop, an event or a cancel names exist, a status is delivered for a recorded
comment only, and a poster about to record something has what to record. `DecidedOnce`
follows from `RowStep` and `CInv`.

`GenuineBudget` is not inductive, since a deferral is decided on in one step and counted
in a later one. `Budget` adds to the streak of a head what posters that have decided to
count it will still add (`Pending`). A decision is only made below the last failure that
counts, so that it leaves room for one more besides its own, and there is only one other
poster.

`OneComment` bounds comments by 1 plus the takeovers and lost answers that excuse a
second one, which is not inductive: a poster on its way to the forge has not commented
yet. `Paid` counts it as if it had (`Share`): the comments and those in hand are at most
`1 + excuses`, and while nobody holds the lease of an undecided row, at most `excuses`,
so that there is one left for whoever claims it. A lease given back after a comment
therefore needs an excuse, which is where `releasePanelClaim`'s callers matter.

`SkipDecisionStands` is strengthened to `SkipHolds`, which also covers a lease that went
stale: the run the poll loop holds is the latest of its head, or is retired and no longer
fresh, and then a rerun may have come after it. `AttemptOutlivesOldRun` needs `CInv`
and that, outside the poll loop, a deletion goes through `OwnsAttempt`, which asks for
the latest run of the head, and retires that run (`DeletedWithLatest`).

| Theorem | Says |
|---|---|
| `CIInvariant`, `CITyped` | `Spec => []CInv`, `Spec => []CTypeOK` |
| `CIOneComment` | `Spec => []OneComment` |
| `CIDecidedOnce` | `Spec => DecidedOnce` |
| `CISkipStands` | `Spec => []SkipDecisionStands` |
| `CIBudget` | `Spec => []GenuineBudget` |
| `CIAttemptOutlives` | `Spec => AttemptOutlivesOldRun` |

**`PostCommit_proofs`.** The arguments are about chains of commits. `Tree` says that a
commit's ancestors are the commits of its chain up to it, and from that alone follow
the facts the code relies on git for: two chains part once (`SharedPrefix`), the
checkpoint with the greater distance has more between it and the head (`Deeper`), a
merge base is the last shared commit (`ForkIn`).

`NothingForgotten` needs to know what a hook may still do. `BatchInv` adds to the types,
the tree and the well-formed state file (`Table`) the part `HookInv`: a hook that will
move an entry (`then` is not "keep") `Owns` it, that is, it holds the lock, its range is
all that lies between the entry's checkpoint and its head, and by the time it advances
the range is reviewed. Without the lock another hook's plan could widen the entry
in between and the advance would skip what it added. `ResolvedKeeps` is the heart: the
hand-over of a range (`HandOver`) and the adoption of the ranges of names that are gone
(`AdoptionCovers`) leave everything pending that was, unless the plan `Loses` it.
`SoundPlan` says of the three planners that what they give a hook to carry out satisfies
`Owns`.

`PushedReviewed` needs the whole way of a push. `PushInv` says that every commit the push
is held to is reviewed, in the request under way, or `Owed`: a flush that is left, or the
plan about to be made, will find it in the entry of its branch or adopt the range that
has it, and no other hook is about to move that entry off the branch (`Steady`). That a
push begins so is `PushServes`: the tips an entry is looked for at
(`Tips`) reach every recorded commit of the pushed history, and the farthest fork
(`Furthest`) takes them all unless the entry is `Torn`. That it stays so is `ResolvedServes`, since a plan
for one branch may move another's entry, and `FlushesLeft`: a push flushes the branches
it names first, when they still have the pushed heads, so that a second flush of the same
branch finds what the first one left. What another hook's adoption or drain, or a name
that is used again, takes out of a push's way it takes out of `due` in the same step.

| Theorem | Says |
|---|---|
| `BatchInvariant`, `BatchTyped` | `PSpec => []BatchInv`, `PSpec => []PTypeOK` |
| `BatchRemembers` | `PSpec => []NothingForgotten` |
| `PushesReviewed` | `PSpec => []PushedReviewed` |

## Only model-checked

Liveness and everything under fairness, since the prover has no rules for `ENABLED`:
`JobsSettle`, `GateReopens`, `PanelSettles`, `WaitersServed`, `WritersNotStarved`,
`ReviewsSettle`, `FlushedWhenQuiet`, `Converges` and `EditsArrive`. Every other property
that a passing run checks is also proved.

## Not modelled

`PROJECT.json` lists every component with its reason. In short: comments and
experiments in the sync worker; the broadcaster, which drops events of slow subscribers by
design (clients read the job again); hooks; the goal gate; the budget router, whose
routing by a cached spend accepts a bounded overshoot; classification; the SQLite
write gate, the search index, the agent hook and browser sessions have state of their
own; agent adapters, prompts, parsing, git and forge wrappers, exports, migrations,
the user interfaces and most of the command line are text, I/O or clients.

A crash in the middle of a panel's cancel cascade leaves members running although
the synthesis is canceled, and a repeated cancel is refused because the synthesis
is terminal; `CanceledPanelIsOver` excludes it.

## Plan

1. Done: rows, pool, attempt lock, update drain, panels, the CI poller, post-commit
   batches, sync; proofs about the lock, the rows and the pool, its refinement of
   `JobLifecycle`, the drain, panels, and the safety of the CI poller, the batches and sync.
2. The broadcaster and the goal gate: small state machines in memory.
3. Pure parts: the budget router's choice and the verdict of a panel against
   reference definitions.
4. Proofs: every safety property the runs check is proved. Next are refinements: the CI
   poller and the batches as implementations of an abstract "each head decided once"
   and "each commit reviewed or given up".

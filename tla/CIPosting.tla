------------------------------- MODULE CIPosting -------------------------------
(* How the CI poller reviews one pull request: panel mappings (ci_pr_panels),  *)
(* review attempts (ci_pr_review_attempts), the posting lease and the ledger   *)
(* of retries.  Posting happens outside the database: the event listener and   *)
(* the poll loop both post, the cancel and rerun endpoints act meanwhile, the  *)
(* daemon may die anywhere, and the pull request moves, closes and reopens.    *)
EXTENDS Naturals, FiniteSets

CONSTANTS
  Heads,        \* commits the pull request's branch may point to
  NoHead,
  MaxPanels,    \* bound: panel runs that are ever enqueued
  GenuineMax,   \* genuine failures in a row after which a head is given up
  MaxUpsets     \* bound: moves of the pull request, requests to rerun, crashes, failing
                \* calls and writes, lost announcements, leases of slow posters

ASSUME CIAssumption ==
  /\ NoHead \notin Heads /\ Heads # {}
  /\ MaxPanels \in Nat /\ MaxUpsets \in Nat /\ GenuineMax \in Nat \ {0}

VARIABLES
  pr,       \* the pull request
  panel,    \* ci_pr_panels, with the run's synthesis job and what its results say
  att,      \* ci_pr_review_attempts
  comments, \* comments on the pull request, per panel
  excuses,  \* reasons a panel may have to be posted once more
  post,     \* what each of the two posters does
  poll,     \* the poll loop
  events,   \* runs whose end is announced to the event listener
  cn,       \* the run a cancel request still has to retire
  upsets    \* how many upsets there were

vars == <<pr, panel, att, comments, excuses, post, poll, events, cn, upsets>>

Panels  == 1 .. MaxPanels
NoPanel == 0
Posters == {"events", "poll"}

(* "live" is a synthesis that is queued or running; "result" is what           *)
(* classifyPanelOutcome would make of an ended run.                            *)
Results == {"review", "skip", "genuine", "transient"}
Row == [head : Heads \cup {NoHead}, synth : {"absent", "live", "ended", "canceled"},
        result : Results \cup {"none"}, claim : {"none", "fresh", "stale"},
        posted : BOOLEAN, retired : BOOLEAN, keep : BOOLEAN,
        outcome : {"none", "review", "noreview", "abandoned"}, status : BOOLEAN]
Absent == [head |-> NoHead, synth |-> "absent", result |-> "none", claim |-> "none",
           posted |-> FALSE, retired |-> FALSE, keep |-> FALSE, outcome |-> "none",
           status |-> FALSE]

Attempt == [st : {"none", "pending", "deferred", "done"}, due : BOOLEAN,
            class : {"none", "genuine", "transient"}, streak : Nat,
            run : Panels \cup {NoPanel}]
NoAttempt == [st |-> "none", due |-> FALSE, class |-> "none", streak |-> 0, run |-> NoPanel]
Reserved  == [NoAttempt EXCEPT !.st = "pending"]

(* An attempt as the poll loop read it.  The row's id is left out: an attempt  *)
(* that is created anew for the same run passes for the one that was read.     *)
Glimpse == [st : {"none", "deferred", "done"}, run : Panels \cup {NoPanel}]
Unseen  == [st |-> "none", run |-> NoPanel]

Poster == [pc : {"idle", "target", "moved", "drop", "read", "reread", "comment", "finish",
                 "defer", "retire", "status", "deliver"},
           panel : Panels \cup {NoPanel},
           out : {"none", "review", "noreview", "abandoned", "genuine", "transient"},
           sent : BOOLEAN]
NoPost == [pc |-> "idle", panel |-> NoPanel, out |-> "none", sent |-> FALSE]

(* "head" is the pull request as listed (NoHead when it is not among the open  *)
(* ones), "target" the head in hand and "seen" the attempts as they were read; *)
(* "todo" and "hs" are the rows and heads of the list being worked on, "next"  *)
(* where a sweep ends and "back" the loop that a head in hand returns to.      *)
Poll == [pc : {"idle", "clean", "forget", "sweep", "cancel", "delete", "check", "filter",
               "fetch", "create", "skip", "skipped", "stuck", "rearm", "due", "posting",
               "health", "status"},
         head : Heads \cup {NoHead}, target : Heads \cup {NoHead},
         back : {"stuck", "due", "health"}, seen : [Heads -> Glimpse],
         todo : SUBSET Panels, hs : SUBSET Heads,
         next : {"none", "forget", "check", "create", "stuck"}, claimed : Panels \cup {NoPanel}]
NoPoll == [pc |-> "idle", head |-> NoHead, target |-> NoHead, back |-> "stuck",
           seen |-> [h \in Heads |-> Unseen], todo |-> {}, hs |-> {}, next |-> "none",
           claimed |-> NoPanel]

Init ==
  /\ pr = [open |-> TRUE, head |-> CHOOSE h \in Heads : TRUE]
  /\ panel = [p \in Panels |-> Absent]
  /\ att = [h \in Heads |-> NoAttempt]
  /\ comments = [p \in Panels |-> 0] /\ excuses = [p \in Panels |-> 0]
  /\ post = [a \in Posters |-> NoPost]
  /\ poll = NoPoll
  /\ events = {} /\ cn = NoPanel /\ upsets = 0

-------------------------------------------------------------------------------
(* The rows.                                                                   *)

Exists(p)   == panel[p].synth # "absent"
Unposted(p) == Exists(p) /\ ~panel[p].posted
Active(p)   == Unposted(p) /\ ~panel[p].retired
Of(h)       == {p \in Panels : Exists(p) /\ panel[p].head = h}
Latest(h)   == IF Of(h) = {} THEN NoPanel ELSE CHOOSE p \in Of(h) : \A q \in Of(h) : q <= p

(* The row that owns a head: a partial unique index allows one.                *)
Owned(h) == \E p \in Of(h) : ~panel[p].retired

Failed(r)   == r.outcome \in {"noreview", "abandoned"}
HasPosted(h) == \E p \in Of(h) : panel[p].outcome = "review"

(* Slip: a lease that somebody holds is taken over at once.                 *)
LeaseFree_Always(r) == TRUE
(* A lease is free when nobody holds it or it is older than five minutes.      *)
LeaseFree(r) == r.claim # "fresh"

Retired(r) == IF ~r.posted /\ ~r.retired THEN [r EXCEPT !.retired = TRUE, !.claim = "none"]
                                        ELSE r

(* Slip: the attempt is deleted although a newer run owns the head.         *)
OwnsAttempt_AnyRun(p) == ~panel[p].posted
OwnsAttempt(p) == ~panel[p].posted /\ Latest(panel[p].head) = p

RetireAndDelete(p) ==
  /\ panel' = [panel EXCEPT ![p] = Retired(@)]
  /\ att' = IF OwnsAttempt(p) THEN [att EXCEPT ![panel[p].head] = NoAttempt] ELSE att

(* deleteReviewAttempts keeps the lease of a row it retires.                   *)
ForgetAttempts(H) ==
  /\ panel' = [p \in Panels |->
       IF panel[p].head \in H /\ panel[p].posted /\ Failed(panel[p])
       THEN [panel[p] EXCEPT !.retired = TRUE] ELSE panel[p]]
  /\ att' = [h \in Heads |-> IF h \in H THEN NoAttempt ELSE att[h]]

Inserted(p, h) == [panel EXCEPT ![p] = [Absent EXCEPT !.head = h, !.synth = "live"]]
NextPanel(p)   == ~Exists(p) /\ \A q \in Panels : q < p => Exists(q)

Excused(p) == excuses' = [excuses EXCEPT ![p] = @ + 1]

(* What disturbs the loop happens finitely often.                              *)
Upset == upsets < MaxUpsets /\ upsets' = upsets + 1
Fails == Upset
Works == UNCHANGED upsets

-------------------------------------------------------------------------------
(* The pull request, the agents and the clock.                                 *)

ChangePR ==
  /\ Upset
  /\ pr' \in [open : BOOLEAN, head : Heads] \ {pr}
  /\ UNCHANGED <<panel, att, comments, excuses, post, poll, events, cn>>

(* A run ends; the event listener hears of it unless its channel is full.      *)
RunEnds(p) ==
  /\ panel[p].synth = "live"
  /\ \E r \in Results :
       panel' = [panel EXCEPT ![p].synth = "ended", ![p].result = r]
  /\ \/ Works /\ events' = events \cup {p}
     \/ Fails /\ UNCHANGED events
  /\ UNCHANGED <<pr, att, comments, excuses, post, poll, cn>>

Holds(p) ==
  (\E a \in Posters : post[a].panel = p /\ post[a].pc # "status") \/ poll.claimed = p

(* A lease becomes stale, of itself once its holder is gone.                   *)
LeaseAges(p) ==
  /\ panel[p].claim = "fresh"
  /\ panel' = [panel EXCEPT ![p].claim = "stale"]
  /\ IF Holds(p) THEN Fails ELSE Works
  /\ UNCHANGED <<pr, att, comments, excuses, post, poll, events, cn>>

AttemptDue(h) ==
  /\ att[h].st = "deferred" /\ ~att[h].due
  /\ att' = [att EXCEPT ![h].due = TRUE]
  /\ UNCHANGED <<pr, panel, comments, excuses, post, poll, events, cn, upsets>>

-------------------------------------------------------------------------------
(* Posting a run: the lease, the target, the results, the comment, the record. *)

At(a, pc)      == post[a].pc = pc
PostGoTo(a, pc) == post' = [post EXCEPT ![a].pc = pc]
PostEnds(a)    == post' = [post EXCEPT ![a] = NoPost]
Finishing(a, out, sent) == post' = [post EXCEPT ![a].pc = "finish", ![a].out = out,
                                                ![a].sent = sent]
Released(p) == panel' = [panel EXCEPT ![p].claim = "none"]

StartPost(a, p) ==
  IF Active(p) /\ LeaseFree(panel[p])
  THEN /\ panel' = [panel EXCEPT ![p].claim = "fresh"]
       /\ post' = [post EXCEPT ![a] = [NoPost EXCEPT !.pc = "target", !.panel = p]]
       /\ IF panel[p].claim = "stale" THEN Excused(p) ELSE UNCHANGED excuses
  ELSE UNCHANGED <<panel, post, excuses>>

Hear(p) ==
  /\ p \in events /\ At("events", "idle")
  /\ events' = events \ {p}
  /\ IF panel[p].synth = "canceled"
     THEN RetireAndDelete(p) /\ UNCHANGED <<post, excuses>>
     ELSE StartPost("events", p) /\ UNCHANGED att
  /\ UNCHANGED <<pr, comments, poll, cn, upsets>>

(* guardPanelPostTarget asks the forge for the pull request.                   *)
GuardTarget(a) ==
  LET p == post[a].panel IN
  /\ At(a, "target")
  /\ \/ /\ Works /\ UNCHANGED panel
        /\ PostGoTo(a, IF ~pr.open THEN "drop"
                       ELSE IF pr.head # panel[p].head THEN "moved" ELSE "read")
     \/ Fails /\ Released(p) /\ PostEnds(a)
     \/ Fails /\ Finishing(a, "abandoned", FALSE) /\ UNCHANGED panel
  /\ UNCHANGED <<pr, att, comments, excuses, poll, events, cn>>

(* MarkPanelRetiredIfStalePostDisallowed, then a look at why it did nothing.   *)
RetireMoved(a) ==
  LET p == post[a].panel IN
  /\ At(a, "moved")
  /\ IF Active(p) /\ ~panel[p].keep
     THEN panel' = [panel EXCEPT ![p] = Retired(@)] /\ PostGoTo(a, "drop")
     ELSE UNCHANGED panel /\ IF Active(p) THEN PostGoTo(a, "read") ELSE PostEnds(a)
  /\ UNCHANGED <<pr, att, comments, excuses, poll, events, cn, upsets>>

DropPanel(a) ==
  /\ At(a, "drop") /\ RetireAndDelete(post[a].panel) /\ PostEnds(a)
  /\ UNCHANGED <<pr, comments, excuses, poll, events, cn, upsets>>

(* finalizePanelRun: ensureReviewAttempt reads the attempt, and reads again     *)
(* what it has backfilled when there is none; what the run comes to is decided *)
(* on that reading.                                                            *)
Ensured(h) == IF att[h].st = "none" THEN Reserved ELSE att[h]

(* Slip: a run without any review to make is taken for a failed one.        *)
GivesUp_NotSkipped(h, p) ==
  panel[p].result = "genuine" /\ att[h].streak + 1 >= GenuineMax
(* Slip: genuine failures are retried for ever.                             *)
GivesUp_Never(h, p) == panel[p].result = "skip"
GivesUp(h, p) ==
  \/ panel[p].result = "skip"
  \/ panel[p].result = "genuine" /\ att[h].streak + 1 >= GenuineMax

Backfill(a) ==
  LET h == panel[post[a].panel].head IN
  /\ At(a, "read") /\ att[h].st = "none"
  /\ att' = [att EXCEPT ![h] = Reserved] /\ PostGoTo(a, "reread")
  /\ UNCHANGED <<pr, panel, comments, excuses, poll, events, cn, upsets>>

Finalize(a) ==
  LET p == post[a].panel
      h == panel[p].head IN
  /\ post[a].pc \in {"read", "reread"} /\ att[h].st # "none"
  /\ IF panel[p].result = "review" THEN PostGoTo(a, "comment")
     ELSE IF GivesUp(h, p) THEN Finishing(a, "noreview", FALSE)
     ELSE \/ post' = [post EXCEPT ![a].pc = "defer", ![a].out = panel[p].result]
          \/ /\ panel[p].result = "transient"   \* three days of retries are over
             /\ Finishing(a, "noreview", FALSE)
  /\ UNCHANGED <<pr, panel, att, comments, excuses, poll, events, cn, upsets>>

(* The attempt cannot be read, or was deleted right after the backfill.        *)
Unreadable(a) ==
  LET p == post[a].panel IN
  /\ post[a].pc \in {"read", "reread"}
  /\ IF At(a, "reread") /\ att[panel[p].head].st = "none" THEN Works ELSE Fails
  /\ Released(p) /\ PostEnds(a)
  /\ UNCHANGED <<pr, att, comments, excuses, poll, events, cn>>

(* DeferReviewAttempt: whatever attempt there is by now, also one that another *)
(* poster has deferred on the same reading or that a newer run owns.           *)
Deferral(h, p, class) ==
  [att[h] EXCEPT !.st = "deferred", !.due = FALSE, !.class = class, !.run = p,
                 !.streak = IF class = "genuine" THEN @ + 1 ELSE 0]

Defer(a) ==
  LET p == post[a].panel
      h == panel[p].head IN
  /\ At(a, "defer")
  /\ \/ /\ Works
        /\ att' = IF att[h].st = "none" THEN att
                  ELSE [att EXCEPT ![h] = Deferral(h, p, post[a].out)]
     \/ Fails /\ UNCHANGED att
  /\ PostGoTo(a, "retire")
  /\ UNCHANGED <<pr, panel, comments, excuses, poll, events, cn>>

(* recordDeferral has told the forge that the review is pending.               *)
RetireDeferred(a) ==
  /\ At(a, "retire")
  /\ \/ Works /\ panel' = [panel EXCEPT ![post[a].panel] = Retired(@)]
     \/ Fails /\ UNCHANGED panel
  /\ PostEnds(a)
  /\ UNCHANGED <<pr, att, comments, excuses, poll, events, cn>>

(* The request may fail, or fail after the comment was created.                *)
Comment(a) ==
  LET p == post[a].panel
      Created == comments' = [comments EXCEPT ![p] = @ + 1] IN
  /\ At(a, "comment")
  /\ \/ Works /\ Created /\ Finishing(a, "review", TRUE) /\ UNCHANGED <<panel, excuses>>
     \/ Works /\ Finishing(a, "review", FALSE) /\ UNCHANGED <<panel, comments, excuses>>
     \/ Fails /\ Released(p) /\ PostEnds(a) /\ UNCHANGED <<comments, excuses>>
     \/ Fails /\ Created /\ Excused(p) /\ Released(p) /\ PostEnds(a)
     \/ Fails /\ Finishing(a, "abandoned", FALSE) /\ UNCHANGED <<panel, comments, excuses>>
  /\ UNCHANGED <<pr, att, poll, events, cn>>

(* Slip: a row that is finished or given up is finished once more.          *)
CanFinish_Always(p) == TRUE
CanFinish(p) == Active(p)

(* MarkPanelPosted: the row and its attempt in one transaction.                *)
Finish(a) ==
  LET p == post[a].panel
      h == panel[p].head IN
  /\ At(a, "finish")
  /\ \/ /\ CanFinish(p) /\ Works
        /\ panel' = [panel EXCEPT ![p].posted = TRUE, ![p].claim = "none",
                                  ![p].outcome = post[a].out, ![p].status = TRUE]
        /\ att' = IF att[h].st = "none" THEN att
                  ELSE [att EXCEPT ![h].st = "done", ![h].due = FALSE]
        /\ PostGoTo(a, "status") /\ UNCHANGED excuses
     \/ /\ IF CanFinish(p) THEN Fails ELSE Works
        /\ Released(p) /\ PostEnds(a) /\ UNCHANGED att
        /\ IF post[a].sent THEN Excused(p) ELSE UNCHANGED excuses
  /\ UNCHANGED <<pr, comments, poll, events, cn>>

(* deliverPanelFinalStatus.                                                    *)
ClaimStatus(a) ==
  LET p == post[a].panel IN
  /\ At(a, "status")
  /\ IF panel[p].posted /\ ~panel[p].retired /\ panel[p].status /\ LeaseFree(panel[p])
     THEN panel' = [panel EXCEPT ![p].claim = "fresh"] /\ PostGoTo(a, "deliver")
     ELSE UNCHANGED panel /\ PostEnds(a)
  /\ UNCHANGED <<pr, att, comments, excuses, poll, events, cn, upsets>>

Deliver(a) ==
  LET p == post[a].panel IN
  /\ At(a, "deliver")
  /\ \/ Works /\ panel' = [panel EXCEPT ![p].status = FALSE, ![p].claim = "none"]
     \/ Fails /\ Released(p)
  /\ PostEnds(a)
  /\ UNCHANGED <<pr, att, comments, excuses, poll, events, cn>>

-------------------------------------------------------------------------------
(* One pass of the poll loop over the pull request, in the order of pollRepo.  *)

PollAt(pc) == poll.pc = pc
GoTo(pc)   == poll' = [poll EXCEPT !.pc = pc]
Back       == poll' = [poll EXCEPT !.pc = poll.back, !.target = NoHead, !.claimed = NoPanel]
NextTodo   == CHOOSE p \in poll.todo : \A q \in poll.todo : p <= q
Glimpsed(h) == [st |-> att[h].st, run |-> att[h].run]
SeenAll(H)  == [h \in Heads |-> IF h \in H THEN Glimpsed(h) ELSE Unseen]
InHand(h, back) == [poll EXCEPT !.pc = "filter", !.target = h, !.back = back, !.hs = @ \ {h}]
Sweeping(rows, next) == poll' = [poll EXCEPT !.pc = "sweep", !.todo = rows, !.next = next]
Superseded(h) == {p \in Panels : Unposted(p) /\ (panel[p].retired \/ panel[p].head # h)}

PollOnly == UNCHANGED <<pr, panel, att, comments, excuses, post, events, cn, upsets>>

BeginPoll ==
  /\ poll = NoPoll
  /\ poll' = [NoPoll EXCEPT !.pc = "clean", !.head = IF pr.open THEN pr.head ELSE NoHead,
                            !.target = IF pr.open THEN pr.head ELSE NoHead]
  /\ PollOnly

GaveUp(h) == att[h].st = "done" /\ \E p \in Of(h) : ~panel[p].retired /\ Failed(panel[p])

Leftovers ==
  \/ \E p \in Panels : Unposted(p) /\ (panel[p].retired => panel[p].synth = "live")
  \/ \E h \in Heads : att[h].st \in {"pending", "deferred"} \/ GaveUp(h)

(* A listed request finishes the cancellations an earlier sweep left undone; a *)
(* request that is closed indeed is cleaned up.                                *)
Clean ==
  /\ PollAt("clean")
  /\ CASE poll.head # NoHead ->
            Sweeping({p \in Panels : Unposted(p) /\ panel[p].retired}, "check")
       [] poll.head = NoHead /\ ~pr.open /\ Leftovers ->
            Sweeping({p \in Panels : Unposted(p)}, "forget")
       [] OTHER -> Back
  /\ PollOnly

SweepRetire ==
  /\ PollAt("sweep") /\ poll.todo # {}
  /\ panel' = [panel EXCEPT ![NextTodo] = Retired(@)]
  /\ GoTo("cancel")
  /\ UNCHANGED <<pr, att, comments, excuses, post, events, cn, upsets>>

SweepCancel ==
  LET p == NextTodo IN
  /\ PollAt("cancel")
  /\ IF panel[p].synth = "live"
     THEN panel' = [panel EXCEPT ![p].synth = "canceled"] /\ events' = events \cup {p}
     ELSE UNCHANGED <<panel, events>>
  /\ IF poll.target \in Heads \ {panel[p].head}
     THEN GoTo("delete")
     ELSE poll' = [poll EXCEPT !.pc = "sweep", !.todo = @ \ {p}]
  /\ UNCHANGED <<pr, att, comments, excuses, post, cn, upsets>>

SweepDelete ==
  LET p == NextTodo IN
  /\ PollAt("delete")
  /\ ForgetAttempts({panel[p].head})
  /\ poll' = [poll EXCEPT !.pc = "sweep", !.todo = @ \ {p}]
  /\ UNCHANGED <<pr, comments, excuses, post, events, cn, upsets>>

SweepDone ==
  /\ PollAt("sweep") /\ poll.todo = {}
  /\ poll' = [poll EXCEPT !.pc = poll.next, !.next = "none"]
  /\ PollOnly

Forget ==
  /\ PollAt("forget")
  /\ ForgetAttempts(Heads) /\ GoTo("stuck")
  /\ UNCHANGED <<pr, comments, excuses, post, events, cn, upsets>>

(* alreadyReviewedPR.                                                          *)
Check ==
  LET h == poll.head IN
  /\ PollAt("check")
  /\ IF att[h].st = "deferred" \/ (att[h].st = "none" /\ ~Owned(h) /\ ~HasPosted(h))
     THEN poll' = [InHand(h, "stuck") EXCEPT !.seen = SeenAll({h})]
     ELSE Back
  /\ PollOnly

(* ClaimPanelForSkip: the latest row, if it is decided and its attempt is the  *)
(* one the decision was made on.                                               *)

SameAttempt(h) == Glimpsed(h) = poll.seen[h]

ClaimSkip ==
  LET h == poll.target
      p == Latest(h) IN
  /\ PollAt("filter")
  /\ IF p = NoPanel THEN GoTo("skip") /\ UNCHANGED panel
     ELSE IF (panel[p].posted \/ panel[p].retired) /\ LeaseFree(panel[p]) /\ SameAttempt(h)
     THEN /\ panel' = [panel EXCEPT ![p].claim = "fresh"]
          /\ poll' = [poll EXCEPT !.pc = "skip", !.claimed = p]
     ELSE Back /\ UNCHANGED panel
  /\ UNCHANGED <<pr, att, comments, excuses, post, events, cn, upsets>>

Unclaimed == IF poll.claimed = NoPanel THEN UNCHANGED panel ELSE Released(poll.claimed)

(* The skipped check has been published, or could not be.                      *)
Skip ==
  /\ PollAt("skip")
  /\ \/ Works /\ ForgetAttempts({poll.target}) /\ GoTo("skipped")
     \/ Fails /\ Unclaimed /\ Back /\ UNCHANGED att
  /\ UNCHANGED <<pr, comments, excuses, post, events, cn>>

Skipped ==
  /\ PollAt("skipped")
  /\ panel' = [p \in Panels |-> IF p = poll.claimed
                 THEN [panel[p] EXCEPT !.status = FALSE, !.claim = "none"] ELSE panel[p]]
  /\ Back
  /\ UNCHANGED <<pr, att, comments, excuses, post, events, cn, upsets>>

(* Nothing skips the head: a deferred or given-up one rests.                   *)
Rest ==
  /\ PollAt("filter")
  /\ \/ poll.back = "health"
     \/ poll.back = "stuck" /\ poll.seen[poll.target].st = "deferred"
  /\ Back /\ PollOnly

NewHead == PollAt("filter") /\ poll.back = "stuck" /\ poll.seen[poll.target].st = "none"

QuietHours ==
  /\ NewHead
  /\ panel' = [p \in Panels |-> IF Active(p) /\ panel[p].head # poll.target
                 THEN [panel[p] EXCEPT !.keep = TRUE] ELSE panel[p]]
  /\ Back
  /\ UNCHANGED <<pr, att, comments, excuses, post, events, cn, upsets>>

Throttle == NewHead /\ Sweeping(Superseded(poll.target), "stuck") /\ PollOnly

EnqueueNew == NewHead /\ GoTo("fetch") /\ PollOnly

(* ClaimDueReviewAttempt.                                                      *)
ClaimDue ==
  LET h == poll.target IN
  /\ PollAt("filter") /\ poll.back = "due"
  /\ IF att[h].st = "deferred" /\ att[h].due
     THEN att' = [att EXCEPT ![h].st = "pending", ![h].due = FALSE] /\ GoTo("fetch")
     ELSE Back /\ UNCHANGED att
  /\ UNCHANGED <<pr, panel, comments, excuses, post, events, cn, upsets>>

(* enqueuePanelRun: fetch the head, supersede older runs, create the run.      *)
Fetch ==
  /\ PollAt("fetch")
  /\ \/ Works /\ Sweeping(Superseded(poll.target), "create")
     \/ Fails /\ Back
  /\ UNCHANGED <<pr, panel, att, comments, excuses, post, events, cn>>

Create ==
  LET h == poll.target IN
  /\ PollAt("create")
  /\ \/ \E n \in Panels :
          /\ NextPanel(n) /\ ~Owned(h) /\ Works
          /\ panel' = Inserted(n, h) /\ att' = [att EXCEPT ![h] = Ensured(h)]
     \/ Owned(h) /\ Works /\ UNCHANGED <<panel, att>>
     \/ (\A n \in Panels : Exists(n)) /\ Works /\ UNCHANGED <<panel, att>>
     \/ Fails /\ UNCHANGED <<panel, att>>
  /\ Back
  /\ UNCHANGED <<pr, comments, excuses, post, events, cn>>

(* The panel has no members any more.                                          *)
Disabled ==
  /\ PollAt("create") /\ ForgetAttempts({poll.target}) /\ Back
  /\ UNCHANGED <<pr, comments, excuses, post, events, cn, upsets>>

-------------------------------------------------------------------------------
(* The rest of the pass: stuck attempts, due attempts, runs whose end nobody   *)
(* heard of, heads that were given up, and final statuses.                     *)

Listed(pc) == [NoPoll EXCEPT !.pc = pc, !.head = poll.head]

(* Slip: a run that a sweep retired is still taken for one in flight.       *)
AttemptStuck_Missing(h) == Latest(h) = NoPanel
(* attemptStuck.                                                               *)
AttemptStuck(h) ==
  LET p == Latest(h) IN
  \/ p = NoPanel
  \/ /\ panel[p].retired /\ panel[p].synth # "live"
     /\ panel[p].posted => panel[p].outcome = "noreview"

ListStuck ==
  /\ PollAt("stuck")
  /\ poll' = [Listed("rearm") EXCEPT !.hs = {h \in Heads : att[h].st = "pending"
                                                          /\ AttemptStuck(h)}]
  /\ PollOnly

Rearm(h) ==
  /\ PollAt("rearm") /\ h \in poll.hs
  /\ att' = IF att[h].st = "pending" THEN [att EXCEPT ![h].st = "deferred"] ELSE att
  /\ poll' = [poll EXCEPT !.hs = @ \ {h}]
  /\ UNCHANGED <<pr, panel, comments, excuses, post, events, cn, upsets>>

ListDue ==
  LET due == {h \in Heads : att[h].st = "deferred" /\ att[h].due} IN
  /\ PollAt("rearm") /\ poll.hs = {}
  /\ poll' = [Listed("due") EXCEPT !.back = "due", !.hs = due, !.seen = SeenAll(due)]
  /\ PollOnly

(* A request that is not among the listed ones is looked up.                   *)
CurrentHead ==
  IF poll.head # NoHead THEN poll.head ELSE IF pr.open THEN pr.head ELSE NoHead

RetryDue(h) ==
  /\ PollAt("due") /\ h \in poll.hs
  /\ \/ /\ CurrentHead # h /\ Works
        /\ ForgetAttempts(IF CurrentHead = NoHead THEN Heads ELSE {h})
        /\ poll' = [poll EXCEPT !.hs = @ \ {h}]
     \/ /\ CurrentHead = h /\ Works
        /\ poll' = InHand(h, "due") /\ UNCHANGED <<panel, att>>
     \/ /\ Fails
        /\ poll' = [poll EXCEPT !.hs = @ \ {h}] /\ UNCHANGED <<panel, att>>
  /\ UNCHANGED <<pr, comments, excuses, post, events, cn>>

ListEnded ==
  /\ PollAt("due") /\ poll.hs = {}
  /\ poll' = [Listed("posting") EXCEPT
                !.todo = {p \in Panels : Active(p) /\ panel[p].synth = "ended"}]
  /\ PollOnly

PostEnded ==
  /\ PollAt("posting") /\ poll.todo # {} /\ At("poll", "idle")
  /\ StartPost("poll", NextTodo)
  /\ poll' = [poll EXCEPT !.todo = @ \ {NextTodo}]
  /\ UNCHANGED <<pr, att, comments, events, cn, upsets>>

ListGivenUp ==
  LET given == {h \in Heads : GaveUp(h) /\ poll.head # NoHead} IN
  /\ PollAt("posting") /\ poll.todo = {} /\ At("poll", "idle")
  /\ poll' = [Listed("health") EXCEPT !.back = "health", !.hs = given, !.seen = SeenAll(given)]
  /\ PollOnly

Review(h) ==
  /\ PollAt("health") /\ h \in poll.hs
  /\ IF poll.head # h
     THEN ForgetAttempts({h}) /\ poll' = [poll EXCEPT !.hs = @ \ {h}]
     ELSE poll' = InHand(h, "health") /\ UNCHANGED <<panel, att>>
  /\ UNCHANGED <<pr, comments, excuses, post, events, cn, upsets>>

ListStatuses ==
  /\ PollAt("health") /\ poll.hs = {}
  /\ poll' = [Listed("status") EXCEPT
                !.todo = {p \in Panels : panel[p].posted /\ ~panel[p].retired /\ panel[p].status}]
  /\ PollOnly

SendStatus ==
  /\ PollAt("status") /\ poll.todo # {} /\ At("poll", "idle")
  /\ post' = [post EXCEPT !["poll"] = [NoPost EXCEPT !.pc = "status", !.panel = NextTodo]]
  /\ poll' = [poll EXCEPT !.todo = @ \ {NextTodo}]
  /\ UNCHANGED <<pr, panel, att, comments, excuses, events, cn, upsets>>

EndPoll ==
  /\ PollAt("status") /\ poll.todo = {} /\ At("poll", "idle")
  /\ poll' = NoPoll /\ PollOnly

-------------------------------------------------------------------------------
(* The cancel and rerun endpoints, and the daemon's death.                     *)

Cancel(p) ==
  /\ cn = NoPanel /\ panel[p].synth = "live"
  /\ panel' = [panel EXCEPT ![p].synth = "canceled"] /\ cn' = p
  /\ UNCHANGED <<pr, att, comments, excuses, post, poll, events, upsets>>

CancelRetires ==
  /\ cn # NoPanel
  /\ \/ Works /\ RetireAndDelete(cn)
     \/ Fails /\ UNCHANGED <<panel, att>>
  /\ events' = events \cup {cn} /\ cn' = NoPanel
  /\ UNCHANGED <<pr, comments, excuses, post, poll>>

(* Slip: a rerun takes over the head while its last row is being published. *)
MayRerun_Published(p) ==
  \A q \in Of(panel[p].head) :
    panel[q].retired \/ panel[q].posted \/ (q = p /\ panel[q].claim = "none")
(* rerunCIPanelTx: nobody publishes for the head, and the row that owns it is  *)
(* decided or is the one to rerun.                                             *)
MayRerun(p) ==
  /\ panel[Latest(panel[p].head)].claim # "fresh"
  /\ \A q \in Of(panel[p].head) :
       panel[q].retired \/ panel[q].posted \/ (q = p /\ panel[q].claim = "none")

Rerun(p, n) ==
  LET h == panel[p].head
      owners == {q \in Of(h) : ~panel[q].retired}
      ok == \E q \in owners : panel[q].outcome = "review" IN
  /\ panel[p].synth \in {"ended", "canceled"} /\ NextPanel(n) /\ MayRerun(p) /\ Upset
  /\ panel' = [q \in Panels |->
       IF q = n THEN [Absent EXCEPT !.head = h, !.synth = "live"]
       ELSE IF q \in owners THEN [panel[q] EXCEPT !.retired = TRUE, !.claim = "none"]
       ELSE panel[q]]
  /\ att' = [att EXCEPT ![h] = [Reserved EXCEPT !.run = n,
                                                !.class = IF ok THEN "none" ELSE att[h].class]]
  /\ UNCHANGED <<pr, comments, excuses, post, poll, events, cn>>

(* RearmFailedReviewAttempts and MakeTransientReviewAttemptsDue at startup.    *)
Rearmed(p) ==
  /\ panel[p].outcome = "noreview" /\ ~panel[p].retired
  /\ panel[p].result \in {"genuine", "transient"}
  /\ att[panel[p].head].st = "done" /\ att[panel[p].head].class # "none"

Restart ==
  /\ Upset
  /\ panel' = [p \in Panels |-> IF Exists(p) /\ Rearmed(p)
       THEN [panel[p] EXCEPT !.retired = TRUE, !.claim = "none"] ELSE panel[p]]
  /\ att' = [h \in Heads |->
       IF \E p \in Of(h) : Rearmed(p)
       THEN [att[h] EXCEPT !.st = "deferred", !.due = TRUE, !.streak = 0]
       ELSE [att[h] EXCEPT !.due = @ \/ (att[h].st = "deferred" /\ att[h].class = "transient")]]
  /\ post' = [a \in Posters |-> NoPost] /\ poll' = NoPoll /\ events' = {} /\ cn' = NoPanel
  /\ UNCHANGED <<pr, comments, excuses>>

-------------------------------------------------------------------------------
Posting(a) ==
  \/ GuardTarget(a) \/ RetireMoved(a) \/ DropPanel(a)
  \/ Backfill(a) \/ Finalize(a) \/ Unreadable(a) \/ Defer(a) \/ RetireDeferred(a)
  \/ Comment(a) \/ Finish(a) \/ ClaimStatus(a) \/ Deliver(a)

Polling ==
  \/ BeginPoll \/ Clean \/ SweepRetire \/ SweepCancel \/ SweepDelete \/ SweepDone \/ Forget
  \/ Check \/ ClaimSkip \/ Skip \/ Skipped \/ Rest \/ QuietHours \/ Throttle \/ EnqueueNew
  \/ ClaimDue \/ Fetch \/ Create \/ Disabled \/ ListStuck \/ ListDue \/ ListEnded
  \/ PostEnded \/ ListGivenUp \/ ListStatuses \/ SendStatus \/ EndPoll
  \/ \E h \in Heads : Rearm(h) \/ RetryDue(h) \/ Review(h)

Environment ==
  \/ ChangePR \/ Restart \/ CancelRetires
  \/ \E p \in Panels : RunEnds(p) \/ LeaseAges(p) \/ Hear(p) \/ Cancel(p)
  \/ \E p, n \in Panels : Rerun(p, n)
  \/ \E h \in Heads : AttemptDue(h)

Next == Environment \/ Polling \/ \E a \in Posters : Posting(a)

(* The poller, the poster and the listener run on; agents end; an abandoned    *)
(* lease and a scheduled delay run out.                                        *)
Spec ==
  /\ Init /\ [][Next]_vars
  /\ WF_vars(Polling) /\ \A a \in Posters : WF_vars(Posting(a))
  /\ WF_vars(CancelRetires) /\ WF_vars(\E p \in Panels : Hear(p))
  /\ WF_vars(\E p \in Panels : RunEnds(p))
  /\ WF_vars(\E p \in Panels : ~Holds(p) /\ LeaseAges(p))
  /\ WF_vars(\E h \in Heads : AttemptDue(h))

-------------------------------------------------------------------------------
CTypeOK ==
  /\ pr \in [open : BOOLEAN, head : Heads]
  /\ panel \in [Panels -> Row] /\ att \in [Heads -> Attempt]
  /\ comments \in [Panels -> Nat] /\ excuses \in [Panels -> Nat]
  /\ post \in [Posters -> Poster] /\ poll \in Poll
  /\ events \in SUBSET Panels /\ cn \in Panels \cup {NoPanel}
  /\ upsets \in 0 .. MaxUpsets

(* Hazard: a lease is taken over while its holder, slow or dead, has posted.   *)
(* Each run is commented on at most once, and once more only for a takeover of *)
(* a stale lease, a request whose answer was lost or a record that failed.     *)
OneComment == \A p \in Panels : comments[p] <= 1 + excuses[p]

(* Hazard: two posters, a sweep, a cancel and a rerun decide on one run at the *)
(* same time.  What a run came to is recorded once: a run that is posted stays *)
(* posted with that outcome, and a retired one is never posted any more.       *)
DecidedOnce ==
  [][\A p \in Panels :
       /\ panel[p].posted => panel'[p].posted /\ panel'[p].outcome = panel[p].outcome
       /\ panel[p].retired => panel'[p].retired /\ panel'[p].posted = panel[p].posted]_vars

(* Hazard: a rerun starts between the decision to skip a head and the          *)
(* publication of the skip, whose cleanup would delete the rerun's attempt.    *)
(* While the poll loop holds the lease for a skip, no newer run owns the head. *)
SkipDecisionStands ==
  LET p == poll.claimed IN
  PollAt("skip") /\ p # NoPanel /\ panel[p].claim = "fresh" => Latest(poll.target) = p

(* Hazard: the event of an old run, or a cancel or post of it that is still    *)
(* under way, arrives when a newer run owns the head.  Outside the poll loop   *)
(* an attempt is deleted only together with the latest run of its head.        *)
AttemptOutlivesOldRun ==
  [][\A h \in Heads :
       att[h].st # "none" /\ att'[h].st = "none" /\ poll' = poll => panel'[Latest(h)].retired]_vars

(* Hazard: the decision to retry is made on a reading of the attempt that is   *)
(* old when the deferral is written, and the update checks neither the streak  *)
(* nor whose attempt it is.  A head whose review keeps failing is given up all *)
(* the same: two posters that decide on one streak count it up to the limit at *)
(* most, never beyond, whatever takeovers, restarts, reruns and stuck attempts *)
(* come.                                                                       *)
GenuineBudget == \A h \in Heads : att[h].streak <= GenuineMax

(* A pending attempt that nothing settles: its run is posted, or was canceled  *)
(* and a crash kept it from being retired, which no sweep looks at until the   *)
(* pull request moves or closes.                                               *)
Abandoned(h) == \E p \in Of(h) :
  p = Latest(h) /\ (panel[p].posted \/ (Active(p) /\ panel[p].synth = "canceled"))

(* Hazards: an announcement is lost, the daemon dies between two writes, an    *)
(* enqueue fails after its attempt was claimed.  A pending attempt is settled  *)
(* or deferred, a run that ended is posted or retired and a final status is    *)
(* delivered or superseded.                                                    *)
PendingSettles == \A h \in Heads :
  []<>(att[h].st # "pending" \/ Abandoned(h))
RunsSettle == <>[](\A p \in Panels : Active(p) => panel[p].synth # "ended")
StatusSettles == <>[](\A p \in Panels : panel[p].status => panel[p].retired)
ReviewsSettle == PendingSettles /\ RunsSettle /\ StatusSettles
====

---------------------------- MODULE CIPosting_proofs ----------------------------
(* Proofs about CIPosting, for any heads and any number of panel runs: what is *)
(* posted, given up and kept.                                                  *)
EXTENDS CIPosting, WellFoundedInduction, TLAPS

-------------------------------------------------------------------------------
(* The least and the greatest of some panels.                                  *)

(* Some panels have an oldest one among them.                                  *)
LEMMA LeastPanel ==
  ASSUME NEW S \in SUBSET Panels, S # {}
  PROVE  \E p \in S : \A q \in S : p <= q
<1>1. S \subseteq Nat
  BY CIAssumption DEF Panels
<1>2. PICK p \in S : \A q \in S : ~(<<q, p>> \in OpToRel(<, Nat))
  BY <1>1, WFMin, NatLessThanWellFounded, Zenon
<1>3. \A q \in S : ~(q < p)
  BY <1>1, <1>2, Zenon DEF OpToRel
<1>4. \A q \in S : p <= q
  BY <1>1, <1>3
<1> QED
  BY <1>4, Zenon

(* Some panels have a newest one among them.                                   *)
LEMMA GreatestPanel ==
  ASSUME NEW S \in SUBSET Panels, S # {}
  PROVE  \E p \in S : \A q \in S : q <= p
<1> DEFINE mirror(p) == MaxPanels + 1 - p
           T == {mirror(p) : p \in S}
<1>1. \A p \in Panels : mirror(p) \in Panels /\ p \in Nat
  BY CIAssumption DEF Panels
<1>2. T \in SUBSET Panels /\ T # {}
  BY <1>1
<1>3. PICK t \in T : \A u \in T : t <= u
  BY <1>2, LeastPanel
<1>4. PICK p \in S : t = mirror(p)
  BY <1>3
<1>5. \A q \in S : mirror(p) <= mirror(q)
  BY <1>3, <1>4
<1> QED
  BY <1>1, <1>5, CIAssumption DEF Panels

(* The panel a sweep takes up next is one it still has to do.                  *)
LEMMA NextTodoIn ==
  ASSUME poll.todo \in SUBSET Panels, poll.todo # {}
  PROVE  NextTodo \in poll.todo
BY LeastPanel DEF NextTodo

(* The latest run of a head is a run of it, and none is newer.                 *)
LEMMA LatestIn ==
  ASSUME NEW h, Of(h) # {}
  PROVE  Latest(h) \in Of(h) /\ \A q \in Of(h) : q <= Latest(h)
<1>1. Of(h) \in SUBSET Panels
  BY DEF Of
<1>2. \E p \in Of(h) : \A q \in Of(h) : q <= p
  BY <1>1, GreatestPanel
<1> QED
  BY <1>2 DEF Latest

(* The latest run of a head is none at all or a run of that head.              *)
LEMMA LatestTyped ==
  ASSUME NEW h
  PROVE  Latest(h) \in Panels \cup {NoPanel} /\ (Latest(h) # NoPanel => Latest(h) \in Of(h))
<1>1. Of(h) = {} => Latest(h) = NoPanel
  BY DEF Latest
<1> QED
  BY <1>1, LatestIn DEF Of

-------------------------------------------------------------------------------
(* The invariant of the types; a row that is referred to exists, and one that  *)
(* does not exist is not decided.                                              *)

Decided(p) == panel[p].posted \/ panel[p].retired

Skipping   == {"skip", "skipped"}

(* A poster about to record something has what it is going to record.          *)
Ready(a) ==
  /\ post[a].pc = "finish" => post[a].out \in {"review", "noreview", "abandoned"}
  /\ post[a].pc = "defer"  => post[a].out \in {"none", "genuine", "transient"}

Known ==
  /\ \A p \in Panels : ~Exists(p) => ~Decided(p) /\ panel[p].claim = "none"
  /\ \A a \in Posters : post[a].pc # "idle" => post[a].panel \in Panels /\ Exists(post[a].panel)
  /\ \A a \in Posters : post[a].pc = "deliver" => panel[post[a].panel].posted
  /\ \A a \in Posters : Ready(a)
  /\ \A p \in poll.todo \cup events : Exists(p)
  /\ poll.pc \in {"cancel", "delete"} => poll.todo # {}
  /\ poll.pc \in {"sweep", "cancel", "delete"} => poll.next # "none"
  /\ poll.claimed # NoPanel =>
       Exists(poll.claimed) /\ Decided(poll.claimed) /\ poll.pc \in Skipping
  /\ cn # NoPanel => Exists(cn)

CInv == CTypeOK /\ Known

(* What a comment takes: a poster that may still comment on the run.           *)
MayComment(a, p) ==
  /\ post[a].panel = p
  /\ \/ post[a].pc \in {"target", "moved", "drop", "read", "reread", "comment", "defer", "retire"}
     \/ post[a].pc = "finish" /\ ~post[a].sent
Share(a, p)  == IF MayComment(a, p) THEN 1 ELSE 0
Charge(p)    == comments[p] + Share("events", p) + Share("poll", p)
Paid(p) ==
  /\ ~Exists(p) => comments[p] = 0
  /\ Charge(p) <= 1 + excuses[p]
  /\ ~Decided(p) /\ panel[p].claim = "none" => Charge(p) <= excuses[p]
AllPaid == \A p \in Panels : Paid(p)

SkipHolds ==
  LET p == poll.claimed IN
  PollAt("skip") /\ p # NoPanel =>
    Latest(poll.target) = p \/ (panel[p].retired /\ panel[p].claim # "fresh")

-------------------------------------------------------------------------------
(* What a step does to a row: nothing, its creation, or a change that takes no *)
(* decision back.                                                              *)

BornRow(p) ==
  /\ ~Exists(p) /\ panel'[p].synth = "live" /\ panel'[p].claim = "none"
  /\ ~panel'[p].posted /\ ~panel'[p].retired

LaterRow(p) ==
  /\ Exists(p) /\ panel'[p].synth # "absent" /\ panel'[p].head = panel[p].head
  /\ panel[p].posted => panel'[p].posted /\ panel'[p].outcome = panel[p].outcome
  /\ panel[p].retired => panel'[p].retired /\ panel'[p].posted = panel[p].posted
  /\ panel[p].retired /\ panel'[p].claim = "fresh" => panel[p].claim = "fresh" \/ PollAt("filter")

RowStep(p) == panel'[p] = panel[p] \/ BornRow(p) \/ LaterRow(p)
RowSteps   == panel' \in [Panels -> Row] /\ \A p \in Panels : RowStep(p)

(* No lease of an undecided row is given back, and no row is created.          *)
LeaseKept(p) ==
  ~panel'[p].posted /\ ~panel'[p].retired /\ panel'[p].claim = "none" =>
    panel[p].claim = "none"
NoneFreed    == \A p \in Panels : Exists(p) => LeaseKept(p)

(* What the row of a panel looks like.                                         *)
LEMMA RowTyped ==
  ASSUME CTypeOK, NEW p \in Panels
  PROVE  /\ panel[p] \in Row
         /\ panel[p].posted \in BOOLEAN /\ panel[p].retired \in BOOLEAN
         /\ panel[p].head \in Heads \cup {NoHead}
         /\ panel[p].result \in Results \cup {"none"}
BY DEF CTypeOK, Row

(* Writing one row leaves the table well formed and the others alone.          *)
LEMMA PutRow ==
  ASSUME CTypeOK, NEW x \in Panels, NEW e \in Row, panel' = [panel EXCEPT ![x] = e]
  PROVE  /\ panel' \in [Panels -> Row] /\ panel'[x] = e
         /\ \A q \in Panels : q # x => panel'[q] = panel[q]
BY DEF CTypeOK

(* A step that leaves the rows alone is one of the steps of a row.             *)
LEMMA SameRows ==
  ASSUME CTypeOK, UNCHANGED panel
  PROVE  RowSteps /\ NoneFreed
BY DEF CTypeOK, RowSteps, RowStep, NoneFreed, LeaseKept, Decided

(* Unclaiming a row changes its claim and nothing else.                        *)
LEMMA ReleasedRow ==
  ASSUME CTypeOK, NEW x \in Panels, Exists(x), Released(x)
  PROVE  /\ RowSteps /\ panel'[x] = [panel[x] EXCEPT !.claim = "none"]
         /\ \A q \in Panels : q # x => panel'[q] = panel[q]
<1> DEFINE e == [panel[x] EXCEPT !.claim = "none"]
<1>1. e \in Row
  BY RowTyped DEF Row
<1>2. panel' = [panel EXCEPT ![x] = e]
  BY DEF Released
<1>3. /\ panel' \in [Panels -> Row] /\ panel'[x] = e
      /\ \A q \in Panels : q # x => panel'[q] = panel[q]
  BY <1>1, <1>2, PutRow
<1>4. LaterRow(x)
  BY <1>3, RowTyped DEF LaterRow, Row, Exists
<1> QED
  BY <1>3, <1>4 DEF RowSteps, RowStep

(* RetirePanelRun: the row is decided, and stays what it was if it already     *)
(* was.                                                                        *)
LEMMA RetiredRow ==
  ASSUME NEW r \in Row
  PROVE  /\ Retired(r) \in Row
         /\ Retired(r).synth = r.synth /\ Retired(r).head = r.head
         /\ Retired(r).posted = r.posted /\ Retired(r).outcome = r.outcome
         /\ r.posted \/ Retired(r).retired
         /\ r.retired => Retired(r) = r
         /\ r.posted => Retired(r) = r
BY DEF Retired, Row

(* Retiring one run decides it and lets no other run go.                       *)
LEMMA RetireRow ==
  ASSUME CTypeOK, NEW x \in Panels, Exists(x), panel' = [panel EXCEPT ![x] = Retired(@)]
  PROVE  /\ RowSteps /\ NoneFreed /\ Decided(x)'
         /\ panel'[x] = Retired(panel[x])
<1>1. Retired(panel[x]) \in Row
  BY RowTyped, RetiredRow
<1>2. /\ panel' \in [Panels -> Row] /\ panel'[x] = Retired(panel[x])
      /\ \A q \in Panels : q # x => panel'[q] = panel[q]
  BY <1>1, PutRow
<1>3. LaterRow(x) /\ Decided(x)'
  BY <1>2, RowTyped, RetiredRow DEF LaterRow, Exists, Decided
<1> QED
  BY <1>2, <1>3 DEF RowSteps, RowStep, NoneFreed, LeaseKept, Decided

(* Deleting attempts retires posted failures, and changes no row otherwise.    *)
LEMMA ForgottenRows ==
  ASSUME CTypeOK, NEW H, ForgetAttempts(H), \A p \in Panels : ~Exists(p) => ~Decided(p)
  PROVE  RowSteps /\ NoneFreed
<1>1. \A p \in Panels :
        \/ panel'[p] = panel[p]
        \/ panel'[p] = [panel[p] EXCEPT !.retired = TRUE] /\ panel[p].posted
  BY DEF ForgetAttempts
<1>2. ASSUME NEW p \in Panels, panel'[p] = [panel[p] EXCEPT !.retired = TRUE], panel[p].posted
      PROVE  panel'[p] \in Row /\ LaterRow(p) /\ Decided(p)'
  BY <1>2, RowTyped DEF Row, LaterRow, Exists, Decided
<1>3. \A p \in Panels : panel'[p] \in Row
  BY <1>1, <1>2, RowTyped
<1>4. panel' \in [Panels -> Row]
  BY <1>3 DEF ForgetAttempts
<1> QED
  BY <1>1, <1>2, <1>4 DEF RowSteps, RowStep, NoneFreed, LeaseKept, Decided

-------------------------------------------------------------------------------
(* The attempts and the posters.                                               *)

(* The attempts a head begins with are well formed.                            *)
LEMMA NoAttemptTyped ==
  /\ NoAttempt \in Attempt /\ NoAttempt.st = "none" /\ NoAttempt.streak = 0
  /\ Reserved \in Attempt /\ Reserved.st = "pending" /\ Reserved.streak = 0
BY DEF NoAttempt, Reserved, Attempt

(* Making sure of an attempt leaves one.                                       *)
LEMMA EnsuredTyped ==
  ASSUME CInv, NEW h \in Heads
  PROVE  Ensured(h) \in Attempt /\ Ensured(h).st # "none"
BY NoAttemptTyped DEF CInv, CTypeOK, Ensured

(* A deferral counts a genuine failure and forgets the count after another.    *)
LEMMA DeferralTyped ==
  ASSUME CInv, NEW h \in Heads, NEW p \in Panels, NEW class \in {"none", "genuine", "transient"}
  PROVE  /\ Deferral(h, p, class) \in Attempt /\ Deferral(h, p, class).st = "deferred"
         /\ Deferral(h, p, class).streak = IF class = "genuine" THEN att[h].streak + 1 ELSE 0
<1> DEFINE n == IF class = "genuine" THEN att[h].streak + 1 ELSE 0
<1>1. att[h] \in Attempt
  BY DEF CInv, CTypeOK
<1>2. n \in Nat
  BY <1>1 DEF Attempt
<1>3. Deferral(h, p, class) = [att[h] EXCEPT !.st = "deferred", !.due = FALSE, !.class = class,
                                             !.run = p, !.streak = n]
  BY <1>1 DEF Deferral, Attempt
<1> HIDE DEF n
<1>4. Deferral(h, p, class) \in Attempt /\ Deferral(h, p, class).streak = n
      /\ Deferral(h, p, class).st = "deferred"
  BY <1>1, <1>2, <1>3 DEF Attempt
<1> QED
  BY <1>4 DEF n

(* Writing one attempt leaves the ledger well formed.                          *)
LEMMA PutAttempt ==
  ASSUME CInv, NEW h, NEW e, h \in Heads => e \in Attempt, att' = [att EXCEPT ![h] = e]
  PROVE  att' \in [Heads -> Attempt]
BY DEF CInv, CTypeOK

(* So does deleting some.                                                      *)
LEMMA ForgottenTyped ==
  ASSUME CInv, NEW H, ForgetAttempts(H)
  PROVE  att' \in [Heads -> Attempt]
BY NoAttemptTyped DEF CInv, CTypeOK, ForgetAttempts

(* Retiring a run together with the attempt of its head.                       *)
LEMMA RetireAndDeleteSteps ==
  ASSUME CInv, NEW p \in Panels, Exists(p), RetireAndDelete(p)
  PROVE  /\ RowSteps /\ NoneFreed /\ Decided(p)'
         /\ att' \in [Heads -> Attempt]
<1>1. RowSteps /\ NoneFreed /\ Decided(p)'
  BY RetireRow DEF RetireAndDelete, CInv
<1>2. att' \in [Heads -> Attempt]
  BY NoAttemptTyped DEF RetireAndDelete, CInv, CTypeOK
<1> QED
  BY <1>1, <1>2

(* What a poster looks like.                                                   *)
LEMMA PosterTyped ==
  ASSUME CTypeOK, NEW a \in Posters
  PROVE  post[a] \in Poster /\ post[a].panel \in Panels \cup {NoPanel}
BY DEF CTypeOK, Poster

(* One poster changes and the others do not: when it is replaced, ...          *)
LEMMA PutPost ==
  ASSUME CTypeOK, NEW a \in Posters, NEW e \in Poster, post' = [post EXCEPT ![a] = e]
  PROVE  /\ post' \in [Posters -> Poster] /\ post'[a] = e
         /\ \A b \in Posters : b # a => post'[b] = post[b]
BY DEF CTypeOK

Pcs == {"idle", "target", "moved", "drop", "read", "reread", "comment", "finish", "defer",
        "retire", "status", "deliver"}

(* ... when it goes on to its next step, ...                                   *)
LEMMA PostWent ==
  ASSUME CTypeOK, NEW a \in Posters, NEW pc \in Pcs, PostGoTo(a, pc)
  PROVE  /\ post' \in [Posters -> Poster] /\ post'[a] = [post[a] EXCEPT !.pc = pc]
         /\ post'[a].pc = pc /\ post'[a].panel = post[a].panel /\ post'[a].sent = post[a].sent
         /\ \A b \in Posters : b # a => post'[b] = post[b]
<1> DEFINE e == [post[a] EXCEPT !.pc = pc]
<1>1. post[a] \in Poster
  BY PosterTyped
<1>2. e \in Poster /\ e.pc = pc /\ e.panel = post[a].panel /\ e.sent = post[a].sent
  BY <1>1 DEF Poster, Pcs
<1>3. post' = [post EXCEPT ![a] = e]
  BY DEF PostGoTo
<1> QED
  BY <1>2, <1>3, PutPost

(* ... when it stops, ...                                                      *)
LEMMA PostStopped ==
  ASSUME CTypeOK, NEW a \in Posters, PostEnds(a)
  PROVE  /\ post' \in [Posters -> Poster] /\ post'[a].pc = "idle" /\ post'[a].panel = NoPanel
         /\ \A b \in Posters : b # a => post'[b] = post[b]
<1>1. NoPost \in Poster /\ NoPost.pc = "idle" /\ NoPost.panel = NoPanel
  BY DEF NoPost, Poster
<1> QED
  BY <1>1, PutPost DEF PostEnds

(* ... and when it has an outcome to record.                                   *)
LEMMA PostFinishing ==
  ASSUME CTypeOK, NEW a \in Posters, NEW out \in {"review", "noreview", "abandoned"},
         NEW sent \in BOOLEAN, Finishing(a, out, sent)
  PROVE  /\ post' \in [Posters -> Poster]
         /\ post'[a].pc = "finish" /\ post'[a].out = out
         /\ post'[a].panel = post[a].panel /\ post'[a].sent = sent
         /\ \A b \in Posters : b # a => post'[b] = post[b]
<1> DEFINE e == [post[a] EXCEPT !.pc = "finish", !.out = out, !.sent = sent]
<1>1. post[a] \in Poster
  BY PosterTyped
<1>2. e \in Poster /\ e.pc = "finish" /\ e.out = out /\ e.panel = post[a].panel
      /\ e.sent = sent
  BY <1>1 DEF Poster
<1>3. post' = [post EXCEPT ![a] = e]
  BY DEF Finishing
<1> QED
  BY <1>2, <1>3, PutPost

(* The counters stay what they are whether or not a step counts.               *)
LEMMA CountedOnce ==
  ASSUME CTypeOK, NEW p \in Panels
  PROVE  /\ UNCHANGED excuses \/ Excused(p) => excuses' \in [Panels -> Nat]
         /\ Fails \/ Works => upsets' \in 0 .. MaxUpsets
         /\ comments' = [comments EXCEPT ![p] = @ + 1] => comments' \in [Panels -> Nat]
BY CIAssumption DEF CTypeOK, Excused, Fails, Upset, Works

-------------------------------------------------------------------------------
(* A step of a poster.                                                         *)

PosterSteps(a) ==
  /\ RowSteps /\ att' \in [Heads -> Attempt] /\ post' \in [Posters -> Poster]
  /\ \A b \in Posters : b # a => post'[b] = post[b]
  /\ post'[a].pc # "idle" => post[a].pc # "idle" /\ post'[a].panel = post[a].panel
  /\ post'[a].pc = "deliver" => panel'[post[a].panel].posted
  /\ Ready(a)'
  /\ comments' \in [Panels -> Nat] /\ excuses' \in [Panels -> Nat]
  /\ upsets' \in 0 .. MaxUpsets
  /\ UNCHANGED <<pr, poll, events, cn>>

Proceeds(a) ==
  \E pc \in Pcs \ {"idle", "finish", "defer", "deliver"} : PostGoTo(a, pc)
Concludes(a) ==
  \E out \in {"review", "noreview", "abandoned"}, sent \in BOOLEAN : Finishing(a, out, sent)

Defers(a) ==
  \E out \in {"none", "genuine", "transient"} :
    post' = [post EXCEPT ![a].pc = "defer", ![a].out = out]

(* A poster that defers keeps its run and remembers how the run failed.        *)
LEMMA PostDefers ==
  ASSUME CTypeOK, NEW a \in Posters, NEW out \in {"none", "genuine", "transient"},
         post' = [post EXCEPT ![a].pc = "defer", ![a].out = out]
  PROVE  /\ post' \in [Posters -> Poster]
         /\ post'[a] = [post[a] EXCEPT !.pc = "defer", !.out = out]
         /\ post'[a].pc = "defer" /\ post'[a].out = out
         /\ post'[a].panel = post[a].panel /\ post'[a].sent = post[a].sent
         /\ \A b \in Posters : b # a => post'[b] = post[b]
<1> DEFINE e == [post[a] EXCEPT !.pc = "defer", !.out = out]
<1>1. post[a] \in Poster
  BY PosterTyped
<1>2. /\ e \in Poster /\ e.pc = "defer" /\ e.out = out
      /\ e.panel = post[a].panel /\ e.sent = post[a].sent
  BY <1>1 DEF Poster
<1>3. post' = [post EXCEPT ![a] = e]
  OBVIOUS
<1> QED
  BY <1>2, <1>3, PutPost

(* A poster that proceeds keeps its run, and does not deliver in that step.    *)
LEMMA PostProceeds ==
  ASSUME CTypeOK, NEW a \in Posters, Proceeds(a) \/ Concludes(a) \/ Defers(a)
  PROVE  /\ post' \in [Posters -> Poster]
         /\ \A b \in Posters : b # a => post'[b] = post[b]
         /\ post'[a].panel = post[a].panel /\ post'[a].pc # "deliver" /\ Ready(a)'
<1>1. ASSUME NEW pc \in Pcs \ {"idle", "finish", "defer", "deliver"}, PostGoTo(a, pc)
      PROVE  /\ post' \in [Posters -> Poster]
             /\ \A b \in Posters : b # a => post'[b] = post[b]
             /\ post'[a].panel = post[a].panel /\ post'[a].pc # "deliver" /\ Ready(a)'
  BY <1>1, PostWent DEF Ready
<1>2. ASSUME NEW out \in {"review", "noreview", "abandoned"}, NEW sent \in BOOLEAN,
             Finishing(a, out, sent)
      PROVE  /\ post' \in [Posters -> Poster]
             /\ \A b \in Posters : b # a => post'[b] = post[b]
             /\ post'[a].panel = post[a].panel /\ post'[a].pc # "deliver" /\ Ready(a)'
  BY <1>2, PostFinishing DEF Ready
<1>3. ASSUME NEW out \in {"none", "genuine", "transient"},
             post' = [post EXCEPT ![a].pc = "defer", ![a].out = out]
      PROVE  /\ post' \in [Posters -> Poster]
             /\ \A b \in Posters : b # a => post'[b] = post[b]
             /\ post'[a].panel = post[a].panel /\ post'[a].pc # "deliver" /\ Ready(a)'
  BY <1>3, PostDefers DEF Ready
<1> QED
  BY <1>1, <1>2, <1>3 DEF Proceeds, Concludes, Defers

(* Every step of a poster is one of the steps named for posters.               *)
LEMMA PostingSteps ==
  ASSUME CInv, NEW a \in Posters, Posting(a)
  PROVE  PosterSteps(a)
<1> DEFINE p == post[a].panel
<1>t. CTypeOK
  BY DEF CInv
<1>0. p \in Panels /\ Exists(p)
  <2>1. post[a].pc # "idle"
    BY DEF Posting, At, GuardTarget, RetireMoved, DropPanel, Backfill, Finalize, Unreadable, Defer,
           RetireDeferred, Comment, Finish, ClaimStatus, Deliver
  <2> QED
    BY <2>1 DEF CInv, Known
<1>a. UNCHANGED att => att' \in [Heads -> Attempt]
  BY DEF CInv, CTypeOK
<1>c. /\ UNCHANGED comments => comments' \in [Panels -> Nat]
      /\ UNCHANGED excuses \/ Excused(p) => excuses' \in [Panels -> Nat]
      /\ comments' = [comments EXCEPT ![p] = @ + 1] => comments' \in [Panels -> Nat]
      /\ UNCHANGED upsets \/ Fails \/ Works => upsets' \in 0 .. MaxUpsets
  BY <1>0, <1>t, CountedOnce DEF CTypeOK, Works
<1>s. UNCHANGED panel => RowSteps
  BY <1>t, SameRows
<1>r. Released(p) => RowSteps
  BY <1>t, <1>0, ReleasedRow
<1>g. Proceeds(a) \/ Concludes(a) \/ Defers(a) =>
        /\ post' \in [Posters -> Poster]
        /\ \A b \in Posters : b # a => post'[b] = post[b]
        /\ post'[a].panel = post[a].panel /\ post'[a].pc # "deliver" /\ Ready(a)'
  BY <1>t, PostProceeds
<1>e. PostEnds(a) => /\ post' \in [Posters -> Poster] /\ post'[a].pc = "idle" /\ Ready(a)'
                     /\ \A b \in Posters : b # a => post'[b] = post[b]
  BY <1>t, PostStopped DEF Ready
<1> HIDE DEF p
<1>1. CASE GuardTarget(a)
  <2>1. post[a].pc # "idle" /\ UNCHANGED <<pr, att, comments, excuses, poll, events, cn>>
    BY <1>1 DEF GuardTarget, At
  <2>2. CASE Works /\ UNCHANGED panel /\ Proceeds(a)
    BY <2>1, <2>2, <1>a, <1>c, <1>s, <1>g DEF PosterSteps
  <2>3. CASE Fails /\ Released(p) /\ PostEnds(a)
    BY <2>1, <2>3, <1>a, <1>c, <1>r, <1>e DEF PosterSteps
  <2>4. CASE Fails /\ Concludes(a) /\ UNCHANGED panel
    BY <2>1, <2>4, <1>a, <1>c, <1>s, <1>g DEF PosterSteps
  <2> QED
    BY <1>1, <2>2, <2>3, <2>4 DEF GuardTarget, p, Proceeds, Concludes, Pcs
<1>2. CASE RetireMoved(a)
  <2>1. /\ post[a].pc # "idle"
        /\ UNCHANGED <<pr, att, comments, excuses, poll, events, cn, upsets>>
    BY <1>2 DEF RetireMoved, At
  <2>2. CASE panel' = [panel EXCEPT ![p] = Retired(@)] /\ Proceeds(a)
    <3>1. RowSteps
      BY <2>2, <1>t, <1>0, RetireRow
    <3> QED
      BY <2>1, <2>2, <3>1, <1>a, <1>c, <1>g DEF PosterSteps
  <2>3. CASE UNCHANGED panel /\ Proceeds(a)
    BY <2>1, <2>3, <1>a, <1>c, <1>s, <1>g DEF PosterSteps
  <2>4. CASE UNCHANGED panel /\ PostEnds(a)
    BY <2>1, <2>4, <1>a, <1>c, <1>s, <1>e DEF PosterSteps
  <2> QED
    BY <1>2, <2>2, <2>3, <2>4 DEF RetireMoved, p, Proceeds, Pcs
<1>3. CASE DropPanel(a)
  <2>1. post[a].pc # "idle" /\ UNCHANGED <<pr, comments, excuses, poll, events, cn, upsets>>
    BY <1>3 DEF DropPanel, At
  <2>2. RowSteps /\ att' \in [Heads -> Attempt]
    BY <1>0, <1>3, RetireAndDeleteSteps DEF DropPanel, p
  <2>3. PostEnds(a)
    BY <1>3 DEF DropPanel
  <2> QED
    BY <2>1, <2>2, <2>3, <1>c, <1>e DEF PosterSteps
<1>4. CASE Finalize(a)
  <2>1. /\ post[a].pc # "idle"
        /\ UNCHANGED <<pr, panel, att, comments, excuses, poll, events, cn, upsets>>
    BY <1>4 DEF Finalize
  <2>2. Proceeds(a) \/ Concludes(a) \/ Defers(a)
    <3>1. panel[p].result \in Results \cup {"none"}
      BY <1>t, <1>0, RowTyped
    <3>2. CASE panel[p].result = "review"
      BY <1>4, <3>2 DEF Finalize, p, Proceeds, Pcs
    <3>3. CASE panel[p].result # "review" /\ GivesUp(panel[p].head, p)
      BY <1>4, <3>3 DEF Finalize, p, Concludes
    <3>4. CASE panel[p].result # "review" /\ ~GivesUp(panel[p].head, p)
      <4>1. panel[p].result \in {"none", "genuine", "transient"}
        BY <3>1, <3>4 DEF GivesUp, Results
      <4> QED
        BY <1>4, <3>4, <4>1 DEF Finalize, p, Concludes, Defers
    <3> QED
      BY <3>2, <3>3, <3>4
  <2> QED
    BY <2>1, <2>2, <1>a, <1>c, <1>s, <1>g DEF PosterSteps
<1>10. CASE Backfill(a)
  <2>1. /\ post[a].pc # "idle"
        /\ UNCHANGED <<pr, panel, comments, excuses, poll, events, cn, upsets>>
    BY <1>10 DEF Backfill, At
  <2>2. att' \in [Heads -> Attempt]
    BY <1>10, NoAttemptTyped, PutAttempt DEF Backfill
  <2>3. Proceeds(a)
    BY <1>10 DEF Backfill, Proceeds, Pcs
  <2> QED
    BY <2>1, <2>2, <2>3, <1>c, <1>s, <1>g DEF PosterSteps
<1>11. CASE Unreadable(a)
  <2>1. /\ post[a].pc # "idle" /\ UNCHANGED <<pr, att, comments, excuses, poll, events, cn>>
        /\ Works \/ Fails
    BY <1>11 DEF Unreadable
  <2>2. Released(p) /\ PostEnds(a)
    BY <1>11 DEF Unreadable, p
  <2> QED
    BY <2>1, <2>2, <1>a, <1>c, <1>r, <1>e DEF PosterSteps
<1>12. CASE Defer(a)
  <2> DEFINE h == panel[p].head
  <2>1. /\ post[a].pc = "defer" /\ (Works \/ Fails)
        /\ UNCHANGED <<pr, panel, comments, excuses, poll, events, cn>>
    BY <1>12 DEF Defer, At
  <2>2. att' \in [Heads -> Attempt]
    <3>1. post[a].out \in {"none", "genuine", "transient"}
      BY <2>1 DEF CInv, Known, Ready
    <3>2. h \in Heads => Deferral(h, p, post[a].out) \in Attempt
      BY <1>0, <3>1, DeferralTyped
    <3>3. CASE att' = [att EXCEPT ![h] = Deferral(h, p, post[a].out)]
      BY <3>2, <3>3, PutAttempt
    <3> QED
      BY <1>12, <1>a, <3>3 DEF Defer, p
  <2>3. Proceeds(a)
    BY <1>12 DEF Defer, Proceeds, Pcs
  <2> QED
    BY <2>1, <2>2, <2>3, <1>c, <1>s, <1>g DEF PosterSteps
<1>5. CASE RetireDeferred(a)
  <2>1. post[a].pc # "idle" /\ UNCHANGED <<pr, att, comments, excuses, poll, events, cn>>
    BY <1>5 DEF RetireDeferred, At
  <2>2. RowSteps
    <3>1. CASE panel' = [panel EXCEPT ![p] = Retired(@)]
      BY <3>1, <1>t, <1>0, RetireRow
    <3> QED
      BY <1>5, <3>1, <1>s DEF RetireDeferred, p
  <2>3. PostEnds(a) /\ (Works \/ Fails)
    BY <1>5 DEF RetireDeferred
  <2> QED
    BY <2>1, <2>2, <2>3, <1>a, <1>c, <1>e DEF PosterSteps
<1>6. CASE Comment(a)
  <2>1. post[a].pc # "idle" /\ UNCHANGED <<pr, att, poll, events, cn>> /\ (Works \/ Fails)
    BY <1>6 DEF Comment, At
  <2>2. RowSteps
    BY <1>6, <1>s, <1>r DEF Comment, p
  <2>3. /\ UNCHANGED comments \/ comments' = [comments EXCEPT ![p] = @ + 1]
        /\ UNCHANGED excuses \/ Excused(p)
    BY <1>6 DEF Comment, p
  <2>4. CASE PostEnds(a)
    BY <2>1, <2>2, <2>3, <2>4, <1>a, <1>c, <1>e DEF PosterSteps
  <2>5. CASE Concludes(a)
    BY <2>1, <2>2, <2>3, <2>5, <1>a, <1>c, <1>g DEF PosterSteps
  <2> QED
    BY <1>6, <2>4, <2>5 DEF Comment, Concludes
<1>7. CASE Finish(a)
  <2> DEFINE h == panel[p].head
             r == [panel[p] EXCEPT !.posted = TRUE, !.claim = "none", !.outcome = post[a].out,
                                   !.status = TRUE]
  <2>1. post[a].pc # "idle" /\ UNCHANGED <<pr, comments, poll, events, cn>> /\ (Works \/ Fails)
    BY <1>7 DEF Finish, At
  <2>2. CASE /\ CanFinish(p) /\ panel' = [panel EXCEPT ![p] = r] /\ Proceeds(a)
             /\ att' = IF att[h].st = "none" THEN att
                       ELSE [att EXCEPT ![h].st = "done", ![h].due = FALSE]
             /\ UNCHANGED excuses
    <3>1. post[a].out \in {"none", "review", "noreview", "abandoned"}
      BY <1>7 DEF CInv, Known, Ready, Finish, At
    <3>2. r \in Row
      BY <3>1, <1>t, <1>0, RowTyped DEF Row
    <3>3. panel' \in [Panels -> Row] /\ panel'[p] = r /\ \A q \in Panels : q # p => panel'[q] = panel[q]
      BY <2>2, <3>2, <1>t, <1>0, PutRow
    <3>f. r.synth = panel[p].synth /\ r.head = panel[p].head /\ r.posted
      BY <1>t, <1>0, RowTyped DEF Row
    <3>4. LaterRow(p)
      BY <2>2, <3>3, <3>f, <1>0 DEF LaterRow, CanFinish, Active, Unposted, Exists
    <3>5. RowSteps
      BY <3>3, <3>4 DEF RowSteps, RowStep
    <3>6. att' \in [Heads -> Attempt]
      <4>1. att \in [Heads -> Attempt]
        BY <1>t DEF CTypeOK
      <4>2. PICK g : g = h
        OBVIOUS
      <4>3. att' = att \/ att' = [att EXCEPT ![g].st = "done", ![g].due = FALSE]
        BY <2>2, <4>2
      <4> QED
        BY <4>1, <4>3 DEF Attempt
    <3> QED
      BY <2>1, <2>2, <3>5, <3>6, <1>c, <1>g DEF PosterSteps
  <2>3. CASE Released(p) /\ PostEnds(a) /\ UNCHANGED att /\ (UNCHANGED excuses \/ Excused(p))
    BY <2>1, <2>3, <1>a, <1>c, <1>r, <1>e DEF PosterSteps
  <2> QED
    BY <1>7, <2>2, <2>3 DEF Finish, p, Proceeds, Pcs
<1>8. CASE ClaimStatus(a)
  <2>1. /\ post[a].pc # "idle"
        /\ UNCHANGED <<pr, att, comments, excuses, poll, events, cn, upsets>>
    BY <1>8 DEF ClaimStatus, At
  <2>2. CASE /\ panel[p].posted /\ ~panel[p].retired /\ PostGoTo(a, "deliver")
             /\ panel' = [panel EXCEPT ![p].claim = "fresh"]
    <3> DEFINE r == [panel[p] EXCEPT !.claim = "fresh"]
    <3>1. r \in Row
      BY <1>t, <1>0, RowTyped DEF Row
    <3>2. panel' \in [Panels -> Row] /\ panel'[p] = r /\ \A q \in Panels : q # p => panel'[q] = panel[q]
      BY <2>2, <3>1, <1>t, <1>0, PutRow
    <3>f. /\ r.synth = panel[p].synth /\ r.head = panel[p].head /\ r.posted = panel[p].posted
          /\ r.outcome = panel[p].outcome
      BY <1>t, <1>0, RowTyped DEF Row
    <3>3. LaterRow(p) /\ panel'[p].posted
      BY <2>2, <3>2, <3>f, <1>0 DEF LaterRow, Exists
    <3>4. RowSteps
      BY <3>2, <3>3 DEF RowSteps, RowStep
    <3>5. /\ post' \in [Posters -> Poster] /\ post'[a].panel = p /\ Ready(a)'
          /\ \A b \in Posters : b # a => post'[b] = post[b]
      BY <2>2, <1>t, PostWent DEF Pcs, p, Ready
    <3> QED
      BY <2>1, <3>3, <3>4, <3>5, <1>a, <1>c DEF PosterSteps, p
  <2>3. CASE UNCHANGED panel /\ PostEnds(a)
    BY <2>1, <2>3, <1>a, <1>c, <1>s, <1>e DEF PosterSteps
  <2> QED
    BY <1>8, <2>2, <2>3 DEF ClaimStatus, p
<1>9. CASE Deliver(a)
  <2>1. post[a].pc # "idle" /\ UNCHANGED <<pr, att, comments, excuses, poll, events, cn>>
    BY <1>9 DEF Deliver, At
  <2>2. RowSteps
    <3> DEFINE r == [panel[p] EXCEPT !.status = FALSE, !.claim = "none"]
    <3>1. CASE panel' = [panel EXCEPT ![p] = r]
      <4>1. r \in Row
        BY <1>t, <1>0, RowTyped DEF Row
      <4>2. panel' \in [Panels -> Row] /\ panel'[p] = r /\ \A q \in Panels : q # p => panel'[q] = panel[q]
        BY <3>1, <4>1, <1>t, <1>0, PutRow
      <4>3. LaterRow(p)
        BY <4>2, <1>t, <1>0, RowTyped DEF LaterRow, Row, Exists
      <4> QED
        BY <4>2, <4>3 DEF RowSteps, RowStep
    <3> QED
      BY <1>9, <3>1, <1>r DEF Deliver, p
  <2>3. PostEnds(a) /\ (Works \/ Fails)
    BY <1>9 DEF Deliver
  <2> QED
    BY <2>1, <2>2, <2>3, <1>a, <1>c, <1>e DEF PosterSteps
<1> QED
  BY <1>1, <1>2, <1>3, <1>4, <1>5, <1>6, <1>7, <1>8, <1>9, <1>10, <1>11, <1>12 DEF Posting

-------------------------------------------------------------------------------
(* What the poll loop holds.                                                   *)

PollPcs == {"idle", "clean", "forget", "sweep", "cancel", "delete", "check", "filter", "fetch",
            "create", "skip", "skipped", "stuck", "rearm", "due", "posting", "health", "status"}
Nexts   == {"forget", "check", "create", "stuck"}
Backs   == {"stuck", "due", "health"}

SoundPoll(x) ==
  /\ x \in Poll
  /\ \A p \in x.todo : p \in Panels /\ Exists(p)
  /\ x.pc \in {"cancel", "delete"} => x.todo # {}
  /\ x.pc \in {"sweep", "cancel", "delete"} => x.next # "none"
  /\ x.claimed # NoPanel =>
       /\ x.claimed \in Panels /\ Exists(x.claimed) /\ Decided(x.claimed)
       /\ x.pc \in Skipping

(* The invariant says what the poll loop holds.                                *)
LEMMA PollIsSound ==
  ASSUME CInv
  PROVE  SoundPoll(poll)
<1>1. poll \in Poll
  BY DEF CInv, CTypeOK
<1>2. poll.todo \in SUBSET Panels /\ poll.claimed \in Panels \cup {NoPanel}
  BY <1>1 DEF Poll
<1> QED
  BY <1>1, <1>2 DEF CInv, Known, SoundPoll

(* What the poll loop holds stays sound when it goes on with what it has, ...  *)
LEMMA PollGoes ==
  ASSUME SoundPoll(poll), NEW pc \in PollPcs, GoTo(pc),
         pc \in {"cancel", "delete"} => poll.todo # {},
         pc \in {"sweep", "cancel", "delete"} => poll.next # "none",
         poll.pc \in Skipping => pc \in Skipping
  PROVE  SoundPoll(poll') /\ poll'.pc = pc
<1>1. poll' \in Poll
  BY DEF SoundPoll, GoTo, Poll, PollPcs
<1>2. /\ poll'.pc = pc /\ poll'.todo = poll.todo /\ poll'.next = poll.next
      /\ poll'.claimed = poll.claimed
  BY DEF SoundPoll, GoTo, Poll
<1> QED
  BY <1>1, <1>2 DEF SoundPoll

(* ... when it goes back to its list, ...                                      *)
LEMMA PollGoesBack ==
  ASSUME SoundPoll(poll), Back
  PROVE  SoundPoll(poll') /\ poll'.pc \in Backs
<1>1. poll.back \in Backs
  BY DEF SoundPoll, Poll, Backs
<1>2. poll' \in Poll
  BY <1>1 DEF SoundPoll, Back, Poll, Backs
<1>3. poll'.pc = poll.back /\ poll'.todo = poll.todo /\ poll'.claimed = NoPanel
  BY DEF SoundPoll, Back, Poll
<1> QED
  BY <1>1, <1>2, <1>3 DEF SoundPoll, Backs

(* ... when it starts a sweep over some runs, ...                              *)
LEMMA PollSweeps ==
  ASSUME SoundPoll(poll), NEW S \in SUBSET Panels, NEW n \in Nexts, Sweeping(S, n),
         \A p \in S : Exists(p), poll.pc \notin Skipping
  PROVE  SoundPoll(poll') /\ poll'.pc = "sweep"
<1>1. poll' \in Poll
  BY DEF SoundPoll, Sweeping, Poll, Nexts
<1>2. poll'.pc = "sweep" /\ poll'.todo = S /\ poll'.next = n /\ poll'.claimed = poll.claimed
  BY DEF SoundPoll, Sweeping, Poll
<1> QED
  BY <1>1, <1>2 DEF SoundPoll, Nexts

(* ... when it takes a head in hand, ...                                       *)
LEMMA PollTakes ==
  ASSUME SoundPoll(poll), poll.pc \notin Skipping,
         NEW h \in Heads \cup {NoHead}, NEW b \in Backs,
         NEW seen \in [Heads -> Glimpse],
         poll' = InHand(h, b) \/ poll' = [InHand(h, b) EXCEPT !.seen = seen]
  PROVE  SoundPoll(poll') /\ poll'.pc = "filter"
<1> DEFINE x == InHand(h, b)
<1>1. x \in Poll
  BY DEF SoundPoll, InHand, Poll, Backs
<1>2. x.pc = "filter" /\ x.todo = poll.todo /\ x.claimed = poll.claimed
  BY DEF SoundPoll, InHand, Poll
<1> HIDE DEF x
<1>3. poll' = x \/ poll' = [x EXCEPT !.seen = seen]
  BY DEF x
<1>4. poll' \in Poll
  BY <1>1, <1>3 DEF Poll
<1>5. poll'.pc = "filter" /\ poll'.todo = poll.todo /\ poll'.claimed = poll.claimed
  BY <1>1, <1>2, <1>3 DEF Poll
<1> QED
  BY <1>4, <1>5 DEF SoundPoll

(* ... when it drops a head from its list, ...                                 *)
LEMMA PollDrops ==
  ASSUME SoundPoll(poll), NEW h,
         poll' = [poll EXCEPT !.hs = @ \ {h}]
  PROVE  SoundPoll(poll') /\ poll'.pc = poll.pc
<1>1. poll' \in Poll
  BY DEF SoundPoll, Poll
<1>2. /\ poll'.pc = poll.pc /\ poll'.todo = poll.todo /\ poll'.next = poll.next
      /\ poll'.claimed = poll.claimed
  BY DEF SoundPoll, Poll
<1> QED
  BY <1>1, <1>2 DEF SoundPoll

(* ... and when it is done with one run of a sweep.                            *)
LEMMA PollPasses ==
  ASSUME SoundPoll(poll), poll.pc \notin Skipping, NEW p,
         \/ /\ poll.next # "none"
            /\ poll' = [poll EXCEPT !.pc = "sweep", !.todo = @ \ {p}]
         \/ /\ poll.pc \notin {"sweep", "cancel", "delete"}
            /\ poll' = [poll EXCEPT !.todo = @ \ {p}]
  PROVE  SoundPoll(poll') /\ poll'.pc \in {"sweep", poll.pc}
<1>1. poll' \in Poll
  BY DEF SoundPoll, Poll
<1>2. /\ poll'.pc \in {"sweep", poll.pc} /\ poll'.todo = poll.todo \ {p}
      /\ poll'.next = poll.next /\ poll'.claimed = poll.claimed
      /\ poll'.pc \notin {"cancel", "delete"}
      /\ poll'.pc = "sweep" => poll.next # "none"
  BY DEF SoundPoll, Poll
<1> QED
  BY <1>1, <1>2 DEF SoundPoll

NoneSeen == [h \in Heads |-> Unseen]

(* A loop that has looked at no attempt has a well formed memory of them.      *)
LEMMA NoneSeenTyped == NoneSeen \in [Heads -> Glimpse]
BY DEF NoneSeen, Unseen, Glimpse

(* So has the loop before its first poll.                                      *)
LEMMA NoPollSound == SoundPoll(NoPoll)
<1>1. NoPoll = [pc |-> "idle", head |-> NoHead, target |-> NoHead, back |-> "stuck",
                seen |-> NoneSeen, todo |-> {}, hs |-> {}, next |-> "none", claimed |-> NoPanel]
  BY DEF NoPoll, NoneSeen
<1>2. NoPoll \in Poll
  BY <1>1, NoneSeenTyped DEF Poll
<1> QED
  BY <1>1, <1>2 DEF SoundPoll

(* A fresh list holds no run and no claim.                                     *)
LEMMA ListedTyped ==
  ASSUME SoundPoll(poll), NEW pc \in PollPcs
  PROVE  /\ Listed(pc) \in Poll /\ Listed(pc).pc = pc
         /\ Listed(pc).todo = {} /\ Listed(pc).claimed = NoPanel
<1>1. NoPoll \in Poll /\ NoPoll.todo = {} /\ NoPoll.claimed = NoPanel
  BY NoPollSound DEF SoundPoll, NoPoll
<1>2. poll.head \in Heads \cup {NoHead}
  BY DEF SoundPoll, Poll
<1>p. ASSUME NEW x \in Poll, NEW h \in Heads \cup {NoHead}
      PROVE  [x EXCEPT !.pc = pc, !.head = h] \in Poll
  BY DEF Poll, PollPcs
<1>3. Listed(pc) \in Poll
  BY <1>1, <1>2, <1>p DEF Listed
<1>4. Listed(pc).pc = pc
  BY <1>1 DEF Listed, Poll
<1>5. Listed(pc).todo = {}
  BY <1>1 DEF Listed, Poll
<1>6. Listed(pc).claimed = NoPanel
  BY <1>1 DEF Listed, Poll
<1> QED
  BY <1>3, <1>4, <1>5, <1>6

ListPcs == {"rearm", "due", "posting", "health", "status"}

(* The loop lists the runs it will sweep, ...                                  *)
LEMMA PollListsRows ==
  ASSUME SoundPoll(poll), NEW pc \in ListPcs, NEW S \in SUBSET Panels, \A p \in S : Exists(p),
         poll' = [Listed(pc) EXCEPT !.todo = S]
  PROVE  SoundPoll(poll') /\ poll'.pc # "skip"
<1> DEFINE x == Listed(pc)
<1>1. x \in Poll /\ x.pc = pc /\ x.todo = {} /\ x.claimed = NoPanel
  BY ListedTyped DEF PollPcs, ListPcs
<1> HIDE DEF x
<1>2. poll' = [x EXCEPT !.todo = S]
  BY DEF x
<1>3. poll' \in Poll
  BY <1>1, <1>2 DEF Poll
<1>4. poll'.pc = pc /\ poll'.todo = S /\ poll'.claimed = NoPanel
  BY <1>1, <1>2 DEF Poll
<1> QED
  BY <1>3, <1>4 DEF SoundPoll, ListPcs

(* ... or the heads it will look at.                                           *)
LEMMA PollListsHeads ==
  ASSUME SoundPoll(poll), NEW pc \in ListPcs, NEW b \in Backs, NEW H \in SUBSET Heads,
         NEW seen \in [Heads -> Glimpse],
         \/ poll' = [Listed(pc) EXCEPT !.hs = H]
         \/ poll' = [Listed(pc) EXCEPT !.back = b, !.hs = H, !.seen = seen]
  PROVE  SoundPoll(poll') /\ poll'.pc # "skip"
<1> DEFINE x == Listed(pc)
<1>1. x \in Poll /\ x.pc = pc /\ x.todo = {} /\ x.claimed = NoPanel
  BY ListedTyped DEF PollPcs, ListPcs
<1> HIDE DEF x
<1>2. \/ poll' = [x EXCEPT !.hs = H]
      \/ poll' = [x EXCEPT !.back = b, !.hs = H, !.seen = seen]
  BY DEF x
<1>3. [x EXCEPT !.hs = H] \in Poll
  BY <1>1 DEF Poll
<1>4. [x EXCEPT !.back = b, !.hs = H, !.seen = seen] \in Poll
  BY <1>1 DEF Poll, Backs
<1>5. poll' \in Poll
  BY <1>2, <1>3, <1>4
<1>6. poll'.pc = pc /\ poll'.todo = {} /\ poll'.claimed = NoPanel
  BY <1>1, <1>2 DEF Poll
<1> QED
  BY <1>5, <1>6 DEF SoundPoll, ListPcs

(* What the loop remembers of the attempts it has just read is a glimpse.      *)
LEMMA SeenTyped ==
  ASSUME CInv, NEW H, \A h \in Heads : h \in H => att[h].st \in {"none", "deferred", "done"}
  PROVE  SeenAll(H) \in [Heads -> Glimpse]
<1>1. \A h \in Heads : h \in H => Glimpsed(h) \in Glimpse
  BY DEF Glimpsed, Glimpse, CInv, CTypeOK, Attempt
<1>2. Unseen \in Glimpse
  BY DEF Unseen, Glimpse
<1> QED
  BY <1>1, <1>2 DEF SeenAll

-------------------------------------------------------------------------------
(* A step of the poll loop.                                                    *)

PollingSteps ==
  /\ RowSteps /\ att' \in [Heads -> Attempt] /\ SoundPoll(poll')
  /\ post' \in [Posters -> Poster]
  /\ \A a \in Posters : \/ post'[a] = post[a]
                        \/ /\ post'[a].pc \in {"target", "status"}
                           /\ post'[a].panel \in Panels /\ Exists(post'[a].panel)
  /\ events' \in SUBSET Panels /\ \A p \in events' : Exists(p)
  /\ comments' = comments /\ excuses' \in [Panels -> Nat]
  /\ upsets' \in 0 .. MaxUpsets
  /\ UNCHANGED <<pr, cn>>
  /\ poll'.pc = "skip" => ClaimSkip
  /\ poll' = poll => \A h \in Heads : att[h].st # "none" => att'[h].st # "none"
  /\ (UNCHANGED <<comments, excuses, post>> /\ NoneFreed) \/ PostEnded \/ SendStatus

(* A step of the poll loop is sound once its parts are.                        *)
LEMMA AssemblePoll ==
  ASSUME CInv, RowSteps, NoneFreed, att' \in [Heads -> Attempt],
         SoundPoll(poll'), poll'.pc # "skip" \/ ClaimSkip,
         events' \in SUBSET Panels, \A p \in events' : Exists(p),
         UNCHANGED <<pr, comments, excuses, post, cn>>,
         UNCHANGED upsets \/ Works \/ Fails,
         poll' # poll \/ \A h \in Heads : att[h].st # "none" => att'[h].st # "none"
  PROVE  PollingSteps
BY CIAssumption DEF PollingSteps, CInv, CTypeOK, Works, Fails, Upset

(* Events are about runs that exist.                                           *)
LEMMA EventsExist ==
  ASSUME CInv
  PROVE  events \in SUBSET Panels /\ \A p \in events : Exists(p)
BY DEF CInv, CTypeOK, Known

(* A step that changes nothing but the poll loop.                              *)
LEMMA PollOnlySteps ==
  ASSUME CInv, PollOnly, SoundPoll(poll'), poll'.pc # "skip"
  PROVE  PollingSteps
<1>1. RowSteps /\ NoneFreed
  BY SameRows DEF CInv, PollOnly
<1>2. att' \in [Heads -> Attempt] /\ att' = att
  BY DEF CInv, CTypeOK, PollOnly
<1>3. /\ events' \in SUBSET Panels /\ \A p \in events' : Exists(p)
      /\ UNCHANGED <<pr, comments, excuses, post, cn, upsets>>
  BY EventsExist DEF PollOnly
<1> QED
  BY <1>1, <1>2, <1>3, AssemblePoll

PollReads ==
  \/ BeginPoll \/ Clean \/ SweepDone \/ Check \/ Rest \/ Throttle \/ EnqueueNew \/ ListStuck
  \/ ListDue \/ ListEnded \/ ListGivenUp \/ ListStatuses \/ EndPoll

(* A step in which the poll loop reads.                                        *)
LEMMA PollReadsSteps ==
  ASSUME CInv, PollReads
  PROVE  PollingSteps
<1>0. SoundPoll(poll) /\ SoundPoll(NoPoll) /\ NoneSeen \in [Heads -> Glimpse]
  BY PollIsSound, NoPollSound, NoneSeenTyped
<1>u. \A p \in Panels : Unposted(p) => Exists(p)
  BY DEF Unposted
<1>b. Back => SoundPoll(poll') /\ poll'.pc # "skip"
  BY <1>0, PollGoesBack DEF Backs
<1>s. ASSUME NEW S \in SUBSET Panels, NEW n \in Nexts, \A p \in S : Exists(p),
             Sweeping(S, n), poll.pc \notin Skipping
      PROVE  SoundPoll(poll') /\ poll'.pc # "skip"
  BY <1>0, <1>s, PollSweeps
<1>1. CASE BeginPoll
  <2>1. PollOnly
    BY <1>1 DEF BeginPoll
  <2>2. pr.head \in Heads
    BY DEF CInv, CTypeOK
  <2> DEFINE H == IF pr.open THEN pr.head ELSE NoHead
  <2>3. H \in Heads \cup {NoHead}
    BY <2>2
  <2>4. poll' = [NoPoll EXCEPT !.pc = "clean", !.head = H, !.target = H]
    BY <1>1 DEF BeginPoll
  <2> HIDE DEF H
  <2>5. ASSUME NEW x, SoundPoll(x), x.claimed = NoPanel,
               poll' = [x EXCEPT !.pc = "clean", !.head = H, !.target = H]
        PROVE  SoundPoll(poll') /\ poll'.pc # "skip"
    <3>1. poll' \in Poll
      BY <2>3, <2>5 DEF SoundPoll, Poll
    <3>2. poll'.pc = "clean" /\ poll'.todo = x.todo /\ poll'.claimed = NoPanel
      BY <2>5 DEF SoundPoll, Poll
    <3> QED
      BY <3>1, <3>2, <2>5 DEF SoundPoll
  <2>6. NoPoll.claimed = NoPanel
    BY DEF NoPoll
  <2> QED
    BY <1>0, <2>1, <2>4, <2>5, <2>6, PollOnlySteps
<1>2. CASE Clean
  <2>1. PollOnly /\ poll.pc \notin Skipping
    BY <1>2 DEF Clean, PollAt, Skipping
  <2>2. \/ Sweeping({p \in Panels : Unposted(p) /\ panel[p].retired}, "check")
        \/ Sweeping({p \in Panels : Unposted(p)}, "forget")
        \/ Back
    BY <1>2 DEF Clean
  <2>3. SoundPoll(poll') /\ poll'.pc # "skip"
    BY <1>b, <1>s, <1>u, <2>1, <2>2 DEF Nexts
  <2> QED
    BY <2>1, <2>3, PollOnlySteps
<1>3. CASE SweepDone
  <2>1. PollOnly /\ poll.pc = "sweep" /\ poll.todo = {}
    BY <1>3 DEF SweepDone, PollAt
  <2>2. poll.next \in Nexts /\ poll.claimed = NoPanel
    BY <1>0, <2>1 DEF SoundPoll, Poll, Nexts, Skipping
  <2>3. poll' = [poll EXCEPT !.pc = poll.next, !.next = "none"]
    BY <1>3 DEF SweepDone
  <2>4. poll' \in Poll
    BY <1>0, <2>2, <2>3 DEF SoundPoll, Poll, Nexts
  <2>5. poll'.pc = poll.next /\ poll'.todo = poll.todo /\ poll'.claimed = poll.claimed
    BY <1>0, <2>3 DEF SoundPoll, Poll
  <2>6. SoundPoll(poll') /\ poll'.pc # "skip"
    BY <2>1, <2>2, <2>4, <2>5 DEF SoundPoll, Nexts
  <2> QED
    BY <2>1, <2>6, PollOnlySteps
<1>4. CASE Check
  <2> DEFINE h == poll.head
  <2>1. PollOnly /\ poll.pc \notin Skipping
    BY <1>4 DEF Check, PollAt, Skipping
  <2>2. CASE /\ att[h].st \in {"none", "deferred"}
             /\ poll' = [InHand(h, "stuck") EXCEPT !.seen = SeenAll({h})]
    <3>1. SeenAll({h}) \in [Heads -> Glimpse]
      BY <2>2, SeenTyped
    <3>2. h \in Heads \cup {NoHead}
      BY <1>0 DEF SoundPoll, Poll
    <3>3. SoundPoll(poll') /\ poll'.pc # "skip"
      BY <1>0, <2>1, <2>2, <3>1, <3>2, PollTakes DEF Backs
    <3> QED
      BY <2>1, <3>3, PollOnlySteps
  <2> QED
    BY <1>4, <1>b, <2>1, <2>2, PollOnlySteps DEF Check
<1>5. CASE Rest
  BY <1>5, <1>b, PollOnlySteps DEF Rest
<1>6. CASE Throttle
  <2>1. PollOnly /\ poll.pc \notin Skipping
    BY <1>6 DEF Throttle, NewHead, PollAt, Skipping
  <2>2. SoundPoll(poll') /\ poll'.pc # "skip"
    BY <1>6, <1>s, <1>u, <2>1 DEF Throttle, Nexts, Superseded
  <2> QED
    BY <2>1, <2>2, PollOnlySteps
<1>7. CASE EnqueueNew
  <2>1. PollOnly /\ poll.pc = "filter" /\ GoTo("fetch")
    BY <1>7 DEF EnqueueNew, NewHead, PollAt
  <2>2. SoundPoll(poll') /\ poll'.pc # "skip"
    BY <1>0, <2>1, PollGoes DEF PollPcs, Skipping
  <2> QED
    BY <2>1, <2>2, PollOnlySteps
<1>8. CASE ListStuck
  <2> DEFINE H == {h \in Heads : att[h].st = "pending" /\ AttemptStuck(h)}
  <2>1. PollOnly /\ poll' = [Listed("rearm") EXCEPT !.hs = H]
    BY <1>8 DEF ListStuck
  <2>2. H \in SUBSET Heads /\ {} \in SUBSET Panels
    OBVIOUS
  <2> HIDE DEF H
  <2>3. SoundPoll(poll') /\ poll'.pc # "skip"
    BY <1>0, <2>1, <2>2, PollListsHeads DEF Backs, ListPcs
  <2> QED
    BY <2>1, <2>3, PollOnlySteps
<1>9. CASE ListDue
  <2> DEFINE H == {h \in Heads : att[h].st = "deferred" /\ att[h].due}
  <2>1. PollOnly /\ poll' = [Listed("due") EXCEPT !.back = "due", !.hs = H, !.seen = SeenAll(H)]
    BY <1>9 DEF ListDue
  <2>2. H \in SUBSET Heads /\ {} \in SUBSET Panels /\ SeenAll(H) \in [Heads -> Glimpse]
    BY SeenTyped
  <2> HIDE DEF H
  <2>3. SoundPoll(poll') /\ poll'.pc # "skip"
    BY <1>0, <2>1, <2>2, PollListsHeads DEF Backs, ListPcs
  <2> QED
    BY <2>1, <2>3, PollOnlySteps
<1>10. CASE ListEnded
  <2> DEFINE S == {p \in Panels : Active(p) /\ panel[p].synth = "ended"}
  <2>1. PollOnly /\ poll' = [Listed("posting") EXCEPT !.todo = S]
    BY <1>10 DEF ListEnded
  <2>2. S \in SUBSET Panels /\ {} \in SUBSET Heads /\ \A p \in S : Exists(p)
    BY DEF Active, Unposted
  <2> HIDE DEF S
  <2>3. SoundPoll(poll') /\ poll'.pc # "skip"
    BY <1>0, <2>1, <2>2, PollListsRows DEF Backs, ListPcs
  <2> QED
    BY <2>1, <2>3, PollOnlySteps
<1>11. CASE ListGivenUp
  <2> DEFINE H == {h \in Heads : GaveUp(h) /\ poll.head # NoHead}
  <2>1. /\ PollOnly
        /\ poll' = [Listed("health") EXCEPT !.back = "health", !.hs = H, !.seen = SeenAll(H)]
    BY <1>11 DEF ListGivenUp
  <2>2. H \in SUBSET Heads /\ {} \in SUBSET Panels /\ SeenAll(H) \in [Heads -> Glimpse]
    BY SeenTyped DEF GaveUp
  <2> HIDE DEF H
  <2>3. SoundPoll(poll') /\ poll'.pc # "skip"
    BY <1>0, <2>1, <2>2, PollListsHeads DEF Backs, ListPcs
  <2> QED
    BY <2>1, <2>3, PollOnlySteps
<1>12. CASE ListStatuses
  <2> DEFINE S == {p \in Panels : panel[p].posted /\ ~panel[p].retired /\ panel[p].status}
  <2>1. PollOnly /\ poll' = [Listed("status") EXCEPT !.todo = S]
    BY <1>12 DEF ListStatuses
  <2>2. S \in SUBSET Panels /\ {} \in SUBSET Heads /\ \A p \in S : Exists(p)
    BY DEF CInv, Known, Decided
  <2> HIDE DEF S
  <2>3. SoundPoll(poll') /\ poll'.pc # "skip"
    BY <1>0, <2>1, <2>2, PollListsRows DEF Backs, ListPcs
  <2> QED
    BY <2>1, <2>3, PollOnlySteps
<1>13. CASE EndPoll
  <2>1. PollOnly /\ poll' = NoPoll /\ NoPoll.pc # "skip"
    BY <1>13 DEF EndPoll, NoPoll
  <2> QED
    BY <1>0, <2>1, PollOnlySteps
<1> QED
  BY <1>1, <1>2, <1>3, <1>4, <1>5, <1>6, <1>7, <1>8, <1>9, <1>10, <1>11, <1>12, <1>13
     DEF PollReads

(* A poster starts on a run that exists, and no other poster moves.            *)
LEMMA StartPostSteps ==
  ASSUME CInv, NEW a \in Posters, NEW p \in Panels, StartPost(a, p)
  PROVE  /\ RowSteps /\ post' \in [Posters -> Poster] /\ excuses' \in [Panels -> Nat]
         /\ \A b \in Posters : \/ post'[b] = post[b]
                               \/ b = a /\ post'[b].pc = "target" /\ post'[b].panel = p /\ Exists(p)
<1>t. CTypeOK
  BY DEF CInv
<1> DEFINE r == [panel[p] EXCEPT !.claim = "fresh"]
           e == [NoPost EXCEPT !.pc = "target", !.panel = p]
<1>1. CASE /\ Active(p) /\ panel' = [panel EXCEPT ![p] = r] /\ post' = [post EXCEPT ![a] = e]
           /\ UNCHANGED excuses \/ Excused(p)
  <2>1. r \in Row /\ r.synth = panel[p].synth /\ r.head = panel[p].head
    BY <1>t, RowTyped DEF Row
  <2>2. /\ panel' \in [Panels -> Row] /\ panel'[p] = r
        /\ \A q \in Panels : q # p => panel'[q] = panel[q]
    BY <1>1, <1>t, <2>1, PutRow
  <2>3. LaterRow(p) /\ Exists(p)
    BY <1>1, <2>1, <2>2 DEF LaterRow, Active, Unposted, Exists
  <2>4. RowSteps
    BY <2>2, <2>3 DEF RowSteps, RowStep
  <2>5. e \in Poster /\ e.pc = "target" /\ e.panel = p
    BY DEF NoPost, Poster
  <2>6. /\ post' \in [Posters -> Poster] /\ post'[a] = e
        /\ \A b \in Posters : b # a => post'[b] = post[b]
    BY <1>1, <1>t, <2>5, PutPost
  <2>7. excuses' \in [Panels -> Nat]
    BY <1>1, <1>t, CountedOnce
  <2> QED
    BY <2>3, <2>4, <2>5, <2>6, <2>7
<1>2. CASE UNCHANGED <<panel, post, excuses>>
  BY <1>2, <1>t, SameRows DEF CTypeOK
<1> QED
  BY <1>1, <1>2 DEF StartPost

PollWrites ==
  \/ SweepRetire \/ SweepCancel \/ SweepDelete \/ Forget \/ ClaimSkip \/ Skip \/ Skipped
  \/ QuietHours \/ ClaimDue \/ Fetch \/ Create \/ Disabled \/ PostEnded \/ SendStatus
  \/ \E h \in Heads : Rearm(h) \/ RetryDue(h) \/ Review(h)

(* A step in which the poll loop writes.                                       *)
LEMMA PollWritesSteps ==
  ASSUME CInv, PollWrites
  PROVE  PollingSteps
<1>t. CTypeOK /\ SoundPoll(poll)
  BY PollIsSound DEF CInv
<1>e. events \in SUBSET Panels /\ \A p \in events : Exists(p)
  BY EventsExist
<1>f. ASSUME NEW H, ForgetAttempts(H)
      PROVE  RowSteps /\ NoneFreed /\ att' \in [Heads -> Attempt]
  <2>1. RowSteps /\ NoneFreed
    BY <1>f, <1>t, ForgottenRows DEF CInv, Known
  <2> QED
    BY <1>f, <2>1, ForgottenTyped
<1>s. UNCHANGED panel => RowSteps /\ NoneFreed
  BY <1>t, SameRows
<1>a. UNCHANGED att => /\ att' \in [Heads -> Attempt]
                       /\ \A h \in Heads : att[h].st # "none" => att'[h].st # "none"
  BY DEF CInv, CTypeOK
<1>b. Back => SoundPoll(poll') /\ poll'.pc \in Backs
  BY <1>t, PollGoesBack
<1>n. poll.todo # {} => NextTodo \in poll.todo /\ NextTodo \in Panels /\ Exists(NextTodo)
  BY <1>t, NextTodoIn DEF SoundPoll, Poll
<1>1. CASE SweepRetire
  <2>1. /\ poll.pc = "sweep" /\ poll.todo # {} /\ GoTo("cancel")
        /\ UNCHANGED <<pr, att, comments, excuses, post, events, cn, upsets>>
    BY <1>1 DEF SweepRetire, PollAt
  <2>2. RowSteps /\ NoneFreed
    BY <1>1, <1>t, <1>n, RetireRow DEF SweepRetire
  <2>3. SoundPoll(poll') /\ poll'.pc = "cancel"
    BY <1>t, <2>1, PollGoes DEF PollPcs, Skipping, SoundPoll
  <2> QED
    BY <1>a, <1>e, <2>1, <2>2, <2>3, AssemblePoll
<1>2. CASE SweepCancel
  <2> DEFINE p == NextTodo
             r == [panel[p] EXCEPT !.synth = "canceled"]
  <2>1. /\ poll.pc = "cancel" /\ UNCHANGED <<pr, att, comments, excuses, post, cn, upsets>>
        /\ GoTo("delete") \/ poll' = [poll EXCEPT !.pc = "sweep", !.todo = @ \ {p}]
    BY <1>2 DEF SweepCancel, PollAt
  <2>2. p \in Panels /\ Exists(p) /\ poll.todo # {} /\ poll.next # "none"
    BY <1>n, <1>t, <2>1 DEF SoundPoll
  <2>3. events' \in SUBSET Panels /\ \A q \in events' : Exists(q)
    BY <1>2, <1>e, <2>2 DEF SweepCancel
  <2>4. RowSteps /\ NoneFreed
    <3>1. CASE panel' = [panel EXCEPT ![p] = r]
      <4>1. /\ r \in Row /\ r.synth = "canceled" /\ r.head = panel[p].head
            /\ r.posted = panel[p].posted /\ r.retired = panel[p].retired
            /\ r.outcome = panel[p].outcome /\ r.claim = panel[p].claim
        BY <1>t, <2>2, RowTyped DEF Row
      <4> HIDE DEF r
      <4>2. /\ panel' \in [Panels -> Row] /\ panel'[p] = r
            /\ \A q \in Panels : q # p => panel'[q] = panel[q]
        BY <1>t, <2>2, <3>1, <4>1, PutRow
      <4>3. LaterRow(p) /\ LeaseKept(p)
        BY <2>2, <4>1, <4>2 DEF LaterRow, LeaseKept, Exists, Decided
      <4> QED
        BY <4>2, <4>3 DEF RowSteps, RowStep, NoneFreed, LeaseKept, Decided
    <3> QED
      BY <1>2, <3>1, <1>s DEF SweepCancel
  <2>5. SoundPoll(poll') /\ poll'.pc \in {"delete", "sweep"}
    <3>1. CASE GoTo("delete")
      BY <1>t, <2>1, <2>2, <3>1, PollGoes DEF PollPcs, Skipping
    <3>2. CASE poll' = [poll EXCEPT !.pc = "sweep", !.todo = @ \ {p}]
      <4>1. SoundPoll(poll')
        BY <1>t, <2>1, <2>2, <3>2, PollPasses DEF Skipping
      <4>2. poll'.pc = "sweep"
        BY <1>t, <3>2 DEF SoundPoll, Poll
      <4> QED
        BY <4>1, <4>2
    <3> QED
      BY <2>1, <3>1, <3>2
  <2> QED
    BY <1>a, <2>1, <2>3, <2>4, <2>5, AssemblePoll
<1>3. CASE SweepDelete
  <2> DEFINE p == NextTodo
  <2>1. /\ poll.pc = "delete" /\ UNCHANGED <<pr, comments, excuses, post, events, cn, upsets>>
        /\ ForgetAttempts({panel[p].head})
        /\ poll' = [poll EXCEPT !.pc = "sweep", !.todo = @ \ {p}]
    BY <1>3 DEF SweepDelete, PollAt
  <2>2. SoundPoll(poll')
    BY <1>t, <2>1, PollPasses DEF Skipping, SoundPoll
  <2>3. poll'.pc = "sweep"
    BY <1>t, <2>1 DEF SoundPoll, Poll
  <2>4. RowSteps /\ NoneFreed /\ att' \in [Heads -> Attempt]
    BY <1>f, <2>1
  <2> QED
    BY <1>e, <2>1, <2>2, <2>3, <2>4, AssemblePoll
<1>4. CASE Forget
  <2>1. /\ poll.pc = "forget" /\ UNCHANGED <<pr, comments, excuses, post, events, cn, upsets>>
        /\ ForgetAttempts(Heads) /\ GoTo("stuck")
    BY <1>4 DEF Forget, PollAt
  <2>2. SoundPoll(poll') /\ poll'.pc = "stuck"
    BY <1>t, <2>1, PollGoes DEF PollPcs, Skipping
  <2>4. RowSteps /\ NoneFreed /\ att' \in [Heads -> Attempt]
    BY <1>f, <2>1
  <2> QED
    BY <1>e, <2>1, <2>2, <2>4, AssemblePoll
<1>5. CASE ClaimSkip
  <2> DEFINE p == Latest(poll.target)
             r == [panel[p] EXCEPT !.claim = "fresh"]
  <2>1. /\ poll.pc = "filter" /\ UNCHANGED <<pr, att, comments, excuses, post, events, cn, upsets>>
    BY <1>5 DEF ClaimSkip, PollAt
  <2>2. CASE GoTo("skip") /\ UNCHANGED panel
    <3>1. SoundPoll(poll')
      BY <1>t, <2>1, <2>2, PollGoes DEF PollPcs, Skipping
    <3> QED
      BY <1>5, <1>a, <1>e, <1>s, <2>1, <2>2, <3>1, AssemblePoll
  <2>3. CASE /\ p # NoPanel /\ Decided(p)
             /\ panel' = [panel EXCEPT ![p] = r]
             /\ poll' = [poll EXCEPT !.pc = "skip", !.claimed = p]
    <3>1. p \in Panels /\ Exists(p)
      BY <2>3, LatestTyped DEF Of
    <3>2. /\ r \in Row /\ r.synth = panel[p].synth /\ r.head = panel[p].head
          /\ r.posted = panel[p].posted /\ r.retired = panel[p].retired
          /\ r.outcome = panel[p].outcome
      BY <1>t, <3>1, RowTyped DEF Row
    <3> HIDE DEF r
    <3>3. /\ panel' \in [Panels -> Row] /\ panel'[p] = r
          /\ \A q \in Panels : q # p => panel'[q] = panel[q]
      BY <1>t, <2>3, <3>1, <3>2, PutRow
    <3> HIDE DEF p
    <3>4. LaterRow(p) /\ LeaseKept(p)
      BY <2>1, <2>3, <3>1, <3>2, <3>3 DEF LaterRow, LeaseKept, Exists, Decided, PollAt
    <3>5. RowSteps /\ NoneFreed
      BY <3>3, <3>4 DEF RowSteps, RowStep, NoneFreed, LeaseKept, Decided
    <3>6. poll' \in Poll
      BY <1>t, <2>3, <3>1 DEF SoundPoll, Poll
    <3>7. poll'.pc = "skip" /\ poll'.claimed = p /\ poll'.todo = poll.todo
      BY <1>t, <2>3, <3>1 DEF SoundPoll, Poll
    <3>8. SoundPoll(poll')
      BY <1>t, <2>3, <3>1, <3>6, <3>7 DEF SoundPoll, Skipping
    <3> QED
      BY <1>5, <1>a, <1>e, <2>1, <3>5, <3>8, AssemblePoll
  <2>4. CASE Back /\ UNCHANGED panel
    BY <1>5, <1>a, <1>b, <1>e, <1>s, <2>1, <2>4, AssemblePoll
  <2> QED
    BY <1>5, <2>2, <2>3, <2>4 DEF ClaimSkip, Decided
<1>6. CASE Skip
  <2>1. poll.pc = "skip" /\ UNCHANGED <<pr, comments, excuses, post, events, cn>>
    BY <1>6 DEF Skip, PollAt
  <2>2. CASE Works /\ ForgetAttempts({poll.target}) /\ GoTo("skipped")
    <3>1. SoundPoll(poll') /\ poll'.pc = "skipped"
      BY <1>t, <2>1, <2>2, PollGoes DEF PollPcs, Skipping
    <3>2. RowSteps /\ NoneFreed /\ att' \in [Heads -> Attempt]
      BY <1>f, <2>2
    <3> QED
      BY <1>e, <2>1, <2>2, <3>1, <3>2, AssemblePoll
  <2>3. CASE Fails /\ Unclaimed /\ Back /\ UNCHANGED att
    <3> DEFINE p == poll.claimed
    <3>1. CASE UNCHANGED panel
      BY <1>a, <1>b, <1>e, <1>s, <2>1, <2>3, <3>1, AssemblePoll DEF Backs
    <3>2. CASE p # NoPanel /\ Released(p)
      <4>1. p \in Panels /\ Exists(p) /\ Decided(p)
        BY <1>t, <3>2 DEF SoundPoll
      <4>2. /\ RowSteps /\ panel'[p] = [panel[p] EXCEPT !.claim = "none"]
            /\ \A q \in Panels : q # p => panel'[q] = panel[q]
        BY <1>t, <3>2, <4>1, ReleasedRow
      <4>3. panel'[p].posted = panel[p].posted /\ panel'[p].retired = panel[p].retired
        BY <1>t, <4>1, <4>2, RowTyped DEF Row
      <4> HIDE DEF p
      <4>d. panel'[p].posted \/ panel'[p].retired
        BY <4>1, <4>3 DEF Decided
      <4>4. NoneFreed
        BY <4>2, <4>d DEF NoneFreed, LeaseKept, Decided
      <4> QED
        BY <1>a, <1>b, <1>e, <2>1, <2>3, <4>2, <4>4, AssemblePoll DEF Backs
    <3> QED
      BY <2>3, <3>1, <3>2 DEF Unclaimed
  <2> QED
    BY <1>6, <2>2, <2>3 DEF Skip
<1>7. CASE Skipped
  <2> DEFINE r(p) == [panel[p] EXCEPT !.status = FALSE, !.claim = "none"]
  <2>1. /\ Back /\ UNCHANGED <<pr, att, comments, excuses, post, events, cn, upsets>>
        /\ panel' = [p \in Panels |-> IF p = poll.claimed THEN r(p) ELSE panel[p]]
    BY <1>7 DEF Skipped
  <2>2. \A p \in Panels :
          /\ r(p) \in Row /\ r(p).synth = panel[p].synth /\ r(p).head = panel[p].head
          /\ r(p).posted = panel[p].posted /\ r(p).retired = panel[p].retired
          /\ r(p).outcome = panel[p].outcome /\ r(p).claim = "none"
    BY <1>t, RowTyped DEF Row
  <2>3. \A p \in Panels : p = poll.claimed => Exists(p) /\ Decided(p)
    BY <1>t, CIAssumption DEF SoundPoll, Panels, NoPanel
  <2> HIDE DEF r
  <2>4. panel' \in [Panels -> Row]
    BY <1>t, <2>1, <2>2, RowTyped
  <2>5. \A p \in Panels : RowStep(p) /\ (Exists(p) => LeaseKept(p))
    BY <2>1, <2>2, <2>3 DEF RowStep, LaterRow, LeaseKept, Exists, Decided
  <2>6. RowSteps /\ NoneFreed
    BY <2>4, <2>5 DEF RowSteps, NoneFreed
  <2> QED
    BY <1>a, <1>b, <1>e, <2>1, <2>6, AssemblePoll DEF Backs
<1>8. CASE QuietHours
  <2> DEFINE r(p) == [panel[p] EXCEPT !.keep = TRUE]
  <2>1. /\ Back /\ UNCHANGED <<pr, att, comments, excuses, post, events, cn, upsets>>
        /\ panel' = [p \in Panels |-> IF Active(p) /\ panel[p].head # poll.target
                                      THEN r(p) ELSE panel[p]]
    BY <1>8 DEF QuietHours
  <2>2. \A p \in Panels :
          /\ r(p) \in Row /\ r(p).synth = panel[p].synth /\ r(p).head = panel[p].head
          /\ r(p).posted = panel[p].posted /\ r(p).retired = panel[p].retired
          /\ r(p).outcome = panel[p].outcome /\ r(p).claim = panel[p].claim
    BY <1>t, RowTyped DEF Row
  <2>3. \A p \in Panels : Active(p) => Exists(p)
    BY DEF Active, Unposted
  <2> HIDE DEF r
  <2>4. panel' \in [Panels -> Row]
    BY <1>t, <2>1, <2>2, RowTyped
  <2>5. \A p \in Panels : RowStep(p) /\ (Exists(p) => LeaseKept(p))
    BY <2>1, <2>2, <2>3 DEF RowStep, LaterRow, LeaseKept, Exists, Decided
  <2>6. RowSteps /\ NoneFreed
    BY <2>4, <2>5 DEF RowSteps, NoneFreed
  <2> QED
    BY <1>a, <1>b, <1>e, <2>1, <2>6, AssemblePoll DEF Backs
<1>9. CASE ClaimDue
  <2> DEFINE h == poll.target
             x == [att[h] EXCEPT !.st = "pending", !.due = FALSE]
  <2>1. /\ poll.pc = "filter"
        /\ UNCHANGED <<pr, panel, comments, excuses, post, events, cn, upsets>>
    BY <1>9 DEF ClaimDue, PollAt
  <2>2. CASE att' = [att EXCEPT ![h] = x] /\ GoTo("fetch")
    <3>1. h \in Heads => x \in Attempt /\ x.st = "pending"
      BY DEF CInv, CTypeOK, Attempt
    <3> HIDE DEF x
    <3>2. att' \in [Heads -> Attempt]
      BY <2>2, <3>1, PutAttempt
    <3>3. \A g \in Heads : att[g].st # "none" => att'[g].st # "none"
      BY <2>2, <3>1 DEF CInv
    <3>4. SoundPoll(poll') /\ poll'.pc = "fetch"
      BY <1>t, <2>1, <2>2, PollGoes DEF PollPcs, Skipping
    <3> QED
      BY <1>e, <1>s, <2>1, <3>2, <3>3, <3>4, AssemblePoll
  <2>3. CASE Back /\ UNCHANGED att
    BY <1>a, <1>b, <1>e, <1>s, <2>1, <2>3, AssemblePoll DEF Backs
  <2> QED
    BY <1>9, <2>2, <2>3 DEF ClaimDue
<1>10. CASE Fetch
  <2>1. /\ poll.pc = "fetch" /\ UNCHANGED <<pr, panel, att, comments, excuses, post, events, cn>>
        /\ Works \/ Fails
        /\ Sweeping(Superseded(poll.target), "create") \/ Back
    BY <1>10 DEF Fetch, PollAt
  <2>2. /\ Superseded(poll.target) \in SUBSET Panels
        /\ \A p \in Superseded(poll.target) : Exists(p)
    BY DEF Superseded, Unposted
  <2>3. SoundPoll(poll') /\ poll'.pc # "skip"
    BY <1>b, <1>t, <2>1, <2>2, PollSweeps DEF Skipping, Nexts, Backs
  <2> QED
    BY <1>a, <1>e, <1>s, <2>1, <2>3, AssemblePoll
<1>11. CASE Create
  <2> DEFINE h == poll.target
  <2>1. /\ Back /\ UNCHANGED <<pr, comments, excuses, post, events, cn>> /\ (Works \/ Fails)
    BY <1>11 DEF Create
  <2>2. CASE UNCHANGED <<panel, att>>
    BY <1>a, <1>b, <1>e, <1>s, <2>1, <2>2, AssemblePoll DEF Backs
  <2>3. ASSUME NEW n \in Panels, NextPanel(n), panel' = Inserted(n, h),
               att' = [att EXCEPT ![h] = Ensured(h)]
        PROVE  PollingSteps
    <3> DEFINE r == [Absent EXCEPT !.head = h, !.synth = "live"]
    <3>1. h \in Heads \cup {NoHead}
      BY <1>t DEF SoundPoll, Poll
    <3>2. /\ r \in Row /\ r.synth = "live" /\ r.claim = "none" /\ ~r.posted /\ ~r.retired
      BY <3>1 DEF Absent, Row
    <3>3. panel' = [panel EXCEPT ![n] = r]
      BY <2>3 DEF Inserted
    <3> HIDE DEF r
    <3>4. /\ panel' \in [Panels -> Row] /\ panel'[n] = r
          /\ \A q \in Panels : q # n => panel'[q] = panel[q]
      BY <1>t, <3>2, <3>3, PutRow
    <3>5. BornRow(n) /\ ~Exists(n)
      BY <2>3, <3>2, <3>4 DEF BornRow, NextPanel
    <3>6. RowSteps /\ NoneFreed
      BY <3>4, <3>5 DEF RowSteps, RowStep, NoneFreed, LeaseKept, Decided
    <3>7. att' \in [Heads -> Attempt]
      BY <2>3, EnsuredTyped, PutAttempt
    <3>8. \A g \in Heads : att[g].st # "none" => att'[g].st # "none"
      BY <2>3, EnsuredTyped DEF CInv
    <3> QED
      BY <1>b, <1>e, <2>1, <3>6, <3>7, <3>8, AssemblePoll DEF Backs
  <2> QED
    BY <1>11, <2>2, <2>3 DEF Create
<1>12. CASE Disabled
  <2>1. /\ poll.pc = "create" /\ ForgetAttempts({poll.target}) /\ Back
        /\ UNCHANGED <<pr, comments, excuses, post, events, cn, upsets>>
    BY <1>12 DEF Disabled, PollAt
  <2>2. RowSteps /\ NoneFreed /\ att' \in [Heads -> Attempt]
    BY <1>f, <2>1
  <2> QED
    BY <1>b, <1>e, <2>1, <2>2, AssemblePoll DEF Backs
<1>13. CASE PostEnded
  <2> DEFINE p == NextTodo
  <2>1. /\ poll.pc = "posting" /\ poll.todo # {} /\ StartPost("poll", p)
        /\ poll' = [poll EXCEPT !.todo = @ \ {p}]
        /\ UNCHANGED <<pr, att, comments, events, cn, upsets>>
    BY <1>13 DEF PostEnded, PollAt
  <2>2. p \in Panels /\ Exists(p) /\ "poll" \in Posters
    BY <1>n, <2>1 DEF Posters
  <2>3. SoundPoll(poll')
    BY <1>t, <2>1, PollPasses DEF Skipping
  <2>4. poll'.pc = "posting"
    BY <1>t, <2>1 DEF SoundPoll, Poll
  <2>5. /\ RowSteps /\ post' \in [Posters -> Poster] /\ excuses' \in [Panels -> Nat]
        /\ \A b \in Posters : \/ post'[b] = post[b]
                              \/ b = "poll" /\ post'[b].pc = "target" /\ post'[b].panel = p
    BY <2>1, <2>2, StartPostSteps
  <2>6. upsets' \in 0 .. MaxUpsets
    BY <1>t, <2>1 DEF CTypeOK
  <2> HIDE DEF p
  <2> QED
    BY <1>13, <1>a, <1>e, <2>1, <2>2, <2>3, <2>4, <2>5, <2>6 DEF PollingSteps
<1>14. CASE SendStatus
  <2> DEFINE p == NextTodo
             x == [NoPost EXCEPT !.pc = "status", !.panel = p]
  <2>1. /\ poll.pc = "status" /\ poll.todo # {}
        /\ post' = [post EXCEPT !["poll"] = x]
        /\ poll' = [poll EXCEPT !.todo = @ \ {p}]
        /\ UNCHANGED <<pr, panel, att, comments, excuses, events, cn, upsets>>
    BY <1>14 DEF SendStatus, PollAt
  <2>2. p \in Panels /\ Exists(p) /\ "poll" \in Posters
    BY <1>n, <2>1 DEF Posters
  <2>3. SoundPoll(poll')
    BY <1>t, <2>1, PollPasses DEF Skipping
  <2>4. poll'.pc = "status"
    BY <1>t, <2>1 DEF SoundPoll, Poll
  <2>5. x \in Poster /\ x.pc = "status" /\ x.panel = p
    BY <2>2 DEF NoPost, Poster
  <2> HIDE DEF p, x
  <2>6. /\ post' \in [Posters -> Poster] /\ post'["poll"] = x
        /\ \A b \in Posters : b # "poll" => post'[b] = post[b]
    BY <1>t, <2>1, <2>2, <2>5, PutPost
  <2>7. upsets' \in 0 .. MaxUpsets /\ excuses' \in [Panels -> Nat]
    BY <1>t, <2>1 DEF CTypeOK
  <2> QED
    BY <1>14, <1>a, <1>e, <1>s, <2>1, <2>2, <2>3, <2>4, <2>5, <2>6, <2>7 DEF PollingSteps
<1>15. ASSUME NEW h \in Heads, Rearm(h)
       PROVE  PollingSteps
  <2> DEFINE x == [att[h] EXCEPT !.st = "deferred"]
  <2>1. /\ poll.pc = "rearm" /\ poll' = [poll EXCEPT !.hs = @ \ {h}]
        /\ UNCHANGED <<pr, panel, comments, excuses, post, events, cn, upsets>>
        /\ UNCHANGED att \/ att' = [att EXCEPT ![h] = x]
    BY <1>15 DEF Rearm, PollAt
  <2>2. SoundPoll(poll') /\ poll'.pc = "rearm"
    BY <1>t, <2>1, PollDrops
  <2>3. x \in Attempt /\ x.st = "deferred"
    BY DEF CInv, CTypeOK, Attempt
  <2> HIDE DEF x
  <2>4. /\ att' \in [Heads -> Attempt]
        /\ \A g \in Heads : att[g].st # "none" => att'[g].st # "none"
    BY <1>a, <2>1, <2>3 DEF CInv, CTypeOK
  <2> QED
    BY <1>e, <1>s, <2>1, <2>2, <2>4, AssemblePoll
<1>16. ASSUME NEW h \in Heads, NEW H, ForgetAttempts(H), h \in poll.hs,
              poll' = [poll EXCEPT !.hs = @ \ {h}], poll.pc # "skip",
              UNCHANGED <<pr, comments, excuses, post, events, cn>>,
              UNCHANGED upsets \/ Works
       PROVE  PollingSteps
  <2>1. SoundPoll(poll') /\ poll'.pc # "skip"
    BY <1>16, <1>t, PollDrops
  <2>2. poll' # poll
    <3>1. poll'.hs = poll.hs \ {h}
      BY <1>16, <1>t DEF SoundPoll, Poll
    <3> QED
      BY <1>16, <3>1
  <2>3. RowSteps /\ NoneFreed /\ att' \in [Heads -> Attempt]
    BY <1>16, <1>f
  <2> QED
    BY <1>16, <1>e, <2>1, <2>2, <2>3, AssemblePoll
<1>17. ASSUME NEW h \in Heads, RetryDue(h)
       PROVE  PollingSteps
  <2>1. poll.pc = "due" /\ h \in poll.hs /\ UNCHANGED <<pr, comments, excuses, post, events, cn>>
    BY <1>17 DEF RetryDue, PollAt
  <2>2. CASE poll' = InHand(h, "due") /\ UNCHANGED <<panel, att>> /\ Works
    <3>1. SoundPoll(poll') /\ poll'.pc = "filter"
      BY <1>t, <2>1, <2>2, NoneSeenTyped, PollTakes DEF Skipping, Backs
    <3> QED
      BY <1>a, <1>e, <1>s, <2>1, <2>2, <3>1, AssemblePoll
  <2>3. CASE poll' = [poll EXCEPT !.hs = @ \ {h}] /\ UNCHANGED <<panel, att>> /\ Fails
    <3>1. SoundPoll(poll') /\ poll'.pc = "due"
      BY <1>t, <2>1, <2>3, PollDrops
    <3> QED
      BY <1>a, <1>e, <1>s, <2>1, <2>3, <3>1, AssemblePoll
  <2>4. CASE /\ poll' = [poll EXCEPT !.hs = @ \ {h}] /\ Works
             /\ ForgetAttempts(IF CurrentHead = NoHead THEN Heads ELSE {h})
    BY <1>16, <2>1, <2>4
  <2> QED
    BY <1>17, <2>2, <2>3, <2>4 DEF RetryDue
<1>18. ASSUME NEW h \in Heads, Review(h)
       PROVE  PollingSteps
  <2>1. /\ poll.pc = "health" /\ h \in poll.hs
        /\ UNCHANGED <<pr, comments, excuses, post, events, cn, upsets>>
    BY <1>18 DEF Review, PollAt
  <2>2. CASE poll' = InHand(h, "health") /\ UNCHANGED <<panel, att>>
    <3>1. SoundPoll(poll') /\ poll'.pc = "filter"
      BY <1>t, <2>1, <2>2, NoneSeenTyped, PollTakes DEF Skipping, Backs
    <3> QED
      BY <1>a, <1>e, <1>s, <2>1, <2>2, <3>1, AssemblePoll
  <2>3. CASE ForgetAttempts({h}) /\ poll' = [poll EXCEPT !.hs = @ \ {h}]
    BY <1>16, <2>1, <2>3
  <2> QED
    BY <1>18, <2>2, <2>3 DEF Review
<1> QED
  BY <1>1, <1>2, <1>3, <1>4, <1>5, <1>6, <1>7, <1>8, <1>9, <1>10, <1>11, <1>12, <1>13, <1>14,
     <1>15, <1>17, <1>18 DEF PollWrites

(* Every step of the poll loop is one of the steps named for it.               *)
LEMMA PollingIsSteps ==
  ASSUME CInv, Polling
  PROVE  PollingSteps
BY PollReadsSteps, PollWritesSteps DEF Polling, PollReads, PollWrites

-------------------------------------------------------------------------------
(* A step of the environment, the endpoints or the event listener.             *)

EnvironmentSteps ==
  /\ RowSteps /\ att' \in [Heads -> Attempt] /\ poll' \in {poll, NoPoll}
  /\ pr' \in [open : BOOLEAN, head : Heads]
  /\ post' \in [Posters -> Poster]
  /\ \A a \in Posters : \/ post'[a] = post[a] \/ post'[a].pc = "idle"
                        \/ /\ post'[a].pc = "target"
                           /\ post'[a].panel \in Panels /\ Exists(post'[a].panel)
  /\ events' \in SUBSET Panels /\ \A p \in events' : Exists(p)
  /\ cn' \in Panels \cup {NoPanel} /\ (cn' # NoPanel => Exists(cn'))
  /\ comments' = comments /\ excuses' \in [Panels -> Nat]
  /\ upsets' \in 0 .. MaxUpsets
  /\ \/ /\ NoneFreed /\ UNCHANGED excuses
        /\ UNCHANGED post \/ \A a \in Posters : post'[a].pc = "idle"
     \/ \E p \in Panels : Hear(p) /\ StartPost("events", p)

(* A rerun creates the row of one new run, and no other.                       *)
LEMMA RerunRows ==
  ASSUME CInv, NEW p \in Panels, NEW n \in Panels, Rerun(p, n)
  PROVE  /\ RowSteps /\ NoneFreed /\ BornRow(n)
         /\ \A q \in Panels : q # n => ~BornRow(q)
<1> DEFINE h == panel[p].head
           owners == {q \in Of(h) : ~panel[q].retired}
           new == [Absent EXCEPT !.head = h, !.synth = "live"]
           old(q) == [panel[q] EXCEPT !.retired = TRUE, !.claim = "none"]
<1>t. CTypeOK
  BY DEF CInv
<1>1. panel' = [q \in Panels |-> IF q = n THEN new ELSE IF q \in owners THEN old(q) ELSE panel[q]]
  BY DEF Rerun
<1>2. h \in Heads \cup {NoHead}
  BY <1>t, RowTyped
<1>3. new \in Row /\ new.synth = "live" /\ new.claim = "none" /\ ~new.posted /\ ~new.retired
  BY <1>2 DEF Absent, Row
<1>4. \A q \in Panels :
        /\ old(q) \in Row /\ old(q).synth = panel[q].synth /\ old(q).head = panel[q].head
        /\ old(q).posted = panel[q].posted /\ old(q).outcome = panel[q].outcome
        /\ old(q).retired /\ old(q).claim = "none"
  BY <1>t, RowTyped DEF Row
<1>5. ~Exists(n) /\ \A q \in owners : q \in Panels /\ Exists(q) /\ ~panel[q].retired
  BY DEF Rerun, NextPanel, Of
<1> HIDE DEF new, old, owners
<1>6. panel' \in [Panels -> Row]
  BY <1>t, <1>1, <1>3, <1>4, RowTyped
<1>7. BornRow(n)
  BY <1>1, <1>3, <1>5 DEF BornRow
<1>8. \A q \in Panels : q # n =>
        \/ panel'[q] = panel[q]
        \/ q \in owners /\ panel'[q] = old(q)
  BY <1>1
<1>9. \A q \in owners : panel'[q] = old(q) => LaterRow(q) /\ LeaseKept(q)
  BY <1>4, <1>5 DEF LaterRow, LeaseKept, Exists
<1>10. RowSteps
  BY <1>6, <1>7, <1>8, <1>9 DEF RowSteps, RowStep
<1>11. NoneFreed
  BY <1>5, <1>8, <1>9 DEF NoneFreed, LeaseKept
<1>12. \A q \in Panels : q # n => ~BornRow(q)
  BY <1>5, <1>8 DEF BornRow, Exists
<1> QED
  BY <1>7, <1>10, <1>11, <1>12

(* A restart of the daemon deletes no attempt and gives no lease of an         *)
(* undecided run back.                                                         *)
LEMMA RestartRows ==
  ASSUME CInv, Restart
  PROVE  RowSteps /\ NoneFreed /\ att' \in [Heads -> Attempt]
         /\ \A h \in Heads : att[h].st # "none" => att'[h].st # "none"
<1> DEFINE old(q) == [panel[q] EXCEPT !.retired = TRUE, !.claim = "none"]
           back(h) == [att[h] EXCEPT !.st = "deferred", !.due = TRUE, !.streak = 0]
           due(h)  == [att[h] EXCEPT !.due = @ \/ (att[h].st = "deferred"
                                                   /\ att[h].class = "transient")]
<1>t. CTypeOK
  BY DEF CInv
<1>1. panel' = [p \in Panels |-> IF Exists(p) /\ Rearmed(p) THEN old(p) ELSE panel[p]]
  BY DEF Restart
<1>4. \A q \in Panels :
        /\ old(q) \in Row /\ old(q).synth = panel[q].synth /\ old(q).head = panel[q].head
        /\ old(q).posted = panel[q].posted /\ old(q).outcome = panel[q].outcome
        /\ old(q).retired /\ old(q).claim = "none"
  BY <1>t, RowTyped DEF Row
<1>5. \A q \in Panels : Rearmed(q) => ~panel[q].retired
  BY DEF Rearmed
<1>6. att' = [h \in Heads |-> IF \E p \in Of(h) : Rearmed(p) THEN back(h) ELSE due(h)]
  BY DEF Restart
<1>7. ASSUME NEW h \in Heads
      PROVE  /\ back(h) \in Attempt /\ back(h).st = "deferred"
             /\ due(h) \in Attempt /\ due(h).st = att[h].st
  <2>1. att[h] \in Attempt /\ att[h].due \in BOOLEAN
    BY DEF CInv, CTypeOK, Attempt
  <2>2. back(h) \in Attempt /\ back(h).streak = 0 /\ back(h).st = "deferred"
    BY <2>1 DEF Attempt
  <2>3. due(h) \in Attempt /\ due(h).streak = att[h].streak /\ due(h).st = att[h].st
    BY <2>1 DEF Attempt
  <2> HIDE DEF back, due
  <2> QED
    BY <2>1, <2>2, <2>3
<1> HIDE DEF old, back, due
<1>8. panel' \in [Panels -> Row]
  BY <1>t, <1>1, <1>4, RowTyped
<1>9. \A q \in Panels : RowStep(q) /\ (Exists(q) => LeaseKept(q))
  BY <1>1, <1>4, <1>5 DEF RowStep, LaterRow, LeaseKept, Exists
<1>10. RowSteps /\ NoneFreed
  BY <1>8, <1>9 DEF RowSteps, NoneFreed
<1>11. /\ att' \in [Heads -> Attempt]
       /\ \A h \in Heads : att[h].st # "none" => att'[h].st # "none"
  BY <1>6, <1>7
<1> QED
  BY <1>10, <1>11

(* Every step of the forge, the jobs, the endpoints and the listener is one    *)
(* of the steps named for them.                                                *)
LEMMA EnvironmentIsSteps ==
  ASSUME CInv, Environment
  PROVE  EnvironmentSteps
<1>t. CTypeOK
  BY DEF CInv
<1>s. UNCHANGED panel => RowSteps /\ NoneFreed
  BY <1>t, SameRows
<1>a. UNCHANGED att => att' \in [Heads -> Attempt]
  BY DEF CInv, CTypeOK
<1>e. events \in SUBSET Panels /\ \A p \in events : Exists(p)
  BY EventsExist
<1>c. cn \in Panels \cup {NoPanel} /\ (cn # NoPanel => Exists(cn))
  BY DEF CInv, CTypeOK, Known
<1>p. /\ UNCHANGED pr => pr' \in [open : BOOLEAN, head : Heads]
      /\ UNCHANGED post => post' \in [Posters -> Poster]
      /\ UNCHANGED excuses => excuses' \in [Panels -> Nat]
      /\ UNCHANGED upsets \/ Works \/ Fails \/ Upset => upsets' \in 0 .. MaxUpsets
  <2>1. /\ pr \in [open : BOOLEAN, head : Heads] /\ post \in [Posters -> Poster]
        /\ excuses \in [Panels -> Nat] /\ upsets \in 0 .. MaxUpsets /\ MaxUpsets \in Nat
    BY <1>t, CIAssumption DEF CTypeOK
  <2>2. UNCHANGED upsets \/ Works \/ Fails \/ Upset => upsets' \in 0 .. MaxUpsets
    BY <2>1 DEF Works, Fails, Upset
  <2> QED
    BY <2>1, <2>2
<1>1. CASE ChangePR
  <2>1. /\ Upset /\ UNCHANGED <<panel, att, comments, excuses, post, poll, events, cn>>
        /\ pr' \in [open : BOOLEAN, head : Heads]
    BY <1>1 DEF ChangePR
  <2> QED
    BY <1>s, <1>a, <1>e, <1>c, <1>p, <2>1 DEF EnvironmentSteps
<1>2. CASE Restart
  <2>1. /\ Upset /\ post' = [a \in Posters |-> NoPost] /\ poll' = NoPoll /\ events' = {}
        /\ cn' = NoPanel /\ UNCHANGED <<pr, comments, excuses>>
    BY <1>2 DEF Restart
  <2>2. NoPost \in Poster /\ NoPost.pc = "idle"
    BY DEF NoPost, Poster
  <2>3. post' \in [Posters -> Poster] /\ \A a \in Posters : post'[a].pc = "idle"
    BY <2>1, <2>2
  <2>4. RowSteps /\ NoneFreed /\ att' \in [Heads -> Attempt]
    BY <1>2, RestartRows
  <2> QED
    BY <1>p, <2>1, <2>3, <2>4 DEF EnvironmentSteps
<1>3. CASE CancelRetires
  <2>1. /\ cn # NoPanel /\ events' = events \cup {cn} /\ cn' = NoPanel /\ (Works \/ Fails)
        /\ UNCHANGED <<pr, comments, excuses, post, poll>>
    BY <1>3 DEF CancelRetires
  <2>2. cn \in Panels /\ Exists(cn)
    BY <1>c, <2>1
  <2>3. RowSteps /\ NoneFreed /\ att' \in [Heads -> Attempt]
    BY <1>3, <1>s, <1>a, <2>2, RetireAndDeleteSteps DEF CancelRetires
  <2>4. events' \in SUBSET Panels /\ \A p \in events' : Exists(p)
    BY <1>e, <2>1, <2>2
  <2> QED
    BY <1>p, <2>1, <2>3, <2>4 DEF EnvironmentSteps
<1>4. ASSUME NEW p \in Panels, RunEnds(p)
      PROVE  EnvironmentSteps
  <2>1. /\ panel[p].synth = "live" /\ UNCHANGED <<pr, att, comments, excuses, post, poll, cn>>
        /\ Works \/ Fails
        /\ events' = events \cup {p} \/ UNCHANGED events
    BY <1>4 DEF RunEnds
  <2>2. PICK r \in Results : panel' = [panel EXCEPT ![p].synth = "ended", ![p].result = r]
    BY <1>4 DEF RunEnds
  <2> DEFINE x == [panel[p] EXCEPT !.synth = "ended", !.result = r]
  <2>3. /\ x \in Row /\ x.synth = "ended" /\ x.head = panel[p].head
        /\ x.posted = panel[p].posted /\ x.retired = panel[p].retired
        /\ x.outcome = panel[p].outcome /\ x.claim = panel[p].claim
    BY <1>t, RowTyped DEF Row
  <2>4. /\ panel' \in [Panels -> Row] /\ panel'[p] = x
        /\ \A q \in Panels : q # p => panel'[q] = panel[q]
    BY <1>t, <2>2, <2>3 DEF CTypeOK
  <2> HIDE DEF x
  <2>5. LaterRow(p) /\ Exists(p) /\ LeaseKept(p)
    BY <2>1, <2>3, <2>4 DEF LaterRow, LeaseKept, Exists
  <2>6. RowSteps /\ NoneFreed
    BY <2>4, <2>5 DEF RowSteps, RowStep, NoneFreed, LeaseKept
  <2>7. events' \in SUBSET Panels /\ \A q \in events' : Exists(q)
    BY <1>e, <2>1, <2>5
  <2> QED
    BY <1>a, <1>c, <1>p, <2>1, <2>6, <2>7 DEF EnvironmentSteps
<1>5. ASSUME NEW p \in Panels, LeaseAges(p)
      PROVE  EnvironmentSteps
  <2> DEFINE x == [panel[p] EXCEPT !.claim = "stale"]
  <2>1. /\ panel[p].claim = "fresh" /\ panel' = [panel EXCEPT ![p] = x] /\ (Works \/ Fails)
        /\ UNCHANGED <<pr, att, comments, excuses, post, poll, events, cn>>
    BY <1>5 DEF LeaseAges
  <2>2. /\ x \in Row /\ x.synth = panel[p].synth /\ x.head = panel[p].head
        /\ x.posted = panel[p].posted /\ x.retired = panel[p].retired
        /\ x.outcome = panel[p].outcome /\ x.claim = "stale"
    BY <1>t, RowTyped DEF Row
  <2> HIDE DEF x
  <2>3. /\ panel' \in [Panels -> Row] /\ panel'[p] = x
        /\ \A q \in Panels : q # p => panel'[q] = panel[q]
    BY <1>t, <2>1, <2>2, PutRow
  <2>4. Exists(p)
    BY <2>1 DEF CInv, Known
  <2>5. LaterRow(p) /\ LeaseKept(p)
    BY <2>2, <2>3, <2>4 DEF LaterRow, LeaseKept, Exists
  <2>6. RowSteps /\ NoneFreed
    BY <2>3, <2>5 DEF RowSteps, RowStep, NoneFreed, LeaseKept
  <2> QED
    BY <1>a, <1>c, <1>e, <1>p, <2>1, <2>6 DEF EnvironmentSteps
<1>6. ASSUME NEW p \in Panels, Hear(p)
      PROVE  EnvironmentSteps
  <2>1. /\ p \in events /\ events' = events \ {p} /\ UNCHANGED <<pr, comments, poll, cn, upsets>>
    BY <1>6 DEF Hear
  <2>2. Exists(p) /\ events' \in SUBSET Panels /\ \A q \in events' : Exists(q)
    BY <1>e, <2>1
  <2>3. CASE RetireAndDelete(p) /\ UNCHANGED <<post, excuses>>
    <3>1. RowSteps /\ NoneFreed /\ att' \in [Heads -> Attempt]
      BY <2>2, <2>3, RetireAndDeleteSteps
    <3> QED
      BY <1>c, <1>p, <2>1, <2>2, <2>3, <3>1 DEF EnvironmentSteps
  <2>4. CASE StartPost("events", p) /\ UNCHANGED att
    <3>1. /\ RowSteps /\ post' \in [Posters -> Poster] /\ excuses' \in [Panels -> Nat]
          /\ \A b \in Posters : \/ post'[b] = post[b]
                                \/ post'[b].pc = "target" /\ post'[b].panel = p
      BY <2>4, StartPostSteps DEF Posters
    <3> QED
      BY <1>6, <1>a, <1>c, <1>p, <2>1, <2>2, <2>4, <3>1 DEF EnvironmentSteps
  <2> QED
    BY <1>6, <2>3, <2>4 DEF Hear
<1>7. ASSUME NEW p \in Panels, Cancel(p)
      PROVE  EnvironmentSteps
  <2> DEFINE x == [panel[p] EXCEPT !.synth = "canceled"]
  <2>1. /\ panel[p].synth = "live" /\ panel' = [panel EXCEPT ![p] = x] /\ cn' = p
        /\ UNCHANGED <<pr, att, comments, excuses, post, poll, events, upsets>>
    BY <1>7 DEF Cancel
  <2>2. /\ x \in Row /\ x.synth = "canceled" /\ x.head = panel[p].head
        /\ x.posted = panel[p].posted /\ x.retired = panel[p].retired
        /\ x.outcome = panel[p].outcome /\ x.claim = panel[p].claim
    BY <1>t, RowTyped DEF Row
  <2> HIDE DEF x
  <2>3. /\ panel' \in [Panels -> Row] /\ panel'[p] = x
        /\ \A q \in Panels : q # p => panel'[q] = panel[q]
    BY <1>t, <2>1, <2>2, PutRow
  <2>4. LaterRow(p) /\ Exists(p) /\ LeaseKept(p)
    BY <2>1, <2>2, <2>3 DEF LaterRow, LeaseKept, Exists
  <2>5. RowSteps /\ NoneFreed
    BY <2>3, <2>4 DEF RowSteps, RowStep, NoneFreed, LeaseKept
  <2> QED
    BY <1>a, <1>e, <1>p, <2>1, <2>4, <2>5 DEF EnvironmentSteps
<1>8. ASSUME NEW p \in Panels, NEW n \in Panels, Rerun(p, n)
      PROVE  EnvironmentSteps
  <2> DEFINE h == panel[p].head
             c == IF \E q \in Of(h) : ~panel[q].retired /\ panel[q].outcome = "review"
                  THEN "none" ELSE att[h].class
             x == [Reserved EXCEPT !.run = n, !.class = c]
  <2>1. Upset /\ UNCHANGED <<pr, comments, excuses, post, poll, events, cn>>
    BY <1>8 DEF Rerun
  <2>2. RowSteps /\ NoneFreed
    BY <1>8, RerunRows
  <2>3. att' = [att EXCEPT ![h] = x]
    BY <1>8 DEF Rerun
  <2>4. h \in Heads => c \in {"none", "genuine", "transient"}
    BY DEF CInv, CTypeOK, Attempt
  <2> HIDE DEF c
  <2>5. h \in Heads => x \in Attempt
    BY <2>4, NoAttemptTyped DEF Attempt
  <2>6. att' \in [Heads -> Attempt]
    BY <2>3, <2>5, PutAttempt
  <2> QED
    BY <1>c, <1>e, <1>p, <2>1, <2>2, <2>6 DEF EnvironmentSteps
<1>9. ASSUME NEW h \in Heads, AttemptDue(h)
      PROVE  EnvironmentSteps
  <2> DEFINE x == [att[h] EXCEPT !.due = TRUE]
  <2>1. /\ att' = [att EXCEPT ![h] = x]
        /\ UNCHANGED <<pr, panel, comments, excuses, post, poll, events, cn, upsets>>
    BY <1>9 DEF AttemptDue
  <2>a. att[h] \in Attempt
    BY DEF CInv, CTypeOK
  <2>2. x \in Attempt
    BY <2>a DEF Attempt
  <2>3. att' \in [Heads -> Attempt]
    BY <2>1, <2>2, PutAttempt
  <2> QED
    BY <1>c, <1>e, <1>p, <1>s, <2>1, <2>3 DEF EnvironmentSteps
<1> QED
  BY <1>1, <1>2, <1>3, <1>4, <1>5, <1>6, <1>7, <1>8, <1>9 DEF Environment

-------------------------------------------------------------------------------
(* The types and what is known of the rows that are referred to.               *)

(* The invariant holds at the start.                                           *)
LEMMA InitInv ==
  ASSUME Init
  PROVE  CInv
<1>1. pr \in [open : BOOLEAN, head : Heads]
  BY CIAssumption DEF Init
<1>2. Absent \in Row /\ Absent.synth = "absent" /\ ~Absent.posted /\ ~Absent.retired
      /\ Absent.claim = "none"
  BY DEF Absent, Row
<1>3. panel \in [Panels -> Row] /\ \A p \in Panels : panel[p] = Absent
  BY <1>2 DEF Init
<1>4. att \in [Heads -> Attempt]
  BY NoAttemptTyped DEF Init
<1>5. comments \in [Panels -> Nat] /\ excuses \in [Panels -> Nat]
  BY DEF Init
<1>6. NoPost \in Poster /\ NoPost.pc = "idle"
  BY DEF NoPost, Poster
<1>7. post \in [Posters -> Poster] /\ \A a \in Posters : post[a].pc = "idle"
  BY <1>6 DEF Init
<1>8. poll \in Poll
  BY NoPollSound DEF Init, SoundPoll
<1>9. poll.todo = {} /\ poll.pc = "idle" /\ poll.claimed = NoPanel
  BY DEF Init, NoPoll
<1>10. events = {} /\ cn = NoPanel /\ upsets \in 0 .. MaxUpsets
  BY CIAssumption DEF Init
<1>11. CTypeOK
  BY <1>1, <1>3, <1>4, <1>5, <1>7, <1>8, <1>10 DEF CTypeOK
<1>12. Known
  BY <1>2, <1>3, <1>7, <1>9, <1>10 DEF Known, Exists, Decided, Ready
<1> QED
  BY <1>11, <1>12 DEF CInv

(* Runs do not go away, and what is decided or posted stays so.                *)
LEMMA RowsStay ==
  ASSUME CInv, RowSteps
  PROVE  /\ \A p \in Panels : Exists(p) => panel'[p].synth # "absent"
         /\ \A p \in Panels : Decided(p) => panel'[p].posted \/ panel'[p].retired
         /\ \A p \in Panels : panel[p].posted => panel'[p].posted
         /\ \A p \in Panels : panel'[p].synth = "absent" =>
              ~panel'[p].posted /\ ~panel'[p].retired /\ panel'[p].claim = "none"
<1>1. \A p \in Panels : ~Exists(p) => ~Decided(p) /\ panel[p].claim = "none"
  BY DEF CInv, Known
<1> QED
  BY <1>1 DEF RowSteps, RowStep, BornRow, LaterRow, Exists, Decided

(* The invariant holds again when its parts were kept.                         *)
LEMMA InvFrom ==
  ASSUME CInv, RowSteps, att' \in [Heads -> Attempt], SoundPoll(poll'),
         pr' \in [open : BOOLEAN, head : Heads],
         post' \in [Posters -> Poster],
         \A a \in Posters : post'[a].pc # "idle" =>
                              post'[a].panel \in Panels /\ Exists(post'[a].panel),
         \A a \in Posters : post'[a].pc = "deliver" => panel'[post'[a].panel].posted,
         \A a \in Posters : Ready(a)',
         events' \in SUBSET Panels, \A p \in events' : Exists(p),
         cn' \in Panels \cup {NoPanel}, cn' # NoPanel => Exists(cn'),
         comments' \in [Panels -> Nat], excuses' \in [Panels -> Nat], upsets' \in 0 .. MaxUpsets
  PROVE  CInv'
<1>1. poll' \in Poll /\ panel' \in [Panels -> Row]
  BY DEF SoundPoll, RowSteps
<1>3. CTypeOK'
  BY <1>1 DEF CTypeOK
<1>4. \A p \in Panels : Exists(p) => panel'[p].synth # "absent"
  BY RowsStay
<1>5. /\ \A p \in Panels : ~Exists(p)' => ~Decided(p)' /\ panel'[p].claim = "none"
      /\ \A p \in Panels : Decided(p) => Decided(p)'
      /\ \A p \in Panels : Exists(p) => Exists(p)'
  BY RowsStay DEF Exists, Decided
<1>6. \A a \in Posters : post'[a].pc # "idle" =>
                           post'[a].panel \in Panels /\ panel'[post'[a].panel].synth # "absent"
  BY <1>4
<1>7. \A p \in poll'.todo \cup events' : panel'[p].synth # "absent"
  BY <1>4 DEF SoundPoll
<1>8. /\ poll'.pc \in {"cancel", "delete"} => poll'.todo # {}
      /\ poll'.pc \in {"sweep", "cancel", "delete"} => poll'.next # "none"
  BY DEF SoundPoll
<1>9. poll'.claimed # NoPanel =>
        /\ panel'[poll'.claimed].synth # "absent" /\ poll'.pc \in Skipping
        /\ panel'[poll'.claimed].posted \/ panel'[poll'.claimed].retired
  BY RowsStay DEF SoundPoll
<1>10. cn' # NoPanel => panel'[cn'].synth # "absent"
  BY <1>4
<1>11. Known'
  BY <1>5, <1>6, <1>7, <1>8, <1>9, <1>10 DEF Known, Exists, Decided
<1> QED
  BY <1>3, <1>11 DEF CInv

(* Every step keeps the invariant.                                             *)
LEMMA NextInv ==
  ASSUME CInv, [Next]_vars
  PROVE  CInv'
<1>t. CTypeOK /\ SoundPoll(poll)
  BY PollIsSound DEF CInv
<1>e. events \in SUBSET Panels /\ \A p \in events : Exists(p)
  BY EventsExist
<1>c. cn \in Panels \cup {NoPanel} /\ (cn # NoPanel => Exists(cn))
  BY DEF CInv, CTypeOK, Known
<1>r. pr \in [open : BOOLEAN, head : Heads]
  BY DEF CInv, CTypeOK
<1>p. \A a \in Posters :
        /\ post[a].pc # "idle" => post[a].panel \in Panels /\ Exists(post[a].panel)
        /\ post[a].pc = "deliver" => panel[post[a].panel].posted
        /\ Ready(a)
  BY DEF CInv, Known
<1>1. ASSUME NEW a \in Posters, Posting(a)
      PROVE  CInv'
  <2>1. PosterSteps(a)
    BY <1>1, PostingSteps
  <2>2. /\ RowSteps /\ att' \in [Heads -> Attempt] /\ post' \in [Posters -> Poster]
        /\ comments' \in [Panels -> Nat] /\ excuses' \in [Panels -> Nat]
        /\ upsets' \in 0 .. MaxUpsets /\ UNCHANGED <<pr, poll, events, cn>>
    BY <2>1 DEF PosterSteps
  <2>3. \A b \in Posters : post'[b].pc # "idle" =>
          post'[b].panel \in Panels /\ Exists(post'[b].panel)
    BY <1>p, <2>1 DEF PosterSteps
  <2>4. \A b \in Posters : post'[b].pc = "deliver" => panel'[post'[b].panel].posted
    <3>1. \A p \in Panels : panel[p].posted => panel'[p].posted
      BY <2>2, RowsStay
    <3>2. \A b \in Posters : b # a => post'[b] = post[b]
      BY <2>1 DEF PosterSteps
    <3>3. post'[a].pc = "deliver" => panel'[post'[a].panel].posted
      BY <2>1 DEF PosterSteps
    <3> QED
      BY <1>p, <3>1, <3>2, <3>3
  <2>5. SoundPoll(poll')
    BY <1>t, <2>2
  <2>6. \A b \in Posters : Ready(b)'
    <3>1. Ready(a)' /\ \A b \in Posters : b # a => post'[b] = post[b]
      BY <2>1 DEF PosterSteps
    <3>2. ASSUME NEW b \in Posters, b # a
          PROVE  Ready(b)'
      BY <1>p, <3>1, <3>2 DEF Ready
    <3> QED
      BY <3>1, <3>2
  <2> QED
    BY <1>e, <1>c, <1>r, <2>2, <2>3, <2>4, <2>5, <2>6, InvFrom
<1>2. CASE Polling
  <2>1. PollingSteps
    BY <1>2, PollingIsSteps
  <2>2. /\ RowSteps /\ att' \in [Heads -> Attempt] /\ post' \in [Posters -> Poster]
        /\ SoundPoll(poll') /\ comments' = comments /\ excuses' \in [Panels -> Nat]
        /\ events' \in SUBSET Panels /\ \A p \in events' : Exists(p)
    BY <2>1 DEF PollingSteps
  <2>3. upsets' \in 0 .. MaxUpsets /\ UNCHANGED <<pr, cn>>
    BY <2>1 DEF PollingSteps
  <2>4. comments' \in [Panels -> Nat]
    BY <1>t, <2>2 DEF CTypeOK
  <2>5. \A a \in Posters : \/ post'[a] = post[a]
                           \/ /\ post'[a].pc \in {"target", "status"}
                              /\ post'[a].panel \in Panels /\ Exists(post'[a].panel)
    BY <2>1 DEF PollingSteps
  <2>6. \A b \in Posters : post'[b].pc # "idle" =>
          post'[b].panel \in Panels /\ Exists(post'[b].panel)
    BY <1>p, <2>5
  <2>7. \A b \in Posters : post'[b].pc = "deliver" => panel'[post'[b].panel].posted
    <3>1. \A p \in Panels : panel[p].posted => panel'[p].posted
      BY <2>2, RowsStay
    <3> QED
      BY <1>p, <2>5, <3>1
  <2>8. \A b \in Posters : Ready(b)'
    BY <1>p, <2>5 DEF Ready
  <2> QED
    BY <1>c, <1>r, <2>2, <2>3, <2>4, <2>6, <2>7, <2>8, InvFrom
<1>3. CASE Environment
  <2>1. EnvironmentSteps
    BY <1>3, EnvironmentIsSteps
  <2>2. /\ RowSteps /\ att' \in [Heads -> Attempt] /\ post' \in [Posters -> Poster]
        /\ pr' \in [open : BOOLEAN, head : Heads]
        /\ comments' = comments /\ excuses' \in [Panels -> Nat] /\ upsets' \in 0 .. MaxUpsets
        /\ events' \in SUBSET Panels /\ \A p \in events' : Exists(p)
    BY <2>1 DEF EnvironmentSteps
  <2>3. /\ poll' \in {poll, NoPoll}
        /\ cn' \in Panels \cup {NoPanel} /\ (cn' # NoPanel => Exists(cn'))
    BY <2>1 DEF EnvironmentSteps
  <2>4. comments' \in [Panels -> Nat] /\ SoundPoll(poll')
    BY <1>t, <2>2, <2>3, NoPollSound DEF CTypeOK
  <2>5. \A a \in Posters : \/ post'[a] = post[a] \/ post'[a].pc = "idle"
                           \/ /\ post'[a].pc = "target"
                              /\ post'[a].panel \in Panels /\ Exists(post'[a].panel)
    BY <2>1 DEF EnvironmentSteps
  <2>6. \A b \in Posters : post'[b].pc # "idle" =>
          post'[b].panel \in Panels /\ Exists(post'[b].panel)
    BY <1>p, <2>5
  <2>7. \A b \in Posters : post'[b].pc = "deliver" => panel'[post'[b].panel].posted
    <3>1. \A p \in Panels : panel[p].posted => panel'[p].posted
      BY <2>2, RowsStay
    <3> QED
      BY <1>p, <2>5, <3>1
  <2>8. \A b \in Posters : Ready(b)'
    BY <1>p, <2>5 DEF Ready
  <2> QED
    BY <2>2, <2>3, <2>4, <2>6, <2>7, <2>8, InvFrom
<1>4. CASE UNCHANGED vars
  BY <1>4 DEF vars, CInv, CTypeOK, Known, Exists, Decided, Ready
<1> QED
  BY <1>1, <1>2, <1>3, <1>4 DEF Next

(* The inductive invariant of CI reviewing: every part is of its type, the     *)
(* runs that posters, the poll loop and events name exist, and a poster that   *)
(* is to record an outcome or a deferral has one; it delivers a status only    *)
(* for a run whose comment is recorded.                                        *)
THEOREM CIInvariant == Spec => []CInv
<1>1. Init => CInv
  BY InitInv
<1>2. CInv /\ [Next]_vars => CInv'
  BY NextInv
<1> QED
  BY <1>1, <1>2, PTL DEF Spec

(* Every reachable state is typed: the rows, the attempts, the posters and the *)
(* poll loop.                                                                  *)
THEOREM CITyped == Spec => []CTypeOK
<1>1. CInv => CTypeOK
  BY DEF CInv
<1> QED
  BY <1>1, CIInvariant, PTL

(* What a run came to is recorded once.                                        *)
THEOREM CIDecidedOnce == Spec => DecidedOnce
<1> DEFINE Lasts ==
  \A p \in Panels :
    /\ panel[p].posted => panel'[p].posted /\ panel'[p].outcome = panel[p].outcome
    /\ panel[p].retired => panel'[p].retired /\ panel'[p].posted = panel[p].posted
<1>1. ASSUME CInv, [Next]_vars
      PROVE  [Lasts]_vars
  <2>1. CASE UNCHANGED vars
    BY <2>1
  <2>2. CASE Next
    <3>1. RowSteps
      BY <1>1, <2>2, PostingSteps, PollingIsSteps, EnvironmentIsSteps
         DEF Next, PosterSteps, PollingSteps, EnvironmentSteps
    <3>2. \A p \in Panels : ~Exists(p) => ~panel[p].posted /\ ~panel[p].retired
      BY <1>1 DEF CInv, Known, Decided
    <3> QED
      BY <3>1, <3>2 DEF RowSteps, RowStep, BornRow, LaterRow
  <2> QED
    BY <1>1, <2>1, <2>2
<1> QED
  BY <1>1, CIInvariant, PTL DEF Spec, DecidedOnce

-------------------------------------------------------------------------------
(* One comment.  A poster that may still comment is charged to its run; only a *)
(* free lease of an undecided run leaves room for one more.                    *)

(* A poster's share in the charge of a run is one comment if it may still      *)
(* comment.                                                                    *)
LEMMA ShareTyped ==
  ASSUME NEW a, NEW p
  PROVE  /\ Share(a, p) \in {0, 1} /\ Share(a, p)' \in {0, 1}
         /\ MayComment(a, p) => Share(a, p) = 1
         /\ ~MayComment(a, p) => Share(a, p) = 0
         /\ MayComment(a, p)' => Share(a, p)' = 1
         /\ ~MayComment(a, p)' => Share(a, p)' = 0
BY DEF Share

(* A run that does not exist is charged nothing.                               *)
LEMMA Uncharged ==
  ASSUME CInv, AllPaid, NEW p \in Panels, ~Exists(p)
  PROVE  Charge(p) = 0
<1>1. comments[p] = 0
  BY DEF AllPaid, Paid
<1>2. \A a \in Posters : post[a].panel = p => post[a].pc = "idle"
  BY DEF CInv, Known
<1>3. \A a \in Posters : ~MayComment(a, p)
  BY <1>2 DEF MayComment
<1>4. Share("events", p) = 0 /\ Share("poll", p) = 0
  BY <1>3, ShareTyped DEF Posters
<1> QED
  BY <1>1, <1>4 DEF Charge

(* Nothing that is charged is added, and no lease is freed.                    *)
LEMMA PaidQuietly ==
  ASSUME CInv, AllPaid, RowSteps, NoneFreed, UNCHANGED <<comments, excuses>>,
         \A a \in Posters, p \in Panels : MayComment(a, p)' => MayComment(a, p)
  PROVE  AllPaid'
<1> SUFFICES ASSUME NEW p \in Panels
             PROVE  Paid(p)'
  BY DEF AllPaid
<1>1. comments[p] \in Nat /\ excuses[p] \in Nat
  BY DEF CInv, CTypeOK
<1>2. \A a \in Posters : Share(a, p)' <= Share(a, p) /\ Share(a, p) \in Nat /\ Share(a, p)' \in Nat
  BY ShareTyped
<1>3. Charge(p)' <= Charge(p) /\ Charge(p) \in Nat /\ Charge(p)' \in Nat
  BY <1>1, <1>2 DEF Charge, Posters
<1>4. Paid(p)
  BY DEF AllPaid
<1>5. CASE Exists(p)
  <2>1. panel'[p].synth # "absent" /\ (Decided(p) => Decided(p)')
    BY <1>5, RowsStay DEF Decided
  <2>2. ~Decided(p)' /\ panel'[p].claim = "none" => panel[p].claim = "none"
    BY <1>5 DEF NoneFreed, LeaseKept, Decided
  <2> QED
    BY <1>1, <1>3, <1>4, <2>1, <2>2 DEF Paid, Exists
<1>6. CASE ~Exists(p)
  <2>1. Charge(p)' = 0
    BY <1>3, <1>6, Uncharged
  <2> QED
    BY <1>1, <1>4, <1>6, <2>1 DEF Paid
<1> QED
  BY <1>5, <1>6

(* A poster that starts on a run pays with the claim it takes, or an excuse.   *)
LEMMA PaidStart ==
  ASSUME CInv, AllPaid, NEW a \in Posters, NEW p \in Panels, StartPost(a, p),
         post[a].pc = "idle", UNCHANGED comments
  PROVE  AllPaid'
<1>t. CTypeOK
  BY DEF CInv
<1>1. CASE UNCHANGED <<panel, post, excuses>>
  <2>1. RowSteps /\ NoneFreed
    BY <1>t, <1>1, SameRows
  <2>2. \A b \in Posters, q \in Panels : MayComment(b, q)' => MayComment(b, q)
    BY <1>1 DEF MayComment
  <2> QED
    BY <1>1, <2>1, <2>2, PaidQuietly
<1>2. CASE Active(p) /\ LeaseFree(panel[p])
  <2> DEFINE r == [panel[p] EXCEPT !.claim = "fresh"]
             e == [NoPost EXCEPT !.pc = "target", !.panel = p]
  <2>1. /\ panel' = [panel EXCEPT ![p] = r] /\ post' = [post EXCEPT ![a] = e]
        /\ IF panel[p].claim = "stale" THEN Excused(p) ELSE UNCHANGED excuses
    BY <1>2 DEF StartPost
  <2>2. panel'[p].claim = "fresh" /\ \A q \in Panels : q # p => panel'[q] = panel[q]
    BY <1>t, <2>1, RowTyped DEF CTypeOK, Row
  <2>3. e.pc = "target" /\ e.panel = p
    BY DEF NoPost
  <2>4. post'[a].pc = "target" /\ post'[a].panel = p /\ \A b \in Posters : b # a => post'[b] = post[b]
    BY <1>t, <2>1, <2>3 DEF CTypeOK
  <2>5. /\ \A q \in Panels : comments[q] \in Nat /\ excuses[q] \in Nat
        /\ \A q \in Panels : q # p => excuses'[q] = excuses[q]
        /\ panel[p].claim = "stale" => excuses'[p] = excuses[p] + 1
        /\ panel[p].claim # "stale" => excuses'[p] = excuses[p]
    BY <1>t, <2>1 DEF CTypeOK, Excused
  <2>6. ASSUME NEW q \in Panels, q # p
        PROVE  Paid(q)'
    <3>1. \A b \in Posters : MayComment(b, q)' => MayComment(b, q)
      BY <2>4, <2>6 DEF MayComment
    <3>2. \A b \in Posters : /\ Share(b, q)' <= Share(b, q)
                             /\ Share(b, q) \in Nat /\ Share(b, q)' \in Nat
      BY <3>1, ShareTyped
    <3>3. Charge(q)' <= Charge(q) /\ Charge(q) \in Nat /\ Charge(q)' \in Nat
      BY <2>5, <3>2 DEF Charge, Posters
    <3>4. Paid(q)
      BY DEF AllPaid
    <3> QED
      BY <2>2, <2>5, <2>6, <3>3, <3>4 DEF Paid, Exists, Decided
  <2>7. Paid(p)'
    <3>1. Exists(p) /\ ~Decided(p)
      BY <1>2 DEF Active, Unposted, Decided
    <3>2. panel'[p].synth # "absent"
      <4>1. RowSteps
        BY StartPostSteps
      <4> QED
        BY <3>1, <4>1, RowsStay
    <3>3. ~MayComment(a, p) /\ \A b \in Posters : b # a => (MayComment(b, p)' => MayComment(b, p))
      BY <2>4 DEF MayComment
    <3>4. Share(a, p) = 0 /\ Share(a, p)' <= 1 /\ Share(a, p)' \in Nat
      BY <3>3, ShareTyped
    <3>5. \A b \in Posters : b # a => /\ Share(b, p)' <= Share(b, p)
                                      /\ Share(b, p) \in Nat /\ Share(b, p)' \in Nat
      BY <3>3, ShareTyped
    <3>6. Charge(p)' <= Charge(p) + 1 /\ Charge(p) \in Nat /\ Charge(p)' \in Nat
      BY <2>5, <3>4, <3>5 DEF Charge, Posters
    <3>7. Paid(p)
      BY DEF AllPaid
    <3>8. panel[p].claim \in {"none", "stale"}
      BY <1>t, <1>2, RowTyped DEF Row, LeaseFree
    <3>9. Charge(p)' <= 1 + excuses'[p]
      BY <2>5, <3>1, <3>6, <3>7, <3>8 DEF Paid
    <3> QED
      BY <2>2, <3>2, <3>9 DEF Paid, Exists
  <2> QED
    BY <2>6, <2>7 DEF AllPaid
<1> QED
  BY <1>1, <1>2 DEF StartPost

(* A poster's step: what its run is charged beyond its excuses does not grow,  *)
(* and a lease that is freed makes it less.                                    *)
Account(a, p)    == comments[p] + Share(a, p)
PosterPays(a, p) ==
  /\ \A q \in Panels : q # p => /\ panel'[q] = panel[q] /\ comments'[q] = comments[q]
                                /\ excuses'[q] = excuses[q]
  /\ Account(a, p)' + excuses[p] <= Account(a, p) + excuses'[p]
  /\ ~panel'[p].posted /\ ~panel'[p].retired /\ panel'[p].claim = "none" =>
       \/ panel[p].claim = "none"
       \/ Account(a, p)' + excuses[p] < Account(a, p) + excuses'[p]

(* The accounts of the other runs do not change with a step of one poster.     *)
LEMMA PaidByPoster ==
  ASSUME CInv, CInv', AllPaid, NEW a \in Posters, NEW p \in Panels, Exists(p),
         RowSteps, PosterPays(a, p), post[a].panel = p,
         post'[a].panel = p \/ post'[a].pc = "idle",
         \A b \in Posters : b # a => post'[b] = post[b]
  PROVE  AllPaid'
<1>1. \A q \in Panels : /\ comments[q] \in Nat /\ excuses[q] \in Nat
                        /\ comments'[q] \in Nat /\ excuses'[q] \in Nat
  BY DEF CInv, CTypeOK
<1>2. ASSUME NEW q \in Panels, q # p
      PROVE  Paid(q)'
  <2>1. \A b \in Posters : MayComment(b, q)' => MayComment(b, q)
    BY <1>2 DEF MayComment
  <2>2. \A b \in Posters : /\ Share(b, q)' <= Share(b, q)
                           /\ Share(b, q) \in Nat /\ Share(b, q)' \in Nat
    BY <2>1, ShareTyped
  <2>3. /\ comments'[q] = comments[q] /\ excuses'[q] = excuses[q] /\ panel'[q] = panel[q]
    BY <1>2 DEF PosterPays
  <2>4. Charge(q)' <= Charge(q) /\ Charge(q) \in Nat /\ Charge(q)' \in Nat
    BY <1>1, <2>2, <2>3 DEF Charge, Posters
  <2>5. Paid(q)
    BY DEF AllPaid
  <2> QED
    BY <1>1, <2>3, <2>4, <2>5 DEF Paid, Exists, Decided
<1>3. Paid(p)'
  <2>1. panel'[p].synth # "absent" /\ (Decided(p) => Decided(p)')
    BY RowsStay DEF Decided
  <2>2. \A b \in Posters : b # a => (MayComment(b, p)' => MayComment(b, p))
    BY DEF MayComment
  <2>3. PICK b \in Posters : b # a /\ \A c \in Posters : c = a \/ c = b
    BY DEF Posters
  <2>4. /\ Share(b, p)' <= Share(b, p) /\ Share(b, p) \in Nat /\ Share(b, p)' \in Nat
        /\ Share(a, p) \in Nat /\ Share(a, p)' \in Nat
    BY <2>2, <2>3, ShareTyped
  <2>5. /\ Charge(p) = Account(a, p) + Share(b, p)
        /\ Charge(p)' = Account(a, p)' + Share(b, p)'
    BY <1>1, <2>3, <2>4 DEF Charge, Account, Posters
  <2>6. Account(a, p) \in Nat /\ Account(a, p)' \in Nat
    BY <1>1, <2>4 DEF Account
  <2>7. Paid(p)
    BY DEF AllPaid
  <2>8. Charge(p)' <= 1 + excuses'[p]
    BY <1>1, <2>4, <2>5, <2>6, <2>7 DEF Paid, PosterPays
  <2>9. ASSUME ~Decided(p)', panel'[p].claim = "none"
        PROVE  Charge(p)' <= excuses'[p]
    <3>1. ~Decided(p)
      BY <2>1, <2>9
    <3>2. CASE panel[p].claim = "none"
      BY <1>1, <2>4, <2>5, <2>6, <2>7, <3>1, <3>2 DEF Paid, PosterPays
    <3>3. CASE Account(a, p)' + excuses[p] < Account(a, p) + excuses'[p]
      BY <1>1, <2>4, <2>5, <2>6, <2>7, <3>3 DEF Paid
    <3> QED
      BY <2>9, <3>2, <3>3 DEF PosterPays, Decided
  <2> QED
    BY <2>1, <2>8, <2>9 DEF Paid, Exists
<1> QED
  BY <1>2, <1>3 DEF AllPaid

(* Every step of a poster pays for what it may add to the charge of its run.   *)
LEMMA PostingPays ==
  ASSUME CInv, NEW a \in Posters, NEW p \in Panels, post[a].panel = p, Exists(p), Posting(a)
  PROVE  PosterPays(a, p)
<1>t. CTypeOK
  BY DEF CInv
<1>n. /\ \A q \in Panels : comments[q] \in Nat /\ excuses[q] \in Nat
      /\ panel[p].posted \in BOOLEAN /\ panel[p].retired \in BOOLEAN
  BY <1>t, RowTyped DEF CTypeOK
<1>s. Share(a, p) \in Nat /\ Share(a, p)' \in Nat /\ Share(a, p)' <= 1 /\ Share(a, p) <= 1
  BY ShareTyped
<1>c. /\ comments' = [comments EXCEPT ![p] = @ + 1] =>
           comments'[p] = comments[p] + 1 /\ \A q \in Panels : q # p => comments'[q] = comments[q]
      /\ Excused(p) =>
           excuses'[p] = excuses[p] + 1 /\ \A q \in Panels : q # p => excuses'[q] = excuses[q]
  BY <1>t DEF CTypeOK, Excused
<1>r. Released(p) => \A q \in Panels : q # p => panel'[q] = panel[q]
  BY <1>t, ReleasedRow
<1>d. ASSUME panel' = [panel EXCEPT ![p] = Retired(@)]
      PROVE  /\ panel'[p].posted \/ panel'[p].retired
             /\ \A q \in Panels : q # p => panel'[q] = panel[q]
  <2>1. panel[p] \in Row /\ Retired(panel[p]) \in Row
    BY <1>t, RowTyped, RetiredRow
  <2>2. panel'[p] = Retired(panel[p]) /\ \A q \in Panels : q # p => panel'[q] = panel[q]
    BY <1>t, <1>d, <2>1, PutRow
  <2> QED
    BY <2>1, <2>2, RetiredRow
<1>m. /\ post[a].pc \in {"target", "moved", "drop", "read", "reread", "comment", "defer", "retire"}
        => Share(a, p) = 1
      /\ post[a].pc = "finish" /\ ~post[a].sent => Share(a, p) = 1
      /\ post[a].pc = "finish" /\ post[a].sent => Share(a, p) = 0
      /\ post[a].pc \in {"status", "deliver"} => Share(a, p) = 0
  BY ShareTyped DEF MayComment
<1>e. PostEnds(a) => Share(a, p)' = 0
  <2>1. PostEnds(a) => post'[a].pc = "idle"
    BY <1>t, PostStopped
  <2> QED
    BY <2>1, ShareTyped DEF MayComment
<1>f. ASSUME NEW out \in {"review", "noreview", "abandoned"}, Finishing(a, out, TRUE)
      PROVE  Share(a, p)' = 0
  <2>1. post'[a].pc = "finish" /\ post'[a].sent = TRUE
    BY <1>t, <1>f, PostFinishing
  <2> QED
    BY <2>1, ShareTyped DEF MayComment
<1>g. \A pc \in {"status", "deliver"} : PostGoTo(a, pc) => Share(a, p)' = 0
  <2>1. \A pc \in {"status", "deliver"} : PostGoTo(a, pc) => post'[a].pc = pc
    BY <1>t, PostWent DEF Pcs
  <2> QED
    BY <2>1, ShareTyped DEF MayComment
<1>1. CASE GuardTarget(a)
  <2>1. /\ Share(a, p) = 1 /\ UNCHANGED <<comments, excuses>>
        /\ UNCHANGED panel \/ (Released(p) /\ PostEnds(a))
    BY <1>1, <1>m DEF GuardTarget, At
  <2>2. CASE UNCHANGED panel
    BY <1>n, <1>s, <2>1, <2>2 DEF PosterPays, Account
  <2>3. CASE Released(p) /\ PostEnds(a)
    BY <1>n, <1>r, <1>e, <2>1, <2>3 DEF PosterPays, Account
  <2> QED
    BY <2>1, <2>2, <2>3
<1>2. CASE RetireMoved(a)
  <2>1. /\ Share(a, p) = 1 /\ UNCHANGED <<comments, excuses>>
        /\ UNCHANGED panel \/ panel' = [panel EXCEPT ![p] = Retired(@)]
    BY <1>2, <1>m DEF RetireMoved, At
  <2>2. CASE UNCHANGED panel
    BY <1>n, <1>s, <2>1, <2>2 DEF PosterPays, Account
  <2>3. CASE panel' = [panel EXCEPT ![p] = Retired(@)]
    BY <1>n, <1>s, <1>d, <2>1, <2>3 DEF PosterPays, Account
  <2> QED
    BY <2>1, <2>2, <2>3
<1>3. CASE DropPanel(a)
  <2>1. /\ Share(a, p) = 1 /\ UNCHANGED <<comments, excuses>>
        /\ panel' = [panel EXCEPT ![p] = Retired(@)]
    BY <1>3, <1>m DEF DropPanel, At, RetireAndDelete
  <2> QED
    BY <1>n, <1>s, <1>d, <2>1 DEF PosterPays, Account
<1>4. CASE Backfill(a) \/ Finalize(a) \/ Defer(a)
  <2>1. Share(a, p) = 1 /\ UNCHANGED <<panel, comments, excuses>>
    BY <1>4, <1>m DEF Backfill, Finalize, Defer, At
  <2> QED
    BY <1>n, <1>s, <2>1 DEF PosterPays, Account
<1>10. CASE Unreadable(a)
  <2>1. Share(a, p) = 1 /\ UNCHANGED <<comments, excuses>> /\ Released(p) /\ PostEnds(a)
    BY <1>10, <1>m DEF Unreadable
  <2> QED
    BY <1>n, <1>r, <1>e, <2>1 DEF PosterPays, Account
<1>5. CASE RetireDeferred(a)
  <2>1. /\ Share(a, p) = 1 /\ UNCHANGED <<comments, excuses>>
        /\ UNCHANGED panel \/ panel' = [panel EXCEPT ![p] = Retired(@)]
    BY <1>5, <1>m DEF RetireDeferred, At
  <2>2. CASE UNCHANGED panel
    BY <1>n, <1>s, <2>1, <2>2 DEF PosterPays, Account
  <2>3. CASE panel' = [panel EXCEPT ![p] = Retired(@)]
    BY <1>n, <1>s, <1>d, <2>1, <2>3 DEF PosterPays, Account
  <2> QED
    BY <2>1, <2>2, <2>3
<1>6. CASE Comment(a)
  <2> DEFINE Created == comments' = [comments EXCEPT ![p] = @ + 1]
  <2>1. Share(a, p) = 1
    BY <1>6, <1>m DEF Comment, At
  <2>2. CASE Created /\ Finishing(a, "review", TRUE) /\ UNCHANGED <<panel, excuses>>
    BY <1>n, <1>c, <1>f, <2>1, <2>2 DEF PosterPays, Account
  <2>3. CASE UNCHANGED <<panel, comments, excuses>>
    BY <1>n, <1>s, <2>1, <2>3 DEF PosterPays, Account
  <2>4. CASE Released(p) /\ PostEnds(a) /\ UNCHANGED <<comments, excuses>>
    BY <1>n, <1>r, <1>e, <2>1, <2>4 DEF PosterPays, Account
  <2>5. CASE Created /\ Excused(p) /\ Released(p) /\ PostEnds(a)
    BY <1>n, <1>c, <1>r, <1>e, <2>1, <2>5 DEF PosterPays, Account
  <2> QED
    BY <1>6, <2>2, <2>3, <2>4, <2>5 DEF Comment
<1>7. CASE Finish(a)
  <2> DEFINE r == [panel[p] EXCEPT !.posted = TRUE, !.claim = "none", !.outcome = post[a].out,
                                   !.status = TRUE]
  <2>1. post[a].pc = "finish" /\ UNCHANGED comments /\ post[a].sent \in BOOLEAN
    BY <1>7, <1>t, PosterTyped DEF Finish, At, Poster
  <2>2. CASE panel' = [panel EXCEPT ![p] = r] /\ PostGoTo(a, "status") /\ UNCHANGED excuses
    <3>1. r.posted /\ post[a].out \in {"none", "review", "noreview", "abandoned"}
      BY <1>t, <2>1, RowTyped DEF Row, CInv, Known, Ready
    <3>2. r \in Row
      BY <1>t, <3>1, RowTyped DEF Row
    <3>3. panel'[p].posted /\ \A q \in Panels : q # p => panel'[q] = panel[q]
      BY <1>t, <2>2, <3>1, <3>2, PutRow
    <3>4. Share(a, p)' = 0
      BY <1>g, <2>2
    <3> QED
      BY <1>n, <1>s, <2>1, <2>2, <3>3, <3>4 DEF PosterPays, Account
  <2>3. CASE Released(p) /\ PostEnds(a) /\ (IF post[a].sent THEN Excused(p) ELSE UNCHANGED excuses)
    <3>1. CASE post[a].sent
      BY <1>n, <1>c, <1>r, <1>e, <1>m, <2>1, <2>3, <3>1 DEF PosterPays, Account
    <3>2. CASE ~post[a].sent
      BY <1>n, <1>r, <1>e, <1>m, <2>1, <2>3, <3>2 DEF PosterPays, Account
    <3> QED
      BY <2>1, <3>1, <3>2
  <2> QED
    BY <1>7, <2>2, <2>3 DEF Finish
<1>8. CASE ClaimStatus(a)
  <2>1. Share(a, p) = 0 /\ UNCHANGED <<comments, excuses>>
    BY <1>8, <1>m DEF ClaimStatus, At
  <2>2. CASE PostGoTo(a, "deliver") /\ panel[p].posted /\ panel' = [panel EXCEPT ![p].claim = "fresh"]
    <3>1. panel'[p].posted /\ \A q \in Panels : q # p => panel'[q] = panel[q]
      BY <1>t, <2>2, RowTyped DEF CTypeOK, Row
    <3>2. Share(a, p)' = 0
      BY <1>g, <2>2
    <3> QED
      BY <1>n, <2>1, <3>1, <3>2 DEF PosterPays, Account
  <2>3. CASE UNCHANGED panel /\ PostEnds(a)
    BY <1>n, <1>e, <2>1, <2>3 DEF PosterPays, Account
  <2> QED
    BY <1>8, <2>2, <2>3 DEF ClaimStatus
<1>9. CASE Deliver(a)
  <2>1. /\ Share(a, p) = 0 /\ UNCHANGED <<comments, excuses>> /\ PostEnds(a)
        /\ post[a].pc = "deliver"
    BY <1>9, <1>m DEF Deliver, At
  <2>2. panel[p].posted
    BY <2>1 DEF CInv, Known
  <2>3. \/ panel' = [panel EXCEPT ![p].status = FALSE, ![p].claim = "none"]
        \/ panel' = [panel EXCEPT ![p].claim = "none"]
    BY <1>9 DEF Deliver, Released
  <2>4. panel'[p].posted /\ \A q \in Panels : q # p => panel'[q] = panel[q]
    BY <1>t, <2>2, <2>3, RowTyped DEF CTypeOK, Row
  <2> QED
    BY <1>n, <1>e, <2>1, <2>4 DEF PosterPays, Account
<1> QED
  BY <1>1, <1>2, <1>3, <1>4, <1>5, <1>6, <1>7, <1>8, <1>9, <1>10 DEF Posting

(* Every step keeps the accounts.                                              *)
LEMMA NextPaid ==
  ASSUME CInv, CInv', AllPaid, [Next]_vars
  PROVE  AllPaid'
<1>0. UNCHANGED post => \A a \in Posters, p \in Panels : MayComment(a, p)' => MayComment(a, p)
  BY DEF MayComment
<1>1. ASSUME NEW a \in Posters, Posting(a)
      PROVE  AllPaid'
  <2>1. post[a].pc # "idle"
    BY <1>1 DEF Posting, At, GuardTarget, RetireMoved, DropPanel, Backfill, Finalize, Unreadable,
                Defer, RetireDeferred, Comment, Finish, ClaimStatus, Deliver
  <2>2. PICK p \in Panels : post[a].panel = p /\ Exists(p)
    BY <2>1 DEF CInv, Known
  <2>3. PosterPays(a, p)
    BY <1>1, <2>2, PostingPays
  <2>4. /\ RowSteps /\ \A b \in Posters : b # a => post'[b] = post[b]
        /\ post'[a].panel = p \/ post'[a].pc = "idle"
    BY <1>1, <2>2, PostingSteps DEF PosterSteps
  <2> QED
    BY <2>2, <2>3, <2>4, PaidByPoster
<1>2. CASE Polling
  <2>1. PollingSteps
    BY <1>2, PollingIsSteps
  <2>2. CASE UNCHANGED <<comments, excuses, post>> /\ NoneFreed
    BY <1>0, <2>1, <2>2, PaidQuietly DEF PollingSteps
  <2>3. CASE PostEnded
    <3>1. /\ StartPost("poll", NextTodo) /\ UNCHANGED comments /\ post["poll"].pc = "idle"
          /\ poll.todo # {}
      BY <2>3 DEF PostEnded, At
    <3>2. PICK p \in Panels : p = NextTodo
      BY <3>1, NextTodoIn DEF CInv, CTypeOK, Poll
    <3> QED
      BY <3>1, <3>2, PaidStart DEF Posters
  <2>4. CASE SendStatus
    <3>1. RowSteps /\ NoneFreed /\ UNCHANGED <<comments, excuses>>
      BY <2>4, SameRows DEF SendStatus, CInv
    <3>2. /\ post' = [post EXCEPT !["poll"] = [NoPost EXCEPT !.pc = "status", !.panel = NextTodo]]
      BY <2>4 DEF SendStatus
    <3>3. post'["poll"].pc = "status" /\ \A b \in Posters : b # "poll" => post'[b] = post[b]
      BY <3>2 DEF CInv, CTypeOK, Posters, NoPost
    <3>4. \A a \in Posters, p \in Panels : MayComment(a, p)' => MayComment(a, p)
      BY <3>3 DEF MayComment
    <3> QED
      BY <3>1, <3>4, PaidQuietly
  <2> QED
    BY <2>1, <2>2, <2>3, <2>4 DEF PollingSteps
<1>3. CASE Environment
  <2>1. EnvironmentSteps
    BY <1>3, EnvironmentIsSteps
  <2>2. CASE /\ NoneFreed /\ UNCHANGED excuses
             /\ UNCHANGED post \/ \A a \in Posters : post'[a].pc = "idle"
    <3>1. \A a \in Posters, p \in Panels : MayComment(a, p)' => MayComment(a, p)
      BY <1>0, <2>2 DEF MayComment
    <3> QED
      BY <2>1, <2>2, <3>1, PaidQuietly DEF EnvironmentSteps
  <2>3. ASSUME NEW p \in Panels, Hear(p), StartPost("events", p)
        PROVE  AllPaid'
    <3>1. post["events"].pc = "idle" /\ UNCHANGED comments
      BY <2>3 DEF Hear, At
    <3> QED
      BY <2>3, <3>1, PaidStart DEF Posters
  <2> QED
    BY <2>1, <2>2, <2>3 DEF EnvironmentSteps
<1>4. CASE UNCHANGED vars
  <2>1. RowSteps /\ NoneFreed /\ UNCHANGED <<comments, excuses, post>>
    BY <1>4, SameRows DEF vars, CInv
  <2> QED
    BY <1>0, <2>1, PaidQuietly
<1> QED
  BY <1>1, <1>2, <1>3, <1>4 DEF Next

(* At the start nothing is owed.                                               *)
LEMMA InitPaid ==
  ASSUME Init
  PROVE  AllPaid
<1>1. \A p \in Panels : comments[p] = 0 /\ excuses[p] = 0
  BY DEF Init
<1>2. \A a \in Posters : post[a].pc = "idle"
  BY DEF Init, NoPost
<1>3. \A a \in Posters, p \in Panels : Share(a, p) = 0
  BY <1>2, ShareTyped DEF MayComment
<1> QED
  BY <1>1, <1>3 DEF AllPaid, Paid, Charge, Posters

(* A run is commented on once, and once more only for a takeover of a stale    *)
(* lease, a request whose answer was lost or a record that failed.             *)
THEOREM CIOneComment == Spec => []OneComment
<1>1. Init => AllPaid
  BY InitPaid
<1>2. CInv /\ CInv' /\ AllPaid /\ [Next]_vars => AllPaid'
  BY NextPaid
<1>3. CInv /\ AllPaid => OneComment
  <2> SUFFICES ASSUME CInv, AllPaid, NEW p \in Panels
               PROVE  comments[p] <= 1 + excuses[p]
    BY DEF OneComment
  <2>1. comments[p] \in Nat /\ excuses[p] \in Nat
    BY DEF CInv, CTypeOK
  <2>2. Share("events", p) \in Nat /\ Share("poll", p) \in Nat
    BY ShareTyped
  <2> QED
    BY <2>1, <2>2 DEF AllPaid, Paid, Charge
<1> QED
  BY <1>1, <1>2, <1>3, CIInvariant, PTL DEF Spec

-------------------------------------------------------------------------------
(* The latest run of a head changes only when a run is created.                *)

NoBirth == \A q \in Panels : ~BornRow(q)

(* A step that changes one row, of a run that exists, creates none.            *)
LEMMA OneRow ==
  ASSUME CTypeOK, NEW p \in Panels, Exists(p), \A q \in Panels : q # p => panel'[q] = panel[q]
  PROVE  NoBirth
BY DEF NoBirth, BornRow, Exists

(* The latest run of a head stays while no run is created, ...                 *)
LEMMA LatestStays ==
  ASSUME RowSteps, NoBirth, NEW h
  PROVE  Latest(h)' = Latest(h)
<1>1. \A q \in Panels : Exists(q)' <=> Exists(q)
  BY DEF RowSteps, RowStep, NoBirth, LaterRow, Exists
<1>2. \A q \in Panels : Exists(q) => panel'[q].head = panel[q].head
  BY DEF RowSteps, RowStep, NoBirth, LaterRow
<1>3. Of(h)' = Of(h)
  BY <1>1, <1>2 DEF Of
<1> QED
  BY <1>3 DEF Latest

(* ... or while the new one is of another head.                                *)
LEMMA OtherLatestStays ==
  ASSUME RowSteps, NEW h, NEW n \in Panels, panel'[n].head # h, ~Exists(n),
         \A q \in Panels : q # n => ~BornRow(q)
  PROVE  Latest(h)' = Latest(h)
<1>1. \A q \in Panels : q # n => (Exists(q)' <=> Exists(q))
  BY DEF RowSteps, RowStep, LaterRow, Exists
<1>2. \A q \in Panels : Exists(q) => panel'[q].head = panel[q].head
  BY DEF RowSteps, RowStep, BornRow, LaterRow
<1>3. Of(h)' = Of(h)
  BY <1>1, <1>2 DEF Of
<1> QED
  BY <1>3 DEF Latest

(* What SkipHolds says of a claimed run c and its head h.                      *)
Stands(c, h) == Latest(h) = c \/ (panel[c].retired /\ panel[c].claim # "fresh")

(* What SkipHolds says for the loop's run and target, now ...                  *)
LEMMA SkipUnfolds ==
  ASSUME NEW c, NEW h, poll.claimed = c, poll.target = h
  PROVE  SkipHolds <=> (poll.pc = "skip" /\ c # NoPanel => Stands(c, h))
BY DEF SkipHolds, PollAt, Stands, Latest, Of

(* ... and after the step.                                                     *)
LEMMA SkipUnfoldsNext ==
  ASSUME NEW c, NEW h, poll'.claimed = c, poll'.target = h
  PROVE  SkipHolds' <=> (poll'.pc = "skip" /\ c # NoPanel => Stands(c, h)')
BY DEF SkipHolds, PollAt, Stands, Latest, Of

(* A decision to skip stands while no run is created.                          *)
LEMMA SkipKept ==
  ASSUME CInv, SkipHolds, RowSteps, NoBirth, UNCHANGED poll
  PROVE  SkipHolds'
<1>1. PICK c, h : c = poll.claimed /\ h = poll.target
  OBVIOUS
<1>2. ASSUME poll.pc = "skip", c # NoPanel
      PROVE  Stands(c, h)'
  <2>1. Stands(c, h) /\ c \in Panels /\ Exists(c)
    BY <1>1, <1>2, SkipUnfolds DEF CInv, CTypeOK, Poll, Known
  <2>2. Latest(h)' = Latest(h)
    BY LatestStays
  <2>3. panel[c].retired /\ panel[c].claim # "fresh" =>
          panel'[c].retired /\ panel'[c].claim # "fresh"
    BY <1>2, <2>1 DEF RowSteps, RowStep, NoBirth, LaterRow, PollAt
  <2> QED
    BY <2>1, <2>2, <2>3 DEF Stands
<1> QED
  BY <1>1, <1>2, SkipUnfoldsNext

(* A rerun leaves it standing: it is refused while the latest run of the head  *)
(* is being published, and retires that run otherwise.                         *)
LEMMA SkipRerun ==
  ASSUME CInv, SkipHolds, NEW p \in Panels, NEW n \in Panels, Rerun(p, n)
  PROVE  SkipHolds'
<1> DEFINE owners(g) == {q \in Of(g) : ~panel[q].retired}
<1>1. PICK c, h : c = poll.claimed /\ h = poll.target
  OBVIOUS
<1>2. PICK g : g = panel[p].head
  OBVIOUS
<1>3. ASSUME poll.pc = "skip", c # NoPanel
      PROVE  Stands(c, h)'
  <2>1. Stands(c, h) /\ c \in Panels /\ Exists(c)
    BY <1>1, <1>3, SkipUnfolds DEF CInv, CTypeOK, Poll, Known
  <2>r. RowSteps /\ BornRow(n) /\ \A q \in Panels : q # n => ~BornRow(q)
    BY RerunRows
  <2>2. ~Exists(n) /\ c # n
    BY <2>1, <2>r DEF BornRow
  <2>3. panel' = [q \in Panels |->
          IF q = n THEN [Absent EXCEPT !.head = g, !.synth = "live"]
          ELSE IF q \in owners(g) THEN [panel[q] EXCEPT !.retired = TRUE, !.claim = "none"]
          ELSE panel[q]]
    BY <1>2 DEF Rerun
  <2>4. CASE panel[c].retired /\ panel[c].claim # "fresh"
    <3>1. panel'[c].retired /\ panel'[c].claim # "fresh"
      BY <1>3, <2>1, <2>r, <2>2, <2>4 DEF RowSteps, RowStep, LaterRow, PollAt
    <3> QED
      BY <3>1 DEF Stands
  <2>5. CASE Latest(h) = c /\ g # h
    <3>1. panel'[n].head = g
      BY <2>3 DEF Absent
    <3>2. Latest(h)' = Latest(h)
      BY <2>r, <2>2, <2>5, <3>1, OtherLatestStays
    <3> QED
      BY <2>5, <3>2 DEF Stands
  <2>6. CASE Latest(h) = c /\ g = h
    <3>1. c \in Of(h) /\ panel[c] \in Row
      BY <1>3, <2>1, <2>6, LatestTyped, RowTyped DEF CInv, NoPanel
    <3>2. panel[c].claim # "fresh"
      BY <1>2, <2>6 DEF Rerun, MayRerun
    <3>3. CASE ~panel[c].retired
      <4>1. panel'[c] = [panel[c] EXCEPT !.retired = TRUE, !.claim = "none"]
        BY <2>1, <2>2, <2>3, <2>6, <3>1, <3>3
      <4>2. panel'[c].retired /\ panel'[c].claim = "none"
        BY <3>1, <4>1 DEF Row
      <4> QED
        BY <4>2 DEF Stands
    <3> QED
      BY <2>4, <3>2, <3>3
  <2> QED
    BY <2>1, <2>4, <2>5, <2>6 DEF Stands
<1>4. poll' = poll
  BY DEF Rerun
<1> QED
  BY <1>1, <1>3, <1>4, SkipUnfoldsNext

(* A poster creates no run.                                                    *)
LEMMA PostingTouches ==
  ASSUME CInv, NEW a \in Posters, Posting(a)
  PROVE  NoBirth
<1>1. post[a].pc # "idle"
  BY DEF Posting, At, GuardTarget, RetireMoved, DropPanel, Backfill, Finalize, Unreadable, Defer,
         RetireDeferred, Comment, Finish, ClaimStatus, Deliver
<1>2. PICK p \in Panels : post[a].panel = p /\ Exists(p)
  BY <1>1 DEF CInv, Known
<1>3. \A q \in Panels : q # p => panel'[q] = panel[q]
  BY <1>2 DEF Posting, GuardTarget, RetireMoved, DropPanel, RetireAndDelete, Backfill, Finalize,
              Unreadable, Defer, RetireDeferred, Comment, Finish, ClaimStatus, Deliver, Released,
              CInv, CTypeOK
<1> QED
  BY <1>2, <1>3, OneRow DEF CInv

(* Around the loop and the posters only a rerun creates a run.                 *)
LEMMA EnvironmentTouches ==
  ASSUME CInv, Environment, UNCHANGED poll
  PROVE  NoBirth \/ \E p, n \in Panels : Rerun(p, n)
<1>t. CTypeOK
  BY DEF CInv
<1>0. UNCHANGED panel => NoBirth
  BY DEF NoBirth, BornRow, Exists
<1>r. ASSUME NEW p \in Panels, Exists(p), RetireAndDelete(p)
      PROVE  NoBirth
  <2>1. \A q \in Panels : q # p => panel'[q] = panel[q]
    BY <1>r, <1>t DEF RetireAndDelete, CTypeOK
  <2> QED
    BY <1>r, <1>t, <2>1, OneRow
<1>1. CASE ChangePR \/ \E h \in Heads : AttemptDue(h)
  BY <1>0, <1>1 DEF ChangePR, AttemptDue
<1>2. CASE Restart
  <2>1. \A q \in Panels : ~Exists(q) => panel'[q] = panel[q]
    BY <1>2 DEF Restart
  <2> QED
    BY <2>1 DEF NoBirth, BornRow, Exists
<1>3. CASE CancelRetires
  BY <1>0, <1>3, <1>r DEF CancelRetires, CInv, CTypeOK, Known
<1>4. ASSUME NEW p \in Panels, RunEnds(p) \/ Cancel(p) \/ LeaseAges(p)
      PROVE  NoBirth
  <2>1. \A q \in Panels : q # p => panel'[q] = panel[q]
    BY <1>4, <1>t DEF RunEnds, Cancel, LeaseAges, CTypeOK
  <2>2. Exists(p)
    BY <1>4 DEF RunEnds, Cancel, LeaseAges, Exists, CInv, Known
  <2> QED
    BY <1>t, <2>1, <2>2, OneRow
<1>5. ASSUME NEW p \in Panels, Hear(p)
      PROVE  NoBirth
  <2>1. Exists(p)
    BY <1>5, EventsExist DEF Hear
  <2>2. CASE RetireAndDelete(p)
    BY <1>r, <2>1, <2>2
  <2>3. CASE StartPost("events", p)
    <3>1. \A q \in Panels : q # p => panel'[q] = panel[q]
      BY <1>t, <2>3 DEF StartPost, CTypeOK
    <3> QED
      BY <1>t, <2>1, <3>1, OneRow
  <2> QED
    BY <1>5, <2>2, <2>3 DEF Hear
<1> QED
  BY <1>1, <1>2, <1>3, <1>4, <1>5 DEF Environment

(* When the loop claims a skip, the decision stands.                           *)
LEMMA ClaimSkipHolds ==
  ASSUME CInv, ClaimSkip
  PROVE  SkipHolds'
<1>1. PICK h : h = poll.target
  OBVIOUS
<1>2. PICK p : p = Latest(h)
  OBVIOUS
<1>3. poll \in Poll /\ poll.pc = "filter" /\ poll.claimed = NoPanel
  BY DEF ClaimSkip, PollAt, CInv, CTypeOK, Known, Skipping
<1>4. CASE p = NoPanel
  <2>1. poll'.claimed = NoPanel
    BY <1>1, <1>2, <1>3, <1>4 DEF ClaimSkip, GoTo, Poll
  <2> QED
    BY <2>1 DEF SkipHolds
<1>5. CASE /\ p # NoPanel /\ panel' = [panel EXCEPT ![p].claim = "fresh"]
           /\ poll' = [poll EXCEPT !.pc = "skip", !.claimed = p]
  <2>1. poll'.claimed = p /\ poll'.target = h
    BY <1>1, <1>3, <1>5 DEF Poll
  <2>2. p \in Panels /\ Exists(p) /\ panel[p] \in Row
    BY <1>2, <1>5, LatestTyped, RowTyped DEF Of, CInv
  <2>3. \A q \in Panels : Exists(q)' <=> Exists(q)
    BY <1>5, <2>2 DEF CInv, CTypeOK, Row, Exists
  <2>4. \A q \in Panels : panel'[q].head = panel[q].head
    BY <1>5, <2>2 DEF CInv, CTypeOK, Row
  <2>5. Of(h)' = Of(h)
    BY <2>3, <2>4 DEF Of
  <2>6. Latest(h)' = p
    BY <1>2, <2>5 DEF Latest
  <2> QED
    BY <2>1, <2>6, SkipUnfoldsNext DEF Stands
<1>6. CASE Back
  <2>1. poll'.pc \in Backs
    BY <1>6, PollIsSound, PollGoesBack
  <2> QED
    BY <2>1 DEF SkipHolds, PollAt, Backs
<1> QED
  BY <1>1, <1>2, <1>4, <1>5, <1>6 DEF ClaimSkip

(* It stands until the loop is done with it.                                   *)
LEMMA NextSkipHolds ==
  ASSUME CInv, SkipHolds, [Next]_vars
  PROVE  SkipHolds'
<1>1. ASSUME NEW a \in Posters, Posting(a)
      PROVE  SkipHolds'
  <2>1. RowSteps /\ UNCHANGED poll
    BY <1>1, PostingSteps DEF PosterSteps
  <2> QED
    BY <1>1, <2>1, PostingTouches, SkipKept
<1>2. CASE Polling
  <2>1. poll'.pc = "skip" => ClaimSkip
    BY <1>2, PollingIsSteps DEF PollingSteps
  <2> QED
    BY <2>1, ClaimSkipHolds DEF SkipHolds, PollAt
<1>3. CASE Environment
  <2>1. RowSteps /\ poll' \in {poll, NoPoll}
    BY <1>3, EnvironmentIsSteps DEF EnvironmentSteps
  <2>2. CASE poll' = NoPoll
    <3>1. poll'.pc = "idle"
      BY <2>2 DEF NoPoll
    <3> QED
      BY <3>1 DEF SkipHolds, PollAt
  <2> QED
    BY <1>3, <2>1, <2>2, EnvironmentTouches, SkipKept, SkipRerun
<1>4. CASE UNCHANGED vars
  <2>1. RowSteps /\ UNCHANGED poll
    BY <1>4, SameRows DEF vars, CInv
  <2>2. NoBirth
    BY <1>4 DEF vars, NoBirth, BornRow, Exists
  <2> QED
    BY <2>1, <2>2, SkipKept
<1> QED
  BY <1>1, <1>2, <1>3, <1>4 DEF Next

(* While the poll loop holds the lease with which it publishes a skipped check, *)
(* the run it holds is the latest of the head, so that a rerun's attempt is     *)
(* never deleted by the cleanup of a skip that was decided before it.           *)
THEOREM CISkipStands == Spec => []SkipDecisionStands
<1>1. Init => SkipHolds
  BY DEF Init, NoPoll, SkipHolds, PollAt
<1>2. CInv /\ SkipHolds /\ [Next]_vars => SkipHolds'
  BY NextSkipHolds
<1>3. SkipHolds => SkipDecisionStands
  BY DEF SkipHolds, SkipDecisionStands
<1> QED
  BY <1>1, <1>2, <1>3, CIInvariant, PTL DEF Spec

-------------------------------------------------------------------------------
(* The budget of genuine failures: what has been counted and what posters that *)
(* decided on an older reading are still going to count stays within it.       *)

Counts(a, h) == /\ post[a].pc = "defer" /\ post[a].out = "genuine"
                /\ panel[post[a].panel].head = h
Toll(a, h)   == IF Counts(a, h) THEN 1 ELSE 0
Pending(h)   == Toll("events", h) + Toll("poll", h)
Budget       == \A h \in Heads : att[h].streak + Pending(h) <= GenuineMax

(* A step that counts no failure keeps the count of a head or begins anew, ... *)
Uncounted == \A h \in Heads : att'[h].streak \in {0, att[h].streak}
(* ... and one that decides on no deferral lets no poster count more heads.    *)
NoneNew   == \A a \in Posters, h \in Heads : Counts(a, h)' => Counts(a, h)

(* A poster counts one failure at most.                                        *)
LEMMA TollTyped ==
  ASSUME NEW a, NEW h
  PROVE  /\ Toll(a, h) \in 0 .. 1 /\ Toll(a, h)' \in 0 .. 1
         /\ Counts(a, h) => Toll(a, h) = 1
         /\ ~Counts(a, h)' => Toll(a, h)' = 0
         /\ (Counts(a, h)' => Counts(a, h)) => Toll(a, h)' <= Toll(a, h)
BY DEF Toll

(* Writing one attempt without counting.                                       *)
LEMMA PutUncounted ==
  ASSUME CInv, NEW h, NEW e, att' = [att EXCEPT ![h] = e],
         h \in Heads => e.streak \in {0, att[h].streak}
  PROVE  Uncounted
BY DEF CInv, CTypeOK, Uncounted

(* Deleting attempts counts nothing, ...                                       *)
LEMMA ForgottenUncounted ==
  ASSUME CInv, NEW H, ForgetAttempts(H)
  PROVE  Uncounted
BY NoAttemptTyped DEF ForgetAttempts, Uncounted

(* ... and neither does retiring a run with the attempt of its head.           *)
LEMMA RetiredUncounted ==
  ASSUME CInv, NEW p \in Panels, RetireAndDelete(p)
  PROVE  Uncounted
<1>1. UNCHANGED att => Uncounted
  BY DEF Uncounted
<1>2. ASSUME att' = [att EXCEPT ![panel[p].head] = NoAttempt]
      PROVE  Uncounted
  BY <1>2, NoAttemptTyped, PutUncounted
<1> QED
  BY <1>1, <1>2 DEF RetireAndDelete

(* What a poster may still count does not grow while it stays or stops.        *)
LEMMA QuietPosters ==
  ASSUME CInv, RowSteps, \A a \in Posters : post'[a] = post[a] \/ post'[a].pc # "defer"
  PROVE  NoneNew
<1> SUFFICES ASSUME NEW a \in Posters, NEW h \in Heads, Counts(a, h)'
             PROVE  Counts(a, h)
  BY DEF NoneNew
<1>1. post'[a] = post[a] /\ post[a].pc = "defer" /\ post[a].out = "genuine"
  BY DEF Counts
<1>2. post[a].panel \in Panels /\ Exists(post[a].panel)
  BY <1>1 DEF CInv, Known
<1>3. panel'[post[a].panel].head = panel[post[a].panel].head
  BY <1>2 DEF RowSteps, RowStep, BornRow, LaterRow
<1> QED
  BY <1>1, <1>3 DEF Counts

(* The budget lasts when nothing is counted and nothing new is to be counted.  *)
LEMMA BudgetLasts ==
  ASSUME CInv, CInv', Budget, Uncounted, NoneNew
  PROVE  Budget'
<1> SUFFICES ASSUME NEW h \in Heads
             PROVE  att'[h].streak + Pending(h)' <= GenuineMax
  BY DEF Budget
<1>1. /\ att[h].streak \in Nat /\ att'[h].streak \in Nat
      /\ att'[h].streak = 0 \/ att'[h].streak = att[h].streak
  BY DEF CInv, CTypeOK, Attempt, Uncounted
<1>2. Toll("events", h)' <= Toll("events", h) /\ Toll("poll", h)' <= Toll("poll", h)
  BY TollTyped DEF NoneNew, Posters
<1>3. /\ Toll("events", h) \in 0 .. 1 /\ Toll("poll", h) \in 0 .. 1
      /\ Toll("events", h)' \in 0 .. 1 /\ Toll("poll", h)' \in 0 .. 1
  BY TollTyped
<1>4. att[h].streak + (Toll("events", h) + Toll("poll", h)) <= GenuineMax
  BY DEF Budget, Pending
<1> HIDE DEF Toll
<1> QED
  BY <1>1, <1>2, <1>3, <1>4, CIAssumption DEF Pending

(* A poster decides to retry only while two more failures are within budget.   *)
LEMMA FinalizeInBudget ==
  ASSUME CInv, CInv', Budget, NEW a \in Posters, Finalize(a)
  PROVE  Budget'
<1> DEFINE p == post[a].panel
<1>0. p \in Panels /\ Exists(p) /\ UNCHANGED <<panel, att>> /\ CTypeOK
  BY DEF CInv, Known, Finalize
<1>1. \A b \in Posters : b # a => post'[b] = post[b]
  BY PostingSteps DEF PosterSteps, Posting
<1>2. CASE post'[a].pc # "defer"
  <2>1. Uncounted
    BY <1>0 DEF Uncounted
  <2>2. RowSteps
    BY PostingSteps DEF PosterSteps, Posting
  <2>3. NoneNew
    BY <1>1, <1>2, <2>2, QuietPosters
  <2> QED
    BY <2>1, <2>3, BudgetLasts
<1>3. CASE post'[a].pc = "defer"
  <2> SUFFICES ASSUME NEW h \in Heads
               PROVE  att'[h].streak + Pending(h)' <= GenuineMax
    BY DEF Budget
  <2>1. post' = [post EXCEPT ![a].pc = "defer", ![a].out = panel[p].result]
        /\ ~GivesUp(panel[p].head, p)
    <3>1. PostGoTo(a, "comment") => post'[a].pc # "defer"
      BY <1>0, PostWent DEF Pcs
    <3>2. Finishing(a, "noreview", FALSE) => post'[a].pc # "defer"
      BY <1>0, PostFinishing
    <3> QED
      BY <1>3, <3>1, <3>2 DEF Finalize
  <2>2. att[h].streak \in Nat /\ att'[h].streak = att[h].streak
    BY <1>0 DEF CTypeOK, Attempt
  <2>3. /\ Toll("events", h) \in 0 .. 1 /\ Toll("poll", h) \in 0 .. 1
        /\ Toll("events", h)' \in 0 .. 1 /\ Toll("poll", h)' \in 0 .. 1
    BY TollTyped
  <2>4. att[h].streak + (Toll("events", h) + Toll("poll", h)) <= GenuineMax
    BY DEF Budget, Pending
  <2>5. CASE Counts(a, h)'
    <3>1. panel[p].result = "genuine" /\ panel[p].head = h
      BY <1>0, <2>1, <2>5, PosterTyped DEF Counts, CTypeOK, Poster
    <3>2. ~(att[h].streak + 1 >= GenuineMax)
      BY <2>1, <3>1 DEF GivesUp
    <3> QED
      BY <2>2, <2>3, <3>2, CIAssumption DEF Pending
  <2>6. CASE ~Counts(a, h)'
    <3>1. \A b \in Posters : b # a => (Counts(b, h)' => Counts(b, h))
      BY <1>0, <1>1 DEF Counts
    <3>2. \A b \in Posters : Toll(b, h)' <= Toll(b, h)
      BY <2>6, <3>1, TollTyped
    <3>3. Toll("events", h)' <= Toll("events", h) /\ Toll("poll", h)' <= Toll("poll", h)
      BY <3>2 DEF Posters
    <3> QED
      BY <2>2, <2>3, <2>4, <3>3, CIAssumption DEF Pending
  <2> QED
    BY <2>5, <2>6
<1> QED
  BY <1>2, <1>3

(* A deferral counts what its poster was going to count.                       *)
LEMMA DeferInBudget ==
  ASSUME CInv, CInv', Budget, NEW a \in Posters, Defer(a)
  PROVE  Budget'
<1> SUFFICES ASSUME NEW h \in Heads
             PROVE  att'[h].streak + Pending(h)' <= GenuineMax
  BY DEF Budget
<1>t. CTypeOK /\ UNCHANGED panel /\ post[a].pc = "defer"
  BY DEF CInv, Defer, At
<1> DEFINE p == post[a].panel
           b == IF a = "events" THEN "poll" ELSE "events"
<1>0. p \in Panels /\ Exists(p) /\ post[a].out \in {"none", "genuine", "transient"}
  BY <1>t DEF CInv, Known, Ready
<1>1. /\ post'[a].pc = "retire" /\ b \in Posters /\ post'[b] = post[b]
      /\ a = "events" \/ a = "poll"
  BY <1>t, PostWent DEF Defer, Pcs, Posters
<1>2. Toll(a, h)' = 0
  BY <1>1, TollTyped DEF Counts
<1>3. Toll(b, h)' <= Toll(b, h) /\ Toll(b, h) \in 0 .. 1 /\ Toll(b, h)' \in 0 .. 1
  BY <1>t, <1>1, TollTyped DEF Counts
<1>4. Toll(a, h) \in 0 .. 1 /\ (Counts(a, h) => Toll(a, h) = 1)
  BY TollTyped
<1>5. /\ att[h].streak \in Nat /\ att'[h].streak \in Nat
      /\ att[h].streak + (Toll(a, h) + Toll(b, h)) <= GenuineMax
  <2>1. att[h].streak + (Toll("events", h) + Toll("poll", h)) <= GenuineMax
    BY DEF Budget, Pending
  <2>2. Toll("events", h) \in 0 .. 1 /\ Toll("poll", h) \in 0 .. 1
    BY TollTyped
  <2>3. Toll("events", h) + Toll("poll", h) = Toll(a, h) + Toll(b, h)
    BY <1>1, <2>2
  <2> QED
    BY <2>1, <2>3 DEF CInv, CTypeOK, Attempt
<1>6. Pending(h)' = Toll(b, h)'
  <2>1. Toll("events", h)' \in 0 .. 1 /\ Toll("poll", h)' \in 0 .. 1
    BY TollTyped
  <2> QED
    BY <1>1, <1>2, <2>1 DEF Pending
<1>7. \/ att'[h].streak \in {0, att[h].streak}
      \/ att'[h].streak = att[h].streak + 1 /\ Counts(a, h)
  <2>1. CASE UNCHANGED att
    BY <2>1
  <2>2. CASE att' = [att EXCEPT ![panel[p].head] = Deferral(panel[p].head, p, post[a].out)]
    <3>1. CASE panel[p].head = h
      <4>1. att'[h].streak = IF post[a].out = "genuine" THEN att[h].streak + 1 ELSE 0
        BY <1>t, <1>0, <2>2, <3>1, DeferralTyped DEF CTypeOK
      <4> QED
        BY <1>t, <3>1, <4>1 DEF Counts
    <3>2. CASE panel[p].head # h
      BY <1>t, <2>2, <3>2 DEF CTypeOK
    <3> QED
      BY <3>1, <3>2
  <2> QED
    BY <2>1, <2>2 DEF Defer
<1> HIDE DEF p, b
<1> QED
  BY <1>3, <1>4, <1>5, <1>6, <1>7, CIAssumption

(* No other step of a poster counts a failure.                                 *)
LEMMA PostingInBudget ==
  ASSUME CInv, CInv', Budget, NEW a \in Posters, Posting(a)
  PROVE  Budget'
<1>1. CASE Finalize(a)
  BY <1>1, FinalizeInBudget
<1>2. CASE Defer(a)
  BY <1>2, DeferInBudget
<1>3. CASE ~Finalize(a) /\ ~Defer(a)
  <2>t. CTypeOK /\ PosterSteps(a)
    BY PostingSteps DEF CInv
  <2>0. post[a].pc # "idle"
    BY DEF Posting, At, GuardTarget, RetireMoved, DropPanel, Backfill, Finalize, Unreadable,
           Defer, RetireDeferred, Comment, Finish, ClaimStatus, Deliver
  <2>p. PICK p \in Panels : post[a].panel = p
    BY <2>0 DEF CInv, Known
  <2>1. \/ PostEnds(a) \/ Concludes(a)
        \/ \E pc \in Pcs \ {"defer"} : PostGoTo(a, pc)
    BY <1>3 DEF Posting, GuardTarget, RetireMoved, DropPanel, Backfill, Unreadable,
                RetireDeferred, Comment, Finish, ClaimStatus, Deliver, Concludes, Pcs
  <2>2. post'[a].pc # "defer"
    BY <2>t, <2>1, PostStopped, PostFinishing, PostWent DEF Concludes
  <2>3. RowSteps /\ \A b \in Posters : b # a => post'[b] = post[b]
    BY <2>t DEF PosterSteps
  <2>4. NoneNew
    BY <2>2, <2>3, QuietPosters
  <2>5. UNCHANGED att => Uncounted
    BY DEF Uncounted
  <2>6. DropPanel(a) => Uncounted
    BY <2>p, RetiredUncounted DEF DropPanel
  <2>7. Backfill(a) => Uncounted
    BY NoAttemptTyped, PutUncounted DEF Backfill
  <2>8. ASSUME Finish(a)
        PROVE  Uncounted
    <3>1. PICK g : g = panel[p].head
      OBVIOUS
    <3>2. att' = att \/ att' = [att EXCEPT ![g].st = "done", ![g].due = FALSE]
      BY <2>p, <2>8, <3>1 DEF Finish
    <3>3. \A h \in Heads : att'[h].streak = att[h].streak
      BY <2>t, <3>2 DEF CTypeOK, Attempt
    <3> QED
      BY <3>3 DEF Uncounted
  <2>9. Uncounted
    BY <1>3, <2>5, <2>6, <2>7, <2>8 DEF Posting, GuardTarget, RetireMoved, Unreadable,
                                        RetireDeferred, Comment, ClaimStatus, Deliver
  <2> QED
    BY <2>4, <2>9, BudgetLasts
<1> QED
  BY <1>1, <1>2, <1>3

(* The poll loop counts no failure, ...                                        *)
LEMMA PollingInBudget ==
  ASSUME CInv, CInv', Budget, Polling
  PROVE  Budget'
<1>1. PollingSteps
  BY PollingIsSteps
<1>2. NoneNew
  <2>1. \A a \in Posters : post'[a] = post[a] \/ post'[a].pc # "defer"
    BY <1>1 DEF PollingSteps
  <2> QED
    BY <1>1, <2>1, QuietPosters DEF PollingSteps
<1>3. UNCHANGED att => Uncounted
  BY DEF Uncounted
<1>4. \A H : ForgetAttempts(H) => Uncounted
  BY ForgottenUncounted
<1>5. \A h \in Heads : Rearm(h) => Uncounted
  BY DEF Rearm, Uncounted, CInv, CTypeOK, Attempt
<1>6. ClaimDue => Uncounted
  BY DEF ClaimDue, Uncounted, CInv, CTypeOK, Attempt
<1>7. ASSUME Create
      PROVE  Uncounted
  <2>1. PICK g : g = poll.target
    OBVIOUS
  <2>2. att' = att \/ att' = [att EXCEPT ![g] = Ensured(g)]
    BY <1>7, <2>1 DEF Create
  <2>3. Ensured(g).streak \in {0, att[g].streak}
    BY NoAttemptTyped DEF Ensured
  <2> QED
    BY <1>3, <2>2, <2>3, PutUncounted
<1>8. Uncounted
  BY <1>3, <1>4, <1>5, <1>6, <1>7
     DEF Polling, BeginPoll, Clean, SweepRetire, SweepCancel, SweepDelete, SweepDone, Forget,
         Check, ClaimSkip, Skip, Skipped, Rest, QuietHours, Throttle, EnqueueNew, Fetch, Disabled,
         ListStuck, ListDue, ListEnded, PostEnded, ListGivenUp, ListStatuses, SendStatus, EndPoll,
         RetryDue, Review, PollOnly
<1> QED
  BY <1>2, <1>8, BudgetLasts

(* ... and neither does anything around it.                                    *)
LEMMA EnvironmentInBudget ==
  ASSUME CInv, CInv', Budget, Environment
  PROVE  Budget'
<1>1. EnvironmentSteps
  BY EnvironmentIsSteps
<1>2. NoneNew
  <2>1. \A a \in Posters : post'[a] = post[a] \/ post'[a].pc # "defer"
    BY <1>1 DEF EnvironmentSteps
  <2> QED
    BY <1>1, <2>1, QuietPosters DEF EnvironmentSteps
<1>3. UNCHANGED att => Uncounted
  BY DEF Uncounted
<1>4. \A p \in Panels : RetireAndDelete(p) => Uncounted
  BY RetiredUncounted
<1>5. ASSUME CancelRetires
      PROVE  Uncounted
  <2>1. cn \in Panels
    BY <1>5 DEF CancelRetires, CInv, CTypeOK
  <2>2. RetireAndDelete(cn) \/ UNCHANGED att
    BY <1>5 DEF CancelRetires
  <2>3. PICK p : p = cn
    OBVIOUS
  <2> QED
    BY <1>3, <1>4, <2>1, <2>2, <2>3, Zenon
<1>6. ASSUME NEW p \in Panels, NEW n \in Panels, Rerun(p, n)
      PROVE  Uncounted
  <2>1. PICK c : att' = [att EXCEPT ![panel[p].head] = [Reserved EXCEPT !.run = n, !.class = c]]
    BY <1>6 DEF Rerun
  <2>2. [Reserved EXCEPT !.run = n, !.class = c].streak = 0
    BY DEF Reserved, NoAttempt
  <2> QED
    BY <2>1, <2>2, PutUncounted
<1>7. ASSUME NEW h \in Heads, AttemptDue(h)
      PROVE  Uncounted
  BY <1>7 DEF AttemptDue, Uncounted, CInv, CTypeOK, Attempt
<1>8. ASSUME Restart
      PROVE  Uncounted
  <2>1. ASSUME NEW h \in Heads
        PROVE  att'[h].streak \in {0, att[h].streak}
    <3>1. att[h] \in Attempt
      BY DEF CInv, CTypeOK
    <3>2. \/ att'[h] = [att[h] EXCEPT !.st = "deferred", !.due = TRUE, !.streak = 0]
          \/ \E d : att'[h] = [att[h] EXCEPT !.due = d]
      BY <1>8 DEF Restart
    <3> QED
      BY <3>1, <3>2 DEF Attempt
  <2> QED
    BY <2>1 DEF Uncounted
<1>9. Uncounted
  BY <1>3, <1>4, <1>5, <1>6, <1>7, <1>8
     DEF Environment, ChangePR, RunEnds, LeaseAges, Hear, Cancel
<1> QED
  BY <1>2, <1>9, BudgetLasts

(* Before anything happened nothing is counted.                                *)
LEMMA InitBudget ==
  ASSUME Init
  PROVE  Budget
<1>1. \A h \in Heads : att[h].streak = 0
  BY NoAttemptTyped DEF Init
<1>2. \A a \in Posters : post[a].pc = "idle"
  BY DEF Init, NoPost
<1>3. \A h \in Heads : Pending(h) = 0
  BY <1>2 DEF Pending, Toll, Counts, Posters
<1> QED
  BY <1>1, <1>3, CIAssumption DEF Budget

(* A head whose review keeps failing is given up: no interleaving of two       *)
(* posters, takeovers, restarts and reruns lets a head fail more often in a    *)
(* row than the limit, whatever the limit is.                                  *)
THEOREM CIBudget == Spec => []GenuineBudget
<1>1. ASSUME CInv, CInv', Budget, [Next]_vars
      PROVE  Budget'
  <2>1. UNCHANGED vars => Budget'
    BY <1>1 DEF vars, Budget, Pending, Toll, Counts
  <2> QED
    BY <1>1, <2>1, PostingInBudget, PollingInBudget, EnvironmentInBudget DEF Next
<1>2. CInv /\ CInv' /\ Budget /\ [Next]_vars => Budget'
  BY <1>1
<1>3. ASSUME CInv, Budget
      PROVE  GenuineBudget
  <2>1. ASSUME NEW h \in Heads
        PROVE  att[h].streak <= GenuineMax
    <3>1. Toll("events", h) \in 0 .. 1 /\ Toll("poll", h) \in 0 .. 1 /\ att[h].streak \in Nat
      BY <1>3, TollTyped DEF CInv, CTypeOK, Attempt
    <3>2. att[h].streak + (Toll("events", h) + Toll("poll", h)) <= GenuineMax
      BY <1>3 DEF Budget, Pending
    <3> QED
      BY <3>1, <3>2, CIAssumption
  <2> QED
    BY <2>1 DEF GenuineBudget
<1>4. CInv /\ Budget => GenuineBudget
  BY <1>3
<1> QED
  BY <1>2, <1>4, InitBudget, CIInvariant, PTL DEF Spec

-------------------------------------------------------------------------------
(* Outside the poll loop, an attempt is deleted with the latest run of a head. *)

(* Retiring a run deletes the attempt of its head only if it is the latest.    *)
LEMMA DeletedWithLatest ==
  ASSUME CInv, NEW p \in Panels, RetireAndDelete(p), NEW h \in Heads,
         att[h].st # "none", att'[h].st = "none"
  PROVE  panel'[Latest(h)].retired
<1>1. OwnsAttempt(p) /\ panel[p].head = h
  BY DEF RetireAndDelete, CInv
<1>2. Latest(h) = p /\ ~panel[p].posted
  BY <1>1 DEF OwnsAttempt
<1>3. panel[p] \in Row /\ Retired(panel[p]) \in Row
  BY RowTyped, RetiredRow DEF CInv
<1>4. panel'[p] = Retired(panel[p])
  BY <1>3, PutRow DEF RetireAndDelete, CInv
<1> QED
  BY <1>2, <1>3, <1>4, RetiredRow

(* So it is when a poster deletes an attempt, ...                              *)
LEMMA PostingOutlives ==
  ASSUME CInv, NEW a \in Posters, Posting(a), NEW h \in Heads,
         att[h].st # "none", att'[h].st = "none"
  PROVE  panel'[Latest(h)].retired
<1>t. CTypeOK
  BY DEF CInv
<1>1. post[a].pc # "idle"
  BY DEF Posting, At, GuardTarget, RetireMoved, DropPanel, Backfill, Finalize, Unreadable, Defer,
         RetireDeferred, Comment, Finish, ClaimStatus, Deliver
<1>2. PICK p \in Panels : post[a].panel = p /\ Exists(p)
  BY <1>1 DEF CInv, Known
<1>3. CASE DropPanel(a)
  BY <1>2, <1>3, DeletedWithLatest DEF DropPanel
<1>4. CASE Backfill(a) \/ Defer(a)
  <2>1. PICK g : g = panel[p].head
    OBVIOUS
  <2>2. \/ att' = att
        \/ att' = [att EXCEPT ![g] = Reserved]
        \/ att' = [att EXCEPT ![g] = Deferral(g, p, post[a].out)] /\ At(a, "defer")
    BY <1>2, <1>4, <2>1 DEF Backfill, Defer
  <2>3. g = h
    BY <2>2 DEF CInv, CTypeOK
  <2>4. Reserved.st # "none"
    BY NoAttemptTyped
  <2>5. At(a, "defer") => Deferral(h, p, post[a].out).st = "deferred"
    BY <1>2, DeferralTyped DEF CInv, Known, Ready, At
  <2> QED
    BY <2>2, <2>3, <2>4, <2>5 DEF CInv, CTypeOK
<1>5. CASE Finish(a)
  <2>1. PICK g : g = panel[p].head
    OBVIOUS
  <2>2. att' = att \/ att' = [att EXCEPT ![g].st = "done", ![g].due = FALSE]
    BY <1>2, <1>5, <2>1 DEF Finish
  <2> QED
    BY <2>2 DEF CInv, CTypeOK, Attempt
<1> QED
  BY <1>3, <1>4, <1>5 DEF Posting, GuardTarget, RetireMoved, Finalize, Unreadable, RetireDeferred,
                          Comment, ClaimStatus, Deliver

(* ... and when an endpoint does.                                              *)
LEMMA EnvironmentOutlives ==
  ASSUME CInv, Environment, NEW h \in Heads, att[h].st # "none", att'[h].st = "none"
  PROVE  panel'[Latest(h)].retired
<1>1. CASE Restart
  BY <1>1, RestartRows
<1>2. CASE CancelRetires
  BY <1>2, DeletedWithLatest DEF CancelRetires, CInv, CTypeOK
<1>3. ASSUME NEW p \in Panels, Hear(p)
      PROVE  panel'[Latest(h)].retired
  BY <1>3, DeletedWithLatest DEF Hear
<1>4. ASSUME NEW p \in Panels, NEW n \in Panels, Rerun(p, n)
      PROVE  FALSE
  <2>1. PICK c : att' = [att EXCEPT ![panel[p].head] = [Reserved EXCEPT !.run = n, !.class = c]]
    BY <1>4 DEF Rerun
  <2>2. [Reserved EXCEPT !.run = n, !.class = c].st = "pending"
    BY DEF Reserved, NoAttempt
  <2> QED
    BY <2>1, <2>2 DEF CInv
<1>5. ASSUME NEW g \in Heads, AttemptDue(g)
      PROVE  FALSE
  BY <1>5 DEF AttemptDue, CInv, CTypeOK, Attempt
<1> QED
  BY <1>1, <1>2, <1>3, <1>4, <1>5 DEF Environment, ChangePR, RunEnds, LeaseAges, Cancel

(* Outside the poll loop an attempt is deleted only together with the latest   *)
(* run of its head: a late event, cancel or post of an old run leaves the      *)
(* attempt of a newer run alone.                                               *)
THEOREM CIAttemptOutlives == Spec => AttemptOutlivesOldRun
<1>1. ASSUME CInv, [Next]_vars, NEW h \in Heads, att[h].st # "none", att'[h].st = "none",
             poll' = poll
      PROVE  panel'[Latest(h)].retired
  <2>1. CASE Polling
    BY <1>1, <2>1, PollingIsSteps DEF PollingSteps
  <2>2. CASE Environment
    BY <1>1, <2>2, EnvironmentOutlives
  <2>3. ASSUME NEW a \in Posters, Posting(a)
        PROVE  panel'[Latest(h)].retired
    BY <1>1, <2>3, PostingOutlives
  <2>4. CASE UNCHANGED vars
    BY <1>1, <2>4 DEF vars
  <2> QED
    BY <1>1, <2>1, <2>2, <2>3, <2>4 DEF Next
<1>2. CInv /\ [Next]_vars =>
        [\A h \in Heads :
           att[h].st # "none" /\ att'[h].st = "none" /\ poll' = poll =>
             panel'[Latest(h)].retired]_vars
  BY <1>1
<1> QED
  BY <1>2, CIInvariant, PTL DEF Spec, AttemptOutlivesOldRun

================================================================================

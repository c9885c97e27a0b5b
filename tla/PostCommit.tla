------------------------------ MODULE PostCommit ------------------------------
(* Batches of commits that wait for one review: the hooks of git, the state    *)
(* file they share under a lock, and the timers of the daemon that flush a     *)
(* branch nobody commits to.  The user commits, rewrites, renames and pushes   *)
(* meanwhile.  A history is a tree: second parents of merges are left out.     *)
EXTENDS Naturals, FiniteSets, FiniteSetsExt

CONSTANTS
  MaxCommits,   \* bound: commits that are made after the first
  Names,        \* branch names, numbers in the order in which git lists them
  BatchSize,    \* commits that make a batch
  MaxMoves,     \* bound: the user's other operations on branches, and pushes
  MaxMishaps    \* bound: failing requests and writes, killed hooks, daemon restarts

ASSUME PostCommitAssumption ==
  /\ Names \subseteq Nat \ {0} /\ Names # {} /\ IsFiniteSet(Names)
  /\ MaxCommits \in Nat /\ BatchSize \in Nat /\ MaxMoves \in Nat /\ MaxMishaps \in Nat

VARIABLES
  chain,        \* the first-parent chain of every commit
  ref, cur,     \* refs/heads and the branch that is checked out
  batching,     \* whether the configuration asks for batches
  saved,        \* post-commit-batches.json
  hook,         \* the running hooks
  holder,       \* who holds post-commit.lock
  timer,        \* heads the daemon will flush, per branch
  asked,        \* heads it was asked to flush since the branch last moved
  seen,         \* commits a hook has recorded as pending
  reviewed,     \* commits a review was enqueued for
  pushed,       \* recorded commits a push has taken along
  moves, mishaps

pvars == <<chain, ref, cur, batching, saved, hook, holder, timer, asked, seen, reviewed,
           pushed, moves, mishaps>>

Commits  == 0 .. MaxCommits
NoCommit == MaxCommits + 1
NoEntry  == [ckpt |-> NoCommit, tip |-> NoCommit]

(* The hook of a commit, the hook of a push and the daemon's quiet flushes.    *)
CommitHook == Max(Names) + 1
PushHook   == Max(Names) + 2
Hooks   == {CommitHook, PushHook} \cup Names
Nobody  == 0
NoHook  == [pc |-> "idle", todo |-> {}, due |-> {}, branch |-> 0, head |-> NoCommit,
            range |-> {}, then |-> "keep"]
Flush   == [branch : Names, head : Commits, named : BOOLEAN]
HookRow == [pc : {"idle", "lock", "schedule", "send", "head", "advance", "next"},
            todo : SUBSET Flush, due : SUBSET Commits, branch : Names \cup {0},
            head : Commits \cup {NoCommit}, range : SUBSET Commits,
            then : {"keep", "advance", "clear"}]

PInit ==
  /\ chain = [c \in Commits |-> IF c = 0 THEN {0} ELSE {}]
  /\ ref = [b \in Names |-> IF b = Min(Names) THEN 0 ELSE NoCommit] /\ cur = Min(Names)
  /\ batching = TRUE
  /\ saved = [b \in Names |-> NoEntry]
  /\ hook = [k \in Hooks |-> NoHook] /\ holder = Nobody
  /\ timer = [b \in Names |-> NoCommit] /\ asked = [b \in Names |-> NoCommit]
  /\ seen = {} /\ reviewed = {} /\ pushed = {}
  /\ moves = 0 /\ mishaps = 0

-------------------------------------------------------------------------------
(* Git.                                                                        *)

Live(b)      == ref[b] # NoCommit
Parent(c)    == Max(chain[c] \ {c})
Fork(c, d)   == Max(chain[c] \cap chain[d])
OnChain(c, head) == c \in chain[head]
Between(c, head) == chain[head] \ chain[c]
Distance(c, head) == Cardinality(Between(c, head))
Recorded(e) == IF e = NoEntry THEN {} ELSE Between(e.ckpt, e.tip)
Pending(n) ==
  Recorded(saved[n])
    \cup (IF saved[n] # NoEntry /\ Live(n) THEN Between(saved[n].ckpt, ref[n]) ELSE {})
(* A rewrite has not left the checkpoint behind.                               *)
Intact(e)   == e # NoEntry /\ OnChain(e.ckpt, e.tip)
Holds(b, c) == Live(b) /\ OnChain(c, ref[b])

-------------------------------------------------------------------------------
(* resolvePostCommitCheckpoint on a state s: a branch may hand its range over  *)
(* to the branch that holds its commits now, and adopts the ranges of names    *)
(* that are gone.                                                              *)

Escaped(b, head, s) ==
  LET own == s[b] IN
  /\ own # NoEntry /\ own.tip # head
  /\ ~OnChain(own.tip, head) /\ ~OnChain(head, own.tip)

(* Slip: a range is handed over although the new holder has a longer one.   *)
Widens_Always(own, e, head) == TRUE

Widens(own, e, head) ==
  \/ ~OnChain(e.ckpt, head)
  \/ Distance(own.ckpt, head) > Distance(e.ckpt, head)

HandedOff(b, s) ==
  LET own == s[b]
      holders == {n \in Names \ {b} : Holds(n, own.tip)}
      n == Min(holders) IN
  IF holders = {} THEN s
  ELSE IF s[n] = NoEntry THEN [s EXCEPT ![n] = own]
  ELSE IF OnChain(own.ckpt, ref[n]) /\ Widens(own, s[n], ref[n])
       THEN [s EXCEPT ![n].ckpt = own.ckpt] ELSE s

Propagated(b, head, s) ==
  IF Escaped(b, head, s) THEN [HandedOff(b, s) EXCEPT ![b].tip = head] ELSE s

Orphans(b, head, s) ==
  {n \in Names \ {b} : /\ s[n] # NoEntry /\ ~Live(n)
                       /\ OnChain(s[n].ckpt, head) /\ OnChain(s[n].tip, head)}

Baseline(own, head) == IF own = NoEntry THEN 1 ELSE Distance(own.ckpt, head)

Adopted(b, head, s) ==
  LET orphans == Orphans(b, head, s)
      deeper == {n \in orphans : Distance(s[n].ckpt, head) >= Baseline(s[b], head)}
      rest == [n \in Names |-> IF n \in orphans THEN NoEntry ELSE s[n]] IN
  IF deeper = {} THEN rest
  ELSE [rest EXCEPT ![b] = [ckpt |-> Min({s[n].ckpt : n \in deeper}), tip |-> head]]

Resolved(b, head) == Adopted(b, head, Propagated(b, head, saved))

-------------------------------------------------------------------------------
(* Planning.  A plan is the state to save, the range to review, what the hook  *)
(* does with it and what becomes of the checkpoint afterwards.                 *)

Plan(s, range, goal, then) == [saved |-> s, range |-> range, goal |-> goal, then |-> then]

(* recoverOffChainPostCommitBatch; without any commit since the fork the head  *)
(* is reviewed and the checkpoint kept.                                        *)
Recovery(s, ckpt, head) ==
  IF Between(ckpt, head) = {} THEN Plan(s, {head}, "send", "keep")
                              ELSE Plan(s, Between(ckpt, head), "send", "advance")

(* planPostCommitBatch.                                                        *)
PlanCommit(b, head) ==
  LET s == Resolved(b, head)
      ckpt == IF s[b] = NoEntry THEN Parent(head) ELSE s[b].ckpt
      tracked == [s EXCEPT ![b] = [ckpt |-> ckpt, tip |-> head]]
      range == Between(ckpt, head) IN
  IF s[b] = NoEntry /\ head = 0 THEN Plan(s, {head}, "send", "advance")
  ELSE IF ~OnChain(ckpt, head)   THEN Recovery(tracked, ckpt, head)
  ELSE IF range = {}             THEN Plan(tracked, {}, "none", "keep")
  ELSE Plan(tracked, range, IF Cardinality(range) >= BatchSize THEN "send" ELSE "schedule",
            "advance")

(* planDisabledPostCommitBatch: what is pending is drained, then forgotten.    *)
PlanDisabled(b, head) ==
  LET s == Resolved(b, head) IN
  IF s[b] = NoEntry                      THEN Plan(s, {}, "head", "keep")
  ELSE IF Between(s[b].ckpt, head) = {}  THEN Plan(s, {}, "head", "clear")
  ELSE Plan(s, Between(s[b].ckpt, head), "send", "clear")

(* planStoredPostCommitBatch.                                                  *)
PlanStored(b, head) ==
  LET s == Resolved(b, head) IN
  IF s[b] = NoEntry                    THEN Plan(s, {}, "none", "keep")
  ELSE IF ~OnChain(s[b].ckpt, head)    THEN Recovery(s, s[b].ckpt, head)
  ELSE IF s[b].ckpt = head             THEN Plan(s, {}, "none", "keep")
  ELSE Plan(s, Between(s[b].ckpt, head), "send", "advance")

-------------------------------------------------------------------------------
(* The user.                                                                   *)

Idle(k)  == hook[k].pc = "idle"
Mishap   == mishaps < MaxMishaps /\ mishaps' = mishaps + 1
Works    == UNCHANGED mishaps
Moves    == moves < MaxMoves /\ moves' = moves + 1
Made(c)  == chain[c] # {}
NextCommit(c) == ~Made(c) /\ \A d \in Commits : d < c => Made(d)

(* A rewrite gives up the range of an entry whose tip it takes off every       *)
(* branch, except what the entry's own branch still holds.                     *)
Kept(n) ==
  IF saved[n] = NoEntry THEN {}
  ELSE (IF \E b \in Names : Holds(b, saved[n].tip) THEN Recorded(saved[n]) ELSE {})
       \cup (IF Live(n) THEN Between(saved[n].ckpt, ref[n]) ELSE {})
OnlyGit ==
  /\ UNCHANGED <<batching, saved, holder, timer, reviewed, pushed, mishaps>>
  /\ seen' = seen \cap UNION {Kept(n)' : n \in Names}
  /\ asked' = [b \in Names |-> IF ref'[b] = ref[b] THEN asked[b] ELSE NoCommit]
StartHook == hook' = [hook EXCEPT ![CommitHook] = [NoHook EXCEPT !.pc = "lock"]]

(* What rewrites or renames waits for the hooks of the user's commands, which  *)
(* run in the foreground; commits, branches and pushes may come from a second  *)
(* checkout, and the daemon's flushes at any time.                             *)
Alone == Idle(CommitHook) /\ Idle(PushHook)

CommitOn(c, below) ==
  /\ Idle(CommitHook) /\ NextCommit(c)
  /\ chain' = [chain EXCEPT ![c] = below \cup {c}]
  /\ ref' = [ref EXCEPT ![cur] = c]
  /\ StartHook /\ UNCHANGED cur /\ OnlyGit

Commit == \E c \in Commits : CommitOn(c, chain[ref[cur]]) /\ UNCHANGED moves

Amend == /\ ref[cur] # 0 /\ Alone /\ Moves
         /\ \E c \in Commits : CommitOn(c, chain[ref[cur]] \ {ref[cur]})

(* A reset, a rebase or a fast-forward: no hook runs.                          *)
Reset(c) ==
  /\ Made(c) /\ c # ref[cur] /\ Alone /\ Moves
  /\ ref' = [ref EXCEPT ![cur] = c]
  /\ UNCHANGED <<chain, cur, hook>> /\ OnlyGit

(* A push is not held to the range of a name that comes back while it runs,    *)
(* see README.                                                                 *)
Branch(n) ==
  /\ ~Live(n) /\ Moves
  /\ ref' = [ref EXCEPT ![n] = ref[cur]] /\ cur' = n
  /\ hook' = [hook EXCEPT ![PushHook].due =
                IF saved[n] = NoEntry THEN @ ELSE @ \ Recorded(saved[n])]
  /\ UNCHANGED chain /\ OnlyGit

Switch(n) ==
  /\ Live(n) /\ n # cur /\ Moves /\ cur' = n
  /\ UNCHANGED <<chain, ref, hook>> /\ OnlyGit

Rename(n) ==
  /\ ~Live(n) /\ Alone /\ Moves
  /\ ref' = [ref EXCEPT ![n] = ref[cur], ![cur] = NoCommit] /\ cur' = n
  /\ UNCHANGED <<chain, hook>> /\ OnlyGit

Delete(n) ==
  /\ Live(n) /\ n # cur /\ Alone /\ Moves
  /\ ref' = [ref EXCEPT ![n] = NoCommit]
  /\ UNCHANGED <<chain, cur, hook>> /\ OnlyGit

Configure ==
  /\ Moves /\ batching' = ~batching
  /\ UNCHANGED <<chain, ref, cur, saved, hook, holder, timer, asked, seen, reviewed,
                 pushed, mishaps>>

(* Slip: a range whose branch is gone or was reset is not looked for.       *)
Tips_LiveOnly(n, heads, named) == IF n \in named \/ ~Live(n) THEN {} ELSE {ref[n]}

(* pushedAncestorFlushBranches, read without the lock: how far a push takes    *)
(* along the range of an entry, ...                                            *)
Tips(n, heads, named) ==
  LET e == saved[n] IN
  IF ~Live(n) THEN IF \E b \in named : OnChain(e.tip, ref[b]) THEN {} ELSE {e.tip}
  ELSE (IF n \in named THEN {} ELSE {ref[n]})
       \cup (IF OnChain(e.tip, ref[n]) THEN {} ELSE {e.tip})

Carried(n, heads, named) ==
  {c \in {Fork(t, h) : t \in Tips(n, heads, named), h \in heads} :
     OnChain(saved[n].ckpt, c) /\ c # saved[n].ckpt}

(* ... of which one that is longest is flushed.                                *)
Furthest(n, heads, named) ==
  {c \in Carried(n, heads, named) : \A d \in Carried(n, heads, named) :
     Distance(saved[n].ckpt, d) <= Distance(saved[n].ckpt, c)}
Torn(n, heads, named) ==
  \E c, d \in Carried(n, heads, named) : ~OnChain(c, d) /\ ~OnChain(d, c)

Carriers(heads, named) == {n \in Names : saved[n] # NoEntry /\ Carried(n, heads, named) # {}}

(* What a push has to have reviewed: the recorded commits on the chains of its *)
(* heads, except the ranges it takes along in two directions.                  *)
Due(heads, named) ==
  (UNION {chain[h] : h \in heads})
    \cap UNION {Recorded(saved[n]) :
                  n \in {m \in Names : Intact(saved[m]) /\ ~Torn(m, heads, named)}}

(* A push of the branches in named and of tags or other commits.               *)
Push(named, tags) ==
  LET heads == {ref[b] : b \in named} \cup tags
      carriers == Carriers(heads, named) IN
  /\ Idle(PushHook) /\ Moves
  /\ heads # {} /\ (\A b \in named : Live(b)) /\ \A c \in tags : Made(c)
  /\ \E far \in [carriers -> Commits] :
       /\ \A n \in carriers : far[n] \in Furthest(n, heads, named)
       /\ hook' = [hook EXCEPT ![PushHook] = [NoHook EXCEPT
            !.pc = "next", !.due = Due(heads, named),
            !.todo = {[branch |-> b, head |-> ref[b], named |-> TRUE] : b \in named}
                     \cup {[branch |-> n, head |-> far[n], named |-> FALSE] : n \in carriers}]]
  /\ UNCHANGED <<chain, ref, cur>> /\ OnlyGit

-------------------------------------------------------------------------------
(* A hook: the lock, the plan, the request, the checkpoint.                    *)

HookAt(k, pc) == hook[k].pc = pc
HookGoTo(k, pc) == hook' = [hook EXCEPT ![k].pc = pc]

(* One flush of a push is over, or the hook is.                                *)
Ended(k) == IF k = PushHook THEN [NoHook EXCEPT !.pc = "next", !.todo = hook[k].todo,
                                              !.due = hook[k].due]
                          ELSE NoHook
Ends(k)  == hook' = [hook EXCEPT ![k] = Ended(k)]
Unlocked(k) == holder' = IF holder = k THEN Nobody ELSE holder

OnlyHook == UNCHANGED <<chain, ref, cur, batching, pushed, moves>>

NextFlush(f) ==
  /\ HookAt(PushHook, "next") /\ f \in hook[PushHook].todo
  /\ f.named \/ ~\E g \in hook[PushHook].todo : g.named
  /\ hook' = [hook EXCEPT ![PushHook].pc = "lock", ![PushHook].branch = f.branch,
                          ![PushHook].head = f.head, ![PushHook].todo = @ \ {f}]
  /\ OnlyHook /\ UNCHANGED <<saved, holder, timer, asked, seen, reviewed, mishaps>>

(* The push itself happens whatever its hook did.                              *)
PushEnds ==
  /\ HookAt(PushHook, "next") /\ hook[PushHook].todo = {}
  /\ pushed' = pushed \cup hook[PushHook].due
  /\ hook' = [hook EXCEPT ![PushHook] = NoHook]
  /\ UNCHANGED <<chain, ref, cur, batching, saved, holder, timer, asked, seen, reviewed, moves,
                 mishaps>>

(* What another hook adopts while a push runs is under another name when the   *)
(* push gets to it, see README.                                                *)
TakenOver(k) ==
  IF k = PushHook THEN {}
  ELSE UNION {Recorded(saved[n]) : n \in {m \in Names : saved[m] # NoEntry /\ saved'[m] = NoEntry}}

(* Takes the lock and carries the plan p for head out as far as it goes.       *)
Follow(k, b, head, p) ==
  LET doing == IF p.goal = "none" THEN Ended(k)
               ELSE [hook[k] EXCEPT !.pc = p.goal, !.branch = b, !.head = head,
                                    !.range = p.range, !.then = p.then] IN
  /\ saved' = p.saved
  /\ hook' = [hook EXCEPT ![k] = doing, ![PushHook].due = @ \ TakenOver(k)]
  /\ holder' = IF p.goal = "none" THEN holder ELSE k

Entered(k) == HookAt(k, "lock") /\ holder = Nobody

(* What a plan may lose, see README: an escaped range without a branch that    *)
(* holds all of it, on a checkpoint of its own chain; ...                      *)
Strays(b, head) ==
  LET own == saved[b]
      holders == {n \in Names \ {b} : Holds(n, own.tip)}
      n == Min(holders) IN
  /\ Escaped(b, head, saved)
  /\ IF holders = {} THEN ~Holds(b, own.tip)
     ELSE saved[n] # NoEntry /\ ~(Holds(n, own.ckpt) /\ Holds(n, saved[n].ckpt))
(* ... and what the branch has lost of a range that ends at another commit of  *)
(* the head's chain.                                                           *)
Overlaps(b, head) ==
  LET own == saved[b] IN
  /\ own # NoEntry /\ own.tip # head
  /\ \/ OnChain(head, own.tip) /\ ~Holds(b, own.tip)
     \/ OnChain(own.tip, head) /\ ~Holds(b, head)
Loses(b, head) == Strays(b, head) \/ (Overlaps(b, head) /\ Orphans(b, head, saved) # {})
SeenIf(lost) == IF lost THEN seen \cap UNION {Pending(n)' : n \in Names} ELSE seen

PlanOfCommit ==
  LET p == IF batching THEN PlanCommit(cur, ref[cur]) ELSE PlanDisabled(cur, ref[cur]) IN
  /\ Entered(CommitHook)
  /\ Follow(CommitHook, cur, ref[cur], p)
  /\ OnlyHook /\ UNCHANGED <<timer, asked, reviewed, mishaps>>
  /\ seen' = SeenIf(Loses(cur, ref[cur]) \/ Overlaps(cur, ref[cur]))
               \cup (IF batching THEN Recorded(p.saved[cur]) ELSE {})

PlanOfPush ==
  LET b == hook[PushHook].branch
      head == hook[PushHook].head IN
  /\ Entered(PushHook) /\ Follow(PushHook, b, head, PlanStored(b, head))
  /\ OnlyHook /\ UNCHANGED <<timer, asked, reviewed, mishaps>>
  /\ seen' = SeenIf(Loses(b, head))

(* A quiet flush of a branch that has moved, or is gone, leaves it to the hook *)
(* of the newer commit.                                                        *)
PlanOfFlush(b) ==
  LET p == PlanStored(b, ref[b]) IN
  /\ Entered(b)
  /\ IF ~Live(b) THEN Follow(b, b, NoCommit, Plan(saved, {}, "none", "keep"))
     ELSE IF ref[b] # hook[b].head THEN Follow(b, b, ref[b], [p EXCEPT !.goal = "none"])
     ELSE Follow(b, b, ref[b], p)
  /\ OnlyHook /\ UNCHANGED <<timer, asked, reviewed, mishaps>>
  /\ seen' = SeenIf(Live(b) /\ Loses(b, ref[b]))

(* The lock is not free for ten seconds: the commit is reviewed by itself.     *)
LockTimeout(k) ==
  /\ HookAt(k, "lock") /\ holder # Nobody /\ Mishap
  /\ IF k = CommitHook THEN HookGoTo(k, "head") ELSE Ends(k)
  /\ OnlyHook /\ UNCHANGED <<saved, holder, timer, asked, seen, reviewed>>

(* Slip: the flush of an older head is not canceled.                        *)
Scheduled_Beside(b, head) ==
  /\ timer' = [timer EXCEPT ![b] = IF @ = NoCommit THEN head ELSE @]
  /\ asked' = [asked EXCEPT ![b] = IF ref[b] = head THEN head ELSE @]

Scheduled(b, head) ==
  /\ timer' = [timer EXCEPT ![b] = head]
  /\ asked' = [asked EXCEPT ![b] = IF ref[b] = head THEN head ELSE @]

(* The daemon replaces the branch's timer and cancels a flush that runs.       *)
Schedule ==
  LET b == hook[CommitHook].branch
      calm == [hook EXCEPT ![b] = NoHook] IN
  /\ HookAt(CommitHook, "schedule")
  /\ \/ /\ Works /\ Scheduled(b, hook[CommitHook].head)
        /\ hook' = [calm EXCEPT ![CommitHook] = NoHook] /\ Unlocked(CommitHook)
     \/ /\ Mishap /\ Scheduled(b, hook[CommitHook].head)
        /\ hook' = [calm EXCEPT ![CommitHook].pc = "send"] /\ UNCHANGED holder
     \/ /\ Mishap /\ HookGoTo(CommitHook, "send") /\ UNCHANGED <<timer, asked, holder>>
  /\ OnlyHook /\ UNCHANGED <<saved, seen, reviewed>>

Fire(b) ==
  /\ timer[b] # NoCommit /\ Idle(b)
  /\ timer' = [timer EXCEPT ![b] = NoCommit]
  /\ hook' = [hook EXCEPT ![b] = [NoHook EXCEPT !.pc = "lock", !.head = timer[b]]]
  /\ OnlyHook /\ UNCHANGED <<saved, holder, asked, seen, reviewed, mishaps>>

(* Slip: the checkpoint advances although the request failed.               *)
Send_Advances(k, range) ==
  \/ Works  /\ reviewed' = reviewed \cup range /\ HookGoTo(k, "advance") /\ UNCHANGED holder
  \/ Mishap /\ HookGoTo(k, "advance") /\ UNCHANGED <<reviewed, holder>>
  \/ Mishap /\ reviewed' = reviewed \cup range /\ Ends(k) /\ Unlocked(k)

(* The request is served, or fails, or its answer is lost.                     *)
Send(k, range) ==
  \/ Works  /\ reviewed' = reviewed \cup range /\ HookGoTo(k, "advance") /\ UNCHANGED holder
  \/ Mishap /\ Ends(k) /\ Unlocked(k) /\ UNCHANGED reviewed
  \/ Mishap /\ reviewed' = reviewed \cup range /\ Ends(k) /\ Unlocked(k)

Enqueue(k) ==
  /\ \/ HookAt(k, "send") /\ Send(k, hook[k].range)
     \/ HookAt(k, "head") /\ Send(k, {ref[cur]})
  /\ OnlyHook /\ UNCHANGED <<saved, timer, asked, seen>>

(* Slip: the new entry is written without its tip.                          *)
TipAfter_Missing(e, head) == NoCommit
(* Slip: the tip of a range that reaches further is forgotten.              *)
TipAfter_Head(e, head) == head

TipAfter(e, head) == IF e # NoEntry /\ OnChain(head, e.tip) THEN e.tip ELSE head

(* What the push has left to flush under the name b, which finds no entry when *)
(* batches are turned off and drained meanwhile, see README.                   *)
Awaited(b) ==
  LET h == hook[PushHook] IN
  UNION {Between(saved[b].ckpt, f.head) : f \in {g \in h.todo \cup {h} : g.branch = b}}

(* advancePostCommitBatch.                                                     *)
Advance(k) ==
  LET b == hook[k].branch
      head == hook[k].head IN
  /\ HookAt(k, "advance") /\ Unlocked(k)
  /\ saved' = CASE hook[k].then = "keep"  -> saved
                [] hook[k].then = "clear" -> [saved EXCEPT ![b] = NoEntry]
                [] OTHER -> [saved EXCEPT ![b] = [ckpt |-> head, tip |-> TipAfter(@, head)]]
  /\ hook' = [hook EXCEPT ![k] = Ended(k),
                          ![PushHook].due = IF hook[k].then = "clear" THEN @ \ Awaited(b) ELSE @]
  /\ OnlyHook /\ UNCHANGED <<timer, asked, reviewed, mishaps>>
  /\ seen' = SeenIf(hook[k].then = "clear" /\ ~OnChain(saved[b].tip, head))

Killed(k) ==
  /\ ~Idle(k) /\ Mishap
  /\ hook' = [hook EXCEPT ![k] = NoHook] /\ Unlocked(k)
  /\ OnlyHook /\ UNCHANGED <<saved, timer, asked, seen, reviewed>>

(* postCommitScheduler.stop, or a crash.                                       *)
DaemonRestarts ==
  /\ Mishap
  /\ timer' = [b \in Names |-> NoCommit]
  /\ hook' = [k \in Hooks |-> IF k \in Names THEN NoHook ELSE hook[k]]
  /\ holder' = IF holder \in Names THEN Nobody ELSE holder
  /\ OnlyHook /\ UNCHANGED <<saved, asked, seen, reviewed>>

-------------------------------------------------------------------------------
User ==
  \/ Commit \/ Amend \/ Configure
  \/ \E c \in Commits : Reset(c)
  \/ \E n \in Names : Branch(n) \/ Switch(n) \/ Rename(n) \/ Delete(n)
  \/ \E named \in SUBSET Names, tags \in SUBSET Commits : Push(named, tags)

Disturbance ==
  DaemonRestarts \/ \E k \in Hooks : LockTimeout(k) \/ Killed(k)

Hooking ==
  \/ PlanOfCommit \/ PlanOfPush \/ Schedule \/ PushEnds
  \/ \E f \in hook[PushHook].todo : NextFlush(f)
  \/ \E b \in Names : PlanOfFlush(b) \/ Fire(b)
  \/ \E k \in Hooks : Enqueue(k) \/ Advance(k)

PNext == User \/ Disturbance \/ Hooking
(* A hook and the daemon's timer run on.                                       *)
PSpec == PInit /\ [][PNext]_pvars /\ WF_pvars(Hooking)

-------------------------------------------------------------------------------
PTypeOK ==
  /\ chain \in [Commits -> SUBSET Commits]
  /\ ref \in [Names -> Commits \cup {NoCommit}] /\ cur \in Names /\ Live(cur)
  /\ batching \in BOOLEAN
  /\ saved \in [Names -> [ckpt : Commits, tip : Commits] \cup {NoEntry}]
  /\ hook \in [Hooks -> HookRow]
  /\ holder \in Hooks \cup {Nobody}
  /\ timer \in [Names -> Commits \cup {NoCommit}] /\ asked \in [Names -> Commits \cup {NoCommit}]
  /\ seen \in SUBSET Commits /\ reviewed \in SUBSET Commits /\ pushed \in SUBSET Commits
  /\ moves \in 0 .. MaxMoves /\ mishaps \in 0 .. MaxMishaps

(* "Discarding a checkpoint can silently skip commits": a commit a hook has    *)
(* recorded stays pending in some entry, or on the branch of that entry, until *)
(* a review of it is enqueued or a rewrite gives it up, whatever is renamed,   *)
(* handed over, killed or times out.                                           *)
NothingForgotten == seen \subseteq reviewed \cup UNION {Pending(n) : n \in Names}

(* "Pushed commits must never leave the machine unreviewed", read without the  *)
(* lock: what was recorded on the chains of a push when it began has been      *)
(* enqueued when its hook ends, whatever commits and flushes come between.     *)
(* Five ways the code gives one up are left out: a hook that failed (mishaps); *)
(* an entry that goes two ways from the push, of which one is flushed (Torn);  *)
(* and, while the push runs, an entry another hook adopts (TakenOver) or       *)
(* drains with batches turned off (Awaited), or whose name is made again       *)
(* (Branch).                                                                   *)
PushedReviewed == mishaps = 0 => pushed \subseteq reviewed

(* Hazard: the timer of a batch fires while another commit arrives.  Without   *)
(* failures a head the daemon was asked to flush, and that the branch stays    *)
(* at, is reviewed.                                                            *)
FlushedWhenQuiet ==
  <>[](mishaps = 0 => \A b \in Names : asked[b] \in reviewed \cup {NoCommit})
===============================================================================

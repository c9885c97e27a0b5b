------------------------------ MODULE AttemptLock ------------------------------
(* attemptLock of internal/storage/job_attempts.go: a reader/writer lock whose *)
(* writers can stop waiting when their context ends.  Every action is one      *)
(* stretch of code under the lock's own mutex.                                 *)
EXTENDS Naturals, FiniteSets

CONSTANTS Procs  \* goroutines that use the lock

ASSUME ProcsFinite == IsFiniteSet(Procs)

VARIABLES
  pc,              \* what each goroutine does
  readers, writer, waitingWriters,
  asleep           \* goroutines whose channel has not been closed

vars == <<pc, readers, writer, waitingWriters, asleep>>

(* "rtry" and "rwait" are an RLock before its first test and one that waits,   *)
(* "wwait" is a LockContext that waits.                                        *)
PC == {"idle", "rtry", "rwait", "reading", "wwait", "writing"}

Init ==
  /\ pc = [p \in Procs |-> "idle"]
  /\ readers = 0 /\ writer = FALSE /\ waitingWriters = 0
  /\ asleep = {}

At(p, s)   == pc[p] = s
GoTo(p, s) == pc' = [pc EXCEPT ![p] = s]

(* wakeLocked closes the channel all waiters share.                            *)
Wake == asleep' = {}

(* Slip: readers are overlooked.                                            *)
WriterBlocked_WriterOnly == writer

ReaderBlocked == writer \/ waitingWriters > 0
WriterBlocked == writer \/ readers > 0

CallRLock(p) ==
  /\ At(p, "idle")
  /\ GoTo(p, "rtry")
  /\ UNCHANGED <<readers, writer, waitingWriters, asleep>>

AwakeReader(p) == At(p, "rtry") \/ (At(p, "rwait") /\ p \notin asleep)

RLockWaits(p) ==
  /\ AwakeReader(p) /\ ReaderBlocked
  /\ GoTo(p, "rwait")
  /\ asleep' = asleep \cup {p}
  /\ UNCHANGED <<readers, writer, waitingWriters>>

RLockTakes(p) ==
  /\ AwakeReader(p) /\ ~ReaderBlocked
  /\ GoTo(p, "reading")
  /\ readers' = readers + 1
  /\ UNCHANGED <<writer, waitingWriters, asleep>>

(* Slip: the last reader wakes nobody.                                      *)
RUnlock_NoWake(p) ==
  /\ At(p, "reading")
  /\ GoTo(p, "idle")
  /\ readers' = readers - 1
  /\ UNCHANGED <<writer, waitingWriters, asleep>>

RUnlock(p) ==
  /\ At(p, "reading")
  /\ GoTo(p, "idle")
  /\ readers' = readers - 1
  /\ IF readers = 1 THEN Wake ELSE UNCHANGED asleep
  /\ UNCHANGED <<writer, waitingWriters>>

LockTakesAtOnce(p) ==
  /\ At(p, "idle") /\ ~WriterBlocked
  /\ GoTo(p, "writing")
  /\ writer' = TRUE
  /\ UNCHANGED <<readers, waitingWriters, asleep>>

LockWaits(p) ==
  /\ At(p, "idle") /\ WriterBlocked
  /\ GoTo(p, "wwait")
  /\ waitingWriters' = waitingWriters + 1
  /\ asleep' = asleep \cup {p}
  /\ UNCHANGED <<readers, writer>>

AwakeWriter(p) == At(p, "wwait") /\ p \notin asleep

LockWaitsAgain(p) ==
  /\ AwakeWriter(p) /\ WriterBlocked
  /\ asleep' = asleep \cup {p}
  /\ UNCHANGED <<pc, readers, writer, waitingWriters>>

LockTakes(p) ==
  /\ AwakeWriter(p) /\ ~WriterBlocked
  /\ GoTo(p, "writing")
  /\ waitingWriters' = waitingWriters - 1
  /\ writer' = TRUE
  /\ UNCHANGED <<readers, asleep>>

(* Slip: a writer that gives up wakes nobody.                               *)
LockCanceled_NoWake(p) ==
  /\ At(p, "wwait")
  /\ GoTo(p, "idle")
  /\ waitingWriters' = waitingWriters - 1
  /\ UNCHANGED <<readers, writer, asleep>>

(* ctx.Done, which select may prefer to a closed channel.                      *)
LockCanceled(p) ==
  /\ At(p, "wwait")
  /\ GoTo(p, "idle")
  /\ waitingWriters' = waitingWriters - 1
  /\ Wake
  /\ UNCHANGED <<readers, writer>>

Unlock(p) ==
  /\ At(p, "writing")
  /\ GoTo(p, "idle")
  /\ writer' = FALSE
  /\ Wake
  /\ UNCHANGED <<readers, waitingWriters>>

Call(p) == CallRLock(p) \/ LockTakesAtOnce(p) \/ LockWaits(p)

Proceeds(p) ==
  \/ RLockWaits(p) \/ RLockTakes(p) \/ RUnlock(p)
  \/ LockWaitsAgain(p) \/ LockTakes(p) \/ Unlock(p)

Step(p) ==
  \/ Call(p)
  \/ LockCanceled(p)
  \/ Proceeds(p)

Next == \E p \in Procs : Step(p)
Spec == Init /\ [][Next]_vars

-------------------------------------------------------------------------------
(* Properties.                                                                 *)

(* Every variable keeps its type.                                              *)
TypeOK ==
  /\ pc \in [Procs -> PC]
  /\ readers \in Nat /\ writer \in BOOLEAN /\ waitingWriters \in Nat
  /\ asleep \in SUBSET Procs

InState(s) == {p \in Procs : At(p, s)}

(* No wakeup is lost: whoever sleeps on the channel is still held back by the  *)
(* lock's state, so that some later unlock or cancellation closes it.          *)
NoLostWakeup ==
  \A p \in asleep :
    /\ At(p, "rwait") => ReaderBlocked
    /\ At(p, "wwait") => WriterBlocked

(* A writer excludes readers and other writers; the counters are the           *)
(* goroutines they stand for.                                                  *)
Exclusion ==
  /\ \A p, q \in Procs : At(p, "writing") /\ At(q, "writing") => p = q
  /\ \A p, q \in Procs : ~(At(p, "writing") /\ At(q, "reading"))

(* "A waiting writer holds back new readers": no RLock returns while a         *)
(* LockContext waits.                                                          *)
WritersFirst ==
  [][\A p, q \in Procs : At(p, "wwait") /\ pc'[q] = "reading" => At(q, "reading")]_vars

Lock == INSTANCE RWLock WITH reading <- InState("reading"), writing <- InState("writing")

(* The attempt lock is a reader/writer lock.                                   *)
IsRWLock == Lock!Spec

-------------------------------------------------------------------------------
(* Liveness.  Holders let go and waiters run.                                  *)

FairSpec == Spec /\ \A p \in Procs : WF_vars(Proceeds(p))

(* Unless other callers keep coming for ever, everyone who waits for the lock  *)
(* gets it or gives up.                                                        *)
Waiting(p) == pc[p] \in {"rtry", "rwait", "wwait"}

WaitersServed ==
  <>[][~\E p \in Procs : Call(p)]_vars => \A p \in Procs : Waiting(p) ~> ~Waiting(p)

(* However many readers keep coming, a LockContext that waits leads to a       *)
(* writer that holds the lock, unless the writers give up.                     *)
WritersNotStarved ==
  (\E p \in Procs : At(p, "wwait")) ~> (writer \/ \A p \in Procs : ~At(p, "wwait"))
===============================================================================

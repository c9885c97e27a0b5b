--------------------------- MODULE AttemptLock_proofs ---------------------------
(* Proofs about AttemptLock, for any finite set of goroutines.                 *)
EXTENDS AttemptLock, FiniteSetTheorems, TLAPS

(* Only who waits sleeps.                                                      *)
SleepersWait == \A p \in asleep : At(p, "rwait") \/ At(p, "wwait")

(* The lock's fields count the goroutines they stand for.                      *)
CountsRight ==
  /\ readers = Cardinality(InState("reading"))
  /\ waitingWriters = Cardinality(InState("wwait"))
  /\ writer = (\E p \in Procs : At(p, "writing"))

LockInv == TypeOK /\ SleepersWait /\ CountsRight /\ Exclusion /\ NoLostWakeup

-------------------------------------------------------------------------------
(* Counting goroutines.                                                        *)

(* A state's goroutines are finitely many, and none exactly when they count 0. *)
LEMMA Counted ==
  ASSUME NEW s
  PROVE  /\ IsFiniteSet(InState(s))
         /\ Cardinality(InState(s)) \in Nat
         /\ Cardinality(InState(s)) = 0 <=> \A q \in Procs : ~At(q, s)
<1>1. InState(s) \in SUBSET Procs
  BY DEF InState
<1>2. IsFiniteSet(InState(s))
  BY <1>1, ProcsFinite, FS_Subset
<1>3. Cardinality(InState(s)) = 0 <=> InState(s) = {}
  BY <1>2, FS_EmptySet
<1> QED
  BY <1>2, <1>3, FS_CardinalityType DEF InState

(* A goroutine that moves is counted where it goes to ...                      *)
LEMMA Entered ==
  ASSUME pc \in [Procs -> PC], NEW p \in Procs, NEW s, ~At(p, s), GoTo(p, s)
  PROVE  Cardinality(InState(s)') = Cardinality(InState(s)) + 1
<1>1. InState(s)' = InState(s) \cup {p} /\ p \notin InState(s)
  BY DEF InState, At, GoTo
<1> QED
  BY <1>1, Counted, FS_AddElement

(* ... no longer where it came from ...                                        *)
LEMMA Left ==
  ASSUME pc \in [Procs -> PC], NEW p \in Procs, NEW s, NEW to, s # to,
         At(p, s), GoTo(p, to)
  PROVE  Cardinality(InState(s)') = Cardinality(InState(s)) - 1
<1>1. InState(s)' = InState(s) \ {p} /\ p \in InState(s)
  BY DEF InState, At, GoTo
<1> QED
  BY <1>1, Counted, FS_RemoveElement

(* ... and nowhere else.                                                       *)
LEMMA Elsewhere ==
  ASSUME pc \in [Procs -> PC], NEW p \in Procs, NEW s, NEW to, s # to,
         ~At(p, s), GoTo(p, to)
  PROVE  Cardinality(InState(s)') = Cardinality(InState(s))
<1>1. InState(s)' = InState(s)
  BY DEF InState, At, GoTo
<1> QED
  BY <1>1

-------------------------------------------------------------------------------
(* The invariant holds and stays.                                              *)

(* The lock starts free, with nobody waiting.                                  *)
LEMMA LockInit == Init => LockInv
<1> SUFFICES ASSUME Init PROVE LockInv
  OBVIOUS
<1>1. \A s : s # "idle" => Cardinality(InState(s)) = 0
  BY Counted DEF Init, At
<1>2. TypeOK
  BY DEF Init, TypeOK, PC
<1>3. CountsRight
  BY <1>1 DEF Init, CountsRight, At
<1>4. SleepersWait /\ Exclusion /\ NoLostWakeup
  BY DEF Init, SleepersWait, Exclusion, NoLostWakeup, At
<1> QED
  BY <1>2, <1>3, <1>4 DEF LockInv

(* Every step of a goroutine keeps the invariant.                              *)
LEMMA LockStep ==
  ASSUME LockInv, NEW p \in Procs, Step(p)
  PROVE  LockInv'
<1>1. /\ pc \in [Procs -> PC] /\ readers \in Nat /\ waitingWriters \in Nat
      /\ writer \in BOOLEAN /\ asleep \in SUBSET Procs
      /\ readers = Cardinality(InState("reading"))
      /\ waitingWriters = Cardinality(InState("wwait"))
  BY DEF LockInv, TypeOK, CountsRight
<1>2. /\ readers = 0 <=> \A q \in Procs : pc[q] # "reading"
      /\ waitingWriters = 0 <=> \A q \in Procs : pc[q] # "wwait"
  BY <1>1, Counted DEF At
<1>3. /\ SleepersWait /\ Exclusion /\ NoLostWakeup
      /\ writer = (\E q \in Procs : pc[q] = "writing")
  BY DEF LockInv, CountsRight, At
<1>4. CASE CallRLock(p)
  <2>1. /\ pc[p] = "idle" /\ GoTo(p, "rtry")
        /\ pc' = [pc EXCEPT ![p] = "rtry"]
    BY <1>4 DEF CallRLock, At, GoTo
  <2>2. /\ Cardinality(InState("reading")') = readers
        /\ Cardinality(InState("wwait")') = waitingWriters
    BY <1>1, <2>1, Elsewhere DEF At
  <2>3. TypeOK' /\ CountsRight'
    BY <1>4, <1>1, <1>3, <2>1, <2>2 DEF CallRLock, TypeOK, CountsRight, At, PC
  <2>4. SleepersWait' /\ NoLostWakeup'
    BY <1>4, <1>3, <2>1
       DEF CallRLock, SleepersWait, NoLostWakeup, ReaderBlocked, WriterBlocked, At
  <2>5. Exclusion'
    BY <1>3, <2>1 DEF Exclusion, At
  <2> QED
    BY <2>3, <2>4, <2>5 DEF LockInv
<1>5. CASE RLockWaits(p)
  <2>1. /\ pc[p] \in {"rtry", "rwait"} /\ GoTo(p, "rwait")
        /\ pc' = [pc EXCEPT ![p] = "rwait"]
    BY <1>5 DEF RLockWaits, AwakeReader, At, GoTo
  <2>2. /\ Cardinality(InState("reading")') = readers
        /\ Cardinality(InState("wwait")') = waitingWriters
    BY <1>1, <2>1, Elsewhere DEF At
  <2>3. TypeOK' /\ CountsRight'
    BY <1>5, <1>1, <1>3, <2>1, <2>2 DEF RLockWaits, TypeOK, CountsRight, At, PC
  <2>4. SleepersWait' /\ NoLostWakeup'
    BY <1>5, <1>1, <1>3, <2>1
       DEF RLockWaits, SleepersWait, NoLostWakeup, ReaderBlocked, WriterBlocked, At
  <2>5. Exclusion'
    BY <1>3, <2>1 DEF Exclusion, At
  <2> QED
    BY <2>3, <2>4, <2>5 DEF LockInv
<1>6. CASE RLockTakes(p)
  <2>1. /\ pc[p] \in {"rtry", "rwait"} /\ GoTo(p, "reading")
        /\ pc' = [pc EXCEPT ![p] = "reading"]
    BY <1>6 DEF RLockTakes, AwakeReader, At, GoTo
  <2>2. /\ Cardinality(InState("reading")') = readers + 1
        /\ Cardinality(InState("wwait")') = waitingWriters
    BY <1>1, <2>1, Elsewhere, Entered DEF At
  <2>3. TypeOK' /\ CountsRight'
    BY <1>6, <1>1, <1>3, <2>1, <2>2 DEF RLockTakes, TypeOK, CountsRight, At, PC
  <2>4. SleepersWait' /\ NoLostWakeup'
    BY <1>6, <1>1, <1>2, <1>3
       DEF RLockTakes, SleepersWait, NoLostWakeup, ReaderBlocked, At
  <2>5. Exclusion'
    BY <1>6, <1>3, <2>1 DEF RLockTakes, Exclusion, ReaderBlocked, At
  <2> QED
    BY <2>3, <2>4, <2>5 DEF LockInv
<1>7. CASE RUnlock(p)
  <2>1. /\ pc[p] = "reading" /\ GoTo(p, "idle")
        /\ pc' = [pc EXCEPT ![p] = "idle"]
    BY <1>7 DEF RUnlock, At, GoTo
  <2>2. /\ Cardinality(InState("reading")') = readers - 1
        /\ Cardinality(InState("wwait")') = waitingWriters
    BY <1>1, <2>1, Elsewhere, Left DEF At
  <2>3. TypeOK' /\ CountsRight'
    BY <1>7, <1>1, <1>2, <1>3, <2>1, <2>2 DEF RUnlock, TypeOK, CountsRight, At, PC, Wake
  <2>4. SleepersWait' /\ NoLostWakeup'
    BY <1>7, <1>1, <1>3, <2>1
       DEF RUnlock, SleepersWait, NoLostWakeup, ReaderBlocked, WriterBlocked, At, Wake
  <2>5. Exclusion'
    BY <1>3, <2>1 DEF Exclusion, At
  <2> QED
    BY <2>3, <2>4, <2>5 DEF LockInv
<1>8. CASE LockTakesAtOnce(p)
  <2>1. /\ pc[p] = "idle" /\ GoTo(p, "writing")
        /\ pc' = [pc EXCEPT ![p] = "writing"]
    BY <1>8 DEF LockTakesAtOnce, At, GoTo
  <2>2. /\ Cardinality(InState("reading")') = readers
        /\ Cardinality(InState("wwait")') = waitingWriters
    BY <1>1, <2>1, Elsewhere DEF At
  <2>3. TypeOK' /\ CountsRight'
    BY <1>8, <1>1, <2>1, <2>2 DEF LockTakesAtOnce, TypeOK, CountsRight, At, PC
  <2>4. SleepersWait' /\ NoLostWakeup'
    BY <1>8, <1>3, <2>1
       DEF LockTakesAtOnce, SleepersWait, NoLostWakeup, ReaderBlocked, At
  <2>5. Exclusion'
    BY <1>8, <1>1, <1>2, <1>3, <2>1 DEF LockTakesAtOnce, Exclusion, WriterBlocked, At
  <2> QED
    BY <2>3, <2>4, <2>5 DEF LockInv
<1>9. CASE LockWaits(p)
  <2>1. /\ pc[p] = "idle" /\ GoTo(p, "wwait")
        /\ pc' = [pc EXCEPT ![p] = "wwait"]
    BY <1>9 DEF LockWaits, At, GoTo
  <2>2. /\ Cardinality(InState("reading")') = readers
        /\ Cardinality(InState("wwait")') = waitingWriters + 1
    BY <1>1, <2>1, Elsewhere, Entered DEF At
  <2>3. TypeOK' /\ CountsRight'
    BY <1>9, <1>1, <1>3, <2>1, <2>2 DEF LockWaits, TypeOK, CountsRight, At, PC
  <2>4. SleepersWait' /\ NoLostWakeup'
    BY <1>9, <1>1, <1>3, <2>1
       DEF LockWaits, SleepersWait, NoLostWakeup, ReaderBlocked, WriterBlocked, At
  <2>5. Exclusion'
    BY <1>3, <2>1 DEF Exclusion, At
  <2> QED
    BY <2>3, <2>4, <2>5 DEF LockInv
<1>10. CASE LockTakes(p)
  <2>1. /\ pc[p] = "wwait" /\ GoTo(p, "writing")
        /\ pc' = [pc EXCEPT ![p] = "writing"]
    BY <1>10 DEF LockTakes, AwakeWriter, At, GoTo
  <2>2. /\ Cardinality(InState("reading")') = readers
        /\ Cardinality(InState("wwait")') = waitingWriters - 1
    BY <1>1, <2>1, Elsewhere, Left DEF At
  <2>3. TypeOK' /\ CountsRight'
    BY <1>10, <1>1, <1>2, <2>1, <2>2 DEF LockTakes, TypeOK, CountsRight, At, PC
  <2>4. SleepersWait' /\ NoLostWakeup'
    BY <1>10, <1>3, <2>1 DEF LockTakes, SleepersWait, NoLostWakeup, ReaderBlocked, At
  <2>5. Exclusion'
    BY <1>10, <1>1, <1>2, <1>3, <2>1 DEF LockTakes, Exclusion, WriterBlocked, At
  <2> QED
    BY <2>3, <2>4, <2>5 DEF LockInv
<1>11. CASE LockCanceled(p)
  <2>1. /\ pc[p] = "wwait" /\ GoTo(p, "idle")
        /\ pc' = [pc EXCEPT ![p] = "idle"]
    BY <1>11 DEF LockCanceled, At, GoTo
  <2>2. /\ Cardinality(InState("reading")') = readers
        /\ Cardinality(InState("wwait")') = waitingWriters - 1
    BY <1>1, <2>1, Elsewhere, Left DEF At
  <2>3. TypeOK' /\ CountsRight'
    BY <1>11, <1>1, <1>2, <1>3, <2>1, <2>2
       DEF LockCanceled, TypeOK, CountsRight, At, PC, Wake
  <2>4. SleepersWait' /\ NoLostWakeup'
    BY <1>11 DEF LockCanceled, SleepersWait, NoLostWakeup, Wake
  <2>5. Exclusion'
    BY <1>3, <2>1 DEF Exclusion, At
  <2> QED
    BY <2>3, <2>4, <2>5 DEF LockInv
<1>12. CASE Unlock(p)
  <2>1. /\ pc[p] = "writing" /\ GoTo(p, "idle")
        /\ pc' = [pc EXCEPT ![p] = "idle"]
    BY <1>12 DEF Unlock, At, GoTo
  <2>2. /\ Cardinality(InState("reading")') = readers
        /\ Cardinality(InState("wwait")') = waitingWriters
    BY <1>1, <2>1, Elsewhere DEF At
  <2>3. TypeOK' /\ CountsRight'
    BY <1>12, <1>1, <1>3, <2>1, <2>2
       DEF Unlock, TypeOK, CountsRight, Exclusion, At, PC, Wake
  <2>4. SleepersWait' /\ NoLostWakeup'
    BY <1>12 DEF Unlock, SleepersWait, NoLostWakeup, Wake
  <2>5. Exclusion'
    BY <1>3, <2>1 DEF Exclusion, At
  <2> QED
    BY <2>3, <2>4, <2>5 DEF LockInv
<1>13. CASE LockWaitsAgain(p)
  BY <1>13
     DEF LockWaitsAgain, AwakeWriter, LockInv, TypeOK, SleepersWait, CountsRight,
         Exclusion, NoLostWakeup, ReaderBlocked, WriterBlocked, InState, At
<1> QED
  BY <1>4, <1>5, <1>6, <1>7, <1>8, <1>9, <1>10, <1>11, <1>12, <1>13
     DEF Step, Call, Proceeds

(* The lock's fields count the goroutines that hold it and wait for it, in     *)
(* every reachable state.                                                      *)
THEOREM LockInvariant == Spec => []LockInv
<1>1. LockInv /\ UNCHANGED vars => LockInv'
  BY DEF LockInv, vars, TypeOK, SleepersWait, CountsRight, Exclusion, NoLostWakeup,
     ReaderBlocked, WriterBlocked, InState, At
<1>2. LockInv /\ [Next]_vars => LockInv'
  BY <1>1, LockStep DEF Next
<1> QED
  BY LockInit, <1>2, PTL DEF Spec

-------------------------------------------------------------------------------
(* What the invariant implies.                                                 *)

(* The lock's fields and the places of its parties keep their types.           *)
THEOREM LockTyped == Spec => []TypeOK
<1>1. LockInv => TypeOK
  BY DEF LockInv
<1> QED
  BY LockInvariant, <1>1, PTL

(* A writer excludes readers and other writers, however many goroutines use    *)
(* the lock.                                                                   *)
THEOREM LockExcludes == Spec => []Exclusion
<1>1. LockInv => Exclusion
  BY DEF LockInv
<1> QED
  BY LockInvariant, <1>1, PTL

(* No wakeup is lost: who sleeps is held back by the lock's state.             *)
THEOREM LockWakes == Spec => []NoLostWakeup
<1>1. LockInv => NoLostWakeup
  BY DEF LockInv
<1> QED
  BY LockInvariant, <1>1, PTL

(* No RLock returns while a LockContext waits.                                 *)
THEOREM LockPrefersWriters == Spec => WritersFirst
<1>1. LockInv /\ [Next]_vars =>
        [\A p, q \in Procs : At(p, "wwait") /\ pc'[q] = "reading" => At(q, "reading")]_vars
  <2> SUFFICES ASSUME LockInv, Next,
                      NEW p \in Procs, NEW q \in Procs,
                      At(p, "wwait"), pc'[q] = "reading"
               PROVE  At(q, "reading")
    OBVIOUS
  <2>1. ReaderBlocked
    BY Counted DEF LockInv, CountsRight, ReaderBlocked
  <2>2. PICK r \in Procs : Step(r)
    BY DEF Next
  <2>3. ~RLockTakes(r)
    BY <2>1 DEF RLockTakes
  <2>4. pc \in [Procs -> PC]
    BY DEF LockInv, TypeOK
  <2> QED
    BY <2>2, <2>3, <2>4
       DEF Step, Call, Proceeds, CallRLock, RLockWaits, RUnlock, LockTakesAtOnce,
           LockWaits, LockWaitsAgain, LockTakes, LockCanceled, Unlock, At, GoTo
<1> QED
  BY LockInvariant, <1>1, PTL DEF Spec, WritersFirst

-------------------------------------------------------------------------------
(* The attempt lock implements RWLock.                                         *)

(* Nobody holds the lock at first.                                             *)
LEMMA RefinementInit == Init => Lock!Init
  BY DEF Init, Lock!Init, InState, At

(* A step of the attempt lock is one of RWLock, or leaves the holders alone.   *)
LEMMA RefinementStep ==
  ASSUME LockInv, NEW p \in Procs, Step(p)
  PROVE  Lock!Next \/ UNCHANGED <<InState("reading"), InState("writing")>>
<1>1. /\ pc \in [Procs -> PC] /\ readers \in Nat
      /\ readers = 0 <=> InState("reading") = {}
      /\ ~writer => InState("writing") = {}
      /\ \A q, r \in Procs : At(q, "writing") /\ At(r, "writing") => q = r
  BY Counted DEF LockInv, TypeOK, CountsRight, Exclusion, InState
<1>2. CASE RLockTakes(p)
  <2>1. Lock!Read(p)
    BY <1>1, <1>2
       DEF RLockTakes, AwakeReader, ReaderBlocked, Lock!Read, InState, At, GoTo
  <2> QED
    BY <2>1 DEF Lock!Next
<1>3. CASE RUnlock(p)
  <2>1. Lock!EndRead(p)
    BY <1>1, <1>3 DEF RUnlock, Lock!EndRead, InState, At, GoTo
  <2> QED
    BY <2>1 DEF Lock!Next
<1>4. CASE LockTakesAtOnce(p) \/ LockTakes(p)
  <2>1. InState("writing") = {} /\ InState("reading") = {}
    BY <1>1, <1>4 DEF LockTakesAtOnce, LockTakes, WriterBlocked
  <2>2. /\ pc[p] \in {"idle", "wwait"}
        /\ pc' = [pc EXCEPT ![p] = "writing"]
    BY <1>4 DEF LockTakesAtOnce, LockTakes, AwakeWriter, At, GoTo
  <2>3. InState("writing")' = {p} /\ InState("reading")' = {}
    BY <1>1, <2>1, <2>2 DEF InState, At
  <2>4. Lock!Write(p)
    BY <2>1, <2>3 DEF Lock!Write
  <2> QED
    BY <2>4 DEF Lock!Next
<1>5. CASE Unlock(p)
  <2>1. Lock!EndWrite(p)
    BY <1>1, <1>5 DEF Unlock, Lock!EndWrite, InState, At, GoTo
  <2> QED
    BY <2>1 DEF Lock!Next
<1>6. CASE \/ CallRLock(p) \/ RLockWaits(p) \/ LockWaits(p) \/ LockWaitsAgain(p)
           \/ LockCanceled(p)
  <2>1. UNCHANGED <<InState("reading"), InState("writing")>>
    BY <1>1, <1>6
       DEF CallRLock, RLockWaits, AwakeReader, LockWaits, LockWaitsAgain, LockCanceled,
           InState, At, GoTo
  <2> QED
    BY <2>1
<1> QED
  BY <1>2, <1>3, <1>4, <1>5, <1>6 DEF Step, Call, Proceeds

(* The attempt lock is a reader/writer lock: with its readers and its writer   *)
(* for the holders, each of its behaviors is one of RWLock.                    *)
THEOREM LockRefines == Spec => IsRWLock
<1>1. LockInv /\ [Next]_vars => [Lock!Next]_<<InState("reading"), InState("writing")>>
  <2>1. UNCHANGED vars => UNCHANGED <<InState("reading"), InState("writing")>>
    BY DEF vars, InState, At
  <2> QED
    BY <2>1, RefinementStep DEF Next
<1> QED
  BY RefinementInit, LockInvariant, <1>1, PTL DEF Spec, IsRWLock, Lock!Spec
===============================================================================

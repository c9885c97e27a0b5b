--------------------------- MODULE PostCommit_proofs ---------------------------
(* Proofs about PostCommit, for any branches, commits and batches: the history *)
(* is a tree, the state file stays with whoever holds the lock, and what was   *)
(* recorded is not forgotten.                                                  *)
EXTENDS PostCommit, FiniteSetTheorems, WellFoundedInduction, TLAPS

-------------------------------------------------------------------------------
(* The least and the greatest of some numbers.                                 *)

(* Some numbers have a least one among them.                                   *)
LEMMA LeastOf ==
  ASSUME NEW S \in SUBSET Nat, S # {}
  PROVE  Min(S) \in S /\ \A x \in S : Min(S) <= x
<1>1. PICK m \in S : \A x \in S : ~(<<x, m>> \in OpToRel(<, Nat))
  BY WFMin, NatLessThanWellFounded, Zenon
<1>2. \A x \in S : ~(x < m)
  BY <1>1, Zenon DEF OpToRel
<1>3. \A x \in S : m =< x
  BY <1>2
<1> QED
  BY <1>3 DEF Min

(* Finitely many numbers have a greatest one among them.                       *)
LEMMA GreatestOf ==
  ASSUME NEW S \in SUBSET Nat, S # {}, IsFiniteSet(S)
  PROVE  Max(S) \in S /\ \A x \in S : x <= Max(S)
<1> DEFINE top(T) == \E m \in T : \A x \in T : x <= m
           bad == {T \in SUBSET S : T # {} /\ ~top(T)}
<1>1. bad = {}
  <2>1. SUFFICES ASSUME bad # {} PROVE FALSE
    OBVIOUS
  <2>2. bad \subseteq FiniteSubsetsOf(S)
    BY FS_FiniteSubsetsOfFinite
  <2>3. PICK T \in bad : \A U \in bad : ~(<<U, T>> \in StrictSubsetOrdering(S))
    <3> HIDE DEF bad
    <3> QED
      BY <2>1, <2>2, FS_StrictSubsetOrderingWellFounded, WFMin, Zenon
  <2>4. PICK t \in T : TRUE
    BY <2>3
  <2> DEFINE R == T \ {t}
  <2>5. T \in SUBSET S /\ T # {} /\ ~top(T) /\ T \subseteq Nat
    BY <2>3
  <2>6. R \in SUBSET S /\ R # T /\ R \subseteq T
    BY <2>4, <2>5
  <2>7. <<R, T>> \in StrictSubsetOrdering(S)
    BY <2>5, <2>6 DEF StrictSubsetOrdering
  <2>8. R \notin bad
    BY <2>3, <2>7
  <2>9. CASE R = {}
    <3>1. T = {t} /\ t \in Nat
      BY <2>4, <2>5, <2>9
    <3> QED
      BY <2>5, <3>1
  <2>10. CASE R # {}
    <3>1. PICK m \in R : \A x \in R : x <= m
      BY <2>6, <2>8, <2>10
    <3>2. m \in Nat /\ t \in Nat /\ T = R \cup {t} /\ R \subseteq Nat
      BY <2>4, <2>5, <2>6, <3>1
    <3>3. CASE t <= m
      BY <2>5, <3>1, <3>2, <3>3
    <3>4. CASE m <= t
      <4>1. \A x \in T : x <= t
        BY <3>1, <3>2, <3>4
      <4> QED
        BY <2>4, <2>5, <4>1
    <3> QED
      BY <3>2, <3>3, <3>4
  <2> QED
    BY <2>9, <2>10
<1>2. top(S)
  BY <1>1
<1>3. \E m \in S : \A x \in S : m >= x
  BY <1>2
<1> QED
  BY <1>3 DEF Max

(* Some commits, or some names, are finitely many numbers.                     *)
LEMMA CommitSets ==
  ASSUME NEW S \in SUBSET Commits
  PROVE  /\ S \in SUBSET Nat /\ IsFiniteSet(S)
         /\ S # {} => Max(S) \in S /\ Min(S) \in S
                      /\ \A x \in S : x <= Max(S) /\ Min(S) <= x
<1>1. S \in SUBSET Nat /\ \A x \in S : x <= MaxCommits
  BY PostCommitAssumption DEF Commits
<1>2. IsFiniteSet(S)
  BY <1>1, FS_BoundedSetOfNaturals, PostCommitAssumption
<1> QED
  BY <1>1, <1>2, LeastOf, GreatestOf

(* The branch that git lists first among some.                                 *)
LEMMA NameSets ==
  ASSUME NEW S \in SUBSET Names, S # {}
  PROVE  Min(S) \in S
BY LeastOf, PostCommitAssumption

(* The two hooks of the user are none of the daemon's flushes.                 *)
LEMMA HookNames ==
  /\ CommitHook \in Nat /\ PushHook \in Nat /\ CommitHook \notin Names /\ PushHook \notin Names
  /\ CommitHook # PushHook /\ Nobody \notin Hooks /\ Min(Names) \in Names
  /\ CommitHook \in Hooks /\ PushHook \in Hooks /\ Names \subseteq Hooks
  /\ Hooks \subseteq Nat
<1>1. Names \in SUBSET Nat /\ Names # {} /\ IsFiniteSet(Names)
  BY PostCommitAssumption
<1>2. Max(Names) \in Names /\ (\A x \in Names : x <= Max(Names)) /\ Min(Names) \in Names
  BY <1>1, GreatestOf, LeastOf
<1>3. 0 \notin Names
  BY PostCommitAssumption
<1> DEFINE top == Max(Names)
<1>4. top \in Nat /\ top + 1 \notin Names /\ top + 2 \notin Names /\ top + 1 # 0 /\ top + 2 # 0
  <2> HIDE DEF top
  <2>1. top \in Nat /\ \A x \in Names : x <= top /\ x \in Nat
    BY <1>1, <1>2 DEF top
  <2> QED
    BY <2>1
<1>5. CommitHook = top + 1 /\ PushHook = top + 2
  BY DEF CommitHook, PushHook
<1>6. Hooks = {top + 1, top + 2} \cup Names
  BY <1>5, Zenon DEF Hooks
<1> HIDE DEF top
<1>7. top + 1 # top + 2
  BY <1>4
<1> QED
  BY <1>1, <1>2, <1>3, <1>4, <1>5, <1>6, <1>7 DEF Nobody
-------------------------------------------------------------------------------
(* The history.  A commit that was made is on a chain of earlier ones, which   *)
(* its ancestors share; commits are numbered as they are made.                 *)

Tree ==
  /\ chain \in [Commits -> SUBSET Commits]
  /\ \A c \in Commits : Made(c) =>
       /\ c \in chain[c] /\ 0 \in chain[c]
       /\ \A d \in chain[c] : d <= c /\ Made(d) /\ chain[d] = {e \in chain[c] : e <= d}
  /\ \A c \in Commits : Made(c) => \A d \in Commits : d <= c => Made(d)

(* The ancestors of a commit are those of its chain up to it.                  *)
LEMMA OnTheChain ==
  ASSUME Tree, NEW h \in Commits, Made(h), NEW c \in chain[h]
  PROVE  /\ c \in Commits /\ Made(c) /\ c <= h /\ c \in Nat
         /\ h \in chain[h] /\ c \in chain[c] /\ chain[c] \subseteq chain[h]
         /\ \A d \in chain[h] : d \in chain[c] <=> d <= c
<1>1. c \in Commits /\ c \in Nat
  BY PostCommitAssumption DEF Tree, Commits
<1>2. h \in chain[h] /\ c <= h /\ Made(c) /\ chain[c] = {e \in chain[h] : e <= c}
  BY DEF Tree
<1>3. c \in chain[c]
  BY <1>1, <1>2
<1> QED
  BY <1>1, <1>2, <1>3

(* Two chains part once: what they share is at the beginning of both.          *)
LEMMA SharedPrefix ==
  ASSUME Tree, NEW a \in Commits, Made(a), NEW h \in Commits, Made(h),
         NEW x \in chain[h], NEW y \in chain[h], x \in chain[a], y <= x
  PROVE  y \in chain[a]
<1>1. y \in chain[x]
  BY OnTheChain
<1> QED
  BY <1>1, OnTheChain

(* What lies between two commits is finite.                                    *)
LEMMA BetweenTyped ==
  ASSUME Tree, NEW a \in Commits, NEW h \in Commits
  PROVE  Between(a, h) \in SUBSET Commits /\ IsFiniteSet(Between(a, h))
         /\ Distance(a, h) \in Nat
<1>1. Between(a, h) \in SUBSET Commits
  BY DEF Between, Tree
<1> QED
  BY <1>1, CommitSets, FS_CardinalityType DEF Distance

(* A checkpoint at a greater distance from a head has more between them.       *)
LEMMA Deeper ==
  ASSUME Tree, NEW a \in Commits, Made(a), NEW b \in Commits, Made(b),
         NEW h \in Commits, Made(h), Distance(a, h) >= Distance(b, h)
  PROVE  Between(b, h) \subseteq Between(a, h)
<1> DEFINE A == Between(a, h)
           B == Between(b, h)
<1>1. SUFFICES ASSUME NEW y \in B, y \notin A PROVE FALSE
  OBVIOUS
<1>2. A \subseteq B
  <2>1. SUFFICES ASSUME NEW x \in A, x \notin B PROVE FALSE
    OBVIOUS
  <2>2. x \in chain[h] /\ x \notin chain[a] /\ x \in chain[b]
    BY <2>1 DEF Between
  <2>3. y \in chain[h] /\ y \notin chain[b] /\ y \in chain[a]
    BY <1>1 DEF Between
  <2>4. x \in Nat /\ y \in Nat
    BY <2>2, <2>3, OnTheChain
  <2>5. CASE x <= y
    BY <2>2, <2>3, <2>5, SharedPrefix
  <2>6. CASE y <= x
    BY <2>2, <2>3, <2>6, SharedPrefix
  <2> QED
    BY <2>4, <2>5, <2>6
<1>3. A \in SUBSET B /\ IsFiniteSet(B) /\ IsFiniteSet(A)
      /\ Cardinality(A) \in Nat /\ Cardinality(B) \in Nat
  BY <1>2, BetweenTyped DEF Distance
<1>4. Cardinality(A) <= Cardinality(B) /\ (Cardinality(B) = Cardinality(A) => B = A)
  BY <1>3, FS_Subset
<1>5. Cardinality(A) >= Cardinality(B)
  BY DEF Distance
<1>6. A = B
  BY <1>3, <1>4, <1>5
<1> QED
  BY <1>1, <1>6

(* The nearest shared ancestor of two commits.                                 *)
LEMMA ForkIn ==
  ASSUME Tree, NEW c \in Commits, Made(c), NEW d \in Commits, Made(d)
  PROVE  /\ Fork(c, d) \in chain[c] /\ Fork(c, d) \in chain[d]
         /\ \A x \in chain[c] : x \in chain[d] => x <= Fork(c, d) /\ x \in chain[Fork(c, d)]
<1> DEFINE S == chain[c] \cap chain[d]
<1>1. S \in SUBSET Commits /\ S # {}
  BY DEF Tree
<1>2. Max(S) \in S /\ \A x \in S : x <= Max(S)
  BY <1>1, CommitSets
<1>3. \A x \in S : x \in chain[Max(S)]
  BY <1>2, OnTheChain
<1> QED
  BY <1>2, <1>3 DEF Fork

(* Every commit but the first has a parent.                                    *)
LEMMA ParentIn ==
  ASSUME Tree, NEW c \in Commits, Made(c), c # 0
  PROVE  Parent(c) \in chain[c] /\ Parent(c) # c
<1>1. chain[c] \ {c} \in SUBSET Commits /\ chain[c] \ {c} # {}
  BY DEF Tree
<1> QED
  BY <1>1, CommitSets DEF Parent
-------------------------------------------------------------------------------
(* The state file, and the branches.                                           *)

Entry    == [ckpt : Commits, tip : Commits]
Table(s) ==
  /\ s \in [Names -> Entry \cup {NoEntry}]
  /\ \A n \in Names : s[n] # NoEntry => Made(s[n].ckpt) /\ Made(s[n].tip)
Refs ==
  /\ ref \in [Names -> Commits \cup {NoCommit}]
  /\ \A n \in Names : Live(n) => Made(ref[n])
Git == Tree /\ Refs

PendingIn(s, n) ==
  Recorded(s[n]) \cup (IF s[n] # NoEntry /\ Live(n) THEN Between(s[n].ckpt, ref[n]) ELSE {})
AllPending(s)    == UNION {PendingIn(s, n) : n \in Names}
Comparable(c, d) == OnChain(c, d) \/ OnChain(d, c)

(* What an entry of the state file looks like.                                 *)
LEMMA EntryTyped ==
  ASSUME NEW s, Table(s), NEW n \in Names, s[n] # NoEntry
  PROVE  /\ s[n] \in Entry /\ s[n].ckpt \in Commits /\ s[n].tip \in Commits
         /\ Made(s[n].ckpt) /\ Made(s[n].tip)
         /\ Recorded(s[n]) = Between(s[n].ckpt, s[n].tip)
BY DEF Table, Entry, Recorded

(* What a live branch points to.                                               *)
LEMMA LiveTyped ==
  ASSUME Refs, NEW n \in Names, Live(n)
  PROVE  ref[n] \in Commits /\ Made(ref[n])
BY DEF Refs, Live

(* No entry is different from every entry.                                     *)
LEMMA NoEntryApart ==
  /\ NoCommit \notin Commits /\ NoEntry \notin Entry
  /\ \A e \in Entry : e # NoEntry
  /\ \A c \in Commits, t \in Commits : [ckpt |-> c, tip |-> t] \in Entry
<1>1. NoCommit \notin Commits
  BY PostCommitAssumption DEF NoCommit, Commits
<1> QED
  BY <1>1 DEF NoEntry, Entry

(* Writing one entry keeps the others.                                         *)
LEMMA PutEntry ==
  ASSUME NEW s, Table(s), NEW n \in Names, NEW c \in Commits, Made(c), NEW t \in Commits, Made(t)
  PROVE  /\ Table([s EXCEPT ![n] = [ckpt |-> c, tip |-> t]])
         /\ [s EXCEPT ![n] = [ckpt |-> c, tip |-> t]][n] = [ckpt |-> c, tip |-> t]
<1>1. [ckpt |-> c, tip |-> t] \in Entry
  BY NoEntryApart
<1> QED
  BY <1>1 DEF Table

(* A hand-over moves a range to a live branch that holds its tip, or widens    *)
(* that branch's own; nothing pending is lost unless it strays.                *)
LEMMA HandOver ==
  ASSUME Git, Table(saved), NEW b \in Names, NEW head \in Commits, Made(head),
         Escaped(b, head, saved)
  PROVE  LET s == HandedOff(b, saved) IN
         /\ Table(s) /\ s[b] = saved[b]
         /\ \A n \in Names : ~Live(n) => s[n] = saved[n]
         /\ ~Strays(b, head) =>
              /\ \A n \in Names : PendingIn(saved, n) \subseteq PendingIn(s, n)
              /\ \A x \in Recorded(saved[b]) :
                   \/ Live(b) /\ x \in Between(saved[b].ckpt, ref[b])
                   \/ \E n \in Names \ {b} : x \in PendingIn(s, n)
<1> DEFINE own == saved[b]
           holders == {n \in Names \ {b} : Holds(n, own.tip)}
           m == Min(holders)
           s == HandedOff(b, saved)
<1>1. own # NoEntry /\ own \in Entry /\ own.ckpt \in Commits /\ own.tip \in Commits
      /\ Made(own.ckpt) /\ Made(own.tip) /\ Recorded(own) = Between(own.ckpt, own.tip)
  BY EntryTyped DEF Escaped
<1>2. CASE holders = {}
  <2>1. s = saved
    BY <1>2 DEF HandedOff
  <2>2. ~Strays(b, head) => Holds(b, own.tip)
    BY <1>2 DEF Strays
  <2>3. Holds(b, own.tip) => Live(b) /\ Recorded(own) \subseteq Between(own.ckpt, ref[b])
    BY <1>1, OnTheChain, LiveTyped DEF Holds, OnChain, Between, Git
  <2> QED
    BY <2>1, <2>2, <2>3
<1>3. CASE holders # {}
  <2>1. m \in Names /\ m # b /\ Live(m) /\ own.tip \in chain[ref[m]]
    <3>1. m \in holders
      BY <1>3, NameSets
    <3> QED
      BY <3>1 DEF Holds, OnChain
  <2>2. ref[m] \in Commits /\ Made(ref[m])
    BY <2>1, LiveTyped DEF Git
  <2>3. Recorded(own) \subseteq Between(own.ckpt, ref[m])
    BY <1>1, <2>1, <2>2, OnTheChain DEF Between, Git
  <2>4. CASE saved[m] = NoEntry
    <3>1. s = [saved EXCEPT ![m] = own]
      BY <1>3, <2>4 DEF HandedOff
    <3>2. saved \in [Names -> Entry \cup {NoEntry}]
      BY DEF Table
    <3>3. s[m] = own /\ \A n \in Names : n # m => s[n] = saved[n]
      BY <2>1, <3>1, <3>2
    <3>4. Table(s)
      BY <1>1, <2>1, <3>1, <3>2, <3>3 DEF Table
    <3>5. \A n \in Names : PendingIn(saved, n) \subseteq PendingIn(s, n)
      BY <2>4, <3>3 DEF PendingIn, Recorded
    <3>6. \A x \in Recorded(own) : x \in PendingIn(s, m)
      BY <3>3 DEF PendingIn
    <3> QED
      BY <2>1, <3>3, <3>4, <3>5, <3>6
  <2>5. CASE saved[m] # NoEntry /\ OnChain(own.ckpt, ref[m]) /\ Widens(own, saved[m], ref[m])
    <3>0. saved[m] \in Entry /\ saved[m].ckpt \in Commits /\ Made(saved[m].ckpt)
          /\ saved[m].tip \in Commits /\ Made(saved[m].tip)
          /\ Recorded(saved[m]) = Between(saved[m].ckpt, saved[m].tip)
      BY <2>1, <2>5, EntryTyped
    <3>1. s = [saved EXCEPT ![m].ckpt = own.ckpt]
      BY <1>3, <2>5 DEF HandedOff
    <3>2. saved \in [Names -> Entry \cup {NoEntry}]
      BY DEF Table
    <3>3. s[m] = [ckpt |-> own.ckpt, tip |-> saved[m].tip] /\ \A n \in Names : n # m => s[n] = saved[n]
      BY <2>1, <3>0, <3>1, <3>2 DEF Entry
    <3>t. s[m] \in Entry /\ s[m] # NoEntry /\ s[m].ckpt = own.ckpt /\ s[m].tip = saved[m].tip
      BY <1>1, <3>0, <3>3, NoEntryApart
    <3>d. s \in [Names -> Entry \cup {NoEntry}]
      BY <2>1, <3>1, <3>2, <3>3, <3>t
    <3>4. Table(s)
      BY <1>1, <3>0, <3>3, <3>t, <3>d DEF Table
    <3>5. ASSUME ~Strays(b, head) PROVE chain[own.ckpt] \subseteq chain[saved[m].ckpt]
      <4>1. OnChain(saved[m].ckpt, ref[m])
        BY <1>3, <2>5, <3>5 DEF Strays, Holds
      <4>2. Distance(own.ckpt, ref[m]) > Distance(saved[m].ckpt, ref[m])
        BY <2>5, <4>1 DEF Widens
      <4>3. Between(saved[m].ckpt, ref[m]) \subseteq Between(own.ckpt, ref[m])
        <5>1. Distance(saved[m].ckpt, ref[m]) \in Nat /\ Distance(own.ckpt, ref[m]) \in Nat
          BY <1>1, <2>2, <3>0, BetweenTyped DEF Git
        <5>2. Distance(own.ckpt, ref[m]) >= Distance(saved[m].ckpt, ref[m])
          BY <4>2, <5>1
        <5> QED
          BY <1>1, <2>2, <3>0, <5>2, Deeper DEF Git
      <4>4. own.ckpt \in chain[ref[m]] /\ own.ckpt \in chain[own.ckpt]
        BY <1>1, <2>5, OnTheChain DEF OnChain, Git, Tree
      <4>5. own.ckpt \in chain[saved[m].ckpt]
        BY <4>3, <4>4 DEF Between
      <4> QED
        BY <3>0, <4>5, OnTheChain DEF Git
    <3>6. Recorded(s[m]) = Between(own.ckpt, saved[m].tip)
      BY <3>t DEF Recorded
    <3>7. ~Strays(b, head) => \A n \in Names : PendingIn(saved, n) \subseteq PendingIn(s, n)
      BY <3>0, <3>3, <3>t, <3>5, <3>6 DEF PendingIn, Between
    <3>8. \A x \in Recorded(own) : x \in PendingIn(s, m)
      BY <2>1, <2>3, <3>t DEF PendingIn
    <3> QED
      BY <2>1, <3>3, <3>4, <3>7, <3>8
  <2>6. CASE saved[m] # NoEntry /\ ~(OnChain(own.ckpt, ref[m]) /\ Widens(own, saved[m], ref[m]))
    <3>0. saved[m] \in Entry /\ saved[m].ckpt \in Commits /\ Made(saved[m].ckpt)
      BY <2>1, <2>6, EntryTyped
    <3>1. s = saved
      BY <1>3, <2>6 DEF HandedOff
    <3>2. ASSUME ~Strays(b, head) PROVE Recorded(own) \subseteq PendingIn(s, m)
      <4>1. OnChain(own.ckpt, ref[m]) /\ OnChain(saved[m].ckpt, ref[m])
        BY <1>3, <2>6, <3>2 DEF Strays, Holds
      <4>2. Distance(saved[m].ckpt, ref[m]) >= Distance(own.ckpt, ref[m])
        <5>1. ~(Distance(own.ckpt, ref[m]) > Distance(saved[m].ckpt, ref[m]))
          BY <2>6, <4>1 DEF Widens
        <5>2. Distance(saved[m].ckpt, ref[m]) \in Nat /\ Distance(own.ckpt, ref[m]) \in Nat
          BY <1>1, <2>2, <3>0, BetweenTyped DEF Git
        <5> QED
          BY <5>1, <5>2
      <4>3. Between(own.ckpt, ref[m]) \subseteq Between(saved[m].ckpt, ref[m])
        BY <1>1, <2>2, <3>0, <4>2, Deeper DEF Git
      <4> QED
        BY <2>1, <2>3, <2>6, <3>1, <4>3 DEF PendingIn
    <3> QED
      BY <2>1, <3>1, <3>2
  <2> QED
    BY <2>4, <2>5, <2>6
<1> QED
  BY <1>2, <1>3

(* A branch whose recorded tip is off the head's chain hands its range over    *)
(* and is at the head from now on.                                             *)
LEMMA PropagatedKeeps ==
  ASSUME Git, Table(saved), NEW b \in Names, NEW head \in Commits, Made(head)
  PROVE  LET s == Propagated(b, head, saved) IN
         /\ Table(s)
         /\ s[b] = NoEntry <=> saved[b] = NoEntry
         /\ s[b] # NoEntry => s[b].ckpt = saved[b].ckpt
         /\ s[b] # NoEntry => s[b].tip = head \/ (s[b] = saved[b] /\ Comparable(s[b].tip, head))
         /\ \A n \in Names : n # b /\ ~Live(n) => s[n] = saved[n]
         /\ ~Strays(b, head) => AllPending(saved) \subseteq AllPending(s)
<1> DEFINE own == saved[b]
           h == HandedOff(b, saved)
           s == Propagated(b, head, saved)
<1>1. CASE ~Escaped(b, head, saved)
  <2>1. s = saved
    BY <1>1 DEF Propagated
  <2>2. own # NoEntry => own.tip = head \/ Comparable(own.tip, head)
    BY <1>1 DEF Escaped, Comparable
  <2> QED
    BY <2>1, <2>2
<1>2. CASE Escaped(b, head, saved)
  <2>1. /\ Table(h) /\ h[b] = own
        /\ \A n \in Names : ~Live(n) => h[n] = saved[n]
        /\ ~Strays(b, head) =>
             /\ \A n \in Names : PendingIn(saved, n) \subseteq PendingIn(h, n)
             /\ \A x \in Recorded(own) :
                  \/ Live(b) /\ x \in Between(own.ckpt, ref[b])
                  \/ \E n \in Names \ {b} : x \in PendingIn(h, n)
    BY <1>2, HandOver
  <2>2. own # NoEntry /\ own \in Entry /\ own.ckpt \in Commits /\ Made(own.ckpt)
    BY <1>2, EntryTyped DEF Escaped
  <2>3. s = [h EXCEPT ![b].tip = head]
    BY <1>2 DEF Propagated
  <2>4. h \in [Names -> Entry \cup {NoEntry}]
    BY <2>1 DEF Table
  <2>5. s = [h EXCEPT ![b] = [ckpt |-> own.ckpt, tip |-> head]]
    BY <2>1, <2>2, <2>3, <2>4 DEF Entry
  <2>6. Table(s) /\ s[b] = [ckpt |-> own.ckpt, tip |-> head]
    <3>1. Table(h)
      BY <2>1
    <3> HIDE DEF h, s, own
    <3>2. Table([h EXCEPT ![b] = [ckpt |-> own.ckpt, tip |-> head]])
          /\ [h EXCEPT ![b] = [ckpt |-> own.ckpt, tip |-> head]][b] = [ckpt |-> own.ckpt, tip |-> head]
      BY <2>2, <3>1, PutEntry
    <3> QED
      BY <2>5, <3>2, Zenon
  <2>7. s[b] # NoEntry /\ s[b].ckpt = own.ckpt /\ s[b].tip = head
    BY <2>2, <2>6, NoEntryApart
  <2>8. \A n \in Names : n # b => s[n] = h[n]
    BY <2>4, <2>5
  <2>9. ASSUME ~Strays(b, head), NEW x \in AllPending(saved) PROVE x \in AllPending(s)
    <3>1. PICK n \in Names : x \in PendingIn(saved, n)
      BY <2>9 DEF AllPending
    <3>2. CASE n # b
      <4>1. x \in PendingIn(h, n)
        BY <2>1, <2>9, <3>1
      <4>2. PendingIn(s, n) = PendingIn(h, n)
        BY <2>8, <3>2 DEF PendingIn
      <4> QED
        BY <4>1, <4>2 DEF AllPending
    <3>3. CASE Live(b) /\ x \in Between(own.ckpt, ref[b])
      <4>1. x \in PendingIn(s, b)
        BY <2>7, <3>3 DEF PendingIn
      <4> QED
        BY <4>1 DEF AllPending
    <3>4. CASE \E i \in Names \ {b} : x \in PendingIn(h, i)
      <4>1. PICK i \in Names \ {b} : x \in PendingIn(h, i)
        BY <3>4
      <4>2. PendingIn(s, i) = PendingIn(h, i)
        BY <2>8, <4>1 DEF PendingIn
      <4> QED
        BY <4>1, <4>2 DEF AllPending
    <3> QED
      BY <2>1, <2>9, <3>1, <3>2, <3>3, <3>4 DEF PendingIn
  <2> QED
    BY <2>1, <2>2, <2>6, <2>7, <2>8, <2>9
<1> QED
  BY <1>1, <1>2

(* A branch that adopts the ranges of names that are gone reaches as far back  *)
(* as they and its own did.                                                    *)
LEMMA AdoptionCovers ==
  ASSUME Git, NEW s, Table(s), NEW b \in Names, NEW head \in Commits, Made(head)
  PROVE  LET r == Adopted(b, head, s) IN
         /\ Table(r)
         /\ r[b] = s[b] \/ (r[b] # NoEntry /\ r[b].tip = head /\ OnChain(r[b].ckpt, head))
         /\ Orphans(b, head, s) = {} => r = s
         /\ \A n \in Names : n # b => r[n] = IF n \in Orphans(b, head, s) THEN NoEntry ELSE s[n]
         /\ s[b] # NoEntry =>
              r[b] # NoEntry /\ Between(s[b].ckpt, head) \subseteq Between(r[b].ckpt, head)
         /\ \A n \in Orphans(b, head, s) :
              \/ Recorded(s[n]) = {}
              \/ r[b] # NoEntry /\ Recorded(s[n]) \subseteq Between(r[b].ckpt, head)
<1> DEFINE orphans == Orphans(b, head, s)
           deeper == {n \in orphans : Distance(s[n].ckpt, head) >= Baseline(s[b], head)}
           rest == [n \in Names |-> IF n \in orphans THEN NoEntry ELSE s[n]]
           r == Adopted(b, head, s)
           cs == {s[n].ckpt : n \in deeper}
           c == Min(cs)
<1>1. \A n \in orphans : /\ n \in Names /\ n # b /\ s[n] # NoEntry
                         /\ s[n].ckpt \in Commits /\ Made(s[n].ckpt) /\ s[n].ckpt \in chain[head]
                         /\ s[n].tip \in chain[head]
                         /\ Recorded(s[n]) = Between(s[n].ckpt, s[n].tip)
                         /\ Distance(s[n].ckpt, head) \in Nat
  BY EntryTyped, BetweenTyped DEF Orphans, OnChain, Git
<1>2. \A n \in orphans : Recorded(s[n]) \subseteq Between(s[n].ckpt, head)
  BY <1>1, OnTheChain DEF Between, Git
<1>3. Table(rest) /\ rest[b] = s[b]
      /\ \A n \in Names : rest[n] = IF n \in orphans THEN NoEntry ELSE s[n]
  BY <1>1 DEF Table
<1>4. s[b] # NoEntry => /\ s[b].ckpt \in Commits /\ Made(s[b].ckpt)
                        /\ Baseline(s[b], head) = Distance(s[b].ckpt, head)
                        /\ Baseline(s[b], head) \in Nat
  BY EntryTyped, BetweenTyped DEF Baseline, Git
<1>5. s[b] = NoEntry => Baseline(s[b], head) = 1
  BY DEF Baseline
<1>6. ASSUME NEW n \in orphans, Distance(s[n].ckpt, head) < 1
      PROVE  Recorded(s[n]) = {}
  <2>1. Distance(s[n].ckpt, head) = 0
    BY <1>1, <1>6
  <2>2. Between(s[n].ckpt, head) = {}
    BY <1>1, <2>1, BetweenTyped, FS_EmptySet DEF Distance, Git
  <2> QED
    BY <1>2, <2>2
<1>7. CASE deeper = {}
  <2>1. r = rest
    BY <1>7 DEF Adopted
  <2>2. \A n \in orphans : Distance(s[n].ckpt, head) < Baseline(s[b], head)
    BY <1>1, <1>4, <1>5, <1>7
  <2>3. ASSUME s[b] # NoEntry, NEW n \in orphans
        PROVE  Recorded(s[n]) \subseteq Between(s[b].ckpt, head)
    <3>1. Distance(s[b].ckpt, head) >= Distance(s[n].ckpt, head)
      BY <1>1, <1>4, <2>2, <2>3
    <3>2. Between(s[n].ckpt, head) \subseteq Between(s[b].ckpt, head)
      BY <1>1, <1>4, <2>3, <3>1, Deeper DEF Git
    <3> QED
      BY <1>2, <3>2
  <2>4. orphans = {} => rest = s
    BY <1>3 DEF Table
  <2> QED
    BY <1>3, <1>5, <1>6, <2>1, <2>2, <2>3, <2>4
<1>8. CASE deeper # {}
  <2>1. r = [rest EXCEPT ![b] = [ckpt |-> c, tip |-> head]]
    BY <1>8 DEF Adopted
  <2>2. c \in cs /\ \A x \in cs : c <= x
    <3>1. cs \in SUBSET Commits /\ cs # {}
      BY <1>1, <1>8
    <3> QED
      BY <3>1, CommitSets
  <2>3. PICK m \in deeper : c = s[m].ckpt
    BY <2>2
  <2>4. c \in Commits /\ Made(c) /\ c \in chain[head]
    BY <1>1, <2>3
  <2>5. Table(r) /\ r[b] = [ckpt |-> c, tip |-> head]
    BY <1>3, <2>1, <2>4, PutEntry
  <2>6. r[b] # NoEntry /\ r[b].ckpt = c /\ r[b].tip = head
    BY <2>4, <2>5, NoEntryApart
  <2>7. \A n \in Names : n # b => r[n] = rest[n]
    BY <2>1
  <2>8. ASSUME s[b] # NoEntry PROVE Between(s[b].ckpt, head) \subseteq Between(c, head)
    <3>1. Distance(c, head) >= Distance(s[b].ckpt, head)
      BY <1>4, <2>3, <2>8
    <3> QED
      BY <1>4, <2>4, <2>8, <3>1, Deeper DEF Git
  <2>9. ASSUME NEW n \in orphans PROVE Recorded(s[n]) \subseteq Between(c, head)
    <3>1. CASE n \in deeper
      <4>1. c <= s[n].ckpt
        BY <2>2, <3>1
      <4>2. c \in chain[s[n].ckpt]
        BY <1>1, <2>4, <4>1, OnTheChain DEF Git
      <4>3. chain[c] \subseteq chain[s[n].ckpt]
        BY <1>1, <4>2, OnTheChain DEF Git
      <4> QED
        BY <1>2, <4>3 DEF Between
    <3>2. CASE n \notin deeper
      <4>1. Distance(c, head) \in Nat /\ Distance(s[n].ckpt, head) \in Nat
        BY <1>1, <2>3
      <4>2. Distance(c, head) >= Baseline(s[b], head)
        BY <2>3
      <4>3. ~(Distance(s[n].ckpt, head) >= Baseline(s[b], head))
        BY <3>2
      <4>4. Distance(c, head) >= Distance(s[n].ckpt, head)
        BY <1>4, <1>5, <4>1, <4>2, <4>3
      <4>5. Between(s[n].ckpt, head) \subseteq Between(c, head)
        BY <1>1, <2>4, <4>4, Deeper DEF Git
      <4> QED
        BY <1>2, <4>5
    <3> QED
      BY <3>1, <3>2
  <2> HIDE DEF deeper, orphans, rest, cs, c, r
  <2>10. orphans # {}
    BY <1>8 DEF deeper
  <2> QED
    BY <1>3, <2>4, <2>5, <2>6, <2>7, <2>8, <2>9, <2>10 DEF orphans, r, OnChain
<1> QED
  BY <1>7, <1>8
(* Looking for the ranges that other names left is propagation and adoption.   *)
LEMMA ResolvedCovers ==
  ASSUME Git, Table(saved), NEW b \in Names, NEW head \in Commits, Made(head)
  PROVE  LET s == Propagated(b, head, saved)
             r == Resolved(b, head)
             os == Orphans(b, head, saved) IN
         /\ Table(s)
         /\ s[b] = NoEntry <=> saved[b] = NoEntry
         /\ s[b] # NoEntry => s[b].ckpt = saved[b].ckpt
         /\ s[b] # NoEntry => s[b].tip = head \/ (s[b] = saved[b] /\ Comparable(s[b].tip, head))
         /\ \A n \in Names : n # b /\ ~Live(n) => s[n] = saved[n]
         /\ ~Strays(b, head) => AllPending(saved) \subseteq AllPending(s)
         /\ Table(r)
         /\ r[b] = s[b] \/ (r[b] # NoEntry /\ r[b].tip = head /\ OnChain(r[b].ckpt, head))
         /\ os = {} => r = s
         /\ \A n \in Names : n # b => r[n] = IF n \in os THEN NoEntry ELSE s[n]
         /\ s[b] # NoEntry => r[b] # NoEntry /\ Between(s[b].ckpt, head) \subseteq Between(r[b].ckpt, head)
         /\ \A n \in os : Recorded(s[n]) = {}
                          \/ (r[b] # NoEntry /\ Recorded(s[n]) \subseteq Between(r[b].ckpt, head))
<1> DEFINE s == Propagated(b, head, saved)
           r == Resolved(b, head)
           os == Orphans(b, head, s)
<1>1. /\ Table(s)
      /\ s[b] = NoEntry <=> saved[b] = NoEntry
      /\ s[b] # NoEntry => s[b].ckpt = saved[b].ckpt
      /\ s[b] # NoEntry => s[b].tip = head \/ (s[b] = saved[b] /\ Comparable(s[b].tip, head))
      /\ \A n \in Names : n # b /\ ~Live(n) => s[n] = saved[n]
      /\ ~Strays(b, head) => AllPending(saved) \subseteq AllPending(s)
  BY PropagatedKeeps
<1>2. r = Adopted(b, head, s)
  BY DEF Resolved
<1>3. /\ Table(r)
      /\ r[b] = s[b] \/ (r[b] # NoEntry /\ r[b].tip = head /\ OnChain(r[b].ckpt, head))
      /\ os = {} => r = s
      /\ \A n \in Names : n # b => r[n] = IF n \in os THEN NoEntry ELSE s[n]
      /\ s[b] # NoEntry => r[b] # NoEntry /\ Between(s[b].ckpt, head) \subseteq Between(r[b].ckpt, head)
      /\ \A n \in os : Recorded(s[n]) = {}
                       \/ (r[b] # NoEntry /\ Recorded(s[n]) \subseteq Between(r[b].ckpt, head))
  <2> HIDE DEF s, r
  <2>1. Table(s)
    BY <1>1
  <2> SUFFICES /\ Table(Adopted(b, head, s))
               /\ \/ Adopted(b, head, s)[b] = s[b]
                  \/ /\ Adopted(b, head, s)[b] # NoEntry /\ Adopted(b, head, s)[b].tip = head
                     /\ OnChain(Adopted(b, head, s)[b].ckpt, head)
               /\ Orphans(b, head, s) = {} => Adopted(b, head, s) = s
               /\ \A n \in Names : n # b =>
                    Adopted(b, head, s)[n] = IF n \in Orphans(b, head, s) THEN NoEntry ELSE s[n]
               /\ s[b] # NoEntry =>
                    /\ Adopted(b, head, s)[b] # NoEntry
                    /\ Between(s[b].ckpt, head) \subseteq Between(Adopted(b, head, s)[b].ckpt, head)
               /\ \A n \in Orphans(b, head, s) :
                    \/ Recorded(s[n]) = {}
                    \/ /\ Adopted(b, head, s)[b] # NoEntry
                       /\ Recorded(s[n]) \subseteq Between(Adopted(b, head, s)[b].ckpt, head)
    BY <1>2, Zenon
  <2> QED
    BY <2>1, AdoptionCovers, Zenon
<1>4. os = Orphans(b, head, saved)
  <2> HIDE DEF s
  <2>1. \A n \in Names \ {b} : ~Live(n) => s[n] = saved[n]
    BY <1>1
  <2>2. \A n \in Names \ {b} :
          (s[n] # NoEntry /\ ~Live(n) /\ OnChain(s[n].ckpt, head) /\ OnChain(s[n].tip, head))
          <=> (saved[n] # NoEntry /\ ~Live(n) /\ OnChain(saved[n].ckpt, head)
               /\ OnChain(saved[n].tip, head))
    BY <2>1
  <2> QED
    BY <2>2, Zenon DEF Orphans
<1> HIDE DEF s, r, os
<1> QED
  BY <1>1, <1>3, <1>4 DEF s, r

(* What a hook finds pending for a branch after it has looked for ranges that  *)
(* other names left: nothing is lost unless the plan says so.                  *)
LEMMA ResolvedKeeps ==
  ASSUME Git, Table(saved), NEW b \in Names, NEW head \in Commits, Made(head)
  PROVE  LET r == Resolved(b, head) IN
         /\ Table(r)
         /\ r[b] # NoEntry =>
              r[b].tip = head \/ (r[b] = saved[b] /\ Comparable(r[b].tip, head))
         /\ ~Loses(b, head) => AllPending(saved) \subseteq AllPending(r)
<1> DEFINE s == Propagated(b, head, saved)
           r == Resolved(b, head)
           os == Orphans(b, head, saved)
<1>1. /\ Table(s)
      /\ s[b] = NoEntry <=> saved[b] = NoEntry
      /\ s[b] # NoEntry => s[b].tip = head \/ (s[b] = saved[b] /\ Comparable(s[b].tip, head))
      /\ ~Strays(b, head) => AllPending(saved) \subseteq AllPending(s)
  BY ResolvedCovers
<1>3. /\ Table(r)
      /\ r[b] = s[b] \/ (r[b] # NoEntry /\ r[b].tip = head /\ OnChain(r[b].ckpt, head))
      /\ os = {} => r = s
      /\ \A n \in Names : n # b => r[n] = IF n \in os THEN NoEntry ELSE s[n]
      /\ s[b] # NoEntry => r[b] # NoEntry /\ Between(s[b].ckpt, head) \subseteq Between(r[b].ckpt, head)
      /\ \A n \in os : Recorded(s[n]) = {}
                       \/ (r[b] # NoEntry /\ Recorded(s[n]) \subseteq Between(r[b].ckpt, head))
  BY ResolvedCovers
<1>4. \A n \in os : s[n] = saved[n]
  <2>1. \A n \in Names : n # b /\ ~Live(n) => s[n] = saved[n]
    BY ResolvedCovers
  <2> HIDE DEF s
  <2> QED
    BY <2>1 DEF Orphans
<1>5. Tree /\ head \in chain[head]
  BY DEF Git, Tree
<1>6. Live(b) => ref[b] \in Commits /\ Made(ref[b])
  BY LiveTyped DEF Git
<1> HIDE DEF s, r, os
<1>7. ASSUME ~Loses(b, head), os # {}, NEW x \in AllPending(s) PROVE x \in AllPending(r)
  <2>1. saved[b] # NoEntry /\ saved[b].tip # head =>
          /\ OnChain(head, saved[b].tip) => Live(b) /\ saved[b].tip \in chain[ref[b]]
          /\ OnChain(saved[b].tip, head) => Live(b) /\ head \in chain[ref[b]]
    BY <1>7 DEF Loses, Overlaps, Holds, OnChain, os
  <2>2. s[b] # NoEntry => /\ s[b].ckpt \in Commits /\ Made(s[b].ckpt) /\ s[b].tip \in Commits
                          /\ Made(s[b].tip) /\ Recorded(s[b]) = Between(s[b].ckpt, s[b].tip)
    BY <1>1, EntryTyped
  <2>3. r[b] # NoEntry => /\ r[b].ckpt \in Commits /\ Made(r[b].ckpt)
                          /\ Recorded(r[b]) = Between(r[b].ckpt, r[b].tip)
    BY <1>3, EntryTyped
  <2>4. r[b] # NoEntry => Between(r[b].ckpt, head) \subseteq PendingIn(r, b)
    <3>1. CASE r[b].tip = head
      BY <2>3, <3>1 DEF PendingIn
    <3>2. CASE r[b] # NoEntry /\ r[b].tip # head
      <4>1. r[b] = s[b] /\ s[b] = saved[b] /\ Comparable(s[b].tip, head)
        BY <1>1, <1>3, <3>2
      <4>2. Live(b) /\ head \in chain[ref[b]]
        <5>1. CASE OnChain(head, s[b].tip)
          <6>1. Live(b) /\ s[b].tip \in chain[ref[b]] /\ head \in chain[s[b].tip]
            BY <2>1, <3>2, <4>1, <5>1 DEF OnChain
          <6> QED
            BY <1>5, <1>6, <6>1, OnTheChain
        <5> QED
          BY <2>1, <3>2, <4>1, <5>1 DEF Comparable
      <4>3. chain[head] \subseteq chain[ref[b]]
        BY <1>5, <1>6, <4>2, OnTheChain
      <4> QED
        BY <3>2, <4>2, <4>3 DEF PendingIn, Between
    <3> QED
      BY <3>1, <3>2
  <2>5. PICK n \in Names : x \in PendingIn(s, n)
    BY <1>7 DEF AllPending
  <2>6. CASE n # b /\ n \notin os
    BY <1>3, <2>5, <2>6 DEF PendingIn, AllPending
  <2>7. CASE n \in os
    <3>1. x \in Recorded(s[n])
      BY <2>5, <2>7 DEF os, Orphans, PendingIn
    <3>2. x \in PendingIn(r, b)
      BY <1>3, <2>4, <2>7, <3>1
    <3> QED
      BY <3>2 DEF AllPending
  <2>8. CASE n = b /\ r[b] = s[b]
    BY <2>5, <2>8 DEF PendingIn, AllPending
  <2>9. CASE n = b /\ r[b] # s[b]
    <3>1. s[b] # NoEntry
      BY <2>5, <2>9 DEF PendingIn, Recorded
    <3>2. /\ r[b] # NoEntry /\ r[b].tip = head /\ r[b].ckpt \in chain[head]
          /\ Between(s[b].ckpt, head) \subseteq Between(r[b].ckpt, head)
      BY <1>3, <2>9, <3>1 DEF OnChain
    <3>3. chain[r[b].ckpt] \subseteq chain[head]
      BY <1>5, <3>2, OnTheChain
    <3>4. ASSUME Live(b), x \in Between(s[b].ckpt, ref[b]) PROVE x \in PendingIn(r, b)
      BY <3>2, <3>3, <3>4 DEF PendingIn, Between
    <3>5. ASSUME x \in Between(s[b].ckpt, s[b].tip)
          PROVE  x \in Between(s[b].ckpt, head) \/ (Live(b) /\ x \in Between(s[b].ckpt, ref[b]))
      <4>1. CASE s[b].tip = head
        BY <3>5, <4>1
      <4>2. CASE s[b].tip # head /\ OnChain(s[b].tip, head)
        <5>1. chain[s[b].tip] \subseteq chain[head]
          BY <1>5, <4>2, OnTheChain DEF OnChain
        <5> QED
          BY <3>5, <5>1 DEF Between
      <4>3. CASE s[b].tip # head /\ OnChain(head, s[b].tip)
        <5>1. Live(b) /\ s[b].tip \in chain[ref[b]]
          BY <1>1, <2>1, <3>1, <4>3
        <5>2. chain[s[b].tip] \subseteq chain[ref[b]]
          BY <1>5, <1>6, <5>1, OnTheChain
        <5> QED
          BY <3>5, <5>1, <5>2 DEF Between
      <4> QED
        BY <1>1, <3>1, <4>1, <4>2, <4>3 DEF Comparable
    <3>6. x \in PendingIn(r, b)
      BY <2>2, <2>4, <2>5, <2>9, <3>1, <3>2, <3>4, <3>5 DEF PendingIn
    <3> QED
      BY <3>6 DEF AllPending
  <2> QED
    BY <2>6, <2>7, <2>8, <2>9
<1>8. ~Loses(b, head) => ~Strays(b, head)
  BY DEF Loses
<1>9. ~Loses(b, head) => AllPending(saved) \subseteq AllPending(r)
  BY <1>1, <1>3, <1>7, <1>8
<1>10. r[b] # NoEntry => r[b].tip = head \/ (r[b] = saved[b] /\ Comparable(r[b].tip, head))
  BY <1>1, <1>3
<1> QED
  BY <1>3, <1>9, <1>10 DEF r
-------------------------------------------------------------------------------
(* The invariant: who owns the state file, and what is not yet reviewed.       *)

Holding == {"send", "schedule", "head", "advance"}

(* A hook that will move an entry has planned for it under the lock, and has   *)
(* the whole range of the entry with it.                                       *)
Owns(k) ==
  LET h == hook[k]
      e == saved[h.branch] IN
  /\ holder = k /\ h.branch \in Names /\ h.head \in Commits /\ Made(h.head)
  /\ e # NoEntry => h.range = Between(e.ckpt, h.head) /\ Comparable(e.tip, h.head)
  /\ h.pc = "head" => h.range = {}
  /\ h.pc = "advance" => h.range \subseteq reviewed
  /\ h.then = "clear" => k = CommitHook /\ Live(h.branch) /\ ref[h.branch] = h.head

HookInv(k) ==
  LET h == hook[k] IN
  /\ holder = k => h.pc \in Holding
  /\ h.pc \in {"idle", "lock", "next"} => h.then = "keep"
  /\ h.pc = "schedule" => k = CommitHook /\ h.then # "keep"
  /\ h.then # "keep" => Owns(k)
  /\ \A f \in h.todo : Made(f.head)
  /\ k = PushHook /\ h.pc = "lock" => h.branch \in Names /\ h.head \in Commits /\ Made(h.head)

BatchInv ==
  /\ PTypeOK /\ Git /\ Table(saved)
  /\ \A k \in Hooks : HookInv(k)
  /\ NothingForgotten
-------------------------------------------------------------------------------
(* Plans.                                                                      *)

(* A plan is sound if what it will move an entry by is the entry's whole range.*)
SoundPlan(p, b, head) ==
  /\ Table(p.saved) /\ p.range \in SUBSET Commits
  /\ p.goal \in {"none", "send", "schedule", "head"} /\ p.then \in {"keep", "advance", "clear"}
  /\ p.goal = "schedule" => p.then = "advance"
  /\ p.goal = "head" => p.range = {}
  /\ p.then # "keep" /\ p.saved[b] # NoEntry =>
       p.range = Between(p.saved[b].ckpt, head) /\ Comparable(p.saved[b].tip, head)

(* The recovery of a range that left the chain is sound.                       *)
LEMMA RecoverySound ==
  ASSUME Tree, NEW s, Table(s), NEW b \in Names, NEW head \in Commits, Made(head),
         s[b] # NoEntry, Comparable(s[b].tip, head)
  PROVE  LET p == Recovery(s, s[b].ckpt, head) IN
         SoundPlan(p, b, head) /\ p.saved = s /\ p.then # "clear" /\ p.goal = "send"
<1>1. Between(s[b].ckpt, head) \in SUBSET Commits
  BY EntryTyped, BetweenTyped
<1> QED
  BY <1>1 DEF Recovery, Plan, SoundPlan

(* The plan of a stored batch.                                                 *)
LEMMA StoredSound ==
  ASSUME Git, Table(saved), NEW b \in Names, NEW head \in Commits, Made(head)
  PROVE  LET p == PlanStored(b, head) IN
         /\ SoundPlan(p, b, head) /\ p.then # "clear" /\ p.goal \in {"none", "send"}
         /\ ~Loses(b, head) => AllPending(saved) \subseteq AllPending(p.saved)
<1> DEFINE s == Resolved(b, head)
           p == PlanStored(b, head)
<1>1. /\ Table(s)
      /\ s[b] # NoEntry => s[b].tip = head \/ (s[b] = saved[b] /\ Comparable(s[b].tip, head))
      /\ ~Loses(b, head) => AllPending(saved) \subseteq AllPending(s)
  BY ResolvedKeeps
<1>2. Tree /\ head \in chain[head]
  BY DEF Git, Tree
<1>3. s[b] # NoEntry => Comparable(s[b].tip, head) /\ Between(s[b].ckpt, head) \in SUBSET Commits
  BY <1>1, <1>2, EntryTyped, BetweenTyped DEF Comparable, OnChain
<1> HIDE DEF s
<1>4. SoundPlan(p, b, head) /\ p.saved = s /\ p.then # "clear" /\ p.goal \in {"none", "send"}
  <2>1. CASE s[b] = NoEntry
    <3>1. p = Plan(s, {}, "none", "keep")
      BY <2>1 DEF PlanStored, s
    <3> QED
      BY <1>1, <3>1 DEF Plan, SoundPlan
  <2>2. CASE s[b] # NoEntry /\ ~OnChain(s[b].ckpt, head)
    <3>1. p = Recovery(s, s[b].ckpt, head)
      BY <2>2 DEF PlanStored, s
    <3> HIDE DEF p
    <3> QED
      BY <1>1, <1>2, <1>3, <2>2, <3>1, RecoverySound
  <2>3. CASE s[b] # NoEntry /\ OnChain(s[b].ckpt, head) /\ s[b].ckpt = head
    <3>1. p = Plan(s, {}, "none", "keep")
      BY <2>3 DEF PlanStored, s
    <3> QED
      BY <1>1, <3>1 DEF Plan, SoundPlan
  <2>4. CASE s[b] # NoEntry /\ OnChain(s[b].ckpt, head) /\ s[b].ckpt # head
    <3>1. p = Plan(s, Between(s[b].ckpt, head), "send", "advance")
      BY <2>4 DEF PlanStored, s
    <3> HIDE DEF p
    <3>2. /\ p.saved = s /\ p.range = Between(s[b].ckpt, head) /\ p.goal = "send"
          /\ p.then = "advance"
      BY <3>1 DEF Plan
    <3> QED
      BY <1>1, <1>3, <2>4, <3>2 DEF SoundPlan
  <2> QED
    BY <2>1, <2>2, <2>3, <2>4
<1> QED
  BY <1>1, <1>4

(* The plan of a commit when batches are off.                                  *)
LEMMA DisabledSound ==
  ASSUME Git, Table(saved), NEW b \in Names, NEW head \in Commits, Made(head)
  PROVE  LET p == PlanDisabled(b, head) IN
         /\ SoundPlan(p, b, head) /\ p.goal \in {"send", "head"}
         /\ ~Loses(b, head) => AllPending(saved) \subseteq AllPending(p.saved)
<1> DEFINE s == Resolved(b, head)
           p == PlanDisabled(b, head)
<1>1. /\ Table(s)
      /\ s[b] # NoEntry => s[b].tip = head \/ (s[b] = saved[b] /\ Comparable(s[b].tip, head))
      /\ ~Loses(b, head) => AllPending(saved) \subseteq AllPending(s)
  BY ResolvedKeeps
<1>2. Tree /\ head \in chain[head]
  BY DEF Git, Tree
<1>3. s[b] # NoEntry => Comparable(s[b].tip, head) /\ Between(s[b].ckpt, head) \in SUBSET Commits
  BY <1>1, <1>2, EntryTyped, BetweenTyped DEF Comparable, OnChain
<1> HIDE DEF s
<1>4. SoundPlan(p, b, head) /\ p.saved = s /\ p.goal \in {"send", "head"}
  <2>1. CASE s[b] = NoEntry
    <3>1. p = Plan(s, {}, "head", "keep")
      BY <2>1 DEF PlanDisabled, s
    <3> QED
      BY <1>1, <3>1 DEF Plan, SoundPlan
  <2>2. CASE s[b] # NoEntry /\ Between(s[b].ckpt, head) = {}
    <3>1. p = Plan(s, {}, "head", "clear")
      BY <2>2 DEF PlanDisabled, s
    <3> QED
      BY <1>1, <1>3, <2>2, <3>1 DEF Plan, SoundPlan
  <2>3. CASE s[b] # NoEntry /\ Between(s[b].ckpt, head) # {}
    <3>1. p = Plan(s, Between(s[b].ckpt, head), "send", "clear")
      BY <2>3 DEF PlanDisabled, s
    <3> HIDE DEF p
    <3>2. /\ p.saved = s /\ p.range = Between(s[b].ckpt, head) /\ p.goal = "send"
          /\ p.then = "clear"
      BY <3>1 DEF Plan
    <3> QED
      BY <1>1, <1>3, <2>3, <3>2 DEF SoundPlan
  <2> QED
    BY <2>1, <2>2, <2>3
<1> QED
  BY <1>1, <1>4

(* The plan of a commit: the branch's tip is the head from now on, and unless  *)
(* that leaves commits out nothing is lost.                                    *)
LEMMA CommitSound ==
  ASSUME Git, Table(saved), NEW b \in Names, NEW head \in Commits, Made(head),
         Live(b), ref[b] = head
  PROVE  LET p == PlanCommit(b, head) IN
         /\ SoundPlan(p, b, head) /\ p.then # "clear" /\ p.goal \in {"none", "send", "schedule"}
         /\ ~Loses(b, head) /\ ~Overlaps(b, head) =>
              AllPending(saved) \subseteq AllPending(p.saved)
<1> DEFINE s == Resolved(b, head)
           p == PlanCommit(b, head)
           ckpt == IF s[b] = NoEntry THEN Parent(head) ELSE s[b].ckpt
           tracked == [s EXCEPT ![b] = [ckpt |-> ckpt, tip |-> head]]
           range == Between(ckpt, head)
<1>1. /\ Table(s)
      /\ s[b] # NoEntry => s[b].tip = head \/ (s[b] = saved[b] /\ Comparable(s[b].tip, head))
      /\ ~Loses(b, head) => AllPending(saved) \subseteq AllPending(s)
  BY ResolvedKeeps
<1>2. Tree /\ head \in chain[head]
  BY DEF Git, Tree
<1> HIDE DEF s
<1>3. CASE s[b] = NoEntry /\ head = 0
  <2>1. p = Plan(s, {head}, "send", "advance")
    BY <1>3 DEF PlanCommit, s
  <2> HIDE DEF p
  <2>2. p.saved = s /\ p.range = {head} /\ p.goal = "send" /\ p.then = "advance"
    BY <2>1 DEF Plan
  <2>3. SoundPlan(p, b, head)
    BY <1>1, <1>3, <2>2 DEF SoundPlan
  <2> QED
    BY <1>1, <2>2, <2>3 DEF p
<1>4. CASE ~(s[b] = NoEntry /\ head = 0)
  <2>1. ckpt \in Commits /\ Made(ckpt)
    <3>1. CASE s[b] = NoEntry
      <4>1. Parent(head) \in chain[head]
        BY <1>2, <1>4, <3>1, ParentIn
      <4> QED
        BY <1>2, <3>1, <4>1, OnTheChain
    <3> QED
      BY <1>1, <3>1, EntryTyped
  <2> HIDE DEF ckpt
  <2>2. Table(tracked) /\ tracked[b] = [ckpt |-> ckpt, tip |-> head]
    BY <1>1, <2>1, PutEntry
  <2>3. tracked[b] # NoEntry /\ tracked[b].ckpt = ckpt /\ tracked[b].tip = head
    BY <2>1, <2>2, NoEntryApart
  <2>4. \A n \in Names : n # b => tracked[n] = s[n]
    BY <1>1 DEF Table
  <2>5. Comparable(tracked[b].tip, head) /\ range \in SUBSET Commits
    BY <1>2, <2>1, <2>3, BetweenTyped DEF Comparable, OnChain
  <2>6. ASSUME ~Loses(b, head), ~Overlaps(b, head) PROVE AllPending(s) \subseteq AllPending(tracked)
    <3>1. ASSUME s[b] # NoEntry PROVE PendingIn(s, b) \subseteq PendingIn(tracked, b)
      <4>1. ckpt = s[b].ckpt /\ Recorded(s[b]) = Between(ckpt, s[b].tip)
            /\ s[b].tip \in Commits /\ Made(s[b].tip)
        BY <1>1, <3>1, EntryTyped DEF ckpt
      <4>2. Recorded(tracked[b]) = Between(ckpt, head)
        BY <2>3 DEF Recorded
      <4>3. chain[s[b].tip] \subseteq chain[head]
        <5>1. CASE s[b].tip = head
          BY <5>1
        <5>2. CASE s[b].tip # head
          <6>1. s[b] = saved[b] /\ Comparable(s[b].tip, head)
            BY <1>1, <3>1, <5>2
          <6>2. OnChain(s[b].tip, head)
            BY <2>6, <3>1, <5>2, <6>1 DEF Overlaps, Holds, Comparable
          <6> QED
            BY <1>2, <6>2, OnTheChain DEF OnChain
        <5> QED
          BY <5>1, <5>2
      <4> QED
        BY <2>3, <4>1, <4>2, <4>3 DEF PendingIn, Between
    <3>2. s[b] = NoEntry => PendingIn(s, b) = {}
      BY DEF PendingIn, Recorded
    <3>3. \A n \in Names : n # b => PendingIn(tracked, n) = PendingIn(s, n)
      BY <2>4 DEF PendingIn
    <3>4. \A n \in Names : PendingIn(s, n) \subseteq PendingIn(tracked, n)
      BY <3>1, <3>2, <3>3
    <3> HIDE DEF tracked
    <3> QED
      BY <3>4 DEF AllPending
  <2>7. /\ SoundPlan(p, b, head) /\ p.then # "clear" /\ p.goal \in {"none", "send", "schedule"}
        /\ p.saved = tracked
    <3>1. CASE ~OnChain(ckpt, head)
      <4>1. p = Recovery(tracked, ckpt, head)
        BY <1>4, <3>1 DEF PlanCommit, s, ckpt
      <4>2. p = Recovery(tracked, tracked[b].ckpt, head)
        BY <2>3, <4>1
      <4> HIDE DEF p, tracked
      <4> QED
        BY <1>2, <2>2, <2>3, <2>5, <4>2, RecoverySound
    <3>2. CASE OnChain(ckpt, head) /\ range = {}
      <4>1. p = Plan(tracked, {}, "none", "keep")
        BY <1>4, <3>2 DEF PlanCommit, s, ckpt
      <4> HIDE DEF p, tracked
      <4> QED
        BY <2>2, <4>1 DEF Plan, SoundPlan
    <3>3. CASE OnChain(ckpt, head) /\ range # {}
      <4>1. PICK g \in {"send", "schedule"} : p = Plan(tracked, range, g, "advance")
        BY <1>4, <3>3 DEF PlanCommit, s, ckpt
      <4> HIDE DEF p, tracked
      <4> QED
        BY <2>2, <2>3, <2>5, <4>1 DEF Plan, SoundPlan
    <3> QED
      BY <3>1, <3>2, <3>3
  <2> HIDE DEF p, tracked
  <2> QED
    BY <1>1, <2>6, <2>7 DEF p
<1> QED
  BY <1>3, <1>4
-------------------------------------------------------------------------------
(* What steps have in common.                                                  *)

(* Nothing is forgotten as long as it is pending in some entry.                *)
LEMMA Unforgotten ==
  /\ NothingForgotten <=> seen \subseteq reviewed \cup AllPending(saved)
  /\ UNION {Pending(n) : n \in Names} = AllPending(saved)
BY DEF NothingForgotten, Pending, AllPending, PendingIn

(* What a step of a hook may do to what is remembered.                         *)
LEMMA SeenAfter ==
  ASSUME NothingForgotten, chain' = chain, ref' = ref, reviewed \subseteq reviewed',
         NEW s, saved' = s,
         \A x \in seen' : \/ x \in UNION {Pending(n)' : n \in Names}
                          \/ x \in seen /\ AllPending(saved) \subseteq AllPending(s) \cup reviewed'
  PROVE  NothingForgotten'
<1>1. UNION {Pending(n)' : n \in Names} = AllPending(s)
  BY DEF Pending, AllPending, PendingIn, Recorded, Between, Live
<1>2. seen \subseteq reviewed \cup AllPending(saved)
  BY Unforgotten
<1>3. seen' \subseteq reviewed' \cup UNION {Pending(n)' : n \in Names}
  BY <1>1, <1>2
<1> QED
  BY <1>3 DEF NothingForgotten

(* A hook that another one's step leaves alone, but for what a push owes.      *)
LEMMA HookKept ==
  ASSUME BatchInv, NEW k \in Hooks,
         /\ hook'[k].pc = hook[k].pc /\ hook'[k].todo = hook[k].todo
         /\ hook'[k].branch = hook[k].branch /\ hook'[k].head = hook[k].head
         /\ hook'[k].range = hook[k].range /\ hook'[k].then = hook[k].then,
         \A c \in Commits : Made(c) => chain'[c] = chain[c],
         holder = k => holder' = k /\ saved' = saved,
         holder' = k => holder = k,
         reviewed \subseteq reviewed',
         k = CommitHook /\ hook[k].pc # "idle" => \A n \in Names : Live(n) => ref'[n] = ref[n]
  PROVE  HookInv(k)'
<1>1. HookInv(k) /\ Table(saved) /\ hook[k] \in HookRow
  BY DEF BatchInv, PTypeOK
<1>2. \A c \in Commits : Made(c) => Made(c)'
  BY DEF Made
<1>3. \A f \in hook[k].todo : f.head \in Commits
  BY <1>1 DEF HookRow, Flush
<1>4. ASSUME hook'[k].then # "keep" PROVE Owns(k)'
  <2>1. Owns(k)
    BY <1>1, <1>4 DEF HookInv
  <2>2. holder' = k /\ saved' = saved
    BY <2>1 DEF Owns
  <2> DEFINE h == hook[k]
  <2> DEFINE e == saved[h.branch]
  <2>3. h.branch \in Names /\ h.head \in Commits /\ Made(h.head) /\ Made(h.head)'
        /\ chain'[h.head] = chain[h.head]
    BY <1>2, <2>1 DEF Owns
  <2>4. ASSUME e # NoEntry
        PROVE  h.range = chain'[h.head] \ chain'[e.ckpt]
               /\ (e.tip \in chain'[h.head] \/ h.head \in chain'[e.tip])
    <3>1. e.ckpt \in Commits /\ e.tip \in Commits /\ Made(e.ckpt) /\ Made(e.tip)
      BY <1>1, <2>3, <2>4, EntryTyped
    <3>2. chain'[e.ckpt] = chain[e.ckpt] /\ chain'[e.tip] = chain[e.tip]
      BY <3>1
    <3>3. h.range = Between(e.ckpt, h.head) /\ Comparable(e.tip, h.head)
      BY <2>1, <2>4 DEF Owns
    <3> QED
      BY <2>3, <3>2, <3>3 DEF Between, Comparable, OnChain
  <2>5. h.then = "clear" => k = CommitHook /\ ref[h.branch] = h.head /\ ref'[h.branch] = ref[h.branch]
                            /\ Live(h.branch)
    <3>1. h.then = "clear" => k = CommitHook /\ h.pc # "idle" /\ Live(h.branch)
                              /\ ref[h.branch] = h.head
      BY <1>1, <2>1 DEF Owns, HookInv
    <3> QED
      BY <2>3, <3>1
  <2>6. (h.pc = "head" => h.range = {}) /\ (h.pc = "advance" => h.range \subseteq reviewed)
    BY <2>1 DEF Owns
  <2> QED
    BY <2>2, <2>3, <2>4, <2>5, <2>6 DEF Owns, Between, Comparable, OnChain, Live
<1> QED
  BY <1>1, <1>2, <1>3, <1>4 DEF HookInv

(* A hook that is through, or at its next flush.                               *)
LEMMA EndedTyped ==
  ASSUME NEW k \in Hooks, hook[k] \in HookRow
  PROVE  /\ Ended(k) \in HookRow /\ NoHook \in HookRow /\ NoHook.then = "keep"
         /\ Ended(k).then = "keep" /\ Ended(k).pc \in {"idle", "next"} /\ NoHook.pc = "idle"
         /\ Ended(k).todo \subseteq hook[k].todo /\ NoHook.todo = {}
<1>1. NoHook \in HookRow /\ NoHook.then = "keep" /\ NoHook.pc = "idle" /\ NoHook.todo = {}
  BY DEF NoHook, HookRow
<1>2. CASE k = PushHook
  <2>1. Ended(k) = [NoHook EXCEPT !.pc = "next", !.todo = hook[k].todo, !.due = hook[k].due]
    BY <1>2 DEF Ended
  <2> QED
    BY <1>1, <2>1 DEF HookRow, NoHook
<1>3. CASE k # PushHook
  <2>1. Ended(k) = NoHook
    BY <1>3 DEF Ended
  <2> QED
    BY <1>1, <2>1
<1> QED
  BY <1>2, <1>3

(* A hook that is gone keeps it too.                                           *)
LEMMA HookGone ==
  ASSUME NEW k \in Hooks, hook'[k] = NoHook, holder' # k
  PROVE  HookInv(k)'
BY DEF HookInv, NoHook

(* The row of a hook that moves on, and of the others: what a push is held to  *)
(* is all that another hook's step may change of it.                           *)
Stepped(k, d) ==
  /\ hook' \in [Hooks -> HookRow]
  /\ \A j \in Hooks : j # k => /\ hook'[j].pc = hook[j].pc /\ hook'[j].todo = hook[j].todo
                               /\ hook'[j].branch = hook[j].branch
                               /\ hook'[j].head = hook[j].head
                               /\ hook'[j].range = hook[j].range
                               /\ hook'[j].then = hook[j].then
  /\ /\ hook'[k].pc = d.pc /\ hook'[k].todo = d.todo
     /\ hook'[k].branch = d.branch /\ hook'[k].head = d.head
     /\ hook'[k].range = d.range /\ hook'[k].then = d.then

(* ... so it is when a step changes what a push is held to.                    *)
LEMMA StepTyped ==
  ASSUME NEW k \in Hooks, NEW d \in HookRow, hook \in [Hooks -> HookRow],
         NEW due \in SUBSET Commits, hook' = [hook EXCEPT ![k] = d, ![PushHook].due = due]
  PROVE  Stepped(k, d) /\ hook'[PushHook].due = due
<1> DEFINE g == [hook EXCEPT ![k] = d]
<1>1. g \in [Hooks -> HookRow] /\ g[k] = d /\ \A j \in Hooks : j # k => g[j] = hook[j]
  OBVIOUS
<1>2. PushHook \in Hooks
  BY HookNames
<1>3. hook' = [g EXCEPT ![PushHook].due = due]
  OBVIOUS
<1> HIDE DEF g
<1>4. hook' \in [Hooks -> HookRow]
  <2>1. PICK row : row = [g[PushHook] EXCEPT !.due = due]
    OBVIOUS
  <2>2. row \in HookRow
    <3>1. g[PushHook] \in HookRow
      BY <1>1, <1>2
    <3> QED
      BY <2>1, <3>1 DEF HookRow
  <2>3. hook' = [g EXCEPT ![PushHook] = row]
    BY <1>3, <2>1
  <2> QED
    BY <1>1, <1>2, <2>2, <2>3
<1>5. \A j \in Hooks : hook'[j] = IF j = PushHook THEN [g[j] EXCEPT !.due = due] ELSE g[j]
  BY <1>1, <1>2, <1>3
<1>6. \A j \in Hooks : /\ hook'[j].pc = g[j].pc /\ hook'[j].todo = g[j].todo
                       /\ hook'[j].branch = g[j].branch /\ hook'[j].head = g[j].head
                       /\ hook'[j].range = g[j].range /\ hook'[j].then = g[j].then
  <2>1. \A j \in Hooks : j # PushHook => hook'[j] = g[j]
    BY <1>5
  <2>2. hook'[PushHook] = [g[PushHook] EXCEPT !.due = due] /\ g[PushHook] \in HookRow
    BY <1>1, <1>2, <1>5
  <2>3. /\ hook'[PushHook].pc = g[PushHook].pc /\ hook'[PushHook].todo = g[PushHook].todo
        /\ hook'[PushHook].branch = g[PushHook].branch
        /\ hook'[PushHook].head = g[PushHook].head
        /\ hook'[PushHook].range = g[PushHook].range
        /\ hook'[PushHook].then = g[PushHook].then
    BY <2>2 DEF HookRow
  <2> QED
    BY <2>1, <2>3
<1>7. hook'[PushHook].due = due
  <2>1. hook'[PushHook] = [g[PushHook] EXCEPT !.due = due] /\ g[PushHook] \in HookRow
    BY <1>1, <1>2, <1>5
  <2> QED
    BY <2>1 DEF HookRow
<1> QED
  BY <1>1, <1>4, <1>6, <1>7 DEF Stepped

(* The row a plan gives its hook.                                              *)
Doing(k, b, head, p) ==
  IF p.goal = "none" THEN Ended(k)
  ELSE [hook[k] EXCEPT !.pc = p.goal, !.branch = b, !.head = head,
                       !.range = p.range, !.then = p.then]

(* That row is well-formed, and moves no entry but the one it plans for.       *)
LEMMA DoingTyped ==
  ASSUME NEW k \in Hooks, hook \in [Hooks -> HookRow], NEW b, NEW head, NEW p,
         p.goal # "none" => b \in Names /\ head \in Commits /\ SoundPlan(p, b, head),
         NEW d, d = Doing(k, b, head, p)
  PROVE  /\ d \in HookRow
         /\ d.then # "keep" => d.branch = b /\ d.head = head
<1>1. hook[k] \in HookRow
  OBVIOUS
<1>2. CASE p.goal = "none"
  <2>1. d = Ended(k)
    BY <1>2 DEF Doing
  <2> QED
    BY <1>1, <2>1, EndedTyped
<1>3. CASE p.goal # "none"
  <2>1. /\ p.goal \in {"send", "schedule", "head"} /\ b \in Names /\ head \in Commits
        /\ p.range \in SUBSET Commits /\ p.then \in {"keep", "advance", "clear"}
    BY <1>3 DEF SoundPlan
  <2>2. d = [hook[k] EXCEPT !.pc = p.goal, !.branch = b, !.head = head,
                            !.range = p.range, !.then = p.then]
    BY <1>3 DEF Doing
  <2> QED
    BY <1>1, <2>1, <2>2 DEF HookRow
<1> QED
  BY <1>2, <1>3

(* A plan takes from what a push is held to what another hook adopts.          *)
LEMMA FollowStepped ==
  ASSUME NEW k \in Hooks, hook \in [Hooks -> HookRow], NEW b, NEW head, NEW p, Follow(k, b, head, p),
         NEW d \in HookRow, d = Doing(k, b, head, p)
  PROVE  /\ Stepped(k, d)
         /\ k # PushHook => hook'[PushHook].due = hook[PushHook].due \ TakenOver(k)
         /\ k = PushHook => hook'[PushHook].due = d.due
<1>1. PushHook \in Hooks
  BY HookNames
<1>2. PICK taken : taken = TakenOver(k)
  OBVIOUS
<1>3. hook' = [hook EXCEPT ![k] = d, ![PushHook].due = @ \ taken]
  BY <1>2 DEF Follow, Doing
<1>4. PICK due : due = hook[PushHook].due \ taken
  OBVIOUS
<1>5. due \in SUBSET Commits
  BY <1>1, <1>4 DEF HookRow
<1>6. k = PushHook => d.due = hook[PushHook].due
  <2>1. ASSUME k = PushHook, p.goal = "none" PROVE d.due = hook[PushHook].due
    <3>1. d = [NoHook EXCEPT !.pc = "next", !.todo = hook[k].todo, !.due = hook[k].due]
      BY <2>1 DEF Ended, Doing
    <3> QED
      BY <2>1, <3>1 DEF NoHook
  <2>2. ASSUME p.goal # "none" PROVE d.due = hook[k].due
    <3>1. hook[k] \in HookRow
      OBVIOUS
    <3>2. d = [hook[k] EXCEPT !.pc = p.goal, !.branch = b, !.head = head,
                              !.range = p.range, !.then = p.then]
      BY <2>2 DEF Doing
    <3> QED
      BY <3>1, <3>2 DEF HookRow
  <2> QED
    BY <2>1, <2>2
<1>7. hook' = [hook EXCEPT ![k] = d, ![PushHook].due = due]
  BY <1>3, <1>4, Zenon
<1>8. Stepped(k, d) /\ hook'[PushHook].due = due
  BY <1>5, <1>7, StepTyped
<1> QED
  BY <1>2, <1>4, <1>6, <1>8 DEF TakenOver

(* ... and a checkpoint that is dropped leaves a push held to nothing.         *)
LEMMA AdvanceStepped ==
  ASSUME NEW k \in Hooks, hook \in [Hooks -> HookRow], Advance(k)
  PROVE  /\ Stepped(k, Ended(k))
         /\ hook'[PushHook].due \subseteq hook[PushHook].due
         /\ hook[k].then # "clear" => hook'[PushHook].due = hook[PushHook].due
         /\ hook[k].then = "clear" =>
              hook'[PushHook].due = hook[PushHook].due \ Awaited(hook[k].branch)
<1>1. PushHook \in Hooks
  BY HookNames
<1>2. PICK d : d = Ended(k)
  OBVIOUS
<1>3. d \in HookRow /\ (k = PushHook => d.due = hook[PushHook].due)
  <2>1. d \in HookRow
    BY <1>2, EndedTyped
  <2>2. k = PushHook => d = [NoHook EXCEPT !.pc = "next", !.todo = hook[k].todo, !.due = hook[k].due]
    BY <1>2 DEF Ended
  <2> QED
    BY <2>1, <2>2 DEF NoHook
<1>4. PICK taken : taken = IF hook[k].then = "clear" THEN Awaited(hook[k].branch) ELSE {}
  OBVIOUS
<1>5. PICK due : due = hook[PushHook].due \ taken
  OBVIOUS
<1>6. due \in SUBSET Commits
  BY <1>1, <1>5 DEF HookRow
<1>7. [hook EXCEPT ![k] = d][PushHook].due = hook[PushHook].due
  BY <1>1, <1>3
<1>8. hook' = [hook EXCEPT ![k] = d, ![PushHook].due = due]
  <2>1. hook' = [hook EXCEPT ![k] = d, ![PushHook].due =
                   IF hook[k].then = "clear" THEN @ \ Awaited(hook[k].branch) ELSE @]
    BY <1>2 DEF Advance
  <2>2. CASE hook[k].then = "clear"
    BY <1>4, <1>5, <1>7, <2>1, <2>2, Zenon
  <2>3. CASE hook[k].then # "clear"
    <3>1. due = hook[PushHook].due
      BY <1>4, <1>5, <2>3
    <3> QED
      BY <1>7, <2>1, <2>3, <3>1, Zenon
  <2> QED
    BY <2>2, <2>3
<1>9. Stepped(k, d) /\ hook'[PushHook].due = due
  BY <1>3, <1>6, <1>8, StepTyped
<1>10. due \subseteq hook[PushHook].due
  BY <1>5
<1>11. CASE hook[k].then = "clear"
  <2>1. due = hook[PushHook].due \ Awaited(hook[k].branch)
    BY <1>4, <1>5, <1>11
  <2> QED
    BY <1>2, <1>9, <1>10, <1>11, <2>1, Zenon
<1>12. CASE hook[k].then # "clear"
  <2>1. due = hook[PushHook].due
    BY <1>4, <1>5, <1>12
  <2> QED
    BY <1>2, <1>9, <1>10, <1>12, <2>1, Zenon
<1> QED
  BY <1>11, <1>12

(* A hook that has nothing in hand keeps the invariant.                        *)
LEMMA HookRests ==
  ASSUME NEW k \in Hooks, hook'[k].pc \in {"idle", "next"}, hook'[k].then = "keep", holder' # k,
         \A f \in hook'[k].todo : Made(f.head)'
  PROVE  HookInv(k)'
BY DEF HookInv
-------------------------------------------------------------------------------
(* Every step keeps the invariant.                                             *)

(* A hook that takes the lock and follows a sound plan.                        *)
LEMMA FollowKeeps ==
  ASSUME BatchInv, NEW k \in Hooks, NEW b, NEW head, NEW p, Table(p.saved),
         p.goal # "none" =>
           /\ b \in Names /\ head \in Commits /\ Made(head) /\ SoundPlan(p, b, head)
           /\ p.goal = "schedule" => k = CommitHook
           /\ p.then = "clear" => k = CommitHook /\ Live(b) /\ ref[b] = head,
         Entered(k), Follow(k, b, head, p), OnlyHook,
         UNCHANGED <<timer, asked, reviewed, mishaps>>, seen' \in SUBSET Commits, NothingForgotten'
  PROVE  BatchInv'
<1> DEFINE doing == Doing(k, b, head, p)
<1>1. /\ PTypeOK /\ Git /\ Table(saved) /\ \A j \in Hooks : HookInv(j)
  BY DEF BatchInv
<1>2. /\ chain' = chain /\ ref' = ref /\ cur' = cur /\ batching' = batching /\ pushed' = pushed
      /\ moves' = moves /\ timer' = timer /\ asked' = asked /\ reviewed' = reviewed
      /\ mishaps' = mishaps /\ saved' = p.saved
      /\ holder' = IF p.goal = "none" THEN holder ELSE k
      /\ hook[k].pc = "lock" /\ holder = Nobody
  BY DEF OnlyHook, Follow, Entered, HookAt
<1>4. hook \in [Hooks -> HookRow] /\ hook[k] \in HookRow /\ PushHook \in Hooks /\ k # Nobody
  BY <1>1, HookNames DEF PTypeOK
<1>5. doing \in HookRow
  <2>1. PICK d : d = Doing(k, b, head, p)
    OBVIOUS
  <2>2. p.goal # "none" => b \in Names /\ head \in Commits /\ SoundPlan(p, b, head)
    OBVIOUS
  <2>3. d \in HookRow
    BY <1>4, <2>1, <2>2, DoingTyped
  <2> QED
    BY <2>1, <2>3
<1> HIDE DEF doing
<1>6. /\ hook' \in [Hooks -> HookRow]
      /\ \A j \in Hooks : j # k => /\ hook'[j].pc = hook[j].pc /\ hook'[j].todo = hook[j].todo
                                   /\ hook'[j].branch = hook[j].branch /\ hook'[j].head = hook[j].head
                                   /\ hook'[j].range = hook[j].range /\ hook'[j].then = hook[j].then
      /\ /\ hook'[k].pc = doing.pc /\ hook'[k].todo = doing.todo
         /\ hook'[k].branch = doing.branch /\ hook'[k].head = doing.head
         /\ hook'[k].range = doing.range /\ hook'[k].then = doing.then
  <2>1. PICK d : d = doing
    OBVIOUS
  <2>2. Stepped(k, d)
    BY <1>4, <1>5, <2>1, FollowStepped DEF doing
  <2> QED
    BY <2>1, <2>2 DEF Stepped
<1>7. PTypeOK'
  BY <1>1, <1>2, <1>4, <1>6 DEF PTypeOK, Table, Entry, Live
<1>8. Git'
  BY <1>1, <1>2 DEF Git, Tree, Refs, Made, Live
<1>9. Table(saved)'
  BY <1>2 DEF Table, Made
<1>10. ASSUME NEW j \in Hooks, j # k PROVE HookInv(j)'
  <2>1. hook[j].pc # "idle" /\ j = CommitHook => \A n \in Names : Live(n) => ref'[n] = ref[n]
    BY <1>2
  <2>2. holder # j /\ holder' # j
    BY <1>2, <1>10, HookNames
  <2> QED
    BY <1>2, <1>6, <1>10, <2>1, <2>2, HookKept
<1>11. HookInv(k)'
  <2>1. HookInv(k)
    BY <1>1
  <2>2. CASE p.goal = "none"
    <3>1. doing = Ended(k)
      BY <2>2 DEF doing, Doing
    <3>2. holder' # k
      BY <1>2, <1>4, <2>2
    <3>3. hook'[k].pc \in {"idle", "next"} /\ hook'[k].then = "keep"
          /\ hook'[k].todo \subseteq hook[k].todo
      BY <1>4, <1>6, <3>1, EndedTyped
    <3>4. \A f \in hook'[k].todo : Made(f.head)'
      BY <1>2, <2>1, <3>3 DEF HookInv, Made
    <3> QED
      BY <3>2, <3>3, <3>4, HookRests
  <2>3. CASE p.goal # "none"
    <3>1. /\ b \in Names /\ head \in Commits /\ Made(head) /\ SoundPlan(p, b, head)
          /\ p.goal = "schedule" => k = CommitHook
          /\ p.then = "clear" => k = CommitHook /\ Live(b) /\ ref[b] = head
      BY <2>3
    <3>2. doing = [hook[k] EXCEPT !.pc = p.goal, !.branch = b, !.head = head,
                                  !.range = p.range, !.then = p.then]
      BY <2>3 DEF doing, Doing
    <3>3. /\ hook'[k].pc = p.goal /\ hook'[k].todo = hook[k].todo
          /\ hook'[k].branch = b /\ hook'[k].head = head
          /\ hook'[k].range = p.range /\ hook'[k].then = p.then
      BY <1>4, <1>6, <3>2 DEF HookRow
    <3>4. p.goal \in {"send", "schedule", "head"} /\ p.then \in {"keep", "advance", "clear"}
          /\ (p.goal = "schedule" => p.then = "advance") /\ (p.goal = "head" => p.range = {})
      BY <2>3, <3>1 DEF SoundPlan
    <3>5. p.then # "keep" /\ p.saved[b] # NoEntry =>
            p.range = chain[head] \ chain[p.saved[b].ckpt]
            /\ (p.saved[b].tip \in chain[head] \/ head \in chain[p.saved[b].tip])
      BY <3>1 DEF SoundPlan, Between, Comparable, OnChain
    <3>6. hook'[k].then # "keep" => Owns(k)'
      BY <1>2, <2>3, <3>1, <3>3, <3>4, <3>5 DEF Owns, Between, Comparable, OnChain, Live, Made
    <3>7. \A f \in hook'[k].todo : Made(f.head)'
      BY <1>2, <2>1, <3>3 DEF HookInv, Made
    <3>8. hook'[k].pc \in Holding /\ hook'[k].pc \notin {"idle", "lock", "next"}
      BY <3>3, <3>4 DEF Holding
    <3> QED
      BY <3>1, <3>3, <3>4, <3>6, <3>7, <3>8 DEF HookInv
  <2> QED
    BY <2>2, <2>3
<1> QED
  BY <1>7, <1>8, <1>9, <1>10, <1>11 DEF BatchInv
(* The plan of a commit's hook.                                                *)
LEMMA CommitPlanned ==
  ASSUME BatchInv, PlanOfCommit
  PROVE  BatchInv'
<1>1. PICK b \in Names : b = cur
  BY DEF BatchInv, PTypeOK
<1>2. Live(b) /\ Git /\ Table(saved) /\ Refs
  BY <1>1 DEF BatchInv, PTypeOK, Git
<1>3. PICK head \in Commits : head = ref[b] /\ Made(head)
  BY <1>2, LiveTyped
<1>4. PICK p : p = IF batching THEN PlanCommit(b, head) ELSE PlanDisabled(b, head)
  OBVIOUS
<1>5. /\ SoundPlan(p, b, head)
      /\ ~Loses(b, head) /\ ~Overlaps(b, head) => AllPending(saved) \subseteq AllPending(p.saved)
  BY <1>2, <1>3, <1>4, CommitSound, DisabledSound
<1>6. /\ Entered(CommitHook) /\ Follow(CommitHook, b, head, p) /\ OnlyHook
      /\ UNCHANGED <<timer, asked, reviewed, mishaps>>
      /\ seen' = SeenIf(Loses(b, head) \/ Overlaps(b, head))
                   \cup (IF batching THEN Recorded(p.saved[b]) ELSE {})
  <2>1. cur = b /\ ref[cur] = head
    BY <1>1, <1>3
  <2>2. p = IF batching THEN PlanCommit(cur, ref[cur]) ELSE PlanDisabled(cur, ref[cur])
    BY <1>4, <2>1
  <2> QED
    BY <2>1, <2>2 DEF PlanOfCommit
<1>7. PICK s : s = p.saved
  OBVIOUS
<1>8. saved' = s /\ chain' = chain /\ ref' = ref /\ reviewed' = reviewed
  BY <1>6, <1>7 DEF Follow, OnlyHook
<1>9. Recorded(p.saved[b]) \subseteq UNION {Pending(n)' : n \in Names}
  BY <1>7, <1>8 DEF Pending, Recorded, Between
<1>10. \A x \in seen' : \/ x \in UNION {Pending(n)' : n \in Names}
                        \/ x \in seen /\ AllPending(saved) \subseteq AllPending(s) \cup reviewed'
  <2>1. CASE Loses(b, head) \/ Overlaps(b, head)
    <3>1. SeenIf(Loses(b, head) \/ Overlaps(b, head)) \subseteq UNION {Pending(n)' : n \in Names}
      BY <2>1 DEF SeenIf
    <3> QED
      BY <1>6, <1>9, <3>1
  <2>2. CASE ~(Loses(b, head) \/ Overlaps(b, head))
    <3>1. SeenIf(Loses(b, head) \/ Overlaps(b, head)) = seen
      BY <2>2 DEF SeenIf
    <3> QED
      BY <1>5, <1>6, <1>7, <1>9, <2>2, <3>1
  <2> QED
    BY <2>1, <2>2
<1>11. NothingForgotten /\ seen \in SUBSET Commits
  BY DEF BatchInv, PTypeOK
<1>12. NothingForgotten'
  BY <1>8, <1>10, <1>11, SeenAfter
<1>13. seen' \in SUBSET Commits
  <2>1. Recorded(p.saved[b]) \subseteq Commits
    <3>1. Table(s)
      BY <1>5, <1>7 DEF SoundPlan
    <3>2. Tree
      BY <1>2 DEF Git
    <3>3. CASE s[b] = NoEntry
      BY <1>7, <3>3 DEF Recorded
    <3>4. CASE s[b] # NoEntry
      <4>1. Recorded(s[b]) \in SUBSET Commits
        BY <3>1, <3>2, <3>4, EntryTyped, BetweenTyped
      <4> QED
        BY <1>7, <4>1
    <3> QED
      BY <3>3, <3>4
  <2>2. SeenIf(Loses(b, head) \/ Overlaps(b, head)) \subseteq seen
    BY DEF SeenIf
  <2> QED
    BY <1>6, <1>11, <2>1, <2>2
<1>14. CommitHook \in Hooks /\ Table(p.saved)
  BY <1>5, HookNames DEF SoundPlan
<1> QED
  BY <1>2, <1>3, <1>5, <1>6, <1>12, <1>13, <1>14, FollowKeeps

(* The plan of a stored batch, for a push or a quiet flush: what is remembered *)
(* is kept.                                                                    *)
LEMMA StoredSeen ==
  ASSUME BatchInv, NEW b \in Names, NEW head \in Commits, Made(head), NEW s,
         s = PlanStored(b, head).saved, saved' = s, OnlyHook, reviewed' = reviewed,
         seen' = SeenIf(Loses(b, head))
  PROVE  NothingForgotten' /\ seen' \in SUBSET Commits
<1>1. Git /\ Table(saved) /\ NothingForgotten /\ seen \in SUBSET Commits
  BY DEF BatchInv, PTypeOK
<1>2. ~Loses(b, head) => AllPending(saved) \subseteq AllPending(s)
  BY <1>1, StoredSound
<1>3. \A x \in seen' : \/ x \in UNION {Pending(n)' : n \in Names}
                       \/ x \in seen /\ AllPending(saved) \subseteq AllPending(s) \cup reviewed'
  BY <1>2 DEF SeenIf
<1>4. chain' = chain /\ ref' = ref
  BY DEF OnlyHook
<1>5. NothingForgotten'
  BY <1>1, <1>3, <1>4, SeenAfter
<1>6. seen' \subseteq seen
  BY DEF SeenIf
<1> QED
  BY <1>1, <1>5, <1>6

(* The plan of a push.                                                         *)
LEMMA PushPlanned ==
  ASSUME BatchInv, PlanOfPush
  PROVE  BatchInv'
<1>1. HookInv(PushHook) /\ hook[PushHook].pc = "lock" /\ Git /\ Table(saved)
  BY HookNames DEF BatchInv, PlanOfPush, Entered, HookAt
<1>2. PICK b \in Names, head \in Commits : b = hook[PushHook].branch /\ head = hook[PushHook].head
                                          /\ Made(head)
  BY <1>1 DEF HookInv
<1>3. PICK p : p = PlanStored(b, head)
  OBVIOUS
<1>4. SoundPlan(p, b, head) /\ p.then # "clear" /\ p.goal \in {"none", "send"}
  BY <1>1, <1>2, <1>3, StoredSound
<1>5. /\ Entered(PushHook) /\ Follow(PushHook, b, head, p) /\ OnlyHook
      /\ UNCHANGED <<timer, asked, reviewed, mishaps>> /\ seen' = SeenIf(Loses(b, head))
  BY <1>2, <1>3 DEF PlanOfPush
<1>6. PICK s : s = p.saved
  OBVIOUS
<1>7. saved' = s /\ s = PlanStored(b, head).saved
  BY <1>3, <1>5, <1>6 DEF Follow
<1>8. NothingForgotten' /\ seen' \in SUBSET Commits
  BY <1>2, <1>5, <1>7, StoredSeen
<1>9. Table(p.saved) /\ PushHook \in Hooks
  BY <1>4, HookNames DEF SoundPlan
<1> QED
  BY <1>2, <1>4, <1>5, <1>8, <1>9, FollowKeeps

(* The plan of a quiet flush.                                                  *)
LEMMA FlushPlanned ==
  ASSUME BatchInv, NEW b \in Names, PlanOfFlush(b)
  PROVE  BatchInv'
<1>1. Git /\ Table(saved) /\ Refs /\ b \in Hooks /\ NothingForgotten /\ seen \in SUBSET Commits
  BY HookNames DEF BatchInv, Git, PTypeOK
<1>2. /\ Entered(b) /\ OnlyHook /\ UNCHANGED <<timer, asked, reviewed, mishaps>>
      /\ seen' = SeenIf(Live(b) /\ Loses(b, ref[b]))
  BY DEF PlanOfFlush
<1>3. CASE ~Live(b)
  <2>1. PICK p : p = Plan(saved, {}, "none", "keep")
    OBVIOUS
  <2>2. Follow(b, b, NoCommit, p) /\ p.saved = saved /\ p.goal = "none"
    BY <1>3, <2>1 DEF PlanOfFlush, Plan
  <2>3. seen' = seen /\ saved' = saved
    BY <1>2, <1>3, <2>2 DEF SeenIf, Follow
  <2>4. PICK s : s = saved
    OBVIOUS
  <2>5. chain' = chain /\ ref' = ref /\ reviewed' = reviewed
    BY <1>2 DEF OnlyHook
  <2>6. NothingForgotten'
    BY <1>1, <2>3, <2>4, <2>5, SeenAfter
  <2> QED
    BY <1>1, <1>2, <2>2, <2>3, <2>6, FollowKeeps
<1>4. CASE Live(b)
  <2>1. PICK head \in Commits : head = ref[b] /\ Made(head)
    BY <1>1, <1>4, LiveTyped
  <2>2. PICK q : q = PlanStored(b, head)
    OBVIOUS
  <2>3. SoundPlan(q, b, head) /\ q.then # "clear" /\ q.goal \in {"none", "send"}
    BY <1>1, <2>1, <2>2, StoredSound
  <2>4. PICK s : s = q.saved
    OBVIOUS
  <2>5. PICK p : p = IF ref[b] # hook[b].head THEN [q EXCEPT !.goal = "none"] ELSE q
    OBVIOUS
  <2>6. Follow(b, b, head, p)
    <3>1. \/ Follow(b, b, ref[b], [PlanStored(b, ref[b]) EXCEPT !.goal = "none"])
             /\ ref[b] # hook[b].head
          \/ Follow(b, b, ref[b], PlanStored(b, ref[b])) /\ ~(ref[b] # hook[b].head)
      BY <1>4 DEF PlanOfFlush
    <3> QED
      BY <2>1, <2>2, <2>5, <3>1
  <2>7. q \in [saved : {s}, range : SUBSET Commits, goal : {"none", "send"},
               then : {"keep", "advance"}]
    <3>1. q = Plan(q.saved, q.range, q.goal, q.then)
      BY <2>2 DEF PlanStored, Recovery, Plan
    <3> QED
      BY <2>3, <2>4, <3>1 DEF SoundPlan, Plan
  <2>8. p.saved = s /\ (p.goal # "none" => p = q)
    BY <2>5, <2>7
  <2>9. saved' = s
    BY <2>6, <2>8 DEF Follow
  <2>10. seen' = SeenIf(Loses(b, head))
    <3>1. seen' = IF Live(b) /\ Loses(b, ref[b])
                  THEN seen \cap UNION {Pending(n)' : n \in Names} ELSE seen
      BY <1>2 DEF SeenIf
    <3>2. seen' = IF Loses(b, head) THEN seen \cap UNION {Pending(n)' : n \in Names} ELSE seen
      BY <1>4, <2>1, <3>1
    <3> QED
      BY <3>2 DEF SeenIf
  <2>11. NothingForgotten' /\ seen' \in SUBSET Commits
    BY <1>2, <2>1, <2>2, <2>4, <2>9, <2>10, StoredSeen
  <2>12. Table(p.saved)
    BY <2>3, <2>4, <2>8 DEF SoundPlan
  <2>13. p.goal # "none" => SoundPlan(p, b, head) /\ p.goal # "schedule" /\ p.then # "clear"
    BY <2>3, <2>8
  <2> QED
    BY <1>1, <1>2, <2>1, <2>6, <2>11, <2>12, <2>13, FollowKeeps
<1> QED
  BY <1>3, <1>4
(* What a step that leaves git and the state file alone has to show.           *)
LEMMA HooksOnly ==
  ASSUME BatchInv, OnlyHook, UNCHANGED <<saved, seen>>, reviewed \subseteq reviewed',
         hook' \in [Hooks -> HookRow], holder' \in Hooks \cup {Nobody},
         timer' \in [Names -> Commits \cup {NoCommit}],
         asked' \in [Names -> Commits \cup {NoCommit}], reviewed' \in SUBSET Commits,
         mishaps' = mishaps \/ Mishap,
         \A k \in Hooks : HookInv(k)'
  PROVE  BatchInv'
<1>1. PTypeOK /\ Git /\ Table(saved) /\ NothingForgotten
  BY DEF BatchInv
<1>2. /\ chain' = chain /\ ref' = ref /\ cur' = cur /\ batching' = batching /\ pushed' = pushed
      /\ moves' = moves /\ saved' = saved /\ seen' = seen
  BY DEF OnlyHook
<1>3. mishaps' \in 0 .. MaxMishaps
  BY <1>1, PostCommitAssumption DEF PTypeOK, Mishap
<1>4. PTypeOK'
  BY <1>1, <1>2, <1>3 DEF PTypeOK, Live
<1>5. Git' /\ Table(saved)'
  BY <1>1, <1>2 DEF Git, Tree, Refs, Made, Live, Table
<1>6. PICK s : s = saved
  OBVIOUS
<1>7. NothingForgotten'
  BY <1>1, <1>2, <1>6, SeenAfter
<1> QED
  BY <1>4, <1>5, <1>7 DEF BatchInv

(* A hook that such a step leaves alone.                                       *)
LEMMA HookAlone ==
  ASSUME BatchInv, OnlyHook, UNCHANGED saved, reviewed \subseteq reviewed', NEW k \in Hooks,
         hook'[k] = hook[k], holder' = k <=> holder = k
  PROVE  HookInv(k)'
BY HookKept DEF OnlyHook

(* A push goes on with its next flush.                                         *)
LEMMA FlushNext ==
  ASSUME BatchInv, NEW f \in hook[PushHook].todo, NextFlush(f)
  PROVE  BatchInv'
<1>1. PTypeOK /\ \A k \in Hooks : HookInv(k)
  BY DEF BatchInv
<1>2. PushHook \in Hooks /\ hook[PushHook] \in HookRow /\ hook \in [Hooks -> HookRow]
  BY <1>1, HookNames DEF PTypeOK
<1>3. f \in Flush /\ f.branch \in Names /\ f.head \in Commits
  BY <1>2 DEF HookRow, Flush
<1> DEFINE d == [hook[PushHook] EXCEPT !.pc = "lock", !.branch = f.branch, !.head = f.head,
                                       !.todo = @ \ {f}]
<1>4. /\ hook[PushHook].pc = "next" /\ OnlyHook /\ holder' = holder /\ saved' = saved
      /\ seen' = seen /\ reviewed' = reviewed /\ timer' = timer /\ asked' = asked
      /\ mishaps' = mishaps
  BY DEF NextFlush, HookAt
<1>5. hook' = [hook EXCEPT ![PushHook] = d]
  BY <1>2 DEF NextFlush
<1>6. d \in HookRow /\ d.pc = "lock" /\ d.branch = f.branch /\ d.head = f.head
      /\ d.todo \subseteq hook[PushHook].todo /\ d.then = hook[PushHook].then
  BY <1>2, <1>3 DEF HookRow
<1> HIDE DEF d
<1>7. /\ hook' \in [Hooks -> HookRow] /\ hook'[PushHook] = d
      /\ \A k \in Hooks : k # PushHook => hook'[k] = hook[k]
  BY <1>2, <1>5, <1>6
<1>8. \A k \in Hooks : k # PushHook => HookInv(k)'
  BY <1>4, <1>7, HookAlone
<1>9. HookInv(PushHook)'
  <2>1. HookInv(PushHook)
    BY <1>1, <1>2
  <2>2. hook[PushHook].then = "keep" /\ holder # PushHook /\ Made(f.head)
        /\ \A g \in hook[PushHook].todo : Made(g.head)
    BY <1>4, <2>1 DEF HookInv, Holding
  <2>3. chain' = chain
    BY <1>4 DEF OnlyHook
  <2> QED
    BY <1>3, <1>4, <1>6, <1>7, <2>2, <2>3 DEF HookInv, Made
<1> QED
  BY <1>1, <1>4, <1>7, <1>8, <1>9, HooksOnly DEF PTypeOK

(* A push is over.                                                             *)
LEMMA PushOver ==
  ASSUME BatchInv, PushEnds
  PROVE  BatchInv'
<1>1. PTypeOK /\ Git /\ Table(saved) /\ NothingForgotten /\ \A k \in Hooks : HookInv(k)
  BY DEF BatchInv
<1>2. PushHook \in Hooks /\ hook[PushHook] \in HookRow /\ hook \in [Hooks -> HookRow]
      /\ NoHook \in HookRow
  BY <1>1, HookNames, EndedTyped DEF PTypeOK
<1>3. /\ chain' = chain /\ ref' = ref /\ cur' = cur /\ batching' = batching /\ saved' = saved
      /\ holder' = holder /\ timer' = timer /\ asked' = asked /\ seen' = seen
      /\ reviewed' = reviewed /\ moves' = moves /\ mishaps' = mishaps
      /\ pushed' = pushed \cup hook[PushHook].due /\ hook[PushHook].pc = "next"
      /\ hook' = [hook EXCEPT ![PushHook] = NoHook]
  BY DEF PushEnds, HookAt
<1>4. /\ hook' \in [Hooks -> HookRow] /\ hook'[PushHook] = NoHook
      /\ \A k \in Hooks : k # PushHook => hook'[k] = hook[k]
  BY <1>2, <1>3
<1>5. \A k \in Hooks : k # PushHook => HookInv(k)'
  BY <1>3, <1>4, HookKept
<1>6. HookInv(PushHook)'
  <2>1. holder' # PushHook
    BY <1>1, <1>2, <1>3 DEF HookInv, Holding
  <2> QED
    BY <1>2, <1>4, <2>1, HookGone
<1>7. PTypeOK'
  <2>1. pushed' \in SUBSET Commits
    BY <1>1, <1>2, <1>3 DEF PTypeOK, HookRow
  <2> QED
    BY <1>1, <1>3, <1>4, <2>1 DEF PTypeOK, Live
<1>8. Git' /\ Table(saved)'
  BY <1>1, <1>3 DEF Git, Tree, Refs, Made, Live, Table
<1>9. PICK s : s = saved
  OBVIOUS
<1>10. NothingForgotten'
  BY <1>1, <1>3, <1>9, SeenAfter
<1> QED
  BY <1>5, <1>6, <1>7, <1>8, <1>10 DEF BatchInv

(* A hook does not get the lock.                                               *)
LEMMA TimedOut ==
  ASSUME BatchInv, NEW k \in Hooks, LockTimeout(k)
  PROVE  BatchInv'
<1>1. PTypeOK /\ \A j \in Hooks : HookInv(j)
  BY DEF BatchInv
<1>2. hook[k] \in HookRow /\ hook \in [Hooks -> HookRow] /\ HookInv(k)
  BY <1>1 DEF PTypeOK
<1>3. /\ hook[k].pc = "lock" /\ OnlyHook /\ Mishap /\ holder' = holder /\ saved' = saved
      /\ seen' = seen /\ reviewed' = reviewed /\ timer' = timer /\ asked' = asked
  BY DEF LockTimeout, HookAt
<1>4. holder # k /\ hook[k].then = "keep" /\ \A f \in hook[k].todo : Made(f.head)
  BY <1>2, <1>3 DEF HookInv, Holding
<1>5. chain' = chain
  BY <1>3 DEF OnlyHook
<1>6. PICK d \in HookRow : /\ hook' = [hook EXCEPT ![k] = d] /\ d.then = "keep"
                           /\ d.pc \in {"idle", "next", "head"} /\ d.todo \subseteq hook[k].todo
  <2>1. CASE k = CommitHook
    <3>1. hook' = [hook EXCEPT ![k] = [hook[k] EXCEPT !.pc = "head"]]
      BY <1>2, <2>1 DEF LockTimeout, HookGoTo
    <3>2. [hook[k] EXCEPT !.pc = "head"] \in HookRow
          /\ [hook[k] EXCEPT !.pc = "head"].then = "keep"
          /\ [hook[k] EXCEPT !.pc = "head"].pc = "head"
          /\ [hook[k] EXCEPT !.pc = "head"].todo = hook[k].todo
      BY <1>2, <1>4 DEF HookRow
    <3> QED
      BY <3>1, <3>2
  <2>2. CASE k # CommitHook
    <3>1. hook' = [hook EXCEPT ![k] = Ended(k)]
      BY <2>2 DEF LockTimeout, Ends
    <3> QED
      BY <1>2, <3>1, EndedTyped
  <2> QED
    BY <2>1, <2>2
<1>7. /\ hook' \in [Hooks -> HookRow] /\ hook'[k] = d
      /\ \A j \in Hooks : j # k => hook'[j] = hook[j]
  BY <1>2, <1>6
<1>8. \A j \in Hooks : j # k => HookInv(j)'
  BY <1>3, <1>7, HookAlone
<1>9. HookInv(k)'
  BY <1>3, <1>4, <1>5, <1>6, <1>7 DEF HookInv, Made
<1> QED
  BY <1>1, <1>3, <1>7, <1>8, <1>9, HooksOnly DEF PTypeOK

(* A hook's request is made or not, or the hook is killed.                     *)
LEMMA HookGivesUp ==
  ASSUME BatchInv, NEW k \in Hooks, OnlyHook, NEW d \in HookRow, hook' = [hook EXCEPT ![k] = d],
         d.pc \in {"idle", "next"}, d.then = "keep", d.todo \subseteq hook[k].todo,
         Unlocked(k), UNCHANGED <<saved, timer, asked, seen>>, reviewed \subseteq reviewed',
         reviewed' \in SUBSET Commits, mishaps' = mishaps \/ Mishap
  PROVE  BatchInv'
<1>1. PTypeOK /\ HookInv(k) /\ hook \in [Hooks -> HookRow] /\ chain' = chain
  BY DEF BatchInv, PTypeOK, OnlyHook
<1>2. /\ hook' \in [Hooks -> HookRow] /\ hook'[k] = d
      /\ \A j \in Hooks : j # k => hook'[j] = hook[j]
  BY <1>1
<1>3. holder' \in Hooks \cup {Nobody} /\ holder' # k /\ \A j \in Hooks : j # k => (holder' = j <=> holder = j)
  BY <1>1, HookNames DEF Unlocked, PTypeOK
<1>4. \A j \in Hooks : j # k => HookInv(j)'
  BY <1>2, <1>3, HookAlone
<1>5. HookInv(k)'
  <2>1. \A f \in hook'[k].todo : Made(f.head)'
    BY <1>1, <1>2 DEF HookInv, Made
  <2> QED
    BY <1>2, <1>3, <2>1, HookRests
<1> QED
  BY <1>1, <1>2, <1>3, <1>4, <1>5, HooksOnly DEF PTypeOK
(* The daemon takes a batch on, or refuses, or is not reached.                 *)
LEMMA Scheduling ==
  ASSUME BatchInv, Schedule
  PROVE  BatchInv'
<1>1. PTypeOK /\ \A j \in Hooks : HookInv(j)
  BY DEF BatchInv
<1>2. /\ CommitHook \in Hooks /\ hook[CommitHook] \in HookRow /\ hook \in [Hooks -> HookRow]
      /\ NoHook \in HookRow /\ HookInv(CommitHook) /\ CommitHook \notin Names /\ Names \subseteq Hooks
      /\ CommitHook # Nobody
  BY <1>1, HookNames, EndedTyped DEF PTypeOK
<1>3. /\ hook[CommitHook].pc = "schedule" /\ OnlyHook /\ saved' = saved /\ seen' = seen
      /\ reviewed' = reviewed
  BY DEF Schedule, HookAt
<1>4. Owns(CommitHook)
  BY <1>2, <1>3 DEF HookInv
<1>5. PICK b \in Names, head \in Commits :
        /\ b = hook[CommitHook].branch /\ head = hook[CommitHook].head
        /\ holder = CommitHook /\ b \in Hooks /\ b # CommitHook
  BY <1>2, <1>4 DEF Owns
<1> DEFINE calm == [hook EXCEPT ![b] = NoHook]
           sends == [hook[CommitHook] EXCEPT !.pc = "send"]
<1>6. sends \in HookRow /\ sends.pc = "send" /\ sends.then = hook[CommitHook].then
      /\ sends.branch = b /\ sends.head = head /\ sends.range = hook[CommitHook].range
      /\ sends.todo = hook[CommitHook].todo
  BY <1>2, <1>5 DEF HookRow
<1>7. \/ /\ mishaps' = mishaps /\ Scheduled(b, head) /\ Unlocked(CommitHook)
         /\ hook' = [calm EXCEPT ![CommitHook] = NoHook]
      \/ /\ Mishap /\ Scheduled(b, head) /\ holder' = holder
         /\ hook' = [calm EXCEPT ![CommitHook].pc = "send"]
      \/ /\ Mishap /\ holder' = holder /\ timer' = timer /\ asked' = asked
         /\ hook' = [hook EXCEPT ![CommitHook].pc = "send"]
  BY <1>5 DEF Schedule, Works, HookGoTo
<1>8. calm \in [Hooks -> HookRow] /\ calm[b] = NoHook /\ calm[CommitHook] = hook[CommitHook]
      /\ \A j \in Hooks : j # b => calm[j] = hook[j]
  BY <1>2, <1>5
<1>9. Scheduled(b, head) => /\ timer' \in [Names -> Commits \cup {NoCommit}]
                            /\ asked' \in [Names -> Commits \cup {NoCommit}]
  BY <1>1, <1>5 DEF Scheduled, PTypeOK
<1> HIDE DEF calm, sends
<1>10. ASSUME hook' \in [Hooks -> HookRow], hook'[CommitHook] = sends, holder' = holder
       PROVE  HookInv(CommitHook)'
  <2>1. chain' = chain /\ ref' = ref
    BY <1>3 DEF OnlyHook
  <2>2. Owns(CommitHook)'
    BY <1>3, <1>4, <1>5, <1>6, <1>10, <2>1 DEF Owns, Made, Between, Comparable, OnChain, Live
  <2> QED
    BY <1>2, <1>3, <1>6, <1>10, <2>1, <2>2 DEF HookInv, Holding, Made
<1>11. ASSUME hook'[b] = NoHook, holder' \in {Nobody, CommitHook} PROVE HookInv(b)'
  <2>1. holder' # b
    BY <1>5, <1>11, HookNames
  <2> QED
    BY <1>5, <1>11, <2>1, HookGone
<1>12. \A j \in Hooks : holder # j \/ j = CommitHook
  BY <1>5
<1>13. CASE /\ mishaps' = mishaps /\ Scheduled(b, head) /\ Unlocked(CommitHook)
            /\ hook' = [calm EXCEPT ![CommitHook] = NoHook]
  <2>1. holder' = Nobody
    BY <1>5, <1>13 DEF Unlocked
  <2>2. /\ hook' \in [Hooks -> HookRow] /\ hook'[CommitHook] = NoHook /\ hook'[b] = NoHook
        /\ \A j \in Hooks : j # b /\ j # CommitHook => hook'[j] = hook[j]
    BY <1>2, <1>5, <1>8, <1>13
  <2>3. HookInv(CommitHook)'
    BY <1>2, <2>1, <2>2, HookGone
  <2>4. \A j \in Hooks : j # b /\ j # CommitHook => HookInv(j)'
    BY <1>3, <1>12, <2>1, <2>2, HookAlone, HookNames
  <2>5. HookInv(b)'
    BY <1>11, <2>1, <2>2
  <2> QED
    <3>1. \A j \in Hooks : HookInv(j)'
      BY <2>3, <2>4, <2>5
    <3>2. holder' \in Hooks \cup {Nobody} /\ reviewed' \in SUBSET Commits
      BY <1>1, <1>3, <2>1 DEF PTypeOK
    <3> QED
      BY <1>3, <1>9, <1>13, <2>2, <3>1, <3>2, HooksOnly
<1>14. CASE /\ Mishap /\ Scheduled(b, head) /\ holder' = holder
            /\ hook' = [calm EXCEPT ![CommitHook].pc = "send"]
  <2>1. hook' = [calm EXCEPT ![CommitHook] = sends]
    BY <1>2, <1>8, <1>14 DEF sends
  <2>2. /\ hook' \in [Hooks -> HookRow] /\ hook'[CommitHook] = sends /\ hook'[b] = NoHook
        /\ \A j \in Hooks : j # b /\ j # CommitHook => hook'[j] = hook[j]
    BY <1>2, <1>5, <1>6, <1>8, <2>1
  <2>3. HookInv(CommitHook)'
    BY <1>10, <1>14, <2>2
  <2>4. \A j \in Hooks : j # b /\ j # CommitHook => HookInv(j)'
    BY <1>3, <1>14, <2>2, HookAlone
  <2>5. HookInv(b)'
    BY <1>5, <1>11, <1>14, <2>2
  <2> QED
    <3>1. \A j \in Hooks : HookInv(j)'
      BY <2>3, <2>4, <2>5
    <3>2. holder' \in Hooks \cup {Nobody} /\ reviewed' \in SUBSET Commits
      BY <1>1, <1>3, <1>14 DEF PTypeOK
    <3> QED
      BY <1>3, <1>9, <1>14, <2>2, <3>1, <3>2, HooksOnly
<1>15. CASE /\ Mishap /\ holder' = holder /\ timer' = timer /\ asked' = asked
            /\ hook' = [hook EXCEPT ![CommitHook].pc = "send"]
  <2>1. hook' = [hook EXCEPT ![CommitHook] = sends]
    BY <1>2, <1>15 DEF sends
  <2>2. /\ hook' \in [Hooks -> HookRow] /\ hook'[CommitHook] = sends
        /\ \A j \in Hooks : j # CommitHook => hook'[j] = hook[j]
    BY <1>2, <1>6, <2>1
  <2>3. HookInv(CommitHook)'
    BY <1>10, <1>15, <2>2
  <2>4. \A j \in Hooks : j # CommitHook => HookInv(j)'
    BY <1>3, <1>15, <2>2, HookAlone
  <2> QED
    BY <1>1, <1>3, <1>15, <2>2, <2>3, <2>4, HooksOnly DEF PTypeOK
<1> QED
  BY <1>7, <1>13, <1>14, <1>15

(* The timer of a branch fires.                                                *)
LEMMA Fired ==
  ASSUME BatchInv, NEW b \in Names, Fire(b)
  PROVE  BatchInv'
<1> DEFINE d == [NoHook EXCEPT !.pc = "lock", !.head = timer[b]]
<1>1. PTypeOK /\ \A j \in Hooks : HookInv(j)
  BY DEF BatchInv
<1>2. b \in Hooks /\ hook \in [Hooks -> HookRow] /\ HookInv(b) /\ b # CommitHook /\ b # PushHook
  BY <1>1, HookNames DEF PTypeOK
<1>3. /\ hook[b].pc = "idle" /\ OnlyHook /\ saved' = saved /\ seen' = seen /\ reviewed' = reviewed
      /\ holder' = holder /\ asked' = asked /\ mishaps' = mishaps
      /\ timer' = [timer EXCEPT ![b] = NoCommit] /\ hook' = [hook EXCEPT ![b] = d]
  BY DEF Fire, Idle
<1>4. timer' \in [Names -> Commits \cup {NoCommit}] /\ timer[b] \in Commits \cup {NoCommit}
  BY <1>1, <1>3 DEF PTypeOK
<1>5. d \in HookRow /\ d.pc = "lock" /\ d.then = "keep" /\ d.todo = {}
  BY <1>4 DEF HookRow, NoHook
<1> HIDE DEF d
<1>6. /\ hook' \in [Hooks -> HookRow] /\ hook'[b] = d
      /\ \A j \in Hooks : j # b => hook'[j] = hook[j]
  BY <1>2, <1>3, <1>5
<1>7. \A j \in Hooks : j # b => HookInv(j)'
  BY <1>3, <1>6, HookAlone
<1>8. HookInv(b)'
  <2>1. holder' # b
    BY <1>2, <1>3 DEF HookInv, Holding
  <2> QED
    BY <1>2, <1>5, <1>6, <2>1 DEF HookInv
<1> QED
  BY <1>1, <1>3, <1>4, <1>6, <1>7, <1>8, HooksOnly DEF PTypeOK

(* A hook asks for a review of some commits.                                   *)
LEMMA Sent ==
  ASSUME BatchInv, NEW k \in Hooks, NEW range \in SUBSET Commits, Send(k, range), OnlyHook,
         UNCHANGED <<saved, timer, asked, seen>>, hook[k].pc \in {"send", "head"},
         hook[k].then # "keep" => hook[k].range \subseteq range
  PROVE  BatchInv'
<1>1. PTypeOK /\ HookInv(k) /\ hook \in [Hooks -> HookRow] /\ hook[k] \in HookRow
      /\ reviewed \in SUBSET Commits
  BY DEF BatchInv, PTypeOK
<1>2. Ended(k) \in HookRow /\ Ended(k).pc \in {"idle", "next"} /\ Ended(k).then = "keep"
      /\ Ended(k).todo \subseteq hook[k].todo
  BY <1>1, EndedTyped
<1>3. CASE mishaps' = mishaps /\ reviewed' = reviewed \cup range /\ HookGoTo(k, "advance")
           /\ holder' = holder
  <2> DEFINE d == [hook[k] EXCEPT !.pc = "advance"]
  <2>1. d \in HookRow /\ d.pc = "advance" /\ d.then = hook[k].then /\ d.branch = hook[k].branch
        /\ d.head = hook[k].head /\ d.range = hook[k].range /\ d.todo = hook[k].todo
    BY <1>1 DEF HookRow
  <2>2. hook' = [hook EXCEPT ![k] = d]
    BY <1>1, <1>3 DEF HookGoTo
  <2> HIDE DEF d
  <2>3. /\ hook' \in [Hooks -> HookRow] /\ hook'[k] = d
        /\ \A j \in Hooks : j # k => hook'[j] = hook[j]
    BY <1>1, <2>1, <2>2
  <2>4. chain' = chain /\ ref' = ref
    BY DEF OnlyHook
  <2>5. HookInv(k)'
    <3>1. hook[k].then # "keep" => Owns(k)
      BY <1>1 DEF HookInv
    <3>2. hook'[k].then # "keep" => Owns(k)'
      BY <1>3, <2>1, <2>3, <2>4, <3>1 DEF Owns, Made, Between, Comparable, OnChain, Live
    <3> QED
      BY <1>1, <1>3, <2>1, <2>3, <2>4, <3>2 DEF HookInv, Holding, Made
  <2>6. \A j \in Hooks : j # k => HookInv(j)'
    BY <1>3, <2>3, HookAlone
  <2> QED
    BY <1>1, <1>3, <2>3, <2>5, <2>6, HooksOnly DEF PTypeOK
<1>4. CASE Mishap /\ Ends(k) /\ Unlocked(k) /\ (reviewed' = reviewed \/ reviewed' = reviewed \cup range)
  BY <1>1, <1>2, <1>4, HookGivesUp DEF Ends
<1> QED
  BY <1>3, <1>4 DEF Send, Works

(* A hook's request, of a batch or of the head alone.                          *)
LEMMA Enqueued ==
  ASSUME BatchInv, NEW k \in Hooks, Enqueue(k)
  PROVE  BatchInv'
<1>1. PTypeOK /\ HookInv(k) /\ hook[k] \in HookRow /\ OnlyHook
      /\ UNCHANGED <<saved, timer, asked, seen>>
  BY DEF BatchInv, PTypeOK, Enqueue
<1>2. CASE hook[k].pc = "send" /\ Send(k, hook[k].range)
  <2>1. hook[k].range \in SUBSET Commits
    BY <1>1 DEF HookRow
  <2> QED
    BY <1>1, <1>2, <2>1, Sent
<1>3. CASE hook[k].pc = "head" /\ Send(k, {ref[cur]})
  <2>1. PICK r \in Commits : r = ref[cur]
    BY <1>1 DEF PTypeOK, Live
  <2>2. hook[k].then # "keep" => hook[k].range = {}
    BY <1>1, <1>3 DEF HookInv, Owns
  <2>3. Send(k, {r})
    BY <1>3, <2>1
  <2>4. {r} \in SUBSET Commits
    OBVIOUS
  <2> QED
    BY <1>1, <1>3, <2>2, <2>3, <2>4, Sent
<1> QED
  BY <1>2, <1>3 DEF Enqueue, HookAt

(* A hook dies.                                                                *)
LEMMA Died ==
  ASSUME BatchInv, NEW k \in Hooks, Killed(k)
  PROVE  BatchInv'
<1>1. NoHook \in HookRow /\ NoHook.pc = "idle" /\ NoHook.then = "keep" /\ NoHook.todo = {}
      /\ reviewed \in SUBSET Commits
  BY EndedTyped DEF BatchInv, PTypeOK
<1> QED
  BY <1>1, HookGivesUp DEF Killed

(* The daemon is gone, with its timers and its flushes.                        *)
LEMMA Restarted ==
  ASSUME BatchInv, DaemonRestarts
  PROVE  BatchInv'
<1>1. PTypeOK /\ (\A j \in Hooks : HookInv(j)) /\ hook \in [Hooks -> HookRow] /\ NoHook \in HookRow
  BY HookNames, EndedTyped DEF BatchInv, PTypeOK
<1>2. /\ Mishap /\ OnlyHook /\ UNCHANGED <<saved, asked, seen, reviewed>>
      /\ timer' = [b \in Names |-> NoCommit]
      /\ hook' = [k \in Hooks |-> IF k \in Names THEN NoHook ELSE hook[k]]
      /\ holder' = IF holder \in Names THEN Nobody ELSE holder
  BY DEF DaemonRestarts
<1>3. hook' \in [Hooks -> HookRow] /\ \A k \in Hooks : hook'[k] = IF k \in Names THEN NoHook ELSE hook[k]
  BY <1>1, <1>2
<1>4. ASSUME NEW k \in Hooks PROVE HookInv(k)'
  <2>1. CASE k \in Names
    <3>1. holder' # k
      BY <1>2, <2>1, HookNames
    <3> QED
      BY <1>3, <2>1, <3>1, HookGone
  <2>2. CASE k \notin Names
    BY <1>2, <1>3, <2>2, HookAlone, HookNames
  <2> QED
    BY <2>1, <2>2
<1>5. holder' \in Hooks \cup {Nobody} /\ timer' \in [Names -> Commits \cup {NoCommit}]
  BY <1>1, <1>2 DEF PTypeOK
<1> QED
  BY <1>1, <1>2, <1>3, <1>4, <1>5, HooksOnly DEF PTypeOK
(* What an entry is moved by was reviewed, and the rest of it stays pending.   *)
LEMMA AdvancedEntry ==
  ASSUME BatchInv, NEW k \in Hooks, hook[k].pc = "advance", hook[k].then # "keep",
         NEW b, NEW head, b = hook[k].branch, head = hook[k].head, NEW s,
         \/ hook[k].then = "clear" /\ s = [saved EXCEPT ![b] = NoEntry]
         \/ /\ hook[k].then = "advance"
            /\ s = [saved EXCEPT ![b] = [ckpt |-> head, tip |-> TipAfter(@, head)]]
  PROVE  /\ Table(s)
         /\ ~(hook[k].then = "clear" /\ ~OnChain(saved[b].tip, head)) =>
              AllPending(saved) \subseteq AllPending(s) \cup reviewed
<1> DEFINE e == saved[b]
<1>1. Git /\ Tree /\ Table(saved) /\ HookInv(k)
  BY DEF BatchInv, Git
<1>2. Owns(k)
  BY <1>1 DEF HookInv
<1>3. /\ b \in Names /\ head \in Commits /\ Made(head) /\ hook[k].range \subseteq reviewed
      /\ e # NoEntry => hook[k].range = Between(e.ckpt, head) /\ Comparable(e.tip, head)
      /\ hook[k].then = "clear" => Live(b) /\ ref[b] = head
  BY <1>2 DEF Owns
<1>4. e # NoEntry => /\ e.ckpt \in Commits /\ Made(e.ckpt) /\ e.tip \in Commits /\ Made(e.tip)
                     /\ Recorded(e) = Between(e.ckpt, e.tip)
  BY <1>1, <1>3, EntryTyped
<1>5. saved \in [Names -> Entry \cup {NoEntry}]
  BY <1>1 DEF Table
<1>6. \A n \in Names : n # b => s[n] = saved[n]
  BY <1>5
<1>7. ASSUME Table(s),
             e # NoEntry => PendingIn(saved, b) \subseteq PendingIn(s, b) \cup Between(e.ckpt, head)
      PROVE  AllPending(saved) \subseteq AllPending(s) \cup reviewed
  <2>1. SUFFICES ASSUME NEW x \in AllPending(saved), x \notin reviewed PROVE x \in AllPending(s)
    OBVIOUS
  <2>2. PICK n \in Names : x \in PendingIn(saved, n)
    BY <2>1 DEF AllPending
  <2>3. CASE n # b
    <3>1. PendingIn(s, n) = PendingIn(saved, n)
      BY <1>6, <2>3 DEF PendingIn
    <3> QED
      BY <2>2, <3>1 DEF AllPending
  <2>4. CASE n = b
    <3>1. e # NoEntry
      BY <2>2, <2>4 DEF PendingIn, Recorded
    <3>2. x \in PendingIn(s, b)
      BY <1>3, <1>7, <2>1, <2>2, <2>4, <3>1
    <3> QED
      BY <1>3, <3>2 DEF AllPending
  <2> QED
    BY <2>3, <2>4
<1>8. CASE hook[k].then = "clear" /\ s = [saved EXCEPT ![b] = NoEntry]
  <2>1. s[b] = NoEntry
    BY <1>3, <1>5, <1>8
  <2>2. Table(s)
    BY <1>1, <1>3, <1>5, <1>6, <1>8, <2>1 DEF Table
  <2>3. ASSUME OnChain(e.tip, head), e # NoEntry
        PROVE  PendingIn(saved, b) \subseteq Between(e.ckpt, head)
    <3>1. chain[e.tip] \subseteq chain[head]
      BY <1>1, <1>3, <2>3, OnTheChain DEF OnChain
    <3> QED
      BY <1>3, <1>4, <1>8, <2>3, <3>1 DEF PendingIn, Between
  <2> QED
    BY <1>7, <1>8, <2>2, <2>3
<1>9. CASE /\ hook[k].then = "advance"
           /\ s = [saved EXCEPT ![b] = [ckpt |-> head, tip |-> TipAfter(@, head)]]
  <2>1. PICK t : t = TipAfter(e, head)
    OBVIOUS
  <2>2. t \in Commits /\ Made(t)
    BY <1>3, <1>4, <2>1 DEF TipAfter
  <2>3. s = [saved EXCEPT ![b] = [ckpt |-> head, tip |-> t]]
    BY <1>3, <1>5, <1>9, <2>1
  <2>4. Table(s) /\ s[b] = [ckpt |-> head, tip |-> t]
    <3>1. Table([saved EXCEPT ![b] = [ckpt |-> head, tip |-> t]])
          /\ [saved EXCEPT ![b] = [ckpt |-> head, tip |-> t]][b] = [ckpt |-> head, tip |-> t]
      BY <1>1, <1>3, <2>2, PutEntry
    <3> QED
      BY <2>3, <3>1, Zenon
  <2>5. s[b] # NoEntry /\ s[b].ckpt = head /\ s[b].tip = t
    BY <1>3, <2>2, <2>4, NoEntryApart
  <2>6. Recorded(s[b]) = Between(head, t)
    BY <2>5 DEF Recorded
  <2>7. ASSUME e # NoEntry
        PROVE  PendingIn(saved, b) \subseteq PendingIn(s, b) \cup Between(e.ckpt, head)
    <3>1. Between(e.ckpt, e.tip) \subseteq Between(head, t) \cup Between(e.ckpt, head)
      <4>1. CASE OnChain(head, e.tip)
        <5>1. t = e.tip
          BY <2>1, <2>7, <4>1 DEF TipAfter
        <5> QED
          BY <5>1 DEF Between
      <4>2. CASE ~OnChain(head, e.tip)
        <5>1. OnChain(e.tip, head)
          BY <1>3, <2>7, <4>2 DEF Comparable
        <5>2. chain[e.tip] \subseteq chain[head]
          BY <1>1, <1>3, <5>1, OnTheChain DEF OnChain
        <5> QED
          BY <5>2 DEF Between
      <4> QED
        BY <4>1, <4>2
    <3>2. Live(b) => Between(e.ckpt, ref[b]) \subseteq Between(head, ref[b]) \cup Between(e.ckpt, head)
      BY DEF Between
    <3> QED
      BY <1>4, <2>5, <2>6, <2>7, <3>1, <3>2 DEF PendingIn
  <2> QED
    BY <1>7, <2>4, <2>7
<1> QED
  BY <1>8, <1>9

(* The checkpoint is moved past what was reviewed.                             *)
LEMMA Advanced ==
  ASSUME BatchInv, NEW k \in Hooks, Advance(k)
  PROVE  BatchInv'
<1>1. PTypeOK /\ Git /\ Table(saved) /\ NothingForgotten /\ (\A j \in Hooks : HookInv(j))
      /\ seen \in SUBSET Commits
  BY DEF BatchInv, PTypeOK
<1>2. hook \in [Hooks -> HookRow] /\ hook[k] \in HookRow /\ HookInv(k)
  BY <1>1 DEF PTypeOK
<1>3. PICK b, head, s : b = hook[k].branch /\ head = hook[k].head /\ s = saved'
  OBVIOUS
<1>4. /\ hook[k].pc = "advance" /\ Unlocked(k) /\ OnlyHook
      /\ timer' = timer /\ asked' = asked /\ reviewed' = reviewed /\ mishaps' = mishaps
      /\ seen' = SeenIf(hook[k].then = "clear" /\ ~OnChain(saved[b].tip, head))
      /\ saved' = CASE hook[k].then = "keep"  -> saved
                    [] hook[k].then = "clear" -> [saved EXCEPT ![b] = NoEntry]
                    [] OTHER -> [saved EXCEPT ![b] = [ckpt |-> head, tip |-> TipAfter(@, head)]]
  BY <1>3 DEF Advance, HookAt
<1>5. hook[k].then \in {"keep", "advance", "clear"}
  BY <1>2 DEF HookRow
<1>6. \/ hook[k].then = "keep" /\ s = saved
      \/ hook[k].then = "clear" /\ s = [saved EXCEPT ![b] = NoEntry]
      \/ /\ hook[k].then = "advance"
         /\ s = [saved EXCEPT ![b] = [ckpt |-> head, tip |-> TipAfter(@, head)]]
  BY <1>3, <1>4, <1>5
<1>7. /\ Table(s)
      /\ ~(hook[k].then = "clear" /\ ~OnChain(saved[b].tip, head)) =>
           AllPending(saved) \subseteq AllPending(s) \cup reviewed
  <2>1. CASE hook[k].then = "keep" /\ s = saved
    BY <1>1, <2>1
  <2>2. CASE hook[k].then # "keep"
    BY <1>3, <1>4, <1>6, <2>2, AdvancedEntry
  <2> QED
    BY <1>6, <2>1, <2>2
<1>8. Ended(k) \in HookRow /\ Ended(k).then = "keep" /\ Ended(k).pc \in {"idle", "next"}
      /\ Ended(k).todo \subseteq hook[k].todo
  BY <1>2, EndedTyped
<1>9. /\ hook' \in [Hooks -> HookRow]
      /\ \A j \in Hooks : j # k => /\ hook'[j].pc = hook[j].pc /\ hook'[j].todo = hook[j].todo
                                   /\ hook'[j].branch = hook[j].branch /\ hook'[j].head = hook[j].head
                                   /\ hook'[j].range = hook[j].range /\ hook'[j].then = hook[j].then
      /\ /\ hook'[k].pc = Ended(k).pc /\ hook'[k].todo = Ended(k).todo
         /\ hook'[k].branch = Ended(k).branch /\ hook'[k].head = Ended(k).head
         /\ hook'[k].range = Ended(k).range /\ hook'[k].then = Ended(k).then
  BY <1>2, AdvanceStepped DEF Stepped
<1>10. /\ chain' = chain /\ ref' = ref /\ cur' = cur /\ batching' = batching /\ pushed' = pushed
       /\ moves' = moves
  BY <1>4 DEF OnlyHook
<1>11. holder' \in Hooks \cup {Nobody} /\ holder' # k
       /\ \A j \in Hooks : j # k => (holder' = j <=> holder = j)
  BY <1>1, <1>4, HookNames DEF Unlocked, PTypeOK
<1>12. hook[k].then # "keep" => holder = k
  BY <1>2 DEF HookInv, Owns
<1>13. \A j \in Hooks : j # k => HookInv(j)'
  <2>1. ASSUME NEW j \in Hooks, j # k PROVE HookInv(j)'
    <3>1. holder = j => holder' = j /\ saved' = saved
      BY <1>3, <1>6, <1>11, <1>12, <2>1
    <3> QED
      BY <1>4, <1>9, <1>10, <1>11, <2>1, <3>1, HookKept
  <2> QED
    BY <2>1
<1>14. HookInv(k)'
  <2>1. \A f \in hook'[k].todo : Made(f.head)'
    BY <1>2, <1>8, <1>9, <1>10 DEF HookInv, Made
  <2> QED
    BY <1>8, <1>9, <1>11, <2>1, HookRests
<1>15. seen' \in SUBSET Commits
  BY <1>1, <1>4 DEF SeenIf
<1>16. PTypeOK'
  BY <1>1, <1>3, <1>4, <1>7, <1>9, <1>10, <1>11, <1>15 DEF PTypeOK, Table, Entry, Live
<1>17. Git' /\ Table(saved)'
  BY <1>1, <1>3, <1>7, <1>10 DEF Git, Tree, Refs, Made, Live, Table
<1>18. NothingForgotten'
  <2>1. \A x \in seen' : \/ x \in UNION {Pending(n)' : n \in Names}
                         \/ x \in seen /\ AllPending(saved) \subseteq AllPending(s) \cup reviewed'
    BY <1>4, <1>7 DEF SeenIf
  <2> QED
    BY <1>1, <1>3, <1>4, <1>10, <2>1, SeenAfter
<1> QED
  BY <1>13, <1>14, <1>16, <1>17, <1>18 DEF BatchInv
-------------------------------------------------------------------------------
(* The user's steps.                                                           *)

(* A commit on top of another, or in the place of another, keeps the history a *)
(* tree.                                                                       *)
LEMMA Grown ==
  ASSUME Tree, NEW c \in Commits, NextCommit(c), NEW h \in Commits, Made(h), NEW below,
         below = chain[h] \/ (below = chain[h] \ {h} /\ h # 0),
         chain' = [chain EXCEPT ![c] = below \cup {c}]
  PROVE  Tree' /\ Made(c)' /\ \A d \in Commits : Made(d) => chain'[d] = chain[d]
<1>1. ~Made(c) /\ (\A d \in Commits : d < c => Made(d)) /\ Commits \subseteq Nat
  BY PostCommitAssumption DEF NextCommit, Commits
<1>2. chain \in [Commits -> SUBSET Commits]
  BY DEF Tree
<1>3. h \in chain[h] /\ 0 \in below /\ below \in SUBSET chain[h] /\ 0 \in Commits
  BY DEF Tree
<1>4. chain' \in [Commits -> SUBSET Commits] /\ chain'[c] = below \cup {c}
      /\ \A d \in Commits : d # c => chain'[d] = chain[d]
  BY <1>2, <1>3
<1>5. \A d \in Commits : Made(d) => d # c /\ chain'[d] = chain[d] /\ d < c
  <2>1. ASSUME NEW d \in Commits, Made(d), c <= d PROVE FALSE
    BY <1>1, <2>1 DEF Tree
  <2> QED
    BY <1>1, <1>4, <2>1
<1>6. ASSUME NEW d \in below
      PROVE  d \in Commits /\ Made(d) /\ d < c /\ chain[d] = {e \in below : e <= d}
  <2>1. d \in chain[h] /\ d \in Commits /\ Made(d) /\ chain[d] = {e \in chain[h] : e <= d} /\ d <= h
    BY <1>2, <1>3, <1>6 DEF Tree
  <2>2. \A e \in chain[h] : e <= d => e \in below
    <3>1. CASE below = chain[h]
      BY <3>1
    <3>2. CASE below = chain[h] \ {h} /\ h # 0
      <4>1. d # h /\ d \in Nat /\ h \in Nat
        BY <1>1, <1>6, <2>1, <3>2
      <4>2. ~(h <= d)
        BY <2>1, <4>1
      <4> QED
        BY <3>2, <4>2
    <3> QED
      BY <3>1, <3>2
  <2> QED
    BY <1>3, <1>5, <2>1, <2>2
<1>7. Made(c)'
  BY <1>4 DEF Made
<1>8. ASSUME NEW d \in Commits, Made(d)'
      PROVE  /\ d \in chain'[d] /\ 0 \in chain'[d]
             /\ \A x \in chain'[d] : x <= d /\ Made(x)' /\ chain'[x] = {e \in chain'[d] : e <= x}
             /\ \A x \in Commits : x <= d => Made(x)'
  <2>1. CASE d = c
    <3>1. ASSUME NEW x \in below
          PROVE  x <= c /\ Made(x)' /\ chain'[x] = {e \in chain'[c] : e <= x}
      <4>1. x \in Commits /\ Made(x) /\ x < c /\ chain[x] = {e \in below : e <= x}
            /\ chain'[x] = chain[x] /\ x \in Nat /\ c \in Nat
        BY <1>1, <1>5, <1>6, <3>1
      <4>2. ~(c <= x) /\ x <= c
        BY <4>1
      <4> QED
        BY <1>4, <4>1, <4>2 DEF Made
    <3>2. c <= c /\ {e \in chain'[c] : e <= c} = chain'[c]
      <4>1. \A e \in chain'[c] : e <= c
        BY <1>1, <1>4, <3>1
      <4> QED
        BY <1>1, <4>1
    <3>3. \A x \in Commits : x <= c => Made(x)'
      <4>1. \A x \in Commits : x <= c => x = c \/ x < c
        BY <1>1
      <4> QED
        BY <1>1, <1>5, <1>7, <4>1 DEF Made
    <3> QED
      BY <1>3, <1>4, <1>7, <2>1, <3>1, <3>2, <3>3
  <2>2. CASE d # c
    <3>1. Made(d) /\ chain'[d] = chain[d]
      BY <1>4, <1>8, <2>2 DEF Made
    <3>2. \A x \in Commits : Made(x) => Made(x)' /\ chain'[x] = chain[x]
      BY <1>5 DEF Made
    <3>3. \A x \in chain[d] : x \in Commits /\ x <= d /\ Made(x) /\ chain[x] = {e \in chain[d] : e <= x}
      BY <1>2, <3>1 DEF Tree
    <3>4. d \in chain[d] /\ 0 \in chain[d] /\ \A x \in Commits : x <= d => Made(x)
      BY <3>1 DEF Tree
    <3> QED
      BY <3>1, <3>2, <3>3, <3>4
  <2> QED
    BY <2>1, <2>2
<1> QED
  BY <1>4, <1>5, <1>7, <1>8 DEF Tree

(* A hook's row as it was, but for what a push is held to.                     *)
Rests(k) ==
  /\ hook'[k].pc = hook[k].pc /\ hook'[k].todo = hook[k].todo
  /\ hook'[k].branch = hook[k].branch /\ hook'[k].head = hook[k].head
  /\ hook'[k].range = hook[k].range /\ hook'[k].then = hook[k].then

(* What a step of the user has to show.                                        *)
LEMMA UserStep ==
  ASSUME BatchInv, OnlyGit, Tree', Refs', cur' \in Names, Live(cur)', moves' \in 0 .. MaxMoves,
         \A c \in Commits : Made(c) => chain'[c] = chain[c],
         hook[CommitHook].pc # "idle" => \A n \in Names : Live(n) => ref'[n] = ref[n],
         hook' \in [Hooks -> HookRow],
         \A k \in Hooks : hook'[k] = hook[k] \/ Rests(k) \/ HookInv(k)'
  PROVE  BatchInv'
<1>1. PTypeOK /\ Table(saved)
  BY DEF BatchInv
<1>2. /\ batching' = batching /\ saved' = saved /\ holder' = holder /\ timer' = timer
      /\ reviewed' = reviewed /\ pushed' = pushed /\ mishaps' = mishaps
      /\ seen' = seen \cap UNION {Kept(n)' : n \in Names}
      /\ asked' = [b \in Names |-> IF ref'[b] = ref[b] THEN asked[b] ELSE NoCommit]
  BY DEF OnlyGit
<1>3. PTypeOK'
  BY <1>1, <1>2 DEF PTypeOK, Tree, Refs
<1>4. \A k \in Hooks : HookInv(k)'
  <2>1. ASSUME NEW k \in Hooks, hook'[k] = hook[k] \/ Rests(k) PROVE HookInv(k)'
    <3>1. k = CommitHook /\ hook[k].pc # "idle" => \A n \in Names : Live(n) => ref'[n] = ref[n]
      OBVIOUS
    <3>2. Rests(k)
      BY <2>1 DEF Rests
    <3> QED
      BY <1>2, <3>1, <3>2, HookKept DEF Rests
  <2> QED
    BY <2>1
<1>5. Table(saved)'
  <2>1. \A c \in Commits : Made(c) => Made(c)'
    BY DEF Made
  <2>2. \A n \in Names : saved[n] # NoEntry => saved[n].ckpt \in Commits /\ saved[n].tip \in Commits
                                               /\ Made(saved[n].ckpt) /\ Made(saved[n].tip)
    BY <1>1, EntryTyped
  <2> QED
    BY <1>1, <1>2, <2>1, <2>2 DEF Table
<1>6. NothingForgotten'
  <2>1. \A n \in Names : Kept(n)' \subseteq Pending(n)'
    BY DEF Kept, Pending
  <2> QED
    BY <1>2, <2>1 DEF NothingForgotten
<1> QED
  BY <1>3, <1>4, <1>5, <1>6 DEF BatchInv, Git

(* The branches after one of them was moved.                                   *)
LEMMA RefPut ==
  ASSUME Refs, NEW n \in Names, NEW c \in Commits, chain' = chain, Made(c),
         ref' = [ref EXCEPT ![n] = c]
  PROVE  Refs' /\ Live(n)'
<1>1. NoCommit \notin Commits
  BY NoEntryApart
<1> QED
  BY <1>1 DEF Refs, Live, Made

(* A hook that is idle does not hold the lock, and another starts in its place.*)
LEMMA HookStarts ==
  ASSUME BatchInv, NEW k \in Hooks, hook[k].pc = "idle", holder' = holder,
         NEW d, hook'[k] = d, d.then = "keep",
         d.pc = "next" \/ (d.pc = "lock" /\ k # PushHook), \A f \in d.todo : Made(f.head)'
  PROVE  HookInv(k)'
BY DEF BatchInv, HookInv, Holding

(* A commit, amended or not, starts its hook.                                  *)
LEMMA Committed ==
  ASSUME BatchInv, NEW c \in Commits, NEW below, CommitOn(c, below), moves' \in 0 .. MaxMoves,
         below = chain[ref[cur]] \/ (below = chain[ref[cur]] \ {ref[cur]} /\ ref[cur] # 0)
  PROVE  BatchInv'
<1> DEFINE d == [NoHook EXCEPT !.pc = "lock"]
<1>1. PTypeOK /\ Tree /\ Refs /\ cur \in Names /\ Live(cur) /\ hook \in [Hooks -> HookRow]
  BY DEF BatchInv, PTypeOK, Git
<1>2. /\ hook[CommitHook].pc = "idle" /\ NextCommit(c) /\ cur' = cur /\ OnlyGit
      /\ chain' = [chain EXCEPT ![c] = below \cup {c}] /\ ref' = [ref EXCEPT ![cur] = c]
      /\ hook' = [hook EXCEPT ![CommitHook] = d]
  BY DEF CommitOn, Idle, StartHook
<1>3. PICK h \in Commits : h = ref[cur] /\ Made(h)
  BY <1>1, LiveTyped
<1>4. Tree' /\ Made(c)' /\ \A x \in Commits : Made(x) => chain'[x] = chain[x]
  BY <1>1, <1>2, <1>3, Grown
<1>5. Refs' /\ Live(cur)' /\ cur' \in Names
  <2>1. \A x \in Commits : Made(x) => Made(x)'
    BY <1>4 DEF Made
  <2>2. NoCommit \notin Commits
    BY NoEntryApart
  <2>3. ref' \in [Names -> Commits \cup {NoCommit}] /\ ref'[cur] = c
        /\ \A n \in Names : n # cur => ref'[n] = ref[n]
    BY <1>1, <1>2 DEF Refs
  <2> QED
    BY <1>1, <1>2, <1>4, <2>1, <2>2, <2>3 DEF Refs, Live
<1>6. d \in HookRow /\ d.pc = "lock" /\ d.then = "keep" /\ d.todo = {}
  BY DEF NoHook, HookRow
<1>7. CommitHook \in Hooks /\ CommitHook # PushHook
  BY HookNames
<1> HIDE DEF d
<1>8. /\ hook' \in [Hooks -> HookRow] /\ hook'[CommitHook] = d
      /\ \A k \in Hooks : k # CommitHook => hook'[k] = hook[k]
  BY <1>1, <1>2, <1>6, <1>7
<1>9. HookInv(CommitHook)'
  <2>1. holder' = holder
    BY <1>2 DEF OnlyGit
  <2>2. PICK x : x = d
    OBVIOUS
  <2> QED
    BY <1>2, <1>6, <1>7, <1>8, <2>1, <2>2, HookStarts
<1> QED
  BY <1>2, <1>4, <1>5, <1>8, <1>9, UserStep

(* The heads of a push are commits.                                            *)
LEMMA HeadsTyped ==
  ASSUME Git, NEW named \in SUBSET Names, NEW tags \in SUBSET Commits,
         \A b \in named : Live(b), \A c \in tags : Made(c)
  PROVE  \A h \in {ref[b] : b \in named} \cup tags : h \in Commits /\ Made(h)
<1>1. \A b \in named : ref[b] \in Commits /\ Made(ref[b])
  BY LiveTyped DEF Git
<1> QED
  BY <1>1

(* How far an entry is taken along is a commit below a pushed head.            *)
LEMMA CarriedTyped ==
  ASSUME Git, Table(saved), NEW heads, \A h \in heads : h \in Commits /\ Made(h), NEW named,
         NEW n \in Names, saved[n] # NoEntry
  PROVE  /\ \A t \in Tips(n, heads, named) : t \in Commits /\ Made(t)
         /\ \A c \in Carried(n, heads, named) : c \in Commits /\ Made(c)
<1>1. saved[n].tip \in Commits /\ Made(saved[n].tip)
  BY EntryTyped
<1>2. Live(n) => ref[n] \in Commits /\ Made(ref[n])
  BY LiveTyped DEF Git
<1>3. \A t \in Tips(n, heads, named) : t \in Commits /\ Made(t)
  BY <1>1, <1>2 DEF Tips
<1>4. ASSUME NEW t \in Tips(n, heads, named), NEW h \in heads
      PROVE  Fork(t, h) \in Commits /\ Made(Fork(t, h))
  <2>1. Fork(t, h) \in chain[h]
    BY <1>3, ForkIn DEF Git
  <2> QED
    BY <2>1, OnTheChain DEF Git
<1>5. ASSUME NEW c \in Carried(n, heads, named) PROVE c \in Commits /\ Made(c)
  <2>1. \E t \in Tips(n, heads, named) : \E h \in heads : c = Fork(t, h)
    BY DEF Carried
  <2> QED
    BY <1>4, <2>1
<1> QED
  BY <1>3, <1>5

(* The flushes a push plans.                                                   *)
Flushes(named, carriers, far) ==
  {[branch |-> b, head |-> ref[b], named |-> TRUE] : b \in named}
    \cup {[branch |-> n, head |-> far[n], named |-> FALSE] : n \in carriers}

(* They are flushes of commits that were made.                                 *)
LEMMA FlushesTyped ==
  ASSUME Git, Table(saved), NEW named \in SUBSET Names, \A b \in named : Live(b),
         NEW heads, \A h \in heads : h \in Commits /\ Made(h),
         NEW far, \A n \in Carriers(heads, named) : far[n] \in Furthest(n, heads, named)
  PROVE  \A f \in Flushes(named, Carriers(heads, named), far) : f \in Flush /\ Made(f.head)
<1>1. \A b \in named : ref[b] \in Commits /\ Made(ref[b])
  BY LiveTyped DEF Git
<1>2. ASSUME NEW n \in Carriers(heads, named)
      PROVE  n \in Names /\ far[n] \in Commits /\ Made(far[n])
  <2>1. n \in Names /\ saved[n] # NoEntry
    BY DEF Carriers
  <2>2. far[n] \in Carried(n, heads, named)
    BY DEF Furthest
  <2> QED
    BY <2>1, <2>2, CarriedTyped
<1> HIDE DEF Carriers
<1>3. \A b \in named : [branch |-> b, head |-> ref[b], named |-> TRUE] \in Flush
  BY <1>1 DEF Flush
<1>4. \A n \in Carriers(heads, named) : [branch |-> n, head |-> far[n], named |-> FALSE] \in Flush
  BY <1>2 DEF Flush
<1> QED
  BY <1>1, <1>2, <1>3, <1>4 DEF Flushes

(* The steps of a push: it names its heads, and chooses how far each entry is  *)
(* taken along.                                                                *)
LEMMA PushPlans ==
  ASSUME BatchInv, NEW named \in SUBSET Names, NEW tags \in SUBSET Commits, Push(named, tags)
  PROVE  LET heads == {ref[b] : b \in named} \cup tags IN
         /\ \A h \in heads : h \in Commits /\ Made(h)
         /\ \A b \in named : Live(b)
         /\ \E far : /\ \A n \in Carriers(heads, named) : far[n] \in Furthest(n, heads, named)
                     /\ hook' = [hook EXCEPT ![PushHook] =
                                   [NoHook EXCEPT !.pc = "next", !.due = Due(heads, named),
                                      !.todo = Flushes(named, Carriers(heads, named), far)]]
<1> DEFINE heads == {ref[b] : b \in named} \cup tags
<1>1. Git /\ (\A b \in named : Live(b)) /\ \A c \in tags : Made(c)
  BY DEF BatchInv, Push
<1>2. \A h \in heads : h \in Commits /\ Made(h)
  BY <1>1, HeadsTyped
<1>3. \E far \in [Carriers(heads, named) -> Commits] :
        /\ \A n \in Carriers(heads, named) : far[n] \in Furthest(n, heads, named)
        /\ hook' = [hook EXCEPT ![PushHook] =
                      [NoHook EXCEPT !.pc = "next", !.due = Due(heads, named),
                         !.todo = Flushes(named, Carriers(heads, named), far)]]
  BY Zenon DEF Push, Flushes
<1> QED
  BY <1>1, <1>2, <1>3

(* A push starts its hook.                                                     *)
LEMMA Pushing ==
  ASSUME BatchInv, NEW named \in SUBSET Names, NEW tags \in SUBSET Commits, Push(named, tags)
  PROVE  BatchInv'
<1>1. PTypeOK /\ Git /\ Tree /\ Refs /\ Table(saved) /\ hook \in [Hooks -> HookRow]
      /\ cur \in Names /\ Live(cur)
  BY DEF BatchInv, PTypeOK, Git
<1>2. hook[PushHook].pc = "idle" /\ Moves /\ chain' = chain /\ ref' = ref /\ cur' = cur /\ OnlyGit
  BY DEF Push, Idle
<1>3. PICK heads : heads = {ref[b] : b \in named} \cup tags
  OBVIOUS
<1>4. /\ \A h \in heads : h \in Commits /\ Made(h)
      /\ \A b \in named : Live(b)
      /\ \E far : /\ \A n \in Carriers(heads, named) : far[n] \in Furthest(n, heads, named)
                  /\ hook' = [hook EXCEPT ![PushHook] =
                                [NoHook EXCEPT !.pc = "next", !.due = Due(heads, named),
                                   !.todo = Flushes(named, Carriers(heads, named), far)]]
  BY <1>3, PushPlans
<1>5. PICK far : /\ \A n \in Carriers(heads, named) : far[n] \in Furthest(n, heads, named)
                 /\ hook' = [hook EXCEPT ![PushHook] =
                               [NoHook EXCEPT !.pc = "next", !.due = Due(heads, named),
                                  !.todo = Flushes(named, Carriers(heads, named), far)]]
  BY <1>4
<1>6. PICK due, todo : due = Due(heads, named) /\ todo = Flushes(named, Carriers(heads, named), far)
  OBVIOUS
<1>7. due \in SUBSET Commits
  <2>1. \A h \in heads : chain[h] \in SUBSET Commits
    BY <1>1, <1>4 DEF Tree
  <2>2. due \subseteq UNION {chain[h] : h \in heads}
    BY <1>6, Zenon DEF Due
  <2> QED
    BY <2>1, <2>2
<1>8. \A f \in todo : f \in Flush /\ Made(f.head)
  BY <1>1, <1>4, <1>5, <1>6, FlushesTyped
<1>9. PICK d : d = [NoHook EXCEPT !.pc = "next", !.due = due, !.todo = todo]
  OBVIOUS
<1>10. d \in HookRow /\ d.pc = "next" /\ d.then = "keep" /\ d.todo = todo
  BY <1>7, <1>8, <1>9 DEF NoHook, HookRow
<1>11. PushHook \in Hooks
  BY HookNames
<1>12. /\ hook' \in [Hooks -> HookRow] /\ hook'[PushHook] = d
       /\ \A k \in Hooks : k # PushHook => hook'[k] = hook[k]
  BY <1>1, <1>5, <1>6, <1>9, <1>10, <1>11
<1>13. HookInv(PushHook)'
  <2>1. holder' = holder
    BY <1>2 DEF OnlyGit
  <2>2. \A f \in d.todo : Made(f.head)'
    BY <1>2, <1>8, <1>10 DEF Made
  <2> QED
    BY <1>2, <1>10, <1>11, <1>12, <2>1, <2>2, HookStarts
<1>14. Tree' /\ Refs' /\ Live(cur)' /\ cur' \in Names
  BY <1>1, <1>2 DEF Tree, Refs, Live, Made
<1>15. moves' \in 0 .. MaxMoves
  BY <1>1, <1>2, PostCommitAssumption DEF Moves, PTypeOK
<1> QED
  BY <1>2, <1>12, <1>13, <1>14, <1>15, UserStep

(* A move of branches that no hook takes part in.                              *)
LEMMA BranchesMove ==
  ASSUME BatchInv, OnlyGit, Moves, chain' = chain, Refs', cur' \in Names, Live(cur)',
         hook' = hook \/ (hook' \in [Hooks -> HookRow] /\ \A k \in Hooks : Rests(k)),
         Alone \/ \A n \in Names : Live(n) => ref'[n] = ref[n]
  PROVE  BatchInv'
<1>1. PTypeOK /\ Tree /\ hook \in [Hooks -> HookRow]
  BY DEF BatchInv, PTypeOK, Git
<1>2. Tree'
  BY <1>1 DEF Tree, Made
<1>3. moves' \in 0 .. MaxMoves
  BY <1>1, PostCommitAssumption DEF Moves, PTypeOK
<1>4. hook[CommitHook].pc # "idle" => \A n \in Names : Live(n) => ref'[n] = ref[n]
  BY DEF Alone, Idle
<1> QED
  BY <1>1, <1>2, <1>3, <1>4, UserStep

(* A branch that comes back takes nothing but what a push is held to.          *)
LEMMA BranchRests ==
  ASSUME hook \in [Hooks -> HookRow], NEW n, Branch(n)
  PROVE  /\ hook' \in [Hooks -> HookRow] /\ \A k \in Hooks : Rests(k)
         /\ hook'[PushHook].due \subseteq hook[PushHook].due
         /\ saved[n] # NoEntry => hook'[PushHook].due \cap Recorded(saved[n]) = {}
<1>1. PushHook \in Hooks
  BY HookNames
<1>2. PICK due : due = IF saved[n] = NoEntry THEN hook[PushHook].due
                       ELSE hook[PushHook].due \ Recorded(saved[n])
  OBVIOUS
<1>3. hook' = [hook EXCEPT ![PushHook].due = due]
  BY <1>2 DEF Branch
<1>4. hook[PushHook] \in HookRow /\ due \in SUBSET Commits
  BY <1>1, <1>2 DEF HookRow
<1>5. PICK d : d = [hook[PushHook] EXCEPT !.due = due]
  OBVIOUS
<1>6. /\ d \in HookRow /\ d.due = due /\ d.pc = hook[PushHook].pc /\ d.todo = hook[PushHook].todo
      /\ d.branch = hook[PushHook].branch /\ d.head = hook[PushHook].head
      /\ d.range = hook[PushHook].range /\ d.then = hook[PushHook].then
  BY <1>4, <1>5 DEF HookRow
<1>7. hook' = [hook EXCEPT ![PushHook] = d]
  BY <1>3, <1>5
<1>8. /\ hook' \in [Hooks -> HookRow] /\ hook'[PushHook] = d
      /\ \A k \in Hooks : k # PushHook => hook'[k] = hook[k]
  BY <1>1, <1>6, <1>7
<1> QED
  BY <1>2, <1>6, <1>8 DEF Rests

(* Whatever the user does keeps the invariant.                                 *)
LEMMA UserKeeps ==
  ASSUME BatchInv, User
  PROVE  BatchInv'
<1>1. PTypeOK /\ Git /\ Tree /\ Refs /\ cur \in Names /\ Live(cur)
  BY DEF BatchInv, PTypeOK, Git
<1>2. PICK h \in Commits : h = ref[cur] /\ Made(h)
  BY <1>1, LiveTyped
<1>3. PICK b \in Names : b = cur
  BY <1>1
<1>4. ref \in [Names -> Commits \cup {NoCommit}] /\ NoCommit \notin Commits
  BY <1>1, NoEntryApart DEF Refs
<1>5. ASSUME Commit PROVE BatchInv'
  <2>1. PICK c \in Commits : CommitOn(c, chain[ref[cur]]) /\ moves' = moves
    BY <1>5 DEF Commit
  <2>2. PICK below : below = chain[ref[cur]]
    OBVIOUS
  <2>3. CommitOn(c, below) /\ moves' \in 0 .. MaxMoves
    BY <1>1, <2>1, <2>2 DEF PTypeOK
  <2> QED
    BY <2>2, <2>3, Committed
<1>6. ASSUME Amend PROVE BatchInv'
  <2>1. PICK c \in Commits : CommitOn(c, chain[ref[cur]] \ {ref[cur]})
    BY <1>6 DEF Amend
  <2>2. PICK below : below = chain[ref[cur]] \ {ref[cur]}
    OBVIOUS
  <2>3. CommitOn(c, below) /\ ref[cur] # 0 /\ moves' \in 0 .. MaxMoves
    BY <1>1, <1>6, <2>1, <2>2, PostCommitAssumption DEF PTypeOK, Amend, Moves
  <2> QED
    BY <2>2, <2>3, Committed
<1>7. ASSUME Configure PROVE BatchInv'
  <2>1. /\ chain' = chain /\ ref' = ref /\ cur' = cur /\ saved' = saved /\ hook' = hook
        /\ holder' = holder /\ timer' = timer /\ asked' = asked /\ seen' = seen
        /\ reviewed' = reviewed /\ pushed' = pushed /\ mishaps' = mishaps
        /\ batching' = ~batching /\ Moves
    BY <1>7 DEF Configure
  <2>2. PTypeOK'
    <3>1. moves' \in 0 .. MaxMoves /\ batching' \in BOOLEAN
      BY <1>1, <2>1, PostCommitAssumption DEF Moves, PTypeOK
    <3> QED
      BY <1>1, <2>1, <3>1 DEF PTypeOK, Live
  <2>3. Git' /\ Table(saved)'
    BY <1>1, <2>1 DEF BatchInv, Git, Tree, Refs, Made, Live, Table
  <2>4. \A k \in Hooks : HookInv(k)'
    BY <2>1, HookKept
  <2>5. PICK s : s = saved
    OBVIOUS
  <2>6. NothingForgotten'
    BY <2>1, <2>5, SeenAfter DEF BatchInv
  <2> QED
    BY <2>2, <2>3, <2>4, <2>6 DEF BatchInv
<1>8. ASSUME NEW c \in Commits, Reset(c) PROVE BatchInv'
  <2>1. /\ Made(c) /\ Alone /\ Moves /\ ref' = [ref EXCEPT ![b] = c] /\ chain' = chain
        /\ cur' = b /\ hook' = hook /\ OnlyGit
    BY <1>3, <1>8 DEF Reset
  <2>2. Refs' /\ Live(b)'
    BY <1>1, <2>1, RefPut
  <2>3. Live(cur)' /\ cur' \in Names
    BY <2>1, <2>2 DEF Live
  <2> QED
    BY <2>1, <2>2, <2>3, BranchesMove
<1>9. ASSUME NEW named \in SUBSET Names, NEW tags \in SUBSET Commits, Push(named, tags)
      PROVE  BatchInv'
  BY <1>9, Pushing
<1>10. ASSUME NEW n \in Names, Branch(n) PROVE BatchInv'
  <2>1. /\ ~Live(n) /\ Moves /\ ref' = [ref EXCEPT ![n] = h] /\ chain' = chain
        /\ cur' = n /\ OnlyGit
        /\ hook' \in [Hooks -> HookRow] /\ \A k \in Hooks : Rests(k)
    BY <1>1, <1>2, <1>10, BranchRests DEF Branch, PTypeOK
  <2>2. Refs' /\ Live(n)'
    BY <1>1, <1>2, <2>1, RefPut
  <2>3. Live(cur)' /\ \A m \in Names : Live(m) => ref'[m] = ref[m]
    BY <1>4, <2>1, <2>2 DEF Live
  <2> QED
    BY <2>1, <2>2, <2>3, BranchesMove
<1>11. ASSUME NEW n \in Names, Switch(n) PROVE BatchInv'
  <2>1. Live(n) /\ Moves /\ ref' = ref /\ chain' = chain /\ cur' = n /\ hook' = hook /\ OnlyGit
    BY <1>11 DEF Switch
  <2>2. Refs' /\ Live(cur)'
    BY <1>1, <2>1 DEF Refs, Live, Made
  <2> QED
    BY <2>1, <2>2, BranchesMove
<1>12. ASSUME NEW n \in Names, Rename(n) PROVE BatchInv'
  <2>1. /\ ~Live(n) /\ Alone /\ Moves /\ ref' = [ref EXCEPT ![n] = ref[cur], ![cur] = NoCommit]
        /\ chain' = chain /\ cur' = n /\ hook' = hook /\ OnlyGit
    BY <1>12 DEF Rename
  <2>2. n # b
    BY <1>1, <1>3, <2>1
  <2>3. ref' \in [Names -> Commits \cup {NoCommit}] /\ ref'[n] = h /\ ref'[b] = NoCommit
        /\ \A m \in Names : m # n /\ m # b => ref'[m] = ref[m]
    BY <1>2, <1>3, <1>4, <2>1, <2>2
  <2>4. Refs' /\ Live(cur)'
    BY <1>1, <1>2, <1>4, <2>1, <2>3 DEF Refs, Live, Made
  <2> QED
    BY <2>1, <2>4, BranchesMove
<1>13. ASSUME NEW n \in Names, Delete(n) PROVE BatchInv'
  <2>1. /\ n # cur /\ Alone /\ Moves /\ ref' = [ref EXCEPT ![n] = NoCommit]
        /\ chain' = chain /\ cur' = cur /\ hook' = hook /\ OnlyGit
    BY <1>13 DEF Delete
  <2>2. ref' \in [Names -> Commits \cup {NoCommit}] /\ ref'[n] = NoCommit
        /\ \A m \in Names : m # n => ref'[m] = ref[m]
    BY <1>4, <2>1
  <2>3. Refs' /\ Live(cur)' /\ cur' \in Names
    BY <1>1, <2>1, <2>2 DEF Refs, Live, Made
  <2> QED
    BY <2>1, <2>3, BranchesMove
<1> QED
  BY <1>5, <1>6, <1>7, <1>8, <1>9, <1>10, <1>11, <1>12, <1>13 DEF User

-------------------------------------------------------------------------------
(* What a push takes along.                                                    *)

(* The flush of a branch up to a head will find a commit pending in its entry, *)
(* or adopt the range that has it.                                             *)
Owed(e, x, b, head) ==
  /\ e # NoEntry /\ x \in Between(e.ckpt, head)
  /\ IF Live(b) THEN OnChain(e.ckpt, x) \/ OnChain(e.ckpt, ref[b]) ELSE x \in Recorded(e)
Adopts(x, b, head) == \E n \in Orphans(b, head, saved) : x \in Recorded(saved[n])

(* Another hook that is about to move the entry of a branch moves it to a      *)
(* commit of the branch, or the entry has the commit recorded.                 *)
Steady(b, x) ==
  \A k \in Hooks \ {PushHook} :
    hook[k].then = "advance" /\ hook[k].branch = b =>
      Holds(b, hook[k].head) \/ x \in Recorded(saved[b])

(* The flushes a push has left: the branches it names come first, and still    *)
(* have the heads they were pushed at.                                         *)
FlushesLeft ==
  LET h == hook[PushHook] IN
  /\ h.pc \in {"idle", "next", "lock", "send", "advance"}
  /\ h.pc = "idle" => h.todo = {}
  /\ \A f \in h.todo :
       /\ f.named => Holds(f.branch, f.head)
       /\ h.pc # "next" /\ (f.named \/ f.branch = h.branch) =>
            h.branch \in Names /\ Holds(h.branch, h.head)
       /\ \A g \in h.todo : g.named = f.named /\ g.branch = f.branch => g = f

(* Who will review a commit the push takes along.                              *)
Waits(b, head, x) == Owed(saved[b], x, b, head) /\ Steady(b, x)
Serves(f, x)   == \/ Waits(f.branch, f.head, x)
                  \/ f.named /\ Adopts(x, f.branch, f.head)
InHand(h, x)   == \/ h.pc = "lock" /\ Waits(h.branch, h.head, x)
                  \/ h.pc = "lock" /\ Adopts(x, h.branch, h.head)
                  \/ h.pc = "send" /\ x \in h.range
Served(x) ==
  \/ x \in reviewed
  \/ \E f \in hook[PushHook].todo : Serves(f, x)
  \/ InHand(hook[PushHook], x)

PushInv ==
  mishaps = 0 =>
    /\ pushed \subseteq reviewed /\ FlushesLeft
    /\ hook[PushHook].pc # "idle" => \A x \in hook[PushHook].due : Served(x)

(* A wider range of a branch still has what was pending.                       *)
LEMMA WidenedServes ==
  ASSUME Git, Table(saved), NEW b \in Names, NEW head \in Commits, Made(head),
         Escaped(b, head, saved), NEW m \in Names, m # b, NEW x \in Commits, NEW h \in Commits, Made(h),
         Live(m), Owed(saved[m], x, m, h)
  PROVE  Owed(HandedOff(b, saved)[m], x, m, h)
<1> DEFINE own == saved[b]
           holders == {n \in Names \ {b} : Holds(n, own.tip)}
           n == Min(holders)
           s == HandedOff(b, saved)
           e == saved[m]
<1>1. /\ own # NoEntry /\ own.ckpt \in Commits /\ own.tip \in Commits
      /\ Made(own.ckpt) /\ Made(own.tip)
  BY EntryTyped DEF Escaped
<1>2. /\ e # NoEntry /\ e \in Entry /\ e.ckpt \in Commits /\ Made(e.ckpt) /\ e.tip \in Commits
      /\ Made(e.tip) /\ x \in chain[h] /\ x \notin chain[e.ckpt]
      /\ e.ckpt \in chain[x] \/ e.ckpt \in chain[ref[m]]
  BY EntryTyped DEF Owed, Between, OnChain
<1>3. Tree /\ ref[m] \in Commits /\ Made(ref[m]) /\ Made(x)
  BY <1>2, LiveTyped, OnTheChain DEF Git
<1>4. saved \in [Names -> Entry \cup {NoEntry}]
  BY DEF Table
<1>5. \/ s[m] = e
      \/ /\ s[m] = [ckpt |-> own.ckpt, tip |-> e.tip]
         /\ OnChain(own.ckpt, ref[m]) /\ Widens(own, e, ref[m])
  <2>1. CASE holders = {}
    BY <2>1 DEF HandedOff
  <2>2. CASE holders # {} /\ n # m
    <3>1. n \in Names
      BY <2>2, NameSets
    <3>2. s = saved \/ s = [saved EXCEPT ![n] = own] \/ s = [saved EXCEPT ![n].ckpt = own.ckpt]
      BY <2>2 DEF HandedOff
    <3> HIDE DEF n, s
    <3> QED
      BY <1>4, <2>2, <3>1, <3>2
  <2>3. CASE holders # {} /\ n = m
    <3>1. s = saved \/ (/\ s = [saved EXCEPT ![m].ckpt = own.ckpt]
                        /\ OnChain(own.ckpt, ref[m]) /\ Widens(own, e, ref[m]))
      BY <1>2, <2>3 DEF HandedOff
    <3> HIDE DEF n, s
    <3> QED
      BY <1>2, <1>4, <3>1 DEF Entry
  <2> QED
    BY <2>1, <2>2, <2>3
<1> HIDE DEF s, own, e
<1>6. CASE s[m] = e
  BY <1>6 DEF s, e
<1>7. CASE /\ s[m] = [ckpt |-> own.ckpt, tip |-> e.tip]
           /\ OnChain(own.ckpt, ref[m]) /\ Widens(own, e, ref[m])
  <2>1. s[m] # NoEntry /\ s[m].ckpt = own.ckpt
    BY <1>1, <1>2, <1>7, NoEntryApart
  <2>2. own.ckpt \in chain[ref[m]] /\ chain[own.ckpt] \subseteq chain[ref[m]]
    BY <1>3, <1>7, OnTheChain DEF OnChain
  <2>3. CASE e.ckpt \notin chain[ref[m]]
    <3>1. e.ckpt \in chain[x]
      BY <1>2, <2>3
    <3>2. x \notin chain[ref[m]]
      BY <1>3, <2>3, <3>1, OnTheChain
    <3> QED
      BY <1>2, <2>1, <2>2, <3>2 DEF Owed, Between, OnChain, s
  <2>4. CASE e.ckpt \in chain[ref[m]]
    <3>1. Distance(own.ckpt, ref[m]) > Distance(e.ckpt, ref[m])
      BY <1>7, <2>4 DEF Widens, OnChain
    <3>2. Distance(own.ckpt, ref[m]) \in Nat /\ Distance(e.ckpt, ref[m]) \in Nat
      BY <1>1, <1>2, <1>3, BetweenTyped
    <3>3. Distance(own.ckpt, ref[m]) >= Distance(e.ckpt, ref[m])
      BY <3>1, <3>2
    <3>4. Between(e.ckpt, ref[m]) \subseteq Between(own.ckpt, ref[m])
      BY <1>1, <1>2, <1>3, <3>3, Deeper
    <3>5. chain[own.ckpt] \subseteq chain[e.ckpt]
      BY <2>2, <3>4 DEF Between
    <3> QED
      BY <1>2, <2>1, <2>2, <3>5 DEF Owed, Between, OnChain, s
  <2> QED
    BY <2>3, <2>4
<1> QED
  BY <1>5, <1>6, <1>7

(* A plan has in its range what it was to review, and leaves the rest to the   *)
(* flushes that are left.                                                      *)
LEMMA ResolvedServes ==
  ASSUME Git, Table(saved), NEW b \in Names, NEW head \in Commits, Made(head), NEW x \in Commits
  PROVE  LET r == Resolved(b, head)
             now == r[b] # NoEntry /\ x \in Between(r[b].ckpt, head) IN
         /\ Owed(saved[b], x, b, head) \/ Adopts(x, b, head) => now
         /\ \A m \in Names, h \in Commits :
              Made(h) /\ Owed(saved[m], x, m, h) /\ (m = b => Holds(b, head)) =>
                \/ Owed(r[m], x, m, h)
                \/ now /\ m # b /\ r[m] = NoEntry /\ x \in Recorded(saved[m])
         /\ \A n \in Names : n # b /\ ~Live(n) /\ saved[n] # NoEntry =>
              \/ r[n] = saved[n]
              \/ r[n] = NoEntry /\ (x \in Recorded(saved[n]) => now)
<1> DEFINE s == Propagated(b, head, saved)
           r == Resolved(b, head)
           now == r[b] # NoEntry /\ x \in Between(r[b].ckpt, head)
           os == Orphans(b, head, saved)
<1>1. /\ Table(s)
      /\ s[b] = NoEntry <=> saved[b] = NoEntry
      /\ s[b] # NoEntry => s[b].ckpt = saved[b].ckpt
      /\ \A n \in Names : n # b /\ ~Live(n) => s[n] = saved[n]
  BY ResolvedCovers
<1>3. /\ Table(r)
      /\ r[b] = s[b] \/ (r[b] # NoEntry /\ r[b].tip = head /\ OnChain(r[b].ckpt, head))
      /\ \A n \in Names : n # b => r[n] = IF n \in os THEN NoEntry ELSE s[n]
      /\ s[b] # NoEntry => r[b] # NoEntry /\ Between(s[b].ckpt, head) \subseteq Between(r[b].ckpt, head)
      /\ \A n \in os : Recorded(s[n]) = {}
                       \/ (r[b] # NoEntry /\ Recorded(s[n]) \subseteq Between(r[b].ckpt, head))
  BY ResolvedCovers
<1> HIDE DEF s, r
<1>5. Tree /\ \A n \in os : n \in Names /\ n # b /\ ~Live(n)
  <2>1. Tree
    BY DEF Git
  <2>2. \A n \in Orphans(b, head, saved) : n \in Names /\ n # b /\ ~Live(n)
    BY DEF Orphans
  <2> QED
    BY <2>1, <2>2
<1> HIDE DEF os
<1>6. ASSUME Owed(saved[b], x, b, head) PROVE now
  BY <1>1, <1>3, <1>6 DEF Owed
<1>7. ASSUME NEW n \in os, x \in Recorded(saved[n]) PROVE now
  <2>1. s[n] = saved[n]
    BY <1>1, <1>5
  <2> QED
    BY <1>3, <1>7, <2>1
<1>8. ASSUME NEW m \in Names, NEW h \in Commits, Made(h), Owed(saved[m], x, m, h),
             m = b => Holds(b, head)
      PROVE  \/ Owed(r[m], x, m, h)
             \/ now /\ m # b /\ r[m] = NoEntry /\ x \in Recorded(saved[m])
  <2>1. CASE m = b
    <3>1. /\ Live(b) /\ head \in chain[ref[b]] /\ saved[b] # NoEntry /\ x \in chain[h]
          /\ x \notin chain[saved[b].ckpt]
      BY <1>8, <2>1 DEF Holds, OnChain, Owed, Between
    <3>2. chain[head] \subseteq chain[ref[b]]
      BY <1>5, <3>1, LiveTyped, OnTheChain DEF Git
    <3>3. CASE r[b] = s[b]
      BY <1>1, <1>8, <2>1, <3>1, <3>3 DEF Owed
    <3>4. CASE r[b] # s[b]
      <4>1. /\ r[b] # NoEntry /\ r[b].ckpt \in chain[head]
            /\ Between(saved[b].ckpt, head) \subseteq Between(r[b].ckpt, head)
        BY <1>1, <1>3, <3>1, <3>4 DEF OnChain
      <4>2. chain[r[b].ckpt] \subseteq chain[head]
        BY <1>5, <4>1, OnTheChain
      <4>3. x \notin chain[r[b].ckpt]
        BY <3>1, <4>1, <4>2 DEF Between
      <4> QED
        BY <2>1, <3>1, <3>2, <4>1, <4>3 DEF Owed, Between, OnChain
    <3> QED
      BY <3>3, <3>4
  <2>2. CASE m # b /\ m \in os
    <3>1. x \in Recorded(saved[m])
      BY <1>5, <1>8, <2>2 DEF Owed
    <3> QED
      BY <1>3, <1>7, <2>2, <3>1
  <2>3. CASE m # b /\ m \notin os
    <3>1. r[m] = s[m]
      BY <1>3, <2>3
    <3>2. CASE ~Escaped(b, head, saved)
      <4>1. s = saved
        BY <3>2 DEF Propagated, s
      <4> QED
        BY <1>8, <3>1, <4>1
    <3>3. CASE Escaped(b, head, saved) /\ Live(m)
      <4>1. s = [HandedOff(b, saved) EXCEPT ![b].tip = head]
        BY <3>3 DEF Propagated, s
      <4>2. s[m] = HandedOff(b, saved)[m]
        <5>1. PICK t : t = HandedOff(b, saved)
          OBVIOUS
        <5>2. Table(t)
          BY <3>3, <5>1, HandOver
        <5> QED
          BY <2>3, <4>1, <5>1, <5>2 DEF Table
      <4> QED
        BY <1>8, <2>3, <3>1, <3>3, <4>2, WidenedServes
    <3>4. CASE ~Live(m)
      <4>1. s[m] = saved[m]
        BY <1>1, <2>3, <3>4
      <4> QED
        BY <1>8, <3>1, <4>1
    <3> QED
      BY <3>2, <3>3, <3>4
  <2> QED
    BY <2>1, <2>2, <2>3
<1>9. Adopts(x, b, head) => now
  BY <1>7 DEF Adopts, os
<1>10. ASSUME NEW n \in Names, n # b, ~Live(n), saved[n] # NoEntry
       PROVE  \/ r[n] = saved[n]
              \/ r[n] = NoEntry /\ (x \in Recorded(saved[n]) => now)
  BY <1>1, <1>3, <1>7, <1>10
<1> QED
  BY <1>6, <1>8, <1>9, <1>10 DEF r

(* A plan that finds something to review reviews it.                           *)
LEMMA StoredSends ==
  ASSUME NEW b, NEW head, Resolved(b, head)[b] # NoEntry,
         Between(Resolved(b, head)[b].ckpt, head) # {}
  PROVE  LET p == PlanStored(b, head) IN
         p.goal = "send" /\ p.range = Between(Resolved(b, head)[b].ckpt, head)
<1>1. Resolved(b, head)[b].ckpt # head
  BY DEF Between
<1> QED
  BY <1>1 DEF PlanStored, Recovery, Plan

-------------------------------------------------------------------------------
(* The steps of the others leave a push alone: commits only make the branches  *)
(* longer, and what another hook plans or has reviewed leaves the rest to the  *)
(* flushes of the push.                                                        *)

(* No other hook begins to move an entry.                                      *)
Quieter ==
  \A k \in Hooks \ {PushHook} : hook'[k].then = "advance" =>
    hook[k].then = "advance" /\ hook'[k].branch = hook[k].branch /\ hook'[k].head = hook[k].head

Grows ==
  /\ \A c \in Commits : Made(c) => chain'[c] = chain[c]
  /\ \A n \in Names : /\ Live(n)' <=> Live(n)
                      /\ Live(n) => chain[ref[n]] \subseteq chain'[ref'[n]]

(* What is owed to a flush stays owed while the history grows.                 *)
LEMMA OwedStays ==
  ASSUME Git, Table(saved), Grows, saved' = saved,
         NEW x, NEW b \in Names, NEW head \in Commits, Made(head)
  PROVE  /\ Owed(saved[b], x, b, head) => Owed(saved[b], x, b, head)'
         /\ Adopts(x, b, head) => Adopts(x, b, head)'
<1>1. Tree /\ chain'[head] = chain[head] /\ \A n \in Names : Live(n)' <=> Live(n)
  BY DEF Git, Grows
<1>2. ASSUME NEW n \in Names, saved[n] # NoEntry
      PROVE  /\ chain'[saved[n].ckpt] = chain[saved[n].ckpt]
             /\ Recorded(saved[n])' = Recorded(saved[n])
  <2>1. saved[n].ckpt \in Commits /\ Made(saved[n].ckpt) /\ saved[n].tip \in Commits
        /\ Made(saved[n].tip)
    BY <1>2, EntryTyped
  <2>2. chain'[saved[n].ckpt] = chain[saved[n].ckpt] /\ chain'[saved[n].tip] = chain[saved[n].tip]
    BY <2>1 DEF Grows
  <2> QED
    BY <2>2 DEF Recorded, Between
<1>3. ASSUME Owed(saved[b], x, b, head) PROVE Owed(saved[b], x, b, head)'
  <2>1. /\ saved[b] # NoEntry /\ x \in chain[head] /\ x \notin chain[saved[b].ckpt]
        /\ IF Live(b) THEN saved[b].ckpt \in chain[x] \/ saved[b].ckpt \in chain[ref[b]]
                      ELSE x \in Recorded(saved[b])
    BY <1>3 DEF Owed, Between, OnChain
  <2>2. x \in Commits /\ Made(x)
    BY <1>1, <2>1, OnTheChain
  <2>3. chain'[x] = chain[x] /\ (Live(b) => chain[ref[b]] \subseteq chain'[ref'[b]])
    BY <2>2 DEF Grows
  <2>4. chain'[saved[b].ckpt] = chain[saved[b].ckpt] /\ Recorded(saved[b])' = Recorded(saved[b])
    BY <1>2, <2>1
  <2> QED
    BY <1>1, <2>1, <2>3, <2>4 DEF Owed, Between, OnChain
<1>4. ASSUME NEW n \in Orphans(b, head, saved), x \in Recorded(saved[n])
      PROVE  Adopts(x, b, head)'
  <2>1. n \in Names \ {b} /\ saved[n] # NoEntry /\ ~Live(n) /\ saved[n].ckpt \in chain[head]
        /\ saved[n].tip \in chain[head]
    BY <1>4 DEF Orphans, OnChain
  <2>2. n \in Orphans(b, head, saved)'
    BY <1>1, <2>1 DEF Orphans, OnChain
  <2>3. x \in Recorded(saved[n])'
    BY <1>2, <1>4, <2>1
  <2> QED
    BY <2>2, <2>3 DEF Adopts
<1> QED
  BY <1>3, <1>4 DEF Adopts

(* ... and the others stay out of its way.                                     *)
LEMMA SteadyStays ==
  ASSUME Git, Table(saved), Grows, Quieter, saved' = saved, NEW x, NEW b \in Names, Steady(b, x)
  PROVE  Steady(b, x)'
<1>1. ASSUME NEW c, Holds(b, c) PROVE Holds(b, c)'
  BY <1>1 DEF Holds, Grows, OnChain
<1>2. Recorded(saved[b])' = Recorded(saved[b])
  <2>1. CASE saved[b] = NoEntry
    BY <2>1 DEF Recorded
  <2>2. CASE saved[b] # NoEntry
    <3>1. chain'[saved[b].ckpt] = chain[saved[b].ckpt] /\ chain'[saved[b].tip] = chain[saved[b].tip]
      BY <2>2, EntryTyped DEF Grows
    <3> QED
      BY <3>1 DEF Recorded, Between
  <2> QED
    BY <2>1, <2>2
<1>3. ASSUME NEW k \in Hooks \ {PushHook}, hook'[k].then = "advance", hook'[k].branch = b
      PROVE  Holds(b, hook[k].head)' \/ x \in Recorded(saved[b])'
  <2>1. hook[k].then = "advance" /\ hook[k].branch = b /\ hook'[k].head = hook[k].head
    BY <1>3 DEF Quieter
  <2>2. Holds(b, hook[k].head) \/ x \in Recorded(saved[b])
    BY <2>1 DEF Steady
  <2>3. PICK c : c = hook[k].head
    OBVIOUS
  <2>4. Holds(b, c)' \/ x \in Recorded(saved[b])'
    BY <1>1, <1>2, <2>2, <2>3
  <2>5. hook'[k].head = c
    BY <2>1, <2>3
  <2> QED
    BY <2>4, <2>5 DEF Holds
<1> QED
  BY <1>3 DEF Steady

(* What the row of a push says of its flushes rests.                           *)
RowRests ==
  /\ hook'[PushHook].pc = hook[PushHook].pc /\ hook'[PushHook].todo = hook[PushHook].todo
  /\ hook'[PushHook].branch = hook[PushHook].branch
  /\ hook'[PushHook].head = hook[PushHook].head
  /\ hook'[PushHook].range = hook[PushHook].range

(* A commit is still in somebody's hands if every flush that waits for it      *)
(* still does.                                                                 *)
LEMMA StillServed ==
  ASSUME BatchInv, reviewed \subseteq reviewed', RowRests, NEW x, Served(x),
         \A b \in Names, head \in Commits : Made(head) /\ Waits(b, head, x) =>
           Waits(b, head, x)' \/ x \in reviewed',
         \A b \in Names, head \in Commits : Made(head) /\ Adopts(x, b, head) =>
           Adopts(x, b, head)' \/ x \in reviewed'
  PROVE  Served(x)'
<1> DEFINE h == hook[PushHook]
<1>1. HookInv(PushHook) /\ h \in HookRow
  BY HookNames DEF BatchInv, PTypeOK
<1>2. CASE x \in reviewed'
  BY <1>2 DEF Served
<1>3. ASSUME NEW f \in h.todo, Serves(f, x), x \notin reviewed' PROVE Served(x)'
  <2>1. f \in Flush /\ Made(f.head)
    BY <1>1 DEF HookRow, HookInv
  <2>2. PICK b \in Names, head \in Commits : b = f.branch /\ head = f.head
    BY <2>1 DEF Flush
  <2>3. \/ Waits(b, head, x)'
        \/ f.named /\ Adopts(x, b, head)'
    BY <1>3, <2>1, <2>2 DEF Serves
  <2>4. Serves(f, x)'
    BY <2>2, <2>3 DEF Serves
  <2> QED
    BY <2>4 DEF Served, RowRests
<1>4. ASSUME h.pc = "lock", Waits(h.branch, h.head, x) \/ Adopts(x, h.branch, h.head),
             x \notin reviewed'
      PROVE  Served(x)'
  <2>1. PICK b \in Names, head \in Commits : b = h.branch /\ head = h.head /\ Made(head)
    BY <1>1, <1>4 DEF HookInv
  <2>2. Waits(b, head, x)' \/ Adopts(x, b, head)'
    BY <1>4, <2>1
  <2>3. b = hook'[PushHook].branch /\ head = hook'[PushHook].head /\ hook'[PushHook].pc = "lock"
    BY <1>4, <2>1 DEF RowRests
  <2>4. InHand(hook[PushHook], x)'
    BY <2>2, <2>3 DEF InHand
  <2> QED
    BY <2>4 DEF Served
<1>5. CASE h.pc = "send" /\ x \in h.range
  BY <1>5 DEF Served, InHand, RowRests
<1> QED
  BY <1>2, <1>3, <1>4, <1>5 DEF Served, InHand

(* A commit somebody will review is still in somebody's hands while the state  *)
(* file rests.                                                                 *)
LEMMA ServedStays ==
  ASSUME BatchInv, Grows, Quieter, saved' = saved, reviewed \subseteq reviewed', RowRests,
         NEW x, Served(x)
  PROVE  Served(x)'
<1>1. Git /\ Table(saved)
  BY DEF BatchInv
<1>2. \A b \in Names, head \in Commits : Made(head) /\ Waits(b, head, x) => Waits(b, head, x)'
  BY <1>1, OwedStays, SteadyStays DEF Waits
<1>3. \A b \in Names, head \in Commits : Made(head) /\ Adopts(x, b, head) => Adopts(x, b, head)'
  BY <1>1, OwedStays
<1> QED
  BY <1>2, <1>3, StillServed

(* A branch that is there stays, with all it has.                              *)
Keeps == \A n \in Names : Live(n) => Live(n)' /\ chain[ref[n]] \subseteq chain'[ref'[n]]

(* A step of somebody else keeps what the push relies on if what the push is   *)
(* held to is still in somebody's hands.                                       *)
LEMMA PushKept ==
  ASSUME BatchInv, PushInv, mishaps' = mishaps \/ Mishap, pushed' = pushed,
         reviewed \subseteq reviewed', RowRests, Idle(PushHook) \/ Keeps,
         ~Idle(PushHook) /\ mishaps = 0 => \A x \in hook'[PushHook].due : Served(x)'
  PROVE  PushInv'
<1> DEFINE h == hook[PushHook]
<1>1. SUFFICES ASSUME mishaps' = 0
               PROVE  /\ pushed' \subseteq reviewed' /\ FlushesLeft'
                      /\ hook'[PushHook].pc # "idle" =>
                           \A x \in hook'[PushHook].due : Served(x)'
  BY DEF PushInv
<1>2. mishaps = 0
  BY <1>1 DEF Mishap, BatchInv, PTypeOK
<1>3. pushed \subseteq reviewed /\ FlushesLeft
  BY <1>2 DEF PushInv
<1>4. CASE Idle(PushHook)
  BY <1>3, <1>4 DEF Idle, FlushesLeft, RowRests
<1>5. CASE ~Idle(PushHook)
  <2>1. h \in HookRow /\ Keeps
    BY <1>5, HookNames DEF BatchInv, PTypeOK
  <2>2. ASSUME NEW n, NEW c, n \in Names, Holds(n, c) PROVE Holds(n, c)'
    BY <2>1, <2>2 DEF Keeps, Holds, OnChain
  <2>3. \A f \in h.todo : f.branch \in Names
    BY <2>1 DEF HookRow, Flush
  <2>4. \A f \in h.todo : f.named => Holds(f.branch, f.head)'
    BY <1>3, <2>2, <2>3 DEF FlushesLeft
  <2>5. \A f \in h.todo : h.pc # "next" /\ (f.named \/ f.branch = h.branch) =>
                            h.branch \in Names /\ Holds(h.branch, h.head)'
    <3>1. ASSUME h.branch \in Names, Holds(h.branch, h.head) PROVE Holds(h.branch, h.head)'
      <4>1. PICK n, c : n \in Names /\ n = h.branch /\ c = h.head
        BY <3>1
      <4>2. Holds(n, c)'
        BY <2>2, <3>1, <4>1
      <4> QED
        BY <4>1, <4>2 DEF RowRests
    <3> QED
      BY <1>3, <3>1 DEF FlushesLeft
  <2>6. FlushesLeft'
    BY <1>3, <2>4, <2>5 DEF FlushesLeft, RowRests
  <2> QED
    BY <1>2, <1>3, <1>5, <2>6
<1> QED
  BY <1>4, <1>5

(* So it does while the history grows.                                         *)
LEMMA PushHeld ==
  ASSUME BatchInv, PushInv, mishaps' = mishaps \/ Mishap, pushed' = pushed,
         reviewed \subseteq reviewed', RowRests, Idle(PushHook) \/ Grows,
         ~Idle(PushHook) /\ mishaps = 0 => \A x \in hook'[PushHook].due : Served(x)'
  PROVE  PushInv'
<1>1. Grows => Keeps
  BY DEF Grows, Keeps
<1> QED
  BY <1>1, PushKept

(* While the state file rests, a push stands.                                  *)
LEMMA PushStands ==
  ASSUME BatchInv, PushInv, mishaps' = mishaps \/ Mishap, pushed' = pushed,
         reviewed \subseteq reviewed', RowRests, Idle(PushHook) \/ Grows, saved' = saved, Quieter,
         hook'[PushHook].due \subseteq hook[PushHook].due
  PROVE  PushInv'
<1>1. ASSUME ~Idle(PushHook), mishaps = 0, NEW x \in hook'[PushHook].due PROVE Served(x)'
  <2>1. Served(x) /\ Grows
    BY <1>1 DEF PushInv, Idle
  <2> QED
    BY <2>1, ServedStays
<1> QED
  BY <1>1, PushHeld

(* A flush waits for a commit after a step if its branch's new entry owes it.  *)
LEMMA OwedNow ==
  ASSUME UNCHANGED <<chain, ref>>, NEW b, NEW head, NEW x, NEW e, saved'[b] = e,
         Owed(e, x, b, head)
  PROVE  Owed(saved[b], x, b, head)'
BY DEF Owed, Between, OnChain, Live, Recorded

(* What other hooks plan.                                                      *)

(* A plan has the checkpoint of its branch where it was found, and leaves the  *)
(* entries of the other branches as they were found.                           *)
Leaves(p, b, r) ==
  /\ \A m \in Names : m # b => p.saved[m] = r[m]
  /\ r[b] # NoEntry => p.saved[b] # NoEntry /\ p.saved[b].ckpt = r[b].ckpt

(* So does every plan.                                                         *)
LEMMA PlansLeave ==
  ASSUME Git, Table(saved), NEW b \in Names, NEW head \in Commits, Made(head)
  PROVE  /\ Leaves(PlanCommit(b, head), b, Resolved(b, head))
         /\ Leaves(PlanDisabled(b, head), b, Resolved(b, head))
         /\ Leaves(PlanStored(b, head), b, Resolved(b, head))
<1>1. PICK r : r = Resolved(b, head)
  OBVIOUS
<1>2. Table(r)
  BY <1>1, ResolvedCovers
<1>3. PlanStored(b, head).saved = r /\ PlanDisabled(b, head).saved = r
  BY <1>1 DEF PlanStored, PlanDisabled, Recovery, Plan
<1>4. PICK ckpt : ckpt = IF r[b] = NoEntry THEN Parent(head) ELSE r[b].ckpt
  OBVIOUS
<1>5. PICK t : t = [r EXCEPT ![b] = [ckpt |-> ckpt, tip |-> head]]
  OBVIOUS
<1>6. PlanCommit(b, head).saved \in {r, t}
  BY <1>1, <1>4, <1>5 DEF PlanCommit, Recovery, Plan
<1>7. r \in [Names -> Entry \cup {NoEntry}]
  BY <1>2 DEF Table
<1>8. t[b] = [ckpt |-> ckpt, tip |-> head] /\ \A m \in Names : m # b => t[m] = r[m]
  BY <1>5, <1>7
<1>9. r[b] # NoEntry => t[b] # NoEntry /\ t[b].ckpt = r[b].ckpt
  BY <1>4, <1>8, NoEntryApart DEF NoEntry
<1> QED
  BY <1>1, <1>3, <1>6, <1>8, <1>9 DEF Leaves

(* Nobody is about to move an entry while the lock is free.                    *)
LEMMA NobodyMoves ==
  ASSUME BatchInv, NEW k, k \in Hooks \cup {Nobody}, holder = k
  PROVE  \A j \in Hooks \ {k} : hook[j].then = "keep"
BY HookNames DEF BatchInv, HookInv, Owns

(* What a plan of another hook for a live branch leaves is with the flushes of *)
(* the push, but for what it adopts.                                           *)
LEMMA PlanStands ==
  ASSUME BatchInv, PushInv, NEW k \in Hooks, k # PushHook, Entered(k), OnlyHook,
         UNCHANGED <<reviewed, mishaps>>, NEW b \in Names, Live(b), NEW head, head = ref[b],
         NEW p, Follow(k, b, head, p), p.goal # "none" => SoundPlan(p, b, head),
         NEW r, r = Resolved(b, head), Leaves(p, b, r)
  PROVE  PushInv'
<1>1. /\ Git /\ Table(saved) /\ hook \in [Hooks -> HookRow] /\ PushHook \in Hooks
      /\ head \in Commits /\ Made(head) /\ holder = Nobody /\ Tree
  BY HookNames, LiveTyped DEF BatchInv, PTypeOK, Git, Entered
<1>2. /\ chain' = chain /\ ref' = ref /\ pushed' = pushed /\ reviewed' = reviewed
      /\ mishaps' = mishaps /\ saved' = p.saved
  BY DEF OnlyHook, Follow
<1>3. PICK d : d = Doing(k, b, head, p)
  OBVIOUS
<1>4. d \in HookRow /\ (d.then # "keep" => d.branch = b /\ d.head = head)
  <2>1. p.goal # "none" => b \in Names /\ head \in Commits /\ SoundPlan(p, b, head)
    BY <1>1
  <2>2. hook \in [Hooks -> HookRow]
    BY <1>1
  <2> QED
    BY <1>3, <2>1, <2>2, DoingTyped
<1>5. Stepped(k, d) /\ hook'[PushHook].due = hook[PushHook].due \ TakenOver(k)
  BY <1>1, <1>3, <1>4, FollowStepped
<1>6. RowRests /\ Grows
  BY <1>1, <1>2, <1>5 DEF RowRests, Stepped, Grows, Live
<1>7. \A m \in Names, x \in Commits : Steady(m, x)'
  <2>1. \A j \in Hooks \ {k} : hook'[j].then = "keep"
    <3>1. \A j \in Hooks \ {Nobody} : hook[j].then = "keep"
      BY <1>1, NobodyMoves
    <3> QED
      BY <1>5, <3>1, HookNames DEF Stepped
  <2>2. hook'[k].then = "advance" => hook'[k].branch = b /\ hook'[k].head = head
    BY <1>4, <1>5 DEF Stepped
  <2>3. Holds(b, head)'
    BY <1>1, <1>2 DEF Holds, Live, OnChain, Tree
  <2>4. ASSUME NEW m \in Names, NEW x \in Commits, NEW j \in Hooks \ {PushHook},
               hook'[j].then = "advance", hook'[j].branch = m
        PROVE  Holds(m, hook[j].head)'
    <3>1. j = k
      BY <2>1, <2>4
    <3>2. hook'[j].head = head /\ m = b
      BY <2>2, <2>4, <3>1
    <3> QED
      BY <2>3, <3>2 DEF Holds
  <2> QED
    BY <2>4 DEF Steady
<1>8. ASSUME NEW x \in Commits, x \notin TakenOver(k), NEW m \in Names, NEW c \in Commits, Made(c)
      PROVE  /\ Waits(m, c, x) => Waits(m, c, x)'
             /\ Adopts(x, m, c) => Adopts(x, m, c)'
  <2>1. /\ Owed(saved[m], x, m, c) /\ (m = b => Holds(b, head)) =>
             \/ Owed(r[m], x, m, c)
             \/ m # b /\ r[m] = NoEntry /\ x \in Recorded(saved[m])
        /\ \A n \in Names : n # b /\ ~Live(n) /\ saved[n] # NoEntry =>
             r[n] = saved[n] \/ r[n] = NoEntry
    BY <1>1, <1>8, ResolvedServes
  <2>2. \A n \in Names : n # b => saved'[n] = r[n]
    BY <1>2 DEF Leaves
  <2>3. \A n \in Names : n # b /\ r[n] = NoEntry /\ saved[n] # NoEntry => x \notin Recorded(saved[n])
    BY <1>8, <2>2 DEF TakenOver
  <2>4. ASSUME Waits(m, c, x) PROVE Waits(m, c, x)'
    <3>1. Owed(saved[m], x, m, c) /\ saved[m] # NoEntry
      BY <2>4 DEF Waits, Owed
    <3>2. Holds(b, head)
      BY <1>1 DEF Holds, OnChain, Tree
    <3>3. Owed(r[m], x, m, c)
      BY <2>1, <2>3, <3>1, <3>2
    <3>4. Owed(saved'[m], x, m, c)
      <4>1. CASE m # b
        BY <2>2, <3>3, <4>1
      <4>2. CASE m = b
        <5>1. saved'[b] # NoEntry /\ saved'[b].ckpt = r[b].ckpt
          BY <1>2, <3>3, <4>2 DEF Leaves, Owed
        <5> QED
          BY <3>3, <4>2, <5>1 DEF Owed
      <4> QED
        BY <4>1, <4>2
    <3>5. PICK e : e = saved'[m]
      OBVIOUS
    <3>6. Owed(saved[m], x, m, c)'
      BY <1>2, <3>4, <3>5, OwedNow
    <3> QED
      BY <1>7, <1>8, <3>6 DEF Waits
  <2>5. ASSUME NEW n \in Orphans(m, c, saved), x \in Recorded(saved[n]) PROVE Adopts(x, m, c)'
    <3>1. n \in Names \ {m} /\ saved[n] # NoEntry /\ ~Live(n) /\ OnChain(saved[n].ckpt, c)
          /\ OnChain(saved[n].tip, c)
      BY <2>5 DEF Orphans
    <3>2. saved'[n] = saved[n]
      BY <2>1, <2>2, <2>3, <2>5, <3>1
    <3>3. n \in Orphans(m, c, saved)'
      BY <1>2, <3>1, <3>2 DEF Orphans, Live, OnChain
    <3>4. x \in Recorded(saved[n])'
      BY <1>2, <2>5, <3>2 DEF Recorded, Between
    <3> QED
      BY <3>3, <3>4 DEF Adopts
  <2> QED
    BY <2>4, <2>5 DEF Adopts
<1>9. ASSUME ~Idle(PushHook), mishaps = 0, NEW x \in hook'[PushHook].due PROVE Served(x)'
  <2>1. x \in hook[PushHook].due /\ x \notin TakenOver(k)
    BY <1>5, <1>9
  <2>2. Served(x) /\ x \in Commits
    BY <1>1, <1>9, <2>1 DEF PushInv, Idle, HookRow
  <2>3. \A m \in Names, c \in Commits : Made(c) =>
          (Waits(m, c, x) => Waits(m, c, x)') /\ (Adopts(x, m, c) => Adopts(x, m, c)')
    BY <1>8, <2>1, <2>2
  <2> QED
    BY <1>2, <1>6, <2>2, <2>3, StillServed
<1> QED
  BY <1>2, <1>6, <1>9, PushHeld

(* The plan of a commit's hook, ...                                            *)
LEMMA CommitStands ==
  ASSUME BatchInv, PushInv, PlanOfCommit
  PROVE  PushInv'
<1>1. PICK b \in Names : b = cur
  BY DEF BatchInv, PTypeOK
<1>2. Live(b) /\ Git /\ Table(saved) /\ Refs
  BY <1>1 DEF BatchInv, PTypeOK, Git
<1>3. PICK head \in Commits : head = ref[b] /\ Made(head)
  BY <1>2, LiveTyped
<1>4. PICK p : p = IF batching THEN PlanCommit(b, head) ELSE PlanDisabled(b, head)
  OBVIOUS
<1>5. PICK r : r = Resolved(b, head)
  OBVIOUS
<1>6. SoundPlan(p, b, head) /\ Leaves(p, b, r)
  BY <1>2, <1>3, <1>4, <1>5, CommitSound, DisabledSound, PlansLeave
<1>7. /\ Entered(CommitHook) /\ Follow(CommitHook, b, head, p) /\ OnlyHook
      /\ UNCHANGED <<reviewed, mishaps>>
  <2>1. cur = b /\ ref[cur] = head
    BY <1>1, <1>3
  <2>2. p = IF batching THEN PlanCommit(cur, ref[cur]) ELSE PlanDisabled(cur, ref[cur])
    BY <1>4, <2>1
  <2> QED
    BY <2>1, <2>2 DEF PlanOfCommit
<1>8. CommitHook \in Hooks /\ CommitHook # PushHook
  BY HookNames
<1> QED
  BY <1>2, <1>3, <1>5, <1>6, <1>7, <1>8, PlanStands

(* ... and of a quiet flush.                                                   *)
LEMMA FlushStands ==
  ASSUME BatchInv, PushInv, NEW b \in Names, PlanOfFlush(b)
  PROVE  PushInv'
<1>1. Git /\ Table(saved) /\ Refs /\ b \in Hooks /\ b # PushHook /\ PushHook \in Hooks
      /\ hook \in [Hooks -> HookRow]
  BY HookNames DEF BatchInv, Git, PTypeOK
<1>2. Entered(b) /\ OnlyHook /\ UNCHANGED <<reviewed, mishaps>>
  BY DEF PlanOfFlush
<1>3. CASE ~Live(b)
  <2>1. PICK p : p = Plan(saved, {}, "none", "keep")
    OBVIOUS
  <2>2. Follow(b, b, NoCommit, p) /\ p.saved = saved /\ p.goal = "none"
    BY <1>3, <2>1 DEF PlanOfFlush, Plan
  <2>3. PICK d : d = Ended(b)
    OBVIOUS
  <2>4. d \in HookRow /\ d.then = "keep"
    BY <1>1, <2>3, EndedTyped
  <2>5. Stepped(b, d) /\ hook'[PushHook].due \subseteq hook[PushHook].due
    <3>1. d = Doing(b, b, NoCommit, p)
      BY <2>2, <2>3 DEF Doing
    <3> QED
      BY <1>1, <2>2, <2>4, <3>1, FollowStepped
  <2>6. RowRests /\ Grows /\ Quieter
    BY <1>1, <1>2, <2>4, <2>5 DEF RowRests, Stepped, Grows, Live, Quieter, OnlyHook
  <2>7. saved' = saved /\ pushed' = pushed
    BY <1>2, <2>2 DEF Follow, OnlyHook
  <2> QED
    BY <1>2, <2>5, <2>6, <2>7, PushStands
<1>4. CASE Live(b)
  <2>1. PICK head \in Commits : head = ref[b] /\ Made(head)
    BY <1>1, <1>4, LiveTyped
  <2>2. PICK q, r : q = PlanStored(b, head) /\ r = Resolved(b, head)
    OBVIOUS
  <2>3. SoundPlan(q, b, head) /\ q.then # "clear" /\ q.goal \in {"none", "send"} /\ Leaves(q, b, r)
    BY <1>1, <2>1, <2>2, StoredSound, PlansLeave
  <2>4. PICK p : p = IF ref[b] # hook[b].head THEN [q EXCEPT !.goal = "none"] ELSE q
    OBVIOUS
  <2>5. Follow(b, b, head, p)
    <3>1. \/ Follow(b, b, ref[b], [PlanStored(b, ref[b]) EXCEPT !.goal = "none"])
             /\ ref[b] # hook[b].head
          \/ Follow(b, b, ref[b], PlanStored(b, ref[b])) /\ ~(ref[b] # hook[b].head)
      BY <1>4 DEF PlanOfFlush
    <3> QED
      BY <2>1, <2>2, <2>4, <3>1
  <2>6. q \in [saved : {q.saved}, range : SUBSET Commits, goal : {"none", "send"},
               then : {"keep", "advance"}]
    <3>1. q = Plan(q.saved, q.range, q.goal, q.then)
      BY <2>2 DEF PlanStored, Recovery, Plan
    <3> QED
      BY <2>3, <3>1 DEF SoundPlan, Plan
  <2>7. p.saved = q.saved /\ (p.goal # "none" => p = q)
    BY <2>4, <2>6
  <2>8. Leaves(p, b, r) /\ (p.goal # "none" => SoundPlan(p, b, head))
    BY <2>3, <2>7 DEF Leaves
  <2> QED
    BY <1>1, <1>2, <1>4, <2>1, <2>2, <2>5, <2>8, PlanStands
<1> QED
  BY <1>3, <1>4

-------------------------------------------------------------------------------
(* What checkpoints that advance leave.                                        *)

(* A checkpoint that advances to a commit of the entry's chain, or of its      *)
(* branch, still owes what is after it.                                        *)
LEMMA AdvancedOwes ==
  ASSUME Git, Table(saved), NEW b \in Names, NEW head \in Commits, Made(head),
         saved[b] # NoEntry, Comparable(saved[b].tip, head),
         NEW x \in Commits, x \notin Between(saved[b].ckpt, head),
         NEW t, t = [ckpt |-> head, tip |-> TipAfter(saved[b], head)]
  PROVE  /\ x \in Recorded(saved[b]) =>
              /\ t # NoEntry /\ t.ckpt = head /\ t.tip = saved[b].tip
              /\ head \in chain[saved[b].tip] /\ head \in chain[x] /\ x \in Recorded(t)
         /\ \A h \in Commits :
              Owed(saved[b], x, b, h) /\ (Holds(b, head) \/ x \in Recorded(saved[b])) =>
                Owed(t, x, b, h)
<1> DEFINE e == saved[b]
<1>1. /\ Tree /\ e.ckpt \in Commits /\ Made(e.ckpt) /\ e.tip \in Commits /\ Made(e.tip)
      /\ Recorded(e) = Between(e.ckpt, e.tip)
  BY EntryTyped DEF Git
<1>2. t # NoEntry /\ t.ckpt = head /\ t.tip = TipAfter(e, head)
  BY NoEntryApart DEF NoEntry
<1>3. ASSUME x \in Recorded(e)
      PROVE  /\ t.tip = e.tip /\ head \in chain[e.tip] /\ head \in chain[x] /\ x \in Recorded(t)
  <2>1. x \in chain[e.tip] /\ x \notin chain[e.ckpt] /\ x \notin chain[head]
    BY <1>1, <1>3 DEF Between
  <2>2. head \in chain[e.tip]
    <3>1. ASSUME e.tip \in chain[head] PROVE FALSE
      BY <1>1, <2>1, <3>1, OnTheChain
    <3> QED
      BY <3>1 DEF Comparable, OnChain
  <2>3. t.tip = e.tip
    BY <1>2, <2>2 DEF TipAfter, OnChain
  <2>4. head \in Nat /\ x \in Nat /\ Made(x)
    BY <1>1, <2>1, <2>2, OnTheChain
  <2>5. ~(x <= head)
    BY <1>1, <2>1, <2>2, OnTheChain
  <2>6. head <= x
    BY <2>4, <2>5
  <2>7. head \in chain[x]
    BY <1>1, <2>1, <2>2, <2>6, OnTheChain
  <2>8. x \in Recorded(t)
    BY <1>2, <2>1, <2>3 DEF Recorded, Between
  <2> QED
    BY <2>2, <2>3, <2>7, <2>8
<1>4. ASSUME NEW h \in Commits, Owed(e, x, b, h), Holds(b, head) \/ x \in Recorded(e)
      PROVE  Owed(t, x, b, h)
  <2>1. x \in chain[h] /\ x \notin chain[e.ckpt] /\ x \notin chain[head]
    BY <1>4 DEF Owed, Between
  <2>2. CASE x \in Recorded(e)
    BY <1>2, <1>3, <2>1, <2>2 DEF Owed, Between, OnChain
  <2>3. CASE x \notin Recorded(e)
    <3>1. Live(b) /\ head \in chain[ref[b]]
      BY <1>4, <2>3 DEF Holds, OnChain
    <3> QED
      BY <1>2, <2>1, <3>1 DEF Owed, Between, OnChain
  <2> QED
    BY <2>2, <2>3
<1> QED
  BY <1>2, <1>3, <1>4

(* What an advance makes of the state file.                                    *)
LEMMA AdvancesTo ==
  ASSUME BatchInv, NEW k \in Hooks, Advance(k), hook[k].then = "advance",
         NEW b, b = hook[k].branch, NEW head, head = hook[k].head
  PROVE  /\ b \in Names /\ head \in Commits /\ Made(head)
         /\ saved' = [saved EXCEPT ![b] = [ckpt |-> head, tip |-> TipAfter(saved[b], head)]]
         /\ saved'[b] = [ckpt |-> head, tip |-> TipAfter(saved[b], head)]
         /\ \A n \in Names : n # b => saved'[n] = saved[n]
         /\ saved[b] # NoEntry => Comparable(saved[b].tip, head) /\ Between(saved[b].ckpt, head) \subseteq reviewed
         /\ holder = k
<1>1. Owns(k) /\ Table(saved) /\ hook[k].pc = "advance"
  BY DEF BatchInv, HookInv, Advance, HookAt
<1>2. /\ b \in Names /\ head \in Commits /\ Made(head) /\ holder = k
      /\ saved[b] # NoEntry => Comparable(saved[b].tip, head) /\ Between(saved[b].ckpt, head) \subseteq reviewed
  BY <1>1 DEF Owns
<1>3. saved \in [Names -> Entry \cup {NoEntry}]
  BY <1>1 DEF Table
<1>4. saved' = [saved EXCEPT ![b] = [ckpt |-> head, tip |-> TipAfter(saved[b], head)]]
  BY DEF Advance
<1>5. PICK t : t = [ckpt |-> head, tip |-> TipAfter(saved[b], head)]
  OBVIOUS
<1>6. saved' = [saved EXCEPT ![b] = t]
  BY <1>4, <1>5
<1>7. saved'[b] = t /\ \A n \in Names : n # b => saved'[n] = saved[n]
  BY <1>2, <1>3, <1>6
<1> QED
  BY <1>2, <1>4, <1>5, <1>7

(* What waits for a commit that is not reviewed still does when a checkpoint   *)
(* advances.                                                                   *)
LEMMA AdvanceLeaves ==
  ASSUME BatchInv, NEW k \in Hooks, Advance(k), hook[k].then = "advance",
         NEW x \in Commits, x \notin reviewed, NEW m \in Names, NEW c \in Commits, Made(c)
  PROVE  /\ Owed(saved[m], x, m, c) /\ (m = hook[k].branch =>
                Holds(m, hook[k].head) \/ x \in Recorded(saved[m])) =>
              Waits(m, c, x)'
         /\ Adopts(x, m, c) => Adopts(x, m, c)'
<1>1. PICK b, head : b = hook[k].branch /\ head = hook[k].head
  OBVIOUS
<1>2. PICK t : t = [ckpt |-> head, tip |-> TipAfter(saved[b], head)]
  OBVIOUS
<1>3. /\ b \in Names /\ head \in Commits /\ Made(head) /\ saved'[b] = t
      /\ \A n \in Names : n # b => saved'[n] = saved[n]
      /\ saved[b] # NoEntry => Comparable(saved[b].tip, head) /\ Between(saved[b].ckpt, head) \subseteq reviewed
      /\ holder = k
  BY <1>1, <1>2, AdvancesTo
<1>4. Git /\ Tree /\ Table(saved) /\ hook \in [Hooks -> HookRow] /\ chain' = chain /\ ref' = ref
  BY DEF BatchInv, Git, PTypeOK, Advance, OnlyHook
<1>5. Steady(m, x)'
  <2>1. Stepped(k, Ended(k)) /\ Ended(k).then = "keep"
    BY <1>4, AdvanceStepped, EndedTyped
  <2>2. \A j \in Hooks : hook'[j].then = "keep"
    BY <1>3, <2>1, NobodyMoves DEF Stepped
  <2> QED
    BY <2>2 DEF Steady
<1>6. ASSUME Owed(saved[m], x, m, c), m = b => Holds(m, head) \/ x \in Recorded(saved[m])
      PROVE  Waits(m, c, x)'
  <2>1. Owed(saved'[m], x, m, c)
    <3>1. CASE m # b
      BY <1>3, <1>6, <3>1
    <3>2. CASE m = b
      <4>1. saved[b] # NoEntry
        BY <1>6, <3>2 DEF Owed
      <4>2. x \notin Between(saved[b].ckpt, head) /\ Comparable(saved[b].tip, head)
        BY <1>3, <4>1
      <4> QED
        BY <1>2, <1>3, <1>4, <1>6, <3>2, <4>1, <4>2, AdvancedOwes
    <3> QED
      BY <3>1, <3>2
  <2>2. PICK e : e = saved'[m]
    OBVIOUS
  <2>3. Owed(saved[m], x, m, c)'
    BY <1>4, <2>1, <2>2, OwedNow
  <2> QED
    BY <1>5, <2>3 DEF Waits
<1>7. ASSUME NEW n \in Orphans(m, c, saved), x \in Recorded(saved[n]) PROVE Adopts(x, m, c)'
  <2>1. n \in Names \ {m} /\ saved[n] # NoEntry /\ ~Live(n) /\ saved[n].ckpt \in chain[c]
        /\ saved[n].tip \in chain[c]
    BY <1>7 DEF Orphans, OnChain
  <2>2. /\ saved'[n] # NoEntry /\ saved'[n].ckpt \in chain[c] /\ saved'[n].tip \in chain[c]
        /\ x \in Recorded(saved'[n])
    <3>1. CASE n # b
      BY <1>3, <1>7, <2>1, <3>1
    <3>2. CASE n = b
      <4>1. x \notin Between(saved[b].ckpt, head) /\ Comparable(saved[b].tip, head)
        BY <1>3, <2>1, <3>2
      <4>2. /\ t # NoEntry /\ t.ckpt = head /\ t.tip = saved[b].tip
            /\ head \in chain[saved[b].tip] /\ x \in Recorded(t)
        BY <1>2, <1>3, <1>4, <1>7, <2>1, <3>2, <4>1, AdvancedOwes
      <4>3. chain[saved[b].tip] \subseteq chain[c]
        BY <1>4, <2>1, <3>2, OnTheChain
      <4> QED
        BY <1>3, <2>1, <3>2, <4>2, <4>3
    <3> QED
      BY <3>1, <3>2
  <2>3. n \in Orphans(m, c, saved)' /\ x \in Recorded(saved[n])'
    BY <1>4, <2>1, <2>2 DEF Orphans, Live, OnChain, Recorded, Between
  <2> QED
    BY <2>3 DEF Adopts
<1> QED
  BY <1>1, <1>6, <1>7 DEF Adopts

(* The drain of an entry leaves what does not wait for that entry.             *)
LEMMA ClearStands ==
  ASSUME BatchInv, RowRests, NEW k \in Hooks, k # PushHook, Advance(k), hook[k].then = "clear",
         NEW x \in hook'[PushHook].due, Served(x)
  PROVE  Served(x)'
<1>1. PICK b, h : b = hook[k].branch /\ h = hook[PushHook]
  OBVIOUS
<1>2. /\ b \in Names /\ Live(b) /\ holder = k /\ Table(saved) /\ hook \in [Hooks -> HookRow]
      /\ UNCHANGED <<chain, ref, reviewed>>
  BY <1>1 DEF BatchInv, HookInv, Owns, PTypeOK, Advance, OnlyHook
<1>3. \A m \in Names : m # b => saved'[m] = saved[m]
  BY <1>1, <1>2 DEF Advance, Table
<1>4. x \notin Awaited(b)
  BY <1>1, <1>2, AdvanceStepped
<1>5. \A m : Steady(m, x)'
  <2>1. Stepped(k, Ended(k)) /\ Ended(k).then = "keep"
    BY <1>2, AdvanceStepped, EndedTyped
  <2>2. \A j \in Hooks : hook'[j].then = "keep"
    BY <1>2, <2>1, NobodyMoves DEF Stepped
  <2> QED
    BY <2>2 DEF Steady
<1>6. ASSUME NEW f \in h.todo \cup {h}, f.branch \in Names, Waits(f.branch, f.head, x)
      PROVE  Waits(f.branch, f.head, x)'
  <2>1. Owed(saved[f.branch], x, f.branch, f.head)
    BY <1>6 DEF Waits
  <2>2. f.branch # b
    BY <1>1, <1>4, <1>6, <2>1 DEF Owed, Awaited
  <2>3. PICK e : e = saved'[f.branch]
    OBVIOUS
  <2>4. Owed(saved[f.branch], x, f.branch, f.head)'
    BY <1>2, <1>3, <1>6, <2>1, <2>2, <2>3, OwedNow
  <2> QED
    BY <1>5, <2>4 DEF Waits
<1>7. ASSUME NEW m \in Names, NEW c, Adopts(x, m, c) PROVE Adopts(x, m, c)'
  <2>1. PICK n \in Orphans(m, c, saved) : x \in Recorded(saved[n])
    BY <1>7 DEF Adopts
  <2>2. n \in Names /\ n # b
    BY <1>2, <2>1 DEF Orphans
  <2>3. n \in Orphans(m, c, saved)' /\ x \in Recorded(saved[n])'
    BY <1>2, <1>3, <2>1, <2>2 DEF Orphans, Live, OnChain, Recorded, Between
  <2> QED
    BY <2>3 DEF Adopts
<1>8. h \in HookRow /\ \A f \in h.todo : f.branch \in Names
  BY <1>1, <1>2, HookNames DEF HookRow, Flush
<1>9. /\ hook'[PushHook].pc = h.pc /\ hook'[PushHook].todo = h.todo
      /\ hook'[PushHook].branch = h.branch /\ hook'[PushHook].head = h.head
      /\ hook'[PushHook].range = h.range
  BY <1>1 DEF RowRests
<1>10. CASE x \in reviewed
  BY <1>2, <1>10 DEF Served
<1>11. ASSUME NEW f \in h.todo, Serves(f, x) PROVE Served(x)'
  <2>1. Waits(f.branch, f.head, x)' \/ (f.named /\ Adopts(x, f.branch, f.head)')
    BY <1>6, <1>7, <1>8, <1>11 DEF Serves
  <2>2. Serves(f, x)'
    BY <2>1 DEF Serves
  <2> QED
    BY <1>9, <2>2 DEF Served
<1>12. CASE InHand(h, x)
  <2>1. h.pc = "lock" => h.branch \in Names
    BY <1>1, HookNames DEF BatchInv, HookInv
  <2>2. PICK m, c : m = h.branch /\ c = h.head
    OBVIOUS
  <2>3. \/ h.pc = "lock" /\ Waits(m, c, x)'
        \/ h.pc = "lock" /\ Adopts(x, m, c)'
        \/ h.pc = "send" /\ x \in h.range
    BY <1>6, <1>7, <1>12, <2>1, <2>2 DEF InHand
  <2>4. InHand(hook[PushHook], x)'
    BY <1>9, <2>2, <2>3 DEF InHand
  <2> QED
    BY <2>4 DEF Served
<1> QED
  BY <1>1, <1>10, <1>11, <1>12 DEF Served

(* An advance of another hook has had reviewed what it moves the entry past.   *)
LEMMA AdvanceStands ==
  ASSUME BatchInv, PushInv, NEW k \in Hooks, k # PushHook, Advance(k)
  PROVE  PushInv'
<1>1. /\ hook \in [Hooks -> HookRow] /\ hook[k] \in HookRow /\ PushHook \in Hooks
      /\ UNCHANGED <<chain, ref, pushed, reviewed, mishaps>>
  BY HookNames DEF BatchInv, PTypeOK, Advance, OnlyHook
<1>2. /\ Stepped(k, Ended(k)) /\ Ended(k).then = "keep"
      /\ hook'[PushHook].due \subseteq hook[PushHook].due
  BY <1>1, AdvanceStepped, EndedTyped
<1>3. RowRests /\ Grows /\ Quieter
  BY <1>1, <1>2 DEF RowRests, Stepped, Grows, Live, Quieter
<1>4. CASE hook[k].then = "keep"
  <2>1. saved' = saved
    BY <1>4 DEF Advance
  <2> QED
    BY <1>1, <1>2, <1>3, <2>1, PushStands
<1>5. CASE hook[k].then = "clear"
  <2>1. ASSUME ~Idle(PushHook), mishaps = 0, NEW x \in hook'[PushHook].due PROVE Served(x)'
    <3>1. Served(x)
      BY <1>2, <2>1 DEF PushInv, Idle
    <3> QED
      BY <1>3, <1>5, <2>1, <3>1, ClearStands
  <2> QED
    BY <1>1, <1>3, <2>1, PushHeld
<1>6. CASE hook[k].then = "advance"
  <2>1. ASSUME ~Idle(PushHook), mishaps = 0, NEW x \in hook'[PushHook].due PROVE Served(x)'
    <3>1. Served(x) /\ x \in Commits
      BY <1>1, <1>2, <2>1 DEF PushInv, Idle, HookRow
    <3>2. ASSUME NEW m \in Names, NEW c \in Commits, Made(c), x \notin reviewed
          PROVE  (Waits(m, c, x) => Waits(m, c, x)') /\ (Adopts(x, m, c) => Adopts(x, m, c)')
      <4>1. Waits(m, c, x) /\ m = hook[k].branch => Holds(m, hook[k].head) \/ x \in Recorded(saved[m])
        BY <1>6 DEF Waits, Steady
      <4> QED
        BY <1>6, <3>1, <3>2, <4>1, AdvanceLeaves DEF Waits
    <3> QED
      BY <1>1, <1>3, <3>1, <3>2, StillServed
  <2> QED
    BY <1>1, <1>3, <2>1, PushHeld
<1> QED
  BY <1>1, <1>4, <1>5, <1>6 DEF HookRow

-------------------------------------------------------------------------------
(* The steps of the push.                                                      *)

(* Of the ancestors an entry shares with the heads, the longest that is taken  *)
(* along has what the others have, unless the entry goes two ways.             *)
LEMMA FurthestHas ==
  ASSUME Git, Table(saved), NEW heads, \A h \in heads : h \in Commits /\ Made(h), NEW named,
         NEW n \in Names, saved[n] # NoEntry, ~Torn(n, heads, named),
         NEW far \in Furthest(n, heads, named), NEW c \in Carried(n, heads, named)
  PROVE  c \in chain[far]
<1> DEFINE e == saved[n]
<1>1. Tree /\ e.ckpt \in Commits /\ Made(e.ckpt)
  BY EntryTyped DEF Git
<1>2. far \in Carried(n, heads, named) /\ Distance(e.ckpt, c) <= Distance(e.ckpt, far)
  BY DEF Furthest
<1>3. far \in Commits /\ Made(far) /\ c \in Commits /\ Made(c)
  BY <1>2, CarriedTyped
<1>4. OnChain(c, far) \/ OnChain(far, c)
  BY <1>2 DEF Torn
<1>5. CASE OnChain(far, c)
  <2>1. chain[far] \subseteq chain[c]
    BY <1>1, <1>3, <1>5, OnTheChain DEF OnChain
  <2>2. Between(e.ckpt, far) \subseteq Between(e.ckpt, c) /\ IsFiniteSet(Between(e.ckpt, c))
    BY <1>1, <1>3, <2>1, BetweenTyped DEF Between
  <2>3. /\ Cardinality(Between(e.ckpt, far)) <= Cardinality(Between(e.ckpt, c))
        /\ Cardinality(Between(e.ckpt, c)) = Cardinality(Between(e.ckpt, far)) =>
             Between(e.ckpt, c) = Between(e.ckpt, far)
    BY <2>2, FS_Subset
  <2>4. Cardinality(Between(e.ckpt, c)) = Cardinality(Between(e.ckpt, far))
    BY <1>1, <1>2, <1>3, <2>3, BetweenTyped DEF Distance
  <2>5. c \in chain[c] /\ c \notin chain[e.ckpt]
    <3>1. e.ckpt \in chain[c] /\ c # e.ckpt
      BY DEF Carried, OnChain
    <3>2. e.ckpt <= c /\ c \in Nat /\ e.ckpt \in Nat /\ c \in chain[c]
      BY <1>1, <1>3, <3>1, OnTheChain
    <3>3. c \in chain[e.ckpt] => c <= e.ckpt
      BY <1>1, OnTheChain
    <3> QED
      BY <3>1, <3>2, <3>3
  <2> QED
    BY <2>3, <2>4, <2>5 DEF Between
<1> QED
  BY <1>4, <1>5 DEF OnChain

(* What a pushed head and an entry share is flushed if a pending commit is     *)
(* among it.                                                                   *)
LEMMA CarriedFar ==
  ASSUME Git, Table(saved), NEW heads, \A h \in heads : h \in Commits /\ Made(h), NEW named,
         NEW n \in Names, saved[n] # NoEntry, ~Torn(n, heads, named),
         NEW far, \A m \in Carriers(heads, named) : far[m] \in Furthest(m, heads, named),
         NEW t \in Tips(n, heads, named), NEW h \in heads,
         NEW x, x \in chain[t], x \in chain[h], x \notin chain[saved[n].ckpt],
         saved[n].ckpt \in chain[x]
  PROVE  /\ n \in Carriers(heads, named) /\ x \in Between(saved[n].ckpt, far[n])
         /\ far[n] \in Commits /\ Made(far[n])
<1> DEFINE e == saved[n]
<1>1. Tree /\ e.ckpt \in Commits /\ Made(e.ckpt) /\ t \in Commits /\ Made(t)
  BY EntryTyped, CarriedTyped DEF Git
<1>2. PICK c : c = Fork(t, h)
  OBVIOUS
<1>3. x \in Commits /\ Made(x) /\ x \in chain[c] /\ c \in chain[h]
  BY <1>1, <1>2, ForkIn, OnTheChain
<1>4. c \in Commits /\ Made(c) /\ chain[x] \subseteq chain[c]
  BY <1>1, <1>3, OnTheChain
<1>5. e.ckpt \in chain[c] /\ c # e.ckpt
  BY <1>3, <1>4
<1>6. c \in Carried(n, heads, named)
  BY <1>2, <1>5 DEF Carried, OnChain
<1>7. n \in Carriers(heads, named)
  BY <1>6 DEF Carriers
<1>8. far[n] \in Furthest(n, heads, named)
  BY <1>7
<1>9. c \in chain[far[n]]
  BY <1>6, <1>8, FurthestHas
<1>10. far[n] \in Commits /\ Made(far[n])
  BY <1>8, CarriedTyped DEF Furthest
<1>11. x \in chain[far[n]]
  BY <1>1, <1>3, <1>9, <1>10, OnTheChain
<1> QED
  BY <1>7, <1>10, <1>11 DEF Between

(* What an intact entry has recorded of the history that is pushed, and does   *)
(* not go two ways, some flush of the push will find.                          *)
LEMMA PushServes ==
  ASSUME Git, Table(saved), NEW named \in SUBSET Names, \A b \in named : Live(b),
         NEW heads, \A h \in heads : h \in Commits /\ Made(h), \A b \in named : ref[b] \in heads,
         NEW far, \A m \in Carriers(heads, named) : far[m] \in Furthest(m, heads, named),
         NEW n \in Names, Intact(saved[n]), ~Torn(n, heads, named),
         NEW x \in Recorded(saved[n]), NEW h \in heads, x \in chain[h]
  PROVE  \E f \in Flushes(named, Carriers(heads, named), far) : Serves(f, x)
<1> DEFINE e == saved[n]
           T == Tips(n, heads, named)
           F == Flushes(named, Carriers(heads, named), far)
<1>1. /\ e # NoEntry /\ e.ckpt \in Commits /\ Made(e.ckpt) /\ e.tip \in Commits /\ Made(e.tip)
      /\ Tree /\ e.ckpt \in chain[e.tip] /\ x \in chain[e.tip] /\ x \notin chain[e.ckpt]
  BY EntryTyped DEF Intact, OnChain, Git, Between
<1>2. x \in Commits /\ Made(x) /\ e.ckpt \in chain[x]
  <2>1. x \in Commits /\ Made(x) /\ x \in Nat /\ e.ckpt \in Nat
    BY <1>1, OnTheChain
  <2>2. ~(x <= e.ckpt)
    BY <1>1, OnTheChain
  <2>3. e.ckpt <= x
    BY <2>1, <2>2
  <2> QED
    BY <1>1, <2>1, <2>3, OnTheChain
<1>3. \A b \in Names : Live(b) => ref[b] \in Commits /\ Made(ref[b])
  BY LiveTyped DEF Git
<1>4. Steady(n, x)
  BY DEF Steady
<1>5. ASSUME NEW head, x \in chain[head] PROVE Waits(n, head, x)
  BY <1>1, <1>2, <1>4, <1>5 DEF Waits, Owed, Between, OnChain
<1>6. ASSUME NEW t \in T, x \in chain[t] PROVE \E f \in F : Serves(f, x)
  <2>1. /\ n \in Carriers(heads, named) /\ x \in Between(e.ckpt, far[n])
    BY <1>1, <1>2, <1>6, CarriedFar
  <2>2. PICK f : f = [branch |-> n, head |-> far[n], named |-> FALSE]
    OBVIOUS
  <2>3. f \in F
    BY <2>1, <2>2 DEF Flushes
  <2>4. Waits(n, far[n], x)
    BY <1>5, <2>1 DEF Between
  <2> QED
    BY <2>2, <2>3, <2>4 DEF Serves
<1>7. CASE n \in named /\ x \in chain[ref[n]]
  <2>1. PICK f : f = [branch |-> n, head |-> ref[n], named |-> TRUE]
    OBVIOUS
  <2>2. f \in F
    BY <1>7, <2>1 DEF Flushes
  <2>3. Waits(n, ref[n], x)
    BY <1>5, <1>7
  <2> QED
    BY <2>1, <2>2, <2>3 DEF Serves
<1>8. CASE Live(n) /\ x \notin chain[ref[n]]
  <2>1. ~OnChain(e.tip, ref[n])
    BY <1>1, <1>3, <1>8, OnTheChain DEF OnChain
  <2>2. e.tip \in T
    BY <1>8, <2>1 DEF Tips
  <2> QED
    BY <1>1, <1>6, <2>2
<1>9. CASE n \notin named /\ Live(n) /\ x \in chain[ref[n]]
  <2>1. ref[n] \in T
    BY <1>9 DEF Tips
  <2> QED
    BY <1>6, <1>9, <2>1
<1>10. CASE ~Live(n) /\ \E b \in named : OnChain(e.tip, ref[b])
  <2>1. PICK b \in named : e.tip \in chain[ref[b]]
    BY <1>10 DEF OnChain
  <2>2. b # n /\ b \in Names /\ Live(b)
    BY <1>10
  <2>3. e.ckpt \in chain[ref[b]]
    BY <1>1, <1>3, <2>1, <2>2, OnTheChain
  <2>4. n \in Orphans(b, ref[b], saved)
    BY <1>1, <1>10, <2>1, <2>2, <2>3 DEF Orphans, OnChain
  <2>5. PICK f : f = [branch |-> b, head |-> ref[b], named |-> TRUE]
    OBVIOUS
  <2>6. f \in F
    BY <2>5 DEF Flushes
  <2>7. Adopts(x, b, ref[b])
    BY <2>4 DEF Adopts
  <2> QED
    BY <2>5, <2>6, <2>7 DEF Serves
<1>11. CASE ~Live(n) /\ ~\E b \in named : OnChain(e.tip, ref[b])
  <2>1. e.tip \in T
    BY <1>11 DEF Tips
  <2> QED
    BY <1>1, <1>6, <2>1
<1> QED
  BY <1>7, <1>8, <1>9, <1>10, <1>11

(* What a stored plan saves, and what may come of it.                          *)
LEMMA StoredPlans ==
  ASSUME NEW b, NEW head
  PROVE  LET p == PlanStored(b, head) IN
         p.saved = Resolved(b, head) /\ p.goal \in {"none", "send"}
BY DEF PlanStored, Recovery, Plan

(* What a push has planned to review is under way, what it leaves is with the  *)
(* flushes that are left.                                                      *)
LEMMA PushFollows ==
  ASSUME BatchInv, PushInv, PlanOfPush
  PROVE  PushInv'
<1> DEFINE h == hook[PushHook]
<1>1. SUFFICES ASSUME mishaps' = 0
               PROVE  /\ pushed' \subseteq reviewed' /\ FlushesLeft'
                      /\ \A x \in hook'[PushHook].due : Served(x)'
  BY DEF PushInv
<1>2. /\ h.pc = "lock" /\ holder = Nobody /\ UNCHANGED <<chain, ref, pushed, reviewed, mishaps>>
      /\ Follow(PushHook, h.branch, h.head, PlanStored(h.branch, h.head))
  BY DEF PlanOfPush, Entered, HookAt, OnlyHook
<1>3. /\ pushed \subseteq reviewed /\ FlushesLeft
      /\ \A x \in h.due : Served(x)
  BY <1>1, <1>2 DEF PushInv
<1>4. Git /\ Table(saved) /\ h \in HookRow /\ hook \in [Hooks -> HookRow] /\ PushHook \in Hooks
      /\ HookInv(PushHook)
  BY HookNames DEF BatchInv, PTypeOK
<1>5. PICK b \in Names, head \in Commits : b = h.branch /\ head = h.head /\ Made(head)
  BY <1>2, <1>4 DEF HookInv
<1>6. PICK p, r : p = PlanStored(b, head) /\ r = Resolved(b, head)
  OBVIOUS
<1>7. p.saved = r /\ p.goal \in {"none", "send"} /\ SoundPlan(p, b, head)
  BY <1>4, <1>5, <1>6, StoredPlans, StoredSound
<1>8. PICK d : d = Doing(PushHook, b, head, p)
  OBVIOUS
<1>9. /\ d \in HookRow /\ Stepped(PushHook, d) /\ hook'[PushHook].due = d.due /\ saved' = r
  <2>1. Follow(PushHook, b, head, p)
    BY <1>2, <1>5, <1>6
  <2>2. d \in HookRow
    BY <1>4, <1>7, <1>8, DoingTyped
  <2>3. Stepped(PushHook, d) /\ hook'[PushHook].due = d.due
    BY <1>4, <1>8, <2>1, <2>2, FollowStepped
  <2>4. saved' = p.saved
    BY <2>1 DEF Follow
  <2> QED
    BY <1>7, <2>2, <2>3, <2>4
<1>10. \A f \in h.todo : /\ f \in Flush /\ f.branch \in Names /\ f.head \in Commits /\ Made(f.head)
                         /\ f.named \/ f.branch = b => Live(b) /\ Holds(b, head)
                         /\ f.named => Holds(f.branch, f.head)
  <2>1. \A f \in h.todo : f \in Flush /\ Made(f.head)
    BY <1>4 DEF HookRow, HookInv
  <2>2. \A f \in h.todo : f.named \/ f.branch = b => Holds(b, head)
    BY <1>2, <1>3, <1>5 DEF FlushesLeft
  <2>3. \A f \in h.todo : f.named => Holds(f.branch, f.head)
    BY <1>3 DEF FlushesLeft
  <2> QED
    BY <2>1, <2>2, <2>3 DEF Flush, Holds
<1>11. \A n \in Names, x \in Commits : Steady(n, x)'
  <2>1. \A j \in Hooks \ {PushHook} : hook'[j].then = "keep"
    <3>1. \A j \in Hooks \ {Nobody} : hook[j].then = "keep"
      BY <1>2, NobodyMoves
    <3> QED
      BY <1>9, <3>1, HookNames DEF Stepped
  <2> QED
    BY <2>1 DEF Steady
<1>12. ASSUME NEW x \in h.due
       PROVE  \/ x \in reviewed
              \/ r[b] # NoEntry /\ x \in Between(r[b].ckpt, head)
              \/ \E f \in h.todo : Serves(f, x)'
  <2>1. x \in Commits /\ Served(x)
    BY <1>3, <1>4, <1>12 DEF HookRow
  <2>2. PICK now : now = (r[b] # NoEntry /\ x \in Between(r[b].ckpt, head))
    OBVIOUS
  <2>3. /\ Owed(saved[b], x, b, head) \/ Adopts(x, b, head) => now
        /\ \A m \in Names, c \in Commits :
             Made(c) /\ Owed(saved[m], x, m, c) /\ (m = b => Holds(b, head)) =>
               Owed(r[m], x, m, c) \/ now
        /\ \A n \in Names : n # b /\ ~Live(n) /\ saved[n] # NoEntry =>
             r[n] = saved[n] \/ (x \in Recorded(saved[n]) => now)
    BY <1>4, <1>5, <1>6, <2>1, <2>2, ResolvedServes
  <2>4. ASSUME NEW f \in h.todo, Waits(f.branch, f.head, x), ~now PROVE Serves(f, x)'
    <3>1. Owed(r[f.branch], x, f.branch, f.head)
      BY <1>10, <2>3, <2>4 DEF Waits
    <3>2. saved'[f.branch] = r[f.branch]
      BY <1>9
    <3>3. PICK m, c, e : m = f.branch /\ c = f.head /\ e = r[f.branch]
      OBVIOUS
    <3>4. Owed(saved[m], x, m, c)'
      BY <1>2, <3>1, <3>2, <3>3, OwedNow
    <3>5. Steady(m, x)'
      BY <1>10, <1>11, <2>1, <3>3
    <3> QED
      BY <3>3, <3>4, <3>5 DEF Serves, Waits
  <2>5. ASSUME NEW f \in h.todo, f.named, NEW n \in Orphans(f.branch, f.head, saved),
               x \in Recorded(saved[n]), ~now
        PROVE  Serves(f, x)'
    <3>1. n \in Names \ {f.branch} /\ saved[n] # NoEntry /\ ~Live(n)
          /\ OnChain(saved[n].ckpt, f.head) /\ OnChain(saved[n].tip, f.head)
      BY <2>5 DEF Orphans
    <3>2. Live(b)
      BY <1>10, <2>5
    <3>3. saved'[n] = saved[n]
      BY <1>9, <2>3, <2>5, <3>1, <3>2
    <3>4. n \in Orphans(f.branch, f.head, saved)' /\ x \in Recorded(saved[n])'
      BY <1>2, <2>5, <3>1, <3>3 DEF Orphans, Live, OnChain, Recorded, Between
    <3> QED
      BY <2>5, <3>4 DEF Serves, Adopts
  <2>6. ASSUME InHand(h, x) PROVE now
    BY <1>2, <1>5, <2>3, <2>6 DEF InHand, Waits
  <2> QED
    BY <2>1, <2>2, <2>4, <2>5, <2>6 DEF Served, Serves, Adopts
<1>13. CASE p.goal = "none"
  <2>1. d = [NoHook EXCEPT !.pc = "next", !.todo = h.todo, !.due = h.due]
    BY <1>8, <1>13 DEF Doing, Ended
  <2>2. hook'[PushHook].pc = "next" /\ hook'[PushHook].todo = h.todo /\ hook'[PushHook].due = h.due
    BY <1>9, <2>1 DEF NoHook, Stepped
  <2>3. FlushesLeft'
    <3>1. \A n, c : Holds(n, c) => Holds(n, c)'
      BY <1>2 DEF Holds, Live, OnChain
    <3> QED
      BY <1>3, <2>2, <3>1 DEF FlushesLeft
  <2>4. ASSUME NEW x \in h.due PROVE Served(x)'
    <3>1. r[b] = NoEntry \/ Between(r[b].ckpt, head) = {}
      BY <1>6, <1>13, StoredSends
    <3>2. x \in reviewed \/ \E f \in h.todo : Serves(f, x)'
      BY <1>12, <2>4, <3>1
    <3> QED
      BY <1>2, <2>2, <3>2 DEF Served
  <2> QED
    BY <1>2, <1>3, <2>2, <2>3, <2>4
<1>14. CASE p.goal = "send"
  <2>1. d = [h EXCEPT !.pc = "send", !.branch = b, !.head = head, !.range = p.range, !.then = p.then]
    BY <1>8, <1>14 DEF Doing
  <2>2. /\ hook'[PushHook].pc = "send" /\ hook'[PushHook].todo = h.todo
        /\ hook'[PushHook].due = h.due /\ hook'[PushHook].branch = b
        /\ hook'[PushHook].head = head /\ hook'[PushHook].range = p.range
    BY <1>4, <1>9, <2>1 DEF HookRow, Stepped
  <2>3. FlushesLeft'
    <3>1. \A n, c : Holds(n, c) => Holds(n, c)'
      BY <1>2 DEF Holds, Live, OnChain
    <3>2. \A f \in h.todo : (f.named \/ f.branch = b => Holds(b, head)') /\ (f.named => Holds(f.branch, f.head)')
      BY <1>10, <3>1
    <3> QED
      BY <1>3, <1>5, <2>2, <3>2 DEF FlushesLeft
  <2>4. ASSUME NEW x \in h.due PROVE Served(x)'
    <3>1. ASSUME r[b] # NoEntry, x \in Between(r[b].ckpt, head) PROVE Served(x)'
      <4>1. Between(r[b].ckpt, head) # {}
        BY <3>1
      <4>2. p.range = Between(r[b].ckpt, head)
        BY <1>6, <3>1, <4>1, StoredSends
      <4> QED
        BY <2>2, <3>1, <4>2 DEF Served, InHand
    <3>2. CASE x \in reviewed
      BY <1>2, <3>2 DEF Served
    <3> QED
      BY <1>12, <2>2, <2>4, <3>1, <3>2 DEF Served
  <2> QED
    BY <1>2, <1>3, <2>2, <2>3, <2>4
<1> QED
  BY <1>7, <1>13, <1>14

(* A push takes the flushes of the branches it names first.                    *)
LEMMA PushTakes ==
  ASSUME BatchInv, PushInv, NEW f \in hook[PushHook].todo, NextFlush(f)
  PROVE  PushInv'
<1> DEFINE h == hook[PushHook]
<1>1. SUFFICES ASSUME mishaps' = 0
               PROVE  /\ pushed' \subseteq reviewed' /\ FlushesLeft'
                      /\ \A x \in hook'[PushHook].due : Served(x)'
  BY DEF PushInv
<1>2. /\ h.pc = "next" /\ UNCHANGED <<chain, ref, saved, pushed, reviewed, mishaps>>
      /\ f.named \/ ~\E g \in h.todo : g.named
      /\ hook' = [hook EXCEPT ![PushHook].pc = "lock", ![PushHook].branch = f.branch,
                              ![PushHook].head = f.head, ![PushHook].todo = @ \ {f}]
  BY DEF NextFlush, HookAt, OnlyHook
<1>3. /\ pushed \subseteq reviewed /\ FlushesLeft
      /\ \A x \in h.due : Served(x)
  BY <1>1, <1>2 DEF PushInv
<1>4. h \in HookRow /\ hook \in [Hooks -> HookRow] /\ PushHook \in Hooks
  BY HookNames DEF BatchInv, PTypeOK
<1>5. /\ hook'[PushHook].pc = "lock" /\ hook'[PushHook].todo = h.todo \ {f}
      /\ hook'[PushHook].due = h.due /\ hook'[PushHook].branch = f.branch
      /\ hook'[PushHook].head = f.head
  BY <1>2, <1>4 DEF HookRow
<1>6. \A g \in h.todo : g.named \in BOOLEAN
  BY <1>4 DEF HookRow, Flush
<1>7. FlushesLeft'
  <2>1. \A g \in h.todo : g.named = f.named /\ g.branch = f.branch => g = f
    BY <1>3 DEF FlushesLeft
  <2>2. \A g \in h.todo : g.named => f.named
    BY <1>2
  <2>3. \A g \in h.todo \ {f} : g.named \/ g.branch = f.branch => f.named
    BY <1>6, <2>1, <2>2
  <2>4. f.named => f.branch \in Names /\ Holds(f.branch, f.head)
    BY <1>3, <1>4 DEF FlushesLeft, HookRow, Flush
  <2>5. \A n, c : Holds(n, c) => Holds(n, c)'
    BY <1>2 DEF Holds, Live, OnChain
  <2>6. \A g \in h.todo : g.named => Holds(g.branch, g.head)'
    BY <1>3, <2>5 DEF FlushesLeft
  <2>7. f.named => Holds(f.branch, f.head)'
    BY <2>4, <2>5
  <2> QED
    BY <1>3, <1>5, <2>3, <2>4, <2>6, <2>7 DEF FlushesLeft
<1>8. ASSUME NEW x \in h.due PROVE Served(x)'
  <2>1. Served(x)
    BY <1>3, <1>8
  <2>2. ASSUME NEW g, Serves(g, x)
        PROVE  \/ Waits(g.branch, g.head, x)'
               \/ g.named /\ Adopts(x, g.branch, g.head)'
    <3>1. Owed(saved[g.branch], x, g.branch, g.head) => Owed(saved[g.branch], x, g.branch, g.head)'
      BY <1>2 DEF Owed, Between, OnChain, Live, Recorded
    <3>2. Adopts(x, g.branch, g.head) => Adopts(x, g.branch, g.head)'
      BY <1>2 DEF Adopts, Orphans, Between, OnChain, Live, Recorded
    <3>3. Steady(g.branch, x) => Steady(g.branch, x)'
      <4>1. \A k \in Hooks \ {PushHook} : hook'[k] = hook[k]
        BY <1>2, <1>4
      <4>2. \A n, c : Holds(n, c) => Holds(n, c)'
        BY <1>2 DEF Holds, Live, OnChain
      <4>3. x \in Recorded(saved[g.branch]) => x \in Recorded(saved[g.branch])'
        BY <1>2 DEF Recorded, Between
      <4> QED
        BY <4>1, <4>2, <4>3 DEF Steady
    <3> QED
      BY <2>2, <3>1, <3>2, <3>3 DEF Serves, Waits
  <2>3. CASE x \in reviewed
    BY <1>2, <2>3 DEF Served
  <2>4. ASSUME NEW g \in h.todo, g # f, Serves(g, x) PROVE Served(x)'
    BY <1>5, <2>2, <2>4 DEF Served, Serves
  <2>5. CASE Serves(f, x)
    <3>1. InHand(hook[PushHook], x)'
      BY <1>5, <2>2, <2>5 DEF InHand
    <3> QED
      BY <3>1 DEF Served
  <2> QED
    BY <1>2, <2>1, <2>3, <2>4, <2>5 DEF Served, InHand
<1> QED
  BY <1>2, <1>3, <1>5, <1>7, <1>8

(* A request that is served has reviewed what was in hand.                     *)
LEMMA PushSends ==
  ASSUME BatchInv, PushInv, Enqueue(PushHook)
  PROVE  PushInv'
<1> DEFINE h == hook[PushHook]
<1>1. SUFFICES ASSUME mishaps' = 0
               PROVE  /\ pushed' \subseteq reviewed' /\ FlushesLeft'
                      /\ \A x \in hook'[PushHook].due : Served(x)'
  BY DEF PushInv
<1>2. h \in HookRow /\ hook \in [Hooks -> HookRow] /\ PushHook \in Hooks /\ mishaps \in Nat
  BY HookNames, PostCommitAssumption DEF BatchInv, PTypeOK
<1>3. ~Mishap
  BY <1>1, <1>2 DEF Mishap
<1>4. mishaps' = mishaps /\ UNCHANGED <<chain, ref, saved, pushed>>
      /\ hook' = [hook EXCEPT ![PushHook].pc = "advance"]
  BY <1>3 DEF Enqueue, Send, Works, HookGoTo, OnlyHook
<1>5. /\ pushed \subseteq reviewed /\ FlushesLeft
      /\ h.pc # "idle" => \A x \in h.due : Served(x)
  BY <1>1, <1>4 DEF PushInv
<1>6. h.pc = "send" /\ reviewed' = reviewed \cup h.range
  BY <1>3, <1>5 DEF Enqueue, Send, HookAt, FlushesLeft
<1>7. /\ hook'[PushHook].pc = "advance" /\ hook'[PushHook].todo = h.todo
      /\ hook'[PushHook].due = h.due /\ hook'[PushHook].branch = h.branch
      /\ hook'[PushHook].head = h.head
  BY <1>2, <1>4 DEF HookRow
<1>8. FlushesLeft'
  <2>1. \A n, c : Holds(n, c) => Holds(n, c)'
    BY <1>4 DEF Holds, Live, OnChain
  <2>2. Holds(h.branch, h.head) => Holds(h.branch, h.head)'
    BY <1>7, <2>1
  <2> QED
    BY <1>5, <1>6, <1>7, <2>1, <2>2 DEF FlushesLeft
<1>9. Grows /\ Quieter
  BY <1>2, <1>4 DEF Grows, Quieter, Live
<1>10. ASSUME NEW x \in h.due PROVE Served(x)'
  <2>1. Served(x) /\ Git /\ Table(saved) /\ HookInv(PushHook)
    BY <1>2, <1>5, <1>6, <1>10 DEF BatchInv
  <2>2. ASSUME NEW g \in h.todo, Serves(g, x) PROVE Served(x)'
    <3>1. PICK m \in Names, c \in Commits : m = g.branch /\ c = g.head /\ Made(c)
      BY <1>2, <2>1, <2>2 DEF HookRow, Flush, HookInv
    <3>2. Waits(m, c, x) => Waits(m, c, x)'
      BY <1>4, <1>9, <2>1, <3>1, OwedStays, SteadyStays DEF Waits
    <3>3. Adopts(x, m, c) => Adopts(x, m, c)'
      BY <1>4, <1>9, <2>1, <3>1, OwedStays
    <3>4. Serves(g, x)'
      BY <2>2, <3>1, <3>2, <3>3 DEF Serves
    <3> QED
      BY <1>7, <2>2, <3>4 DEF Served
  <2>3. CASE x \in reviewed'
    BY <2>3 DEF Served
  <2> QED
    BY <1>6, <2>1, <2>2, <2>3 DEF Served, InHand
<1> QED
  BY <1>4, <1>5, <1>6, <1>7, <1>8, <1>10

(* A checkpoint that a push advances still owes what is after it; what is      *)
(* before it has been reviewed.                                                *)
LEMMA PushAdvances ==
  ASSUME BatchInv, PushInv, Advance(PushHook)
  PROVE  PushInv'
<1> DEFINE h == hook[PushHook]
<1>1. SUFFICES ASSUME mishaps' = 0
               PROVE  /\ pushed' \subseteq reviewed' /\ FlushesLeft'
                      /\ \A x \in hook'[PushHook].due : Served(x)'
  BY DEF PushInv
<1>2. /\ Git /\ Table(saved) /\ h \in HookRow /\ hook \in [Hooks -> HookRow]
      /\ PushHook \in Hooks /\ PushHook # CommitHook /\ HookInv(PushHook)
  BY HookNames DEF BatchInv, PTypeOK
<1>3. h.pc = "advance" /\ UNCHANGED <<chain, ref, pushed, reviewed, mishaps>>
  BY DEF Advance, HookAt, OnlyHook
<1>4. /\ pushed \subseteq reviewed /\ FlushesLeft
      /\ \A x \in h.due : Served(x)
  BY <1>1, <1>3 DEF PushInv
<1>5. /\ Stepped(PushHook, Ended(PushHook)) /\ hook'[PushHook].due \subseteq h.due
  BY <1>2, AdvanceStepped
<1>6. hook'[PushHook].pc = "next" /\ hook'[PushHook].todo = h.todo
  BY <1>5 DEF Ended, NoHook, Stepped
<1>7. h.then \in {"keep", "advance"}
  BY <1>2 DEF HookInv, Owns, HookRow
<1>8. FlushesLeft'
  <2>1. \A n, c : Holds(n, c) => Holds(n, c)'
    BY <1>3 DEF Holds, Live, OnChain
  <2> QED
    BY <1>4, <1>6, <2>1 DEF FlushesLeft
<1>9. \A f \in h.todo : f \in Flush /\ f.branch \in Names /\ f.head \in Commits
                        /\ Made(f.head) /\ (f.branch = h.branch => Holds(h.branch, h.head))
  <2>1. \A f \in h.todo : f \in Flush /\ Made(f.head)
    BY <1>2 DEF HookRow, HookInv
  <2>2. \A f \in h.todo : f.branch = h.branch => Holds(h.branch, h.head)
    BY <1>3, <1>4 DEF FlushesLeft
  <2> QED
    BY <2>1, <2>2 DEF Flush
<1>10. Grows /\ Quieter
  BY <1>3, <1>5 DEF Grows, Quieter, Live, Stepped
<1>11. ASSUME NEW x \in h.due PROVE Served(x)'
  <2>1. Served(x) /\ x \in Commits
    BY <1>2, <1>4, <1>11 DEF HookRow
  <2>2. CASE x \in reviewed
    BY <1>3, <2>2 DEF Served
  <2>3. ASSUME NEW f \in h.todo, Serves(f, x), x \notin reviewed PROVE Served(x)'
    <3>1. PICK m \in Names, c \in Commits : m = f.branch /\ c = f.head /\ Made(c)
      BY <1>9, <2>3
    <3>2. CASE h.then = "keep"
      <4>1. saved' = saved
        BY <3>2 DEF Advance
      <4>2. Waits(m, c, x) => Waits(m, c, x)'
        BY <1>2, <1>10, <3>1, <4>1, OwedStays, SteadyStays DEF Waits
      <4>3. Adopts(x, m, c) => Adopts(x, m, c)'
        BY <1>2, <1>10, <3>1, <4>1, OwedStays
      <4> QED
        BY <1>6, <2>3, <3>1, <4>2, <4>3 DEF Served, Serves
    <3>3. CASE h.then = "advance"
      <4>1. m = h.branch => Holds(m, h.head)
        BY <1>9, <2>3, <3>1
      <4>2. Waits(m, c, x) => Waits(m, c, x)'
        BY <1>2, <2>1, <2>3, <3>1, <3>3, <4>1, AdvanceLeaves DEF Waits
      <4>3. Adopts(x, m, c) => Adopts(x, m, c)'
        BY <1>2, <2>1, <2>3, <3>1, <3>3, AdvanceLeaves
      <4> QED
        BY <1>6, <2>3, <3>1, <4>2, <4>3 DEF Served, Serves
    <3> QED
      BY <1>7, <3>2, <3>3
  <2> QED
    BY <1>3, <2>1, <2>2, <2>3 DEF Served, InHand
<1> QED
  BY <1>3, <1>4, <1>5, <1>6, <1>8, <1>11

(* A push whose flushes are over has nothing left that is not reviewed.        *)
LEMMA PushDone ==
  ASSUME BatchInv, PushInv, PushEnds
  PROVE  PushInv'
<1> DEFINE h == hook[PushHook]
<1>1. /\ h.pc = "next" /\ h.todo = {} /\ UNCHANGED <<reviewed, mishaps>>
      /\ pushed' = pushed \cup h.due /\ hook'[PushHook] = NoHook
  BY HookNames DEF PushEnds, HookAt, BatchInv, PTypeOK
<1>2. SUFFICES ASSUME mishaps = 0 PROVE pushed' \subseteq reviewed' /\ FlushesLeft'
  BY <1>1 DEF PushInv, NoHook
<1>3. pushed \subseteq reviewed /\ \A x \in h.due : Served(x)
  BY <1>1, <1>2 DEF PushInv
<1>4. h.due \subseteq reviewed
  BY <1>1, <1>3 DEF Served, InHand
<1> QED
  BY <1>1, <1>3, <1>4 DEF FlushesLeft, NoHook

(* A push begins with a flush for everything it is held to.                    *)
LEMMA PushBegins ==
  ASSUME BatchInv, PushInv, NEW named \in SUBSET Names, NEW tags \in SUBSET Commits,
         Push(named, tags)
  PROVE  PushInv'
<1>1. UNCHANGED <<chain, ref, saved, reviewed, pushed, mishaps>>
  BY DEF Push, OnlyGit
<1>2. Git /\ Table(saved) /\ Tree /\ hook \in [Hooks -> HookRow] /\ PushHook \in Hooks
  BY HookNames DEF BatchInv, PTypeOK, Git
<1>3. PICK heads : heads = {ref[b] : b \in named} \cup tags
  OBVIOUS
<1>4. /\ \A h \in heads : h \in Commits /\ Made(h)
      /\ \A b \in named : Live(b)
      /\ \E far : /\ \A n \in Carriers(heads, named) : far[n] \in Furthest(n, heads, named)
                  /\ hook' = [hook EXCEPT ![PushHook] =
                                [NoHook EXCEPT !.pc = "next", !.due = Due(heads, named),
                                   !.todo = Flushes(named, Carriers(heads, named), far)]]
  BY <1>3, PushPlans
<1>5. PICK far : /\ \A n \in Carriers(heads, named) : far[n] \in Furthest(n, heads, named)
                 /\ hook' = [hook EXCEPT ![PushHook] =
                               [NoHook EXCEPT !.pc = "next", !.due = Due(heads, named),
                                  !.todo = Flushes(named, Carriers(heads, named), far)]]
  BY <1>4
<1>6. PICK td, du : td = Flushes(named, Carriers(heads, named), far) /\ du = Due(heads, named)
  OBVIOUS
<1>7. hook'[PushHook].pc = "next" /\ hook'[PushHook].todo = td /\ hook'[PushHook].due = du
  BY <1>2, <1>5, <1>6 DEF NoHook
<1>8. SUFFICES ASSUME mishaps = 0
               PROVE  /\ pushed \subseteq reviewed /\ FlushesLeft'
                      /\ \A x \in du : Served(x)'
  BY <1>1, <1>7 DEF PushInv
<1>9. \A f \in td : \/ /\ f.named = TRUE /\ f.branch \in named
                        /\ f = [branch |-> f.branch, head |-> ref[f.branch], named |-> TRUE]
                     \/ /\ f.named = FALSE
                        /\ f = [branch |-> f.branch, head |-> far[f.branch], named |-> FALSE]
  <2>1. ASSUME NEW f \in td
        PROVE  \/ /\ f.named = TRUE /\ f.branch \in named
                  /\ f = [branch |-> f.branch, head |-> ref[f.branch], named |-> TRUE]
               \/ /\ f.named = FALSE
                  /\ f = [branch |-> f.branch, head |-> far[f.branch], named |-> FALSE]
    <3>1. \/ \E b \in named : f = [branch |-> b, head |-> ref[b], named |-> TRUE]
          \/ \E n \in Carriers(heads, named) : f = [branch |-> n, head |-> far[n], named |-> FALSE]
      BY <1>6, <2>1 DEF Flushes
    <3>2. ASSUME NEW b \in named, f = [branch |-> b, head |-> ref[b], named |-> TRUE]
          PROVE  /\ f.named = TRUE /\ f.branch \in named
                 /\ f = [branch |-> f.branch, head |-> ref[f.branch], named |-> TRUE]
      <4>1. f.branch = b /\ f.named = TRUE
        BY <3>2
      <4> QED
        BY <3>2, <4>1
    <3>3. ASSUME NEW n, f = [branch |-> n, head |-> far[n], named |-> FALSE]
          PROVE  /\ f.named = FALSE
                 /\ f = [branch |-> f.branch, head |-> far[f.branch], named |-> FALSE]
      <4>1. f.branch = n /\ f.named = FALSE
        BY <3>3
      <4> QED
        BY <3>3, <4>1
    <3> QED
      BY <3>1, <3>2, <3>3
  <2> QED
    BY <2>1
<1>10. \A f \in td, g \in td : g.named = f.named /\ g.branch = f.branch => g = f
  <2>1. SUFFICES ASSUME NEW f \in td, NEW g \in td, g.named = f.named, g.branch = f.branch
                 PROVE  g = f
    OBVIOUS
  <2>2. CASE f.named = TRUE
    <3>1. f = [branch |-> f.branch, head |-> ref[f.branch], named |-> TRUE]
      BY <1>9, <2>2
    <3>2. g = [branch |-> g.branch, head |-> ref[g.branch], named |-> TRUE]
      BY <1>9, <2>1, <2>2
    <3> QED
      BY <2>1, <3>1, <3>2
  <2>3. CASE f.named = FALSE
    <3>1. f = [branch |-> f.branch, head |-> far[f.branch], named |-> FALSE]
      BY <1>9, <2>3
    <3>2. g = [branch |-> g.branch, head |-> far[g.branch], named |-> FALSE]
      BY <1>9, <2>1, <2>3
    <3> QED
      BY <2>1, <3>1, <3>2
  <2> QED
    BY <1>9, <2>2, <2>3
<1>11. \A f \in td : f.named => Holds(f.branch, f.head)'
  <2>1. ASSUME NEW f \in td, f.named PROVE Holds(f.branch, f.head)'
    <3>1. f.branch \in named /\ f.head = ref[f.branch]
      <4>1. f.branch \in named /\ f = [branch |-> f.branch, head |-> ref[f.branch], named |-> TRUE]
        BY <1>9, <2>1
      <4> QED
        BY <4>1
    <3>2. Live(f.branch) /\ ref[f.branch] \in Commits /\ Made(ref[f.branch])
      BY <1>2, <1>4, <3>1, LiveTyped DEF Git
    <3> QED
      BY <1>1, <1>2, <3>1, <3>2 DEF Holds, Live, OnChain, Tree
  <2> QED
    BY <2>1
<1>12. FlushesLeft'
  BY <1>7, <1>10, <1>11 DEF FlushesLeft
<1>13. ASSUME NEW x \in du PROVE Served(x)'
  <2>1. /\ \E h \in heads : x \in chain[h]
        /\ \E n \in Names : Intact(saved[n]) /\ ~Torn(n, heads, named) /\ x \in Recorded(saved[n])
    BY <1>6, <1>13 DEF Due
  <2>2. PICK h \in heads : x \in chain[h]
    BY <2>1
  <2>3. PICK n \in Names : Intact(saved[n]) /\ ~Torn(n, heads, named) /\ x \in Recorded(saved[n])
    BY <2>1
  <2>4. \A b \in named : ref[b] \in heads
    BY <1>3
  <2>5. PICK f \in td : Serves(f, x)
    BY <1>2, <1>4, <1>5, <1>6, <2>2, <2>3, <2>4, PushServes
  <2>6. \A k \in Hooks \ {PushHook} : hook'[k] = hook[k]
    BY <1>2, <1>5
  <2>7. Steady(f.branch, x) => Steady(f.branch, x)'
    <3>1. \A m, c : Holds(m, c) => Holds(m, c)'
      BY <1>1 DEF Holds, Live, OnChain
    <3>2. x \in Recorded(saved[f.branch]) => x \in Recorded(saved[f.branch])'
      BY <1>1 DEF Recorded, Between
    <3> QED
      BY <2>6, <3>1, <3>2 DEF Steady
  <2>8. Owed(saved[f.branch], x, f.branch, f.head) => Owed(saved[f.branch], x, f.branch, f.head)'
    BY <1>1 DEF Owed, Between, OnChain, Live, Recorded
  <2>9. Adopts(x, f.branch, f.head) => Adopts(x, f.branch, f.head)'
    BY <1>1 DEF Adopts, Orphans, Between, OnChain, Live, Recorded
  <2>10. Serves(f, x)'
    BY <2>5, <2>7, <2>8, <2>9 DEF Serves, Waits
  <2> QED
    BY <1>7, <2>10 DEF Served
<1> QED
  BY <1>8, <1>12, <1>13 DEF PushInv

(* While git and the state file rest, and the push's row does, the push stands.*)
LEMMA PushWaits ==
  ASSUME BatchInv, PushInv, UNCHANGED <<chain, ref, pushed>>, mishaps' = mishaps \/ Mishap,
         reviewed \subseteq reviewed', hook'[PushHook] = hook[PushHook], saved' = saved, Quieter
  PROVE  PushInv'
<1>1. Grows /\ RowRests
  BY DEF Grows, Live, RowRests
<1> QED
  BY <1>1, PushStands

(* A name that comes back takes nothing else from the flushes of a push.       *)
LEMMA BranchStands ==
  ASSUME BatchInv, PushInv, NEW n \in Names, Branch(n)
  PROVE  PushInv'
<1>1. PICK h : h = hook[PushHook]
  OBVIOUS
<1>2. /\ ~Live(n) /\ chain' = chain /\ Table(saved) /\ hook \in [Hooks -> HookRow]
      /\ UNCHANGED <<saved, reviewed, pushed, mishaps>> /\ ref' = [ref EXCEPT ![n] = ref[cur]]
      /\ ref \in [Names -> Commits \cup {NoCommit}] /\ HookInv(PushHook)
  BY HookNames DEF BatchInv, PTypeOK, Branch, OnlyGit
<1>3. \A m \in Names : m # n => ref'[m] = ref[m] /\ (Live(m)' <=> Live(m))
  BY <1>2 DEF Live
<1>4. /\ \A k \in Hooks : Rests(k)
      /\ hook'[PushHook].due \subseteq hook[PushHook].due
      /\ saved[n] # NoEntry => hook'[PushHook].due \cap Recorded(saved[n]) = {}
  BY <1>2, BranchRests
<1>5. RowRests /\ Keeps
  BY <1>2, <1>3, <1>4, HookNames DEF RowRests, Rests, Keeps
<1>6. ASSUME ~Idle(PushHook), mishaps = 0, NEW x \in hook'[PushHook].due PROVE Served(x)'
  <2>1. Served(x) /\ (saved[n] # NoEntry => x \notin Recorded(saved[n]))
    BY <1>4, <1>6 DEF PushInv, Idle
  <2>2. ASSUME NEW m \in Names, NEW c \in Commits, Waits(m, c, x) PROVE Waits(m, c, x)'
    <3>1. Owed(saved[m], x, m, c)
      BY <2>2 DEF Waits
    <3>2. m # n
      BY <1>2, <2>1, <3>1 DEF Owed
    <3>3. Owed(saved[m], x, m, c)'
      BY <1>2, <1>3, <2>2, <3>1, <3>2 DEF Owed, Between, OnChain, Recorded
    <3>4. ASSUME NEW k \in Hooks \ {PushHook}, NEW head, head = hook[k].head,
                 hook[k].then = "advance", hook[k].branch = m
          PROVE  Holds(m, head)' \/ x \in Recorded(saved[m])'
      <4>1. Holds(m, head) \/ x \in Recorded(saved[m])
        BY <2>2, <3>4 DEF Waits, Steady
      <4>2. Holds(m, head) => Holds(m, head)'
        BY <1>2, <1>3, <2>2, <3>2 DEF Holds, OnChain
      <4>3. x \in Recorded(saved[m]) => x \in Recorded(saved[m])'
        BY <1>2 DEF Recorded, Between
      <4> QED
        BY <4>1, <4>2, <4>3
    <3>5. Steady(m, x)'
      <4>1. ASSUME NEW k \in Hooks \ {PushHook}, hook'[k].then = "advance", hook'[k].branch = m,
                   NEW head, head = hook'[k].head
            PROVE  Holds(m, head)' \/ x \in Recorded(saved[m])'
        BY <1>4, <3>4, <4>1 DEF Rests
      <4> QED
        BY <4>1 DEF Steady
    <3> QED
      BY <3>3, <3>5 DEF Waits
  <2>3. ASSUME NEW m \in Names, NEW c \in Commits, Adopts(x, m, c) PROVE Adopts(x, m, c)'
    <3>1. PICK o \in Orphans(m, c, saved) : x \in Recorded(saved[o])
      BY <2>3 DEF Adopts
    <3>2. o \in Names /\ saved[o] # NoEntry /\ o # n
      BY <2>1, <3>1 DEF Orphans
    <3>3. o \in Orphans(m, c, saved)' /\ x \in Recorded(saved[o])'
      BY <1>2, <1>3, <3>1, <3>2 DEF Orphans, OnChain, Recorded, Between
    <3> QED
      BY <3>3 DEF Adopts
  <2> QED
    BY <1>2, <1>5, <2>1, <2>2, <2>3, StillServed
<1> QED
  BY <1>2, <1>5, <1>6, PushKept

(* Commits, switches and changes of the configuration leave a push standing;   *)
(* other moves of branches wait for its hook.                                  *)
LEMMA PushUnderUser ==
  ASSUME BatchInv, PushInv, User
  PROVE  PushInv'
<1>1. /\ Git /\ Tree /\ Refs /\ hook \in [Hooks -> HookRow] /\ PushHook \in Hooks
      /\ PushHook # CommitHook /\ cur \in Names /\ Live(cur)
      /\ ref \in [Names -> Commits \cup {NoCommit}] /\ chain \in [Commits -> SUBSET Commits]
  BY HookNames DEF BatchInv, PTypeOK, Git
<1>2. ASSUME OnlyGit, hook'[PushHook] = hook[PushHook], Quieter, Idle(PushHook) \/ Grows
      PROVE  PushInv'
  <2>1. /\ pushed' = pushed /\ mishaps' = mishaps /\ reviewed' = reviewed /\ saved' = saved
        /\ RowRests
    BY <1>2 DEF OnlyGit, RowRests
  <2> QED
    BY <1>2, <2>1, PushStands
<1>3. ASSUME NEW c \in Commits, NEW below, CommitOn(c, below),
             Idle(PushHook) \/ below = chain[ref[cur]]
      PROVE  PushInv'
  <2>1. OnlyGit /\ hook'[PushHook] = hook[PushHook] /\ Quieter
    <3>1. OnlyGit /\ hook' = [hook EXCEPT ![CommitHook] = [NoHook EXCEPT !.pc = "lock"]]
      BY <1>3 DEF CommitOn, StartHook
    <3>2. [NoHook EXCEPT !.pc = "lock"].then = "keep"
      BY DEF NoHook
    <3> QED
      BY <1>1, <3>1, <3>2 DEF Quieter
  <2>2. ASSUME below = chain[ref[cur]] PROVE Grows
    <3>1. ref[cur] \in Commits /\ Made(ref[cur])
      BY <1>1, LiveTyped
    <3>2. PICK h \in Commits : h = ref[cur] /\ Made(h)
      BY <3>1
    <3>3. NextCommit(c) /\ chain' = [chain EXCEPT ![c] = below \cup {c}]
          /\ ref' = [ref EXCEPT ![cur] = c]
      BY <1>3 DEF CommitOn
    <3>4. \A d \in Commits : Made(d) => chain'[d] = chain[d]
      BY <1>1, <2>2, <3>2, <3>3, Grown
    <3>5. chain[h] \subseteq chain'[c]
      BY <1>1, <2>2, <3>2, <3>3
    <3>6. ASSUME NEW n \in Names
          PROVE  (Live(n)' <=> Live(n)) /\ (Live(n) => chain[ref[n]] \subseteq chain'[ref'[n]])
      <4>1. CASE n = cur
        BY <1>1, <3>2, <3>3, <3>5, <4>1, NoEntryApart DEF Live
      <4>2. CASE n # cur
        <5>1. ref'[n] = ref[n]
          BY <1>1, <3>3, <4>2
        <5> QED
          BY <1>1, <3>4, <5>1, LiveTyped DEF Live
      <4> QED
        BY <4>1, <4>2
    <3> QED
      BY <3>4, <3>6 DEF Grows
  <2> QED
    BY <1>2, <1>3, <2>1, <2>2
<1>4. CASE Commit
  BY <1>3, <1>4 DEF Commit
<1>5. CASE Amend
  BY <1>3, <1>5 DEF Amend, Alone
<1>6. CASE Configure
  BY <1>6, PushWaits DEF Configure, Quieter
<1>7. ASSUME NEW c \in Commits, Reset(c) PROVE PushInv'
  BY <1>2, <1>7 DEF Reset, Alone, Quieter
<1>8. ASSUME NEW named \in SUBSET Names, NEW tags \in SUBSET Commits, Push(named, tags)
      PROVE  PushInv'
  BY <1>8, PushBegins
<1>9. ASSUME NEW n \in Names, Branch(n) PROVE PushInv'
  BY <1>9, BranchStands
<1>10. ASSUME NEW n \in Names, Switch(n) PROVE PushInv'
  <2>1. Grows
    BY <1>10 DEF Switch, Grows, Live
  <2> QED
    BY <1>2, <1>10, <2>1 DEF Switch, Quieter
<1>11. ASSUME NEW n \in Names, Rename(n) \/ Delete(n) PROVE PushInv'
  BY <1>2, <1>11 DEF Rename, Delete, Alone, Quieter
<1> QED
  BY <1>4, <1>5, <1>6, <1>7, <1>8, <1>9, <1>10, <1>11 DEF User

-------------------------------------------------------------------------------
(* The theorems.                                                               *)

(* Nothing is recorded, running or held when the program starts.               *)
LEMMA BatchInit == PInit => BatchInv
<1> SUFFICES ASSUME PInit PROVE BatchInv
  OBVIOUS
<1>1. 0 \in Commits /\ Commits \subseteq Nat /\ NoCommit \notin Commits
      /\ \A c \in Commits, d \in Commits : d <= 0 => d = 0
  BY NoEntryApart, PostCommitAssumption DEF Commits
<1>2. Min(Names) \in Names /\ Nobody \notin Hooks
  BY HookNames
<1>3. NoHook \in HookRow /\ NoHook.pc = "idle" /\ NoHook.then = "keep" /\ NoHook.todo = {}
  BY DEF NoHook, HookRow
<1>4. chain = [c \in Commits |-> IF c = 0 THEN {0} ELSE {}]
      /\ ref = [b \in Names |-> IF b = Min(Names) THEN 0 ELSE NoCommit] /\ cur = Min(Names)
      /\ saved = [b \in Names |-> NoEntry] /\ hook = [k \in Hooks |-> NoHook] /\ holder = Nobody
      /\ seen = {} /\ reviewed = {} /\ pushed = {} /\ batching = TRUE
      /\ timer = [b \in Names |-> NoCommit] /\ asked = [b \in Names |-> NoCommit]
      /\ moves = 0 /\ mishaps = 0
  BY DEF PInit
<1>5. \A c \in Commits : Made(c) <=> c = 0
  BY <1>1, <1>4 DEF Made
<1>6. Tree
  <2>1. chain \in [Commits -> SUBSET Commits]
    BY <1>1, <1>4
  <2>2. chain[0] = {0} /\ {e \in {0} : e <= 0} = {0}
    BY <1>1, <1>4
  <2> QED
    BY <1>1, <1>5, <2>1, <2>2 DEF Tree
<1>7. Refs /\ Live(cur)
  BY <1>1, <1>2, <1>4, <1>5 DEF Refs, Live
<1>8. Table(saved)
  BY <1>4 DEF Table
<1>9. \A k \in Hooks : HookInv(k)
  BY <1>2, <1>3, <1>4 DEF HookInv
<1>10. PTypeOK
  BY <1>1, <1>2, <1>3, <1>4, <1>6, <1>7, PostCommitAssumption DEF PTypeOK, Tree, Refs
<1>11. NothingForgotten
  BY <1>4 DEF NothingForgotten
<1> QED
  BY <1>6, <1>7, <1>8, <1>9, <1>10, <1>11 DEF BatchInv, Git

(* Every step keeps the invariant, whoever takes it.                           *)
LEMMA BatchStep == BatchInv /\ [PNext]_pvars => BatchInv'
<1> SUFFICES ASSUME BatchInv, [PNext]_pvars PROVE BatchInv'
  OBVIOUS
<1>1. CASE User
  BY <1>1, UserKeeps
<1>2. CASE Disturbance
  BY <1>2, Restarted, TimedOut, Died DEF Disturbance
<1>3. CASE Hooking
  BY <1>3, CommitPlanned, PushPlanned, Scheduling, PushOver, FlushNext, FlushPlanned, Fired,
     Enqueued, Advanced DEF Hooking
<1>4. CASE UNCHANGED pvars
  <2>1. /\ chain' = chain /\ ref' = ref /\ cur' = cur /\ saved' = saved /\ hook' = hook
        /\ holder' = holder /\ timer' = timer /\ asked' = asked /\ seen' = seen
        /\ reviewed' = reviewed /\ pushed' = pushed /\ mishaps' = mishaps
        /\ batching' = batching /\ moves' = moves
    BY <1>4 DEF pvars
  <2>2. PTypeOK' /\ Git' /\ Table(saved)'
    BY <2>1 DEF BatchInv, PTypeOK, Git, Tree, Refs, Made, Live, Table
  <2>3. \A k \in Hooks : HookInv(k)'
    BY <2>1, HookKept
  <2>4. PICK s : s = saved
    OBVIOUS
  <2>5. NothingForgotten'
    BY <2>1, <2>4, SeenAfter DEF BatchInv
  <2> QED
    BY <2>2, <2>3, <2>5 DEF BatchInv
<1> QED
  BY <1>1, <1>2, <1>3, <1>4 DEF PNext

(* The history stays a tree, the state file names commits of it, and a hook    *)
(* that is about to move an entry holds the lock and has the entry's whole     *)
(* range with it.                                                              *)
THEOREM BatchInvariant == PSpec => []BatchInv
<1>1. PInit => BatchInv
  BY BatchInit
<1>2. BatchInv /\ [PNext]_pvars => BatchInv'
  BY BatchStep
<1> QED
  BY <1>1, <1>2, PTL DEF PSpec

(* The variables stay in their types; in particular every entry of the state   *)
(* file has a checkpoint and a tip.                                            *)
THEOREM BatchTyped == PSpec => []PTypeOK
<1>1. BatchInv => PTypeOK
  BY DEF BatchInv
<1> QED
  BY <1>1, BatchInvariant, PTL

(* A commit a hook recorded as pending is reviewed, or still pending in some   *)
(* entry or on that entry's branch, until a rewrite or a plan that lost its    *)
(* branch gives it up: no lock timeout, failed request, killed hook or restart *)
(* forgets it.                                                                 *)
THEOREM BatchRemembers == PSpec => []NothingForgotten
<1>1. BatchInv => NothingForgotten
  BY DEF BatchInv
<1> QED
  BY <1>1, BatchInvariant, PTL

(* Every step keeps what a push relies on.                                     *)
LEMMA PushStep == BatchInv /\ PushInv /\ [PNext]_pvars => PushInv'
<1> SUFFICES ASSUME BatchInv, PushInv, [PNext]_pvars PROVE PushInv'
  OBVIOUS
<1>1. /\ hook \in [Hooks -> HookRow] /\ PushHook \in Hooks /\ CommitHook \in Hooks
      /\ PushHook # CommitHook /\ PushHook \notin Names /\ Names \subseteq Hooks /\ mishaps \in Nat
  BY HookNames, PostCommitAssumption DEF BatchInv, PTypeOK
<1>2. Mishap => PushInv'
  BY <1>1 DEF Mishap, PushInv
<1>3. CASE User
  BY <1>3, PushUnderUser
<1>4. CASE Disturbance
  BY <1>2, <1>4 DEF Disturbance, DaemonRestarts, LockTimeout, Killed
<1>5. CASE Schedule
  <2>1. hook[CommitHook].branch # PushHook
    BY <1>1, <1>5, HookNames DEF Schedule, HookAt, BatchInv, HookInv, Owns
  <2>2. Works \/ Mishap
    BY <1>5 DEF Schedule
  <2>3. CASE Works
    <3>1. PICK b : b = hook[CommitHook].branch
      OBVIOUS
    <3>2. hook' = [hook EXCEPT ![b] = NoHook, ![CommitHook] = NoHook]
      <4>1. ~Mishap
        BY <1>1, <2>3 DEF Mishap, Works
      <4> QED
        BY <1>5, <3>1, <4>1 DEF Schedule
    <3>3. NoHook.then = "keep"
      BY DEF NoHook
    <3>4. hook'[PushHook] = hook[PushHook] /\ Quieter
      BY <1>1, <2>1, <3>1, <3>2, <3>3 DEF Quieter
    <3> QED
      BY <1>5, <2>3, <3>4, PushWaits DEF Schedule, Works, OnlyHook
  <2> QED
    BY <1>2, <2>2, <2>3
<1>6. ASSUME NEW b \in Names, Fire(b) PROVE PushInv'
  <2>1. hook'[PushHook] = hook[PushHook] /\ Quieter
    BY <1>1, <1>6 DEF Fire, Quieter, NoHook
  <2> QED
    BY <1>6, <2>1, PushWaits DEF Fire, OnlyHook
<1>7. ASSUME NEW k \in Hooks, k # PushHook, Enqueue(k) PROVE PushInv'
  <2>1. PICK range : Send(k, range) /\ OnlyHook /\ saved' = saved
    BY <1>7 DEF Enqueue
  <2>2. CASE Works
    <3>1. reviewed \subseteq reviewed' /\ hook'[PushHook] = hook[PushHook] /\ Quieter
      <4>1. PICK d : d = Ended(k)
        OBVIOUS
      <4>2. d.then = "keep"
        BY <1>1, <4>1, EndedTyped
      <4>3. hook' = [hook EXCEPT ![k].pc = "advance"] \/ hook' = [hook EXCEPT ![k] = d]
        BY <2>1, <4>1 DEF Send, HookGoTo, Ends
      <4>4. \A j \in Hooks : hook[j] \in HookRow
        BY <1>1
      <4>5. Quieter
        BY <1>1, <4>2, <4>3, <4>4 DEF Quieter, HookRow
      <4>6. reviewed \subseteq reviewed'
        BY <2>1 DEF Send
      <4> QED
        BY <1>1, <1>7, <4>3, <4>5, <4>6
    <3> QED
      BY <2>1, <2>2, <3>1, PushWaits DEF Works, OnlyHook
  <2> QED
    BY <1>2, <2>1, <2>2 DEF Send
<1>8. CASE UNCHANGED pvars
  BY <1>8, PushWaits DEF pvars, Quieter
<1> QED
  BY <1>3, <1>4, <1>5, <1>6, <1>7, <1>8, CommitStands, FlushStands, AdvanceStands, PushFollows,
     PushTakes, PushDone, PushSends, PushAdvances DEF PNext, Hooking

(* While no request fails, no lock times out and no hook is killed, the        *)
(* commits on the chains of a push's heads that were recorded as pending when  *)
(* its hook read the state file, without the lock, have been enqueued for      *)
(* review when the hook ends: whatever branch recorded them, whichever names   *)
(* are gone, and although commits, switches and daemon flushes change the      *)
(* state file all the while.  What that reading is not held to is said at      *)
(* PushedReviewed.                                                             *)
THEOREM PushesReviewed == PSpec => []PushedReviewed
<1>1. PInit => PushInv
  BY HookNames DEF PInit, PushInv, FlushesLeft, NoHook
<1>2. (BatchInv /\ PushInv) /\ [PNext]_pvars => (BatchInv /\ PushInv)'
  BY BatchStep, PushStep
<1>3. BatchInv /\ PushInv => PushedReviewed
  BY DEF PushInv, PushedReviewed
<1> QED
  BY <1>1, <1>2, <1>3, BatchInit, PTL DEF PSpec
===============================================================================

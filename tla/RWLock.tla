-------------------------------- MODULE RWLock --------------------------------
(* A reader/writer lock whose writers may give up waiting: what the job        *)
(* attempts of internal/storage rely on.                                       *)
CONSTANT Procs

VARIABLES
  reading,  \* the processes that hold the read lock
  writing   \* the process that holds the write lock, in a set of at most one

Init == reading = {} /\ writing = {}

Read(p) ==
  /\ writing = {} /\ p \notin reading
  /\ reading' = reading \cup {p} /\ UNCHANGED writing

EndRead(p) ==
  /\ p \in reading
  /\ reading' = reading \ {p} /\ UNCHANGED writing

Write(p) ==
  /\ writing = {} /\ reading = {}
  /\ writing' = {p} /\ UNCHANGED reading

EndWrite(p) ==
  /\ p \in writing
  /\ writing' = {} /\ UNCHANGED reading

Next == \E p \in Procs : Read(p) \/ EndRead(p) \/ Write(p) \/ EndWrite(p)

Spec == Init /\ [][Next]_<<reading, writing>>
===============================================================================

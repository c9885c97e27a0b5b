-------------------------------- MODULE MCSync --------------------------------
(* Instances of Sync for TLC: two machines and one job, or two jobs.           *)
EXTENDS Sync

InOrder  == [m \in Machines |-> [j \in Jobs |-> j]]
Reversed == [m \in Machines |-> [j \in Jobs |-> IF m = 1 THEN 3 - j ELSE j]]

(* A batch holds all there is, all clocks agree.                               *)
Calls(home, upsets, deeds) ==
  [home |-> home, upsets |-> upsets, deeds |-> deeds,
   limit |-> 2, id |-> InOrder, fast |-> {}]

(* Both rerun a job made on either machine, one edits it, and a failure.       *)
Reruns(home) ==
  Calls(home, 1, {<<"rerun", 1, 1>>, <<"rerun", 2, 1>>, <<"edit", 2, 1>>})

(* Both rerun and both edit.                                                   *)
Edits ==
  Calls(<<1>>, 0,
    {<<"rerun", 1, 1>>, <<"rerun", 2, 1>>, <<"edit", 1, 1>>, <<"edit", 2, 1>>})

(* The same with a clock that is ahead.                                        *)
Skewed == [Edits EXCEPT !.fast = {1}]

(* A new job whose cost is late, rerun and edited elsewhere, and a failure.    *)
NewJob ==
  Calls(<<>>, 1,
    {<<"enqueue", 1, 1>>, <<"cost", 1, 1>>, <<"rerun", 2, 1>>, <<"edit", 2, 1>>})

(* Each reruns one job and edits the other: their edits wait for each other.   *)
Crossed ==
  Calls(<<1, 2>>, 0,
    {<<"rerun", 1, 1>>, <<"rerun", 2, 2>>, <<"edit", 1, 2>>, <<"edit", 2, 1>>})

(* The same with batches of one row: both awaited reviews come after the edit  *)
(* that waits.                                                                 *)
Jammed == [Crossed EXCEPT !.limit = 1, !.id = Reversed]

(* Batches of one row and one edit that waits.                                 *)
OneByOne ==
  [Crossed EXCEPT !.limit = 1, !.deeds = @ \ {<<"edit", 1, 2>>}]

SmallPlans ==
  {Reruns(<<1>>), Reruns(<<2>>), Edits, Skewed, NewJob, Crossed, Jammed, OneByOne}
===============================================================================

------------------------------ MODULE MCPanelRun ------------------------------
(* Instances of PanelRun for TLC.                                              *)
EXTENDS PanelRun, TLC

Symmetry == Permutations(Workers) \cup Permutations(Cancelers) \cup Permutations(Rerunners)

(* Bound: reruns may be enqueued and canceled, their own reviews do not start. *)
ReplacementsWait ==
  \A r \in Runs \ {0} : \A j \in Ids(r) :
    job[j].status \in {"absent", "queued", "canceled"}
===============================================================================

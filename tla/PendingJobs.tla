----------------------------- MODULE PendingJobs -----------------------------
(***************************************************************************)
(* What the worker needs of its scheduler: a pool with one snapshot per    *)
(* job.  Pushing a job again replaces its snapshot; a pop takes some job   *)
(* that may run, and only one that is pending.  JobQueue is written        *)
(* against this pool; FairScheduler implements it.                         *)
(***************************************************************************)
CONSTANTS Jobs, Levels
VARIABLE pending   \* pending[j]: the priority of the snapshot, or "out"

Init == pending = [j \in Jobs |-> "out"]
Push(j, p) == pending' = [pending EXCEPT ![j] = p]
Pop(j) == pending[j] # "out" /\ pending' = [pending EXCEPT ![j] = "out"]

\* (A push of the snapshot that is pending changes nothing.)
Next == pending' # pending /\ \E j \in Jobs : Pop(j) \/ \E p \in Levels : Push(j, p)
Spec == Init /\ [][Next]_pending
=============================================================================

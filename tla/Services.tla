------------------------------ MODULE Services ------------------------------
(***************************************************************************)
(* What goes on beside the jobs: the life of the process with its data and  *)
(* its program (Lifecycle), the file of a store from one process to the     *)
(* next (StoreFiles), the cleanup of the histories (Retention) and the      *)
(* schedules (Schedulers).  They share little but the directory, and each   *)
(* has restarts or concurrent writers in all their orders of its own; an    *)
(* instance looks at one of them.                                           *)
(***************************************************************************)
EXTENDS Lifecycle, StoreFiles, Retention, Schedulers

VARIABLE part   \* "life", "file", "cleanup" or "schedules"

services == <<part, lvars, fvars, rvars, svars>>

ServicesInit ==
  /\ part \in {"life", "file", "cleanup", "schedules"}
  /\ LifeInit /\ FilesInit /\ RetentionInit /\ SchedulersInit
  /\ part # "life" => \A f \in Stores : disk[f] = 1
  /\ part # "file" => kind = "list" /\ file = Absent
  /\ part # "cleanup" => \A l \in Logs : logs[l] = <<>> 
  /\ part # "cleanup" => \A e \in DOMAIN old : old[e] = [age |-> 0, failed |-> FALSE]
  /\ part # "schedules" => settings = [s \in Schedules |-> Off] /\ hour = 0

Life(Act) == part = "life" /\ Act /\ UNCHANGED <<part, fvars, rvars, svars>>

ServicesNext ==
  \/ Life(LifeNext)
  \/ part = "file" /\ FilesNext /\ UNCHANGED <<part, lvars, rvars, svars>>
  \/ part = "cleanup" /\ RetentionNext /\ UNCHANGED <<part, lvars, fvars, svars>>
  \/ part = "schedules" /\ SchedulersNext /\ UNCHANGED <<part, lvars, fvars, rvars>>

\* LifeFairness, of its own part.
ServicesFairness == \A p \in Procs :
  /\ WF_services(Life(StartUp(p) /\ DataStep(p)))
  /\ WF_services(Life(Begins(p))) /\ WF_services(Life(GivesUp(p)))

ServicesSpec == ServicesInit /\ [][ServicesNext]_services /\ ServicesFairness
=============================================================================

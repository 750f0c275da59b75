------------------------------- MODULE JobParts -------------------------------
(***************************************************************************)
(* What the worker works with: its choice of a job under limits, exclusions *)
(* and circuit breakers (JobAdmission), the scheduler alone for every       *)
(* answer these may give (FairScheduler), and the store whose records they  *)
(* are (JobStore).  They meet in the queue (JobQueue), which is written     *)
(* against what each promises; an instance looks at one.                    *)
(***************************************************************************)
EXTENDS JobAdmission, FairScheduler, JobStore

VARIABLE scope   \* "worker", "scheduler" or "store"

parts == <<scope, vars, fvars, jvars>>

PartsInit ==
  /\ scope \in {"worker", "scheduler", "store"} /\ Init /\ SchedulerInit /\ StoreInit
  /\ scope # "worker" => settings = CHOOSE s \in SettingsChoices : TRUE

PartsNext ==
  \/ scope = "worker" /\ Next /\ UNCHANGED <<scope, fvars, jvars>>
  \/ scope = "scheduler" /\ SchedulerNext /\ UNCHANGED <<scope, vars, jvars>>
  \/ scope = "store" /\ StoreNext /\ UNCHANGED <<scope, vars, fvars>>

PartsSpec == PartsInit /\ [][PartsNext]_parts
=============================================================================

------------------------------ MODULE Lifecycle ------------------------------
(***************************************************************************)
(* One process at a time on a machine: BackupRestore looks after its data,  *)
(* OnlineUpdate after its program.  They share the life of the process: it  *)
(* ends for both (an exit, a crash, a restart into a new release) and       *)
(* begins for both, behind the instance lock (main.rs, app.rs).             *)
(***************************************************************************)
EXTENDS BackupRestore, OnlineUpdate

CONSTANT MaxRequests   \* bound on backup operations and updates together

VARIABLE updates         \* apply requests so far

lvars == <<bvars, uvars, updates>>

Asked == spent.ops + updates
LifeInit == BackupInit /\ UpdateInit /\ updates = 0

\* The data side moves while the process goes on.
DataStep(p) ==
  /\ \/ Operate(p) \/ RestoreFails(p) \/ \E f \in Stores : Write(p, f)
     \/ LoadStores(p) \/ Resave(p) \/ MarkStarted(p) \/ RestoreFile(p) \/ UndoFile(p) \/ RestoreDone(p)
     \/ Asked < MaxRequests /\ (create_stored_backup(p) \/ restore(p))
  /\ UNCHANGED <<uvars, updates>>

\* Routes answer once the services are up.
CodeStep(p) ==
  /\ proc[p].pc = "up" /\ UNCHANGED bvars
  /\ \/ UpdateStep /\ UNCHANGED updates
     \/ /\ Asked < MaxRequests /\ updates' = updates + 1
        /\ \E c \in Calls : apply_update(c)

Begins(p) == acquire(p) /\ Start /\ UNCHANGED updates
Ends(p) == Exit(p) /\ (Exec \/ Die) /\ UNCHANGED updates
GivesUp(p) == Refuse(p) /\ Die /\ UNCHANGED updates

LifeNext == \E p \in Procs : DataStep(p) \/ CodeStep(p) \/ Begins(p) \/ Ends(p) \/ GivesUp(p)
LifeFairness == \A p \in Procs :
  /\ WF_lvars(StartUp(p) /\ DataStep(p)) /\ WF_lvars(Begins(p)) /\ WF_lvars(GivesUp(p))
LifeSpec == LifeInit /\ [][LifeNext]_lvars /\ LifeFairness
=============================================================================

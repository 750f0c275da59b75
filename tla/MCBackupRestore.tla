-------------------------- MODULE MCBackupRestore --------------------------
(* Two processes started on one DATA_DIR. *)
EXTENDS BackupRestore, TLC

CONSTANTS lock, jobs, subs, p, q

PathOrder == <<lock, jobs, subs>>
Foreign == {[f \in {lock, jobs, subs} |-> 7]}
=============================================================================

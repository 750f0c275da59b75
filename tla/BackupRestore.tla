---------------------------- MODULE BackupRestore ----------------------------
(***************************************************************************)
(* DATA_DIR from one start of the program to the next: the instance lock,   *)
(* the archives services/backup.rs makes while the stores keep writing, the *)
(* restore that is staged now and applied by the next start before any      *)
(* store is loaded, its snapshot and its rollback (services/backup.rs,      *)
(* instance_lock.rs, app.rs).  A file's content is a version number.        *)
(* Abstracted: archives are within the size limits; the external copy; a     *)
(* store's memory, which agrees with its file.                              *)
(***************************************************************************)
EXTENDS Integers, Sequences, SequencesExt

CONSTANTS
  Procs,       \* processes started on the same DATA_DIR
  Stores,      \* data files
  LockFile,    \* .lock
  Order,       \* all files in path order
  Uploads,     \* archives sent with a restore request that are not stored here
  Retention,   \* policy.retention
  Budget,      \* the number of archives max_storage_bytes has room for
  MaxWrites, MaxOps, MaxFaults, MaxStops   \* bounds

Files == Stores \cup {LockFile}
Damaged == -1   \* bytes without the right checksum, or that no store can decode
Bytes == Nat \cup {Damaged}
Nothing == [f \in {} |-> 0]

ASSUME BackupAssumption ==
  /\ LockFile \notin Stores /\ Order \in Seq(Files) /\ IsInjective(Order) /\ Range(Order) = Files
  /\ \A upload \in Uploads : DOMAIN upload \subseteq Files /\ upload \in [DOMAIN upload -> Bytes]
  /\ Retention \in Nat \ {0} /\ Budget \in Nat \ {0} /\ Procs # {}
  /\ {MaxWrites, MaxOps, MaxFaults, MaxStops} \subseteq Nat

VARIABLES
  disk,     \* disk[f]: version of the data file, 0 while there is none
  inode,    \* the inode the path .lock names
  proc,     \* proc[p]: where p is and the lock inode it holds open
  todo,     \* todo[p]: files restore_files has yet to replace in a start of p
  op,       \* op[p]: the operation that holds operation_lock
  backups,  \* backups/backup-*.json, oldest first
  pending,  \* backups/restore-pending.json: at most one record
  truth,    \* history: what DATA_DIR ought to hold
  spent     \* writes, operations, faults and stops so far

bvars == <<disk, inode, proc, todo, op, backups, pending, truth, spent>>

Starting == {"locked", "resaved", "apply", "undo"}
Alive == Starting \cup {"up"}
NoOp == [pc |-> "idle", kind |-> "create", left |-> {}, got |-> Nothing, upload |-> Nothing]
Down == [pc |-> "down", ino |-> 0]
Started == \E r \in pending : r.started

BackupInit ==
  /\ disk \in [Stores -> {0, 1}] /\ (\E f \in Stores : disk[f] = 1)
  /\ inode = 1 /\ proc = [p \in Procs |-> Down] /\ todo = [p \in Procs |-> {}]
  /\ op = [p \in Procs |-> NoOp] /\ backups = <<>> /\ pending = {} /\ truth = disk
  /\ spent = [writes |-> 0, ops |-> 0, faults |-> 0, stops |-> 0]

Pay(what, max) == spent[what] < max /\ spent' = [spent EXCEPT ![what] = @ + 1]

----------------------------------------------------------------------------
\* Archives and files.

\* collect_files: every regular file but temporary ones and the restart
\* notice.  .lock is a regular file of DATA_DIR like the others.
collect_files == {LockFile} \cup {f \in Stores : disk[f] # 0}
Content(f) == IF f = LockFile THEN 1 ELSE disk[f]
build_archive == [f \in collect_files |-> Content(f)]

\* An archive's files are in path order, and are replaced in this order.
First(files) ==
  Order[CHOOSE i \in DOMAIN Order : Order[i] \in files /\ \A k \in 1 .. i - 1 : Order[k] \notin files]

\* prune_locked: the newest keep archives stay.
prune_locked(stored, keep) ==
  IF Len(stored) <= keep THEN stored ELSE SubSeq(stored, Len(stored) - keep + 1, Len(stored))

Entry(id, files) == [id |-> id, files |-> files]
Named(id) == {backups[i].files : i \in {n \in DOMAIN backups : backups[n].id = id}}

\* write_file_atomic of a backup under its name: the newest from here on.
Save(id, files) ==
  LET same == {i \in DOMAIN backups : backups[i].id = id}
      others == IF same = {} THEN backups ELSE RemoveAt(backups, CHOOSE i \in same : TRUE)
  IN  Append(others, Entry(id, files))

\* DATA_DIR with an archive over it: files the archive lacks are kept.
Over(data, archive) ==
  [f \in Stores |-> IF f \in DOMAIN archive THEN archive[f] ELSE data[f]]

\* write_file_atomic of a file of DATA_DIR: its path names a new inode.
Replace(f, version) ==
  IF f = LockFile THEN inode' = inode + 1 /\ disk' = disk
                  ELSE inode' = inode /\ disk' = [disk EXCEPT ![f] = version]

----------------------------------------------------------------------------
\* Start-up: the lock, then apply_pending_restore, then the stores.

Goto(p, pc) == proc' = [proc EXCEPT ![p].pc = pc]

\* InstanceLock::acquire: flock on the inode the path names now.  A process
\* that finds it taken exits at once.
acquire(p) ==
  /\ proc[p].pc \in {"down", "refused"}
  /\ \A q \in Procs : proc[q].pc \in Alive => proc[q].ino # inode
  /\ proc' = [proc EXCEPT ![p] = [pc |-> "locked", ino |-> inode]]
  /\ UNCHANGED <<disk, inode, todo, op, backups, pending, truth, spent>>

\* Nothing is staged: the stores are loaded and the services started.
LoadStores(p) ==
  /\ proc[p].pc = "locked" /\ pending = {} /\ Goto(p, "up")
  /\ UNCHANGED <<disk, inode, todo, op, backups, pending, truth, spent>>

\* Mutation: the snapshot is taken anew on every start.
MutResave(p) ==
  /\ proc[p].pc = "locked"
  /\ \E r \in pending :
       /\ backups' = Save(r.snapshot, build_archive) /\ Goto(p, "resaved")
  /\ UNCHANGED <<disk, inode, todo, op, pending, truth, spent>>

\* A restore not yet started: its snapshot is taken anew, to include what was
\* written while the old process went down.
Resave(p) ==
  /\ proc[p].pc = "locked"
  /\ \E r \in pending :
       /\ ~r.started /\ backups' = Save(r.snapshot, build_archive) /\ Goto(p, "resaved")
  /\ UNCHANGED <<disk, inode, todo, op, pending, truth, spent>>

\* Mutation: a restore that was started before is left alone.
MutMarkStarted(p) ==
  /\ proc[p].pc = "resaved"
  /\ \E r \in pending :
       /\ pending' = {[r EXCEPT !.started = TRUE]}
       /\ todo' = [todo EXCEPT ![p] = DOMAIN r.archive]
  /\ Goto(p, "apply") /\ UNCHANGED <<disk, inode, op, backups, truth, spent>>

\* The restore is marked as started, or was by an earlier start.
MarkStarted(p) ==
  /\ \/ proc[p].pc = "resaved"
     \/ proc[p].pc = "locked" /\ Started
  /\ \E r \in pending :
       /\ pending' = {[r EXCEPT !.started = TRUE]}
       /\ todo' = [todo EXCEPT ![p] = DOMAIN r.archive]
  /\ Goto(p, "apply") /\ UNCHANGED <<disk, inode, op, backups, truth, spent>>

\* restore_files: one atomic replacement after the other.
RestoreFile(p) ==
  /\ proc[p].pc = "apply" /\ todo[p] # {}
  /\ LET f == First(todo[p]) IN
       (\E r \in pending : Replace(f, r.archive[f])) /\ todo' = [todo EXCEPT ![p] = @ \ {f}]
  /\ UNCHANGED <<proc, op, backups, pending, truth, spent>>

\* Mutation: the rollback does not know which files the archive added.
MutUndo(before, archive) == DOMAIN before

\* The rollback: the files of the snapshot, then those the archive added.
Undo(before, archive) == DOMAIN before \cup DOMAIN archive
UndoNext(before, files) ==
  IF files \cap DOMAIN before # {} THEN First(files \cap DOMAIN before) ELSE First(files)

\* A replacement fails: what was there is put back.
RestoreFails(p) ==
  /\ proc[p].pc = "apply" /\ todo[p] # {} /\ Pay("faults", MaxFaults) /\ Goto(p, "undo")
  /\ \E r \in pending : \E before \in Named(r.snapshot) :
       todo' = [todo EXCEPT ![p] = Undo(before, r.archive)]
  /\ UNCHANGED <<disk, inode, op, backups, pending, truth>>

UndoFile(p) ==
  /\ proc[p].pc = "undo" /\ todo[p] # {}
  /\ \E r \in pending : \E before \in Named(r.snapshot) : LET f == UndoNext(before, todo[p]) IN
       /\ Replace(f, IF f \in DOMAIN before THEN before[f] ELSE 0)
       /\ todo' = [todo EXCEPT ![p] = @ \ {f}]
  /\ UNCHANGED <<proc, op, backups, pending, truth, spent>>

\* Put back: the start fails, the request stays for the next one.
Refuse(p) ==
  /\ proc[p].pc = "undo" /\ todo[p] = {} /\ proc' = [proc EXCEPT ![p] = [pc |-> "refused", ino |-> 0]]
  /\ UNCHANGED <<disk, inode, todo, op, backups, pending, truth, spent>>

\* All files replaced: the request is removed, the stores are loaded.
RestoreDone(p) ==
  /\ proc[p].pc = "apply" /\ todo[p] = {} /\ Goto(p, "up")
  /\ truth' = IF pending = {} THEN truth ELSE Over(truth, (CHOOSE r \in pending : TRUE).archive)
  /\ pending' = {} /\ UNCHANGED <<disk, inode, todo, op, backups, spent>>

\* Exit at any point, by a stop, a crash or an error of a start; the kernel
\* releases the lock.
Exit(p) ==
  /\ proc[p].pc \in Alive /\ Pay("stops", MaxStops)
  /\ proc' = [proc EXCEPT ![p] = Down] /\ todo' = [todo EXCEPT ![p] = {}]
  /\ op' = [op EXCEPT ![p] = NoOp]
  /\ UNCHANGED <<disk, inode, backups, pending, truth>>

----------------------------------------------------------------------------
\* The running program.

\* A store writes its file.
Write(p, f) ==
  /\ proc[p].pc = "up" /\ Pay("writes", MaxWrites)
  /\ disk' = [disk EXCEPT ![f] = @ + 1] /\ truth' = [truth EXCEPT ![f] = @ + 1]
  /\ UNCHANGED <<inode, proc, todo, op, backups, pending>>

\* create_stored_backup, or restore of a validated archive: each holds the
\* lock to its end and begins by listing the files to archive.
Begin(p, kind, upload) ==
  /\ proc[p].pc = "up" /\ op[p].pc = "idle" /\ Pay("ops", MaxOps)
  /\ op' = [op EXCEPT ![p] = [pc |-> "read", kind |-> kind, left |-> collect_files,
                             got |-> Nothing, upload |-> upload]]
  /\ UNCHANGED <<disk, inode, proc, todo, backups, pending, truth>>
create_stored_backup(p) == Begin(p, "create", Nothing)
\* validate_archive: one damaged file and the whole archive is refused.
validate_archive(upload) == \A f \in DOMAIN upload : upload[f] # Damaged
restore(p) ==
  \E upload \in Uploads \cup {backups[i].files : i \in DOMAIN backups} :
    validate_archive(upload) /\ Begin(p, "restore", upload)

\* build_archive reads the next file; the stores may write in between.
Unread(p) == op[p].left
ReadFile(p) ==
  /\ op[p].pc = "read" /\ Unread(p) # {}
  /\ LET f == First(Unread(p)) got == op[p].got IN
       op' = [op EXCEPT ![p].left = @ \ {f},
                        ![p].got = [g \in DOMAIN got \cup {f} |-> IF g = f THEN Content(f) ELSE got[g]]]
  /\ UNCHANGED <<disk, inode, proc, todo, backups, pending, truth, spent>>

\* store_archive: over the budget, old archives go first; still over it, the
\* operation fails.
MakeRoom(p) ==
  /\ op[p].pc = "read" /\ Unread(p) = {} /\ op[p].kind = "create"
  /\ backups' = IF Len(backups) + 1 > Budget THEN prune_locked(backups, Retention - 1) ELSE backups
  /\ op' = [op EXCEPT ![p] = IF Len(backups') + 1 > Budget THEN NoOp ELSE [@ EXCEPT !.pc = "store"]]
  /\ UNCHANGED <<disk, inode, proc, todo, pending, truth, spent>>

StoreArchive(p) ==
  /\ op[p].pc = "store" /\ backups' = Save(spent.ops, op[p].got)
  /\ op' = [op EXCEPT ![p].pc = "verify"]
  /\ UNCHANGED <<disk, inode, proc, todo, pending, truth, spent>>

\* The isolated restore succeeds and old archives go, or it fails and the
\* archive stays.
Verify(p) ==
  /\ op[p].pc = "verify" /\ op' = [op EXCEPT ![p] = NoOp]
  /\ \/ backups' = prune_locked(backups, Retention) /\ spent' = spent
     \/ backups' = backups /\ Pay("faults", MaxFaults)
  /\ UNCHANGED <<disk, inode, proc, todo, pending, truth>>

\* restore: the snapshot is stored, then the request is staged; a request
\* that was staged before is replaced.
StoreSnapshot(p) ==
  /\ op[p].pc = "read" /\ Unread(p) = {} /\ op[p].kind = "restore"
  /\ backups' = Save(spent.ops, op[p].got) /\ op' = [op EXCEPT ![p].pc = "stage"]
  /\ UNCHANGED <<disk, inode, proc, todo, pending, truth, spent>>

Stage(p) ==
  /\ op[p].pc = "stage" /\ op' = [op EXCEPT ![p] = NoOp]
  /\ pending' = {[archive |-> op[p].upload, snapshot |-> spent.ops, started |-> FALSE]}
  /\ UNCHANGED <<disk, inode, proc, todo, backups, truth, spent>>

----------------------------------------------------------------------------
StartUp(p) ==
  \/ acquire(p) \/ LoadStores(p) \/ Resave(p) \/ MarkStarted(p) \/ RestoreFile(p)
  \/ UndoFile(p) \/ Refuse(p) \/ RestoreDone(p)
Operate(p) ==
  \/ ReadFile(p) \/ MakeRoom(p) \/ StoreArchive(p) \/ Verify(p) \/ StoreSnapshot(p) \/ Stage(p)
Ask(p) ==
  \/ create_stored_backup(p) \/ restore(p) \/ RestoreFails(p) \/ Exit(p)
  \/ \E f \in Stores : Write(p, f)

BackupNext == \E p \in Procs : StartUp(p) \/ Operate(p) \/ Ask(p)
BackupSpec == BackupInit /\ [][BackupNext]_bvars

----------------------------------------------------------------------------
\* Types.
BackupTypeOK ==
  /\ disk \in [Stores -> Nat] /\ truth \in [Stores -> Nat] /\ inode \in Nat \ {0}
  /\ \A p \in Procs :
       /\ proc[p].pc \in Alive \cup {"down", "refused"} /\ proc[p].ino <= inode
       /\ todo[p] \subseteq Files /\ op[p].pc \in {"idle", "read", "store", "verify", "stage"}
  /\ \A i \in DOMAIN backups : DOMAIN backups[i].files \subseteq Files

\* Whoever runs, runs on the data of its past: what was written last, or all
\* of the archive that was restored over it, whatever failed and however often
\* the program was stopped in the middle.  A start that gives up has put the
\* old data back.
DataWhole ==
  \A p \in Procs : proc[p].pc \in {"up", "refused"} =>
    disk = truth /\ \A f \in Stores : disk[f] # Damaged

\* While a restore is under way its snapshot is there and holds the data from
\* before the first replacement, the writes of the shutdown included.
SnapshotIsOriginal ==
  \A r \in pending : r.started =>
    \E files \in Named(r.snapshot) :
      \A f \in Stores : truth[f] = IF f \in DOMAIN files THEN files[f] ELSE 0

\* A restore that is staged when the program stops gets applied, and a start
\* that was interrupted or refused is made good by a later one.
RestoreEnds ==
  (pending # {} /\ \A p \in Procs : proc[p].pc # "up") ~> (\E p \in Procs : proc[p].pc = "up" /\ pending = {})

\* "Two instances sharing a DATA_DIR overwrite each other's data": at most
\* one process is past the lock.
SingleInstance ==
  \A p, q \in Procs : proc[p].pc \in Alive /\ proc[q].pc \in Alive => p = q

\* A restore is all or nothing, and the way back exists as long as it may be
\* needed.
RestoreAtomic == DataWhole /\ SnapshotIsOriginal
=============================================================================

------------------------------ MODULE Retention ------------------------------
(***************************************************************************)
(* The cleanup of the histories (api/storage.rs, services/storage.rs and    *)
(* the compact_* of the stores): a preview, a backup, then one store after  *)
(* the other is cut to its limit, each under its own lock, while the        *)
(* program goes on recording and the worker moves ended jobs to the         *)
(* archive.  Nothing is held from the preview to the last cut, and a store  *)
(* that fails stops the rest.                                               *)
(* A record is a number, later ones higher.  Cuts with other limits than    *)
(* these, and the pruning each store does when it records, are left to it.  *)
(***************************************************************************)
EXTENDS Naturals, Sequences, FiniteSets, SequencesExt

CONSTANTS
  Limit,       \* Limit[l]: what a cleanup leaves of log l
  MaxLog,      \* bound: records of a log at the start, if any
  MaxNew,      \* bound: records made meanwhile
  Events       \* the ages at which an event and a failed one expire

Logs == {"switches", "links", "jobs", "archive", "events"}
ASSUME RetentionAssumption ==
  Limit \in [Logs -> Nat] /\ {MaxLog, MaxNew} \subseteq Nat /\ Events \in [{"normal", "failed"} -> Nat]

VARIABLES
  logs,      \* logs[l]: newest first for "switches", last for the others
  old,       \* what is known of the events: age and whether they failed
  clean,     \* the cleanup: pc, the total of its preview, the jobs it archived
  backup,    \* the records its backup holds, and the last record by then
  gone,      \* records the cleanup removed, with their log
  slipped,   \* jobs moved between the two files of the backup
  made,      \* the last record
  quiet      \* nothing happened since the preview

rvars == <<logs, old, clean, backup, gone, slipped, made, quiet>>

Records(l) == Range(logs[l])
Surplus(n, limit) == IF n > limit THEN n - limit ELSE 0
\* Mutation: truncate where drain is meant.
MutNewest(s, n) == SubSeq(s, 1, IF Len(s) > n THEN n ELSE Len(s))
\* The newest n of a log that grows at its end (drain).
Newest(s, n) == SubSeq(s, Surplus(Len(s), n) + 1, Len(s))
Cut(l) == IF l = "switches" THEN SubSeq(logs[l], 1, IF Len(logs[l]) > Limit[l] THEN Limit[l] ELSE Len(logs[l]))
          ELSE Newest(logs[l], Limit[l])
\* prune_events_with_policy: by age, then by number.
Expired(e) == old[e].age > Events[IF old[e].failed THEN "failed" ELSE "normal"]
\* The records of S in the order they were made.
Ordered(S) == [k \in 1 .. Cardinality(S) |-> CHOOSE x \in S : Cardinality({y \in S : y <= x}) = k]
Pruned == Newest(Ordered({e \in Records("events") : ~Expired(e)}), Limit["events"])

RetentionInit ==
  /\ \E size \in [Logs -> {0, MaxLog}], failed \in SUBSET (1..MaxLog), age \in [1..MaxLog -> 0..1] :
       /\ \A i, k \in 1..MaxLog : i < k => age[i] >= age[k]
       /\ size["switches"] = size["links"]
       /\ logs = [l \in Logs |-> [i \in 1..size[l] |->
                    IF l = "switches" THEN size[l] + 1 - i
                    ELSE IF l = "jobs" THEN size["archive"] + i ELSE i]]
       /\ old = [e \in 1..(2 * MaxLog + MaxNew) |->
                   [age |-> IF e <= MaxLog THEN age[e] ELSE 0, failed |-> e \in failed]]
  /\ clean = [pc |-> "idle", shown |-> 0, moved |-> 0] /\ backup = [files |-> {}, upto |-> 0]
  /\ gone = {} /\ slipped = {} /\ made = 2 * MaxLog /\ quiet = TRUE

----------------------------------------------------------------------------
\* The program records; an hour passes; the worker archives what is over.
RecordOne(l) ==
  /\ l # "archive" /\ made < 2 * MaxLog + MaxNew /\ made' = made + 1 /\ quiet' = FALSE
  /\ logs' = [logs EXCEPT ![l] = IF l = "switches" THEN <<made'>> \o @ ELSE Append(@, made')]
  /\ UNCHANGED <<old, clean, backup, gone, slipped>>
TimePasses ==
  /\ \A e \in DOMAIN old : old[e].age < 2
  /\ old' = [e \in DOMAIN old |-> [old[e] EXCEPT !.age = @ + 1]] /\ quiet' = FALSE
  /\ UNCHANGED <<logs, clean, backup, gone, slipped, made>>

Archived(excess) == [logs EXCEPT !["jobs"] = SubSeq(@, excess + 1, Len(@)),
  !["archive"] = Newest(@ \o SubSeq(logs["jobs"], 1, excess), Limit["archive"])]
WorkerArchives ==
  LET excess == Surplus(Len(logs["jobs"]), Limit["jobs"]) moved == Range(SubSeq(logs["jobs"], 1, excess)) IN
    /\ excess > 0 /\ logs' = Archived(excess) /\ quiet' = FALSE
    /\ slipped' = IF clean.pc = "rest" THEN slipped \cup moved ELSE slipped
    /\ UNCHANGED <<old, clean, backup, gone, made>>

\* total_would_remove, the sum over the stores.  A job that only moves to the
\* archive counts in active_job_history, and again where the archive overflows.
Shown ==
  LET excess == Surplus(Len(logs["jobs"]), Limit["jobs"]) IN
    Surplus(Len(logs["switches"]), Limit["switches"]) + Surplus(Len(logs["links"]), Limit["links"])
    + excess + Surplus(Len(logs["archive"]) + excess, Limit["archive"])
    + Surplus(Len(logs["events"]), Len(Pruned))
\* What every variable may hold.
RetentionTypeOK ==
  /\ logs \in [Logs -> Seq(1..made)] /\ made \in Nat /\ quiet \in BOOLEAN
  /\ old \in [1..(2 * MaxLog + MaxNew) -> [age : 0..2, failed : BOOLEAN]]
  /\ clean \in [pc : {"idle", "archivefile", "rest", "switches", "jobs", "archive", "events", "done", "failed"},
                shown : Nat, moved : Nat]
  /\ backup \in [files : SUBSET (Logs \X (1..made)), upto : 0..made]
  /\ gone \subseteq Logs \X (1..made) /\ slipped \subseteq 1..made

Moves(from, to) == clean.pc = from /\ clean' = [clean EXCEPT !.pc = to]
Preview ==
  /\ clean.pc = "idle" /\ clean' = [pc |-> "archivefile", shown |-> Shown, moved |-> 0] /\ quiet' = TRUE
  /\ UNCHANGED <<logs, old, backup, gone, slipped, made>>

\* create_stored_backup reads the files in the order of their names.
BackupArchive ==
  /\ Moves("archivefile", "rest")
  /\ backup' = [files |-> {<<"jobs", i>> : i \in Records("archive")}, upto |-> made]
  /\ UNCHANGED <<logs, old, gone, slipped, made, quiet>>
BackupRest ==
  /\ Moves("rest", "switches")
  /\ backup' = [backup EXCEPT !.files = @ \cup
       UNION {{<<l, i>> : i \in Records(l)} : l \in Logs \ {"archive"}}]
  /\ UNCHANGED <<logs, old, gone, slipped, made, quiet>>

\* A job is gone when neither of its files has it.
Name(l) == IF l = "archive" THEN "jobs" ELSE l
Lost(l, new) == {i \in Records(l) : i \notin Range(new[l]) /\ ~(l = "jobs" /\ i \in Range(new["archive"]))}
Removes(new) ==
  /\ logs' = new
  /\ gone' = gone \cup {x \in Logs \X (1..made) : \E l \in Logs : x[1] = Name(l) /\ x[2] \in Lost(l, new)}
CompactStore ==
  /\ \/ Moves("switches", "jobs")
        /\ Removes([logs EXCEPT !["switches"] = Cut("switches"), !["links"] = Cut("links")])
     \/ LET excess == Surplus(Len(logs["jobs"]), Limit["jobs"]) IN
        /\ clean.pc = "jobs" /\ clean' = [clean EXCEPT !.pc = "archive", !.moved = excess]
        /\ Removes(Archived(excess))
     \/ Moves("archive", "events") /\ Removes([logs EXCEPT !["archive"] = Cut("archive")])
     \/ Moves("events", "done") /\ Removes([logs EXCEPT !["events"] = Pruned])
  /\ UNCHANGED <<old, backup, slipped, made, quiet>>
\* The backup or a write fails: the stores before it stay cut.
CleanupFails ==
  /\ clean.pc \notin {"idle", "done", "failed"} /\ clean' = [clean EXCEPT !.pc = "failed"]
  /\ UNCHANGED <<logs, old, backup, gone, slipped, made, quiet>>

RetentionNext ==
  \/ TimePasses \/ WorkerArchives \/ Preview \/ BackupArchive \/ BackupRest
  \/ CompactStore \/ CleanupFails \/ \E l \in Logs : RecordOne(l)

----------------------------------------------------------------------------
\* What a cleanup removed, of what there was when its backup began, is in the
\* backup, but for a job moved between its two files; whatever fails half-way.
BackupCovers == \A x \in gone : x[2] <= backup.upto => x \in backup.files \/ (x[1] = "jobs" /\ x[2] \in slipped)
\* Of no log but the events is a record removed while an older one stays, in
\* whichever direction the log grows and across the two files of the jobs.
NewestStay == \A x \in gone : x[1] # "events" =>
  \A k \in Records(x[1]) \cup (IF x[1] = "jobs" THEN Records("archive") ELSE {}) : k > x[2]
\* Undisturbed, a cleanup does what its preview said: the total is the records
\* that are gone and the jobs it moved to the archive, some of which it cut there.
PreviewTrue == clean.pc = "done" /\ quiet => Cardinality(gone) + clean.moved = clean.shown

\* A cleanup removes the oldest records only, what its backup holds, and with
\* what it archives as many as its preview said.
CleanupSafe == BackupCovers /\ NewestStay /\ PreviewTrue
=============================================================================

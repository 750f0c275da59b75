------------------------------ MODULE JobStore ------------------------------
(***************************************************************************)
(* The job file, the archive file and the list in memory under concurrent  *)
(* callers: the save lock, the commit task that owns it even when its      *)
(* caller is gone, writes that fail before or after the rename, process    *)
(* exit between any two steps (src/src/jobs/store.rs, store/commit.rs,     *)
(* utils/mod.rs).                                                          *)
(***************************************************************************)
EXTENDS Integers, Sequences, FiniteSets, SequencesExt

CONSTANTS
  Clients,     \* concurrent callers
  Nobody,      \* holder of a free lock
  MaxJobs,     \* bound: records ever created
  MaxAttempts, \* MAX_AUTO_ATTEMPTS
  MaxStored,   \* MAX_JOBS
  Retain,      \* terminal records kept by archive_completed
  MaxArchived, \* configured_archive_retention()
  MaxFaults,   \* bound: writes that fail
  MaxCrashes   \* bound: process exits

ASSUME StoreAssumption ==
  /\ Clients # {} /\ Nobody \notin Clients
  /\ MaxJobs \in Nat \ {0} /\ MaxAttempts \in Nat \ {0} /\ MaxStored \in Nat /\ Retain \in Nat /\ MaxArchived \in Nat
  /\ MaxFaults \in Nat /\ MaxCrashes \in Nat

Ids == 1 .. MaxJobs   \* in the order in which they are appended

\* A record: queued or running ("active"), failed, or succeeded or canceled
\* ("settled"), in the attempt it counts.
Absent == [status |-> "none", attempt |-> 0]
Begun == [status |-> "active", attempt |-> 1]
Records == [status : {"active", "failed", "settled"}, attempt : 1 .. MaxAttempts]
Places == Records \cup {Absent}
is_terminal(record) == record.status \in {"failed", "settled"}

\* The updates: the end of an attempt, the automatic retry of a failed one, and
\* the mark of the shutdown, which looks at nothing.
Updates == {"fail", "settle", "retry", "mark"}
Edits == Updates \cup {"add"}   \* what changes one record and announces it
Requests == Edits \cup {"archive_completed", "clear_finished", "prune_archive"}
Steps == {"disk", "archive", "memory", "event"}
NoJobs == [j \in Ids |-> Absent]
NewCall(op, j) == [op |-> op, job |-> j, steps |-> <<>>, jobs |-> NoJobs, archive |-> <<>>]
NoCall == NewCall("add", 1)
Calls == {NewCall(op, 1) : op \in Requests \ Updates}
           \cup {NewCall(op, j) : op \in Updates, j \in Ids}

VARIABLES
  jobs,       \* the list in memory; while the process is down, as last read
  disk,       \* the job file
  archive,    \* the archive file: ids, oldest first
  lock,       \* the holder of save_lock
  at,         \* at[c]: "idle", "wait" for the lock, "commit"
  call,       \* call[c]: the operation and its job, what is left of its
              \* commit, and the snapshots it writes
  present,    \* the clients that still wait for their result
  up,         \* whether the process runs
  nextJob, faults, crashes,
  announced,  \* announced[j]: what the last event about j said
  told,       \* history: told[j]: the last thing a reader could see of j
  dropped     \* history: jobs removed on purpose

files == <<disk, archive>>
commits == <<lock, at, call, present>>
jvars == <<jobs, files, commits, up, nextJob, faults, crashes, announced, told, dropped>>

----------------------------------------------------------------------------
Stored(list) == {j \in Ids : list[j] # Absent}
Terminal(list) == {j \in Ids : is_terminal(list[j])}
Oldest(S, n) == {j \in S : Cardinality({i \in S : i < j}) < n}
Without(S, list) == [j \in Ids |-> IF j \in S THEN Absent ELSE list[j]]
Newest(s, n) == IF Len(s) > n THEN SubSeq(s, Len(s) - n + 1, Len(s)) ELSE s
Ascending(S) ==
  CHOOSE s \in [1 .. Cardinality(S) -> S] : \A i, k \in DOMAIN s : i < k => s[i] < s[k]

\* truncate_jobs: only terminal records are evicted, the oldest first.
Excess(list) ==
  LET n == Cardinality(Stored(list)) - MaxStored IN
  IF n > 0 THEN Oldest(Terminal(list), n) ELSE {}
truncate_jobs(list) == Without(Excess(list), list)

\* The terminal records beyond those to be retained.
ToArchive ==
  LET n == Cardinality(Terminal(jobs)) - Retain IN
  IF n > 0 THEN Oldest(Terminal(jobs), n) ELSE {}

\* Mutation: the retry takes a record whatever its status.
Mutaccepts(op, record) ==
  CASE op \in {"fail", "settle"} -> record.status = "active"
    [] op = "retry" -> record.status # "none" /\ record.attempt < MaxAttempts
    [] op = "mark" -> record.status # "none"

\* What the closures of the callers look at, and what they write.
accepts(op, record) ==
  CASE op \in {"fail", "settle"} -> record.status = "active"
    [] op = "retry" -> record.status = "failed" /\ record.attempt < MaxAttempts
    [] op = "mark" -> record.status # "none"
updated(op, record) ==
  CASE op \in {"fail", "mark"} -> [record EXCEPT !.status = "failed"]
    [] op = "settle" -> [record EXCEPT !.status = "settled"]
    [] op = "retry" -> [status |-> "active", attempt |-> record.attempt + 1]

\* A call that finds nothing to change returns without a commit.
Nothing(r) ==
  \/ r.op = "add" /\ nextJob > MaxJobs
  \/ r.op \in Updates /\ ~accepts(r.op, jobs[r.job])
  \/ r.op = "archive_completed" /\ ToArchive = {}
  \/ r.op = "prune_archive" /\ Len(archive) <= MaxArchived

\* The snapshots a call computes, and the jobs it removes for good.
Added == [jobs EXCEPT ![nextJob] = Begun]
Snapshot(r) ==
  CASE r.op = "add" -> truncate_jobs(Added)
    [] r.op \in Updates -> [jobs EXCEPT ![r.job] = updated(r.op, jobs[r.job])]
    [] r.op = "archive_completed" -> Without(ToArchive, jobs)
    [] r.op = "clear_finished" -> Without(Terminal(jobs), jobs)
    [] r.op = "prune_archive" -> jobs

ArchiveSnapshot(r) ==
  CASE r.op = "archive_completed" -> Newest(archive \o Ascending(ToArchive), MaxArchived)
    [] r.op = "clear_finished" -> <<>>
    [] r.op = "prune_archive" -> Newest(archive, MaxArchived)
    [] r.op \in Edits -> archive

Drops(r) ==
  CASE r.op = "add" -> Excess(Added)
    [] r.op \in Updates -> {}
    [] r.op = "clear_finished" -> Terminal(jobs) \cup ToSet(archive)
    [] r.op = "archive_completed" -> (ToSet(archive) \cup ToArchive) \ ToSet(ArchiveSnapshot(r))
    [] r.op = "prune_archive" -> ToSet(archive) \ ToSet(ArchiveSnapshot(r))

\* Mutation: archiving removes the records before it has written them.
MutPlan(op) ==
  CASE op \in Edits -> <<"disk", "memory", "event">>
    [] op = "archive_completed" -> <<"disk", "memory", "archive">>
    [] op = "clear_finished" -> <<"disk", "memory", "archive">>
    [] op = "prune_archive" -> <<"archive">>

\* The writes of a commit, in their order.
Plan(op) ==
  CASE op \in Edits -> <<"disk", "memory", "event">>
    [] op = "archive_completed" -> <<"archive", "disk", "memory">>
    [] op = "clear_finished" -> <<"disk", "memory", "archive">>
    [] op = "prune_archive" -> <<"archive">>

----------------------------------------------------------------------------
Call(c, r) ==
  /\ up /\ at[c] = "idle"
  /\ at' = [at EXCEPT ![c] = "wait"]
  /\ call' = [call EXCEPT ![c] = r]
  /\ present' = present \cup {c}
  /\ UNCHANGED <<jobs, files, lock, up, nextJob, faults, crashes, announced, told, dropped>>

\* The lock is taken, the list copied and changed, and the commit dispatched.
\* (A caller that is gone before the dispatch has had no effect: Abandon.)
Acquire(c) ==
  /\ at[c] = "wait" /\ lock = Nobody
  /\ IF Nothing(call[c])
     THEN /\ at' = [at EXCEPT ![c] = "idle"]
          /\ call' = [call EXCEPT ![c] = NoCall]
          /\ present' = present \ {c}
          /\ UNCHANGED <<lock, nextJob, dropped>>
     ELSE LET r == call[c]
              adds == r.op = "add"
          IN
          /\ lock' = c
          /\ at' = [at EXCEPT ![c] = "commit"]
          /\ call' = [call EXCEPT ![c] =
               [op |-> r.op, job |-> IF adds THEN nextJob ELSE r.job, steps |-> Plan(r.op),
                jobs |-> Snapshot(r), archive |-> ArchiveSnapshot(r)]]
          /\ nextJob' = IF adds THEN nextJob + 1 ELSE nextJob
          /\ dropped' = dropped \cup Drops(r)
          /\ UNCHANGED present
  /\ UNCHANGED <<jobs, files, up, faults, crashes, announced, told>>

\* The caller's future is dropped.  finish_commit has moved the guard into a
\* task of its own: a commit that was dispatched goes on, holding the lock.
Abandon(c) ==
  /\ c \in present
  /\ present' = present \ {c}
  /\ IF at[c] = "wait"
     THEN at' = [at EXCEPT ![c] = "idle"] /\ call' = [call EXCEPT ![c] = NoCall]
     ELSE UNCHANGED <<at, call>>
  /\ UNCHANGED <<jobs, files, lock, up, nextJob, faults, crashes, announced, told, dropped>>

\* The commit goes on with the rest of its steps, or ends.
End(c, rest) ==
  /\ call' = [call EXCEPT ![c] = IF rest = <<>> THEN NoCall ELSE [@ EXCEPT !.steps = rest]]
  /\ IF rest = <<>>
     THEN /\ at' = [at EXCEPT ![c] = "idle"]
          /\ lock' = Nobody
          /\ present' = present \ {c}
     ELSE UNCHANGED <<at, lock, present>>

At(c, step) == at[c] = "commit" /\ Head(call[c].steps) = step

WriteDisk(c) ==
  /\ At(c, "disk")
  /\ disk' = call[c].jobs
  /\ End(c, Tail(call[c].steps))
  /\ UNCHANGED <<jobs, archive, up, nextJob, faults, crashes, announced, told, dropped>>

WriteArchive(c) ==
  /\ At(c, "archive")
  /\ archive' = call[c].archive
  /\ End(c, Tail(call[c].steps))
  /\ UNCHANGED <<jobs, disk, up, nextJob, faults, crashes, announced, told, dropped>>

\* write_file_atomic fails, before the rename or after it, in sync_parent_dir:
\* the commit ends with an error, whatever the file now holds.
WriteFails(c) ==
  /\ At(c, "disk") \/ At(c, "archive")
  /\ faults < MaxFaults /\ faults' = faults + 1
  /\ \/ UNCHANGED files
     \/ At(c, "disk") /\ disk' = call[c].jobs /\ UNCHANGED archive
     \/ At(c, "archive") /\ archive' = call[c].archive /\ UNCHANGED disk
  /\ End(c, <<>>)
  /\ UNCHANGED <<jobs, up, nextJob, crashes, announced, told, dropped>>

\* What a reader could see last, when the list becomes l.
Tell(l) == [j \in Ids |-> IF l[j] # Absent THEN l[j] ELSE told[j]]

\* replace_memory.
Publish(c) ==
  /\ At(c, "memory")
  /\ jobs' = call[c].jobs /\ told' = Tell(call[c].jobs)
  /\ End(c, Tail(call[c].steps))
  /\ UNCHANGED <<files, up, nextJob, faults, crashes, announced, dropped>>

Emit(c) ==
  /\ At(c, "event")
  /\ announced' = [announced EXCEPT ![call[c].job] = call[c].jobs[call[c].job]]
  /\ End(c, Tail(call[c].steps))
  /\ UNCHANGED <<jobs, files, up, nextJob, faults, crashes, told, dropped>>

\* The process exits: only the files are left.
Crash ==
  /\ up /\ crashes < MaxCrashes
  /\ up' = FALSE /\ crashes' = crashes + 1
  /\ lock' = Nobody /\ present' = {}
  /\ at' = [c \in Clients |-> "idle"] /\ call' = [c \in Clients |-> NoCall]
  /\ UNCHANGED <<jobs, files, nextJob, faults, announced, told, dropped>>

\* load reads the file and truncates it; subscribers read the list anew.
load ==
  /\ ~up /\ up' = TRUE
  /\ jobs' = truncate_jobs(disk) /\ disk' = jobs'
  /\ told' = Tell(jobs') /\ announced' = jobs'
  /\ dropped' = dropped \cup Excess(disk)
  /\ UNCHANGED <<archive, commits, nextJob, faults, crashes>>

StoreInit ==
  /\ jobs = NoJobs /\ disk = NoJobs /\ archive = <<>>
  /\ lock = Nobody /\ present = {}
  /\ at = [c \in Clients |-> "idle"] /\ call = [c \in Clients |-> NoCall]
  /\ up = TRUE /\ nextJob = 1 /\ faults = 0 /\ crashes = 0
  /\ announced = NoJobs /\ told = NoJobs /\ dropped = {}

Step(c) ==
  \/ Acquire(c) \/ WriteDisk(c) \/ WriteArchive(c) \/ WriteFails(c)
  \/ Publish(c) \/ Emit(c)

StoreNext ==
  \/ \E c \in Clients : Step(c) \/ Abandon(c) \/ \E r \in Calls : Call(c, r)
  \/ Crash \/ load

StoreSpec == StoreInit /\ [][StoreNext]_jvars

----------------------------------------------------------------------------
\* What every variable may hold.
StoreTypeOK ==
  /\ {jobs, disk, announced, told} \subseteq [Ids -> Places]
  /\ archive \in Seq(Ids) /\ Len(archive) <= MaxArchived
  /\ lock \in Clients \cup {Nobody} /\ present \subseteq Clients
  /\ at \in [Clients -> {"idle", "wait", "commit"}]
  /\ call \in [Clients -> [op : Requests, job : Ids, steps : Seq(Steps),
                            jobs : [Ids -> Places], archive : Seq(Ids)]]
  /\ up \in BOOLEAN /\ nextJob \in 1 .. MaxJobs + 1
  /\ faults \in Nat /\ crashes \in Nat /\ dropped \subseteq Ids

\* What a reader has seen is on disk: until it is removed on purpose, a job is
\* in the job file, in that attempt or a later one and ended if it had ended,
\* or, ended, in the archive, whatever fails between the two writes of
\* archive_completed or between a file and the memory.
Carries(p, q) == q.attempt > p.attempt \/ (q.attempt = p.attempt /\ (is_terminal(p) => is_terminal(q)))
Durable ==
  \A j \in Ids \ dropped : told[j] # Absent =>
    Carries(told[j], disk[j]) \/ (is_terminal(told[j]) /\ j \in ToSet(archive))

\* A subscriber that follows the events knows the list: no event is missing,
\* early, or about a write that failed.
EventsFollow ==
  up /\ lock = Nobody => \A j \in Stored(jobs) : announced[j] = jobs[j]

\* The store implements JobHistory: where a reader finds a record.
Place == [j \in Ids |->
  IF jobs[j] # Absent THEN jobs[j]
  ELSE IF j \in ToSet(archive) THEN [status |-> "archived", attempt |-> 0]
  ELSE IF told[j] # Absent THEN [status |-> "gone", attempt |-> 0] ELSE Absent]
History == INSTANCE JobHistory WITH Jobs <- Ids, place <- Place
HistorySpec == History!Spec

\* Readers of the list, of the events and of the files are told one story.
ReadersAgree == Durable /\ EventsFollow
=============================================================================

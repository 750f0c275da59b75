------------------------------ MODULE MediaSave ------------------------------
(***************************************************************************)
(* A share, or chosen files of it, is saved to the drive once, without a    *)
(* subscription, and handed to Aria2 (jobs/worker/manual_transfer.rs,       *)
(* media_save.rs, services/media_save.rs, clients/quark_save.rs): the       *)
(* target directory is looked at before the copy, which is neither          *)
(* idempotent nor reversible, and again after it, by name and size.         *)
(* Left out: a request without downloads; what a file name says of its      *)
(* resolution; a job canceled before it starts.  What was saved is listed   *)
(* at once, in a directory of less than fifty pages.                        *)
(***************************************************************************)
EXTENDS Naturals, FiniteSets

CONSTANTS
  Media,        \* files a share may offer
  nameOf,       \* several versions of a title may have one name
  sizeOf,       \* 0 when the share does not tell
  Selections,   \* the requested file ids; {} asks for all
  MaxSaves,     \* bound: jobs, retries included
  MaxMishaps    \* bound: failed or lost calls, crashes

ASSUME SaveAssumption ==
  /\ DOMAIN nameOf = Media /\ sizeOf \in [Media -> Nat]
  /\ Selections \subseteq SUBSET Media /\ MaxSaves \in Nat /\ MaxMishaps \in Nat

VARIABLES
  offer,     \* the files the share offers
  saves,     \* the job records: status, request, and the result they show
  work,      \* the running handlers
  folders,   \* the directories at the requested path (0 is the root)
  drive,     \* items in the drive: of which file, where, for which chain
  aria,      \* the items handed to Aria2, with the job that did
  mishaps

savars == <<offer, saves, work, folders, drive, aria, mishaps>>

Numbers == 1..MaxSaves
NoSave == [status |-> "none", kind |-> "save", want |-> {}, chain |-> 0,
           kept |-> FALSE, files |-> {}, downs |-> {}, errors |-> FALSE]
NoWork == [pc |-> "none", dir |-> 0, picked |-> {}, todo |-> {}]
RequestKey(j) == <<saves[j].kind, saves[j].want>>
Items(d) == {i \in drive : i.in = d}

SaveInit ==
  /\ offer = Media /\ saves = [j \in Numbers |-> NoSave] /\ work = [j \in Numbers |-> NoWork]
  /\ folders = {} /\ drive = {} /\ aria = {} /\ mishaps = 0

SaveSteps == {"none", "probe", "ensure", "create", "list", "send", "save", "record", "resolve", "download"}
\* What every variable may hold.
SaveTypeOK ==
  /\ offer \subseteq Media /\ folders \subseteq Nat /\ mishaps \in 0..MaxMishaps
  /\ saves \in [Numbers -> [status : {"none", "running", "succeeded", "failed"}, kind : {"save", "whole"},
                             want : SUBSET Media, chain : Nat, kept : BOOLEAN, files : SUBSET drive,
                             downs : SUBSET drive, errors : BOOLEAN]]
  /\ work \in [Numbers -> [pc : SaveSteps, dir : {0} \cup folders, picked : SUBSET Media, todo : SUBSET drive]]
  /\ drive \subseteq [of : Media, in : folders \cup {0}, by : Nat, job : Numbers] /\ aria \subseteq Numbers \X drive

Mishap == mishaps < MaxMishaps /\ mishaps' = mishaps + 1
Step(j, pc) == work[j].pc = pc
Onward(j, w) == work' = [work EXCEPT ![j] = w]
\* An error ends the handler; the worker writes it down.
Fails(j) == Onward(j, NoWork) /\ saves' = [saves EXCEPT ![j].status = "failed"]
Goes(j, pc) == Onward(j, [work[j] EXCEPT !.pc = pc]) /\ UNCHANGED saves

----------------------------------------------------------------------------
\* A request, or the retry of one, unless the same work is under way; a retry
\* of what is known to be in the drive is refused.
Enqueue(kind, want, chain) ==
  \E j \in Numbers :
    /\ saves[j].status = "none" /\ \A k \in Numbers : k < j => saves[k].status # "none"
    /\ \A k \in Numbers : saves[k].status = "running" => RequestKey(k) # <<kind, want>>
    /\ saves' = [saves EXCEPT ![j] = [NoSave EXCEPT !.status = "running", !.kind = kind,
                                        !.want = want,
                                        !.chain = IF chain = 0 THEN j ELSE chain]]
    /\ work' = [work EXCEPT ![j].pc = "probe"]
    /\ UNCHANGED <<offer, folders, drive, aria, mishaps>>
transfer_share == \E s \in Selections, k \in {"save", "whole"} :
  (k = "whole" => s = {}) /\ Enqueue(k, s, 0)
RetrySave(j) ==
  /\ saves[j].status = "failed" /\ ~saves[j].kept /\ Step(j, "none")
  /\ Enqueue(saves[j].kind, saves[j].want, saves[j].chain)

Withdrawn(f) ==
  /\ f \in offer /\ offer' = offer \ {f}
  /\ UNCHANGED <<saves, work, folders, drive, aria, mishaps>>

\* select_save_files: all that was asked for, or nothing; no two of one name.
Selectable(want, picked) ==
  /\ picked # {} /\ (want # {} => picked = want)
  /\ \A f, g \in picked : f # g => nameOf[f] # nameOf[g]

\* The probe of the share; a partial answer will do for chosen files only.
ProbeShare(j) ==
  /\ Step(j, "probe")
  /\ \E seen \in {offer} \cup (IF mishaps < MaxMishaps THEN SUBSET offer ELSE {}) :
       LET s == saves[j] picked == IF s.want = {} THEN seen ELSE s.want \cap seen IN
         /\ mishaps' = IF seen = offer THEN mishaps ELSE mishaps + 1
         /\ IF s.kind = "whole"
            THEN IF seen = {} THEN Fails(j)
                 ELSE Onward(j, [work[j] EXCEPT !.pc = "send", !.picked = seen]) /\ UNCHANGED saves
            ELSE IF Selectable(s.want, picked) /\ (s.want # {} \/ seen = offer)
                 THEN Onward(j, [work[j] EXCEPT !.pc = "ensure", !.picked = picked]) /\ UNCHANGED saves
                 ELSE Fails(j)
  /\ UNCHANGED <<offer, folders, drive, aria>>

\* ensure_dir_path: a directory of that name, else a new one.
EnsureDir(j) ==
  /\ Step(j, "ensure")
  /\ IF folders = {} THEN Onward(j, [work[j] EXCEPT !.pc = "create"])
     ELSE \E d \in folders : Onward(j, [work[j] EXCEPT !.pc = "list", !.dir = d])
  /\ UNCHANGED <<offer, saves, folders, drive, aria, mishaps>>
create_dir(j) ==
  /\ Step(j, "create") /\ LET d == Cardinality(folders) + 1 IN
       folders' = folders \cup {d} /\ Onward(j, [work[j] EXCEPT !.pc = "list", !.dir = d])
  /\ UNCHANGED <<offer, saves, drive, aria, mishaps>>

\* Mutation: the directory is not looked at.
MutClash(j) == FALSE
\* A file of that name is there already: of another version, or of this one.
Clash(j) == \E f \in work[j].picked, i \in Items(work[j].dir) : nameOf[i.of] = nameOf[f]

ListTarget(j) ==
  /\ Step(j, "list")
  /\ IF Clash(j) THEN Fails(j) ELSE Goes(j, "send")
  /\ UNCHANGED <<offer, folders, drive, aria, mishaps>>

\* provider.transfer lists the share again, under the token it saves with; what
\* changed since the probe is not saved in part.
Relist(j) ==
  /\ Step(j, "send")
  /\ LET found == IF saves[j].kind = "whole" THEN offer ELSE work[j].picked \cap offer IN
       IF found = {} \/ (saves[j].kind = "save" /\ found # work[j].picked)
       THEN Fails(j)
       ELSE Onward(j, [work[j] EXCEPT !.pc = "save", !.picked = found]) /\ UNCHANGED saves
  /\ UNCHANGED <<offer, folders, drive, aria, mishaps>>

\* save_share_files: done; done and the answer lost; refused.
Copies(j) ==
  drive' = drive \cup {[of |-> f, in |-> work[j].dir, by |-> saves[j].chain, job |-> j] :
                         f \in work[j].picked}
Saved(j) ==
  /\ Step(j, "save") /\ Copies(j) /\ Onward(j, [work[j] EXCEPT !.pc = "record"])
  /\ UNCHANGED <<offer, saves, folders, aria, mishaps>>
SaveFails(j) ==
  /\ Step(j, "save") /\ Mishap /\ (Copies(j) \/ UNCHANGED drive) /\ Fails(j)
  /\ UNCHANGED <<offer, folders, aria>>

\* The result is written at once; a whole share ends here.
RecordSave(j) ==
  /\ Step(j, "record")
  /\ IF saves[j].kind = "whole"
     THEN /\ saves' = [saves EXCEPT ![j].status = "succeeded", ![j].kept = TRUE]
          /\ Onward(j, NoWork)
     ELSE /\ saves' = [saves EXCEPT ![j].kept = TRUE]
          /\ Onward(j, [work[j] EXCEPT !.pc = "resolve"])
  /\ UNCHANGED <<offer, folders, drive, aria, mishaps>>

\* resolve_saved_files: the one item of that name, of the expected size.
Named(j, f) == {i \in Items(work[j].dir) : nameOf[i.of] = nameOf[f]}
Resolvable(j) == \A f \in work[j].picked : \E i \in drive :
  Named(j, f) = {i} /\ sizeOf[f] \in {0, sizeOf[i.of]}
\* Three looks at the directory: all files, or an error and none.
ResolveSaved(j) ==
  /\ Step(j, "resolve")
  /\ \E ok \in BOOLEAN :
       LET files == IF ok THEN UNION {Named(j, f) : f \in work[j].picked} ELSE {} IN
         /\ (ok => Resolvable(j)) /\ IF ok \/ ~Resolvable(j) THEN UNCHANGED mishaps ELSE Mishap
         /\ saves' = [saves EXCEPT ![j].files = files, ![j].errors = ~ok]
         /\ Onward(j, [work[j] EXCEPT !.pc = "download", !.todo = files])
  /\ UNCHANGED <<offer, folders, drive, aria>>

\* Link and add_uri, then the result is written again, file by file.
Download(j, i) ==
  /\ Step(j, "download") /\ i \in work[j].todo
  /\ \E ok, reached \in BOOLEAN :
       /\ (ok => reached) /\ IF ok THEN UNCHANGED mishaps ELSE Mishap
       /\ aria' = IF reached THEN aria \cup {<<j, i>>} ELSE aria
       /\ saves' = IF ok THEN [saves EXCEPT ![j].downs = @ \cup {i}]
                   ELSE [saves EXCEPT ![j].errors = TRUE]
  /\ Onward(j, [work[j] EXCEPT !.todo = @ \ {i}])
  /\ UNCHANGED <<offer, folders, drive>>

FinishSave(j) ==
  /\ Step(j, "download") /\ work[j].todo = {} /\ Onward(j, NoWork)
  /\ saves' = [saves EXCEPT ![j].status = "succeeded"]
  /\ UNCHANGED <<offer, folders, drive, aria, mishaps>>

\* The watchdog gives up on a handler that says nothing, its last call under way
\* or not; the worker writes it down.
TimesOut(j) ==
  /\ work[j].pc # "none" /\ Mishap /\ Fails(j)
  /\ (Step(j, "save") /\ Copies(j)) \/ UNCHANGED drive
  /\ UNCHANGED <<offer, folders, aria>>
\* The process dies, with a request under way or not; recovery follows.
SaveCrash ==
  /\ Mishap /\ work' = [j \in Numbers |-> NoWork]
  /\ (\E j \in Numbers : Step(j, "save") /\ Copies(j)) \/ UNCHANGED drive
  /\ saves' = [j \in Numbers |-> [saves[j] EXCEPT !.status = IF @ = "running" THEN "failed" ELSE @]]
  /\ UNCHANGED <<offer, folders, aria>>

SaveNext ==
  \/ transfer_share \/ SaveCrash \/ \E f \in Media : Withdrawn(f)
  \/ \E j \in Numbers :
       \/ RetrySave(j) \/ ProbeShare(j) \/ EnsureDir(j) \/ create_dir(j) \/ ListTarget(j)
       \/ Relist(j) \/ Saved(j) \/ SaveFails(j) \/ RecordSave(j) \/ ResolveSaved(j)
       \/ FinishSave(j) \/ TimesOut(j) \/ \E i \in drive : Download(j, i)

----------------------------------------------------------------------------
\* A request and its retries save a chosen file once to a directory, whatever
\* answers were lost and however often it was cut (the check for namesakes).  Two
\* requests may have made a directory each; the retry then looks at one of them.
SavedOnce == \A i, k \in drive :
  i.by = k.by /\ i.of = k.of /\ i.in = k.in
  /\ (\A j \in Numbers : saves[j].chain = i.by => saves[j].kind = "save")
    => i = k

\* Aria2 gets what this very job saved: neither an older file of that name nor
\* what another job saves to the same directory (resolve_saved_files).
RightFile == \A d \in aria : d[2].job = d[1]

\* "Saved" is never claimed without its files, and what was not handed to Aria2
\* is named in the result.
ResultTells == \A j \in Numbers : saves[j].status = "succeeded" /\ saves[j].kind = "save" =>
  /\ saves[j].kept
  /\ saves[j].errors \/ (\A i \in drive : i.job = j => i \in saves[j].downs)

\* A save by hand, through lost answers and retries: nothing is saved twice, only
\* the chosen files are, and the result says what became of them.
SaveSound == SavedOnce /\ RightFile /\ ResultTells
=============================================================================

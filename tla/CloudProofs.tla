---------------------------- MODULE CloudProofs ----------------------------
(***************************************************************************)
(* Safety of the three parts of Cloud, for every set of files, seasons and  *)
(* requests, every tree, and any number of mishaps.                         *)
(* A transfer (SubscriptionTransfer), as long as a copy lands within the    *)
(* wait of the run that asked for it: what is copied and not marked is      *)
(* covered by an intent (Covered), and what the job still intends to copy   *)
(* is not copied yet (Ahead, Fresh).                                        *)
(* A save by hand (MediaSave) is at work in one job of its chain at a time, *)
(* and between its look at the directory and its copy nobody else copies    *)
(* for that chain.  The walk over a share (ShareProbe) has seen what it     *)
(* says it has seen.                                                        *)
(***************************************************************************)
EXTENDS Cloud, FiniteSetTheorems, SequenceTheorems, WellFoundedInduction, TLAPS

----------------------------------------------------------------------------
(* Transfers of a subscription. *)

Timely == ~LateLanding

Copied(f) == cloud[f] > 0 \/ f \in landing
Handling == {"mark", "clear", "await", "submit", "record", "settle"}
Working == {"list", "intent", "call"} \cup Handling

JobState ==
  [pc : Steps, selected : SUBSET Files, todo : SUBSET Seasons, season : {0} \cup Seasons,
   files : SUBSET Files, batch : SUBSET Files, items : SUBSET Files, byShare : BOOLEAN,
   report : SUBSET Files]
SavedState ==
  [marked : SUBSET Files, intents : [Seasons -> SUBSET Files], pending : [Files -> 0..MaxTries],
   byShare : SUBSET Files, downloads : SUBSET Files, completed : BOOLEAN, sync : BOOLEAN]
RetryState ==
  [pc : {"idle", "add", "write"}, queue : SUBSET Files, file : SUBSET Files, sent : BOOLEAN]
\* TransferTypeOK and the rest of the types the proofs need.
Types ==
  /\ TransferTypeOK /\ job \in JobState /\ retry \in RetryState
  /\ retry.pc = "write" => \E f \in Files : retry.file = {f}

\* The seasons the job has not entered yet; those of the files it may yet copy.
Left == IF job.pc \in Working THEN job.todo \ {job.season} ELSE job.todo
Near == job.pc \in {"list", "intent", "call"}

\* What holds whenever copies land: an intent names files of its season, the
\* job copies only what is not marked, and retries do not meet the batch.
OwnIntents == \A s \in Seasons : \A f \in saved.intents[s] : seasonOf[f] = s
InSeason ==
  /\ job.pc \in Working =>
       /\ job.season \in job.todo
       /\ \A f \in job.files : f \in job.selected /\ seasonOf[f] = job.season
  /\ job.pc \in Handling => job.batch = job.files
  /\ job.pc \notin {"submit", "record", "settle"} => job.items = {} /\ job.report = {}
Unmarked ==
  /\ \A f \in job.selected : seasonOf[f] \in Left => f \notin saved.marked
  /\ Near \/ job.pc = "mark" => job.files \cap saved.marked = {}
Retries ==
  /\ \A f \in retry.queue \cup retry.file : f \in saved.marked /\ saved.pending[f] < MaxTries
  /\ Pending \subseteq saved.marked /\ retry.queue \cap retry.file = {}
  /\ job.pc \in Handling =>
       \A f \in job.batch : saved.pending[f] = 0 /\ f \notin retry.queue \cup retry.file
  /\ job.pc \in Handling \ {"mark"} => job.batch \subseteq saved.marked
Marks == Types /\ OwnIntents /\ InSeason /\ Unmarked /\ Retries

\* What holds when copies land in time.
Covered == \A f \in Files : Copied(f) => f \in saved.marked \cup saved.intents[seasonOf[f]]
Ahead ==
  /\ \A f \in landing : seasonOf[f] \notin Left
  /\ Near => \A f \in landing : seasonOf[f] # job.season
Fresh == job.pc \in {"intent", "call"} =>
  \A f \in Files : seasonOf[f] = job.season /\ cloud[f] > 0 => f \in saved.marked
Intent ==
  /\ job.pc \in {"call", "mark"} => saved.intents[job.season] = job.files
  /\ job.pc = "clear" => saved.intents[job.season] \subseteq saved.marked
  /\ job.pc \in Handling => \A f \in job.batch : Copied(f)
CopyInv == CloudAgrees /\ Covered /\ Ahead /\ Fresh /\ Intent

Whole == saved.sync =>
  /\ job.pc \in {"submit", "record", "settle"} => job.items = job.batch
  /\ job.pc = "settle" => job.report \subseteq saved.downloads
DownInv == EachAccounted /\ Whole

----------------------------------------------------------------------------
(* The operators.                                                          *)

\* A set of seasons that is not empty has a least one.
LEMMA LeastSeason ==
  ASSUME NEW S \in SUBSET Nat, S # {}
  PROVE  Least(S) \in S
<1>1. \A x, y \in Nat : x < y => <<x, y>> \in OpToRel(<, Nat)
  BY DEF OpToRel
<1>2. \E R : IsWellFoundedOn(R, Nat) /\ \A x, y \in Nat : x < y => <<x, y>> \in R
  BY <1>1, NatLessThanWellFounded, Zenon
<1>3. PICK R : IsWellFoundedOn(R, Nat) /\ \A x, y \in Nat : x < y => <<x, y>> \in R
  BY <1>2
<1>4. PICK x \in S : \A y \in S : ~(<<y, x>> \in R)
  <2>1. IsWellFoundedOn(R, Nat) /\ S \subseteq Nat /\ S # {}
    BY <1>3
  <2> QED
    BY <2>1, WFMin
<1>5. ASSUME NEW y \in S PROVE x <= y
  <2>1. x \in Nat /\ y \in Nat /\ ~(y < x)
    BY <1>3, <1>4
  <2> QED
    BY <2>1
<1> QED
  BY <1>5 DEF Least

\* What the job keeps when it leaves a season, whatever the reason.
LEMMA NextSeasonIs ==
  ASSUME Types
  PROVE  /\ NextSeason \in JobState /\ NextSeason.pc = "season"
         /\ NextSeason.selected = job.selected /\ NextSeason.todo = job.todo \ {job.season}
         /\ NextSeason.batch = {} /\ NextSeason.items = {} /\ NextSeason.report = {}
BY DEF Types, NextSeason, NoJob, JobState, Steps

\* Leaving a season changes nothing for the seasons that are left.
LEMMA LeaveKeeps ==
  ASSUME Types, Types', OwnIntents', Unmarked, Retries', job.pc \in Working, job' = NextSeason,
         saved'.marked = saved.marked
  PROVE  Marks'
<1>1. InSeason' /\ Unmarked'
  BY NextSeasonIs DEF InSeason, Unmarked, Near, Left, Working, Handling
<1> QED
  BY <1>1 DEF Marks

----------------------------------------------------------------------------
LEMMA MarksInit == TransferInit => Marks
<1> SUFFICES ASSUME TransferInit PROVE Marks
  OBVIOUS
<1> USE TransferAssumption DEF TransferInit
<1>1. job = NoJob /\ job \in JobState /\ retry = NoRetry /\ retry \in RetryState
  BY DEF NoJob, JobState, NoRetry, RetryState, Steps
<1>2. saved \in SavedState /\ saved.marked = {} /\ saved.pending = [f \in Files |-> 0]
      /\ saved.intents = [s \in Seasons |-> {}]
  <2>1. PICK z \in BOOLEAN :
          saved = [marked |-> {}, intents |-> [s \in Seasons |-> {}], pending |-> [f \in Files |-> 0],
                   byShare |-> {}, downloads |-> {}, completed |-> FALSE, sync |-> z]
    OBVIOUS
  <2>2. [s \in Seasons |-> {}] \in [Seasons -> SUBSET Files]
        /\ [f \in Files |-> 0] \in [Files -> 0 .. MaxTries]
    OBVIOUS
  <2> QED
    BY <2>1, <2>2 DEF SavedState
<1>3. Types
  BY <1>1, <1>2 DEF Types, TransferTypeOK, SavedState, JobState, NoJob, NoRetry
<1>4. OwnIntents /\ InSeason /\ Unmarked /\ Retries
  BY <1>1, <1>2 DEF OwnIntents, InSeason, Unmarked, Retries, Left, Near, Working, Handling, Pending,
     NoJob, NoRetry
<1> QED
  BY <1>3, <1>4 DEF Marks

LEMMA MarksStep ==
  ASSUME Marks, [TransferNext]_tvars
  PROVE  Marks'
<1> USE TransferAssumption
<1>t. Types /\ OwnIntents /\ InSeason /\ Unmarked /\ Retries
  BY DEF Marks
<1>s. saved \in SavedState
  BY <1>t DEF Types, TransferTypeOK, SavedState
<1>1. CASE UNCHANGED tvars
  BY <1>t, <1>1 DEF tvars, Marks, Types, TransferTypeOK, OwnIntents, InSeason, Unmarked, Retries,
     Left, Near, Pending
<1>2. ASSUME NEW f \in Files, Publish(f) \/ Land(f) PROVE Marks'
  BY <1>t, <1>2 DEF Publish, Land, AtMost, Marks, Types, TransferTypeOK, OwnIntents, InSeason,
     Unmarked, Retries, Left, Near, Pending
<1>4. ASSUME NEW names \in SUBSET Files, Begin(names) PROVE Marks'
  <2>1. Select(names) \subseteq Files /\ {seasonOf[f] : f \in Select(names)} \subseteq Seasons
    BY DEF Select
  <2>2. job' \in JobState
    BY <1>4, <2>1 DEF Begin, NoJob, JobState, Steps
  <2>3. Types'
    BY <1>4, <1>t, <2>2 DEF Begin, NoJob, Types, TransferTypeOK, JobState
  <2>4. OwnIntents' /\ InSeason' /\ Unmarked' /\ Retries'
    BY <1>4, <1>t DEF Begin, Select, NoJob, OwnIntents, InSeason, Unmarked, Retries, Left, Near,
       Working, Handling, Pending
  <2> QED
    BY <2>3, <2>4 DEF Marks
<1>5. CASE EnterSeason
  <2>1. PICK s \in job.todo : job'.season = s /\ job'.files = {f \in job.selected : seasonOf[f] = s}
    BY <1>5, <1>t, LeastSeason DEF EnterSeason, Types, JobState
  <2>2. /\ job'.pc \in {"list", "intent"} /\ job' \in JobState
        /\ job'.selected = job.selected /\ job'.todo = job.todo
        /\ job'.batch = job.batch /\ job'.items = job.items /\ job'.report = job.report
    BY <1>5, <1>t, <2>1, LeastSeason DEF EnterSeason, Types, JobState, Steps
  <2>3. UNCHANGED <<saved, shared, cloud, landing, tasks, retry, faults, cut>> /\ job.pc = "season"
    BY <1>5 DEF EnterSeason
  <2>4. Types'
    BY <1>t, <2>2, <2>3 DEF Types, TransferTypeOK, JobState
  <2>5. OwnIntents' /\ InSeason'
    BY <1>t, <2>1, <2>2, <2>3 DEF OwnIntents, InSeason, Working, Handling
  <2>6. Unmarked'
    BY <1>t, <2>1, <2>2, <2>3 DEF Unmarked, Left, Near, Working, Handling
  <2>7. Retries'
    BY <1>t, <2>1, <2>2, <2>3 DEF Retries, Pending, Handling
  <2> QED
    BY <2>4, <2>5, <2>6, <2>7 DEF Marks
<1>6. CASE ReconcileIntent
  <2>1. PICK c \in SUBSET Files :
          /\ saved' = [saved EXCEPT !.marked = @ \cup c, !.intents[job.season] = @ \ c]
          /\ c \subseteq saved.intents[job.season] /\ cut' = cut \cup c
          /\ \/ job' = NextSeason
             \/ job' = [job EXCEPT !.files = @ \ c, !.pc = "intent"]
    <3>1. saved.intents[job.season] \subseteq Files
      BY <1>s, <1>t, <1>6 DEF SavedState, InSeason, Working, ReconcileIntent, Types, JobState
    <3>2. {f \in saved.intents[job.season] : cloud[f] > 0} \in SUBSET Files
      BY <3>1
    <3> QED
      BY <3>2, <1>6 DEF ReconcileIntent
  <2>2. [saved.intents EXCEPT ![job.season] = @ \ c] \in [Seasons -> SUBSET Files]
    BY <1>s DEF SavedState
  <2>3. saved' \in SavedState /\ saved'.marked = saved.marked \cup c
        /\ saved'.intents = [saved.intents EXCEPT ![job.season] = @ \ c]
        /\ saved'.pending = saved.pending
    BY <1>s, <2>1, <2>2 DEF SavedState
  <2>4. /\ job' \in JobState /\ job'.pc \in {"season", "intent"} /\ job'.selected = job.selected
        /\ job'.pc = "season" => job' = NextSeason
        /\ job'.pc = "intent" => job'.todo = job.todo /\ job'.season = job.season
                                 /\ job'.files = job.files \ c
        /\ job'.batch = {} \/ job'.batch = job.batch
        /\ job'.items = {} /\ job'.report = {}
    BY <1>t, <1>6, <2>1, NextSeasonIs DEF ReconcileIntent, InSeason, Types, JobState, Steps
  <2>5. job.pc = "list" /\ UNCHANGED <<shared, cloud, landing, tasks, retry, faults>>
    BY <1>6 DEF ReconcileIntent
  <2>6. Types'
    BY <1>t, <2>1, <2>3, <2>4, <2>5 DEF Types, TransferTypeOK, SavedState, JobState
  <2>7. OwnIntents'
    BY <1>t, <1>s, <2>3 DEF OwnIntents, SavedState
  <2>8. Left' = Left
    BY <1>t, <2>4, <2>5, NextSeasonIs DEF Left, Working, Handling, InSeason
  <2>9. InSeason'
    BY <1>t, <2>4, <2>5 DEF InSeason, Working, Handling
  <2>10. \A f \in c : seasonOf[f] = job.season
    BY <1>t, <2>1, <2>5 DEF OwnIntents, InSeason, Working, Types, JobState
  <2>11. Unmarked'
    BY <1>t, <2>3, <2>4, <2>5, <2>8, <2>10 DEF Unmarked, Left, Near, Working
  <2>12. Retries'
    BY <1>t, <2>3, <2>4, <2>5 DEF Retries, Pending, Handling
  <2> QED
    BY <2>6, <2>7, <2>9, <2>11, <2>12 DEF Marks
<1>7. CASE ListFails
  <2>1. Types'
    BY <1>7, <1>t, NextSeasonIs DEF ListFails, Fault, Types, TransferTypeOK, JobState
  <2>2. OwnIntents' /\ Retries'
    BY <1>7, <1>t, NextSeasonIs DEF ListFails, OwnIntents, Retries, Pending, Handling
  <2> QED
    BY <1>7, <1>t, <2>1, <2>2, LeaveKeeps DEF ListFails, Working
<1>8. CASE RecordIntent
  BY <1>t, <1>8 DEF RecordIntent, Marks, Types, TransferTypeOK, JobState, Steps, OwnIntents,
     InSeason, Unmarked, Retries, Left, Near, Working, Handling, Pending
<1>9. CASE Transferred
  <2>1. /\ job' = [job EXCEPT !.pc = "mark", !.batch = job.files] /\ job.pc = "call"
        /\ landing' = landing \cup job.files
        /\ UNCHANGED <<saved, shared, cloud, tasks, retry, cut, faults>>
    BY <1>9 DEF Transferred, Accept
  <2>2. /\ job' \in JobState /\ job'.pc = "mark" /\ job'.batch = job.files
        /\ job'.todo = job.todo /\ job'.season = job.season /\ job'.files = job.files
        /\ job'.selected = job.selected /\ job'.items = {} /\ job'.report = {}
    BY <1>t, <2>1 DEF Types, JobState, Steps, InSeason
  <2>3. Types'
    BY <1>t, <2>1, <2>2 DEF Types, TransferTypeOK, JobState
  <2>4. OwnIntents' /\ InSeason' /\ Unmarked'
    BY <1>t, <2>1, <2>2 DEF OwnIntents, InSeason, Unmarked, Left, Near, Working, Handling
  <2>5. Retries'
    BY <1>s, <1>t, <2>1, <2>2 DEF Retries, Pending, Unmarked, Near, SavedState, Types, JobState
  <2> QED
    BY <2>3, <2>4, <2>5 DEF Marks
<1>10. CASE AnswerLost \/ Refused \/ CutJob
  <2>1. /\ job' = NoJob /\ UNCHANGED <<saved, retry, tasks, shared, cloud>>
        /\ faults' \in 0 .. MaxFaults /\ landing' \subseteq Files /\ cut' \subseteq Files
    BY <1>t, <1>10 DEF AnswerLost, Refused, CutJob, Accept, Fault, Unsettled, Types, TransferTypeOK, JobState
  <2>2. NoJob \in JobState
    BY DEF NoJob, JobState, Steps
  <2>3. Types'
    BY <1>t, <2>1, <2>2 DEF Types, TransferTypeOK, NoJob, Steps
  <2>4. OwnIntents' /\ InSeason' /\ Unmarked' /\ Retries'
    BY <1>t, <2>1 DEF NoJob, OwnIntents, InSeason, Unmarked, Retries, Left, Near, Working, Handling,
       Pending
  <2> QED
    BY <2>3, <2>4 DEF Marks
<1>11. CASE FinishRun
  <2>1. /\ job' = NoJob /\ UNCHANGED <<shared, cloud, landing, tasks, retry, faults, cut>>
        /\ saved' \in SavedState /\ saved'.marked = saved.marked
        /\ saved'.intents = saved.intents /\ saved'.pending = saved.pending
    BY <1>s, <1>11 DEF FinishRun, SavedState
  <2>2. NoJob \in JobState
    BY DEF NoJob, JobState, Steps
  <2>3. Types'
    BY <1>t, <2>1, <2>2 DEF Types, TransferTypeOK, SavedState, NoJob, Steps
  <2>4. OwnIntents' /\ InSeason' /\ Unmarked' /\ Retries'
    BY <1>t, <2>1 DEF NoJob, OwnIntents, InSeason, Unmarked, Retries, Left, Near, Working, Handling,
       Pending
  <2> QED
    BY <2>3, <2>4 DEF Marks
<1>12. CASE MarkBatch
  BY <1>t, <1>12 DEF MarkBatch, Marks, Types, TransferTypeOK, JobState, Steps, OwnIntents,
     InSeason, Unmarked, Retries, Left, Near, Working, Handling, Pending
<1>13. CASE ClearIntent
  BY <1>t, <1>13 DEF ClearIntent, Marks, Types, TransferTypeOK, JobState, Steps, OwnIntents,
     InSeason, Unmarked, Retries, Left, Near, Working, Handling, Pending
<1>17. CASE RecordDownloads
  BY <1>t, <1>17 DEF RecordDownloads, Marks, Types, TransferTypeOK, JobState, Steps, OwnIntents,
     InSeason, Unmarked, Retries, Left, Near, Working, Handling, Pending
<1>14. CASE AwaitFiles \/ AwaitFails
  <2>1. PICK b \in BOOLEAN, i \in SUBSET job.batch :
          job' = [job EXCEPT !.pc = "submit", !.byShare = b, !.items = i]
    <3>1. {f \in job.batch : cloud[f] > 0} \in SUBSET job.batch /\ job.batch \in SUBSET job.batch
      OBVIOUS
    <3> QED
      BY <1>14, <3>1 DEF AwaitFiles, AwaitFails
  <2>2. /\ job.pc = "await" /\ UNCHANGED <<saved, shared, cloud, landing, tasks, retry, cut>>
        /\ faults' \in 0 .. MaxFaults
    BY <1>14, <1>t DEF AwaitFiles, AwaitFails, Fault, Types, TransferTypeOK
  <2>3. /\ job' \in JobState /\ job'.pc = "submit" /\ job'.batch = job.batch
        /\ job'.todo = job.todo /\ job'.season = job.season /\ job'.files = job.files
        /\ job'.selected = job.selected /\ job'.items \subseteq job.batch /\ job'.report = {}
    BY <1>t, <2>1, <2>2 DEF Types, JobState, Steps, InSeason
  <2>4. Types'
    BY <1>t, <2>2, <2>3 DEF Types, TransferTypeOK, JobState
  <2>5. OwnIntents' /\ InSeason' /\ Unmarked'
    BY <1>t, <2>2, <2>3 DEF OwnIntents, InSeason, Unmarked, Left, Near, Working, Handling
  <2>6. Retries'
    BY <1>t, <2>2, <2>3 DEF Retries, Pending, Handling
  <2> QED
    BY <2>4, <2>5, <2>6 DEF Marks
<1>16. CASE SubmitDownloads
  <2>1. /\ job.pc = "submit" /\ UNCHANGED <<saved, shared, cloud, landing, retry, cut>>
        /\ \/ job' = NextSeason
           \/ \E taken \in SUBSET job.items : job' = [job EXCEPT !.pc = "record", !.report = taken]
    BY <1>16 DEF SubmitDownloads
  <2>2. tasks' \subseteq Files /\ faults' \in 0 .. MaxFaults
    <3>1. tasks' = tasks \/ \E a, r \in SUBSET job.items : tasks' = tasks \cup a \cup r
      BY <1>16 DEF SubmitDownloads
    <3>2. faults' = faults \/ Fault
      BY <1>16 DEF SubmitDownloads
    <3> QED
      BY <1>t, <3>1, <3>2 DEF Fault, Types, TransferTypeOK
  <2>3. CASE job' = NextSeason
    <3>1. Types'
      BY <1>t, <2>1, <2>2, <2>3, NextSeasonIs DEF Types, TransferTypeOK, JobState
    <3>2. OwnIntents' /\ Retries'
      BY <1>t, <2>1, <2>3, NextSeasonIs DEF OwnIntents, Retries, Pending, Handling
    <3> QED
      BY <1>t, <2>1, <2>3, <3>1, <3>2, LeaveKeeps DEF Working, Handling
  <2>4. ASSUME NEW r \in SUBSET job.items, job' = [job EXCEPT !.pc = "record", !.report = r]
        PROVE  Marks'
    <3>1. /\ job' \in JobState /\ job'.pc = "record" /\ job'.batch = job.batch
          /\ job'.todo = job.todo /\ job'.season = job.season /\ job'.files = job.files
          /\ job'.selected = job.selected /\ job'.items = job.items /\ job'.report \subseteq job.items
      BY <1>t, <2>4 DEF Types, JobState, Steps
    <3>2. Types'
      BY <1>t, <2>1, <2>2, <3>1 DEF Types, TransferTypeOK, JobState
    <3>3. OwnIntents' /\ InSeason' /\ Unmarked' /\ Retries'
      BY <1>t, <2>1, <3>1
         DEF OwnIntents, InSeason, Unmarked, Left, Near, Working, Handling, Retries, Pending
    <3> QED
      BY <3>2, <3>3 DEF Marks
  <2> QED
    BY <2>1, <2>3, <2>4
<1>18. CASE Settle
  <2> DEFINE
    p == [f \in Files |-> IF f \in job.report THEN 0
            ELSE IF f \in job.items THEN AtMost(saved.pending[f] + 1, MaxTries)
                 ELSE saved.pending[f]]
    b == (saved.byShare \ job.report) \cup (IF job.byShare THEN job.items \ job.report ELSE {})
  <2>1. /\ job.pc = "settle" /\ job' = NextSeason
        /\ saved' = [saved EXCEPT !.pending = p, !.byShare = b]
        /\ UNCHANGED <<shared, cloud, landing, tasks, retry, faults, cut>>
    BY <1>18 DEF Settle
  <2>2. p \in [Files -> 0 .. MaxTries] /\ b \subseteq Files
    BY <1>s, <1>t DEF SavedState, AtMost, Types, JobState
  <2>3. \A f \in Files : p[f] # saved.pending[f] => f \in job.batch
    BY <1>s, <1>t DEF SavedState, Types, TransferTypeOK
  <2> HIDE DEF p, b
  <2>4. /\ saved' \in SavedState /\ saved'.pending = p /\ saved'.marked = saved.marked
        /\ saved'.intents = saved.intents
    BY <1>s, <2>1, <2>2 DEF SavedState
  <2>5. Types'
    BY <1>t, <2>1, <2>4, NextSeasonIs DEF Types, TransferTypeOK, SavedState, JobState
  <2>6. OwnIntents' /\ Retries'
    <3>1. Pending' \subseteq Pending \cup job.batch
      BY <2>3, <2>4 DEF Pending
    <3>2. \A f \in retry.queue \cup retry.file : saved'.pending[f] = saved.pending[f]
      BY <1>t, <2>1, <2>3, <2>4 DEF Retries, Handling, Types, RetryState
    <3>3. job.batch \subseteq saved.marked
      BY <1>t, <2>1 DEF Retries, Handling
    <3> QED
      BY <1>t, <2>1, <2>4, <3>1, <3>2, <3>3, NextSeasonIs DEF OwnIntents, Retries, Handling
  <2> QED
    BY <1>t, <2>1, <2>4, <2>5, <2>6, LeaveKeeps DEF Working, Handling
<1>21. CASE BeginRetry
  <2>1. PICK q \in SUBSET Retryable : retry' = [NoRetry EXCEPT !.pc = "add", !.queue = q]
    BY <1>21 DEF BeginRetry
  <2>2. /\ retry' \in RetryState /\ retry'.queue \subseteq Retryable /\ retry'.file = {}
        /\ retry'.pc = "add"
    BY <2>1 DEF RetryState, NoRetry, Retryable, Pending
  <2>3. UNCHANGED <<saved, shared, cloud, landing, tasks, job, faults, cut>>
    BY <1>21 DEF BeginRetry
  <2>4. Types'
    BY <1>t, <2>2, <2>3 DEF Types, TransferTypeOK, RetryState
  <2>5. OwnIntents' /\ InSeason' /\ Unmarked'
    BY <1>t, <2>3 DEF OwnIntents, InSeason, Unmarked, Left, Near
  <2>6. Retries'
    BY <1>s, <1>t, <2>2, <2>3
       DEF Retries, Retryable, Pending, Types, JobState, SavedState, TransferTypeOK
  <2> QED
    BY <2>4, <2>5, <2>6 DEF Marks
<1>23. CASE WriteRetry
  <2>1. PICK f \in Files : retry.file = {f}
    BY <1>t, <1>23 DEF WriteRetry, Types
  <2> DEFINE g == CHOOSE h \in retry.file : TRUE
  <2>a. saved' = IF retry.sent THEN [saved EXCEPT !.pending[g] = 0, !.downloads = @ \cup {g}]
                 ELSE [saved EXCEPT !.pending[g] = IF @ = 0 THEN 0 ELSE @ + 1]
    BY <1>23 DEF WriteRetry
  <2>b. g = f
    BY <2>1
  <2> HIDE DEF g
  <2>2. saved' = IF retry.sent THEN [saved EXCEPT !.pending[f] = 0, !.downloads = @ \cup {f}]
                 ELSE [saved EXCEPT !.pending[f] = IF @ = 0 THEN 0 ELSE @ + 1]
    BY <2>a, <2>b
  <2>3. PICK n \in 0 .. MaxTries, d \in SUBSET Files :
          /\ saved' = [saved EXCEPT !.pending[f] = n, !.downloads = d]
          /\ n > 0 => saved.pending[f] > 0
    <3>1. CASE retry.sent
      <4>1. saved' = [saved EXCEPT !.pending[f] = 0, !.downloads = saved.downloads \cup {f}]
        BY <1>s, <2>2, <3>1 DEF SavedState
      <4>2. 0 \in 0 .. MaxTries /\ saved.downloads \cup {f} \in SUBSET Files
        BY <1>s DEF SavedState
      <4> QED
        <5> USE <4>2
        <5> WITNESS 0 \in 0 .. MaxTries, saved.downloads \cup {f} \in SUBSET Files
        <5> QED
          BY <4>1
    <3>2. CASE ~ retry.sent
      <4>1. saved.pending[f] \in 0 .. MaxTries /\ saved.pending[f] < MaxTries
        BY <1>s, <1>t, <2>1 DEF SavedState, Retries
      <4>2. saved' = [saved EXCEPT !.pending[f] = IF @ = 0 THEN 0 ELSE @ + 1]
        BY <2>2, <3>2
      <4> DEFINE n == IF saved.pending[f] = 0 THEN 0 ELSE saved.pending[f] + 1
      <4>3. n \in 0 .. MaxTries /\ (n > 0 => saved.pending[f] > 0)
        BY <4>1
      <4>4. saved' = [saved EXCEPT !.pending[f] = n, !.downloads = saved.downloads]
        BY <1>s, <4>2 DEF SavedState
      <4> QED
        BY <1>s, <4>3, <4>4 DEF SavedState
    <3> QED
      BY <3>1, <3>2
  <2>4. [saved.pending EXCEPT ![f] = n] \in [Files -> 0 .. MaxTries]
    BY <1>s DEF SavedState
  <2>5. /\ saved' \in SavedState /\ saved'.pending = [saved.pending EXCEPT ![f] = n]
        /\ saved'.marked = saved.marked /\ saved'.intents = saved.intents
    BY <1>s, <2>3, <2>4 DEF SavedState
  <2>6. /\ retry' \in RetryState /\ retry'.queue = retry.queue /\ retry'.file = {}
        /\ retry'.pc # "write"
    BY <1>t, <1>23 DEF WriteRetry, Types, RetryState, NoRetry
  <2>7. UNCHANGED <<shared, cloud, landing, tasks, job, faults, cut>>
    BY <1>23 DEF WriteRetry
  <2>8. Types'
    BY <1>t, <2>5, <2>6, <2>7 DEF Types, TransferTypeOK, SavedState, RetryState
  <2>9. OwnIntents' /\ InSeason' /\ Unmarked'
    BY <1>t, <2>5, <2>7 DEF OwnIntents, InSeason, Unmarked, Left, Near
  <2>10. Retries'
    <3>1. \A h \in Files : saved'.pending[h] > 0 => saved.pending[h] > 0
      BY <1>s, <2>3, <2>5 DEF SavedState
    <3>2. f \notin retry.queue
      BY <1>t, <2>1 DEF Retries
    <3> QED
      BY <1>t, <2>1, <2>5, <2>6, <2>7, <3>1, <3>2 DEF Retries, Pending, Types, RetryState, Handling
  <2> QED
    BY <2>8, <2>9, <2>10 DEF Marks
<1>22. ASSUME NEW f \in Files, NEW ok \in BOOLEAN, NEW r \in BOOLEAN, AddUri(f, ok, r)
       PROVE Marks'
  <2>1. /\ retry' \in RetryState /\ retry'.queue = retry.queue \ {f} /\ retry'.file = {f}
        /\ f \in retry.queue
    BY <1>t, <1>22 DEF AddUri, Types, RetryState
  <2>2. /\ UNCHANGED <<saved, shared, cloud, landing, job, cut>>
        /\ tasks' \subseteq Files /\ faults' \in 0 .. MaxFaults
    BY <1>t, <1>22 DEF AddUri, Fault, Types, TransferTypeOK
  <2>3. Types'
    BY <1>t, <2>1, <2>2 DEF Types, TransferTypeOK, RetryState
  <2>4. OwnIntents' /\ InSeason' /\ Unmarked'
    BY <1>t, <2>2 DEF OwnIntents, InSeason, Unmarked, Left, Near
  <2>5. Retries'
    BY <1>t, <2>1, <2>2 DEF Retries, Pending
  <2> QED
    BY <2>3, <2>4, <2>5 DEF Marks
<1>24. CASE CutRetry
  BY <1>t, <1>24 DEF CutRetry, NoRetry, Fault, Marks, Types, TransferTypeOK, RetryState, OwnIntents,
     InSeason, Unmarked, Retries, Left, Near, Pending
<1> QED
  BY <1>1, <1>2, <1>4, <1>5, <1>6, <1>7, <1>8, <1>9, <1>10, <1>11, <1>12, <1>13, <1>14, <1>16, <1>17,
     <1>18,
     <1>21, <1>22, <1>23, <1>24
     DEF TransferNext, JobStep, JobFault, RetryStep, RetryFault

\* The other parts of Cloud leave a transfer alone.
LEMMA TransferPart ==
  /\ CloudInit => TransferInit
  /\ [CloudNext]_cloudvars => [TransferNext]_tvars
BY DEF CloudInit, CloudNext, Transfer, cloudvars

\* The variables have their types, for every schedule of copies and failures.
THEOREM TransferTypes == CloudSpec => []TransferTypeOK
<1>1. Marks => TransferTypeOK
  BY DEF Marks, Types
<1> QED
  BY <1>1, MarksInit, MarksStep, TransferPart, PTL DEF CloudSpec

----------------------------------------------------------------------------
LEMMA CopyInit == TransferInit => CopyInv
BY TransferAssumption
   DEF TransferInit, CopyInv, CloudAgrees, Covered, Copied, Ahead, Fresh, Intent, Left, Near,
       Working, Handling, NoJob

LEMMA CopyStep ==
  ASSUME Timely, Marks, Marks', CopyInv, [TransferNext]_tvars
  PROVE  CopyInv'
<1> USE TransferAssumption
<1>t. /\ OwnIntents /\ InSeason /\ Unmarked /\ Retries
      /\ CloudAgrees /\ Covered /\ Ahead /\ Fresh /\ Intent
  BY DEF Marks, CopyInv
<1>s. /\ saved \in SavedState /\ saved' \in SavedState /\ job \in JobState /\ job' \in JobState
      /\ cloud \in [Files -> 0 .. 2] /\ landing \subseteq Files
  BY DEF Marks, Types, TransferTypeOK, SavedState
\* Steps that leave the drive and the marks alone, and let the job go on or end.
<1>a. ASSUME UNCHANGED <<saved.marked, saved.intents, cloud, landing>>,
             \/ job' = NoJob
             \/ job' = NextSeason /\ job.pc \in Working
             \/ /\ job'.season = job.season /\ job'.todo = job.todo
                /\ job'.files = job.files /\ job'.batch = job.batch
                /\ \/ job'.pc = job.pc
                   \/ /\ job.pc \in Handling \ {"mark", "clear"}
                      /\ job'.pc \in {"submit", "record", "settle"}
      PROVE  CopyInv'
  <2>1. CloudAgrees' /\ Covered'
    BY <1>t, <1>a DEF CloudAgrees, Covered, Copied
  <2>2. CASE job' = NoJob
    BY <1>t, <1>a, <2>1, <2>2 DEF CopyInv, Ahead, Fresh, Intent, Left, Near, Working, Handling, NoJob
  <2>3. CASE job' = NextSeason /\ job.pc \in Working
    <3>1. Ahead'
      BY <1>t, <1>a, <2>3, NextSeasonIs DEF Ahead, Left, Near, Working, Handling, Marks
    <3> QED
      BY <1>t, <1>a, <2>1, <2>3, <3>1, NextSeasonIs DEF CopyInv, Fresh, Intent, Handling, Marks
  <2>4. CASE job'.pc = job.pc /\ job'.season = job.season /\ job'.todo = job.todo
             /\ job'.files = job.files /\ job'.batch = job.batch
    BY <1>t, <1>a, <2>1, <2>4 DEF CopyInv, Ahead, Fresh, Intent, Left, Near, Copied
  <2>5. CASE job.pc \in Handling \ {"mark", "clear"} /\ job'.pc \in {"submit", "record", "settle"}
             /\ job'.season = job.season /\ job'.todo = job.todo
             /\ job'.files = job.files /\ job'.batch = job.batch
    BY <1>t, <1>a, <2>1, <2>5 DEF CopyInv, Ahead, Fresh, Intent, Left, Near, Copied, Working, Handling
  <2> QED
    BY <1>a, <2>2, <2>3, <2>4, <2>5
<1>2. ASSUME NEW f \in Files, Land(f) PROVE CopyInv'
  <2>1. /\ f \in landing /\ landing' = landing \ {f} /\ saved' = saved /\ job' = job
        /\ cloud[f] = 0 /\ cloud' = [cloud EXCEPT ![f] = 1]
    <3>1. /\ f \in landing /\ landing' = landing \ {f} /\ saved' = saved /\ job' = job
          /\ cloud' = [cloud EXCEPT ![f] = AtMost(cloud[f] + 1, 2)]
      BY <1>2 DEF Land
    <3>2. cloud[f] = 0
      BY <1>s, <1>t, <3>1 DEF CloudAgrees
    <3> QED
      BY <3>1, <3>2 DEF AtMost
  <2>2. \A g \in Files : Copied(g)' <=> Copied(g)
    BY <1>s, <2>1 DEF Copied
  <2>3. CloudAgrees'
    BY <1>s, <1>t, <2>1 DEF CloudAgrees
  <2>4. Covered' /\ Intent'
    BY <1>s, <1>t, <2>1, <2>2 DEF Covered, Intent, JobState
  <2>5. Ahead' /\ Fresh'
    BY <1>s, <1>t, <2>1 DEF Ahead, Fresh, Left, Near
  <2> QED
    BY <2>3, <2>4, <2>5 DEF CopyInv
<1>4. ASSUME NEW names \in SUBSET Files, Begin(names) PROVE CopyInv'
  <2>1. landing = {} /\ job'.pc = "season" /\ UNCHANGED <<saved, cloud, landing>>
    BY <1>4 DEF Begin, Timely, NoJob
  <2> QED
    BY <1>t, <2>1 DEF CopyInv, CloudAgrees, Covered, Copied, Ahead, Fresh, Intent, Left, Near,
       Handling
<1>5. CASE EnterSeason
  <2>1. job.pc = "season" /\ UNCHANGED <<saved, cloud, landing>>
    BY <1>5 DEF EnterSeason
  <2>2. /\ job'.season \in job.todo /\ job'.todo = job.todo
        /\ job'.pc = IF saved.intents[job'.season] # {} THEN "list" ELSE "intent"
    BY <1>5, <1>s, LeastSeason DEF EnterSeason, JobState
  <2>3. CloudAgrees' /\ Covered'
    BY <1>t, <2>1 DEF CloudAgrees, Covered, Copied
  <2>4. Ahead'
    BY <1>t, <2>1, <2>2 DEF Ahead, Left, Near, Working, Handling
  <2>5. Fresh'
    BY <1>t, <2>1, <2>2 DEF Fresh, Covered, Copied
  <2>6. Intent'
    BY <2>2 DEF Intent, Handling
  <2> QED
    BY <2>3, <2>4, <2>5, <2>6 DEF CopyInv
<1>6. CASE ReconcileIntent
  <2> DEFINE s == job.season
             c == {f \in saved.intents[s] : cloud[f] > 0}
  <2>1. /\ job.pc = "list" /\ UNCHANGED <<cloud, landing>>
        /\ saved' = [saved EXCEPT !.marked = @ \cup c, !.intents[s] = saved.intents[s] \ c]
        /\ job' = NextSeason \/ job' = [job EXCEPT !.files = job.files \ c, !.pc = "intent"]
    BY <1>6 DEF ReconcileIntent
  <2>2. s \in Seasons /\ s \in job.todo /\ \A f \in landing : seasonOf[f] # s
    BY <1>s, <1>t, <2>1 DEF InSeason, Ahead, Working, Near, JobState
  <2>3. /\ saved'.marked = saved.marked \cup c
        /\ saved'.intents = [saved.intents EXCEPT ![s] = saved.intents[s] \ c]
    BY <1>s, <2>1 DEF SavedState
  <2>4. /\ job'.pc \in {"season", "intent"} /\ Left' = Left
        /\ job'.pc = "intent" => job'.season = s
    BY <1>s, <1>t, <2>1, NextSeasonIs DEF Left, Working, Handling, InSeason, Marks, JobState
  <2>5. \A f \in c : f \in Files /\ cloud[f] > 0
    BY <1>s, <2>2 DEF SavedState
  <2>6. \A r \in Seasons : saved.intents[r] \subseteq saved'.intents[r] \cup saved'.marked
    BY <1>s, <2>2, <2>3 DEF SavedState
  <2>7. CloudAgrees'
    BY <1>t, <2>1, <2>3, <2>5 DEF CloudAgrees
  <2>8. Covered'
    BY <1>t, <2>1, <2>3, <2>6 DEF Covered, Copied
  <2>9. Ahead'
    BY <1>t, <2>1, <2>2, <2>4 DEF Ahead, Near
  <2>10. Fresh'
    BY <1>t, <2>1, <2>3, <2>4 DEF Fresh, Covered, Copied
  <2>11. Intent'
    BY <2>4 DEF Intent, Handling
  <2> QED
    BY <2>7, <2>8, <2>9, <2>10, <2>11 DEF CopyInv
<1>8. CASE RecordIntent
  <2>1. /\ job.pc = "intent" /\ UNCHANGED <<cloud, landing>> /\ job' = [job EXCEPT !.pc = "call"]
        /\ saved' = [saved EXCEPT !.intents[job.season] = job.files]
    BY <1>8 DEF RecordIntent
  <2>2. /\ job.season \in Seasons /\ job.season \in job.todo
        /\ \A f \in landing : seasonOf[f] # job.season
    BY <1>s, <1>t, <2>1 DEF InSeason, Ahead, Working, Near, JobState
  <2>3. /\ saved'.marked = saved.marked
        /\ saved'.intents = [saved.intents EXCEPT ![job.season] = job.files]
    BY <1>s, <2>1 DEF SavedState
  <2>4. job'.pc = "call" /\ job'.season = job.season /\ job'.todo = job.todo /\ job'.files = job.files
    BY <1>s, <2>1 DEF JobState
  <2>5. CloudAgrees'
    BY <1>t, <2>1, <2>3 DEF CloudAgrees
  <2>6. Covered'
    <3>1. ASSUME NEW f \in Files, Copied(f)' PROVE f \in saved'.marked \cup saved'.intents[seasonOf[f]]
      <4>1. Copied(f)
        BY <3>1, <2>1 DEF Copied
      <4>2. CASE seasonOf[f] = job.season
        BY <1>t, <2>1, <2>2, <2>3, <4>1, <4>2 DEF Fresh, Copied
      <4>3. CASE seasonOf[f] # job.season
        BY <1>s, <1>t, <2>3, <4>1, <4>3 DEF Covered, SavedState
      <4> QED
        BY <4>2, <4>3
    <3> QED
      BY <3>1 DEF Covered
  <2>7. Ahead' /\ Fresh'
    BY <1>t, <2>1, <2>3, <2>4 DEF Ahead, Fresh, Left, Near, Working
  <2>8. Intent'
    BY <1>s, <2>2, <2>3, <2>4 DEF Intent, Handling, SavedState
  <2> QED
    BY <2>5, <2>6, <2>7, <2>8 DEF CopyInv
<1>9. CASE Transferred \/ AnswerLost
  <2>1. /\ job.pc = "call" /\ landing' = landing \cup job.files /\ UNCHANGED <<saved, cloud>>
        /\ job' = NoJob \/ job' = [job EXCEPT !.pc = "mark", !.batch = job.files]
    BY <1>9 DEF Transferred, AnswerLost, Accept
  <2>2. \/ job'.pc = "idle" /\ job'.todo = {}
        \/ /\ job'.pc = "mark" /\ job'.batch = job.files /\ job'.files = job.files
           /\ job'.season = job.season /\ job'.todo = job.todo
    <3>1. CASE job' = NoJob
      BY <3>1 DEF NoJob
    <3>2. CASE job' = [job EXCEPT !.pc = "mark", !.batch = job.files]
      BY <1>s, <3>2 DEF JobState
    <3> QED
      BY <2>1, <3>1, <3>2
  <2>3. \A f \in job.files : /\ f \in Files /\ seasonOf[f] = job.season /\ f \notin saved.marked
                             /\ cloud[f] = 0 /\ f \notin landing
    BY <1>s, <1>t, <2>1 DEF InSeason, Working, Unmarked, Near, Fresh, Ahead, JobState
  <2>4. job.season \in job.todo /\ saved.intents[job.season] = job.files
    BY <1>t, <2>1 DEF InSeason, Working, Intent
  <2>5. CloudAgrees'
    BY <1>s, <1>t, <2>1, <2>3 DEF CloudAgrees
  <2>6. Covered'
    BY <1>t, <2>1, <2>3, <2>4 DEF Covered, Copied
  <2>7. Ahead'
    BY <1>t, <2>1, <2>2, <2>3 DEF Ahead, Left, Near, Working, Handling
  <2>8. Fresh' /\ Intent'
    BY <1>t, <2>1, <2>2, <2>4 DEF Fresh, Intent, Handling, Copied
  <2> QED
    BY <2>5, <2>6, <2>7, <2>8 DEF CopyInv
<1>12. CASE MarkBatch
  <2>1. /\ job.pc = "mark" /\ UNCHANGED <<cloud, landing>> /\ job' = [job EXCEPT !.pc = "clear"]
        /\ saved' = [saved EXCEPT !.marked = @ \cup job.batch]
    BY <1>12 DEF MarkBatch
  <2>2. /\ saved'.marked = saved.marked \cup job.batch /\ saved'.intents = saved.intents
        /\ job'.pc = "clear" /\ job'.season = job.season /\ job'.todo = job.todo
        /\ job'.batch = job.batch /\ job.batch = job.files
    BY <1>s, <1>t, <2>1 DEF SavedState, JobState, InSeason, Handling
  <2>3. CloudAgrees' /\ Covered'
    BY <1>t, <2>1, <2>2 DEF CloudAgrees, Covered, Copied, Intent, Handling
  <2>4. Ahead' /\ Fresh' /\ Intent'
    BY <1>t, <2>1, <2>2 DEF Ahead, Fresh, Intent, Left, Near, Working, Handling, Copied
  <2> QED
    BY <2>3, <2>4 DEF CopyInv
<1>13. CASE ClearIntent
  <2>1. /\ job.pc = "clear" /\ UNCHANGED <<cloud, landing>> /\ job' = [job EXCEPT !.pc = "await"]
        /\ saved' = [saved EXCEPT !.intents[job.season] = {}]
    BY <1>13 DEF ClearIntent
  <2>2. /\ saved'.marked = saved.marked
        /\ \A r \in Seasons : saved'.intents[r] = IF r = job.season THEN {} ELSE saved.intents[r]
        /\ job'.pc = "await" /\ job'.season = job.season /\ job'.todo = job.todo
        /\ job'.batch = job.batch
    BY <1>s, <2>1 DEF SavedState, JobState
  <2>3. CloudAgrees' /\ Covered'
    BY <1>t, <2>1, <2>2 DEF CloudAgrees, Covered, Copied, Intent
  <2>4. Ahead' /\ Fresh' /\ Intent'
    BY <1>t, <2>1, <2>2 DEF Ahead, Fresh, Intent, Left, Near, Working, Handling, Copied
  <2> QED
    BY <2>3, <2>4 DEF CopyInv
<1>14. CASE AwaitFiles \/ AwaitFails \/ SubmitDownloads
  BY <1>s, <1>t, <1>a, <1>14 DEF AwaitFiles, AwaitFails, SubmitDownloads, JobState, Handling, Working
<1>15. CASE ListFails \/ Refused \/ CutJob
  BY <1>a, <1>15 DEF ListFails, Refused, CutJob, Working
<1>16. CASE RecordDownloads \/ Settle \/ FinishRun
  <2>1. saved'.marked = saved.marked /\ saved'.intents = saved.intents
    BY <1>s, <1>16 DEF RecordDownloads, Settle, FinishRun, SavedState
  <2> QED
    BY <1>s, <1>a, <1>16, <2>1 DEF RecordDownloads, Settle, FinishRun, JobState, Handling, Working
<1>17. CASE RetryStep \/ RetryFault
  <2>1. saved'.marked = saved.marked /\ saved'.intents = saved.intents
    BY <1>s, <1>17 DEF RetryStep, RetryFault, BeginRetry, WriteRetry, AddUri, CutRetry, SavedState
  <2> QED
    BY <1>a, <1>17, <2>1 DEF RetryStep, RetryFault, BeginRetry, WriteRetry, AddUri, CutRetry
<1>18. CASE UNCHANGED tvars \/ \E f \in Files : Publish(f)
  BY <1>a, <1>18 DEF tvars, Publish
<1> QED
  BY <1>2, <1>4, <1>5, <1>6, <1>8, <1>9, <1>12, <1>13, <1>14, <1>15, <1>16, <1>17, <1>18
     DEF TransferNext, JobStep, JobFault

\* No file is copied into the drive twice, and what is marked was copied, for
\* every set of files and seasons and however often jobs are cut.
THEOREM TransferCloudAgrees ==
  ASSUME Timely
  PROVE  CloudSpec => []CloudAgrees
<1>1. Marks /\ Marks' /\ CopyInv /\ [TransferNext]_tvars => CopyInv'
  BY CopyStep
<1>2. CopyInv => CloudAgrees
  BY DEF CopyInv
<1> QED
  BY <1>1, <1>2, MarksInit, MarksStep, CopyInit, TransferPart, PTL DEF CloudSpec

----------------------------------------------------------------------------
LEMMA DownInit == TransferInit => DownInv
BY DEF TransferInit, DownInv, EachAccounted, Whole, NoJob

LEMMA DownStep ==
  ASSUME Timely, Marks, Marks', CopyInv, DownInv, [TransferNext]_tvars
  PROVE  DownInv'
<1> USE TransferAssumption
<1>t. InSeason /\ Retries /\ Intent /\ EachAccounted /\ Whole
  BY DEF Marks, CopyInv, DownInv
<1>s. /\ saved \in SavedState /\ saved' \in SavedState /\ job \in JobState /\ job' \in JobState
      /\ retry \in RetryState /\ job.report \subseteq job.items /\ job.items \subseteq job.batch
  BY DEF Marks, Types, TransferTypeOK, SavedState
\* Nothing that is known of a file is dropped without something in its place.
<1>a. ASSUME saved'.sync = saved.sync, tasks \subseteq tasks', cut \subseteq cut',
             saved.downloads \subseteq saved'.downloads,
             saved.sync => saved'.marked \subseteq saved.marked \cup Unsettled' \cup cut',
             Pending \subseteq Pending' \cup saved'.downloads,
             saved.sync => Unsettled \subseteq Unsettled' \cup cut' \cup Pending' \cup saved'.downloads
      PROVE  EachAccounted'
  BY <1>t, <1>a DEF EachAccounted
<1>1. CASE UNCHANGED tvars \/ \E f \in Files : Publish(f) \/ Land(f)
  BY <1>t, <1>1 DEF tvars, Publish, Land, DownInv, EachAccounted, Whole, Pending, Unsettled
<1>2. CASE RetryStep \/ RetryFault
  <2>1. job' = job /\ tasks \subseteq tasks' /\ cut' = cut
    BY <1>2 DEF RetryStep, RetryFault, BeginRetry, WriteRetry, AddUri, CutRetry
  <2>2. /\ saved'.sync = saved.sync /\ saved'.marked = saved.marked
        /\ saved.downloads \subseteq saved'.downloads
        /\ Pending \subseteq Pending' \cup saved'.downloads
    <3>1. CASE UNCHANGED saved
      BY <3>1 DEF Pending
    <3>2. CASE WriteRetry
      <4>1. PICK f \in Files : retry.file = {f}
        BY <3>2 DEF Marks, Types, WriteRetry
      <4> DEFINE g == CHOOSE h \in retry.file : TRUE
      <4>2. saved' = IF retry.sent THEN [saved EXCEPT !.pending[g] = 0, !.downloads = @ \cup {g}]
                     ELSE [saved EXCEPT !.pending[g] = IF @ = 0 THEN 0 ELSE @ + 1]
        BY <3>2 DEF WriteRetry
      <4>3. g = f
        BY <4>1
      <4> HIDE DEF g
      <4>4. CASE retry.sent
        <5>1. /\ saved'.pending = [saved.pending EXCEPT ![f] = 0]
              /\ saved'.downloads = saved.downloads \cup {f}
              /\ saved'.sync = saved.sync /\ saved'.marked = saved.marked
          BY <1>s, <4>2, <4>3, <4>4 DEF SavedState
        <5> QED
          BY <1>s, <5>1 DEF SavedState, Pending
      <4>5. CASE ~ retry.sent
        <5>1. /\ saved'.downloads = saved.downloads
              /\ saved'.sync = saved.sync /\ saved'.marked = saved.marked
              /\ saved'.pending = [saved.pending EXCEPT ![f] = IF @ = 0 THEN 0 ELSE @ + 1]
          BY <1>s, <4>2, <4>3, <4>5 DEF SavedState
        <5> QED
          BY <1>s, <5>1 DEF SavedState, Pending
      <4> QED
        BY <4>4, <4>5
    <3> QED
      BY <1>2, <3>1, <3>2 DEF RetryStep, RetryFault, BeginRetry, AddUri, CutRetry
  <2> QED
    BY <1>t, <1>a, <2>1, <2>2 DEF DownInv, Whole, Unsettled
<1>3. CASE EnterSeason \/ ListFails \/ Transferred \/ AnswerLost \/ Refused
           \/ \E names \in SUBSET Files : Begin(names)
  <2>1. /\ UNCHANGED <<saved, tasks, cut>> /\ Unsettled = {}
        /\ job'.pc \notin {"submit", "record", "settle"}
    <3>1. CASE EnterSeason \/ Transferred
      BY <1>s, <3>1 DEF EnterSeason, Transferred, Accept, JobState, Unsettled
    <3>2. CASE ListFails \/ AnswerLost \/ Refused
      BY <1>s, <3>2, NextSeasonIs
         DEF ListFails, AnswerLost, Refused, Accept, NoJob, Unsettled, Marks
    <3>3. CASE \E names \in SUBSET Files : Begin(names)
      BY <3>3 DEF Begin, NoJob, Unsettled
    <3> QED
      BY <1>3, <3>1, <3>2, <3>3
  <2> QED
    BY <1>a, <2>1 DEF DownInv, Whole, Pending
<1>4. CASE ReconcileIntent
  <2> DEFINE c == {f \in saved.intents[job.season] : cloud[f] > 0}
  <2>1. /\ saved'.marked = saved.marked \cup c /\ cut' = cut \cup c /\ tasks' = tasks
        /\ saved'.sync = saved.sync /\ saved'.downloads = saved.downloads
        /\ saved'.pending = saved.pending
    BY <1>s, <1>4 DEF ReconcileIntent, SavedState
  <2>2. Unsettled = {} /\ job'.pc \notin {"submit", "record", "settle"}
    BY <1>s, <1>4, NextSeasonIs DEF ReconcileIntent, Unsettled, JobState, Marks
  <2> QED
    BY <1>a, <2>1, <2>2 DEF DownInv, Whole, Pending
<1>5. CASE RecordIntent \/ FinishRun
  <2>1. /\ saved'.marked = saved.marked /\ saved'.sync = saved.sync /\ UNCHANGED <<tasks, cut>>
        /\ saved'.downloads = saved.downloads /\ saved'.pending = saved.pending
    BY <1>s, <1>5 DEF RecordIntent, FinishRun, SavedState
  <2>2. Unsettled = {} /\ job'.pc \notin {"submit", "record", "settle"}
    BY <1>s, <1>5 DEF RecordIntent, FinishRun, Unsettled, JobState, NoJob
  <2> QED
    BY <1>a, <2>1, <2>2 DEF DownInv, Whole, Pending
<1>6. CASE MarkBatch
  <2>1. /\ saved'.marked = saved.marked \cup job.batch /\ saved'.sync = saved.sync
        /\ UNCHANGED <<tasks, cut>>
        /\ saved'.downloads = saved.downloads /\ saved'.pending = saved.pending
    BY <1>s, <1>6 DEF MarkBatch, SavedState
  <2>2. job'.pc = "clear" /\ Unsettled = {} /\ Unsettled' = job.batch
    BY <1>s, <1>6 DEF MarkBatch, Unsettled, JobState
  <2> QED
    BY <1>a, <2>1, <2>2 DEF DownInv, Whole, Pending
<1>7. CASE ClearIntent
  <2>1. /\ saved'.marked = saved.marked /\ saved'.sync = saved.sync /\ UNCHANGED <<tasks, cut>>
        /\ saved'.downloads = saved.downloads /\ saved'.pending = saved.pending
    BY <1>s, <1>7 DEF ClearIntent, SavedState
  <2>2. job'.pc = "await" /\ Unsettled' = Unsettled
    BY <1>s, <1>7 DEF ClearIntent, Unsettled, JobState
  <2> QED
    BY <1>a, <2>1, <2>2 DEF DownInv, Whole, Pending
\* All of the batch is visible by the time it is submitted: nothing is dropped.
<1>8. CASE AwaitFiles \/ AwaitFails
  <2>1. UNCHANGED <<saved, tasks, cut>> /\ job'.pc = "submit" /\ Unsettled' = Unsettled
    BY <1>s, <1>8 DEF AwaitFiles, AwaitFails, Unsettled, JobState
  <2>2. job'.items = job'.batch
    <3>1. CASE AwaitFails
      BY <1>s, <3>1 DEF AwaitFails, JobState
    <3>2. CASE AwaitFiles
      <4>1. \A f \in job.batch : cloud[f] > 0
        BY <1>t, <3>2 DEF AwaitFiles, Timely, Intent, Handling, Copied
      <4>2. {f \in job.batch : cloud[f] > 0} = job.batch
        BY <4>1
      <4> QED
        BY <1>s, <3>2, <4>2 DEF AwaitFiles, JobState
    <3> QED
      BY <1>8, <3>1, <3>2
  <2> QED
    BY <1>a, <2>1, <2>2 DEF DownInv, Whole, Pending
<1>9. CASE SubmitDownloads
  <2>1. job.pc = "submit" /\ UNCHANGED <<saved, cut>> /\ tasks \subseteq tasks'
    BY <1>9 DEF SubmitDownloads
  <2>2. CASE ~ saved.sync
    BY <2>1, <2>2 DEF DownInv, EachAccounted, Whole
  <2>3. CASE saved.sync
    <3>1. \E r \in SUBSET job.items : job' = [job EXCEPT !.pc = "record", !.report = r]
      BY <1>9, <2>3 DEF SubmitDownloads
    <3>2. job'.pc = "record" /\ job'.items = job.items /\ job'.batch = job.batch
      BY <1>s, <3>1 DEF JobState
    <3> QED
      BY <1>t, <1>a, <2>1, <3>2 DEF DownInv, Whole, Pending, Unsettled
  <2> QED
    BY <2>2, <2>3
<1>10. CASE RecordDownloads
  <2>1. /\ saved'.marked = saved.marked /\ saved'.sync = saved.sync /\ UNCHANGED <<tasks, cut>>
        /\ saved'.downloads = saved.downloads \cup job.report /\ saved'.pending = saved.pending
    BY <1>s, <1>10 DEF RecordDownloads, SavedState
  <2>2. /\ job.pc = "record" /\ job'.pc = "settle" /\ job'.items = job.items
        /\ job'.batch = job.batch /\ job'.report = job.report
    BY <1>s, <1>10 DEF RecordDownloads, JobState
  <2> QED
    BY <1>t, <1>a, <2>1, <2>2 DEF DownInv, Whole, Pending, Unsettled
\* What is settled is in the report, hence recorded, or becomes pending.
<1>11. CASE Settle
  <2>1. job.pc = "settle" /\ job'.pc = "season" /\ UNCHANGED <<tasks, cut>>
    BY <1>11, NextSeasonIs DEF Settle, Marks
  <2>2. /\ saved'.marked = saved.marked /\ saved'.sync = saved.sync
        /\ saved'.downloads = saved.downloads
        /\ saved'.pending = [f \in Files |-> IF f \in job.report THEN 0
                              ELSE IF f \in job.items THEN AtMost(saved.pending[f] + 1, MaxTries)
                                   ELSE saved.pending[f]]
    BY <1>s, <1>11 DEF Settle, SavedState
  <2>3. saved.sync => job.items = job.batch /\ job.report \subseteq saved.downloads
    BY <1>t, <2>1 DEF Whole
  <2>4. \A f \in job.items \ job.report : saved'.pending[f] > 0
    BY <1>s, <2>2 DEF SavedState, JobState, AtMost
  <2>5. saved.sync => EachAccounted'
    BY <1>s, <1>t, <2>1, <2>2, <2>3, <2>4
       DEF EachAccounted, Pending, Unsettled, SavedState, JobState
  <2> QED
    BY <2>1, <2>2, <2>5 DEF DownInv, EachAccounted, Whole
<1>12. CASE CutJob
  <2>1. UNCHANGED <<saved, tasks>> /\ job'.pc = "idle" /\ cut' = cut \cup Unsettled
    BY <1>12 DEF CutJob, NoJob
  <2> QED
    BY <1>a, <2>1 DEF DownInv, Whole, Pending
<1> QED
  BY <1>1, <1>2, <1>3, <1>4, <1>5, <1>6, <1>7, <1>8, <1>9, <1>10, <1>11, <1>12
     DEF TransferNext, JobStep, JobFault

\* The seasons a cut may have cost their downloads: those of files whose run was
\* cut, and those with an intent that no running call accounts for.
InCall(s) == job.pc \in {"call", "mark", "clear"} /\ s = job.season
Lost ==
  {seasonOf[f] : f \in cut} \cup {s \in Seasons : saved.intents[s] # {} /\ ~InCall(s)}
LossInv == IsFiniteSet(Lost) /\ Cardinality(Lost) <= faults

LEMMA LossInit == TransferInit => LossInv
<1> SUFFICES ASSUME TransferInit PROVE LossInv
  OBVIOUS
<1>1. Lost = {}
  BY DEF TransferInit, Lost
<1> QED
  BY <1>1, FS_EmptySet DEF TransferInit, LossInv

LEMMA LossStep ==
  ASSUME Marks, Marks', LossInv, [TransferNext]_tvars
  PROVE  LossInv'
<1> USE TransferAssumption
<1>s. /\ saved \in SavedState /\ saved' \in SavedState /\ job \in JobState /\ job' \in JobState
      /\ faults \in Nat /\ cut \subseteq Files /\ InSeason /\ OwnIntents
  BY DEF Marks, Types, TransferTypeOK, SavedState
\* A fault adds one season, another step none.
<1>a. ASSUME Lost' \subseteq Lost, faults' \in Nat, faults <= faults' PROVE LossInv'
  <2>1. IsFiniteSet(Lost') /\ Cardinality(Lost') <= Cardinality(Lost)
    BY <1>a, FS_Subset DEF LossInv
  <2>2. Cardinality(Lost) \in Nat /\ Cardinality(Lost') \in Nat
    BY <2>1, FS_CardinalityType DEF LossInv
  <2> QED
    BY <1>a, <1>s, <2>1, <2>2 DEF LossInv
<1>b. ASSUME Lost' \subseteq Lost \cup {job.season}, faults' = faults + 1 PROVE LossInv'
  <2> DEFINE T == Lost \cup {job.season}
  <2>1. IsFiniteSet(T) /\ Cardinality(T) <= Cardinality(Lost) + 1
    <3>1. /\ IsFiniteSet(T)
          /\ Cardinality(T) = IF job.season \in Lost THEN Cardinality(Lost) ELSE Cardinality(Lost) + 1
      BY FS_AddElement DEF LossInv
    <3>2. Cardinality(Lost) \in Nat
      BY FS_CardinalityType DEF LossInv
    <3> QED
      BY <3>1, <3>2
  <2>2. IsFiniteSet(Lost') /\ Cardinality(Lost') <= Cardinality(T)
    BY <1>b, <2>1, FS_Subset
  <2>3. Cardinality(Lost) \in Nat /\ Cardinality(T) \in Nat /\ Cardinality(Lost') \in Nat
    BY <2>1, <2>2, FS_CardinalityType DEF LossInv
  <2> HIDE DEF T
  <2> QED
    BY <1>b, <1>s, <2>1, <2>2, <2>3 DEF LossInv
<1>c. faults' \in Nat
  BY DEF Marks, Types, TransferTypeOK
<1>1. CASE ListFails \/ AwaitFails
  <2>1. UNCHANGED <<saved, cut>> /\ faults' = faults + 1 /\ ~InCall(job.season)
    BY <1>1 DEF ListFails, AwaitFails, Fault, InCall
  <2>2. Lost' \subseteq Lost
    BY <2>1 DEF Lost, InCall
  <2> QED
    BY <1>a, <1>c, <1>s, <2>1, <2>2
<1>2. CASE AnswerLost \/ Refused \/ CutJob
  <2>1. /\ UNCHANGED saved /\ faults' = faults + 1
        /\ cut' \subseteq cut \cup Unsettled
    BY <1>2 DEF AnswerLost, Refused, CutJob, Accept, Fault
  <2>2. \A f \in Unsettled : seasonOf[f] = job.season
    BY <1>s DEF Unsettled, InSeason, Working, Handling
  <2>3. Lost' \subseteq Lost \cup {job.season}
    BY <2>1, <2>2 DEF Lost, InCall
  <2> QED
    BY <1>b, <2>1, <2>3
<1>3. CASE ReconcileIntent
  <2>1. PICK c \in SUBSET saved.intents[job.season] :
          /\ cut' = cut \cup c /\ job.pc = "list" /\ faults' = faults
          /\ saved'.intents = [saved.intents EXCEPT ![job.season] = @ \ c]
    <3> DEFINE c == {f \in saved.intents[job.season] : cloud[f] > 0}
    <3>1. /\ cut' = cut \cup c /\ job.pc = "list" /\ faults' = faults
          /\ saved' = [saved EXCEPT !.marked = @ \cup c, !.intents[job.season] =
                                  saved.intents[job.season] \ c]
      BY <1>3 DEF ReconcileIntent
    <3>2. c \in SUBSET saved.intents[job.season]
      OBVIOUS
    <3> HIDE DEF c
    <3> QED
      BY <1>s, <3>1, <3>2 DEF SavedState
  <2>2. job.season \in Seasons
    BY <1>s, <2>1 DEF InSeason, Working, JobState
  <2>3. \A f \in c : seasonOf[f] = job.season /\ job.season \in Lost
    BY <1>s, <2>1, <2>2 DEF OwnIntents, Lost, InCall
  <2>4. Lost' \subseteq Lost
    BY <1>s, <2>1, <2>2, <2>3 DEF Lost, InCall, SavedState
  <2> QED
    BY <1>a, <1>c, <1>s, <2>1, <2>4
<1>4. CASE RecordIntent
  <2>1. /\ job.pc = "intent" /\ cut' = cut /\ faults' = faults
        /\ saved'.intents = [saved.intents EXCEPT ![job.season] = job.files]
        /\ job'.pc = "call" /\ job'.season = job.season
    BY <1>s, <1>4 DEF RecordIntent, SavedState, JobState
  <2>2. Lost' \subseteq Lost
    BY <1>s, <2>1 DEF Lost, InCall, SavedState
  <2> QED
    BY <1>a, <1>c, <1>s, <2>1, <2>2
<1>5. CASE ClearIntent
  <2>1. /\ job.pc = "clear" /\ cut' = cut /\ faults' = faults
        /\ saved'.intents = [saved.intents EXCEPT ![job.season] = {}]
    BY <1>s, <1>5 DEF ClearIntent, SavedState
  <2>2. Lost' \subseteq Lost
    BY <1>s, <2>1 DEF Lost, InCall, SavedState
  <2> QED
    BY <1>a, <1>c, <1>s, <2>1, <2>2
<1>6. CASE Transferred \/ MarkBatch
  <2>1. /\ cut' = cut /\ faults' = faults /\ saved'.intents = saved.intents
        /\ InCall(job.season) /\ job'.pc \in {"mark", "clear"} /\ job'.season = job.season
    BY <1>s, <1>6 DEF Transferred, Accept, MarkBatch, InCall, SavedState, JobState
  <2>2. Lost' \subseteq Lost
    BY <2>1 DEF Lost, InCall
  <2> QED
    BY <1>a, <1>c, <1>s, <2>1, <2>2
<1>7. CASE \/ EnterSeason \/ AwaitFiles \/ SubmitDownloads \/ RecordDownloads \/ Settle
           \/ FinishRun \/ \E names \in SUBSET Files : Begin(names)
  <2>1. /\ cut' = cut /\ faults <= faults' /\ saved'.intents = saved.intents
        /\ job.pc \notin {"call", "mark", "clear"}
    <3>1. CASE EnterSeason \/ AwaitFiles \/ \E names \in SUBSET Files : Begin(names)
      <4>1. UNCHANGED <<saved, cut, faults>> /\ job.pc \in {"season", "await", "idle"}
        BY <3>1 DEF EnterSeason, AwaitFiles, Begin
      <4> QED
        BY <1>s, <4>1
    <3>2. CASE RecordDownloads \/ Settle \/ FinishRun
      <4>1. UNCHANGED <<cut, faults>> /\ job.pc \in {"record", "settle", "season"}
        BY <3>2 DEF RecordDownloads, Settle, FinishRun
      <4>2. saved'.intents = saved.intents
        BY <1>s, <3>2 DEF RecordDownloads, Settle, FinishRun, SavedState
      <4> QED
        BY <1>s, <4>1, <4>2
    <3>3. CASE SubmitDownloads
      <4>1. UNCHANGED <<saved, cut>> /\ job.pc = "submit" /\ (faults' = faults \/ faults' = faults + 1)
        BY <3>3 DEF SubmitDownloads, Fault
      <4> QED
        BY <1>s, <4>1
    <3> QED
      BY <1>7, <3>1, <3>2, <3>3
  <2>2. Lost' \subseteq Lost
    BY <2>1 DEF Lost, InCall
  <2> QED
    BY <1>a, <1>c, <2>1, <2>2
<1>8. CASE \/ RetryStep \/ RetryFault \/ UNCHANGED tvars
           \/ \E f \in Files : Publish(f) \/ Land(f)
  <2>1. UNCHANGED <<cut, job>> /\ saved'.intents = saved.intents /\ faults <= faults'
    <3>1. CASE WriteRetry
      <4>1. UNCHANGED <<cut, job, faults>>
        BY <3>1 DEF WriteRetry
      <4>2. saved'.intents = saved.intents
        BY <1>s, <3>1 DEF WriteRetry, SavedState
      <4> QED
        BY <1>s, <4>1, <4>2
    <3>2. CASE \/ BeginRetry \/ RetryFault \/ \E f \in Files : AddUri(f, TRUE, TRUE)
               \/ UNCHANGED tvars \/ \E f \in Files : Publish(f) \/ Land(f)
      <4>1. UNCHANGED <<saved, cut, job>> /\ (faults' = faults \/ faults' = faults + 1)
        BY <3>2 DEF BeginRetry, RetryFault, AddUri, CutRetry, Fault, Publish, Land, tvars
      <4> QED
        BY <1>s, <4>1
    <3> QED
      BY <1>8, <3>1, <3>2 DEF RetryStep
  <2>2. Lost' \subseteq Lost
    BY <2>1 DEF Lost, InCall
  <2> QED
    BY <1>a, <1>c, <2>1, <2>2
<1> QED
  BY <1>1, <1>2, <1>3, <1>4, <1>5, <1>6, <1>7, <1>8 DEF TransferNext, JobStep, JobFault

\* One fault costs the downloads of one season at most.
LEMMA LossIsBounded == Marks /\ LossInv => LossBounded
<1> SUFFICES ASSUME Marks, LossInv PROVE LossBounded
  OBVIOUS
<1> DEFINE S == {seasonOf[f] : f \in cut}
<1>1. S \subseteq Lost /\ IsFiniteSet(Lost) /\ Cardinality(Lost) <= faults
  BY DEF Lost, LossInv
<1>2. IsFiniteSet(S) /\ Cardinality(S) <= Cardinality(Lost)
  BY <1>1, FS_Subset
<1>3. Cardinality(S) \in Nat /\ Cardinality(Lost) \in Nat /\ faults \in Nat
  BY <1>1, <1>2, FS_CardinalityType, TransferAssumption DEF Marks, Types, TransferTypeOK
<1> QED
  BY <1>1, <1>2, <1>3 DEF LossBounded

\* A marked file of a synchronised subscription is with Aria2, pending or being
\* handled, unless its run was cut between its copy and its settlement; a fault
\* costs the downloads of one season at most (subscription_transfer.rs:933).
THEOREM TransferDownloadAccounted ==
  ASSUME Timely
  PROVE  CloudSpec => []DownloadAccounted
<1>1. Marks /\ Marks' /\ CopyInv /\ [TransferNext]_tvars => CopyInv'
  BY CopyStep
<1>2. Marks /\ Marks' /\ CopyInv /\ DownInv /\ [TransferNext]_tvars => DownInv'
  BY DownStep
<1>3. Marks /\ Marks' /\ LossInv /\ [TransferNext]_tvars => LossInv'
  BY LossStep
<1>4. Marks /\ DownInv /\ LossInv => DownloadAccounted
  BY LossIsBounded DEF DownInv, DownloadAccounted
<1> QED
  BY <1>1, <1>2, <1>3, <1>4, MarksInit, MarksStep, CopyInit, DownInit, LossInit, TransferPart, PTL
     DEF CloudSpec

----------------------------------------------------------------------------
(* Saves by hand. *)

Own(j) == {i \in drive : i.job = j}
Copy(j, f) == [of |-> f, in |-> work[j].dir, by |-> saves[j].chain, job |-> j]

\* A job that has not saved has nothing in the drive; once it has, its items are
\* the picked files, each known as handed over, still to be, or reported.
Accounted(j) ==
  /\ saves[j].status = "none" \/ work[j].pc \in {"probe", "ensure", "create", "list", "send", "save"}
       => Own(j) = {}
  /\ work[j].pc \in {"record", "resolve"} => Own(j) = {Copy(j, f) : f \in work[j].picked}
  /\ work[j].pc \in {"resolve", "download"} => saves[j].kept
  /\ work[j].pc = "download" =>
       /\ \A i \in work[j].todo : i.job = j
       /\ saves[j].errors \/ Own(j) \subseteq saves[j].downs \cup work[j].todo
  /\ saves[j].status = "succeeded" /\ saves[j].kind = "save" =>
       saves[j].kept /\ (saves[j].errors \/ Own(j) \subseteq saves[j].downs)

\* What the chain of a job has in the directory is not what the job is to copy.
NotYet(j) ==
  work[j].pc \in {"send", "save"} /\ saves[j].kind = "save" =>
    \A i \in drive : i.in = work[j].dir /\ i.by = saves[j].chain => i.of \notin work[j].picked

AtItsStep(j) ==
  /\ work[j].pc # "none" <=> saves[j].status = "running"
  /\ saves[j].status = "none" <=> saves[j].chain = 0
  /\ saves[j].status = "none" => saves[j].kind = "save"
  /\ work[j].pc \in {"ensure", "create", "list", "resolve", "download"} => saves[j].kind = "save"

JobKept(j) == Accounted(j) /\ NotYet(j) /\ AtItsStep(j)

\* A chain has one request, begun by an older job; each request is at work once.
ChainIsOneRequest ==
  /\ \A j, k \in Numbers : saves[j].chain # 0 /\ saves[j].chain = saves[k].chain => RequestKey(j) = RequestKey(k)
  /\ \A j \in Numbers : saves[j].chain # 0 =>
       saves[j].chain \in Numbers /\ saves[saves[j].chain].chain # 0
  /\ \A j, k \in Numbers : saves[j].status = "running" /\ saves[k].status = "running"
       /\ RequestKey(j) = RequestKey(k) => j = k

SaveInv ==
  /\ SaveTypeOK /\ IsFiniteSet(folders) /\ ChainIsOneRequest
  /\ SavedOnce /\ RightFile /\ \A j \in Numbers : JobKept(j)

\* At the start there is neither a job nor an item.
LEMMA SaveStart == SaveInit => SaveInv
<1> SUFFICES ASSUME SaveInit PROVE SaveInv
  OBVIOUS
<1>0. IsFiniteSet(folders)
  BY FS_EmptySet DEF SaveInit
<1>1. SaveTypeOK
  BY SaveAssumption DEF SaveInit, SaveTypeOK, NoSave, NoWork, SaveSteps
<1>2. \A j \in Numbers : JobKept(j)
  BY DEF SaveInit, NoSave, NoWork, JobKept, Accounted, NotYet, AtItsStep, Own
<1> QED
  BY <1>0, <1>1, <1>2 DEF SaveInit, NoSave, NoWork, SaveInv, ChainIsOneRequest, SavedOnce, RightFile

\* A copy does not repeat what the chain has in that directory: the job found
\* none of it there, and no other job of the chain is at work.
LEMMA CopiedOnce ==
  ASSUME SaveInv, NEW j \in Numbers, work[j].pc = "save", Copies(j),
         \A k \in Numbers : saves'[k].kind = saves[k].kind /\ saves'[k].chain = saves[k].chain
  PROVE  SavedOnce'
<1> DEFINE New == {Copy(j, f) : f \in work[j].picked}
<1>1. drive' = drive \cup New
  BY DEF Copies, Copy
<1>2. AtItsStep(j) /\ NotYet(j) /\ saves[j].chain # 0
  BY DEF SaveInv, JobKept, AtItsStep
<1>3. ASSUME NEW i \in New PROVE i.in = work[j].dir /\ i.by = saves[j].chain /\ i.of \in work[j].picked
                                  /\ i = Copy(j, i.of)
  BY <1>3 DEF Copy
<1>4. ASSUME NEW i \in drive', NEW k \in drive', i.by = k.by, i.of = k.of, i.in = k.in,
             \A n \in Numbers : saves'[n].chain = i.by => saves'[n].kind = "save"
      PROVE  i = k
  <2>1. \A n \in Numbers : saves[n].chain = i.by => saves[n].kind = "save"
    BY <1>4
  <2>2. CASE i \in drive /\ k \in drive
    BY <2>1, <2>2, <1>4 DEF SaveInv, SavedOnce
  <2>3. CASE i \in New /\ k \in New
    BY <2>3, <1>3, <1>4
  <2>4. CASE i \in New /\ k \in drive
    <3>1. saves[j].kind = "save"
      BY <2>1, <2>4, <1>3
    <3> QED
      BY <3>1, <1>2, <1>3, <1>4, <2>4 DEF NotYet
  <2>5. CASE k \in New /\ i \in drive
    <3>1. saves[j].kind = "save"
      BY <2>1, <2>5, <1>3, <1>4
    <3> QED
      BY <3>1, <1>2, <1>3, <1>4, <2>5 DEF NotYet
  <2> QED
    BY <1>1, <2>2, <2>3, <2>4, <2>5
<1> QED
  BY <1>4 DEF SavedOnce

\* The job at work, or the only one of its request, is alone in its chain.
LEMMA AloneInChain ==
  ASSUME SaveInv, NEW j \in Numbers, NEW k \in Numbers, j # k,
         saves[j].status = "running", saves[k].status = "running"
  PROVE  saves[j].chain # saves[k].chain
<1>1. AtItsStep(j) /\ AtItsStep(k)
  BY DEF SaveInv, JobKept
<1> QED
  BY <1>1 DEF AtItsStep, SaveInv, ChainIsOneRequest

\* What a job does to the drive is nothing to the others.
LEMMA OthersKept ==
  ASSUME SaveInv, NEW j \in Numbers, NEW k \in Numbers, j # k,
         UNCHANGED drive \/ (work[j].pc = "save" /\ Copies(j)),
         saves'[k] = saves[k], work'[k] = work[k]
  PROVE  JobKept(k)'
<1>0. JobKept(k) /\ JobKept(j)
  BY DEF SaveInv
<1>1. CASE UNCHANGED drive
  BY <1>0, <1>1 DEF JobKept, Accounted, NotYet, AtItsStep, Own, Copy
<1>2. CASE work[j].pc = "save" /\ Copies(j)
  <2>1. Own(k)' = Own(k)
    BY <1>2 DEF Own, Copies
  <2>2. saves[k].status = "running" => saves[j].chain # saves[k].chain
    BY <1>0, <1>2, AloneInChain DEF JobKept, AtItsStep
  <2>3. NotYet(k)'
    BY <1>0, <1>2, <2>2 DEF JobKept, AtItsStep, NotYet, Copies
  <2>4. \A f : Copy(k, f)' = Copy(k, f)
    BY DEF Copy
  <2> QED
    BY <1>0, <2>1, <2>3, <2>4 DEF JobKept, AtItsStep, Accounted
<1> QED
  BY <1>1, <1>2

\* Jobs that end or go on keep their requests.
LEMMA RequestsKept ==
  ASSUME SaveInv,
         \A k \in Numbers :
           /\ saves'[k].kind = saves[k].kind /\ saves'[k].want = saves[k].want
           /\ saves'[k].chain = saves[k].chain
           /\ saves'[k].status = "running" => saves[k].status = "running"
  PROVE  ChainIsOneRequest'
<1>1. \A k \in Numbers : RequestKey(k)' = RequestKey(k)
  BY DEF RequestKey
<1> QED
  BY <1>1 DEF SaveInv, ChainIsOneRequest

\* A step of one job, as far as the others and the drive are concerned.
LEMMA OneJobSteps ==
  ASSUME SaveInv, NEW j \in Numbers,
         \A k \in Numbers \ {j} : saves'[k] = saves[k] /\ work'[k] = work[k],
         saves'[j].kind = saves[j].kind, saves'[j].want = saves[j].want,
         saves'[j].chain = saves[j].chain, saves[j].status = "running",
         UNCHANGED drive \/ (work[j].pc = "save" /\ Copies(j)),
         \A d \in aria' : d \in aria \/ d[2].job = d[1],
         SaveTypeOK', IsFiniteSet(folders'), JobKept(j)'
  PROVE  SaveInv'
<1>1. ChainIsOneRequest'
  BY RequestsKept
<1>2. SavedOnce'
  <2>1. CASE UNCHANGED drive
    <3>1. \A k \in Numbers : saves'[k].kind = saves[k].kind /\ saves'[k].chain = saves[k].chain
      OBVIOUS
    <3> QED
      BY <2>1, <3>1 DEF SaveInv, SavedOnce
  <2>2. CASE work[j].pc = "save" /\ Copies(j)
    BY <2>2, CopiedOnce
  <2> QED
    BY <2>1, <2>2
<1>3. RightFile'
  BY DEF SaveInv, RightFile
<1>4. \A k \in Numbers : JobKept(k)'
  BY OthersKept
<1> QED
  BY <1>1, <1>2, <1>3, <1>4 DEF SaveInv

\* The records of a job and of its handler.
SaveRecord ==
  [status : {"none", "running", "succeeded", "failed"}, kind : {"save", "whole"}, want : SUBSET Media,
   chain : Nat, kept : BOOLEAN, files : SUBSET drive, downs : SUBSET drive, errors : BOOLEAN]
WorkRecord == [pc : SaveSteps, dir : {0} \cup folders, picked : SUBSET Media, todo : SUBSET drive]

\* A step of one job, with the types.
LEMMA StepKeeps ==
  ASSUME SaveInv, NEW j \in Numbers, saves'[j] \in SaveRecord', work'[j] \in WorkRecord',
         saves' = [saves EXCEPT ![j] = saves'[j]], work' = [work EXCEPT ![j] = work'[j]],
         saves'[j].kind = saves[j].kind, saves'[j].want = saves[j].want,
         saves'[j].chain = saves[j].chain,
         work[j].pc # "none", offer' \subseteq offer, mishaps' \in 0..MaxMishaps,
         folders \subseteq folders', folders' \subseteq Nat, IsFiniteSet(folders'),
         UNCHANGED drive \/ (work[j].pc = "save" /\ Copies(j)),
         \A d \in aria' : d \in aria \/ (d[2] \in drive /\ d = <<j, d[2]>> /\ d[2].job = j),
         JobKept(j)'
  PROVE  SaveInv'
<1>1. saves[j].status = "running" /\ saves[j].chain \in Nat
  BY DEF SaveInv, JobKept, AtItsStep, SaveTypeOK
<1>2. /\ saves \in [Numbers -> SaveRecord] /\ work \in [Numbers -> WorkRecord]
      /\ \A k \in Numbers \ {j} : saves'[k] = saves[k] /\ work'[k] = work[k]
  BY DEF SaveInv, SaveTypeOK, SaveRecord, WorkRecord
<1>3. drive \subseteq drive' /\ drive' \subseteq [of : Media, in : folders' \cup {0}, by : Nat, job : Numbers]
  <2>1. drive \subseteq [of : Media, in : folders' \cup {0}, by : Nat, job : Numbers]
    BY DEF SaveInv, SaveTypeOK
  <2>2. work[j].dir \in {0} \cup folders' /\ work[j].picked \subseteq Media
    BY <1>2 DEF WorkRecord
  <2>3. CASE Copies(j)
    <3>1. \A f \in work[j].picked :
            [of |-> f, in |-> work[j].dir, by |-> saves[j].chain, job |-> j]
              \in [of : Media, in : folders' \cup {0}, by : Nat, job : Numbers]
      BY <1>1, <2>2
    <3> QED
      BY <3>1, <2>1, <2>3 DEF Copies
  <2> QED
    BY <2>1, <2>3
<1>4. SaveRecord \subseteq SaveRecord' /\ WorkRecord \subseteq WorkRecord'
  BY <1>3 DEF SaveRecord, WorkRecord
<1>5. saves' \in [Numbers -> SaveRecord'] /\ work' \in [Numbers -> WorkRecord']
  BY <1>2, <1>4
<1>6. aria' \subseteq Numbers \X drive'
  BY <1>3 DEF SaveInv, SaveTypeOK
<1>7. SaveTypeOK'
  BY <1>3, <1>5, <1>6 DEF SaveInv, SaveTypeOK, SaveRecord, WorkRecord
<1>8. \A d \in aria' : d \in aria \/ d[2].job = d[1]
  OBVIOUS
<1> QED
  BY <1>1, <1>2, <1>7, <1>8, OneJobSteps

\* What is known of the job that steps.
LEMMA OfTheJob ==
  ASSUME SaveInv, NEW j \in Numbers
  PROVE  /\ saves[j] \in SaveRecord /\ work[j] \in WorkRecord /\ JobKept(j)
         /\ IsFiniteSet(folders) /\ folders \subseteq Nat /\ mishaps \in 0..MaxMishaps
         /\ offer \subseteq Media /\ MaxMishaps \in Nat
  BY SaveAssumption DEF SaveInv, SaveTypeOK, SaveRecord, WorkRecord

\* A handler fails, its call under way carried out or not.
LEMMA FailsKeeps ==
  ASSUME SaveInv, NEW j \in Numbers, work[j].pc # "none", Fails(j),
         UNCHANGED drive \/ (work[j].pc = "save" /\ Copies(j)),
         UNCHANGED <<folders, aria, offer>>, mishaps' \in 0..MaxMishaps
  PROVE  SaveInv'
<1>0. saves[j] \in SaveRecord /\ JobKept(j) /\ IsFiniteSet(folders) /\ folders \subseteq Nat
  BY OfTheJob
<1>1. saves' = [saves EXCEPT ![j].status = "failed"] /\ work' = [work EXCEPT ![j] = NoWork]
  BY DEF Fails, Onward
<1>2. drive \subseteq drive'
  BY DEF Copies
<1>3. saves'[j] = [saves[j] EXCEPT !.status = "failed"] /\ work'[j] = NoWork
  BY <1>1 DEF SaveInv, SaveTypeOK
<1>4. saves' = [saves EXCEPT ![j] = saves'[j]] /\ work' = [work EXCEPT ![j] = work'[j]]
  BY <1>1, <1>3 DEF SaveInv, SaveTypeOK
<1>5. /\ saves'[j].kind = saves[j].kind /\ saves'[j].want = saves[j].want
      /\ saves'[j].chain = saves[j].chain /\ saves'[j].status = "failed"
  BY <1>0, <1>3 DEF SaveRecord
<1>6. saves'[j] \in SaveRecord' /\ work'[j] \in WorkRecord'
  BY <1>0, <1>2, <1>3 DEF SaveRecord, WorkRecord, NoWork, SaveSteps
<1>7. JobKept(j)'
  BY <1>0, <1>3, <1>5 DEF JobKept, Accounted, NotYet, AtItsStep, NoWork
<1> QED
  BY <1>0, <1>4, <1>5, <1>6, <1>7, StepKeeps

\* A handler goes on before its copy, with nothing of its chain there.
LEMMA GoesOnKeeps ==
  ASSUME SaveInv, NEW j \in Numbers, work'[j] \in WorkRecord',
         work[j].pc \in {"probe", "ensure", "create", "list", "send"},
         work'[j].pc \in {"ensure", "create", "list", "send", "save"},
         work'[j].pc \in {"ensure", "create", "list"} => saves[j].kind = "save",
         saves[j].kind = "save" /\ work'[j].pc \in {"send", "save"} =>
           \A i \in drive : i.in = work'[j].dir /\ i.by = saves[j].chain => i.of \notin work'[j].picked,
         work' = [work EXCEPT ![j] = work'[j]],
         UNCHANGED <<saves, drive, aria, offer>>, mishaps' \in 0..MaxMishaps,
         folders \subseteq folders', folders' \subseteq Nat, IsFiniteSet(folders')
  PROVE  SaveInv'
<1>0. saves[j] \in SaveRecord /\ JobKept(j)
  BY OfTheJob
<1>1. saves' = [saves EXCEPT ![j] = saves'[j]] /\ saves'[j] \in SaveRecord'
  BY <1>0 DEF SaveInv, SaveTypeOK, SaveRecord
<1>2. JobKept(j)'
  BY <1>0 DEF JobKept, Accounted, NotYet, AtItsStep, Own
<1> QED
  BY <1>0, <1>1, <1>2, StepKeeps

\* The steps that lead to the copy.
LEMMA BeforeTheCopy ==
  ASSUME SaveInv, NEW j \in Numbers,
         ProbeShare(j) \/ EnsureDir(j) \/ create_dir(j) \/ ListTarget(j) \/ Relist(j)
  PROVE  SaveInv'
<1>0. /\ work[j] \in WorkRecord /\ saves[j] \in SaveRecord /\ JobKept(j) /\ IsFiniteSet(folders)
      /\ folders \subseteq Nat /\ mishaps \in 0..MaxMishaps /\ offer \subseteq Media /\ MaxMishaps \in Nat
  BY OfTheJob
<1>1. work \in [Numbers -> WorkRecord]
  BY DEF SaveInv, SaveTypeOK, WorkRecord
<1>2. CASE ProbeShare(j)
  <2>1. PICK seen \in {offer} \cup (IF mishaps < MaxMishaps THEN SUBSET offer ELSE {}) :
          /\ mishaps' = (IF seen = offer THEN mishaps ELSE mishaps + 1)
          /\ \/ Fails(j)
             \/ /\ saves[j].kind = "whole" /\ UNCHANGED saves
                /\ Onward(j, [work[j] EXCEPT !.pc = "send", !.picked = seen])
             \/ /\ saves[j].kind # "whole" /\ UNCHANGED saves
                /\ Onward(j, [work[j] EXCEPT !.pc = "ensure",
                               !.picked = IF saves[j].want = {} THEN seen ELSE saves[j].want \cap seen])
    BY <1>2, Zenon DEF ProbeShare
  <2>2. seen \subseteq Media /\ mishaps' \in 0..MaxMishaps
    BY <1>0, <2>1
  <2>3. work[j].pc = "probe" /\ UNCHANGED <<offer, folders, drive, aria>>
    BY <1>2 DEF ProbeShare, Step
  <2>4. CASE Fails(j)
    BY <2>2, <2>3, <2>4, FailsKeeps
  <2>5. ASSUME NEW picked \in SUBSET Media, NEW pc \in {"send", "ensure"}, UNCHANGED saves,
               pc = "ensure" => saves[j].kind = "save", pc = "send" => saves[j].kind = "whole",
               Onward(j, [work[j] EXCEPT !.pc = pc, !.picked = picked])
        PROVE  SaveInv'
    <3>1. work' = [work EXCEPT ![j] = work'[j]] /\ work'[j] = [work[j] EXCEPT !.pc = pc, !.picked = picked]
      BY <1>1, <2>5 DEF Onward
    <3>2. work'[j] \in WorkRecord' /\ work'[j].pc = pc
      BY <1>0, <2>3, <3>1 DEF WorkRecord, SaveSteps
    <3> QED
      BY <1>0, <2>2, <2>3, <2>5, <3>1, <3>2, GoesOnKeeps
  <2>6. saves[j].kind # "whole" => saves[j].kind = "save"
    BY <1>0 DEF SaveRecord
  <2>7. CASE /\ saves[j].kind = "whole" /\ UNCHANGED saves
             /\ Onward(j, [work[j] EXCEPT !.pc = "send", !.picked = seen])
    BY <2>2, <2>5, <2>7
  <2>8. CASE /\ saves[j].kind # "whole" /\ UNCHANGED saves
             /\ Onward(j, [work[j] EXCEPT !.pc = "ensure",
                            !.picked = IF saves[j].want = {} THEN seen ELSE saves[j].want \cap seen])
    <3>1. (IF saves[j].want = {} THEN seen ELSE saves[j].want \cap seen) \in SUBSET Media
      BY <2>2
    <3> QED
      BY <2>5, <2>6, <2>8, <3>1
  <2> QED
    BY <2>1, <2>4, <2>7, <2>8
<1>3. CASE EnsureDir(j)
  <2>1. work[j].pc = "ensure" /\ UNCHANGED <<offer, saves, folders, drive, aria, mishaps>>
    BY <1>3 DEF EnsureDir, Step
  <2>2. saves[j].kind = "save"
    BY <1>0, <2>1 DEF JobKept, AtItsStep
  <2>3. \/ work' = [work EXCEPT ![j] = [work[j] EXCEPT !.pc = "create"]]
        \/ \E d \in folders : work' = [work EXCEPT ![j] = [work[j] EXCEPT !.pc = "list", !.dir = d]]
    BY <1>3 DEF EnsureDir, Onward
  <2>4. ASSUME NEW d \in folders \cup {work[j].dir}, NEW pc \in {"create", "list"},
               work' = [work EXCEPT ![j] = [work[j] EXCEPT !.pc = pc, !.dir = d]]
        PROVE  SaveInv'
    <3>1. work' = [work EXCEPT ![j] = work'[j]] /\ work'[j] = [work[j] EXCEPT !.pc = pc, !.dir = d]
      BY <1>1, <2>4
    <3>2. work'[j] \in WorkRecord' /\ work'[j].pc = pc
      BY <1>0, <2>1, <3>1 DEF WorkRecord, SaveSteps
    <3> QED
      BY <1>0, <2>1, <2>2, <3>1, <3>2, GoesOnKeeps
  <2>5. [work[j] EXCEPT !.pc = "create"] = [work[j] EXCEPT !.pc = "create", !.dir = work[j].dir]
    BY <1>0 DEF WorkRecord
  <2> QED
    BY <2>3, <2>4, <2>5
<1>4. CASE create_dir(j)
  <2> DEFINE d == Cardinality(folders) + 1
  <2>1. /\ work[j].pc = "create" /\ UNCHANGED <<offer, saves, drive, aria, mishaps>>
        /\ folders' = folders \cup {d} /\ work' = [work EXCEPT ![j] = [work[j] EXCEPT !.pc = "list", !.dir = d]]
    BY <1>4 DEF create_dir, Step, Onward
  <2>2. d \in Nat /\ IsFiniteSet(folders \cup {d})
    BY <1>0, FS_CardinalityType, FS_AddElement
  <2> HIDE DEF d
  <2>3. saves[j].kind = "save"
    BY <1>0, <2>1 DEF JobKept, AtItsStep
  <2>4. work' = [work EXCEPT ![j] = work'[j]] /\ work'[j] \in WorkRecord' /\ work'[j].pc = "list"
    BY <1>0, <1>1, <2>1 DEF WorkRecord, SaveSteps
  <2> QED
    BY <1>0, <2>1, <2>2, <2>3, <2>4, GoesOnKeeps
<1>5. CASE ListTarget(j)
  <2>1. work[j].pc = "list" /\ UNCHANGED <<offer, folders, drive, aria, mishaps>>
    BY <1>5 DEF ListTarget, Step
  <2>2. CASE Fails(j)
    BY <1>0, <2>1, <2>2, FailsKeeps
  <2>3. CASE ~Clash(j) /\ Goes(j, "send")
    <3>1. /\ work' = [work EXCEPT ![j] = work'[j]] /\ UNCHANGED saves
          /\ work'[j] = [work[j] EXCEPT !.pc = "send"]
      BY <1>1, <2>3 DEF Goes, Onward
    <3>2. /\ work'[j] \in WorkRecord' /\ work'[j].pc = "send"
          /\ work'[j].dir = work[j].dir /\ work'[j].picked = work[j].picked
      BY <1>0, <2>1, <3>1 DEF WorkRecord, SaveSteps
    <3>3. \A i \in drive : i.in = work[j].dir => i.of \notin work[j].picked
      BY <2>3 DEF Clash, Items
    <3> QED
      BY <1>0, <2>1, <3>1, <3>2, <3>3, GoesOnKeeps
  <2> QED
    BY <1>5, <2>2, <2>3 DEF ListTarget
<1>6. CASE Relist(j)
  <2> DEFINE seen == IF saves[j].kind = "whole" THEN offer ELSE work[j].picked \cap offer
  <2>1. work[j].pc = "send" /\ UNCHANGED <<offer, folders, drive, aria, mishaps>>
    BY <1>6 DEF Relist, Step
  <2>2. CASE Fails(j)
    BY <1>0, <2>1, <2>2, FailsKeeps
  <2>3. CASE /\ saves[j].kind = "save" => seen = work[j].picked
             /\ Onward(j, [work[j] EXCEPT !.pc = "save", !.picked = seen]) /\ UNCHANGED saves
    <3>1. seen \subseteq Media
      BY <1>0 DEF WorkRecord
    <3> HIDE DEF seen
    <3>2. /\ work' = [work EXCEPT ![j] = work'[j]] /\ UNCHANGED saves
          /\ work'[j] = [work[j] EXCEPT !.pc = "save", !.picked = seen]
      BY <1>1, <2>3 DEF Onward
    <3>3. /\ work'[j] \in WorkRecord' /\ work'[j].pc = "save"
          /\ work'[j].dir = work[j].dir /\ work'[j].picked = seen
      BY <1>0, <2>1, <3>1, <3>2 DEF WorkRecord, SaveSteps
    <3>4. saves[j].kind = "save" =>
            \A i \in drive : i.in = work[j].dir /\ i.by = saves[j].chain => i.of \notin seen
      BY <1>0, <2>1, <2>3 DEF JobKept, NotYet
    <3> QED
      BY <1>0, <2>1, <3>2, <3>3, <3>4, GoesOnKeeps
  <2> QED
    BY <1>6, <2>2, <2>3 DEF Relist
<1> QED
  BY <1>2, <1>3, <1>4, <1>5, <1>6

\* The copy, and the note of it.
LEMMA SavedKeeps == ASSUME SaveInv, NEW j \in Numbers, Saved(j) PROVE SaveInv'
<1>0. /\ work[j] \in WorkRecord /\ saves[j] \in SaveRecord /\ JobKept(j) /\ IsFiniteSet(folders)
      /\ folders \subseteq Nat /\ mishaps \in 0..MaxMishaps
  BY OfTheJob
<1>1. /\ work[j].pc = "save" /\ Copies(j) /\ UNCHANGED <<offer, saves, folders, aria, mishaps>>
      /\ work' = [work EXCEPT ![j] = [work[j] EXCEPT !.pc = "record"]]
  BY DEF Saved, Step, Onward
<1>2. drive \subseteq drive'
  BY <1>1 DEF Copies
<1>3. work' = [work EXCEPT ![j] = work'[j]] /\ work'[j] = [work[j] EXCEPT !.pc = "record"]
  BY <1>1 DEF SaveInv, SaveTypeOK
<1>4. /\ work'[j] \in WorkRecord' /\ work'[j].pc = "record"
      /\ work'[j].dir = work[j].dir /\ work'[j].picked = work[j].picked
  BY <1>0, <1>1, <1>2, <1>3 DEF WorkRecord, SaveSteps
<1>5. saves' = [saves EXCEPT ![j] = saves'[j]] /\ saves'[j] \in SaveRecord' /\ saves'[j] = saves[j]
  BY <1>0, <1>1, <1>2 DEF SaveInv, SaveTypeOK, SaveRecord
<1>6. Own(j)' = {Copy(j, f)' : f \in work'[j].picked}
  <2>1. Own(j) = {}
    BY <1>0, <1>1 DEF JobKept, Accounted
  <2>2. drive' = drive \cup {Copy(j, f) : f \in work[j].picked}
    BY <1>1 DEF Copies, Copy
  <2>3. \A f : Copy(j, f).job = j /\ Copy(j, f)' = Copy(j, f)
    BY <1>4, <1>5 DEF Copy
  <2> QED
    BY <2>1, <2>2, <2>3, <1>4 DEF Own
<1>7. JobKept(j)'
  BY <1>0, <1>1, <1>4, <1>5, <1>6 DEF JobKept, Accounted, NotYet, AtItsStep
<1> QED
  BY <1>0, <1>1, <1>4, <1>5, <1>3, <1>7, StepKeeps

\* A handler fails or is cut at its copy or anywhere else.
LEMMA FailureKeeps ==
  ASSUME SaveInv, NEW j \in Numbers, SaveFails(j) \/ TimesOut(j)
  PROVE  SaveInv'
<1>0. mishaps \in 0..MaxMishaps /\ MaxMishaps \in Nat
  BY OfTheJob
<1>1. mishaps' \in 0..MaxMishaps
  BY <1>0 DEF SaveFails, TimesOut, Mishap
<1>2. /\ work[j].pc # "none" /\ Fails(j) /\ UNCHANGED <<folders, aria, offer>>
      /\ UNCHANGED drive \/ (work[j].pc = "save" /\ Copies(j))
  BY DEF SaveFails, TimesOut, Step
<1> QED
  BY <1>1, <1>2, FailsKeeps

\* The result is written: a whole share ends here, chosen files are looked up.
LEMMA RecordKeeps == ASSUME SaveInv, NEW j \in Numbers, RecordSave(j) PROVE SaveInv'
<1>0. /\ work[j] \in WorkRecord /\ saves[j] \in SaveRecord /\ JobKept(j) /\ IsFiniteSet(folders)
      /\ folders \subseteq Nat /\ mishaps \in 0..MaxMishaps
  BY OfTheJob
<1>1. work[j].pc = "record" /\ UNCHANGED <<offer, folders, drive, aria, mishaps>>
  BY DEF RecordSave, Step
<1>2. CASE /\ saves[j].kind = "whole" /\ work' = [work EXCEPT ![j] = NoWork]
           /\ saves' = [saves EXCEPT ![j].status = "succeeded", ![j].kept = TRUE]
  <2>1. saves'[j] = [saves[j] EXCEPT !.status = "succeeded", !.kept = TRUE] /\ work'[j] = NoWork
    BY <1>2 DEF SaveInv, SaveTypeOK
  <2>2. saves' = [saves EXCEPT ![j] = saves'[j]] /\ work' = [work EXCEPT ![j] = work'[j]]
    BY <1>2, <2>1 DEF SaveInv, SaveTypeOK
  <2>3. /\ saves'[j].kind = saves[j].kind /\ saves'[j].want = saves[j].want
        /\ saves'[j].chain = saves[j].chain /\ saves'[j].status = "succeeded"
    BY <1>0, <2>1 DEF SaveRecord
  <2>4. saves'[j] \in SaveRecord' /\ work'[j] \in WorkRecord'
    <3>1. [saves[j] EXCEPT !.status = "succeeded", !.kept = TRUE] \in SaveRecord
      BY <1>0 DEF SaveRecord
    <3>2. UNCHANGED <<SaveRecord, WorkRecord>>
      BY <1>1 DEF SaveRecord, WorkRecord
    <3>3. NoWork \in WorkRecord
      BY DEF WorkRecord, NoWork, SaveSteps
    <3> QED
      BY <2>1, <3>1, <3>2, <3>3
  <2>5. JobKept(j)'
    BY <1>0, <1>1, <1>2, <2>1, <2>3 DEF JobKept, Accounted, NotYet, AtItsStep, NoWork
  <2> QED
    BY <1>0, <1>1, <2>2, <2>3, <2>4, <2>5, StepKeeps
<1>3. CASE /\ saves[j].kind # "whole" /\ saves' = [saves EXCEPT ![j].kept = TRUE]
           /\ work' = [work EXCEPT ![j] = [work[j] EXCEPT !.pc = "resolve"]]
  <2>1. saves'[j] = [saves[j] EXCEPT !.kept = TRUE] /\ work'[j] = [work[j] EXCEPT !.pc = "resolve"]
    BY <1>3 DEF SaveInv, SaveTypeOK
  <2>2. saves' = [saves EXCEPT ![j] = saves'[j]] /\ work' = [work EXCEPT ![j] = work'[j]]
    BY <1>3, <2>1 DEF SaveInv, SaveTypeOK
  <2>3. /\ saves'[j].kind = saves[j].kind /\ saves'[j].want = saves[j].want /\ saves[j].kind = "save"
        /\ saves'[j].chain = saves[j].chain /\ saves'[j].status = saves[j].status /\ saves'[j].kept
    BY <1>0, <1>3, <2>1 DEF SaveRecord
  <2>4. /\ saves'[j] \in SaveRecord' /\ work'[j] \in WorkRecord' /\ work'[j].pc = "resolve"
        /\ work'[j].dir = work[j].dir /\ work'[j].picked = work[j].picked
    BY <1>0, <1>1, <2>1 DEF SaveRecord, WorkRecord, SaveSteps
  <2>5. Own(j)' = Own(j) /\ \A f : Copy(j, f)' = Copy(j, f)
    BY <1>1, <2>3, <2>4 DEF Own, Copy
  <2>6. JobKept(j)'
    BY <1>0, <1>1, <2>3, <2>4, <2>5 DEF JobKept, Accounted, NotYet, AtItsStep
  <2> QED
    BY <1>0, <1>1, <2>2, <2>3, <2>4, <2>6, StepKeeps
<1> QED
  BY <1>2, <1>3 DEF RecordSave, Onward

\* The look for what was saved finds this job's items, all of them, or none.
LEMMA ResolveKeeps == ASSUME SaveInv, NEW j \in Numbers, ResolveSaved(j) PROVE SaveInv'
<1>0. /\ work[j] \in WorkRecord /\ saves[j] \in SaveRecord /\ JobKept(j) /\ IsFiniteSet(folders)
      /\ folders \subseteq Nat /\ mishaps \in 0..MaxMishaps /\ MaxMishaps \in Nat
  BY OfTheJob
<1>1. work[j].pc = "resolve" /\ UNCHANGED <<offer, folders, drive, aria>>
  BY DEF ResolveSaved, Step
<1> DEFINE Found == UNION {Named(j, f) : f \in work[j].picked}
<1>2. PICK ok \in BOOLEAN :
        /\ ok => Resolvable(j)
        /\ UNCHANGED mishaps \/ Mishap
        /\ saves' = [saves EXCEPT ![j].files = IF ok THEN Found ELSE {}, ![j].errors = ~ok]
        /\ work' = [work EXCEPT ![j] = [work[j] EXCEPT !.pc = "download", !.todo = IF ok THEN Found ELSE {}]]
  BY Zenon DEF ResolveSaved, Onward
<1>3. Found \subseteq drive
  BY DEF Named, Items
<1>4. Own(j) = {Copy(j, f) : f \in work[j].picked} /\ saves[j].kind = "save" /\ saves[j].kept
  BY <1>0, <1>1 DEF JobKept, Accounted, AtItsStep
<1>5. ok => Found = Own(j)
  <2> SUFFICES ASSUME ok PROVE Found = Own(j)
    OBVIOUS
  <2>1. ASSUME NEW f \in work[j].picked PROVE Named(j, f) = {Copy(j, f)}
    <3>1. Copy(j, f) \in drive
      BY <1>4 DEF Own
    <3>2. Copy(j, f) \in Named(j, f)
      BY <3>1 DEF Named, Items, Copy
    <3> QED
      BY <1>2, <3>2 DEF Resolvable
  <2> QED
    BY <1>4, <2>1
<1> DEFINE files == IF ok THEN Found ELSE {}
<1>6. files \subseteq drive /\ \A i \in files : i.job = j
  BY <1>3, <1>5 DEF Own
<1>7. ok => Own(j) \subseteq files
  BY <1>5
<1>8. /\ saves' = [saves EXCEPT ![j].files = files, ![j].errors = ~ok]
      /\ work' = [work EXCEPT ![j] = [work[j] EXCEPT !.pc = "download", !.todo = files]]
  BY <1>2
<1> HIDE DEF files, Found
<1>9. /\ saves'[j] = [saves[j] EXCEPT !.files = files, !.errors = ~ok]
      /\ work'[j] = [work[j] EXCEPT !.pc = "download", !.todo = files]
      /\ saves' = [saves EXCEPT ![j] = saves'[j]] /\ work' = [work EXCEPT ![j] = work'[j]]
  BY <1>8 DEF SaveInv, SaveTypeOK
<1>10. /\ saves'[j].kind = saves[j].kind /\ saves'[j].want = saves[j].want
       /\ saves'[j].chain = saves[j].chain /\ saves'[j].status = saves[j].status
       /\ saves'[j].kept = saves[j].kept /\ saves'[j].errors = (~ok)
  BY <1>0, <1>9 DEF SaveRecord
<1>17. saves'[j].errors \/ Own(j) \subseteq files
  <2>1. CASE ok
    BY <1>7, <2>1
  <2>2. CASE ~ok
    BY <1>10, <2>2
  <2> QED
    BY <2>1, <2>2
<1>11. work'[j].pc = "download" /\ work'[j].todo = files
  BY <1>0, <1>9 DEF WorkRecord
<1>12. saves'[j] \in SaveRecord' /\ work'[j] \in WorkRecord'
  <2>1. [saves[j] EXCEPT !.files = files, !.errors = ~ok] \in SaveRecord
    BY <1>0, <1>6 DEF SaveRecord
  <2>2. [work[j] EXCEPT !.pc = "download", !.todo = files] \in WorkRecord
    BY <1>0, <1>6 DEF WorkRecord, SaveSteps
  <2>3. UNCHANGED <<SaveRecord, WorkRecord>>
    BY <1>1 DEF SaveRecord, WorkRecord
  <2> QED
    BY <1>9, <2>1, <2>2, <2>3
<1>13. UNCHANGED Own(j)
  BY <1>1 DEF Own
<1>14. saves[j].status = "running"
  BY <1>0, <1>1 DEF JobKept, AtItsStep
<1>15. JobKept(j)'
  BY <1>0, <1>4, <1>6, <1>17, <1>10, <1>11, <1>13, <1>14 DEF JobKept, Accounted, NotYet, AtItsStep
<1>16. mishaps' \in 0..MaxMishaps
  BY <1>0, <1>2 DEF Mishap
<1> QED
  BY <1>0, <1>1, <1>9, <1>10, <1>12, <1>15, <1>16, StepKeeps

\* A file is handed to Aria2 or reported; the last one ends the job.
LEMMA DownloadKeeps == ASSUME SaveInv, NEW j \in Numbers, NEW i \in drive, Download(j, i) PROVE SaveInv'
<1>0. /\ work[j] \in WorkRecord /\ saves[j] \in SaveRecord /\ JobKept(j) /\ IsFiniteSet(folders)
      /\ folders \subseteq Nat /\ mishaps \in 0..MaxMishaps /\ MaxMishaps \in Nat
  BY OfTheJob
<1>1. work[j].pc = "download" /\ i \in work[j].todo /\ UNCHANGED <<offer, folders, drive>>
  BY DEF Download, Step
<1>2. /\ UNCHANGED mishaps \/ Mishap
      /\ aria' = aria \cup {<<j, i>>} \/ aria' = aria
      /\ \/ saves' = [saves EXCEPT ![j].downs = saves[j].downs \cup {i}]
         \/ saves' = [saves EXCEPT ![j].errors = TRUE]
      /\ work' = [work EXCEPT ![j] = [work[j] EXCEPT !.todo = work[j].todo \ {i}]]
  BY DEF Download, Onward, SaveInv, SaveTypeOK
<1>3. /\ work'[j] = [work[j] EXCEPT !.todo = work[j].todo \ {i}]
      /\ work' = [work EXCEPT ![j] = work'[j]]
  BY <1>2 DEF SaveInv, SaveTypeOK
<1>4. work'[j].pc = "download" /\ work'[j].todo = work[j].todo \ {i}
  BY <1>0, <1>1, <1>3 DEF WorkRecord
<1>5. \/ saves'[j] = [saves[j] EXCEPT !.downs = saves[j].downs \cup {i}]
      \/ saves'[j] = [saves[j] EXCEPT !.errors = TRUE]
  BY <1>2 DEF SaveInv, SaveTypeOK
<1>6. saves' = [saves EXCEPT ![j] = saves'[j]]
  BY <1>2, <1>5 DEF SaveInv, SaveTypeOK
<1>7. /\ saves'[j].kind = saves[j].kind /\ saves'[j].want = saves[j].want
      /\ saves'[j].chain = saves[j].chain /\ saves'[j].status = saves[j].status
      /\ saves'[j].kept = saves[j].kept
      /\ saves'[j].errors \/ (saves'[j].errors = saves[j].errors /\ saves'[j].downs = saves[j].downs \cup {i})
  BY <1>0, <1>5 DEF SaveRecord
<1>8. saves'[j] \in SaveRecord' /\ work'[j] \in WorkRecord'
  <2>1. [saves[j] EXCEPT !.downs = saves[j].downs \cup {i}] \in SaveRecord
    BY <1>0 DEF SaveRecord
  <2>2. [saves[j] EXCEPT !.errors = TRUE] \in SaveRecord
    BY <1>0 DEF SaveRecord
  <2>3. [work[j] EXCEPT !.todo = work[j].todo \ {i}] \in WorkRecord
    BY <1>0 DEF WorkRecord
  <2>4. UNCHANGED <<SaveRecord, WorkRecord>>
    BY <1>1 DEF SaveRecord, WorkRecord
  <2> QED
    BY <1>3, <1>5, <2>1, <2>2, <2>3, <2>4
<1>9. UNCHANGED Own(j)
  BY <1>1 DEF Own
<1>10. saves[j].status = "running"
  BY <1>0, <1>1 DEF JobKept, AtItsStep
<1>11. JobKept(j)'
  BY <1>0, <1>1, <1>4, <1>7, <1>9, <1>10 DEF JobKept, Accounted, NotYet, AtItsStep
<1>12. mishaps' \in 0..MaxMishaps
  BY <1>0, <1>2 DEF Mishap
<1>13. i.job = j
  BY <1>0, <1>1 DEF JobKept, Accounted
<1>14. \A d \in aria' : d \in aria \/ (d[2] \in drive /\ d = <<j, d[2]>> /\ d[2].job = j)
  BY <1>2, <1>13
<1>15. work[j].pc # "none" /\ offer' \subseteq offer
  BY <1>1
<1> QED
  BY <1>0, <1>1, <1>3, <1>6, <1>7, <1>8, <1>11, <1>12, <1>14, <1>15, StepKeeps

\* The job ends when each of its files was handed over or reported.
LEMMA FinishKeeps == ASSUME SaveInv, NEW j \in Numbers, FinishSave(j) PROVE SaveInv'
<1>0. /\ work[j] \in WorkRecord /\ saves[j] \in SaveRecord /\ JobKept(j) /\ IsFiniteSet(folders)
      /\ folders \subseteq Nat /\ mishaps \in 0..MaxMishaps
  BY OfTheJob
<1>1. /\ work[j].pc = "download" /\ work[j].todo = {} /\ UNCHANGED <<offer, folders, drive, aria, mishaps>>
      /\ work' = [work EXCEPT ![j] = NoWork] /\ saves' = [saves EXCEPT ![j].status = "succeeded"]
  BY DEF FinishSave, Step, Onward
<1>2. saves'[j] = [saves[j] EXCEPT !.status = "succeeded"] /\ work'[j] = NoWork
  BY <1>1 DEF SaveInv, SaveTypeOK
<1>3. saves' = [saves EXCEPT ![j] = saves'[j]] /\ work' = [work EXCEPT ![j] = work'[j]]
  BY <1>1, <1>2 DEF SaveInv, SaveTypeOK
<1>4. /\ saves'[j].kind = saves[j].kind /\ saves'[j].want = saves[j].want
      /\ saves'[j].chain = saves[j].chain /\ saves'[j].status = "succeeded"
      /\ saves'[j].kept = saves[j].kept /\ saves'[j].errors = saves[j].errors
      /\ saves'[j].downs = saves[j].downs
  BY <1>0, <1>2 DEF SaveRecord
<1>5. saves'[j] \in SaveRecord' /\ work'[j] \in WorkRecord'
  BY <1>0, <1>1, <1>2 DEF SaveRecord, WorkRecord, NoWork, SaveSteps
<1>6. UNCHANGED Own(j)
  BY <1>1 DEF Own
<1>7. JobKept(j)'
  BY <1>0, <1>1, <1>2, <1>4, <1>6 DEF JobKept, Accounted, NotYet, AtItsStep, NoWork
<1> QED
  BY <1>0, <1>1, <1>3, <1>4, <1>5, <1>7, StepKeeps

\* A new request, or the retry of one: in a slot of its own, in the chain of the
\* job it retries, while no job of that request is at work.
LEMMA EnqueueKeeps ==
  ASSUME SaveInv, NEW kind \in {"save", "whole"}, NEW want \in SUBSET Media, NEW chain \in {0} \cup Numbers,
         chain # 0 => saves[chain].chain # 0 /\ \E k \in Numbers :
                        saves[k].chain = chain /\ RequestKey(k) = <<kind, want>>,
         Enqueue(kind, want, chain)
  PROVE  SaveInv'
<1>0. PICK j \in Numbers :
        /\ saves[j].status = "none"
        /\ \A k \in Numbers : saves[k].status = "running" => RequestKey(k) # <<kind, want>>
        /\ saves' = [saves EXCEPT ![j] = [NoSave EXCEPT !.status = "running", !.kind = kind, !.want = want,
                                            !.chain = IF chain = 0 THEN j ELSE chain]]
        /\ work' = [work EXCEPT ![j].pc = "probe"]
        /\ UNCHANGED <<offer, folders, drive, aria, mishaps>>
  BY DEF Enqueue
<1> DEFINE c == IF chain = 0 THEN j ELSE chain
<1>1. /\ saves[j] \in SaveRecord /\ work[j] \in WorkRecord /\ JobKept(j) /\ j \in Nat \ {0}
      /\ saves \in [Numbers -> SaveRecord] /\ work \in [Numbers -> WorkRecord]
  <2>1. j \in Nat \ {0}
    BY SaveAssumption DEF Numbers
  <2> QED
    BY <2>1, OfTheJob DEF SaveInv, SaveTypeOK, SaveRecord, WorkRecord
<1>2. c \in Numbers /\ c \in Nat \ {0}
  BY SaveAssumption DEF Numbers
<1>3. /\ saves'[j].status = "running" /\ saves'[j].kind = kind /\ saves'[j].want = want
      /\ saves'[j].chain = c /\ saves'[j] \in SaveRecord /\ saves'[j].kept = FALSE
  BY <1>0, <1>1, <1>2 DEF NoSave, SaveRecord
<1>4. work'[j] \in WorkRecord /\ work'[j].pc = "probe"
  BY <1>0, <1>1 DEF WorkRecord, SaveSteps
<1>5. \A k \in Numbers \ {j} : saves'[k] = saves[k] /\ work'[k] = work[k]
  BY <1>0, <1>1
<1>6. saves[j].chain = 0 /\ Own(j) = {}
  BY <1>0, <1>1 DEF JobKept, AtItsStep, Accounted
<1>7. chain # 0 => chain # j
  BY <1>6
<1>8. saves' \in [Numbers -> SaveRecord] /\ work' \in [Numbers -> WorkRecord]
  BY <1>0, <1>1, <1>3, <1>4, <1>5
<1>9. SaveTypeOK' /\ IsFiniteSet(folders')
  BY <1>0, <1>8 DEF SaveInv, SaveTypeOK, SaveRecord, WorkRecord
<1>10. \A k \in Numbers \ {j} : RequestKey(k)' = RequestKey(k)
  BY <1>5 DEF RequestKey
<1>11. RequestKey(j)' = <<kind, want>>
  BY <1>3 DEF RequestKey
<1>12. ASSUME NEW k \in Numbers, k # j, saves[k].chain = c PROVE RequestKey(k) = <<kind, want>>
  <2>1. CASE chain = 0
    BY <1>2, <1>6, <1>12, <2>1 DEF SaveInv, ChainIsOneRequest
  <2>2. CASE chain # 0
    <3>1. PICK n \in Numbers : saves[n].chain = chain /\ RequestKey(n) = <<kind, want>>
      BY <2>2
    <3> QED
      BY <2>2, <3>1, <1>12 DEF SaveInv, ChainIsOneRequest
  <2> QED
    BY <2>1, <2>2
<1> HIDE DEF c
<1>13. ChainIsOneRequest'
  <2>1. ASSUME NEW k \in Numbers, NEW n \in Numbers, saves'[k].chain # 0, saves'[k].chain = saves'[n].chain
        PROVE  RequestKey(k)' = RequestKey(n)'
    BY <1>3, <1>5, <1>10, <1>11, <1>12, <2>1 DEF SaveInv, ChainIsOneRequest
  <2>2. ASSUME NEW k \in Numbers, saves'[k].chain # 0
        PROVE  saves'[k].chain \in Numbers /\ saves'[saves'[k].chain].chain # 0
    <3>1. CASE k = j
      BY <1>2, <1>3, <1>5, <1>7, <3>1 DEF c
    <3>2. CASE k # j
      <4>1. saves[k].chain \in Numbers /\ saves[saves[k].chain].chain # 0 /\ saves'[k] = saves[k]
        BY <1>5, <2>2, <3>2 DEF SaveInv, ChainIsOneRequest
      <4>2. \A n \in Numbers : saves[n].chain # 0 => saves'[n].chain # 0
        BY <1>2, <1>3, <1>5
      <4> QED
        BY <4>1, <4>2
    <3> QED
      BY <3>1, <3>2
  <2>3. ASSUME NEW k \in Numbers, NEW n \in Numbers, saves'[k].status = "running",
               saves'[n].status = "running", RequestKey(k)' = RequestKey(n)'
        PROVE  k = n
    BY <1>0, <1>5, <1>10, <1>11, <2>3 DEF SaveInv, ChainIsOneRequest
  <2> QED
    BY <2>1, <2>2, <2>3 DEF ChainIsOneRequest
<1>18. saves[j].kind = "save"
  BY <1>0, <1>1 DEF JobKept, AtItsStep
<1>14. SavedOnce'
  <2>1. ASSUME NEW b, \A n \in Numbers : saves'[n].chain = b => saves'[n].kind = "save"
        PROVE  \A n \in Numbers : saves[n].chain = b => saves[n].kind = "save"
    BY <1>5, <1>6, <1>18, <2>1
  <2> QED
    BY <1>0, <2>1 DEF SaveInv, SavedOnce
<1>15. RightFile'
  BY <1>0 DEF SaveInv, RightFile
<1>16. JobKept(j)'
  BY <1>0, <1>2, <1>3, <1>4, <1>6 DEF JobKept, Accounted, NotYet, AtItsStep, Own
<1>17. \A k \in Numbers : JobKept(k)'
  BY <1>0, <1>5, <1>16, OthersKept
<1> QED
  BY <1>9, <1>13, <1>14, <1>15, <1>17 DEF SaveInv

\* The process ends, its calls carried out or not.
LEMMA CrashKeeps == ASSUME SaveInv, SaveCrash PROVE SaveInv'
<1>0. /\ saves \in [Numbers -> SaveRecord] /\ work \in [Numbers -> WorkRecord]
      /\ IsFiniteSet(folders) /\ mishaps \in 0..MaxMishaps /\ MaxMishaps \in Nat
  BY SaveAssumption DEF SaveInv, SaveTypeOK, SaveRecord, WorkRecord
<1>1. /\ mishaps' \in 0..MaxMishaps /\ UNCHANGED <<offer, folders, aria>>
      /\ work' = [j \in Numbers |-> NoWork]
      /\ saves' = [j \in Numbers |-> [saves[j] EXCEPT !.status = IF saves[j].status = "running" THEN "failed" ELSE saves[j].status]]
      /\ UNCHANGED drive \/ \E j \in Numbers : work[j].pc = "save" /\ Copies(j)
  BY <1>0 DEF SaveCrash, Mishap, Step
<1>2. ASSUME NEW k \in Numbers
      PROVE  /\ saves'[k].kind = saves[k].kind /\ saves'[k].want = saves[k].want
             /\ saves'[k].chain = saves[k].chain /\ saves'[k].kept = saves[k].kept
             /\ saves'[k].errors = saves[k].errors /\ saves'[k].downs = saves[k].downs
             /\ saves'[k].status = IF saves[k].status = "running" THEN "failed" ELSE saves[k].status
             /\ saves'[k] \in SaveRecord /\ work'[k] = NoWork
  <2>1. saves[k] \in SaveRecord
    BY <1>0
  <2>2. saves'[k] = [saves[k] EXCEPT !.status = IF saves[k].status = "running" THEN "failed" ELSE saves[k].status]
    BY <1>1
  <2> QED
    BY <1>1, <2>1, <2>2 DEF SaveRecord
<1>3. drive \subseteq drive' /\ drive' \subseteq [of : Media, in : folders \cup {0}, by : Nat, job : Numbers]
  <2>1. drive \subseteq [of : Media, in : folders \cup {0}, by : Nat, job : Numbers]
    BY DEF SaveInv, SaveTypeOK
  <2>2. ASSUME NEW j \in Numbers, Copies(j) PROVE drive' \subseteq [of : Media, in : folders \cup {0}, by : Nat, job : Numbers]
    <3>1. work[j].dir \in {0} \cup folders /\ work[j].picked \subseteq Media /\ saves[j].chain \in Nat
      BY <1>0 DEF WorkRecord, SaveRecord
    <3>2. \A f \in work[j].picked :
            [of |-> f, in |-> work[j].dir, by |-> saves[j].chain, job |-> j]
              \in [of : Media, in : folders \cup {0}, by : Nat, job : Numbers]
      BY <3>1
    <3> QED
      BY <2>1, <2>2, <3>2 DEF Copies
  <2> QED
    BY <1>1, <2>1, <2>2 DEF Copies
<1>4. SaveTypeOK'
  <2>1. saves' \in [Numbers -> SaveRecord]
    BY <1>1, <1>2
  <2>2. SaveRecord \subseteq SaveRecord'
    BY <1>3 DEF SaveRecord
  <2>3. NoWork \in WorkRecord'
    BY DEF NoWork, WorkRecord, SaveSteps
  <2>4. saves' \in [Numbers -> SaveRecord'] /\ work' \in [Numbers -> WorkRecord']
    BY <1>1, <2>1, <2>2, <2>3
  <2>5. aria' \subseteq Numbers \X drive'
    BY <1>1, <1>3 DEF SaveInv, SaveTypeOK
  <2> QED
    BY <1>1, <1>3, <2>4, <2>5 DEF SaveInv, SaveTypeOK, SaveRecord, WorkRecord
<1>5. ChainIsOneRequest'
  BY <1>2, RequestsKept
<1>6. SavedOnce'
  <2>1. CASE UNCHANGED drive
    BY <1>2, <2>1 DEF SaveInv, SavedOnce
  <2>2. ASSUME NEW j \in Numbers, work[j].pc = "save", Copies(j) PROVE SavedOnce'
    BY <1>2, <2>2, CopiedOnce
  <2> QED
    BY <1>1, <2>1, <2>2
<1>7. ASSUME NEW k \in Numbers PROVE JobKept(k)'
  <2>1. JobKept(k)
    BY DEF SaveInv
  <2>2. saves[k].status # "running" => Own(k)' = Own(k)
    <3>1. ASSUME NEW j \in Numbers, work[j].pc = "save", Copies(j), saves[k].status # "running"
          PROVE  Own(k)' = Own(k)
      <4>1. j # k
        BY <2>1, <3>1 DEF JobKept, AtItsStep
      <4> QED
        BY <3>1, <4>1 DEF Own, Copies
    <3> QED
      BY <1>1, <3>1 DEF Own
  <2> QED
    BY <1>2, <2>1, <2>2 DEF JobKept, Accounted, NotYet, AtItsStep, NoWork
<1> QED
  BY <1>0, <1>1, <1>4, <1>5, <1>6, <1>7 DEF SaveInv, RightFile

\* Every step of a save keeps the invariant.
LEMMA SaveStep == ASSUME SaveInv, [SaveNext]_savars PROVE SaveInv'
<1>1. CASE transfer_share
  <2>1. PICK want \in Selections, kind \in {"save", "whole"} : Enqueue(kind, want, 0)
    BY <1>1 DEF transfer_share
  <2> QED
    BY <2>1, EnqueueKeeps, SaveAssumption
<1>2. CASE SaveCrash
  BY <1>2, CrashKeeps
<1>3. CASE \E f \in Media : Withdrawn(f)
  <2>1. offer' \subseteq Media /\ UNCHANGED <<saves, work, folders, drive, aria, mishaps>>
    BY <1>3 DEF Withdrawn, SaveInv, SaveTypeOK
  <2> QED
    BY <2>1 DEF SaveInv, SaveTypeOK, ChainIsOneRequest, RequestKey, SavedOnce, RightFile, JobKept,
                Accounted, NotYet, AtItsStep, Own, Copy
<1>4. ASSUME NEW j \in Numbers, RetrySave(j) PROVE SaveInv'
  <2>1. saves[j] \in SaveRecord /\ JobKept(j)
    BY OfTheJob
  <2>2. saves[j].status = "failed" /\ Enqueue(saves[j].kind, saves[j].want, saves[j].chain)
    BY <1>4 DEF RetrySave
  <2>3. saves[j].chain # 0 /\ saves[j].chain \in Numbers /\ saves[saves[j].chain].chain # 0
    BY <2>1, <2>2 DEF JobKept, AtItsStep, SaveInv, ChainIsOneRequest
  <2>4. saves[j].kind \in {"save", "whole"} /\ saves[j].want \in SUBSET Media
    BY <2>1 DEF SaveRecord
  <2>5. RequestKey(j) = <<saves[j].kind, saves[j].want>>
    BY DEF RequestKey
  <2> QED
    BY <2>2, <2>3, <2>4, <2>5, EnqueueKeeps
<1>5. ASSUME NEW j \in Numbers,
             \/ ProbeShare(j) \/ EnsureDir(j) \/ create_dir(j) \/ ListTarget(j) \/ Relist(j)
             \/ Saved(j) \/ SaveFails(j) \/ RecordSave(j) \/ ResolveSaved(j) \/ FinishSave(j)
             \/ TimesOut(j) \/ \E i \in drive : Download(j, i)
      PROVE  SaveInv'
  BY <1>5, BeforeTheCopy, SavedKeeps, FailureKeeps, RecordKeeps, ResolveKeeps, FinishKeeps, DownloadKeeps
<1>6. CASE UNCHANGED savars
  BY <1>6 DEF savars, SaveInv, SaveTypeOK, ChainIsOneRequest, RequestKey, SavedOnce, RightFile, JobKept,
              Accounted, NotYet, AtItsStep, Own, Copy
<1> QED
  BY <1>1, <1>2, <1>3, <1>4, <1>5, <1>6 DEF SaveNext

\* A save by hand, whatever answers were lost and however often it was cut and
\* retried: copied once to a directory, the right file for Aria2, and a result
\* that tells (jobs/worker/media_save.rs, services/media_save.rs).
THEOREM SaveIsSound == CloudSpec => []SaveSound
<1>1. CloudInit => SaveInv
  BY SaveStart DEF CloudInit
<1>2. SaveInv /\ [CloudNext]_cloudvars => SaveInv'
  BY SaveStep DEF CloudNext, cloudvars, Transfer
<1>3. SaveInv => SaveSound
  BY DEF SaveInv, SaveSound, ResultTells, JobKept, Accounted, Own
<1> QED
  BY <1>1, <1>2, <1>3, PTL DEF CloudSpec

----------------------------------------------------------------------------
(* The walk over a share. *)

WalkState ==
  [pc : {"token", "page", "visit", "ok", "partial", "bad", "locked", "error", "rate_limited"},
   dir : DOMAIN tree, page : 1..MaxPages, attempt : Nat, got : Seq(Entries)]
WalkTypes ==
  /\ tree \in Trees /\ access \in {"open", "locked", "gone"} /\ outages \in Nat
  /\ walk \in WalkState /\ queue \in Seq(Entries) /\ found \in Seq(Entries)
  /\ Len(found) <= MaxFiles /\ flags \in [partial : BOOLEAN, truncated : BOOLEAN]

Seen == found \o queue                          \* what was listed, in order
Opened(d) == d = Root \/ d \in Range(found)     \* its listing was begun, or left out
Walking == walk.pc \in {"token", "page", "visit"}
Listing(d) == walk.pc \in {"token", "page"} /\ d = walk.dir

\* Each entry is seen once, from the listing of its directory.
SeenOnce ==
  /\ IsInjective(Seen)
  /\ \A e \in Range(Seen) : \E d \in DOMAIN tree : e \in Range(tree[d]) /\ Opened(d) /\ ~Listing(d)
  /\ walk.pc = "token" => Seen = <<>> /\ walk.dir = Root /\ walk.page = 1
\* The pages so far are the beginning of the directory.
PagesSoFar ==
  walk.pc \in {"token", "page"} =>
    LET n == (walk.page - 1) * PageSize IN
      Opened(walk.dir) /\ n \in 0..Len(tree[walk.dir]) /\ walk.got = SubSeq(tree[walk.dir], 1, n)
\* As long as nothing was cut off, what was opened was seen completely.
SeenWhole ==
  Walking /\ ~flags.partial /\ ~flags.truncated =>
    \A d \in DOMAIN tree : Opened(d) /\ ~Listing(d) => Range(tree[d]) \subseteq Range(Seen)
\* Why something was cut off.
LongDirectory == \E d \in DOMAIN tree : Len(tree[d]) >= PageSize * MaxPages
LastIsDirectory == Len(found) = MaxFiles /\ found # <<>> /\ Last(found) \in DOMAIN tree
CutOff ==
  /\ flags.partial => outages > 0 \/ access = "gone" \/ LongDirectory
  /\ flags.truncated /\ Walking => walk.pc = "visit" /\ LastIsDirectory
Outcome ==
  /\ walk.pc = "ok" => Range(found) = Entries
  /\ walk.pc = "bad" => access = "gone"
  /\ walk.pc \in {"error", "rate_limited"} => outages > 0
  /\ walk.pc = "partial" =>
       Range(found) # Entries \/ outages > 0 \/ access = "gone" \/ LongDirectory \/ LastIsDirectory

WalkInv == WalkTypes /\ SeenOnce /\ PagesSoFar /\ SeenWhole /\ CutOff /\ Outcome

\* Sequences: what a concatenation holds, and when it holds nothing twice.
LEMMA RangeOfConcat ==
  ASSUME NEW S, NEW s \in Seq(S), NEW t \in Seq(S)
  PROVE  Range(s \o t) = Range(s) \cup Range(t)
<1>1. /\ DOMAIN s = 1..Len(s) /\ DOMAIN t = 1..Len(t) /\ DOMAIN (s \o t) = 1..(Len(s) + Len(t))
      /\ Len(s) \in Nat /\ Len(t) \in Nat
      /\ \A i \in 1..(Len(s) + Len(t)) : (s \o t)[i] = IF i <= Len(s) THEN s[i] ELSE t[i - Len(s)]
  BY ConcatProperties, LenProperties
<1>2. ASSUME NEW i \in 1..(Len(s) + Len(t)) PROVE (s \o t)[i] \in Range(s) \cup Range(t)
  <2>1. CASE i <= Len(s)
    BY <1>1, <2>1 DEF Range
  <2>2. CASE i > Len(s)
    <3>1. i - Len(s) \in 1..Len(t)
      BY <1>1, <2>2
    <3> QED
      BY <1>1, <2>2, <3>1 DEF Range
  <2> QED
    BY <1>1, <2>1, <2>2
<1>3. \A i \in 1..Len(s) : i \in 1..(Len(s) + Len(t)) /\ (s \o t)[i] = s[i]
  BY <1>1
<1>4. \A i \in 1..Len(t) : i + Len(s) \in 1..(Len(s) + Len(t)) /\ (s \o t)[i + Len(s)] = t[i]
  BY <1>1
<1>5. Range(s \o t) \subseteq Range(s) \cup Range(t)
  <2>1. ASSUME NEW x \in Range(s \o t) PROVE x \in Range(s) \cup Range(t)
    <3>1. PICK i \in DOMAIN (s \o t) : x = (s \o t)[i]
      BY <2>1 DEF Range
    <3> QED
      BY <1>1, <1>2, <3>1
  <2> QED
    BY <2>1
<1>6. Range(s) \subseteq Range(s \o t)
  BY <1>1, <1>3, Zenon DEF Range
<1>7. Range(t) \subseteq Range(s \o t)
  <2>1. ASSUME NEW i \in 1..Len(t) PROVE t[i] \in Range(s \o t)
    BY <1>1, <1>4, Zenon DEF Range
  <2> QED
    BY <1>1, <2>1, Zenon DEF Range
<1> QED
  BY <1>5, <1>6, <1>7

\* A concatenation repeats nothing when its parts do not and have nothing in common.
LEMMA InjectiveConcat ==
  ASSUME NEW S, NEW s \in Seq(S), NEW t \in Seq(S)
  PROVE  IsInjective(s \o t) <=>
           IsInjective(s) /\ IsInjective(t) /\ Range(s) \cap Range(t) = {}
<1>1. /\ DOMAIN s = 1..Len(s) /\ DOMAIN t = 1..Len(t) /\ DOMAIN (s \o t) = 1..(Len(s) + Len(t))
      /\ Len(s) \in Nat /\ Len(t) \in Nat
      /\ \A i \in 1..(Len(s) + Len(t)) : (s \o t)[i] = IF i <= Len(s) THEN s[i] ELSE t[i - Len(s)]
  BY ConcatProperties, LenProperties
<1>2. \A i \in 1..Len(s) : i \in 1..(Len(s) + Len(t)) /\ (s \o t)[i] = s[i]
  BY <1>1
<1>3. \A i \in 1..Len(t) : i + Len(s) \in 1..(Len(s) + Len(t)) /\ (s \o t)[i + Len(s)] = t[i]
  BY <1>1
<1>4. ASSUME IsInjective(s \o t)
      PROVE  IsInjective(s) /\ IsInjective(t) /\ Range(s) \cap Range(t) = {}
  <2>1. IsInjective(s)
    BY <1>1, <1>2, <1>4 DEF IsInjective
  <2>2. \A i, k \in 1..Len(t) : t[i] = t[k] => i + Len(s) = k + Len(s)
    BY <1>1, <1>3, <1>4 DEF IsInjective
  <2>3. IsInjective(t)
    BY <1>1, <2>2 DEF IsInjective
  <2>4. \A i \in 1..Len(s), k \in 1..Len(t) : s[i] = t[k] => i = k + Len(s)
    BY <1>1, <1>2, <1>3, <1>4 DEF IsInjective
  <2>5. Range(s) \cap Range(t) = {}
    BY <1>1, <2>4 DEF Range
  <2> QED
    BY <2>1, <2>3, <2>5
<1>5. ASSUME IsInjective(s), IsInjective(t), Range(s) \cap Range(t) = {}
      PROVE  IsInjective(s \o t)
  <2>1. ASSUME NEW i \in 1..(Len(s) + Len(t)), NEW k \in 1..(Len(s) + Len(t)), (s \o t)[i] = (s \o t)[k]
        PROVE  i = k
    <3>1. CASE i <= Len(s) /\ k <= Len(s)
      BY <1>1, <1>5, <2>1, <3>1 DEF IsInjective
    <3>2. CASE i > Len(s) /\ k > Len(s)
      <4>1. i - Len(s) \in 1..Len(t) /\ k - Len(s) \in 1..Len(t)
        BY <1>1, <3>2
      <4>2. t[i - Len(s)] = t[k - Len(s)]
        BY <1>1, <2>1, <3>2
      <4>3. i - Len(s) = k - Len(s)
        BY <1>1, <1>5, <4>1, <4>2 DEF IsInjective
      <4> QED
        BY <1>1, <4>3
    <3>3. CASE i <= Len(s) /\ k > Len(s)
      <4>1. i \in 1..Len(s) /\ k - Len(s) \in 1..Len(t) /\ s[i] = t[k - Len(s)]
        BY <1>1, <2>1, <3>3
      <4> QED
        BY <1>1, <1>5, <4>1 DEF Range
    <3>4. CASE i > Len(s) /\ k <= Len(s)
      <4>1. k \in 1..Len(s) /\ i - Len(s) \in 1..Len(t) /\ s[k] = t[i - Len(s)]
        BY <1>1, <2>1, <3>4
      <4> QED
        BY <1>1, <1>5, <4>1 DEF Range
    <3> QED
      BY <1>1, <3>1, <3>2, <3>3, <3>4
  <2> QED
    BY <1>1, <2>1 DEF IsInjective
<1> QED
  BY <1>4, <1>5

\* The head of the queue moves to the end of what was visited.
LEMMA HeadMoves ==
  ASSUME NEW S, NEW s \in Seq(S), NEW t \in Seq(S), t # <<>>
  PROVE  /\ Append(s, Head(t)) \in Seq(S) /\ Tail(t) \in Seq(S)
         /\ Append(s, Head(t)) \o Tail(t) = s \o t
         /\ Range(Append(s, Head(t))) = Range(s) \cup {Head(t)} /\ Head(t) \in Range(t)
<1> DEFINE h == <<Head(t)>> r == Tail(t)
<1>1. Append(s, Head(t)) = s \o h /\ h \in Seq(S) /\ r \in Seq(S) /\ Head(t) \in S
  BY HeadTailProperties
<1>2. h \o r = t
  OBVIOUS
<1>3. Range(h) = {Head(t)}
  BY DEF Range
<1> HIDE DEF h, r
<1>4. (s \o h) \o r = s \o (h \o r)
  BY <1>1, ConcatAssociative
<1>5. Range(s \o h) = Range(s) \cup Range(h) /\ Range(h \o r) = Range(h) \cup Range(r)
  BY <1>1, RangeOfConcat
<1>6. s \o h \in Seq(S)
  BY <1>1, ConcatProperties
<1>7. Append(s, Head(t)) \o r = s \o t
  BY <1>1, <1>2, <1>4
<1> QED
  BY <1>1, <1>2, <1>3, <1>5, <1>6, <1>7 DEF r

\* The beginning of a sequence.
LEMMA Beginning ==
  ASSUME NEW S, NEW s \in Seq(S), NEW n \in 0..Len(s)
  PROVE  /\ SubSeq(s, 1, n) \in Seq(S) /\ Len(SubSeq(s, 1, n)) = n
         /\ Range(SubSeq(s, 1, n)) \subseteq Range(s)
         /\ IsInjective(s) => IsInjective(SubSeq(s, 1, n))
<1>1. \A i \in 1..n : s[i] \in S /\ i \in 1..Len(s)
  BY LenProperties, ElementOfSeq
<1>2. /\ SubSeq(s, 1, n) \in Seq(S) /\ Len(SubSeq(s, 1, n)) = n
      /\ \A i \in 1..n : SubSeq(s, 1, n)[i] = s[i]
  BY <1>1, LenProperties, SubSeqProperties
<1>3. DOMAIN SubSeq(s, 1, n) = 1..n /\ DOMAIN s = 1..Len(s)
  BY <1>2, LenProperties
<1> QED
  BY <1>1, <1>2, <1>3 DEF Range, IsInjective

\* What the shape of a share says of the one that is walked.
LEMMA TreeFacts ==
  ASSUME WalkTypes
  PROVE  /\ Root \in DOMAIN tree /\ Root \notin Entries
         /\ \A d \in DOMAIN tree : tree[d] \in Seq(Entries) /\ IsInjective(tree[d]) /\ Range(tree[d]) \subseteq Entries
         /\ \A d, e \in DOMAIN tree : Range(tree[d]) \cap Range(tree[e]) # {} => d = e
         /\ PageSize \in Nat \ {0} /\ MaxPages \in Nat \ {0} /\ MaxFiles \in Nat \ {0}
         /\ MaxAttempts_ \in Nat \ {0} /\ MaxOutages \in Nat
<1>1. tree \in Trees
  BY DEF WalkTypes
<1>2. Root \in DOMAIN tree /\ \A d \in DOMAIN tree : tree[d] \in Seq(Entries)
  BY <1>1, WalkAssumption DEF Entries
<1>3. \A d, e \in DOMAIN tree : \A m \in DOMAIN tree[d], n \in DOMAIN tree[e] :
        tree[d][m] = tree[e][n] => d = e /\ m = n
  BY <1>1, TreeAssumption, Zenon
<1>4. \A d \in DOMAIN tree : Root \notin Range(tree[d])
  BY <1>1, TreeAssumption, Zenon
<1>5. \A d \in DOMAIN tree : IsInjective(tree[d]) /\ Range(tree[d]) \subseteq Entries
  BY <1>3 DEF IsInjective, Entries
<1>6. \A d, e \in DOMAIN tree : Range(tree[d]) \cap Range(tree[e]) # {} => d = e
  BY <1>3 DEF Range
<1>7. Root \notin Entries
  BY <1>4 DEF Entries
<1> QED
  BY <1>2, <1>5, <1>6, <1>7, WalkAssumption

\* A walk that has opened every directory it saw, and seen all each holds, has
\* seen everything.
LEMMA AllIsSeen ==
  ASSUME WalkTypes,
         \A d \in DOMAIN tree : Opened(d) => Range(tree[d]) \subseteq Range(found)
  PROVE  Entries \subseteq Range(found)
<1> DEFINE D == {d \in DOMAIN tree : Opened(d)}
<1>1. Root \in D
  BY TreeFacts DEF Opened
<1>2. \A d \in D : Range(tree[d]) \cap DOMAIN tree \subseteq D
  BY DEF Opened
<1>3. tree \in Trees /\ D \in SUBSET DOMAIN tree
  BY DEF WalkTypes
<1> HIDE DEF D
<1>4. D = DOMAIN tree
  BY <1>1, <1>2, <1>3, TreeAssumption, Zenon
<1> QED
  BY <1>4 DEF D, Entries

\* At the start nothing was seen, and the root is to be listed.
LEMMA WalkStart == WalkInit => WalkInv
<1> SUFFICES ASSUME WalkInit PROVE WalkInv
  OBVIOUS
<1>1. Root \in DOMAIN tree /\ MaxFiles \in Nat \ {0} /\ 1 \in 1..MaxPages /\ PageSize \in Nat \ {0}
      /\ tree[Root] \in Seq(Entries)
  BY WalkAssumption DEF WalkInit, Entries
<1>2. <<>> \in Seq(Entries) /\ Len(<<>>) = 0 /\ <<>> \o <<>> = <<>>
  OBVIOUS
<1>3. WalkTypes
  BY <1>1, <1>2 DEF WalkInit, WalkTypes, WalkState
<1>4. SeenOnce
  BY <1>2 DEF WalkInit, SeenOnce, Seen, IsInjective, Range
<1>5. PagesSoFar
  <2>1. (1 - 1) * PageSize = 0 /\ SubSeq(tree[Root], 1, 0) = <<>> /\ Len(tree[Root]) \in Nat
    BY <1>1, SubSeqEmpty
  <2> QED
    BY <2>1 DEF WalkInit, PagesSoFar, Opened
<1>6. SeenWhole
  BY <1>2 DEF WalkInit, SeenWhole, Opened, Listing, Range
<1> QED
  BY <1>3, <1>4, <1>5, <1>6 DEF WalkInit, WalkInv, CutOff, Outcome

\* The walk ends without having listed everything.
LEMMA EndsKeeps ==
  ASSUME WalkInv, Walking, NEW state \in {"bad", "locked", "error", "rate_limited"}, Ends(state),
         UNCHANGED <<tree, found>>, access' \in {"open", "locked", "gone"}, outages' \in Nat,
         access = "gone" => access' = "gone", outages' >= outages,
         state = "bad" => access' = "gone", state \in {"error", "rate_limited"} => outages' > 0
  PROVE  WalkInv'
<1>1. walk \in WalkState /\ outages \in Nat
  BY DEF WalkInv, WalkTypes
<1>2. walk' = [walk EXCEPT !.pc = state] /\ UNCHANGED <<queue, flags, tree, found>>
  BY DEF Ends
<1>3. walk'.pc = state /\ walk'.dir = walk.dir /\ walk' \in WalkState
  BY <1>1, <1>2 DEF WalkState
<1>4. UNCHANGED <<Seen, Entries>> /\ \A d : Opened(d)' = Opened(d)
  BY <1>2 DEF Seen, Entries, Opened
<1>5. WalkTypes'
  BY <1>2, <1>3, <1>4 DEF WalkInv, WalkTypes, WalkState
<1>6. SeenOnce'
  <2>1. \A d : ~Listing(d)'
    BY <1>3 DEF Listing
  <2>2. \A d : Opened(d) => Opened(d)'
    BY <1>4
  <2> QED
    BY <1>2, <1>3, <1>4, <2>1, <2>2 DEF WalkInv, SeenOnce
<1>7. PagesSoFar' /\ SeenWhole'
  BY <1>3 DEF PagesSoFar, SeenWhole, Walking
<1>8. CutOff'
  BY <1>1, <1>2, <1>3 DEF WalkInv, CutOff, Walking, LongDirectory
<1>9. Outcome'
  BY <1>3 DEF Outcome
<1> QED
  BY <1>5, <1>6, <1>7, <1>8, <1>9 DEF WalkInv

\* list_files returns the beginning of the directory: all of it, or a warning.
LEMMA ListedKeeps ==
  ASSUME WalkInv, walk.pc = "page", NEW n \in 0..Len(tree[walk.dir]), NEW warning \in BOOLEAN,
         Listed(SubSeq(tree[walk.dir], 1, n), warning), warning \/ n = Len(tree[walk.dir]),
         UNCHANGED <<tree, found, access>>, outages' \in Nat, outages' >= outages,
         warning => outages' > 0 \/ access = "gone" \/ LongDirectory,
         warning /\ n = 0 => access = "gone"
  PROVE  WalkInv'
<1> DEFINE entries == SubSeq(tree[walk.dir], 1, n)
<1>1. /\ walk \in WalkState /\ outages \in Nat /\ WalkTypes /\ walk.dir \in DOMAIN tree
      /\ queue \in Seq(Entries) /\ found \in Seq(Entries) /\ flags \in [partial : BOOLEAN, truncated : BOOLEAN]
      /\ access \in {"open", "locked", "gone"}
  BY DEF WalkInv, WalkTypes, WalkState
<1>2. tree[walk.dir] \in Seq(Entries) /\ IsInjective(tree[walk.dir])
  BY <1>1, TreeFacts
<1>3. /\ entries \in Seq(Entries) /\ Len(entries) = n /\ IsInjective(entries)
      /\ Range(entries) \subseteq Range(tree[walk.dir])
  BY <1>2, Beginning
<1>4. ~warning => entries = tree[walk.dir]
  BY <1>2, SubSeqFull
<1> HIDE DEF entries
<1>5. CASE Ends("bad") /\ entries = <<>> /\ warning
  BY <1>1, <1>3, <1>5, EndsKeeps DEF Walking
<1>6. CASE /\ walk' = [walk EXCEPT !.pc = "visit"] /\ queue' = queue \o entries
           /\ flags' = [flags EXCEPT !.partial = flags.partial \/ warning]
  <2>1. walk'.pc = "visit" /\ walk' \in WalkState
    BY <1>1, <1>6 DEF WalkState
  <2>2. UNCHANGED Entries /\ \A d : Opened(d)' = Opened(d) /\ ~Listing(d)'
    BY <2>1 DEF Entries, Opened, Listing
  <2>3. Seen \in Seq(Entries) /\ queue' \in Seq(Entries)
    BY <1>1, <1>3, <1>6, ConcatProperties DEF Seen
  <2>4. Seen' = Seen \o entries
    <3>1. (found \o queue) \o entries = found \o (queue \o entries)
      BY <1>1, <1>3, ConcatAssociative
    <3>2. found' = found /\ queue' = queue \o entries
      BY <1>6
    <3> QED
      BY <3>1, <3>2 DEF Seen
  <2>5. Range(Seen') = Range(Seen) \cup Range(entries)
    BY <1>3, <2>3, <2>4, RangeOfConcat
  <2>6. Range(Seen) \cap Range(entries) = {}
    <3>1. ASSUME NEW e \in Range(Seen), e \in Range(tree[walk.dir]) PROVE FALSE
      <4>1. PICK d \in DOMAIN tree : e \in Range(tree[d]) /\ ~Listing(d)
        BY <3>1 DEF WalkInv, SeenOnce
      <4>2. d = walk.dir
        BY <1>1, <3>1, <4>1, TreeFacts
      <4> QED
        BY <4>1, <4>2 DEF Listing
    <3> QED
      BY <1>3, <3>1
  <2>7. IsInjective(Seen')
    BY <1>3, <2>3, <2>4, <2>6, InjectiveConcat DEF WalkInv, SeenOnce
  <2>8. WalkTypes'
    BY <1>1, <1>6, <2>1, <2>2, <2>3 DEF WalkInv, WalkTypes, WalkState
  <2>9. SeenOnce'
    <3>1. ASSUME NEW e \in Range(Seen')
          PROVE  \E d \in DOMAIN tree : e \in Range(tree[d]) /\ Opened(d)
      <4>1. CASE e \in Range(Seen)
        BY <4>1 DEF WalkInv, SeenOnce
      <4>2. CASE e \in Range(entries)
        BY <1>1, <1>3, <4>2 DEF WalkInv, PagesSoFar
      <4> QED
        BY <2>5, <3>1, <4>1, <4>2
    <3>2. \A d : Opened(d) => Opened(d)' /\ ~Listing(d)'
      BY <2>2
    <3> QED
      BY <2>1, <2>7, <3>1, <3>2 DEF SeenOnce
  <2>10. SeenWhole'
    <3>1. SUFFICES ASSUME ~flags'.partial, ~flags'.truncated, NEW d \in DOMAIN tree, Opened(d)
                   PROVE  Range(tree[d]) \subseteq Range(Seen')
      BY <2>1, <2>2 DEF SeenWhole
    <3>2. ~flags.partial /\ ~warning /\ ~flags.truncated
      BY <1>1, <1>6, <3>1
    <3>3. CASE d = walk.dir
      BY <1>4, <2>5, <3>2, <3>3
    <3>4. CASE d # walk.dir
      BY <2>5, <3>1, <3>2, <3>4 DEF WalkInv, SeenWhole, Walking, Listing
    <3> QED
      BY <3>3, <3>4
  <2>11. CutOff' /\ Outcome' /\ PagesSoFar'
    <3>1. ~flags.truncated
      BY DEF WalkInv, CutOff, Walking
    <3>2. ~flags'.truncated /\ (flags'.partial => flags.partial \/ warning)
      BY <1>1, <1>6, <3>1
    <3>3. UNCHANGED LongDirectory
      BY DEF LongDirectory
    <3>4. flags.partial => outages > 0 \/ access = "gone" \/ LongDirectory
      BY DEF WalkInv, CutOff
    <3>5. flags'.partial => outages' > 0 \/ access' = "gone" \/ LongDirectory'
      BY <1>1, <3>2, <3>3, <3>4
    <3> QED
      BY <2>1, <3>2, <3>5 DEF CutOff, Outcome, PagesSoFar
  <2> QED
    BY <2>8, <2>9, <2>10, <2>11 DEF WalkInv
<1> QED
  BY <1>5, <1>6 DEF Listed, entries

\* A directory that cannot be listed ends the walk, or is left out.
LEMMA ListingFailsKeeps ==
  ASSUME WalkInv, walk.pc \in {"token", "page"}, NEW state \in {"error", "rate_limited"},
         ListingFails(state), UNCHANGED <<tree, found, access>>,
         outages' \in Nat, outages' >= outages, outages' > 0
  PROVE  WalkInv'
<1>1. /\ walk \in WalkState /\ WalkTypes /\ flags \in [partial : BOOLEAN, truncated : BOOLEAN]
      /\ access \in {"open", "locked", "gone"}
  BY DEF WalkInv, WalkTypes
<1>2. CASE Ends(state)
  BY <1>1, <1>2, EndsKeeps DEF Walking
<1>3. CASE /\ walk.dir # Root /\ walk' = [walk EXCEPT !.pc = "visit"]
           /\ flags' = [flags EXCEPT !.partial = TRUE] /\ UNCHANGED queue
  <2>1. walk'.pc = "visit" /\ walk' \in WalkState /\ flags'.partial /\ flags'.truncated = flags.truncated
        /\ flags' \in [partial : BOOLEAN, truncated : BOOLEAN]
    BY <1>1, <1>3 DEF WalkState
  <2>2. UNCHANGED <<Entries, Seen>> /\ \A d : Opened(d)' = Opened(d) /\ ~Listing(d)'
    BY <1>3, <2>1 DEF Entries, Opened, Listing, Seen
  <2>3. WalkTypes'
    BY <1>1, <1>3, <2>1, <2>2 DEF WalkTypes, WalkState
  <2>4. SeenOnce'
    BY <1>3, <2>1, <2>2 DEF WalkInv, SeenOnce
  <2>5. ~flags.truncated
    BY DEF WalkInv, CutOff, Walking
  <2> QED
    BY <2>1, <2>3, <2>4, <2>5 DEF WalkInv, SeenWhole, CutOff, Outcome, PagesSoFar
<1> QED
  BY <1>2, <1>3 DEF ListingFails

\* A request is repeated; the share is withdrawn.
LEMMA WaitKeeps ==
  ASSUME WalkInv, UNCHANGED <<tree, queue, found, flags>>, walk' \in WalkState,
         walk'.pc = walk.pc, walk'.dir = walk.dir, walk'.page = walk.page, walk'.got = walk.got,
         access' \in {access, "gone"}, outages' \in Nat, outages' >= outages
  PROVE  WalkInv'
<1>1. outages \in Nat /\ access \in {"open", "locked", "gone"}
  BY DEF WalkInv, WalkTypes
<1>2. UNCHANGED <<Entries, Seen, LongDirectory, LastIsDirectory, Walking>>
  BY DEF Entries, Seen, LongDirectory, LastIsDirectory, Walking
<1>3. \A d : Opened(d)' = Opened(d) /\ Listing(d)' = Listing(d)
  BY DEF Opened, Listing
<1>4. WalkTypes'
  BY <1>1, <1>2 DEF WalkInv, WalkTypes, WalkState
<1>5. SeenOnce'
  <2>1. \A d : Opened(d) /\ ~Listing(d) => Opened(d)' /\ ~Listing(d)'
    BY <1>3
  <2> QED
    BY <1>2, <2>1 DEF WalkInv, SeenOnce
<1>6. PagesSoFar'
  <2>1. Opened(walk.dir)' = Opened(walk.dir)
    BY DEF Opened
  <2> QED
    BY <2>1 DEF WalkInv, PagesSoFar
<1>7. SeenWhole'
  <2>1. \A d : Opened(d)' /\ ~Listing(d)' => Opened(d) /\ ~Listing(d)
    BY <1>3
  <2> QED
    BY <1>2, <2>1 DEF WalkInv, SeenWhole
<1>8. CutOff' /\ Outcome'
  BY <1>1, <1>2 DEF WalkInv, CutOff, Outcome
<1> QED
  BY <1>4, <1>5, <1>6, <1>7, <1>8 DEF WalkInv

\* The token opens the share or ends the walk.
LEMMA TokenKeeps == ASSUME WalkInv, get_share_token PROVE WalkInv'
<1>1. /\ walk \in WalkState /\ outages \in Nat /\ access \in {"open", "locked", "gone"}
      /\ walk.pc = "token" /\ UNCHANGED <<tree, access, found, outages>>
  BY DEF get_share_token, WalkInv, WalkTypes
<1>2. CASE access # "open"
  <2>1. (access = "gone" /\ Ends("bad")) \/ (access # "gone" /\ Ends("locked"))
    BY <1>2 DEF get_share_token
  <2> QED
    BY <1>1, <2>1, EndsKeeps DEF Walking
<1>3. CASE Ends("page")
  <2>1. /\ walk' = [walk EXCEPT !.pc = "page"] /\ UNCHANGED <<queue, flags>>
    BY <1>3 DEF Ends
  <2>2. /\ walk' \in WalkState /\ walk'.pc = "page" /\ walk'.dir = walk.dir
        /\ walk'.page = walk.page /\ walk'.got = walk.got
    BY <1>1, <2>1 DEF WalkState
  <2>3. UNCHANGED <<Entries, Seen>> /\ \A d : Opened(d)' = Opened(d) /\ Listing(d)' = Listing(d)
    BY <1>1, <2>1, <2>2 DEF Entries, Seen, Opened, Listing
  <2>4. WalkTypes'
    BY <1>1, <2>1, <2>2, <2>3 DEF WalkInv, WalkTypes, WalkState
  <2>5. SeenOnce'
    <3>1. \A d : Opened(d) /\ ~Listing(d) => Opened(d)' /\ ~Listing(d)'
      BY <2>3
    <3> QED
      BY <1>1, <2>2, <2>3, <3>1 DEF WalkInv, SeenOnce
  <2>6. PagesSoFar'
    <3>1. Opened(walk.dir)' = Opened(walk.dir)
      BY <1>1, <2>2 DEF Opened
    <3> QED
      BY <1>1, <2>2, <3>1 DEF WalkInv, PagesSoFar
  <2>7. SeenWhole'
    <3>1. \A d : Opened(d)' /\ ~Listing(d)' => Opened(d) /\ ~Listing(d)
      BY <2>3
    <3> QED
      BY <1>1, <2>1, <2>2, <2>3, <3>1 DEF WalkInv, SeenWhole, Walking
  <2>8. CutOff' /\ Outcome'
    BY <1>1, <2>1, <2>2 DEF WalkInv, CutOff, Outcome, Walking, LongDirectory
  <2> QED
    BY <2>4, <2>5, <2>6, <2>7, <2>8 DEF WalkInv
<1> QED
  BY <1>2, <1>3 DEF get_share_token

\* Where a page begins and ends.
LEMMA PageBounds ==
  ASSUME NEW page \in Nat \ {0}, NEW size \in Nat \ {0}
  PROVE  /\ page * size - size = (page - 1) * size /\ (page - 1) * size \in Nat /\ page * size \in Nat
         /\ ((page + 1) - 1) * size = page * size /\ (page > 1 => (page - 1) * size > 0)
<1>1. page * size - size = (page - 1) * size /\ ((page + 1) - 1) * size = page * size
  OBVIOUS
<1>2. (page - 1) * size \in Nat /\ page * size \in Nat
  OBVIOUS
<1>3. page > 1 => (page - 1) * size > 0
  OBVIOUS
<1> QED
  BY <1>1, <1>2, <1>3

\* A page continues the beginning of its directory; the last one completes it, or
\* is full and leaves it cut off.
LEMMA PageKeeps == ASSUME WalkInv, PageArrives PROVE WalkInv'
<1> DEFINE s == tree[walk.dir]
           before == (walk.page - 1) * PageSize
           upto == walk.page * PageSize
           n == IF upto < Len(s) THEN upto ELSE Len(s)
           page == Slice(walk.dir, walk.page)
<1>1. /\ walk \in WalkState /\ WalkTypes /\ walk.dir \in DOMAIN tree /\ outages \in Nat
      /\ walk.page \in 1..MaxPages /\ walk.pc = "page" /\ UNCHANGED <<tree, access, found, outages>>
      /\ s \in Seq(Entries) /\ Len(s) \in Nat
  BY TreeFacts DEF WalkInv, WalkTypes, WalkState, PageArrives
<1>2. PageSize \in Nat \ {0} /\ MaxPages \in Nat \ {0} /\ walk.page \in Nat \ {0}
  BY <1>1, TreeFacts
<1>3. /\ upto - PageSize = before /\ before \in Nat /\ upto \in Nat
      /\ ((walk.page + 1) - 1) * PageSize = upto /\ upto > 0
  <2>1. /\ upto - PageSize = before /\ before \in Nat /\ upto \in Nat
        /\ ((walk.page + 1) - 1) * PageSize = upto
    BY <1>2, PageBounds
  <2> HIDE DEF upto, before
  <2> QED
    BY <2>1, <1>2 DEF upto, before
<1>4. before \in 0..Len(s) /\ walk.got = SubSeq(s, 1, before) /\ Opened(walk.dir)
  BY <1>1 DEF WalkInv, PagesSoFar
<1>5. page = SubSeq(s, upto - PageSize + 1, n)
  BY DEF Slice
<1>6. walk.page = MaxPages => upto = PageSize * MaxPages
  BY <1>2
<1> HIDE DEF upto, before, page
<1>7. n \in before..Len(s)
  BY <1>1, <1>2, <1>3, <1>4
<1>8. page = SubSeq(s, before + 1, n)
  BY <1>3, <1>5
<1> HIDE DEF s, n
<1>9. walk.got \o page = SubSeq(s, 1, n)
  BY <1>1, <1>4, <1>7, <1>8, ConcatAdjacentSubSeq
<1>10. Len(page) = n - before
  <2>1. \A i \in (before + 1)..n : s[i] \in Entries
    BY <1>1, <1>3, <1>4, <1>7, ElementOfSeq
  <2> QED
    BY <1>1, <1>3, <1>4, <1>7, <1>8, <2>1, SubSeqProperties
<1>11. n = IF upto < Len(s) THEN upto ELSE Len(s)
  BY DEF n
<1>12. CASE Len(page) < PageSize \/ walk.page = MaxPages
  <2> DEFINE warning == Truncates(page)
  <2>1. Listed(SubSeq(s, 1, n), warning)
    BY <1>9, <1>12 DEF PageArrives, page
  <2>2. warning \in BOOLEAN /\ (warning <=> walk.page = MaxPages /\ Len(page) = PageSize)
    BY DEF Truncates
  <2> HIDE DEF warning
  <2>3. warning \/ n = Len(s)
    BY <1>1, <1>2, <1>3, <1>4, <1>7, <1>10, <1>11, <1>12, <2>2
  <2>4. warning => n = upto /\ upto <= Len(s)
    BY <1>1, <1>2, <1>3, <1>4, <1>7, <1>10, <1>11, <2>2
  <2>5. warning => LongDirectory
    BY <1>1, <1>2, <1>6, <2>2, <2>4 DEF LongDirectory, s
  <2>6. n \in 0..Len(s)
    BY <1>1, <1>4, <1>7
  <2> QED
    BY <1>1, <1>3, <2>1, <2>2, <2>3, <2>4, <2>5, <2>6, ListedKeeps DEF s
<1>13. CASE Len(page) >= PageSize /\ walk.page # MaxPages
  <2>1. /\ walk' = [walk EXCEPT !.page = walk.page + 1, !.attempt = 1, !.got = SubSeq(s, 1, n)]
        /\ UNCHANGED <<queue, flags>>
    <3>1. ~(Len(page) < PageSize \/ walk.page = MaxPages)
      BY <1>2, <1>7, <1>10, <1>13, <1>4, <1>1
    <3> QED
      BY <1>9, <3>1 DEF PageArrives, page
  <2>2. n = upto /\ upto \in 0..Len(s)
    BY <1>1, <1>2, <1>3, <1>4, <1>7, <1>10, <1>11, <1>13
  <2>3. SubSeq(s, 1, n) \in Seq(Entries)
    BY <1>1, <2>2, Beginning
  <2>4. walk.page + 1 \in 1..MaxPages
    BY <1>1, <1>2, <1>13
  <2>5. /\ walk' \in WalkState /\ walk'.pc = "page" /\ walk'.dir = walk.dir
        /\ walk'.page = walk.page + 1 /\ walk'.got = SubSeq(s, 1, n)
    BY <1>1, <2>1, <2>3, <2>4 DEF WalkState
  <2>6. UNCHANGED <<Entries, Seen>> /\ \A d : Opened(d)' = Opened(d) /\ Listing(d)' = Listing(d)
    BY <1>1, <2>1, <2>5 DEF Entries, Seen, Opened, Listing
  <2>7. WalkTypes'
    BY <1>1, <2>1, <2>5, <2>6 DEF WalkInv, WalkTypes, WalkState
  <2>8. SeenOnce'
    <3>1. \A d : Opened(d) /\ ~Listing(d) => Opened(d)' /\ ~Listing(d)'
      BY <2>6
    <3> QED
      BY <1>1, <2>5, <2>6, <3>1 DEF WalkInv, SeenOnce
  <2>9. PagesSoFar'
    <3>1. (walk'.page - 1) * PageSize = upto
      BY <1>3, <2>5
    <3>2. Opened(walk.dir)' /\ tree'[walk'.dir] = s
      BY <1>1, <1>4, <2>5 DEF Opened, s
    <3>3. walk'.got = SubSeq(tree'[walk'.dir], 1, upto) /\ upto \in 0..Len(tree'[walk'.dir])
      BY <2>2, <2>5, <3>2
    <3>4. Opened(walk.dir)' = (walk'.dir = Root \/ walk'.dir \in Range(found'))
      BY <2>5 DEF Opened
    <3> QED
      BY <3>1, <3>2, <3>3, <3>4 DEF PagesSoFar, Opened
  <2>10. SeenWhole'
    <3>1. \A d : Opened(d)' /\ ~Listing(d)' => Opened(d) /\ ~Listing(d)
      BY <2>6
    <3> QED
      BY <1>1, <2>1, <2>5, <2>6, <3>1 DEF WalkInv, SeenWhole, Walking
  <2>11. CutOff' /\ Outcome'
    BY <1>1, <2>1, <2>5 DEF WalkInv, CutOff, Outcome, Walking, LongDirectory
  <2> QED
    BY <2>7, <2>8, <2>9, <2>10, <2>11 DEF WalkInv
<1>14. Len(page) < PageSize \/ walk.page = MaxPages \/ (Len(page) >= PageSize /\ walk.page # MaxPages)
  BY <1>1, <1>2, <1>4, <1>7, <1>10
<1> QED
  BY <1>12, <1>13, <1>14

\* Refused because the share is gone, or no answer: what the pages before gave.
LEMMA RefusalKeeps == ASSUME WalkInv, PageRefused PROVE WalkInv'
<1> DEFINE n == (walk.page - 1) * PageSize
<1>1. /\ n \in 0..Len(tree[walk.dir]) /\ walk.got = SubSeq(tree[walk.dir], 1, n) /\ outages \in Nat
  BY DEF WalkInv, WalkTypes, PageRefused, PagesSoFar
<1>2. /\ walk.pc = "page" /\ access = "gone" /\ Listed(walk.got, TRUE)
      /\ UNCHANGED <<tree, access, found, outages>>
  BY DEF PageRefused
<1> HIDE DEF n
<1>3. Listed(SubSeq(tree[walk.dir], 1, n), TRUE)
  BY <1>1, <1>2 DEF Listed
<1>4. outages' \in Nat /\ outages' >= outages
  BY <1>1, <1>2
<1> QED
  BY <1>1, <1>2, <1>3, <1>4, ListedKeeps

\* No answer: again, or what the pages before gave, or the directory fails.
LEMMA RequestKeeps == ASSUME WalkInv, NEW limited \in BOOLEAN, RequestFails(limited) PROVE WalkInv'
<1> DEFINE n == (walk.page - 1) * PageSize
<1>1. /\ walk \in WalkState /\ outages \in Nat /\ walk.pc \in {"token", "page"}
      /\ outages' > 0 /\ outages' \in Nat /\ outages' >= outages /\ UNCHANGED <<tree, access, found>>
      /\ n \in 0..Len(tree[walk.dir]) /\ walk.got = SubSeq(tree[walk.dir], 1, n)
      /\ walk.page \in 1..MaxPages /\ access \in {"open", "locked", "gone"}
  <2>1. walk \in WalkState /\ outages \in Nat /\ access \in {"open", "locked", "gone"}
    BY DEF WalkInv, WalkTypes
  <2>2. /\ walk.pc \in {"token", "page"} /\ outages' = outages + 1 /\ UNCHANGED <<tree, access, found>>
    BY DEF RequestFails
  <2>3. n \in 0..Len(tree[walk.dir]) /\ walk.got = SubSeq(tree[walk.dir], 1, n)
    BY <2>2 DEF WalkInv, PagesSoFar
  <2>4. walk.page \in 1..MaxPages
    BY <2>1 DEF WalkState
  <2> HIDE DEF n
  <2> QED
    BY <2>1, <2>2, <2>3, <2>4
<1>2. walk.page > 1 => walk.pc = "page" /\ n > 0
  <2>1. PageSize \in Nat \ {0} /\ MaxPages \in Nat \ {0}
    BY TreeFacts DEF WalkInv
  <2>2. walk.page > 1 => n > 0
    BY <1>1, <2>1, PageBounds
  <2>3. walk.page > 1 => walk.pc = "page"
    BY <1>1 DEF WalkInv, SeenOnce
  <2> QED
    BY <2>2, <2>3
<1>3. n \in Nat
  BY <1>1, TreeFacts DEF WalkInv
<1> HIDE DEF n
<1>4. CASE ListingFails("rate_limited") \/ ListingFails("error")
  BY <1>1, <1>4, ListingFailsKeeps
<1>5. CASE walk.page > 1 /\ Listed(walk.got, TRUE)
  <2>1. Listed(SubSeq(tree[walk.dir], 1, n), TRUE) /\ walk.pc = "page"
    BY <1>1, <1>2, <1>5 DEF Listed
  <2>2. n # 0
    BY <1>2, <1>3, <1>5
  <2>3. \/ outages' > 0 \/ access = "gone" \/ LongDirectory
    BY <1>1
  <2> QED
    BY <1>1, <2>1, <2>2, <2>3, ListedKeeps
<1>6. CASE walk' = [walk EXCEPT !.attempt = walk.attempt + 1] /\ UNCHANGED <<queue, flags>>
  <2>1. walk.attempt + 1 \in Nat
    BY <1>1 DEF WalkState
  <2>2. /\ walk' \in WalkState /\ walk'.pc = walk.pc /\ walk'.dir = walk.dir
        /\ walk'.page = walk.page /\ walk'.got = walk.got
    BY <1>1, <1>6, <2>1 DEF WalkState
  <2> QED
    BY <1>1, <1>6, <2>2, WaitKeeps
<1> QED
  BY <1>4, <1>5, <1>6 DEF RequestFails

\* The next entry: what was seen stays, what is opened grows by it.
LEMMA VisitKeeps == ASSUME WalkInv, Visit PROVE WalkInv'
<1> DEFINE e == Head(queue)
<1>1. /\ walk \in WalkState /\ queue \in Seq(Entries) /\ found \in Seq(Entries) /\ WalkTypes
      /\ flags \in [partial : BOOLEAN, truncated : BOOLEAN] /\ walk.pc = "visit" /\ queue # <<>>
      /\ Len(found) < MaxFiles /\ UNCHANGED <<tree, access, outages>>
      /\ found' = Append(found, e) /\ queue' = Tail(queue)
  BY DEF WalkInv, WalkTypes, Visit
<1>2. /\ found' \in Seq(Entries) /\ queue' \in Seq(Entries) /\ Seen' = Seen
      /\ Range(found') = Range(found) \cup {e} /\ e \in Range(queue)
  BY <1>1, HeadMoves DEF Seen
<1>3. Len(found) \in Nat /\ Len(found') = Len(found) + 1 /\ found'[Len(found')] = e /\ found' # <<>>
  BY <1>1, <1>2
<1> HIDE DEF e
<1>4. MaxFiles \in Nat \ {0} /\ MaxPages \in Nat \ {0} /\ Root \notin Entries /\ UNCHANGED Entries
  BY <1>1, TreeFacts DEF Entries
<1>5. e \notin Range(found) /\ e # Root
  <2>1. Range(found) \cap Range(queue) = {}
    BY <1>1, InjectiveConcat DEF WalkInv, SeenOnce, Seen
  <2>2. e \in Entries
    BY <1>1, <1>2 DEF Range
  <2> QED
    BY <1>2, <1>4, <2>1, <2>2
<1>6. \A d : Opened(d)' <=> (Opened(d) \/ d = e)
  BY <1>2 DEF Opened
<1>7. ~Opened(e) /\ \A d : ~Listing(d)
  BY <1>1, <1>5 DEF Opened, Listing
<1>8. ~flags.truncated
  BY <1>1, <1>3, <1>4 DEF WalkInv, CutOff, Walking, LastIsDirectory
<1>9. Len(found') <= MaxFiles
  BY <1>1, <1>3, <1>4
<1>10. UNCHANGED LongDirectory
  BY <1>1 DEF LongDirectory
<1>11. flags.partial => outages > 0 \/ access = "gone" \/ LongDirectory
  BY DEF WalkInv, CutOff
<1>12. CASE e \notin DOMAIN tree /\ UNCHANGED <<walk, flags>>
  <2>1. \A d : ~Listing(d)'
    BY <1>1, <1>12 DEF Listing
  <2>2. WalkTypes'
    BY <1>1, <1>2, <1>4, <1>9, <1>12 DEF WalkTypes, WalkState
  <2>3. SeenOnce'
    BY <1>1, <1>2, <1>6, <1>12, <2>1 DEF WalkInv, SeenOnce
  <2>4. SeenWhole'
    BY <1>1, <1>2, <1>6, <1>7, <1>12, <2>1 DEF WalkInv, SeenWhole, Walking
  <2> QED
    BY <1>1, <1>8, <1>10, <1>11, <1>12, <2>2, <2>3, <2>4 DEF WalkInv, CutOff, Outcome, PagesSoFar
<1>13. CASE /\ e \in DOMAIN tree /\ UNCHANGED flags
            /\ walk' = [pc |-> "page", dir |-> e, page |-> 1, attempt |-> 1, got |-> <<>>]
  <2>1. walk' \in WalkState /\ walk'.pc = "page" /\ walk'.dir = e /\ walk'.page = 1 /\ walk'.got = <<>>
    BY <1>1, <1>4, <1>13 DEF WalkState
  <2>2. \A d : Listing(d)' <=> d = e
    BY <2>1 DEF Listing
  <2>3. WalkTypes'
    <3>1. WalkState' = WalkState
      BY <1>1, <1>4 DEF WalkState
    <3> QED
      BY <1>1, <1>2, <1>4, <1>9, <1>13, <2>1, <3>1 DEF WalkTypes
  <2>4. SeenOnce'
    BY <1>1, <1>2, <1>6, <1>7, <2>1, <2>2 DEF WalkInv, SeenOnce
  <2>5. SeenWhole'
    BY <1>1, <1>2, <1>6, <1>7, <1>13, <2>2 DEF WalkInv, SeenWhole, Walking
  <2>6. PagesSoFar'
    <3>1. (1 - 1) * PageSize = 0 /\ SubSeq(tree[e], 1, 0) = <<>>
      BY <1>1, TreeFacts, SubSeqEmpty
    <3>2. 0 \in 0..Len(tree[e])
      BY <1>1, <1>13, TreeFacts
    <3>3. walk'.dir \in Range(found')
      BY <1>2, <2>1
    <3> QED
      BY <1>1, <2>1, <3>1, <3>2, <3>3 DEF PagesSoFar, Opened
  <2> QED
    BY <1>1, <1>8, <1>10, <1>11, <1>13, <2>1, <2>3, <2>4, <2>5, <2>6 DEF WalkInv, CutOff, Outcome
<1>14. CASE /\ e \in DOMAIN tree /\ Len(found) + 1 >= MaxFiles
            /\ flags' = [flags EXCEPT !.truncated = TRUE] /\ UNCHANGED walk
  <2>1. flags' \in [partial : BOOLEAN, truncated : BOOLEAN] /\ flags'.truncated /\ flags'.partial = flags.partial
    BY <1>1, <1>14
  <2>2. \A d : ~Listing(d)'
    BY <1>1, <1>14 DEF Listing
  <2>3. WalkTypes'
    BY <1>1, <1>2, <1>4, <1>9, <1>14, <2>1 DEF WalkTypes, WalkState
  <2>4. SeenOnce'
    BY <1>1, <1>2, <1>6, <1>14, <2>2 DEF WalkInv, SeenOnce
  <2>5. LastIsDirectory'
    BY <1>1, <1>3, <1>4, <1>14 DEF LastIsDirectory, Last
  <2> QED
    BY <1>1, <1>10, <1>11, <1>14, <2>1, <2>3, <2>4, <2>5
    DEF WalkInv, SeenWhole, CutOff, Outcome, PagesSoFar, Walking
<1>15. Len(found) + 1 < MaxFiles \/ Len(found) + 1 >= MaxFiles
  BY <1>3, <1>4
<1> QED
  BY <1>12, <1>13, <1>14, <1>15 DEF Visit, e

\* The walk says what it has seen.
LEMMA ConcludeKeeps == ASSUME WalkInv, Conclude PROVE WalkInv'
<1>1. /\ walk \in WalkState /\ queue \in Seq(Entries) /\ found \in Seq(Entries) /\ WalkTypes
      /\ flags \in [partial : BOOLEAN, truncated : BOOLEAN] /\ walk.pc = "visit"
      /\ UNCHANGED <<tree, access, queue, found, outages>> /\ \A d : ~Listing(d)
      /\ flags' = [flags EXCEPT !.truncated = flags.truncated \/ queue # <<>>]
      /\ walk' = [walk EXCEPT !.pc = IF flags.partial \/ flags'.truncated THEN "partial" ELSE "ok"]
  BY DEF WalkInv, WalkTypes, Conclude, Listing
<1>2. /\ flags' \in [partial : BOOLEAN, truncated : BOOLEAN] /\ flags'.partial = flags.partial
      /\ (flags'.truncated <=> flags.truncated \/ queue # <<>>)
  BY <1>1
<1>3. /\ walk' \in WalkState /\ (flags.partial \/ flags'.truncated => walk'.pc = "partial")
      /\ (~(flags.partial \/ flags'.truncated) => walk'.pc = "ok")
  BY <1>1 DEF WalkState
<1>4. walk'.pc \in {"partial", "ok"}
  BY <1>3
<1>5. UNCHANGED <<Entries, Seen, LongDirectory, LastIsDirectory>> /\ \A d : Opened(d)' = Opened(d) /\ ~Listing(d)'
  BY <1>1, <1>4 DEF Entries, Seen, LongDirectory, LastIsDirectory, Opened, Listing
<1>6. WalkTypes'
  BY <1>1, <1>2, <1>3, <1>5 DEF WalkTypes, WalkState
<1>7. SeenOnce'
  BY <1>1, <1>4, <1>5 DEF WalkInv, SeenOnce
<1>8. CutOff' /\ SeenWhole' /\ PagesSoFar'
  BY <1>1, <1>2, <1>4, <1>5 DEF WalkInv, CutOff, SeenWhole, PagesSoFar, Walking
<1>9. Range(found) \subseteq Entries
  BY <1>1 DEF Range
<1>10. queue # <<>> => Range(found) # Entries
  <2>1. queue # <<>> => Head(queue) \in Range(queue) /\ Head(queue) \in Entries
    BY <1>1, HeadMoves, HeadTailProperties
  <2>2. Range(found) \cap Range(queue) = {}
    BY <1>1, InjectiveConcat DEF WalkInv, SeenOnce, Seen
  <2> QED
    BY <2>1, <2>2
<1>11. ~flags.partial /\ ~flags'.truncated => Range(found) = Entries
  <2> SUFFICES ASSUME ~flags.partial, ~flags.truncated, queue = <<>> PROVE Range(found) = Entries
    BY <1>2
  <2>1. Seen = found
    BY <1>1, ConcatEmptySeq DEF Seen
  <2>2. \A d \in DOMAIN tree : Opened(d) => Range(tree[d]) \subseteq Range(found)
    BY <1>1, <2>1 DEF WalkInv, SeenWhole, Walking
  <2> QED
    BY <1>1, <1>9, <2>2, AllIsSeen
<1>12. Outcome'
  <2>1. flags.truncated => LastIsDirectory
    BY <1>1 DEF WalkInv, CutOff, Walking
  <2>2. flags.partial => outages > 0 \/ access = "gone" \/ LongDirectory
    BY DEF WalkInv, CutOff
  <2> QED
    BY <1>1, <1>2, <1>3, <1>4, <1>5, <1>10, <1>11, <2>1, <2>2 DEF Outcome
<1> QED
  BY <1>6, <1>7, <1>8, <1>12 DEF WalkInv

\* Every step of the walk keeps the invariant.
LEMMA WalkStep == ASSUME WalkInv, [WalkNext]_wvars PROVE WalkInv'
<1>0. walk \in WalkState /\ outages \in Nat
  BY DEF WalkInv, WalkTypes
<1>1. CASE Withdraw
  BY <1>0, <1>1, WaitKeeps DEF Withdraw
<1>2. CASE UNCHANGED wvars
  BY <1>0, <1>2, WaitKeeps DEF wvars
<1> QED
  BY <1>1, <1>2, TokenKeeps, PageKeeps, RefusalKeeps, VisitKeeps, ConcludeKeeps, RequestKeeps DEF WalkNext

\* The invariant says what the probe says.
LEMMA WalkTells == WalkInv => ProbeHonest
<1> SUFFICES ASSUME WalkInv PROVE ProbeHonest
  OBVIOUS
<1>1. found \in Seq(Entries) /\ queue \in Seq(Entries) /\ Len(found) <= MaxFiles
  BY DEF WalkInv, WalkTypes
<1>2. IsInjective(found)
  BY <1>1, InjectiveConcat DEF WalkInv, SeenOnce, Seen
<1>3. Range(found) \subseteq Entries
  BY <1>1 DEF Range
<1> QED
  BY <1>1, <1>2, <1>3 DEF ProbeHonest, WalkInv, Outcome, LongDirectory, LastIsDirectory

\* What a probe says of itself is true of the share, for every tree and whatever
\* failed or was withdrawn on the way (clients/quark.rs probe).
THEOREM ProbeIsHonest == CloudSpec => []ProbeHonest
<1>1. CloudInit => WalkInv
  BY WalkStart DEF CloudInit
<1>2. WalkInv /\ [CloudNext]_cloudvars => WalkInv'
  BY WalkStep DEF CloudNext, cloudvars, Transfer
<1> QED
  BY <1>1, <1>2, WalkTells, PTL DEF CloudSpec

=============================================================================

--------------------------- MODULE MonitorProofs ---------------------------
(***************************************************************************)
(* Safety of the download monitor (DownloadMonitor), for every set of tasks *)
(* and files, and any number of batches, faults and clearings: the end of a *)
(* file is announced once, and only of a file whose record is complete.     *)
(* Two hypotheses are stated with the theorems: between a submission and its *)
(* record a task does not end and the process does not die (~Window), and    *)
(* one poll runs at a time (OnePoll).  Without them ToldOnce does not hold.  *)
(* An end is announced again only if the message differs from one sent      *)
(* before, or no store remembers it (Forgotten).  It does not differ, because *)
(* a batch that was announced stays as it was (Repeats) unless another record *)
(* joins it (Joined), and because a poll has seen all that is done (ScanOk).  *)
(***************************************************************************)
EXTENDS DownloadMonitor, FiniteSetTheorems, SequenceTheorems, TLAPS

OnePoll == \A s, t \in Scanners : s = t
----------------------------------------------------------------------------
(* What is always so. *)

News == [kind : {"failed", "single", "merged"}, gids : SUBSET Gids, sized : SUBSET Files]
Messages == [kind : {"failed", "single", "merged"}, files : SUBSET Files, sized : SUBSET Files]
Entry == [gid : Gids, batch : 1..MaxBatch, done : BOOLEAN]
ScanState ==
  [pc : {"idle", "claim", "work", "decide"}, list : SUBSET Gids, todo : SUBSET Gids,
   task : SUBSET Gids, hist : SUBSET News, sent : SUBSET Messages, purge : BOOLEAN]

\* The types the proofs need.
MonitorTypes ==
  /\ aria \in [Gids -> {"none", "active", "removed"} \cup Ended] /\ listed \in SUBSET Gids
  /\ records \in Seq(Entry) /\ batches \in 0..MaxBatch /\ completed \in BOOLEAN
  /\ recording \in SUBSET (Gids \X Gids)
  /\ notices \in SUBSET News /\ pushed \in SUBSET Messages
  /\ known \in SUBSET (Ended \X (Gids \cup Files)) /\ scan \in [Scanners -> ScanState]
  /\ told \in [Gids -> 0..2]

\* An ended task that Aria2 no longer lists.
Gone == \E h \in Gids : aria[h] \in Ended /\ h \notin listed

NameAt(i) == fileOf[records[i].gid]
Exact(g) == \E i \in Index : records[i].gid = g
Alone(g) == \A h \in Gids : fileOf[h] = fileOf[g] => h = g

\* A file has one record, of a task that was started; a file that is done, of one
\* that is complete.
RecordsTrue ==
  /\ \A i, j \in Index : NameAt(i) = NameAt(j) => i = j
  /\ \A i \in Index : /\ aria[records[i].gid] # "none" /\ records[i].batch <= batches
                      /\ records[i].done => aria[records[i].gid] = "complete"

\* What is being recorded: new files, or the task that replaces a failed one.
NewFiles ==
  /\ \A p \in recording : p[1] = p[2] /\ \A i \in Index : NameAt(i) # fileOf[p[1]]
  /\ \A p, q \in recording : fileOf[p[1]] = fileOf[q[1]] => p = q
NewTask == \E old, new \in Gids :
  /\ recording = {<<old, new>>} /\ old # new /\ fileOf[old] = fileOf[new] /\ Exact(old)
  /\ aria[old] \in {"error", "removed"}
RecordingTrue ==
  /\ \A p \in recording : aria[p[2]] = "active"
  /\ recording # {} => batches < MaxBatch
  /\ NewFiles \/ NewTask

\* A task has a record, will have one, or is the only one of its file, started
\* by hand.
Known(g) == Exact(g) \/ Alone(g) \/ (aria[g] = "active" /\ \E p \in recording : p[2] = g)
TasksKnown == \A g \in Gids :
  \/ aria[g] \in {"active", "complete"}
  \/ aria[g] \in {"error", "removed"} /\ g \in listed
  => Known(g)

\* What notifications say of tasks is so.
NewsTrue == \A n \in notices : \A g \in n.gids :
  IF n.kind = "failed" THEN aria[g] = "error"
  ELSE aria[g] = "complete" /\ \A i \in Index : records[i].gid = g => records[i].done

\* The messages that either store remembers.
Stored(P, N) == P \cup {Message(n) : n \in N}

\* A poll has seen, of what is done, all that is listed still; what it decides
\* on is ended, written down, and read with the messages remembered so far.
ScanOk(s) ==
  /\ scan[s].todo \subseteq scan[s].list /\ \A g \in scan[s].todo : aria[g] \in Ended
  /\ ~Gone /\ scan[s].pc # "idle" =>
       \A i \in Index : records[i].done => records[i].gid \in scan[s].list
  /\ scan[s].pc = "decide" =>
       /\ \E g \in scan[s].todo : scan[s].task = {g}
       /\ \A g \in scan[s].task : aria[g] = "complete" =>
            \A i \in Index : records[i].gid = g => records[i].done
       /\ Stored(pushed, notices) \subseteq Stored(scan[s].sent, scan[s].hist)
       /\ \A n \in scan[s].hist : n.kind = "failed" => \A g \in n.gids : aria[g] = "error"
  /\ scan[s].pc # "decide" => scan[s].task = {}
  /\ scan[s].pc = "idle" => scan[s].todo = {}
ScanTrue == \A s \in Scanners : ScanOk(s)

\* What was announced is settled, and the message that said so would be the same.
Settled(I) == \A i \in I : records[i].done \/ aria[records[i].gid] = "error"
Complete(I) == {i \in I : records[i].done}
MergedMessage(I) ==
  [kind |-> "merged", files |-> Files_(GidsAt(Complete(I))), sized |-> Files_(GidsAt(Complete(I)))]
SingleMessage(g) == [kind |-> "single", files |-> {fileOf[g]}, sized |-> {fileOf[g]}]
Repeats(g) ==
  /\ aria[g] = "complete"
  /\ Merges(g) => /\ Settled(Batch(g)) /\ MergedMessage(Batch(g)) \in Stored(pushed, notices)
                  /\ fileOf[g] \in MergedMessage(Batch(g)).files
  /\ ~Merges(g) => SingleMessage(g) \in Stored(pushed, notices)
Excused(g) == Forgotten(g) \/ Joined(g)
ToldTrue == ~Gone => \A g \in Gids :
  told[g] # 0 => aria[g] = "complete" /\ (Excused(g) \/ (told[g] = 1 /\ Repeats(g)))

\* The inductive invariant is MonitorTypes and this.
Rest == RecordsTrue /\ RecordingTrue /\ TasksKnown /\ NewsTrue /\ ScanTrue /\ ToldTrue

----------------------------------------------------------------------------
(* What the model's operators give. *)

\* The fields of a record.
LEMMA EntryTypes ==
  ASSUME MonitorTypes, NEW i \in Index
  PROVE  /\ records[i] \in Entry /\ records[i].gid \in Gids /\ records[i].batch \in 1..MaxBatch
         /\ records[i].done \in BOOLEAN /\ i \in Nat
<1>1. records[i] \in Entry /\ i \in Nat
  BY DEF MonitorTypes, Index, Seq
<1> QED BY <1>1 DEF Entry

\* The state of a poll that goes on: another task, or the next thing to do with it.
LEMMA ScanGoesOn ==
  ASSUME NEW x \in ScanState, NEW p \in {"idle", "claim", "work", "decide"},
         NEW todo \in SUBSET Gids, NEW task \in SUBSET Gids
  PROVE  [x EXCEPT !.pc = p, !.todo = todo, !.task = task] \in ScanState
BY DEF ScanState

\* The idle state of a poll is one.
LEMMA NoScanType == NoScan \in ScanState
BY DEF NoScan, ScanState

\* The keys under which a task is claimed.
LEMMA KeysType ==
  ASSUME MonitorTypes, NEW g \in Gids, aria[g] \in Ended
  PROVE  Keys(g) \in SUBSET (Ended \X (Gids \cup Files))
BY MonitorAssumption DEF Keys, MonitorTypes

\* A set of tasks as a sequence: every task of it, once.
LEMMA SequenceOf ==
  ASSUME NEW S \in SUBSET Gids
  PROVE  /\ Cardinality(S) \in Nat
         /\ SetToSeq(S) \in [1..Cardinality(S) -> S]
         /\ \A a, b \in 1..Cardinality(S) : SetToSeq(S)[a] = SetToSeq(S)[b] => a = b
         /\ \A g \in S : \E i \in 1..Cardinality(S) : SetToSeq(S)[i] = g
<1>1. IsFiniteSet(S)
  BY FS_Subset, MonitorAssumption
<1> DEFINE n == Cardinality(S)
           q == SetToSeq(S)
<1>2. n \in Nat /\ ExistsBijection(1..n, S)
  BY <1>1, FS_CardinalityType
<1>3. \E f \in [1..n -> S] : IsInjective(f)
  BY <1>2 DEF ExistsBijection, Bijection, Injection, IsInjective
<1>4. q \in [1..n -> S] /\ IsInjective(q)
  BY <1>3 DEF SetToSeq
<1>5. q \in Injection(1..n, S)
  BY <1>4 DEF Injection
<1>6. Cardinality(1..n) = n
  BY <1>2, FS_Interval
<1>7. q \in Surjection(1..n, S)
  BY <1>1, <1>5, <1>6, FS_Injection
<1> QED BY <1>2, <1>4, <1>7 DEF IsInjective, Surjection

\* Batch, of a list of records r.
BatchIn(r, g) ==
  LET same == {i \in DOMAIN r : r[i].gid = g \/ fileOf[r[i].gid] = fileOf[g]} IN
  IF same = {} THEN {}
  ELSE LET first == CHOOSE i \in same : \A j \in same : i <= j IN
       {i \in DOMAIN r : r[i].batch = r[first].batch}
NamesOnce(r) == \A i, j \in DOMAIN r : fileOf[r[i].gid] = fileOf[r[j].gid] => i = j

\* As a file has one record, its batch is that of this record.
LEMMA BatchOfRecord ==
  ASSUME NEW r \in Seq(Entry), NamesOnce(r), NEW g, NEW i \in DOMAIN r, fileOf[r[i].gid] = fileOf[g]
  PROVE  BatchIn(r, g) = {j \in DOMAIN r : r[j].batch = r[i].batch}
<1> DEFINE same == {j \in DOMAIN r : r[j].gid = g \/ fileOf[r[j].gid] = fileOf[g]}
           first == CHOOSE j \in same : \A k \in same : j <= k
<1>1. same = {i}
  BY DEF NamesOnce
<1>2. i \in Nat
  BY DEF Seq
<1>3. \E j \in same : \A k \in same : j <= k
  BY <1>1, <1>2
<1>4. first = i
  BY <1>1, <1>3
<1>5. BatchIn(r, g) = {j \in DOMAIN r : r[j].batch = r[first].batch}
  BY <1>1 DEF BatchIn
<1> QED BY <1>4, <1>5

\* A file without a record has no batch.
LEMMA NoBatch ==
  ASSUME NEW r, NEW g, \A i \in DOMAIN r : fileOf[r[i].gid] # fileOf[g]
  PROVE  BatchIn(r, g) = {}
BY DEF BatchIn

\* The batch of a file is that of the list of records, before and after a step.
LEMMA BatchIs == ASSUME NEW g PROVE Batch(g) = BatchIn(records, g) /\ Batch(g)' = BatchIn(records', g)
BY DEF Batch, BatchIn, Index

\* A batch that has one file is the record of that file; files of one batch have
\* the same batch.
LEMMA OneBatch ==
  ASSUME MonitorTypes, RecordsTrue, NEW g \in Gids, NEW i \in Index, NameAt(i) = fileOf[g]
  PROVE  /\ i \in Batch(g) /\ Batch(g) = {j \in Index : records[j].batch = records[i].batch}
         /\ IsFiniteSet(Batch(g))
         /\ ~Merges(g) => Batch(g) = {i}
<1>1. NamesOnce(records)
  BY DEF RecordsTrue, NamesOnce, Index, NameAt
<1>2. Batch(g) = {j \in Index : records[j].batch = records[i].batch}
  BY <1>1, BatchIs, BatchOfRecord DEF MonitorTypes, Index, NameAt
<1>3. i \in Batch(g)
  BY <1>2
<1>4. Len(records) \in Nat /\ Index = 1..Len(records)
  BY LenProperties DEF MonitorTypes, Index
<1>5. IsFiniteSet(Index)
  BY <1>4, FS_Interval
<1>6. IsFiniteSet(Batch(g))
  BY <1>2, <1>5, FS_Subset
<1>7. ASSUME ~Merges(g) PROVE Batch(g) = {i}
  <2>1. Cardinality(Batch(g)) \in Nat /\ Cardinality(Batch(g)) <= 1
    BY <1>6, <1>7, FS_CardinalityType DEF Merges
  <2>2. Cardinality(Batch(g)) # 0
    BY <1>3, <1>6, FS_EmptySet
  <2>3. Cardinality(Batch(g)) = 1
    BY <2>1, <2>2
  <2>4. PICK x : Batch(g) = {x}
    BY <1>6, <2>3, FS_Singleton
  <2> QED BY <1>3, <2>4
<1> QED BY <1>2, <1>3, <1>6, <1>7

\* Tasks with records of one batch have the same batch, and merge or not alike.
LEMMA SameBatch ==
  ASSUME MonitorTypes, RecordsTrue, NEW g \in Gids, NEW h \in Gids, NEW i \in Index, NEW j \in Index,
         NameAt(i) = fileOf[g], NameAt(j) = fileOf[h], j \in Batch(g)
  PROVE  Batch(h) = Batch(g) /\ (Merges(h) <=> Merges(g))
<1>1. /\ Batch(g) = {k \in Index : records[k].batch = records[i].batch}
      /\ Batch(h) = {k \in Index : records[k].batch = records[j].batch}
  BY OneBatch
<1>2. records[j].batch = records[i].batch
  BY <1>1
<1>3. Batch(h) = Batch(g)
  BY <1>1, <1>2
<1> QED BY <1>3 DEF Merges

\* The records a started task ends are its own.
LEMMA OwnRecords ==
  ASSUME NEW g \in Gids, Exact(g) \/ Alone(g), MonitorTypes
  PROVE  /\ Matches(g) = {i \in Index : records[i].gid = g}
<1>1. \A i \in Index : records[i].gid \in Gids
  BY EntryTypes
<1> QED BY <1>1 DEF Matches, Exact, Alone

----------------------------------------------------------------------------
(* Steps that neither record nor announce anything. *)

EndsStay == \A g \in Gids : aria[g] \in Ended => aria'[g] = aria[g]
\* A message is kept by one store or the other, or its files are noted as forgotten.
Forgets ==
  /\ forgotten \subseteq forgotten'
  /\ \A m \in Stored(pushed, notices) :
       m \in Stored(pushed', notices') \/ (m.kind # "failed" => m.files \subseteq forgotten')
Quiet ==
  /\ UNCHANGED <<records, batches, told, joined>> /\ notices' \subseteq notices /\ Forgets
  /\ Stored(pushed', notices') \subseteq Stored(pushed, notices)
  /\ EndsStay /\ (Gone => Gone')
  /\ \A g \in Gids : aria[g] # "none" => aria'[g] # "none"

\* Nothing is announced, dropped or forgotten.
LEMMA NewsStay ==
  ASSUME UNCHANGED <<notices, pushed, forgotten>>
  PROVE  Forgets /\ Stored(pushed', notices') \subseteq Stored(pushed, notices)
BY DEF Forgets

\* What is announced stays settled, and the message of it remembered or noted as
\* forgotten, when its batch stays as it is.
LEMMA RepeatsStays ==
  ASSUME MonitorTypes, RecordsTrue, NEW g \in Gids, Repeats(g), EndsStay, Forgets,
         Batch(g)' = Batch(g), Merges(g) => \A i \in Batch(g) : records'[i] = records[i],
         Batch(g) \subseteq Index
  PROVE  Repeats(g)' \/ Forgotten(g)'
<1>1. aria'[g] = "complete"
  BY DEF Repeats, EndsStay, Ended
<1>2. Merges(g)' <=> Merges(g)
  BY DEF Merges
<1>3. ASSUME Merges(g)
      PROVE  /\ Settled(Batch(g))' /\ MergedMessage(Batch(g))' = MergedMessage(Batch(g))
             /\ MergedMessage(Batch(g)) \in Stored(pushed, notices)
             /\ fileOf[g] \in MergedMessage(Batch(g)).files
  <2>1. /\ Settled(Batch(g)) /\ MergedMessage(Batch(g)) \in Stored(pushed, notices)
        /\ fileOf[g] \in MergedMessage(Batch(g)).files
    BY <1>3 DEF Repeats
  <2>2. \A i \in Batch(g) : aria[records[i].gid] = "error" => aria'[records[i].gid] = "error"
    BY EntryTypes DEF EndsStay, Ended
  <2>3. Settled(Batch(g))'
    BY <1>3, <2>1, <2>2 DEF Settled
  <2>4. GidsAt(Complete(Batch(g)))' = GidsAt(Complete(Batch(g)))
    BY <1>3 DEF GidsAt, Complete
  <2>5. MergedMessage(Batch(g))' = MergedMessage(Batch(g))
    BY <2>4 DEF MergedMessage, Files_
  <2> QED BY <2>1, <2>3, <2>5
<1>4. CASE Merges(g)
  <2> DEFINE m == MergedMessage(Batch(g))
  <2>1. m.kind = "merged"
    BY DEF MergedMessage
  <2>2. m \in Stored(pushed', notices') \/ m.files \subseteq forgotten'
    BY <1>3, <1>4, <2>1 DEF Forgets
  <2>3. CASE m \in Stored(pushed', notices')
    <3>1. Stored(pushed, notices)' = Stored(pushed', notices')
      BY DEF Stored, Message, Files_
    <3> QED BY <1>1, <1>2, <1>3, <1>4, <2>3, <3>1 DEF Repeats
  <2>4. CASE m.files \subseteq forgotten'
    BY <1>3, <1>4, <2>4 DEF Forgotten
  <2> QED BY <2>2, <2>3, <2>4
<1>5. CASE ~Merges(g)
  <2> DEFINE m == SingleMessage(g)
  <2>1. m.kind = "single" /\ m.files = {fileOf[g]} /\ m \in Stored(pushed, notices)
    BY <1>5 DEF SingleMessage, Repeats
  <2>2. m \in Stored(pushed', notices') \/ m.files \subseteq forgotten'
    BY <2>1 DEF Forgets
  <2>3. CASE m \in Stored(pushed', notices')
    <3>1. Stored(pushed, notices)' = Stored(pushed', notices') /\ SingleMessage(g)' = m
      BY DEF Stored, Message, Files_, SingleMessage
    <3> QED BY <1>1, <1>2, <1>5, <2>3, <3>1 DEF Repeats
  <2>4. CASE m.files \subseteq forgotten'
    BY <2>1, <2>4 DEF Forgotten
  <2> QED BY <2>2, <2>3, <2>4
<1> QED BY <1>4, <1>5

\* A batch is made of records.
LEMMA BatchInIndex == ASSUME NEW g PROVE Batch(g) \subseteq Index
BY DEF Batch

\* Such a step changes nothing that is recorded or has been told.
LEMMA QuietKeeps ==
  ASSUME MonitorTypes, RecordsTrue, NewsTrue, ToldTrue, Quiet
  PROVE  RecordsTrue' /\ NewsTrue' /\ ToldTrue'
<1>1. RecordsTrue'
  <2>1. \A i \in Index : records[i].gid \in Gids
    BY EntryTypes
  <2> QED BY <2>1 DEF RecordsTrue, Quiet, EndsStay, Ended, Index, NameAt
<1>2. NewsTrue'
  <2>1. \A n \in notices : n.gids \subseteq Gids
    BY DEF MonitorTypes, News
  <2> QED BY <2>1 DEF NewsTrue, Quiet, EndsStay, Ended, Index
<1>3. ToldTrue'
  <2> SUFFICES ASSUME ~Gone', NEW g \in Gids, told'[g] # 0
               PROVE  aria'[g] = "complete" /\ (Excused(g)' \/ (told'[g] = 1 /\ Repeats(g)'))
    BY DEF ToldTrue
  <2>1. /\ aria[g] = "complete" /\ told'[g] = told[g]
        /\ Excused(g) \/ (told[g] = 1 /\ Repeats(g))
    BY DEF ToldTrue, Quiet
  <2>2. aria'[g] = "complete"
    BY <2>1 DEF Quiet, EndsStay, Ended
  <2>3. Excused(g) => Excused(g)'
    BY DEF Excused, Forgotten, Joined, Quiet, Forgets, Index
  <2>4. Batch(g)' = Batch(g)
    BY DEF Quiet, Batch, Index
  <2>5. Repeats(g) => Repeats(g)' \/ Forgotten(g)'
    BY <2>4, RepeatsStays, BatchInIndex DEF Quiet
  <2> QED BY <2>1, <2>2, <2>3, <2>5 DEF Excused
<1> QED BY <1>1, <1>2, <1>3

\* A poll that does nothing meanwhile.
LEMMA QuietScan ==
  ASSUME MonitorTypes, NEW s \in Scanners, ScanOk(s), Quiet, scan'[s] = scan[s]
  PROVE  ScanOk(s)'
<1>1. scan[s].todo \subseteq Gids /\ scan[s].task \subseteq Gids /\ scan[s].hist \subseteq News
  BY DEF MonitorTypes, ScanState
<1>2. \A n \in scan[s].hist : n.gids \subseteq Gids
  BY <1>1 DEF News
<1>3. (scan[s].todo \subseteq scan[s].list /\ \A g \in scan[s].todo : aria[g] \in Ended)'
  BY <1>1 DEF ScanOk, Quiet, EndsStay
<1>4. (~Gone /\ scan[s].pc # "idle" =>
         \A i \in Index : records[i].done => records[i].gid \in scan[s].list)'
  BY DEF ScanOk, Quiet, Index
<1>5. ASSUME scan[s].pc = "decide"
      PROVE (/\ \E g \in scan[s].todo : scan[s].task = {g}
             /\ \A g \in scan[s].task : aria[g] = "complete" =>
                  \A i \in Index : records[i].gid = g => records[i].done
             /\ Stored(pushed, notices) \subseteq Stored(scan[s].sent, scan[s].hist)
             /\ \A n \in scan[s].hist : n.kind = "failed" => \A g \in n.gids : aria[g] = "error")'
  <2>1. \A g \in scan[s].task : aria[g] \in Ended
    BY <1>5 DEF ScanOk
  <2>2. Stored(pushed', notices') \subseteq Stored(scan'[s].sent, scan'[s].hist)
    BY <1>5 DEF ScanOk, Quiet
  <2>3. (Stored(pushed, notices) \subseteq Stored(scan[s].sent, scan[s].hist))'
    BY <2>2 DEF Stored, Message, Files_
  <2> QED BY <1>1, <1>2, <1>5, <2>1, <2>3 DEF ScanOk, Quiet, EndsStay, Ended, Index
<1> QED BY <1>3, <1>4, <1>5 DEF ScanOk

\* All polls wait.
LEMMA QuietScans ==
  ASSUME MonitorTypes, ScanTrue, Quiet, scan' = scan
  PROVE  ScanTrue'
BY QuietScan DEF ScanTrue

\* Nothing is recorded or started: what is known of the tasks stays.
LEMMA RecordingStays ==
  ASSUME RecordingTrue, TasksKnown, UNCHANGED <<aria, recording, batches, records>>,
         listed' \subseteq listed
  PROVE  RecordingTrue' /\ TasksKnown'
<1>1. RecordingTrue'
  BY DEF RecordingTrue, NewFiles, NewTask, Exact, Index, NameAt
<1>2. \A g : Known(g)' <=> Known(g)
  BY DEF Known, Exact, Alone, Index
<1>3. TasksKnown'
  BY <1>2 DEF TasksKnown
<1> QED BY <1>1, <1>3

----------------------------------------------------------------------------
(* Aria2's side. *)

\* New files are handed to Aria2: none of them has a record yet.
LEMMA SubmitKeeps ==
  ASSUME MonitorTypes, Rest, NEW G \in SUBSET Gids, Submit(G)
  PROVE  MonitorTypes' /\ Rest'
<1>1. /\ UNCHANGED <<listed, records, batches, completed, notices, pushed, told, forgotten, joined, known, scan>>
      /\ aria' = [g \in Gids |-> IF g \in G THEN "active" ELSE aria[g]]
      /\ recording = {} /\ recording' = {<<g, g>> : g \in G} /\ batches < MaxBatch
  BY DEF Submit, NewsVars
<1>2. \A g \in G : aria[g] = "none" /\ \A i \in Index : NameAt(i) # fileOf[g]
  BY DEF Submit, New, NameAt
<1>3. \A g, h \in G : fileOf[g] = fileOf[h] => g = h
  BY DEF Submit
<1>4. MonitorTypes'
  <2>1. aria' \in [Gids -> {"none", "active", "removed"} \cup Ended]
    BY <1>1 DEF MonitorTypes
  <2>2. recording' \in SUBSET (Gids \X Gids)
    BY <1>1
  <2> QED BY <1>1, <2>1, <2>2 DEF MonitorTypes
<1>5. \A g \in Gids : (aria[g] # "none" => aria'[g] = aria[g]) /\ (g \in G => aria'[g] = "active")
  BY <1>1, <1>2
<1>6. Quiet
  <2>1. EndsStay
    BY <1>5 DEF EndsStay, Ended
  <2>2. Gone => Gone'
    BY <1>1, <2>1 DEF Gone, EndsStay
  <2> QED BY <1>1, <1>5, <2>1, <2>2, NewsStay DEF Quiet
<1>7. RecordsTrue' /\ NewsTrue' /\ ToldTrue' /\ ScanTrue'
  BY <1>1, <1>6, QuietKeeps, QuietScans DEF Rest
<1>8. RecordingTrue'
  <2>1. \A p \in recording' : p[1] \in G /\ p[2] = p[1]
    BY <1>1
  <2>2. \A p \in recording' : p = <<p[1], p[1]>>
    BY <1>1
  <2>3. \A p \in recording' : aria'[p[2]] = "active"
    BY <1>5, <2>1
  <2>4. NewFiles'
    BY <1>1, <1>2, <1>3, <2>1, <2>2 DEF NewFiles, Index, NameAt
  <2> QED BY <1>1, <2>3, <2>4 DEF RecordingTrue
<1>9. TasksKnown'
  <2> SUFFICES ASSUME NEW g \in Gids,
                      (\/ aria[g] \in {"active", "complete"}
                       \/ aria[g] \in {"error", "removed"} /\ g \in listed)'
               PROVE  Known(g)'
    BY DEF TasksKnown
  <2>1. CASE g \in G
    <3>1. <<g, g>> \in recording' /\ <<g, g>>[2] = g
      BY <1>1, <2>1
    <3>2. \E p \in recording' : p[2] = g
      BY <3>1
    <3> QED BY <1>5, <2>1, <3>2 DEF Known
  <2>2. CASE g \notin G
    <3>1. aria'[g] = aria[g]
      BY <1>1, <2>2
    <3>2. Known(g)
      BY <1>1, <3>1 DEF Rest, TasksKnown
    <3> QED BY <1>1, <3>2 DEF Known, Exact, Alone, Index
  <2> QED BY <2>1, <2>2
<1> QED BY <1>4, <1>7, <1>8, <1>9 DEF Rest

\* A failed task is started again: it had a record, as its file has two tasks.
LEMMA RetryKeeps ==
  ASSUME MonitorTypes, Rest, NEW old \in Gids, NEW new \in Gids, Retry(old, new)
  PROVE  MonitorTypes' /\ Rest'
<1>1. /\ UNCHANGED <<listed, records, batches, completed, notices, pushed, told, forgotten, joined, known, scan>>
      /\ aria' = [aria EXCEPT ![new] = "active"]
      /\ recording = {} /\ recording' = {<<old, new>>} /\ batches < MaxBatch
      /\ aria[old] \in {"error", "removed"} /\ old \in listed /\ aria[new] = "none"
      /\ fileOf[new] = fileOf[old]
  BY DEF Retry, New, NewsVars
<1>2. aria \in [Gids -> {"none", "active", "removed"} \cup Ended]
  BY DEF MonitorTypes
<1>3. old # new /\ aria'[new] = "active" /\ \A g \in Gids : aria[g] # "none" => aria'[g] = aria[g]
  BY <1>1, <1>2
<1>4. MonitorTypes'
  <2>1. aria' \in [Gids -> {"none", "active", "removed"} \cup Ended]
    BY <1>1, <1>2
  <2>2. recording' \in SUBSET (Gids \X Gids)
    BY <1>1
  <2> QED BY <1>1, <2>1, <2>2 DEF MonitorTypes
<1>5. Quiet
  <2>1. EndsStay
    BY <1>3 DEF EndsStay, Ended
  <2>2. Gone => Gone'
    BY <1>1, <2>1 DEF Gone, EndsStay
  <2>3. \A g \in Gids : aria[g] # "none" => aria'[g] # "none"
    BY <1>3
  <2> QED BY <1>1, <2>1, <2>2, <2>3, NewsStay DEF Quiet
<1>6. RecordsTrue' /\ NewsTrue' /\ ToldTrue' /\ ScanTrue'
  BY <1>1, <1>5, QuietKeeps, QuietScans DEF Rest
<1>7. Exact(old)
  <2>1. Known(old)
    BY <1>1 DEF Rest, TasksKnown
  <2>2. ~Alone(old)
    BY <1>1, <1>3 DEF Alone
  <2> QED BY <1>1, <2>1, <2>2 DEF Known
<1>8. RecordingTrue'
  <2>1. NewTask'
    BY <1>1, <1>3, <1>7 DEF NewTask, Exact, Index
  <2> QED BY <1>1, <1>3, <2>1 DEF RecordingTrue
<1>9. TasksKnown'
  <2> SUFFICES ASSUME NEW g \in Gids,
                      (\/ aria[g] \in {"active", "complete"}
                       \/ aria[g] \in {"error", "removed"} /\ g \in listed)'
               PROVE  Known(g)'
    BY DEF TasksKnown
  <2>1. CASE g = new
    <3>1. <<old, new>> \in recording' /\ <<old, new>>[2] = g
      BY <1>1, <2>1
    <3>2. \E p \in recording' : p[2] = g
      BY <3>1
    <3> QED BY <1>3, <2>1, <3>2 DEF Known
  <2>2. CASE g # new
    <3>1. aria'[g] = aria[g]
      BY <1>1, <1>2, <2>2
    <3>2. Known(g)
      BY <1>1, <3>1 DEF Rest, TasksKnown
    <3> QED BY <1>1, <3>2 DEF Known, Exact, Alone, Index
  <2> QED BY <2>1, <2>2
<1> QED BY <1>4, <1>6, <1>8, <1>9 DEF Rest

\* A download by hand is the only task of its file.
LEMMA SendByHandKeeps ==
  ASSUME MonitorTypes, Rest, NEW g \in Gids, SendByHand(g)
  PROVE  MonitorTypes' /\ Rest'
<1>1. /\ UNCHANGED <<listed, records, completed, recording, batches, notices, pushed, told, forgotten, joined, known, scan>>
      /\ aria' = [aria EXCEPT ![g] = "active"] /\ aria[g] = "none"
      /\ Alone(g)
  BY DEF SendByHand, NewsVars, StoreVars, Alone
<1>2. aria \in [Gids -> {"none", "active", "removed"} \cup Ended] /\ recording \subseteq Gids \X Gids
  BY DEF MonitorTypes
<1>3. aria'[g] = "active" /\ \A h \in Gids : aria[h] # "none" => aria'[h] = aria[h]
  BY <1>1, <1>2
<1>4. MonitorTypes'
  <2>1. aria' \in [Gids -> {"none", "active", "removed"} \cup Ended]
    BY <1>1, <1>2
  <2> QED BY <1>1, <2>1 DEF MonitorTypes
<1>5. Quiet
  <2>1. EndsStay
    BY <1>3 DEF EndsStay, Ended
  <2>2. Gone => Gone'
    BY <1>1, <2>1 DEF Gone, EndsStay
  <2>3. \A h \in Gids : aria[h] # "none" => aria'[h] # "none"
    BY <1>3
  <2> QED BY <1>1, <2>1, <2>2, <2>3, NewsStay DEF Quiet
<1>6. RecordsTrue' /\ NewsTrue' /\ ToldTrue' /\ ScanTrue'
  BY <1>1, <1>5, QuietKeeps, QuietScans DEF Rest
<1>7. RecordingTrue'
  <2>1. \A p \in recording : p[2] \in Gids /\ aria[p[2]] = "active"
    BY <1>2 DEF Rest, RecordingTrue
  <2>2. \A p \in recording : aria'[p[2]] = "active"
    BY <1>3, <2>1
  <2>3. NewFiles => NewFiles'
    BY <1>1 DEF NewFiles, Index, NameAt
  <2>4. NewTask => NewTask'
    BY <1>1, <1>3 DEF NewTask, Exact, Index
  <2> QED BY <1>1, <2>2, <2>3, <2>4 DEF Rest, RecordingTrue
<1>8. TasksKnown'
  <2> SUFFICES ASSUME NEW h \in Gids,
                      (\/ aria[h] \in {"active", "complete"}
                       \/ aria[h] \in {"error", "removed"} /\ h \in listed)'
               PROVE  Known(h)'
    BY DEF TasksKnown
  <2>1. CASE h = g
    BY <1>1, <2>1 DEF Known, Alone
  <2>2. CASE h # g
    <3>1. aria'[h] = aria[h]
      BY <1>1, <1>2, <2>2
    <3>2. Known(h)
      BY <1>1, <3>1 DEF Rest, TasksKnown
    <3> QED BY <1>1, <3>1, <3>2 DEF Known, Exact, Alone, Index
  <2> QED BY <2>1, <2>2
<1> QED BY <1>4, <1>6, <1>7, <1>8 DEF Rest

\* A task ends only when its record is written.
LEMMA EndKeeps ==
  ASSUME ~Window, MonitorTypes, Rest, NEW g \in Gids, NEW how \in Ended \cup {"removed"}, End(g, how)
  PROVE  MonitorTypes' /\ Rest'
<1>1. /\ UNCHANGED <<records, completed, recording, batches, notices, pushed, told, forgotten, joined, known, scan>>
      /\ aria' = [aria EXCEPT ![g] = how] /\ aria[g] = "active" /\ listed' = listed \cup {g}
      /\ \A p \in recording : p[2] # g
  BY DEF End, NewsVars, StoreVars
<1>2. aria \in [Gids -> {"none", "active", "removed"} \cup Ended] /\ recording \subseteq Gids \X Gids
  BY DEF MonitorTypes
<1>3. /\ aria'[g] = how /\ how # "none"
      /\ \A h \in Gids : h # g => aria'[h] = aria[h]
  BY <1>1, <1>2 DEF Ended
<1>4. MonitorTypes'
  <2>1. aria' \in [Gids -> {"none", "active", "removed"} \cup Ended]
    BY <1>1, <1>2 DEF Ended
  <2> QED BY <1>1, <2>1 DEF MonitorTypes
<1>5. Quiet
  <2>1. EndsStay
    BY <1>1, <1>3 DEF EndsStay, Ended
  <2>2. Gone => Gone'
    <3>1. ASSUME NEW h \in Gids, aria[h] \in Ended, h \notin listed
          PROVE  aria'[h] \in Ended /\ h \notin listed'
      <4>1. h # g
        BY <1>1, <3>1 DEF Ended
      <4> QED BY <1>1, <1>3, <3>1, <4>1
    <3> QED BY <3>1 DEF Gone
  <2>3. \A h \in Gids : aria[h] # "none" => aria'[h] # "none"
    BY <1>3
  <2> QED BY <1>1, <2>1, <2>2, <2>3, NewsStay DEF Quiet
<1>6. RecordsTrue' /\ NewsTrue' /\ ToldTrue' /\ ScanTrue'
  BY <1>1, <1>5, QuietKeeps, QuietScans DEF Rest
<1>7. RecordingTrue'
  <2>1. \A p \in recording : p[2] \in Gids /\ aria[p[2]] = "active"
    BY <1>2 DEF Rest, RecordingTrue
  <2>2. \A p \in recording : aria'[p[2]] = "active"
    BY <1>1, <1>3, <2>1
  <2>3. NewFiles => NewFiles'
    BY <1>1 DEF NewFiles, Index, NameAt
  <2>4. NewTask => NewTask'
    BY <1>1, <1>3 DEF NewTask, Exact, Index
  <2> QED BY <1>1, <2>2, <2>3, <2>4 DEF Rest, RecordingTrue
<1>8. TasksKnown'
  <2> SUFFICES ASSUME NEW h \in Gids,
                      (\/ aria[h] \in {"active", "complete"}
                       \/ aria[h] \in {"error", "removed"} /\ h \in listed)'
               PROVE  Known(h)'
    BY DEF TasksKnown
  <2>1. CASE h = g
    <3>1. Known(g)
      BY <1>1 DEF Rest, TasksKnown
    <3> QED BY <1>1, <2>1, <3>1 DEF Known, Exact, Alone, Index
  <2>2. CASE h # g
    <3>1. aria'[h] = aria[h] /\ (h \in listed' => h \in listed)
      BY <1>1, <1>3, <2>2
    <3>2. Known(h)
      BY <3>1 DEF Rest, TasksKnown
    <3> QED BY <1>1, <3>1, <3>2 DEF Known, Exact, Alone, Index
  <2> QED BY <2>1, <2>2
<1> QED BY <1>4, <1>6, <1>7, <1>8 DEF Rest

\* A result is removed from the list.
LEMMA DeleteKeeps ==
  ASSUME MonitorTypes, Rest, NEW g \in Gids, Delete(g)
  PROVE  MonitorTypes' /\ Rest'
<1>1. /\ UNCHANGED <<aria, records, completed, recording, batches, notices, pushed, told, forgotten, joined, known, scan>>
      /\ listed' = listed \ {g}
  BY DEF Delete, NewsVars, StoreVars
<1>2. MonitorTypes'
  BY <1>1 DEF MonitorTypes
<1>3. Quiet
  BY <1>1, NewsStay DEF Quiet, EndsStay, Gone
<1> QED BY <1>1, <1>2, <1>3, QuietKeeps, QuietScans, RecordingStays DEF Rest

\* Messages are dropped: of each, what the other store does not keep is noted.
Drops(P, N) ==
  /\ UNCHANGED <<aria, listed, records, completed, recording, batches, told, joined, known, scan>>
  /\ P \subseteq Stored(pushed, notices) /\ pushed' = P /\ N \subseteq notices /\ notices' = N
  /\ forgotten' = forgotten \cup FilesOf(Stored(pushed, notices) \ Stored(P, N))

\* The message of a notification is one.
LEMMA MessageType ==
  ASSUME NEW n \in News
  PROVE  Message(n) \in Messages
<1>1. n.gids \subseteq Gids /\ n.kind \in {"failed", "single", "merged"} /\ n.sized \subseteq Files
  BY DEF News
<1>2. Files_(n.gids) \in SUBSET Files
  BY <1>1, MonitorAssumption DEF Files_
<1> QED BY <1>1, <1>2 DEF Message, Messages

\* Dropping messages keeps the invariant.
LEMMA DropsKeep ==
  ASSUME MonitorTypes, Rest, NEW P, NEW N, Drops(P, N)
  PROVE  MonitorTypes' /\ Rest'
<1>1. Stored(pushed, notices) \in SUBSET Messages
  BY MessageType DEF Stored, MonitorTypes
<1>2. MonitorTypes'
  BY <1>1 DEF MonitorTypes, Drops
<1>3. Forgets
  <2> SUFFICES ASSUME NEW m \in Stored(pushed, notices), m \notin Stored(P, N), m.kind # "failed"
               PROVE  m.files \subseteq forgotten'
    BY DEF Forgets, Drops
  <2> QED BY DEF Drops, FilesOf
<1>4. Stored(pushed', notices') \subseteq Stored(pushed, notices)
  BY DEF Drops, Stored
<1>5. Quiet
  BY <1>3, <1>4 DEF Quiet, EndsStay, Gone, Drops
<1> QED BY <1>2, <1>5, QuietKeeps, QuietScans, RecordingStays DEF Rest, Drops

\* The user empties the list.
LEMMA ClearKeeps ==
  ASSUME MonitorTypes, Rest, Clear
  PROVE  MonitorTypes' /\ Rest'
<1>1. PICK M \in SUBSET {Message(n) : n \in notices} :
        /\ pushed' = pushed \cup M
        /\ forgotten' = forgotten \cup FilesOf({Message(n) : n \in notices} \ pushed')
  BY DEF Clear
<1>2. /\ UNCHANGED <<aria, listed, records, completed, recording, batches, told, joined, known, scan>>
      /\ notices' = {}
  BY DEF Clear, AriaVars, StoreVars
<1>3. Stored(pushed, notices) \ Stored(pushed \cup M, {}) = {Message(n) : n \in notices} \ pushed'
  BY <1>1 DEF Stored
<1>4. pushed \cup M \subseteq Stored(pushed, notices)
  BY DEF Stored
<1>5. Drops(pushed \cup M, {})
  BY <1>1, <1>2, <1>3, <1>4 DEF Drops
<1> QED BY <1>5, DropsKeep

\* A job leaves the list.
LEMMA PushForgottenKeeps ==
  ASSUME MonitorTypes, Rest, NEW m \in pushed, PushForgotten(m)
  PROVE  MonitorTypes' /\ Rest'
<1>1. /\ UNCHANGED <<aria, listed, records, completed, recording, batches, told, joined, known, scan, notices>>
      /\ pushed' = pushed \ {m}
      /\ forgotten' = forgotten \cup FilesOf({m} \ {Message(n) : n \in notices})
  BY DEF PushForgotten, AriaVars, StoreVars
<1>2. Stored(pushed, notices) \ Stored(pushed \ {m}, notices) = {m} \ {Message(n) : n \in notices}
  BY DEF Stored
<1>3. pushed \ {m} \subseteq Stored(pushed, notices)
  BY DEF Stored
<1>4. Drops(pushed \ {m}, notices)
  BY <1>1, <1>2, <1>3 DEF Drops
<1> QED BY <1>4, DropsKeep

----------------------------------------------------------------------------
(* What a poll does that says nothing. *)

\* A step of the poll s that leaves the rest of the system alone.
PollOnly(s, x) ==
  /\ UNCHANGED <<aria, records, completed, recording, batches, notices, pushed, told, forgotten, joined>>
  /\ listed' \subseteq listed /\ known' \in SUBSET (Ended \X (Gids \cup Files))
  /\ scan' = [scan EXCEPT ![s] = x]

\* A poll that moves on keeps the invariant, when it does so for its own state.
LEMMA PollOnlyKeeps ==
  ASSUME OnePoll, MonitorTypes, Rest, NEW s \in Scanners, NEW x \in ScanState, PollOnly(s, x), ScanOk(s)'
  PROVE  MonitorTypes' /\ Rest'
<1>1. MonitorTypes'
  <2>1. scan' \in [Scanners -> ScanState]
    BY DEF MonitorTypes, PollOnly
  <2> QED BY <2>1 DEF MonitorTypes, PollOnly
<1>2. Quiet
  BY NewsStay DEF Quiet, PollOnly, EndsStay, Gone
<1>3. ScanTrue'
  BY DEF ScanTrue, OnePoll
<1>4. RecordsTrue' /\ NewsTrue' /\ ToldTrue'
  BY <1>2, QuietKeeps DEF Rest
<1>5. RecordingTrue' /\ TasksKnown'
  BY RecordingStays DEF Rest, PollOnly
<1> QED BY <1>1, <1>3, <1>4, <1>5 DEF Rest

\* What is done is listed, as long as nothing is gone.
LEMMA DoneListed ==
  ASSUME MonitorTypes, RecordsTrue, ~Gone, NEW i \in Index, records[i].done
  PROVE  records[i].gid \in listed
BY EntryTypes DEF RecordsTrue, Gone, Ended

\* A poll lists all that has ended and is not gone.
LEMMA ListKeeps ==
  ASSUME OnePoll, MonitorTypes, Rest, NEW s \in Scanners, NEW purge \in BOOLEAN, List(s, purge)
  PROVE  MonitorTypes' /\ Rest'
<1> DEFINE x == [NoScan EXCEPT !.pc = "claim", !.list = listed, !.purge = purge]
<1>1. /\ UNCHANGED <<aria, listed, records, completed, recording, batches, notices, pushed, told, forgotten, joined, known>>
      /\ scan' = [scan EXCEPT ![s] = x]
  BY DEF List, AriaVars, StoreVars, NewsVars
<1>2. x \in ScanState
  BY DEF NoScan, ScanState, MonitorTypes
<1>3. /\ scan'[s] = x /\ x.pc = "claim" /\ x.list = listed /\ x.todo = {} /\ x.task = {}
  BY <1>1 DEF NoScan, MonitorTypes
<1>4. ScanOk(s)'
  <2>1. Gone' <=> Gone
    BY <1>1 DEF Gone
  <2>2. (~Gone /\ scan[s].pc # "idle" =>
          \A i \in Index : records[i].done => records[i].gid \in scan[s].list)'
    BY <1>1, <1>3, <2>1, DoneListed DEF Rest, Index
  <2> QED BY <1>3, <2>2 DEF ScanOk
<1>5. PollOnly(s, x)
  BY <1>1 DEF PollOnly, MonitorTypes
<1> QED BY <1>2, <1>4, <1>5, PollOnlyKeeps

\* What is claimed has ended and was listed.
LEMMA ClaimKeeps ==
  ASSUME OnePoll, MonitorTypes, Rest, NEW s \in Scanners, Claim(s)
  PROVE  MonitorTypes' /\ Rest'
<1>1. /\ UNCHANGED <<aria, listed, records, completed, recording, batches, notices, pushed, told, forgotten, joined>>
      /\ scan[s].pc = "claim"
  BY DEF Claim, AriaVars, StoreVars, NewsVars
<1>2. PICK mine \in SUBSET Claimable(scan[s].list) :
        /\ known' = known \cup UNION {Keys(g) : g \in mine}
        /\ scan' = [scan EXCEPT ![s].todo = mine, ![s].pc = "work"]
  BY DEF Claim
<1>3. scan[s] \in ScanState
  BY DEF MonitorTypes
<1>4. mine \subseteq scan[s].list /\ mine \in SUBSET Gids /\ \A g \in mine : aria[g] \in Ended
  BY <1>3 DEF Claimable, ScanState
<1> DEFINE x == [scan[s] EXCEPT !.todo = mine, !.pc = "work"]
<1>5. x \in ScanState
  BY <1>3, <1>4 DEF ScanState
<1>6. scan' = [scan EXCEPT ![s] = x] /\ scan'[s] = x
  BY <1>2 DEF MonitorTypes
<1>7. x.pc = "work" /\ x.list = scan[s].list /\ x.todo = mine /\ x.task = scan[s].task
  BY <1>3 DEF ScanState
<1>8. scan[s].task = {} /\
      (~Gone => \A i \in Index : records[i].done => records[i].gid \in scan[s].list)
  BY <1>1 DEF Rest, ScanTrue, ScanOk
<1>9. ScanOk(s)'
  <2>1. (~Gone /\ scan[s].pc # "idle" =>
          \A i \in Index : records[i].done => records[i].gid \in scan[s].list)'
    BY <1>1, <1>6, <1>7, <1>8 DEF Index, Gone
  <2>2. (scan[s].todo \subseteq scan[s].list /\ \A g \in scan[s].todo : aria[g] \in Ended)'
    BY <1>1, <1>4, <1>6, <1>7
  <2> QED BY <1>6, <1>7, <1>8, <2>1, <2>2 DEF ScanOk
<1>10. PollOnly(s, x)
  <2>1. \A g \in mine : Keys(g) \in SUBSET (Ended \X (Gids \cup Files))
    BY <1>4, KeysType
  <2>2. UNION {Keys(g) : g \in mine} \in SUBSET (Ended \X (Gids \cup Files))
    BY <2>1
  <2>3. known' \in SUBSET (Ended \X (Gids \cup Files))
    BY <1>2, <2>2 DEF MonitorTypes
  <2> QED BY <1>1, <1>6, <2>3 DEF PollOnly
<1> QED BY <1>5, <1>9, <1>10, PollOnlyKeeps

\* Back to work, without the task g.
Without(s, g) == [scan[s] EXCEPT !.pc = "work", !.todo = scan[s].todo \ {g}, !.task = {}]

\* The poll without the task is a poll at work, with the list it had.
LEMMA WithoutType ==
  ASSUME MonitorTypes, NEW s \in Scanners, NEW g
  PROVE  /\ Without(s, g) \in ScanState
         /\ Without(s, g).pc = "work" /\ Without(s, g).todo = scan[s].todo \ {g}
         /\ Without(s, g).task = {} /\ Without(s, g).list = scan[s].list
<1>1. scan[s] \in ScanState
  BY DEF MonitorTypes
<1>2. scan[s].todo \ {g} \in SUBSET Gids /\ {} \in SUBSET Gids
  BY <1>1 DEF ScanState
<1> QED BY <1>1, <1>2, ScanGoesOn DEF Without, ScanState

\* A poll that gives its claim back, or has handled the task.
LEMMA WithoutOk ==
  ASSUME MonitorTypes, NEW s \in Scanners, NEW g, ScanOk(s), scan[s].pc # "idle",
         scan' = [scan EXCEPT ![s] = Without(s, g)],
         UNCHANGED <<aria, listed, records>>
  PROVE  ScanOk(s)' /\ scan' \in [Scanners -> ScanState]
<1>1. scan'[s] = Without(s, g)
  BY DEF MonitorTypes
<1>2. (~Gone /\ scan[s].pc # "idle" =>
        \A i \in Index : records[i].done => records[i].gid \in scan[s].list)'
  BY <1>1, WithoutType DEF ScanOk, Gone, Index
<1>3. (scan[s].todo \subseteq scan[s].list /\ \A h \in scan[s].todo : aria[h] \in Ended)'
  BY <1>1, WithoutType DEF ScanOk
<1>4. ScanOk(s)'
  BY <1>1, <1>2, <1>3, WithoutType DEF ScanOk
<1>5. scan' \in [Scanners -> ScanState]
  BY WithoutType DEF MonitorTypes
<1> QED BY <1>4, <1>5

\* Defer and DecideFails give the claim back.
LEMMA ReleaseKeeps ==
  ASSUME OnePoll, MonitorTypes, Rest, NEW s \in Scanners, NEW g \in Gids,
         Defer(s, g) \/ DecideFails(s, g)
  PROVE  MonitorTypes' /\ Rest'
<1>1. /\ UNCHANGED <<aria, listed, records, completed, recording, batches, notices, pushed, told, forgotten, joined>>
      /\ Release(s, g) /\ scan[s].pc # "idle"
  BY DEF Defer, DecideFails, AriaVars, StoreVars, NewsVars
<1>2. scan' = [scan EXCEPT ![s] = Without(s, g)]
  BY <1>1 DEF Release, Without, MonitorTypes
<1>3. known' \in SUBSET (Ended \X (Gids \cup Files))
  BY <1>1 DEF Release, MonitorTypes
<1>4. PollOnly(s, Without(s, g))
  BY <1>1, <1>2, <1>3 DEF PollOnly
<1>5. ScanOk(s)'
  BY <1>1, <1>2, WithoutOk DEF Rest, ScanTrue
<1> QED BY <1>4, <1>5, WithoutType, PollOnlyKeeps

\* An idle poll has nothing to answer for.
LEMMA IdleOk ==
  ASSUME NEW s, scan'[s] = NoScan
  PROVE  ScanOk(s)'
BY DEF ScanOk, NoScan

\* The poll is over, with a purge or without.
LEMMA FinishKeeps ==
  ASSUME OnePoll, MonitorTypes, Rest, NEW s \in Scanners, Finish(s)
  PROVE  MonitorTypes' /\ Rest'
<1>1. /\ UNCHANGED <<aria, records, completed, recording, batches, notices, pushed, told, forgotten, joined, known>>
      /\ listed' \subseteq listed /\ scan' = [scan EXCEPT ![s] = NoScan]
  BY DEF Finish, StoreVars, NewsVars
<1>2. ScanOk(s)'
  BY <1>1, IdleOk DEF MonitorTypes
<1>3. PollOnly(s, NoScan)
  BY <1>1 DEF PollOnly, MonitorTypes
<1> QED BY <1>2, <1>3, NoScanType, PollOnlyKeeps

\* A restart forgets claims and polls, and leaves what is stored.
LEMMA CrashKeeps ==
  ASSUME ~Window, MonitorTypes, Rest, Crash
  PROVE  MonitorTypes' /\ Rest'
<1>1. /\ UNCHANGED <<aria, listed, records, completed, recording, batches, notices, pushed, told, forgotten, joined>>
      /\ known' = {} /\ scan' = [s \in Scanners |-> NoScan]
  BY DEF Crash, AriaVars, NewsVars
<1>2. MonitorTypes'
  BY <1>1, NoScanType DEF MonitorTypes
<1>3. Quiet
  BY <1>1, NewsStay DEF Quiet, EndsStay, Gone
<1>4. ScanTrue'
  BY <1>1, IdleOk DEF ScanTrue
<1>5. RecordingTrue' /\ TasksKnown'
  BY <1>1, RecordingStays DEF Rest
<1> QED BY <1>2, <1>3, <1>4, <1>5, QuietKeeps DEF Rest

----------------------------------------------------------------------------
(* What a poll announces. *)

\* An announcement counts for the files it names, unless it tells of a failure.
LEMMA AnnounceType ==
  ASSUME MonitorTypes, NEW n \in News, Announce(n)
  PROVE  /\ notices' \in SUBSET News /\ told' \in [Gids -> 0..2]
         /\ UNCHANGED <<pushed, forgotten>> /\ notices \subseteq notices'
         /\ Message(n) \in Stored(pushed', notices')
         /\ \A g \in Gids : told'[g] = IF n.kind # "failed" /\ g \in n.gids /\ told[g] < 2
                                       THEN told[g] + 1 ELSE told[g]
<1>1. told' \in [Gids -> 0..2]
  <2>1. \A g \in Gids : told[g] \in 0..2 /\ (told[g] < 2 => told[g] + 1 \in 0..2)
    BY DEF MonitorTypes
  <2> QED BY <2>1 DEF Announce
<1>2. Message(n) \in Stored(pushed', notices')
  BY DEF Announce, Stored
<1> QED BY <1>1, <1>2 DEF Announce, MonitorTypes

\* The parts of a notification.
LEMMA NoticeType ==
  ASSUME NEW kind \in {"failed", "single", "merged"}, NEW G \in SUBSET Gids, NEW F \in SUBSET Files
  PROVE  /\ Notice(kind, G, F) \in News
         /\ Notice(kind, G, F).kind = kind /\ Notice(kind, G, F).gids = G
         /\ Notice(kind, G, F).sized = F
         /\ Message(Notice(kind, G, F)) = [kind |-> kind, files |-> Files_(G), sized |-> F]
BY DEF Notice, News, Message

\* What is decided of the task g of the poll s, whatever is announced.
Decides(s, g) ==
  /\ UNCHANGED <<aria, listed, records, completed, recording, batches, joined, known>>
  /\ scan[s].pc = "decide" /\ scan[s].task = {g} /\ scan' = [scan EXCEPT ![s] = Without(s, g)]

\* A decision keeps the invariant, when it does so for what has been told.
LEMMA DecidesKeeps ==
  ASSUME OnePoll, MonitorTypes, Rest, NEW s \in Scanners, NEW g \in Gids, Decides(s, g),
         notices' \in SUBSET News /\ pushed' \in SUBSET Messages /\ told' \in [Gids -> 0..2],
         NewsTrue', ToldTrue'
  PROVE  MonitorTypes' /\ Rest'
<1>1. ScanOk(s)' /\ scan' \in [Scanners -> ScanState]
  BY WithoutOk DEF Rest, ScanTrue, Decides
<1>2. MonitorTypes'
  BY <1>1 DEF MonitorTypes, Decides
<1>3. RecordsTrue'
  BY DEF Rest, RecordsTrue, Decides, Index, NameAt
<1>4. RecordingTrue' /\ TasksKnown'
  BY RecordingStays DEF Rest, Decides
<1>5. ScanTrue'
  BY <1>1 DEF ScanTrue, OnePoll
<1> QED BY <1>2, <1>3, <1>4, <1>5 DEF Rest

\* A message more, and for some files the first announcement of their end.
MoreNews == UNCHANGED <<aria, listed, records, joined, pushed, forgotten>> /\ notices \subseteq notices'
LEMMA ToldStays ==
  ASSUME MonitorTypes, RecordsTrue, ToldTrue, MoreNews,
         ~Gone => \A h \in Gids :
           \/ told'[h] = told[h]
           \/ aria[h] = "complete" /\ (Excused(h) \/ (told'[h] = 1 /\ Repeats(h)'))
  PROVE  ToldTrue'
<1> SUFFICES ASSUME ~Gone', NEW h \in Gids, told'[h] # 0
             PROVE  aria'[h] = "complete" /\ (Excused(h)' \/ (told'[h] = 1 /\ Repeats(h)'))
  BY DEF ToldTrue
<1>1. ~Gone /\ aria' = aria
  BY DEF Gone, MoreNews
<1>2. Excused(h)' <=> Excused(h)
  BY DEF Excused, Forgotten, Joined, Index, MoreNews
<1>3. CASE aria[h] = "complete" /\ (Excused(h) \/ (told'[h] = 1 /\ Repeats(h)'))
  BY <1>1, <1>2, <1>3
<1>4. CASE told'[h] = told[h]
  <2>1. aria[h] = "complete" /\ (Excused(h) \/ (told[h] = 1 /\ Repeats(h)))
    BY <1>1, <1>4 DEF ToldTrue
  <2>2. Batch(h)' = Batch(h)
    BY DEF Batch, Index, MoreNews
  <2>3. EndsStay /\ Forgets
    BY <1>1 DEF EndsStay, Forgets, MoreNews, Stored
  <2>4. Repeats(h) => Repeats(h)' \/ Forgotten(h)'
    BY <2>2, <2>3, RepeatsStays, BatchInIndex DEF MoreNews
  <2> QED BY <1>1, <1>2, <1>4, <2>1, <2>4 DEF Excused
<1> QED BY <1>1, <1>3, <1>4

\* A failure that is announced is one.
LEMMA DecideFailedKeeps ==
  ASSUME OnePoll, MonitorTypes, Rest, NEW s \in Scanners, NEW g \in Gids, DecideFailed(s, g)
  PROVE  MonitorTypes' /\ Rest'
<1> DEFINE n == Notice("failed", {g}, {})
<1>1. Decides(s, g) /\ aria[g] = "error"
  BY DEF DecideFailed, Decides, Handled, Without, AriaVars, StoreVars, MonitorTypes
<1>2. UNCHANGED NewsVars \/ Announce(n)
  BY DEF DecideFailed
<1>3. UNCHANGED <<aria, listed, records, joined>>
  BY <1>1 DEF Decides
<1>4. n \in News /\ n.kind = "failed" /\ n.gids = {g}
  BY NoticeType
<1> HIDE DEF n
<1>5. notices' \in SUBSET News /\ pushed' \in SUBSET Messages /\ told' \in [Gids -> 0..2]
  BY <1>2, <1>4, AnnounceType DEF NewsVars, MonitorTypes
<1>6. MoreNews /\ \A h \in Gids : told'[h] = told[h]
  BY <1>2, <1>3, <1>4, AnnounceType DEF NewsVars, MoreNews
<1>7. ToldTrue'
  BY <1>6, ToldStays DEF Rest
<1>8. NewsTrue'
  <2>1. notices' \subseteq notices \cup {n}
    BY <1>2 DEF Announce, NewsVars
  <2> QED BY <1>1, <1>3, <1>4, <2>1 DEF Rest, NewsTrue, Index
<1> QED BY <1>1, <1>5, <1>7, <1>8, DecidesKeeps

\* What the poll that decides on g, which is complete, goes by.
LEMMA DecidingOn ==
  ASSUME MonitorTypes, Rest, NEW s \in Scanners, NEW g \in Gids,
         scan[s].pc = "decide", scan[s].task = {g}, aria[g] = "complete"
  PROVE  /\ \A i \in Index : records[i].gid = g => records[i].done
         /\ Stored(pushed, notices) \subseteq Stored(scan[s].sent, scan[s].hist)
         /\ \A n \in scan[s].hist : n.kind = "failed" => \A h \in n.gids : aria[h] = "error"
         /\ ~Gone => \A i \in Index : records[i].done => records[i].gid \in scan[s].list
BY DEF Rest, ScanTrue, ScanOk

\* One file is announced.
LEMMA SingleKeeps ==
  ASSUME OnePoll, MonitorTypes, Rest, NEW s \in Scanners, NEW g \in Gids, DecideCompleted(s, g), ~Merges(g)
  PROVE  MonitorTypes' /\ Rest'
<1> DEFINE n == Notice("single", {g}, {fileOf[g]})
<1>1. Decides(s, g) /\ aria[g] = "complete"
  BY DEF DecideCompleted, Decides, Handled, Without, AriaVars, StoreVars, MonitorTypes
<1>2. IF completed_download_already_recorded(scan[s].hist, scan[s].sent, n, g)
      THEN UNCHANGED NewsVars ELSE Announce(n)
  BY DEF DecideCompleted
<1>3. UNCHANGED <<aria, listed, records, joined>>
  BY <1>1 DEF Decides
<1>4. /\ n \in News /\ n.kind = "single" /\ n.gids = {g}
      /\ Message(n) = [kind |-> "single", files |-> Files_({g}), sized |-> {fileOf[g]}]
  <2>1. {fileOf[g]} \in SUBSET Files /\ {g} \in SUBSET Gids /\ "single" \in {"failed", "single", "merged"}
    BY MonitorAssumption
  <2>2. n \in News /\ n.kind = "single" /\ n.gids = {g}
    BY <2>1 DEF Notice, News
  <2>3. Message(n) = [kind |-> "single", files |-> Files_({g}), sized |-> {fileOf[g]}]
    BY DEF Message, Notice
  <2> QED BY <2>2, <2>3
<1>5. Message(n) = SingleMessage(g)
  BY <1>4 DEF SingleMessage, Files_
<1> HIDE DEF n
<1>6. /\ notices' \in SUBSET News /\ pushed' \in SUBSET Messages /\ told' \in [Gids -> 0..2]
      /\ MoreNews
  BY <1>2, <1>3, <1>4, AnnounceType DEF NewsVars, MonitorTypes, MoreNews
<1>7. ToldTrue'
  <2> SUFFICES ASSUME ~Gone, NEW h \in Gids, told'[h] # told[h], ~Excused(h)
               PROVE  aria[h] = "complete" /\ told'[h] = 1 /\ Repeats(h)'
    <3>1. ~Gone => \A h \in Gids : told'[h] # told[h] => h = g
      BY <1>2, <1>4, AnnounceType DEF NewsVars
    <3> QED BY <1>1, <1>6, <3>1, ToldStays DEF Rest
  <2>1. Announce(n) /\ ~completed_download_already_recorded(scan[s].hist, scan[s].sent, n, g)
    BY <1>2 DEF NewsVars
  <2>2. h = g /\ told'[h] = told[h] + 1
    BY <1>4, <2>1, AnnounceType
  <2>3. Message(n) \notin Stored(scan[s].sent, scan[s].hist)
    <3>1. Message(n) \notin scan[s].sent
      BY <2>1 DEF completed_download_already_recorded
    <3>2. ASSUME NEW x \in scan[s].hist, Message(x) = Message(n) PROVE FALSE
      <4>1. x.kind = "single" /\ Files_(x.gids) = {fileOf[g]}
        BY <1>5, <3>2 DEF Message, SingleMessage
      <4> QED BY <2>1, <3>2, <4>1 DEF completed_download_already_recorded, Of
    <3> QED BY <3>1, <3>2 DEF Stored
  <2>4. ~Repeats(g)
    BY <1>1, <1>5, <2>3, DecidingOn DEF Decides, Repeats
  <2>5. told[g] = 0
    BY <2>2, <2>4 DEF Rest, ToldTrue
  <2>6. Batch(g)' = Batch(g)
    BY <1>3 DEF Batch, Index
  <2>7. ~Merges(g)'
    BY <2>6 DEF Merges
  <2>8. SingleMessage(g)' \in Stored(pushed', notices')
    BY <1>4, <1>5, <2>1, AnnounceType DEF SingleMessage
  <2>9. (SingleMessage(g) \in Stored(pushed, notices))'
    BY <2>8 DEF Stored, Message, Files_
  <2> QED BY <1>1, <1>3, <2>2, <2>5, <2>7, <2>9 DEF Repeats
<1>8. NewsTrue'
  <2>1. notices' \subseteq notices \cup {n}
    BY <1>2 DEF Announce, NewsVars
  <2>2. \A i \in Index : records[i].gid = g => records[i].done
    BY <1>1, DecidingOn DEF Decides
  <2> QED BY <1>1, <1>3, <1>4, <2>1, <2>2 DEF Rest, NewsTrue, Index
<1> QED BY <1>1, <1>6, <1>7, <1>8, DecidesKeeps

\* A batch is announced.
LEMMA MergedKeeps ==
  ASSUME OnePoll, MonitorTypes, Rest, NEW s \in Scanners, NEW g \in Gids, DecideCompleted(s, g), Merges(g)
  PROVE  MonitorTypes' /\ Rest'
<1> DEFINE B == Batch(g)
           done == GidsAt(Complete(B))
           n == Notice("merged", done, Files_(done \cap scan[s].list))
<1>1. Decides(s, g) /\ aria[g] = "complete"
  BY DEF DecideCompleted, Decides, Handled, Without, AriaVars, StoreVars, MonitorTypes
<1>2. /\ batch_records_settled(B, scan[s].hist)
      /\ IF merged_download_already_recorded(scan[s].hist, scan[s].sent, n, B)
         THEN UNCHANGED NewsVars ELSE Announce(n)
  BY DEF DecideCompleted, Complete
<1>3. UNCHANGED <<aria, listed, records, joined>>
  BY <1>1 DEF Decides
<1>4. B \subseteq Index /\ Batch(g)' = B
  BY <1>3, BatchInIndex DEF Batch, Index
<1>5. \A h \in done : h \in Gids /\ \E i \in B : records[i].done /\ records[i].gid = h
  BY <1>4, EntryTypes DEF GidsAt, Complete
<1>6. /\ n \in News /\ n.kind = "merged" /\ n.gids = done
      /\ Message(n) = [kind |-> "merged", files |-> Files_(done), sized |-> Files_(done \cap scan[s].list)]
  <2>1. /\ done \in SUBSET Gids /\ Files_(done \cap scan[s].list) \in SUBSET Files
        /\ "merged" \in {"failed", "single", "merged"}
    BY <1>5, MonitorAssumption DEF Files_
  <2>2. n \in News /\ n.kind = "merged" /\ n.gids = done
    BY <2>1 DEF Notice, News
  <2>3. Message(n) = [kind |-> "merged", files |-> Files_(done), sized |-> Files_(done \cap scan[s].list)]
    BY DEF Message, Notice
  <2> QED BY <2>2, <2>3
<1>7. ~Gone => Message(n) = MergedMessage(B)
  <2> SUFFICES ASSUME ~Gone PROVE done \cap scan[s].list = done
    BY <1>6 DEF MergedMessage
  <2> QED BY <1>1, <1>4, <1>5, DecidingOn DEF Decides
<1>8. Settled(B)
  <2>1. \A h \in failed_download_gids(scan[s].hist) : aria[h] = "error"
    BY <1>1, DecidingOn DEF Decides, failed_download_gids, Of
  <2> QED BY <1>2, <2>1 DEF Settled, batch_records_settled
<1> HIDE DEF n, B, done
<1>9. /\ notices' \in SUBSET News /\ pushed' \in SUBSET Messages /\ told' \in [Gids -> 0..2]
      /\ MoreNews
  BY <1>2, <1>3, <1>6, AnnounceType DEF NewsVars, MonitorTypes, MoreNews
<1>10. ToldTrue'
  <2>0. \A h \in done : aria[h] = "complete"
    BY <1>4, <1>5 DEF Rest, RecordsTrue
  <2> SUFFICES ASSUME ~Gone, NEW h \in Gids, told'[h] # told[h], ~Excused(h)
               PROVE  told'[h] = 1 /\ Repeats(h)'
    <3>1. ~Gone => \A h \in Gids : told'[h] # told[h] => h \in done
      BY <1>2, <1>6, AnnounceType DEF NewsVars
    <3> QED BY <1>9, <2>0, <3>1, ToldStays DEF Rest
  <2>1. Announce(n) /\ ~merged_download_already_recorded(scan[s].hist, scan[s].sent, n, B)
    BY <1>2 DEF NewsVars
  <2>2. h \in done /\ told'[h] = told[h] + 1
    BY <1>6, <2>1, AnnounceType
  <2>3. MergedMessage(B) \notin Stored(pushed, notices)
    <3>1. Message(n) \notin scan[s].sent
      BY <2>1 DEF merged_download_already_recorded
    <3>2. ASSUME NEW x \in scan[s].hist, Message(x) = Message(n) PROVE FALSE
      <4>1. x.kind = "merged"
        BY <1>6, <3>2 DEF Message
      <4> QED BY <2>1, <3>2, <4>1 DEF merged_download_already_recorded, Of
    <3>3. Message(n) \notin Stored(scan[s].sent, scan[s].hist)
      BY <3>1, <3>2 DEF Stored
    <3> QED BY <1>1, <1>7, <3>3, DecidingOn DEF Decides
  <2>4. PICK j \in B : records[j].done /\ records[j].gid = h
    BY <1>5, <2>2
  <2>5. aria[h] = "complete"
    BY <2>0, <2>2
  <2>6. Batch(h) = B /\ Merges(h)
    <3>1. PICK i \in Index : NameAt(i) = fileOf[g]
      <4>1. {i \in Index : records[i].gid = g \/ fileOf[records[i].gid] = fileOf[g]} # {}
        BY <2>4 DEF B, Batch
      <4> QED BY <4>1 DEF NameAt
    <3>2. j \in Index /\ NameAt(j) = fileOf[h]
      BY <1>4, <2>4 DEF NameAt
    <3> QED BY <2>4, <3>1, <3>2, SameBatch DEF Rest, B
  <2>7. ~Repeats(h)
    BY <2>3, <2>6 DEF Repeats
  <2>8. told[h] = 0
    BY <2>7 DEF Rest, ToldTrue
  <2>9. Batch(h)' = B
    BY <1>3, <2>6 DEF Batch, Index
  <2>10. Merges(h)'
    BY <2>6, <2>9 DEF Merges
  <2>11. Settled(Batch(h))'
    BY <1>3, <1>8, <2>9 DEF Settled
  <2>12. MergedMessage(Batch(h))' = MergedMessage(B)
    BY <1>3, <2>9 DEF MergedMessage, GidsAt, Complete, Files_
  <2>13. (MergedMessage(Batch(h)) \in Stored(pushed, notices))'
    <3>1. MergedMessage(B) \in Stored(pushed', notices')
      BY <1>7, <1>6, <2>1, AnnounceType
    <3> QED BY <2>12, <3>1 DEF Stored, Message, Files_
  <2>14. fileOf[h] \in MergedMessage(B).files
    BY <2>4 DEF MergedMessage, Files_, GidsAt, Complete
  <2>15. (fileOf[h] \in MergedMessage(Batch(h)).files)'
    BY <2>12, <2>14
  <2>16. aria'[h] = "complete"
    BY <1>3, <2>5
  <2> QED BY <2>2, <2>8, <2>10, <2>11, <2>13, <2>15, <2>16 DEF Repeats
<1>11. NewsTrue'
  <2>1. notices' \subseteq notices \cup {n}
    BY <1>2 DEF Announce, NewsVars
  <2>2. \A h \in done : aria[h] = "complete" /\ \A i \in Index : records[i].gid = h => records[i].done
    BY <1>4, <1>5 DEF Rest, RecordsTrue, NameAt
  <2> QED BY <1>3, <1>6, <2>1, <2>2 DEF Rest, NewsTrue, Index
<1> QED BY <1>1, <1>9, <1>10, <1>11, DecidesKeeps

----------------------------------------------------------------------------
(* The end of a download is written into its record. *)

\* The record of the task g is marked, if it is complete, and nothing else.
Marked(g) ==
  /\ records' \in Seq(Entry) /\ Index' = Index
  /\ \A i \in Index :
       /\ records'[i].gid = records[i].gid /\ records'[i].batch = records[i].batch
       /\ records'[i].done => (records[i].done \/ (aria[g] = "complete" /\ records[i].gid = g))
       /\ records[i].done \/ aria[g] # "complete" \/ records[i].gid # g => records'[i] = records[i]

\* Nothing is written.
LEMMA UnmarkedRecords ==
  ASSUME MonitorTypes, NEW g, UNCHANGED records
  PROVE  Marked(g)
BY DEF Marked, Index, MonitorTypes

\* MarkDone marks it.
LEMMA MarkedRecords ==
  ASSUME MonitorTypes, Rest, NEW g \in Gids, aria[g] = "complete", MarkDone(g)
  PROVE  Marked(g) /\ \A i \in Index : records[i].gid = g => records'[i].done
<2>1. Exact(g) \/ Alone(g)
  BY DEF Rest, TasksKnown, Known
<2>2. Matches(g) = {i \in Index : records[i].gid = g}
  BY <2>1, OwnRecords
<2>3. records' = [i \in Index |-> IF i \in Matches(g) THEN [records[i] EXCEPT !.done = TRUE] ELSE records[i]]
  BY DEF MarkDone
<2>4. \A i \in Index : records'[i] = IF records[i].gid = g THEN [records[i] EXCEPT !.done = TRUE] ELSE records[i]
  BY <2>2, <2>3
<2>5. \A i \in Index : [records[i] EXCEPT !.done = TRUE] \in Entry /\ records[i] \in Entry
  <3> SUFFICES ASSUME NEW i \in Index PROVE [records[i] EXCEPT !.done = TRUE] \in Entry /\ records[i] \in Entry
    OBVIOUS
  <3>1. records[i] \in Entry
    BY EntryTypes
  <3> QED BY <3>1 DEF Entry
<2>6. Len(records) \in Nat /\ Index = 1..Len(records)
  BY LenProperties DEF MonitorTypes, Index
<2>7. records' \in [1..Len(records) -> Entry]
  BY <2>3, <2>5, <2>6
<2>8. records' \in Seq(Entry)
  BY <2>6, <2>7 DEF Seq
<2>9. Index' = Index
  BY <2>3 DEF Index
<2>10. ASSUME NEW i \in Index
       PROVE  /\ records'[i].gid = records[i].gid /\ records'[i].batch = records[i].batch
              /\ records'[i].done <=> (records[i].done \/ records[i].gid = g)
              /\ records[i].done \/ records[i].gid # g => records'[i] = records[i]
  <3>1. records[i] \in Entry
    BY <2>5
  <3>2. CASE records[i].gid # g
    <4>1. records'[i] = records[i]
      BY <2>4, <3>2
    <4> QED BY <3>2, <4>1
  <3>3. CASE records[i].gid = g
    <4>1. records'[i] = [records[i] EXCEPT !.done = TRUE]
      BY <2>4, <3>3
    <4>2. /\ records'[i].gid = records[i].gid /\ records'[i].batch = records[i].batch
          /\ records'[i].done = TRUE
      BY <3>1, <4>1 DEF Entry
    <4>3. ASSUME records[i].done PROVE records'[i] = records[i]
      <5>1. records[i].done = TRUE
        BY <3>1, <4>3 DEF Entry
      <5> QED BY <3>1, <4>1, <5>1 DEF Entry
    <4> QED BY <3>3, <4>2, <4>3
  <3> QED BY <3>2, <3>3
<2> QED BY <2>8, <2>9, <2>10 DEF Marked

\* A step of the poll s that marks the record of g, and leaves the rest alone.
MarkStep(s, g, x) ==
  /\ UNCHANGED <<aria, listed, recording, batches, notices, pushed, told, forgotten, joined>>
  /\ completed' \in BOOLEAN /\ known' \in SUBSET (Ended \X (Gids \cup Files))
  /\ scan[s].pc = "work" /\ g \in scan[s].todo /\ scan' = [scan EXCEPT ![s] = x]
  /\ Marked(g)

\* What is done is in the list of the poll that marks it.
LEMMA MarkedListed ==
  ASSUME MonitorTypes, Rest, NEW s \in Scanners, NEW g \in Gids, NEW x, MarkStep(s, g, x)
  PROVE  ~Gone => \A i \in Index : records'[i].done => records'[i].gid \in scan[s].list
<1>1. ~Gone => \A i \in Index : records[i].done => records[i].gid \in scan[s].list
  BY DEF Rest, ScanTrue, ScanOk, MarkStep
<1>2. g \in scan[s].list
  BY DEF Rest, ScanTrue, ScanOk, MarkStep
<1> QED BY <1>1, <1>2 DEF MarkStep, Marked

\* Such a step keeps the invariant, when it does so for its own state: a settled
\* batch stays as it was.
LEMMA MarkStepKeeps ==
  ASSUME OnePoll, MonitorTypes, Rest, NEW s \in Scanners, NEW g \in Gids, NEW x \in ScanState,
         MarkStep(s, g, x), ScanOk(s)'
  PROVE  MonitorTypes' /\ Rest'
<1>1. /\ UNCHANGED <<aria, listed, recording, batches, notices, pushed, told, forgotten, joined>>
      /\ scan' = [scan EXCEPT ![s] = x]
  BY DEF MarkStep
<1>2. /\ records' \in Seq(Entry) /\ Index' = Index /\ completed' \in BOOLEAN
      /\ \A i \in Index : records'[i].gid = records[i].gid /\ records'[i].batch = records[i].batch
      /\ \A i \in Index : records'[i].done => (records[i].done \/ (aria[g] = "complete" /\ records[i].gid = g))
      /\ \A i \in Index : records[i].done \/ aria[g] # "complete" \/ records[i].gid # g => records'[i] = records[i]
  BY DEF MarkStep, Marked
<1>5. scan' \in [Scanners -> ScanState]
  BY <1>1 DEF MonitorTypes
<1>6. MonitorTypes'
  BY <1>1, <1>2, <1>5 DEF MonitorTypes, MarkStep
<1>7. RecordsTrue'
  <2>1. \A i \in Index : NameAt(i)' = NameAt(i)
    BY <1>2 DEF NameAt
  <2>2. \A i, j \in Index : NameAt(i)' = NameAt(j)' => i = j
    BY <2>1 DEF Rest, RecordsTrue
  <2>3. \A i \in Index : /\ aria[records'[i].gid] # "none" /\ records'[i].batch <= batches
                         /\ records'[i].done => aria[records'[i].gid] = "complete"
    BY <1>2 DEF Rest, RecordsTrue
  <2> QED BY <1>1, <1>2, <2>2, <2>3 DEF RecordsTrue
<1>8. \A h : Exact(h)' <=> Exact(h)
  BY <1>2 DEF Exact
<1>9. RecordingTrue'
  <2>1. NewFiles => NewFiles'
    BY <1>1, <1>2 DEF NewFiles, NameAt
  <2>2. NewTask => NewTask'
    BY <1>1, <1>8 DEF NewTask
  <2> QED BY <1>1, <2>1, <2>2 DEF Rest, RecordingTrue
<1>10. TasksKnown'
  <2>1. \A h : Known(h)' <=> Known(h)
    BY <1>1, <1>8 DEF Known, Alone
  <2> QED BY <1>1, <2>1 DEF Rest, TasksKnown
<1>11. NewsTrue'
  <2>1. \A i \in Index : records[i].done => records'[i].done
    BY <1>2
  <2> QED BY <1>1, <1>2, <2>1 DEF Rest, NewsTrue
<1>12. Gone' <=> Gone
  BY <1>1 DEF Gone
<1>14. ScanTrue'
  BY DEF ScanTrue, OnePoll
<1>15. ToldTrue'
  <2> SUFFICES ASSUME ~Gone, NEW h \in Gids, told[h] # 0
               PROVE  aria[h] = "complete" /\ (Excused(h)' \/ (told[h] = 1 /\ Repeats(h)'))
    BY <1>1, <1>12 DEF ToldTrue
  <2>1. aria[h] = "complete" /\ (Excused(h) \/ (told[h] = 1 /\ Repeats(h)))
    BY DEF Rest, ToldTrue
  <2>0. Excused(h) => Excused(h)'
    BY <1>1, <1>2 DEF Excused, Forgotten, Joined
  <2> SUFFICES ASSUME Repeats(h) PROVE Repeats(h)' \/ Forgotten(h)'
    BY <2>0, <2>1 DEF Excused
  <2>2. Batch(h)' = Batch(h)
    <3>1. CASE \E i \in Index : NameAt(i) = fileOf[h]
      <4>1. PICK i \in Index : NameAt(i) = fileOf[h]
        BY <3>1
      <4>2. NamesOnce(records) /\ NamesOnce(records')
        BY <1>2, <1>7 DEF Rest, RecordsTrue, NamesOnce, Index, NameAt
      <4>3. records \in Seq(Entry) /\ i \in DOMAIN records /\ fileOf[records[i].gid] = fileOf[h]
        BY <4>1 DEF MonitorTypes, Index, NameAt
      <4>4. records' \in Seq(Entry) /\ i \in DOMAIN records' /\ fileOf[records'[i].gid] = fileOf[h]
        BY <1>2, <4>3 DEF Index
      <4>5. BatchIn(records, h) = {j \in DOMAIN records : records[j].batch = records[i].batch}
        BY <4>2, <4>3, BatchOfRecord
      <4>6. BatchIn(records', h) = {j \in DOMAIN records' : records'[j].batch = records'[i].batch}
        BY <4>2, <4>4, BatchOfRecord
      <4> QED BY <1>2, <4>5, <4>6, BatchIs DEF Index
    <3>2. CASE \A i \in Index : NameAt(i) # fileOf[h]
      <4>1. BatchIn(records, h) = {}
        BY <3>2, NoBatch DEF Index, NameAt
      <4>2. BatchIn(records', h) = {}
        BY <1>2, <3>2, NoBatch DEF Index, NameAt
      <4> QED BY <4>1, <4>2, BatchIs
    <3> QED BY <3>1, <3>2
  <2>3. ASSUME Merges(h), NEW i \in Batch(h) PROVE records'[i] = records[i]
    <3>1. i \in Index /\ (records[i].done \/ aria[records[i].gid] = "error")
      BY <2>3, BatchInIndex DEF Repeats, Settled
    <3> QED BY <1>2, <3>1
  <2>4. EndsStay /\ Forgets
    BY <1>1, NewsStay DEF EndsStay
  <2> QED BY <2>2, <2>3, <2>4, RepeatsStays, BatchInIndex DEF Rest
<1> QED BY <1>6, <1>7, <1>9, <1>10, <1>11, <1>14, <1>15 DEF Rest

\* The end is recorded before it is decided on.
LEMMA WorkKeeps ==
  ASSUME OnePoll, MonitorTypes, Rest, NEW s \in Scanners, NEW g \in Gids, Work(s, g)
  PROVE  MonitorTypes' /\ Rest'
<1> DEFINE x == [scan[s] EXCEPT !.pc = "decide", !.task = {g}, !.hist = notices, !.sent = pushed]
<1>1. /\ UNCHANGED <<aria, listed, recording, batches, notices, pushed, told, forgotten, joined, known>>
      /\ scan[s].pc = "work" /\ g \in scan[s].todo
      /\ scan' = [scan EXCEPT ![s] = x]
  BY DEF Work, AriaVars, NewsVars, MonitorTypes
<1>2. Marked(g) /\ (aria[g] = "complete" => \A i \in Index : records[i].gid = g => records'[i].done)
  BY UnmarkedRecords, MarkedRecords DEF Work
<1>3. completed' \in BOOLEAN
  <2>1. CASE aria[g] = "complete"
    <3>1. completed' = (completed \/ (Matches(g) # {}
            /\ Target \subseteq Files_({records[i].gid : i \in {j \in Index : records'[j].done}})))
      BY <2>1 DEF Work
    <3> QED BY <3>1
  <2>2. CASE aria[g] # "complete"
    BY <2>2 DEF Work, MonitorTypes
  <2> QED BY <2>1, <2>2
<1>4. scan[s] \in ScanState
  BY DEF MonitorTypes
<1>5. /\ x \in ScanState /\ x.pc = "decide" /\ x.task = {g} /\ x.hist = notices /\ x.sent = pushed
      /\ x.todo = scan[s].todo /\ x.list = scan[s].list
  BY <1>4 DEF ScanState, MonitorTypes
<1>6. scan'[s] = x
  BY <1>1, <1>5 DEF MonitorTypes
<1> HIDE DEF x
<1>7. MarkStep(s, g, x)
  BY <1>1, <1>2, <1>3 DEF MarkStep, MonitorTypes
<1>8. ScanOk(s)'
  <2>1. /\ scan[s].todo \subseteq scan[s].list /\ \A h \in scan[s].todo : aria[h] \in Ended
    BY DEF Rest, ScanTrue, ScanOk
  <2>2. (~Gone /\ scan[s].pc # "idle" =>
          \A i \in Index : records[i].done => records[i].gid \in scan[s].list)'
    BY <1>1, <1>2, <1>5, <1>6, <1>7, MarkedListed DEF Gone, Marked
  <2>3. \A n \in notices : n.kind = "failed" => \A h \in n.gids : aria[h] = "error"
    BY DEF Rest, NewsTrue
  <2>4. aria[g] = "complete" => \A i \in Index : records'[i].gid = g => records'[i].done
    BY <1>2 DEF Marked
  <2>5. (Stored(pushed, notices) \subseteq Stored(scan[s].sent, scan[s].hist))'
    BY <1>1, <1>5, <1>6
  <2>6. (/\ \E h \in scan[s].todo : scan[s].task = {h}
         /\ \A h \in scan[s].task : aria[h] = "complete" =>
              \A i \in Index : records[i].gid = h => records[i].done
         /\ \A n \in scan[s].hist : n.kind = "failed" => \A h \in n.gids : aria[h] = "error")'
    BY <1>1, <1>2, <1>5, <1>6, <2>3, <2>4 DEF Marked
  <2> QED BY <1>1, <1>5, <1>6, <2>1, <2>2, <2>5, <2>6 DEF ScanOk
<1> QED BY <1>5, <1>7, <1>8, MarkStepKeeps

\* A failing write leaves the record as it was, or marked, and gives the claim back.
LEMMA WorkFailsKeeps ==
  ASSUME OnePoll, MonitorTypes, Rest, NEW s \in Scanners, NEW g \in Gids, WorkFails(s, g)
  PROVE  MonitorTypes' /\ Rest'
<1>1. /\ UNCHANGED <<aria, listed, completed, recording, batches, notices, pushed, told, forgotten, joined>>
      /\ Release(s, g) /\ scan[s].pc = "work" /\ g \in scan[s].todo
  BY DEF WorkFails, AriaVars, NewsVars
<1>2. Marked(g)
  BY UnmarkedRecords, MarkedRecords DEF WorkFails
<1>3. scan' = [scan EXCEPT ![s] = Without(s, g)]
  BY <1>1 DEF Release, Without, MonitorTypes
<1>4. known' \in SUBSET (Ended \X (Gids \cup Files))
  BY <1>1 DEF Release, MonitorTypes
<1>5. MarkStep(s, g, Without(s, g))
  BY <1>1, <1>2, <1>3, <1>4 DEF MarkStep, MonitorTypes
<1>6. scan'[s] = Without(s, g)
  BY <1>3 DEF MonitorTypes
<1>7. ScanOk(s)'
  <2>1. (~Gone /\ scan[s].pc # "idle" =>
          \A i \in Index : records[i].done => records[i].gid \in scan[s].list)'
    BY <1>1, <1>2, <1>5, <1>6, MarkedListed, WithoutType DEF Gone, Marked
  <2>2. (scan[s].todo \subseteq scan[s].list /\ \A h \in scan[s].todo : aria[h] \in Ended)'
    BY <1>1, <1>6, WithoutType DEF Rest, ScanTrue, ScanOk
  <2> QED BY <1>6, <2>1, <2>2, WithoutType DEF ScanOk
<1> QED BY <1>5, <1>7, WithoutType, MarkStepKeeps

----------------------------------------------------------------------------
(* Submitted downloads are recorded, or the record of a retried one is moved. *)

\* A record that has just been written.
Fresh(r) == aria[r.gid] = "active" /\ r.batch = batches' /\ ~r.done

\* The batch of a file is another one.
NotJoining(g) == \A i \in Index : NameAt(i) = fileOf[g] => records[i].batch # batches'
\* A batch that had been announced and gets another record is noted.
NotesJoined ==
  joined' = joined \cup {b \in {batches'} :
              \E i \in Index : records[i].batch = b /\ told[records[i].gid] > 0}

\* The second of the record is that of the last one, or a later one.
LEMMA NextSecond ==
  ASSUME MonitorTypes, RecordingTrue, recording # {}, batches' \in NextBatch
  PROVE  batches \in Nat /\ batches' \in 1..MaxBatch /\ batches <= batches'
<1>1. batches \in 0..MaxBatch /\ batches < MaxBatch /\ MaxBatch \in Nat
  BY MonitorAssumption DEF MonitorTypes, RecordingTrue
<1>2. batches' \in {batches, batches + 1} /\ batches' # 0
  BY DEF NextBatch
<1> QED BY <1>1, <1>2

\* Writing fresh records keeps the invariant, when it leaves alone the records of
\* what is complete, and the batches that were announced.
LEMMA RecordedKeeps ==
  ASSUME MonitorTypes, Rest, recording # {}, recording' = {}, batches' \in NextBatch, listed' \subseteq listed,
         UNCHANGED <<aria, completed, notices, pushed, told, forgotten, known, scan>>, NotesJoined,
         records' \in Seq(Entry), Index \subseteq Index', NamesOnce(records'),
         \A i \in Index' : (i \in Index /\ records'[i] = records[i]) \/ Fresh(records'[i]),
         \A i \in Index : aria[records[i].gid] = "complete" => records'[i] = records[i],
         TasksKnown',
         ~Gone' => \A g \in Gids : Repeats(g) /\ NotJoining(g) =>
           Batch(g)' = Batch(g) /\ \A i \in Batch(g) : records'[i] = records[i]
  PROVE  MonitorTypes' /\ Rest'
<1>1. batches \in Nat /\ batches' \in 0..MaxBatch /\ batches <= batches'
  BY NextSecond DEF Rest
<1>2. MonitorTypes'
  BY <1>1 DEF MonitorTypes
<1>3. \A i \in Index' : records'[i].done => i \in Index /\ records'[i] = records[i]
  BY DEF Fresh
<1>4. \A i \in Index' : aria[records'[i].gid] # "active" => i \in Index /\ records'[i] = records[i]
  BY DEF Fresh
<1>5. RecordsTrue'
  <2>1. \A i, j \in Index' : NameAt(i)' = NameAt(j)' => i = j
    BY DEF NamesOnce, NameAt, Index
  <2>2. \A i \in Index : records[i].batch \in Nat /\ records[i].batch <= batches
    <3>1. \A i \in Index : records[i].batch \in 1..MaxBatch
      BY EntryTypes
    <3> QED BY <3>1, MonitorAssumption DEF Rest, RecordsTrue
  <2>3. \A i \in Index' : aria[records'[i].gid] # "none" /\ records'[i].batch <= batches'
    BY <1>1, <2>2 DEF Rest, RecordsTrue, Fresh
  <2>4. \A i \in Index' : records'[i].done => aria[records'[i].gid] = "complete"
    BY <1>3 DEF Rest, RecordsTrue
  <2> QED BY <2>1, <2>3, <2>4 DEF RecordsTrue
<1>6. RecordingTrue'
  BY DEF RecordingTrue, NewFiles
<1>7. NewsTrue'
  <2> SUFFICES ASSUME NEW n \in notices, NEW g \in n.gids
               PROVE  IF n.kind = "failed" THEN aria[g] = "error"
                      ELSE aria[g] = "complete" /\ \A i \in Index' : records'[i].gid = g => records'[i].done
    BY DEF NewsTrue
  <2> QED BY <1>4 DEF Rest, NewsTrue
<1>8. Gone => Gone'
  BY DEF Gone
<1>9. ScanTrue'
  <2> SUFFICES ASSUME NEW s \in Scanners PROVE ScanOk(s)'
    BY DEF ScanTrue
  <2>1. ScanOk(s)
    BY DEF Rest, ScanTrue
  <2>2. (~Gone /\ scan[s].pc # "idle" =>
          \A i \in Index : records[i].done => records[i].gid \in scan[s].list)'
    BY <1>3, <1>8, <2>1 DEF ScanOk
  <2>3. scan[s].pc = "decide" => \A g \in scan[s].task : aria[g] = "complete" =>
          \A i \in Index' : records'[i].gid = g => records'[i].done
    BY <1>4, <2>1 DEF ScanOk
  <2> QED BY <2>1, <2>2, <2>3 DEF ScanOk
<1>10. ToldTrue'
  <2> SUFFICES ASSUME ~Gone', NEW g \in Gids, told[g] # 0
               PROVE  aria[g] = "complete" /\ (Excused(g)' \/ (told[g] = 1 /\ Repeats(g)'))
    BY DEF ToldTrue
  <2>1. aria[g] = "complete" /\ (Excused(g) \/ (told[g] = 1 /\ Repeats(g)))
    BY <1>8 DEF Rest, ToldTrue
  <2>2. \A i \in Index : records[i].gid = g => i \in Index' /\ records'[i] = records[i]
    BY <2>1
  <2>3. Excused(g) => Excused(g)'
    BY <2>2 DEF Excused, Forgotten, Joined, NotesJoined
  <2>4. ASSUME ~Joined(g)' PROVE NotJoining(g)
    <3> SUFFICES ASSUME NEW i \in Index, NameAt(i) = fileOf[g], records[i].batch = batches' PROVE FALSE
      BY DEF NotJoining
    <3>1. records[i].gid = g
      <4>1. Exact(g) \/ Alone(g)
        BY <2>1 DEF Rest, TasksKnown, Known
      <4>2. CASE Exact(g)
        BY <4>2 DEF Exact, Rest, RecordsTrue, NameAt
      <4>3. CASE Alone(g)
        BY <4>3, EntryTypes DEF Alone, NameAt
      <4> QED BY <4>1, <4>2, <4>3
    <3>2. told[g] > 0
      <4>1. told[g] \in 0..2
        BY DEF MonitorTypes
      <4> QED BY <4>1
    <3>3. batches' \in joined'
      BY <3>1, <3>2 DEF NotesJoined
    <3> QED BY <2>2, <2>4, <3>1, <3>3 DEF Joined
  <2>5. ASSUME Repeats(g), ~Joined(g)' PROVE Repeats(g)' \/ Forgotten(g)'
    <3>1. Batch(g)' = Batch(g) /\ \A i \in Batch(g) : records'[i] = records[i]
      BY <2>4, <2>5
    <3>2. EndsStay /\ Forgets
      BY NewsStay DEF EndsStay
    <3> QED BY <2>5, <3>1, <3>2, RepeatsStays, BatchInIndex DEF Rest
  <2> QED BY <2>1, <2>3, <2>5 DEF Excused
<1> QED BY <1>2, <1>5, <1>6, <1>7, <1>9, <1>10 DEF Rest

\* An earlier batch stays as it is, when the record of its file does.
LEMMA BatchStays ==
  ASSUME MonitorTypes, Rest, records' \in Seq(Entry), Index \subseteq Index', NamesOnce(records'),
         \A i \in Index' : (i \in Index /\ records'[i] = records[i]) \/ Fresh(records'[i]),
         NEW g \in Gids, NotJoining(g),
         \/ \E i \in Index : NameAt(i) = fileOf[g] /\ records'[i] = records[i]
         \/ \A i \in Index' : fileOf[records'[i].gid] # fileOf[g] /\ (i \in Index => NameAt(i) # fileOf[g]),
         \A i \in Batch(g) : records'[i] = records[i]
  PROVE  Batch(g)' = Batch(g)
<1>1. CASE \E i \in Index : NameAt(i) = fileOf[g] /\ records'[i] = records[i]
  <2>1. PICK i \in Index : NameAt(i) = fileOf[g] /\ records'[i] = records[i]
    BY <1>1
  <2>2. NamesOnce(records)
    BY DEF Rest, RecordsTrue, NamesOnce, Index, NameAt
  <2>3. records \in Seq(Entry) /\ i \in DOMAIN records /\ fileOf[records[i].gid] = fileOf[g]
    BY <2>1 DEF MonitorTypes, Index, NameAt
  <2>4. i \in DOMAIN records' /\ fileOf[records'[i].gid] = fileOf[g]
    BY <2>1, <2>3 DEF Index
  <2>5. BatchIn(records, g) = {j \in DOMAIN records : records[j].batch = records[i].batch}
    BY <2>2, <2>3, BatchOfRecord
  <2>6. BatchIn(records', g) = {j \in DOMAIN records' : records'[j].batch = records'[i].batch}
    BY <2>4, BatchOfRecord
  <2>7. Batch(g) = {j \in Index : records[j].batch = records[i].batch}
    BY <2>5, BatchIs DEF Index
  <2>8. Batch(g)' = {j \in Index' : records'[j].batch = records[i].batch}
    BY <2>1, <2>6, BatchIs DEF Index
  <2>9. records[i].batch # batches'
    BY <2>1 DEF NotJoining
  <2>10. \A j \in Batch(g)' : j \in Batch(g)
    BY <2>7, <2>8, <2>9 DEF Fresh
  <2>11. \A j \in Batch(g) : j \in Batch(g)'
    BY <2>7, <2>8
  <2> QED BY <2>7, <2>8, <2>10, <2>11
<1>2. CASE \A i \in Index' : fileOf[records'[i].gid] # fileOf[g] /\ (i \in Index => NameAt(i) # fileOf[g])
  <2>1. BatchIn(records, g) = {}
    BY <1>2, NoBatch DEF Index, NameAt
  <2>2. BatchIn(records', g) = {}
    BY <1>2, NoBatch DEF Index
  <2> QED BY <2>1, <2>2, BatchIs
<1> QED BY <1>1, <1>2

\* The record of the task g, written now.
Written(g) == [gid |-> g, batch |-> batches', done |-> FALSE]

\* What is written for a task is a fresh record of it.
LEMMA WrittenFresh ==
  ASSUME MonitorTypes, Rest, recording # {}, batches' \in NextBatch, NEW p \in recording
  PROVE  /\ p[1] \in Gids /\ p[2] \in Gids /\ aria[p[2]] = "active"
         /\ Written(p[2]) \in Entry /\ Fresh(Written(p[2])) /\ Written(p[2]).gid = p[2]
<1>1. p[1] \in Gids /\ p[2] \in Gids
  BY DEF MonitorTypes
<1>2. aria[p[2]] = "active"
  BY DEF Rest, RecordingTrue
<1>3. batches' \in 1..MaxBatch
  BY NextSecond DEF Rest
<1> QED BY <1>1, <1>2, <1>3 DEF Written, Entry, Fresh

\* New files are appended.
LEMMA RecordNewKeeps ==
  ASSUME MonitorTypes, Rest, Record, NewFiles
  PROVE  MonitorTypes' /\ Rest'
<1> DEFINE new == {p[2] : p \in {q \in recording : q[1] = q[2]}}
           old == {p[1] : p \in {q \in recording : q[1] # q[2]}}
           n == Cardinality(new)
           t == [k \in 1..n |-> Written(SetToSeq(new)[k])]
           L == Len(records)
<1>1. /\ recording # {} /\ batches' \in NextBatch /\ recording' = {} /\ listed' = listed \ old
      /\ UNCHANGED <<aria, completed, notices, pushed, told, forgotten, known, scan>> /\ NotesJoined
      /\ old = {} => records' = records \o t
  BY DEF Record, NewsVars, Written, NotesJoined
<1>2. \A p \in recording : p[1] = p[2]
  BY DEF NewFiles
<1>3. old = {}
  BY <1>2
<1>4. new \in SUBSET Gids /\ \A g \in new : \E p \in recording : p[2] = g /\ p[1] = g
  <2>1. \A p \in recording : p[2] \in Gids
    BY DEF MonitorTypes
  <2> QED BY <1>2, <2>1
<1>5. \A p \in recording : p[2] \in new
  BY <1>2
<1> HIDE DEF new, old
<1>6. /\ n \in Nat
      /\ SetToSeq(new) \in [1..n -> new]
      /\ \A a, b \in 1..n : SetToSeq(new)[a] = SetToSeq(new)[b] => a = b
      /\ \A g \in new : \E k \in 1..n : SetToSeq(new)[k] = g
  BY <1>4, SequenceOf
<1>7. \A g \in new : /\ Written(g) \in Entry /\ Fresh(Written(g)) /\ Written(g).gid = g
                     /\ aria[g] = "active" /\ g \in Gids
                     /\ \A i \in Index : NameAt(i) # fileOf[g]
  BY <1>1, <1>4, WrittenFresh DEF NewFiles
<1>8. \A g, h \in new : fileOf[g] = fileOf[h] => g = h
  BY <1>4 DEF NewFiles
<1>9. \A k \in 1..n : SetToSeq(new)[k] \in new /\ t[k] = Written(SetToSeq(new)[k])
  BY <1>6
<1>10. t \in Seq(Entry) /\ Len(t) = n
  <2>1. t \in [1..n -> Entry]
    BY <1>7, <1>9
  <2>2. t \in Seq(Entry)
    BY <1>6, <2>1 DEF Seq
  <2> QED BY <1>6, <2>1, <2>2, LenProperties
<1> HIDE DEF n, t
<1>11. records' = records \o t /\ records \in Seq(Entry)
  BY <1>1, <1>3 DEF MonitorTypes
<1>12. /\ records' \in Seq(Entry) /\ Len(records') = L + n /\ L \in Nat
       /\ \A i \in 1..(L + n) : records'[i] = IF i <= L THEN records[i] ELSE t[i - L]
  BY <1>10, <1>11, ConcatProperties, LenProperties
<1>13. Index = 1..L /\ Index' = 1..(L + n)
  BY <1>11, <1>12, LenProperties DEF Index
<1> HIDE DEF L
<1>14. Index \subseteq Index' /\ \A i \in Index : records'[i] = records[i]
  BY <1>6, <1>12, <1>13
<1>15. \A i \in Index' : i \in Index \/ (i - L \in 1..n /\ records'[i] = Written(SetToSeq(new)[i - L]))
  BY <1>6, <1>9, <1>12, <1>13
<1>16. \A i \in Index' : (i \in Index /\ records'[i] = records[i])
         \/ (\E g \in new : records'[i] = Written(g) /\ records'[i].gid = g)
  BY <1>7, <1>9, <1>14, <1>15
<1>17. NamesOnce(records')
  <2> SUFFICES ASSUME NEW i \in Index', NEW j \in Index', fileOf[records'[i].gid] = fileOf[records'[j].gid]
               PROVE  i = j
    BY DEF NamesOnce, Index
  <2>1. CASE i \in Index /\ j \in Index
    BY <1>14, <2>1 DEF Rest, RecordsTrue, NameAt
  <2>2. CASE i \in Index /\ j \notin Index
    BY <1>7, <1>14, <1>16, <2>2 DEF NameAt
  <2>3. CASE i \notin Index /\ j \in Index
    BY <1>7, <1>14, <1>16, <2>3 DEF NameAt
  <2>4. CASE i \notin Index /\ j \notin Index
    <3>1. /\ i - L \in 1..n /\ records'[i] = Written(SetToSeq(new)[i - L])
          /\ j - L \in 1..n /\ records'[j] = Written(SetToSeq(new)[j - L])
      BY <1>15, <2>4
    <3>2. SetToSeq(new)[i - L] = SetToSeq(new)[j - L]
      BY <1>7, <1>8, <1>9, <3>1
    <3>3. i - L = j - L
      BY <1>6, <3>1, <3>2
    <3> QED BY <1>6, <1>12, <1>13, <3>3
  <2> QED BY <2>1, <2>2, <2>3, <2>4
<1>18. \A i \in Index' : (i \in Index /\ records'[i] = records[i]) \/ Fresh(records'[i])
  BY <1>7, <1>16
<1>19. TasksKnown'
  <2> SUFFICES ASSUME NEW g \in Gids,
                      \/ aria[g] \in {"active", "complete"}
                      \/ aria[g] \in {"error", "removed"} /\ g \in listed
               PROVE  Known(g)'
    BY <1>1, <1>3 DEF TasksKnown
  <2>1. Known(g)
    BY DEF Rest, TasksKnown
  <2>2. Exact(g) => Exact(g)'
    BY <1>14 DEF Exact
  <2>3. ASSUME NEW p \in recording, p[2] = g PROVE Exact(g)'
    <3>1. PICK k \in 1..n : SetToSeq(new)[k] = g
      BY <1>5, <1>6, <2>3
    <3>2. L + k \in Index' /\ ~(L + k <= L) /\ (L + k) - L = k
      BY <1>6, <1>12, <1>13
    <3>3. records'[L + k] = Written(g)
      BY <1>9, <1>12, <1>13, <3>1, <3>2
    <3> QED BY <1>5, <1>7, <2>3, <3>2, <3>3 DEF Exact
  <2> QED BY <2>1, <2>2, <2>3 DEF Known, Alone
<1>20. ASSUME NEW g \in Gids, Repeats(g), NotJoining(g)
       PROVE  Batch(g)' = Batch(g) /\ \A i \in Batch(g) : records'[i] = records[i]
  <2>1. \A i \in Batch(g) : records'[i] = records[i]
    BY <1>14, BatchInIndex
  <2>2. \/ \E i \in Index : NameAt(i) = fileOf[g] /\ records'[i] = records[i]
        \/ \A i \in Index' : fileOf[records'[i].gid] # fileOf[g] /\ (i \in Index => NameAt(i) # fileOf[g])
    <3> SUFFICES ASSUME \A i \in Index : NameAt(i) # fileOf[g]
                 PROVE  \A i \in Index' : fileOf[records'[i].gid] # fileOf[g]
      BY <1>14
    <3>1. aria[g] = "complete"
      BY <1>20 DEF Repeats
    <3>2. Alone(g)
      BY <3>1 DEF Rest, TasksKnown, Known, Exact, NameAt
    <3>3. \A h \in new : fileOf[h] # fileOf[g]
      BY <1>7, <3>1, <3>2 DEF Alone
    <3> QED BY <1>16, <3>3 DEF NameAt
  <2> QED BY <1>12, <1>14, <1>17, <1>18, <1>20, <2>1, <2>2, BatchStays
<1> QED BY <1>1, <1>3, <1>12, <1>14, <1>17, <1>18, <1>19, <1>20, RecordedKeeps

\* The record of a retried download is moved to the new task.
LEMMA RecordMovedKeeps ==
  ASSUME MonitorTypes, Rest, Record, NewTask
  PROVE  MonitorTypes' /\ Rest'
<1>1. PICK o \in Gids, m \in Gids :
        /\ recording = {<<o, m>>} /\ o # m /\ fileOf[o] = fileOf[m] /\ Exact(o)
        /\ aria[o] \in {"error", "removed"}
  BY DEF NewTask
<1> DEFINE old == {p[1] : p \in {q \in recording : q[1] # q[2]}}
           to(i) == {p[2] : p \in {q \in recording : q[1] = records[i].gid}}
<1>2. \A q \in recording : q[1] = o /\ q[2] = m
  BY <1>1
<1>3. old = {o}
  BY <1>1, <1>2
<1>4. /\ recording # {} /\ batches' \in NextBatch /\ recording' = {} /\ listed' = listed \ {o}
      /\ UNCHANGED <<aria, completed, notices, pushed, told, forgotten, known, scan>> /\ NotesJoined
      /\ records' = [i \in Index |-> IF to(i) = {} THEN records[i] ELSE Written(CHOOSE g \in to(i) : TRUE)]
  BY <1>3 DEF Record, NewsVars, Written, NotesJoined
<1>5. Written(m) \in Entry /\ Fresh(Written(m)) /\ Written(m).gid = m /\ aria[m] = "active"
  <2>1. <<o, m>> \in recording /\ <<o, m>>[2] = m
    BY <1>1
  <2> QED BY <1>4, <2>1, WrittenFresh
<1>6. \A i \in Index : records'[i] = IF records[i].gid = o THEN Written(m) ELSE records[i]
  <2> SUFFICES ASSUME NEW i \in Index PROVE records'[i] = IF records[i].gid = o THEN Written(m) ELSE records[i]
    OBVIOUS
  <2>1. to(i) = IF records[i].gid = o THEN {m} ELSE {}
    <3>1. <<o, m>> \in recording /\ <<o, m>>[1] = o /\ <<o, m>>[2] = m
      BY <1>1
    <3>2. \A x : x \in to(i) <=> \E q \in recording : q[1] = records[i].gid /\ x = q[2]
      OBVIOUS
    <3>3. \A x : x \in to(i) <=> (records[i].gid = o /\ x = m)
      BY <1>2, <3>1, <3>2
    <3> HIDE DEF to
    <3> QED BY <3>3
  <2>2. records'[i] = IF to(i) = {} THEN records[i] ELSE Written(CHOOSE g \in to(i) : TRUE)
    BY <1>4
  <2>3. (CHOOSE g \in {m} : TRUE) = m
    OBVIOUS
  <2> HIDE DEF to
  <2> QED BY <2>1, <2>2, <2>3
<1>7. Index' = Index /\ records' \in Seq(Entry)
  <2>1. Len(records) \in Nat /\ Index = 1..Len(records)
    BY LenProperties DEF MonitorTypes, Index
  <2>2. DOMAIN records' = Index
    BY <1>4
  <2>3. \A i \in Index : records'[i] \in Entry
    BY <1>5, <1>6, EntryTypes
  <2>4. records' = [i \in Index |-> records'[i]]
    BY <1>4
  <2>5. records' \in [1..Len(records) -> Entry]
    BY <2>1, <2>3, <2>4
  <2> QED BY <2>1, <2>2, <2>5 DEF Seq, Index
<1> HIDE DEF to
<1>8. \A i \in Index : fileOf[records'[i].gid] = NameAt(i)
  BY <1>1, <1>5, <1>6 DEF NameAt
<1>9. NamesOnce(records')
  BY <1>7, <1>8 DEF NamesOnce, Rest, RecordsTrue, Index
<1>10. \A i \in Index' : (i \in Index /\ records'[i] = records[i]) \/ Fresh(records'[i])
  BY <1>5, <1>6, <1>7
<1>11. TasksKnown'
  <2> SUFFICES ASSUME NEW g \in Gids,
                      \/ aria[g] \in {"active", "complete"}
                      \/ aria[g] \in {"error", "removed"} /\ g \in listed /\ g # o
               PROVE  Known(g)'
    BY <1>4 DEF TasksKnown
  <2>1. Known(g) /\ g # o
    BY <1>1 DEF Rest, TasksKnown
  <2>2. Exact(g) => Exact(g)'
    BY <1>6, <1>7, <2>1 DEF Exact
  <2>3. ASSUME NEW p \in recording, p[2] = g PROVE Exact(g)'
    BY <1>1, <1>2, <1>5, <1>6, <1>7, <2>3 DEF Exact
  <2> QED BY <2>1, <2>2, <2>3 DEF Known, Alone
<1>12. ASSUME ~Gone', NEW g \in Gids, Repeats(g), NotJoining(g)
       PROVE  Batch(g)' = Batch(g) /\ \A i \in Batch(g) : records'[i] = records[i]
  <2>1. aria[o] = "removed" /\ aria[g] = "complete" /\ g # o
    BY <1>1, <1>4, <1>12 DEF Gone, Ended, Repeats
  <2>2. Exact(g) \/ Alone(g)
    BY <2>1 DEF Rest, TasksKnown, Known
  <2>3. fileOf[g] # fileOf[o]
    <3>1. CASE Exact(g)
      BY <1>1, <2>1, <3>1 DEF Exact, Rest, RecordsTrue, NameAt
    <3>2. CASE Alone(g)
      BY <2>1, <3>2 DEF Alone
    <3> QED BY <2>2, <3>1, <3>2
  <2>4. \A i \in Index : NameAt(i) = fileOf[g] => records'[i] = records[i]
    BY <1>6, <2>3 DEF NameAt
  <2>5. \A i \in Batch(g) : records'[i] = records[i]
    <3> SUFFICES ASSUME NEW i \in Batch(g), records[i].gid = o PROVE FALSE
      BY <1>6, BatchInIndex
    <3>1. i \in Index /\ ~records[i].done
      BY <2>1, BatchInIndex DEF Rest, RecordsTrue
    <3>2. ~Merges(g)
      BY <1>12, <2>1, <3>1 DEF Repeats, Settled
    <3>3. PICK j \in Index : NameAt(j) = fileOf[g]
      <4>1. {j \in Index : records[j].gid = g \/ fileOf[records[j].gid] = fileOf[g]} # {}
        BY DEF Batch
      <4> QED BY <4>1 DEF NameAt
    <3>4. Batch(g) = {j}
      BY <3>2, <3>3, OneBatch DEF Rest
    <3> QED BY <2>3, <3>3, <3>4 DEF NameAt
  <2>6. \/ \E i \in Index : NameAt(i) = fileOf[g] /\ records'[i] = records[i]
        \/ \A i \in Index' : fileOf[records'[i].gid] # fileOf[g] /\ (i \in Index => NameAt(i) # fileOf[g])
    BY <1>7, <1>8, <2>4
  <2> QED BY <1>7, <1>9, <1>10, <1>12, <2>5, <2>6, BatchStays
<1>13. \A i \in Index : aria[records[i].gid] = "complete" => records'[i] = records[i]
  BY <1>1, <1>6
<1> QED BY <1>4, <1>7, <1>9, <1>10, <1>11, <1>12, <1>13, RecordedKeeps

----------------------------------------------------------------------------
(* The theorems. *)

\* The invariant holds at first.
LEMMA MonitorInitInv ==
  ASSUME MonitorInit
  PROVE  MonitorTypes /\ Rest
<1>1. MonitorTypes
  <2>1. records \in Seq(Entry) /\ aria \in [Gids -> {"none", "active", "removed"} \cup Ended]
    BY DEF MonitorInit
  <2>2. scan \in [Scanners -> ScanState] /\ told \in [Gids -> 0..2]
    BY NoScanType DEF MonitorInit
  <2>3. batches \in 0..MaxBatch
    BY MonitorAssumption DEF MonitorInit
  <2> QED BY <2>1, <2>2, <2>3 DEF MonitorInit, MonitorTypes
<1>2. Index = {}
  BY DEF MonitorInit, Index
<1>3. RecordsTrue /\ NewsTrue /\ ToldTrue
  BY <1>2 DEF MonitorInit, RecordsTrue, NewsTrue, ToldTrue
<1>4. RecordingTrue /\ TasksKnown
  BY <1>2 DEF MonitorInit, RecordingTrue, NewFiles, TasksKnown
<1>5. ScanTrue
  BY DEF MonitorInit, ScanTrue, ScanOk, NoScan
<1> QED BY <1>1, <1>3, <1>4, <1>5 DEF Rest

\* Every step keeps the invariant.
LEMMA MonitorStep ==
  ASSUME ~Window, OnePoll, MonitorTypes, Rest, [MonitorNext]_dvars
  PROVE  MonitorTypes' /\ Rest'
<1>1. ASSUME NEW s \in Scanners, ScanStep(s) PROVE MonitorTypes' /\ Rest'
  <2>1. ASSUME NEW g \in Gids, DecideCompleted(s, g) PROVE MonitorTypes' /\ Rest'
    BY <2>1, SingleKeeps, MergedKeeps
  <2> QED BY <1>1, <2>1, ListKeeps, ClaimKeeps, FinishKeeps, WorkKeeps, DecideFailedKeeps, ReleaseKeeps DEF ScanStep
<1>2. ASSUME NEW s \in Scanners, ScanFault(s) PROVE MonitorTypes' /\ Rest'
  BY <1>2, WorkFailsKeeps, ReleaseKeeps DEF ScanFault
<1>3. ASSUME NEW s \in Scanners, List(s, TRUE) PROVE MonitorTypes' /\ Rest'
  BY <1>3, ListKeeps
<1>4. ASSUME NEW G \in SUBSET Gids, Submit(G) PROVE MonitorTypes' /\ Rest'
  BY <1>4, SubmitKeeps
<1>5. ASSUME NEW g \in Gids, NEW h \in Gids, Retry(g, h) PROVE MonitorTypes' /\ Rest'
  BY <1>5, RetryKeeps
<1>6. ASSUME NEW g \in Gids, SendByHand(g) \/ Delete(g) \/ \E how \in Ended \cup {"removed"} : End(g, how)
      PROVE  MonitorTypes' /\ Rest'
  BY <1>6, SendByHandKeeps, DeleteKeeps, EndKeeps
<1>7. ASSUME Record PROVE MonitorTypes' /\ Rest'
  <2>1. NewFiles \/ NewTask
    BY DEF Rest, RecordingTrue
  <2> QED BY <1>7, <2>1, RecordNewKeeps, RecordMovedKeeps
<1>8. ASSUME UNCHANGED dvars PROVE MonitorTypes' /\ Rest'
  <2>1. UNCHANGED <<aria, listed, recording, records, batches, completed, notices, pushed, known, scan, told, forgotten, joined>>
    BY <1>8 DEF dvars
  <2>2. Quiet /\ MonitorTypes'
    BY <2>1, NewsStay DEF Quiet, EndsStay, Gone, MonitorTypes
  <2> QED BY <2>1, <2>2, QuietKeeps, QuietScans, RecordingStays DEF Rest
<1>9. ASSUME NEW m \in pushed, PushForgotten(m) PROVE MonitorTypes' /\ Rest'
  BY <1>9, PushForgottenKeeps
<1> QED BY <1>1, <1>2, <1>3, <1>4, <1>5, <1>6, <1>7, <1>8, <1>9, ClearKeeps, CrashKeeps DEF MonitorNext

\* The invariant holds always.
LEMMA MonitorInvariant ==
  ASSUME ~Window, OnePoll
  PROVE  MonitorSpec => [](MonitorTypes /\ Rest)
<1>1. MonitorInit => MonitorTypes /\ Rest
  BY MonitorInitInv
<1>2. MonitorTypes /\ Rest /\ [MonitorNext]_dvars => (MonitorTypes /\ Rest)'
  BY MonitorStep
<1> QED BY <1>1, <1>2, PTL DEF MonitorSpec

\* Every variable keeps its type: what polls hold, what is recorded and told.
THEOREM MonitorTyped ==
  ASSUME ~Window, OnePoll
  PROVE  MonitorSpec => []MonitorTypeOK
<1>1. MonitorTypes /\ Rest => MonitorTypeOK
  <2> SUFFICES ASSUME MonitorTypes, Rest PROVE MonitorTypeOK
    OBVIOUS
  <2>1. \A n \in notices : n.kind \in {"failed", "single", "merged"} /\ n.gids \subseteq Gids
    BY DEF MonitorTypes, News
  <2>2. ASSUME NEW s \in Scanners
        PROVE  /\ scan[s].pc \in {"idle", "claim", "work", "decide"} /\ scan[s].todo \subseteq scan[s].list
               /\ scan[s].list \subseteq Gids /\ Cardinality(scan[s].task) <= 1
    <3>1. scan[s] \in ScanState
      BY DEF MonitorTypes
    <3>2. scan[s].task = {} \/ \E g : scan[s].task = {g}
      BY DEF Rest, ScanTrue, ScanOk
    <3>3. Cardinality(scan[s].task) \in {0, 1}
      BY <3>2, FS_EmptySet, FS_Singleton
    <3>4. Cardinality(scan[s].task) <= 1
      BY <3>3
    <3> QED BY <3>1, <3>4 DEF Rest, ScanTrue, ScanOk, ScanState
  <2>3. records \in Seq([gid : Gids, batch : 1..MaxBatch, done : BOOLEAN])
    BY DEF MonitorTypes, Entry
  <2> QED BY <2>1, <2>2, <2>3 DEF MonitorTypeOK, MonitorTypes
<1> QED BY <1>1, MonitorInvariant, PTL

\* The end of a file is announced once, whatever polls, restarts, failed writes
\* and clearings of the list come between, as long as Aria2 lists what ended, a
\* notification or a job in the list remembers the message, and no other file joined
\* the batch after it was announced.
THEOREM EndsToldOnce ==
  ASSUME ~Window, OnePoll
  PROVE  MonitorSpec => []ToldOnce
<1>1. MonitorTypes /\ Rest => ToldOnce
  <2> SUFFICES ASSUME MonitorTypes, Rest, NEW g \in Gids, ~Gone, ~Forgotten(g), ~Joined(g)
               PROVE  told[g] <= 1
    BY DEF ToldOnce, Gone
  <2>1. told[g] = 0 \/ told[g] = 1
    BY DEF Rest, ToldTrue, Excused
  <2> QED BY <2>1
<1> QED BY <1>1, MonitorInvariant, PTL

\* Whoever is told that a file is complete finds its record complete.
THEOREM NewsFollowsRecord ==
  ASSUME ~Window, OnePoll
  PROVE  MonitorSpec => []NoticeFollowsRecord
<1>1. MonitorTypes /\ Rest => NoticeFollowsRecord
  BY DEF Rest, NewsTrue, NoticeFollowsRecord, Of
<1> QED BY <1>1, MonitorInvariant, PTL

=============================================================================

--------------------------- MODULE InterfacesProofs ---------------------------
(***************************************************************************)
(* Safety of what a user sees and does from afar: the digest of             *)
(* notifications, the confirmations over Telegram, the settings and the     *)
(* automation's timeline, for any number of notifications, updates, pages,  *)
(* edits, jobs, events, failures and restarts.                              *)
(***************************************************************************)
EXTENDS Interfaces, SequenceTheorems, WellFoundedInduction, TLAPS

----------------------------------------------------------------------------
(* The digest.                                                             *)

Levels == {"info", "error"}
Pushes == [key : SUBSET (Items \cup {textOf[i] : i \in Items}), level : Levels, items : SUBSET Items,
           status : {"queued", "running", "direct"}]
NoticeTypes ==
  /\ item \in [Items -> {"absent", "stored", "pending", "consumed"}]
  /\ flush \in [pc : {"idle", "level", "take", "submit"}, level : Levels, ids : SUBSET Items]
  /\ jobs \subseteq Pushes /\ arrived \in [Items -> 0 .. 2] /\ spawned \subseteq Items
  /\ used \in [edits : Nat, crashes : Nat, refusals : Nat]

\* An item that no message was made of yet is in no job, and one in a job was
\* not sent.
InJob(i) == \E j \in jobs : i \in j.items
Unsent(i) == i \in spawned \/ item[i] \in {"absent", "pending"} \/ (flush.pc = "submit" /\ i \in flush.ids)
\* The queue has one unfinished job of a message.
Keyed == \A j, k \in jobs : (/\ j.status # "direct" /\ k.status # "direct"
                             /\ j.key = k.key /\ j.level = k.level) => j = k
Once ==
  /\ \A i \in spawned : item[i] = "stored"
  /\ flush.pc = "submit" => \A i \in flush.ids : item[i] = "consumed"
  /\ \A i \in Items : (Unsent(i) => ~InJob(i) /\ arrived[i] = 0) /\ (InJob(i) => arrived[i] = 0)
  /\ SentOnce /\ Keyed

DigestInv == NoticeTypes /\ NoticeAccounted /\ PendingHasTimer

\* Where an item that is not with the digest is accounted for.
Accounted(i) ==
  \/ i \in spawned \/ arrived[i] > 0 \/ i \in skipped \cup lost \cup cut
  \/ (flush.pc = "submit" /\ i \in flush.ids)
  \/ \E j \in jobs : i \in j.items

LEMMA LevelFacts == \A I \in SUBSET Items : Level(I) \in Levels
  BY DEF Level, Levels


\* A submission drops no job, and the items of the new one are in one; no other
\* item is in a job for it.
LEMMA SubmittedFacts ==
  ASSUME NoticeTypes, NEW key \in SUBSET (Items \cup {textOf[i] : i \in Items}), NEW level \in Levels,
         NEW I \in SUBSET Items, jobs' = Submitted(PushJob(key, level, I))
  PROVE  /\ jobs' \subseteq Pushes
         /\ \A i \in Items : InJob(i)' <=> i \in I \/ InJob(i)
         /\ Keyed => Keyed'
         /\ Keyed /\ SentOnce /\ (\A i \in I : ~InJob(i)) =>
              \A j, k \in jobs' : j.items \cap k.items # {} => j = k
<1> DEFINE new == PushJob(key, level, I)
           same == {k \in jobs : k.status # "direct" /\ k.key = new.key /\ k.level = new.level}
           grown(k) == [k EXCEPT !.items = @ \cup new.items]
<1>1. new \in Pushes /\ new.items = I /\ new.status = "queued" /\ new.key = key /\ new.level = level
  BY DEF PushJob, Pushes
<1>2. jobs \subseteq Pushes
  BY DEF NoticeTypes
<1>3. ASSUME NEW k \in Pushes
      PROVE  /\ grown(k) \in Pushes /\ grown(k).items = k.items \cup I
             /\ grown(k).key = k.key /\ grown(k).level = k.level /\ grown(k).status = k.status
  BY <1>1 DEF Pushes
<1>4. jobs' = IF same = {} THEN jobs \cup {new} ELSE (jobs \ same) \cup {grown(k) : k \in same}
  BY DEF Submitted
<1>5. same \subseteq jobs /\ \A k \in jobs : k \in same <=> k.status # "direct" /\ k.key = key /\ k.level = level
  BY <1>1
<1> HIDE DEF new, same, grown
<1>6. CASE same = {}
  <2>1. jobs' = jobs \cup {new}
    BY <1>4, <1>6
  <2>2. \A i \in Items : InJob(i)' <=> i \in I \/ InJob(i)
    BY <1>1, <2>1 DEF InJob
  <2>3. Keyed => Keyed'
    BY <1>1, <1>5, <1>6, <2>1 DEF Keyed
  <2>4. ASSUME SentOnce, \A i \in I : ~InJob(i), NEW j \in jobs', NEW k \in jobs', j.items \cap k.items # {}
        PROVE  j = k
    <3>1. \A l \in jobs : l.items \cap I = {}
      BY <2>4 DEF InJob
    <3> QED
      BY <1>1, <2>1, <2>4, <3>1 DEF SentOnce
  <2> QED
    BY <1>1, <1>2, <2>1, <2>2, <2>3, <2>4
<1>7. CASE same # {}
  <2>1. jobs' = (jobs \ same) \cup {grown(k) : k \in same}
    BY <1>4, <1>7
  <2>2. jobs' \subseteq Pushes
    BY <1>2, <1>3, <1>5, <2>1
  <2>3. PICK g \in same : TRUE
    BY <1>7
  <2>4. g \in Pushes /\ g \in jobs /\ grown(g) \in jobs'
    BY <1>2, <1>5, <2>1, <2>3
  <2>5. ASSUME NEW i \in Items, InJob(i) PROVE InJob(i)'
    <3>1. PICK l \in jobs : i \in l.items
      BY <2>5 DEF InJob
    <3>2. CASE l \in same
      <4>1. grown(l) \in jobs' /\ i \in grown(l).items
        BY <1>2, <1>3, <2>1, <3>1, <3>2
      <4> QED
        BY <4>1 DEF InJob
    <3>3. CASE l \notin same
      BY <2>1, <3>1, <3>3 DEF InJob
    <3> QED
      BY <3>2, <3>3
  <2>6. \A i \in I : InJob(i)'
    BY <1>3, <2>4 DEF InJob
  <2>7. ASSUME NEW i \in Items, InJob(i)' PROVE i \in I \/ InJob(i)
    <3>1. PICK l \in jobs' : i \in l.items
      BY <2>7 DEF InJob
    <3>2. CASE l \in jobs
      BY <3>1, <3>2 DEF InJob
    <3>3. CASE l \notin jobs
      <4>1. PICK k \in same : l = grown(k)
        BY <2>1, <3>3
      <4>2. k \in jobs /\ (i \in k.items \/ i \in I)
        BY <1>2, <1>3, <1>5, <3>1, <4>1
      <4> QED
        BY <4>2 DEF InJob
    <3> QED
      BY <3>2, <3>3
  <2>8. ASSUME Keyed PROVE same = {g} /\ jobs' = (jobs \ {g}) \cup {grown(g)}
    <3>1. \A k \in same : k = g
      BY <1>5, <2>3, <2>8 DEF Keyed
    <3>2. same = {g}
      BY <2>3, <3>1
    <3> QED
      BY <2>1, <3>2
  <2>9. ASSUME Keyed PROVE Keyed'
    <3>1. grown(g).key = g.key /\ grown(g).level = g.level /\ grown(g).status = g.status
      BY <1>3, <2>4
    <3>2. \A j, k \in jobs : (j.status # "direct" /\ k.status # "direct" /\ j.key = k.key /\ j.level = k.level) => j = k
      BY <2>9 DEF Keyed
    <3> HIDE DEF Keyed
    <3>3. ASSUME NEW j \in jobs', NEW k \in jobs', j.status # "direct", k.status # "direct", j.key = k.key, j.level = k.level
          PROVE  j = k
      <4>1. jobs' = (jobs \ {g}) \cup {grown(g)}
        BY <2>8, <2>9
      <4>2. CASE j = grown(g) /\ k # grown(g)
        BY <2>4, <3>1, <3>2, <3>3, <4>1, <4>2
      <4>3. CASE k = grown(g) /\ j # grown(g)
        BY <2>4, <3>1, <3>2, <3>3, <4>1, <4>3
      <4>4. CASE j # grown(g) /\ k # grown(g)
        BY <3>2, <3>3, <4>1, <4>4
      <4> QED
        BY <4>2, <4>3, <4>4
    <3> QED
      BY <3>3 DEF Keyed
  <2>10. ASSUME Keyed, SentOnce, \A i \in I : ~InJob(i), NEW j \in jobs', NEW k \in jobs', j.items \cap k.items # {}
         PROVE  j = k
    <3>1. jobs' = (jobs \ {g}) \cup {grown(g)} /\ grown(g).items = g.items \cup I
      BY <1>3, <2>4, <2>8, <2>10
    <3>2. \A l \in jobs : l.items \cap I = {}
      BY <2>10 DEF InJob
    <3>3. \A l, m \in jobs : l.items \cap m.items # {} => l = m
      BY <2>10 DEF SentOnce
    <3>4. ASSUME NEW l \in jobs \ {g} PROVE l.items \cap grown(g).items = {}
      BY <2>4, <3>1, <3>2, <3>3
    <3> QED
      BY <2>10, <3>1, <3>3, <3>4
  <2> QED
    BY <2>2, <2>5, <2>6, <2>7, <2>9, <2>10
<1> QED
  BY <1>6, <1>7

\* A step that leaves the digest alone.
LEMMA DigestKeeps ==
  ASSUME DigestInv, NoticeTypes', UNCHANGED <<item, timer, flush, stranded>>,
         \A i \in Items : Accounted(i) => Accounted(i)'
  PROVE  DigestInv'
<1>1. Pending' = Pending
  BY DEF Pending
<1>2. NoticeAccounted'
  BY DEF DigestInv, NoticeAccounted, Accounted
<1> QED
  BY <1>1, <1>2 DEF DigestInv, PendingHasTimer

\* Notifications that arrive, are dropped, or leave for a job of their own.
LEMMA DispatchKeeps ==
  ASSUME DigestInv, NEW i \in Items, Notify(i) \/ Suppress(i) \/ QueuePush(i) \/ SendDirectly(i) \/ Age(i)
  PROVE  DigestInv'
<1>t. NoticeTypes
  BY DEF DigestInv
<1>1. CASE Notify(i)
  <2>1. /\ item[i] = "absent" /\ item' = [item EXCEPT ![i] = "stored"] /\ spawned' = spawned \cup {i}
        /\ UNCHANGED <<timer, flush, jobs, digest, arrived, skipped, lost, stranded, cut, used>>
    BY <1>1 DEF Notify, History
  <2>2. NoticeTypes' /\ Pending' = Pending
    BY <1>t, <2>1 DEF NoticeTypes, Pending
  <2>3. NoticeAccounted'
    BY <1>t, <2>1 DEF DigestInv, NoticeAccounted, NoticeTypes
  <2> QED
    BY <2>1, <2>2, <2>3 DEF DigestInv, PendingHasTimer
<1>2. CASE Suppress(i) \/ Age(i)
  <2>1. UNCHANGED <<item, timer, flush, jobs, digest, arrived, lost, stranded, cut, used>>
    BY <1>2 DEF Suppress, Age, History
  <2>2. \/ spawned' = spawned /\ skipped' = skipped
        \/ spawned' = spawned \ {i} /\ skipped' = skipped \cup {i}
    <3>1. CASE Suppress(i)
      BY <3>1 DEF Suppress
    <3>2. CASE Age(i)
      BY <3>2 DEF Age, History
    <3> QED
      BY <1>2, <3>1, <3>2
  <2> QED
    BY <1>t, <2>1, <2>2, DigestKeeps DEF NoticeTypes, Accounted
<1>3. CASE QueuePush(i)
  <2>1. /\ UNCHANGED <<item, timer, flush, digest, arrived, lost, stranded, cut, used>> /\ spawned' = spawned \ {i}
        /\ \/ jobs' = jobs /\ skipped' = skipped \cup {i}
           \/ jobs' = Submitted(PushJob({i}, levelOf[i], {i})) /\ skipped' = skipped
    BY <1>3 DEF QueuePush
  <2>2. levelOf[i] \in Levels
    BY NotificationsAssumption DEF Levels
  <2>3. CASE jobs' = jobs /\ skipped' = skipped \cup {i}
    BY <1>t, <2>1, <2>3, DigestKeeps DEF NoticeTypes, Accounted
  <2>4. CASE jobs' = Submitted(PushJob({i}, levelOf[i], {i})) /\ skipped' = skipped
    <3>1. /\ jobs' \subseteq Pushes
          /\ \A k \in Items : k = i \/ (\E j \in jobs : k \in j.items) => \E j \in jobs' : k \in j.items
      <4>1. {i} \in SUBSET (Items \cup {textOf[k] : k \in Items}) /\ {i} \in SUBSET Items
        OBVIOUS
      <4> QED
        BY <1>t, <2>2, <2>4, <4>1, SubmittedFacts DEF InJob
    <3>2. NoticeTypes'
      BY <1>t, <2>1, <3>1 DEF NoticeTypes
    <3>3. \A k \in Items : Accounted(k) => Accounted(k)'
      BY <2>1, <2>4, <3>1 DEF Accounted
    <3> QED
      BY <2>1, <3>2, <3>3, DigestKeeps
  <2> QED
    BY <2>1, <2>3, <2>4
<1>4. CASE SendDirectly(i)
  <2> DEFINE own == [PushJob({i}, levelOf[i], {i}) EXCEPT !.status = "direct"]
  <2>1. /\ UNCHANGED <<item, timer, flush, digest, arrived, skipped, lost, stranded, cut>>
        /\ spawned' = spawned \ {i} /\ jobs' = jobs \cup {own} /\ used' = [used EXCEPT !.refusals = @ + 1]
    BY <1>4 DEF SendDirectly, Spend, History
  <2>2. own \in Pushes /\ own.items = {i}
    BY NotificationsAssumption DEF PushJob, Pushes, Levels
  <2> HIDE DEF own
  <2>3. NoticeTypes'
    BY <1>t, <2>1, <2>2 DEF NoticeTypes
  <2>4. \A k \in Items : Accounted(k) => Accounted(k)'
    BY <2>1, <2>2 DEF Accounted
  <2> QED
    BY <2>1, <2>3, <2>4, DigestKeeps
<1> QED
  BY <1>1, <1>2, <1>3, <1>4

\* What waits for the digest has a timer from now on.
LEMMA LeaveToDigestKeeps ==
  ASSUME DigestInv, NEW i \in Items, LeaveToDigest(i) PROVE DigestInv'
<1>1. /\ timer' /\ spawned' = spawned \ {i} /\ UNCHANGED <<flush, jobs, digest, arrived, skipped, cut>>
      /\ \/ item' = [item EXCEPT ![i] = "pending"] /\ UNCHANGED <<lost, used>>
         \/ lost' = lost \cup {i} /\ used' = [used EXCEPT !.refusals = @ + 1] /\ item' = item
  BY DEF LeaveToDigest, Spend
<1>2. NoticeTypes'
  BY <1>1 DEF DigestInv, NoticeTypes
<1>3. NoticeAccounted'
  BY <1>1 DEF DigestInv, NoticeAccounted, NoticeTypes
<1> QED
  BY <1>1, <1>2, <1>3 DEF DigestInv, PendingHasTimer

\* The timer goes off; the flush goes on, or is put off.
LEMMA FlushBeginKeeps ==
  ASSUME DigestInv, Fire \/ Postpone \/ Proceed PROVE DigestInv'
<1>t. NoticeTypes
  BY DEF DigestInv
<1>1. /\ UNCHANGED <<item, spawned, jobs, digest, arrived, skipped, lost, stranded, cut, used>>
      /\ flush.pc \in {"idle", "level"}
  BY DEF Fire, Postpone, Proceed, History
<1>2. Pending' = Pending
  BY <1>1 DEF Pending
<1>3. CASE Fire
  <2>1. timer /\ flush' = [NoFlush EXCEPT !.pc = "level"]
    BY <1>3 DEF Fire
  <2>2. flush' \in [pc : {"idle", "level", "take", "submit"}, level : Levels, ids : SUBSET Items] /\ flush'.pc = "level"
    BY <2>1 DEF NoFlush, Levels
  <2> QED
    BY <1>t, <1>1, <1>2, <2>1, <2>2
       DEF DigestInv, NoticeTypes, NoticeAccounted, PendingHasTimer
<1>4. CASE Postpone
  <2>1. flush.pc = "level" /\ flush' = NoFlush /\ timer' = (timer \/ Pending # {})
    BY <1>4 DEF Postpone
  <2>2. flush' \in [pc : {"idle", "level", "take", "submit"}, level : Levels, ids : SUBSET Items] /\ flush'.pc = "idle"
    BY <2>1 DEF NoFlush, Levels
  <2> QED
    BY <1>t, <1>1, <1>2, <2>1, <2>2
       DEF DigestInv, NoticeTypes, NoticeAccounted, PendingHasTimer
<1>5. CASE Proceed
  <2>1. flush.pc = "level" /\ flush' = [flush EXCEPT !.pc = "take", !.level = Level(Pending)] /\ timer' = timer
    BY <1>5 DEF Proceed
  <2>2. Level(Pending) \in Levels
    BY LevelFacts DEF Pending
  <2>3. flush' \in [pc : {"idle", "level", "take", "submit"}, level : Levels, ids : SUBSET Items] /\ flush'.pc = "take"
    BY <1>t, <2>1, <2>2 DEF NoticeTypes
  <2> QED
    BY <1>t, <1>1, <1>2, <2>1, <2>3
       DEF DigestInv, NoticeTypes, NoticeAccounted, PendingHasTimer
<1> QED
  BY <1>3, <1>4, <1>5

\* What is taken is with the flush; a take that fails leaves it to the next timer.
LEMMA TakeKeeps ==
  ASSUME DigestInv, Take \/ TakeFails PROVE DigestInv'
<1>t. NoticeTypes
  BY DEF DigestInv
<1>0. flush.pc = "take" /\ UNCHANGED <<spawned, timer, jobs, digest, arrived, skipped, lost, cut>>
  BY DEF Take, TakeFails, History
<1>p. Pending \in SUBSET Items
  BY DEF Pending
<1>1. CASE Take
  <2>1. /\ flush' = IF Pending = {} THEN NoFlush ELSE [flush EXCEPT !.pc = "submit", !.ids = Pending]
        /\ item' = [i \in Items |-> IF i \in Pending THEN "consumed" ELSE item[i]] /\ used' = used
    BY <1>1 DEF Take
  <2>2. NoticeTypes' /\ (Pending # {} => flush'.pc = "submit" /\ flush'.ids = Pending)
    BY <1>t, <1>0, <1>p, <2>1 DEF NoticeTypes, NoFlush, Levels
  <2>3. Pending' = {}
    BY <2>1 DEF Pending
  <2>4. NoticeAccounted'
    <3> SUFFICES ASSUME NEW i \in Items, item'[i] \in {"stored", "consumed"} PROVE Accounted(i)'
      BY DEF NoticeAccounted, Accounted
    <3>1. CASE i \in Pending
      BY <2>2, <3>1 DEF Accounted
    <3>2. CASE i \notin Pending
      BY <1>0, <2>1, <3>2 DEF DigestInv, NoticeAccounted, Accounted
    <3> QED
      BY <3>1, <3>2
  <2> QED
    BY <2>2, <2>3, <2>4 DEF DigestInv, PendingHasTimer
<1>2. CASE TakeFails
  <2>1. flush' = NoFlush /\ item' = item /\ stranded' = (IF timer THEN stranded ELSE Pending')
        /\ used' = [used EXCEPT !.refusals = @ + 1]
    BY <1>2 DEF TakeFails, Spend, Stranded
  <2>2. NoticeTypes'
    BY <1>t, <1>0, <2>1 DEF NoticeTypes, NoFlush, Levels
  <2>3. NoticeAccounted'
    BY <1>0, <2>1 DEF DigestInv, NoticeAccounted
  <2> QED
    BY <1>0, <2>1, <2>2, <2>3 DEF DigestInv, PendingHasTimer
<1> QED
  BY <1>1, <1>2

\* The job has what the flush had.
LEMMA SubmitKeeps ==
  ASSUME DigestInv, SubmitDigest PROVE DigestInv'
<1>t. NoticeTypes
  BY DEF DigestInv
<1>1. /\ flush.pc = "submit" /\ flush' = NoFlush
      /\ jobs' = Submitted(PushJob({textOf[i] : i \in flush.ids}, flush.level, flush.ids))
      /\ UNCHANGED <<item, spawned, timer, digest, arrived, skipped, lost, stranded, cut, used>>
  BY DEF SubmitDigest, History
<1>2. /\ flush.ids \in SUBSET Items /\ flush.level \in Levels
      /\ {textOf[i] : i \in flush.ids} \in SUBSET (Items \cup {textOf[i] : i \in Items})
  BY <1>t DEF NoticeTypes
<1>3. /\ jobs' \subseteq Pushes
      /\ \A i \in Items : i \in flush.ids \/ (\E j \in jobs : i \in j.items) => \E j \in jobs' : i \in j.items
  BY <1>t, <1>1, <1>2, SubmittedFacts DEF InJob
<1>4. flush' \in [pc : {"idle", "level", "take", "submit"}, level : Levels, ids : SUBSET Items] /\ flush'.pc = "idle"
  BY <1>1 DEF NoFlush, Levels
<1>5. NoticeTypes' /\ Pending' = Pending
  BY <1>t, <1>1, <1>3, <1>4 DEF NoticeTypes, Pending
<1>6. NoticeAccounted'
  BY <1>1, <1>3 DEF DigestInv, NoticeAccounted
<1> QED
  BY <1>1, <1>4, <1>5, <1>6 DEF DigestInv, PendingHasTimer

\* Refused, the items are pending again, or lost to the write that should have
\* made them so.
LEMMA RefuseDigestKeeps ==
  ASSUME DigestInv, RefuseDigest \/ RestoreFails PROVE DigestInv'
<1>t. NoticeTypes
  BY DEF DigestInv
<1>1. /\ flush.pc = "submit" /\ flush' = NoFlush /\ used' = [used EXCEPT !.refusals = @ + 1]
      /\ UNCHANGED <<spawned, timer, jobs, digest, arrived, skipped, cut>>
  BY DEF RefuseDigest, RestoreFails, Spend
<1>2. flush' \in [pc : {"idle", "level", "take", "submit"}, level : Levels, ids : SUBSET Items]
  BY <1>1 DEF NoFlush, Levels
<1>3. CASE RefuseDigest
  <2>1. /\ item' = [i \in Items |-> IF i \in flush.ids /\ item[i] # "absent" THEN "pending" ELSE item[i]]
        /\ lost' = lost /\ stranded' = (IF timer THEN stranded ELSE Pending')
    BY <1>3 DEF RefuseDigest, Stranded
  <2>2. NoticeTypes'
    BY <1>t, <1>1, <1>2, <2>1 DEF NoticeTypes
  <2>3. NoticeAccounted'
    BY <1>1, <2>1 DEF DigestInv, NoticeAccounted
  <2> QED
    BY <1>1, <2>1, <2>2, <2>3 DEF DigestInv, PendingHasTimer
<1>4. CASE RestoreFails
  <2>1. item' = item /\ lost' = lost \cup flush.ids /\ stranded' = stranded
    BY <1>4 DEF RestoreFails
  <2>2. NoticeTypes' /\ Pending' = Pending
    BY <1>t, <1>1, <1>2, <2>1 DEF NoticeTypes, Pending
  <2>3. NoticeAccounted'
    BY <1>1, <2>1 DEF DigestInv, NoticeAccounted
  <2> QED
    BY <1>1, <2>1, <2>2, <2>3 DEF DigestInv, PendingHasTimer
<1> QED
  BY <1>3, <1>4

\* A push job starts, sends, or finds no channel.
LEMMA PushKeeps ==
  ASSUME DigestInv, NEW j \in jobs, StartPush(j) \/ SkipPush(j) \/ SendPush(j) PROVE DigestInv'
<1>t. NoticeTypes /\ j \in Pushes
  BY DEF DigestInv, NoticeTypes
<1>1. UNCHANGED <<item, spawned, timer, flush, digest, used, lost, stranded, cut>>
  BY DEF StartPush, SkipPush, SendPush, History
<1>2. CASE StartPush(j)
  <2>1. jobs' = (jobs \ {j}) \cup {[j EXCEPT !.status = "running"]} /\ UNCHANGED <<arrived, skipped>>
    BY <1>2 DEF StartPush, History
  <2>2. [j EXCEPT !.status = "running"] \in Pushes /\ [j EXCEPT !.status = "running"].items = j.items
    BY <1>t DEF Pushes
  <2>3. NoticeTypes'
    BY <1>t, <1>1, <2>1, <2>2 DEF NoticeTypes
  <2>4. ASSUME NEW i \in Items, NEW k \in jobs, i \in k.items PROVE \E l \in jobs' : i \in l.items
    <3>1. CASE k = j
      <4>1. [j EXCEPT !.status = "running"] \in jobs' /\ i \in [j EXCEPT !.status = "running"].items
        BY <2>1, <2>2, <2>4, <3>1
      <4> QED
        BY <4>1
    <3>2. CASE k # j
      BY <2>1, <2>4, <3>2
    <3> QED
      BY <3>1, <3>2
  <2>5. \A i \in Items : Accounted(i) => Accounted(i)'
    BY <1>1, <2>1, <2>4 DEF Accounted
  <2> QED
    BY <1>1, <2>3, <2>5, DigestKeeps
<1>3. CASE SkipPush(j)
  <2>1. jobs' = jobs \ {j} /\ skipped' = skipped \cup j.items /\ arrived' = arrived
    BY <1>3 DEF SkipPush
  <2>2. NoticeTypes'
    BY <1>t, <1>1, <2>1 DEF NoticeTypes
  <2>3. \A i \in Items : Accounted(i) => Accounted(i)'
    BY <1>1, <2>1 DEF Accounted
  <2> QED
    BY <1>1, <2>2, <2>3, DigestKeeps
<1>4. CASE SendPush(j)
  <2>1. PICK sent \in BOOLEAN :
          /\ arrived' = [i \in Items |-> IF sent /\ i \in j.items /\ arrived[i] < 2 THEN arrived[i] + 1 ELSE arrived[i]]
          /\ skipped' = IF sent THEN skipped ELSE skipped \cup j.items
    <3>1. PICK attempts \in [channels_for_event(j.level) -> send_with_retry] :
            LET sent == \E c \in channels_for_event(j.level) : Delivered(c, attempts) IN
            /\ arrived' = [i \in Items |-> IF sent /\ i \in j.items /\ arrived[i] < 2 THEN arrived[i] + 1 ELSE arrived[i]]
            /\ skipped' = IF sent THEN skipped ELSE skipped \cup j.items
      BY <1>4 DEF SendPush
    <3>2. (\E c \in channels_for_event(j.level) : Delivered(c, attempts)) \in BOOLEAN
      BY Zenon
    <3> QED
      BY <3>1, <3>2
  <2>2. jobs' = jobs \ {j}
    BY <1>4 DEF SendPush
  <2>3. arrived' \in [Items -> 0 .. 2] /\ \A i \in Items : arrived'[i] >= arrived[i]
    BY <1>t, <2>1 DEF NoticeTypes
  <2>4. NoticeTypes'
    BY <1>t, <1>1, <2>2, <2>3 DEF NoticeTypes
  <2>5. \A i \in Items : i \in j.items => arrived'[i] > 0 \/ i \in skipped'
    BY <1>t, <2>1 DEF NoticeTypes
  <2>6. \A i \in Items : arrived[i] > 0 => arrived'[i] > 0
    BY <1>t, <2>3 DEF NoticeTypes
  <2>7. skipped \subseteq skipped'
    BY <2>1
  <2>8. \A i \in Items : Accounted(i) => Accounted(i)'
    BY <1>1, <2>2, <2>5, <2>6, <2>7 DEF Accounted
  <2> QED
    BY <1>1, <2>4, <2>8, DigestKeeps
<1> QED
  BY <1>2, <1>3, <1>4

\* A switch changes nothing that is pending; a restart gives it a timer, or
\* leaves it where the digest is off, and what it takes the last trace of is cut.
LEMMA RestartKeeps ==
  ASSUME DigestInv, SwitchDigest \/ Restart PROVE DigestInv'
<1>t. NoticeTypes
  BY DEF DigestInv
<1>1. CASE SwitchDigest
  <2>1. /\ used' = [used EXCEPT !.edits = @ + 1]
        /\ UNCHANGED <<item, spawned, timer, flush, jobs, arrived, skipped, lost, stranded, cut>>
    BY <1>1 DEF SwitchDigest, Spend, History
  <2>2. NoticeTypes'
    BY <1>t, <2>1 DEF NoticeTypes
  <2> QED
    BY <2>1, <2>2, DigestKeeps DEF Accounted
<1>2. CASE Restart
  <2>1. /\ used' = [used EXCEPT !.crashes = @ + 1] /\ flush' = NoFlush /\ jobs' = {} /\ spawned' = {}
        /\ cut' = cut \cup spawned \cup (IF flush.pc = "submit" THEN flush.ids ELSE {})
                      \cup UNION {j.items : j \in jobs}
        /\ timer' = (digest /\ Pending # {}) /\ stranded' = (IF digest THEN {} ELSE Pending)
        /\ UNCHANGED <<item, digest, arrived, skipped, lost>>
    BY <1>2 DEF Restart, Spend
  <2>2. flush' \in [pc : {"idle", "level", "take", "submit"}, level : Levels, ids : SUBSET Items]
    BY <2>1 DEF NoFlush, Levels
  <2>3. NoticeTypes' /\ Pending' = Pending
    BY <1>t, <2>1, <2>2 DEF NoticeTypes, Pending
  <2>4. \A i \in Items : Accounted(i) => Accounted(i)'
    BY <2>1 DEF Accounted
  <2>5. NoticeAccounted'
    BY <2>1, <2>4 DEF DigestInv, NoticeAccounted, Accounted
  <2> QED
    BY <2>1, <2>3, <2>5 DEF DigestInv, PendingHasTimer
<1> QED
  BY <1>1, <1>2

LEMMA DigestStep == DigestInv /\ [NotificationsNext]_nvars => DigestInv'
<1> SUFFICES ASSUME DigestInv, [NotificationsNext]_nvars PROVE DigestInv'
  OBVIOUS
<1>1. CASE UNCHANGED nvars \/ ClockQuiet
  <2>1. UNCHANGED <<item, spawned, timer, flush, jobs, arrived, skipped, lost, stranded, cut, used>>
    BY <1>1 DEF nvars, ClockQuiet, History
  <2> QED
    BY <2>1, DigestKeeps DEF DigestInv, NoticeTypes, Accounted
<1> QED
  BY <1>1, DispatchKeeps, LeaveToDigestKeeps, FlushBeginKeeps, TakeKeeps, SubmitKeeps, RefuseDigestKeeps,
     PushKeeps, RestartKeeps DEF NotificationsNext, FlushStep

\* A step that leaves every item where it is.
LEMMA OnceKeeps ==
  ASSUME Once, spawned' \subseteq spawned, UNCHANGED <<item, jobs, arrived>>,
         flush'.pc = "submit" => flush.pc = "submit" /\ flush'.ids = flush.ids
  PROVE  Once'
<1>1. \A i \in Items : (Unsent(i)' => Unsent(i)) /\ (InJob(i)' <=> InJob(i))
  BY DEF Unsent, InJob
<1>2. SentOnce' /\ Keyed'
  BY DEF Once, SentOnce, Keyed
<1>3. \A i \in Items : (Unsent(i)' => ~InJob(i)' /\ arrived'[i] = 0) /\ (InJob(i)' => arrived'[i] = 0)
  BY <1>1 DEF Once
<1> QED
  BY <1>2, <1>3 DEF Once

\* Of an item one message is made at a time.
LEMMA DispatchOnce ==
  ASSUME NoticeTypes, Once, NEW i \in Items,
         Notify(i) \/ Suppress(i) \/ LeaveToDigest(i) \/ QueuePush(i) \/ SendDirectly(i) \/ Age(i)
  PROVE  Once'
<1>1. CASE Notify(i)
  <2>1. /\ item[i] = "absent" /\ item' = [item EXCEPT ![i] = "stored"] /\ spawned' = spawned \cup {i}
        /\ UNCHANGED <<flush, jobs, arrived>>
    BY <1>1 DEF Notify, History
  <2>2. \A k \in Items : (Unsent(k)' => Unsent(k)) /\ (InJob(k)' <=> InJob(k))
    BY <2>1 DEF Unsent, InJob, NoticeTypes
  <2>3. SentOnce' /\ Keyed'
    BY <2>1 DEF Once, SentOnce, Keyed
  <2>4. \A k \in spawned' : item'[k] = "stored"
    BY <2>1 DEF Once, NoticeTypes
  <2>5. flush'.pc = "submit" => \A k \in flush'.ids : item'[k] = "consumed"
    BY <2>1 DEF Once, NoticeTypes
  <2>6. \A k \in Items : (Unsent(k)' => ~InJob(k)' /\ arrived'[k] = 0) /\ (InJob(k)' => arrived'[k] = 0)
    BY <2>1, <2>2 DEF Once
  <2> QED
    BY <2>3, <2>4, <2>5, <2>6 DEF Once
<1>2. CASE Suppress(i) \/ Age(i)
  BY <1>2, OnceKeeps DEF Suppress, Age, History
<1>3. CASE LeaveToDigest(i)
  <2>1. /\ i \in spawned /\ spawned' = spawned \ {i} /\ UNCHANGED <<flush, jobs, arrived>>
        /\ item' = item \/ item' = [item EXCEPT ![i] = "pending"]
    BY <1>3 DEF LeaveToDigest
  <2>2. item[i] = "stored" /\ Unsent(i)
    BY <2>1 DEF Once, Unsent
  <2>3. \A k \in Items : (Unsent(k)' => Unsent(k)) /\ (InJob(k)' <=> InJob(k))
    BY <2>1, <2>2 DEF Unsent, InJob, NoticeTypes
  <2>4. SentOnce' /\ Keyed'
    BY <2>1 DEF Once, SentOnce, Keyed
  <2>5. \A k \in spawned' : item'[k] = "stored"
    BY <2>1 DEF Once, NoticeTypes
  <2>6. flush'.pc = "submit" => \A k \in flush'.ids : item'[k] = "consumed"
    BY <2>1, <2>2 DEF Once, NoticeTypes
  <2>7. \A k \in Items : (Unsent(k)' => ~InJob(k)' /\ arrived'[k] = 0) /\ (InJob(k)' => arrived'[k] = 0)
    BY <2>1, <2>3 DEF Once
  <2> QED
    BY <2>4, <2>5, <2>6, <2>7 DEF Once
<1>4. CASE QueuePush(i) \/ SendDirectly(i)
  <2> DEFINE own == [PushJob({i}, levelOf[i], {i}) EXCEPT !.status = "direct"]
  <2>1. /\ i \in spawned /\ spawned' = spawned \ {i} /\ UNCHANGED <<item, flush, arrived>>
        /\ jobs' = jobs \/ jobs' = Submitted(PushJob({i}, levelOf[i], {i})) \/ jobs' = jobs \cup {own}
    BY <1>4 DEF QueuePush, SendDirectly, History
  <2>2. item[i] = "stored" /\ Unsent(i) /\ ~InJob(i) /\ arrived[i] = 0
    BY <2>1 DEF Once, Unsent
  <2>3. levelOf[i] \in Levels
    BY NotificationsAssumption DEF Levels
  <2>4. /\ \A k \in Items : InJob(k)' => k = i \/ InJob(k)
        /\ Keyed' /\ \A j, k \in jobs' : j.items \cap k.items # {} => j = k
    <3>1. CASE jobs' = jobs
      BY <3>1 DEF Once, InJob, Keyed, SentOnce
    <3>2. CASE jobs' = Submitted(PushJob({i}, levelOf[i], {i}))
      <4> DEFINE one == {i}
                 level == levelOf[i]
      <4>1. one \in SUBSET (Items \cup {textOf[k] : k \in Items}) /\ one \in SUBSET Items
        OBVIOUS
      <4>2. SentOnce /\ Keyed /\ \A k \in one : ~InJob(k)
        BY <2>2 DEF Once
      <4>3. jobs' = Submitted(PushJob(one, level, one)) /\ level \in Levels
        BY <2>3, <3>2
      <4>4. \A k \in one : k = i
        OBVIOUS
      <4> HIDE DEF one, level
      <4>5. \A k \in Items : InJob(k)' <=> k \in one \/ InJob(k)
        BY <4>1, <4>3, SubmittedFacts
      <4>6. Keyed => Keyed'
        BY <4>1, <4>3, SubmittedFacts
      <4>7. Keyed /\ SentOnce /\ (\A k \in one : ~InJob(k)) =>
              \A j, k \in jobs' : j.items \cap k.items # {} => j = k
        BY <4>1, <4>3, SubmittedFacts
      <4> QED
        BY <4>2, <4>4, <4>5, <4>6, <4>7
    <3>3. CASE jobs' = jobs \cup {own}
      <4>1. own.items = {i} /\ own.status = "direct"
        BY DEF PushJob
      <4>2. \A l \in jobs : i \notin l.items
        BY <2>2 DEF InJob
      <4> HIDE DEF own
      <4>3. \A k \in Items : InJob(k)' => k = i \/ InJob(k)
        BY <3>3, <4>1 DEF InJob
      <4>4. Keyed'
        BY <3>3, <4>1 DEF Once, Keyed
      <4>5. \A j, k \in jobs' : j.items \cap k.items # {} => j = k
        BY <3>3, <4>1, <4>2 DEF Once, SentOnce
      <4> QED
        BY <4>3, <4>4, <4>5
    <3> QED
      BY <2>1, <3>1, <3>2, <3>3
  <2>5. \A k \in Items : Unsent(k)' => Unsent(k) /\ k # i
    BY <2>1, <2>2 DEF Unsent, Once
  <2>6. \A k \in Items : (Unsent(k)' => ~InJob(k)' /\ arrived'[k] = 0) /\ (InJob(k)' => arrived'[k] = 0)
    BY <2>1, <2>2, <2>4, <2>5 DEF Once
  <2>7. SentOnce'
    BY <2>1, <2>4 DEF Once, SentOnce
  <2> QED
    BY <2>1, <2>4, <2>6, <2>7 DEF Once
<1> QED
  BY <1>1, <1>2, <1>3, <1>4

\* What the flush takes is in no job; its job gets it once, or it is pending
\* again, or in no place any more.
LEMMA FlushOnce ==
  ASSUME NoticeTypes, Once, Take \/ SubmitDigest \/ RefuseDigest
  PROVE  Once'
<1>1. CASE Take
  <2>1. /\ UNCHANGED <<spawned, jobs, arrived>> /\ flush.pc = "take"
        /\ flush' = IF Pending = {} THEN NoFlush ELSE [flush EXCEPT !.pc = "submit", !.ids = Pending]
        /\ item' = [i \in Items |-> IF i \in Pending THEN "consumed" ELSE item[i]]
    BY <1>1 DEF Take, History
  <2>2. flush'.pc = "submit" => flush'.ids = Pending
    BY <2>1 DEF NoFlush, NoticeTypes
  <2>3. \A k \in Items : (Unsent(k)' => Unsent(k)) /\ (InJob(k)' <=> InJob(k))
    BY <2>1, <2>2 DEF Unsent, InJob, Pending
  <2>4. SentOnce' /\ Keyed'
    BY <2>1 DEF Once, SentOnce, Keyed
  <2>5. \A k \in spawned' : item'[k] = "stored"
    BY <2>1 DEF Once, NoticeTypes, Pending
  <2>6. flush'.pc = "submit" => \A k \in flush'.ids : item'[k] = "consumed"
    BY <2>1, <2>2 DEF Pending
  <2>7. \A k \in Items : (Unsent(k)' => ~InJob(k)' /\ arrived'[k] = 0) /\ (InJob(k)' => arrived'[k] = 0)
    BY <2>1, <2>3 DEF Once
  <2> QED
    BY <2>4, <2>5, <2>6, <2>7 DEF Once
<1>2. CASE SubmitDigest
  <2>1. /\ flush.pc = "submit" /\ flush' = NoFlush /\ UNCHANGED <<item, spawned, arrived>>
        /\ jobs' = Submitted(PushJob({textOf[i] : i \in flush.ids}, flush.level, flush.ids))
    BY <1>2 DEF SubmitDigest, History
  <2>2. /\ flush.ids \in SUBSET Items /\ flush.level \in Levels
        /\ {textOf[i] : i \in flush.ids} \in SUBSET (Items \cup {textOf[i] : i \in Items})
    BY DEF NoticeTypes
  <2>3. \A i \in flush.ids : Unsent(i) /\ ~InJob(i) /\ arrived[i] = 0 /\ item[i] = "consumed"
    BY <2>1, <2>2 DEF Once, Unsent
  <2>4. /\ \A i \in Items : InJob(i)' <=> i \in flush.ids \/ InJob(i)
        /\ Keyed' /\ \A j, k \in jobs' : j.items \cap k.items # {} => j = k
    BY <2>1, <2>2, <2>3, SubmittedFacts DEF Once
  <2>5. \A k \in Items : Unsent(k)' => Unsent(k) /\ k \notin flush.ids
    BY <2>1, <2>3 DEF Unsent, NoFlush, Once
  <2>6. \A k \in Items : (Unsent(k)' => ~InJob(k)' /\ arrived'[k] = 0) /\ (InJob(k)' => arrived'[k] = 0)
    BY <2>1, <2>3, <2>4, <2>5 DEF Once
  <2>7. SentOnce'
    BY <2>1, <2>4 DEF Once, SentOnce
  <2> QED
    BY <2>1, <2>4, <2>6, <2>7 DEF Once, NoFlush
<1>3. CASE RefuseDigest
  <2>1. /\ flush.pc = "submit" /\ flush' = NoFlush /\ UNCHANGED <<spawned, jobs, arrived>>
        /\ item' = [i \in Items |-> IF i \in flush.ids /\ item[i] # "absent" THEN "pending" ELSE item[i]]
    BY <1>3 DEF RefuseDigest
  <2>2. \A i \in flush.ids : Unsent(i) /\ i \notin spawned
    BY <2>1 DEF Once, Unsent
  <2>3. \A k \in Items : (Unsent(k)' => Unsent(k)) /\ (InJob(k)' <=> InJob(k))
    BY <2>1, <2>2 DEF Unsent, InJob, NoFlush
  <2>4. SentOnce' /\ Keyed'
    BY <2>1 DEF Once, SentOnce, Keyed
  <2>5. \A k \in spawned' : item'[k] = "stored"
    BY <2>1, <2>2 DEF Once, NoticeTypes
  <2>6. \A k \in Items : (Unsent(k)' => ~InJob(k)' /\ arrived'[k] = 0) /\ (InJob(k)' => arrived'[k] = 0)
    BY <2>1, <2>3 DEF Once
  <2> QED
    BY <2>1, <2>4, <2>5, <2>6 DEF Once, NoFlush
<1> QED
  BY <1>1, <1>2, <1>3

\* A job leaves when it is sent, and no other has its items.
LEMMA PushOnce ==
  ASSUME NoticeTypes, Once, NEW j \in jobs, StartPush(j) \/ SkipPush(j) \/ SendPush(j)
  PROVE  Once'
<1>1. UNCHANGED <<item, spawned, flush>> /\ j \in Pushes
  BY DEF StartPush, SkipPush, SendPush, NoticeTypes
<1>2. CASE StartPush(j)
  <2> DEFINE run == [j EXCEPT !.status = "running"]
  <2>1. jobs' = (jobs \ {j}) \cup {run} /\ arrived' = arrived /\ j.status = "queued"
    BY <1>2 DEF StartPush, History
  <2>2. run.items = j.items /\ run.key = j.key /\ run.level = j.level /\ run.status = "running"
    BY <1>1 DEF Pushes
  <2> HIDE DEF run
  <2>3. \A k \in Items : (Unsent(k)' <=> Unsent(k)) /\ (InJob(k)' => InJob(k))
    BY <1>1, <2>1, <2>2 DEF Unsent, InJob
  <2>4. Keyed'
    <3>1. \A k, l \in jobs : (k.status # "direct" /\ l.status # "direct" /\ k.key = l.key /\ k.level = l.level) => k = l
      BY DEF Once, Keyed
    <3>2. ASSUME NEW k \in jobs', NEW l \in jobs', k.status # "direct", l.status # "direct", k.key = l.key, k.level = l.level
          PROVE  k = l
      BY <2>1, <2>2, <3>1, <3>2
    <3> QED
      BY <3>2 DEF Keyed
  <2>5. SentOnce'
    <3>1. \A k, l \in jobs : k.items \cap l.items # {} => k = l
      BY DEF Once, SentOnce
    <3>2. ASSUME NEW k \in jobs', NEW l \in jobs', k.items \cap l.items # {} PROVE k = l
      BY <2>1, <2>2, <3>1, <3>2
    <3> QED
      BY <2>1, <3>2 DEF Once, SentOnce
  <2> QED
    BY <1>1, <2>1, <2>3, <2>4, <2>5 DEF Once
<1>3. CASE SkipPush(j) \/ SendPush(j)
  <2>1. jobs' = jobs \ {j}
    BY <1>3 DEF SkipPush, SendPush
  <2>2. /\ \A k \in Items : arrived'[k] = arrived[k] \/ (k \in j.items /\ arrived'[k] = arrived[k] + 1)
        /\ \A k \in Items : arrived[k] \in Nat
    <3>0. arrived \in [Items -> 0 .. 2] /\ \A k \in Items : arrived[k] \in Nat
      BY DEF NoticeTypes
    <3>1. CASE SkipPush(j)
      <4>1. arrived' = arrived
        BY <3>1 DEF SkipPush
      <4> QED
        BY <3>0, <4>1
    <3>2. CASE SendPush(j)
      <4>1. PICK sent \in BOOLEAN :
              arrived' = [i \in Items |-> IF sent /\ i \in j.items /\ arrived[i] < 2 THEN arrived[i] + 1 ELSE arrived[i]]
        <5>1. PICK attempts \in [channels_for_event(j.level) -> send_with_retry] :
                LET sent == \E c \in channels_for_event(j.level) : Delivered(c, attempts) IN
                arrived' = [i \in Items |-> IF sent /\ i \in j.items /\ arrived[i] < 2 THEN arrived[i] + 1 ELSE arrived[i]]
          BY <3>2 DEF SendPush
        <5>2. (\E c \in channels_for_event(j.level) : Delivered(c, attempts)) \in BOOLEAN
          BY Zenon
        <5> QED
          BY <5>1, <5>2
      <4> QED
        BY <3>0, <4>1
    <3> QED
      BY <1>3, <3>1, <3>2
  <2>3. \A k \in Items : InJob(k)' => InJob(k) /\ k \notin j.items
    BY <2>1 DEF InJob, Once, SentOnce
  <2>4. \A k \in Items : k \in j.items => InJob(k)
    BY DEF InJob
  <2>5. \A k \in Items : (Unsent(k)' => Unsent(k)) /\ (Unsent(k) => k \notin j.items)
    BY <1>1, <2>4 DEF Unsent, Once
  <2>6. \A k \in Items : (Unsent(k)' => ~InJob(k)' /\ arrived'[k] = 0) /\ (InJob(k)' => arrived'[k] = 0)
    BY <2>2, <2>3, <2>5 DEF Once
  <2>7. Keyed' /\ SentOnce'
    <3>1. \A k \in Items : arrived'[k] <= 1
      BY <2>2, <2>4 DEF Once, SentOnce
    <3> QED
      BY <2>1, <3>1 DEF Once, Keyed, SentOnce
  <2> QED
    BY <1>1, <2>6, <2>7 DEF Once
<1> QED
  BY <1>2, <1>3

LEMMA OnceStep == NoticeTypes /\ Once /\ [NotificationsNext]_nvars => Once'
<1> SUFFICES ASSUME NoticeTypes, Once, [NotificationsNext]_nvars PROVE Once'
  OBVIOUS
<1>1. CASE UNCHANGED nvars \/ ClockQuiet \/ SwitchDigest \/ RestoreFails \/ TakeFails \/ Fire \/ Postpone \/ Proceed
  <2>1. UNCHANGED <<item, spawned, jobs, arrived>>
    BY <1>1 DEF nvars, ClockQuiet, SwitchDigest, RestoreFails, TakeFails, Fire, Postpone, Proceed, History
  <2>2. flush' = flush \/ flush'.pc # "submit"
    <3>1. CASE UNCHANGED nvars \/ ClockQuiet \/ SwitchDigest
      BY <3>1 DEF nvars, ClockQuiet, SwitchDigest
    <3>2. CASE RestoreFails \/ TakeFails \/ Postpone
      BY <3>2 DEF RestoreFails, TakeFails, Postpone, NoFlush
    <3>3. CASE Fire
      BY <3>3 DEF Fire, NoFlush
    <3>4. CASE Proceed
      BY <3>4 DEF Proceed, NoticeTypes
    <3> QED
      BY <1>1, <3>1, <3>2, <3>3, <3>4
  <2> QED
    BY <2>1, <2>2, OnceKeeps
<1>2. CASE Restart
  <2>1. flush' = NoFlush /\ jobs' = {} /\ spawned' = {} /\ UNCHANGED <<item, arrived>>
    BY <1>2 DEF Restart
  <2>2. \A k \in Items : (Unsent(k)' => Unsent(k)) /\ ~InJob(k)'
    BY <2>1 DEF Unsent, InJob, NoFlush
  <2>3. \A k \in Items : (Unsent(k)' => ~InJob(k)' /\ arrived'[k] = 0) /\ (InJob(k)' => arrived'[k] = 0)
    BY <2>1, <2>2 DEF Once
  <2> QED
    BY <2>1, <2>3 DEF Once, SentOnce, Keyed, NoFlush
<1> QED
  BY <1>1, <1>2, DispatchOnce, FlushOnce, PushOnce DEF NotificationsNext, FlushStep

\* A notification waits, is on its way, was sent, once, or was lost for a reason
\* with a name; and what the digest holds has a timer or a flush to send it, but
\* for what a failed take, a refused submission or a start with the digest off
\* left to the next notification.
THEOREM DigestHolds == NotificationsSpec => []DigestKept
<1>1. NotificationsInit => DigestInv /\ Once
  <2> SUFFICES ASSUME NotificationsInit PROVE DigestInv /\ Once
    OBVIOUS
  <2>1. NoticeTypes
    BY DEF NotificationsInit, NoticeTypes, NoFlush, Levels
  <2>2. Pending = {} /\ spawned = {} /\ jobs = {} /\ flush.pc = "idle" /\ \A i \in Items : arrived[i] = 0
    BY DEF NotificationsInit, Pending, NoFlush
  <2>3. \A i \in Items : ~InJob(i)
    BY <2>2 DEF InJob
  <2>4. Once
    BY <2>2, <2>3 DEF Once, SentOnce, Keyed
  <2> QED
    BY <2>1, <2>2, <2>4 DEF NotificationsInit, DigestInv, NoticeAccounted, PendingHasTimer
<1>2. DigestInv /\ Once => DigestKept
  BY DEF DigestInv, Once, DigestKept
<1>3. DigestInv /\ Once /\ [NotificationsNext]_nvars => (DigestInv /\ Once)'
  BY DigestStep, OnceStep DEF DigestInv
<1> QED
  BY <1>1, <1>2, <1>3, PTL DEF NotificationsSpec

----------------------------------------------------------------------------
(* Confirmations over Telegram.                                            *)

Kinds == {"search", "transfer", "prompt", "confirm", "cancel"}
Shown == Hits \cup {NoHit}
Asked == [user : Users, kind : Kinds, nonce : Nat]
Confirmations == [nonce : Nat, user : Users, action : Actions_, shown : Shown]
Kept == [nonce : Nat, user : Users \cup {"nobody"}, action : Actions_, shown : Shown]
Handlings == [id : Nat, try : Nat, pc : {"update", "message", "callback", "session", "press", "claim", "execute"},
              conf : Kept]

BotTypes ==
  /\ updates \in Seq(Asked) /\ unacked \subseteq Ids /\ rare \in Nat /\ nonces \in Nat
  /\ tasks \subseteq Handlings /\ \A t \in tasks : t.id \in Ids
  /\ confs \subseteq Confirmations
  /\ stored \in [Users -> Shown] /\ session \in [Users -> Shown]
  /\ executed \in Seq([conf : Confirmations, by : Users, hit : Shown])

\* A task that has taken a confirmation, and will execute it.
Decides(t) == t.pc \in {"claim", "execute"}

\* A confirmation that was executed or canceled.
Spent(n) == n \in canceled \/ \E i \in DOMAIN executed : executed[i].conf.nonce = n

\* What a confirmation without a session was shown is nothing.
ShownWhole(c) == c.action = "write" => c.shown = NoHit

\* A confirmation waits in the map, is with one task, or is spent; those to
\* come have greater nonces.
OnePlace ==
  /\ \A c, d \in confs : c.nonce = d.nonce => c = d
  /\ \A t, u \in tasks : Decides(t) /\ Decides(u) /\ t.conf.nonce = u.conf.nonce => t = u
  /\ \A c \in confs, t \in tasks : Decides(t) => c.nonce # t.conf.nonce
  /\ \A c \in confs : ~Spent(c.nonce) /\ c.nonce <= nonces /\ ShownWhole(c)
  /\ \A t \in tasks : Decides(t) =>
       /\ t.conf \in Confirmations /\ t.conf.user = updates[t.id].user /\ ShownWhole(t.conf)
       /\ ~Spent(t.conf.nonce) /\ t.conf.nonce <= nonces
  /\ \A n \in Nat : Spent(n) => n <= nonces

BotInv == BotTypes /\ OnePlace /\ ConfirmationsHold

\* A step that takes up, prepares and decides nothing.
LEMMA BotKeeps ==
  ASSUME BotInv, BotTypes', UNCHANGED <<nonces, executed, canceled>>, confs' \subseteq confs,
         \A i \in Ids : updates'[i] = updates[i],
         \A t \in tasks' : Decides(t) => t \in tasks
  PROVE  BotInv'
<1>1. \A n \in Nat : Spent(n)' <=> Spent(n)
  BY DEF Spent
<1>2. confs \subseteq Confirmations /\ \A t \in tasks : t.id \in Ids
  BY DEF BotInv, BotTypes
<1>3. \A c \in Confirmations : c.nonce \in Nat
  BY DEF Confirmations
<1>4. \A c \in confs' : ~Spent(c.nonce)' /\ c.nonce <= nonces' /\ ShownWhole(c)
  BY <1>1, <1>2, <1>3 DEF BotInv, OnePlace
<1>5. \A t \in tasks' : Decides(t) =>
        /\ t.conf \in Confirmations /\ t.conf.user = updates'[t.id].user /\ ShownWhole(t.conf)
        /\ ~Spent(t.conf.nonce)' /\ t.conf.nonce <= nonces'
  BY <1>1, <1>2, <1>3 DEF BotInv, OnePlace
<1>6. OnePlace'
  BY <1>1, <1>4, <1>5 DEF BotInv, OnePlace, ShownWhole, Decides
<1>7. ConfirmationsHold'
  BY DEF BotInv, ConfirmationsHold, ConfirmedOnce, ExecutedAsShown
<1> QED
  BY <1>6, <1>7 DEF BotInv

\* A set of natural numbers that is not empty has a least element.
LEMMA LeastElement ==
  ASSUME NEW S \in SUBSET Nat, S # {}
  PROVE  \E m \in S : \A n \in S : m <= n
<1>1. \A x, y \in Nat : x < y => <<x, y>> \in OpToRel(<, Nat)
  BY DEF OpToRel
<1>2. \E R : IsWellFoundedOn(R, Nat) /\ \A x, y \in Nat : x < y => <<x, y>> \in R
  BY <1>1, NatLessThanWellFounded, Zenon
<1>3. PICK R : IsWellFoundedOn(R, Nat) /\ \A x, y \in Nat : x < y => <<x, y>> \in R
  BY <1>2
<1>4. PICK x \in S : \A y \in S : ~(<<y, x>> \in R)
  <2>1. IsWellFoundedOn(R, Nat) /\ S \subseteq Nat /\ S # {}
    BY <1>3
  <2> QED
    BY <2>1, WFMin
<1>5. ASSUME NEW y \in S PROVE x <= y
  <2>1. x \in Nat /\ y \in Nat /\ ~(y < x)
    BY <1>3, <1>4
  <2> QED
    BY <2>1
<1> QED
  BY <1>5

\* An update that is handed over gets a task.
LEMMA SpawnKeeps ==
  ASSUME BotInv, NEW i \in Ids, Spawn(i), rare' \in Nat, unacked' \subseteq Ids,
         UNCHANGED <<updates, claims, stored, session, confs, nonces, expired, BotHistory>>
  PROVE  BotInv'
<1> DEFINE new == [id |-> i, try |-> IF i \in delivered THEN rare' ELSE 0, pc |-> "update", conf |-> NoConf]
<1>1. tasks' = tasks \cup {new} /\ UNCHANGED <<executed, canceled>>
  BY DEF Spawn, BotHistory
<1>2. NoConf \in Kept
  BY DEF NoConf, Kept, Actions_, Shown
<1>3. i \in Nat /\ Ids' = Ids
  BY DEF Ids, BotInv, BotTypes
<1>4. new \in Handlings /\ new.pc = "update" /\ new.id = i
  BY <1>2, <1>3 DEF Handlings
<1> HIDE DEF new
<1>5. BotTypes'
  BY <1>1, <1>3, <1>4 DEF BotInv, BotTypes
<1>6. \A t \in tasks' : Decides(t) => t \in tasks
  BY <1>1, <1>4 DEF Decides
<1> QED
  BY <1>1, <1>5, <1>6, BotKeeps

LEMMA DeliverKeeps ==
  ASSUME BotInv, Poll \/ \E i \in unacked, a \in BOOLEAN : Webhook(i, a) PROVE BotInv'
<1>t. unacked \subseteq Ids /\ rare \in Nat /\ Ids \subseteq Nat
  BY DEF BotInv, BotTypes, Ids
<1>1. CASE Poll
  <2> DEFINE fresh == {i \in unacked : i >= offset}
             next == CHOOSE i \in fresh : \A k \in fresh : i <= k
  <2>1. fresh # {} /\ UNCHANGED rare /\ Spawn(next) /\ unacked' \in {unacked, fresh}
        /\ UNCHANGED <<updates, claims, stored, session, confs, nonces, expired, BotHistory>>
    BY <1>1 DEF Poll
  <2>2. next \in fresh
    <3>1. fresh \in SUBSET Nat
      BY <1>t
    <3> HIDE DEF fresh
    <3> QED
      BY <2>1, <3>1, LeastElement
  <2>3. next \in Ids /\ unacked' \subseteq Ids /\ rare' \in Nat
    BY <1>t, <2>1, <2>2
  <2> HIDE DEF next, fresh
  <2> QED
    BY <2>1, <2>3, SpawnKeeps
<1>2. ASSUME NEW i \in unacked, NEW a \in BOOLEAN, Webhook(i, a) PROVE BotInv'
  <2>1. /\ Spawn(i) /\ unacked' \subseteq Ids
        /\ UNCHANGED <<updates, claims, stored, session, confs, nonces, expired, BotHistory>>
    BY <1>t, <1>2 DEF Webhook
  <2>2. rare' \in Nat
    BY <1>t, <1>2 DEF Webhook, Rare
  <2> QED
    BY <1>t, <2>1, <2>2, SpawnKeeps
<1> QED
  BY <1>1, <1>2

LEMMA SendKeeps ==
  ASSUME BotInv, NEW u, NEW kind, NEW n \in 0 .. nonces, Send(u, kind, n) PROVE BotInv'
<1>1. /\ <<u, kind>> \in Requests /\ updates' = Append(updates, [user |-> u, kind |-> kind, nonce |-> n])
      /\ unacked' = unacked \cup {Len(updates) + 1}
      /\ UNCHANGED <<tasks, stored, session, confs, nonces, executed, canceled, rare>>
  BY DEF Send, BotHistory
<1>2. u \in Users /\ kind \in Kinds /\ n \in Nat
  BY <1>1, TelegramAssumption DEF Kinds, BotInv, BotTypes
<1>3. [user |-> u, kind |-> kind, nonce |-> n] \in Asked
  BY <1>2 DEF Asked
<1>4. updates \in Seq(Asked)
  BY DEF BotInv, BotTypes
<1>5. /\ updates' \in Seq(Asked) /\ Len(updates') = Len(updates) + 1
      /\ \A i \in Ids : updates'[i] = updates[i]
  BY <1>1, <1>3, <1>4 DEF Ids
<1>6. Ids \subseteq Ids' /\ Len(updates) + 1 \in Ids'
  BY <1>4, <1>5 DEF Ids
<1>7. BotTypes'
  BY <1>1, <1>5, <1>6 DEF BotInv, BotTypes
<1> QED
  BY <1>1, <1>5, <1>7, BotKeeps

\* What a task is, and what it becomes.
LEMMA TaskTypes ==
  ASSUME BotTypes, NEW t \in tasks
  PROVE  /\ t \in Handlings /\ t.id \in Ids /\ t.id \in Nat /\ updates[t.id] \in Asked
         /\ updates[t.id].user \in Users /\ updates[t.id].nonce \in Nat
<1>1. t \in Handlings /\ t.id \in Ids /\ t.id \in Nat
  BY DEF BotTypes, Ids
<1>2. updates[t.id] \in Asked
  BY <1>1 DEF BotTypes, Ids
<1> QED
  BY <1>1, <1>2 DEF Asked

LEMMA GotoTypes ==
  ASSUME BotTypes, NEW t \in tasks,
         NEW pc \in {"update", "message", "callback", "session", "press", "claim", "execute"}, Goto(t, pc)
  PROVE  /\ tasks' \subseteq Handlings /\ \A u \in tasks' : u.id \in Ids
         /\ \A u \in tasks' : u \in tasks \/ (u.pc = pc /\ u.id = t.id /\ u.conf = t.conf)
<1> DEFINE next == [t EXCEPT !.pc = pc]
<1>1. t \in Handlings /\ t.id \in Ids
  BY DEF BotTypes
<1>2. next \in Handlings /\ next.pc = pc /\ next.id = t.id /\ next.conf = t.conf
  BY <1>1 DEF Handlings
<1>3. tasks' = (tasks \ {t}) \cup {next}
  BY DEF Goto
<1>4. tasks \subseteq Handlings /\ \A u \in tasks : u.id \in Ids
  BY DEF BotTypes
<1> HIDE DEF next
<1> QED
  BY <1>1, <1>2, <1>3, <1>4

\* A task that ends, or goes on without a confirmation.
LEMMA ClaimKeeps ==
  ASSUME BotInv, NEW t \in tasks, ClaimUpdate(t) \/ ClaimCallback(t) \/ Rejected(t) PROVE BotInv'
<1>1. /\ UNCHANGED <<updates, unacked, rare, stored, session, confs, nonces, executed, canceled>>
      /\ tasks' = tasks \ {t} \/ \E pc \in {"message", "callback", "press"} : Goto(t, pc)
  BY DEF ClaimUpdate, ClaimCallback, Rejected, BotHistory, Transport, Done
<1>2. BotTypes
  BY DEF BotInv
<1>3. /\ tasks' \subseteq Handlings /\ \A u \in tasks' : u.id \in Ids
      /\ \A u \in tasks' : Decides(u) => u \in tasks
  <2>1. CASE tasks' = tasks \ {t}
    BY <1>2, <2>1 DEF BotTypes
  <2>2. ASSUME NEW pc \in {"message", "callback", "press"}, Goto(t, pc)
        PROVE  /\ tasks' \subseteq Handlings /\ \A u \in tasks' : u.id \in Ids
               /\ \A u \in tasks' : Decides(u) => u \in tasks
    BY <1>2, <2>2, GotoTypes DEF Decides
  <2> QED
    BY <1>1, <2>1, <2>2
<1>4. BotTypes'
  BY <1>1, <1>2, <1>3 DEF BotTypes, Ids
<1>5. \A i \in Ids : updates'[i] = updates[i]
  BY <1>1
<1> QED
  BY <1>1, <1>3, <1>4, <1>5, BotKeeps

LEMMA SearchKeeps ==
  ASSUME BotInv, NEW t \in tasks, NEW h \in Hits, Search(t, h) PROVE BotInv'
<1> DEFINE empty == [NoConf EXCEPT !.shown = h]
           next == [t EXCEPT !.pc = "session", !.conf = empty]
<1>1. /\ UNCHANGED <<updates, unacked, rare, stored, confs, nonces, executed, canceled>>
      /\ tasks' = (tasks \ {t}) \cup {next} /\ session' = [session EXCEPT ![updates[t.id].user] = h]
  BY DEF Search, BotHistory, Transport
<1>2. BotTypes /\ t \in Handlings /\ t.id \in Ids /\ updates[t.id].user \in Users
  BY TaskTypes DEF BotInv
<1>3. empty \in Kept
  BY DEF NoConf, Kept, Actions_, Shown
<1> HIDE DEF empty
<1>4. next \in Handlings /\ next.pc = "session" /\ next.id = t.id
  BY <1>2, <1>3 DEF Handlings
<1> HIDE DEF next
<1>5. session' \in [Users -> Shown]
  BY <1>1, <1>2 DEF BotTypes, Shown
<1>6. BotTypes'
  BY <1>1, <1>2, <1>4, <1>5 DEF BotTypes, Ids
<1>7. \A u \in tasks' : Decides(u) => u \in tasks
  BY <1>1, <1>4 DEF Decides
<1> QED
  BY <1>1, <1>6, <1>7, BotKeeps

LEMMA PutSessionKeeps ==
  ASSUME BotInv, NEW t \in tasks, NEW ok \in BOOLEAN, PutSession(t, ok) PROVE BotInv'
<1>1. /\ UNCHANGED <<updates, unacked, session, confs, nonces, executed, canceled>>
      /\ tasks' = tasks \ {t} /\ t.pc = "session" /\ rare' \in {rare, rare + 1}
      /\ stored' \in {stored, [stored EXCEPT ![updates[t.id].user] = t.conf.shown]}
  BY DEF PutSession, BotHistory, Transport, Done, Rare
<1>2. BotTypes /\ t \in Handlings /\ updates[t.id].user \in Users
  BY TaskTypes DEF BotInv
<1>3. t.conf.shown \in Shown
  BY <1>2 DEF Handlings, Kept
<1>4. stored' \in [Users -> Shown]
  BY <1>1, <1>2, <1>3 DEF BotTypes
<1>5. BotTypes'
  BY <1>1, <1>2, <1>4 DEF BotTypes, Ids
<1> QED
  BY <1>1, <1>5, BotKeeps

\* What happens around the tasks.
LEMMA AroundKeeps ==
  ASSUME BotInv,
         \/ SwitchMode \/ TelegramCrash
         \/ \E n \in 1 .. nonces : ExpireConfirmation(n)
         \/ \E u \in Users : ExpireSession(u)
  PROVE  BotInv'
<1>1. /\ UNCHANGED <<updates, unacked, nonces, executed, canceled>>
      /\ tasks' \subseteq tasks /\ confs' \subseteq confs /\ rare' = rare + 1
      /\ stored' = stored \/ \E u \in Users : stored' = [stored EXCEPT ![u] = NoHit]
      /\ \/ session' = session \/ session' = [u \in Users |-> NoHit]
         \/ \E u \in Users : session' = [session EXCEPT ![u] = NoHit]
  BY DEF SwitchMode, TelegramCrash, ExpireConfirmation, ExpireSession, Rare, BotHistory, Transport
<1>2. stored' \in [Users -> Shown] /\ session' \in [Users -> Shown]
  BY <1>1 DEF BotInv, BotTypes, Shown
<1>3. BotTypes'
  BY <1>1, <1>2 DEF BotInv, BotTypes, Ids
<1> QED
  BY <1>1, <1>3, BotKeeps

\* A confirmation with a nonce of its own is filed.
LEMMA PrepareKeeps ==
  ASSUME BotInv, NEW t \in tasks, PrepareMessage(t) \/ PressPrompt(t) PROVE BotInv'
<1>1. PICK action \in Actions_ : Prepare(t, action)
  BY DEF PrepareMessage, PressPrompt, Actions_
<1> DEFINE u == updates[t.id].user
           shown == IF action = "transfer" THEN load_session(u) ELSE NoHit
           new == [nonce |-> nonces + 1, user |-> u, action |-> action, shown |-> shown]
           left == {c \in confs : c.nonce \notin expired}
<1>2. /\ UNCHANGED <<updates, unacked, stored, rare, executed, canceled>> /\ tasks' = tasks \ {t}
      /\ \/ UNCHANGED <<confs, nonces, session>>
         \/ /\ nonces' = nonces + 1 /\ confs' = left \cup {new}
            /\ session' \in {session, [session EXCEPT ![u] = shown]}
  BY <1>1 DEF Prepare, prepare_confirmation, Nonce, Done, BotHistory, Transport
<1>3. BotTypes /\ u \in Users
  BY TaskTypes DEF BotInv
<1>4. shown \in Shown /\ (action = "write" => shown = NoHit)
  BY <1>3 DEF BotTypes, load_session, Shown
<1>5. new \in Confirmations /\ new.nonce = nonces + 1 /\ ShownWhole(new)
  BY <1>3, <1>4 DEF Confirmations, BotTypes, ShownWhole
<1>6. left \subseteq confs /\ session' \in [Users -> Shown]
  BY <1>2, <1>3, <1>4 DEF BotTypes
<1> HIDE DEF new, shown, left, u
<1>7. BotTypes'
  BY <1>2, <1>3, <1>5, <1>6 DEF BotTypes, Ids
<1>8. CASE UNCHANGED <<confs, nonces, session>>
  BY <1>2, <1>7, <1>8, BotKeeps
<1>9. CASE nonces' = nonces + 1 /\ confs' = left \cup {new}
  <2>1. OnePlace
    BY DEF BotInv
  <2>2. \A n \in Nat : Spent(n)' <=> Spent(n)
    BY <1>2 DEF Spent
  <2>3. nonces \in Nat /\ nonces + 1 \in Nat /\ ~Spent(nonces + 1)
    BY <1>3, <2>1 DEF BotTypes, OnePlace
  <2>4. confs \subseteq Confirmations /\ \A c \in Confirmations : c.nonce \in Nat
    BY <1>3 DEF BotTypes, Confirmations
  <2>5. \A c \in confs : c.nonce <= nonces /\ c.nonce # nonces + 1
    BY <2>1, <2>3, <2>4 DEF OnePlace
  <2>6. \A c, d \in confs' : c.nonce = d.nonce => c = d
    BY <1>5, <1>6, <1>9, <2>1, <2>5 DEF OnePlace
  <2>7. \A c \in confs' : ~Spent(c.nonce)' /\ c.nonce <= nonces' /\ ShownWhole(c)'
    BY <1>5, <1>6, <1>9, <2>1, <2>2, <2>3, <2>4, <2>5 DEF OnePlace, ShownWhole
  <2>8. ASSUME NEW v \in tasks', Decides(v)
        PROVE  /\ v \in tasks /\ v.conf \in Confirmations /\ v.conf.user = updates'[v.id].user
               /\ ShownWhole(v.conf) /\ ~Spent(v.conf.nonce)' /\ v.conf.nonce <= nonces
    BY <1>2, <2>1, <2>2, <2>4, <2>8 DEF OnePlace
  <2>9. \A v \in tasks' : Decides(v)' => v.conf.nonce <= nonces' /\ v.conf.nonce # nonces + 1
    BY <1>9, <2>3, <2>4, <2>8 DEF Decides
  <2>10. \A c \in confs', v \in tasks' : Decides(v)' => c.nonce # v.conf.nonce
    BY <1>5, <1>6, <1>9, <2>1, <2>8, <2>9 DEF OnePlace, Decides
  <2>11. \A n \in Nat : Spent(n)' => n <= nonces'
    BY <1>9, <2>1, <2>2, <2>3 DEF OnePlace
  <2>12. \A v, w \in tasks' : Decides(v)' /\ Decides(w)' /\ v.conf.nonce = w.conf.nonce => v = w
    BY <1>2, <2>1 DEF OnePlace, Decides
  <2>13. \A v \in tasks' : Decides(v)' =>
           /\ v.conf \in Confirmations /\ v.conf.user = updates'[v.id].user /\ ShownWhole(v.conf)'
           /\ ~Spent(v.conf.nonce)' /\ v.conf.nonce <= nonces'
    BY <2>8, <2>9 DEF Decides, ShownWhole
  <2>14. OnePlace'
    BY <2>6, <2>7, <2>10, <2>11, <2>12, <2>13 DEF OnePlace
  <2>15. ConfirmationsHold'
    BY <1>2 DEF BotInv, ConfirmationsHold, ConfirmedOnce, ExecutedAsShown
  <2> QED
    BY <1>7, <2>14, <2>15 DEF BotInv
<1> QED
  BY <1>2, <1>8, <1>9

\* A button is pressed: refused, canceled, or taken out of the map to be executed.
LEMMA PressKeeps ==
  ASSUME BotInv, NEW t \in tasks, Press(t) PROVE BotInv'
<1> DEFINE p == updates[t.id]
           mine == {c \in confs : c.nonce = p.nonce /\ c.user = p.user}
<1>1. /\ UNCHANGED <<updates, unacked, stored, session, rare, nonces, executed>> /\ t.pc = "press"
      /\ \/ Done(t) /\ confs' = confs \ mine /\ UNCHANGED canceled
         \/ \E c \in mine :
              /\ confs' = confs \ {c}
              /\ \/ Done(t) /\ canceled' = canceled \cup {c.nonce}
                 \/ /\ tasks' = (tasks \ {t}) \cup {[t EXCEPT !.pc = "claim", !.conf = c]}
                    /\ UNCHANGED canceled
  BY DEF Press, claim_confirmation, Transport
<1>2. BotTypes /\ OnePlace /\ ConfirmationsHold /\ t \in Handlings /\ t.id \in Ids /\ t.id \in Nat /\ p.user \in Users
  BY TaskTypes DEF BotInv
<1>3. \A c \in mine : c \in confs /\ c.user = p.user
  OBVIOUS
<1>c. confs \subseteq Confirmations /\ \A c \in Confirmations : c.nonce \in Nat
  BY <1>2 DEF BotTypes, Confirmations
<1> HIDE DEF mine
<1>4. CASE Done(t) /\ confs' = confs \ mine /\ UNCHANGED canceled
  <2>1. BotTypes'
    BY <1>1, <1>2, <1>4 DEF BotTypes, Ids, Done
  <2> QED
    BY <1>1, <1>4, <2>1, BotKeeps DEF Done
<1>5. ASSUME NEW c \in mine, confs' = confs \ {c}, Done(t), canceled' = canceled \cup {c.nonce} PROVE BotInv'
  <2>1. BotTypes'
    BY <1>1, <1>2, <1>5 DEF BotTypes, Ids, Done
  <2>2. c \in confs /\ c.nonce \in Nat /\ ~Spent(c.nonce) /\ c.nonce <= nonces
    BY <1>2, <1>3, <1>5, <1>c DEF OnePlace
  <2>3. \A n : Spent(n)' <=> Spent(n) \/ n = c.nonce
    BY <1>1, <1>5 DEF Spent
  <2>4. \A d \in confs' : d \in confs /\ d.nonce # c.nonce
    BY <1>2, <1>5, <2>2 DEF OnePlace
  <2>5. \A v \in tasks' : v \in tasks /\ (Decides(v) => v.conf.nonce # c.nonce)
    BY <1>2, <1>5, <2>2 DEF OnePlace, Done
  <2>6. \A d \in confs' : ~Spent(d.nonce)' /\ d.nonce <= nonces' /\ ShownWhole(d)
    BY <1>1, <1>2, <2>3, <2>4 DEF OnePlace
  <2>7. \A v \in tasks' : Decides(v) =>
          /\ v.conf \in Confirmations /\ v.conf.user = updates'[v.id].user /\ ShownWhole(v.conf)
          /\ ~Spent(v.conf.nonce)' /\ v.conf.nonce <= nonces'
    BY <1>1, <1>2, <2>3, <2>5 DEF OnePlace
  <2>8. \A n \in Nat : Spent(n)' => n <= nonces'
    BY <1>1, <1>2, <2>2, <2>3 DEF OnePlace
  <2>9. /\ \A d, e \in confs' : d.nonce = e.nonce => d = e
        /\ \A v, w \in tasks' : Decides(v) /\ Decides(w) /\ v.conf.nonce = w.conf.nonce => v = w
        /\ \A d \in confs', v \in tasks' : Decides(v) => d.nonce # v.conf.nonce
    BY <1>2, <2>4, <2>5 DEF OnePlace
  <2>10. OnePlace'
    BY <2>6, <2>7, <2>8, <2>9 DEF OnePlace, Decides, ShownWhole
  <2>11. \A i \in DOMAIN executed : executed[i].conf.nonce # c.nonce
    BY <2>2 DEF Spent
  <2>12. ConfirmationsHold'
    BY <1>1, <1>2, <1>5, <2>11 DEF ConfirmationsHold, ConfirmedOnce, ExecutedAsShown
  <2> QED
    BY <2>1, <2>10, <2>12 DEF BotInv
<1>6. ASSUME NEW c \in mine, confs' = confs \ {c}, UNCHANGED canceled,
             tasks' = (tasks \ {t}) \cup {[t EXCEPT !.pc = "claim", !.conf = c]}
      PROVE  BotInv'
  <2> DEFINE next == [t EXCEPT !.pc = "claim", !.conf = c]
  <2>1. c \in confs /\ c \in Confirmations /\ c.user = p.user /\ c.nonce \in Nat
    BY <1>3, <1>6, <1>c
  <2>2. c \in Kept
    BY <2>1 DEF Confirmations, Kept
  <2>3. next \in Handlings /\ next.pc = "claim" /\ next.id = t.id /\ next.conf = c
    BY <1>2, <2>2 DEF Handlings
  <2>4. tasks' = (tasks \ {t}) \cup {next}
    BY <1>6
  <2> HIDE DEF next
  <2>5. BotTypes'
    BY <1>1, <1>2, <1>6, <2>3, <2>4 DEF BotTypes, Ids
  <2>6. \A n : Spent(n)' <=> Spent(n)
    BY <1>1, <1>6 DEF Spent
  <2>7. ~Spent(c.nonce) /\ c.nonce <= nonces /\ ShownWhole(c)
    BY <1>2, <2>1 DEF OnePlace
  <2>8. \A d \in confs' : d \in confs /\ d.nonce # c.nonce
    BY <1>2, <1>6, <2>1 DEF OnePlace
  <2>9. \A v \in tasks : Decides(v) => v.conf.nonce # c.nonce
    BY <1>2, <2>1 DEF OnePlace
  <2>10. \A d \in confs' : ~Spent(d.nonce)' /\ d.nonce <= nonces' /\ ShownWhole(d)
    BY <1>1, <1>2, <2>6, <2>8 DEF OnePlace
  <2>11. \A v \in tasks' : Decides(v) =>
           /\ v.conf \in Confirmations /\ v.conf.user = updates'[v.id].user /\ ShownWhole(v.conf)
           /\ ~Spent(v.conf.nonce)' /\ v.conf.nonce <= nonces'
    BY <1>1, <1>2, <2>1, <2>3, <2>4, <2>6, <2>7 DEF OnePlace
  <2>12. \A n \in Nat : Spent(n)' => n <= nonces'
    BY <1>1, <1>2, <2>6 DEF OnePlace
  <2>13. \A v, w \in tasks' : Decides(v) /\ Decides(w) /\ v.conf.nonce = w.conf.nonce => v = w
    BY <1>2, <2>3, <2>4, <2>9 DEF OnePlace
  <2>14. \A d \in confs', v \in tasks' : Decides(v) => d.nonce # v.conf.nonce
    BY <1>2, <2>3, <2>4, <2>8 DEF OnePlace
  <2>15. \A d, e \in confs' : d.nonce = e.nonce => d = e
    BY <1>2, <2>8 DEF OnePlace
  <2>16. OnePlace'
    BY <2>10, <2>11, <2>12, <2>13, <2>14, <2>15 DEF OnePlace, Decides, ShownWhole
  <2>17. ConfirmationsHold'
    BY <1>1, <1>2, <1>6 DEF ConfirmationsHold, ConfirmedOnce, ExecutedAsShown
  <2> QED
    BY <2>5, <2>16, <2>17 DEF BotInv
<1> QED
  BY <1>1, <1>4, <1>5, <1>6

\* The key of the confirmation is stored.
LEMMA ClaimActionKeeps ==
  ASSUME BotInv, NEW t \in tasks, ClaimAction(t) PROVE BotInv'
<1>1. /\ UNCHANGED <<updates, unacked, rare, stored, session, confs, nonces, executed, canceled>>
      /\ t.pc = "claim" /\ (Done(t) \/ Goto(t, "execute"))
  BY DEF ClaimAction, BotHistory, Transport
<1>2. BotTypes /\ OnePlace /\ ConfirmationsHold
  BY DEF BotInv
<1>3. CASE Done(t)
  <2>1. BotTypes'
    BY <1>1, <1>2, <1>3 DEF BotTypes, Ids, Done
  <2> QED
    BY <1>1, <1>3, <2>1, BotKeeps DEF Done
<1>4. CASE t.pc = "claim" /\ Goto(t, "execute")
  <2> DEFINE next == [t EXCEPT !.pc = "execute"]
  <2>1. t \in Handlings
    BY <1>2 DEF BotTypes
  <2>2. next \in Handlings /\ next.pc = "execute" /\ next.id = t.id /\ next.conf = t.conf
    BY <2>1 DEF Handlings
  <2>3. tasks' = (tasks \ {t}) \cup {next} /\ Decides(t)
    BY <1>4 DEF Goto, Decides
  <2> HIDE DEF next
  <2>4. BotTypes'
    BY <1>1, <1>2, <2>2, <2>3 DEF BotTypes, Ids
  <2>5. \A n : Spent(n)' <=> Spent(n)
    BY <1>1 DEF Spent
  <2>6. \A v, w \in tasks' : Decides(v) /\ Decides(w) /\ v.conf.nonce = w.conf.nonce => v = w
    BY <1>2, <2>2, <2>3 DEF OnePlace
  <2>7. \A d \in confs, v \in tasks' : Decides(v) => d.nonce # v.conf.nonce
    BY <1>2, <2>2, <2>3 DEF OnePlace
  <2>8. \A v \in tasks' : Decides(v) =>
          /\ v.conf \in Confirmations /\ v.conf.user = updates[v.id].user /\ ShownWhole(v.conf)
          /\ ~Spent(v.conf.nonce) /\ v.conf.nonce <= nonces
    BY <1>2, <2>2, <2>3 DEF OnePlace
  <2>9. OnePlace'
    BY <1>1, <1>2, <2>5, <2>6, <2>7, <2>8 DEF OnePlace, Decides, ShownWhole
  <2>10. ConfirmationsHold'
    BY <1>1, <1>2 DEF ConfirmationsHold, ConfirmedOnce, ExecutedAsShown
  <2> QED
    BY <2>4, <2>9, <2>10 DEF BotInv
<1> QED
  BY <1>1, <1>3, <1>4

\* What is confirmed is executed, if it is still what was shown.
LEMMA ExecuteKeeps ==
  ASSUME BotInv, NEW t \in tasks, Execute(t) PROVE BotInv'
<1> DEFINE h == load_session(t.conf.user)
           about == IF t.conf.action = "transfer" THEN h ELSE NoHit
           done == [conf |-> t.conf, by |-> updates[t.id].user, hit |-> about]
<1>1. /\ UNCHANGED <<updates, unacked, rare, stored, session, confs, nonces, canceled>>
      /\ t.pc = "execute" /\ tasks' = tasks \ {t}
      /\ \/ executed' = executed
         \/ /\ t.conf.action = "transfer" => execute_transfer(t.conf, h)
            /\ executed' = Append(executed, done)
  BY DEF Execute, Transport, Done
<1>2. BotTypes /\ OnePlace /\ ConfirmationsHold /\ updates[t.id].user \in Users
  BY TaskTypes DEF BotInv
<1>3. /\ t.conf \in Confirmations /\ t.conf.user = updates[t.id].user /\ ShownWhole(t.conf)
      /\ ~Spent(t.conf.nonce) /\ t.conf.nonce <= nonces /\ t.conf.nonce \in Nat /\ t.conf.user \in Users
      /\ t.conf.action \in Actions_ /\ t.conf.shown \in Shown
  BY <1>1, <1>2 DEF OnePlace, Decides, Confirmations
<1>4. CASE executed' = executed
  <2>1. BotTypes'
    BY <1>1, <1>2, <1>4 DEF BotTypes, Ids
  <2> QED
    BY <1>1, <1>4, <2>1, BotKeeps
<1>5. CASE /\ t.conf.action = "transfer" => execute_transfer(t.conf, h)
           /\ executed' = Append(executed, done)
  <2>1. about = t.conf.shown
    BY <1>3, <1>5 DEF execute_transfer, verify_search_hit_fingerprint, ShownWhole, Actions_
  <2>2. /\ done \in [conf : Confirmations, by : Users, hit : Shown]
        /\ done.conf = t.conf /\ done.by = t.conf.user /\ done.hit = t.conf.shown
    BY <1>2, <1>3, <2>1
  <2>3. executed \in Seq([conf : Confirmations, by : Users, hit : Shown]) /\ executed' = Append(executed, done)
    BY <1>2, <1>5 DEF BotTypes
  <2> HIDE DEF done, about, h
  <2>4. /\ executed' \in Seq([conf : Confirmations, by : Users, hit : Shown])
        /\ Len(executed) \in Nat /\ DOMAIN executed = 1 .. Len(executed)
        /\ DOMAIN executed' = 1 .. Len(executed) + 1
        /\ \A i \in DOMAIN executed : executed'[i] = executed[i]
        /\ executed'[Len(executed) + 1] = done
    BY <2>2, <2>3
  <2>5. \A i \in DOMAIN executed' :
          \/ i \in DOMAIN executed /\ executed'[i] = executed[i]
          \/ i = Len(executed) + 1 /\ executed'[i] = done
    <3> DEFINE n == Len(executed)
    <3>1. n \in Nat /\ \A i \in 1 .. n + 1 : i \in 1 .. n \/ i = n + 1
      BY <2>4
    <3> HIDE DEF n
    <3>2. /\ DOMAIN executed = 1 .. n /\ DOMAIN executed' = 1 .. n + 1 /\ executed'[n + 1] = done
          /\ \A i \in DOMAIN executed : executed'[i] = executed[i]
      BY <2>4 DEF n
    <3>3. Len(executed) + 1 = n + 1
      BY DEF n
    <3> QED
      BY <3>1, <3>2, <3>3
  <2>6. BotTypes'
    BY <1>1, <1>2, <2>4 DEF BotTypes, Ids
  <2>7. \A n : Spent(n)' <=> Spent(n) \/ n = t.conf.nonce
    <3>1. \A n : (\E i \in DOMAIN executed' : executed'[i].conf.nonce = n)
                   <=> (\E i \in DOMAIN executed : executed[i].conf.nonce = n) \/ n = t.conf.nonce
      BY <2>2, <2>4, <2>5
    <3> QED
      BY <1>1, <3>1 DEF Spent
  <2>8. \A v \in tasks' : v \in tasks /\ (Decides(v) => v.conf.nonce # t.conf.nonce)
    BY <1>1, <1>2 DEF OnePlace, Decides
  <2>9. \A d \in confs' : d \in confs /\ d.nonce # t.conf.nonce
    BY <1>1, <1>2 DEF OnePlace, Decides
  <2>10. \A d \in confs' : ~Spent(d.nonce)' /\ d.nonce <= nonces' /\ ShownWhole(d)
    BY <1>1, <1>2, <2>7, <2>9 DEF OnePlace
  <2>11. \A v \in tasks' : Decides(v) =>
           /\ v.conf \in Confirmations /\ v.conf.user = updates'[v.id].user /\ ShownWhole(v.conf)
           /\ ~Spent(v.conf.nonce)' /\ v.conf.nonce <= nonces'
    BY <1>1, <1>2, <2>7, <2>8 DEF OnePlace
  <2>12. \A n \in Nat : Spent(n)' => n <= nonces'
    BY <1>1, <1>2, <1>3, <2>7 DEF OnePlace
  <2>13. /\ \A d, e \in confs' : d.nonce = e.nonce => d = e
         /\ \A v, w \in tasks' : Decides(v) /\ Decides(w) /\ v.conf.nonce = w.conf.nonce => v = w
         /\ \A d \in confs', v \in tasks' : Decides(v) => d.nonce # v.conf.nonce
    BY <1>2, <2>8, <2>9 DEF OnePlace
  <2>14. OnePlace'
    BY <2>10, <2>11, <2>12, <2>13 DEF OnePlace, Decides, ShownWhole
  <2>15. \A i \in DOMAIN executed : executed[i].conf.nonce # t.conf.nonce
    BY <1>3 DEF Spent
  <2>16. ConfirmedOnce'
    <3>1. \A i, k \in DOMAIN executed' : executed'[i].conf.nonce = executed'[k].conf.nonce => i = k
      BY <1>2, <2>2, <2>5, <2>15 DEF ConfirmationsHold, ConfirmedOnce
    <3>2. t.conf.nonce \notin canceled
      BY <1>3 DEF Spent
    <3>3. \A i \in DOMAIN executed' : executed'[i].conf.nonce \notin canceled
      BY <1>2, <2>2, <2>5, <3>2 DEF ConfirmationsHold, ConfirmedOnce
    <3> QED
      BY <1>1, <3>1, <3>3 DEF ConfirmedOnce
  <2>17. ExecutedAsShown'
    BY <1>2, <2>2, <2>5 DEF ConfirmationsHold, ExecutedAsShown
  <2> QED
    BY <2>6, <2>14, <2>16, <2>17 DEF BotInv, ConfirmationsHold
<1> QED
  BY <1>1, <1>4, <1>5

LEMMA BotInitial == TelegramInit => BotInv
<1> SUFFICES ASSUME TelegramInit PROVE BotInv
  OBVIOUS
<1>1. /\ updates = <<>> /\ unacked = {} /\ tasks = {} /\ confs = {} /\ nonces = 0
      /\ executed = <<>> /\ canceled = {} /\ rare = 0
  BY DEF TelegramInit
<1>2. stored \in [Users -> Shown] /\ session \in [Users -> Shown]
  BY DEF TelegramInit, Shown
<1>3. updates \in Seq(Asked) /\ executed \in Seq([conf : Confirmations, by : Users, hit : Shown])
  BY <1>1
<1>4. BotTypes
  BY <1>1, <1>2, <1>3 DEF BotTypes
<1>5. OnePlace /\ ConfirmationsHold
  BY <1>1 DEF OnePlace, ConfirmationsHold, ConfirmedOnce, ExecutedAsShown, Spent
<1> QED
  BY <1>4, <1>5 DEF BotInv

\* Pressed twice, by two tasks at once, delivered again or after a restart: a
\* confirmation is executed at most once, not after its cancellation, and on
\* what its prompt showed (claim_confirmation, claim_action and
\* execute_transfer in services/telegram_bot_actions.rs and services/telegram_bot.rs).
THEOREM ConfirmationsStand == TelegramSpec => []ConfirmationsHold
<1>1. BotInv /\ [TelegramNext]_bvars => BotInv'
  <2> SUFFICES ASSUME BotInv, [TelegramNext]_bvars PROVE BotInv'
    OBVIOUS
  <2>1. ASSUME NEW r \in Requests, NEW n \in 0 .. nonces, Send(r[1], r[2], n) PROVE BotInv'
    BY <2>1, SendKeeps
  <2>2. CASE Poll \/ \E i \in unacked, a \in BOOLEAN : Webhook(i, a)
    BY <2>2, DeliverKeeps
  <2>3. CASE \/ SwitchMode \/ TelegramCrash
             \/ \E n \in 1 .. nonces : ExpireConfirmation(n)
             \/ \E u \in Users : ExpireSession(u)
    BY <2>3, AroundKeeps
  <2>4. ASSUME NEW t \in tasks, HandleUpdate(t) PROVE BotInv'
    <3>1. CASE ClaimUpdate(t) \/ ClaimCallback(t) \/ Rejected(t)
      BY <3>1, ClaimKeeps
    <3>2. CASE PrepareMessage(t) \/ PressPrompt(t)
      BY <3>2, PrepareKeeps
    <3>3. CASE Press(t)
      BY <3>3, PressKeeps
    <3>4. CASE ClaimAction(t)
      BY <3>4, ClaimActionKeeps
    <3>5. CASE Execute(t)
      BY <3>5, ExecuteKeeps
    <3>6. ASSUME NEW h \in Hits, Search(t, h) PROVE BotInv'
      BY <3>6, SearchKeeps
    <3>7. ASSUME NEW ok \in BOOLEAN, PutSession(t, ok) PROVE BotInv'
      BY <3>7, PutSessionKeeps
    <3> QED
      BY <2>4, <3>1, <3>2, <3>3, <3>4, <3>5, <3>6, <3>7 DEF HandleUpdate
  <2>5. CASE UNCHANGED bvars
    <3>1. BotTypes'
      BY <2>5 DEF BotInv, BotTypes, bvars, Ids
    <3> QED
      BY <2>5, <3>1, BotKeeps DEF bvars
  <2> QED
    BY <2>1, <2>2, <2>3, <2>4, <2>5 DEF TelegramNext
<1>2. BotInv => ConfirmationsHold
  BY DEF BotInv
<1> QED
  BY BotInitial, <1>1, <1>2, PTL DEF TelegramSpec

----------------------------------------------------------------------------
(* The settings and those who change them.                                 *)

Stored == [key : Nat, prev : Nat, until : Nat, subs : SUBSET Nat]
Page == [open : BOOLEAN, key : Nat]

FormTypes ==
  /\ conf \in Stored /\ disk \in Stored
  /\ form \in [Tabs -> Page] /\ call \in [Tabs -> Page]
  /\ sender \in [kind : {"none", "webhook", "browser"}, left : Int, sign : SUBSET Nat, after : BOOLEAN,
                 subs : SUBSET Nat, gone : SUBSET Nat]
  /\ held \in Nat /\ made \in Nat /\ now \in Nat
  /\ browser \in [Browsers -> Nat]
  /\ promise \in [old : Nat, new : Nat, until : Nat, holds : BOOLEAN]

\* What is made next is in none of the places a secret or an endpoint is in.
Fresh ==
  /\ conf.key <= made /\ disk.key <= made
  /\ \A t \in Tabs : /\ form[t].key <= made \/ form[t].key = Mask
                     /\ call[t].key <= made \/ call[t].key = Mask
  /\ conf.subs \subseteq 1 .. made /\ disk.subs \subseteq 1 .. made
  /\ sender.subs \subseteq 1 .. made /\ sender.gone \subseteq 1 .. made
  /\ \A b \in Browsers : browser[b] <= made

\* A rotation in force is the one in the settings, and its overlap does not
\* end before the receiver has the new secret.
InForce ==
  promise.holds => /\ conf.key = promise.new /\ conf.prev = promise.old /\ conf.until = promise.until
                   /\ now > promise.until => held = promise.new
\* A file that has the same secret has the same rotation.
SameRotation == disk.key = conf.key => disk.prev = conf.prev /\ disk.until = conf.until
\* A delivery begun since then is signed for whichever secret the receiver has.
SignedForBoth ==
  promise.holds /\ sender.kind = "webhook" /\ sender.after =>
    promise.new \in sender.sign /\ (promise.old \in sender.sign \/ held # promise.old)

\* The file has the browsers as well, and a delivery drops none that is alive.
FileSubscribed == \A b \in Browsers : browser[b] \in disk.subs \cup released \cup {0}
GoneIsGone == \A b \in Browsers : browser[b] \notin sender.gone

FormInv ==
  /\ FormTypes /\ Fresh /\ InForce /\ SameRotation /\ SignedForBoth
  /\ FileSubscribed /\ GoneIsGone /\ SettingsHold

\* What a form holds is a secret already made, or the mask.
LEMMA Sent ==
  ASSUME FormInv, NEW t \in Tabs
  PROVE  /\ call[t].key \in Nat /\ form[t].key \in Nat /\ call[t] \in Page /\ form[t] \in Page
         /\ call[t].key <= made \/ call[t].key = Mask
         /\ form[t].key <= made \/ form[t].key = Mask
<1>1. call[t] \in Page /\ form[t] \in Page
  BY DEF FormInv, FormTypes
<1> QED
  BY <1>1 DEF FormInv, Fresh, Page

LEMMA MaskTypes == Mask \in Nat /\ Mask # 0 /\ Closed \in Page /\ OverlapTime \in Nat
  BY SettingsAssumption DEF Mask, Closed, Page

LEMMA ConfTypes ==
  ASSUME FormInv
  PROVE  /\ conf.key \in Nat /\ conf.prev \in Nat /\ conf.until \in Nat /\ conf.subs \subseteq Nat
         /\ disk.key \in Nat /\ disk.prev \in Nat /\ disk.until \in Nat /\ disk.subs \subseteq Nat
         /\ made \in Nat /\ made + 1 \in Nat /\ made <= made + 1 /\ now \in Nat /\ held \in Nat
         /\ promise.old \in Nat /\ promise.new \in Nat /\ promise.until \in Nat /\ promise.holds \in BOOLEAN
  BY DEF FormInv, FormTypes, Stored

\* A page is opened, shows a secret or posts what it shows.
LEMMA PageKeeps ==
  ASSUME FormInv, NEW t \in Tabs, OpenForm(t) \/ Reveal(t) \/ Post(t) PROVE FormInv'
<1>1. /\ UNCHANGED <<conf, disk, sender, held, browser, promise, meant, released, unverified, now>>
      /\ made' \in {made, made + 1}
      /\ \/ /\ UNCHANGED call
            /\ \E o \in Page : o.key \in {0, Mask, conf.key} /\ form' = [form EXCEPT ![t] = o]
         \/ /\ UNCHANGED form
            /\ \E o \in Page : o.key \in {form[t].key, made'} /\ call' = [call EXCEPT ![t] = o]
  <2>1. /\ form[t] \in Page /\ Mask \in Nat /\ conf.key \in Nat /\ made \in Nat /\ made + 1 \in Nat
        /\ \A k \in Nat : [form[t] EXCEPT !.key = k] \in Page /\ [form[t] EXCEPT !.key = k].key = k
    BY Sent, MaskTypes, ConfTypes DEF Page
  <2>2. CASE OpenForm(t)
    <3>1. Public(conf) \in Page /\ Public(conf).key \in {0, Mask}
      BY <2>1 DEF Public, Page
    <3> QED
      BY <2>2, <3>1 DEF OpenForm, outside
  <2>3. CASE Reveal(t)
    <3>1. \E k \in {Mask, conf.key} : form' = [form EXCEPT ![t] = [form[t] EXCEPT !.key = k]]
      BY <2>3 DEF Reveal
    <3> QED
      BY <2>1, <2>3, <3>1 DEF Reveal, outside
  <2>4. CASE Post(t)
    <3>1. CASE call' = [call EXCEPT ![t] = form[t]] /\ UNCHANGED made
      BY <2>1, <2>4, <3>1 DEF Post, outside
    <3>2. CASE made' = made + 1 /\ call' = [call EXCEPT ![t] = [form[t] EXCEPT !.key = made']]
      BY <2>1, <2>4, <3>2 DEF Post, outside
    <3> QED
      BY <2>4, <3>1, <3>2 DEF Post
  <2> QED
    BY <2>2, <2>3, <2>4
<1>2. form' \in [Tabs -> Page] /\ call' \in [Tabs -> Page] /\ made' \in Nat /\ made <= made'
  <2>1. form \in [Tabs -> Page] /\ call \in [Tabs -> Page]
    BY DEF FormInv, FormTypes
  <2> QED
    BY <1>1, <2>1, ConfTypes
<1>3. \A s \in Tabs : /\ form'[s].key <= made' \/ form'[s].key = Mask
                      /\ call'[s].key <= made' \/ call'[s].key = Mask
  <2> SUFFICES ASSUME NEW s \in Tabs
               PROVE  /\ form'[s].key <= made' \/ form'[s].key = Mask
                      /\ call'[s].key <= made' \/ call'[s].key = Mask
    OBVIOUS
  <2>1. form \in [Tabs -> Page] /\ call \in [Tabs -> Page]
    BY DEF FormInv, FormTypes
  <2>3. /\ form'[s].key = form[s].key \/ form'[s].key \in {0, Mask, conf.key}
        /\ call'[s].key = call[s].key \/ call'[s].key \in {form[t].key, made'}
    BY <1>1, <2>1
  <2>4. conf.key <= made
    BY DEF FormInv, Fresh
  <2> QED
    BY <1>2, <2>3, <2>4, ConfTypes, MaskTypes, Sent
<1>4. FormTypes'
  BY <1>1, <1>2 DEF FormInv, FormTypes
<1>5. Fresh'
  <2>1. \A n \in Nat : n <= made => n <= made'
    BY <1>2, ConfTypes
  <2>2. 1 .. made \subseteq 1 .. made'
    BY <1>2, ConfTypes
  <2>3. \A b \in Browsers : browser[b] \in Nat
    BY DEF FormInv, FormTypes
  <2> QED
    BY <1>1, <1>3, <2>1, <2>2, <2>3, ConfTypes DEF FormInv, Fresh, Mask
<1>6. InForce' /\ SameRotation' /\ SignedForBoth' /\ FileSubscribed' /\ GoneIsGone' /\ SettingsHold'
  BY <1>1 DEF FormInv, InForce, SameRotation, SignedForBoth, FileSubscribed, GoneIsGone,
              SettingsHold, SecretMeant, Verifiable, StaySubscribed
<1> QED
  BY <1>4, <1>5, <1>6 DEF FormInv

\* A form is saved: a mask leaves the secret, anything else was entered.
LEMMA SaveKeeps ==
  ASSUME FormInv, NEW t \in Tabs, SaveForm(t) PROVE FormInv'
<1> DEFINE new == Changed(call[t])
<1>1. /\ UNCHANGED <<sender, held, browser, now, released, unverified, made>>
      /\ call' = [call EXCEPT ![t] = Closed]
      /\ \/ /\ conf' = new /\ disk' = new /\ form' = [form EXCEPT ![t] = Public(new)]
            /\ meant' = (IF call[t].key \in {0, Mask} THEN meant ELSE call[t].key)
            /\ promise' = [promise EXCEPT !.holds = @ /\ conf.key = meant']
         \/ UNCHANGED <<conf, form, promise, meant>> /\ disk' \in {disk, new}
  BY DEF SaveForm, Update, UpdateFails, outside
<1>2. /\ new \in Stored /\ new.prev = conf.prev /\ new.until = conf.until /\ new.subs = conf.subs
      /\ new.key = (IF call[t].key \in {0, Mask} THEN conf.key ELSE call[t].key)
      /\ new.key \in Nat /\ new.key <= made
  <2>1. conf \in Stored /\ conf.key <= made /\ conf.key \in Nat
    BY ConfTypes DEF FormInv, FormTypes, Fresh
  <2> QED
    BY <2>1, Sent DEF Changed, non_mask_secret, Stored
<1>3. Public(new) \in Page /\ Public(new).key \in {0, Mask} /\ Closed.key = 0
  BY MaskTypes DEF Public, Page, Closed
<1> HIDE DEF new
<1>4. /\ promise' \in [old : Nat, new : Nat, until : Nat, holds : BOOLEAN]
      /\ promise'.old = promise.old /\ promise'.new = promise.new /\ promise'.until = promise.until
      /\ promise'.holds => promise.holds /\ (conf' = conf \/ conf.key = meant')
  <2>1. promise \in [old : Nat, new : Nat, until : Nat, holds : BOOLEAN]
    BY DEF FormInv, FormTypes
  <2>2. CASE promise' = [promise EXCEPT !.holds = promise.holds /\ conf.key = meant']
    BY <2>1, <2>2
  <2> QED
    BY <1>1, <2>1, <2>2
<1>5. FormTypes'
  <2>1. form' \in [Tabs -> Page] /\ call' \in [Tabs -> Page]
    BY <1>1, <1>3, MaskTypes DEF FormInv, FormTypes
  <2>2. conf' \in Stored /\ disk' \in Stored
    BY <1>1, <1>2 DEF FormInv, FormTypes
  <2> QED
    BY <1>1, <1>4, <2>1, <2>2 DEF FormInv, FormTypes
<1>6. Fresh'
  <2>1. \A s \in Tabs : /\ form'[s].key <= made \/ form'[s].key = Mask
                        /\ call'[s].key <= made \/ call'[s].key = Mask
    <3>1. \A s \in Tabs : /\ form'[s].key = form[s].key \/ form'[s].key \in {0, Mask}
                          /\ call'[s].key = call[s].key \/ call'[s].key = 0
      BY <1>1, <1>3 DEF FormInv, FormTypes
    <3> QED
      BY <3>1, Sent, ConfTypes
  <2>2. conf'.key <= made /\ disk'.key <= made /\ conf'.subs \subseteq 1 .. made /\ disk'.subs \subseteq 1 .. made
    BY <1>1, <1>2 DEF FormInv, Fresh
  <2> QED
    BY <1>1, <2>1, <2>2 DEF FormInv, Fresh, Mask
<1>7. conf'.key = meant' /\ (promise'.holds => conf'.key = conf.key) /\ conf'.prev = conf.prev
      /\ conf'.until = conf.until /\ conf'.subs = conf.subs /\ disk'.subs \in {disk.subs, conf.subs}
  BY <1>1, <1>2, <1>4 DEF FormInv, SettingsHold, SecretMeant
<1>8. InForce'
  BY <1>1, <1>4, <1>7 DEF FormInv, InForce
<1>9. SameRotation'
  BY <1>1, <1>2 DEF FormInv, SameRotation
<1>10. SignedForBoth'
  BY <1>1, <1>4 DEF FormInv, SignedForBoth
<1>11. FileSubscribed' /\ GoneIsGone' /\ StaySubscribed'
  BY <1>1, <1>7 DEF FormInv, FileSubscribed, GoneIsGone, SettingsHold, StaySubscribed
<1>12. SecretMeant' /\ Verifiable'
  BY <1>1, <1>7 DEF FormInv, SettingsHold, SecretMeant, Verifiable
<1> QED
  BY <1>5, <1>6, <1>8, <1>9, <1>10, <1>11, <1>12 DEF FormInv, SettingsHold

\* A rotation: the new secret is of no form, and the receiver has the old one.
LEMMA RotateKeeps ==
  ASSUME FormInv, RotateSecret PROVE FormInv'
<1> DEFINE new == [conf EXCEPT !.prev = conf.key, !.until = now + OverlapTime, !.key = made']
<1>1. /\ UNCHANGED <<form, call, held, browser, now, released, unverified>> /\ made' = made + 1
      /\ \/ /\ conf' = new /\ disk' = new /\ meant' = made'
            /\ promise' = [old |-> conf.key, new |-> made', until |-> new.until, holds |-> TRUE]
            /\ sender' = [sender EXCEPT !.after = FALSE]
         \/ UNCHANGED <<conf, promise, meant, sender>> /\ disk' \in {disk, new}
  BY DEF RotateSecret, Update, UpdateFails, outside
<1>2. /\ new \in Stored /\ new.prev = conf.key /\ new.until = now + OverlapTime /\ new.subs = conf.subs
      /\ new.key = made' /\ made' \in Nat /\ new.until \in Nat
  <2>1. conf \in Stored /\ now \in Nat /\ conf.key \in Nat /\ made' \in Nat
    BY <1>1, ConfTypes DEF FormInv, FormTypes
  <2>2. now + OverlapTime \in Nat
    BY <2>1, MaskTypes
  <2> QED
    BY <2>1, <2>2 DEF Stored
<1> HIDE DEF new
<1>3. /\ sender' \in [kind : {"none", "webhook", "browser"}, left : Int, sign : SUBSET Nat, after : BOOLEAN,
                      subs : SUBSET Nat, gone : SUBSET Nat]
      /\ sender'.subs = sender.subs /\ sender'.gone = sender.gone
      /\ sender' = sender \/ ~sender'.after
  <2>1. sender \in [kind : {"none", "webhook", "browser"}, left : Int, sign : SUBSET Nat, after : BOOLEAN,
                    subs : SUBSET Nat, gone : SUBSET Nat]
    BY DEF FormInv, FormTypes
  <2> QED
    BY <1>1, <2>1
<1>4. FormTypes'
  <2>1. conf' \in Stored /\ disk' \in Stored
    BY <1>1, <1>2 DEF FormInv, FormTypes
  <2>2. promise' \in [old : Nat, new : Nat, until : Nat, holds : BOOLEAN]
    <3>1. [old |-> conf.key, new |-> made', until |-> new.until, holds |-> TRUE]
             \in [old : Nat, new : Nat, until : Nat, holds : BOOLEAN]
      BY <1>2, ConfTypes
    <3>2. promise \in [old : Nat, new : Nat, until : Nat, holds : BOOLEAN]
      BY DEF FormInv, FormTypes
    <3> QED
      BY <1>1, <3>1, <3>2
  <2> QED
    BY <1>1, <1>2, <1>3, <2>1, <2>2 DEF FormInv, FormTypes
<1>5. Fresh'
  <2>1. \A n \in Nat : n <= made => n <= made'
    BY <1>1, ConfTypes
  <2>2. 1 .. made \subseteq 1 .. made'
    BY <1>1, ConfTypes
  <2>3. \A b \in Browsers : browser[b] \in Nat
    BY DEF FormInv, FormTypes
  <2>4. \A t \in Tabs : /\ form[t].key <= made' \/ form[t].key = Mask
                        /\ call[t].key <= made' \/ call[t].key = Mask
    BY <2>1, Sent
  <2>5. conf'.key <= made' /\ disk'.key <= made' /\ conf'.subs \subseteq 1 .. made' /\ disk'.subs \subseteq 1 .. made'
    BY <1>1, <1>2, <2>1, <2>2, ConfTypes DEF FormInv, Fresh
  <2>6. sender'.subs \subseteq 1 .. made' /\ sender'.gone \subseteq 1 .. made'
    BY <1>3, <2>2 DEF FormInv, Fresh
  <2>7. \A b \in Browsers : browser[b] <= made'
    BY <2>1, <2>3 DEF FormInv, Fresh
  <2> QED
    BY <1>1, <2>4, <2>5, <2>6, <2>7 DEF Fresh, Mask
<1>6. InForce'
  <2>1. ~(now > now + OverlapTime)
    BY ConfTypes, MaskTypes
  <2>2. CASE conf' = new /\ promise' = [old |-> conf.key, new |-> made', until |-> new.until, holds |-> TRUE]
    BY <1>1, <1>2, <2>1, <2>2 DEF InForce
  <2>3. CASE UNCHANGED <<conf, promise>>
    BY <1>1, <2>3 DEF FormInv, InForce
  <2> QED
    BY <1>1, <2>2, <2>3
<1>7. SameRotation'
  <2>1. conf.key <= made /\ conf.key \in Nat /\ made \in Nat
    BY ConfTypes DEF FormInv, Fresh
  <2>2. new.key # conf.key
    BY <1>1, <1>2, <2>1
  <2> QED
    BY <1>1, <2>2 DEF FormInv, SameRotation
<1>8. SignedForBoth'
  BY <1>1, <1>3 DEF FormInv, SignedForBoth
<1>9. FileSubscribed' /\ GoneIsGone' /\ StaySubscribed'
  BY <1>1, <1>2, <1>3 DEF FormInv, FileSubscribed, GoneIsGone, SettingsHold, StaySubscribed
<1>10. SecretMeant' /\ Verifiable'
  BY <1>1, <1>2 DEF FormInv, SettingsHold, SecretMeant, Verifiable
<1> QED
  BY <1>4, <1>5, <1>6, <1>7, <1>8, <1>9, <1>10 DEF FormInv, SettingsHold

\* The receiver takes the new secret up, and time passes.
LEMMA ReceiverKeeps ==
  ASSUME FormInv, TakeUp \/ Tick PROVE FormInv'
<1>1. /\ UNCHANGED <<conf, disk, form, call, sender, browser, promise, meant, released, unverified, made>>
      /\ \/ held' = conf.key /\ now' = now
         \/ /\ held' = held /\ now' = now + 1
            /\ promise.holds /\ now' > promise.until => held = promise.new
  BY DEF TakeUp, Tick
<1>2. FormTypes'
  BY <1>1, ConfTypes DEF FormInv, FormTypes
<1>3. Fresh'
  BY <1>1 DEF FormInv, Fresh, Mask
<1>4. InForce'
  BY <1>1 DEF FormInv, InForce
<1>5. SignedForBoth'
  BY <1>1 DEF FormInv, SignedForBoth, InForce
<1>6. SameRotation' /\ FileSubscribed' /\ GoneIsGone' /\ SettingsHold'
  BY <1>1 DEF FormInv, SameRotation, FileSubscribed, GoneIsGone, SettingsHold, SecretMeant, Verifiable, StaySubscribed
<1> QED
  BY <1>2, <1>3, <1>4, <1>5, <1>6 DEF FormInv

\* A browser comes, over the limit at the cost of the oldest, or leaves.
LEMMA BrowserKeeps ==
  ASSUME FormInv, NEW b \in Browsers, subscribe_browser_push(b) \/ unsubscribe_browser_push(b) \/ DropEndpoint(b)
  PROVE  FormInv'
<1>b. browser \in [Browsers -> Nat]
  BY DEF FormInv, FormTypes
<1>1. PICK subs \in SUBSET (1 .. made') :
        /\ UNCHANGED <<form, call, sender, held, promise, meant, unverified, now>>
        /\ made' \in {made, made + 1} /\ released \subseteq released'
        /\ \E e \in {0, made'} : /\ browser' = browser \/ browser' = [browser EXCEPT ![b] = e]
                                 /\ e # 0 => made' = made + 1 /\ e \in subs \cup released'
        /\ \A a \in Browsers : browser[a] \in subs \cup released' \cup {0}
        /\ \/ conf' = [conf EXCEPT !.subs = subs] /\ disk' = [conf EXCEPT !.subs = subs]
           \/ UNCHANGED <<conf, browser>> /\ disk' \in {disk, [conf EXCEPT !.subs = subs]}
           \/ UNCHANGED <<conf, disk>> /\ browser' = [browser EXCEPT ![b] = 0]
  <2>1. /\ conf.subs \subseteq 1 .. made /\ \A a \in Browsers : browser[a] \in conf.subs \cup released \cup {0}
    BY DEF FormInv, Fresh, SettingsHold, StaySubscribed
  <2>2. CASE subscribe_browser_push(b)
    <3> DEFINE list == conf.subs \cup {made'}
               subs == Newest(list)
    <3>1. /\ UNCHANGED <<form, call, sender, held, promise, meant, unverified, now>> /\ made' = made + 1
          /\ released' = released \cup (list \ subs)
          /\ \/ /\ conf' = [conf EXCEPT !.subs = subs] /\ disk' = [conf EXCEPT !.subs = subs]
                /\ browser' = [browser EXCEPT ![b] = made']
             \/ UNCHANGED <<conf, browser>> /\ disk' \in {disk, [conf EXCEPT !.subs = subs]}
      BY <2>2 DEF subscribe_browser_push, Update, UpdateFails
    <3>2. subs \subseteq list /\ list \subseteq 1 .. made' /\ made' \in list /\ conf.subs \subseteq list
      BY <2>1, <3>1, ConfTypes DEF Newest
    <3> HIDE DEF subs, list
    <3>3. \A e \in list : e \in subs \cup released'
      BY <3>1
    <3> QED
      BY <2>1, <3>1, <3>2, <3>3
  <2>3. CASE unsubscribe_browser_push(b)
    <3> DEFINE subs == conf.subs \ {browser[b]}
    <3>1. /\ UNCHANGED <<form, call, sender, held, promise, meant, unverified, now, made>>
          /\ released' = released \cup {browser[b]}
          /\ \/ /\ conf' = [conf EXCEPT !.subs = subs] /\ disk' = [conf EXCEPT !.subs = subs]
                /\ browser' = [browser EXCEPT ![b] = 0]
             \/ UNCHANGED <<conf, browser>> /\ disk' \in {disk, [conf EXCEPT !.subs = subs]}
      BY <2>3 DEF unsubscribe_browser_push, Update, UpdateFails, Without
    <3>2. subs \subseteq 1 .. made
      BY <2>1
    <3>3. \A e \in conf.subs : e \in subs \cup released'
      BY <3>1
    <3> HIDE DEF subs
    <3> QED
      BY <2>1, <3>1, <3>2, <3>3
  <2>4. CASE DropEndpoint(b)
    <3>1. /\ UNCHANGED <<conf, disk, form, call, sender, held, promise, meant, released, unverified, now, made>>
          /\ browser' = [browser EXCEPT ![b] = 0]
      BY <2>4 DEF DropEndpoint
    <3> QED
      BY <2>1, <3>1
  <2> QED
    BY <2>2, <2>3, <2>4
<1>2. conf \in Stored
  BY DEF FormInv, FormTypes
<1> DEFINE new == [conf EXCEPT !.subs = subs]
<1>3. /\ new \in Stored /\ new.key = conf.key /\ new.prev = conf.prev /\ new.until = conf.until /\ new.subs = subs
  BY <1>2, SMT DEF Stored
<1>4. \/ conf' = new /\ disk' = new
      \/ UNCHANGED <<conf, browser>> /\ disk' \in {disk, new}
      \/ UNCHANGED <<conf, disk>> /\ browser' = [browser EXCEPT ![b] = 0]
  BY <1>1
<1> HIDE DEF new
<1>5. /\ conf' \in Stored /\ disk' \in Stored
      /\ conf'.key = conf.key /\ conf'.prev = conf.prev /\ conf'.until = conf.until
      /\ \/ disk'.key = disk.key /\ disk'.prev = disk.prev /\ disk'.until = disk.until
         \/ disk'.key = conf.key /\ disk'.prev = conf.prev /\ disk'.until = conf.until
      /\ disk'.subs \in {disk.subs, subs} /\ conf'.subs \in {conf.subs, subs}
  BY <1>3, <1>4 DEF FormInv, FormTypes
<1>7. \A a \in Browsers : /\ browser'[a] \in Nat
                          /\ \/ browser'[a] = browser[a] \/ browser'[a] = 0
                             \/ browser'[a] = made' /\ made' = made + 1 /\ made' \in subs \cup released'
  BY <1>1, <1>b, ConfTypes
<1>8. FormTypes'
  <2>1. browser' \in [Browsers -> Nat]
    BY <1>1, <1>b, ConfTypes
  <2> QED
    BY <1>1, <1>5, <2>1, ConfTypes DEF FormInv, FormTypes
<1>9. Fresh'
  <2>1. made' \in Nat /\ made \in Nat /\ made <= made'
    BY <1>1, ConfTypes
  <2>2. \A n \in Nat : n <= made => n <= made'
    BY <2>1
  <2>3. 1 .. made \subseteq 1 .. made'
    BY <2>1
  <2>4. conf'.key <= made' /\ disk'.key <= made'
    BY <1>5, <2>2, ConfTypes DEF FormInv, Fresh
  <2>5. conf'.subs \subseteq 1 .. made' /\ disk'.subs \subseteq 1 .. made'
    BY <1>1, <1>5, <2>3 DEF FormInv, Fresh
  <2>6. \A a \in Browsers : browser'[a] <= made'
    BY <1>b, <1>7, <2>1, <2>2 DEF FormInv, Fresh
  <2>7. \A t \in Tabs : /\ form[t].key <= made' \/ form[t].key = Mask
                        /\ call[t].key <= made' \/ call[t].key = Mask
    BY <2>2, Sent
  <2>8. sender.subs \subseteq 1 .. made' /\ sender.gone \subseteq 1 .. made'
    BY <2>3 DEF FormInv, Fresh
  <2> QED
    BY <1>1, <2>4, <2>5, <2>6, <2>7, <2>8 DEF Fresh, Mask
<1>10. InForce'
  BY <1>1, <1>5 DEF FormInv, InForce
<1>11. SameRotation'
  BY <1>5 DEF FormInv, SameRotation
<1>12. SignedForBoth' /\ SecretMeant' /\ Verifiable'
  BY <1>1, <1>5 DEF FormInv, SignedForBoth, SettingsHold, SecretMeant, Verifiable
<1>13. FileSubscribed'
  <2> SUFFICES ASSUME NEW a \in Browsers PROVE browser'[a] \in disk'.subs \cup released' \cup {0}
    BY DEF FileSubscribed
  <2>1. browser[a] \in disk.subs \cup released \cup {0} /\ browser[a] \in subs \cup released' \cup {0}
    BY <1>1 DEF FormInv, FileSubscribed
  <2>2. browser'[a] # browser[a] /\ browser'[a] # 0 => disk' = new
    BY <1>1, <1>4, <1>b
  <2> QED
    BY <1>1, <1>3, <1>5, <1>7, <2>1, <2>2
<1>14. StaySubscribed'
  <2> SUFFICES ASSUME NEW a \in Browsers PROVE browser'[a] \in conf'.subs \cup released' \cup {0}
    BY DEF StaySubscribed
  <2>1. browser[a] \in conf.subs \cup released \cup {0} /\ browser[a] \in subs \cup released' \cup {0}
    BY <1>1 DEF FormInv, SettingsHold, StaySubscribed
  <2>2. browser'[a] # browser[a] /\ browser'[a] # 0 => conf' = new
    BY <1>1, <1>4, <1>b
  <2> QED
    BY <1>1, <1>3, <1>5, <1>7, <2>1, <2>2
<1>15. GoneIsGone'
  <2> SUFFICES ASSUME NEW a \in Browsers, browser'[a] \in sender.gone PROVE FALSE
    BY <1>1 DEF GoneIsGone
  <2>1. browser[a] \notin sender.gone /\ sender.gone \subseteq 1 .. made
    BY DEF FormInv, GoneIsGone, Fresh
  <2> QED
    BY <1>7, <2>1, ConfTypes
<1> QED
  BY <1>8, <1>9, <1>10, <1>11, <1>12, <1>13, <1>14, <1>15 DEF FormInv, SettingsHold

\* A delivery is signed for what is in force as it begins.
LEMMA BeginSendKeeps == ASSUME FormInv, BeginSend PROVE FormInv'
<1>1. PICK kind \in {"webhook", "browser"} :
        /\ sender' = [kind |-> kind, left |-> 3, sign |-> Signatures(conf), after |-> TRUE,
                      subs |-> conf.subs, gone |-> {}]
        /\ UNCHANGED <<conf, disk, form, call, held, browser, now, promise, meant, released, unverified, made>>
  BY DEF BeginSend, outside
<1>2. Signatures(conf) \subseteq Nat
  BY ConfTypes DEF Signatures
<1>3. /\ sender' \in [kind : {"none", "webhook", "browser"}, left : Int, sign : SUBSET Nat, after : BOOLEAN,
                      subs : SUBSET Nat, gone : SUBSET Nat]
      /\ sender'.sign = Signatures(conf) /\ sender'.subs = conf.subs /\ sender'.gone = {}
  BY <1>1, <1>2, ConfTypes
<1>4. FormTypes'
  BY <1>1, <1>3 DEF FormInv, FormTypes
<1>5. Fresh'
  BY <1>1, <1>3 DEF FormInv, Fresh, Mask
<1>6. SignedForBoth'
  <2> SUFFICES ASSUME promise.holds
               PROVE  promise.new \in Signatures(conf) /\ (promise.old \in Signatures(conf) \/ held # promise.old)
    BY <1>1, <1>3 DEF SignedForBoth
  <2>1. /\ conf.key = promise.new /\ conf.prev = promise.old /\ conf.until = promise.until
        /\ now > promise.until => held = promise.new
    BY DEF FormInv, InForce
  <2>2. conf.until >= now \/ now > promise.until
    BY <2>1, ConfTypes
  <2> QED
    BY <2>1, <2>2 DEF Signatures
<1>7. GoneIsGone'
  BY <1>1, <1>3 DEF GoneIsGone
<1>8. InForce' /\ SameRotation' /\ FileSubscribed' /\ SettingsHold'
  BY <1>1 DEF FormInv, InForce, SameRotation, FileSubscribed, SettingsHold, SecretMeant, Verifiable, StaySubscribed
<1> QED
  BY <1>4, <1>5, <1>6, <1>7, <1>8 DEF FormInv

\* An attempt to deliver: what the receiver refuses was not promised to it.
LEMMA AttemptKeeps ==
  ASSUME FormInv, Attempt \/ \E e \in 1 .. MaxMade : PushBrowser(e) PROVE FormInv'
<1> DEFINE Senders == [kind : {"none", "webhook", "browser"}, left : Int, sign : SUBSET Nat, after : BOOLEAN,
                       subs : SUBSET Nat, gone : SUBSET Nat]
<1>s. sender \in Senders
  BY DEF FormInv, FormTypes
<1>1. /\ UNCHANGED <<conf, disk, form, call, held, browser, now, promise, meant, released, made>>
      /\ sender' \in Senders
      /\ \/ sender'.kind = sender.kind /\ sender'.sign = sender.sign /\ sender'.after = sender.after
         \/ sender'.kind = "none"
      /\ sender'.subs \subseteq sender.subs
      /\ \A x \in sender'.gone : x \in sender.gone \/ (x \in sender.subs /\ x \notin Range(browser))
      /\ \/ UNCHANGED unverified
         \/ /\ sender.kind = "webhook" /\ held \notin sender.sign
            /\ unverified' = (unverified \/ (promise.holds /\ sender.after /\ held \in {promise.old, promise.new}))
  <2>1. NoSend \in Senders /\ NoSend.kind = "none" /\ NoSend.subs = {} /\ NoSend.gone = {}
    BY DEF NoSend
  <2>2. CASE Attempt
    <3>1. \/ sender' = NoSend \/ sender' = [sender EXCEPT !.left = sender.left - 1]
      BY <2>2 DEF Attempt, Retry
    <3>2. /\ sender' \in Senders
          /\ \/ sender'.kind = sender.kind /\ sender'.sign = sender.sign /\ sender'.after = sender.after
             \/ sender'.kind = "none"
          /\ sender'.subs \subseteq sender.subs /\ sender'.gone \subseteq sender.gone
      BY <1>s, <2>1, <3>1
    <3>3. /\ UNCHANGED <<conf, disk, form, call, held, browser, now, promise, meant, released, made>>
          /\ \/ UNCHANGED unverified
             \/ /\ sender.kind = "webhook" /\ held \notin sender.sign
                /\ unverified' = (unverified \/ (promise.holds /\ sender.after /\ held \in {promise.old, promise.new}))
      BY <2>2 DEF Attempt, outside
    <3> QED
      BY <3>2, <3>3
  <2>3. ASSUME NEW e \in 1 .. MaxMade, PushBrowser(e)
        PROVE  /\ UNCHANGED <<conf, disk, form, call, held, browser, now, promise, meant, released, unverified, made>>
               /\ sender' \in Senders
               /\ sender'.kind = sender.kind /\ sender'.sign = sender.sign /\ sender'.after = sender.after
               /\ sender'.subs \subseteq sender.subs
               /\ \A x \in sender'.gone : x \in sender.gone \/ (x \in sender.subs /\ x \notin Range(browser))
    <3>1. /\ UNCHANGED <<conf, disk, form, call, held, browser, now, promise, meant, released, unverified, made>>
          /\ e \in sender.subs
          /\ \/ sender' = [sender EXCEPT !.subs = sender.subs \ {e}]
             \/ /\ e \notin Range(browser)
                /\ sender' = [sender EXCEPT !.subs = sender.subs \ {e}, !.gone = sender.gone \cup {e}]
      BY <2>3 DEF PushBrowser, outside
    <3>2. sender.subs \ {e} \in SUBSET Nat /\ sender.gone \cup {e} \in SUBSET Nat
      BY <1>s, <3>1
    <3> HIDE DEF Senders
    <3>3. CASE sender' = [sender EXCEPT !.subs = sender.subs \ {e}]
      BY <1>s, <3>1, <3>2, <3>3 DEF Senders
    <3>4. CASE /\ e \notin Range(browser)
               /\ sender' = [sender EXCEPT !.subs = sender.subs \ {e}, !.gone = sender.gone \cup {e}]
      BY <1>s, <3>1, <3>2, <3>4 DEF Senders
    <3> QED
      BY <3>1, <3>3, <3>4
  <2> QED
    BY <2>2, <2>3
<1>2. FormTypes'
  BY <1>1 DEF FormInv, FormTypes
<1>3. \A b \in Browsers : browser[b] \in Range(browser)
  BY DEF FormInv, FormTypes, Range
<1>4. GoneIsGone'
  BY <1>1, <1>3 DEF FormInv, GoneIsGone
<1>5. Fresh'
  <2>1. sender'.subs \subseteq 1 .. made /\ sender'.gone \subseteq 1 .. made
    BY <1>1 DEF FormInv, Fresh
  <2> QED
    BY <1>1, <2>1 DEF FormInv, Fresh, Mask
<1>6. SignedForBoth'
  BY <1>1 DEF FormInv, SignedForBoth
<1>7. Verifiable'
  BY <1>1 DEF FormInv, SettingsHold, Verifiable, SignedForBoth
<1>8. InForce' /\ SameRotation' /\ FileSubscribed' /\ SecretMeant' /\ StaySubscribed'
  BY <1>1 DEF FormInv, InForce, SameRotation, FileSubscribed, SettingsHold, SecretMeant, StaySubscribed
<1> QED
  BY <1>2, <1>4, <1>5, <1>6, <1>7, <1>8 DEF FormInv, SettingsHold

\* What was gone is removed from the settings as they are by now, and a restart
\* goes on from the file.
LEMMA PruneKeeps == ASSUME FormInv, Prune PROVE FormInv'
<1> DEFINE new == Without(sender.gone)
<1>1. /\ UNCHANGED <<form, call, held, browser, now, promise, meant, released, unverified, made>>
      /\ sender' = NoSend
      /\ \/ UNCHANGED <<conf, disk>> \/ (conf' = new /\ disk' = new) \/ (UNCHANGED conf /\ disk' \in {disk, new})
  BY DEF Prune, Update, UpdateFails, outside
<1>2. /\ new \in Stored /\ new.key = conf.key /\ new.prev = conf.prev /\ new.until = conf.until
      /\ new.subs = conf.subs \ sender.gone
  <2>1. conf \in Stored
    BY DEF FormInv, FormTypes
  <2>2. conf.subs \ sender.gone \in SUBSET Nat
    BY ConfTypes
  <2> QED
    BY <2>1, <2>2 DEF Without, Stored
<1> HIDE DEF new
<1>3. /\ sender' \in [kind : {"none", "webhook", "browser"}, left : Int, sign : SUBSET Nat, after : BOOLEAN,
                      subs : SUBSET Nat, gone : SUBSET Nat]
      /\ sender'.kind = "none" /\ sender'.subs = {} /\ sender'.gone = {}
  BY <1>1 DEF NoSend
<1>4. \A b \in Browsers : browser[b] \in conf.subs => browser[b] \in new.subs
  BY <1>2 DEF FormInv, GoneIsGone
<1>5. FormTypes'
  BY <1>1, <1>2, <1>3 DEF FormInv, FormTypes
<1>6. Fresh'
  BY <1>1, <1>2, <1>3 DEF FormInv, Fresh, Mask
<1>7. InForce' /\ SameRotation' /\ SecretMeant' /\ Verifiable'
  BY <1>1, <1>2 DEF FormInv, InForce, SameRotation, SettingsHold, SecretMeant, Verifiable
<1>8. SignedForBoth' /\ GoneIsGone'
  BY <1>3 DEF SignedForBoth, GoneIsGone
<1>9. FileSubscribed' /\ StaySubscribed'
  BY <1>1, <1>4 DEF FormInv, FileSubscribed, SettingsHold, StaySubscribed
<1> QED
  BY <1>5, <1>6, <1>7, <1>8, <1>9 DEF FormInv, SettingsHold

LEMMA FileKeeps == ASSUME FormInv, RestartSettings PROVE FormInv'
<1>1. /\ UNCHANGED <<disk, form, held, browser, now, released, unverified, made>>
      /\ conf' = disk /\ call' = [t \in Tabs |-> Closed] /\ sender' = NoSend /\ meant' = disk.key
      /\ promise' = [promise EXCEPT !.holds = promise.holds /\ disk.key = conf.key]
  BY DEF RestartSettings, outside
<1>2. /\ sender' \in [kind : {"none", "webhook", "browser"}, left : Int, sign : SUBSET Nat, after : BOOLEAN,
                      subs : SUBSET Nat, gone : SUBSET Nat]
      /\ sender'.kind = "none" /\ sender'.subs = {} /\ sender'.gone = {}
  BY <1>1 DEF NoSend
<1>3. /\ promise' \in [old : Nat, new : Nat, until : Nat, holds : BOOLEAN]
      /\ promise'.old = promise.old /\ promise'.new = promise.new /\ promise'.until = promise.until
      /\ promise'.holds => promise.holds /\ disk.key = conf.key
  <2>1. promise \in [old : Nat, new : Nat, until : Nat, holds : BOOLEAN]
    BY DEF FormInv, FormTypes
  <2> QED
    BY <1>1, <2>1
<1>4. \A t \in Tabs : call'[t].key = 0
  BY <1>1 DEF Closed
<1>5. FormTypes'
  BY <1>1, <1>2, <1>3, MaskTypes DEF FormInv, FormTypes
<1>6. Fresh'
  <2>1. 0 <= made
    BY ConfTypes
  <2> QED
    BY <1>1, <1>2, <1>4, <2>1 DEF FormInv, Fresh, Mask
<1>7. InForce' /\ SameRotation'
  BY <1>1, <1>3 DEF FormInv, InForce, SameRotation
<1>8. SignedForBoth' /\ GoneIsGone'
  BY <1>2 DEF SignedForBoth, GoneIsGone
<1>9. FileSubscribed' /\ SettingsHold'
  BY <1>1 DEF FormInv, FileSubscribed, SettingsHold, SecretMeant, Verifiable, StaySubscribed
<1> QED
  BY <1>5, <1>6, <1>7, <1>8, <1>9 DEF FormInv

LEMMA FormInitial == SettingsInit => FormInv
<1> SUFFICES ASSUME SettingsInit PROVE FormInv
  OBVIOUS
<1>1. PICK k \in {0, 1} : conf = [key |-> k, prev |-> 0, until |-> 0, subs |-> {}] /\ held = k /\ meant = k
  BY DEF SettingsInit
<1>2. /\ disk = conf /\ form = [t \in Tabs |-> Closed] /\ call = [t \in Tabs |-> Closed]
      /\ sender = NoSend /\ browser = [b \in Browsers |-> 0] /\ promise = NoPromise
      /\ unverified = FALSE /\ now = 0 /\ made = 1
  BY DEF SettingsInit
<1>3. conf \in Stored /\ conf.key = k /\ conf.subs = {} /\ k \in Nat /\ k <= 1
  BY <1>1 DEF Stored
<1>4. FormTypes
  BY <1>1, <1>2, <1>3, MaskTypes DEF FormTypes, NoSend, NoPromise
<1>5. \A t \in Tabs : form[t].key = 0 /\ call[t].key = 0
  BY <1>2 DEF Closed
<1>6. Fresh
  BY <1>2, <1>3, <1>5 DEF Fresh, NoSend
<1>7. InForce /\ SameRotation /\ SignedForBoth /\ FileSubscribed /\ GoneIsGone /\ SettingsHold
  BY <1>1, <1>2, <1>3 DEF InForce, SameRotation, SignedForBoth, FileSubscribed, GoneIsGone, SettingsHold,
       SecretMeant, Verifiable, StaySubscribed, NoSend, NoPromise
<1> QED
  BY <1>4, <1>6, <1>7 DEF FormInv

\* Pages that post an old form, rotations of the webhook's secret, browsers that
\* come and go and deliveries that end late: the secret is the one entered last,
\* the receiver can verify, a browser stays (update_settings, rotate_webhook_secret
\* in api/settings.rs, api/push.rs and send_browser_push in services/push.rs).
THEOREM SettingsStand == SettingsInit /\ [][SettingsNext]_svars => []SettingsHold
<1>1. FormInv /\ [SettingsNext]_svars => FormInv'
  <2> SUFFICES ASSUME FormInv, [SettingsNext]_svars PROVE FormInv'
    OBVIOUS
  <2>1. ASSUME NEW t \in Tabs, OpenForm(t) \/ Reveal(t) \/ Post(t) \/ SaveForm(t) PROVE FormInv'
    BY <2>1, PageKeeps, SaveKeeps
  <2>2. ASSUME NEW b \in Browsers, subscribe_browser_push(b) \/ unsubscribe_browser_push(b) \/ DropEndpoint(b)
        PROVE  FormInv'
    BY <2>2, BrowserKeeps
  <2>3. CASE Attempt \/ \E e \in 1 .. MaxMade : PushBrowser(e)
    BY <2>3, AttemptKeeps
  <2>4. CASE RotateSecret \/ TakeUp \/ Tick
    BY <2>4, RotateKeeps, ReceiverKeeps
  <2>5. CASE BeginSend \/ Prune \/ RestartSettings
    BY <2>5, BeginSendKeeps, PruneKeeps, FileKeeps
  <2>6. CASE UNCHANGED svars
    <3>1. FormTypes'
      BY <2>6 DEF FormInv, FormTypes, svars, outside
    <3>2. Fresh'
      BY <2>6 DEF FormInv, Fresh, svars, outside, Mask
    <3> QED
      BY <2>6, <3>1, <3>2 DEF FormInv, svars, InForce, SameRotation, SignedForBoth, FileSubscribed, GoneIsGone,
           SettingsHold, SecretMeant, Verifiable, StaySubscribed
  <2> QED
    BY <2>1, <2>2, <2>3, <2>4, <2>5, <2>6 DEF SettingsNext
<1>2. FormInv => SettingsHold
  BY DEF FormInv
<1> QED
  BY FormInitial, <1>1, <1>2, PTL

----------------------------------------------------------------------------
(* The timeline.                                                           *)

JobStates == {"queued", "running", "succeeded", "failed", "canceled"}
Work == [status : JobStates, attempt : Nat \ {0}, updated : Nat, created : Nat]
Notices == [job : Nat, as : Work]

\* A list of whatever it holds.
IsList(s) == \E S : s \in Seq(S)

\* An event is of a job, of a stage that followed from one, or of a retry.
IsRecord(e) ==
  e = [id |-> e.id, correlation |-> e.correlation, stage |-> e.stage, status |-> e.status, attempt |-> e.attempt,
       job |-> e.job, retry |-> e.retry, created |-> e.created, updated |-> e.updated]
IsJobEvent(e) ==
  /\ e.id = <<"job", e.job, e.id[3]>> /\ e.id[3] \in Nat /\ e.stage = "transfer"
  /\ e.correlation = Correlation(e.job) /\ \E s \in JobStates : e.status = job_status(s)
IsStageEvent(e) == e.id = <<"stage", e.job>> /\ e.stage = "rename"
IsRetryEvent(e) == e.id[1] = "retry" /\ e.stage = "transfer" /\ (shared => e.correlation = 0)
WellFormed(e) ==
  /\ IsRecord(e) /\ e.job \in DOMAIN chain
  /\ e.created \in Nat /\ e.updated \in Nat /\ e.created <= clock /\ e.updated <= clock
  /\ IsJobEvent(e) \/ IsStageEvent(e) \/ IsRetryEvent(e)

\* What the parts of the timeline hold.
ChainTypes ==
  /\ chain \in Seq(Work) /\ shared \in BOOLEAN /\ clock \in Nat
  /\ \A j \in DOMAIN chain : chain[j].updated <= clock /\ chain[j].created <= clock
Announces(o) ==
  o.job \in DOMAIN chain /\ o.as.created = chain[o.job].created /\ o.as.updated <= clock
RecordTypes(t) == IsList(t) /\ Len(t) <= MaxEvents /\ \A i \in DOMAIN t : WellFormed(t[i])
Asking(q) ==
  \/ q = Idle
  \/ /\ q = [pc |-> q.pc, job |-> q.job, event |-> q.event] /\ q.job \in DOMAIN chain
     /\ WellFormed(q.event) /\ IsRetryEvent(q.event)
TimelineTypes ==
  /\ ChainTypes /\ notices \in Seq(Notices) /\ \A a \in DOMAIN notices : Announces(notices[a])
  /\ RecordTypes(timeline) /\ DOMAIN request = Retries /\ \A r \in Retries : Asking(request[r])

\* One attempt of a job after another, as the events and the notices tell it.
OwnIn(t, j) == {i \in DOMAIN t : t[i].id[1] = "job" /\ t[i].job = j}
OfJob(n, j) == {a \in DOMAIN n : n[a].job = j}
Continues(a, s, work) ==
  \/ s = "pending" /\ work.status \in {"running", "canceled"} /\ work.attempt = a
  \/ s = "running" /\ work.status \in {"succeeded", "failed", "canceled"} /\ work.attempt = a
  \/ s = "failed" /\ work.status = "queued" /\ work.attempt = a + 1
  \/ s = "failed" /\ work.status = "failed" /\ work.attempt = a
Moved(was, work) == Continues(was.attempt, job_status(was.status), work) /\ was.updated <= work.updated
IsLast(t, j, i) == i \in OwnIn(t, j) /\ \A k \in OwnIn(t, j) : k <= i
TellsOf(t, j, work) ==
  \E i \in OwnIn(t, j) : /\ IsLast(t, j, i) /\ t[i].id[3] = work.attempt
                         /\ t[i].status = job_status(work.status) /\ t[i].updated = work.updated
Precedes(t, j, work) ==
  \/ OwnIn(t, j) = {}
  \/ \E i \in OwnIn(t, j) : /\ IsLast(t, j, i) /\ Continues(t[i].id[3], t[i].status, work)
                            /\ t[i].updated <= work.updated
OwnOrder(t, j, created) ==
  /\ \A i \in OwnIn(t, j) : t[i].created = created
  /\ \A i, k \in OwnIn(t, j) : i < k => t[i].id[3] < t[k].id[3] /\ t[i].updated <= t[k].updated
ToldBy(n, t, j, work) ==
  /\ OfJob(n, j) = {} => TellsOf(t, j, work)
  /\ \A a \in OfJob(n, j) :
       /\ (\A b \in OfJob(n, j) : a <= b) => Precedes(t, j, n[a].as)
       /\ (\A b \in OfJob(n, j) : b <= a) => n[a].as = work
       /\ \A b \in OfJob(n, j) : a < b /\ (\A c \in OfJob(n, j) : c <= a \/ b <= c) => Moved(n[a].as, n[b].as)

\* The invariant: while nothing was pruned, each job's own events, continued by
\* the notices that wait, lead to the job as it is.
Distinct(t) == \A i, k \in DOMAIN t : t[i].id = t[k].id => i = k
Told == \A j \in DOMAIN chain \ missed :
          OwnOrder(timeline, j, chain[j].created) /\ ToldBy(notices, timeline, j, chain[j])
TimelineInv == TimelineTypes /\ (Len(timeline) < MaxEvents => Distinct(timeline) /\ Told)

----------------------------------------------------------------------------
\* Sequences.
LEMMA SeqFacts ==
  ASSUME NEW s, IsList(s)
  PROVE  Len(s) \in Nat /\ DOMAIN s = 1 .. Len(s)
BY DEF IsList

\* What appending does to a list.
LEMMA LongerSeq ==
  ASSUME NEW s, IsList(s), NEW x
  PROVE  /\ IsList(Append(s, x)) /\ Len(Append(s, x)) = Len(s) + 1
         /\ DOMAIN Append(s, x) = 1 .. Len(s) + 1
         /\ Append(s, x)[Len(s) + 1] = x /\ \A i \in 1 .. Len(s) : Append(s, x)[i] = s[i]
<1>1. PICK S : s \in Seq(S)
  BY DEF IsList
<1>2. PICK T : T = S \cup {x}
  OBVIOUS
<1>3. s \in Seq(T) /\ x \in T
  <2>1. Len(s) \in Nat /\ s \in [1 .. Len(s) -> S]
    BY <1>1
  <2>2. s \in [1 .. Len(s) -> T]
    BY <1>2, <2>1
  <2> QED
    BY <1>2, <2>1, <2>2
<1>4. Append(s, x) \in Seq(T)
  BY <1>3
<1> QED
  BY <1>3, <1>4 DEF IsList

\* What prune_events leaves of a list one longer than it may be.
LEMMA PrunedFacts ==
  ASSUME NEW s, IsList(s), Len(s) <= MaxEvents + 1
  PROVE  /\ IsList(prune_events(s)) /\ Len(prune_events(s)) <= MaxEvents
         /\ \A i \in DOMAIN prune_events(s) : \E k \in DOMAIN s : prune_events(s)[i] = s[k]
         /\ Len(prune_events(s)) < MaxEvents => prune_events(s) = s
<1>1. Len(s) \in Nat /\ MaxEvents \in Nat /\ MaxEvents # 0 /\ DOMAIN s = 1 .. Len(s)
  BY SeqFacts, AutomationAssumption
<1>2. CASE Len(s) <= MaxEvents
  BY <1>1, <1>2 DEF prune_events
<1>3. CASE ~(Len(s) <= MaxEvents)
  <2>1. Len(s) - MaxEvents + 1 = 2 /\ Len(s) = MaxEvents + 1
    <3>1. PICK l \in Nat, m \in Nat : l = Len(s) /\ m = MaxEvents
      BY <1>1
    <3>2. l <= m + 1 /\ ~(l <= m)
      BY <1>3, <3>1
    <3>3. l = m + 1 /\ l - m + 1 = 2
      BY <3>2
    <3> QED
      BY <3>1, <3>3
  <2>2. PICK p, q : p = 2 /\ q = Len(s)
    OBVIOUS
  <2>3. prune_events(s) = SubSeq(s, p, q)
    BY <1>3, <2>1, <2>2 DEF prune_events
  <2>4. PICK S : s \in Seq(S)
    BY DEF IsList
  <2>5. p \in Int /\ q \in Int /\ p <= q /\ 1 <= p /\ q <= Len(s) /\ q - p + 1 = MaxEvents
    BY <1>1, <2>1, <2>2
  <2>6. \A i \in p .. q : s[i] \in S
    BY <1>1, <2>4, <2>5
  <2>7. /\ SubSeq(s, p, q) \in Seq(S) /\ Len(SubSeq(s, p, q)) = MaxEvents
        /\ \A i \in 1 .. MaxEvents : SubSeq(s, p, q)[i] = s[p + i - 1]
    BY <2>5, <2>6, SubSeqProperties
  <2>8. \A i \in 1 .. MaxEvents : p + i - 1 \in DOMAIN s
    BY <1>1, <2>1, <2>2
  <2>9. DOMAIN SubSeq(s, p, q) = 1 .. MaxEvents
    BY <2>7
  <2>10. IsList(SubSeq(s, p, q)) /\ ~(Len(SubSeq(s, p, q)) < MaxEvents) /\ Len(SubSeq(s, p, q)) <= MaxEvents
    <3>1. PICK l \in Nat : l = Len(SubSeq(s, p, q)) /\ l = MaxEvents
      BY <1>1, <2>7
    <3>2. ~(l < MaxEvents) /\ l <= MaxEvents
      BY <3>1
    <3> QED
      BY <2>7, <3>1, <3>2 DEF IsList
  <2>11. \A i \in DOMAIN SubSeq(s, p, q) : \E k \in DOMAIN s : SubSeq(s, p, q)[i] = s[k]
    BY <2>7, <2>8, <2>9
  <2> QED
    BY <2>3, <2>10, <2>11
<1> QED
  BY <1>2, <1>3

----------------------------------------------------------------------------
\* An event is put into the timeline, in place or at the end.
Stamped(was, e) == [e EXCEPT !.created = IF was.created < e.created THEN was.created ELSE @]
Replaces(s, t, i, e) ==
  /\ i \in DOMAIN s /\ s[i].id = e.id /\ DOMAIN t = DOMAIN s /\ t[i] = Stamped(s[i], e)
  /\ \A k \in DOMAIN s : k # i => t[k] = s[k]
Lengthens(s, t, e) ==
  /\ \A i \in DOMAIN s : s[i].id # e.id
  /\ DOMAIN s = 1 .. Len(s) /\ Len(s) \in Nat /\ DOMAIN t = 1 .. Len(s) + 1 /\ t[Len(s) + 1] = e
  /\ \A k \in DOMAIN s : t[k] = s[k]
Put(s, t, e) == Lengthens(s, t, e) \/ \E i \in DOMAIN s : Replaces(s, t, i, e)

\* A stamped event differs from the new one in nothing but its creation.
LEMMA StampedFacts ==
  ASSUME NEW was, was.created \in Nat, NEW e, IsRecord(e), e.created \in Nat
  PROVE  /\ Stamped(was, e).id = e.id /\ Stamped(was, e).job = e.job /\ Stamped(was, e).stage = e.stage
         /\ Stamped(was, e).correlation = e.correlation /\ Stamped(was, e).status = e.status
         /\ Stamped(was, e).updated = e.updated /\ IsRecord(Stamped(was, e))
         /\ Stamped(was, e).created \in Nat /\ Stamped(was, e).created <= e.created
         /\ (was.created = e.created => Stamped(was, e).created = e.created)
<1>1. PICK c \in Nat : /\ c = (IF was.created < e.created THEN was.created ELSE e.created) /\ c <= e.created
                       /\ (was.created = e.created => c = e.created)
  OBVIOUS
<1>2. Stamped(was, e) = [id |-> e.id, correlation |-> e.correlation, stage |-> e.stage, status |-> e.status,
                         attempt |-> e.attempt, job |-> e.job, retry |-> e.retry, created |-> c, updated |-> e.updated]
  BY <1>1 DEF Stamped, IsRecord
<1> QED
  BY <1>1, <1>2 DEF IsRecord

\* A stamped event is as well formed as the new one.
LEMMA StampedForm ==
  ASSUME NEW was, was.created \in Nat, NEW e, WellFormed(e), clock \in Nat
  PROVE  WellFormed(Stamped(was, e))
<1>1. IsRecord(e) /\ e.created \in Nat
  BY DEF WellFormed
<1>2. PICK f : f = Stamped(was, e)
  OBVIOUS
<1>3. /\ f.id = e.id /\ f.job = e.job /\ f.stage = e.stage /\ f.correlation = e.correlation
      /\ f.status = e.status /\ f.updated = e.updated /\ IsRecord(f)
      /\ f.created \in Nat /\ f.created <= e.created
  BY <1>1, <1>2, StampedFacts
<1>4. IsJobEvent(e) => IsJobEvent(f)
  BY <1>3 DEF IsJobEvent
<1>5. IsStageEvent(e) => IsStageEvent(f)
  BY <1>3 DEF IsStageEvent
<1>6. IsRetryEvent(e) => IsRetryEvent(f)
  BY <1>3 DEF IsRetryEvent
<1> QED
  BY <1>2, <1>3, <1>4, <1>5, <1>6 DEF WellFormed

\* Where an id stands, or that it stands nowhere.
LEMMA PositionFacts ==
  ASSUME NEW s, IsList(s), NEW id
  PROVE  \/ Position(s, id) = 0 /\ \A i \in DOMAIN s : s[i].id # id
         \/ Position(s, id) \in DOMAIN s /\ Position(s, id) # 0 /\ s[Position(s, id)].id = id
<1>1. \A i \in DOMAIN s : i # 0
  BY SeqFacts
<1> QED
  BY <1>1 DEF Position

\* An event with a new id goes to the end, or something was pruned.
LEMMA AppendedFacts ==
  ASSUME NEW s, RecordTypes(s), NEW e, WellFormed(e), \A i \in DOMAIN s : s[i].id # e.id,
         NEW t, t = prune_events(Append(s, e))
  PROVE  /\ RecordTypes(t) /\ (Len(t) < MaxEvents => Lengthens(s, t, e) /\ Len(s) < MaxEvents)
<1>1. IsList(s) /\ Len(s) \in Nat /\ DOMAIN s = 1 .. Len(s) /\ Len(s) <= MaxEvents /\ MaxEvents \in Nat
  BY SeqFacts, AutomationAssumption DEF RecordTypes
<1>2. PICK u : u = Append(s, e)
  OBVIOUS
<1>3. /\ IsList(u) /\ Len(u) = Len(s) + 1 /\ DOMAIN u = 1 .. Len(s) + 1
      /\ u[Len(s) + 1] = e /\ \A i \in 1 .. Len(s) : u[i] = s[i]
  BY <1>1, <1>2, LongerSeq
<1>4. \A k \in DOMAIN u : WellFormed(u[k])
  <2> SUFFICES ASSUME NEW k \in DOMAIN u PROVE WellFormed(u[k])
    OBVIOUS
  <2>1. k \in 1 .. Len(s) \/ k = Len(s) + 1
    BY <1>1, <1>3
  <2> QED
    BY <1>1, <1>3, <2>1 DEF RecordTypes
<1>5. /\ IsList(t) /\ Len(t) <= MaxEvents
      /\ \A i \in DOMAIN t : \E k \in DOMAIN u : t[i] = u[k]
      /\ Len(t) < MaxEvents => t = u
  <2>1. IsList(u) /\ Len(u) <= MaxEvents + 1 /\ t = prune_events(u)
    BY <1>1, <1>2, <1>3
  <2> QED
    BY <2>1, PrunedFacts
<1>6. RecordTypes(t)
  BY <1>4, <1>5 DEF RecordTypes
<1>7. ASSUME Len(t) < MaxEvents PROVE Lengthens(s, t, e) /\ Len(s) < MaxEvents
  <2>1. t = u
    BY <1>5, <1>7
  <2> QED
    BY <1>1, <1>3, <1>7, <2>1 DEF Lengthens
<1> QED
  BY <1>6, <1>7

\* upsert puts its event, or something was pruned.
LEMMA UpsertPuts ==
  ASSUME RecordTypes(timeline), NEW e, WellFormed(e), NEW t, t = upsert(e), clock \in Nat
  PROVE  RecordTypes(t) /\ (Len(t) < MaxEvents => Put(timeline, t, e) /\ Len(timeline) < MaxEvents)
<1>1. /\ IsList(timeline) /\ Len(timeline) \in Nat /\ DOMAIN timeline = 1 .. Len(timeline)
      /\ Len(timeline) <= MaxEvents /\ MaxEvents \in Nat
  BY SeqFacts, AutomationAssumption DEF RecordTypes
<1>2. PICK i : i = Position(timeline, e.id)
  OBVIOUS
<1>3. \/ i = 0 /\ \A k \in DOMAIN timeline : timeline[k].id # e.id
      \/ i \in DOMAIN timeline /\ i # 0 /\ timeline[i].id = e.id
  BY <1>1, <1>2, PositionFacts
<1>4. CASE i = 0
  <2>1. t = prune_events(Append(timeline, e))
    BY <1>2, <1>4 DEF upsert
  <2>2. \A k \in DOMAIN timeline : timeline[k].id # e.id
    BY <1>1, <1>3, <1>4
  <2>3. RecordTypes(t) /\ (Len(t) < MaxEvents => Lengthens(timeline, t, e) /\ Len(timeline) < MaxEvents)
    BY <2>1, <2>2, AppendedFacts
  <2> QED
    BY <2>3 DEF Put
<1>5. CASE i \in DOMAIN timeline /\ i # 0 /\ timeline[i].id = e.id
  <2>1. PICK f : f = Stamped(timeline[i], e)
    OBVIOUS
  <2>2. PICK u : u = [timeline EXCEPT ![i] = f]
    OBVIOUS
  <2>3. t = prune_events(u)
    BY <1>2, <1>5, <2>1, <2>2 DEF upsert, Stamped
  <2>4. WellFormed(f)
    <3>1. timeline[i].created \in Nat
      BY <1>5 DEF RecordTypes, WellFormed
    <3> QED
      BY <2>1, <3>1, StampedForm
  <2>5. IsList(u) /\ Len(u) = Len(timeline)
    <3>1. PICK S : timeline \in Seq(S)
      BY <1>1 DEF IsList
    <3>2. timeline \in [1 .. Len(timeline) -> S]
      BY <3>1
    <3>3. PICK T : T = S \cup {f}
      OBVIOUS
    <3>4. u \in [1 .. Len(timeline) -> T]
      BY <1>1, <1>5, <2>2, <3>2, <3>3
    <3>5. u \in Seq(T)
      BY <1>1, <3>4
    <3> QED
      BY <1>1, <3>4, <3>5 DEF IsList
  <2>6. DOMAIN u = DOMAIN timeline /\ u[i] = f /\ \A k \in DOMAIN timeline : k # i => u[k] = timeline[k]
    BY <1>5, <2>2
  <2>7. t = u
    BY <1>1, <2>3, <2>5 DEF prune_events
  <2>8. RecordTypes(t)
    BY <1>1, <2>4, <2>5, <2>6, <2>7 DEF RecordTypes
  <2>9. Replaces(timeline, t, i, e)
    BY <1>5, <2>1, <2>6, <2>7 DEF Replaces
  <2> QED
    BY <1>5, <2>5, <2>7, <2>8, <2>9 DEF Put
<1> QED
  BY <1>3, <1>4, <1>5

\* add puts its event, or leaves what is there, or something was pruned.
LEMMA AddPuts ==
  ASSUME NEW s, RecordTypes(s), NEW e, WellFormed(e), NEW t, t = add(s, e)
  PROVE  RecordTypes(t) /\ (Len(t) < MaxEvents => (t = s \/ Put(s, t, e)) /\ Len(s) < MaxEvents)
<1>1. \/ Position(s, e.id) = 0 /\ \A i \in DOMAIN s : s[i].id # e.id
      \/ Position(s, e.id) # 0
  BY PositionFacts DEF RecordTypes
<1>2. CASE Position(s, e.id) # 0
  BY <1>2 DEF add
<1>3. CASE Position(s, e.id) = 0 /\ \A i \in DOMAIN s : s[i].id # e.id
  <2>1. t = prune_events(Append(s, e)) /\ \A i \in DOMAIN s : s[i].id # e.id
    BY <1>3 DEF add
  <2>2. RecordTypes(t) /\ (Len(t) < MaxEvents => Lengthens(s, t, e) /\ Len(s) < MaxEvents)
    BY <2>1, AppendedFacts
  <2> QED
    BY <2>2 DEF Put
<1> QED
  BY <1>1, <1>2, <1>3

----------------------------------------------------------------------------
\* An event put for somebody else leaves a job's own events as they are.
SameOwn(s, t, j) == OwnIn(t, j) = OwnIn(s, j) /\ \A i \in OwnIn(s, j) : t[i] = s[i]

\* What a job's last event tells depends on its own events alone.
LEMMA SameOwnTells ==
  ASSUME NEW s, NEW t, NEW j, SameOwn(s, t, j), NEW work
  PROVE  /\ TellsOf(s, j, work) => TellsOf(t, j, work)
         /\ Precedes(s, j, work) => Precedes(t, j, work)
<1>1. \A i : IsLast(s, j, i) => IsLast(t, j, i)
  BY DEF SameOwn, IsLast
<1>2. TellsOf(s, j, work) => TellsOf(t, j, work)
  BY <1>1 DEF TellsOf, SameOwn
<1>3. Precedes(s, j, work) => Precedes(t, j, work)
  BY <1>1 DEF Precedes, SameOwn
<1> QED
  BY <1>2, <1>3

\* So does the order of them.
LEMMA SameOwnKeeps ==
  ASSUME NEW s, NEW t, NEW j, SameOwn(s, t, j), NEW created, OwnOrder(s, j, created)
  PROVE  OwnOrder(t, j, created)
BY DEF SameOwn, OwnOrder

\* So does what the notices continue.
LEMMA SameOwnTold ==
  ASSUME NEW s, NEW t, NEW j, SameOwn(s, t, j), NEW n, NEW work, ToldBy(n, s, j, work)
  PROVE  ToldBy(n, t, j, work)
<1>1. OfJob(n, j) = {} => TellsOf(t, j, work)
  BY SameOwnTells DEF ToldBy
<1>2. \A a \in OfJob(n, j) : (\A b \in OfJob(n, j) : a <= b) => Precedes(t, j, n[a].as)
  BY SameOwnTells DEF ToldBy
<1> QED
  BY <1>1, <1>2 DEF ToldBy

\* Putting an event makes no two events of one id.
LEMMA PutIds ==
  ASSUME NEW s, NEW t, NEW e, Distinct(s), Put(s, t, e), IsRecord(e), e.created \in Nat,
         \A i \in DOMAIN s : s[i].created \in Nat
  PROVE  Distinct(t)
<1>1. CASE Lengthens(s, t, e)
  <2>1. \A i \in DOMAIN t : i \in DOMAIN s \/ i = Len(s) + 1
    BY <1>1 DEF Lengthens
  <2> QED
    BY <1>1, <2>1 DEF Lengthens, Distinct
<1>2. ASSUME NEW i \in DOMAIN s, Replaces(s, t, i, e) PROVE Distinct(t)
  <2>1. t[i].id = s[i].id
    BY <1>2, StampedFacts DEF Replaces
  <2>2. \A k \in DOMAIN s : t[k].id = s[k].id
    BY <1>2, <2>1 DEF Replaces
  <2> QED
    BY <1>2, <2>2 DEF Replaces, Distinct
<1> QED
  BY <1>1, <1>2 DEF Put

\* The first part of an id is the kind of the event.
LEMMA OwnIds ==
  ASSUME NEW e, WellFormed(e)
  PROVE  /\ e.id[1] = "job" <=> IsJobEvent(e)
         /\ e.id[1] = "retry" <=> IsRetryEvent(e)
<1>1. IsJobEvent(e) => e.id[1] = "job"
  <2>1. ASSUME IsJobEvent(e) PROVE e.id[1] = "job"
    <3>1. PICK a : a = e.id[3]
      OBVIOUS
    <3>2. e.id = <<"job", e.job, a>>
      BY <2>1, <3>1 DEF IsJobEvent
    <3> QED
      BY <3>2
  <2> QED
    BY <2>1
<1>2. IsStageEvent(e) => e.id[1] = "stage"
  BY DEF IsStageEvent
<1>3. IsRetryEvent(e) => e.id[1] = "retry"
  BY DEF IsRetryEvent
<1> QED
  BY <1>1, <1>2, <1>3 DEF WellFormed

\* The event of another job, of a stage, of a retry.
LEMMA PutOther ==
  ASSUME NEW s, NEW t, NEW e, Put(s, t, e), WellFormed(e), \A i \in DOMAIN s : WellFormed(s[i]),
         NEW j, e.id[1] # "job" \/ e.job # j
  PROVE  SameOwn(s, t, j)
<1>1. CASE Lengthens(s, t, e)
  <2>1. \A i : i \in DOMAIN t <=> i \in DOMAIN s \/ i = Len(s) + 1
    BY <1>1 DEF Lengthens
  <2>2. Len(s) + 1 \notin OwnIn(t, j) /\ Len(s) + 1 \notin DOMAIN s
    BY <1>1 DEF Lengthens, OwnIn
  <2> QED
    BY <1>1, <2>1, <2>2 DEF Lengthens, OwnIn, SameOwn
<1>2. ASSUME NEW i \in DOMAIN s, Replaces(s, t, i, e) PROVE SameOwn(s, t, j)
  <2>1. /\ s[i].created \in Nat /\ IsRecord(e) /\ e.created \in Nat /\ s[i].id = e.id
        /\ WellFormed(s[i]) /\ t[i] = Stamped(s[i], e)
    BY <1>2 DEF WellFormed, Replaces
  <2>2. t[i].id = e.id /\ t[i].job = e.job
    BY <2>1, StampedFacts
  <2>3. e.id[1] = "job" => s[i].job = e.job
    <3>1. ASSUME e.id[1] = "job" PROVE s[i].job = e.job
      <4>1. IsJobEvent(e) /\ IsJobEvent(s[i])
        BY <2>1, <3>1, OwnIds
      <4>2. PICK a, b : e.id = <<"job", e.job, a>> /\ s[i].id = <<"job", s[i].job, b>>
        BY <4>1 DEF IsJobEvent
      <4> QED
        BY <2>1, <4>2
    <3> QED
      BY <3>1
  <2>4. i \notin OwnIn(s, j) /\ i \notin OwnIn(t, j)
    BY <2>1, <2>2, <2>3 DEF OwnIn
  <2>5. DOMAIN t = DOMAIN s /\ \A k \in DOMAIN s : k # i => t[k] = s[k]
    BY <1>2 DEF Replaces
  <2> QED
    BY <2>4, <2>5 DEF OwnIn, SameOwn
<1> QED
  BY <1>1, <1>2 DEF Put

\* The next event of a job: a new attempt goes to the end, a change in place.
LEMMA PutNext ==
  ASSUME NEW s, NEW t, NEW e, Put(s, t, e), WellFormed(e), IsJobEvent(e), NEW j, e.job = j,
         IsList(s), \A i \in DOMAIN s : WellFormed(s[i]), Distinct(s),
         NEW work \in Work, e.id[3] = work.attempt, e.status = job_status(work.status), e.updated = work.updated,
         e.created = work.created, OwnOrder(s, j, work.created), Precedes(s, j, work)
  PROVE  TellsOf(t, j, work) /\ OwnOrder(t, j, work.created)
<1> DEFINE a == work.attempt
<1>1. /\ IsRecord(e) /\ e.created \in Nat /\ e.id = <<"job", j, a>> /\ e.id[1] = "job" /\ e.id[3] = a
      /\ a \in Nat /\ work.updated \in Nat /\ work.created \in Nat
      /\ DOMAIN s = 1 .. Len(s) /\ Len(s) \in Nat
  BY OwnIds, SeqFacts DEF WellFormed, IsJobEvent, Work
<1>2. \A i \in OwnIn(s, j) : /\ i \in DOMAIN s /\ s[i].id = <<"job", j, s[i].id[3]>> /\ s[i].id[3] \in Nat
                           /\ s[i].updated \in Nat /\ s[i].created \in Nat
  <2> SUFFICES ASSUME NEW i \in OwnIn(s, j)
               PROVE  /\ i \in DOMAIN s /\ s[i].id = <<"job", j, s[i].id[3]>> /\ s[i].id[3] \in Nat
                      /\ s[i].updated \in Nat /\ s[i].created \in Nat
    OBVIOUS
  <2>1. i \in DOMAIN s /\ s[i].id[1] = "job" /\ s[i].job = j /\ WellFormed(s[i])
    BY DEF OwnIn
  <2>2. IsJobEvent(s[i])
    BY <2>1, OwnIds
  <2> QED
    BY <2>1, <2>2 DEF IsJobEvent, WellFormed
<1>3. \A i \in DOMAIN s : s[i].id = e.id => i \in OwnIn(s, j) /\ s[i].id[3] = a
  <2> SUFFICES ASSUME NEW i \in DOMAIN s, s[i].id = e.id PROVE i \in OwnIn(s, j) /\ s[i].id[3] = a
    OBVIOUS
  <2>1. WellFormed(s[i]) /\ s[i].id[1] = "job" /\ s[i].id[3] = a /\ s[i].id = <<"job", j, a>>
    BY <1>1
  <2>2. IsJobEvent(s[i])
    BY <2>1, OwnIds
  <2>3. PICK b : s[i].id = <<"job", s[i].job, b>>
    BY <2>2 DEF IsJobEvent
  <2>4. s[i].job = j
    BY <2>1, <2>3
  <2> QED
    BY <2>1, <2>4 DEF OwnIn
<1> HIDE DEF a
<1>4. ASSUME \A i \in OwnIn(s, j) : s[i].id[3] < a /\ s[i].updated <= work.updated
      PROVE  TellsOf(t, j, work) /\ OwnOrder(t, j, work.created)
  <2>1. \A i \in DOMAIN s : s[i].id # e.id
    BY <1>1, <1>2, <1>3, <1>4
  <2>2. Lengthens(s, t, e)
    BY <2>1 DEF Put, Replaces
  <2>3. PICK l : l = Len(s) + 1
    OBVIOUS
  <2>4. /\ t[l] = e /\ l \notin DOMAIN s /\ l \in DOMAIN t /\ \A i \in DOMAIN s : t[i] = s[i] /\ i < l
        /\ \A i \in DOMAIN t : i \in DOMAIN s \/ i = l
        /\ \A i \in DOMAIN s : i \in DOMAIN t
    BY <1>1, <2>2, <2>3 DEF Lengthens
  <2>5. OwnIn(t, j) = OwnIn(s, j) \cup {l}
    BY <1>1, <2>4 DEF OwnIn
  <2>6. /\ \A i \in OwnIn(s, j) : i < l /\ i <= l /\ ~(l < i) /\ t[i] = s[i]
        /\ l <= l /\ ~(l < l) /\ l \in Nat
    <3>1. \A i \in OwnIn(s, j) : i \in DOMAIN s
      BY DEF OwnIn
    <3> QED
      BY <1>1, <2>3, <2>4, <3>1
  <2>7. TellsOf(t, j, work)
    <3>1. IsLast(t, j, l)
      BY <2>5, <2>6 DEF IsLast
    <3> QED
      BY <1>1, <2>4, <2>5, <3>1 DEF TellsOf, a
  <2>8. \A i \in OwnIn(t, j) : t[i].created = work.created
    BY <2>4, <2>5, <2>6 DEF OwnOrder
  <2>9. \A i, k \in OwnIn(t, j) : i < k => t[i].id[3] < t[k].id[3] /\ t[i].updated <= t[k].updated
    <3> SUFFICES ASSUME NEW i \in OwnIn(t, j), NEW k \in OwnIn(t, j), i < k
                 PROVE  t[i].id[3] < t[k].id[3] /\ t[i].updated <= t[k].updated
      OBVIOUS
    <3>1. i # l
      BY <2>5, <2>6
    <3>2. i \in OwnIn(s, j) /\ t[i] = s[i]
      BY <2>5, <2>6, <3>1
    <3>3. CASE k = l
      BY <1>1, <1>4, <2>4, <3>2, <3>3
    <3>4. CASE k # l
      <4>1. k \in OwnIn(s, j) /\ t[k] = s[k]
        BY <2>5, <2>6, <3>4
      <4> QED
        BY <3>2, <4>1 DEF OwnOrder
    <3> QED
      BY <3>3, <3>4
  <2> QED
    BY <2>7, <2>8, <2>9 DEF OwnOrder
<1>5. CASE OwnIn(s, j) = {}
  BY <1>4, <1>5
<1>6. ASSUME NEW i \in OwnIn(s, j), IsLast(s, j, i), Continues(s[i].id[3], s[i].status, work),
             s[i].updated <= work.updated
      PROVE  TellsOf(t, j, work) /\ OwnOrder(t, j, work.created)
  <2>1. /\ i \in DOMAIN s /\ s[i].id = <<"job", j, s[i].id[3]>> /\ s[i].id[3] \in Nat /\ s[i].updated \in Nat
        /\ s[i].created \in Nat /\ s[i].created = work.created
    BY <1>2 DEF OwnOrder
  <2>2. \A k \in OwnIn(s, j) : k # i => k < i /\ k \in Nat /\ i \in Nat
    <3>1. \A k \in OwnIn(s, j) : k <= i /\ k \in Nat
      BY <1>1, <1>2, <1>6 DEF IsLast
    <3> QED
      BY <3>1
  <2>3. \A k \in OwnIn(s, j) : k # i => s[k].id[3] < s[i].id[3] /\ s[k].updated <= s[i].updated
    BY <2>2 DEF OwnOrder
  <2>4. CASE a = s[i].id[3] + 1
    <3>1. \A k \in OwnIn(s, j) : s[k].id[3] < a /\ s[k].updated <= work.updated
      <4> SUFFICES ASSUME NEW k \in OwnIn(s, j) PROVE s[k].id[3] < a /\ s[k].updated <= work.updated
        OBVIOUS
      <4>1. s[k].id[3] \in Nat /\ s[k].updated \in Nat
        BY <1>2
      <4>2. k = i \/ (s[k].id[3] < s[i].id[3] /\ s[k].updated <= s[i].updated)
        BY <2>3
      <4> QED
        BY <1>1, <1>6, <2>1, <2>4, <4>1, <4>2
    <3> QED
      BY <1>4, <3>1
  <2>5. CASE a = s[i].id[3]
    <3>1. s[i].id = e.id
      BY <1>1, <2>1, <2>5
    <3>2. Replaces(s, t, i, e)
      <4>1. ~Lengthens(s, t, e)
        BY <2>1, <3>1 DEF Lengthens
      <4>2. PICK k \in DOMAIN s : Replaces(s, t, k, e)
        BY <4>1 DEF Put
      <4>3. s[k].id = s[i].id
        BY <3>1, <4>2 DEF Replaces
      <4> QED
        BY <2>1, <4>2, <4>3 DEF Distinct
    <3>3. DOMAIN t = DOMAIN s /\ t[i] = Stamped(s[i], e) /\ \A k \in DOMAIN s : k # i => t[k] = s[k]
      BY <3>2 DEF Replaces
    <3>4. /\ t[i].id = e.id /\ t[i].job = e.job /\ t[i].status = e.status /\ t[i].updated = e.updated
          /\ t[i].created = work.created
      BY <1>1, <2>1, <3>3, StampedFacts
    <3>5. OwnIn(t, j) = OwnIn(s, j)
      BY <1>1, <3>1, <3>3, <3>4 DEF OwnIn
    <3>6. TellsOf(t, j, work)
      <4>1. IsLast(t, j, i)
        BY <1>6, <3>5 DEF IsLast
      <4> QED
        BY <1>1, <3>4, <3>5, <4>1 DEF TellsOf, a
    <3>7. \A k \in OwnIn(s, j) : k \in DOMAIN s
      BY DEF OwnIn
    <3>8. \A k \in OwnIn(t, j) : t[k].created = work.created
      BY <3>3, <3>4, <3>5, <3>7 DEF OwnOrder
    <3>9. \A k, l \in OwnIn(t, j) : k < l => t[k].id[3] < t[l].id[3] /\ t[k].updated <= t[l].updated
      <4> SUFFICES ASSUME NEW k \in OwnIn(s, j), NEW l \in OwnIn(s, j), k < l
                   PROVE  t[k].id[3] < t[l].id[3] /\ t[k].updated <= t[l].updated
        BY <3>5
      <4>1. k # i /\ t[k] = s[k] /\ s[k].updated \in Nat
        <5>1. k \in Nat /\ l \in Nat /\ l <= i
          BY <1>1, <1>6, <3>7 DEF IsLast
        <5>2. k # i
          BY <5>1
        <5> QED
          BY <1>2, <3>3, <3>7, <5>2
      <4>2. CASE l = i
        <5>1. s[k].id[3] < s[i].id[3] /\ s[k].updated <= s[i].updated
          BY <2>3, <4>1
        <5> QED
          BY <1>1, <1>6, <2>1, <2>5, <3>4, <4>1, <4>2, <5>1
      <4>3. CASE l # i
        <5>1. t[l] = s[l]
          BY <3>3, <3>7, <4>3
        <5> QED
          BY <4>1, <5>1 DEF OwnOrder
      <4> QED
        BY <4>2, <4>3
    <3> QED
      BY <3>6, <3>8, <3>9 DEF OwnOrder
  <2> QED
    BY <1>6, <2>4, <2>5 DEF Continues, a
<1> QED
  BY <1>5, <1>6 DEF Precedes

----------------------------------------------------------------------------
\* The channel: notices are taken from its head and put at its end.
LEMMA RestOf ==
  ASSUME NEW n \in Seq(Notices), n # <<>>, NEW j
  PROVE  /\ Tail(n) \in Seq(Notices) /\ Len(Tail(n)) = Len(n) - 1 /\ 1 \in DOMAIN n /\ Head(n) = n[1]
         /\ \A a \in DOMAIN Tail(n) : a \in Nat /\ a + 1 \in DOMAIN n /\ a + 1 # 1 /\ Tail(n)[a] = n[a + 1]
         /\ \A a \in OfJob(Tail(n), j) : a \in Nat /\ a + 1 \in OfJob(n, j) /\ Tail(n)[a] = n[a + 1]
         /\ \A b \in OfJob(n, j) : b \in Nat /\ 1 <= b /\ (b # 1 => b - 1 \in OfJob(Tail(n), j))
<1> DEFINE m == Tail(n)
<1>1. Len(n) \in Nat /\ Len(n) # 0 /\ DOMAIN n = 1 .. Len(n)
  BY EmptySeq
<1>2. m \in Seq(Notices) /\ Len(m) = Len(n) - 1 /\ \A a \in 1 .. Len(n) - 1 : m[a] = n[a + 1]
  BY <1>1, HeadTailProperties
<1> HIDE DEF m
<1>3. DOMAIN m = 1 .. Len(n) - 1
  BY <1>1, <1>2
<1>4. \A a \in DOMAIN m : a \in Nat /\ a + 1 \in DOMAIN n /\ a + 1 # 1 /\ m[a] = n[a + 1]
  BY <1>1, <1>2, <1>3
<1>5. \A a \in OfJob(m, j) : a \in Nat /\ a + 1 \in OfJob(n, j) /\ m[a] = n[a + 1]
  BY <1>4 DEF OfJob
<1>6. ASSUME NEW b \in OfJob(n, j) PROVE b \in Nat /\ 1 <= b /\ (b # 1 => b - 1 \in OfJob(m, j))
  <2>1. b \in 1 .. Len(n) /\ n[b].job = j
    BY <1>1 DEF OfJob
  <2>2. ASSUME b # 1 PROVE b - 1 \in OfJob(m, j)
    <3>1. b - 1 \in 1 .. Len(n) - 1 /\ (b - 1) + 1 = b
      BY <1>1, <2>1, <2>2
    <3>2. b - 1 \in DOMAIN m /\ m[b - 1] = n[b]
      BY <1>2, <1>3, <3>1
    <3> QED
      BY <2>1, <3>2 DEF OfJob
  <2> QED
    BY <1>1, <2>1, <2>2
<1>7. 1 \in DOMAIN n /\ Head(n) = n[1]
  BY <1>1
<1> QED
  BY <1>2, <1>4, <1>5, <1>6, <1>7 DEF m

\* Taking the notice of another job loses nothing of this one.
LEMMA TailOfOther ==
  ASSUME NEW n \in Seq(Notices), n # <<>>, NEW j, Head(n).job # j, NEW t, NEW work, ToldBy(n, t, j, work)
  PROVE  ToldBy(Tail(n), t, j, work)
<1>1. PICK m : m = Tail(n)
  OBVIOUS
<1>2. /\ \A a \in OfJob(m, j) : a \in Nat /\ a + 1 \in OfJob(n, j) /\ m[a] = n[a + 1]
      /\ \A b \in OfJob(n, j) : b \in Nat /\ b - 1 \in OfJob(m, j)
  <2>1. /\ \A a \in OfJob(m, j) : a \in Nat /\ a + 1 \in OfJob(n, j) /\ m[a] = n[a + 1]
        /\ \A b \in OfJob(n, j) : b \in Nat /\ (b # 1 => b - 1 \in OfJob(m, j))
        /\ Head(n) = n[1]
    BY <1>1, RestOf
  <2>2. \A b \in OfJob(n, j) : b # 1
    BY <2>1 DEF OfJob
  <2> QED
    BY <2>1, <2>2
<1>3. OfJob(m, j) = {} => TellsOf(t, j, work)
  BY <1>2 DEF ToldBy
<1>4. ASSUME NEW a \in OfJob(m, j)
      PROVE  /\ (\A b \in OfJob(m, j) : a <= b) => Precedes(t, j, m[a].as)
             /\ (\A b \in OfJob(m, j) : b <= a) => m[a].as = work
             /\ \A b \in OfJob(m, j) : a < b /\ (\A c \in OfJob(m, j) : c <= a \/ b <= c) => Moved(m[a].as, m[b].as)
  <2>1. a \in Nat /\ a + 1 \in OfJob(n, j) /\ m[a] = n[a + 1]
    BY <1>2
  <2>2. ASSUME \A b \in OfJob(m, j) : a <= b PROVE Precedes(t, j, m[a].as)
    <3>1. \A b \in OfJob(n, j) : a + 1 <= b
      <4> SUFFICES ASSUME NEW b \in OfJob(n, j) PROVE a + 1 <= b
        OBVIOUS
      <4>1. b \in Nat /\ a <= b - 1
        BY <1>2, <2>2
      <4> QED
        BY <2>1, <4>1
    <3> QED
      BY <2>1, <3>1 DEF ToldBy
  <2>3. ASSUME \A b \in OfJob(m, j) : b <= a PROVE m[a].as = work
    <3>1. \A b \in OfJob(n, j) : b <= a + 1
      <4> SUFFICES ASSUME NEW b \in OfJob(n, j) PROVE b <= a + 1
        OBVIOUS
      <4>1. b \in Nat /\ b - 1 <= a
        BY <1>2, <2>3
      <4> QED
        BY <2>1, <4>1
    <3> QED
      BY <2>1, <3>1 DEF ToldBy
  <2>4. ASSUME NEW b \in OfJob(m, j), a < b, \A c \in OfJob(m, j) : c <= a \/ b <= c
        PROVE  Moved(m[a].as, m[b].as)
    <3>1. b \in Nat /\ b + 1 \in OfJob(n, j) /\ m[b] = n[b + 1]
      BY <1>2
    <3>2. \A c \in OfJob(n, j) : c <= a + 1 \/ b + 1 <= c
      <4> SUFFICES ASSUME NEW c \in OfJob(n, j) PROVE c <= a + 1 \/ b + 1 <= c
        OBVIOUS
      <4>1. c \in Nat /\ (c - 1 <= a \/ b <= c - 1)
        BY <1>2, <2>4
      <4> QED
        BY <2>1, <3>1, <4>1
    <3>3. a + 1 < b + 1
      BY <2>1, <2>4, <3>1
    <3>4. Moved(n[a + 1].as, n[b + 1].as)
      BY <2>1, <3>1, <3>2, <3>3 DEF ToldBy
    <3> QED
      BY <2>1, <3>1, <3>4
  <2> QED
    BY <2>2, <2>3, <2>4
<1>5. ToldBy(m, t, j, work)
  BY <1>3, <1>4 DEF ToldBy
<1> QED
  BY <1>1, <1>5

\* What the head announced stands in the timeline now.
LEMMA TailOfOwn ==
  ASSUME NEW n \in Seq(Notices), n # <<>>, NEW j, Head(n).job = j, NEW t, NEW work, ToldBy(n, t, j, work),
         NEW u, TellsOf(u, j, Head(n).as)
  PROVE  ToldBy(Tail(n), u, j, work)
<1>1. PICK m : m = Tail(n)
  OBVIOUS
<1>2. /\ \A a \in OfJob(m, j) : a \in Nat /\ a + 1 \in OfJob(n, j) /\ m[a] = n[a + 1]
      /\ \A b \in OfJob(n, j) : b \in Nat /\ 1 <= b /\ (b # 1 => b - 1 \in OfJob(m, j))
      /\ Head(n) = n[1] /\ 1 \in DOMAIN n
  BY <1>1, RestOf
<1>3. 1 \in OfJob(n, j) /\ TellsOf(u, j, n[1].as)
  BY <1>2 DEF OfJob
<1>4. ASSUME OfJob(m, j) = {} PROVE TellsOf(u, j, work)
  <2>1. \A b \in OfJob(n, j) : b <= 1
    BY <1>2, <1>4
  <2>2. n[1].as = work
    BY <1>3, <2>1 DEF ToldBy
  <2> QED
    BY <1>3, <2>2
<1>5. ASSUME NEW a \in OfJob(m, j)
      PROVE  /\ (\A b \in OfJob(m, j) : a <= b) => Precedes(u, j, m[a].as)
             /\ (\A b \in OfJob(m, j) : b <= a) => m[a].as = work
             /\ \A b \in OfJob(m, j) : a < b /\ (\A c \in OfJob(m, j) : c <= a \/ b <= c) => Moved(m[a].as, m[b].as)
  <2>1. a \in Nat /\ a + 1 \in OfJob(n, j) /\ m[a] = n[a + 1] /\ 1 <= a
    <3>1. a \in DOMAIN m /\ m \in Seq(Notices)
      BY <1>1, RestOf DEF OfJob
    <3>2. 1 <= a
      BY <3>1
    <3> QED
      BY <1>2, <3>2
  <2>2. ASSUME \A b \in OfJob(m, j) : a <= b PROVE Precedes(u, j, m[a].as)
    <3>1. \A c \in OfJob(n, j) : c <= 1 \/ a + 1 <= c
      <4> SUFFICES ASSUME NEW c \in OfJob(n, j), c # 1 PROVE a + 1 <= c
        BY <1>2
      <4>1. c \in Nat /\ a <= c - 1
        BY <1>2, <2>2
      <4> QED
        BY <2>1, <4>1
    <3>2. 1 < a + 1
      BY <2>1
    <3>3. Moved(n[1].as, n[a + 1].as)
      BY <1>3, <2>1, <3>1, <3>2 DEF ToldBy
    <3>4. Moved(n[1].as, m[a].as)
      BY <2>1, <3>3
    <3>5. PICK i \in OwnIn(u, j) : /\ IsLast(u, j, i) /\ u[i].id[3] = n[1].as.attempt
                                  /\ u[i].status = job_status(n[1].as.status) /\ u[i].updated = n[1].as.updated
      BY <1>3 DEF TellsOf
    <3> QED
      BY <3>4, <3>5 DEF Precedes, Moved
  <2>3. ASSUME \A b \in OfJob(m, j) : b <= a PROVE m[a].as = work
    <3>1. \A b \in OfJob(n, j) : b <= a + 1
      <4> SUFFICES ASSUME NEW b \in OfJob(n, j) PROVE b <= a + 1
        OBVIOUS
      <4>1. b \in Nat /\ (b = 1 \/ b - 1 <= a)
        BY <1>2, <2>3
      <4> QED
        BY <2>1, <4>1
    <3> QED
      BY <2>1, <3>1 DEF ToldBy
  <2>4. ASSUME NEW b \in OfJob(m, j), a < b, \A c \in OfJob(m, j) : c <= a \/ b <= c
        PROVE  Moved(m[a].as, m[b].as)
    <3>1. b \in Nat /\ b + 1 \in OfJob(n, j) /\ m[b] = n[b + 1]
      BY <1>2
    <3>2. \A c \in OfJob(n, j) : c <= a + 1 \/ b + 1 <= c
      <4> SUFFICES ASSUME NEW c \in OfJob(n, j) PROVE c <= a + 1 \/ b + 1 <= c
        OBVIOUS
      <4>1. c \in Nat /\ (c = 1 \/ c - 1 <= a \/ b <= c - 1)
        BY <1>2, <2>4
      <4> QED
        BY <2>1, <3>1, <4>1
    <3>3. a + 1 < b + 1
      BY <2>1, <2>4, <3>1
    <3>4. Moved(n[a + 1].as, n[b + 1].as)
      BY <2>1, <3>1, <3>2, <3>3 DEF ToldBy
    <3> QED
      BY <2>1, <3>1, <3>4
  <2> QED
    BY <2>2, <2>3, <2>4
<1>6. ToldBy(m, u, j, work)
  BY <1>4, <1>5 DEF ToldBy
<1> QED
  BY <1>1, <1>6

\* The channel with one more notice.
LEMMA OneMore ==
  ASSUME NEW n \in Seq(Notices), NEW o \in Notices
  PROVE  /\ Append(n, o) \in Seq(Notices) /\ Len(Append(n, o)) = Len(n) + 1
         /\ \E l \in Nat : /\ l \notin DOMAIN n /\ DOMAIN Append(n, o) = DOMAIN n \cup {l} /\ Append(n, o)[l] = o
                         /\ \A a \in DOMAIN n : a \in Nat /\ a < l /\ Append(n, o)[a] = n[a]
<1>1. PICK l \in Nat : l = Len(n) + 1
  OBVIOUS
<1>2. DOMAIN n = 1 .. Len(n) /\ DOMAIN Append(n, o) = 1 .. Len(n) + 1 /\ Len(n) \in Nat
  OBVIOUS
<1> QED
  BY <1>1, <1>2

\* A notice of another job at the end changes nothing for this one.
LEMMA AppendOther ==
  ASSUME NEW n \in Seq(Notices), NEW o \in Notices, NEW j, o.job # j, NEW t, NEW work, ToldBy(n, t, j, work)
  PROVE  ToldBy(Append(n, o), t, j, work)
<1>1. PICK m : m = Append(n, o)
  OBVIOUS
<1>2. PICK l \in Nat : /\ l \notin DOMAIN n /\ DOMAIN m = DOMAIN n \cup {l} /\ m[l] = o
                      /\ \A a \in DOMAIN n : a \in Nat /\ a < l /\ m[a] = n[a]
  BY <1>1, OneMore
<1>3. OfJob(m, j) = OfJob(n, j) /\ \A a \in OfJob(n, j) : m[a] = n[a]
  BY <1>2 DEF OfJob
<1>4. ToldBy(m, t, j, work)
  BY <1>3 DEF ToldBy
<1> QED
  BY <1>1, <1>4

\* A job moves on, or is new: the notice of it is the last one.
LEMMA AppendOwn ==
  ASSUME NEW n \in Seq(Notices), NEW o \in Notices, NEW t, NEW work,
         \/ ToldBy(n, t, o.job, work) /\ Moved(work, o.as)
         \/ OfJob(n, o.job) = {} /\ OwnIn(t, o.job) = {}
  PROVE  ToldBy(Append(n, o), t, o.job, o.as)
<1>1. PICK m, j : m = Append(n, o) /\ j = o.job
  OBVIOUS
<1>2. PICK l \in Nat : /\ l \notin DOMAIN n /\ DOMAIN m = DOMAIN n \cup {l} /\ m[l] = o
                      /\ \A a \in DOMAIN n : a \in Nat /\ a < l /\ m[a] = n[a]
  BY <1>1, OneMore
<1>3. /\ OfJob(m, j) = OfJob(n, j) \cup {l} /\ l \notin OfJob(n, j)
      /\ \A a \in OfJob(n, j) : a \in Nat /\ a < l /\ ~(l <= a) /\ m[a] = n[a]
  BY <1>1, <1>2 DEF OfJob
<1>4. CASE ToldBy(n, t, j, work) /\ Moved(work, o.as)
  <2>1. ASSUME NEW a \in OfJob(m, j), \A b \in OfJob(m, j) : a <= b PROVE Precedes(t, j, m[a].as)
    <3>1. CASE a \in OfJob(n, j)
      BY <1>3, <1>4, <2>1, <3>1 DEF ToldBy
    <3>2. CASE a = l
      <4>1. OfJob(n, j) = {}
        BY <1>3, <2>1, <3>2
      <4>2. TellsOf(t, j, work)
        BY <1>4, <4>1 DEF ToldBy
      <4>3. PICK i \in OwnIn(t, j) : /\ IsLast(t, j, i) /\ t[i].id[3] = work.attempt
                                    /\ t[i].status = job_status(work.status) /\ t[i].updated = work.updated
        BY <4>2 DEF TellsOf
      <4> QED
        BY <1>2, <1>4, <3>2, <4>3 DEF Precedes, Moved
    <3> QED
      BY <1>3, <3>1, <3>2
  <2>2. ASSUME NEW a \in OfJob(m, j), \A b \in OfJob(m, j) : b <= a PROVE m[a].as = o.as
    BY <1>2, <1>3, <2>2
  <2>3. ASSUME NEW a \in OfJob(m, j), NEW b \in OfJob(m, j), a < b, \A c \in OfJob(m, j) : c <= a \/ b <= c
        PROVE  Moved(m[a].as, m[b].as)
    <3>1. a \in OfJob(n, j)
      <4>1. a # l
        BY <1>2, <1>3, <2>3
      <4> QED
        BY <1>3, <4>1
    <3>2. CASE b = l
      <4>1. \A c \in OfJob(n, j) : c <= a
        BY <1>3, <2>3, <3>2
      <4>2. n[a].as = work
        BY <1>4, <3>1, <4>1 DEF ToldBy
      <4> QED
        BY <1>2, <1>3, <1>4, <3>1, <3>2, <4>2
    <3>3. CASE b \in OfJob(n, j)
      <4>1. \A c \in OfJob(n, j) : c <= a \/ b <= c
        BY <1>3, <2>3
      <4>2. Moved(n[a].as, n[b].as)
        BY <1>4, <2>3, <3>1, <3>3, <4>1 DEF ToldBy
      <4> QED
        BY <1>3, <3>1, <3>3, <4>2
    <3> QED
      BY <1>3, <3>2, <3>3
  <2>4. OfJob(m, j) # {}
    BY <1>3
  <2>5. ToldBy(m, t, j, o.as)
    BY <2>1, <2>2, <2>3, <2>4 DEF ToldBy
  <2> QED
    BY <1>1, <2>5
<1>5. CASE OfJob(n, j) = {} /\ OwnIn(t, j) = {}
  <2>1. OfJob(m, j) = {l} /\ m[l].as = o.as /\ ~(l < l)
    BY <1>2, <1>3, <1>5
  <2>2. \A w : Precedes(t, j, w)
    BY <1>5 DEF Precedes
  <2>3. ToldBy(m, t, j, o.as)
    BY <2>1, <2>2 DEF ToldBy
  <2> QED
    BY <1>1, <2>3
<1> QED
  BY <1>1, <1>4, <1>5

----------------------------------------------------------------------------
\* The steps.
LEMMA FormStays ==
  ASSUME shared' = shared, clock \in Nat, clock' \in Nat, clock <= clock', DOMAIN chain \subseteq DOMAIN chain'
  PROVE  /\ \A e : WellFormed(e) => WellFormed(e)'
         /\ \A t : RecordTypes(t) => RecordTypes(t)'
         /\ \A q : Asking(q) => Asking(q)'
<1>1. ASSUME NEW e, WellFormed(e) PROVE WellFormed(e)'
  <2>1. IsRecord(e)' /\ e.job \in DOMAIN chain'
    BY <1>1 DEF WellFormed, IsRecord
  <2>2. e.created \in Nat /\ e.updated \in Nat /\ e.created <= clock' /\ e.updated <= clock'
    BY <1>1 DEF WellFormed
  <2>3. IsJobEvent(e)' \/ IsStageEvent(e)' \/ IsRetryEvent(e)'
    BY <1>1 DEF WellFormed, IsJobEvent, IsStageEvent, IsRetryEvent, Correlation
  <2> QED
    BY <2>1, <2>2, <2>3 DEF WellFormed
<1>2. \A t : RecordTypes(t) => RecordTypes(t)'
  BY <1>1 DEF RecordTypes, IsList
<1>3. \A q : Asking(q) => Asking(q)'
  BY <1>1 DEF Asking, IsRetryEvent
<1> QED
  BY <1>1, <1>2, <1>3

\* The jobs are works of this chain.
LEMMA ChainFacts ==
  ASSUME ChainTypes
  PROVE  /\ DOMAIN chain = 1 .. Len(chain) /\ Len(chain) \in Nat
         /\ \A j \in DOMAIN chain : chain[j] \in Work /\ j \in Nat
BY DEF ChainTypes

\* A job is changed or created, and a notice of it published or lost.
LEMMA PublishKeeps ==
  ASSUME TimelineInv, NEW j, chain' \in Seq(Work), DOMAIN chain \subseteq DOMAIN chain', j \in DOMAIN chain',
         \A x \in DOMAIN chain' : x # j => x \in DOMAIN chain /\ chain'[x] = chain[x],
         chain'[j].updated <= clock, chain'[j].created <= clock,
         j \in DOMAIN chain => chain'[j].created = chain[j].created,
         NEW over \in {{}, {j}}, j \in DOMAIN chain => Moved(chain[j], chain'[j]) \/ over = {j},
         Publish(chain', j, over), UNCHANGED <<shared, timeline, clock>>,
         DOMAIN request' = Retries, (\A r \in Retries : Asking(request[r]))'
  PROVE  TimelineInv'
<1>1. /\ ChainTypes /\ notices \in Seq(Notices) /\ \A a \in DOMAIN notices : Announces(notices[a])
      /\ RecordTypes(timeline) /\ NoticeCapacity \in Nat \ {0}
  BY AutomationAssumption DEF TimelineInv, TimelineTypes
<1>2. PICK o : o = [job |-> j, as |-> chain'[j]]
  OBVIOUS
<1>3. o \in Notices /\ o.job = j /\ o.as = chain'[j] /\ chain'[j] \in Work
  <2>1. DOMAIN chain' = 1 .. Len(chain') /\ chain'[j] \in Work /\ j \in Nat
    OBVIOUS
  <2> QED
    BY <1>2, <2>1 DEF Notices
<1>4. ChainTypes'
  <2>1. clock' \in Nat /\ shared' \in BOOLEAN
    BY <1>1 DEF ChainTypes
  <2>2. \A x \in DOMAIN chain' : chain'[x].updated <= clock /\ chain'[x].created <= clock
    BY <1>1 DEF ChainTypes
  <2> QED
    BY <2>1, <2>2 DEF ChainTypes
<1>5. RecordTypes(timeline)'
  <2>1. clock \in Nat /\ clock' \in Nat /\ clock <= clock'
    BY <1>1 DEF ChainTypes
  <2>2. RecordTypes(timeline)
    BY <1>1
  <2>3. \A t : RecordTypes(t) => RecordTypes(t)'
    BY <2>1, FormStays
  <2>4. PICK t : t = timeline
    OBVIOUS
  <2>5. RecordTypes(t)' /\ t = timeline'
    BY <2>2, <2>3, <2>4
  <2> QED
    BY <2>5
<1>6. \A n \in Notices : Announces(n) => Announces(n)'
  <2> SUFFICES ASSUME NEW n \in Notices, Announces(n) PROVE Announces(n)'
    OBVIOUS
  <2>1. n.job \in DOMAIN chain /\ n.as.created = chain[n.job].created /\ n.as.updated <= clock
    BY DEF Announces
  <2>2. chain'[n.job].created = chain[n.job].created /\ n.job \in DOMAIN chain'
    BY <2>1
  <2> QED
    BY <2>1, <2>2 DEF Announces
<1>7. Announces(o)'
  BY <1>3 DEF Announces
<1>8. \/ ~listens /\ notices' = notices /\ missed' = missed \cup {j}
      \/ notices' = Append(notices, o) /\ missed' = missed \cup over
      \/ notices # <<>> /\ notices' = Append(Tail(notices), o) /\ missed' = missed \cup over \cup {Head(notices).job}
  <2>1. CASE ~listens
    BY <2>1 DEF Publish
  <2>2. CASE listens /\ Len(notices) < NoticeCapacity
    BY <1>2, <2>2 DEF Publish
  <2>3. CASE listens /\ ~(Len(notices) < NoticeCapacity)
    <3>1. notices # <<>>
      BY <1>1, <2>3
    <3> QED
      BY <1>2, <2>3, <3>1 DEF Publish
  <2> QED
    BY <2>1, <2>2, <2>3
<1>9. notices' \in Seq(Notices) /\ (\A a \in DOMAIN notices : Announces(notices[a]))'
  <2> DEFINE G == {n \in Notices : Announces(n)'}
  <2>0. o \in G /\ \A a \in DOMAIN notices : notices[a] \in G
    <3>1. \A a \in DOMAIN notices : notices[a] \in Notices
      BY <1>1
    <3> QED
      BY <1>1, <1>3, <1>6, <1>7, <3>1
  <2> HIDE DEF G
  <2>1. notices' \in Seq(Notices) /\ \A a \in DOMAIN notices' : notices'[a] \in G
    <3>1. CASE notices' = notices
      BY <1>1, <2>0, <3>1
    <3>2. CASE notices' = Append(notices, o)
      <4>1. notices' \in Seq(Notices) /\ \E l \in Nat :
              /\ DOMAIN notices' = DOMAIN notices \cup {l} /\ notices'[l] = o
              /\ \A a \in DOMAIN notices : notices'[a] = notices[a]
        BY <1>1, <1>3, <3>2, OneMore
      <4> QED
        BY <2>0, <4>1
    <3>3. CASE notices # <<>> /\ notices' = Append(Tail(notices), o)
      <4>1. /\ Tail(notices) \in Seq(Notices)
            /\ \A a \in DOMAIN Tail(notices) : a + 1 \in DOMAIN notices /\ Tail(notices)[a] = notices[a + 1]
        BY <1>1, <3>3, RestOf
      <4>2. PICK m : m = Tail(notices)
        OBVIOUS
      <4>3. notices' \in Seq(Notices) /\ \E l \in Nat :
              /\ DOMAIN notices' = DOMAIN m \cup {l} /\ notices'[l] = o
              /\ \A a \in DOMAIN m : notices'[a] = m[a]
        BY <1>3, <3>3, <4>1, <4>2, OneMore
      <4> QED
        BY <2>0, <4>1, <4>2, <4>3
    <3> QED
      BY <1>8, <3>1, <3>2, <3>3
  <2>2. ASSUME NEW a \in DOMAIN notices' PROVE Announces(notices[a])'
    <3>1. PICK n \in G : n = notices'[a]
      BY <2>1
    <3>2. Announces(n)'
      BY DEF G
    <3> QED
      BY <3>1, <3>2 DEF Announces
  <2> QED
    BY <2>1, <2>2
<1>10. TimelineTypes'
  BY <1>4, <1>5, <1>9 DEF TimelineTypes
<1>11. ASSUME Len(timeline) < MaxEvents, NEW x \in DOMAIN chain', x \notin missed'
       PROVE  OwnOrder(timeline, x, chain'[x].created) /\ ToldBy(notices', timeline, x, chain'[x])
  <2>1. x \notin missed
    BY <1>8, <1>11
  <2>2. CASE x # j
    <3>1. /\ x \in DOMAIN chain /\ chain'[x] = chain[x]
          /\ OwnOrder(timeline, x, chain[x].created) /\ ToldBy(notices, timeline, x, chain[x])
      BY <1>11, <2>1, <2>2 DEF TimelineInv, Told
    <3>2. CASE notices' = notices
      BY <3>1, <3>2
    <3>3. CASE notices' = Append(notices, o)
      <4>1. ToldBy(Append(notices, o), timeline, x, chain[x])
        BY <1>1, <1>3, <2>2, <3>1, AppendOther
      <4> QED
        BY <3>1, <3>3, <4>1
    <3>4. CASE notices # <<>> /\ notices' = Append(Tail(notices), o) /\ missed' = missed \cup over \cup {Head(notices).job}
      <4>1. Head(notices).job # x
        BY <1>11, <3>4
      <4>2. PICK m : m = Tail(notices)
        OBVIOUS
      <4>3. ToldBy(m, timeline, x, chain[x]) /\ m \in Seq(Notices)
        BY <1>1, <3>1, <3>4, <4>1, <4>2, TailOfOther, RestOf
      <4>4. ToldBy(Append(m, o), timeline, x, chain[x])
        BY <1>3, <2>2, <4>3, AppendOther
      <4> QED
        BY <3>1, <3>4, <4>2, <4>4
    <3> QED
      BY <1>8, <3>2, <3>3, <3>4
  <2>3. CASE x = j /\ j \in DOMAIN chain
    <3>0. over # {j}
      BY <1>8, <1>11, <2>3
    <3>1. /\ OwnOrder(timeline, j, chain[j].created) /\ ToldBy(notices, timeline, j, chain[j])
          /\ chain'[j].created = chain[j].created /\ Moved(chain[j], o.as)
      BY <1>3, <1>11, <2>1, <2>3, <3>0 DEF TimelineInv, Told
    <3>2. PICK w : w = chain[j]
      OBVIOUS
    <3>3. CASE notices' = Append(notices, o)
      <4>1. notices \in Seq(Notices) /\ o \in Notices /\ ToldBy(notices, timeline, o.job, w) /\ Moved(w, o.as)
        BY <1>1, <1>3, <3>1, <3>2
      <4>2. ToldBy(Append(notices, o), timeline, o.job, o.as)
        BY <4>1, AppendOwn
      <4> QED
        BY <1>3, <2>3, <3>1, <3>3, <4>2
    <3>4. CASE notices # <<>> /\ notices' = Append(Tail(notices), o) /\ missed' = missed \cup over \cup {Head(notices).job}
      <4>1. Head(notices).job # j
        BY <1>11, <2>3, <3>4
      <4>2. PICK m : m = Tail(notices)
        OBVIOUS
      <4>3. ToldBy(m, timeline, j, w) /\ m \in Seq(Notices)
        BY <1>1, <3>1, <3>2, <3>4, <4>1, <4>2, TailOfOther, RestOf
      <4>4. m \in Seq(Notices) /\ o \in Notices /\ ToldBy(m, timeline, o.job, w) /\ Moved(w, o.as)
        BY <1>3, <3>1, <3>2, <4>3
      <4>5. ToldBy(Append(m, o), timeline, o.job, o.as)
        BY <4>4, AppendOwn
      <4> QED
        BY <1>3, <2>3, <3>1, <3>4, <4>2, <4>5
    <3> QED
      BY <1>8, <1>11, <2>3, <3>3, <3>4
  <2>4. CASE x = j /\ j \notin DOMAIN chain
    <3>1. OwnIn(timeline, j) = {}
      BY <1>1, <2>4 DEF RecordTypes, WellFormed, OwnIn
    <3>2. OfJob(notices, j) = {}
      BY <1>1, <2>4 DEF Announces, OfJob
    <3>3. OwnOrder(timeline, j, chain'[j].created)
      BY <3>1 DEF OwnOrder
    <3>4. CASE notices' = Append(notices, o)
      <4>1. notices \in Seq(Notices) /\ o \in Notices /\ OfJob(notices, o.job) = {} /\ OwnIn(timeline, o.job) = {}
        BY <1>1, <1>3, <3>1, <3>2
      <4>2. ToldBy(Append(notices, o), timeline, o.job, o.as)
        BY <4>1, AppendOwn
      <4> QED
        BY <1>3, <2>4, <3>3, <3>4, <4>2
    <3>5. CASE notices # <<>> /\ notices' = Append(Tail(notices), o)
      <4>1. PICK m : m = Tail(notices)
        OBVIOUS
      <4>2. m \in Seq(Notices) /\ \A a \in OfJob(m, j) : a + 1 \in OfJob(notices, j)
        BY <1>1, <3>5, <4>1, RestOf
      <4>3. m \in Seq(Notices) /\ o \in Notices /\ OfJob(m, o.job) = {} /\ OwnIn(timeline, o.job) = {}
        BY <1>3, <3>1, <3>2, <4>2
      <4>4. ToldBy(Append(m, o), timeline, o.job, o.as)
        BY <4>3, AppendOwn
      <4> QED
        BY <1>3, <2>4, <3>3, <3>5, <4>1, <4>4
    <3> QED
      BY <1>8, <1>11, <2>4, <3>4, <3>5
  <2> QED
    BY <2>2, <2>3, <2>4
<1>12. Len(timeline') < MaxEvents => Distinct(timeline') /\ Told'
  <2> SUFFICES ASSUME Len(timeline) < MaxEvents PROVE Distinct(timeline) /\ Told'
    OBVIOUS
  <2>1. Distinct(timeline)
    BY DEF TimelineInv
  <2>2. Told'
    BY <1>11 DEF Told
  <2> QED
    BY <2>1, <2>2
<1> QED
  BY <1>10, <1>12 DEF TimelineInv

\* The status of each event.
LEMMA JobStatusIs ==
  /\ job_status("queued") = "pending" /\ job_status("running") = "running"
  /\ job_status("succeeded") = "succeeded" /\ job_status("failed") = "failed"
  /\ job_status("canceled") = "canceled"
BY DEF job_status

\* The event of a notice, and the one of the stage that follows from it.
LEMMA ProjectedFacts ==
  ASSUME ChainTypes, NEW o \in Notices, Announces(o)
  PROVE  /\ WellFormed(Projected(o)) /\ IsJobEvent(Projected(o)) /\ Projected(o).job = o.job
         /\ Projected(o).id[1] = "job" /\ Projected(o).id[3] = o.as.attempt
         /\ Projected(o).status = job_status(o.as.status)
         /\ Projected(o).updated = o.as.updated /\ Projected(o).created = o.as.created
<1>1. PICK w : w = o.as
  OBVIOUS
<1>2. /\ w \in Work /\ o.job \in DOMAIN chain /\ w.status \in JobStates /\ w.attempt \in Nat
      /\ w.created \in Nat /\ w.updated \in Nat /\ w.created <= clock /\ w.updated <= clock
  BY <1>1 DEF Notices, Work, Announces, ChainTypes
<1>3. PICK e : e = Projected(o)
  OBVIOUS
<1>4. e = [id |-> <<"job", o.job, w.attempt>>, correlation |-> Correlation(o.job), stage |-> "transfer",
           status |-> job_status(w.status), attempt |-> 1, job |-> o.job, retry |-> 0,
           created |-> w.created, updated |-> w.updated]
  BY <1>1, <1>3 DEF Projected
<1>5. /\ e.id = <<"job", o.job, w.attempt>> /\ e.correlation = Correlation(o.job) /\ e.stage = "transfer"
      /\ e.status = job_status(w.status) /\ e.job = o.job /\ e.created = w.created /\ e.updated = w.updated
      /\ IsRecord(e)
  BY <1>4 DEF IsRecord
<1>6. e.id[1] = "job" /\ e.id[3] = w.attempt
  BY <1>5
<1>7. IsJobEvent(e)
  BY <1>2, <1>5, <1>6 DEF IsJobEvent
<1>8. WellFormed(e)
  BY <1>2, <1>5, <1>7 DEF WellFormed
<1> QED
  BY <1>1, <1>3, <1>5, <1>6, <1>7, <1>8

\* The event of the stage that follows from a transfer is well formed.
LEMMA StageFacts ==
  ASSUME ChainTypes, NEW o \in Notices, Announces(o),
         NEW f, f = [Projected(o) EXCEPT !.id = <<"stage", o.job>>, !.stage = "rename", !.created = o.as.updated]
  PROVE  WellFormed(f) /\ f.id[1] # "job"
<1>1. PICK e : e = Projected(o)
  OBVIOUS
<1>2. WellFormed(e) /\ e.job = o.job /\ e.updated = o.as.updated
  BY <1>1, ProjectedFacts
<1>3. IsRecord(e) /\ f = [e EXCEPT !.id = <<"stage", o.job>>, !.stage = "rename", !.created = e.updated]
  BY <1>1, <1>2 DEF WellFormed
<1>4. /\ f.id = <<"stage", o.job>> /\ f.stage = "rename" /\ f.created = e.updated /\ f.updated = e.updated
      /\ f.job = e.job /\ IsRecord(f)
  BY <1>3 DEF IsRecord
<1>5. WellFormed(f)
  BY <1>2, <1>4 DEF WellFormed, IsStageEvent
<1> QED
  BY <1>4, <1>5

\* What comes next in a job's events is a transition the store lets pass.
LEMMA NextPasses ==
  ASSUME IsList(timeline), \A i \in DOMAIN timeline : WellFormed(timeline[i]), Distinct(timeline),
         NEW e, IsJobEvent(e), NEW work \in Work, e.id[3] = work.attempt, e.status = job_status(work.status),
         e.id[1] = "job", NEW j, e.job = j, NEW c, OwnOrder(timeline, j, c), Precedes(timeline, j, work)
  PROVE  Upsertable(e)
<1>1. PICK i : i = Position(timeline, e.id)
  OBVIOUS
<1>2. i = 0 \/ (i \in DOMAIN timeline /\ i # 0 /\ timeline[i].id = e.id)
  BY <1>1, PositionFacts
<1>3. ASSUME i # 0 PROVE can_transition_to(timeline[i].status, e.status)
  <2>1. i \in DOMAIN timeline /\ timeline[i].id = e.id /\ WellFormed(timeline[i])
    BY <1>2, <1>3
  <2>2. IsJobEvent(timeline[i])
    BY <2>1, OwnIds
  <2>3. PICK a, b : e.id = <<"job", e.job, a>> /\ timeline[i].id = <<"job", timeline[i].job, b>>
    BY <2>2 DEF IsJobEvent
  <2>4. timeline[i].job = j /\ i \in OwnIn(timeline, j)
    BY <2>1, <2>3 DEF OwnIn
  <2>5. PICK l \in OwnIn(timeline, j) :
          IsLast(timeline, j, l) /\ Continues(timeline[l].id[3], timeline[l].status, work)
    BY <2>4 DEF Precedes
  <2>6. l \in DOMAIN timeline /\ timeline[l].id[1] = "job" /\ timeline[l].job = j
    BY DEF OwnIn
  <2>7. IsJobEvent(timeline[l])
    BY <2>6, OwnIds
  <2>8. timeline[l].id[3] \in Nat /\ timeline[i].id[3] = work.attempt /\ work.attempt \in Nat
    BY <2>1, <2>7 DEF IsJobEvent, Work
  <2>9. i = l
    <3>1. i <= l /\ i \in Nat /\ l \in Nat
      BY <2>1, <2>4, <2>5, <2>6, SeqFacts DEF IsLast
    <3>2. i < l => timeline[i].id[3] < timeline[l].id[3]
      BY <2>4 DEF OwnOrder
    <3>3. work.attempt = timeline[l].id[3] \/ work.attempt = timeline[l].id[3] + 1
      BY <2>5 DEF Continues
    <3> QED
      BY <2>8, <3>1, <3>2, <3>3
  <2>10. \/ timeline[i].status = "pending" /\ work.status \in {"running", "canceled"}
         \/ timeline[i].status = "running" /\ work.status \in {"succeeded", "failed", "canceled"}
         \/ timeline[i].status = "failed" /\ work.status = "failed"
    BY <2>5, <2>8, <2>9 DEF Continues
  <2> QED
    BY <2>10, JobStatusIs DEF can_transition_to
<1> QED
  BY <1>1, <1>3 DEF Upsertable

\* The next notice is taken, and its event and its stage put or refused.
LEMMA ProjectKeeps ==
  ASSUME TimelineInv, project_job
  PROVE  TimelineInv'
<1>1. /\ ChainTypes /\ notices \in Seq(Notices) /\ \A a \in DOMAIN notices : Announces(notices[a])
      /\ RecordTypes(timeline) /\ IsList(timeline) /\ clock \in Nat /\ notices # <<>>
      /\ \A i \in DOMAIN timeline : WellFormed(timeline[i])
      /\ UNCHANGED <<chain, shared, listens, clock, request, missed>> /\ notices' = Tail(notices)
  BY DEF TimelineInv, TimelineTypes, ChainTypes, RecordTypes, project_job
<1>2. PICK o, m : o = Head(notices) /\ m = Tail(notices)
  OBVIOUS
<1>3. o \in Notices /\ Announces(o)
  BY <1>1, <1>2
<1>4. /\ m \in Seq(Notices)
      /\ \A a \in DOMAIN m : a + 1 \in DOMAIN notices /\ m[a] = notices[a + 1]
  BY <1>1, <1>2, RestOf
<1>5. PICK e, f, j : /\ e = Projected(o) /\ j = o.job
                     /\ f = [Projected(o) EXCEPT !.id = <<"stage", o.job>>, !.stage = "rename", !.created = o.as.updated]
  OBVIOUS
<1>6. PICK u : u = upsert(e)
  OBVIOUS
<1>7. /\ WellFormed(e) /\ IsJobEvent(e) /\ e.job = j /\ e.id[1] = "job" /\ e.id[3] = o.as.attempt
      /\ e.status = job_status(o.as.status) /\ e.updated = o.as.updated /\ e.created = o.as.created
  BY <1>1, <1>3, <1>5, ProjectedFacts
<1>8. WellFormed(f) /\ f.id[1] # "job"
  BY <1>1, <1>3, <1>5, StageFacts
<1>9. \/ Upsertable(e) /\ (timeline' = u \/ timeline' = add(u, f))
      \/ ~Upsertable(e) /\ timeline' = timeline
  BY <1>2, <1>5, <1>6 DEF project_job, project_transfer_stages
<1>10. RecordTypes(u) /\ (Len(u) < MaxEvents => Put(timeline, u, e) /\ Len(timeline) < MaxEvents)
  BY <1>1, <1>6, <1>7, UpsertPuts
<1>11. /\ RecordTypes(add(u, f))
       /\ Len(add(u, f)) < MaxEvents => (add(u, f) = u \/ Put(u, add(u, f), f)) /\ Len(u) < MaxEvents
  BY <1>8, <1>10, AddPuts
<1>12. PICK t : t = timeline'
  OBVIOUS
<1>13. RecordTypes(t) /\ RecordTypes(t)'
  <2>1. RecordTypes(t)
    BY <1>1, <1>9, <1>10, <1>11, <1>12
  <2>2. \A s : RecordTypes(s) => RecordTypes(s)'
    BY <1>1, FormStays
  <2> QED
    BY <2>1, <2>2
<1>14. TimelineTypes'
  <2>1. ChainTypes' /\ DOMAIN request' = Retries
    BY <1>1 DEF TimelineInv, TimelineTypes, ChainTypes
  <2>2. (\A r \in Retries : Asking(request[r]))'
    BY <1>1 DEF TimelineInv, TimelineTypes, Asking, WellFormed, IsRetryEvent, IsJobEvent, IsStageEvent, Correlation, IsRecord
  <2>3. notices' \in Seq(Notices) /\ (\A a \in DOMAIN notices : Announces(notices[a]))'
    BY <1>1, <1>2, <1>4 DEF Announces
  <2>4. RecordTypes(timeline)'
    BY <1>12, <1>13
  <2> QED
    BY <2>1, <2>2, <2>3, <2>4 DEF TimelineTypes
<1>15. ASSUME Len(t) < MaxEvents PROVE Distinct(t) /\ Told'
  <2>1. /\ Len(timeline) < MaxEvents
        /\ \/ Upsertable(e) /\ Put(timeline, u, e) /\ (t = u \/ Put(u, t, f))
           \/ ~Upsertable(e) /\ t = timeline
    BY <1>9, <1>10, <1>11, <1>12, <1>15
  <2>2. Distinct(timeline) /\ Told
    BY <2>1 DEF TimelineInv
  <2>3. /\ \A i \in DOMAIN timeline : timeline[i].created \in Nat
        /\ \A i \in DOMAIN u : WellFormed(u[i]) /\ u[i].created \in Nat
        /\ IsRecord(e) /\ e.created \in Nat /\ IsRecord(f) /\ f.created \in Nat
    BY <1>1, <1>7, <1>8, <1>10 DEF WellFormed, RecordTypes
  <2>4. Put(timeline, u, e) => Distinct(u)
    BY <2>2, <2>3, PutIds
  <2>5. Distinct(t)
    <3>1. CASE Put(timeline, u, e) /\ Put(u, t, f)
      BY <2>3, <2>4, <3>1, PutIds
    <3> QED
      BY <2>1, <2>2, <2>4, <3>1
  <2>6. \A x : Put(u, t, f) => SameOwn(u, t, x)
    BY <1>8, <2>3, PutOther
  <2>7. ASSUME NEW x \in DOMAIN chain \ missed
        PROVE  OwnOrder(t, x, chain[x].created) /\ ToldBy(m, t, x, chain[x])
    <3>1. OwnOrder(timeline, x, chain[x].created) /\ ToldBy(notices, timeline, x, chain[x])
      BY <2>2 DEF Told
    <3>2. PICK w, c : w = chain[x] /\ c = chain[x].created
      OBVIOUS
    <3>3. CASE x # j
      <4>1. ToldBy(m, timeline, x, w) /\ OwnOrder(timeline, x, c)
        BY <1>1, <1>2, <1>5, <3>1, <3>2, <3>3, TailOfOther
      <4>2. CASE t = timeline
        BY <3>2, <4>1, <4>2
      <4>3. CASE Put(timeline, u, e) /\ (t = u \/ Put(u, t, f))
        <5>1. e.job # x
          BY <1>7, <3>3
        <5>2. SameOwn(timeline, u, x)
          BY <1>1, <1>7, <4>3, <5>1, PutOther
        <5>3. ToldBy(m, u, x, w) /\ OwnOrder(u, x, c)
          BY <4>1, <5>2, SameOwnTold, SameOwnKeeps
        <5>4. ToldBy(m, t, x, w) /\ OwnOrder(t, x, c)
          BY <2>6, <4>3, <5>3, SameOwnTold, SameOwnKeeps
        <5> QED
          BY <3>2, <5>4
      <4> QED
        BY <2>1, <4>2, <4>3
    <3>4. CASE x = j
      <4>1. /\ o.as \in Work /\ o.as.created = c /\ OwnOrder(timeline, j, o.as.created)
            /\ ToldBy(notices, timeline, j, w) /\ o.job = j
        BY <1>3, <1>5, <3>1, <3>2, <3>4 DEF Announces, Notices
      <4>2. Precedes(timeline, j, o.as)
        <5>1. /\ 1 \in DOMAIN notices /\ Head(notices) = notices[1]
              /\ \A b \in OfJob(notices, j) : 1 <= b
          BY <1>1, RestOf
        <5>2. 1 \in OfJob(notices, j)
          BY <1>2, <1>5, <5>1 DEF OfJob
        <5> QED
          BY <1>2, <4>1, <5>1, <5>2 DEF ToldBy
      <4>3. Upsertable(e)
        BY <1>1, <1>7, <2>2, <4>1, <4>2, NextPasses
      <4>4. Put(timeline, u, e) /\ (t = u \/ Put(u, t, f))
        BY <2>1, <4>3
      <4>5. TellsOf(u, j, o.as) /\ OwnOrder(u, j, o.as.created)
        BY <1>1, <1>7, <2>2, <4>1, <4>2, <4>4, PutNext
      <4>6. TellsOf(t, j, o.as) /\ OwnOrder(t, j, c)
        BY <2>6, <4>1, <4>4, <4>5, SameOwnTells, SameOwnKeeps
      <4>7. ToldBy(m, t, j, w)
        BY <1>1, <1>2, <4>1, <4>6, TailOfOwn
      <4> QED
        BY <3>2, <3>4, <4>6, <4>7
    <3> QED
      BY <3>3, <3>4
  <2>8. Told'
    BY <1>1, <1>2, <1>12, <2>7 DEF Told
  <2> QED
    BY <2>5, <2>8
<1> QED
  BY <1>12, <1>14, <1>15 DEF TimelineInv

\* The event of a retry is put, or nothing is.
LEMMA RetryPutKeeps ==
  ASSUME TimelineInv, NEW e, WellFormed(e), e.id[1] # "job", RecordTypes(timeline'),
         Len(timeline') < MaxEvents => (timeline' = timeline \/ Put(timeline, timeline', e)) /\ Len(timeline) < MaxEvents,
         UNCHANGED <<chain, shared, notices, clock, missed>>,
         DOMAIN request' = Retries, (\A r \in Retries : Asking(request[r]))'
  PROVE  TimelineInv'
<1>1. /\ ChainTypes /\ notices \in Seq(Notices) /\ \A a \in DOMAIN notices : Announces(notices[a])
      /\ RecordTypes(timeline) /\ clock \in Nat
  BY DEF TimelineInv, TimelineTypes, ChainTypes
<1>2. PICK t : t = timeline'
  OBVIOUS
<1>3. RecordTypes(timeline)'
  <2>1. \A s : RecordTypes(s) => RecordTypes(s)'
    BY <1>1, FormStays
  <2>2. RecordTypes(t)'
    BY <1>2, <2>1
  <2> QED
    BY <1>2, <2>2
<1>4. TimelineTypes'
  BY <1>1, <1>3 DEF TimelineTypes, ChainTypes, Announces
<1>5. ASSUME Len(t) < MaxEvents PROVE Distinct(t) /\ Told'
  <2>1. (t = timeline \/ Put(timeline, t, e)) /\ Distinct(timeline) /\ Told
    BY <1>2, <1>5 DEF TimelineInv
  <2>2. /\ \A i \in DOMAIN timeline : WellFormed(timeline[i]) /\ timeline[i].created \in Nat
        /\ IsRecord(e) /\ e.created \in Nat
    BY <1>1 DEF WellFormed, RecordTypes
  <2>3. Distinct(t)
    BY <2>1, <2>2, PutIds
  <2>4. ASSUME NEW x \in DOMAIN chain \ missed
        PROVE  OwnOrder(t, x, chain[x].created) /\ ToldBy(notices, t, x, chain[x])
    <3>1. PICK w, c : w = chain[x] /\ c = chain[x].created
      OBVIOUS
    <3>2. OwnOrder(timeline, x, c) /\ ToldBy(notices, timeline, x, w)
      BY <2>1, <3>1 DEF Told
    <3>3. CASE Put(timeline, t, e)
      <4>1. SameOwn(timeline, t, x)
        BY <2>2, <3>3, PutOther
      <4> QED
        BY <3>1, <3>2, <4>1, SameOwnTold, SameOwnKeeps
    <3> QED
      BY <2>1, <3>1, <3>2, <3>3
  <2> QED
    BY <1>2, <2>3, <2>4 DEF Told
<1> QED
  BY <1>2, <1>4, <1>5 DEF TimelineInv

\* The event of a retry is well formed.
LEMMA RetryFacts ==
  ASSUME ChainTypes, NEW e, WellFormed(e), e.stage = "transfer"
  PROVE  WellFormed(RetryEvent(e)) /\ IsRetryEvent(RetryEvent(e))
<1>1. PICK f : f = RetryEvent(e)
  OBVIOUS
<1>2. IsRecord(e) /\ e.job \in DOMAIN chain
  BY DEF WellFormed
<1>3. /\ f.id = <<"retry", e.id, e.attempt + 1>> /\ f.stage = e.stage /\ f.correlation = e.correlation
      /\ f.job = e.job /\ f.created = clock /\ f.updated = clock /\ IsRecord(f)
  BY <1>1, <1>2 DEF IsRecord, RetryEvent
<1>4. f.id[1] = "retry"
  BY <1>3
<1>5. shared => e.correlation = 0
  BY DEF WellFormed, IsJobEvent, IsStageEvent, IsRetryEvent, Correlation
<1>6. IsRetryEvent(f)
  BY <1>3, <1>4, <1>5 DEF IsRetryEvent
<1>7. WellFormed(f)
  BY <1>2, <1>3, <1>6 DEF WellFormed, ChainTypes
<1> QED
  BY <1>1, <1>6, <1>7

\* A retry is asked for: its event is added.
LEMMA AskKeeps ==
  ASSUME TimelineInv, NEW r \in Retries, retry_stage(r)
  PROVE  TimelineInv'
<1>1. PICK e \in current_stage_events :
        /\ e.stage = "transfer" /\ timeline' = add(timeline, RetryEvent(e))
        /\ request' = [request EXCEPT ![r] = [pc |-> "submit", job |-> e.job, event |-> RetryEvent(e)]]
        /\ UNCHANGED <<chain, shared, notices, listens, clock, missed>>
  BY DEF retry_stage
<1>2. ChainTypes /\ RecordTypes(timeline) /\ DOMAIN request = Retries /\ \A q \in Retries : Asking(request[q])
  BY DEF TimelineInv, TimelineTypes
<1>3. WellFormed(e) /\ e.job \in DOMAIN chain
  BY <1>2 DEF current_stage_events, Current, Listed, RecordTypes, WellFormed
<1>4. PICK f : f = RetryEvent(e)
  OBVIOUS
<1>5. WellFormed(f) /\ IsRetryEvent(f) /\ f.id[1] # "job"
  BY <1>1, <1>2, <1>3, <1>4, RetryFacts DEF IsRetryEvent
<1>6. PICK t : t = add(timeline, f)
  OBVIOUS
<1>7. /\ RecordTypes(t)
      /\ Len(t) < MaxEvents => (t = timeline \/ Put(timeline, t, f)) /\ Len(timeline) < MaxEvents
  BY <1>2, <1>5, <1>6, AddPuts
<1>8. PICK n : n = [pc |-> "submit", job |-> e.job, event |-> f]
  OBVIOUS
<1>9. Asking(n)
  BY <1>3, <1>5, <1>8 DEF Asking
<1>10. DOMAIN request' = Retries /\ \A q \in Retries : Asking(request'[q])
  <2>1. \A q \in Retries : request'[q] = IF q = r THEN n ELSE request[q]
    BY <1>1, <1>2, <1>4, <1>8
  <2> QED
    BY <1>1, <1>2, <1>9, <2>1
<1>11. (\A q \in Retries : Asking(request[q]))'
  BY <1>1, <1>10 DEF Asking, WellFormed, IsRetryEvent, IsJobEvent, IsStageEvent, Correlation, IsRecord
<1>12. timeline' = t /\ UNCHANGED <<chain, shared, notices, clock, missed>>
  BY <1>1, <1>4, <1>6
<1> QED
  BY <1>5, <1>7, <1>10, <1>11, <1>12, RetryPutKeeps

\* The outcome of a retry goes into its event.
LEMMA RecordKeeps ==
  ASSUME TimelineInv, NEW r \in Retries, NEW e, WellFormed(e), e.id[1] # "job", RecordRetry(r, e)
  PROVE  TimelineInv'
<1>1. /\ timeline' = (IF Upsertable(e) THEN upsert(e) ELSE timeline)
      /\ request' = [request EXCEPT ![r] = Idle] /\ UNCHANGED <<chain, shared, notices, clock, missed>>
  BY DEF RecordRetry
<1>2. /\ ChainTypes /\ RecordTypes(timeline) /\ DOMAIN request = Retries
      /\ clock \in Nat /\ \A q \in Retries : Asking(request[q])
  BY DEF TimelineInv, TimelineTypes, ChainTypes
<1>3. PICK u : u = upsert(e)
  OBVIOUS
<1>4. RecordTypes(u) /\ (Len(u) < MaxEvents => Put(timeline, u, e) /\ Len(timeline) < MaxEvents)
  BY <1>2, <1>3, UpsertPuts
<1>5. /\ RecordTypes(timeline')
      /\ Len(timeline') < MaxEvents => (timeline' = timeline \/ Put(timeline, timeline', e)) /\ Len(timeline) < MaxEvents
  BY <1>1, <1>2, <1>3, <1>4
<1>6. DOMAIN request' = Retries /\ \A q \in Retries : Asking(request'[q])
  BY <1>1, <1>2 DEF Asking
<1>7. (\A q \in Retries : Asking(request[q]))'
  BY <1>1, <1>6 DEF Asking, WellFormed, IsRetryEvent, IsJobEvent, IsStageEvent, Correlation, IsRecord
<1> QED
  BY <1>1, <1>5, <1>6, <1>7, RetryPutKeeps

\* The answer of the queue goes into the event of the retry.
LEMMA AnswerKeeps ==
  ASSUME TimelineInv, NEW r \in Retries, RetryAccepted(r) \/ RetryRefused(r)
  PROVE  TimelineInv'
<1>1. PICK q, e : q = request[r] /\ e = request[r].event
  OBVIOUS
<1>2. q.pc \in {"submit", "record"}
  BY <1>1 DEF RetryAccepted, RetryRefused
<1>3. WellFormed(e) /\ IsRetryEvent(e) /\ clock \in Nat
  <2>1. Asking(q) /\ clock \in Nat
    BY <1>1 DEF TimelineInv, TimelineTypes, ChainTypes
  <2>2. q # Idle
    BY <1>2 DEF Idle
  <2> QED
    BY <1>1, <2>1, <2>2 DEF Asking
<1>4. ASSUME NEW f, f = [e EXCEPT !.retry = q.job] \/ f = [e EXCEPT !.status = "failed", !.updated = clock]
      PROVE  WellFormed(f) /\ f.id[1] # "job"
  <2>1. IsRecord(e)
    BY <1>3 DEF WellFormed
  <2>2. /\ f.id = e.id /\ f.stage = e.stage /\ f.correlation = e.correlation /\ f.job = e.job
        /\ f.created = e.created /\ (f.updated = e.updated \/ f.updated = clock) /\ IsRecord(f)
    BY <1>4, <2>1 DEF IsRecord
  <2>3. IsRetryEvent(f)
    BY <1>3, <2>2 DEF IsRetryEvent
  <2> QED
    BY <1>3, <2>2, <2>3 DEF WellFormed, IsRetryEvent
<1>5. CASE RetryAccepted(r)
  <2>1. PICK f : f = [e EXCEPT !.retry = q.job]
    OBVIOUS
  <2>2. RecordRetry(r, f)
    BY <1>1, <1>5, <2>1 DEF RetryAccepted
  <2> QED
    BY <1>4, <2>1, <2>2, RecordKeeps
<1>6. CASE RetryRefused(r)
  <2>1. PICK f : f = [e EXCEPT !.status = "failed", !.updated = clock]
    OBVIOUS
  <2>2. RecordRetry(r, f)
    BY <1>1, <1>6, <2>1 DEF RetryRefused
  <2> QED
    BY <1>4, <2>1, <2>2, RecordKeeps
<1> QED
  BY <1>5, <1>6

\* A new job is one of now.
LEMMA NewJobFacts ==
  ASSUME ChainTypes
  PROVE  NewJob \in Work /\ NewJob.updated = clock /\ NewJob.created = clock /\ clock \in Nat
BY DEF ChainTypes, NewJob, Work, JobStates

\* Requests do not depend on what else happens.
LEMMA AskingStays ==
  ASSUME TimelineInv, shared' = shared, clock' \in Nat, clock <= clock', DOMAIN chain \subseteq DOMAIN chain',
         NEW n, Asking(n)', DOMAIN request' = Retries, \A q \in Retries : request'[q] \in {request[q], n}
  PROVE  (\A q \in Retries : Asking(request[q]))'
<1>1. \A q \in Retries : Asking(request[q])
  BY DEF TimelineInv, TimelineTypes
<1>2. \A m : Asking(m) => Asking(m)'
  BY FormStays DEF TimelineInv, TimelineTypes, ChainTypes
<1>3. PICK G : G = {m \in {request[q] : q \in Retries} \cup {n} : Asking(m)'}
  OBVIOUS
<1>4. \A q \in Retries : request[q] \in G
  BY <1>1, <1>2, <1>3
<1>5. n \in G
  BY <1>3
<1>6. \A q \in Retries : request'[q] \in G
  BY <1>4, <1>5
<1> SUFFICES ASSUME NEW q \in Retries PROVE Asking(request[q])'
  OBVIOUS
<1>7. PICK m \in G : m = request'[q]
  BY <1>6
<1>8. Asking(m)'
  BY <1>3
<1> QED
  BY <1>7, <1>8 DEF Asking, WellFormed, IsRetryEvent, IsJobEvent, IsStageEvent, Correlation, IsRecord

\* Requests that nobody touches stay as they are.
LEMMA RequestsStay ==
  ASSUME TimelineInv, shared' = shared, clock' = clock, DOMAIN chain \subseteq DOMAIN chain', request' = request
  PROVE  DOMAIN request' = Retries /\ (\A q \in Retries : Asking(request[q]))'
<1>1. DOMAIN request' = Retries
  BY DEF TimelineInv, TimelineTypes
<1>2. Asking(Idle)'
  BY DEF Asking
<1>3. \A q \in Retries : request'[q] \in {request[q], Idle}
  OBVIOUS
<1>4. PICK n : n = Idle
  OBVIOUS
<1>5. Asking(n)' /\ \A q \in Retries : request'[q] \in {request[q], n}
  BY <1>2, <1>3, <1>4
<1>6. clock' \in Nat /\ clock <= clock'
  BY DEF TimelineInv, TimelineTypes, ChainTypes
<1> QED
  BY <1>1, <1>5, <1>6, AskingStays

\* The first job.
LEMMA SubmitWorkKeeps ==
  ASSUME TimelineInv, SubmitWork
  PROVE  TimelineInv'
<1>1. /\ ChainTypes /\ chain = <<>> /\ chain' = <<NewJob>> /\ Publish(chain', 1, {})
      /\ UNCHANGED <<shared, timeline, clock, request>>
  BY DEF SubmitWork, TimelineInv, TimelineTypes
<1>2. NewJob \in Work /\ NewJob.updated = clock /\ NewJob.created = clock /\ clock \in Nat
  BY <1>1, NewJobFacts
<1>3. PICK w : w = NewJob
  OBVIOUS
<1>4. chain' = <<w>> /\ w \in Work
  BY <1>1, <1>2, <1>3
<1>5. PICK j : j = 1
  OBVIOUS
<1>6. chain' \in Seq(Work) /\ DOMAIN chain' = {j} /\ chain'[j] = w /\ DOMAIN chain = {}
  BY <1>1, <1>4, <1>5
<1>7. DOMAIN request' = Retries /\ (\A q \in Retries : Asking(request[q]))'
  BY <1>1, <1>6, RequestsStay
<1>8. /\ DOMAIN chain \subseteq DOMAIN chain' /\ j \in DOMAIN chain'
      /\ \A x \in DOMAIN chain' : x # j => x \in DOMAIN chain /\ chain'[x] = chain[x]
      /\ chain'[j].updated <= clock /\ chain'[j].created <= clock
      /\ (j \in DOMAIN chain => chain'[j].created = chain[j].created /\ Moved(chain[j], chain'[j]))
      /\ Publish(chain', j, {})
  BY <1>1, <1>2, <1>3, <1>5, <1>6
<1> QED
  BY <1>1, <1>6, <1>7, <1>8, PublishKeeps

\* A job moves on, or is marked by a shutdown.
LEMMA MoveKeeps ==
  ASSUME TimelineInv, NEW j \in DOMAIN chain, JobMoves(j) \/ DrainMark(j)
  PROVE  TimelineInv'
<1>1. ChainTypes /\ clock \in Nat /\ chain \in Seq(Work)
  BY DEF TimelineInv, TimelineTypes, ChainTypes
<1>2. PICK w \in Work : w = chain[j]
  BY <1>1, ChainFacts
<1>3. PICK s \in JobStates, a \in Nat \ {0}, over \in {{}, {j}} :
        /\ SetJob(j, s, a, over)
        /\ over = {j} \/ \A n : n.status = s /\ n.attempt = a => Continues(w.attempt, job_status(w.status), n)
  <2>0. w.attempt \in Nat \ {0}
    BY DEF Work
  <2>1. CASE JobMoves(j) /\ w.status = "queued"
    <3>1. PICK s \in {"running", "canceled"} : SetJob(j, s, w.attempt, {})
      BY <1>2, <2>1 DEF JobMoves
    <3> QED
      BY <2>0, <2>1, <3>1, JobStatusIs DEF Continues, JobStates
  <2>2. CASE JobMoves(j) /\ w.status = "running"
    <3>1. PICK s \in {"succeeded", "failed", "canceled"} : SetJob(j, s, w.attempt, {})
      BY <1>2, <2>2 DEF JobMoves
    <3> QED
      BY <2>0, <2>2, <3>1, JobStatusIs DEF Continues, JobStates
  <2>3. CASE JobMoves(j) /\ w.status = "failed"
    <3>1. SetJob(j, "queued", w.attempt + 1, {}) /\ w.attempt + 1 \in Nat \ {0}
      BY <1>2, <2>0, <2>3 DEF JobMoves
    <3> QED
      BY <2>0, <2>3, <3>1, JobStatusIs DEF Continues, JobStates
  <2>4. CASE DrainMark(j)
    <3>1. SetJob(j, "failed", w.attempt, IF w.status \in {"running", "failed"} THEN {} ELSE {j})
      BY <1>2, <2>4 DEF DrainMark
    <3>2. CASE w.status \in {"running", "failed"}
      <4>1. SetJob(j, "failed", w.attempt, {})
        BY <3>1, <3>2
      <4> QED
        BY <2>0, <3>2, <4>1, JobStatusIs DEF Continues, JobStates
    <3>3. CASE w.status \notin {"running", "failed"}
      <4>1. SetJob(j, "failed", w.attempt, {j})
        BY <3>1, <3>3
      <4> QED
        BY <2>0, <4>1 DEF JobStates
    <3> QED
      BY <3>2, <3>3
  <2> QED
    BY <1>2, <2>1, <2>2, <2>3, <2>4 DEF JobMoves
<1>4. PICK n : n = [w EXCEPT !.status = s, !.attempt = a, !.updated = clock]
  OBVIOUS
<1>5. n \in Work /\ n.status = s /\ n.attempt = a /\ n.updated = clock /\ n.created = w.created
  BY <1>1, <1>4 DEF Work
<1>6. /\ chain' = [chain EXCEPT ![j] = n] /\ Publish(chain', j, over) /\ UNCHANGED <<shared, timeline, clock, request>>
  BY <1>2, <1>3, <1>4 DEF SetJob
<1>7. /\ chain' \in Seq(Work) /\ DOMAIN chain' = DOMAIN chain /\ chain'[j] = n
      /\ \A x \in DOMAIN chain : x # j => chain'[x] = chain[x]
  <2>1. Len(chain) \in Nat /\ DOMAIN chain = 1 .. Len(chain)
    BY <1>1
  <2>2. chain' \in [1 .. Len(chain) -> Work]
    BY <1>1, <1>5, <1>6, <2>1
  <2>3. chain' \in Seq(Work)
    BY <2>1, <2>2
  <2>4. DOMAIN chain' = DOMAIN chain /\ chain'[j] = n
    BY <1>6, <2>1, <2>2
  <2>5. \A x \in DOMAIN chain : x # j => chain'[x] = chain[x]
    BY <1>6
  <2> QED
    BY <2>3, <2>4, <2>5
<1>8. w.updated <= clock /\ w.created <= clock /\ (Moved(w, n) \/ over = {j})
  <2>1. w.updated <= clock /\ w.created <= clock
    BY <1>1, <1>2 DEF ChainTypes
  <2> QED
    BY <1>3, <1>5, <2>1 DEF Moved
<1>9. DOMAIN request' = Retries /\ (\A q \in Retries : Asking(request[q]))'
  BY <1>6, <1>7, RequestsStay
<1>10. /\ DOMAIN chain \subseteq DOMAIN chain' /\ j \in DOMAIN chain'
       /\ \A x \in DOMAIN chain' : x # j => x \in DOMAIN chain /\ chain'[x] = chain[x]
       /\ chain'[j].updated <= clock /\ chain'[j].created <= clock
       /\ (j \in DOMAIN chain => chain'[j].created = chain[j].created)
       /\ (j \in DOMAIN chain => Moved(chain[j], chain'[j]) \/ over = {j})
  BY <1>1, <1>2, <1>5, <1>7, <1>8
<1> QED
  BY <1>6, <1>7, <1>9, <1>10, PublishKeeps

\* A retry submits a job, or finds the active one.
LEMMA RetryJobKeeps ==
  ASSUME TimelineInv, NEW r \in Retries, SubmitRetry(r)
  PROVE  TimelineInv'
<1>1. /\ ChainTypes /\ clock \in Nat /\ chain \in Seq(Work) /\ DOMAIN request = Retries /\ Asking(request[r])
      /\ request[r] # Idle /\ UNCHANGED <<shared, listens, timeline, clock>>
  BY DEF TimelineInv, TimelineTypes, ChainTypes, SubmitRetry, Idle
<1>2. PICK q : q = request[r]
  OBVIOUS
<1>3. /\ q = [pc |-> q.pc, job |-> q.job, event |-> q.event] /\ q.job \in DOMAIN chain
      /\ WellFormed(q.event) /\ IsRetryEvent(q.event)
  BY <1>1, <1>2 DEF Asking
<1>4. ASSUME DOMAIN chain \subseteq DOMAIN chain', NEW j \in DOMAIN chain',
             request' = [request EXCEPT ![r].pc = "record", ![r].job = j]
      PROVE  DOMAIN request' = Retries /\ (\A p \in Retries : Asking(request[p]))'
  <2>1. PICK n : n = [q EXCEPT !.pc = "record", !.job = j]
    OBVIOUS
  <2>2. n = [pc |-> "record", job |-> j, event |-> q.event]
    BY <1>3, <2>1
  <2>3. WellFormed(q.event)' /\ IsRetryEvent(q.event)'
    <3>1. \A e : WellFormed(e) => WellFormed(e)'
      BY <1>1, <1>4, FormStays
    <3>2. PICK e : e = q.event
      OBVIOUS
    <3> QED
      BY <1>1, <1>3, <3>1, <3>2 DEF IsRetryEvent
  <2>4. Asking(n)'
    BY <1>4, <2>2, <2>3 DEF Asking
  <2>5. request' = [request EXCEPT ![r] = n]
    BY <1>2, <1>4, <2>1
  <2>6. DOMAIN request' = Retries /\ \A p \in Retries : request'[p] \in {request[p], n}
    BY <1>1, <2>5
  <2> QED
    BY <1>1, <1>4, <2>4, <2>6, AskingStays
<1>5. CASE \E j \in Active : /\ request' = [request EXCEPT ![r].pc = "record", ![r].job = j]
                             /\ UNCHANGED <<chain, notices, missed, accidents>>
  <2>1. PICK j \in DOMAIN chain : request' = [request EXCEPT ![r].pc = "record", ![r].job = j]
    BY <1>5 DEF Active
  <2>2. UNCHANGED <<chain, shared, notices, timeline, clock, missed>>
    BY <1>1, <1>5
  <2>3. DOMAIN request' = Retries /\ (\A p \in Retries : Asking(request[p]))'
    BY <1>4, <2>1, <2>2
  <2>4. RecordTypes(timeline)'
    BY <2>2 DEF TimelineInv, TimelineTypes, RecordTypes, WellFormed, IsRetryEvent, IsJobEvent, IsStageEvent, Correlation, IsRecord, IsList
  <2>5. TimelineTypes'
    BY <2>2, <2>3, <2>4 DEF TimelineInv, TimelineTypes, ChainTypes, Announces
  <2> QED
    BY <2>2, <2>5 DEF TimelineInv, Told
<1>6. CASE /\ chain' = Append(chain, NewJob) /\ Publish(chain', Len(chain'), {})
           /\ request' = [request EXCEPT ![r].pc = "record", ![r].job = Len(chain')]
  <2>1. NewJob \in Work /\ NewJob.updated = clock /\ NewJob.created = clock
    BY <1>1, NewJobFacts
  <2>2. PICK w : w = NewJob
    OBVIOUS
  <2>3. PICK j : j = Len(chain')
    OBVIOUS
  <2>4. /\ chain' \in Seq(Work) /\ j \in DOMAIN chain' /\ j \notin DOMAIN chain /\ chain'[j] = w
        /\ DOMAIN chain' = DOMAIN chain \cup {j} /\ \A x \in DOMAIN chain : chain'[x] = chain[x]
    <3>1. chain' = Append(chain, w) /\ w \in Work /\ Len(chain) \in Nat
      BY <1>1, <1>6, <2>1, <2>2
    <3> QED
      BY <1>1, <2>3, <3>1
  <2>5. DOMAIN request' = Retries /\ (\A p \in Retries : Asking(request[p]))'
    BY <1>4, <1>6, <2>3, <2>4
  <2>6. /\ DOMAIN chain \subseteq DOMAIN chain' /\ j \in DOMAIN chain'
        /\ \A x \in DOMAIN chain' : x # j => x \in DOMAIN chain /\ chain'[x] = chain[x]
        /\ chain'[j].updated <= clock /\ chain'[j].created <= clock
        /\ (j \in DOMAIN chain => chain'[j].created = chain[j].created /\ Moved(chain[j], chain'[j]))
        /\ Publish(chain', j, {})
    BY <1>1, <1>6, <2>1, <2>2, <2>3, <2>4
  <2> QED
    BY <1>1, <2>4, <2>5, <2>6, PublishKeeps
<1> QED
  BY <1>5, <1>6 DEF SubmitRetry

\* Nothing is told and nothing moves: time passes, a request is given up, the
\* projection subscribes.
LEMMA QuietKeeps ==
  ASSUME TimelineInv, UNCHANGED <<chain, shared, notices, timeline, missed>>, clock' \in Nat, clock <= clock',
         DOMAIN request' = Retries, \A r \in Retries : request'[r] \in {request[r], Idle}
  PROVE  TimelineInv'
<1>1. /\ ChainTypes /\ notices \in Seq(Notices) /\ \A a \in DOMAIN notices : Announces(notices[a])
      /\ RecordTypes(timeline) /\ clock \in Nat
  BY DEF TimelineInv, TimelineTypes, ChainTypes
<1>2. ChainTypes'
  <2> SUFFICES ASSUME NEW j \in DOMAIN chain PROVE chain[j].updated <= clock' /\ chain[j].created <= clock'
    BY <1>1 DEF ChainTypes
  <2>1. /\ chain[j].updated \in Nat /\ chain[j].created \in Nat
        /\ chain[j].updated <= clock /\ chain[j].created <= clock
    BY <1>1, ChainFacts DEF ChainTypes, Work
  <2> QED
    BY <1>1, <2>1
<1>3. (\A a \in DOMAIN notices : Announces(notices[a]))'
  <2> SUFFICES ASSUME NEW a \in DOMAIN notices PROVE Announces(notices[a])'
    OBVIOUS
  <2>1. notices[a] \in Notices /\ Announces(notices[a])
    BY <1>1
  <2>2. notices[a].as.updated \in Nat
    BY <2>1 DEF Notices, Work
  <2> QED
    BY <1>1, <2>1, <2>2 DEF Announces
<1>4. RecordTypes(timeline)'
  <2>1. PICK t : t = timeline
    OBVIOUS
  <2>2. RecordTypes(t)'
    BY <1>1, <2>1, FormStays
  <2> QED
    BY <2>1, <2>2
<1>5. (\A r \in Retries : Asking(request[r]))'
  <2>1. PICK n : n = Idle
    OBVIOUS
  <2>2. Asking(n)' /\ \A r \in Retries : request'[r] \in {request[r], n}
    BY <2>1 DEF Asking
  <2> QED
    BY <2>2, AskingStays
<1>6. TimelineTypes'
  BY <1>1, <1>2, <1>3, <1>4, <1>5 DEF TimelineTypes
<1> QED
  BY <1>6 DEF TimelineInv, Told

\* A notice is lost, and its job counts as missed from then on.
LEMMA LossKeeps ==
  ASSUME TimelineInv, ProjectFails
  PROVE  TimelineInv'
<1>1. /\ ChainTypes /\ notices \in Seq(Notices) /\ \A a \in DOMAIN notices : Announces(notices[a])
      /\ RecordTypes(timeline) /\ clock \in Nat /\ notices # <<>>
      /\ UNCHANGED <<chain, shared, timeline, clock, request>>
      /\ notices' = Tail(notices) /\ missed' = missed \cup {Head(notices).job}
  BY DEF TimelineInv, TimelineTypes, ChainTypes, ProjectFails
<1>2. PICK m : m = Tail(notices)
  OBVIOUS
<1>3. m \in Seq(Notices) /\ \A a \in DOMAIN m : a + 1 \in DOMAIN notices /\ m[a] = notices[a + 1]
  BY <1>1, <1>2, RestOf
<1>4. (\A a \in DOMAIN notices : Announces(notices[a]))'
  BY <1>1, <1>2, <1>3 DEF Announces
<1>5. RecordTypes(timeline)'
  <2>1. PICK t : t = timeline
    OBVIOUS
  <2>2. RecordTypes(t)'
    BY <1>1, <2>1, FormStays
  <2> QED
    BY <1>1, <2>1, <2>2
<1>6. DOMAIN request' = Retries /\ (\A r \in Retries : Asking(request[r]))'
  BY <1>1, RequestsStay
<1>7. TimelineTypes'
  BY <1>1, <1>2, <1>3, <1>4, <1>5, <1>6 DEF TimelineTypes, ChainTypes
<1>8. ASSUME Len(timeline) < MaxEvents, NEW x \in DOMAIN chain, x \notin missed'
      PROVE  OwnOrder(timeline, x, chain[x].created) /\ ToldBy(m, timeline, x, chain[x])
  <2>1. /\ Head(notices).job # x /\ OwnOrder(timeline, x, chain[x].created)
        /\ ToldBy(notices, timeline, x, chain[x])
    BY <1>1, <1>8 DEF TimelineInv, Told
  <2>2. PICK w : w = chain[x]
    OBVIOUS
  <2>3. ToldBy(m, timeline, x, w)
    BY <1>1, <1>2, <2>1, <2>2, TailOfOther
  <2> QED
    BY <2>1, <2>2, <2>3
<1>9. Len(timeline) < MaxEvents => Distinct(timeline) /\ Told'
  BY <1>1, <1>2, <1>8 DEF TimelineInv, Told
<1> QED
  BY <1>1, <1>7, <1>9 DEF TimelineInv

\* What a restart makes of a job.
SettledWork(w) == IF w.status # "running" THEN w ELSE [w EXCEPT !.status = "failed", !.updated = clock]

\* A restart loses the notices that wait and fails what ran.
LEMMA RestartQueueKeeps ==
  ASSUME TimelineInv, RestartQueue
  PROVE  TimelineInv'
<1>1. /\ ChainTypes /\ notices \in Seq(Notices) /\ \A a \in DOMAIN notices : Announces(notices[a])
      /\ RecordTypes(timeline) /\ clock \in Nat /\ chain \in Seq(Work) /\ DOMAIN request = Retries
      /\ UNCHANGED <<shared, timeline, clock>> /\ notices' = <<>>
      /\ missed' = missed \cup {notices[i].job : i \in DOMAIN notices}
                         \cup {j \in DOMAIN chain : chain[j].status = "running"}
      /\ request' = [r \in Retries |-> Idle]
  BY DEF TimelineInv, TimelineTypes, ChainTypes, RestartQueue
<1>2. \A j \in DOMAIN chain : chain[j] \in Work /\ chain[j].updated <= clock /\ chain[j].created <= clock
  BY <1>1, ChainFacts DEF ChainTypes
<1>3. /\ DOMAIN chain' = DOMAIN chain
      /\ \A j \in DOMAIN chain : /\ chain'[j] \in Work /\ chain'[j].created = chain[j].created
                                 /\ chain'[j].updated <= clock
                                 /\ (chain[j].status # "running" => chain'[j] = chain[j])
  <2>1. DOMAIN chain' = DOMAIN chain
    BY DEF RestartQueue
  <2>2. chain' = [j \in DOMAIN chain |-> SettledWork(chain[j])]
    BY DEF RestartQueue, SettledWork
  <2>3. \A w \in Work : w.updated <= clock => /\ SettledWork(w) \in Work /\ SettledWork(w).created = w.created
                                              /\ SettledWork(w).updated <= clock
                                              /\ (w.status # "running" => SettledWork(w) = w)
    <3> SUFFICES ASSUME NEW w \in Work, w.updated <= clock
                 PROVE  /\ SettledWork(w) \in Work /\ SettledWork(w).created = w.created
                        /\ SettledWork(w).updated <= clock
                        /\ (w.status # "running" => SettledWork(w) = w)
      OBVIOUS
    <3>1. CASE w.status # "running"
      BY <3>1 DEF SettledWork
    <3>2. CASE w.status = "running"
      <4>1. PICK n : n = [w EXCEPT !.status = "failed", !.updated = clock]
        OBVIOUS
      <4>2. n \in Work /\ n.created = w.created /\ n.updated = clock
        BY <1>1, <4>1 DEF Work, JobStates
      <4>3. SettledWork(w) = n
        BY <3>2, <4>1 DEF SettledWork
      <4>4. clock <= clock
        BY <1>1
      <4> QED
        BY <3>2, <4>2, <4>3, <4>4
    <3> QED
      BY <3>1, <3>2
  <2>4. \A j \in DOMAIN chain : chain'[j] = SettledWork(chain[j])
    BY <2>2
  <2> QED
    BY <1>2, <2>1, <2>3, <2>4
<1>4. chain' \in Seq(Work)
  <2>1. Len(chain) \in Nat /\ DOMAIN chain = 1 .. Len(chain)
    BY <1>1
  <2>2. chain' = [j \in 1 .. Len(chain) |-> SettledWork(chain[j])]
    <3>1. chain' = [j \in DOMAIN chain |-> SettledWork(chain[j])]
      BY DEF RestartQueue, SettledWork
    <3> QED
      BY <2>1, <3>1, Zenon
  <2>3. \A j \in 1 .. Len(chain) : SettledWork(chain[j]) \in Work
    <3>1. \A j \in 1 .. Len(chain) : chain'[j] = SettledWork(chain[j])
      BY <2>2
    <3> QED
      BY <1>3, <2>1, <3>1
  <2>4. chain' \in [1 .. Len(chain) -> Work]
    BY <2>2, <2>3
  <2> QED
    BY <2>1, <2>4
<1>5. ChainTypes'
  BY <1>1, <1>2, <1>3, <1>4 DEF ChainTypes
<1>6. RecordTypes(timeline)'
  <2>1. PICK t : t = timeline
    OBVIOUS
  <2>2. RecordTypes(t)'
    BY <1>1, <1>3, <2>1, FormStays
  <2> QED
    BY <1>1, <2>1, <2>2
<1>7. DOMAIN request' = Retries /\ (\A r \in Retries : Asking(request[r]))'
  <2>1. DOMAIN request' = Retries /\ \A r \in Retries : request'[r] = Idle
    BY <1>1
  <2> QED
    BY <2>1 DEF Asking
<1>8. notices' \in Seq(Notices) /\ DOMAIN notices' = {}
  <2>1. notices' = <<>>
    BY <1>1
  <2>2. <<>> \in Seq(Notices) /\ Len(<<>>) = 0
    BY EmptySeq
  <2>3. notices' \in Seq(Notices) /\ Len(notices') = 0
    BY <2>1, <2>2, Zenon
  <2> QED
    BY <2>3
<1>9. TimelineTypes'
  BY <1>5, <1>6, <1>7, <1>8 DEF TimelineTypes
<1>10. ASSUME Len(timeline) < MaxEvents, NEW x \in DOMAIN chain, x \notin missed'
       PROVE  OwnOrder(timeline, x, chain'[x].created) /\ ToldBy(notices', timeline, x, chain'[x])
  <2>1. /\ OwnOrder(timeline, x, chain[x].created) /\ ToldBy(notices, timeline, x, chain[x])
        /\ chain'[x] = chain[x]
    BY <1>1, <1>3, <1>10 DEF TimelineInv, Told
  <2>2. OfJob(notices, x) = {} /\ OfJob(notices', x) = {}
    BY <1>1, <1>8, <1>10 DEF OfJob
  <2>3. TellsOf(timeline, x, chain[x])
    BY <2>1, <2>2 DEF ToldBy
  <2> QED
    BY <2>1, <2>2, <2>3 DEF ToldBy
<1>11. Len(timeline) < MaxEvents => Distinct(timeline) /\ Told'
  BY <1>1, <1>3, <1>10 DEF TimelineInv, Told
<1> QED
  BY <1>1, <1>9, <1>11 DEF TimelineInv

\* At first nothing is told and nothing happened.
LEMMA TimelineInitial == AutomationInit => TimelineInv
<1> SUFFICES ASSUME AutomationInit PROVE TimelineInv
  OBVIOUS
<1>1. DOMAIN chain = {} /\ DOMAIN notices = {} /\ DOMAIN timeline = {} /\ Len(timeline) = 0 /\ timeline \in Seq({})
  BY DEF AutomationInit
<1>2. ChainTypes
  BY <1>1 DEF AutomationInit, ChainTypes
<1>3. RecordTypes(timeline)
  BY <1>1, AutomationAssumption DEF RecordTypes, IsList
<1>4. TimelineTypes
  <2>1. notices \in Seq(Notices)
    BY DEF AutomationInit
  <2>2. DOMAIN request = Retries /\ \A r \in Retries : Asking(request[r])
    BY DEF AutomationInit, Asking
  <2> QED
    BY <1>1, <1>2, <1>3, <2>1, <2>2 DEF TimelineTypes
<1> QED
  BY <1>1, <1>4 DEF TimelineInv, Distinct, Told

\* Every step keeps the timeline's invariant.
LEMMA TimelineStep == TimelineInv /\ [AutomationNext]_avars => TimelineInv'
<1> SUFFICES ASSUME TimelineInv, [AutomationNext]_avars PROVE TimelineInv'
  OBVIOUS
<1>1. clock \in Nat /\ clock + 1 \in Nat /\ clock <= clock /\ clock <= clock + 1 /\ DOMAIN request = Retries
  BY DEF TimelineInv, TimelineTypes, ChainTypes
<1>2. ASSUME UNCHANGED <<chain, shared, notices, timeline, missed, request>>, clock' \in {clock, clock + 1}
      PROVE  TimelineInv'
  BY <1>1, <1>2, QuietKeeps
<1>3. CASE UNCHANGED avars
  BY <1>2, <1>3 DEF avars
<1>10. CASE DrainList
  BY <1>2, <1>10 DEF DrainList
<1>4. CASE ClockTicks
  BY <1>2, <1>4 DEF ClockTicks
<1>5. CASE start_job_event_projection
  BY <1>2, <1>5 DEF start_job_event_projection
<1>6. ASSUME NEW r \in Retries, DropRequest(r) PROVE TimelineInv'
  <2>1. /\ UNCHANGED <<chain, shared, notices, timeline, missed, clock>>
        /\ request' = [request EXCEPT ![r] = Idle]
    BY <1>6 DEF DropRequest
  <2>2. DOMAIN request' = Retries /\ \A q \in Retries : request'[q] \in {request[q], Idle}
    BY <1>1, <2>1
  <2> QED
    BY <1>1, <2>1, <2>2, QuietKeeps
<1>7. ASSUME NEW j \in DOMAIN chain, JobMoves(j) \/ DrainMark(j) PROVE TimelineInv'
  BY <1>7, MoveKeeps
<1>8. ASSUME NEW r \in Retries, retry_stage(r) \/ SubmitRetry(r) \/ RetryAccepted(r) \/ RetryRefused(r)
      PROVE  TimelineInv'
  BY <1>8, AskKeeps, RetryJobKeeps, AnswerKeeps
<1>9. CASE SubmitWork \/ project_job \/ ProjectFails \/ RestartQueue
  BY <1>9, SubmitWorkKeeps, ProjectKeeps, LossKeeps, RestartQueueKeeps
<1> QED
  BY <1>3, <1>4, <1>5, <1>6, <1>7, <1>8, <1>9, <1>10 DEF AutomationNext

----------------------------------------------------------------------------
\* What is shown.
LEMMA GreatestElement ==
  ASSUME NEW S \in SUBSET Nat, S # {}, NEW b \in Nat, \A x \in S : x <= b
  PROVE  \E m \in S : \A n \in S : n <= m
<1>1. PICK D : D = {b - x : x \in S}
  OBVIOUS
<1>2. D \in SUBSET Nat /\ D # {}
  <2>1. \A x \in S : b - x \in Nat
    OBVIOUS
  <2>2. PICK x \in S : TRUE
    OBVIOUS
  <2>3. b - x \in D
    BY <1>1
  <2> QED
    BY <1>1, <2>1, <2>3
<1>3. PICK d \in D : \A e \in D : d <= e
  BY <1>2, LeastElement
<1>4. PICK m \in S : d = b - m
  BY <1>1
<1>5. ASSUME NEW n \in S PROVE n <= m
  <2>1. b - n \in D
    BY <1>1
  <2>2. b - m <= b - n
    BY <1>3, <1>4, <2>1
  <2> QED
    BY <2>2
<1> QED
  BY <1>5

\* Of some events one is ahead of the others in the order of the summary.
Ahead(i, k) == Later(timeline[i], timeline[k]) \/ (~Later(timeline[k], timeline[i]) /\ k < i)

\* Some event is ahead of all the others.
LEMMA OneAhead ==
  ASSUME TimelineTypes, NEW K \in SUBSET DOMAIN timeline, K # {}
  PROVE  \E i \in K : \A k \in K : k # i => Ahead(i, k)
<1>1. /\ clock \in Nat /\ DOMAIN timeline = 1 .. Len(timeline) /\ Len(timeline) \in Nat
      /\ \A k \in K : /\ timeline[k].updated \in Nat /\ timeline[k].updated <= clock
                      /\ timeline[k].created \in Nat /\ timeline[k].created <= clock
  BY SeqFacts DEF TimelineTypes, ChainTypes, RecordTypes, WellFormed
<1>2. PICK u \in {timeline[k].updated : k \in K} : \A v \in {timeline[k].updated : k \in K} : v <= u
  <2>1. PICK S : S = {timeline[k].updated : k \in K}
    OBVIOUS
  <2>2. S \in SUBSET Nat /\ S # {} /\ \A x \in S : x <= clock
    BY <1>1, <2>1
  <2> QED
    BY <1>1, <2>1, <2>2, GreatestElement
<1>3. PICK L : L = {k \in K : timeline[k].updated = u}
  OBVIOUS
<1>4. PICK c \in {timeline[k].created : k \in L} : \A v \in {timeline[k].created : k \in L} : v <= c
  <2>1. PICK S : S = {timeline[k].created : k \in L}
    OBVIOUS
  <2>2. S \in SUBSET Nat /\ S # {} /\ \A x \in S : x <= clock
    BY <1>1, <1>2, <1>3, <2>1
  <2> QED
    BY <1>1, <2>1, <2>2, GreatestElement
<1>5. PICK M : M = {k \in L : timeline[k].created = c}
  OBVIOUS
<1>6. PICK i \in M : \A k \in M : k <= i
  <2>1. M \in SUBSET Nat /\ M # {} /\ \A x \in M : x <= Len(timeline)
    BY <1>1, <1>3, <1>4, <1>5
  <2> QED
    BY <1>1, <2>1, GreatestElement
<1>7. i \in K /\ timeline[i].updated = u /\ timeline[i].created = c /\ i \in Nat /\ u \in Nat /\ c \in Nat
  BY <1>1, <1>3, <1>5
<1>8. ASSUME NEW k \in K, k # i PROVE Ahead(i, k)
  <2>1. timeline[k].updated \in Nat /\ timeline[k].created \in Nat /\ timeline[k].updated <= u /\ k \in Nat
    BY <1>1, <1>2
  <2>2. timeline[k].updated = u => timeline[k].created <= c
    BY <1>3, <1>4
  <2>3. timeline[k].updated = u /\ timeline[k].created = c => k <= i
    BY <1>3, <1>5, <1>6
  <2> QED
    BY <1>7, <1>8, <2>1, <2>2, <2>3 DEF Ahead, Later
<1> QED
  BY <1>7, <1>8

\* The invariant says where each job is.
LEMMA FollowsTold == TimelineInv => TimelineFollows
<1> SUFFICES ASSUME TimelineInv, Len(timeline) < MaxEvents, NEW j \in DOMAIN chain \ missed,
                    \A n \in DOMAIN notices : notices[n].job # j
             PROVE  \E i \in Own(j) : (\A k \in Own(j) : k <= i) /\ timeline[i].status = job_status(chain[j].status)
  BY DEF TimelineFollows
<1>1. ToldBy(notices, timeline, j, chain[j])
  BY DEF TimelineInv, Told
<1>2. OfJob(notices, j) = {}
  BY DEF OfJob
<1>3. TellsOf(timeline, j, chain[j]) /\ OwnIn(timeline, j) = Own(j)
  BY <1>1, <1>2 DEF ToldBy, OwnIn, Own
<1> QED
  BY <1>3 DEF TellsOf, IsLast

\* Nothing is under way and nothing was lost: what is shown of the transfer.
AllTold ==
  /\ shared /\ chain # <<>> /\ notices = <<>> /\ missed = {} /\ Len(timeline) < MaxEvents
Transfers == {i \in DOMAIN timeline : timeline[i].stage = "transfer"}

\* Then the last event of each job tells its end, and every event of the
\* transfer is one of a job or of a retry, under one key.
LEMMA SettledFacts ==
  ASSUME TimelineInv, AllTold
  PROVE  /\ \A j \in DOMAIN chain : TellsOf(timeline, j, chain[j]) /\ OwnOrder(timeline, j, chain[j].created)
         /\ DOMAIN chain # {} /\ \A j \in DOMAIN chain : chain[j].updated \in Nat /\ chain[j].updated <= clock
         /\ \A i \in Transfers : /\ Key(timeline[i]) = <<0, "transfer">>
                                 /\ WellFormed(timeline[i]) /\ timeline[i].job \in DOMAIN chain
                                 /\ timeline[i].updated \in Nat /\ timeline[i].created \in Nat /\ i \in Nat
                                 /\ (i \in OwnIn(timeline, timeline[i].job) \/ timeline[i].id[1] = "retry")
         /\ \A j : OwnIn(timeline, j) \subseteq Transfers
<1>1. ChainTypes /\ RecordTypes(timeline) /\ Told /\ IsList(timeline)
  BY DEF TimelineInv, TimelineTypes, AllTold, RecordTypes
<1>2. ASSUME NEW j \in DOMAIN chain PROVE TellsOf(timeline, j, chain[j]) /\ OwnOrder(timeline, j, chain[j].created)
  <2>1. ToldBy(notices, timeline, j, chain[j]) /\ OwnOrder(timeline, j, chain[j].created)
    BY <1>1 DEF Told, AllTold
  <2>2. OfJob(notices, j) = {}
    <3>1. Len(notices) = 0 /\ notices \in Seq(Notices)
      BY EmptySeq DEF AllTold, TimelineInv, TimelineTypes
    <3>2. DOMAIN notices = {}
      BY <3>1
    <3> QED
      BY <3>2 DEF OfJob
  <2> QED
    BY <2>1, <2>2 DEF ToldBy
<1>3. DOMAIN chain # {} /\ \A j \in DOMAIN chain : chain[j].updated \in Nat /\ chain[j].updated <= clock
  <2>1. Len(chain) # 0
    BY <1>1, EmptySeq DEF AllTold, ChainTypes
  <2> QED
    BY <1>1, <2>1, ChainFacts DEF Work, ChainTypes
<1>4. ASSUME NEW i \in Transfers
      PROVE  /\ Key(timeline[i]) = <<0, "transfer">>
             /\ WellFormed(timeline[i]) /\ timeline[i].job \in DOMAIN chain
             /\ timeline[i].updated \in Nat /\ timeline[i].created \in Nat /\ i \in Nat
             /\ (i \in OwnIn(timeline, timeline[i].job) \/ timeline[i].id[1] = "retry")
  <2>1. i \in DOMAIN timeline /\ timeline[i].stage = "transfer" /\ WellFormed(timeline[i]) /\ i \in Nat
    BY <1>1, SeqFacts DEF Transfers, RecordTypes
  <2>2. PICK e : e = timeline[i]
    OBVIOUS
  <2>3. IsJobEvent(e) \/ IsRetryEvent(e)
    BY <2>1, <2>2 DEF WellFormed, IsStageEvent
  <2>4. e.id[1] = "job" \/ e.id[1] = "retry"
    BY <2>1, <2>2, <2>3, OwnIds
  <2>5. e.correlation = 0
    BY <2>3 DEF IsJobEvent, IsRetryEvent, Correlation, AllTold
  <2> QED
    BY <2>1, <2>2, <2>4, <2>5 DEF Key, OwnIn, WellFormed
<1>5. ASSUME NEW j, NEW i \in OwnIn(timeline, j) PROVE i \in Transfers
  <2>1. i \in DOMAIN timeline /\ timeline[i].id[1] = "job" /\ WellFormed(timeline[i])
    BY <1>1 DEF OwnIn, RecordTypes
  <2>2. IsJobEvent(timeline[i])
    BY <2>1, OwnIds
  <2> QED
    BY <2>1, <2>2 DEF IsJobEvent, Transfers
<1> QED
  BY <1>2, <1>3, <1>4, <1>5

\* Then the summary shows the end of the job that ended last, if it looks at it.
LEMMA SummaryShows ==
  ASSUME TimelineInv, AllTold,
         \A j \in LastEnded :
           /\ \E i \in Own(j) \cap Listed : \A k \in Own(j) : k <= i
           /\ \A i \in DOMAIN timeline : timeline[i].id[1] = "retry" => timeline[i].updated < chain[j].updated
  PROVE  \E j \in LastEnded :
           {e.status : e \in {f \in current_stage_events : f.stage = "transfer"}} = {job_status(chain[j].status)}
<1> DEFINE Seen_ == Transfers \cap Listed
<1>0. \A j : OwnIn(timeline, j) = Own(j)
  BY DEF OwnIn, Own
<1>1. PICK j0 \in LastEnded : TRUE
  <2>1. PICK S : S = {chain[k].updated : k \in DOMAIN chain}
    OBVIOUS
  <2>2. S \in SUBSET Nat /\ S # {} /\ \A x \in S : x <= clock
    BY <2>1, SettledFacts
  <2>3. clock \in Nat
    BY DEF TimelineInv, TimelineTypes, ChainTypes
  <2>4. PICK u \in S : \A v \in S : v <= u
    BY <2>2, <2>3, GreatestElement
  <2>5. PICK j \in DOMAIN chain : chain[j].updated = u
    BY <2>1
  <2>6. \A k \in DOMAIN chain : chain[k].updated <= chain[j].updated
    BY <2>1, <2>4, <2>5
  <2> QED
    BY <2>6 DEF LastEnded
\* The last event of a job that ended last is listed, and tells its end.
<1>2. ASSUME NEW j \in LastEnded
      PROVE  \E l \in OwnIn(timeline, j) :
               /\ IsLast(timeline, j, l) /\ l \in Listed /\ timeline[l].updated = chain[j].updated
               /\ timeline[l].status = job_status(chain[j].status)
  <2>1. j \in DOMAIN chain
    BY DEF LastEnded
  <2>2. PICK l \in OwnIn(timeline, j) : /\ IsLast(timeline, j, l) /\ timeline[l].updated = chain[j].updated
                                        /\ timeline[l].status = job_status(chain[j].status)
    BY <2>1, SettledFacts DEF TellsOf
  <2>3. PICK i \in OwnIn(timeline, j) : i \in Listed /\ \A k \in OwnIn(timeline, j) : k <= i
    BY <1>0
  <2>4. i \in Nat /\ l \in Nat
    BY SettledFacts
  <2>5. i <= l /\ l <= i
    BY <2>2, <2>3 DEF IsLast
  <2>6. i = l
    BY <2>4, <2>5
  <2> QED
    BY <2>2, <2>3, <2>6
<1>3. Seen_ \in SUBSET DOMAIN timeline /\ Seen_ # {}
  <2>1. PICK l \in OwnIn(timeline, j0) : l \in Listed
    BY <1>1, <1>2
  <2> QED
    BY <2>1, SettledFacts DEF Transfers
<1>4. PICK i \in Seen_ : \A k \in Seen_ : k # i => Ahead(i, k)
  BY <1>3, OneAhead DEF TimelineInv
<1>5. i \in Transfers /\ i \in Listed /\ i \in Nat /\ timeline[i].updated \in Nat
  BY SettledFacts
<1>6. \A k \in DOMAIN chain : chain[k].updated <= timeline[i].updated
  <2>1. PICK l \in OwnIn(timeline, j0) : l \in Listed /\ timeline[l].updated = chain[j0].updated
    BY <1>1, <1>2
  <2>2. l \in Seen_ /\ timeline[l].updated \in Nat
    BY <2>1, SettledFacts
  <2>3. timeline[l].updated <= timeline[i].updated
    <3>1. CASE l = i
      BY <1>5, <3>1
    <3>2. CASE l # i
      <4>1. Ahead(i, l)
        BY <1>4, <2>2, <3>2
      <4> QED
        BY <1>5, <2>2, <4>1 DEF Ahead, Later
    <3> QED
      BY <3>1, <3>2
  <2>4. ASSUME NEW k \in DOMAIN chain PROVE chain[k].updated <= timeline[i].updated
    <3>1. chain[k].updated <= chain[j0].updated /\ chain[k].updated \in Nat /\ chain[j0].updated \in Nat
      BY <1>1, SettledFacts DEF LastEnded
    <3> QED
      BY <1>5, <2>1, <2>2, <2>3, <3>1
  <2> QED
    BY <2>4
<1>7. CASE timeline[i].id[1] = "retry"
  <2>1. timeline[i].updated < chain[j0].updated /\ chain[j0].updated <= timeline[i].updated
    BY <1>1, <1>5, <1>6, <1>7 DEF LastEnded, Transfers
  <2>2. chain[j0].updated \in Nat
    BY <1>1, SettledFacts DEF LastEnded
  <2> QED
    BY <1>5, <2>1, <2>2
<1>8. CASE i \in OwnIn(timeline, timeline[i].job)
  <2>1. PICK j : j = timeline[i].job
    OBVIOUS
  <2>2. j \in DOMAIN chain /\ i \in OwnIn(timeline, j)
    BY <1>5, <1>8, <2>1, SettledFacts
  <2>3. PICK m \in OwnIn(timeline, j) : IsLast(timeline, j, m) /\ timeline[m].updated = chain[j].updated
    BY <2>2, SettledFacts DEF TellsOf
  <2>4. timeline[i].updated <= chain[j].updated
    <3>1. i <= m /\ m \in Nat
      BY <2>2, <2>3, SettledFacts DEF IsLast
    <3>2. i < m => timeline[i].updated <= timeline[m].updated
      BY <2>2, <2>3, SettledFacts DEF OwnOrder
    <3> QED
      BY <1>5, <2>3, <3>1, <3>2
  <2>5. j \in LastEnded
    <3>1. ASSUME NEW k \in DOMAIN chain PROVE chain[k].updated <= chain[j].updated
      <4>1. chain[k].updated \in Nat /\ chain[j].updated \in Nat /\ chain[k].updated <= timeline[i].updated
        BY <1>6, <2>2, SettledFacts
      <4> QED
        BY <1>5, <2>4, <4>1
    <3> QED
      BY <2>2, <3>1 DEF LastEnded
  <2>a. PICK l \in OwnIn(timeline, j) :
          /\ IsLast(timeline, j, l) /\ l \in Listed /\ timeline[l].updated = chain[j].updated
          /\ timeline[l].status = job_status(chain[j].status)
    BY <1>2, <2>5
  <2>b. l = i
    <3>1. l \in Nat /\ i <= l /\ l \in Transfers /\ l \in Seen_
      BY <2>2, <2>a, SettledFacts DEF IsLast
    <3>2. ASSUME i < l PROVE FALSE
      <4>1. /\ timeline[i].updated <= timeline[l].updated
            /\ timeline[i].created = chain[j].created /\ timeline[l].created = chain[j].created
        BY <2>2, <3>2, SettledFacts DEF OwnOrder
      <4>2. /\ timeline[i].updated \in Nat /\ timeline[l].updated \in Nat
            /\ timeline[i].created \in Nat /\ timeline[l].created \in Nat
        BY <1>5, <3>1, SettledFacts
      <4>3. Ahead(i, l)
        BY <1>4, <1>5, <3>1, <3>2
      <4> QED
        BY <1>5, <3>1, <3>2, <4>1, <4>2, <4>3 DEF Ahead, Later
    <3> QED
      BY <1>5, <3>1, <3>2
  <2>6. timeline[i].status # "retrying"
    BY <2>2, <2>a, <2>b, JobStatusIs, ChainFacts DEF Work, JobStates, TimelineInv, TimelineTypes
  <2>7. \A k \in Current : timeline[k].stage = "transfer" => k = i
    <3> SUFFICES ASSUME NEW k \in Current, timeline[k].stage = "transfer", k # i PROVE FALSE
      OBVIOUS
    <3>1. k \in Transfers /\ k \in Seen_
      BY DEF Current, Listed, Transfers
    <3>2. Key(timeline[i]) = Key(timeline[k]) /\ i \in Listed
      BY <1>5, <3>1, SettledFacts
    <3>3. Ahead(k, i)
      BY <3>2 DEF Current, Ahead
    <3>4. Ahead(i, k)
      BY <1>4, <3>1
    <3>5. i \in Nat /\ k \in Nat
      BY <1>5, <3>1, SettledFacts
    <3>6. /\ timeline[i].updated \in Nat /\ timeline[i].created \in Nat
          /\ timeline[k].updated \in Nat /\ timeline[k].created \in Nat
      BY <1>5, <3>1, SettledFacts
    <3> QED
      BY <3>3, <3>4, <3>5, <3>6 DEF Ahead, Later
  <2>8. i \in Current
    <3> SUFFICES ASSUME NEW k \in Listed, Key(timeline[k]) = Key(timeline[i]), k # i PROVE Ahead(i, k)
      BY <1>5 DEF Current, Ahead
    <3>1. timeline[k].stage = "transfer"
      BY <1>5, SettledFacts DEF Key
    <3> QED
      BY <1>4, <3>1 DEF Transfers, Listed
  <2>9. PICK e : e = timeline[i]
    OBVIOUS
  <2>10. e.stage = "transfer" /\ e.status = job_status(chain[j].status)
    BY <1>5, <2>a, <2>b, <2>9 DEF Transfers
  <2>11. e \in current_stage_events
    BY <2>6, <2>8, <2>9 DEF current_stage_events
  <2>12. \A f \in current_stage_events : f.stage = "transfer" => f = e
    BY <2>7, <2>9 DEF current_stage_events
  <2>13. {f \in current_stage_events : f.stage = "transfer"} = {e}
    BY <2>10, <2>11, <2>12
  <2> QED
    BY <2>5, <2>10, <2>13
<1> QED
  BY <1>5, <1>7, <1>8, SettledFacts

\* The timeline tells where each job is, and its summary how the stage ended,
\* for every number of jobs, retries and events: whatever notice is lost, the
\* others are read in the order in which their jobs moved.  What a shutdown
\* marks over an end, and a last end that the summary does not list, are excepted.
THEOREM TimelineStands == AutomationSpec => []TimelineTrue
<1>1. TimelineInv => TimelineTrue
  <2>1. TimelineInv => SummaryCurrent
    BY SummaryShows DEF SummaryCurrent, AllTold
  <2> QED
    BY <2>1, FollowsTold DEF TimelineTrue
<1> QED
  BY TimelineInitial, TimelineStep, <1>1, PTL DEF AutomationSpec

----------------------------------------------------------------------------
(* Beside each other.                                                      *)

\* The messages, the commands, the settings and the timeline of one instance,
\* in one process: none of them disturbs another.
THEOREM InterfacesStand ==
  InterfacesSpec => [](DigestKept /\ ConfirmationsHold /\ SettingsHold /\ TimelineTrue)
<1>1. InterfacesInit => NotificationsInit /\ TelegramInit /\ SettingsInit /\ AutomationInit
  BY DEF InterfacesInit, Seen
<1>2. [InterfacesNext]_ivars =>
        [NotificationsNext]_nvars /\ [TelegramNext]_bvars /\ [SettingsNext]_svars /\ [AutomationNext]_avars
  BY DEF InterfacesNext, ivars
<1> QED
  BY <1>1, <1>2, DigestHolds, ConfirmationsStand, SettingsStand, TimelineStands, PTL
     DEF InterfacesSpec, NotificationsSpec, TelegramSpec, AutomationSpec
=============================================================================

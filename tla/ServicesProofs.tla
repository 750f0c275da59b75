---------------------------- MODULE ServicesProofs ----------------------------
(***************************************************************************)
(* Safety of what goes on beside the jobs: the file of a store from one     *)
(* process to the next, the schedules, the program that is replaced while   *)
(* it runs, and the data that a restore replaces between two starts; for    *)
(* any number of processes, requests, releases, changes and mishaps.        *)
(***************************************************************************)
EXTENDS Services, RetentionProofs, FiniteSetTheorems, SequenceTheorems, WellFoundedInduction, TLAPS

----------------------------------------------------------------------------
(* The file of a store.                                                    *)

ChangeSets == {S \in SUBSET Changes : IsFiniteSet(S)}
FileStates == [state : {"absent", "good", "bad"}, version : Nat, changes : ChangeSets]
Openers == [pc : {"down", "load", "migrate", "decide", "up"}, release : {0} \cup Releases,
            allow : BOOLEAN, memory : ChangeSets]

FileTypes ==
  /\ kind \in {"settings", "list", "state", "token"} /\ forced \in BOOLEAN /\ damage \in 0 .. MaxDamage
  /\ file \in FileStates /\ opener \in Openers
  /\ opener.pc # "down" => opener.release \in Releases
  /\ aside \subseteq ChangeSets /\ copies \in [Schemas -> SUBSET ChangeSets]
  /\ acked \in ChangeSets /\ waived \subseteq Changes

\* The copies on disk beside the file.
Aside == UNION aside \cup UNION UNION {copies[v] : v \in Schemas}

\* A process that serves has in memory, or beside the file, all that was
\* saved: what it writes next loses nothing.
MemoryKept == opener.pc = "up" => forced \/ acked \subseteq opener.memory \cup Aside

\* A file that is there has what the user has not given up, all of it written
\* by releases its version understands; one that is missing and was not set
\* aside has never been written.
FileTells ==
  /\ file.state = "absent" => file.changes = {} /\ (aside = {} => acked = {})
  /\ file.state # "absent" =>
       acked \ waived \subseteq file.changes /\ \A c \in file.changes : c.by <= file.version
  /\ opener.pc = "migrate" => file.state # "absent" /\ file.version <= opener.release

FilesInv == FileTypes /\ NothingLost /\ NotEmptied /\ MemoryKept /\ FileTells

LEMMA ChangeBy ==
  ASSUME NEW S \in ChangeSets
  PROVE  \A c \in S : c.by \in Nat
BY FilesAssumption DEF ChangeSets, Changes

LEMMA NoChanges == {} \in ChangeSets
BY FS_EmptySet DEF ChangeSets

LEMMA FilesInitHolds == FilesInit => FilesInv
<1> SUFFICES ASSUME FilesInit PROVE FilesInv
  OBVIOUS
<1>1. /\ kind \in {"settings", "list", "state", "token"} /\ aside = {}
      /\ copies = [v \in Schemas |-> {}] /\ opener = NoProc
      /\ acked = file.changes /\ waived = {} /\ forced = FALSE /\ damage = 0
  BY DEF FilesInit
<1>2. \/ file = Absent
      \/ \E v \in Schemas : file = Good(v, {[n |-> 0, by |-> v]})
  BY DEF FilesInit
<1>3. /\ file \in FileStates
      /\ file.state = "absent" => file.changes = {}
      /\ \A c \in file.changes : c.by <= file.version
  <2>1. CASE file = Absent
    BY <2>1, NoChanges DEF Absent, FileStates
  <2>2. ASSUME NEW v \in Schemas, file = Good(v, {[n |-> 0, by |-> v]})
        PROVE  /\ file \in FileStates /\ file.state # "absent"
               /\ \A c \in file.changes : c.by <= file.version
    <3> DEFINE x == [n |-> 0, by |-> v]
    <3>1. v \in Nat /\ x \in Changes /\ x.by = v
      BY FilesAssumption DEF Changes
    <3>2. IsFiniteSet({x})
      BY FS_Singleton
    <3> HIDE DEF x
    <3>3. {x} \in ChangeSets
      BY <3>1, <3>2 DEF ChangeSets
    <3>4. file = Good(v, {x})
      BY <2>2 DEF x
    <3> QED
      BY <3>1, <3>3, <3>4 DEF Good, FileStates
  <2> QED
    BY <1>2, <2>1, <2>2 DEF Absent
<1>4. opener.pc = "down" /\ opener \in Openers
  BY <1>1, NoChanges DEF NoProc, Openers
<1>5. acked \in ChangeSets
  BY <1>1, <1>3 DEF FileStates
<1>6. FileTypes
  <2>1. damage \in 0 .. MaxDamage
    BY <1>1, FilesAssumption
  <2>2. forced \in BOOLEAN
    BY <1>1, Zenon
  <2> QED
    BY <1>1, <1>3, <1>4, <1>5, <2>1, <2>2 DEF FileTypes
<1>7. NothingLost /\ NotEmptied /\ MemoryKept
  BY <1>1, <1>4 DEF NothingLost, NotEmptied, MemoryKept
<1>8. FileTells
  BY <1>1, <1>3, <1>4 DEF FileTells
<1> QED
  BY <1>6, <1>7, <1>8 DEF FilesInv

\* The types as facts about fields.
LEMMA FileFacts ==
  ASSUME FilesInv
  PROVE  /\ file.state \in {"absent", "good", "bad"} /\ file.version \in Nat
         /\ file.changes \in ChangeSets /\ opener.memory \in ChangeSets
         /\ opener.pc \in {"down", "load", "migrate", "decide", "up"} /\ opener.allow \in BOOLEAN
         /\ opener.release \in Nat
         /\ \A c \in file.changes \cup opener.memory \cup acked : c.by \in Nat
<1>1. file \in FileStates /\ opener \in Openers /\ acked \in ChangeSets
  BY DEF FilesInv, FileTypes
<1>2. file.changes \in ChangeSets /\ opener.memory \in ChangeSets
  BY <1>1 DEF FileStates, Openers
<1>3. \A c \in file.changes \cup opener.memory \cup acked : c.by \in Nat
  BY <1>1, <1>2, ChangeBy
<1>4. /\ file.state \in {"absent", "good", "bad"} /\ file.version \in Nat
      /\ opener.pc \in {"down", "load", "migrate", "decide", "up"} /\ opener.release \in {0} \cup Releases
  BY <1>1 DEF FileStates, Openers
<1>5. opener.allow \in BOOLEAN
  BY <1>1, Zenon DEF Openers
<1>6. opener.release \in Nat
  <2>1. {0} \cup Releases \subseteq Nat
    BY FilesAssumption
  <2> QED
    BY <1>4, <2>1, Zenon
<1> QED
  BY <1>2, <1>3, <1>4, <1>5, <1>6, Zenon

\* How the process goes on.
LEMMA OpenerMoves ==
  ASSUME FilesInv
  PROVE  /\ NoProc \in Openers /\ NoProc.pc = "down" /\ NoProc.memory = {}
         /\ \A m \in ChangeSets :
              LET o == [opener EXCEPT !.pc = "up", !.memory = m] IN
              /\ o \in Openers /\ o.pc = "up" /\ o.memory = m
              /\ o.release = opener.release /\ o.allow = opener.allow
         /\ \A p \in {"migrate", "decide"} :
              LET o == [opener EXCEPT !.pc = p] IN
              /\ o \in Openers /\ o.pc = p /\ o.memory = opener.memory
              /\ o.release = opener.release /\ o.allow = opener.allow
         /\ \A r \in Releases, a \in BOOLEAN :
              LET o == [NoProc EXCEPT !.pc = "load", !.release = r, !.allow = a] IN
              o \in Openers /\ o.pc = "load" /\ o.release = r /\ o.memory = {}
<1>1. opener \in Openers
  BY DEF FilesInv, FileTypes
<1>2. NoProc \in Openers /\ NoProc.pc = "down" /\ NoProc.memory = {}
  BY NoChanges DEF NoProc, Openers
<1>3. ASSUME NEW m \in ChangeSets
      PROVE  LET o == [opener EXCEPT !.pc = "up", !.memory = m] IN
              /\ o \in Openers /\ o.pc = "up" /\ o.memory = m
              /\ o.release = opener.release /\ o.allow = opener.allow
  BY <1>1 DEF Openers
<1>4. ASSUME NEW p \in {"migrate", "decide"}
      PROVE  LET o == [opener EXCEPT !.pc = p] IN
              /\ o \in Openers /\ o.pc = p /\ o.memory = opener.memory
              /\ o.release = opener.release /\ o.allow = opener.allow
  BY <1>1 DEF Openers
<1>5. ASSUME NEW r \in Releases, NEW a \in BOOLEAN
      PROVE  LET o == [NoProc EXCEPT !.pc = "load", !.release = r, !.allow = a] IN
             o \in Openers /\ o.pc = "load" /\ o.release = r /\ o.memory = {}
  BY NoChanges DEF NoProc, Openers
<1> QED
  BY <1>2, <1>3, <1>4, <1>5

LEMMA WrittenFile ==
  ASSUME NEW v \in Nat, NEW c \in ChangeSets
  PROVE  /\ Good(v, c) \in FileStates /\ Good(v, c).state = "good"
         /\ Good(v, c).version = v /\ Good(v, c).changes = c
BY DEF Good, FileStates

LEMMA AbsentFile == Absent \in FileStates /\ Absent.state = "absent" /\ Absent.changes = {}
BY NoChanges DEF Absent, FileStates

\* The process ends or has not begun to serve: nothing is written.
LEMMA OpenerKeeps ==
  ASSUME FilesInv, opener' \in Openers, opener'.pc \notin {"up", "migrate"},
         opener'.pc # "down" => opener'.release \in Releases,
         damage' \in 0 .. MaxDamage,
         UNCHANGED <<kind, file, aside, copies, acked, waived, forced>>
  PROVE  FilesInv'
<1>1. FileTypes'
  BY DEF FilesInv, FileTypes
<1>2. NothingLost'
  BY DEF FilesInv, NothingLost
<1>3. NotEmptied' /\ MemoryKept'
  BY DEF NotEmptied, MemoryKept
<1>4. FileTells'
  BY DEF FilesInv, FileTells
<1> QED
  BY <1>1, <1>2, <1>3, <1>4 DEF FilesInv

\* A start without data: allowed by the user, or the very first.
LEMMA EmptyKeeps ==
  ASSUME FilesInv, StartEmpty, opener.pc \in {"load", "decide"},
         opener.allow \/ (file.state = "absent" /\ aside = {}),
         UNCHANGED <<kind, aside, copies, acked, damage>>,
         forced' = (forced \/ file.state # "absent")
  PROVE  FilesInv'
<1>1. /\ opener' = [opener EXCEPT !.pc = "up", !.memory = {}]
      /\ waived' = (IF opener.allow THEN acked ELSE waived)
      /\ file' = (IF kind \in {"settings", "state"} THEN Good(opener.release, {}) ELSE file)
  BY DEF StartEmpty, Up
<1>2. /\ opener' \in Openers /\ opener'.pc = "up" /\ opener'.memory = {}
      /\ opener'.release = opener.release
  BY <1>1, OpenerMoves, NoChanges
<1>3. opener.release \in Releases /\ opener.release \in Nat
  BY FilesAssumption DEF FilesInv, FileTypes
<1>4. /\ Good(opener.release, {}) \in FileStates /\ Good(opener.release, {}).state = "good"
      /\ Good(opener.release, {}).changes = {}
  BY <1>3, WrittenFile, NoChanges
<1>5. acked \ waived' = {}
  <2>1. CASE opener.allow
    BY <1>1, <2>1
  <2>2. CASE ~opener.allow
    BY <2>2 DEF FilesInv, FileTells
  <2> QED
    BY <2>1, <2>2
<1>6. forced' \/ acked \subseteq Aside
  BY DEF FilesInv, NothingLost, FileTells, Aside
<1>7. FileTypes'
  <2>1. file' \in FileStates /\ waived' \subseteq Changes
    BY <1>1, <1>4 DEF FilesInv, FileTypes, ChangeSets
  <2>2. forced' \in BOOLEAN
    BY Zenon DEF FilesInv, FileTypes
  <2> QED
    BY <1>2, <1>3, <2>1, <2>2 DEF FilesInv, FileTypes
<1>8. NothingLost' /\ MemoryKept'
  BY <1>6 DEF NothingLost, MemoryKept, Aside
<1>9. NotEmptied'
  BY <1>2, <1>5 DEF NotEmptied
<1>10. FileTells'
  <2>1. CASE file' = file
    BY <1>2, <1>5, <2>1 DEF FilesInv, FileTells
  <2>2. CASE file' = Good(opener.release, {})
    BY <1>2, <1>4, <1>5, <2>2 DEF FileTells
  <2> QED
    BY <1>1, <2>1, <2>2
<1> QED
  BY <1>7, <1>8, <1>9, <1>10 DEF FilesInv

\* The process serves what the file holds.
LEMMA ServeKeeps ==
  ASSUME FilesInv, Up(file.changes), file.state # "absent", opener.pc \in {"load", "migrate"},
         file.version <= opener.release,
         file' = file \/ file' = Good(opener.release, file.changes),
         copies' \in [Schemas -> SUBSET ChangeSets], \A v \in Schemas : copies[v] \subseteq copies'[v],
         UNCHANGED <<kind, aside, acked, waived, forced, damage>>
  PROVE  FilesInv'
<1>f. /\ file.version \in Nat /\ file.changes \in ChangeSets /\ opener.release \in Nat
      /\ \A c \in file.changes : c.by \in Nat
  BY FileFacts
<1>1. /\ opener' \in Openers /\ opener'.pc = "up" /\ opener'.memory = file.changes
      /\ opener'.release = opener.release
  BY <1>f, OpenerMoves DEF Up
<1>2. /\ file' \in FileStates /\ file'.state # "absent" /\ file'.changes = file.changes
      /\ file'.version \in {file.version, opener.release}
  BY <1>f, WrittenFile DEF FilesInv, FileTypes
<1>3. Aside \subseteq Aside'
  BY DEF Aside
<1>4. \A c \in file.changes : c.by <= file.version /\ c.by <= opener.release
  BY <1>f DEF FilesInv, FileTells
<1>5. FileTypes'
  BY <1>1, <1>2 DEF FilesInv, FileTypes
<1>6. NothingLost' /\ MemoryKept'
  <2>1. forced \/ acked \subseteq file.changes \cup Aside
    BY DEF FilesInv, NothingLost, Aside
  <2>2. forced' \/ acked' \subseteq file'.changes \cup Aside'
    BY <1>2, <1>3, <2>1
  <2> QED
    BY <1>1, <1>2, <2>2 DEF NothingLost, MemoryKept, Aside
<1>7. NotEmptied'
  BY <1>1, <1>4 DEF FilesInv, FileTells, NotEmptied
<1>8. FileTells'
  BY <1>1, <1>2, <1>4 DEF FilesInv, FileTells
<1> QED
  BY <1>5, <1>6, <1>7, <1>8 DEF FilesInv

LEMMA LoadSoundKeeps == FilesInv /\ LoadSound => FilesInv'
<1> SUFFICES ASSUME FilesInv, LoadSound PROVE FilesInv'
  OBVIOUS
<1> DEFINE v == file.version
<1>1. /\ opener.pc = "load" /\ file.state = "good"
      /\ UNCHANGED <<kind, file, aside, acked, waived, forced, damage>>
      /\ IF v > opener.release THEN opener' = NoProc
         ELSE IF v = opener.release THEN Up(file.changes)
         ELSE opener' = [opener EXCEPT !.pc = "migrate"]
      /\ copies' = IF v < opener.release /\ kind # "token" /\ copies[v] = {}
                   THEN [copies EXCEPT ![v] = {file.changes}] ELSE copies
  BY DEF LoadSound, RefuseStart
<1>2. /\ v \in Nat /\ file.changes \in ChangeSets /\ opener.release \in Nat
  BY FileFacts
<1> HIDE DEF v
<1>3. copies' \in [Schemas -> SUBSET ChangeSets] /\ \A u \in Schemas : copies[u] \subseteq copies'[u]
  BY <1>1, <1>2 DEF FilesInv, FileTypes
<1>4. CASE v > opener.release
  <2>1. opener' = NoProc /\ copies' = copies
    BY <1>1, <1>2, <1>4
  <2> QED
    BY <1>1, <2>1, OpenerMoves, OpenerKeeps DEF FilesInv, FileTypes
<1>5. CASE v = opener.release
  <2>1. Up(file.changes) /\ file.version <= opener.release
    BY <1>1, <1>2, <1>5 DEF v
  <2> QED
    BY <1>1, <1>3, <2>1, ServeKeeps
<1>6. CASE v < opener.release
  <2>1. opener' = [opener EXCEPT !.pc = "migrate"]
    BY <1>1, <1>2, <1>6
  <2>2. opener' \in Openers /\ opener'.pc = "migrate" /\ opener'.release = opener.release
    BY <2>1, OpenerMoves
  <2>3. Aside \subseteq Aside'
    BY <1>1, <1>3 DEF Aside
  <2>4. FileTypes'
    BY <1>1, <1>3, <2>2 DEF FilesInv, FileTypes
  <2>5. NothingLost' /\ NotEmptied' /\ MemoryKept'
    BY <1>1, <2>2, <2>3 DEF FilesInv, NothingLost, NotEmptied, MemoryKept, Aside
  <2>6. FileTells'
    BY <1>1, <1>2, <1>6, <2>2 DEF FilesInv, FileTells, v
  <2> QED
    BY <2>4, <2>5, <2>6 DEF FilesInv
<1> QED
  BY <1>2, <1>4, <1>5, <1>6

LEMMA LoadDamagedKeeps == FilesInv /\ LoadDamaged => FilesInv'
<1> SUFFICES ASSUME FilesInv, LoadDamaged PROVE FilesInv'
  OBVIOUS
<1>1. CASE kind = "token"
  <2>1. opener' = NoProc /\ UNCHANGED <<kind, file, aside, copies, acked, waived, forced, damage>>
    BY <1>1 DEF LoadDamaged, RefuseStart
  <2> QED
    BY <2>1, OpenerMoves, OpenerKeeps DEF FilesInv, FileTypes
<1>2. CASE kind # "token"
  <2>1. /\ opener.pc = "load" /\ file.state = "bad" /\ opener' = [opener EXCEPT !.pc = "decide"]
        /\ UNCHANGED <<kind, copies, acked, waived, forced>>
        /\ \/ aside' = aside \cup {file.changes} /\ file' = Absent /\ UNCHANGED damage
           \/ damage < MaxDamage /\ damage' = damage + 1 /\ UNCHANGED <<file, aside>>
    BY <1>2 DEF LoadDamaged, Harm
  <2>2. opener' \in Openers /\ opener'.pc = "decide" /\ opener'.release = opener.release
        /\ opener.release \in Releases
    BY <2>1, OpenerMoves DEF FilesInv, FileTypes
  <2>3. CASE UNCHANGED <<file, aside>>
    <3>1. damage' \in 0 .. MaxDamage
      BY <2>1, FilesAssumption DEF FilesInv, FileTypes
    <3> QED
      BY <2>1, <2>2, <2>3, <3>1, OpenerKeeps
  <2>4. CASE aside' = aside \cup {file.changes} /\ file' = Absent /\ UNCHANGED damage
    <3>1. file.changes \in ChangeSets /\ Aside' = Aside \cup file.changes
      BY <2>1, <2>4, FileFacts DEF Aside
    <3>2. FileTypes'
      BY <2>1, <2>2, <2>4, <3>1, AbsentFile DEF FilesInv, FileTypes
    <3>3. NothingLost' /\ NotEmptied' /\ MemoryKept'
      <4>1. forced \/ acked \subseteq file.changes \cup Aside
        BY DEF FilesInv, NothingLost, Aside
      <4>2. forced' \/ acked' \subseteq Aside'
        BY <2>1, <3>1, <4>1
      <4> QED
        BY <2>2, <4>2 DEF NothingLost, NotEmptied, MemoryKept, Aside
    <3>4. FileTells'
      BY <2>2, <2>4, AbsentFile DEF FileTells
    <3> QED
      BY <3>2, <3>3, <3>4 DEF FilesInv
  <2> QED
    BY <2>1, <2>3, <2>4
<1> QED
  BY <1>1, <1>2

\* A change is written over everything the memory holds.
LEMMA SaveChangeKeeps == FilesInv /\ SaveChange => FilesInv'
<1> SUFFICES ASSUME FilesInv, SaveChange PROVE FilesInv'
  OBVIOUS
<1> DEFINE x == [n |-> Cardinality(acked) + 1, by |-> opener.release]
           c == opener.memory \cup {x}
<1>1. /\ opener.pc = "up" /\ Cardinality(acked) <= MaxChanges
      /\ \/ /\ file' = Good(opener.release, c) /\ acked' = acked \cup c
            /\ Up(c) /\ UNCHANGED damage
         \/ /\ damage < MaxDamage /\ damage' = damage + 1
            /\ file' \in {file, Good(opener.release, c)} /\ UNCHANGED <<acked, opener>>
      /\ UNCHANGED <<kind, aside, copies, waived, forced>>
  BY DEF SaveChange, Harm
<1>2. /\ opener.release \in Releases /\ opener.release \in Nat /\ acked \in ChangeSets
      /\ opener.memory \in ChangeSets /\ file \in FileStates /\ opener \in Openers
  BY <1>1, FilesAssumption, FileFacts DEF FilesInv, FileTypes
<1>3. x \in Changes /\ x.by = opener.release
  <2>1. Cardinality(acked) \in Nat
    BY <1>2, FS_CardinalityType DEF ChangeSets
  <2> QED
    BY <1>1, <1>2, <2>1, FilesAssumption DEF Changes
<1> HIDE DEF x
<1>4. c \in ChangeSets
  BY <1>2, <1>3, FS_AddElement DEF ChangeSets
<1>5. acked \cup c \in ChangeSets
  BY <1>2, <1>4, FS_Union DEF ChangeSets
<1>6. /\ Good(opener.release, c) \in FileStates /\ Good(opener.release, c).state = "good"
      /\ Good(opener.release, c).version = opener.release /\ Good(opener.release, c).changes = c
  BY <1>2, <1>4, WrittenFile
<1>7. /\ \A y \in c : y.by <= opener.release
      /\ acked \ waived \subseteq opener.memory
      /\ forced \/ acked \subseteq opener.memory \cup Aside
  BY <1>1, <1>2, <1>3 DEF FilesInv, NotEmptied, MemoryKept
<1>8. opener.memory \subseteq c /\ Aside' = Aside
  BY <1>1 DEF Aside
<1>9. CASE file' = Good(opener.release, c) /\ acked' = acked \cup c /\ Up(c) /\ UNCHANGED damage
  <2>1. opener' \in Openers /\ opener'.pc = "up" /\ opener'.memory = c /\ opener'.release = opener.release
    BY <1>4, <1>9, OpenerMoves DEF Up
  <2> HIDE DEF c
  <2>2. FileTypes'
    BY <1>1, <1>2, <1>5, <1>6, <1>9, <2>1 DEF FilesInv, FileTypes
  <2>3. NothingLost' /\ MemoryKept'
    <3>1. forced' \/ acked' \subseteq c \cup Aside'
      BY <1>1, <1>7, <1>8, <1>9
    <3> QED
      BY <1>6, <1>9, <2>1, <3>1 DEF NothingLost, MemoryKept, Aside
  <2>4. acked' \ waived' \subseteq c
    BY <1>1, <1>7, <1>8, <1>9
  <2>5. NotEmptied'
    BY <1>7, <2>1, <2>4 DEF NotEmptied
  <2>6. FileTells'
    BY <1>6, <1>7, <1>9, <2>1, <2>4 DEF FileTells
  <2> QED
    BY <2>2, <2>3, <2>5, <2>6 DEF FilesInv
<1>10. CASE /\ damage < MaxDamage /\ damage' = damage + 1
            /\ file' \in {file, Good(opener.release, c)} /\ UNCHANGED <<acked, opener>>
  <2>1. damage' \in 0 .. MaxDamage
    BY <1>10, FilesAssumption DEF FilesInv, FileTypes
  <2>2. CASE file' = file
    BY <1>1, <1>10, <2>1, <2>2 DEF FilesInv, FileTypes, NothingLost, NotEmptied, MemoryKept, FileTells, Aside
  <2>3. CASE file' = Good(opener.release, c)
    <3> HIDE DEF c
    <3>1. FileTypes'
      BY <1>1, <1>2, <1>6, <1>10, <2>1, <2>3 DEF FilesInv, FileTypes
    <3>2. NothingLost' /\ MemoryKept'
      <4>1. forced' \/ acked' \subseteq c \cup Aside'
        BY <1>1, <1>7, <1>8, <1>10
      <4> QED
        BY <1>1, <1>6, <1>7, <1>8, <1>10, <2>3, <4>1 DEF NothingLost, MemoryKept, Aside
    <3>3. NotEmptied'
      BY <1>1, <1>10 DEF FilesInv, NotEmptied
    <3>4. FileTells'
      BY <1>1, <1>6, <1>7, <1>8, <1>10, <2>3 DEF FileTells
    <3> QED
      BY <3>1, <3>2, <3>3, <3>4 DEF FilesInv
  <2> QED
    BY <1>10, <2>2, <2>3
<1> QED
  BY <1>1, <1>9, <1>10

LEMMA PutBackKeeps ==
  ASSUME FilesInv, NEW v \in Releases,
         NEW c \in aside \cup UNION {copies[u] : u \in Schemas}, PutBack(v, c)
  PROVE  FilesInv'
<1>1. /\ opener.pc = "down" /\ file.state = "absent" /\ \A x \in c : x.by <= v
      /\ file' = Good(v, c) /\ waived' = acked \ c
      /\ UNCHANGED <<kind, aside, copies, opener, acked, forced, damage>>
  BY DEF PutBack
<1>2. v \in Nat /\ c \in ChangeSets
  BY FilesAssumption DEF FilesInv, FileTypes
<1>3. /\ file' \in FileStates /\ file'.state = "good" /\ file'.version = v /\ file'.changes = c
  BY <1>1, <1>2, WrittenFile
<1>4. FileTypes'
  BY <1>1, <1>3 DEF FilesInv, FileTypes, ChangeSets
<1>5. NothingLost' /\ NotEmptied' /\ MemoryKept'
  <2>1. forced \/ acked \subseteq Aside
    BY <1>1 DEF FilesInv, NothingLost, FileTells, Aside
  <2> QED
    BY <1>1, <1>3, <2>1 DEF NothingLost, NotEmptied, MemoryKept, Aside
<1>6. FileTells'
  BY <1>1, <1>3 DEF FileTells
<1> QED
  BY <1>4, <1>5, <1>6 DEF FilesInv

LEMMA FilesStep ==
  ASSUME FilesInv, [FilesNext]_fvars
  PROVE  FilesInv'
<1>t. FileTypes
  BY DEF FilesInv
<1>1. ASSUME NEW r \in Releases, NEW allow \in BOOLEAN, StartProgram(r, allow) PROVE FilesInv'
  <2>1. opener' \in Openers /\ opener'.pc = "load" /\ opener'.release = r
    BY <1>1, OpenerMoves DEF StartProgram
  <2> QED
    BY <1>t, <1>1, <2>1, OpenerKeeps DEF StartProgram, FileTypes
<1>2. CASE LoadMissing
  <2>1. CASE Initialize
    <3>1. /\ StartEmpty /\ opener.pc = "load" /\ file.state = "absent"
          /\ UNCHANGED <<kind, aside, copies, acked, forced, damage>>
      BY <1>2, <2>1 DEF LoadMissing
    <3>2. opener.allow \/ (file.state = "absent" /\ aside = {})
      BY <2>1, <3>1 DEF Initialize
    <3>3. forced' = (forced \/ file.state # "absent")
      BY <1>t, <3>1 DEF FileTypes
    <3> QED
      BY <3>1, <3>2, <3>3, EmptyKeeps
  <2>2. CASE ~Initialize
    <3>1. opener' = NoProc /\ UNCHANGED <<kind, file, aside, copies, acked, waived, forced, damage>>
      BY <1>2, <2>2 DEF LoadMissing, RefuseStart
    <3> QED
      BY <1>t, <3>1, OpenerMoves, OpenerKeeps DEF FileTypes
  <2> QED
    BY <2>1, <2>2
<1>3. CASE Migrate
  <2>1. /\ opener.pc = "migrate" /\ Up(file.changes) /\ file' = Good(opener.release, file.changes)
        /\ UNCHANGED <<kind, aside, copies, acked, waived, forced, damage>>
    BY <1>3 DEF Migrate
  <2>2. file.state # "absent" /\ file.version <= opener.release
    BY <2>1 DEF FilesInv, FileTells
  <2> QED
    BY <1>t, <2>1, <2>2, ServeKeeps DEF FileTypes
<1>4. CASE Decide
  <2>1. CASE opener.allow /\ kind # "settings"
    <3>1. /\ StartEmpty /\ forced' = (forced \/ file.state # "absent") /\ opener.pc = "decide"
          /\ UNCHANGED <<kind, aside, copies, acked, damage>>
      BY <1>4, <2>1 DEF Decide
    <3> QED
      BY <2>1, <3>1, EmptyKeeps
  <2>2. CASE ~(opener.allow /\ kind # "settings")
    <3>1. opener' = NoProc /\ UNCHANGED <<kind, file, aside, copies, acked, waived, forced, damage>>
      BY <1>4, <2>2 DEF Decide, RefuseStart
    <3> QED
      BY <1>t, <3>1, OpenerMoves, OpenerKeeps DEF FileTypes
  <2> QED
    BY <2>1, <2>2
<1>5. ASSUME NEW kill \in BOOLEAN, ProcessEnds(kill) PROVE FilesInv'
  <2>1. opener' = NoProc /\ UNCHANGED <<kind, file, aside, copies, acked, waived, forced>>
    BY <1>5 DEF ProcessEnds, RefuseStart
  <2>2. damage' \in 0 .. MaxDamage
    BY <1>t, <1>5, FilesAssumption DEF ProcessEnds, Harm, FileTypes
  <2> QED
    BY <2>1, <2>2, OpenerMoves, OpenerKeeps
<1>6. CASE Damage
  <2>1. /\ file.state = "good" /\ opener.pc = "down" /\ file' = [file EXCEPT !.state = "bad"]
        /\ UNCHANGED <<kind, aside, copies, opener, acked, waived, forced>>
        /\ damage < MaxDamage /\ damage' = damage + 1
    BY <1>6 DEF Damage, Harm
  <2>2. /\ file' \in FileStates /\ file'.state = "bad" /\ file'.changes = file.changes
        /\ file'.version = file.version
    BY <1>t, <2>1 DEF FileTypes, FileStates
  <2>3. damage' \in 0 .. MaxDamage
    BY <1>t, <2>1, FilesAssumption DEF FileTypes
  <2>4. FileTypes'
    BY <1>t, <2>1, <2>2, <2>3 DEF FileTypes
  <2>5. NothingLost' /\ NotEmptied' /\ MemoryKept' /\ FileTells'
    BY <2>1, <2>2 DEF FilesInv, NothingLost, NotEmptied, MemoryKept, FileTells
  <2> QED
    BY <2>4, <2>5 DEF FilesInv
<1>7. CASE UNCHANGED fvars
  BY <1>7 DEF fvars, FilesInv, FileTypes, NothingLost, NotEmptied, MemoryKept, FileTells, Aside
<1> QED
  BY <1>1, <1>2, <1>3, <1>4, <1>5, <1>6, <1>7, LoadSoundKeeps, LoadDamagedKeeps, SaveChangeKeeps,
     PutBackKeeps DEF FilesNext, LoadStep

\* What every variable of a store's file may hold.
THEOREM FilesTypes == FilesInit /\ [][FilesNext]_fvars => []FilesTypeOK
<1>1. FilesInv => FilesTypeOK
  <2> SUFFICES ASSUME FilesInv PROVE FilesTypeOK
    OBVIOUS
  <2>1. ChangeSets \subseteq SUBSET Changes
    BY DEF ChangeSets
  <2> QED
    BY <2>1 DEF FilesInv, FileTypes, FilesTypeOK, FileStates, Openers
<1>2. FilesInv /\ [FilesNext]_fvars => FilesInv'
  BY FilesStep
<1> QED
  BY FilesInitHolds, <1>1, <1>2, PTL

\* Through damage, migrations, starts of other releases and files that are put
\* back, no acknowledged change is lost, nor does a process serve without it
\* unless told to.
THEOREM StoreFilesKept == FilesInit /\ [][FilesNext]_fvars => []FilesKept
<1>1. FilesInv => FilesKept
  BY DEF FilesInv, FilesKept
<1>2. FilesInv /\ [FilesNext]_fvars => FilesInv'
  BY FilesStep
<1> QED
  BY FilesInitHolds, <1>1, <1>2, PTL

----------------------------------------------------------------------------
(* The schedules, where requests do not overlap.                           *)

Underway == {"stop", "start", "restop", "add", "note"}
Times == Values("check") \cup Values("signin")
Reloads == [pc : {"idle", "save", "next"} \cup Underway, todo : SUBSET Schedules,
            now : Schedules \cup {""}, at : Times, id : {0, 1}, previous : [Schedules -> Times]]

ScheduleTypes ==
  /\ settings \in [Schedules -> Times] /\ \A s \in Schedules : settings[s] \in Values(s)
  /\ cron \in [Schedules -> SUBSET [id : {1}, at : Times]]
  /\ job_id \in [Schedules -> {0, 1}] /\ ticking \in [Schedules -> BOOLEAN]
  /\ handler \in [Actors -> Reloads]
  /\ hour \in 0 .. Hours - 1

\* One request or the start of the application changes the schedules at a time.
OneReload == \A a, b \in Actors : handler[a] # Rest /\ handler[b] # Rest => a = b

\* A later stop removes every job of the schedule.
Owned(s) == \A c \in cron[s] : c.id = job_id[s]

\* What a request, or the start of the application, has found and has left
\* behind at each of its steps.
ReloadSound(a, h) ==
  /\ h.pc = "save" => h.previous = settings /\ h.todo = {}
  /\ a = Boot => h.pc \notin {"save", "stop"}
  /\ \A s \in h.todo : Owned(s) /\ (a = Boot => cron[s] = {})
  /\ h.pc \in Underway => h.now \in Schedules \ h.todo
  /\ h.pc = "stop" => Owned(h.now)
  /\ h.pc \in {"start", "restop", "add"} => cron[h.now] = {}
  /\ h.pc = "add" => job_id[h.now] = 0
  /\ h.pc \in {"restop", "add", "note"} => h.at = settings[h.now] /\ h.at # Off
  /\ h.pc = "note" => cron[h.now] = {[id |-> h.id, at |-> h.at]}

\* The reload of a schedule is still to come, or has begun.
Awaits(h, s) == s \in h.todo \/ (h.pc \in Underway /\ h.now = s)

\* A schedule that waits for no reload is as its settings ask, and its day is
\* not lost.
Settled(s) ==
  /\ settings[s] = Off => cron[s] = {}
  /\ settings[s] # Off => cron[s] = {[id |-> job_id[s], at |-> settings[s]]} /\ ticking[s]
  /\ s = "signin" /\ settings[s] # Off /\ hour >= settings[s] => attempted \/ succeeded

SchedulesInv ==
  /\ ScheduleTypes /\ OneReload
  /\ \A a \in Actors : ReloadSound(a, handler[a])
  /\ \A s \in Schedules : (\A a \in Actors : ~Awaits(handler[a], s)) => Settled(s)

LEMMA TimesFacts ==
  /\ Times \subseteq Nat /\ Off \in Times /\ Off \in Nat /\ Off # 0
  /\ \A s \in Schedules : Values(s) \subseteq Times
  /\ \A v \in Values("signin") : v # Off => v \in 0 .. Hours - 1
BY SchedulersAssumption DEF Times, Values, Off, Schedules

LEMMA RestFacts ==
  /\ Rest \in Reloads /\ Rest.pc = "idle" /\ Rest.todo = {} /\ Rest.id = 0
  /\ \A s \in Schedules : ~Awaits(Rest, s)
  /\ \A a \in Actors : ReloadSound(a, Rest)
<1>1. Rest \in Reloads
  BY TimesFacts DEF Rest, Reloads, Underway
<1>2. Rest.pc = "idle" /\ Rest.todo = {} /\ Rest.id = 0
  BY DEF Rest
<1> QED
  BY <1>1, <1>2, Zenon DEF Awaits, ReloadSound, Underway, Schedules

LEMMA SchedulesInitHolds == SchedulersInit => SchedulesInv
<1> SUFFICES ASSUME SchedulersInit PROVE SchedulesInv
  OBVIOUS
<1>1. BootReload \in Reloads /\ BootReload.pc = "next" /\ BootReload.todo = Schedules
  BY RestFacts DEF BootReload, Reloads, Underway
<1>2. \A a \in Actors : handler[a] = IF a = Boot THEN BootReload ELSE Rest
  BY DEF SchedulersInit
<1>3. Boot \in Actors
  BY DEF Actors
<1>4. ScheduleTypes
  <2>1. /\ cron \in [Schedules -> SUBSET [id : {1}, at : Times]] /\ job_id \in [Schedules -> {0, 1}]
        /\ ticking \in [Schedules -> BOOLEAN] /\ hour \in 0 .. Hours - 1
    BY DEF SchedulersInit
  <2>2. settings \in [Schedules -> Times] /\ \A s \in Schedules : settings[s] \in Values(s)
    <3>1. UNION {Values(s) : s \in Schedules} \subseteq Times
      BY TimesFacts
    <3> QED
      BY <3>1, TimesFacts DEF SchedulersInit
  <2>3. handler \in [Actors -> Reloads]
    BY <1>1, RestFacts DEF SchedulersInit
  <2> QED
    BY <2>1, <2>2, <2>3 DEF ScheduleTypes
<1>5. OneReload
  BY <1>2 DEF OneReload
<1>6. \A a \in Actors : ReloadSound(a, handler[a])
  <2>1. ReloadSound(Boot, BootReload)
    BY <1>1 DEF ReloadSound, Owned, SchedulersInit, Underway
  <2> QED
    BY <1>2, <2>1, RestFacts
<1>7. \A s \in Schedules : Awaits(handler[Boot], s)
  BY <1>1, <1>2, <1>3 DEF Awaits
<1> QED
  BY <1>3, <1>4, <1>5, <1>6, <1>7 DEF SchedulesInv

\* One actor moves while all others rest.
LEMMA ActorMoves ==
  ASSUME SchedulesInv, ScheduleTypes', NEW a \in Actors, handler[a] # Rest \/ Quiet,
         \A b \in Actors \ {a} : handler'[b] = handler[b],
         ReloadSound(a, handler[a])',
         \A s \in Schedules : ~Awaits(handler[a], s)' => Settled(s)'
  PROVE  SchedulesInv'
<1>1. \A b \in Actors \ {a} : handler'[b] = Rest
  BY DEF SchedulesInv, OneReload, Quiet
<1>2. OneReload'
  BY <1>1 DEF OneReload
<1>3. \A b \in Actors : ReloadSound(b, handler[b])'
  <2>1. \A b \in Actors : ReloadSound(b, Rest)'
    BY RestFacts DEF ReloadSound, Underway
  <2> QED
    BY <1>1, <2>1 DEF ReloadSound
<1>4. \A s \in Schedules : (\A b \in Actors : ~Awaits(handler[b], s)') => Settled(s)'
  OBVIOUS
<1> QED
  BY <1>2, <1>3, <1>4 DEF SchedulesInv

\* No request has begun while another goes on.
LEMMA ReadPreviousKeeps ==
  ASSUME SchedulesInv, ~Concurrent, NEW a \in Handlers, ReadPrevious(a) PROVE SchedulesInv'
<1>t. ScheduleTypes /\ a \in Actors /\ a # Boot /\ Quiet
  BY SchedulersAssumption DEF SchedulesInv, ReadPrevious, Actors
<1>1. /\ handler' = [handler EXCEPT ![a] = [Rest EXCEPT !.pc = "save", !.previous = settings]]
      /\ UNCHANGED <<settings, cron, job_id, ticking, hour, attempted, succeeded>>
  BY DEF ReadPrevious
<1>2. /\ [Rest EXCEPT !.pc = "save", !.previous = settings] \in Reloads
      /\ handler'[a] = [Rest EXCEPT !.pc = "save", !.previous = settings]
  BY <1>t, <1>1, RestFacts DEF ScheduleTypes, Reloads
<1>3. handler'[a].pc = "save" /\ handler'[a].previous = settings /\ handler'[a].todo = {}
  BY <1>2, RestFacts DEF Reloads
<1>4. ScheduleTypes'
  BY <1>t, <1>1, <1>2 DEF ScheduleTypes
<1>5. ReloadSound(a, handler[a])'
  BY <1>t, <1>1, <1>3 DEF ReloadSound, Underway
<1>6. \A s \in Schedules : Settled(s)
  BY <1>t, RestFacts DEF SchedulesInv, Quiet
<1>7. \A s \in Schedules : Settled(s)'
  BY <1>1, <1>6 DEF Settled
<1>8. \A b \in Actors \ {a} : handler'[b] = handler[b]
  BY <1>t, <1>1 DEF ScheduleTypes
<1> QED
  BY <1>t, <1>4, <1>5, <1>7, <1>8, ActorMoves

\* The others of an actor that is at work rest.
LEMMA Alone ==
  ASSUME SchedulesInv, NEW a \in Actors, handler[a].pc # "idle"
  PROVE  /\ handler[a] \in Reloads /\ handler[a] # Rest
         /\ \A b \in Actors \ {a} : handler[b] = Rest
         /\ \A s \in Schedules : ~Awaits(handler[a], s) => Settled(s)
         /\ ReloadSound(a, handler[a])
<1>1. handler[a] # Rest
  BY RestFacts
<1>2. \A b \in Actors \ {a} : handler[b] = Rest
  BY <1>1 DEF SchedulesInv, OneReload
<1>3. \A s \in Schedules : ~Awaits(handler[a], s) => Settled(s)
  BY <1>2, RestFacts DEF SchedulesInv
<1> QED
  BY <1>1, <1>2, <1>3 DEF SchedulesInv, ScheduleTypes

\* The reload of what has changed is to come; what has not changed is settled.
LEMMA SaveSettingsKeeps ==
  ASSUME SchedulesInv, NEW a \in Handlers, SaveSettings(a) PROVE SchedulesInv'
<1>t. ScheduleTypes /\ a \in Actors /\ a # Boot
  BY SchedulersAssumption DEF SchedulesInv, Actors
<1>1. handler[a].pc = "save" /\ UNCHANGED <<cron, job_id, ticking, hour, attempted, succeeded>>
  BY DEF SaveSettings
<1>2. /\ handler[a] \in Reloads /\ handler[a] # Rest
      /\ \A s \in Schedules : Settled(s)
      /\ handler[a].previous = settings
  <2>1. handler[a].todo = {} /\ handler[a].previous = settings
    BY <1>t, <1>1, Alone DEF ReloadSound
  <2>2. \A s \in Schedules : ~Awaits(handler[a], s)
    BY <1>1, <2>1 DEF Awaits, Underway
  <2> QED
    BY <1>t, <1>1, <2>1, <2>2, Alone
<1>3. \A s \in Schedules : Owned(s)
  BY <1>2 DEF Settled, Owned
<1>4. ASSUME NEW s \in Schedules, NEW v \in Values(s), NEW cookie \in {{}, Schedules},
             settings' = [settings EXCEPT ![s] = v],
             handler' = [handler EXCEPT ![a].pc = "next",
               ![a].todo = ToReload(handler[a].previous, [settings EXCEPT ![s] = v]) \cup cookie]
      PROVE  SchedulesInv'
  <2> DEFINE changed == ToReload(settings, [settings EXCEPT ![s] = v]) \cup cookie
  <2>1. settings' \in [Schedules -> Times] /\ \A x \in Schedules : settings'[x] \in Values(x)
    BY <1>t, <1>4, TimesFacts DEF ScheduleTypes
  <2>2. changed \in SUBSET Schedules /\ \A x \in Schedules \ changed : settings'[x] = settings[x]
    BY <1>4 DEF ToReload
  <2>3. /\ handler'[a] \in Reloads /\ handler'[a].pc = "next" /\ handler'[a].todo = changed
        /\ handler' = [handler EXCEPT ![a] = [handler[a] EXCEPT !.pc = "next", !.todo = changed]]
    <3>1. /\ [handler[a] EXCEPT !.pc = "next", !.todo = changed] \in Reloads
          /\ [handler[a] EXCEPT !.pc = "next", !.todo = changed].pc = "next"
          /\ [handler[a] EXCEPT !.pc = "next", !.todo = changed].todo = changed
      BY <1>2, <2>2 DEF Reloads
    <3>2. handler' = [handler EXCEPT ![a] = [handler[a] EXCEPT !.pc = "next", !.todo = changed]]
      BY <1>t, <1>2, <1>4 DEF ScheduleTypes
    <3>3. handler'[a] = [handler[a] EXCEPT !.pc = "next", !.todo = changed]
      BY <1>t, <3>2 DEF ScheduleTypes
    <3> QED
      BY <3>1, <3>2, <3>3, Zenon
  <2>4. ScheduleTypes' /\ \A b \in Actors \ {a} : handler'[b] = handler[b]
    <3> HIDE DEF changed
    <3>1. handler' \in [Actors -> Reloads] /\ \A b \in Actors \ {a} : handler'[b] = handler[b]
      BY <1>t, <2>3 DEF ScheduleTypes
    <3> QED
      BY <1>t, <1>1, <2>1, <3>1 DEF ScheduleTypes
  <2>5. ReloadSound(a, handler[a])'
    <3> HIDE DEF changed
    <3> QED
      BY <1>t, <1>1, <1>3, <2>2, <2>3 DEF ReloadSound, Underway, Owned
  <2>6. \A x \in Schedules : ~Awaits(handler[a], x)' => Settled(x)'
    <3> HIDE DEF changed
    <3> QED
      BY <1>1, <1>2, <2>2, <2>3 DEF Awaits, Settled
  <2> QED
    BY <1>t, <1>2, <2>4, <2>5, <2>6, ActorMoves
<1>5. CASE settings' = settings /\ handler' = [handler EXCEPT ![a] = Rest]
  <2>1. /\ ScheduleTypes' /\ handler'[a] = Rest
        /\ \A b \in Actors \ {a} : handler'[b] = handler[b]
    BY <1>t, <1>1, <1>5, RestFacts DEF ScheduleTypes
  <2>2. ReloadSound(a, handler[a])'
    BY <2>1, RestFacts DEF ReloadSound, Underway
  <2>3. \A s \in Schedules : Settled(s)'
    BY <1>1, <1>2, <1>5 DEF Settled
  <2> QED
    BY <1>t, <1>2, <2>1, <2>2, <2>3, ActorMoves
<1> QED
  BY <1>4, <1>5 DEF SaveSettings

\* The next schedule that waits becomes the one at work.
LEMMA NextReloadKeeps ==
  ASSUME SchedulesInv, NEW a \in Actors, NextReload(a) PROVE SchedulesInv'
<1>t. ScheduleTypes
  BY DEF SchedulesInv
<1>1. /\ handler[a].pc = "next"
      /\ UNCHANGED <<settings, cron, job_id, ticking, hour, attempted, succeeded>>
  BY DEF NextReload
<1>2. /\ handler[a] \in Reloads /\ handler[a] # Rest /\ ReloadSound(a, handler[a])
      /\ \A s \in Schedules : s \notin handler[a].todo => Settled(s)
  BY <1>1, Alone DEF Awaits, Underway
<1>3. CASE handler[a].todo = {}
  <2>1. handler' = [handler EXCEPT ![a] = Rest]
    BY <1>3 DEF NextReload
  <2>2. /\ ScheduleTypes' /\ handler'[a] = Rest
        /\ \A b \in Actors \ {a} : handler'[b] = handler[b]
    BY <1>t, <1>1, <2>1, RestFacts DEF ScheduleTypes
  <2>3. ReloadSound(a, handler[a])'
    BY <2>2, RestFacts DEF ReloadSound, Underway
  <2>4. \A s \in Schedules : Settled(s)'
    BY <1>1, <1>2, <1>3 DEF Settled
  <2> QED
    BY <1>2, <2>2, <2>3, <2>4, ActorMoves
<1>4. CASE handler[a].todo # {}
  <2> DEFINE n == IF "check" \in handler[a].todo THEN "check" ELSE "signin"
             p == IF a = Boot THEN "start" ELSE "stop"
             rest == handler[a].todo \ {n}
  <2>1. handler' = [handler EXCEPT ![a] = [handler[a] EXCEPT !.todo = rest, !.now = n, !.pc = p]]
    BY <1>4 DEF NextReload
  <2>2. n \in handler[a].todo /\ n \in Schedules /\ handler[a].todo \subseteq Schedules
    BY <1>2, <1>4 DEF Reloads, Schedules
  <2>3. /\ [handler[a] EXCEPT !.todo = rest, !.now = n, !.pc = p] \in Reloads
        /\ [handler[a] EXCEPT !.todo = rest, !.now = n, !.pc = p].todo = rest
        /\ [handler[a] EXCEPT !.todo = rest, !.now = n, !.pc = p].now = n
        /\ [handler[a] EXCEPT !.todo = rest, !.now = n, !.pc = p].pc = p
    <3>1. rest \in SUBSET Schedules /\ p \in {"start", "stop"} /\ n \in Schedules
      BY <2>2
    <3> HIDE DEF n, p, rest
    <3> QED
      BY <1>2, <3>1 DEF Reloads, Underway
  <2> HIDE DEF n, p, rest
  <2>4. /\ handler'[a] \in Reloads /\ handler'[a].todo = rest /\ handler'[a].now = n /\ handler'[a].pc = p
        /\ handler' \in [Actors -> Reloads] /\ \A b \in Actors \ {a} : handler'[b] = handler[b]
    BY <1>t, <2>1, <2>3, Zenon DEF ScheduleTypes
  <2>5. ScheduleTypes'
    BY <1>t, <1>1, <2>4 DEF ScheduleTypes
  <2>6. rest = handler[a].todo \ {n} /\ p = IF a = Boot THEN "start" ELSE "stop"
    BY DEF rest, p
  <2>7. \A s \in handler[a].todo : Owned(s)' /\ (a = Boot => cron'[s] = {})
    BY <1>1, <1>2 DEF ReloadSound, Owned
  <2>8. ReloadSound(a, handler[a])'
    BY <2>2, <2>4, <2>6, <2>7 DEF ReloadSound, Underway
  <2>9. \A s \in Schedules : ~Awaits(handler[a], s)' => Settled(s)'
    <3>1. \A s \in Schedules : ~Awaits(handler[a], s)' => s \notin handler[a].todo
      BY <2>2, <2>4, <2>6 DEF Awaits, Underway
    <3> QED
      BY <1>1, <1>2, <3>1 DEF Settled
  <2> QED
    BY <1>2, <2>4, <2>5, <2>8, <2>9, ActorMoves
<1> QED
  BY <1>3, <1>4

\* Every job of the schedule goes, for its id is the one kept.
LEMMA StopKeeps ==
  ASSUME SchedulesInv, NEW a \in Actors, stop(a) PROVE SchedulesInv'
<1> DEFINE s == handler[a].now
           p == IF handler[a].pc = "stop" THEN "start" ELSE "add"
<1>t. ScheduleTypes
  BY DEF SchedulesInv
<1>1. /\ handler[a].pc \in {"stop", "restop"}
      /\ cron' = [cron EXCEPT ![s] = Removed(s)] /\ job_id' = [job_id EXCEPT ![s] = 0]
      /\ UNCHANGED <<settings, ticking, hour, attempted, succeeded>>
  BY DEF stop
<1>2. handler' = [handler EXCEPT ![a] = [handler[a] EXCEPT !.pc = p]]
  BY <1>t DEF stop, ScheduleTypes
<1>3. /\ handler[a] \in Reloads /\ handler[a] # Rest /\ ReloadSound(a, handler[a])
      /\ \A x \in Schedules : ~Awaits(handler[a], x) => Settled(x)
      /\ s \in Schedules \ handler[a].todo
  BY <1>1, Alone DEF ReloadSound, Underway
<1>4. Removed(s) = {}
  BY <1>1, <1>3 DEF Removed, ReloadSound, Owned
<1>5. /\ [handler[a] EXCEPT !.pc = p] \in Reloads
      /\ \A f \in {"todo", "now", "at", "id"} : [handler[a] EXCEPT !.pc = p][f] = handler[a][f]
      /\ [handler[a] EXCEPT !.pc = p].pc = p
  BY <1>3 DEF Reloads, Underway
<1>6. /\ handler'[a] \in Reloads /\ handler'[a].todo = handler[a].todo /\ handler'[a].now = s
      /\ handler'[a].at = handler[a].at /\ handler'[a].pc = p
      /\ handler' \in [Actors -> Reloads] /\ \A b \in Actors \ {a} : handler'[b] = handler[b]
  <2>1. handler'[a] = [handler[a] EXCEPT !.pc = p]
    BY <1>t, <1>2 DEF ScheduleTypes
  <2>2. handler' \in [Actors -> Reloads] /\ \A b \in Actors \ {a} : handler'[b] = handler[b]
    BY <1>t, <1>2, <1>5 DEF ScheduleTypes
  <2> QED
    BY <1>5, <2>1, <2>2
<1>7. /\ cron' \in [Schedules -> SUBSET [id : {1}, at : Times]] /\ cron'[s] = {}
      /\ job_id' \in [Schedules -> {0, 1}] /\ job_id'[s] = 0
      /\ \A x \in Schedules \ {s} : cron'[x] = cron[x] /\ job_id'[x] = job_id[x]
  BY <1>t, <1>1, <1>3, <1>4 DEF ScheduleTypes
<1>8. ScheduleTypes'
  BY <1>t, <1>1, <1>6, <1>7 DEF ScheduleTypes
<1>p. (p = "start" \/ (p = "add" /\ handler[a].pc = "restop")) /\ (a = Boot => handler[a].pc = "restop")
  BY <1>1, <1>3 DEF ReloadSound
<1> HIDE DEF s, p
<1>9. ReloadSound(a, handler[a])'
  <2>1. handler[a].pc = "restop" => handler[a].at = settings'[s] /\ handler[a].at # Off
    BY <1>1, <1>3 DEF ReloadSound, s
  <2>2. \A x \in handler[a].todo : Owned(x)' /\ (a = Boot => cron'[x] = {})
    <3>1. \A x \in handler[a].todo : x \in Schedules \ {s}
      BY <1>3 DEF Reloads
    <3> QED
      BY <1>3, <1>7, <3>1 DEF ReloadSound, Owned
  <2> QED
    BY <1>3, <1>6, <1>7, <1>p, <2>1, <2>2 DEF ReloadSound, Underway
<1>10. \A x \in Schedules : ~Awaits(handler[a], x)' => Settled(x)'
  <2> SUFFICES ASSUME NEW x \in Schedules, ~Awaits(handler[a], x)' PROVE Settled(x)'
    OBVIOUS
  <2>1. x # s /\ ~Awaits(handler[a], x)
    BY <1>6, <1>p DEF Awaits, Underway, s
  <2> QED
    BY <1>1, <1>3, <1>7, <2>1 DEF Settled
<1> QED
  BY <1>3, <1>6, <1>8, <1>9, <1>10, ActorMoves

\* start goes by the settings as they are.
LEMMA StartKeeps ==
  ASSUME SchedulesInv, NEW a \in Actors, start(a) PROVE SchedulesInv'
<1> DEFINE s == handler[a].now
           p == IF settings[s] = Off THEN "next" ELSE "restop"
           v == settings[s]
<1>t. ScheduleTypes
  BY DEF SchedulesInv
<1>1. handler[a].pc = "start" /\ UNCHANGED <<settings, cron, job_id, ticking, hour, attempted, succeeded>>
  BY DEF start
<1>3. /\ handler[a] \in Reloads /\ handler[a] # Rest /\ ReloadSound(a, handler[a])
      /\ \A x \in Schedules : ~Awaits(handler[a], x) => Settled(x)
      /\ s \in Schedules \ handler[a].todo /\ cron[s] = {} /\ v \in Times
  <2>1. /\ handler[a] \in Reloads /\ handler[a] # Rest /\ ReloadSound(a, handler[a])
        /\ \A x \in Schedules : ~Awaits(handler[a], x) => Settled(x)
    BY <1>1, Alone
  <2>2. s \in Schedules \ handler[a].todo /\ cron[s] = {}
    BY <1>1, <2>1 DEF ReloadSound, Underway
  <2> QED
    BY <1>t, <2>1, <2>2 DEF ScheduleTypes
<1>2. handler' = [handler EXCEPT ![a] = [handler[a] EXCEPT !.pc = p, !.at = v]]
  BY <1>t, <1>3 DEF start, ScheduleTypes
<1>5. /\ [handler[a] EXCEPT !.pc = p, !.at = v] \in Reloads
      /\ [handler[a] EXCEPT !.pc = p, !.at = v].todo = handler[a].todo
      /\ [handler[a] EXCEPT !.pc = p, !.at = v].now = s
      /\ [handler[a] EXCEPT !.pc = p, !.at = v].pc = p
      /\ [handler[a] EXCEPT !.pc = p, !.at = v].at = v
  BY <1>3 DEF Reloads, Underway
<1>6. /\ handler'[a] \in Reloads /\ handler'[a].todo = handler[a].todo /\ handler'[a].now = s
      /\ handler'[a].at = v /\ handler'[a].pc = p
      /\ handler' \in [Actors -> Reloads] /\ \A b \in Actors \ {a} : handler'[b] = handler[b]
  <2>1. handler'[a] = [handler[a] EXCEPT !.pc = p, !.at = v]
    BY <1>t, <1>2 DEF ScheduleTypes
  <2>2. handler' \in [Actors -> Reloads] /\ \A b \in Actors \ {a} : handler'[b] = handler[b]
    BY <1>t, <1>2, <1>5 DEF ScheduleTypes
  <2> QED
    BY <1>5, <2>1, <2>2
<1>8. ScheduleTypes'
  BY <1>t, <1>1, <1>6 DEF ScheduleTypes
<1>p. (p = "next" /\ v = Off) \/ (p = "restop" /\ v # Off)
  OBVIOUS
<1>v. v = settings[s] /\ s = handler[a].now
  OBVIOUS
<1> HIDE DEF s, p, v
<1>9. ReloadSound(a, handler[a])'
  <2>1. \A x \in handler[a].todo : Owned(x)' /\ (a = Boot => cron'[x] = {})
    BY <1>1, <1>3 DEF ReloadSound, Owned
  <2> QED
    BY <1>1, <1>3, <1>6, <1>p, <1>v, <2>1 DEF ReloadSound, Underway
<1>10. \A x \in Schedules : ~Awaits(handler[a], x)' => Settled(x)'
  <2> SUFFICES ASSUME NEW x \in Schedules, ~Awaits(handler[a], x)' PROVE Settled(x)'
    OBVIOUS
  <2>1. CASE x = s
    <3>1. settings'[x] = Off /\ cron'[x] = {}
      BY <1>1, <1>3, <1>6, <1>p, <1>v, <2>1 DEF Awaits, Underway
    <3> QED
      BY <3>1 DEF Settled
  <2>2. CASE x # s
    <3>1. ~Awaits(handler[a], x)
      BY <1>6, <1>v, <2>2 DEF Awaits
    <3> QED
      BY <1>1, <1>3, <3>1 DEF Settled
  <2> QED
    BY <2>1, <2>2
<1> QED
  BY <1>3, <1>6, <1>8, <1>9, <1>10, ActorMoves

\* The one job of the schedule, with the first id that is free.
LEMMA AddCronKeeps ==
  ASSUME SchedulesInv, NEW a \in Actors, AddCron(a) PROVE SchedulesInv'
<1> DEFINE s == handler[a].now
           free == (1 .. MaxCron + 1) \ ({c.id : c \in cron[s]} \cup {job_id[s]})
           new == [id |-> 1, at |-> handler[a].at]
<1>t. ScheduleTypes
  BY DEF SchedulesInv
<1>1. handler[a].pc = "add" /\ UNCHANGED <<settings, job_id, ticking, hour, attempted, succeeded>>
  BY DEF AddCron
<1>3. /\ handler[a] \in Reloads /\ handler[a] # Rest /\ ReloadSound(a, handler[a])
      /\ \A x \in Schedules : ~Awaits(handler[a], x) => Settled(x)
  BY <1>1, Alone
<1>4. /\ s \in Schedules \ handler[a].todo /\ cron[s] = {} /\ job_id[s] = 0
      /\ handler[a].at = settings[s] /\ handler[a].at # Off /\ handler[a].at \in Times
  BY <1>1, <1>3 DEF ReloadSound, Underway, Reloads
<1>5. Min(free) = 1
  <2>1. free = 1 .. MaxCron + 1
    BY <1>4, SchedulersAssumption
  <2>2. 1 \in free /\ \A y \in free : y \in Nat /\ 1 <= y
    BY <2>1, SchedulersAssumption
  <2> HIDE DEF free
  <2> QED
    BY <2>2 DEF Min
<1>6. /\ cron' = [cron EXCEPT ![s] = {new}]
      /\ handler' = [handler EXCEPT ![a] = [handler[a] EXCEPT !.pc = "note", !.id = 1]]
  <2>1. /\ cron' = [cron EXCEPT ![s] = @ \cup {[id |-> Min(free), at |-> handler[a].at]}]
        /\ handler' = [handler EXCEPT ![a].pc = "note", ![a].id = Min(free)]
    BY DEF AddCron
  <2>2. cron[s] \cup {new} = {new}
    BY <1>4
  <2> QED
    BY <1>t, <1>3, <1>4, <1>5, <2>1, <2>2 DEF ScheduleTypes
<1>7. /\ [handler[a] EXCEPT !.pc = "note", !.id = 1] \in Reloads
      /\ [handler[a] EXCEPT !.pc = "note", !.id = 1].todo = handler[a].todo
      /\ [handler[a] EXCEPT !.pc = "note", !.id = 1].now = s
      /\ [handler[a] EXCEPT !.pc = "note", !.id = 1].at = handler[a].at
      /\ [handler[a] EXCEPT !.pc = "note", !.id = 1].pc = "note"
      /\ [handler[a] EXCEPT !.pc = "note", !.id = 1].id = 1
  BY <1>3 DEF Reloads, Underway
<1>8. /\ handler'[a] \in Reloads /\ handler'[a].todo = handler[a].todo /\ handler'[a].now = s
      /\ handler'[a].at = handler[a].at /\ handler'[a].pc = "note" /\ handler'[a].id = 1
      /\ handler' \in [Actors -> Reloads] /\ \A b \in Actors \ {a} : handler'[b] = handler[b]
  <2>1. handler'[a] = [handler[a] EXCEPT !.pc = "note", !.id = 1]
    BY <1>t, <1>6 DEF ScheduleTypes
  <2>2. handler' \in [Actors -> Reloads] /\ \A b \in Actors \ {a} : handler'[b] = handler[b]
    BY <1>t, <1>6, <1>7 DEF ScheduleTypes
  <2> QED
    BY <1>7, <2>1, <2>2
<1>9. /\ cron' \in [Schedules -> SUBSET [id : {1}, at : Times]] /\ cron'[s] = {new}
      /\ \A x \in Schedules \ {s} : cron'[x] = cron[x]
  <2>1. new \in [id : {1}, at : Times]
    BY <1>4
  <2> HIDE DEF new
  <2> QED
    BY <1>t, <1>4, <1>6, <2>1 DEF ScheduleTypes
<1>10. ScheduleTypes'
  BY <1>t, <1>1, <1>8, <1>9 DEF ScheduleTypes
<1>v. s = handler[a].now /\ new = [id |-> 1, at |-> handler[a].at]
  OBVIOUS
<1> HIDE DEF s, free, new
<1>11. ReloadSound(a, handler[a])'
  <2>1. \A x \in handler[a].todo : Owned(x)' /\ (a = Boot => cron'[x] = {})
    <3>1. \A x \in handler[a].todo : x \in Schedules \ {s}
      BY <1>3, <1>4 DEF Reloads
    <3> QED
      BY <1>1, <1>3, <1>9, <3>1 DEF ReloadSound, Owned
  <2> QED
    BY <1>1, <1>4, <1>8, <1>9, <1>v, <2>1 DEF ReloadSound, Underway
<1>12. \A x \in Schedules : ~Awaits(handler[a], x)' => Settled(x)'
  <2> SUFFICES ASSUME NEW x \in Schedules, ~Awaits(handler[a], x)' PROVE Settled(x)'
    OBVIOUS
  <2>1. x # s /\ ~Awaits(handler[a], x)
    BY <1>8, <1>v DEF Awaits, Underway
  <2> QED
    BY <1>1, <1>3, <1>9, <2>1 DEF Settled
<1> QED
  BY <1>3, <1>8, <1>10, <1>11, <1>12, ActorMoves

\* The id is kept, the ticker runs, and what is due today is begun.
LEMMA NoteJobKeeps ==
  ASSUME SchedulesInv, NEW a \in Actors, NoteJob(a) PROVE SchedulesInv'
<1> DEFINE s == handler[a].now
           i == handler[a].id
           v == handler[a].at
           due == s = "signin" /\ should_run_startup_catchup(handler[a].at) /\ ~succeeded
<1>t. ScheduleTypes
  BY DEF SchedulesInv
<1>1. /\ handler[a].pc = "note" /\ UNCHANGED <<settings, cron, hour, succeeded>>
      /\ job_id' = [job_id EXCEPT ![s] = i] /\ ticking' = [ticking EXCEPT ![s] = TRUE]
      /\ attempted' = (attempted \/ due)
      /\ handler' = [handler EXCEPT ![a].pc = "next", ![a].at = Off, ![a].id = 0]
  BY DEF NoteJob
<1>3. /\ handler[a] \in Reloads /\ handler[a] # Rest /\ ReloadSound(a, handler[a])
      /\ \A x \in Schedules : ~Awaits(handler[a], x) => Settled(x)
  BY <1>1, Alone
<1>4. /\ s \in Schedules \ handler[a].todo /\ v = settings[s] /\ v # Off
      /\ cron[s] = {[id |-> i, at |-> v]} /\ i \in {0, 1}
  BY <1>1, <1>3 DEF ReloadSound, Underway, Reloads
<1>5. handler' = [handler EXCEPT ![a] = [handler[a] EXCEPT !.pc = "next", !.at = Off, !.id = 0]]
  BY <1>t, <1>1, <1>3 DEF ScheduleTypes
<1>6. /\ [handler[a] EXCEPT !.pc = "next", !.at = Off, !.id = 0] \in Reloads
      /\ [handler[a] EXCEPT !.pc = "next", !.at = Off, !.id = 0].todo = handler[a].todo
      /\ [handler[a] EXCEPT !.pc = "next", !.at = Off, !.id = 0].pc = "next"
  BY <1>3, TimesFacts DEF Reloads, Underway
<1>7. /\ handler'[a].todo = handler[a].todo /\ handler'[a].pc = "next"
      /\ handler' \in [Actors -> Reloads] /\ \A b \in Actors \ {a} : handler'[b] = handler[b]
  <2>1. handler'[a] = [handler[a] EXCEPT !.pc = "next", !.at = Off, !.id = 0]
    BY <1>t, <1>5 DEF ScheduleTypes
  <2>2. handler' \in [Actors -> Reloads] /\ \A b \in Actors \ {a} : handler'[b] = handler[b]
    BY <1>t, <1>5, <1>6 DEF ScheduleTypes
  <2> QED
    BY <1>6, <2>1, <2>2
<1>8. /\ job_id' \in [Schedules -> {0, 1}] /\ job_id'[s] = i /\ \A x \in Schedules \ {s} : job_id'[x] = job_id[x]
      /\ ticking' \in [Schedules -> BOOLEAN] /\ ticking'[s] /\ \A x \in Schedules \ {s} : ticking'[x] = ticking[x]
  BY <1>t, <1>1, <1>4 DEF ScheduleTypes
<1>9. ScheduleTypes'
  BY <1>t, <1>1, <1>7, <1>8 DEF ScheduleTypes
<1>10. ReloadSound(a, handler[a])'
  <2>1. \A x \in handler[a].todo : x \in Schedules \ {s}
    BY <1>3, <1>4 DEF Reloads
  <2>2. \A x \in handler[a].todo : Owned(x)' /\ (a = Boot => cron'[x] = {})
    BY <1>1, <1>3, <1>8, <2>1 DEF ReloadSound, Owned
  <2> QED
    BY <1>7, <2>2 DEF ReloadSound, Underway
<1>11. ASSUME NEW x \in Schedules, x = s PROVE Settled(x)'
  <2>1. settings'[x] # Off /\ cron'[x] = {[id |-> job_id'[x], at |-> settings'[x]]} /\ ticking'[x]
    BY <1>1, <1>4, <1>8, <1>11
  <2>2. x = "signin" /\ hour' >= settings'[x] => attempted' \/ succeeded'
    BY <1>1, <1>4, <1>11 DEF should_run_startup_catchup
  <2> QED
    BY <2>1, <2>2 DEF Settled
<1>12. \A x \in Schedules : ~Awaits(handler[a], x)' => Settled(x)'
  <2> SUFFICES ASSUME NEW x \in Schedules, x # s, ~Awaits(handler[a], x)' PROVE Settled(x)'
    BY <1>11
  <2>1. ~Awaits(handler[a], x)
    BY <1>7 DEF Awaits
  <2>2. Settled(x)
    BY <1>3, <2>1
  <2>3. attempted => attempted'
    BY <1>1
  <2>4. job_id'[x] = job_id[x] /\ ticking'[x] = ticking[x]
    BY <1>8
  <2> QED
    BY <1>1, <2>2, <2>3, <2>4, Zenon DEF Settled
<1> QED
  BY <1>3, <1>7, <1>9, <1>10, <1>12, ActorMoves

\* At its hour the job fires, and no hour is skipped.
LEMMA HourStrikesKeeps ==
  ASSUME SchedulesInv, HourStrikes PROVE SchedulesInv'
<1> DEFINE next == (hour + 1) % Hours
           fired == IF ticking["signin"] THEN {c \in cron["signin"] : c.at = next} ELSE {}
<1>t. ScheduleTypes
  BY DEF SchedulesInv
<1>1. /\ UNCHANGED <<settings, cron, job_id, ticking, handler>>
      /\ hour' = next /\ attempted' = (fired # {} \/ (next # 0 /\ attempted))
      /\ succeeded' = (next # 0 /\ succeeded)
  BY DEF HourStrikes
<1>2. next \in 0 .. Hours - 1 /\ (next = 0 \/ next = hour + 1) /\ hour \in Nat
  BY <1>t, SchedulersAssumption DEF ScheduleTypes
<1>3. ScheduleTypes'
  BY <1>t, <1>1, <1>2 DEF ScheduleTypes
<1>4. OneReload' /\ \A a \in Actors : ReloadSound(a, handler[a])'
  BY <1>1 DEF SchedulesInv, OneReload, ReloadSound, Owned
<1>5. ASSUME NEW s \in Schedules, Settled(s) PROVE Settled(s)'
  <2>1. ASSUME s = "signin", settings[s] # Off, next >= settings[s] PROVE attempted' \/ succeeded'
    <3>1. settings[s] \in 0 .. Hours - 1
      BY <1>t, <2>1, TimesFacts DEF ScheduleTypes
    <3>2. CASE next = settings[s]
      <4>1. ticking[s] /\ [id |-> job_id[s], at |-> settings[s]] \in cron[s]
        BY <1>5, <2>1 DEF Settled
      <4>2. [id |-> job_id[s], at |-> settings[s]].at = next
        BY <3>2
      <4> QED
        BY <1>1, <2>1, <4>1, <4>2
    <3>3. CASE next # settings[s]
      <4>1. next # 0 /\ hour >= settings[s]
        BY <1>2, <2>1, <3>1, <3>3
      <4>2. attempted \/ succeeded
        BY <1>5, <2>1, <4>1 DEF Settled
      <4> QED
        BY <1>1, <4>1, <4>2
    <3> QED
      BY <3>2, <3>3
  <2> QED
    BY <1>1, <1>5, <2>1 DEF Settled
<1>6. \A s \in Schedules : (\A a \in Actors : ~Awaits(handler[a], s)') => Settled(s)'
  BY <1>1, <1>5 DEF SchedulesInv, Awaits
<1> QED
  BY <1>3, <1>4, <1>6 DEF SchedulesInv

LEMMA SigninEndsKeeps ==
  ASSUME SchedulesInv, SigninEnds PROVE SchedulesInv'
<1>1. /\ UNCHANGED <<settings, cron, job_id, ticking, handler, hour, attempted>>
      /\ succeeded => succeeded'
  <2>1. UNCHANGED <<settings, cron, job_id, ticking, handler, hour, attempted>>
    BY DEF SigninEnds
  <2>2. succeeded' \in {succeeded, TRUE}
    BY DEF SigninEnds
  <2>3. succeeded' = succeeded \/ succeeded' = TRUE
    BY <2>2, Zenon
  <2>4. succeeded => succeeded'
    BY <2>3, Zenon
  <2> QED
    BY <2>1, <2>4
<1>2. ScheduleTypes' /\ OneReload' /\ \A a \in Actors : ReloadSound(a, handler[a])'
  BY <1>1 DEF SchedulesInv, ScheduleTypes, OneReload, ReloadSound, Owned
<1>3. ASSUME NEW s \in Schedules, Settled(s) PROVE Settled(s)'
  BY <1>1, <1>3, Zenon DEF Settled
<1>4. \A s \in Schedules : (\A a \in Actors : ~Awaits(handler[a], s)') => Settled(s)'
  BY <1>1, <1>3 DEF SchedulesInv, Awaits
<1> QED
  BY <1>2, <1>4 DEF SchedulesInv

\* Nothing is left of the process; the application loads both schedules again.
LEMMA RestartSchedulersKeeps ==
  ASSUME SchedulesInv, RestartSchedulers PROVE SchedulesInv'
<1>1. /\ cron' = [s \in Schedules |-> {}] /\ job_id' = [s \in Schedules |-> 0]
      /\ ticking' = [s \in Schedules |-> FALSE] /\ settings' = settings
      /\ handler' = [a \in Actors |-> IF a = Boot THEN BootReload ELSE Rest]
      /\ hour' \in 0 .. Hours - 1
  BY DEF RestartSchedulers
<1>2. BootReload \in Reloads /\ BootReload.pc = "next" /\ BootReload.todo = Schedules
  BY RestFacts DEF BootReload, Reloads, Underway
<1>3. ScheduleTypes'
  <2>1. /\ cron' \in [Schedules -> SUBSET [id : {1}, at : Times]] /\ job_id' \in [Schedules -> {0, 1}]
        /\ ticking' \in [Schedules -> BOOLEAN]
    BY <1>1
  <2>2. handler' \in [Actors -> Reloads]
    BY <1>1, <1>2, RestFacts
  <2> QED
    BY <1>1, <2>1, <2>2 DEF SchedulesInv, ScheduleTypes
<1>4. OneReload'
  BY <1>1 DEF OneReload
<1>5. \A a \in Actors : ReloadSound(a, handler[a])'
  <2>1. ReloadSound(Boot, BootReload)'
    BY <1>1, <1>2 DEF ReloadSound, Owned, Underway
  <2>2. \A a \in Actors : ReloadSound(a, Rest)'
    BY RestFacts DEF ReloadSound, Underway
  <2> QED
    BY <1>1, <2>1, <2>2 DEF ReloadSound
<1>6. Boot \in Actors /\ \A s \in Schedules : Awaits(handler[Boot], s)'
  BY <1>1, <1>2 DEF Awaits, Actors
<1> QED
  BY <1>3, <1>4, <1>5, <1>6 DEF SchedulesInv

LEMMA SchedulesStep == ASSUME ~Concurrent PROVE SchedulesInv /\ [SchedulersNext]_svars => SchedulesInv'
<1> SUFFICES ASSUME SchedulesInv, [SchedulersNext]_svars PROVE SchedulesInv'
  OBVIOUS
<1>1. CASE UNCHANGED svars
  BY <1>1 DEF svars, SchedulesInv, ScheduleTypes, OneReload, ReloadSound, Owned, Awaits, Settled
<1> QED
  BY <1>1, HourStrikesKeeps, SigninEndsKeeps, RestartSchedulersKeeps, ReadPreviousKeeps,
     SaveSettingsKeeps, NextReloadKeeps, StopKeeps, StartKeeps, AddCronKeeps, NoteJobKeeps
     DEF SchedulersNext

\* As long as two requests do not overlap, once the reloads are through each
\* scheduler has the one job its settings ask for, the one a later stop
\* removes, and no day's sign-in is lost to a reload or a restart.
THEOREM SchedulesHold == ASSUME ~Concurrent PROVE SchedulersInit /\ [][SchedulersNext]_svars => []SchedulesKept
<1>1. SchedulesInv => SchedulesKept
  <2> SUFFICES ASSUME SchedulesInv, Quiet PROVE \A s \in Schedules : Settled(s)
    BY DEF SchedulesKept, JobFollows, SigninTried, Settled, Schedules
  <2> QED
    BY RestFacts DEF SchedulesInv, Quiet
<1>2. SchedulesInv /\ [SchedulersNext]_svars => SchedulesInv'
  BY SchedulesStep
<1> QED
  BY SchedulesInitHolds, <1>1, <1>2, PTL

----------------------------------------------------------------------------
(* The program and the web interface, through updates and restarts.        *)

\* The calls that hold UPDATE_PROGRESS.
Holding == Fetching \cup {"install"}
Contents == Versions \cup {"none", "partial"}
Selections == [version : Versions \cup {"none"}, path : BOOLEAN,
              sum : {"none", "some"} \cup Uploaded, sig : {"none", "some"} \cup Uploaded,
              body : {"none", "damaged"} \cup Uploaded]
Installations == [pc : {"none", "stage", "static", "binary", "ok", "err"}, version : Versions \cup {"none"},
                  static : Contents, path : BOOLEAN, had : BOOLEAN, saved : Contents]

UpdateTypes ==
  /\ exe \in Versions /\ web \in Contents /\ run \in Versions \cup {"none"}
  /\ call \in [Calls -> Holding \cup {"idle", "ask"}]
  /\ got \in [Calls -> Selections] /\ job \in [Calls -> Installations]

Switching(c) == job[c].pc \in {"static", "binary"}

\* One call at a time holds the progress; an installation belongs to one that
\* waits for it or has been abandoned; nothing outlives the process.
Requests ==
  /\ \A c, d \in Calls : call[c] \in Holding /\ call[d] \in Holding => c = d
  /\ \A c \in Calls : /\ call[c] \in Holding => busy
                      /\ call[c] \notin Fetching => ~got[c].path
                      /\ call[c] \in Fetching \ {"fetch"} => got[c].version \in Versions
                      /\ job[c] # NoJob => call[c] \in {"idle", "install"}
                      /\ job[c].pc = "ok" => replaced
                      /\ c \in Working => job[c].static = job[c].version /\ job[c].version \in Versions
  /\ run = "none" => ~busy /\ ~plan /\ ~requested /\ ~replaced
                     /\ \A c \in Calls : call[c] = "idle" /\ job[c] = NoJob

\* What an installation finds at each of its steps.
Installing(c) ==
  /\ job[c].pc = "stage" => web = exe
  /\ Switching(c) => job[c].had /\ job[c].saved = exe
  /\ job[c].pc = "static" => web = "none"
  /\ job[c].pc = "binary" => web = job[c].version

\* As long as no installation was cut short or overlapped another.
OneAtWork ==
  /\ \A c, d \in Working : c = d
  /\ \A c \in Calls : call[c] = "install" => Working \subseteq {c}
AllInstalling == (Working = {} => web = exe) /\ \A c \in Calls : Installing(c)
\* Once a restart is planned, no installation can reach the two paths: the
\* running program's own file is gone, and what was found before is used up.
Barred == plan \/ requested =>
  /\ replaced
  /\ \A c \in Calls : ~got[c].path /\ ~Switching(c) /\ (job[c].pc = "stage" => ~job[c].path)

UpdateInv == UpdateTypes /\ Requests /\ (~mixed => OneAtWork /\ AllInstalling /\ Barred)

LEMMA UpdateConstants ==
  /\ Installed \in Versions /\ "none" \notin Versions /\ "partial" \notin Versions
  /\ Versions \subseteq Contents /\ NoRelease \in Selections /\ ~NoRelease.path
  /\ NoJob \in Installations /\ NoJob.pc = "none" /\ Fetching \subseteq Holding
  /\ {"idle", "ask"} \cap Holding = {}
<1>1. /\ Installed \in Versions /\ "none" \notin Versions /\ "partial" \notin Versions
  BY UpdateAssumption
<1>2. NoRelease \in Selections /\ NoJob \in Installations /\ NoJob.pc = "none"
  BY DEF NoRelease, NoJob, Selections, Installations, Contents
<1>3. ~NoRelease.path
  BY DEF NoRelease
<1> QED
  BY <1>1, <1>2, <1>3 DEF Contents, Holding, Fetching

LEMMA UpdateInitHolds == UpdateInit => UpdateInv
<1> SUFFICES ASSUME UpdateInit PROVE UpdateInv
  OBVIOUS
<1>1. /\ exe = Installed /\ web = Installed /\ run = "none" /\ ~replaced /\ ~busy /\ ~plan /\ ~requested
      /\ call = [c \in Calls |-> "idle"] /\ got = [c \in Calls |-> NoRelease] /\ job = [c \in Calls |-> NoJob]
  BY DEF UpdateInit
<1>2. UpdateTypes
  BY <1>1, UpdateConstants DEF UpdateTypes
<1>3. Working = {}
  BY <1>1, UpdateConstants DEF Working
<1>4. Requests
  BY <1>1, <1>3, UpdateConstants DEF Requests
<1>5. OneAtWork /\ AllInstalling /\ Barred
  BY <1>1, <1>3, UpdateConstants DEF OneAtWork, AllInstalling, Installing, Switching, Barred
<1> QED
  BY <1>2, <1>4, <1>5 DEF UpdateInv

\* A request goes on while the installations stand still.
LEMMA RequestMoves ==
  ASSUME UpdateInv, NEW c \in Calls, run # "none",
         UNCHANGED <<exe, web, run, replaced, plan, requested, job, mixed>>,
         call' \in [Calls -> Holding \cup {"idle", "ask"}], got' \in [Calls -> Selections],
         \A d \in Calls \ {c} : call'[d] = call[d] /\ got'[d] = got[d],
         call'[c] \in Holding => busy' /\ \A d \in Calls \ {c} : call[d] \notin Holding,
         call'[c] \notin Holding => busy' = busy \/ call[c] \in Holding,
         call'[c] \notin Fetching => ~got'[c].path,
         call'[c] \in Fetching \ {"fetch"} => got'[c].version \in Versions,
         got'[c].path => got[c].path \/ ~replaced,
         call'[c] = "install" => call[c] = "install",
         job[c] # NoJob => call'[c] \in {"idle", "install"}
  PROVE  UpdateInv'
<1>1. UpdateTypes'
  BY DEF UpdateInv, UpdateTypes
<1>2. \A d, e \in Calls : call'[d] \in Holding /\ call'[e] \in Holding => d = e
  BY DEF UpdateInv, Requests
<1>3. \A d \in Calls : call'[d] \in Holding => busy'
  <2> SUFFICES ASSUME NEW d \in Calls, d # c, call[d] \in Holding PROVE busy'
    OBVIOUS
  <2>1. busy /\ call[c] \notin Holding
    BY DEF UpdateInv, Requests
  <2> QED
    BY <2>1
<1>4. Working' = Working
  BY DEF Working
<1>5. Requests'
  <2>1. \A d \in Calls : (call'[d] \notin Fetching => ~got'[d].path)
                         /\ (call'[d] \in Fetching \ {"fetch"} => got'[d].version \in Versions)
                         /\ (job'[d] # NoJob => call'[d] \in {"idle", "install"})
    BY DEF UpdateInv, Requests
  <2>2. \A d \in Calls : (job'[d].pc = "ok" => replaced')
                         /\ (d \in Working' => job'[d].static = job'[d].version /\ job'[d].version \in Versions)
    BY <1>4 DEF UpdateInv, Requests
  <2> QED
    BY <1>2, <1>3, <2>1, <2>2 DEF Requests
<1>6. ASSUME ~mixed PROVE OneAtWork' /\ AllInstalling' /\ Barred'
  <2>1. OneAtWork /\ AllInstalling /\ Barred
    BY <1>6 DEF UpdateInv
  <2>2. OneAtWork'
    BY <1>4, <2>1 DEF OneAtWork
  <2>3. AllInstalling'
    BY <1>4, <2>1 DEF AllInstalling, Installing, Switching
  <2>4. Barred'
    BY <2>1 DEF Barred, Switching
  <2> QED
    BY <2>2, <2>3, <2>4
<1> QED
  BY <1>1, <1>5, <1>6 DEF UpdateInv

\* The handler of a call that holds the progress ends.
LEMMA RefusedKeeps ==
  ASSUME UpdateInv, NEW c \in Calls, call[c] \in Holding, Refused(c) PROVE UpdateInv'
<1>1. /\ UNCHANGED <<exe, web, run, replaced, plan, requested, job, mixed>>
      /\ call' = [call EXCEPT ![c] = "idle"] /\ got' = [got EXCEPT ![c] = NoRelease]
  BY DEF Refused, payload
<1>2. run # "none"
  BY UpdateConstants DEF UpdateInv, Requests
<1>3. /\ call' \in [Calls -> Holding \cup {"idle", "ask"}] /\ got' \in [Calls -> Selections]
      /\ call'[c] = "idle" /\ got'[c] = NoRelease
      /\ \A d \in Calls \ {c} : call'[d] = call[d] /\ got'[d] = got[d]
  BY <1>1, UpdateConstants DEF UpdateInv, UpdateTypes
<1> QED
  BY <1>1, <1>2, <1>3, UpdateConstants, RequestMoves

\* A call that holds the progress goes on to its next step.
LEMMA FetchingMoves ==
  ASSUME UpdateInv, NEW c \in Calls, call[c] \in Fetching, call'[c] \in Fetching,
         UNCHANGED <<exe, web, run, replaced, busy, plan, requested, job, mixed>>,
         call' = [call EXCEPT ![c] = call'[c]], got' = [got EXCEPT ![c] = got'[c]], got'[c] \in Selections,
         got'[c].version \in Versions, got'[c].path => got[c].path \/ ~replaced
  PROVE  UpdateInv'
<1>1. call[c] \in Holding /\ call'[c] \in Holding /\ call'[c] # "install"
  BY DEF Holding, Fetching
<1>2. run # "none"
  BY <1>1, UpdateConstants DEF UpdateInv, Requests
<1>3. /\ call' \in [Calls -> Holding \cup {"idle", "ask"}] /\ got' \in [Calls -> Selections]
      /\ \A d \in Calls \ {c} : call'[d] = call[d] /\ got'[d] = got[d]
  BY <1>1 DEF UpdateInv, UpdateTypes
<1>4. busy /\ (\A d \in Calls \ {c} : call[d] \notin Holding) /\ job[c] = NoJob
  <2>1. call[c] \notin {"idle", "install"}
    BY DEF Fetching
  <2> QED
    BY <1>1, <2>1 DEF UpdateInv, Requests
<1> QED
  BY <1>1, <1>2, <1>3, <1>4, RequestMoves

LEMMA ApplyUpdateKeeps ==
  ASSUME UpdateInv, NEW c \in Calls, apply_update(c) \/ try_begin_update_progress(c) PROVE UpdateInv'
<1>1. /\ UNCHANGED <<exe, web, run, replaced, plan, requested, got, job, mixed>>
      /\ call[c] \in {"idle", "ask"} /\ call' = [call EXCEPT ![c] = call'[c]]
      /\ call'[c] \in {"idle", "ask", "fetch"}
  BY DEF UpdateInv, UpdateTypes, apply_update, try_begin_update_progress, payload, switches
<1>2. run # "none" /\ job[c] = NoJob
  <2>1. CASE apply_update(c)
    BY <2>1 DEF apply_update
  <2>2. CASE try_begin_update_progress(c)
    BY <2>2 DEF try_begin_update_progress, UpdateInv, Requests
  <2> QED
    BY <2>1, <2>2
<1>3. /\ call' \in [Calls -> Holding \cup {"idle", "ask"}] /\ got' \in [Calls -> Selections]
      /\ \A d \in Calls \ {c} : call'[d] = call[d] /\ got'[d] = got[d]
  BY <1>1 DEF UpdateInv, UpdateTypes, Holding, Fetching
<1>4. call'[c] \in Holding => busy' /\ \A d \in Calls \ {c} : call[d] \notin Holding
  <2> SUFFICES ASSUME call'[c] \in Holding PROVE ~busy /\ busy'
    BY DEF UpdateInv, Requests
  <2>1. call'[c] = "fetch"
    BY <1>1, UpdateConstants
  <2>2. ~apply_update(c)
    BY <2>1 DEF apply_update, UpdateInv, UpdateTypes
  <2> QED
    BY <2>1, <2>2 DEF try_begin_update_progress, UpdateInv, UpdateTypes
<1>5. call'[c] \notin Holding => busy' = busy
  BY DEF apply_update, try_begin_update_progress, switches, UpdateInv, UpdateTypes, Holding, Fetching
<1>6. ~got[c].path
  <2>1. call[c] \notin Fetching
    BY <1>1 DEF Fetching
  <2> QED
    BY <2>1 DEF UpdateInv, Requests
<1>7. call'[c] \notin Fetching \ {"fetch"} /\ call'[c] # "install"
  BY <1>1 DEF Fetching
<1> QED
  BY <1>1, <1>2, <1>3, <1>4, <1>5, <1>6, <1>7, RequestMoves

\* What a download leaves of the choice.
Kept(c) == got'[c].path = got[c].path /\ got'[c].version = got[c].version

LEMMA FetchKeeps ==
  ASSUME UpdateInv, NEW c \in Calls, Download(c) \/ CheckPackage(c) \/ \E v \in Versions : ChooseRelease(c, v)
  PROVE  UpdateInv'
<1>t. got[c] \in Selections /\ call \in [Calls -> Holding \cup {"idle", "ask"}] /\ got \in [Calls -> Selections]
  BY DEF UpdateInv, UpdateTypes
<1>1. CASE CheckPackage(c)
  <2>1. /\ UNCHANGED <<exe, web, run, replaced, busy, plan, requested, got, job, mixed>>
        /\ call[c] = "verify" /\ call' = [call EXCEPT ![c] = "unpack"]
    BY <1>1 DEF CheckPackage, payload, switches
  <2>2. call'[c] = "unpack" /\ call' = [call EXCEPT ![c] = call'[c]] /\ got' = [got EXCEPT ![c] = got'[c]]
    BY <1>t, <2>1
  <2>3. call[c] \in Fetching /\ call'[c] \in Fetching /\ got[c].version \in Versions
    BY <2>1, <2>2 DEF Fetching, UpdateInv, Requests
  <2> QED
    BY <1>t, <2>1, <2>2, <2>3, FetchingMoves
<1>2. ASSUME NEW v \in Versions, ChooseRelease(c, v) PROVE UpdateInv'
  <2>1. PICK s \in {"none", "some"} :
          got' = [got EXCEPT ![c] = [NoRelease EXCEPT !.version = v, !.path = CurrentExe, !.sig = s]]
    BY <1>2 DEF ChooseRelease
  <2> DEFINE g == [NoRelease EXCEPT !.version = v, !.path = CurrentExe, !.sig = s]
  <2>2. /\ UNCHANGED <<exe, web, run, replaced, busy, plan, requested, job, mixed>>
        /\ call[c] = "fetch" /\ call' = [call EXCEPT ![c] = "checksum"]
    BY <1>2 DEF ChooseRelease, payload, switches
  <2>3. g \in Selections /\ g.version \in Versions /\ (g.path => ~replaced)
    <3>1. CurrentExe \in BOOLEAN
      BY Zenon DEF CurrentExe
    <3>2. g \in Selections /\ g.path = CurrentExe /\ g.version \in Versions
      BY <3>1, UpdateConstants DEF Selections
    <3> HIDE DEF g
    <3>3. g.path => CurrentExe
      BY <3>2
    <3> QED
      BY <3>2, <3>3 DEF CurrentExe
  <2>4. /\ call'[c] = "checksum" /\ got'[c] = g
        /\ call' = [call EXCEPT ![c] = call'[c]] /\ got' = [got EXCEPT ![c] = got'[c]]
    BY <1>t, <2>1, <2>2
  <2>5. call[c] \in Fetching /\ call'[c] \in Fetching
    BY <2>2, <2>4 DEF Fetching
  <2> QED
    BY <2>2, <2>3, <2>4, <2>5, FetchingMoves
<1>3. CASE Download(c)
  <2>1. /\ UNCHANGED <<exe, web, run, replaced, busy, plan, requested, job, mixed>>
        /\ call[c] \in Fetching /\ got[c].version \in Versions
    BY <1>3 DEF Download, payload, switches, Fetching, UpdateInv, Requests
  <2>2. call'[c] \in Fetching /\ call' = [call EXCEPT ![c] = call'[c]]
    BY <1>t, <1>3 DEF Download, Fetching
  <2>3. /\ got' = [got EXCEPT ![c] = got'[c]] /\ got'[c] \in Selections /\ Kept(c)
    <3>1. ASSUME NEW u \in Uploaded \cup {"damaged"}, got' = [got EXCEPT ![c].body = u]
          PROVE  got' = [got EXCEPT ![c] = got'[c]] /\ got'[c] \in Selections /\ Kept(c)
      BY <1>t, <3>1 DEF Selections, Uploaded, Kept
    <3>2. ASSUME NEW u \in Uploaded, got' = [got EXCEPT ![c].sum = u]
          PROVE  got' = [got EXCEPT ![c] = got'[c]] /\ got'[c] \in Selections /\ Kept(c)
      BY <1>t, <3>2 DEF Selections, Uploaded, Kept
    <3>3. ASSUME NEW u \in Uploaded, got' = [got EXCEPT ![c].sig = u]
          PROVE  got' = [got EXCEPT ![c] = got'[c]] /\ got'[c] \in Selections /\ Kept(c)
      BY <1>t, <3>3 DEF Selections, Uploaded, Kept
    <3> QED
      BY <1>3, <3>1, <3>2, <3>3 DEF Download
  <2> QED
    BY <2>1, <2>2, <2>3, FetchingMoves DEF Kept
<1> QED
  BY <1>1, <1>2, <1>3

LEMMA RefusalKeeps ==
  ASSUME UpdateInv, NEW c \in Calls, PackageWrong(c) \/ UnpackFails(c) \/ FetchFails(c) \/ Abandon(c)
  PROVE  UpdateInv'
<1>1. call[c] \in Holding /\ Refused(c)
  BY DEF PackageWrong, UnpackFails, FetchFails, Abandon, Holding, Fetching
<1> QED
  BY <1>1, RefusedKeeps

\* An installation begins: it overlaps another, or finds both paths whole.
LEMMA UnpackKeeps ==
  ASSUME UpdateInv, NEW c \in Calls, Unpack(c) PROVE UpdateInv'
<1>t. got[c] \in Selections /\ UpdateTypes /\ Requests
  BY DEF UpdateInv, UpdateTypes
<1>1. /\ call[c] = "unpack" /\ got[c].body = "whole"
      /\ call' = [call EXCEPT ![c] = "install"] /\ got' = [got EXCEPT ![c] = NoRelease]
      /\ UNCHANGED <<exe, web, run, replaced, busy, plan, requested>>
      /\ mixed' = (mixed \/ Working # {})
  BY DEF Unpack, payload, switches, static_payload_is_complete
<1>2. /\ call[c] \in Holding /\ call[c] \notin {"idle", "install"} /\ call'[c] = "install"
      /\ call[c] \in Fetching
  BY <1>t, <1>1 DEF UpdateTypes, Holding, Fetching
<1>3. job[c] = NoJob /\ busy /\ run # "none" /\ \A d \in Calls \ {c} : call[d] \notin Holding
  BY <1>t, <1>2 DEF Requests
<1>v. got[c].version \in Versions
  BY <1>t, <1>1 DEF Requests, Fetching
<1> DEFINE new == [NoJob EXCEPT !.pc = "stage", !.version = got[c].version, !.path = got[c].path,
                    !.static = IF got[c].body = "whole" THEN got[c].version ELSE "partial"]
<1>4. job' = [job EXCEPT ![c] = new]
  BY DEF Unpack
<1>5. /\ new \in Installations /\ new.pc = "stage" /\ new.path = got[c].path
      /\ new.static = new.version /\ new.version \in Versions
  BY <1>t, <1>1, <1>v, UpdateConstants DEF Installations, Selections
<1> HIDE DEF new
<1>6. /\ UpdateTypes' /\ job'[c] = new /\ got'[c] = NoRelease
      /\ \A d \in Calls \ {c} : call'[d] = call[d] /\ got'[d] = got[d] /\ job'[d] = job[d]
  BY <1>t, <1>1, <1>2, <1>4, <1>5, UpdateConstants DEF UpdateTypes, Holding
<1>7. Working' = Working \cup {c}
  BY <1>5, <1>6 DEF Working
<1>8. Requests'
  <2>1. \A d, e \in Calls : call'[d] \in Holding /\ call'[e] \in Holding => d = e
    BY <1>3, <1>6
  <2>2. \A d \in Calls : /\ call'[d] \in Holding => busy'
                         /\ call'[d] \notin Fetching => ~got'[d].path
                         /\ call'[d] \in Fetching \ {"fetch"} => got'[d].version \in Versions
    <3>1. call'[c] \notin Fetching
      BY <1>2 DEF Fetching
    <3> QED
      BY <1>t, <1>1, <1>3, <1>6, <3>1, UpdateConstants DEF Requests
  <2>3. \A d \in Calls : job'[d] # NoJob => call'[d] \in {"idle", "install"}
    BY <1>t, <1>2, <1>6 DEF Requests
  <2>4. \A d \in Calls : /\ job'[d].pc = "ok" => replaced'
                         /\ d \in Working' => job'[d].static = job'[d].version /\ job'[d].version \in Versions
    BY <1>t, <1>1, <1>5, <1>6, <1>7 DEF Requests
  <2> QED
    BY <1>1, <1>3, <2>1, <2>2, <2>3, <2>4 DEF Requests
<1>9. ASSUME ~mixed' PROVE OneAtWork' /\ AllInstalling' /\ Barred'
  <2>1. ~mixed /\ Working = {} /\ Working' = {c} /\ web = exe
    <3>1. ~mixed /\ Working = {}
      BY <1>1, <1>9
    <3> QED
      BY <1>7, <3>1 DEF UpdateInv, AllInstalling
  <2>2. OneAtWork'
    <3>1. \A d \in Calls \ {c} : call'[d] # "install"
      BY <1>3, <1>6 DEF Holding
    <3> QED
      BY <2>1, <3>1 DEF OneAtWork
  <2>3. \A d \in Calls \ {c} : job'[d].pc \notin {"stage", "static", "binary"}
    BY <2>1 DEF Working
  <2>4. AllInstalling'
    BY <1>1, <1>5, <1>6, <2>1, <2>3 DEF AllInstalling, Installing, Switching
  <2>5. Barred'
    BY <1>1, <1>5, <1>6, <2>1, <2>3, UpdateConstants DEF UpdateInv, Barred, Switching
  <2> QED
    BY <2>2, <2>4, <2>5
<1> QED
  BY <1>6, <1>8, <1>9 DEF UpdateInv

\* An installation at work goes on, alone unless two have overlapped.
LEMMA InstallMoves ==
  ASSUME UpdateInv, NEW c \in Calls, c \in Working, exe' \in Versions, web' \in Contents,
         UNCHANGED <<run, busy, plan, requested, call, got>>, mixed => mixed', replaced => replaced',
         job'[c] \in Installations, job' = [job EXCEPT ![c] = job'[c]],
         job'[c].pc = "ok" => replaced',
         job'[c].static = job[c].static \/ ~Switching(c)', job'[c].version = job[c].version,
         job'[c].pc # "stage", Switching(c)' => Switching(c) \/ job[c].path,
         ~mixed' => (~Switching(c)' => web' = exe') /\ Installing(c)'
  PROVE  UpdateInv'
<1>t. UpdateTypes /\ Requests
  BY DEF UpdateInv
<1>1. UpdateTypes' /\ \A d \in Calls \ {c} : job'[d] = job[d]
  BY <1>t DEF UpdateTypes
<1>2. /\ Working' = IF Switching(c)' THEN Working ELSE Working \ {c}
  BY <1>1 DEF Working, Switching
<1>3. job[c] # NoJob
  BY UpdateConstants DEF Working
<1>4. Requests'
  <2>1. \A d \in Calls : /\ job'[d].pc = "ok" => replaced'
                         /\ job'[d] # NoJob => call'[d] \in {"idle", "install"}
    BY <1>t, <1>1, <1>3 DEF Requests
  <2>2. \A d \in Calls : d \in Working' => job'[d].static = job'[d].version /\ job'[d].version \in Versions
    BY <1>t, <1>1, <1>2 DEF Requests
  <2>3. run # "none"
    BY <1>t, <1>3 DEF Requests
  <2> QED
    BY <1>t, <2>1, <2>2, <2>3 DEF Requests
<1>5. ASSUME ~mixed' PROVE OneAtWork' /\ AllInstalling' /\ Barred'
  <2>1. OneAtWork /\ AllInstalling /\ Barred
    BY <1>5 DEF UpdateInv
  <2>2. Working = {c}
    BY <2>1 DEF OneAtWork
  <2>3. OneAtWork'
    BY <1>2, <2>1 DEF OneAtWork
  <2>4. \A d \in Calls \ {c} : job'[d].pc \notin {"stage", "static", "binary"}
    BY <1>1, <2>2 DEF Working
  <2>5. AllInstalling'
    BY <1>2, <1>5, <2>2, <2>4 DEF AllInstalling, Installing, Switching
  <2>6. Barred'
    <3> SUFFICES ASSUME plan \/ requested PROVE Barred'
      BY DEF Barred
    <3>1. ~Switching(c) /\ ~job[c].path
      BY <2>1, <2>2 DEF Barred, Switching, Working
    <3> QED
      BY <1>1, <2>1, <2>4, <3>1 DEF Barred, Switching
  <2> QED
    BY <2>3, <2>5, <2>6
<1> QED
  BY <1>1, <1>4, <1>5 DEF UpdateInv

\* The end of an installation.
LEMMA EndedFacts ==
  ASSUME UpdateTypes, NEW c \in Calls, NEW r \in {"ok", "err"}, Ended(c, r)
  PROVE  /\ job' = [job EXCEPT ![c] = job'[c]] /\ job'[c] \in Installations
         /\ job'[c].pc = r /\ job'[c].version = job[c].version
<1> DEFINE e == [NoJob EXCEPT !.pc = r, !.version = job[c].version]
<1>1. e \in Installations /\ e.pc = r /\ e.version = job[c].version
  BY UpdateConstants DEF UpdateTypes, Installations
<1>2. job' = [job EXCEPT ![c] = e]
  BY DEF Ended
<1> HIDE DEF e
<1>3. job'[c] = e
  BY <1>2 DEF UpdateTypes
<1> QED
  BY <1>1, <1>2, <1>3

LEMMA InstallKeeps ==
  ASSUME UpdateInv, NEW c \in Calls,
         \/ StageFails(c) \/ MoveStatic(c) \/ PlaceStatic(c) \/ PlaceStaticFails(c)
         \/ PlaceBinary(c) \/ PlaceBinaryFails(c)
  PROVE  UpdateInv'
<1>t. UpdateTypes /\ job[c] \in Installations /\ exe \in Contents /\ exe # "none"
  BY UpdateConstants DEF UpdateInv, UpdateTypes
<1>1. c \in Working /\ UNCHANGED <<run, busy, plan, requested, call, got>> /\ (mixed => mixed')
  BY DEF Working, StageFails, MoveStatic, PlaceStatic, PlaceStaticFails, PlaceBinary, PlaceBinaryFails,
         switches, asking
<1>2. /\ job[c].static = job[c].version /\ job[c].version \in Versions
      /\ ~mixed => Installing(c)
  BY <1>1 DEF UpdateInv, Requests, AllInstalling
<1>3. CASE StageFails(c)
  <2>1. job[c].pc = "stage" /\ Ended(c, "err") /\ UNCHANGED <<exe, web, replaced, mixed>>
    BY <1>3 DEF StageFails, payload
  <2>2. /\ job' = [job EXCEPT ![c] = job'[c]] /\ job'[c] \in Installations
        /\ job'[c].pc = "err" /\ job'[c].version = job[c].version
    BY <1>t, <2>1, EndedFacts
  <2>3. ~Switching(c)' /\ (~mixed => web' = exe' /\ Installing(c)')
    BY <1>2, <2>1, <2>2 DEF Switching, Installing
  <2> QED
    BY <1>t, <1>1, <2>1, <2>2, <2>3, InstallMoves DEF UpdateTypes
<1>4. CASE MoveStatic(c)
  <2> DEFINE new == [job[c] EXCEPT !.pc = "static", !.had = (web # "none"), !.saved = web]
  <2>1. /\ job[c].pc = "stage" /\ job[c].path /\ UNCHANGED <<exe, replaced, mixed>> /\ web' = "none"
        /\ job' = [job EXCEPT ![c] = new]
    BY <1>4 DEF MoveStatic
  <2>2. (web # "none") \in BOOLEAN
    BY Zenon
  <2>3. /\ new \in Installations /\ new.pc = "static" /\ new.version = job[c].version
        /\ new.static = job[c].static /\ new.had = (web # "none") /\ new.saved = web
    BY <1>t, <2>2 DEF Installations, UpdateTypes
  <2> HIDE DEF new
  <2>4. job'[c] = new /\ job' = [job EXCEPT ![c] = job'[c]]
    BY <1>t, <2>1 DEF UpdateTypes
  <2>5. ASSUME ~mixed PROVE Switching(c)' /\ Installing(c)'
    <3>1. web = exe
      BY <1>2, <2>1, <2>5 DEF Installing
    <3>2. new.had
      BY <1>t, <2>3, <3>1
    <3> QED
      BY <2>1, <2>3, <2>4, <3>1, <3>2 DEF Switching, Installing
  <2>6. web' \in Contents
    BY <2>1 DEF Contents
  <2> QED
    BY <1>t, <1>1, <2>1, <2>3, <2>4, <2>5, <2>6, InstallMoves DEF UpdateTypes
<1>5. CASE PlaceStatic(c)
  <2>1. /\ job[c].pc = "static" /\ web' = job[c].static /\ UNCHANGED <<exe, replaced, mixed>>
        /\ job' = [job EXCEPT ![c] = [job[c] EXCEPT !.pc = "binary"]]
    BY <1>t, <1>5 DEF PlaceStatic, UpdateTypes
  <2>2. /\ [job[c] EXCEPT !.pc = "binary"] \in Installations
        /\ [job[c] EXCEPT !.pc = "binary"].pc = "binary"
        /\ \A f \in {"version", "static", "had", "saved"} : [job[c] EXCEPT !.pc = "binary"][f] = job[c][f]
    BY <1>t DEF Installations
  <2>3. job'[c] = [job[c] EXCEPT !.pc = "binary"]
    BY <1>t, <2>1 DEF UpdateTypes
  <2>4. /\ job'[c] \in Installations /\ job'[c].pc = "binary" /\ job'[c].version = job[c].version
        /\ job'[c].static = job[c].static /\ job'[c].had = job[c].had /\ job'[c].saved = job[c].saved
        /\ job' = [job EXCEPT ![c] = job'[c]]
    BY <2>1, <2>2, <2>3
  <2>5. Switching(c) /\ Switching(c)' /\ (~mixed => Installing(c)')
    BY <1>2, <2>1, <2>4 DEF Switching, Installing
  <2> QED
    BY <1>t, <1>1, <1>2, <2>1, <2>4, <2>5, UpdateConstants, InstallMoves DEF UpdateTypes
<1>6. CASE PlaceStaticFails(c)
  <2>1. /\ job[c].pc = "static" /\ Ended(c, "err") /\ UNCHANGED <<exe, replaced>>
        /\ web' \in Contents
        /\ web = "none" /\ job[c].had /\ ~mixed' => web' = job[c].saved
    BY <1>t, <1>6 DEF PlaceStaticFails, UpdateTypes, Installations
  <2>2. /\ job' = [job EXCEPT ![c] = job'[c]] /\ job'[c] \in Installations
        /\ job'[c].pc = "err" /\ job'[c].version = job[c].version
    BY <1>t, <2>1, EndedFacts
  <2>3. ~Switching(c)' /\ web' \in Contents
    BY <1>t, <2>1, <2>2 DEF Switching, UpdateTypes, Installations
  <2>4. ~mixed' => web' = exe' /\ Installing(c)'
    BY <1>1, <1>2, <2>1, <2>2 DEF Switching, Installing
  <2> QED
    BY <1>t, <1>1, <2>1, <2>2, <2>3, <2>4, InstallMoves DEF UpdateTypes
<1>7. CASE PlaceBinary(c)
  <2>1. /\ job[c].pc = "binary" /\ Ended(c, "ok") /\ exe' = job[c].version /\ replaced' = TRUE /\ web' = web /\ mixed' = mixed
    BY <1>7 DEF PlaceBinary
  <2>2. /\ job' = [job EXCEPT ![c] = job'[c]] /\ job'[c] \in Installations
        /\ job'[c].pc = "ok" /\ job'[c].version = job[c].version
    BY <1>t, <2>1, EndedFacts
  <2>3. ~Switching(c)' /\ (~mixed => web' = exe' /\ Installing(c)')
    BY <1>1, <1>2, <2>1, <2>2 DEF Switching, Installing
  <2>4. exe' \in Versions /\ web' \in Contents /\ replaced'
    BY <1>t, <1>2, <2>1 DEF UpdateTypes
  <2> QED
    BY <1>1, <2>2, <2>3, <2>4, InstallMoves
<1>8. CASE PlaceBinaryFails(c)
  <2>1. /\ job[c].pc = "binary" /\ Ended(c, "err") /\ UNCHANGED <<exe, replaced>>
        /\ web' \in Contents
        /\ job[c].had /\ ~mixed' => web' = job[c].saved
    BY <1>t, <1>8 DEF PlaceBinaryFails, UpdateTypes, Installations, Contents
  <2>2. /\ job' = [job EXCEPT ![c] = job'[c]] /\ job'[c] \in Installations
        /\ job'[c].pc = "err" /\ job'[c].version = job[c].version
    BY <1>t, <2>1, EndedFacts
  <2>3. ~Switching(c)' /\ web' \in Contents
    BY <1>t, <2>1, <2>2 DEF Switching, UpdateTypes, Installations, Contents
  <2>4. ~mixed' => web' = exe' /\ Installing(c)'
    BY <1>1, <1>2, <2>1, <2>2 DEF Switching, Installing
  <2> QED
    BY <1>t, <1>1, <2>1, <2>2, <2>3, <2>4, InstallMoves DEF UpdateTypes
<1> QED
  BY <1>3, <1>4, <1>5, <1>6, <1>7, <1>8

\* The handler hears of its installation; only then is a restart planned.
LEMMA SettleKeeps ==
  ASSUME UpdateInv, NEW c \in Calls, Settle(c) PROVE UpdateInv'
<1>t. UpdateTypes /\ Requests
  BY DEF UpdateInv
<1>1. /\ job[c].pc \in {"ok", "err"} /\ job' = [job EXCEPT ![c] = NoJob]
      /\ UNCHANGED <<exe, web, run, replaced, requested, got, mixed>>
      /\ call[c] = "install" => call' = [call EXCEPT ![c] = "idle"] /\ busy' = FALSE
                                /\ plan' = (plan \/ job[c].pc = "ok")
      /\ call[c] # "install" => UNCHANGED <<call, busy, plan>>
  BY DEF Settle, payload
<1>2. job[c] # NoJob /\ run # "none" /\ call[c] \in {"idle", "install"}
  <2>1. job[c] # NoJob
    BY <1>1, UpdateConstants
  <2> QED
    BY <1>t, <2>1 DEF Requests
<1>3. /\ job' \in [Calls -> Installations] /\ job'[c] = NoJob /\ \A d \in Calls \ {c} : job'[d] = job[d]
      /\ call' \in [Calls -> Holding \cup {"idle", "ask"}] /\ call'[c] = "idle"
      /\ \A d \in Calls \ {c} : call'[d] = call[d]
  BY <1>t, <1>1, <1>2, UpdateConstants DEF UpdateTypes
<1>4. Working' = Working
  BY <1>1, <1>3, UpdateConstants DEF Working
<1>5. UpdateTypes'
  BY <1>t, <1>1, <1>3 DEF UpdateTypes
<1>6. Requests'
  <2>1. \A d, e \in Calls : call'[d] \in Holding /\ call'[e] \in Holding => d = e
    BY <1>t, <1>3, UpdateConstants DEF Requests
  <2>2. \A d \in Calls : call'[d] \in Holding => busy'
    <3> SUFFICES ASSUME NEW d \in Calls, d # c, call[d] \in Holding PROVE busy'
      BY <1>3, UpdateConstants
    <3>1. call[c] \notin Holding /\ busy
      BY <1>t DEF Requests
    <3>2. busy' = busy
      BY <1>1, <3>1 DEF Holding
    <3> QED
      BY <3>1, <3>2
  <2>3. \A d \in Calls : /\ call'[d] \notin Fetching => ~got'[d].path
                         /\ call'[d] \in Fetching \ {"fetch"} => got'[d].version \in Versions
    <3>1. call[c] \notin Fetching
      BY <1>2 DEF Fetching
    <3>2. call'[c] \notin Fetching
      BY <1>3 DEF Fetching
    <3> QED
      BY <1>t, <1>1, <1>3, <3>1, <3>2 DEF Requests
  <2>4. \A d \in Calls : /\ job'[d] # NoJob => call'[d] \in {"idle", "install"}
                         /\ job'[d].pc = "ok" => replaced'
                         /\ d \in Working' => job'[d].static = job'[d].version /\ job'[d].version \in Versions
    BY <1>t, <1>1, <1>3, <1>4, UpdateConstants DEF Requests, Working
  <2> QED
    BY <1>1, <1>2, <2>1, <2>2, <2>3, <2>4 DEF Requests
<1>7. ASSUME ~mixed PROVE OneAtWork' /\ AllInstalling' /\ Barred'
  <2>1. OneAtWork /\ AllInstalling /\ Barred
    BY <1>7 DEF UpdateInv
  <2>2. OneAtWork'
    BY <1>3, <1>4, <2>1 DEF OneAtWork
  <2>3. AllInstalling'
    BY <1>1, <1>3, <1>4, <2>1, UpdateConstants DEF AllInstalling, Installing, Switching
  <2>4. Barred'
    <3>1. CASE plan \/ requested
      <4>1. replaced' /\ \A d \in Calls : ~got'[d].path
        BY <1>1, <2>1, <3>1 DEF Barred
      <4>2. \A d \in Calls : ~Switching(d)' /\ (job'[d].pc = "stage" => ~job'[d].path)
        BY <1>3, <2>1, <3>1, UpdateConstants DEF Barred, Switching
      <4> QED
        BY <4>1, <4>2 DEF Barred
    <3>2. CASE call[c] = "install" /\ job[c].pc = "ok"
      <4>1. replaced' /\ Working = {}
        BY <1>t, <1>1, <2>1, <3>2 DEF Requests, OneAtWork, Working
      <4>2. \A d \in Calls : ~got[d].path
        <5>1. \A d \in Calls : call[d] \notin Fetching
          <6>1. call[c] \in Holding /\ call[c] \notin Fetching
            BY <3>2 DEF Holding, Fetching
          <6> QED
            BY <1>t, <6>1, UpdateConstants DEF Requests
        <5> QED
          BY <1>t, <5>1 DEF Requests
      <4>3. \A d \in Calls : job'[d].pc \notin {"stage", "static", "binary"}
        BY <1>4, <4>1 DEF Working
      <4> QED
        BY <1>1, <4>1, <4>2, <4>3 DEF Barred, Switching
    <3>3. CASE ~(plan \/ requested) /\ ~(call[c] = "install" /\ job[c].pc = "ok")
      BY <1>1, <3>3 DEF Barred
    <3> QED
      BY <3>1, <3>2, <3>3
  <2> QED
    BY <2>2, <2>3, <2>4
<1> QED
  BY <1>1, <1>5, <1>6, <1>7 DEF UpdateInv

LEMMA RestartKeeps ==
  ASSUME UpdateInv, restart_update PROVE UpdateInv'
<1>1. /\ UNCHANGED <<exe, web, run, replaced, busy, call, got, job, mixed>>
      /\ run # "none" /\ plan
  BY DEF restart_update, payload, asking
<1>2. UpdateTypes' /\ Requests' /\ Working' = Working
  BY <1>1 DEF UpdateInv, UpdateTypes, Requests, Working
<1>3. ASSUME ~mixed PROVE OneAtWork' /\ AllInstalling' /\ Barred'
  BY <1>1, <1>2, <1>3 DEF UpdateInv, OneAtWork, AllInstalling, Installing, Switching, Barred
<1> QED
  BY <1>1, <1>2, <1>3 DEF UpdateInv

\* The process ends and every thread with it.
LEMMA GoneKeeps ==
  ASSUME UpdateInv, Exec \/ Die PROVE UpdateInv'
<1>1. /\ ~busy' /\ ~plan' /\ ~requested' /\ ~replaced' /\ run' = "none"
      /\ call' = [c \in Calls |-> "idle"] /\ got' = [c \in Calls |-> NoRelease] /\ job' = [c \in Calls |-> NoJob]
      /\ UNCHANGED <<exe, web>>
  BY DEF Exec, Die, Gone
<1>2. UpdateTypes'
  BY <1>1, UpdateConstants DEF UpdateInv, UpdateTypes
<1>3. Working' = {}
  BY <1>1, UpdateConstants DEF Working
<1>4. Requests'
  BY <1>1, <1>3, UpdateConstants DEF Requests
<1>5. ASSUME ~mixed' PROVE web = exe
  <2>1. ~mixed /\ \A c \in Calls : ~Switching(c)
    <3>1. CASE Exec
      BY <1>5, <3>1 DEF Exec, UpdateInv, Barred
    <3>2. CASE Die
      BY <1>5, <3>2 DEF Die, Switching
    <3> QED
      BY <3>1, <3>2
  <2>2. AllInstalling
    BY <2>1 DEF UpdateInv
  <2>3. CASE Working = {}
    BY <2>2, <2>3 DEF AllInstalling
  <2>4. CASE Working # {}
    BY <2>1, <2>2, <2>4 DEF AllInstalling, Installing, Switching, Working
  <2> QED
    BY <2>3, <2>4
<1>6. ASSUME ~mixed' PROVE OneAtWork' /\ AllInstalling' /\ Barred'
  BY <1>1, <1>3, <1>5, <1>6, UpdateConstants DEF OneAtWork, AllInstalling, Installing, Switching, Barred
<1> QED
  BY <1>2, <1>4, <1>6 DEF UpdateInv

\* The entry script and the start of the program.
LEMMA BeginKeeps ==
  ASSUME UpdateInv, Start PROVE UpdateInv'
<1>t. UpdateTypes /\ Requests
  BY DEF UpdateInv
<1>1. /\ run = "none" /\ run' = exe' /\ UNCHANGED <<replaced, busy, plan, requested, call, got, job, mixed>>
      /\ (exe' = Installed /\ web' = Installed) \/ UNCHANGED <<exe, web>>
  BY DEF Start, switches, asking
<1>2. UpdateTypes' /\ Working = {} /\ Working' = {} /\ run' # "none"
  BY <1>t, <1>1, UpdateConstants DEF UpdateTypes, Requests, Working
<1>3. Requests'
  BY <1>t, <1>1, <1>2 DEF Requests
<1>4. ASSUME ~mixed PROVE OneAtWork' /\ AllInstalling' /\ Barred'
  <2>1. web' = exe' /\ ~plan /\ ~requested /\ \A c \in Calls : job[c] = NoJob
    BY <1>t, <1>1, <1>2, <1>4 DEF UpdateInv, AllInstalling, Requests
  <2> QED
    BY <1>1, <1>2, <2>1, UpdateConstants DEF OneAtWork, AllInstalling, Installing, Switching, Barred
<1> QED
  BY <1>1, <1>2, <1>3, <1>4 DEF UpdateInv

LEMMA UpdateKeeps ==
  ASSUME UpdateInv, [LifeNext]_lvars PROVE UpdateInv'
<1>1. CASE UNCHANGED uvars
  BY <1>1 DEF uvars, UpdateInv, UpdateTypes, Requests, Working, OneAtWork, AllInstalling, Installing,
     Switching, Barred
<1>2. CASE UpdateStep
  BY <1>2, RestartKeeps, FetchKeeps, RefusalKeeps, UnpackKeeps, ApplyUpdateKeeps, InstallKeeps, SettleKeeps
     DEF UpdateStep, Apply, Install
<1>3. CASE \E c \in Calls : apply_update(c)
  BY <1>3, ApplyUpdateKeeps
<1>4. CASE Start \/ Exec \/ Die
  BY <1>4, BeginKeeps, GoneKeeps
<1>5. UNCHANGED uvars \/ UpdateStep \/ (\E c \in Calls : apply_update(c)) \/ Start \/ Exec \/ Die
  <2>1. CASE UNCHANGED lvars
    BY <2>1 DEF lvars
  <2>2. ASSUME NEW p \in Procs, DataStep(p) PROVE UNCHANGED uvars
    BY <2>2 DEF DataStep
  <2>3. ASSUME NEW p \in Procs, CodeStep(p) PROVE UpdateStep \/ \E c \in Calls : apply_update(c)
    BY <2>3 DEF CodeStep
  <2>4. ASSUME NEW p \in Procs, Begins(p) \/ Ends(p) \/ GivesUp(p) PROVE Start \/ Exec \/ Die
    BY <2>4 DEF Begins, Ends, GivesUp
  <2> QED
    BY <2>1, <2>2, <2>3, <2>4 DEF LifeNext
<1> QED
  BY <1>1, <1>2, <1>3, <1>4, <1>5

\* Whenever no installation is at work, program and web interface are of one
\* release, unless a process ended in the middle of a switch or two
\* installations overlapped: failed steps have been undone, and neither a
\* second request nor the planned restart has cut into an installation.
THEOREM PayloadStaysWhole == LifeInit /\ [][LifeNext]_lvars => []PayloadWhole
<1>1. LifeInit => UpdateInv
  BY UpdateInitHolds DEF LifeInit
<1>2. UpdateInv => PayloadWhole
  BY DEF UpdateInv, AllInstalling, PayloadWhole
<1>3. UpdateInv /\ [LifeNext]_lvars => UpdateInv'
  BY UpdateKeeps
<1> QED
  BY <1>1, <1>2, <1>3, PTL

----------------------------------------------------------------------------
(* The data from one start of the program to the next: a restore that is   *)
(* applied in the middle of failures, stops and further starts.            *)

\* At most one process is started on a DATA_DIR.
OneProcess == \A p, q \in Procs : p = q

Archives == UNION {[S -> Bytes] : S \in SUBSET Files}
Stored == [id : Nat, files : Archives]
Orders == [archive : Archives, snapshot : Nat, started : BOOLEAN]
Operations == [pc : {"idle", "read", "store", "verify", "stage"}, kind : {"create", "restore"},
               left : SUBSET Files, got : Archives, upload : Archives]
Counts == [writes : Nat, ops : Nat, faults : Nat, stops : Nat]

DataTypes ==
  /\ disk \in [Stores -> Nat] /\ truth \in [Stores -> Nat] /\ inode \in Nat \ {0}
  /\ proc \in [Procs -> [pc : Alive \cup {"down", "refused"}, ino : Nat]]
  /\ \A p \in Procs : proc[p].ino <= inode
  /\ todo \in [Procs -> SUBSET Files] /\ op \in [Procs -> Operations] /\ spent \in Counts
  /\ backups \in Seq(Stored) /\ pending \in SUBSET Orders

OwnNames(s) == \A i, k \in DOMAIN s : s[i].id = s[k].id => i = k
\* Each archive has a name of its own, and an operation that is under way or
\* has staged a restore was given a sound archive.
ArchivesSound ==
  /\ OwnNames(backups)
  /\ \A p \in Procs : op[p].pc # "idle" => proc[p].pc = "up" /\ validate_archive(op[p].upload)
  /\ \A r, s \in pending : r = s
  /\ \A r \in pending : validate_archive(r.archive)

\* The data that an archive holds, file by file.
Holds(files) == \A f \in Stores : truth[f] = IF f \in DOMAIN files THEN files[f] ELSE 0

\* A snapshot is there before the first file is replaced.
SnapshotKept ==
  \A r \in pending : r.started \/ (\E p \in Procs : proc[p].pc = "resaved") =>
    Named(r.snapshot) # {} /\ \A files \in Named(r.snapshot) : Holds(files)

\* Once a restore is started a file is either the old one or the archive's;
\* what is left to do says which one it is.
Mixed ==
  /\ ~Started => disk = truth
  /\ \A r \in pending : r.started => \A f \in Stores :
       disk[f] = truth[f] \/ (f \in DOMAIN r.archive /\ disk[f] = r.archive[f])
Progress(p) ==
  /\ proc[p].pc \in {"up", "resaved"} => ~Started
  /\ proc[p].pc \in {"resaved", "apply", "undo"} => pending # {}
  /\ proc[p].pc \in {"apply", "undo"} => Started
  /\ proc[p].pc = "apply" => \A r \in pending : todo[p] \subseteq DOMAIN r.archive /\ \A f \in Stores :
       f \in DOMAIN r.archive /\ f \notin todo[p] => disk[f] = r.archive[f]
  /\ proc[p].pc = "undo" => \A f \in Stores : f \notin todo[p] => disk[f] = truth[f]
  /\ proc[p].pc = "refused" => disk = truth

RestoreInv ==
  DataTypes /\ ArchivesSound /\ SnapshotKept /\ Mixed /\ \A p \in Procs : Progress(p)

\* What is an archive.
LEMMA ArchiveFacts ==
  /\ \A a \in Archives : DOMAIN a \subseteq Files /\ a \in [DOMAIN a -> Bytes]
  /\ \A a : DOMAIN a \subseteq Files /\ a \in [DOMAIN a -> Bytes] => a \in Archives
  /\ Nothing \in Archives /\ validate_archive(Nothing)
<1>1. ASSUME NEW a \in Archives PROVE DOMAIN a \subseteq Files /\ a \in [DOMAIN a -> Bytes]
  BY DEF Archives
<1>2. ASSUME NEW a, DOMAIN a \subseteq Files, a \in [DOMAIN a -> Bytes] PROVE a \in Archives
  BY <1>2 DEF Archives
<1>3. DOMAIN Nothing = {} /\ Nothing \in [{} -> Bytes]
  BY DEF Nothing
<1> QED
  BY <1>1, <1>2, <1>3 DEF validate_archive

\* A set of natural numbers that is not empty has a least element.
LEMMA LeastElement ==
  ASSUME NEW S \in SUBSET Nat, S # {}
  PROVE  \E m \in S : \A n \in S : m <= n
<1>1. \A x, y \in Nat : x < y => <<x, y>> \in OpToRel(<, Nat)
  BY DEF OpToRel
<1>2. \E R : IsWellFoundedOn(R, Nat) /\ \A x, y \in Nat : x < y => <<x, y>> \in R
  BY <1>1, NatLessThanWellFounded, Zenon
<1>3. PICK R : IsWellFoundedOn(R, Nat) /\ \A x, y \in Nat : x < y => <<x, y>> \in R
  BY <1>2
<1>4. PICK x \in S : \A y \in S : ~(<<y, x>> \in R)
  <2>1. IsWellFoundedOn(R, Nat) /\ S \subseteq Nat /\ S # {}
    BY <1>3
  <2> QED
    BY <2>1, WFMin
<1>5. ASSUME NEW y \in S PROVE x <= y
  <2>1. x \in Nat /\ y \in Nat /\ ~(y < x)
    BY <1>3, <1>4
  <2> QED
    BY <2>1
<1> QED
  BY <1>5

\* The first of some files is one of them.
LEMMA FirstIn ==
  ASSUME NEW S \in SUBSET Files, S # {} PROVE First(S) \in S
<1> DEFINE I == {i \in DOMAIN Order : Order[i] \in S}
<1>1. Range(Order) = Files /\ DOMAIN Order = 1 .. Len(Order) /\ Len(Order) \in Nat
  BY BackupAssumption
<1>2. I \in SUBSET Nat /\ I # {}
  BY <1>1 DEF Range
<1>3. PICK i \in I : \A k \in I : i <= k
  BY <1>2, LeastElement
<1>4. \A k \in 1 .. i - 1 : Order[k] \notin S
  BY <1>1, <1>3
<1>5. \E n \in DOMAIN Order : Order[n] \in S /\ \A k \in 1 .. n - 1 : Order[k] \notin S
  BY <1>3, <1>4
<1> QED
  BY <1>5 DEF First

\* A sequence without its element at i.
LEMMA RemoveOne ==
  ASSUME NEW S, NEW s \in Seq(S), NEW i \in DOMAIN s
  PROVE  /\ RemoveAt(s, i) \in Seq(S) /\ Len(RemoveAt(s, i)) = Len(s) - 1
         /\ \A k \in 1 .. Len(s) - 1 : RemoveAt(s, i)[k] = IF k < i THEN s[k] ELSE s[k + 1]
<1> DEFINE a == SubSeq(s, 1, i - 1)
           b == SubSeq(s, i + 1, Len(s))
<1>1. Len(s) \in Nat /\ i \in 1 .. Len(s) /\ \A k \in 1 .. Len(s) : s[k] \in S
  OBVIOUS
<1>2. /\ a \in Seq(S) /\ Len(a) = i - 1
      /\ \A k \in 1 .. i - 1 : a[k] = s[k]
  BY <1>1, SubSeqProperties
<1>3. /\ b \in Seq(S) /\ Len(b) = Len(s) - i
      /\ \A k \in 1 .. Len(s) - i : b[k] = s[i + k]
  BY <1>1, SubSeqProperties
<1> HIDE DEF a, b
<1>4. /\ a \o b \in Seq(S) /\ Len(a \o b) = Len(s) - 1
      /\ \A k \in 1 .. Len(s) - 1 : (a \o b)[k] = IF k <= i - 1 THEN a[k] ELSE b[k - (i - 1)]
  <2>1. /\ a \o b \in Seq(S) /\ Len(a \o b) = Len(a) + Len(b)
        /\ \A k \in 1 .. Len(a) + Len(b) : (a \o b)[k] = IF k <= Len(a) THEN a[k] ELSE b[k - Len(a)]
    BY <1>2, <1>3, ConcatProperties
  <2>2. Len(a) + Len(b) = Len(s) - 1
    BY <1>1, <1>2, <1>3
  <2>3. Len(a) = i - 1
    BY <1>2
  <2> QED
    BY <2>1, <2>2, <2>3
<1>5. ASSUME NEW k \in 1 .. Len(s) - 1 PROVE (a \o b)[k] = IF k < i THEN s[k] ELSE s[k + 1]
  <2>1. CASE k < i
    BY <1>1, <1>2, <1>4, <2>1
  <2>2. CASE ~(k < i)
    <3>1. k - (i - 1) \in 1 .. Len(s) - i /\ i + (k - (i - 1)) = k + 1 /\ ~(k <= i - 1)
      BY <1>1, <2>2
    <3> QED
      BY <1>3, <1>4, <2>2, <3>1
  <2> QED
    BY <2>1, <2>2
<1>6. RemoveAt(s, i) = a \o b
  BY DEF RemoveAt, a, b
<1> QED
  BY <1>4, <1>5, <1>6

\* An archive is written under its name, and no other has this name.
LEMMA SaveFacts ==
  ASSUME backups \in Seq(Stored), OwnNames(backups), NEW id \in Nat, NEW files \in Archives,
         backups' = Save(id, files)
  PROVE  backups' \in Seq(Stored) /\ OwnNames(backups') /\ Named(id)' = {files}
<1> DEFINE same == {i \in DOMAIN backups : backups[i].id = id}
           others == IF same = {} THEN backups ELSE RemoveAt(backups, CHOOSE i \in same : TRUE)
           e == Entry(id, files)
<1>1. e \in Stored /\ e.id = id /\ e.files = files
  BY DEF Entry, Stored
<1>2. /\ others \in Seq(Stored) /\ OwnNames(others)
      /\ \A i \in DOMAIN others : others[i].id # id
  <2>1. CASE same = {}
    BY <2>1
  <2>2. CASE same # {}
    <3>1. PICK n \in DOMAIN backups : n = (CHOOSE i \in same : TRUE) /\ backups[n].id = id
      BY <2>2
    <3>2. others = RemoveAt(backups, n)
      BY <2>2, <3>1
    <3>3. /\ others \in Seq(Stored) /\ Len(others) = Len(backups) - 1
          /\ \A k \in 1 .. Len(backups) - 1 : others[k] = IF k < n THEN backups[k] ELSE backups[k + 1]
      <4>1. n \in DOMAIN backups /\ backups \in Seq(Stored)
        BY <3>1
      <4> HIDE DEF others
      <4> QED
        BY <3>2, <4>1, RemoveOne
    <3> HIDE DEF others, same
    <3>4. DOMAIN others = 1 .. Len(backups) - 1 /\ DOMAIN backups = 1 .. Len(backups) /\ Len(backups) \in Nat
      BY <3>3
    <3>5. \A k \in DOMAIN others : \E m \in DOMAIN backups :
             m # n /\ others[k] = backups[m] /\ m = IF k < n THEN k ELSE k + 1
      BY <3>3, <3>4
    <3>6. \A i \in DOMAIN others : others[i].id # id
      BY <3>1, <3>5 DEF OwnNames
    <3>7. ASSUME NEW i \in DOMAIN others, NEW k \in DOMAIN others, others[i].id = others[k].id PROVE i = k
      <4>1. PICK a \in DOMAIN backups : a # n /\ others[i] = backups[a] /\ a = IF i < n THEN i ELSE i + 1
        BY <3>5
      <4>2. PICK b \in DOMAIN backups : b # n /\ others[k] = backups[b] /\ b = IF k < n THEN k ELSE k + 1
        BY <3>5
      <4>3. a = b
        BY <3>7, <4>1, <4>2 DEF OwnNames
      <4>4. i \in Nat /\ k \in Nat /\ n \in Nat
        BY <3>4
      <4> QED
        BY <4>1, <4>2, <4>3, <4>4
    <3> QED
      BY <3>3, <3>6, <3>7 DEF OwnNames
  <2> QED
    BY <2>1, <2>2
<1>3. backups' = Append(others, e)
  BY DEF Save
<1> HIDE DEF others, same, e
<1>4. /\ backups' \in Seq(Stored) /\ DOMAIN backups' = 1 .. Len(others) + 1
      /\ Len(others) \in Nat /\ DOMAIN others = 1 .. Len(others)
      /\ backups'[Len(others) + 1] = e /\ \A i \in DOMAIN others : backups'[i] = others[i]
  BY <1>1, <1>2, <1>3
<1>5. \A i \in DOMAIN backups' : i \in DOMAIN others \/ i = Len(others) + 1
  BY <1>4
<1>6. OwnNames(backups')
  BY <1>1, <1>2, <1>4, <1>5 DEF OwnNames
<1>7. {n \in DOMAIN backups' : backups'[n].id = id} = {Len(others) + 1}
  BY <1>1, <1>2, <1>4, <1>5
<1>8. Named(id)' = {files}
  BY <1>1, <1>4, <1>7 DEF Named
<1> QED
  BY <1>4, <1>6, <1>8

\* The newest archives stay, each of a name of its own.
LEMMA PruneFacts ==
  ASSUME NEW s \in Seq(Stored), OwnNames(s), NEW keep \in Nat
  PROVE  prune_locked(s, keep) \in Seq(Stored) /\ OwnNames(prune_locked(s, keep))
<1>1. CASE Len(s) <= keep
  BY <1>1 DEF prune_locked
<1>2. CASE ~(Len(s) <= keep)
  <2> DEFINE t == SubSeq(s, Len(s) - keep + 1, Len(s))
  <2>1. prune_locked(s, keep) = t
    BY <1>2 DEF prune_locked
  <2>2. Len(s) \in Nat /\ Len(s) > keep
    BY <1>2
  <2>3. t \in Seq(Stored) /\ Len(t) = keep /\ \A i \in 1 .. keep : t[i] = s[Len(s) - keep + i]
    BY <2>2, SubSeqProperties
  <2> HIDE DEF t
  <2>4. OwnNames(t)
    <3> SUFFICES ASSUME NEW i \in 1 .. keep, NEW k \in 1 .. keep, t[i].id = t[k].id PROVE i = k
      BY <2>3 DEF OwnNames
    <3>1. /\ Len(s) - keep + i \in DOMAIN s /\ Len(s) - keep + k \in DOMAIN s
          /\ s[Len(s) - keep + i].id = s[Len(s) - keep + k].id
      BY <2>2, <2>3
    <3>2. Len(s) - keep + i = Len(s) - keep + k
      BY <3>1 DEF OwnNames
    <3> QED
      BY <2>2, <3>2
  <2> QED
    BY <2>1, <2>3, <2>4
<1> QED
  BY <1>1, <1>2

LEMMA RestoreInitHolds == BackupInit => RestoreInv
<1> SUFFICES ASSUME BackupInit PROVE RestoreInv
  OBVIOUS
<1>1. /\ disk \in [Stores -> {0, 1}] /\ truth = disk /\ inode = 1 /\ pending = {} /\ backups = <<>>
      /\ proc = [p \in Procs |-> Down] /\ todo = [p \in Procs |-> {}] /\ op = [p \in Procs |-> NoOp]
      /\ spent = [writes |-> 0, ops |-> 0, faults |-> 0, stops |-> 0]
  BY DEF BackupInit
<1>2. NoOp \in Operations /\ NoOp.pc = "idle"
  BY ArchiveFacts DEF NoOp, Operations
<1>3. DataTypes
  <2>1. disk \in [Stores -> Nat]
    BY <1>1
  <2>2. backups \in Seq(Stored) /\ spent \in Counts
    BY <1>1 DEF Counts
  <2> QED
    BY <1>1, <1>2, <2>1, <2>2 DEF DataTypes, Down
<1>4. ArchivesSound
  BY <1>1, <1>2 DEF ArchivesSound, OwnNames
<1>5. SnapshotKept /\ Mixed /\ ~Started
  BY <1>1 DEF SnapshotKept, Mixed, Started
<1>6. \A p \in Procs : Progress(p)
  BY <1>1, <1>5 DEF Progress, Down
<1> QED
  BY <1>3, <1>4, <1>5, <1>6 DEF RestoreInv

\* What is done to the archives while the program is up does not touch a
\* restore that was started: there is none.
LEMMA OperationKeeps ==
  ASSUME RestoreInv, OneProcess, NEW p \in Procs, proc[p].pc = "up",
         UNCHANGED <<disk, inode, proc, todo, truth>>,
         NEW o \in Operations, op' = [op EXCEPT ![p] = o], validate_archive(o.upload),
         backups' \in Seq(Stored), OwnNames(backups'), spent' \in Counts,
         \/ pending' = pending
         \/ \E r \in Orders : ~r.started /\ validate_archive(r.archive) /\ pending' = {r}
  PROVE  RestoreInv'
<1>1. ~Started /\ disk = truth /\ \A q \in Procs : q = p /\ proc[q].pc = "up"
  <2>1. \A q \in Procs : q = p
    BY DEF OneProcess
  <2>2. Progress(p) /\ Mixed
    BY DEF RestoreInv
  <2> QED
    BY <2>1, <2>2 DEF Progress, Mixed
<1>2. /\ pending' \in SUBSET Orders /\ \A r, s \in pending' : r = s
      /\ \A r \in pending' : ~r.started /\ validate_archive(r.archive)
  BY <1>1 DEF RestoreInv, DataTypes, ArchivesSound, Started
<1>3. DataTypes'
  BY <1>2 DEF RestoreInv, DataTypes
<1>4. ArchivesSound'
  <2>1. \A r : validate_archive(r)' <=> validate_archive(r)
    BY DEF validate_archive
  <2>2. op'[p] = o /\ \A q \in Procs : q = p
    BY <1>1 DEF RestoreInv, DataTypes
  <2>3. \A q \in Procs : op'[q].pc # "idle" => proc'[q].pc = "up" /\ validate_archive(op'[q].upload)
    BY <1>1, <2>2
  <2> QED
    BY <1>2, <2>3 DEF ArchivesSound, validate_archive, OwnNames
<1>5. SnapshotKept' /\ Mixed' /\ ~Started'
  BY <1>1, <1>2 DEF SnapshotKept, Mixed, Started
<1>6. \A q \in Procs : Progress(q)'
  BY <1>1, <1>5 DEF Progress, Started
<1> QED
  BY <1>3, <1>4, <1>5, <1>6 DEF RestoreInv

\* The archive of what is there now holds what is there now.
LEMMA BuildFacts ==
  ASSUME DataTypes
  PROVE  /\ collect_files \subseteq Files /\ \A f \in Files : Content(f) \in Bytes
         /\ build_archive \in Archives
         /\ \A f \in Stores : disk[f] = IF f \in DOMAIN build_archive THEN build_archive[f] ELSE 0
<1>1. collect_files \subseteq Files
  BY DEF collect_files, Files
<1>2. \A f \in Files : Content(f) \in Bytes
  BY DEF DataTypes, Files, Content, Bytes
<1>3. DOMAIN build_archive = collect_files /\ \A f \in collect_files : build_archive[f] = Content(f)
  BY DEF build_archive
<1>4. build_archive \in [collect_files -> Bytes]
  BY <1>1, <1>2 DEF build_archive
<1>5. \A f \in Stores : f # LockFile /\ Content(f) = disk[f] /\ (f \in collect_files <=> disk[f] # 0)
  BY BackupAssumption DEF Content, collect_files
<1> QED
  BY <1>1, <1>2, <1>3, <1>4, <1>5, ArchiveFacts

\* Another count.
LEMMA PayTypes ==
  ASSUME DataTypes, NEW what \in {"writes", "ops", "faults", "stops"}, NEW max, Pay(what, max)
  PROVE  spent' \in Counts
<1>1. spent \in Counts /\ spent' = [spent EXCEPT ![what] = @ + 1]
  BY DEF DataTypes, Pay
<1> QED
  BY <1>1 DEF Counts

\* A backup or a restore begins, of what is stored or was sent and is sound.
LEMMA AskKeeps ==
  ASSUME RestoreInv, OneProcess, NEW p \in Procs, create_stored_backup(p) \/ restore(p)
  PROVE  RestoreInv'
<1>1. PICK what \in {"create", "restore"}, upload \in Archives :
        Begin(p, what, upload) /\ validate_archive(upload)
  <2>1. CASE create_stored_backup(p)
    BY <2>1, ArchiveFacts DEF create_stored_backup
  <2>2. CASE restore(p)
    <3>1. PICK upload \in Uploads \cup {backups[i].files : i \in DOMAIN backups} :
            validate_archive(upload) /\ Begin(p, "restore", upload)
      BY <2>2 DEF restore
    <3>2. \A i \in DOMAIN backups : backups[i].files \in Archives
      <4>1. backups \in Seq(Stored)
        BY DEF RestoreInv, DataTypes
      <4>2. \A e \in Stored : e.files \in Archives
        BY DEF Stored
      <4> QED
        BY <4>1, <4>2
    <3>3. \A u \in Uploads : u \in Archives
      BY BackupAssumption, ArchiveFacts
    <3> QED
      BY <3>1, <3>2, <3>3
  <2> QED
    BY <2>1, <2>2
<1>2. /\ proc[p].pc = "up" /\ UNCHANGED <<disk, inode, proc, todo, backups, pending, truth>>
      /\ Pay("ops", MaxOps)
      /\ op' = [op EXCEPT ![p] = [pc |-> "read", kind |-> what, left |-> collect_files,
                                 got |-> Nothing, upload |-> upload]]
  BY <1>1 DEF Begin
<1> DEFINE o == [pc |-> "read", kind |-> what, left |-> collect_files, got |-> Nothing, upload |-> upload]
<1>3. o \in Operations /\ o.upload = upload
  BY ArchiveFacts, BuildFacts DEF RestoreInv, Operations
<1>4. spent' \in Counts
  BY <1>2, PayTypes DEF RestoreInv
<1>5. backups' \in Seq(Stored) /\ OwnNames(backups')
  BY <1>2 DEF RestoreInv, DataTypes, ArchivesSound
<1> HIDE DEF o
<1>6. op' = [op EXCEPT ![p] = o] /\ validate_archive(o.upload)
  BY <1>1, <1>2, <1>3 DEF o
<1> QED
  BY <1>2, <1>3, <1>4, <1>5, <1>6, OperationKeeps

\* What is known of an operation that is under way.
LEMMA OperationFacts ==
  ASSUME RestoreInv, NEW p \in Procs
  PROVE  /\ op[p] \in Operations /\ op \in [Procs -> Operations] /\ DataTypes
         /\ op[p].pc # "idle" => proc[p].pc = "up" /\ validate_archive(op[p].upload)
         /\ backups \in Seq(Stored) /\ OwnNames(backups) /\ spent \in Counts /\ spent.ops \in Nat
         /\ NoOp \in Operations /\ validate_archive(NoOp.upload) /\ NoOp.pc = "idle"
<1>1. op \in [Procs -> Operations] /\ backups \in Seq(Stored) /\ spent \in Counts /\ DataTypes
  BY DEF RestoreInv, DataTypes
<1>2. OwnNames(backups) /\ (op[p].pc # "idle" => proc[p].pc = "up" /\ validate_archive(op[p].upload))
  BY DEF RestoreInv, ArchivesSound
<1>3. NoOp \in Operations /\ validate_archive(NoOp.upload) /\ NoOp.pc = "idle"
  BY ArchiveFacts DEF NoOp, Operations
<1>4. spent.ops \in Nat
  BY <1>1 DEF Counts
<1> QED
  BY <1>1, <1>2, <1>3, <1>4

\* The operation goes on with another step.
LEMMA StepTypes ==
  ASSUME NEW o \in Operations, NEW pc \in {"idle", "read", "store", "verify", "stage"}
  PROVE  [o EXCEPT !.pc = pc] \in Operations /\ [o EXCEPT !.pc = pc].upload = o.upload
BY DEF Operations

\* The next file is read.
LEMMA ReadKeeps ==
  ASSUME RestoreInv, OneProcess, NEW p \in Procs, ReadFile(p) PROVE RestoreInv'
<1> DEFINE f == First(op[p].left)
           have == op[p].got
           all == [g \in DOMAIN have \cup {f} |-> IF g = f THEN Content(f) ELSE have[g]]
           o == [op[p] EXCEPT !.left = @ \ {f}, !.got = all]
<1>1. /\ op[p].pc = "read" /\ op[p].left # {} /\ op' = [op EXCEPT ![p].left = @ \ {f}, ![p].got = all]
      /\ UNCHANGED <<disk, inode, proc, todo, backups, pending, truth, spent>>
  BY DEF ReadFile, Unread
<1>2. /\ op[p].left \in SUBSET Files /\ have \in Archives /\ op[p] \in Operations
  BY OperationFacts DEF Operations
<1>3. f \in Files /\ Content(f) \in Bytes
  <2>1. f \in op[p].left
    BY <1>1, <1>2, FirstIn
  <2> QED
    BY <1>2, <2>1, BuildFacts, OperationFacts
<1>4. all \in Archives
  <2>1. DOMAIN have \subseteq Files /\ have \in [DOMAIN have -> Bytes]
    BY <1>2, ArchiveFacts
  <2> HIDE DEF f, have
  <2>2. DOMAIN all = DOMAIN have \cup {f} /\ all \in [DOMAIN have \cup {f} -> Bytes]
    BY <1>3, <2>1
  <2> HIDE DEF all
  <2> QED
    BY <1>3, <2>1, <2>2, ArchiveFacts
<1> HIDE DEF all, f, have
<1>5. o \in Operations /\ o.upload = op[p].upload
  BY <1>2, <1>4 DEF Operations
<1>6. op' = [op EXCEPT ![p] = o]
  BY <1>1, OperationFacts
<1> HIDE DEF o
<1>7. /\ proc[p].pc = "up" /\ validate_archive(o.upload) /\ backups' \in Seq(Stored)
      /\ OwnNames(backups') /\ spent' \in Counts
  BY <1>1, <1>5, OperationFacts
<1> QED
  BY <1>1, <1>5, <1>6, <1>7, OperationKeeps

\* An archive is stored, verified, and old ones go.
LEMMA StoreKeeps ==
  ASSUME RestoreInv, OneProcess, NEW p \in Procs, MakeRoom(p) \/ StoreArchive(p) \/ Verify(p)
  PROVE  RestoreInv'
<1>1. PICK o \in Operations :
        /\ op' = [op EXCEPT ![p] = o] /\ validate_archive(o.upload) /\ op[p].pc # "idle"
        /\ UNCHANGED <<disk, inode, proc, todo, pending, truth>>
  <2>1. CASE MakeRoom(p)
    <3>1. op' = [op EXCEPT ![p] = NoOp] \/ op' = [op EXCEPT ![p] = [op[p] EXCEPT !.pc = "store"]]
      BY <2>1, OperationFacts DEF MakeRoom
    <3> QED
      BY <2>1, <3>1, OperationFacts, StepTypes DEF MakeRoom
  <2>2. CASE StoreArchive(p)
    <3>1. op' = [op EXCEPT ![p] = [op[p] EXCEPT !.pc = "verify"]]
      BY <2>2, OperationFacts DEF StoreArchive
    <3> QED
      BY <2>2, <3>1, OperationFacts, StepTypes DEF StoreArchive
  <2>3. CASE Verify(p)
    BY <2>3, OperationFacts DEF Verify
  <2> QED
    BY <2>1, <2>2, <2>3
<1>2. /\ proc[p].pc = "up" /\ backups \in Seq(Stored) /\ OwnNames(backups)
      /\ op[p].got \in Archives /\ spent.ops \in Nat
  BY <1>1, OperationFacts DEF Operations
<1>3. spent' \in Counts
  BY OperationFacts, PayTypes DEF MakeRoom, StoreArchive, Verify
<1>4. backups' \in Seq(Stored) /\ OwnNames(backups')
  <2>1. Retention \in Nat /\ Retention - 1 \in Nat
    BY BackupAssumption
  <2>2. CASE backups' = backups \/ (\E n \in Nat : backups' = prune_locked(backups, n))
    BY <1>2, <2>2, PruneFacts
  <2>3. CASE backups' = Save(spent.ops, op[p].got)
    BY <1>2, <2>3, SaveFacts
  <2> QED
    BY <2>1, <2>2, <2>3 DEF MakeRoom, StoreArchive, Verify
<1> QED
  BY <1>1, <1>2, <1>3, <1>4, OperationKeeps

\* The snapshot of a restore is stored, the request staged.
LEMMA StageKeeps ==
  ASSUME RestoreInv, OneProcess, NEW p \in Procs, StoreSnapshot(p) \/ Stage(p) PROVE RestoreInv'
<1>1. op[p].pc # "idle" /\ UNCHANGED <<disk, inode, proc, todo, truth, spent>>
  BY DEF StoreSnapshot, Stage
<1>2. /\ proc[p].pc = "up" /\ backups \in Seq(Stored) /\ OwnNames(backups) /\ spent' \in Counts
      /\ op[p].got \in Archives /\ op[p].upload \in Archives /\ spent.ops \in Nat
      /\ validate_archive(op[p].upload)
  BY <1>1, OperationFacts DEF Operations
<1>3. CASE StoreSnapshot(p)
  <2> DEFINE o == [op[p] EXCEPT !.pc = "stage"]
  <2>1. op' = [op EXCEPT ![p] = o] /\ backups' = Save(spent.ops, op[p].got) /\ pending' = pending
    BY <1>3, OperationFacts DEF StoreSnapshot
  <2>2. o \in Operations /\ o.upload = op[p].upload
    BY OperationFacts, StepTypes
  <2>3. backups' \in Seq(Stored) /\ OwnNames(backups')
    BY <1>2, <2>1, SaveFacts
  <2> HIDE DEF o
  <2> QED
    BY <1>1, <1>2, <2>1, <2>2, <2>3, OperationKeeps
<1>4. CASE Stage(p)
  <2> DEFINE r == [archive |-> op[p].upload, snapshot |-> spent.ops, started |-> FALSE]
  <2>1. op' = [op EXCEPT ![p] = NoOp] /\ pending' = {r} /\ backups' = backups
    BY <1>4 DEF Stage
  <2>2. r \in Orders /\ ~r.started /\ validate_archive(r.archive)
    BY <1>2 DEF Orders
  <2> HIDE DEF r
  <2> QED
    BY <1>1, <1>2, <2>1, <2>2, OperationFacts, OperationKeeps
<1> QED
  BY <1>3, <1>4

\* A store writes what the program's data are from now on.
LEMMA WriteKeeps ==
  ASSUME RestoreInv, OneProcess, NEW p \in Procs, NEW f \in Stores, Write(p, f) PROVE RestoreInv'
<1>1. /\ proc[p].pc = "up" /\ disk' = [disk EXCEPT ![f] = @ + 1] /\ truth' = [truth EXCEPT ![f] = @ + 1]
      /\ UNCHANGED <<inode, proc, todo, op, backups, pending>> /\ Pay("writes", MaxWrites)
  BY DEF Write
<1>2. ~Started /\ disk = truth /\ \A q \in Procs : q = p /\ proc[q].pc = "up"
  <2>1. \A q \in Procs : q = p
    BY DEF OneProcess
  <2>2. Progress(p) /\ Mixed
    BY DEF RestoreInv
  <2> QED
    BY <1>1, <2>1, <2>2 DEF Progress, Mixed
<1>3. disk' = truth' /\ ~Started'
  BY <1>1, <1>2 DEF Started
<1>4. DataTypes'
  <2>1. disk' \in [Stores -> Nat]
    BY <1>1 DEF RestoreInv, DataTypes
  <2>2. spent' \in Counts
    BY <1>1, PayTypes DEF RestoreInv
  <2> QED
    BY <1>1, <1>3, <2>1, <2>2 DEF RestoreInv, DataTypes
<1>5. ArchivesSound'
  BY <1>1 DEF RestoreInv, ArchivesSound, OwnNames, validate_archive
<1>6. SnapshotKept' /\ Mixed'
  BY <1>1, <1>2, <1>3 DEF SnapshotKept, Mixed, Started
<1>7. \A q \in Procs : Progress(q)'
  BY <1>1, <1>2, <1>3 DEF Progress, Started
<1> QED
  BY <1>4, <1>5, <1>6, <1>7 DEF RestoreInv

\* The process begins, ends, or goes on without a restore.
LEMMA ProcessMoves ==
  ASSUME RestoreInv, OneProcess, NEW p \in Procs,
         UNCHANGED <<disk, inode, backups, pending, truth>>, spent' \in Counts,
         NEW v \in [pc : {"locked", "up", "down", "refused"}, ino : Nat], v.ino <= inode,
         proc' = [proc EXCEPT ![p] = v], todo' \in [Procs -> SUBSET Files],
         (op' = op /\ op[p].pc = "idle") \/ op' = [op EXCEPT ![p] = NoOp],
         v.pc = "up" => ~Started, v.pc = "refused" => disk = truth
  PROVE  RestoreInv'
<1>1. \A q \in Procs : q = p
  BY DEF OneProcess
<1>2. /\ proc'[p] = v /\ proc' \in [Procs -> [pc : Alive \cup {"down", "refused"}, ino : Nat]]
      /\ op' \in [Procs -> Operations] /\ op'[p].pc = "idle"
  <2>1. proc \in [Procs -> [pc : Alive \cup {"down", "refused"}, ino : Nat]]
    BY DEF RestoreInv, DataTypes
  <2>2. v \in [pc : Alive \cup {"down", "refused"}, ino : Nat]
    BY DEF Alive, Starting
  <2>3. op' \in [Procs -> Operations] /\ op'[p].pc = "idle"
    BY OperationFacts
  <2> QED
    BY <2>1, <2>2, <2>3
<1>3. DataTypes'
  <2>1. \A q \in Procs : proc'[q].ino <= inode'
    BY <1>1, <1>2
  <2> QED
    BY <1>2, <2>1 DEF RestoreInv, DataTypes
<1>4. ArchivesSound'
  BY <1>1, <1>2 DEF RestoreInv, ArchivesSound, OwnNames, validate_archive
<1>5. SnapshotKept' /\ Mixed'
  <2>1. \A q \in Procs : proc'[q].pc # "resaved"
    BY <1>1, <1>2
  <2> QED
    BY <2>1 DEF RestoreInv, SnapshotKept, Mixed, Started, Named, Holds
<1>6. \A q \in Procs : Progress(q)'
  BY <1>1, <1>2 DEF Progress, Started
<1> QED
  BY <1>3, <1>4, <1>5, <1>6 DEF RestoreInv

\* The lock is taken, the stores are loaded, a start gives up, the process ends.
LEMMA StartedKeeps ==
  ASSUME RestoreInv, OneProcess, NEW p \in Procs, acquire(p) \/ LoadStores(p) \/ Refuse(p) \/ Exit(p)
  PROVE  RestoreInv'
<1>1. /\ inode \in Nat /\ proc[p] \in [pc : Alive \cup {"down", "refused"}, ino : Nat]
      /\ proc[p].ino <= inode /\ todo \in [Procs -> SUBSET Files] /\ Progress(p) /\ spent \in Counts
      /\ proc \in [Procs -> [pc : Alive \cup {"down", "refused"}, ino : Nat]]
  BY DEF RestoreInv, DataTypes
<1>2. proc[p].pc # "up" => op[p].pc = "idle"
  BY DEF RestoreInv, ArchivesSound
<1>3. CASE acquire(p)
  <2> DEFINE v == [pc |-> "locked", ino |-> inode]
  <2>1. /\ proc' = [proc EXCEPT ![p] = v] /\ proc[p].pc # "up" /\ op' = op
        /\ UNCHANGED <<disk, inode, todo, backups, pending, truth, spent>>
    BY <1>3 DEF acquire
  <2>2. v \in [pc : {"locked", "up", "down", "refused"}, ino : Nat] /\ v.ino <= inode /\ v.pc = "locked"
    BY <1>1
  <2> HIDE DEF v
  <2> QED
    BY <1>1, <1>2, <2>1, <2>2, ProcessMoves
<1>4. CASE LoadStores(p)
  <2> DEFINE v == [proc[p] EXCEPT !.pc = "up"]
  <2>1. /\ proc' = [proc EXCEPT ![p] = v] /\ proc[p].pc # "up" /\ op' = op /\ ~Started
        /\ UNCHANGED <<disk, inode, todo, backups, pending, truth, spent>>
    BY <1>1, <1>4 DEF LoadStores, Goto, Started
  <2>2. v \in [pc : {"locked", "up", "down", "refused"}, ino : Nat] /\ v.ino <= inode /\ v.pc = "up"
    BY <1>1
  <2> HIDE DEF v
  <2> QED
    BY <1>1, <1>2, <2>1, <2>2, ProcessMoves
<1>5. CASE Refuse(p)
  <2> DEFINE v == [pc |-> "refused", ino |-> 0]
  <2>1. /\ proc' = [proc EXCEPT ![p] = v] /\ proc[p].pc = "undo" /\ todo[p] = {} /\ op' = op
        /\ UNCHANGED <<disk, inode, todo, backups, pending, truth, spent>>
    BY <1>5 DEF Refuse
  <2>2. v \in [pc : {"locked", "up", "down", "refused"}, ino : Nat] /\ v.ino <= inode /\ v.pc = "refused"
    BY <1>1
  <2>3. disk = truth
    <3>1. \A f \in Stores : disk[f] = truth[f]
      BY <1>1, <2>1 DEF Progress
    <3>2. disk \in [Stores -> Nat] /\ truth \in [Stores -> Nat]
      BY DEF RestoreInv, DataTypes
    <3> QED
      BY <3>1, <3>2
  <2> HIDE DEF v
  <2> QED
    BY <1>1, <1>2, <2>1, <2>2, <2>3, ProcessMoves
<1>6. CASE Exit(p)
  <2>1. /\ proc' = [proc EXCEPT ![p] = Down] /\ todo' = [todo EXCEPT ![p] = {}]
        /\ op' = [op EXCEPT ![p] = NoOp] /\ UNCHANGED <<disk, inode, backups, pending, truth>>
        /\ Pay("stops", MaxStops)
    BY <1>6 DEF Exit
  <2>2. /\ Down \in [pc : {"locked", "up", "down", "refused"}, ino : Nat] /\ Down.ino <= inode
        /\ Down.pc = "down"
    BY <1>1 DEF Down
  <2>3. spent' \in Counts /\ todo' \in [Procs -> SUBSET Files]
    BY <1>1, <2>1, PayTypes DEF RestoreInv
  <2> QED
    BY <2>1, <2>2, <2>3, ProcessMoves
<1> QED
  BY <1>3, <1>4, <1>5, <1>6

\* The start of a restore: its snapshot is what the data are now, or what they
\* were when it was started.
LEMMA StagedKeeps ==
  ASSUME RestoreInv, OneProcess, NEW p \in Procs, Resave(p) \/ MarkStarted(p) PROVE RestoreInv'
<1>1. /\ DataTypes /\ ArchivesSound /\ SnapshotKept /\ Mixed /\ Progress(p)
      /\ \A q \in Procs : q = p
  BY DEF RestoreInv, OneProcess
<1>2. proc[p].pc \in {"locked", "resaved"} /\ UNCHANGED <<disk, inode, op, truth, spent>>
  BY DEF Resave, MarkStarted
<1>3. \A q \in Procs : op[q].pc = "idle"
  BY <1>1, <1>2 DEF ArchivesSound
<1>4. PICK r \in pending : pending = {r} /\ r \in Orders /\ validate_archive(r.archive)
  <2>1. pending # {}
    BY DEF Resave, MarkStarted
  <2> QED
    BY <1>1, <2>1 DEF ArchivesSound, DataTypes
<1>5. CASE Resave(p)
  <2>1. /\ ~r.started /\ backups' = Save(r.snapshot, build_archive) /\ pending' = pending /\ todo' = todo
        /\ proc' = [proc EXCEPT ![p].pc = "resaved"]
    BY <1>4, <1>5 DEF Resave, Goto
  <2>2. /\ backups' \in Seq(Stored) /\ OwnNames(backups') /\ Named(r.snapshot)' = {build_archive}
    <3>1. r.snapshot \in Nat /\ backups \in Seq(Stored) /\ OwnNames(backups) /\ build_archive \in Archives
      BY <1>1, <1>4, BuildFacts DEF DataTypes, ArchivesSound, Orders
    <3> QED
      BY <2>1, <3>1, SaveFacts
  <2>3. ~Started /\ disk = truth
    BY <1>1, <1>4, <2>1 DEF Started, Mixed
  <2>4. proc'[p].pc = "resaved" /\ proc'[p].ino = proc[p].ino
        /\ proc' \in [Procs -> [pc : Alive \cup {"down", "refused"}, ino : Nat]]
    <3>1. proc \in [Procs -> [pc : Alive \cup {"down", "refused"}, ino : Nat]] /\ "resaved" \in Alive
      BY <1>1 DEF DataTypes, Alive, Starting
    <3> QED
      BY <2>1, <3>1
  <2>5. DataTypes'
    BY <1>1, <1>2, <2>1, <2>2, <2>4 DEF DataTypes
  <2>6. ArchivesSound'
    BY <1>1, <1>2, <1>3, <2>1, <2>2 DEF ArchivesSound, validate_archive
  <2>7. SnapshotKept'
    <3>1. Holds(build_archive)'
      <4>1. \A f \in Stores : truth[f] = IF f \in DOMAIN build_archive THEN build_archive[f] ELSE 0
        BY <1>1, <2>3, BuildFacts
      <4>2. build_archive' = build_archive
        BY <1>2 DEF build_archive, collect_files, Content
      <4> QED
        BY <1>2, <4>1, <4>2 DEF Holds
    <3>2. build_archive' = build_archive
      BY <1>2 DEF build_archive, collect_files, Content
    <3>3. \A s \in pending' : s = r
      BY <1>4, <2>1
    <3> QED
      BY <2>2, <3>1, <3>2, <3>3 DEF SnapshotKept
  <2>8. Mixed' /\ ~Started'
    BY <1>1, <1>2, <1>4, <2>1, <2>3 DEF Mixed, Started
  <2>9. \A q \in Procs : Progress(q)'
    BY <1>1, <1>4, <2>1, <2>4, <2>8 DEF Progress
  <2> QED
    BY <2>5, <2>6, <2>7, <2>8, <2>9 DEF RestoreInv
<1>6. CASE MarkStarted(p)
  <2> DEFINE s == [r EXCEPT !.started = TRUE]
  <2>1. /\ pending' = {s} /\ todo' = [todo EXCEPT ![p] = DOMAIN r.archive] /\ backups' = backups
        /\ proc' = [proc EXCEPT ![p].pc = "apply"] /\ (proc[p].pc = "resaved" \/ r.started)
    BY <1>4, <1>6 DEF MarkStarted, Goto, Started
  <2>2. s \in Orders /\ s.archive = r.archive /\ s.snapshot = r.snapshot /\ s.started = TRUE
    BY <1>4 DEF Orders
  <2> HIDE DEF s
  <2>3. DOMAIN r.archive \subseteq Files
    BY <1>4, ArchiveFacts DEF Orders
  <2>4. proc'[p].pc = "apply" /\ proc'[p].ino = proc[p].ino
        /\ proc' \in [Procs -> [pc : Alive \cup {"down", "refused"}, ino : Nat]]
    <3>1. proc \in [Procs -> [pc : Alive \cup {"down", "refused"}, ino : Nat]] /\ "apply" \in Alive
      BY <1>1 DEF DataTypes, Alive, Starting
    <3> QED
      BY <2>1, <3>1
  <2>5. DataTypes' /\ todo'[p] = DOMAIN r.archive
    <3>1. todo' \in [Procs -> SUBSET Files] /\ todo'[p] = DOMAIN r.archive
      BY <1>1, <2>1, <2>3 DEF DataTypes
    <3> QED
      BY <1>1, <1>2, <2>1, <2>2, <2>4, <3>1 DEF DataTypes
  <2>6. ArchivesSound'
    BY <1>1, <1>2, <1>3, <1>4, <2>1, <2>2 DEF ArchivesSound, validate_archive
  <2>7. SnapshotKept'
    <3>1. Named(r.snapshot) # {} /\ \A files \in Named(r.snapshot) : Holds(files)
      BY <1>1, <1>4, <2>1 DEF SnapshotKept
    <3>2. \A id : Named(id)' = Named(id)
      BY <2>1 DEF Named
    <3>3. \A files : Holds(files)' <=> Holds(files)
      BY <1>2 DEF Holds
    <3> QED
      BY <2>1, <2>2, <3>1, <3>2, <3>3 DEF SnapshotKept
  <2>8. Mixed' /\ Started'
    <3>1. \A f \in Stores : disk[f] = truth[f] \/ (f \in DOMAIN r.archive /\ disk[f] = r.archive[f])
      BY <1>1, <1>4 DEF Mixed, Started
    <3> QED
      BY <1>2, <2>1, <2>2, <3>1 DEF Mixed, Started
  <2>9. \A q \in Procs : Progress(q)'
    BY <1>1, <2>1, <2>2, <2>4, <2>5, <2>8 DEF Progress
  <2> QED
    BY <2>5, <2>6, <2>7, <2>8, <2>9 DEF RestoreInv
<1> QED
  BY <1>5, <1>6

\* While a restore is applied or undone there is the one request, and the
\* snapshot of it.
LEMMA ApplyFacts ==
  ASSUME RestoreInv, OneProcess, NEW p \in Procs, proc[p].pc \in {"apply", "undo"}
  PROVE  \E r \in Orders :
           /\ pending = {r} /\ r.started /\ DOMAIN r.archive \subseteq Files
           /\ \A f \in DOMAIN r.archive : r.archive[f] \in Nat
           /\ Named(r.snapshot) # {} /\ \A files \in Named(r.snapshot) : Holds(files)
           /\ \A f \in Stores : disk[f] = truth[f] \/ (f \in DOMAIN r.archive /\ disk[f] = r.archive[f])
           /\ \A q \in Procs : q = p /\ op[q].pc = "idle"
<1>1. PICK r \in pending : r.started /\ pending = {r} /\ r \in Orders /\ validate_archive(r.archive)
  <2>1. Started /\ ArchivesSound /\ pending \in SUBSET Orders
    BY DEF RestoreInv, Progress, DataTypes
  <2>2. PICK r \in pending : r.started
    BY <2>1 DEF Started
  <2>3. \A s \in pending : s = r
    BY <2>1, <2>2 DEF ArchivesSound
  <2>4. validate_archive(r.archive)
    BY <2>1, <2>2 DEF ArchivesSound
  <2> QED
    BY <2>1, <2>2, <2>3, <2>4
<1>2. DOMAIN r.archive \subseteq Files /\ \A f \in DOMAIN r.archive : r.archive[f] \in Nat
  <2>1. DOMAIN r.archive \subseteq Files /\ r.archive \in [DOMAIN r.archive -> Bytes]
    BY <1>1, ArchiveFacts DEF Orders
  <2> QED
    BY <1>1, <2>1 DEF validate_archive, Bytes
<1>3. \A q \in Procs : q = p /\ op[q].pc = "idle"
  BY DEF OneProcess, RestoreInv, ArchivesSound
<1>4. Named(r.snapshot) # {} /\ \A files \in Named(r.snapshot) : Holds(files)
  BY <1>1 DEF RestoreInv, SnapshotKept
<1>5. \A f \in Stores : disk[f] = truth[f] \/ (f \in DOMAIN r.archive /\ disk[f] = r.archive[f])
  BY <1>1 DEF RestoreInv, Mixed
<1> QED
  BY <1>1, <1>2, <1>3, <1>4, <1>5

\* A file is replaced, by the archive's or by the old one; or replacing fails.
LEMMA ReplaceKeeps ==
  ASSUME RestoreInv, OneProcess, NEW p \in Procs, RestoreFile(p) \/ UndoFile(p) \/ RestoreFails(p)
  PROVE  RestoreInv'
<1>1. PICK r \in Orders :
        /\ pending = {r} /\ r.started /\ DOMAIN r.archive \subseteq Files
        /\ \A f \in DOMAIN r.archive : r.archive[f] \in Nat
        /\ Named(r.snapshot) # {} /\ \A files \in Named(r.snapshot) : Holds(files)
        /\ \A f \in Stores : disk[f] = truth[f] \/ (f \in DOMAIN r.archive /\ disk[f] = r.archive[f])
        /\ \A q \in Procs : q = p /\ op[q].pc = "idle"
  <2>1. proc[p].pc \in {"apply", "undo"}
    BY DEF RestoreFile, UndoFile, RestoreFails
  <2> QED
    BY <2>1, ApplyFacts
<1>2. /\ DataTypes /\ ArchivesSound /\ Progress(p) /\ todo[p] \in SUBSET Files
      /\ disk \in [Stores -> Nat] /\ truth \in [Stores -> Nat] /\ inode \in Nat \ {0}
      /\ proc[p].ino \in Nat /\ proc[p].ino <= inode
      /\ proc \in [Procs -> [pc : Alive \cup {"down", "refused"}, ino : Nat]]
  BY DEF RestoreInv, DataTypes
<1>3. UNCHANGED <<op, backups, pending, truth>>
  BY DEF RestoreFile, UndoFile, RestoreFails
\* What has to be shown of such a step.
<1>4. ASSUME disk' \in [Stores -> Nat], inode' \in {inode, inode + 1}, todo' \in [Procs -> SUBSET Files],
             spent' \in Counts, proc' \in [Procs -> [pc : Alive \cup {"down", "refused"}, ino : Nat]],
             proc'[p].ino = proc[p].ino, proc'[p].pc \in {"apply", "undo"},
             \A f \in Stores :
               disk'[f] = truth[f] \/ (f \in DOMAIN r.archive /\ disk'[f] = r.archive[f]),
             proc'[p].pc = "apply" => todo'[p] \subseteq DOMAIN r.archive /\ \A f \in Stores :
               f \in DOMAIN r.archive /\ f \notin todo'[p] => disk'[f] = r.archive[f],
             proc'[p].pc = "undo" => \A f \in Stores : f \notin todo'[p] => disk'[f] = truth[f]
      PROVE  RestoreInv'
  <2>1. inode' \in Nat \ {0} /\ proc'[p].ino <= inode'
    BY <1>2, <1>4
  <2>2. DataTypes'
    BY <1>1, <1>2, <1>3, <1>4, <2>1 DEF DataTypes
  <2>3. ArchivesSound'
    BY <1>1, <1>2, <1>3 DEF ArchivesSound, OwnNames, validate_archive
  <2>4. Mixed' /\ Started'
    BY <1>1, <1>3, <1>4 DEF Mixed, Started
  <2>5. SnapshotKept'
    BY <1>1, <1>3 DEF SnapshotKept, Named, Holds
  <2>6. \A q \in Procs : Progress(q)'
    <3>1. \A s \in pending' : s = r
      BY <1>1, <1>3
    <3>2. pending' # {} /\ truth' = truth
      BY <1>1, <1>3
    <3> QED
      BY <1>1, <1>4, <2>4, <3>1, <3>2 DEF Progress
  <2> QED
    BY <2>2, <2>3, <2>4, <2>5, <2>6 DEF RestoreInv
<1>5. CASE RestoreFile(p)
  <2> DEFINE f == First(todo[p])
  <2>1. /\ proc[p].pc = "apply" /\ todo[p] # {} /\ Replace(f, r.archive[f])
        /\ todo' = [todo EXCEPT ![p] = @ \ {f}] /\ UNCHANGED <<proc, spent>>
    BY <1>1, <1>5 DEF RestoreFile
  <2>2. f \in todo[p]
    BY <1>2, <2>1, FirstIn
  <2> HIDE DEF f
  <2>3. f \in DOMAIN r.archive /\ r.archive[f] \in Nat
    BY <1>1, <1>2, <2>1, <2>2 DEF Progress
  <2>4. todo'[p] = todo[p] \ {f} /\ todo' \in [Procs -> SUBSET Files]
    BY <1>2, <2>1 DEF DataTypes
  <2>5. /\ disk' \in [Stores -> Nat] /\ inode' \in {inode, inode + 1}
        /\ \A g \in Stores : disk'[g] = IF g = f THEN r.archive[f] ELSE disk[g]
    <3>1. CASE f = LockFile
      BY <1>2, <2>1, <3>1, BackupAssumption DEF Replace
    <3>2. CASE f # LockFile
      BY <1>2, <2>1, <2>3, <3>2 DEF Replace
    <3> QED
      BY <3>1, <3>2
  <2>6. \A g \in Stores :
          disk'[g] = truth[g] \/ (g \in DOMAIN r.archive /\ disk'[g] = r.archive[g])
    BY <1>1, <2>3, <2>5
  <2>7. \A g \in Stores : g \in DOMAIN r.archive /\ g \notin todo'[p] => disk'[g] = r.archive[g]
    BY <1>1, <1>2, <2>1, <2>4, <2>5 DEF Progress
  <2>8. todo'[p] \subseteq DOMAIN r.archive
    BY <1>1, <1>2, <2>1, <2>4 DEF Progress
  <2>9. spent' \in Counts /\ proc'[p].pc = "apply" /\ proc'[p].ino = proc[p].ino /\ proc' = proc
    BY <1>2, <2>1 DEF DataTypes
  <2> QED
    BY <1>2, <1>4, <2>4, <2>5, <2>6, <2>7, <2>8, <2>9
<1>6. CASE UndoFile(p)
  <2>1. PICK before \in Named(r.snapshot) :
          LET f == UndoNext(before, todo[p]) IN
            /\ Replace(f, IF f \in DOMAIN before THEN before[f] ELSE 0)
            /\ todo' = [todo EXCEPT ![p] = @ \ {f}]
    BY <1>1, <1>6 DEF UndoFile
  <2> DEFINE f == UndoNext(before, todo[p])
             v == IF f \in DOMAIN before THEN before[f] ELSE 0
  <2>2. Replace(f, v) /\ todo' = [todo EXCEPT ![p] = @ \ {f}]
    BY <2>1
  <2>3. proc[p].pc = "undo" /\ todo[p] # {} /\ UNCHANGED <<proc, spent>>
    BY <1>6 DEF UndoFile
  <2>4. f \in todo[p]
    <3>1. CASE todo[p] \cap DOMAIN before # {}
      <4>1. todo[p] \cap DOMAIN before \in SUBSET Files
        BY <1>2
      <4> QED
        BY <3>1, <4>1, FirstIn DEF UndoNext
    <3>2. CASE todo[p] \cap DOMAIN before = {}
      BY <1>2, <2>3, <3>2, FirstIn DEF UndoNext
    <3> QED
      BY <3>1, <3>2
  <2>5. f \in Stores => v = truth[f]
    BY <1>1 DEF Holds
  <2> HIDE DEF f, v
  <2>6. todo'[p] = todo[p] \ {f} /\ todo' \in [Procs -> SUBSET Files]
    BY <1>2, <2>2 DEF DataTypes
  <2>7. /\ disk' \in [Stores -> Nat] /\ inode' \in {inode, inode + 1}
        /\ \A g \in Stores : disk'[g] = IF g = f THEN truth[g] ELSE disk[g]
    <3>1. CASE f = LockFile
      BY <1>2, <2>2, <3>1, BackupAssumption DEF Replace
    <3>2. CASE f # LockFile
      <4>1. f \in Stores /\ v = truth[f] /\ truth[f] \in Nat
        BY <1>2, <2>4, <2>5, <3>2 DEF Files
      <4> QED
        BY <1>2, <2>2, <3>2, <4>1 DEF Replace
    <3> QED
      BY <3>1, <3>2
  <2>8. \A g \in Stores :
          disk'[g] = truth[g] \/ (g \in DOMAIN r.archive /\ disk'[g] = r.archive[g])
    BY <1>1, <2>7
  <2>9. \A g \in Stores : g \notin todo'[p] => disk'[g] = truth[g]
    BY <1>2, <2>3, <2>6, <2>7 DEF Progress
  <2>10. spent' \in Counts /\ proc'[p].pc = "undo" /\ proc'[p].ino = proc[p].ino /\ proc' = proc
    BY <1>2, <2>3 DEF DataTypes
  <2> QED
    BY <1>2, <1>4, <2>6, <2>7, <2>8, <2>9, <2>10
<1>7. CASE RestoreFails(p)
  <2>1. PICK before \in Named(r.snapshot) : todo' = [todo EXCEPT ![p] = Undo(before, r.archive)]
    BY <1>1, <1>7 DEF RestoreFails
  <2>2. /\ proc' = [proc EXCEPT ![p].pc = "undo"] /\ disk' = disk /\ inode' = inode
        /\ Pay("faults", MaxFaults)
    BY <1>7 DEF RestoreFails, Goto
  <2>3. before \in Archives
    <3>1. backups \in Seq(Stored)
      BY <1>2 DEF DataTypes
    <3>2. \A i \in DOMAIN backups : backups[i].files \in Archives
      <4>1. \A e \in Stored : e.files \in Archives
        BY DEF Stored
      <4> QED
        BY <3>1, <4>1
    <3>3. PICK i \in DOMAIN backups : before = backups[i].files
      BY DEF Named
    <3> QED
      BY <3>2, <3>3
  <2>4. Undo(before, r.archive) \subseteq Files /\ DOMAIN r.archive \subseteq Undo(before, r.archive)
    BY <1>1, <2>3, ArchiveFacts DEF Undo
  <2>5. todo' \in [Procs -> SUBSET Files] /\ DOMAIN r.archive \subseteq todo'[p]
    BY <1>2, <2>1, <2>4 DEF DataTypes
  <2>6. proc'[p].pc = "undo" /\ proc'[p].ino = proc[p].ino
        /\ proc' \in [Procs -> [pc : Alive \cup {"down", "refused"}, ino : Nat]]
    <3>1. "undo" \in Alive
      BY DEF Alive, Starting
    <3> QED
      BY <1>2, <2>2, <3>1
  <2>7. spent' \in Counts
    BY <1>2, <2>2, PayTypes
  <2>8. \A g \in Stores : g \notin todo'[p] => disk'[g] = truth[g]
    BY <1>1, <2>2, <2>5
  <2> QED
    BY <1>1, <1>2, <1>4, <2>2, <2>5, <2>6, <2>7, <2>8
<1> QED
  BY <1>5, <1>6, <1>7

\* All files are replaced: the program runs on the archive's data.
LEMMA DoneKeeps ==
  ASSUME RestoreInv, OneProcess, NEW p \in Procs, RestoreDone(p) PROVE RestoreInv'
<1>1. PICK r \in Orders :
        /\ pending = {r} /\ r.started /\ DOMAIN r.archive \subseteq Files
        /\ \A f \in Stores : disk[f] = truth[f] \/ (f \in DOMAIN r.archive /\ disk[f] = r.archive[f])
        /\ \A q \in Procs : q = p /\ op[q].pc = "idle"
  BY ApplyFacts DEF RestoreDone
<1>2. /\ DataTypes /\ ArchivesSound /\ Progress(p)
      /\ disk \in [Stores -> Nat] /\ truth \in [Stores -> Nat] /\ proc[p].ino <= inode
      /\ proc \in [Procs -> [pc : Alive \cup {"down", "refused"}, ino : Nat]]
  BY DEF RestoreInv, DataTypes
<1>3. /\ proc[p].pc = "apply" /\ todo[p] = {} /\ proc' = [proc EXCEPT ![p].pc = "up"]
      /\ pending' = {} /\ UNCHANGED <<disk, inode, todo, op, backups, spent>>
  BY DEF RestoreDone, Goto
<1>4. truth' = Over(truth, r.archive)
  BY <1>1 DEF RestoreDone
<1>5. truth' = disk
  <2>1. \A f \in Stores : disk[f] = IF f \in DOMAIN r.archive THEN r.archive[f] ELSE truth[f]
    BY <1>1, <1>2, <1>3 DEF Progress
  <2> QED
    BY <1>2, <1>4, <2>1 DEF Over
<1>6. proc'[p].pc = "up" /\ proc'[p].ino = proc[p].ino
      /\ proc' \in [Procs -> [pc : Alive \cup {"down", "refused"}, ino : Nat]]
  <2>1. "up" \in Alive
    BY DEF Alive
  <2> QED
    BY <1>2, <1>3, <2>1
<1>7. DataTypes'
  <2>1. \A q \in Procs : proc'[q].ino <= inode'
    BY <1>1, <1>2, <1>3, <1>6
  <2> QED
    BY <1>2, <1>3, <1>5, <1>6, <2>1 DEF DataTypes
<1>8. ArchivesSound'
  BY <1>1, <1>2, <1>3 DEF ArchivesSound
<1>9. SnapshotKept' /\ Mixed' /\ ~Started'
  BY <1>3, <1>5 DEF SnapshotKept, Mixed, Started
<1>10. \A q \in Procs : Progress(q)'
  BY <1>1, <1>3, <1>6, <1>9 DEF Progress
<1> QED
  BY <1>7, <1>8, <1>9, <1>10 DEF RestoreInv

LEMMA RestoreStep ==
  ASSUME OneProcess, RestoreInv, [LifeNext]_lvars PROVE RestoreInv'
<1>1. CASE UNCHANGED bvars
  <2> USE <1>1 DEF bvars
  <2>1. DataTypes' /\ ArchivesSound'
    BY DEF RestoreInv, DataTypes, ArchivesSound, OwnNames, validate_archive
  <2>2. SnapshotKept'
    BY DEF RestoreInv, SnapshotKept, Named, Holds
  <2>3. Mixed' /\ \A p \in Procs : Progress(p)'
    BY DEF RestoreInv, Mixed, Started, Progress
  <2> QED
    BY <2>1, <2>2, <2>3 DEF RestoreInv
<1>2. ASSUME NEW p \in Procs, StartUp(p) PROVE RestoreInv'
  BY <1>2, StartedKeeps, StagedKeeps, ReplaceKeeps, DoneKeeps DEF StartUp
<1>3. ASSUME NEW p \in Procs, Operate(p) PROVE RestoreInv'
  BY <1>3, ReadKeeps, StoreKeeps, StageKeeps DEF Operate
<1>4. ASSUME NEW p \in Procs, Ask(p) PROVE RestoreInv'
  BY <1>4, AskKeeps, ReplaceKeeps, StartedKeeps, WriteKeeps DEF Ask
<1>5. UNCHANGED bvars \/ \E p \in Procs : StartUp(p) \/ Operate(p) \/ Ask(p)
  <2>1. CASE UNCHANGED lvars
    BY <2>1 DEF lvars
  <2>2. ASSUME NEW p \in Procs, DataStep(p) PROVE StartUp(p) \/ Operate(p) \/ Ask(p)
    BY <2>2 DEF DataStep, StartUp, Ask
  <2>3. ASSUME NEW p \in Procs, CodeStep(p) PROVE UNCHANGED bvars
    BY <2>3 DEF CodeStep
  <2>4. ASSUME NEW p \in Procs, Begins(p) \/ Ends(p) \/ GivesUp(p) PROVE StartUp(p) \/ Ask(p)
    BY <2>4 DEF Begins, Ends, GivesUp, StartUp, Ask
  <2> QED
    BY <2>1, <2>2, <2>3, <2>4 DEF LifeNext
<1> QED
  BY <1>1, <1>2, <1>3, <1>4, <1>5

\* A restore is all or nothing: whoever runs, runs on the data of its past or on
\* all of the archive, wherever the program was stopped and whatever failed, and
\* the way back exists as long as it may be needed (apply_pending_restore).
THEOREM RestoresAreAtomic == ASSUME OneProcess PROVE LifeInit /\ [][LifeNext]_lvars => []RestoreAtomic
<1>1. LifeInit => RestoreInv
  BY RestoreInitHolds DEF LifeInit
<1>2. RestoreInv => RestoreAtomic
  <2> SUFFICES ASSUME RestoreInv PROVE RestoreAtomic
    OBVIOUS
  <2>1. ASSUME NEW p \in Procs, proc[p].pc \in {"up", "refused"} PROVE disk = truth
    BY <2>1 DEF RestoreInv, Mixed, Progress
  <2>2. \A f \in Stores : disk[f] # Damaged
    <3>1. \A f \in Stores : disk[f] \in Nat
      BY DEF RestoreInv, DataTypes
    <3> QED
      BY <3>1 DEF Damaged
  <2>3. SnapshotIsOriginal
    BY DEF RestoreInv, SnapshotKept, Holds, SnapshotIsOriginal
  <2> QED
    BY <2>1, <2>2, <2>3 DEF RestoreAtomic, DataWhole
<1>3. RestoreInv /\ [LifeNext]_lvars => RestoreInv'
  BY RestoreStep
<1> QED
  BY <1>1, <1>2, <1>3, PTL

----------------------------------------------------------------------------
\* What goes on beside the jobs, together: whatever one part does, the data,
\* the program, the schedules, the stores' files and the histories are sound
\* where one process runs on a directory and requests do not overlap.
THEOREM ServicesStand ==
  ASSUME OneProcess, ~Concurrent
  PROVE  ServicesSpec => [](RestoreAtomic /\ PayloadWhole /\ SchedulesKept /\ FilesKept /\ CleanupSafe)
<1>1. ServicesInit => LifeInit /\ FilesInit /\ RetentionInit /\ SchedulersInit
  BY DEF ServicesInit
<1>2. [ServicesNext]_services =>
        [LifeNext]_lvars /\ [FilesNext]_fvars /\ [RetentionNext]_rvars /\ [SchedulersNext]_svars
  BY DEF ServicesNext, services, Life
<1>3. LifeInit /\ [][LifeNext]_lvars => []RestoreAtomic
  BY RestoresAreAtomic
<1>4. SchedulersInit /\ [][SchedulersNext]_svars => []SchedulesKept
  BY SchedulesHold
<1> QED
  BY <1>1, <1>2, <1>3, <1>4, PayloadStaysWhole, StoreFilesKept, CleanupsAreSafe, PTL DEF ServicesSpec
=============================================================================

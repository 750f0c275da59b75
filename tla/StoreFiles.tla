----------------------------- MODULE StoreFiles -----------------------------
(***************************************************************************)
(* The file of a store between one process and the next (store/schema.rs,   *)
(* utils/mod.rs, the load_locked of the stores, app.rs): it may be damaged, *)
(* come from another release, be set aside, be missing; the user may start  *)
(* with ALLOW_QUARANTINE_STARTUP or put a file back.  What the bytes hold   *)
(* is a set of changes, each with the release that understands it.          *)
(* The kinds differ: "settings" never start empty over a file set aside and *)
(* write their defaults at once; "list" (subscriptions, jobs, notices,      *)
(* events) writes with its first change; "state" (Telegram) at once;        *)
(* "token" sets nothing aside and keeps no copy of an older schema.         *)
(***************************************************************************)
EXTENDS Naturals, FiniteSets

CONSTANTS
  Releases,     \* schema versions of the programs that may be started
  Schemas,      \* versions an old file may have (0: no envelope)
  MaxChanges,   \* bound: changes made
  MaxDamage     \* bound: damaged files, failed renames and writes, kills

ASSUME FilesAssumption ==
  /\ Releases \subseteq Nat /\ Schemas \subseteq Nat
  /\ MaxChanges \in Nat /\ MaxDamage \in Nat

VARIABLES
  kind,
  file,      \* the file: sound, its schema version and changes, or absent
  aside,     \* the contents of the .corrupt-* copies
  copies,    \* copies[v]: the copy kept before a file of version v was rewritten
  opener,      \* pc of the process, its release, the override, its memory
  acked,     \* the changes reported as saved
  waived,    \* those the user has chosen to go on without
  forced,    \* an override where the damaged file could not be set aside
  damage

fvars == <<kind, file, aside, copies, opener, acked, waived, forced, damage>>

Absent == [state |-> "absent", version |-> 0, changes |-> {}]
Good(v, c) == [state |-> "good", version |-> v, changes |-> c]
NoProc == [pc |-> "down", release |-> 0, allow |-> FALSE, memory |-> {}]

Changes == [n : 0..(MaxChanges + 1), by : Releases \cup Schemas]

FilesInit ==
  /\ kind \in {"settings", "list", "state", "token"}
  /\ \/ file = Absent
     \/ \E v \in Schemas : file = Good(v, {[n |-> 0, by |-> v]})
  /\ aside = {} /\ copies = [v \in Schemas |-> {}] /\ opener = NoProc
  /\ acked = file.changes /\ waived = {} /\ forced = FALSE /\ damage = 0

\* What every variable may hold.
FilesTypeOK ==
  /\ kind \in {"settings", "list", "state", "token"} /\ forced \in BOOLEAN /\ damage \in 0..MaxDamage
  /\ file \in [state : {"absent", "good", "bad"}, version : Nat, changes : SUBSET Changes]
  /\ opener \in [pc : {"down", "load", "migrate", "decide", "up"}, release : {0} \cup Releases,
                 allow : BOOLEAN, memory : SUBSET Changes]
  /\ aside \subseteq SUBSET Changes /\ copies \in [Schemas -> SUBSET SUBSET Changes]
  /\ acked \subseteq Changes /\ waived \subseteq Changes

Harm == damage < MaxDamage /\ damage' = damage + 1
Up(memory) == opener' = [opener EXCEPT !.pc = "up", !.memory = memory]
RefuseStart == opener' = NoProc
\* A process starts empty; some kinds write that at once.
StartEmpty ==
  /\ Up({}) /\ waived' = IF opener.allow THEN acked ELSE waived
  /\ file' = IF kind \in {"settings", "state"} THEN Good(opener.release, {}) ELSE file

----------------------------------------------------------------------------
StartProgram(r, allow) ==
  /\ opener.pc = "down" /\ opener' = [NoProc EXCEPT !.pc = "load", !.release = r, !.allow = allow]
  /\ UNCHANGED <<kind, file, aside, copies, acked, waived, forced, damage>>

\* Mutation: a missing file is that of a first start.
MutInitialize == TRUE
\* ensure_store_can_initialize.
Initialize == aside = {} \/ (opener.allow /\ kind # "settings")

LoadMissing ==
  /\ opener.pc = "load" /\ file.state = "absent"
  /\ IF Initialize THEN StartEmpty ELSE RefuseStart /\ UNCHANGED <<file, waived>>
  /\ UNCHANGED <<kind, aside, copies, acked, forced, damage>>

\* decode_store_json: a later schema is refused and left as it is; an older one
\* is migrated, after its bytes have been copied, once.
LoadSound ==
  /\ opener.pc = "load" /\ file.state = "good"
  /\ LET v == file.version IN
       /\ IF v > opener.release THEN RefuseStart
          ELSE IF v = opener.release THEN Up(file.changes)
          ELSE opener' = [opener EXCEPT !.pc = "migrate"]
       /\ copies' = IF v < opener.release /\ kind # "token" /\ copies[v] = {}
                    THEN [copies EXCEPT ![v] = {file.changes}] ELSE copies
  /\ UNCHANGED <<kind, file, aside, acked, waived, forced, damage>>
Migrate ==
  /\ opener.pc = "migrate" /\ file.state # "absent"
  /\ file' = Good(opener.release, file.changes) /\ Up(file.changes)
  /\ UNCHANGED <<kind, aside, copies, acked, waived, forced, damage>>

\* quarantine_corrupt_file under a name of its own, or it cannot be renamed.
LoadDamaged ==
  /\ opener.pc = "load" /\ file.state = "bad"
  /\ IF kind = "token" THEN RefuseStart /\ UNCHANGED <<file, aside, damage>>
     ELSE /\ opener' = [opener EXCEPT !.pc = "decide"]
          /\ \/ aside' = aside \cup {file.changes} /\ file' = Absent /\ UNCHANGED damage
             \/ Harm /\ UNCHANGED <<file, aside>>
  /\ UNCHANGED <<kind, copies, acked, waived, forced>>
\* ensure_quarantine_startup_allowed; settings always refuse.
Decide ==
  /\ opener.pc = "decide"
  /\ IF opener.allow /\ kind # "settings"
     THEN StartEmpty /\ forced' = (forced \/ file.state # "absent")
     ELSE RefuseStart /\ UNCHANGED <<file, waived, forced>>
  /\ UNCHANGED <<kind, aside, copies, acked, damage>>

\* A change: the whole of the memory is written, or the write fails.
SaveChange ==
  /\ opener.pc = "up" /\ Cardinality(acked) <= MaxChanges
  /\ LET c == opener.memory \cup {[n |-> Cardinality(acked) + 1, by |-> opener.release]} IN
       \/ /\ file' = Good(opener.release, c) /\ acked' = acked \cup c
          /\ Up(c) /\ UNCHANGED damage
       \/ Harm /\ file' \in {file, Good(opener.release, c)} /\ UNCHANGED <<acked, opener>>
  /\ UNCHANGED <<kind, aside, copies, waived, forced>>

ProcessEnds(kill) ==
  /\ opener.pc # "down" /\ RefuseStart
  /\ IF kill THEN Harm ELSE opener.pc = "up" /\ UNCHANGED damage
  /\ UNCHANGED <<kind, file, aside, copies, acked, waived, forced>>

\* Between two processes the file is damaged, or the user puts one back: a copy
\* of an older schema, or what was set aside, repaired.
Damage ==
  /\ file.state = "good" /\ opener.pc = "down" /\ Harm /\ file' = [file EXCEPT !.state = "bad"]
  /\ UNCHANGED <<kind, aside, copies, opener, acked, waived, forced>>
PutBack(v, c) ==
  /\ opener.pc = "down" /\ file.state = "absent" /\ c \in aside \cup UNION {copies[u] : u \in Schemas}
  /\ \A x \in c : x.by <= v
  /\ file' = Good(v, c) /\ waived' = acked \ c
  /\ UNCHANGED <<kind, aside, copies, opener, acked, forced, damage>>

LoadStep == LoadMissing \/ LoadSound \/ Migrate \/ LoadDamaged \/ Decide
FilesNext ==
  \/ LoadStep \/ SaveChange \/ Damage
  \/ \E r \in Releases, allow \in BOOLEAN : StartProgram(r, allow)
  \/ \E kill \in BOOLEAN : ProcessEnds(kill)
  \/ \E v \in Releases, c \in aside \cup UNION {copies[u] : u \in Schemas} : PutBack(v, c)

----------------------------------------------------------------------------
\* What was reported as saved is somewhere on the disk, damaged or not, unless
\* the user forced a start past a file that could not be set aside.
NothingLost ==
  forced \/ acked \subseteq file.changes \cup UNION aside \cup UNION UNION {copies[v] : v \in Schemas}
\* A process that serves has all of it in memory, and understands it, but for
\* what the user chose to do without: it never starts empty by itself.
NotEmptied == opener.pc = "up" =>
  /\ acked \ waived \subseteq opener.memory
  /\ \A c \in opener.memory : c.by <= opener.release

\* Through damage, migrations and starts of other releases no change that was
\* acknowledged is lost, nor does a process serve without it unless told to.
FilesKept == NothingLost /\ NotEmptied
=============================================================================

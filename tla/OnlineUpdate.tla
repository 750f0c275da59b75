---------------------------- MODULE OnlineUpdate ----------------------------
(***************************************************************************)
(* Installing another release from inside the program and restarting into   *)
(* it (api/update.rs, api/update/, restart.rs, main.rs) and, for a          *)
(* container, what the entry script does to a damaged runtime directory     *)
(* (scripts/docker-entrypoint.sh).  The program and the web interface are   *)
(* two paths that are switched one after the other; a version stands for    *)
(* either.  An asset is the upload it belongs to, for a release can be      *)
(* uploaded again between two downloads: "whole" with everything in it,     *)
(* "partial" without a complete static directory; "damaged" is neither.     *)
(* Hashes and signatures tell uploads apart.  Old copies are left out.      *)
(***************************************************************************)
EXTENDS Naturals

CONSTANTS
  Calls,      \* requests to apply an update
  Versions,   \* the releases
  Installed,  \* the release the machine starts with, and the image holds
  Docker,     \* started by the entry script
  Signing,    \* SELF_UPDATE_PUBLIC_KEY is set
  MaxTrouble  \* bound on failing steps and abandoned requests

ASSUME UpdateAssumption ==
  /\ Installed \in Versions /\ {Docker, Signing} \subseteq BOOLEAN /\ MaxTrouble \in Nat /\ Versions \cap {"none", "partial"} = {}

VARIABLES
  exe,       \* the version the path of the program holds
  web,       \* the version of the static directory, "partial" or "none"
  run,       \* the version that is running, or "none"
  replaced,  \* the running program's own file was renamed over
  busy,      \* UPDATE_PROGRESS.running
  plan,      \* PENDING_RESTART is there
  requested, \* REQUESTED_RESTART is there
  call,      \* call[c]: the handler of an apply request
  got,       \* got[c]: the release it has chosen and what it has downloaded
  job,       \* job[c]: its blocking installation
  mixed,     \* history: an installation was cut, overlapped another, or was not undone
  trouble    \* failures and abandoned requests so far

uvars == <<exe, web, run, replaced, busy, plan, requested, call, got, job, mixed, trouble>>
payload == <<exe, web, replaced>>
switches == <<busy, plan, requested>>
asking == <<call, got>>

NoJob == [pc |-> "none", version |-> "none", static |-> "none", path |-> FALSE, had |-> FALSE, saved |-> "none"]
NoRelease == [version |-> "none", path |-> FALSE, sum |-> "none", sig |-> "none", body |-> "none"]
Fetching == {"fetch", "checksum", "signature", "archive", "verify", "unpack"}
Working == {c \in Calls : job[c].pc \in {"stage", "static", "binary"}}

UpdateInit ==
  /\ exe = Installed /\ web = Installed /\ run = "none" /\ replaced = FALSE
  /\ busy = FALSE /\ plan = FALSE /\ requested = FALSE
  /\ call = [c \in Calls |-> "idle"] /\ got = [c \in Calls |-> NoRelease] /\ job = [c \in Calls |-> NoJob]
  /\ mixed = FALSE /\ trouble = 0

Trouble == trouble < MaxTrouble /\ trouble' = trouble + 1

----------------------------------------------------------------------------
\* The request.

\* apply_update: refused while an installed release waits for its restart.
apply_update(c) ==
  /\ run # "none" /\ call[c] = "idle" /\ job[c] = NoJob /\ ~plan
  /\ call' = [call EXCEPT ![c] = "ask"]
  /\ UNCHANGED <<payload, run, switches, got, job, mixed, trouble>>

\* try_begin_update_progress: one update at a time.
try_begin_update_progress(c) ==
  /\ call[c] = "ask"
  /\ IF busy THEN call' = [call EXCEPT ![c] = "idle"] /\ UNCHANGED busy
             ELSE call' = [call EXCEPT ![c] = "fetch"] /\ busy' = TRUE
  /\ UNCHANGED <<payload, run, plan, requested, got, job, mixed, trouble>>

\* Mutation: the path of the program is taken as it was started.
MutCurrentExe == TRUE

\* std::env::current_exe names a file that is there, unless it was renamed
\* over since the start.
CurrentExe == ~replaced

\* apply_update_inner: a release other than the running one, with a signature
\* perhaps; where a key is set, with one.  The paths are read here.
ChooseRelease(c, v) ==
  /\ call[c] = "fetch" /\ v # run /\ call' = [call EXCEPT ![c] = "checksum"]
  /\ \E s \in {"none", "some"} :
       /\ Signing => s = "some"
       /\ got' = [got EXCEPT ![c] = [NoRelease EXCEPT !.version = v, !.path = CurrentExe, !.sig = s]]
  /\ UNCHANGED <<payload, run, switches, job, mixed, trouble>>

\* The handler ends with an error; the working directory goes.
Refused(c) ==
  /\ call' = [call EXCEPT ![c] = "idle"] /\ got' = [got EXCEPT ![c] = NoRelease] /\ busy' = FALSE
  /\ UNCHANGED <<payload, run, plan, requested, job, mixed>>

\* download_and_install_release: the checksum, the signature, the archive.
Uploaded == {"whole", "partial"}
Download(c) ==
  /\ \/ /\ call[c] = "checksum"
        /\ call' = [call EXCEPT ![c] = IF got[c].sig = "none" THEN "archive" ELSE "signature"]
        /\ \E u \in Uploaded : got' = [got EXCEPT ![c].sum = u]
     \/ /\ call[c] = "signature" /\ call' = [call EXCEPT ![c] = "archive"]
        /\ \E u \in Uploaded : got' = [got EXCEPT ![c].sig = u]
     \/ /\ call[c] = "archive" /\ call' = [call EXCEPT ![c] = "verify"]
        /\ \E u \in Uploaded \cup {"damaged"} : got' = [got EXCEPT ![c].body = u]
  /\ UNCHANGED <<payload, run, switches, job, mixed, trouble>>

\* verify_sha256, then verify_minisign, which without a key is an error.
verify_sha256(g) == g.body = g.sum
verify_minisign(g) == g.sig # "none" => Signing /\ g.body = g.sig
CheckPackage(c) ==
  /\ call[c] = "verify" /\ verify_sha256(got[c]) /\ verify_minisign(got[c])
  /\ call' = [call EXCEPT ![c] = "unpack"]
  /\ UNCHANGED <<payload, run, switches, got, job, mixed, trouble>>
PackageWrong(c) ==
  /\ call[c] = "verify" /\ ~(verify_sha256(got[c]) /\ verify_minisign(got[c]))
  /\ Refused(c) /\ UNCHANGED trouble

\* extract_archive, find_binary and find_static_dir; the installation goes to
\* the blocking pool.
static_payload_is_complete(g) == g.body = "whole"
Unpack(c) ==
  /\ call[c] = "unpack" /\ static_payload_is_complete(got[c])
  /\ call' = [call EXCEPT ![c] = "install"] /\ got' = [got EXCEPT ![c] = NoRelease]
  /\ job' = [job EXCEPT ![c] = [NoJob EXCEPT !.pc = "stage", !.version = got[c].version, !.path = got[c].path,
                 !.static = IF got[c].body = "whole" THEN got[c].version ELSE "partial"]]
  /\ mixed' = (mixed \/ Working # {})
  /\ UNCHANGED <<payload, run, switches, trouble>>
UnpackFails(c) ==
  /\ call[c] = "unpack" /\ ~static_payload_is_complete(got[c]) /\ Refused(c) /\ UNCHANGED trouble

\* No such release, an asset missing, a download or the disk fails.
FetchFails(c) == call[c] \in Fetching /\ Trouble /\ Refused(c)

\* The client goes away: the handler is dropped, UpdateProgressResetGuard
\* clears the progress, a blocking installation goes on.
Abandon(c) == call[c] \in Fetching \cup {"install"} /\ Trouble /\ Refused(c)

----------------------------------------------------------------------------
\* replace_update_payload_blocking.

Ended(c, result) == job' = [job EXCEPT ![c] = [NoJob EXCEPT !.pc = result, !.version = job[c].version]]

\* Checks and copies beside the targets; what fails here has changed nothing.
StageFails(c) ==
  /\ job[c].pc = "stage" /\ Ended(c, "err")
  /\ \/ ~job[c].path /\ UNCHANGED trouble
     \/ Trouble
  /\ UNCHANGED <<payload, run, switches, asking, mixed>>

\* The static directory is renamed to its backup, if there is one.
MoveStatic(c) ==
  /\ job[c].pc = "stage" /\ job[c].path
  /\ job' = [job EXCEPT ![c] = [@ EXCEPT !.pc = "static", !.had = (web # "none"), !.saved = web]]
  /\ web' = "none" /\ UNCHANGED <<exe, replaced, run, switches, asking, mixed, trouble>>

\* The new static directory is renamed into place.
PlaceStatic(c) ==
  /\ job[c].pc = "static" /\ web = "none" /\ web' = job[c].static
  /\ job' = [job EXCEPT ![c].pc = "binary"]
  /\ UNCHANGED <<exe, replaced, run, switches, asking, mixed, trouble>>

\* That fails, and the backup goes back, which may fail as well; or another
\* directory is in the place of both.
PlaceStaticFails(c) ==
  /\ job[c].pc = "static" /\ Ended(c, "err")
  /\ \/ web # "none" /\ UNCHANGED <<web, mixed, trouble>>
     \/ /\ web = "none" /\ Trouble
        /\ \/ web' = (IF job[c].had THEN job[c].saved ELSE web) /\ UNCHANGED mixed
           \/ job[c].had /\ UNCHANGED web /\ mixed' = TRUE
  /\ UNCHANGED <<exe, replaced, run, switches, asking>>

\* The new program is renamed over the old one.
PlaceBinary(c) ==
  /\ job[c].pc = "binary" /\ exe' = job[c].version /\ replaced' = TRUE /\ Ended(c, "ok")
  /\ UNCHANGED <<web, run, switches, asking, mixed, trouble>>

\* That fails: the new static directory goes and the backup comes back.  If
\* the first fails, which is ignored, what is left of it is in the way of the
\* second; the second may fail by itself.
PlaceBinaryFails(c) ==
  /\ job[c].pc = "binary" /\ Trouble /\ Ended(c, "err")
  /\ \/ web' = (IF job[c].had THEN job[c].saved ELSE "none") /\ UNCHANGED mixed
     \/ web' \in {web, "partial"} /\ mixed' = TRUE
     \/ job[c].had /\ web' = "none" /\ mixed' = TRUE
  /\ UNCHANGED <<exe, replaced, run, switches, asking>>

\* The handler hears of it: the restart is stored, unless one is.
Settle(c) ==
  /\ job[c].pc \in {"ok", "err"} /\ job' = [job EXCEPT ![c] = NoJob]
  /\ IF call[c] = "install" THEN /\ call' = [call EXCEPT ![c] = "idle"] /\ busy' = FALSE
                                    /\ plan' = (plan \/ job[c].pc = "ok")
                               ELSE UNCHANGED <<call, busy, plan>>
  /\ UNCHANGED <<got, payload, run, requested, mixed, trouble>>

----------------------------------------------------------------------------
\* Restart.

\* restart_update: the plan is taken and handed over; if a restart is under
\* way it is put back.
restart_update ==
  /\ run # "none" /\ plan /\ plan' = requested /\ requested' = TRUE
  /\ UNCHANGED <<payload, run, busy, asking, job, mixed, trouble>>

Gone ==
  /\ busy' = FALSE /\ plan' = FALSE /\ requested' = FALSE /\ replaced' = FALSE
  /\ call' = [c \in Calls |-> "idle"] /\ got' = [c \in Calls |-> NoRelease] /\ job' = [c \in Calls |-> NoJob] /\ run' = "none"

\* main after the drain: the program of the plan replaces the process, and
\* with it every thread; the start that follows reads what the path holds.
Exec ==
  /\ run # "none" /\ requested /\ Gone /\ UNCHANGED <<exe, web, mixed, trouble>>

\* Any other exit.
Die ==
  /\ run # "none" /\ Gone
  /\ mixed' = (mixed \/ \E c \in Calls : job[c].pc \in {"static", "binary"})
  /\ UNCHANGED <<exe, web, trouble>>

\* initialize_runtime of the entry script renews an incomplete runtime
\* directory from the image; then the program starts.
Start ==
  /\ run = "none"
  /\ IF Docker /\ web \notin Versions THEN exe' = Installed /\ web' = Installed ELSE UNCHANGED <<exe, web>>
  /\ run' = exe' /\ UNCHANGED <<replaced, switches, asking, job, mixed, trouble>>

----------------------------------------------------------------------------
Apply(c) ==
  \/ try_begin_update_progress(c) \/ Download(c) \/ CheckPackage(c) \/ PackageWrong(c)
  \/ Unpack(c) \/ UnpackFails(c) \/ FetchFails(c) \/ Abandon(c)
  \/ \E v \in Versions : ChooseRelease(c, v)
Install(c) ==
  \/ StageFails(c) \/ MoveStatic(c) \/ PlaceStatic(c) \/ PlaceStaticFails(c)
  \/ PlaceBinary(c) \/ PlaceBinaryFails(c) \/ Settle(c)
UpdateStep == (\E c \in Calls : Apply(c) \/ Install(c)) \/ restart_update

----------------------------------------------------------------------------
\* What every variable may hold.
UpdateTypeOK ==
  /\ exe \in Versions /\ run \in Versions \cup {"none"} /\ web \in Versions \cup {"none", "partial"}
  /\ \A c \in Calls : call[c] \in Fetching \cup {"idle", "ask", "install"}
                      /\ job[c].pc \in {"none", "stage", "static", "binary", "ok", "err"}

\* Whenever no installation is at work, program and web interface are of one
\* release: the failures of all steps before the switch change nothing, a failed
\* switch is undone, and neither a second request nor the restart cuts into an
\* installation.  Excepted are exits in the middle, two installations at once
\* and a failed switch whose undoing fails too (the second error it reports).
PayloadWhole == Working = {} /\ ~mixed => web = exe

\* Where no key is set the checksum is all a release has to pass, signed or
\* not (docs/docker-online-update.md, docs/upgrade-v2.7.2.md).
ChecksumSuffices ==
  [][\A c \in Calls : ~Signing /\ call[c] = "verify" /\ verify_sha256(got[c]) /\ call'[c] = "idle"
       => trouble' > trouble \/ run' = "none"]_uvars
=============================================================================

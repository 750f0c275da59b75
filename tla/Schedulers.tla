----------------------------- MODULE Schedulers -----------------------------
(***************************************************************************)
(* The two schedulers and the settings they follow: the subscription check  *)
(* (services/subscription_scheduler.rs), the daily sign-in with its catch-up *)
(* (services/quark_signin.rs), the settings store (store/settings.rs) and   *)
(* the handler that saves and reloads (api/settings.rs).                    *)
(* Abstracted: all settings but the two schedules, what a check or a        *)
(* sign-in does, the hours of a day to 0 .. Hours - 1.  A sign-in ends on   *)
(* the day it began on.                                                     *)
(***************************************************************************)
EXTENDS Naturals, FiniteSets, FiniteSetsExt

CONSTANTS
  Intervals,   \* subscription_check_interval_minutes
  Hours,       \* hours of a day
  Handlers,    \* requests of update_settings
  Concurrent,  \* whether they may overlap
  MaxCron      \* bound on cron jobs

Boot == "boot"  \* not a request: the application as it starts

ASSUME SchedulersAssumption ==
  /\ Hours \in Nat \ {0} /\ MaxCron \in Nat \ {0} /\ Concurrent \in BOOLEAN
  /\ Intervals \subseteq Nat \ {Hours} /\ Boot \notin Handlers

VARIABLES
  settings,  \* settings[s]: the interval, the hour, or Off
  cron,      \* cron[s]: jobs of the JobScheduler
  job_id,    \* job_id[s], 0 for None
  ticking,   \* ticker_started
  handler,   \* handler[h]: a request, or the start of the application
  hour,      \* of the day
  signing,   \* sign-ins under way
  attempted, \* history: a sign-in was begun today
  succeeded   \* successful_signin_recorded_today

svars == <<settings, cron, job_id, ticking, handler, hour, signing, attempted, succeeded>>

Schedules == {"check", "signin"}
Actors == Handlers \cup {Boot}
Off == Hours  \* disabled
Rest == [pc |-> "idle", todo |-> {}, now |-> "", at |-> Off, id |-> 0, previous |-> [s \in Schedules |-> Off]]
BootReload == [Rest EXCEPT !.pc = "next", !.todo = Schedules]

Values(s) == {Off} \cup (IF s = "check" THEN Intervals ELSE 0 .. Hours - 1)

SchedulersInit ==
  /\ settings \in [Schedules -> UNION {Values(s) : s \in Schedules}]
  /\ \A s \in Schedules : settings[s] \in Values(s)
  /\ cron = [s \in Schedules |-> {}] /\ job_id = [s \in Schedules |-> 0]
  /\ ticking = [s \in Schedules |-> FALSE]
  /\ handler = [a \in Actors |-> IF a = Boot THEN BootReload ELSE Rest]
  /\ hour \in 0 .. Hours - 1 /\ signing = 0 /\ attempted = FALSE /\ succeeded = FALSE

\* What every variable may hold.
SchedulersTypeOK ==
  /\ \A s \in Schedules : settings[s] \in Values(s)
  /\ cron \in [Schedules -> SUBSET [id : 1 .. MaxCron + 1, at : UNION {Values(s) : s \in Schedules}]]
  /\ job_id \in [Schedules -> 0 .. MaxCron + 1] /\ ticking \in [Schedules -> BOOLEAN]
  /\ \A a \in Actors : /\ handler[a].pc \in {"idle", "save", "next", "stop", "start", "restop", "add", "note"}
                       /\ handler[a].todo \subseteq Schedules /\ handler[a].now \in Schedules \cup {""}
  /\ hour \in 0 .. Hours - 1 /\ signing \in Nat /\ {attempted, succeeded} \subseteq BOOLEAN

Quiet == \A a \in Actors : handler[a] = Rest

----------------------------------------------------------------------------
\* update_settings.

ReadPrevious(h) ==
  /\ handler[h] = Rest /\ handler[Boot] = Rest /\ (Quiet \/ Concurrent)
  /\ handler' = [handler EXCEPT ![h] = [Rest EXCEPT !.pc = "save", !.previous = settings]]
  /\ UNCHANGED <<settings, cron, job_id, ticking, hour, signing, attempted, succeeded>>

\* Mutation: only switching on or off counts as a change.
MutToReload(previous, updated) ==
  {s \in Schedules : (previous[s] = Off) # (updated[s] = Off)}
\* The schedulers whose settings changed between the two reads, or any, when
\* the cookie changed.
ToReload(previous, updated) == {s \in Schedules : previous[s] # updated[s]}

\* SettingsStore::update commits one change at a time; the disk may refuse it.
SaveSettings(h) ==
  /\ handler[h].pc = "save"
  /\ \/ \E s \in Schedules : \E v \in Values(s), cookie \in {{}, Schedules} :
          LET updated == [settings EXCEPT ![s] = v] IN
          /\ settings' = updated
          /\ handler' = [handler EXCEPT ![h].pc = "next",
                           ![h].todo = ToReload(handler[h].previous, updated) \cup cookie]
     \/ settings' = settings /\ handler' = [handler EXCEPT ![h] = Rest]
  /\ UNCHANGED <<cron, job_id, ticking, hour, signing, attempted, succeeded>>

\* reload of the check first, then of the sign-in.
NextReload(a) ==
  /\ handler[a].pc = "next"
  /\ LET r == handler[a]
         s == IF "check" \in r.todo THEN "check" ELSE "signin" IN
       handler' = [handler EXCEPT ![a] =
         IF r.todo = {} THEN Rest
         ELSE [r EXCEPT !.todo = r.todo \ {s}, !.now = s, !.pc = IF a = Boot THEN "start" ELSE "stop"]]
  /\ UNCHANGED <<settings, cron, job_id, ticking, hour, signing, attempted, succeeded>>

\* Mutation: stop forgets the job and leaves it in the scheduler.
MutRemoved(s) == cron[s]
\* What stop leaves: the job whose id is known goes.
Removed(s) == {c \in cron[s] : c.id # job_id[s]}

\* stop, in reload and again in start.
stop(a) ==
  /\ handler[a].pc \in {"stop", "restop"}
  /\ LET s == handler[a].now IN
       /\ cron' = [cron EXCEPT ![s] = Removed(s)] /\ job_id' = [job_id EXCEPT ![s] = 0]
  /\ handler' = [handler EXCEPT ![a].pc = IF @ = "stop" THEN "start" ELSE "add"]
  /\ UNCHANGED <<settings, ticking, hour, signing, attempted, succeeded>>

\* start reads the settings; a disabled scheduler ends it.
start(a) ==
  /\ handler[a].pc = "start"
  /\ LET now == settings[handler[a].now] IN
       handler' = [handler EXCEPT ![a].pc = IF now = Off THEN "next" ELSE "restop", ![a].at = now]
  /\ UNCHANGED <<settings, cron, job_id, ticking, hour, signing, attempted, succeeded>>

\* scheduler.add, by the settings read before.
AddCron(a) ==
  /\ handler[a].pc = "add"
  /\ LET s == handler[a].now
         id == Min((1 .. MaxCron + 1) \ ({c.id : c \in cron[s]} \cup {job_id[s]})) IN
       /\ Cardinality(cron[s]) < MaxCron
       /\ cron' = [cron EXCEPT ![s] = @ \cup {[id |-> id, at |-> handler[a].at]}]
       /\ handler' = [handler EXCEPT ![a].pc = "note", ![a].id = id]
  /\ UNCHANGED <<settings, job_id, ticking, hour, signing, attempted, succeeded>>

\* Mutation: the hour of the sign-in itself is left to the job.
Mutshould_run_startup_catchup(at) == hour > at
should_run_startup_catchup(at) == hour >= at

\* The id is kept, the ticker runs, and a sign-in that is due is caught up.
NoteJob(a) ==
  /\ handler[a].pc = "note"
  /\ LET s == handler[a].now
         due == s = "signin" /\ should_run_startup_catchup(handler[a].at) /\ ~succeeded IN
       /\ job_id' = [job_id EXCEPT ![s] = handler[a].id] /\ ticking' = [ticking EXCEPT ![s] = TRUE]
       /\ signing' = IF due THEN signing + 1 ELSE signing
       /\ attempted' = (attempted \/ due)
  /\ handler' = [handler EXCEPT ![a].pc = "next", ![a].at = Off, ![a].id = 0]
  /\ signing <= MaxCron
  /\ UNCHANGED <<settings, cron, hour, succeeded>>

----------------------------------------------------------------------------
\* The clock strikes: jobs of that hour fire, if the ticker runs.
HourStrikes ==
  LET next == (hour + 1) % Hours
      fired == IF ticking["signin"] THEN {c \in cron["signin"] : c.at = next} ELSE {} IN
  /\ next = 0 => signing = 0
  /\ signing + Cardinality(fired) <= MaxCron
  /\ hour' = next /\ signing' = signing + Cardinality(fired)
  /\ attempted' = (fired # {} \/ (next # 0 /\ attempted)) /\ succeeded' = (next # 0 /\ succeeded)
  /\ UNCHANGED <<settings, cron, job_id, ticking, handler>>

\* signin_with_failure_notice: only a success is looked for by a catch-up.
SigninEnds ==
  /\ signing > 0 /\ signing' = signing - 1 /\ succeeded' \in {succeeded, TRUE}
  /\ UNCHANGED <<settings, cron, job_id, ticking, handler, hour, attempted>>

\* The process ends and is started again, after some hours or days.
RestartSchedulers ==
  /\ cron' = [s \in Schedules |-> {}] /\ job_id' = [s \in Schedules |-> 0]
  /\ ticking' = [s \in Schedules |-> FALSE]
  /\ handler' = [a \in Actors |-> IF a = Boot THEN BootReload ELSE Rest]
  /\ \E h \in 0 .. Hours - 1, days \in {0, 1} :
       /\ days = 0 => h >= hour
       /\ hour' = h /\ attempted' = (days = 0 /\ attempted) /\ succeeded' = (days = 0 /\ succeeded)
  /\ signing' = 0 /\ UNCHANGED settings

SchedulersNext ==
  \/ HourStrikes \/ SigninEnds \/ RestartSchedulers
  \/ \E h \in Handlers : ReadPrevious(h) \/ SaveSettings(h)
  \/ \E a \in Actors : NextReload(a) \/ stop(a) \/ start(a) \/ AddCron(a) \/ NoteJob(a)

SchedulersSpec == SchedulersInit /\ [][SchedulersNext]_svars

----------------------------------------------------------------------------
\* Once the reloads are through, a scheduler has the one job its settings ask
\* for, and it is the one that a later stop removes (start, stop, reload).
JobFollows ==
  Quiet => \A s \in Schedules :
    IF settings[s] = Off THEN cron[s] = {} ELSE cron[s] = {[id |-> job_id[s], at |-> settings[s]]}

\* No day's sign-in is lost to a reload or a restart: when its hour has come
\* and the scheduler is up, it was tried or had succeeded
\* (spawn_startup_catchup_if_needed).
SigninTried ==
  Quiet /\ settings["signin"] # Off /\ hour >= settings["signin"] => attempted \/ succeeded

\* The documented promise: a reload replaces the job, it never leaves two.
OneCron == \A s \in Schedules : Cardinality(cron[s]) <= 1

\* The schedules survive reloads and restarts: the right job, and no day lost.
SchedulesKept == JobFollows /\ SigninTried
=============================================================================

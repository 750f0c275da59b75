----------------------------- MODULE JobHistory -----------------------------
(***************************************************************************)
(* What the job store promises its readers: the record of a job appears,   *)
(* is ended, retried while it has failed, perhaps moved to the archive and *)
(* removed, and never goes back: to an earlier attempt, into an attempt    *)
(* that has ended, or into the list; whatever writes fail, callers give up *)
(* or processes exit.  An ended record may be called failed (shutdown).    *)
(* Several jobs may move at once (archiving, clearing, a restart).  Only a *)
(* restart may show two moves of a job as one: it ended unseen and was     *)
(* evicted.  What the archive says of an archived job is left open.        *)
(***************************************************************************)
EXTENDS Integers

CONSTANT Jobs
VARIABLES place,  \* place[j]: where a reader finds the record of j, and in
                  \* which attempt
          up      \* whether there is a process to read from

At(status, attempt) == [status |-> status, attempt |-> attempt]
None == At("none", 0)
Away == {At("archived", 0), At("gone", 0)}
Ended(p) == p.status \in {"failed", "settled"}

Order(p, q) ==
  \/ p = None /\ q = At("active", 1)
  \/ p.status = "active" /\ q \in {At("failed", p.attempt), At("settled", p.attempt)}
  \/ p.status = "failed" /\ q = At("active", p.attempt + 1)
  \/ Ended(p) /\ q \in Away \cup {At("failed", p.attempt)}
  \/ p = At("archived", 0) /\ q = At("gone", 0)
Unseen(p, q) == p.status = "active" /\ q \in Away

Init == place = [j \in Jobs |-> None] /\ up = TRUE

Moves(S) == place' = [j \in Jobs |-> IF j \in S THEN place'[j] ELSE place[j]]

Serve ==
  \E S \in SUBSET Jobs : Moves(S) /\ up' = up /\ \A j \in S : Order(place[j], place'[j])
Exit == up /\ up' = FALSE /\ place' = place
Restart ==
  /\ ~up /\ up' = TRUE
  /\ \E S \in SUBSET Jobs :
       Moves(S) /\ \A j \in S : Order(place[j], place'[j]) \/ Unseen(place[j], place'[j])

Next == Serve \/ Exit \/ Restart
Spec == Init /\ [][Next]_<<place, up>>
=============================================================================

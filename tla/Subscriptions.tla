---------------------------- MODULE Subscriptions ----------------------------
(***************************************************************************)
(* The two sides of a subscription: its sources, with the checks and the    *)
(* batches that race (SubscriptionCheck), and its seasons, with what counts *)
(* as transferred (SeasonProgress).  Both write the same record, each other *)
(* fields of it; an instance looks at one side.                             *)
(***************************************************************************)
EXTENDS SubscriptionCheck, SeasonProgress

VARIABLE side   \* "sources" or "seasons"

subscription_vars == <<side, cvars, pvars>>

SubscriptionsInit ==
  \/ /\ side = "sources" /\ CheckInit
     /\ memory = (CHOOSE s \in Records : TRUE) /\ content = {} /\ NoneRunning
  \/ /\ side = "seasons" /\ SeasonInit
     /\ sub = Nothing /\ share = [u \in Urls |-> [size |-> 0, alive |-> FALSE]] /\ AtRest

Sources(Act) == side = "sources" /\ Act /\ UNCHANGED <<side, pvars>>
Seasons(Act) == side = "seasons" /\ Act /\ UNCHANGED <<side, cvars>>

SubscriptionsNext == Sources(CheckNext) \/ Seasons(SeasonNext)

\* CheckFairness and that of SeasonProgress.
SubscriptionsFairness ==
  /\ \A c \in Kinds_ : WF_subscription_vars(Sources(CheckStep(c)))
  /\ WF_subscription_vars(Sources(StartBatch)) /\ SF_subscription_vars(Sources(BatchLock))
  /\ WF_subscription_vars(Sources(MergeBatch))
  /\ \A r \in SUBSET Episodes : WF_subscription_vars(Sources(Transfer(r)))
  /\ WF_subscription_vars(Seasons(CheckStep_)) /\ WF_subscription_vars(Seasons(TransferStep_))

SubscriptionsSpec ==
  SubscriptionsInit /\ [][SubscriptionsNext]_subscription_vars /\ SubscriptionsFairness
=============================================================================

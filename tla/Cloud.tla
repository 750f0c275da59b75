-------------------------------- MODULE Cloud --------------------------------
(***************************************************************************)
(* What is done in the cloud drive: the transfer of a subscription's new    *)
(* files (SubscriptionTransfer), a save by hand without a subscription      *)
(* (MediaSave), and the walk over a share both begin with (ShareProbe).     *)
(* They write to different records and meet only in the provider, which     *)
(* serves them one call at a time; an instance looks at one of them.        *)
(***************************************************************************)
EXTENDS SubscriptionTransfer, MediaSave, ShareProbe

VARIABLE part   \* "transfer", "save" or "probe"

cloudvars == <<part, tvars, savars, wvars>>

CloudInit ==
  /\ part \in {"transfer", "save", "probe"} /\ TransferInit /\ SaveInit /\ WalkInit
  /\ part # "transfer" => ~saved.sync
  /\ part # "probe" => tree = (CHOOSE t \in Trees : TRUE) /\ access = "open"

Transfer(Act) == part = "transfer" /\ Act /\ UNCHANGED <<part, savars, wvars>>

CloudNext ==
  \/ Transfer(TransferNext)
  \/ part = "save" /\ SaveNext /\ UNCHANGED <<part, tvars, wvars>>
  \/ part = "probe" /\ WalkNext /\ UNCHANGED <<part, tvars, savars>>

\* TransferFairness, of its own part.
CloudFairness ==
  /\ WF_cloudvars(Transfer(JobStep)) /\ WF_cloudvars(Transfer(Begin(Files)))
  /\ WF_cloudvars(Transfer(RetryStep))
  /\ \A f \in Files : WF_cloudvars(Transfer(Land(f)))

CloudSpec == CloudInit /\ [][CloudNext]_cloudvars /\ CloudFairness
=============================================================================

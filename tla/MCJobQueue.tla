----------------------------- MODULE MCJobQueue -----------------------------
(* Instances of JobQueue for TLC. *)
EXTENDS JobQueue, TLC

CONSTANTS t, m, p   \* keys of a transfer, a metadata scrape and a push

OneTransfer == (t :> "SubscriptionTransfer")
OneScrape == (m :> "MetadataScrape")
OnePush == (p :> "PushDispatch")
TransferAndPush == OneTransfer @@ OnePush
OneOfEach == OneTransfer @@ OneScrape @@ OnePush
=============================================================================

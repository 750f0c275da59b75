------------------------- MODULE MCDownloadMonitor -------------------------
(* Three tasks: two files submitted together or apart, one retried.  *)
EXTENDS DownloadMonitor
MCGids == {"g1", "g2", "g3"}
MCFiles == {"f1", "f2"}
MCFileOf == [g \in MCGids |-> IF g = "g1" THEN "f1" ELSE "f2"]
=============================================================================

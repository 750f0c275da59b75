----------------------------- MODULE MCServices -----------------------------
(* Three files and two releases to update to; one request at a time for the  *)
(* settings; a data file of any schema under this release and the next.     *)
EXTENDS Services, TLC

CONSTANTS lock, jobsFile, subsFile, p, update1, update2, h1, h2

PathOrder == <<lock, jobsFile, subsFile>>
Foreign == {[f \in {lock, jobsFile, subsFile} |-> 7], [f \in {subsFile} |-> 7],
            [f \in {lock, jobsFile, subsFile} |-> IF f = subsFile THEN Damaged ELSE 7]}

OneEach == [l \in Logs |-> 1]
Ages == [normal |-> 0, failed |-> 1]
=============================================================================

---------------------------- MODULE MCInterfaces ----------------------------
(* Two notifications with the same text and one error; one user who searches, *)
(* prepares and decides while another presses the buttons; a job and a retry;  *)
(* one page, one browser that asks for pushes again and again.                *)
EXTENDS Interfaces, TLC
CONSTANTS alice, bob, x, y, r1, t1, b1
MCItems == {"a", "b", "e"}
MCLevelOf == [i \in MCItems |-> IF i = "e" THEN "error" ELSE "info"]
MCTextOf == [i \in MCItems |-> IF i = "e" THEN "failed" ELSE "done"]
MCRequests == {<<alice, "search">>, <<alice, "transfer">>, <<alice, "prompt">>, <<alice, "confirm">>,
               <<alice, "cancel">>, <<bob, "confirm">>}
Symmetric == Permutations(Hits)
=============================================================================

----------------------- MODULE MCSubscriptionTransfer -----------------------
(* Three files of two seasons, the second the last of its season; a share    *)
(* with two versions of one name; trees around the limits of a page and of   *)
(* a directory.                                                              *)
EXTENDS Cloud, TLC

CONSTANTS f1, f2, f3, hd, uhd, extra

TwoSeasons == (f1 :> 1) @@ (f2 :> 1) @@ (f3 :> 2)

TwoVersions == (hd :> "movie") @@ (uhd :> "movie") @@ (extra :> "extra")
Sizes == (hd :> 1) @@ (uhd :> 2) @@ (extra :> 0)

Shapes == {
  ("0" :> <<"a", "b", "d">>) @@ ("d" :> <<"e", "h">>) @@ ("e" :> <<"g">>),
  ("0" :> <<"d", "e">>) @@ ("d" :> <<"a", "b", "c">>) @@ ("e" :> <<>>),
  "0" :> <<>>,
  ("0" :> <<"d">>) @@ ("d" :> <<"a", "b", "c", "g">>),
  ("0" :> <<"a", "b", "c", "d">>) @@ ("d" :> <<>>),
  "0" :> <<"a", "b", "c", "d", "e">> }
=============================================================================

--------------------------- MODULE MCSubscriptions ---------------------------
(* Two seasons of two episodes: a file without season in two versions, a       *)
(* collection, two files of the second season, an extra.                      *)
EXTENDS Subscriptions, TLC

CONSTANTS v1, v2, pack, s2, t2, sp

All == {v1, v2, pack, s2, t2, sp}
Hints == (v1 :> 0) @@ (v2 :> 0) @@ (pack :> 1) @@ (s2 :> 2) @@ (t2 :> 2) @@ (sp :> 0)
Firsts == (v1 :> 2) @@ (v2 :> 2) @@ (pack :> 1) @@ (s2 :> 1) @@ (t2 :> 2) @@ (sp :> 1)
Lasts == (v1 :> 2) @@ (v2 :> 2) @@ (pack :> 2) @@ (s2 :> 1) @@ (t2 :> 2) @@ (sp :> 1)
Ranks == (v1 :> 1) @@ (v2 :> 2) @@ (pack :> 3) @@ (s2 :> 4) @@ (t2 :> 6) @@ (sp :> 5)
hint_ == [f \in Videos |-> Hints[f]]
first_ == [f \in Videos |-> Firsts[f]]
last_ == [f \in Videos |-> Lasts[f]]
rank_ == [f \in Videos |-> Ranks[f]]
extras_ == Videos \cap {sp}

New_ == [seasons |-> {1}, start |-> 0, total |-> 0, refs |-> {}, keys |-> {}, ids |-> {},
         seen |-> {}, past |-> {}, known |-> {}, completed |-> FALSE]
\* A record of a version that filed nothing under a season.
Old_ == [New_ EXCEPT !.refs = {<<v1, 0>>}, !.keys = {<<0, 2>>}, !.known = {2}]
\* One of both seasons, from the second episode of the first to the last.
Both_ == [New_ EXCEPT !.seasons = {1, 2}, !.start = 2, !.total = 2]
Kept == {New_, Old_, Both_}
Shares_ == {{v1, s2, sp}, {t2}}
=============================================================================

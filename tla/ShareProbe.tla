----------------------------- MODULE ShareProbe -----------------------------
(***************************************************************************)
(* The probe of a share (clients/quark.rs probe, list_files, http_pool.rs   *)
(* send_observed_idempotent): its token, then its directories page by page, *)
(* breadth first, up to a number of entries, while requests fail and are    *)
(* repeated and the share may be withdrawn.  What the probe says of itself  *)
(* decides what a check may conclude: that the source is invalid, that a    *)
(* list is complete, or partial.                                            *)
(* An answer with an error code is taken to be about the share.             *)
(***************************************************************************)
EXTENDS Naturals, Sequences, FiniteSets, SequencesExt

CONSTANTS
  Root,          \* pdir_fid "0"
  Trees,         \* what shares hold: directory -> the entries listed in it
  PageSize,      \* entries per page (100)
  MaxPages,      \* pages per directory (20)
  MaxFiles,      \* max_files
  MaxAttempts_,  \* IDEMPOTENT_MAX_ATTEMPTS
  MaxOutages     \* bound: failing requests

ASSUME WalkAssumption ==
  /\ \A t \in Trees : Root \in DOMAIN t /\ \A d \in DOMAIN t : t[d] \in Seq(UNION {Range(t[e]) : e \in DOMAIN t})
  /\ {PageSize, MaxPages, MaxFiles, MaxAttempts_} \subseteq Nat \ {0} /\ MaxOutages \in Nat

\* Every entry is listed in one place, and lies below the root.
ASSUME TreeAssumption == \A t \in Trees :
  /\ \A d, e \in DOMAIN t : \A m \in DOMAIN t[d], n \in DOMAIN t[e] :
       t[d][m] = t[e][n] => d = e /\ m = n
  /\ \A d \in DOMAIN t : Root \notin Range(t[d])
  /\ \A D \in SUBSET DOMAIN t :
       Root \in D /\ (\A d \in D : Range(t[d]) \cap DOMAIN t \subseteq D) => D = DOMAIN t

VARIABLES
  tree,      \* the share
  access,    \* "open"; "locked" by another passcode; "gone"
  walk,      \* pc, the directory being listed, its page and attempt, what it gave
  queue,     \* entries to visit
  found,     \* files: entries visited
  flags,     \* partial_failure, truncated
  outages

wvars == <<tree, access, walk, queue, found, flags, outages>>

WalkInit ==
  /\ tree \in Trees /\ access \in {"open", "locked"}
  /\ queue = <<>> /\ found = <<>> /\ outages = 0
  /\ walk = [pc |-> "token", dir |-> Root, page |-> 1, attempt |-> 1, got |-> <<>>]
  /\ flags = [partial |-> FALSE, truncated |-> FALSE]

\* What every variable may hold.
WalkTypeOK ==
  /\ tree \in Trees /\ access \in {"open", "locked", "gone"} /\ outages \in 0..MaxOutages
  /\ walk.pc \in {"token", "page", "visit", "ok", "partial", "bad", "locked", "error", "rate_limited"}
  /\ walk.dir \in DOMAIN tree /\ walk.page \in 1..MaxPages /\ walk.attempt \in 1..MaxAttempts_
  /\ {Range(walk.got), Range(queue), Range(found)} \subseteq SUBSET UNION {Range(tree[d]) : d \in DOMAIN tree}
  /\ Len(found) <= MaxFiles /\ flags \in [partial : BOOLEAN, truncated : BOOLEAN]

Ends(state) == walk' = [walk EXCEPT !.pc = state] /\ UNCHANGED <<queue, flags>>

Withdraw ==
  /\ access # "gone" /\ access' = "gone" /\ UNCHANGED <<tree, walk, queue, found, flags, outages>>

get_share_token ==
  /\ walk.pc = "token" /\ UNCHANGED <<tree, access, found, outages>>
  /\ IF access = "open" THEN Ends("page") ELSE Ends(IF access = "gone" THEN "bad" ELSE "locked")

Slice(dir, page) ==
  LET last == page * PageSize IN
    SubSeq(tree[dir], last - PageSize + 1, IF last < Len(tree[dir]) THEN last ELSE Len(tree[dir]))

\* list_files returns: with a warning, or without, what the pages gave.
Listed(entries, warning) ==
  IF walk.dir = Root /\ warning /\ entries = <<>> THEN Ends("bad")
  ELSE /\ walk' = [walk EXCEPT !.pc = "visit"] /\ queue' = queue \o entries
       /\ flags' = [flags EXCEPT !.partial = @ \/ warning]
\* It fails: so does the probe, or this directory is left out.
ListingFails(state) ==
  IF walk.dir = Root THEN Ends(state)
  ELSE /\ walk' = [walk EXCEPT !.pc = "visit"] /\ flags' = [flags EXCEPT !.partial = TRUE]
       /\ UNCHANGED queue

\* Mutation: the last page allowed ends the list like any other.
MutTruncates(entries) == FALSE
\* A full last page may not be the last one of the directory.
Truncates(entries) == walk.page = MaxPages /\ Len(entries) = PageSize

PageArrives ==
  /\ walk.pc = "page" /\ access = "open" /\ UNCHANGED <<tree, access, found, outages>>
  /\ LET entries == Slice(walk.dir, walk.page) all == walk.got \o entries IN
       IF Len(entries) < PageSize \/ walk.page = MaxPages
       THEN Listed(all, Truncates(entries))
       ELSE /\ walk' = [walk EXCEPT !.page = @ + 1, !.attempt = 1, !.got = all]
            /\ UNCHANGED <<queue, flags>>
PageRefused ==
  /\ walk.pc = "page" /\ access = "gone" /\ Listed(walk.got, TRUE)
  /\ UNCHANGED <<tree, access, found, outages>>

\* No answer, or a server error: once more after a while; then what the pages
\* before gave is kept.  A limited rate is an error at once, on any page.
RequestFails(limited) ==
  /\ walk.pc \in {"token", "page"} /\ outages < MaxOutages /\ outages' = outages + 1
  /\ IF limited THEN ListingFails("rate_limited")
     ELSE IF walk.attempt < MaxAttempts_
          THEN walk' = [walk EXCEPT !.attempt = @ + 1] /\ UNCHANGED <<queue, flags>>
     ELSE IF walk.page > 1 THEN Listed(walk.got, TRUE) ELSE ListingFails("error")
  /\ UNCHANGED <<tree, access, found>>

\* The next entry; a directory is listed if there is room for what it holds.
Visit ==
  /\ walk.pc = "visit" /\ queue # <<>> /\ Len(found) < MaxFiles
  /\ LET e == Head(queue) IN
       /\ found' = Append(found, e) /\ queue' = Tail(queue)
       /\ IF e \notin DOMAIN tree THEN UNCHANGED <<walk, flags>>
          ELSE IF Len(found) + 1 < MaxFiles
               THEN /\ walk' = [pc |-> "page", dir |-> e, page |-> 1, attempt |-> 1, got |-> <<>>]
                    /\ UNCHANGED flags
               ELSE flags' = [flags EXCEPT !.truncated = TRUE] /\ UNCHANGED walk
  /\ UNCHANGED <<tree, access, outages>>
Conclude ==
  /\ walk.pc = "visit" /\ (queue = <<>> \/ Len(found) = MaxFiles)
  /\ flags' = [flags EXCEPT !.truncated = @ \/ queue # <<>>]
  /\ walk' = [walk EXCEPT !.pc = IF flags.partial \/ flags'.truncated THEN "partial" ELSE "ok"]
  /\ UNCHANGED <<tree, access, queue, found, outages>>

WalkNext ==
  \/ Withdraw \/ get_share_token \/ PageArrives \/ PageRefused \/ Visit \/ Conclude
  \/ \E limited \in BOOLEAN : RequestFails(limited)

----------------------------------------------------------------------------
\* All entries below the root.
Entries == UNION {Range(tree[d]) : d \in DOMAIN tree}
\* What the probe says is true of the share: "ok" is the whole of it, each entry
\* once; "bad" a share that is gone, never one that only fails to answer; and
\* "partial" is not said of a complete list unless something was cut off.
ProbeHonest ==
  /\ IsInjective(found) /\ Range(found) \subseteq Entries /\ Len(found) <= MaxFiles
  /\ walk.pc = "ok" => Range(found) = Entries
  /\ walk.pc = "bad" => access = "gone"
  /\ walk.pc \in {"error", "rate_limited"} => outages > 0
  /\ walk.pc = "partial" =>
       \/ Range(found) # Entries \/ outages > 0 \/ access = "gone"
       \/ \E d \in DOMAIN tree : Len(tree[d]) >= PageSize * MaxPages
       \/ Len(found) = MaxFiles /\ Last(found) \in DOMAIN tree
=============================================================================

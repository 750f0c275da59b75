---------------------------- MODULE TelegramBot ----------------------------
(***************************************************************************)
(* Control over Telegram (services/telegram_bot.rs and its parts,           *)
(* store/telegram_bot.rs, api/telegram.rs): updates come by long polling or *)
(* by webhook, more than once; each is handled in a task of its own; what    *)
(* changes something is prepared, shown, and executed when its button is     *)
(* pressed.  Claims and sessions are stored; confirmations and the offset    *)
(* are in memory.                                                            *)
(* Abstracted: one chat, one result per search (index 1), the rate counters  *)
(* (a command may be refused at any time), the wording of every answer, the  *)
(* executed action itself, which is a call to a component of its own.        *)
(***************************************************************************)
EXTENDS Naturals, Sequences, FiniteSets

CONSTANTS Users, Hits,
  Requests,      \* the pairs of a user and a kind of request an instance looks at
  Keep,          \* MAX_PROCESSED_UPDATES, MAX_PROCESSED_CALLBACKS, MAX_ACTION_KEYS
  MAX_CONCURRENT_UPDATES,
  MaxUpdates, MaxRare   \* bounds

ASSUME TelegramAssumption ==
  /\ {Keep, MAX_CONCURRENT_UPDATES} \subseteq Nat \ {0}
  /\ Requests \subseteq Users \X {"search", "transfer", "prompt", "confirm", "cancel"}
  /\ {MaxUpdates, MaxRare} \subseteq Nat

VARIABLES
  updates,    \* updates[i]: who sent it, what it asks, and the nonce it names
  unacked,    \* what Telegram may deliver (again)
  delivered,  \* what was handed over
  webhook,    \* telegram_bot_mode
  offset,     \* of the polling loop; 0 is None
  tasks,      \* spawned handle_update: [id, try, pc, conf]
  claims,     \* TelegramBotPersistentState: three lists of keys
  stored,     \* user_sessions: the hit a user's last search found
  session,    \* SessionStore, in memory
  confs,      \* PendingConfirmation by nonce, in memory
  nonces,     \* nonces given out; their buttons are in the chat
  expired,    \* nonces older than CONFIRMATION_TTL_SECONDS
  recent,     \* history: the last Keep updates that were handled
  twice,      \* history: one of them was handled again
  executed,   \* history: what was executed, in order
  canceled,   \* history: nonces whose cancel button won
  rare        \* redeliveries, edits, expiries, failed writes and crashes so far

bvars == <<updates, unacked, delivered, webhook, offset, tasks, claims, stored, session,
           confs, nonces, expired, recent, twice, executed, canceled, rare>>
Transport == <<updates, unacked, delivered, webhook, offset>>
BotHistory == <<recent, twice, executed, canceled>>
NoHit == "none"
Ids == 1..Len(updates)
Actions_ == {"transfer", "write"}
Conf == [nonce : 1..MaxUpdates, user : Users, action : Actions_, shown : Hits \cup {NoHit}]
NoConf == [nonce |-> 0, user |-> "nobody", action |-> "write", shown |-> NoHit]

TelegramInit ==
  /\ updates = <<>> /\ unacked = {} /\ delivered = {}
  /\ webhook \in BOOLEAN /\ offset = 0 /\ tasks = {}
  /\ claims = [updates |-> <<>>, callbacks |-> <<>>, actions |-> <<>>]
  /\ stored \in {[u \in Users |-> h] : h \in Hits} /\ session = [u \in Users |-> NoHit]
  /\ confs = {} /\ nonces = 0 /\ expired = {} /\ recent = <<>> /\ twice = FALSE /\ executed = <<>>
  /\ canceled = {} /\ rare = 0

\* What every variable may hold.
TelegramTypeOK ==
  /\ \A i \in Ids : updates[i].user \in Users
  /\ unacked \subseteq Ids /\ offset \in 0..(MaxUpdates + 1)
  /\ \A t \in tasks : t.id \in Ids /\ (t.conf \in Conf \/ t.conf.nonce = 0)
  /\ \A k \in DOMAIN claims : Len(claims[k]) <= Keep
  /\ stored \in [Users -> Hits \cup {NoHit}] /\ session \in [Users -> Hits \cup {NoHit}]
  /\ confs \subseteq Conf /\ nonces \in 0..MaxUpdates
  /\ \A c, d \in confs : c.nonce = d.nonce => c = d

----------------------------------------------------------------------------
\* A user writes, or presses a button: any button that is in the chat (an index
\* button under a search result asks what the "transfer" command asks).  What
\* changes something without a session (check, retry, cancel, download, read,
\* signin) is asked by the signed button under a notification, "prompt".
Send(u, kind, n) ==
  /\ <<u, kind>> \in Requests /\ Len(updates) < MaxUpdates /\ n \in (IF kind \in {"confirm", "cancel"} THEN 1..nonces ELSE {0})
  /\ updates' = Append(updates, [user |-> u, kind |-> kind, nonce |-> n])
  /\ unacked' = unacked \cup {Len(updates) + 1}
  /\ UNCHANGED <<delivered, webhook, offset, tasks, claims, stored, session, confs, nonces,
                 expired, BotHistory, rare>>

\* A task per update, as many as the semaphore lets; who waits for it waits in
\* the queue of the process, and shares its fate.
Rare == rare < MaxRare /\ rare' = rare + 1
Spawn(i) ==
  /\ Cardinality(tasks) < MAX_CONCURRENT_UPDATES /\ delivered' = delivered \cup {i}
  /\ tasks' = tasks \cup {[id |-> i, try |-> IF i \in delivered THEN rare' ELSE 0,
                          pc |-> "update", conf |-> NoConf]}

\* run: getUpdates confirms what is below the offset and returns the rest in
\* order; the offset moves on as each update gets its task, so that a long batch
\* is confirmed by the next request only.
Poll ==
  LET fresh == {i \in unacked : i >= offset}
      next == CHOOSE i \in fresh : \A k \in fresh : i <= k IN
  /\ ~webhook /\ fresh # {} /\ UNCHANGED rare /\ Spawn(next) /\ offset' = next + 1
  /\ unacked' \in {unacked, fresh}
  /\ UNCHANGED <<updates, webhook, claims, stored, session, confs, nonces, expired, BotHistory>>

\* api/telegram.rs: the answer precedes the work, and may not arrive.
Webhook(i, answered) ==
  /\ webhook /\ i \in unacked
  /\ IF i \in delivered THEN Rare ELSE UNCHANGED rare
  /\ Spawn(i)
  /\ unacked' = IF answered THEN unacked \ {i} ELSE unacked
  /\ UNCHANGED <<updates, webhook, offset, claims, stored, session, confs, nonces, expired, BotHistory>>

\* The mode or the token is edited: the offset is forgotten.
SwitchMode ==
  /\ Rare /\ webhook' = ~webhook /\ offset' = 0
  /\ UNCHANGED <<updates, unacked, delivered, tasks, claims, stored, session, confs, nonces,
                 expired, BotHistory>>

----------------------------------------------------------------------------
\* trim_front: the newest Keep keys.
trim_front(s) == SubSeq(s, IF Len(s) > Keep THEN Len(s) - Keep + 1 ELSE 1, Len(s))
Has(s, k) == \E i \in DOMAIN s : s[i] = k
Goto(t, pc) == tasks' = (tasks \ {t}) \cup {[t EXCEPT !.pc = pc]}
Done(t) == tasks' = tasks \ {t}
Message(i) == updates[i].kind \in {"search", "transfer"}

\* Mutation: a full list keeps its oldest keys.
MutClaimUpdate(t) ==
  /\ t \in tasks /\ t.pc = "update"
  /\ IF Has(claims.updates, t.id) THEN Done(t) /\ UNCHANGED <<claims, recent, twice>>
     ELSE /\ claims' = [claims EXCEPT !.updates = IF Len(@) < Keep THEN Append(@, t.id) ELSE @]
          /\ recent' = trim_front(Append(recent, t.id)) /\ twice' = (twice \/ Has(recent, t.id))
          /\ Goto(t, IF Message(t.id) THEN "message" ELSE "callback")
  /\ UNCHANGED <<Transport, stored, session, confs, nonces, expired, executed, canceled, rare>>
\* claim_update
ClaimUpdate(t) ==
  /\ t \in tasks /\ t.pc = "update"
  /\ IF Has(claims.updates, t.id) THEN Done(t) /\ UNCHANGED <<claims, recent, twice>>
     ELSE /\ claims' = [claims EXCEPT !.updates = trim_front(Append(@, t.id))]
          /\ recent' = trim_front(Append(recent, t.id)) /\ twice' = (twice \/ Has(recent, t.id))
          /\ Goto(t, IF Message(t.id) THEN "message" ELSE "callback")
  /\ UNCHANGED <<Transport, stored, session, confs, nonces, expired, executed, canceled, rare>>

\* Not authorised, over a limit, or in the cooldown after failures: nothing
\* happens.
Rejected(t) ==
  /\ t \in tasks /\ t.pc \in {"message", "press"} /\ Done(t)
  /\ UNCHANGED <<Transport, claims, stored, session, confs, nonces, expired, BotHistory, rare>>

\* search_resources_text: the session in memory, then in the store.
Search(t, h) ==
  /\ t \in tasks /\ t.pc = "message" /\ updates[t.id].kind = "search"
  /\ session' = [session EXCEPT ![updates[t.id].user] = h]
  /\ tasks' = (tasks \ {t}) \cup {[t EXCEPT !.pc = "session", !.conf = [NoConf EXCEPT !.shown = h]]}
  /\ UNCHANGED <<Transport, claims, stored, confs, nonces, expired, BotHistory, rare>>
PutSession(t, ok) ==
  /\ t \in tasks /\ t.pc = "session" /\ Done(t)
  /\ IF ok THEN stored' = [stored EXCEPT ![updates[t.id].user] = t.conf.shown] /\ UNCHANGED rare
     ELSE Rare /\ UNCHANGED stored
  /\ UNCHANGED <<Transport, claims, session, confs, nonces, expired, BotHistory>>

\* load_session: memory first, then the store.
load_session(u) == IF session[u] # NoHit THEN session[u] ELSE stored[u]

\* Mutation: the confirmation is filed under its user.
MutNonce(u) == CHOOSE n \in 1..MaxUpdates : TRUE
Nonce(u) == nonces + 1
\* prepare_confirmation: what has expired is dropped, and a confirmation with a
\* nonce of its own is filed.
prepare_confirmation(u, action, shown) ==
  /\ nonces' = nonces + 1
  /\ confs' = {c \in confs : c.nonce \notin expired} \cup
               {[nonce |-> Nonce(u), user |-> u, action |-> action, shown |-> shown]}
\* transfer_prepare and the like also look at what it is about.
Prepare(t, action) ==
  LET u == updates[t.id].user
      shown == IF action = "transfer" THEN load_session(u) ELSE NoHit IN
  /\ nonces < MaxUpdates /\ Done(t)
  /\ IF action = "transfer" /\ shown = NoHit
     THEN UNCHANGED <<confs, nonces, session>>
     ELSE /\ prepare_confirmation(u, action, shown)
          /\ session' = IF action = "transfer" THEN [session EXCEPT ![u] = shown] ELSE session
  /\ UNCHANGED <<Transport, claims, stored, expired, BotHistory, rare>>
PrepareMessage(t) ==
  /\ t \in tasks /\ t.pc = "message" /\ updates[t.id].kind = "transfer"
  /\ Prepare(t, "transfer")

\* claim_callback: a callback has an id of its own next to its update's.
ClaimCallback(t) ==
  /\ t \in tasks /\ t.pc = "callback"
  /\ IF Has(claims.callbacks, t.id) THEN Done(t) /\ UNCHANGED claims
     ELSE claims' = [claims EXCEPT !.callbacks = trim_front(Append(@, t.id))] /\ Goto(t, "press")
  /\ UNCHANGED <<Transport, stored, session, confs, nonces, expired, BotHistory, rare>>

\* handle_prompt_callback: an expiring signature binds the button to its user.
PressPrompt(t) ==
  /\ t \in tasks /\ t.pc = "press" /\ updates[t.id].kind = "prompt" /\ Prepare(t, "write")

\* Mutation: the confirmation is only read.
Mutclaim_confirmation(c) == confs
\* claim_confirmation takes it out of the map.
claim_confirmation(c) == confs \ {c}

\* A confirmation that is gone, of somebody else, or expired is refused.
Press(t) ==
  /\ t \in tasks /\ t.pc = "press" /\ updates[t.id].kind \in {"confirm", "cancel"}
  /\ LET p == updates[t.id]
         mine == {c \in confs : c.nonce = p.nonce /\ c.user = p.user} IN
       \/ /\ \A c \in mine : c.nonce \in expired
          /\ Done(t) /\ confs' = confs \ mine /\ UNCHANGED canceled
       \/ \E c \in mine :
            /\ c.nonce \notin expired /\ confs' = claim_confirmation(c)
            /\ IF p.kind = "cancel" THEN Done(t) /\ canceled' = canceled \cup {c.nonce}
               ELSE /\ tasks' = (tasks \ {t}) \cup {[t EXCEPT !.pc = "claim", !.conf = c]}
                    /\ UNCHANGED canceled
  /\ UNCHANGED <<Transport, claims, stored, session, nonces, expired, recent, twice, executed, rare>>

\* claim_action: the key of the confirmation is stored before it is executed.
ClaimAction(t) ==
  /\ t \in tasks /\ t.pc = "claim"
  /\ IF Has(claims.actions, t.conf.nonce) THEN Done(t) /\ UNCHANGED claims
     ELSE claims' = [claims EXCEPT !.actions = trim_front(Append(@, t.conf.nonce))] /\ Goto(t, "execute")
  /\ UNCHANGED <<Transport, stored, session, confs, nonces, expired, BotHistory, rare>>

\* Mutation: the index alone decides.
Mutverify_search_hit_fingerprint(c, h) == TRUE
verify_search_hit_fingerprint(c, h) == c.shown = h

\* execute_transfer and execute_subscribe read the session again, and refuse
\* when it no longer holds what was shown.
execute_transfer(c, h) == h # NoHit /\ verify_search_hit_fingerprint(c, h)
\* execute_confirmation: every other action needs no session.
Execute(t) ==
  /\ t \in tasks /\ t.pc = "execute" /\ Done(t)
  /\ LET h == load_session(t.conf.user)
         about == IF t.conf.action = "transfer" THEN h ELSE NoHit IN
       executed' = IF t.conf.action = "transfer" /\ ~execute_transfer(t.conf, h) THEN executed
                   ELSE Append(executed, [conf |-> t.conf, by |-> updates[t.id].user, hit |-> about])
  /\ UNCHANGED <<Transport, claims, stored, session, confs, nonces, expired, recent, twice, canceled, rare>>

----------------------------------------------------------------------------
ExpireConfirmation(n) ==
  /\ Rare /\ n \in 1..nonces \ expired /\ expired' = expired \cup {n}
  /\ UNCHANGED <<Transport, tasks, claims, stored, session, confs, nonces, BotHistory>>
ExpireSession(u) ==
  /\ Rare /\ stored[u] # NoHit
  /\ stored' = [stored EXCEPT ![u] = NoHit] /\ session' = [session EXCEPT ![u] = NoHit]
  /\ UNCHANGED <<Transport, tasks, claims, confs, nonces, expired, BotHistory>>
TelegramCrash ==
  /\ Rare /\ offset' = 0 /\ tasks' = {} /\ session' = [u \in Users |-> NoHit] /\ confs' = {}
  /\ UNCHANGED <<updates, unacked, delivered, webhook, claims, stored, nonces, expired, BotHistory>>

HandleUpdate(t) ==
  \/ ClaimUpdate(t) \/ ClaimCallback(t) \/ Rejected(t) \/ PrepareMessage(t) \/ PressPrompt(t)
  \/ Press(t) \/ ClaimAction(t) \/ Execute(t)
  \/ \E h \in Hits : Search(t, h)
  \/ \E ok \in BOOLEAN : PutSession(t, ok)
TelegramNext ==
  \/ \E r \in Requests, n \in 0..nonces : Send(r[1], r[2], n)
  \/ Poll \/ SwitchMode \/ TelegramCrash
  \/ \E i \in unacked, a \in BOOLEAN : Webhook(i, a)
  \/ \E t \in tasks : HandleUpdate(t)
  \/ \E n \in 1..nonces : ExpireConfirmation(n)
  \/ \E u \in Users : ExpireSession(u)
TelegramSpec == TelegramInit /\ [][TelegramNext]_bvars

----------------------------------------------------------------------------
\* However often its button is pressed and its update delivered, across
\* restarts: a confirmation is executed at most once, and never if its cancel
\* button came first.
ConfirmedOnce ==
  /\ \A i, k \in DOMAIN executed : executed[i].conf.nonce = executed[k].conf.nonce => i = k
  /\ \A i \in DOMAIN executed : executed[i].conf.nonce \notin canceled

\* What is executed is what the prompt showed to the user who confirmed it,
\* although searches go on and the confirmation only holds an index.
ExecutedAsShown ==
  \A i \in DOMAIN executed : LET e == executed[i] IN
    /\ e.by = e.conf.user /\ e.hit = e.conf.shown

\* An update is handled again only after Keep others were handled since.
HandledOnce == ~twice

\* Over retransmitted updates, two users and searches that go on, a confirmation
\* acts once, not after its cancellation, and on what it showed.
ConfirmationsHold == ConfirmedOnce /\ ExecutedAsShown
=============================================================================

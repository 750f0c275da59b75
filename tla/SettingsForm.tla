---------------------------- MODULE SettingsForm ----------------------------
(***************************************************************************)
(* The settings (api/settings.rs, store/settings.rs, api/mod.rs) and those  *)
(* who change them: pages that post the whole of their form, however old it *)
(* is, the rotation of the webhook's secret and the browsers subscribed to  *)
(* pushes (api/push.rs), and deliveries that work on a copy of the settings *)
(* and remove the subscriptions that are gone (services/push.rs).           *)
(* A secret is a number, 0 when empty.  An endpoint is a number, and later  *)
(* ones have greater numbers: the list of subscriptions is in their order,  *)
(* and is the set of them.  The other fields, copied or clamped one by one, *)
(* and who may log in are left out.                                         *)
(***************************************************************************)
EXTENDS Naturals, FiniteSets, Functions

CONSTANTS
  Tabs,           \* pages with the settings' form
  Browsers,       \* browsers that want pushes
  MaxSubs,        \* subscriptions kept (20)
  OverlapTime,    \* how long both secrets are used
  MaxTime,        \* bound: clock
  MaxMade,        \* bound: secrets and endpoints made
  MaxFaults       \* bound: failed writes and attempts, restarts

ASSUME SettingsAssumption ==
  {MaxSubs, OverlapTime, MaxTime, MaxMade, MaxFaults} \subseteq Nat

VARIABLES
  conf,      \* the settings in memory
  disk,      \* settings.json
  form,      \* form[t]: what page t shows, or Closed
  call,      \* call[t]: what page t has posted, or Closed
  sender,    \* the delivery under way
  held,      \* the secret the receiver of the webhook checks with
  browser,   \* browser[b]: the endpoint of b, or 0
  promise,   \* the last rotation, if the secret is still of it
  meant,     \* the secret somebody entered last
  released,  \* endpoints pushed out by newer ones, or given back
  unverified, \* the receiver refused what it should have been able to verify
  now, made, faults

svars == <<conf, disk, form, call, sender, held, browser, promise, meant, released, unverified, now, made, faults>>
outside == <<held, browser, now>>

\* What stands for a secret that is not shown: none of the secrets.
Mask == MaxMade + 1
Closed == [open |-> FALSE, key |-> 0]
NoSend == [kind |-> "none", left |-> 0, sign |-> {}, after |-> FALSE, subs |-> {}, gone |-> {}]
NoPromise == [old |-> 0, new |-> 0, until |-> 0, holds |-> FALSE]

SettingsInit ==
  /\ \E k \in {0, 1} : /\ conf = [key |-> k, prev |-> 0, until |-> 0, subs |-> {}]
                       /\ held = k /\ meant = k
  /\ disk = conf /\ form = [t \in Tabs |-> Closed] /\ call = [t \in Tabs |-> Closed]
  /\ sender = NoSend /\ browser = [b \in Browsers |-> 0] /\ promise = NoPromise
  /\ released = {} /\ unverified = FALSE /\ now = 0 /\ made = 1 /\ faults = 0

\* What every variable may hold.
SettingsTypeOK ==
  /\ {conf, disk} \subseteq [key : 0..MaxMade, prev : 0..MaxMade, until : Nat, subs : SUBSET (1..MaxMade)]
  /\ {form, call} \subseteq [Tabs -> [open : BOOLEAN, key : 0..Mask]]
  /\ sender \in [kind : {"none", "webhook", "browser"}, left : 0..3, sign : SUBSET (0..MaxMade),
                 after : BOOLEAN, subs : SUBSET (1..MaxMade), gone : SUBSET (1..MaxMade)]
  /\ {held, meant, made} \subseteq 0..MaxMade /\ browser \in [Browsers -> 0..MaxMade]
  /\ promise \in [old : 0..MaxMade, new : 0..MaxMade, until : Nat, holds : BOOLEAN]
  /\ released \subseteq 1..MaxMade /\ unverified \in BOOLEAN /\ now \in 0..MaxTime /\ faults \in 0..MaxFaults

Fault == faults < MaxFaults /\ faults' = faults + 1
\* SettingsStore::update: memory follows the file; a write that fails may have
\* replaced the file, and changes nothing in memory.
Update(new) == conf' = new /\ disk' = new /\ UNCHANGED faults
UpdateFails(new) == Fault /\ UNCHANGED conf /\ disk' \in {disk, new}

\* public_settings: a secret is shown as a mask.
Public(c) == [open |-> TRUE, key |-> IF c.key = 0 THEN 0 ELSE Mask]
\* Mutation: what the page shows is taken for the secret.
Mutnon_mask_secret(sent, old) == IF sent = 0 THEN old ELSE sent
\* non_mask_secret: a mask and an empty field leave the secret as it is.
non_mask_secret(sent, old) == IF sent \in {0, Mask} THEN old ELSE sent

----------------------------------------------------------------------------
\* Pages.
OpenForm(t) ==
  /\ call[t] = Closed /\ form' = [form EXCEPT ![t] = Public(conf)]
  /\ UNCHANGED <<conf, disk, call, sender, outside, promise, meant, released, unverified, made, faults>>
\* toggleSettingSecret: the secret is fetched and shown, or masked again.
Reveal(t) ==
  /\ form[t].open /\ call[t] = Closed
  /\ \/ form[t].key = Mask /\ form' = [form EXCEPT ![t].key = conf.key]
     \/ form[t].key \notin {0, Mask} /\ form' = [form EXCEPT ![t].key = Mask]
  /\ UNCHANGED <<conf, disk, call, sender, outside, promise, meant, released, unverified, made, faults>>

\* The page posts its form, one field edited perhaps; while
\* the server may be busy with another.
Post(t) ==
  /\ form[t].open /\ call[t] = Closed
  /\ \/ call' = [call EXCEPT ![t] = form[t]] /\ UNCHANGED made
     \/ /\ made < MaxMade /\ made' = made + 1
        /\ call' = [call EXCEPT ![t] = [form[t] EXCEPT !.key = made']]
  /\ UNCHANGED <<conf, disk, form, sender, outside, promise, meant, released, unverified, faults>>

\* What update_settings makes of the settings when its turn comes.
Changed(sent) == [conf EXCEPT !.key = non_mask_secret(sent.key, @)]
\* update_settings: the answer renews the page.
SaveForm(t) ==
  /\ call[t].open /\ call' = [call EXCEPT ![t] = Closed]
  /\ LET new == Changed(call[t]) IN
       \/ /\ Update(new) /\ form' = [form EXCEPT ![t] = Public(new)]
          /\ meant' = IF call[t].key \in {0, Mask} THEN meant ELSE call[t].key
          /\ promise' = [promise EXCEPT !.holds = @ /\ conf.key = meant']
       \/ UpdateFails(new) /\ UNCHANGED <<form, promise, meant>>
  /\ UNCHANGED <<sender, outside, released, unverified, made>>

\* rotate_webhook_secret.
RotateSecret ==
  /\ made < MaxMade /\ made' = made + 1
  /\ LET new == [conf EXCEPT !.prev = conf.key, !.until = now + OverlapTime, !.key = made'] IN
       \/ /\ Update(new) /\ meant' = made'
          /\ promise' = [old |-> conf.key, new |-> made', until |-> new.until, holds |-> TRUE]
          /\ sender' = [sender EXCEPT !.after = FALSE]
       \/ UpdateFails(new) /\ UNCHANGED <<meant, promise, sender>>
  /\ UNCHANGED <<form, call, outside, released, unverified>>
\* The receiver is given the secret in use, when its owner gets round to it.
TakeUp ==
  /\ held # conf.key /\ held' = conf.key
  /\ UNCHANGED <<conf, disk, form, call, sender, browser, promise, meant, released, unverified, now, made, faults>>

----------------------------------------------------------------------------
\* Browsers.
\* Over the limit the oldest subscriptions go.
Newest(list) == {e \in list : Cardinality({f \in list : f > e}) < MaxSubs}
subscribe_browser_push(b) ==
  /\ browser[b] = 0 /\ made < MaxMade /\ made' = made + 1
  /\ LET list == conf.subs \cup {made'}
         new == [conf EXCEPT !.subs = Newest(list)] IN
       /\ \/ Update(new) /\ browser' = [browser EXCEPT ![b] = made']
          \/ UpdateFails(new) /\ UNCHANGED browser
       /\ released' = released \cup (list \ Newest(list))
  /\ UNCHANGED <<form, call, sender, held, promise, meant, unverified, now>>
Without(gone) == [conf EXCEPT !.subs = @ \ gone]
unsubscribe_browser_push(b) ==
  /\ browser[b] # 0
  /\ \/ Update(Without({browser[b]})) /\ browser' = [browser EXCEPT ![b] = 0]
     \/ UpdateFails(Without({browser[b]})) /\ UNCHANGED browser
  /\ released' = released \cup {browser[b]}
  /\ UNCHANGED <<form, call, sender, held, promise, meant, unverified, now, made>>
\* A browser drops its endpoint; the push service answers 404 or 410 from then on.
DropEndpoint(b) ==
  /\ browser[b] # 0 /\ browser' = [browser EXCEPT ![b] = 0]
  /\ UNCHANGED <<conf, disk, form, call, sender, held, promise, meant, released, unverified, now, made, faults>>

----------------------------------------------------------------------------
\* Deliveries, from a copy of the settings.
Signatures(c) == {c.key} \cup (IF c.until >= now THEN {c.prev} ELSE {})
BeginSend ==
  /\ sender = NoSend
  /\ \E kind \in {"webhook", "browser"} :
       sender' = [kind |-> kind, left |-> 3, sign |-> Signatures(conf), after |-> TRUE,
                  subs |-> conf.subs, gone |-> {}]
  /\ UNCHANGED <<conf, disk, form, call, outside, promise, meant, released, unverified, made, faults>>

Retry == sender' = IF sender.left = 1 THEN NoSend ELSE [sender EXCEPT !.left = @ - 1]
\* One attempt of send_webhooks: it is lost, verified, or refused and sent again
\* with the same signatures.
Attempt ==
  /\ sender.kind = "webhook"
  /\ \/ Fault /\ Retry /\ UNCHANGED unverified
     \/ held \in sender.sign \cup {0} /\ sender' = NoSend /\ UNCHANGED <<faults, unverified>>
     \/ /\ held \notin sender.sign \cup {0} /\ Retry /\ UNCHANGED faults
        /\ unverified' = (unverified \/ (promise.holds /\ sender.after /\ held \in {promise.old, promise.new}))
  /\ UNCHANGED <<conf, disk, form, call, outside, promise, meant, released, made>>
\* send_browser_push: one subscription of the copy, then the next.
PushBrowser(e) ==
  /\ sender.kind = "browser" /\ e \in sender.subs
  /\ \/ e \in Range(browser) /\ sender' = [sender EXCEPT !.subs = @ \ {e}] /\ UNCHANGED faults
     \/ e \notin Range(browser) /\ sender' = [sender EXCEPT !.subs = @ \ {e}, !.gone = @ \cup {e}] /\ UNCHANGED faults
     \/ Fault /\ sender' = [sender EXCEPT !.subs = @ \ {e}]
  /\ UNCHANGED <<conf, disk, form, call, outside, promise, meant, released, unverified, made>>
\* What was gone is removed from the settings as they are by now.
Prune ==
  /\ sender.kind = "browser" /\ sender.subs = {} /\ sender' = NoSend
  /\ IF sender.gone = {} THEN UNCHANGED <<conf, disk, faults>>
     ELSE Update(Without(sender.gone)) \/ UpdateFails(Without(sender.gone))
  /\ UNCHANGED <<form, call, outside, promise, meant, released, unverified, made>>

----------------------------------------------------------------------------
\* An hour passes; who runs the receiver does not let the overlap pass.
Tick ==
  /\ now < MaxTime /\ now' = now + 1
  /\ promise.holds /\ now' > promise.until => held = promise.new
  /\ UNCHANGED <<conf, disk, form, call, sender, held, browser, promise, meant, released, unverified, made, faults>>
\* What the file holds is what counts after a restart.
RestartSettings ==
  /\ Fault /\ conf' = disk /\ call' = [t \in Tabs |-> Closed] /\ sender' = NoSend
  /\ meant' = disk.key /\ promise' = [promise EXCEPT !.holds = @ /\ disk.key = conf.key]
  /\ UNCHANGED <<disk, form, outside, released, unverified, made>>

SettingsNext ==
  \/ \E t \in Tabs : OpenForm(t) \/ Reveal(t) \/ Post(t) \/ SaveForm(t)
  \/ \E b \in Browsers : subscribe_browser_push(b) \/ unsubscribe_browser_push(b) \/ DropEndpoint(b)
  \/ \E e \in 1..MaxMade : PushBrowser(e)
  \/ RotateSecret \/ TakeUp \/ BeginSend \/ Attempt \/ Prune \/ Tick \/ RestartSettings

----------------------------------------------------------------------------
\* The secret in use is the one somebody entered last: no page that hid it, no
\* subscription and no delivery that ends late brings another one back.
SecretMeant == conf.key = meant
\* Through a rotation the receiver can verify what is sent from then on, with
\* the old secret as long as both are used and with the new one.
Verifiable == ~unverified
\* A browser that subscribed stays subscribed until it leaves or is pushed out,
\* whatever pages, other browsers and deliveries write meanwhile.
StaySubscribed == \A b \in Browsers : browser[b] \in conf.subs \cup released \cup {0}

\* Pages that post an old form, rotations, browsers and deliveries: each finds
\* what it meant in the settings afterwards.
SettingsHold == SecretMeant /\ Verifiable /\ StaySubscribed
=============================================================================

------------------------------- MODULE Outbox -------------------------------
(***************************************************************************)
(* From a domain write to the bell on a member's page, in one organization:*)
(* the outbox and its drains (internal/notifications), the hub             *)
(* (internal/realtime) and the streams of server-sent events it feeds, and *)
(* the pages that listen to them (use-notification-stream).                *)
(*                                                                         *)
(* Nothing drains the outbox on its own: the request that wrote an entry   *)
(* does it after its commit.  Publish holds the hub's read lock for its    *)
(* whole fan-out, so it is one step here; Unsubscribe and Shutdown change  *)
(* the map under the lock and close channels after it.                     *)
(***************************************************************************)
EXTENDS Naturals, FiniteSets

CONSTANTS Entries, Users, Endpoints,
          Guests,     \* the users whose membership changes
          Switched,   \* the endpoints that are created, updated and deleted
          Changes,    \* bound: settings that are off at the same time
          Optional,   \* the <<user, channel>> pairs that are switched on and off
          NoUser,     \* the actor of a system event
          Actors,     \* who may cause an event: users, or NoUser
          Requests,   \* requests being served at the same time
          Batch,      \* entries a drain claims at most: 100 in the code
          Tabs,       \* open pages
          Owner,      \* per tab: its user
          Buffer      \* the size of a subscriber's channel: 32 in the code

ASSUME OutboxAssumption == /\ Batch \in Nat \ {0} /\ Buffer \in Nat \ {0}
                           /\ NoUser \notin Users /\ Actors \subseteq Users \cup {NoUser} /\ Guests \subseteq Users
                           /\ Switched \subseteq Endpoints
                           /\ Owner \in [Tabs -> Users]

Channels == {"in_app", "email"}   \* drainChannels

VARIABLES
  entry,    \* per entry: "none", "pending", "done", "purged"
  by,       \* per entry: its actor
  member,   \* users with an unexpired grant
  muted,    \* <<user, channel>> pairs that are switched off
  active,   \* webhook endpoints that exist and are active
  rows,     \* notifications: <<entry, user, channel>>
  hooks,    \* webhook_deliveries: <<entry, endpoint>>
  req,      \* per request: the drain it owes or has under way
  cut,      \* history: a request ended before its drain had committed
  pushed,   \* history: per <<entry, user>>: how often its row was published
  hub, subs, doomed, buf, chan, stream, page

tables == <<entry, by, member, muted, active, rows, hooks>>
\* hub: "up", "done" (the done channel is closed), "swept"; subs: the tabs in
\* its map; doomed: those whose channel Shutdown has still to close; buf: what a tab's channel holds; chan: the
\* channel is "none", "open", "closed" or "panic"; stream: the handler is
\* "off", "on" or "leaving" (unsubscribed, its channel still to close);
\* page: the list shown is "fresh" or "stale".
live == <<hub, subs, doomed, buf, chan, stream, page>>
vars == <<tables, req, cut, pushed, live>>

Idle == [at |-> "idle", claim |-> {}, made |-> {}, calls |-> {}]
At(r, p) == req[r].at = p
Go(r, q) == req' = [req EXCEPT ![r] = q]
Pending == {e \in Entries : entry[e] = "pending"}
Locked == UNION {req[r].claim : r \in Requests}
InApp(N) == {<<n[1], n[2]>> : n \in {k \in N : k[3] = "in_app"}}

-----------------------------------------------------------------------------
(* Members, preferences, endpoints, and the domain writes.                 *)

Off == Cardinality(Users \ member) + Cardinality(muted) + Cardinality(Endpoints \ active)

\* A role is granted, revoked or expires.
Membership(u) ==
  /\ u \in Guests /\ (u \in member => Off < Changes)
  /\ member' = IF u \in member THEN member \ {u} ELSE member \cup {u}
  /\ UNCHANGED <<entry, by, muted, active, rows, hooks, req, cut, pushed, live>>

\* The row there is, or a new one: on a conflict it is updated.
Set(u, ch, enabled) == IF enabled THEN muted \ {<<u, ch>>} ELSE muted \cup {<<u, ch>>}

\* GetUserPreference.
IsMuted(u, ch) == <<u, ch>> \in muted

\* UpsertPreference: the last writer wins.
UpsertPreference(u, ch) ==
  /\ <<u, ch>> \in Optional /\ (IsMuted(u, ch) \/ Off < Changes)
  /\ muted' = Set(u, ch, IsMuted(u, ch))
  /\ UNCHANGED <<entry, by, member, active, rows, hooks, req, cut, pushed, live>>

\* CreateWebhookEndpoint, DeleteWebhookEndpoint.
EndpointAdded(h) == active \cup {h}
EndpointRemoved(h) == active \ {h}

\* Create, UpdateActive and Delete of a webhook endpoint.
Toggle(h) ==
  /\ h \in Switched /\ (h \in active => Off < Changes)
  /\ active' = IF h \in active THEN EndpointRemoved(h) ELSE EndpointAdded(h)
  /\ UNCHANGED <<entry, by, member, muted, rows, hooks, req, cut, pushed, live>>

\* The commit of a domain transaction, with its outbox entry.
Write(r, e, u) ==
  /\ At(r, "idle") /\ entry[e] = "none"
  /\ entry' = [entry EXCEPT ![e] = "pending"] /\ by' = [by EXCEPT ![e] = u]
  /\ Go(r, [Idle EXCEPT !.at = "due"])
  /\ UNCHANGED <<member, muted, active, rows, hooks, cut, pushed, live>>

-----------------------------------------------------------------------------
(* DrainOutbox.                                                            *)

\* Mutant: a drain gives way to one that is under way.
ClaimsAlone(S) == S = IF Locked = {} THEN Pending ELSE {}

\* DrainOutboxEntries: up to Batch of the entries nobody has locked.
Claims(S) == /\ S \subseteq Pending \ Locked /\ Cardinality(S) <= Batch
             /\ S = Pending \ Locked \/ Cardinality(S) = Batch

\* The claim; a drain with nothing to do is over.
Claim(r, S) ==
  /\ At(r, "due") /\ Claims(S)
  /\ Go(r, IF S = {} THEN Idle ELSE [Idle EXCEPT !.at = "claimed", !.claim = S])
  /\ UNCHANGED <<tables, cut, pushed, live>>

\* Mutant: a preference is found by user, whatever its channel.
WantsAll(u, ch) == \A c \in Channels : <<u, c>> \notin muted

\* GetNotificationPreferencesForEvent: a missing row means enabled.
Wants(u, ch) == <<u, ch>> \notin muted

\* GetOrgMembersForNotification, and the filter on the actor.
Recipients(e) == member \ {by[e]}

\* The rows for entry e, on the channels its recipients want.
FanOut(e) == {<<e, x[1], x[2]>> : x \in {y \in Recipients(e) \X Channels : Wants(y[1], y[2])}}

\* GetActiveWebhookEndpointsForOrg: a delivery of each entry to each of them.
Deliveries(C) == C \X active

\* CreateNotification and CreateWebhookDelivery, ON CONFLICT DO NOTHING.
Insert(r) ==
  LET C == req[r].claim IN
  /\ At(r, "claimed")
  /\ Go(r, [req[r] EXCEPT !.at = "inserted", !.made = (UNION {FanOut(e) : e \in C}) \ rows,
                          !.calls = Deliveries(C)])
  /\ UNCHANGED <<tables, cut, pushed, live>>

\* MarkOutboxEntryProcessed of every claimed entry, and the commit.
Commit(r) ==
  LET q == req[r]  new == InApp(q.made) IN
  /\ At(r, "inserted")
  /\ rows' = rows \cup q.made /\ hooks' = hooks \cup q.calls
  /\ entry' = [e \in Entries |-> IF e \in q.claim THEN "done" ELSE entry[e]]
  /\ page' = [t \in Tabs |-> IF \E x \in new : x[2] = Owner[t] THEN "stale" ELSE page[t]]
  /\ Go(r, [q EXCEPT !.at = "committed", !.claim = {}])
  /\ UNCHANGED <<by, member, muted, active, cut, pushed, hub, subs, doomed, buf, chan, stream>>

\* A statement fails, the request is cancelled, the drain's deadline passes,
\* the process ends: what was not committed is rolled back.
Cut(r) ==
  /\ ~At(r, "idle")
  /\ Go(r, Idle)
  /\ cut' = (cut \/ ~At(r, "committed"))
  /\ UNCHANGED <<tables, pushed, live>>

\* Mutant: rows are announced before they are committed.
Announces(r) == At(r, "inserted") \/ At(r, "committed")

\* "publish-after-commit".
Committed(r) == At(r, "committed")

\* Publish a row this drain created: a full or missing channel drops it.
Publish(r, x) ==
  LET T == {t \in subs : Owner[t] = x[2] /\ Cardinality(buf[t]) < Buffer} IN
  /\ Committed(r) /\ x \in InApp(req[r].made) /\ pushed[x] < 2
  /\ pushed' = [pushed EXCEPT ![x] = @ + 1]
  /\ buf' = [t \in Tabs |-> IF t \in T /\ chan[t] = "open" THEN buf[t] \cup {x} ELSE buf[t]]
  /\ chan' = [t \in Tabs |-> IF t \in T /\ chan[t] = "closed" THEN "panic" ELSE chan[t]]
  /\ Go(r, [req[r] EXCEPT !.made = {n \in @ : <<n[1], n[2]>> # x \/ n[3] # "in_app"}])
  /\ UNCHANGED <<tables, cut, hub, subs, doomed, stream, page>>

\* The request has published everything it created.
Answered(r) ==
  /\ At(r, "committed") /\ InApp(req[r].made) = {}
  /\ Go(r, Idle)
  /\ UNCHANGED <<tables, cut, pushed, live>>

-----------------------------------------------------------------------------
(* Retention.                                                              *)

\* DeleteOldProcessedOutboxEntries; ON DELETE CASCADE.
Purge(e) ==
  /\ entry[e] = "done"
  /\ entry' = [entry EXCEPT ![e] = "purged"]
  /\ rows' = {n \in rows : n[1] # e} /\ hooks' = {n \in hooks : n[1] # e}
  /\ UNCHANGED <<by, member, muted, active, req, cut, pushed, live>>

-----------------------------------------------------------------------------
(* The hub and the streams.                                                *)

\* Subscribe, which does not ask whether the hub is down.  A tab stands for
\* one connection at a time.
Connect(t) ==
  /\ stream[t] = "off" /\ t \notin doomed
  /\ stream' = [stream EXCEPT ![t] = "on"]
  /\ subs' = subs \cup {t}
  /\ chan' = [chan EXCEPT ![t] = "open"] /\ buf' = [buf EXCEPT ![t] = {}]
  /\ UNCHANGED <<tables, req, cut, pushed, hub, doomed, page>>

\* EventSource: the server's frames are named "notification"; onmessage gets
\* those without a name, and the page listens for "auth_error" besides.
FrameName == "notification"
Heard == {"message", "auth_error"}

\* The handler writes a frame for an event; the page invalidates its list if
\* it hears of it.
Frame(t, x) ==
  /\ stream[t] = "on" /\ x \in buf[t]
  /\ buf' = [buf EXCEPT ![t] = @ \ {x}]
  /\ page' = IF FrameName \in Heard THEN [page EXCEPT ![t] = "fresh"] ELSE page
  /\ UNCHANGED <<tables, req, cut, pushed, hub, subs, doomed, chan, stream>>

\* Mutant: the handler does not select on the hub's done channel.
SeesClosed(t) == chan[t] = "closed" /\ buf[t] = {}

\* The select: the channel was closed and emptied, or hub.Done().
SeesEnd(t) == (chan[t] = "closed" /\ buf[t] = {}) \/ hub # "up"

\* Mutant: a channel is closed whether or not it was still in the map.
MineAnyway(t) == TRUE

\* found: the channel is still in the map, so Unsubscribe is the one to close it.
Mine(t) == t \in subs

\* The deferred Unsubscribe: out of the map ...
Leave(t) ==
  /\ stream[t] = "on"
  /\ stream' = [stream EXCEPT ![t] = IF Mine(t) THEN "leaving" ELSE "off"]
  /\ subs' = subs \ {t}
  /\ UNCHANGED <<tables, req, cut, pushed, hub, doomed, buf, chan, page>>

\* ... because the client went away, or because the server does.
Disconnect(t) == Leave(t)
End(t) == SeesEnd(t) /\ Leave(t)

Close(t) == chan' = [chan EXCEPT ![t] = IF @ = "open" THEN "closed" ELSE "panic"]

\* ... then the channel is closed.
CloseOwn(t) ==
  /\ stream[t] = "leaving"
  /\ Close(t) /\ stream' = [stream EXCEPT ![t] = "off"]
  /\ UNCHANGED <<tables, req, cut, pushed, hub, subs, doomed, buf, page>>

\* Shutdown: the done channel first, ...
StopHub ==
  /\ hub = "up" /\ hub' = "done"
  /\ UNCHANGED <<tables, req, cut, pushed, subs, doomed, buf, chan, stream, page>>

\* ... then the channels are collected and the map emptied, ...
Sweep ==
  /\ hub = "done" /\ hub' = "swept"
  /\ doomed' = subs /\ subs' = {}
  /\ UNCHANGED <<tables, req, cut, pushed, buf, chan, stream, page>>

\* ... and closed outside the lock.
CloseSwept(t) ==
  /\ t \in doomed /\ doomed' = doomed \ {t}
  /\ Close(t)
  /\ UNCHANGED <<tables, req, cut, pushed, hub, subs, buf, stream, page>>

\* The page is focused or mounted again and fetches its list.
Refetch(t) ==
  /\ page[t] = "stale" /\ page' = [page EXCEPT ![t] = "fresh"]
  /\ UNCHANGED <<tables, req, cut, pushed, hub, subs, doomed, buf, chan, stream>>

-----------------------------------------------------------------------------

Init == /\ entry = [e \in Entries |-> "none"] /\ by = [e \in Entries |-> NoUser]
        /\ member = Users /\ muted = {} /\ active = Endpoints
        /\ rows = {} /\ hooks = {}
        /\ req = [r \in Requests |-> Idle] /\ cut = FALSE
        /\ pushed = [x \in Entries \X Users |-> 0]
        /\ hub = "up" /\ subs = {} /\ doomed = {}
        /\ buf = [t \in Tabs |-> {}] /\ chan = [t \in Tabs |-> "none"]
        /\ stream = [t \in Tabs |-> "off"] /\ page = [t \in Tabs |-> "fresh"]

Works(r) == \/ \E S \in SUBSET Entries : Claim(r, S)
            \/ Insert(r) \/ Commit(r) \/ Answered(r)
            \/ \E x \in Entries \X Users : Publish(r, x)
Serves(t) == End(t) \/ CloseOwn(t)
Hears(t) == \E x \in Entries \X Users : Frame(t, x)
Closes == Sweep \/ \E t \in Tabs : CloseSwept(t)

Next ==
  \/ \E u \in Users : Membership(u) \/ \E ch \in Channels : UpsertPreference(u, ch)
  \/ \E h \in Endpoints : Toggle(h)
  \/ \E r \in Requests : Works(r) \/ Cut(r)
                          \/ \E e \in Entries, u \in Actors : Write(r, e, u)
  \/ \E e \in Entries : Purge(e)
  \/ \E t \in Tabs : Connect(t) \/ Disconnect(t) \/ Serves(t) \/ Hears(t) \/ Refetch(t)
  \/ StopHub \/ Closes

\* A request, a handler and a shutdown that can go on do.
Fairness == /\ \A r \in Requests : WF_vars(Works(r))
            /\ \A t \in Tabs : WF_vars(Serves(t)) /\ WF_vars(Hears(t))
            /\ WF_vars(Closes)
Spec == Init /\ [][Next]_vars
FairSpec == Spec /\ Fairness

-----------------------------------------------------------------------------
(* Properties.                                                             *)

\* "Only called after the DB transaction commits": a row is published at most
\* once, and only when it is in the inbox, whatever drains are rolled back
\* and repeated (DrainOutbox, publish-after-commit).
AnnouncedOnce == \A x \in Entries \X Users :
  /\ pushed[x] <= 1
  /\ pushed[x] = 1 => entry[x[1]] = "purged" \/ <<x[1], x[2], "in_app">> \in rows

\* An entry marked processed has reached everyone who was a member and wanted
\* it all along, on each channel, but its actor, and has a delivery for every
\* endpoint that was active all along (the fan-out of DrainOutbox).
MembersReached == \A e \in Entries, u \in Users \ Guests, ch \in Channels :
  entry[e] = "done" /\ u # by[e] /\ <<u, ch>> \notin Optional => <<e, u, ch>> \in rows
EndpointsCalled == \A e \in Entries, h \in Endpoints \ Switched :
  entry[e] = "done" => <<e, h>> \in hooks
NoneMissed == MembersReached /\ EndpointsCalled

\* No send on a closed channel, no second close: Unsubscribe, Shutdown and
\* Publish agree on who closes a channel and when ("Safe to call concurrently").
NoPanic == \A t \in Tabs : chan[t] # "panic"

\* Every entry is drained unless some request broke off: concurrent drains,
\* which skip each other's entries, leave none between them ("SKIP LOCKED:
\* concurrent drains on same org skip").
Drained == \A e \in Entries : entry[e] = "pending" ~> entry[e] # "pending" \/ cut

\* A shutdown ends every stream, even one that subscribed after it
\* (TestStream_SubscribeAfterShutdown_ImmediateDisconnect).
StreamsEnd == \A t \in Tabs : hub # "up" ~> stream[t] = "off"

\* "useNotificationStream" invalidates the list on an event: an event on its
\* way to an open page makes it fetch the list.
Heeded == \A t \in Tabs : buf[t] # {} /\ stream[t] = "on" ~> page[t] = "fresh" \/ stream[t] # "on"
=============================================================================

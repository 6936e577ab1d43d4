---------------------------- MODULE OutboxProofs ----------------------------
(***************************************************************************)
(* Proofs about Outbox, for any entries, members, requests and open pages: *)
(* the closing of the channels, the announcement of the rows, and the      *)
(* fan-out.  Each has an invariant of its own.                             *)
(***************************************************************************)
EXTENDS Outbox, TLAPS

-----------------------------------------------------------------------------
(* Who closes a channel.                                                   *)

streamVars == <<hub, subs, doomed, chan, stream>>

\* A channel has at most one closer: the handler that found it in the map,
\* or the shutdown that swept it from there.
ClosersAgree(t) ==
  /\ t \in subs => chan[t] = "open" /\ stream[t] = "on" /\ t \notin doomed
  /\ t \in doomed => chan[t] = "open" /\ stream[t] # "leaving"
  /\ stream[t] = "leaving" => chan[t] = "open"
  /\ chan[t] # "panic"

HubSound == /\ chan \in [Tabs -> {"none", "open", "closed", "panic"}]
            /\ stream \in [Tabs -> {"off", "on", "leaving"}]
            /\ \A t \in Tabs : ClosersAgree(t)

LEMMA HubInit == Init => HubSound
BY DEF Init, HubSound, ClosersAgree

LEMMA LeaveStep ==
  ASSUME HubSound, NEW t \in Tabs, Leave(t)
  PROVE  HubSound'
<1>1. /\ stream' = [stream EXCEPT ![t] = IF t \in subs THEN "leaving" ELSE "off"]
      /\ subs' = subs \ {t} /\ UNCHANGED <<doomed, chan>>
  BY DEF Leave, Mine
<1> QED BY <1>1 DEF HubSound, ClosersAgree

LEMMA HubStep == HubSound /\ [Next]_vars => HubSound'
<1> SUFFICES ASSUME HubSound, [Next]_vars PROVE HubSound'
  OBVIOUS
<1>1. CASE UNCHANGED streamVars
  BY <1>1 DEF streamVars, HubSound, ClosersAgree
<1>2. ASSUME NEW r \in Requests, NEW x \in Entries \X Users, Publish(r, x) PROVE HubSound'
  <2>1. chan' = chan
    <3>1. \A t \in subs \cap Tabs : chan[t] # "closed"
      BY DEF HubSound, ClosersAgree
    <3>2. chan' = [t \in Tabs |-> chan[t]]
      BY <1>2, <3>1 DEF Publish
    <3> QED BY <3>2 DEF HubSound
  <2> QED BY <1>1, <1>2, <2>1 DEF Publish, streamVars
<1>3. ASSUME NEW t \in Tabs, Connect(t) PROVE HubSound'
  BY <1>3 DEF Connect, HubSound, ClosersAgree
<1>4. ASSUME NEW t \in Tabs, Disconnect(t) \/ End(t) PROVE HubSound'
  BY <1>4, LeaveStep DEF Disconnect, End
<1>5. ASSUME NEW t \in Tabs, CloseOwn(t) PROVE HubSound'
  BY <1>5 DEF CloseOwn, Close, HubSound, ClosersAgree
<1>6. CASE Sweep
  BY <1>6 DEF Sweep, HubSound, ClosersAgree
<1>7. ASSUME NEW t \in Tabs, CloseSwept(t) PROVE HubSound'
  BY <1>7 DEF CloseSwept, Close, HubSound, ClosersAgree
<1>8. CASE StopHub
  BY <1>8 DEF StopHub, HubSound, ClosersAgree
<1> QED BY <1>1, <1>2, <1>3, <1>4, <1>5, <1>6, <1>7, <1>8
        DEF Next, Works, Serves, Hears, Closes, vars, live, streamVars, Membership, UpsertPreference, Toggle,
            Write, Claim, Insert, Commit, Cut, Answered, Purge, Frame, Refetch

\* "Safe to call concurrently": no send on a closed channel and no second
\* close, however Subscribe, Unsubscribe, Publish and Shutdown meet.
THEOREM NeverPanics == Spec => []NoPanic
<1>1. HubSound => NoPanic
  BY DEF HubSound, ClosersAgree, NoPanic
<1> QED BY <1>1, HubInit, HubStep, PTL DEF Spec

-----------------------------------------------------------------------------
(* Drains: what a request has claimed and made.                            *)

Row == Entries \X Users \X Channels
Drain == [at : {"idle", "due", "claimed", "inserted", "committed"}, claim : SUBSET Entries,
          made : SUBSET Row, calls : SUBSET (Entries \X Endpoints)]

DrainTyped == /\ entry \in [Entries -> {"none", "pending", "done", "purged"}]
              /\ by \in [Entries -> Users \cup {NoUser}]
              /\ member \subseteq Users /\ active \subseteq Endpoints
              /\ rows \subseteq Row
              /\ req \in [Requests -> Drain]
              /\ pushed \in [Entries \X Users -> Nat]

\* The entries that request r has in hand.
InHand(r) == req[r].claim \cup {n[1] : n \in req[r].made}

\* A claim is of pending entries; rows are made of claimed entries first, of
\* processed ones after the commit, and are then in the inbox.
StageFits(r) ==
  /\ req[r].at \in {"claimed", "inserted"} => \A e \in req[r].claim : entry[e] = "pending"
  /\ req[r].at \notin {"claimed", "inserted"} => req[r].claim = {}
  /\ req[r].at \notin {"inserted", "committed"} => req[r].made = {}
  /\ req[r].at = "inserted" => \A n \in req[r].made : n[1] \in req[r].claim
  /\ req[r].at = "committed" => \A n \in req[r].made :
        entry[n[1]] = "purged" \/ (entry[n[1]] = "done" /\ n \in rows)

\* FOR UPDATE SKIP LOCKED.
OneDrainEach == \A r, s \in Requests : r # s => InHand(r) \cap InHand(s) = {}

\* Nothing is announced that a request has still to announce, or to commit.
NotYetPushed ==
  /\ \A r \in Requests : \A x \in InApp(req[r].made) : pushed[x] = 0
  /\ \A e \in Entries, u \in Users : entry[e] \in {"none", "pending"} => pushed[<<e, u>>] = 0

DrainSound == /\ DrainTyped /\ (\A r \in Requests : StageFits(r)) /\ OneDrainEach
              /\ NotYetPushed /\ AnnouncedOnce

drainVars == <<entry, by, rows, req, pushed>>

LEMMA DrainInit == Init => DrainSound
<1> SUFFICES ASSUME Init PROVE DrainSound
  OBVIOUS
<1>1. \A r \in Requests : req[r] = [at |-> "idle", claim |-> {}, made |-> {}, calls |-> {}]
  BY DEF Init, Idle
<1>2. DrainTyped
  BY DEF Init, DrainTyped, Drain, Idle
<1>3. /\ \A r \in Requests : StageFits(r)
      /\ OneDrainEach
  BY <1>1 DEF StageFits, OneDrainEach, InHand
<1>4. NotYetPushed /\ AnnouncedOnce
  BY <1>1 DEF Init, NotYetPushed, AnnouncedOnce, InApp
<1> QED BY <1>2, <1>3, <1>4 DEF DrainSound

\* Members, endpoints and settings are read by a drain; no drain depends on them afterwards.
LEMMA OthersStep ==
  ASSUME DrainSound, UNCHANGED drainVars, member' \subseteq Users, active' \subseteq Endpoints
  PROVE  DrainSound'
<1>1. DrainTyped'
  BY DEF DrainSound, DrainTyped, drainVars
<1>2. \A r \in Requests : StageFits(r)'
  BY DEF DrainSound, StageFits, drainVars
<1>3. OneDrainEach'
  BY DEF DrainSound, OneDrainEach, InHand, drainVars
<1>4. NotYetPushed' /\ AnnouncedOnce'
  BY DEF DrainSound, NotYetPushed, AnnouncedOnce, InApp, drainVars
<1> QED BY <1>1, <1>2, <1>3, <1>4 DEF DrainSound

\* A request takes a step of its own and the tables stay as they are: what it
\* has in hand must be its own, of its stage, and not announced.
LEMMA OwnStep ==
  ASSUME DrainSound, NEW r \in Requests, NEW q \in Drain, Go(r, q),
         UNCHANGED <<entry, by, rows, pushed, member, active>>,
         StageFits(r)',
         \A s \in Requests \ {r} : (q.claim \cup {n[1] : n \in q.made}) \cap InHand(s) = {},
         \A x \in InApp(q.made) : pushed[x] = 0
  PROVE  DrainSound'
<1>0. /\ req' = [req EXCEPT ![r] = q] /\ req \in [Requests -> Drain]
      /\ req'[r] = q /\ \A s \in Requests \ {r} : req'[s] = req[s]
  BY DEF Go, DrainSound, DrainTyped
<1>1. DrainTyped'
  BY <1>0 DEF DrainSound, DrainTyped
<1>2. \A s \in Requests : StageFits(s)'
  <2>1. \A s \in Requests \ {r} : StageFits(s)'
    BY <1>0 DEF DrainSound, StageFits
  <2> QED BY <2>1
<1>3. OneDrainEach'
  BY <1>0 DEF DrainSound, OneDrainEach, InHand
<1>4. NotYetPushed'
  <2>1. \A s \in Requests : \A x \in InApp(req'[s].made) : pushed[x] = 0
    BY <1>0 DEF DrainSound, NotYetPushed
  <2> QED BY <2>1 DEF DrainSound, NotYetPushed, InApp
<1>5. AnnouncedOnce'
  BY DEF DrainSound, AnnouncedOnce
<1> QED BY <1>1, <1>2, <1>3, <1>4, <1>5 DEF DrainSound

LEMMA EndStep ==
  ASSUME DrainSound, NEW r \in Requests, NEW q \in {Idle, [Idle EXCEPT !.at = "due"]}, Go(r, q),
         UNCHANGED <<entry, by, rows, pushed, member, active>>
  PROVE  DrainSound'
<1>1. /\ q \in Drain /\ q.claim = {} /\ q.made = {} /\ q.at \in {"idle", "due"}
  BY DEF Drain, Idle
<1>2. req'[r] = q
  BY DEF Go, DrainSound, DrainTyped
<1>3. StageFits(r)'
  BY <1>1, <1>2 DEF StageFits
<1>4. InApp(q.made) = {}
  BY <1>1 DEF InApp
<1>5. (q.claim \cup {n[1] : n \in q.made}) = {}
  BY <1>1
<1> QED BY <1>1, <1>3, <1>4, <1>5, OwnStep

LEMMA WriteStep ==
  ASSUME DrainSound, NEW r \in Requests, NEW e \in Entries, NEW u \in Actors, Write(r, e, u)
  PROVE  DrainSound'
<1>0. /\ entry[e] = "none" /\ entry' = [entry EXCEPT ![e] = "pending"]
      /\ by' = [by EXCEPT ![e] = u] /\ u \in Users \cup {NoUser}
      /\ req' = [req EXCEPT ![r] = [Idle EXCEPT !.at = "due"]]
      /\ UNCHANGED <<rows, pushed, member, active>>
  BY OutboxAssumption DEF Write, Go
<1>1. /\ [Idle EXCEPT !.at = "due"] = [at |-> "due", claim |-> {}, made |-> {}, calls |-> {}]
      /\ req \in [Requests -> Drain]
  <2>1. [Idle EXCEPT !.at = "due"] = [at |-> "due", claim |-> {}, made |-> {}, calls |-> {}]
    BY DEF Idle
  <2>2. req \in [Requests -> Drain]
    BY DEF DrainSound, DrainTyped
  <2> QED BY <2>1, <2>2
<1>2. DrainTyped'
  BY <1>0, <1>1 DEF DrainSound, DrainTyped, Drain
<1>3. \A s \in Requests : StageFits(s)'
  <2> SUFFICES ASSUME NEW s \in Requests PROVE StageFits(s)'
    OBVIOUS
  <2>1. CASE s = r
    BY <1>0, <1>1, <2>1 DEF StageFits
  <2>2. CASE s # r
    <3>1. req'[s] = req[s] /\ req[s] \in Drain /\ StageFits(s)
      BY <1>0, <1>1, <2>2 DEF DrainSound
    <3>2. \A d \in Entries : d # e => entry'[d] = entry[d]
      BY <1>0 DEF DrainSound, DrainTyped
    <3> QED BY <1>0, <3>1, <3>2 DEF StageFits, Drain, Row
  <2> QED BY <2>1, <2>2
<1>4. OneDrainEach'
  BY <1>0, <1>1 DEF DrainSound, OneDrainEach, InHand
<1>5. NotYetPushed'
  <2>1. \A s \in Requests : \A x \in InApp(req'[s].made) : pushed[x] = 0
    BY <1>0, <1>1 DEF DrainSound, NotYetPushed, InApp
  <2>2. \A d \in Entries, v \in Users : entry'[d] \in {"none", "pending"} => pushed[<<d, v>>] = 0
    BY <1>0 DEF DrainSound, DrainTyped, NotYetPushed
  <2> QED BY <1>0, <2>1, <2>2 DEF NotYetPushed, InApp
<1>6. AnnouncedOnce'
  BY <1>0 DEF DrainSound, DrainTyped, NotYetPushed, AnnouncedOnce
<1> QED BY <1>2, <1>3, <1>4, <1>5, <1>6 DEF DrainSound

\* SKIP LOCKED: what is pending and not locked is in nobody's hand.
LEMMA ClaimStep ==
  ASSUME DrainSound, NEW r \in Requests, NEW S \in SUBSET Entries, Claim(r, S)
  PROVE  DrainSound'
<1>0. At(r, "due") /\ Claims(S) /\ UNCHANGED <<entry, by, rows, pushed, member, active>>
  BY DEF Claim, tables
<1>1. CASE S = {}
  BY <1>0, <1>1, EndStep DEF Claim
<1>2. CASE S # {}
  <2> DEFINE q == [Idle EXCEPT !.at = "claimed", !.claim = S]
  <2>5. q.at = "claimed" /\ q.claim = S /\ q.made = {} /\ q \in Drain
    BY DEF Idle, Drain
  <2> HIDE DEF q
  <2>1. Go(r, q) /\ req'[r] = q
    <3>1. Go(r, q)
      BY <1>2 DEF Claim, q
    <3> QED BY <3>1 DEF Go, DrainSound, DrainTyped
  <2>2. \A e \in S : entry[e] = "pending"
    BY <1>0 DEF Claims, Pending
  <2>3. StageFits(r)'
    BY <1>0, <2>1, <2>2, <2>5 DEF StageFits
  <2>4. \A s \in Requests \ {r} : S \cap InHand(s) = {}
    <3> SUFFICES ASSUME NEW s \in Requests, NEW e \in S, e \in InHand(s) PROVE FALSE
      OBVIOUS
    <3>1. e \notin req[s].claim
      BY <1>0 DEF Claims, Locked
    <3>2. PICK n \in req[s].made : n[1] = e
      BY <3>1 DEF InHand
    <3>3. StageFits(s)
      BY DEF DrainSound
    <3>4. req[s].at \in {"inserted", "committed"}
      BY <3>2, <3>3 DEF StageFits
    <3> QED BY <2>2, <3>1, <3>2, <3>3, <3>4 DEF StageFits
  <2>6. InApp(q.made) = {} /\ q.claim \cup {n[1] : n \in q.made} = S
    BY <2>5 DEF InApp
  <2> QED BY <1>0, <2>1, <2>3, <2>4, <2>5, <2>6, OwnStep
<1> QED BY <1>1, <1>2

LEMMA FanOutTyped ==
  ASSUME DrainSound, NEW e \in Entries
  PROVE  FanOut(e) \subseteq Row /\ \A n \in FanOut(e) : n[1] = e
BY DEF FanOut, Recipients, DrainSound, DrainTyped, Row

LEMMA InsertStep ==
  ASSUME DrainSound, NEW r \in Requests, Insert(r)
  PROVE  DrainSound'
<1> DEFINE C == req[r].claim
           M == (UNION {FanOut(e) : e \in C}) \ rows
           q == [req[r] EXCEPT !.at = "inserted", !.made = M, !.calls = Deliveries(C)]
<1>0. /\ At(r, "claimed") /\ Go(r, q)
      /\ UNCHANGED <<entry, by, rows, pushed, member, active>>
  BY DEF Insert, tables
<1>1. /\ req \in [Requests -> Drain] /\ req[r] \in Drain /\ C \subseteq Entries
      /\ active \subseteq Endpoints
  BY DEF DrainSound, DrainTyped, Drain
<1>2. M \subseteq Row /\ \A n \in M : n[1] \in C
  BY <1>1, FanOutTyped
<1>3. Deliveries(C) \subseteq Entries \X Endpoints
  BY <1>1 DEF Deliveries
<1>4. q \in Drain /\ q.at = "inserted" /\ q.claim = C /\ q.made = M
  <2> HIDE DEF M
  <2> QED BY <1>1, <1>2, <1>3 DEF Drain
<1> HIDE DEF q, M
<1>5. req'[r] = q
  BY <1>0, <1>1 DEF Go
<1>6. \A e \in C : entry[e] = "pending"
  BY <1>0 DEF DrainSound, StageFits, At
<1>7. StageFits(r)'
  BY <1>0, <1>2, <1>4, <1>5, <1>6 DEF StageFits
<1>8. \A s \in Requests \ {r} : (q.claim \cup {n[1] : n \in q.made}) \cap InHand(s) = {}
  <2>1. q.claim \cup {n[1] : n \in q.made} \subseteq InHand(r)
    BY <1>2, <1>4 DEF InHand
  <2> QED BY <2>1 DEF DrainSound, OneDrainEach
<1>9. \A x \in InApp(q.made) : pushed[x] = 0
  BY <1>1, <1>2, <1>4, <1>6 DEF DrainSound, NotYetPushed, InApp, Row
<1> QED BY <1>0, <1>4, <1>7, <1>8, <1>9, OwnStep

LEMMA CommitStep ==
  ASSUME DrainSound, NEW r \in Requests, Commit(r)
  PROVE  DrainSound'
<1> DEFINE q == [req[r] EXCEPT !.at = "committed", !.claim = {}]
<1>0. /\ At(r, "inserted") /\ Go(r, q)
      /\ rows' = rows \cup req[r].made
      /\ entry' = [e \in Entries |-> IF e \in req[r].claim THEN "done" ELSE entry[e]]
      /\ UNCHANGED <<by, pushed, member, active>>
  BY DEF Commit
<1>1. req \in [Requests -> Drain] /\ req[r] \in Drain
  BY DEF DrainSound, DrainTyped
<1>2. /\ \A e \in req[r].claim : entry[e] = "pending"
      /\ \A n \in req[r].made : n[1] \in req[r].claim
  BY <1>0 DEF DrainSound, StageFits, At
<1>3. /\ q \in Drain /\ q.at = "committed" /\ q.claim = {} /\ q.made = req[r].made
  BY <1>1 DEF Drain
<1> HIDE DEF q
<1>4. /\ req'[r] = q /\ \A s \in Requests \ {r} : req'[s] = req[s]
      /\ req' \in [Requests -> Drain]
  BY <1>0, <1>1, <1>3 DEF Go
<1>5. DrainTyped'
  BY <1>0, <1>1, <1>4 DEF DrainSound, DrainTyped, Drain
<1>6. \A s \in Requests : StageFits(s)'
  <2>1. StageFits(r)'
    BY <1>0, <1>1, <1>2, <1>3, <1>4 DEF StageFits, Drain
  <2>2. ASSUME NEW s \in Requests \ {r} PROVE StageFits(s)'
    <3>1. /\ StageFits(s) /\ req'[s] = req[s] /\ req[s] \in Drain
          /\ req[s].claim \cap req[r].claim = {}
      BY <1>1, <1>4 DEF DrainSound, OneDrainEach, InHand
    <3>2. ASSUME NEW n \in req[s].made, req[s].at = "committed"
          PROVE  entry'[n[1]] = "purged" \/ (entry'[n[1]] = "done" /\ n \in rows')
      <4>1. n[1] \in Entries
        BY <3>1 DEF Drain, Row
      <4> QED BY <1>0, <3>1, <3>2, <4>1, <1>2 DEF StageFits
    <3>3. \A e \in req[s].claim : entry'[e] = entry[e]
      BY <1>0, <3>1 DEF Drain
    <3> QED BY <3>1, <3>2, <3>3 DEF StageFits
  <2> QED BY <2>1, <2>2
<1>7. OneDrainEach'
  BY <1>3, <1>4 DEF DrainSound, OneDrainEach, InHand
<1>8. NotYetPushed'
  <2>1. \A s \in Requests : \A x \in InApp(req'[s].made) : pushed[x] = 0
    BY <1>3, <1>4 DEF DrainSound, NotYetPushed
  <2> QED BY <1>0, <2>1 DEF DrainSound, NotYetPushed, InApp
<1>9. AnnouncedOnce'
  <2> SUFFICES ASSUME NEW x \in Entries \X Users
               PROVE  /\ pushed[x] <= 1
                      /\ pushed[x] = 1 => entry'[x[1]] = "purged" \/ <<x[1], x[2], "in_app">> \in rows'
    BY <1>0 DEF AnnouncedOnce
  <2>1. x = <<x[1], x[2]>> /\ x[1] \in Entries /\ x[2] \in Users
    OBVIOUS
  <2>2. x[1] \in req[r].claim => pushed[x] = 0
    BY <1>2, <2>1 DEF DrainSound, NotYetPushed
  <2> QED BY <1>0, <2>1, <2>2 DEF DrainSound, AnnouncedOnce
<1> QED BY <1>5, <1>6, <1>7, <1>8, <1>9 DEF DrainSound

\* A row that is announced leaves what the request has still to announce.
LEMMA PublishStep ==
  ASSUME DrainSound, NEW r \in Requests, NEW x \in Entries \X Users, Publish(r, x)
  PROVE  DrainSound'
<1> DEFINE M == {n \in req[r].made : <<n[1], n[2]>> # x \/ n[3] # "in_app"}
           q == [req[r] EXCEPT !.made = M]
<1>0. /\ At(r, "committed") /\ x \in InApp(req[r].made) /\ Go(r, q)
      /\ pushed' = [pushed EXCEPT ![x] = @ + 1]
      /\ UNCHANGED <<entry, by, rows, member, active>>
  BY DEF Publish, Committed, tables
<1>1. req \in [Requests -> Drain] /\ req[r] \in Drain /\ M \subseteq req[r].made
  BY DEF DrainSound, DrainTyped
<1>2. InApp(M) = InApp(req[r].made) \ {x}
  <2>1. ASSUME NEW y \in InApp(M) PROVE y \in InApp(req[r].made) /\ y # x
    BY DEF InApp
  <2>2. ASSUME NEW y \in InApp(req[r].made), y # x PROVE y \in InApp(M)
    <3>1. PICK n \in req[r].made : n[3] = "in_app" /\ y = <<n[1], n[2]>>
      BY <2>2 DEF InApp
    <3> QED BY <2>2, <3>1 DEF InApp
  <2> QED BY <2>1, <2>2
<1>3. q \in Drain /\ q.at = req[r].at /\ q.claim = req[r].claim /\ q.made = M
  <2> HIDE DEF M
  <2> QED BY <1>1 DEF Drain
<1> HIDE DEF q, M
<1>4. /\ req'[r] = q /\ \A s \in Requests \ {r} : req'[s] = req[s]
      /\ req' \in [Requests -> Drain]
  BY <1>0, <1>1, <1>3 DEF Go
<1>5. PICK n \in req[r].made : n[3] = "in_app" /\ x = <<n[1], n[2]>>
  BY <1>0 DEF InApp
<1>6. /\ pushed[x] = 0
      /\ entry[n[1]] = "purged" \/ (entry[n[1]] = "done" /\ n \in rows)
  BY <1>0, <1>5 DEF DrainSound, NotYetPushed, StageFits, At
<1>7. pushed' \in [Entries \X Users -> Nat] /\ pushed'[x] = 1
      /\ \A y \in Entries \X Users : y # x => pushed'[y] = pushed[y]
  BY <1>0, <1>6 DEF DrainSound, DrainTyped
<1>8. DrainTyped'
  BY <1>0, <1>4, <1>7 DEF DrainSound, DrainTyped
<1>9. \A s \in Requests : StageFits(s)'
  BY <1>0, <1>1, <1>3, <1>4 DEF DrainSound, StageFits
<1>10. OneDrainEach'
  BY <1>1, <1>3, <1>4 DEF DrainSound, OneDrainEach, InHand
<1>11. NotYetPushed'
  <2>1. ASSUME NEW s \in Requests, NEW y \in InApp(req'[s].made) PROVE pushed'[y] = 0
    <3>1. y \in Entries \X Users
      BY <1>4 DEF Drain, Row, InApp
    <3>2. CASE s = r
      BY <1>2, <1>3, <1>4, <1>7, <2>1, <3>1, <3>2 DEF DrainSound, NotYetPushed
    <3>3. CASE s # r
      <4>1. y # x
        <5>1. y \in InApp(req[s].made)
          BY <1>4, <2>1, <3>3
        <5>2. y[1] \in InHand(s) /\ x[1] \in InHand(r)
          BY <5>1, <1>5 DEF InHand, InApp
        <5> QED BY <3>3, <5>2 DEF DrainSound, OneDrainEach
      <4> QED BY <1>4, <1>7, <2>1, <3>1, <3>3, <4>1 DEF DrainSound, NotYetPushed
    <3> QED BY <3>2, <3>3
  <2>2. \A e \in Entries, u \in Users : entry[e] \in {"none", "pending"} => <<e, u>> # x
    BY <1>5, <1>6
  <2>3. \A e \in Entries, u \in Users : entry[e] \in {"none", "pending"} => pushed'[<<e, u>>] = 0
    BY <1>7, <2>2 DEF DrainSound, NotYetPushed
  <2> QED BY <1>0, <2>1, <2>3 DEF NotYetPushed, InApp
<1>12. AnnouncedOnce'
  <2>1. n = <<n[1], n[2], "in_app">>
    BY <1>1, <1>5 DEF Drain, Row
  <2>2. entry[x[1]] = "purged" \/ <<x[1], x[2], "in_app">> \in rows
    BY <1>5, <1>6, <2>1
  <2> QED BY <1>0, <1>7, <2>2 DEF DrainSound, AnnouncedOnce
<1> QED BY <1>8, <1>9, <1>10, <1>11, <1>12 DEF DrainSound

LEMMA PurgeStep ==
  ASSUME DrainSound, NEW e \in Entries, Purge(e)
  PROVE  DrainSound'
<1>0. /\ entry[e] = "done" /\ entry' = [entry EXCEPT ![e] = "purged"]
      /\ rows' = {n \in rows : n[1] # e}
      /\ UNCHANGED <<by, pushed, member, active, req>>
  BY DEF Purge
<1>1. /\ req \in [Requests -> Drain] /\ entry'[e] = "purged"
      /\ \A d \in Entries : d # e => entry'[d] = entry[d]
  BY <1>0 DEF DrainSound, DrainTyped
<1>2. DrainTyped'
  BY <1>0 DEF DrainSound, DrainTyped
<1>3. \A s \in Requests : StageFits(s)'
  <2> SUFFICES ASSUME NEW s \in Requests PROVE StageFits(s)'
    OBVIOUS
  <2>1. StageFits(s) /\ req[s] \in Drain
    BY <1>1 DEF DrainSound
  <2> QED BY <1>0, <1>1, <2>1 DEF StageFits, Drain, Row
<1>4. OneDrainEach' /\ NotYetPushed'
  BY <1>0, <1>1 DEF DrainSound, OneDrainEach, NotYetPushed, InHand, InApp
<1>5. AnnouncedOnce'
  BY <1>0, <1>1 DEF DrainSound, AnnouncedOnce
<1> QED BY <1>2, <1>3, <1>4, <1>5 DEF DrainSound

\* What an operation of the tables and requests is.
DrainStep(r) == \/ \E S \in SUBSET Entries : Claim(r, S)
                \/ Insert(r) \/ Commit(r) \/ Answered(r) \/ Cut(r)
                \/ \E x \in Entries \X Users : Publish(r, x)
                \/ \E e \in Entries, u \in Actors : Write(r, e, u)
Background == \/ \E u \in Users : Membership(u) \/ \E ch \in Channels : UpsertPreference(u, ch)
              \/ \E h \in Endpoints : Toggle(h)
              \/ UNCHANGED <<tables, req, pushed>>

LEMMA StepKinds ==
  [Next]_vars => \/ \E r \in Requests : DrainStep(r)
                 \/ \E e \in Entries : Purge(e)
                 \/ Background
BY DEF Next, Works, Serves, Hears, Closes, vars, DrainStep, Background, Connect, Disconnect, End, Leave,
       CloseOwn, Frame, Refetch, StopHub, Sweep, CloseSwept

LEMMA DrainKept == DrainSound /\ [Next]_vars => DrainSound'
<1> SUFFICES ASSUME DrainSound, [Next]_vars PROVE DrainSound'
  OBVIOUS
<1>1. ASSUME NEW r \in Requests, DrainStep(r) PROVE DrainSound'
  <2>1. ASSUME Answered(r) \/ Cut(r) PROVE DrainSound'
    BY <2>1, EndStep DEF Answered, Cut, tables
  <2> QED BY <1>1, <2>1, ClaimStep, InsertStep, CommitStep, PublishStep, WriteStep DEF DrainStep
<1>2. CASE Background
  <2>1. UNCHANGED drainVars /\ member' \subseteq Users /\ active' \subseteq Endpoints
    BY <1>2 DEF Background, Membership, UpsertPreference, Toggle, EndpointAdded, EndpointRemoved,
           tables, drainVars, DrainSound, DrainTyped
  <2> QED BY <2>1, OthersStep
<1> QED BY <1>1, <1>2, StepKinds, PurgeStep

\* "Only called after the DB transaction commits": however drains overlap,
\* are rolled back and repeated, a row is published at most once, and is then
\* in the inbox (DrainOutbox, Publish).
THEOREM AnnouncedAtMostOnce == Spec => []AnnouncedOnce
<1>1. DrainSound => AnnouncedOnce
  BY DEF DrainSound
<1> QED BY <1>1, DrainInit, DrainKept, PTL DEF Spec

-----------------------------------------------------------------------------
(* The fan-out.                                                            *)

\* Who is never left out of entry e: a user who stays a member, on a channel
\* that is not switched off, and who did not cause it.
Due(e, u, ch) == u \in Users \ Guests /\ <<u, ch>> \notin Optional /\ u # by[e]

\* Between its inserts and its commit a drain holds the rows of all of them.
FanOutWhole == \A r \in Requests : req[r].at = "inserted" =>
  \A e \in req[r].claim, u \in Users, ch \in Channels :
    Due(e, u, ch) => <<e, u, ch>> \in req[r].made \cup rows

Reaches == /\ DrainSound /\ Users \ Guests \subseteq member /\ muted \subseteq Optional
           /\ FanOutWhole /\ MembersReached

LEMMA ReachesInit == Init => Reaches
BY DrainInit DEF Init, Reaches, FanOutWhole, MembersReached, Idle

LEMMA FanOutReaches ==
  ASSUME Reaches, NEW e \in Entries, NEW u \in Users, NEW ch \in Channels, Due(e, u, ch)
  PROVE  <<e, u, ch>> \in FanOut(e)
<1>1. <<u, ch>> \in {y \in Recipients(e) \X Channels : Wants(y[1], y[2])}
  BY DEF Reaches, Recipients, Wants, Due
<1> QED BY <1>1 DEF FanOut

\* Who stays a member and has a channel on keeps both.
LEMMA AlwaysDue ==
  Reaches /\ [Next]_vars => Users \ Guests \subseteq member' /\ muted' \subseteq Optional
<1> SUFFICES ASSUME Reaches, [Next]_vars
             PROVE  Users \ Guests \subseteq member' /\ muted' \subseteq Optional
  OBVIOUS
<1>1. ASSUME NEW r \in Requests, DrainStep(r) PROVE UNCHANGED <<member, muted>>
  BY <1>1 DEF DrainStep, Claim, Insert, Commit, Answered, Cut, Publish, Write, tables
<1>2. CASE Background
  BY <1>2 DEF Background, Membership, UpsertPreference, Set, IsMuted, Toggle, tables, Reaches
<1> QED BY <1>1, <1>2, StepKinds DEF Reaches, Purge

LEMMA ReachesKept == Reaches /\ [Next]_vars => Reaches'
<1> SUFFICES ASSUME Reaches, [Next]_vars PROVE FanOutWhole' /\ MembersReached'
  BY DrainKept, AlwaysDue DEF Reaches
<1>0. /\ DrainTyped /\ DrainTyped' /\ \A s \in Requests : StageFits(s)
  BY DrainKept DEF Reaches, DrainSound
\* A step that keeps the entries and adds no stage "inserted" to a request.
<1>1. ASSUME UNCHANGED <<entry, by, rows>>,
             \A s \in Requests : req'[s].at = "inserted" => req'[s] = req[s]
      PROVE  FanOutWhole' /\ MembersReached'
  BY <1>1 DEF Reaches, FanOutWhole, MembersReached, Due
<1>2. ASSUME NEW r \in Requests, NEW q \in Drain, Go(r, q), q.at # "inserted"
      PROVE  \A s \in Requests : req'[s].at = "inserted" => req'[s] = req[s]
  BY <1>0, <1>2 DEF Go, DrainTyped
<1>3. ASSUME NEW r \in Requests, NEW S \in SUBSET Entries, Claim(r, S)
      PROVE  FanOutWhole' /\ MembersReached'
  <2>1. req'[r].at # "inserted" /\ UNCHANGED <<entry, by, rows>>
        /\ \A s \in Requests \ {r} : req'[s] = req[s]
    BY <1>0, <1>3 DEF Claim, Go, Idle, DrainTyped, tables
  <2> QED BY <1>1, <2>1
<1>4. ASSUME NEW r \in Requests, Insert(r)
      PROVE  FanOutWhole' /\ MembersReached'
  <2> DEFINE C == req[r].claim
             M == (UNION {FanOut(e) : e \in C}) \ rows
  <2>1. /\ UNCHANGED <<entry, by, rows>> /\ C \subseteq Entries
        /\ req'[r].claim = C /\ req'[r].made = M
        /\ \A s \in Requests \ {r} : req'[s] = req[s]
    <3>1. req' = [req EXCEPT ![r] = [req[r] EXCEPT !.at = "inserted", !.made = M, !.calls = Deliveries(C)]]
      BY <1>4 DEF Insert, Go
    <3>2. UNCHANGED <<entry, by, rows>>
      BY <1>4 DEF Insert, tables
    <3> HIDE DEF M
    <3> QED BY <1>0, <3>1, <3>2 DEF DrainTyped, Drain
  <2>2. \A e \in C, u \in Users, ch \in Channels : Due(e, u, ch) => <<e, u, ch>> \in M \cup rows
    <3>1. ASSUME NEW e \in C, NEW n \in FanOut(e) PROVE n \in M \cup rows
      <4>1. FanOut(e) \in {FanOut(d) : d \in C}
        OBVIOUS
      <4>2. n \in UNION {FanOut(d) : d \in C}
        BY <4>1
      <4> QED BY <4>2
    <3> HIDE DEF C, M
    <3> QED BY <2>1, <3>1, FanOutReaches
  <2> HIDE DEF C, M
  <2>3. MembersReached'
    BY <2>1 DEF Reaches, MembersReached
  <2>4. FanOutWhole'
    BY <2>1, <2>2 DEF Reaches, FanOutWhole, Due
  <2> QED BY <2>3, <2>4
<1>5. ASSUME NEW r \in Requests, Commit(r)
      PROVE  FanOutWhole' /\ MembersReached'
  <2>1. /\ req[r].at = "inserted" /\ rows' = rows \cup req[r].made /\ by' = by
        /\ entry' = [e \in Entries |-> IF e \in req[r].claim THEN "done" ELSE entry[e]]
        /\ req'[r].at = "committed" /\ \A s \in Requests \ {r} : req'[s] = req[s]
    BY <1>0, <1>5 DEF Commit, Go, At, DrainTyped, Drain
  <2>2. FanOutWhole'
    BY <2>1 DEF Reaches, FanOutWhole, Due
  <2>3. MembersReached'
    <3> SUFFICES ASSUME NEW e \in Entries, NEW u \in Users \ Guests, NEW ch \in Channels,
                        entry'[e] = "done", u # by[e], <<u, ch>> \notin Optional
                 PROVE  <<e, u, ch>> \in rows'
      BY <2>1 DEF MembersReached
    <3>1. CASE e \in req[r].claim
      BY <2>1, <3>1 DEF Reaches, FanOutWhole, Due
    <3>2. CASE e \notin req[r].claim
      BY <2>1, <3>2 DEF Reaches, MembersReached
    <3> QED BY <3>1, <3>2
  <2> QED BY <2>2, <2>3
<1>6. ASSUME NEW r \in Requests, Answered(r) \/ Cut(r)
      PROVE  FanOutWhole' /\ MembersReached'
  <2>1. req' = [req EXCEPT ![r] = Idle] /\ UNCHANGED <<entry, by, rows>>
    BY <1>6 DEF Answered, Cut, Go, tables
  <2>2. Idle \in Drain /\ Idle.at = "idle"
    BY DEF Idle, Drain
  <2> QED BY <1>1, <1>2, <2>1, <2>2 DEF Go
<1>7. ASSUME NEW r \in Requests, NEW x \in Entries \X Users, Publish(r, x)
      PROVE  FanOutWhole' /\ MembersReached'
  <2>1. /\ UNCHANGED <<entry, by, rows>> /\ req'[r].at = "committed"
        /\ \A s \in Requests \ {r} : req'[s] = req[s]
    BY <1>0, <1>7 DEF Publish, Committed, At, Go, DrainTyped, Drain, tables
  <2> QED BY <1>1, <2>1
<1>8. ASSUME NEW r \in Requests, NEW e \in Entries, NEW u \in Actors, Write(r, e, u)
      PROVE  FanOutWhole' /\ MembersReached'
  <2>1. /\ entry[e] = "none" /\ entry'[e] = "pending" /\ rows' = rows
        /\ \A d \in Entries \ {e} : entry'[d] = entry[d] /\ by'[d] = by[d]
        /\ req'[r].at = "due" /\ \A s \in Requests \ {r} : req'[s] = req[s]
    BY <1>0, <1>8 DEF Write, Go, Idle, DrainTyped
  <2>2. \A s \in Requests : req[s].at = "inserted" => e \notin req[s].claim
    BY <1>0, <2>1 DEF StageFits
  <2>3. FanOutWhole'
    BY <1>0, <2>1, <2>2 DEF Reaches, FanOutWhole, Due, DrainTyped, Drain
  <2>4. MembersReached'
    BY <2>1 DEF Reaches, MembersReached
  <2> QED BY <2>3, <2>4
<1>9. ASSUME NEW e \in Entries, Purge(e)
      PROVE  FanOutWhole' /\ MembersReached'
  <2>1. /\ entry[e] = "done" /\ entry'[e] = "purged" /\ UNCHANGED <<by, req>>
        /\ rows' = {n \in rows : n[1] # e}
        /\ \A d \in Entries \ {e} : entry'[d] = entry[d]
    BY <1>0, <1>9 DEF Purge, DrainTyped
  <2>2. \A s \in Requests : req[s].at = "inserted" => e \notin req[s].claim
    BY <1>0, <2>1 DEF StageFits
  <2>3. FanOutWhole'
    BY <2>1, <2>2 DEF Reaches, FanOutWhole, Due
  <2>4. MembersReached'
    BY <2>1 DEF Reaches, MembersReached
  <2> QED BY <2>3, <2>4
<1>10. CASE Background
  BY <1>1, <1>10 DEF Background, Membership, UpsertPreference, Toggle, tables
<1> QED BY <1>3, <1>4, <1>5, <1>6, <1>7, <1>8, <1>9, <1>10, StepKinds DEF DrainStep

\* Between its inserts and its commit a drain holds the deliveries as well.
CallsWhole == \A r \in Requests : req[r].at = "inserted" =>
  \A e \in req[r].claim, h \in Endpoints \ Switched : <<e, h>> \in req[r].calls

Calls == Endpoints \ Switched \subseteq active /\ CallsWhole /\ EndpointsCalled

LEMMA CallsKept == DrainSound /\ Calls /\ [Next]_vars => Calls'
<1> SUFFICES ASSUME DrainSound, Calls, [Next]_vars PROVE Calls'
  OBVIOUS
<1>0. DrainTyped /\ \A s \in Requests : StageFits(s)
  BY DEF DrainSound
\* A step that keeps entries and deliveries and adds no stage "inserted".
<1>1. ASSUME UNCHANGED <<entry, hooks>>, Endpoints \ Switched \subseteq active',
             \A s \in Requests : req'[s].at = "inserted" => req'[s] = req[s]
      PROVE  Calls'
  BY <1>1 DEF Calls, CallsWhole, EndpointsCalled
<1>2. ASSUME NEW r \in Requests, NEW S \in SUBSET Entries, Claim(r, S) PROVE Calls'
  <2>1. req'[r].at # "inserted" /\ UNCHANGED <<entry, hooks, active>>
        /\ \A s \in Requests \ {r} : req'[s] = req[s]
    BY <1>0, <1>2 DEF Claim, Go, Idle, DrainTyped, tables
  <2> QED BY <1>1, <2>1 DEF Calls
<1>3. ASSUME NEW r \in Requests, Insert(r) PROVE Calls'
  <2>1. /\ UNCHANGED <<entry, hooks, active>> /\ req'[r].calls = req[r].claim \X active
        /\ req'[r].claim = req[r].claim
        /\ \A s \in Requests \ {r} : req'[s] = req[s]
    BY <1>0, <1>3 DEF Insert, Go, Deliveries, tables, DrainTyped, Drain
  <2> QED BY <2>1 DEF Calls, CallsWhole, EndpointsCalled
<1>4. ASSUME NEW r \in Requests, Commit(r) PROVE Calls'
  <2>1. /\ req[r].at = "inserted" /\ hooks' = hooks \cup req[r].calls /\ active' = active
        /\ entry' = [e \in Entries |-> IF e \in req[r].claim THEN "done" ELSE entry[e]]
        /\ req'[r].at = "committed" /\ \A s \in Requests \ {r} : req'[s] = req[s]
    BY <1>0, <1>4 DEF Commit, Go, At, DrainTyped, Drain
  <2>2. CallsWhole'
    BY <2>1 DEF Calls, CallsWhole
  <2>3. EndpointsCalled'
    BY <2>1 DEF Calls, CallsWhole, EndpointsCalled
  <2> QED BY <2>1, <2>2, <2>3 DEF Calls
<1>5. ASSUME NEW r \in Requests, Answered(r) \/ Cut(r) PROVE Calls'
  <2>1. req' = [req EXCEPT ![r] = Idle] /\ UNCHANGED <<entry, hooks, active>> /\ Idle.at = "idle"
    BY <1>5 DEF Answered, Cut, Go, tables, Idle
  <2> QED BY <1>0, <1>1, <2>1 DEF Calls, DrainTyped
<1>6. ASSUME NEW r \in Requests, NEW x \in Entries \X Users, Publish(r, x) PROVE Calls'
  <2>1. /\ UNCHANGED <<entry, hooks, active>> /\ req'[r].at = "committed"
        /\ \A s \in Requests \ {r} : req'[s] = req[s]
    BY <1>0, <1>6 DEF Publish, Committed, At, Go, DrainTyped, Drain, tables
  <2> QED BY <1>1, <2>1 DEF Calls
<1>7. ASSUME NEW r \in Requests, NEW e \in Entries, NEW u \in Actors, Write(r, e, u) PROVE Calls'
  <2>1. /\ entry'[e] = "pending" /\ UNCHANGED <<hooks, active>>
        /\ \A d \in Entries \ {e} : entry'[d] = entry[d]
        /\ req'[r].at = "due" /\ \A s \in Requests \ {r} : req'[s] = req[s]
    BY <1>0, <1>7 DEF Write, Go, Idle, DrainTyped
  <2> QED BY <2>1 DEF Calls, CallsWhole, EndpointsCalled
<1>8. ASSUME NEW e \in Entries, Purge(e) PROVE Calls'
  <2>1. /\ entry'[e] = "purged" /\ hooks' = {n \in hooks : n[1] # e} /\ UNCHANGED <<req, active>>
        /\ \A d \in Entries \ {e} : entry'[d] = entry[d]
    BY <1>0, <1>8 DEF Purge, DrainTyped
  <2> QED BY <2>1 DEF Calls, CallsWhole, EndpointsCalled
<1>9. CASE Background
  <2>1. Endpoints \ Switched \subseteq active'
    BY <1>9 DEF Calls, Background, Membership, UpsertPreference, Toggle, EndpointAdded, EndpointRemoved, tables
  <2> QED BY <1>1, <1>9, <2>1 DEF Background, Membership, UpsertPreference, Toggle, tables
<1> QED BY <1>2, <1>3, <1>4, <1>5, <1>6, <1>7, <1>8, <1>9, StepKinds DEF DrainStep

\* An entry marked processed has reached everyone who was a member and wanted
\* it all along, but its actor, and every endpoint that was active all along
\* (the fan-out of DrainOutbox, the upserts ON CONFLICT DO NOTHING, SKIP
\* LOCKED).
THEOREM NobodyMissed == Spec => []NoneMissed
<1>1. Reaches => DrainSound /\ MembersReached
  BY DEF Reaches
<1>2. Init => Calls
  BY DEF Init, Calls, CallsWhole, EndpointsCalled, Idle
<1>3. MembersReached /\ Calls => NoneMissed
  BY DEF Calls, NoneMissed
<1> QED BY <1>1, <1>2, <1>3, ReachesInit, ReachesKept, CallsKept, PTL DEF Spec
=============================================================================

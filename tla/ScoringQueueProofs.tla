------------------------- MODULE ScoringQueueProofs -------------------------
(***************************************************************************)
(* Proofs about ScoringQueue, for every number of actions, every log bound *)
(* and every page size.                                                    *)
(***************************************************************************)
EXTENDS ScoringQueue, SequenceTheorems, WellFoundedInduction, TLAPS

-----------------------------------------------------------------------------
(* Lemmas about the helpers.                                               *)

\* A page is a prefix of the log.
LEMMA PageIsPrefix ==
  ASSUME TypeOK
  PROVE  PageLength \in 0..Len(log)
BY BoundsAssumption DEF TypeOK, PageLength, Min2

\* The last of an action's events on a page exists and is one of them.
LEMMA LastHitIsHit ==
  ASSUME TypeOK, NEW c, NEW n \in 0..Len(log), OnPage(c, n)
  PROVE  LastHit(c, n) \in Hits(c, n)
<1> DEFINE Dist == {k \in 0..n : \E i \in Hits(c, n) : k = n - i}
<1>1. n \in Nat /\ Hits(c, n) \subseteq 1..n
  BY DEF TypeOK, Hits
<1>2. PICK h \in Hits(c, n) : TRUE
  BY DEF OnPage
<1>3. n - h \in Dist
  BY <1>1, <1>2
<1>4. Dist \subseteq Nat /\ Dist # {}
  BY <1>1, <1>3
<1>5. PICK k \in Dist : \A d \in Dist : ~(<<d, k>> \in OpToRel(<, Nat))
  <2>1. \E k \in Dist : \A d \in Dist : ~(<<d, k>> \in OpToRel(<, Nat))
    <3> HIDE DEF Dist
    <3> QED BY <1>4, WFMin, NatLessThanWellFounded
  <2> QED BY <2>1
<1>6. \A d \in Dist : k <= d
  <2>1. \A d \in Dist : ~(d < k)
    <3> HIDE DEF Dist
    <3> QED BY <1>4, <1>5, Zenon DEF OpToRel
  <2> QED BY <1>4, <2>1
<1>7. PICK last \in Hits(c, n) : k = n - last
  BY <1>5
<1>8. \A j \in Hits(c, n) : j <= last
  <2> SUFFICES ASSUME NEW j \in Hits(c, n) PROVE j <= last
    OBVIOUS
  <2>1. n - j \in Dist
    BY <1>1
  <2> QED BY <1>1, <1>6, <1>7, <2>1
<1> QED BY <1>7, <1>8 DEF LastHit

\* Appending an event keeps the log a sequence of events, one longer.
LEMMA RecordAppends ==
  ASSUME TypeOK, NEW c \in 0..MaxActions, NEW b \in Body, Record(c, b)
  PROVE  /\ log' \in Seq(Event)
         /\ Len(log') = Len(log) + 1
         /\ \A i \in 1..Len(log) : log'[i] = log[i]
         /\ log'[Len(log) + 1] = [action |-> c, cancels |-> b.cancels]
BY DEF TypeOK, Record, Event, Body

\* Saving keeps the type of what localStorage holds.
LEMMA PersistType ==
  ASSUME TypeOK, Persist,
         status' \in [Actions -> Statuses \cup {"none"}],
         serverSeq' \in [Actions -> 0..MaxLog]
  PROVE  disk' \in [status : [Actions -> Statuses \cup {"none"}],
                    serverSeq : [Actions -> 0..MaxLog]]
BY DEF TypeOK, Persist, Saved

\* Enqueueing one well-formed action keeps the types of the queue.
LEMMA EnqueueType ==
  ASSUME TypeOK, NEW b \in Body, Enqueue(b)
  PROVE  /\ status' \in [Actions -> Statuses \cup {"none"}]
         /\ serverSeq' \in [Actions -> 0..MaxLog]
         /\ body' \in [Actions -> Body]
         /\ minted' \in 0..MaxActions
         /\ disk' \in [status : [Actions -> Statuses \cup {"none"}],
                       serverSeq : [Actions -> 0..MaxLog]]
<1>1. /\ status' \in [Actions -> Statuses \cup {"none"}]
      /\ serverSeq' \in [Actions -> 0..MaxLog]
      /\ body' \in [Actions -> Body]
      /\ minted' \in 0..MaxActions
  BY BoundsAssumption DEF TypeOK, Enqueue, Actions, Statuses
<1> QED BY <1>1, PersistType DEF Enqueue

-----------------------------------------------------------------------------
(* Type correctness.                                                       *)

LEMMA InitType == Init => TypeOK
<1> SUFFICES ASSUME Init PROVE TypeOK
  OBVIOUS
<1>1. /\ 0 \in 0..MaxLog /\ 0 \in 0..MaxActions
      /\ Blank \in Body /\ Idle \in Call
  BY BoundsAssumption DEF Blank, Body, Kinds, Idle, Call
<1>2. log \in Seq(Event) /\ Len(log) = 0
  BY DEF Init
<1>3. /\ status \in [Actions -> Statuses \cup {"none"}]
      /\ serverSeq \in [Actions -> 0..MaxLog]
      /\ body \in [Actions -> Body]
      /\ disk \in [status : [Actions -> Statuses \cup {"none"}],
                  serverSeq : [Actions -> 0..MaxLog]]
  BY <1>1 DEF Init, Saved
<1>4. call \in Call /\ (call.op # "idle" => call.action \in Actions)
  BY <1>1 DEF Init, Idle
<1>5. /\ minted \in 0..MaxActions /\ online \in BOOLEAN
      /\ view \in 0..MaxLog /\ view <= Len(log) /\ Len(log) <= MaxLog
  BY <1>1, <1>2 DEF Init
<1>6. /\ live \in BOOLEAN /\ late \subseteq Actions /\ completing \in BOOLEAN
      /\ removed \subseteq Actions /\ gate \subseteq Actions
  BY DEF Init
<1> QED BY <1>2, <1>3, <1>4, <1>5, <1>6 DEF TypeOK

LEMMA ClientStepType ==
  ASSUME TypeOK, ClientNext
  PROVE  TypeOK'
<1> USE BoundsAssumption
<1>0. Idle \in Call /\ Idle.op = "idle"
  BY DEF Idle, Call
<1>1. ASSUME NEW k \in Kinds, ScorerActs(k) PROVE TypeOK'
  <2>1. [kind |-> k, cancels |-> 0] \in Body
    BY DEF Body
  <2> QED BY <1>1, <2>1, EnqueueType DEF TypeOK, ScorerActs, serverVars
<1>2. ASSUME NEW c \in Actions, UndoLocal(c) PROVE TypeOK'
  <2>1. status' \in [Actions -> Statuses \cup {"none"}]
    BY <1>2 DEF TypeOK, UndoLocal
  <2>2. serverSeq' \in [Actions -> 0..MaxLog] /\ removed' \subseteq Actions
    BY <1>2 DEF TypeOK, UndoLocal
  <2> QED BY <1>2, <2>1, <2>2, PersistType DEF TypeOK, UndoLocal, serverVars
<1>3. ASSUME NEW c \in Actions, UndoByCorrection(c) PROVE TypeOK'
  <2>1. [kind |-> "correction", cancels |-> serverSeq[c]] \in Body
    BY DEF TypeOK, Body, Kinds
  <2> QED BY <1>3, <2>1, EnqueueType DEF TypeOK, UndoByCorrection, serverVars
<1>4. ASSUME NEW c \in Actions, StartReconcile(c) PROVE TypeOK'
  <2>1. call' \in Call /\ call'.action \in Actions
    <3>1. call' = [op |-> "get", action |-> c, phase |-> "flight", seq |-> 0]
      BY <1>4 DEF StartReconcile, Idle
    <3>2. c \in 0..MaxActions /\ 0 \in 0..MaxLog
      BY DEF Actions
    <3> QED BY <3>1, <3>2 DEF Call
  <2> QED BY <1>4, <2>1 DEF TypeOK, StartReconcile, serverVars
<1>5. ASSUME NEW c \in Actions, StartSend(c) PROVE TypeOK'
  <2>1. call' \in Call /\ call'.action \in Actions
    <3>1. call' = [op |-> "post", action |-> c, phase |-> "flight", seq |-> 0]
      BY <1>5 DEF StartSend, Idle
    <3>2. c \in 0..MaxActions /\ 0 \in 0..MaxLog
      BY DEF Actions
    <3> QED BY <3>1, <3>2 DEF Call
  <2>2. status' \in [Actions -> Statuses \cup {"none"}]
    BY <1>5 DEF TypeOK, StartSend, Statuses
  <2>3. serverSeq' \in [Actions -> 0..MaxLog]
    BY <1>5 DEF TypeOK, StartSend
  <2> QED BY <1>5, <2>1, <2>2, <2>3, PersistType DEF TypeOK, StartSend, serverVars
<1>6. ASSUME ReconcileAnswered PROVE TypeOK'
  <2>1. status' \in [Actions -> Statuses \cup {"none"}]
    BY <1>6 DEF TypeOK, ReconcileAnswered, Pruned, Reconciled, Statuses
  <2>2. serverSeq' \in [Actions -> 0..MaxLog]
    <3> DEFINE n == PageLength
    <3>1. n \in 0..Len(log)
      BY PageIsPrefix
    <3>2. ASSUME NEW c \in Actions
          PROVE  (IF status[c] \in Unsettled /\ OnPage(c, n)
                  THEN LastHit(c, n) ELSE serverSeq[c]) \in 0..MaxLog
      <4>1. CASE status[c] \in Unsettled /\ OnPage(c, n)
        <5>1. LastHit(c, n) \in 1..n
          BY <3>1, <4>1, LastHitIsHit DEF Hits
        <5> QED BY <3>1, <4>1, <5>1 DEF TypeOK
      <4>2. CASE ~(status[c] \in Unsettled /\ OnPage(c, n))
        BY <4>2 DEF TypeOK
      <4> QED BY <4>1, <4>2
    <3> QED BY <1>6, <3>2 DEF ReconcileAnswered
  <2> QED BY <1>0, <1>6, <2>1, <2>2, PersistType DEF TypeOK, ReconcileAnswered, serverVars
<1>7. ASSUME ReconcileFailed PROVE TypeOK'
  BY <1>0, <1>7 DEF TypeOK, ReconcileFailed, serverVars
<1>8. ASSUME PostConfirmed PROVE TypeOK'
  <2>1. /\ status' \in [Actions -> Statuses \cup {"none"}]
        /\ serverSeq' \in [Actions -> 0..MaxLog]
    BY <1>8 DEF TypeOK, PostConfirmed, Statuses, Call
  <2> QED BY <1>0, <1>8, <2>1, PersistType DEF TypeOK, PostConfirmed, serverVars
<1>9. ASSUME PostRefused PROVE TypeOK'
  <2>1. /\ status' \in [Actions -> Statuses \cup {"none"}]
        /\ serverSeq' \in [Actions -> 0..MaxLog]
    BY <1>9 DEF TypeOK, PostRefused, Statuses
  <2> QED BY <1>0, <1>9, <2>1, PersistType DEF TypeOK, PostRefused, serverVars
<1>10. Abandoned \subseteq SUBSET Actions
  BY DEF TypeOK, Abandoned
<1>11. ASSUME PostFailed PROVE TypeOK'
  <2>1. /\ status' \in [Actions -> Statuses \cup {"none"}]
        /\ serverSeq' \in [Actions -> 0..MaxLog]
    BY <1>11 DEF TypeOK, PostFailed, Statuses
  <2> QED BY <1>0, <1>10, <1>11, <2>1, PersistType DEF TypeOK, PostFailed
<1>12. ASSUME SaveQueue PROVE TypeOK'
  BY <1>12 DEF TypeOK, SaveQueue, Saved, serverVars
<1>13. ASSUME Reload PROVE TypeOK'
  <2>1. /\ status' \in [Actions -> Statuses \cup {"none"}]
        /\ serverSeq' \in [Actions -> 0..MaxLog]
    BY <1>13 DEF TypeOK, Reload, Normalized, Statuses
  <2> QED BY <1>0, <1>10, <1>13, <2>1, PersistType DEF TypeOK, Reload
<1>14. ASSUME RefreshView PROVE TypeOK'
  <2>1. /\ status' \in [Actions -> Statuses \cup {"none"}]
        /\ serverSeq' \in [Actions -> 0..MaxLog]
    BY <1>14 DEF TypeOK, RefreshView, Pruned, Statuses
  <2>2. view' \in 0..Len(log)
    BY <1>14, PageIsPrefix DEF RefreshView
  <2> QED BY <1>14, <2>1, <2>2, PersistType DEF TypeOK, RefreshView, serverVars
<1>15. ASSUME GoOffline \/ GoOnline PROVE TypeOK'
  BY <1>15 DEF TypeOK, GoOffline, GoOnline, serverVars
<1>16. ASSUME SubmitCompletion PROVE TypeOK'
  BY <1>16 DEF TypeOK, SubmitCompletion, clientVars
<1> QED BY ClientNext, <1>1, <1>2, <1>3, <1>4, <1>5, <1>6, <1>7, <1>8, <1>9,
           <1>11, <1>12, <1>13, <1>14, <1>15, <1>16 DEF ClientNext

LEMMA ServerStepType ==
  ASSUME TypeOK, ServerNext
  PROVE  TypeOK'
<1> USE BoundsAssumption
<1>1. ASSUME ServerRecords PROVE TypeOK'
  <2>1. call.action \in 0..MaxActions /\ body[call.action] \in Body
    BY <1>1 DEF TypeOK, ServerRecords, Actions
  <2>2. log' \in Seq(Event) /\ Len(log') = Len(log) + 1
    BY <1>1, <2>1, RecordAppends DEF ServerRecords
  <2>3. call' \in Call /\ call'.action = call.action
    <3>1. Len(log) + 1 \in 0..MaxLog
      BY <1>1 DEF TypeOK, ServerRecords
    <3>2. call' = [call EXCEPT !.phase = "created", !.seq = Len(log) + 1]
      BY <1>1 DEF ServerRecords, NextSequence
    <3> QED BY <3>1, <3>2 DEF TypeOK, Call
  <2> QED BY <1>1, <2>1, <2>2, <2>3 DEF TypeOK, ServerRecords, Actions
<1>2. ASSUME ServerRejects PROVE TypeOK'
  <2>1. call' \in Call /\ call'.action = call.action /\ call'.op = call.op
    BY <1>2 DEF TypeOK, ServerRejects, Call
  <2> QED BY <1>2, <2>1 DEF TypeOK, ServerRejects, serverVars
<1>3. ASSUME NEW c \in Actions, LateArrival(c) PROVE TypeOK'
  <2>1. c \in 0..MaxActions /\ body[c] \in Body
    BY DEF TypeOK, Actions
  <2>2. CASE Acceptable(body[c]) /\ Len(log) < MaxLog
    <3>1. log' \in Seq(Event) /\ Len(log') = Len(log) + 1
      BY <1>3, <2>1, <2>2, RecordAppends DEF LateArrival
    <3> QED BY <1>3, <2>2, <3>1 DEF TypeOK, LateArrival, clientVars
  <2>3. CASE ~(Acceptable(body[c]) /\ Len(log) < MaxLog)
    BY <1>3, <2>3 DEF TypeOK, LateArrival, clientVars
  <2> QED BY <2>2, <2>3
<1>4. ASSUME NEW b \in Body, OtherScorer(b) PROVE TypeOK'
  <2>1. log' \in Seq(Event) /\ Len(log') = Len(log) + 1
    <3>1. Foreign \in 0..MaxActions
      BY DEF Foreign
    <3> QED BY <1>4, <3>1, RecordAppends DEF OtherScorer
  <2> QED BY <1>4, <2>1 DEF TypeOK, OtherScorer, clientVars
<1>5. ASSUME CompletionEnds \/ OthersEndMatch PROVE TypeOK'
  BY <1>5 DEF TypeOK, CompletionEnds, OthersEndMatch, clientVars
<1> QED BY ServerNext, <1>1, <1>2, <1>3, <1>4, <1>5 DEF ServerNext

LEMMA NextType == TypeOK /\ [Next]_vars => TypeOK'
<1> SUFFICES ASSUME TypeOK, [Next]_vars PROVE TypeOK'
  OBVIOUS
<1>1. CASE UNCHANGED vars
  BY <1>1 DEF TypeOK, vars, clientVars, serverVars
<1> QED BY <1>1, ClientStepType, ServerStepType DEF Next

\* Every variable keeps its type, whatever the network, the storage and the
\* page size do.
THEOREM TypeCorrect == Spec => []TypeOK
BY InitType, NextType, PTL DEF Spec

-----------------------------------------------------------------------------
(* The inductive invariant of a reliable environment: localStorage follows *)
(* the queue, an abandoned POST is dead, and a page holds the whole log.   *)

Reliable == Faults \subseteq {"offline"} /\ MaxLog <= PageLimit

\* What localStorage holds is the queue, and no old request is under way.
Synced == disk = Saved(status, serverSeq) /\ late = {}

\* The action marked sending is the one the request in flight carries.
SingleFlight == \A c \in Actions :
  status[c] = "sending" <=> call.op = "post" /\ call.action = c

\* A 201 names the event that carries the action.
CreatedOnLog == call.op = "post" /\ call.phase = "created" =>
  call.seq \in DOMAIN log /\ log[call.seq].action = call.action

\* Actions that cannot be on the log.
Unsent(c) == \/ c > minted
             \/ c \in removed
             \/ status[c] \in {"pending", "failed_permanent"}
             \/ status[c] = "sending" /\ call.phase # "created"
UnsentAbsent == \A c \in Actions : Unsent(c) => ~Landed(c)

\* Only recorded actions are queued, and removed ones are not.
QueueWithinMinted == \A c \in Actions :
  /\ c > minted => status[c] = "none" /\ c \notin removed
  /\ c \in removed => status[c] = "none"

\* Behind an unsettled action everything waits, and nothing is on the log.
InOrder == \A c, d \in Actions : status[c] \in Unsettled /\ c < d =>
  status[d] \in {"none", "pending"} /\ ~Landed(d)

IInv == /\ TypeOK /\ Synced /\ SingleFlight /\ CreatedOnLog /\ UnsentAbsent
        /\ QueueWithinMinted /\ InOrder
        /\ AtMostOnce /\ NothingLost /\ ConfirmedOnLog /\ CompletionCoversAll

\* A reliable save leaves localStorage with the queue.
LEMMA SaveSyncs ==
  ASSUME Reliable, late' = {}, Persist
  PROVE  Synced'
BY DEF Reliable, Persist, Synced, Saved

\* Under a reliable environment one page is the whole log.
LEMMA PageIsLog ==
  ASSUME Reliable, TypeOK
  PROVE  PageLength = Len(log)
BY BoundsAssumption DEF Reliable, TypeOK, PageLength, Min2

\* Then an action is on the page exactly when it is on the log.
LEMMA OnPageIsLanded ==
  ASSUME Reliable, TypeOK, NEW c
  PROVE  OnPage(c, PageLength) <=> Landed(c)
<1>1. DOMAIN log = 1..Len(log)
  BY DEF TypeOK
<1>2. OnPage(c, PageLength) <=> \E i \in 1..Len(log) : log[i].action = c
  BY PageIsLog DEF OnPage, Hits
<1> QED BY <1>1, <1>2 DEF Landed

LEMMA InitInvariant == Init => IInv
<1> SUFFICES ASSUME Init PROVE IInv
  OBVIOUS
<1>1. TypeOK
  BY InitType
<1>2. \A c \in Actions : ~Landed(c) /\ status[c] = "none" /\ c \notin removed
  BY DEF Init, Landed
<1>3. Synced /\ CreatedOnLog /\ call.op = "idle"
  BY DEF Init, Synced, Saved, CreatedOnLog, Idle
<1>4. AtMostOnce /\ CompletionCoversAll
  BY DEF Init, AtMostOnce, CompletionCoversAll
<1>5. \A c \in Actions : ~(c <= minted)
  BY BoundsAssumption DEF Init, Actions
<1> QED BY <1>1, <1>2, <1>3, <1>4, <1>5 DEF IInv, SingleFlight, UnsentAbsent,
           QueueWithinMinted, InOrder, Unsettled, NothingLost, ConfirmedOnLog

\* A new action waits at the end of the queue and is not on the log.
LEMMA EnqueueInvariant ==
  ASSUME Reliable, IInv, TypeOK', NEW b \in Body, Enqueue(b),
         UNCHANGED <<call, log, late, removed, gate>>
  PROVE  IInv'
<1> DEFINE new == minted + 1
<1>1. new \in Actions /\ minted \in Nat /\ minted' = new
  BY BoundsAssumption DEF Enqueue, IInv, TypeOK, Actions
<1>2. /\ status[new] = "none" /\ status'[new] = "pending" /\ new \notin removed
      /\ \A c \in Actions : c # new => status'[c] = status[c]
  BY <1>1 DEF Enqueue, IInv, TypeOK, QueueWithinMinted, Actions
<1>3. \A c \in Actions : Landed(c)' <=> Landed(c)
  BY DEF Landed
<1>4. ~Landed(new)
  BY <1>1 DEF IInv, UnsentAbsent, Unsent
<1>5. \A c \in Actions : c > new => c > minted
  BY <1>1 DEF Actions
<1> HIDE DEF new
<1>6. Synced'
  BY SaveSyncs DEF Enqueue, IInv, Synced
<1>7. SingleFlight'
  BY <1>1, <1>2 DEF IInv, SingleFlight
<1>8. CreatedOnLog'
  BY DEF IInv, CreatedOnLog
<1>9. UnsentAbsent'
  BY <1>1, <1>2, <1>3, <1>4, <1>5 DEF IInv, UnsentAbsent, Unsent
<1>10. QueueWithinMinted'
  BY <1>1, <1>2, <1>5 DEF IInv, QueueWithinMinted, Actions
<1>11. InOrder'
  <2> SUFFICES ASSUME NEW c \in Actions, NEW d \in Actions,
                      status'[c] \in Unsettled, c < d
               PROVE  status'[d] \in {"none", "pending"} /\ ~Landed(d)
    BY <1>3 DEF InOrder
  <2>1. CASE c = new
    <3>1. d > minted
      BY <1>1, <2>1 DEF new, Actions
    <3> QED BY <1>2, <3>1, <2>1 DEF IInv, QueueWithinMinted, UnsentAbsent, Unsent
  <2>2. CASE c # new
    BY <1>2, <1>4, <2>2 DEF IInv, InOrder
  <2> QED BY <2>1, <2>2
<1>12. AtMostOnce' /\ CompletionCoversAll'
  BY DEF IInv, AtMostOnce, CompletionCoversAll, Landed
<1>13. NothingLost'
  <2> SUFFICES ASSUME NEW c \in Actions, c <= minted', status'[c] = "none",
                      c \notin removed
               PROVE  Landed(c)
    BY <1>3 DEF NothingLost
  <2>1. c # new /\ c <= minted
    BY <1>1, <1>2 DEF new, Actions
  <2> QED BY <1>2, <2>1 DEF IInv, NothingLost
<1>14. ConfirmedOnLog'
  BY <1>2 DEF IInv, ConfirmedOnLog, Enqueue
<1> QED BY <1>6, <1>7, <1>8, <1>9, <1>10, <1>11, <1>12, <1>13, <1>14 DEF IInv

\* A step that leaves the queue, the log and the request alone, or only
\* starts, abandons or fails a GET, keeps the invariant.
LEMMA IdleStepInvariant ==
  ASSUME IInv, TypeOK',
         UNCHANGED <<status, serverSeq, minted, disk, log, late, removed, gate>>,
         call' = call \/ (call.op # "post" /\ call'.op # "post")
  PROVE  IInv'
<1>1. \A c \in Actions : Landed(c)' <=> Landed(c)
  BY DEF Landed
<1>2. /\ Synced' /\ QueueWithinMinted' /\ NothingLost' /\ AtMostOnce'
      /\ CompletionCoversAll'
  <2>1. Synced'
    BY DEF IInv, Synced, Saved
  <2>2. QueueWithinMinted' /\ NothingLost'
    BY <1>1 DEF IInv, QueueWithinMinted, NothingLost
  <2>3. AtMostOnce' /\ CompletionCoversAll'
    BY <1>1 DEF IInv, TypeOK, AtMostOnce, CompletionCoversAll
  <2> QED BY <2>1, <2>2, <2>3
<1>3. SingleFlight' /\ CreatedOnLog' /\ ConfirmedOnLog' /\ InOrder'
  BY <1>1 DEF IInv, SingleFlight, CreatedOnLog, ConfirmedOnLog, InOrder
<1>4. UnsentAbsent'
  <2> SUFFICES ASSUME NEW c \in Actions, Unsent(c)' PROVE ~Landed(c)
    BY <1>1 DEF UnsentAbsent
  <2>1. Unsent(c)
    BY DEF Unsent, IInv, SingleFlight
  <2> QED BY <2>1 DEF IInv, UnsentAbsent
<1> QED BY <1>2, <1>3, <1>4 DEF IInv

\* Marking one action settled, or in doubt, after its POST: the general form
\* of the steps that end a POST.
LEMMA PostEndsInvariant ==
  ASSUME Reliable, IInv, TypeOK', call.op = "post", call' = Idle, late' = {},
         NEW s \in {"confirmed", "failed_permanent", "needs_reconcile"},
         status' = [status EXCEPT ![call.action] = s],
         s = "failed_permanent" => call.phase # "created",
         s = "confirmed" => /\ call.phase = "created"
                            /\ serverSeq' = [serverSeq EXCEPT ![call.action] = call.seq],
         s # "confirmed" => UNCHANGED serverSeq,
         UNCHANGED <<minted, log, removed, gate>>,
         Persist
  PROVE  IInv'
<1> DEFINE a == call.action
<1>1. a \in Actions /\ status[a] = "sending"
  BY DEF IInv, TypeOK, SingleFlight
<1>2. status'[a] = s /\ \A c \in Actions : c # a => status'[c] = status[c]
  BY <1>1 DEF IInv, TypeOK
<1>3. \A c \in Actions : Landed(c)' <=> Landed(c)
  BY DEF Landed
<1>4. \A c \in Actions : status'[c] # "sending"
  BY <1>1, <1>2 DEF IInv, SingleFlight
<1>5. a <= minted /\ a \notin removed
  BY <1>1 DEF IInv, TypeOK, QueueWithinMinted, Actions
<1>6. s = "failed_permanent" => ~Landed(a)
  BY <1>1 DEF IInv, UnsentAbsent, Unsent
<1>7. Synced'
  BY SaveSyncs
<1>8. SingleFlight' /\ CreatedOnLog'
  BY <1>4 DEF SingleFlight, CreatedOnLog, Idle
<1>9. UnsentAbsent'
  <2> SUFFICES ASSUME NEW c \in Actions, Unsent(c)' PROVE ~Landed(c)
    BY <1>3 DEF UnsentAbsent
  <2>1. CASE c = a
    <3>1. s = "failed_permanent"
      BY <1>1, <1>2, <1>5, <2>1 DEF Unsent, IInv, TypeOK, Actions
    <3> QED BY <1>6, <2>1, <3>1
  <2>2. CASE c # a
    <3>1. Unsent(c)
      BY <1>2, <1>4, <2>2 DEF Unsent
    <3> QED BY <3>1 DEF IInv, UnsentAbsent
  <2> QED BY <2>1, <2>2
<1>10. QueueWithinMinted'
  BY <1>1, <1>2, <1>5 DEF IInv, QueueWithinMinted
<1>11. InOrder'
  <2> SUFFICES ASSUME NEW c \in Actions, NEW d \in Actions,
                      status'[c] \in Unsettled, c < d
               PROVE  status'[d] \in {"none", "pending"} /\ ~Landed(d)
    BY <1>3 DEF InOrder
  <2>1. status[c] \in Unsettled
    BY <1>1, <1>2 DEF Unsettled
  <2>2. status[d] \in {"none", "pending"} /\ ~Landed(d)
    BY <2>1 DEF IInv, InOrder
  <2>3. d # a
    BY <1>1, <2>2
  <2> QED BY <1>2, <2>2, <2>3
<1>12. AtMostOnce' /\ CompletionCoversAll'
  BY <1>3 DEF IInv, TypeOK, AtMostOnce, CompletionCoversAll
<1>13. NothingLost'
  BY <1>1, <1>2, <1>3 DEF IInv, NothingLost
<1>14. ConfirmedOnLog'
  <2> SUFFICES ASSUME NEW c \in Actions, status'[c] = "confirmed"
               PROVE  serverSeq'[c] \in DOMAIN log /\ log[serverSeq'[c]].action = c
    BY DEF ConfirmedOnLog
  <2>1. CASE c = a
    <3>1. s = "confirmed" /\ serverSeq'[c] = call.seq
      BY <1>1, <1>2, <2>1 DEF IInv, TypeOK
    <3> QED BY <2>1, <3>1 DEF IInv, CreatedOnLog
  <2>2. CASE c # a
    <3>1. status[c] = "confirmed" /\ serverSeq'[c] = serverSeq[c]
      BY <1>1, <1>2, <2>2 DEF IInv, TypeOK
    <3> QED BY <3>1 DEF IInv, ConfirmedOnLog
  <2> QED BY <2>1, <2>2
<1> QED BY <1>7, <1>8, <1>9, <1>10, <1>11, <1>12, <1>13, <1>14 DEF IInv

\* What a page of the log, a prune or a reload may do to an action.
Advance(c) ==
  \/ status'[c] = status[c] /\ serverSeq'[c] = serverSeq[c]
  \/ status[c] \in Unsettled \cup {"confirmed"} /\ Landed(c) /\ status'[c] = "none"
  \/ status[c] = "needs_reconcile" /\ ~Landed(c) /\ status'[c] = "pending"
  \/ status[c] = "sending" /\ status'[c] = "needs_reconcile"

LEMMA AdvanceInvariant ==
  ASSUME Reliable, IInv, TypeOK', late' = {}, Persist,
         UNCHANGED <<minted, log, removed, gate>>,
         SingleFlight', CreatedOnLog',
         \A c \in Actions : status'[c] = "sending" => call' = call,
         \A c \in Actions : Advance(c)
  PROVE  IInv'
<1>1. \A c \in Actions : Landed(c)' <=> Landed(c)
  BY DEF Landed
<1>2. \A c \in Actions : status'[c] \in Unsettled => status[c] \in Unsettled
  BY DEF Advance, Unsettled
<1>3. Synced'
  BY SaveSyncs
<1>4. UnsentAbsent'
  <2> SUFFICES ASSUME NEW c \in Actions, Unsent(c)' PROVE ~Landed(c)
    BY <1>1 DEF UnsentAbsent
  <2>1. CASE Unsent(c)
    BY <2>1 DEF IInv, UnsentAbsent
  <2>2. CASE ~Unsent(c)
    BY <2>2 DEF Advance, Unsent
  <2> QED BY <2>1, <2>2
<1>5. QueueWithinMinted'
  <2> SUFFICES ASSUME NEW c \in Actions, c > minted \/ c \in removed
               PROVE  status'[c] = "none" /\ (c > minted => c \notin removed)
    BY DEF QueueWithinMinted
  <2>1. status[c] = "none" /\ (c > minted => c \notin removed)
    BY DEF IInv, QueueWithinMinted
  <2> QED BY <2>1 DEF Advance, Unsettled
<1>6. InOrder'
  <2> SUFFICES ASSUME NEW c \in Actions, NEW d \in Actions,
                      status'[c] \in Unsettled, c < d
               PROVE  status'[d] \in {"none", "pending"} /\ ~Landed(d)
    BY <1>1 DEF InOrder
  <2>1. status[d] \in {"none", "pending"} /\ ~Landed(d)
    BY <1>2 DEF IInv, InOrder
  <2> QED BY <2>1 DEF Advance
<1>7. AtMostOnce' /\ CompletionCoversAll'
  BY <1>1 DEF IInv, TypeOK, AtMostOnce, CompletionCoversAll
<1>8. NothingLost'
  <2> SUFFICES ASSUME NEW c \in Actions, c <= minted, status'[c] = "none", c \notin removed
               PROVE  Landed(c)
    BY <1>1 DEF NothingLost
  <2> QED BY DEF IInv, NothingLost, Advance
<1>9. ConfirmedOnLog'
  <2> SUFFICES ASSUME NEW c \in Actions, status'[c] = "confirmed"
               PROVE  serverSeq'[c] \in DOMAIN log /\ log[serverSeq'[c]].action = c
    BY DEF ConfirmedOnLog
  <2>1. status[c] = "confirmed" /\ serverSeq'[c] = serverSeq[c]
    BY DEF Advance
  <2> QED BY <2>1 DEF IInv, ConfirmedOnLog
<1> QED BY <1>3, <1>4, <1>5, <1>6, <1>7, <1>8, <1>9 DEF IInv

\* An event reaches the log: of another scorer, or of the request in flight.
LEMMA RecordInvariant ==
  ASSUME IInv, TypeOK', NEW c \in 0..MaxActions, NEW b \in Body, Record(c, b),
         UNCHANGED <<status, serverSeq, minted, disk, late, removed, gate>>,
         \/ c = Foreign /\ call' = call
         \/ /\ c = call.action /\ call.op = "post" /\ call.phase = "flight"
            /\ call' = [call EXCEPT !.phase = "created", !.seq = Len(log) + 1]
  PROVE  IInv'
<1>1. /\ Len(log) \in Nat /\ DOMAIN log = 1..Len(log)
      /\ DOMAIN log' = 1..(Len(log) + 1)
      /\ \A i \in 1..Len(log) : log'[i] = log[i]
      /\ log'[Len(log) + 1].action = c
  <2>1. Len(log) \in Nat /\ DOMAIN log = 1..Len(log)
    BY DEF IInv, TypeOK
  <2>2. /\ log' \in Seq(Event) /\ Len(log') = Len(log) + 1
        /\ \A i \in 1..Len(log) : log'[i] = log[i]
        /\ log'[Len(log) + 1] = [action |-> c, cancels |-> b.cancels]
    BY RecordAppends DEF IInv
  <2> QED BY <2>1, <2>2
<1>2. \A d \in Actions : Landed(d)' <=> (Landed(d) \/ d = c)
  BY <1>1 DEF Landed
<1>3. c # Foreign => c \in Actions /\ status[c] = "sending" /\ ~Landed(c)
  <2> SUFFICES ASSUME c # Foreign PROVE c \in Actions /\ status[c] = "sending" /\ ~Landed(c)
    OBVIOUS
  <2>1. c \in Actions
    BY DEF Actions, Foreign
  <2>2. status[c] = "sending" /\ call.phase # "created"
    BY <2>1 DEF IInv, SingleFlight
  <2> QED BY <2>1, <2>2 DEF IInv, UnsentAbsent, Unsent
<1>4. \A d \in Actions : d # Foreign
  BY DEF Actions, Foreign
<1>5. Synced' /\ QueueWithinMinted'
  BY DEF IInv, Synced, Saved, QueueWithinMinted
<1>6. call'.op = call.op /\ call'.action = call.action
  BY DEF IInv, TypeOK, Call
<1>7. SingleFlight'
  BY <1>6 DEF IInv, SingleFlight
<1>8. CreatedOnLog'
  <2>1. CASE c = Foreign /\ call' = call
    BY <1>1, <2>1 DEF IInv, CreatedOnLog
  <2>2. CASE c = call.action /\ call' = [call EXCEPT !.phase = "created", !.seq = Len(log) + 1]
    <3>1. call'.seq = Len(log) + 1 /\ call'.action = c
      BY <1>6, <2>2 DEF IInv, TypeOK, Call
    <3> QED BY <1>1, <3>1 DEF CreatedOnLog
  <2> QED BY <2>1, <2>2
<1>9. UnsentAbsent'
  <2> SUFFICES ASSUME NEW d \in Actions, Unsent(d)' PROVE ~Landed(d)'
    BY DEF UnsentAbsent
  <2>1. CASE d = c
    <3>1. status[d] = "sending" /\ call'.phase = "created"
      BY <1>3, <1>4, <2>1 DEF IInv, TypeOK, Call
    <3>2. d <= minted /\ d \notin removed
      BY <3>1 DEF IInv, TypeOK, QueueWithinMinted, Actions
    <3> QED BY <3>1, <3>2 DEF Unsent, IInv, TypeOK, Actions
  <2>2. CASE d # c
    <3>1. Unsent(d)
      <4>1. status[d] = "sending" => call'.phase = call.phase
        BY <2>2, <1>6 DEF IInv, SingleFlight
      <4> QED BY <4>1 DEF Unsent
    <3> QED BY <1>2, <2>2, <3>1 DEF IInv, UnsentAbsent
  <2> QED BY <2>1, <2>2
<1>10. InOrder'
  <2> SUFFICES ASSUME NEW e \in Actions, NEW d \in Actions,
                      status[e] \in Unsettled, e < d
               PROVE  status[d] \in {"none", "pending"} /\ ~Landed(d)'
    BY DEF InOrder
  <2>1. status[d] \in {"none", "pending"} /\ ~Landed(d)
    BY DEF IInv, InOrder
  <2>2. d # c
    BY <1>3, <1>4, <2>1
  <2> QED BY <1>2, <2>1, <2>2
<1>11. AtMostOnce'
  <2> SUFFICES ASSUME NEW i \in 1..(Len(log) + 1), NEW j \in 1..(Len(log) + 1),
                      log'[i].action = log'[j].action, log'[i].action # Foreign
               PROVE  i = j
    BY <1>1 DEF AtMostOnce
  <2>1. CASE i \in 1..Len(log) /\ j \in 1..Len(log)
    BY <1>1, <2>1 DEF IInv, AtMostOnce
  <2>2. CASE i = Len(log) + 1 /\ j \in 1..Len(log)
    <3>1. log[j].action = c /\ c # Foreign
      BY <1>1, <2>2
    <3> QED BY <1>1, <1>3, <2>2, <3>1 DEF Landed
  <2>3. CASE j = Len(log) + 1 /\ i \in 1..Len(log)
    <3>1. log[i].action = c /\ c # Foreign
      BY <1>1, <2>3
    <3> QED BY <1>1, <1>3, <2>3, <3>1 DEF Landed
  <2> QED BY <1>1, <2>1, <2>2, <2>3
<1>12. NothingLost' /\ CompletionCoversAll'
  BY <1>2 DEF IInv, TypeOK, NothingLost, CompletionCoversAll
<1>13. ConfirmedOnLog'
  BY <1>1 DEF IInv, ConfirmedOnLog
<1> QED BY <1>5, <1>7, <1>8, <1>9, <1>10, <1>11, <1>12, <1>13 DEF IInv

LEMMA ClientInvariant ==
  ASSUME Reliable, IInv, TypeOK', ClientNext
  PROVE  IInv'
<1> USE BoundsAssumption
<1>0. /\ late = {} /\ disk = Saved(status, serverSeq)
      /\ Idle.op = "idle"
  BY DEF IInv, Synced, Idle
<1>1. ASSUME NEW k \in Kinds, ScorerActs(k) PROVE IInv'
  <2>1. [kind |-> k, cancels |-> 0] \in Body
    BY DEF Body
  <2> QED BY <1>1, <2>1, EnqueueInvariant DEF ScorerActs, serverVars
<1>2. ASSUME NEW c \in Actions, UndoLocal(c) PROVE IInv'
  <2>1. /\ status[c] = "pending" /\ status'[c] = "none" /\ removed' = removed \cup {c}
        /\ \A d \in Actions : d # c => status'[d] = status[d]
    BY <1>2 DEF UndoLocal, IInv, TypeOK
  <2>2. \A d \in Actions : Landed(d)' <=> Landed(d)
    BY <1>2 DEF UndoLocal, serverVars, Landed
  <2>3. c <= minted
    BY <2>1 DEF IInv, TypeOK, QueueWithinMinted, Actions
  <2>4. Synced'
    BY <1>0, <1>2, SaveSyncs DEF UndoLocal, serverVars
  <2>5. SingleFlight' /\ CreatedOnLog'
    BY <1>2, <2>1 DEF UndoLocal, serverVars, IInv, SingleFlight, CreatedOnLog
  <2>6. UnsentAbsent'
    <3> SUFFICES ASSUME NEW d \in Actions, Unsent(d)' PROVE ~Landed(d)
      BY <2>2 DEF UnsentAbsent
    <3>1. Unsent(d)
      BY <1>2, <2>1 DEF Unsent, UndoLocal
    <3> QED BY <3>1 DEF IInv, UnsentAbsent
  <2>7. QueueWithinMinted'
    <3>1. ~(c > minted)
      BY <2>3 DEF IInv, TypeOK, Actions
    <3> QED BY <1>2, <2>1, <3>1 DEF IInv, QueueWithinMinted, UndoLocal
  <2>8. InOrder'
    BY <2>1, <2>2 DEF IInv, InOrder, Unsettled
  <2>9. NothingLost' /\ ConfirmedOnLog'
    BY <1>2, <2>1, <2>2 DEF IInv, NothingLost, ConfirmedOnLog, UndoLocal, serverVars
  <2>10. AtMostOnce' /\ CompletionCoversAll'
    BY <1>2, <2>2 DEF IInv, TypeOK, AtMostOnce, CompletionCoversAll, UndoLocal, serverVars
  <2> QED BY <2>4, <2>5, <2>6, <2>7, <2>8, <2>9, <2>10 DEF IInv
<1>3. ASSUME NEW c \in Actions, UndoByCorrection(c) PROVE IInv'
  <2>1. [kind |-> "correction", cancels |-> serverSeq[c]] \in Body
    BY DEF IInv, TypeOK, Body, Kinds
  <2> QED BY <1>3, <2>1, EnqueueInvariant DEF UndoByCorrection, serverVars
<1>4. ASSUME NEW c \in Actions, StartReconcile(c) PROVE IInv'
  <2>1. call.op # "post" /\ call'.op # "post"
    BY <1>4 DEF StartReconcile, DriverReady, Idle
  <2> QED BY <1>4, <2>1, IdleStepInvariant DEF StartReconcile, serverVars
<1>5. ASSUME NEW c \in Actions, StartSend(c) PROVE IInv'
  <2>1. /\ status[c] = "pending" /\ status'[c] = "sending"
        /\ \A d \in Actions : d # c => status'[d] = status[d]
    BY <1>5 DEF StartSend, HeadPending, First, IInv, TypeOK
  <2>2. call' = [op |-> "post", action |-> c, phase |-> "flight", seq |-> 0]
    BY <1>5 DEF StartSend, Idle
  <2>3. \A d \in Actions : /\ status[d] \notin {"sending", "needs_reconcile"}
                           /\ status[d] = "pending" => ~(d < c)
    BY <1>5 DEF StartSend, DriverReady, HeadPending, First
  <2>4. \A d \in Actions : Landed(d)' <=> Landed(d)
    BY <1>5 DEF StartSend, serverVars, Landed
  <2>5. Synced'
    BY <1>0, <1>5, SaveSyncs DEF StartSend, serverVars
  <2>6. SingleFlight' /\ CreatedOnLog'
    BY <2>1, <2>2, <2>3 DEF SingleFlight, CreatedOnLog
  <2>7. UnsentAbsent'
    <3> SUFFICES ASSUME NEW d \in Actions, Unsent(d)' PROVE ~Landed(d)
      BY <2>4 DEF UnsentAbsent
    <3>1. Unsent(d)
      BY <1>5, <2>1, <2>3 DEF Unsent, StartSend
    <3> QED BY <3>1 DEF IInv, UnsentAbsent
  <2>8. QueueWithinMinted'
    BY <1>5, <2>1 DEF IInv, QueueWithinMinted, StartSend
  <2>9. InOrder'
    <3> SUFFICES ASSUME NEW e \in Actions, NEW d \in Actions,
                        status'[e] \in Unsettled, e < d
                 PROVE  status'[d] \in {"none", "pending"} /\ ~Landed(d)
      BY <2>4 DEF InOrder
    <3>1. status[e] \in Unsettled /\ status[e] = "pending"
      BY <2>1, <2>3 DEF Unsettled
    <3>2. status[d] \in {"none", "pending"} /\ ~Landed(d)
      BY <3>1 DEF IInv, InOrder
    <3>3. d # c
      BY <2>3, <3>1
    <3> QED BY <2>1, <3>2, <3>3
  <2>10. NothingLost' /\ ConfirmedOnLog'
    BY <1>5, <2>1, <2>4 DEF IInv, NothingLost, ConfirmedOnLog, StartSend, serverVars
  <2>11. AtMostOnce' /\ CompletionCoversAll'
    BY <1>5, <2>4 DEF IInv, TypeOK, AtMostOnce, CompletionCoversAll, StartSend, serverVars
  <2> QED BY <2>5, <2>6, <2>7, <2>8, <2>9, <2>10, <2>11 DEF IInv
<1>6. ASSUME ReconcileAnswered PROVE IInv'
  <2>1. \A c \in Actions : OnPage(c, PageLength) <=> Landed(c)
    BY OnPageIsLanded DEF IInv
  <2>2. \A c \in Actions : status[c] # "sending"
    BY <1>6 DEF IInv, SingleFlight, ReconcileAnswered
  <2>3. \A c \in Actions : Advance(c)
    <3> SUFFICES ASSUME NEW c \in Actions PROVE Advance(c)
      OBVIOUS
    <3>1. /\ status'[c] = Pruned(Reconciled(c, PageLength), c, PageLength)
          /\ ~(status[c] \in Unsettled /\ Landed(c)) => serverSeq'[c] = serverSeq[c]
      BY <1>6, <2>1 DEF ReconcileAnswered
    <3> QED BY <2>1, <3>1 DEF Advance, Pruned, Reconciled, Unsettled
  <2>4. \A c \in Actions : status'[c] # "sending"
    BY <2>2, <2>3 DEF Advance
  <2>5. SingleFlight' /\ CreatedOnLog'
    BY <1>0, <1>6, <2>4 DEF ReconcileAnswered, SingleFlight, CreatedOnLog
  <2> QED BY <1>0, <1>6, <2>3, <2>4, <2>5, AdvanceInvariant DEF ReconcileAnswered, serverVars
<1>7. ASSUME ReconcileFailed PROVE IInv'
  BY <1>0, <1>7, IdleStepInvariant DEF ReconcileFailed, serverVars
<1>8. ASSUME PostConfirmed PROVE IInv'
  BY <1>0, <1>8, PostEndsInvariant DEF PostConfirmed, serverVars
<1>9. ASSUME PostRefused PROVE IInv'
  BY <1>0, <1>9, PostEndsInvariant DEF PostRefused, serverVars
<1>10. Abandoned = {{}}
  BY <1>0 DEF Abandoned, Reliable
<1>11. ASSUME PostFailed PROVE IInv'
  BY <1>10, <1>11, PostEndsInvariant DEF PostFailed
<1>12. ASSUME SaveQueue PROVE IInv'
  BY <1>12 DEF SaveQueue, Reliable
<1>13. ASSUME Reload PROVE IInv'
  <2>1. \A c \in Actions : status'[c] = Normalized(status[c]) /\ serverSeq'[c] = serverSeq[c]
    BY <1>0, <1>13 DEF Reload, Saved
  <2>2. \A c \in Actions : status'[c] # "sending" /\ Advance(c)
    BY <2>1 DEF Normalized, Advance
  <2>3. SingleFlight' /\ CreatedOnLog'
    BY <1>0, <1>13, <2>2 DEF Reload, SingleFlight, CreatedOnLog
  <2> QED BY <1>10, <1>13, <2>2, <2>3, AdvanceInvariant DEF Reload
<1>14. ASSUME RefreshView PROVE IInv'
  <2>1. \A c \in Actions : OnPage(c, PageLength) <=> Landed(c)
    BY OnPageIsLanded DEF IInv
  <2>2. \A c \in Actions : status'[c] = Pruned(status[c], c, PageLength)
    BY <1>14 DEF RefreshView
  <2>3. \A c \in Actions : Advance(c) /\ (status'[c] = "sending" <=> status[c] = "sending")
    BY <1>14, <2>1, <2>2 DEF Advance, Pruned, RefreshView
  <2>4. SingleFlight' /\ CreatedOnLog'
    BY <1>14, <2>3 DEF RefreshView, IInv, SingleFlight, CreatedOnLog, serverVars
  <2> QED BY <1>0, <1>14, <2>3, <2>4, AdvanceInvariant DEF RefreshView, serverVars
<1>15. ASSUME GoOffline \/ GoOnline PROVE IInv'
  BY <1>15, IdleStepInvariant DEF GoOffline, GoOnline, serverVars
<1>16. ASSUME SubmitCompletion PROVE IInv'
  <2>1. \A c \in Actions : Landed(c)' <=> Landed(c)
    BY <1>16 DEF SubmitCompletion, Landed
  <2>2. CompletionCoversAll'
    <3> SUFFICES ASSUME NEW c \in gate' PROVE Landed(c)
      BY <2>1 DEF CompletionCoversAll, IInv, TypeOK
    <3>1. c \in Actions /\ c <= minted /\ c \notin removed /\ status[c] \in {"none", "confirmed"}
      BY <1>16 DEF SubmitCompletion, ReadyToComplete
    <3> QED BY <3>1 DEF IInv, NothingLost, ConfirmedOnLog, Landed
  <2>3. Synced' /\ SingleFlight' /\ CreatedOnLog' /\ QueueWithinMinted'
    BY <1>16 DEF SubmitCompletion, clientVars, IInv, Synced, Saved, SingleFlight,
                 CreatedOnLog, QueueWithinMinted
  <2>4. UnsentAbsent' /\ InOrder' /\ NothingLost'
    BY <1>16, <2>1 DEF SubmitCompletion, clientVars, IInv, UnsentAbsent, Unsent,
                       InOrder, NothingLost
  <2>5. AtMostOnce' /\ ConfirmedOnLog'
    BY <1>16 DEF SubmitCompletion, clientVars, IInv, AtMostOnce, ConfirmedOnLog
  <2> QED BY <2>2, <2>3, <2>4, <2>5 DEF IInv
<1> QED BY ClientNext, <1>1, <1>2, <1>3, <1>4, <1>5, <1>6, <1>7, <1>8, <1>9,
           <1>11, <1>12, <1>13, <1>14, <1>15, <1>16 DEF ClientNext

LEMMA ServerInvariant ==
  ASSUME Reliable, IInv, TypeOK', ServerNext
  PROVE  IInv'
<1>1. ASSUME ServerRecords PROVE IInv'
  <2>1. call.action \in 0..MaxActions /\ body[call.action] \in Body
    BY <1>1 DEF ServerRecords, IInv, TypeOK, Actions
  <2> QED BY <1>1, <2>1, RecordInvariant DEF ServerRecords, NextSequence
<1>2. ASSUME ServerRejects PROVE IInv'
  <2>1. call'.op = call.op /\ call'.action = call.action /\ call'.phase = "rejected"
    BY <1>2 DEF ServerRejects, IInv, TypeOK, Call
  <2>2. \A c \in Actions : Landed(c)' <=> Landed(c)
    BY <1>2 DEF ServerRejects, serverVars, Landed
  <2>3. UnsentAbsent'
    <3> SUFFICES ASSUME NEW c \in Actions, Unsent(c)' PROVE ~Landed(c)
      BY <2>2 DEF UnsentAbsent
    <3>1. Unsent(c)
      BY <1>2 DEF Unsent, ServerRejects
    <3> QED BY <3>1 DEF IInv, UnsentAbsent
  <2>4. Synced' /\ QueueWithinMinted' /\ InOrder'
    BY <1>2, <2>2 DEF ServerRejects, serverVars, IInv, Synced, Saved, QueueWithinMinted, InOrder
  <2>5. SingleFlight' /\ CreatedOnLog'
    BY <1>2, <2>1 DEF ServerRejects, IInv, SingleFlight, CreatedOnLog
  <2>6. AtMostOnce' /\ NothingLost' /\ ConfirmedOnLog'
    BY <1>2, <2>2 DEF ServerRejects, serverVars, IInv, AtMostOnce, NothingLost, ConfirmedOnLog
  <2>7. CompletionCoversAll'
    BY <1>2, <2>2 DEF ServerRejects, IInv, TypeOK, CompletionCoversAll
  <2> QED BY <2>3, <2>4, <2>5, <2>6, <2>7 DEF IInv
<1>3. ASSUME NEW c \in Actions, LateArrival(c) PROVE IInv'
  BY <1>3 DEF LateArrival, IInv, Synced
<1>4. ASSUME NEW b \in Body, OtherScorer(b) PROVE IInv'
  <2>1. Foreign \in 0..MaxActions
    BY BoundsAssumption DEF Foreign
  <2> QED BY <1>4, <2>1, RecordInvariant DEF OtherScorer, clientVars
<1>5. ASSUME CompletionEnds \/ OthersEndMatch PROVE IInv'
  BY <1>5, IdleStepInvariant DEF CompletionEnds, OthersEndMatch, clientVars
<1> QED BY ServerNext, <1>1, <1>2, <1>3, <1>4, <1>5 DEF ServerNext

LEMMA NextInvariant ==
  ASSUME Reliable
  PROVE  IInv /\ [Next]_vars => IInv'
<1> SUFFICES ASSUME IInv, [Next]_vars PROVE IInv'
  OBVIOUS
<1>1. TypeOK'
  BY NextType DEF IInv
<1>2. CASE UNCHANGED vars
  BY <1>1, <1>2, IdleStepInvariant DEF vars, clientVars, serverVars
<1> QED BY <1>1, <1>2, ClientInvariant, ServerInvariant DEF Next

\* With localStorage in step, abandoned requests dead and a page that holds
\* the log, the invariant holds always.
LEMMA Invariant ==
  ASSUME Reliable
  PROVE  Spec => []IInv
BY InitInvariant, NextInvariant, PTL DEF Spec

\* Delivery is at most once: no action is recorded twice.
THEOREM RecordedAtMostOnce ==
  ASSUME Reliable
  PROVE  Spec => []AtMostOnce
<1>1. IInv => AtMostOnce
  BY DEF IInv
<1> QED BY <1>1, Invariant, PTL

\* No recorded action disappears from both the queue and the log.
THEOREM NeverLost ==
  ASSUME Reliable
  PROVE  Spec => []NothingLost
<1>1. IInv => NothingLost
  BY DEF IInv
<1> QED BY <1>1, Invariant, PTL

\* When completion is submitted, every action that stands is on the log.
THEOREM CompletionIsComplete ==
  ASSUME Reliable
  PROVE  Spec => []CompletionCoversAll
<1>1. IInv => CompletionCoversAll
  BY DEF IInv
<1> QED BY <1>1, Invariant, PTL

-----------------------------------------------------------------------------
(* The queue implements ExactlyOnceLog.                                    *)

Intents == [c \in Actions |-> Intent(c)]
Stream == [i \in DOMAIN log |-> log[i].action]

LEMMA InitSimulates == Init => Promise!EInit
<1> SUFFICES ASSUME Init PROVE Promise!EInit
  OBVIOUS
<1>1. \A c \in Actions : Intent(c) = "new"
  BY BoundsAssumption DEF Init, Intent, Actions
<1>2. [i \in DOMAIN log |-> log[i].action] = <<>>
  BY DEF Init
<1> QED BY <1>1, <1>2 DEF Promise!EInit, Promise!Actions, Actions

\* A step that changes no intent and leaves the log alone is a stutter.
LEMMA Stutters ==
  ASSUME UNCHANGED log, \A c \in Actions : Intent(c)' = Intent(c)
  PROVE  UNCHANGED Promise!evars
<1>1. Intents' = Intents
  BY DEF Intents
<1>2. Stream' = Stream
  BY DEF Stream
<1> QED BY <1>1, <1>2 DEF Promise!evars, Intents, Stream

LEMMA LogActions ==
  ASSUME TypeOK
  PROVE  \A i \in 1..Len(log) : log[i].action \in 0..MaxActions
<1>1. \A i \in 1..Len(log) : log[i] \in Event
  BY DEF TypeOK
<1> QED BY <1>1 DEF Event

\* One more event extends the stream by its action.
LEMMA StreamGrows ==
  ASSUME TypeOK, NEW c \in 0..MaxActions, NEW b \in Body, Record(c, b)
  PROVE  Stream' = Append(Stream, c)
<1>1. /\ log' \in Seq(Event) /\ Len(log') = Len(log) + 1
      /\ \A i \in 1..Len(log) : log'[i] = log[i]
      /\ log'[Len(log) + 1].action = c
      /\ Len(log) \in Nat /\ DOMAIN log = 1..Len(log) /\ DOMAIN log' = 1..(Len(log) + 1)
  <2>1. Len(log) \in Nat /\ DOMAIN log = 1..Len(log)
    BY DEF TypeOK
  <2>2. /\ log' \in Seq(Event) /\ Len(log') = Len(log) + 1
        /\ \A i \in 1..Len(log) : log'[i] = log[i]
        /\ log'[Len(log) + 1] = [action |-> c, cancels |-> b.cancels]
    BY RecordAppends
  <2> QED BY <2>1, <2>2
<1>2. Stream \in Seq(0..MaxActions) /\ Len(Stream) = Len(log)
  <2>1. \A i \in 1..Len(log) : log[i].action \in 0..MaxActions
    BY LogActions
  <2>2. Stream = [i \in 1..Len(log) |-> log[i].action]
    BY <1>1 DEF Stream
  <2> QED BY <1>1, <2>1, <2>2
<1>3. /\ Append(Stream, c) \in Seq(0..MaxActions)
      /\ Len(Append(Stream, c)) = Len(log) + 1
      /\ \A i \in 1..Len(log) : Append(Stream, c)[i] = Stream[i]
      /\ Append(Stream, c)[Len(log) + 1] = c
  BY <1>2, AppendProperties
<1>4. /\ Stream' = [i \in 1..(Len(log) + 1) |-> log'[i].action]
      /\ \A i \in 1..Len(log) : Stream[i] = log[i].action
  BY <1>1 DEF Stream
<1>5. /\ Stream' \in [1..(Len(log) + 1) -> 0..MaxActions]
      /\ Append(Stream, c) \in [1..(Len(log) + 1) -> 0..MaxActions]
  <2>1. \A i \in 1..(Len(log) + 1) : log'[i].action \in 0..MaxActions
    <3>1. \A i \in 1..Len(log') : log'[i] \in Event
      BY <1>1
    <3> QED BY <1>1, <3>1 DEF Event
  <2> QED BY <1>3, <1>4, <2>1, LenProperties
<1>6. \A i \in 1..(Len(log) + 1) : Stream'[i] = Append(Stream, c)[i]
  BY <1>1, <1>3, <1>4
<1> QED BY <1>5, <1>6

\* Recording an action is an Offer.
LEMMA EnqueueSimulates ==
  ASSUME IInv, NEW b \in Body, Enqueue(b), UNCHANGED <<log, removed>>
  PROVE  Promise!ENext
<1>0. minted \in Nat /\ minted + 1 \in Actions
  BY BoundsAssumption DEF Enqueue, IInv, TypeOK, Actions
<1> PICK new \in Actions : new = minted + 1
  BY <1>0
<1>1. /\ minted \in Nat /\ new \in Actions /\ minted' = new
      /\ status'[new] = "pending" /\ new \notin removed
      /\ \A c \in Actions : c # new => status'[c] = status[c]
  BY BoundsAssumption DEF Enqueue, IInv, TypeOK, Actions, QueueWithinMinted
<1>2. Intent(new) = "new" /\ Intent(new)' = "offered"
  <2>1. new > minted /\ ~(new > minted') /\ new \notin removed'
    BY <1>0, <1>1
  <2> QED BY <1>1, <2>1 DEF Intent
<1>3. \A c \in Actions : c # new => Intent(c)' = Intent(c)
  BY <1>1 DEF Intent, Actions
<1>4. \A c \in Actions : c < new => Intent(c) # "new"
  BY <1>1 DEF Intent, Actions
<1>5. Intents' = [Intents EXCEPT ![new] = "offered"]
  BY <1>2, <1>3 DEF Intents
<1>6. Stream' = Stream
  BY DEF Stream
<1>7. Promise!Offer(new)
  BY <1>1, <1>2, <1>4, <1>5, <1>6 DEF Promise!Offer, Promise!Actions, Actions,
                                      Intents, Stream
<1> QED BY <1>1, <1>7 DEF Promise!ENext, Promise!Actions, Actions

\* Taking an action back, or its refusal, is a Drop.
LEMMA DropSimulates ==
  ASSUME IInv, NEW c \in Actions, NEW why \in {"withdrawn", "refused"},
         Intent(c) = "offered", Intent(c)' = why, ~Landed(c),
         \A d \in Actions : d # c => Intent(d)' = Intent(d),
         UNCHANGED log
  PROVE  Promise!ENext
<1>1. Intents' = [Intents EXCEPT ![c] = why]
  BY DEF Intents
<1>2. Stream' = Stream
  BY DEF Stream
<1>3. ~Promise!Delivered(c)
  BY DEF Promise!Delivered, Landed
<1>4. Promise!Drop(c, why)
  BY <1>1, <1>2, <1>3 DEF Promise!Drop, Intents, Stream
<1> QED BY <1>4 DEF Promise!ENext, Promise!Actions, Actions

\* The server recording the request in flight is a Deliver.
LEMMA RecordSimulates ==
  ASSUME IInv, ServerRecords
  PROVE  Promise!ENext
<1>0. call.action \in Actions
  BY DEF ServerRecords, IInv, TypeOK
<1> PICK c \in Actions : c = call.action
  BY <1>0
<1>1. c \in Actions /\ status[c] = "sending" /\ body[c] \in Body /\ c \in 0..MaxActions
  BY DEF ServerRecords, IInv, TypeOK, SingleFlight, Actions
<1>2. ~Landed(c) /\ Intent(c) = "offered"
  BY <1>1 DEF ServerRecords, IInv, TypeOK, UnsentAbsent, Unsent,
              QueueWithinMinted, Intent
<1>3. Stream' = Append(Stream, c)
  BY <1>1, StreamGrows DEF ServerRecords, IInv
<1>4. Intents' = Intents
  BY DEF ServerRecords, Intents, Intent
<1>5. \A i \in DOMAIN Stream : Stream[i] < c
  <2> SUFFICES ASSUME NEW i \in DOMAIN log PROVE log[i].action < c
    BY DEF Stream
  <2>1. log[i].action \in 0..MaxActions
    BY LogActions DEF IInv, TypeOK
  <2>2. CASE log[i].action = 0
    BY <1>1, <2>2 DEF Actions
  <2>3. CASE log[i].action # 0
    <3>1. log[i].action \in Actions /\ Landed(log[i].action)
      BY <2>1, <2>3 DEF Actions, Landed
    <3>2. ~(c < log[i].action)
      BY <1>1, <3>1 DEF IInv, InOrder, Unsettled
    <3>3. log[i].action # c
      BY <1>2, <3>1
    <3> QED BY <1>1, <3>1, <3>2, <3>3 DEF Actions
  <2> QED BY <2>2, <2>3
<1>6. Promise!Deliver(c)
  <2>1. Intents[c] = "offered"
    BY <1>1, <1>2 DEF Intents
  <2> QED BY <1>3, <1>4, <1>5, <2>1 DEF Promise!Deliver, Intents, Stream
<1> QED BY <1>1, <1>6 DEF Promise!ENext, Promise!Actions, Actions

LEMMA NextSimulates ==
  ASSUME Reliable
  PROVE  IInv /\ [Next]_vars => [Promise!ENext]_(Promise!evars)
<1> SUFFICES ASSUME IInv, [Next]_vars, ~(UNCHANGED Promise!evars) PROVE Promise!ENext
  OBVIOUS
<1>0. late = {} /\ disk = Saved(status, serverSeq)
  BY DEF IInv, Synced
<1>1. CASE UNCHANGED vars
  <2>1. \A c \in Actions : Intent(c)' = Intent(c)
    BY <1>1 DEF vars, clientVars, Intent
  <2> QED BY <1>1, <2>1, Stutters DEF vars, serverVars
<1>2. ASSUME NEW k \in Kinds, ScorerActs(k) PROVE Promise!ENext
  <2>1. [kind |-> k, cancels |-> 0] \in Body
    BY BoundsAssumption DEF Body
  <2> QED BY <1>2, <2>1, EnqueueSimulates DEF ScorerActs, serverVars
<1>3. ASSUME NEW c \in Actions, UndoByCorrection(c) PROVE Promise!ENext
  <2>1. [kind |-> "correction", cancels |-> serverSeq[c]] \in Body
    BY DEF IInv, TypeOK, Body, Kinds
  <2> QED BY <1>3, <2>1, EnqueueSimulates DEF UndoByCorrection, serverVars
<1>4. ASSUME NEW c \in Actions, UndoLocal(c) PROVE Promise!ENext
  <2>1. status[c] = "pending" /\ UNCHANGED <<log, minted>> /\ removed' = removed \cup {c}
    BY <1>4 DEF UndoLocal, serverVars
  <2>2. ~(c > minted) /\ c \notin removed /\ ~Landed(c)
    BY <2>1 DEF IInv, QueueWithinMinted, UnsentAbsent, Unsent
  <2>3. Intent(c) = "offered" /\ Intent(c)' = "withdrawn"
    BY <2>1, <2>2 DEF Intent
  <2>4. \A d \in Actions : d # c => Intent(d)' = Intent(d)
    BY <1>4, <2>1 DEF Intent, UndoLocal
  <2> QED BY <2>1, <2>2, <2>3, <2>4, DropSimulates
<1>5. ASSUME PostRefused PROVE Promise!ENext
  <2>0. call.action \in Actions
    BY <1>5 DEF PostRefused, IInv, TypeOK
  <2> PICK a \in Actions : a = call.action
    BY <2>0
  <2>1. /\ a \in Actions /\ status[a] = "sending" /\ UNCHANGED <<log, minted, removed>>
        /\ call.phase # "created"
        /\ status' = [status EXCEPT ![a] = "failed_permanent"]
    BY <1>5 DEF PostRefused, IInv, TypeOK, SingleFlight, serverVars
  <2>2. ~(a > minted) /\ a \notin removed /\ ~Landed(a)
    BY <2>1 DEF IInv, QueueWithinMinted, UnsentAbsent, Unsent
  <2>3. Intent(a) = "offered" /\ Intent(a)' = "refused"
    <3>1. status'[a] = "failed_permanent"
      BY <2>1 DEF IInv, TypeOK
    <3> QED BY <2>1, <2>2, <3>1 DEF Intent
  <2>4. \A d \in Actions : d # a => Intent(d)' = Intent(d)
    BY <2>1 DEF Intent, IInv, TypeOK
  <2> QED BY <2>1, <2>2, <2>3, <2>4, DropSimulates
<1>6. ASSUME UNCHANGED <<log, minted, removed>>,
             \A c \in Actions : (status'[c] = "failed_permanent")
                                <=> (status[c] = "failed_permanent")
      PROVE  Promise!ENext
  <2>1. \A c \in Actions : Intent(c)' = Intent(c)
    BY <1>6 DEF Intent
  <2> QED BY <1>6, <2>1, Stutters
<1>7. ASSUME NEW c \in Actions, StartReconcile(c) \/ StartSend(c) PROVE Promise!ENext
  BY <1>6, <1>7 DEF StartReconcile, StartSend, HeadPending, First, serverVars, IInv, TypeOK
<1>8. ASSUME ReconcileAnswered PROVE Promise!ENext
  BY <1>6, <1>8 DEF ReconcileAnswered, Pruned, Reconciled, Unsettled, serverVars
<1>9. ASSUME ReconcileFailed PROVE Promise!ENext
  BY <1>6, <1>9 DEF ReconcileFailed, serverVars
<1>10. ASSUME PostConfirmed \/ PostFailed PROVE Promise!ENext
  <2>1. call.action \in Actions /\ status[call.action] = "sending"
    BY <1>10 DEF PostConfirmed, PostFailed, IInv, TypeOK, SingleFlight
  <2> QED BY <1>6, <1>10, <2>1 DEF PostConfirmed, PostFailed, serverVars, IInv, TypeOK
<1>11. ASSUME SaveQueue PROVE Promise!ENext
  BY <1>11 DEF SaveQueue, Reliable
<1>12. ASSUME Reload PROVE Promise!ENext
  BY <1>0, <1>6, <1>12 DEF Reload, Normalized, Saved
<1>13. ASSUME RefreshView PROVE Promise!ENext
  BY <1>6, <1>13 DEF RefreshView, Pruned, serverVars
<1>14. ASSUME GoOffline \/ GoOnline \/ SubmitCompletion PROVE Promise!ENext
  BY <1>6, <1>14 DEF GoOffline, GoOnline, SubmitCompletion, clientVars, serverVars
<1>15. ASSUME NEW c \in Actions, LateArrival(c) PROVE Promise!ENext
  BY <1>0, <1>15 DEF LateArrival
<1>16. ASSUME NEW b \in Body, OtherScorer(b) PROVE Promise!ENext
  <2>1. Stream' = Append(Stream, Foreign)
    BY <1>16, BoundsAssumption, StreamGrows DEF OtherScorer, IInv, Foreign
  <2>2. Intents' = Intents
    BY <1>16 DEF OtherScorer, clientVars, Intents, Intent
  <2>3. Promise!OtherScorer
    BY <2>1, <2>2 DEF Promise!OtherScorer, Promise!Foreign, Foreign, Intents, Stream
  <2> QED BY <2>3 DEF Promise!ENext
<1>17. ASSUME ServerRejects \/ CompletionEnds \/ OthersEndMatch PROVE Promise!ENext
  BY <1>6, <1>17 DEF ServerRejects, CompletionEnds, OthersEndMatch, clientVars, serverVars
<1> QED BY <1>1, <1>2, <1>3, <1>4, <1>5, <1>7, <1>8, <1>9, <1>10, <1>11, <1>12,
           <1>13, <1>14, <1>15, <1>16, <1>17, RecordSimulates
           DEF Next, ClientNext, ServerNext

\* In a reliable environment the scoring queue keeps the promise of
\* ExactlyOnceLog: at most once, in order, and never after a withdrawal.
THEOREM ImplementsExactlyOnceLog ==
  ASSUME Reliable
  PROVE  Spec => KeepsPromise
BY InitSimulates, NextSimulates, Invariant, PTL
   DEF Spec, KeepsPromise, Promise!ESpec

-----------------------------------------------------------------------------
(* The log's corrections, whatever the faults.                             *)

\* An action names an event to cancel exactly when it is a correction.
BodySound == \A c \in Actions : body[c].kind = "correction" <=> body[c].cancels # 0

CInv == TypeOK /\ BodySound /\ CorrectionsSound

\* The server accepts only what keeps corrections sound.
LEMMA RecordKeepsCorrections ==
  ASSUME TypeOK, CorrectionsSound,
         NEW c \in 0..MaxActions, NEW b \in Body,
         b.kind = "correction" <=> b.cancels # 0,
         Acceptable(b), Record(c, b)
  PROVE  CorrectionsSound'
<1> DEFINE n == Len(log) + 1
<1>1. /\ Len(log) \in Nat /\ DOMAIN log = 1..Len(log) /\ DOMAIN log' = 1..n
      /\ \A i \in 1..Len(log) : log'[i] = log[i]
      /\ log'[n].cancels = b.cancels
  <2>1. Len(log) \in Nat /\ DOMAIN log = 1..Len(log)
    BY DEF TypeOK
  <2>2. /\ log' \in Seq(Event) /\ Len(log') = n
        /\ \A i \in 1..Len(log) : log'[i] = log[i]
        /\ log'[n] = [action |-> c, cancels |-> b.cancels]
    BY RecordAppends
  <2> QED BY <2>1, <2>2
<1>2. b.cancels # 0 => /\ b.cancels \in 1..Len(log) /\ log[b.cancels].cancels = 0
                       /\ \A i \in 1..Len(log) : log[i].cancels # b.cancels
  BY <1>1 DEF Acceptable, CorrectionAllowed
<1> SUFFICES ASSUME NEW i \in 1..n, log'[i].cancels # 0
             PROVE  /\ log'[i].cancels < i
                    /\ log'[log'[i].cancels].cancels = 0
                    /\ \A j \in 1..n : log'[j].cancels = log'[i].cancels => i = j
  BY <1>1 DEF CorrectionsSound
<1>3. CASE i = n
  BY <1>1, <1>2, <1>3
<1>4. CASE i \in 1..Len(log)
  <2>1. /\ log[i].cancels < i /\ log[log[i].cancels].cancels = 0
        /\ \A j \in 1..Len(log) : log[j].cancels = log[i].cancels => i = j
    BY <1>1, <1>4 DEF CorrectionsSound
  <2>2. log[i] \in Event
    BY <1>4 DEF TypeOK
  <2>3. log[i].cancels \in 1..Len(log)
    BY <1>1, <1>4, <2>1, <2>2 DEF Event
  <2> QED BY <1>1, <1>2, <1>4, <2>1, <2>3
<1> QED BY <1>1, <1>3, <1>4

LEMMA CorrectionsStep == CInv /\ [Next]_vars => CInv'
<1> SUFFICES ASSUME CInv, [Next]_vars PROVE CInv'
  OBVIOUS
<1>1. TypeOK'
  BY NextType DEF CInv
<1>2. ASSUME UNCHANGED body PROVE BodySound'
  BY <1>2 DEF CInv, BodySound
<1>3. ASSUME UNCHANGED log PROVE CorrectionsSound'
  BY <1>3 DEF CInv, CorrectionsSound
<1>4. ASSUME NEW b \in Body, b.kind = "correction" <=> b.cancels # 0, Enqueue(b)
      PROVE  BodySound'
  <2>1. body' = [body EXCEPT ![minted + 1] = b]
    BY <1>4 DEF Enqueue
  <2> QED BY <1>4, <2>1 DEF CInv, TypeOK, BodySound
<1>5. ASSUME NEW k \in Kinds, ScorerActs(k) PROVE CInv'
  <2>1. /\ [kind |-> k, cancels |-> 0] \in Body
        /\ k # "correction"
    BY <1>5, BoundsAssumption DEF Body, ScorerActs
  <2> QED BY <1>1, <1>3, <1>4, <1>5, <2>1 DEF CInv, ScorerActs, serverVars
<1>6. ASSUME NEW c \in Actions, UndoByCorrection(c) PROVE CInv'
  <2>1. [kind |-> "correction", cancels |-> serverSeq[c]] \in Body
    BY DEF CInv, TypeOK, Body, Kinds
  <2> QED BY <1>1, <1>3, <1>4, <1>6, <2>1 DEF CInv, UndoByCorrection, serverVars
<1>7. ASSUME NEW c \in 0..MaxActions, NEW b \in Body, Acceptable(b), Record(c, b),
             b.kind = "correction" <=> b.cancels # 0, UNCHANGED body
      PROVE  CInv'
  BY <1>1, <1>2, <1>7, RecordKeepsCorrections DEF CInv
<1>8. ASSUME ServerRecords PROVE CInv'
  <2>1. /\ call.action \in Actions /\ call.action \in 0..MaxActions
        /\ body[call.action] \in Body
    BY <1>8 DEF ServerRecords, CInv, TypeOK, Actions
  <2> QED BY <1>7, <1>8, <2>1 DEF ServerRecords, CInv, BodySound
<1>9. ASSUME NEW c \in Actions, LateArrival(c) PROVE CInv'
  <2>1. c \in 0..MaxActions /\ body[c] \in Body
    BY DEF CInv, TypeOK, Actions
  <2> QED BY <1>1, <1>2, <1>3, <1>7, <1>9, <2>1
          DEF LateArrival, CInv, BodySound, clientVars
<1>10. ASSUME NEW b \in Body, OtherScorer(b) PROVE CInv'
  <2>1. Foreign \in 0..MaxActions
    BY BoundsAssumption DEF Foreign
  <2> QED BY <1>7, <1>10, <2>1 DEF OtherScorer, clientVars
<1>11. ASSUME UNCHANGED <<body, log>> PROVE CInv'
  BY <1>1, <1>2, <1>3, <1>11 DEF CInv
<1> QED
  BY <1>5, <1>6, <1>8, <1>9, <1>10, <1>11
     DEF Next, ClientNext, ServerNext, vars, clientVars, serverVars, UndoLocal,
         StartReconcile, StartSend, ReconcileAnswered, ReconcileFailed,
         PostConfirmed, PostRefused, PostFailed, SaveQueue, Reload, RefreshView,
         GoOffline, GoOnline, SubmitCompletion, ServerRejects, CompletionEnds,
         OthersEndMatch

\* Whatever is lost, resent or late, no event is corrected twice and no
\* correction is corrected.
THEOREM CorrectionsStaySound == Spec => []CorrectionsSound
<1>1. Init => CInv
  BY InitType DEF Init, CInv, BodySound, CorrectionsSound, Blank
<1>2. CInv => CorrectionsSound
  BY DEF CInv
<1> QED BY <1>1, <1>2, CorrectionsStep, PTL DEF Spec

-----------------------------------------------------------------------------
(* What a confirmation points at, whatever the faults.                     *)

\* What localStorage calls confirmed was confirmed with the same event.
SavedOnLog == \A c \in Actions : disk.status[c] = "confirmed" =>
  disk.serverSeq[c] \in DOMAIN log /\ log[disk.serverSeq[c]].action = c

PInv == TypeOK /\ CreatedOnLog /\ ConfirmedOnLog /\ SavedOnLog

\* The log only grows.
LEMMA LogGrows ==
  ASSUME TypeOK, [Next]_vars
  PROVE  \A i \in DOMAIN log : i \in DOMAIN log' /\ log'[i] = log[i]
<1> DEFINE Grown == \A i \in DOMAIN log : i \in DOMAIN log' /\ log'[i] = log[i]
<1>1. ASSUME NEW c, NEW b, Record(c, b) PROVE Grown
  BY <1>1 DEF Record, TypeOK
<1>2. ASSUME UNCHANGED log PROVE Grown
  BY <1>2
<1> SUFFICES Grown
  OBVIOUS
<1> HIDE DEF Grown
<1>3. CASE ServerNext
  <2>1. CASE ServerRecords
    BY <1>1, <2>1 DEF ServerRecords
  <2>2. ASSUME NEW c \in Actions, LateArrival(c) PROVE Grown
    BY <1>1, <1>2, <2>2 DEF LateArrival
  <2>3. ASSUME NEW b \in Body, OtherScorer(b) PROVE Grown
    BY <1>1, <2>3 DEF OtherScorer
  <2>4. CASE ServerRejects \/ CompletionEnds \/ OthersEndMatch
    BY <1>2, <2>4 DEF ServerRejects, CompletionEnds, OthersEndMatch, serverVars
  <2> QED BY <1>3, <2>1, <2>2, <2>3, <2>4 DEF ServerNext
<1>4. CASE ClientNext \/ UNCHANGED vars
  BY <1>2, <1>4 DEF ClientNext, ScorerActs, UndoLocal, UndoByCorrection, StartReconcile, StartSend,
     ReconcileAnswered, ReconcileFailed, PostConfirmed, PostRefused, PostFailed, SaveQueue, Reload,
     RefreshView, GoOffline, GoOnline, SubmitCompletion, serverVars, vars
<1> QED BY <1>3, <1>4 DEF Next

\* An answer of the log confirms an action with its last event.
LEMMA ReconciledOnLog ==
  ASSUME PInv, ReconcileAnswered, NEW c \in Actions, status'[c] = "confirmed"
  PROVE  serverSeq'[c] \in DOMAIN log /\ log[serverSeq'[c]].action = c
<1> DEFINE n == PageLength
<1>1. n \in 0..Len(log) /\ DOMAIN log = 1..Len(log)
  BY PageIsPrefix DEF PInv, TypeOK
<1>2. status'[c] = Pruned(Reconciled(c, n), c, n)
  BY DEF ReconcileAnswered
<1>3. serverSeq'[c] = IF status[c] \in Unsettled /\ OnPage(c, n) THEN LastHit(c, n) ELSE serverSeq[c]
  BY DEF ReconcileAnswered
<1> HIDE DEF n
<1>4. Reconciled(c, n) = "confirmed"
  BY <1>2 DEF Pruned
<1>5. CASE status[c] \in Unsettled /\ OnPage(c, n)
  <2>1. LastHit(c, n) \in Hits(c, n)
    BY <1>1, <1>5, LastHitIsHit DEF PInv
  <2> QED BY <1>1, <1>3, <1>5, <2>1 DEF Hits
<1>6. CASE ~(status[c] \in Unsettled /\ OnPage(c, n))
  <2>1. status[c] = "confirmed"
    BY <1>4, <1>6 DEF Reconciled
  <2> QED BY <1>3, <1>6, <2>1 DEF PInv, ConfirmedOnLog
<1> QED BY <1>5, <1>6

LEMMA ConfirmedStep == PInv /\ [Next]_vars => PInv'
<1> SUFFICES ASSUME PInv, [Next]_vars PROVE PInv'
  OBVIOUS
<1>1. TypeOK /\ TypeOK'
  BY NextType DEF PInv
<1>2. \A i \in DOMAIN log : i \in DOMAIN log' /\ log'[i] = log[i]
  BY <1>1, LogGrows
\* The queue, and then what is saved of it.
<1>3. ASSUME \A c \in Actions : status'[c] = "confirmed" => status[c] = "confirmed" /\ serverSeq'[c] = serverSeq[c]
      PROVE  ConfirmedOnLog'
  BY <1>2, <1>3 DEF PInv, ConfirmedOnLog
<1>4. ASSUME ConfirmedOnLog', Persist PROVE SavedOnLog'
  BY <1>2, <1>4 DEF PInv, SavedOnLog, ConfirmedOnLog, Persist, Saved
<1>5. ASSUME UNCHANGED disk PROVE SavedOnLog'
  BY <1>2, <1>5 DEF PInv, SavedOnLog
<1>6. ASSUME call' = call \/ call'.phase # "created" \/ call'.op # "post" PROVE CreatedOnLog'
  BY <1>2, <1>6 DEF PInv, CreatedOnLog
<1>7. Idle.op # "post"
  BY DEF Idle
<1>8. ASSUME NEW b, Enqueue(b), UNCHANGED call PROVE PInv'
  <2>1. \A c \in Actions : status'[c] = "confirmed" => status[c] = "confirmed" /\ serverSeq'[c] = serverSeq[c]
    BY <1>1, <1>8 DEF Enqueue, TypeOK
  <2> QED BY <1>1, <1>3, <1>4, <1>6, <1>8, <2>1 DEF PInv, Enqueue
<1>9. ASSUME NEW k \in Kinds, ScorerActs(k) PROVE PInv'
  BY <1>8, <1>9 DEF ScorerActs
<1>10. ASSUME NEW c \in Actions, UndoLocal(c) PROVE PInv'
  <2>1. \A d \in Actions : status'[d] = "confirmed" => status[d] = "confirmed" /\ serverSeq'[d] = serverSeq[d]
    BY <1>1, <1>10 DEF UndoLocal, TypeOK
  <2> QED BY <1>1, <1>3, <1>4, <1>6, <1>10, <2>1 DEF PInv, UndoLocal
<1>11. ASSUME NEW c \in Actions, UndoByCorrection(c) PROVE PInv'
  BY <1>8, <1>11 DEF UndoByCorrection
<1>12. ASSUME UNCHANGED <<status, serverSeq, disk>>,
              call' = call \/ call'.phase # "created" \/ call'.op # "post"
       PROVE  PInv'
  BY <1>1, <1>3, <1>5, <1>6, <1>12 DEF PInv
<1>13. ASSUME NEW c \in Actions, StartReconcile(c) PROVE PInv'
  BY <1>12, <1>13 DEF StartReconcile, Idle
<1>14. ASSUME NEW c \in Actions, StartSend(c) PROVE PInv'
  <2>1. \A d \in Actions : status'[d] = "confirmed" => status[d] = "confirmed" /\ serverSeq'[d] = serverSeq[d]
    BY <1>1, <1>14 DEF StartSend, TypeOK
  <2>2. call'.phase = "flight" /\ Persist
    BY <1>14 DEF StartSend, Idle
  <2> QED BY <1>1, <1>3, <1>4, <1>6, <2>1, <2>2 DEF PInv
<1>15. CASE ReconcileAnswered
  <2>1. ConfirmedOnLog'
    BY <1>15, <1>2, ReconciledOnLog DEF ConfirmedOnLog
  <2> QED BY <1>1, <1>4, <1>6, <1>7, <1>15, <2>1 DEF PInv, ReconcileAnswered
<1>16. CASE ReconcileFailed
  BY <1>7, <1>12, <1>16 DEF ReconcileFailed
<1>17. CASE PostConfirmed
  <2>1. call.action \in Actions /\ call.seq \in DOMAIN log /\ log[call.seq].action = call.action
    BY <1>1, <1>17 DEF PostConfirmed, PInv, CreatedOnLog, TypeOK
  <2>2. \A d \in Actions : \/ d = call.action /\ serverSeq'[d] = call.seq
                           \/ status'[d] = status[d] /\ serverSeq'[d] = serverSeq[d]
    BY <1>1, <1>17 DEF PostConfirmed, TypeOK
  <2>3. ConfirmedOnLog'
    BY <1>2, <2>1, <2>2 DEF PInv, ConfirmedOnLog
  <2> QED BY <1>1, <1>4, <1>6, <1>7, <1>17, <2>3 DEF PInv, PostConfirmed
<1>18. ASSUME PostRefused \/ PostFailed PROVE PInv'
  <2>1. \A d \in Actions : status'[d] = "confirmed" => status[d] = "confirmed" /\ serverSeq'[d] = serverSeq[d]
    BY <1>1, <1>18 DEF PostRefused, PostFailed, TypeOK
  <2>2. call' = Idle /\ Persist
    BY <1>18 DEF PostRefused, PostFailed
  <2> QED BY <1>1, <1>3, <1>4, <1>6, <1>7, <2>1, <2>2 DEF PInv
<1>19. CASE SaveQueue
  <2>1. ConfirmedOnLog'
    BY <1>3, <1>19 DEF SaveQueue
  <2>2. disk' = Saved(status', serverSeq')
    BY <1>19 DEF SaveQueue
  <2>3. SavedOnLog'
    BY <2>1, <2>2 DEF SavedOnLog, ConfirmedOnLog, Saved
  <2> QED BY <1>1, <1>6, <1>19, <2>1, <2>3 DEF PInv, SaveQueue
<1>20. CASE Reload
  <2>1. \A c \in Actions : status'[c] = "confirmed" => disk.status[c] = "confirmed"
    BY <1>20 DEF Reload, Normalized
  <2>2. ConfirmedOnLog'
    BY <1>2, <1>20, <2>1 DEF Reload, PInv, SavedOnLog, ConfirmedOnLog
  <2> QED BY <1>1, <1>4, <1>6, <1>7, <1>20, <2>2 DEF PInv, Reload
<1>21. CASE RefreshView
  <2>1. \A c \in Actions : status'[c] = "confirmed" => status[c] = "confirmed" /\ serverSeq'[c] = serverSeq[c]
    BY <1>21 DEF RefreshView, Pruned
  <2> QED BY <1>1, <1>3, <1>4, <1>6, <1>21, <2>1 DEF PInv, RefreshView
<1>22. CASE ServerRecords
  <2>1. call' = [call EXCEPT !.phase = "created", !.seq = Len(log) + 1] /\ UNCHANGED <<status, serverSeq, disk>>
    BY <1>22 DEF ServerRecords, NextSequence
  <2>2. call'.seq = Len(log) + 1 /\ call'.action = call.action
    BY <1>1, <2>1 DEF TypeOK, Call
  <2>3. Len(log) + 1 \in DOMAIN log' /\ log'[Len(log) + 1].action = call.action
    BY <1>1, <1>22 DEF ServerRecords, Record, TypeOK
  <2>4. CreatedOnLog'
    BY <2>2, <2>3 DEF CreatedOnLog
  <2> QED BY <1>1, <1>3, <1>5, <2>1, <2>4 DEF PInv
<1>23. CASE ServerRejects
  <2>1. call'.phase = "rejected"
    BY <1>1, <1>23 DEF ServerRejects, TypeOK, Call
  <2> QED BY <1>12, <1>23, <2>1 DEF ServerRejects
<1>24. ASSUME UNCHANGED <<status, serverSeq, disk, call>> PROVE PInv'
  BY <1>12, <1>24
<1> QED
  BY <1>9, <1>10, <1>11, <1>13, <1>14, <1>15, <1>16, <1>17, <1>18, <1>19, <1>20, <1>21, <1>22, <1>23, <1>24
     DEF Next, ClientNext, ServerNext, vars, clientVars, serverVars, LateArrival, OtherScorer,
         CompletionEnds, OthersEndMatch, GoOffline, GoOnline, SubmitCompletion

\* Whatever is lost, resent, late or not saved, a confirmed action points at
\* an event that carries it (MARK_CONFIRMED, RECONCILE).
THEOREM ConfirmedIsOnLog == Spec => []ConfirmedOnLog
<1>1. Init => PInv
  BY InitType DEF Init, PInv, CreatedOnLog, ConfirmedOnLog, SavedOnLog, Saved, Idle
<1>2. PInv => ConfirmedOnLog
  BY DEF PInv
<1> QED BY <1>1, <1>2, ConfirmedStep, PTL DEF Spec

-----------------------------------------------------------------------------
(* One correction per action, as long as localStorage follows the queue.   *)

Saves == "unsaved" \notin Faults
DiskFollows == disk = Saved(status, serverSeq)

\* A POST in flight carries the action marked sending.
SendingInFlight == call.op = "post" => status[call.action] = "sending"

\* What was not recorded is blank, not queued and under way nowhere.
MintedOnly == /\ \A c \in Actions : c > minted => status[c] = "none" /\ body[c] = Blank
              /\ \A c \in late : c <= minted

\* An event is what its action asked for.
LogCarries == \A i \in DOMAIN log : log[i].action # Foreign =>
  /\ log[i].action <= minted
  /\ log[i].cancels = body[log[i].action].cancels

\* A correction takes back a confirmed action, which leaves the queue no later
\* than the correction does.
Leaves(t, d) == status[t] \in {"confirmed", "none"} /\ (status[d] = "none" => status[t] = "none")
TargetLeaves == \A d \in Actions : body[d].kind = "correction" =>
  /\ body[d].cancels \in DOMAIN log
  /\ log[body[d].cancels].action \in Actions
  /\ Leaves(log[body[d].cancels].action, d)

UInv == /\ CInv /\ PInv /\ DiskFollows /\ SendingInFlight /\ MintedOnly /\ LogCarries
        /\ TargetLeaves /\ OneCorrectionPerAction

\* An event that cancels comes after the event it cancels, so a page that
\* shows the correction shows its target too.
LEMMA TargetOnPage ==
  ASSUME UInv, NEW d \in Actions, body[d].kind = "correction", NEW n \in 0..Len(log), OnPage(d, n)
  PROVE  OnPage(log[body[d].cancels].action, n)
<1>1. DOMAIN log = 1..Len(log) /\ Len(log) \in Nat
  BY DEF UInv, PInv, TypeOK
<1>2. PICK j \in 1..n : log[j].action = d
  BY DEF OnPage, Hits
<1>3. d # Foreign /\ body[d].cancels # 0 /\ j \in DOMAIN log
  BY <1>1, BoundsAssumption DEF UInv, CInv, BodySound, Foreign, Actions
<1>4. log[j].cancels = body[d].cancels
  BY <1>2, <1>3 DEF UInv, LogCarries
<1>5. body[d].cancels \in 1..n
  <2>1. body[d].cancels < j
    BY <1>3, <1>4 DEF UInv, CInv, CorrectionsSound
  <2>2. body[d].cancels \in Nat
    BY <1>1 DEF UInv, TargetLeaves
  <2> QED BY <1>1, <1>3, <2>1, <2>2
<1> QED BY <1>5 DEF OnPage, Hits

\* Pruning takes the target of a correction with the correction, or before it.
LEMMA PruneKeeps ==
  ASSUME UInv, NEW n \in 0..Len(log), UNCHANGED <<body, log>>,
         \A c \in Actions : \/ status'[c] = Pruned(status[c], c, n)
                            \/ status'[c] = Pruned(Reconciled(c, n), c, n)
  PROVE  TargetLeaves'
<1>1. \A c \in Actions : status[c] \in {"confirmed", "none"} =>
        status'[c] = IF status[c] = "confirmed" /\ OnPage(c, n) THEN "none" ELSE status[c]
  BY DEF Pruned, Reconciled, Unsettled
<1>2. \A c \in Actions : status'[c] = "none" => status[c] = "none" \/ OnPage(c, n)
  BY DEF Pruned, Reconciled
<1>3. ASSUME NEW d \in Actions, body[d].kind = "correction"
      PROVE  Leaves(log[body[d].cancels].action, d)'
  <2> DEFINE t == log[body[d].cancels].action
  <2>1. t \in Actions /\ Leaves(t, d)
    BY <1>3 DEF UInv, TargetLeaves
  <2>2. status[d] # "none" /\ status'[d] = "none" => OnPage(t, n)
    BY <1>2, <1>3, TargetOnPage
  <2>3. t' = t
    OBVIOUS
  <2> HIDE DEF t
  <2>4. status'[t] \in {"confirmed", "none"} /\ (status'[d] = "none" => status'[t] = "none")
    BY <1>1, <2>1, <2>2 DEF Leaves
  <2> QED BY <2>3, <2>4 DEF Leaves, t
<1> QED BY <1>3 DEF UInv, TargetLeaves

\* Steps that neither prune nor record: what is confirmed or gone stays so.
LEMMA StatusKeeps ==
  ASSUME UInv, [Next]_vars, UNCHANGED body,
         \A c \in Actions : \/ status'[c] = status[c]
                            \/ /\ status[c] \notin {"confirmed", "none"}
                               /\ status'[c] = "none" => body[c].kind # "correction"
  PROVE  TargetLeaves'
<1>1. \A i \in DOMAIN log : i \in DOMAIN log' /\ log'[i] = log[i]
  BY LogGrows DEF UInv, PInv
<1>2. ASSUME NEW d \in Actions, body[d].kind = "correction"
      PROVE  /\ body[d].cancels \in DOMAIN log'
             /\ log'[body[d].cancels].action \in Actions
             /\ Leaves(log[body[d].cancels].action, d)'
  <2> DEFINE t == log[body[d].cancels].action
  <2>1. body[d].cancels \in DOMAIN log /\ t \in Actions /\ Leaves(t, d)
    BY <1>2 DEF UInv, TargetLeaves
  <2>2. log'[body[d].cancels] = log[body[d].cancels] /\ body[d].cancels \in DOMAIN log'
    BY <1>1, <2>1
  <2>3. t' = t
    BY <2>2
  <2> HIDE DEF t
  <2>4. status'[t] = status[t]
    BY <2>1 DEF Leaves
  <2>5. status'[d] = "none" => status[d] = "none"
    BY <1>2
  <2> QED BY <2>1, <2>2, <2>3, <2>4, <2>5 DEF Leaves, t
<1> QED BY <1>2 DEF TargetLeaves

\* An event of an action that was recorded is what that action asked for.
LEMMA RecordCarries ==
  ASSUME UInv, NEW c \in 0..MaxActions, NEW b \in Body, Record(c, b), UNCHANGED <<body, minted>>,
         c # Foreign => c <= minted /\ b = body[c]
  PROVE  LogCarries'
<1>1. /\ log' \in Seq(Event) /\ Len(log') = Len(log) + 1 /\ Len(log) \in Nat
      /\ \A i \in 1..Len(log) : log'[i] = log[i]
      /\ log'[Len(log) + 1] = [action |-> c, cancels |-> b.cancels]
  BY RecordAppends DEF UInv, PInv, TypeOK
<1>2. DOMAIN log = 1..Len(log) /\ DOMAIN log' = 1..(Len(log) + 1)
  BY <1>1 DEF UInv, PInv, TypeOK
<1> QED BY <1>1, <1>2 DEF UInv, LogCarries

\* A new action is in nobody's way.
LEMMA EnqueueKeeps ==
  ASSUME UInv, CInv', PInv', Saves, NEW b \in Body, Enqueue(b),
         UNCHANGED <<call, log, late>>,
         b.kind = "correction" =>
           /\ b.cancels \in DOMAIN log /\ log[b.cancels].action \in Actions
           /\ status[log[b.cancels].action] = "confirmed"
           /\ \A d \in Actions : body[d].kind = "correction" => body[d].cancels # b.cancels
  PROVE  UInv'
<1> DEFINE new == minted + 1
<1>1. new \in Actions /\ minted \in Nat /\ minted' = new /\ Len(log) \in Nat
  BY BoundsAssumption DEF Enqueue, UInv, PInv, TypeOK, Actions
<1>2. /\ status[new] = "none" /\ status'[new] = "pending" /\ body'[new] = b
      /\ \A c \in Actions \ {new} : status'[c] = status[c] /\ body'[c] = body[c]
      /\ \A c \in Actions : c <= minted => c # new
  BY <1>1 DEF Enqueue, UInv, PInv, TypeOK, MintedOnly, Actions
<1> HIDE DEF new
<1>3. DiskFollows'
  BY DEF Enqueue, Persist, Saves, DiskFollows
<1>4. SendingInFlight'
  <2>1. call.op = "post" => call.action \in Actions /\ status[call.action] = "sending"
    BY DEF UInv, SendingInFlight, PInv, TypeOK
  <2> QED BY <1>2, <2>1 DEF SendingInFlight
<1>5. MintedOnly'
  <2>1. \A c \in Actions : c > minted' => c > minted /\ c # new
    BY <1>1 DEF new, Actions
  <2>2. \A c \in late : c <= minted'
    BY <1>1, BoundsAssumption DEF new, UInv, MintedOnly, PInv, TypeOK, Actions
  <2> QED BY <1>2, <2>1, <2>2 DEF UInv, MintedOnly
<1>6. LogCarries'
  <2> SUFFICES ASSUME NEW i \in DOMAIN log, log[i].action # Foreign
               PROVE  log[i].action <= minted' /\ log[i].cancels = body'[log[i].action].cancels
    BY DEF LogCarries
  <2>1. log[i].action \in Actions
    <3>1. i \in 1..Len(log) /\ log \in Seq(Event)
      BY DEF UInv, PInv, TypeOK
    <3>2. log[i] \in Event
      BY <3>1
    <3>3. log[i].action \in 0..MaxActions
      BY <3>2 DEF Event
    <3> QED BY <3>3, BoundsAssumption DEF Actions, Foreign
  <2>2. log[i].action <= minted /\ log[i].cancels = body[log[i].action].cancels
    BY DEF UInv, LogCarries
  <2>3. log[i].action <= new
    BY <1>1, <2>1, <2>2 DEF new, Actions
  <2> QED BY <1>1, <1>2, <2>1, <2>2, <2>3
<1>7. TargetLeaves'
  <2> SUFFICES ASSUME NEW d \in Actions, body'[d].kind = "correction"
               PROVE  LET t == log[body'[d].cancels].action IN
                      /\ body'[d].cancels \in DOMAIN log /\ t \in Actions
                      /\ status'[t] \in {"confirmed", "none"}
                      /\ status'[d] = "none" => status'[t] = "none"
    BY DEF TargetLeaves, Leaves
  <2> DEFINE s == body'[d].cancels
             t == log[s].action
  <2>1. CASE d = new
    <3>1. s \in DOMAIN log /\ t \in Actions /\ status[t] = "confirmed" /\ status'[d] = "pending"
      BY <1>2, <2>1
    <3> HIDE DEF s, t
    <3>2. status'[t] = "confirmed"
      BY <1>2, <3>1
    <3> QED BY <3>1, <3>2 DEF t, s
  <2>2. CASE d # new
    <3>1. s = body[d].cancels /\ status'[d] = status[d] /\ body[d].kind = "correction"
      BY <1>2, <2>2
    <3>2. s \in DOMAIN log /\ t \in Actions /\ Leaves(t, d)
      BY <3>1 DEF UInv, TargetLeaves
    <3>3. t <= minted
      BY <3>2 DEF UInv, LogCarries, Actions, Foreign
    <3> HIDE DEF s, t
    <3>4. status'[t] = status[t]
      BY <1>2, <3>2, <3>3
    <3> QED BY <3>1, <3>2, <3>4 DEF t, s, Leaves
  <2> QED BY <2>1, <2>2
<1>8. OneCorrectionPerAction'
  BY <1>2 DEF UInv, OneCorrectionPerAction
<1> QED BY <1>3, <1>4, <1>5, <1>6, <1>7, <1>8 DEF UInv

LEMMA UndoStep == Saves /\ UInv /\ [Next]_vars => UInv'
<1> SUFFICES ASSUME Saves, UInv, [Next]_vars PROVE UInv'
  OBVIOUS
<1>1. /\ TypeOK /\ CInv' /\ PInv'
      /\ call.op = "post" => call.action \in Actions /\ status[call.action] = "sending"
  BY CorrectionsStep, ConfirmedStep DEF UInv, CInv, TypeOK, SendingInFlight
<1>2. \A c \in Actions : status[c] # "none" => c <= minted
  BY <1>1, BoundsAssumption DEF UInv, MintedOnly, TypeOK, Actions
<1>3. ASSUME Persist PROVE DiskFollows'
  BY <1>3 DEF Persist, Saves, DiskFollows
\* Steps that add no event and no action: the shape of the queue is left.
<1>4. ASSUME UNCHANGED <<body, minted, log>>, late' \in Abandoned,
             DiskFollows', SendingInFlight', TargetLeaves',
             \A c \in Actions : status[c] = "none" => status'[c] = "none"
      PROVE  UInv'
  <2>1. \A c \in late' : c <= minted
    BY <1>1, <1>2, <1>4 DEF Abandoned, UInv, MintedOnly
  <2>2. (MintedOnly /\ LogCarries /\ OneCorrectionPerAction)'
    BY <1>4, <2>1 DEF UInv, MintedOnly, LogCarries, OneCorrectionPerAction
  <2> QED BY <1>1, <1>4, <2>2 DEF UInv
<1>5. late \in Abandoned
  BY DEF Abandoned
<1>6. Idle.op = "idle"
  BY DEF Idle
<1>7. ASSUME NEW k \in Kinds, ScorerActs(k) PROVE UInv'
  <2>1. [kind |-> k, cancels |-> 0] \in Body /\ [kind |-> k, cancels |-> 0].kind # "correction"
    BY <1>7, BoundsAssumption DEF Body, ScorerActs
  <2>2. UNCHANGED <<call, log, late>> /\ Enqueue([kind |-> k, cancels |-> 0])
    BY <1>7 DEF ScorerActs, serverVars
  <2> QED BY <1>1, <2>1, <2>2, EnqueueKeeps
<1>8. ASSUME NEW c \in Actions, UndoByCorrection(c) PROVE UInv'
  <2> DEFINE b == [kind |-> "correction", cancels |-> serverSeq[c]]
  <2>1. b \in Body /\ b.cancels = serverSeq[c]
    BY <1>1 DEF TypeOK, Body, Kinds
  <2>2. UNCHANGED <<call, log, late>> /\ Enqueue(b)
    BY <1>8 DEF UndoByCorrection, serverVars
  <2> HIDE DEF b
  <2>3. status[c] = "confirmed" /\ serverSeq[c] # 0 /\ serverSeq[c] \notin CancelledIds
    BY <1>8 DEF UndoByCorrection, UndoTarget, Active
  <2>4. serverSeq[c] \in DOMAIN log /\ log[serverSeq[c]].action = c
    BY <2>3 DEF UInv, PInv, ConfirmedOnLog
  <2>5. ASSUME NEW d \in Actions, body[d].kind = "correction", body[d].cancels = serverSeq[c] PROVE FALSE
    <3>1. status[d] # "none"
      BY <2>3, <2>4, <2>5 DEF UInv, TargetLeaves, Leaves
    <3> QED BY <2>3, <2>5, <3>1 DEF CancelledIds, Queued
  <2> QED BY <1>1, <2>1, <2>2, <2>3, <2>4, <2>5, EnqueueKeeps
<1>9. ASSUME NEW c \in Actions, UndoLocal(c) PROVE UInv'
  <2>1. body[c].kind = "scoring" /\ status[c] = "pending"
    BY <1>9 DEF UndoLocal, UndoTarget, Active
  <2>2. \A d \in Actions : status'[d] = status[d] \/ (d = c /\ status'[d] = "none")
    BY <1>1, <1>9 DEF UndoLocal, TypeOK
  <2>3. UNCHANGED <<body, minted, log, late, call>> /\ Persist
    BY <1>9 DEF UndoLocal, serverVars
  <2>4. TargetLeaves'
    BY <2>1, <2>2, <2>3, StatusKeeps
  <2>5. SendingInFlight'
    BY <1>1, <2>1, <2>2, <2>3 DEF SendingInFlight
  <2> QED BY <1>3, <1>4, <1>5, <2>2, <2>3, <2>4, <2>5
<1>10. ASSUME UNCHANGED <<status, body, minted, log, serverSeq, disk>>, late' \in Abandoned,
              call'.op # "post" \/ call' = call
       PROVE  UInv'
  <2>1. TargetLeaves'
    BY <1>10, StatusKeeps
  <2>2. DiskFollows' /\ SendingInFlight'
    BY <1>10 DEF UInv, DiskFollows, Saved, SendingInFlight
  <2> QED BY <1>4, <1>10, <2>1, <2>2
<1>11. ASSUME NEW c \in Actions, StartReconcile(c) PROVE UInv'
  <2>1. call'.op = "get"
    BY <1>11 DEF StartReconcile, Idle
  <2> QED BY <1>5, <1>10, <1>11, <2>1 DEF StartReconcile, serverVars
<1>12. ASSUME NEW c \in Actions, StartSend(c) PROVE UInv'
  <2>1. status' = [status EXCEPT ![c] = "sending"] /\ call'.action = c /\ status[c] = "pending"
    BY <1>12 DEF StartSend, HeadPending, First, Idle
  <2>2. \A d \in Actions : status'[d] = status[d] \/ (d = c /\ status'[d] = "sending")
    BY <1>1, <2>1 DEF TypeOK
  <2>3. UNCHANGED <<body, minted, log, late>> /\ Persist
    BY <1>12 DEF StartSend, serverVars
  <2>4. TargetLeaves'
    BY <2>1, <2>2, <2>3, StatusKeeps
  <2>5. SendingInFlight'
    BY <1>1, <2>1 DEF SendingInFlight, TypeOK
  <2> QED BY <1>3, <1>4, <1>5, <2>1, <2>2, <2>3, <2>4, <2>5
\* A request has ended: only what it carried changes its status.
<1>13. ASSUME PostConfirmed \/ PostRefused \/ PostFailed PROVE UInv'
  <2>1. /\ call.op = "post" /\ call' = Idle /\ Persist
        /\ UNCHANGED <<body, minted, log>> /\ late' \in Abandoned
    BY <1>5, <1>13 DEF PostConfirmed, PostRefused, PostFailed, serverVars
  <2>2. \A d \in Actions : status'[d] = status[d] \/ (status[d] = "sending" /\ status'[d] # "none")
    BY <1>1, <1>13 DEF PostConfirmed, PostRefused, PostFailed, TypeOK
  <2>3. TargetLeaves'
    BY <2>1, <2>2, StatusKeeps
  <2>4. SendingInFlight'
    BY <1>6, <2>1 DEF SendingInFlight
  <2> QED BY <1>3, <1>4, <2>1, <2>2, <2>3, <2>4
<1>14. CASE ReconcileAnswered
  <2>1. PageLength \in 0..Len(log)
    BY <1>1, PageIsPrefix
  <2>2. /\ \A c \in Actions : status'[c] = Pruned(Reconciled(c, PageLength), c, PageLength)
        /\ UNCHANGED <<body, minted, log, late>> /\ call' = Idle /\ Persist
    BY <1>14 DEF ReconcileAnswered, serverVars
  <2>3. TargetLeaves'
    BY <2>1, <2>2, PruneKeeps
  <2>4. \A c \in Actions : status[c] = "none" => status'[c] = "none"
    BY <2>2 DEF Pruned, Reconciled, Unsettled
  <2>5. SendingInFlight'
    BY <1>6, <2>2 DEF SendingInFlight
  <2> QED BY <1>3, <1>4, <1>5, <2>2, <2>3, <2>4, <2>5
<1>15. CASE ReconcileFailed
  BY <1>5, <1>6, <1>10, <1>15 DEF ReconcileFailed, serverVars
<1>16. CASE SaveQueue
  BY <1>16 DEF SaveQueue, Saves
<1>17. CASE Reload
  <2>1. disk.status = status
    BY DEF UInv, DiskFollows, Saved
  <2>2. \A c \in Actions : status'[c] = Normalized(status[c])
    BY <1>17, <2>1 DEF Reload
  <2>3. /\ call' = Idle /\ Persist /\ late' \in Abandoned /\ UNCHANGED <<body, minted, log>>
    BY <1>17 DEF Reload
  <2>4. \A c \in Actions : status'[c] = status[c] \/ (status[c] = "sending" /\ status'[c] = "needs_reconcile")
    BY <2>2 DEF Normalized
  <2>5. TargetLeaves'
    BY <2>3, <2>4, StatusKeeps
  <2>6. SendingInFlight'
    BY <1>6, <2>3 DEF SendingInFlight
  <2> QED BY <1>3, <1>4, <2>3, <2>4, <2>5, <2>6
<1>18. CASE RefreshView
  <2>1. PageLength \in 0..Len(log)
    BY <1>1, PageIsPrefix
  <2>2. /\ \A c \in Actions : status'[c] = Pruned(status[c], c, PageLength)
        /\ UNCHANGED <<body, minted, log, late, call>> /\ Persist
    BY <1>18 DEF RefreshView, serverVars
  <2>3. TargetLeaves'
    BY <2>1, <2>2, PruneKeeps
  <2>4. \A c \in Actions : /\ status[c] = "none" => status'[c] = "none"
                           /\ status[c] = "sending" => status'[c] = "sending"
    BY <2>2 DEF Pruned
  <2>5. SendingInFlight'
    BY <1>1, <2>2, <2>4 DEF SendingInFlight
  <2> QED BY <1>3, <1>4, <1>5, <2>2, <2>3, <2>4, <2>5
\* An event is added: the queue is left.
<1>19. ASSUME NEW c \in 0..MaxActions, NEW b \in Body, Record(c, b),
              c # Foreign => c <= minted /\ b = body[c],
              UNCHANGED <<status, serverSeq, disk, body, minted>>,
              late' \subseteq late, call' = call \/ (call'.op = call.op /\ call'.action = call.action)
       PROVE  UInv'
  <2>1. LogCarries'
    BY <1>19, RecordCarries
  <2>2. TargetLeaves'
    BY <1>19, StatusKeeps
  <2>3. (DiskFollows /\ SendingInFlight /\ MintedOnly /\ OneCorrectionPerAction)'
    BY <1>19 DEF UInv, DiskFollows, Saved, SendingInFlight, MintedOnly, OneCorrectionPerAction
  <2> QED BY <1>1, <2>1, <2>2, <2>3 DEF UInv
<1>20. CASE ServerRecords
  <2>1. /\ call.action \in Actions /\ status[call.action] = "sending"
        /\ call'.op = call.op /\ call'.action = call.action
    BY <1>1, <1>20 DEF ServerRecords, TypeOK, Call
  <2>2. call.action <= minted /\ call.action \in 0..MaxActions /\ body[call.action] \in Body
    BY <1>1, <1>2, <2>1 DEF TypeOK, Actions
  <2>3. Record(call.action, body[call.action]) /\ UNCHANGED <<status, serverSeq, disk, body, minted, late>>
    BY <1>20 DEF ServerRecords
  <2> QED BY <1>19, <2>1, <2>2, <2>3
<1>21. CASE ServerRejects
  <2>1. call'.op = call.op /\ call'.action = call.action
    BY <1>1, <1>21 DEF ServerRejects, TypeOK, Call
  <2>2. UNCHANGED <<status, serverSeq, disk, body, minted, log, late>>
    BY <1>21 DEF ServerRejects, serverVars
  <2>3. DiskFollows' /\ SendingInFlight' /\ TargetLeaves'
    BY <2>1, <2>2, StatusKeeps DEF UInv, DiskFollows, Saved, SendingInFlight
  <2> QED BY <1>4, <1>5, <2>2, <2>3
<1>22. ASSUME NEW c \in Actions, LateArrival(c) PROVE UInv'
  <2>1. c \in late /\ late' = late \ {c} /\ UNCHANGED <<status, serverSeq, disk, body, minted, call>>
    BY <1>22 DEF LateArrival, clientVars
  <2>2. c \in 0..MaxActions /\ body[c] \in Body /\ c <= minted
    BY <1>1, <2>1 DEF TypeOK, Actions, UInv, MintedOnly
  <2>3. CASE Record(c, body[c])
    BY <1>19, <2>1, <2>2, <2>3
  <2>4. CASE UNCHANGED log
    <3>1. (DiskFollows /\ SendingInFlight /\ MintedOnly /\ LogCarries /\ OneCorrectionPerAction)'
      BY <2>1, <2>4 DEF UInv, DiskFollows, Saved, SendingInFlight, MintedOnly, LogCarries, OneCorrectionPerAction
    <3>2. TargetLeaves'
      BY <2>1, StatusKeeps
    <3> QED BY <1>1, <3>1, <3>2 DEF UInv
  <2> QED BY <1>22, <2>3, <2>4 DEF LateArrival
<1>23. ASSUME NEW b \in Body, OtherScorer(b) PROVE UInv'
  <2>1. Foreign \in 0..MaxActions /\ Record(Foreign, b)
    BY <1>23, BoundsAssumption DEF Foreign, OtherScorer
  <2>2. UNCHANGED <<status, serverSeq, disk, body, minted, late, call>>
    BY <1>23 DEF OtherScorer, clientVars
  <2> QED BY <1>19, <2>1, <2>2
<1>24. ASSUME UNCHANGED <<status, body, minted, log, serverSeq, disk, late, call>> PROVE UInv'
  BY <1>5, <1>10, <1>24
<1> QED
  BY <1>7, <1>8, <1>9, <1>11, <1>12, <1>13, <1>14, <1>15, <1>16, <1>17, <1>18, <1>20, <1>21, <1>22, <1>23, <1>24
     DEF Next, ClientNext, ServerNext, vars, clientVars, serverVars, CompletionEnds, OthersEndMatch,
         GoOffline, GoOnline, SubmitCompletion

\* selectUndoTarget: "an action can't be undone twice", whatever is lost,
\* resent, late or beyond the page, as long as localStorage follows the queue
\* (a queue that lags forgets a correction the scorer asked for).
THEOREM UndoneAtMostOnce ==
  ASSUME Saves
  PROVE  Spec => []OneCorrectionPerAction
<1>1. Init => UInv
  <2> SUFFICES ASSUME Init PROVE UInv
    OBVIOUS
  <2>1. CInv /\ PInv
    BY InitType DEF Init, CInv, BodySound, CorrectionsSound, Blank, PInv, CreatedOnLog, ConfirmedOnLog,
       SavedOnLog, Saved, Idle
  <2>2. \A c \in Actions : body[c] = Blank /\ Blank.kind # "correction"
    BY DEF Init, Blank
  <2>3. DiskFollows /\ SendingInFlight /\ MintedOnly /\ LogCarries
    BY <2>2 DEF Init, DiskFollows, SendingInFlight, MintedOnly, LogCarries, Idle
  <2>4. TargetLeaves /\ OneCorrectionPerAction
    BY <2>2 DEF TargetLeaves, OneCorrectionPerAction
  <2> QED BY <2>1, <2>3, <2>4 DEF UInv
<1>2. UInv => OneCorrectionPerAction
  BY DEF UInv
<1> QED BY <1>1, <1>2, UndoStep, PTL DEF Spec
=============================================================================

---------------------------- MODULE ScoringQueue ----------------------------
(***************************************************************************)
(* The live scorer's offline queue (frontend/src/hooks/use-scoring-queue.ts*)
(* and frontend/src/lib/scoring) against the server's append-only event    *)
(* log of one match.                                                       *)
(*                                                                         *)
(* One browser tab records actions, sends them one at a time, and asks the *)
(* server's log what became of a request whose answer it did not get.  The *)
(* network loses requests and answers, the tab reloads at any moment, and  *)
(* other devices append to the same log.                                   *)
(*                                                                         *)
(* The i-th recorded action is identified with i: client_event_id and      *)
(* localSeq are both minted per action and both grow, and the array        *)
(* `actions` is always in that order.  A server event's id is its          *)
(* sequence_number, the position in the log.                               *)
(***************************************************************************)
EXTENDS Naturals, Sequences, FiniteSets

CONSTANTS MaxActions,  \* bound: actions recorded in this tab
          MaxLog,      \* bound: events on the match's log
          PageLimit,   \* events one GET of the log returns
          Faults       \* environment faults: a subset of FaultKinds

FaultKinds == {"late_post",  \* a POST the client gave up on still arrives
               "unsaved",    \* localStorage lags the queue in memory
               "offline"}    \* the browser loses its connection

ASSUME BoundsAssumption == /\ MaxActions \in Nat
                           /\ MaxLog \in Nat
                           /\ PageLimit \in Nat
                           /\ Faults \subseteq FaultKinds

Actions == 1..MaxActions
Foreign == 0

VARIABLES
  status,     \* per action: its ActionStatus, or "none" when it is not queued
  serverSeq,  \* per action: the serverSequence the queue knows, or 0
  body,       \* per action: what it asks the server to record
  minted,     \* how many actions have been recorded
  disk,       \* what localStorage holds
  call,       \* the one request the driver effect is waiting for
  online,     \* navigator.onLine
  view,       \* how many events the displayed log (react-query cache) holds
  log,        \* the server's event log
  live,       \* the match is live on the server
  late,       \* abandoned POSTs that have not reached the server yet
  completing, \* the completion PATCH is on its way
  removed,    \* history: actions taken back with a local undo
  gate        \* history: actions standing when completion was submitted

clientVars == <<status, serverSeq, body, minted, disk, call, online, view>>
serverVars == <<log, live, late, completing>>
vars == <<clientVars, serverVars, removed, gate>>

-----------------------------------------------------------------------------
(* The queue's records.                                                    *)

Statuses == {"pending", "sending", "needs_reconcile", "confirmed",
             "failed_permanent"}
Unsettled == {"pending", "sending", "needs_reconcile"}

Kinds == {"scoring", "plain", "correction"}
Body == [kind : Kinds, cancels : 0..MaxLog]
Blank == [kind |-> "plain", cancels |-> 0]

\* A row of match_events: the action that asked for it and the event it cancels.
Event == [action : 0..MaxActions, cancels : 0..MaxLog]

Idle == [op |-> "idle", action |-> 0, phase |-> "flight", seq |-> 0]
Call == [op : {"idle", "get", "post"}, action : 0..MaxActions,
         phase : {"flight", "created", "rejected"}, seq : 0..MaxLog]

Queued == {c \in Actions : status[c] # "none"}
Saved(st, sq) == [status |-> st, serverSeq |-> sq]

\* Mutant: the effect saves the queue of the render before the change.
PersistStale == disk' = Saved(status, serverSeq)

\* The persistence effect: localStorage follows every change of the queue,
\* except under the fault "unsaved" (effect not run yet, quota, private mode).
Persist == disk' = IF "unsaved" \in Faults THEN disk
                   ELSE Saved(status', serverSeq')

-----------------------------------------------------------------------------
(* What the log tells the client.                                          *)

Min2(a, b) == IF a <= b THEN a ELSE b

\* GET /events returns the first page of the log, in sequence order.
PageLength == Min2(Len(log), PageLimit)

Hits(c, n) == {i \in 1..n : log[i].action = c}
OnPage(c, n) == Hits(c, n) # {}

\* buildConfirmedMap: a later event with the same id overwrites an earlier one.
LastHit(c, n) == CHOOSE i \in Hits(c, n) : \A j \in Hits(c, n) : j <= i

Landed(c) == \E i \in DOMAIN log : log[i].action = c

\* RECONCILE against the first n events: found means confirmed; only an
\* action waiting for the verdict becomes pending again when it is absent.
Reconciled(c, n) ==
  IF status[c] \in Unsettled /\ OnPage(c, n) THEN "confirmed"
  ELSE IF status[c] = "needs_reconcile" THEN "pending"
  ELSE status[c]

\* PRUNE_CONFIRMED: a confirmed action the server log shows leaves the queue.
Pruned(s, c, n) == IF s = "confirmed" /\ OnPage(c, n) THEN "none" ELSE s

\* Mutant: an action in flight before a reload is left in flight.
NormalizedNever(s) == s

\* NORMALIZE_ON_LOAD: what was in flight before a reload is in doubt.
Normalized(s) == IF s = "sending" THEN "needs_reconcile" ELSE s

-----------------------------------------------------------------------------
(* The log's own rules: match_events.CreateWithAudit under the match lock. *)

\* Mutant: a corrected event may be corrected again.
CorrectionOfAnyEvent(t) == t \in DOMAIN log /\ log[t].cancels = 0

\* Step 7 of CreateWithAudit: the target exists, is no correction itself and
\* is not cancelled yet.
CorrectionAllowed(t) == /\ t \in DOMAIN log
                        /\ log[t].cancels = 0
                        /\ \A i \in DOMAIN log : log[i].cancels # t

Acceptable(b) == live /\ (b.kind = "correction" => CorrectionAllowed(b.cancels))

\* Mutant: the sequence of the previous event.
StaleSequence == Len(log)

\* Step 8: MAX(sequence_number) + 1.
NextSequence == Len(log) + 1

\* Steps 8 and 9; the log never has gaps, so the sequence is the position.
Record(c, b) == log' = Append(log, [action |-> c, cancels |-> b.cancels])

-----------------------------------------------------------------------------
(* The scorer's hands.                                                     *)

Enqueue(b) ==
  /\ minted < MaxActions
  /\ minted' = minted + 1
  /\ status' = [status EXCEPT ![minted + 1] = "pending"]
  /\ body' = [body EXCEPT ![minted + 1] = b]
  /\ UNCHANGED serverSeq
  /\ Persist

\* ENQUEUE from a scoring button or a lifecycle control.
ScorerActs(k) ==
  /\ k \in {"scoring", "plain"}
  /\ Enqueue([kind |-> k, cancels |-> 0])
  /\ UNCHANGED <<call, online, view, serverVars, removed, gate>>

\* Mutant: queued corrections are not counted.
CancelledOnServer == {log[i].cancels : i \in 1..view}

\* selectUndoTarget: the ids cancelled on the displayed log or by a queued
\* correction, and the latest scoring action that still counts.
CancelledIds == {log[i].cancels : i \in 1..view}
                  \cup {body[c].cancels : c \in Queued}
Active == {c \in Queued : /\ body[c].kind = "scoring"
                          /\ status[c] # "failed_permanent"
                          /\ (serverSeq[c] = 0 \/ serverSeq[c] \notin CancelledIds)}
UndoTarget(c) == c \in Active /\ \A d \in Active : d <= c

\* Undo of an action that was never sent: REMOVE_LOCAL, pending only.
UndoLocal(c) ==
  /\ UndoTarget(c)
  /\ status[c] = "pending"
  /\ status' = [status EXCEPT ![c] = "none"]
  /\ removed' = removed \cup {c}
  /\ UNCHANGED <<serverSeq, body, minted, call, online, view, serverVars, gate>>
  /\ Persist

\* Undo of a confirmed action: a correction of its server id is queued.
UndoByCorrection(c) ==
  /\ UndoTarget(c)
  /\ status[c] = "confirmed" /\ serverSeq[c] # 0
  /\ Enqueue([kind |-> "correction", cancels |-> serverSeq[c]])
  /\ UNCHANGED <<call, online, view, serverVars, removed, gate>>

-----------------------------------------------------------------------------
(* The driver effect: one step at a time, a doubt resolved before a send.  *)

DriverReady == /\ call.op = "idle" /\ online
               /\ \A c \in Actions : status[c] # "sending"

First(c, s) == /\ status[c] = s
               /\ \A d \in Actions : d < c => status[d] # s

\* Mutant: any pending action may go first.
AnyPending(c) == /\ status[c] = "pending"
                 /\ \A d \in Actions : status[d] # "needs_reconcile"

\* firstNeedsReconcile(state) ?? firstPending(state)
HeadInDoubt(c) == First(c, "needs_reconcile")
HeadPending(c) == /\ First(c, "pending")
                  /\ \A d \in Actions : status[d] # "needs_reconcile"

\* The head is in doubt: GET the log.
StartReconcile(c) ==
  /\ DriverReady
  /\ HeadInDoubt(c)
  /\ call' = [Idle EXCEPT !.op = "get", !.action = c]
  /\ UNCHANGED <<status, serverSeq, body, minted, disk, online, view,
                 serverVars, removed, gate>>

\* The head is pending: MARK_SENDING, then the POST leaves.  In the code it is
\* the head of the last render; an undo between the two is left out.
StartSend(c) ==
  /\ DriverReady
  /\ HeadPending(c)
  /\ status' = [status EXCEPT ![c] = "sending"]
  /\ call' = [Idle EXCEPT !.op = "post", !.action = c]
  /\ UNCHANGED <<serverSeq, body, minted, online, view, serverVars, removed, gate>>
  /\ Persist

\* The GET's answer: RECONCILE, PRUNE_CONFIRMED.
ReconcileAnswered ==
  /\ call.op = "get"
  /\ LET n == PageLength IN
       /\ status' = [c \in Actions |-> Pruned(Reconciled(c, n), c, n)]
       /\ serverSeq' = [c \in Actions |->
                          IF status[c] \in Unsettled /\ OnPage(c, n)
                          THEN LastHit(c, n) ELSE serverSeq[c]]
  /\ call' = Idle
  /\ UNCHANGED <<body, minted, online, view, serverVars, removed, gate>>
  /\ Persist

\* The GET failed: the action stays in doubt, a backoff timer wakes the driver.
ReconcileFailed ==
  /\ call.op = "get"
  /\ call' = Idle
  /\ UNCHANGED <<status, serverSeq, body, minted, disk, online, view,
                 serverVars, removed, gate>>

\* 201: MARK_CONFIRMED with the event's id.
PostConfirmed ==
  /\ call.op = "post" /\ call.phase = "created"
  /\ status' = [status EXCEPT ![call.action] = "confirmed"]
  /\ serverSeq' = [serverSeq EXCEPT ![call.action] = call.seq]
  /\ call' = Idle
  /\ UNCHANGED <<body, minted, online, view, serverVars, removed, gate>>
  /\ Persist

\* 4xx: isPermanentError, MARK_FAILED.
PostRefused ==
  /\ call.op = "post" /\ call.phase = "rejected"
  /\ status' = [status EXCEPT ![call.action] = "failed_permanent"]
  /\ call' = Idle
  /\ UNCHANGED <<serverSeq, body, minted, online, view, serverVars, removed, gate>>
  /\ Persist

\* A POST whose connection is given up: it may or may not have been handled,
\* and under "late_post" one that was not may still be on its way.
Abandoned == IF "late_post" \in Faults /\ call.op = "post" /\ call.phase = "flight"
             THEN {late, late \cup {call.action}} ELSE {late}

\* No answer or 5xx: MARK_NEEDS_RECONCILE.
PostFailed ==
  /\ call.op = "post"
  /\ status' = [status EXCEPT ![call.action] = "needs_reconcile"]
  /\ late' \in Abandoned
  /\ call' = Idle
  /\ UNCHANGED <<serverSeq, body, minted, online, view, log, live, completing,
                 removed, gate>>
  /\ Persist

-----------------------------------------------------------------------------
(* The browser around the queue.                                           *)

\* The localStorage write of a lagging save; only under the fault "unsaved".
SaveQueue ==
  /\ "unsaved" \in Faults
  /\ disk' = Saved(status, serverSeq)
  /\ UNCHANGED <<status, serverSeq, body, minted, call, online, view,
                 serverVars, removed, gate>>

\* Reload or crash: the queue comes back from localStorage, normalized.
Reload ==
  /\ status' = [c \in Actions |-> Normalized(disk.status[c])]
  /\ serverSeq' = disk.serverSeq
  /\ call' = Idle
  /\ view' = 0
  /\ late' \in Abandoned
  /\ UNCHANGED <<body, minted, online, log, live, completing, removed, gate>>
  /\ Persist

\* The displayed log is refetched, and PRUNE_CONFIRMED follows it.
RefreshView ==
  /\ view' = PageLength
  /\ status' = [c \in Actions |-> Pruned(status[c], c, PageLength)]
  /\ UNCHANGED <<serverSeq, body, minted, call, online, serverVars, removed, gate>>
  /\ Persist

GoOffline == /\ "offline" \in Faults
             /\ online /\ online' = FALSE
             /\ UNCHANGED <<status, serverSeq, body, minted, disk, call, view,
                            serverVars, removed, gate>>
GoOnline == /\ ~online /\ online' = TRUE
            /\ UNCHANGED <<status, serverSeq, body, minted, disk, call, view,
                           serverVars, removed, gate>>

\* Mutant: only a request on its way blocks completion.
NothingInFlight == live /\ \A c \in Actions : status[c] # "sending"

\* evaluateCompletion and confirmComplete: with the queue settled the scorer
\* submits the completion PATCH.
ReadyToComplete == /\ live
                   /\ \A c \in Actions : status[c] \in {"none", "confirmed"}
SubmitCompletion ==
  /\ ReadyToComplete
  /\ ~completing
  /\ completing' = TRUE
  /\ gate' = {c \in Actions : c <= minted} \ removed
  /\ UNCHANGED <<clientVars, log, live, late, removed>>

-----------------------------------------------------------------------------
(* The server.                                                             *)

\* CreateWithAudit commits the driver's POST: MAX(sequence_number) + 1.
ServerRecords ==
  /\ call.op = "post" /\ call.phase = "flight"
  /\ Len(log) < MaxLog
  /\ Acceptable(body[call.action])
  /\ Record(call.action, body[call.action])
  /\ call' = [call EXCEPT !.phase = "created", !.seq = NextSequence]
  /\ UNCHANGED <<status, serverSeq, body, minted, disk, online, view, live, late,
                 completing, removed, gate>>

\* It refuses: the match is not live, the correction is not allowed, or
\* another 4xx (participants, permission, rate limit).
ServerRejects ==
  /\ call.op = "post" /\ call.phase = "flight"
  /\ call' = [call EXCEPT !.phase = "rejected"]
  /\ UNCHANGED <<status, serverSeq, body, minted, disk, online, view, serverVars,
                 removed, gate>>

\* An abandoned POST arrives after all.
LateArrival(c) ==
  /\ c \in late
  /\ late' = late \ {c}
  /\ IF Acceptable(body[c]) /\ Len(log) < MaxLog
     THEN Record(c, body[c]) ELSE UNCHANGED log
  /\ UNCHANGED <<clientVars, live, completing, removed, gate>>

\* Another device records an event or corrects one.
OtherScorer(b) ==
  /\ b.kind = "correction" <=> b.cancels # 0
  /\ Len(log) < MaxLog
  /\ Acceptable(b)
  /\ Record(Foreign, b)
  /\ UNCHANGED <<clientVars, live, late, completing, removed, gate>>

\* The completion PATCH commits, or is refused (ErrWinnerScoreMismatch) or lost.
CompletionEnds ==
  /\ completing
  /\ completing' = FALSE
  /\ live' \in {live, FALSE}
  /\ UNCHANGED <<clientVars, log, late, removed, gate>>

\* Somebody else ends the match.
OthersEndMatch ==
  /\ live /\ live' = FALSE
  /\ UNCHANGED <<clientVars, log, late, completing, removed, gate>>

-----------------------------------------------------------------------------

Init ==
  /\ status = [c \in Actions |-> "none"]
  /\ serverSeq = [c \in Actions |-> 0]
  /\ body = [c \in Actions |-> Blank]
  /\ minted = 0
  /\ disk = Saved(status, serverSeq)
  /\ call = Idle
  /\ online \in BOOLEAN /\ ("offline" \notin Faults => online)
  /\ view = 0
  /\ log = <<>>
  /\ live = TRUE
  /\ late = {}
  /\ completing = FALSE
  /\ removed = {}
  /\ gate = {}

ClientNext ==
  \/ \E k \in Kinds : ScorerActs(k)
  \/ \E c \in Actions : \/ UndoLocal(c) \/ UndoByCorrection(c)
                        \/ StartReconcile(c) \/ StartSend(c)
  \/ ReconcileAnswered \/ ReconcileFailed
  \/ PostConfirmed \/ PostRefused \/ PostFailed
  \/ SaveQueue \/ Reload \/ RefreshView \/ GoOffline \/ GoOnline
  \/ SubmitCompletion

ServerNext ==
  \/ ServerRecords \/ ServerRejects
  \/ \E c \in Actions : LateArrival(c)
  \/ \E b \in Body : OtherScorer(b)
  \/ CompletionEnds \/ OthersEndMatch

Next == ClientNext \/ ServerNext

Spec == Init /\ [][Next]_vars

\* The driver is never idle with work at hand, timers and the online event
\* fire, and a request that is retried for ever is eventually handled by the
\* server, and its answer eventually gets through.
Fairness ==
  /\ SF_vars(\E c \in Actions : StartReconcile(c) \/ StartSend(c))
  /\ SF_vars(ReconcileAnswered)
  /\ SF_vars(PostConfirmed \/ PostRefused)
  /\ SF_vars(ServerRecords \/ ServerRejects)
  /\ WF_vars(GoOnline)

FairSpec == Spec /\ Fairness

-----------------------------------------------------------------------------
(* Properties.                                                             *)

TypeOK ==
  /\ status \in [Actions -> Statuses \cup {"none"}]
  /\ serverSeq \in [Actions -> 0..MaxLog]
  /\ body \in [Actions -> Body]
  /\ minted \in 0..MaxActions
  /\ disk \in [status : [Actions -> Statuses \cup {"none"}],
              serverSeq : [Actions -> 0..MaxLog]]
  /\ call \in Call
  /\ call.op # "idle" => call.action \in Actions
  /\ online \in BOOLEAN
  /\ view \in 0..MaxLog
  /\ log \in Seq(Event)
  /\ Len(log) <= MaxLog /\ view <= Len(log)
  /\ live \in BOOLEAN
  /\ late \subseteq Actions
  /\ completing \in BOOLEAN
  /\ removed \subseteq Actions
  /\ gate \subseteq Actions

\* No action is on the log twice (use-scoring-queue.ts, queue-types.ts:
\* "this is what makes delivery exactly-once").
AtMostOnce ==
  \A i, j \in DOMAIN log :
    log[i].action = log[j].action /\ log[i].action # Foreign => i = j

\* An action that is neither queued nor taken back is on the log: pruning,
\* reconciling and reloading lose nothing.
NothingLost == \A c \in Actions :
  c <= minted /\ status[c] = "none" /\ c \notin removed => Landed(c)

\* A confirmed action's server id is the event that carries it, so an undo
\* corrects the event the scorer means.
ConfirmedOnLog == \A c \in Actions : status[c] = "confirmed" =>
  serverSeq[c] \in DOMAIN log /\ log[serverSeq[c]].action = c

\* selectUndoTarget: "an action can't be undone twice", however the
\* confirmations, prunes, reloads and refetches interleave.
OneCorrectionPerAction == \A c, d \in Actions :
  /\ body[c].kind = "correction" /\ body[d].kind = "correction"
  /\ body[c].cancels = body[d].cancels
  => c = d

\* Whatever is resent or arrives late, the log's corrections stay sound: each
\* takes back an earlier event that is no correction, and no two the same
\* (match_events.CreateWithAudit, ErrEventAlreadyCancelled).
CorrectionsSound == \A i \in DOMAIN log : log[i].cancels # 0 =>
  /\ log[i].cancels < i /\ log[log[i].cancels].cancels = 0
  /\ \A j \in DOMAIN log : log[j].cancels = log[i].cancels => i = j

\* Completion gate (completion-gate.ts): when the scorer submits the result,
\* "every scored point is on the authoritative log".
CompletionCoversAll == \A c \in gate : Landed(c)

\* The queue keeps the promise of ExactlyOnceLog.
Intent(c) == IF c > minted THEN "new"
             ELSE IF c \in removed THEN "withdrawn"
             ELSE IF status[c] = "failed_permanent" THEN "refused"
             ELSE "offered"
Promise == INSTANCE ExactlyOnceLog WITH
             intent <- [c \in Actions |-> Intent(c)],
             stream <- [i \in DOMAIN log |-> log[i].action]
KeepsPromise == Promise!ESpec

\* Every recorded action is eventually settled: confirmed, refused or gone
\* from the queue; the driver never leaves one waiting for ever.
Settles == \A c \in Actions :
  (status[c] \in Unsettled) ~> (status[c] \notin Unsettled)
=============================================================================

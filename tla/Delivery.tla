------------------------------ MODULE Delivery ------------------------------
(***************************************************************************)
(* The delivery workers: notifworker (email) and webhookworker (webhooks). *)
(* Both claim rows of a table under a soft lease, deliver them one after   *)
(* the other, and record what became of each.                              *)
(*                                                                         *)
(* A worker here is anything that runs runOnce: the polling goroutine, the *)
(* Drain pass of a shutdown, another instance of the server.  Time enters  *)
(* through the lease alone: it lapses some time after it was set.          *)
(***************************************************************************)
EXTENDS Naturals, FiniteSets

CONSTANTS Rows,         \* delivery rows (notifications or webhook_deliveries)
          Workers,      \* concurrent passes of runOnce
          MaxAttempts,  \* maxAttempts: 3 in the code
          BatchSize,    \* batchSize: 10 in the code
          Channel,      \* "email" or "webhook"
          Faults        \* a subset of FaultKinds

FaultKinds == {"crash",        \* a worker stops anywhere
               "slow",         \* a batch may outlive its lease
               "lost_write"}   \* recording an outcome may fail

ASSUME DeliveryAssumption ==
  /\ MaxAttempts \in Nat \ {0}
  /\ BatchSize \in Nat \ {0}
  /\ Channel \in {"email", "webhook"}
  /\ Faults \subseteq FaultKinds

VARIABLES
  present,   \* the rows that are in the table
  attempts,  \* attempt_count
  leased,    \* lease_expires_at lies in the future
  sent,      \* sent_at is set
  failed,    \* failed_permanently
  batch,     \* per worker: the claimed rows it has not delivered yet
  job,       \* per worker: the row it has delivered and not yet recorded
  copies,    \* history: how many copies of a row reached the receiver
  accepted,  \* history: the claims whose copy the receiver accepted
  lost,      \* history: the claims whose outcome never reached the table
  late       \* history: the claims that a worker held past their lease

table == <<present, attempts, leased, sent, failed>>
history == <<copies, accepted, lost, late>>
vars == <<table, batch, job, history>>

Claims == [row : Rows, attempt : 1..MaxAttempts]
Answers == {"ok", "failed", "refused"}
NoJob == [claim |-> {}, answer |-> "ok"]

\* What a worker has in hand: rows claimed and not recorded.
Held(w) == batch[w] \cup job[w].claim
Holds(w, r) == \E x \in Held(w) : x.row = r
HeldByAny == UNION {Held(w) : w \in Workers}

-----------------------------------------------------------------------------
(* Claiming.                                                               *)

\* Mutants: a condition of the WHERE clause is missing.
ClaimableLeased(r) == /\ r \in present /\ ~sent[r] /\ ~failed[r]
                      /\ attempts[r] < MaxAttempts
ClaimableSent(r) == /\ r \in present /\ ~failed[r] /\ ~leased[r]
                    /\ attempts[r] < MaxAttempts

\* The WHERE clause of ClaimEmailNotificationsForDelivery and
\* ClaimWebhookDeliveriesForDelivery.
Claimable(r) == /\ r \in present /\ ~sent[r] /\ ~failed[r] /\ ~leased[r]
                /\ attempts[r] < MaxAttempts

\* attempt_count after a claim of the rows in S.
Charged(S) == [r \in Rows |-> attempts[r] + (IF r \in S THEN 1 ELSE 0)]

\* ClaimBatch.  Which claimable rows are taken is left open: the statement
\* skips the rows another claim has locked.
Claim(w, S) ==
  /\ Held(w) = {}
  /\ S # {} /\ Cardinality(S) <= BatchSize
  /\ \A r \in S : Claimable(r)
  /\ attempts' = Charged(S)
  /\ leased' = [r \in Rows |-> leased[r] \/ r \in S]
  /\ batch' = [batch EXCEPT ![w] = {[row |-> r, attempt |-> attempts[r] + 1] : r \in S}]
  /\ UNCHANGED <<present, sent, failed, job, history>>

-----------------------------------------------------------------------------
(* Delivering: deliver(row) for each claimed row, one at a time.           *)

\* The row is handed to the receiver, who takes it or not, and an answer comes
\* back; or the attempt fails: before anything was sent (user, endpoint or
\* secret not found), or with the outcome unknown, the client's timeout of 30 s
\* and a broken connection included: the receiver may have taken the row all
\* the same.  Only a webhook's receiver refuses for good (4xx).
Deliver(w, x, reached, taken, answer) ==
  /\ job[w] = NoJob /\ x \in batch[w]
  /\ taken \/ answer = "refused" => reached
  /\ answer = "ok" => taken
  /\ answer = "refused" => ~taken /\ Channel = "webhook"
  /\ batch' = [batch EXCEPT ![w] = @ \ {x}]
  /\ job' = [job EXCEPT ![w] = [claim |-> {x}, answer |-> answer]]
  /\ copies' = [copies EXCEPT ![x.row] = IF reached THEN @ + 1 ELSE @]
  /\ accepted' = IF taken THEN accepted \cup {x} ELSE accepted
  /\ lost' = IF taken /\ answer = "failed" THEN lost \cup {x} ELSE lost
  /\ UNCHANGED <<table, late>>

Finished(w) == job' = [job EXCEPT ![w] = NoJob]

\* A 2xx response; a SendNotificationEmail that returned no error.
Success(answer) == answer = "ok"

\* RecordSuccess: a no-op on a row that is already sent, or gone.
RecordSuccess(w, x) ==
  /\ job[w].claim = {x} /\ Success(job[w].answer)
  /\ sent' = [sent EXCEPT ![x.row] = @ \/ x.row \in present]
  /\ Finished(w)
  /\ UNCHANGED <<present, attempts, leased, failed, batch, history>>

\* RecordWebhookDeliveryFailure and RecordEmailDeliveryFailure: both columns
\* are overwritten, whatever the row holds now; no row, no effect.
WriteFailure(r, perm) ==
  /\ failed' = [failed EXCEPT ![r] = IF r \in present THEN perm ELSE @]
  /\ leased' = [leased EXCEPT ![r] = IF r \in present THEN ~perm ELSE @]

\* Mutant: the dead-letter decision comes one attempt late.
ExhaustedLate(x) == x.attempt > MaxAttempts

\* recordFailure: attempt_count as it was when the row was claimed.
Exhausted(x) == x.attempt >= MaxAttempts

RecordFailure(w, x) ==
  /\ job[w] = [claim |-> {x}, answer |-> "failed"]
  /\ WriteFailure(x.row, Exhausted(x))
  /\ Finished(w)
  /\ UNCHANGED <<present, attempts, sent, batch, history>>

\* 4xx other than 429: dead-lettered at once.
RecordRefusal(w, x) ==
  /\ job[w] = [claim |-> {x}, answer |-> "refused"]
  /\ WriteFailure(x.row, TRUE)
  /\ Finished(w)
  /\ UNCHANGED <<present, attempts, sent, batch, history>>

\* Nothing will say what became of these claims.
Forget(claims) == lost' = lost \cup claims /\ UNCHANGED <<copies, accepted, late>>

\* The outcome cannot be written: it is logged and dropped.
RecordingLost(w) ==
  /\ "lost_write" \in Faults
  /\ job[w] # NoJob
  /\ Finished(w) /\ Forget(job[w].claim)
  /\ UNCHANGED <<table, batch>>

-----------------------------------------------------------------------------
(* The rest of the world.                                                  *)

\* A worker dies with its batch.
Crash(w) ==
  /\ "crash" \in Faults
  /\ Held(w) # {}
  /\ batch' = [batch EXCEPT ![w] = {}]
  /\ Finished(w) /\ Forget(Held(w))
  /\ UNCHANGED table

\* NOW() passes lease_expires_at.  Unless batches are slow, that is after the
\* worker that set the lease is done with the row.
LeaseLapses(r) ==
  /\ leased[r]
  /\ "slow" \notin Faults => \A w \in Workers : ~Holds(w, r)
  /\ leased' = [leased EXCEPT ![r] = FALSE]
  /\ late' = late \cup {x \in HeldByAny : x.row = r}
  /\ UNCHANGED <<present, attempts, sent, failed, batch, job, copies, accepted, lost>>

\* The row goes: retention, or its endpoint or outbox entry is deleted.
Remove(r) ==
  /\ r \in present
  /\ present' = present \ {r}
  /\ UNCHANGED <<attempts, leased, sent, failed, batch, job, history>>

Init ==
  /\ present = Rows
  /\ attempts = [r \in Rows |-> 0]
  /\ leased = [r \in Rows |-> FALSE]
  /\ sent = [r \in Rows |-> FALSE]
  /\ failed = [r \in Rows |-> FALSE]
  /\ batch = [w \in Workers |-> {}]
  /\ job = [w \in Workers |-> NoJob]
  /\ copies = [r \in Rows |-> 0]
  /\ accepted = {} /\ lost = {} /\ late = {}

\* Recording the outcome of the row in hand.
Record(w) == \E x \in Claims : \/ RecordSuccess(w, x)
                               \/ RecordFailure(w, x)
                               \/ RecordRefusal(w, x)

DeliverNext(w) == \E x \in Claims, reached, taken \in BOOLEAN, answer \in Answers :
                    Deliver(w, x, reached, taken, answer)

Next ==
  \/ \E w \in Workers : \/ \E S \in SUBSET Rows : Claim(w, S)
                        \/ DeliverNext(w)
                        \/ Record(w)
                        \/ RecordingLost(w)
                        \/ Crash(w)
  \/ \E r \in Rows : LeaseLapses(r) \/ Remove(r)

Spec == Init /\ [][Next]_vars

\* The ticker keeps ticking, runOnce runs to its end, and time passes.
Fairness ==
  /\ \A w \in Workers : /\ WF_vars(\E S \in SUBSET Rows : Claim(w, S))
                        /\ WF_vars(DeliverNext(w))
                        /\ WF_vars(Record(w))
  /\ \A r \in Rows : WF_vars(LeaseLapses(r))

FairSpec == Spec /\ Fairness

-----------------------------------------------------------------------------
(* Properties.                                                             *)

TypeOK ==
  /\ present \subseteq Rows
  /\ attempts \in [Rows -> 0..MaxAttempts]
  /\ leased \in [Rows -> BOOLEAN]
  /\ sent \in [Rows -> BOOLEAN]
  /\ failed \in [Rows -> BOOLEAN]
  /\ batch \in [Workers -> SUBSET Claims]
  /\ job \in [Workers -> [claim : SUBSET Claims, answer : Answers]]
  /\ copies \in [Rows -> 0..MaxAttempts]
  /\ accepted \subseteq Claims /\ lost \subseteq Claims /\ late \subseteq Claims

\* "Capped at max_attempts" (migration 000025): the receiver never sees more
\* copies of a row than that, whatever crashes, lapses or is lost, because
\* every copy was paid for when its row was claimed.
Outstanding(r) == {y \in Workers \X Claims : y[2] \in batch[y[1]] /\ y[2].row = r}
CopiesCapped == \A r \in Rows : copies[r] + Cardinality(Outstanding(r)) <= attempts[r]

\* A row is marked sent only when the receiver accepted a copy.
SentWasAccepted == \A r \in Rows : sent[r] => \E x \in accepted : x.row = r

\* "Prevents concurrent workers from double-delivering the same email"
\* (migration 000025, lease_expires_at): two workers have a row at the same time
\* only after one of them has outlived its lease, whatever crashes or is lost.
OneHolder == \A v, w \in Workers : \A x \in Held(v), y \in Held(w) :
  x.row = y.row => v = w \/ x \in late \/ y \in late

\* The receiver takes a row a second time only when the worker that had it
\* taken before could not record it (the answer was late or lost, the worker
\* died, the write failed) or had outlived its lease.
Clean == accepted \ (lost \cup late)
AcceptedOnce == \A x, y \in Clean : x.row = y.row => x = y

\* A row is never both delivered and dead-lettered.
OneVerdict == \A r \in Rows : ~(sent[r] /\ failed[r])

\* "Rows with failed_permanently = TRUE are never retried automatically"
\* (migration 000025): no step brings one back.
DeadStaysDead == [][\A r \in Rows : failed[r] => failed'[r] /\ attempts'[r] = attempts[r]]_vars

\* Every row gets its verdict or is deleted, unless the outcome of its last
\* claim was lost: the attempt was charged before (attempt_count, ClaimBatch).
LastLost(r) == \E x \in lost : x.row = r /\ x.attempt = MaxAttempts
Retires == \A r \in Rows : <>(sent[r] \/ failed[r] \/ r \notin present \/ LastLost(r))

\* The rows live the documented life.
Fate(r) == IF r \notin present THEN "deleted"
           ELSE IF sent[r] THEN "succeeded"
           ELSE IF failed[r] THEN "failed" ELSE "open"
Lifecycle == INSTANCE DeliveryLifecycle WITH
               Limit <- MaxAttempts,
               tries <- attempts,
               fate <- [r \in Rows |-> Fate(r)]
FollowsLifecycle == Lifecycle!LSpec
=============================================================================

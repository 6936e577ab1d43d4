--------------------------- MODULE DeliveryProofs ---------------------------
(***************************************************************************)
(* Proofs about Delivery, for every set of rows and workers, every batch   *)
(* size and every number of attempts.                                      *)
(***************************************************************************)
EXTENDS Delivery, FiniteSetTheorems, TLAPS

-----------------------------------------------------------------------------
(* The ledger of copies.                                                   *)

\* TypeOK with the count of the copies not yet bounded.
Shape ==
  /\ present \subseteq Rows
  /\ attempts \in [Rows -> 0..MaxAttempts]
  /\ leased \in [Rows -> BOOLEAN]
  /\ sent \in [Rows -> BOOLEAN]
  /\ failed \in [Rows -> BOOLEAN]
  /\ batch \in [Workers -> SUBSET Claims]
  /\ job \in [Workers -> [claim : SUBSET Claims, answer : Answers]]
  /\ copies \in [Rows -> Nat]
  /\ accepted \subseteq Claims /\ lost \subseteq Claims /\ late \subseteq Claims

\* What is still to be delivered can be counted.
Countable == \A r \in Rows : IsFiniteSet(Outstanding(r))

\* A worker that is about to record a success had the row accepted.
SuccessWasAccepted == \A w \in Workers : \A x \in job[w].claim :
  Success(job[w].answer) => x \in accepted

Ledger == Shape /\ Countable /\ CopiesCapped /\ SuccessWasAccepted /\ SentWasAccepted

\* What the proof needs to know of the ledger for the bound of TypeOK.
LEMMA LedgerTypes == Ledger => TypeOK
<1> SUFFICES ASSUME Ledger, NEW r \in Rows
             PROVE  copies[r] \in 0..MaxAttempts
  BY DEF Ledger, Shape, TypeOK
<1>1. Cardinality(Outstanding(r)) \in Nat
  BY FS_CardinalityType DEF Ledger, Countable
<1>2. copies[r] \in Nat /\ attempts[r] \in 0..MaxAttempts
  BY DEF Ledger, Shape
<1>3. copies[r] + Cardinality(Outstanding(r)) <= attempts[r]
  BY DEF Ledger, CopiesCapped
<1> QED BY <1>1, <1>2, <1>3, DeliveryAssumption

LEMMA LedgerInit == Init => Ledger
<1> SUFFICES ASSUME Init PROVE Ledger
  OBVIOUS
<1>1. Shape
  BY DeliveryAssumption DEF Init, Shape, NoJob, Answers
<1>2. \A r \in Rows : Outstanding(r) = {}
  BY DEF Init, Outstanding
<1>3. Countable /\ CopiesCapped
  <2>1. IsFiniteSet({}) /\ Cardinality({}) = 0
    BY FS_EmptySet
  <2>2. \A r \in Rows : IsFiniteSet(Outstanding(r)) /\ Cardinality(Outstanding(r)) = 0
    BY <1>2, <2>1
  <2>3. \A r \in Rows : copies[r] = 0 /\ attempts[r] = 0
    BY DEF Init
  <2> QED BY <2>2, <2>3 DEF Countable, CopiesCapped
<1>4. SuccessWasAccepted /\ SentWasAccepted
  BY DEF Init, SuccessWasAccepted, SentWasAccepted, NoJob
<1> QED BY <1>1, <1>3, <1>4 DEF Ledger

\* A step that adds no row to a batch and no copy to the history keeps the
\* counts.
LEMMA LedgerShrinks ==
  ASSUME Ledger, Shape', copies' = copies, attempts' = attempts,
         \A w \in Workers : batch'[w] \subseteq batch[w]
  PROVE  Countable' /\ CopiesCapped'
<1> SUFFICES ASSUME NEW r \in Rows
             PROVE  /\ IsFiniteSet(Outstanding(r)')
                    /\ copies[r] + Cardinality(Outstanding(r)') <= attempts[r]
  BY DEF Countable, CopiesCapped
<1>1. Outstanding(r)' \in SUBSET Outstanding(r)
  BY DEF Outstanding
<1>2. IsFiniteSet(Outstanding(r))
  BY DEF Ledger, Countable
<1>3. /\ IsFiniteSet(Outstanding(r)')
      /\ Cardinality(Outstanding(r)') <= Cardinality(Outstanding(r))
  BY <1>1, <1>2, FS_Subset
<1>4. /\ Cardinality(Outstanding(r)') \in Nat /\ Cardinality(Outstanding(r)) \in Nat
      /\ copies[r] \in Nat /\ attempts[r] \in Nat
  BY <1>2, <1>3, FS_CardinalityType DEF Ledger, Shape
<1>5. copies[r] + Cardinality(Outstanding(r)) <= attempts[r]
  BY DEF Ledger, CopiesCapped
<1> QED BY <1>3, <1>4, <1>5

\* A claim charges one attempt for each row it puts in the batch.
LEMMA LedgerClaim ==
  ASSUME Ledger, NEW w \in Workers, NEW S \in SUBSET Rows, Claim(w, S)
  PROVE  Ledger'
<1> DEFINE New(r) == <<w, [row |-> r, attempt |-> attempts[r] + 1]>>
<1>1. \A r \in S : attempts[r] + 1 \in 1..MaxAttempts
  BY DeliveryAssumption DEF Ledger, Shape, Claim, Claimable
<1>2. batch' \in [Workers -> SUBSET Claims]
  <2>1. {[row |-> r, attempt |-> attempts[r] + 1] : r \in S} \subseteq Claims
    BY <1>1 DEF Claims
  <2> QED BY <2>1 DEF Ledger, Shape, Claim
<1>3. attempts' \in [Rows -> 0..MaxAttempts] /\ leased' \in [Rows -> BOOLEAN]
  BY <1>1, DeliveryAssumption DEF Ledger, Shape, Claim, Charged
<1>4. Shape'
  BY <1>2, <1>3 DEF Ledger, Shape, Claim, history
<1>5. ASSUME NEW r \in Rows
      PROVE  /\ IsFiniteSet(Outstanding(r)')
             /\ copies'[r] + Cardinality(Outstanding(r)') <= attempts'[r]
  <2>1. batch[w] = {}
    BY DEF Claim, Held
  <2>2. /\ IsFiniteSet(Outstanding(r)) /\ Cardinality(Outstanding(r)) \in Nat
        /\ copies[r] + Cardinality(Outstanding(r)) <= attempts[r]
        /\ copies[r] \in Nat /\ attempts[r] \in Nat
    BY FS_CardinalityType DEF Ledger, Shape, Countable, CopiesCapped
  <2>3. CASE r \in S
    <3>1. Outstanding(r)' = Outstanding(r) \cup {New(r)}
      <4>1. \A v \in Workers : v # w => batch'[v] = batch[v]
        BY DEF Claim, Ledger, Shape
      <4>2. batch'[w] = {[row |-> q, attempt |-> attempts[q] + 1] : q \in S}
        BY DEF Claim, Ledger, Shape
      <4>3. New(r) \in Workers \X Claims
        BY <1>1, <2>3 DEF Claims
      <4> QED BY <2>1, <2>3, <4>1, <4>2, <4>3 DEF Outstanding
    <3>2. /\ IsFiniteSet(Outstanding(r)')
          /\ Cardinality(Outstanding(r)') <= Cardinality(Outstanding(r)) + 1
      <4> DEFINE Out == Outstanding(r)
      <4>1. IsFiniteSet(Out) /\ Cardinality(Out) \in Nat
        BY <2>2
      <4>2. /\ IsFiniteSet(Out \cup {New(r)})
            /\ Cardinality(Out \cup {New(r)}) =
                 IF New(r) \in Out THEN Cardinality(Out) ELSE Cardinality(Out) + 1
        <5> HIDE DEF Out, New
        <5> QED BY <4>1, FS_AddElement
      <4> QED BY <3>1, <4>1, <4>2
    <3>3. Cardinality(Outstanding(r)') \in Nat
      BY <3>2, FS_CardinalityType
    <3>4. attempts'[r] = attempts[r] + 1 /\ copies' = copies
      BY <2>3 DEF Claim, Charged, history
    <3> QED BY <2>2, <3>2, <3>3, <3>4
  <2>4. CASE r \notin S
    <3>1. Outstanding(r)' = Outstanding(r)
      <4>1. \A v \in Workers : v # w => batch'[v] = batch[v]
        BY DEF Claim, Ledger, Shape
      <4>2. batch'[w] = {[row |-> q, attempt |-> attempts[q] + 1] : q \in S}
        BY DEF Claim, Ledger, Shape
      <4> QED BY <2>1, <2>4, <4>1, <4>2 DEF Outstanding
    <3>2. attempts'[r] = attempts[r] /\ copies' = copies
      BY <2>2, <2>4 DEF Claim, Charged, history
    <3> QED BY <2>2, <3>1, <3>2
  <2> QED BY <2>3, <2>4
<1>6. Countable' /\ CopiesCapped'
  BY <1>5 DEF Countable, CopiesCapped
<1>7. SuccessWasAccepted' /\ SentWasAccepted'
  BY DEF Ledger, Claim, SuccessWasAccepted, SentWasAccepted, history
<1> QED BY <1>4, <1>6, <1>7 DEF Ledger

\* A delivery takes one row out of the batch for the copy it makes.
LEMMA LedgerDeliver ==
  ASSUME Ledger, NEW w \in Workers, NEW x \in Claims, NEW reached \in BOOLEAN,
         NEW taken \in BOOLEAN, NEW answer \in Answers, Deliver(w, x, reached, taken, answer)
  PROVE  Ledger'
<1>1. Shape'
  BY DEF Ledger, Shape, Deliver, table, Claims
<1>2. /\ copies'[x.row] <= copies[x.row] + 1
      /\ \A r \in Rows : r # x.row => copies'[r] = copies[r]
  BY DEF Ledger, Shape, Deliver, Claims
<1>3. ASSUME NEW r \in Rows
      PROVE  /\ IsFiniteSet(Outstanding(r)')
             /\ copies'[r] + Cardinality(Outstanding(r)') <= attempts'[r]
  <2>1. /\ IsFiniteSet(Outstanding(r)) /\ Cardinality(Outstanding(r)) \in Nat
        /\ copies[r] + Cardinality(Outstanding(r)) <= attempts[r]
        /\ copies[r] \in Nat /\ attempts[r] \in Nat /\ attempts' = attempts
        /\ copies'[r] \in Nat
    BY <1>1, FS_CardinalityType DEF Ledger, Shape, Countable, CopiesCapped, Deliver, table
  <2>2. Outstanding(r)' = Outstanding(r) \ {<<w, x>>}
    <3>1. /\ batch'[w] = batch[w] \ {x}
          /\ \A v \in Workers : v # w => batch'[v] = batch[v]
      BY DEF Deliver, Ledger, Shape
    <3> QED BY <3>1 DEF Outstanding
  <2>3. /\ IsFiniteSet(Outstanding(r)')
        /\ Cardinality(Outstanding(r)') =
             IF <<w, x>> \in Outstanding(r) THEN Cardinality(Outstanding(r)) - 1
                                            ELSE Cardinality(Outstanding(r))
    <3> DEFINE Out == Outstanding(r)
    <3>1. /\ IsFiniteSet(Out \ {<<w, x>>})
          /\ Cardinality(Out \ {<<w, x>>}) =
               IF <<w, x>> \in Out THEN Cardinality(Out) - 1 ELSE Cardinality(Out)
      <4>1. IsFiniteSet(Out)
        BY <2>1
      <4> HIDE DEF Out
      <4> QED BY <4>1, FS_RemoveElement
    <3> QED BY <2>2, <3>1
  <2>4. x.row = r => <<w, x>> \in Outstanding(r)
    BY DEF Outstanding, Deliver
  <2>5. Cardinality(Outstanding(r)') \in Nat
    BY <2>3, FS_CardinalityType
  <2> QED BY <1>2, <2>1, <2>3, <2>4, <2>5
<1>4. Countable' /\ CopiesCapped'
  BY <1>3 DEF Countable, CopiesCapped
<1>5. accepted \subseteq accepted' /\ sent' = sent
  BY DEF Deliver, table
<1>6. SentWasAccepted'
  BY <1>5 DEF Ledger, SentWasAccepted
<1>7. SuccessWasAccepted'
  <2> SUFFICES ASSUME NEW v \in Workers, NEW y \in job'[v].claim, Success(job'[v].answer)
               PROVE  y \in accepted'
    BY DEF SuccessWasAccepted, Success
  <2>1. CASE v = w
    <3>1. y = x /\ answer = "ok"
      BY <2>1 DEF Deliver, Ledger, Shape, Success
    <3> QED BY <3>1 DEF Deliver
  <2>2. CASE v # w
    BY <1>5, <2>2 DEF Deliver, Ledger, Shape, SuccessWasAccepted
  <2> QED BY <2>1, <2>2
<1> QED BY <1>1, <1>4, <1>6, <1>7 DEF Ledger

\* Recording an outcome, or losing it, leaves the histories alone.
LEMMA LedgerRecord ==
  ASSUME Ledger, NEW w \in Workers,
         \/ \E x \in Claims : RecordSuccess(w, x) \/ RecordFailure(w, x) \/ RecordRefusal(w, x)
         \/ RecordingLost(w)
         \/ Crash(w)
  PROVE  Ledger'
<1>1. /\ copies' = copies /\ accepted' = accepted /\ attempts' = attempts /\ late' = late
      /\ present' = present /\ Finished(w)
      /\ batch' \in [Workers -> SUBSET Claims]
      /\ \A v \in Workers : batch'[v] \subseteq batch[v]
  BY DEF Ledger, Shape, RecordSuccess, RecordFailure, RecordRefusal, RecordingLost, Crash,
         Forget, table, history
<1>a. lost' \subseteq Claims
  <2>1. Held(w) \subseteq Claims
    BY DEF Held, Ledger, Shape
  <2> QED BY <2>1 DEF Held, Forget, RecordSuccess, RecordFailure, RecordRefusal, RecordingLost, Crash,
                      history, Ledger, Shape
<1>2. job' \in [Workers -> [claim : SUBSET Claims, answer : Answers]]
  BY <1>1 DEF Finished, Ledger, Shape, NoJob, Answers
<1>3. /\ sent' \in [Rows -> BOOLEAN]
      /\ \A r \in Rows : sent'[r] => \E x \in accepted : x.row = r
  <2>1. CASE sent' = sent
    BY <2>1 DEF Ledger, Shape, SentWasAccepted
  <2>2. ASSUME NEW x \in Claims, RecordSuccess(w, x)
        PROVE  /\ sent' \in [Rows -> BOOLEAN]
               /\ \A r \in Rows : sent'[r] => \E y \in accepted : y.row = r
    <3>1. x.row \in Rows /\ x \in accepted
      BY <2>2 DEF RecordSuccess, Ledger, SuccessWasAccepted, Claims
    <3> QED BY <2>2, <3>1 DEF RecordSuccess, Ledger, Shape, SentWasAccepted
  <2> QED BY <2>1, <2>2 DEF RecordFailure, RecordRefusal, RecordingLost, Crash, table
<1>4. failed' \in [Rows -> BOOLEAN] /\ leased' \in [Rows -> BOOLEAN]
  <2>1. \A r \in Rows, perm \in BOOLEAN :
          WriteFailure(r, perm) => failed' \in [Rows -> BOOLEAN] /\ leased' \in [Rows -> BOOLEAN]
    BY DEF WriteFailure, Ledger, Shape
  <2>2. CASE failed' = failed /\ leased' = leased
    BY <2>2 DEF Ledger, Shape
  <2>3. \A x \in Claims : RecordFailure(w, x) \/ RecordRefusal(w, x) =>
          failed' \in [Rows -> BOOLEAN] /\ leased' \in [Rows -> BOOLEAN]
    <3> SUFFICES ASSUME NEW x \in Claims, RecordFailure(w, x) \/ RecordRefusal(w, x)
                 PROVE  failed' \in [Rows -> BOOLEAN] /\ leased' \in [Rows -> BOOLEAN]
      OBVIOUS
    <3>1. x.row \in Rows /\ Exhausted(x) \in BOOLEAN
      BY DEF Claims, Exhausted
    <3> QED BY <2>1, <3>1 DEF RecordFailure, RecordRefusal
  <2> QED BY <2>2, <2>3 DEF RecordSuccess, RecordingLost, Crash, table
<1>5. Shape'
  BY <1>1, <1>a, <1>2, <1>3, <1>4 DEF Ledger, Shape
<1>6. Countable' /\ CopiesCapped'
  BY <1>1, <1>5, LedgerShrinks
<1>7. SentWasAccepted'
  BY <1>1, <1>3 DEF Ledger, SentWasAccepted
<1>8. SuccessWasAccepted'
  BY <1>1 DEF Finished, NoJob, Ledger, Shape, SuccessWasAccepted, Success
<1> QED BY <1>5, <1>6, <1>7, <1>8 DEF Ledger

\* Nor do the lease and the deletion of a row.
LEMMA LedgerWorld ==
  ASSUME Ledger, NEW r \in Rows, LeaseLapses(r) \/ Remove(r)
  PROVE  Ledger'
<1>1. Shape'
  <2>1. HeldByAny \subseteq Claims
    BY DEF HeldByAny, Held, Ledger, Shape
  <2>2. CASE LeaseLapses(r)
    BY <2>1, <2>2 DEF Ledger, Shape, LeaseLapses
  <2>3. CASE Remove(r)
    BY <2>3 DEF Ledger, Shape, Remove, history
  <2> QED BY <2>2, <2>3
<1>2. UNCHANGED <<copies, attempts, batch, job, accepted, sent>>
  BY DEF LeaseLapses, Remove, history
<1>3. Countable' /\ CopiesCapped'
  BY <1>1, <1>2, LedgerShrinks
<1> QED BY <1>1, <1>2, <1>3 DEF Ledger, SuccessWasAccepted, SentWasAccepted

LEMMA LedgerStutters == Ledger /\ UNCHANGED vars => Ledger'
<1> SUFFICES ASSUME Ledger, UNCHANGED vars PROVE Ledger'
  OBVIOUS
<1>1. Shape'
  BY DEF vars, table, history, Ledger, Shape
<1>2. Countable' /\ CopiesCapped'
  BY <1>1, LedgerShrinks DEF vars, table, history
<1> QED BY <1>1, <1>2 DEF vars, table, history, Ledger, SuccessWasAccepted, SentWasAccepted

LEMMA LedgerKept == Ledger /\ [Next]_vars => Ledger'
<1> SUFFICES ASSUME Ledger, [Next]_vars PROVE Ledger'
  OBVIOUS
<1>1. ASSUME NEW w \in Workers, NEW S \in SUBSET Rows, Claim(w, S) PROVE Ledger'
  BY <1>1, LedgerClaim
<1>2. ASSUME NEW w \in Workers, DeliverNext(w) PROVE Ledger'
  BY <1>2, LedgerDeliver DEF DeliverNext
<1>3. ASSUME NEW w \in Workers, Record(w) \/ RecordingLost(w) \/ Crash(w) PROVE Ledger'
  BY <1>3, LedgerRecord DEF Record
<1>4. ASSUME NEW r \in Rows, LeaseLapses(r) \/ Remove(r) PROVE Ledger'
  BY <1>4, LedgerWorld
<1>5. CASE UNCHANGED vars
  BY <1>5, LedgerStutters
<1> QED BY <1>1, <1>2, <1>3, <1>4, <1>5 DEF Next

\* Whatever crashes, lapses or is lost, the state stays well typed: no row is
\* claimed, and no copy made, more often than MaxAttempts (ClaimBatch).
THEOREM TypeCorrect == Spec => []TypeOK
<1>1. Spec => []Ledger
  BY LedgerInit, LedgerKept, PTL DEF Spec
<1> QED BY <1>1, LedgerTypes, PTL

\* Every copy that reaches the receiver was charged to the row when it was
\* claimed (attempt_count is raised by the claim), under every fault.
THEOREM CopiesAreCapped == Spec => []CopiesCapped
<1>1. Spec => []Ledger
  BY LedgerInit, LedgerKept, PTL DEF Spec
<1>2. Ledger => CopiesCapped
  BY DEF Ledger
<1> QED BY <1>1, <1>2, PTL

\* sent_at is set only on a row whose receiver accepted it (RecordSuccess),
\* under every fault.
THEOREM SentIsTruthful == Spec => []SentWasAccepted
<1>1. Spec => []Ledger
  BY LedgerInit, LedgerKept, PTL DEF Spec
<1>2. Ledger => SentWasAccepted
  BY DEF Ledger
<1> QED BY <1>1, <1>2, PTL

-----------------------------------------------------------------------------
(* What the lease promises, whatever crashes, is lost or outlives it.      *)

\* A worker holds a row once: in its batch or in hand.
OneClaim == \A w \in Workers :
  /\ \A x, y \in Held(w) : x.row = y.row => x = y
  /\ batch[w] \cap job[w].claim = {}

\* A row without verdict or lease is in nobody's hands but a late worker's.
FreeRow(r) == r \in present /\ ~leased[r] /\ ~sent[r] /\ ~failed[r]
FreeIsLate == \A w \in Workers : \A x \in Held(w) : FreeRow(x.row) => x \in late

Lease == OneClaim /\ FreeIsLate /\ OneHolder

LEMMA LeaseInit == Init => Lease
<1> SUFFICES ASSUME Init PROVE Lease
  OBVIOUS
<1>1. \A w \in Workers : Held(w) = {} /\ batch[w] = {}
  BY DEF Init, Held, NoJob
<1> QED BY <1>1 DEF Lease, OneClaim, FreeIsLate, OneHolder

\* A claim takes rows that only late workers still hold.
LEMMA LeaseClaim ==
  ASSUME Shape, Lease, NEW w \in Workers, NEW S \in SUBSET Rows, Claim(w, S)
  PROVE  Lease'
<1>1. /\ Held(w)' = {[row |-> r, attempt |-> attempts[r] + 1] : r \in S}
      /\ job'[w].claim = {}
  BY DEF Shape, Claim, Held
<1>2. \A v \in Workers : v # w => Held(v)' = Held(v) /\ batch'[v] = batch[v] /\ job' = job
  BY DEF Shape, Claim, Held
<1>3. late' = late /\ \A x \in Held(w)' : x.row \in S
  BY <1>1 DEF Claim, history
<1>4. \A v \in Workers : \A x \in Held(v) : x.row \in S => x \in late
  BY DEF Lease, FreeIsLate, FreeRow, Claim, Claimable
<1>5. OneClaim'
  <2> SUFFICES ASSUME NEW v \in Workers
               PROVE  /\ \A x, y \in Held(v)' : x.row = y.row => x = y
                      /\ batch'[v] \cap job'[v].claim = {}
    BY DEF OneClaim
  <2>1. CASE v = w
    BY <1>1, <2>1
  <2>2. CASE v # w
    BY <1>2, <2>2 DEF Lease, OneClaim
  <2> QED BY <2>1, <2>2
<1>6. FreeIsLate'
  <2> SUFFICES ASSUME NEW v \in Workers, NEW x \in Held(v)', FreeRow(x.row)'
               PROVE  x \in late
    BY <1>3 DEF FreeIsLate
  <2>0. x.row \in Rows /\ S \subseteq Rows
    BY <1>2, <1>3 DEF Shape, Held, Claims
  <2>1. x.row \notin S /\ FreeRow(x.row)
    BY <2>0 DEF FreeRow, Claim, Shape
  <2>2. v # w
    BY <1>3, <2>1
  <2> QED BY <1>2, <2>1, <2>2 DEF Lease, FreeIsLate
<1>7. OneHolder'
  <2> SUFFICES ASSUME NEW u \in Workers, NEW v \in Workers, u # v,
                      NEW x \in Held(u)', NEW y \in Held(v)', x.row = y.row
               PROVE  x \in late \/ y \in late
    BY <1>3 DEF OneHolder
  <2>1. CASE u = w
    BY <1>2, <1>3, <1>4, <2>1
  <2>2. CASE v = w
    BY <1>2, <1>3, <1>4, <2>2
  <2>3. CASE u # w /\ v # w
    BY <1>2, <2>3 DEF Lease, OneHolder
  <2> QED BY <2>1, <2>2, <2>3
<1> QED BY <1>5, <1>6, <1>7 DEF Lease

LEMMA LeaseDeliver ==
  ASSUME Shape, Lease, NEW w \in Workers, DeliverNext(w)
  PROVE  Lease'
<1> PICK x \in Claims, reached \in BOOLEAN, taken \in BOOLEAN, answer \in Answers :
      Deliver(w, x, reached, taken, answer)
  BY DEF DeliverNext
<1>1. /\ x \in batch[w] /\ job[w].claim = {}
      /\ batch'[w] = batch[w] \ {x} /\ job'[w].claim = {x}
      /\ \A v \in Workers : v # w => batch'[v] = batch[v] /\ job'[v] = job[v]
  BY DEF Deliver, Shape, NoJob
<1>2. \A v \in Workers : Held(v)' = Held(v)
  BY <1>1 DEF Held
<1>3. UNCHANGED <<table, late>>
  BY DEF Deliver
<1>4. OneClaim'
  BY <1>1, <1>2 DEF Lease, OneClaim
<1> QED BY <1>2, <1>3, <1>4 DEF Lease, FreeIsLate, FreeRow, OneHolder, table

\* A step that only lets go of rows, and frees none that is still held in time.
LEMMA LeaseSheds ==
  ASSUME Lease, late \subseteq late',
         \A v \in Workers : batch'[v] \subseteq batch[v],
         \A v \in Workers : job'[v] = job[v] \/ job'[v].claim = {},
         \A v \in Workers : \A x \in Held(v) :
           FreeRow(x.row)' => FreeRow(x.row) \/ x \in late' \/ x \notin Held(v)'
  PROVE  Lease'
<1>1. \A v \in Workers : /\ Held(v)' \subseteq Held(v)
                          /\ batch'[v] \cap job'[v].claim \subseteq batch[v] \cap job[v].claim
  BY DEF Held
<1> QED BY <1>1 DEF Lease, OneClaim, FreeIsLate, OneHolder

\* The step that ends the work on a row leaves it with a verdict or a lease,
\* or frees nobody: what a failure writes is one or the other.
LEMMA LeaseRecord ==
  ASSUME Shape, Lease, NEW w \in Workers, NEW y \in Claims,
         \/ RecordSuccess(w, y) \/ RecordFailure(w, y) \/ RecordRefusal(w, y)
  PROVE  Lease'
<1>1. late' = late /\ batch' = batch /\ Finished(w) /\ y.row \in Rows
  BY DEF RecordSuccess, RecordFailure, RecordRefusal, history, Claims
<1>2. \A v \in Workers : job'[v] = job[v] \/ job'[v].claim = {}
  BY <1>1 DEF Finished, Shape, NoJob
<1>3. \A r \in Rows : FreeRow(r)' => FreeRow(r)
  <2>1. CASE RecordSuccess(w, y)
    BY <2>1 DEF RecordSuccess, FreeRow, Shape
  <2>2. ASSUME NEW perm \in BOOLEAN, WriteFailure(y.row, perm), UNCHANGED <<present, sent>>
        PROVE  \A r \in Rows : FreeRow(r)' => FreeRow(r)
    BY <2>2 DEF WriteFailure, FreeRow, Shape
  <2>3. Exhausted(y) \in BOOLEAN
    BY DEF Exhausted
  <2> QED BY <2>1, <2>2, <2>3 DEF RecordFailure, RecordRefusal
<1>4. \A v \in Workers : \A x \in Held(v) : x.row \in Rows
  BY DEF Shape, Held, Claims
<1> QED BY <1>1, <1>2, <1>3, <1>4, LeaseSheds

LEMMA LeaseLetGo ==
  ASSUME Shape, Lease, NEW w \in Workers, RecordingLost(w) \/ Crash(w)
  PROVE  Lease'
<1>1. /\ UNCHANGED table /\ late' = late
      /\ \A v \in Workers : batch'[v] \subseteq batch[v]
      /\ \A v \in Workers : job'[v] = job[v] \/ job'[v].claim = {}
  BY DEF RecordingLost, Crash, Finished, Forget, Shape, NoJob
<1>2. \A r : FreeRow(r)' = FreeRow(r)
  BY <1>1 DEF FreeRow, table
<1> QED BY <1>1, <1>2, LeaseSheds

\* When a lease ends, whoever holds its row is late from then on.
LEMMA LeaseWorld ==
  ASSUME Shape, Lease, NEW r \in Rows, LeaseLapses(r) \/ Remove(r)
  PROVE  Lease'
<1>1. UNCHANGED <<batch, job>> /\ late \subseteq late'
  BY DEF LeaseLapses, Remove, history
<1>2. ASSUME NEW v \in Workers, NEW x \in Held(v), FreeRow(x.row)'
      PROVE  FreeRow(x.row) \/ x \in late'
  <2>1. CASE Remove(r)
    BY <1>2, <2>1 DEF Remove, FreeRow
  <2>2. CASE LeaseLapses(r) /\ x.row = r
    BY <2>2 DEF LeaseLapses, HeldByAny
  <2>3. CASE LeaseLapses(r) /\ x.row # r
    <3>1. x.row \in Rows
      BY DEF Shape, Held, Claims
    <3> QED BY <1>2, <2>3, <3>1 DEF LeaseLapses, FreeRow, Shape
  <2> QED BY <2>1, <2>2, <2>3
<1> QED BY <1>1, <1>2, LeaseSheds

LEMMA LeaseKept == Ledger /\ Lease /\ [Next]_vars => Lease'
<1> SUFFICES ASSUME Shape, Lease, [Next]_vars PROVE Lease'
  BY DEF Ledger
<1>1. ASSUME NEW w \in Workers, NEW S \in SUBSET Rows, Claim(w, S) PROVE Lease'
  BY <1>1, LeaseClaim
<1>2. ASSUME NEW w \in Workers, DeliverNext(w) PROVE Lease'
  BY <1>2, LeaseDeliver
<1>3. ASSUME NEW w \in Workers, Record(w) PROVE Lease'
  BY <1>3, LeaseRecord DEF Record
<1>4. ASSUME NEW w \in Workers, RecordingLost(w) \/ Crash(w) PROVE Lease'
  BY <1>4, LeaseLetGo
<1>5. ASSUME NEW r \in Rows, LeaseLapses(r) \/ Remove(r) PROVE Lease'
  BY <1>5, LeaseWorld
<1>6. CASE UNCHANGED vars
  <2>1. UNCHANGED <<table, batch, job, late>>
    BY <1>6 DEF vars, history
  <2>2. \A r : FreeRow(r)' = FreeRow(r)
    BY <2>1 DEF FreeRow, table
  <2> QED BY <2>1, <2>2, LeaseSheds
<1> QED BY <1>1, <1>2, <1>3, <1>4, <1>5, <1>6 DEF Next

LEMMA Leased == Spec => [](Ledger /\ Lease)
<1>1. Init => Ledger /\ Lease
  BY LedgerInit, LeaseInit
<1>2. (Ledger /\ Lease) /\ [Next]_vars => (Ledger /\ Lease)'
  BY LedgerKept, LeaseKept
<1> QED BY <1>1, <1>2, PTL DEF Spec

\* Two workers never have one row unless one of them has outlived its lease
\* (ClaimBatch), whatever workers die, writes fail and batches last.
THEOREM LeaseExcludes == Spec => []OneHolder
<1>1. Lease => OneHolder
  BY DEF Lease
<1> QED BY <1>1, Leased, PTL

-----------------------------------------------------------------------------
(* What the receiver accepts.                                              *)

\* What was accepted, in time and for the record, is marked, gone, or in the
\* hands of a worker about to mark it.
CleanIsKept == \A x \in Clean :
  \/ sent[x.row]
  \/ x.row \notin present
  \/ \E w \in Workers : x \in job[w].claim /\ Success(job[w].answer)

\* What waits in time in a batch was not accepted that way before.
BatchIsFresh == \A w \in Workers : \A y \in batch[w] :
  y \notin late => \A x \in Clean : x.row # y.row

Once == AcceptedOnce /\ CleanIsKept /\ BatchIsFresh

LEMMA OnceClaim ==
  ASSUME Shape, Lease, Once, NEW w \in Workers, NEW S \in SUBSET Rows, Claim(w, S)
  PROVE  Once'
<1>1. UNCHANGED <<present, sent, job, accepted, lost, late>>
  BY DEF Claim, history
<1>2. AcceptedOnce' /\ CleanIsKept'
  BY <1>1 DEF Once, AcceptedOnce, CleanIsKept, Clean, Success
<1>3. \A x \in Clean : x.row \notin S
  <2> SUFFICES ASSUME NEW x \in Clean, x.row \in S PROVE FALSE
    OBVIOUS
  <2>1. FreeRow(x.row)
    BY DEF Claim, Claimable, FreeRow
  <2>2. PICK v \in Workers : x \in job[v].claim
    BY <2>1 DEF Once, CleanIsKept, FreeRow
  <2> QED BY <2>1, <2>2 DEF Lease, FreeIsLate, Held, Clean
<1>4. BatchIsFresh'
  <2> SUFFICES ASSUME NEW v \in Workers, NEW y \in batch'[v], y \notin late, NEW x \in Clean
               PROVE  x.row # y.row
    BY <1>1 DEF BatchIsFresh, Clean
  <2>1. CASE v = w
    <3>1. y.row \in S
      BY <2>1 DEF Claim, Shape
    <3> QED BY <1>3, <3>1
  <2>2. CASE v # w
    BY <2>2 DEF Claim, Shape, Once, BatchIsFresh
  <2> QED BY <2>1, <2>2
<1> QED BY <1>2, <1>4 DEF Once

\* The receiver gets a row that nobody else has in time and that it did not
\* accept in time before.
LEMMA OnceDeliver ==
  ASSUME Shape, Lease, Once, NEW w \in Workers, NEW x \in Claims, NEW reached \in BOOLEAN,
         NEW taken \in BOOLEAN, NEW answer \in Answers, Deliver(w, x, reached, taken, answer)
  PROVE  Once'
<1>1. /\ x \in batch[w] /\ UNCHANGED <<late, present, sent>>
      /\ job[w].claim = {} /\ job'[w] = [claim |-> {x}, answer |-> answer]
      /\ batch'[w] = batch[w] \ {x}
      /\ \A v \in Workers : v # w => batch'[v] = batch[v] /\ job'[v] = job[v]
  BY DEF Deliver, Shape, NoJob, table
<1>2. /\ Clean' \subseteq Clean \cup {x}
      /\ x \in Clean' => x \in Clean \/ answer = "ok"
  BY DEF Deliver, Clean, Answers
<1>3. \A y \in Clean : x \notin late => y.row # x.row
  BY <1>1 DEF Once, BatchIsFresh
<1>4. AcceptedOnce'
  <2> SUFFICES ASSUME NEW y \in Clean', NEW z \in Clean', y.row = z.row PROVE y = z
    BY DEF AcceptedOnce
  <2>1. x \in Clean' => x \notin late
    BY <1>1 DEF Clean
  <2> QED BY <1>2, <1>3, <2>1 DEF Once, AcceptedOnce
<1>5. CleanIsKept'
  <2> SUFFICES ASSUME NEW y \in Clean', ~sent[y.row], y.row \in present
               PROVE  \E v \in Workers : y \in job'[v].claim /\ Success(job'[v].answer)
    BY <1>1 DEF CleanIsKept, Success
  <2>1. CASE y = x /\ answer = "ok"
    BY <1>1, <2>1 DEF Success
  <2>2. CASE y \in Clean
    <3>1. PICK v \in Workers : y \in job[v].claim /\ Success(job[v].answer)
      BY <2>2 DEF Once, CleanIsKept
    <3>2. v # w
      BY <1>1, <3>1
    <3> QED BY <1>1, <3>1, <3>2
  <2> QED BY <1>2, <2>1, <2>2
<1>6. BatchIsFresh'
  <2> SUFFICES ASSUME NEW v \in Workers, NEW y \in batch'[v], y \notin late, NEW z \in Clean'
               PROVE  z.row # y.row
    BY <1>1 DEF BatchIsFresh
  <2>1. y \in batch[v]
    BY <1>1
  <2>2. CASE z \in Clean
    BY <2>1, <2>2 DEF Once, BatchIsFresh
  <2>3. CASE z = x
    <3> SUFFICES ASSUME x.row = y.row PROVE FALSE
      BY <2>3
    <3>1. x \in Held(w) /\ y \in Held(v) /\ x \notin late
      BY <1>1, <2>1, <2>3 DEF Held, Clean
    <3>2. v = w
      BY <3>1 DEF Lease, OneHolder
    <3>3. y = x
      BY <3>1, <3>2 DEF Lease, OneClaim
    <3> QED BY <1>1, <3>2, <3>3
  <2> QED BY <1>2, <2>2, <2>3
<1> QED BY <1>4, <1>5, <1>6 DEF Once

\* A step that delivers nothing, and lets go of no accepted row unless it is
\* marked, gone or written off.
LEMMA OnceSheds ==
  ASSUME Once, accepted' = accepted, lost \subseteq lost', late \subseteq late',
         present' \subseteq present,
         \A x \in accepted : sent[x.row] => sent'[x.row],
         \A v \in Workers : batch'[v] \subseteq batch[v],
         \A v \in Workers :
           \/ job'[v] = job[v]
           \/ \A x \in job[v].claim : Success(job[v].answer) =>
                x \in lost' \/ sent'[x.row] \/ x.row \notin present'
  PROVE  Once'
<1>1. Clean' \subseteq Clean
  BY DEF Clean
<1>2. AcceptedOnce' /\ BatchIsFresh'
  BY <1>1 DEF Once, AcceptedOnce, BatchIsFresh
<1>3. CleanIsKept'
  <2> SUFFICES ASSUME NEW x \in Clean', ~sent'[x.row], x.row \in present'
               PROVE  \E v \in Workers : x \in job'[v].claim /\ Success(job'[v].answer)
    BY DEF CleanIsKept, Success
  <2>1. PICK v \in Workers : x \in job[v].claim /\ Success(job[v].answer)
    BY <1>1 DEF Once, CleanIsKept, Clean
  <2>2. x \notin lost'
    BY DEF Clean
  <2> QED BY <2>1, <2>2
<1> QED BY <1>2, <1>3 DEF Once

LEMMA OnceRecord ==
  ASSUME Shape, Once, NEW w \in Workers, NEW y \in Claims,
         \/ RecordSuccess(w, y) \/ RecordFailure(w, y) \/ RecordRefusal(w, y)
  PROVE  Once'
<1>1. /\ UNCHANGED <<accepted, lost, late, present, batch>> /\ y.row \in Rows
      /\ job[w].claim = {y} /\ Finished(w)
  <2>1. CASE RecordSuccess(w, y)
    BY <2>1 DEF RecordSuccess, history, Claims
  <2>2. RecordFailure(w, y) => job[w].claim = {y}
    BY DEF RecordFailure
  <2>3. RecordRefusal(w, y) => job[w].claim = {y}
    BY DEF RecordRefusal
  <2> QED BY <2>1, <2>2, <2>3 DEF RecordSuccess, RecordFailure, RecordRefusal, history, Claims
<1>2. \A v \in Workers : v # w => job'[v] = job[v]
  BY <1>1 DEF Finished, Shape
<1>3. \A x \in accepted : sent[x.row] => sent'[x.row]
  <2>1. \A x \in accepted : x.row \in Rows
    BY DEF Shape, Claims
  <2> QED BY <2>1 DEF RecordSuccess, RecordFailure, RecordRefusal, Shape
<1>4. Success(job[w].answer) => sent'[y.row] \/ y.row \notin present'
  <2>1. CASE RecordSuccess(w, y)
    BY <1>1, <2>1 DEF RecordSuccess, Shape
  <2>2. CASE RecordFailure(w, y)
    <3>1. job[w].answer = "failed"
      BY <2>2 DEF RecordFailure
    <3> QED BY <3>1 DEF Success
  <2>3. CASE RecordRefusal(w, y)
    <3>1. job[w].answer = "refused"
      BY <2>3 DEF RecordRefusal
    <3> QED BY <3>1 DEF Success
  <2> QED BY <2>1, <2>2, <2>3
<1> QED BY <1>1, <1>2, <1>3, <1>4, OnceSheds

LEMMA OnceLetGo ==
  ASSUME Shape, Once, NEW w \in Workers, RecordingLost(w) \/ Crash(w)
  PROVE  Once'
<1>1. /\ UNCHANGED <<table, accepted, late>>
      /\ lost \subseteq lost' /\ job[w].claim \subseteq lost'
      /\ \A v \in Workers : batch'[v] \subseteq batch[v] /\ (v # w => job'[v] = job[v])
  BY DEF RecordingLost, Crash, Finished, Forget, Held, Shape
<1>2. UNCHANGED <<present, sent>>
  BY <1>1 DEF table
<1> QED BY <1>1, <1>2, OnceSheds

LEMMA OnceKept == Ledger /\ Lease /\ Once /\ [Next]_vars => Once'
<1> SUFFICES ASSUME Shape, Lease, Once, [Next]_vars PROVE Once'
  BY DEF Ledger
<1>1. ASSUME NEW w \in Workers, NEW S \in SUBSET Rows, Claim(w, S) PROVE Once'
  BY <1>1, OnceClaim
<1>2. ASSUME NEW w \in Workers, DeliverNext(w) PROVE Once'
  BY <1>2, OnceDeliver DEF DeliverNext
<1>3. ASSUME NEW w \in Workers, Record(w) PROVE Once'
  BY <1>3, OnceRecord DEF Record
<1>4. ASSUME NEW w \in Workers, RecordingLost(w) \/ Crash(w) PROVE Once'
  BY <1>4, OnceLetGo
<1>5. ASSUME NEW r \in Rows, LeaseLapses(r) \/ Remove(r) PROVE Once'
  BY <1>5, OnceSheds DEF LeaseLapses, Remove, history
<1>6. CASE UNCHANGED vars
  BY <1>6, OnceSheds DEF vars, table, history
<1> QED BY <1>1, <1>2, <1>3, <1>4, <1>5, <1>6 DEF Next

\* The receiver accepts a row a second time only when the worker that had it
\* accepted before could not record it or had outlived its lease (ClaimBatch,
\* RecordSuccess), under every fault and rows deleted under the workers.
THEOREM AcceptsOnce == Spec => []AcceptedOnce
<1>1. Init => Once
  BY DEF Init, Once, AcceptedOnce, CleanIsKept, BatchIsFresh, Clean
<1>2. (Ledger /\ Lease) /\ Once /\ [Next]_vars => Once'
  BY OnceKept
<1>3. Once => AcceptedOnce
  BY DEF Once
<1> QED BY <1>1, <1>2, <1>3, Leased, PTL DEF Spec

-----------------------------------------------------------------------------
(* What the lease promises while no batch outlives it.                     *)

Prompt == "slow" \notin Faults

\* A row in a worker's hands is under its lease and has no verdict.
HeldIsOpen == \A w \in Workers : \A x \in Held(w) :
  leased[x.row] /\ ~sent[x.row] /\ ~failed[x.row] /\ attempts[x.row] > 0

\* One worker at a time has a row.
Exclusive == \A r \in Rows : \A v, w \in Workers : Holds(v, r) /\ Holds(w, r) => v = w

\* Nobody is late then, and what the lease promises is exclusive.
Promise == Shape /\ OneClaim /\ Exclusive
IInv == Promise /\ HeldIsOpen /\ OneVerdict

LEMMA NobodyIsLate ==
  ASSUME Prompt, late = {}, [Next]_vars
  PROVE  late' = {}
<1>1. ASSUME NEW r \in Rows, LeaseLapses(r) PROVE late' = {}
  <2>1. {x \in HeldByAny : x.row = r} = {}
    BY <1>1 DEF Prompt, LeaseLapses, HeldByAny, Holds
  <2> QED BY <1>1, <2>1 DEF LeaseLapses
<1>2. ASSUME NEW w \in Workers, NEW x \in Claims,
             RecordSuccess(w, x) \/ RecordFailure(w, x) \/ RecordRefusal(w, x)
      PROVE  late' = late
  BY <1>2 DEF RecordSuccess, RecordFailure, RecordRefusal, history
<1>3. ASSUME NEW w \in Workers, RecordingLost(w) \/ Crash(w) PROVE late' = late
  BY <1>3 DEF RecordingLost, Crash, Forget
<1>4. ASSUME NEW w \in Workers, DeliverNext(w) PROVE late' = late
  BY <1>4 DEF DeliverNext, Deliver
<1>5. ASSUME NEW w \in Workers, NEW S \in SUBSET Rows, Claim(w, S) PROVE late' = late
  BY <1>5 DEF Claim, history
<1>6. ASSUME NEW r \in Rows, Remove(r) PROVE late' = late
  BY <1>6 DEF Remove, history
<1> QED BY <1>1, <1>2, <1>3, <1>4, <1>5, <1>6 DEF Next, Record, vars, history

LEMMA PromiseHolds == ASSUME Ledger, Lease, late = {} PROVE Promise
BY DEF Ledger, Lease, OneHolder, Holds, Promise, Exclusive

LEMMA IInvInit == Init => HeldIsOpen /\ OneVerdict
BY DEF Init, HeldIsOpen, Held, NoJob, OneVerdict

\* Rows that can be claimed are in nobody's hands.
LEMMA ClaimableIsFree ==
  ASSUME IInv, NEW r \in Rows, Claimable(r), NEW w \in Workers
  PROVE  ~Holds(w, r)
BY DEF IInv, HeldIsOpen, Holds, Claimable

LEMMA IInvClaim ==
  ASSUME IInv, Promise', NEW w \in Workers, NEW S \in SUBSET Rows, Claim(w, S)
  PROVE  IInv'
<1>1. /\ Held(w)' = {[row |-> r, attempt |-> attempts[r] + 1] : r \in S}
      /\ job'[w].claim = {}
  BY DEF IInv, Promise, Shape, Claim, Held
<1>2. \A v \in Workers : v # w => Held(v)' = Held(v) /\ batch'[v] = batch[v] /\ job' = job
  BY DEF IInv, Promise, Shape, Claim, Held
<1>3. /\ \A r \in S : leased'[r] /\ attempts'[r] > 0 /\ ~sent[r] /\ ~failed[r]
      /\ \A r \in Rows : (leased[r] => leased'[r]) /\ attempts'[r] >= attempts[r]
      /\ sent' = sent /\ failed' = failed
  <2>1. \A r \in Rows : attempts[r] \in Nat
    BY DEF IInv, Promise, Shape
  <2>2. \A r \in Rows : /\ attempts'[r] = attempts[r] + (IF r \in S THEN 1 ELSE 0)
                        /\ leased'[r] = (leased[r] \/ r \in S)
    BY DEF Claim, Charged
  <2>3. \A r \in S : attempts'[r] = attempts[r] + 1
    BY <2>2
  <2>4. \A r \in Rows : attempts'[r] >= attempts[r]
    BY <2>1, <2>2
  <2>5. \A r \in S : attempts'[r] > 0
    BY <2>1, <2>3
  <2>6. sent' = sent /\ failed' = failed /\ \A r \in S : ~sent[r] /\ ~failed[r]
    BY DEF Claim, Claimable
  <2> QED BY <2>2, <2>4, <2>5, <2>6
<1>4. \A v \in Workers : \A x \in Held(v) : x \in Claims /\ x.row \in Rows
  BY DEF IInv, Promise, Shape, Held, Claims
<1>5. HeldIsOpen'
  <2> SUFFICES ASSUME NEW v \in Workers, NEW x \in Held(v)'
               PROVE  leased'[x.row] /\ ~sent'[x.row] /\ ~failed'[x.row] /\ attempts'[x.row] > 0
    BY DEF HeldIsOpen
  <2>1. CASE v = w
    BY <1>1, <1>3, <2>1
  <2>2. CASE v # w
    <3>1. /\ x \in Held(v) /\ x.row \in Rows
          /\ leased[x.row] /\ ~sent[x.row] /\ ~failed[x.row] /\ attempts[x.row] > 0
      BY <1>2, <1>4, <2>2 DEF IInv, HeldIsOpen
    <3>2. attempts[x.row] \in Nat /\ attempts'[x.row] \in Nat
      BY <3>1 DEF IInv, Promise, Shape
    <3> QED BY <1>3, <3>1, <3>2
  <2> QED BY <2>1, <2>2
<1> QED BY <1>3, <1>5 DEF IInv, OneVerdict

LEMMA IInvDeliver ==
  ASSUME IInv, Promise', NEW w \in Workers, DeliverNext(w)
  PROVE  IInv'
<1>1. \A v \in Workers : Held(v)' = Held(v)
  BY DEF DeliverNext, Deliver, IInv, Promise, Shape, NoJob, Held
<1>2. UNCHANGED table
  BY DEF DeliverNext, Deliver
<1> QED BY <1>1, <1>2 DEF IInv, HeldIsOpen, OneVerdict, table

\* The step that ends a worker's work on x, whatever it writes.
Release(w, x) ==
  /\ job[w].claim = {x}
  /\ Finished(w) /\ batch' = batch /\ attempts' = attempts

\* After it nobody holds the row, and other rows are where they were.
LEMMA ReleaseFrees ==
  ASSUME IInv, NEW w \in Workers, NEW x \in Claims, Release(w, x)
  PROVE  /\ Holds(w, x.row) /\ x \in Held(w)
         /\ \A v \in Workers : Held(v)' \subseteq Held(v) /\ ~Holds(v, x.row)'
<1>1. x \in Held(w) /\ Holds(w, x.row) /\ x.row \in Rows
  BY DEF Release, Held, Holds, Claims
<1>2. /\ job'[w].claim = {} /\ batch' = batch
      /\ \A v \in Workers : v # w => job'[v] = job[v]
  BY DEF Release, Finished, IInv, Promise, Shape, NoJob
<1>3. \A v \in Workers : Held(v)' \subseteq Held(v)
  BY <1>2 DEF Held
<1>4. ASSUME NEW v \in Workers, Holds(v, x.row)' PROVE FALSE
  <2>1. Holds(v, x.row)
    BY <1>3, <1>4 DEF Holds
  <2>2. v = w
    BY <1>1, <2>1 DEF IInv, Promise, Exclusive
  <2>3. PICK y \in batch[w] : y.row = x.row
    BY <1>2, <1>4, <2>2 DEF Holds, Held
  <2>4. y = x
    BY <1>1, <2>3 DEF IInv, Promise, OneClaim, Held
  <2> QED BY <2>3, <2>4 DEF IInv, Promise, OneClaim, Release
<1> QED BY <1>1, <1>3, <1>4

\* A release that touches only the verdict and lease of its own row.
LEMMA IInvRelease ==
  ASSUME IInv, Promise', NEW w \in Workers, NEW x \in Claims, Release(w, x),
         \A r \in Rows : r # x.row => /\ sent'[r] = sent[r] /\ failed'[r] = failed[r]
                                      /\ leased'[r] = leased[r],
         ~(sent'[x.row] /\ failed'[x.row])
  PROVE  IInv'
<1>1. HeldIsOpen'
  <2> SUFFICES ASSUME NEW v \in Workers, NEW y \in Held(v)'
               PROVE  leased'[y.row] /\ ~sent'[y.row] /\ ~failed'[y.row] /\ attempts'[y.row] > 0
    BY DEF HeldIsOpen
  <2>1. y \in Held(v) /\ y.row \in Rows
    BY ReleaseFrees DEF IInv, Promise, Shape, Held, Claims
  <2>2. y.row # x.row
    BY ReleaseFrees DEF Holds
  <2> QED BY <2>1, <2>2 DEF IInv, HeldIsOpen, Release
<1>2. OneVerdict'
  <2>1. \A r \in Rows : r # x.row => ~(sent'[r] /\ failed'[r])
    BY DEF IInv, OneVerdict
  <2> QED BY <2>1 DEF OneVerdict
<1> QED BY <1>1, <1>2 DEF IInv

\* What recording an outcome writes: one row's verdict, never both verdicts.
LEMMA RecordWrites ==
  ASSUME IInv, NEW w \in Workers, NEW x \in Claims,
         \/ RecordSuccess(w, x) \/ RecordFailure(w, x) \/ RecordRefusal(w, x)
  PROVE  /\ Release(w, x) /\ present' = present /\ x.row \in Rows
         /\ ~sent[x.row] /\ ~failed[x.row] /\ attempts[x.row] > 0
         /\ \A r \in Rows : r # x.row => /\ sent'[r] = sent[r] /\ failed'[r] = failed[r]
                                         /\ leased'[r] = leased[r]
         /\ ~(sent'[x.row] /\ failed'[x.row])
         /\ x.row \notin present => sent' = sent /\ failed' = failed
<1>1. Release(w, x) /\ present' = present /\ x.row \in Rows
  <2>1. x.row \in Rows
    BY DEF Claims
  <2>2. CASE RecordSuccess(w, x)
    BY <2>1, <2>2 DEF Release, RecordSuccess
  <2>3. CASE RecordFailure(w, x)
    <3>1. job[w].claim = {x}
      BY <2>3 DEF RecordFailure
    <3> QED BY <2>1, <2>3, <3>1 DEF Release, RecordFailure
  <2>4. CASE RecordRefusal(w, x)
    <3>1. job[w].claim = {x}
      BY <2>4 DEF RecordRefusal
    <3> QED BY <2>1, <2>4, <3>1 DEF Release, RecordRefusal
  <2> QED BY <2>2, <2>3, <2>4
<1>2. ~sent[x.row] /\ ~failed[x.row] /\ attempts[x.row] > 0
  BY <1>1, ReleaseFrees DEF IInv, HeldIsOpen
<1>3. CASE RecordSuccess(w, x)
  BY <1>1, <1>2, <1>3 DEF RecordSuccess, IInv, Promise, Shape
<1>4. CASE RecordFailure(w, x) \/ RecordRefusal(w, x)
  <2>1. sent' = sent /\ \E perm \in BOOLEAN : WriteFailure(x.row, perm)
    <3>1. Exhausted(x) \in BOOLEAN
      BY DEF Exhausted
    <3>2. CASE RecordFailure(w, x)
      BY <3>1, <3>2 DEF RecordFailure
    <3>3. CASE RecordRefusal(w, x)
      BY <3>3 DEF RecordRefusal
    <3> QED BY <1>4, <3>2, <3>3
  <2>2. PICK perm \in BOOLEAN : WriteFailure(x.row, perm)
    BY <2>1
  <2>3. /\ \A r \in Rows : r # x.row => failed'[r] = failed[r] /\ leased'[r] = leased[r]
        /\ x.row \notin present => failed' = failed
    BY <2>2 DEF WriteFailure, IInv, Promise, Shape
  <2> QED BY <1>1, <1>2, <2>1, <2>3
<1> QED BY <1>3, <1>4

LEMMA IInvLetGo ==
  ASSUME IInv, Promise', NEW w \in Workers, RecordingLost(w) \/ Crash(w)
  PROVE  IInv'
<1>1. /\ UNCHANGED table
      /\ \A v \in Workers : Held(v)' \subseteq Held(v)
  BY DEF RecordingLost, Crash, Finished, IInv, Promise, Shape, NoJob, Held
<1> QED BY <1>1 DEF IInv, HeldIsOpen, OneVerdict, table

LEMMA IInvWorld ==
  ASSUME Prompt, IInv, Promise', NEW r \in Rows, LeaseLapses(r) \/ Remove(r)
  PROVE  IInv'
<1>1. UNCHANGED <<attempts, sent, failed, batch, job>>
  BY DEF LeaseLapses, Remove
<1>2. \A w \in Workers : Held(w)' = Held(w)
  BY <1>1 DEF Held
<1>3. \A w \in Workers : \A x \in Held(w) : leased'[x.row] = leased[x.row]
  <2>1. CASE LeaseLapses(r)
    <3>1. \A w \in Workers : \A x \in Held(w) : x.row # r
      BY <2>1 DEF LeaseLapses, Holds, Prompt
    <3>2. \A w \in Workers : \A x \in Held(w) : x.row \in Rows
      BY DEF IInv, Promise, Shape, Held, Claims
    <3>3. \A q \in Rows : q # r => leased'[q] = leased[q]
      BY <2>1 DEF LeaseLapses, IInv, Promise, Shape
    <3> QED BY <3>1, <3>2, <3>3
  <2>2. CASE Remove(r)
    BY <2>2 DEF Remove
  <2> QED BY <2>1, <2>2
<1> QED BY <1>1, <1>2, <1>3 DEF IInv, HeldIsOpen, OneVerdict

LEMMA IInvStutters == ASSUME IInv, Promise', UNCHANGED vars PROVE IInv'
<1>1. \A w \in Workers : Held(w)' = Held(w)
  BY DEF vars, Held
<1> QED BY <1>1 DEF vars, table, IInv, HeldIsOpen, OneVerdict

LEMMA IInvKept == Prompt /\ IInv /\ Promise' /\ [Next]_vars => IInv'
<1> SUFFICES ASSUME Prompt, IInv, Promise', [Next]_vars PROVE IInv'
  OBVIOUS
<1>1. ASSUME NEW w \in Workers, NEW S \in SUBSET Rows, Claim(w, S) PROVE IInv'
  BY <1>1, IInvClaim
<1>2. ASSUME NEW w \in Workers, DeliverNext(w) PROVE IInv'
  BY <1>2, IInvDeliver
<1>3. ASSUME NEW w \in Workers, Record(w) PROVE IInv'
  BY <1>3, RecordWrites, IInvRelease DEF Record
<1>4. ASSUME NEW w \in Workers, RecordingLost(w) \/ Crash(w) PROVE IInv'
  BY <1>4, IInvLetGo
<1>5. ASSUME NEW r \in Rows, LeaseLapses(r) \/ Remove(r) PROVE IInv'
  BY <1>5, IInvWorld
<1>6. CASE UNCHANGED vars
  BY <1>6, IInvStutters
<1> QED BY <1>1, <1>2, <1>3, <1>4, <1>5, <1>6 DEF Next

LEMMA Promised ==
  ASSUME Prompt
  PROVE  Spec => []IInv
<1> DEFINE Inv == Ledger /\ Lease /\ late = {} /\ IInv
<1>1. Init => Inv
  BY LedgerInit, LeaseInit, IInvInit, PromiseHolds DEF Init, IInv
<1>2. Inv /\ [Next]_vars => Inv'
  <2> SUFFICES ASSUME Inv, [Next]_vars PROVE Inv'
    OBVIOUS
  <2>1. Ledger' /\ Lease' /\ late' = {}
    BY LedgerKept, LeaseKept, NobodyIsLate
  <2>2. Promise'
    BY <2>1 DEF Ledger, Lease, OneHolder, Holds, Promise, Exclusive
  <2> QED BY <2>1, <2>2, IInvKept
<1>3. Inv => IInv
  OBVIOUS
<1> QED BY <1>1, <1>2, <1>3, PTL DEF Spec

\* While every batch ends before its lease, no row is both delivered and
\* dead-lettered (RecordSuccess, recordFailure).
THEOREM VerdictsExclude ==
  ASSUME Prompt
  PROVE  Spec => []OneVerdict
<1>1. IInv => OneVerdict
  BY DEF IInv
<1> QED BY <1>1, Promised, PTL

-----------------------------------------------------------------------------
(* Dead letters, and the documented life of a row.                         *)

LEMMA DeadStep ==
  ASSUME Prompt, IInv, [Next]_vars, NEW r \in Rows, failed[r]
  PROVE  failed'[r] /\ attempts'[r] = attempts[r]
<1>1. ASSUME NEW w \in Workers, NEW S \in SUBSET Rows, Claim(w, S)
      PROVE  failed'[r] /\ attempts'[r] = attempts[r]
  <2>1. r \notin S
    BY <1>1 DEF Claim, Claimable
  <2>2. attempts'[r] = attempts[r] + 0 /\ attempts[r] \in Nat
    BY <1>1, <2>1 DEF Claim, Charged, IInv, Promise, Shape
  <2> QED BY <1>1, <2>2 DEF Claim
<1>2. ASSUME NEW w \in Workers, NEW x \in Claims,
             RecordSuccess(w, x) \/ RecordFailure(w, x) \/ RecordRefusal(w, x)
      PROVE  failed'[r] /\ attempts'[r] = attempts[r]
  BY <1>2, RecordWrites DEF Release
<1>3. CASE UNCHANGED <<failed, attempts>>
  BY <1>3
<1> QED
  BY <1>1, <1>2, <1>3
     DEF Next, Record, DeliverNext, Deliver, RecordingLost, Crash, LeaseLapses,
         Remove, vars, table

\* A dead-lettered row is never claimed or revived (RecordFailure) while
\* every batch ends before its lease.
THEOREM DeadAreLeftAlone ==
  ASSUME Prompt
  PROVE  Spec => DeadStaysDead
<1>1. IInv /\ [Next]_vars => [\A r \in Rows : failed[r] => failed'[r] /\ attempts'[r] = attempts[r]]_vars
  BY DeadStep
<1> QED BY <1>1, Promised, PTL DEF Spec, DeadStaysDead

LEMMA LifeBegins == Init => Lifecycle!LInit
<1> SUFFICES ASSUME Init PROVE Lifecycle!LInit
  OBVIOUS
<1>1. \A r \in Rows : Fate(r) = "open"
  BY DEF Init, Fate
<1> QED BY <1>1 DEF Init, Lifecycle!LInit

\* A step that leaves every verdict and count alone is a stutter of the life.
LEMMA LifeStutters ==
  ASSUME UNCHANGED <<present, attempts, sent, failed>>
  PROVE  UNCHANGED Lifecycle!lvars
BY DEF Lifecycle!lvars, Fate

LEMMA LifeClaims ==
  ASSUME IInv, NEW w \in Workers, NEW S \in SUBSET Rows, Claim(w, S)
  PROVE  Lifecycle!Claimed(S)
<1>1. \A r \in S : Fate(r) = "open" /\ attempts[r] < MaxAttempts
  BY DEF Claim, Claimable, Fate
<1>2. UNCHANGED <<present, sent, failed>>
  BY DEF Claim
<1>3. \A r \in Rows : Fate(r)' = Fate(r)
  BY <1>2 DEF Fate
<1>4. attempts' = [r \in Rows |-> attempts[r] + (IF r \in S THEN 1 ELSE 0)]
  BY DEF Claim, Charged
<1> QED BY <1>1, <1>3, <1>4 DEF Lifecycle!Claimed

\* Recording settles an open row that is still there, or changes nothing.
LEMMA LifeSettles ==
  ASSUME IInv, NEW w \in Workers, NEW x \in Claims,
         RecordSuccess(w, x) \/ RecordFailure(w, x) \/ RecordRefusal(w, x)
  PROVE  [Lifecycle!LNext]_(Lifecycle!lvars)
<1> DEFINE q == x.row
<1>1. /\ q \in Rows /\ present' = present /\ attempts' = attempts /\ attempts[q] > 0
      /\ ~sent[q] /\ ~failed[q]
      /\ \A r \in Rows : r # q => sent'[r] = sent[r] /\ failed'[r] = failed[r]
      /\ ~(sent'[q] /\ failed'[q])
      /\ q \notin present => sent' = sent /\ failed' = failed
  BY RecordWrites DEF Release
<1>2. \A r \in Rows : r # q => Fate(r)' = Fate(r)
  BY <1>1 DEF Fate
<1>3. CASE q \notin present
  BY <1>1, <1>3, LifeStutters
<1>4. CASE q \in present
  <2>1. Fate(q) = "open"
    BY <1>1, <1>4 DEF Fate
  <2>2. Fate(q)' \in {"open", "succeeded", "failed"}
    BY <1>1, <1>4 DEF Fate
  <2>3. CASE Fate(q)' = "open"
    <3>1. \A r \in Rows : Fate(r)' = Fate(r)
      BY <1>2, <2>1, <2>3
    <3> QED BY <1>1, <3>1 DEF Lifecycle!lvars
  <2>4. ASSUME NEW verdict \in {"succeeded", "failed"}, Fate(q)' = verdict
        PROVE  Lifecycle!Settled(q, verdict)
    <3> DEFINE old == [r \in Rows |-> Fate(r)]
    <3>1. [r \in Rows |-> Fate(r)]' = [old EXCEPT ![q] = verdict]
      BY <1>2, <2>4
    <3> QED BY <1>1, <2>1, <3>1 DEF Lifecycle!Settled
  <2>5. CASE Fate(q)' \in {"succeeded", "failed"}
    BY <1>1, <2>4, <2>5 DEF Lifecycle!LNext
  <2> QED BY <2>2, <2>3, <2>5
<1> QED BY <1>3, <1>4

LEMMA LifeEnds ==
  ASSUME IInv, NEW r \in Rows, Remove(r)
  PROVE  Lifecycle!Deleted(r)
<1>1. Fate(r)' = "deleted" /\ \A p \in Rows : p # r => Fate(p)' = Fate(p)
  BY DEF Remove, Fate
<1>2. attempts' = attempts
  BY DEF Remove
<1> QED BY <1>1, <1>2 DEF Lifecycle!Deleted

LEMMA LifeStep == ASSUME IInv, [Next]_vars PROVE [Lifecycle!LNext]_(Lifecycle!lvars)
<1>1. ASSUME NEW w \in Workers, NEW S \in SUBSET Rows, Claim(w, S)
      PROVE  Lifecycle!LNext
  BY <1>1, LifeClaims DEF Lifecycle!LNext
<1>2. ASSUME NEW w \in Workers, Record(w)
      PROVE  [Lifecycle!LNext]_(Lifecycle!lvars)
  BY <1>2, LifeSettles DEF Record
<1>3. ASSUME NEW r \in Rows, Remove(r) PROVE Lifecycle!LNext
  BY <1>3, LifeEnds DEF Lifecycle!LNext
<1>4. CASE UNCHANGED <<present, attempts, sent, failed>>
  BY <1>4, LifeStutters
<1> QED
  BY <1>1, <1>2, <1>3, <1>4
     DEF Next, DeliverNext, Deliver, RecordingLost, Crash, LeaseLapses, vars, table

\* The workers implement the state machine of migration 000025 while every
\* batch ends before its lease: claims, crashes, lost writes and deletions.
THEOREM ImplementsLifecycle ==
  ASSUME Prompt
  PROVE  Spec => FollowsLifecycle
<1>1. IInv /\ [Next]_vars => [Lifecycle!LNext]_(Lifecycle!lvars)
  BY LifeStep
<1> QED BY <1>1, LifeBegins, Promised, PTL DEF Spec, FollowsLifecycle, Lifecycle!LSpec
=============================================================================

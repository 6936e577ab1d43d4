-------------------------- MODULE DeliveryLifecycle --------------------------
(***************************************************************************)
(* The life of a delivery row as the migrations 000025 and 000026 document *)
(* it, with the workers left out: Pending, then Claimed at most Limit      *)
(* times, then Succeeded or Failed for good.                               *)
(***************************************************************************)
EXTENDS Naturals

CONSTANTS Rows,   \* the delivery rows
          Limit   \* how often a row may be claimed, a Nat

VARIABLES tries,  \* per row: how often it was claimed
          fate    \* per row: "open", "succeeded", "failed" or "deleted"

lvars == <<tries, fate>>

LInit == /\ tries = [r \in Rows |-> 0]
         /\ fate = [r \in Rows |-> "open"]

\* Some open rows are claimed, each at most Limit times in its life.
Claimed(S) == /\ \A r \in S : fate[r] = "open" /\ tries[r] < Limit
              /\ tries' = [r \in Rows |-> tries[r] + (IF r \in S THEN 1 ELSE 0)]
              /\ UNCHANGED fate

\* An open row that was claimed gets its verdict, once.
Settled(r, verdict) == /\ fate[r] = "open" /\ tries[r] > 0
                       /\ fate' = [fate EXCEPT ![r] = verdict]
                       /\ UNCHANGED tries

\* Retention or the owner deletes a row in any state.
Deleted(r) == /\ fate' = [fate EXCEPT ![r] = "deleted"]
              /\ UNCHANGED tries

LNext == \/ \E S \in SUBSET Rows : Claimed(S)
         \/ \E r \in Rows : \/ Settled(r, "succeeded")
                            \/ Settled(r, "failed")
                            \/ Deleted(r)

LSpec == LInit /\ [][LNext]_lvars
=============================================================================

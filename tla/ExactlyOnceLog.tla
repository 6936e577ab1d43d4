--------------------------- MODULE ExactlyOnceLog ---------------------------
(***************************************************************************)
(* What the live scorer promises about the match event log, with the       *)
(* queue, the network and the browser left out: every action the scorer    *)
(* records is appended to the log at most once, in the order recorded, and *)
(* an action that was taken back or refused is never appended.  Other      *)
(* scorers append to the same log at any time.                             *)
(*                                                                         *)
(* docs/PROJECT_STATE.md states the promise: "an action is recorded        *)
(* exactly once - never lost, never duplicated".                           *)
(***************************************************************************)
EXTENDS Naturals, Sequences

CONSTANT MaxActions           \* how many actions the scorer may record, a Nat

Actions == 1..MaxActions      \* numbered in the order they are recorded
Foreign == 0                  \* an event of some other scorer

VARIABLES intent,             \* what became of each action
          stream              \* the log, as the actions its events came from

evars == <<intent, stream>>

Intents == {"new", "offered", "withdrawn", "refused"}

EInit == /\ intent = [c \in Actions |-> "new"]
         /\ stream = <<>>

Delivered(c) == \E i \in DOMAIN stream : stream[i] = c

\* The scorer records the next action.
Offer(c) == /\ intent[c] = "new"
            /\ \A d \in Actions : d < c => intent[d] # "new"
            /\ intent' = [intent EXCEPT ![c] = "offered"]
            /\ UNCHANGED stream

\* The scorer takes back an action that is not on the log, or the server
\* refuses it for good.
Drop(c, why) == /\ intent[c] = "offered"
                /\ ~Delivered(c)
                /\ intent' = [intent EXCEPT ![c] = why]
                /\ UNCHANGED stream

\* An offered action reaches the log: for the first time, and after every
\* action of this scorer that is already there.
Deliver(c) == /\ intent[c] = "offered"
              /\ \A i \in DOMAIN stream : stream[i] < c
              /\ stream' = Append(stream, c)
              /\ UNCHANGED intent

OtherScorer == /\ stream' = Append(stream, Foreign)
               /\ UNCHANGED intent

ENext == \/ \E c \in Actions : \/ Offer(c)
                               \/ Drop(c, "withdrawn")
                               \/ Drop(c, "refused")
                               \/ Deliver(c)
         \/ OtherScorer

ESpec == EInit /\ [][ENext]_evars
=============================================================================

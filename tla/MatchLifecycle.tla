--------------------------- MODULE MatchLifecycle ---------------------------
(***************************************************************************)
(* The life of the matches of a tournament as internal/matches documents   *)
(* it (allowedTransitions, terminalStatuses), with the requests, their     *)
(* stale reads and the bracket left out.  A terminal match never moves.    *)
(***************************************************************************)
CONSTANTS Matches,
          Results,   \* what a match may end with
          NoResult   \* the result of a match without a winner

VARIABLES state,   \* per match: its status, "none" until it is created
          result   \* per match: its winner, NoResult until it has one

mvars == <<state, result>>

MInit == /\ state \in [Matches -> {"none", "scheduled"}]
         /\ result = [m \in Matches |-> NoResult]

\* One match moves, and only an ending may give it a result.
Moves(m, from, to) == /\ state[m] = from
                      /\ state' = [state EXCEPT ![m] = to]
                      /\ UNCHANGED result
Ends(m, from, to, w) == /\ state[m] \in from
                        /\ state' = [state EXCEPT ![m] = to]
                        /\ result' = [result EXCEPT ![m] = w]

MNext == \E m \in Matches :
  \/ Moves(m, "none", "scheduled")
  \/ Moves(m, "scheduled", "live")
  \/ Moves(m, "scheduled", "cancelled")
  \/ Moves(m, "live", "cancelled")
  \/ Moves(m, "live", "abandoned")
  \/ \E w \in Results : Ends(m, {"live"}, "completed", w)
  \/ \E w \in Results : Ends(m, {"scheduled", "live"}, "walkover", w)

MSpec == MInit /\ [][MNext]_mvars
=============================================================================

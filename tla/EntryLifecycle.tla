--------------------------- MODULE EntryLifecycle ---------------------------
(***************************************************************************)
(* What a tournament promises its registrants, whatever requests overlap:  *)
(* statuses move as the two allowedTransitions tables say, terminal ones   *)
(* are terminal, and the fixtures are drawn once, from entries that are    *)
(* approved, after registration has closed.  The knockout is seated from   *)
(* that drawing, once, while the tournament is played.                     *)
(***************************************************************************)
EXTENDS Naturals

CONSTANT Teams

VARIABLES stage,   \* the tournament's status
          entry,   \* per team: the status of its registration, or "none"
          field,   \* the teams in the fixtures; {} before they are drawn
          seats    \* the teams in the knockout's qualifier slots

\* allowedTransitions of tournaments.
StageMoves == {<<"draft", "registration_open">>,
               <<"registration_open", "registration_closed">>,
               <<"registration_closed", "ongoing">>,
               <<"ongoing", "completed">>}
Advance == /\ \/ \E to \in {"registration_open", "registration_closed", "ongoing", "completed"} :
                   <<stage, to>> \in StageMoves /\ stage' = to
              \/ stage' = "cancelled"
           /\ UNCHANGED <<entry, field, seats>>

\* allowedTransitions of tournament_registrations, and registration itself.
EntryMoves == {<<"none", "pending">>,
               <<"pending", "approved">>, <<"pending", "rejected">>, <<"pending", "withdrawn">>,
               <<"approved", "withdrawn">>, <<"approved", "disqualified">>}
Review(t, to) == /\ <<entry[t], to>> \in EntryMoves
                 /\ entry' = [entry EXCEPT ![t] = to]
                 /\ UNCHANGED <<stage, field, seats>>

Draw(F) == /\ field = {} /\ stage = "registration_closed"
           /\ F = {t \in Teams : entry[t] = "approved"} /\ \E t, u \in F : t # u
           /\ field' = F
           /\ UNCHANGED <<stage, entry, seats>>

Seat(S) == /\ stage = "ongoing" /\ seats = {}
           /\ S # {} /\ S \subseteq field
           /\ seats' = S
           /\ UNCHANGED <<stage, entry, field>>

EInit == stage = "draft" /\ entry = [t \in Teams |-> "none"] /\ field = {} /\ seats = {}
ENext == \/ Advance
         \/ \E t \in Teams, m \in EntryMoves : Review(t, m[2])
         \/ \E F \in SUBSET Teams : Draw(F) \/ Seat(F)
ESpec == EInit /\ [][ENext]_<<stage, entry, field, seats>>
=============================================================================

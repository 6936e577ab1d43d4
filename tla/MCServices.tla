----------------------------- MODULE MCServices -----------------------------
(* Model checking of the parts that share no state with each other: Club,   *)
(* Profiles, Squads, Media, Draw and Standings of the backend, Scoreboard,  *)
(* TabSession and Inbox of the pages.  A behaviour is a behaviour of one of  *)
(* them.                                                                    *)
EXTENDS Club, Profiles, Squads, Media, Draw, Standings, Scoreboard, TabSession, Inbox, TLC

VARIABLE part

Club_ == <<vars>>
Members == <<profileVars, squadVars>>
Pictures == <<mediaVars>>
Contest == <<plan, tableVars>>
Pages == <<scoreVars, sessionVars, inboxVars>>
all == <<Club_, Members, Pictures, Contest, Pages, part>>

\* The parts that rest have one initial state.
ServicesInit ==
  /\ Init /\ ProfilesInit /\ SquadsInit /\ MediaInit /\ DrawInit /\ TableInit
  /\ ScoreInit /\ TabInit /\ InboxInit
  /\ part \in {"club", "profiles", "squads", "media", "draw", "table", "score", "tabs", "inbox"}
  /\ part # "score" => format = "team"
  /\ part # "tabs" => access = [t \in Tabs |-> 1]
  /\ part # "inbox" => rows = [n \in Notes |-> "unread"]

Backend ==
  /\ UNCHANGED Pages
  /\ \/ part = "club" /\ Next /\ UNCHANGED <<Members, Pictures, Contest>>
     \/ part = "profiles" /\ ProfilesNext /\ UNCHANGED <<Club_, squadVars, Pictures, Contest>>
     \/ part = "squads" /\ SquadsNext /\ UNCHANGED <<Club_, profileVars, Pictures, Contest>>
     \/ part = "media" /\ MediaNext /\ UNCHANGED <<Club_, Members, Contest>>
     \/ part = "draw" /\ DrawNext /\ UNCHANGED <<Club_, Members, Pictures, tableVars>>
     \/ part = "table" /\ TableNext /\ UNCHANGED <<Club_, Members, Pictures, plan>>

Frontend ==
  /\ UNCHANGED <<Club_, Members, Pictures, Contest>>
  /\ \/ part = "score" /\ ScoreNext /\ UNCHANGED <<sessionVars, inboxVars>>
     \/ part = "tabs" /\ TabNext /\ UNCHANGED <<scoreVars, inboxVars>>
     \/ part = "inbox" /\ InboxNext /\ UNCHANGED <<scoreVars, sessionVars>>

ServicesSpec == ServicesInit /\ [][UNCHANGED part /\ (Backend \/ Frontend)]_all

\* Neither notifications nor clicks are told apart.
InboxSymmetry == Permutations(Notes) \cup Permutations(Clicks)

\* The third entrant is the only one with a seed number.
OneSeed == {[p \in Registered |-> IF p = 3 THEN 1 ELSE Unseeded]}

\* A whole number, none, a number Go does not take for an integer, and one
\* under a key the page does not look for.  Two of 3 are beyond MaxExact, three
\* beyond MaxInt.
Written(v, form, key) == [value |-> v, form |-> form, key |-> key]
SomeAmounts == {Written(3, "integer", "exact"), Written(0, "integer", "exact"),
                Written(2, "decimal", "exact"), Written(1, "integer", "other case")}
=============================================================================

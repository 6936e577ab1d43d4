------------------------------- MODULE Squads -------------------------------
(***************************************************************************)
(* Teams and their squads (internal/teams).  A squad is a set of stints;   *)
(* that a player has one active stint is looked up before the transaction  *)
(* that adds another, and no constraint of the table repeats it.           *)
(***************************************************************************)
EXTENDS Naturals, FiniteSets

CONSTANTS Teams,       \* the rows of teams
          Players,     \* the players of the organization
          Clerks,      \* requests being served at the same time
          MaxStints    \* stints ever made

ASSUME SquadsAssumption == IsFiniteSet(Clerks) /\ MaxStints \in Nat

VARIABLES
  team,     \* per team: its status
  stints,   \* the rows of team_memberships
  clerk     \* per clerk: the request it serves

squadVars == <<team, stints, clerk>>

TeamStatuses == {"active", "inactive", "disbanded"}
NoRequest == [for |-> "nothing"]
ActiveStints(p) == {m \in stints : m.player = p /\ m.active}
Accepts(c, q) == clerk[c] = NoRequest /\ clerk' = [clerk EXCEPT ![c] = q]
Settles(c) == clerk' = [clerk EXCEPT ![c] = NoRequest]

-----------------------------------------------------------------------------
(* Teams.                                                                  *)

\* GetTeamByID: a disbanded team is found.
TeamFound(t) == team[t] # "none"

\* The statements.
TeamInserted(t) == [team EXCEPT ![t] = "active"]
TeamOverwritten(t, st) == [team EXCEPT ![t] = st]
TeamDisbanded(t) == [team EXCEPT ![t] = "disbanded"]

\* CreateTeam: a slug that is taken stays taken, so the attempts with ten
\* variants of the name end with the first that is free.
CreateTeam(t) ==
  /\ ~TeamFound(t)
  /\ team' = TeamInserted(t)
  /\ UNCHANGED <<stints, clerk>>

\* Update: the row read, then every column written.
StartUpdateTeam(c, t, st) ==
  /\ TeamFound(t)
  /\ Accepts(c, [for |-> "team", team |-> t, status |-> st])
  /\ UNCHANGED <<team, stints>>
UpdateTeam(c) ==
  /\ clerk[c].for = "team" /\ Settles(c)
  /\ team' = TeamOverwritten(clerk[c].team, clerk[c].status)
  /\ UNCHANGED stints

\* DisbandTeam: the row that is read first is for the audit; its squad stays.
DisbandTeam(t) ==
  /\ TeamFound(t)
  /\ team' = TeamDisbanded(t)
  /\ UNCHANGED <<stints, clerk>>

-----------------------------------------------------------------------------
(* Squads.                                                                 *)

\* Mutant: the player is looked for in the team that adds it.
FreeOfTeam(p, t) == ~\E m \in ActiveStints(p) : m.team = t

\* GetActiveMembershipByPlayer: in every team of the organization.
FreeForTeam(p, t) == ActiveStints(p) = {}

\* AddMember: neither the status of the team nor that of the player is looked
\* at.  met: another request to add the player was on the way meanwhile.
Adding(p) == {c \in Clerks : clerk[c].for = "add" /\ clerk[c].player = p}
StartAdd(c, p, t) ==
  /\ TeamFound(t) /\ FreeForTeam(p, t)
  /\ clerk[c] = NoRequest
  /\ clerk' = [d \in Clerks |->
       IF d = c THEN [for |-> "add", player |-> p, team |-> t, met |-> Adding(p) # {}]
       ELSE IF d \in Adding(p) THEN [clerk[d] EXCEPT !.met = TRUE] ELSE clerk[d]]
  /\ UNCHANGED <<team, stints>>

\* CreateMembership.
NewStint(q) == [id |-> Cardinality(stints), player |-> q.player, team |-> q.team,
                active |-> TRUE, met |-> q.met]
AddMember(c) ==
  /\ clerk[c].for = "add" /\ Cardinality(stints) < MaxStints
  /\ stints' = stints \cup {NewStint(clerk[c])}
  /\ Settles(c) /\ UNCHANGED team

\* GetMembershipByID: a stint that was released is not one to remove.
StintFound(m) == m.active

\* RemoveMembership: the row stays.
Released(m) == [m EXCEPT !.active = FALSE]
RemoveMember(m) ==
  /\ StintFound(m)
  /\ stints' = (stints \ {m}) \cup {Released(m)}
  /\ UNCHANGED <<team, clerk>>

\* A refusal, an error, the end of the process.
Drops(c) == clerk[c] # NoRequest /\ Settles(c) /\ UNCHANGED <<team, stints>>

SquadsInit == /\ team = [t \in Teams |-> "none"]
              /\ stints = {}
              /\ clerk = [c \in Clerks |-> NoRequest]

SquadsNext ==
  \/ \E t \in Teams : CreateTeam(t) \/ DisbandTeam(t)
  \/ \E m \in stints : RemoveMember(m)
  \/ \E c \in Clerks :
       \/ UpdateTeam(c) \/ AddMember(c) \/ Drops(c)
       \/ \E t \in Teams, st \in TeamStatuses : StartUpdateTeam(c, t, st)
       \/ \E t \in Teams, p \in Players : StartAdd(c, p, t)
SquadsSpec == SquadsInit /\ [][SquadsNext]_squadVars

-----------------------------------------------------------------------------
(* Property.                                                               *)

\* "one active team membership per player per organization": two active stints
\* of a player come from requests that were on the way together (AddMember).
OneTeamPerPlayer == \A p \in Players : \A m, n \in ActiveStints(p) : m # n => m.met \/ n.met
=============================================================================

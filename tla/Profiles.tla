------------------------------ MODULE Profiles ------------------------------
(***************************************************************************)
(* Player profiles (internal/players).                                     *)
(*                                                                         *)
(* A profile has two kinds of writers.  The staff of its organization edit *)
(* its status, its owner edits its visibility, and both write back the     *)
(* other columns as they read them, in a later statement and without a     *)
(* lock.                                                                   *)
(***************************************************************************)
EXTENDS Naturals, FiniteSets

CONSTANTS People,      \* users who may own a profile
          PlayerRows,  \* the rows of players
          Desks        \* requests being served at the same time

ASSUME ProfilesAssumption == IsFiniteSet(PlayerRows) /\ "nobody" \notin People

VARIABLES
  player,   \* per row: the profile
  desk,     \* per desk: the request it serves
  wish      \* per user: the visibility its last request that took effect asked
            \* for; of requests that overlap, the ones any of them asked for

profileVars == <<player, desk, wish>>

NoRow == [user |-> "nobody", inOrg |-> FALSE, status |-> "none", visibility |-> "private"]
Nothing == [does |-> "nothing"]
PlayerStatuses == {"active", "inactive", "injured"}
Visibilities == {"public", "unlisted", "private"}

Profile(user, inOrg, visibility) ==
  [user |-> user, inOrg |-> inOrg, status |-> "active", visibility |-> visibility]
OwnProfiles(u) == {p \in PlayerRows : player[p].user = u}

\* What a user has on the way.
Asks(u) == {d \in Desks : desk[d].does \in {"create", "own"} /\ desk[d].user = u}
Takes(d, q) == desk[d] = Nothing /\ desk' = [desk EXCEPT ![d] = q]
Writes(d, what) == desk[d].does = what /\ desk' = [desk EXCEPT ![d] = Nothing]

-----------------------------------------------------------------------------

\* uq_players_user_id: one profile per user.
OwnerFree(u) == u = "nobody" \/ OwnProfiles(u) = {}

\* The statements of the staff see the rows of its organization only.
PlayerFound(p) == player[p].inOrg

\* CreatePlayer of the staff, for a user or for nobody; private by default.
CreatePlayer(p, u) ==
  /\ player[p] = NoRow /\ OwnerFree(u)
  /\ player' = [player EXCEPT ![p] = Profile(u, TRUE, "private")]
  /\ UNCHANGED <<desk, wish>>

\* CreateOwn: the profile looked for, then inserted; the index has the last
\* word (ErrProfileExists).
StartCreateOwn(d, u, vis) ==
  /\ OwnProfiles(u) = {}
  /\ Takes(d, [does |-> "create", user |-> u, visibility |-> vis])
  /\ UNCHANGED <<player, wish>>
CreateOwn(d, p) ==
  /\ Writes(d, "create")
  /\ player[p] = NoRow /\ OwnerFree(desk[d].user)
  /\ player' = [player EXCEPT ![p] = Profile(desk[d].user, FALSE, desk[d].visibility)]
  /\ wish' = [wish EXCEPT ![desk[d].user] = {desk[d].visibility}]

\* UpdateOwn: the row read, and the visibility asked for, or "as read".
StartUpdateOwn(d, u, p, vis) ==
  /\ p \in OwnProfiles(u)
  /\ Takes(d, [does |-> "own", user |-> u, player |-> p, asked |-> vis # "as read",
               row |-> IF vis = "as read" THEN player[p] ELSE [player[p] EXCEPT !.visibility = vis]])
  /\ UNCHANGED <<player, wish>>

\* UpdateOwnPlayerProfile: every column of the owner, not the status.
UpdateOwn(d) ==
  LET q == desk[d] IN
  /\ Writes(d, "own")
  /\ player' = [player EXCEPT ![q.player].visibility = q.row.visibility]
  /\ wish' = IF ~q.asked THEN wish
             ELSE [wish EXCEPT ![q.user] = {q.row.visibility} \cup IF Asks(q.user) = {d} THEN {} ELSE @]

\* Update of the staff: the row read, and the status asked for or the one it has.
StartUpdate(d, p, st) ==
  /\ PlayerFound(p)
  /\ Takes(d, [does |-> "edit", player |-> p, row |-> [player[p] EXCEPT !.status = st]])
  /\ UNCHANGED <<player, wish>>

\* Mutant: the row that was read is written back whole.
WholeRow(p, row) == [player EXCEPT ![p] = row]

\* UpdatePlayer: every column of the staff, not the visibility.
StaffColumns(p, row) == [player EXCEPT ![p].status = row.status]
UpdatePlayer(d) ==
  /\ Writes(d, "edit")
  /\ player' = StaffColumns(desk[d].player, desk[d].row)
  /\ UNCHANGED wish

\* SoftDeletePlayer: the row that is read first is for the audit.
SoftDeleted(p) == [player EXCEPT ![p].status = "inactive"]
DeletePlayer(p) ==
  /\ PlayerFound(p)
  /\ player' = SoftDeleted(p)
  /\ UNCHANGED <<desk, wish>>

\* A refusal, an error, the end of the process.
GivesUp(d) == /\ desk[d] # Nothing
              /\ desk' = [desk EXCEPT ![d] = Nothing]
              /\ UNCHANGED <<player, wish>>

\* GetByIDGlobal; no owner and no administrator of the platform is "nobody".
OpenTo(u, p) == player[p].user = u \/ player[p].visibility \in {"public", "unlisted"}

\* GetByID and List of an organization ask for no more than a login.
Readable(u, p) == OpenTo(u, p) \/ player[p].inOrg

ProfilesInit == /\ player = [p \in PlayerRows |-> NoRow]
                /\ desk = [d \in Desks |-> Nothing]
                /\ wish = [u \in People |-> {"private"}]

ProfilesNext ==
  \/ \E p \in PlayerRows : DeletePlayer(p) \/ \E u \in People \cup {"nobody"} : CreatePlayer(p, u)
  \/ \E d \in Desks :
       \/ UpdateOwn(d) \/ UpdatePlayer(d) \/ GivesUp(d)
       \/ \E p \in PlayerRows : CreateOwn(d, p)
       \/ \E u \in People, vis \in Visibilities : StartCreateOwn(d, u, vis)
       \/ \E u \in People, vis \in Visibilities \cup {"as read"}, p \in PlayerRows :
            StartUpdateOwn(d, u, p, vis)
       \/ \E p \in PlayerRows, st \in PlayerStatuses : StartUpdate(d, p, st)
ProfilesSpec == ProfilesInit /\ [][ProfilesNext]_profileVars

-----------------------------------------------------------------------------
(* Property.                                                               *)

\* Whatever its owner and the staff write across each other, the page of a
\* profile shows it exactly as the last request of its owner says (one of them,
\* if several overlap), and only its organization shows it beside that
\* (UpdateOwn, UpdatePlayer, GetByIDGlobal, GetByID).
OwnerDecides == \A u \in People : \A p \in OwnProfiles(u) :
  \A v \in (People \ {u}) \cup {"nobody"} : \E w \in wish[u] :
    /\ OpenTo(v, p) <=> w # "private"
    /\ Readable(v, p) <=> player[p].inOrg \/ w # "private"
=============================================================================

--------------------------- MODULE ServicesProofs ---------------------------
(***************************************************************************)
(* Proofs about the services and the pages that share no state: Club,      *)
(* Profiles, Squads and Media for any users, rows and requests; TabSession *)
(* for any number of tabs, calls and tokens; Inbox for any number of       *)
(* notifications and clicks; Scoreboard for logs of any length.  Each has  *)
(* its invariant.                                                          *)
(***************************************************************************)
EXTENDS Club, Profiles, Squads, Media, TabSession, Inbox, Scoreboard,
        FiniteSetTheorems, TLAPS

LEMMA TwoElements ==
  ASSUME NEW S, Cardinality(S) > 1, NEW x
  PROVE  \E y \in S : y # x
<1>1. CASE S = {}
  BY <1>1, FS_EmptySet
<1>2. CASE S = {x}
  BY <1>2, FS_Singleton
<1> QED BY <1>1, <1>2

-----------------------------------------------------------------------------
(* Club.                                                                   *)

ClubRequest == [kind : {"deactivate", "close"}, user : Users]
Revocation == [kind : {"revoke"}, user : Users, stale : BOOLEAN]
ClubTyped == /\ org \in {"none", "there", "gone"}
             /\ grant \in [Users -> Grants]
             /\ status \in [Users -> {"active", "inactive"}]
             /\ req \in [Staff -> {Idle} \cup ClubRequest \cup Revocation]
             /\ crossed \in BOOLEAN

\* The sentinel lock.
OneDeactivation == \A s, u \in Staff :
  {req[s].kind, req[u].kind} \subseteq {"deactivate", "close"} => s = u

\* What was counted under the lock is still there when the user is written.
AdminToSpare == \A s \in Staff :
  req[s].kind = "close" /\ req[s].user \in Admins => Cardinality(ActiveAdmins) > 1

AdminsSound == ClubTyped /\ OneDeactivation /\ AdminToSpare /\ AdminRemains

Granted == \E u \in Users : grant[u] # "none"

\* While no other revocation has taken effect since it counted, someone else
\* holds a grant when one is about to be revoked.
GrantToSpare == \A s \in Staff : req[s].kind = "revoke" =>
  /\ org # "none"
  /\ org = "there" /\ ~req[s].stale => \E u \in Users \ {req[s].user} : grant[u] # "none"

OwnersSound == ClubTyped /\ GrantToSpare /\ (org = "there" => Granted \/ crossed)

LEMMA GrantedOwned == ASSUME ClubTyped, org = "there" => Granted \/ crossed PROVE OwnerLeft
BY DEF ClubTyped, Granted, Grants, OwnerLeft, Owners

LEMMA ClubInit == Init => AdminsSound /\ OwnersSound
<1> SUFFICES ASSUME Init PROVE AdminsSound /\ OwnersSound
  OBVIOUS
<1>1. ClubTyped
  BY DEF Init, ClubTyped, Grants
<1>2. \A s \in Staff : req[s].kind = "idle"
  BY DEF Init, Idle
<1>3. AdminRemains
  BY ClubAssumption DEF Init, AdminRemains, ActiveAdmins
<1> QED BY <1>1, <1>2, <1>3 DEF Init, AdminsSound, OwnersSound, OneDeactivation, AdminToSpare,
                               GrantToSpare

LEMMA ClubTypes == ClubTyped /\ [Next]_vars => ClubTyped'
<1> SUFFICES ASSUME ClubTyped, [Next]_vars PROVE ClubTyped'
  OBVIOUS
<1> USE DEF ClubTyped, ClubRequest, Revocation, Grants
<1>1. CASE DeleteOrganization
  BY <1>1 DEF DeleteOrganization
<1>2. ASSUME NEW u \in Users, CreateOrganization(u) PROVE ClubTyped'
  BY <1>2 DEF CreateOrganization, OrgInserted, CreatedBy
<1>3. ASSUME NEW u \in Users, Expire(u) PROVE ClubTyped'
  BY <1>3 DEF Expire
<1>4. ASSUME NEW u \in Users, NEW g \in Grants, GrantRole(u, g) PROVE ClubTyped'
  BY <1>4 DEF GrantRole
<1>5. ASSUME NEW s \in Staff, Revoke(s) PROVE ClubTyped'
  <2>1. req[s].kind = "revoke" /\ req[s] \in Revocation
    BY <1>5 DEF Revoke, Idle
  <2>2. \A t \in Staff : req[t].kind = "revoke" => [req[t] EXCEPT !.stale = TRUE] \in Revocation
    <3> SUFFICES ASSUME NEW t \in Staff, req[t].kind = "revoke"
                 PROVE  [req[t] EXCEPT !.stale = TRUE] \in Revocation
      OBVIOUS
    <3>1. req[t] \in Revocation
      BY DEF Idle
    <3> QED BY <3>1
  <2>3. req' \in [Staff -> {Idle} \cup ClubRequest \cup Revocation]
    BY <1>5, <2>2 DEF Revoke
  <2>4. crossed' \in BOOLEAN
    BY <1>5, <2>1 DEF Revoke
  <2> QED BY <1>5, <2>3, <2>4 DEF Revoke
<1>6. ASSUME NEW s \in Staff, Checked(s) PROVE ClubTyped'
  BY <1>6 DEF Checked, Idle
<1>7. ASSUME NEW s \in Staff, Deactivate(s) PROVE ClubTyped'
  BY <1>7 DEF Deactivate, Deactivated, Ends
<1>8. ASSUME NEW s \in Staff, Fail(s) PROVE ClubTyped'
  BY <1>8 DEF Fail, Ends
<1>9. ASSUME NEW s \in Staff, NEW u \in Users, StartRevoke(s, u) PROVE ClubTyped'
  BY <1>9 DEF StartRevoke, Begin
<1>10. ASSUME NEW s \in Staff, NEW u \in Users, StartDeactivate(s, u) PROVE ClubTyped'
  BY <1>10 DEF StartDeactivate, Begin
<1>11. CASE UNCHANGED vars
  BY <1>11 DEF vars
<1> QED BY <1>1, <1>2, <1>3, <1>4, <1>5, <1>6, <1>7, <1>8, <1>9, <1>10, <1>11 DEF Next

LEMMA AdminsFinite == IsFiniteSet(ActiveAdmins) /\ Cardinality(ActiveAdmins) \in Nat
<1>1. ActiveAdmins \subseteq Users
  BY ClubAssumption DEF ActiveAdmins
<1> QED BY <1>1, ClubAssumption, FS_Subset, FS_CardinalityType

\* A request comes to an end, or one of another kind begins.
LEMMA AdminsKept ==
  ASSUME AdminsSound, ClubTyped', UNCHANGED status,
         \A s \in Staff : req'[s] = req[s] \/ req'[s].kind \notin {"deactivate", "close"}
  PROVE  AdminsSound'
<1>1. ActiveAdmins' = ActiveAdmins
  BY DEF ActiveAdmins
<1> QED BY <1>1 DEF AdminsSound, OneDeactivation, AdminToSpare, AdminRemains

LEMMA AdminsStep == AdminsSound /\ [Next]_vars => AdminsSound'
<1> SUFFICES ASSUME AdminsSound, [Next]_vars PROVE AdminsSound'
  OBVIOUS
<1>1. ClubTyped /\ ClubTyped'
  BY ClubTypes DEF AdminsSound
<1>2. CASE UNCHANGED <<status, req>>
  BY <1>1, <1>2, AdminsKept
<1>3. ASSUME NEW s \in Staff, Ends(s), UNCHANGED status PROVE AdminsSound'
  <2>1. \A u \in Staff : req'[u] = req[u] \/ req'[u].kind = "idle"
    BY <1>1, <1>3 DEF Ends, ClubTyped, Idle
  <2> QED BY <1>1, <1>3, <2>1, AdminsKept
<1>8. ASSUME NEW s \in Staff, Revoke(s) PROVE AdminsSound'
  <2>1. \A u \in Staff : req'[u] = req[u] \/ req'[u].kind \in {"idle", "revoke"}
    <3> SUFFICES ASSUME NEW u \in Staff, u # s, req[u].kind = "revoke"
                 PROVE  req'[u].kind = "revoke"
      BY <1>1, <1>8 DEF Revoke, ClubTyped, Idle
    <3> QED BY <1>1, <1>8 DEF Revoke, ClubTyped, Idle, ClubRequest, Revocation
  <2> QED BY <1>1, <1>8, <2>1, AdminsKept DEF Revoke
<1>4. ASSUME NEW s \in Staff, Checked(s) PROVE AdminsSound'
  <2>1. req[s].kind = "deactivate" /\ req[s] \in ClubRequest
    BY <1>1, <1>4 DEF Checked, ClubTyped, Idle, Revocation
  <2>2. /\ \A u \in Staff \ {s} : req'[u] = req[u]
        /\ req'[s].kind = "close" /\ req'[s].user = req[s].user
    BY <1>1, <1>4, <2>1 DEF Checked, ClubTyped, ClubRequest
  <2>3. ActiveAdmins' = ActiveAdmins
    BY <1>4 DEF Checked, ActiveAdmins
  <2>4. OneDeactivation'
    BY <2>1, <2>2 DEF AdminsSound, OneDeactivation
  <2>5. AdminToSpare'
    BY <1>4, <2>2, <2>3 DEF AdminsSound, AdminToSpare, Checked, IsAdmin
  <2> QED BY <1>1, <2>3, <2>4, <2>5 DEF AdminsSound, AdminRemains
<1>5. ASSUME NEW s \in Staff, Deactivate(s) PROVE AdminsSound'
  <2> DEFINE u == req[s].user
  <2>1. req[s].kind = "close" /\ u \in Users
    BY <1>1, <1>5 DEF Deactivate, ClubTyped, ClubRequest, Revocation, Idle
  <2>2. /\ \A t \in Staff \ {s} : req'[t] = req[t]
        /\ req'[s].kind = "idle"
    BY <1>1, <1>5 DEF Deactivate, Ends, ClubTyped, Idle
  <2>3. \A t \in Staff : req'[t].kind \notin {"deactivate", "close"}
    BY <2>1, <2>2 DEF AdminsSound, OneDeactivation
  <2>4. ActiveAdmins \ {u} \subseteq ActiveAdmins'
    BY <1>1, <1>5 DEF Deactivate, Deactivated, ActiveAdmins, ClubTyped, AdminsSound
  <2>5. AdminRemains'
    <3>1. CASE u \in Admins
      <4>1. \E a \in ActiveAdmins : a # u
        BY <2>1, <3>1, TwoElements DEF AdminsSound, AdminToSpare
      <4> QED BY <2>4, <4>1 DEF AdminRemains
    <3>2. CASE u \notin Admins
      <4>1. u \notin ActiveAdmins
        BY <3>2 DEF ActiveAdmins
      <4> QED BY <2>4, <4>1 DEF AdminsSound, AdminRemains
    <3> QED BY <3>1, <3>2
  <2> QED BY <1>1, <2>3, <2>5 DEF AdminsSound, OneDeactivation, AdminToSpare
<1>6. ASSUME NEW s \in Staff, NEW u \in Users, StartRevoke(s, u) PROVE AdminsSound'
  <2>1. \A t \in Staff : req'[t] = req[t] \/ req'[t].kind = "revoke"
    BY <1>1, <1>6 DEF StartRevoke, Begin, ClubTyped
  <2> QED BY <1>1, <1>6, <2>1, AdminsKept DEF StartRevoke, Begin
<1>7. ASSUME NEW s \in Staff, NEW u \in Users, StartDeactivate(s, u) PROVE AdminsSound'
  <2>1. \A t \in Staff : req[t].kind \notin {"deactivate", "close"}
    BY <1>7 DEF StartDeactivate, Sentinel, Under
  <2>2. \A t \in Staff : IF t = s THEN req'[t].kind = "deactivate" ELSE req'[t] = req[t]
    BY <1>1, <1>7 DEF StartDeactivate, Begin, ClubTyped
  <2>3. ActiveAdmins' = ActiveAdmins
    BY <1>7 DEF StartDeactivate, Begin, ActiveAdmins
  <2> QED BY <1>1, <2>1, <2>2, <2>3 DEF AdminsSound, OneDeactivation, AdminToSpare, AdminRemains
<1> QED BY <1>2, <1>3, <1>4, <1>5, <1>6, <1>7, <1>8
        DEF Next, vars, DeleteOrganization, CreateOrganization, Expire, GrantRole, Fail

\* "leaving zero administrators" (DeactivateTransaction): the count is taken
\* and the user written under the sentinel lock, so however many requests
\* overlap an administrator stays active.
THEOREM AdminAlwaysRemains == Spec => []AdminRemains
<1>1. AdminsSound => AdminRemains
  BY DEF AdminsSound
<1> QED BY <1>1, ClubInit, AdminsStep, PTL DEF Spec

LEMMA OwnersKept ==
  ASSUME OwnersSound, ClubTyped', UNCHANGED <<org, crossed>>,
         \A u \in Users : grant[u] # "none" => grant'[u] # "none",
         \A s \in Staff : req'[s] = req[s] \/ req'[s].kind # "revoke"
  PROVE  OwnersSound'
BY DEF OwnersSound, GrantToSpare, Granted

LEMMA OwnersStep == OwnersSound /\ [Next]_vars => OwnersSound'
<1> SUFFICES ASSUME OwnersSound, [Next]_vars PROVE OwnersSound'
  OBVIOUS
<1>1. ClubTyped /\ ClubTyped'
  BY ClubTypes DEF OwnersSound
<1>2. CASE DeleteOrganization
  BY <1>1, <1>2 DEF DeleteOrganization, OwnersSound, GrantToSpare
<1>3. ASSUME NEW u \in Users, CreateOrganization(u) PROVE OwnersSound'
  <2>1. \A s \in Staff : req'[s].kind # "revoke"
    BY <1>3 DEF CreateOrganization, OrgInserted, OwnersSound, GrantToSpare
  <2>2. Granted'
    BY <1>1, <1>3 DEF CreateOrganization, CreatedBy, ClubTyped, Granted
  <2> QED BY <1>1, <2>1, <2>2 DEF OwnersSound, GrantToSpare
<1>4. ASSUME NEW u \in Users, Expire(u) PROVE OwnersSound'
  <2>1. \A v \in Users : grant[v] # "none" => grant'[v] # "none"
    BY <1>1, <1>4 DEF Expire, ClubTyped
  <2> QED BY <1>1, <1>4, <2>1, OwnersKept DEF Expire
<1>5. ASSUME NEW u \in Users, NEW g \in Grants, GrantRole(u, g) PROVE OwnersSound'
  <2>1. \A v \in Users : grant[v] # "none" => grant'[v] # "none"
    BY <1>1, <1>5 DEF GrantRole, ClubTyped
  <2> QED BY <1>1, <1>5, <2>1, OwnersKept DEF GrantRole
<1>6. ASSUME NEW s \in Staff, Revoke(s) PROVE OwnersSound'
  <2> DEFINE x == req[s].user
  <2>1. req[s].kind = "revoke" /\ x \in Users
    BY <1>1, <1>6 DEF Revoke, ClubTyped, ClubRequest, Revocation, Idle
  <2>2. org = org' /\ crossed' = req[s].stale /\ \A u \in Users \ {x} : grant'[u] = grant[u]
    BY <1>1, <1>6 DEF Revoke, ClubTyped
  <2>3. org = "there" => Granted' \/ crossed'
    BY <2>1, <2>2 DEF OwnersSound, GrantToSpare, Granted
  <2>4. \A t \in Staff : req'[t].kind = "revoke" => req[t].kind = "revoke" /\ req'[t].stale
    <3> SUFFICES ASSUME NEW t \in Staff, t # s
                 PROVE  req'[t].kind = "revoke" => req[t].kind = "revoke" /\ req'[t].stale
      BY <1>6 DEF Revoke, Idle
    <3>1. CASE req[t].kind = "revoke"
      <4>1. req[t] \in Revocation /\ req'[t] = [req[t] EXCEPT !.stale = TRUE]
        BY <1>1, <1>6, <3>1 DEF Revoke, ClubTyped, ClubRequest, Idle
      <4> QED BY <3>1, <4>1 DEF Revocation
    <3>2. CASE req[t].kind # "revoke"
      BY <1>6, <3>2 DEF Revoke
    <3> QED BY <3>1, <3>2
  <2>5. GrantToSpare'
    BY <2>2, <2>4 DEF OwnersSound, GrantToSpare
  <2> QED BY <1>1, <2>2, <2>3, <2>5 DEF OwnersSound
<1>7. ASSUME NEW s \in Staff, NEW u \in Users, StartRevoke(s, u) PROVE OwnersSound'
  <2>1. /\ \A t \in Staff \ {s} : req'[t] = req[t]
        /\ req'[s].kind = "revoke" /\ req'[s].user = u
        /\ UNCHANGED <<org, grant, crossed>> /\ org = "there"
    BY <1>1, <1>7 DEF StartRevoke, Begin, OrgFound, ClubTyped
  <2>2. \E v \in Users \ {u} : grant[v] # "none"
    <3>1. \E v \in Owners : v # u
      BY <1>7, TwoElements DEF StartRevoke, MoreThanOneOwner
    <3> QED BY <3>1 DEF Owners
  <2> QED BY <1>1, <2>1, <2>2 DEF OwnersSound, GrantToSpare, Granted
<1>8. ASSUME NEW s \in Staff, NEW u \in Users, StartDeactivate(s, u) PROVE OwnersSound'
  <2>1. \A t \in Staff : req'[t] = req[t] \/ req'[t].kind # "revoke"
    BY <1>1, <1>8 DEF StartDeactivate, Begin, ClubTyped
  <2> QED BY <1>1, <1>8, <2>1, OwnersKept DEF StartDeactivate, Begin
<1>9. ASSUME NEW s \in Staff, Checked(s) \/ Deactivate(s) \/ Fail(s) PROVE OwnersSound'
  <2>1. \A t \in Staff : req'[t] = req[t] \/ req'[t].kind # "revoke"
    BY <1>1, <1>9 DEF Checked, Deactivate, Fail, Ends, ClubTyped, ClubRequest, Revocation, Idle
  <2> QED BY <1>1, <1>9, <2>1, OwnersKept DEF Checked, Deactivate, Fail
<1>10. CASE UNCHANGED vars
  BY <1>1, <1>10, OwnersKept DEF vars
<1> QED BY <1>2, <1>3, <1>4, <1>5, <1>6, <1>7, <1>8, <1>9, <1>10 DEF Next

\* "ErrLastOwner" (RevokeRole), however revocations overlap: the last grant
\* goes by expiry, or by a revocation whose count another one had made stale;
\* and the rule about administrators has no exception at all.
THEOREM LastAlwaysStays == Spec => []LastStays
<1>1. OwnersSound => OwnerLeft
  BY GrantedOwned DEF OwnersSound
<1> QED BY <1>1, ClubInit, OwnersStep, AdminAlwaysRemains, PTL DEF Spec, LastStays

-----------------------------------------------------------------------------
(* Profiles.                                                               *)

ProfileRow == [user : People \cup {"nobody"}, inOrg : BOOLEAN,
               status : PlayerStatuses \cup {"none"}, visibility : Visibilities]
Creation == [does : {"create"}, user : People, visibility : Visibilities]
OwnUpdate == [does : {"own"}, user : People, player : PlayerRows, asked : BOOLEAN, row : ProfileRow]
StaffUpdate == [does : {"edit"}, player : PlayerRows, row : ProfileRow]

ProfilesTyped == /\ player \in [PlayerRows -> ProfileRow]
                 /\ desk \in [Desks -> {Nothing} \cup Creation \cup OwnUpdate \cup StaffUpdate]
                 /\ wish \in [People -> SUBSET Visibilities]

\* uq_players_user_id.
OneProfile == \A p, q \in PlayerRows :
  player[p].user \in People /\ player[q].user = player[p].user => p = q

\* The row says what its owner wished, and nothing was wished before there was one.
AsWished == \A u \in People :
  /\ \A p \in OwnProfiles(u) : player[p].visibility \in wish[u]
  /\ OwnProfiles(u) = {} => wish[u] = {"private"}

\* An update of one's own profile is about one's own profile, and one that asks
\* for no visibility writes back one that was wished.
OwnFits(d) == /\ player[desk[d].player].user = desk[d].user
              /\ ~desk[d].asked => desk[d].row.visibility \in wish[desk[d].user]
OwnIsOwn == \A d \in Desks : desk[d].does = "own" => OwnFits(d)

ProfilesSound == ProfilesTyped /\ OneProfile /\ AsWished /\ OwnIsOwn

LEMMA ProfilesBegin == ProfilesInit => ProfilesSound
BY ProfilesAssumption DEF ProfilesInit, ProfilesSound, ProfilesTyped, OneProfile, AsWished, OwnIsOwn, NoRow,
       Nothing, ProfileRow, Visibilities, OwnProfiles

\* A request is taken or given up: the rows stay as they are.
LEMMA DeskOnly ==
  ASSUME ProfilesSound, UNCHANGED <<player, wish>>, ProfilesTyped',
         \A d \in Desks : desk'[d] = desk[d] \/ desk'[d].does # "own" \/ OwnFits(d)'
  PROVE  ProfilesSound'
BY DEF ProfilesSound, OneProfile, AsWished, OwnIsOwn, OwnFits, OwnProfiles

\* Columns other than the owner and the visibility are written.
LEMMA OtherColumns ==
  ASSUME ProfilesSound, ProfilesTyped', UNCHANGED wish,
         \A p \in PlayerRows : /\ player'[p].user = player[p].user
                               /\ player'[p].visibility = player[p].visibility,
         \A d \in Desks : desk'[d] = desk[d] \/ desk'[d].does # "own"
  PROVE  ProfilesSound'
<1>1. \A u \in People : OwnProfiles(u)' = OwnProfiles(u)
  BY DEF OwnProfiles
<1>2. OneProfile' /\ AsWished'
  BY <1>1 DEF ProfilesSound, OneProfile, AsWished, OwnProfiles
<1>3. OwnIsOwn'
  BY DEF ProfilesSound, OwnIsOwn, OwnFits, ProfilesTyped, OwnUpdate, Creation, StaffUpdate, Nothing
<1> QED BY <1>2, <1>3 DEF ProfilesSound

\* A row is inserted for a user, or for nobody, with the visibility wished.
LEMMA RowInserted ==
  ASSUME ProfilesSound, NEW p \in PlayerRows, NEW u \in People \cup {"nobody"}, NEW o \in BOOLEAN,
         NEW vis \in Visibilities, player[p] = NoRow, OwnerFree(u),
         player' = [player EXCEPT ![p] = Profile(u, o, vis)],
         u \in People => wish'[u] = {vis},
         \A v \in People \ {u} : wish'[v] = wish[v],
         ProfilesTyped',
         \A d \in Desks : desk'[d] = desk[d] \/ desk'[d].does # "own"
  PROVE  ProfilesSound'
<1>1. player[p].user = "nobody" /\ "nobody" \notin People
  BY ProfilesAssumption DEF NoRow
<1>2. \A q \in PlayerRows : IF q = p THEN player'[q].user = u /\ player'[q].visibility = vis
                                     ELSE player'[q] = player[q]
  BY DEF ProfilesSound, ProfilesTyped, Profile
<1>3. u \in People => OwnProfiles(u) = {}
  BY <1>1 DEF OwnerFree
<1>4. OneProfile'
  BY <1>2, <1>3 DEF ProfilesSound, OneProfile, OwnProfiles
<1>5. \A v \in People \ {u} : OwnProfiles(v)' = OwnProfiles(v)
  BY <1>1, <1>2 DEF OwnProfiles
<1>6. u \in People => OwnProfiles(u)' = {p}
  BY <1>2, <1>3 DEF OwnProfiles
<1>7. AsWished'
  <2> SUFFICES ASSUME NEW v \in People
               PROVE  /\ \A q \in OwnProfiles(v)' : player'[q].visibility \in wish'[v]
                      /\ OwnProfiles(v)' = {} => wish'[v] = {"private"}
    BY DEF AsWished
  <2>1. CASE v = u
    BY <1>2, <1>6, <2>1
  <2>2. CASE v # u
    <3>1. \A q \in OwnProfiles(v) : player'[q] = player[q]
      BY <1>1, <1>2 DEF OwnProfiles
    <3> QED BY <1>5, <2>2, <3>1 DEF ProfilesSound, AsWished
  <2> QED BY <2>1, <2>2
<1>8. OwnIsOwn'
  <2> SUFFICES ASSUME NEW d \in Desks, desk'[d].does = "own"
               PROVE  OwnFits(d)'
    BY DEF OwnIsOwn
  <2>1. desk'[d] = desk[d] /\ desk[d] \in OwnUpdate
    BY DEF ProfilesSound, ProfilesTyped, OwnUpdate, Creation, StaffUpdate, Nothing
  <2>2. OwnFits(d) /\ desk[d].user \in People /\ desk[d].player \in PlayerRows
    BY <2>1 DEF ProfilesSound, OwnIsOwn, OwnUpdate
  <2>3. desk[d].player # p /\ desk[d].player \in OwnProfiles(desk[d].user)
    BY <1>1, <2>2 DEF OwnFits, OwnProfiles
  <2>4. desk[d].user # u
    BY <1>3, <2>2, <2>3
  <2> QED BY <1>2, <2>1, <2>2, <2>3, <2>4 DEF OwnFits
<1> QED BY <1>4, <1>7, <1>8 DEF ProfilesSound

LEMMA UpdateOwnSound ==
  ASSUME ProfilesSound, NEW d \in Desks, UpdateOwn(d)
  PROVE  ProfilesSound'
<1> DEFINE q == desk[d]
           old == IF Asks(q.user) = {d} THEN {} ELSE wish[q.user]
<1>0. ProfilesTyped
  BY DEF ProfilesSound
<1>1. q \in OwnUpdate /\ OwnFits(d)
  BY <1>0 DEF UpdateOwn, Writes, ProfilesTyped, OwnUpdate, Creation, StaffUpdate, Nothing, ProfilesSound, OwnIsOwn
<1>2. /\ q.user \in People /\ q.player \in PlayerRows /\ q.row.visibility \in Visibilities
      /\ player[q.player].user = q.user
      /\ ~q.asked => q.row.visibility \in wish[q.user]
  BY <1>1 DEF OwnUpdate, ProfileRow, OwnFits
<1>3. /\ player' = [player EXCEPT ![q.player].visibility = q.row.visibility]
      /\ wish' = IF ~q.asked THEN wish ELSE [wish EXCEPT ![q.user] = {q.row.visibility} \cup old]
      /\ desk' = [desk EXCEPT ![d] = Nothing]
  BY <1>0, <1>2 DEF UpdateOwn, Writes, ProfilesTyped
<1>4. old \subseteq wish[q.user] /\ (old # wish[q.user] => Asks(q.user) = {d})
  OBVIOUS
<1>5. /\ q.row.visibility \in wish'[q.user] /\ wish'[q.user] \in SUBSET Visibilities
      /\ \A u \in People \ {q.user} : wish'[u] = wish[u]
      /\ Asks(q.user) # {d} => wish[q.user] \subseteq wish'[q.user]
  BY <1>0, <1>2, <1>3, <1>4 DEF ProfilesTyped
<1>6. /\ \A e \in Desks \ {d} : desk'[e] = desk[e]
      /\ desk'[d] = Nothing
  BY <1>0, <1>3 DEF ProfilesTyped
<1>7. \A e \in Desks \ {d} : desk[e].does = "own" /\ desk[e].user = q.user => Asks(q.user) # {d}
  BY DEF Asks
<1> HIDE DEF q, old
<1>8. ProfilesTyped'
  BY <1>0, <1>2, <1>3, <1>4 DEF ProfilesTyped, ProfileRow
<1>9. \A p \in PlayerRows : /\ player'[p].user = player[p].user
                             /\ player'[p].visibility = IF p = q.player THEN q.row.visibility
                                                         ELSE player[p].visibility
  BY <1>0, <1>2, <1>3 DEF ProfilesTyped, ProfileRow
<1>10. \A u \in People : OwnProfiles(u)' = OwnProfiles(u)
  BY <1>9 DEF OwnProfiles
<1>11. OneProfile'
  BY <1>9 DEF ProfilesSound, OneProfile
<1>12. AsWished'
  <2> SUFFICES ASSUME NEW u \in People
               PROVE  /\ \A p \in OwnProfiles(u) : player'[p].visibility \in wish'[u]
                      /\ OwnProfiles(u) = {} => wish'[u] = {"private"}
    BY <1>10 DEF AsWished
  <2>1. CASE u = q.user
    <3>1. OwnProfiles(u) = {q.player}
      BY <1>2, <2>1 DEF OwnProfiles, ProfilesSound, OneProfile
    <3> QED BY <1>2, <1>5, <1>9, <2>1, <3>1
  <2>2. CASE u # q.user
    <3>1. q.player \notin OwnProfiles(u)
      BY <1>2, <2>2 DEF OwnProfiles
    <3>2. \A p \in OwnProfiles(u) : player'[p].visibility = player[p].visibility
      BY <1>9, <3>1 DEF OwnProfiles
    <3> QED BY <1>5, <2>2, <3>2 DEF ProfilesSound, AsWished
  <2> QED BY <2>1, <2>2
<1>13. OwnIsOwn'
  <2> SUFFICES ASSUME NEW e \in Desks, desk'[e].does = "own"
               PROVE  OwnFits(e)'
    BY DEF OwnIsOwn
  <2>1. e # d /\ desk'[e] = desk[e] /\ desk[e] \in OwnUpdate
    BY <1>0, <1>6 DEF ProfilesTyped, OwnUpdate, Creation, StaffUpdate, Nothing
  <2>2. OwnFits(e) /\ desk[e].player \in PlayerRows /\ desk[e].user \in People /\ desk[e].does = "own"
    BY <2>1 DEF ProfilesSound, OwnIsOwn, OwnUpdate
  <2>3. wish[desk[e].user] \subseteq wish'[desk[e].user]
    BY <1>5, <1>7, <2>1, <2>2
  <2> QED BY <1>9, <2>1, <2>2, <2>3 DEF OwnFits
<1> QED BY <1>8, <1>11, <1>12, <1>13 DEF ProfilesSound

LEMMA ProfilesStep == ProfilesSound /\ [ProfilesNext]_profileVars => ProfilesSound'
<1> SUFFICES ASSUME ProfilesSound, [ProfilesNext]_profileVars PROVE ProfilesSound'
  OBVIOUS
<1>0. ProfilesTyped
  BY DEF ProfilesSound
<1>1. ASSUME NEW p \in PlayerRows, DeletePlayer(p) PROVE ProfilesSound'
  <2>1. ProfilesTyped' /\ \A q \in PlayerRows : /\ player'[q].user = player[q].user
                                                 /\ player'[q].visibility = player[q].visibility
    BY <1>0, <1>1 DEF DeletePlayer, SoftDeleted, ProfilesTyped, ProfileRow, PlayerStatuses
  <2> QED BY <1>1, <2>1, OtherColumns DEF DeletePlayer
<1>2. ASSUME NEW p \in PlayerRows, NEW u \in People \cup {"nobody"}, CreatePlayer(p, u) PROVE ProfilesSound'
  <2>1. ProfilesTyped' /\ "private" \in Visibilities /\ wish' = wish
    BY <1>0, <1>2 DEF CreatePlayer, Profile, ProfilesTyped, ProfileRow, PlayerStatuses, Visibilities
  <2>2. u \in People => wish[u] = {"private"}
    BY <1>2, ProfilesAssumption DEF CreatePlayer, OwnerFree, ProfilesSound, AsWished
  <2> QED BY <1>2, <2>1, <2>2, RowInserted DEF CreatePlayer
<1>3. ASSUME NEW d \in Desks, UpdateOwn(d) PROVE ProfilesSound'
  BY <1>3, UpdateOwnSound
<1>4. ASSUME NEW d \in Desks, UpdatePlayer(d) PROVE ProfilesSound'
  <2>1. desk[d] \in StaffUpdate
    BY <1>0, <1>4 DEF UpdatePlayer, Writes, ProfilesTyped, OwnUpdate, Creation, StaffUpdate, Nothing
  <2>2. ProfilesTyped' /\ \A q \in PlayerRows : /\ player'[q].user = player[q].user
                                                 /\ player'[q].visibility = player[q].visibility
    BY <1>0, <1>4, <2>1 DEF UpdatePlayer, Writes, StaffColumns, ProfilesTyped, ProfileRow, StaffUpdate
  <2>3. \A e \in Desks : desk'[e] = desk[e] \/ desk'[e].does # "own"
    BY <1>0, <1>4 DEF UpdatePlayer, Writes, ProfilesTyped, Nothing
  <2> QED BY <1>4, <2>2, <2>3, OtherColumns DEF UpdatePlayer
<1>5. ASSUME NEW d \in Desks, GivesUp(d) PROVE ProfilesSound'
  <2>1. ProfilesTyped' /\ \A e \in Desks : desk'[e] = desk[e] \/ desk'[e].does # "own"
    BY <1>0, <1>5 DEF GivesUp, ProfilesTyped, Nothing
  <2> QED BY <1>5, <2>1, DeskOnly DEF GivesUp
<1>6. ASSUME NEW d \in Desks, NEW p \in PlayerRows, CreateOwn(d, p) PROVE ProfilesSound'
  <2>1. desk[d] \in Creation
    BY <1>0, <1>6 DEF CreateOwn, Writes, ProfilesTyped, OwnUpdate, Creation, StaffUpdate, Nothing
  <2>2. desk[d].user \in People /\ desk[d].visibility \in Visibilities
    BY <2>1 DEF Creation
  <2>3. ProfilesTyped'
    BY <1>0, <1>6, <2>2 DEF CreateOwn, Writes, Profile, ProfilesTyped, ProfileRow, PlayerStatuses
  <2>4. \A e \in Desks : desk'[e] = desk[e] \/ desk'[e].does # "own"
    BY <1>0, <1>6 DEF CreateOwn, Writes, ProfilesTyped, Nothing
  <2>5. wish'[desk[d].user] = {desk[d].visibility} /\ \A v \in People \ {desk[d].user} : wish'[v] = wish[v]
    BY <1>0, <1>6, <2>2 DEF CreateOwn, ProfilesTyped
  <2> QED BY <1>6, <2>2, <2>3, <2>4, <2>5, RowInserted DEF CreateOwn, ProfilesTyped
<1>7. ASSUME NEW d \in Desks, NEW u \in People, NEW vis \in Visibilities, StartCreateOwn(d, u, vis)
      PROVE  ProfilesSound'
  <2>1. ProfilesTyped' /\ \A e \in Desks : desk'[e] = desk[e] \/ desk'[e].does # "own"
    BY <1>0, <1>7 DEF StartCreateOwn, Takes, ProfilesTyped, Creation
  <2> QED BY <1>7, <2>1, DeskOnly DEF StartCreateOwn
<1>8. ASSUME NEW d \in Desks, NEW u \in People, NEW vis \in Visibilities \cup {"as read"},
             NEW p \in PlayerRows, StartUpdateOwn(d, u, p, vis)
      PROVE  ProfilesSound'
  <2> DEFINE row == IF vis = "as read" THEN player[p] ELSE [player[p] EXCEPT !.visibility = vis]
             q == [does |-> "own", user |-> u, player |-> p, asked |-> vis # "as read", row |-> row]
  <2>1. row \in ProfileRow /\ player[p].user = u /\ (vis = "as read" => row = player[p])
    BY <1>0, <1>8 DEF StartUpdateOwn, OwnProfiles, ProfilesTyped, ProfileRow
  <2>2. desk' = [desk EXCEPT ![d] = q] /\ UNCHANGED <<player, wish>>
    BY <1>8 DEF StartUpdateOwn, Takes
  <2>3. p \in OwnProfiles(u) /\ player[p].visibility \in wish[u]
    BY <1>8 DEF StartUpdateOwn, ProfilesSound, AsWished
  <2> HIDE DEF row
  <2>4. q \in OwnUpdate
    BY <2>1 DEF OwnUpdate
  <2>5. ProfilesTyped'
    BY <1>0, <2>2, <2>4 DEF ProfilesTyped
  <2>6. desk'[d] = q /\ \A e \in Desks \ {d} : desk'[e] = desk[e]
    BY <1>0, <2>2 DEF ProfilesTyped
  <2>7. OwnFits(d)'
    <3>1. q.player = p /\ q.user = u /\ q.row = row /\ (~q.asked => vis = "as read")
      OBVIOUS
    <3> HIDE DEF q
    <3> QED BY <2>1, <2>2, <2>3, <2>6, <3>1 DEF OwnFits
  <2> QED BY <2>2, <2>5, <2>6, <2>7, DeskOnly
<1>9. ASSUME NEW d \in Desks, NEW p \in PlayerRows, NEW st \in PlayerStatuses, StartUpdate(d, p, st)
      PROVE  ProfilesSound'
  <2>1. [player[p] EXCEPT !.status = st] \in ProfileRow
    BY <1>0 DEF ProfilesTyped, ProfileRow
  <2>2. ProfilesTyped' /\ \A e \in Desks : desk'[e] = desk[e] \/ desk'[e].does # "own"
    BY <1>0, <1>9, <2>1 DEF StartUpdate, Takes, ProfilesTyped, StaffUpdate
  <2> QED BY <1>9, <2>2, DeskOnly DEF StartUpdate
<1>10. CASE UNCHANGED profileVars
  <2>1. UNCHANGED <<player, desk, wish>>
    BY <1>10 DEF profileVars
  <2> QED BY <1>0, <2>1, DeskOnly DEF ProfilesTyped
<1> QED BY <1>1, <1>2, <1>3, <1>4, <1>5, <1>6, <1>7, <1>8, <1>9, <1>10 DEF ProfilesNext

\* The page of a profile is open to others as its owner's last request says
\* (UpdateOwn), or one of those that overlap, and its organization alone reads
\* it besides, because the staff's stale row is not written back whole.
THEOREM OwnerAlwaysDecides == ProfilesSpec => []OwnerDecides
<1>1. ASSUME ProfilesSound PROVE OwnerDecides
  <2> SUFFICES ASSUME NEW u \in People, NEW p \in OwnProfiles(u), NEW v \in (People \ {u}) \cup {"nobody"}
               PROVE  \E w \in wish[u] : /\ OpenTo(v, p) <=> w # "private"
                                         /\ Readable(v, p) <=> player[p].inOrg \/ w # "private"
    BY DEF OwnerDecides
  <2>1. /\ player[p].user = u /\ u # v /\ p \in PlayerRows
        /\ player[p].visibility \in wish[u] /\ player[p].visibility \in Visibilities
    BY <1>1, ProfilesAssumption DEF ProfilesSound, ProfilesTyped, ProfileRow, AsWished, OwnProfiles
  <2>2. OpenTo(v, p) <=> player[p].visibility # "private"
    BY <2>1 DEF OpenTo, Visibilities
  <2> QED BY <2>1, <2>2 DEF Readable
<1> QED BY <1>1, ProfilesBegin, ProfilesStep, PTL DEF ProfilesSpec

-----------------------------------------------------------------------------
(* Squads.                                                                 *)

TeamRequest == [for : {"team"}, team : Teams, status : TeamStatuses]
AddRequest == [for : {"add"}, player : Players, team : Teams, met : BOOLEAN]

SquadsTyped == /\ clerk \in [Clerks -> {NoRequest} \cup TeamRequest \cup AddRequest]
               /\ \A m \in stints : "active" \in DOMAIN m

\* Of the requests to add a player, either all know of each other or there is
\* one, and then the player is still as free as when it was looked up.
MeetingsKnown == \A c, d \in Clerks :
  c # d /\ clerk[c].for = "add" /\ clerk[d].for = "add" /\ clerk[c].player = clerk[d].player => clerk[c].met
StillFree == \A c \in Clerks :
  clerk[c].for = "add" /\ ~clerk[c].met => ActiveStints(clerk[c].player) = {}

SquadsSound == SquadsTyped /\ MeetingsKnown /\ StillFree /\ OneTeamPerPlayer

LEMMA SquadsBegin == SquadsInit => SquadsSound
BY DEF SquadsInit, SquadsSound, SquadsTyped, MeetingsKnown, StillFree, OneTeamPerPlayer, ActiveStints, NoRequest

\* No active stint is added, no request to add a player begins.
LEMMA SquadsKept ==
  ASSUME SquadsSound, SquadsTyped',
         \A p \in Players : ActiveStints(p)' \subseteq ActiveStints(p),
         \A c \in Clerks : clerk'[c] = clerk[c] \/ clerk'[c].for # "add"
  PROVE  SquadsSound'
<1>1. MeetingsKnown'
  BY DEF SquadsSound, MeetingsKnown
<1>2. StillFree'
  <2> SUFFICES ASSUME NEW c \in Clerks, clerk'[c].for = "add", ~clerk'[c].met
               PROVE  ActiveStints(clerk[c].player)' = {} /\ clerk'[c] = clerk[c]
    BY DEF StillFree, ActiveStints
  <2>1. clerk'[c] = clerk[c] /\ clerk[c] \in AddRequest
    BY DEF SquadsSound, SquadsTyped, TeamRequest, NoRequest
  <2>2. ActiveStints(clerk[c].player) = {} /\ clerk[c].player \in Players
    BY <2>1 DEF SquadsSound, StillFree, AddRequest
  <2> QED BY <2>1, <2>2 DEF ActiveStints
<1>3. OneTeamPerPlayer'
  BY DEF SquadsSound, OneTeamPerPlayer
<1> QED BY <1>1, <1>2, <1>3 DEF SquadsSound

LEMMA AddStep ==
  ASSUME SquadsSound, NEW c \in Clerks, AddMember(c)
  PROVE  SquadsSound'
<1> DEFINE q == clerk[c]  new == NewStint(q)
<1>1. q \in AddRequest /\ clerk' = [clerk EXCEPT ![c] = NoRequest] /\ stints' = stints \cup {new}
  BY DEF AddMember, Settles, SquadsSound, SquadsTyped, TeamRequest, NoRequest
<1>2. \A d \in Clerks : IF d = c THEN clerk'[d].for = "nothing" ELSE clerk'[d] = clerk[d]
  BY <1>1 DEF SquadsSound, SquadsTyped, NoRequest
<1>3. new.active /\ new.player = q.player /\ new.met = q.met /\ "active" \in DOMAIN new
  BY DEF NewStint
<1> HIDE DEF new
<1>4. SquadsTyped'
  BY <1>1, <1>3 DEF SquadsSound, SquadsTyped
<1>5. MeetingsKnown'
  BY <1>2 DEF SquadsSound, MeetingsKnown
<1>6. \A p \in Players : ActiveStints(p)' = IF p = q.player THEN ActiveStints(p) \cup {new} ELSE ActiveStints(p)
  BY <1>1, <1>3 DEF ActiveStints
<1>7. StillFree'
  <2> SUFFICES ASSUME NEW d \in Clerks, clerk'[d].for = "add", ~clerk'[d].met
               PROVE  ActiveStints(clerk[d].player)' = {} /\ clerk'[d] = clerk[d]
    BY DEF StillFree, ActiveStints
  <2>1. d # c /\ clerk'[d] = clerk[d] /\ clerk[d] \in AddRequest
    BY <1>2 DEF SquadsSound, SquadsTyped, TeamRequest, NoRequest
  <2>2. clerk[d].player # q.player
    BY <1>1, <2>1 DEF SquadsSound, MeetingsKnown, AddRequest
  <2>3. ActiveStints(clerk[d].player) = {} /\ clerk[d].player \in Players
    BY <2>1 DEF SquadsSound, StillFree, AddRequest
  <2> QED BY <1>6, <2>1, <2>2, <2>3 DEF ActiveStints
<1>8. OneTeamPerPlayer'
  <2> SUFFICES ASSUME NEW p \in Players, NEW m \in ActiveStints(p)', NEW n \in ActiveStints(p)', m # n
               PROVE  m.met \/ n.met
    BY DEF OneTeamPerPlayer
  <2>1. CASE m \in ActiveStints(p) /\ n \in ActiveStints(p)
    BY <2>1 DEF SquadsSound, OneTeamPerPlayer
  <2>2. CASE p = q.player /\ (m = new \/ n = new)
    <3>1. CASE q.met
      BY <1>3, <2>2, <3>1
    <3>2. CASE ~q.met
      <4>1. ActiveStints(q.player) = {}
        BY <1>1, <3>2 DEF SquadsSound, StillFree, AddRequest
      <4> QED BY <1>6, <2>2, <4>1
    <3> QED BY <3>1, <3>2
  <2> QED BY <1>6, <2>1, <2>2
<1> QED BY <1>4, <1>5, <1>7, <1>8 DEF SquadsSound

LEMMA StartAddStep ==
  ASSUME SquadsSound, NEW c \in Clerks, NEW t \in Teams, NEW p \in Players, StartAdd(c, p, t)
  PROVE  SquadsSound'
<1> DEFINE new == [for |-> "add", player |-> p, team |-> t, met |-> Adding(p) # {}]
<1>1. /\ UNCHANGED stints /\ ActiveStints(p) = {} /\ clerk[c] = NoRequest
      /\ clerk' = [d \in Clerks |-> IF d = c THEN new
                                    ELSE IF d \in Adding(p) THEN [clerk[d] EXCEPT !.met = TRUE] ELSE clerk[d]]
  BY DEF StartAdd, FreeForTeam
<1>2. new \in AddRequest /\ new.for = "add" /\ new.player = p /\ (new.met <=> Adding(p) # {})
  BY DEF AddRequest
<1> HIDE DEF new
<1>3. \A d \in Clerks \ {c} : d \in Adding(p) =>
         /\ clerk'[d] \in AddRequest /\ clerk'[d].player = p /\ clerk'[d].met
  <2> SUFFICES ASSUME NEW d \in Clerks \ {c}, d \in Adding(p)
               PROVE  clerk'[d] \in AddRequest /\ clerk'[d].player = p /\ clerk'[d].met
    OBVIOUS
  <2>1. clerk[d] \in AddRequest /\ clerk[d].player = p
    BY DEF Adding, SquadsSound, SquadsTyped, TeamRequest, NoRequest
  <2>2. clerk'[d] = [clerk[d] EXCEPT !.met = TRUE]
    BY <1>1
  <2> QED BY <2>1, <2>2 DEF AddRequest
<1>4. clerk'[c] = new /\ \A d \in Clerks \ {c} : d \notin Adding(p) => clerk'[d] = clerk[d]
  BY <1>1
<1>5. SquadsTyped'
  BY <1>1, <1>2, <1>3, <1>4 DEF SquadsSound, SquadsTyped
<1>6. MeetingsKnown'
  <2> SUFFICES ASSUME NEW d \in Clerks, NEW e \in Clerks, d # e, clerk'[d].for = "add", clerk'[e].for = "add",
                      clerk'[d].player = clerk'[e].player
               PROVE  clerk'[d].met
    BY DEF MeetingsKnown
  <2>1. CASE d = c
    <3>1. e \in Adding(p)
      BY <1>2, <1>4, <2>1 DEF Adding
    <3> QED BY <1>2, <1>4, <2>1, <3>1
  <2>2. CASE d # c /\ d \in Adding(p)
    BY <1>3, <2>2
  <2>3. CASE d # c /\ d \notin Adding(p)
    <3>1. clerk'[d] = clerk[d] /\ clerk[d].player # p
      BY <1>4, <2>3 DEF Adding
    <3>2. e # c /\ e \notin Adding(p)
      BY <1>2, <1>3, <1>4, <3>1
    <3> QED BY <1>4, <3>1, <3>2 DEF SquadsSound, MeetingsKnown
  <2> QED BY <2>1, <2>2, <2>3
<1>7. StillFree'
  <2> SUFFICES ASSUME NEW d \in Clerks, clerk'[d].for = "add", ~clerk'[d].met
               PROVE  ActiveStints(clerk'[d].player) = {}
    BY <1>1 DEF StillFree, ActiveStints
  <2>1. CASE d = c
    BY <1>1, <1>2, <1>4, <2>1
  <2>2. CASE d # c
    BY <1>3, <1>4, <2>2 DEF SquadsSound, StillFree
  <2> QED BY <2>1, <2>2
<1>8. OneTeamPerPlayer'
  BY <1>1 DEF SquadsSound, OneTeamPerPlayer, ActiveStints
<1> QED BY <1>5, <1>6, <1>7, <1>8 DEF SquadsSound

LEMMA SquadsStep == SquadsSound /\ [SquadsNext]_squadVars => SquadsSound'
<1> SUFFICES ASSUME SquadsSound, [SquadsNext]_squadVars PROVE SquadsSound'
  OBVIOUS
<1>0. SquadsTyped
  BY DEF SquadsSound
<1>1. CASE UNCHANGED <<stints, clerk>>
  BY <1>0, <1>1, SquadsKept DEF SquadsTyped, ActiveStints
<1>2. ASSUME NEW m \in stints, RemoveMember(m) PROVE SquadsSound'
  <2>1. Released(m).active = FALSE /\ "active" \in DOMAIN Released(m)
    BY <1>0 DEF Released, SquadsTyped
  <2>2. SquadsTyped'
    BY <1>0, <1>2, <2>1 DEF RemoveMember, StintFound, SquadsTyped
  <2>3. \A p \in Players : ActiveStints(p)' \subseteq ActiveStints(p)
    BY <1>2, <2>1 DEF RemoveMember, StintFound, ActiveStints
  <2> QED BY <1>2, <2>2, <2>3, SquadsKept DEF RemoveMember, StintFound
<1>3. ASSUME NEW c \in Clerks, Settles(c), UNCHANGED stints PROVE SquadsSound'
  <2>1. SquadsTyped' /\ \A d \in Clerks : clerk'[d] = clerk[d] \/ clerk'[d].for # "add"
    BY <1>0, <1>3 DEF Settles, SquadsTyped, NoRequest
  <2> QED BY <1>3, <2>1, SquadsKept DEF ActiveStints
<1>4. ASSUME NEW c \in Clerks, NEW t \in Teams, NEW st \in TeamStatuses, StartUpdateTeam(c, t, st)
      PROVE  SquadsSound'
  <2>1. SquadsTyped' /\ \A d \in Clerks : clerk'[d] = clerk[d] \/ clerk'[d].for # "add"
    BY <1>0, <1>4 DEF StartUpdateTeam, Accepts, SquadsTyped, TeamRequest
  <2> QED BY <1>4, <2>1, SquadsKept DEF StartUpdateTeam, ActiveStints
<1>5. ASSUME NEW c \in Clerks, AddMember(c) PROVE SquadsSound'
  BY <1>5, AddStep
<1>6. ASSUME NEW c \in Clerks, NEW t \in Teams, NEW p \in Players, StartAdd(c, p, t) PROVE SquadsSound'
  BY <1>6, StartAddStep
<1> QED BY <1>1, <1>2, <1>3, <1>4, <1>5, <1>6
        DEF SquadsNext, squadVars, CreateTeam, DisbandTeam, UpdateTeam, Drops

\* "one active team membership per player per organization": the lookup of
\* AddMember holds when it writes, unless another addition was on the way.
THEOREM OneTeamAlways == SquadsSpec => []OneTeamPerPlayer
<1>1. SquadsSound => OneTeamPerPlayer
  BY DEF SquadsSound
<1> QED BY <1>1, SquadsBegin, SquadsStep, PTL DEF SquadsSpec

-----------------------------------------------------------------------------
(* Media.                                                                  *)

Served == {"new", "put", "swap", "wait", "set", "delete", "clean", "over"}
MediaJob == [at : Served, file : Files \cup {"none"}, prim : BOOLEAN,
             target : Jobs \cup {"none"}, old : SUBSET Jobs]

MediaTyped == /\ job \in [Jobs -> MediaJob]
              /\ pictures \subseteq Jobs /\ objects \subseteq Jobs \X Variants

\* The row of a job is not there yet, nor can it have been deleted.
Unlisted(j) == Stage(j, "new") \/ Stage(j, "put")
RowsAreLater == \A j \in Jobs : Unlisted(j) => j \notin pictures
TargetsWereListed == \A j \in Jobs : Stage(j, "delete") \/ Stage(j, "clean") =>
  job[j].target \in Jobs /\ ~Unlisted(job[j].target)

\* "Delete storage objects AFTER the transaction commits."
RowGone == \A j \in Jobs : Stage(j, "clean") => job[j].target \notin pictures

\* An upload has stored its first objects, as many as there are.
UpTo(j, k) == /\ Stored(j) = {<<j, v>> : v \in 1..k}
              /\ IsFiniteSet(Stored(j)) /\ Cardinality(Stored(j)) = k
InOrder == \A j \in Jobs :
  /\ Stage(j, "new") => UpTo(j, 0)
  /\ Stage(j, "put") => \E k \in 0..Sizes : UpTo(j, k)

OnePrimary == primary \subseteq pictures /\ \A r, t \in primary : r = t

MediaSound == /\ MediaTyped /\ RowsAreLater /\ TargetsWereListed /\ RowGone /\ InOrder
              /\ OnePrimary /\ ObjectsHeld

LEMMA MediaBegin == MediaInit => MediaSound
<1> SUFFICES ASSUME MediaInit PROVE MediaSound
  OBVIOUS
<1>1. Cardinality({}) = 0 /\ IsFiniteSet({}) /\ 1..0 = {}
  BY FS_EmptySet
<1>2. MediaTyped
  BY DEF MediaInit, MediaTyped, NoJob, MediaJob, Served
<1>3. InOrder
  <2>1. \A j \in Jobs : Stage(j, "new") /\ ~Stage(j, "put") /\ Stored(j) = {}
    BY DEF MediaInit, NoJob, Stage, Stored
  <2>2. ASSUME NEW j \in Jobs PROVE UpTo(j, 0)
    <3>1. {<<j, v>> : v \in 1..0} = {}
      BY <1>1
    <3> QED BY <1>1, <2>1, <3>1 DEF UpTo
  <2> QED BY <2>1, <2>2 DEF InOrder
<1> QED BY <1>2, <1>3 DEF MediaInit, NoJob, MediaSound, RowsAreLater, TargetsWereListed, RowGone, OnePrimary,
                          ObjectsHeld, Stage

\* Jobs move on and objects that belong to no listed picture come and go.
LEMMA NothingListed ==
  ASSUME MediaSound, UNCHANGED <<pictures, primary, unsure>>, NEW j \in Jobs,
         NEW q \in MediaJob, job' = [job EXCEPT ![j] = q],
         q.at \notin {"new", "put"},
         q.at \in {"delete", "clean"} => q.target \in Jobs /\ ~Unlisted(q.target),
         q.at = "clean" => q.target \notin pictures,
         UNCHANGED objects \/ \E r \in Jobs \ pictures, kept \in SUBSET objects :
                                 Removed(r, kept) /\ (r = j \/ ~Unlisted(r))
  PROVE  MediaSound'
<1>1. /\ job' \in [Jobs -> MediaJob]
      /\ \A i \in Jobs : job'[i] = IF i = j THEN q ELSE job[i]
  BY DEF MediaSound, MediaTyped
<1>2. objects' \subseteq objects
  BY DEF Removed
<1>3. MediaTyped'
  BY <1>1, <1>2 DEF MediaSound, MediaTyped
<1>4. \A i \in Jobs : Unlisted(i)' => Unlisted(i) /\ i # j
  BY <1>1 DEF Unlisted, Stage
<1>5. RowsAreLater' /\ TargetsWereListed' /\ RowGone' /\ OnePrimary'
  BY <1>1, <1>4 DEF MediaSound, RowsAreLater, TargetsWereListed, RowGone, OnePrimary, Unlisted, Stage
<1>6. InOrder'
  <2> SUFFICES ASSUME NEW i \in Jobs, Unlisted(i)'
               PROVE  Stored(i)' = Stored(i) /\ job'[i] = job[i]
    BY DEF MediaSound, InOrder, UpTo, Unlisted, Stage, Stored
  <2>1. i # j /\ Unlisted(i) /\ job'[i] = job[i]
    BY <1>1, <1>4
  <2> QED BY <2>1 DEF Removed, Stored
<1>7. ObjectsHeld'
  BY DEF MediaSound, ObjectsHeld, Removed, Stored
<1> QED BY <1>3, <1>5, <1>6, <1>7 DEF MediaSound

\* The row of j is inserted and the request goes on.
LEMMA RowListed ==
  ASSUME MediaSound, NEW j \in Jobs, AllStored(j), pictures' = pictures \cup {j}, UNCHANGED primary,
         NEW q \in MediaJob, job' = [job EXCEPT ![j] = q], q.at \notin {"new", "put", "delete", "clean"},
         \/ UNCHANGED <<objects, unsure>>
         \/ unsure' = unsure \cup {j} /\ \E kept \in SUBSET objects : Removed(j, kept)
  PROVE  MediaSound'
<1>1. /\ job' \in [Jobs -> MediaJob]
      /\ \A i \in Jobs : job'[i] = IF i = j THEN q ELSE job[i]
  BY DEF MediaSound, MediaTyped
<1>2. objects' \subseteq objects /\ \A i \in Jobs \ {j} : Stored(i)' = Stored(i)
  BY DEF Removed, Stored
<1>3. MediaTyped'
  BY <1>1, <1>2 DEF MediaSound, MediaTyped
<1>4. \A i \in Jobs : Unlisted(i)' => Unlisted(i) /\ i # j
  BY <1>1 DEF Unlisted, Stage
<1>5. Unlisted(j)
  BY DEF AllStored, Unlisted
<1>6. RowsAreLater' /\ TargetsWereListed' /\ RowGone' /\ OnePrimary'
  BY <1>1, <1>4, <1>5 DEF MediaSound, RowsAreLater, TargetsWereListed, RowGone, OnePrimary, Stage
<1>7. InOrder'
  BY <1>1, <1>2, <1>4 DEF MediaSound, InOrder, UpTo, Unlisted, Stage, Stored
<1>8. ObjectsHeld'
  <2> SUFFICES ASSUME NEW r \in pictures' \ unsure', NEW v \in Variants PROVE <<r, v>> \in objects'
    BY DEF ObjectsHeld
  <2>1. CASE r = j
    <3>1. objects' = objects
      BY <2>1
    <3>2. \E k \in 0..Sizes : UpTo(j, k) /\ k = Sizes
      BY DEF AllStored, MediaSound, InOrder, UpTo
    <3>3. <<j, v>> \in Stored(j)
      BY <3>2 DEF UpTo, Variants
    <3> QED BY <2>1, <3>1, <3>3 DEF Stored
  <2>2. CASE r # j
    <3>1. r \in pictures \ unsure
      BY <2>2
    <3>2. <<r, v>> \in objects
      BY <3>1 DEF MediaSound, ObjectsHeld
    <3> QED BY <2>2, <3>2 DEF Removed, Stored
  <2> QED BY <2>1, <2>2
<1> QED BY <1>3, <1>6, <1>7, <1>8 DEF MediaSound

\* A request is over, or goes on to the swap with row r.
LEMMA OverOrOn ==
  ASSUME MediaTyped, NEW j \in Jobs, NEW r \in Jobs
  PROVE  /\ [job[j] EXCEPT !.at = "over"] \in MediaJob
         /\ [job[j] EXCEPT !.at = "over"].at = "over"
         /\ [job[j] EXCEPT !.at = "swap", !.target = r] \in MediaJob
         /\ [job[j] EXCEPT !.at = "swap", !.target = r].at = "swap"
<1>1. job[j] \in MediaJob
  BY DEF MediaTyped
<1> QED BY <1>1 DEF MediaJob, Served

LEMMA PutStep ==
  ASSUME MediaSound, NEW j \in Jobs, Put(j)
  PROVE  MediaSound'
<1>1. PICK k \in 0..Sizes : UpTo(j, k)
  BY DEF Put, MediaSound, InOrder
<1>2. k + 1 \in Variants /\ k + 1 \in 0..Sizes /\ k \in Nat
  BY <1>1, MediaAssumption DEF Put, UpTo, Variants
<1>3. objects' = objects \cup {<<j, k + 1>>} /\ UNCHANGED <<pictures, primary, job, unsure>>
  BY <1>1 DEF Put, UpTo
<1>4. Stored(j)' = Stored(j) \cup {<<j, k + 1>>} /\ \A i \in Jobs \ {j} : Stored(i)' = Stored(i)
  BY <1>3 DEF Stored
<1>5. UpTo(j, k + 1)'
  <2>1. 1..(k + 1) = (1..k) \cup {k + 1} /\ k + 1 \notin 1..k
    BY <1>2
  <2>2. Stored(j)' = {<<j, v>> : v \in 1..(k + 1)} /\ <<j, k + 1>> \notin Stored(j)
    BY <1>1, <1>4, <2>1 DEF UpTo
  <2>3. IsFiniteSet(Stored(j)') /\ Cardinality(Stored(j)') = Cardinality(Stored(j)) + 1
    <3>1. IsFiniteSet(Stored(j))
      BY <1>1 DEF UpTo
    <3> QED BY <1>4, <2>2, <3>1, FS_AddElement
  <2> QED BY <1>1, <2>2, <2>3 DEF UpTo
<1>6. InOrder'
  <2> SUFFICES ASSUME NEW i \in Jobs
               PROVE  /\ Stage(i, "new") => UpTo(i, 0)'
                      /\ Stage(i, "put") => \E n \in 0..Sizes : UpTo(i, n)'
    BY <1>3 DEF InOrder, Stage
  <2>1. CASE i = j
    BY <1>2, <1>5, <2>1 DEF Put, Stage
  <2>2. CASE i # j
    BY <1>4, <2>2 DEF MediaSound, InOrder, UpTo
  <2> QED BY <2>1, <2>2
<1>7. MediaTyped'
  BY <1>2, <1>3 DEF MediaSound, MediaTyped
<1>8. (RowsAreLater /\ TargetsWereListed /\ RowGone /\ OnePrimary /\ ObjectsHeld)'
  BY <1>3 DEF MediaSound, RowsAreLater, TargetsWereListed, RowGone, OnePrimary, ObjectsHeld, Unlisted, Stage
<1> QED BY <1>6, <1>7, <1>8 DEF MediaSound

LEMMA SetPrimaryStep ==
  ASSUME MediaSound, NEW j \in Jobs, SetPrimary(j)
  PROVE  MediaSound'
<1> DEFINE t == job[j].target  old == job[j].old  q == [job[j] EXCEPT !.at = "over"]
<1>1. q \in MediaJob /\ q.at = "over" /\ job' = [job EXCEPT ![j] = q]
  BY OverOrOn DEF SetPrimary, Over, Moves, MediaSound, MediaTyped, MediaJob
<1>2. UNCHANGED <<pictures, objects, unsure>> /\ primary' \in {primary, {t}} /\ (primary' = {t} => t \in pictures \/ primary' = primary)
  BY DEF SetPrimary, Undone, PictureFound
<1> HIDE DEF q, t
<1>3. \A i \in Jobs : job'[i] = IF i = j THEN q ELSE job[i]
  BY <1>1 DEF MediaSound, MediaTyped
<1>4. MediaTyped'
  BY <1>1, <1>2 DEF MediaSound, MediaTyped
<1>5. RowsAreLater' /\ TargetsWereListed' /\ RowGone'
  BY <1>1, <1>2, <1>3 DEF MediaSound, RowsAreLater, TargetsWereListed, RowGone, Unlisted, Stage
<1>6. OnePrimary'
  BY <1>2 DEF MediaSound, OnePrimary
<1>7. InOrder' /\ ObjectsHeld'
  BY <1>1, <1>2, <1>3 DEF MediaSound, InOrder, ObjectsHeld, UpTo, Stored, Stage
<1> QED BY <1>4, <1>5, <1>6, <1>7 DEF MediaSound

LEMMA DeleteRowStep ==
  ASSUME MediaSound, NEW j \in Jobs, DeleteRow(j)
  PROVE  MediaSound'
<1> DEFINE r == job[j].target  at == IF r \in pictures THEN "clean" ELSE "over"
           q == [job[j] EXCEPT !.at = at]
<1>1. job[j] \in MediaJob /\ r \in Jobs /\ ~Unlisted(r) /\ job[j].at = "delete"
  BY DEF DeleteRow, MediaSound, MediaTyped, TargetsWereListed, Stage
<1>2. q \in MediaJob /\ q.at = at /\ q.target = r
  BY <1>1 DEF MediaJob, Served
<1>3. /\ job' = [job EXCEPT ![j] = q] /\ UNCHANGED <<objects, unsure>>
      /\ pictures' = pictures \ {r} /\ primary' = primary \ {r}
  BY DEF DeleteRow, Over, Moves, PictureDeleted, PictureFound
<1>4. at \in {"clean", "over"}
  OBVIOUS
<1> HIDE DEF q, r, at
<1>5. \A i \in Jobs : job'[i] = IF i = j THEN q ELSE job[i]
  BY <1>3 DEF MediaSound, MediaTyped
<1>6. MediaTyped'
  BY <1>2, <1>3 DEF MediaSound, MediaTyped
<1>7. \A i \in Jobs : Unlisted(i)' => Unlisted(i) /\ i # j
  BY <1>2, <1>4, <1>5 DEF Unlisted, Stage
<1>8. RowsAreLater' /\ OnePrimary'
  BY <1>3, <1>7 DEF MediaSound, RowsAreLater, OnePrimary
<1>9. TargetsWereListed' /\ RowGone'
  BY <1>1, <1>2, <1>3, <1>4, <1>5 DEF MediaSound, TargetsWereListed, RowGone, Unlisted, Stage
<1>10. InOrder' /\ ObjectsHeld'
  BY <1>2, <1>3, <1>4, <1>5 DEF MediaSound, InOrder, ObjectsHeld, UpTo, Stored, Stage
<1> QED BY <1>6, <1>8, <1>9, <1>10 DEF MediaSound

LEMMA StartUploadStep ==
  ASSUME MediaSound, NEW j \in Jobs, NEW f \in Files, NEW p \in BOOLEAN, StartUpload(j, f, p)
  PROVE  MediaSound'
<1> DEFINE q == [NoJob EXCEPT !.at = "put", !.file = f, !.prim = p, !.target = j]
<1>1. q \in MediaJob /\ q.at = "put"
  BY DEF NoJob, MediaJob, Served
<1>2. job' = [job EXCEPT ![j] = q] /\ UNCHANGED <<pictures, primary, objects, unsure>> /\ Stage(j, "new")
  BY DEF StartUpload, Moves
<1> HIDE DEF q
<1>3. \A i \in Jobs : job'[i] = IF i = j THEN q ELSE job[i]
  BY <1>2 DEF MediaSound, MediaTyped
<1>4. MediaTyped'
  BY <1>1, <1>2 DEF MediaSound, MediaTyped
<1>5. \A i \in Jobs : Unlisted(i)' <=> Unlisted(i)
  BY <1>1, <1>2, <1>3 DEF Unlisted, Stage
<1>6. (RowsAreLater /\ OnePrimary /\ ObjectsHeld)'
  BY <1>2, <1>5 DEF MediaSound, RowsAreLater, OnePrimary, ObjectsHeld
<1>7. (TargetsWereListed /\ RowGone)'
  BY <1>1, <1>2, <1>3, <1>5 DEF MediaSound, TargetsWereListed, RowGone, Unlisted, Stage
<1>8. InOrder'
  <2> SUFFICES ASSUME NEW i \in Jobs
               PROVE  /\ job'[i].at = "new" => UpTo(i, 0)
                      /\ job'[i].at = "put" => \E k \in 0..Sizes : UpTo(i, k)
    BY <1>2 DEF InOrder, UpTo, Stored, Stage
  <2>1. CASE i = j
    <3>1. UpTo(j, 0) /\ 0 \in 0..Sizes
      BY <1>2, MediaAssumption DEF MediaSound, InOrder
    <3> QED BY <1>1, <1>3, <2>1, <3>1
  <2>2. CASE i # j
    BY <1>3, <2>2 DEF MediaSound, InOrder, Stage
  <2> QED BY <2>1, <2>2
<1> QED BY <1>4, <1>6, <1>7, <1>8 DEF MediaSound

LEMMA MediaStep == MediaSound /\ [MediaNext]_mediaVars => MediaSound'
<1> SUFFICES ASSUME MediaSound, [MediaNext]_mediaVars PROVE MediaSound'
  OBVIOUS
<1>0. MediaTyped
  BY DEF MediaSound
<1>1. ASSUME NEW j \in Jobs, Over(j), UNCHANGED <<pictures, primary, unsure>>,
             UNCHANGED objects \/ \E r \in Jobs \ pictures, kept \in SUBSET objects :
                                     Removed(r, kept) /\ (r = j \/ ~Unlisted(r))
      PROVE  MediaSound'
  <2> DEFINE q == [job[j] EXCEPT !.at = "over"]
  <2>1. q \in MediaJob /\ q.at = "over" /\ job' = [job EXCEPT ![j] = q]
    BY <1>0, <1>1, OverOrOn DEF Over, Moves
  <2> HIDE DEF q
  <2> QED BY <1>1, <2>1, NothingListed
<1>2. ASSUME NEW j \in Jobs, NEW q \in MediaJob, Moves(j, q), q.at \in {"swap", "set", "wait"},
             UNCHANGED <<pictures, primary, objects, unsure>>
      PROVE  MediaSound'
  BY <1>2, NothingListed DEF Moves
<1>3. ASSUME NEW j \in Jobs, NEW kept \in SUBSET objects, UploadFails(j, kept) PROVE MediaSound'
  <2>1. j \notin pictures
    BY <1>3 DEF UploadFails, MediaSound, RowsAreLater, Unlisted
  <2> QED BY <1>1, <1>3, <2>1 DEF UploadFails
<1>4. ASSUME NEW j \in Jobs, NEW kept \in SUBSET objects, Clean(j, kept) PROVE MediaSound'
  <2>1. job[j].target \in Jobs \ pictures /\ ~Unlisted(job[j].target)
    BY <1>4 DEF Clean, Cleans, MediaSound, TargetsWereListed, RowGone
  <2> QED BY <1>1, <1>4, <2>1 DEF Clean
<1>5. ASSUME NEW j \in Jobs, Broken(j) PROVE MediaSound'
  BY <1>1, <1>5 DEF Broken
<1>6. ASSUME NEW j \in Jobs, InsertDuplicate(j) PROVE MediaSound'
  <2>1. PICK r \in Duplicates(job[j].file) : GoesOn(j, r)
    BY <1>6 DEF InsertDuplicate
  <2>2. r \in Jobs
    BY <1>0 DEF Duplicates, MediaTyped
  <2>3. CASE Over(j)
    BY <1>1, <1>6, <2>3 DEF InsertDuplicate
  <2>4. CASE Moves(j, [job[j] EXCEPT !.at = "swap", !.target = r])
    BY <1>0, <1>2, <1>6, <2>2, <2>4, OverOrOn DEF InsertDuplicate
  <2> QED BY <2>1, <2>3, <2>4 DEF GoesOn
<1>7. ASSUME NEW j \in Jobs, Insert(j) PROVE MediaSound'
  <2> DEFINE q == IF job[j].prim THEN [job[j] EXCEPT !.at = "swap", !.target = j]
                  ELSE [job[j] EXCEPT !.at = "over"]
  <2>1. q \in MediaJob /\ q.at \in {"swap", "over"} /\ job' = [job EXCEPT ![j] = q]
    BY <1>0, <1>7, OverOrOn DEF Insert, GoesOn, Over, Moves
  <2> HIDE DEF q
  <2> QED BY <1>7, <2>1, RowListed DEF Insert, PictureInserted
<1>8. ASSUME NEW j \in Jobs, NEW kept \in SUBSET objects, InsertUnsure(j, kept) PROVE MediaSound'
  <2> DEFINE q == [job[j] EXCEPT !.at = "over"]
  <2>1. q \in MediaJob /\ q.at = "over" /\ job' = [job EXCEPT ![j] = q]
    BY <1>0, <1>8, OverOrOn DEF InsertUnsure, Over, Moves
  <2> HIDE DEF q
  <2> QED BY <1>8, <2>1, RowListed DEF InsertUnsure, PictureInserted
<1>9. ASSUME NEW j \in Jobs, NEW r \in pictures, StartSwap(j, r) PROVE MediaSound'
  <2>1. [NoJob EXCEPT !.at = "swap", !.target = r] \in MediaJob
    BY <1>0 DEF NoJob, MediaJob, MediaTyped, Served
  <2> QED BY <1>2, <1>9, <2>1 DEF StartSwap, NoJob
<1>10. ASSUME NEW j \in Jobs, NEW r \in pictures, StartDelete(j, r) PROVE MediaSound'
  <2> DEFINE q == [NoJob EXCEPT !.at = "delete", !.target = r]
  <2>1. q \in MediaJob /\ q.at = "delete" /\ q.target = r
    BY <1>0 DEF NoJob, MediaJob, MediaTyped, Served
  <2>2. r \in Jobs /\ ~Unlisted(r) /\ job' = [job EXCEPT ![j] = q]
    BY <1>0, <1>10 DEF StartDelete, Moves, MediaSound, MediaTyped, RowsAreLater
  <2> HIDE DEF q
  <2> QED BY <1>10, <2>1, <2>2, NothingListed DEF StartDelete
<1>11. ASSUME NEW j \in Jobs, LockPrimary(j) \/ Woken(j) PROVE MediaSound'
  <2>1. primary \subseteq Jobs /\ job[j] \in MediaJob
    BY <1>0 DEF MediaSound, MediaTyped, OnePrimary
  <2>2. \E at \in {"set", "wait"}, old \in SUBSET Jobs : Moves(j, [job[j] EXCEPT !.at = at, !.old = old])
    BY <1>11, <2>1 DEF LockPrimary, Woken
  <2>3. PICK at \in {"set", "wait"}, old \in SUBSET Jobs : Moves(j, [job[j] EXCEPT !.at = at, !.old = old])
    BY <2>2
  <2>4. /\ [job[j] EXCEPT !.at = at, !.old = old] \in MediaJob
        /\ [job[j] EXCEPT !.at = at, !.old = old].at = at
    BY <2>1 DEF MediaJob, Served
  <2> QED BY <1>2, <1>11, <2>3, <2>4 DEF LockPrimary, Woken
<1>12. CASE UNCHANGED mediaVars
  <2>1. UNCHANGED <<pictures, primary, objects, job, unsure>>
    BY <1>12 DEF mediaVars
  <2> QED BY <2>1 DEF MediaSound, MediaTyped, RowsAreLater, TargetsWereListed, RowGone, InOrder, OnePrimary,
                      ObjectsHeld, UpTo, Stored, Unlisted, Stage
<1> QED BY <1>3, <1>4, <1>5, <1>6, <1>7, <1>8, <1>9, <1>10, <1>11, <1>12,
           StartUploadStep, PutStep, SetPrimaryStep, DeleteRowStep DEF MediaNext

THEOREM MediaSoundAlways == MediaSpec => []MediaSound
BY MediaBegin, MediaStep, PTL DEF MediaSpec

\* The objects of a picture are there before its row and go after it
\* (Upload, Delete), for any number of requests, contents and sizes.
THEOREM ObjectsAlwaysHeld == MediaSpec => []ObjectsHeld
<1>1. MediaSound => ObjectsHeld
  BY DEF MediaSound
<1> QED BY <1>1, MediaSoundAlways, PTL

LEMMA PrimaryStep ==
  ASSUME MediaSound, [MediaNext]_mediaVars, NEW r \in primary, r \in pictures'
  PROVE  Cardinality(primary') = 1
<1>1. primary = {r}
  BY DEF MediaSound, OnePrimary
<1>2. CASE primary' = primary
  BY <1>1, <1>2, FS_Singleton
<1>3. ASSUME NEW j \in Jobs, SetPrimary(j) PROVE Cardinality(primary') = 1
  <2>1. primary' = {job[j].target} \/ primary' = primary
    BY <1>3 DEF SetPrimary, Undone
  <2> QED BY <1>2, <2>1, FS_Singleton
<1>4. ASSUME NEW j \in Jobs, DeleteRow(j) PROVE primary' = primary
  BY <1>1, <1>4 DEF DeleteRow, PictureDeleted
<1> QED BY <1>2, <1>3, <1>4 DEF MediaNext, mediaVars, StartUpload, Put, Insert, InsertDuplicate, UploadFails,
                                InsertUnsure, Clean, StartSwap, StartDelete, LockPrimary, Woken, Broken

\* Swaps "atomically" (SwapPrimaryWithAudit): no step adds a second primary
\* picture or loses the one there is, unless it deletes it.
THEOREM PrimaryAlwaysHeld == MediaSpec => PrimaryHeld
<1>1. MediaSound /\ [MediaNext]_mediaVars =>
        [\A r \in primary : r \in pictures' => Cardinality(primary') = 1]_mediaVars
  BY PrimaryStep
<1> QED BY <1>1, MediaSoundAlways, PTL DEF MediaSpec, PrimaryHeld

-----------------------------------------------------------------------------
(* TabSession.                                                             *)

\* A login in a browser: as long as nothing cut it off and no two tabs
\* presented one token, the browser is at most one rotation behind the
\* server, and the tab that asked for that rotation still waits for it.

Flight == [token : 1..MaxTokens, answer : {"none", "new", "refused"}, callers : SUBSET Calls]

TabTypes ==
  /\ current \in 0..MaxTokens
  /\ stored \in 0..MaxTokens
  /\ flights \in [Tabs -> SUBSET Flight]
  /\ presented \subseteq Tabs \X (1..MaxTokens)
  /\ excused \in BOOLEAN
  /\ page \in [Tabs -> {"app", "login"}]

\* attemptTokenRefresh: the callers of a tab share one refresh.
OneFlight == \A t \in Tabs : \A f, g \in flights[t] : f = g
RoomFits == \A t \in Tabs : \A f \in flights[t] : f.answer = "new" => f.token < MaxTokens

\* The refresh under way presents the token of the browser, which is the one
\* the server rotates, or the one it has just rotated for this refresh.
FlightFits(t, f) ==
  /\ f.token = stored /\ <<t, stored>> \in presented
  /\ \/ f.answer = "none" /\ current = stored
     \/ f.answer = "new" /\ current = stored + 1
InStep ==
  /\ \A t \in Tabs : InApp(t)
  /\ stored >= 1
  /\ \A t \in Tabs : \A f \in flights[t] : FlightFits(t, f)
  /\ current = stored \/ \E t \in Tabs : \E f \in flights[t] : f.answer = "new"

Calm == ~excused /\ ~Contested
TabsSound == TabTypes /\ OneFlight /\ RoomFits /\ (Calm => InStep)

LEMMA TabSoundInit == TabInit => TabsSound
<1> SUFFICES ASSUME TabInit PROVE TabsSound
  OBVIOUS
<1>1. \A t \in Tabs : flights[t] = {} /\ InApp(t)
  BY DEF TabInit, InApp
<1>2. TabTypes
  <2>1. current \in 0..MaxTokens /\ stored \in 0..MaxTokens
    BY TabSessionAssumption DEF TabInit
  <2> QED BY <2>1 DEF TabInit, TabTypes
<1>3. InStep
  BY <1>1 DEF TabInit, InStep
<1> QED BY <1>1, <1>2, <1>3 DEF TabsSound, OneFlight, RoomFits

\* Tokens are presented, never taken back.
LEMMA CalmBefore ==
  ASSUME presented \subseteq presented', excused => excused'
  PROVE  Calm' => Calm
BY DEF Calm, Contested

\* Without two tabs that presented one token, one refresh is under way.
LEMMA AloneInFlight ==
  ASSUME TabTypes, Calm, InStep, OneFlight,
         NEW t \in Tabs, NEW u \in Tabs, NEW f \in flights[t], NEW g \in flights[u]
  PROVE  t = u /\ f = g
<1>1. stored \in 1..MaxTokens
  BY DEF TabTypes, InStep
<1>2. <<t, stored>> \in presented /\ <<u, stored>> \in presented
  BY DEF InStep, FlightFits
<1>3. t = u
  BY <1>1, <1>2 DEF Calm, Contested
<1> QED BY <1>3 DEF OneFlight

\* A tab that is signed out: nothing waits in it any more.
LEMMA SignOutSound ==
  ASSUME TabsSound, NEW t \in Tabs, SignOut(t), current' \in {0, current},
         presented' = presented, excused' = TRUE
  PROVE  TabsSound'
<1>1. /\ stored' \in 0..MaxTokens /\ page' \in [Tabs -> {"app", "login"}]
      /\ flights' \in [Tabs -> SUBSET Flight]
      /\ current' \in 0..MaxTokens
  BY TabSessionAssumption DEF TabsSound, TabTypes, SignOut
<1>2. \A u \in Tabs : flights'[u] \subseteq flights[u]
  BY DEF TabsSound, TabTypes, SignOut
<1>3. (OneFlight /\ RoomFits)'
  BY <1>2 DEF TabsSound, OneFlight, RoomFits
<1>4. TabTypes'
  BY <1>1 DEF TabsSound, TabTypes
<1> QED BY <1>3, <1>4 DEF TabsSound, Calm

LEMMA StartSound ==
  ASSUME TabsSound, NEW t \in Tabs, NEW k \in Calls, flights[t] = {}, stored # 0,
         flights' = [flights EXCEPT ![t] = @ \cup {[token |-> stored, answer |-> "none", callers |-> {k}]}],
         presented' = presented \cup {<<t, stored>>},
         UNCHANGED <<stored, page, current, excused>>
  PROVE  TabsSound'
<1> DEFINE f == [token |-> stored, answer |-> "none", callers |-> {k}]
<1>1. stored \in 1..MaxTokens /\ f \in Flight
  BY TabSessionAssumption DEF TabsSound, TabTypes, Flight
<1>2. flights' = [flights EXCEPT ![t] = {f}] /\ f.token = stored /\ f.answer = "none"
  OBVIOUS
<1> HIDE DEF f
<1>3. flights' \in [Tabs -> SUBSET Flight] /\ presented' \subseteq Tabs \X (1..MaxTokens)
  BY <1>1, <1>2 DEF TabsSound, TabTypes
<1>4. TabTypes'
  BY <1>3 DEF TabsSound, TabTypes
<1>5. flights'[t] = {f} /\ \A u \in Tabs \ {t} : flights'[u] = flights[u]
  BY <1>2 DEF TabsSound, TabTypes
<1>6. (OneFlight /\ RoomFits)'
  BY <1>2, <1>5 DEF TabsSound, OneFlight, RoomFits
<1>7. Calm' => InStep'
  <2> SUFFICES ASSUME Calm' PROVE InStep'
    OBVIOUS
  <2>1. Calm /\ InStep
    BY CalmBefore DEF TabsSound
  <2>2. \A u \in Tabs \ {t} : flights[u] = {}
    <3> SUFFICES ASSUME NEW u \in Tabs \ {t}, NEW g \in flights[u] PROVE FALSE
      OBVIOUS
    <3>1. <<u, stored>> \in presented' /\ <<t, stored>> \in presented'
      BY <2>1 DEF InStep, FlightFits
    <3> QED BY <3>1, <1>1 DEF Calm, Contested
  <2>3. current = stored
    BY <2>1, <2>2 DEF InStep
  <2>4. \A u \in Tabs : \A g \in flights'[u] : u = t /\ g = f
    BY <2>2, <1>5
  <2>5. <<t, stored>> \in presented'
    OBVIOUS
  <2>6. \A u \in Tabs : \A g \in flights'[u] : FlightFits(u, g)'
    BY <2>3, <2>4, <2>5, <1>2 DEF FlightFits
  <2> QED BY <2>1, <2>3, <2>6 DEF InStep, InApp
<1> QED BY <1>4, <1>6, <1>7 DEF TabsSound

\* A caller joins: what the refresh presents and was answered stays.
LEMMA JoinSound ==
  ASSUME TabsSound, NEW t \in Tabs, NEW k \in Calls,
         flights' = [flights EXCEPT ![t] = {[f EXCEPT !.callers = @ \cup {k}] : f \in flights[t]}],
         UNCHANGED <<stored, page, current, excused, presented>>
  PROVE  TabsSound'
<1> DEFINE With(f) == [f EXCEPT !.callers = @ \cup {k}]
<1>1. \A f \in Flight : With(f) \in Flight /\ With(f).token = f.token /\ With(f).answer = f.answer
  BY DEF Flight
<1>2. flights' = [flights EXCEPT ![t] = {With(f) : f \in flights[t]}]
  OBVIOUS
<1> HIDE DEF With
<1>3. /\ flights \in [Tabs -> SUBSET Flight]
      /\ flights'[t] = {With(f) : f \in flights[t]} /\ \A u \in Tabs \ {t} : flights'[u] = flights[u]
  BY <1>2 DEF TabsSound, TabTypes
<1>4. flights' \in [Tabs -> SUBSET Flight]
  BY <1>1, <1>2, <1>3
<1>5. TabTypes'
  BY <1>4 DEF TabsSound, TabTypes
<1>6. OneFlight'
  BY <1>3 DEF TabsSound, OneFlight
<1>7. \A u \in Tabs : \A g \in flights'[u] : \E f \in flights[u] : f.token = g.token /\ f.answer = g.answer
  BY <1>1, <1>3
<1>8. \A u \in Tabs : \A f \in flights[u] : \E g \in flights'[u] : f.token = g.token /\ f.answer = g.answer
  BY <1>1, <1>3
<1>9. RoomFits'
  BY <1>7 DEF TabsSound, RoomFits
<1>10. Calm' => InStep'
  <2> SUFFICES ASSUME Calm' PROVE InStep'
    OBVIOUS
  <2>1. Calm /\ InStep
    BY CalmBefore DEF TabsSound
  <2>2. \A u \in Tabs : \A g \in flights'[u] : FlightFits(u, g)'
    BY <2>1, <1>7 DEF InStep, FlightFits
  <2>3. current' = stored' \/ \E u \in Tabs : \E g \in flights'[u] : g.answer = "new"
    <3>1. CASE current = stored
      BY <3>1
    <3>2. CASE \E u \in Tabs : \E f \in flights[u] : f.answer = "new"
      <4>1. PICK u \in Tabs : \E f \in flights[u] : f.answer = "new"
        BY <3>2
      <4>2. PICK f \in flights[u] : f.answer = "new"
        BY <4>1
      <4>3. PICK g \in flights'[u] : f.token = g.token /\ f.answer = g.answer
        BY <1>8
      <4> QED BY <4>2, <4>3
    <3> QED BY <2>1, <3>1, <3>2 DEF InStep
  <2> QED BY <2>1, <2>2, <2>3 DEF InStep, InApp
<1> QED BY <1>5, <1>6, <1>9, <1>10 DEF TabsSound

LEMMA RotateSound ==
  ASSUME TabsSound, NEW t \in Tabs, NEW f \in flights[t], Rotates(t, f)
  PROVE  TabsSound'
<1>1. f \in Flight /\ flights[t] = {f} /\ f.answer = "none"
  BY DEF TabsSound, TabTypes, OneFlight, Rotates
<1>2. UNCHANGED <<stored, page, presented, excused>>
  BY DEF Rotates
<1>3. PICK g \in Flight :
        /\ flights' = [flights EXCEPT ![t] = {g}]
        /\ g.token = f.token
        /\ \/ g.answer = "new" /\ f.token = current /\ current < MaxTokens /\ current' = current + 1
           \/ g.answer = "refused" /\ f.token # current /\ current' = current
  <2>1. CASE f.token = current
    <3> DEFINE g == [f EXCEPT !.answer = "new"]
    <3>1. g \in Flight /\ g.token = f.token /\ g.answer = "new"
      BY <1>1 DEF Flight
    <3>2. flights' = [flights EXCEPT ![t] = {g}]
      BY <1>1, <2>1 DEF Rotates
    <3> QED BY <2>1, <3>1, <3>2 DEF Rotates
  <2>2. CASE f.token # current
    <3> DEFINE g == [f EXCEPT !.answer = "refused"]
    <3>1. g \in Flight /\ g.token = f.token /\ g.answer = "refused"
      BY <1>1 DEF Flight
    <3>2. flights' = [flights EXCEPT ![t] = {g}]
      BY <1>1, <2>2 DEF Rotates
    <3> QED BY <2>2, <3>1, <3>2 DEF Rotates
  <2> QED BY <2>1, <2>2
<1>4. /\ flights \in [Tabs -> SUBSET Flight]
      /\ flights'[t] = {g} /\ \A u \in Tabs \ {t} : flights'[u] = flights[u]
  BY <1>3 DEF TabsSound, TabTypes
<1>5. TabTypes'
  <2>1. flights' \in [Tabs -> SUBSET Flight] /\ current' \in 0..MaxTokens
    BY <1>3, <1>4, TabSessionAssumption DEF TabsSound, TabTypes
  <2> QED BY <2>1, <1>2 DEF TabsSound, TabTypes
<1>6. (OneFlight /\ RoomFits)'
  BY <1>3, <1>4 DEF TabsSound, OneFlight, RoomFits
<1>7. Calm' => InStep'
  <2> SUFFICES ASSUME Calm' PROVE InStep'
    OBVIOUS
  <2>1. Calm /\ InStep
    BY <1>2, CalmBefore DEF TabsSound
  <2>2. f.token = stored /\ <<t, stored>> \in presented /\ current = stored
    BY <1>1, <2>1 DEF InStep, FlightFits
  <2>3. \A u \in Tabs \ {t} : flights[u] = {}
    BY <2>1, AloneInFlight DEF TabsSound
  <2>4. g.answer = "new" /\ current' = stored' + 1
    BY <1>2, <1>3, <2>2
  <2>5. \A u \in Tabs : \A h \in flights'[u] : u = t /\ h = g
    BY <1>4, <2>3
  <2>6. \A u \in Tabs : \A h \in flights'[u] : FlightFits(u, h)'
    BY <1>2, <1>3, <2>2, <2>4, <2>5 DEF FlightFits
  <2> QED BY <1>2, <1>4, <2>1, <2>4, <2>6 DEF InStep, InApp
<1> QED BY <1>5, <1>6, <1>7 DEF TabsSound

LEMMA RefreshedSound ==
  ASSUME TabsSound, NEW t \in Tabs, NEW f \in flights[t], Refreshed(t, f)
  PROVE  TabsSound'
<1>1. f \in Flight /\ flights[t] = {f} /\ f.answer = "new" /\ f.token < MaxTokens
  BY DEF TabsSound, TabTypes, OneFlight, RoomFits, Refreshed
<1>2. UNCHANGED <<current, page, presented, excused>> /\ stored' = f.token + 1
  BY DEF Refreshed
<1>3. /\ flights \in [Tabs -> SUBSET Flight]
      /\ flights' = [flights EXCEPT ![t] = {}]
  BY <1>1 DEF TabsSound, TabTypes, Refreshed
<1>4. stored' \in 0..MaxTokens
  BY <1>1, <1>2, TabSessionAssumption DEF Flight
<1>5. TabTypes'
  BY <1>2, <1>3, <1>4 DEF TabsSound, TabTypes
<1>6. (OneFlight /\ RoomFits)'
  BY <1>3 DEF TabsSound, OneFlight, RoomFits
<1>7. Calm' => InStep'
  <2> SUFFICES ASSUME Calm' PROVE InStep'
    OBVIOUS
  <2>1. Calm /\ InStep
    BY <1>2, CalmBefore DEF TabsSound
  <2>2. f.token = stored /\ current = stored + 1
    BY <1>1, <2>1 DEF InStep, FlightFits
  <2>3. \A u \in Tabs \ {t} : flights[u] = {}
    BY <2>1, AloneInFlight DEF TabsSound
  <2>4. \A u \in Tabs : flights'[u] = {}
    BY <1>3, <2>3
  <2>5. stored' >= 1
    BY <1>1, <1>2 DEF Flight
  <2> QED BY <1>2, <2>1, <2>2, <2>4, <2>5 DEF InStep, InApp
<1> QED BY <1>5, <1>6, <1>7 DEF TabsSound

-----------------------------------------------------------------------------

LEMMA TabSoundNext == TabsSound /\ [TabNext]_sessionVars => TabsSound'
<1> SUFFICES ASSUME TabsSound, [TabNext]_sessionVars PROVE TabsSound'
  OBVIOUS
\* Steps that change nothing the invariant reads.
<1>1. ASSUME UNCHANGED <<current, stored, flights, page, presented, excused>>
      PROVE TabsSound'
  BY <1>1 DEF TabsSound, TabTypes, OneFlight, RoomFits, InStep, InApp, FlightFits, Calm, Contested
<1>2. CASE UNCHANGED sessionVars
  BY <1>1, <1>2 DEF sessionVars
<1>3. CASE Revoked
  <2>1. TabTypes' /\ (OneFlight /\ RoomFits)' /\ excused'
    BY <1>3, TabSessionAssumption DEF Revoked, TabsSound, TabTypes, OneFlight, RoomFits
  <2> QED BY <2>1 DEF TabsSound, Calm
<1>4. ASSUME NEW n \in 1..MaxTokens, ExpireAccess(n) PROVE TabsSound'
  BY <1>1, <1>4 DEF ExpireAccess
<1>5. ASSUME NEW t \in Tabs, ReloadTab(t) PROVE TabsSound'
  <2>1. CASE stored = 0
    <3>1. excused' \in BOOLEAN /\ (Calm' => Calm /\ InStep)
      BY <1>5, CalmBefore DEF ReloadTab, TabsSound, TabTypes
    <3>2. excused' = TRUE \/ ~Calm'
      BY <2>1, <3>1 DEF InStep
    <3>3. CASE excused' = TRUE
      BY <1>5, <2>1, <3>3, SignOutSound DEF ReloadTab
    <3>4. CASE ~Calm'
      <4>1. /\ stored' \in 0..MaxTokens /\ page' \in [Tabs -> {"app", "login"}]
            /\ flights' \in [Tabs -> SUBSET Flight] /\ UNCHANGED <<current, presented>>
            /\ \A u \in Tabs : flights'[u] \subseteq flights[u]
        BY <1>5, <2>1, TabSessionAssumption DEF ReloadTab, SignOut, TabsSound, TabTypes
      <4>2. TabTypes'
        BY <3>1, <4>1 DEF TabsSound, TabTypes
      <4>3. (OneFlight /\ RoomFits)'
        BY <4>1 DEF TabsSound, OneFlight, RoomFits
      <4> QED BY <3>4, <4>2, <4>3 DEF TabsSound
    <3> QED BY <3>2, <3>3, <3>4
  <2>2. CASE stored # 0
    <3>1. /\ UNCHANGED <<current, stored, page, presented>>
          /\ flights' = [flights EXCEPT ![t] = {}]
          /\ excused' = (excused \/ flights[t] # {})
      BY <1>5, <2>2 DEF ReloadTab
    <3>2. flights' \in [Tabs -> SUBSET Flight] /\ \A u \in Tabs : flights'[u] \subseteq flights[u]
      BY <3>1 DEF TabsSound, TabTypes
    <3>3. TabTypes' /\ (OneFlight /\ RoomFits)'
      <4>1. excused' \in BOOLEAN
        BY <3>1 DEF TabsSound, TabTypes
      <4> QED BY <3>1, <3>2, <4>1 DEF TabsSound, TabTypes, OneFlight, RoomFits
    <3>4. Calm' => InStep'
      <4> SUFFICES ASSUME Calm' PROVE InStep'
        OBVIOUS
      <4>1. Calm /\ InStep /\ flights[t] = {}
        BY <3>1, CalmBefore DEF TabsSound, Calm
      <4>2. flights' = flights
        BY <3>1, <4>1 DEF TabsSound, TabTypes
      <4> QED BY <3>1, <4>1, <4>2 DEF InStep, InApp, FlightFits
    <3> QED BY <3>3, <3>4 DEF TabsSound
  <2> QED BY <2>1, <2>2
<1>6. ASSUME NEW t \in Tabs, HandleLogout(t) PROVE TabsSound'
  BY <1>6, SignOutSound DEF HandleLogout
<1>7. ASSUME NEW t \in Tabs, NEW k \in Calls, Send(t, k) PROVE TabsSound'
  BY <1>1, <1>7 DEF Send
<1>8. ASSUME NEW t \in Tabs, NEW k \in Calls, Answer(t, k) PROVE TabsSound'
  BY <1>1, <1>8 DEF Answer
<1>9. ASSUME NEW t \in Tabs, NEW k \in Calls, Lost(t, k) PROVE TabsSound'
  <2>1. CASE k = Guard
    BY <1>9, <2>1, SignOutSound DEF Lost
  <2>2. CASE k # Guard
    BY <1>1, <1>9, <2>2 DEF Lost
  <2> QED BY <2>1, <2>2
<1>10. ASSUME NEW t \in Tabs, NEW k \in Calls, Denied(t, k) PROVE TabsSound'
  <2>1. UNCHANGED <<current, excused>>
    BY <1>10 DEF Denied
  <2>2. CASE Joined(t) # {} /\ flights' = [flights EXCEPT ![t] = {[f EXCEPT !.callers = @ \cup {k}] : f \in flights[t]}]
             /\ UNCHANGED <<stored, page, presented>>
    BY <2>1, <2>2, JoinSound
  <2>3. CASE Joined(t) = {} /\ stored # 0
             /\ flights' = [flights EXCEPT ![t] = @ \cup {[token |-> stored, answer |-> "none", callers |-> {k}]}]
             /\ presented' = presented \cup {<<t, stored>>} /\ UNCHANGED <<stored, page>>
    BY <2>1, <2>3, StartSound DEF Joined
  <2>4. CASE stored = 0 /\ SignOut(t) /\ UNCHANGED presented
    <3>1. ~Calm'
      BY <2>1, <2>4, CalmBefore DEF TabsSound, InStep
    <3>2. /\ stored' \in 0..MaxTokens /\ page' \in [Tabs -> {"app", "login"}]
          /\ flights' \in [Tabs -> SUBSET Flight]
          /\ \A u \in Tabs : flights'[u] \subseteq flights[u]
      BY <2>4, TabSessionAssumption DEF SignOut, TabsSound, TabTypes
    <3>3. TabTypes' /\ (OneFlight /\ RoomFits)'
      BY <2>1, <2>4, <3>2 DEF TabsSound, TabTypes, OneFlight, RoomFits
    <3> QED BY <3>1, <3>3 DEF TabsSound
  <2> QED BY <1>10, <2>2, <2>3, <2>4 DEF Denied
<1>11. ASSUME NEW t \in Tabs, NEW f \in flights[t], Rotates(t, f) PROVE TabsSound'
  BY <1>11, RotateSound
<1>12. ASSUME NEW t \in Tabs, NEW f \in flights[t], Refreshed(t, f) PROVE TabsSound'
  BY <1>12, RefreshedSound
<1>13. ASSUME NEW t \in Tabs, NEW f \in flights[t], RefreshFails(t, f) PROVE TabsSound'
  <2>1. SignOut(t) /\ UNCHANGED <<current, presented>> /\ excused' = (excused \/ f.answer # "refused")
    BY <1>13 DEF RefreshFails
  <2>2. excused' \in BOOLEAN
    BY <2>1 DEF TabsSound, TabTypes
  <2>3. ~Calm'
    <3>1. Calm' => Calm /\ InStep /\ f.answer = "refused"
      BY <2>1, CalmBefore DEF TabsSound, Calm
    <3> QED BY <3>1 DEF InStep, FlightFits
  <2>4. /\ stored' \in 0..MaxTokens /\ page' \in [Tabs -> {"app", "login"}]
        /\ flights' \in [Tabs -> SUBSET Flight]
        /\ \A u \in Tabs : flights'[u] \subseteq flights[u]
    BY <2>1, TabSessionAssumption DEF SignOut, TabsSound, TabTypes
  <2>5. TabTypes' /\ (OneFlight /\ RoomFits)'
    BY <2>1, <2>2, <2>4 DEF TabsSound, TabTypes, OneFlight, RoomFits
  <2> QED BY <2>3, <2>5 DEF TabsSound
<1> QED BY <1>2, <1>3, <1>4, <1>5, <1>6, <1>7, <1>8, <1>9, <1>10, <1>11, <1>12, <1>13 DEF TabNext

\* In every browser, of any number of tabs: the tokens of the browser are in
\* step with the rotation of the server (attemptTokenRefresh,
\* RotateRefreshToken).
THEOREM TabsSoundAlways == TabSpec => []TabsSound
<1> QED BY TabSoundInit, TabSoundNext, PTL DEF TabSpec

\* A tab is signed out only when the session was ended, a call was cut off or
\* two tabs presented one refresh token (attemptTokenRefresh, the 401 retry).
THEOREM StaysInAlways == TabSpec => []StaysIn
<1>1. TabsSound => StaysIn
  BY DEF TabsSound, Calm, InStep, StaysIn
<1> QED BY <1>1, TabsSoundAlways, PTL

-----------------------------------------------------------------------------
(* Inbox.                                                                  *)

RowStates == {"unborn", "unread", "read", "deleted"}
Shows == {"unknown", "none", "unread", "read"}
Lists == [Notes -> Shows]
Ops == {"read", "all", "delete"}
Mutation == [at : {"clicked", "sent", "done", "refused", "late"}, op : Ops,
             note : Notes \cup {"any"}, prev : Lists]
Fetch == [at : {"asked", "read"}, list : Lists, moved : BOOLEAN]

InboxTypes ==
  /\ rows \in [Notes -> RowStates] /\ cache \in Lists
  /\ fetch \in Fetch \cup {NoFetch} /\ invalid \in BOOLEAN /\ moved \in BOOLEAN
  /\ click \in [Clicks -> Mutation \cup {NoClick}]

\* A list that was read, or is shown and not marked for another fetch, is the
\* rows, unless a click is under way or others changed them since.
NoneActive == \A c \in Clicks : click[c].at \in {"none", "late"}
ReadTrue == fetch.at = "read" /\ ~fetch.moved => fetch.list = Visible(rows)
ShownTrue == fetch = NoFetch /\ ~invalid /\ ~moved => cache = Visible(rows)
InboxSound == InboxTypes /\ (NoneActive => ReadTrue /\ ShownTrue)

LEMMA FetchStages ==
  /\ Asked \in Fetch /\ Asked # NoFetch /\ Asked.at = "asked" /\ NoFetch.at = "none"
  /\ \A f \in Fetch : f # NoFetch
  /\ NoList \in Lists
<1>1. \A f \in Fetch : f # NoFetch
  BY DEF Fetch, NoFetch
<1>2. NoList \in Lists
  BY DEF NoList, Lists, Shows
<1>3. Asked \in Fetch
  BY <1>2 DEF Asked, Fetch
<1> QED BY <1>1, <1>2, <1>3 DEF Asked, NoFetch

LEMMA ClickStages ==
  /\ NoClick.at = "none"
  /\ \A q \in Mutation : \A a \in {"sent", "done", "refused", "late"} :
       [q EXCEPT !.at = a] \in Mutation /\ [q EXCEPT !.at = a].at = a
BY DEF NoClick, Mutation

\* A row stays a row under every operation, and so does what is shown of it.
LEMMA AfterTypes ==
  ASSUME NEW op \in Ops, NEW n
  PROVE  /\ \A m \in [Notes -> RowStates] : After(op, n, m) \in [Notes -> RowStates]
         /\ \A m \in Lists : Visible(After(op, n, m)) \in Lists
         /\ \A m \in [Notes -> RowStates] : Visible(m) \in Lists
<1>1. \A m \in [Notes -> RowStates] : After(op, n, m) \in [Notes -> RowStates]
  BY DEF Ops, After, Read, ReadAll, RowStates
<1>2. \A m \in Lists : After(op, n, m) \in [Notes -> Shows \cup {"deleted"}]
  BY DEF Ops, After, Read, ReadAll, Lists, Shows
<1>3. \A m \in [Notes -> Shows \cup {"deleted"}] : Visible(m) \in Lists
  BY DEF Visible, Lists, Shows
<1>4. \A m \in [Notes -> RowStates] : Visible(m) \in Lists
  BY DEF Visible, Lists, Shows, RowStates
<1> QED BY <1>1, <1>2, <1>3, <1>4

LEMMA InboxSoundInit == InboxInit => InboxSound
<1> SUFFICES ASSUME InboxInit PROVE InboxSound
  OBVIOUS
<1>1. InboxTypes
  BY FetchStages DEF InboxInit, InboxTypes, RowStates
<1>2. ReadTrue /\ ShownTrue
  BY FetchStages DEF InboxInit, ReadTrue, ShownTrue
<1> QED BY <1>1, <1>2 DEF InboxSound

\* Others change the rows: what was read or is shown is marked as moved.
LEMMA OthersSound ==
  ASSUME InboxSound, ByOthers, rows' \in [Notes -> RowStates], UNCHANGED <<cache, invalid>>,
         click' \in [Clicks -> Mutation \cup {NoClick}]
  PROVE  InboxSound'
<1>1. CASE fetch.at = "read"
  <2>1. fetch \in Fetch
    BY <1>1, FetchStages DEF InboxSound, InboxTypes
  <2>2. fetch' \in Fetch /\ fetch'.moved
    BY <1>1, <2>1 DEF ByOthers, Fetch
  <2>3. InboxTypes'
    BY <2>2 DEF InboxSound, InboxTypes, ByOthers
  <2> QED BY <2>2, <2>3 DEF InboxSound, ReadTrue, ShownTrue, ByOthers
<1>2. CASE fetch.at # "read"
  <2>1. fetch' = fetch /\ moved' = TRUE
    BY <1>2 DEF ByOthers
  <2>2. InboxTypes'
    BY <2>1 DEF InboxSound, InboxTypes
  <2> QED BY <1>2, <2>1, <2>2 DEF InboxSound, ReadTrue, ShownTrue
<1> QED BY <1>1, <1>2

\* A click under way: nothing is said of the list.
LEMMA ActiveSound ==
  ASSUME InboxTypes', NEW c \in Clicks, click'[c].at \notin {"none", "late"}
  PROVE  InboxSound'
BY DEF InboxSound, NoneActive

\* The list is asked for again: nothing is said of it until it is read.
LEMMA AskedSound ==
  ASSUME InboxTypes', fetch' = Asked
  PROVE  InboxSound'
BY FetchStages DEF InboxSound, ReadTrue, ShownTrue

LEMMA ClickSound ==
  ASSUME InboxSound, NEW c \in Clicks, NEW op \in Ops, NEW n \in Notes \cup {"any"}, Click(c, op, n)
  PROVE  InboxSound'
<1> DEFINE q == [at |-> "clicked", op |-> op, note |-> n, prev |-> NoList]
<1>1. q \in Mutation /\ q.at = "clicked"
  BY FetchStages DEF Mutation
<1>2. click' = [click EXCEPT ![c] = q] /\ fetch' = NoFetch /\ UNCHANGED <<rows, cache, invalid, moved>>
  BY DEF Click
<1> HIDE DEF q
<1>3. InboxTypes'
  BY <1>1, <1>2 DEF InboxSound, InboxTypes
<1>4. click'[c] = q
  BY <1>2 DEF InboxSound, InboxTypes
<1> QED BY <1>1, <1>3, <1>4, ActiveSound

LEMMA SendSound ==
  ASSUME InboxSound, NEW c \in Clicks, SendClick(c)
  PROVE  InboxSound'
<1> DEFINE q == [click[c] EXCEPT !.at = "sent", !.prev = cache]
<1>1. click[c] \in Mutation
  BY ClickStages DEF SendClick, InboxSound, InboxTypes
<1>2. q \in Mutation /\ q.at = "sent"
  BY <1>1 DEF InboxSound, InboxTypes, Mutation
<1>3. click' = [click EXCEPT ![c] = q] /\ UNCHANGED <<rows, fetch, moved>>
  BY DEF SendClick
<1> HIDE DEF q
<1>4. cache' \in Lists /\ invalid' \in BOOLEAN
  <2>1. click[c].op \in Ops
    BY <1>1 DEF Mutation
  <2>2. Visible(After(click[c].op, click[c].note, cache)) \in Lists
    BY <2>1, AfterTypes DEF InboxSound, InboxTypes
  <2> QED BY <2>2 DEF SendClick, InboxSound, InboxTypes
<1>5. InboxTypes'
  BY <1>2, <1>3, <1>4 DEF InboxSound, InboxTypes
<1>6. click'[c] = q
  BY <1>3 DEF InboxSound, InboxTypes
<1> QED BY <1>2, <1>5, <1>6, ActiveSound

LEMMA InboxSoundNext == InboxSound /\ [InboxNext]_inboxVars => InboxSound'
<1> SUFFICES ASSUME InboxSound, [InboxNext]_inboxVars PROVE InboxSound'
  OBVIOUS
<1>0. CASE UNCHANGED inboxVars
  BY <1>0 DEF inboxVars, InboxSound, InboxTypes, NoneActive, ReadTrue, ShownTrue
<1>1. CASE List
  <2>1. Visible(rows) \in Lists
    BY AfterTypes DEF Ops, InboxSound, InboxTypes
  <2>2. fetch' \in Fetch /\ fetch'.list = Visible(rows)
    BY <1>1, <2>1 DEF List, Fetch
  <2>3. InboxTypes'
    BY <1>1, <2>2 DEF List, InboxSound, InboxTypes
  <2>4. fetch' # NoFetch
    BY <2>2, FetchStages
  <2> QED BY <1>1, <2>2, <2>3, <2>4 DEF List, InboxSound, ReadTrue, ShownTrue
<1>2. CASE Listed
  <2>1. fetch \in Fetch
    BY <1>2, FetchStages DEF Listed, InboxSound, InboxTypes
  <2>2. InboxTypes'
    BY <1>2, <2>1 DEF Listed, InboxSound, InboxTypes, Fetch
  <2>3. NoneActive' => ReadTrue' /\ ShownTrue'
    BY <1>2, FetchStages DEF Listed, InboxSound, NoneActive, ReadTrue, ShownTrue
  <2> QED BY <2>2, <2>3 DEF InboxSound
<1>3. CASE ListFails
  <2>1. InboxTypes'
    BY <1>3 DEF ListFails, InboxSound, InboxTypes
  <2> QED BY <1>3, <2>1, FetchStages DEF ListFails, InboxSound, ReadTrue, ShownTrue
<1>4. CASE Refetch
  <2>1. InboxTypes'
    BY <1>4, FetchStages DEF Refetch, Invalidate, InboxSound, InboxTypes
  <2> QED BY <1>4, <2>1, AskedSound DEF Refetch, Invalidate
<1>5. ASSUME NEW op \in Ops, NEW n, Elsewhere(op, n) PROVE InboxSound'
  <2>1. rows' \in [Notes -> RowStates]
    BY <1>5, AfterTypes DEF Elsewhere, InboxSound, InboxTypes
  <2>2. click' \in [Clicks -> Mutation \cup {NoClick}]
    BY <1>5 DEF Elsewhere, InboxSound, InboxTypes
  <2> QED BY <1>5, <2>1, <2>2, OthersSound DEF Elsewhere
<1>6. ASSUME NEW n \in Notes, Arrives(n) PROVE InboxSound'
  <2>1. rows' \in [Notes -> RowStates]
    BY <1>6 DEF Arrives, InboxSound, InboxTypes, RowStates
  <2>2. click' \in [Clicks -> Mutation \cup {NoClick}]
    BY <1>6 DEF Arrives, InboxSound, InboxTypes
  <2> QED BY <1>6, <2>1, <2>2, OthersSound DEF Arrives
<1>7. ASSUME NEW c \in Clicks, Serve(c) PROVE InboxSound'
  <2>1. click[c] \in Mutation
    BY <1>7, ClickStages DEF Serve, InboxSound, InboxTypes
  <2>2. PICK a \in {"done", "refused"} : click' = [click EXCEPT ![c].at = a]
    BY <1>7 DEF Serve
  <2>3. click'[c] = [click[c] EXCEPT !.at = a] /\ click' \in [Clicks -> Mutation \cup {NoClick}]
    BY <2>1, <2>2, ClickStages DEF InboxSound, InboxTypes
  <2>4. rows' \in [Notes -> RowStates]
    <3>1. click[c].op \in Ops
      BY <2>1 DEF Mutation
    <3> QED BY <1>7, <3>1, AfterTypes DEF Serve, InboxSound, InboxTypes
  <2>5. InboxTypes'
    BY <1>7, <2>3, <2>4 DEF Serve, InboxSound, InboxTypes
  <2>6. click'[c].at \notin {"none", "late"}
    BY <2>1, <2>2, <2>3, ClickStages
  <2> QED BY <2>5, <2>6, ActiveSound
<1>8. ASSUME NEW c \in Clicks, Succeeds(c) PROVE InboxSound'
  <2>1. InboxTypes'
    BY <1>8, FetchStages DEF Succeeds, OnSettled, Invalidate, InboxSound, InboxTypes
  <2> QED BY <1>8, <2>1, AskedSound DEF Succeeds, OnSettled, Invalidate
<1>9. ASSUME NEW c \in Clicks, Fails(c) PROVE InboxSound'
  <2>1. click[c] \in Mutation
    BY <1>9, ClickStages DEF Fails, InboxSound, InboxTypes
  <2>2. cache' \in Lists
    <3>1. click[c].prev \in Lists
      BY <2>1 DEF Mutation
    <3> QED BY <1>9, <3>1 DEF Fails, RollBack, InboxSound, InboxTypes
  <2>3. click' \in [Clicks -> Mutation \cup {NoClick}]
    BY <1>9, <2>1, ClickStages DEF Fails, InboxSound, InboxTypes
  <2>4. InboxTypes'
    BY <1>9, <2>2, <2>3, FetchStages DEF Fails, OnSettled, Invalidate, InboxSound, InboxTypes
  <2> QED BY <1>9, <2>4, AskedSound DEF Fails, OnSettled, Invalidate
<1>10. ASSUME NEW c \in Clicks, ServedLate(c) PROVE InboxSound'
  <2>1. click[c] \in Mutation
    BY <1>10, ClickStages DEF ServedLate, InboxSound, InboxTypes
  <2>2. click' \in [Clicks -> Mutation \cup {NoClick}] /\ UNCHANGED <<cache, invalid>>
    BY <1>10 DEF ServedLate, InboxSound, InboxTypes
  <2>3. CASE Matched(click[c].op, click[c].note, rows)
    <3>1. click[c].op \in Ops
      BY <2>1 DEF Mutation
    <3>2. rows' \in [Notes -> RowStates] /\ ByOthers
      BY <1>10, <2>3, <3>1, AfterTypes DEF ServedLate, InboxSound, InboxTypes
    <3> QED BY <2>2, <3>2, OthersSound
  <2>4. CASE ~Matched(click[c].op, click[c].note, rows)
    <3>1. UNCHANGED <<rows, moved, fetch>>
      BY <1>10, <2>4 DEF ServedLate
    <3>2. InboxTypes'
      BY <2>2, <3>1 DEF InboxSound, InboxTypes
    <3>3. NoneActive' => NoneActive
      BY <1>10 DEF ServedLate, NoneActive, InboxSound, InboxTypes
    <3> QED BY <2>2, <3>1, <3>2, <3>3 DEF InboxSound, ReadTrue, ShownTrue
  <2> QED BY <2>3, <2>4
<1>11. ASSUME NEW c \in Clicks, NEW op \in Ops, NEW n \in Notes \cup {"any"}, Click(c, op, n)
       PROVE InboxSound'
  BY <1>11, ClickSound
<1>12. ASSUME NEW c \in Clicks, SendClick(c) PROVE InboxSound'
  BY <1>12, SendSound
<1> QED BY <1>0, <1>1, <1>2, <1>3, <1>4, <1>5, <1>6, <1>7, <1>8, <1>9, <1>10, <1>11, <1>12 DEF InboxNext, Ops

\* In every inbox: a list that was read, or is shown and not marked for
\* another fetch, is the rows, but for clicks under way and what others
\* changed since (cancelQueries, invalidateQueries).
THEOREM InboxSoundAlways == InboxSpec => []InboxSound
<1> QED BY InboxSoundInit, InboxSoundNext, PTL DEF InboxSpec

\* Whatever clicks overlapped and failed, the list at rest shows the rows, but
\* for what others changed (onMutate, onError, onSettled).
THEOREM InboxAlwaysTrue == InboxSpec => []InboxTrue
<1>1. InboxSound => InboxTrue
  BY DEF InboxSound, NoneActive, ShownTrue, InboxTrue, Quiet
<1> QED BY <1>1, InboxSoundAlways, PTL

-----------------------------------------------------------------------------
(* Scoreboard.                                                             *)

Sides == {"home", "away", "none"}
Event == [id : Nat \ {0}, type : PointTypes \cup FlatTypes \cup MutedTypes,
          team : Sides, player : Sides,
          amount : Amount,
          out : Sides, cancels : Nat]

\* What was recorded has passed the checks at the write: an amount that the
\* type reads is a positive integer.
SheetSound == sheet \in Seq(Event) /\ \A i \in 1..Len(sheet) : PayloadValid(sheet[i])

\* A stored result is the fold of the log it was stored with.
ResultSound == /\ result = NoResult \/ result = [winner |-> result.winner, score |-> result.score]
               /\ ResultFromLog

LEMMA NewEventsTyped ==
  ASSUME sheet \in Seq(Event), NEW e \in NewEvents
  PROVE  e \in Event
<1>1. Len(sheet) \in Nat
  OBVIOUS
<1>2. PICK t \in EventTypes :
        e \in [id : {Len(sheet) + 1}, type : {t},
               team : IF t \in Unattributed THEN {"none"} ELSE {"home", "away", "none"},
               player : IF t \in Unattributed THEN {"none"} ELSE {"home", "away", "none"},
               amount : IF t \in PointTypes THEN Amounts ELSE {NoAmount},
               out : IF t = "all_out" THEN {"home", "away", "none"} ELSE {"none"},
               cancels : IF t = "score_correction" THEN 0..Len(sheet) ELSE {0}]
  BY DEF NewEvents
<1>3. t \in PointTypes \cup FlatTypes \cup MutedTypes
      /\ Amounts \subseteq Amount
  BY ScoreboardAssumption
<1>4. e.id \in Nat \ {0} /\ e.type \in PointTypes \cup FlatTypes \cup MutedTypes
  BY <1>1, <1>2, <1>3
<1>8. e.team \in Sides /\ e.player \in Sides /\ e.out \in Sides
  BY <1>2 DEF Sides
<1>5. e.amount \in Amount
  <2>1. e.amount \in IF t \in PointTypes THEN Amounts ELSE {NoAmount}
    BY <1>2
  <2>2. NoAmount \in Amount
    BY DEF NoAmount, Amount
  <2> QED BY <1>3, <2>1, <2>2
<1>6. e.cancels \in Nat
  BY <1>1, <1>2
<1>7. e = [id |-> e.id, type |-> e.type, team |-> e.team, player |-> e.player,
           amount |-> e.amount, out |-> e.out, cancels |-> e.cancels]
  BY <1>2
<1> QED BY <1>4, <1>5, <1>6, <1>7, <1>8 DEF Event

\* Integers that fit are left alone.
LEMMA Fits ==
  ASSUME NEW n, NEW most \in Nat, n \in 0..most
  PROVE  Wrapped(n, most) = n
<1>1. /\ n \in Int /\ n + most + 1 \in 0..(2 * (most + 1) - 1)
      /\ 2 * (most + 1) \in Int /\ 2 * (most + 1) > 0
  OBVIOUS
<1>2. \A x, k \in Int : k > 0 /\ 0 <= x /\ x < k => x % k = x
  OBVIOUS
<1>3. (n + most + 1) % (2 * (most + 1)) = n + most + 1
  BY <1>1, <1>2
<1> QED BY <1>1, <1>3 DEF Wrapped

LEMMA Widths ==
  MaxInt32 \in Nat /\ MaxExact \in Nat /\ MaxInt \in Nat /\ MaxInt32 < MaxExact /\ MaxExact < MaxInt
BY ScoreboardAssumption

LEMMA FitsDouble == ASSUME NEW n, n \in 0..MaxExact PROVE Double(n) = n
<1>1. n <= MaxExact
  BY Widths
<1> QED BY <1>1 DEF Double

\* One event under the exact keys whose amount a double holds: Go and the page
\* give it the same points and the same side.
LEMMA SamePoints ==
  ASSUME NEW e \in Event, PayloadValid(e), e.amount.key = "exact", e.amount.value <= MaxExact
  PROVE  Contribution(e) = PointsForEvent(e)
<1>1. CASE e.type \in PointTypes
  <2>1. PointsForEvent(e) = PayloadPoints(e) /\ Contribution(e) = NumberOf(e)
    BY <1>1 DEF PointsForEvent, Contribution, PointTypes, FlatTypes
  <2>2. PayloadPoints(e) > 0
    BY <1>1 DEF PayloadValid
  <2>3. e.amount.value \in 1..MaxInt /\ PayloadPoints(e) = e.amount.value
    BY <2>2 DEF PayloadPoints
  <2>4. e.amount.value \in 0..MaxExact
    BY <2>3, Widths
  <2>5. Double(e.amount.value) = e.amount.value
    BY <2>4, FitsDouble
  <2> QED BY <2>1, <2>3, <2>5 DEF NumberOf
<1>2. CASE e.type \in FlatTypes
  <2>1. CASE e.type = "super_tackle"
    BY <2>1 DEF Contribution, PointsForEvent, PointTypes, FlatTypes
  <2>2. CASE e.type \in {"bonus_point_awarded", "tackle_successful"}
    BY <2>2 DEF Contribution, PointsForEvent, PointTypes, FlatTypes
  <2> QED BY <1>2, <2>1, <2>2 DEF FlatTypes
<1>3. CASE e.type \in MutedTypes
  BY <1>3 DEF Contribution, PointsForEvent, PointTypes, FlatTypes, MutedTypes
<1> QED BY <1>1, <1>2, <1>3 DEF Event

LEMMA SameSide ==
  ASSUME NEW e \in Event, NEW m
  PROVE  ContributionSide(m, e) = SideOfEvent(m, e)
<1>1. e.out \in Sides
  BY DEF Event
<1>2. AllOutSide(e) = Opponent[e.out]
  BY <1>1 DEF AllOutSide, Opponent, Sides
<1> QED BY <1>2 DEF ContributionSide, SideOfEvent

\* The page leaves out the cancelled events it collected, the database those
\* that some event cancels.
LEMMA SameEvents ==
  ASSUME NEW l \in Seq(Event)
  PROVE  EffectiveEvents(l) = {e \in ToSet(l) : e.id \notin CancelledEventIds(l)}
<1>1. \A e \in ToSet(l) : e \in Event
  BY DEF ToSet
<1>2. \A e \in ToSet(l) : e.id # 0
  BY <1>1 DEF Event
<1> QED BY <1>2 DEF EffectiveEvents, CancelledEventIds

\* The two folds agree on every log whose events passed the checks, as far as
\* its keys and its numbers let them.
LEMMA SameScore ==
  ASSUME NEW m, NEW l \in Seq(Event), \A i \in 1..Len(l) : PayloadValid(l[i]),
         \A e \in ToSet(l) : e.amount.key = "exact" /\ e.amount.value <= MaxExact,
         \A s \in {"home", "away"} : PageSum(m, l, s) \in 0..MaxExact
  PROVE  ComputeScore(m, l) = Compute(m, l)
<1> DEFINE counting == {e \in ToSet(l) : e.id \notin CancelledEventIds(l)}
           Go(s) == [e \in {x \in EffectiveEvents(l) : SideOfEvent(m, x) = s} |-> PointsForEvent(e)]
           Page(s) == [e \in {x \in counting : ContributionSide(m, x) = s} |-> Contribution(e)]
<1>1. counting = EffectiveEvents(l)
  BY SameEvents
<1>2. \A e \in counting : e \in Event /\ PayloadValid(e) /\ e.amount.key = "exact" /\ e.amount.value <= MaxExact
  BY DEF ToSet
<1>3. \A e \in counting : Contribution(e) = PointsForEvent(e) /\ ContributionSide(m, e) = SideOfEvent(m, e)
  BY <1>2, SamePoints, SameSide
<1>4. ASSUME NEW s PROVE Page(s) = Go(s)
  <2> HIDE DEF counting
  <2>1. {x \in counting : ContributionSide(m, x) = s} = {x \in EffectiveEvents(l) : SideOfEvent(m, x) = s}
    BY <1>1, <1>3
  <2> QED BY <1>1, <1>3, <2>1
<1>5. Page("home") = Go("home") /\ Page("away") = Go("away")
  BY <1>4
<1>6. \A s : PageSum(m, l, s) = Total(Page(s))
  BY DEF PageSum
<1>7. Compute(m, l) = [home |-> Wrapped(Total(Go("home")), MaxInt), away |-> Wrapped(Total(Go("away")), MaxInt)]
  BY DEF Compute
<1> HIDE DEF Page, Go
<1>8. ASSUME NEW s \in {"home", "away"}
      PROVE  Double(PageSum(m, l, s)) = Wrapped(Total(Go(s)), MaxInt)
  <2>1. PageSum(m, l, s) = Total(Go(s)) /\ PageSum(m, l, s) \in 0..MaxExact 
    BY <1>5, <1>6
  <2>2. MaxInt \in Nat /\ PageSum(m, l, s) \in 0..MaxInt
    BY <2>1, Widths
  <2> QED BY <2>1, <2>2, Fits, FitsDouble
<1> QED BY <1>7, <1>8 DEF ComputeScore

LEMMA SheetSoundNext == SheetSound /\ [ScoreNext]_scoreVars => SheetSound'
<1> SUFFICES ASSUME SheetSound, [ScoreNext]_scoreVars PROVE SheetSound'
  OBVIOUS
<1>1. CASE UNCHANGED scoreVars \/ LoadScore \/ CompleteMatch
  BY <1>1 DEF SheetSound, PayloadValid, PayloadPoints, scoreVars, LoadScore, CompleteMatch
<1>2. ASSUME NEW e \in NewEvents, CreateEvent(e) PROVE SheetSound'
  <2>1. e \in Event /\ PayloadValid(e) /\ sheet' = Append(sheet, e)
    BY <1>2, NewEventsTyped DEF CreateEvent, SheetSound
  <2>2. sheet' \in Seq(Event) /\ Len(sheet') = Len(sheet) + 1
    BY <2>1 DEF SheetSound
  <2>3. \A i \in 1..Len(sheet') : sheet'[i] = IF i = Len(sheet) + 1 THEN e ELSE sheet[i]
    BY <2>1 DEF SheetSound
  <2>4. \A i \in 1..Len(sheet') : PayloadValid(sheet'[i])
    BY <2>1, <2>2, <2>3 DEF SheetSound
  <2> QED BY <2>2, <2>4 DEF SheetSound
<1> QED BY <1>1, <1>2 DEF ScoreNext

LEMMA ResultSoundNext == ResultSound /\ [ScoreNext]_scoreVars => ResultSound'
<1> SUFFICES ASSUME ResultSound, [ScoreNext]_scoreVars PROVE ResultSound'
  OBVIOUS
<1>1. CASE UNCHANGED scoreVars \/ LoadScore
  BY <1>1 DEF ResultSound, ResultFromLog, Live, scoreVars, LoadScore
<1>2. ASSUME NEW e \in NewEvents, CreateEvent(e) PROVE ResultSound'
  BY <1>2 DEF ResultSound, ResultFromLog, Live, CreateEvent
<1>3. CASE CompleteMatch
  <2> DEFINE fold == Compute(format, sheet)
  <2>1. /\ result' = [winner |-> Leader(shown), score |-> Columns(fold)] /\ Leader(shown) = Leader(fold)
        /\ UNCHANGED <<format, sheet>>
    BY <1>3 DEF CompleteMatch, Snapshot
  <2>2. fold = [home |-> fold.home, away |-> fold.away]
    BY DEF Compute
  <2>3. fold' = fold
    BY <2>1
  <2> HIDE DEF fold
  <2>4. Holdable(fold) => Columns(fold) = fold
    <3> SUFFICES ASSUME Holdable(fold) PROVE Columns(fold) = fold
      OBVIOUS
    <3>1. fold.home \in 0..MaxInt32 /\ fold.away \in 0..MaxInt32 /\ MaxInt32 \in Nat
      BY Widths DEF Holdable
    <3>2. Wrapped(fold.home, MaxInt32) = fold.home /\ Wrapped(fold.away, MaxInt32) = fold.away
      BY <3>1, Fits
    <3> QED BY <2>2, <3>2 DEF Columns
  <2>5. result'.winner = Leader(fold) /\ (Holdable(fold) => result'.score = fold)
    BY <2>1, <2>4
  <2>6. ResultFromLog'
    BY <2>3, <2>5 DEF ResultFromLog, fold
  <2> QED BY <2>1, <2>6 DEF ResultSound
<1> QED BY <1>1, <1>2, <1>3 DEF ScoreNext

\* Every log holds only events that passed the checks at the write
\* (ValidateScoreEventPayload, CreateWithAudit).
THEOREM SheetAlwaysSound == ScoreSpec => []SheetSound
<1>1. ScoreInit => SheetSound
  BY DEF ScoreInit, SheetSound
<1> QED BY <1>1, SheetSoundNext, PTL DEF ScoreSpec

\* "this fold must produce the SAME score the backend derives": of every log, of
\* any length, whose keys are spelled as the page reads them, while a double
\* holds its amounts and sums (engine.ts, engine.go).
THEOREM ScoreAlwaysAgreed == ScoreSpec => []ScoreAgreed
<1>1. SheetSound => ScoreAgreed
  BY SameScore DEF SheetSound, ScoreAgreed, Spelled, Countable
<1> QED BY <1>1, SheetAlwaysSound, PTL

\* A completed match stores the winner by the fold of its whole log, and that
\* fold as long as an int32 holds it (UpdateWithAudit, LockMatchForUpdate).
THEOREM ResultAlwaysFromLog == ScoreSpec => []ResultFromLog
<1>1. ScoreInit => ResultSound
  BY DEF ScoreInit, ResultSound, ResultFromLog, Live
<1>2. ResultSound => ResultFromLog
  BY DEF ResultSound
<1> QED BY <1>1, <1>2, ResultSoundNext, PTL DEF ScoreSpec
=============================================================================

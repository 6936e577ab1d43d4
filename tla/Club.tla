-------------------------------- MODULE Club --------------------------------
(***************************************************************************)
(* Who belongs where: the owners of an organization (internal/members,     *)
(* internal/organizations), and the platform administrators (internal/     *)
(* users).                                                                 *)
(*                                                                         *)
(* Each rule counts rows that other requests change.  Only the deactivation*)
(* of a user takes a lock before it counts; the others count in one        *)
(* statement and write in a later transaction.                             *)
(***************************************************************************)
EXTENDS Naturals, FiniteSets

CONSTANTS Users, Admins,   \* Admins hold platform_admin, without expiry
          Staff            \* requests being served at the same time

ASSUME ClubAssumption == Admins \subseteq Users /\ Admins # {} /\ IsFiniteSet(Users)

VARIABLES
  org,     \* the organization: "none" yet, "there", "gone"
  grant,   \* per user: the org_owner grant in it
  status,  \* per user: users.status
  req,     \* per staff request: what it has checked and means to write
  crossed  \* history: the last revocation took effect although another one had
           \* since it counted

vars == <<org, grant, status, req, crossed>>

Grants == {"none", "permanent", "temporary", "expired"}
Idle == [kind |-> "idle"]
Owners == {u \in Users : grant[u] \in {"permanent", "temporary"}}
ActiveAdmins == {u \in Admins : status[u] = "active"}

Under(kind) == {s \in Staff : req[s].kind = kind}
Begin(s, q) == /\ req[s] = Idle
               /\ req' = [req EXCEPT ![s] = q]
               /\ UNCHANGED <<org, grant, status, crossed>>
Ends(s) == req' = [req EXCEPT ![s] = Idle]

-----------------------------------------------------------------------------
(* The organization and its owners.                                        *)

\* GrantRoleToUserInOrg of the creator.
CreatedBy(u) == [grant EXCEPT ![u] = "permanent"]

\* CreateWithOwnerGrant: the two statements.
OrgInserted == org = "none" /\ org' = "there"
CreateOrganization(u) ==
  /\ status[u] = "active"
  /\ OrgInserted /\ grant' = CreatedBy(u)
  /\ UNCHANGED <<status, req, crossed>>

\* GetOrganizationBySlug.
OrgFound == org = "there"

\* DeleteWithAudit: its grants go with the organization.
DeleteOrganization ==
  /\ OrgFound /\ org' = "gone"
  /\ grant' = [u \in Users |-> "none"]
  /\ UNCHANGED <<status, req, crossed>>

\* GrantOrgRole: ON CONFLICT DO NOTHING, on an expired grant as well.
GrantRole(u, g) ==
  /\ OrgFound /\ g \in {"permanent", "temporary"}
  /\ grant[u] = "none"
  /\ grant' = [grant EXCEPT ![u] = g]
  /\ UNCHANGED <<org, status, req, crossed>>

\* Time passes expires_at.
Expire(u) ==
  /\ grant[u] = "temporary"
  /\ grant' = [grant EXCEPT ![u] = "expired"]
  /\ UNCHANGED <<org, status, req, crossed>>

\* RevokeRole: CountActiveOrgOwners, ErrLastOwner.
MoreThanOneOwner == Cardinality(Owners) > 1
StartRevoke(s, u) ==
  OrgFound /\ MoreThanOneOwner /\ Begin(s, [kind |-> "revoke", user |-> u, stale |-> FALSE])

\* RevokeRoleWithAudit: a grant that is gone is an error.  What the other
\* revocations have counted is stale from here on.
Revoke(s) ==
  /\ req[s].kind = "revoke" /\ grant[req[s].user] # "none"
  /\ grant' = [grant EXCEPT ![req[s].user] = "none"]
  /\ crossed' = req[s].stale
  /\ req' = [t \in Staff |-> IF t = s THEN Idle
                              ELSE IF req[t].kind = "revoke" THEN [req[t] EXCEPT !.stale = TRUE]
                              ELSE req[t]]
  /\ UNCHANGED <<org, status>>

-----------------------------------------------------------------------------
(* Deactivation of a user.                                                 *)

\* Mutant: no lock is taken before the count.
NoSentinel(s) == TRUE

\* GetPlatformAdminRoleForUpdate: one deactivation at a time.
Sentinel(s) == Under("deactivate") \cup Under("close") = {}
StartDeactivate(s, u) == Sentinel(s) /\ Begin(s, [kind |-> "deactivate", user |-> u])

\* IsUserActivePlatformAdmin asks for the grant, not for the status.
IsAdmin(u) == u \in Admins

\* The guard: CountActivePlatformAdmins.
Checked(s) ==
  /\ req[s].kind = "deactivate"
  /\ IsAdmin(req[s].user) => Cardinality(ActiveAdmins) > 1
  /\ req' = [req EXCEPT ![s].kind = "close"]
  /\ UNCHANGED <<org, grant, status, crossed>>

\* DeactivateUser, ErrUserAlreadyInactive.
Deactivated(u) == status[u] # "inactive" /\ status' = [status EXCEPT ![u] = "inactive"]
Deactivate(s) ==
  /\ req[s].kind = "close" /\ Deactivated(req[s].user)
  /\ Ends(s) /\ UNCHANGED <<org, grant, crossed>>

\* A refusal, an error, the end of the process.
Fail(s) == req[s] # Idle /\ Ends(s) /\ UNCHANGED <<org, grant, status, crossed>>

-----------------------------------------------------------------------------

Init == /\ org = "none"
        /\ grant = [u \in Users |-> "none"] /\ status = [u \in Users |-> "active"]
        /\ req = [s \in Staff |-> Idle] /\ crossed = FALSE

Next ==
  \/ DeleteOrganization
  \/ \E u \in Users : CreateOrganization(u) \/ Expire(u) \/ \E g \in Grants : GrantRole(u, g)
  \/ \E s \in Staff :
       \/ Revoke(s) \/ Checked(s) \/ Deactivate(s) \/ Fail(s)
       \/ \E u \in Users : StartRevoke(s, u) \/ StartDeactivate(s, u)
Spec == Init /\ [][Next]_vars

-----------------------------------------------------------------------------
(* Properties.                                                             *)

\* An organization is left without an owner only by the expiry of a grant, or
\* by a revocation that had counted before another one took effect.
OwnerLeft == org = "there" => Owners # {} \/ crossed \/ \E u \in Users : grant[u] = "expired"

\* However deactivations overlap, one platform administrator stays active.
AdminRemains == ActiveAdmins # {}

\* The last of those a rule protects stays: "ErrLastOwner" (RevokeRole), and
\* "leaving zero administrators" (DeactivateTransaction, the sentinel lock).
LastStays == OwnerLeft /\ AdminRemains
=============================================================================

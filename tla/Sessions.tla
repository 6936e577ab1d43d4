------------------------------ MODULE Sessions ------------------------------
(***************************************************************************)
(* One user's sessions: refresh tokens (internal/auth), password reset     *)
(* links, and the operations of internal/users that end every session.     *)
(*                                                                         *)
(* A transaction is modelled by the row locks it takes, one statement      *)
(* after another, and by its writes, which become visible when it commits. *)
(* A statement that locks several rows looks them up once, when it begins  *)
(* (READ COMMITTED), and then waits for each.                              *)
(***************************************************************************)
EXTENDS Naturals, FiniteSets

CONSTANTS Tokens,   \* refresh tokens that can be issued
          Resets,   \* reset links that can be issued; their row ids are random
          Clients,  \* requests being served at the same time
          NoRow     \* a request that presents no row

ASSUME SessionsAssumption == /\ Resets \subseteq Nat
                             /\ Tokens \cap Resets = {} /\ NoRow \notin Tokens \cup Resets

VARIABLES
  status,  \* users.status
  tok,     \* per refresh token: "free", "live", "rotated" (revoked with a successor), "revoked"
  login,   \* per refresh token: the token its chain of rotations began with
  link,    \* per reset link: "free", "open", "used"
  tx       \* per client: the request it has under way

vars == <<status, tok, login, link, tx>>

\* row: the row presented; heir: the token being minted; todo: the rows the
\* statement under way has still to lock; held: the rows locked; user: the
\* lock on the users row, "share" that of a foreign key.
Idle == [kind |-> "idle", at |-> "start", row |-> NoRow, heir |-> NoRow,
         todo |-> {}, held |-> {}, user |-> "none"]
Ask(kind, row) == [Idle EXCEPT !.kind = kind, !.row = row]

Live == {t \in Tokens : tok[t] = "live"}
Open == {r \in Resets : link[r] = "open"}

RowFree(c, x) == \A d \in Clients \ {c} : x \notin tx[d].held
Conflicts == {<<"share", "exclusive">>, <<"exclusive", "share">>, <<"exclusive", "exclusive">>,
              <<"update", "update">>, <<"update", "exclusive">>, <<"exclusive", "update">>}
UserFree(c, mode) == \A d \in Clients \ {c} : <<mode, tx[d].user>> \notin Conflicts

Start(c, q) == tx[c] = Idle /\ tx' = [tx EXCEPT ![c] = q] /\ UNCHANGED <<status, tok, login, link>>
Go(c, q) == tx' = [tx EXCEPT ![c] = q] /\ UNCHANGED <<status, tok, login, link>>
At(c, kind, at) == tx[c].kind = kind /\ tx[c].at = at
Ends(c) == tx' = [tx EXCEPT ![c] = Idle]

-----------------------------------------------------------------------------
(* One-statement operations.                                               *)

\* VerifyUserEmail.
Activated == IF status = "pending" THEN "active" ELSE status

\* VerifyEmailTransaction.
VerifyEmail(c) ==
  /\ tx[c] = Idle /\ UserFree(c, "update")
  /\ status' = Activated
  /\ UNCHANGED <<tok, login, link, tx>>

\* CreateRefreshToken: the foreign key takes a lock on the user.
CreateRefreshToken(c, t) == tok[t] = "free" /\ UserFree(c, "share") /\ \A d \in Clients : tx[d].heir # t

\* GetUserByEmail, GetUserByID: the row's status, read without a lock.
UserByEmail == status
UserByID == status

\* login: the password is verified, the token is issued later.
StartLogin(c) == UserByEmail = "active" /\ Start(c, Ask("login", NoRow))
Login(c, t) ==
  /\ At(c, "login", "start")
  /\ CreateRefreshToken(c, t)
  /\ tok' = [tok EXCEPT ![t] = "live"] /\ login' = [login EXCEPT ![t] = t]
  /\ Ends(c)
  /\ UNCHANGED <<status, link>>

\* LogoutTransaction: idempotent on a token already revoked.
Logout(c, t) ==
  /\ tx[c] = Idle /\ tok[t] # "free" /\ RowFree(c, t)
  /\ tok' = [tok EXCEPT ![t] = IF @ = "live" THEN "revoked" ELSE @]
  /\ UNCHANGED <<status, login, link, tx>>

\* ForgotPasswordTransaction, whatever the user's status.
ForgotPassword(c, r) ==
  /\ tx[c] = Idle /\ link[r] = "free" /\ UserFree(c, "share")
  /\ link' = [link EXCEPT ![r] = "open"]
  /\ UNCHANGED <<status, tok, login, tx>>

-----------------------------------------------------------------------------
(* Rotation of a refresh token.                                            *)

\* refresh: the token exists and the user is active.
StartRefresh(c, t) == tok[t] # "free" /\ UserByID = "active" /\ Start(c, Ask("refresh", t))

\* Mutant: the state of the token is not read again under its lock.
RotatableBefore(t) == tok[t] # "revoked"

\* Case 1 of RotateRefreshToken.
Rotatable(t) == tok[t] = "live"

\* The old token's row is locked; a live one is rotated if the user is active,
\* a revoked one without successor ends every session, any other is refused.
LockToken(c) ==
  LET t == tx[c].row IN
  /\ At(c, "refresh", "start") /\ RowFree(c, t)
  /\ \/ Rotatable(t) /\ status = "active" /\ Go(c, [tx[c] EXCEPT !.at = "mint", !.held = {t}])
     \/ tok[t] = "revoked" /\ Go(c, [tx[c] EXCEPT !.at = "scan", !.held = {t}])
     \/ ~(Rotatable(t) /\ status = "active") /\ tok[t] # "revoked" /\ Go(c, Idle)

\* The successor is inserted.
Mint(c, t) ==
  /\ At(c, "refresh", "mint") /\ CreateRefreshToken(c, t)
  /\ Go(c, [tx[c] EXCEPT !.at = "minted", !.heir = t, !.user = "share"])

\* RevokeAndLinkSuccessor and the commit.
Rotate(c) ==
  LET t == tx[c].row  h == tx[c].heir IN
  /\ At(c, "refresh", "minted")
  /\ tok' = [tok EXCEPT ![t] = "rotated", ![h] = "live"]
  /\ login' = [login EXCEPT ![h] = login[t]]
  /\ Ends(c)
  /\ UNCHANGED <<status, link>>

-----------------------------------------------------------------------------
(* Reset, password change and deactivation.                                *)

Enders == {"change", "deactivate"}

\* ChangePassword verifies the current password first; DeactivateUser does not.
StartEnder(c, kind) ==
  /\ kind = "change" => UserByID = "active"
  /\ Start(c, Ask(kind, NoRow))

\* Mutant: the users row is updated without being locked first.
LockOfUpdate == "update"

\* GetUserByIDForUpdate.
LockForUpdate == "exclusive"

\* The users row is locked, and the status read again under the lock.
LockUser(c) ==
  /\ \E kind \in Enders : At(c, kind, "start")
  /\ UserFree(c, LockForUpdate)
  /\ IF status = "active" \/ (tx[c].kind = "deactivate" /\ status # "inactive")
     THEN Go(c, [tx[c] EXCEPT !.at = "scan", !.user = LockForUpdate])
     ELSE Go(c, Idle)

\* ResetPasswordTransaction: the link exists; every open link is to be locked.
StartReset(c, r) == link[r] # "free" /\ Start(c, [Ask("reset", r) EXCEPT !.at = "links", !.todo = Open])

\* Mutant: the link presented is not looked for among those locked.
FoundAny(c) == TRUE

\* The token is in the locked set, or it was used meanwhile.
Found(c) == tx[c].row \in tx[c].held

\* UseAllUserPasswordResetTokens looks the open links up again.
UseAll(c) ==
  /\ At(c, "reset", "links") /\ tx[c].todo = {}
  /\ Go(c, IF Found(c) THEN [tx[c] EXCEPT !.at = "use", !.todo = Open \ tx[c].held] ELSE Idle)

\* UpdateUserPasswordHash.
LockUserRow(c) ==
  /\ At(c, "reset", "use") /\ tx[c].todo = {} /\ UserFree(c, "update")
  /\ Go(c, [tx[c] EXCEPT !.at = "scan", !.user = "update"])

\* Mutant: the account is closed and its sessions are not.
SweepUnlessClosed(c) == IF tx[c].kind = "deactivate" THEN {} ELSE Live \ tx[c].held

\* The tokens RevokeUserRefreshTokens finds live.
ToSweep(c) == Live \ tx[c].held

\* RevokeUserRefreshTokens begins.
Scan(c) == tx[c].at = "scan" /\ Go(c, [tx[c] EXCEPT !.at = "sweep", !.todo = ToSweep(c)])

\* LockUserPasswordResetTokens locks in the order of ids, an UPDATE in any.
Turn(c, x) == tx[c].at = "links" => \A y \in tx[c].todo : x <= y

\* A row of the statement under way is locked, if it still qualifies.
LockRow(c, x) ==
  /\ tx[c].todo # {} /\ x \in tx[c].todo /\ Turn(c, x) /\ RowFree(c, x)
  /\ Go(c, [tx[c] EXCEPT !.todo = @ \ {x}, !.held = IF x \in Live \cup Open THEN @ \cup {x} ELSE @])

\* The commit of a transaction that ends every session.
Finish(c) ==
  /\ tx[c].at = "sweep" /\ tx[c].todo = {}
  /\ tok' = [t \in Tokens |-> IF t \in tx[c].held \cap Live THEN "revoked" ELSE tok[t]]
  /\ link' = [r \in Resets |-> IF r \in tx[c].held THEN "used" ELSE link[r]]
  /\ status' = IF tx[c].kind = "deactivate" THEN "inactive" ELSE status
  /\ Ends(c)
  /\ UNCHANGED login

\* A refusal, an error, a deadlock's victim, the end of the process.
Fail(c) == tx[c] # Idle /\ Go(c, Idle)

-----------------------------------------------------------------------------

\* CreateUser: the default of the column.
CreatedUser == "pending"

Init == /\ status \in {CreatedUser, "active"}
        /\ tok = [t \in Tokens |-> "free"] /\ login = [t \in Tokens |-> t]
        /\ link = [r \in Resets |-> "free"]
        /\ tx = [c \in Clients |-> Idle]

Step(c) ==
  \/ VerifyEmail(c) \/ StartLogin(c) \/ LockToken(c) \/ Rotate(c)
  \/ LockUser(c) \/ UseAll(c) \/ LockUserRow(c) \/ Scan(c) \/ Finish(c) \/ Fail(c)
  \/ \E t \in Tokens : Login(c, t) \/ Logout(c, t) \/ StartRefresh(c, t) \/ Mint(c, t)
  \/ \E r \in Resets : ForgotPassword(c, r) \/ StartReset(c, r)
  \/ \E kind \in Enders : StartEnder(c, kind)
  \/ \E x \in Tokens \cup Resets : LockRow(c, x)
Next == \E c \in Clients : Step(c)
Spec == Init /\ [][Next]_vars

-----------------------------------------------------------------------------
(* Properties.                                                             *)

Kinds == {"idle", "login", "refresh", "reset"} \cup Enders
Stages == {"start", "mint", "minted", "links", "use", "scan", "sweep"}
TypeOK ==
  /\ status \in {"pending", "active", "inactive"}
  /\ tok \in [Tokens -> {"free", "live", "rotated", "revoked"}]
  /\ login \in [Tokens -> Tokens]
  /\ link \in [Resets -> {"free", "open", "used"}]
  /\ tx \in [Clients -> [kind : Kinds, at : Stages, row : Tokens \cup Resets \cup {NoRow},
                         heir : Tokens \cup {NoRow}, todo : SUBSET (Tokens \cup Resets),
                         held : SUBSET (Tokens \cup Resets),
                         user : {"none", "share", "update", "exclusive"}]]
  /\ \A c, d \in Clients : c # d => tx[c].held \cap tx[d].held = {}

\* A chain of rotations has one live end: a refresh token presented twice, or
\* by two requests at once, is exchanged once (RotateRefreshToken, Cases 1-2).
OneLivePerLogin == \A t, u \in Live : login[t] = login[u] => t = u

\* When a password change or a deactivation is about to commit, it has every
\* live token in hand; neither a rotation nor a login added one behind it
\* (GetUserByIDForUpdate before RevokeUserRefreshTokens).  A reset, which takes
\* no such lock, is not among them, and nothing is said of what a login past
\* its check of the status inserts after the commit.
SweepComplete ==
  \A c \in Clients : tx[c].kind \in Enders /\ tx[c].at = "sweep" /\ tx[c].todo = {} => Live \subseteq tx[c].held

\* A deactivation leaves no token live, and on an inactive account no rotation
\* makes one live, even one that began before: the only one to appear is the
\* first of a login that had passed its check of the status (DeactivateUser,
\* RotateRefreshToken, step 3b; login, service.go:63).
InactiveEnds ==
  [][/\ status # "inactive" /\ status' = "inactive" => Live' = {}
     /\ status = "inactive" => \A t \in Live' \ Live : login'[t] = t]_vars

\* A reset that has passed its checks holds a link nobody has used: of two
\* resets, with one link or with two, one is refused (ErrResetTokenUsed).
LinkUnspent == \A c \in Clients : tx[c].at \in {"use", "scan", "sweep"} /\ tx[c].kind = "reset"
                                    => link[tx[c].row] = "open"

\* A deactivation lasts: no verification link, reset or change undoes it.
StaysInactive == [][status = "inactive" => status' = "inactive"]_vars

\* "cannot deadlock" (LockUserPasswordResetTokens): no set of resets waits
\* for each other's links.  It does not hold: UseAllUserPasswordResetTokens
\* locks a link issued since, out of the order of ids (see the README).
Blocked(c, C) == /\ tx[c].at \in {"links", "use"} /\ tx[c].todo # {}
                 /\ \A x \in tx[c].todo : Turn(c, x) => \E d \in C \ {c} : x \in tx[d].held
ResetsDontDeadlock == \A C \in SUBSET Clients : C # {} => \E c \in C : ~Blocked(c, C)
=============================================================================

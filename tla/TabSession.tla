----------------------------- MODULE TabSession -----------------------------
(***************************************************************************)
(* The tokens of one login in a browser (lib/api/client.ts, auth.store.ts, *)
(* use-auth-guard.ts) against the rotation of the server (Sessions).       *)
(*                                                                         *)
(* The refresh token is shared by all tabs (localStorage), the access token*)
(* belongs to a tab (sessionStorage).  Tokens are numbered as the server   *)
(* issues them: refresh token n and access token n are issued together.    *)
(* The behaviour begins after the login and ends when a tab is signed out. *)
(***************************************************************************)
EXTENDS Naturals, FiniteSets

CONSTANTS Tabs,
          Calls,      \* API calls a tab has under way
          Guard,      \* the call of use-auth-guard when a page loads
          MaxTokens   \* refresh tokens issued

ASSUME TabSessionAssumption == Guard \in Calls /\ MaxTokens \in Nat \ {0} /\ IsFiniteSet(Tabs)

VARIABLES
  current,       \* the refresh token the server rotates, 0 when revoked
  expired,    \* access tokens up to this one have expired
  stored,     \* the refresh token in localStorage, 0 for none
  access,     \* per tab: the access token in sessionStorage, 0 for none
  flights,    \* per tab: the refreshes under way
  calls,      \* per tab and call
  page,       \* per tab: "app", or "login"
  presented,  \* <<tab, refresh token>> sent
  excused     \* a refresh or a guard call was cut off, or the user signed out

sessionVars == <<current, expired, stored, access, flights, calls, page, presented, excused>>

NoCall == [at |-> "none"]
NoCalls == [k \in Calls |-> NoCall]
InApp(t) == page[t] = "app"
Sent(t, again) == [at |-> "sent", access |-> access[t], again |-> again]
Accepted(t, k) == calls[t][k].access > expired
Retrying == \E t \in Tabs, k \in Calls : calls[t][k].at = "sent" /\ calls[t][k].again

\* clearAll and clearSession; the page is left, what it waited for with it.
SignOut(t) ==
  /\ stored' = 0 /\ access' = [access EXCEPT ![t] = 0]
  /\ page' = [page EXCEPT ![t] = "login"]
  /\ calls' = [calls EXCEPT ![t] = NoCalls] /\ flights' = [flights EXCEPT ![t] = {}]

-----------------------------------------------------------------------------
(* Calls.                                                                  *)

\* The request interceptor attaches the access token.
Send(t, k) ==
  /\ InApp(t) /\ calls[t][k] = NoCall
  /\ calls' = [calls EXCEPT ![t][k] = Sent(t, FALSE)]
  /\ UNCHANGED <<current, expired, stored, access, flights, page, presented, excused>>

\* Any answer but 401; a guard call that fails signs out.
Answer(t, k) ==
  /\ calls[t][k].at = "sent" /\ Accepted(t, k)
  /\ calls' = [calls EXCEPT ![t][k] = NoCall]
  /\ UNCHANGED <<current, expired, stored, access, flights, page, presented, excused>>
Lost(t, k) ==
  /\ calls[t][k].at = "sent"
  /\ IF k = Guard
     THEN SignOut(t) /\ excused' = TRUE
     ELSE /\ calls' = [calls EXCEPT ![t][k] = NoCall]
          /\ UNCHANGED <<stored, access, flights, page, excused>>
  /\ UNCHANGED <<current, expired, presented>>

\* Mutant: every 401 starts a refresh of its own.
OwnFlight(t) == {}

\* refreshPromise: the refresh a caller joins.
Joined(t) == flights[t]

\* 401: attemptTokenRefresh, joined or started; without a refresh token the
\* page is left.
Denied(t, k) ==
  LET waiting == [calls EXCEPT ![t][k].at = "waiting"] IN
  /\ calls[t][k].at = "sent" /\ ~calls[t][k].again /\ ~Accepted(t, k)
  /\ \/ /\ Joined(t) # {}
        /\ flights' = [flights EXCEPT ![t] = {[f EXCEPT !.callers = @ \cup {k}] : f \in flights[t]}]
        /\ calls' = waiting /\ UNCHANGED <<stored, access, page, presented>>
     \/ /\ Joined(t) = {} /\ stored # 0
        /\ flights' = [flights EXCEPT ![t] = @ \cup {[token |-> stored, answer |-> "none", callers |-> {k}]}]
        /\ presented' = presented \cup {<<t, stored>>}
        /\ calls' = waiting /\ UNCHANGED <<stored, access, page>>
     \/ Joined(t) = {} /\ stored = 0 /\ SignOut(t) /\ UNCHANGED presented
  /\ UNCHANGED <<current, expired, excused>>

-----------------------------------------------------------------------------
(* Refreshes.                                                              *)

\* RotateRefreshToken: a token that has a successor is refused.
Rotates(t, f) ==
  /\ f \in flights[t] /\ f.answer = "none"
  /\ IF f.token = current
     THEN /\ current < MaxTokens /\ current' = current + 1
          /\ flights' = [flights EXCEPT ![t] = (@ \ {f}) \cup {[f EXCEPT !.answer = "new"]}]
     ELSE /\ flights' = [flights EXCEPT ![t] = (@ \ {f}) \cup {[f EXCEPT !.answer = "refused"]}]
          /\ UNCHANGED current
  /\ UNCHANGED <<expired, stored, access, calls, page, presented, excused>>

\* The tokens are stored and every caller retries, once.
Refreshed(t, f) ==
  /\ f \in flights[t] /\ f.answer = "new"
  /\ stored' = f.token + 1 /\ access' = [access EXCEPT ![t] = f.token + 1]
  /\ calls' = [calls EXCEPT ![t] = [k \in Calls |->
       IF k \in f.callers THEN [at |-> "sent", access |-> f.token + 1, again |-> TRUE] ELSE @[k]]]
  /\ flights' = [flights EXCEPT ![t] = @ \ {f}]
  /\ UNCHANGED <<current, expired, page, presented, excused>>

\* The catch of attemptTokenRefresh: refused, or no answer.
RefreshFails(t, f) ==
  /\ f \in flights[t]
  /\ SignOut(t) /\ excused' = (excused \/ f.answer # "refused")
  /\ UNCHANGED <<current, expired, presented>>

-----------------------------------------------------------------------------
(* What else happens to a login.                                           *)

\* An access token outlives the retries of the calls it was fetched for.
ExpireAccess(n) ==
  /\ n \in expired + 1 .. current /\ ~Retrying
  /\ expired' = n
  /\ UNCHANGED <<current, stored, access, flights, calls, page, presented, excused>>

\* A reload: the promise and the calls of the page are gone, use-auth-guard
\* looks for the refresh token and calls /auth/me.
ReloadTab(t) ==
  /\ InApp(t)
  /\ excused' = (excused \/ flights[t] # {})
  /\ IF stored = 0 THEN SignOut(t)
     ELSE /\ calls' = [calls EXCEPT ![t] = [NoCalls EXCEPT ![Guard] = Sent(t, FALSE)]]
          /\ flights' = [flights EXCEPT ![t] = {}]
          /\ UNCHANGED <<stored, access, page>>
  /\ UNCHANGED <<current, expired, presented>>

\* handleLogout and handleSwitchOrg; or the server ends every session.
HandleLogout(t) ==
  /\ InApp(t) /\ SignOut(t)
  /\ current' = 0 /\ excused' = TRUE
  /\ UNCHANGED <<expired, presented>>
Revoked ==
  /\ current' = 0 /\ excused' = TRUE
  /\ UNCHANGED <<expired, stored, access, flights, calls, page, presented>>

-----------------------------------------------------------------------------

TabInit ==
  /\ current = 1 /\ stored = 1 /\ expired = 0
  /\ access \in {a \in [Tabs -> {0, 1}] : \E t \in Tabs : a[t] = 1}
  /\ flights = [t \in Tabs |-> {}] /\ calls = [t \in Tabs |-> NoCalls]
  /\ page = [t \in Tabs |-> "app"] /\ presented = {} /\ excused = FALSE

TabNext ==
  /\ \A t \in Tabs : InApp(t)
  /\ \/ Revoked \/ \E n \in 1..MaxTokens : ExpireAccess(n)
     \/ \E t \in Tabs :
          \/ ReloadTab(t) \/ HandleLogout(t)
          \/ \E k \in Calls : Send(t, k) \/ Answer(t, k) \/ Lost(t, k) \/ Denied(t, k)
          \/ \E f \in flights[t] : Rotates(t, f) \/ Refreshed(t, f) \/ RefreshFails(t, f)
TabSpec == TabInit /\ [][TabNext]_sessionVars

-----------------------------------------------------------------------------
(* Property.                                                               *)

\* A tab is signed out only when the user or the server ended the session, a
\* call was cut off, or two tabs presented one refresh token; never because
\* calls of one tab expired together (attemptTokenRefresh, the 401 retry).
Contested == \E t, u \in Tabs, n \in 1..MaxTokens : t # u /\ {<<t, n>>, <<u, n>>} \subseteq presented
StaysIn == (\A t \in Tabs : InApp(t)) \/ excused \/ Contested
=============================================================================

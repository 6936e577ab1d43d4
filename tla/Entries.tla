------------------------------- MODULE Entries ------------------------------
(***************************************************************************)
(* One tournament and its registrations (internal/tournaments,             *)
(* internal/tournament_registrations) up to the drawing of its fixtures    *)
(* and the seating of its group qualifiers (internal/fixturegen).          *)
(*                                                                         *)
(* A request reads first and writes later.  A PATCH writes back the whole  *)
(* row it read, a registration is inserted under the tournament's row lock *)
(* with the capacity read before, the drawing runs in one transaction.     *)
(***************************************************************************)
EXTENDS Naturals, FiniteSets

CONSTANTS Teams,    \* the teams (or players) of the organization
          Caps,     \* the values of max_participants that are set
          NoCap,    \* max_participants is NULL
          NoTeam,   \* a request that is not about a registration
          Formats,  \* the formats in use, of "league" and "group_knockout"
          Staff,    \* requests being served at the same time
          Kinds,    \* the kinds of request that are made
          Overlap   \* the kinds that are served while others are

KindsOfRequest == {"register", "review", "withdraw", "edit", "cancel", "generate", "resolve"}

ASSUME EntriesAssumption == /\ IsFiniteSet(Teams)
                            /\ Caps \subseteq Nat /\ NoCap \notin Nat /\ NoTeam \notin Teams
                            /\ Formats \subseteq {"league", "group_knockout"}
                            /\ Kinds \subseteq KindsOfRequest /\ Overlap \subseteq Kinds

Stages == {"draft", "registration_open", "registration_closed", "ongoing",
           "completed", "cancelled"}
Statuses == {"none", "pending", "approved", "rejected", "withdrawn", "disqualified"}
Tournament == [status : Stages, cap : Caps \cup {NoCap}, format : Formats]

VARIABLES
  tour,     \* the tournaments row
  reg,      \* per team: the status of its registration
  field,    \* the teams the fixtures were drawn from
  groups,   \* group-stage matches: "none", "open" (some still to be played), "over"
  played,   \* the teams with a concluded group match
  seats,    \* the teams in the knockout's qualifier slots
  told,     \* per team: the status in its last outbox entry
  announced,\* the status in the tournament's last outbox entry
  req       \* per staff request: what it read and means to write

fixtures == <<field, groups, played, seats>>
vars == <<tour, reg, fixtures, told, announced, req>>

\* team, was, to: the registration, its status as read, the status to write.
\* row: the tournament as read or, in an edit, as it will be written; from:
\* the status it was read with; expected: the number of approved entries in
\* the preview of a drawing, 0 if the request does not say.
Idle == [kind |-> "idle"]
Request ==
  {Idle} \cup [kind : KindsOfRequest, team : Teams \cup {NoTeam}, was : Statuses, to : Statuses,
               row : Tournament, from : Stages, expected : 0..Cardinality(Teams)]

With(st) == {t \in Teams : reg[t] \in st}

-----------------------------------------------------------------------------
(* The first half of a request.                                            *)

\* GetTournamentByID: what the request knows of the tournament from here on.
AsRead == tour

Asks(kind) == [kind |-> kind, team |-> NoTeam, was |-> "none", to |-> "none",
               row |-> AsRead, from |-> AsRead.status, expected |-> 0]
Begin(s, q) ==
  /\ q.kind \in Kinds /\ req[s] = Idle
  /\ \A u \in Staff : req[u] = Idle \/ {q.kind, req[u].kind} \subseteq Overlap
  /\ req' = [req EXCEPT ![s] = q]
  /\ UNCHANGED <<tour, reg, fixtures, told, announced>>

\* validateRegistrationWindow; its dates are left out.
WindowOpen == tour.status = "registration_open"

\* GetRegistrationByTeam, GetRegistrationByPlayer: ErrAlreadyRegistered.
Unregistered(t) == reg[t] = "none"

\* Register, registerTeam: rules 2 to 6; the row read carries the capacity.
StartRegister(s, t) ==
  /\ WindowOpen
  /\ Unregistered(t)
  /\ Begin(s, [Asks("register") EXCEPT !.team = t, !.to = "pending"])

\* allowedTransitions of tournament_registrations.
MayReview(from, to) == \/ from = "pending" /\ to \in {"approved", "rejected", "withdrawn"}
                       \/ from = "approved" /\ to \in {"withdrawn", "disqualified"}

\* GetRegistrationByID.
Registered(t) == reg[t] # "none"

\* PATCH of a registration: a new status, or seed and notes only.
StartReview(s, t, to) ==
  /\ Registered(t)
  /\ to = reg[t] \/ MayReview(reg[t], to)
  /\ Begin(s, [Asks("review") EXCEPT !.team = t, !.was = reg[t], !.to = to])

\* DELETE of a registration.
StartWithdraw(s, t) ==
  /\ Registered(t)
  /\ Begin(s, [Asks("withdraw") EXCEPT !.team = t, !.was = reg[t], !.to = "withdrawn"])

\* allowedTransitions of tournaments.
MayMove(from, to) ==
  \/ <<from, to>> \in {<<"draft", "registration_open">>, <<"registration_open", "registration_closed">>,
                       <<"registration_closed", "ongoing">>, <<"ongoing", "completed">>}
  \/ from # "cancelled" /\ to = "cancelled"

\* PATCH of the tournament: status, capacity or format; the rest as read.
StartEdit(s, row) ==
  /\ row.status = tour.status \/ MayMove(tour.status, row.status)
  /\ Begin(s, [Asks("edit") EXCEPT !.row = row])

\* DELETE of the tournament.
StartCancel(s) == Begin(s, Asks("cancel"))

\* Generate, after a preview or without one.
StartGenerate(s, n) ==
  /\ n \in {0, Cardinality(With({"approved"}))}
  /\ Begin(s, [Asks("generate") EXCEPT !.expected = n])

StartResolve(s) == Begin(s, Asks("resolve"))

-----------------------------------------------------------------------------
(* The second half: one transaction each.                                  *)

Commits(s, kind) == req[s].kind = kind /\ req' = [req EXCEPT ![s] = Idle]

\* The rows ListApprovedRegistrations returns.
Approved == With({"approved"})

\* CountActiveRegistrations counts these.
ActiveEntries == With({"pending", "approved"})

\* Mutant: only approved entries count against the capacity.
FullOfApproved(cap) == cap # NoCap /\ Cardinality(Approved) >= cap

\* Rule 7, under the tournament's lock: ErrTournamentFull.
Full(cap) == cap # NoCap /\ Cardinality(ActiveEntries) >= cap

\* CreateRegistration: a team registers once, ever (uq_treg_tournament_team).
CreateRegistration(t) == Unregistered(t) /\ reg' = [reg EXCEPT ![t] = "pending"]

\* UpdateRegistration: whatever the status is now.
UpdateRegistration(t, to) == reg' = [reg EXCEPT ![t] = to]

\* WithdrawRegistration: status IN ('pending', 'approved').
WithdrawRegistration(t) == t \in ActiveEntries /\ reg' = [reg EXCEPT ![t] = "withdrawn"]

\* UpdateTournament writes every column; CancelTournament, the status.
UpdateTournament(row) == tour' = row
CancelTournament == tour' = [tour EXCEPT !.status = "cancelled"]

\* Mutant: a withdrawal is not announced.
TellReview(t, was, to) == IF to # was /\ to \in {"approved", "rejected"}
                          THEN [told EXCEPT ![t] = to] ELSE told

\* The outbox entry of a review (registrationStatusToEventType).
Tell(t, was, to) == IF to # was /\ to \in {"approved", "rejected", "withdrawn"}
                    THEN [told EXCEPT ![t] = to] ELSE told

\* CreateWithAudit of tournament_registrations.
CommitRegister(s) ==
  /\ Commits(s, "register")
  /\ ~Full(req[s].row.cap)
  /\ CreateRegistration(req[s].team)
  /\ UNCHANGED <<tour, fixtures, told, announced>>

\* UpdateWithAudit of tournament_registrations.
CommitReview(s) ==
  LET q == req[s] IN
  /\ Commits(s, "review")
  /\ UpdateRegistration(q.team, q.to)
  /\ told' = Tell(q.team, q.was, q.to)
  /\ UNCHANGED <<tour, fixtures, announced>>

\* WithdrawWithAudit.
CommitWithdraw(s) ==
  LET q == req[s] IN
  /\ Commits(s, "withdraw")
  /\ WithdrawRegistration(q.team)
  /\ told' = Tell(q.team, reg[q.team], "withdrawn")
  /\ UNCHANGED <<tour, fixtures, announced>>

\* UpdateWithAudit of tournaments: the whole row.
CommitEdit(s) ==
  LET q == req[s] IN
  /\ Commits(s, "edit")
  /\ UpdateTournament(q.row)
  /\ announced' = IF q.row.status # q.from THEN q.row.status ELSE announced
  /\ UNCHANGED <<reg, fixtures, told>>

\* CancelWithAudit of tournaments: unconditional.
CommitCancel(s) ==
  /\ Commits(s, "cancel")
  /\ CancelTournament
  /\ announced' = "cancelled"
  /\ UNCHANGED <<reg, fixtures, told>>

\* CountMatchesForTournament = 0.
NoFixtures == field = {}

\* Mutant: the drawing does not look for existing matches.
Redrawable == tour.status = "registration_closed"

\* Generate: the status and the matches, read under LockTournamentForGeneration.
Drawable == tour.status = "registration_closed" /\ NoFixtures

\* insertPlan: the matches of the plan, group matches among them or not.
InsertPlan(F, format) ==
  /\ field' = F
  /\ groups' = IF format = "group_knockout" THEN "open" ELSE "none"

\* ErrTooFewParticipants.
Enough(F) == Cardinality(F) >= 2

\* Generate: the fixtures of the approved entries, in the format asked for.
CommitGenerate(s, format) ==
  LET F == Approved IN
  /\ Commits(s, "generate")
  /\ Drawable
  /\ Enough(F)
  /\ req[s].expected \in {0, Cardinality(F)}
  /\ InsertPlan(F, format)
  /\ UNCHANGED <<tour, reg, played, seats, told, announced>>

\* computeGroupStandings: the teams of the concluded group matches, by rank.
Ranked == played

\* CountUnfinishedGroupMatches = 0.
GroupsOver == groups = "over"

\* ListKnockoutQualifierMatches: a slot that is filled is kept.
SlotsEmpty == seats = {}

\* ResolveQualifiers: the empty slots are filled by rank.
CommitResolve(s, S) ==
  /\ Commits(s, "resolve")
  /\ tour.format = "group_knockout" /\ tour.status = "ongoing"
  /\ GroupsOver
  /\ SlotsEmpty /\ S \subseteq Ranked /\ S # {}
  /\ seats' = S
  /\ UNCHANGED <<tour, reg, field, groups, played, told, announced>>

\* A check refuses, an error rolls back, the server stops.
Fail(s) ==
  /\ req[s] # Idle
  /\ req' = [req EXCEPT ![s] = Idle]
  /\ UNCHANGED <<tour, reg, fixtures, told, announced>>

\* Group matches are concluded (see Bracket), or called off, one by one.
PlayGroups(t, u) ==
  /\ tour.status = "ongoing" /\ groups = "open"
  /\ t # u /\ {t, u} \subseteq field
  /\ played' = played \cup {t, u}
  /\ groups' \in {"open", "over"}
  /\ UNCHANGED <<tour, reg, field, seats, told, announced, req>>

-----------------------------------------------------------------------------

Init == /\ tour \in [status : {"draft"}, cap : Caps \cup {NoCap}, format : Formats]
        /\ reg = [t \in Teams |-> "none"]
        /\ field = {} /\ groups = "none" /\ played = {} /\ seats = {}
        /\ told = [t \in Teams |-> "none"] /\ announced = "draft"
        /\ req = [s \in Staff |-> Idle]

\* One field of the tournament changes in a PATCH.
Edited == {[tour EXCEPT !.status = st] : st \in Stages} \cup {[tour EXCEPT !.cap = c] : c \in Caps}
          \cup {[tour EXCEPT !.format = f] : f \in Formats}

Starts(s) ==
  \/ \E t \in Teams : StartRegister(s, t) \/ StartWithdraw(s, t)
                      \/ \E to \in Statuses : StartReview(s, t, to)
  \/ \E row \in Edited : StartEdit(s, row)
  \/ StartCancel(s) \/ StartResolve(s)
  \/ \E n \in 0..Cardinality(Teams) : StartGenerate(s, n)

Ends(s) ==
  \/ CommitRegister(s) \/ CommitReview(s) \/ CommitWithdraw(s)
  \/ CommitEdit(s) \/ CommitCancel(s) \/ Fail(s)
  \/ \E f \in Formats : CommitGenerate(s, f)
  \/ \E S \in SUBSET Teams : CommitResolve(s, S)

Next == \/ \E s \in Staff : Starts(s) \/ Ends(s)
        \/ \E t, u \in Teams : PlayGroups(t, u)

Spec == Init /\ [][Next]_vars

-----------------------------------------------------------------------------
(* Properties.                                                             *)

TypeOK == /\ tour \in Tournament
          /\ reg \in [Teams -> Statuses]
          /\ field \subseteq Teams /\ seats \subseteq Teams
          /\ groups \in {"none", "open", "over"}
          /\ told \in [Teams -> Statuses] /\ announced \in Stages
          /\ req \in [Staff -> Request]
          /\ played \subseteq field /\ Cardinality(field) # 1
          /\ field = {} => groups = "none"

\* Tournament, registrations, drawing and seating move as EntryLifecycle says
\* (both allowedTransitions tables, ErrFixturesExist, ResolveQualifiers).
Lifecycle == INSTANCE EntryLifecycle WITH stage <- tour.status, entry <- reg
FollowsEntryLifecycle == Lifecycle!ESpec

\* A request ends; it had read a capacity, or the status of its registration,
\* that is no longer the one in force.
Ending(s) == req[s] # Idle /\ req'[s] = Idle
Overtaken(s) == /\ req[s].kind \in {"register", "review"}
                /\ \/ req[s].row.cap # tour.cap
                   \/ req[s].was # reg[req[s].team]

\* "Tournament has not reached max_participants capacity" (rule 7): whatever
\* overlaps, no step takes the active entries over the capacity in force, but
\* the end of a request that what it read has been changed under.
CapHeld == [][
  LET Active == {t \in Teams : reg[t] \in {"pending", "approved"}} IN
  Cardinality(Active') > Cardinality(Active) =>
    \/ tour.cap = NoCap \/ Cardinality(Active') <= tour.cap
    \/ \E s \in Staff : Ending(s) /\ Overtaken(s)]_vars

\* The last message written for a team, or for the tournament, tells its
\* status (the outbox entries of UpdateWithAudit, WithdrawWithAudit and
\* CancelWithAudit); a disqualification sends none.
NoticeTrue == /\ \A t \in Teams : reg[t] \in {"approved", "rejected", "withdrawn"} => told[t] = reg[t]
              /\ announced = tour.status
=============================================================================

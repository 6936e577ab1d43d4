--------------------------- MODULE EntriesProofs ----------------------------
(***************************************************************************)
(* Proofs about Entries, for any teams, capacities and number of requests. *)
(*                                                                         *)
(* The capacity is kept whatever overlaps (Shaped).  A PATCH writes back   *)
(* what it read: notices and lifecycle hold as long as no PATCH is served  *)
(* while another request is, PatchesAlone, as in their run (Promises).     *)
(***************************************************************************)
EXTENDS Entries, FiniteSetTheorems, TLAPS

PatchesAlone == {"review", "edit"} \cap Overlap = {}

-----------------------------------------------------------------------------
(* The invariants.                                                         *)

\* What a request asks for is sound by what it read.
Asked(q) ==
  /\ q.kind \in {"register", "review", "withdraw"} => q.team \in Teams
  /\ q.kind = "review" => q.to = q.was \/ MayReview(q.was, q.to)
  /\ q.kind = "edit" => q.row.status = q.from \/ MayMove(q.from, q.row.status)
AskedWell == \A s \in Staff : Asked(req[s])

Shaped == TypeOK /\ AskedWell

\* Two requests are on the way together only if both kinds may overlap.
Alone == \A s, u \in Staff :
  s # u /\ req[s] # Idle /\ req[u] # Idle => {req[s].kind, req[u].kind} \subseteq Overlap

\* What a request read still holds when it commits.
Reads(q) ==
  /\ q.kind = "review" => q.was = reg[q.team]
  /\ q.kind = "edit" => q.from = tour.status
ReadsHold == \A s \in Staff : Reads(req[s])

Promises == Shaped /\ Alone /\ ReadsHold /\ NoticeTrue

-----------------------------------------------------------------------------

LEMMA IdleReads == Idle \in Request /\ Asked(Idle) /\ Reads(Idle)
BY DEF Idle, Request, Asked, Reads

LEMMA ShapedInit == Init => Shaped
<1> SUFFICES ASSUME Init PROVE Shaped
  OBVIOUS
<1>1. tour \in Tournament
  BY DEF Init, Tournament, Stages
<1>2. Cardinality({}) = 0
  BY FS_EmptySet
<1>3. TypeOK
  BY <1>1, <1>2, IdleReads DEF Init, TypeOK, Statuses, Stages
<1> QED BY <1>3, IdleReads DEF Init, Shaped, AskedWell

LEMMA PromisesInit == Init => Promises
<1> SUFFICES ASSUME Init PROVE Promises
  OBVIOUS
<1>1. Alone /\ ReadsHold
  BY IdleReads DEF Init, Alone, ReadsHold
<1>2. NoticeTrue
  BY DEF Init, NoticeTrue
<1> QED BY <1>1, <1>2, ShapedInit DEF Promises

-----------------------------------------------------------------------------
(* The first half of a request.                                            *)

\* A request that is on the way.
Working == [kind : KindsOfRequest, team : Teams \cup {NoTeam}, was : Statuses, to : Statuses,
            row : Tournament, from : Stages, expected : 0..Cardinality(Teams)]

LEMMA AsksTyped ==
  ASSUME TypeOK, NEW kind \in KindsOfRequest
  PROVE  Asks(kind) \in Working
<1>1. Cardinality(Teams) \in Nat
  BY EntriesAssumption, FS_CardinalityType
<1>2. tour \in Tournament /\ tour.status \in Stages
  BY DEF TypeOK, Tournament
<1>3. 0 \in 0..Cardinality(Teams)
  BY <1>1
<1> QED BY <1>2, <1>3 DEF Asks, AsRead, Working, Statuses

\* A request begins with what is there, and leaves the rest alone.
LEMMA StartsBegin ==
  ASSUME TypeOK, NEW s \in Staff, Starts(s)
  PROVE  \E q \in Request : Begin(s, q) /\ Asked(q) /\ Reads(q)
<1> USE DEF KindsOfRequest
<1> SUFFICES \E q \in Working : Begin(s, q) /\ Asked(q) /\ Reads(q)
  BY DEF Working, Request
<1>1. ASSUME NEW t \in Teams, StartRegister(s, t)
      PROVE  \E q \in Working : Begin(s, q) /\ Asked(q) /\ Reads(q)
  <2> DEFINE q == [Asks("register") EXCEPT !.team = t, !.to = "pending"]
  <2>1. q \in Working
    BY AsksTyped DEF Working, Statuses
  <2>2. Asked(q) /\ Reads(q)
    BY DEF Asked, Reads, Asks
  <2> QED BY <1>1, <2>1, <2>2 DEF StartRegister
<1>2. ASSUME NEW t \in Teams, StartWithdraw(s, t)
      PROVE  \E q \in Working : Begin(s, q) /\ Asked(q) /\ Reads(q)
  <2> DEFINE q == [Asks("withdraw") EXCEPT !.team = t, !.was = reg[t], !.to = "withdrawn"]
  <2>1. q \in Working
    BY AsksTyped DEF TypeOK, Working, Statuses
  <2>2. Asked(q) /\ Reads(q)
    BY DEF Asked, Reads, Asks
  <2> QED BY <1>2, <2>1, <2>2 DEF StartWithdraw
<1>3. ASSUME NEW t \in Teams, NEW to \in Statuses, StartReview(s, t, to)
      PROVE  \E q \in Working : Begin(s, q) /\ Asked(q) /\ Reads(q)
  <2> DEFINE q == [Asks("review") EXCEPT !.team = t, !.was = reg[t], !.to = to]
  <2>1. q \in Working
    BY AsksTyped DEF TypeOK, Working
  <2>2. Asked(q) /\ Reads(q)
    BY <1>3 DEF StartReview, Asked, Reads, Asks
  <2> QED BY <1>3, <2>1, <2>2 DEF StartReview
<1>4. ASSUME NEW r \in Edited, StartEdit(s, r)
      PROVE  \E q \in Working : Begin(s, q) /\ Asked(q) /\ Reads(q)
  <2> DEFINE q == [Asks("edit") EXCEPT !.row = r]
  <2>1. r \in Tournament
    BY DEF Edited, Tournament, TypeOK
  <2>2. q \in Working
    BY <2>1, AsksTyped DEF Working
  <2>3. Asked(q) /\ Reads(q)
    BY <1>4 DEF StartEdit, Asked, Reads, Asks, AsRead
  <2> QED BY <1>4, <2>2, <2>3 DEF StartEdit
<1>5. ASSUME StartCancel(s)
      PROVE  \E q \in Working : Begin(s, q) /\ Asked(q) /\ Reads(q)
  <2>1. Asks("cancel") \in Working /\ Asked(Asks("cancel")) /\ Reads(Asks("cancel"))
    BY AsksTyped DEF Asked, Reads, Asks
  <2> QED BY <1>5, <2>1 DEF StartCancel
<1>6. ASSUME StartResolve(s)
      PROVE  \E q \in Working : Begin(s, q) /\ Asked(q) /\ Reads(q)
  <2>1. Asks("resolve") \in Working /\ Asked(Asks("resolve")) /\ Reads(Asks("resolve"))
    BY AsksTyped DEF Asked, Reads, Asks
  <2> QED BY <1>6, <2>1 DEF StartResolve
<1>7. ASSUME NEW n \in 0..Cardinality(Teams), StartGenerate(s, n)
      PROVE  \E q \in Working : Begin(s, q) /\ Asked(q) /\ Reads(q)
  <2> DEFINE q == [Asks("generate") EXCEPT !.expected = n]
  <2>1. q \in Working
    BY AsksTyped DEF Working
  <2>2. Asked(q) /\ Reads(q)
    BY DEF Asked, Reads, Asks
  <2> QED BY <1>7, <2>1, <2>2 DEF StartGenerate
<1> QED BY <1>1, <1>2, <1>3, <1>4, <1>5, <1>6, <1>7 DEF Starts

LEMMA ShapedStarts ==
  ASSUME Shaped, NEW s \in Staff, Starts(s)
  PROVE  Shaped' /\ UNCHANGED <<tour, reg, field, seats>>
<1>1. PICK q \in Request : Begin(s, q) /\ Asked(q)
  BY StartsBegin DEF Shaped
<1>2. /\ req' = [req EXCEPT ![s] = q]
      /\ UNCHANGED <<tour, reg, field, groups, played, seats, told, announced>>
      /\ req \in [Staff -> Request]
  BY <1>1 DEF Begin, fixtures, Shaped, TypeOK
<1>3. TypeOK'
  BY <1>2 DEF Shaped, TypeOK
<1>4. AskedWell'
  BY <1>1, <1>2 DEF Shaped, AskedWell, Asked
<1> QED BY <1>2, <1>3, <1>4 DEF Shaped

LEMMA PromisesStarts ==
  ASSUME Promises, NEW s \in Staff, Starts(s)
  PROVE  Promises'
<1>1. PICK q \in Request : Begin(s, q) /\ Reads(q)
  BY StartsBegin DEF Promises, Shaped
<1>2. /\ UNCHANGED <<tour, reg, field, groups, played, seats, told, announced>>
      /\ \A t \in Staff : req'[t] = IF t = s THEN q ELSE req[t]
  BY <1>1 DEF Begin, fixtures, Promises, Shaped, TypeOK
<1>3. Alone'
  <2> SUFFICES ASSUME NEW t \in Staff, NEW u \in Staff, t # u, req'[t] # Idle, req'[u] # Idle
               PROVE  {req'[t].kind, req'[u].kind} \subseteq Overlap
    BY DEF Alone, Idle
  <2>1. CASE t = s
    BY <1>1, <1>2, <2>1 DEF Begin
  <2>2. CASE u = s
    BY <1>1, <1>2, <2>2 DEF Begin
  <2>3. CASE t # s /\ u # s
    BY <1>2, <2>3 DEF Promises, Alone
  <2> QED BY <2>1, <2>2, <2>3
<1>4. ReadsHold'
  BY <1>1, <1>2 DEF Promises, ReadsHold, Reads
<1>5. NoticeTrue'
  BY <1>2 DEF Promises, NoticeTrue
<1> QED BY <1>3, <1>4, <1>5, ShapedStarts DEF Promises

-----------------------------------------------------------------------------
(* The second half: types, and what a request asks for.                    *)

LEMMA NotIdle ==
  ASSUME NEW s, NEW kind \in KindsOfRequest, Commits(s, kind)
  PROVE  req[s] # Idle
BY DEF KindsOfRequest, Commits, Idle

\* Every second half ends its request.
LEMMA EndsEnd ==
  ASSUME NEW s \in Staff, Ends(s)
  PROVE  req[s] # Idle /\ req' = [req EXCEPT ![s] = Idle]
BY NotIdle DEF KindsOfRequest, Ends, CommitRegister, CommitReview, CommitWithdraw, CommitEdit,
               CommitCancel, CommitGenerate, CommitResolve, Fail, Commits

LEMMA TellTyped ==
  ASSUME TypeOK, NEW t \in Teams, NEW was, NEW to \in Statuses
  PROVE  /\ Tell(t, was, to) \in [Teams -> Statuses]
         /\ \A u \in Teams \ {t} : Tell(t, was, to)[u] = told[u]
         /\ to # was /\ to \in {"approved", "rejected", "withdrawn"} => Tell(t, was, to)[t] = to
         /\ to = was => Tell(t, was, to) = told
BY DEF TypeOK, Tell

\* A registration is written, with or without a notice.
Entry(t, to, why) == /\ t \in Teams /\ to \in Statuses
                     /\ reg' = [reg EXCEPT ![t] = to]
                     /\ told' \in {told, Tell(t, why, to)}
                     /\ UNCHANGED <<tour, fixtures, announced>>

LEMMA EntryShaped ==
  ASSUME Shaped, NEW s \in Staff, req' = [req EXCEPT ![s] = Idle],
         NEW t, NEW to, NEW why, Entry(t, to, why)
  PROVE  Shaped'
<1>1. UNCHANGED <<tour, field, groups, played, seats, announced>>
  BY DEF Entry, fixtures
<1>2. req' \in [Staff -> Request] /\ AskedWell'
  BY IdleReads DEF Shaped, TypeOK, AskedWell, Asked
<1>3. reg' \in [Teams -> Statuses] /\ told' \in [Teams -> Statuses]
  BY TellTyped DEF Entry, Shaped, TypeOK
<1>4. TypeOK'
  BY <1>1, <1>2, <1>3 DEF Shaped, TypeOK
<1> QED BY <1>2, <1>4 DEF Shaped

LEMMA RegisterEffect ==
  ASSUME Shaped, NEW s \in Staff, CommitRegister(s)
  PROVE  /\ reg[req[s].team] = "none" /\ Entry(req[s].team, "pending", "pending")
         /\ told' = told /\ ~Full(req[s].row.cap)
BY DEF CommitRegister, Commits, CreateRegistration, Unregistered, Shaped, AskedWell, Asked,
       Statuses, Entry

LEMMA ReviewEffect ==
  ASSUME Shaped, NEW s \in Staff, CommitReview(s)
  PROVE  /\ req[s].kind = "review" /\ (req[s].to = req[s].was \/ MayReview(req[s].was, req[s].to))
         /\ Entry(req[s].team, req[s].to, req[s].was)
         /\ told' = Tell(req[s].team, req[s].was, req[s].to)
<1>1. req[s].kind = "review" /\ req[s] \in Request /\ Asked(req[s])
  BY DEF CommitReview, Commits, Shaped, TypeOK, AskedWell
<1>2. req[s].team \in Teams /\ req[s].to \in Statuses
  BY <1>1 DEF Asked, Request, Idle
<1> QED BY <1>1, <1>2 DEF CommitReview, UpdateRegistration, Asked, Entry

LEMMA WithdrawEffect ==
  ASSUME Shaped, NEW s \in Staff, CommitWithdraw(s)
  PROVE  /\ reg[req[s].team] \in {"pending", "approved"}
         /\ Entry(req[s].team, "withdrawn", reg[req[s].team])
         /\ told' = Tell(req[s].team, reg[req[s].team], "withdrawn")
BY DEF CommitWithdraw, Commits, WithdrawRegistration, ActiveEntries, With, Shaped, AskedWell, Asked,
       Statuses, Entry

\* The tournament's row is written, and announced or not.
LEMMA TournamentShaped ==
  ASSUME Shaped, NEW s \in Staff, req' = [req EXCEPT ![s] = Idle],
         tour' \in Tournament, announced' \in {announced, tour'.status},
         UNCHANGED <<reg, fixtures, told>>
  PROVE  Shaped'
<1>1. UNCHANGED <<reg, field, groups, played, seats, told>>
  BY DEF fixtures
<1>2. req' \in [Staff -> Request] /\ AskedWell'
  BY IdleReads DEF Shaped, TypeOK, AskedWell, Asked
<1>3. announced' \in Stages
  BY DEF Tournament, Shaped, TypeOK
<1>4. TypeOK'
  BY <1>1, <1>2, <1>3 DEF Shaped, TypeOK
<1> QED BY <1>2, <1>4 DEF Shaped

LEMMA EditEffect ==
  ASSUME Shaped, NEW s \in Staff, CommitEdit(s)
  PROVE  /\ req[s].kind = "edit" /\ Asked(req[s]) /\ tour' = req[s].row /\ tour' \in Tournament
         /\ announced' = IF tour'.status # req[s].from THEN tour'.status ELSE announced
         /\ UNCHANGED <<reg, fixtures, told>>
<1>1. req[s].kind = "edit" /\ req[s] \in Request /\ Asked(req[s])
  BY DEF CommitEdit, Commits, Shaped, TypeOK, AskedWell
<1>2. req[s].row \in Tournament
  BY <1>1 DEF Request, Idle
<1> QED BY <1>1, <1>2 DEF CommitEdit, UpdateTournament

LEMMA CancelEffect ==
  ASSUME Shaped, NEW s \in Staff, CommitCancel(s)
  PROVE  /\ tour' \in Tournament /\ tour'.status = "cancelled" /\ announced' = "cancelled"
         /\ UNCHANGED <<reg, fixtures, told>>
<1>1. tour' = [tour EXCEPT !.status = "cancelled"] /\ tour \in Tournament
  BY DEF CommitCancel, CancelTournament, Shaped, TypeOK
<1>2. tour' \in Tournament /\ tour'.status = "cancelled"
  BY <1>1 DEF Tournament, Stages
<1> QED BY <1>2 DEF CommitCancel

\* Nothing that a request reads is written.
LEMMA DrawShaped ==
  ASSUME Shaped, NEW s \in Staff, NEW f \in Formats, CommitGenerate(s, f),
         req' = [req EXCEPT ![s] = Idle]
  PROVE  Shaped'
<1>1. field = {} /\ groups = "none" /\ played = {}
  BY DEF CommitGenerate, Drawable, NoFixtures, Shaped, TypeOK
<1>2. UNCHANGED <<tour, reg, played, seats, told, announced>>
  BY DEF CommitGenerate
<1>3. field' = Approved /\ groups' \in {"none", "open", "over"} /\ Cardinality(field') >= 2
  BY DEF CommitGenerate, InsertPlan, Enough
<1>4. field' \subseteq Teams /\ field' # {} /\ Cardinality(field') # 1
  <2>1. field' \subseteq Teams
    BY <1>3 DEF Approved, With
  <2>2. Cardinality(field') \in Nat /\ Cardinality({}) = 0
    BY <2>1, EntriesAssumption, FS_Subset, FS_CardinalityType, FS_EmptySet
  <2> QED BY <1>3, <2>1, <2>2
<1>5. req' \in [Staff -> Request] /\ AskedWell'
  BY IdleReads DEF Shaped, TypeOK, AskedWell, Asked
<1>6. TypeOK'
  BY <1>1, <1>2, <1>3, <1>4, <1>5 DEF Shaped, TypeOK
<1> QED BY <1>5, <1>6 DEF Shaped

LEMMA RestShaped ==
  ASSUME Shaped, NEW s \in Staff, req' = [req EXCEPT ![s] = Idle], seats' \subseteq Teams,
         UNCHANGED <<tour, reg, field, groups, played, told, announced>>
  PROVE  Shaped'
<1>1. req' \in [Staff -> Request] /\ AskedWell'
  BY IdleReads DEF Shaped, TypeOK, AskedWell, Asked
<1>2. TypeOK'
  BY <1>1 DEF Shaped, TypeOK
<1> QED BY <1>1, <1>2 DEF Shaped

LEMMA ShapedEnds ==
  ASSUME Shaped, NEW s \in Staff, Ends(s)
  PROVE  Shaped'
<1>1. req' = [req EXCEPT ![s] = Idle]
  BY EndsEnd
<1>2. CASE CommitRegister(s)
  BY <1>1, <1>2, RegisterEffect, EntryShaped
<1>3. CASE CommitReview(s)
  BY <1>1, <1>3, ReviewEffect, EntryShaped
<1>4. CASE CommitWithdraw(s)
  BY <1>1, <1>4, WithdrawEffect, EntryShaped
<1>5. CASE CommitEdit(s)
  <2>1. /\ tour' \in Tournament /\ announced' \in {announced, tour'.status}
        /\ UNCHANGED <<reg, fixtures, told>>
    BY <1>5, EditEffect
  <2> QED BY <1>1, <2>1, TournamentShaped
<1>6. CASE CommitCancel(s)
  <2>1. /\ tour' \in Tournament /\ announced' \in {announced, tour'.status}
        /\ UNCHANGED <<reg, fixtures, told>>
    BY <1>6, CancelEffect
  <2> QED BY <1>1, <2>1, TournamentShaped
<1>7. ASSUME NEW f \in Formats, CommitGenerate(s, f) PROVE Shaped'
  BY <1>1, <1>7, DrawShaped
<1>8. ASSUME NEW S \in SUBSET Teams, CommitResolve(s, S) PROVE Shaped'
  BY <1>1, <1>8, RestShaped DEF CommitResolve
<1>9. CASE Fail(s)
  BY <1>1, <1>9, RestShaped DEF Fail, fixtures, Shaped, TypeOK
<1> QED BY <1>2, <1>3, <1>4, <1>5, <1>6, <1>7, <1>8, <1>9 DEF Ends

LEMMA PlayEffect ==
  ASSUME Shaped, NEW t \in Teams, NEW u \in Teams, PlayGroups(t, u)
  PROVE  Shaped' /\ UNCHANGED <<tour, reg, field, seats, told, announced, req>>
<1>1. UNCHANGED <<tour, reg, field, seats, told, announced, req>>
  BY DEF PlayGroups
<1>2. played' \subseteq field /\ groups' \in {"none", "open", "over"} /\ field # {}
  BY DEF PlayGroups, Shaped, TypeOK
<1>3. TypeOK'
  BY <1>1, <1>2 DEF Shaped, TypeOK
<1>4. AskedWell'
  BY <1>1 DEF Shaped, AskedWell, Asked
<1> QED BY <1>1, <1>3, <1>4 DEF Shaped

LEMMA ShapedStep == Shaped /\ [Next]_vars => Shaped'
<1> SUFFICES ASSUME Shaped, [Next]_vars PROVE Shaped'
  OBVIOUS
<1>1. CASE UNCHANGED vars
  <2>1. UNCHANGED <<tour, reg, field, groups, played, seats, told, announced, req>>
    BY <1>1 DEF vars, fixtures
  <2> QED BY <2>1 DEF Shaped, TypeOK, AskedWell, Asked
<1> QED BY <1>1, ShapedStarts, ShapedEnds, PlayEffect DEF Next

THEOREM ShapedHolds == Spec => []Shaped
BY ShapedInit, ShapedStep, PTL DEF Spec

\* Whatever overlaps, a drawing never has a single team and a concluded group
\* match never a team outside it (insertPlan, ErrTooFewParticipants).
THEOREM TypeCorrect == Spec => []TypeOK
<1>1. Shaped => TypeOK
  BY DEF Shaped
<1> QED BY <1>1, ShapedHolds, PTL

-----------------------------------------------------------------------------
(* The capacity.                                                           *)

LEMMA ActiveFinite ==
  IsFiniteSet(ActiveEntries) /\ Cardinality(ActiveEntries) \in Nat
<1>1. ActiveEntries \subseteq Teams
  BY DEF ActiveEntries, With
<1> QED BY <1>1, EntriesAssumption, FS_Subset, FS_CardinalityType

\* What grows is not part of what was.
LEMMA ActiveGrows ==
  ASSUME Cardinality(ActiveEntries') > Cardinality(ActiveEntries), ActiveEntries' \subseteq ActiveEntries
  PROVE  FALSE
<1>1. Cardinality(ActiveEntries') <= Cardinality(ActiveEntries)
  BY ActiveFinite, FS_Subset
<1>2. Cardinality(ActiveEntries') \in Nat
  BY ActiveFinite, FS_Subset, FS_CardinalityType
<1> QED BY <1>1, <1>2, ActiveFinite

\* A registration that still reads the capacity in force respects it.
LEMMA RegisterFits ==
  ASSUME Shaped, NEW s \in Staff, CommitRegister(s), req[s].row.cap = tour.cap, tour.cap # NoCap
  PROVE  Cardinality(ActiveEntries') <= tour.cap
<1>1. reg \in [Teams -> Statuses] /\ tour.cap \in Nat
  BY EntriesAssumption DEF Shaped, TypeOK, Tournament
<1>2. PICK t \in Teams : reg[t] = "none" /\ reg' = [reg EXCEPT ![t] = "pending"]
  BY RegisterEffect DEF Entry
<1>3. t \notin ActiveEntries /\ ActiveEntries' = ActiveEntries \cup {t}
  BY <1>1, <1>2 DEF ActiveEntries, With
<1>4. Cardinality(ActiveEntries') = Cardinality(ActiveEntries) + 1
  BY <1>3, ActiveFinite, FS_AddElement
<1>5. ~(Cardinality(ActiveEntries) >= tour.cap)
  BY RegisterEffect DEF Full
<1> QED BY <1>1, <1>4, <1>5, ActiveFinite

\* A review that still reads the status in force brings nobody back.
LEMMA ReviewShrinks ==
  ASSUME Shaped, NEW s \in Staff, CommitReview(s), req[s].was = reg[req[s].team]
  PROVE  ActiveEntries' \subseteq ActiveEntries
<1>1. reg \in [Teams -> Statuses]
  BY DEF Shaped, TypeOK
<1>2. PICK t \in Teams, to \in Statuses :
        reg' = [reg EXCEPT ![t] = to] /\ (to = reg[t] \/ MayReview(reg[t], to))
  BY ReviewEffect DEF Entry
<1> QED BY <1>1, <1>2 DEF MayReview, ActiveEntries, With

LEMMA CapStep ==
  ASSUME Shaped, [Next]_vars, Cardinality(ActiveEntries') > Cardinality(ActiveEntries)
  PROVE  \/ tour.cap = NoCap \/ Cardinality(ActiveEntries') <= tour.cap
         \/ \E s \in Staff : Ending(s) /\ Overtaken(s)
<1>1. ~ UNCHANGED reg
  BY ActiveGrows DEF ActiveEntries, With
<1>2. PICK s \in Staff : Ends(s)
  BY <1>1, ShapedStarts, PlayEffect DEF Next, vars
<1>3. Ending(s)
  BY <1>2, EndsEnd DEF Ending, Shaped, TypeOK
<1>4. CASE CommitRegister(s)
  <2>1. req[s].kind = "register"
    BY <1>4 DEF CommitRegister, Commits
  <2> QED BY <1>3, <1>4, <2>1, RegisterFits DEF Overtaken
<1>5. CASE CommitReview(s)
  <2>1. req[s].kind = "review" /\ req[s].was # reg[req[s].team]
    BY <1>5, ReviewEffect, ReviewShrinks, ActiveGrows
  <2> QED BY <1>3, <2>1 DEF Overtaken
<1>6. CASE CommitWithdraw(s)
  <2>1. ActiveEntries' \subseteq ActiveEntries
    BY <1>6, WithdrawEffect DEF Entry, Shaped, TypeOK, ActiveEntries, With
  <2> QED BY <2>1, ActiveGrows
<1> QED BY <1>1, <1>2, <1>4, <1>5, <1>6
        DEF Ends, CommitEdit, CommitCancel, CommitGenerate, CommitResolve, Fail

\* Rule 7 of the registration service, with every kind of request overlapping:
\* the entries go over the capacity in force only by a registration that read
\* another one, or by a review that read another status.
THEOREM CapacityHeld == Spec => CapHeld
<1> DEFINE Held == Cardinality(ActiveEntries') > Cardinality(ActiveEntries) =>
                     \/ tour.cap = NoCap \/ Cardinality(ActiveEntries') <= tour.cap
                     \/ \E s \in Staff : Ending(s) /\ Overtaken(s)
<1>1. Shaped /\ [Next]_vars => [Held]_vars
  BY CapStep
<1>2. Shaped /\ [Next]_vars =>
        [LET Active == {t \in Teams : reg[t] \in {"pending", "approved"}} IN
         Cardinality(Active') > Cardinality(Active) =>
           \/ tour.cap = NoCap \/ Cardinality(Active') <= tour.cap
           \/ \E s \in Staff : Ending(s) /\ Overtaken(s)]_vars
  BY <1>1 DEF ActiveEntries, With
<1> QED BY <1>2, ShapedHolds, PTL DEF Spec, CapHeld

-----------------------------------------------------------------------------
(* The second half, while no PATCH overlaps.                               *)

\* What is being patched has no other request beside it.
LEMMA PatchIsAlone ==
  ASSUME PatchesAlone, Alone,
         NEW s \in Staff, NEW u \in Staff, s # u, req[s] # Idle, req[u] # Idle
  PROVE  req[s].kind \notin {"review", "edit"} /\ req[u].kind \notin {"review", "edit"}
BY DEF PatchesAlone, Alone

\* The end of a request leaves what the others read as it was.
LEMMA EndKeepsReads ==
  ASSUME PatchesAlone, Promises, NEW s \in Staff, Ends(s)
  PROVE  Alone' /\ ReadsHold'
<1>1. /\ req[s] # Idle
      /\ \A u \in Staff : req'[u] = IF u = s THEN Idle ELSE req[u]
  BY EndsEnd DEF Promises, Shaped, TypeOK
<1>2. Alone'
  BY <1>1 DEF Promises, Alone, Idle
<1>3. ASSUME NEW u \in Staff PROVE Reads(req[u])'
  <2>1. CASE req'[u] = Idle
    BY <2>1 DEF Reads, Idle
  <2>2. CASE req'[u] # Idle
    <3>1. req'[u] = req[u] /\ req[u].kind \notin {"review", "edit"}
      BY <1>1, <2>2, PatchIsAlone DEF Promises
    <3> QED BY <3>1 DEF Reads
  <2> QED BY <2>1, <2>2
<1> QED BY <1>2, <1>3 DEF ReadsHold

\* A registration is written and its notice with it.
LEMMA EntryTold ==
  ASSUME TypeOK, NoticeTrue, NEW t, NEW to, NEW why, Entry(t, to, why),
         to \in {"approved", "rejected", "withdrawn"} => told' = Tell(t, reg[t], to)
  PROVE  NoticeTrue'
<1>1. t \in Teams /\ to \in Statuses /\ UNCHANGED <<tour, announced>>
  BY DEF Entry
<1>2. \A u \in Teams : reg'[u] = IF u = t THEN to ELSE reg[u]
  BY DEF Entry, TypeOK
<1>3. \A u \in Teams \ {t} : told'[u] = told[u]
  BY <1>1, TellTyped DEF Entry
<1>4. to \in {"approved", "rejected", "withdrawn"} => told'[t] = to
  <2>1. CASE to = reg[t]
    BY <1>1, <2>1, TellTyped DEF NoticeTrue
  <2>2. CASE to # reg[t]
    BY <1>1, <2>2, TellTyped
  <2> QED BY <2>1, <2>2
<1> QED BY <1>1, <1>2, <1>3, <1>4 DEF NoticeTrue

LEMMA PromisesEnds ==
  ASSUME PatchesAlone, Promises, NEW s \in Staff, Ends(s)
  PROVE  Promises'
<1>1. Shaped /\ TypeOK /\ NoticeTrue /\ ReadsHold
  BY DEF Promises, Shaped
<1>2. ASSUME CommitRegister(s) PROVE NoticeTrue'
  BY <1>1, <1>2, RegisterEffect, EntryTold
<1>3. ASSUME CommitReview(s) PROVE NoticeTrue'
  <2>1. req[s].was = reg[req[s].team]
    BY <1>1, <1>3, ReviewEffect DEF ReadsHold, Reads
  <2> QED BY <1>1, <1>3, <2>1, ReviewEffect, EntryTold
<1>4. ASSUME CommitWithdraw(s) PROVE NoticeTrue'
  BY <1>1, <1>4, WithdrawEffect, EntryTold
<1>5. ASSUME CommitEdit(s) PROVE NoticeTrue'
  <2>1. req[s].from = tour.status
    BY <1>1, <1>5, EditEffect DEF ReadsHold, Reads
  <2> QED BY <1>1, <1>5, <2>1, EditEffect DEF NoticeTrue
<1>6. ASSUME CommitCancel(s) PROVE NoticeTrue'
  BY <1>1, <1>6, CancelEffect DEF NoticeTrue
<1>7. ASSUME UNCHANGED <<tour, reg, told, announced>> PROVE NoticeTrue'
  BY <1>1, <1>7 DEF NoticeTrue
<1>8. NoticeTrue'
  BY <1>2, <1>3, <1>4, <1>5, <1>6, <1>7 DEF Ends, CommitGenerate, CommitResolve, Fail
<1> QED BY <1>1, <1>8, ShapedEnds, EndKeepsReads DEF Promises

LEMMA PromisesStep == ASSUME PatchesAlone PROVE Promises /\ [Next]_vars => Promises'
<1> SUFFICES ASSUME Promises, [Next]_vars PROVE Promises'
  OBVIOUS
<1>1. Shaped'
  BY ShapedStep DEF Promises
<1>2. ASSUME UNCHANGED <<tour, reg, told, announced, req>> PROVE Promises'
  BY <1>1, <1>2 DEF Promises, Alone, ReadsHold, Reads, NoticeTrue
<1>3. ASSUME NEW t \in Teams, NEW u \in Teams, PlayGroups(t, u) PROVE Promises'
  BY <1>2, <1>3, PlayEffect DEF Promises
<1> QED BY <1>2, <1>3, PromisesStarts, PromisesEnds DEF Next, vars

\* The inductive invariant holds in every state.
THEOREM PromisesHold == ASSUME PatchesAlone PROVE Spec => []Promises
BY PromisesInit, PromisesStep, PTL DEF Spec

\* The last outbox entry tells the status the row has: it is decided from the
\* status read before the transaction, which no overlapping request has moved.
THEOREM NoticesTrue == ASSUME PatchesAlone PROVE Spec => []NoticeTrue
<1>1. Promises => NoticeTrue
  BY DEF Promises
<1> QED BY <1>1, PromisesHold, PTL

-----------------------------------------------------------------------------
(* The refinement.                                                         *)

LEMMA TwoOfMany ==
  ASSUME NEW F, Cardinality(F) >= 2
  PROVE  \E t, u \in F : t # u
<1>1. CASE F = {}
  BY <1>1, FS_EmptySet
<1>2. ASSUME NEW t \in F, F = {t} PROVE FALSE
  BY <1>2, FS_Singleton
<1> QED BY <1>1, <1>2

Abstract == <<tour.status, reg, field, seats>>

\* A registration is written: a step of EntryMoves, or none at all.
LEMMA EntryRefines ==
  ASSUME TypeOK, NEW t, NEW to, NEW why, Entry(t, to, why),
         to = reg[t] \/ <<reg[t], to>> \in Lifecycle!EntryMoves
  PROVE  [Lifecycle!ENext]_Abstract
<1>1. t \in Teams /\ reg' = [reg EXCEPT ![t] = to] /\ UNCHANGED <<tour, field, seats>>
  BY DEF Entry, fixtures
<1>2. CASE to = reg[t]
  <2>1. reg' = reg
    BY <1>1, <1>2 DEF TypeOK
  <2> QED BY <1>1, <2>1 DEF Abstract
<1>3. CASE <<reg[t], to>> \in Lifecycle!EntryMoves
  <2>1. Lifecycle!Review(t, to) /\ <<reg[t], to>>[2] = to
    BY <1>1, <1>3 DEF Lifecycle!Review
  <2> QED BY <1>1, <1>3, <2>1 DEF Lifecycle!ENext
<1> QED BY <1>2, <1>3

LEMMA TournamentRefines ==
  ASSUME UNCHANGED <<reg, fixtures>>,
         \/ tour'.status = tour.status \/ MayMove(tour.status, tour'.status)
         \/ tour'.status = "cancelled"
  PROVE  [Lifecycle!ENext]_Abstract
<1>1. UNCHANGED <<reg, field, seats>>
  BY DEF fixtures
<1>2. CASE tour'.status = tour.status
  BY <1>1, <1>2 DEF Abstract
<1>3. CASE MayMove(tour.status, tour'.status) \/ tour'.status = "cancelled"
  BY <1>1, <1>3 DEF MayMove, Lifecycle!Advance, Lifecycle!StageMoves, Lifecycle!ENext
<1> QED BY <1>2, <1>3

LEMMA EndsRefine ==
  ASSUME Promises, NEW s \in Staff, Ends(s)
  PROVE  [Lifecycle!ENext]_Abstract
<1>1. Shaped /\ TypeOK /\ ReadsHold
  BY DEF Promises, Shaped
<1>2. CASE CommitRegister(s)
  BY <1>1, <1>2, RegisterEffect, EntryRefines DEF Lifecycle!EntryMoves
<1>3. CASE CommitReview(s)
  <2>1. req[s].was = reg[req[s].team]
    BY <1>1, <1>3, ReviewEffect DEF ReadsHold, Reads
  <2>2. req[s].to = reg[req[s].team] \/ <<reg[req[s].team], req[s].to>> \in Lifecycle!EntryMoves
    BY <1>1, <1>3, <2>1, ReviewEffect DEF MayReview, Lifecycle!EntryMoves
  <2> QED BY <1>1, <1>3, <2>2, ReviewEffect, EntryRefines
<1>4. CASE CommitWithdraw(s)
  BY <1>1, <1>4, WithdrawEffect, EntryRefines DEF Lifecycle!EntryMoves
<1>5. CASE CommitEdit(s)
  <2>1. req[s].from = tour.status
    BY <1>1, <1>5, EditEffect DEF ReadsHold, Reads
  <2> QED BY <1>1, <1>5, <2>1, EditEffect, TournamentRefines DEF Asked
<1>6. CASE CommitCancel(s)
  BY <1>1, <1>6, CancelEffect, TournamentRefines
<1>7. ASSUME NEW f \in Formats, CommitGenerate(s, f)
      PROVE  [Lifecycle!ENext]_Abstract
  <2>1. /\ UNCHANGED <<tour, reg, seats>> /\ field' = Approved
        /\ Drawable /\ Cardinality(Approved) >= 2
    BY <1>7 DEF CommitGenerate, InsertPlan, Enough
  <2>2. \E t, u \in Approved : t # u
    BY <2>1, TwoOfMany
  <2>3. Approved \in SUBSET Teams /\ Lifecycle!Draw(Approved)
    BY <2>1, <2>2 DEF Drawable, NoFixtures, Approved, With, Lifecycle!Draw
  <2> QED BY <2>3 DEF Lifecycle!ENext
<1>8. ASSUME NEW S \in SUBSET Teams, CommitResolve(s, S)
      PROVE  [Lifecycle!ENext]_Abstract
  <2>1. Lifecycle!Seat(S)
    BY <1>1, <1>8 DEF CommitResolve, SlotsEmpty, Ranked, TypeOK, Lifecycle!Seat
  <2> QED BY <2>1 DEF Lifecycle!ENext
<1>9. CASE Fail(s)
  BY <1>9 DEF Fail, fixtures, Abstract
<1> QED BY <1>2, <1>3, <1>4, <1>5, <1>6, <1>7, <1>8, <1>9 DEF Ends

\* Both allowedTransitions tables, ErrFixturesExist and ResolveQualifiers: while
\* no PATCH overlaps, tournament, registrations, drawing and seating move as
\* EntryLifecycle says.
THEOREM ImplementsLifecycle == ASSUME PatchesAlone PROVE Spec => FollowsEntryLifecycle
<1>1. Init => Lifecycle!EInit
  BY DEF Init, Lifecycle!EInit
<1>2. ASSUME Promises, [Next]_vars
      PROVE  [Lifecycle!ENext]_<<tour.status, reg, field, seats>>
  <2>1. CASE UNCHANGED <<tour, reg, field, seats>>
    BY <2>1
  <2>2. ASSUME NEW s \in Staff, Ends(s) PROVE [Lifecycle!ENext]_<<tour.status, reg, field, seats>>
    BY <1>2, <2>2, EndsRefine DEF Abstract
  <2>3. ASSUME NEW s \in Staff, Starts(s) PROVE UNCHANGED <<tour, reg, field, seats>>
    BY <1>2, <2>3, ShapedStarts DEF Promises
  <2>4. ASSUME NEW t \in Teams, NEW u \in Teams, PlayGroups(t, u)
        PROVE  UNCHANGED <<tour, reg, field, seats>>
    BY <1>2, <2>4, PlayEffect DEF Promises
  <2>5. CASE UNCHANGED vars
    BY <2>1, <2>5 DEF vars, fixtures
  <2> QED BY <1>2, <2>1, <2>2, <2>3, <2>4, <2>5 DEF Next
<1> QED BY <1>1, <1>2, PromisesHold, PTL DEF Spec, FollowsEntryLifecycle, Lifecycle!ESpec
=============================================================================

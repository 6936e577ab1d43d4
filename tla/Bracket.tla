------------------------------ MODULE Bracket -------------------------------
(***************************************************************************)
(* The matches of one tournament (internal/matches): concurrent requests   *)
(* that create, edit, link, start, complete, walk over and cancel them,    *)
(* and the propagation of winners through the bracket.                     *)
(*                                                                         *)
(* A request reads first and writes later: the service reads the row and   *)
(* checks it, the repository then runs one transaction that rewrites the   *)
(* whole row if its status is still the one read.  Other requests commit   *)
(* in between.  A PATCH changes one group of fields; the others are        *)
(* written back as they were read.                                         *)
(***************************************************************************)
CONSTANTS Matches,   \* match ids
          Entrants,  \* registered teams (or players)
          TBD,       \* no participant, no winner
          NoMatch,   \* no successor
          Staff,     \* requests being served at the same time
          Kinds,     \* the kinds of request that are made, among KindsOfRequest
          Drawn      \* the matches the tournament starts with, per id a Row

Statuses == {"none", "scheduled", "live", "completed", "walkover", "abandoned", "cancelled"}
Terminal == {"completed", "walkover", "abandoned", "cancelled"}
Concluded == {"completed", "walkover"}
Slots == {1, 2}
KindsOfRequest == {"create", "details", "participants", "link", "status",
                   "walkover", "cancel"}

Entry == Entrants \cup {TBD}
Row == [status : Statuses, home : Entry, away : Entry, winner : Entry,
        next : Matches \cup {NoMatch}, slot : Slots \cup {0}]
Unborn == [status |-> "none", home |-> TBD, away |-> TBD, winner |-> TBD,
           next |-> NoMatch, slot |-> 0]

\* A row's link is whole, and a row that is not over has no winner.
Wellformed(r) == /\ r.next = NoMatch <=> r.slot = 0
                 /\ r.status \notin Concluded => r.winner = TBD

ASSUME BracketAssumption ==
  /\ TBD \notin Entrants /\ NoMatch \notin Matches
  /\ Kinds \subseteq KindsOfRequest
  /\ Drawn \in [Matches -> Row]
  /\ \A m \in Matches : /\ Drawn[m].status \in {"none", "scheduled"}
                        /\ Wellformed(Drawn[m])
                        /\ Drawn[m].next \notin {m}

VARIABLES
  row,      \* the matches table
  ongoing,  \* the tournament's status is ongoing
  req       \* per staff request: what it read and means to write

vars == <<row, ongoing, req>>

\* op: what the request does; stage: "linking" before validateLinkage has read
\* the successor, then "ready"; was: the status read (the compare-and-swap
\* guard); new: the row it is going to write.
Request == [op : {"idle", "create", "update", "walkover", "cancel"},
            stage : {"linking", "ready"},
            match : Matches \cup {NoMatch}, was : Statuses, new : Row]
Idle == [op |-> "idle", stage |-> "ready", match |-> NoMatch, was |-> "none", new |-> Unborn]

-----------------------------------------------------------------------------
(* Guards.                                                                 *)

\* bothParticipantsAssigned
BothAssigned(r) == r.home # TBD /\ r.away # TBD

Feeds(m, n, k) == /\ row[m].next = n /\ row[m].slot = k
                  /\ row[m].status \notin {"none", "cancelled"}

\* CountMatchesFeedingSlot
OtherFeeders(n, k, self) == {m \in Matches \ {self} : Feeds(m, n, k)}

\* Mutant: any move that leaves a status that is not terminal.
AnyStatus(from, to) == from \notin Terminal

\* allowedTransitions
Allowed(from, to) ==
  \/ from = "scheduled" /\ to \in {"live", "cancelled"}
  \/ from = "live" /\ to \in {"completed", "abandoned", "cancelled"}

\* AND status = previous_status
Unmoved(s) == row[req[s].match].status = req[s].was

\* Mutant: only the completion asks for both participants.
StartedOnly(r, st) == st = "completed" => BothAssigned(r)

\* I1: no start and no completion with a slot to be determined.
Playable(r, st) == st \in {"live", "completed"} => BothAssigned(r)

\* GetMatchByID
MatchFound(m) == row[m].status # "none"

\* validateNoDuplicates, validateParticipantEligibility: two different entrants.
Eligible(h, a) == {h, a} \subseteq Entrants /\ h # a

-----------------------------------------------------------------------------
(* The first half of a request: read and check.                            *)

Begin(s, kind, op, stage, m, new) ==
  /\ kind \in Kinds
  /\ req[s] = Idle
  /\ req' = [req EXCEPT ![s] = [op |-> op, stage |-> stage, match |-> m,
                                was |-> row[m].status, new |-> new]]
  /\ UNCHANGED <<row, ongoing>>

\* Create: a TBD match, or one with two different entrants.
StartCreate(s, m, h, a, n, k) ==
  /\ ongoing
  /\ ~MatchFound(m) /\ \A t \in Staff : req[t].match # m
  /\ {h, a} = {TBD} \/ Eligible(h, a)
  /\ n = NoMatch <=> k = 0
  /\ Begin(s, "create", "create", IF n = NoMatch THEN "ready" ELSE "linking", m,
           [Unborn EXCEPT !.status = "scheduled", !.home = h, !.away = a,
                          !.next = n, !.slot = k])

Editable(m) == row[m].status \in {"scheduled", "live"}

\* PATCH of venue, time, notes: every modelled field is written back as read.
StartDetails(s, m) ==
  /\ Editable(m)
  /\ Begin(s, "details", "update", "ready", m, row[m])

\* PATCH of participants: both are set and differ.
StartParticipants(s, m, h, a) ==
  /\ Editable(m) /\ Eligible(h, a)
  /\ Begin(s, "participants", "update", "ready", m, [row[m] EXCEPT !.home = h, !.away = a])

\* PATCH of the bracket link, or its removal.
StartLink(s, m, n, k) ==
  /\ Editable(m)
  /\ n = NoMatch <=> k = 0
  /\ Begin(s, "link", "update", IF n = NoMatch THEN "ready" ELSE "linking", m,
           [row[m] EXCEPT !.next = n, !.slot = k])

\* PATCH of the status, with the winner of a completion.
StartStatus(s, m, st, w) ==
  /\ Editable(m) /\ Allowed(row[m].status, st)
  /\ Playable(row[m], st)
  /\ w # TBD => st = "completed" /\ w \in {row[m].home, row[m].away}
  /\ Begin(s, "status", "update", "ready", m, [row[m] EXCEPT !.status = st, !.winner = w])

\* Walkover: the winning side is resolved to an entrant now.
StartWalkover(s, m, w) ==
  /\ Editable(m) /\ BothAssigned(row[m])
  /\ w \in {row[m].home, row[m].away}
  /\ Begin(s, "walkover", "walkover", "ready", m, [row[m] EXCEPT !.winner = w])

\* DELETE.
StartCancel(s, m) ==
  /\ Editable(m)
  /\ Begin(s, "cancel", "cancel", "ready", m, row[m])

\* validateLinkage: the successor exists, is another match, and no other
\* match feeds the slot.
CheckLink(s) ==
  LET q == req[s] IN
  /\ q.stage = "linking"
  /\ q.new.next # q.match /\ MatchFound(q.new.next)
  /\ OtherFeeders(q.new.next, q.new.slot, q.match) = {}
  /\ req' = [req EXCEPT ![s].stage = "ready"]
  /\ UNCHANGED <<row, ongoing>>

-----------------------------------------------------------------------------
(* The second half: the transaction.                                       *)

Commits(s, op) == /\ req[s].op = op /\ req[s].stage = "ready"
                  /\ req' = [req EXCEPT ![s] = Idle]
                  /\ UNCHANGED ongoing

\* propagateWinner: the winner of a row just written goes into its fixed slot
\* of a successor, which must still be scheduled.
Advances(r) == r.next # NoMatch /\ r.winner # TBD

\* LockMatchForProgression: the successor as it is under its lock.
Successor(r) == row[r.next]
MayAdvance(r) == Advances(r) => Successor(r).status = "scheduled"

\* The participant in a slot.
Seat(r, k) == IF k = 1 THEN r.home ELSE r.away

\* Mutant: the winner goes into the home slot, whatever the link says.
FillHome(r, k, w) == [r EXCEPT !.home = w]

Fill(r, k, w) == IF k = 1 THEN [r EXCEPT !.home = w] ELSE [r EXCEPT !.away = w]

\* The table after row r of match m was written and its winner propagated.
Written(m, r) == [n \in Matches |->
  IF n = m THEN r
  ELSE IF Advances(r) /\ n = r.next THEN Fill(row[n], r.slot, r.winner)
  ELSE row[n]]

\* validateWinnerVsScore: for some final score the winner named is the
\* winner of the participants under the lock, or absent after a draw.
Plausible(w, m) == w \in {TBD, row[m].home, row[m].away}

CommitCreate(s) ==
  /\ Commits(s, "create")
  /\ ongoing
  /\ row' = [row EXCEPT ![req[s].match] = req[s].new]

\* UpdateWithAudit.
CommitUpdate(s) ==
  LET q == req[s] IN
  /\ Commits(s, "update")
  /\ Unmoved(s)
  /\ q.new.status # q.was /\ q.new.status # "cancelled" => ongoing
  /\ q.new.status = "completed" => Plausible(q.new.winner, q.match) /\ MayAdvance(q.new)
  /\ row' = Written(q.match, q.new)

\* WalkoverWithAudit: only status and winner are written; the constraint
\* chk_matches_winner_is_participant passes when it compares with NULL.
CommitWalkover(s) ==
  LET q == req[s]
      r == [row[q.match] EXCEPT !.status = "walkover", !.winner = q.new.winner] IN
  /\ Commits(s, "walkover")
  /\ ongoing
  /\ Unmoved(s)
  /\ r.winner \in {r.home, r.away} \/ TBD \in {r.home, r.away}
  /\ MayAdvance(r)
  /\ row' = Written(q.match, r)

\* CancelMatch.
Cancelled(m) == [row EXCEPT ![m].status = "cancelled"]

\* CancelWithAudit.
CommitCancel(s) ==
  /\ Commits(s, "cancel")
  /\ Unmoved(s)
  /\ row' = Cancelled(req[s].match)

\* A request ends without effect: a check refuses it, the transaction is
\* rolled back, the connection or the server dies.
Fail(s) ==
  /\ req[s] # Idle
  /\ req' = [req EXCEPT ![s] = Idle]
  /\ UNCHANGED <<row, ongoing>>

\* The tournament is completed or cancelled.
TournamentEnds ==
  /\ ongoing
  /\ ongoing' = FALSE
  /\ UNCHANGED <<row, req>>

-----------------------------------------------------------------------------

Init == /\ row = Drawn
        /\ ongoing = TRUE
        /\ req = [s \in Staff |-> Idle]

Starts(s, m) ==
  \/ \E h, a \in Entry, n \in Matches \cup {NoMatch}, k \in Slots \cup {0} :
       StartCreate(s, m, h, a, n, k)
  \/ StartDetails(s, m)
  \/ \E h, a \in Entrants : StartParticipants(s, m, h, a)
  \/ \E n \in Matches \cup {NoMatch}, k \in Slots \cup {0} : StartLink(s, m, n, k)
  \/ \E st \in Statuses, w \in Entry : StartStatus(s, m, st, w)
  \/ \E w \in Entrants : StartWalkover(s, m, w)
  \/ StartCancel(s, m)

Ends(s) == CommitCreate(s) \/ CommitUpdate(s) \/ CommitWalkover(s) \/ CommitCancel(s) \/ Fail(s)

Next == \/ \E s \in Staff : (\E m \in Matches : Starts(s, m)) \/ CheckLink(s) \/ Ends(s)
        \/ TournamentEnds

Spec == Init /\ [][Next]_vars

-----------------------------------------------------------------------------
(* Properties.                                                             *)

TypeOK == /\ row \in [Matches -> Row]
          /\ ongoing \in BOOLEAN
          /\ req \in [Staff -> Request]

\* A match that is over never changes again (terminalStatuses and the
\* compare-and-swap on status), whatever stale request commits later.
ResultsFinal == [][\A m \in Matches : row[m].status \in Terminal => row'[m] = row[m]]_vars

\* Statuses and winners move as MatchLifecycle says.
Lifecycle == INSTANCE MatchLifecycle WITH
               Results <- Entry, NoResult <- TBD,
               state <- [m \in Matches |-> row[m].status],
               result <- [m \in Matches |-> row[m].winner]
LifecycleKept == Lifecycle!MSpec

\* I1: a match is live or completed with both participants known, and a
\* completed match is won by one of them or drawn.
PlayedByTwo == \A m \in Matches : row[m].status \in {"live", "completed"} =>
  TBD \notin {row[m].home, row[m].away} /\ row[m].winner \in {TBD, row[m].home, row[m].away}

\* I1 for walkovers (ErrWalkoverNeedsParticipants).
WalkoverOfTwo == \A m \in Matches : row[m].status = "walkover" =>
  TBD \notin {row[m].home, row[m].away} /\ row[m].winner \in {row[m].home, row[m].away}

\* What fixturegen draws: a slot that is fed is empty and has one feeder.
WellDrawn == \A m, n \in Matches : Drawn[m].next = n =>
  /\ Seat(Drawn[n], Drawn[m].slot) = TBD
  /\ \A p \in Matches : Drawn[p].next = n /\ Drawn[p].slot = Drawn[m].slot => p = m

\* In a bracket that is only played, a match starts after its feeders are over.
FeedersFirst == \A m \in Matches : \A n \in Matches :
  row[m].next = n /\ row[n].status \in {"live", "completed", "walkover"} =>
    row[m].status \in Concluded

\* There too, whoever sits in a slot that is fed is the winner that
\* propagateWinner put there, and it plays with its fed slots taken.  A stale
\* PATCH may empty a slot again, but puts nobody else there, and the match
\* cannot be played then.
FedByWinners == \A m, n \in Matches :
  row[m].status \in Concluded /\ row[m].next = n =>
    /\ Seat(row[n], row[m].slot) \in {row[m].winner, TBD}
    /\ row[n].status \in {"live", "completed"} => Seat(row[n], row[m].slot) = row[m].winner
=============================================================================

--------------------------- MODULE BracketProofs ----------------------------
(***************************************************************************)
(* Proofs about Bracket, for any matches, entrants and initial drawing and  *)
(* any number of requests in progress.                                     *)
(***************************************************************************)
EXTENDS Bracket, TLAPS

-----------------------------------------------------------------------------
(* The invariant.  A request outlives the row it read, so what keeps the    *)
(* table sound must also hold of every row that waits to be written.        *)

Open == {"scheduled", "live"}

\* A row that may be in the table.
Fit(r) == /\ r.status \notin Concluded => r.winner = TBD
          /\ r.status \in {"live", "completed"} =>
               BothAssigned(r) /\ r.winner \in {TBD, r.home, r.away}

\* What a request means to write follows from the status it read.
Sane(q) ==
  /\ q.op # "idle" => q.match \in Matches
  /\ q.op = "create" => q.new.status = "scheduled" /\ q.new.winner = TBD
  /\ q.op \in {"update", "walkover", "cancel"} => q.was \in Open
  /\ q.op = "update" => Fit(q.new) /\ (q.new.status = q.was \/ Allowed(q.was, q.new.status))

RowsFit == \A m \in Matches : Fit(row[m])
RequestsSane == \A s \in Staff : Sane(req[s])
CreatesFresh == \A s \in Staff : req[s].op = "create" =>
  /\ row[req[s].match].status = "none"
  /\ \A t \in Staff \ {s} : req[t].match # req[s].match

Sound == TypeOK /\ RowsFit /\ RequestsSane /\ CreatesFresh

\* How one match may move: MatchLifecycle for a single row.
Moved(r, r2) ==
  \/ r.status \in Open /\ r2.status = r.status /\ r2.winner = r.winner
  \/ r.status = "none" /\ r2.status = "scheduled" /\ r2.winner = r.winner
  \/ r.status = "scheduled" /\ r2.status \in {"live", "cancelled"} /\ r2.winner = r.winner
  \/ r.status = "live" /\ r2.status \in {"abandoned", "cancelled"} /\ r2.winner = r.winner
  \/ r.status = "live" /\ r2.status = "completed"
  \/ r.status \in Open /\ r2.status = "walkover"

\* A row is left alone, or one of its seats is taken before it starts.
Seated(r, r2) ==
  \/ r2 = r
  \/ r.status = "scheduled" /\ r2.status = "scheduled" /\ r2.winner = r.winner

\* What the commit of request s does to the table.
Effect(s) ==
  /\ req[s].match \in Matches
  /\ row' \in [Matches -> Row]
  /\ Fit(row'[req[s].match])
  /\ Moved(row[req[s].match], row'[req[s].match])
  /\ \A n \in Matches \ {req[s].match} : Seated(row[n], row'[n])

-----------------------------------------------------------------------------

LEMMA IdleRequest == Idle \in Request /\ Sane(Idle)
<1>1. Unborn \in Row
  BY DEF Unborn, Row, Entry, Statuses, Slots
<1> QED BY <1>1 DEF Idle, Request, Sane, Statuses

LEMMA SoundInit == Init => Sound
<1> SUFFICES ASSUME Init PROVE Sound
  OBVIOUS
<1>1. TypeOK
  BY BracketAssumption, IdleRequest DEF Init, TypeOK
<1>2. RowsFit
  BY BracketAssumption DEF Init, RowsFit, Fit, Wellformed, Concluded
<1>3. RequestsSane /\ CreatesFresh
  BY IdleRequest DEF Init, RequestsSane, CreatesFresh, Idle
<1> QED BY <1>1, <1>2, <1>3 DEF Sound

\* A step that only starts, advances or drops a request.
LEMMA RequestStep ==
  ASSUME Sound, NEW s \in Staff, NEW q \in Request, Sane(q),
         row' = row, ongoing' = ongoing, req' = [req EXCEPT ![s] = q],
         q.op = "create" => /\ row[q.match].status = "none"
                            /\ \A t \in Staff \ {s} : req[t].match # q.match,
         q.op # "create" => q.match \in {NoMatch, req[s].match} \/ row[q.match].status # "none"
  PROVE  Sound'
<1>1. TypeOK'
  BY DEF Sound, TypeOK
<1>2. \A t \in Staff : req'[t] = IF t = s THEN q ELSE req[t]
  BY DEF Sound, TypeOK
<1>3. RowsFit' /\ RequestsSane'
  BY <1>2 DEF Sound, RowsFit, RequestsSane
<1>4. CreatesFresh'
  <2> SUFFICES ASSUME NEW t \in Staff, req'[t].op = "create"
               PROVE  /\ row[req'[t].match].status = "none"
                      /\ \A u \in Staff \ {t} : req'[u].match # req'[t].match
    BY DEF CreatesFresh
  <2>1. CASE t = s
    BY <1>2, <2>1
  <2>2. CASE t # s
    <3>1. /\ req'[t] = req[t] /\ req[t].op = "create" /\ req[t].match \in Matches
          /\ row[req[t].match].status = "none"
          /\ \A u \in Staff \ {t} : req[u].match # req[t].match
      BY <1>2, <2>2 DEF Sound, CreatesFresh, RequestsSane, Sane
    <3>2. q.match # req[t].match
      BY <2>2, <3>1, BracketAssumption
    <3> QED BY <1>2, <2>2, <3>1, <3>2
  <2> QED BY <2>1, <2>2
<1> QED BY <1>1, <1>3, <1>4 DEF Sound

\* A step that commits a request.
LEMMA CommitStep ==
  ASSUME Sound, NEW s \in Staff, Effect(s), ongoing' = ongoing,
         req' = [req EXCEPT ![s] = Idle]
  PROVE  Sound'
<1>1. TypeOK'
  BY IdleRequest DEF Sound, TypeOK, Effect
<1>2. \A t \in Staff : req'[t] = IF t = s THEN Idle ELSE req[t]
  BY DEF Sound, TypeOK
<1>3. RowsFit'
  BY DEF Sound, RowsFit, Effect, Seated, Fit, Concluded
<1>4. RequestsSane'
  BY <1>2, IdleRequest DEF Sound, RequestsSane
<1>5. CreatesFresh'
  <2> SUFFICES ASSUME NEW t \in Staff, req'[t].op = "create"
               PROVE  /\ row'[req'[t].match].status = "none"
                      /\ \A u \in Staff \ {t} : req'[u].match # req'[t].match
    BY DEF CreatesFresh
  <2>1. t # s /\ req'[t] = req[t]
    BY <1>2 DEF Idle
  <2>2. /\ req[t].match \in Matches /\ row[req[t].match].status = "none"
        /\ \A u \in Staff \ {t} : req[u].match # req[t].match
    BY <2>1 DEF Sound, CreatesFresh, RequestsSane, Sane
  <2>3. row'[req[t].match].status = "none"
    BY <2>1, <2>2 DEF Effect, Seated
  <2>4. Idle.match # req[t].match
    BY <2>2, BracketAssumption DEF Idle
  <2> QED BY <1>2, <2>1, <2>2, <2>3, <2>4
<1> QED BY <1>1, <1>3, <1>4, <1>5 DEF Sound

-----------------------------------------------------------------------------
(* Starting, checking and dropping a request.                              *)

LEMMA Starting ==
  ASSUME Sound, NEW s \in Staff, NEW m \in Matches, Starts(s, m)
  PROVE  Sound'
<1> DEFINE Asks(op, stage, new) ==
      [op |-> op, stage |-> stage, match |-> m, was |-> row[m].status, new |-> new]
<1>1. row[m] \in Row /\ Fit(row[m]) /\ req[s] \in Request
  BY DEF Sound, TypeOK, RowsFit
<1>2. ASSUME NEW kind, NEW stage \in {"linking", "ready"}, NEW op \in {"update", "walkover", "cancel"},
             NEW new \in Row, Editable(m), Begin(s, kind, op, stage, m, new),
             op = "update" => Fit(new) /\ (new.status = row[m].status \/ Allowed(row[m].status, new.status))
      PROVE  Sound'
  <2> DEFINE q == Asks(op, stage, new)
  <2>1. q \in Request /\ q.op # "create"
    BY <1>1, <1>2 DEF Request, Row
  <2>2. Sane(q)
    BY <1>2 DEF Sane, Editable, Open
  <2>3. row' = row /\ ongoing' = ongoing /\ req' = [req EXCEPT ![s] = q]
    BY <1>2 DEF Begin
  <2>4. row[q.match].status # "none"
    BY <1>2 DEF Editable
  <2> HIDE DEF q
  <2> QED BY <2>1, <2>2, <2>3, <2>4, RequestStep
<1>3. ASSUME NEW h \in Entry, NEW a \in Entry, NEW n \in Matches \cup {NoMatch},
             NEW k \in Slots \cup {0}, StartCreate(s, m, h, a, n, k)
      PROVE  Sound'
  <2> DEFINE new == [Unborn EXCEPT !.status = "scheduled", !.home = h, !.away = a,
                                   !.next = n, !.slot = k]
             stage == IF n = NoMatch THEN "ready" ELSE "linking"
             q == Asks("create", stage, new)
  <2>1. new \in Row /\ new.status = "scheduled" /\ new.winner = TBD
    BY DEF Unborn, Row, Entry, Statuses
  <2>2. q \in Request
    BY <1>1, <2>1 DEF Request, Row
  <2>3. Sane(q)
    BY <2>1 DEF Sane
  <2>4. row' = row /\ ongoing' = ongoing /\ req' = [req EXCEPT ![s] = q]
    BY <1>3 DEF StartCreate, Eligible, Begin
  <2>5. q.op = "create" /\ row[q.match].status = "none" /\ \A t \in Staff \ {s} : req[t].match # q.match
    BY <1>3 DEF StartCreate, MatchFound
  <2> HIDE DEF q
  <2> QED BY <2>2, <2>3, <2>4, <2>5, RequestStep
<1>4. CASE StartDetails(s, m)
  <2>1. Editable(m) /\ Begin(s, "details", "update", "ready", m, row[m])
    BY <1>4 DEF StartDetails
  <2> QED BY <1>1, <1>2, <2>1
<1>5. ASSUME NEW h \in Entrants, NEW a \in Entrants, StartParticipants(s, m, h, a)
      PROVE  Sound'
  <2> DEFINE new == [row[m] EXCEPT !.home = h, !.away = a]
  <2>1. Editable(m) /\ Begin(s, "participants", "update", "ready", m, new)
    BY <1>5 DEF StartParticipants, Eligible
  <2>2. new \in Row /\ new.status = row[m].status
    BY <1>1 DEF Row, Entry
  <2>3. Fit(new)
    BY <1>1, <2>1, BracketAssumption DEF Fit, Editable, Concluded, BothAssigned, Row
  <2> HIDE DEF new
  <2> QED BY <1>2, <2>1, <2>2, <2>3
<1>6. ASSUME NEW n \in Matches \cup {NoMatch}, NEW k \in Slots \cup {0}, StartLink(s, m, n, k)
      PROVE  Sound'
  <2> DEFINE new == [row[m] EXCEPT !.next = n, !.slot = k]
             stage == IF n = NoMatch THEN "ready" ELSE "linking"
  <2>1. Editable(m) /\ Begin(s, "link", "update", stage, m, new)
    BY <1>6 DEF StartLink
  <2>2. new \in Row /\ new.status = row[m].status
    BY <1>1 DEF Row
  <2>3. Fit(new)
    BY <1>1 DEF Fit, BothAssigned, Row
  <2>4. stage \in {"linking", "ready"}
    OBVIOUS
  <2> HIDE DEF new, stage
  <2> QED BY <1>2, <2>1, <2>2, <2>3, <2>4
<1>7. ASSUME NEW st \in Statuses, NEW w \in Entry, StartStatus(s, m, st, w)
      PROVE  Sound'
  <2> DEFINE new == [row[m] EXCEPT !.status = st, !.winner = w]
  <2>1. Editable(m) /\ Allowed(row[m].status, st) /\ Begin(s, "status", "update", "ready", m, new)
    BY <1>7 DEF StartStatus
  <2>2. new \in Row /\ new.status = st
    BY <1>1 DEF Row
  <2>3. Fit(new)
    <3>1. /\ new.winner = w /\ new.home = row[m].home /\ new.away = row[m].away
          /\ st \in {"live", "completed"} => row[m].home # TBD /\ row[m].away # TBD
          /\ w # TBD => st = "completed" /\ w \in {row[m].home, row[m].away}
          /\ st # "walkover"
      BY <1>1, <1>7 DEF StartStatus, Playable, BothAssigned, Row, Allowed
    <3> HIDE DEF new
    <3> QED BY <2>2, <3>1 DEF Fit, BothAssigned, Concluded
  <2> HIDE DEF new
  <2> QED BY <1>2, <2>1, <2>2, <2>3
<1>8. ASSUME NEW w \in Entrants, StartWalkover(s, m, w) PROVE Sound'
  <2> DEFINE new == [row[m] EXCEPT !.winner = w]
  <2>1. Editable(m) /\ Begin(s, "walkover", "walkover", "ready", m, new)
    BY <1>8 DEF StartWalkover
  <2>2. new \in Row
    BY <1>1 DEF Row, Entry
  <2> HIDE DEF new
  <2> QED BY <1>2, <2>1, <2>2
<1>9. CASE StartCancel(s, m)
  <2>1. Editable(m) /\ Begin(s, "cancel", "cancel", "ready", m, row[m])
    BY <1>9 DEF StartCancel
  <2> QED BY <1>1, <1>2, <2>1
<1> QED BY <1>3, <1>4, <1>5, <1>6, <1>7, <1>8, <1>9 DEF Starts

LEMMA Checking ==
  ASSUME Sound, NEW s \in Staff, CheckLink(s)
  PROVE  Sound'
<1> DEFINE q == [req[s] EXCEPT !.stage = "ready"]
<1>1. req[s] \in Request /\ Sane(req[s])
  BY DEF Sound, TypeOK, RequestsSane
<1>2. /\ q \in Request /\ q.op = req[s].op /\ q.match = req[s].match
      /\ q.was = req[s].was /\ q.new = req[s].new
  BY <1>1 DEF Request
<1>3. Sane(q)
  BY <1>1, <1>2 DEF Sane
<1>4. row' = row /\ ongoing' = ongoing /\ req' = [req EXCEPT ![s] = q]
  BY DEF CheckLink, MatchFound
<1>5. q.op = "create" => /\ row[q.match].status = "none"
                         /\ \A t \in Staff \ {s} : req[t].match # q.match
  BY <1>2 DEF Sound, CreatesFresh
<1> HIDE DEF q
<1> QED BY <1>2, <1>3, <1>4, <1>5, RequestStep

LEMMA Failing ==
  ASSUME Sound, NEW s \in Staff, Fail(s)
  PROVE  Sound'
<1>1. Idle \in Request /\ Sane(Idle) /\ Idle.op # "create" /\ Idle.match = NoMatch
  BY IdleRequest DEF Idle
<1>2. row' = row /\ ongoing' = ongoing /\ req' = [req EXCEPT ![s] = Idle]
  BY DEF Fail
<1> QED BY <1>1, <1>2, RequestStep

-----------------------------------------------------------------------------
(* Committing a request.                                                   *)

\* The two rows a conclusion writes.
LEMMA WrittenRows ==
  ASSUME Sound, NEW m \in Matches, NEW r \in Row, MayAdvance(r), row' = Written(m, r)
  PROVE  /\ row' \in [Matches -> Row]
         /\ row'[m] = r
         /\ \A n \in Matches \ {m} : Seated(row[n], row'[n])
<1>1. \A n \in Matches : row[n] \in Row
  BY DEF Sound, TypeOK
<1>2. \A n \in Matches : /\ Fill(row[n], r.slot, r.winner) \in Row
                         /\ Fill(row[n], r.slot, r.winner).status = row[n].status
                         /\ Fill(row[n], r.slot, r.winner).winner = row[n].winner
  BY <1>1 DEF Fill, Row
<1>3. row' \in [Matches -> Row] /\ row'[m] = r
  BY <1>1, <1>2 DEF Written
<1>4. ASSUME NEW n \in Matches \ {m} PROVE Seated(row[n], row'[n])
  <2>1. CASE Advances(r) /\ n = r.next
    <3>1. row'[n] = Fill(row[n], r.slot, r.winner)
      BY <2>1 DEF Written
    <3>2. row[n].status = "scheduled"
      BY <2>1 DEF MayAdvance, Successor
    <3> QED BY <1>2, <3>1, <3>2 DEF Seated
  <2>2. CASE ~(Advances(r) /\ n = r.next)
    BY <2>2 DEF Written, Seated
  <2> QED BY <2>1, <2>2
<1> QED BY <1>3, <1>4

LEMMA CreateEffect ==
  ASSUME Sound, NEW s \in Staff, CommitCreate(s)
  PROVE  Effect(s)
<1> DEFINE m == req[s].match
           new == req[s].new
<1>1. /\ m \in Matches /\ row[m].status = "none" /\ new \in Row
      /\ new.status = "scheduled" /\ new.winner = TBD
  BY DEF Sound, TypeOK, Request, RequestsSane, Sane, CreatesFresh, CommitCreate, Commits
<1>2. row[m].winner = TBD
  BY <1>1 DEF Sound, RowsFit, Fit, Concluded
<1>3. row' \in [Matches -> Row] /\ row'[m] = new /\ \A n \in Matches \ {m} : row'[n] = row[n]
  BY <1>1 DEF CommitCreate, Sound, TypeOK
<1> QED BY <1>1, <1>2, <1>3 DEF Effect, Fit, Moved, Seated, Concluded

LEMMA UpdateEffect ==
  ASSUME Sound, NEW s \in Staff, CommitUpdate(s)
  PROVE  Effect(s)
<1> DEFINE m == req[s].match
           new == req[s].new
<1>1. /\ m \in Matches /\ new \in Row /\ row[m].status = req[s].was /\ req[s].was \in Open
      /\ Fit(new) /\ (new.status = req[s].was \/ Allowed(req[s].was, new.status))
  BY DEF Sound, TypeOK, Request, RequestsSane, Sane, CommitUpdate, Commits, Unmoved
<1>2. row[m].winner = TBD
  BY <1>1 DEF Sound, RowsFit, Fit, Concluded, Open
<1>3. MayAdvance(new)
  BY <1>1 DEF CommitUpdate, MayAdvance, Successor, Advances, Fit, Concluded, Allowed, Open
<1>4. row' = Written(m, new)
  BY DEF CommitUpdate
<1>5. /\ row' \in [Matches -> Row] /\ row'[m] = new
      /\ \A n \in Matches \ {m} : Seated(row[n], row'[n])
  <2> HIDE DEF m, new
  <2> QED BY <1>1, <1>3, <1>4, WrittenRows
<1>6. Moved(row[m], new)
  BY <1>1, <1>2 DEF Moved, Allowed, Fit, Concluded, Open
<1> QED BY <1>1, <1>5, <1>6 DEF Effect

LEMMA WalkoverEffect ==
  ASSUME Sound, NEW s \in Staff, CommitWalkover(s)
  PROVE  Effect(s)
<1> DEFINE m == req[s].match
           r == [row[m] EXCEPT !.status = "walkover", !.winner = req[s].new.winner]
<1>1. /\ m \in Matches /\ row[m] \in Row /\ req[s].new \in Row
      /\ row[m].status = req[s].was /\ req[s].was \in Open
  BY DEF Sound, TypeOK, Request, RequestsSane, Sane, CommitWalkover, Commits, Unmoved
<1>2. r \in Row /\ r.status = "walkover"
  BY <1>1 DEF Row, Statuses
<1>3. MayAdvance(r) /\ row' = Written(m, r)
  BY DEF CommitWalkover
<1>4. Fit(r) /\ Moved(row[m], r)
  <2> HIDE DEF r
  <2> QED BY <1>1, <1>2 DEF Fit, Moved, Concluded
<1>5. /\ row' \in [Matches -> Row] /\ row'[m] = r
      /\ \A n \in Matches \ {m} : Seated(row[n], row'[n])
  <2> HIDE DEF m, r
  <2> QED BY <1>1, <1>2, <1>3, WrittenRows
<1> QED BY <1>1, <1>4, <1>5 DEF Effect

LEMMA CancelEffect ==
  ASSUME Sound, NEW s \in Staff, CommitCancel(s)
  PROVE  Effect(s)
<1> DEFINE m == req[s].match
           r == [row[m] EXCEPT !.status = "cancelled"]
<1>1. /\ m \in Matches /\ row[m] \in Row /\ Fit(row[m])
      /\ row[m].status = req[s].was /\ req[s].was \in Open
  BY DEF Sound, TypeOK, Request, RequestsSane, RowsFit, Sane, CommitCancel, Commits, Unmoved
<1>2. r \in Row /\ r.status = "cancelled" /\ r.winner = row[m].winner /\ row[m].winner = TBD
  BY <1>1 DEF Row, Statuses, Fit, Concluded, Open
<1>3. row' \in [Matches -> Row] /\ row'[m] = r /\ \A n \in Matches \ {m} : row'[n] = row[n]
  BY <1>1, <1>2 DEF CommitCancel, Cancelled, Sound, TypeOK
<1>4. Fit(r) /\ Moved(row[m], r)
  <2> HIDE DEF r
  <2> QED BY <1>1, <1>2 DEF Fit, Moved, Concluded, Open
<1> QED BY <1>1, <1>3, <1>4 DEF Effect, Seated

LEMMA Committing ==
  ASSUME Sound, NEW s \in Staff, Ends(s), ~Fail(s)
  PROVE  /\ Effect(s)
         /\ Sound'
<1>1. ongoing' = ongoing /\ req' = [req EXCEPT ![s] = Idle]
  BY DEF Ends, CommitCreate, CommitUpdate, CommitWalkover, CommitCancel, Commits
<1>2. Effect(s)
  BY CreateEffect, UpdateEffect, WalkoverEffect, CancelEffect DEF Ends
<1> QED BY <1>1, <1>2, CommitStep

\* Every step keeps the invariant, and changes the table only by a commit.
LEMMA SoundStep ==
  ASSUME Sound, [Next]_vars
  PROVE  /\ Sound'
         /\ row' = row \/ \E s \in Staff : Effect(s)
<1>1. ASSUME NEW s \in Staff, NEW m \in Matches, Starts(s, m) PROVE Sound' /\ row' = row
  BY <1>1, Starting DEF Starts, StartCreate, StartDetails, StartParticipants, StartLink,
     StartStatus, StartWalkover, StartCancel, Begin
<1>2. ASSUME NEW s \in Staff, CheckLink(s) PROVE Sound' /\ row' = row
  BY <1>2, Checking DEF CheckLink
<1>3. ASSUME NEW s \in Staff, Fail(s) PROVE Sound' /\ row' = row
  BY <1>3, Failing DEF Fail
<1>4. ASSUME NEW s \in Staff, Ends(s), ~Fail(s) PROVE Sound' /\ Effect(s)
  BY <1>4, Committing
<1>5. CASE TournamentEnds
  BY <1>5 DEF TournamentEnds, Sound, TypeOK, RowsFit, RequestsSane, CreatesFresh
<1>6. CASE UNCHANGED vars
  BY <1>6 DEF vars, Sound, TypeOK, RowsFit, RequestsSane, CreatesFresh
<1> QED BY <1>1, <1>2, <1>3, <1>4, <1>5, <1>6 DEF Next

LEMMA SoundAlways == Spec => []Sound
<1>1. Init => Sound
  BY SoundInit
<1>2. Sound /\ [Next]_vars => Sound'
  BY SoundStep
<1> QED BY <1>1, <1>2, PTL DEF Spec

-----------------------------------------------------------------------------
(* Theorems for every kind of request.                                     *)

\* Requests and rows keep their shape, whatever is requested.
THEOREM TypeCorrect == Spec => []TypeOK
<1>1. Sound => TypeOK
  BY DEF Sound
<1> QED BY <1>1, SoundAlways, PTL

\* I1 for matches in play and for scored results: the check made before the
\* transaction is still good when the transaction writes, because the row
\* checked is the row written.
THEOREM PlayNeedsTwo == Spec => []PlayedByTwo
<1>1. Sound => PlayedByTwo
  BY DEF Sound, RowsFit, Fit, PlayedByTwo, BothAssigned
<1> QED BY <1>1, SoundAlways, PTL

LEMMA TerminalKept ==
  ASSUME Sound, [Next]_vars, NEW m \in Matches, row[m].status \in Terminal
  PROVE  row'[m] = row[m]
<1>1. CASE row' = row
  BY <1>1
<1>2. ASSUME NEW s \in Staff, Effect(s) PROVE row'[m] = row[m]
  <2>1. m # req[s].match
    BY <1>2 DEF Effect, Moved, Open, Terminal
  <2> QED BY <1>2, <2>1 DEF Effect, Seated, Terminal
<1> QED BY <1>1, <1>2, SoundStep

\* The compare-and-swap on the status read protects every terminal row from
\* stale writers, and propagateWinner from writing into one.
THEOREM ResultsAreFinal == Spec => ResultsFinal
<1>1. Sound /\ [Next]_vars => [\A m \in Matches : row[m].status \in Terminal => row'[m] = row[m]]_vars
  BY TerminalKept
<1> QED BY <1>1, SoundAlways, PTL DEF Spec, ResultsFinal

LEMMA LifeInit == Init => Lifecycle!MInit
<1> SUFFICES ASSUME Init PROVE Lifecycle!MInit
  OBVIOUS
<1>1. \A m \in Matches : row[m].status \in {"none", "scheduled"} /\ row[m].winner = TBD
  BY BracketAssumption DEF Init, Wellformed, Concluded
<1> QED BY <1>1 DEF Lifecycle!MInit

LEMMA LifeStep ==
  ASSUME Sound, Sound', NEW s \in Staff, Effect(s)
  PROVE  [Lifecycle!MNext]_(Lifecycle!mvars)
<1>0. PICK m \in Matches : m = req[s].match
  BY DEF Effect
<1> DEFINE states == [n \in Matches |-> row[n].status]
           results == [n \in Matches |-> row[n].winner]
<1>1. m \in Matches /\ row'[m] \in Row /\ Moved(row[m], row'[m])
  BY <1>0 DEF Effect
<1>2. \A n \in Matches \ {m} : row'[n].status = row[n].status /\ row'[n].winner = row[n].winner
  BY <1>0 DEF Effect, Seated
<1>3. /\ states' = [states EXCEPT ![m] = row'[m].status]
      /\ results' = [results EXCEPT ![m] = row'[m].winner]
      /\ states[m] = row[m].status /\ results[m] = row[m].winner
  BY <1>1, <1>2
<1>4. PICK w \in Entry : w = row'[m].winner
  BY <1>1 DEF Row
<1>5. row'[m].winner = row[m].winner => results' = results
  BY <1>1, <1>2
<1>6. row'[m].status = row[m].status => states' = states
  BY <1>1, <1>2
<1>7. CASE row[m].status \in Open /\ row'[m].status = row[m].status /\ row'[m].winner = row[m].winner
  BY <1>5, <1>6, <1>7 DEF Lifecycle!mvars
<1>8. CASE row[m].status = "none" /\ row'[m].status = "scheduled" /\ row'[m].winner = row[m].winner
  BY <1>1, <1>3, <1>5, <1>8 DEF Lifecycle!MNext, Lifecycle!Moves
<1>9. CASE /\ row[m].status = "scheduled" /\ row'[m].status \in {"live", "cancelled"}
           /\ row'[m].winner = row[m].winner
  BY <1>1, <1>3, <1>5, <1>9 DEF Lifecycle!MNext, Lifecycle!Moves
<1>10. CASE /\ row[m].status = "live" /\ row'[m].status \in {"abandoned", "cancelled"}
            /\ row'[m].winner = row[m].winner
  BY <1>1, <1>3, <1>5, <1>10 DEF Lifecycle!MNext, Lifecycle!Moves
<1>11. CASE row[m].status = "live" /\ row'[m].status = "completed"
  <2>1. Lifecycle!Ends(m, {"live"}, "completed", w)
    BY <1>3, <1>4, <1>11 DEF Lifecycle!Ends
  <2> QED BY <2>1 DEF Lifecycle!MNext
<1>12. CASE row[m].status \in Open /\ row'[m].status = "walkover"
  <2>1. Lifecycle!Ends(m, {"scheduled", "live"}, "walkover", w)
    BY <1>3, <1>4, <1>12 DEF Lifecycle!Ends, Open
  <2> QED BY <2>1 DEF Lifecycle!MNext
<1> QED BY <1>1, <1>7, <1>8, <1>9, <1>10, <1>11, <1>12 DEF Moved

\* Concurrent, stale and failing requests together move each match through
\* the documented lifecycle, one match at a time.
THEOREM ImplementsLifecycle == Spec => LifecycleKept
<1>1. Init => Lifecycle!MInit
  BY LifeInit
<1>2. Sound /\ [Next]_vars => [Lifecycle!MNext]_(Lifecycle!mvars)
  <2> SUFFICES ASSUME Sound, [Next]_vars PROVE [Lifecycle!MNext]_(Lifecycle!mvars)
    OBVIOUS
  <2>1. CASE row' = row
    BY <2>1 DEF Lifecycle!mvars
  <2>2. CASE \E s \in Staff : Effect(s)
    BY <2>2, SoundStep, LifeStep
  <2> QED BY <2>1, <2>2, SoundStep
<1> QED BY <1>1, <1>2, SoundAlways, PTL DEF Spec, LifecycleKept, Lifecycle!MSpec

-----------------------------------------------------------------------------
(* A bracket that is only played: nobody edits participants or links.       *)
(* Besides the table, every waiting write must leave empty the seats whose  *)
(* feeders are not over.                                                   *)

OnlyPlayed == Kinds \subseteq {"details", "status", "walkover", "cancel"}

Over(m) == row[m].status \in Concluded
Awaits(n, m) == Drawn[m].next = n /\ ~Over(m)
FedBefore(n) == \A m \in Matches : Drawn[m].next = n => Over(m)
SeatsOpen(n, r) == \A m \in Matches : Awaits(n, m) => Seat(r, Drawn[m].slot) = TBD
Linked(n, r) == r.next = Drawn[n].next /\ r.slot = Drawn[n].slot

Ordered ==
  /\ \A n \in Matches : Linked(n, row[n]) /\ SeatsOpen(n, row[n])
  /\ \A n \in Matches : row[n].status \in {"live", "completed", "walkover"} => FedBefore(n)
  /\ \A s \in Staff : LET q == req[s] IN
       /\ q.op # "create"
       /\ q.op = "update" => Linked(q.match, q.new) /\ SeatsOpen(q.match, q.new)
       /\ q.op = "walkover" => FedBefore(q.match)

LEMMA OrderedInit == ASSUME WellDrawn PROVE Init => Ordered
<1> SUFFICES ASSUME Init PROVE Ordered
  OBVIOUS
<1>1. \A n \in Matches : /\ row[n] = Drawn[n] /\ row[n].status \in {"none", "scheduled"}
                         /\ Linked(n, row[n])
  BY BracketAssumption DEF Init, Linked
<1>2. \A n \in Matches : SeatsOpen(n, row[n])
  BY <1>1 DEF WellDrawn, SeatsOpen, Awaits
<1>3. \A s \in Staff : req[s].op = "idle"
  BY DEF Init, Idle
<1> QED BY <1>1, <1>2, <1>3 DEF Ordered

\* Nobody plays a match whose feeders are not over: one of its seats is empty.
LEMMA OpenSeats ==
  ASSUME NEW n \in Matches, NEW r, SeatsOpen(n, r), BothAssigned(r)
  PROVE  FedBefore(n)
BY DEF SeatsOpen, BothAssigned, Seat, FedBefore, Awaits

LEMMA OrderedStart ==
  ASSUME OnlyPlayed, Sound, Ordered, NEW s \in Staff, NEW m \in Matches, Starts(s, m)
  PROVE  Ordered'
<1>1. row[m] \in Row /\ Linked(m, row[m]) /\ SeatsOpen(m, row[m])
  BY DEF Sound, TypeOK, Ordered
<1>2. ASSUME NEW kind, NEW stage, NEW op \in {"update", "walkover", "cancel"}, NEW new,
             Begin(s, kind, op, stage, m, new),
             op = "update" => Linked(m, new) /\ SeatsOpen(m, new),
             op = "walkover" => FedBefore(m)
      PROVE  Ordered'
  <2>1. row' = row /\ \A t \in Staff \ {s} : req'[t] = req[t]
    BY <1>2 DEF Begin, Sound, TypeOK
  <2>2. req'[s].op = op /\ req'[s].match = m /\ req'[s].new = new
    BY <1>2 DEF Begin, Sound, TypeOK
  <2> QED BY <1>2, <2>1, <2>2
          DEF Ordered, FedBefore, Over, SeatsOpen, Awaits, Linked
<1>3. CASE StartDetails(s, m)
  BY <1>1, <1>2, <1>3 DEF StartDetails
<1>4. ASSUME NEW st \in Statuses, NEW w \in Entry, StartStatus(s, m, st, w) PROVE Ordered'
  <2> DEFINE new == [row[m] EXCEPT !.status = st, !.winner = w]
  <2>1. /\ new.home = row[m].home /\ new.away = row[m].away
        /\ new.next = row[m].next /\ new.slot = row[m].slot
    BY <1>1 DEF Row
  <2>2. Begin(s, "status", "update", "ready", m, new)
    BY <1>4 DEF StartStatus
  <2> HIDE DEF new
  <2>3. Linked(m, new) /\ SeatsOpen(m, new)
    BY <1>1, <2>1 DEF Linked, SeatsOpen, Seat
  <2> QED BY <1>2, <2>2, <2>3
<1>5. ASSUME NEW w \in Entrants, StartWalkover(s, m, w) PROVE Ordered'
  <2>1. FedBefore(m)
    BY <1>1, <1>5, OpenSeats DEF StartWalkover
  <2> QED BY <1>2, <1>5, <2>1 DEF StartWalkover
<1>6. CASE StartCancel(s, m)
  BY <1>2, <1>6 DEF StartCancel
<1>7. /\ \A h, a \in Entry, n \in Matches \cup {NoMatch}, k \in Slots \cup {0} : ~StartCreate(s, m, h, a, n, k)
      /\ \A h, a \in Entrants : ~StartParticipants(s, m, h, a)
      /\ \A n \in Matches \cup {NoMatch}, k \in Slots \cup {0} : ~StartLink(s, m, n, k)
  BY DEF OnlyPlayed, StartCreate, StartParticipants, StartLink, Begin
<1> QED BY <1>3, <1>4, <1>5, <1>6, <1>7 DEF Starts

\* A check or a failure of a request, and the end of the tournament.
LEMMA OrderedRest ==
  ASSUME Sound, Ordered, row' = row,
         \A s \in Staff : \/ req'[s].op = "idle"
                          \/ /\ req'[s].op = req[s].op /\ req'[s].match = req[s].match
                             /\ req'[s].new = req[s].new
  PROVE  Ordered'
BY DEF Ordered, FedBefore, Over, SeatsOpen, Awaits, Linked

\* What a commit does in a bracket that is only played.
PlaysOn(s) == LET m == req[s].match IN
  /\ Linked(m, row'[m])
  /\ SeatsOpen(m, row'[m])
  /\ row'[m].status \in {"live", "completed", "walkover"} => FedBefore(m)
  /\ \A k \in Slots : \/ Seat(row'[m], k) = Seat(row[m], k)
                      \/ req[s].op = "update" /\ Seat(row'[m], k) = Seat(req[s].new, k)
  /\ row'[m] \in Row
  /\ \A n \in Matches \ {m} :
       \/ row'[n] = row[n]
       \/ /\ row'[m].status \in Concluded /\ Drawn[m].next = n
          /\ row'[n] = Fill(row[n], Drawn[m].slot, row'[m].winner)

\* The table after a conclusion, in terms of the drawing.
LEMMA PlayedWritten ==
  ASSUME Sound, NEW m \in Matches, NEW r \in Row, Fit(r), Linked(m, r), MayAdvance(r),
         row' = Written(m, r)
  PROVE  /\ row'[m] = r
         /\ \A n \in Matches \ {m} :
              \/ row'[n] = row[n]
              \/ /\ r.status \in Concluded /\ Drawn[m].next = n
                 /\ row'[n] = Fill(row[n], Drawn[m].slot, r.winner)
<1>1. row'[m] = r
  BY WrittenRows
<1>2. ASSUME NEW n \in Matches \ {m}, row'[n] # row[n]
      PROVE  /\ r.status \in Concluded /\ Drawn[m].next = n
             /\ row'[n] = Fill(row[n], Drawn[m].slot, r.winner)
  <2>1. Advances(r) /\ n = r.next
    BY <1>2 DEF Written
  <2>2. row'[n] = Fill(row[n], r.slot, r.winner)
    BY <2>1 DEF Written
  <2>3. r.winner \in Entry /\ r.winner # TBD
    BY <2>1 DEF Row, Advances
  <2> QED BY <2>1, <2>2, <2>3 DEF Linked, Fit
<1> QED BY <1>1, <1>2

LEMMA PlayedUpdate ==
  ASSUME Sound, Ordered, NEW s \in Staff, CommitUpdate(s)
  PROVE  PlaysOn(s)
<1>1. PICK m \in Matches : m = req[s].match
  BY UpdateEffect DEF Effect
<1>2. PICK r \in Row : r = req[s].new
  BY DEF Sound, TypeOK, Request
<1>3. /\ Fit(r) /\ Linked(m, r) /\ SeatsOpen(m, r)
      /\ r.status = req[s].was \/ Allowed(req[s].was, r.status)
      /\ req[s].was \in Open
  BY <1>1, <1>2 DEF Sound, RequestsSane, Sane, Ordered, CommitUpdate, Commits
<1>4. MayAdvance(r) /\ row' = Written(m, r)
  BY <1>1, <1>2, <1>3 DEF CommitUpdate, MayAdvance, Successor, Advances, Fit, Concluded, Allowed, Open
<1>5. r.status \in {"live", "completed", "walkover"} => FedBefore(m)
  <2>1. r.status # "walkover"
    BY <1>3 DEF Allowed, Open
  <2> QED BY <1>3, <2>1, OpenSeats DEF Fit
<1>6. row'[m] = r /\ req[s].op = "update"
  BY <1>3, <1>4, PlayedWritten DEF CommitUpdate, Commits
<1> QED BY <1>1, <1>2, <1>3, <1>4, <1>5, <1>6, PlayedWritten DEF PlaysOn

LEMMA PlayedWalkover ==
  ASSUME Sound, Ordered, NEW s \in Staff, CommitWalkover(s)
  PROVE  PlaysOn(s)
<1>1. PICK m \in Matches : m = req[s].match
  BY WalkoverEffect DEF Effect
<1>2. row[m] \in Row /\ Linked(m, row[m]) /\ SeatsOpen(m, row[m]) /\ req[s].new \in Row
  BY DEF Sound, TypeOK, Request, Ordered
<1>3. PICK r : r = [row[m] EXCEPT !.status = "walkover", !.winner = req[s].new.winner]
  OBVIOUS
<1>4. /\ r \in Row /\ r.status = "walkover" /\ r.home = row[m].home /\ r.away = row[m].away
      /\ r.next = row[m].next /\ r.slot = row[m].slot
  BY <1>2, <1>3 DEF Row, Statuses
<1>5. Fit(r) /\ Linked(m, r) /\ SeatsOpen(m, r)
  BY <1>2, <1>4 DEF Fit, Linked, SeatsOpen, Seat, Concluded
<1>6. MayAdvance(r) /\ row' = Written(m, r)
  BY <1>1, <1>3 DEF CommitWalkover
<1>7. FedBefore(m)
  BY <1>1 DEF Ordered, CommitWalkover, Commits
<1>8. row'[m] = r /\ \A k \in Slots : Seat(r, k) = Seat(row[m], k)
  BY <1>4, <1>5, <1>6, PlayedWritten DEF Seat
<1> QED BY <1>1, <1>4, <1>5, <1>6, <1>7, <1>8, PlayedWritten DEF PlaysOn

LEMMA PlayedCancel ==
  ASSUME Sound, Ordered, NEW s \in Staff, CommitCancel(s)
  PROVE  PlaysOn(s)
<1>1. PICK m \in Matches : m = req[s].match
  BY CancelEffect DEF Effect
<1>2. row[m] \in Row /\ Linked(m, row[m]) /\ SeatsOpen(m, row[m])
  BY DEF Sound, TypeOK, Ordered
<1>3. row' = [row EXCEPT ![m].status = "cancelled"]
  BY <1>1 DEF CommitCancel, Cancelled
<1>4. /\ row'[m].status = "cancelled" /\ row'[m].home = row[m].home /\ row'[m].away = row[m].away
      /\ row'[m].next = row[m].next /\ row'[m].slot = row[m].slot
      /\ \A n \in Matches \ {m} : row'[n] = row[n]
  BY <1>2, <1>3 DEF Row, Sound, TypeOK
<1>5. Linked(m, row'[m]) /\ SeatsOpen(m, row'[m])
  BY <1>2, <1>4 DEF Linked, SeatsOpen, Seat
<1>6. row'[m] \in Row /\ \A k \in Slots : Seat(row'[m], k) = Seat(row[m], k)
  BY <1>1, <1>4, CancelEffect DEF Effect, Seat
<1> QED BY <1>1, <1>4, <1>5, <1>6 DEF PlaysOn

\* A conclusion takes only the seat it feeds, which no other match feeds.
LEMMA SeatsLeftOpen ==
  ASSUME WellDrawn, NEW n \in Matches, NEW m \in Matches, NEW r \in Row, NEW w \in Entry,
         Drawn[m].next = n, SeatsOpen(n, r)
  PROVE  LET f == Fill(r, Drawn[m].slot, w) IN
         /\ f.status = r.status /\ f.next = r.next /\ f.slot = r.slot
         /\ \A p \in Matches \ {m} : Awaits(n, p) => Seat(f, Drawn[p].slot) = TBD
<1>1. \A p \in Matches : Drawn[p].next = n => Drawn[p].slot \in Slots
  BY BracketAssumption DEF Row, Wellformed
<1>2. \A p \in Matches \ {m} : Drawn[p].next = n => Drawn[p].slot # Drawn[m].slot
  BY DEF WellDrawn
<1>3. PICK f : f = Fill(r, Drawn[m].slot, w)
  OBVIOUS
<1>4. /\ f.status = r.status /\ f.next = r.next /\ f.slot = r.slot
      /\ \A k \in Slots : k # Drawn[m].slot => Seat(f, k) = Seat(r, k)
  BY <1>1, <1>3 DEF Fill, Seat, Row, Slots
<1> QED BY <1>1, <1>2, <1>3, <1>4 DEF SeatsOpen, Awaits

LEMMA OrderedCommit ==
  ASSUME WellDrawn, Sound, Ordered, NEW s \in Staff, req[s].match \in Matches, PlaysOn(s),
         req' = [req EXCEPT ![s] = Idle],
         \A n \in Matches : row[n].status \in Terminal => row'[n] = row[n]
  PROVE  Ordered'
<1>1. PICK m \in Matches : m = req[s].match
  OBVIOUS
<1>2. \A t \in Staff : req'[t] = IF t = s THEN Idle ELSE req[t]
  BY DEF Sound, TypeOK
<1>3. \A n \in Matches : Over(n) => row'[n].status \in Concluded
  BY DEF Over, Concluded, Terminal
<1>4. /\ \A n \in Matches : FedBefore(n) => FedBefore(n)'
      /\ \A n \in Matches, r \in Row : SeatsOpen(n, r) =>
           \A p \in Matches : Drawn[p].next = n /\ row'[p].status \notin Concluded =>
             Seat(r, Drawn[p].slot) = TBD
  BY <1>3 DEF FedBefore, Over, SeatsOpen, Awaits
<1>5. ASSUME NEW n \in Matches
      PROVE  /\ Linked(n, row'[n])
             /\ \A p \in Matches : Drawn[p].next = n /\ row'[p].status \notin Concluded =>
                  Seat(row'[n], Drawn[p].slot) = TBD
             /\ row'[n].status \in {"live", "completed", "walkover"} => FedBefore(n)
  <2>1. row[n] \in Row /\ Linked(n, row[n]) /\ SeatsOpen(n, row[n])
        /\ (row[n].status \in {"live", "completed", "walkover"} => FedBefore(n))
    BY DEF Sound, TypeOK, Ordered
  <2>2. CASE n = m
    BY <1>1, <1>3, <2>2 DEF PlaysOn, SeatsOpen, Awaits, Over
  <2>3. CASE n # m /\ row'[n] = row[n]
    BY <1>4, <2>1, <2>3
  <2>4. CASE n # m /\ row'[n] # row[n]
    <3>1. row'[m].status \in Concluded /\ Drawn[m].next = n
      BY <1>1, <2>4 DEF PlaysOn
    <3>2. PICK w \in Entry : row'[n] = Fill(row[n], Drawn[m].slot, w)
      BY <1>1, <2>4 DEF PlaysOn, Row
    <3>3. /\ row'[n].status = row[n].status /\ row'[n].next = row[n].next
          /\ row'[n].slot = row[n].slot
          /\ \A p \in Matches \ {m} : Awaits(n, p) => Seat(row'[n], Drawn[p].slot) = TBD
      BY <2>1, <3>1, <3>2, SeatsLeftOpen
    <3> QED BY <1>3, <2>1, <3>1, <3>3 DEF Linked, Awaits, Over
  <2> QED BY <2>2, <2>3, <2>4
<1>6. ASSUME NEW t \in Staff
      PROVE  /\ req'[t].op # "create"
             /\ req'[t].op = "update" =>
                  /\ Linked(req'[t].match, req'[t].new)
                  /\ \A p \in Matches :
                       Drawn[p].next = req'[t].match /\ row'[p].status \notin Concluded =>
                         Seat(req'[t].new, Drawn[p].slot) = TBD
             /\ req'[t].op = "walkover" => \A p \in Matches :
                  Drawn[p].next = req'[t].match => row'[p].status \in Concluded
  <2>1. CASE t = s
    BY <1>2, <2>1 DEF Idle
  <2>2. CASE t # s
    <3>1. req'[t] = req[t] /\ req[t].new \in Row
      BY <1>2, <2>2 DEF Sound, TypeOK, Request
    <3>2. req[t].op # "idle" => req[t].match \in Matches
      BY DEF Sound, RequestsSane, Sane
    <3>3. /\ req[t].op # "create"
          /\ req[t].op = "update" => Linked(req[t].match, req[t].new)
                                     /\ SeatsOpen(req[t].match, req[t].new)
          /\ req[t].op = "walkover" => FedBefore(req[t].match)
      BY DEF Ordered
    <3> QED BY <1>3, <1>4, <3>1, <3>2, <3>3 DEF FedBefore, Over
  <2> QED BY <2>1, <2>2
<1>7. \A n \in Matches : row'[n].status \in {"live", "completed", "walkover"} => FedBefore(n)'
  BY <1>4, <1>5
<1> QED BY <1>5, <1>6, <1>7 DEF Ordered, FedBefore, SeatsOpen, Awaits, Over, Linked

LEMMA OrderedStep ==
  ASSUME OnlyPlayed, WellDrawn, Sound, Ordered, [Next]_vars
  PROVE  Ordered'
<1>1. ASSUME NEW s \in Staff, NEW m \in Matches, Starts(s, m) PROVE Ordered'
  BY <1>1, OrderedStart
<1>2. ASSUME NEW s \in Staff, CheckLink(s) PROVE Ordered'
  <2>1. row' = row /\ req' = [req EXCEPT ![s].stage = "ready"]
    BY <1>2 DEF CheckLink
  <2>2. \A t \in Staff : /\ req'[t].op = req[t].op /\ req'[t].match = req[t].match
                         /\ req'[t].new = req[t].new
    BY <2>1 DEF Sound, TypeOK, Request
  <2> QED BY <2>1, <2>2, OrderedRest
<1>3. ASSUME NEW s \in Staff, Ends(s) PROVE Ordered'
  <2>1. req' = [req EXCEPT ![s] = Idle] /\ (Fail(s) => row' = row)
    BY <1>3 DEF Ends, Commits, CommitCreate, CommitUpdate, CommitWalkover, CommitCancel, Fail
  <2>2. CASE Fail(s)
    <3>1. \A t \in Staff : req'[t].op = "idle" \/ req'[t] = req[t]
      BY <2>1 DEF Sound, TypeOK, Idle
    <3> QED BY <2>1, <2>2, <3>1, OrderedRest
  <2>3. CASE CommitCreate(s)
    BY <2>3 DEF CommitCreate, Commits, Ordered
  <2>4. CASE CommitUpdate(s) \/ CommitWalkover(s) \/ CommitCancel(s)
    <3>1. PlaysOn(s)
      BY <2>4, PlayedUpdate, PlayedWalkover, PlayedCancel
    <3>2. req[s].match \in Matches
      BY <2>4 DEF Sound, RequestsSane, Sane, CommitUpdate, CommitWalkover, CommitCancel, Commits
    <3> QED BY <2>1, <3>1, <3>2, OrderedCommit, TerminalKept
  <2> QED BY <1>3, <2>2, <2>3, <2>4 DEF Ends
<1>4. CASE TournamentEnds \/ UNCHANGED vars
  <2>1. row' = row /\ req' = req
    BY <1>4 DEF TournamentEnds, vars
  <2> QED BY <2>1, OrderedRest
<1> QED BY <1>1, <1>2, <1>3, <1>4 DEF Next

\* While nobody edits participants or links, a match of a drawn bracket starts
\* only after every match that feeds it is over: bothParticipantsAssigned (I1)
\* is then enough to order the rounds, stale requests included.
THEOREM PlayedInOrder ==
  ASSUME OnlyPlayed, WellDrawn
  PROVE  Spec => []FeedersFirst
<1>1. Init => Ordered
  BY OrderedInit
<1>2. Sound /\ Ordered /\ [Next]_vars => Ordered'
  BY OrderedStep
<1>3. Ordered => FeedersFirst
  BY DEF Ordered, FeedersFirst, FedBefore, Linked, Over
<1> QED BY <1>1, <1>2, <1>3, SoundAlways, PTL DEF Spec

-----------------------------------------------------------------------------
(* Who plays in such a bracket: the seats that are fed hold winners, in the  *)
(* table and in every waiting write.                                       *)

\* The seats of r, a row of n, hold the winners of their feeders or nobody.
FedSeats(n, r) == \A p \in Matches : Drawn[p].next = n =>
  Seat(r, Drawn[p].slot) \in {row[p].winner, TBD}

WinnersSeated ==
  /\ \A n \in Matches : FedSeats(n, row[n])
  /\ \A s \in Staff : req[s].op = "update" => FedSeats(req[s].match, req[s].new)

LEMMA WinnersInit == ASSUME WellDrawn PROVE Init => WinnersSeated
BY DEF Init, Idle, WinnersSeated, FedSeats, WellDrawn

\* A winner is written once, so a seat that was good stays good.
LEMMA FedSeatsKept ==
  ASSUME Sound, [Next]_vars, NEW n \in Matches, NEW r, FedSeats(n, r)
  PROVE  \A p \in Matches : Drawn[p].next = n => Seat(r, Drawn[p].slot) \in {row'[p].winner, TBD}
<1> SUFFICES ASSUME NEW p \in Matches, Drawn[p].next = n
             PROVE  Seat(r, Drawn[p].slot) \in {row'[p].winner, TBD}
  OBVIOUS
<1>1. row[p].status \in Concluded => row'[p] = row[p]
  BY TerminalKept DEF Concluded, Terminal
<1>2. row[p].status \notin Concluded => row[p].winner = TBD
  BY DEF Sound, RowsFit, Fit
<1> QED BY <1>1, <1>2 DEF FedSeats

LEMMA WinnersStart ==
  ASSUME OnlyPlayed, Sound, WinnersSeated, NEW s \in Staff, NEW m \in Matches, Starts(s, m)
  PROVE  WinnersSeated'
<1>1. row[m] \in Row /\ FedSeats(m, row[m])
  BY DEF Sound, TypeOK, WinnersSeated
<1>2. ASSUME NEW kind, NEW stage, NEW op, NEW new, Begin(s, kind, op, stage, m, new),
             op = "update" => FedSeats(m, new)
      PROVE  WinnersSeated'
  <2>1. row' = row /\ \A t \in Staff \ {s} : req'[t] = req[t]
    BY <1>2 DEF Begin, Sound, TypeOK
  <2>2. req'[s].op = op /\ req'[s].match = m /\ req'[s].new = new
    BY <1>2 DEF Begin, Sound, TypeOK
  <2> QED BY <1>2, <2>1, <2>2 DEF WinnersSeated, FedSeats
<1>3. CASE StartDetails(s, m)
  BY <1>1, <1>2, <1>3 DEF StartDetails
<1>4. ASSUME NEW st \in Statuses, NEW w \in Entry, StartStatus(s, m, st, w) PROVE WinnersSeated'
  <2> DEFINE new == [row[m] EXCEPT !.status = st, !.winner = w]
  <2>1. new.home = row[m].home /\ new.away = row[m].away
    BY <1>1 DEF Row
  <2>2. Begin(s, "status", "update", "ready", m, new)
    BY <1>4 DEF StartStatus
  <2> HIDE DEF new
  <2>3. FedSeats(m, new)
    BY <1>1, <2>1 DEF FedSeats, Seat
  <2> QED BY <1>2, <2>2, <2>3
<1>5. ASSUME NEW w \in Entrants, StartWalkover(s, m, w) PROVE WinnersSeated'
  BY <1>2, <1>5 DEF StartWalkover
<1>6. CASE StartCancel(s, m)
  BY <1>2, <1>6 DEF StartCancel
<1>7. /\ \A h, a \in Entry, n \in Matches \cup {NoMatch}, k \in Slots \cup {0} : ~StartCreate(s, m, h, a, n, k)
      /\ \A h, a \in Entrants : ~StartParticipants(s, m, h, a)
      /\ \A n \in Matches \cup {NoMatch}, k \in Slots \cup {0} : ~StartLink(s, m, n, k)
  BY DEF OnlyPlayed, StartCreate, StartParticipants, StartLink, Begin
<1> QED BY <1>3, <1>4, <1>5, <1>6, <1>7 DEF Starts

LEMMA WinnersRest ==
  ASSUME WinnersSeated, row' = row,
         \A s \in Staff : \/ req'[s].op = "idle"
                          \/ /\ req'[s].op = req[s].op /\ req'[s].match = req[s].match
                             /\ req'[s].new = req[s].new
  PROVE  WinnersSeated'
BY DEF WinnersSeated, FedSeats

\* The commit writes the row it read or found, and its winner where it belongs.
LEMMA WinnersCommit ==
  ASSUME WellDrawn, Sound, Ordered, WinnersSeated, [Next]_vars,
         NEW s \in Staff, req[s].match \in Matches, PlaysOn(s),
         req' = [req EXCEPT ![s] = Idle]
  PROVE  WinnersSeated'
<1>1. PICK m \in Matches : m = req[s].match
  OBVIOUS
<1>2. \A t \in Staff : req'[t] = IF t = s THEN Idle ELSE req[t]
  BY DEF Sound, TypeOK
<1>3. \A p, n \in Matches : Drawn[p].next = n => Drawn[p].slot \in Slots
  BY BracketAssumption DEF Row, Wellformed
<1>4. ASSUME NEW n \in Matches, NEW p \in Matches, Drawn[p].next = n
      PROVE  Seat(row'[n], Drawn[p].slot) \in {row'[p].winner, TBD}
  <2>1. row[n] \in Row /\ Seat(row[n], Drawn[p].slot) \in {row'[p].winner, TBD}
    BY <1>4, FedSeatsKept DEF Sound, TypeOK, WinnersSeated
  <2>2. CASE n = m
    <3>1. req[s].op = "update" => Seat(req[s].new, Drawn[p].slot) \in {row'[p].winner, TBD}
      BY <1>1, <1>4, <2>2, FedSeatsKept DEF WinnersSeated
    <3> QED BY <1>1, <1>3, <1>4, <2>1, <2>2, <3>1 DEF PlaysOn
  <2>3. CASE n # m /\ row'[n] = row[n]
    BY <2>1, <2>3
  <2>4. CASE n # m /\ row'[n] # row[n]
    <3>1. Drawn[m].next = n /\ row'[n] = Fill(row[n], Drawn[m].slot, row'[m].winner)
      BY <1>1, <2>4 DEF PlaysOn
    <3>2. CASE p = m
      BY <1>3, <2>1, <3>1, <3>2 DEF Fill, Seat, Row, Slots
    <3>3. CASE p # m
      <4>1. Drawn[p].slot # Drawn[m].slot
        BY <1>4, <3>1, <3>3 DEF WellDrawn
      <4>2. Seat(row'[n], Drawn[p].slot) = Seat(row[n], Drawn[p].slot)
        BY <1>3, <1>4, <2>1, <3>1, <4>1 DEF Fill, Seat, Row, Slots
      <4> QED BY <2>1, <4>2
    <3> QED BY <3>2, <3>3
  <2> QED BY <2>2, <2>3, <2>4
<1>5. ASSUME NEW t \in Staff, req'[t].op = "update", NEW p \in Matches,
             Drawn[p].next = req'[t].match
      PROVE  Seat(req'[t].new, Drawn[p].slot) \in {row'[p].winner, TBD}
  <2>1. t # s /\ req'[t] = req[t]
    BY <1>2, <1>5 DEF Idle
  <2>2. req[t].match \in Matches /\ FedSeats(req[t].match, req[t].new)
    BY <1>5, <2>1 DEF WinnersSeated, Sound, RequestsSane, Sane
  <2> QED BY <1>5, <2>1, <2>2, FedSeatsKept
<1> QED BY <1>4, <1>5 DEF WinnersSeated, FedSeats

LEMMA WinnersStep ==
  ASSUME OnlyPlayed, WellDrawn, Sound, Ordered, WinnersSeated, [Next]_vars
  PROVE  WinnersSeated'
<1>1. ASSUME NEW s \in Staff, NEW m \in Matches, Starts(s, m) PROVE WinnersSeated'
  BY <1>1, WinnersStart
<1>2. ASSUME NEW s \in Staff, CheckLink(s) PROVE WinnersSeated'
  <2>1. row' = row /\ req' = [req EXCEPT ![s].stage = "ready"]
    BY <1>2 DEF CheckLink
  <2>2. \A t \in Staff : /\ req'[t].op = req[t].op /\ req'[t].match = req[t].match
                         /\ req'[t].new = req[t].new
    BY <2>1 DEF Sound, TypeOK, Request
  <2> QED BY <2>1, <2>2, WinnersRest
<1>3. ASSUME NEW s \in Staff, Ends(s) PROVE WinnersSeated'
  <2>1. req' = [req EXCEPT ![s] = Idle] /\ (Fail(s) => row' = row)
    BY <1>3 DEF Ends, Commits, CommitCreate, CommitUpdate, CommitWalkover, CommitCancel, Fail
  <2>2. CASE Fail(s)
    <3>1. \A t \in Staff : req'[t].op = "idle" \/ req'[t] = req[t]
      BY <2>1 DEF Sound, TypeOK, Idle
    <3> QED BY <2>1, <2>2, <3>1, WinnersRest
  <2>3. CASE CommitCreate(s)
    BY <2>3 DEF CommitCreate, Commits, Ordered
  <2>4. CASE CommitUpdate(s) \/ CommitWalkover(s) \/ CommitCancel(s)
    <3>1. PlaysOn(s)
      BY <2>4, PlayedUpdate, PlayedWalkover, PlayedCancel
    <3>2. req[s].match \in Matches
      BY <2>4 DEF Sound, RequestsSane, Sane, CommitUpdate, CommitWalkover, CommitCancel, Commits
    <3> QED BY <2>1, <3>1, <3>2, WinnersCommit
  <2> QED BY <1>3, <2>2, <2>3, <2>4 DEF Ends
<1>4. CASE TournamentEnds \/ UNCHANGED vars
  <2>1. row' = row /\ req' = req
    BY <1>4 DEF TournamentEnds, vars
  <2> QED BY <2>1, WinnersRest
<1> QED BY <1>1, <1>2, <1>3, <1>4 DEF Next

\* While nobody edits participants or links, no request, however stale, puts
\* anybody but the winner propagateWinner wrote into a slot that is fed, and a
\* match is played with its fed slots taken (I1): the lost update of a stale
\* PATCH can empty a slot, and then the match waits.
THEOREM WinnersPlay ==
  ASSUME OnlyPlayed, WellDrawn
  PROVE  Spec => []FedByWinners
<1>1. Init => Ordered /\ WinnersSeated
  BY OrderedInit, WinnersInit
<1>2. Sound /\ (Ordered /\ WinnersSeated) /\ [Next]_vars => (Ordered /\ WinnersSeated)'
  BY OrderedStep, WinnersStep
<1>3. Sound /\ Ordered /\ WinnersSeated => FedByWinners
  <2> SUFFICES ASSUME Sound, Ordered, WinnersSeated, NEW m \in Matches, NEW n \in Matches,
                      row[m].status \in Concluded, row[m].next = n
               PROVE  /\ Seat(row[n], row[m].slot) \in {row[m].winner, TBD}
                      /\ row[n].status \in {"live", "completed"} =>
                           Seat(row[n], row[m].slot) = row[m].winner
    BY DEF FedByWinners
  <2>1. Drawn[m].next = n /\ Drawn[m].slot = row[m].slot
    BY DEF Ordered, Linked
  <2>2. Seat(row[n], row[m].slot) \in {row[m].winner, TBD}
    BY <2>1 DEF WinnersSeated, FedSeats
  <2>3. row[n].status \in {"live", "completed"} => Seat(row[n], row[m].slot) # TBD
    BY DEF Sound, RowsFit, Fit, BothAssigned, Seat
  <2> QED BY <2>2, <2>3
<1> QED BY <1>1, <1>2, <1>3, SoundAlways, PTL DEF Spec
=============================================================================

----------------------------- MODULE Scoreboard -----------------------------
(***************************************************************************)
(* The score of one match: what may be recorded (internal/match_events,    *)
(* internal/scoring/validation.go), the fold of the server                 *)
(* (internal/scoring/engine.go), the fold of the page                      *)
(* (lib/scoring/engine.ts), and the completion that stores the score under *)
(* the lock of the match (internal/matches/repository.go).                 *)
(*                                                                         *)
(* An event's payload is its amount (points or bonus_points) and, for      *)
(* all_out, the team that is out.  An amount is a JSON number: its value,  *)
(* whether it is written as an integer, for Go decodes 2.0 into no int     *)
(* while JavaScript takes it for 2, and whether the keys of its payload    *)
(* are spelled as both look for them, for Go takes "Points" as well.  A    *)
(* missing amount is zero.                                                 *)
(*                                                                         *)
(* A score passes through three widths: Go adds up in an int, the column   *)
(* is an int32, and the page adds up in a double.                          *)
(***************************************************************************)
EXTENDS Integers, Sequences, SequencesExt, Functions

CONSTANTS Formats,      \* of the match: subset of {"team", "individual"}
          EventTypes,   \* the types recorded here
          Amounts,      \* the amounts written
          MaxEvents,    \* events in the log
          MaxInt32,     \* 2^31 - 1
          MaxExact,     \* 2^53: up to it a double holds every integer
          MaxInt        \* 2^63 - 1

PointTypes == {"raid_successful", "penalty_awarded", "all_out"}
FlatTypes == {"bonus_point_awarded", "tackle_successful", "super_tackle"}
MutedTypes == {"super_raid", "score_correction", "match_started"}

Amount == [value : Int, form : {"integer", "decimal"}, key : {"exact", "other case"}]
NoAmount == [value |-> 0, form |-> "integer", key |-> "exact"]

ASSUME ScoreboardAssumption == /\ Formats \subseteq {"team", "individual"}
                               /\ EventTypes \subseteq PointTypes \cup FlatTypes \cup MutedTypes
                               /\ Amounts \subseteq Amount
                               /\ MaxEvents \in Nat
                               /\ {MaxInt32, MaxExact, MaxInt} \subseteq Nat
                               /\ MaxInt32 < MaxExact /\ MaxExact < MaxInt

VARIABLES format,   \* of the match
          sheet,    \* its events, in the order of their numbers
          shown,    \* the authoritative score the page has loaded
          result    \* NoResult while live, then what the row stores

scoreVars == <<format, sheet, shown, result>>

Opponent == [home |-> "away", away |-> "home", none |-> "none"]
NoResult == [winner |-> "live"]

-----------------------------------------------------------------------------
(* The two folds.                                                          *)

\* participantSide: by team in a team match, by player in an individual one.
ParticipantSide(m, e) == IF m = "team" THEN e.team ELSE e.player

\* The sum of what the events of one side give.
Total(points) == FoldFunction(+, 0, points)
Leader(score) == CASE score.home > score.away -> "home"
                   [] score.away > score.home -> "away"
                   [] OTHER -> "none"

\* A signed integer of the width whose largest value is most.
Wrapped(n, most) == ((n + most + 1) % (2 * (most + 1))) - (most + 1)

\* payloadPoints: json.Unmarshal into *int, under a key of any case, and only
\* what is positive.
PayloadPoints(e) == IF e.amount.form = "integer" /\ e.amount.value \in 1..MaxInt THEN e.amount.value ELSE 0

\* pointsForEvent.
PointsForEvent(e) == CASE e.type \in PointTypes -> PayloadPoints(e)
                       [] e.type = "super_tackle" -> 2
                       [] e.type \in FlatTypes \ {"super_tackle"} -> 1
                       [] OTHER -> 0
SideOfEvent(m, e) == IF e.type = "all_out" THEN Opponent[e.out] ELSE ParticipantSide(m, e)

\* GetEffectiveMatchEventsForScore.
EffectiveEvents(l) == {e \in ToSet(l) : ~\E c \in ToSet(l) : c.cancels = e.id}

\* ScoreEngine.Compute, of a match and its events.
Compute(m, l) ==
  LET Given(s) == [e \in {x \in EffectiveEvents(l) : SideOfEvent(m, x) = s} |-> PointsForEvent(e)]
  IN [home |-> Wrapped(Total(Given("home")), MaxInt), away |-> Wrapped(Total(Given("away")), MaxInt)]

\* A number of JavaScript: beyond MaxExact only every other integer is one.
\* (Rounded once per sum here, after every addition by the page.)
Double(n) == IF n <= MaxExact \/ n % 2 = 0 THEN n ELSE IF n % 4 = 1 THEN n - 1 ELSE n + 1

\* Of the page, payload.points: the very key; Number.isInteger(2.0) holds.
NumberOf(e) == IF e.amount.key = "exact" /\ e.amount.value > 0 THEN Double(e.amount.value) ELSE 0

\* scoreContribution.
Contribution(e) == IF e.type \in PointTypes THEN NumberOf(e)
                   ELSE IF e.type \in {"bonus_point_awarded", "tackle_successful"} THEN 1
                   ELSE IF e.type = "super_tackle" THEN 2 ELSE 0
AllOutSide(e) == CASE e.out = "home" -> "away" [] e.out = "away" -> "home" [] OTHER -> "none"
ContributionSide(m, e) == IF e.type = "all_out" THEN AllOutSide(e) ELSE ParticipantSide(m, e)

\* cancelledEventIds, computeScore.
CancelledEventIds(l) == {e.cancels : e \in ToSet(l)} \ {0}
PageSum(m, l, s) ==
  LET counting == {e \in ToSet(l) : e.id \notin CancelledEventIds(l)}
  IN Total([e \in {x \in counting : ContributionSide(m, x) = s} |-> Contribution(e)])
ComputeScore(m, l) == [home |-> Double(PageSum(m, l, "home")), away |-> Double(PageSum(m, l, "away"))]

-----------------------------------------------------------------------------
(* Recording an event.                                                     *)

\* Mutant: penalties are not checked.
RaidsChecked(e) == e.type \in PointTypes \ {"penalty_awarded"} => PayloadPoints(e) > 0

\* ValidateScoreEventPayload.
PayloadValid(e) == e.type \in PointTypes => PayloadPoints(e) > 0

\* ValidateAllOutParticipant: no team is out of an individual match.
OutIsTeam(e) == e.type = "all_out" => format = "team" /\ e.out # "none"

\* CreateWithAudit, steps 3 to 5: a team plays here, a player of it or of one
\* of the two, or one of the two players.
Participates(e) == IF format = "individual" THEN e.team = "none"
                   ELSE "none" \in {e.team, e.player} \/ e.team = e.player

\* CountMatchEventsByType; step 6: match_started once.
LifecycleOnce(e) == e.type = "match_started" => \A o \in ToSet(sheet) : o.type # e.type

\* GetMatchEventForCorrection.
EventFound(id) == {o \in ToSet(sheet) : o.id = id}

\* GetEventCancellation.
CancelledBefore(id) == \E o \in ToSet(sheet) : o.cancels = id

\* Step 7, and the rule of the service on who carries cancels_event_id.
CorrectionValid(e) ==
  IF e.type = "score_correction"
  THEN /\ \E o \in EventFound(e.cancels) : o.type # "score_correction"
       /\ ~CancelledBefore(e.cancels)
  ELSE e.cancels = 0

\* LockMatchForUpdate: the match is live.
Live == result = NoResult

CreateEvent(e) ==
  /\ Live /\ Len(sheet) < MaxEvents
  /\ e.id = Len(sheet) + 1
  /\ PayloadValid(e) /\ OutIsTeam(e) /\ Participates(e) /\ LifecycleOnce(e) /\ CorrectionValid(e)
  /\ sheet' = Append(sheet, e)
  /\ UNCHANGED <<format, shown, result>>

\* What is written: attribution, an amount and a team out only where the type
\* reads them.
Unattributed == MutedTypes \cup {"all_out"}
NewEvents == UNION {[id : {Len(sheet) + 1}, type : {t},
                     team : IF t \in Unattributed THEN {"none"} ELSE {"home", "away", "none"},
                     player : IF t \in Unattributed THEN {"none"} ELSE {"home", "away", "none"},
                     amount : IF t \in PointTypes THEN Amounts ELSE {NoAmount},
                     out : IF t = "all_out" THEN {"home", "away", "none"} ELSE {"none"},
                     cancels : IF t = "score_correction" THEN 0..Len(sheet) ELSE {0}] : t \in EventTypes}

-----------------------------------------------------------------------------
(* The page of the scorer.                                                 *)

\* useMatchScore: GET /score, parsed by the page.
Parsed(score) == [home |-> Double(score.home), away |-> Double(score.away)]
LoadScore == shown' = Parsed(Compute(format, sheet)) /\ UNCHANGED <<format, sheet, result>>

\* Mutant: the score the page had is stored.
TakenFrom(l) == shown

\* UpdateWithAudit, the snapshot of a completion: folded under the lock.
Snapshot(l) == Compute(format, l)

\* The int32 conversions of UpdateWithAudit.
Columns(score) == [home |-> Wrapped(score.home, MaxInt32), away |-> Wrapped(score.away, MaxInt32)]

\* confirmComplete, buildCompletionBody: the winner of the score loaded, and
\* validateWinnerVsScore, before the conversions.
CompleteMatch ==
  /\ Live
  /\ Leader(shown) = Leader(Snapshot(sheet))
  /\ result' = [winner |-> Leader(shown), score |-> Columns(Snapshot(sheet))]
  /\ UNCHANGED <<format, sheet, shown>>

ScoreInit == /\ format \in Formats
             /\ sheet = <<>>
             /\ shown = [home |-> 0, away |-> 0]
             /\ result = NoResult
ScoreNext == (\E e \in NewEvents : CreateEvent(e)) \/ LoadScore \/ CompleteMatch
ScoreSpec == ScoreInit /\ [][ScoreNext]_scoreVars

-----------------------------------------------------------------------------
(* Properties.                                                             *)

\* "this fold must produce the SAME score the backend derives": the two folds
\* give the same score of any log whose payloads spell their keys as the page
\* does, while the amounts and their sums are integers a double holds
\* (engine.ts, engine.go, the checks at write).
Spelled == \A e \in ToSet(sheet) : e.amount.key = "exact"
Countable == /\ \A e \in ToSet(sheet) : e.amount.value <= MaxExact
             /\ \A s \in {"home", "away"} : PageSum(format, sheet, s) \in 0..MaxExact
ScoreAgreed == Spelled /\ Countable => ComputeScore(format, sheet) = Compute(format, sheet)

\* A completed match stores the winner by the fold of its whole log, whatever
\* was recorded since its scorer loaded the score, and that fold itself as
\* long as the columns can hold it (UpdateWithAudit, validateWinnerVsScore,
\* LockMatchForUpdate).
Holdable(score) == {score.home, score.away} \subseteq 0..MaxInt32
ResultFromLog == ~Live =>
  LET fold == Compute(format, sheet) IN
  /\ result.winner = Leader(fold)
  /\ Holdable(fold) => result.score = fold
=============================================================================

------------------------------ MODULE Standings ------------------------------
(***************************************************************************)
(* The table of a tournament (internal/standings), while its matches are   *)
(* completed and entrants are disqualified.  An entrant is the number of   *)
(* its registration: registered_at tells all entrants apart.  The table is *)
(* computed from the matches and registrations whenever it is asked for.   *)
(***************************************************************************)
EXTENDS Integers, FiniteSets, Functions

CONSTANTS Registered,   \* entrants, 1..n
          Seeding,      \* the seed numbers they may have: functions on Registered
          MaxScore      \* bound: points one side scores in a match

ASSUME StandingsAssumption ==
  /\ IsFiniteSet(Registered) /\ Registered \subseteq Nat \ {0}
  /\ Seeding \subseteq [Registered -> Nat]
  /\ MaxScore \in Nat

Unseeded == 99   \* nil: below every seed

\* tournaments.settings: a close loss is worth something.
WinPoints == 3
DrawPoints == 1
LossPoints == 0
CloseMargin == 1
CloseLossPoints == 1

VARIABLES results, out, seeds   \* completed matches, disqualified entrants, seed numbers

tableVars == <<results, out, seeds>>

-----------------------------------------------------------------------------
(* Compute.                                                                *)

Of(M, p) == {m \in M : p \in {m.home, m.away}}
For(m, p) == IF m.home = p THEN m.hs ELSE m.as
Margin(m) == IF m.hs > m.as THEN m.hs - m.as ELSE m.as - m.hs

\* closeLossPoints: a walkover is never a close loss.
LosersPoints(m) == IF ~m.walkover /\ CloseMargin > 0 /\ Margin(m) <= CloseMargin
                   THEN CloseLossPoints ELSE LossPoints

PointsFrom(m, p) == IF m.winner = 0 THEN DrawPoints
                    ELSE IF m.winner = p THEN WinPoints ELSE LosersPoints(m)

Points(M, p) == SumFunction([m \in Of(M, p) |-> PointsFrom(m, p)])
ScoreFor(M, p) == SumFunction([m \in Of(M, p) |-> For(m, p)])
Difference(M, p) == 2 * ScoreFor(M, p) - SumFunction([m \in Of(M, p) |-> m.hs + m.as])
Wins(M, p) == Cardinality({m \in Of(M, p) : m.winner = p})

\* A disqualified entrant that never played is dropped.
Rows(M, dq) == {p \in Registered : p \in dq => Of(M, p) # {}}

\* Mutant: the disqualified are left out of the head-to-head.
TiedStill(R, dq, pts, p) == {q \in R : pts[q] = pts[p] /\ (q \in dq <=> p \in dq)}

\* buildH2HRanks: groups of equal points.
TiedWith(R, dq, pts, p) == {q \in R : pts[q] = pts[p]}

\* The first place in which two keys differ decides.
Better(a, b) == \E i \in DOMAIN a : a[i] > b[i] /\ \A j \in 1..(i - 1) : a[j] = b[j]

\* The sub-table of the matches within the group; equal records share a rank.
H2HRank(M, G, p) ==
  LET inner == {m \in M : m.home \in G /\ m.away \in G}
      record == [q \in G |-> <<Points(inner, q), Difference(inner, q), ScoreFor(inner, q)>>]
  IN 1 + Cardinality({q \in G : Better(record[q], record[p])})

\* Compute and makeLess: the position of a row is one more than the number of
\* rows ahead of it.
Table(M, dq) ==
  LET R == Rows(M, dq)
      pts == [p \in R |-> Points(M, p)]
      key == [p \in R |-> <<IF p \in dq THEN 0 ELSE 1, pts[p], -H2HRank(M, TiedWith(R, dq, pts, p), p),
                            Difference(M, p), ScoreFor(M, p), Wins(M, p), -seeds[p], -p>>]
  IN [p \in R |-> 1 + Cardinality({q \in R : Better(key[q], key[p])})]

-----------------------------------------------------------------------------
(* What the table is computed from.                                        *)

\* A match is completed, with a winner or drawn, or walked over: 0-0.
Complete(a, b, hs, as, w) ==
  /\ \A m \in results : {m.home, m.away} # {a, b}
  /\ results' = results \cup {[home |-> a, away |-> b, hs |-> hs, as |-> as, winner |-> w, walkover |-> FALSE]}
  /\ UNCHANGED <<out, seeds>>

Walkover(a, b, w) ==
  /\ \A m \in results : {m.home, m.away} # {a, b}
  /\ results' = results \cup {[home |-> a, away |-> b, hs |-> 0, as |-> 0, winner |-> w, walkover |-> TRUE]}
  /\ UNCHANGED <<out, seeds>>

\* Update of a registration: approved to disqualified.
Disqualify(p) ==
  /\ p \notin out /\ out' = out \cup {p}
  /\ UNCHANGED <<results, seeds>>

\* Bound: a winner has not scored less, a draw is level; the code takes any winner.
Winners(a, b, hs, as) == {w \in {0, a, b} : (w = 0 => hs = as) /\ (w = a => hs >= as) /\ (w = b => as >= hs)}

TableInit == results = {} /\ out = {} /\ seeds \in Seeding

TableNext ==
  \/ \E a, b \in Registered : a < b /\
       \/ \E hs, as \in 0..MaxScore : \E w \in Winners(a, b, hs, as) : Complete(a, b, hs, as, w)
       \/ \E w \in {a, b} : Walkover(a, b, w)
  \/ \E p \in Registered : Disqualify(p)
TableSpec == TableInit /\ [][TableNext]_tableVars

-----------------------------------------------------------------------------
(* Properties.                                                             *)

\* "results preserved, but ranked last": a disqualification moves one entrant
\* below all who are not disqualified, or drops it if it never played, and
\* leaves the order of the others as it was (Compute, makeLess, PRI-1).
OthersKeepPlace ==
  [][\A p \in out' \ out :
       LET old == Table(results, out)  new == Table(results, out')
           others == (DOMAIN old) \ {p}
       IN /\ others \subseteq DOMAIN new
          /\ \A q, r \in others : old[q] < old[r] <=> new[q] < new[r]
          /\ p \in DOMAIN new => \A q \in others \ out : new[q] < new[p]]_tableVars
=============================================================================

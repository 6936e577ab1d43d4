----------------------------- MODULE MCBracket ------------------------------
(* Model checking of Bracket: the knockout of four as fixturegen draws it,  *)
(* and a tournament whose matches are made by hand.                         *)
EXTENDS Bracket, TLC

CONSTANTS m1, m2, m3, e1, e2, e3, e4, s1, s2

Drawing(h, a, k) == [Unborn EXCEPT !.status = "scheduled", !.home = h, !.away = a,
                                   !.next = m3, !.slot = k]
Final == [Unborn EXCEPT !.status = "scheduled"]

\* The knockout of four.
Semifinals == [m \in Matches |->
  IF m = m1 THEN Drawing(e1, e2, 1)
  ELSE IF m = m2 THEN Drawing(e3, e4, 2)
  ELSE IF m = m3 THEN Final ELSE Unborn]

\* Nothing is drawn: every match is created and linked by hand.  No formula
\* tells matches, entrants or requests apart then.
Blank == [m \in Matches |-> Unborn]
Symmetry == Permutations(Matches) \cup Permutations(Entrants) \cup Permutations(Staff)

\* Both drawings are as the proof of FeedersFirst assumes.
ASSUME DrawingAssumption == WellDrawn
=============================================================================

-------------------------------- MODULE Draw --------------------------------
(***************************************************************************)
(* The draw of a tournament (internal/fixtures): pure functions from a     *)
(* format and a number of entrants to the matches, which say who meets     *)
(* whom in which round and where a winner goes.  Entrants are their seeds, *)
(* 1 to n; an entrant of a bracket is <<seed>>, or <<group, rank>> when the  *)
(* group stage has still to name it.                                       *)
(***************************************************************************)
EXTENDS Naturals, Sequences, FiniteSets, FiniteSetsExt

CONSTANTS MaxLeague, MaxEntrants, MaxGroups   \* bounds: the inputs that are tried

ASSUME DrawAssumption == MaxLeague \in Nat /\ MaxEntrants \in Nat /\ MaxGroups \in Nat

VARIABLE plan   \* what Generate returned, with the settings it was asked for

-----------------------------------------------------------------------------
(* Round robin: the circle method.                                         *)

Even(n) == IF n % 2 = 1 THEN n + 1 ELSE n   \* evenCount: with the bye, entrant n + 1

\* Mutant: the entrant at position 1 moves to the end.
RotatedAll(cur, m) == [i \in 1..m |-> IF i = m THEN cur[1] ELSE cur[i + 1]]

\* rotateCircle: the first is fixed, the last moves to the second position.
Rotated(cur, m) == [i \in 1..m |-> IF i = 1 \/ m < 3 THEN cur[i] ELSE IF i = 2 THEN cur[m] ELSE cur[i - 1]]

\* circlePairs: <<a, b, round>>.
CirclePairs(n) ==
  LET m == Even(n)
      cur[r \in 1..m] == IF r = 1 THEN [i \in 1..m |-> i] ELSE Rotated(cur[r - 1], m)
  IN {x \in {<<cur[r][i], cur[r][m + 1 - i], r>> : i \in 1..(m \div 2), r \in 1..(m - 1)} :
        x[1] <= n /\ x[2] <= n}

\* orientBalanced: Hierholzer's circuit of the complete graph, with a vertex
\* more when n is even, always taking the first unused edge; an edge is
\* played at home by the vertex the circuit leaves.
Orientation(n) ==
  LET V == 1..(IF n % 2 = 0 THEN n + 1 ELSE n)
      edges == (Cardinality(V) * (Cardinality(V) - 1)) \div 2
      Step(s) ==
        LET x == Head(s.stack)
            unused == {y \in V \ {x} : {x, y} \notin s.used}
        IN IF unused = {} THEN [s EXCEPT !.stack = Tail(@), !.path = Append(@, x)]
           ELSE [s EXCEPT !.used = @ \cup {{x, Min(unused)}}, !.stack = <<Min(unused)>> \o @]
      state[k \in 0..(2 * edges + 1)] ==
        IF k = 0 THEN [used |-> {}, stack |-> <<1>>, path |-> <<>>] ELSE Step(state[k - 1])
      path == state[2 * edges + 1].path
  IN {<<path[k], path[k + 1]>> : k \in 1..(Len(path) - 1)} \cap ((1..n) \X (1..n))

\* Odd legs mirror the first.
Sides(p, leg) == IF leg % 2 = 1 THEN <<p[2], p[1]>> ELSE p

\* homeAway.
HomeAway(O, x) == IF <<x[1], x[2]>> \in O THEN <<x[1], x[2]>> ELSE <<x[2], x[1]>>

\* buildRoundRobin.
RoundRobin(n, legs) ==
  LET O == Orientation(n)
  IN {[home |-> Sides(HomeAway(O, x), l)[1], away |-> Sides(HomeAway(O, x), l)[2],
       round |-> x[3] + l * (Even(n) - 1)] : x \in CirclePairs(n), l \in 0..(legs - 1)}

-----------------------------------------------------------------------------
(* Knockout.                                                               *)

\* nextPow2, log2.
Rounds(n) == Min({k \in 0..n : 2^k >= n})

\* Mutant: the halves are dealt out in order.
InOrder(s, sum) == <<s, s + 1>>

\* seedSlotOrder: a seed is paired with the one that completes the sum.
Paired(s, sum) == <<s, sum - s>>

SeedSlotOrder(rounds) ==
  LET slots[k \in 0..rounds] ==
        IF k = 0 THEN <<1>>
        ELSE [i \in 1..2^k |-> Paired(slots[k - 1][(i + 1) \div 2], 2^k + 1)[IF i % 2 = 1 THEN 1 ELSE 2]]
  IN slots[rounds]

Bye == <<>>
TBD == <<0, 0>>   \* filled by the winner of a feeder; as a successor: none

\* buildKnockout: the leaves, labels beyond the field are byes.
Leaves(entrants) ==
  LET order == SeedSlotOrder(Rounds(Len(entrants)))
  IN [i \in DOMAIN order |-> IF order[i] <= Len(entrants) THEN entrants[order[i]] ELSE Bye]

\* buildBracket and wireChild: node <<r, j>> takes the winners of <<r-1, 2j-1>>
\* and <<r-1, 2j>>; a pair with a bye is no match, its entrant is placed one
\* round up.  A slot holds an entrant, or TBD.
Bracket(leaves) ==
  LET R == Rounds(Len(leaves))
      Real(j) == leaves[2 * j - 1] # Bye /\ leaves[2 * j] # Bye
      Placed(j) == IF leaves[2 * j - 1] = Bye THEN leaves[2 * j] ELSE leaves[2 * j - 1]
      Slot(r, i) == IF r = 1 THEN leaves[i] ELSE IF r = 2 /\ ~Real(i) THEN Placed(i) ELSE TBD
      Node(r, j) == [round |-> r, pos |-> j, home |-> Slot(r, 2 * j - 1), away |-> Slot(r, 2 * j),
                     next |-> IF r = R THEN TBD ELSE <<r + 1, (j + 1) \div 2>>,
                     slot |-> IF j % 2 = 1 THEN 1 ELSE 2]
  IN {Node(1, j) : j \in {i \in 1..2^(R - 1) : Real(i)}} \cup UNION {{Node(r, j) : j \in 1..2^(R - r)} : r \in 2..R}

-----------------------------------------------------------------------------
(* Groups, then knockout.                                                  *)

\* distributeSnake: the group of seed i.
Snake(i, g) == LET pos == (i - 1) % g IN IF ((i - 1) \div g) % 2 = 1 THEN g - pos ELSE pos + 1

\* Rank-major: all winners in the order of their groups, then all runners-up.
Qualifiers(g, q) == [i \in 1..(g * q) |-> <<((i - 1) % g) + 1, ((i - 1) \div g) + 1>>]

\* The entrants of each group; they play a RoundRobin of one leg (buildGroupStage).
Groups(n, g) == [k \in 1..g |-> {i \in 1..n : Snake(i, g) = k}]

-----------------------------------------------------------------------------
(* Generate.                                                               *)

NoPlan == [format |-> "none"]

DrawInit == plan = NoPlan

\* round_robin and league.
GenerateLeague(n, legs) ==
  /\ plan = NoPlan
  /\ plan' = [format |-> "league", n |-> n, legs |-> legs, matches |-> RoundRobin(n, legs)]

GenerateKnockout(n) ==
  /\ plan = NoPlan
  /\ plan' = [format |-> "knockout", n |-> n, matches |-> Bracket(Leaves([i \in 1..n |-> <<i>>]))]

\* validateGroupConfig.
GenerateGroups(n, g, q) ==
  /\ plan = NoPlan
  /\ g >= 2 /\ g <= n /\ q >= 1 /\ q <= n \div g
  /\ plan' = [format |-> "groups", n |-> n, g |-> g, q |-> q, groups |-> Groups(n, g),
              matches |-> Bracket(Leaves(Qualifiers(g, q)))]

DrawNext == \E n \in 2..MaxEntrants :
  \/ \E legs \in 1..3 : n <= MaxLeague /\ GenerateLeague(n, legs)
  \/ GenerateKnockout(n)
  \/ \E g \in 2..MaxGroups, q \in 1..MaxEntrants : GenerateGroups(n, g, q)
DrawSpec == DrawInit /\ [][DrawNext]_plan

-----------------------------------------------------------------------------
(* Properties.                                                             *)

\* "every unordered pair meets exactly `legs` times", nobody plays twice in a
\* round, and home and away differ by at most one, not at all after an even
\* number of legs (buildRoundRobin).
LeagueFair == plan.format = "league" =>
  LET M == plan.matches  E == 1..plan.n
      Home(e) == Cardinality({m \in M : m.home = e})  Away(e) == Cardinality({m \in M : m.away = e})
  IN /\ \A a, b \in E : a < b => Cardinality({m \in M : {m.home, m.away} = {a, b}}) = plan.legs
     /\ \A m, k \in M : m.round = k.round /\ {m.home, m.away} \cap {k.home, k.away} # {} => m = k
     /\ \A e \in E : /\ Home(e) <= Away(e) + 1 /\ Away(e) <= Home(e) + 1
                     /\ plan.legs % 2 = 0 => Home(e) = Away(e)

\* A bracket loses one entrant per match: every entrant is placed once, every
\* slot is an entrant's or has exactly one feeder, and the best seed meets the
\* worst (so byes go to the top seeds); groups differ by one entrant at most,
\* and when their number is even no first match is between two of one group
\* (buildBracket, distributeSnake, buildGroupKnockout).
BracketSound == plan.format \in {"knockout", "groups"} =>
  LET M == plan.matches
      field == IF plan.format = "knockout" THEN {<<i>> : i \in 1..plan.n}
               ELSE {<<g, r>> : g \in 1..plan.g, r \in 1..plan.q}
      slots == {<<m, s>> : m \in M, s \in {1, 2}}
      At(x) == IF x[2] = 1 THEN x[1].home ELSE x[1].away
      Feeders(x) == {m \in M : m.next = <<x[1].round, x[1].pos>> /\ m.slot = x[2]}
  IN /\ Cardinality(M) = Cardinality(field) - 1
     /\ \A f \in field : Cardinality({x \in slots : At(x) = f}) = 1
     /\ \A x \in slots : Cardinality(Feeders(x)) = IF At(x) = TBD THEN 1 ELSE 0
     /\ plan.format = "knockout" =>
          \A m \in M : m.round = 1 => m.home[1] + m.away[1] = 2^Rounds(plan.n) + 1
     /\ plan.format = "groups" =>
          \A k \in 1..plan.g : Cardinality(plan.groups[k]) - (plan.n \div plan.g) \in {0, 1}
     /\ plan.format = "groups" /\ plan.g % 2 = 0 =>
          \A m \in M : m.home # TBD /\ m.away # TBD /\ m.round = 1 => m.home[1] # m.away[1]

\* "places a group's own qualifiers in opposite bracket halves": for the
\* winner and the runner-up of a group (buildGroupKnockout).  It does not hold
\* for four groups with two qualifiers (see the README).
HalvesApart == plan.format = "groups" /\ plan.g % 2 = 0 =>
  LET M == plan.matches  R == Rounds(plan.g * plan.q)
      Half(f) == CHOOSE h \in {1, 2} : \E m \in M : f \in {m.home, m.away} /\
                   IF m.round = R THEN (h = 1) = (m.home = f) ELSE (h = 1) = (m.pos <= 2^(R - m.round - 1))
  IN \A g \in 1..plan.g : plan.q >= 2 => Half(<<g, 1>>) # Half(<<g, 2>>)
=============================================================================

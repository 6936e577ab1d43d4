--------------------------- MODULE ContestProofs ----------------------------
(***************************************************************************)
(* Proofs about Draw and Standings, for any number of entrants, of matches *)
(* and of groups.  The two share no state; each has its invariant.         *)
(*                                                                         *)
(* A league is fair because of what its parts return: the circle seats     *)
(* everyone once a round and brings every two opposite each other once, and *)
(* Hierholzer's walk, followed step by step to its end, is a closed tour   *)
(* through every edge, which leaves a vertex as often as it arrives there. *)
(* A bracket is sound because the order of the seeds is a permutation that *)
(* pairs each seed with the one that completes the sum.                    *)
(***************************************************************************)
EXTENDS Draw, Standings, Integers, FiniteSetTheorems, FunctionTheorems,
        SequenceTheorems, WellFoundedInduction, TLAPS

\* A set of numbers has a least one: what induction would give.
LEMMA LeastNumber ==
  ASSUME NEW S \in SUBSET Nat, S # {}
  PROVE  \E n \in S : \A k \in S : n <= k
<1>1. IsWellFoundedOn(OpToRel(<, Nat), Nat)
  BY NatLessThanWellFounded
<1>2. PICK n \in S : \A k \in S : ~ (<<k, n>> \in OpToRel(<, Nat))
  BY <1>1, WFMin
<1>3. \A k \in S : ~ (k < n)
  BY <1>2 DEF OpToRel
<1> QED BY <1>3

\* A function of an interval may be defined from the value before.
Recursive(g, a, b, x, T) == g = [k \in a..b |-> IF k = a THEN x ELSE T[k][g[k - 1]]]

LEMMA RecursionExists ==
  ASSUME NEW a \in Nat, NEW b \in Nat, a <= b, NEW X, NEW x \in X[a], NEW T,
         \A k \in (a + 1)..b : \A y \in X[k - 1] : T[k][y] \in X[k]
  PROVE  \E g : Recursive(g, a, b, x, T) /\ \A k \in a..b : g[k] \in X[k]
<1> DEFINE Solved(n) == \E g : Recursive(g, a, n, x, T) /\ \A k \in a..n : g[k] \in X[k]
           Bad == {n \in a..b : ~Solved(n)}
<1>1. Solved(a)
  <2> DEFINE g == [k \in a..a |-> x]
  <2>1. \A k \in a..a : k = a /\ g[k] \in X[k]
    OBVIOUS
  <2>2. g = [k \in a..a |-> IF k = a THEN x ELSE T[k][g[k - 1]]]
    <3> DEFINE h == [k \in a..a |-> IF k = a THEN x ELSE T[k][g[k - 1]]]
    <3>1. \A k \in a..a : g[k] = h[k]
      BY <2>1
    <3> QED BY <3>1
  <2> HIDE DEF g
  <2> QED BY <2>1, <2>2 DEF Recursive
<1>2. ASSUME NEW n \in a..b, n + 1 <= b, Solved(n) PROVE Solved(n + 1)
  <2>1. PICK g : Recursive(g, a, n, x, T) /\ \A k \in a..n : g[k] \in X[k]
    BY <1>2
  <2> DEFINE h == [k \in a..(n + 1) |-> IF k = a THEN x ELSE T[k][g[k - 1]]]
  <2>2. \A k \in a..(n + 1) : k # a => k - 1 \in a..n /\ k \in (a + 1)..b
    BY <1>2
  <2>3. \A k \in a..(n + 1) : h[k] \in X[k]
    <3> SUFFICES ASSUME NEW k \in a..(n + 1) PROVE h[k] \in X[k]
      OBVIOUS
    <3>1. CASE k = a
      BY <3>1
    <3>2. CASE k # a
      BY <2>1, <2>2, <3>2
    <3> QED BY <3>1, <3>2
  <2>4. \A k \in a..n : g[k] = IF k = a THEN x ELSE T[k][g[k - 1]]
    BY <2>1 DEF Recursive
  <2>5. \A k \in a..n : h[k] = g[k]
    BY <1>2, <2>4
  <2>6. h = [k \in a..(n + 1) |-> IF k = a THEN x ELSE T[k][h[k - 1]]]
    <3> DEFINE i == [k \in a..(n + 1) |-> IF k = a THEN x ELSE T[k][h[k - 1]]]
    <3>1. \A k \in a..(n + 1) : h[k] = i[k]
      BY <2>2, <2>5
    <3> QED BY <3>1
  <2> HIDE DEF h
  <2> QED BY <2>3, <2>6 DEF Recursive
<1>3. Bad = {}
  <2> HIDE DEF Solved
  <2> SUFFICES ASSUME Bad # {} PROVE FALSE
    OBVIOUS
  <2>1. PICK n \in Bad : \A k \in Bad : n <= k
    <3>1. Bad \in SUBSET Nat
      OBVIOUS
    <3> HIDE DEF Bad
    <3> QED BY <3>1, LeastNumber
  <2>2. n # a
    BY <1>1
  <2>3. n - 1 \in a..b /\ (n - 1) + 1 = n /\ Solved(n - 1)
    BY <2>1, <2>2
  <2>4. Solved((n - 1) + 1)
    BY <1>2, <2>3
  <2> QED BY <2>1, <2>3, <2>4
<1>4. Solved(b)
  <2> HIDE DEF Solved
  <2> QED BY <1>3
<1> QED BY <1>4

-----------------------------------------------------------------------------
(* The circle method.                                                      *)

\* Who sits at position i in round r.
Seat(m, r, i) == IF i = 1 THEN 1 ELSE IF i - r >= 1 THEN i - r + 1 ELSE i - r + m

IsCircle(m, cur) ==
  cur = [r \in 1..m |-> IF r = 1 THEN [i \in 1..m |-> i] ELSE Rotated(cur[r - 1], m)]

LEMMA CircleExists ==
  ASSUME NEW m \in Nat, m >= 2
  PROVE  \E cur : IsCircle(m, cur)
<1> DEFINE X == [1..m -> 1..m]
           first == [i \in 1..m |-> i]
           T == [r \in 1..m |-> [c \in X |-> Rotated(c, m)]]
<1>1. first \in X
  OBVIOUS
<1>2. \A c \in X : Rotated(c, m) \in X
  BY DEF Rotated
<1> DEFINE Y == [r \in 1..m |-> X]
<1>3. first \in Y[1] /\ \A r \in (1 + 1)..m : \A c \in Y[r - 1] : T[r][c] \in Y[r]
  <2>1. first \in Y[1]
    BY <1>1
  <2>2. ASSUME NEW r \in (1 + 1)..m, NEW c \in Y[r - 1] PROVE T[r][c] \in Y[r]
    <3>1. r \in 1..m /\ r - 1 \in 1..m
      OBVIOUS
    <3>2. Y[r] = X /\ Y[r - 1] = X
      BY <3>1
    <3>3. c \in X
      BY <3>2
    <3>4. T[r][c] = Rotated(c, m)
      BY <3>1, <3>3
    <3> HIDE DEF T, X
    <3> QED BY <1>2, <3>2, <3>3, <3>4
  <2> HIDE DEF T, first, Y
  <2> QED BY <2>1, <2>2
<1>4. PICK g : Recursive(g, 1, m, first, T) /\ \A r \in 1..m : g[r] \in X
  <2>0. 1 \in Nat /\ 1 <= m
    OBVIOUS
  <2>1. PICK g : Recursive(g, 1, m, first, T) /\ \A r \in 1..m : g[r] \in Y[r]
    <3> HIDE DEF T, first, Y
    <3> QED BY <1>3, <2>0, RecursionExists
  <2>2. \A r \in 1..m : Y[r] = X
    OBVIOUS
  <2> HIDE DEF T, first, X, Y
  <2> QED BY <2>1, <2>2
<1>5. \A r \in 1..m : r # 1 => T[r][g[r - 1]] = Rotated(g[r - 1], m)
  <2> SUFFICES ASSUME NEW r \in 1..m, r # 1 PROVE T[r][g[r - 1]] = Rotated(g[r - 1], m)
    OBVIOUS
  <2>1. g[r - 1] \in X
    <3> HIDE DEF X
    <3> QED BY <1>4
  <2> HIDE DEF X
  <2> QED BY <2>1
<1>6. g = [r \in 1..m |-> IF r = 1 THEN first ELSE Rotated(g[r - 1], m)]
  <2> HIDE DEF T, first
  <2> QED BY <1>4, <1>5 DEF Recursive
<1> QED BY <1>6 DEF IsCircle

LEMMA CircleSeats ==
  ASSUME NEW m \in Nat, m >= 2, NEW cur, IsCircle(m, cur)
  PROVE  \A r, i \in 1..m : cur[r][i] = Seat(m, r, i)
<1> DEFINE Bad == {r \in 1..m : \E i \in 1..m : cur[r][i] # Seat(m, r, i)}
<1>1. SUFFICES ASSUME Bad # {} PROVE FALSE
  OBVIOUS
<1>2. PICK r \in Bad : \A k \in Bad : r <= k
  <2>1. Bad \in SUBSET Nat
    OBVIOUS
  <2> HIDE DEF Bad
  <2> QED BY <1>1, <2>1, LeastNumber
<1>3. PICK i \in 1..m : cur[r][i] # Seat(m, r, i)
  BY <1>2
<1>4. cur[r] = IF r = 1 THEN [j \in 1..m |-> j] ELSE Rotated(cur[r - 1], m)
  BY <1>2 DEF IsCircle
<1>5. r # 1
  BY <1>3, <1>4 DEF Seat
<1>6. \A j \in 1..m : cur[r - 1][j] = Seat(m, r - 1, j)
  BY <1>2, <1>5
<1>7. cur[r][i] = IF i = 1 \/ m < 3 THEN Seat(m, r - 1, i)
                  ELSE IF i = 2 THEN Seat(m, r - 1, m) ELSE Seat(m, r - 1, i - 1)
  BY <1>2, <1>3, <1>4, <1>5, <1>6 DEF Rotated
<1> QED BY <1>2, <1>3, <1>5, <1>7 DEF Seat

\* A round seats everyone once.
LEMMA SeatsDiffer ==
  ASSUME NEW m \in Nat, NEW r \in 1..(m - 1), NEW i \in 1..m, NEW j \in 1..m
  PROVE  /\ Seat(m, r, i) \in 1..m
         /\ Seat(m, r, i) = Seat(m, r, j) => i = j
BY DEF Seat

LEMMA SeatTaken ==
  ASSUME NEW m \in Nat, NEW r \in 1..(m - 1), NEW e \in 1..m
  PROVE  \E i \in 1..m : Seat(m, r, i) = e
<1> DEFINE i == IF e = 1 THEN 1 ELSE IF e + r - 1 <= m THEN e + r - 1 ELSE e + r - m
<1>1. i \in 1..m
  OBVIOUS
<1>2. Seat(m, r, i) = e
  BY DEF Seat
<1> QED BY <1>1, <1>2

\* Opposite seats: two meet in one round.
LEMMA MeetAtMostOnce ==
  ASSUME NEW m \in Nat, m \div 2 \in Nat, m = 2 * (m \div 2), NEW r \in 1..(m - 1), NEW s \in 1..(m - 1),
         NEW i \in 1..m, NEW j \in 1..m,
         Seat(m, r, i) = Seat(m, s, j), Seat(m, r, m + 1 - i) = Seat(m, s, m + 1 - j)
  PROVE  r = s /\ i = j
<1> DEFINE h == m \div 2
<1>0. h \in Nat /\ m = 2 * h
  OBVIOUS
<1> HIDE DEF h
<1>1. r = s
  BY <1>0 DEF Seat
<1> QED BY <1>1, SeatsDiffer

LEMMA MeetOnce ==
  ASSUME NEW h \in Nat, NEW m \in Nat, m = 2 * h, NEW a \in 1..m, NEW b \in 1..m, a # b
  PROVE  \E r \in 1..(m - 1), i \in 1..m : Seat(m, r, i) = a /\ Seat(m, r, m + 1 - i) = b
<1>1. CASE a = 1
  <2>1. m + 1 - b \in 1..(m - 1) /\ m + 1 - 1 = m
    BY <1>1
  <2>2. Seat(m, m + 1 - b, 1) = a /\ Seat(m, m + 1 - b, m) = b
    BY <1>1, <2>1 DEF Seat
  <2> QED BY <2>1, <2>2
<1>2. CASE b = 1
  <2>1. m + 1 - a \in 1..(m - 1) /\ m + 1 - m = 1
    BY <1>2
  <2>2. Seat(m, m + 1 - a, 1) = b /\ Seat(m, m + 1 - a, m) = a
    BY <1>2, <2>1 DEF Seat
  <2> QED BY <2>1, <2>2
<1>3. CASE a # 1 /\ b # 1
  <2>1. PICK r \in 1..(m - 1) : \/ a + b = m + 3 - 2 * r \/ a + b = 2 * m + 2 - 2 * r \/ a + b = 3 * m + 1 - 2 * r
    <3>1. PICK k \in Nat : a + b = 2 * k \/ a + b = 2 * k + 1
      <4>1. (a + b) \div 2 \in Nat
        OBVIOUS
      <4> QED BY <4>1
    <3>2. CASE a + b = 2 * k
      <4>1. m + 1 - k \in 1..(m - 1) /\ a + b = 2 * m + 2 - 2 * (m + 1 - k)
        BY <1>3, <3>2
      <4> QED BY <4>1
    <3>3. CASE a + b = 2 * k + 1 /\ k <= h
      <4>1. h + 1 - k \in 1..(m - 1) /\ a + b = m + 3 - 2 * (h + 1 - k)
        BY <1>3, <3>3
      <4> QED BY <4>1
    <3>4. CASE a + b = 2 * k + 1 /\ k > h
      <4>1. 3 * h - k \in 1..(m - 1) /\ a + b = 3 * m + 1 - 2 * (3 * h - k)
        BY <1>3, <3>4
      <4> QED BY <4>1
    <3> QED BY <3>1, <3>2, <3>3, <3>4
  <2>2. PICK i \in 1..m : Seat(m, r, i) = a
    BY SeatTaken
  <2>3. Seat(m, r, m + 1 - i) = b
    BY <1>3, <2>1, <2>2 DEF Seat
  <2> QED BY <2>2, <2>3
<1> QED BY <1>1, <1>2, <1>3

LEMMA EvenHalf ==
  ASSUME NEW n \in Nat, n >= 2
  PROVE  /\ Even(n) \in Nat /\ Even(n) >= 2 /\ Even(n) \in {n, n + 1}
         /\ Even(n) \div 2 \in Nat /\ Even(n) = 2 * (Even(n) \div 2)
BY DEF Even

LEMMA PairsAreSeats ==
  ASSUME NEW n \in Nat, n >= 2, NEW m, m = Even(n)
  PROVE  CirclePairs(n) = {x \in {<<Seat(m, r, i), Seat(m, r, m + 1 - i), r>> : i \in 1..(m \div 2), r \in 1..(m - 1)} :
                             x[1] <= n /\ x[2] <= n}
<1> DEFINE cur == CHOOSE c : IsCircle(m, c)
<1>1. m \in Nat /\ m >= 2 /\ m \div 2 \in Nat /\ m = 2 * (m \div 2)
  BY EvenHalf
<1>2. IsCircle(m, cur)
  BY <1>1, CircleExists
<1>3. CirclePairs(n) = {x \in {<<cur[r][i], cur[r][m + 1 - i], r>> : i \in 1..(m \div 2), r \in 1..(m - 1)} :
                          x[1] <= n /\ x[2] <= n}
  BY DEF CirclePairs, IsCircle
<1> HIDE DEF cur
<1>4. ASSUME NEW r \in 1..(m - 1), NEW i \in 1..(m \div 2)
      PROVE  cur[r][i] = Seat(m, r, i) /\ cur[r][m + 1 - i] = Seat(m, r, m + 1 - i)
  <2>1. r \in 1..m /\ i \in 1..m /\ m + 1 - i \in 1..m
    BY <1>1
  <2> QED BY <1>1, <1>2, <2>1, CircleSeats
<1> QED BY ONLY <1>3, <1>4

Between(x, a, b) == (x[1] = a /\ x[2] = b) \/ (x[1] = b /\ x[2] = a)
Meets(f, a, b) == (f.home = a /\ f.away = b) \/ (f.home = b /\ f.away = a)

\* A pair of the circle: two entrants and the round in which they meet.
LEMMA PairsTyped ==
  ASSUME NEW n \in Nat, n >= 2, NEW m, m = Even(n), NEW x \in CirclePairs(n)
  PROVE  /\ x[1] \in 1..n /\ x[2] \in 1..n /\ x[1] # x[2]
         /\ x[3] \in 1..(m - 1)
         /\ \E i \in 1..(m \div 2) : x = <<Seat(m, x[3], i), Seat(m, x[3], m + 1 - i), x[3]>>
<1>1. m \in Nat /\ m >= 2 /\ m \div 2 \in Nat /\ m = 2 * (m \div 2)
  BY EvenHalf
<1>2. PICK i \in 1..(m \div 2), r \in 1..(m - 1) : x = <<Seat(m, r, i), Seat(m, r, m + 1 - i), r>>
  BY PairsAreSeats
<1>3. x[1] <= n /\ x[2] <= n
  BY PairsAreSeats
<1>4. i \in 1..m /\ m + 1 - i \in 1..m /\ i # m + 1 - i
  BY <1>1
<1>5. x[1] \in 1..m /\ x[2] \in 1..m /\ x[1] # x[2]
  BY <1>1, <1>2, <1>4, SeatsDiffer
<1> QED BY <1>1, <1>2, <1>3, <1>5

LEMMA PairsApart ==
  ASSUME NEW n \in Nat, n >= 2, NEW x \in CirclePairs(n), NEW y \in CirclePairs(n),
         x[3] = y[3], {x[1], x[2]} \cap {y[1], y[2]} # {}
  PROVE  x = y
<1> DEFINE m == Even(n)
<1>1. m \in Nat /\ m >= 2 /\ m \div 2 \in Nat /\ m = 2 * (m \div 2)
  BY EvenHalf
<1>2. PICK i \in 1..(m \div 2) : x = <<Seat(m, x[3], i), Seat(m, x[3], m + 1 - i), x[3]>>
  BY PairsTyped
<1>3. PICK j \in 1..(m \div 2) : y = <<Seat(m, x[3], j), Seat(m, x[3], m + 1 - j), x[3]>>
  BY PairsTyped
<1>4. x[3] \in 1..(m - 1)
  BY PairsTyped
<1> HIDE DEF m
<1>5. i \in 1..m /\ m + 1 - i \in 1..m /\ j \in 1..m /\ m + 1 - j \in 1..m
  BY <1>1
<1>6. /\ x[1] = Seat(m, x[3], i) /\ x[2] = Seat(m, x[3], m + 1 - i)
      /\ y[1] = Seat(m, x[3], j) /\ y[2] = Seat(m, x[3], m + 1 - j)
  BY <1>2, <1>3
<1>7. i = j \/ i = m + 1 - j \/ m + 1 - i = j \/ m + 1 - i = m + 1 - j
  BY <1>1, <1>4, <1>5, <1>6, SeatsDiffer
<1>8. i = j
  BY <1>1, <1>7
<1> QED BY <1>2, <1>3, <1>8

LEMMA PairExists ==
  ASSUME NEW n \in Nat, n >= 2, NEW a \in 1..n, NEW b \in 1..n, a # b
  PROVE  \E x \in CirclePairs(n) : Between(x, a, b)
<1> DEFINE m == Even(n)
<1>1. m \in Nat /\ m >= n /\ m \div 2 \in Nat /\ m = 2 * (m \div 2)
  BY EvenHalf
<1> HIDE DEF m
<1>2. PICK r \in 1..(m - 1), i \in 1..m : Seat(m, r, i) = a /\ Seat(m, r, m + 1 - i) = b
  <2>1. a \in 1..m /\ b \in 1..m
    BY <1>1
  <2> QED BY <1>1, <2>1, MeetOnce
<1>3. CASE i <= m \div 2
  <2>1. i \in 1..(m \div 2)
    BY <1>1, <1>3
  <2>2. <<a, b, r>> \in CirclePairs(n)
    BY <1>2, <2>1, PairsAreSeats DEF m
  <2> QED BY <2>2 DEF Between
<1>4. CASE i > m \div 2
  <2>1. m + 1 - i \in 1..(m \div 2) /\ m + 1 - (m + 1 - i) = i
    BY <1>1, <1>4
  <2>2. <<b, a, r>> \in CirclePairs(n)
    BY <1>2, <2>1, PairsAreSeats DEF m
  <2> QED BY <2>2 DEF Between
<1>5. i <= m \div 2 \/ i > m \div 2
  BY <1>1
<1> QED BY <1>3, <1>4, <1>5

LEMMA PairsUnique ==
  ASSUME NEW n \in Nat, n >= 2, NEW x \in CirclePairs(n), NEW y \in CirclePairs(n),
         Between(x, y[1], y[2])
  PROVE  x = y
<1> DEFINE m == Even(n)
<1>1. m \in Nat /\ m >= 2 /\ m \div 2 \in Nat /\ m = 2 * (m \div 2)
  BY EvenHalf
<1>2. PICK i \in 1..(m \div 2) : x = <<Seat(m, x[3], i), Seat(m, x[3], m + 1 - i), x[3]>>
  BY PairsTyped
<1>3. PICK j \in 1..(m \div 2) : y = <<Seat(m, y[3], j), Seat(m, y[3], m + 1 - j), y[3]>>
  BY PairsTyped
<1>4. x[3] \in 1..(m - 1) /\ y[3] \in 1..(m - 1) /\ x[1] # x[2]
  BY PairsTyped
<1> HIDE DEF m
<1>5. i \in 1..m /\ m + 1 - i \in 1..m /\ j \in 1..m /\ m + 1 - j \in 1..m /\ m + 1 - (m + 1 - j) = j
  BY <1>1
<1>6. /\ x[1] = Seat(m, x[3], i) /\ x[2] = Seat(m, x[3], m + 1 - i)
      /\ y[1] = Seat(m, y[3], j) /\ y[2] = Seat(m, y[3], m + 1 - j)
  BY <1>2, <1>3
<1>0. \A r, s \in 1..(m - 1), p, q \in 1..m :
        Seat(m, r, p) = Seat(m, s, q) /\ Seat(m, r, m + 1 - p) = Seat(m, s, m + 1 - q) => r = s /\ p = q
  BY ONLY <1>1, MeetAtMostOnce
<1>7. CASE x[1] = y[1] /\ x[2] = y[2]
  <2>1. Seat(m, x[3], i) = Seat(m, y[3], j) /\ Seat(m, x[3], m + 1 - i) = Seat(m, y[3], m + 1 - j)
    BY <1>6, <1>7
  <2>2. x[3] = y[3] /\ i = j
    BY ONLY <1>0, <1>4, <1>5, <2>1
  <2> QED BY <1>2, <1>3, <2>2
<1>8. CASE x[1] = y[2] /\ x[2] = y[1]
  <2> DEFINE k == m + 1 - j
  <2>1. k \in 1..m /\ m + 1 - k = j
    BY <1>5
  <2>2. Seat(m, x[3], i) = Seat(m, y[3], k) /\ Seat(m, x[3], m + 1 - i) = Seat(m, y[3], m + 1 - k)
    BY <1>6, <1>8, <2>1
  <2> HIDE DEF k
  <2>3. i \in 1..m /\ k \in 1..m
    BY <1>5, <2>1
  <2>4. i = k
    BY ONLY <1>0, <1>4, <2>2, <2>3
  <2> QED BY <1>1, <2>1, <2>4
<1> QED BY <1>7, <1>8 DEF Between

-----------------------------------------------------------------------------
(* The league: the pairs of the circle, with sides, once per leg.          *)

\* Functions that pair off two sets.
LEMMA SameSize ==
  ASSUME NEW S, NEW T, NEW f \in [S -> T],
         \A x, y \in S : f[x] = f[y] => x = y,
         \A y \in T : \E x \in S : f[x] = y
  PROVE  /\ IsFiniteSet(S) => IsFiniteSet(T) /\ Cardinality(S) = Cardinality(T)
         /\ IsFiniteSet(T) => IsFiniteSet(S) /\ Cardinality(S) = Cardinality(T)
<1>1. f \in Bijection(S, T)
  BY Fun_IsBij
<1>2. ExistsBijection(S, T) /\ ExistsBijection(T, S)
  BY <1>1, Fun_ExistsBij, Fun_ExistsBijSymmetric
<1> QED BY <1>2, FS_Bijection

\* Each pair has one home side.
Tournament(O, n) == \A a, b \in 1..n : a # b => (<<a, b>> \in O <=> <<b, a>> \notin O)

Beaten(O, n, e) == {b \in (1..n) \ {e} : <<e, b>> \in O}   \* whom e receives in the first leg
Hosts(O, n, e) == {b \in (1..n) \ {e} : <<b, e>> \in O}

Balanced(O, n) ==
  /\ Tournament(O, n)
  /\ \A e \in 1..n : /\ Cardinality(Beaten(O, n, e)) <= Cardinality(Hosts(O, n, e)) + 1
                     /\ Cardinality(Hosts(O, n, e)) <= Cardinality(Beaten(O, n, e)) + 1

Fixture(O, n, x, l) == [home |-> Sides(HomeAway(O, x), l)[1], away |-> Sides(HomeAway(O, x), l)[2],
                        round |-> x[3] + l * (Even(n) - 1)]

LEMMA FixtureSides ==
  ASSUME NEW n \in Nat, n >= 2, NEW O, Tournament(O, n), NEW x \in CirclePairs(n), NEW l \in Nat,
         NEW f, f = Fixture(O, n, x, l)
  PROVE  /\ f.home \in 1..n /\ f.away \in 1..n /\ f.home # f.away
         /\ Meets(f, x[1], x[2])
         /\ l % 2 = 0 => <<f.home, f.away>> \in O
         /\ l % 2 = 1 => <<f.away, f.home>> \in O
<1>1. x[1] \in 1..n /\ x[2] \in 1..n /\ x[1] # x[2]
  BY PairsTyped
<1> DEFINE p == HomeAway(O, x)
<1>2. p = <<p[1], p[2]>> /\ p \in O /\ Between(x, p[1], p[2])
  BY <1>1 DEF HomeAway, Tournament, Between
<1>3. l % 2 \in {0, 1}
  OBVIOUS
<1>4. f = [home |-> Sides(p, l)[1], away |-> Sides(p, l)[2], round |-> x[3] + l * (Even(n) - 1)]
  BY DEF Fixture
<1> HIDE DEF p
<1>5. CASE l % 2 = 0
  <2>1. f.home = p[1] /\ f.away = p[2]
    BY <1>4, <1>5 DEF Sides
  <2> QED BY <1>1, <1>2, <1>4, <1>5, <2>1 DEF Meets, Between
<1>6. CASE l % 2 = 1
  <2>1. f.home = p[2] /\ f.away = p[1]
    BY <1>4, <1>6 DEF Sides
  <2> QED BY <1>1, <1>2, <1>4, <1>6, <2>1 DEF Meets, Between
<1> QED BY <1>3, <1>5, <1>6

\* The round tells the leg and the round of the circle.
LEMMA RoundsDiffer ==
  ASSUME NEW c \in Nat, NEW r \in 1..c, NEW s \in 1..c, NEW l \in 0..2, NEW k \in 0..2,
         r + l * c = s + k * c
  PROVE  r = s /\ l = k
<1>1. (l = 0 \/ l = 1 \/ l = 2) /\ (k = 0 \/ k = 1 \/ k = 2)
  OBVIOUS
<1> QED BY <1>1

LEMMA FixturesDiffer ==
  ASSUME NEW n \in Nat, n >= 2, NEW O, Tournament(O, n),
         NEW x \in CirclePairs(n), NEW y \in CirclePairs(n), NEW l \in 0..2, NEW k \in 0..2,
         NEW f, f = Fixture(O, n, x, l), NEW g, g = Fixture(O, n, y, k)
  PROVE  /\ f.round = g.round => l = k /\ x[3] = y[3]
         /\ f.round = g.round /\ {f.home, f.away} \cap {g.home, g.away} # {} => f = g
         /\ Meets(f, g.home, g.away) => x = y
<1>0. l \in Nat /\ k \in Nat
  OBVIOUS
<1>a. f.round = x[3] + l * (Even(n) - 1) /\ Meets(f, x[1], x[2])
  <2>1. f.round = x[3] + l * (Even(n) - 1)
    BY DEF Fixture
  <2>2. Meets(f, x[1], x[2])
    BY <1>0, FixtureSides
  <2> QED BY <2>1, <2>2
<1>b. g.round = y[3] + k * (Even(n) - 1) /\ Meets(g, y[1], y[2])
  <2>1. g.round = y[3] + k * (Even(n) - 1)
    BY DEF Fixture
  <2>2. Meets(g, y[1], y[2])
    BY <1>0, FixtureSides
  <2> QED BY <2>1, <2>2
<1>1. /\ f.round = x[3] + l * (Even(n) - 1) /\ g.round = y[3] + k * (Even(n) - 1)
      /\ Meets(f, x[1], x[2]) /\ Meets(g, y[1], y[2])
  BY <1>a, <1>b
<1>2. f.round = g.round => l = k /\ x[3] = y[3]
  <2>1. x[3] \in 1..(Even(n) - 1) /\ y[3] \in 1..(Even(n) - 1) /\ Even(n) - 1 \in Nat
    BY PairsTyped, EvenHalf
  <2> QED BY <1>1, <2>1, RoundsDiffer
<1>3. Meets(f, g.home, g.away) => x = y
  <2>1. Meets(f, g.home, g.away) => Between(x, y[1], y[2])
    BY <1>1 DEF Meets, Between
  <2> QED BY <2>1, PairsUnique
<1>4. f.round = g.round /\ {f.home, f.away} \cap {g.home, g.away} # {} => f = g
  <2> SUFFICES ASSUME f.round = g.round, {f.home, f.away} \cap {g.home, g.away} # {} PROVE f = g
    OBVIOUS
  <2>1. {x[1], x[2]} \cap {y[1], y[2]} # {}
    BY <1>1 DEF Meets
  <2>2. x = y
    BY <1>2, <2>1, PairsApart
  <2> QED BY <1>2, <2>2
<1> QED BY <1>2, <1>3, <1>4

FixtureSet(O, n, legs) == {Fixture(O, n, x, l) : x \in CirclePairs(n), l \in 0..(legs - 1)}

LEMMA LeagueIsFixtures ==
  ASSUME NEW n, NEW legs
  PROVE  RoundRobin(n, legs) = FixtureSet(Orientation(n), n, legs)
BY DEF RoundRobin, FixtureSet, Fixture

\* Every pair meets once per leg.
LEMMA LeagueMeets ==
  ASSUME NEW n \in Nat, n >= 2, NEW legs \in 1..3, NEW O, Tournament(O, n),
         NEW a \in 1..n, NEW b \in 1..n, a # b
  PROVE  Cardinality({m \in FixtureSet(O, n, legs) : Meets(m, a, b)}) = legs
<1> DEFINE S == {m \in FixtureSet(O, n, legs) : Meets(m, a, b)}
           L == 0..(legs - 1)
<1>1. PICK x \in CirclePairs(n) : Between(x, a, b)
  BY PairExists
<1> DEFINE f == [l \in L |-> Fixture(O, n, x, l)]
<1>2. \A l \in L : l \in Nat /\ l \in 0..2
  OBVIOUS
<1>3. f \in [L -> S]
  <2> SUFFICES ASSUME NEW l \in L PROVE Fixture(O, n, x, l) \in S
    OBVIOUS
  <2>1. Fixture(O, n, x, l) \in FixtureSet(O, n, legs)
    BY DEF FixtureSet
  <2>2. Meets(Fixture(O, n, x, l), x[1], x[2])
    BY <1>2, FixtureSides
  <2> QED BY <1>1, <2>1, <2>2 DEF Meets, Between
<1>4. \A l, k \in L : f[l] = f[k] => l = k
  <2> SUFFICES ASSUME NEW l \in L, NEW k \in L, Fixture(O, n, x, l) = Fixture(O, n, x, k) PROVE l = k
    OBVIOUS
  <2> QED BY <1>2, FixturesDiffer
<1>5. \A m \in S : \E l \in L : f[l] = m
  <2> SUFFICES ASSUME NEW m \in S PROVE \E l \in L : Fixture(O, n, x, l) = m
    OBVIOUS
  <2>1. PICK y \in CirclePairs(n), l \in L : m = Fixture(O, n, y, l)
    BY DEF FixtureSet
  <2>2. Meets(m, y[1], y[2])
    BY <1>2, <2>1, FixtureSides
  <2>3. Between(x, y[1], y[2])
    BY <1>1, <2>2 DEF Meets, Between
  <2>4. x = y
    BY <2>3, PairsUnique
  <2> QED BY <2>1, <2>4
<1>6. IsFiniteSet(L) /\ Cardinality(L) = legs
  <2>1. 0 \in Int /\ legs - 1 \in Int /\ ~ (0 > legs - 1)
    OBVIOUS
  <2> QED BY <2>1, FS_Interval
<1> HIDE DEF S, L, f
<1>7. Cardinality(S) = Cardinality(L)
  BY <1>3, <1>4, <1>5, <1>6, SameSize
<1> QED BY <1>6, <1>7 DEF S

\* Nobody plays twice in a round.
LEMMA LeagueRounds ==
  ASSUME NEW n \in Nat, n >= 2, NEW legs \in 1..3, NEW O, Tournament(O, n),
         NEW f \in FixtureSet(O, n, legs), NEW g \in FixtureSet(O, n, legs),
         f.round = g.round, {f.home, f.away} \cap {g.home, g.away} # {}
  PROVE  f = g
<1>1. PICK x \in CirclePairs(n), l \in 0..(legs - 1) : f = Fixture(O, n, x, l)
  BY DEF FixtureSet
<1>2. PICK y \in CirclePairs(n), k \in 0..(legs - 1) : g = Fixture(O, n, y, k)
  BY DEF FixtureSet
<1>3. l \in 0..2 /\ k \in 0..2
  OBVIOUS
<1> QED BY <1>1, <1>2, <1>3, FixturesDiffer

-----------------------------------------------------------------------------
(* Home and away.                                                          *)

HomeIn(O, n, l, e) == {f \in {Fixture(O, n, x, l) : x \in CirclePairs(n)} : f.home = e}
AwayIn(O, n, l, e) == {f \in {Fixture(O, n, x, l) : x \in CirclePairs(n)} : f.away = e}

LEMMA OpponentsFinite ==
  ASSUME NEW n \in Nat, NEW O, NEW e
  PROVE  /\ IsFiniteSet(Beaten(O, n, e)) /\ IsFiniteSet(Hosts(O, n, e))
         /\ Cardinality(Beaten(O, n, e)) \in Nat /\ Cardinality(Hosts(O, n, e)) \in Nat
<1>1. Beaten(O, n, e) \in SUBSET (1..n) /\ Hosts(O, n, e) \in SUBSET (1..n)
  BY DEF Beaten, Hosts
<1>2. IsFiniteSet(1..n)
  BY FS_Interval
<1> QED BY <1>1, <1>2, FS_Subset, FS_CardinalityType

\* In an even leg an entrant receives those it receives in the orientation.
LEMMA LegSides ==
  ASSUME NEW n \in Nat, n >= 2, NEW O, Tournament(O, n), NEW l \in 0..2, NEW e \in 1..n,
         NEW H, H = IF l % 2 = 0 THEN Beaten(O, n, e) ELSE Hosts(O, n, e),
         NEW A, A = IF l % 2 = 0 THEN Hosts(O, n, e) ELSE Beaten(O, n, e)
  PROVE  /\ IsFiniteSet(HomeIn(O, n, l, e)) /\ Cardinality(HomeIn(O, n, l, e)) = Cardinality(H)
         /\ IsFiniteSet(AwayIn(O, n, l, e)) /\ Cardinality(AwayIn(O, n, l, e)) = Cardinality(A)
<1>0. l \in Nat /\ l % 2 \in {0, 1}
  OBVIOUS
<1>1. IsFiniteSet(H) /\ IsFiniteSet(A)
  BY OpponentsFinite
<1> DEFINE All == {Fixture(O, n, x, l) : x \in CirclePairs(n)}
<1>2. ASSUME NEW f \in All
      PROVE  /\ f.home \in 1..n /\ f.away \in 1..n /\ f.home # f.away
             /\ l % 2 = 0 => <<f.home, f.away>> \in O /\ <<f.away, f.home>> \notin O
             /\ l % 2 = 1 => <<f.away, f.home>> \in O /\ <<f.home, f.away>> \notin O
  <2>1. PICK x \in CirclePairs(n) : f = Fixture(O, n, x, l)
    BY <1>2
  <2>2. /\ f.home \in 1..n /\ f.away \in 1..n /\ f.home # f.away
        /\ l % 2 = 0 => <<f.home, f.away>> \in O
        /\ l % 2 = 1 => <<f.away, f.home>> \in O
    BY <1>0, <2>1, FixtureSides
  <2> QED BY <2>2 DEF Tournament
<1>3. ASSUME NEW f \in All, NEW g \in All, Meets(f, g.home, g.away) PROVE f = g
  <2>1. PICK x \in CirclePairs(n) : f = Fixture(O, n, x, l)
    BY <1>3
  <2>2. PICK y \in CirclePairs(n) : g = Fixture(O, n, y, l)
    BY <1>3
  <2>3. x = y
    BY <1>3, <2>1, <2>2, FixturesDiffer
  <2> QED BY <2>1, <2>2, <2>3
<1>4. ASSUME NEW b \in (1..n) \ {e} PROVE \E f \in All : Meets(f, e, b)
  <2>1. PICK x \in CirclePairs(n) : Between(x, e, b)
    BY PairExists
  <2>2. Fixture(O, n, x, l) \in All
    OBVIOUS
  <2>3. Meets(Fixture(O, n, x, l), x[1], x[2])
    BY <1>0, FixtureSides
  <2>4. Meets(Fixture(O, n, x, l), e, b)
    BY <2>1, <2>3 DEF Meets, Between
  <2> HIDE DEF All
  <2> QED BY <2>2, <2>4
<1>5. HomeIn(O, n, l, e) = {f \in All : f.home = e} /\ AwayIn(O, n, l, e) = {f \in All : f.away = e}
  BY DEF HomeIn, AwayIn
<1> HIDE DEF All
<1>6. IsFiniteSet(HomeIn(O, n, l, e)) /\ Cardinality(HomeIn(O, n, l, e)) = Cardinality(H)
  <2> DEFINE S == {f \in All : f.home = e}
             opponent == [f \in S |-> f.away]
  <2>1. opponent \in [S -> H]
    <3> SUFFICES ASSUME NEW f \in S PROVE f.away \in H
      OBVIOUS
    <3> QED BY <1>0, <1>2 DEF Beaten, Hosts
  <2>2. \A f, g \in S : opponent[f] = opponent[g] => f = g
    BY <1>3 DEF Meets
  <2>3. \A b \in H : \E f \in S : opponent[f] = b
    <3> SUFFICES ASSUME NEW b \in H PROVE \E f \in S : f.away = b
      OBVIOUS
    <3>1. b \in (1..n) \ {e}
      BY DEF Beaten, Hosts
    <3>2. PICK f \in All : Meets(f, e, b)
      BY <1>4, <3>1
    <3>3. f.home = e /\ f.away = b
      BY <1>0, <1>2, <3>1, <3>2 DEF Beaten, Hosts, Meets
    <3> QED BY <3>3
  <2> HIDE DEF S, opponent
  <2>4. IsFiniteSet(S) /\ Cardinality(S) = Cardinality(H)
    BY <1>1, <2>1, <2>2, <2>3, SameSize
  <2> QED BY <1>5, <2>4 DEF S
<1>7. IsFiniteSet(AwayIn(O, n, l, e)) /\ Cardinality(AwayIn(O, n, l, e)) = Cardinality(A)
  <2> DEFINE S == {f \in All : f.away = e}
             opponent == [f \in S |-> f.home]
  <2>1. opponent \in [S -> A]
    <3> SUFFICES ASSUME NEW f \in S PROVE f.home \in A
      OBVIOUS
    <3> QED BY <1>0, <1>2 DEF Beaten, Hosts
  <2>2. \A f, g \in S : opponent[f] = opponent[g] => f = g
    BY <1>3 DEF Meets
  <2>3. \A b \in A : \E f \in S : opponent[f] = b
    <3> SUFFICES ASSUME NEW b \in A PROVE \E f \in S : f.home = b
      OBVIOUS
    <3>1. b \in (1..n) \ {e}
      BY DEF Beaten, Hosts
    <3>2. PICK f \in All : Meets(f, e, b)
      BY <1>4, <3>1
    <3>3. f.away = e /\ f.home = b
      BY <1>0, <1>2, <3>1, <3>2 DEF Beaten, Hosts, Meets
    <3> QED BY <3>3
  <2> HIDE DEF S, opponent
  <2>4. IsFiniteSet(S) /\ Cardinality(S) = Cardinality(A)
    BY <1>1, <2>1, <2>2, <2>3, SameSize
  <2> QED BY <1>5, <2>4 DEF S
<1> QED BY <1>6, <1>7

LEMMA DisjointSum ==
  ASSUME NEW S, NEW T, IsFiniteSet(S), IsFiniteSet(T), S \cap T = {}
  PROVE  IsFiniteSet(S \cup T) /\ Cardinality(S \cup T) = Cardinality(S) + Cardinality(T)
<1>1. Cardinality(S) \in Nat /\ Cardinality(T) \in Nat
  BY FS_CardinalityType
<1> QED BY <1>1, FS_Union, FS_EmptySet

\* Home and away over the legs: the first and the third are alike, the second mirrors them.
LEMMA LeagueSides ==
  ASSUME NEW n \in Nat, n >= 2, NEW legs \in 1..3, NEW O, Balanced(O, n), NEW e \in 1..n,
         NEW h, h = Cardinality({m \in FixtureSet(O, n, legs) : m.home = e}),
         NEW w, w = Cardinality({m \in FixtureSet(O, n, legs) : m.away = e})
  PROVE  h <= w + 1 /\ w <= h + 1 /\ (legs % 2 = 0 => h = w)
<1> DEFINE H(l) == HomeIn(O, n, l, e)
           A(l) == AwayIn(O, n, l, e)
           b == Cardinality(Beaten(O, n, e))
           c == Cardinality(Hosts(O, n, e))
<1>0. Tournament(O, n) /\ b \in Nat /\ c \in Nat /\ b <= c + 1 /\ c <= b + 1
  BY OpponentsFinite DEF Balanced
<1>1. /\ IsFiniteSet(H(0)) /\ IsFiniteSet(A(0)) /\ Cardinality(H(0)) = b /\ Cardinality(A(0)) = c
      /\ IsFiniteSet(H(1)) /\ IsFiniteSet(A(1)) /\ Cardinality(H(1)) = c /\ Cardinality(A(1)) = b
      /\ IsFiniteSet(H(2)) /\ IsFiniteSet(A(2)) /\ Cardinality(H(2)) = b /\ Cardinality(A(2)) = c
  <2>1. 0 \in 0..2 /\ 1 \in 0..2 /\ 2 \in 0..2 /\ 0 % 2 = 0 /\ 1 % 2 = 1 /\ 2 % 2 = 0
    OBVIOUS
  <2>2. IsFiniteSet(H(0)) /\ IsFiniteSet(A(0)) /\ Cardinality(H(0)) = b /\ Cardinality(A(0)) = c
    BY <1>0, <2>1, LegSides
  <2>3. IsFiniteSet(H(1)) /\ IsFiniteSet(A(1)) /\ Cardinality(H(1)) = c /\ Cardinality(A(1)) = b
    BY <1>0, <2>1, LegSides
  <2>4. IsFiniteSet(H(2)) /\ IsFiniteSet(A(2)) /\ Cardinality(H(2)) = b /\ Cardinality(A(2)) = c
    BY <1>0, <2>1, LegSides
  <2> QED BY <2>2, <2>3, <2>4
<1>2. ASSUME NEW l \in 0..2, NEW k \in 0..2, l # k PROVE H(l) \cap H(k) = {} /\ A(l) \cap A(k) = {}
  <2>1. ASSUME NEW x \in CirclePairs(n), NEW y \in CirclePairs(n)
        PROVE  Fixture(O, n, x, l) # Fixture(O, n, y, k)
    BY <1>0, <1>2, FixturesDiffer
  <2> QED BY <2>1 DEF HomeIn, AwayIn
<1>3. /\ H(0) \cap H(1) = {} /\ A(0) \cap A(1) = {}
      /\ (H(0) \cup H(1)) \cap H(2) = {} /\ (A(0) \cup A(1)) \cap A(2) = {}
  <2>1. H(0) \cap H(1) = {} /\ A(0) \cap A(1) = {}
    BY <1>2
  <2>2. H(0) \cap H(2) = {} /\ A(0) \cap A(2) = {}
    BY <1>2
  <2>3. H(1) \cap H(2) = {} /\ A(1) \cap A(2) = {}
    BY <1>2
  <2> HIDE DEF H, A
  <2> QED BY <2>1, <2>2, <2>3
<1>4. ASSUME NEW l \in 0..(legs - 1)
      PROVE  /\ H(l) = {f \in {Fixture(O, n, x, l) : x \in CirclePairs(n)} : f.home = e}
             /\ A(l) = {f \in {Fixture(O, n, x, l) : x \in CirclePairs(n)} : f.away = e}
  BY DEF HomeIn, AwayIn
<1> DEFINE Homes == {m \in FixtureSet(O, n, legs) : m.home = e}
           Aways == {m \in FixtureSet(O, n, legs) : m.away = e}
<1>5. Homes = UNION {H(l) : l \in 0..(legs - 1)} /\ Aways = UNION {A(l) : l \in 0..(legs - 1)}
  BY <1>4 DEF FixtureSet
<1>9. h = Cardinality(Homes) /\ w = Cardinality(Aways)
  OBVIOUS
<1> HIDE DEF H, A, b, c, Homes, Aways
<1>6. CASE legs = 1
  <2>1. 0..(legs - 1) = {0}
    BY <1>6
  <2>2. Homes = H(0) /\ Aways = A(0)
    BY <1>5, <2>1
  <2>3. h = b /\ w = c /\ legs % 2 = 1
    BY <1>1, <1>6, <1>9, <2>2
  <2> QED BY <1>0, <2>3
<1>7. CASE legs = 2
  <2>1. 0..(legs - 1) = {0, 1}
    BY <1>7
  <2>2. Homes = H(0) \cup H(1) /\ Aways = A(0) \cup A(1)
    BY <1>5, <2>1
  <2>3. Cardinality(Homes) = b + c /\ Cardinality(Aways) = c + b
    BY <1>1, <1>3, <2>2, DisjointSum
  <2> QED BY <1>0, <1>9, <2>3
<1>8. CASE legs = 3
  <2>1. 0..(legs - 1) = {0, 1, 2}
    BY <1>8
  <2>2. Homes = (H(0) \cup H(1)) \cup H(2) /\ Aways = (A(0) \cup A(1)) \cup A(2)
    BY <1>5, <2>1
  <2>3. /\ IsFiniteSet(H(0) \cup H(1)) /\ Cardinality(H(0) \cup H(1)) = b + c
        /\ IsFiniteSet(A(0) \cup A(1)) /\ Cardinality(A(0) \cup A(1)) = c + b
    BY <1>1, <1>3, DisjointSum
  <2>4. Cardinality(Homes) = (b + c) + b /\ Cardinality(Aways) = (c + b) + c
    <3>1. Cardinality(Homes) = (b + c) + b
      <4> DEFINE U == H(0) \cup H(1)
      <4>1. IsFiniteSet(U) /\ U \cap H(2) = {} /\ Cardinality(U) = (b + c)
        BY <1>3, <2>3
      <4>2. Homes = U \cup H(2)
        BY <2>2
      <4> HIDE DEF U
      <4> QED BY <1>1, <4>1, <4>2, DisjointSum
    <3>2. Cardinality(Aways) = (c + b) + c
      <4> DEFINE U == A(0) \cup A(1)
      <4>1. IsFiniteSet(U) /\ U \cap A(2) = {} /\ Cardinality(U) = (c + b)
        BY <1>3, <2>3
      <4>2. Aways = U \cup A(2)
        BY <2>2
      <4> HIDE DEF U
      <4> QED BY <1>1, <4>1, <4>2, DisjointSum
    <3> QED BY <3>1, <3>2
  <2>5. legs % 2 = 1
    BY <1>8
  <2> QED BY <1>0, <1>9, <2>4, <2>5
<1> QED BY <1>6, <1>7, <1>8

-----------------------------------------------------------------------------
(* The orientation: edges of the complete graph.                           *)

Edge(x, y) == {x, y}

LEMMA EdgesSame ==
  ASSUME NEW a, NEW b, NEW c, NEW d
  PROVE  Edge(a, b) = Edge(c, d) <=> (a = c /\ b = d) \/ (a = d /\ b = c)
BY DEF Edge

EdgesOf(V) == {Edge(x[1], x[2]) : x \in {z \in V \X V : z[1] # z[2]}}

LEMMA EdgeOf ==
  ASSUME NEW V
  PROVE  /\ \A x, y \in V : x # y => Edge(x, y) \in EdgesOf(V)
         /\ \A d \in EdgesOf(V) : \E x, y \in V : x # y /\ d = Edge(x, y)
         /\ \A x, y : Edge(x, y) \in EdgesOf(V) => x \in V /\ y \in V /\ x # y
<1>1. ASSUME NEW x \in V, NEW y \in V, x # y PROVE Edge(x, y) \in EdgesOf(V)
  <2>1. <<x, y>> \in {z \in V \X V : z[1] # z[2]}
    BY <1>1
  <2>2. Edge(<<x, y>>[1], <<x, y>>[2]) \in EdgesOf(V)
    BY <2>1 DEF EdgesOf
  <2> QED BY <2>2
<1>2. ASSUME NEW d \in EdgesOf(V) PROVE \E x, y \in V : x # y /\ d = Edge(x, y)
  BY DEF EdgesOf
<1>3. ASSUME NEW x, NEW y, Edge(x, y) \in EdgesOf(V) PROVE x \in V /\ y \in V /\ x # y
  <2>1. PICK a \in V, b \in V : a # b /\ Edge(x, y) = Edge(a, b)
    BY <1>2, <1>3
  <2> QED BY <2>1, EdgesSame
<1> QED BY <1>1, <1>2, <1>3

\* There are n(n - 1)/2 of them.
LEMMA EdgesCounted ==
  ASSUME NEW n \in Nat
  PROVE  IsFiniteSet(EdgesOf(1..n)) /\ 2 * Cardinality(EdgesOf(1..n)) = n * (n - 1)
<1> DEFINE Holds(k) == IsFiniteSet(EdgesOf(1..k)) /\ 2 * Cardinality(EdgesOf(1..k)) = k * (k - 1)
           Bad == {k \in Nat : ~Holds(k)}
<1>1. Holds(0)
  <2>1. EdgesOf(1..0) = {}
    BY DEF EdgesOf
  <2> QED BY <2>1, FS_EmptySet
<1>2. ASSUME NEW k \in Nat, Holds(k) PROVE Holds(k + 1)
  <2> DEFINE V == 1..k
             star == {Edge(k + 1, y) : y \in V}
  <2>1. EdgesOf(1..(k + 1)) = EdgesOf(V) \cup star
    <3>1. ASSUME NEW d \in EdgesOf(1..(k + 1)) PROVE d \in EdgesOf(V) \cup star
      <4>1. PICK x \in 1..(k + 1), y \in 1..(k + 1) : x # y /\ d = Edge(x, y)
        BY <3>1, EdgeOf
      <4>2. CASE x \in V /\ y \in V
        BY <4>1, <4>2, EdgeOf
      <4>3. CASE x = k + 1
        <5>1. y \in V
          BY <4>1, <4>3
        <5> QED BY <4>1, <4>3, <5>1
      <4>4. CASE y = k + 1
        <5>1. x \in V /\ d = Edge(k + 1, x)
          BY <4>1, <4>4, EdgesSame
        <5> QED BY <5>1
      <4> QED BY <4>2, <4>3, <4>4
    <3>2. ASSUME NEW d \in EdgesOf(V) PROVE d \in EdgesOf(1..(k + 1))
      <4>1. PICK x \in V, y \in V : x # y /\ d = Edge(x, y)
        BY EdgeOf
      <4>2. x \in 1..(k + 1) /\ y \in 1..(k + 1)
        OBVIOUS
      <4> QED BY <4>1, <4>2, EdgeOf
    <3>3. ASSUME NEW d \in star PROVE d \in EdgesOf(1..(k + 1))
      <4>1. PICK y \in V : d = Edge(k + 1, y)
        BY <3>3
      <4>2. k + 1 \in 1..(k + 1) /\ y \in 1..(k + 1) /\ k + 1 # y
        OBVIOUS
      <4> QED BY <4>1, <4>2, EdgeOf
    <3> QED BY <3>1, <3>2, <3>3
  <2>2. EdgesOf(V) \cap star = {}
    <3> SUFFICES ASSUME NEW y \in V, Edge(k + 1, y) \in EdgesOf(V) PROVE FALSE
      OBVIOUS
    <3>1. k + 1 \in V
      BY EdgeOf
    <3> QED BY <3>1
  <2>3. IsFiniteSet(V) /\ Cardinality(V) = k
    BY FS_Interval
  <2>4. IsFiniteSet(star) /\ Cardinality(star) = k
    <3> DEFINE f == [y \in V |-> Edge(k + 1, y)]
    <3>1. f \in [V -> star]
      OBVIOUS
    <3>2. \A x, y \in V : f[x] = f[y] => x = y
      BY EdgesSame
    <3>3. \A d \in star : \E y \in V : f[y] = d
      OBVIOUS
    <3> HIDE DEF V, star, f
    <3> QED BY <2>3, <3>1, <3>2, <3>3, SameSize
  <2>5. IsFiniteSet(EdgesOf(V)) /\ 2 * Cardinality(EdgesOf(V)) = k * (k - 1) /\ Cardinality(EdgesOf(V)) \in Nat
    BY <1>2, FS_CardinalityType
  <2>6. /\ IsFiniteSet(EdgesOf(1..(k + 1)))
        /\ Cardinality(EdgesOf(1..(k + 1))) = Cardinality(EdgesOf(V)) + k
    <3> HIDE DEF V, star
    <3> QED BY <2>1, <2>2, <2>4, <2>5, DisjointSum
  <2>7. (k + 1) * ((k + 1) - 1) = k * (k - 1) + 2 * k
    OBVIOUS
  <2>8. 2 * Cardinality(EdgesOf(1..(k + 1))) = (k + 1) * ((k + 1) - 1)
    <3> DEFINE p == k * (k - 1)
               q == (k + 1) * ((k + 1) - 1)
               c == Cardinality(EdgesOf(V))
               d == Cardinality(EdgesOf(1..(k + 1)))
    <3>1. 2 * c = p /\ c \in Nat /\ d = c + k /\ q = p + 2 * k /\ p \in Int
      BY <2>5, <2>6, <2>7
    <3> HIDE DEF V, star, p, q, c, d
    <3>2. 2 * d = q
      BY <3>1
    <3> QED BY <3>2 DEF d, q
  <2> HIDE DEF V, star
  <2> QED BY <2>6, <2>8
<1>3. Bad = {}
  <2> HIDE DEF Holds
  <2> SUFFICES ASSUME Bad # {} PROVE FALSE
    OBVIOUS
  <2>1. PICK k \in Bad : \A j \in Bad : k <= j
    <3>1. Bad \in SUBSET Nat
      OBVIOUS
    <3> HIDE DEF Bad
    <3> QED BY <3>1, LeastNumber
  <2>2. k # 0
    BY <1>1
  <2>3. k - 1 \in Nat /\ (k - 1) + 1 = k /\ Holds(k - 1)
    BY <2>1, <2>2
  <2>4. Holds((k - 1) + 1)
    BY <1>2, <2>3
  <2> QED BY <2>3, <2>4
<1>4. Holds(n)
  <2> HIDE DEF Holds
  <2> QED BY <1>3
<1> QED BY <1>4

\* The neighbours over the edges of U.
Joined(V, U, v) == {y \in V \ {v} : Edge(v, y) \in U}
Degree(V, U, v) == Cardinality(Joined(V, U, v))

LEMMA DegreeAfter ==
  ASSUME NEW V, IsFiniteSet(V), NEW U, NEW x \in V, NEW y \in V, x # y, Edge(x, y) \notin U, NEW v \in V
  PROVE  /\ Degree(V, U, v) \in Nat
         /\ Degree(V, U \cup {Edge(x, y)}, v) = IF v \in {x, y} THEN Degree(V, U, v) + 1 ELSE Degree(V, U, v)
<1> DEFINE W == U \cup {Edge(x, y)}
<1>1. IsFiniteSet(Joined(V, U, v))
  <2>1. Joined(V, U, v) \in SUBSET V
    BY DEF Joined
  <2> QED BY <2>1, FS_Subset
<1>2. CASE v \notin {x, y}
  <2>1. Joined(V, W, v) = Joined(V, U, v)
    BY <1>2, EdgesSame DEF Joined
  <2> QED BY <1>1, <1>2, <2>1, FS_CardinalityType DEF Degree
<1>3. ASSUME NEW w \in V, v # w, Edge(v, w) = Edge(x, y)
      PROVE  Cardinality(Joined(V, W, v)) = Cardinality(Joined(V, U, v)) + 1
  <2>1. Joined(V, W, v) = Joined(V, U, v) \cup {w} /\ w \notin Joined(V, U, v)
    BY <1>3, EdgesSame DEF Joined
  <2> QED BY <1>1, <2>1, FS_AddElement
<1>4. CASE v = x
  BY <1>1, <1>3, <1>4, FS_CardinalityType DEF Degree
<1>5. CASE v = y
  <2>1. Edge(y, x) = Edge(x, y)
    BY EdgesSame
  <2> QED BY <1>1, <1>3, <1>5, <2>1, FS_CardinalityType DEF Degree
<1> QED BY <1>2, <1>4, <1>5

-----------------------------------------------------------------------------
(* The orientation: links between the neighbours of a sequence.            *)

Links(s) == {Edge(s[i], s[i + 1]) : i \in 1..(Len(s) - 1)}

LEMMA LinkIn ==
  ASSUME NEW s, NEW i \in 1..(Len(s) - 1)
  PROVE  Edge(s[i], s[i + 1]) \in Links(s)
BY DEF Links

LEMMA LinksPush ==
  ASSUME NEW V, NEW s \in Seq(V), s # <<>>, NEW y \in V
  PROVE  /\ <<y>> \o s \in Seq(V) /\ Len(<<y>> \o s) = Len(s) + 1
         /\ (<<y>> \o s)[1] = y /\ (<<y>> \o s)[Len(s) + 1] = s[Len(s)]
         /\ <<y>> \o s # <<>> /\ Head(<<y>> \o s) = y
         /\ Links(<<y>> \o s) = Links(s) \cup {Edge(y, Head(s))}
<1> DEFINE t == <<y>> \o s
<1>1. /\ t \in Seq(V) /\ Len(t) = Len(s) + 1 /\ Len(s) \in Nat /\ Len(s) > 0
      /\ t[1] = y /\ \A i \in 1..Len(s) : t[i + 1] = s[i]
  <2>1. <<y>> \in Seq(V) /\ Len(<<y>>) = 1 /\ <<y>>[1] = y
    OBVIOUS
  <2>2. Len(s) \in Nat /\ Len(s) > 0
    BY EmptySeq, LenProperties
  <2>3. t \in Seq(V) /\ Len(t) = 1 + Len(s)
    BY <2>1, ConcatProperties
  <2>4. \A i \in 1..(1 + Len(s)) : t[i] = IF i <= 1 THEN <<y>>[i] ELSE s[i - 1]
    BY <2>1, ConcatProperties
  <2>5. t[1] = y
    BY <2>1, <2>2, <2>4
  <2>6. ASSUME NEW i \in 1..Len(s) PROVE t[i + 1] = s[i]
    <3>1. i + 1 \in 1..(1 + Len(s)) /\ ~ (i + 1 <= 1) /\ (i + 1) - 1 = i
      BY <2>2
    <3> HIDE DEF t
    <3> QED BY <2>4, <3>1
  <2> HIDE DEF t
  <2> QED BY <2>2, <2>3, <2>5, <2>6
<1>2. Head(s) = s[1] /\ Head(t) = t[1] /\ t # <<>>
  BY <1>1
<1> HIDE DEF t
<1>3. Links(t) = Links(s) \cup {Edge(y, Head(s))}
  <2>1. ASSUME NEW i \in 1..(Len(t) - 1) PROVE Edge(t[i], t[i + 1]) \in Links(s) \cup {Edge(y, Head(s))}
    <3>1. CASE i = 1
      <4>1. 1 \in 1..Len(s)
        BY <1>1
      <4>2. t[1 + 1] = s[1]
        BY <1>1, <4>1
      <4> QED BY <1>1, <1>2, <3>1, <4>2
    <3>2. CASE i # 1
      <4>1. i - 1 \in 1..Len(s) /\ i \in 1..Len(s) /\ (i - 1) + 1 = i /\ i - 1 \in 1..(Len(s) - 1)
        BY <1>1, <3>2
      <4>2. t[i] = s[i - 1] /\ t[i + 1] = s[i]
        BY <1>1, <4>1
      <4> QED BY <4>1, <4>2, LinkIn
    <3> QED BY <3>1, <3>2
  <2>2. ASSUME NEW i \in 1..(Len(s) - 1) PROVE Edge(s[i], s[i + 1]) \in Links(t)
    <3>1. i \in 1..Len(s) /\ i + 1 \in 1..Len(s) /\ i + 1 \in 1..(Len(t) - 1)
      BY <1>1
    <3>2. t[i + 1] = s[i] /\ t[(i + 1) + 1] = s[i + 1]
      BY <1>1, <3>1
    <3> QED BY <3>1, <3>2, LinkIn
  <2>3. Edge(y, Head(s)) \in Links(t)
    <3>1. 1 \in 1..Len(s) /\ 1 \in 1..(Len(t) - 1)
      BY <1>1
    <3>2. t[1 + 1] = s[1]
      BY <1>1, <3>1
    <3> QED BY <1>1, <1>2, <3>1, <3>2, LinkIn
  <2> QED BY <2>1, <2>2, <2>3 DEF Links
<1>4. t[Len(s) + 1] = s[Len(s)]
  <2>1. Len(s) \in 1..Len(s)
    BY <1>1
  <2> QED BY <1>1, <2>1
<1> QED BY <1>1, <1>2, <1>3, <1>4 DEF t

LEMMA LinksPop ==
  ASSUME NEW V, NEW s \in Seq(V), s # <<>>
  PROVE  /\ Head(s) = s[1] /\ Head(s) \in V /\ Tail(s) \in Seq(V) /\ Len(Tail(s)) = Len(s) - 1
         /\ Tail(s) = <<>> => Len(s) = 1 /\ Links(s) = {}
         /\ Tail(s) # <<>> => /\ Head(Tail(s)) = s[2] /\ Head(Tail(s)) \in V
                              /\ Tail(s)[Len(s) - 1] = s[Len(s)]
                              /\ Links(s) = Links(Tail(s)) \cup {Edge(Head(s), Head(Tail(s)))}
         /\ Links(Tail(s)) \subseteq Links(s)
<1> DEFINE t == Tail(s)
<1>1. /\ t \in Seq(V) /\ Len(t) = Len(s) - 1 /\ Len(s) \in Nat /\ Len(s) > 0
      /\ Head(s) = s[1] /\ Head(s) \in V /\ \A i \in 1..Len(t) : t[i] = s[i + 1]
  BY HeadTailProperties, LenProperties, EmptySeq
<1> HIDE DEF t
<1>2. t = <<>> => Len(s) = 1 /\ Links(s) = {}
  <2> SUFFICES ASSUME t = <<>> PROVE Len(s) = 1 /\ Links(s) = {}
    OBVIOUS
  <2>1. Len(s) = 1
    BY <1>1
  <2>2. 1..(Len(s) - 1) = {}
    BY <2>1
  <2> QED BY <2>1, <2>2 DEF Links
<1>3. ASSUME t # <<>>
      PROVE  /\ Head(t) = s[2] /\ Head(t) \in V /\ t[Len(s) - 1] = s[Len(s)]
             /\ Links(s) = Links(t) \cup {Edge(Head(s), Head(t))}
  <2>1. Len(t) > 0 /\ Head(t) = t[1] /\ Head(t) \in V
    BY <1>1, <1>3, EmptySeq, LenProperties, HeadTailProperties
  <2>2. t[1] = s[1 + 1]
    BY <1>1, <2>1
  <2>3. t[Len(t)] = s[Len(t) + 1] /\ Len(t) + 1 = Len(s)
    BY <1>1, <2>1
  <2>4. ASSUME NEW i \in 1..(Len(s) - 1) PROVE Edge(s[i], s[i + 1]) \in Links(t) \cup {Edge(Head(s), Head(t))}
    <3>1. CASE i = 1
      BY <1>1, <2>1, <2>2, <3>1
    <3>2. CASE i # 1
      <4>1. i - 1 \in 1..Len(t) /\ i \in 1..Len(t) /\ (i - 1) + 1 = i /\ i - 1 \in 1..(Len(t) - 1)
        BY <1>1, <3>2
      <4>2. t[i - 1] = s[i] /\ t[i] = s[i + 1]
        BY <1>1, <4>1
      <4> QED BY <4>1, <4>2, LinkIn
    <3> QED BY <3>1, <3>2
  <2>5. ASSUME NEW i \in 1..(Len(t) - 1) PROVE Edge(t[i], t[i + 1]) \in Links(s)
    <3>1. i \in 1..Len(t) /\ i + 1 \in 1..Len(t) /\ i + 1 \in 1..(Len(s) - 1)
      BY <1>1
    <3>2. t[i] = s[i + 1] /\ t[i + 1] = s[(i + 1) + 1]
      BY <1>1, <3>1
    <3> QED BY <3>1, <3>2, LinkIn
  <2>6. Edge(Head(s), Head(t)) \in Links(s)
    <3>1. 1 \in 1..(Len(s) - 1)
      BY <1>1, <2>1
    <3> QED BY <1>1, <2>1, <2>2, <3>1, LinkIn
  <2>7. Links(s) = Links(t) \cup {Edge(Head(s), Head(t))}
    BY <2>4, <2>5, <2>6 DEF Links
  <2> QED BY <2>1, <2>2, <2>3, <2>7
<1>4. Links(t) \subseteq Links(s)
  <2>1. CASE t = <<>>
    <3>1. 1..(Len(t) - 1) = {}
      BY <2>1
    <3> QED BY <3>1 DEF Links
  <2>2. CASE t # <<>>
    BY <1>3, <2>2
  <2> QED BY <2>1, <2>2
<1> QED BY <1>1, <1>2, <1>3, <1>4 DEF t

LEMMA LinksAppend ==
  ASSUME NEW V, NEW s \in Seq(V), NEW x \in V
  PROVE  /\ Append(s, x) \in Seq(V) /\ Len(Append(s, x)) = Len(s) + 1
         /\ Append(s, x) # <<>> /\ Append(s, x)[Len(s) + 1] = x
         /\ \A i \in 1..Len(s) : Append(s, x)[i] = s[i]
         /\ Links(Append(s, x)) = IF s = <<>> THEN {} ELSE Links(s) \cup {Edge(s[Len(s)], x)}
<1> DEFINE t == Append(s, x)
<1>1. /\ t \in Seq(V) /\ Len(t) = Len(s) + 1 /\ Len(s) \in Nat
      /\ t[Len(s) + 1] = x /\ \A i \in 1..Len(s) : t[i] = s[i]
  BY AppendProperties, LenProperties
<1> HIDE DEF t
<1>2. t # <<>>
  BY <1>1
<1>3. CASE s = <<>>
  <2>1. 1..(Len(t) - 1) = {}
    BY <1>1, <1>3
  <2> QED BY <1>1, <1>2, <1>3, <2>1 DEF Links, t
<1>4. CASE s # <<>>
  <2>1. Len(s) > 0
    BY <1>1, <1>4, EmptySeq
  <2>2. ASSUME NEW i \in 1..(Len(t) - 1) PROVE Edge(t[i], t[i + 1]) \in Links(s) \cup {Edge(s[Len(s)], x)}
    <3>1. CASE i = Len(s)
      BY <1>1, <3>1
    <3>2. CASE i # Len(s)
      <4>1. i \in 1..Len(s) /\ i + 1 \in 1..Len(s) /\ i \in 1..(Len(s) - 1)
        BY <1>1, <3>2
      <4>2. t[i] = s[i] /\ t[i + 1] = s[i + 1]
        BY <1>1, <4>1
      <4> QED BY <4>1, <4>2, LinkIn
    <3> QED BY <3>1, <3>2
  <2>3. ASSUME NEW i \in 1..(Len(s) - 1) PROVE Edge(s[i], s[i + 1]) \in Links(t)
    <3>1. i \in 1..Len(s) /\ i + 1 \in 1..Len(s) /\ i \in 1..(Len(t) - 1)
      BY <1>1
    <3>2. t[i] = s[i] /\ t[i + 1] = s[i + 1]
      BY <1>1, <3>1
    <3> QED BY <3>1, <3>2, LinkIn
  <2>4. Edge(s[Len(s)], x) \in Links(t)
    <3>1. Len(s) \in 1..(Len(t) - 1) /\ Len(s) \in 1..Len(s)
      BY <1>1, <2>1
    <3> QED BY <1>1, <3>1, LinkIn
  <2>5. Links(t) = Links(s) \cup {Edge(s[Len(s)], x)}
    BY <2>2, <2>3, <2>4 DEF Links
  <2> QED BY <1>1, <1>2, <1>4, <2>5 DEF t
<1> QED BY <1>3, <1>4

-----------------------------------------------------------------------------
(* The walk of Hierholzer's algorithm, after k steps: U the edges used, S   *)
(* the stack, W the path, b where the detour under way began.               *)

\* Only the two ends of the detour have used an odd number of edges.
Parity(V, U, S, b) == \A v \in V :
  Degree(V, U, v) % 2 = IF Head(S) # b /\ v \in {Head(S), b} THEN 1 ELSE 0

\* The vertices of the graph.
Numbered(V, n) == V = 1..n

\* The edge between the path and where the detour began.
Joint(S, W, b) == IF S # <<>> /\ W # <<>> THEN {Edge(W[Len(W)], b)} ELSE {}

Walking(V, k, U, S, W, b) ==
  /\ U \subseteq EdgesOf(V) /\ S \in Seq(V) /\ W \in Seq(V) /\ b \in V
  /\ U = Links(S) \cup Links(W) \cup Joint(S, W, b)
  /\ Cardinality(U) + Len(W) = k
  /\ Cardinality(U) + 1 = Len(W) + Len(S)
  /\ IF S = <<>> THEN W # <<>> /\ W[Len(W)] = 1 ELSE S[Len(S)] = 1 /\ Parity(V, U, S, b)
  /\ IF W = <<>> THEN b = 1 ELSE W[1] = 1
  /\ \A i \in 1..Len(W) : \A y \in V \ {W[i]} : Edge(W[i], y) \in U

LEMMA WalkPush ==
  ASSUME NEW V, IsFiniteSet(V), IsFiniteSet(EdgesOf(V)), NEW k \in Nat, NEW U, NEW S, NEW W, NEW b,
         Walking(V, k, U, S, W, b), S # <<>>,
         NEW y \in V \ {Head(S)}, Edge(Head(S), y) \notin U
  PROVE  Walking(V, k + 1, U \cup {Edge(Head(S), y)}, <<y>> \o S, W, b)
<1> DEFINE x == Head(S)
           d == Edge(x, y)
           T == <<y>> \o S
           X == U \cup {d}
<1>0. S \in Seq(V) /\ W \in Seq(V) /\ U \subseteq EdgesOf(V) /\ Len(W) \in Nat /\ Len(S) \in Nat /\ b \in V
  BY LenProperties DEF Walking
<1>a. Cardinality(U) + Len(W) = k /\ Cardinality(U) + 1 = Len(W) + Len(S)
  BY DEF Walking
<1>1. x \in V /\ x # y /\ y \in V
  BY <1>0, HeadTailProperties
<1>2. /\ T \in Seq(V) /\ Len(T) = Len(S) + 1 /\ T[Len(T)] = S[Len(S)] /\ T # <<>> /\ Head(T) = y
      /\ Links(T) = Links(S) \cup {d}
  <2>1. Edge(y, x) = d
    BY EdgesSame
  <2> QED BY <1>0, <2>1, LinksPush
<1>3. d \in EdgesOf(V)
  BY <1>1, EdgeOf
<1>4. Cardinality(X) = Cardinality(U) + 1 /\ Cardinality(U) \in Nat
  BY <1>0, FS_Subset, FS_AddElement, FS_CardinalityType
<1> HIDE DEF x, d, T, X
<1>5. X = Links(T) \cup Links(W) \cup Joint(T, W, b)
  BY <1>2 DEF Walking, Joint, X
<1>6. Parity(V, X, T, b)
  <2> SUFFICES ASSUME NEW v \in V
               PROVE  Degree(V, X, v) % 2 = IF y # b /\ v \in {y, b} THEN 1 ELSE 0
    BY <1>2 DEF Parity
  <2>1. /\ Degree(V, U, v) \in Nat
        /\ Degree(V, X, v) = IF v \in {x, y} THEN Degree(V, U, v) + 1 ELSE Degree(V, U, v)
    BY <1>1, DegreeAfter DEF X, d, x
  <2>2. Degree(V, U, v) % 2 = IF x # b /\ v \in {x, b} THEN 1 ELSE 0
    BY DEF Walking, Parity, x
  <2>3. (Degree(V, U, v) + 1) % 2 = 1 - (Degree(V, U, v) % 2)
    <3> HIDE DEF Degree
    <3> QED BY <2>1
  <2> QED BY <1>1, <2>1, <2>2, <2>3
<1>7. Cardinality(X) + Len(W) = k + 1 /\ Cardinality(X) + 1 = Len(W) + Len(T)
  BY <1>0, <1>a, <1>2, <1>4
<1>8. T[Len(T)] = 1
  BY <1>2 DEF Walking
<1> QED BY <1>0, <1>2, <1>3, <1>5, <1>6, <1>7, <1>8 DEF Walking, X, d, T, x

\* A vertex with no edge left to use has used them all, an even number: it is
\* where the detour began.
LEMMA WalkReturns ==
  ASSUME NEW h \in Nat, NEW V, Numbered(V, 2 * h + 1), NEW k \in Nat, NEW U, NEW S, NEW W, NEW b,
         Walking(V, k, U, S, W, b), S # <<>>,
         \A y \in V \ {Head(S)} : Edge(Head(S), y) \in U
  PROVE  Head(S) = b
<1> DEFINE x == Head(S)
<1>1. x \in V
  BY HeadTailProperties DEF Walking
<1>2. Degree(V, U, x) = 2 * h
  <2>1. Joined(V, U, x) = V \ {x}
    BY DEF Joined
  <2>2. IsFiniteSet(V) /\ Cardinality(V) = 2 * h + 1
    BY FS_Interval DEF Numbered
  <2>3. Cardinality(V \ {x}) = (2 * h + 1) - 1
    <3> HIDE DEF x
    <3> QED BY <1>1, <2>2, FS_RemoveElement
  <2>4. Degree(V, U, x) = Cardinality(V \ {x})
    BY <2>1 DEF Degree
  <2> HIDE DEF x
  <2> QED BY <2>3, <2>4
<1>3. Degree(V, U, x) % 2 = IF x # b THEN 1 ELSE 0
  BY <1>1 DEF Walking, Parity
<1>4. (2 * h) % 2 = 0
  OBVIOUS
<1> QED BY <1>2, <1>3, <1>4

LEMMA WalkPop ==
  ASSUME NEW h \in Nat, NEW V, Numbered(V, 2 * h + 1), NEW k \in Nat, NEW U, NEW S, NEW W, NEW b,
         Walking(V, k, U, S, W, b), S # <<>>,
         \A y \in V \ {Head(S)} : Edge(Head(S), y) \in U
  PROVE  \E c : Walking(V, k + 1, U, Tail(S), Append(W, Head(S)), c)
<1> DEFINE x == Head(S)
           T == Tail(S)
           Z == Append(W, x)
           c == IF T = <<>> THEN b ELSE Head(T)
<1>0. /\ S \in Seq(V) /\ W \in Seq(V) /\ U \subseteq EdgesOf(V) /\ Len(W) \in Nat /\ Len(S) \in Nat /\ b \in V
      /\ Cardinality(U) + Len(W) = k /\ Cardinality(U) + 1 = Len(W) + Len(S)
      /\ S[Len(S)] = 1
  BY LenProperties DEF Walking
<1>a. Head(S) = b
  BY ONLY h \in Nat, Numbered(V, 2 * h + 1), k \in Nat, Walking(V, k, U, S, W, b), S # <<>>,
          \A y \in V \ {Head(S)} : Edge(Head(S), y) \in U, WalkReturns
<1>1. x = b /\ x \in V /\ x = S[1]
  BY <1>0, <1>a
<1>2. /\ T \in Seq(V) /\ Len(T) = Len(S) - 1
      /\ T = <<>> => Len(S) = 1 /\ Links(S) = {} /\ Links(T) = {}
      /\ T # <<>> => /\ Head(T) \in V /\ T[Len(T)] = S[Len(S)]
                     /\ Links(S) = Links(T) \cup {Edge(x, Head(T))}
  BY <1>0, LinksPop
<1>3. /\ Z \in Seq(V) /\ Len(Z) = Len(W) + 1 /\ Z # <<>> /\ Z[Len(Z)] = x
      /\ \A i \in 1..Len(W) : Z[i] = W[i]
      /\ Links(Z) = IF W = <<>> THEN {} ELSE Links(W) \cup {Edge(W[Len(W)], x)}
  BY <1>0, <1>1, LinksAppend
<1>4. c \in V
  BY <1>0, <1>2
<1> HIDE DEF x, T, Z
<1>5. U = Links(T) \cup Links(Z) \cup Joint(T, Z, c)
  <2>1. U = Links(S) \cup Links(W) \cup Joint(S, W, b)
    BY DEF Walking
  <2>2. Joint(S, W, b) = IF W = <<>> THEN {} ELSE {Edge(W[Len(W)], x)}
    BY <1>1 DEF Joint
  <2>3. Joint(T, Z, c) = IF T = <<>> THEN {} ELSE {Edge(x, Head(T))}
    BY <1>3 DEF Joint
  <2>4. W = <<>> => Links(W) = {}
    BY DEF Links
  <2> QED BY <1>2, <1>3, <2>1, <2>2, <2>3, <2>4
<1>6. Cardinality(U) + Len(Z) = k + 1 /\ Cardinality(U) + 1 = Len(Z) + Len(T)
  <2>1. Cardinality(U) \in Nat
    <3>0. 2 * h + 1 \in Nat
      OBVIOUS
    <3>1. IsFiniteSet(EdgesOf(V))
      BY <3>0, EdgesCounted DEF Numbered
    <3> QED BY <1>0, <3>1, FS_Subset, FS_CardinalityType
  <2> QED BY <1>0, <1>2, <1>3, <2>1
<1>7. T = <<>> => Z[Len(Z)] = 1
  BY <1>0, <1>1, <1>2, <1>3
<1>8. T # <<>> => T[Len(T)] = 1 /\ Parity(V, U, T, c)
  <2>1. Parity(V, U, S, b)
    BY DEF Walking
  <2> QED BY <1>0, <1>1, <1>2, <2>1 DEF Parity, x
<1>9. Z[1] = 1
  <2>1. CASE W = <<>>
    <3>1. b = 1 /\ Len(W) = 0
      BY <2>1 DEF Walking
    <3>2. Len(Z) = Len(W) + 1 /\ Z[Len(Z)] = x
      BY <1>3
    <3>3. Len(Z) = 1
      BY <3>1, <3>2
    <3>4. x = 1
      BY <1>1, <3>1
    <3> QED BY ONLY <3>2, <3>3, <3>4
  <2>2. CASE W # <<>>
    <3>1. W[1] = 1 /\ 1 \in 1..Len(W)
      BY <1>0, <2>2, EmptySeq DEF Walking
    <3> QED BY <1>3, <3>1
  <2> QED BY <2>1, <2>2
<1>10. \A i \in 1..Len(Z) : \A y \in V \ {Z[i]} : Edge(Z[i], y) \in U
  <2> SUFFICES ASSUME NEW i \in 1..Len(Z), NEW y \in V \ {Z[i]} PROVE Edge(Z[i], y) \in U
    OBVIOUS
  <2>1. CASE i \in 1..Len(W)
    BY <1>3, <2>1 DEF Walking
  <2>2. CASE i = Len(Z)
    BY <1>3, <2>2 DEF x
  <2> QED BY <1>0, <1>3, <2>1, <2>2
<1>11. Walking(V, k + 1, U, T, Z, c)
  <2> HIDE DEF c
  <2> QED BY <1>0, <1>2, <1>3, <1>4, <1>5, <1>6, <1>7, <1>8, <1>9, <1>10 DEF Walking
<1> QED BY <1>11 DEF x, T, Z

\* The walk ends when every edge is used, and not before.
LEMMA WalkEnds ==
  ASSUME NEW V, 1 \in V, NEW k \in Nat, NEW U, NEW W, NEW b, Walking(V, k, U, <<>>, W, b)
  PROVE  U = EdgesOf(V)
<1>0. W \in Seq(V) /\ W # <<>> /\ Len(W) \in Nat /\ Len(W) > 0 /\ U \subseteq EdgesOf(V)
  BY LenProperties, EmptySeq DEF Walking
<1>1. U = Links(W)
  <2>1. Links(<<>>) = {}
    BY DEF Links
  <2>2. U = Links(<<>>) \cup Links(W) \cup Joint(<<>>, W, b)
    BY DEF Walking
  <2> QED BY <2>1, <2>2 DEF Joint
<1>2. W[1] = 1 /\ 1 \in 1..Len(W)
  BY <1>0 DEF Walking
<1>3. ASSUME NEW y \in V PROVE \E i \in 1..Len(W) : W[i] = y
  <2>1. CASE y = 1
    BY <1>2, <2>1
  <2>2. CASE y # 1
    <3>1. Edge(1, y) \in Links(W)
      BY <1>1, <1>2, <2>2 DEF Walking
    <3>2. PICK i \in 1..(Len(W) - 1) : Edge(1, y) = Edge(W[i], W[i + 1])
      BY <3>1 DEF Links
    <3>3. y = W[i] \/ y = W[i + 1]
      BY <3>2, EdgesSame
    <3>4. i \in 1..Len(W) /\ i + 1 \in 1..Len(W)
      BY <1>0
    <3> QED BY <3>3, <3>4
  <2> QED BY <2>1, <2>2
<1>4. ASSUME NEW d \in EdgesOf(V) PROVE d \in U
  <2>1. PICK x \in V, y \in V : x # y /\ d = Edge(x, y)
    BY EdgeOf
  <2>2. PICK i \in 1..Len(W) : W[i] = x
    BY <1>3
  <2> QED BY <2>1, <2>2 DEF Walking
<1> QED BY <1>0, <1>4

LEMMA WalkLength ==
  ASSUME NEW n \in Nat, n >= 1, NEW V, Numbered(V, n), NEW k \in Nat, NEW U, NEW S, NEW W, NEW b,
         Walking(V, k, U, S, W, b), NEW e, e = Cardinality(EdgesOf(V))
  PROVE  /\ e \in Nat /\ Cardinality(U) <= e /\ IsFiniteSet(U)
         /\ S = <<>> => k = 2 * e + 1 /\ U = EdgesOf(V) /\ Len(W) = e + 1
         /\ S # <<>> => k <= 2 * e
<1>1. U \subseteq EdgesOf(V) /\ Cardinality(U) + Len(W) = k /\ Cardinality(U) + 1 = Len(W) + Len(S)
  BY DEF Walking
<1>2. IsFiniteSet(EdgesOf(V)) /\ e \in Nat
  BY EdgesCounted, FS_CardinalityType DEF Numbered
<1>3. IsFiniteSet(U) /\ Cardinality(U) \in Nat /\ Cardinality(U) <= e
  BY <1>1, <1>2, FS_Subset, FS_CardinalityType
<1>4. Len(W) \in Nat /\ Len(S) \in Nat /\ (S = <<>> => Len(S) = 0) /\ (S # <<>> => Len(S) > 0)
  BY LenProperties, EmptySeq DEF Walking
<1>5. S = <<>> => U = EdgesOf(V)
  <2>1. 1 \in V
    BY DEF Numbered
  <2> QED BY <2>1, WalkEnds
<1> QED BY <1>1, <1>2, <1>3, <1>4, <1>5

-----------------------------------------------------------------------------
(* The orientation: the steps of the walk.                                 *)

LEMMA LeastOf ==
  ASSUME NEW S \in SUBSET Nat, S # {}
  PROVE  Min(S) \in S
BY LeastNumber DEF Min

UnusedAt(V, s) == {y \in V \ {Head(s.stack)} : Edge(Head(s.stack), y) \notin s.used}

WalkStep(V, s) ==
  IF UnusedAt(V, s) = {} THEN [s EXCEPT !.stack = Tail(@), !.path = Append(@, Head(s.stack))]
  ELSE [s EXCEPT !.used = @ \cup {Edge(Head(s.stack), Min(UnusedAt(V, s)))},
                 !.stack = <<Min(UnusedAt(V, s))>> \o @]

States(V) == [used : SUBSET EdgesOf(V), stack : Seq(V), path : Seq(V)]
Reached(V, k) == {s \in States(V) : \E b : Walking(V, k, s.used, s.stack, s.path, b)}
Start == [used |-> {}, stack |-> <<1>>, path |-> <<>>]

LEMMA StartReached ==
  ASSUME NEW n \in Nat, n >= 1, NEW V, Numbered(V, n)
  PROVE  Start \in Reached(V, 0)
<1>1. 1 \in V /\ <<1>> \in Seq(V) /\ <<>> \in Seq(V) /\ Start \in States(V)
  BY DEF States, Start, Numbered
<1>2. Links(<<1>>) = {} /\ Links(<<>>) = {} /\ Joint(<<1>>, <<>>, 1) = {}
  BY DEF Links, Joint
<1>3. \A v \in V : Degree(V, {}, v) = 0
  <2>1. \A v \in V : Joined(V, {}, v) = {}
    BY DEF Joined
  <2> QED BY <2>1, FS_EmptySet DEF Degree
<1>4. Parity(V, {}, <<1>>, 1)
  <2>1. Head(<<1>>) = 1 /\ 0 % 2 = 0
    OBVIOUS
  <2> QED BY <1>3, <2>1 DEF Parity
<1>5. /\ Cardinality({}) + Len(<<>>) = 0 /\ Cardinality({}) + 1 = Len(<<>>) + Len(<<1>>)
      /\ <<1>>[Len(<<1>>)] = 1 /\ <<1>> # <<>> /\ 1..Len(<<>>) = {}
  BY FS_EmptySet
<1>6. Walking(V, 0, {}, <<1>>, <<>>, 1)
  <2> QED BY <1>1, <1>2, <1>4, <1>5 DEF Walking
<1> QED BY <1>1, <1>6 DEF Reached, Start

LEMMA StepReached ==
  ASSUME NEW h \in Nat, NEW V, Numbered(V, 2 * h + 1), NEW k \in Nat, k <= 2 * Cardinality(EdgesOf(V)),
         NEW s \in Reached(V, k)
  PROVE  WalkStep(V, s) \in Reached(V, k + 1)
<1> DEFINE U == s.used
           S == s.stack
           W == s.path
           unused == UnusedAt(V, s)
<1>1. s \in States(V) /\ s = [used |-> U, stack |-> S, path |-> W]
  BY DEF Reached, States
<1>2. PICK b : Walking(V, k, U, S, W, b)
  BY DEF Reached
<1>3. S # <<>>
  <2>1. 2 * h + 1 \in Nat /\ 2 * h + 1 >= 1
    OBVIOUS
  <2>2. S = <<>> => k = 2 * Cardinality(EdgesOf(V)) + 1 /\ Cardinality(EdgesOf(V)) \in Nat
    BY <1>2, <2>1, WalkLength
  <2> QED BY <2>2
<1>4. IsFiniteSet(V) /\ IsFiniteSet(EdgesOf(V))
  <2>1. 2 * h + 1 \in Nat
    OBVIOUS
  <2> QED BY <2>1, FS_Interval, EdgesCounted DEF Numbered
<1>5. unused = {y \in V \ {Head(S)} : Edge(Head(S), y) \notin U}
  BY DEF UnusedAt
<1>6. CASE unused = {}
  <2>1. PICK c : Walking(V, k + 1, U, Tail(S), Append(W, Head(S)), c)
    <3>1. \A y \in V \ {Head(S)} : Edge(Head(S), y) \in U
      BY <1>5, <1>6
    <3> HIDE DEF U, S, W, unused
    <3> QED BY <1>2, <1>3, <3>1, WalkPop
  <2>2. WalkStep(V, s) = [used |-> U, stack |-> Tail(S), path |-> Append(W, Head(S))]
    BY <1>1, <1>6 DEF WalkStep, States
  <2>3. [used |-> U, stack |-> Tail(S), path |-> Append(W, Head(S))] \in States(V)
    BY <2>1 DEF Walking, States
  <2> DEFINE t == WalkStep(V, s)
  <2>4. t \in States(V) /\ t.used = U /\ t.stack = Tail(S) /\ t.path = Append(W, Head(S))
    <3> HIDE DEF U, S, W, t
    <3> QED BY <2>2, <2>3 DEF t
  <2> HIDE DEF U, S, W, unused, t
  <2>5. Walking(V, k + 1, t.used, t.stack, t.path, c)
    BY <2>1, <2>4
  <2> QED BY <2>4, <2>5 DEF Reached, t
<1>7. CASE unused # {}
  <2> DEFINE y == Min(unused)
  <2>1. y \in unused
    <3>1. unused \in SUBSET Nat
      BY <1>5 DEF Numbered
    <3> HIDE DEF unused
    <3> QED BY <1>7, <3>1, LeastOf
  <2>2. Walking(V, k + 1, U \cup {Edge(Head(S), y)}, <<y>> \o S, W, b)
    <3>1. y \in V \ {Head(S)} /\ Edge(Head(S), y) \notin U
      BY <1>5, <2>1
    <3> HIDE DEF U, S, W, unused, y
    <3> QED BY <1>2, <1>3, <1>4, <3>1, WalkPush
  <2>3. WalkStep(V, s) = [used |-> U \cup {Edge(Head(S), y)}, stack |-> <<y>> \o S, path |-> W]
    BY <1>1, <1>7 DEF WalkStep, States
  <2>4. [used |-> U \cup {Edge(Head(S), y)}, stack |-> <<y>> \o S, path |-> W] \in States(V)
    BY <2>2 DEF Walking, States
  <2> DEFINE t == WalkStep(V, s)
  <2>5. t \in States(V) /\ t.used = U \cup {Edge(Head(S), y)} /\ t.stack = <<y>> \o S /\ t.path = W
    <3> HIDE DEF U, S, W, y, t
    <3> QED BY <2>3, <2>4 DEF t
  <2> HIDE DEF U, S, W, unused, y, t
  <2>6. Walking(V, k + 1, t.used, t.stack, t.path, b)
    BY <2>2, <2>5
  <2> QED BY <2>5, <2>6 DEF Reached, t
<1> QED BY <1>6, <1>7

\* The steps of the walk, one after the other.
IsWalk(V, e, st) ==
  st = [k \in 0..(2 * e + 1) |-> IF k = 0 THEN Start ELSE WalkStep(V, st[k - 1])]

LEMMA WalkExists ==
  ASSUME NEW h \in Nat, NEW V, Numbered(V, 2 * h + 1), NEW e \in Nat, e = Cardinality(EdgesOf(V))
  PROVE  \E st : IsWalk(V, e, st)
<1> DEFINE X == [k \in 0..(2 * e + 1) |-> Reached(V, k)]
           T == [k \in 0..(2 * e + 1) |-> [s \in States(V) |-> WalkStep(V, s)]]
<1>0. 0 \in Nat /\ 2 * e + 1 \in Nat /\ 0 <= 2 * e + 1 /\ 0 \in 0..(2 * e + 1)
  OBVIOUS
<1>1. Start \in X[0]
  <2>1. Start \in Reached(V, 0)
    <3>1. 2 * h + 1 \in Nat /\ 2 * h + 1 >= 1
      OBVIOUS
    <3> QED BY <3>1, StartReached
  <2> QED BY <1>0, <2>1
<1>2. ASSUME NEW k \in (0 + 1)..(2 * e + 1), NEW s \in X[k - 1]
      PROVE  s \in States(V) /\ WalkStep(V, s) \in X[k]
  <2>1. k \in 0..(2 * e + 1) /\ k - 1 \in 0..(2 * e + 1) /\ k - 1 \in Nat /\ k - 1 <= 2 * e /\ (k - 1) + 1 = k
    BY <1>0
  <2>2. s \in Reached(V, k - 1)
    BY <2>1
  <2>3. WalkStep(V, s) \in Reached(V, (k - 1) + 1)
    BY <2>1, <2>2, StepReached
  <2>4. X[k] = Reached(V, k)
    BY <2>1
  <2>5. s \in States(V)
    BY <2>2 DEF Reached
  <2> HIDE DEF X
  <2> QED BY <2>1, <2>3, <2>4, <2>5
<1>3. \A k \in (0 + 1)..(2 * e + 1) : \A s \in X[k - 1] : T[k][s] \in X[k]
  <2> SUFFICES ASSUME NEW k \in (0 + 1)..(2 * e + 1), NEW s \in X[k - 1] PROVE T[k][s] \in X[k]
    OBVIOUS
  <2>1. s \in States(V) /\ WalkStep(V, s) \in X[k]
    BY <1>2
  <2>2. k \in 0..(2 * e + 1)
    OBVIOUS
  <2>3. T[k][s] = WalkStep(V, s)
    BY <2>1, <2>2
  <2> HIDE DEF X, T
  <2> QED BY <2>1, <2>3
<1>4. PICK st : Recursive(st, 0, 2 * e + 1, Start, T) /\ \A k \in 0..(2 * e + 1) : st[k] \in X[k]
  <2> DEFINE a == 0
             c == 2 * e + 1
  <2>1. /\ a \in Nat /\ c \in Nat /\ a <= c /\ Start \in X[a]
        /\ \A k \in (a + 1)..c : \A s \in X[k - 1] : T[k][s] \in X[k]
    <3> HIDE DEF X, T
    <3> QED BY <1>0, <1>1, <1>3
  <2> HIDE DEF X, T, a, c
  <2>2. \E st : Recursive(st, a, c, Start, T) /\ \A k \in a..c : st[k] \in X[k]
    BY <2>1, RecursionExists
  <2> QED BY <2>2 DEF a, c
<1>5. \A k \in 0..(2 * e + 1) : k # 0 => T[k][st[k - 1]] = WalkStep(V, st[k - 1])
  <2> SUFFICES ASSUME NEW k \in 0..(2 * e + 1), k # 0 PROVE T[k][st[k - 1]] = WalkStep(V, st[k - 1])
    OBVIOUS
  <2>1. k - 1 \in 0..(2 * e + 1) /\ k \in (0 + 1)..(2 * e + 1)
    OBVIOUS
  <2>2. st[k - 1] \in X[k - 1]
    <3> HIDE DEF X, T
    <3> QED BY <1>4, <2>1
  <2>3. st[k - 1] \in States(V)
    <3> HIDE DEF X, T
    <3> QED BY <1>2, <2>1, <2>2
  <2> QED BY <2>3
<1>6. st = [k \in 0..(2 * e + 1) |-> IF k = 0 THEN Start ELSE WalkStep(V, st[k - 1])]
  <2> HIDE DEF T, X
  <2> QED BY <1>4, <1>5 DEF Recursive
<1> QED BY <1>6 DEF IsWalk

LEMMA WalkReached ==
  ASSUME NEW h \in Nat, NEW V, Numbered(V, 2 * h + 1), NEW e \in Nat, e = Cardinality(EdgesOf(V)),
         NEW st, IsWalk(V, e, st)
  PROVE  st[2 * e + 1] \in Reached(V, 2 * e + 1)
<1> DEFINE Bad == {k \in 0..(2 * e + 1) : st[k] \notin Reached(V, k)}
<1>0. \A k \in 0..(2 * e + 1) : st[k] = IF k = 0 THEN Start ELSE WalkStep(V, st[k - 1])
  BY DEF IsWalk
<1>1. Bad = {}
  <2> SUFFICES ASSUME Bad # {} PROVE FALSE
    OBVIOUS
  <2>1. PICK k \in Bad : \A j \in Bad : k <= j
    <3>1. Bad \in SUBSET Nat
      OBVIOUS
    <3> HIDE DEF Bad
    <3> QED BY <3>1, LeastNumber
  <2>2. k # 0
    <3>1. 2 * h + 1 \in Nat /\ 2 * h + 1 >= 1
      OBVIOUS
    <3>2. Start \in Reached(V, 0)
      BY <3>1, StartReached
    <3> QED BY <1>0, <2>1, <3>2
  <2>3. k - 1 \in 0..(2 * e + 1) /\ k - 1 \in Nat /\ k - 1 <= 2 * e /\ (k - 1) + 1 = k /\ k - 1 \notin Bad
    BY <2>1, <2>2
  <2>4. st[k - 1] \in Reached(V, k - 1)
    BY <2>3
  <2>5. WalkStep(V, st[k - 1]) \in Reached(V, (k - 1) + 1)
    BY <2>3, <2>4, StepReached
  <2>6. st[k] = WalkStep(V, st[k - 1])
    BY <1>0, <2>1, <2>2
  <2> QED BY <2>1, <2>3, <2>5, <2>6
<1>2. 2 * e + 1 \in 0..(2 * e + 1)
  OBVIOUS
<1> QED BY <1>1, <1>2

\* A closed tour that uses every edge once.
IsTour(V, e, p) ==
  /\ p \in Seq(V) /\ Len(p) = e + 1 /\ p[1] = p[e + 1]
  /\ Links(p) = EdgesOf(V)

LEMMA WalkIsTour ==
  ASSUME NEW h \in Nat, NEW V, Numbered(V, 2 * h + 1), NEW e \in Nat, e = Cardinality(EdgesOf(V)),
         NEW st, IsWalk(V, e, st)
  PROVE  IsTour(V, e, st[2 * e + 1].path)
<1> DEFINE s == st[2 * e + 1]
<1>1. PICK b : Walking(V, 2 * e + 1, s.used, s.stack, s.path, b)
  BY WalkReached DEF Reached
<1>2. s.stack = <<>> /\ s.used = EdgesOf(V) /\ Len(s.path) = e + 1
  <2>1. 2 * h + 1 \in Nat /\ 2 * h + 1 >= 1 /\ 2 * e + 1 \in Nat /\ ~ (2 * e + 1 <= 2 * e)
    OBVIOUS
  <2> HIDE DEF s
  <2> DEFINE k == 2 * e + 1
             N == 2 * h + 1
  <2>3. N \in Nat /\ N >= 1 /\ k \in Nat /\ Numbered(V, N)
    BY <2>1
  <2>4. Walking(V, k, s.used, s.stack, s.path, b)
    BY <1>1
  <2> HIDE DEF k, N
  <2>5. /\ s.stack = <<>> => s.used = EdgesOf(V) /\ Len(s.path) = e + 1
        /\ s.stack # <<>> => k <= 2 * e
    BY <2>3, <2>4, WalkLength
  <2>2. /\ s.stack = <<>> => s.used = EdgesOf(V) /\ Len(s.path) = e + 1
        /\ s.stack # <<>> => 2 * e + 1 <= 2 * e
    BY <2>5 DEF k
  <2> QED BY <2>1, <2>2
<1> HIDE DEF s
<1>3. s.path \in Seq(V) /\ s.path # <<>> /\ s.path[1] = 1 /\ s.path[Len(s.path)] = 1
  <2>1. Len(s.path) # 0
    BY <1>2
  <2>2. s.path # <<>>
    BY <2>1
  <2> QED BY <1>1, <1>2, <2>2 DEF Walking
<1>4. Links(s.path) = EdgesOf(V)
  <2>1. Links(<<>>) = {}
    BY DEF Links
  <2>2. s.used = Links(s.stack) \cup Links(s.path) \cup Joint(s.stack, s.path, b)
    BY <1>1 DEF Walking
  <2>3. Joint(s.stack, s.path, b) = {}
    BY <1>2 DEF Joint
  <2> QED BY <1>2, <2>1, <2>2, <2>3
<1>5. s.path[1] = s.path[e + 1]
  BY <1>2, <1>3
<1> QED BY <1>2, <1>3, <1>4, <1>5 DEF IsTour, s

\* The arcs of the tour: at home plays the vertex it leaves.
Arcs(p, e) == {<<p[k], p[k + 1]>> : k \in 1..e}

LEMMA OrientationIsTour ==
  ASSUME NEW n \in Nat, n >= 2
  PROVE  \E h \in Nat, e \in Nat : \E p :
           /\ n \in {2 * h, 2 * h + 1} /\ e = Cardinality(EdgesOf(1..(2 * h + 1)))
           /\ IsTour(1..(2 * h + 1), e, p)
           /\ Orientation(n) = Arcs(p, e) \cap ((1..n) \X (1..n))
<1> DEFINE h == n \div 2
           N == IF n % 2 = 0 THEN n + 1 ELSE n
           V == 1..N
           edges == (Cardinality(V) * (Cardinality(V) - 1)) \div 2
           e == Cardinality(EdgesOf(V))
           st == CHOOSE s : IsWalk(V, edges, s)
           p == st[2 * edges + 1].path
<1>1. h \in Nat /\ n \in {2 * h, 2 * h + 1} /\ N = 2 * h + 1 /\ N \in Nat
  OBVIOUS
<1>2. e \in Nat /\ edges = e
  <2>1. Cardinality(V) = N
    <3> HIDE DEF N
    <3>1. 1 \in Int /\ N \in Int
      BY <1>1
    <3>2. Cardinality(1..N) = IF 1 > N THEN 0 ELSE N - 1 + 1
      BY <3>1, FS_Interval
    <3> QED BY <1>1, <3>2
  <2>2. IsFiniteSet(EdgesOf(V)) /\ 2 * e = N * (N - 1)
    <3> HIDE DEF N
    <3> QED BY <1>1, EdgesCounted
  <2>3. e \in Nat
    BY <2>2, FS_CardinalityType
  <2>4. edges = (N * (N - 1)) \div 2
    BY <2>1
  <2> DEFINE q == N * (N - 1)
  <2>5. 2 * e = q /\ edges = q \div 2
    BY <2>2, <2>4
  <2> HIDE DEF q, e, edges
  <2> QED BY <2>3, <2>5
<1>3. IsWalk(V, edges, st)
  <2>1. \E s : IsWalk(V, edges, s)
    <3> HIDE DEF N
    <3>1. Numbered(V, 2 * h + 1)
      BY <1>1 DEF Numbered
    <3> HIDE DEF V, h, edges
    <3>2. \E s : IsWalk(V, e, s)
      BY <1>1, <1>2, <3>1, WalkExists
    <3> QED BY <1>2, <3>2
  <2> HIDE DEF V, edges
  <2> QED BY <2>1
<1>4. Orientation(n) = {<<p[k], p[k + 1]>> : k \in 1..(Len(p) - 1)} \cap ((1..n) \X (1..n))
  BY DEF Orientation, IsWalk, WalkStep, UnusedAt, Edge, Start
<1> HIDE DEF st
<1>5. IsTour(V, e, p)
  <2>1. Numbered(V, 2 * h + 1)
    BY <1>1 DEF Numbered
  <2> HIDE DEF V, N, h, edges
  <2> QED BY <1>1, <1>2, <1>3, <2>1, WalkIsTour
<1>6. Len(p) - 1 = e
  <2> HIDE DEF V, N, h, edges, p, e
  <2> QED BY <1>2, <1>5 DEF IsTour
<1> HIDE DEF p, e, edges
<1>7. Orientation(n) = Arcs(p, e) \cap ((1..n) \X (1..n))
  BY <1>4, <1>6 DEF Arcs
<1>8. V = 1..(2 * h + 1)
  BY <1>1
<1> HIDE DEF V, N, h
<1> QED BY <1>1, <1>2, <1>5, <1>7, <1>8 DEF e

-----------------------------------------------------------------------------
(* The orientation is balanced: a closed tour leaves a vertex as often as    *)
(* it arrives there.                                                       *)

LEMMA TourOnce ==
  ASSUME NEW V, NEW e \in Nat, IsFiniteSet(EdgesOf(V)), e = Cardinality(EdgesOf(V)), NEW p, IsTour(V, e, p)
  PROVE  /\ \A i \in 1..e : p[i] \in V /\ p[i + 1] \in V /\ p[i] # p[i + 1]
         /\ \A i, j \in 1..e : Edge(p[i], p[i + 1]) = Edge(p[j], p[j + 1]) => i = j
         /\ \A a, b \in V : a # b => \E i \in 1..e : Edge(p[i], p[i + 1]) = Edge(a, b)
<1> DEFINE f == [i \in 1..e |-> Edge(p[i], p[i + 1])]
           E == EdgesOf(V)
<1>1. E = {Edge(p[i], p[i + 1]) : i \in 1..e}
  <2>1. Len(p) - 1 = e
    BY DEF IsTour
  <2> QED BY <2>1 DEF IsTour, Links
<1>2. f \in [1..e -> E] /\ \A d \in E : \E i \in 1..e : f[i] = d
  BY <1>1
<1>3. IsFiniteSet(1..e) /\ Cardinality(1..e) = e
  BY FS_Interval
<1>4. \A i, j \in 1..e : f[i] = f[j] => i = j
  <2> HIDE DEF f
  <2>1. f \in Surjection(1..e, E)
    BY <1>2, Fun_IsSurj
  <2>2. Cardinality(1..e) = Cardinality(E)
    BY <1>3
  <2>3. f \in Injection(1..e, E)
    BY <1>3, <2>1, <2>2, FS_SurjSameCardinalityImpliesInj
  <2> QED BY <2>3 DEF Injection, IsInjective
<1>5. \A i \in 1..e : Edge(p[i], p[i + 1]) \in E
  BY <1>1
<1>6. \A a, b \in V : a # b => Edge(a, b) \in E
  BY EdgeOf
<1>7. \A i \in 1..e : p[i] \in V /\ p[i + 1] \in V /\ p[i] # p[i + 1]
  BY <1>5, EdgeOf
<1>8. \A i, j \in 1..e : Edge(p[i], p[i + 1]) = Edge(p[j], p[j + 1]) => i = j
  BY <1>4
<1>9. \A a, b \in V : a # b => \E i \in 1..e : Edge(p[i], p[i + 1]) = Edge(a, b)
  BY <1>1, <1>6
<1> QED BY <1>7, <1>8, <1>9

LEMMA ArcsOneWay ==
  ASSUME NEW V, NEW e \in Nat, IsFiniteSet(EdgesOf(V)), e = Cardinality(EdgesOf(V)), NEW p, IsTour(V, e, p),
         NEW a \in V, NEW b \in V, a # b
  PROVE  <<a, b>> \in Arcs(p, e) <=> <<b, a>> \notin Arcs(p, e)
<1>1. ASSUME <<a, b>> \in Arcs(p, e), <<b, a>> \in Arcs(p, e) PROVE FALSE
  <2>1. PICK i \in 1..e : a = p[i] /\ b = p[i + 1]
    BY <1>1 DEF Arcs
  <2>2. PICK j \in 1..e : b = p[j] /\ a = p[j + 1]
    BY <1>1 DEF Arcs
  <2>3. Edge(p[i], p[i + 1]) = Edge(p[j], p[j + 1])
    BY <2>1, <2>2, EdgesSame
  <2>4. i = j
    BY <2>3, TourOnce
  <2> QED BY <2>1, <2>2, <2>4
<1>2. <<a, b>> \in Arcs(p, e) \/ <<b, a>> \in Arcs(p, e)
  <2>1. PICK i \in 1..e : Edge(p[i], p[i + 1]) = Edge(a, b)
    BY TourOnce
  <2>2. (p[i] = a /\ p[i + 1] = b) \/ (p[i] = b /\ p[i + 1] = a)
    BY <2>1, EdgesSame
  <2> QED BY <2>2 DEF Arcs
<1> QED BY <1>1, <1>2

LEMMA TourEven ==
  ASSUME NEW N \in Nat, NEW e \in Nat, e = Cardinality(EdgesOf(1..N)), NEW p, IsTour(1..N, e, p), NEW v \in 1..N
  PROVE  Cardinality(Beaten(Arcs(p, e), N, v)) = Cardinality(Hosts(Arcs(p, e), N, v))
<1> DEFINE O == Arcs(p, e)
           Departs == {k \in 1..e : p[k] = v}
           Arrives == {k \in 1..e : p[k + 1] = v}
           Out == Beaten(O, N, v)
           In == Hosts(O, N, v)
<1>0. IsFiniteSet(EdgesOf(1..N))
  BY EdgesCounted
<1>1. /\ \A i \in 1..e : p[i] \in 1..N /\ p[i + 1] \in 1..N /\ p[i] # p[i + 1]
      /\ \A i, j \in 1..e : Edge(p[i], p[i + 1]) = Edge(p[j], p[j + 1]) => i = j
  BY <1>0, TourOnce
<1>2. IsFiniteSet(Out) /\ IsFiniteSet(In)
  BY OpponentsFinite
<1>3. IsFiniteSet(Departs) /\ Cardinality(Departs) = Cardinality(Out)
  <2> DEFINE f == [k \in Departs |-> p[k + 1]]
  <2>1. f \in [Departs -> Out]
    <3> SUFFICES ASSUME NEW k \in Departs PROVE p[k + 1] \in Out
      OBVIOUS
    <3>1. <<p[k], p[k + 1]>> \in O /\ p[k] = v
      BY DEF Arcs
    <3> QED BY <1>1, <3>1 DEF Beaten
  <2>2. \A i, j \in Departs : f[i] = f[j] => i = j
    BY <1>1
  <2>3. \A b \in Out : \E k \in Departs : f[k] = b
    <3> SUFFICES ASSUME NEW b \in Out PROVE \E k \in Departs : p[k + 1] = b
      OBVIOUS
    <3>1. PICK k \in 1..e : <<v, b>> = <<p[k], p[k + 1]>>
      BY DEF Beaten, Arcs
    <3> QED BY <3>1
  <2> HIDE DEF f, Departs, Out
  <2> QED BY <1>2, <2>1, <2>2, <2>3, SameSize
<1>4. IsFiniteSet(Arrives) /\ Cardinality(Arrives) = Cardinality(In)
  <2> DEFINE f == [k \in Arrives |-> p[k]]
  <2>1. f \in [Arrives -> In]
    <3> SUFFICES ASSUME NEW k \in Arrives PROVE p[k] \in In
      OBVIOUS
    <3>1. <<p[k], p[k + 1]>> \in O /\ p[k + 1] = v
      BY DEF Arcs
    <3> QED BY <1>1, <3>1 DEF Hosts
  <2>2. \A i, j \in Arrives : f[i] = f[j] => i = j
    BY <1>1
  <2>3. \A b \in In : \E k \in Arrives : f[k] = b
    <3> SUFFICES ASSUME NEW b \in In PROVE \E k \in Arrives : p[k] = b
      OBVIOUS
    <3>1. PICK k \in 1..e : <<b, v>> = <<p[k], p[k + 1]>>
      BY DEF Hosts, Arcs
    <3> QED BY <3>1
  <2> HIDE DEF f, Arrives, In
  <2> QED BY <1>2, <2>1, <2>2, <2>3, SameSize
<1>5. Cardinality(Departs) = Cardinality(Arrives)
  <2> DEFINE f == [k \in Departs |-> IF k = 1 THEN e ELSE k - 1]
  <2>0. p[1] = p[e + 1]
    BY DEF IsTour
  <2>1. f \in [Departs -> Arrives]
    <3> SUFFICES ASSUME NEW k \in Departs PROVE (IF k = 1 THEN e ELSE k - 1) \in Arrives
      OBVIOUS
    <3>1. CASE k = 1
      <4>1. e \in 1..e
        OBVIOUS
      <4> QED BY <2>0, <3>1, <4>1
    <3>2. CASE k # 1
      <4>1. k - 1 \in 1..e /\ (k - 1) + 1 = k
        BY <3>2
      <4> QED BY <3>2, <4>1
    <3> QED BY <3>1, <3>2
  <2>2. \A i, j \in Departs : f[i] = f[j] => i = j
    OBVIOUS
  <2>3. \A k \in Arrives : \E i \in Departs : f[i] = k
    <3> SUFFICES ASSUME NEW k \in Arrives PROVE \E i \in Departs : f[i] = k
      OBVIOUS
    <3>1. CASE k = e
      <4>1. 1 \in Departs
        BY <2>0, <3>1
      <4> QED BY <3>1, <4>1
    <3>2. CASE k # e
      <4>1. k + 1 \in Departs /\ k + 1 # 1 /\ (k + 1) - 1 = k
        BY <3>2
      <4> QED BY <4>1
    <3> QED BY <3>1, <3>2
  <2> HIDE DEF f, Departs, Arrives
  <2> QED BY <1>3, <2>1, <2>2, <2>3, SameSize
<1> QED BY <1>3, <1>4, <1>5

LEMMA OrientationBalanced ==
  ASSUME NEW n \in Nat, n >= 2
  PROVE  Balanced(Orientation(n), n)
<1>0. PICK h \in Nat, e \in Nat : \E p :
        /\ n \in {2 * h, 2 * h + 1} /\ e = Cardinality(EdgesOf(1..(2 * h + 1)))
        /\ IsTour(1..(2 * h + 1), e, p)
        /\ Orientation(n) = Arcs(p, e) \cap ((1..n) \X (1..n))
  BY OrientationIsTour
<1>1. PICK p :
        /\ n \in {2 * h, 2 * h + 1} /\ e = Cardinality(EdgesOf(1..(2 * h + 1)))
        /\ IsTour(1..(2 * h + 1), e, p)
        /\ Orientation(n) = Arcs(p, e) \cap ((1..n) \X (1..n))
  BY <1>0
<1> DEFINE N == 2 * h + 1
           A == Arcs(p, e)
           O == Orientation(n)
<1>2. N \in Nat /\ (n = N \/ N = n + 1) /\ e = Cardinality(EdgesOf(1..N)) /\ IsTour(1..N, e, p)
  BY <1>1
<1>3. O = A \cap ((1..n) \X (1..n))
  BY <1>1
<1> HIDE DEF N, A, O
<1>4. IsFiniteSet(EdgesOf(1..N))
  BY <1>2, EdgesCounted
<1>5. \A a, b \in 1..N : a # b => (<<a, b>> \in A <=> <<b, a>> \notin A)
  BY <1>2, <1>4, ArcsOneWay DEF A
<1>6. \A x \in 1..n : x \in 1..N
  BY <1>2
<1>7. Tournament(O, n)
  BY <1>3, <1>5, <1>6 DEF Tournament
<1>8. ASSUME NEW v \in 1..n
      PROVE  /\ Cardinality(Beaten(O, n, v)) <= Cardinality(Hosts(O, n, v)) + 1
             /\ Cardinality(Hosts(O, n, v)) <= Cardinality(Beaten(O, n, v)) + 1
  <2> DEFINE Out == Beaten(A, N, v)
             In == Hosts(A, N, v)
  <2>1. Cardinality(Out) = Cardinality(In)
    BY <1>2, <1>6, TourEven DEF A
  <2>2. IsFiniteSet(Out) /\ IsFiniteSet(In) /\ Cardinality(Out) \in Nat /\ Cardinality(In) \in Nat
    BY <1>2, OpponentsFinite
  <2>3. CASE n = N
    <3>1. Beaten(O, n, v) = Out /\ Hosts(O, n, v) = In
      BY <1>3, <2>3 DEF Beaten, Hosts
    <3> HIDE DEF Out, In
    <3> QED BY <2>1, <2>2, <3>1
  <2>4. CASE N = n + 1
    <3>1. Beaten(O, n, v) = Out \ {N} /\ Hosts(O, n, v) = In \ {N}
      BY <1>3, <2>4 DEF Beaten, Hosts
    <3> HIDE DEF Out, In
    <3>2. /\ Cardinality(Out \ {N}) = IF N \in Out THEN Cardinality(Out) - 1 ELSE Cardinality(Out)
          /\ Cardinality(In \ {N}) = IF N \in In THEN Cardinality(In) - 1 ELSE Cardinality(In)
      BY <2>2, FS_RemoveElement
    <3> QED BY <2>1, <2>2, <3>1, <3>2
  <2> QED BY <1>2, <2>3, <2>4
<1> QED BY <1>7, <1>8 DEF Balanced, O

-----------------------------------------------------------------------------
(* The theorem.                                                            *)

\* A league is that of a number of entrants and of legs.
LeagueInv == plan.format = "league" =>
  /\ plan.n \in Nat /\ plan.n >= 2 /\ plan.legs \in 1..3
  /\ plan.matches = RoundRobin(plan.n, plan.legs)

LEMMA LeagueInvFair == LeagueInv => LeagueFair
<1> SUFFICES ASSUME LeagueInv, plan.format = "league" PROVE LeagueFair
  BY DEF LeagueFair
<1> DEFINE n == plan.n
           legs == plan.legs
           M == plan.matches
           O == Orientation(n)
<1>1. n \in Nat /\ n >= 2 /\ legs \in 1..3 /\ M = FixtureSet(O, n, legs)
  BY LeagueIsFixtures DEF LeagueInv
<1>2. Balanced(O, n) /\ Tournament(O, n)
  BY <1>1, OrientationBalanced DEF Balanced
<1> HIDE DEF n, legs, M, O
<1>3. ASSUME NEW a \in 1..n, NEW b \in 1..n, a < b
      PROVE  Cardinality({m \in M : {m.home, m.away} = {a, b}}) = legs
  <2>1. a # b
    BY <1>3
  <2>2. Cardinality({m \in M : Meets(m, a, b)}) = legs
    BY <1>1, <1>2, <2>1, LeagueMeets
  <2>3. {m \in M : Meets(m, a, b)} = {m \in M : {m.home, m.away} = {a, b}}
    BY DEF Meets
  <2> QED BY <2>2, <2>3
<1>4. ASSUME NEW m \in M, NEW k \in M, m.round = k.round, {m.home, m.away} \cap {k.home, k.away} # {}
      PROVE  m = k
  BY <1>1, <1>2, <1>4, LeagueRounds
<1>5. ASSUME NEW e \in 1..n
      PROVE  LET h == Cardinality({m \in M : m.home = e})
                 w == Cardinality({m \in M : m.away = e})
             IN h <= w + 1 /\ w <= h + 1 /\ (legs % 2 = 0 => h = w)
  BY <1>1, <1>2, LeagueSides
<1> QED BY <1>3, <1>4, <1>5 DEF LeagueFair, n, legs, M

\* Every pair meets once per leg, nobody plays twice in a round, and home and
\* away are balanced, for any number of entrants (buildRoundRobin,
\* orientBalanced).
THEOREM LeagueAlwaysFair == DrawSpec => []LeagueFair
<1>1. DrawInit => LeagueInv
  BY DEF DrawInit, NoPlan, LeagueInv
<1>2. LeagueInv /\ [DrawNext]_plan => LeagueInv'
  <2> SUFFICES ASSUME LeagueInv, [DrawNext]_plan PROVE LeagueInv'
    OBVIOUS
  <2>1. ASSUME NEW n \in 2..MaxEntrants, NEW legs \in 1..3, GenerateLeague(n, legs) PROVE LeagueInv'
    <3>1. n \in Nat /\ n >= 2
      BY DrawAssumption
    <3> QED BY <2>1, <3>1 DEF GenerateLeague, LeagueInv
  <2>2. ASSUME NEW n \in 2..MaxEntrants, GenerateKnockout(n) PROVE LeagueInv'
    BY <2>2 DEF GenerateKnockout, LeagueInv
  <2>3. ASSUME NEW n, NEW g, NEW q, GenerateGroups(n, g, q) PROVE LeagueInv'
    BY <2>3 DEF GenerateGroups, LeagueInv
  <2>4. CASE UNCHANGED plan
    BY <2>4 DEF LeagueInv
  <2> QED BY <2>1, <2>2, <2>3, <2>4 DEF DrawNext
<1> QED BY <1>1, <1>2, LeagueInvFair, PTL DEF DrawSpec

-----------------------------------------------------------------------------
(* Standings: sums of numbers are numbers.                                 *)

\* The sets of a size, and what it means to sum over them.
UpToSize(S, n) == {s \in SUBSET S : Cardinality(s) <= n}
SumsOver(D, f, g) ==
  g = [s \in D |-> IF s = {} THEN 0
                   ELSE f[CHOOSE x \in s : TRUE] + g[s \ {CHOOSE x \in s : TRUE}]]

\* A set without the element that is summed next.
OneLess(S, s) == /\ IsFiniteSet(s) /\ Cardinality(s) \in Nat /\ Cardinality(s) <= Cardinality(S)
                 /\ Cardinality(s) = 0 <=> s = {}
                 /\ s # {} => /\ (CHOOSE x \in s : TRUE) \in s
                              /\ s \ {CHOOSE x \in s : TRUE} \in SUBSET S
                              /\ Cardinality(s \ {CHOOSE x \in s : TRUE}) = Cardinality(s) - 1

LEMMA OneLessHolds ==
  ASSUME NEW S, IsFiniteSet(S), NEW s \in SUBSET S
  PROVE  OneLess(S, s)
<1>1. IsFiniteSet(s) /\ Cardinality(s) \in Nat /\ Cardinality(s) <= Cardinality(S)
  BY FS_Subset, FS_CardinalityType
<1>2. Cardinality(s) = 0 <=> s = {}
  BY <1>1, FS_EmptySet
<1>3. ASSUME s # {} PROVE (CHOOSE x \in s : TRUE) \in s
  BY <1>3
<1>4. ASSUME s # {} PROVE Cardinality(s \ {CHOOSE x \in s : TRUE}) = Cardinality(s) - 1
  BY <1>1, <1>3, <1>4, FS_RemoveElement
<1> QED BY <1>1, <1>2, <1>3, <1>4 DEF OneLess

\* The recursion of SumFunction has a solution, which is a number everywhere.
LEMMA SumExists ==
  ASSUME NEW S, IsFiniteSet(S), NEW f \in [S -> Int]
  PROVE  \E g \in [SUBSET S -> Int] : SumsOver(SUBSET S, f, g)
<1> DEFINE Solved(n) == \E g \in [UpToSize(S, n) -> Int] : SumsOver(UpToSize(S, n), f, g)
           Bad == {n \in Nat : ~Solved(n)}
<1>0. \A s \in SUBSET S : OneLess(S, s)
  BY OneLessHolds
<1>1. Solved(0)
  <2> DEFINE g == [s \in UpToSize(S, 0) |-> 0]
  <2>1. \A s \in UpToSize(S, 0) : s = {}
    <3> SUFFICES ASSUME NEW s \in UpToSize(S, 0) PROVE s = {}
      OBVIOUS
    <3>1. s \in SUBSET S /\ Cardinality(s) <= 0
      BY DEF UpToSize
    <3>2. Cardinality(s) \in Nat /\ (Cardinality(s) = 0 <=> s = {})
      BY <1>0, <3>1 DEF OneLess
    <3> QED BY <3>1, <3>2
  <2>2. SumsOver(UpToSize(S, 0), f, g)
    BY <2>1 DEF SumsOver
  <2>3. g \in [UpToSize(S, 0) -> Int]
    OBVIOUS
  <2> QED BY <2>2, <2>3
<1>2. ASSUME NEW n \in Nat, Solved(n) PROVE Solved(n + 1)
  <2> DEFINE c(s) == CHOOSE x \in s : TRUE
             D == UpToSize(S, n)
             E == UpToSize(S, n + 1)
  <2>1. PICK g \in [D -> Int] : SumsOver(D, f, g)
    BY <1>2
  <2> DEFINE h == [s \in E |-> IF s = {} THEN 0 ELSE f[c(s)] + g[s \ {c(s)}]]
  <2>2. \A s \in E : s # {} => s \ {c(s)} \in D /\ s \ {c(s)} \in E /\ c(s) \in S
    BY <1>0 DEF UpToSize, OneLess
  <2>3. h \in [E -> Int]
    BY <2>2
  <2>4. \A s \in D : s \in E /\ g[s] = IF s = {} THEN 0 ELSE f[c(s)] + g[s \ {c(s)}]
    <3>1. D \subseteq E
      <4> SUFFICES ASSUME NEW s \in D PROVE s \in E
        OBVIOUS
      <4>1. s \in SUBSET S /\ Cardinality(s) <= n
        BY DEF UpToSize
      <4>2. Cardinality(s) \in Nat
        BY <1>0, <4>1 DEF OneLess
      <4> QED BY <4>1, <4>2 DEF UpToSize
    <3> HIDE DEF D, E, c
    <3> QED BY <2>1, <3>1 DEF SumsOver, c
  <2>5. \A s \in D : h[s] = g[s]
    <3> HIDE DEF D, E, c
    <3> QED BY <2>4
  <2>6. \A s \in E : h[s] = IF s = {} THEN 0 ELSE f[c(s)] + h[s \ {c(s)}]
    <3> HIDE DEF D, E, c
    <3> QED BY <2>2, <2>5
  <2>7. SumsOver(E, f, h)
    <3> HIDE DEF D, E
    <3>1. h = [s \in E |-> IF s = {} THEN 0 ELSE f[c(s)] + h[s \ {c(s)}]]
      <4> DEFINE k == [s \in E |-> IF s = {} THEN 0 ELSE f[c(s)] + h[s \ {c(s)}]]
      <4>1. \A s \in E : h[s] = k[s]
        BY <2>6
      <4> QED BY <4>1
    <3> HIDE DEF h
    <3> QED BY <3>1 DEF SumsOver
  <2> QED BY <2>3, <2>7
<1>3. Bad = {}
  <2> SUFFICES ASSUME Bad # {} PROVE FALSE
    OBVIOUS
  <2>1. PICK n \in Bad : \A k \in Bad : n <= k
    <3> HIDE DEF Solved
    <3> QED BY LeastNumber
  <2> HIDE DEF Solved
  <2>2. n # 0
    BY <1>1
  <2>3. n - 1 \in Nat /\ Solved(n - 1)
    BY <2>1, <2>2
  <2> QED BY <1>2, <2>3
<1>4. UpToSize(S, Cardinality(S)) = SUBSET S /\ Cardinality(S) \in Nat
  BY <1>0 DEF UpToSize, OneLess
<1>5. Solved(Cardinality(S))
  <2> HIDE DEF Solved
  <2> QED BY <1>3, <1>4
<1> QED BY <1>4, <1>5

LEMMA SumsAreNumbers ==
  ASSUME NEW S, IsFiniteSet(S), NEW f \in [S -> Int], NEW g, SumsOver(SUBSET S, f, g)
  PROVE  \A s \in SUBSET S : g[s] \in Int
<1> DEFINE Bad == {n \in Nat : \E s \in SUBSET S : Cardinality(s) = n /\ g[s] \notin Int}
<1>1. \A s \in SUBSET S : OneLess(S, s)
  BY OneLessHolds
<1>2. SUFFICES ASSUME Bad # {} PROVE FALSE
  BY <1>1 DEF OneLess
<1>3. PICK n \in Bad : \A k \in Bad : n <= k
  BY <1>2, LeastNumber
<1>4. PICK s \in SUBSET S : Cardinality(s) = n /\ g[s] \notin Int
  BY <1>3
<1> DEFINE x == CHOOSE x \in s : TRUE
<1>5. g[s] = IF s = {} THEN 0 ELSE f[x] + g[s \ {x}]
  BY DEF SumsOver
<1>6. s # {}
  BY <1>4, <1>5
<1>7. x \in S /\ s \ {x} \in SUBSET S /\ Cardinality(s \ {x}) = n - 1 /\ n - 1 \in Nat
  BY <1>1, <1>4, <1>6 DEF OneLess
<1>8. g[s \ {x}] \in Int
  <2>1. n - 1 \notin Bad
    BY <1>3, <1>7
  <2> HIDE DEF x
  <2> QED BY <1>7, <2>1
<1> QED BY <1>4, <1>5, <1>6, <1>7, <1>8

\* A sum of numbers is a number.
LEMMA SumIsWhole ==
  ASSUME NEW f, IsFiniteSet(DOMAIN f), f \in [DOMAIN f -> Int]
  PROVE  SumFunction(f) \in Int
<1> DEFINE S == DOMAIN f
           iter == CHOOSE g : SumsOver(SUBSET S, f, g)
<1>1. \E g \in [SUBSET S -> Int] : SumsOver(SUBSET S, f, g)
  BY SumExists
<1>2. SumsOver(SUBSET S, f, iter)
  BY <1>1
<1>3. SumFunction(f) = iter[S]
  BY DEF SumFunction, SumFunctionOnSet, FoldFunctionOnSet, MapThenFoldSet, SumsOver
<1>4. iter[S] \in Int
  <2> HIDE DEF iter
  <2> QED BY <1>2, SumsAreNumbers
<1> QED BY <1>3, <1>4

-----------------------------------------------------------------------------
(* The order of keys.                                                      *)

Keys(n) == [1..n -> Int]

LEMMA KeysDiffer ==
  ASSUME NEW n \in Nat, NEW a \in Keys(n), NEW b \in Keys(n), a # b
  PROVE  \E i \in 1..n : a[i] # b[i] /\ \A j \in 1..(i - 1) : a[j] = b[j]
<1> DEFINE Bad == {i \in 1..n : a[i] # b[i]}
<1>1. Bad # {} /\ Bad \in SUBSET Nat
  BY DEF Keys
<1>2. PICK i \in Bad : \A k \in Bad : i <= k
  <2> HIDE DEF Bad
  <2> QED BY <1>1, LeastNumber
<1>3. \A j \in 1..(i - 1) : j \in 1..n /\ ~ (i <= j)
  BY <1>2
<1> QED BY <1>2, <1>3

\* Better is a strict order in which different keys compare.
LEMMA BetterOrders ==
  ASSUME NEW n \in Nat, NEW a \in Keys(n), NEW b \in Keys(n)
  PROVE  /\ ~ Better(a, a)
         /\ Better(a, b) => ~ Better(b, a)
         /\ a # b => Better(a, b) \/ Better(b, a)
<1>0. DOMAIN a = 1..n /\ DOMAIN b = 1..n /\ \A i \in 1..n : a[i] \in Int /\ b[i] \in Int
  BY DEF Keys
<1>1. ~ Better(a, a)
  BY <1>0 DEF Better
<1>2. ASSUME Better(a, b), Better(b, a) PROVE FALSE
  <2>1. PICK i \in 1..n : a[i] > b[i] /\ \A j \in 1..(i - 1) : a[j] = b[j]
    BY <1>0, <1>2 DEF Better
  <2>2. PICK k \in 1..n : b[k] > a[k] /\ \A j \in 1..(k - 1) : b[j] = a[j]
    BY <1>0, <1>2 DEF Better
  <2>3. i < k => i \in 1..(k - 1)
    OBVIOUS
  <2>4. k < i => k \in 1..(i - 1)
    OBVIOUS
  <2> QED BY <1>0, <2>1, <2>2, <2>3, <2>4
<1>3. ASSUME a # b PROVE Better(a, b) \/ Better(b, a)
  <2>1. PICK i \in 1..n : a[i] # b[i] /\ \A j \in 1..(i - 1) : a[j] = b[j]
    BY <1>3, KeysDiffer
  <2>2. a[i] > b[i] \/ b[i] > a[i]
    BY <1>0, <2>1
  <2> QED BY <1>0, <2>1, <2>2 DEF Better
<1> QED BY <1>1, <1>2, <1>3

LEMMA BetterTransitive ==
  ASSUME NEW n \in Nat, NEW a \in Keys(n), NEW b \in Keys(n), NEW c \in Keys(n),
         Better(a, b), Better(b, c)
  PROVE  Better(a, c)
<1>0. /\ DOMAIN a = 1..n /\ DOMAIN b = 1..n
      /\ \A i \in 1..n : a[i] \in Int /\ b[i] \in Int /\ c[i] \in Int
  BY DEF Keys
<1>1. PICK i \in 1..n : a[i] > b[i] /\ \A j \in 1..(i - 1) : a[j] = b[j]
  BY <1>0 DEF Better
<1>2. PICK k \in 1..n : b[k] > c[k] /\ \A j \in 1..(k - 1) : b[j] = c[j]
  BY <1>0 DEF Better
<1>3. CASE i < k
  <2>1. i \in 1..(k - 1) /\ \A j \in 1..(i - 1) : j \in 1..(k - 1)
    BY <1>3
  <2>2. a[i] > c[i] /\ \A j \in 1..(i - 1) : a[j] = c[j]
    BY <1>0, <1>1, <1>2, <2>1
  <2> QED BY <1>0, <2>2 DEF Better
<1>4. CASE k < i
  <2>1. k \in 1..(i - 1) /\ \A j \in 1..(k - 1) : j \in 1..(i - 1)
    BY <1>4
  <2>2. a[k] > c[k] /\ \A j \in 1..(k - 1) : a[j] = c[j]
    BY <1>0, <1>1, <1>2, <2>1
  <2> QED BY <1>0, <2>2 DEF Better
<1>5. CASE i = k
  <2>2. a[i] > c[i] /\ \A j \in 1..(i - 1) : a[j] = c[j]
    BY <1>0, <1>1, <1>2, <1>5
  <2> QED BY <1>0, <2>2 DEF Better
<1> QED BY <1>3, <1>4, <1>5

\* One place, more than the keys ahead: places are ordered as keys are.
PlaceOf(G, key, q) == 1 + Cardinality({r \in G : Better(key[r], key[q])})

LEMMA PlaceOrders ==
  ASSUME NEW G, IsFiniteSet(G), NEW n \in Nat, NEW key \in [G -> Keys(n)], NEW q \in G, NEW r \in G
  PROVE  /\ PlaceOf(G, key, q) \in Nat
         /\ PlaceOf(G, key, q) < PlaceOf(G, key, r) <=> Better(key[q], key[r])
<1> DEFINE Ahead(x) == {y \in G : Better(key[y], key[x])}
<1>1. \A x \in G : IsFiniteSet(Ahead(x)) /\ Cardinality(Ahead(x)) \in Nat
  <2> SUFFICES ASSUME NEW x \in G PROVE IsFiniteSet(Ahead(x)) /\ Cardinality(Ahead(x)) \in Nat
    OBVIOUS
  <2>1. IsFiniteSet(Ahead(x))
    <3>1. Ahead(x) \in SUBSET G
      OBVIOUS
    <3> QED BY <3>1, FS_Subset
  <2> QED BY <2>1, FS_CardinalityType
<1>2. ASSUME NEW x \in G, NEW y \in G, Better(key[x], key[y])
      PROVE  Ahead(x) \subseteq Ahead(y) /\ x \in Ahead(y) /\ x \notin Ahead(x)
  <2>1. \A z \in Ahead(x) : Better(key[z], key[y])
    BY <1>2, BetterTransitive
  <2>2. ~ Better(key[x], key[x])
    BY BetterOrders
  <2> QED BY <1>2, <2>1, <2>2
<1>3. ASSUME Better(key[q], key[r]) PROVE Cardinality(Ahead(q)) < Cardinality(Ahead(r))
  <2>1. Ahead(q) \in SUBSET (Ahead(r) \ {q}) /\ q \in Ahead(r)
    BY <1>2, <1>3
  <2>2. IsFiniteSet(Ahead(r) \ {q}) /\ Cardinality(Ahead(r) \ {q}) = Cardinality(Ahead(r)) - 1
    <3> HIDE DEF Ahead
    <3> QED BY <1>1, <2>1, FS_RemoveElement
  <2>3. Cardinality(Ahead(q)) <= Cardinality(Ahead(r) \ {q})
    <3> HIDE DEF Ahead
    <3> QED BY <2>1, <2>2, FS_Subset
  <2> HIDE DEF Ahead
  <2> QED BY <1>1, <2>2, <2>3
<1>4. ASSUME ~ Better(key[q], key[r]) PROVE Cardinality(Ahead(r)) <= Cardinality(Ahead(q))
  <2>1. key[q] = key[r] \/ Better(key[r], key[q])
    BY <1>4, BetterOrders
  <2>2. Ahead(r) \in SUBSET Ahead(q)
    BY <1>2, <2>1
  <2> HIDE DEF Ahead
  <2> QED BY <1>1, <2>2, FS_Subset
<1>5. PlaceOf(G, key, q) = 1 + Cardinality(Ahead(q)) /\ PlaceOf(G, key, r) = 1 + Cardinality(Ahead(r))
  BY DEF PlaceOf
<1> HIDE DEF Ahead
<1> QED BY <1>1, <1>3, <1>4, <1>5

-----------------------------------------------------------------------------
(* The table.                                                              *)

Result == [home : Registered, away : Registered, hs : Nat, as : Nat,
           winner : Nat, walkover : BOOLEAN]
Played(M) == IsFiniteSet(M) /\ M \subseteq Result
TableTyped == Played(results) /\ out \subseteq Registered /\ seeds \in [Registered -> Int]

LEMMA ColumnsAreNumbers ==
  ASSUME NEW M, Played(M), NEW p
  PROVE  /\ Points(M, p) \in Int /\ ScoreFor(M, p) \in Int
         /\ Difference(M, p) \in Int /\ Wins(M, p) \in Int
<1>1. Of(M, p) \in SUBSET M /\ IsFiniteSet(Of(M, p)) /\ Of(M, p) \subseteq Result
  <2>1. Of(M, p) \in SUBSET M
    BY DEF Of
  <2> QED BY <2>1, FS_Subset DEF Played
<1>2. \A m \in Result : /\ m.hs \in Nat /\ m.as \in Nat /\ m.hs + m.as \in Int
                        /\ For(m, p) \in Int /\ PointsFrom(m, p) \in Int
  BY DEF Result, For, PointsFrom, LosersPoints, WinPoints, DrawPoints, LossPoints, CloseLossPoints
<1>3. Points(M, p) \in Int
  <2> DEFINE f == [m \in Of(M, p) |-> PointsFrom(m, p)]
  <2>1. DOMAIN f = Of(M, p) /\ f \in [Of(M, p) -> Int]
    BY <1>1, <1>2
  <2> HIDE DEF f
  <2>2. SumFunction(f) \in Int
    BY <1>1, <2>1, SumIsWhole
  <2> QED BY <2>2 DEF Points, f
<1>4. ScoreFor(M, p) \in Int
  <2> DEFINE f == [m \in Of(M, p) |-> For(m, p)]
  <2>1. DOMAIN f = Of(M, p) /\ f \in [Of(M, p) -> Int]
    BY <1>1, <1>2
  <2> HIDE DEF f
  <2>2. SumFunction(f) \in Int
    BY <1>1, <2>1, SumIsWhole
  <2> QED BY <2>2 DEF ScoreFor, f
<1>5. Difference(M, p) \in Int
  <2> DEFINE f == [m \in Of(M, p) |-> m.hs + m.as]
  <2>1. DOMAIN f = Of(M, p) /\ f \in [Of(M, p) -> Int]
    BY <1>1, <1>2
  <2> HIDE DEF f
  <2>2. SumFunction(f) \in Int
    BY <1>1, <2>1, SumIsWhole
  <2>3. Difference(M, p) = 2 * ScoreFor(M, p) - SumFunction(f)
    BY DEF Difference, f
  <2> QED BY <1>4, <2>2, <2>3
<1>6. Wins(M, p) \in Int
  <2>1. {m \in Of(M, p) : m.winner = p} \in SUBSET Of(M, p)
    OBVIOUS
  <2>2. IsFiniteSet({m \in Of(M, p) : m.winner = p})
    BY <1>1, <2>1, FS_Subset
  <2> QED BY <2>2, FS_CardinalityType DEF Wins
<1> QED BY <1>3, <1>4, <1>5, <1>6

\* H2HRank is a place among the records of the sub-table.
Inner(M, G) == {m \in M : m.home \in G /\ m.away \in G}
RecordOf(M, q) == <<Points(M, q), Difference(M, q), ScoreFor(M, q)>>
Records(M, G) == [q \in G |-> RecordOf(Inner(M, G), q)]

LEMMA RecordsAreKeys ==
  ASSUME NEW M, Played(M), NEW G
  PROVE  Played(Inner(M, G)) /\ Records(M, G) \in [G -> Keys(3)]
<1>1. Played(Inner(M, G))
  <2>1. Inner(M, G) \in SUBSET M
    BY DEF Inner
  <2> QED BY <2>1, FS_Subset DEF Played
<1>2. ASSUME NEW q \in G PROVE RecordOf(Inner(M, G), q) \in Keys(3)
  BY <1>1, ColumnsAreNumbers DEF RecordOf, Keys
<1> QED BY <1>1, <1>2 DEF Records

LEMMA RankIsPlace ==
  ASSUME NEW M, NEW G, NEW p \in G
  PROVE  H2HRank(M, G, p) = PlaceOf(G, Records(M, G), p)
<1> DEFINE inner == {m \in M : m.home \in G /\ m.away \in G}
           record == [q \in G |-> <<Points(inner, q), Difference(inner, q), ScoreFor(inner, q)>>]
<1>1. record = Records(M, G)
  BY DEF Records, RecordOf, Inner
<1>2. H2HRank(M, G, p) = 1 + Cardinality({q \in G : Better(record[q], record[p])})
  BY DEF H2HRank
<1> HIDE DEF record
<1> QED BY <1>1, <1>2 DEF PlaceOf

\* An entrant without matches changes no record of the others.
LEMMA AbsentMovesNobody ==
  ASSUME NEW M, NEW G, NEW p, Of(M, p) = {}
  PROVE  \A q \in G \ {p} : Records(M, G \ {p})[q] = Records(M, G)[q]
<1>1. Inner(M, G \ {p}) = Inner(M, G)
  BY DEF Inner, Of
<1> QED BY <1>1 DEF Records

\* The key of a row, as makeLess compares it.
Group(M, dq, p) == {q \in Rows(M, dq) : Points(M, q) = Points(M, p)}
Rank(M, dq, p) == PlaceOf(Group(M, dq, p), Records(M, Group(M, dq, p)), p)
RowKey(M, dq, p) == <<IF p \in dq THEN 0 ELSE 1, Points(M, p), -Rank(M, dq, p),
                      Difference(M, p), ScoreFor(M, p), Wins(M, p), -seeds[p], -p>>
RowKeys(M, dq) == [p \in Rows(M, dq) |-> RowKey(M, dq, p)]

LEMMA TableIsPlaces ==
  ASSUME NEW M, NEW dq
  PROVE  Table(M, dq) = [p \in Rows(M, dq) |-> PlaceOf(Rows(M, dq), RowKeys(M, dq), p)]
<1> DEFINE R == Rows(M, dq)
           pts == [p \in R |-> Points(M, p)]
           key == [p \in R |-> <<IF p \in dq THEN 0 ELSE 1, pts[p], -H2HRank(M, TiedWith(R, dq, pts, p), p),
                                 Difference(M, p), ScoreFor(M, p), Wins(M, p), -seeds[p], -p>>]
<1>1. \A p \in R : key[p] = RowKey(M, dq, p)
  <2> SUFFICES ASSUME NEW p \in R PROVE key[p] = RowKey(M, dq, p)
    OBVIOUS
  <2>1. TiedWith(R, dq, pts, p) = Group(M, dq, p)
    BY DEF TiedWith, Group
  <2>2. p \in Group(M, dq, p)
    BY DEF Group
  <2>3. H2HRank(M, Group(M, dq, p), p) = Rank(M, dq, p)
    BY <2>2, RankIsPlace DEF Rank
  <2>4. key[p] = <<IF p \in dq THEN 0 ELSE 1, Points(M, p), -H2HRank(M, Group(M, dq, p), p),
                   Difference(M, p), ScoreFor(M, p), Wins(M, p), -seeds[p], -p>>
    BY <2>1
  <2> QED BY <2>3, <2>4 DEF RowKey
<1>2. key = RowKeys(M, dq)
  <2>1. DOMAIN key = R
    OBVIOUS
  <2> QED BY <1>1 DEF RowKeys
<1>3. Table(M, dq) = [p \in R |-> 1 + Cardinality({q \in R : Better(key[q], key[p])})]
  BY DEF Table
<1> HIDE DEF key
<1> QED BY <1>2, <1>3 DEF PlaceOf

LEMMA GroupIsFinite ==
  ASSUME TableTyped, NEW dq, NEW p
  PROVE  IsFiniteSet(Rows(results, dq)) /\ IsFiniteSet(Group(results, dq, p))
<1>1. Rows(results, dq) \in SUBSET Registered /\ Group(results, dq, p) \in SUBSET Registered
  BY DEF Rows, Group
<1> QED BY <1>1, FS_Subset, StandingsAssumption

LEMMA RankOrders ==
  ASSUME TableTyped, NEW dq, NEW q \in Rows(results, dq), NEW r \in Rows(results, dq),
         Points(results, q) = Points(results, r), NEW G, G = Group(results, dq, q)
  PROVE  /\ Rank(results, dq, q) \in Nat
         /\ Rank(results, dq, q) < Rank(results, dq, r)
              <=> Better(Records(results, G)[q], Records(results, G)[r])
<1>1. Group(results, dq, r) = G /\ q \in G /\ r \in G
  BY DEF Group
<1>2. IsFiniteSet(G)
  BY GroupIsFinite
<1>3. Records(results, G) \in [G -> Keys(3)]
  BY RecordsAreKeys DEF TableTyped
<1>4. Rank(results, dq, q) = PlaceOf(G, Records(results, G), q) /\ Rank(results, dq, r) = PlaceOf(G, Records(results, G), r)
  BY <1>1 DEF Rank
<1> QED BY <1>1, <1>2, <1>3, <1>4, PlaceOrders

LEMMA TableKeys ==
  ASSUME TableTyped, NEW dq
  PROVE  RowKeys(results, dq) \in [Rows(results, dq) -> Keys(8)]
<1>1. ASSUME NEW p \in Rows(results, dq) PROVE RowKey(results, dq, p) \in Keys(8)
  <2>1. Rank(results, dq, p) \in Nat
    BY RankOrders
  <2>2. p \in Int /\ seeds[p] \in Int
    BY StandingsAssumption DEF TableTyped, Rows
  <2>3. /\ Points(results, p) \in Int /\ ScoreFor(results, p) \in Int
        /\ Difference(results, p) \in Int /\ Wins(results, p) \in Int
    BY ColumnsAreNumbers DEF TableTyped
  <2>4. (IF p \in dq THEN 0 ELSE 1) \in Int /\ -Rank(results, dq, p) \in Int /\ -seeds[p] \in Int /\ -p \in Int
    BY <2>1, <2>2
  <2> QED BY <2>3, <2>4 DEF RowKey, Keys
<1> QED BY <1>1 DEF RowKeys

\* Places are ordered as the keys of the rows.
LEMMA TableOrders ==
  ASSUME TableTyped, NEW dq, NEW q \in Rows(results, dq), NEW r \in Rows(results, dq)
  PROVE  Table(results, dq)[q] < Table(results, dq)[r]
           <=> Better(RowKey(results, dq, q), RowKey(results, dq, r))
<1>1. /\ Table(results, dq)[q] = PlaceOf(Rows(results, dq), RowKeys(results, dq), q)
      /\ Table(results, dq)[r] = PlaceOf(Rows(results, dq), RowKeys(results, dq), r)
  BY TableIsPlaces
<1>2. RowKeys(results, dq)[q] = RowKey(results, dq, q) /\ RowKeys(results, dq)[r] = RowKey(results, dq, r)
  BY DEF RowKeys
<1> QED BY <1>1, <1>2, GroupIsFinite, TableKeys, PlaceOrders

\* Keys that differ from others in the third place only, and there keep the
\* order of those that agree in the second, are ordered as the others are.
SameButThird(a, b) == \A i \in 1..8 : i # 3 => a[i] = b[i]

LEMMA ShiftKeepsOrder ==
  ASSUME NEW a \in Keys(8), NEW b \in Keys(8), NEW c \in Keys(8), NEW d \in Keys(8),
         SameButThird(a, c), SameButThird(b, d),
         a[2] = b[2] => (a[3] > b[3] <=> c[3] > d[3]) /\ (b[3] > a[3] <=> d[3] > c[3]),
         Better(a, b)
  PROVE  Better(c, d)
<1>0. /\ DOMAIN a = 1..8 /\ DOMAIN c = 1..8
      /\ \A i \in 1..8 : a[i] \in Int /\ b[i] \in Int /\ c[i] \in Int /\ d[i] \in Int
  BY DEF Keys
<1>1. PICK i \in 1..8 : a[i] > b[i] /\ \A j \in 1..(i - 1) : a[j] = b[j]
  BY <1>0 DEF Better
<1>2. \A j \in 1..(i - 1) : c[j] = d[j]
  <2> SUFFICES ASSUME NEW j \in 1..(i - 1) PROVE c[j] = d[j]
    OBVIOUS
  <2>1. j \in 1..8 /\ a[j] = b[j]
    BY <1>1
  <2>2. CASE j # 3
    BY <2>1, <2>2 DEF SameButThird
  <2>3. CASE j = 3
    <3>1. 2 \in 1..(i - 1)
      BY <2>3
    <3>2. a[2] = b[2]
      BY <1>1, <3>1
    <3> QED BY <1>0, <2>1, <2>3, <3>2
  <2> QED BY <2>2, <2>3
<1>3. c[i] > d[i]
  <2>1. CASE i # 3
    BY <1>1, <2>1 DEF SameButThird
  <2>2. CASE i = 3
    <3>1. 2 \in 1..(i - 1)
      BY <2>2
    <3> QED BY <1>1, <2>2, <3>1
  <2> QED BY <2>1, <2>2
<1> QED BY <1>0, <1>2, <1>3 DEF Better

\* A disqualification drops at most the entrant it is about, one that never played.
LEMMA RowsAfter ==
  ASSUME NEW p \in Registered, p \notin out
  PROVE  \/ Rows(results, out \cup {p}) = Rows(results, out)
         \/ Rows(results, out \cup {p}) = Rows(results, out) \ {p} /\ Of(results, p) = {}
<1>1. CASE Of(results, p) = {}
  BY <1>1 DEF Rows
<1>2. CASE Of(results, p) # {}
  BY <1>2 DEF Rows
<1> QED BY <1>1, <1>2

LEMMA RanksCompare ==
  ASSUME TableTyped, NEW p \in Registered, p \notin out,
         NEW q \in Rows(results, out) \ {p}, NEW r \in Rows(results, out) \ {p},
         Points(results, q) = Points(results, r)
  PROVE  Rank(results, out, q) < Rank(results, out, r)
           <=> Rank(results, out \cup {p}, q) < Rank(results, out \cup {p}, r)
<1> DEFINE dq == out \cup {p}
           G == Group(results, out, q)
           H == Group(results, dq, q)
<1>1. q \in Rows(results, dq) /\ r \in Rows(results, dq)
  BY RowsAfter
<1>2. q \in G \ {p} /\ r \in G \ {p}
  BY DEF Group
<1>3. Records(results, H)[q] = Records(results, G)[q] /\ Records(results, H)[r] = Records(results, G)[r]
  <2>1. CASE Rows(results, dq) = Rows(results, out)
    BY <2>1 DEF Group
  <2>2. CASE Rows(results, dq) = Rows(results, out) \ {p} /\ Of(results, p) = {}
    <3>1. H = G \ {p}
      BY <2>2 DEF Group
    <3> HIDE DEF H, G
    <3> QED BY <1>2, <2>2, <3>1, AbsentMovesNobody
  <2> QED BY <2>1, <2>2, RowsAfter
<1> HIDE DEF dq
<1> QED BY <1>1, <1>3, RankOrders DEF dq

LEMMA OthersCompare ==
  ASSUME TableTyped, NEW p \in Registered, p \notin out,
         NEW q \in Rows(results, out) \ {p}, NEW r \in Rows(results, out) \ {p}
  PROVE  Better(RowKey(results, out, q), RowKey(results, out, r))
           <=> Better(RowKey(results, out \cup {p}, q), RowKey(results, out \cup {p}, r))
<1> DEFINE dq == out \cup {p}
           a == RowKey(results, out, q)
           b == RowKey(results, out, r)
           c == RowKey(results, dq, q)
           d == RowKey(results, dq, r)
<1>1. q \in Rows(results, dq) /\ r \in Rows(results, dq)
  BY RowsAfter
<1>2. a \in Keys(8) /\ b \in Keys(8) /\ c \in Keys(8) /\ d \in Keys(8)
  BY <1>1, TableKeys DEF RowKeys
<1>3. SameButThird(a, c) /\ SameButThird(b, d)
  BY DEF SameButThird, RowKey
<1>4. a[2] = Points(results, q) /\ b[2] = Points(results, r) /\ c[2] = a[2] /\ d[2] = b[2]
  BY DEF RowKey
<1>5. /\ a[3] = -Rank(results, out, q) /\ b[3] = -Rank(results, out, r)
      /\ c[3] = -Rank(results, dq, q) /\ d[3] = -Rank(results, dq, r)
  BY DEF RowKey
<1>6. /\ Rank(results, out, q) \in Nat /\ Rank(results, out, r) \in Nat
      /\ Rank(results, dq, q) \in Nat /\ Rank(results, dq, r) \in Nat
  BY <1>1, RankOrders
<1>7. a[2] = b[2] => (a[3] > b[3] <=> c[3] > d[3]) /\ (b[3] > a[3] <=> d[3] > c[3])
  <2> SUFFICES ASSUME Points(results, q) = Points(results, r)
               PROVE  (a[3] > b[3] <=> c[3] > d[3]) /\ (b[3] > a[3] <=> d[3] > c[3])
    BY <1>4
  <2>1. /\ Rank(results, out, q) < Rank(results, out, r) <=> Rank(results, dq, q) < Rank(results, dq, r)
        /\ Rank(results, out, r) < Rank(results, out, q) <=> Rank(results, dq, r) < Rank(results, dq, q)
    BY RanksCompare
  <2> HIDE DEF a, b, c, d, dq
  <2> QED BY <1>5, <1>6, <2>1
<1>8. SameButThird(c, a) /\ SameButThird(d, b)
  BY <1>3 DEF SameButThird
<1> HIDE DEF a, b, c, d, dq
<1>9. Better(a, b) => Better(c, d)
  BY <1>2, <1>3, <1>7, ShiftKeepsOrder
<1>10. c[2] = d[2] => (c[3] > d[3] <=> a[3] > b[3]) /\ (d[3] > c[3] <=> b[3] > a[3])
  BY <1>4, <1>7
<1>11. Better(c, d) => Better(a, b)
  BY <1>2, <1>8, <1>10, ShiftKeepsOrder
<1> QED BY <1>9, <1>11 DEF a, b, c, d, dq

\* What OthersKeepPlace asks of one disqualification.
KeptPlace(p, old, new) ==
  LET others == (DOMAIN old) \ {p}
  IN /\ others \subseteq DOMAIN new
     /\ \A q, r \in others : old[q] < old[r] <=> new[q] < new[r]
     /\ p \in DOMAIN new => \A q \in others \ out : new[q] < new[p]

LEMMA PlacesKept ==
  ASSUME TableTyped, NEW p \in Registered, p \notin out
  PROVE  KeptPlace(p, Table(results, out), Table(results, out \cup {p}))
<1> DEFINE dq == out \cup {p}
           old == Table(results, out)
           new == Table(results, dq)
           others == Rows(results, out) \ {p}
<1>1. DOMAIN old = Rows(results, out) /\ DOMAIN new = Rows(results, dq)
  BY TableIsPlaces
<1>2. others \subseteq Rows(results, dq)
  BY RowsAfter
<1>3. ASSUME NEW q \in others, NEW r \in others PROVE old[q] < old[r] <=> new[q] < new[r]
  <2>1. old[q] < old[r] <=> Better(RowKey(results, out, q), RowKey(results, out, r))
    BY TableOrders
  <2>2. new[q] < new[r] <=> Better(RowKey(results, dq, q), RowKey(results, dq, r))
    BY <1>2, TableOrders
  <2> QED BY <2>1, <2>2, OthersCompare
<1>4. ASSUME p \in Rows(results, dq), NEW q \in others \ out PROVE new[q] < new[p]
  <2>1. RowKey(results, dq, q) \in Keys(8) /\ RowKey(results, dq, p) \in Keys(8)
    BY <1>2, <1>4, TableKeys DEF RowKeys
  <2>2. RowKey(results, dq, q)[1] = 1 /\ RowKey(results, dq, p)[1] = 0
    BY DEF RowKey
  <2>3. Better(RowKey(results, dq, q), RowKey(results, dq, p))
    <3> DEFINE a == RowKey(results, dq, q)
               b == RowKey(results, dq, p)
    <3>1. 1 \in DOMAIN a
      BY <2>1 DEF Keys
    <3> HIDE DEF a, b
    <3>2. a[1] > b[1] /\ 1..(1 - 1) = {}
      BY <2>2 DEF a, b
    <3>3. Better(a, b)
      BY <3>1, <3>2 DEF Better
    <3> QED BY <3>3 DEF a, b
  <2> QED BY <1>2, <1>4, <2>3, TableOrders
<1> HIDE DEF dq, old, new
<1>5. KeptPlace(p, old, new)
  BY <1>1, <1>2, <1>3, <1>4 DEF KeptPlace
<1> QED BY <1>5 DEF dq, old, new

LEMMA TableStays == TableTyped /\ [TableNext]_tableVars => TableTyped'
<1> SUFFICES ASSUME TableTyped, [TableNext]_tableVars PROVE TableTyped'
  OBVIOUS
<1>1. ASSUME NEW m \in Result, results' = results \cup {m}, UNCHANGED <<out, seeds>>
      PROVE  TableTyped'
  BY <1>1, FS_AddElement DEF TableTyped, Played
<1>2. ASSUME NEW a \in Registered, NEW b \in Registered, NEW hs \in 0..MaxScore, NEW aws \in 0..MaxScore,
             NEW w \in Winners(a, b, hs, aws), Complete(a, b, hs, aws, w)
      PROVE  TableTyped'
  <2>1. hs \in Nat /\ aws \in Nat /\ w \in Nat
    BY StandingsAssumption DEF Winners
  <2>2. [home |-> a, away |-> b, hs |-> hs, as |-> aws, winner |-> w, walkover |-> FALSE] \in Result
    BY <2>1 DEF Result
  <2> QED BY <1>1, <1>2, <2>2 DEF Complete
<1>3. ASSUME NEW a \in Registered, NEW b \in Registered, NEW w \in {a, b}, Walkover(a, b, w)
      PROVE  TableTyped'
  <2>1. w \in Nat
    BY StandingsAssumption
  <2>2. [home |-> a, away |-> b, hs |-> 0, as |-> 0, winner |-> w, walkover |-> TRUE] \in Result
    BY <2>1 DEF Result
  <2> QED BY <1>1, <1>3, <2>2 DEF Walkover
<1>4. ASSUME NEW p \in Registered, Disqualify(p) PROVE TableTyped'
  BY <1>4 DEF Disqualify, TableTyped
<1>5. CASE UNCHANGED tableVars
  BY <1>5 DEF tableVars, TableTyped
<1> QED BY <1>2, <1>3, <1>4, <1>5 DEF TableNext

LEMMA TableBegins == TableInit => TableTyped
BY StandingsAssumption, FS_EmptySet DEF TableInit, TableTyped, Played

LEMMA PlacesStep ==
  ASSUME TableTyped, [TableNext]_tableVars, NEW p \in out' \ out
  PROVE  KeptPlace(p, Table(results, out), Table(results, out'))
<1>1. PICK r \in Registered : Disqualify(r)
  BY DEF TableNext, Complete, Walkover, tableVars
<1>2. p = r /\ p \notin out /\ out' = out \cup {p}
  BY <1>1 DEF Disqualify
<1>3. KeptPlace(p, Table(results, out), Table(results, out \cup {p}))
  BY <1>1, <1>2, PlacesKept
<1> QED BY <1>2, <1>3

\* "results preserved, but ranked last" (Compute, makeLess): for any entrants,
\* scores and seeds a disqualification moves one entrant below those who stay,
\* and keeps the order of the others.
THEOREM OthersAlwaysKeepPlace == TableSpec => OthersKeepPlace
<1> DEFINE Kept == \A p \in out' \ out : KeptPlace(p, Table(results, out), Table(results, out'))
<1>1. TableTyped /\ [TableNext]_tableVars => [Kept]_tableVars
  BY PlacesStep
<1>2. OthersKeepPlace <=> [][Kept]_tableVars
  BY DEF OthersKeepPlace, KeptPlace
<1> HIDE DEF Kept
<1> QED BY <1>1, <1>2, TableBegins, TableStays, PTL DEF TableSpec

-----------------------------------------------------------------------------
(* The bracket: powers of two.                                             *)

\* Powers of two, by the sets of sets they count.
LEMMA Doubles ==
  ASSUME NEW k \in Nat
  PROVE  2^k \in Nat /\ 2^(k + 1) = 2 * 2^k
<1> DEFINE S == SUBSET (1..k)
           T == {x \cup {k + 1} : x \in S}
           f == [x \in S |-> x \cup {k + 1}]
<1>1. IsFiniteSet(1..k) /\ Cardinality(1..k) = k /\ IsFiniteSet(1..(k + 1)) /\ Cardinality(1..(k + 1)) = k + 1
  BY FS_Interval
<1>2. IsFiniteSet(S) /\ Cardinality(S) = 2^k /\ Cardinality(SUBSET (1..(k + 1))) = 2^(k + 1)
  BY <1>1, FS_SUBSET
<1>3. \A x \in S : k + 1 \notin x
  OBVIOUS
<1>4. SUBSET (1..(k + 1)) = S \cup T
  <2>1. ASSUME NEW y \in SUBSET (1..(k + 1)) PROVE y \in S \cup T
    <3>1. CASE k + 1 \notin y
      <4>1. y \in S
        BY <3>1
      <4> QED BY <4>1
    <3>2. CASE k + 1 \in y
      <4>1. y \ {k + 1} \in S
        OBVIOUS
      <4>2. y = (y \ {k + 1}) \cup {k + 1}
        BY <3>2
      <4> HIDE DEF S
      <4> QED BY <4>1, <4>2
    <3> QED BY <3>1, <3>2
  <2>2. ASSUME NEW y \in S \cup T PROVE y \in SUBSET (1..(k + 1))
    OBVIOUS
  <2> QED BY <2>1, <2>2
<1>5. S \cap T = {}
  BY <1>3
<1>6. IsFiniteSet(T) /\ Cardinality(T) = Cardinality(S)
  <2>1. f \in [S -> T] /\ \A y \in T : \E x \in S : f[x] = y
    OBVIOUS
  <2>2. \A x, y \in S : f[x] = f[y] => x = y
    <3> SUFFICES ASSUME NEW x \in S, NEW y \in S, x \cup {k + 1} = y \cup {k + 1} PROVE x = y
      OBVIOUS
    <3>1. k + 1 \notin x /\ k + 1 \notin y
      BY <1>3
    <3> HIDE DEF S
    <3>2. \A z : z \in x <=> z \in y
      BY <3>1
    <3> QED BY <3>2
  <2> HIDE DEF S, T, f
  <2> QED BY <1>2, <2>1, <2>2, SameSize
<1>7. 2^(k + 1) = 2^k + 2^k
  <2> HIDE DEF S, T
  <2>1. Cardinality(S \cup T) = Cardinality(S) + Cardinality(T)
    BY <1>2, <1>5, <1>6, DisjointSum
  <2> QED BY <1>2, <1>4, <1>6, <2>1
<1>8. 2^k \in Nat
  <2> HIDE DEF S
  <2> QED BY <1>2, FS_CardinalityType
<1> QED BY <1>7, <1>8

LEMMA Halves ==
  ASSUME NEW k \in Nat, k >= 1
  PROVE  k - 1 \in Nat /\ 2^(k - 1) \in Nat /\ 2^k = 2 * 2^(k - 1)
<1>1. k - 1 \in Nat /\ (k - 1) + 1 = k
  OBVIOUS
<1>2. 2^(k - 1) \in Nat /\ 2^((k - 1) + 1) = 2 * 2^(k - 1)
  BY <1>1, Doubles
<1> QED BY <1>1, <1>2

LEMMA PowersGrow ==
  ASSUME NEW k \in Nat
  PROVE  2^k \in Nat /\ 2^k >= k + 1
<1> DEFINE Bad == {j \in Nat : ~ (2^j >= j + 1)}
<1>1. Bad = {}
  <2> SUFFICES ASSUME Bad # {} PROVE FALSE
    OBVIOUS
  <2>1. PICK j \in Bad : \A i \in Bad : j <= i
    <3>1. Bad \in SUBSET Nat
      OBVIOUS
    <3> HIDE DEF Bad
    <3> QED BY <3>1, LeastNumber
  <2>2. CASE j = 0
    <3>1. 2^0 = 1
      OBVIOUS
    <3> QED BY <2>1, <2>2, <3>1
  <2>3. CASE j # 0
    <3>1. j - 1 \in Nat /\ j - 1 \notin Bad
      BY <2>1, <2>3
    <3>2. 2^(j - 1) >= (j - 1) + 1
      BY <3>1
    <3>3. 2^(j - 1) \in Nat /\ 2^j = 2 * 2^(j - 1)
      BY <2>1, <2>3, Halves
    <3> QED BY <2>1, <2>3, <3>2, <3>3
  <2> QED BY <2>2, <2>3
<1> QED BY <1>1, Doubles

LEMMA PowersOrdered ==
  ASSUME NEW j \in Nat, NEW k \in Nat, j < k
  PROVE  2^j < 2^k
<1> DEFINE Bad == {i \in Nat : i > j /\ ~ (2^j < 2^i)}
<1>1. Bad = {}
  <2> SUFFICES ASSUME Bad # {} PROVE FALSE
    OBVIOUS
  <2>1. PICK i \in Bad : \A h \in Bad : i <= h
    <3>1. Bad \in SUBSET Nat
      OBVIOUS
    <3> HIDE DEF Bad
    <3> QED BY <3>1, LeastNumber
  <2>2. 2^(i - 1) \in Nat /\ 2^i = 2 * 2^(i - 1) /\ i - 1 \in Nat /\ 2^(i - 1) >= 1 /\ 2^j \in Nat
    <3>1. i \in Nat /\ i >= 1
      BY <2>1
    <3>2. i - 1 \in Nat /\ 2^(i - 1) \in Nat /\ 2^i = 2 * 2^(i - 1)
      BY <3>1, Halves
    <3>3. 2^(i - 1) >= (i - 1) + 1
      BY <3>2, PowersGrow
    <3> QED BY <3>1, <3>2, <3>3, Doubles
  <2>3. CASE i - 1 = j
    BY <2>1, <2>2, <2>3
  <2>4. CASE i - 1 # j
    <3>1. i - 1 \notin Bad /\ i - 1 > j
      BY <2>1, <2>2, <2>4
    <3> QED BY <2>1, <2>2, <3>1
  <2> QED BY <2>3, <2>4
<1> QED BY <1>1

\* The rounds of a bracket of n: the least power of two that holds them.
LEMMA RoundsHold ==
  ASSUME NEW n \in Nat, n >= 2, NEW R, R = Rounds(n)
  PROVE  R \in Nat /\ R >= 1 /\ 2^R >= n /\ 2^(R - 1) < n
<1> DEFINE K == {k \in 0..n : 2^k >= n}
<1>1. n \in K
  BY PowersGrow
<1>2. R \in K /\ \A k \in K : R <= k
  <2>1. K \in SUBSET Nat /\ K # {}
    BY <1>1
  <2>2. R = Min(K)
    BY DEF Rounds
  <2> HIDE DEF K
  <2> QED BY <2>1, <2>2, LeastNumber DEF Min
<1>3. R \in Nat /\ R >= 1 /\ 2^R >= n
  <2>1. 2^0 = 1
    OBVIOUS
  <2>2. R # 0
    <3> SUFFICES ASSUME R = 0 PROVE FALSE
      OBVIOUS
    <3>1. 0 \in K
      BY <1>2
    <3>2. 2^0 >= n
      BY <3>1
    <3> QED BY <2>1, <3>2
  <2> QED BY <1>2, <2>2
<1>4. 2^(R - 1) < n
  <2>1. R - 1 \in 0..n /\ 2^(R - 1) \in Nat
    BY <1>2, <1>3, Halves
  <2>2. R - 1 \notin K
    BY <1>2, <1>3
  <2> QED BY <2>1, <2>2
<1> QED BY <1>3, <1>4

LEMMA RoundsOfPower ==
  ASSUME NEW R \in Nat
  PROVE  Rounds(2^R) = R
<1> DEFINE K == {k \in 0..2^R : 2^k >= 2^R}
<1>1. 2^R \in Nat /\ 2^R >= R + 1
  BY PowersGrow
<1>2. R \in K
  BY <1>1
<1>3. \A k \in K : R <= k
  <2> SUFFICES ASSUME NEW k \in Nat, 2^k >= 2^R, k < R PROVE FALSE
    BY <1>1
  <2>1. 2^k < 2^R /\ 2^k \in Nat
    BY PowersOrdered, Doubles
  <2> QED BY <1>1, <2>1
<1>4. Rounds(2^R) = Min(K)
  BY DEF Rounds
<1>5. K \in SUBSET Nat /\ Min(K) \in K /\ \A k \in K : Min(K) <= k
  <2>1. K \in SUBSET Nat /\ K # {}
    BY <1>1, <1>2
  <2> HIDE DEF K
  <2> QED BY <2>1, LeastNumber DEF Min
<1>6. Min(K) = R
  <2> DEFINE x == Min(K)
  <2>1. x \in Nat /\ x <= R /\ R <= x
    <3> HIDE DEF K
    <3> QED BY <1>2, <1>3, <1>5
  <2> HIDE DEF x, K
  <2>2. x = R
    BY <2>1
  <2> QED BY <2>2 DEF x
<1> QED BY <1>4, <1>6

-----------------------------------------------------------------------------
(* The bracket: the order of the seeds.                                    *)

\* The labels of the 2^k leaves: each once, and each pair of leaves has a
\* label of the better half and the one that completes the sum.
Seeded(k, s) ==
  /\ s \in [1..2^k -> 1..2^k]
  /\ \A i, j \in 1..2^k : s[i] = s[j] => i = j
  /\ \A v \in 1..2^k : \E i \in 1..2^k : s[i] = v
  /\ k >= 1 => \A j \in 1..2^(k - 1) : s[2 * j - 1] \in 1..2^(k - 1) /\ s[2 * j] = 2^k + 1 - s[2 * j - 1]

NextSlots(k, c) == [i \in 1..2^k |-> Paired(c[(i + 1) \div 2], 2^k + 1)[IF i % 2 = 1 THEN 1 ELSE 2]]

\* Leaves 2j - 1 and 2j.
LEMMA LeafOfPair ==
  ASSUME NEW h \in Nat, NEW i \in 1..(2 * h)
  PROVE  LET j == (i + 1) \div 2
         IN j \in 1..h /\ (i % 2 = 1 => i = 2 * j - 1) /\ (i % 2 # 1 => i = 2 * j)
OBVIOUS

LEMMA PairOfLeaf ==
  ASSUME NEW h \in Nat, NEW j \in 1..h
  PROVE  /\ 2 * j - 1 \in 1..(2 * h) /\ ((2 * j - 1) + 1) \div 2 = j /\ (2 * j - 1) % 2 = 1
         /\ 2 * j \in 1..(2 * h) /\ (2 * j + 1) \div 2 = j /\ (2 * j) % 2 = 0
OBVIOUS

LEMMA SlotsStep ==
  ASSUME NEW k \in Nat, k >= 1, NEW c, Seeded(k - 1, c)
  PROVE  Seeded(k, NextSlots(k, c))
<1> DEFINE h == 2^(k - 1)
           p == 2^k
           s == NextSlots(k, c)
<1>1. h \in Nat /\ p = 2 * h /\ p \in Nat
  BY Halves
<1>2. /\ c \in [1..h -> 1..h]
      /\ \A i, j \in 1..h : c[i] = c[j] => i = j
      /\ \A v \in 1..h : \E i \in 1..h : c[i] = v
  BY DEF Seeded
<1>10. s = [i \in 1..p |-> s[i]]
  BY DEF NextSlots
<1>11. ASSUME NEW i \in 1..p, i % 2 = 1 PROVE s[i] = c[(i + 1) \div 2]
  BY <1>11 DEF NextSlots, Paired
<1>12. \A i \in 1..p : i % 2 # 1 => s[i] = p + 1 - c[(i + 1) \div 2]
  <2>2. ASSUME NEW i \in 1..p, i % 2 # 1 PROVE s[i] = p + 1 - c[(i + 1) \div 2]
    <3>1. (i + 1) \div 2 \in 1..h
      BY <1>1, LeafOfPair
    <3> DEFINE x == c[(i + 1) \div 2]
    <3>2. x \in Int
      <4> HIDE DEF h
      <4> QED BY <1>1, <1>2, <3>1
    <3>3. s[i] = Paired(x, p + 1)[2]
      BY <2>2 DEF NextSlots
    <3> HIDE DEF x, s, p
    <3>4. Paired(x, p + 1)[2] = p + 1 - x
      BY <1>1, <3>2 DEF Paired
    <3> QED BY <3>3, <3>4 DEF x
  <2> HIDE DEF p, s
  <2> QED BY <2>2
<1> HIDE DEF h, p, s
<1>4. ASSUME NEW j \in 1..h PROVE s[2 * j - 1] = c[j] /\ s[2 * j] = p + 1 - c[j] /\ c[j] \in 1..h
  <2>1. /\ 2 * j - 1 \in 1..p /\ ((2 * j - 1) + 1) \div 2 = j /\ (2 * j - 1) % 2 = 1
        /\ 2 * j \in 1..p /\ (2 * j + 1) \div 2 = j /\ (2 * j) % 2 = 0
    BY <1>1, PairOfLeaf
  <2>2. c[j] \in 1..h
    BY <1>2
  <2>3. s[2 * j - 1] = c[j]
    <3> DEFINE i == 2 * j - 1
    <3>1. i \in 1..p /\ i % 2 = 1 /\ (i + 1) \div 2 = j
      BY <2>1
    <3> HIDE DEF i
    <3>3. s[i] = c[(i + 1) \div 2]
      BY <1>11, <3>1
    <3>2. s[i] = c[j]
      BY <3>1, <3>3
    <3> QED BY <3>2 DEF i
  <2>4. s[2 * j] = p + 1 - c[j]
    <3> DEFINE i == 2 * j
    <3>1. i \in 1..p /\ i % 2 # 1 /\ (i + 1) \div 2 = j
      BY <2>1
    <3> HIDE DEF i
    <3>2. s[i] = p + 1 - c[j]
      BY <1>12, <3>1
    <3> QED BY <3>2 DEF i
  <2> QED BY <2>2, <2>3, <2>4
<1>5. ASSUME NEW i \in 1..p
      PROVE  \E j \in 1..h : (i = 2 * j - 1 /\ s[i] = c[j]) \/ (i = 2 * j /\ s[i] = p + 1 - c[j])
  <2> DEFINE j == (i + 1) \div 2
  <2>1. j \in 1..h /\ (i % 2 = 1 => i = 2 * j - 1) /\ (i % 2 # 1 => i = 2 * j)
    BY <1>1, LeafOfPair
  <2> HIDE DEF j
  <2> QED BY <1>4, <2>1
<1>6. s \in [1..p -> 1..p]
  <2>1. ASSUME NEW i \in 1..p PROVE s[i] \in 1..p
    <3>1. PICK j \in 1..h : (i = 2 * j - 1 /\ s[i] = c[j]) \/ (i = 2 * j /\ s[i] = p + 1 - c[j])
      BY <1>5
    <3>2. c[j] \in 1..h
      BY <1>2
    <3> QED BY <1>1, <3>1, <3>2
  <2>2. s = [i \in 1..p |-> s[i]]
    BY <1>10
  <2> QED BY <2>1, <2>2
<1>7. \A i, j \in 1..p : s[i] = s[j] => i = j
  <2> SUFFICES ASSUME NEW i \in 1..p, NEW j \in 1..p, s[i] = s[j] PROVE i = j
    OBVIOUS
  <2>1. PICK a \in 1..h : (i = 2 * a - 1 /\ s[i] = c[a]) \/ (i = 2 * a /\ s[i] = p + 1 - c[a])
    BY <1>5
  <2>2. PICK b \in 1..h : (j = 2 * b - 1 /\ s[j] = c[b]) \/ (j = 2 * b /\ s[j] = p + 1 - c[b])
    BY <1>5
  <2>3. c[a] \in 1..h /\ c[b] \in 1..h
    BY <1>2
  <2>4. c[a] = c[b] /\ ((i = 2 * a - 1 /\ j = 2 * b - 1) \/ (i = 2 * a /\ j = 2 * b))
    BY <1>1, <2>1, <2>2, <2>3
  <2>5. a = b
    BY <1>2, <2>4
  <2> QED BY <2>4, <2>5
<1>8. \A v \in 1..p : \E i \in 1..p : s[i] = v
  <2> SUFFICES ASSUME NEW v \in 1..p PROVE \E i \in 1..p : s[i] = v
    OBVIOUS
  <2>1. CASE v <= h
    <3>1. PICK j \in 1..h : c[j] = v
      BY <1>1, <1>2, <2>1
    <3>2. 2 * j - 1 \in 1..p
      BY <1>1
    <3> QED BY <1>4, <3>1, <3>2
  <2>2. CASE v > h
    <3>1. p + 1 - v \in 1..h
      BY <1>1, <2>2
    <3>2. PICK j \in 1..h : c[j] = p + 1 - v
      BY <1>2, <3>1
    <3>3. 2 * j \in 1..p /\ s[2 * j] = p + 1 - (p + 1 - v)
      <4>1. 2 * j \in 1..p
        BY <1>1
      <4>2. s[2 * j] = p + 1 - c[j]
        BY <1>4
      <4> QED BY <3>2, <4>1, <4>2
    <3>4. p + 1 - (p + 1 - v) = v
      BY <1>1
    <3> QED BY <3>3, <3>4
  <2> QED BY <1>1, <2>1, <2>2
<1>9. \A j \in 1..h : s[2 * j - 1] \in 1..h /\ s[2 * j] = p + 1 - s[2 * j - 1]
  BY <1>4
<1> QED BY <1>6, <1>7, <1>8, <1>9 DEF Seeded, h, p, s

IsSlots(R, st) == st = [k \in 0..R |-> IF k = 0 THEN <<1>> ELSE NextSlots(k, st[k - 1])]

LEMMA SlotsBegin == Seeded(0, <<1>>)
<1>1. 2^0 = 1
  OBVIOUS
<1>2. 1..2^0 = {1}
  BY <1>1
<1>3. <<1>> \in [{1} -> {1}] /\ <<1>>[1] = 1
  OBVIOUS
<1> QED BY <1>2, <1>3 DEF Seeded

LEMMA SlotsExist ==
  ASSUME NEW R \in Nat
  PROVE  \E st : IsSlots(R, st)
<1> DEFINE X == [k \in 0..R |-> {s \in [1..2^k -> 1..2^k] : Seeded(k, s)}]
           T == [k \in 0..R |-> [c \in X[k - 1] |-> NextSlots(k, c)]]
           a == 0
<1>1. <<1>> \in X[a]
  <2>1. <<1>> \in [1..2^0 -> 1..2^0]
    BY SlotsBegin DEF Seeded
  <2> QED BY <2>1, SlotsBegin
<1>2. ASSUME NEW k \in (a + 1)..R, NEW c \in X[k - 1] PROVE T[k][c] = NextSlots(k, c) /\ T[k][c] \in X[k]
  <2>1. k \in 0..R /\ k - 1 \in 0..R /\ k \in Nat /\ k >= 1
    OBVIOUS
  <2>2. Seeded(k - 1, c)
    <3>1. X[k - 1] = {s \in [1..2^(k - 1) -> 1..2^(k - 1)] : Seeded(k - 1, s)}
      BY <2>1
    <3> HIDE DEF X
    <3> QED BY <3>1
  <2>3. Seeded(k, NextSlots(k, c))
    BY <2>1, <2>2, SlotsStep
  <2>4. T[k][c] = NextSlots(k, c)
    <3> HIDE DEF X
    <3> QED BY <2>1
  <2>5. NextSlots(k, c) \in X[k]
    <3>1. NextSlots(k, c) \in [1..2^k -> 1..2^k]
      BY <2>3 DEF Seeded
    <3>2. X[k] = {s \in [1..2^k -> 1..2^k] : Seeded(k, s)}
      BY <2>1
    <3> HIDE DEF X
    <3> QED BY <2>3, <3>1, <3>2
  <2> HIDE DEF X, T
  <2> QED BY <2>4, <2>5
<1>3. PICK st : Recursive(st, a, R, <<1>>, T) /\ \A k \in a..R : st[k] \in X[k]
  <2>1. a \in Nat /\ a <= R
    OBVIOUS
  <2>2. \A k \in (a + 1)..R : \A c \in X[k - 1] : T[k][c] \in X[k]
    BY <1>2
  <2> HIDE DEF X, T, a
  <2> QED BY <1>1, <2>1, <2>2, RecursionExists
<1>4. \A k \in 0..R : k # 0 => T[k][st[k - 1]] = NextSlots(k, st[k - 1])
  <2> SUFFICES ASSUME NEW k \in 0..R, k # 0 PROVE T[k][st[k - 1]] = NextSlots(k, st[k - 1])
    OBVIOUS
  <2>1. k \in (a + 1)..R /\ k - 1 \in a..R
    OBVIOUS
  <2>2. st[k - 1] \in X[k - 1]
    <3> HIDE DEF X, T, a
    <3> QED BY <1>3, <2>1
  <2> HIDE DEF X, T, a
  <2> QED BY <1>2, <2>1, <2>2
<1>5. st = [k \in 0..R |-> IF k = 0 THEN <<1>> ELSE NextSlots(k, st[k - 1])]
  <2> HIDE DEF X, T
  <2> QED BY <1>3, <1>4 DEF Recursive
<1> QED BY <1>5 DEF IsSlots

LEMMA SlotsSeeded ==
  ASSUME NEW R \in Nat, NEW st, IsSlots(R, st)
  PROVE  Seeded(R, st[R])
<1> DEFINE Bad == {k \in 0..R : ~Seeded(k, st[k])}
<1>0. \A k \in 0..R : st[k] = IF k = 0 THEN <<1>> ELSE NextSlots(k, st[k - 1])
  BY DEF IsSlots
<1>1. Bad = {}
  <2> SUFFICES ASSUME Bad # {} PROVE FALSE
    OBVIOUS
  <2>1. PICK k \in Bad : \A j \in Bad : k <= j
    <3>1. Bad \in SUBSET Nat
      OBVIOUS
    <3> HIDE DEF Bad
    <3> QED BY <3>1, LeastNumber
  <2>2. k # 0
    BY <1>0, <2>1, SlotsBegin
  <2>3. k \in Nat /\ k >= 1 /\ k - 1 \in 0..R /\ k - 1 \notin Bad
    BY <2>1, <2>2
  <2>4. Seeded(k - 1, st[k - 1])
    BY <2>3
  <2>5. Seeded(k, NextSlots(k, st[k - 1]))
    BY <2>3, <2>4, SlotsStep
  <2>6. st[k] = NextSlots(k, st[k - 1])
    BY <1>0, <2>1, <2>2
  <2> QED BY <2>1, <2>5, <2>6
<1> QED BY <1>1

LEMMA SeedsInOrder ==
  ASSUME NEW R \in Nat
  PROVE  Seeded(R, SeedSlotOrder(R))
<1> DEFINE st == CHOOSE s : IsSlots(R, s)
<1>1. IsSlots(R, st)
  BY SlotsExist
<1>2. SeedSlotOrder(R) = st[R]
  BY DEF SeedSlotOrder, IsSlots, NextSlots
<1> HIDE DEF st
<1> QED BY <1>1, <1>2, SlotsSeeded

-----------------------------------------------------------------------------
(* The bracket: its matches, and where the slots are filled from.          *)

RealPair(L, j) == L[2 * j - 1] # Bye /\ L[2 * j] # Bye
PlacedOf(L, j) == IF L[2 * j - 1] = Bye THEN L[2 * j] ELSE L[2 * j - 1]
SlotAt(L, r, i) == IF r = 1 THEN L[i] ELSE IF r = 2 /\ ~RealPair(L, i) THEN PlacedOf(L, i) ELSE TBD
NodeAt(L, R, r, j) ==
  [round |-> r, pos |-> j, home |-> SlotAt(L, r, 2 * j - 1), away |-> SlotAt(L, r, 2 * j),
   next |-> IF r = R THEN TBD ELSE <<r + 1, (j + 1) \div 2>>,
   slot |-> IF j % 2 = 1 THEN 1 ELSE 2]
MatchesOf(L, R) ==
  {NodeAt(L, R, 1, j) : j \in {i \in 1..2^(R - 1) : RealPair(L, i)}}
    \cup UNION {{NodeAt(L, R, r, j) : j \in 1..2^(R - r)} : r \in 2..R}

LEMMA BracketIsMatches ==
  ASSUME NEW L, NEW R, R = Rounds(Len(L))
  PROVE  Bracket(L) = MatchesOf(L, R)
BY DEF Bracket, MatchesOf, NodeAt, SlotAt, PlacedOf, RealPair

\* A field F on the leaves of R rounds: no pair of byes, the first of a pair
\* is there, and everyone has one leaf.
Filled(L, R, F) ==
  /\ R \in Nat /\ R >= 1
  /\ \A i \in 1..2^R : L[i] # TBD /\ (L[i] # Bye => L[i] \in F)
  /\ \A j \in 1..2^(R - 1) : L[2 * j - 1] # Bye
  /\ R = 1 => RealPair(L, 1)
  /\ \A f \in F : f # Bye /\ f # TBD /\ \E i \in 1..2^R : L[i] = f
  /\ \A i, k \in 1..2^R : L[i] = L[k] /\ L[i] # Bye => i = k

IsNode(L, R, r, j) == r \in 1..R /\ j \in 1..2^(R - r) /\ (r = 1 => RealPair(L, j))

LEMMA NodesAre ==
  ASSUME NEW L, NEW R \in Nat, R >= 1
  PROVE  /\ \A r, j : IsNode(L, R, r, j) => NodeAt(L, R, r, j) \in MatchesOf(L, R)
         /\ \A m \in MatchesOf(L, R) : \E r, j : IsNode(L, R, r, j) /\ m = NodeAt(L, R, r, j)
<1>1. ASSUME NEW r, NEW j, IsNode(L, R, r, j) PROVE NodeAt(L, R, r, j) \in MatchesOf(L, R)
  <2>1. CASE r = 1
    BY <1>1, <2>1 DEF IsNode, MatchesOf
  <2>2. CASE r # 1
    <3>1. r \in 2..R /\ j \in 1..2^(R - r)
      BY <1>1, <2>2 DEF IsNode
    <3> QED BY <3>1 DEF MatchesOf
  <2> QED BY <2>1, <2>2
<1>2. ASSUME NEW m \in MatchesOf(L, R) PROVE \E r, j : IsNode(L, R, r, j) /\ m = NodeAt(L, R, r, j)
  <2>1. CASE \E j \in 1..2^(R - 1) : RealPair(L, j) /\ m = NodeAt(L, R, 1, j)
    <3>1. 1 \in 1..R
      OBVIOUS
    <3> QED BY <2>1, <3>1 DEF IsNode
  <2>2. CASE \E r \in 2..R : \E j \in 1..2^(R - r) : m = NodeAt(L, R, r, j)
    <3>1. \A r \in 2..R : r \in 1..R /\ r # 1
      OBVIOUS
    <3> QED BY <2>2, <3>1 DEF IsNode
  <2> QED BY <2>1, <2>2 DEF MatchesOf
<1> QED BY <1>1, <1>2

\* The slots of a round: two per node.
Number(k, s) == IF s = 1 THEN 2 * k - 1 ELSE 2 * k
LEMMA NumberFits ==
  ASSUME NEW k \in Nat, NEW s \in {1, 2}, NEW w \in Nat, k \in 1..w
  PROVE  /\ Number(k, s) \in 1..(2 * w)
         /\ (Number(k, s) + 1) \div 2 = k
         /\ (IF Number(k, s) % 2 = 1 THEN 1 ELSE 2) = s
BY DEF Number
LEMMA NumberOf ==
  ASSUME NEW w \in Nat, NEW i \in 1..(2 * w)
  PROVE  /\ (i + 1) \div 2 \in 1..w
         /\ Number((i + 1) \div 2, IF i % 2 = 1 THEN 1 ELSE 2) = i
BY DEF Number

Width(R, r) == 2^(R - r)   \* nodes of a round
LEMMA Widths ==
  ASSUME NEW R \in Nat, NEW r \in 1..R
  PROVE  /\ Width(R, r) \in Nat
         /\ r >= 2 => r - 1 \in 1..R /\ Width(R, r - 1) = 2 * Width(R, r)
         /\ r = 1 => 2^R = 2 * Width(R, r)
<1>1. R - r \in Nat
  OBVIOUS
<1>2. 2^(R - r) \in Nat /\ 2^((R - r) + 1) = 2 * 2^(R - r)
  BY <1>1, Doubles
<1>3. r >= 2 => r - 1 \in 1..R /\ R - (r - 1) = (R - r) + 1
  OBVIOUS
<1>4. r = 1 => R = (R - r) + 1
  OBVIOUS
<1>5. ASSUME r >= 2 PROVE Width(R, r - 1) = 2 * Width(R, r)
  BY <1>2, <1>3, <1>5 DEF Width
<1>6. ASSUME r = 1 PROVE 2^R = 2 * Width(R, r)
  BY <1>2, <1>4, <1>6 DEF Width
<1> QED BY <1>2, <1>3, <1>5, <1>6 DEF Width

SlotsIn(M) == {<<m, s>> : m \in M, s \in {1, 2}}
HolderOf(x) == IF x[2] = 1 THEN x[1].home ELSE x[1].away
FeedersIn(M, x) == {m \in M : m.next = <<x[1].round, x[1].pos>> /\ m.slot = x[2]}

LEMMA SlotsAre ==
  ASSUME NEW L, NEW R \in Nat, R >= 1, NEW x \in SlotsIn(MatchesOf(L, R))
  PROVE  \E r, k : \E s \in {1, 2} :
           /\ IsNode(L, R, r, k) /\ x = <<NodeAt(L, R, r, k), s>>
           /\ HolderOf(x) = SlotAt(L, r, Number(k, s))
           /\ x[1].round = r /\ x[1].pos = k /\ x[2] = s
<1>1. PICK m \in MatchesOf(L, R), s \in {1, 2} : x = <<m, s>>
  BY DEF SlotsIn
<1>2. PICK r, k : IsNode(L, R, r, k) /\ m = NodeAt(L, R, r, k)
  BY NodesAre
<1>3. m.round = r /\ m.pos = k /\ m.home = SlotAt(L, r, 2 * k - 1) /\ m.away = SlotAt(L, r, 2 * k)
  BY <1>2 DEF NodeAt
<1>4. x[1] = m /\ x[2] = s
  BY <1>1
<1>5. HolderOf(x) = SlotAt(L, r, Number(k, s))
  BY <1>3, <1>4 DEF HolderOf, Number
<1> QED BY <1>1, <1>2, <1>3, <1>4, <1>5

\* The leaves that a slot of the first or the second round names.
LEMMA LeafRange ==
  ASSUME NEW L, NEW R, NEW F, Filled(L, R, F), NEW j \in 1..2^(R - 1)
  PROVE  /\ 2 * j - 1 \in 1..2^R /\ 2 * j \in 1..2^R
         /\ L[2 * j - 1] # Bye /\ L[2 * j - 1] # TBD /\ L[2 * j] # TBD
         /\ ~RealPair(L, j) => L[2 * j] = Bye /\ PlacedOf(L, j) = L[2 * j - 1]
<1>1. R \in Nat /\ R >= 1
  BY DEF Filled
<1>2. 2^(R - 1) \in Nat /\ 2^R = 2 * 2^(R - 1)
  BY <1>1, Halves
<1>3. 2 * j - 1 \in 1..2^R /\ 2 * j \in 1..2^R
  BY <1>2
<1>4. L[2 * j - 1] # Bye /\ L[2 * j - 1] # TBD /\ L[2 * j] # TBD
  BY <1>3 DEF Filled
<1>5. ~RealPair(L, j) => L[2 * j] = Bye /\ PlacedOf(L, j) = L[2 * j - 1]
  BY <1>4 DEF RealPair, PlacedOf
<1> QED BY <1>3, <1>4, <1>5

\* The matches whose winner goes to slot s of node k of round r.
FedBy(M, r, k, s) == {m \in M : m.next = <<r, k>> /\ m.slot = s}

\* A slot waits for a winner exactly when it has a feeder, and then for one.
LEMMA FeedersAre ==
  ASSUME NEW L, NEW R, NEW F, Filled(L, R, F), NEW r, NEW k, IsNode(L, R, r, k), NEW s \in {1, 2}
  PROVE  Cardinality(FedBy(MatchesOf(L, R), r, k, s)) = IF SlotAt(L, r, Number(k, s)) = TBD THEN 1 ELSE 0
<1> DEFINE i == Number(k, s)
           S == FedBy(MatchesOf(L, R), r, k, s)
           Fed == r >= 2 /\ IsNode(L, R, r - 1, i)
<1>1. R \in Nat /\ R >= 1 /\ r \in 1..R /\ k \in 1..Width(R, r)
  BY DEF Filled, IsNode, Width
<1>2. Width(R, r) \in Nat /\ (r >= 2 => r - 1 \in 1..R /\ Width(R, r - 1) = 2 * Width(R, r)) /\ (r = 1 => 2^R = 2 * Width(R, r))
  BY <1>1, Widths
<1>3. i \in 1..(2 * Width(R, r)) /\ (i + 1) \div 2 = k /\ (IF i % 2 = 1 THEN 1 ELSE 2) = s
  BY <1>1, <1>2, NumberFits
<1>4. ASSUME NEW m \in S PROVE Fed /\ m = NodeAt(L, R, r - 1, i)
  <2>1. m \in MatchesOf(L, R) /\ m.next = <<r, k>> /\ m.slot = s
    BY DEF FedBy
  <2>2. PICK q, j : IsNode(L, R, q, j) /\ m = NodeAt(L, R, q, j)
    BY <1>1, <2>1, NodesAre
  <2>3. m.next = (IF q = R THEN TBD ELSE <<q + 1, (j + 1) \div 2>>) /\ m.slot = (IF j % 2 = 1 THEN 1 ELSE 2)
    BY <2>2 DEF NodeAt
  <2>4. q \in 1..R /\ j \in 1..Width(R, q)
    BY <2>2 DEF IsNode, Width
  <2>5. q # R
    <3> SUFFICES ASSUME q = R PROVE FALSE
      OBVIOUS
    <3>1. <<r, k>> = <<0, 0>>
      BY <2>1, <2>3 DEF TBD
    <3> QED BY <1>1, <3>1
  <2>6. r = q + 1 /\ k = (j + 1) \div 2
    BY <2>1, <2>3, <2>5
  <2>7. r >= 2 /\ r - 1 = q
    BY <2>4, <2>6
  <2>8. j \in 1..(2 * Width(R, r))
    BY <1>2, <2>4, <2>7
  <2>9. j = i
    <3>1. Number((j + 1) \div 2, IF j % 2 = 1 THEN 1 ELSE 2) = j
      BY <1>2, <2>8, NumberOf
    <3> QED BY <2>1, <2>3, <2>6, <3>1
  <2> HIDE DEF i
  <2> QED BY <2>2, <2>7, <2>9
<1>5. Fed => NodeAt(L, R, r - 1, i) \in S
  <2> SUFFICES ASSUME Fed PROVE NodeAt(L, R, r - 1, i) \in S
    OBVIOUS
  <2> DEFINE m == NodeAt(L, R, r - 1, i)
  <2>1. m \in MatchesOf(L, R)
    BY <1>1, NodesAre
  <2>2. m.next = (IF r - 1 = R THEN TBD ELSE <<(r - 1) + 1, (i + 1) \div 2>>) /\ m.slot = (IF i % 2 = 1 THEN 1 ELSE 2)
    BY DEF NodeAt
  <2>3. r - 1 # R /\ (r - 1) + 1 = r
    BY <1>1
  <2> HIDE DEF m, i
  <2>4. m.next = <<r, k>> /\ m.slot = s
    BY <1>3, <2>2, <2>3
  <2> QED BY <2>1, <2>4 DEF m, FedBy
<1>6. SlotAt(L, r, i) = TBD <=> Fed
  <2>1. CASE r = 1
    <3>1. L[i] # TBD
      BY <1>2, <1>3, <2>1 DEF Filled
    <3> HIDE DEF i
    <3> QED BY <2>1, <3>1 DEF SlotAt
  <2>2. CASE r = 2
    <3>1. i \in 1..2^(R - 1)
      BY <1>1, <1>2, <1>3, <2>2 DEF Width
    <3>2. 1 \in 1..R /\ r - 1 = 1
      BY <1>1, <2>2
    <3>3. Fed <=> RealPair(L, i)
      BY <2>2, <3>1, <3>2 DEF IsNode
    <3> HIDE DEF i, Fed
    <3>4. ~RealPair(L, i) => PlacedOf(L, i) # TBD
      BY <3>1, LeafRange
    <3> QED BY <2>2, <3>3, <3>4 DEF SlotAt
  <2>3. CASE r > 2
    <3>1. r >= 2 /\ r - 1 \in 1..R /\ r - 1 # 1 /\ r # 1 /\ r # 2
      BY <1>1, <2>3
    <3>2. i \in 1..2^(R - (r - 1))
      BY <1>2, <1>3, <3>1 DEF Width
    <3>3. Fed
      BY <3>1, <3>2 DEF IsNode
    <3> QED BY <3>1, <3>3 DEF SlotAt
  <2> QED BY <1>1, <2>1, <2>2, <2>3
<1>7. CASE Fed
  <2>1. S = {NodeAt(L, R, r - 1, i)}
    <3> HIDE DEF S, i
    <3> QED BY <1>4, <1>5, <1>7
  <2>2. Cardinality(S) = 1
    <3> HIDE DEF S, i
    <3> QED BY <2>1, FS_Singleton
  <2> HIDE DEF Fed
  <2> QED BY <1>6, <1>7, <2>2
<1>8. CASE ~Fed
  <2>1. S = {}
    <3> HIDE DEF S, i
    <3> QED BY <1>4, <1>8
  <2>2. Cardinality(S) = 0
    <3> HIDE DEF S, i
    <3> QED BY <2>1, FS_EmptySet
  <2> HIDE DEF Fed
  <2> QED BY <1>6, <1>8, <2>2
<1> QED BY <1>7, <1>8

\* Where an entrant can stand: on its leaf, or one round up when its pair has
\* a bye.
LEMMA Stands ==
  ASSUME NEW L, NEW R, NEW F, Filled(L, R, F), NEW f \in F,
         NEW i \in 1..2^R, L[i] = f,
         NEW r, NEW k, NEW s \in {1, 2}, IsNode(L, R, r, k), SlotAt(L, r, Number(k, s)) = f
  PROVE  /\ k = (Number(k, s) + 1) \div 2 /\ s = (IF Number(k, s) % 2 = 1 THEN 1 ELSE 2)
         /\ \/ r = 1 /\ Number(k, s) = i /\ RealPair(L, (i + 1) \div 2)
            \/ r = 2 /\ Number(k, s) = (i + 1) \div 2 /\ ~RealPair(L, (i + 1) \div 2)
<1> DEFINE n == Number(k, s)
<1>1. R \in Nat /\ R >= 1 /\ r \in 1..R /\ k \in 1..Width(R, r) /\ (r = 1 => RealPair(L, k))
  BY DEF Filled, IsNode, Width
<1>2. Width(R, r) \in Nat /\ (r >= 2 => r - 1 \in 1..R /\ Width(R, r - 1) = 2 * Width(R, r)) /\ (r = 1 => 2^R = 2 * Width(R, r))
  BY <1>1, Widths
<1>3. n \in 1..(2 * Width(R, r)) /\ (n + 1) \div 2 = k /\ (IF n % 2 = 1 THEN 1 ELSE 2) = s
  BY <1>1, <1>2, NumberFits
<1>4. f # Bye /\ f # TBD
  BY DEF Filled
<1>5. \A a, b \in 1..2^R : L[a] = L[b] /\ L[a] # Bye => a = b
  BY DEF Filled
<1>6. CASE r = 1
  <2>1. n \in 1..2^R /\ L[n] = f
    BY <1>2, <1>3, <1>6 DEF SlotAt
  <2> HIDE DEF n
  <2>2. n = i
    BY <1>4, <1>5, <2>1
  <2>3. RealPair(L, (i + 1) \div 2)
    BY <1>1, <1>3, <1>6, <2>2
  <2> QED BY <1>3, <1>6, <2>2, <2>3 DEF n
<1>7. CASE r = 2
  <2>1. n \in 1..2^(R - 1)
    BY <1>1, <1>2, <1>3, <1>7 DEF Width
  <2>2. ~RealPair(L, n) /\ PlacedOf(L, n) = f
    <3> HIDE DEF n
    <3> QED BY <1>4, <1>7 DEF SlotAt, n
  <2> HIDE DEF n
  <2>3. 2 * n - 1 \in 1..2^R /\ L[2 * n - 1] = f
    BY <2>1, <2>2, LeafRange
  <2>4. 2 * n - 1 = i
    BY <1>4, <1>5, <2>3
  <2>5. n = (i + 1) \div 2
    <3>1. n \in Nat
      BY <1>1, <1>2, <1>3, <1>7
    <3> QED BY <2>4, <3>1
  <2> QED BY <1>3, <1>7, <2>2, <2>5 DEF n
<1>8. CASE r > 2
  BY <1>1, <1>4, <1>8 DEF SlotAt
<1> QED BY <1>1, <1>6, <1>7, <1>8

LEMMA PlacedOnce ==
  ASSUME NEW L, NEW R, NEW F, Filled(L, R, F), NEW f \in F
  PROVE  Cardinality({x \in SlotsIn(MatchesOf(L, R)) : HolderOf(x) = f}) = 1
<1> DEFINE S == {x \in SlotsIn(MatchesOf(L, R)) : HolderOf(x) = f}
           Side(n) == IF n % 2 = 1 THEN 1 ELSE 2
<1>1. R \in Nat /\ R >= 1 /\ f # Bye /\ f # TBD /\ (R = 1 => RealPair(L, 1))
  BY DEF Filled
<1>2. PICK i \in 1..2^R : L[i] = f
  BY DEF Filled
<1> DEFINE j == (i + 1) \div 2
<1>3. 2^(R - 1) \in Nat /\ 2^R = 2 * 2^(R - 1)
  BY <1>1, Halves
<1>4. j \in 1..2^(R - 1) /\ Number(j, Side(i)) = i
  BY <1>2, <1>3, NumberOf
<1>5. ASSUME NEW x \in S
      PROVE  \E r, k : \E s \in {1, 2} : /\ x = <<NodeAt(L, R, r, k), s>>
               /\ k = (Number(k, s) + 1) \div 2 /\ s = Side(Number(k, s))
               /\ \/ r = 1 /\ Number(k, s) = i /\ RealPair(L, j)
                  \/ r = 2 /\ Number(k, s) = j /\ ~RealPair(L, j)
  <2>1. x \in SlotsIn(MatchesOf(L, R)) /\ HolderOf(x) = f
    OBVIOUS
  <2>2. PICK r, k : \E s \in {1, 2} :
          IsNode(L, R, r, k) /\ x = <<NodeAt(L, R, r, k), s>> /\ HolderOf(x) = SlotAt(L, r, Number(k, s))
    BY <1>1, <2>1, SlotsAre
  <2>3. PICK s \in {1, 2} :
          IsNode(L, R, r, k) /\ x = <<NodeAt(L, R, r, k), s>> /\ HolderOf(x) = SlotAt(L, r, Number(k, s))
    BY <2>2
  <2>4. /\ k = (Number(k, s) + 1) \div 2 /\ s = (IF Number(k, s) % 2 = 1 THEN 1 ELSE 2)
        /\ \/ r = 1 /\ Number(k, s) = i /\ RealPair(L, (i + 1) \div 2)
           \/ r = 2 /\ Number(k, s) = (i + 1) \div 2 /\ ~RealPair(L, (i + 1) \div 2)
    BY <1>2, <2>1, <2>3, Stands
  <2> QED BY <2>3, <2>4
<1>6. ASSUME NEW r, NEW k, NEW s \in {1, 2}, IsNode(L, R, r, k), SlotAt(L, r, Number(k, s)) = f
      PROVE  <<NodeAt(L, R, r, k), s>> \in S
  <2> DEFINE m == NodeAt(L, R, r, k)
  <2>1. m \in MatchesOf(L, R)
    BY <1>1, <1>6, NodesAre
  <2>2. m.home = SlotAt(L, r, 2 * k - 1) /\ m.away = SlotAt(L, r, 2 * k)
    BY DEF NodeAt
  <2> HIDE DEF m
  <2>3. <<m, s>> \in SlotsIn(MatchesOf(L, R))
    BY <2>1 DEF SlotsIn
  <2>4. HolderOf(<<m, s>>) = f
    BY <1>6, <2>2 DEF HolderOf, Number
  <2> QED BY <2>3, <2>4 DEF m
<1>7. \E x : S = {x}
  <2>1. CASE RealPair(L, j)
    <3> DEFINE x == <<NodeAt(L, R, 1, j), Side(i)>>
    <3>1. IsNode(L, R, 1, j) /\ SlotAt(L, 1, Number(j, Side(i))) = f
      <4> HIDE DEF j, Side
      <4> QED BY <1>1, <1>2, <1>4, <2>1 DEF IsNode, SlotAt
    <3>2. x \in S
      <4>1. Side(i) \in {1, 2}
        OBVIOUS
      <4> HIDE DEF j, Side, S
      <4> QED BY <1>6, <3>1, <4>1
    <3>3. ASSUME NEW y \in S PROVE y = x
      <4> HIDE DEF S, Side
      <4> QED BY <1>5, <2>1
    <3> HIDE DEF S, x
    <3> QED BY <3>2, <3>3
  <2>2. CASE ~RealPair(L, j)
    <3> DEFINE k == (j + 1) \div 2
               x == <<NodeAt(L, R, 2, k), Side(j)>>
    <3>1. R >= 2
      <4> SUFFICES ASSUME R = 1 PROVE FALSE
        BY <1>1
      <4>1. 2^0 = 1
        OBVIOUS
      <4>2. j = 1
        <5> HIDE DEF j
        <5> QED BY <1>4, <4>1
      <4> QED BY <1>1, <2>2, <4>2
    <3>2. Width(R, 2) \in Nat /\ Width(R, 1) = 2 * Width(R, 2) /\ 2 \in 1..R
      BY <1>1, <3>1, Widths
    <3>3. j \in 1..(2 * Width(R, 2))
      <4> HIDE DEF j
      <4> QED BY <1>4, <3>2 DEF Width
    <3>4. k \in 1..Width(R, 2) /\ Number(k, Side(j)) = j
      <4> HIDE DEF j
      <4> QED BY <3>2, <3>3, NumberOf
    <3>5. PlacedOf(L, j) = f
      <4>1. L[2 * j] = Bye /\ PlacedOf(L, j) = L[2 * j - 1]
        <5> HIDE DEF j
        <5> QED BY <1>4, <2>2, LeafRange
      <4>2. i = 2 * j - 1 \/ i = 2 * j
        BY <1>2, <1>3, LeafOfPair
      <4> HIDE DEF j
      <4> QED BY <1>1, <1>2, <4>1, <4>2
    <3>6. IsNode(L, R, 2, k) /\ SlotAt(L, 2, Number(k, Side(j))) = f
      <4> HIDE DEF j, Side, k
      <4> QED BY <2>2, <3>2, <3>4, <3>5 DEF IsNode, SlotAt, Width
    <3>7. x \in S
      <4>1. Side(j) \in {1, 2}
        OBVIOUS
      <4> HIDE DEF j, Side, S, k
      <4> QED BY <1>6, <3>6, <4>1
    <3>8. ASSUME NEW y \in S PROVE y = x
      <4> HIDE DEF S, Side
      <4> QED BY <1>5, <2>2
    <3> HIDE DEF S, x
    <3> QED BY <3>7, <3>8
  <2> QED BY <2>1, <2>2
<1> HIDE DEF S
<1>8. Cardinality(S) = 1
  BY <1>7, FS_Singleton
<1> QED BY <1>8 DEF S

\* The matches of a round, and of the last d rounds: 2^d - 1 of them.
RoundSet(L, R, r) == {NodeAt(L, R, r, j) : j \in 1..2^(R - r)}
LastRounds(L, R, d) == UNION {RoundSet(L, R, r) : r \in (R + 1 - d)..R}

LEMMA RoundCounted ==
  ASSUME NEW L, NEW R, NEW r, NEW J, IsFiniteSet(J)
  PROVE  LET S == {NodeAt(L, R, r, j) : j \in J}
         IN IsFiniteSet(S) /\ Cardinality(S) = Cardinality(J) /\ \A m \in S : m.round = r
<1> DEFINE S == {NodeAt(L, R, r, j) : j \in J}
           f == [j \in J |-> NodeAt(L, R, r, j)]
<1>1. f \in [J -> S] /\ \A y \in S : \E x \in J : f[x] = y
  OBVIOUS
<1>2. \A j : NodeAt(L, R, r, j).pos = j /\ NodeAt(L, R, r, j).round = r
  BY DEF NodeAt
<1>3. \A i, j \in J : f[i] = f[j] => i = j
  <2> SUFFICES ASSUME NEW i \in J, NEW j \in J, NodeAt(L, R, r, i) = NodeAt(L, R, r, j) PROVE i = j
    OBVIOUS
  <2> QED BY <1>2
<1>4. IsFiniteSet(S) /\ Cardinality(S) = Cardinality(J)
  <2> HIDE DEF S, f
  <2> QED BY <1>1, <1>3, SameSize
<1>5. \A m \in S : m.round = r
  BY <1>2
<1> QED BY <1>4, <1>5

LEMMA LastRoundsCounted ==
  ASSUME NEW L, NEW R \in Nat, NEW d \in 0..R
  PROVE  IsFiniteSet(LastRounds(L, R, d)) /\ Cardinality(LastRounds(L, R, d)) = 2^d - 1
<1> DEFINE Good(c) == IsFiniteSet(LastRounds(L, R, c)) /\ Cardinality(LastRounds(L, R, c)) = 2^c - 1
           Bad == {c \in 0..R : ~Good(c)}
<1>1. Good(0)
  <2>1. LastRounds(L, R, 0) = {}
    <3>1. (R + 1 - 0)..R = {}
      OBVIOUS
    <3> QED BY <3>1 DEF LastRounds
  <2>2. 2^0 = 1
    OBVIOUS
  <2>3. Cardinality({}) = 0 /\ IsFiniteSet({})
    BY FS_EmptySet
  <2> QED BY <2>1, <2>2, <2>3
<1>2. ASSUME NEW c \in 0..R, c + 1 \in 0..R, Good(c) PROVE Good(c + 1)
  <2> DEFINE A == LastRounds(L, R, c)
             B == RoundSet(L, R, R - c)
  <2>1. c \in Nat /\ R - (R - c) = c /\ R + 1 - (c + 1) = R - c
    OBVIOUS
  <2>2. 2^c \in Nat /\ 2^(c + 1) = 2 * 2^c
    BY <2>1, Doubles
  <2>3. IsFiniteSet(B) /\ Cardinality(B) = 2^c /\ \A m \in B : m.round = R - c
    <3>1. IsFiniteSet(1..2^c) /\ Cardinality(1..2^c) = 2^c
      BY <2>2, FS_Interval
    <3> DEFINE J == 1..2^c
               r == R - c
    <3>2. B = {NodeAt(L, R, r, j) : j \in J}
      BY <2>1 DEF RoundSet
    <3> HIDE DEF B, J, r
    <3>3. IsFiniteSet(J)
      BY <3>1 DEF J
    <3>4. IsFiniteSet(B) /\ Cardinality(B) = Cardinality(J) /\ \A m \in B : m.round = r
      BY <3>2, <3>3, RoundCounted
    <3> QED BY <3>1, <3>4 DEF J, r
  <2>4. \A m \in A : m.round > R - c
    <3> SUFFICES ASSUME NEW r \in (R + 1 - c)..R, NEW j, NEW m, m = NodeAt(L, R, r, j) PROVE m.round > R - c
      BY DEF LastRounds, RoundSet
    <3>1. m.round = r
      BY DEF NodeAt
    <3> QED BY <2>1, <3>1
  <2>5. A \cap B = {}
    <3> HIDE DEF A, B
    <3>1. R - c \in Int
      BY <2>1
    <3> QED BY <2>3, <2>4, <3>1
  <2>6. LastRounds(L, R, c + 1) = A \cup B
    <3>1. (R - c)..R = {R - c} \cup ((R + 1 - c)..R)
      BY <2>1
    <3> QED BY <2>1, <3>1 DEF LastRounds
  <2> HIDE DEF A, B
  <2>7. IsFiniteSet(A \cup B) /\ Cardinality(A \cup B) = Cardinality(A) + Cardinality(B)
    BY <1>2, <2>3, <2>5, DisjointSum DEF A
  <2>8. Cardinality(A) = 2^c - 1
    BY <1>2 DEF A
  <2>9. IsFiniteSet(LastRounds(L, R, c + 1)) /\ Cardinality(LastRounds(L, R, c + 1)) = Cardinality(A) + Cardinality(B)
    BY <2>6, <2>7
  <2>10. Cardinality(A) + Cardinality(B) = 2^(c + 1) - 1
    BY <2>2, <2>3, <2>8
  <2> QED BY <2>9, <2>10
<1>3. Bad = {}
  <2> SUFFICES ASSUME Bad # {} PROVE FALSE
    OBVIOUS
  <2>1. PICK c \in Bad : \A b \in Bad : c <= b
    <3>1. Bad \in SUBSET Nat
      OBVIOUS
    <3> HIDE DEF Bad
    <3> QED BY <3>1, LeastNumber
  <2> HIDE DEF Good
  <2>2. c # 0
    BY <1>1, <2>1
  <2>3. c - 1 \in 0..R /\ c - 1 \notin Bad /\ (c - 1) + 1 = c
    BY <2>1, <2>2
  <2>4. Good((c - 1) + 1)
    BY <1>2, <2>1, <2>3
  <2> QED BY <2>1, <2>3, <2>4
<1> QED BY <1>3

LEMMA MatchesSplit ==
  ASSUME NEW L, NEW R \in Nat, R >= 1
  PROVE  MatchesOf(L, R) =
           {NodeAt(L, R, 1, j) : j \in {i \in 1..2^(R - 1) : RealPair(L, i)}} \cup LastRounds(L, R, R - 1)
<1>1. (R + 1 - (R - 1))..R = 2..R
  OBVIOUS
<1> QED BY <1>1 DEF MatchesOf, LastRounds, RoundSet

\* An entrant more than matches: the leaves are the first of each pair and,
\* in a pair that is a match, the second.
LEMMA MatchesCounted ==
  ASSUME NEW L, NEW R, NEW F, Filled(L, R, F)
  PROVE  Cardinality(MatchesOf(L, R)) = Cardinality(F) - 1
<1> DEFINE H == 1..2^(R - 1)
           Reals == {i \in H : RealPair(L, i)}
           A == {NodeAt(L, R, 1, j) : j \in Reals}
           B == LastRounds(L, R, R - 1)
           Odd == {2 * j - 1 : j \in H}
           Evn == {2 * j : j \in Reals}
           Taken == {i \in 1..2^R : L[i] # Bye}
<1>1. R \in Nat /\ R >= 1 /\ R - 1 \in 0..R
  BY DEF Filled
<1>2. 2^(R - 1) \in Nat /\ 2^R = 2 * 2^(R - 1)
  BY <1>1, Halves
<1>3. IsFiniteSet(H) /\ Cardinality(H) = 2^(R - 1)
  <2> DEFINE h == 2^(R - 1)
  <2>1. h \in Int /\ 1 \in Int /\ h >= 1
    BY <1>2, PowersGrow, <1>1
  <2> HIDE DEF h
  <2>2. IsFiniteSet(1..h) /\ Cardinality(1..h) = h
    BY <2>1, FS_Interval
  <2> QED BY <2>2 DEF h
<1>4. IsFiniteSet(Reals) /\ Cardinality(Reals) \in Nat
  <2>1. IsFiniteSet(Reals)
    <3> HIDE DEF H
    <3> QED BY <1>3, FS_Subset
  <2> HIDE DEF Reals
  <2> QED BY <2>1, FS_CardinalityType
<1>5. IsFiniteSet(A) /\ Cardinality(A) = Cardinality(Reals) /\ \A m \in A : m.round = 1
  <2> HIDE DEF Reals
  <2> QED BY <1>4, RoundCounted
<1>6. IsFiniteSet(B) /\ Cardinality(B) = 2^(R - 1) - 1
  BY <1>1, LastRoundsCounted
<1>7. A \cap B = {}
  <2>1. \A m \in B : m.round # 1
    <3> SUFFICES ASSUME NEW r \in (R + 1 - (R - 1))..R, NEW j, NEW m, m = NodeAt(L, R, r, j) PROVE m.round # 1
      BY DEF LastRounds, RoundSet
    <3>1. m.round = r /\ r # 1
      BY <1>1 DEF NodeAt
    <3> QED BY <3>1
  <2> HIDE DEF A, B
  <2> QED BY <1>5, <2>1
<1>8. Cardinality(MatchesOf(L, R)) = Cardinality(Reals) + (2^(R - 1) - 1)
  <2>1. MatchesOf(L, R) = A \cup B
    BY <1>1, MatchesSplit
  <2> HIDE DEF A, B, Reals
  <2>2. Cardinality(A \cup B) = Cardinality(A) + Cardinality(B)
    BY <1>5, <1>6, <1>7, DisjointSum
  <2> QED BY <1>5, <1>6, <2>1, <2>2
<1>9. IsFiniteSet(Odd) /\ Cardinality(Odd) = 2^(R - 1)
  <2> DEFINE f == [j \in H |-> 2 * j - 1]
  <2>1. f \in [H -> Odd] /\ \A y \in Odd : \E x \in H : f[x] = y
    OBVIOUS
  <2>2. \A x, y \in H : f[x] = f[y] => x = y
    OBVIOUS
  <2> HIDE DEF f, H, Odd
  <2> QED BY <1>3, <2>1, <2>2, SameSize
<1>10. IsFiniteSet(Evn) /\ Cardinality(Evn) = Cardinality(Reals)
  <2> DEFINE f == [j \in Reals |-> 2 * j]
  <2>1. f \in [Reals -> Evn] /\ \A y \in Evn : \E x \in Reals : f[x] = y
    OBVIOUS
  <2>2. \A x, y \in Reals : f[x] = f[y] => x = y
    OBVIOUS
  <2> HIDE DEF f, Reals, Evn
  <2> QED BY <1>4, <2>1, <2>2, SameSize
<1>11. Odd \cap Evn = {}
  <2> SUFFICES ASSUME NEW i \in H, NEW j \in H, 2 * i - 1 = 2 * j PROVE FALSE
    OBVIOUS
  <2> QED OBVIOUS
<1>12. Taken = Odd \cup Evn
  <2>1. ASSUME NEW i \in Taken PROVE i \in Odd \cup Evn
    <3> DEFINE j == (i + 1) \div 2
    <3>1. j \in H /\ (i = 2 * j - 1 \/ i = 2 * j)
      BY <1>2, LeafOfPair
    <3>2. L[i] # Bye
      OBVIOUS
    <3> HIDE DEF j
    <3>3. CASE i = 2 * j - 1
      BY <3>1, <3>3
    <3>4. CASE i = 2 * j
      <4>1. RealPair(L, j)
        BY <3>1, <3>2, <3>4, LeafRange
      <4> QED BY <3>1, <3>4, <4>1
    <3> QED BY <3>1, <3>3, <3>4
  <2>2. ASSUME NEW j \in H PROVE 2 * j - 1 \in Taken
    BY LeafRange
  <2>3. ASSUME NEW j \in Reals PROVE 2 * j \in Taken
    <3>1. 2 * j \in 1..2^R
      BY LeafRange
    <3>2. L[2 * j] # Bye
      BY DEF RealPair
    <3> QED BY <3>1, <3>2
  <2> HIDE DEF Taken, H, Reals
  <2> QED BY <2>1, <2>2, <2>3
<1>13. IsFiniteSet(Taken) /\ Cardinality(Taken) = 2^(R - 1) + Cardinality(Reals)
  <2> HIDE DEF Odd, Evn, Taken, Reals
  <2>1. IsFiniteSet(Odd \cup Evn) /\ Cardinality(Odd \cup Evn) = Cardinality(Odd) + Cardinality(Evn)
    BY <1>9, <1>10, <1>11, DisjointSum
  <2> QED BY <1>9, <1>10, <1>12, <2>1
<1>14. Cardinality(F) = Cardinality(Taken)
  <2> DEFINE f == [i \in Taken |-> L[i]]
  <2>1. f \in [Taken -> F]
    BY DEF Filled
  <2>2. \A y \in F : \E x \in Taken : f[x] = y
    BY DEF Filled
  <2>3. \A x, y \in Taken : f[x] = f[y] => x = y
    BY DEF Filled
  <2> HIDE DEF f, Taken
  <2> QED BY <1>13, <2>1, <2>2, <2>3, SameSize
<1> HIDE DEF Taken, Reals
<1> QED BY <1>2, <1>4, <1>8, <1>13, <1>14

\* What BracketSound says of every bracket.
Sound(M, field) ==
  /\ Cardinality(M) = Cardinality(field) - 1
  /\ \A f \in field : Cardinality({x \in SlotsIn(M) : HolderOf(x) = f}) = 1
  /\ \A x \in SlotsIn(M) : Cardinality(FeedersIn(M, x)) = IF HolderOf(x) = TBD THEN 1 ELSE 0

LEMMA FilledIsSound ==
  ASSUME NEW L, NEW R, NEW F, Filled(L, R, F)
  PROVE  Sound(MatchesOf(L, R), F)
<1>1. ASSUME NEW x \in SlotsIn(MatchesOf(L, R))
      PROVE  Cardinality(FeedersIn(MatchesOf(L, R), x)) = IF HolderOf(x) = TBD THEN 1 ELSE 0
  <2>1. R \in Nat /\ R >= 1
    BY DEF Filled
  <2>2. PICK r, k : \E s \in {1, 2} :
          /\ IsNode(L, R, r, k) /\ HolderOf(x) = SlotAt(L, r, Number(k, s))
          /\ x[1].round = r /\ x[1].pos = k /\ x[2] = s
    BY <2>1, SlotsAre
  <2>3. PICK s \in {1, 2} :
          /\ IsNode(L, R, r, k) /\ HolderOf(x) = SlotAt(L, r, Number(k, s))
          /\ x[1].round = r /\ x[1].pos = k /\ x[2] = s
    BY <2>2
  <2>4. FeedersIn(MatchesOf(L, R), x) = FedBy(MatchesOf(L, R), r, k, s)
    BY <2>3 DEF FeedersIn, FedBy
  <2>5. Cardinality(FedBy(MatchesOf(L, R), r, k, s)) = IF SlotAt(L, r, Number(k, s)) = TBD THEN 1 ELSE 0
    BY <2>3, FeedersAre
  <2> QED BY <2>3, <2>4, <2>5
<1> QED BY <1>1, MatchesCounted, PlacedOnce DEF Sound

-----------------------------------------------------------------------------
(* The bracket: the leaves of a field in the order of the seeds.           *)

\* N different entrants.
IsField(E, N) ==
  /\ N \in Nat /\ N >= 2
  /\ E = [i \in 1..N |-> E[i]]
  /\ \A i, j \in 1..N : E[i] = E[j] => i = j
  /\ \A i \in 1..N : E[i] # Bye /\ E[i] # TBD

FieldOf(E, N) == {E[i] : i \in 1..N}
LeafOf(E, N, v) == IF v <= N THEN E[v] ELSE Bye

LEMMA LeavesAre ==
  ASSUME NEW E, NEW N, IsField(E, N)
  PROVE  /\ Leaves(E) = [i \in 1..2^Rounds(N) |-> LeafOf(E, N, SeedSlotOrder(Rounds(N))[i])]
         /\ Rounds(Len(Leaves(E))) = Rounds(N)
<1> DEFINE R == Rounds(N)
           s == SeedSlotOrder(R)
           L == Leaves(E)
           F == {E[i] : i \in 1..N}
<1>1. N \in Nat /\ N >= 2 /\ E = [i \in 1..N |-> E[i]]
  BY DEF IsField
<1>2. R \in Nat /\ 2^R \in Nat
  BY <1>1, RoundsHold, Doubles
<1>3. Len(E) = N
  <2>1. E \in Seq(F)
    <3>1. E \in [1..N -> F]
      BY <1>1
    <3> HIDE DEF F
    <3> QED BY <1>1, <3>1
  <2>2. DOMAIN E = 1..N
    BY <1>1
  <2> HIDE DEF F
  <2> QED BY <1>1, <2>1, <2>2
<1>4. DOMAIN s = 1..2^R
  <2>1. Seeded(R, s)
    BY <1>2, SeedsInOrder
  <2> HIDE DEF s
  <2> QED BY <2>1 DEF Seeded
<1>5. L = [i \in 1..2^R |-> LeafOf(E, N, s[i])]
  <2>1. L = [i \in DOMAIN s |-> IF s[i] <= N THEN E[s[i]] ELSE Bye]
    BY <1>3 DEF Leaves
  <2> HIDE DEF L, s, R
  <2> QED BY <1>4, <2>1 DEF LeafOf
<1>6. Len(L) = 2^R
  <2> DEFINE p == 2^R
             X == {LeafOf(E, N, s[i]) : i \in 1..p}
  <2>1. L \in [1..p -> X]
    <3> HIDE DEF L, s, R
    <3> QED BY <1>5
  <2> HIDE DEF L, X, p
  <2>2. p \in Nat
    BY <1>2 DEF p
  <2>3. L \in Seq(X) /\ DOMAIN L = 1..p
    BY <2>1, <2>2
  <2>4. Len(L) = p
    BY <2>2, <2>3
  <2> QED BY <2>4 DEF p
<1>7. Rounds(Len(L)) = R
  <2> HIDE DEF L
  <2>1. Rounds(2^R) = R
    <3> HIDE DEF R
    <3> QED BY <1>2, RoundsOfPower
  <2> HIDE DEF R
  <2> QED BY <1>6, <2>1
<1> QED BY <1>5, <1>7

\* The leaf of label v, in the terms of the order s of the labels.
LEMMA LeafFacts ==
  ASSUME NEW E, NEW N, IsField(E, N)
  PROVE  LET R == Rounds(N)
             s == SeedSlotOrder(R)
             L == Leaves(E)
         IN /\ R \in Nat /\ R >= 1 /\ 2^(R - 1) \in Nat /\ 2^R = 2 * 2^(R - 1)
            /\ 2^(R - 1) < N /\ N <= 2^R /\ Seeded(R, s)
            /\ \A i \in 1..2^R : L[i] = LeafOf(E, N, s[i])
            /\ \A i \in 1..2^R : (s[i] <= N <=> L[i] # Bye) /\ s[i] \in 1..2^R
<1> DEFINE R == Rounds(N)
           s == SeedSlotOrder(R)
           L == Leaves(E)
<1>1. N \in Nat /\ N >= 2 /\ \A i \in 1..N : E[i] # Bye
  BY DEF IsField
<1>2. R \in Nat /\ R >= 1 /\ 2^R >= N /\ 2^(R - 1) < N
  BY <1>1, RoundsHold
<1> HIDE DEF R
<1>3. 2^(R - 1) \in Nat /\ 2^R = 2 * 2^(R - 1)
  BY <1>2, Halves
<1>4. Seeded(R, s)
  BY <1>2, SeedsInOrder
<1>5. L = [i \in 1..2^R |-> LeafOf(E, N, s[i])]
  <2> HIDE DEF L
  <2> QED BY LeavesAre DEF R, L
<1> HIDE DEF s, L
<1>6. \A i \in 1..2^R : L[i] = LeafOf(E, N, s[i])
  BY <1>5
<1>7. \A i \in 1..2^R : s[i] \in 1..2^R
  BY <1>4 DEF Seeded
<1>8. \A i \in 1..2^R : s[i] <= N <=> L[i] # Bye
  <2> SUFFICES ASSUME NEW i \in 1..2^R PROVE s[i] <= N <=> L[i] # Bye
    OBVIOUS
  <2>1. s[i] <= N => E[s[i]] # Bye
    BY <1>1, <1>3, <1>7
  <2> QED BY <1>6, <2>1 DEF LeafOf
<1>9. N <= 2^R
  BY <1>1, <1>2, <1>3
<1> QED BY <1>2, <1>3, <1>4, <1>6, <1>7, <1>8, <1>9 DEF s, L, R

LEMMA LeavesFilled ==
  ASSUME NEW E, NEW N, IsField(E, N)
  PROVE  Filled(Leaves(E), Rounds(N), FieldOf(E, N))
<1> DEFINE R == Rounds(N)
           s == SeedSlotOrder(R)
           L == Leaves(E)
           F == {E[i] : i \in 1..N}
<1>0. /\ R \in Nat /\ R >= 1 /\ 2^(R - 1) \in Nat /\ 2^R = 2 * 2^(R - 1)
      /\ 2^(R - 1) < N /\ N <= 2^R /\ Seeded(R, s)
      /\ \A i \in 1..2^R : L[i] = LeafOf(E, N, s[i])
      /\ \A i \in 1..2^R : (s[i] <= N <=> L[i] # Bye) /\ s[i] \in 1..2^R
  BY LeafFacts
<1>1. /\ N \in Nat /\ N >= 2
      /\ \A i, j \in 1..N : E[i] = E[j] => i = j
      /\ \A i \in 1..N : E[i] # Bye /\ E[i] # TBD
  BY DEF IsField
<1> HIDE DEF R, s, L
<1>2. \A i \in 1..2^R : L[i] # Bye => s[i] \in 1..N /\ L[i] = E[s[i]]
  <2> SUFFICES ASSUME NEW i \in 1..2^R, L[i] # Bye PROVE s[i] \in 1..N /\ L[i] = E[s[i]]
    OBVIOUS
  <2>1. s[i] <= N /\ s[i] \in 1..2^R /\ L[i] = LeafOf(E, N, s[i])
    BY <1>0
  <2> QED BY <1>0, <1>1, <2>1 DEF LeafOf
<1>3. \A i \in 1..2^R : L[i] # TBD /\ (L[i] # Bye => L[i] \in F)
  <2> SUFFICES ASSUME NEW i \in 1..2^R PROVE L[i] # TBD /\ (L[i] # Bye => L[i] \in F)
    OBVIOUS
  <2>1. Bye # TBD
    BY DEF Bye, TBD
  <2>2. L[i] # Bye => s[i] \in 1..N /\ L[i] = E[s[i]]
    BY <1>2
  <2> QED BY <1>1, <2>1, <2>2
<1>4. \A j \in 1..2^(R - 1) : L[2 * j - 1] # Bye
  <2> SUFFICES ASSUME NEW j \in 1..2^(R - 1) PROVE L[2 * j - 1] # Bye
    OBVIOUS
  <2>1. 2 * j - 1 \in 1..2^R
    BY <1>0
  <2>2. s[2 * j - 1] \in 1..2^(R - 1)
    BY <1>0 DEF Seeded
  <2>3. s[2 * j - 1] <= N
    BY <1>0, <1>1, <2>2
  <2> QED BY <1>0, <2>1, <2>3
<1>5. R = 1 => RealPair(L, 1)
  <2> SUFFICES ASSUME R = 1 PROVE L[1] # Bye /\ L[2] # Bye
    BY DEF RealPair
  <2>1. 2^0 = 1
    OBVIOUS
  <2>2. 2^R = 2 /\ N = 2
    BY <1>0, <1>1, <2>1
  <2>3. 1 \in 1..2^R /\ 2 \in 1..2^R
    BY <2>2
  <2>4. s[1] <= N /\ s[2] <= N
    BY <1>0, <2>2, <2>3
  <2> QED BY <1>0, <2>3, <2>4
<1>6. \A f \in F : f # Bye /\ f # TBD /\ \E i \in 1..2^R : L[i] = f
  <2> SUFFICES ASSUME NEW v \in 1..N PROVE E[v] # Bye /\ E[v] # TBD /\ \E i \in 1..2^R : L[i] = E[v]
    OBVIOUS
  <2>1. v \in 1..2^R
    BY <1>0, <1>1
  <2>2. PICK i \in 1..2^R : s[i] = v
    BY <1>0, <2>1 DEF Seeded
  <2>3. L[i] = LeafOf(E, N, v)
    BY <1>0, <2>2
  <2> QED BY <1>1, <2>3 DEF LeafOf
<1>7. \A i, k \in 1..2^R : L[i] = L[k] /\ L[i] # Bye => i = k
  <2> SUFFICES ASSUME NEW i \in 1..2^R, NEW k \in 1..2^R, L[i] = L[k], L[i] # Bye PROVE i = k
    OBVIOUS
  <2>1. s[i] = s[k]
    BY <1>1, <1>2
  <2> QED BY <1>0, <2>1 DEF Seeded
<1> HIDE DEF F
<1>8. Filled(L, R, F)
  BY <1>0, <1>3, <1>4, <1>5, <1>6, <1>7 DEF Filled
<1> QED BY <1>8 DEF L, R, F, FieldOf

\* Who meets whom in the first round: two entrants whose seeds complete the sum.
LEMMA FirstRound ==
  ASSUME NEW E, NEW N, IsField(E, N), NEW m \in MatchesOf(Leaves(E), Rounds(N)), m.round = 1
  PROVE  \E a, b \in 1..N : a + b = 2^Rounds(N) + 1 /\ m.home = E[a] /\ m.away = E[b]
<1> DEFINE R == Rounds(N)
           s == SeedSlotOrder(R)
           L == Leaves(E)
<1>0. /\ R \in Nat /\ R >= 1 /\ 2^(R - 1) \in Nat /\ 2^R = 2 * 2^(R - 1)
      /\ 2^(R - 1) < N /\ N <= 2^R /\ Seeded(R, s)
      /\ \A i \in 1..2^R : L[i] = LeafOf(E, N, s[i])
      /\ \A i \in 1..2^R : (s[i] <= N <=> L[i] # Bye) /\ s[i] \in 1..2^R
  BY LeafFacts
<1>1. N \in Nat
  BY DEF IsField
<1>9. m \in MatchesOf(L, R)
  OBVIOUS
<1> HIDE DEF R, s, L
<1>2. PICK r, j : IsNode(L, R, r, j) /\ m = NodeAt(L, R, r, j)
  BY <1>0, <1>9, NodesAre
<1>3. r = 1 /\ m.home = SlotAt(L, r, 2 * j - 1) /\ m.away = SlotAt(L, r, 2 * j)
  BY <1>2 DEF NodeAt
<1>4. j \in 1..2^(R - 1) /\ L[2 * j - 1] # Bye /\ L[2 * j] # Bye
  BY <1>2, <1>3 DEF IsNode, RealPair
<1>5. m.home = L[2 * j - 1] /\ m.away = L[2 * j]
  BY <1>3 DEF SlotAt
<1>6. 2 * j - 1 \in 1..2^R /\ 2 * j \in 1..2^R
  BY <1>0, <1>4
<1> DEFINE a == s[2 * j - 1]
           b == s[2 * j]
<1>7. a \in 1..N /\ b \in 1..N /\ m.home = E[a] /\ m.away = E[b]
  <2>1. a <= N /\ b <= N /\ a \in 1..2^R /\ b \in 1..2^R /\ m.home = LeafOf(E, N, a) /\ m.away = LeafOf(E, N, b)
    BY <1>0, <1>4, <1>5, <1>6
  <2> HIDE DEF a, b
  <2> QED BY <1>0, <1>1, <2>1 DEF LeafOf
<1>8. a + b = 2^R + 1
  <2>1. b = 2^R + 1 - a
    BY <1>0, <1>4 DEF Seeded
  <2>2. a \in 1..2^R
    BY <1>0, <1>6
  <2> HIDE DEF a, b
  <2> QED BY <1>0, <2>1, <2>2
<1> HIDE DEF a, b
<1> QED BY <1>7, <1>8 DEF R

-----------------------------------------------------------------------------
(* The draw of groups: blocks of g seeds.                                  *)

LEMMA BlockOf ==
  ASSUME NEW g \in Nat, g >= 1, NEW x \in Nat
  PROVE  x \div g \in Nat /\ x % g \in 0..(g - 1) /\ x = g * (x \div g) + (x % g)
OBVIOUS

LEMMA BlockLess ==
  ASSUME NEW g \in Nat, g >= 1, NEW d \in Nat, NEW e \in Nat, d < e
  PROVE  g * d \in Nat /\ g * e \in Nat /\ g * d + g <= g * e
<1>1. g * (e - (d + 1)) \in Nat
  <2>1. e - (d + 1) \in Nat
    OBVIOUS
  <2> DEFINE u == e - (d + 1)
  <2> HIDE DEF u
  <2>2. ASSUME u \in Nat PROVE g * u \in Nat
    BY <2>2
  <2> QED BY <2>1, <2>2 DEF u
<1>2. g * e = g * d + g + g * (e - (d + 1))
  OBVIOUS
<1>3. g * d \in Nat /\ g * e \in Nat
  OBVIOUS
<1> QED BY <1>1, <1>2, <1>3

LEMMA InBlock ==
  ASSUME NEW g \in Nat, g >= 1, NEW d \in Nat, NEW p \in 0..(g - 1)
  PROVE  (g * d + p) \div g = d /\ (g * d + p) % g = p
<1> DEFINE x == g * d + p
           e == x \div g
           c == x % g
<1>1. x \in Nat
  OBVIOUS
<1> HIDE DEF x
<1>2. e \in Nat /\ c \in 0..(g - 1) /\ x = g * e + c
  BY <1>1, BlockOf
<1> HIDE DEF e, c
<1>3. x = g * d + p
  BY DEF x
<1>4. g * d \in Nat /\ g * e \in Nat
  BY <1>2
<1>5. ~(d < e)
  <2> SUFFICES ASSUME d < e PROVE FALSE
    OBVIOUS
  <2>1. g * d + g <= g * e
    BY <1>2, BlockLess
  <2> QED BY <1>2, <1>3, <1>4, <2>1
<1>6. ~(e < d)
  <2> SUFFICES ASSUME e < d PROVE FALSE
    OBVIOUS
  <2>1. g * e + g <= g * d
    BY <1>2, BlockLess
  <2> QED BY <1>2, <1>3, <1>4, <2>1
<1>7. d = e
  BY <1>2, <1>5, <1>6
<1>8. p = c
  BY <1>2, <1>3, <1>4, <1>7
<1> QED BY <1>7, <1>8 DEF e, c, x

\* Where the seed of group k stands in block d.
Within(g, d, k) == IF d % 2 = 1 THEN g - k ELSE k - 1
SeedOf(g, d, k) == g * d + Within(g, d, k) + 1

LEMMA SnakeIs ==
  ASSUME NEW g \in Nat, g >= 1, NEW k \in 1..g
  PROVE  /\ \A d \in Nat : Within(g, d, k) \in 0..(g - 1)
         /\ \A d \in Nat : SeedOf(g, d, k) \in Nat /\ SeedOf(g, d, k) >= 1
                           /\ (SeedOf(g, d, k) - 1) \div g = d /\ Snake(SeedOf(g, d, k), g) = k
         /\ \A i \in Nat : i >= 1 /\ Snake(i, g) = k => i = SeedOf(g, (i - 1) \div g, k)
<1>1. ASSUME NEW d \in Nat PROVE Within(g, d, k) \in 0..(g - 1)
  BY DEF Within
<1>2. ASSUME NEW d \in Nat
      PROVE  /\ SeedOf(g, d, k) \in Nat /\ SeedOf(g, d, k) >= 1
             /\ (SeedOf(g, d, k) - 1) \div g = d /\ Snake(SeedOf(g, d, k), g) = k
  <2> DEFINE p == Within(g, d, k)
             i == SeedOf(g, d, k)
  <2>1. p \in 0..(g - 1)
    BY <1>1
  <2>2. (d % 2 = 1 => p = g - k) /\ (d % 2 # 1 => p = k - 1)
    BY DEF Within
  <2>3. i = g * d + p + 1
    BY DEF SeedOf
  <2> HIDE DEF p, i
  <2>4. (g * d + p) \div g = d /\ (g * d + p) % g = p
    BY <2>1, InBlock
  <2>5. i \in Nat /\ i >= 1 /\ i - 1 = g * d + p
    <3>1. g * d \in Nat
      OBVIOUS
    <3> QED BY <2>1, <2>3, <3>1
  <2>6. Snake(i, g) = IF d % 2 = 1 THEN g - p ELSE p + 1
    BY <2>4, <2>5 DEF Snake
  <2>7. Snake(i, g) = k
    BY <2>1, <2>2, <2>6
  <2> QED BY <2>4, <2>5, <2>7 DEF i
<1>3. ASSUME NEW i \in Nat, i >= 1, Snake(i, g) = k PROVE i = SeedOf(g, (i - 1) \div g, k)
  <2> DEFINE x == i - 1
             d == x \div g
             p == x % g
  <2>1. x \in Nat /\ i = x + 1
    BY <1>3
  <2> HIDE DEF x
  <2>2. d \in Nat /\ p \in 0..(g - 1) /\ x = g * d + p
    BY <2>1, BlockOf
  <2>3. k = IF d % 2 = 1 THEN g - p ELSE p + 1
    BY <1>3 DEF Snake, x
  <2> HIDE DEF d, p
  <2>4. p = Within(g, d, k)
    BY <2>2, <2>3 DEF Within
  <2>5. i = g * d + Within(g, d, k) + 1
    BY <2>1, <2>2, <2>4
  <2> QED BY <2>5 DEF SeedOf, d, x
<1> QED BY <1>1, <1>2, <1>3

\* distributeSnake: every block gives a group one seed, the last, broken one
\* at most one.
LEMMA GroupsEven ==
  ASSUME NEW g \in Nat, g >= 1, NEW n \in Nat, NEW k \in 1..g
  PROVE  Cardinality(Groups(n, g)[k]) - (n \div g) \in {0, 1}
<1> DEFINE S == {i \in 1..n : Snake(i, g) = k}
           a == n \div g
           c == n % g
           T == {d \in 0..a : d = a => Within(g, a, k) + 1 <= c}
           f == [i \in S |-> (i - 1) \div g]
<1>1. a \in Nat /\ c \in 0..(g - 1) /\ n = g * a + c
  BY BlockOf
<1> HIDE DEF a, c
<1>2. ASSUME NEW i \in S PROVE f[i] \in T
  <2> DEFINE d == (i - 1) \div g
  <2>1. i \in Nat /\ i >= 1 /\ i <= n /\ i - 1 \in Nat
    OBVIOUS
  <2>2. d \in Nat
    BY <2>1, BlockOf
  <2>3. i = g * d + Within(g, d, k) + 1 /\ Within(g, d, k) \in 0..(g - 1)
    BY <2>1, <2>2, SnakeIs DEF SeedOf
  <2> HIDE DEF d
  <2>4. g * d \in Nat /\ g * a \in Nat
    BY <1>1, <2>2
  <2>5. ~(a < d)
    <3> SUFFICES ASSUME a < d PROVE FALSE
      OBVIOUS
    <3>1. g * a + g <= g * d
      BY <1>1, <2>2, BlockLess
    <3> QED BY <1>1, <2>1, <2>3, <2>4, <3>1
  <2>6. d = a => Within(g, a, k) + 1 <= c
    BY <1>1, <2>1, <2>3, <2>4
  <2>7. d \in T
    BY <1>1, <2>2, <2>5, <2>6
  <2> HIDE DEF T
  <2> QED BY <2>7 DEF d
<1>3. ASSUME NEW d \in T PROVE \E i \in S : f[i] = d
  <2> DEFINE i == SeedOf(g, d, k)
             w == Within(g, d, k)
  <2>1. d \in Nat /\ d <= a /\ (d = a => Within(g, a, k) + 1 <= c)
    BY <1>1
  <2>2. i \in Nat /\ i >= 1 /\ (i - 1) \div g = d /\ Snake(i, g) = k /\ w \in 0..(g - 1)
    BY <2>1, SnakeIs
  <2>3. i = g * d + w + 1
    BY DEF SeedOf
  <2>4. d = a => w + 1 <= c
    BY <2>1
  <2> HIDE DEF i, w
  <2>5. g * d \in Nat /\ g * a \in Nat
    BY <1>1, <2>1
  <2>6. CASE d = a
    BY <1>1, <2>2, <2>3, <2>4, <2>5, <2>6
  <2>7. CASE d < a
    <3>1. g * d + g <= g * a
      BY <1>1, <2>1, <2>7, BlockLess
    <3>2. i <= n
      BY <1>1, <2>2, <2>3, <2>5, <3>1
    <3> QED BY <2>2, <3>2
  <2>8. d = a \/ d < a
    BY <1>1, <2>1
  <2> HIDE DEF S, f
  <2> QED BY <2>6, <2>7, <2>8
<1>4. \A i, j \in S : f[i] = f[j] => i = j
  <2> SUFFICES ASSUME NEW i \in S, NEW j \in S, (i - 1) \div g = (j - 1) \div g PROVE i = j
    OBVIOUS
  <2>1. i \in Nat /\ i >= 1 /\ Snake(i, g) = k /\ j \in Nat /\ j >= 1 /\ Snake(j, g) = k
    OBVIOUS
  <2>2. i = SeedOf(g, (i - 1) \div g, k) /\ j = SeedOf(g, (j - 1) \div g, k)
    BY <2>1, SnakeIs
  <2> QED BY <2>2
<1>5. f \in [S -> T]
  <2>1. f = [i \in S |-> f[i]]
    OBVIOUS
  <2> HIDE DEF f, S, T
  <2> QED BY <1>2, <2>1
<1>6. IsFiniteSet(T) /\ Cardinality(T) \in {a, a + 1}
  <2>1. CASE Within(g, a, k) + 1 <= c
    <3>1. T = 0..a
      BY <2>1
    <3>2. IsFiniteSet(0..a) /\ Cardinality(0..a) = a + 1
      BY <1>1, FS_Interval
    <3> HIDE DEF T
    <3> QED BY <3>1, <3>2
  <2>2. CASE ~(Within(g, a, k) + 1 <= c)
    <3>1. T = 0..(a - 1)
      BY <1>1, <2>2
    <3>2. IsFiniteSet(0..(a - 1)) /\ Cardinality(0..(a - 1)) = a
      BY <1>1, FS_Interval
    <3> HIDE DEF T
    <3> QED BY <3>1, <3>2
  <2> QED BY <2>1, <2>2
<1>7. Cardinality(S) = Cardinality(T)
  <2>1. \A y \in T : \E x \in S : f[x] = y
    BY <1>3
  <2> HIDE DEF S, T, f
  <2> QED BY <1>4, <1>5, <1>6, <2>1, SameSize
<1>8. Groups(n, g)[k] = S
  BY DEF Groups
<1> HIDE DEF S, T
<1>9. Cardinality(S) - a \in {0, 1}
  BY <1>1, <1>6, <1>7
<1> QED BY <1>8, <1>9 DEF a

PlacesOf(g, q) == {<<k, r>> : k \in 1..g, r \in 1..q}

\* The qualifiers of the groups are a field.
LEMMA QualifiersField ==
  ASSUME NEW g \in Nat, g >= 2, NEW q \in Nat, q >= 1
  PROVE  /\ IsField(Qualifiers(g, q), g * q)
         /\ FieldOf(Qualifiers(g, q), g * q) = PlacesOf(g, q)
<1> DEFINE N == g * q
           E == Qualifiers(g, q)
<1>1. N \in Nat /\ N >= 2
  <2>1. g * q \in Nat
    OBVIOUS
  <2>2. CASE q = 1
    BY <2>1, <2>2
  <2>3. CASE q > 1
    <3>1. g * 1 + g <= g * q /\ g * 1 \in Nat
      <4> DEFINE one == 1
      <4>1. one \in Nat /\ one < q
        BY <2>3
      <4> HIDE DEF one
      <4>2. g * one + g <= g * q /\ g * one \in Nat
        BY <4>1, BlockLess
      <4> QED BY <4>2 DEF one
    <3> QED BY <2>1, <3>1
  <2> QED BY <2>2, <2>3
<1> HIDE DEF N
<1>2. ASSUME NEW i \in 1..N
      PROVE  /\ i - 1 \in Nat /\ E[i] = <<((i - 1) % g) + 1, ((i - 1) \div g) + 1>>
             /\ (i - 1) % g \in 0..(g - 1) /\ (i - 1) \div g \in 0..(q - 1)
             /\ i - 1 = g * ((i - 1) \div g) + ((i - 1) % g)
  <2> DEFINE x == i - 1
             d == x \div g
             c == x % g
  <2>1. x \in Nat /\ x < N
    BY <1>1
  <2>2. E[i] = <<c + 1, d + 1>>
    BY DEF Qualifiers, N
  <2> HIDE DEF x
  <2>3. d \in Nat /\ c \in 0..(g - 1) /\ x = g * d + c
    <3>1. g >= 1
      OBVIOUS
    <3> QED BY <2>1, <3>1, BlockOf
  <2> HIDE DEF d, c
  <2>4. ~(q < d) /\ d # q
    <3>1. g * d \in Nat /\ g * q \in Nat
      BY <2>3
    <3>2. q < d => g * q + g <= g * d
      BY <2>3, BlockLess
    <3>3. g * q = N
      BY DEF N
    <3> QED BY <2>1, <2>3, <3>1, <3>2, <3>3
  <2>5. d \in 0..(q - 1)
    BY <2>3, <2>4
  <2> QED BY <2>1, <2>2, <2>3, <2>5 DEF x, d, c
<1>3. E = [i \in 1..N |-> E[i]]
  BY DEF Qualifiers, N
<1> HIDE DEF E
<1>4. \A i, j \in 1..N : E[i] = E[j] => i = j
  <2> SUFFICES ASSUME NEW i \in 1..N, NEW j \in 1..N, E[i] = E[j] PROVE i = j
    OBVIOUS
  <2> DEFINE di == (i - 1) \div g
             dj == (j - 1) \div g
             ci == (i - 1) % g
             cj == (j - 1) % g
  <2>1. E[i] = <<ci + 1, di + 1>> /\ ci \in 0..(g - 1) /\ di \in 0..(q - 1) /\ i - 1 = g * di + ci
    BY <1>2
  <2>2. E[j] = <<cj + 1, dj + 1>> /\ cj \in 0..(g - 1) /\ dj \in 0..(q - 1) /\ j - 1 = g * dj + cj
    BY <1>2
  <2> HIDE DEF di, dj, ci, cj
  <2>3. ci = cj /\ di = dj
    <3>1. <<ci + 1, di + 1>> = <<cj + 1, dj + 1>>
      BY <2>1, <2>2
    <3>2. ci \in Int /\ di \in Int /\ cj \in Int /\ dj \in Int
      BY <2>1, <2>2
    <3>3. ci + 1 = cj + 1 /\ di + 1 = dj + 1
      BY <3>1
    <3> QED BY <3>2, <3>3
  <2>4. i - 1 = j - 1
    BY <2>1, <2>2, <2>3
  <2> QED BY <1>1, <2>4
<1>5. \A i \in 1..N : E[i] # Bye /\ E[i] # TBD
  <2> SUFFICES ASSUME NEW i \in 1..N PROVE E[i] # Bye /\ E[i] # TBD
    OBVIOUS
  <2> DEFINE c == (i - 1) % g
             d == (i - 1) \div g
  <2>1. E[i] = <<c + 1, d + 1>> /\ c \in 0..(g - 1)
    BY <1>2
  <2> HIDE DEF c, d
  <2>2. c + 1 # 0
    BY <2>1
  <2> QED BY <2>1, <2>2 DEF Bye, TBD
<1>6. IsField(E, N)
  BY <1>1, <1>3, <1>4, <1>5 DEF IsField
<1>7. {E[i] : i \in 1..N} = {<<k, r>> : k \in 1..g, r \in 1..q}
  <2>1. ASSUME NEW i \in 1..N PROVE \E k \in 1..g, r \in 1..q : E[i] = <<k, r>>
    <3> DEFINE c == (i - 1) % g
               d == (i - 1) \div g
    <3>1. E[i] = <<c + 1, d + 1>> /\ c \in 0..(g - 1) /\ d \in 0..(q - 1)
      BY <1>2
    <3> HIDE DEF c, d
    <3>2. c + 1 \in 1..g /\ d + 1 \in 1..q
      BY <3>1
    <3> QED BY <3>1, <3>2
  <2>2. \A k \in 1..g, r \in 1..q : \E i \in 1..N : E[i] = <<k, r>>
    <3> SUFFICES ASSUME NEW k \in 1..g, NEW r \in 1..q PROVE \E i \in 1..N : E[i] = <<k, r>>
      OBVIOUS
    <3> DEFINE d == r - 1
               p == k - 1
               i == g * d + p + 1
    <3>1. d \in Nat /\ d < q /\ p \in 0..(g - 1)
      OBVIOUS
    <3>2. r = d + 1 /\ k = p + 1
      OBVIOUS
    <3> HIDE DEF d, p
    <3>3. (g * d + p) \div g = d /\ (g * d + p) % g = p
      BY <3>1, InBlock
    <3>4. g * d \in Nat /\ g * d + g <= g * q
      BY <3>1, BlockLess
    <3>5. i \in 1..N /\ i - 1 = g * d + p
      BY <1>1, <3>1, <3>4 DEF N
    <3> HIDE DEF i
    <3>6. E[i] = <<((i - 1) % g) + 1, ((i - 1) \div g) + 1>>
      BY <1>2, <3>5
    <3>7. E[i] = <<p + 1, d + 1>>
      BY <3>3, <3>5, <3>6
    <3> QED BY <3>2, <3>5, <3>7
  <2>3. ASSUME NEW y \in {E[i] : i \in 1..N} PROVE y \in {<<k, r>> : k \in 1..g, r \in 1..q}
    BY <2>1
  <2> DEFINE X == {E[i] : i \in 1..N}
  <2>4. \A k \in 1..g, r \in 1..q : <<k, r>> \in X
    BY <2>2
  <2> HIDE DEF X
  <2>5. \A y \in {<<k, r>> : k \in 1..g, r \in 1..q} : y \in X
    BY <2>4
  <2>6. X \subseteq {<<k, r>> : k \in 1..g, r \in 1..q}
    BY <2>3 DEF X
  <2> QED BY <2>5, <2>6 DEF X
<1> QED BY <1>6, <1>7 DEF E, N, FieldOf, PlacesOf

\* A bracket of a field: sound, and its first round pairs the seeds that
\* complete the sum.
LEMMA BracketOfField ==
  ASSUME NEW E, NEW N, IsField(E, N), NEW M, M = Bracket(Leaves(E))
  PROVE  /\ Sound(M, FieldOf(E, N))
         /\ \A m \in M : m.round = 1 =>
              \E a, b \in 1..N : a + b = 2^Rounds(N) + 1 /\ m.home = E[a] /\ m.away = E[b]
<1>1. M = MatchesOf(Leaves(E), Rounds(N))
  <2>1. Rounds(Len(Leaves(E))) = Rounds(N)
    BY LeavesAre
  <2> QED BY <2>1, BracketIsMatches
<1>2. Filled(Leaves(E), Rounds(N), FieldOf(E, N))
  BY LeavesFilled
<1>3. Sound(M, FieldOf(E, N))
  BY <1>1, <1>2, FilledIsSound
<1>4. ASSUME NEW m \in M, m.round = 1
      PROVE  \E a, b \in 1..N : a + b = 2^Rounds(N) + 1 /\ m.home = E[a] /\ m.away = E[b]
  BY <1>1, <1>4, FirstRound
<1> QED BY <1>3, <1>4

SeedsOnly(n) == [i \in 1..n |-> <<i>>]   \* GenerateKnockout: the entrants are their seeds

LEMMA SeedsField ==
  ASSUME NEW n \in Nat, n >= 2
  PROVE  IsField(SeedsOnly(n), n) /\ FieldOf(SeedsOnly(n), n) = {<<i>> : i \in 1..n}
<1>1. \A i \in 1..n : SeedsOnly(n)[i] = <<i>>
  BY DEF SeedsOnly
<1>2. SeedsOnly(n) = [i \in 1..n |-> SeedsOnly(n)[i]]
  BY DEF SeedsOnly
<1>3. \A i, j \in 1..n : <<i>> = <<j>> => i = j
  OBVIOUS
<1>4. \A i \in 1..n : <<i>> # Bye /\ <<i>> # TBD
  <2> SUFFICES ASSUME NEW i \in 1..n PROVE <<i>> # Bye /\ <<i>> # TBD
    OBVIOUS
  <2>1. Len(<<i>>) = 1 /\ Len(<<>>) = 0 /\ Len(<<0, 0>>) = 2
    OBVIOUS
  <2> QED BY <2>1 DEF Bye, TBD
<1> DEFINE E == SeedsOnly(n)
<1>5. \A i \in 1..n : E[i] = <<i>>
  BY <1>1
<1>6. E = [i \in 1..n |-> E[i]]
  BY <1>2
<1> HIDE DEF E
<1>7. \A i, j \in 1..n : E[i] = E[j] => i = j
  BY <1>3, <1>5
<1>8. \A i \in 1..n : E[i] # Bye /\ E[i] # TBD
  BY <1>4, <1>5
<1>9. IsField(E, n)
  BY <1>6, <1>7, <1>8 DEF IsField
<1>10. {E[i] : i \in 1..n} = {<<i>> : i \in 1..n}
  BY <1>5
<1> QED BY <1>9, <1>10 DEF E, FieldOf

\* In a first round of the qualifiers of an even number of groups, the two
\* are not of one group: their places in the order sum to an odd number.
LEMMA GroupsApart ==
  ASSUME NEW g \in Nat, g >= 2, g % 2 = 0, NEW q \in Nat, q >= 1, NEW R \in Nat, R >= 1,
         NEW a \in 1..(g * q), NEW b \in 1..(g * q), a + b = 2^R + 1
  PROVE  Qualifiers(g, q)[a][1] # Qualifiers(g, q)[b][1]
<1> DEFINE N == g * q
           h == g \div 2
           x == (a - 1) \div g
           y == (b - 1) \div g
           c == (a - 1) % g
           d == (b - 1) % g
           w == 2^(R - 1)
<1>1. w \in Nat /\ 2^R = 2 * w
  BY Halves
<1>2. N \in Nat /\ a \in Nat /\ b \in Nat /\ a >= 1 /\ b >= 1 /\ a - 1 \in Nat /\ b - 1 \in Nat
  OBVIOUS
<1>3. h \in Nat /\ g = 2 * h
  OBVIOUS
<1>4. Qualifiers(g, q)[a] = <<c + 1, x + 1>> /\ Qualifiers(g, q)[b] = <<d + 1, y + 1>>
  BY DEF Qualifiers
<1>5. x \in Nat /\ c \in 0..(g - 1) /\ a - 1 = g * x + c
  <2>1. g >= 1
    OBVIOUS
  <2> QED BY <1>2, <2>1, BlockOf
<1>6. y \in Nat /\ d \in 0..(g - 1) /\ b - 1 = g * y + d
  <2>1. g >= 1
    OBVIOUS
  <2> QED BY <1>2, <2>1, BlockOf
<1> HIDE DEF N, h, x, y, c, d, w
<1>7. c # d
  <2> SUFFICES ASSUME c = d PROVE FALSE
    OBVIOUS
  <2> DEFINE u == h * x
             v == h * y
  <2>1. u \in Nat /\ v \in Nat
    BY <1>3, <1>5, <1>6
  <2>2. g * x = 2 * u /\ g * y = 2 * v
    BY <1>3, <1>5, <1>6
  <2> HIDE DEF u, v
  <2>3. (a - 1) + (b - 1) = 2 * u + 2 * v + 2 * c
    BY <1>5, <1>6, <2>1, <2>2
  <2>4. (a - 1) + (b - 1) = 2 * w - 1
    BY <1>1, <1>2
  <2>5. c \in Nat
    BY <1>3, <1>5
  <2> QED BY <1>1, <2>1, <2>3, <2>4, <2>5
<1>8. c \in Int /\ d \in Int
  BY <1>5, <1>6
<1> QED BY <1>4, <1>7, <1>8

\* A bracket is that of a field of two or more, and the groups are those of
\* its entrants.
BracketInv ==
  /\ plan.format = "knockout" =>
       /\ plan.n \in Nat /\ plan.n >= 2
       /\ plan.matches = Bracket(Leaves(SeedsOnly(plan.n)))
  /\ plan.format = "groups" =>
       /\ plan.n \in Nat /\ plan.g \in Nat /\ plan.g >= 2 /\ plan.q \in Nat /\ plan.q >= 1
       /\ plan.groups = Groups(plan.n, plan.g)
       /\ plan.matches = Bracket(Leaves(Qualifiers(plan.g, plan.q)))

LEMMA BracketInvSound == BracketInv => BracketSound
<1> DEFINE M == plan.matches
<1>1. ASSUME BracketInv, plan.format = "knockout" PROVE BracketSound
  <2> DEFINE n == plan.n
             field == {<<i>> : i \in 1..n}
             E == SeedsOnly(n)
  <2>1. n \in Nat /\ n >= 2 /\ M = Bracket(Leaves(E))
    BY <1>1 DEF BracketInv
  <2> HIDE DEF n, E, M
  <2>2. IsField(E, n) /\ FieldOf(E, n) = field
    BY <2>1, SeedsField DEF E
  <2>3. Sound(M, FieldOf(E, n))
    BY <2>1, <2>2, BracketOfField
  <2>4. ASSUME NEW m \in M, m.round = 1 PROVE m.home[1] + m.away[1] = 2^Rounds(n) + 1
    <3>1. PICK a \in 1..n, b \in 1..n : a + b = 2^Rounds(n) + 1 /\ m.home = E[a] /\ m.away = E[b]
      BY <2>1, <2>2, <2>4, BracketOfField
    <3>2. m.home = <<a>> /\ m.away = <<b>>
      BY <3>1 DEF E, SeedsOnly
    <3> QED BY <3>1, <3>2
  <2> HIDE DEF field
  <2>5. Sound(M, field)
    BY <2>2, <2>3
  <2> QED BY <1>1, <2>4, <2>5 DEF BracketSound, Sound, SlotsIn, HolderOf, FeedersIn, n, M, field
<1>2. ASSUME BracketInv, plan.format = "groups" PROVE BracketSound
  <2> DEFINE n == plan.n
             g == plan.g
             q == plan.q
             field == PlacesOf(g, q)
             E == Qualifiers(g, q)
             N == g * q
  <2>1. /\ n \in Nat /\ g \in Nat /\ g >= 2 /\ q \in Nat /\ q >= 1
        /\ M = Bracket(Leaves(E)) /\ plan.groups = Groups(n, g)
    BY <1>2 DEF BracketInv
  <2> HIDE DEF n, g, q, E, M, N
  <2>2. IsField(E, N) /\ FieldOf(E, N) = field
    BY <2>1, QualifiersField DEF E, N
  <2> HIDE DEF field
  <2>3. Sound(M, field)
    BY <2>1, <2>2, BracketOfField
  <2>4. ASSUME NEW k \in 1..g PROVE Cardinality(plan.groups[k]) - (n \div g) \in {0, 1}
    <3>1. g >= 1
      BY <2>1
    <3> QED BY <2>1, <3>1, GroupsEven
  <2>5. ASSUME g % 2 = 0, NEW m \in M, m.round = 1 PROVE m.home[1] # m.away[1]
    <3>1. PICK a \in 1..N, b \in 1..N : a + b = 2^Rounds(N) + 1 /\ m.home = E[a] /\ m.away = E[b]
      BY <2>1, <2>2, <2>5, BracketOfField
    <3>2. Rounds(N) \in Nat /\ Rounds(N) >= 1
      <4>1. N \in Nat /\ N >= 2
        BY <2>2 DEF IsField
      <4> QED BY <4>1, RoundsHold
    <3>3. E[a][1] # E[b][1]
      BY <2>1, <2>5, <3>1, <3>2, GroupsApart DEF E, N
    <3> QED BY <3>1, <3>3
  <2>6. /\ Cardinality(M) = Cardinality(field) - 1
        /\ \A f \in field : Cardinality({x \in SlotsIn(M) : HolderOf(x) = f}) = 1
        /\ \A x \in SlotsIn(M) : Cardinality(FeedersIn(M, x)) = IF HolderOf(x) = TBD THEN 1 ELSE 0
    BY <2>3 DEF Sound
  <2>7. g % 2 = 0 => \A m \in M : m.home # TBD /\ m.away # TBD /\ m.round = 1 => m.home[1] # m.away[1]
    BY <2>5
  <2>8. \A k \in 1..g : Cardinality(plan.groups[k]) - (n \div g) \in {0, 1}
    BY <2>4
  <2>9. plan.format = "groups" /\ plan.format # "knockout"
    BY <1>2
  <2>10. BracketSound <=>
          /\ Cardinality(M) = Cardinality(field) - 1
          /\ \A f \in field : Cardinality({x \in SlotsIn(M) : HolderOf(x) = f}) = 1
          /\ \A x \in SlotsIn(M) : Cardinality(FeedersIn(M, x)) = IF HolderOf(x) = TBD THEN 1 ELSE 0
          /\ \A k \in 1..g : Cardinality(plan.groups[k]) - (n \div g) \in {0, 1}
          /\ g % 2 = 0 => \A m \in M : m.home # TBD /\ m.away # TBD /\ m.round = 1 => m.home[1] # m.away[1]
    BY <2>9 DEF BracketSound, SlotsIn, HolderOf, FeedersIn, n, g, q, M, field, PlacesOf
  <2> QED BY <2>6, <2>7, <2>8, <2>10
<1>3. ASSUME plan.format \notin {"knockout", "groups"} PROVE BracketSound
  BY <1>3 DEF BracketSound
<1> QED BY <1>1, <1>2, <1>3

\* A bracket of any size loses one entrant per match, places everyone once,
\* feeds every open slot from one match and pairs the best seed with the
\* worst; the groups differ by one entrant at most, and two of one group do
\* not meet at once when their number is even (buildBracket, seedSlotOrder,
\* distributeSnake, buildGroupKnockout).
THEOREM BracketAlwaysSound == DrawSpec => []BracketSound
<1>1. DrawInit => BracketInv
  BY DEF DrawInit, NoPlan, BracketInv
<1>2. BracketInv /\ [DrawNext]_plan => BracketInv'
  <2> SUFFICES ASSUME BracketInv, [DrawNext]_plan PROVE BracketInv'
    OBVIOUS
  <2>1. ASSUME NEW n \in 2..MaxEntrants, NEW legs \in 1..3, GenerateLeague(n, legs) PROVE BracketInv'
    BY <2>1 DEF GenerateLeague, BracketInv
  <2>2. ASSUME NEW n \in 2..MaxEntrants, GenerateKnockout(n) PROVE BracketInv'
    <3>1. n \in Nat /\ n >= 2
      BY DrawAssumption
    <3>2. [i \in 1..n |-> <<i>>] = SeedsOnly(n)
      BY DEF SeedsOnly
    <3>3. plan' = [format |-> "knockout", n |-> n, matches |-> Bracket(Leaves(SeedsOnly(n)))]
      BY <2>2, <3>2 DEF GenerateKnockout
    <3> QED BY <3>1, <3>3 DEF BracketInv
  <2>3. ASSUME NEW n \in 2..MaxEntrants, NEW g \in 2..MaxGroups, NEW q \in 1..MaxEntrants, GenerateGroups(n, g, q)
        PROVE  BracketInv'
    <3>1. n \in Nat /\ g \in Nat /\ g >= 2 /\ q \in Nat /\ q >= 1
      BY DrawAssumption
    <3> QED BY <2>3, <3>1 DEF GenerateGroups, BracketInv
  <2>4. CASE UNCHANGED plan
    BY <2>4 DEF BracketInv
  <2> QED BY <2>1, <2>2, <2>3, <2>4 DEF DrawNext
<1> QED BY <1>1, <1>2, BracketInvSound, PTL DEF DrawSpec
=============================================================================

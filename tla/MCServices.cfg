SPECIFICATION ServicesSpec
CONSTANTS
  Users = {a1, a2, u3}
  Admins = {a1, a2}
  Staff = {s1, s2}
  People = {"u1"}
  PlayerRows = {r1, r2}
  Desks = {d1, d2}
  Teams = {t1, t2}
  Players = {p1}
  Clerks = {c1, c2}
  MaxStints = 3
  Jobs = {j1, j2, j3}
  Files = {f1, f2}
  Sizes = 2
  MaxLeague = 6
  MaxEntrants = 16
  MaxGroups = 6
  Registered = {1, 2, 3}
  Seeding <- OneSeed
  MaxScore = 1
  Formats = {"team", "individual"}
  EventTypes = {"penalty_awarded", "all_out", "super_tackle", "score_correction", "match_started"}
  Amounts <- SomeAmounts
  MaxEvents = 3
  MaxInt32 = 3
  MaxExact = 4
  MaxInt = 7
  Tabs = {1, 2}
  Calls = {"me", "data"}
  Guard = "me"
  MaxTokens = 3
  Notes = {n1, n2}
  Clicks = {k1, k2}
SYMMETRY InboxSymmetry
INVARIANTS
  LastStays
  OwnerDecides
  OneTeamPerPlayer
  ObjectsHeld
  LeagueFair
  BracketSound
  ScoreAgreed
  ResultFromLog
  StaysIn
  InboxTrue
PROPERTIES
  PrimaryHeld
  OthersKeepPlace
CHECK_DEADLOCK FALSE

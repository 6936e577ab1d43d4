SPECIFICATION Spec
CONSTANTS
  m1 = m1
  m2 = m2
  m3 = m3
  e1 = e1
  e2 = e2
  e3 = e3
  e4 = e4
  s1 = s1
  s2 = s2
  TBD = TBD
  NoMatch = NoMatch
  Matches = {m1, m2, m3}
  Entrants = {e1, e2, e3, e4}
  Staff = {s1, s2}
  Kinds = {"details", "status", "walkover", "cancel"}
  Drawn <- Semifinals
INVARIANTS
  FeedersFirst
  FedByWinners
PROPERTIES
  LifecycleKept
CHECK_DEADLOCK FALSE

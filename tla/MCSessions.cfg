SPECIFICATION Spec
CONSTANTS
  c1 = c1
  c2 = c2
  c3 = c3
  t1 = t1
  t2 = t2
  t3 = t3
  NoRow = NoRow
  Tokens = {t1, t2, t3}
  Resets = {1, 2}
  Clients = {c1, c2, c3}
SYMMETRY Symmetry
INVARIANTS
  OneLivePerLogin
  SweepComplete
  LinkUnspent
PROPERTY
  InactiveEnds
CHECK_DEADLOCK FALSE

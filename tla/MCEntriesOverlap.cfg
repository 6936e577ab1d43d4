SPECIFICATION Spec
CONSTANTS
  t1 = t1
  t2 = t2
  t3 = t3
  s1 = s1
  s2 = s2
  Teams = {t1, t2}
  Caps = {1}
  NoCap = NoCap
  NoTeam = NoTeam
  Formats = {"league"}
  Staff = {s1, s2}
  Kinds = {"register", "review", "edit"}
  Overlap = {"register", "review", "edit"}
SYMMETRY Symmetry
PROPERTIES
  CapHeld
CHECK_DEADLOCK FALSE

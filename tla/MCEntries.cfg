SPECIFICATION Spec
CONSTANTS
  t1 = t1
  t2 = t2
  t3 = t3
  s1 = s1
  s2 = s2
  Teams = {t1, t2, t3}
  Caps = {2}
  NoCap = NoCap
  NoTeam = NoTeam
  Formats = {"league", "group_knockout"}
  Staff = {s1, s2}
  Kinds = {"register", "review", "withdraw", "edit", "cancel", "generate", "resolve"}
  Overlap = {"register", "withdraw", "cancel", "generate", "resolve"}
SYMMETRY Symmetry
INVARIANTS
  NoticeTrue
PROPERTIES
  FollowsEntryLifecycle
CHECK_DEADLOCK FALSE

SPECIFICATION FairSpec
CONSTANTS
  r1 = r1
  r2 = r2
  w1 = w1
  w2 = w2
  Rows = {r1, r2}
  Workers = {w1, w2}
  MaxAttempts = 2
  BatchSize = 2
  Channel = "webhook"
  Faults = {"crash", "lost_write"}
PROPERTIES
  FollowsLifecycle
  Retires
CHECK_DEADLOCK FALSE

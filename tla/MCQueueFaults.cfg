SPECIFICATION Spec
CONSTANTS
  MaxActions = 2
  MaxLog = 3
  PageLimit = 1
  Faults = {"late_post", "unsaved"}
INVARIANTS
  CorrectionsSound
  ConfirmedOnLog
CHECK_DEADLOCK FALSE

SPECIFICATION FairSpec
CONSTANTS
  MaxActions = 3
  MaxLog = 2
  PageLimit = 2
  Faults = {"offline"}
INVARIANTS
  NothingLost
  OneCorrectionPerAction
  CompletionCoversAll
PROPERTIES
  KeepsPromise
  Settles

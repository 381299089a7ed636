CONSTANTS
  Jobs = {j1}
  Workers = {w1, w2, w3}
  None = None
  Concurrency = 2
  MaxAttempts = 2
  MaxFaults = 3
SPECIFICATION FairSpec
CHECK_DEADLOCK FALSE
INVARIANTS
  RowsAreTrue
  RepeatsNeedFaults
PROPERTIES
  OutcomeIsFinal
  EveryJobEnds

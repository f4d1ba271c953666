SPECIFICATION MCSpec
CONSTANTS
  Primary = p
  recorded = recorded
  required = required
  FollowerList <- MCFollowers
  Required = {required}
  LastBatch = 2
  LastSnapshot = 2
  MaxReplays = 1
  MaxFaults = 2
  ReplayAlone = TRUE
  Shrinking = FALSE
INVARIANTS TypeOK FinishedIsFollowedOrOwed FollowerServesWhole
PROPERTIES RowDebtIsPaid RequiredHoldsAll
CHECK_DEADLOCK FALSE

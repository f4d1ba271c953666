SPECIFICATION FairSpec
CONSTANTS
  LastSnapshot = 3
  NoRec = NoRec
  NoLabel = NoLabel
  Connectors = {inc, full}
  Incremental = {inc}
  Keys = {1, 2}
  BatchSize = 1
  MaxRetries = 1
  MaxChanges = 2
  SerializedByType = TRUE
  Moving = FALSE
INVARIANTS TypeOK WatermarkCovered OneRowPerKey ReplayNeverRefused
PROPERTIES FullLoadIsWhatWasRead ViewMovesAtCommit RunEnds
CHECK_DEADLOCK FALSE

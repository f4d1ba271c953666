SPECIFICATION FairSpec
CONSTANTS
  Workflows <- OneSink
  Sources = {"a", "b"}
  Sinks = {"k"}
  Retries = 1
  MaxRows = 2
  MaxFaults = 3
  NoStage = NoStage
INVARIANTS TypeOK WatermarkCovered
PROPERTIES CommitsWhatReachesIt RowsAreServed
CHECK_DEADLOCK FALSE

SPECIFICATION FairSpec
CONSTANTS
  Workflows <- BranchJoin
  Sources = {"a", "b"}
  Sinks = {"k", "l"}
  Retries = 0
  MaxRows = 1
  MaxFaults = 0
  NoStage = NoStage
PROPERTY CommitsWhatReachesIt
CHECK_DEADLOCK FALSE

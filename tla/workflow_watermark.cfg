SPECIFICATION Spec
CONSTANTS
  Workflows <- TwoSinks
  Sources = {"a"}
  Sinks = {"k", "l"}
  Retries = 1
  MaxRows = 2
  MaxFaults = 2
  NoStage = NoStage
INVARIANT WatermarkCovered
CHECK_DEADLOCK FALSE

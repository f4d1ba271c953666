SPECIFICATION MCSpec
CONSTANTS
  Replicas = {s1, s2}
  Users = {u1}
  Connectors = {k1}
  Crons = {{0, 2, 3}, {0, 1, 3}}
  MaxTime = 3
  MaxCalls = 2
  MaxFaults = 2
  MaxEvents = 5
  None = None
INVARIANTS WindowsStartOnce SettledIsDecided
PROPERTIES DueIsStarted
CHECK_DEADLOCK FALSE

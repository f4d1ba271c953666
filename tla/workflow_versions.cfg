SPECIFICATION VersionsSpec
CONSTANTS
  Graphs = {g1, g2, g3}
  Runnable = {g1, g2}
  Editors = {e1}
  Publishers = {p1, p2}
  Runs = {r1, r2}
  Steps = 3
  MaxVersion = 3
  NoGraph = NoGraph
INVARIANTS RunsOneGraph HeadIsItsRelease
PROPERTIES EditsNeverDeploy
SYMMETRY Symmetry
CHECK_DEADLOCK FALSE

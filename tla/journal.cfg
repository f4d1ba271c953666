SPECIFICATION Spec
CONSTANTS
  Keys = {k1, k2}
  Snapshots = {1}
  CompactAt = 2
  MaxLines = 4
  MaxTears = 1
  MaxCrashes = 1
SYMMETRY MCSymmetry
INVARIANTS TypeOK KeepsWhatReturned
PROPERTY FileIsBounded
CHECK_DEADLOCK FALSE

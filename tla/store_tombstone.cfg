SPECIFICATION MCSpec
CONSTANTS
  Snapshots = {s1, s2}
  Batches = {0}
  Keys = {k1}
  BatchRows <- MCBatchRows
  k1 = k1
  k2 = k2
  Clients = {c1, c2}
  Carry = Carry
  None = None
  NoRef = NoRef
  NoLabel = NoLabel
  Nothing = Nothing
  Exclusive = FALSE
  MaxCalls = 4
SYMMETRY MCSymmetry
INVARIANT ServedNeverTombstone
CHECK_DEADLOCK FALSE

SPECIFICATION MCSpec
CONSTANTS
  Snapshots = {s1, s2, s3}
  Batches = {0}
  Keys = {k1}
  BatchRows <- MCBatchRows
  k1 = k1
  k2 = k2
  Clients = {c1, c2}
  Carry = Carry
  None = None
  NoRef = NoRef
  NoLabel = NoLabel
  Nothing = Nothing
  Exclusive = TRUE
  MaxCalls = 4
SYMMETRY MCSymmetry
INVARIANTS ServedIsCommitted MergeCoversBatches MergesOnlyBlessed
PROPERTIES ImplementsContract TombstoneKeepsCount ServedCountAtCommit ServedCarryKeepsOrigin
CHECK_DEADLOCK FALSE

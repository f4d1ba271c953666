SPECIFICATION MCSpec
CONSTANTS
  Snapshots = {s1, s2}
  Batches = {0}
  Keys = {k1}
  Clients = {c1, c2}
  Carry = Carry
  None = None
  NoRec = NoRec
  NoLabel = NoLabel
  MaxCalls = 5
SYMMETRY MCSymmetry
INVARIANTS ServedIsLive MergeCoversBatches CountIsOfRows
PROPERTIES ImplementsContract
CHECK_DEADLOCK FALSE

SPECIFICATION MCSpec
CONSTANTS
  Snapshots = {s1, s2, s3}
  Batches = {b1}
  Values = {v1, v2}
  Sweepers = {w1, w2}
  Keep = 2
  None = None
  NoRec = NoRec
  NoArchive = NoArchive
  Rotten = Rotten
  MaxEvents = 3
  MaxSweeps = 2
SYMMETRY MCSymmetry
INVARIANTS EvictedIsArchived KeepRemains
CHECK_DEADLOCK FALSE

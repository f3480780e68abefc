SPECIFICATION Spec
CONSTANTS
  Scans <- MCScans
  Infinity = 100
  Iterations = 3
  ZScore = 1
INVARIANTS
  TypeOK
  PartitionSound
  NeverTooStrict
  AtLeastTopK
  SelectionExact
CHECK_DEADLOCK FALSE

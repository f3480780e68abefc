SPECIFICATION Spec
CONSTANTS
  a = a
  b = b
  c = c
  lane_a = lane_a
  lane_b = lane_b
  EmptyLane = EmptyLane
  GarbledLane = GarbledLane
  NoVec = NoVec
  Absent = Absent
  RecordsPerPage = 2
  EntriesPerPage = 2
  BlockSize = 2
  IdLimit = 4
  NumLists = 1
  MaxBatch = 3
  Vecs = {a, c}
  Assign <- MCAssign
  Code <- MCCode
  Codes = {lane_a, lane_b, EmptyLane}
INVARIANTS
  IndexInv
  HeldErasable
CHECK_DEADLOCK FALSE

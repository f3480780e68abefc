SPECIFICATION FairSearchSpec
CONSTANTS
  b = b
  c = c
  lane_b = lane_b
  EmptyLane = EmptyLane
  GarbledLane = GarbledLane
  NoVec = NoVec
  Absent = Absent
  near = near
  far = far
  r1 = r1
  RecordsPerPage = 2
  EntriesPerPage = 2
  BlockSize = 2
  IdLimit = 3
  NumLists = 2
  MaxBatch = 2
  Vecs = {b, c}
  Assign <- MCAssign
  Code <- MCCode
  Codes = {lane_b, EmptyLane}
  Readers = {r1}
  Queries = {near, far}
  Route <- MCRoute
  Distance <- MCDistance
  Estimate <- MCEstimate
  Uncertainty <- MCUncertainty
  Infinity = 9
  ZScore = 1
  MaxTopK = 2
  max_candidates = 2
INVARIANTS
  TypeOK
  Agreement
  TailLanesEmpty
  CountsAgree
  EraseOnlyHeld
  UpdatesNeverCollide
  AnswersOwed
  NearestSelected
  SearchExact
  SelectionNeverThrows
PROPERTIES
  UpdateReturns
  ImplementsAbstract
CHECK_DEADLOCK FALSE

SPECIFICATION FairSpec
CONSTANTS
  RecordsPerPage = 2
  TopK = 2
  Requests <- MCRequests
  Options <- MCOptions
  Distance <- MCDistance
INVARIANTS
  TypeOK
  PlansExact
  ResultExact
  FilesOutliveReads
  ContextEmptyBetweenCalls
  SlotsExclusive
  WithinCapacity
PROPERTIES
  CallReturns

SPECIFICATION Spec
CONSTANTS
  RecordsPerPage = 2
  TopK = 2
  Requests <- FewRequests
  Options <- MCOptions
  Distance <- MCDistance
INVARIANTS
  BuffersOutliveReads

SPECIFICATION Spec
CONSTANTS
  D = 12
  M = 6
  Subquantizers = 6
  Unit = 12
  Widest = 0
  Half = 4
  Profiles <- MCProfiles
  Groupings = {"Uniform", "Uneven"}
  Metrics = {"SquaredL2", "Cosine"}
  Batches <- MCBatches
  Queries <- MCQueries
  MaxRows = 12
  MaxErased = 2
  MaxUpdates = 3
INVARIANTS
  TypeOK
  NeverRefused
  BudgetsOptimal
  CodesRestore
  DotsExact
  MetadataHonest

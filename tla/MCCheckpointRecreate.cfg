SPECIFICATION Spec
CONSTANTS
  t1 = t1
  t2 = t2
  Threads = {t1}
  l1 = l1
  l2 = l2
  Lists = {l1, l2}
  RecordsPerPage = 2
  BlockSize = 2
  MayRecreate = TRUE
  MaxVersion = 2
  MaxGeneration = 1
SYMMETRY ListSymmetry
INVARIANTS
  AcceptsOnlyInstalled

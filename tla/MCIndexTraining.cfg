SPECIFICATION Spec
CONSTANTS
  s1 = s1
  s2 = s2
  few = few
  NoSample = NoSample
  Broken = Broken
  Samples = {s1, s2}
  Ample = {s1, s2}
  Extreme = {s2}
  Configs <- MCConfigs
  MayRecreate = FALSE
INVARIANTS
  RowsServed
  CheckpointServed
  NeverWedged
  ModelSurvives
CHECK_DEADLOCK FALSE
VIEW MCView

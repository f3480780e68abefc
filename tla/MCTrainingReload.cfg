SPECIFICATION Spec
CONSTANTS
  s1 = s1
  s2 = s2
  few = few
  NoSample = NoSample
  Broken = Broken
  Samples = {s1, few}
  Ample = {s1}
  Extreme = {}
  Configs <- MCConfigs
  MayRecreate = FALSE
INVARIANTS
  PublishedLoads
CHECK_DEADLOCK FALSE

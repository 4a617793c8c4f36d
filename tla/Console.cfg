\* Two flood loops beside a burst of up to two, two identities.
SPECIFICATION Spec
CONSTANTS
  Floods = {f1, f2}
  BurstSizes = {1, 2}
  Identities = {"anonymous", "free"}
  Algorithm = "token_bucket"
  MaxDots = 2
  MaxRows = 1
INVARIANTS
  TypeOK
  LogMirrorsDots
PROPERTIES
  InLimiterOrder
  EveryLoopEnds

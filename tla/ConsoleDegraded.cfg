\* One request is enough, of a burst or of a flood loop.
SPECIFICATION Spec
CONSTANTS
  Floods = {f1}
  BurstSizes = {1, 2}
  Identities = {"anonymous"}
  Algorithm = "token_bucket"
  MaxDots = 2
  MaxRows = 1
INVARIANTS
  DegradedIsShown

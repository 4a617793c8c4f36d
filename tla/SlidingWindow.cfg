\* Stamps up to two ticks behind, lost replies, restarts.
SPECIFICATION Spec
CONSTANTS
  Requests = {r1, r2, r3, r4}
  Resend = TRUE
  MaxLag = 2
  MaxNow = 6
  Limit = 2
  Window = 4
  Burst = 1
  Slack = 1
SYMMETRY RequestSymmetry
INVARIANTS
  TypeOK
  AccurateUpToLag
  NewestSeesLimit
  RetryAfterSuffices
PROPERTIES
  ThrottledOnlyWhenFull
CHECK_DEADLOCK FALSE

\* Stamps up to a tick behind, lost replies, restarts.
SPECIFICATION Spec
CONSTANTS
  Requests = {r1, r2, r3, r4}
  Resend = TRUE
  MaxLag = 1
  MaxNow = 6
  Limit = 1
  Window = 2
  Burst = 1
  Slack = 1
SYMMETRY RequestSymmetry
INVARIANTS
  TypeOK
  RewindsAreRefilledAgain
  ExpiryForgetsNothing
PROPERTIES
  NeverDrained
CHECK_DEADLOCK FALSE

\* Scripts run within a tick of their stamp.
SPECIFICATION Spec
CONSTANTS
  Requests = {r1, r2, r3, r4}
  Resend = TRUE
  MaxLag = 1
  MaxNow = 6
  Limit = 1
  Window = 3
  Burst = 1
  Slack = 1
SYMMETRY RequestSymmetry
INVARIANTS
  TypeOK
  WindowRespectsLimit
  AtMostTwiceLimit
CHECK_DEADLOCK FALSE

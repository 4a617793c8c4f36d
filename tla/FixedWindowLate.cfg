\* Scripts may run three ticks after their stamp, still within a window.
SPECIFICATION Spec
CONSTANTS
  Requests = {r1, r2, r3}
  Resend = FALSE
  MaxLag = 3
  MaxNow = 6
  Limit = 1
  Window = 4
  Burst = 1
  Slack = 1
SYMMETRY RequestSymmetry
INVARIANTS
  AtMostTwiceLimit
CHECK_DEADLOCK FALSE

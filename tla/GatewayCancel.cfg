\* Clients may go away while the limiter is asked for their request; nothing
\* but Redis fails otherwise.
SPECIFICATION GatewaySpec
CONSTANTS
  Callers = {h1, h2}
  Threshold = 2
  MaxProbes = 1
  Cooldown = 2
  CallTimeout = 1
  FailOpen = TRUE
  ClientsCancel = TRUE
  LimiterErrs = FALSE
PROPERTIES
  OpenMeansRedisFailed

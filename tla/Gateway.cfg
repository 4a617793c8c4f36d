\* Two handlers, a Redis that comes and goes, clients that go away, and
\* calls that fail although Redis would answer.
SPECIFICATION GatewaySpec
CONSTANTS
  Callers = {h1, h2}
  Threshold = 2
  MaxProbes = 1
  Cooldown = 2
  CallTimeout = 1
  FailOpen = TRUE
  ClientsCancel = TRUE
  LimiterErrs = TRUE
INVARIANTS
  GatewayTypeOK
  OnlyProbesInFlight
PROPERTIES
  BreakerProtocol
  Answered
  EnforcementResumes
  GaugesSettle
  KeepsPromise

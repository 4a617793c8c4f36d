\* Calls may stay in flight longer than the cooldown.
SPECIFICATION FairSpec
CONSTANTS
  Callers = {c1, c2, c3}
  Threshold = 2
  MaxProbes = 1
  Cooldown = 2
  CallTimeout = 3
INVARIANTS
  TypeOK
  CountTellsPosition
  ProbeOutstanding
  DiscoveryCost
PROPERTIES
  Recovers

\* Two overlapping polls of a process that comes and goes.
SPECIFICATION Spec
CONSTANTS
  Polls = {p1, p2}
  MinSample = 1
  StampLag = 1
  PerTick = 1
  MaxUptime = 3
INVARIANTS
  TypeOK
  RatesAreReal
PROPERTIES
  GoneIsNoticed
  BackIsNoticed

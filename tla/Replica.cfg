\* Two requests at the gateway, one at the admin server, two ticks of grace.
SPECIFICATION Spec
CONSTANTS
  Clients = {c1, c2}
  Pages = {p1}
  Grace = 2
INVARIANTS
  TypeOK
  DrainLosesNothing
  AdminWatchesDrain
PROPERTIES
  NothingNewWhileDraining
  SignalStops

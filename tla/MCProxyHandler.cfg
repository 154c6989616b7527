SPECIFICATION Spec
CONSTANTS
  r1 = r1
  r2 = r2
  N = 2
  Watched = 0
  Ailing = {0}
  Requests = {r1, r2}
  MaxClock = 2
  BreakerThreshold = 1
  OpenDuration = 1
  HalfOpenMaxRequests = 1
  PassiveThreshold = 1
  SuccessThreshold = 1
  UnhealthyDuration = 1
SYMMETRY Symmetry
INVARIANTS
  TypeOK
  Isolation
PROPERTIES
  ImplementsBreaker
  ImplementsPassive

SPECIFICATION Spec
CONSTANTS
  r1 = r1
  r2 = r2
  Requests = {r1, r2}
  MaxClock = 3
  BreakerThreshold = 1
  OpenDuration = 1
  HalfOpenMaxRequests = 1
PROPERTIES
  ClosedByProbes

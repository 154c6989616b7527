SPECIFICATION FairSpec
CONSTANTS
  Burst = 3
  MaxFired = 3
  MaxAdmitted = 9
INVARIANTS
  RateBounded
PROPERTIES
  TicksAdmit
  CloseStopsRefill

SPECIFICATION Spec
CONSTANTS
  r1 = r1
  r2 = r2
  r3 = r3
  Requests = {r1, r2, r3}
  MaxClock = 4
  PassiveThreshold = 2
  SuccessThreshold = 2
  UnhealthyDuration = 1
SYMMETRY Symmetry
INVARIANTS
  VerdictFollowsReports
  EjectionInReach
PROPERTIES
  VerdictNeedsStreak

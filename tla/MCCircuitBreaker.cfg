SPECIFICATION FairSpec
CONSTANTS
  r1 = r1
  r2 = r2
  r3 = r3
  Requests = {r1, r2, r3}
  MaxClock = 4
  BreakerThreshold = 2
  OpenDuration = 1
  HalfOpenMaxRequests = 3
INVARIANTS
  SlotsBacked
  CountersAgree
  RetryInReach
PROPERTIES
  LegalMoves
  SlotsComeBack

SPECIFICATION FairSpec
CONSTANTS
  r1 = r1
  r2 = r2
  Readers = {r1, r2}
INVARIANTS
  AnswersFresh
PROPERTIES
  CloseStopsLoop
  OutageNoticed

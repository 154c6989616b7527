SPECIFICATION Spec
CONSTANTS
  r1 = r1
  r2 = r2
  r3 = r3
  a = a
  b = b
  NoRoute = NoRoute
  Requests = {r1, r2, r3}
  Routes = {a, b}
  GlobalMax = 2
  RouteMax = 1
  Statuses = {200, 500}
  Interim = {103}
  MaxEnded = 2
SYMMETRY Symmetry
INVARIANTS
  TypeOK
  SlotsExact
  CountedUnderRoute
  FinalStatusKept
CHECK_DEADLOCK FALSE

SPECIFICATION Spec
CONSTANTS
  r1 = r1
  a = a
  NoRoute = NoRoute
  Requests = {r1}
  Routes = {a}
  GlobalMax = 2
  RouteMax = 1
  Statuses = {200, 404, 500}
  Interim = {103}
  MaxEnded = 1
INVARIANTS
  StatusPassedOn
CHECK_DEADLOCK FALSE

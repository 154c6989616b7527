SPECIFICATION FairSpec
CONSTANTS
  Recorders = {r1, r2}
  Scrapers = {s1, s2}
  Characters <- MCCharacters
  RouteIDs <- MCRouteIDs
  StatusCodes = {0, 500}
  Latencies <- MCLatencies
  Boundaries <- MCBoundaries
  MaxRecords = 2
INVARIANTS
  ScrapesAddUp
  HistogramsCumulate
  SeriesTellRoutesApart
PROPERTIES
  CallsReturn

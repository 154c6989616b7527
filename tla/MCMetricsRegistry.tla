-------------------------- MODULE MCMetricsRegistry --------------------------
(* Route ids for MetricsRegistry: none, a backslash before an n, and a line *)
(* feed; two histogram bounds.                                              *)
EXTENDS MetricsRegistry

MCCharacters == {"\\", "n", "LF"}
MCRouteIDs == {<<>>, <<"\\", "n">>, <<"LF">>}
MCBoundaries == <<1, 2>>
MCLatencies == {-1, 2, 3}
=============================================================================

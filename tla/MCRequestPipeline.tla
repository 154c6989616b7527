--------------------------- MODULE MCRequestPipeline ---------------------------
(* Model of RequestPipeline: requests, and routes, are interchangeable. *)
EXTENDS RequestPipeline, TLC

Symmetry == Permutations(Requests) \cup Permutations(Routes)
=============================================================================

---------------------------- MODULE MCProxyHandler ----------------------------
(* Model of ProxyHandler: requests are interchangeable. *)
EXTENDS ProxyHandler, TLC

Symmetry == Permutations(Requests)
=============================================================================

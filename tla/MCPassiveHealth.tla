---------------------------- MODULE MCPassiveHealth ----------------------------
(* Model of PassiveHealth: requests are interchangeable. *)
EXTENDS PassiveHealth, TLC

Symmetry == Permutations(Requests)
=============================================================================

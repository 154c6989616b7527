-------------------------- MODULE PassiveHealthState --------------------------
(***************************************************************************)
(* The passive health record of one upstream                               *)
(* (internal/proxy/passive_health.go) and the operators its methods        *)
(* compute under s.mu.  Times are natural numbers and 0 is Go's zero time. *)
(* lastFailureAt, lastSuccessAt and lastReason are only ever displayed and *)
(* are left out.                                                           *)
(***************************************************************************)
EXTENDS Integers, Sequences

CONSTANTS
  PassiveThreshold,    \* s.failureThreshold
  SuccessThreshold,    \* s.successThreshold
  UnhealthyDuration    \* s.unhealthyDuration

(* newPassiveHealthState replaces options that are not positive. *)
ASSUME PassiveAssumption ==
  /\ PassiveThreshold \in Nat \ {0}
  /\ SuccessThreshold \in Nat \ {0}
  /\ UnhealthyDuration \in Nat \ {0}

PassiveRecords == [unhealthy            : BOOLEAN,
                   consecutiveFailures  : Nat,
                   consecutiveSuccesses : Nat,
                   retryAfter           : Nat]

NewPassive == [unhealthy            |-> FALSE,
               consecutiveFailures  |-> 0,
               consecutiveSuccesses |-> 0,
               retryAfter           |-> 0]
(* How many reports a history of them keeps: enough to judge both           *)
(* thresholds; and the history after one more.                              *)
Memory == IF PassiveThreshold > SuccessThreshold THEN PassiveThreshold ELSE SuccessThreshold

Remembered(reports, outcome) ==
  LET all == Append(reports, outcome)
  IN  IF Len(all) > Memory THEN Tail(all) ELSE all
-----------------------------------------------------------------------------
PassiveAvailable(s, now) == s.unhealthy => now >= s.retryAfter

(* Mutants: a success takes one failure back, or none, instead of ending   *)
(* the failure streak.                                                     *)
PassiveSuccessDecays(s) ==
  LET t == [s EXCEPT !.consecutiveFailures = @ - 1, !.consecutiveSuccesses = @ + 1]
  IN  IF ~s.unhealthy THEN [s EXCEPT !.consecutiveFailures = @ - 1]
      ELSE IF t.consecutiveSuccesses < SuccessThreshold THEN t
      ELSE NewPassive

PassiveSuccessKeepsFailures(s) ==
  LET t == [s EXCEPT !.consecutiveSuccesses = @ + 1]
  IN  IF ~s.unhealthy THEN s
      ELSE IF t.consecutiveSuccesses < SuccessThreshold THEN t
      ELSE NewPassive

(* recordSuccess: the failure streak ends; an unhealthy upstream recovers  *)
(* with its SuccessThreshold-th success in a row.                          *)
PassiveRecordSuccess(s) ==
  LET t == [s EXCEPT !.consecutiveFailures = 0, !.consecutiveSuccesses = @ + 1]
  IN  IF ~s.unhealthy
      THEN [s EXCEPT !.consecutiveFailures = 0, !.consecutiveSuccesses = 0]
      ELSE IF t.consecutiveSuccesses < SuccessThreshold THEN t
      ELSE [t EXCEPT !.unhealthy = FALSE,
                     !.retryAfter = 0,
                     !.consecutiveSuccesses = 0]

(* Mutant: the wait is counted from the end of the previous wait. *)
PassiveFailureExtends(s, now) ==
  LET t == [s EXCEPT !.consecutiveFailures = @ + 1, !.consecutiveSuccesses = 0]
  IN  IF t.consecutiveFailures < PassiveThreshold THEN t
      ELSE [t EXCEPT !.unhealthy = TRUE,
                     !.retryAfter = (IF @ = 0 THEN now ELSE @) + UnhealthyDuration]

(* recordFailure: the success streak ends; from the PassiveThreshold-th    *)
(* failure in a row on, every failure ejects the upstream (again).         *)
PassiveRecordFailure(s, now) ==
  LET t == [s EXCEPT !.consecutiveFailures = @ + 1, !.consecutiveSuccesses = 0]
  IN  IF t.consecutiveFailures < PassiveThreshold THEN t
      ELSE [t EXCEPT !.unhealthy = TRUE, !.retryAfter = now + UnhealthyDuration]
=============================================================================

------------------------- MODULE CircuitBreakerState -------------------------
(***************************************************************************)
(* The circuit breaker of one upstream (internal/proxy/circuit_breaker.go) *)
(* as a record and the operators its methods compute under c.mu.  Each     *)
(* operator is one critical section; the modules that use it decide how    *)
(* the critical sections of concurrent requests interleave.                *)
(*                                                                         *)
(* Times are natural numbers; 0 is Go's zero time, and clocks start at 1.  *)
(* lastFailureAt, lastSuccessAt and lastReason are only ever displayed and *)
(* are left out.                                                           *)
(***************************************************************************)
EXTENDS Integers

CONSTANTS
  BreakerThreshold,     \* c.failureThreshold
  OpenDuration,         \* c.openDuration
  HalfOpenMaxRequests   \* c.halfOpenMaxRequests

(***************************************************************************)
(* newCircuitBreakerState replaces every option that is not positive by a  *)
(* positive default, so a breaker that exists has positive settings.       *)
(***************************************************************************)
ASSUME BreakerAssumption ==
  /\ BreakerThreshold \in Nat \ {0}
  /\ OpenDuration \in Nat \ {0}
  /\ HalfOpenMaxRequests \in Nat \ {0}

BreakerStates == {"closed", "open", "half_open"}

Breakers == [state               : BreakerStates,
             consecutiveFailures : Nat,
             halfOpenInFlight    : Nat,
             halfOpenSuccesses   : Nat,
             nextAttemptAt       : Nat]

NewBreaker == [state               |-> "closed",
               consecutiveFailures |-> 0,
               halfOpenInFlight    |-> 0,
               halfOpenSuccesses   |-> 0,
               nextAttemptAt       |-> 0]
-----------------------------------------------------------------------------
EnterHalfOpen(c) ==
  [c EXCEPT !.state = "half_open",
            !.halfOpenInFlight = 0,
            !.halfOpenSuccesses = 0]

(* consecutiveFailures keeps its value: only closeLocked resets it. *)
OpenLocked(c, now) ==
  [c EXCEPT !.state = "open",
            !.nextAttemptAt = now + OpenDuration,
            !.halfOpenInFlight = 0,
            !.halfOpenSuccesses = 0]

(* Mutant: recovery keeps the failures that opened the breaker. *)
CloseLockedKeepsFailures(c) ==
  [c EXCEPT !.state = "closed",
            !.halfOpenInFlight = 0,
            !.halfOpenSuccesses = 0,
            !.nextAttemptAt = 0]

CloseLocked(c) ==
  [c EXCEPT !.state = "closed",
            !.consecutiveFailures = 0,
            !.halfOpenInFlight = 0,
            !.halfOpenSuccesses = 0,
            !.nextAttemptAt = 0]

(* Mutant: the slot is not given back. *)
ReleaseSlotForgotten(c) == c

ReleaseSlot(c) ==
  [c EXCEPT !.halfOpenInFlight = IF @ > 0 THEN @ - 1 ELSE @]
-----------------------------------------------------------------------------
(* What allow(now) returns.  The open case falls through to the half-open  *)
(* one with no slot in use, and there is at least one slot.                *)
BreakerAllows(c, now) ==
  \/ c.state = "closed"
  \/ c.state = "open" /\ now >= c.nextAttemptAt
  \/ c.state = "half_open" /\ c.halfOpenInFlight < HalfOpenMaxRequests

TakeSlot(c) == [c EXCEPT !.halfOpenInFlight = @ + 1]

(* The state allow(now) leaves when it returns true; it changes nothing    *)
(* when it returns false.                                                  *)
BreakerAllow(c) ==
  CASE c.state = "closed"    -> c
    [] c.state = "open"      -> TakeSlot(EnterHalfOpen(c))
    [] c.state = "half_open" -> TakeSlot(c)

(* Mutant: a success reported in the open state closes the breaker. *)
RecordSuccessCloses(c) ==
  IF c.state = "closed" THEN [c EXCEPT !.consecutiveFailures = 0] ELSE CloseLocked(c)

(* recordSuccess: a success in the open state only updates lastSuccessAt. *)
BreakerRecordSuccess(c) ==
  LET s == [ReleaseSlot(c) EXCEPT !.halfOpenSuccesses = @ + 1]
  IN  CASE c.state = "closed"    -> [c EXCEPT !.consecutiveFailures = 0]
        [] c.state = "open"      -> c
        [] c.state = "half_open" ->
             IF s.halfOpenSuccesses >= HalfOpenMaxRequests
             THEN CloseLocked(s) ELSE s

(* Mutants: failures in the open state add up; failures of probes are lost. *)
RecordFailureAccumulates(c, now) ==
  LET f == [c EXCEPT !.consecutiveFailures = @ + 1]
  IN  CASE c.state = "open" -> [c EXCEPT !.nextAttemptAt = @ + OpenDuration]
        [] c.state = "half_open" -> OpenLocked(ReleaseSlot(c), now)
        [] c.state = "closed" ->
             IF f.consecutiveFailures >= BreakerThreshold THEN OpenLocked(f, now) ELSE f

RecordFailureLosesProbe(c, now) ==
  LET f == [c EXCEPT !.consecutiveFailures = @ + 1]
  IN  IF c.state # "closed" THEN c
      ELSE IF f.consecutiveFailures >= BreakerThreshold THEN OpenLocked(f, now) ELSE f

(* recordFailure: a failure in the open state pushes nextAttemptAt. *)
BreakerRecordFailure(c, now) ==
  LET f == [c EXCEPT !.consecutiveFailures = @ + 1]
  IN  CASE c.state = "closed"    ->
             IF f.consecutiveFailures >= BreakerThreshold
             THEN OpenLocked(f, now) ELSE f
        [] c.state = "half_open" -> OpenLocked(ReleaseSlot(c), now)
        [] c.state = "open"      -> [c EXCEPT !.nextAttemptAt = now + OpenDuration]
=============================================================================

---------------------------- MODULE CircuitBreaker ----------------------------
(***************************************************************************)
(* One circuit breaker and the request goroutines that use it through      *)
(* upstream.tryAcquire, upstream.recordSuccess and upstream.recordFailure  *)
(* (internal/proxy/upstream.go).  Each of these reads time.Now() before    *)
(* the breaker takes its lock, so the time a critical section works with   *)
(* may be older than the clock, and a request may report to a breaker that *)
(* has changed state several times since it admitted the request.          *)
(***************************************************************************)
EXTENDS CircuitBreakerState, FiniteSets

CONSTANTS
  Requests,   \* request goroutines; each serves any number of requests in turn
  MaxClock    \* bound on the clock

ASSUME RequestsAssumption ==
  /\ IsFiniteSet(Requests)
  /\ MaxClock \in Nat

VARIABLES
  clock,      \* time.Now()
  breaker,    \* the breaker's fields
  pc,         \* where each request is
  at,         \* the time a request has read and not used yet
  probes,     \* history: requests the current half-open period admitted and
              \* that have not reported yet
  probeWins   \* history: how many of that period's probes have succeeded

vars == <<clock, breaker, pc, at, probes, probeWins>>

Phases == {"idle", "admission", "inflight", "success", "failure", "upgrading"}

TypeOK ==
  /\ clock \in Nat
  /\ breaker \in Breakers
  /\ pc \in [Requests -> Phases]
  /\ at \in [Requests -> Nat]
  /\ probes \in SUBSET Requests
  /\ probeWins \in Nat

Init ==
  /\ clock = 1
  /\ breaker = NewBreaker
  /\ pc = [r \in Requests |-> "idle"]
  /\ at = [r \in Requests |-> 0]
  /\ probes = {}
  /\ probeWins = 0

Tick ==
  /\ clock < MaxClock
  /\ clock' = clock + 1
  /\ UNCHANGED <<breaker, pc, at, probes, probeWins>>

(* r moves from one phase to another with the time it reads, or with none. *)
Move(r, from, to, time) ==
  /\ pc[r] = from
  /\ pc' = [pc EXCEPT ![r] = to]
  /\ at' = [at EXCEPT ![r] = time]
-----------------------------------------------------------------------------
(* tryAcquire reads the time, and first asks the active and the passive     *)
(* health of the upstream ...                                               *)
Arrive(r) ==
  /\ Move(r, "idle", "admission", clock)
  /\ UNCHANGED <<clock, breaker, probes, probeWins>>

(* ... which may make it return without asking the breaker ... *)
Skip(r) ==
  /\ Move(r, "admission", "idle", 0)
  /\ UNCHANGED <<clock, breaker, probes, probeWins>>

(* ... or calls allow(now), which admits the request ... *)
Admit(r) ==
  /\ BreakerAllows(breaker, at[r])
  /\ Move(r, "admission", "inflight", 0)
  /\ breaker' = BreakerAllow(breaker)
  /\ probes' = IF breaker'.state = "half_open" THEN probes \cup {r} ELSE probes
  /\ probeWins' = IF breaker.state = "open" THEN 0 ELSE probeWins
  /\ UNCHANGED clock

(* ... or refuses it. *)
Refuse(r) ==
  /\ ~BreakerAllows(breaker, at[r])
  /\ Move(r, "admission", "idle", 0)
  /\ UNCHANGED <<clock, breaker, probes, probeWins>>

(* The backend answered below 500: modifyResponse calls recordSuccess.  The *)
(* time it reads is only displayed.                                         *)
Answer(r) ==
  /\ Move(r, "inflight", "success", 0)
  /\ UNCHANGED <<clock, breaker, probes, probeWins>>

(* The backend answered 5xx (modifyResponse), or the exchange failed or     *)
(* timed out (handleProxyError): recordFailure is called.                   *)
Fail(r) ==
  /\ Move(r, "inflight", "failure", clock)
  /\ UNCHANGED <<clock, breaker, probes, probeWins>>

(* recordSuccess takes the lock.  The request then ends, unless the answer  *)
(* was 101 and ReverseProxy goes on to switch protocols.                    *)
ReportSuccess(r) ==
  /\ \E next \in {"idle", "upgrading"} : Move(r, "success", next, 0)
  /\ breaker' = BreakerRecordSuccess(breaker)
  /\ probes' = IF breaker'.state = "half_open" THEN probes \ {r} ELSE {}
  /\ probeWins' = IF r \in probes THEN probeWins + 1 ELSE probeWins
  /\ UNCHANGED clock

(* recordFailure takes the lock. *)
ReportFailure(r) ==
  /\ Move(r, "failure", "idle", 0)
  /\ breaker' = BreakerRecordFailure(breaker, at[r])
  /\ probes' = IF breaker'.state = "half_open" THEN probes \ {r} ELSE {}
  /\ UNCHANGED <<clock, probeWins>>

(* ReverseProxy could not switch protocols and calls the error handler for  *)
(* a request that modifyResponse has already reported as a success.         *)
UpgradeFail(r) ==
  /\ Move(r, "upgrading", "failure", clock)
  /\ UNCHANGED <<clock, breaker, probes, probeWins>>

UpgradeDone(r) ==
  /\ Move(r, "upgrading", "idle", 0)
  /\ UNCHANGED <<clock, breaker, probes, probeWins>>

Proceed(r) ==
  \/ Skip(r) \/ Admit(r) \/ Refuse(r) \/ Answer(r) \/ Fail(r)
  \/ ReportSuccess(r) \/ ReportFailure(r) \/ UpgradeFail(r) \/ UpgradeDone(r)

Next == Tick \/ \E r \in Requests : Arrive(r) \/ Proceed(r)

(***************************************************************************)
(* A request that has arrived keeps running: the server's request timeout  *)
(* ends every exchange, and no critical section blocks.                    *)
(***************************************************************************)
Fairness == \A r \in Requests : WF_vars(Proceed(r))

Spec == Init /\ [][Next]_vars

FairSpec == Spec /\ Fairness
-----------------------------------------------------------------------------
(* Every half-open slot in use is backed by a probe that will still report, *)
(* so that slots cannot leak and lock the upstream out for good.            *)
SlotsBacked ==
  breaker.state = "half_open" =>
    /\ probes \subseteq {r \in Requests : pc[r] \in {"inflight", "success", "failure"}}
    /\ breaker.halfOpenInFlight <= Cardinality(probes)

(* The counters agree with the state: trial counters are zero outside       *)
(* half_open and below the limits inside it, and a closed breaker has not   *)
(* reached its failure threshold, neither before it opens nor after it      *)
(* recovers.                                                                *)
CountersAgree ==
  /\ breaker.halfOpenInFlight <= HalfOpenMaxRequests
  /\ breaker.halfOpenSuccesses < HalfOpenMaxRequests
  /\ breaker.state # "half_open" =>
       breaker.halfOpenInFlight = 0 /\ breaker.halfOpenSuccesses = 0
  /\ breaker.state = "closed" => breaker.consecutiveFailures < BreakerThreshold

(* However late and out of order failures are reported, an open breaker     *)
(* never refuses for longer than openDuration from now.                     *)
RetryInReach ==
  /\ breaker.state = "open" => breaker.nextAttemptAt \in 1 .. (clock + OpenDuration)
  /\ breaker.state = "closed" => breaker.nextAttemptAt = 0

(* The breaker only moves CLOSED -> OPEN -> HALF_OPEN -> CLOSED or back to  *)
(* OPEN (docs/configuration.md:222), and leaves OPEN only when the clock    *)
(* has reached nextAttemptAt, for exactly one request.                      *)
LegalMoves ==
  [][/\ breaker.state = "closed" => breaker'.state \in {"closed", "open"}
     /\ breaker.state = "half_open" => breaker'.state \in BreakerStates
     /\ breaker.state = "open" =>
          \/ breaker'.state = "open"
          \/ /\ breaker'.state = "half_open"
             /\ breaker.nextAttemptAt <= clock
             /\ breaker'.halfOpenInFlight = 1]_vars

(* When all the half-open slots are in use, one is given back or the        *)
(* breaker leaves half_open: it cannot refuse requests for ever.            *)
SlotsComeBack ==
  (/\ breaker.state = "half_open"
   /\ breaker.halfOpenInFlight = HalfOpenMaxRequests) ~>
  (\/ breaker.state # "half_open"
   \/ breaker.halfOpenInFlight < HalfOpenMaxRequests)
-----------------------------------------------------------------------------
(* A half-open breaker closes because its probes succeeded                  *)
(* (docs/design.md:191-193, the reason closeLocked logs).                   *)
ClosedByProbes ==
  [][breaker.state = "half_open" /\ breaker'.state = "closed" =>
       probeWins' >= HalfOpenMaxRequests]_vars
=============================================================================

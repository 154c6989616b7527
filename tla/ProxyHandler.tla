----------------------------- MODULE ProxyHandler -----------------------------
(***************************************************************************)
(* proxy.Handler (internal/proxy/handler.go, upstream.go): the requests of *)
(* one route choose among its upstreams round robin, ask each candidate's  *)
(* active health, passive health and circuit breaker, each under a lock or *)
(* an atomic of its own, and report the outcome of the exchange to both of *)
(* the latter, one after the other.                                        *)
(*                                                                         *)
(* Each upstream's breaker, as the requests of the route drive it, is      *)
(* shown to implement CircuitBreaker.                                      *)
(***************************************************************************)
EXTENDS CircuitBreakerState, PassiveHealthState, FiniteSets

CONSTANTS
  N,          \* len(h.upstreams)
  Requests,   \* request goroutines; each serves any number of requests in turn
  MaxClock,   \* bound on the clock
  Ailing,     \* bound: the upstreams whose health checks may fail
  Watched     \* the upstream whose records are compared with their modules

Upstreams == 0 .. (N - 1)

ASSUME ProxyAssumption ==
  /\ N \in Nat \ {0}
  /\ IsFiniteSet(Requests)
  /\ MaxClock \in Nat
  /\ Ailing \subseteq Upstreams
  /\ Watched \in Upstreams

VARIABLES
  reliable,   \* the upstreams none of whose exchanges fails
  clock,      \* time.Now()
  nextIndex,  \* h.nextIndex; only its value modulo N is ever used
  active,     \* what each upstream's health checker answers
  passive,    \* each upstream's passive health record
  breaker,    \* each upstream's circuit breaker
  pc,         \* where each request is
  target,     \* the upstream a request is asking or has selected
  left,       \* how many more candidates selectUpstream's loop would ask
  at,         \* the time a request has read and not used up yet
  reports,    \* history of the watched upstream, see PassiveHealth
  probes,     \* history, see CircuitBreaker
  probeWins   \* history, see CircuitBreaker

vars == <<reliable, clock, nextIndex, active, passive, breaker, pc, target, left, at, reports, probes, probeWins>>

Phases == {"idle", "active", "passive", "breaker", "inflight", "upgrading", "unavailable",
           "success", "successBreaker", "failure", "failureBreaker"}

Init ==
  /\ reliable \in SUBSET Upstreams
  /\ clock = 1
  /\ nextIndex = 0
  /\ active = [u \in Upstreams |-> TRUE]
  /\ passive = [u \in Upstreams |-> NewPassive]
  /\ breaker = [u \in Upstreams |-> NewBreaker]
  /\ pc = [r \in Requests |-> "idle"]
  /\ target = [r \in Requests |-> 0]
  /\ left = [r \in Requests |-> 0]
  /\ at = [r \in Requests |-> 0]
  /\ reports = <<>>
  /\ probes = [u \in Upstreams |-> {}]
  /\ probeWins = [u \in Upstreams |-> 0]

Tick ==
  /\ clock < MaxClock
  /\ clock' = clock + 1
  /\ UNCHANGED <<reliable, nextIndex, active, passive, breaker, pc, target, left, at, reports, probes, probeWins>>

(* An upstream's health checker publishes a verdict. *)
CheckerPublishes(u) ==
  /\ u \in Ailing \ reliable
  /\ active' = [active EXCEPT ![u] = ~@]
  /\ UNCHANGED <<reliable, clock, nextIndex, passive, breaker, pc, target, left, at, reports, probes, probeWins>>
-----------------------------------------------------------------------------
Goto(r, to, time) ==
  /\ pc' = [pc EXCEPT ![r] = to]
  /\ at' = [at EXCEPT ![r] = time]

Scan(r, u, more) ==
  /\ target' = [target EXCEPT ![r] = u]
  /\ left' = [left EXCEPT ![r] = more]

(* r goes on with the upstream it has, or ends. *)
Stay(r) == UNCHANGED <<target, left>>
Leave(r) == Goto(r, "idle", 0) /\ Scan(r, 0, 0)

(* selectUpstream: h.nextIndex.Add(1) - 1. *)
Select(r) ==
  /\ pc[r] = "idle"
  /\ nextIndex' = (nextIndex + 1) % N
  /\ Goto(r, "active", 0)
  /\ Scan(r, nextIndex, N - 1)
  /\ UNCHANGED <<reliable, clock, active, passive, breaker, reports, probes, probeWins>>

(* Mutant: the index does not wrap around. *)
NextCandidateNoWrap(r) ==
  IF left[r] > 0
  THEN Goto(r, "active", 0) /\ Scan(r, target[r] + 1, left[r] - 1)
  ELSE Goto(r, "unavailable", 0) /\ Scan(r, 0, 0)

(* tryAcquire returned false: the loop goes on to the next candidate, or    *)
(* ServeHTTP answers 503 when there is none.                                *)
NextCandidate(r) ==
  IF left[r] > 0
  THEN Goto(r, "active", 0) /\ Scan(r, (target[r] + 1) % N, left[r] - 1)
  ELSE Goto(r, "unavailable", 0) /\ Scan(r, 0, 0)

(* tryAcquire reads the time and asks the health checker. *)
TryActive(r) ==
  /\ pc[r] = "active"
  /\ IF active[target[r]] THEN Goto(r, "passive", clock) /\ Stay(r)
                          ELSE NextCandidate(r)
  /\ UNCHANGED <<reliable, clock, nextIndex, active, passive, breaker, reports, probes, probeWins>>

TryPassive(r) ==
  /\ pc[r] = "passive"
  /\ IF PassiveAvailable(passive[target[r]], at[r])
     THEN Goto(r, "breaker", at[r]) /\ Stay(r)
     ELSE NextCandidate(r)
  /\ UNCHANGED <<reliable, clock, nextIndex, active, passive, breaker, reports, probes, probeWins>>

(* allow admits r to its target, and r goes on to phase to. *)
EnterBreaker(r, to, time) ==
  LET u == target[r]
  IN  /\ BreakerAllows(breaker[u], at[r])
      /\ breaker' = [breaker EXCEPT ![u] = BreakerAllow(@)]
      /\ probes' = [probes EXCEPT ![u] =
                      IF breaker'[u].state = "half_open" THEN @ \cup {r} ELSE @]
      /\ probeWins' = [probeWins EXCEPT ![u] = IF breaker[u].state = "open" THEN 0 ELSE @]
      /\ Goto(r, to, time)
      /\ Scan(r, u, 0)

RefusedByBreaker(r) ==
  /\ ~BreakerAllows(breaker[target[r]], at[r])
  /\ NextCandidate(r)
  /\ UNCHANGED <<breaker, probes, probeWins>>

TryBreaker(r) ==
  /\ pc[r] = "breaker"
  /\ EnterBreaker(r, "inflight", 0) \/ RefusedByBreaker(r)
  /\ UNCHANGED <<reliable, clock, nextIndex, active, passive, reports>>

(* Mutant: the breaker is asked before the passive health. *)
TryAcquireBreakerFirst(r) ==
  \/ TryActive(r)
  \/ /\ pc[r] = "passive"
     /\ EnterBreaker(r, "breaker", at[r]) \/ RefusedByBreaker(r)
     /\ UNCHANGED <<reliable, clock, nextIndex, active, passive, reports>>
  \/ /\ pc[r] = "breaker"
     /\ IF PassiveAvailable(passive[target[r]], at[r])
        THEN Goto(r, "inflight", 0) /\ Stay(r)
        ELSE NextCandidate(r)
     /\ UNCHANGED <<reliable, clock, nextIndex, active, passive, breaker, reports, probes, probeWins>>

TryAcquire(r) == TryActive(r) \/ TryPassive(r) \/ TryBreaker(r)

(* ServeHTTP: 503 no available upstream. *)
Unavailable(r) ==
  /\ pc[r] = "unavailable"
  /\ Leave(r)
  /\ UNCHANGED <<reliable, clock, nextIndex, active, passive, breaker, reports, probes, probeWins>>
-----------------------------------------------------------------------------
(* modifyResponse or handleProxyError calls recordSuccess or recordFailure  *)
(* of the upstream that the request's context carries.                      *)
Finish(r, to, time) ==
  /\ Goto(r, to, time)
  /\ UNCHANGED <<reliable, clock, nextIndex, active, passive, breaker, target, left, reports, probes, probeWins>>

(* An answer below 500; the time recordSuccess reads is only displayed. *)
Answer(r) == pc[r] = "inflight" /\ Finish(r, "success", 0)

(* 5xx, an error, a timeout, or a client that went away: handleProxyError   *)
(* does not ask whose fault it was.  A reliable upstream is therefore one   *)
(* that works and whose clients stay until they are answered.               *)
Fail(r) == pc[r] = "inflight" /\ target[r] \notin reliable /\ Finish(r, "failure", clock)

(* After a 101, ReverseProxy switches protocols or calls the error handler. *)
UpgradeFail(r) == pc[r] = "upgrading" /\ target[r] \notin reliable /\ Finish(r, "failure", clock)

UpgradeDone(r) ==
  /\ pc[r] = "upgrading"
  /\ Leave(r)
  /\ UNCHANGED <<reliable, clock, nextIndex, active, passive, breaker, reports, probes, probeWins>>

Remember(r, outcome) ==
  reports' = IF target[r] = Watched THEN Remembered(reports, outcome) ELSE reports

(* Mutant: after a failed exchange the passive record hears of it twice.    *)
ReportPassiveTwice(r) ==
  /\ \/ /\ pc[r] = "success"
        /\ passive' = [passive EXCEPT ![target[r]] = PassiveRecordSuccess(@)]
        /\ Remember(r, "success")
        /\ Goto(r, "successBreaker", 0)
     \/ /\ pc[r] \in {"failure", "failureBreaker"}
        /\ passive' = [passive EXCEPT ![target[r]] = PassiveRecordFailure(@, at[r])]
        /\ Remember(r, "failure")
        /\ Goto(r, "failureBreaker", at[r])
  /\ UNCHANGED <<reliable, clock, nextIndex, active, breaker, target, left, probes, probeWins>>

(* The first half of upstream.recordSuccess and recordFailure. *)
ReportPassive(r) ==
  /\ \/ /\ pc[r] = "success"
        /\ passive' = [passive EXCEPT ![target[r]] = PassiveRecordSuccess(@)]
        /\ Remember(r, "success")
        /\ Goto(r, "successBreaker", 0)
     \/ /\ pc[r] = "failure"
        /\ passive' = [passive EXCEPT ![target[r]] = PassiveRecordFailure(@, at[r])]
        /\ Remember(r, "failure")
        /\ Goto(r, "failureBreaker", at[r])
  /\ UNCHANGED <<reliable, clock, nextIndex, active, breaker, target, left, probes, probeWins>>

(* The second half.  r is no longer a probe of u. *)
Reported(r, u) ==
  probes' = [probes EXCEPT ![u] = IF breaker'[u].state = "half_open" THEN @ \ {r} ELSE {}]

(* Mutant: a failure is reported to the upstream next in line. *)
ReportFailureElsewhere(r) ==
  LET u == (target[r] + 1) % N
  IN  /\ pc[r] = "failureBreaker"
      /\ breaker' = [breaker EXCEPT ![u] = BreakerRecordFailure(@, at[r])]
      /\ Leave(r)
      /\ Reported(r, u)
      /\ UNCHANGED <<reliable, clock, nextIndex, active, passive, reports, probeWins>>

ReportFailure(r) ==
  LET u == target[r]
  IN  /\ pc[r] = "failureBreaker"
      /\ breaker' = [breaker EXCEPT ![u] = BreakerRecordFailure(@, at[r])]
      /\ Leave(r)
      /\ Reported(r, u)
      /\ UNCHANGED <<reliable, clock, nextIndex, active, passive, reports, probeWins>>

ReportSuccess(r) ==
  LET u == target[r]
  IN  /\ pc[r] = "successBreaker"
      /\ breaker' = [breaker EXCEPT ![u] = BreakerRecordSuccess(@)]
      /\ Leave(r) \/ (Goto(r, "upgrading", 0) /\ Stay(r))
      /\ Reported(r, u)
      /\ probeWins' = [probeWins EXCEPT ![u] = IF r \in probes[u] THEN @ + 1 ELSE @]
      /\ UNCHANGED <<reliable, clock, nextIndex, active, passive, reports>>
-----------------------------------------------------------------------------
Proceed(r) ==
  \/ TryAcquire(r) \/ Unavailable(r) \/ Answer(r) \/ Fail(r)
  \/ UpgradeFail(r) \/ UpgradeDone(r)
  \/ ReportPassive(r) \/ ReportFailure(r) \/ ReportSuccess(r)

Next ==
  \/ Tick
  \/ \E u \in Upstreams : CheckerPublishes(u)
  \/ \E r \in Requests : Select(r) \/ Proceed(r)

Spec == Init /\ [][Next]_vars
-----------------------------------------------------------------------------
TypeOK ==
  /\ reliable \subseteq Upstreams
  /\ clock \in Nat
  /\ nextIndex \in Upstreams
  /\ active \in [Upstreams -> BOOLEAN]
  /\ passive \in [Upstreams -> PassiveRecords]
  /\ breaker \in [Upstreams -> Breakers]
  /\ pc \in [Requests -> Phases]
  /\ target \in [Requests -> Upstreams]
  /\ left \in [Requests -> 0 .. (N - 1)]
  /\ at \in [Requests -> Nat]
  /\ reports \in Seq({"success", "failure"})
  /\ probes \in [Upstreams -> SUBSET Requests]
  /\ probeWins \in [Upstreams -> Nat]

(* An upstream none of whose exchanges fails is kept in service whatever    *)
(* happens at the others: its breaker stays closed, it stays healthy, and   *)
(* no request is turned away (docs/design.md:105-110).                      *)
Isolation ==
  /\ \A u \in reliable : breaker[u] = NewBreaker /\ passive[u] = NewPassive
  /\ reliable # {} => \A r \in Requests : pc[r] # "unavailable"

(* The phase of r in the eyes of the breaker of the watched upstream. *)
WatchedPhase(r) ==
  IF target[r] # Watched THEN "idle"
  ELSE CASE pc[r] \in {"passive", "breaker"} -> "admission"
         [] pc[r] \in {"inflight", "upgrading"} -> pc[r]
         [] pc[r] \in {"success", "successBreaker"} -> "success"
         [] pc[r] \in {"failure", "failureBreaker"} -> "failure"
         [] OTHER -> "idle"

WatchedBreaker ==
  INSTANCE CircuitBreaker
  WITH breaker   <- breaker[Watched],
       pc        <- [r \in Requests |-> WatchedPhase(r)],
       at        <- [r \in Requests |-> IF target[r] = Watched THEN at[r] ELSE 0],
       probes    <- probes[Watched],
       probeWins <- probeWins[Watched]

(* The breaker of any upstream, driven by the route's requests, behaves as  *)
(* CircuitBreaker says: no request enters it twice, leaves it without       *)
(* reporting or reports to another upstream's breaker.  All that is proved  *)
(* of CircuitBreaker therefore holds of it.                                 *)
ImplementsBreaker == WatchedBreaker!Spec

(* The phase of r in the eyes of the passive record of the watched upstream:*)
(* a request the record admitted may still be refused by the breaker, and   *)
(* one that has reported a success may still report a failure.              *)
WatchedPassivePhase(r) ==
  IF target[r] # Watched THEN "idle"
  ELSE CASE pc[r] = "passive" -> "admission"
         [] pc[r] \in {"breaker", "inflight"} -> "inflight"
         [] pc[r] \in {"success", "failure"} -> pc[r]
         [] pc[r] \in {"successBreaker", "upgrading"} -> "upgrading"
         [] OTHER -> "idle"

WatchedPassive ==
  INSTANCE PassiveHealth
  WITH passive <- passive[Watched],
       pc      <- [r \in Requests |-> WatchedPassivePhase(r)],
       at      <- [r \in Requests |->
                     IF WatchedPassivePhase(r) \in {"admission", "failure"} THEN at[r] ELSE 0]

(* The passive record of any upstream, asked before the breaker and told    *)
(* of an outcome before it, behaves as PassiveHealth says: every report it  *)
(* gets is one of a request it admitted, in the order of its own lock.      *)
ImplementsPassive == WatchedPassive!Spec
=============================================================================

----------------------------- MODULE PassiveHealth -----------------------------
(***************************************************************************)
(* The passive health record of one upstream and the request goroutines    *)
(* that ask for admission (upstream.tryAcquire) and report how their       *)
(* exchange went (upstream.recordSuccess, upstream.recordFailure).  The    *)
(* time is read before the record's lock is taken, and requests admitted   *)
(* before an ejection report after it.                                     *)
(***************************************************************************)
EXTENDS PassiveHealthState, FiniteSets

CONSTANTS
  Requests,   \* request goroutines; each serves any number of requests in turn
  MaxClock    \* bound on the clock

ASSUME RequestsAssumption == IsFiniteSet(Requests) /\ MaxClock \in Nat

VARIABLES
  clock,      \* time.Now()
  passive,    \* the record's fields
  pc,         \* where each request is
  at,         \* the time a request has read and not used yet
  reports     \* history: the latest reports, oldest first

vars == <<clock, passive, pc, at, reports>>

Phases == {"idle", "admission", "inflight", "success", "failure", "upgrading"}

TypeOK ==
  /\ clock \in Nat
  /\ passive \in PassiveRecords
  /\ pc \in [Requests -> Phases]
  /\ at \in [Requests -> Nat]
  /\ reports \in Seq({"success", "failure"})

Init ==
  /\ clock = 1
  /\ passive = NewPassive
  /\ pc = [r \in Requests |-> "idle"]
  /\ at = [r \in Requests |-> 0]
  /\ reports = <<>>

Tick ==
  /\ clock < MaxClock
  /\ clock' = clock + 1
  /\ UNCHANGED <<passive, pc, at, reports>>

(* r moves from one phase to another with the time it reads, or with none. *)
Move(r, from, to, time) ==
  /\ pc[r] = from
  /\ pc' = [pc EXCEPT ![r] = to]
  /\ at' = [at EXCEPT ![r] = time]

Remember(outcome) == reports' = Remembered(reports, outcome)
-----------------------------------------------------------------------------
(* tryAcquire reads the time ... *)
Arrive(r) ==
  /\ Move(r, "idle", "admission", clock)
  /\ UNCHANGED <<clock, passive, reports>>

(* ... and calls available(now). *)
Admit(r) ==
  /\ PassiveAvailable(passive, at[r])
  /\ Move(r, "admission", "inflight", 0)
  /\ UNCHANGED <<clock, passive, reports>>

Refuse(r) ==
  /\ ~PassiveAvailable(passive, at[r])
  /\ Move(r, "admission", "idle", 0)
  /\ UNCHANGED <<clock, passive, reports>>

(* The breaker, asked next, refuses: the upstream gets no report. *)
TurnAway(r) ==
  /\ Move(r, "inflight", "idle", 0)
  /\ UNCHANGED <<clock, passive, reports>>

(* The exchange ends well (an answer below 500) or badly (5xx, an error, a  *)
(* timeout), and upstream.recordSuccess or recordFailure reads the time,    *)
(* which for a success is only displayed.                                   *)
Answer(r) ==
  /\ Move(r, "inflight", "success", 0)
  /\ UNCHANGED <<clock, passive, reports>>

Fail(r) ==
  /\ Move(r, "inflight", "failure", clock)
  /\ UNCHANGED <<clock, passive, reports>>

(* recordSuccess takes the lock; after a 101 the exchange goes on. *)
ReportSuccess(r) ==
  /\ \E next \in {"idle", "upgrading"} : Move(r, "success", next, 0)
  /\ passive' = PassiveRecordSuccess(passive)
  /\ Remember("success")
  /\ UNCHANGED clock

(* recordFailure takes the lock. *)
ReportFailure(r) ==
  /\ Move(r, "failure", "idle", 0)
  /\ passive' = PassiveRecordFailure(passive, at[r])
  /\ Remember("failure")
  /\ UNCHANGED clock

(* After a 101 the protocol switch fails and the error handler reports a    *)
(* failure for the same request, or it succeeds and nothing is reported.    *)
UpgradeFail(r) ==
  /\ Move(r, "upgrading", "failure", clock)
  /\ UNCHANGED <<clock, passive, reports>>

UpgradeDone(r) ==
  /\ Move(r, "upgrading", "idle", 0)
  /\ UNCHANGED <<clock, passive, reports>>

Next ==
  \/ Tick
  \/ \E r \in Requests :
       \/ Arrive(r) \/ Admit(r) \/ Refuse(r) \/ TurnAway(r) \/ Answer(r) \/ Fail(r)
       \/ ReportSuccess(r) \/ ReportFailure(r) \/ UpgradeFail(r) \/ UpgradeDone(r)

Spec == Init /\ [][Next]_vars
-----------------------------------------------------------------------------
(* The last n reports, in the order in which they took the lock, are all    *)
(* the same outcome.                                                        *)
LastAre(outcome, n) ==
  /\ Len(reports) >= n
  /\ \A i \in (Len(reports) - n + 1) .. Len(reports) : reports[i] = outcome

(* The verdict never lags behind the reports: PassiveThreshold failures in  *)
(* a row mean unhealthy and SuccessThreshold successes in a row healthy,    *)
(* whichever requests they came from.                                       *)
VerdictFollowsReports ==
  /\ LastAre("failure", PassiveThreshold) => passive.unhealthy
  /\ LastAre("success", SuccessThreshold) => ~passive.unhealthy

(* The verdict never changes without such a streak: no ejection on failures *)
(* with a success in between, no recovery on successes with a failure in    *)
(* between.                                                                 *)
VerdictNeedsStreak ==
  [][/\ ~passive.unhealthy /\ passive'.unhealthy => LastAre("failure", PassiveThreshold)'
     /\ passive.unhealthy /\ ~passive'.unhealthy => LastAre("success", SuccessThreshold)']_vars

(* An ejected upstream becomes available again at most unhealthyDuration    *)
(* from now, and a healthy one carries nothing over from its last ejection. *)
EjectionInReach ==
  IF passive.unhealthy
  THEN /\ passive.retryAfter \in 1 .. (clock + UnhealthyDuration)
       /\ passive.consecutiveSuccesses < SuccessThreshold
  ELSE /\ passive.retryAfter = 0
       /\ passive.consecutiveSuccesses = 0
       /\ passive.consecutiveFailures < PassiveThreshold
=============================================================================

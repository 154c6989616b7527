------------------------ MODULE CircuitBreakerProofs ------------------------
(***************************************************************************)
(* Proofs about CircuitBreaker for any finite set of requests and any      *)
(* positive settings.  The properties that TLC checks are not inductive as *)
(* they stand: they need what the request goroutines hold (Pending) and    *)
(* that a time that was read is not in the future (TimesRead).             *)
(***************************************************************************)
EXTENDS CircuitBreaker, FiniteSetTheorems, TLAPS

(* A probe is a request that has still to report, and only a half-open     *)
(* period has probes.                                                      *)
Pending ==
  /\ probes \subseteq {r \in Requests : pc[r] \in {"inflight", "success", "failure"}}
  /\ breaker.state # "half_open" => probes = {}

(* A time that a request has read and not used is not in the future. *)
TimesRead ==
  /\ clock >= 1
  /\ \A r \in Requests :
       pc[r] \in {"admission", "failure"} => at[r] \in 1 .. clock

IInv == TypeOK /\ Pending /\ TimesRead /\ SlotsBacked /\ CountersAgree /\ RetryInReach
-----------------------------------------------------------------------------
(* The critical sections keep the breaker a breaker, whatever time they    *)
(* work with.                                                              *)
LEMMA OperatorTypes ==
  ASSUME NEW c \in Breakers, NEW now \in Nat
  PROVE  /\ BreakerAllow(c) \in Breakers
         /\ BreakerRecordSuccess(c) \in Breakers
         /\ BreakerRecordFailure(c, now) \in Breakers
<1> USE DEF Breakers, BreakerStates
<1>1. BreakerAllow(c) \in Breakers
  <2>1. EnterHalfOpen(c) \in Breakers
    BY DEF EnterHalfOpen
  <2>2. \A b \in Breakers : TakeSlot(b) \in Breakers
    BY DEF TakeSlot
  <2>3. CASE c.state = "closed"
    BY <2>3 DEF BreakerAllow
  <2>4. CASE c.state = "open"
    BY <2>1, <2>2, <2>4 DEF BreakerAllow
  <2>5. CASE c.state = "half_open"
    BY <2>2, <2>5 DEF BreakerAllow
  <2>6. QED
    BY <2>3, <2>4, <2>5
<1>2. ReleaseSlot(c) \in Breakers
  BY DEF ReleaseSlot
<1>3. BreakerRecordSuccess(c) \in Breakers
  <2> DEFINE s == [ReleaseSlot(c) EXCEPT !.halfOpenSuccesses = @ + 1]
  <2>1. s \in Breakers
    BY <1>2
  <2>2. CloseLocked(s) \in Breakers
    BY <2>1 DEF CloseLocked
  <2> HIDE DEF s
  <2>3. CASE c.state = "closed"
    BY <2>3 DEF BreakerRecordSuccess
  <2>4. CASE c.state = "open"
    BY <2>4 DEF BreakerRecordSuccess
  <2>5. CASE c.state = "half_open"
    BY <2>1, <2>2, <2>5 DEF BreakerRecordSuccess, s
  <2>6. QED
    BY <2>3, <2>4, <2>5
<1>4. BreakerRecordFailure(c, now) \in Breakers
  <2>1. [c EXCEPT !.consecutiveFailures = @ + 1] \in Breakers
    OBVIOUS
  <2>0. now + OpenDuration \in Nat
    BY BreakerAssumption
  <2>2. \A b \in Breakers : OpenLocked(b, now) \in Breakers
    BY <2>0 DEF OpenLocked
  <2>3. CASE c.state = "closed"
    BY <2>1, <2>2, <2>3 DEF BreakerRecordFailure
  <2>4. CASE c.state = "open"
    BY <2>4, BreakerAssumption DEF BreakerRecordFailure
  <2>5. CASE c.state = "half_open"
    BY <1>2, <2>2, <2>5 DEF BreakerRecordFailure
  <2>6. QED
    BY <2>3, <2>4, <2>5
<1>5. QED
  BY <1>1, <1>3, <1>4

(* What admission does to the state and to the trial counters. *)
LEMMA AllowEffect ==
  ASSUME NEW c \in Breakers
  PROVE  LET d == BreakerAllow(c)
         IN  /\ c.state = "closed" => d = c
             /\ c.state = "open" =>
                  d.state = "half_open" /\ d.halfOpenInFlight = 1 /\ d.halfOpenSuccesses = 0
             /\ c.state = "half_open" =>
                  /\ d.state = "half_open"
                  /\ d.halfOpenInFlight = c.halfOpenInFlight + 1
                  /\ d.halfOpenSuccesses = c.halfOpenSuccesses
  BY DEF Breakers, BreakerStates, BreakerAllow, TakeSlot, EnterHalfOpen

(* What a success does: it resets the failures, counts for the half-open   *)
(* period, or closes the breaker.                                          *)
LEMMA SuccessEffect ==
  ASSUME NEW c \in Breakers
  PROVE  LET d == BreakerRecordSuccess(c)
         IN  /\ c.state = "closed" => d = [c EXCEPT !.consecutiveFailures = 0]
             /\ c.state = "open" => d = c
             /\ c.state = "half_open" =>
                  \/ /\ d.state = "half_open"
                     /\ d.halfOpenInFlight =
                          IF c.halfOpenInFlight > 0 THEN c.halfOpenInFlight - 1 ELSE 0
                     /\ d.halfOpenSuccesses = c.halfOpenSuccesses + 1
                     /\ d.halfOpenSuccesses < HalfOpenMaxRequests
                  \/ /\ d.state = "closed"
                     /\ d.consecutiveFailures = 0
                     /\ d.halfOpenInFlight = 0
                     /\ d.halfOpenSuccesses = 0
                     /\ d.nextAttemptAt = 0
<1> USE DEF Breakers, BreakerStates
<1>1. CASE c.state # "half_open"
  BY <1>1 DEF BreakerRecordSuccess
<1>2. CASE c.state = "half_open"
  <2> DEFINE s == [ReleaseSlot(c) EXCEPT !.halfOpenSuccesses = @ + 1]
  <2>1. BreakerRecordSuccess(c) =
          IF s.halfOpenSuccesses >= HalfOpenMaxRequests THEN CloseLocked(s) ELSE s
    BY <1>2 DEF BreakerRecordSuccess
  <2>2. /\ s \in Breakers
        /\ s.state = "half_open"
        /\ s.halfOpenSuccesses = c.halfOpenSuccesses + 1
        /\ s.halfOpenInFlight =
             IF c.halfOpenInFlight > 0 THEN c.halfOpenInFlight - 1 ELSE 0
    <3>1. /\ ReleaseSlot(c) \in Breakers
          /\ ReleaseSlot(c).state = "half_open"
          /\ ReleaseSlot(c).halfOpenSuccesses = c.halfOpenSuccesses
          /\ ReleaseSlot(c).halfOpenInFlight =
               IF c.halfOpenInFlight > 0 THEN c.halfOpenInFlight - 1 ELSE 0
      BY <1>2 DEF ReleaseSlot
    <3>2. QED
      BY <3>1
  <2> HIDE DEF s
  <2>3. /\ CloseLocked(s).state = "closed"
        /\ CloseLocked(s).consecutiveFailures = 0
        /\ CloseLocked(s).halfOpenInFlight = 0
        /\ CloseLocked(s).halfOpenSuccesses = 0
        /\ CloseLocked(s).nextAttemptAt = 0
    BY <2>2 DEF CloseLocked
  <2>4. QED
    BY <1>2, <2>1, <2>2, <2>3, BreakerAssumption
<1>3. QED
  BY <1>1, <1>2

(* What a failure does: it counts towards the threshold, or (re)opens the  *)
(* breaker for openDuration from the time it carries.                      *)
LEMMA FailureEffect ==
  ASSUME NEW c \in Breakers, NEW now \in Nat
  PROVE  LET d == BreakerRecordFailure(c, now)
         IN  \/ /\ c.state = "closed"
                /\ d = [c EXCEPT !.consecutiveFailures = @ + 1]
                /\ d.consecutiveFailures < BreakerThreshold
             \/ /\ d.state = "open"
                /\ d.nextAttemptAt = now + OpenDuration
                /\ c.state # "open" => d.halfOpenInFlight = 0 /\ d.halfOpenSuccesses = 0
                /\ c.state = "open" => /\ d.halfOpenInFlight = c.halfOpenInFlight
                                       /\ d.halfOpenSuccesses = c.halfOpenSuccesses
  BY BreakerAssumption
  DEF Breakers, BreakerStates, BreakerRecordFailure, ReleaseSlot, OpenLocked
-----------------------------------------------------------------------------
(* The invariant holds of a new breaker that no request uses. *)
LEMMA InitIInv == Init => IInv
<1> SUFFICES ASSUME Init PROVE IInv
  OBVIOUS
<1> USE DEF Init, NewBreaker
<1>1. TypeOK
  BY DEF TypeOK, Breakers, BreakerStates, Phases
<1>2. Pending /\ TimesRead
  BY DEF Pending, TimesRead
<1>3. SlotsBacked /\ CountersAgree /\ RetryInReach
  BY BreakerAssumption DEF SlotsBacked, CountersAgree, RetryInReach
<1>4. QED
  BY <1>1, <1>2, <1>3 DEF IInv

(* A step that leaves the breaker and its probes alone keeps the invariant *)
(* when no probe drops out and the times that are read are current.        *)
LEMMA QuietStep ==
  ASSUME IInv, TypeOK', Pending', TimesRead', clock' >= clock,
         UNCHANGED <<breaker, probes>>
  PROVE  IInv'
<1>1. SlotsBacked'
  BY DEF IInv, SlotsBacked, Pending
<1>2. CountersAgree'
  BY DEF IInv, CountersAgree
<1>3. RetryInReach'
  BY BreakerAssumption DEF IInv, TypeOK, RetryInReach, Breakers
<1>4. QED
  BY <1>1, <1>2, <1>3 DEF IInv

(* Requests move between phases; the breaker is left alone. *)
LEMMA MoveStep ==
  ASSUME IInv, NEW r \in Requests, NEW from \in Phases, NEW to \in Phases,
         Move(r, from, to, IF to \in {"admission", "failure"} THEN clock ELSE 0),
         from \in {"inflight", "success", "failure"} =>
           to \in {"inflight", "success", "failure"},
         UNCHANGED <<clock, breaker, probes, probeWins>>
  PROVE  IInv'
<1>1. TypeOK'
  BY DEF IInv, TypeOK, Move
<1>2. Pending'
  BY DEF IInv, TypeOK, Pending, Move
<1>3. TimesRead'
  BY DEF IInv, TypeOK, TimesRead, Move
<1>4. clock' >= clock
  BY DEF IInv, TypeOK
<1>5. QED
  BY <1>1, <1>2, <1>3, <1>4, QuietStep

(* Every step keeps the invariant. *)
LEMMA StepIInv == IInv /\ [Next]_vars => IInv'
<1> SUFFICES ASSUME IInv, [Next]_vars PROVE IInv'
  OBVIOUS
<1> USE RequestsAssumption
<1>0. /\ TypeOK /\ Pending /\ TimesRead
      /\ SlotsBacked /\ CountersAgree /\ RetryInReach
  BY DEF IInv
<1>1. CASE Tick
  <2>1. TypeOK' /\ Pending' /\ TimesRead' /\ clock' >= clock
    BY <1>0, <1>1 DEF Tick, TypeOK, Pending, TimesRead
  <2>2. QED
    BY <2>1, <1>1, QuietStep DEF Tick
<1>2. ASSUME NEW r \in Requests, Arrive(r) PROVE IInv'
  BY <1>2, MoveStep DEF Arrive, Phases
<1>3. ASSUME NEW r \in Requests, Skip(r) \/ Refuse(r) PROVE IInv'
  BY <1>3, MoveStep DEF Skip, Refuse, Phases
<1>4. ASSUME NEW r \in Requests, Answer(r) PROVE IInv'
  BY <1>4, MoveStep DEF Answer, Phases
<1>5. ASSUME NEW r \in Requests, Fail(r) PROVE IInv'
  BY <1>5, MoveStep DEF Fail, Phases
<1>6. ASSUME NEW r \in Requests, UpgradeFail(r) PROVE IInv'
  BY <1>6, MoveStep DEF UpgradeFail, Phases
<1>7. ASSUME NEW r \in Requests, UpgradeDone(r) PROVE IInv'
  BY <1>7, MoveStep DEF UpgradeDone, Phases
<1>8. ASSUME NEW r \in Requests, Admit(r) PROVE IInv'
  <2>1. /\ breaker' = BreakerAllow(breaker)
        /\ pc[r] = "admission"
        /\ pc' = [pc EXCEPT ![r] = "inflight"]
        /\ at' = [at EXCEPT ![r] = 0]
        /\ clock' = clock
    BY <1>8 DEF Admit, Move
  <2>2. breaker \in Breakers /\ breaker' \in Breakers
    BY <1>0, <2>1, OperatorTypes DEF TypeOK
  <2>3. TypeOK'
    BY <1>0, <1>8, <2>1, <2>2 DEF TypeOK, Admit, Phases
  <2>4. IsFiniteSet(probes) /\ Cardinality(probes) \in Nat
    BY <1>0, FS_Subset, FS_CardinalityType DEF TypeOK
  <2>5. r \notin probes
    BY <1>0, <2>1 DEF Pending
  <2>6. Cardinality(probes \cup {r}) = Cardinality(probes) + 1
    BY <2>4, <2>5, FS_AddElement
  <2>7. TimesRead'
    BY <1>0, <2>1 DEF TypeOK, TimesRead
  <2>8. CASE breaker.state = "closed"
    <3>1. breaker' = breaker /\ probes' = probes
      BY <1>8, <2>1, <2>2, <2>8, AllowEffect DEF Admit
    <3>2. Pending'
      BY <1>0, <2>1, <3>1 DEF TypeOK, Pending
    <3>3. QED
      BY <1>0, <2>1, <2>3, <2>7, <3>1, <3>2, QuietStep DEF TypeOK
  <2>9. CASE breaker.state = "open"
    <3>1. /\ breaker'.state = "half_open"
          /\ breaker'.halfOpenInFlight = 1
          /\ breaker'.halfOpenSuccesses = 0
          /\ probes' = probes \cup {r}
          /\ Cardinality(probes) >= 0
      BY <1>8, <2>1, <2>2, <2>4, <2>9, AllowEffect DEF Admit
    <3>2. Pending'
      BY <1>0, <2>1, <3>1 DEF TypeOK, Pending
    <3>3. SlotsBacked'
      BY <2>4, <2>6, <3>1, <3>2 DEF SlotsBacked, Pending
    <3>4. CountersAgree' /\ RetryInReach'
      BY <3>1, BreakerAssumption DEF CountersAgree, RetryInReach
    <3>5. QED
      BY <2>3, <2>7, <3>2, <3>3, <3>4 DEF IInv
  <2>10. CASE breaker.state = "half_open"
    <3>1. /\ breaker'.state = "half_open"
          /\ breaker'.halfOpenInFlight = breaker.halfOpenInFlight + 1
          /\ breaker'.halfOpenSuccesses = breaker.halfOpenSuccesses
          /\ probes' = probes \cup {r}
          /\ breaker.halfOpenInFlight < HalfOpenMaxRequests
      BY <1>8, <2>1, <2>2, <2>10, AllowEffect DEF Admit, BreakerAllows
    <3>2. Pending'
      BY <1>0, <2>1, <3>1 DEF TypeOK, Pending
    <3>3. SlotsBacked'
      BY <1>0, <2>2, <2>4, <2>6, <2>10, <3>1, <3>2 DEF SlotsBacked, Pending, Breakers
    <3>4. CountersAgree' /\ RetryInReach'
      BY <1>0, <2>2, <3>1, BreakerAssumption DEF CountersAgree, RetryInReach, Breakers
    <3>5. QED
      BY <2>3, <2>7, <3>2, <3>3, <3>4 DEF IInv
  <2>11. QED
    BY <2>2, <2>8, <2>9, <2>10 DEF Breakers, BreakerStates
<1>9. ASSUME NEW r \in Requests, ReportSuccess(r) PROVE IInv'
  <2>1. PICK next \in {"idle", "upgrading"} : Move(r, "success", next, 0)
    BY <1>9 DEF ReportSuccess
  <2>2. /\ breaker' = BreakerRecordSuccess(breaker)
        /\ pc' = [pc EXCEPT ![r] = next]
        /\ at' = [at EXCEPT ![r] = 0]
        /\ clock' = clock
        /\ probes' = IF breaker'.state = "half_open" THEN probes \ {r} ELSE {}
        /\ next \in Phases
    BY <1>9, <2>1 DEF ReportSuccess, Move, Phases
  <2>3. breaker \in Breakers /\ breaker' \in Breakers
    BY <1>0, <2>2, OperatorTypes DEF TypeOK
  <2>4. TypeOK'
    BY <1>0, <1>9, <2>2, <2>3 DEF TypeOK, ReportSuccess
  <2>5. TimesRead'
    BY <1>0, <2>1, <2>2 DEF TypeOK, TimesRead
  <2>6. Pending'
    BY <1>0, <2>2 DEF TypeOK, Pending
  <2>7. IsFiniteSet(probes) /\ Cardinality(probes) \in Nat
    BY <1>0, FS_Subset, FS_CardinalityType DEF TypeOK
  <2>8. Cardinality(probes \ {r}) =
          IF r \in probes THEN Cardinality(probes) - 1 ELSE Cardinality(probes)
    BY <2>7, FS_RemoveElement
  <2>9. CASE breaker.state = "closed"
    <3>1. /\ breaker'.state = "closed"
          /\ breaker'.consecutiveFailures = 0
          /\ breaker'.halfOpenInFlight = breaker.halfOpenInFlight
          /\ breaker'.halfOpenSuccesses = breaker.halfOpenSuccesses
          /\ breaker'.nextAttemptAt = breaker.nextAttemptAt
      BY <2>2, <2>3, <2>9, SuccessEffect DEF Breakers
    <3>2. SlotsBacked' /\ CountersAgree' /\ RetryInReach'
      BY <1>0, <2>9, <3>1, BreakerAssumption
      DEF SlotsBacked, CountersAgree, RetryInReach
    <3>3. QED
      BY <2>4, <2>5, <2>6, <3>2 DEF IInv
  <2>10. CASE breaker.state = "open"
    <3>1. breaker' = breaker /\ probes' = probes
      BY <1>0, <2>2, <2>3, <2>10, SuccessEffect DEF Pending
    <3>2. QED
      BY <1>0, <2>2, <2>4, <2>5, <2>6, <3>1, QuietStep DEF TypeOK
  <2>11. CASE breaker.state = "half_open"
    <3>1. CASE breaker'.state = "half_open"
      <4>1. /\ breaker'.halfOpenInFlight =
                 IF breaker.halfOpenInFlight > 0 THEN breaker.halfOpenInFlight - 1 ELSE 0
            /\ breaker'.halfOpenSuccesses < HalfOpenMaxRequests
        BY <2>2, <2>3, <2>11, <3>1, SuccessEffect
      <4>2. breaker.halfOpenInFlight \in Nat
        BY <2>3 DEF Breakers
      <4>3. SlotsBacked'
        <5>1. probes' = probes \ {r} /\ breaker.halfOpenInFlight <= Cardinality(probes)
          BY <1>0, <2>2, <2>11, <3>1 DEF SlotsBacked
        <5>2. breaker'.halfOpenInFlight <= Cardinality(probes')
          <6>1. Cardinality(probes') \in {Cardinality(probes), Cardinality(probes) - 1}
            BY <2>8, <5>1
          <6>2. Cardinality(probes') \in Nat
            BY <2>4, FS_Subset, FS_CardinalityType DEF TypeOK
          <6>3. QED
            BY <2>7, <4>1, <4>2, <5>1, <6>1, <6>2
        <5>3. QED
          BY <2>6, <5>2 DEF SlotsBacked, Pending
      <4>4. CountersAgree' /\ RetryInReach'
        BY <1>0, <3>1, <4>1, <4>2, BreakerAssumption DEF CountersAgree, RetryInReach
      <4>5. QED
        BY <2>4, <2>5, <2>6, <4>3, <4>4 DEF IInv
    <3>2. CASE breaker'.state # "half_open"
      <4>1. /\ breaker'.state = "closed"
            /\ breaker'.consecutiveFailures = 0
            /\ breaker'.halfOpenInFlight = 0
            /\ breaker'.halfOpenSuccesses = 0
            /\ breaker'.nextAttemptAt = 0
        BY <2>2, <2>3, <2>11, <3>2, SuccessEffect
      <4>2. SlotsBacked' /\ CountersAgree' /\ RetryInReach'
        BY <4>1, BreakerAssumption DEF SlotsBacked, CountersAgree, RetryInReach
      <4>3. QED
        BY <2>4, <2>5, <2>6, <4>2 DEF IInv
    <3>3. QED
      BY <3>1, <3>2
  <2>12. QED
    BY <2>3, <2>9, <2>10, <2>11 DEF Breakers, BreakerStates
<1>10. ASSUME NEW r \in Requests, ReportFailure(r) PROVE IInv'
  <2>1. /\ breaker' = BreakerRecordFailure(breaker, at[r])
        /\ pc[r] = "failure"
        /\ pc' = [pc EXCEPT ![r] = "idle"]
        /\ at' = [at EXCEPT ![r] = 0]
        /\ clock' = clock
        /\ probes' = IF breaker'.state = "half_open" THEN probes \ {r} ELSE {}
    BY <1>10 DEF ReportFailure, Move
  <2>2. at[r] \in 1 .. clock /\ clock \in Nat
    BY <1>0, <2>1 DEF TimesRead, TypeOK
  <2>3. breaker \in Breakers /\ breaker' \in Breakers
    BY <1>0, <2>1, OperatorTypes DEF TypeOK
  <2>4. TypeOK'
    BY <1>0, <1>10, <2>1, <2>3 DEF TypeOK, ReportFailure, Phases
  <2>5. TimesRead' /\ Pending'
    BY <1>0, <2>1 DEF TypeOK, TimesRead, Pending
  <2>6. CASE breaker'.state # "open"
    <3>1. /\ breaker.state = "closed"
          /\ breaker'.state = "closed"
          /\ breaker'.consecutiveFailures < BreakerThreshold
          /\ breaker'.halfOpenInFlight = breaker.halfOpenInFlight
          /\ breaker'.halfOpenSuccesses = breaker.halfOpenSuccesses
          /\ breaker'.nextAttemptAt = breaker.nextAttemptAt
      BY <2>1, <2>2, <2>3, <2>6, FailureEffect DEF Breakers
    <3>2. SlotsBacked' /\ CountersAgree' /\ RetryInReach'
      BY <1>0, <3>1 DEF SlotsBacked, CountersAgree, RetryInReach
    <3>3. QED
      BY <2>4, <2>5, <3>2 DEF IInv
  <2>7. CASE breaker'.state = "open"
    <3>1. /\ breaker'.nextAttemptAt = at[r] + OpenDuration
          /\ breaker'.halfOpenInFlight = 0
          /\ breaker'.halfOpenSuccesses = 0
      BY <1>0, <2>1, <2>2, <2>3, <2>7, FailureEffect DEF Breakers, CountersAgree
    <3>2. RetryInReach'
      BY <2>1, <2>2, <2>7, <3>1, BreakerAssumption DEF RetryInReach
    <3>3. SlotsBacked' /\ CountersAgree'
      BY <2>7, <3>1, BreakerAssumption DEF SlotsBacked, CountersAgree
    <3>4. QED
      BY <2>4, <2>5, <3>2, <3>3 DEF IInv
  <2>8. QED
    BY <2>6, <2>7
<1>11. CASE UNCHANGED vars
  <2>1. TypeOK' /\ Pending' /\ TimesRead' /\ clock' >= clock
    BY <1>0, <1>11 DEF vars, TypeOK, Pending, TimesRead
  <2>2. QED
    BY <2>1, <1>11, QuietStep DEF vars
<1>12. QED
  BY <1>1, <1>2, <1>3, <1>4, <1>5, <1>6, <1>7, <1>8, <1>9, <1>10, <1>11
  DEF Next, Proceed

(* The invariant holds in every reachable state. *)
LEMMA Invariance == Spec => []IInv
  BY InitIInv, StepIInv, PTL DEF Spec

(* The breaker's fields keep their types; in particular halfOpenInFlight   *)
(* never goes below zero, although requests that were never counted give   *)
(* slots back.                                                             *)
THEOREM TypeCorrect == Spec => []TypeOK
<1>1. IInv => TypeOK
  BY DEF IInv
<1>2. QED
  BY <1>1, Invariance, PTL

(* Every half-open slot in use belongs to a probe that has still to report *)
(* through modifyResponse or handleProxyError.                             *)
THEOREM SlotsAreBacked == Spec => []SlotsBacked
<1>1. IInv => SlotsBacked
  BY DEF IInv
<1>2. QED
  BY <1>1, Invariance, PTL

(* The counters of allow, recordSuccess and recordFailure agree with the   *)
(* breaker's state.                                                        *)
THEOREM CountersAreSound == Spec => []CountersAgree
<1>1. IInv => CountersAgree
  BY DEF IInv
<1>2. QED
  BY <1>1, Invariance, PTL

(* An open breaker tries again at most openDuration from now, whatever the *)
(* order of the failures that recordFailure saw.                           *)
THEOREM RetryStaysInReach == Spec => []RetryInReach
<1>1. IInv => RetryInReach
  BY DEF IInv
<1>2. QED
  BY <1>1, Invariance, PTL

(* The breaker follows the documented transitions, and it leaves the open  *)
(* state only through allow, when nextAttemptAt has come, with one probe.  *)
THEOREM MovesAreLegal == Spec => LegalMoves
<1> DEFINE Legal ==
      /\ breaker.state = "closed" => breaker'.state \in {"closed", "open"}
      /\ breaker.state = "half_open" => breaker'.state \in BreakerStates
      /\ breaker.state = "open" =>
           \/ breaker'.state = "open"
           \/ /\ breaker'.state = "half_open"
              /\ breaker.nextAttemptAt <= clock
              /\ breaker'.halfOpenInFlight = 1
<1>1. IInv /\ [Next]_vars => [Legal]_vars
  <2> SUFFICES ASSUME IInv, Next PROVE Legal
    BY DEF vars
  <2>0. TypeOK /\ TimesRead /\ breaker \in Breakers /\ breaker' \in Breakers
    BY StepIInv DEF IInv, TypeOK
  <2>1. CASE breaker' = breaker
    BY <2>0, <2>1 DEF Breakers, BreakerStates
  <2>2. ASSUME NEW r \in Requests, Admit(r) PROVE Legal
    <3>1. /\ breaker' = BreakerAllow(breaker)
          /\ BreakerAllows(breaker, at[r])
          /\ at[r] \in 1 .. clock
      BY <2>0, <2>2 DEF Admit, Move, TimesRead
    <3>2. breaker.state = "open" => breaker.nextAttemptAt <= clock
      BY <2>0, <3>1 DEF BreakerAllows, Breakers, TypeOK
    <3>3. QED
      BY <2>0, <3>1, <3>2, AllowEffect DEF Breakers, BreakerStates
  <2>3. ASSUME NEW r \in Requests, ReportSuccess(r) PROVE Legal
    BY <2>0, <2>3, SuccessEffect DEF ReportSuccess, Breakers, BreakerStates
  <2>4. ASSUME NEW r \in Requests, ReportFailure(r) PROVE Legal
    <3>1. at[r] \in Nat
      BY <2>0, <2>4 DEF TypeOK
    <3>2. QED
      BY <2>0, <2>4, <3>1, FailureEffect DEF ReportFailure, Breakers, BreakerStates
  <2>5. QED
    BY <2>1, <2>2, <2>3, <2>4
    DEF Next, Proceed, Tick, Arrive, Skip, Refuse, Answer, Fail, UpgradeFail, UpgradeDone
<1>2. QED
  BY <1>1, Invariance, PTL DEF Spec, LegalMoves
=============================================================================

-------------------------- MODULE PassiveHealthProofs --------------------------
(***************************************************************************)
(* Proofs about PassiveHealth for any finite set of requests and any       *)
(* positive settings.  The verdict is compared with the reports through    *)
(* Streaks: the counters are the lengths of the streaks that the reports   *)
(* end in, as far as the history goes back.                                *)
(***************************************************************************)
EXTENDS PassiveHealth, SequenceTheorems, TLAPS

(* A time that a request has read and not used is not in the future. *)
TimesRead ==
  /\ clock >= 1
  /\ \A r \in Requests :
       pc[r] \in {"admission", "failure"} => at[r] \in 1 .. clock

IInv == TypeOK /\ TimesRead /\ EjectionInReach

(* The report that j reports came after. *)
Latest(history, j) == history[Len(history) - j]

(* The failures are counted back to the last success, or as far as the      *)
(* history goes.                                                            *)
FailureStreak ==
  /\ Len(reports) <= Memory
  /\ passive.consecutiveFailures <= Len(reports) \/ Len(reports) = Memory
  /\ \A j \in 0 .. (Len(reports) - 1) :
       j < passive.consecutiveFailures => Latest(reports, j) = "failure"
  /\ passive.consecutiveFailures < Len(reports) =>
       Latest(reports, passive.consecutiveFailures) = "success"

(* The successes of an ejected upstream are counted back to the last        *)
(* failure, which the history reaches.                                      *)
SuccessStreak ==
  passive.unhealthy =>
    /\ passive.consecutiveSuccesses < Len(reports)
    /\ Latest(reports, passive.consecutiveSuccesses) = "failure"
    /\ \A j \in 0 .. (Len(reports) - 1) :
         j < passive.consecutiveSuccesses => Latest(reports, j) = "success"

SInv == IInv /\ FailureStreak /\ SuccessStreak
-----------------------------------------------------------------------------
(* A record stays a record when its counters change. *)
LEMMA CountersType ==
  ASSUME NEW s \in PassiveRecords, NEW n \in Nat, NEW m \in Nat
  PROVE  [s EXCEPT !.consecutiveFailures = n, !.consecutiveSuccesses = m] \in PassiveRecords
  BY DEF PassiveRecords

(* What a success does to the fields: it ends the failure streak and, as    *)
(* the last of successThreshold in a row, the ejection.                     *)
LEMMA SuccessEffect ==
  ASSUME NEW s \in PassiveRecords
  PROVE  LET t == PassiveRecordSuccess(s)
         IN  /\ t \in PassiveRecords
             /\ t.consecutiveFailures = 0
             /\ t.unhealthy => /\ s.unhealthy
                               /\ t.retryAfter = s.retryAfter
                               /\ t.consecutiveSuccesses < SuccessThreshold
             /\ ~t.unhealthy => /\ t.consecutiveSuccesses = 0
                                /\ t.retryAfter = IF s.unhealthy THEN 0 ELSE s.retryAfter
<1> USE PassiveAssumption DEF PassiveRecords
<1>1. CASE ~s.unhealthy
  BY <1>1 DEF PassiveRecordSuccess
<1>2. CASE s.unhealthy
  <2> DEFINE t == [s EXCEPT !.consecutiveFailures = 0, !.consecutiveSuccesses = @ + 1]
  <2>1. /\ t \in PassiveRecords
        /\ t.consecutiveFailures = 0
        /\ t.unhealthy
        /\ t.retryAfter = s.retryAfter
        /\ t.consecutiveSuccesses \in Nat
    <3>0. s.consecutiveSuccesses + 1 \in Nat
      OBVIOUS
    <3>1. t \in PassiveRecords
      BY <3>0, CountersType
    <3>2. t.consecutiveFailures = 0 /\ t.retryAfter = s.retryAfter
      OBVIOUS
    <3>3. t.unhealthy
      BY <1>2
    <3>4. QED
      BY <3>1, <3>2, <3>3
  <2>2. PassiveRecordSuccess(s) =
          IF t.consecutiveSuccesses < SuccessThreshold THEN t
          ELSE [t EXCEPT !.unhealthy = FALSE, !.retryAfter = 0, !.consecutiveSuccesses = 0]
    BY <1>2 DEF PassiveRecordSuccess
  <2> HIDE DEF t
  <2>3. QED
    BY <1>2, <2>1, <2>2
<1>3. QED
  BY <1>1, <1>2

(* What a failure does: it ends the success streak and, from                *)
(* failureThreshold in a row on, ejects until now + unhealthyDuration.      *)
LEMMA FailureEffect ==
  ASSUME NEW s \in PassiveRecords, NEW now \in Nat
  PROVE  LET t == PassiveRecordFailure(s, now)
         IN  /\ t \in PassiveRecords
             /\ t.consecutiveSuccesses = 0
             /\ \/ /\ t.consecutiveFailures < PassiveThreshold
                   /\ t.unhealthy = s.unhealthy
                   /\ t.retryAfter = s.retryAfter
                \/ /\ t.unhealthy
                   /\ t.retryAfter = now + UnhealthyDuration
<1> USE PassiveAssumption DEF PassiveRecords
<1> DEFINE t == [s EXCEPT !.consecutiveFailures = @ + 1, !.consecutiveSuccesses = 0]
<1>1. /\ t \in PassiveRecords
      /\ t.consecutiveSuccesses = 0
      /\ t.consecutiveFailures \in Nat
      /\ t.unhealthy = s.unhealthy
      /\ t.retryAfter = s.retryAfter
  <2>0. s.consecutiveFailures + 1 \in Nat
    OBVIOUS
  <2>1. t \in PassiveRecords
    BY <2>0, CountersType
  <2>2. t.consecutiveSuccesses = 0 /\ t.retryAfter = s.retryAfter
    OBVIOUS
  <2>3. t.unhealthy = s.unhealthy
    OBVIOUS
  <2>4. QED
    BY <2>1, <2>2, <2>3
<1>2. PassiveRecordFailure(s, now) =
        IF t.consecutiveFailures < PassiveThreshold THEN t
        ELSE [t EXCEPT !.unhealthy = TRUE, !.retryAfter = now + UnhealthyDuration]
  BY DEF PassiveRecordFailure
<1> HIDE DEF t
<1>3. CASE t.consecutiveFailures < PassiveThreshold
  BY <1>1, <1>2, <1>3
<1>4. CASE ~(t.consecutiveFailures < PassiveThreshold)
  <2> DEFINE d == [t EXCEPT !.unhealthy = TRUE, !.retryAfter = now + UnhealthyDuration]
  <2>1. now + UnhealthyDuration \in Nat
    OBVIOUS
  <2>2. d \in PassiveRecords
    BY <1>1, <2>1
  <2>3. /\ d.consecutiveSuccesses = 0
        /\ d.retryAfter = now + UnhealthyDuration
        /\ d.unhealthy
    BY <1>1
  <2>4. PassiveRecordFailure(s, now) = d
    BY <1>2, <1>4
  <2> HIDE DEF d
  <2>5. QED
    BY <2>2, <2>3, <2>4
<1>5. QED
  BY <1>3, <1>4
-----------------------------------------------------------------------------
(* The invariant holds of a new record that no request uses. *)
LEMMA InitIInv == Init => IInv
<1> SUFFICES ASSUME Init PROVE IInv
  OBVIOUS
<1>1. passive \in PassiveRecords
  BY DEF Init, NewPassive, PassiveRecords
<1>2. TypeOK /\ TimesRead
  BY <1>1 DEF Init, TypeOK, TimesRead, Phases
<1>3. EjectionInReach
  BY PassiveAssumption DEF Init, NewPassive, EjectionInReach
<1>4. QED
  BY <1>2, <1>3 DEF IInv

(* Requests move between phases and time passes; the record is left alone. *)
LEMMA QuietStep ==
  ASSUME IInv, TypeOK', TimesRead', clock' >= clock, passive' = passive
  PROVE  IInv'
<1>1. EjectionInReach'
  BY PassiveAssumption DEF IInv, TypeOK, EjectionInReach, PassiveRecords
<1>2. QED
  BY <1>1 DEF IInv

(* A move that reads the clock, or forgets the time it had. *)
LEMMA MoveStep ==
  ASSUME IInv, NEW r \in Requests, NEW from \in Phases, NEW to \in Phases,
         Move(r, from, to, IF to \in {"admission", "failure"} THEN clock ELSE 0),
         clock' = clock
  PROVE  /\ pc' \in [Requests -> Phases]
         /\ at' \in [Requests -> Nat]
         /\ TimesRead'
  BY DEF IInv, TypeOK, TimesRead, Move

(* The history stays a sequence of reports. *)
LEMMA RememberType ==
  ASSUME IInv, NEW outcome \in {"success", "failure"}, Remember(outcome)
  PROVE  reports' \in Seq({"success", "failure"})
<1> DEFINE all == Append(reports, outcome)
<1>1. all \in Seq({"success", "failure"}) /\ all # <<>>
  BY DEF IInv, TypeOK
<1>2. Tail(all) \in Seq({"success", "failure"})
  BY <1>1
<1>3. QED
  BY <1>1, <1>2 DEF Remember, Remembered

(* Every step keeps the invariant. *)
LEMMA StepIInv == IInv /\ [Next]_vars => IInv'
<1> SUFFICES ASSUME IInv, [Next]_vars PROVE IInv'
  OBVIOUS
<1>1. TypeOK /\ TimesRead /\ EjectionInReach
  BY DEF IInv
<1>2. CASE Tick
  <2>1. TypeOK' /\ TimesRead' /\ clock' >= clock /\ passive' = passive
    BY <1>1, <1>2 DEF Tick, TypeOK, TimesRead
  <2>2. QED
    BY <2>1, QuietStep
<1>3. ASSUME NEW r \in Requests, NEW from \in Phases, NEW to \in Phases,
             Move(r, from, to, IF to \in {"admission", "failure"}
                               THEN clock ELSE 0),
             UNCHANGED <<clock, passive, reports>>
      PROVE  IInv'
  <2>1. TypeOK' /\ TimesRead' /\ clock' >= clock
    BY <1>1, <1>3, MoveStep DEF TypeOK
  <2>2. QED
    BY <1>3, <2>1, QuietStep
<1>4. ASSUME NEW r \in Requests,
             Arrive(r) \/ Admit(r) \/ Refuse(r) \/ TurnAway(r) \/ Answer(r) \/ Fail(r)
             \/ UpgradeFail(r) \/ UpgradeDone(r)
      PROVE  IInv'
  BY <1>3, <1>4 DEF Arrive, Admit, Refuse, TurnAway, Answer, Fail, UpgradeFail, UpgradeDone, Phases
<1>5. ASSUME NEW r \in Requests, ReportSuccess(r) PROVE IInv'
  <2>1. PICK next \in {"idle", "upgrading"} : Move(r, "success", next, 0)
    BY <1>5 DEF ReportSuccess
  <2>2. clock' = clock /\ passive' = PassiveRecordSuccess(passive)
    BY <1>5 DEF ReportSuccess
  <2>3. pc' \in [Requests -> Phases] /\ at' \in [Requests -> Nat] /\ TimesRead'
    BY <2>1, <2>2, MoveStep DEF Phases
  <2>4. reports' \in Seq({"success", "failure"})
    BY <1>5, RememberType DEF ReportSuccess
  <2>5. passive \in PassiveRecords
    BY <1>1 DEF TypeOK
  <2>6. TypeOK'
    BY <1>1, <2>2, <2>3, <2>4, <2>5, SuccessEffect DEF TypeOK
  <2>7. EjectionInReach'
    BY <1>1, <2>2, <2>5, SuccessEffect, PassiveAssumption DEF EjectionInReach
  <2>8. QED
    BY <2>3, <2>6, <2>7 DEF IInv
<1>6. ASSUME NEW r \in Requests, ReportFailure(r) PROVE IInv'
  <2>1. /\ clock' = clock
        /\ passive' = PassiveRecordFailure(passive, at[r])
        /\ Move(r, "failure", "idle", 0)
    BY <1>6 DEF ReportFailure
  <2>2. pc' \in [Requests -> Phases] /\ at' \in [Requests -> Nat] /\ TimesRead'
    BY <2>1, MoveStep DEF Phases
  <2>3. reports' \in Seq({"success", "failure"})
    BY <1>6, RememberType DEF ReportFailure
  <2>4. passive \in PassiveRecords /\ at[r] \in 1 .. clock /\ clock \in Nat
    BY <1>1, <2>1 DEF TypeOK, TimesRead, Move
  <2>5. TypeOK'
    BY <1>1, <2>1, <2>2, <2>3, <2>4, FailureEffect DEF TypeOK
  <2>6. EjectionInReach'
    <3>0. at[r] \in Nat
      BY <2>4
    <3>1. passive'.consecutiveSuccesses = 0
      BY <2>1, <2>4, <3>0, FailureEffect
    <3>2. CASE passive'.unhealthy /\ passive'.retryAfter = at[r] + UnhealthyDuration
      BY <2>1, <2>4, <3>1, <3>2, PassiveAssumption DEF EjectionInReach
    <3>3. CASE /\ passive'.consecutiveFailures < PassiveThreshold
               /\ passive'.unhealthy = passive.unhealthy
               /\ passive'.retryAfter = passive.retryAfter
      BY <1>1, <2>1, <3>1, <3>3, PassiveAssumption DEF EjectionInReach
    <3>4. QED
      BY <2>1, <2>4, <3>0, <3>2, <3>3, FailureEffect
  <2>7. QED
    BY <2>2, <2>5, <2>6 DEF IInv
<1>7. CASE UNCHANGED vars
  <2>1. TypeOK' /\ TimesRead' /\ clock' >= clock /\ passive' = passive
    BY <1>1, <1>7 DEF vars, TypeOK, TimesRead
  <2>2. QED
    BY <2>1, QuietStep
<1>8. QED
  BY <1>2, <1>4, <1>5, <1>6, <1>7 DEF Next

(* The record's fields keep their types. *)
THEOREM TypeCorrect == Spec => []TypeOK
<1>1. IInv => TypeOK
  BY DEF IInv
<1>2. QED
  BY <1>1, InitIInv, StepIInv, PTL DEF Spec

(* Whatever the order of the reports, an ejection ends within               *)
(* unhealthyDuration and recovery leaves a clean record.                    *)
THEOREM EjectionStaysInReach == Spec => []EjectionInReach
<1>1. IInv => EjectionInReach
  BY DEF IInv
<1>2. QED
  BY <1>1, InitIInv, StepIInv, PTL DEF Spec
-----------------------------------------------------------------------------
(* Memory is long enough for both thresholds. *)
LEMMA MemoryEnough ==
  Memory \in Nat \ {0} /\ PassiveThreshold <= Memory /\ SuccessThreshold <= Memory
  BY PassiveAssumption DEF Memory

(* One more report: it comes last, and the others are one further back. *)
LEMMA RememberedEffect ==
  ASSUME NEW q \in Seq({"success", "failure"}), Len(q) <= Memory,
         NEW o \in {"success", "failure"}
  PROVE  /\ Remembered(q, o) \in Seq({"success", "failure"})
         /\ Len(Remembered(q, o)) = IF Len(q) < Memory THEN Len(q) + 1 ELSE Memory
         /\ Latest(Remembered(q, o), 0) = o
         /\ \A j \in 1 .. (Len(Remembered(q, o)) - 1) :
              Latest(Remembered(q, o), j) = Latest(q, j - 1)
<1> DEFINE all == Append(q, o)
           n == Len(q)
<1>1. /\ all \in Seq({"success", "failure"}) /\ n \in Nat
      /\ Len(all) = n + 1 /\ all[n + 1] = o
      /\ \A i \in 1 .. n : all[i] = q[i]
  OBVIOUS
<1>2. Memory \in Nat \ {0}
  BY MemoryEnough
<1>3. CASE n < Memory
  <2>1. Remembered(q, o) = all
    BY <1>1, <1>2, <1>3 DEF Remembered
  <2> HIDE DEF all
  <2>2. QED
    BY <1>1, <1>2, <1>3, <2>1 DEF Latest
<1>4. CASE n = Memory
  <2>1. Remembered(q, o) = Tail(all)
    BY <1>1, <1>2, <1>4 DEF Remembered
  <2> HIDE DEF all
  <2>2. /\ Tail(all) \in Seq({"success", "failure"}) /\ Len(Tail(all)) = n
        /\ \A i \in 1 .. n : Tail(all)[i] = all[i + 1]
    BY <1>1, <1>2, <1>4
  <2>3. Latest(Tail(all), 0) = o
    BY <1>1, <1>2, <1>4, <2>2 DEF Latest
  <2>4. ASSUME NEW j \in 1 .. (n - 1) PROVE Latest(Tail(all), j) = Latest(q, j - 1)
    <3>1. Latest(Tail(all), j) = all[n - j + 1]
      BY <1>1, <2>2 DEF Latest
    <3>2. QED
      BY <1>1, <3>1 DEF Latest
  <2>5. QED
    BY <1>1, <1>4, <2>1, <2>2, <2>3, <2>4
<1>5. QED
  BY <1>1, <1>2, <1>3, <1>4

(* What the two reports do to the counters, to the last unit. *)
LEMMA SuccessCounts ==
  ASSUME NEW s \in PassiveRecords
  PROVE  /\ PassiveRecordSuccess(s).unhealthy =>
              s.unhealthy /\ PassiveRecordSuccess(s).consecutiveSuccesses = s.consecutiveSuccesses + 1
         /\ s.unhealthy /\ ~PassiveRecordSuccess(s).unhealthy =>
              s.consecutiveSuccesses + 1 >= SuccessThreshold
         /\ PassiveRecordSuccess(s).consecutiveFailures = 0
<1> USE PassiveAssumption DEF PassiveRecords
<1>1. CASE ~s.unhealthy
  BY <1>1 DEF PassiveRecordSuccess
<1>2. CASE s.unhealthy
  <2> DEFINE t == [s EXCEPT !.consecutiveFailures = 0, !.consecutiveSuccesses = @ + 1]
  <2>1. /\ t.consecutiveFailures = 0
        /\ t.consecutiveSuccesses = s.consecutiveSuccesses + 1
        /\ s.consecutiveSuccesses \in Nat /\ s.consecutiveSuccesses + 1 \in Nat
    OBVIOUS
  <2>2. PassiveRecordSuccess(s) =
          IF t.consecutiveSuccesses < SuccessThreshold THEN t
          ELSE [t EXCEPT !.unhealthy = FALSE, !.retryAfter = 0, !.consecutiveSuccesses = 0]
    BY <1>2 DEF PassiveRecordSuccess
  <2>3. t.unhealthy
    BY <1>2
  <2>4. t \in PassiveRecords
    BY <2>1, CountersType
  <2> HIDE DEF t
  <2>5. QED
    BY <1>2, <2>1, <2>2, <2>3, <2>4
<1>3. QED
  BY <1>1, <1>2

LEMMA FailureCounts ==
  ASSUME NEW s \in PassiveRecords, NEW now \in Nat
  PROVE  /\ PassiveRecordFailure(s, now).consecutiveFailures = s.consecutiveFailures + 1
         /\ s.unhealthy => PassiveRecordFailure(s, now).unhealthy
         /\ ~s.unhealthy /\ PassiveRecordFailure(s, now).unhealthy =>
              s.consecutiveFailures + 1 >= PassiveThreshold
         /\ PassiveRecordFailure(s, now).consecutiveSuccesses = 0
<1> USE PassiveAssumption DEF PassiveRecords
<1> DEFINE t == [s EXCEPT !.consecutiveFailures = @ + 1, !.consecutiveSuccesses = 0]
<1>1. /\ t.consecutiveSuccesses = 0
      /\ t.consecutiveFailures = s.consecutiveFailures + 1
      /\ s.consecutiveFailures \in Nat /\ s.consecutiveFailures + 1 \in Nat
  OBVIOUS
<1>2. t.unhealthy = s.unhealthy
  OBVIOUS
<1>3. PassiveRecordFailure(s, now) =
        IF t.consecutiveFailures < PassiveThreshold THEN t
        ELSE [t EXCEPT !.unhealthy = TRUE, !.retryAfter = now + UnhealthyDuration]
  BY DEF PassiveRecordFailure
<1>4. t \in PassiveRecords
  BY <1>1, CountersType
<1> HIDE DEF t
<1>5. QED
  BY <1>1, <1>2, <1>3, <1>4

(* A success: the failures start again, and the successes of an upstream    *)
(* that stays ejected go on.                                                *)
LEMMA SuccessStep ==
  ASSUME SInv, passive' = PassiveRecordSuccess(passive), Remember("success")
  PROVE  FailureStreak' /\ SuccessStreak'
<1> DEFINE n == Len(reports)
           m == Len(reports')
<1>0. /\ reports \in Seq({"success", "failure"}) /\ n \in Nat /\ n <= Memory
      /\ passive \in PassiveRecords /\ passive.consecutiveSuccesses \in Nat
      /\ Memory \in Nat \ {0}
      /\ SuccessThreshold \in Nat /\ SuccessThreshold <= Memory
  BY MemoryEnough, PassiveAssumption DEF SInv, IInv, TypeOK, FailureStreak, PassiveRecords
<1>1. /\ m = IF n < Memory THEN n + 1 ELSE Memory
      /\ Latest(reports', 0) = "success"
      /\ \A j \in 1 .. (m - 1) : Latest(reports', j) = Latest(reports, j - 1)
  BY <1>0, RememberedEffect DEF Remember
<1>2. FailureStreak'
  BY <1>0, <1>1, SuccessCounts DEF FailureStreak
<1>3. SuccessStreak'
  <2> SUFFICES ASSUME passive'.unhealthy
               PROVE  /\ passive'.consecutiveSuccesses < m
                      /\ Latest(reports', passive'.consecutiveSuccesses) = "failure"
                      /\ \A j \in 0 .. (m - 1) :
                           j < passive'.consecutiveSuccesses => Latest(reports', j) = "success"
    BY DEF SuccessStreak
  <2> DEFINE c == passive.consecutiveSuccesses
  <2>1. passive.unhealthy /\ passive'.consecutiveSuccesses = c + 1
    BY <1>0, SuccessCounts
  <2>2. /\ c < n /\ Latest(reports, c) = "failure"
        /\ \A j \in 0 .. (n - 1) : j < c => Latest(reports, j) = "success"
    BY <2>1 DEF SInv, SuccessStreak
  <2>3. c + 1 < SuccessThreshold
    BY <1>0, <2>1, SuccessEffect
  <2> HIDE DEF c
  <2>4. c \in Nat /\ c + 1 < m
    BY <1>0, <1>1, <2>2, <2>3 DEF c
  <2>5. Latest(reports', c + 1) = "failure"
    BY <1>1, <2>2, <2>4
  <2>6. ASSUME NEW j \in 0 .. (m - 1), j < c + 1 PROVE Latest(reports', j) = "success"
    <3>1. CASE j = 0
      BY <1>1, <3>1
    <3>2. CASE j # 0
      BY <1>0, <1>1, <2>2, <2>4, <2>6, <3>2
    <3>3. QED
      BY <3>1, <3>2
  <2>7. QED
    BY <2>1, <2>4, <2>5, <2>6
<1>4. QED
  BY <1>2, <1>3

(* A failure: the failures go on, and the successes start again. *)
LEMMA FailureStep ==
  ASSUME SInv, NEW now \in Nat, passive' = PassiveRecordFailure(passive, now),
         Remember("failure")
  PROVE  FailureStreak' /\ SuccessStreak'
<1> DEFINE n == Len(reports)
           m == Len(reports')
           c == passive.consecutiveFailures
<1>0. /\ reports \in Seq({"success", "failure"}) /\ n \in Nat /\ n <= Memory
      /\ passive \in PassiveRecords /\ c \in Nat
      /\ Memory \in Nat \ {0}
  BY MemoryEnough DEF SInv, IInv, TypeOK, FailureStreak, PassiveRecords
<1>1. /\ m = IF n < Memory THEN n + 1 ELSE Memory
      /\ Latest(reports', 0) = "failure"
      /\ \A j \in 1 .. (m - 1) : Latest(reports', j) = Latest(reports, j - 1)
  BY <1>0, RememberedEffect DEF Remember
<1>2. passive'.consecutiveFailures = c + 1 /\ passive'.consecutiveSuccesses = 0
  BY <1>0, FailureCounts
<1>3. /\ c <= n \/ n = Memory
      /\ \A j \in 0 .. (n - 1) : j < c => Latest(reports, j) = "failure"
      /\ c < n => Latest(reports, c) = "success"
  BY DEF SInv, FailureStreak
<1> HIDE DEF c
<1>4. FailureStreak'
  <2>1. m <= Memory /\ (c + 1 <= m \/ m = Memory)
    BY <1>0, <1>1, <1>3
  <2>2. ASSUME NEW j \in 0 .. (m - 1), j < c + 1 PROVE Latest(reports', j) = "failure"
    <3>1. CASE j = 0
      BY <1>1, <3>1
    <3>2. CASE j # 0
      BY <1>0, <1>1, <1>3, <2>2, <3>2
    <3>3. QED
      BY <3>1, <3>2
  <2>3. c + 1 < m => Latest(reports', c + 1) = "success"
    BY <1>0, <1>1, <1>3
  <2>4. QED
    BY <1>2, <2>1, <2>2, <2>3 DEF FailureStreak
<1>5. SuccessStreak'
  BY <1>0, <1>1, <1>2 DEF SuccessStreak
<1>6. QED
  BY <1>4, <1>5

(* The counters are the streaks, whatever the order of the reports. *)
LEMMA StepSInv == SInv /\ [Next]_vars => SInv'
<1> SUFFICES ASSUME SInv, [Next]_vars PROVE SInv'
  OBVIOUS
<1>1. IInv'
  BY StepIInv DEF SInv
<1>2. ASSUME NEW r \in Requests, ReportSuccess(r) PROVE FailureStreak' /\ SuccessStreak'
  BY <1>2, SuccessStep DEF ReportSuccess
<1>3. ASSUME NEW r \in Requests, ReportFailure(r) PROVE FailureStreak' /\ SuccessStreak'
  <2>1. at[r] \in Nat
    BY DEF SInv, IInv, TypeOK
  <2>2. QED
    BY <1>3, <2>1, FailureStep DEF ReportFailure
<1>4. ASSUME UNCHANGED <<passive, reports>> PROVE FailureStreak' /\ SuccessStreak'
  BY <1>4 DEF SInv, FailureStreak, SuccessStreak
<1>5. \/ UNCHANGED <<passive, reports>>
      \/ \E r \in Requests : ReportSuccess(r) \/ ReportFailure(r)
  BY DEF Next, vars, Tick, Arrive, Admit, Refuse, TurnAway, Answer, Fail, UpgradeFail,
         UpgradeDone
<1>6. FailureStreak' /\ SuccessStreak'
  BY <1>2, <1>3, <1>4, <1>5
<1>7. QED
  BY <1>1, <1>6 DEF SInv

LEMMA StreakInvariance == Spec => []SInv
<1>1. Init => SInv
  <2>1. Init => FailureStreak /\ SuccessStreak
    BY MemoryEnough DEF Init, NewPassive, FailureStreak, SuccessStreak
  <2>2. QED
    BY <2>1, InitIInv DEF SInv
<1>2. QED
  BY <1>1, StepSInv, PTL DEF Spec

(* Whatever is reported in a row, by whichever requests: failureThreshold   *)
(* failures mean ejected, successThreshold successes mean healthy.          *)
THEOREM VerdictIsUpToDate == Spec => []VerdictFollowsReports
<1>1. SInv => VerdictFollowsReports
  <2> SUFFICES ASSUME SInv PROVE VerdictFollowsReports
    OBVIOUS
  <2> DEFINE n == Len(reports)
             f == passive.consecutiveFailures
             c == passive.consecutiveSuccesses
  <2>0. /\ n \in Nat /\ f \in Nat /\ c \in Nat
        /\ PassiveThreshold \in Nat \ {0} /\ SuccessThreshold \in Nat \ {0}
    BY PassiveAssumption DEF SInv, IInv, TypeOK, PassiveRecords
  <2>1. ASSUME LastAre("failure", PassiveThreshold) PROVE passive.unhealthy
    <3> SUFFICES ASSUME ~passive.unhealthy PROVE FALSE
      OBVIOUS
    <3>1. f < PassiveThreshold
      BY DEF SInv, IInv, EjectionInReach
    <3>2. reports[n - f] = "success" /\ n - f \in (n - PassiveThreshold + 1) .. n
      BY <2>0, <2>1, <3>1 DEF SInv, FailureStreak, Latest, LastAre
    <3>3. QED
      BY <2>1, <3>2 DEF LastAre
  <2>2. ASSUME LastAre("success", SuccessThreshold), passive.unhealthy PROVE FALSE
    <3>1. c < SuccessThreshold
      BY <2>2 DEF SInv, IInv, EjectionInReach
    <3>2. reports[n - c] = "failure" /\ n - c \in (n - SuccessThreshold + 1) .. n
      BY <2>0, <2>2, <3>1 DEF SInv, SuccessStreak, Latest
    <3>3. QED
      BY <2>2, <3>2 DEF LastAre
  <2>3. QED
    BY <2>1, <2>2 DEF VerdictFollowsReports
<1>2. QED
  BY <1>1, StreakInvariance, PTL

(* The verdict changes only with the last report of such a streak. *)
THEOREM VerdictNeedsAStreak == Spec => VerdictNeedsStreak
<1> DEFINE Ejection == ~passive.unhealthy /\ passive'.unhealthy =>
                         LastAre("failure", PassiveThreshold)'
           Recovery == passive.unhealthy /\ ~passive'.unhealthy =>
                         LastAre("success", SuccessThreshold)'
<1>1. SInv /\ SInv' /\ [Next]_vars => Ejection /\ Recovery
  <2> SUFFICES ASSUME SInv, SInv', [Next]_vars PROVE Ejection /\ Recovery
    OBVIOUS
  <2> DEFINE n == Len(reports)
             m == Len(reports')
  <2>0. /\ n \in Nat /\ m \in Nat /\ n <= Memory /\ passive \in PassiveRecords
        /\ reports \in Seq({"success", "failure"}) /\ reports' \in Seq({"success", "failure"})
        /\ passive.consecutiveFailures \in Nat /\ passive.consecutiveSuccesses \in Nat
        /\ PassiveThreshold \in Nat \ {0} /\ SuccessThreshold \in Nat \ {0}
        /\ Memory \in Nat /\ PassiveThreshold <= Memory /\ SuccessThreshold <= Memory
    BY PassiveAssumption, MemoryEnough DEF SInv, IInv, TypeOK, FailureStreak, PassiveRecords
  <2>1. ASSUME NEW r \in Requests, ReportSuccess(r) PROVE Ejection /\ Recovery
    <3>1. passive' = PassiveRecordSuccess(passive) /\ reports' = Remembered(reports, "success")
      BY <2>1 DEF ReportSuccess, Remember
    <3>2. Ejection
      BY <2>0, <3>1, SuccessCounts
    <3>3. Recovery
      <4> SUFFICES ASSUME passive.unhealthy, ~passive'.unhealthy
                   PROVE  LastAre("success", SuccessThreshold)'
        OBVIOUS
      <4> DEFINE c == passive.consecutiveSuccesses
      <4>1. c + 1 >= SuccessThreshold
        BY <2>0, <3>1, SuccessCounts
      <4>2. c < n /\ \A j \in 0 .. (n - 1) : j < c => Latest(reports, j) = "success"
        BY DEF SInv, SuccessStreak
      <4>3. /\ m = IF n < Memory THEN n + 1 ELSE Memory
            /\ Latest(reports', 0) = "success"
            /\ \A j \in 1 .. (m - 1) : Latest(reports', j) = Latest(reports, j - 1)
        BY <2>0, <3>1, RememberedEffect
      <4> HIDE DEF c
      <4>4. c \in Nat /\ m >= SuccessThreshold
        BY <2>0, <4>1, <4>2, <4>3 DEF c
      <4>5. ASSUME NEW i \in (m - SuccessThreshold + 1) .. m PROVE reports'[i] = "success"
        <5> DEFINE j == m - i
        <5>1. j \in 0 .. (SuccessThreshold - 1) /\ reports'[i] = Latest(reports', j)
          BY <2>0 DEF Latest
        <5>2. CASE j = 0
          BY <4>3, <5>1, <5>2
        <5>3. CASE j # 0
          <6>1. j \in 1 .. (m - 1) /\ j - 1 \in 0 .. (n - 1) /\ j - 1 < c
            BY <2>0, <4>1, <4>2, <4>3, <4>4, <5>1, <5>3
          <6> HIDE DEF j
          <6>2. QED
            BY <4>2, <4>3, <5>1, <6>1
        <5>4. QED
          BY <5>2, <5>3
      <4>6. QED
        BY <4>4, <4>5 DEF LastAre
    <3>4. QED
      BY <3>2, <3>3
  <2>2. ASSUME NEW r \in Requests, ReportFailure(r) PROVE Ejection /\ Recovery
    <3>1. passive' = PassiveRecordFailure(passive, at[r]) /\ at[r] \in Nat
      BY <2>2 DEF ReportFailure, SInv, IInv, TypeOK
    <3>2. Recovery
      BY <2>0, <3>1, FailureCounts
    <3>3. Ejection
      <4> SUFFICES ASSUME ~passive.unhealthy, passive'.unhealthy
                   PROVE  LastAre("failure", PassiveThreshold)'
        OBVIOUS
      <4> DEFINE c == passive'.consecutiveFailures
      <4>1. c >= PassiveThreshold /\ c \in Nat
        BY <2>0, <3>1, FailureCounts
      <4>2. /\ c <= m \/ m = Memory
            /\ \A j \in 0 .. (m - 1) : j < c => Latest(reports', j) = "failure"
        BY DEF SInv, FailureStreak
      <4> HIDE DEF c
      <4>3. m >= PassiveThreshold
        BY <2>0, <4>1, <4>2
      <4>4. ASSUME NEW i \in (m - PassiveThreshold + 1) .. m PROVE reports'[i] = "failure"
        <5>1. m - i \in 0 .. (m - 1) /\ m - i < c /\ Latest(reports', m - i) = reports'[i]
          BY <2>0, <4>1, <4>3 DEF Latest
        <5>2. QED
          BY <4>2, <5>1
      <4>5. QED
        BY <4>3, <4>4 DEF LastAre
    <3>4. QED
      BY <3>2, <3>3
  <2>3. CASE UNCHANGED <<passive, reports>>
    BY <2>3
  <2>4. \/ UNCHANGED <<passive, reports>>
        \/ \E r \in Requests : ReportSuccess(r) \/ ReportFailure(r)
    BY DEF Next, vars, Tick, Arrive, Admit, Refuse, TurnAway, Answer, Fail, UpgradeFail,
           UpgradeDone
  <2>5. QED
    BY <2>1, <2>2, <2>3, <2>4
<1>2. SInv /\ SInv' /\ [Next]_vars => [Ejection /\ Recovery]_vars
  BY <1>1
<1>3. QED
  BY <1>2, StreakInvariance, PTL DEF Spec, VerdictNeedsStreak
=============================================================================

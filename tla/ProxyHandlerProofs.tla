-------------------------- MODULE ProxyHandlerProofs --------------------------
(***************************************************************************)
(* Proofs about ProxyHandler for any number of upstreams and requests and  *)
(* any settings: its types, the isolation of an upstream that works, and   *)
(* that the breaker and the passive record of every upstream behave as     *)
(* CircuitBreaker and PassiveHealth say, step by step.                     *)
(***************************************************************************)
EXTENDS ProxyHandler, TLAPS

(* What is proved of one breaker and of one passive record, applied to the *)
(* watched upstream.                                                       *)
BreakerProofs ==
  INSTANCE CircuitBreakerProofs
  WITH breaker   <- breaker[Watched],
       pc        <- [r \in Requests |-> WatchedPhase(r)],
       at        <- [r \in Requests |-> IF target[r] = Watched THEN at[r] ELSE 0],
       probes    <- probes[Watched],
       probeWins <- probeWins[Watched]

PassiveProofs ==
  INSTANCE PassiveHealthProofs
  WITH passive <- passive[Watched],
       pc      <- [r \in Requests |-> WatchedPassivePhase(r)],
       at      <- [r \in Requests |->
                     IF WatchedPassivePhase(r) \in {"admission", "failure"} THEN at[r] ELSE 0]

(* A request holds a time only from reading it to the last use. *)
Timed == {"passive", "breaker", "failure", "failureBreaker"}
NoTimeKept == \A r \in Requests : pc[r] \notin Timed => at[r] = 0

(* The upstream that comes d places after u. *)
Ahead(u, d) == IF u + d < N THEN u + d ELSE u + d - N

(* One of the upstreams from u on, up to more places ahead, works. *)
WorkingAhead(u, more) == \E d \in 0 .. more : Ahead(u, d) \in reliable

(* While selectUpstream's loop runs, one of the candidates that it asks or *)
(* will still ask works, if any upstream does.                             *)
Asking == {"active", "passive", "breaker"}
Covered ==
  reliable # {} =>
    \A r \in Requests :
      /\ pc[r] \in Asking => WorkingAhead(target[r], left[r])
      /\ pc[r] # "unavailable"

(* Only upstreams that do not work are blamed. *)
Blaming == {"failure", "failureBreaker"}
Blameless == \A r \in Requests : pc[r] \in Blaming => target[r] \notin reliable

(* The three parts of the state: the requests, the upstreams they share,   *)
(* and what only counts, dispenses or remembers.                           *)
RequestInv ==
  /\ pc \in [Requests -> Phases]
  /\ target \in [Requests -> Upstreams]
  /\ left \in [Requests -> 0 .. (N - 1)]
  /\ at \in [Requests -> Nat]
  /\ NoTimeKept
  /\ Covered
  /\ Blameless

UpstreamInv ==
  /\ reliable \subseteq Upstreams
  /\ active \in [Upstreams -> BOOLEAN]
  /\ passive \in [Upstreams -> PassiveRecords]
  /\ breaker \in [Upstreams -> Breakers]
  /\ \A u \in reliable : active[u] /\ breaker[u] = NewBreaker /\ passive[u] = NewPassive

HistoryInv ==
  /\ clock \in Nat
  /\ nextIndex \in Upstreams
  /\ reports \in Seq({"success", "failure"})
  /\ probes \in [Upstreams -> SUBSET Requests]
  /\ probeWins \in [Upstreams -> Nat]

IInv == RequestInv /\ UpstreamInv /\ HistoryInv
-----------------------------------------------------------------------------
(* The index wraps around. *)
LEMMA NextIndex ==
  ASSUME NEW u \in Upstreams
  PROVE  /\ (u + 1) % N \in Upstreams
         /\ (u + 1) % N = IF u + 1 < N THEN u + 1 ELSE 0
  BY ProxyAssumption DEF Upstreams

(* The assumptions of the two component modules hold of a route. *)
LEMMA ComponentAssumptions ==
  /\ BreakerProofs!IsFiniteSet(Requests)
  /\ PassiveProofs!IsFiniteSet(Requests)
  /\ MaxClock \in Nat
  BY ProxyAssumption DEF BreakerProofs!IsFiniteSet, PassiveProofs!IsFiniteSet, IsFiniteSet

(* The operations of a breaker are the same in both modules, keep it a     *)
(* breaker, and leave a new one as it is unless it hears of a failure.     *)
LEMMA BreakerOperators ==
  ASSUME NEW c \in Breakers, NEW now \in Nat
  PROVE  /\ BreakerAllow(c) \in Breakers
         /\ BreakerRecordSuccess(c) \in Breakers
         /\ BreakerRecordFailure(c, now) \in Breakers
<1>1. Breakers = BreakerProofs!Breakers
  BY DEF Breakers, BreakerStates, BreakerProofs!Breakers, BreakerProofs!BreakerStates
<1>2. /\ BreakerProofs!BreakerAllow(c) = BreakerAllow(c)
      /\ BreakerProofs!BreakerRecordSuccess(c) = BreakerRecordSuccess(c)
      /\ BreakerProofs!BreakerRecordFailure(c, now) = BreakerRecordFailure(c, now)
  BY DEF BreakerAllow, TakeSlot, EnterHalfOpen, BreakerRecordSuccess, BreakerRecordFailure,
         ReleaseSlot, CloseLocked, OpenLocked, BreakerProofs!BreakerAllow,
         BreakerProofs!TakeSlot, BreakerProofs!EnterHalfOpen,
         BreakerProofs!BreakerRecordSuccess, BreakerProofs!BreakerRecordFailure,
         BreakerProofs!ReleaseSlot, BreakerProofs!CloseLocked, BreakerProofs!OpenLocked
<1>3. QED
  BY <1>1, <1>2, BreakerProofs!OperatorTypes, ComponentAssumptions, BreakerAssumption

LEMMA NewBreakerStaysNew ==
  /\ NewBreaker \in Breakers
  /\ \A now \in Nat : BreakerAllows(NewBreaker, now)
  /\ BreakerAllow(NewBreaker) = NewBreaker
  /\ BreakerRecordSuccess(NewBreaker) = NewBreaker
  BY DEF NewBreaker, Breakers, BreakerStates, BreakerAllows, BreakerAllow, BreakerRecordSuccess

(* The same for a passive health record. *)
LEMMA PassiveOperators ==
  ASSUME NEW p \in PassiveRecords, NEW now \in Nat
  PROVE  /\ PassiveRecordSuccess(p) \in PassiveRecords
         /\ PassiveRecordFailure(p, now) \in PassiveRecords
<1>1. PassiveRecords = PassiveProofs!PassiveRecords
  BY DEF PassiveRecords, PassiveProofs!PassiveRecords
<1>2. /\ PassiveProofs!PassiveRecordSuccess(p) = PassiveRecordSuccess(p)
      /\ PassiveProofs!PassiveRecordFailure(p, now) = PassiveRecordFailure(p, now)
  BY DEF PassiveRecordSuccess, PassiveRecordFailure,
         PassiveProofs!PassiveRecordSuccess, PassiveProofs!PassiveRecordFailure
<1>3. PassiveProofs!PassiveRecordSuccess(p) \in PassiveProofs!PassiveRecords
  BY <1>1, PassiveProofs!SuccessEffect, ComponentAssumptions, PassiveAssumption
<1>4. PassiveProofs!PassiveRecordFailure(p, now) \in PassiveProofs!PassiveRecords
  BY <1>1, PassiveProofs!FailureEffect, ComponentAssumptions, PassiveAssumption
<1>5. QED
  BY <1>1, <1>2, <1>3, <1>4

LEMMA NewPassiveStaysNew ==
  /\ NewPassive \in PassiveRecords
  /\ \A now \in Nat : PassiveAvailable(NewPassive, now)
  /\ PassiveRecordSuccess(NewPassive) = NewPassive
  BY DEF NewPassive, PassiveRecords, PassiveAvailable, PassiveRecordSuccess

(* The history of reports stays one. *)
LEMMA RememberedType ==
  ASSUME NEW outcome \in {"success", "failure"}, NEW h \in Seq({"success", "failure"})
  PROVE  Remembered(h, outcome) \in Seq({"success", "failure"})
<1> DEFINE all == Append(h, outcome)
<1>1. all \in Seq({"success", "failure"}) /\ all # <<>>
  OBVIOUS
<1>2. Tail(all) \in Seq({"success", "failure"})
  BY <1>1
<1>3. QED
  BY <1>1, <1>2 DEF Remembered
-----------------------------------------------------------------------------
LEMMA InitIInv == Init => IInv
<1> SUFFICES ASSUME Init PROVE IInv
  OBVIOUS
<1>1. 0 \in Upstreams /\ 0 \in 0 .. (N - 1)
  BY ProxyAssumption DEF Upstreams
<1>2. RequestInv
  BY <1>1 DEF Init, RequestInv, Phases, NoTimeKept, Covered, Asking, Blameless, Blaming
<1>3. UpstreamInv
  BY NewBreakerStaysNew, NewPassiveStaysNew DEF Init, UpstreamInv
<1>4. HistoryInv
  BY <1>1 DEF Init, HistoryInv
<1>5. QED
  BY <1>2, <1>3, <1>4 DEF IInv

(* What one request's step must respect for the requests' part to hold.    *)
LEMMA RequestMoves ==
  ASSUME RequestInv, NEW r \in Requests, NEW to \in Phases, NEW time \in Nat,
         NEW u \in Upstreams, NEW more \in 0 .. (N - 1),
         Goto(r, to, time), Scan(r, u, more), reliable' = reliable,
         to \notin Timed => time = 0,
         to \in Blaming => u \notin reliable,
         reliable # {} => to # "unavailable" /\ (to \in Asking => WorkingAhead(u, more))
  PROVE  RequestInv'
<1>1. /\ pc' \in [Requests -> Phases] /\ target' \in [Requests -> Upstreams]
      /\ left' \in [Requests -> 0 .. (N - 1)] /\ at' \in [Requests -> Nat]
  BY DEF RequestInv, Goto, Scan
<1>2. /\ pc'[r] = to /\ at'[r] = time /\ target'[r] = u /\ left'[r] = more
      /\ \A q \in Requests \ {r} : /\ pc'[q] = pc[q] /\ at'[q] = at[q]
                                   /\ target'[q] = target[q] /\ left'[q] = left[q]
  BY DEF RequestInv, Goto, Scan
<1>3. NoTimeKept'
  BY <1>2 DEF RequestInv, NoTimeKept
<1>4. Blameless'
  BY <1>2 DEF RequestInv, Blameless
<1>5. Covered'
  <2> SUFFICES ASSUME reliable # {}, NEW q \in Requests
               PROVE  /\ pc'[q] \in Asking => WorkingAhead(target[q], left[q])'
                      /\ pc'[q] # "unavailable"
    BY DEF Covered
  <2>1. CASE q = r
    BY <2>1, <1>2 DEF WorkingAhead
  <2>2. CASE q # r
    BY <2>2, <1>2 DEF RequestInv, Covered, WorkingAhead
  <2>3. QED
    BY <2>1, <2>2
<1>6. QED
  BY <1>1, <1>3, <1>4, <1>5 DEF RequestInv

(* A request that goes on with the upstream it has scans the same ones.    *)
LEMMA StayScans ==
  ASSUME RequestInv, NEW r \in Requests, UNCHANGED <<target, left>>
  PROVE  /\ target[r] \in Upstreams
         /\ left[r] \in 0 .. (N - 1)
         /\ Scan(r, target[r], left[r])
         /\ reliable # {} /\ pc[r] \in Asking => WorkingAhead(target[r], left[r])
  BY DEF RequestInv, Scan, Covered

(* A candidate that refuses is not one that works: the loop goes on to the *)
(* next, and does not run out of candidates if any upstream works.         *)
LEMMA RefusedMovesOn ==
  ASSUME RequestInv, reliable \subseteq Upstreams, NEW r \in Requests, pc[r] \in Asking,
         target[r] \notin reliable, NextCandidate(r), reliable' = reliable
  PROVE  RequestInv'
<1>1. target[r] \in Upstreams /\ left[r] \in 0 .. (N - 1)
  BY DEF RequestInv
<1>2. 0 \in Upstreams /\ 0 \in 0 .. (N - 1)
  BY ProxyAssumption DEF Upstreams
<1>3. ASSUME reliable # {}
      PROVE  left[r] > 0 /\ WorkingAhead((target[r] + 1) % N, left[r] - 1)
  <2>1. PICK d \in 0 .. left[r] : Ahead(target[r], d) \in reliable
    BY <1>3 DEF RequestInv, Covered, WorkingAhead
  <2>2. d > 0 /\ d \in 1 .. (N - 1)
    BY <2>1, <1>1, ProxyAssumption DEF Ahead, Upstreams
  <2>3. Ahead((target[r] + 1) % N, d - 1) = Ahead(target[r], d)
    BY <2>2, <1>1, NextIndex, ProxyAssumption DEF Ahead, Upstreams
  <2>4. QED
    BY <2>1, <2>2, <2>3, <1>1, ProxyAssumption DEF WorkingAhead
<1>4. CASE left[r] > 0
  <2>1. Goto(r, "active", 0) /\ Scan(r, (target[r] + 1) % N, left[r] - 1)
    BY <1>4 DEF NextCandidate
  <2>2. (target[r] + 1) % N \in Upstreams /\ left[r] - 1 \in 0 .. (N - 1)
    BY <1>1, <1>4, NextIndex, ProxyAssumption
  <2>3. "active" \in Phases /\ "active" \notin Timed /\ "active" \notin Blaming
    BY DEF Phases, Timed, Blaming
  <2>4. QED
    BY <2>1, <2>2, <2>3, <1>3, RequestMoves
<1>5. CASE ~(left[r] > 0)
  <2>1. Goto(r, "unavailable", 0) /\ Scan(r, 0, 0)
    BY <1>5 DEF NextCandidate
  <2>2. "unavailable" \in Phases /\ "unavailable" \notin Timed /\ "unavailable" \notin Blaming
    BY DEF Phases, Timed, Blaming
  <2>3. reliable = {}
    BY <1>3, <1>5
  <2>4. QED
    BY <2>1, <2>2, <2>3, <1>2, RequestMoves
<1>6. QED
  BY <1>4, <1>5

(* A request ends. *)
LEMMA LeaveKeeps ==
  ASSUME RequestInv, NEW r \in Requests, Leave(r), reliable' = reliable
  PROVE  RequestInv'
<1>1. 0 \in Upstreams /\ 0 \in 0 .. (N - 1)
  BY ProxyAssumption DEF Upstreams
<1>2. "idle" \in Phases /\ "idle" \notin Timed /\ "idle" \notin Blaming /\ "idle" \notin Asking
  BY DEF Phases, Timed, Blaming, Asking
<1>3. QED
  BY <1>1, <1>2, RequestMoves DEF Leave

(* What a step that leaves a part of the state alone keeps. *)
LEMMA UpstreamsUntouched ==
  ASSUME UpstreamInv, UNCHANGED <<reliable, active, passive, breaker>>
  PROVE  UpstreamInv'
  BY DEF UpstreamInv

LEMMA HistoryUntouched ==
  ASSUME HistoryInv, UNCHANGED <<clock, nextIndex, reports, probes, probeWins>>
  PROVE  HistoryInv'
  BY DEF HistoryInv

(* A breaker is told or asked something: a reliable upstream's stays new,  *)
(* and the histories keep their types.                                     *)
LEMMA BreakerChanges ==
  ASSUME UpstreamInv, NEW u \in Upstreams, NEW c \in Breakers,
         u \in reliable => c = NewBreaker,
         breaker' = [breaker EXCEPT ![u] = c], UNCHANGED <<reliable, active, passive>>
  PROVE  UpstreamInv'
<1>1. breaker' \in [Upstreams -> Breakers]
  BY DEF UpstreamInv
<1>2. \A v \in reliable : breaker'[v] = NewBreaker
  BY DEF UpstreamInv
<1>3. QED
  BY <1>1, <1>2 DEF UpstreamInv

LEMMA PassiveChanges ==
  ASSUME UpstreamInv, NEW u \in Upstreams, NEW c \in PassiveRecords,
         u \in reliable => c = NewPassive,
         passive' = [passive EXCEPT ![u] = c], UNCHANGED <<reliable, active, breaker>>
  PROVE  UpstreamInv'
<1>1. passive' \in [Upstreams -> PassiveRecords]
  BY DEF UpstreamInv
<1>2. \A v \in reliable : passive'[v] = NewPassive
  BY DEF UpstreamInv
<1>3. QED
  BY <1>1, <1>2 DEF UpstreamInv
-----------------------------------------------------------------------------
LEMMA SelectKeeps ==
  ASSUME IInv, NEW r \in Requests, Select(r)
  PROVE  IInv'
<1>1. Goto(r, "active", 0) /\ Scan(r, nextIndex, N - 1)
  BY DEF Select
<1>2. nextIndex \in Upstreams /\ N - 1 \in 0 .. (N - 1)
  BY ProxyAssumption DEF IInv, HistoryInv
<1>3. ASSUME reliable # {} PROVE WorkingAhead(nextIndex, N - 1)
  <2>1. PICK w \in reliable : w \in Upstreams
    BY <1>3 DEF IInv, UpstreamInv
  <2> DEFINE d == IF w >= nextIndex THEN w - nextIndex ELSE w + N - nextIndex
  <2>2. d \in 0 .. (N - 1) /\ Ahead(nextIndex, d) = w
    BY <2>1, <1>2, ProxyAssumption DEF Upstreams, Ahead
  <2>3. QED
    BY <2>1, <2>2 DEF WorkingAhead
<1>4. "active" \in Phases /\ "active" \notin Timed /\ "active" \notin Blaming
  BY DEF Phases, Timed, Blaming
<1>5. RequestInv'
  BY <1>1, <1>2, <1>3, <1>4, RequestMoves DEF IInv, Select
<1>6. nextIndex' \in Upstreams
  BY <1>2, NextIndex DEF Select
<1>7. UpstreamInv' /\ HistoryInv'
  BY <1>6, UpstreamsUntouched DEF IInv, HistoryInv, Select
<1>8. QED
  BY <1>5, <1>7 DEF IInv

LEMMA TryActiveKeeps ==
  ASSUME IInv, NEW r \in Requests, TryActive(r)
  PROVE  IInv'
<1>1. UpstreamInv' /\ HistoryInv'
  BY UpstreamsUntouched, HistoryUntouched DEF IInv, TryActive
<1>2. pc[r] \in Asking /\ target[r] \in Upstreams
  BY DEF IInv, RequestInv, TryActive, Asking
<1>3. CASE active[target[r]]
  <2>1. Goto(r, "passive", clock) /\ UNCHANGED <<target, left>>
    BY <1>3 DEF TryActive, Stay
  <2>2. "passive" \in Phases /\ "passive" \in Timed /\ "passive" \notin Blaming
    BY DEF Phases, Timed, Blaming
  <2>3. RequestInv'
    BY <2>1, <2>2, <1>2, StayScans, RequestMoves DEF IInv, HistoryInv, TryActive
  <2>4. QED
    BY <2>3, <1>1 DEF IInv
<1>4. CASE ~active[target[r]]
  <2>1. target[r] \notin reliable
    BY <1>4 DEF IInv, UpstreamInv
  <2>2. NextCandidate(r) /\ reliable' = reliable
    BY <1>4 DEF TryActive
  <2>3. RequestInv'
    BY <2>1, <2>2, <1>2, RefusedMovesOn DEF IInv, UpstreamInv
  <2>4. QED
    BY <2>3, <1>1 DEF IInv
<1>5. QED
  BY <1>3, <1>4

LEMMA TryPassiveKeeps ==
  ASSUME IInv, NEW r \in Requests, TryPassive(r)
  PROVE  IInv'
<1>1. UpstreamInv' /\ HistoryInv'
  BY UpstreamsUntouched, HistoryUntouched DEF IInv, TryPassive
<1>2. pc[r] \in Asking /\ target[r] \in Upstreams /\ at[r] \in Nat
  BY DEF IInv, RequestInv, TryPassive, Asking
<1>3. CASE PassiveAvailable(passive[target[r]], at[r])
  <2>1. Goto(r, "breaker", at[r]) /\ UNCHANGED <<target, left>>
    BY <1>3 DEF TryPassive, Stay
  <2>2. "breaker" \in Phases /\ "breaker" \in Timed /\ "breaker" \notin Blaming
    BY DEF Phases, Timed, Blaming
  <2>3. RequestInv'
    BY <2>1, <2>2, <1>2, StayScans, RequestMoves DEF IInv, TryPassive
  <2>4. QED
    BY <2>3, <1>1 DEF IInv
<1>4. CASE ~PassiveAvailable(passive[target[r]], at[r])
  <2>1. target[r] \notin reliable
    BY <1>2, <1>4, NewPassiveStaysNew DEF IInv, UpstreamInv
  <2>2. NextCandidate(r) /\ reliable' = reliable
    BY <1>4 DEF TryPassive
  <2>3. RequestInv'
    BY <2>1, <2>2, <1>2, RefusedMovesOn DEF IInv, UpstreamInv
  <2>4. QED
    BY <2>3, <1>1 DEF IInv
<1>5. QED
  BY <1>3, <1>4

LEMMA TryBreakerKeeps ==
  ASSUME IInv, NEW r \in Requests, TryBreaker(r)
  PROVE  IInv'
<1> DEFINE u == target[r]
<1>1. pc[r] \in Asking /\ u \in Upstreams /\ at[r] \in Nat /\ breaker[u] \in Breakers
  BY DEF IInv, RequestInv, UpstreamInv, TryBreaker, Asking
<1>2. CASE EnterBreaker(r, "inflight", 0)
  <2>1. Goto(r, "inflight", 0) /\ Scan(r, u, 0) /\ breaker' = [breaker EXCEPT ![u] = BreakerAllow(breaker[u])]
    BY <1>2 DEF EnterBreaker
  <2>2. /\ "inflight" \in Phases /\ "inflight" \notin Timed
        /\ "inflight" \notin Blaming /\ "inflight" \notin Asking
    BY DEF Phases, Timed, Blaming, Asking
  <2>3. 0 \in 0 .. (N - 1)
    BY ProxyAssumption
  <2>4. RequestInv'
    BY <2>1, <2>2, <2>3, <1>1, RequestMoves DEF IInv, TryBreaker
  <2>5. BreakerAllow(breaker[u]) \in Breakers /\ (u \in reliable => BreakerAllow(breaker[u]) = NewBreaker)
    BY <1>1, BreakerOperators, NewBreakerStaysNew DEF IInv, UpstreamInv
  <2>6. UpstreamInv'
    BY <2>1, <2>5, <1>1, BreakerChanges DEF IInv, TryBreaker
  <2>7. HistoryInv'
    BY <1>2, <1>1 DEF IInv, HistoryInv, TryBreaker, EnterBreaker
  <2>8. QED
    BY <2>4, <2>6, <2>7 DEF IInv
<1>3. CASE RefusedByBreaker(r)
  <2>1. target[r] \notin reliable
    BY <1>1, <1>3, NewBreakerStaysNew DEF IInv, UpstreamInv, RefusedByBreaker
  <2>2. NextCandidate(r) /\ reliable' = reliable
    BY <1>3 DEF TryBreaker, RefusedByBreaker
  <2>3. RequestInv'
    BY <2>1, <2>2, <1>1, RefusedMovesOn DEF IInv, UpstreamInv
  <2>4. UpstreamInv' /\ HistoryInv'
    BY <1>3, UpstreamsUntouched, HistoryUntouched DEF IInv, TryBreaker, RefusedByBreaker
  <2>5. QED
    BY <2>3, <2>4 DEF IInv
<1>4. QED
  BY <1>2, <1>3 DEF TryBreaker

(* Answer, Fail and UpgradeFail: the exchange has an outcome. *)
LEMMA FinishKeeps ==
  ASSUME IInv, NEW r \in Requests, NEW to \in {"success", "failure"}, NEW time \in Nat,
         to = "success" => time = 0, to = "failure" => target[r] \notin reliable,
         Finish(r, to, time)
  PROVE  IInv'
<1>1. UpstreamInv' /\ HistoryInv'
  BY UpstreamsUntouched, HistoryUntouched DEF IInv, Finish
<1>2. to \in Phases /\ to \notin Asking /\ to # "unavailable"
  BY DEF Phases, Asking
<1>3. (to \notin Timed => time = 0) /\ (to \in Blaming => target[r] \notin reliable)
  BY DEF Timed, Blaming
<1>4. Goto(r, to, time) /\ UNCHANGED <<target, left, reliable>>
  BY DEF Finish
<1>5. RequestInv'
  BY <1>2, <1>3, <1>4, StayScans, RequestMoves DEF IInv
<1>6. QED
  BY <1>1, <1>5 DEF IInv

LEMMA ReportPassiveKeeps ==
  ASSUME IInv, NEW r \in Requests, ReportPassive(r)
  PROVE  IInv'
<1> DEFINE u == target[r]
<1>1. u \in Upstreams /\ at[r] \in Nat /\ passive[u] \in PassiveRecords
  BY DEF IInv, RequestInv, UpstreamInv
<1>2. UNCHANGED <<reliable, clock, nextIndex, active, breaker, target, left, probes, probeWins>>
  BY DEF ReportPassive
<1>3. ASSUME NEW outcome \in {"success", "failure"}, Remember(r, outcome)
      PROVE  HistoryInv'
  BY <1>2, <1>3, RememberedType DEF IInv, HistoryInv, Remember
<1>4. CASE pc[r] = "success"
  <2>1. /\ passive' = [passive EXCEPT ![u] = PassiveRecordSuccess(passive[u])]
        /\ Remember(r, "success")
        /\ Goto(r, "successBreaker", 0)
    BY <1>4 DEF ReportPassive
  <2>2. /\ "successBreaker" \in Phases /\ "successBreaker" \notin Timed
        /\ "successBreaker" \notin Blaming /\ "successBreaker" \notin Asking
    BY DEF Phases, Timed, Blaming, Asking
  <2>3. RequestInv'
    BY <2>1, <2>2, <1>2, StayScans, RequestMoves DEF IInv
  <2>4. /\ PassiveRecordSuccess(passive[u]) \in PassiveRecords
        /\ u \in reliable => PassiveRecordSuccess(passive[u]) = NewPassive
    BY <1>1, PassiveOperators, NewPassiveStaysNew DEF IInv, UpstreamInv
  <2>5. UpstreamInv'
    BY <2>1, <2>4, <1>1, <1>2, PassiveChanges DEF IInv
  <2>6. QED
    BY <2>1, <2>3, <2>5, <1>3 DEF IInv
<1>5. CASE pc[r] = "failure"
  <2>1. /\ passive' = [passive EXCEPT ![u] = PassiveRecordFailure(passive[u], at[r])]
        /\ Remember(r, "failure")
        /\ Goto(r, "failureBreaker", at[r])
    BY <1>5 DEF ReportPassive
  <2>2. /\ "failureBreaker" \in Phases /\ "failureBreaker" \in Timed
        /\ "failureBreaker" \notin Asking
    BY DEF Phases, Timed, Asking
  <2>3. u \notin reliable
    BY <1>5 DEF IInv, RequestInv, Blameless, Blaming
  <2>4. RequestInv'
    BY <2>1, <2>2, <2>3, <1>1, <1>2, StayScans, RequestMoves DEF IInv
  <2>5. PassiveRecordFailure(passive[u], at[r]) \in PassiveRecords
    BY <1>1, PassiveOperators
  <2>6. UpstreamInv'
    BY <2>1, <2>3, <2>5, <1>1, <1>2, PassiveChanges DEF IInv
  <2>7. QED
    BY <2>1, <2>4, <2>6, <1>3 DEF IInv
<1>6. QED
  BY <1>4, <1>5 DEF ReportPassive

(* A report to the breaker forgets probes only. *)
LEMMA ReportedType ==
  ASSUME HistoryInv, NEW r \in Requests, NEW u \in Upstreams, Reported(r, u)
  PROVE  probes' \in [Upstreams -> SUBSET Requests]
  BY DEF HistoryInv, Reported

LEMMA ReportFailureKeeps ==
  ASSUME IInv, NEW r \in Requests, ReportFailure(r)
  PROVE  IInv'
<1> DEFINE u == target[r]
<1>1. u \in Upstreams /\ at[r] \in Nat /\ breaker[u] \in Breakers
  BY DEF IInv, RequestInv, UpstreamInv
<1>2. u \notin reliable
  BY DEF IInv, RequestInv, ReportFailure, Blameless, Blaming
<1>3. RequestInv'
  BY LeaveKeeps DEF IInv, ReportFailure
<1>4. breaker' = [breaker EXCEPT ![u] = BreakerRecordFailure(breaker[u], at[r])]
  BY DEF ReportFailure
<1>5. BreakerRecordFailure(breaker[u], at[r]) \in Breakers
  BY <1>1, BreakerOperators
<1>6. UpstreamInv'
  BY <1>1, <1>2, <1>4, <1>5, BreakerChanges DEF IInv, ReportFailure
<1>7. Reported(r, u)
  BY DEF ReportFailure
<1>8. HistoryInv'
  BY <1>1, <1>7, ReportedType DEF IInv, HistoryInv, ReportFailure
<1>9. QED
  BY <1>3, <1>6, <1>8 DEF IInv

LEMMA ReportSuccessKeeps ==
  ASSUME IInv, NEW r \in Requests, ReportSuccess(r)
  PROVE  IInv'
<1> DEFINE u == target[r]
<1>1. u \in Upstreams /\ breaker[u] \in Breakers
  BY DEF IInv, RequestInv, UpstreamInv
<1>2. RequestInv'
  <2>1. CASE Leave(r)
    BY <2>1, LeaveKeeps DEF IInv, ReportSuccess
  <2>2. CASE Goto(r, "upgrading", 0) /\ Stay(r)
    <3>1. Goto(r, "upgrading", 0) /\ UNCHANGED <<target, left, reliable>>
      BY <2>2 DEF Stay, ReportSuccess
    <3>2. /\ "upgrading" \in Phases /\ "upgrading" \notin Timed
          /\ "upgrading" \notin Blaming /\ "upgrading" \notin Asking
      BY DEF Phases, Timed, Blaming, Asking
    <3>3. QED
      BY <3>1, <3>2, StayScans, RequestMoves DEF IInv
  <2>3. QED
    BY <2>1, <2>2 DEF ReportSuccess
<1>3. breaker' = [breaker EXCEPT ![u] = BreakerRecordSuccess(breaker[u])]
  BY DEF ReportSuccess
<1>4. /\ BreakerRecordSuccess(breaker[u]) \in Breakers
      /\ u \in reliable => BreakerRecordSuccess(breaker[u]) = NewBreaker
  BY <1>1, BreakerOperators, NewBreakerStaysNew DEF IInv, UpstreamInv
<1>5. UpstreamInv'
  BY <1>1, <1>3, <1>4, BreakerChanges DEF IInv, ReportSuccess
<1>6. Reported(r, u)
  BY DEF ReportSuccess
<1>7. HistoryInv'
  BY <1>1, <1>6, ReportedType DEF IInv, HistoryInv, ReportSuccess
<1>8. QED
  BY <1>2, <1>5, <1>7 DEF IInv

(* Every step keeps the invariant. *)
LEMMA StepIInv == IInv /\ [Next]_vars => IInv'
<1> SUFFICES ASSUME IInv, [Next]_vars PROVE IInv'
  OBVIOUS
<1>1. CASE UNCHANGED vars
  BY <1>1 DEF vars, IInv, RequestInv, UpstreamInv, HistoryInv, NoTimeKept, Covered,
              WorkingAhead, Blameless
<1>2. CASE Tick
  <2>1. RequestInv' /\ UpstreamInv'
    BY <1>2, UpstreamsUntouched DEF Tick, IInv, RequestInv, NoTimeKept, Covered,
                                    WorkingAhead, Blameless
  <2>2. HistoryInv'
    BY <1>2 DEF Tick, IInv, HistoryInv
  <2>3. QED
    BY <2>1, <2>2 DEF IInv
<1>3. ASSUME NEW u \in Upstreams, CheckerPublishes(u) PROVE IInv'
  <2>1. RequestInv' /\ HistoryInv'
    BY <1>3, HistoryUntouched DEF CheckerPublishes, IInv, RequestInv, NoTimeKept, Covered,
                                  WorkingAhead, Blameless
  <2>2. UpstreamInv'
    BY <1>3 DEF CheckerPublishes, IInv, UpstreamInv
  <2>3. QED
    BY <2>1, <2>2 DEF IInv
<1>4. ASSUME NEW r \in Requests, Select(r) PROVE IInv'
  BY <1>4, SelectKeeps
<1>5. ASSUME NEW r \in Requests, TryAcquire(r) PROVE IInv'
  BY <1>5, TryActiveKeeps, TryPassiveKeeps, TryBreakerKeeps DEF TryAcquire
<1>6. ASSUME NEW r \in Requests, Unavailable(r) \/ UpgradeDone(r) PROVE IInv'
  BY <1>6, LeaveKeeps, UpstreamsUntouched, HistoryUntouched DEF Unavailable, UpgradeDone, IInv
<1>7. ASSUME NEW r \in Requests, Answer(r) PROVE IInv'
  BY <1>7, FinishKeeps DEF Answer
<1>8. ASSUME NEW r \in Requests, Fail(r) \/ UpgradeFail(r) PROVE IInv'
  BY <1>8, FinishKeeps DEF Fail, UpgradeFail, IInv, HistoryInv
<1>9. ASSUME NEW r \in Requests, ReportPassive(r) \/ ReportFailure(r) \/ ReportSuccess(r)
      PROVE  IInv'
  BY <1>9, ReportPassiveKeeps, ReportFailureKeeps, ReportSuccessKeeps
<1>10. QED
  BY <1>1, <1>2, <1>3, <1>4, <1>5, <1>6, <1>7, <1>8, <1>9 DEF Next, Proceed
-----------------------------------------------------------------------------
(* The invariant holds throughout. *)
LEMMA Invariance == Spec => []IInv
  BY InitIInv, StepIInv, PTL DEF Spec

(* The records of every upstream, the candidates and the phases of every   *)
(* request keep their types; in particular nextIndex and the candidates    *)
(* never leave the list of upstreams.                                      *)
THEOREM TypeCorrect == Spec => []TypeOK
<1>1. IInv => TypeOK
  BY DEF IInv, RequestInv, UpstreamInv, HistoryInv, TypeOK
<1>2. QED
  BY <1>1, Invariance, PTL

(* Whatever the other upstreams of the route do, and however the requests  *)
(* interleave, an upstream that works keeps a closed breaker and a clean   *)
(* record, and while there is one selectUpstream never comes back empty.   *)
THEOREM WorkingUpstreamServes == Spec => []Isolation
<1>1. IInv => Isolation
  BY DEF IInv, RequestInv, UpstreamInv, Covered, Isolation
<1>2. QED
  BY <1>1, Invariance, PTL
-----------------------------------------------------------------------------
(* The refinements.  A step of one request changes the view that the       *)
(* records of the watched upstream have of that request only.              *)
Alone(r) ==
  \A q \in Requests \ {r} : pc'[q] = pc[q] /\ at'[q] = at[q] /\ target'[q] = target[q]

LEMMA Steps ==
  ASSUME RequestInv, NEW r \in Requests, NEW to, NEW time, Goto(r, to, time)
  PROVE  /\ pc'[r] = to /\ at'[r] = time
         /\ \A u, more : Scan(r, u, more) => target'[r] = u /\ Alone(r)
         /\ UNCHANGED <<target, left>> => target'[r] = target[r] /\ Alone(r)
  BY DEF RequestInv, Goto, Scan, Alone

(* Where a request is when it has left the upstream it was asking. *)
Away == {"idle", "active", "unavailable"}

LEMMA MovesOn ==
  ASSUME RequestInv, NEW r \in Requests, NextCandidate(r) \/ Leave(r)
  PROVE  pc'[r] \in Away /\ at'[r] = 0 /\ Alone(r)
  BY Steps DEF NextCandidate, Leave, Away

(* The breaker's view of a request. *)
WatchedAt(r) == IF target[r] = Watched THEN at[r] ELSE 0

LEMMA BreakerMoves ==
  ASSUME RequestInv, NEW r \in Requests, NEW from, NEW to, NEW time, Alone(r),
         WatchedPhase(r) = from, WatchedPhase(r)' = to, WatchedAt(r)' = time
  PROVE  WatchedBreaker!Move(r, from, to, time)
  BY DEF Alone, WatchedBreaker!Move, WatchedPhase, WatchedAt

LEMMA BreakerStutters ==
  ASSUME RequestInv, NEW r \in Requests, Alone(r),
         WatchedPhase(r)' = WatchedPhase(r), WatchedAt(r)' = WatchedAt(r),
         clock' = clock, breaker'[Watched] = breaker[Watched],
         probes'[Watched] = probes[Watched], probeWins'[Watched] = probeWins[Watched]
  PROVE  UNCHANGED WatchedBreaker!vars
  BY DEF Alone, WatchedBreaker!vars, WatchedPhase, WatchedAt

LEMMA SameBreaker ==
  ASSUME NEW c, NEW now
  PROVE  /\ WatchedBreaker!BreakerAllows(c, now) = BreakerAllows(c, now)
         /\ WatchedBreaker!BreakerAllow(c) = BreakerAllow(c)
         /\ WatchedBreaker!BreakerRecordSuccess(c) = BreakerRecordSuccess(c)
         /\ WatchedBreaker!BreakerRecordFailure(c, now) = BreakerRecordFailure(c, now)
  BY DEF BreakerAllows, BreakerAllow, TakeSlot, EnterHalfOpen, BreakerRecordSuccess,
         BreakerRecordFailure, ReleaseSlot, CloseLocked, OpenLocked,
         WatchedBreaker!BreakerAllows, WatchedBreaker!BreakerAllow,
         WatchedBreaker!TakeSlot, WatchedBreaker!EnterHalfOpen,
         WatchedBreaker!BreakerRecordSuccess, WatchedBreaker!BreakerRecordFailure,
         WatchedBreaker!ReleaseSlot, WatchedBreaker!CloseLocked, WatchedBreaker!OpenLocked

(* The breaker's view in each phase. *)
BreakerView(r) ==
  /\ target[r] # Watched \/ pc[r] \in Away => WatchedPhase(r) = "idle" /\ WatchedAt(r) = 0
  /\ target[r] = Watched =>
       /\ WatchedAt(r) = at[r]
       /\ pc[r] \in {"passive", "breaker"} => WatchedPhase(r) = "admission"
       /\ pc[r] \in {"inflight", "upgrading"} => WatchedPhase(r) = pc[r]
       /\ pc[r] \in {"success", "successBreaker"} => WatchedPhase(r) = "success"
       /\ pc[r] \in {"failure", "failureBreaker"} => WatchedPhase(r) = "failure"

LEMMA BreakerViews ==
  ASSUME IInv, IInv', NEW r \in Requests
  PROVE  BreakerView(r) /\ BreakerView(r)'
<1>1. BreakerView(r)
  BY DEF IInv, RequestInv, NoTimeKept, Timed, WatchedPhase, WatchedAt, Away, BreakerView
<1>2. BreakerView(r)'
  BY DEF IInv, RequestInv, NoTimeKept, Timed, WatchedPhase, WatchedAt, Away, BreakerView
<1>3. QED
  BY <1>1, <1>2

(* A request of another upstream, or one that has nothing to do with the   *)
(* breaker yet, is idle for it before and after.                           *)
LEMMA BreakerElsewhere ==
  ASSUME IInv, IInv', NEW r \in Requests, Alone(r),
         target[r] # Watched \/ pc[r] \in Away, target'[r] # Watched \/ pc'[r] \in Away,
         clock' = clock, breaker'[Watched] = breaker[Watched],
         probes'[Watched] = probes[Watched], probeWins'[Watched] = probeWins[Watched]
  PROVE  UNCHANGED WatchedBreaker!vars
<1>1. RequestInv
  BY DEF IInv
<1>2. /\ WatchedPhase(r) = "idle" /\ WatchedAt(r) = 0
      /\ WatchedPhase(r)' = "idle" /\ WatchedAt(r)' = 0
  BY BreakerViews DEF BreakerView
<1>3. QED
  BY <1>1, <1>2, BreakerStutters

LEMMA BreakerSeesTryActive ==
  ASSUME IInv, IInv', NEW r \in Requests, TryActive(r)
  PROVE  WatchedBreaker!Arrive(r) \/ UNCHANGED WatchedBreaker!vars
<1>1. RequestInv /\ pc[r] \in Away
  BY DEF IInv, TryActive, Away
<1>2. UNCHANGED <<clock, breaker, probes, probeWins>>
  BY DEF TryActive
<1>3. CASE active[target[r]]
  <2>1. pc'[r] = "passive" /\ at'[r] = clock /\ target'[r] = target[r] /\ Alone(r)
    BY <1>1, <1>3, Steps DEF TryActive, Stay
  <2>2. CASE target[r] = Watched
    <3>1. WatchedPhase(r) = "idle" /\ WatchedPhase(r)' = "admission" /\ WatchedAt(r)' = clock
      BY <1>1, <2>1, <2>2, BreakerViews DEF BreakerView
    <3>2. WatchedBreaker!Move(r, "idle", "admission", clock)
      BY <1>1, <2>1, <3>1, BreakerMoves DEF WatchedBreaker!Move
    <3>3. QED
      BY <1>2, <3>2 DEF WatchedBreaker!Arrive
  <2>3. CASE target[r] # Watched
    BY <1>1, <1>2, <2>1, <2>3, BreakerElsewhere
  <2>4. QED
    BY <2>2, <2>3
<1>4. CASE ~active[target[r]]
  <2>1. pc'[r] \in Away /\ Alone(r)
    BY <1>1, <1>4, MovesOn DEF TryActive
  <2>2. QED
    BY <1>1, <1>2, <2>1, BreakerElsewhere
<1>5. QED
  BY <1>3, <1>4

LEMMA BreakerSeesTryPassive ==
  ASSUME IInv, IInv', NEW r \in Requests, TryPassive(r)
  PROVE  WatchedBreaker!Skip(r) \/ UNCHANGED WatchedBreaker!vars
<1>1. RequestInv /\ pc[r] = "passive"
  BY DEF IInv, TryPassive
<1>2. UNCHANGED <<clock, breaker, probes, probeWins>>
  BY DEF TryPassive
<1>3. CASE PassiveAvailable(passive[target[r]], at[r])
  <2>1. pc'[r] = "breaker" /\ at'[r] = at[r] /\ target'[r] = target[r] /\ Alone(r)
    BY <1>1, <1>3, Steps DEF TryPassive, Stay
  <2>2. WatchedPhase(r)' = WatchedPhase(r) /\ WatchedAt(r)' = WatchedAt(r)
    BY <1>1, <2>1, BreakerViews DEF BreakerView
  <2>3. QED
    BY <1>1, <1>2, <2>1, <2>2, BreakerStutters
<1>4. CASE ~PassiveAvailable(passive[target[r]], at[r])
  <2>1. pc'[r] \in Away /\ Alone(r)
    BY <1>1, <1>4, MovesOn DEF TryPassive
  <2>2. CASE target[r] = Watched
    <3>1. WatchedPhase(r) = "admission" /\ WatchedPhase(r)' = "idle" /\ WatchedAt(r)' = 0
      BY <1>1, <2>1, <2>2, BreakerViews DEF BreakerView
    <3>2. WatchedBreaker!Move(r, "admission", "idle", 0)
      BY <1>1, <2>1, <3>1, BreakerMoves
    <3>3. QED
      BY <1>2, <3>2 DEF WatchedBreaker!Skip
  <2>3. CASE target[r] # Watched
    BY <1>2, <2>1, <2>3, BreakerElsewhere
  <2>4. QED
    BY <2>2, <2>3
<1>5. QED
  BY <1>3, <1>4

LEMMA BreakerSeesTryBreaker ==
  ASSUME IInv, IInv', NEW r \in Requests, TryBreaker(r)
  PROVE  WatchedBreaker!Admit(r) \/ WatchedBreaker!Refuse(r) \/ UNCHANGED WatchedBreaker!vars
<1>1. RequestInv /\ pc[r] = "breaker" /\ clock' = clock
  BY DEF IInv, TryBreaker
<1>2. CASE EnterBreaker(r, "inflight", 0)
  <2>1. pc'[r] = "inflight" /\ at'[r] = 0 /\ target'[r] = target[r] /\ Alone(r)
    BY <1>1, <1>2, Steps DEF EnterBreaker
  <2>2. CASE target[r] = Watched
    <3>1. /\ WatchedPhase(r) = "admission" /\ WatchedAt(r) = at[r]
          /\ WatchedPhase(r)' = "inflight" /\ WatchedAt(r)' = 0
      BY <1>1, <2>1, <2>2, BreakerViews DEF BreakerView
    <3>2. WatchedBreaker!Move(r, "admission", "inflight", 0)
      BY <1>1, <2>1, <3>1, BreakerMoves
    <3>3. /\ BreakerAllows(breaker[Watched], at[r])
          /\ breaker'[Watched] = BreakerAllow(breaker[Watched])
          /\ probes'[Watched] = IF breaker'[Watched].state = "half_open"
                                THEN probes[Watched] \cup {r} ELSE probes[Watched]
          /\ probeWins'[Watched] = IF breaker[Watched].state = "open" THEN 0 ELSE probeWins[Watched]
      BY <1>2, <2>2, ProxyAssumption DEF EnterBreaker, IInv, UpstreamInv, HistoryInv
    <3>4. QED
      BY <1>1, <2>2, <3>2, <3>3, SameBreaker DEF WatchedBreaker!Admit
  <2>3. CASE target[r] # Watched
    <3>1. /\ breaker'[Watched] = breaker[Watched] /\ probes'[Watched] = probes[Watched]
          /\ probeWins'[Watched] = probeWins[Watched]
      BY <1>2, <2>3, ProxyAssumption DEF EnterBreaker, IInv, UpstreamInv, HistoryInv
    <3>2. QED
      BY <1>1, <2>1, <2>3, <3>1, BreakerElsewhere
  <2>4. QED
    BY <2>2, <2>3
<1>3. CASE RefusedByBreaker(r)
  <2>1. pc'[r] \in Away /\ Alone(r)
    BY <1>1, <1>3, MovesOn DEF RefusedByBreaker
  <2>2. UNCHANGED <<breaker, probes, probeWins>> /\ ~BreakerAllows(breaker[target[r]], at[r])
    BY <1>3 DEF RefusedByBreaker
  <2>3. CASE target[r] = Watched
    <3>1. WatchedPhase(r) = "admission" /\ WatchedPhase(r)' = "idle" /\ WatchedAt(r)' = 0
      BY <1>1, <2>1, <2>3, BreakerViews DEF BreakerView
    <3>2. WatchedBreaker!Move(r, "admission", "idle", 0)
      BY <1>1, <2>1, <3>1, BreakerMoves
    <3>3. QED
      BY <1>1, <2>2, <2>3, <3>2, SameBreaker DEF WatchedBreaker!Refuse
  <2>4. CASE target[r] # Watched
    BY <1>1, <2>1, <2>2, <2>4, BreakerElsewhere
  <2>5. QED
    BY <2>3, <2>4
<1>4. QED
  BY <1>2, <1>3 DEF TryBreaker

LEMMA BreakerSeesEnd ==
  ASSUME IInv, IInv', NEW r \in Requests, Select(r) \/ Unavailable(r) \/ UpgradeDone(r)
  PROVE  WatchedBreaker!UpgradeDone(r) \/ UNCHANGED WatchedBreaker!vars
<1>1. RequestInv /\ UNCHANGED <<clock, breaker, probes, probeWins>>
  BY DEF IInv, Select, Unavailable, UpgradeDone
<1>2. pc'[r] \in Away /\ Alone(r)
  BY <1>1, Steps, MovesOn DEF Select, Unavailable, UpgradeDone, Away
<1>3. CASE target[r] # Watched \/ pc[r] \in Away
  BY <1>1, <1>2, <1>3, BreakerElsewhere
<1>4. CASE target[r] = Watched /\ pc[r] \notin Away
  <2>1. pc[r] = "upgrading"
    BY <1>4 DEF Select, Unavailable, UpgradeDone, Away
  <2>2. WatchedPhase(r) = "upgrading" /\ WatchedPhase(r)' = "idle" /\ WatchedAt(r)' = 0
    BY <1>2, <1>4, <2>1, BreakerViews DEF BreakerView
  <2>3. WatchedBreaker!Move(r, "upgrading", "idle", 0)
    BY <1>1, <1>2, <2>2, BreakerMoves
  <2>4. QED
    BY <1>1, <2>3 DEF WatchedBreaker!UpgradeDone
<1>5. QED
  BY <1>3, <1>4

LEMMA BreakerSeesOutcome ==
  ASSUME IInv, IInv', NEW r \in Requests, Answer(r) \/ Fail(r) \/ UpgradeFail(r)
  PROVE  \/ WatchedBreaker!Answer(r) \/ WatchedBreaker!Fail(r) \/ WatchedBreaker!UpgradeFail(r)
         \/ UNCHANGED WatchedBreaker!vars
<1>1. RequestInv /\ UNCHANGED <<clock, breaker, probes, probeWins>>
  BY DEF IInv, Answer, Fail, UpgradeFail, Finish
<1>2. target'[r] = target[r] /\ Alone(r)
  BY <1>1, Steps DEF Answer, Fail, UpgradeFail, Finish
<1>3. CASE target[r] # Watched
  BY <1>1, <1>2, <1>3, BreakerElsewhere
<1>4. CASE target[r] = Watched /\ Answer(r)
  <2>1. pc[r] = "inflight" /\ pc'[r] = "success" /\ at'[r] = 0
    BY <1>1, <1>4, Steps DEF Answer, Finish
  <2>2. WatchedPhase(r) = "inflight" /\ WatchedPhase(r)' = "success" /\ WatchedAt(r)' = 0
    BY <1>2, <1>4, <2>1, BreakerViews DEF BreakerView
  <2>3. WatchedBreaker!Move(r, "inflight", "success", 0)
    BY <1>1, <1>2, <2>2, BreakerMoves
  <2>4. QED
    BY <1>1, <2>3 DEF WatchedBreaker!Answer
<1>5. CASE target[r] = Watched /\ (Fail(r) \/ UpgradeFail(r))
  <2>1. pc[r] \in {"inflight", "upgrading"} /\ pc'[r] = "failure" /\ at'[r] = clock
    BY <1>1, <1>5, Steps DEF Fail, UpgradeFail, Finish
  <2>2. WatchedPhase(r) = pc[r] /\ WatchedPhase(r)' = "failure" /\ WatchedAt(r)' = clock
    BY <1>2, <1>5, <2>1, BreakerViews DEF BreakerView
  <2>3. \/ WatchedBreaker!Move(r, "inflight", "failure", clock)
        \/ WatchedBreaker!Move(r, "upgrading", "failure", clock)
    BY <1>1, <1>2, <2>1, <2>2, BreakerMoves DEF WatchedBreaker!Move
  <2>4. QED
    BY <1>1, <2>3 DEF WatchedBreaker!Fail, WatchedBreaker!UpgradeFail
<1>6. QED
  BY <1>3, <1>4, <1>5

LEMMA BreakerSeesPassiveReport ==
  ASSUME IInv, IInv', NEW r \in Requests, ReportPassive(r)
  PROVE  UNCHANGED WatchedBreaker!vars
<1>1. RequestInv /\ UNCHANGED <<clock, breaker, probes, probeWins, target, left>>
  BY DEF IInv, ReportPassive
<1>2. /\ \/ pc[r] = "success" /\ pc'[r] = "successBreaker" /\ at'[r] = 0
         \/ pc[r] = "failure" /\ pc'[r] = "failureBreaker" /\ at'[r] = at[r]
      /\ target'[r] = target[r] /\ Alone(r)
  BY <1>1, Steps DEF ReportPassive
<1>3. pc[r] = "success" => at[r] = 0
  BY DEF IInv, RequestInv, NoTimeKept, Timed
<1>4. WatchedPhase(r)' = WatchedPhase(r) /\ WatchedAt(r)' = WatchedAt(r)
  BY <1>2, <1>3, BreakerViews DEF BreakerView
<1>5. QED
  BY <1>1, <1>2, <1>4, BreakerStutters

LEMMA BreakerSeesFailure ==
  ASSUME IInv, IInv', NEW r \in Requests, ReportFailure(r)
  PROVE  WatchedBreaker!ReportFailure(r) \/ UNCHANGED WatchedBreaker!vars
<1>1. RequestInv /\ pc[r] = "failureBreaker" /\ UNCHANGED <<clock, probeWins>>
  BY DEF IInv, ReportFailure
<1>2. pc'[r] \in Away /\ at'[r] = 0 /\ Alone(r)
  BY <1>1, MovesOn DEF ReportFailure
<1>3. CASE target[r] = Watched
  <2>1. /\ WatchedPhase(r) = "failure" /\ WatchedAt(r) = at[r]
        /\ WatchedPhase(r)' = "idle" /\ WatchedAt(r)' = 0
    BY <1>1, <1>2, <1>3, BreakerViews DEF BreakerView
  <2>2. WatchedBreaker!Move(r, "failure", "idle", 0)
    BY <1>1, <1>2, <2>1, BreakerMoves
  <2>3. /\ breaker'[Watched] = BreakerRecordFailure(breaker[Watched], at[r])
        /\ probes'[Watched] = IF breaker'[Watched].state = "half_open"
                              THEN probes[Watched] \ {r} ELSE {}
    BY <1>3, ProxyAssumption DEF ReportFailure, Reported, IInv, UpstreamInv, HistoryInv
  <2>4. QED
    BY <1>1, <1>3, <2>2, <2>3, SameBreaker DEF WatchedBreaker!ReportFailure
<1>4. CASE target[r] # Watched
  <2>1. breaker'[Watched] = breaker[Watched] /\ probes'[Watched] = probes[Watched]
    BY <1>4, ProxyAssumption DEF ReportFailure, Reported, IInv, UpstreamInv, HistoryInv
  <2>2. QED
    BY <1>1, <1>2, <1>4, <2>1, BreakerElsewhere
<1>5. QED
  BY <1>3, <1>4

LEMMA BreakerSeesSuccess ==
  ASSUME IInv, IInv', NEW r \in Requests, ReportSuccess(r)
  PROVE  WatchedBreaker!ReportSuccess(r) \/ UNCHANGED WatchedBreaker!vars
<1>1. RequestInv /\ pc[r] = "successBreaker" /\ clock' = clock
  BY DEF IInv, ReportSuccess
<1>2. /\ pc'[r] \in Away \/ (pc'[r] = "upgrading" /\ target'[r] = target[r])
      /\ at'[r] = 0 /\ Alone(r)
  BY <1>1, MovesOn, Steps DEF ReportSuccess, Stay
<1>3. CASE target[r] = Watched
  <2>1. /\ WatchedPhase(r) = "success"
        /\ WatchedPhase(r)' \in {"idle", "upgrading"} /\ WatchedAt(r)' = 0
    BY <1>1, <1>2, <1>3, BreakerViews DEF BreakerView
  <2>2. \E next \in {"idle", "upgrading"} : WatchedBreaker!Move(r, "success", next, 0)
    BY <1>1, <1>2, <2>1, BreakerMoves
  <2>3. /\ breaker'[Watched] = BreakerRecordSuccess(breaker[Watched])
        /\ probes'[Watched] = IF breaker'[Watched].state = "half_open"
                              THEN probes[Watched] \ {r} ELSE {}
        /\ probeWins'[Watched] = IF r \in probes[Watched]
                                 THEN probeWins[Watched] + 1 ELSE probeWins[Watched]
    BY <1>3, ProxyAssumption DEF ReportSuccess, Reported, IInv, UpstreamInv, HistoryInv
  <2>4. QED
    BY <1>1, <1>3, <2>2, <2>3, SameBreaker DEF WatchedBreaker!ReportSuccess
<1>4. CASE target[r] # Watched
  <2>1. /\ breaker'[Watched] = breaker[Watched] /\ probes'[Watched] = probes[Watched]
        /\ probeWins'[Watched] = probeWins[Watched]
    BY <1>4, ProxyAssumption DEF ReportSuccess, Reported, IInv, UpstreamInv, HistoryInv
  <2>2. target'[r] # Watched \/ pc'[r] \in Away
    BY <1>2, <1>4
  <2>3. QED
    BY <1>1, <1>2, <1>4, <2>1, <2>2, BreakerElsewhere
<1>5. QED
  BY <1>3, <1>4

LEMMA BreakerSeesOthers ==
  ASSUME Tick \/ (\E u \in Upstreams : CheckerPublishes(u)) \/ UNCHANGED vars
  PROVE  WatchedBreaker!Tick \/ UNCHANGED WatchedBreaker!vars
<1>1. CASE Tick
  BY <1>1 DEF Tick, WatchedBreaker!Tick, WatchedPhase
<1>2. ASSUME NEW u \in Upstreams, CheckerPublishes(u)
      PROVE  UNCHANGED WatchedBreaker!vars
  BY <1>2 DEF CheckerPublishes, WatchedBreaker!vars, WatchedPhase
<1>3. CASE UNCHANGED vars
  BY <1>3 DEF vars, WatchedBreaker!vars, WatchedPhase
<1>4. QED
  BY <1>1, <1>2, <1>3

(* The breaker of any upstream, driven by the requests of its route through *)
(* selectUpstream, tryAcquire, recordSuccess and recordFailure, implements  *)
(* the breaker of CircuitBreaker.                                           *)
THEOREM BreakerRefinement == Spec => ImplementsBreaker
<1>1. Init => WatchedBreaker!Init
  BY ProxyAssumption DEF Init, WatchedBreaker!Init, WatchedPhase, NewBreaker,
                         WatchedBreaker!NewBreaker
<1>2. IInv /\ IInv' /\ [Next]_vars => [WatchedBreaker!Next]_(WatchedBreaker!vars)
  <2> SUFFICES ASSUME IInv, IInv', [Next]_vars
               PROVE  WatchedBreaker!Next \/ UNCHANGED WatchedBreaker!vars
    OBVIOUS
  <2>1. ASSUME NEW r \in Requests, Select(r) \/ Proceed(r)
        PROVE  \/ WatchedBreaker!Arrive(r) \/ WatchedBreaker!Proceed(r)
               \/ UNCHANGED WatchedBreaker!vars
    BY <2>1, BreakerSeesTryActive, BreakerSeesTryPassive, BreakerSeesTryBreaker, BreakerSeesEnd,
       BreakerSeesOutcome, BreakerSeesPassiveReport, BreakerSeesFailure, BreakerSeesSuccess
       DEF Proceed, TryAcquire, WatchedBreaker!Proceed
  <2>2. QED
    BY <2>1, BreakerSeesOthers DEF Next, WatchedBreaker!Next
<1>3. QED
  BY <1>1, <1>2, Invariance, PTL DEF Spec, ImplementsBreaker, WatchedBreaker!Spec
-----------------------------------------------------------------------------
(* The passive record's view of a request. *)
WatchedPassiveAt(r) ==
  IF WatchedPassivePhase(r) \in {"admission", "failure"} THEN at[r] ELSE 0

LEMMA PassiveMoves ==
  ASSUME RequestInv, NEW r \in Requests, NEW from, NEW to, NEW time, Alone(r),
         WatchedPassivePhase(r) = from, WatchedPassivePhase(r)' = to,
         WatchedPassiveAt(r)' = time
  PROVE  WatchedPassive!Move(r, from, to, time)
  BY DEF Alone, WatchedPassive!Move, WatchedPassivePhase, WatchedPassiveAt

LEMMA PassiveStutters ==
  ASSUME RequestInv, NEW r \in Requests, Alone(r),
         WatchedPassivePhase(r)' = WatchedPassivePhase(r),
         WatchedPassiveAt(r)' = WatchedPassiveAt(r),
         clock' = clock, passive'[Watched] = passive[Watched], reports' = reports
  PROVE  UNCHANGED WatchedPassive!vars
  BY DEF Alone, WatchedPassive!vars, WatchedPassivePhase, WatchedPassiveAt

LEMMA SamePassive ==
  ASSUME NEW s, NEW now, NEW h, NEW outcome
  PROVE  /\ WatchedPassive!PassiveAvailable(s, now) = PassiveAvailable(s, now)
         /\ WatchedPassive!PassiveRecordSuccess(s) = PassiveRecordSuccess(s)
         /\ WatchedPassive!PassiveRecordFailure(s, now) = PassiveRecordFailure(s, now)
         /\ WatchedPassive!Remembered(h, outcome) = Remembered(h, outcome)
  BY DEF PassiveAvailable, PassiveRecordSuccess, PassiveRecordFailure, Remembered, Memory,
         WatchedPassive!PassiveAvailable, WatchedPassive!PassiveRecordSuccess,
         WatchedPassive!PassiveRecordFailure, WatchedPassive!Remembered, WatchedPassive!Memory

(* The record's view in each phase: it has done with a request once the    *)
(* failure is reported, while the breaker is still to hear of it.          *)
Done == Away \cup {"failureBreaker"}
PassiveView(r) ==
  /\ target[r] # Watched \/ pc[r] \in Done => WatchedPassivePhase(r) = "idle"
  /\ target[r] = Watched =>
       /\ pc[r] = "passive" => WatchedPassivePhase(r) = "admission"
       /\ pc[r] \in {"breaker", "inflight"} => WatchedPassivePhase(r) = "inflight"
       /\ pc[r] \in {"success", "failure"} => WatchedPassivePhase(r) = pc[r]
       /\ pc[r] \in {"successBreaker", "upgrading"} => WatchedPassivePhase(r) = "upgrading"
  /\ WatchedPassiveAt(r) =
       IF WatchedPassivePhase(r) \in {"admission", "failure"} THEN at[r] ELSE 0

LEMMA PassiveViews ==
  ASSUME NEW r \in Requests
  PROVE  PassiveView(r) /\ PassiveView(r)'
<1>1. PassiveView(r)
  BY DEF WatchedPassivePhase, WatchedPassiveAt, Away, Done, PassiveView
<1>2. PassiveView(r)'
  BY DEF WatchedPassivePhase, WatchedPassiveAt, Away, Done, PassiveView
<1>3. QED
  BY <1>1, <1>2

LEMMA PassiveElsewhere ==
  ASSUME RequestInv, NEW r \in Requests, Alone(r),
         target[r] # Watched \/ pc[r] \in Done, target'[r] # Watched \/ pc'[r] \in Done,
         clock' = clock, passive'[Watched] = passive[Watched], reports' = reports
  PROVE  UNCHANGED WatchedPassive!vars
<1>1. /\ WatchedPassivePhase(r) = "idle" /\ WatchedPassiveAt(r) = 0
      /\ WatchedPassivePhase(r)' = "idle" /\ WatchedPassiveAt(r)' = 0
  BY PassiveViews DEF PassiveView
<1>2. QED
  BY <1>1, PassiveStutters

LEMMA PassiveSeesTryActive ==
  ASSUME RequestInv, NEW r \in Requests, TryActive(r)
  PROVE  WatchedPassive!Arrive(r) \/ UNCHANGED WatchedPassive!vars
<1>1. pc[r] \in Done /\ UNCHANGED <<clock, passive, reports>>
  BY DEF TryActive, Away, Done
<1>2. CASE active[target[r]]
  <2>1. pc'[r] = "passive" /\ at'[r] = clock /\ target'[r] = target[r] /\ Alone(r)
    BY <1>2, Steps DEF TryActive, Stay
  <2>2. CASE target[r] = Watched
    <3>1. /\ WatchedPassivePhase(r) = "idle" /\ WatchedPassivePhase(r)' = "admission"
          /\ WatchedPassiveAt(r)' = clock
      BY <1>1, <2>1, <2>2, PassiveViews DEF PassiveView
    <3>2. WatchedPassive!Move(r, "idle", "admission", clock)
      BY <2>1, <3>1, PassiveMoves DEF WatchedPassive!Move
    <3>3. QED
      BY <1>1, <3>2 DEF WatchedPassive!Arrive
  <2>3. CASE target[r] # Watched
    BY <1>1, <2>1, <2>3, PassiveElsewhere
  <2>4. QED
    BY <2>2, <2>3
<1>3. CASE ~active[target[r]]
  <2>1. pc'[r] \in Done /\ Alone(r)
    BY <1>3, MovesOn DEF TryActive, Done
  <2>2. QED
    BY <1>1, <2>1, PassiveElsewhere
<1>4. QED
  BY <1>2, <1>3

LEMMA PassiveSeesTryPassive ==
  ASSUME RequestInv, NEW r \in Requests, TryPassive(r)
  PROVE  \/ WatchedPassive!Admit(r) \/ WatchedPassive!Refuse(r)
         \/ UNCHANGED WatchedPassive!vars
<1>1. pc[r] = "passive" /\ UNCHANGED <<clock, passive, reports>>
  BY DEF TryPassive
<1>2. target[r] = Watched =>
        WatchedPassivePhase(r) = "admission" /\ WatchedPassiveAt(r) = at[r]
  BY <1>1, PassiveViews DEF PassiveView
<1>3. CASE PassiveAvailable(passive[target[r]], at[r])
  <2>1. pc'[r] = "breaker" /\ target'[r] = target[r] /\ Alone(r)
    BY <1>3, Steps DEF TryPassive, Stay
  <2>2. CASE target[r] = Watched
    <3>1. WatchedPassivePhase(r)' = "inflight" /\ WatchedPassiveAt(r)' = 0
      BY <2>1, <2>2, PassiveViews DEF PassiveView
    <3>2. WatchedPassive!Move(r, "admission", "inflight", 0)
      BY <1>2, <2>1, <2>2, <3>1, PassiveMoves
    <3>3. QED
      BY <1>1, <1>2, <1>3, <2>2, <3>2, SamePassive DEF WatchedPassive!Admit, WatchedPassiveAt
  <2>3. CASE target[r] # Watched
    BY <1>1, <2>1, <2>3, PassiveElsewhere
  <2>4. QED
    BY <2>2, <2>3
<1>4. CASE ~PassiveAvailable(passive[target[r]], at[r])
  <2>1. pc'[r] \in Done /\ Alone(r)
    BY <1>4, MovesOn DEF TryPassive, Done
  <2>2. CASE target[r] = Watched
    <3>1. WatchedPassivePhase(r)' = "idle" /\ WatchedPassiveAt(r)' = 0
      BY <2>1, PassiveViews DEF PassiveView
    <3>2. WatchedPassive!Move(r, "admission", "idle", 0)
      BY <1>2, <2>1, <2>2, <3>1, PassiveMoves
    <3>3. QED
      BY <1>1, <1>2, <1>4, <2>2, <3>2, SamePassive DEF WatchedPassive!Refuse, WatchedPassiveAt
  <2>3. CASE target[r] # Watched
    BY <1>1, <2>1, <2>3, PassiveElsewhere
  <2>4. QED
    BY <2>2, <2>3
<1>5. QED
  BY <1>3, <1>4

LEMMA PassiveSeesTryBreaker ==
  ASSUME RequestInv, NEW r \in Requests, TryBreaker(r)
  PROVE  WatchedPassive!TurnAway(r) \/ UNCHANGED WatchedPassive!vars
<1>1. pc[r] = "breaker" /\ UNCHANGED <<clock, passive, reports>>
  BY DEF TryBreaker
<1>2. CASE EnterBreaker(r, "inflight", 0)
  <2>1. pc'[r] = "inflight" /\ target'[r] = target[r] /\ Alone(r)
    BY <1>2, Steps DEF EnterBreaker
  <2>2. /\ WatchedPassivePhase(r)' = WatchedPassivePhase(r)
        /\ WatchedPassiveAt(r)' = WatchedPassiveAt(r)
    BY <1>1, <2>1, PassiveViews DEF PassiveView
  <2>3. QED
    BY <1>1, <2>1, <2>2, PassiveStutters
<1>3. CASE RefusedByBreaker(r)
  <2>1. pc'[r] \in Done /\ Alone(r)
    BY <1>3, MovesOn DEF RefusedByBreaker, Done
  <2>2. CASE target[r] = Watched
    <3>1. /\ WatchedPassivePhase(r) = "inflight"
          /\ WatchedPassivePhase(r)' = "idle" /\ WatchedPassiveAt(r)' = 0
      BY <1>1, <2>1, <2>2, PassiveViews DEF PassiveView
    <3>2. WatchedPassive!Move(r, "inflight", "idle", 0)
      BY <2>1, <3>1, PassiveMoves
    <3>3. QED
      BY <1>1, <3>2 DEF WatchedPassive!TurnAway
  <2>3. CASE target[r] # Watched
    BY <1>1, <2>1, <2>3, PassiveElsewhere
  <2>4. QED
    BY <2>2, <2>3
<1>4. QED
  BY <1>2, <1>3 DEF TryBreaker

LEMMA PassiveSeesEnd ==
  ASSUME RequestInv, NEW r \in Requests, Select(r) \/ Unavailable(r) \/ UpgradeDone(r)
  PROVE  WatchedPassive!UpgradeDone(r) \/ UNCHANGED WatchedPassive!vars
<1>1. UNCHANGED <<clock, passive, reports>>
  BY DEF Select, Unavailable, UpgradeDone
<1>2. pc'[r] \in Done /\ Alone(r)
  BY Steps, MovesOn DEF Select, Unavailable, UpgradeDone, Away, Done
<1>3. CASE target[r] # Watched \/ pc[r] \in Done
  BY <1>1, <1>2, <1>3, PassiveElsewhere
<1>4. CASE target[r] = Watched /\ pc[r] \notin Done
  <2>1. pc[r] = "upgrading"
    BY <1>4 DEF Select, Unavailable, UpgradeDone, Away, Done
  <2>2. /\ WatchedPassivePhase(r) = "upgrading"
        /\ WatchedPassivePhase(r)' = "idle" /\ WatchedPassiveAt(r)' = 0
    BY <1>2, <1>4, <2>1, PassiveViews DEF PassiveView
  <2>3. WatchedPassive!Move(r, "upgrading", "idle", 0)
    BY <1>2, <2>2, PassiveMoves
  <2>4. QED
    BY <1>1, <2>3 DEF WatchedPassive!UpgradeDone
<1>5. QED
  BY <1>3, <1>4

LEMMA PassiveSeesOutcome ==
  ASSUME RequestInv, NEW r \in Requests, Answer(r) \/ Fail(r) \/ UpgradeFail(r)
  PROVE  \/ WatchedPassive!Answer(r) \/ WatchedPassive!Fail(r) \/ WatchedPassive!UpgradeFail(r)
         \/ UNCHANGED WatchedPassive!vars
<1>1. UNCHANGED <<clock, passive, reports>>
  BY DEF Answer, Fail, UpgradeFail, Finish
<1>2. target'[r] = target[r] /\ Alone(r)
  BY Steps DEF Answer, Fail, UpgradeFail, Finish
<1>3. CASE target[r] # Watched
  BY <1>1, <1>2, <1>3, PassiveElsewhere
<1>4. CASE target[r] = Watched /\ Answer(r)
  <2>1. pc[r] = "inflight" /\ pc'[r] = "success"
    BY <1>4, Steps DEF Answer, Finish
  <2>2. /\ WatchedPassivePhase(r) = "inflight"
        /\ WatchedPassivePhase(r)' = "success" /\ WatchedPassiveAt(r)' = 0
    BY <1>2, <1>4, <2>1, PassiveViews DEF PassiveView
  <2>3. WatchedPassive!Move(r, "inflight", "success", 0)
    BY <1>2, <2>2, PassiveMoves
  <2>4. QED
    BY <1>1, <2>3 DEF WatchedPassive!Answer
<1>5. CASE target[r] = Watched /\ (Fail(r) \/ UpgradeFail(r))
  <2>1. pc[r] \in {"inflight", "upgrading"} /\ pc'[r] = "failure" /\ at'[r] = clock
    BY <1>5, Steps DEF Fail, UpgradeFail, Finish
  <2>2. /\ WatchedPassivePhase(r) = pc[r]
        /\ WatchedPassivePhase(r)' = "failure" /\ WatchedPassiveAt(r)' = clock
    BY <1>2, <1>5, <2>1, PassiveViews DEF PassiveView
  <2>3. \/ WatchedPassive!Move(r, "inflight", "failure", clock)
        \/ WatchedPassive!Move(r, "upgrading", "failure", clock)
    BY <1>2, <2>1, <2>2, PassiveMoves DEF WatchedPassive!Move
  <2>4. QED
    BY <1>1, <2>3 DEF WatchedPassive!Fail, WatchedPassive!UpgradeFail
<1>6. QED
  BY <1>3, <1>4, <1>5

LEMMA PassiveSeesReport ==
  ASSUME IInv, NEW r \in Requests, ReportPassive(r)
  PROVE  \/ WatchedPassive!ReportSuccess(r) \/ WatchedPassive!ReportFailure(r)
         \/ UNCHANGED WatchedPassive!vars
<1>1. RequestInv /\ UNCHANGED <<clock, target, left>>
  BY DEF IInv, ReportPassive
<1>2. target'[r] = target[r] /\ Alone(r)
  BY <1>1, Steps DEF ReportPassive
<1>3. CASE target[r] # Watched
  <2>1. passive'[Watched] = passive[Watched] /\ reports' = reports
    BY <1>3, ProxyAssumption DEF ReportPassive, Remember, IInv, UpstreamInv
  <2>2. QED
    BY <1>1, <1>2, <1>3, <2>1, PassiveElsewhere
<1>4. CASE target[r] = Watched /\ pc[r] = "success"
  <2>1. /\ pc'[r] = "successBreaker"
        /\ passive'[Watched] = PassiveRecordSuccess(passive[Watched])
        /\ reports' = Remembered(reports, "success")
    BY <1>1, <1>4, Steps, ProxyAssumption DEF ReportPassive, Remember, IInv, UpstreamInv
  <2>2. /\ WatchedPassivePhase(r) = "success"
        /\ WatchedPassivePhase(r)' = "upgrading" /\ WatchedPassiveAt(r)' = 0
    BY <1>2, <1>4, <2>1, PassiveViews DEF PassiveView
  <2>3. WatchedPassive!Move(r, "success", "upgrading", 0)
    BY <1>1, <1>2, <2>2, PassiveMoves
  <2>4. QED
    BY <1>1, <2>1, <2>3, SamePassive DEF WatchedPassive!ReportSuccess, WatchedPassive!Remember
<1>5. CASE target[r] = Watched /\ pc[r] = "failure"
  <2>1. /\ pc'[r] = "failureBreaker"
        /\ passive'[Watched] = PassiveRecordFailure(passive[Watched], at[r])
        /\ reports' = Remembered(reports, "failure")
    BY <1>1, <1>5, Steps, ProxyAssumption DEF ReportPassive, Remember, IInv, UpstreamInv
  <2>2. /\ WatchedPassivePhase(r) = "failure" /\ WatchedPassiveAt(r) = at[r]
        /\ WatchedPassivePhase(r)' = "idle" /\ WatchedPassiveAt(r)' = 0
    BY <1>2, <1>5, <2>1, PassiveViews DEF PassiveView, Done
  <2>3. WatchedPassive!Move(r, "failure", "idle", 0)
    BY <1>1, <1>2, <2>2, PassiveMoves
  <2>4. QED
    BY <1>1, <2>1, <2>2, <2>3, SamePassive
       DEF WatchedPassive!ReportFailure, WatchedPassive!Remember, WatchedPassiveAt
<1>6. QED
  BY <1>3, <1>4, <1>5 DEF ReportPassive

LEMMA PassiveSeesBreakerReport ==
  ASSUME RequestInv, NEW r \in Requests, ReportFailure(r) \/ ReportSuccess(r)
  PROVE  WatchedPassive!UpgradeDone(r) \/ UNCHANGED WatchedPassive!vars
<1>1. UNCHANGED <<clock, passive, reports>>
  BY DEF ReportFailure, ReportSuccess
<1>2. CASE ReportFailure(r)
  <2>1. pc[r] \in Done /\ pc'[r] \in Done /\ Alone(r)
    BY <1>2, MovesOn DEF ReportFailure, Done
  <2>2. QED
    BY <1>1, <2>1, PassiveElsewhere
<1>3. CASE ReportSuccess(r) /\ Leave(r)
  <2>1. pc[r] = "successBreaker" /\ pc'[r] \in Done /\ Alone(r)
    BY <1>3, MovesOn DEF ReportSuccess, Done
  <2>2. CASE target[r] = Watched
    <3>1. /\ WatchedPassivePhase(r) = "upgrading"
          /\ WatchedPassivePhase(r)' = "idle" /\ WatchedPassiveAt(r)' = 0
      BY <2>1, <2>2, PassiveViews DEF PassiveView
    <3>2. WatchedPassive!Move(r, "upgrading", "idle", 0)
      BY <2>1, <3>1, PassiveMoves
    <3>3. QED
      BY <1>1, <3>2 DEF WatchedPassive!UpgradeDone
  <2>3. CASE target[r] # Watched
    BY <1>1, <2>1, <2>3, PassiveElsewhere
  <2>4. QED
    BY <2>2, <2>3
<1>4. CASE ReportSuccess(r) /\ Goto(r, "upgrading", 0) /\ Stay(r)
  <2>1. /\ pc[r] = "successBreaker" /\ pc'[r] = "upgrading"
        /\ target'[r] = target[r] /\ Alone(r)
    BY <1>4, Steps DEF ReportSuccess, Stay
  <2>2. /\ WatchedPassivePhase(r)' = WatchedPassivePhase(r)
        /\ WatchedPassiveAt(r)' = WatchedPassiveAt(r)
    BY <2>1, PassiveViews DEF PassiveView
  <2>3. QED
    BY <1>1, <2>1, <2>2, PassiveStutters
<1>5. QED
  BY <1>2, <1>3, <1>4 DEF ReportSuccess

LEMMA PassiveSeesOthers ==
  ASSUME Tick \/ (\E u \in Upstreams : CheckerPublishes(u)) \/ UNCHANGED vars
  PROVE  WatchedPassive!Tick \/ UNCHANGED WatchedPassive!vars
<1>1. CASE Tick
  BY <1>1 DEF Tick, WatchedPassive!Tick, WatchedPassivePhase
<1>2. ASSUME NEW u \in Upstreams, CheckerPublishes(u)
      PROVE  UNCHANGED WatchedPassive!vars
  BY <1>2 DEF CheckerPublishes, WatchedPassive!vars, WatchedPassivePhase
<1>3. CASE UNCHANGED vars
  BY <1>3 DEF vars, WatchedPassive!vars, WatchedPassivePhase
<1>4. QED
  BY <1>1, <1>2, <1>3

(* The passive record of any upstream, asked before the breaker and told of *)
(* every outcome before it, implements the record of PassiveHealth.         *)
THEOREM PassiveRefinement == Spec => ImplementsPassive
<1>1. Init => WatchedPassive!Init
  BY ProxyAssumption DEF Init, WatchedPassive!Init, WatchedPassivePhase, NewPassive,
                         WatchedPassive!NewPassive
<1>2. IInv /\ [Next]_vars => [WatchedPassive!Next]_(WatchedPassive!vars)
  <2> SUFFICES ASSUME IInv, [Next]_vars
               PROVE  WatchedPassive!Next \/ UNCHANGED WatchedPassive!vars
    OBVIOUS
  <2>1. RequestInv
    BY DEF IInv
  <2>2. ASSUME NEW r \in Requests, Select(r) \/ Proceed(r)
        PROVE  WatchedPassive!Next \/ UNCHANGED WatchedPassive!vars
    BY <2>1, <2>2, PassiveSeesTryActive, PassiveSeesTryPassive, PassiveSeesTryBreaker,
       PassiveSeesEnd, PassiveSeesOutcome, PassiveSeesReport, PassiveSeesBreakerReport
       DEF Proceed, TryAcquire, WatchedPassive!Next
  <2>3. QED
    BY <2>2, PassiveSeesOthers DEF Next, WatchedPassive!Next
<1>3. QED
  BY <1>1, <1>2, Invariance, PTL DEF Spec, ImplementsPassive, WatchedPassive!Spec
-----------------------------------------------------------------------------
(* CircuitBreakerProofs and PassiveHealthProofs therefore apply to every    *)
(* upstream of a route: what the route's requests are shown to implement is *)
(* what is proved there.                                                    *)
LEMMA SameBreakerSpec == ImplementsBreaker => BreakerProofs!Spec
<1>1. WatchedBreaker!Init => BreakerProofs!Init
  BY DEF WatchedBreaker!Init, BreakerProofs!Init,
         WatchedBreaker!NewBreaker, BreakerProofs!NewBreaker
<1>2. [WatchedBreaker!Next]_(WatchedBreaker!vars) => [BreakerProofs!Next]_(BreakerProofs!vars)
  BY DEF WatchedBreaker!Next, WatchedBreaker!vars, WatchedBreaker!Tick, WatchedBreaker!Arrive,
         WatchedBreaker!Proceed, WatchedBreaker!Move, WatchedBreaker!Skip, WatchedBreaker!Admit,
         WatchedBreaker!Refuse, WatchedBreaker!Answer, WatchedBreaker!Fail,
         WatchedBreaker!ReportSuccess, WatchedBreaker!ReportFailure,
         WatchedBreaker!UpgradeFail, WatchedBreaker!UpgradeDone,
         WatchedBreaker!BreakerAllows, WatchedBreaker!BreakerAllow, WatchedBreaker!TakeSlot,
         WatchedBreaker!EnterHalfOpen, WatchedBreaker!BreakerRecordSuccess,
         WatchedBreaker!BreakerRecordFailure, WatchedBreaker!ReleaseSlot,
         WatchedBreaker!CloseLocked, WatchedBreaker!OpenLocked,
         BreakerProofs!Next, BreakerProofs!vars, BreakerProofs!Tick, BreakerProofs!Arrive,
         BreakerProofs!Proceed, BreakerProofs!Move, BreakerProofs!Skip, BreakerProofs!Admit,
         BreakerProofs!Refuse, BreakerProofs!Answer, BreakerProofs!Fail,
         BreakerProofs!ReportSuccess, BreakerProofs!ReportFailure,
         BreakerProofs!UpgradeFail, BreakerProofs!UpgradeDone,
         BreakerProofs!BreakerAllows, BreakerProofs!BreakerAllow, BreakerProofs!TakeSlot,
         BreakerProofs!EnterHalfOpen, BreakerProofs!BreakerRecordSuccess,
         BreakerProofs!BreakerRecordFailure, BreakerProofs!ReleaseSlot,
         BreakerProofs!CloseLocked, BreakerProofs!OpenLocked
<1>3. QED
  BY <1>1, <1>2, PTL DEF ImplementsBreaker, WatchedBreaker!Spec, BreakerProofs!Spec

LEMMA SamePassiveSpec == ImplementsPassive => PassiveProofs!Spec
<1>1. WatchedPassive!Init => PassiveProofs!Init
  BY DEF WatchedPassive!Init, PassiveProofs!Init,
         WatchedPassive!NewPassive, PassiveProofs!NewPassive
<1>2. [WatchedPassive!Next]_(WatchedPassive!vars) => [PassiveProofs!Next]_(PassiveProofs!vars)
  BY DEF WatchedPassive!Next, WatchedPassive!vars, WatchedPassive!Tick, WatchedPassive!Arrive,
         WatchedPassive!Move, WatchedPassive!Admit, WatchedPassive!Refuse,
         WatchedPassive!TurnAway, WatchedPassive!Answer, WatchedPassive!Fail,
         WatchedPassive!ReportSuccess, WatchedPassive!ReportFailure, WatchedPassive!Remember,
         WatchedPassive!UpgradeFail, WatchedPassive!UpgradeDone,
         WatchedPassive!PassiveAvailable, WatchedPassive!PassiveRecordSuccess,
         WatchedPassive!PassiveRecordFailure, WatchedPassive!Remembered, WatchedPassive!Memory,
         PassiveProofs!Next, PassiveProofs!vars, PassiveProofs!Tick, PassiveProofs!Arrive,
         PassiveProofs!Move, PassiveProofs!Admit, PassiveProofs!Refuse,
         PassiveProofs!TurnAway, PassiveProofs!Answer, PassiveProofs!Fail,
         PassiveProofs!ReportSuccess, PassiveProofs!ReportFailure, PassiveProofs!Remember,
         PassiveProofs!UpgradeFail, PassiveProofs!UpgradeDone,
         PassiveProofs!PassiveAvailable, PassiveProofs!PassiveRecordSuccess,
         PassiveProofs!PassiveRecordFailure, PassiveProofs!Remembered, PassiveProofs!Memory
<1>3. QED
  BY <1>1, <1>2, PTL DEF ImplementsPassive, WatchedPassive!Spec, PassiveProofs!Spec

(* In a route with any number of upstreams, where requests pass from one    *)
(* upstream to the next and passive health may turn them away first, the    *)
(* half-open slots of every breaker are backed by requests that will still  *)
(* report to it, its counters agree with its state, it never refuses longer *)
(* than openDuration, and it moves only as documented.                      *)
THEOREM EveryBreakerIsSound ==
  Spec => /\ [](WatchedBreaker!SlotsBacked /\ WatchedBreaker!CountersAgree /\ WatchedBreaker!RetryInReach)
          /\ WatchedBreaker!LegalMoves
<1>1. BreakerProofs!SlotsBacked => WatchedBreaker!SlotsBacked
  BY DEF BreakerProofs!SlotsBacked, WatchedBreaker!SlotsBacked, BreakerProofs!Cardinality,
         WatchedBreaker!Cardinality, BreakerProofs!IsFiniteSet, WatchedBreaker!IsFiniteSet
<1>2. BreakerProofs!CountersAgree => WatchedBreaker!CountersAgree
  BY DEF BreakerProofs!CountersAgree, WatchedBreaker!CountersAgree
<1>3. BreakerProofs!RetryInReach => WatchedBreaker!RetryInReach
  BY DEF BreakerProofs!RetryInReach, WatchedBreaker!RetryInReach
<1>4. BreakerProofs!LegalMoves => WatchedBreaker!LegalMoves
  BY PTL DEF BreakerProofs!LegalMoves, WatchedBreaker!LegalMoves, BreakerProofs!vars,
             WatchedBreaker!vars, BreakerProofs!BreakerStates, WatchedBreaker!BreakerStates
<1>5. Spec => BreakerProofs!Spec
  BY SameBreakerSpec, BreakerRefinement
<1>6. BreakerProofs!Spec => /\ []BreakerProofs!SlotsBacked
                            /\ []BreakerProofs!CountersAgree
                            /\ []BreakerProofs!RetryInReach
                            /\ BreakerProofs!LegalMoves
  BY BreakerProofs!SlotsAreBacked, BreakerProofs!CountersAreSound,
     BreakerProofs!RetryStaysInReach, BreakerProofs!MovesAreLegal,
     ComponentAssumptions, BreakerAssumption, PTL
<1>7. QED
  BY <1>1, <1>2, <1>3, <1>4, <1>5, <1>6, PTL

(* In the same setting the verdict on every upstream follows the reports it *)
(* gets, changes only on a streak of them, and an ejection ends at most     *)
(* unhealthyDuration from now.                                              *)
THEOREM EveryVerdictIsSound ==
  Spec => /\ [](WatchedPassive!EjectionInReach /\ WatchedPassive!VerdictFollowsReports)
          /\ WatchedPassive!VerdictNeedsStreak
<1>1. PassiveProofs!EjectionInReach => WatchedPassive!EjectionInReach
  BY DEF PassiveProofs!EjectionInReach, WatchedPassive!EjectionInReach
<1>2. PassiveProofs!VerdictFollowsReports => WatchedPassive!VerdictFollowsReports
  BY DEF PassiveProofs!VerdictFollowsReports, WatchedPassive!VerdictFollowsReports,
         PassiveProofs!LastAre, WatchedPassive!LastAre
<1>3. PassiveProofs!VerdictNeedsStreak => WatchedPassive!VerdictNeedsStreak
  BY PTL DEF PassiveProofs!VerdictNeedsStreak, WatchedPassive!VerdictNeedsStreak,
             PassiveProofs!LastAre, WatchedPassive!LastAre, PassiveProofs!vars,
             WatchedPassive!vars
<1>4. Spec => PassiveProofs!Spec
  BY SamePassiveSpec, PassiveRefinement
<1>5. PassiveProofs!Spec => /\ []PassiveProofs!EjectionInReach
                            /\ []PassiveProofs!VerdictFollowsReports
                            /\ PassiveProofs!VerdictNeedsStreak
  BY PassiveProofs!EjectionStaysInReach, PassiveProofs!VerdictIsUpToDate,
     PassiveProofs!VerdictNeedsAStreak, ComponentAssumptions, PassiveAssumption, PTL
<1>6. QED
  BY <1>1, <1>2, <1>3, <1>4, <1>5, PTL
=============================================================================

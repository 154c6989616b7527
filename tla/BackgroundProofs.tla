--------------------------- MODULE BackgroundProofs ---------------------------
(***************************************************************************)
(* Proofs about the two components that keep a goroutine of their own: the *)
(* active health checker, for any finite set of readers (the two loads of  *)
(* Available and the two stores of update need no lock), and the token     *)
(* bucket, for any burst.                                                  *)
(***************************************************************************)
EXTENDS HealthChecker, TokenBucketState, TLAPS

(* Between the stores of an update, healthy is the verdict to come. *)
StoreInOrder == loop = "store" => healthy = verdict

(* A reader goes on to load healthy only once checked is set, and its        *)
(* history is up to date.                                                    *)
ReadersTrack ==
  \A r \in Readers :
    /\ reader[r].pc = "loadHealthy" => checked
    /\ reader[r].pc \in {"loadChecked", "loadHealthy"} => published \in reader[r].seen
    /\ reader[r].pc = "loadChecked" => reader[r].answer = "none"
    /\ reader[r].pc = "returned" => reader[r].answer \in reader[r].seen

IInv == TypeOK /\ FlagsAgree /\ StoreInOrder /\ ReadersTrack
-----------------------------------------------------------------------------
(* The invariant holds when the checker starts. *)
LEMMA InitIInv == Init => IInv
<1> SUFFICES ASSUME Init PROVE IInv
  OBVIOUS
<1>1. TypeOK
  <2>1. reader \in [Readers -> ReaderStates]
    BY DEF Init, ReaderStates, Verdicts
  <2>2. QED
    BY <2>1, Zenon DEF Init, TypeOK, LoopStates, Verdicts
<1>2. FlagsAgree /\ StoreInOrder
  BY DEF Init, FlagsAgree, StoreInOrder
<1>3. ReadersTrack
  BY DEF Init, ReadersTrack
<1>4. QED
  BY <1>1, <1>2, <1>3 DEF IInv

(* Publish keeps the readers' history up to date. *)
LEMMA PublishTracks ==
  ASSUME IInv, NEW v \in Verdicts, Publish(v), checked => checked'
  PROVE  ReadersTrack' /\ reader' \in [Readers -> ReaderStates]
<1>1. reader' \in [Readers -> ReaderStates]
  BY DEF IInv, TypeOK, Publish, ReaderStates, Verdicts
<1>2. ASSUME NEW r \in Readers
      PROVE  /\ reader'[r].pc = reader[r].pc
             /\ reader'[r].answer = reader[r].answer
             /\ reader[r].seen \subseteq reader'[r].seen
             /\ reader[r].pc \in {"loadChecked", "loadHealthy"} => v \in reader'[r].seen
  BY DEF IInv, TypeOK, Publish, ReaderStates
<1>3. ReadersTrack'
  BY <1>2 DEF IInv, ReadersTrack, Publish
<1>4. QED
  BY <1>1, <1>3

(* A reader's step keeps the invariant when the state it leaves the reader  *)
(* in does.                                                                 *)
LEMMA ReadStepIInv ==
  ASSUME IInv, NEW r \in Readers, NEW from, NEW s \in ReaderStates, Read(r, from, s),
         s.pc = "loadHealthy" => checked,
         s.pc \in {"loadChecked", "loadHealthy"} => published \in s.seen,
         s.pc = "loadChecked" => s.answer = "none",
         s.pc = "returned" => s.answer \in s.seen
  PROVE  IInv'
<1>1. UNCHANGED <<backend, loop, verdict, tick, done, healthy, checked, published>>
  BY DEF Read
<1>2. reader' \in [Readers -> ReaderStates]
  BY DEF IInv, TypeOK, Read
<1>3. TypeOK'
  BY <1>1, <1>2, Zenon DEF IInv, TypeOK
<1>4. FlagsAgree' /\ StoreInOrder'
  BY <1>1, Zenon DEF IInv, FlagsAgree, StoreInOrder
<1>5. ASSUME NEW q \in Readers
      PROVE  reader'[q] = IF q = r THEN s ELSE reader[q]
  BY DEF IInv, TypeOK, Read
<1>6. ReadersTrack'
  BY <1>1, <1>5 DEF IInv, ReadersTrack
<1>7. QED
  BY <1>3, <1>4, <1>6 DEF IInv

(* Every step keeps the invariant. *)
LEMMA StepIInv == IInv /\ [Next]_vars => IInv'
<1> SUFFICES ASSUME IInv, [Next]_vars PROVE IInv'
  OBVIOUS
<1>1. TypeOK /\ FlagsAgree /\ StoreInOrder /\ ReadersTrack
  BY DEF IInv
<1>2. CASE UNCHANGED <<healthy, checked, reader, published>> /\ loop' # "store" /\ TypeOK'
  <2>1. FlagsAgree' /\ StoreInOrder'
    BY <1>1, <1>2, Zenon DEF FlagsAgree, StoreInOrder
  <2>2. ReadersTrack'
    BY <1>1, <1>2, Zenon DEF ReadersTrack
  <2>3. QED
    BY <1>2, <2>1, <2>2 DEF IInv
<1>3. CASE UNCHANGED <<loop, verdict, healthy, checked, reader, published>> /\ TypeOK'
  <2>1. FlagsAgree' /\ StoreInOrder'
    BY <1>1, <1>3, Zenon DEF FlagsAgree, StoreInOrder
  <2>2. ReadersTrack'
    BY <1>1, <1>3, Zenon DEF ReadersTrack
  <2>3. QED
    BY <1>3, <2>1, <2>2 DEF IInv
<1>4. CASE BackendChanges
  BY <1>1, <1>3, <1>4, Zenon DEF BackendChanges, TypeOK
<1>5. CASE TickerFires
  BY <1>1, <1>3, <1>5, Zenon DEF TickerFires, TypeOK
<1>6. CASE CheckEnds
  <2>1. verdict' \in BOOLEAN
    BY <1>1, <1>6, Zenon DEF CheckEnds, TypeOK, BackendStates
  <2>2. loop' = "update"
    BY <1>6 DEF CheckEnds
  <2>3. QED
    BY <1>1, <1>2, <1>6, <2>1, <2>2, Zenon DEF CheckEnds, TypeOK, LoopStates
<1>7. CASE StoreHealthy
  <2> DEFINE v == IF checked THEN VerdictName(verdict) ELSE published
  <2>1. v \in Verdicts /\ Publish(v)
    BY <1>1, <1>7 DEF StoreHealthy, TypeOK, VerdictName, Verdicts
  <2>2. ReadersTrack' /\ reader' \in [Readers -> ReaderStates]
    BY <1>7, <2>1, PublishTracks DEF StoreHealthy
  <2>3. published' \in Verdicts
    BY <2>1 DEF Publish
  <2>4. TypeOK'
    BY <1>1, <1>7, <2>2, <2>3, Zenon DEF StoreHealthy, TypeOK, LoopStates
  <2>5. StoreInOrder'
    BY <1>7, Zenon DEF StoreHealthy, StoreInOrder
  <2>6. FlagsAgree'
    <3>1. CASE checked
      BY <1>1, <1>7, <3>1 DEF StoreHealthy, Publish, VerdictName, TypeOK, FlagsAgree
    <3>2. CASE ~checked
      BY <1>1, <1>7, <3>2 DEF StoreHealthy, Publish, TypeOK, FlagsAgree
    <3>3. QED
      BY <3>1, <3>2
  <2>7. QED
    BY <2>2, <2>4, <2>5, <2>6 DEF IInv
<1>8. CASE StoreChecked
  <2>1. VerdictName(verdict) \in Verdicts /\ Publish(VerdictName(verdict))
    BY <1>1, <1>8 DEF StoreChecked, TypeOK, VerdictName, Verdicts
  <2>2. ReadersTrack' /\ reader' \in [Readers -> ReaderStates]
    BY <1>8, <2>1, PublishTracks DEF StoreChecked
  <2>3. published' \in Verdicts
    BY <2>1 DEF Publish
  <2>4. TypeOK'
    BY <1>1, <1>8, <2>2, <2>3, Zenon DEF StoreChecked, TypeOK, LoopStates
  <2>5. StoreInOrder'
    BY <1>8 DEF StoreChecked, StoreInOrder
  <2>6. FlagsAgree'
    BY <1>1, <1>8 DEF StoreChecked, Publish, VerdictName, TypeOK, FlagsAgree, StoreInOrder
  <2>7. QED
    BY <2>2, <2>4, <2>5, <2>6 DEF IInv
<1>9. CASE ReceiveTick \/ ReceiveDone
  <2>1. loop' # "store"
    BY <1>9 DEF ReceiveTick, ReceiveDone
  <2>2. QED
    BY <1>1, <1>2, <1>9, <2>1, Zenon DEF ReceiveTick, ReceiveDone, TypeOK, LoopStates
<1>10. CASE Close
  BY <1>1, <1>3, <1>10, Zenon DEF Close, TypeOK
<1>11. ASSUME NEW r \in Readers, Call(r) PROVE IInv'
  <2> DEFINE s == [pc |-> "loadChecked", seen |-> {published}, answer |-> "none"]
  <2>1. s \in ReaderStates
    BY <1>1 DEF TypeOK, ReaderStates, Verdicts
  <2>2. QED
    BY <1>11, <2>1, ReadStepIInv DEF Call
<1>12. ASSUME NEW r \in Readers, LoadChecked(r) PROVE IInv'
  <2> DEFINE s == [reader[r] EXCEPT !.pc = IF checked THEN "loadHealthy" ELSE "returned"]
  <2>1. /\ s \in ReaderStates
        /\ s.pc = IF checked THEN "loadHealthy" ELSE "returned"
        /\ s.seen = reader[r].seen
        /\ s.answer = reader[r].answer
    BY <1>1 DEF TypeOK, ReaderStates
  <2>2. reader[r].pc = "loadChecked" /\ published \in reader[r].seen
    BY <1>1, <1>12 DEF LoadChecked, Read, ReadersTrack
  <2>3. ~checked => published = "none"
    BY <1>1 DEF FlagsAgree
  <2>4. reader[r].answer = "none"
    BY <1>1, <2>2 DEF ReadersTrack
  <2>5. Read(r, "loadChecked", s)
    BY <1>12 DEF LoadChecked
  <2> HIDE DEF s
  <2>6. s.pc = "loadHealthy" => checked
    BY <2>1
  <2>7. s.pc \in {"loadChecked", "loadHealthy"} => published \in s.seen
    BY <2>1, <2>2
  <2>8. s.pc # "loadChecked"
    BY <2>1
  <2>9. s.pc = "returned" => s.answer \in s.seen
    BY <2>1, <2>2, <2>3, <2>4
  <2>10. QED
    BY <2>1, <2>5, <2>6, <2>7, <2>8, <2>9, ReadStepIInv
<1>13. ASSUME NEW r \in Readers, LoadHealthy(r) PROVE IInv'
  <2> DEFINE s == [reader[r] EXCEPT !.pc = "returned", !.answer = VerdictName(healthy)]
  <2>1. VerdictName(healthy) \in Verdicts
    BY DEF VerdictName, Verdicts
  <2>2. /\ s \in ReaderStates
        /\ s.pc = "returned"
        /\ s.seen = reader[r].seen
        /\ s.answer = VerdictName(healthy)
    BY <1>1, <2>1 DEF TypeOK, ReaderStates
  <2>3. checked /\ published \in reader[r].seen
    BY <1>1, <1>13 DEF LoadHealthy, Read, ReadersTrack
  <2>4. VerdictName(healthy) = published
    BY <1>1, <2>3 DEF FlagsAgree, VerdictName, TypeOK, Verdicts
  <2>5. QED
    BY <1>13, <2>2, <2>3, <2>4, ReadStepIInv DEF LoadHealthy
<1>14. ASSUME NEW r \in Readers, Return(r) PROVE IInv'
  <2> DEFINE s == [reader[r] EXCEPT !.pc = "idle", !.seen = {}, !.answer = "none"]
  <2>1. s \in ReaderStates /\ s.pc = "idle"
    BY <1>1 DEF TypeOK, ReaderStates, Verdicts
  <2>2. QED
    BY <1>14, <2>1, ReadStepIInv DEF Return
<1>15. CASE UNCHANGED vars
  BY <1>1, <1>3, <1>15, Zenon DEF vars, TypeOK
<1>16. QED
  BY <1>4, <1>5, <1>6, <1>7, <1>8, <1>9, <1>10, <1>11, <1>12, <1>13, <1>14, <1>15
  DEF Next, Step, Update, ReadStep

(* The invariant holds in every reachable state. *)
LEMMA Invariance == Spec => []IInv
  BY InitIInv, StepIInv, PTL DEF Spec

(* checked and healthy, stored one after the other without a lock, agree    *)
(* with the latest verdict.                                                 *)
THEOREM FlagsAlwaysAgree == Spec => []FlagsAgree
<1>1. IInv => FlagsAgree
  BY DEF IInv
<1>2. QED
  BY <1>1, Invariance, PTL

(* Available and Snapshot act on a verdict that was the latest during the   *)
(* call, for any number of concurrent readers.                              *)
THEOREM AnswersAreFresh == Spec => []AnswersFresh
<1>1. IInv => AnswersFresh
  BY DEF IInv, ReadersTrack, AnswersFresh
<1>2. QED
  BY <1>1, Invariance, PTL
-----------------------------------------------------------------------------
(* The token bucket, in the variables of TokenBucketState. *)
Bucket == INSTANCE TokenBucket

(* RateBounded is not inductive: a tick under way will become a token, so   *)
(* the sum has to count it.  Every token, given out or not, and every tick  *)
(* under way goes back to the first filling, to a tick of the window or to  *)
(* a tick it began with.                                                    *)
Conservation == admitted + tokens + UnderWay <= Burst + fired + carried

BucketIInv == Bucket!TypeOK /\ Conservation

(* A new bucket is full and has no tick under way. *)
LEMMA BucketInit == Bucket!Init => BucketIInv
<1> SUFFICES ASSUME Bucket!Init PROVE BucketIInv
  OBVIOUS
<1>1. closed \in BOOLEAN
  BY Zenon DEF Bucket!Init
<1>2. QED
  BY <1>1, BurstAssumption DEF Bucket!Init, BucketIInv, Bucket!TypeOK, Conservation, UnderWay

(* No step makes a token out of nothing. *)
LEMMA BucketStep == BucketIInv /\ [Bucket!Next]_Bucket!vars => BucketIInv'
<1> SUFFICES ASSUME BucketIInv, [Bucket!Next]_Bucket!vars PROVE BucketIInv'
  OBVIOUS
<1> USE BurstAssumption DEF BucketIInv, Bucket!TypeOK, Conservation, UnderWay, Bucket!UnderWay
<1>1. CASE Bucket!TickerFires
  BY <1>1 DEF Bucket!TickerFires
<1>2. CASE Bucket!ReceiveTick
  BY <1>2 DEF Bucket!ReceiveTick
<1>3. CASE Bucket!AddToken
  BY <1>3 DEF Bucket!AddToken
<1>4. CASE Bucket!ReceiveDone
  BY <1>4 DEF Bucket!ReceiveDone
<1>5. CASE Bucket!Allow
  BY <1>5 DEF Bucket!Allow
<1>6. CASE Bucket!StopTicker \/ Bucket!CloseDone
  <2>1. closed' \in BOOLEAN
    BY <1>6, Zenon DEF Bucket!StopTicker, Bucket!CloseDone
  <2>2. QED
    BY <1>6, <2>1 DEF Bucket!StopTicker, Bucket!CloseDone
<1>7. CASE Bucket!NewWindow
  BY <1>7 DEF Bucket!NewWindow
<1>8. CASE UNCHANGED Bucket!vars
  BY <1>8 DEF Bucket!vars
<1>9. QED
  BY <1>1, <1>2, <1>3, <1>4, <1>5, <1>6, <1>7, <1>8 DEF Bucket!Next

(* The bucket never holds more than burst tokens, nor fewer than none. *)
THEOREM BucketTypeCorrect == Bucket!Spec => []Bucket!TypeOK
<1>1. BucketIInv => Bucket!TypeOK
  BY DEF BucketIInv
<1>2. QED
  BY <1>1, BucketInit, BucketStep, PTL DEF Bucket!Spec

(* For any burst and any window, Allow admits at most the burst, one        *)
(* request per tick of the window and one per tick under way at its start.  *)
THEOREM RateIsBounded == Bucket!Spec => []RateBounded
<1>1. BucketIInv => RateBounded
  BY BurstAssumption DEF BucketIInv, Bucket!TypeOK, Conservation, UnderWay, RateBounded
<1>2. QED
  BY <1>1, BucketInit, BucketStep, PTL DEF Bucket!Spec
=============================================================================

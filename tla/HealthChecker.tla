----------------------------- MODULE HealthChecker -----------------------------
(***************************************************************************)
(* The active health checker of one upstream (internal/health/checker.go): *)
(* the goroutine that runs loop, the two atomic flags it publishes its     *)
(* verdicts through, and the request goroutines that read them without a   *)
(* lock, one load at a time.  lastCheckAt and lastReason are only ever     *)
(* displayed and are left out.                                             *)
(***************************************************************************)
EXTENDS FiniteSets

CONSTANT Readers   \* goroutines that call Available or Snapshot

ASSUME ReadersAssumption == IsFiniteSet(Readers)

VARIABLES
  backend,    \* what the backend's health endpoint does
  loop,       \* where the checker's goroutine is
  verdict,    \* the result of the check in progress
  tick,       \* ticker.C holds a tick
  done,       \* c.done is closed
  healthy,    \* c.healthy
  checked,    \* c.checked
  reader,     \* the readers' program counters and results
  published   \* history: the latest verdict readers can act on, or "none"

vars == <<backend, loop, verdict, tick, done, healthy, checked, reader, published>>

(* A flaky backend may or may not answer 2xx before the timeout. *)
BackendStates == {"up", "down", "flaky"}
LoopStates == {"checking", "update", "store", "select", "stopped"}
Verdicts == {"none", "up", "down"}

(* A reader is in Available, or in Snapshot, which makes the same two loads *)
(* in the same order.  seen: history, the values published had during the   *)
(* call; answer: the verdict the call acts on, "none" when it fails open.   *)
ReaderStates == [pc     : {"idle", "loadChecked", "loadHealthy", "returned"},
                 seen   : SUBSET Verdicts,
                 answer : Verdicts]

TypeOK ==
  /\ backend \in BackendStates
  /\ loop \in LoopStates
  /\ verdict \in BOOLEAN
  /\ tick \in BOOLEAN
  /\ done \in BOOLEAN
  /\ healthy \in BOOLEAN
  /\ checked \in BOOLEAN
  /\ reader \in [Readers -> ReaderStates]
  /\ published \in Verdicts

(* newActiveHealthChecker has just called NewChecker and Start. *)
Init ==
  /\ backend \in BackendStates
  /\ loop = "checking"
  /\ verdict = FALSE
  /\ tick = FALSE
  /\ done = FALSE
  /\ healthy = FALSE
  /\ checked = FALSE
  /\ reader = [r \in Readers |->
                 [pc |-> "idle", seen |-> {}, answer |-> "none"]]
  /\ published = "none"
-----------------------------------------------------------------------------
BackendChanges ==
  /\ \E b \in BackendStates \ {backend} : backend' = b
  /\ UNCHANGED <<loop, verdict, tick, done, healthy, checked, reader, published>>

(* time.Ticker: a tick is dropped when the previous one was not received.   *)
(* The ticker exists from the end of the first check to the loop's return.  *)
TickerFires ==
  /\ checked /\ loop # "stopped"
  /\ ~tick
  /\ tick' = TRUE
  /\ UNCHANGED <<backend, loop, verdict, done, healthy, checked, reader, published>>

(* checkOnce: the GET ends with a status, an error or a timeout. *)
CheckEnds ==
  /\ loop = "checking"
  /\ verdict' \in CASE backend = "up"    -> {TRUE}
                    [] backend = "down"  -> {FALSE}
                    [] backend = "flaky" -> BOOLEAN
  /\ loop' = "update"
  /\ UNCHANGED <<backend, tick, done, healthy, checked, reader, published>>

VerdictName(ok) == IF ok THEN "up" ELSE "down"

(* Readers in the middle of a call see the change of published. *)
Publish(v) ==
  /\ published' = v
  /\ reader' = [r \in Readers |->
                  IF reader[r].pc \in {"loadChecked", "loadHealthy"}
                  THEN [reader[r] EXCEPT !.seen = @ \cup {v}]
                  ELSE reader[r]]

(* update: c.healthy.Store(healthy) decides what readers do, except that    *)
(* nobody looks at healthy before checked is set.                           *)
StoreHealthy ==
  /\ loop = "update"
  /\ healthy' = verdict
  /\ loop' = "store"
  /\ Publish(IF checked THEN VerdictName(verdict) ELSE published)
  /\ UNCHANGED <<backend, verdict, tick, done, checked>>

(* Mutant: the loop gives up on a backend that fails a check. *)
StoreCheckedGivesUp ==
  /\ loop = "store"
  /\ checked' = TRUE
  /\ loop' = IF verdict THEN "select" ELSE "stopped"
  /\ Publish(VerdictName(verdict))
  /\ UNCHANGED <<backend, verdict, tick, done, healthy>>

(* update: c.checked.Store(true); loop goes on to its select. *)
StoreChecked ==
  /\ loop = "store"
  /\ checked' = TRUE
  /\ loop' = "select"
  /\ Publish(VerdictName(verdict))
  /\ UNCHANGED <<backend, verdict, tick, done, healthy>>

(* Mutant: update stores checked before healthy. *)
UpdateSwapped ==
  \/ /\ loop = "update"
     /\ checked' = TRUE
     /\ loop' = "store"
     /\ UNCHANGED <<backend, verdict, tick, done, healthy, reader, published>>
  \/ /\ loop = "store"
     /\ healthy' = verdict
     /\ loop' = "select"
     /\ Publish(VerdictName(verdict))
     /\ UNCHANGED <<backend, verdict, tick, done, checked>>

Update == StoreHealthy \/ StoreChecked

ReceiveTick ==
  /\ loop = "select" /\ tick
  /\ tick' = FALSE
  /\ loop' = "checking"
  /\ UNCHANGED <<backend, verdict, done, healthy, checked, reader, published>>

(* Mutant: done is looked at only when no tick is waiting. *)
ReceiveDoneLast ==
  /\ loop = "select" /\ done /\ ~tick
  /\ loop' = "stopped"
  /\ UNCHANGED <<backend, verdict, tick, done, healthy, checked, reader, published>>

(* The loop returns and stops its ticker. *)
ReceiveDone ==
  /\ loop = "select" /\ done
  /\ loop' = "stopped"
  /\ tick' = FALSE
  /\ UNCHANGED <<backend, verdict, done, healthy, checked, reader, published>>

(* Close may be called any number of times; sync.Once closes done once. *)
Close ==
  /\ done' = TRUE
  /\ UNCHANGED <<backend, loop, verdict, tick, healthy, checked, reader, published>>
-----------------------------------------------------------------------------
Read(r, from, state) ==
  /\ reader[r].pc = from
  /\ reader' = [reader EXCEPT ![r] = state]
  /\ UNCHANGED <<backend, loop, verdict, tick, done, healthy, checked, published>>

Call(r) ==
  Read(r, "idle", [pc |-> "loadChecked", seen |-> {published}, answer |-> "none"])

(* Available returns true at once when no check has finished, and what      *)
(* Snapshot then loads from healthy means nothing.                          *)
LoadChecked(r) ==
  Read(r, "loadChecked",
       [reader[r] EXCEPT !.pc = IF checked THEN "loadHealthy" ELSE "returned"])

LoadHealthy(r) ==
  Read(r, "loadHealthy",
       [reader[r] EXCEPT !.pc = "returned", !.answer = VerdictName(healthy)])

Return(r) ==
  Read(r, "returned",
       [reader[r] EXCEPT !.pc = "idle", !.seen = {}, !.answer = "none"])
-----------------------------------------------------------------------------
Step == CheckEnds \/ Update

ReadStep(r) == LoadChecked(r) \/ LoadHealthy(r) \/ Return(r)

Next ==
  \/ BackendChanges \/ TickerFires \/ Step \/ ReceiveTick \/ ReceiveDone \/ Close
  \/ \E r \in Readers : Call(r) \/ ReadStep(r)

(***************************************************************************)
(* A check ends within its timeout and update does not block; the ticker   *)
(* fires.  A select with both cases ready picks one at random, so the done *)
(* case, ready for ever once Close was called, is not missed for ever.     *)
(***************************************************************************)
Fairness ==
  /\ WF_vars(Step)
  /\ WF_vars(TickerFires)
  /\ WF_vars(ReceiveTick)
  /\ SF_vars(ReceiveDone)

Spec == Init /\ [][Next]_vars

FairSpec == Spec /\ Fairness
-----------------------------------------------------------------------------
(* checked is set exactly when there is a verdict to act on, and healthy is *)
(* then that verdict, except between the two stores of the first update.    *)
FlagsAgree ==
  /\ checked <=> published # "none"
  /\ checked => (healthy <=> published = "up")

(* However the loads of a call interleave with the stores of update, the    *)
(* call acts on a verdict that was the latest one at some moment during the *)
(* call: it never refuses an upstream on the initial value of healthy, nor  *)
(* on an outdated verdict.                                                  *)
AnswersFresh ==
  \A r \in Readers : reader[r].pc = "returned" => reader[r].answer \in reader[r].seen

(* Close ends the goroutine, also when every check takes longer than the    *)
(* interval and a tick is always waiting.                                   *)
CloseStopsLoop == done ~> loop = "stopped"

(* An outage, and a recovery, that lasts is noticed, as long as the checker *)
(* is not closed.                                                           *)
OutageNoticed ==
  /\ <>[](backend = "down" /\ ~done) => <>[](checked /\ ~healthy)
  /\ <>[](backend = "up" /\ ~done) => <>[](checked /\ healthy)
=============================================================================

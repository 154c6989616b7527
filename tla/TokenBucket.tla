------------------------------ MODULE TokenBucket ------------------------------
(***************************************************************************)
(* The rate limiter (internal/ratelimit/token_bucket.go): a channel of     *)
(* tokens that requests take from without blocking, and a goroutine that   *)
(* adds one token per tick of a time.Ticker until the bucket is closed.    *)
(* ticker.C holds at most one tick, and none after Stop (Go 1.23 and       *)
(* later; go.mod asks for 1.26).                                           *)
(***************************************************************************)
EXTENDS TokenBucketState

vars == <<tokens, ticker, closed, refill, fired, admitted, carried>>

TypeOK ==
  /\ tokens \in 0 .. Burst
  /\ ticker \in {"waiting", "tick", "stopped"}
  /\ closed \in BOOLEAN
  /\ refill \in {"select", "adding", "returned"}
  /\ fired \in Nat
  /\ admitted \in Nat
  /\ carried \in 0 .. 2

(* NewTokenBucket fills the bucket. *)
Init ==
  /\ tokens = Burst
  /\ ticker = "waiting"
  /\ closed = FALSE
  /\ refill = "select"
  /\ fired = 0
  /\ admitted = 0
  /\ carried = 0
-----------------------------------------------------------------------------
(* A tick that finds the previous one not received is dropped. *)
TickerFires ==
  /\ ticker # "stopped" /\ fired < MaxFired
  /\ ticker' = "tick"
  /\ fired' = fired + 1
  /\ UNCHANGED <<tokens, closed, refill, admitted, carried>>

(* Mutant: the tick is received and no token added. *)
ReceiveTickIgnored ==
  /\ refill = "select" /\ ticker = "tick"
  /\ ticker' = "waiting"
  /\ UNCHANGED <<tokens, closed, refill, fired, admitted, carried>>

ReceiveTick ==
  /\ refill = "select" /\ ticker = "tick"
  /\ ticker' = "waiting"
  /\ refill' = "adding"
  /\ UNCHANGED <<tokens, closed, fired, admitted, carried>>

(* Mutant: a tick fills the bucket. *)
AddTokenRefillsAll ==
  /\ refill = "adding"
  /\ tokens' = Burst
  /\ refill' = "select"
  /\ UNCHANGED <<ticker, closed, fired, admitted, carried>>

(* The tick's token is dropped when the bucket is full. *)
AddToken ==
  /\ refill = "adding"
  /\ tokens' = IF tokens < Burst THEN tokens + 1 ELSE tokens
  /\ refill' = "select"
  /\ UNCHANGED <<ticker, closed, fired, admitted, carried>>

ReceiveDone ==
  /\ refill = "select" /\ closed
  /\ refill' = "returned"
  /\ UNCHANGED <<tokens, ticker, closed, fired, admitted, carried>>

(* Allow returns true; it changes nothing when it returns false. *)
Allow ==
  /\ tokens > 0 /\ admitted < MaxAdmitted
  /\ tokens' = tokens - 1
  /\ admitted' = admitted + 1
  /\ UNCHANGED <<ticker, closed, refill, fired, carried>>

(* Close, once: it stops the ticker ... *)
StopTicker ==
  /\ ticker # "stopped"
  /\ ticker' = "stopped"
  /\ UNCHANGED <<tokens, closed, refill, fired, admitted, carried>>

(* Mutant: only the ticker is stopped. *)
CloseDoneForgotten ==
  /\ FALSE
  /\ UNCHANGED vars

(* ... and closes b.done. *)
CloseDone ==
  /\ ticker = "stopped" /\ ~closed
  /\ closed' = TRUE
  /\ UNCHANGED <<tokens, ticker, refill, fired, admitted, carried>>

(* An observer starts to count. *)
NewWindow ==
  /\ fired' = 0
  /\ admitted' = 0
  /\ carried' = UnderWay
  /\ UNCHANGED <<tokens, ticker, closed, refill>>

Next ==
  \/ TickerFires \/ ReceiveTick \/ AddToken \/ ReceiveDone
  \/ Allow \/ StopTicker \/ CloseDone \/ NewWindow

(***************************************************************************)
(* The refill goroutine is scheduled, and Close, once begun, finishes.  No *)
(* fairness of the ticker's: it may be as slow as it likes.                *)
(***************************************************************************)
Fairness == WF_vars(ReceiveTick \/ ReceiveDone) /\ WF_vars(AddToken) /\ WF_vars(CloseDone)

Spec == Init /\ [][Next]_vars

FairSpec == Spec /\ Fairness
-----------------------------------------------------------------------------
(* A tick that was received while the bucket was open is never lost: it     *)
(* lets a request in, unless the bucket is full.                            *)
TicksAdmit == (ticker = "tick" /\ tokens = 0) ~> (tokens > 0 \/ ticker = "stopped")

(* Close ends the refill goroutine. *)
CloseStopsRefill == ticker = "stopped" ~> refill = "returned"
=============================================================================

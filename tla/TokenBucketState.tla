--------------------------- MODULE TokenBucketState ---------------------------
(***************************************************************************)
(* The state of a token bucket (internal/ratelimit/token_bucket.go), with  *)
(* what an observer counts during a window of time, and the bound on that. *)
(***************************************************************************)
EXTENDS Naturals

CONSTANTS
  Burst,      \* b.burst, the capacity of b.tokens
  MaxFired,   \* bound: ticks in a window
  MaxAdmitted \* bound: requests admitted in a window

(* NewTokenBucket returns no bucket for a burst that is not positive. *)
ASSUME BurstAssumption ==
  /\ Burst \in Nat \ {0}
  /\ MaxFired \in Nat
  /\ MaxAdmitted \in Nat

VARIABLES
  tokens,     \* len(b.tokens)
  ticker,     \* the ticker: running with or without a tick to receive, or stopped
  closed,     \* b.done is closed
  refill,     \* where the refill goroutine is
  fired,      \* history: ticks since the window began
  admitted,   \* history: requests admitted since the window began
  carried     \* history: ticks under way to the bucket when the window began

(* Ticks that have fired and are neither in the bucket nor dropped yet. *)
UnderWay == (IF ticker = "tick" THEN 1 ELSE 0) + (IF refill = "adding" THEN 1 ELSE 0)

(* In any window, however it falls and whatever the bucket did before, the  *)
(* limiter admits at most a burst, one request per tick of the window, and  *)
(* one for each of the at most two ticks that were under way.               *)
RateBounded == admitted + tokens <= Burst + fired + carried
=============================================================================

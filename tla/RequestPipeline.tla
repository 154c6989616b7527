---------------------------- MODULE RequestPipeline ----------------------------
(***************************************************************************)
(* The handler chain that buildRuntime and registerRoutes put together     *)
(* (internal/server/runtime.go, route_runtime.go): access log and metrics, *)
(* global rate and concurrency limits, the request timeout, the mux, and   *)
(* per route the route id, rate limit, concurrency limit and proxy.        *)
(* Concurrency slots are given back by deferred calls, which also run when *)
(* ReverseProxy panics with http.ErrAbortHandler because the body of an    *)
(* answer could not be copied; accessLogMiddleware does not defer.         *)
(*                                                                         *)
(* Whether a rate limiter lets a request in is left open here (it is       *)
(* TokenBucket's business), and so is what the proxy does inside           *)
(* (ProxyHandler's).  A limiter that is configured is assumed throughout;  *)
(* without one the chain has one stage less.                               *)
(***************************************************************************)
EXTENDS Integers, FiniteSets

CONSTANTS
  Requests,     \* request goroutines; each serves any number of requests in turn
  Routes,       \* the configured routes
  GlobalMax,    \* capacity of the global concurrency limiter
  RouteMax,     \* capacity of each route's concurrency limiter
  Statuses,     \* final status codes a backend answers with
  Interim,      \* 1xx codes a backend may send before its final answer
  NoRoute,      \* stands for "the request matched no configured route"
  MaxEnded      \* bound: no request begins once a key has this many that ended

ASSUME PipelineAssumption ==
  /\ IsFiniteSet(Requests)
  /\ GlobalMax \in Nat \ {0}
  /\ RouteMax \in Nat \ {0}
  /\ Statuses \subseteq 200 .. 599
  /\ Interim \subseteq 102 .. 199
  /\ NoRoute \notin Routes
  /\ MaxEnded \in Nat

Keys == Routes \cup {NoRoute}

VARIABLES
  pc,           \* where each request is
  route,        \* the route the mux matched
  resp,         \* the response as each request writes it
  globalInUse,  \* len(semaphore) of the global concurrency limiter
  routeInUse,   \* len(semaphore) of each route's concurrency limiter
  metrics,      \* metrics.Registry: requests recorded per route id
  ended,        \* history: requests that have ended, by the route they matched
  aborted       \* history: those of them that ended in a panic

vars == <<pc, route, resp, globalInUse, routeInUse, metrics, ended, aborted>>

(* wrote, status, id: the statusRecorder's fields (status 0: not set); sent: *)
(* the final status that went to the client; final: history, the backend's.  *)
NewResp == [wrote |-> FALSE, status |-> 0, id |-> NoRoute, sent |-> 0, final |-> 0]

Init ==
  /\ pc = [r \in Requests |-> "idle"]
  /\ route = [r \in Requests |-> NoRoute]
  /\ resp = [r \in Requests |-> NewResp]
  /\ globalInUse = 0
  /\ routeInUse = [k \in Routes |-> 0]
  /\ metrics = [k \in Keys |-> 0]
  /\ ended = [k \in Keys |-> 0]
  /\ aborted = [k \in Keys |-> 0]
-----------------------------------------------------------------------------
(* Mutant: later calls are not recognised. *)
WriteHeaderForgets(p, code) ==
  [p EXCEPT !.status = code,
            !.sent = IF @ = 0 /\ code >= 200 THEN code ELSE @]

(* statusRecorder.WriteHeader: only the first call reaches the connection,  *)
(* for which a 1xx code is not yet the answer.                              *)
WriteHeader(p, code) ==
  IF p.wrote THEN p
  ELSE [p EXCEPT !.wrote = TRUE,
                 !.status = code,
                 !.sent = IF @ = 0 /\ code >= 200 THEN code ELSE @]

(* Mutant: every Write sets the status. *)
WriteResets(p) ==
  [p EXCEPT !.wrote = TRUE, !.status = 200, !.sent = IF @ = 0 THEN 200 ELSE @]

(* statusRecorder.Write: the connection sends 200 when no status was set. *)
Write(p) ==
  LET q == IF p.wrote THEN p ELSE WriteHeader(p, 200)
  IN  [q EXCEPT !.sent = IF @ = 0 THEN 200 ELSE @]

(* http.Error *)
Error(p, code) == Write(WriteHeader(p, code))

Goto(r, from, to) == pc[r] = from /\ pc' = [pc EXCEPT ![r] = to]

Respond(r, p) == resp' = [resp EXCEPT ![r] = p]
-----------------------------------------------------------------------------
(* accessLogMiddleware wraps the ResponseWriter. *)
Begin(r) ==
  /\ \A k \in Keys : ended[k] < MaxEnded
  /\ Goto(r, "idle", "globalRate")
  /\ UNCHANGED <<route, resp, globalInUse, routeInUse, metrics, ended, aborted>>

(* ratelimit.Middleware, global. *)
GlobalRate(r) ==
  /\ \/ Goto(r, "globalRate", "globalConcurrency") /\ UNCHANGED resp
     \/ Goto(r, "globalRate", "log") /\ Respond(r, Error(resp[r], 429))
  /\ UNCHANGED <<route, globalInUse, routeInUse, metrics, ended, aborted>>

(* Limiter.TryAcquire and Limiter.Release: neither blocks. *)
CanAcquire(inUse, capacity) == inUse < capacity
Release(inUse) == IF inUse > 0 THEN inUse - 1 ELSE inUse

(* concurrency.Middleware, global. *)
GlobalConcurrency(r) ==
  /\ \/ /\ CanAcquire(globalInUse, GlobalMax)
        /\ globalInUse' = globalInUse + 1
        /\ Goto(r, "globalConcurrency", "mux")
        /\ UNCHANGED resp
     \/ /\ ~CanAcquire(globalInUse, GlobalMax)
        /\ Goto(r, "globalConcurrency", "log")
        /\ Respond(r, Error(resp[r], 503))
        /\ UNCHANGED globalInUse
  /\ UNCHANGED <<route, routeInUse, metrics, ended, aborted>>

(* Mutant: the route id is set inside the route's limiters. *)
MuxWithoutID(r) ==
  /\ \/ \E k \in Routes :
          /\ Goto(r, "mux", "routeRate")
          /\ route' = [route EXCEPT ![r] = k]
          /\ UNCHANGED resp
     \/ /\ Goto(r, "mux", "leave")
        /\ \E code \in {200, 404} : Respond(r, Error(resp[r], code))
        /\ UNCHANGED route
  /\ UNCHANGED <<globalInUse, routeInUse, metrics, ended, aborted>>

(* The mux finds a route, whose withRouteID names it to the recorder, or a  *)
(* system handler, or nothing.                                              *)
Mux(r) ==
  /\ \/ \E k \in Routes :
          /\ Goto(r, "mux", "routeRate")
          /\ route' = [route EXCEPT ![r] = k]
          /\ Respond(r, [resp[r] EXCEPT !.id = k])
     \/ /\ Goto(r, "mux", "leave")
        /\ \E code \in {200, 404} : Respond(r, Error(resp[r], code))
        /\ UNCHANGED route
  /\ UNCHANGED <<globalInUse, routeInUse, metrics, ended, aborted>>

(* ratelimit.Middleware of the route. *)
RouteRate(r) ==
  /\ \/ Goto(r, "routeRate", "routeConcurrency") /\ UNCHANGED resp
     \/ Goto(r, "routeRate", "leave") /\ Respond(r, Error(resp[r], 429))
  /\ UNCHANGED <<route, globalInUse, routeInUse, metrics, ended, aborted>>

(* concurrency.Middleware of the route. *)
RouteConcurrency(r) ==
  /\ \/ /\ Goto(r, "routeConcurrency", "proxy")
        /\ CanAcquire(routeInUse[route[r]], RouteMax)
        /\ routeInUse' = [routeInUse EXCEPT ![route[r]] = @ + 1]
        /\ UNCHANGED resp
     \/ /\ Goto(r, "routeConcurrency", "leave")
        /\ ~CanAcquire(routeInUse[route[r]], RouteMax)
        /\ Respond(r, Error(resp[r], 503))
        /\ UNCHANGED routeInUse
  /\ UNCHANGED <<route, globalInUse, metrics, ended, aborted>>
-----------------------------------------------------------------------------
(* ReverseProxy passes a 1xx answer of the backend on through WriteHeader. *)
PassInterim(r) ==
  /\ Goto(r, "proxy", "proxy")
  /\ \E code \in Interim : Respond(r, WriteHeader(resp[r], code))
  /\ UNCHANGED <<route, globalInUse, routeInUse, metrics, ended, aborted>>

(* ReverseProxy writes the status of the backend's answer. *)
PassFinal(r) ==
  /\ Goto(r, "proxy", "body")
  /\ \E code \in Statuses :
       Respond(r, WriteHeader([resp[r] EXCEPT !.final = code], code))
  /\ UNCHANGED <<route, globalInUse, routeInUse, metrics, ended, aborted>>

(* 503 no available upstream; 502 or 504 from handleProxyError. *)
ProxyError(r) ==
  /\ Goto(r, "proxy", "leaveRoute")
  /\ \E code \in {502, 503, 504} : Respond(r, Error(resp[r], code))
  /\ UNCHANGED <<route, globalInUse, routeInUse, metrics, ended, aborted>>

(* The body is copied; it may be empty. *)
CopyBody(r) ==
  /\ Goto(r, "body", "leaveRoute")
  /\ \E p \in {resp[r], Write(resp[r])} : Respond(r, p)
  /\ UNCHANGED <<route, globalInUse, routeInUse, metrics, ended, aborted>>

(* The backend, the client or the request timeout breaks the copy off:      *)
(* ReverseProxy panics and the deferred calls run.                          *)
AbortBody(r) ==
  /\ Goto(r, "body", "unwindRoute")
  /\ UNCHANGED <<route, resp, globalInUse, routeInUse, metrics, ended, aborted>>
-----------------------------------------------------------------------------
(* Mutant: the route's slot is not given back by a deferred call. *)
LeaveRouteNoDefer(r) ==
  /\ \/ /\ Goto(r, "leaveRoute", "leave")
        /\ routeInUse' = [routeInUse EXCEPT ![route[r]] = Release(@)]
     \/ Goto(r, "unwindRoute", "unwind") /\ UNCHANGED routeInUse
  /\ UNCHANGED <<route, resp, globalInUse, metrics, ended, aborted>>

(* The deferred Release of the route's limiter, on return or panic. *)
LeaveRoute(r) ==
  /\ Goto(r, "leaveRoute", "leave") \/ Goto(r, "unwindRoute", "unwind")
  /\ routeInUse' = [routeInUse EXCEPT ![route[r]] = Release(@)]
  /\ UNCHANGED <<route, resp, globalInUse, metrics, ended, aborted>>

(* The deferred Release of the global limiter, on return or panic. *)
LeaveGlobal(r) ==
  /\ Goto(r, "leave", "log") \/ Goto(r, "unwind", "abort")
  /\ globalInUse' = Release(globalInUse)
  /\ UNCHANGED <<route, resp, routeInUse, metrics, ended, aborted>>

(* The net/http server is done with the request. *)
End(r) ==
  /\ ended' = [ended EXCEPT ![route[r]] = @ + 1]
  /\ route' = [route EXCEPT ![r] = NoRoute]
  /\ Respond(r, NewResp)
  /\ UNCHANGED <<globalInUse, routeInUse>>

(* metrics.Registry.Record adds the request to its route's bucket.          *)
Record(id) == metrics' = [metrics EXCEPT ![id] = @ + 1]

(* accessLogMiddleware records the request under the recorder's route id;   *)
(* system, admin and unknown are one key here.                              *)
Log(r) ==
  /\ Goto(r, "log", "idle")
  /\ Record(resp[r].id)
  /\ End(r)
  /\ UNCHANGED aborted

(* The panic passes through accessLogMiddleware, and net/http recovers it. *)
Recover(r) ==
  /\ Goto(r, "abort", "idle")
  /\ aborted' = [aborted EXCEPT ![route[r]] = @ + 1]
  /\ End(r)
  /\ UNCHANGED metrics

Next ==
  \E r \in Requests :
    \/ Begin(r) \/ GlobalRate(r) \/ GlobalConcurrency(r) \/ Mux(r)
    \/ RouteRate(r) \/ RouteConcurrency(r)
    \/ PassInterim(r) \/ PassFinal(r) \/ ProxyError(r) \/ CopyBody(r) \/ AbortBody(r)
    \/ LeaveRoute(r) \/ LeaveGlobal(r) \/ Log(r) \/ Recover(r)

Spec == Init /\ [][Next]_vars
-----------------------------------------------------------------------------
InProxy == {"proxy", "body", "leaveRoute", "unwindRoute"}
InGlobal == InProxy \cup {"mux", "routeRate", "routeConcurrency", "leave", "unwind"}

InsideGlobal == {r \in Requests : pc[r] \in InGlobal}
InsideRoute(k) == {r \in Requests : pc[r] \in InProxy /\ route[r] = k}

TypeOK ==
  /\ pc \in [Requests -> InGlobal \cup {"idle", "globalRate", "globalConcurrency", "log", "abort"}]
  /\ route \in [Requests -> Keys]
  /\ \A r \in Requests : resp[r].id \in Keys /\ (resp[r].wrote <=> resp[r].status # 0)
  /\ globalInUse \in 0 .. GlobalMax
  /\ routeInUse \in [Routes -> 0 .. RouteMax]
  /\ metrics \in [Keys -> Nat]

(* Slots are neither leaked nor given back twice: each limiter counts       *)
(* exactly the requests that are inside it, those a panic is unwinding and  *)
(* those another limiter turned away included, so that never more than its  *)
(* capacity are inside and all of it is free again when they have left.     *)
SlotsExact ==
  /\ globalInUse = Cardinality(InsideGlobal)
  /\ \A k \in Routes : routeInUse[k] = Cardinality(InsideRoute(k))

(* Requests are counted under the route that they matched, those that the   *)
(* route's limiters turn away included; only aborted ones are missing       *)
(* (route_runtime.go:58-60, as docs/metrics.md:100-101 has it for 429 and   *)
(* 503).  docs/design.md:57-63 draws withRouteID inside these limiters:     *)
(* with that order, MuxWithoutID, their refusals would be nobody's.         *)
CountedUnderRoute == \A k \in Keys : metrics[k] = ended[k] - aborted[k]

(* When the handlers return: what the client gets (200 when nothing set a   *)
(* status) and what is logged and counted.                                  *)
ClientStatus(p) == IF p.sent = 0 THEN 200 ELSE p.sent
LoggedStatus(p) == IF p.status = 0 THEN 200 ELSE p.status

(* The status that is logged and counted is the one that the client gets,   *)
(* and a backend's answer is passed on as it is, when no 1xx code reached   *)
(* the recorder (statusRecorder, docs/design.md:76).                        *)
FinalStatusKept ==
  \A r \in Requests : pc[r] = "log" /\ LoggedStatus(resp[r]) >= 200 =>
    /\ ClientStatus(resp[r]) = LoggedStatus(resp[r])
    /\ resp[r].final \in {0, ClientStatus(resp[r])}

(* The same of all answers, those with 1xx codes before the final status    *)
(* included: a backend's answer is passed on as it is (docs/design.md:76).  *)
StatusPassedOn ==
  \A r \in Requests : pc[r] = "log" => resp[r].final \in {0, ClientStatus(resp[r])}
=============================================================================

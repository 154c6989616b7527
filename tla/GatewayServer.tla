---------------------------- MODULE GatewayServer ----------------------------
(***************************************************************************)
(* The life of one gateway process: main() starts the main and the admin   *)
(* server; POST /admin/reload builds a new runtime (mux, limiters, token   *)
(* buckets, upstreams with their health checkers), installs it and closes  *)
(* the one it replaced; a signal shuts the servers down and releases the   *)
(* runtime in force.                                                       *)
(*                                                                         *)
(* Reload() runs in the goroutine of its HTTP request and nothing          *)
(* serialises two of them: s.mu is held only while the fields are read in  *)
(* validateReloadConfig and while they are swapped.                        *)
(*                                                                         *)
(* A runtime is a number: 0 is the one NewWithConfigPath builds, and the   *)
(* n-th call of Reload builds runtime n.  Of its resources only those that *)
(* need closing are kept: the goroutines of the upstreams' health checkers *)
(* ("checkers", closed through CloseIdleConnections) and the token buckets *)
(* with their tickers ("buckets").  s.healthCheckers is never filled.      *)
(*                                                                         *)
(* The limiters of a runtime need no closing: a request that has loaded    *)
(* its handler goes through the global concurrency limiter of that runtime *)
(* (the other limiters are RequestPipeline's), whatever is reloaded        *)
(* meanwhile.  GET /admin/stats reads the fields under s.mu.RLock.         *)
(*                                                                         *)
(* A configuration file is of one of four kinds: "fine"; "broken", which   *)
(* config.Load rejects; "restart", which changes a field that is fixed     *)
(* until a restart; "clash", which loads and validates but makes           *)
(* mux.Handle panic for its last route (the prefix /ping, say, next to the *)
(* system route), so net/http recovers and the call of Reload is over.     *)
(***************************************************************************)
EXTENDS Naturals, FiniteSets

CONSTANTS
    Reloaders,   \* admin connections that may call POST /admin/reload
    Viewers,     \* admin connections that may call GET /admin/stats
    Requests,    \* requests to the main server
    Kinds,       \* kinds of configuration file the operator may write
    Capacity,    \* maxConcurrency of the server
    MaxReloads   \* bound: calls of Reload

Runtimes == 0..MaxReloads
ResourceKinds == {"checkers", "buckets"}
None == "none"

ASSUME ServerAssumption ==
    /\ None \notin Reloaders
    /\ Kinds \subseteq {"fine", "broken", "restart", "clash"}
    /\ IsFiniteSet(Requests)
    /\ Capacity \in Nat \ {0}
    /\ MaxReloads \in Nat

VARIABLES
    conf,       \* the configuration each runtime was built from
    installed,  \* the runtime in s.routes, s.proxyHandlers, s.rateLimiters
    limits,     \* the runtime in s.globalRateLimiter, s.globalConcurrencyLimiter
    handler,    \* the runtime whose handler reloadableHandler holds
    mu,         \* the call of Reload that holds s.mu for writing, or None
    running,    \* the resources that are started and not closed
    begun,      \* calls of Reload so far
    pc, mine, read, old,        \* of each reload: step, runtime, config, replaced
    view, seen,                 \* of each GET /admin/stats: step, what it has read
    step, at,                   \* of each request: step, the runtime it runs on
    slots,                      \* slots in use of each global concurrency limiter
    phase, graceful, grabbed    \* of main(): step, Shutdown's result, what to close

fields == <<installed, limits, handler, mu>>
calls == <<begun, pc, mine, read, old>>
reloads == <<conf, fields, running, calls>>
views == <<view, seen>>
requests == <<step, at, slots>>
stop == <<phase, graceful, grabbed>>
vars == <<reloads, views, requests, stop>>

Resources(g) == {<<g, k>> : k \in ResourceKinds}
NothingSeen == [limits |-> 0, routes |-> 0]

(* NewWithConfigPath has built the first runtime from a sound file.        *)
Init ==
    /\ conf = [g \in Runtimes |-> "fine"]
    /\ installed = 0 /\ limits = 0 /\ handler = 0 /\ mu = None
    /\ running = Resources(0)
    /\ begun = 0
    /\ pc = [r \in Reloaders |-> "idle"]
    /\ mine = [r \in Reloaders |-> 0]
    /\ read = [r \in Reloaders |-> "fine"]
    /\ old = [r \in Reloaders |-> 0]
    /\ view = [v \in Viewers |-> "idle"]
    /\ seen = [v \in Viewers |-> NothingSeen]
    /\ step = [q \in Requests |-> "idle"]
    /\ at = [q \in Requests |-> 0]
    /\ slots = [g \in Runtimes |-> 0]
    /\ phase = "serving" /\ graceful = TRUE /\ grabbed = 0

----------------------------------------------------------------------------
(* Reload                                                                  *)

At(r, where) == pc[r] = where
GoOn(r, next) == pc' = [pc EXCEPT ![r] = next]

(* handleAdminReload: a POST is accepted while the servers listen.         *)
BeginReload(r) ==
    /\ phase = "serving"
    /\ At(r, "idle") /\ begun < MaxReloads
    /\ begun' = begun + 1
    /\ mine' = [mine EXCEPT ![r] = begun + 1]
    /\ GoOn(r, "load")
    /\ UNCHANGED <<conf, fields, running, read, old, views, requests, stop>>

(* config.Load of the file as the operator has left it: an error ends the  *)
(* call with 400.                                                          *)
LoadConfig(r, file) ==
    /\ At(r, "load")
    /\ read' = [read EXCEPT ![r] = file]
    /\ GoOn(r, IF file = "broken" THEN "idle" ELSE "validate")
    /\ UNCHANGED <<conf, fields, running, begun, mine, old, views, requests, stop>>

RestartFieldsEqual(c, d) == (c = "restart") = (d = "restart")

(* s.mu, a sync.RWMutex: validateReloadConfig, CloseResource and the views *)
(* read under it, Reload writes.                                           *)
CanRLock == mu = None
CanLock == mu = None /\ \A v \in Viewers : view[v] # "reading"

(* Mutant: nothing is compared.                                            *)
ValidateAccepts(r) ==
    /\ At(r, "validate") /\ CanRLock
    /\ GoOn(r, "build")
    /\ UNCHANGED <<conf, fields, running, begun, mine, read, old, views, requests, stop>>

(* validateReloadConfig, under s.mu.RLock: the restart-only fields must be *)
(* those of the running servers and of the current configuration.          *)
Validate(r) ==
    /\ At(r, "validate") /\ CanRLock
    /\ GoOn(r, IF RestartFieldsEqual(read[r], conf[installed]) THEN "build" ELSE "idle")
    /\ UNCHANGED <<conf, fields, running, begun, mine, read, old, views, requests, stop>>

(* registerRoutes: every route's upstreams start their checkers and every  *)
(* bucket its refill goroutine before the next route is registered.        *)
RegisterRoutes(g) == running' = running \cup Resources(g)

(* registerRoutePatterns: mux.Handle panics for the last route, with the   *)
(* resources of the earlier ones running.                                  *)
Clashes(c) == c = "clash"

(* buildRuntime; the panic ends the call of Reload.                        *)
Build(r) ==
    /\ At(r, "build")
    /\ RegisterRoutes(mine[r])
    /\ conf' = [conf EXCEPT ![mine[r]] = read[r]]
    /\ GoOn(r, IF Clashes(read[r]) THEN "idle" ELSE "swap")
    /\ UNCHANGED <<fields, begun, mine, read, old, views, requests, stop>>

(* Mutant: the old fields are read after they were overwritten.            *)
SwapReadsLate(r) ==
    /\ At(r, "swap") /\ CanLock
    /\ mu' = r
    /\ old' = [old EXCEPT ![r] = mine[r]]
    /\ installed' = mine[r]
    /\ GoOn(r, "store")
    /\ UNCHANGED <<conf, limits, handler, running, begun, mine, read, views, requests, stop>>

(* s.mu.Lock: the old resources are remembered, the routes, proxies and    *)
(* buckets replaced.                                                       *)
Swap(r) ==
    /\ At(r, "swap") /\ CanLock
    /\ mu' = r
    /\ old' = [old EXCEPT ![r] = installed]
    /\ installed' = mine[r]
    /\ GoOn(r, "store")
    /\ UNCHANGED <<conf, limits, handler, running, begun, mine, read, views, requests, stop>>

(* The global limiters, currentConfig, s.mainHandler.Store and s.mu.Unlock. *)
StoreHandler(r) ==
    /\ At(r, "store")
    /\ limits' = mine[r] /\ handler' = mine[r]
    /\ mu' = None
    /\ GoOn(r, "closeProxies")
    /\ UNCHANGED <<conf, installed, running, begun, mine, read, old, views, requests, stop>>

(* Mutant: an old runtime is closed once no request is inside it.          *)
CloseProxiesDrains(r) ==
    /\ At(r, "closeProxies") /\ slots[old[r]] = 0
    /\ running' = running \ {<<old[r], "checkers">>}
    /\ GoOn(r, "closeBuckets")
    /\ UNCHANGED <<conf, fields, begun, mine, read, old, views, requests, stop>>

(* closeRuntimeResources(old...): CloseIdleConnections of every proxy      *)
(* handler, then Close of every bucket.  Both use sync.Once, so closing    *)
(* what is closed already changes nothing.                                 *)
CloseProxies(r) ==
    /\ At(r, "closeProxies")
    /\ running' = running \ {<<old[r], "checkers">>}
    /\ GoOn(r, "closeBuckets")
    /\ UNCHANGED <<conf, fields, begun, mine, read, old, views, requests, stop>>

(* Mutant: the buckets of the old runtime are forgotten.                   *)
CloseBucketsForgotten(r) ==
    /\ At(r, "closeBuckets")
    /\ GoOn(r, "idle")
    /\ UNCHANGED <<conf, fields, running, begun, mine, read, old, views, requests, stop>>

(* The buckets are closed and the call answers 200.                        *)
CloseBuckets(r) ==
    /\ At(r, "closeBuckets")
    /\ running' = running \ {<<old[r], "buckets">>}
    /\ GoOn(r, "idle")
    /\ UNCHANGED <<conf, fields, begun, mine, read, old, views, requests, stop>>

----------------------------------------------------------------------------
(* GET /admin/stats                                                        *)

(* Mutant: the fields are read without the lock.                           *)
BeginViewUnlocked(v) ==
    /\ phase = "serving"
    /\ view[v] = "idle"
    /\ view' = [view EXCEPT ![v] = "reading"]
    /\ seen' = [seen EXCEPT ![v].limits = limits]
    /\ UNCHANGED <<reloads, requests, stop>>

(* handleAdminStats: s.mu.RLock and the global limiters ...                *)
BeginView(v) ==
    /\ phase = "serving"
    /\ view[v] = "idle" /\ CanRLock
    /\ view' = [view EXCEPT ![v] = "reading"]
    /\ seen' = [seen EXCEPT ![v].limits = limits]
    /\ UNCHANGED <<reloads, requests, stop>>

(* ... the routes with their limiters and checkers, s.mu.RUnlock ...       *)
ReadRoutes(v) ==
    /\ view[v] = "reading"
    /\ view' = [view EXCEPT ![v] = "replying"]
    /\ seen' = [seen EXCEPT ![v].routes = installed]
    /\ UNCHANGED <<reloads, requests, stop>>

(* ... and writeJSON, which needs no lock.                                 *)
Reply(v) ==
    /\ view[v] = "replying"
    /\ view' = [view EXCEPT ![v] = "idle"]
    /\ seen' = [seen EXCEPT ![v] = NothingSeen]
    /\ UNCHANGED <<reloads, requests, stop>>

----------------------------------------------------------------------------
(* Requests to the main server                                             *)

(* reloadableHandler.ServeHTTP loads the handler once; the request runs on *)
(* its runtime to the end, whatever is reloaded.                           *)
Arrive(q) ==
    /\ phase = "serving"
    /\ step[q] = "idle"
    /\ step' = [step EXCEPT ![q] = "limiter"]
    /\ at' = [at EXCEPT ![q] = handler]
    /\ UNCHANGED <<slots, reloads, views, stop>>

(* TryAcquire: a slot of the limiter of the request's own runtime ...      *)
Enter(q) ==
    /\ step[q] = "limiter" /\ slots[at[q]] < Capacity
    /\ slots' = [slots EXCEPT ![at[q]] = @ + 1]
    /\ step' = [step EXCEPT ![q] = "inside"]
    /\ UNCHANGED <<at, reloads, views, stop>>

(* ... or 503 when there is none.                                          *)
TurnAway(q) ==
    /\ step[q] = "limiter" /\ slots[at[q]] = Capacity
    /\ step' = [step EXCEPT ![q] = "idle"]
    /\ at' = [at EXCEPT ![q] = 0]
    /\ UNCHANGED <<slots, reloads, views, stop>>

(* Limiter.Release does not block when no slot is in use.                  *)
Release(g) == slots' = [slots EXCEPT ![g] = IF @ > 0 THEN @ - 1 ELSE 0]

(* Mutant: the slot is released on the limiter in force.                   *)
FinishOnCurrent(q) ==
    /\ step[q] = "inside"
    /\ Release(limits)
    /\ step' = [step EXCEPT ![q] = "idle"]
    /\ at' = [at EXCEPT ![q] = 0]
    /\ UNCHANGED <<reloads, views, stop>>

(* The deferred Release when the handler returns.                          *)
Finish(q) ==
    /\ step[q] = "inside"
    /\ Release(at[q])
    /\ step' = [step EXCEPT ![q] = "idle"]
    /\ at' = [at EXCEPT ![q] = 0]
    /\ UNCHANGED <<reloads, views, stop>>

----------------------------------------------------------------------------
(* main() after the servers have started                                   *)

(* Start returns the error of a server that cannot listen; log.Fatalf ends *)
(* the process with every goroutine in it.                                 *)
StartFails ==
    /\ phase = "serving"
    /\ phase' = "exited"
    /\ UNCHANGED <<graceful, grabbed, reloads, views, requests>>

(* SIGINT or SIGTERM: Shutdown closes the listeners of both servers.       *)
Signal ==
    /\ phase = "serving"
    /\ phase' = "draining"
    /\ UNCHANGED <<graceful, grabbed, reloads, views, requests>>

MainIdle == \A q \in Requests : step[q] = "idle"
ReloadsIdle == \A r \in Reloaders : pc[r] = "idle"
AdminIdle == ReloadsIdle /\ \A v \in Viewers : view[v] = "idle"

(* Mutant: only the main server is waited for.                             *)
DrainedMainOnly ==
    /\ phase = "draining"
    /\ MainIdle
    /\ phase' = "collect"
    /\ UNCHANGED <<graceful, grabbed, reloads, views, requests>>

(* Both http.Server.Shutdown calls return nil: no connection is active.    *)
Drained ==
    /\ phase = "draining"
    /\ MainIdle /\ AdminIdle
    /\ phase' = "collect"
    /\ UNCHANGED <<graceful, grabbed, reloads, views, requests>>

(* Mutant: the context of Shutdown has no deadline.                        *)
ShutdownWaits ==
    /\ phase = "draining"
    /\ MainIdle /\ AdminIdle
    /\ graceful' = FALSE
    /\ phase' = "collect"
    /\ UNCHANGED <<grabbed, reloads, views, requests>>

(* The shutdown timeout ends first, perhaps between the last answer and    *)
(* the next poll of Shutdown: the error is joined into the result.         *)
ShutdownTimesOut ==
    /\ phase = "draining"
    /\ graceful' = FALSE
    /\ phase' = "collect"
    /\ UNCHANGED <<grabbed, reloads, views, requests>>

(* CloseResource copies the fields under s.mu.RLock and closes them.  It   *)
(* runs at the end of Shutdown, and once more from Close when Shutdown     *)
(* failed; Close cuts the connections and waits for no handler.            *)
Collect ==
    /\ phase \in {"collect", "collectAgain"} /\ CanRLock
    /\ grabbed' = installed
    /\ phase' = IF phase = "collect" THEN "release" ELSE "releaseAgain"
    /\ UNCHANGED <<graceful, reloads, views, requests>>

CloseCollected ==
    /\ phase \in {"release", "releaseAgain"}
    /\ running' = running \ Resources(grabbed)
    /\ phase' = IF phase = "release" /\ ~graceful THEN "collectAgain" ELSE "stopped"
    /\ UNCHANGED <<graceful, grabbed, conf, fields, calls, views, requests>>

----------------------------------------------------------------------------

ReloadStep(r) ==
    \/ \E file \in Kinds : LoadConfig(r, file)
    \/ Validate(r) \/ Build(r) \/ Swap(r)
    \/ StoreHandler(r) \/ CloseProxies(r) \/ CloseBuckets(r)

ViewStep(v) == ReadRoutes(v) \/ Reply(v)

MainStep == Drained \/ ShutdownTimesOut \/ Collect \/ CloseCollected

Next ==
    /\ phase # "exited"
    /\ \/ \E r \in Reloaders : BeginReload(r) \/ ReloadStep(r)
       \/ \E v \in Viewers : BeginView(v) \/ ViewStep(v)
       \/ \E q \in Requests : Arrive(q) \/ Enter(q) \/ TurnAway(q) \/ Finish(q)
       \/ StartFails
       \/ Signal
       \/ MainStep

Spec == Init /\ [][Next]_vars

(* A goroutine inside Reload and the goroutine of main() are scheduled,    *)
(* and the shutdown deadline passes.  Nothing is assumed of the requests:  *)
(* a backend may keep one open for ever.                                   *)
FairSpec ==
    /\ Spec
    /\ \A r \in Reloaders : WF_vars(phase # "exited" /\ ReloadStep(r))
    /\ WF_vars(MainStep)

----------------------------------------------------------------------------
(* Properties                                                              *)

Steps == {"idle", "load", "validate", "build", "swap", "store", "closeProxies", "closeBuckets"}
Configs == Kinds \cup {"fine"}

ReloadTypes ==
    /\ conf \in [Runtimes -> Configs]
    /\ installed \in Runtimes /\ limits \in Runtimes /\ handler \in Runtimes
    /\ running \subseteq Runtimes \X ResourceKinds
    /\ begun \in Runtimes
    /\ pc \in [Reloaders -> Steps]
    /\ mine \in [Reloaders -> Runtimes]
    /\ read \in [Reloaders -> Configs]
    /\ old \in [Reloaders -> Runtimes]
    /\ mu \in Reloaders \cup {None}
    /\ \A r \in Reloaders : At(r, "store") <=> mu = r

ViewTypes ==
    /\ view \in [Viewers -> {"idle", "reading", "replying"}]
    /\ seen \in [Viewers -> [limits : Runtimes, routes : Runtimes]]
    /\ \A v \in Viewers : view[v] = "reading" => mu = None

RequestTypes ==
    /\ step \in [Requests -> {"idle", "limiter", "inside"}]
    /\ at \in [Requests -> Runtimes]
    /\ slots \in [Runtimes -> 0..Capacity]

(* The types, and the lock: its holder is the one call of Reload between   *)
(* s.mu.Lock and s.mu.Unlock, and no view reads meanwhile.                 *)
TypeOK == ReloadTypes /\ ViewTypes /\ RequestTypes

(* What a call of Reload still has to install or to close.                 *)
Held(r) ==
    CASE At(r, "swap") -> Resources(mine[r])
      [] pc[r] \in {"store", "closeProxies"} -> Resources(old[r])
      [] At(r, "closeBuckets") -> {<<old[r], "buckets">>}
      [] OTHER -> {}

(* docs/design.md:254-260: a reload releases the checkers and the tickers  *)
(* of what it replaces.  Whatever runs belongs to the runtime in force or  *)
(* to a call of Reload that will install or close it, however the calls    *)
(* interleave (Server.Reload, closeRuntimeResources).                      *)
NothingLeaks ==
    running \subseteq Resources(installed) \cup UNION {Held(r) : r \in Reloaders}

(* Until CloseResource begins, the handler new requests are given belongs  *)
(* to a runtime whose buckets refill and whose checkers check: no reload   *)
(* closes what another has installed (Server.Reload, the order of Store    *)
(* and closeRuntimeResources).                                             *)
ServedRuntimeRuns ==
    phase \in {"serving", "draining", "collect"} => Resources(handler) \subseteq running

(* A GET /admin/stats shows the limiters and the routes of one runtime,    *)
(* never half of what a reload replaces, and until CloseResource begins    *)
(* nothing it is reading is closed (handleAdminStats, Server.Reload).      *)
ViewsConsistent ==
    \A v \in Viewers :
        /\ view[v] = "replying" => seen[v].limits = seen[v].routes
        /\ view[v] = "reading" /\ phase \in {"serving", "draining", "collect"} =>
              Resources(seen[v].limits) \subseteq running

Inside(g) == {q \in Requests : step[q] = "inside" /\ at[q] = g}

(* Each runtime's limiter counts exactly the requests inside it, though    *)
(* they outlive the reload that replaced their runtime: requests that hang *)
(* on an old runtime take nothing from the capacity of the new one, and    *)
(* they give their slots back where they took them (reloadableHandler,     *)
(* concurrency.Middleware).                                                *)
SlotsPerRuntime == \A g \in Runtimes : slots[g] = Cardinality(Inside(g))

(* When Shutdown succeeded nothing is left running, although a reload may  *)
(* have been in progress when the signal came: CloseResource comes after   *)
(* the admin server has drained (Server.Shutdown).                         *)
GracefulStopReleasesAll ==
    phase = "stopped" /\ graceful => running = {}

(* docs/configuration.md:244-252: no reload puts a configuration in force  *)
(* that changes a restart-only field, even one validated against another   *)
(* configuration than the one it replaces (validateReloadConfig).          *)
RestartFieldsFixed == conf[installed] # "restart"

(* A runtime that has been replaced is closed in the end, whether or not   *)
(* requests still run on it (closeRuntimeResources at the end of Reload).  *)
ReplacedGetsClosed ==
    \A g \in Runtimes :
        (g # installed /\ \E r \in Reloaders : old[r] = g /\ At(r, "store"))
            ~> (Resources(g) \cap running = {} \/ phase = "exited")

(* Shutdown and the forced Close after it come to an end even when         *)
(* requests never do (main, the shutdown timeout).                         *)
StopCompletes == phase = "draining" ~> phase = "stopped"
=============================================================================

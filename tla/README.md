# A TLA+ model of go-mini-gateway

TLA+ modules, TLC configurations and TLAPS proofs for the concurrent core of the
gateway: circuit breakers, passive and active health, upstream selection, rate and
concurrency limits, the request pipeline, metrics, hot reload and shutdown; and for
what `config.Load` makes of a configuration file.
`PROJECT.json` maps every definition to the lines it models and lists runs,
mutants, findings, hazards and theorems.

## 1. Inventory

| Component | State it keeps | Operations | Correct when |
| --- | --- | --- | --- |
| circuit breaker (`internal/proxy/circuit_breaker.go`) | state, failure counter, half-open slots and successes, next attempt | `allow`, `recordSuccess`, `recordFailure` | slots never leak, only documented transitions, a retry always comes |
| passive health (`passive_health.go`) | verdict, streak counters, retry time | `available`, `recordSuccess`, `recordFailure` | the verdict follows the latest reports, an ejection is bounded |
| active health (`internal/health/checker.go`) | `checked`, `healthy`, a goroutine with ticker and `done` | `loop`, `checkOnce`, `update`, `Available`, `Close` | lock-free readers see a current verdict, `Close` ends the goroutine |
| proxy handler (`handler.go`, `upstream.go`) | round-robin index, the three records of every upstream | `selectUpstream`, `tryAcquire`, reports | outcomes reach the right upstream, a working one stays in service |
| token bucket (`internal/ratelimit`) | token channel, ticker, refill goroutine | `Allow`, `refill`, `Close` | the rate is bounded, ticks are not lost, the goroutine ends |
| concurrency limiter (`internal/concurrency`) | semaphore channel | `TryAcquire`, `Release`, middleware | slots are exact, also when a handler panics |
| request pipeline (`internal/server/middleware.go`, `runtime.go`, `route_runtime.go`, `route_context.go`) | status recorder, route id, metrics counters | the middlewares in their order | status and route recorded are the real ones |
| reload and lifecycle (`reload.go`, `lifecycle.go`, `server.go`, `cmd/gateway/main.go`) | runtime in force, handler in force, resources and limiters of every runtime | `Reload`, `Start`, `Shutdown`, `Close` | what is served runs, what is replaced is closed, requests on an old runtime use its limiters |
| metrics (`internal/metrics`) | counters and histograms under a lock | `Record`, `Snapshot`, text output | every scrape adds up, series are told apart, nobody waits for ever |
| configuration (`internal/config`) | none; the fields fixed at start are kept by the server | `Load`: expand, normalise, validate | an accepted file builds what it says |
| admin API, pprof, system handlers | none of their own | views under `Server.mu`, scrapes, reload | a view shows one runtime |
| demo backends (`cmd/backend`, `cmd/backend2`) | - | - | not part of the gateway |

How they interact. A request goroutine loads the handler of the runtime in force
once, passes access log, global rate limit, global concurrency limit, timeout, mux,
route id, route rate limit and route concurrency limit, and reaches
`proxy.Handler`. That scans the upstreams round robin and asks each one's active
health (two atomic loads), passive health and breaker (a mutex each); the answer or
the error is reported to passive health and breaker, one after the other. Checker and
refill goroutines run beside it. `POST /admin/reload` builds a whole new runtime and
swaps it in under `Server.mu`; the old one is closed while requests may still use it.

What is hard here: times read before a lock and used under it; reports that arrive
after the breaker has changed state, perhaps twice; flags published by two stores and
read by two loads; a `select` with several ready cases; a scan over upstreams with
other scans in between; panics that unwind half a middleware chain; two reloads, or a
reload and a shutdown, at the same time. `PROJECT.json` lists each at its line under
`hazards`.

## 2. Plan

Written in this order, the most important behaviour first:

1. `CircuitBreaker`, `PassiveHealth`, `HealthChecker`: one upstream's records.
2. `ProxyHandler`: selection and reporting; each upstream's breaker refines
   `CircuitBreaker` and its passive record `PassiveHealth`.
3. `TokenBucket`, `RequestPipeline`: limits, status and metrics.
4. `GatewayServer`: reload, runtime generations and their limiters, views, shutdown.
5. `ConfigText`, `MuxPatterns`, `ConfigLoad`: from the text of a file to a runtime and
   its routes, at start and on reload.
6. `MetricsRegistry`: recording, scraping and the Prometheus text.

Left:

- `ProxyHandler`: take the checker's two loads from `HealthChecker`, and model an
  upstream without some of the components.
- `RequestPipeline`: an abstract specification of a limiter refined by both limiters;
  hijacked connections after a 101, which `Shutdown` does not wait for.
- `GatewayServer`: versions of the file, so that it can be said which of two
  concurrent reloads ought to win.
- Proofs: that the sums of `MetricsRegistry` stay below 2^63 for as many records as a
  process can see, should the widths of `uint64` and `time.Duration` be modelled.

## 3. Modules

| Module | Models | State and actions |
| --- | --- | --- |
| `CircuitBreakerState` | the methods of `circuitBreakerState` | one operator per critical section, on a record of its fields |
| `CircuitBreaker` | one breaker and the requests using it | `Arrive` reads the time, `Admit`/`Refuse` are `allow`, `ReportSuccess`/`ReportFailure` the reports; `probes` and `probeWins` are history |
| `PassiveHealthState`, `PassiveHealth` | the same for passive health | `reports` is the history of reports in lock order |
| `HealthChecker` | `Checker` | `StoreHealthy` and `StoreChecked` are the two stores of `update`, `LoadChecked` and `LoadHealthy` the two loads of `Available`; `published` and `seen` are history |
| `ProxyHandler` | `proxy.Handler` | one action per step of the scan and of the reports, for every upstream; instantiates `CircuitBreaker` and `PassiveHealth` for the upstream `Watched`; `reliable` is the set of upstreams none of whose exchanges fails, `reports` history |
| `TokenBucketState`, `TokenBucket` | `TokenBucket` | ticker, refill goroutine, `Allow`, the two steps of `Close`; `fired`, `admitted`, `carried` measure an arbitrary window |
| `RequestPipeline` | the middleware chain | one action per middleware; a panic unwinds through `unwindRoute`, `unwind`, `abort` |
| `GatewayServer` | `Server` and `main` | one action per step of `Reload` between which another goroutine can act; `running` are the resources started and not closed, `slots` the concurrency limiter of every runtime; `BeginView`, `ReadRoutes`, `Reply` are `GET /admin/stats` |
| `ConfigText` | the string functions of `config`, `expandEnvString`, `registerRoutePatterns`, `rewritePath` | operators on texts, which are sequences of `Tokens`: characters and words. TLC takes any string for a token; the proofs assume no more of `Tokens` than that it has the eight characters the code looks for |
| `MuxPatterns` | how `http.ServeMux` parses, matches and compares the patterns it is given | operators on texts; `Escapes` says which tokens are percent escapes and of what. `WellFormed` and `Conflicts` are the two panics of `mux.Handle`, `Matches` the paths a pattern matches |
| `ConfigLoad` | `config.Load`, `validateReloadConfig`, the build of the routes | one action per stage of a load: `Expand`, `Normalize`, `Validate`, `CheckReload`, `RegisterRoute`, `Install`; `Configs` and the sets before it are the struct types of `config.go` |
| `MetricsRegistry` | `Registry`, `PrometheusText` | `RecordTotal`/`RecordRoute` are the two halves of `Record` under the write lock, `BeginSnapshot`/`CopyRoute`/`EndSnapshot` those of `Snapshot` under the read lock; `scraped` is what a scraper was last given |
| `MC*` | - | symmetry sets for TLC where a run uses them, configuration files, route ids |
| `*Proofs` | - | theorems; `BackgroundProofs` holds those of the two components with a goroutine of their own, `HealthChecker` and `TokenBucket` |

Conventions. Time is a natural number; 0 is Go's zero time. Every operator whose
comment begins with *Mutant* is a plausible bug used to show that a property can
fail; no specification uses it. Fields that are only displayed (last reason, last
times) are left out. `nextIndex` is kept modulo the number of upstreams; that its
`uint64` wraps after 2^64 requests, which would shift the ring once for a number of
upstreams that is no power of two, is not modelled. A component that is switched off (a nil
pointer) behaves as one that always agrees, so models assume it is there.

## 4. Runs

| Run | Checks | Bounds |
| --- | --- | --- |
| `breaker` | `SlotsBacked`, `CountersAgree`, `RetryInReach`, `LegalMoves`, `SlotsComeBack` | 3 requests, clock to 4, failure threshold 2, 3 half-open slots: probes and stale reports in every order, and enough successes short of closing for a slot too many to be given back |
| `passive` | `VerdictFollowsReports`, `VerdictNeedsStreak`, `EjectionInReach` | 3 requests, both thresholds 2, so that streaks are broken and completed |
| `checker` | `AnswersFresh`, `CloseStopsLoop`, `OutageNoticed` | 2 readers; otherwise unbounded |
| `proxy` | `TypeOK`, `Isolation`, `ImplementsBreaker`, `ImplementsPassive` | 2 requests, 2 upstreams, thresholds 1, clock to 2: one open and half-open period and one ejection; any set of upstreams may be the ones without a failed exchange, and the health checks of one upstream (`Ailing`) may fail; compared with the abstract modules is upstream `Watched`, the one the ring starts with |
| `bucket` | `RateBounded`, `TicksAdmit`, `CloseStopsRefill` | burst 3, 3 ticks a window, any number of windows |
| `pipeline` | `TypeOK`, `SlotsExact`, `CountedUnderRoute`, `FinalStatusKept` | 3 requests, 2 routes, capacities 2 and 1, 2 ended requests a key: every limiter refuses |
| `config` | `ExpansionComposes`, `StripApplies`, `SettingsUsable`, `PanicsExplained`, `FixedUntilRestart`, `SameFileReloads` | some 7,500 files in six families, each varying one part of a sound file: every token of up to 5 of the characters `${}A`, every prefix of up to 4 and strip prefix of up to 3, two routes with any prefixes, prefixes of one or two segments with wildcards, escapes, stray braces, a tab and empty segments, alone with every stripPrefix and in pairs, limits at and past their ends, health settings, and the fields a reload compares, which alone are exchanged for one another at run time. Request paths are those of up to 4 of the tokens `/ a %61 x` or `/ %2F %7B } a` |
| `metrics` | `ScrapesAddUp`, `HistogramsCumulate`, `SeriesTellRoutesApart`, `CallsReturn` | 2 request goroutines, 2 scrapers that scrape without end, 2 calls of `Record` with 3 route ids (none, one with a backslash, one with a line feed), 2 statuses and latencies below, on and above the 2 bounds; two scrapers, because with one alone no writer could starve |
| `server` | `NothingLeaks`, `ServedRuntimeRuns`, `ViewsConsistent`, `SlotsPerRuntime`, `GracefulStopReleasesAll`, `RestartFieldsFixed`, `ReplacedGetsClosed`, `StopCompletes` | 2 concurrent reloaders, 2 reloads (so 3 runtimes), 1 viewer, 2 requests on limiters of capacity 1, any file that does not panic |

`CHECK_DEADLOCK FALSE` appears where the model really stops: the pipeline when its
bound of ended requests is reached, the server when the process has stopped. Runs
with liveness properties use no symmetry; they instantiate the component's module
directly.

Runs that TLC refutes, each a disagreement with a sentence of the documentation
(quoted in `PROJECT.json`, `findings`):

- `breaker_recovery` (`ClosedByProbes`): in a half-open period the breaker takes the
  success of any request for one of a probe, so it may close without any probe
  having succeeded.
- `pipeline_interim` (`StatusPassedOn`): after a 1xx answer the recorder drops the
  final status; the client gets 200 and the metrics count the 1xx code.
- `server_failed_build` (`NothingLeaks`): a reload whose build panics leaves
  goroutines behind.

More behaviours a maintainer should know of, without a run of their own:

- late successes free the slot of a live probe and end an ejection early, by the same
  mechanism as `breaker_recovery`;
- a reload starts an empty limiter beside the old one, so `maxConcurrency` can be
  exceeded while old requests finish (`SlotsPerRuntime` is what does hold);
- of two concurrent reloads the one that read the older file may install last;
- a request aborted while its body is copied is neither counted nor logged:
  `accessLogMiddleware` records without `defer`;
- a prefix `/ping`, `/health` or `/version`, a prefix that ends in two slashes, and
  a space or a tab inside a prefix pass validation and make `mux.Handle` panic. So may
  braces and percent escapes, which `config.validate` does not look at and the mux of
  Go 1.22 and later (`go.mod` asks for 1.26) reads as wildcards and characters: `/{/`
  does not parse, `/{a}/` conflicts with `/{b}/` and `/%61/` with `/a/`. Prefixes
  without any of these never panic (`PanicsExplained`);
- a stripPrefix with a wildcard or an escape is accepted and does nothing: with the
  prefix `/{t}/` and the stripPrefix `/{t}` the mux gives the route `/x/y`, and the
  backend is asked for `/x/y`, although docs/configuration.md:149 says that it is
  stripped. The same goes for `/%61`, and for a stripPrefix with an empty segment in it,
  since the mux's tree keeps that where it keeps wildcards. `StripApplies` speaks of all
  others, with any prefix;
- docs/design.md:57-63 draws `withRouteID` inside the route's rate and concurrency
  limiters. The code wraps it around them (`route_runtime.go:58-60`), which is what
  docs/metrics.md:100-101 needs for 429 and 503 to be counted under the route.
  `CountedUnderRoute` holds of the code and not of the drawing: its mutant
  `MuxWithoutID` is that order;
- a client that goes away is counted against the upstream like any other error
  (`handler.go:103-107`), so cancellations can open the breaker of an upstream that
  works. `Isolation` is about upstreams none of whose exchanges fails, for either reason;
- a breaker that opens, or an ejection that begins, with a time read before a lock was
  waited for ends too early by that much: `RetryInReach` and `EjectionInReach` bound
  the wait from above only;
- `requestTimeout` and `shutdownTimeout` may be `0s` or negative; with a request
  timeout of `0s` every proxied request times out;
- `shutdownTimeout` is compared as text on a reload, so `10000ms` for `10s` is refused;
- a `stripPrefix` may cut inside a segment (`/ap` of `/api/`), and `//` normalises to
  no prefix at all;
- `rewriteRequest` overwrites the outgoing path, so a base path in an upstream's URL is
  dropped;
- route ids `system`, `admin` and `unknown` share the series of the gateway's own
  requests;
- `Checker.Snapshot` may pair the reason of one check with the verdict of another.

Fairness. `breaker` assumes that a request that has begun goes on: the request
timeout ends every exchange and no critical section blocks. `checker` assumes that a check ends (its client has a timeout), that
the ticker fires, and strong fairness of the `done` case, because Go's `select`
chooses at random among ready cases. `bucket` assumes that the refill goroutine and
`Close` are scheduled. `server` assumes that goroutines inside `Reload` and
`main` are scheduled, that a lock is obtained in the end, and that the shutdown
deadline passes; nothing is assumed of requests or views. `metrics` assumes that a
goroutine inside `Record` or `Snapshot` is scheduled, and of `sync.RWMutex` what its
documentation says: a waiting writer keeps new readers out, and `Unlock` lets the
waiting readers in.

In `MetricsRegistry` a route id is a sequence of `Characters`, and the bounds of the
histogram are ascending, as `defaultDurationBucketsSeconds` lists them (`registry.go:11`);
bytes written are added up exactly as latencies are and are left out.

The type invariants of `CircuitBreaker`, `PassiveHealth`, `TokenBucket` and
`GatewayServer` and `FlagsAgree` of `HealthChecker` are in no run: they are proved.

Every property of a passing run has a mutant of the mapped code that breaks it.

## 5. Proofs

All theorems hold for every value of the constants allowed by the assumptions of
the modules: any finite set of requests, positive settings, any bound.

- `CircuitBreakerProofs`: `TypeCorrect`, `SlotsAreBacked`, `CountersAreSound`,
  `RetryStaysInReach`, `MovesAreLegal`. The inductive invariant adds to the
  properties that a probe is a request that still has a report to make and that a
  time read earlier is not in the future. `SlotsBacked` needs it: a stale report frees
  a slot without being a probe, so slots are at most, not exactly, the probes.
- `PassiveHealthProofs`: `TypeCorrect`, `EjectionStaysInReach`, with the same fact
  about times; `VerdictIsUpToDate` and `VerdictNeedsAStreak`. For these the invariant
  says what the two counters are: the length of the streak at the end of the history of
  reports, and that the report before the streak was the opposite. The history keeps
  only the reports a threshold can ask for, so the proof follows a report being
  forgotten as well as one being added.
- `BackgroundProofs`, of the checker: `FlagsAlwaysAgree`, `AnswersAreFresh`. The
  invariant says where in `update` the loop is when the flags differ, and that a reader
  in the middle of its call has seen the current verdict. Of the token bucket, an
  instance of `TokenBucket` in the variables of `TokenBucketState`: `BucketTypeCorrect`,
  `RateIsBounded`, from a conservation law: what was admitted, is in the bucket or is
  under way never exceeds burst, ticks and what the window inherited.
- `RequestPipelineProofs`: `SlotsAreExact`. The invariant adds that a request inside
  a route's limiter knows its route; the proof counts finite sets. `TypeCorrect`,
  `AllCountedUnderRoute` and `FinalStatusIsKept` rest on a second invariant, `RInv`: what
  the recorder and the client can have of a status at every stage of the chain
  (`AtStage`), and that the recorder has the id of the route that was matched.
- `ProxyHandlerProofs`: `TypeCorrect`, `WorkingUpstreamServes` (`Isolation`). The
  invariant says that only upstreams that fail are blamed (`Blameless`) and, for the
  second half, that one of the candidates a scan still has before it works (`Covered`):
  the ring is walked with a counter of the places left, so the working upstream is
  always that many places ahead or fewer.
  `BreakerRefinement` and `PassiveRefinement`: every step of the handler is a step of
  `CircuitBreaker` for the watched upstream or leaves its state alone, and the same for
  `PassiveHealth`. There is one lemma per action, split by whether the request is at the
  watched upstream; the mapping needs `NoTimeKept`, that a request holds no time outside
  of the calls that read one. The watched upstream is a constant, so this holds of every
  upstream. `EveryBreakerIsSound` and `EveryVerdictIsSound` then carry over what
  `CircuitBreakerProofs` and `PassiveHealthProofs` say of a component alone: those
  modules are instantiated with the same mapping and their theorems cited.
- `ConfigLoadProofs`, for any files, environment and durations:
  - `FixedFieldsHold` and `SameFileIsAccepted`. The invariant: the configuration in
    force is what its file loads to, and whatever is being built has passed the
    comparison with what the process was started with.
  - `StripAlwaysApplies`, `SettingsAreUsable` and `PanicsAreExplained`. The invariant
    (`BuildInv`) adds that what is built was validated and that the mux has the patterns
    of the system routes and of the routes so far. The rest is about the operators on
    texts: a normalised prefix ends in a slash, a normalised stripPrefix does not
    (`PrefixText`, `StripPrefixText`), so a stripPrefix of the prefix is one of the
    pattern without its slash too (`PatternBegins`), and two different prefixes share a
    pattern only if one ends in two slashes (`PatternsClash`).
  - For the same theorems, about the mux: `Segments` is a recursive function, so its
    solution is shown to exist and typed first (`SegmentsEquation`, `PartsType`); a text is
    determined by its segments (`SegmentsDetermine`), so two patterns without braces and
    escapes conflict only if they are equal (`VerbatimConflict`), and such a pattern parses
    (`VerbatimWellFormed`). A path that matches a pattern agrees with it, decoded, segment
    by segment as far as the pattern is read as it is written (`OneSegmentAgrees`,
    `MatchAgrees`, `MatchingPath`); what stands behind that may have wildcards.
  - `ExpansionIsCompositional`. `ExpandEnvString` is a recursive function over the
    positions of a text. The provers cannot use the induction theorems of the library,
    whose premise is an operator; induction is done here by looking at the greatest
    position where a claim fails (`GreatestOf`, from the minimum principle `WFMin`).
    That the recursion has a solution (`RestExists`), what type it has (`RestType`), that
    it is not changed by what stands before (`SuffixExpansion`) and that it splits where
    an expression does not (`PartsExpansion`) are proved that way.

  What is assumed of the constants: `TextAssumption`, that the eight characters are tokens
  and the values of the environment texts; `MuxAssumption`, that escapes are none of
  these characters and stand for tokens; `ConfigAssumption`, that the files have the
  types of `config.go`, that durations are integers, that the texts `config.go` has for
  defaults parse, that the names of the system routes are no escapes, and that request
  paths begin with a slash and have no wrong escapes (net/http answers others itself).
- `GatewayServerProofs`: `TypeCorrect` (with mutual exclusion of swaps and views),
  `NothingEverLeaks` and `GracefulStopIsClean` under the assumption that no file
  makes a build panic (the run `server_failed_build` shows the assumption is needed),
  and without it `ServedAlwaysRuns`, `ViewsAreConsistent`, `SlotsStaySeparate` and
  `RestartFieldsStayFixed`. `ServedAlwaysRuns` rests on `ServedInv`: the runtimes
  being built, in force and being closed are pairwise different. `ViewsAreConsistent`
  adds `ViewInv`, that a view under the lock has read the limiters of the runtime in
  force; `RestartFieldsStayFixed` needs `FixedInv`, that whatever waits to be built or
  installed has passed the comparison, with whichever configuration.

- `MetricsRegistryProofs`, for any number of recorders and scrapers, any route ids,
  statuses and latencies and any ascending bounds:
  - `ScrapesAlwaysAddUp` and `HistogramsAlwaysCumulate`. The invariant has four parts:
    who holds the lock (`LockInv`); that the total is the sum of the routes while nobody
    writes, and that of the routes *with the writer's record counted* while somebody
    does (`CountInv`: between the two halves of `Record` the plain equation is false, so
    it is not inductive); that what a reader has copied is what the registry holds
    (`CopyInv`, true because the lock keeps writers out); and that every snapshot adds
    up (`ScrapeInv`). That a bucket's parts agree (`SoundBucket`) is kept by
    `RecordBucket` alone. A status that is not there yet counts as 0, so that the sums
    also hold for a status the record brings in.
  - What `SumFunction` gives is proved from its definition as a fold over a chosen
    order of the domain: that adding to one summand adds as much to the sum
    (`SumRaised`). In place of induction stands the least counterexample, as in
    `ConfigLoadProofs` (`LeastOf`).
  - `SeriesAlwaysTellRoutesApart`. The three replacements of `escapeLabelValue` together
    write a code for each character (`EscapeAppend`), which needs their order: no later
    one touches what an earlier one wrote. A code that is a single character is never a
    backslash, so no code begins another (`CodesAreApart`), and the shortest text that
    is confused with another would have a shorter one in it (`EscapeInjective`).
  - `SnapshotsAreAtomic`: `Snapshot` copies the routes one at a time, and yet gives what
    the registry held at one moment. No run checks this step property; the invariant
    (`CopyInv`) gives it at once.

  What is assumed: `RegistryAssumption`, that no goroutine both records and scrapes, that
  route ids are sequences of `Characters`, and that the bounds ascend.

Only model-checked: everything about liveness and fairness (`SlotsComeBack`,
`CloseStopsLoop`, `OutageNoticed`, `TicksAdmit`, `CloseStopsRefill`, `CallsReturn`,
`ReplacedGetsClosed`, `StopCompletes`), which the prover does not handle. Every
invariant and every step property of the passing runs is also a theorem.

## 6. Not modelled

Headers, trace ids and log lines; the JSON of the answers and the layout of the Prometheus text;
`/admin/routes` and `/admin/health`, which read one field under the lock that
`/admin/stats` holds; the token comparison and pprof, which keep no state; JSON
decoding; the health middleware, which nothing uses; the demo backends.
Of the mux, precedence among patterns that match the same path and the redirects to
cleaned paths are left out: a route may be given fewer paths than `Matches` says, never
more, so what `StripApplies` says of all of them holds of those it is given.
`http.Server`, `http.ServeMux`, `httputil.ReverseProxy`, `sync.RWMutex`, `time.Ticker`,
`time.ParseDuration` and the backends are modelled from how the code uses them and
marked external in the map.

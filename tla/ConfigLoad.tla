------------------------------ MODULE ConfigLoad ------------------------------
(***************************************************************************)
(* What the gateway makes of a configuration file: config.Load expands the *)
(* environment, fills in defaults and normal forms and validates           *)
(* (internal/config); at start main() builds the routes from the result,   *)
(* and on a reload validateReloadConfig first compares the fields that are *)
(* fixed until a restart (internal/server/reload.go).  Building registers  *)
(* one route after the other with the mux (route_runtime.go).              *)
(*                                                                         *)
(* A duration is a text; Durations gives the ones that parse and what they *)
(* mean.  A URL is sound when it begins with the word "url".  One load is  *)
(* followed at a time: GatewayServer models concurrent reloads, with       *)
(* configurations reduced to four kinds.                                   *)
(***************************************************************************)
EXTENDS MuxPatterns

CONSTANTS
  Durations,   \* texts that time.ParseDuration accepts, with their value
  Files,       \* configuration files the gateway may be started with
  Paths,       \* paths of requests, as the mux is given them: with their escapes
  Edits        \* bound: the files that an operator exchanges for one another

(* The types of package config: what json.Unmarshal can make of a file.     *)
ServerConfigs ==
  [addr : Strings, requestTimeout : Strings, shutdownTimeout : Strings,
   rateLimitRPS : Int, rateLimitBurst : Int, maxConcurrency : Int]
AdminConfigs ==
  [enabled : BOOLEAN, addr : Strings, token : Strings,
   metricsRequireToken : BOOLEAN, pprofEnabled : BOOLEAN]
UpstreamConfigs == [id : Strings, url : Strings]
HealthCheckConfigs ==
  [enabled : BOOLEAN, path : Strings, interval : Strings, timeout : Strings]
PassiveHealthConfigs ==
  [enabled : BOOLEAN, failureThreshold : Int, successThreshold : Int,
   unhealthyDuration : Strings]
CircuitBreakerConfigs ==
  [enabled : BOOLEAN, failureThreshold : Int, openDuration : Strings,
   halfOpenMaxRequests : Int]
RouteConfigs ==
  [id : Strings, prefix : Strings, stripPrefix : Strings, target : Strings,
   upstreams : Seq(UpstreamConfigs), rateLimitRPS : Int, rateLimitBurst : Int,
   maxConcurrency : Int, healthCheck : HealthCheckConfigs,
   passiveHealth : PassiveHealthConfigs, circuitBreaker : CircuitBreakerConfigs]
Configs == [server : ServerConfigs, admin : AdminConfigs, routes : Seq(RouteConfigs)]

(* time.ParseDuration accepts the defaults that config.go writes; net/http  *)
(* answers a path with a wrong escape itself.                               *)
ASSUME ConfigAssumption ==
  /\ Files \subseteq Configs /\ Edits \subseteq Files
  /\ Durations \in [DOMAIN Durations -> Int]
  /\ {<<"1s">>, <<"3s">>, <<"5s">>, <<"10s">>} \subseteq DOMAIN Durations
  /\ {"ping", "health", "version"} \subseteq Tokens \ DOMAIN Escapes
  /\ \A path \in Paths : /\ path \in Strings /\ HasPrefix(path, Slash)
                         /\ \A i \in DOMAIN path : path[i] \notin BadEscapes

VARIABLES
  file,        \* the configuration file
  stage,       \* where the load in progress is
  cfg,         \* the configuration it works on
  built,       \* how many of its routes are registered with the mux
  patterns,    \* the patterns of that mux
  started,     \* the fields fixed when the process started, or NotStarted
  current,     \* s.currentConfig, once started
  source       \* history: the file current was loaded from

vars == <<file, stage, cfg, built, patterns, started, current, source>>

NotStarted == [enabled |-> FALSE]
SystemPatterns == {<<"/", "ping">>, <<"/", "health">>, <<"/", "version">>}

(* time.ParseDuration, after the default each method has for no text. *)
Parses(text) == text = Empty \/ text \in DOMAIN Durations
DurationOr(text, default) == Durations[OrDefault(text, default)]

ShutdownTimeoutDuration(s) == DurationOr(s.shutdownTimeout, <<"10s">>)
IntervalDuration(h) == DurationOr(h.interval, <<"5s">>)
TimeoutDuration(h) == DurationOr(h.timeout, <<"1s">>)
UnhealthyDurationDuration(p) == DurationOr(p.unhealthyDuration, <<"10s">>)
OpenDurationDuration(b) == DurationOr(b.openDuration, <<"10s">>)

ValidURL(text) == text # Empty /\ text[1] = "url"

Routes(c) == {c.routes[i] : i \in DOMAIN c.routes}
-----------------------------------------------------------------------------
(* expandConfigEnv *)

ServerTexts == {"addr", "requestTimeout", "shutdownTimeout"}
AdminTexts == {"addr", "token"}
RouteTexts == {"id", "prefix", "stripPrefix", "target"}
UpstreamTexts == {"id", "url"}
HealthTexts == {"path", "interval", "timeout"}

ExpandTexts(r, texts) ==
  [f \in DOMAIN r |-> IF f \in texts THEN ExpandEnvString(r[f]).text ELSE r[f]]

Expandable(r, texts) == \A f \in texts : ExpandEnvString(r[f]).ok

ExpandRoute(r) ==
  [ExpandTexts(r, RouteTexts) EXCEPT
     !.upstreams = [j \in DOMAIN @ |-> ExpandTexts(@[j], UpstreamTexts)],
     !.healthCheck = ExpandTexts(@, HealthTexts),
     !.passiveHealth = ExpandTexts(@, {"unhealthyDuration"}),
     !.circuitBreaker = ExpandTexts(@, {"openDuration"})]

RouteExpandable(r) ==
  /\ Expandable(r, RouteTexts)
  /\ \A j \in DOMAIN r.upstreams : Expandable(r.upstreams[j], UpstreamTexts)
  /\ Expandable(r.healthCheck, HealthTexts)
  /\ Expandable(r.passiveHealth, {"unhealthyDuration"})
  /\ Expandable(r.circuitBreaker, {"openDuration"})

ExpandConfigEnv(c) ==
  [server |-> ExpandTexts(c.server, ServerTexts),
   admin  |-> ExpandTexts(c.admin, AdminTexts),
   routes |-> [i \in DOMAIN c.routes |-> ExpandRoute(c.routes[i])]]

ConfigExpandable(c) ==
  /\ Expandable(c.server, ServerTexts)
  /\ Expandable(c.admin, AdminTexts)
  /\ \A r \in Routes(c) : RouteExpandable(r)
-----------------------------------------------------------------------------
(* normalize *)

PositiveOr(n, default) == IF n > 0 THEN n ELSE default
BurstOr(rps, burst) == IF rps > 0 THEN PositiveOr(burst, rps) ELSE burst

NormalizeServer(s) ==
  [s EXCEPT !.addr = OrDefault(@, <<"8080">>),
            !.requestTimeout = OrDefault(@, <<"3s">>),
            !.shutdownTimeout = OrDefault(@, <<"10s">>),
            !.rateLimitBurst = BurstOr(s.rateLimitRPS, @)]

NormalizeAdmin(a) ==
  [a EXCEPT !.addr = IF a.enabled THEN OrDefault(TrimSpace(@), <<"9001">>) ELSE TrimSpace(@),
            !.token = TrimSpace(@)]

NormalizePassive(p) ==
  IF ~p.enabled THEN p
  ELSE [p EXCEPT !.failureThreshold = PositiveOr(@, 3),
                 !.successThreshold = PositiveOr(@, 1),
                 !.unhealthyDuration = OrDefault(@, <<"10s">>)]

NormalizeBreaker(b) ==
  IF ~b.enabled THEN b
  ELSE [b EXCEPT !.failureThreshold = PositiveOr(@, 5),
                 !.openDuration = OrDefault(@, <<"10s">>),
                 !.halfOpenMaxRequests = PositiveOr(@, 1)]

NormalizeHealth(h) ==
  IF ~h.enabled THEN h
  ELSE [h EXCEPT !.path = WithLeadingSlash(OrDefault(TrimSpace(@), <<"/", "health">>)),
                 !.interval = OrDefault(@, <<"5s">>),
                 !.timeout = OrDefault(@, <<"1s">>)]

(* The upstreams of a route get ids, and a target stands for one upstream.  *)
NormalizeUpstreams(r) ==
  LET target == NormalizeTargetURL(r.target)
  IN  IF r.upstreams = <<>> /\ target # Empty
      THEN <<[id |-> <<"default">>, url |-> target]>>
      ELSE [j \in DOMAIN r.upstreams |->
              [id  |-> OrDefault(TrimSpace(r.upstreams[j].id), <<"upstream-", ToString(j)>>),
               url |-> NormalizeTargetURL(r.upstreams[j].url)]]

NormalizeRoute(r) ==
  LET upstreams == NormalizeUpstreams(r)
  IN  [r EXCEPT !.id = TrimSpace(@),
                !.prefix = NormalizePrefix(@),
                !.stripPrefix = NormalizeStripPrefix(@),
                !.upstreams = upstreams,
                !.target = OrDefault(NormalizeTargetURL(@),
                                     IF upstreams = <<>> THEN Empty ELSE upstreams[1].url),
                !.rateLimitBurst = BurstOr(r.rateLimitRPS, @),
                !.passiveHealth = NormalizePassive(@),
                !.circuitBreaker = NormalizeBreaker(@),
                !.healthCheck = NormalizeHealth(@)]

Normalized(c) ==
  [server |-> NormalizeServer(c.server),
   admin  |-> NormalizeAdmin(c.admin),
   routes |-> [i \in DOMAIN c.routes |-> NormalizeRoute(c.routes[i])]]
-----------------------------------------------------------------------------
(* validate *)

Limit == 100000
InLimit(n) == n \in 1 .. Limit

(* Mutant: the rate has no upper limit. *)
RateLimitUnbounded(x) ==
  /\ x.rateLimitRPS >= 0 /\ x.rateLimitBurst \in 0 .. Limit
  /\ x.rateLimitRPS = 0 => x.rateLimitBurst = 0

ValidRateLimit(x) ==
  /\ x.rateLimitRPS \in 0 .. Limit /\ x.rateLimitBurst \in 0 .. Limit
  /\ x.rateLimitRPS = 0 => x.rateLimitBurst = 0

ValidMaxConcurrency(x) == x.maxConcurrency \in 0 .. Limit

ValidAdmin(a) ==
  IF a.enabled THEN a.addr # Empty /\ a.token # Empty ELSE ~a.metricsRequireToken

ValidHealth(h) ==
  h.enabled =>
    /\ HasPrefix(h.path, Slash)
    /\ Parses(h.interval) /\ Parses(h.timeout)
    /\ 0 < TimeoutDuration(h) /\ TimeoutDuration(h) < IntervalDuration(h)

ValidPassive(p) ==
  p.enabled =>
    /\ InLimit(p.failureThreshold) /\ InLimit(p.successThreshold)
    /\ Parses(p.unhealthyDuration) /\ UnhealthyDurationDuration(p) > 0

ValidBreaker(b) ==
  b.enabled =>
    /\ InLimit(b.failureThreshold) /\ InLimit(b.halfOpenMaxRequests)
    /\ Parses(b.openDuration) /\ OpenDurationDuration(b) > 0

Distinct(seq, Key(_)) ==
  \A i, j \in DOMAIN seq : Key(seq[i]) = Key(seq[j]) => i = j

ValidUpstreams(upstreams) ==
  /\ upstreams # <<>>
  /\ Distinct(upstreams, LAMBDA u : u.id)
  /\ \A j \in DOMAIN upstreams : upstreams[j].id # Empty /\ ValidURL(upstreams[j].url)

ValidRoute(r) ==
  /\ r.id # Empty
  /\ HasPrefix(r.prefix, r.stripPrefix)
  /\ ValidURL(r.target)
  /\ ValidUpstreams(r.upstreams)
  /\ ValidRateLimit(r) /\ ValidMaxConcurrency(r)
  /\ ValidHealth(r.healthCheck) /\ ValidPassive(r.passiveHealth) /\ ValidBreaker(r.circuitBreaker)

(* Mutant: prefixes are not compared. *)
ValidRoutesByID(routes) ==
  /\ routes # <<>>
  /\ Distinct(routes, LAMBDA r : r.id)
  /\ \A i \in DOMAIN routes : ValidRoute(routes[i])

ValidRoutes(routes) ==
  /\ routes # <<>>
  /\ Distinct(routes, LAMBDA r : r.id)
  /\ Distinct(routes, LAMBDA r : r.prefix)
  /\ \A i \in DOMAIN routes : ValidRoute(routes[i])

Valid(c) ==
  /\ Parses(c.server.requestTimeout) /\ Parses(c.server.shutdownTimeout)
  /\ ValidRateLimit(c.server) /\ ValidMaxConcurrency(c.server)
  /\ ValidAdmin(c.admin)
  /\ ValidRoutes(c.routes)
-----------------------------------------------------------------------------
(* validateReloadConfig *)

(* What the process is given when it starts and keeps: the servers of       *)
(* NewWithConfigPath and the shutdown timeout of main().                    *)
FixedFields(c) ==
  [enabled  |-> c.admin.enabled,
   addr     |-> c.server.addr,
   admin    |-> IF c.admin.enabled THEN c.admin.addr ELSE Empty,
   token    |-> c.admin.token,
   metrics  |-> c.admin.metricsRequireToken,
   pprof    |-> c.admin.pprofEnabled,
   shutdown |-> ShutdownTimeoutDuration(c.server)]

(* Mutants: the admin address is compared though there is no admin server;  *)
(* the shutdown timeout is not compared.                                    *)
ReloadableStrict(c) ==
  /\ c.server.addr = started.addr /\ c.admin.addr = started.admin
  /\ c.server.shutdownTimeout = current.server.shutdownTimeout
  /\ c.admin.enabled = started.enabled /\ c.admin.token = started.token
  /\ c.admin.metricsRequireToken = started.metrics /\ c.admin.pprofEnabled = started.pprof

ReloadableLax(c) ==
  [FixedFields(c) EXCEPT !.shutdown = 0] = [started EXCEPT !.shutdown = 0]

(* The timeouts are compared as texts, the rest with the running servers.   *)
Reloadable(c) ==
  /\ c.server.addr = started.addr
  /\ c.server.shutdownTimeout = current.server.shutdownTimeout
  /\ c.admin.enabled = started.enabled
  /\ (IF c.admin.enabled THEN c.admin.addr ELSE Empty) = started.admin
  /\ c.admin.token = started.token
  /\ c.admin.metricsRequireToken = started.metrics
  /\ c.admin.pprofEnabled = started.pprof
-----------------------------------------------------------------------------
(* The options the routes are built with *)

(* toProxyActiveHealthOptions and its two siblings. *)
ActiveHealthOptions(h) ==
  [h EXCEPT !.interval = IntervalDuration(h), !.timeout = TimeoutDuration(h)]
PassiveHealthOptions(p) == [p EXCEPT !.unhealthyDuration = UnhealthyDurationDuration(p)]
CircuitBreakerOptions(b) == [b EXCEPT !.openDuration = OpenDurationDuration(b)]

(* newActiveHealthChecker, newPassiveHealthState and newCircuitBreakerState *)
(* replace an option that is not positive.                                  *)
KeptAsWritten(options, fields) == \A f \in fields : options[f] > 0

(* NewTokenBucket returns nil without a burst, and time.NewTicker panics    *)
(* for a period that is not positive.                                       *)
Second == 1000000000
NewTokenBucketWorks(x) == x.rateLimitBurst > 0 /\ Second \div x.rateLimitRPS > 0
-----------------------------------------------------------------------------
(* The process *)

Running == started # NotStarted

Init ==
  /\ file \in Files
  /\ stage = "read"
  /\ cfg = file
  /\ built = 0 /\ patterns = {}
  /\ started = NotStarted
  /\ current = file /\ source = file

(* The operator writes another file, and asks for a reload. *)
Edit ==
  /\ stage = "idle" /\ Running
  /\ file \in Edits /\ file' \in Edits
  /\ UNCHANGED <<stage, cfg, built, patterns, started, current, source>>

Reload ==
  /\ stage = "idle" /\ Running
  /\ stage' = "read" /\ cfg' = file /\ built' = 0 /\ patterns' = {}
  /\ UNCHANGED <<file, started, current, source>>

(* A load fails: at start log.Fatalf ends the process, a reload answers 400 *)
(* and the configuration in force stays.                                    *)
Reject(why) ==
  /\ stage' = why
  /\ UNCHANGED <<file, cfg, built, patterns, started, current, source>>

Answer ==
  /\ stage \in {"rejected", "refused", "panicked"} /\ Running
  /\ stage' = "idle" /\ cfg' = current /\ built' = 0 /\ patterns' = {}
  /\ UNCHANGED <<file, started, current, source>>

Advance(to, c) ==
  /\ stage' = to /\ cfg' = c
  /\ UNCHANGED <<file, built, patterns, started, current, source>>

Expand ==
  /\ stage = "read"
  /\ IF ConfigExpandable(cfg) THEN Advance("expanded", ExpandConfigEnv(cfg))
                              ELSE Reject("rejected")

Normalize == stage = "expanded" /\ Advance("normalized", Normalized(cfg))

Validate ==
  /\ stage = "normalized"
  /\ IF ~Valid(cfg) THEN Reject("rejected") ELSE Advance("valid", cfg)

CheckReload ==
  /\ stage = "valid"
  /\ IF Running /\ ~Reloadable(cfg)
     THEN Reject("refused")
     ELSE /\ stage' = "building" /\ patterns' = SystemPatterns /\ built' = 0
          /\ UNCHANGED <<file, cfg, started, current, source>>

(* mux.Handle: the pattern does not parse, or conflicts with another one.   *)
HandlePanics(p) == ~WellFormed(p) \/ \E q \in patterns : Conflicts(p, q)

(* registerRoutePatterns for the next route. *)
RegisterRoute ==
  /\ stage = "building" /\ built < Len(cfg.routes)
  /\ LET new == RoutePatterns(cfg.routes[built + 1].prefix)
     IN  IF \E p \in new : HandlePanics(p)
         THEN Reject("panicked")
         ELSE /\ patterns' = patterns \cup new /\ built' = built + 1
              /\ UNCHANGED <<file, stage, cfg, started, current, source>>

Install ==
  /\ stage = "building" /\ built = Len(cfg.routes)
  /\ stage' = "idle"
  /\ started' = IF Running THEN started ELSE FixedFields(cfg)
  /\ current' = cfg /\ source' = file
  /\ UNCHANGED <<file, cfg, built, patterns>>

Next ==
  \/ Edit \/ Reload \/ Answer
  \/ Expand \/ Normalize \/ Validate \/ CheckReload \/ RegisterRoute \/ Install

Spec == Init /\ [][Next]_vars
-----------------------------------------------------------------------------
(* Properties *)

Texts(c) == {c.server.addr, c.admin.token} \cup {r.prefix : r \in Routes(c)}

(* What an expression of the file expands to does not depend on what stands *)
(* around it: a text that ends outside any expression can be expanded apart *)
(* from its continuation, and a text without ${ is itself.  Values with $,  *)
(* {, } or : in them are inserted as they are (expandEnvString).            *)
ExpansionComposes ==
  stage = "read" => \A s \in Texts(file) :
    /\ (\A i \in DOMAIN s : ~OpensExpression(s, i)) => ExpandEnvString(s) = Text(s)
    /\ \A i \in 1 .. Len(s) :
         LET left  == ExpandEnvString(SubSeq(s, 1, i))
             right == ExpandEnvString(SubSeq(s, i + 1, Len(s)))
         IN  left.ok /\ s[i] # "$" =>
               ExpandEnvString(s) = IF right.ok THEN Text(left.text \o right.text) ELSE Failed

(* The mux reads the text as it is written: no wildcards and no escapes.    *)
Verbatim(text) == \A i \in DOMAIN text : text[i] # "{" /\ text[i] \notin DOMAIN Escapes

(* Nor has it an empty segment, which the mux matches with any other.       *)
NoEmptySegment(text) ==
  \A i \in 1 .. (Len(text) - 1) : ~(text[i] = "/" /\ text[i + 1] = "/")

(* Every path that matches a pattern of an accepted route, the one without  *)
(* the last slash included, begins with the route's stripPrefix, and what   *)
(* the backend is asked for is the rest (normalizeStripPrefix,              *)
(* registerRoutePatterns, rewritePath).  Only for a stripPrefix that means  *)
(* to the mux what it means to TrimPrefix: with the prefix /{x}/ and the    *)
(* stripPrefix /{x} nothing is ever stripped.                               *)
StripApplies ==
  stage = "valid" => \A r \in Routes(cfg) :
    Verbatim(r.stripPrefix) /\ NoEmptySegment(r.stripPrefix) =>
      \A pattern \in RoutePatterns(r.prefix), path \in Paths : Matches(pattern, path) =>
        LET rest == SubSeq(URLPath(path), Len(r.stripPrefix) + 1, Len(path))
        IN  /\ URLPath(path) = r.stripPrefix \o rest
            /\ RewritePath(URLPath(path), r.stripPrefix) = WithLeadingSlash(rest)

(* What a file switches on is built as it is written: NewTokenBucket does   *)
(* not return nil, which would mean no limit, and gets a ticker period of   *)
(* at least a nanosecond; the health checkers, passive records and breakers *)
(* do not fall back on their own defaults.  The other modules assume this   *)
(* of their constants.                                                      *)
SettingsUsable ==
  stage = "valid" =>
    /\ \A x \in {cfg.server} \cup Routes(cfg) : x.rateLimitRPS > 0 => NewTokenBucketWorks(x)
    /\ \A r \in Routes(cfg) :
         /\ r.upstreams # <<>>
         /\ r.healthCheck.enabled =>
              KeptAsWritten(ActiveHealthOptions(r.healthCheck), {"interval", "timeout"})
         /\ r.passiveHealth.enabled =>
              KeptAsWritten(PassiveHealthOptions(r.passiveHealth),
                            {"failureThreshold", "successThreshold", "unhealthyDuration"})
         /\ r.circuitBreaker.enabled =>
              KeptAsWritten(CircuitBreakerOptions(r.circuitBreaker),
                            {"failureThreshold", "openDuration", "halfOpenMaxRequests"})

(* A build panics only where the prefix of a route has a brace, an escape,  *)
(* a space or a tab in it, ends in two slashes or is that of a system       *)
(* route.  Prefixes without these that come out the same are always caught, *)
(* and those that overlap are no conflict (validate after normalize,        *)
(* mux.Handle).                                                             *)
PanicsExplained ==
  stage = "panicked" => \E r \in Routes(cfg) :
    \/ ~Verbatim(r.prefix)
    \/ \E c \in Blanks : Contains(r.prefix, c)
    \/ HasSuffix(r.prefix, <<"/", "/">>)
    \/ RoutePatterns(r.prefix) \cap SystemPatterns # {}

(* Whatever is reloaded, the configuration in force says of the addresses,  *)
(* the token, the switches and the shutdown timeout what the process was    *)
(* started with (docs/configuration.md:244-252, validateReloadConfig).      *)
FixedUntilRestart == Running => FixedFields(current) = started

(* Reloading the file in force is never refused, however its fields were    *)
(* written (validateReloadConfig compares normalised values).               *)
SameFileReloads == stage = "refused" => file # source
=============================================================================

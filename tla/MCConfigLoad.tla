---------------------------- MODULE MCConfigLoad ----------------------------
(* Configuration files for ConfigLoad: each family varies one part of a     *)
(* sound file.                                                              *)
EXTENDS ConfigLoad

(* Any word may stand in a file. *)
MCTokens == STRING

MCDurations ==
  [t \in {<<"3s">>, <<"10s">>, <<"5s">>, <<"1s">>, <<"0s">>, <<"-1s">>, <<"10000ms">>} |->
     CASE t = <<"3s">> -> 3 [] t = <<"5s">> -> 5 [] t = <<"1s">> -> 1
       [] t = <<"0s">> -> 0 [] t = <<"-1s">> -> -1 [] OTHER -> 10]

(* B is set to nothing, and the value of A looks like an expression. *)
MCEnv == [n \in {<<"A">>, <<"B">>} |-> IF n = <<"A">> THEN <<"$", "{", "B", "}">> ELSE <<>>]

Words(alphabet, n) == BoundedSeq(alphabet, n)

MCEscapes == [c \in {"%61", "%2F", "%7B"} |->
                CASE c = "%61" -> "a" [] c = "%2F" -> "/" [] OTHER -> "{"]
MCBadEscapes == {"%zz"}
MCWildcardNames == Words({"a", "b", "ping"}, 2) \ {<<>>}
MCPaths == {<<"/">> \o w : w \in Words({"/", "a", "%61", "x"}, 3) \cup Words({"/", "%2F", "%7B", "}", "a"}, 3)}

BaseRoute ==
  [id |-> <<"r1">>, prefix |-> <<"/", "a">>, stripPrefix |-> <<>>, target |-> <<"url">>,
   upstreams |-> <<>>, rateLimitRPS |-> 0, rateLimitBurst |-> 0, maxConcurrency |-> 0,
   healthCheck |-> [enabled |-> FALSE, path |-> <<>>, interval |-> <<>>, timeout |-> <<>>],
   passiveHealth |-> [enabled |-> FALSE, failureThreshold |-> 0, successThreshold |-> 0,
                      unhealthyDuration |-> <<>>],
   circuitBreaker |-> [enabled |-> FALSE, failureThreshold |-> 0, openDuration |-> <<>>,
                       halfOpenMaxRequests |-> 0]]

Base ==
  [server |-> [addr |-> <<>>, requestTimeout |-> <<>>, shutdownTimeout |-> <<>>,
               rateLimitRPS |-> 0, rateLimitBurst |-> 0, maxConcurrency |-> 0],
   admin  |-> [enabled |-> TRUE, addr |-> <<>>, token |-> <<"t">>,
               metricsRequireToken |-> FALSE, pprofEnabled |-> FALSE],
   routes |-> <<BaseRoute>>]

WithRoute(r) == [Base EXCEPT !.routes = <<r>>]

(* Environment expressions, complete and broken. *)
ExpansionFiles ==
  {[Base EXCEPT !.admin.token = t] : t \in Words({"$", "{", "}", "A"}, 5)}
    \cup {[Base EXCEPT !.admin.token = <<"$", "{">> \o t \o <<"}", "$", "{">> \o u \o <<"}">>] :
            t \in Words({"A", "B", ":", " "}, 2), u \in Words({"A", "B", ":", " "}, 2)}

(* One route with every prefix and stripPrefix, and two with any prefixes.  *)
PathFiles ==
  {WithRoute([BaseRoute EXCEPT !.prefix = p, !.stripPrefix = q]) :
     p \in Words({"/", "a", " "}, 4), q \in Words({"/", "a"}, 3) \cup {<<" ", "a">>}}
    \cup {[Base EXCEPT !.routes = <<[BaseRoute EXCEPT !.prefix = p],
                                    [BaseRoute EXCEPT !.id = i, !.prefix = q]>>] :
            p \in Words({"/", "a"}, 3) \cup {<<"ping">>}, q \in Words({"/", "a", " "}, 3),
            i \in {<<"r2">>, <<" ", "r1">>}}

(* Prefixes that the mux reads in its own way, alone with a stripPrefix of  *)
(* one or two segments and beside another route.                            *)
MuxWords ==
  {<<"a">>, <<"ping">>, <<"{", "a", "}">>, <<"{", "b", "}">>, <<"%61">>, <<"%2F">>, <<"%zz">>,
   <<"{">>, <<"{", "}">>, <<"a", "{", "b", "}">>, <<"{", "%61", "}">>, <<"a", "TAB", "a">>, <<"LF", "a">>, <<>>}
MuxPrefixes == {<<"/">> \o v : v \in MuxWords} \cup {<<"/">> \o v \o <<"/">> \o w : v, w \in MuxWords}
ShortPrefixes ==
  {p \in MuxPrefixes : Len(p) <= 3} \cup {<<"/", "{", "a", "}">>, <<"/", "{", "b", "}">>,
   <<"/", "{", "a", "}", "/", "a">>, <<"/", "a", "/", "{", "a", "}">>, <<"/", "a", "/", "/", "a">>}

MuxFiles ==
  UNION {{WithRoute([BaseRoute EXCEPT !.prefix = p, !.stripPrefix = q]) : q \in Prefixes(p)} :
            p \in MuxPrefixes}
    \cup {[Base EXCEPT !.routes = <<[BaseRoute EXCEPT !.prefix = p],
                                    [BaseRoute EXCEPT !.id = <<"r2">>, !.prefix = q]>>] :
            p, q \in ShortPrefixes}

(* Rates, bursts and upstreams. *)
LimitFiles ==
  {WithRoute([BaseRoute EXCEPT !.rateLimitRPS = n, !.rateLimitBurst = b, !.maxConcurrency = m]) :
     n \in {-1, 0, 1, 100000, 100001, 2000000000}, b \in {-1, 0, 5, 100001}, m \in {-1, 0, 1, 100001}}
    \cup {WithRoute([BaseRoute EXCEPT !.target = t, !.upstreams = us]) :
            t \in {<<>>, <<"url", "/">>, <<"bad">>},
            us \in BoundedSeq([id : {<<>>, <<"u">>, <<"upstream-", "1">>}, url : {<<"url">>, <<" ">>}], 2)}

(* Health checks, passive health and breakers. *)
HealthFiles ==
  {WithRoute([BaseRoute EXCEPT !.healthCheck =
      [enabled |-> TRUE, path |-> p, interval |-> i, timeout |-> t]]) :
     p \in {<<>>, <<"ok">>, <<"$", "{", "B", ":", "}">>},
     i \in {<<>>, <<"1s">>, <<"0s">>, <<"x">>}, t \in {<<>>, <<"5s">>, <<"-1s">>, <<"1s">>}}
    \cup {WithRoute([BaseRoute EXCEPT
             !.passiveHealth = [enabled |-> TRUE, failureThreshold |-> n, successThreshold |-> m,
                                unhealthyDuration |-> d],
             !.circuitBreaker = [enabled |-> TRUE, failureThreshold |-> m, openDuration |-> d,
                                 halfOpenMaxRequests |-> n]]) :
            n \in {-1, 0, 2, 100001}, m \in {0, 2, 100001}, d \in {<<>>, <<"1s">>, <<"0s">>, <<"x">>}}

(* The parts a reload compares. *)
ServerFiles ==
  {[Base EXCEPT !.server.addr = s, !.server.shutdownTimeout = d, !.server.rateLimitRPS = n] :
     s \in {<<>>, <<"8080">>, <<"9090">>}, d \in {<<>>, <<"10s">>, <<"10000ms">>, <<"0s">>}, n \in {0, 1}}
    \cup {[Base EXCEPT !.admin = [enabled |-> e, addr |-> a, token |-> t,
                                  metricsRequireToken |-> m, pprofEnabled |-> p]] :
            e, m, p \in BOOLEAN, a \in {<<>>, <<"9001">>, <<" ", "9002">>},
            t \in {<<>>, <<"t">>, <<"t", " ">>}}

MCFiles == ExpansionFiles \cup PathFiles \cup MuxFiles \cup LimitFiles \cup HealthFiles \cup ServerFiles
MCEdits == ServerFiles
=============================================================================

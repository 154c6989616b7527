------------------------- MODULE RequestPipelineProofs -------------------------
(***************************************************************************)
(* Proofs about RequestPipeline for any number of requests and routes and  *)
(* any capacities.  IInv is about the limiters, RInv about what is written *)
(* to the recorder and counted.  RInv has to say what each stage has       *)
(* written so far: nothing before the proxy, a 1xx code at most inside it, *)
(* and a status before the body is copied.                                 *)
(***************************************************************************)
EXTENDS RequestPipeline, FiniteSetTheorems, TLAPS

Stages == InGlobal \cup {"idle", "globalRate", "globalConcurrency", "log", "abort"}

(* What the proof needs of the types. *)
Shape ==
  /\ pc \in [Requests -> Stages]
  /\ route \in [Requests -> Keys]
  /\ routeInUse \in [Routes -> Nat]
  /\ globalInUse \in Nat

(* A request that is past the mux on a route's chain has that route. *)
RouteKnown ==
  \A r \in Requests :
    pc[r] \in InProxy \cup {"routeRate", "routeConcurrency"} => route[r] \in Routes

IInv == Shape /\ RouteKnown /\ SlotsExact

Responses == [wrote : BOOLEAN, status : Nat, id : Keys, sent : Nat, final : Nat]

(* A status that is no 1xx code is what went to the client, and the         *)
(* backend's if it sent one.                                                *)
Sound ==
  {p \in Responses :
     /\ p.wrote <=> p.status # 0
     /\ p.status = 0 => p.sent = 0
     /\ p.status >= 200 => p.sent = p.status
     /\ p.final # 0 => p.status # 0
     /\ p.final # 0 /\ p.status >= 200 => p.final = p.status}

(* No status of the backend yet; none that is final; none at all. *)
Unanswered == {p \in Sound : p.final = 0}
Provisional == {p \in Unanswered : p.status < 200}
Blank == {p \in Provisional : p.status = 0}

(* Some status is set. *)
Answered == {p \in Sound : p.status # 0}

(* The stages before any handler writes, and what a response can be at a    *)
(* stage.                                                                   *)
Unwritten == {"idle", "globalRate", "globalConcurrency", "mux", "routeRate", "routeConcurrency"}

AtStage(stage) ==
  CASE stage \in Unwritten -> Blank
    [] stage = "proxy" -> Provisional
    [] stage = "body" -> Answered
    [] OTHER -> Sound

Recorded ==
  /\ resp \in [Requests -> Sound]
  /\ \A r \in Requests : resp[r] \in AtStage(pc[r])

(* The recorder has the id of the route that was matched. *)
Named == \A r \in Requests : resp[r].id = route[r]

Bounded ==
  /\ globalInUse <= GlobalMax
  /\ \A k \in Routes : routeInUse[k] <= RouteMax

Counted ==
  /\ metrics \in [Keys -> Nat]
  /\ ended \in [Keys -> Nat]
  /\ aborted \in [Keys -> Nat]
  /\ CountedUnderRoute

RInv == Recorded /\ Named /\ Bounded /\ Counted
-----------------------------------------------------------------------------
(* One element more or less in a finite set of requests. *)
LEMMA CountAdd ==
  ASSUME NEW S \in SUBSET Requests, NEW r \in Requests \ S
  PROVE  Cardinality(S \cup {r}) = Cardinality(S) + 1 /\ Cardinality(S) \in Nat
  BY PipelineAssumption, FS_Subset, FS_AddElement, FS_CardinalityType

(* Taking an element out of a finite set of requests. *)
LEMMA CountRemove ==
  ASSUME NEW S \in SUBSET Requests, NEW r \in S
  PROVE  Cardinality(S \ {r}) = Cardinality(S) - 1 /\ Cardinality(S) \in Nat
  BY PipelineAssumption, FS_Subset, FS_RemoveElement, FS_CardinalityType

(* A step of r that crosses no limiter keeps the invariant. *)
LEMMA StayStep ==
  ASSUME IInv, NEW r \in Requests, NEW from \in Stages, NEW to \in Stages,
         Goto(r, from, to),
         from \in InGlobal <=> to \in InGlobal,
         from \in InProxy <=> to \in InProxy,
         route' \in [Requests -> Keys],
         \A q \in Requests : q # r => route'[q] = route[q],
         from \in InProxy => route'[r] = route[r],
         to \in {"routeRate", "routeConcurrency"} => route'[r] \in Routes,
         UNCHANGED <<globalInUse, routeInUse>>
  PROVE  IInv'
<1>1. Shape'
  BY DEF IInv, Shape, Goto
<1>2. RouteKnown'
  BY DEF IInv, Shape, RouteKnown, Goto
<1>3. InsideGlobal' = InsideGlobal
  BY DEF IInv, Shape, Goto, InsideGlobal
<1>4. \A k \in Routes : InsideRoute(k)' = InsideRoute(k)
  BY DEF IInv, Shape, Goto, InsideRoute
<1>5. SlotsExact'
  BY <1>3, <1>4 DEF IInv, SlotsExact
<1>6. QED
  BY <1>1, <1>2, <1>5 DEF IInv

(* Acquiring the global slot, or giving it back, keeps the count exact. *)
LEMMA GlobalStep ==
  ASSUME IInv, NEW r \in Requests, NEW from \in Stages, NEW to \in Stages,
         Goto(r, from, to), from \notin InProxy, to \notin InProxy,
         to \notin {"routeRate", "routeConcurrency"},
         \/ from \notin InGlobal /\ to \in InGlobal /\ globalInUse' = globalInUse + 1
         \/ from \in InGlobal /\ to \notin InGlobal /\ globalInUse' = Release(globalInUse),
         UNCHANGED <<route, routeInUse>>
  PROVE  IInv'
<1>1. RouteKnown'
  BY DEF IInv, Shape, RouteKnown, Goto
<1>2. \A k \in Routes : InsideRoute(k)' = InsideRoute(k)
  BY DEF IInv, Shape, Goto, InsideRoute
<1>3. globalInUse = Cardinality(InsideGlobal) /\ InsideGlobal \in SUBSET Requests
  BY DEF IInv, SlotsExact, InsideGlobal
<1>4. globalInUse' = Cardinality(InsideGlobal') /\ globalInUse' \in Nat
  <2>1. CASE from \notin InGlobal /\ to \in InGlobal /\ globalInUse' = globalInUse + 1
    <3>1. r \notin InsideGlobal /\ InsideGlobal' = InsideGlobal \cup {r}
      BY <2>1 DEF IInv, Shape, Goto, InsideGlobal
    <3>2. QED
      BY <1>3, <2>1, <3>1, CountAdd
  <2>2. CASE from \in InGlobal /\ to \notin InGlobal /\ globalInUse' = Release(globalInUse)
    <3>1. r \in InsideGlobal /\ InsideGlobal' = InsideGlobal \ {r}
      BY <2>2 DEF IInv, Shape, Goto, InsideGlobal
    <3>2. Cardinality(InsideGlobal') \in Nat
      BY PipelineAssumption, FS_Subset, FS_CardinalityType DEF InsideGlobal
    <3>3. QED
      BY <1>3, <2>2, <3>1, <3>2, CountRemove DEF Release
  <2>3. QED
    BY <2>1, <2>2
<1>5. Shape'
  BY <1>4 DEF IInv, Shape, Goto
<1>6. SlotsExact'
  BY <1>2, <1>4 DEF IInv, SlotsExact
<1>7. QED
  BY <1>1, <1>5, <1>6 DEF IInv

(* Acquiring the route's slot, or giving it back, keeps the count exact and *)
(* leaves the other routes alone.                                           *)
LEMMA RouteStep ==
  ASSUME IInv, NEW r \in Requests, NEW from \in Stages, NEW to \in Stages,
         Goto(r, from, to), from \in InGlobal, to \in InGlobal,
         route[r] \in Routes,
         \/ /\ from \notin InProxy /\ to \in InProxy
            /\ routeInUse' = [routeInUse EXCEPT ![route[r]] = @ + 1]
         \/ /\ from \in InProxy /\ to \notin InProxy
            /\ routeInUse' = [routeInUse EXCEPT ![route[r]] = Release(@)],
         UNCHANGED <<route, globalInUse>>
  PROVE  IInv'
<1> DEFINE k == route[r]
<1>1. RouteKnown'
  BY DEF IInv, Shape, RouteKnown, Goto
<1>2. InsideGlobal' = InsideGlobal
  BY DEF IInv, Shape, Goto, InsideGlobal
<1>3. \A j \in Routes \ {k} : InsideRoute(j)' = InsideRoute(j) /\ routeInUse'[j] = routeInUse[j]
  BY DEF IInv, Shape, Goto, InsideRoute
<1>4. routeInUse[k] = Cardinality(InsideRoute(k)) /\ InsideRoute(k) \in SUBSET Requests
  BY DEF IInv, SlotsExact, InsideRoute
<1>5. routeInUse'[k] = Cardinality(InsideRoute(k)') /\ routeInUse'[k] \in Nat
  <2>1. CASE /\ from \notin InProxy /\ to \in InProxy
             /\ routeInUse' = [routeInUse EXCEPT ![k] = @ + 1]
    <3>1. r \notin InsideRoute(k) /\ InsideRoute(k)' = InsideRoute(k) \cup {r}
      BY <2>1 DEF IInv, Shape, Goto, InsideRoute
    <3>2. routeInUse'[k] = routeInUse[k] + 1
      BY <2>1 DEF IInv, Shape
    <3>3. QED
      BY <1>4, <3>1, <3>2, CountAdd
  <2>2. CASE /\ from \in InProxy /\ to \notin InProxy
             /\ routeInUse' = [routeInUse EXCEPT ![k] = Release(@)]
    <3>1. r \in InsideRoute(k) /\ InsideRoute(k)' = InsideRoute(k) \ {r}
      BY <2>2 DEF IInv, Shape, Goto, InsideRoute
    <3>2. Cardinality(InsideRoute(k)') \in Nat
      BY PipelineAssumption, FS_Subset, FS_CardinalityType DEF InsideRoute
    <3>3. routeInUse'[k] = Release(routeInUse[k])
      BY <2>2 DEF IInv, Shape
    <3>4. QED
      BY <1>4, <3>1, <3>2, <3>3, CountRemove DEF Release
  <2>3. QED
    BY <2>1, <2>2
<1>6. Shape'
  <2>1. routeInUse' \in [Routes -> Nat]
    BY <1>3, <1>5 DEF IInv, Shape, Release
  <2>2. QED
    BY <2>1 DEF IInv, Shape, Goto
<1>7. SlotsExact'
  BY <1>2, <1>3, <1>5 DEF IInv, SlotsExact
<1>8. QED
  BY <1>1, <1>6, <1>7 DEF IInv
-----------------------------------------------------------------------------
(* No request is inside a limiter at the start. *)
LEMMA InitIInv == Init => IInv
<1> SUFFICES ASSUME Init PROVE IInv
  OBVIOUS
<1>1. Shape /\ RouteKnown
  BY DEF Init, Shape, RouteKnown, Stages, Keys, InGlobal, InProxy
<1>2. InsideGlobal = {} /\ \A k \in Routes : InsideRoute(k) = {}
  BY DEF Init, InsideGlobal, InsideRoute, InGlobal, InProxy
<1>3. QED
  BY <1>1, <1>2, FS_EmptySet DEF Init, IInv, SlotsExact

(* Every step keeps the invariant. *)
LEMMA StepIInv == IInv /\ [Next]_vars => IInv'
<1> SUFFICES ASSUME IInv, [Next]_vars PROVE IInv'
  OBVIOUS
<1> USE DEF Stages, InGlobal, InProxy
<1>1. route \in [Requests -> Keys] /\ RouteKnown
  BY DEF IInv, Shape
<1>2. ASSUME NEW r \in Requests,
             \/ Begin(r) \/ GlobalRate(r) \/ RouteRate(r) \/ PassInterim(r)
             \/ PassFinal(r) \/ CopyBody(r) \/ AbortBody(r)
      PROVE  IInv'
  BY <1>1, <1>2, StayStep
  DEF Begin, GlobalRate, RouteRate, PassInterim, PassFinal, CopyBody, AbortBody, RouteKnown, Goto
<1>3. ASSUME NEW r \in Requests, GlobalConcurrency(r) PROVE IInv'
  <2>1. CASE Goto(r, "globalConcurrency", "mux") /\ globalInUse' = globalInUse + 1
    BY <1>3, <2>1, GlobalStep DEF GlobalConcurrency
  <2>2. CASE Goto(r, "globalConcurrency", "log") /\ UNCHANGED globalInUse
    BY <1>1, <1>3, <2>2, StayStep DEF GlobalConcurrency
  <2>3. QED
    BY <1>3, <2>1, <2>2 DEF GlobalConcurrency
<1>4. ASSUME NEW r \in Requests, Mux(r) PROVE IInv'
  <2>1. ASSUME NEW k \in Routes, Goto(r, "mux", "routeRate"),
               route' = [route EXCEPT ![r] = k]
        PROVE  IInv'
    <3>1. /\ route' \in [Requests -> Keys]
          /\ route'[r] \in Routes
          /\ \A q \in Requests : q # r => route'[q] = route[q]
      BY <1>1, <2>1 DEF Keys
    <3>2. QED
      BY <1>4, <2>1, <3>1, StayStep DEF Mux
  <2>2. CASE Goto(r, "mux", "leave") /\ UNCHANGED route
    BY <1>1, <1>4, <2>2, StayStep DEF Mux
  <2>3. QED
    BY <1>4, <2>1, <2>2 DEF Mux
<1>5. ASSUME NEW r \in Requests, RouteConcurrency(r) PROVE IInv'
  <2>1. CASE /\ Goto(r, "routeConcurrency", "proxy")
             /\ routeInUse' = [routeInUse EXCEPT ![route[r]] = @ + 1]
    <3>1. route[r] \in Routes
      BY <1>1, <2>1 DEF RouteKnown, Goto
    <3>2. QED
      BY <1>5, <2>1, <3>1, RouteStep DEF RouteConcurrency
  <2>2. CASE Goto(r, "routeConcurrency", "leave") /\ UNCHANGED routeInUse
    BY <1>1, <1>5, <2>2, StayStep DEF RouteConcurrency
  <2>3. QED
    BY <1>5, <2>1, <2>2 DEF RouteConcurrency
<1>6. ASSUME NEW r \in Requests, ProxyError(r) PROVE IInv'
  BY <1>1, <1>6, StayStep DEF ProxyError
<1>7. ASSUME NEW r \in Requests, LeaveRoute(r) PROVE IInv'
  <2>1. route[r] \in Routes
    BY <1>1, <1>7 DEF LeaveRoute, RouteKnown, Goto
  <2>2. CASE Goto(r, "leaveRoute", "leave")
    BY <1>7, <2>1, <2>2, RouteStep DEF LeaveRoute
  <2>3. CASE Goto(r, "unwindRoute", "unwind")
    BY <1>7, <2>1, <2>3, RouteStep DEF LeaveRoute
  <2>4. QED
    BY <1>7, <2>2, <2>3 DEF LeaveRoute
<1>8. ASSUME NEW r \in Requests, LeaveGlobal(r) PROVE IInv'
  <2>1. CASE Goto(r, "leave", "log")
    BY <1>8, <2>1, GlobalStep DEF LeaveGlobal
  <2>2. CASE Goto(r, "unwind", "abort")
    BY <1>8, <2>2, GlobalStep DEF LeaveGlobal
  <2>3. QED
    BY <1>8, <2>1, <2>2 DEF LeaveGlobal
<1>9. ASSUME NEW r \in Requests, NEW from \in {"log", "abort"}, Goto(r, from, "idle"), End(r)
      PROVE  IInv'
  <2>1. /\ route' \in [Requests -> Keys]
        /\ \A q \in Requests : q # r => route'[q] = route[q]
    BY <1>1, <1>9 DEF End, Keys
  <2>2. QED
    BY <1>9, <2>1, StayStep DEF End
<1>10. CASE UNCHANGED vars
  BY <1>10 DEF vars, IInv, Shape, RouteKnown, SlotsExact, InsideGlobal, InsideRoute
<1>11. QED
  BY <1>2, <1>3, <1>4, <1>5, <1>6, <1>7, <1>8, <1>9, <1>10 DEF Next, Log, Recover

(* The limiters count exactly the requests inside them, on every path       *)
(* through the chain: refused, answered, failed or aborted by a panic.      *)
THEOREM SlotsAreExact == Spec => []SlotsExact
<1>1. IInv => SlotsExact
  BY DEF IInv
<1>2. QED
  BY <1>1, InitIInv, StepIInv, PTL DEF Spec
-----------------------------------------------------------------------------
(* WriteHeader keeps a response sound; it sets the status of one that had   *)
(* none.                                                                    *)
LEMMA WriteHeaderEffect ==
  ASSUME NEW p \in Unanswered, NEW code \in 102 .. 599
  PROVE  /\ WriteHeader(p, code) \in Unanswered \cap Answered
         /\ WriteHeader(p, code).status \in {code, p.status}
         /\ WriteHeader(p, code).id = p.id
<1> DEFINE q == WriteHeader(p, code)
<1> USE DEF Unanswered, Answered
<1>0. p \in Responses /\ code \in Nat /\ code # 0
  BY DEF Sound
<1>1. CASE p.wrote
  <2>1. q = p
    BY <1>1 DEF WriteHeader
  <2>2. p.status # 0
    BY <1>1 DEF Sound
  <2>3. QED
    BY <2>1, <2>2
<1>2. CASE ~p.wrote
  <2>1. p.status = 0 /\ p.sent = 0
    BY <1>2 DEF Sound
  <2>2. q = [wrote |-> TRUE, status |-> code, id |-> p.id,
             sent |-> IF code >= 200 THEN code ELSE 0, final |-> 0]
    BY <1>0, <1>2, <2>1 DEF WriteHeader, Responses
  <2>3. q \in Responses
    BY <1>0, <2>2 DEF Responses
  <2>4. q \in Sound
    BY <1>0, <2>2, <2>3 DEF Sound
  <2>5. QED
    BY <1>0, <2>2, <2>4
<1>3. QED
  BY <1>1, <1>2

(* A 1xx code leaves the final status open. *)
LEMMA InterimEffect ==
  ASSUME NEW p \in Provisional, NEW code \in 102 .. 199
  PROVE  WriteHeader(p, code) \in Provisional /\ WriteHeader(p, code).id = p.id
<1>1. p \in Unanswered /\ p.status < 200 /\ code \in 102 .. 599 /\ code < 200
  BY DEF Provisional
<1>2. /\ WriteHeader(p, code) \in Unanswered
      /\ WriteHeader(p, code).status \in {code, p.status}
      /\ WriteHeader(p, code).id = p.id
  BY <1>1, WriteHeaderEffect
<1>3. QED
  BY <1>1, <1>2 DEF Provisional

(* The final status of the backend, written to a response with a 1xx code   *)
(* or with nothing in it.                                                   *)
LEMMA FinalEffect ==
  ASSUME NEW p \in Provisional, NEW code \in 200 .. 599
  PROVE  /\ WriteHeader([p EXCEPT !.final = code], code) \in Answered
         /\ WriteHeader([p EXCEPT !.final = code], code).id = p.id
<1> DEFINE f == [p EXCEPT !.final = code]
           q == WriteHeader(f, code)
<1> USE DEF Provisional, Unanswered, Answered
<1>0. /\ p \in Sound /\ p \in Responses /\ p.status \in Nat /\ p.status < 200
      /\ code \in Nat /\ code # 0 /\ code >= 200
  BY DEF Sound, Responses
<1>1. f = [wrote |-> p.wrote, status |-> p.status, id |-> p.id,
           sent |-> p.sent, final |-> code]
  BY <1>0 DEF Responses
<1> HIDE DEF f
<1>2. f \in Responses
  BY <1>0, <1>1 DEF Responses
<1>3. CASE p.wrote
  <2>1. q = f
    BY <1>1, <1>3 DEF WriteHeader
  <2>2. p.status # 0
    BY <1>0, <1>3 DEF Sound
  <2>3. f.wrote <=> f.status # 0
    BY <1>1, <1>3, <2>2
  <2>4. f \in Sound
    BY <1>0, <1>1, <1>2, <2>2, <2>3 DEF Sound
  <2>5. QED
    BY <1>1, <2>1, <2>2, <2>4 DEF f
<1>4. CASE ~p.wrote
  <2>1. p.status = 0 /\ p.sent = 0
    BY <1>0, <1>4 DEF Sound
  <2>2. q = [f EXCEPT !.wrote = TRUE, !.status = code, !.sent = code]
    BY <1>0, <1>1, <1>4, <2>1 DEF WriteHeader
  <2>3. q = [wrote |-> TRUE, status |-> code, id |-> p.id, sent |-> code, final |-> code]
    BY <1>1, <2>2
  <2>4. q \in Responses
    BY <1>0, <2>3 DEF Responses
  <2>5. q \in Sound
    BY <1>0, <2>3, <2>4 DEF Sound
  <2>6. QED
    BY <1>0, <2>3, <2>5 DEF f
<1>5. QED
  BY <1>3, <1>4

(* Writing a body, after a status or without one. *)
LEMMA WriteEffect ==
  ASSUME NEW p \in Sound
  PROVE  Write(p) \in Sound /\ Write(p).id = p.id
<1> DEFINE q == IF p.wrote THEN p ELSE WriteHeader(p, 200)
           w == [q EXCEPT !.sent = IF @ = 0 THEN 200 ELSE @]
<1>1. Write(p) = w
  BY DEF Write
<1>2. q \in Sound /\ q.status # 0 /\ q.id = p.id
  <2>1. CASE p.wrote
    BY <2>1 DEF Sound
  <2>2. CASE ~p.wrote
    <3>1. q = WriteHeader(p, 200) /\ p \in Unanswered /\ 200 \in 102 .. 599
      BY <2>2 DEF Sound, Unanswered
    <3>2. WriteHeader(p, 200) \in Answered /\ WriteHeader(p, 200).id = p.id
      BY <3>1, WriteHeaderEffect
    <3>3. QED
      BY <3>1, <3>2 DEF Answered
  <2>3. QED
    BY <2>1, <2>2
<1> HIDE DEF q
<1>3. q \in Responses /\ q.status \in Nat /\ q.sent \in Nat /\ q.final \in Nat
  BY <1>2 DEF Sound, Responses
<1>4. w = [wrote |-> q.wrote, status |-> q.status, id |-> q.id,
           sent |-> IF q.sent = 0 THEN 200 ELSE q.sent, final |-> q.final]
  BY <1>3 DEF Responses
<1> HIDE DEF w
<1>5. w \in Responses
  BY <1>3, <1>4 DEF Responses
<1>6. w \in Sound
  <2>1. w.wrote <=> w.status # 0
    BY <1>2, <1>4 DEF Sound
  <2>2. w.status >= 200 => w.sent = w.status
    BY <1>2, <1>3, <1>4 DEF Sound
  <2>3. w.final # 0 => w.status # 0 /\ (w.status >= 200 => w.final = w.status)
    BY <1>2, <1>3, <1>4 DEF Sound
  <2>4. w.status # 0
    BY <1>2, <1>4
  <2>5. QED
    BY <1>5, <2>1, <2>2, <2>3, <2>4 DEF Sound
<1>7. QED
  BY <1>1, <1>2, <1>4, <1>6

(* http.Error, when no final status of the backend was passed on. *)
LEMMA ErrorEffect ==
  ASSUME NEW p \in Unanswered, NEW code \in 102 .. 599
  PROVE  Error(p, code) \in Sound /\ Error(p, code).id = p.id
<1>1. WriteHeader(p, code) \in Sound /\ WriteHeader(p, code).id = p.id
  BY WriteHeaderEffect DEF Answered
<1>2. QED
  BY <1>1, WriteEffect DEF Error
-----------------------------------------------------------------------------
(* Every kind of response is a sound one, and a stage asks for one kind. *)
LEMMA Kinds ==
  /\ Blank \subseteq Provisional /\ Provisional \subseteq Unanswered
  /\ Unanswered \subseteq Sound /\ Answered \subseteq Sound
  /\ \A s \in Unwritten : AtStage(s) = Blank
  /\ AtStage("proxy") = Provisional
  /\ AtStage("body") = Answered
  /\ \A s \in Stages \ (Unwritten \cup {"proxy", "body"}) : AtStage(s) = Sound
<1>1. /\ Blank \subseteq Provisional /\ Provisional \subseteq Unanswered
      /\ Unanswered \subseteq Sound /\ Answered \subseteq Sound
  BY DEF Blank, Provisional, Unanswered, Answered
<1>2. QED
  BY <1>1 DEF AtStage, Unwritten

(* The stages only ask for more of a response that is written less. *)
LEMMA StageKinds ==
  ASSUME NEW s \in Stages
  PROVE  AtStage(s) \subseteq Sound
  BY Kinds

(* A new response has nothing in it. *)
LEMMA NewIsBlank == NewResp \in Blank /\ NewResp.id = NoRoute
<1>1. NewResp \in Responses
  BY DEF NewResp, Responses, Keys
<1>2. NewResp \in Sound
  BY <1>1 DEF NewResp, Sound
<1>3. QED
  BY <1>2 DEF NewResp, Blank, Provisional, Unanswered

(* What a step of r has to show of its response and its route. *)
LEMMA ResponseStep ==
  ASSUME Shape, Recorded, Named, NEW r \in Requests, NEW from \in Stages, NEW to \in Stages,
         Goto(r, from, to), NEW p \in AtStage(to), Respond(r, p),
         p.id = route'[r],
         \A q \in Requests : q # r => route'[q] = route[q]
  PROVE  Recorded' /\ Named'
<1>1. p \in Sound
  BY StageKinds
<1>2. resp' \in [Requests -> Sound]
  BY <1>1 DEF Recorded, Respond
<1>3. pc'[r] = to /\ resp'[r] = p
  BY DEF Shape, Recorded, Goto, Respond
<1>4. ASSUME NEW q \in Requests, q # r
      PROVE  pc'[q] = pc[q] /\ resp'[q] = resp[q] /\ route'[q] = route[q]
  BY <1>4 DEF Shape, Recorded, Goto, Respond
<1>5. ASSUME NEW q \in Requests PROVE resp'[q] \in AtStage(pc'[q]) /\ resp'[q].id = route'[q]
  <2>1. CASE q = r
    BY <1>3, <2>1
  <2>2. CASE q # r
    BY <1>4, <2>2 DEF Recorded, Named
  <2>3. QED
    BY <2>1, <2>2
<1>6. QED
  BY <1>2, <1>5 DEF Recorded, Named

(* A step of r that leaves its response as it is. *)
LEMMA SilentStep ==
  ASSUME Shape, Recorded, Named, NEW r \in Requests, NEW from \in Stages, NEW to \in Stages,
         Goto(r, from, to), AtStage(from) \subseteq AtStage(to), UNCHANGED <<route, resp>>
  PROVE  Recorded' /\ Named'
<1>1. resp[r] \in AtStage(to) /\ resp[r].id = route'[r]
  BY DEF Goto, Recorded, Named
<1>2. Respond(r, resp[r])
  BY DEF Respond, Recorded
<1>3. QED
  BY <1>1, <1>2, ResponseStep

(* A step of r that answers with an error. *)
LEMMA ErrorStep ==
  ASSUME Shape, Recorded, Named, NEW r \in Requests, NEW from \in Unwritten \cup {"proxy"},
         NEW to \in {"log", "leave", "leaveRoute"}, Goto(r, from, to),
         NEW code \in 102 .. 599, Respond(r, Error(resp[r], code)), UNCHANGED route
  PROVE  Recorded' /\ Named'
<1>1. resp[r] \in Unanswered
  BY Kinds DEF Goto, Recorded
<1>2. Error(resp[r], code) \in Sound /\ Error(resp[r], code).id = resp[r].id
  BY <1>1, ErrorEffect
<1>3. from \in Stages /\ to \in Stages /\ AtStage(to) = Sound
  BY Kinds DEF Stages, Unwritten, InGlobal, InProxy
<1>4. Error(resp[r], code) \in AtStage(to) /\ Error(resp[r], code).id = route'[r]
  BY <1>2, <1>3 DEF Named
<1>5. QED
  BY <1>3, <1>4, ResponseStep

(* What is written follows the stages, and the recorder has the route. *)
LEMMA StepRecorded ==
  ASSUME IInv, Recorded, Named, [Next]_vars
  PROVE  Recorded' /\ Named'
<1>0. Shape
  BY DEF IInv
<1>1. /\ Unwritten \subseteq Stages
      /\ {"proxy", "body", "log", "leave", "leaveRoute", "unwindRoute", "unwind", "abort"}
           \subseteq Stages
  BY DEF Unwritten, Stages, InGlobal, InProxy
<1>2. \A st \in {"log", "leave", "leaveRoute", "unwindRoute", "unwind", "abort"} :
        AtStage(st) = Sound
  BY <1>1, Kinds DEF Unwritten
<1>3. ASSUME NEW r \in Requests, Begin(r) PROVE Recorded' /\ Named'
  BY <1>0, <1>1, <1>3, SilentStep, Kinds DEF Begin, Unwritten
<1>4. ASSUME NEW r \in Requests, GlobalRate(r) PROVE Recorded' /\ Named'
  <2>1. CASE Goto(r, "globalRate", "globalConcurrency") /\ UNCHANGED resp
    BY <1>0, <1>1, <1>4, <2>1, SilentStep, Kinds DEF GlobalRate, Unwritten
  <2>2. CASE Goto(r, "globalRate", "log") /\ Respond(r, Error(resp[r], 429))
    <3>1. "globalRate" \in Unwritten \cup {"proxy"}
      BY DEF Unwritten
    <3>2. UNCHANGED route
      BY <1>4 DEF GlobalRate
    <3>3. QED
      BY <1>0, <2>2, <3>1, <3>2, ErrorStep
  <2>3. QED
    BY <1>4, <2>1, <2>2 DEF GlobalRate
<1>5. ASSUME NEW r \in Requests, GlobalConcurrency(r) PROVE Recorded' /\ Named'
  <2>1. CASE Goto(r, "globalConcurrency", "mux") /\ UNCHANGED resp
    BY <1>0, <1>1, <1>5, <2>1, SilentStep, Kinds DEF GlobalConcurrency, Unwritten
  <2>2. CASE Goto(r, "globalConcurrency", "log") /\ Respond(r, Error(resp[r], 503))
    <3>1. "globalConcurrency" \in Unwritten \cup {"proxy"}
      BY DEF Unwritten
    <3>2. UNCHANGED route
      BY <1>5 DEF GlobalConcurrency
    <3>3. QED
      BY <1>0, <2>2, <3>1, <3>2, ErrorStep
  <2>3. QED
    BY <1>5, <2>1, <2>2 DEF GlobalConcurrency
<1>6. ASSUME NEW r \in Requests, Mux(r) PROVE Recorded' /\ Named'
  <2>1. ASSUME NEW k \in Routes, Goto(r, "mux", "routeRate"),
               route' = [route EXCEPT ![r] = k], Respond(r, [resp[r] EXCEPT !.id = k])
        PROVE  Recorded' /\ Named'
    <3> DEFINE p == [resp[r] EXCEPT !.id = k]
    <3>1. resp[r] \in Blank
      BY <2>1, Kinds DEF Goto, Recorded, Unwritten
    <3>2. p \in Blank /\ p.id = k
      <4>1. resp[r] \in Responses /\ k \in Keys
        BY <3>1 DEF Blank, Provisional, Unanswered, Sound, Keys
      <4>2. p \in Responses
        BY <4>1 DEF Responses
      <4>3. /\ p.wrote = resp[r].wrote /\ p.status = resp[r].status
            /\ p.sent = resp[r].sent /\ p.final = resp[r].final /\ p.id = k
        BY <4>1 DEF Responses
      <4>4. p \in Sound
        BY <3>1, <4>2, <4>3 DEF Blank, Provisional, Unanswered, Sound
      <4>5. QED
        BY <3>1, <4>3, <4>4 DEF Blank, Provisional, Unanswered
    <3> HIDE DEF p
    <3>3. Respond(r, p) /\ p \in AtStage("routeRate")
      BY <2>1, <3>2, Kinds DEF p, Unwritten
    <3>4. route'[r] = k /\ \A q \in Requests : q # r => route'[q] = route[q]
      BY <1>0, <2>1 DEF Shape
    <3>5. QED
      BY <1>0, <1>1, <2>1, <3>2, <3>3, <3>4, ResponseStep DEF Unwritten
  <2>2. ASSUME NEW code \in {200, 404}, Goto(r, "mux", "leave"), UNCHANGED route,
               Respond(r, Error(resp[r], code))
        PROVE  Recorded' /\ Named'
    <3>1. "mux" \in Unwritten \cup {"proxy"} /\ code \in 102 .. 599
      BY DEF Unwritten
    <3>2. QED
      BY <1>0, <2>2, <3>1, ErrorStep
  <2>3. QED
    BY <1>6, <2>1, <2>2 DEF Mux
<1>7. ASSUME NEW r \in Requests, RouteRate(r) PROVE Recorded' /\ Named'
  <2>1. CASE Goto(r, "routeRate", "routeConcurrency") /\ UNCHANGED resp
    BY <1>0, <1>1, <1>7, <2>1, SilentStep, Kinds DEF RouteRate, Unwritten
  <2>2. CASE Goto(r, "routeRate", "leave") /\ Respond(r, Error(resp[r], 429))
    <3>1. "routeRate" \in Unwritten \cup {"proxy"}
      BY DEF Unwritten
    <3>2. UNCHANGED route
      BY <1>7 DEF RouteRate
    <3>3. QED
      BY <1>0, <2>2, <3>1, <3>2, ErrorStep
  <2>3. QED
    BY <1>7, <2>1, <2>2 DEF RouteRate
<1>8. ASSUME NEW r \in Requests, RouteConcurrency(r) PROVE Recorded' /\ Named'
  <2>1. CASE Goto(r, "routeConcurrency", "proxy") /\ UNCHANGED resp
    BY <1>0, <1>1, <1>8, <2>1, SilentStep, Kinds DEF RouteConcurrency, Unwritten
  <2>2. CASE Goto(r, "routeConcurrency", "leave") /\ Respond(r, Error(resp[r], 503))
    <3>1. "routeConcurrency" \in Unwritten \cup {"proxy"}
      BY DEF Unwritten
    <3>2. UNCHANGED route
      BY <1>8 DEF RouteConcurrency
    <3>3. QED
      BY <1>0, <2>2, <3>1, <3>2, ErrorStep
  <2>3. QED
    BY <1>8, <2>1, <2>2 DEF RouteConcurrency
<1>9. ASSUME NEW r \in Requests, PassInterim(r) PROVE Recorded' /\ Named'
  <2>1. PICK code \in Interim : Respond(r, WriteHeader(resp[r], code))
    BY <1>9 DEF PassInterim
  <2>2. resp[r] \in Provisional /\ code \in 102 .. 199
    BY <1>9, Kinds, PipelineAssumption DEF PassInterim, Goto, Recorded
  <2>3. /\ WriteHeader(resp[r], code) \in AtStage("proxy")
        /\ WriteHeader(resp[r], code).id = resp[r].id
    BY <2>2, InterimEffect, Kinds
  <2>4. WriteHeader(resp[r], code).id = route'[r] /\ UNCHANGED route
    BY <1>9, <2>3 DEF PassInterim, Named
  <2>5. Goto(r, "proxy", "proxy")
    BY <1>9 DEF PassInterim
  <2>6. QED
    BY <1>0, <1>1, <2>1, <2>3, <2>4, <2>5, ResponseStep
<1>10. ASSUME NEW r \in Requests, PassFinal(r) PROVE Recorded' /\ Named'
  <2>1. PICK code \in Statuses :
          Respond(r, WriteHeader([resp[r] EXCEPT !.final = code], code))
    BY <1>10 DEF PassFinal
  <2> DEFINE p == WriteHeader([resp[r] EXCEPT !.final = code], code)
  <2>2. resp[r] \in Provisional /\ code \in 200 .. 599
    BY <1>10, Kinds, PipelineAssumption DEF PassFinal, Goto, Recorded
  <2>3. p \in AtStage("body") /\ p.id = resp[r].id
    BY <2>2, FinalEffect, Kinds
  <2>4. Respond(r, p)
    BY <2>1
  <2> HIDE DEF p
  <2>5. p.id = route'[r] /\ UNCHANGED route /\ Goto(r, "proxy", "body")
    BY <1>10, <2>3 DEF PassFinal, Named
  <2>6. QED
    BY <1>0, <1>1, <2>3, <2>4, <2>5, ResponseStep
<1>11. ASSUME NEW r \in Requests, ProxyError(r) PROVE Recorded' /\ Named'
  <2>1. PICK code \in {502, 503, 504} : Respond(r, Error(resp[r], code))
    BY <1>11 DEF ProxyError
  <2>2. code \in 102 .. 599
    OBVIOUS
  <2>3. QED
    BY <1>0, <1>11, <2>1, <2>2, ErrorStep DEF ProxyError
<1>12. ASSUME NEW r \in Requests, CopyBody(r) PROVE Recorded' /\ Named'
  <2>1. PICK p \in {resp[r], Write(resp[r])} : Respond(r, p)
    BY <1>12 DEF CopyBody
  <2>2. resp[r] \in Sound
    BY DEF Recorded
  <2>3. p \in AtStage("leaveRoute") /\ p.id = resp[r].id
    BY <1>2, <2>2, WriteEffect
  <2>4. p.id = route'[r] /\ UNCHANGED route /\ Goto(r, "body", "leaveRoute")
    BY <1>12, <2>3 DEF CopyBody, Named
  <2>5. QED
    BY <1>0, <1>1, <2>1, <2>3, <2>4, ResponseStep
<1>13. ASSUME NEW r \in Requests, AbortBody(r) PROVE Recorded' /\ Named'
  BY <1>0, <1>1, <1>2, <1>13, SilentStep, Kinds DEF AbortBody
<1>14. ASSUME NEW r \in Requests, LeaveRoute(r) PROVE Recorded' /\ Named'
  BY <1>0, <1>1, <1>2, <1>14, SilentStep DEF LeaveRoute
<1>15. ASSUME NEW r \in Requests, LeaveGlobal(r) PROVE Recorded' /\ Named'
  BY <1>0, <1>1, <1>2, <1>15, SilentStep DEF LeaveGlobal
<1>16. ASSUME NEW r \in Requests, NEW from \in {"log", "abort"}, Goto(r, from, "idle"), End(r)
       PROVE  Recorded' /\ Named'
  <2>1. NewResp \in AtStage("idle") /\ NewResp.id = NoRoute
    BY NewIsBlank, Kinds DEF Unwritten
  <2>2. route'[r] = NoRoute /\ \A q \in Requests : q # r => route'[q] = route[q]
    BY <1>0, <1>16 DEF Shape, End
  <2>3. Respond(r, NewResp) /\ "idle" \in Stages /\ from \in Stages
    BY <1>1, <1>16 DEF End, Unwritten
  <2>4. QED
    BY <1>0, <1>16, <2>1, <2>2, <2>3, ResponseStep
<1>17. CASE UNCHANGED vars
  BY <1>17 DEF vars, Recorded, Named
<1>18. QED
  BY <1>3, <1>4, <1>5, <1>6, <1>7, <1>8, <1>9, <1>10, <1>11, <1>12, <1>13, <1>14, <1>15,
     <1>16, <1>17
  DEF Next, Log, Recover

(* The limiters keep to their capacities. *)
LEMMA StepBounded ==
  ASSUME IInv, Bounded, [Next]_vars
  PROVE  Bounded'
<1>0. /\ globalInUse \in Nat /\ routeInUse \in [Routes -> Nat]
      /\ GlobalMax \in Nat /\ RouteMax \in Nat
  BY PipelineAssumption DEF IInv, Shape
<1>1. ASSUME NEW r \in Requests, GlobalConcurrency(r) PROVE Bounded'
  BY <1>0, <1>1 DEF GlobalConcurrency, CanAcquire, Bounded
<1>2. ASSUME NEW r \in Requests, RouteConcurrency(r) PROVE Bounded'
  BY <1>0, <1>2 DEF RouteConcurrency, CanAcquire, Bounded
<1>3. ASSUME NEW r \in Requests, LeaveRoute(r) PROVE Bounded'
  BY <1>0, <1>3 DEF LeaveRoute, Release, Bounded
<1>4. ASSUME NEW r \in Requests, LeaveGlobal(r) PROVE Bounded'
  BY <1>0, <1>4 DEF LeaveGlobal, Release, Bounded
<1>5. CASE UNCHANGED <<globalInUse, routeInUse>>
  BY <1>5 DEF Bounded
<1>6. QED
  BY <1>1, <1>2, <1>3, <1>4, <1>5
  DEF Next, vars, Begin, GlobalRate, Mux, RouteRate, PassInterim, PassFinal, ProxyError,
      CopyBody, AbortBody, Log, Recover, End

(* A request ends under the route that it is recorded under. *)
LEMMA StepCounted ==
  ASSUME IInv, Named, Counted, [Next]_vars
  PROVE  Counted'
<1>0. route \in [Requests -> Keys]
  BY DEF IInv, Shape
<1>1. ASSUME NEW r \in Requests, Log(r) PROVE Counted'
  <2> DEFINE k == route[r]
  <2>1. k \in Keys /\ resp[r].id = k
    BY <1>0 DEF Named
  <2>2. /\ metrics' = [metrics EXCEPT ![k] = @ + 1]
        /\ ended' = [ended EXCEPT ![k] = @ + 1]
        /\ aborted' = aborted
    BY <1>1, <2>1 DEF Log, Record, End
  <2> HIDE DEF k
  <2>3. QED
    BY <2>1, <2>2 DEF Counted, CountedUnderRoute
<1>2. ASSUME NEW r \in Requests, Recover(r) PROVE Counted'
  <2> DEFINE k == route[r]
  <2>1. k \in Keys
    BY <1>0
  <2>2. /\ metrics' = metrics
        /\ ended' = [ended EXCEPT ![k] = @ + 1]
        /\ aborted' = [aborted EXCEPT ![k] = @ + 1]
    BY <1>2 DEF Recover, End
  <2> HIDE DEF k
  <2>3. QED
    BY <2>1, <2>2 DEF Counted, CountedUnderRoute
<1>3. CASE UNCHANGED <<metrics, ended, aborted>>
  BY <1>3 DEF Counted, CountedUnderRoute
<1>4. QED
  BY <1>1, <1>2, <1>3
  DEF Next, vars, Begin, GlobalRate, GlobalConcurrency, Mux, RouteRate, RouteConcurrency,
      PassInterim, PassFinal, ProxyError, CopyBody, AbortBody, LeaveRoute, LeaveGlobal

(* Nothing is written, in use or counted at the start. *)
LEMMA InitRInv == Init => RInv
<1> SUFFICES ASSUME Init PROVE RInv
  OBVIOUS
<1>1. resp \in [Requests -> Sound] /\ \A r \in Requests : resp[r] \in AtStage(pc[r])
  BY NewIsBlank, Kinds DEF Init, Unwritten
<1>2. Recorded /\ Named
  BY <1>1, NewIsBlank DEF Init, Recorded, Named
<1>3. Bounded
  BY PipelineAssumption DEF Init, Bounded
<1>4. Counted
  BY DEF Init, Counted, CountedUnderRoute
<1>5. QED
  BY <1>2, <1>3, <1>4 DEF RInv

(* Both invariants hold throughout. *)
LEMMA Invariance == Spec => [](IInv /\ RInv)
<1>1. Init => IInv /\ RInv
  BY InitIInv, InitRInv
<1>2. IInv /\ RInv /\ [Next]_vars => IInv' /\ RInv'
  BY StepIInv, StepRecorded, StepBounded, StepCounted DEF RInv
<1>3. QED
  BY <1>1, <1>2, PTL DEF Spec

(* Stages, ids and counters keep their types, and the limiters their        *)
(* capacities.                                                              *)
THEOREM TypeCorrect == Spec => []TypeOK
<1>1. IInv /\ RInv => TypeOK
  <2> SUFFICES ASSUME IInv, RInv PROVE TypeOK
    OBVIOUS
  <2>1. \A r \in Requests : resp[r].id \in Keys /\ (resp[r].wrote <=> resp[r].status # 0)
    BY DEF RInv, Recorded, Sound, Responses
  <2>2. globalInUse \in 0 .. GlobalMax /\ routeInUse \in [Routes -> 0 .. RouteMax]
    BY PipelineAssumption DEF IInv, Shape, RInv, Bounded
  <2>3. QED
    BY <2>1, <2>2 DEF IInv, Shape, RInv, Counted, TypeOK, Stages
<1>2. QED
  BY <1>1, Invariance, PTL

(* Every request that was not aborted is counted once, under the route that *)
(* it matched, however many run at once and wherever they are turned away.  *)
THEOREM AllCountedUnderRoute == Spec => []CountedUnderRoute
<1>1. RInv => CountedUnderRoute
  BY DEF RInv, Counted
<1>2. QED
  BY <1>1, Invariance, PTL

(* The status that accessLogMiddleware logs and counts is the client's and, *)
(* when the backend answered, the backend's, if it is no 1xx code.          *)
THEOREM FinalStatusIsKept == Spec => []FinalStatusKept
<1>1. RInv => FinalStatusKept
  <2> SUFFICES ASSUME RInv, NEW r \in Requests, pc[r] = "log", LoggedStatus(resp[r]) >= 200
               PROVE  /\ ClientStatus(resp[r]) = LoggedStatus(resp[r])
                      /\ resp[r].final \in {0, ClientStatus(resp[r])}
    BY DEF FinalStatusKept
  <2>1. resp[r] \in Sound /\ resp[r] \in Responses
    BY DEF RInv, Recorded, Sound
  <2>2. QED
    BY <2>1 DEF Sound, Responses, LoggedStatus, ClientStatus
<1>2. QED
  BY <1>1, Invariance, PTL
=============================================================================

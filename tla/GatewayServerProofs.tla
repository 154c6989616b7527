------------------------ MODULE GatewayServerProofs ------------------------
(***************************************************************************)
(* Proofs about GatewayServer, for any number of concurrent reloads and of *)
(* requests.                                                               *)
(*                                                                         *)
(* NothingLeaks is inductive once the types are known and no configuration *)
(* makes the build of a runtime panic: every step that starts a resource   *)
(* or replaces a runtime hands it to Held or to installed in the same      *)
(* step, and what leaves Held is closed.  That a graceful stop releases    *)
(* everything follows with GracefulInv.  ServedRuntimeRuns needs ServedInv *)
(* instead: the runtimes that calls of Reload build, have installed and    *)
(* have replaced are all different, so closing one never hits another.     *)
(***************************************************************************)
EXTENDS GatewayServer, FiniteSetTheorems, TLAPS

(* The types of the reloads are preserved by every step.                   *)
LEMMA ReloadTypeStep ==
    ASSUME ReloadTypes, [Next]_vars PROVE ReloadTypes'
<1> USE ServerAssumption
<1> USE DEF ReloadTypes, At, GoOn, Runtimes, Steps, fields
<1>1. ASSUME UNCHANGED reloads PROVE ReloadTypes'
    BY <1>1 DEF reloads, calls
<1>2. ASSUME NEW r \in Reloaders, BeginReload(r) PROVE ReloadTypes'
    <2>1. begun + 1 \in 0..MaxReloads
        BY <1>2 DEF BeginReload
    <2> QED BY <1>2, <2>1 DEF BeginReload
<1>3. ASSUME NEW r \in Reloaders, NEW file \in Kinds, LoadConfig(r, file)
      PROVE  ReloadTypes'
    <2>1. file \in Configs
        BY DEF Configs
    <2> QED BY <1>3, <2>1 DEF LoadConfig
<1>4. ASSUME NEW r \in Reloaders, Validate(r) PROVE ReloadTypes'
    BY <1>4 DEF Validate
<1>5. ASSUME NEW r \in Reloaders, Build(r) PROVE ReloadTypes'
    BY <1>5 DEF Build, RegisterRoutes, Resources, ResourceKinds
<1>6. ASSUME NEW r \in Reloaders, Swap(r) PROVE ReloadTypes'
    BY <1>6 DEF Swap, CanLock
<1>7. ASSUME NEW r \in Reloaders, StoreHandler(r) PROVE ReloadTypes'
    BY <1>7 DEF StoreHandler
<1>8. ASSUME NEW r \in Reloaders, CloseProxies(r) PROVE ReloadTypes'
    BY <1>8 DEF CloseProxies
<1>9. ASSUME NEW r \in Reloaders, CloseBuckets(r) PROVE ReloadTypes'
    BY <1>9 DEF CloseBuckets
<1>10. ASSUME NEW v \in Viewers, BeginView(v) \/ ViewStep(v) PROVE ReloadTypes'
    BY <1>1, <1>10 DEF BeginView, ViewStep, ReadRoutes, Reply
<1>11. ASSUME NEW q \in Requests, Arrive(q) \/ Enter(q) \/ TurnAway(q) \/ Finish(q)
       PROVE  ReloadTypes'
    BY <1>1, <1>11 DEF Arrive, Enter, TurnAway, Finish
<1>12. CASE StartFails \/ Signal \/ Drained \/ ShutdownTimesOut \/ Collect
    BY <1>1, <1>12 DEF StartFails, Signal, Drained, ShutdownTimesOut, Collect
<1>13. CASE CloseCollected
    BY <1>13 DEF CloseCollected, calls
<1>14. CASE UNCHANGED vars
    BY <1>1, <1>14 DEF vars
<1> QED
    BY <1>2, <1>3, <1>4, <1>5, <1>6, <1>7, <1>8, <1>9, <1>10, <1>11, <1>12, <1>13, <1>14
    DEF Next, ReloadStep, MainStep

(* A step that is not one of a view leaves the views alone.                *)
LEMMA ViewsAlone ==
    ASSUME [Next]_vars, \A v \in Viewers : ~BeginView(v) /\ ~ViewStep(v)
    PROVE  UNCHANGED views
<1>1. ASSUME NEW r \in Reloaders, BeginReload(r) \/ ReloadStep(r) PROVE UNCHANGED views
    BY <1>1 DEF BeginReload, ReloadStep, LoadConfig, Validate, Build, Swap, StoreHandler,
                CloseProxies, CloseBuckets
<1>2. ASSUME NEW q \in Requests, Arrive(q) \/ Enter(q) \/ TurnAway(q) \/ Finish(q)
      PROVE  UNCHANGED views
    BY <1>2 DEF Arrive, Enter, TurnAway, Finish
<1>3. CASE StartFails \/ Signal \/ MainStep
    BY <1>3 DEF StartFails, Signal, MainStep, Drained, ShutdownTimesOut, Collect, CloseCollected
<1> QED BY <1>1, <1>2, <1>3 DEF Next, vars

(* Only Swap takes s.mu for writing.                                       *)
LEMMA LockTaken ==
    ASSUME [Next]_vars, mu = None, \A r \in Reloaders : ~Swap(r)
    PROVE  mu' = None
<1>1. ASSUME NEW r \in Reloaders, BeginReload(r) \/ ReloadStep(r) PROVE mu' = None
    BY <1>1 DEF BeginReload, ReloadStep, LoadConfig, Validate, Build, StoreHandler,
                CloseProxies, CloseBuckets, fields
<1>2. ASSUME NEW q \in Requests, Arrive(q) \/ Enter(q) \/ TurnAway(q) \/ Finish(q)
      PROVE  mu' = None
    BY <1>2 DEF Arrive, Enter, TurnAway, Finish, reloads, fields
<1>3. ASSUME NEW v \in Viewers, BeginView(v) \/ ViewStep(v) PROVE mu' = None
    BY <1>3 DEF BeginView, ViewStep, ReadRoutes, Reply, reloads, fields
<1>4. CASE StartFails \/ Signal \/ MainStep
    BY <1>4 DEF StartFails, Signal, MainStep, Drained, ShutdownTimesOut, Collect,
                CloseCollected, reloads, fields
<1> QED BY <1>1, <1>2, <1>3, <1>4 DEF Next, vars, reloads, fields

(* Readers and the writer exclude each other.                              *)
LEMMA ViewTypeStep ==
    ASSUME ReloadTypes, ViewTypes, [Next]_vars PROVE ViewTypes'
<1>1. ASSUME NEW v \in Viewers, BeginView(v) \/ ViewStep(v) PROVE ViewTypes'
    <2>1. view' \in [Viewers -> {"idle", "reading", "replying"}]
        BY <1>1 DEF ViewTypes, BeginView, ViewStep, ReadRoutes, Reply
    <2>2. limits \in Runtimes /\ installed \in Runtimes /\ 0 \in Runtimes
        BY ServerAssumption DEF ReloadTypes, Runtimes
    <2>3. seen' \in [Viewers -> [limits : Runtimes, routes : Runtimes]]
        <3>1. CASE BeginView(v)
            BY <2>2, <3>1 DEF BeginView, ViewTypes
        <3>2. CASE ReadRoutes(v)
            BY <2>2, <3>2 DEF ReadRoutes, ViewTypes
        <3>3. CASE Reply(v)
            BY <2>2, <3>3 DEF Reply, NothingSeen, ViewTypes
        <3> QED BY <1>1, <3>1, <3>2, <3>3 DEF ViewStep
    <2>4. mu' = mu
        BY <1>1 DEF BeginView, ViewStep, ReadRoutes, Reply, reloads, fields
    <2>5. \A u \in Viewers : view'[u] = "reading" => mu = None
        BY <1>1 DEF ViewTypes, BeginView, ViewStep, ReadRoutes, Reply, CanRLock
    <2> QED BY <2>1, <2>3, <2>4, <2>5 DEF ViewTypes
<1>2. CASE \A v \in Viewers : ~BeginView(v) /\ ~ViewStep(v)
    <2>1. UNCHANGED views
        BY <1>2, ViewsAlone
    <2>2. ASSUME NEW r \in Reloaders, Swap(r) PROVE ViewTypes'
        BY <2>1, <2>2 DEF ViewTypes, views, Swap, CanLock
    <2>3. CASE \A r \in Reloaders : ~Swap(r)
        BY <2>1, <2>3, LockTaken DEF ViewTypes, views
    <2> QED BY <2>2, <2>3
<1> QED BY <1>1, <1>2

(* A step that is not one of a request leaves the requests alone.          *)
LEMMA RequestsAlone ==
    ASSUME [Next]_vars,
           \A q \in Requests : ~Arrive(q) /\ ~Enter(q) /\ ~TurnAway(q) /\ ~Finish(q)
    PROVE  UNCHANGED requests
<1>1. ASSUME NEW r \in Reloaders, BeginReload(r) \/ ReloadStep(r) PROVE UNCHANGED requests
    BY <1>1 DEF BeginReload, ReloadStep, LoadConfig, Validate, Build, Swap, StoreHandler,
                CloseProxies, CloseBuckets
<1>2. ASSUME NEW v \in Viewers, BeginView(v) \/ ViewStep(v) PROVE UNCHANGED requests
    BY <1>2 DEF BeginView, ViewStep, ReadRoutes, Reply
<1>3. CASE StartFails \/ Signal \/ MainStep
    BY <1>3 DEF StartFails, Signal, MainStep, Drained, ShutdownTimesOut, Collect, CloseCollected
<1> QED BY <1>1, <1>2, <1>3 DEF Next, vars

(* A limiter never has more slots in use than its capacity.                *)
LEMMA RequestTypeStep ==
    ASSUME ReloadTypes, RequestTypes, [Next]_vars PROVE RequestTypes'
<1> USE DEF RequestTypes
<1>1. ASSUME NEW q \in Requests, Arrive(q) PROVE RequestTypes'
    BY <1>1 DEF Arrive, ReloadTypes
<1>2. ASSUME NEW q \in Requests, Enter(q) PROVE RequestTypes'
    <2>1. slots[at[q]] + 1 \in 0..Capacity
        BY <1>2, ServerAssumption DEF Enter
    <2> QED BY <1>2, <2>1 DEF Enter
<1>3. ASSUME NEW q \in Requests, TurnAway(q) PROVE RequestTypes'
    BY <1>3, ServerAssumption DEF TurnAway, Runtimes
<1>4. ASSUME NEW q \in Requests, Finish(q) PROVE RequestTypes'
    <2>1. \A n \in 0..Capacity : (IF n > 0 THEN n - 1 ELSE 0) \in 0..Capacity
        BY ServerAssumption
    <2>2. slots' \in [Runtimes -> 0..Capacity]
        BY <1>4, <2>1 DEF Finish, Release
    <2> QED BY <1>4, <2>2, ServerAssumption DEF Finish, Runtimes
<1>5. CASE \A q \in Requests : ~Arrive(q) /\ ~Enter(q) /\ ~TurnAway(q) /\ ~Finish(q)
    BY <1>5, RequestsAlone DEF requests
<1> QED BY <1>1, <1>2, <1>3, <1>4, <1>5

(* The types are preserved by every step.                                  *)
LEMMA TypeStep ==
    ASSUME TypeOK, [Next]_vars PROVE TypeOK'
BY ReloadTypeStep, ViewTypeStep, RequestTypeStep DEF TypeOK

(* The first runtime is built from a sound file.                           *)
LEMMA TypeInit == Init => TypeOK
<1> SUFFICES ASSUME Init PROVE TypeOK
    OBVIOUS
<1> USE ServerAssumption
<1>1. "fine" \in Configs
    BY DEF Configs
<1>2. 0 \in Runtimes
    BY DEF Runtimes
<1> QED
    BY <1>1, <1>2
    DEF Init, TypeOK, ReloadTypes, ViewTypes, RequestTypes, Resources, NothingSeen, At, Steps

(* Type correctness, and mutual exclusion of the sections of Reload that   *)
(* hold s.mu, for any number of calls (Server.Reload).                     *)
THEOREM TypeCorrect == Spec => []TypeOK
BY TypeInit, TypeStep, PTL DEF Spec

(* A resource of any runtime has an owner.                                 *)
Owned(x) == x \in Resources(installed) \/ \E r \in Reloaders : x \in Held(r)

(* A step of one call of Reload leaves what the other calls hold alone.    *)
LEMMA OthersHold ==
    ASSUME TypeOK, NEW r \in Reloaders, NEW s \in Reloaders \ {r}, NEW to,
           GoOn(r, to),
           mine'[s] = mine[s], old'[s] = old[s]
    PROVE  Held(s)' = Held(s)
BY DEF TypeOK, ReloadTypes, Held, GoOn, At, Resources

(* No step loses track of a resource, as long as no build panics.          *)
LEMMA LeakStep ==
    ASSUME "clash" \notin Kinds, TypeOK, NothingLeaks, [Next]_vars
    PROVE  NothingLeaks'
<1>1. SUFFICES ASSUME NEW x \in running' PROVE Owned(x)'
    BY DEF NothingLeaks, Owned
<1>2. x \in running => Owned(x)
    BY DEF NothingLeaks, Owned
<1> DEFINE Same == /\ pc' = pc /\ mine' = mine /\ old' = old
                   /\ installed' = installed /\ running' \subseteq running
<1>3. ASSUME Same PROVE Owned(x)'
    BY <1>2, <1>3 DEF Owned, Held, At, Resources
<1>4. CASE UNCHANGED vars
    BY <1>3, <1>4 DEF vars, reloads, fields, calls
<1>5. ASSUME NEW v \in Viewers, BeginView(v) \/ ReadRoutes(v) \/ Reply(v) PROVE Owned(x)'
    BY <1>3, <1>5 DEF BeginView, ReadRoutes, Reply, reloads, fields, calls
<1>6. ASSUME NEW r \in Reloaders,
             BeginReload(r) \/ (\E file \in Kinds : LoadConfig(r, file)) \/ Validate(r)
      PROVE  Owned(x)'
    <2>1. PICK to : GoOn(r, to)
        BY <1>6 DEF BeginReload, LoadConfig, Validate
    <2>2. Held(r) = {}
        BY <1>6 DEF BeginReload, LoadConfig, Validate, At, Held
    <2>3. running' = running /\ installed' = installed
        BY <1>6 DEF BeginReload, LoadConfig, Validate, fields
    <2>4. ASSUME NEW s \in Reloaders \ {r} PROVE Held(s)' = Held(s)
        <3>1. mine'[s] = mine[s] /\ old'[s] = old[s]
            BY <1>6 DEF BeginReload, LoadConfig, Validate, TypeOK, ReloadTypes
        <3> QED BY <2>1, <3>1, OthersHold
    <2> QED BY <1>2, <2>2, <2>3, <2>4 DEF Owned, Resources
<1>7. ASSUME NEW r \in Reloaders, Build(r) PROVE Owned(x)'
    <2>1. ~Clashes(read[r])
        BY DEF TypeOK, ReloadTypes, Configs, Clashes
    <2>2. GoOn(r, "swap") /\ mine' = mine /\ old' = old /\ installed' = installed
        BY <1>7, <2>1 DEF Build, fields
    <2>3. Held(r) = {}
        BY <1>7 DEF Build, At, Held
    <2>4. Held(r)' = Resources(mine[r])
        BY <2>2 DEF GoOn, At, Held, Resources, TypeOK, ReloadTypes
    <2>5. running' = running \cup Resources(mine[r])
        BY <1>7 DEF Build, RegisterRoutes
    <2>6. ASSUME NEW s \in Reloaders \ {r} PROVE Held(s)' = Held(s)
        BY <2>2, OthersHold
    <2> QED BY <1>2, <2>2, <2>3, <2>4, <2>5, <2>6 DEF Owned, Resources
<1>8. ASSUME NEW r \in Reloaders, Swap(r) PROVE Owned(x)'
    <2>1. /\ GoOn(r, "store") /\ mine' = mine /\ running' = running
          /\ old' = [old EXCEPT ![r] = installed] /\ installed' = mine[r]
        BY <1>8 DEF Swap
    <2>2. Held(r) = Resources(mine[r])
        BY <1>8 DEF Swap, At, Held
    <2>3. Held(r)' = Resources(installed)
        BY <2>1 DEF GoOn, At, Held, Resources, TypeOK, ReloadTypes
    <2>4. Resources(installed)' = Resources(mine[r])
        BY <2>1 DEF Resources
    <2>5. ASSUME NEW s \in Reloaders \ {r} PROVE Held(s)' = Held(s)
        <3>1. old'[s] = old[s]
            BY <2>1 DEF TypeOK, ReloadTypes
        <3> QED BY <2>1, <3>1, OthersHold
    <2> QED BY <1>2, <2>1, <2>2, <2>3, <2>4, <2>5 DEF Owned
<1>9. ASSUME NEW r \in Reloaders, StoreHandler(r) \/ CloseProxies(r) \/ CloseBuckets(r)
      PROVE  Owned(x)'
    <2>1. PICK to : GoOn(r, to)
        BY <1>9 DEF StoreHandler, CloseProxies, CloseBuckets
    <2>2. mine' = mine /\ old' = old /\ installed' = installed
        BY <1>9 DEF StoreHandler, CloseProxies, CloseBuckets, fields
    <2>3. x \in running
        BY <1>9 DEF StoreHandler, CloseProxies, CloseBuckets
    <2>4. x \in Held(r) => x \in Held(r)'
        <3>1. CASE StoreHandler(r)
            BY <3>1, <2>2 DEF StoreHandler, GoOn, At, Held, Resources, TypeOK, ReloadTypes
        <3>2. CASE CloseProxies(r)
            <4>1. Held(r) = Resources(old[r]) /\ Held(r)' = {<<old[r], "buckets">>}
                BY <3>2, <2>2 DEF CloseProxies, GoOn, At, Held, TypeOK, ReloadTypes
            <4> QED BY <3>2, <4>1 DEF CloseProxies, Resources, ResourceKinds
        <3>3. CASE CloseBuckets(r)
            <4>1. Held(r) = {<<old[r], "buckets">>}
                BY <3>3 DEF CloseBuckets, At, Held
            <4> QED BY <3>3, <4>1 DEF CloseBuckets
        <3> QED BY <1>9, <3>1, <3>2, <3>3
    <2>5. ASSUME NEW s \in Reloaders \ {r} PROVE Held(s)' = Held(s)
        BY <2>1, <2>2, OthersHold
    <2> QED BY <1>2, <2>2, <2>3, <2>4, <2>5 DEF Owned, Resources
<1>10. ASSUME NEW q \in Requests, Arrive(q) \/ Enter(q) \/ TurnAway(q) \/ Finish(q)
       PROVE  Owned(x)'
    BY <1>3, <1>10 DEF Arrive, Enter, TurnAway, Finish, reloads, fields, calls
<1>11. CASE StartFails \/ Signal \/ Drained \/ ShutdownTimesOut \/ Collect
    BY <1>3, <1>11 DEF StartFails, Signal, Drained, ShutdownTimesOut, Collect, reloads, fields, calls
<1>12. CASE CloseCollected
    BY <1>3, <1>12 DEF CloseCollected, fields, calls
<1> QED
    BY <1>4, <1>5, <1>6, <1>7, <1>8, <1>9, <1>10, <1>11, <1>12 
    DEF Next, ReloadStep, ViewStep, MainStep

(* However many reloads run concurrently, and whenever the process is told *)
(* to stop, every checker and every bucket that runs belongs to the        *)
(* runtime in force or to a call of Reload that will deal with it, as long *)
(* as no configuration makes buildRuntime panic (Server.Reload).           *)
THEOREM NothingEverLeaks ==
    ASSUME "clash" \notin Kinds
    PROVE  Spec => []NothingLeaks
<1>1. Init => NothingLeaks
    BY DEF Init, NothingLeaks
<1>2. TypeOK /\ NothingLeaks /\ [Next]_vars => NothingLeaks'
    BY LeakStep
<1> QED BY <1>1, <1>2, TypeCorrect, PTL DEF Spec

(* What main() relies on once Shutdown has succeeded: no call of Reload is *)
(* left, none can begin, and the runtime to be closed is the one in force. *)
GracefulInv ==
    /\ phase \in {"collectAgain", "releaseAgain"} => ~graceful
    /\ phase \in {"collect", "release", "stopped"} /\ graceful => ReloadsIdle
    /\ phase = "release" /\ graceful => grabbed = installed
    /\ GracefulStopReleasesAll

(* GracefulInv is inductive given NothingLeaks.                            *)
LEMMA GracefulStep ==
    ASSUME TypeOK, NothingLeaks, GracefulInv, [Next]_vars
    PROVE  GracefulInv'
<1> USE DEF GracefulInv, GracefulStopReleasesAll
<1>1. ASSUME UNCHANGED stop, UNCHANGED <<pc, installed, running>> PROVE GracefulInv'
    BY <1>1 DEF stop, ReloadsIdle
<1>2. CASE UNCHANGED vars
    BY <1>1, <1>2 DEF vars, reloads, fields, calls
<1>3. ASSUME NEW v \in Viewers, BeginView(v) \/ ReadRoutes(v) \/ Reply(v)
      PROVE  GracefulInv'
    BY <1>1, <1>3 DEF BeginView, ReadRoutes, Reply, reloads, fields, calls
<1>4. ASSUME NEW r \in Reloaders, BeginReload(r) PROVE GracefulInv'
    BY <1>4 DEF BeginReload, stop
<1>5. ASSUME NEW r \in Reloaders, ReloadStep(r) PROVE GracefulInv'
    <2>1. pc[r] # "idle"
        BY <1>5 DEF ReloadStep, LoadConfig, Validate, Build, Swap, StoreHandler,
                    CloseProxies, CloseBuckets, At
    <2>2. ~(phase \in {"collect", "release", "stopped"} /\ graceful)
        BY <2>1 DEF ReloadsIdle
    <2>3. UNCHANGED stop
        BY <1>5 DEF ReloadStep, LoadConfig, Validate, Build, Swap, StoreHandler,
                    CloseProxies, CloseBuckets
    <2> QED BY <2>2, <2>3 DEF stop
<1>6. ASSUME NEW q \in Requests, Arrive(q) \/ Enter(q) \/ TurnAway(q) \/ Finish(q)
      PROVE  GracefulInv'
    BY <1>1, <1>6 DEF Arrive, Enter, TurnAway, Finish, reloads, fields, calls
<1>7. CASE StartFails \/ Signal
    BY <1>7 DEF StartFails, Signal
<1>8. CASE Drained
    BY <1>8 DEF Drained, AdminIdle, ReloadsIdle, reloads, calls
<1>9. CASE ShutdownTimesOut
    BY <1>9 DEF ShutdownTimesOut
<1>10. CASE Collect
    BY <1>10 DEF Collect, ReloadsIdle, reloads, fields, calls
<1>11. CASE CloseCollected
    <2>1. CASE phase = "release" /\ graceful
        <3>1. \A r \in Reloaders : Held(r) = {}
            BY <2>1 DEF ReloadsIdle, Held, At
        <3>2. running \subseteq Resources(grabbed)
            BY <2>1, <3>1 DEF NothingLeaks
        <3>3. running' = {}
            BY <1>11, <3>2 DEF CloseCollected
        <3>4. phase' = "stopped" /\ ReloadsIdle'
            BY <1>11, <2>1 DEF CloseCollected, ReloadsIdle, calls
        <3> QED BY <3>3, <3>4
    <2>2. CASE ~(phase = "release" /\ graceful)
        BY <1>11, <2>2 DEF CloseCollected
    <2> QED BY <2>1, <2>2
<1> QED
    BY <1>2, <1>3, <1>4, <1>5, <1>6, <1>7, <1>8, <1>9, <1>10, <1>11
    DEF Next, ViewStep, MainStep

(* When Shutdown returns without an error no checker and no bucket is left *)
(* running, whatever reloads were in progress when the signal came         *)
(* (Server.Shutdown, CloseResource).                                       *)
THEOREM GracefulStopIsClean ==
    ASSUME "clash" \notin Kinds
    PROVE  Spec => []GracefulStopReleasesAll
<1>1. Init => GracefulInv
    BY DEF Init, GracefulInv, GracefulStopReleasesAll
<1>2. TypeOK /\ NothingLeaks /\ GracefulInv /\ [Next]_vars => GracefulInv'
    BY GracefulStep
<1>3. GracefulInv => GracefulStopReleasesAll
    BY DEF GracefulInv
<1> QED BY <1>1, <1>2, <1>3, TypeCorrect, NothingEverLeaks, PTL DEF Spec

Before == {"load", "validate", "build", "swap"}
After == {"store", "closeProxies", "closeBuckets"}

(* The numbers of runtimes are not used twice ...                          *)
Numbered ==
    /\ installed <= begun /\ handler <= begun
    /\ \A r \in Reloaders : mine[r] <= begun /\ old[r] <= begun

(* ... a call of Reload that has not installed its runtime is the only one *)
(* to know it, and a runtime is replaced by one call only ...              *)
Disjoint ==
    /\ \A r \in Reloaders : pc[r] \in Before => mine[r] # installed /\ mine[r] # handler
    /\ \A r \in Reloaders : pc[r] \in After => old[r] # installed
    /\ \A r, s \in Reloaders :
          /\ r # s /\ pc[r] \in Before /\ pc[s] \in Before => mine[r] # mine[s]
          /\ r # s /\ pc[r] \in After /\ pc[s] \in After => old[r] # old[s]
          /\ pc[r] \in Before /\ pc[s] \in After => mine[r] # old[s]

(* ... only inside the lock do the handler and the fields disagree, and    *)
(* the global limiters go with the handler.                                *)
InStep ==
    /\ mu = None => handler = installed
    /\ limits = handler
    /\ \A r \in Reloaders : At(r, "store") => handler = old[r] /\ installed = mine[r]

(* Until CloseResource begins, what is served, what is in the fields and   *)
(* what is about to be installed runs.                                     *)
InUseRuns ==
    phase \in {"serving", "draining", "collect"} =>
        /\ Resources(installed) \subseteq running
        /\ Resources(handler) \subseteq running
        /\ \A r \in Reloaders : At(r, "swap") => Resources(mine[r]) \subseteq running

ServedInv == Numbered /\ Disjoint /\ InStep /\ InUseRuns

(* ServedInv is inductive.                                                 *)
LEMMA ServedStep ==
    ASSUME TypeOK, ServedInv, [Next]_vars
    PROVE  ServedInv'
<1> USE ServerAssumption
<1> USE DEF ServedInv, Numbered, Disjoint, InStep, InUseRuns, Before, After, At, GoOn,
            TypeOK, ReloadTypes, Runtimes, fields
<1>1. ASSUME UNCHANGED reloads,
             phase' \in {"serving", "draining", "collect"} =>
                 phase \in {"serving", "draining", "collect"}
      PROVE  ServedInv'
    BY <1>1 DEF reloads, calls, Resources
<1>2. CASE UNCHANGED vars
    BY <1>1, <1>2 DEF vars, stop
<1>3. ASSUME NEW v \in Viewers, BeginView(v) \/ ReadRoutes(v) \/ Reply(v)
      PROVE  ServedInv'
    BY <1>1, <1>3 DEF BeginView, ReadRoutes, Reply, stop
<1>4. ASSUME NEW r \in Reloaders, BeginReload(r) PROVE ServedInv'
    <2>1. Numbered' /\ InStep'
        BY <1>4 DEF BeginReload
    <2>2. Disjoint'
        BY <1>4 DEF BeginReload
    <2>3. InUseRuns'
        BY <1>4 DEF BeginReload, stop, Resources
    <2> QED BY <2>1, <2>2, <2>3
<1>5. ASSUME NEW r \in Reloaders, (\E file \in Kinds : LoadConfig(r, file)) \/ Validate(r)
      PROVE  ServedInv'
    <2>1. Numbered' /\ InStep'
        BY <1>5 DEF LoadConfig, Validate
    <2>2. Disjoint'
        <3>1. /\ UNCHANGED <<mine, old, installed, handler>>
              /\ \A s \in Reloaders : /\ pc'[s] \in Before => pc[s] \in Before
                                      /\ pc'[s] \in After => pc[s] \in After
            BY <1>5 DEF LoadConfig, Validate
        <3> HIDE DEF Before, After
        <3> QED BY <3>1
    <2>3. /\ UNCHANGED <<installed, handler, mine, running, phase>>
          /\ \A s \in Reloaders : At(s, "swap")' => At(s, "swap")
        BY <1>5 DEF LoadConfig, Validate, stop
    <2>4. InUseRuns'
        BY <2>3 DEF Resources
    <2> QED BY <2>1, <2>2, <2>4
<1>6. ASSUME NEW r \in Reloaders, Build(r) PROVE ServedInv'
    <2>1. Numbered' /\ InStep'
        BY <1>6 DEF Build
    <2>2. Disjoint'
        <3>1. /\ UNCHANGED <<mine, old, installed, handler>>
              /\ \A s \in Reloaders : /\ pc'[s] \in Before => pc[s] \in Before
                                      /\ pc'[s] \in After => pc[s] \in After
            BY <1>6 DEF Build
        <3> HIDE DEF Before, After
        <3> QED BY <3>1
    <2>3. InUseRuns'
        BY <1>6 DEF Build, RegisterRoutes, stop, Resources
    <2> QED BY <2>1, <2>2, <2>3
<1>7. ASSUME NEW r \in Reloaders, Swap(r) PROVE ServedInv'
    <2>1. Numbered' /\ InStep'
        BY <1>7 DEF Swap, CanLock
    <2>2. Disjoint'
        BY <1>7 DEF Swap, CanLock
    <2>3. InUseRuns'
        BY <1>7 DEF Swap, CanLock, stop, Resources
    <2> QED BY <2>1, <2>2, <2>3
<1>8. ASSUME NEW r \in Reloaders, StoreHandler(r) PROVE ServedInv'
    <2>1. Numbered' /\ InStep'
        BY <1>8 DEF StoreHandler
    <2>2. Disjoint'
        BY <1>8 DEF StoreHandler
    <2>3. InUseRuns'
        BY <1>8 DEF StoreHandler, stop, Resources
    <2> QED BY <2>1, <2>2, <2>3
<1>9. ASSUME NEW r \in Reloaders, CloseProxies(r) \/ CloseBuckets(r) PROVE ServedInv'
    <2>1. Numbered' /\ InStep'
        BY <1>9 DEF CloseProxies, CloseBuckets
    <2>2. Disjoint'
        <3>1. /\ UNCHANGED <<mine, old, installed, handler>>
              /\ \A s \in Reloaders : /\ pc'[s] \in Before => pc[s] \in Before
                                      /\ pc'[s] \in After => pc[s] \in After
            BY <1>9 DEF CloseProxies, CloseBuckets
        <3> HIDE DEF Before, After
        <3> QED BY <3>1
    <2>3. old[r] # installed /\ old[r] # handler
        <3>1. old[r] # installed
            BY <1>9 DEF CloseProxies, CloseBuckets
        <3>2. CASE mu = None
            BY <3>1, <3>2
        <3>3. CASE mu # None
            BY <1>9, <3>3 DEF CloseProxies, CloseBuckets
        <3> QED BY <3>1, <3>2, <3>3
    <2>4. \A s \in Reloaders : At(s, "swap") => mine[s] # old[r]
        BY <1>9 DEF CloseProxies, CloseBuckets
    <2>5. /\ \A g : g # old[r] /\ Resources(g) \subseteq running => Resources(g) \subseteq running'
          /\ UNCHANGED <<installed, handler, mine, phase>>
          /\ \A s \in Reloaders : At(s, "swap")' => At(s, "swap")
        BY <1>9 DEF CloseProxies, CloseBuckets, stop, Resources
    <2>6. InUseRuns'
        <3> SUFFICES ASSUME phase' \in {"serving", "draining", "collect"} PROVE InUseRuns'
            OBVIOUS
        <3>1. Resources(installed)' \subseteq running' /\ Resources(handler)' \subseteq running'
            <4>1. Resources(installed)' = Resources(installed) /\ Resources(handler)' = Resources(handler)
                BY <2>5 DEF Resources
            <4> QED BY <2>3, <2>5, <4>1
        <3>2. ASSUME NEW s \in Reloaders, At(s, "swap")' PROVE Resources(mine[s])' \subseteq running'
            <4>1. Resources(mine[s])' = Resources(mine[s])
                BY <2>5 DEF Resources
            <4> QED BY <2>4, <2>5, <3>2, <4>1
        <3> QED BY <3>1, <3>2
    <2> QED BY <2>1, <2>2, <2>6
<1>10. ASSUME NEW q \in Requests, Arrive(q) \/ Enter(q) \/ TurnAway(q) \/ Finish(q)
       PROVE  ServedInv'
    BY <1>1, <1>10 DEF Arrive, Enter, TurnAway, Finish, stop
<1>11. CASE StartFails \/ Signal \/ Drained \/ ShutdownTimesOut \/ Collect
    BY <1>1, <1>11 DEF StartFails, Signal, Drained, ShutdownTimesOut, Collect
<1>12. CASE CloseCollected
    BY <1>12 DEF CloseCollected, calls
<1> QED
    BY <1>2, <1>3, <1>4, <1>5, <1>6, <1>7, <1>8, <1>9, <1>10, <1>11, <1>12
    DEF Next, ReloadStep, ViewStep, MainStep

(* Whatever reloads run at the same time, none closes the checkers or the  *)
(* buckets of the runtime that new requests are given (Server.Reload).     *)
(* This holds for files that make buildRuntime panic as well.              *)
THEOREM ServedAlwaysRuns == Spec => []ServedRuntimeRuns
<1>1. Init => ServedInv
    BY ServerAssumption
    DEF Init, ServedInv, Numbered, Disjoint, InStep, InUseRuns, Before, After, At, Resources
<1>2. TypeOK /\ ServedInv /\ [Next]_vars => ServedInv'
    BY ServedStep
<1>3. ServedInv => ServedRuntimeRuns
    BY DEF ServedInv, InUseRuns, ServedRuntimeRuns
<1> QED BY <1>1, <1>2, <1>3, TypeCorrect, PTL DEF Spec

(* Who reads under s.mu reads the fields of the runtime in force.          *)
ViewInv ==
    /\ \A v \in Viewers : view[v] = "reading" => seen[v].limits = installed
    /\ \A v \in Viewers : view[v] = "replying" => seen[v].limits = seen[v].routes

(* Only Swap replaces the runtime in force.                                *)
LEMMA InstalledStays ==
    ASSUME [Next]_vars, \A r \in Reloaders : ~Swap(r)
    PROVE  installed' = installed
<1>1. ASSUME NEW r \in Reloaders, BeginReload(r) \/ ReloadStep(r) PROVE installed' = installed
    BY <1>1 DEF BeginReload, ReloadStep, LoadConfig, Validate, Build, StoreHandler,
                CloseProxies, CloseBuckets, fields
<1>2. ASSUME NEW q \in Requests, Arrive(q) \/ Enter(q) \/ TurnAway(q) \/ Finish(q)
      PROVE  installed' = installed
    BY <1>2 DEF Arrive, Enter, TurnAway, Finish, reloads, fields
<1>3. ASSUME NEW v \in Viewers, BeginView(v) \/ ViewStep(v) PROVE installed' = installed
    BY <1>3 DEF BeginView, ViewStep, ReadRoutes, Reply, reloads, fields
<1>4. CASE StartFails \/ Signal \/ MainStep
    BY <1>4 DEF StartFails, Signal, MainStep, Drained, ShutdownTimesOut, Collect,
                CloseCollected, reloads, fields
<1> QED BY <1>1, <1>2, <1>3, <1>4 DEF Next, vars, reloads, fields

(* ViewInv is inductive given the lock and that handler and limiters agree *)
(* with the routes whenever s.mu is free.                                  *)
LEMMA ViewInvStep ==
    ASSUME TypeOK, InStep, ViewInv, [Next]_vars
    PROVE  ViewInv'
<1> USE DEF ViewInv
<1>1. ASSUME NEW v \in Viewers, BeginView(v) PROVE ViewInv'
    <2>1. limits = installed /\ installed' = installed
        BY <1>1 DEF BeginView, CanRLock, InStep, reloads, fields
    <2> QED BY <1>1, <2>1 DEF BeginView, TypeOK, ViewTypes
<1>2. ASSUME NEW v \in Viewers, ReadRoutes(v) PROVE ViewInv'
    BY <1>2 DEF ReadRoutes, TypeOK, ViewTypes, reloads, fields
<1>3. ASSUME NEW v \in Viewers, Reply(v) PROVE ViewInv'
    BY <1>3 DEF Reply, TypeOK, ViewTypes, reloads, fields
<1>4. CASE \A v \in Viewers : ~BeginView(v) /\ ~ViewStep(v)
    <2>1. UNCHANGED views
        BY <1>4, ViewsAlone
    <2>2. ASSUME NEW r \in Reloaders, Swap(r) PROVE ViewInv'
        BY <2>1, <2>2 DEF views, Swap, CanLock
    <2>3. CASE \A r \in Reloaders : ~Swap(r)
        BY <2>1, <2>3, InstalledStays DEF views
    <2> QED BY <2>2, <2>3
<1> QED BY <1>1, <1>2, <1>3, <1>4 DEF ViewStep

(* However many admin connections read the statistics while others reload, *)
(* each sees one runtime, and one that is not closed under its eyes        *)
(* (handleAdminStats, Server.Reload).                                      *)
THEOREM ViewsAreConsistent == Spec => []ViewsConsistent
<1>1. Init => ServedInv /\ ViewInv
    BY ServerAssumption
    DEF Init, ServedInv, ViewInv, Numbered, Disjoint, InStep, InUseRuns, Before, After, At,
        Resources
<1>2. TypeOK /\ ServedInv /\ ViewInv /\ [Next]_vars => ServedInv' /\ ViewInv'
    BY ServedStep, ViewInvStep DEF ServedInv
<1>3. ServedInv /\ ViewInv => ViewsConsistent
    BY DEF ServedInv, InUseRuns, ViewInv, ViewsConsistent
<1> QED BY <1>1, <1>2, <1>3, TypeCorrect, PTL DEF Spec

(* One request more or less among those inside a limiter.                  *)
LEMMA CountAdd ==
    ASSUME NEW S \in SUBSET Requests, NEW q \in Requests \ S
    PROVE  Cardinality(S \cup {q}) = Cardinality(S) + 1
BY ServerAssumption, FS_Subset, FS_AddElement

(* Taking one out.                                                         *)
LEMMA CountRemove ==
    ASSUME NEW S \in SUBSET Requests, NEW q \in S
    PROVE  /\ Cardinality(S \ {q}) = Cardinality(S) - 1
           /\ Cardinality(S) \in Nat /\ Cardinality(S \ {q}) \in Nat
BY ServerAssumption, FS_Subset, FS_RemoveElement, FS_CardinalityType

(* A request touches the limiter of its own runtime only.                  *)
LEMMA SlotsStep ==
    ASSUME RequestTypes, SlotsPerRuntime, [Next]_vars
    PROVE  SlotsPerRuntime'
<1> USE DEF RequestTypes
<1>1. ASSUME NEW q \in Requests, Arrive(q) \/ TurnAway(q) PROVE SlotsPerRuntime'
    <2>1. \A g \in Runtimes : Inside(g)' = Inside(g)
        BY <1>1 DEF Arrive, TurnAway, Inside
    <2>2. slots' = slots
        BY <1>1 DEF Arrive, TurnAway
    <2> QED BY <2>1, <2>2 DEF SlotsPerRuntime
<1>2. ASSUME NEW q \in Requests, Enter(q) PROVE SlotsPerRuntime'
    <2>1. PICK g \in Runtimes : g = at[q]
        OBVIOUS
    <2>2. /\ Inside(g)' = Inside(g) \cup {q} /\ q \notin Inside(g)
          /\ \A h \in Runtimes \ {g} : Inside(h)' = Inside(h)
        BY <1>2, <2>1 DEF Enter, Inside
    <2>3. Cardinality(Inside(g)') = Cardinality(Inside(g)) + 1
        <3>1. Inside(g) \in SUBSET Requests
            BY DEF Inside
        <3> QED BY <2>2, <3>1, CountAdd
    <2>4. /\ slots'[g] = slots[g] + 1
          /\ \A h \in Runtimes \ {g} : slots'[h] = slots[h]
        BY <1>2, <2>1 DEF Enter
    <2>5. slots'[g] = Cardinality(Inside(g)')
        BY <2>3, <2>4 DEF SlotsPerRuntime
    <2> QED BY <2>2, <2>4, <2>5 DEF SlotsPerRuntime
<1>3. ASSUME NEW q \in Requests, Finish(q) PROVE SlotsPerRuntime'
    <2>1. PICK g \in Runtimes : g = at[q]
        OBVIOUS
    <2>2. /\ Inside(g)' = Inside(g) \ {q} /\ q \in Inside(g)
          /\ \A h \in Runtimes \ {g} : Inside(h)' = Inside(h)
        BY <1>3, <2>1 DEF Finish, Inside
    <2>3. /\ Cardinality(Inside(g)') = Cardinality(Inside(g)) - 1
          /\ Cardinality(Inside(g)) \in Nat /\ Cardinality(Inside(g)') \in Nat
        <3>1. Inside(g) \in SUBSET Requests
            BY DEF Inside
        <3> QED BY <2>2, <3>1, CountRemove
    <2>4. slots[g] = Cardinality(Inside(g))
        BY DEF SlotsPerRuntime
    <2>5. /\ slots'[g] = IF slots[g] > 0 THEN slots[g] - 1 ELSE 0
          /\ \A h \in Runtimes \ {g} : slots'[h] = slots[h]
        BY <1>3, <2>1 DEF Finish, Release
    <2>6. slots'[g] = Cardinality(Inside(g)')
        BY <2>3, <2>4, <2>5
    <2> QED BY <2>2, <2>5, <2>6 DEF SlotsPerRuntime
<1>4. CASE \A q \in Requests : ~Arrive(q) /\ ~Enter(q) /\ ~TurnAway(q) /\ ~Finish(q)
    <2>1. UNCHANGED requests
        BY <1>4, RequestsAlone
    <2>2. \A g \in Runtimes : Inside(g)' = Inside(g)
        BY <2>1 DEF requests, Inside
    <2> QED BY <2>1, <2>2 DEF requests, SlotsPerRuntime
<1> QED BY <1>1, <1>2, <1>3, <1>4

(* For any number of reloads and requests, the limiter of every runtime,   *)
(* old or in force, counts exactly the requests inside it                  *)
(* (reloadableHandler, concurrency.Middleware).                            *)
THEOREM SlotsStaySeparate == Spec => []SlotsPerRuntime
<1>1. Init => SlotsPerRuntime
    <2> SUFFICES ASSUME Init, NEW g \in Runtimes PROVE slots[g] = Cardinality(Inside(g))
        BY DEF SlotsPerRuntime
    <2>1. Inside(g) = {}
        BY DEF Init, Inside
    <2> QED BY <2>1, FS_EmptySet DEF Init
<1>2. TypeOK /\ SlotsPerRuntime /\ [Next]_vars => SlotsPerRuntime'
    BY SlotsStep DEF TypeOK
<1> QED BY <1>1, <1>2, TypeCorrect, PTL DEF Spec

(* A runtime that is being built or waits to be installed comes from a     *)
(* configuration that has passed the comparison.                           *)
FixedInv ==
    /\ RestartFieldsFixed
    /\ \A r \in Reloaders : At(r, "build") => read[r] # "restart"
    /\ \A r \in Reloaders : At(r, "swap") => conf[mine[r]] # "restart"

(* FixedInv is inductive: it does not matter which configuration a reload  *)
(* was compared with, for all that were ever in force agree.               *)
LEMMA FixedStep ==
    ASSUME ReloadTypes, FixedInv, [Next]_vars
    PROVE  FixedInv'
<1> USE DEF FixedInv, RestartFieldsFixed, At, GoOn, ReloadTypes, fields
<1>1. ASSUME UNCHANGED <<conf, fields, calls>> PROVE FixedInv'
    BY <1>1 DEF calls
<1>2. ASSUME NEW r \in Reloaders, BeginReload(r) PROVE FixedInv'
    BY <1>2 DEF BeginReload
<1>3. ASSUME NEW r \in Reloaders, NEW file \in Kinds, LoadConfig(r, file) PROVE FixedInv'
    BY <1>3 DEF LoadConfig
<1>4. ASSUME NEW r \in Reloaders, Validate(r) PROVE FixedInv'
    BY <1>4 DEF Validate, RestartFieldsEqual
<1>5. ASSUME NEW r \in Reloaders, Build(r) PROVE FixedInv'
    <2>1. \A g \in Runtimes : conf'[g] = conf[g] \/ conf'[g] # "restart"
        BY <1>5 DEF Build
    <2>2. conf'[mine[r]] # "restart"
        BY <1>5 DEF Build
    <2> QED BY <1>5, <2>1, <2>2 DEF Build
<1>6. ASSUME NEW r \in Reloaders, Swap(r) PROVE FixedInv'
    BY <1>6 DEF Swap
<1>7. ASSUME NEW r \in Reloaders, StoreHandler(r) \/ CloseProxies(r) \/ CloseBuckets(r)
      PROVE  FixedInv'
    BY <1>7 DEF StoreHandler, CloseProxies, CloseBuckets
<1>8. ASSUME NEW v \in Viewers, BeginView(v) \/ ViewStep(v) PROVE FixedInv'
    BY <1>1, <1>8 DEF BeginView, ViewStep, ReadRoutes, Reply, reloads
<1>9. ASSUME NEW q \in Requests, Arrive(q) \/ Enter(q) \/ TurnAway(q) \/ Finish(q)
      PROVE  FixedInv'
    BY <1>1, <1>9 DEF Arrive, Enter, TurnAway, Finish, reloads
<1>10. CASE StartFails \/ Signal \/ MainStep
    BY <1>1, <1>10 DEF StartFails, Signal, MainStep, Drained, ShutdownTimesOut, Collect,
                       CloseCollected, reloads
<1>11. CASE UNCHANGED vars
    BY <1>1, <1>11 DEF vars, reloads
<1> QED
    BY <1>2, <1>3, <1>4, <1>5, <1>6, <1>7, <1>8, <1>9, <1>10, <1>11 DEF Next, ReloadStep

(* No sequence of reloads, however they overlap, puts a configuration in   *)
(* force that changes a field fixed until a restart                        *)
(* (validateReloadConfig).                                                 *)
THEOREM RestartFieldsStayFixed == Spec => []RestartFieldsFixed
<1>1. Init => FixedInv
    BY ServerAssumption DEF Init, FixedInv, RestartFieldsFixed, At, Runtimes
<1>2. TypeOK /\ FixedInv /\ [Next]_vars => FixedInv'
    BY FixedStep DEF TypeOK
<1>3. FixedInv => RestartFieldsFixed
    BY DEF FixedInv
<1> QED BY <1>1, <1>2, <1>3, TypeCorrect, PTL DEF Spec
=============================================================================

---------------------------- MODULE LifecycleProofs ----------------------------
(***************************************************************************)
(* What Lifecycle guarantees for any number of plugins, callbacks and      *)
(* requests.                                                               *)
(***************************************************************************)
EXTENDS Lifecycle, FiniteSetTheorems, TLAPS

USE LifecycleAssumption DEF LifecycleAssumption, Plugins

(* TypeOK in three parts, with the bounds of the two loops over plugins:   *)
(* internalRun's goes up to N + 1, stopPlugins' down to 0.                 *)
Flags ==
    /\ Running \in [Plugins -> BOOLEAN]
    /\ doCallbacks \in BOOLEAN /\ timedOut \in BOOLEAN /\ signalled \in BOOLEAN
Names ==
    /\ step \in {"init", "start", "waiting", "stopHttp", "stopPlugins", "callbacks",
                 "stopRunner", "stopEvents", "returned", "crashed"}
    /\ runner \in [Plugins -> {"none", "up", "down"}]
    /\ stage \in [Plugins -> {"new", "inited", "started", "failed", "stopping", "stopped"}]
    /\ eventManager \in {"new", "up", "down"} /\ entityManager \in {"new", "up", "down"}
    /\ http \in {"none", "serving", "failed", "draining", "down"}
    /\ server \in {"dispatching", "cancelled", "returned"}
Numbers ==
    /\ at \in 0..(N + 1)
    /\ handover \in [Plugins -> Nat]
    /\ startFailures \in Nat /\ inFlight \in Nat
    /\ step \in {"init", "start"} => at \in 1..(N + 1)
    /\ step = "stopPlugins" => at \in 0..N
    /\ step \in {"callbacks", "stopRunner"} => at \in 1..N

TypeInv == Flags /\ Names /\ Numbers

(* Type correctness and the bounds of the two loops.                       *)
LEMMA TypeInvHolds == Spec => []TypeInv
<1>1. Init => TypeInv
  <2>1. Init => Flags
    BY DEF Init, Flags
  <2>2. Init => Names
    BY DEF Init, Names
  <2>3. Init => Numbers
    BY DEF Init, Numbers
  <2> QED
    BY <2>1, <2>2, <2>3 DEF TypeInv
<1>2. TypeInv /\ [Next]_vars => TypeInv'
  <2> SUFFICES ASSUME TypeInv, [Next]_vars PROVE TypeInv'
    OBVIOUS
  <2> USE DEF TypeInv, runVars, pluginVars, serviceVars, httpVars
  <2>1. Flags'
    <3> USE DEF vars, Next, StartUp, ShutDown, InitPlugin, InitPanics, StartServices,
                StartPlugin, StartHttpServer, GiveUp, BeginShutdown, HttpStopped, HttpDeadline,
                StopPlugin, StopPluginFails, ReceiveCallback, CallbacksDone, NotRunning,
                StopPluginRunner, StopEntityManager, StopEventManager, CancelDispatcher,
                RunReturns, Signal, ListenFails, RequestArrives, RequestEnds
    <3>1. Running' \in [Plugins -> BOOLEAN]
      BY DEF Flags
    <3>2. doCallbacks' \in BOOLEAN /\ timedOut' \in BOOLEAN /\ signalled' \in BOOLEAN
      BY DEF Flags
    <3> QED
      BY <3>1, <3>2 DEF Flags
  <2>2. Names'
    <3> USE DEF vars, Next, StartUp, ShutDown, InitPlugin, InitPanics, StartServices,
                StartPlugin, StartHttpServer, GiveUp, BeginShutdown, HttpStopped, HttpDeadline,
                StopPlugin, StopPluginFails, ReceiveCallback, CallbacksDone, NotRunning,
                StopPluginRunner, StopEntityManager, StopEventManager, CancelDispatcher,
                RunReturns, Signal, ListenFails, RequestArrives, RequestEnds
    <3>1. runner' \in [Plugins -> {"none", "up", "down"}]
      BY DEF Names
    <3>2. stage' \in [Plugins -> {"new", "inited", "started", "failed", "stopping", "stopped"}]
      BY DEF Names
    <3>3. (step \in {"init", "start", "waiting", "stopHttp", "stopPlugins", "callbacks",
                     "stopRunner", "stopEvents", "returned", "crashed"})'
      BY DEF Names
    <3>4. eventManager' \in {"new", "up", "down"} /\ entityManager' \in {"new", "up", "down"}
      BY DEF Names
    <3>5. http' \in {"none", "serving", "failed", "draining", "down"}
      BY DEF Names
    <3>6. server' \in {"dispatching", "cancelled", "returned"}
      BY DEF Names
    <3> QED
      BY <3>1, <3>2, <3>3, <3>4, <3>5, <3>6 DEF Names
  <2>3. Numbers'
    <3> USE DEF Numbers
    <3>1. CASE InitPlugin
      BY <3>1 DEF InitPlugin
    <3>2. CASE InitPanics
      BY <3>2 DEF InitPanics
    <3>3. CASE StartServices
      BY <3>3 DEF StartServices
    <3>4. CASE StartPlugin
      BY <3>4 DEF StartPlugin
    <3>5. CASE StartHttpServer
      BY <3>5 DEF StartHttpServer
    <3>6. CASE GiveUp
      BY <3>6 DEF GiveUp
    <3>7. CASE BeginShutdown
      BY <3>7 DEF BeginShutdown
    <3>8. CASE HttpStopped \/ HttpDeadline
      BY <3>8 DEF HttpStopped, HttpDeadline
    <3>9. CASE StopPlugin
      BY <3>9 DEF StopPlugin
    <3>10. CASE StopPluginFails
      BY <3>10 DEF StopPluginFails
    <3>11. CASE ReceiveCallback
      BY <3>11 DEF ReceiveCallback
    <3>12. CASE CallbacksDone
      BY <3>12 DEF CallbacksDone
    <3>13. CASE NotRunning
      BY <3>13 DEF NotRunning
    <3>14. CASE StopPluginRunner
      BY <3>14 DEF StopPluginRunner
    <3>15. CASE StopEntityManager \/ StopEventManager
      BY <3>15 DEF StopEntityManager, StopEventManager
    <3>16. CASE CancelDispatcher \/ RunReturns
      BY <3>16 DEF CancelDispatcher, RunReturns
    <3>17. CASE Signal \/ ListenFails
      BY <3>17 DEF Signal, ListenFails
    <3>18. CASE RequestArrives \/ RequestEnds
      BY <3>18 DEF RequestArrives, RequestEnds
    <3>19. CASE UNCHANGED vars
      BY <3>19 DEF vars
    <3> QED
      BY <3>1, <3>2, <3>3, <3>4, <3>5, <3>6, <3>7, <3>8, <3>9, <3>10, <3>11, <3>12, <3>13,
         <3>14, <3>15, <3>16, <3>17, <3>18, <3>19 DEF Next, StartUp, ShutDown
  <2> QED
    BY <2>1, <2>2, <2>3 DEF TypeInv
<1> QED
  BY <1>1, <1>2, PTL DEF Spec

(* Type correctness: each variable keeps to its range.                     *)
THEOREM TypeCorrect == Spec => []TypeOK
<1>1. TypeInv => TypeOK
  BY DEF TypeInv, TypeOK, Flags, Names, Numbers
<1> QED
  BY <1>1, TypeInvHolds, PTL

--------------------------------------------------------------------------------
(* How far a plugin is.                                                    *)
Untouched(p) == runner[p] = "none" /\ stage[p] = "new" /\ ~Running[p]
Waiting(p) == runner[p] = "up" /\ stage[p] = "inited" /\ ~Running[p]
Working(p) == runner[p] = "up" /\ stage[p] = "started" /\ Running[p]
Settled(p) == \/ Working(p)
              \/ runner[p] = "up" /\ stage[p] = "failed" /\ ~Running[p]
Over(p) == stage[p] \in {"stopped", "failed"} /\ ~Running[p]
Gone(p) == Over(p) /\ runner[p] = "down"

(* The inductive invariant: the place internalRun is at decides how far    *)
(* every plugin is, what the services are doing and which requests there   *)
(* may be.                                                                 *)
InStep ==
    /\ step = "init" => /\ \A p \in Plugins : IF p < at THEN Waiting(p) ELSE Untouched(p)
                        /\ startFailures = 0
    /\ step = "start" =>
           /\ \A p \in Plugins : IF p < at THEN Settled(p) ELSE Waiting(p)
           /\ startFailures = 0 => \A p \in Plugins : p < at => Working(p)
    /\ step \in {"waiting", "stopHttp"} => \A p \in Plugins : Working(p)
    /\ step = "stopPlugins" =>
           \A p \in Plugins : IF p <= at THEN Settled(p) ELSE Gone(p)
    /\ step = "callbacks" =>
           /\ runner[at] = "up" /\ stage[at] = "stopping" /\ Running[at]
           /\ \A p \in Plugins : /\ p < at => Settled(p)
                                 /\ p > at => Gone(p)
    /\ step = "stopRunner" =>
           /\ runner[at] = "up" /\ Over(at)
           /\ \A p \in Plugins : /\ p < at => Settled(p)
                                 /\ p > at => Gone(p)
    /\ step \in {"stopEvents", "returned"} => \A p \in Plugins : Gone(p)
    /\ step = "crashed" => \A p \in Plugins : stage[p] \in {"new", "inited"}
    /\ step \in {"start", "waiting", "stopHttp", "stopPlugins", "callbacks", "stopRunner"} =>
           eventManager = "up" /\ entityManager = "up"
    /\ server # "dispatching" => step = "returned"
    /\ step \in {"init", "start", "crashed"} => http = "none"
    /\ http \in {"serving", "draining", "failed"} => step \in {"waiting", "stopHttp"}
    /\ inFlight > 0 => timedOut \/ step \in {"waiting", "stopHttp"}
    /\ http = "none" => inFlight = 0

(* InStep holds at every step: one case per action.                        *)
LEMMA InStepHolds == Spec => []InStep
<1>1. Init => InStep
  BY DEF Init, InStep, Plugins, Untouched
<1>2. TypeInv /\ InStep /\ [Next]_vars => InStep'
  <2> SUFFICES ASSUME TypeInv, InStep, [Next]_vars PROVE InStep'
    OBVIOUS
  <2> USE DEF TypeInv, Flags, Names, Numbers, runVars, pluginVars, serviceVars, httpVars
  <2> USE DEF InStep, Untouched, Waiting, Working, Settled, Over, Gone
  <2>1. CASE InitPlugin
    BY <2>1 DEF InitPlugin
  <2>2. CASE InitPanics
    BY <2>2 DEF InitPanics
  <2>3. CASE StartServices
    BY <2>3 DEF StartServices
  <2>4. CASE StartPlugin
    BY <2>4, SMTT(30) DEF StartPlugin
  <2>5. CASE StartHttpServer
    BY <2>5 DEF StartHttpServer
  <2>6. CASE GiveUp
    BY <2>6 DEF GiveUp
  <2>7. CASE BeginShutdown
    BY <2>7 DEF BeginShutdown
  <2>8. CASE HttpStopped
    BY <2>8 DEF HttpStopped
  <2>9. CASE HttpDeadline
    BY <2>9 DEF HttpDeadline
  <2>10. CASE StopPlugin
    BY <2>10 DEF StopPlugin
  <2>11. CASE StopPluginFails
    BY <2>11 DEF StopPluginFails
  <2>12. CASE ReceiveCallback
    BY <2>12 DEF ReceiveCallback
  <2>13. CASE CallbacksDone
    BY <2>13 DEF CallbacksDone
  <2>14. CASE NotRunning
    BY <2>14 DEF NotRunning
  <2>15. CASE StopPluginRunner
    BY <2>15 DEF StopPluginRunner
  <2>16. CASE StopEntityManager
    BY <2>16 DEF StopEntityManager
  <2>17. CASE StopEventManager
    BY <2>17 DEF StopEventManager
  <2>18. CASE CancelDispatcher \/ RunReturns
    BY <2>18 DEF CancelDispatcher, RunReturns
  <2>19. CASE Signal \/ ListenFails
    BY <2>19, SMTT(30) DEF Signal, ListenFails
  <2>20. CASE RequestArrives \/ RequestEnds
    BY <2>20, SMTT(30) DEF RequestArrives, RequestEnds
  <2>21. CASE UNCHANGED vars
    BY <2>21 DEF vars
  <2> QED
    BY <2>1, <2>2, <2>3, <2>4, <2>5, <2>6, <2>7, <2>8, <2>9, <2>10, <2>11, <2>12,
       <2>13, <2>14, <2>15, <2>16, <2>17, <2>18, <2>19, <2>20, <2>21
    DEF Next, StartUp, ShutDown
<1> QED
  BY <1>1, <1>2, TypeInvHolds, PTL DEF Spec

(* Whoever may run plugin code finds both managers and its runner up.      *)
THEOREM ServicesLast == Spec => []ServicesOutlivePlugins
<1>1. TypeInv /\ InStep => ServicesOutlivePlugins
  <2> SUFFICES ASSUME TypeInv, InStep, NEW p \in Plugins, Active(p)
               PROVE  eventManager = "up" /\ entityManager = "up" /\ runner[p] = "up"
    BY DEF ServicesOutlivePlugins
  <2> USE DEF TypeInv, Names, Numbers, InStep, Active,
              Untouched, Waiting, Working, Settled, Over, Gone
  <2>1. step \in {"start", "waiting", "stopHttp", "stopPlugins", "callbacks", "stopRunner"}
    OBVIOUS
  <2>2. runner[p] = "up"
    BY <2>1
  <2> QED
    BY <2>1, <2>2
<1> QED
  BY <1>1, TypeInvHolds, InStepHolds, PTL

(* No plugin's runner goes down before that of a later one.                *)
THEOREM ReverseOrder == Spec => []LaterPluginsFirst
<1>1. TypeInv /\ InStep => LaterPluginsFirst
  BY DEF TypeInv, Flags, Names, Numbers, InStep, LaterPluginsFirst, Plugins,
         Untouched, Waiting, Working, Settled, Over, Gone
<1> QED
  BY <1>1, TypeInvHolds, InStepHolds, PTL

(* A request that was not given up on finds every plugin active.           *)
THEOREM RequestsServed == Spec => []RequestsSeeLivePlugins
<1>1. TypeInv /\ InStep => RequestsSeeLivePlugins
  BY DEF TypeInv, Flags, Names, Numbers, InStep, RequestsSeeLivePlugins, Active, Working
<1> QED
  BY <1>1, TypeInvHolds, InStepHolds, PTL

--------------------------------------------------------------------------------
(* The plugins that failed to start, counted.                              *)
FailedPlugins == {p \in Plugins : stage[p] = "failed"}
Counted == Cardinality(FailedPlugins) = startFailures

(* startFailures counts the plugins that failed: a plugin fails at most    *)
(* once, in StartPlugin, which counts it, and is not called anything else  *)
(* afterwards.                                                             *)
LEMMA CountedHolds == Spec => []Counted
<1>1. Init => Counted
  <2> SUFFICES ASSUME Init PROVE Counted
    OBVIOUS
  <2>1. FailedPlugins = {}
    BY DEF Init, FailedPlugins
  <2> QED
    BY <2>1, FS_EmptySet DEF Init, Counted
<1>2. TypeInv /\ InStep /\ Counted /\ [Next]_vars => Counted'
  <2> SUFFICES ASSUME TypeInv, InStep, Counted, [Next]_vars PROVE Counted'
    OBVIOUS
  <2> DEFINE Same == FailedPlugins' = FailedPlugins /\ startFailures' = startFailures
  <2>1. CASE StartPlugin
    <3>1. /\ step = "start" /\ at \in Plugins /\ stage[at] = "inited"
          /\ stage \in [Plugins -> {"new", "inited", "started", "failed", "stopping", "stopped"}]
      BY <2>1 DEF StartPlugin, TypeInv, Names, Numbers, InStep, Plugins, Waiting
    <3>2. CASE stage' = [stage EXCEPT ![at] = "started"] /\ startFailures' = startFailures
      <4>1. FailedPlugins' = FailedPlugins
        BY <3>1, <3>2 DEF FailedPlugins
      <4> QED
        BY <3>2, <4>1 DEF Counted
    <3>3. CASE stage' = [stage EXCEPT ![at] = "failed"] /\ startFailures' = startFailures + 1
      <4>1. FailedPlugins' = FailedPlugins \cup {at} /\ at \notin FailedPlugins
        BY <3>1, <3>3 DEF FailedPlugins
      <4>2. IsFiniteSet(FailedPlugins)
        <5>1. IsFiniteSet(Plugins)
          BY FS_Interval DEF Plugins
        <5>2. FailedPlugins \subseteq Plugins
          BY DEF FailedPlugins
        <5> QED
          BY <5>1, <5>2, FS_Subset
      <4>3. Cardinality(FailedPlugins') = Cardinality(FailedPlugins) + 1
        BY <4>1, <4>2, FS_AddElement
      <4> QED
        BY <3>3, <4>3 DEF Counted
    <3> QED
      BY <2>1, <3>2, <3>3 DEF StartPlugin
  <2>2. CASE InitPlugin
    <3>1. step = "init" /\ at \in Plugins /\ stage[at] = "new"
          /\ stage' = [stage EXCEPT ![at] = "inited"] /\ startFailures' = startFailures
      BY <2>2 DEF InitPlugin, TypeInv, Numbers, InStep, Plugins, Untouched
    <3> QED
      BY <3>1 DEF FailedPlugins, Counted, TypeInv, Flags, Names, Numbers
  <2>3. CASE StopPlugin \/ StopPluginFails
    <3>1. step = "stopPlugins" /\ at \in Plugins /\ stage[at] = "started"
      BY <2>3 DEF StopPlugin, StopPluginFails, TypeInv, Numbers, InStep, Plugins, Settled, Working
    <3>2. /\ startFailures' = startFailures
          /\ \/ stage' = [stage EXCEPT ![at] = "stopping"]
             \/ stage' = [stage EXCEPT ![at] = "stopped"]
      BY <2>3 DEF StopPlugin, StopPluginFails
    <3>3. FailedPlugins' = FailedPlugins
      BY <3>1, <3>2 DEF FailedPlugins, TypeInv, Flags, Names, Numbers
    <3> QED
      BY <3>2, <3>3 DEF Counted
  <2>4. CASE CallbacksDone
    <3>1. step = "callbacks" /\ at \in Plugins /\ stage[at] = "stopping"
          /\ stage' = [stage EXCEPT ![at] = "stopped"] /\ startFailures' = startFailures
      BY <2>4 DEF CallbacksDone, TypeInv, Numbers, InStep, Plugins
    <3>2. FailedPlugins' = FailedPlugins
      BY <3>1 DEF FailedPlugins, TypeInv, Flags, Names, Numbers
    <3> QED
      BY <3>1, <3>2 DEF Counted
  <2>5. ASSUME \/ InitPanics \/ StartServices \/ StartHttpServer \/ GiveUp
               \/ BeginShutdown \/ HttpStopped \/ HttpDeadline \/ ReceiveCallback
               \/ NotRunning \/ StopPluginRunner \/ StopEntityManager \/ StopEventManager
               \/ CancelDispatcher \/ RunReturns \/ Signal \/ ListenFails
               \/ RequestArrives \/ RequestEnds \/ UNCHANGED vars
        PROVE  stage' = stage /\ startFailures' = startFailures
    BY <2>5 DEF InitPanics, StartServices, StartHttpServer, GiveUp, BeginShutdown,
                HttpStopped, HttpDeadline, ReceiveCallback, NotRunning, StopPluginRunner,
                StopEntityManager, StopEventManager, CancelDispatcher, RunReturns, Signal,
                ListenFails, RequestArrives, RequestEnds, vars, runVars, pluginVars
  <2>6. ASSUME stage' = stage, startFailures' = startFailures PROVE Counted'
    BY <2>6 DEF Counted, FailedPlugins
  <2> QED
    BY <2>1, <2>2, <2>3, <2>4, <2>5, <2>6 DEF Next, StartUp, ShutDown
<1> QED
  BY <1>1, <1>2, TypeInvHolds, InStepHolds, PTL DEF Spec

(* When Run returns every runner is down, every plugin that started was    *)
(* asked to stop, and those that did not are the ones that were counted.   *)
THEOREM AllBroughtDown == Spec => []EveryPluginBroughtDown
<1>1. TypeInv /\ InStep /\ Counted => EveryPluginBroughtDown
  BY DEF TypeInv, Flags, Names, Numbers, InStep, Counted, FailedPlugins, EveryPluginBroughtDown, Gone, Over
<1> QED
  BY <1>1, TypeInvHolds, InStepHolds, CountedHolds, PTL
================================================================================

------------------------------- MODULE Lifecycle -------------------------------
(***************************************************************************)
(* A run of the server, from Run to its return: src/pmaas.go (Run,         *)
(* internalRun, startHttpServer, stopHttpServer, stopPlugins, stopPlugin), *)
(* the HTTP server's start and stop (src/internal/http/HttpServer.go) and  *)
(* the plugins' runners (src/internal/plugins/PluginWrapper.go).           *)
(*                                                                         *)
(* One goroutine takes the steps of internalRun.  Around it, and at any    *)
(* moment: a signal arrives, requests come and go, the listener fails, and *)
(* a plugin that is stopping hands over its callbacks one by one, from a   *)
(* goroutine of its own that is blocked until each is received.            *)
(***************************************************************************)
EXTENDS Integers, FiniteSets

CONSTANTS N,             \* number of plugins; plugin i is the i-th configured
          MaxCallbacks,  \* bound: callbacks of one plugin's Stop
          MaxRequests    \* bound: HTTP requests being handled at once

Plugins == 1..N

ASSUME LifecycleAssumption ==
    /\ N \in Nat /\ MaxCallbacks \in Nat /\ MaxRequests \in Nat

VARIABLES
    step,        \* where internalRun is
    at,          \* the plugin its loop is at
    runner,      \* runner[p]: the plugin's mailbox, "none", "up" or "down"
    Running,     \* PluginWrapper.Running
    stage,       \* how far p is: "new", "inited", "started", "failed", "stopping", "stopped"
    handover,    \* handover[p]: callbacks a stopping plugin has still to hand over
    doCallbacks, \* stopPlugin still executes them
    startFailures,
    eventManager, entityManager,    \* "new", "up", "down"
    http,        \* "none", "serving", "failed" to listen, "draining", "down"
    inFlight,    \* requests being handled
    timedOut,    \* the ten seconds of stopHttpServer have passed
    signalled,   \* SIGINT or SIGTERM has arrived
    server       \* the server goroutine: in dispatcher.Run ("dispatching"),
                 \* cancelled, or back from Run ("returned")

pluginVars == <<runner, Running, stage, handover>>
serviceVars == <<eventManager, entityManager>>
httpVars == <<http, inFlight, timedOut>>
runVars == <<step, at, doCallbacks, startFailures>>
vars == <<runVars, pluginVars, serviceVars, httpVars, signalled, server>>

Init ==
    /\ step = "init" /\ at = 1
    /\ runner = [p \in Plugins |-> "none"]
    /\ Running = [p \in Plugins |-> FALSE]
    /\ stage = [p \in Plugins |-> "new"]
    /\ handover = [p \in Plugins |-> 0]
    /\ doCallbacks = TRUE /\ startFailures = 0
    /\ eventManager = "new" /\ entityManager = "new"
    /\ http = "none" /\ inFlight = 0 /\ timedOut = FALSE
    /\ signalled = FALSE /\ server = "dispatching"

--------------------------------------------------------------------------------
(* internalRun, starting up.                                               *)

(* StartPluginRunner, then Init on the runner.                             *)
InitPlugin ==
    /\ step = "init" /\ at <= N
    /\ runner' = [runner EXCEPT ![at] = "up"]
    /\ stage' = [stage EXCEPT ![at] = "inited"]
    /\ at' = at + 1
    /\ UNCHANGED <<step, doCallbacks, startFailures, Running, handover, serviceVars,
                   httpVars, signalled, server>>

(* Init failed: the panic runs the deferred stop of every runner that was  *)
(* started, and ends the process.                                          *)
InitPanics ==
    /\ step = "init" /\ at <= N
    /\ runner' = [p \in Plugins |-> IF p <= at THEN "down" ELSE "none"]
    /\ step' = "crashed"
    /\ UNCHANGED <<at, doCallbacks, startFailures, Running, stage, handover, serviceVars,
                   httpVars, signalled, server>>

StartServices ==
    /\ step = "init" /\ at = N + 1
    /\ eventManager' = "up" /\ entityManager' = "up"
    /\ step' = "start" /\ at' = 1
    /\ UNCHANGED <<doCallbacks, startFailures, pluginVars, httpVars, signalled, server>>

StartPlugin ==
    /\ step = "start" /\ at <= N
    /\ at' = at + 1
    /\ \/ /\ stage' = [stage EXCEPT ![at] = "started"]
          /\ Running' = [Running EXCEPT ![at] = TRUE]
          /\ UNCHANGED startFailures
       \/ /\ stage' = [stage EXCEPT ![at] = "failed"]
          /\ startFailures' = startFailures + 1
          /\ UNCHANGED Running
    /\ UNCHANGED <<step, doCallbacks, runner, handover, serviceVars, httpVars, signalled, server>>

(* All started: startHttpServer, and wait for the signal.                  *)
StartHttpServer ==
    /\ step = "start" /\ at = N + 1 /\ startFailures = 0
    /\ http' = "serving"
    /\ step' = "waiting"
    /\ UNCHANGED <<at, doCallbacks, startFailures, pluginVars, serviceVars, inFlight,
                   timedOut, signalled, server>>

(* Faulty variant: the plugins that did start are left as they are.        *)
GiveUpAtOnce ==
    /\ step = "start" /\ at = N + 1 /\ startFailures > 0
    /\ step' = "stopEvents"
    /\ UNCHANGED <<at, doCallbacks, startFailures, pluginVars, serviceVars, httpVars,
                   signalled, server>>

(* Some plugin did not start: no HTTP server, straight to the shutdown.    *)
GiveUp ==
    /\ step = "start" /\ at = N + 1 /\ startFailures > 0
    /\ step' = "stopPlugins" /\ at' = N
    /\ UNCHANGED <<doCallbacks, startFailures, pluginVars, serviceVars, httpVars, signalled, server>>

--------------------------------------------------------------------------------
(* The HTTP server.                                                        *)

(* ListenAndServe returns an error; run blocks handing it to Stop, and     *)
(* nobody is told.                                                         *)
ListenFails ==
    /\ http = "serving" /\ inFlight = 0
    /\ http' = "failed"
    /\ UNCHANGED <<runVars, pluginVars, serviceVars, inFlight, timedOut, signalled, server>>

RequestArrives ==
    /\ http = "serving" /\ inFlight < MaxRequests
    /\ inFlight' = inFlight + 1
    /\ UNCHANGED <<runVars, pluginVars, serviceVars, http, timedOut, signalled, server>>

RequestEnds ==
    /\ inFlight > 0
    /\ inFlight' = inFlight - 1
    /\ UNCHANGED <<runVars, pluginVars, serviceVars, http, timedOut, signalled, server>>

Signal ==
    /\ ~signalled
    /\ signalled' = TRUE
    /\ UNCHANGED <<runVars, pluginVars, serviceVars, httpVars, server>>

(* <-ctx.Done(), then Shutdown: no new request is accepted.                *)
BeginShutdown ==
    /\ step = "waiting" /\ signalled
    /\ step' = "stopHttp"
    /\ http' = IF http = "serving" THEN "draining" ELSE http
    /\ UNCHANGED <<at, doCallbacks, startFailures, pluginVars, serviceVars, inFlight,
                   timedOut, signalled, server>>

(* Faulty variant: Close instead of Shutdown; requests are not waited for. *)
HttpClosed ==
    /\ step = "stopHttp"
    /\ http' = "down"
    /\ step' = "stopPlugins" /\ at' = N
    /\ UNCHANGED <<doCallbacks, startFailures, pluginVars, serviceVars, inFlight,
                   timedOut, signalled, server>>

(* Shutdown returns with no request left, and run's result is received.    *)
HttpStopped ==
    /\ step = "stopHttp" /\ inFlight = 0
    /\ http' = "down"
    /\ step' = "stopPlugins" /\ at' = N
    /\ UNCHANGED <<doCallbacks, startFailures, pluginVars, serviceVars, inFlight,
                   timedOut, signalled, server>>

(* The deadline passes: the requests are left to run.                      *)
HttpDeadline ==
    /\ step = "stopHttp" /\ inFlight > 0
    /\ timedOut' = TRUE
    /\ http' = "down"
    /\ step' = "stopPlugins" /\ at' = N
    /\ UNCHANGED <<doCallbacks, startFailures, pluginVars, serviceVars, inFlight,
                   signalled, server>>

--------------------------------------------------------------------------------
(* stopPlugins, from the last plugin to the first.                         *)

(* Stop on the runner; it returns the channel of n callbacks.              *)
StopPlugin ==
    /\ step = "stopPlugins" /\ at >= 1 /\ Running[at]
    /\ stage' = [stage EXCEPT ![at] = "stopping"]
    /\ \E n \in 0..MaxCallbacks : handover' = [handover EXCEPT ![at] = n]
    /\ step' = "callbacks" /\ doCallbacks' = TRUE
    /\ UNCHANGED <<at, startFailures, runner, Running, serviceVars, httpVars, signalled, server>>

(* Stop failed: its callbacks, if any, are not asked for.                  *)
StopPluginFails ==
    /\ step = "stopPlugins" /\ at >= 1 /\ Running[at]
    /\ stage' = [stage EXCEPT ![at] = "stopped"]
    /\ Running' = [Running EXCEPT ![at] = FALSE]
    /\ step' = "stopRunner"
    /\ UNCHANGED <<at, doCallbacks, startFailures, runner, handover, serviceVars,
                   httpVars, signalled, server>>

(* Faulty variant: the receive is not told that the channel is closed.     *)
ReceiveFromClosed ==
    /\ step = "callbacks"
    /\ handover' = [handover EXCEPT ![at] = @ - 1]
    /\ doCallbacks' \in {FALSE, doCallbacks}
    /\ UNCHANGED <<step, at, startFailures, runner, Running, stage, serviceVars, httpVars,
                   signalled, server>>

(* Faulty variant: nothing is received after a callback that failed.       *)
ReceiveUntilError ==
    /\ step = "callbacks" /\ handover[at] > 0 /\ doCallbacks
    /\ handover' = [handover EXCEPT ![at] = @ - 1]
    /\ doCallbacks' \in {FALSE, doCallbacks}
    /\ UNCHANGED <<step, at, startFailures, runner, Running, stage, serviceVars, httpVars,
                   signalled, server>>

(* One callback is received; it is executed unless an earlier one failed.  *)
ReceiveCallback ==
    /\ step = "callbacks" /\ handover[at] > 0
    /\ handover' = [handover EXCEPT ![at] = @ - 1]
    /\ doCallbacks' \in {FALSE, doCallbacks}
    /\ UNCHANGED <<step, at, startFailures, runner, Running, stage, serviceVars, httpVars,
                   signalled, server>>

(* The channel is closed.                                                  *)
CallbacksDone ==
    /\ step = "callbacks" /\ handover[at] = 0
    /\ stage' = [stage EXCEPT ![at] = "stopped"]
    /\ Running' = [Running EXCEPT ![at] = FALSE]
    /\ step' = "stopRunner"
    /\ UNCHANGED <<at, doCallbacks, startFailures, runner, handover, serviceVars, httpVars,
                   signalled, server>>

(* Faulty variant: the runner of a plugin that is not running is left up.  *)
SkipNotRunning ==
    /\ step = "stopPlugins" /\ at >= 1 /\ ~Running[at]
    /\ at' = at - 1
    /\ UNCHANGED <<step, doCallbacks, startFailures, pluginVars, serviceVars, httpVars,
                   signalled, server>>

NotRunning ==
    /\ step = "stopPlugins" /\ at >= 1 /\ ~Running[at]
    /\ step' = "stopRunner"
    /\ UNCHANGED <<at, doCallbacks, startFailures, pluginVars, serviceVars, httpVars,
                   signalled, server>>

StopPluginRunner ==
    /\ step = "stopRunner"
    /\ runner' = [runner EXCEPT ![at] = "down"]
    /\ step' = "stopPlugins" /\ at' = at - 1
    /\ UNCHANGED <<doCallbacks, startFailures, Running, stage, handover, serviceVars,
                   httpVars, signalled, server>>

(* Faulty variant: the services are stopped before the plugins.            *)
StopServicesFirst ==
    /\ step = "stopPlugins"
    /\ entityManager' = "down"
    /\ step' = "stopEvents"
    /\ UNCHANGED <<at, doCallbacks, startFailures, pluginVars, eventManager, httpVars,
                   signalled, server>>

(* The services, once no plugin is left.  internalRun's deferred loop then *)
(* stops every runner again, which does nothing.                           *)
StopEntityManager ==
    /\ step = "stopPlugins" /\ at = 0
    /\ entityManager' = "down"
    /\ step' = "stopEvents"
    /\ UNCHANGED <<at, doCallbacks, startFailures, pluginVars, eventManager, httpVars,
                   signalled, server>>

StopEventManager ==
    /\ step = "stopEvents"
    /\ eventManager' = "down"
    /\ step' = "returned"
    /\ UNCHANGED <<at, doCallbacks, startFailures, pluginVars, entityManager, httpVars,
                   signalled, server>>

(* Run: dispatcherCancelFn; dispatcher.Run returns; errCh is received.     *)
CancelDispatcher ==
    /\ step = "returned" /\ server = "dispatching"
    /\ server' = "cancelled"
    /\ UNCHANGED <<runVars, pluginVars, serviceVars, httpVars, signalled>>

RunReturns ==
    /\ server = "cancelled"
    /\ server' = "returned"
    /\ UNCHANGED <<runVars, pluginVars, serviceVars, httpVars, signalled>>

StartUp == InitPlugin \/ StartServices \/ StartPlugin \/ StartHttpServer \/ GiveUp
ShutDown == \/ BeginShutdown \/ HttpStopped \/ HttpDeadline
            \/ StopPlugin \/ StopPluginFails \/ ReceiveCallback \/ CallbacksDone
            \/ NotRunning \/ StopPluginRunner \/ StopEntityManager \/ StopEventManager
            \/ CancelDispatcher \/ RunReturns
Ended == server = "returned" \/ step = "crashed"

Next == \/ StartUp \/ InitPanics \/ ShutDown
        \/ Signal \/ ListenFails \/ RequestArrives \/ RequestEnds
        \/ Ended /\ UNCHANGED vars

Spec == Init /\ [][Next]_vars

(* internalRun's goroutine runs, what it waits for on a plugin's runner    *)
(* returns, and a stopping plugin closes its channel.  Nothing is assumed  *)
(* of clients: a request may be handled for ever.                          *)
FairSpec == Spec /\ WF_vars(StartUp) /\ WF_vars(ShutDown)

--------------------------------------------------------------------------------
(* Properties.                                                             *)

(* Each variable keeps to its range. *)
TypeOK ==
    /\ step \in {"init", "start", "waiting", "stopHttp", "stopPlugins", "callbacks",
                 "stopRunner", "stopEvents", "returned", "crashed"}
    /\ at \in 0..(N + 1)
    /\ runner \in [Plugins -> {"none", "up", "down"}]
    /\ Running \in [Plugins -> BOOLEAN]
    /\ stage \in [Plugins -> {"new", "inited", "started", "failed", "stopping", "stopped"}]
    /\ handover \in [Plugins -> Nat]
    /\ doCallbacks \in BOOLEAN /\ startFailures \in Nat
    /\ eventManager \in {"new", "up", "down"} /\ entityManager \in {"new", "up", "down"}
    /\ http \in {"none", "serving", "failed", "draining", "down"}
    /\ inFlight \in Nat /\ timedOut \in BOOLEAN /\ signalled \in BOOLEAN
    /\ server \in {"dispatching", "cancelled", "returned"}

Active(p) == stage[p] \in {"started", "stopping"}

(* Whoever may still run plugin code finds both services: no plugin is     *)
(* started before they are up, or still stopping when they go down.        *)
ServicesOutlivePlugins ==
    \A p \in Plugins : Active(p) => /\ eventManager = "up" /\ entityManager = "up"
                                    /\ runner[p] = "up"

(* Plugins come down in the reverse of the order they are configured in:   *)
(* while one is active, or its callbacks run, every earlier one is there.  *)
LaterPluginsFirst ==
    \A p, q \in Plugins :
        p < q /\ runner[q] = "up" /\ step \notin {"init", "crashed"} => runner[p] = "up"

(* A request is handled only while every plugin is active, unless the      *)
(* deadline for stopping the HTTP server gave up on it.                    *)
RequestsSeeLivePlugins ==
    inFlight > 0 /\ ~timedOut => \A p \in Plugins : Active(p) /\ Running[p]

(* When Run returns no plugin that started is left unstopped, none that    *)
(* failed to start, and there are as many as were counted, was asked to    *)
(* stop, and no runner is up.                                              *)
EveryPluginBroughtDown ==
    server = "returned" =>
        /\ \A p \in Plugins : runner[p] = "down" /\ stage[p] \in {"failed", "stopped"}
        /\ Cardinality({p \in Plugins : stage[p] = "failed"}) = startFailures

(* A signal at any moment, before the plugins are started even, ends the   *)
(* run, and so does a plugin that does not start, signal or none: whatever *)
(* fails on the way, whatever the clients do, and however many callbacks   *)
(* the plugins hand over, each blocked until it is received.               *)
RunEnds == signalled \/ startFailures > 0 ~> Ended
================================================================================

# A TLA+ model of pmaas-core

`pmaas-core` is the server of PMAAS: it runs a list of plugins, gives each a goroutine of its own, carries events
between them, keeps track of the entities they register, serves their pages over HTTP and brings everything up and down
in order. This directory holds a TLA+ model of the parts of it in which goroutines interact or state is kept, the
configurations that check it with TLC, and proofs checked by TLAPS. Source paths are relative to the repository.

## 1. The system

| part | state it keeps | operations | interacts with | what makes it correct |
|---|---|---|---|---|
| dispatcher (`internal/dispatcher`) | `running`, a channel of 50 callbacks, a wait group of writers | `Dispatch`, `Run`, the closer | any goroutine calls `Dispatch`; the main goroutine executes | no send on a closed channel, nothing accepted is lost, order, `Run` returns |
| event manager (`internal/eventmanager`) | receivers by handle, a mailbox, an unbounded queue of deliveries | `BroadcastEvent`, `AddReceiver`, `RemoveReceiver`, `Stop`; its dispatcher goroutine | plugin runners execute the receivers, which may call back | order, at most once, no deadlock, `Stop` drains and is silent afterwards |
| plugin runners (`internal/plugins`) | one mailbox per plugin, `Running` | `Exec*`, start, stop | everybody who runs plugin code | one function at a time; up while anybody may need it |
| entity manager (`internal/entitymanager`) and the info beside it (`entityviews.go`, `pmaas.go`) | a map id → entity in an actor; a map id → name, owner, view under a lock | register, deregister, find, name, give a view | the event manager announces each change | the two maps and the events agree |
| lifecycle (`pmaas.go`) | which plugins are initialised, started, stopped | `Run`, `internalRun`, `stopPlugins`, `stopPlugin` | everything | order of start and stop; the run ends whatever fails |
| HTTP server (`internal/http`) | the listener, the requests in progress | `Start`, `Stop` | plugins' handlers | stopped before the plugins |
| log levels (`internal/logging`) | default, explicit and cached levels | `Logger`, `SetLevel`, `ClearLevel`, `Restore` | the config store | caches follow the settings; settings survive a restart |
| config store (`internal/configstore`) | a file per type | `Save`, `Load` | log levels, plugins | a file is always a whole one that was saved |
| clock (`internal/clock`) | the last minute seen | the driver, `Start`, `Stop` | the event manager | a listener shows the right time; silent after the stop |
| calls between plugins (`entityviews.go`, the stub factories of `pmaas.go`, `containerAdapter.go`, predicates) | nothing of their own: who waits for whom, and the lock of the info map | stub factories, `GetEntityView`, calls of the managers, `EnqueueOnPluginGoRoutine` | every runner, both managers, the shutdown | every wait ends; a plugin finds what it depends on up to its end |
| systemd unit (`service`) | the unit file, its backups, `enabled`, the service | `install`, `uninstall` | the user's editor and `systemctl`, other commands at once | changes by hand are kept; the unit in use is not removed; the file is whole |
| shutdown watch, navigation menu, base URLs, renderers and templates, server status, TLS and root page providers, configuration | none, or fixed before the server runs | | | not modelled, see section 7 |

What is hard here: goroutines that block in each other's mailboxes (every synchronous call runs on somebody else's
goroutine); shutdown, where several queues must be drained in the right order while callers still come; sequences of
steps with no lock around them (registration, saving, replacing the unit); power losses; a wall clock that jumps. `PROJECT.json` lists each of
these hazards at its line, with the property that covers it or why none does.

Not in the repository but used by it: the mailbox and the unbounded channel of `pmaas-common`. The modules assume of
them what `src/` relies on: functions run one at a time in the order they were accepted; a send to a stopped mailbox is
refused; stopping lets what was accepted run and returns when it has; `ExecVoidFn` returns an error when its function could not be run or failed.

## 2. The modules

| module | models | role |
|---|---|---|
| `CallbackQueue` | what the dispatcher promises | abstract |
| `Dispatcher`, `MCDispatcher`, `DispatcherProofs` | `dispatcher.go` | implements `CallbackQueue` |
| `EventBus` | what the event manager promises | abstract |
| `EventManager`, `MCEventManager`, `EventManagerProofs` | `EventManager.go`, with the runners of `PluginWrapper.go` | implements `EventBus` |
| `EntityRegistry`, `MCEntityRegistry`, `EntityRegistryProofs` | registration across `pmaas.go`, `EntityManager.go`, `entityviews.go` | |
| `PluginCalls`, `MCPluginCalls`, `PluginCallsProofs` | the waiting calls of `pmaas.go`, `entityviews.go`, `containerAdapter.go` and both managers | composes the runners, the managers, the lock and the shutdown |
| `Lifecycle`, `MCLifecycle`, `LifecycleProofs` | `Run` and what it calls | composes runners, services and HTTP server |
| `AtomicFile` | what `Save` promises of a file | abstract |
| `ConfigStore`, `MCConfigStore`, `StoreProofs` | `ConfigStore.go` | implements `AtomicFile` |
| `LogSettings`, `MCLogSettings`, `StoreProofs` | `registry.go`, `restoreLogLevels` | extends `ConfigStore`, whose variables and steps it takes; the values stored are settings |
| `Clock`, `MCClock`, `ClockProofs` | `driver.go`, `plugin.go` | |
| `ServiceUnit`, `MCServiceUnit`, `ServiceUnitProofs` | `service.go`, `service_linux.go` | |

Names of variables and actions are those of the source where it has one. An action whose comment begins "Faulty variant"
is not part of any specification: it is the action that follows it with one plausible mistake, and substituting it shows
that a property is not vacuous (`PROJECT.json`, "mutants").

**Dispatcher.** A callback is `<<t, n>>`, the n-th accepted from goroutine `t`, so that counters are enough to say what
was accepted (`sent[t] + todo[t]`) and begun. The read lock that `Dispatch` holds between its check and `Add(1)` is the set
`Readers`; a waiting writer keeps new readers out, as in `sync.RWMutex`. The server goroutine is itself a caller, but only
from inside a callback.

**EventManager.** `inbox` is the mailbox; `wait[c]` says that client `c` is blocked in an `Exec`; a plugin's runner calls
only from the function it executes (`job`). `HandleBroadcastEvent` picks the audience (the predicates) and any order of it
(a Go map). `delivering` is the request for which the dispatcher goroutine waits.

**EntityRegistry.** Each goroutine's registration or deregistration is a sequence of steps (`pc`) with others in between:
manager, info, event. An id registered again is a new generation, so that a stale name, view or event shows.

**Lifecycle.** `step` and `at` are where `internalRun` is. Each call into a plugin may fail. `handover` counts the callbacks a
stopping plugin's goroutine is still to hand over.

**ConfigStore, LogSettings.** A saver's temporary file is torn until written and lost unless synced. `Save` does not sync the directory, so a
rename stays undone on the disk until the system writes it (`WriteBack`): `older` holds what the file was before the latest renames, and a loss of power
may bring any of it back (`PowerLoss`), torn if it was not synced. A killed process (`Killed`) only loses the saves in progress. `LogSettings` makes
and copies a change in one step (the lock) and saves the copy step by step, with the actions of `ConfigStore`. Its properties therefore speak of the
moments at which the lock is free: while `recompute` stores the level of one component after the other, `Enabled`, which takes no lock, may see some of them
changed and others not. Of the settings it keeps a history: those that a start may find because a save of them succeeded last (`promised`), and those
that it may find after a loss of power (`fallback`).

**PluginCalls.** `inbox[a]` is the mailbox of a runner or manager, `job[a]` what its goroutine executes, `waits[t]` whom goroutine
`t` waits for. Code runs on an actor's goroutine only while it executes a function, and any such code may call whom `MayCall` lets
it. `looking` and `writing` are the two sides of `entityInfoMu`; a waiting writer keeps readers out. `at` counts down from the last
plugin through the entity manager to the event manager, as `internalRun` does. A stub factory of a plugin in `Panicking` may panic (`Panic`): nothing is
sent on the channel its caller reads from, so the caller is in `lost` and waits for ever; a view cannot, because `callView` recovers. `EntityRegistry` has the data of the same
operations, `PluginCalls` the waiting.

**ServiceUnit.** A command is a process with a `pc`: it reads the unit, backs it up if it was changed by hand, replaces it (a temporary file and a
rename), and tells systemd; an uninstall asks systemd twice and then removes. Any step may fail and any process may be killed.
A file is the text it was rendered from and the sets of edits made above and below the end of the hash line, which is what
`parseManaged` tells apart. The user edits, starts, stops, enables and disables in between.

**Clock.** Time is in minutes, in a small calendar; a listener updates the year, month, day and hour it shows when told so.

## 3. What each run checks, and its bounds

| run | bounds | shows |
|---|---|---|
| `MCDispatcher` | 2 callers with 2 calls each, batches of 0..2, channel of 2, no nested calls | safety and `CallbackQueue`; `Run` ends, `Dispatch` returns, callbacks run |
| `MCEventManager` | 2 plugins, 2 registrations, 2 events, 1 removal, runners may stop | `EventBus`; calls return, events are served, `Stop` returns |
| `MCEntityRegistry` | 2 ids with a goroutine each, 2 generations, 1 reader, 1 watcher, shutdown at any time | maps, names, views, events and a watcher agree |
| `MCLifecycle` | 3 plugins, 2 callbacks each, 2 requests | order, complete shutdown, the run ends |
| `MCConfigStore` | 3 savers, 2 values, 2 kills or power losses | a file is whole; no litter; `AtomicFile` |
| `MCLogSettings` | 2 nested components, 2 levels and one invalid, 2 goroutines, 2 changes, 1 kill or power loss, any number of orderly restarts, any file at the start | caches follow; what a start restores is what was kept last, whole |
| `MCPluginCalls` | 2 plugins, the second using the first, whose stub factories may panic, a page that uses both, a predicate that calls a plugin; 4 calls | nobody is stuck; waits end; dependencies serve |
| `MCServiceUnit` | 2 commands at once, 2 builds, 2 edits, 3 seconds (symmetric in the first three) | edits are kept; the unit in use stays |
| `MCClock` | 16 minutes with a change of year and an hour that comes twice; the clock set twice | listeners agree; order; stop |

The bounds are the smallest at which the interesting things happen: batches that together overfill a channel of two,
in which order shows; two senders blocked at once, a full channel at the cancellation; two events and two receivers,
so that deliveries could overtake each other, and a handle that could be given out twice; an id registered again while
an earlier deregistration or a reader is in between; a plugin in the middle of the order; two savers besides one that
crashes; four calls, which are enough for a page to wait for a plugin that waits for a plugin that waits for a manager while
another writes the info map; two commands of different builds between which an edit falls, and a third second, because a
backup is named by its second. `Dispatch`'s 50 is a parameter: the proofs are for any capacity. `MCDispatcher` has no nested calls,
because with them `Run` need not end: a callback that calls `Dispatch` while the channel is full blocks the only goroutine that
empties it (a hazard in `PROJECT.json`). The safety of nested calls is covered by the proofs, `MaxCalls[Server]` being arbitrary there.

Three runs end in a violation, each of what the repository says of itself (`PROJECT.json`, "findings"):

* `MCEventManagerStopped`: deliveries to a plugin whose runner has stopped are dropped, though `Stop`'s comment promises
  that every accepted event has been delivered. `internalRun` always stops all runners before the manager.
* `MCEntityRegistryShared`: deregistering an entity between the two steps of its registration leaves its info behind for good.
  (The reverse, an id registered again between the two steps of its deregistration, takes the new entity's info away: a hazard at `pmaas.go:741`.)
* `MCLogSettingsTwo`: two changes of log levels at once can be saved in the wrong order; the later one is gone after a restart, though
  `logging_test.go` says that the level set is the level after it. `KeptAcrossRestarts`, which holds, says what is left of that: a start finds
  the settings of the latest change that was saved or of one that was under way with it.

`MCEntityRegistry` assumes, as the plugins are expected to do, that an id is worked on by one goroutine; the second finding is
what happens otherwise. `MCLogSettings` assumes nothing of the kind: `registry.go` promises to be safe from any goroutine. `MCPluginCalls`
assumes that no set of actors wait for each other in a circle (`Acyclic`): two plugins that call each other's stubs at once, a plugin that calls its own
from its runner, or a predicate that calls the manager it runs on, wait for ever, and nothing in the code prevents it. These hazards are listed
without a property. A stub factory that panics is not excluded: `NobodyIsStuck` and `EveryWaitEnds` except those who wait for its caller, and nobody else.

## 4. Fairness

Runs with liveness use `FairSpec`. Goroutines that can run do run: weak fairness of the loops, handlers and stop sequences. In `PluginCalls`
that is: a mailbox begins what is in it, a function returns or panics once it waits for nothing, a lock that is free is had, the event dispatcher delivers, and
`internalRun` goes on with the stop it has begun.
Strong fairness is used twice, each time for a FIFO queue of goroutines: a sender blocked on the dispatcher's channel
(Go serves blocked senders in order) and a delivery waiting in a plugin's mailbox among the plugin's own work. Callbacks, receivers and
plugin calls are assumed to return unless the model blocks them. Nothing obliges anybody to call, to send a signal, to
cancel, to finish a request or to set the clock.

Deadlock is checked where the system may not stop (the dispatcher, the event manager, the lifecycle, the config store, the systemd unit and the log
levels; a system that has finished stutters explicitly). It is not where running out of bounded calls ends a behaviour: the
entity registry, and the clock at its horizon. In `PluginCalls` a deadlock, or goroutines that wait for each other, would violate
`EveryWaitEnds`, and deadlock is checked besides, except after a
stub factory has panicked, when the rest may come to a stop.

## 5. What is proved

Every theorem holds for all values of the constants that the assumption of its module allows (the ASSUME at the head of each
component). What else a theorem needs is an ASSUME of the theorem itself.

| module | theorem | property | assumed besides |
|---|---|---|---|
| `DispatcherProofs` | `TypeCorrect` | `TypeOK` | |
| | `SendsAreSafe` | `NoSendOnClosed` | |
| | `WaitIsSafe` | `NoAddDuringWait` | |
| | `NothingIsLost` | `NothingLost` | |
| | `ImplementsQueue` | `QueueSpec`: every behaviour is one of `CallbackQueue` | |
| `LifecycleProofs` | `TypeCorrect` | `TypeOK` | |
| | `ServicesLast` | `ServicesOutlivePlugins` | |
| | `ReverseOrder` | `LaterPluginsFirst` | |
| | `RequestsServed` | `RequestsSeeLivePlugins` | |
| | `AllBroughtDown` | `EveryPluginBroughtDown` | |
| `PluginCallsProofs` | `TypeCorrect` | `TypeOK`, with "nobody waits for an answer that is not on its way" | |
| | `DependenciesServed` | `DependenciesServe` | |
| | `NobodyGetsStuck` | `NobodyIsStuck` | |
| `EntityRegistryProofs` | `TypeCorrect` | `TypeOK` | |
| | `InfoIsTheEntitys` | `InfoAgrees` | `OneGoroutinePerId` |
| | `NamesAreFresh` | `NoStaleName` | `OneGoroutinePerId` |
| | `EventsAreAHistory` | `EventsAlternate` | `OneGoroutinePerId` |
| | `WatcherIsInformed` | `WatcherConverges` | `OneGoroutinePerId` |
| `EventManagerProofs` | `TypeCorrect` | `TypeOK` | |
| | `ImplementsEventBus` | `BusSpec`: every behaviour is one of `EventBus` | |
| `StoreProofs`, of the store | `StoreTypeCorrect` | `StoreTypeOK`, which `MCLogSettings` checks as a part of `TypeOK` | |
| | `NothingIsLeftBehind` | `NoLitter` | |
| | `ImplementsAtomicFile` | `AtomicSpec`: every behaviour is one of `AtomicFile` | |
| of the levels | `UsesTheStore` | every behaviour of `LogSettings` is one of `ConfigStore` | |
| | `LevelsFileIsWhole` | `AtomicSpec`, of the levels' file | |
| | `TypeCorrect` | `TypeOK` | |
| | `LevelsAreInForce` | `LevelsFollow` | |
| | `SettingsKept` | `KeptAcrossRestarts` | |
| `ClockProofs` | `TypeCorrect` | `TypeOK` | |
| | `MinutesOnlyIncrease` | `MinutesIncrease` | |
| | `NothingAfterStop` | `SilentWhenStopped` | |
| | `ListenersAgree` | `ListenerAgrees` | `OffsetsChangeOnTheHour` |
| | `LargestComesFirst` | `LargestFirst` | `OffsetsChangeOnTheHour` |
| `ServiceUnitProofs` | `TypeCorrect` | `TypeOK` | |
| | `UnitInUse` | `InUseKept` | |
| | `NoEditLost` | `EditsKept` | |

The bounds of the models (`MaxCalls`, `MaxCrashes`, `Horizon`, ...) are constants too: the theorems hold for any of them.
So every safety property of a passing run, the three refinements included, is a theorem.

Two assumptions of the components deserve a word. `LogSettings` assumes that no way up from a component goes on for ever: the code cuts the last part
off a name to find the component above it, so that every step up is a shorter name. `EventManager` assumes that `None` is neither a pair nor
a dispatch request, which is what a value that stands for "nothing" means.

**EventManager.** The inductive invariant `EInv` has five parts. `Mailbox` counts the requests accepted, handled and waiting by a
function along the mailbox (`Counts`), because a handle or an event is numbered when its request is handled but bounded when it is accepted.
`Line` is the one that matters: the queue, with what was taken from it, holds exactly the pairs that are owed and not over, each
once, in the order of events. `BusSpec` is read off it. A delivery begun is the first that is due (`FirstIsDue`), since everything earlier is over; and when `Stop`
returns, the queue is empty and so nothing is owed (`Stopped` has the order in which mailbox, queue and delivery are drained). The mapping takes a
delivery as begun when the runner begins the receiver, and a dropped one as over.

**Dispatcher.** There are two inductive invariants. `Protocol` is about the lock and the wait group: whoever is sending is in the wait
group; somebody admitted means `running` and a loop that has not marked itself stopped; the channel is closed only with the
writers gone. Neither `NoSendOnClosed` nor `NoAddDuringWait` is inductive without it: that no writer can come back after
`Wait` follows from `running` being false and no reader being left, which only the whole of `Protocol` says. `InOrder` is about
the counters: for each goroutine, what lies in the channel is exactly the callbacks from `begun[t] + 1` to `sent[t]`, in
order. It gives that the head of the channel is the next callback of its goroutine (`HeadIsNext`), which is the step of the refinement
that matters, and that an empty channel means all was begun. `StepCases` splits a step into its actions once for all proofs.

**Lifecycle.** `InStep` says, for every place `internalRun` can be at, how far every plugin is: those before `at` and those behind it
differ, and failed plugins are told from started ones. The four properties are read off it; none of them is inductive alone,
because each speaks of plugins whose turn is several steps away. `Counted` keeps the number of failures equal to the
cardinality of the failed plugins, on which the decision to go on depends.

**PluginCalls.** The types need an argument here: `Answered` (a goroutine that waits has its function in the mailbox or being executed)
is kept by sending, beginning and finishing because mailboxes are FIFO and refuse only before they accept; a panic drops a function, and puts whom it was for in `lost`. `InOrder` is about the shutdown: behind
`at` nothing is accepted, queued or executed, before it everything is open. That a plugin is never refused by an earlier one then
follows, since code runs on its runner only while `at` is not past it. Neither needs `Acyclic`. `NobodyIsStuck` does: it is the safety half of
`EveryWaitEnds`. Take any goroutines that include all that they wait for (`WaitsFor`: calls, the lock, the stops and the dispatcher's queue), one of
them blocked and none of them lost, and suppose that none of them can go on (`CanGoOn`). By `StuckActors` none waits for the lock, and every actor among them that has anything to do
waits for another that has; all these waits are in `MayCall` (`Allowed`), which has no circle. So no actor has anything to do, which leaves `internalRun`, and its stop returns.

**EntityRegistry.** `Agree` ties both maps to where the goroutine working on an id is (`InMaps`), and both to the latest generation.
Without `OneGoroutinePerId` it is not kept, nor are the properties (second finding). `Views` has the other part of `InfoAgrees`, that
a view is its own entity's: what a goroutine knows to have registered is what is there, or what it is about to take away (`KnownOf`). `History` says what the last event of each id is, given where
the goroutine working on it is: between the change of the map and its event, the one before. It gives `EventsAlternate`. `Informed`
follows the watcher: while it listens, an id that nobody is changing or announcing, and of which no event is still to be heard, is as it believes.
`WatcherConverges` is the case in which nothing is left to hear.

**ConfigStore and LogSettings.** `Whole`: a saver past "sync" has written and synced what it was given, so the file is always whole and on the
disk, and so is whatever a loss of power may put back in its place. `UsesTheStore` makes the theorems about `ConfigStore` hold of the levels' file: `LevelsFileIsWhole` says
that a restart finds settings that somebody saved. `SettingsKept` says which: `Promises` keeps what a start would find in the file among those
promised, what a loss of power may bring back among those to fall back on, and what is being saved among the latest change and those that overlap it; and since
what somebody saved has no level that is not valid (`Histories`), it is restored whole (`MadeIsSound`). It needs no assumption on how many goroutines change levels.
`LevelsFollow` does not repeat the loop of `effective`: it asks for the level set nearest above, where what is above a component is what is in every set that holds
it and the parents of its members. That the loop computes this is the lemma `EffectiveIsNearest`, by taking, of the components for which it
would not, one whose parent is not among them; that it ends, so that `Effective` is a function at all, is `EffectiveUp`. `Cached`, the
invariant, then says that every component holds what `effective` gives, and each action that changes a level recomputes them all.

**Clock.** `ChangesAre` says of what `broadcastChanges` puts together that it is sorted by size, ends in the minute, and holds every unit
that shows something else; its last part is the arithmetic of the calendar and is where the offsets matter: two minutes with the
same start of the hour must have the same offset, or an hour could change its offset with no event. Zones change on the full hour, and so does the
instance that TLC checks. `Told` follows the listener through the events of a change.

**ServiceUnit.** `KeptOrSafe`: an edit that is in the unit has been read by whoever is about to save the unit, and is in a backup that will stay
before anyone is about to replace the unit; one that is no longer in the unit is in such a backup. `SafeIn` is the subtle part: a backup is named
by the second, so a later command may overwrite it within that second, and stays safe because it then has read the same edit (an edit takes a second). `Looked`
carries what an uninstall was told up to the removal.

### What is only model-checked

* All liveness: `StopsOnCancel`, `AcceptedRuns`, `CallsReturn`, `StopReturns`, `EventuallyServed`, `RunEnds`, `EveryWaitEnds`. TLAPS does not
  reason about ENABLED, and so not about fairness.
* That the disagreements of the runs that end in a violation do occur: a counterexample is TLC's to find.

## 6. Abstractions to know of

* After a loss of power a file of `ConfigStore` is as after one of the renames since the directory was last written, or as before them; a directory
  that is itself damaged is not modelled. `ServiceUnit` has killed processes but no loss of power: its `WriteFile` does not sync at all.
* A panic in a stub factory is taken to be recovered by the mailbox of `pmaas-common`, the runner going on. If it is not, the process ends, and there
  is nothing left to wait.
* In `LogSettings` what is done under the registry's lock is one step: see section 2.
* What a plugin does inside its functions is reduced to the calls it makes and whether they fail.
* In `EventManager` predicates choose an audience; those that call plugins are in `PluginCalls`, which has no audiences.
* Managers are modelled from their start; calls that plugins make in `Init`, before, are not (hazard at `pmaas.go:276`). `ServicesOutlivePlugins` accordingly
  is about plugins that are started or stopping. It leaves out `Init`, the runners of plugins that did not start, and handlers that go on after the ten seconds.
* `StartServices` of `Lifecycle` has no failure: `internalRun` returns when a manager's `Start` does (`pmaas.go:286`), but neither `Start` ever returns an error.
* `EntityRegistry` has one watcher, who hears the events in order, which `EventManager` shows separately.
* A failing listener of the HTTP server has no request in progress.
* A stopping plugin's `Stop` returns a channel that is closed in the end, as the interface asks; a nil one would block the shutdown.
* `ConfigStore` is about one file: which names share a file is not modelled.
* `ServiceUnit` names backups by increasing seconds: the code uses local time, in which an hour can come twice. A second passes between two edits. An edit above the end
  of the hash line is not noticed by `parseManaged`, and a unit that cannot be read is overwritten without a backup: `EditsKept` makes exceptions of
  both, because the code does lose such changes. "Activating" counts as not active, as `is-active` says. On the up-to-date path systemd is not told. What the commands print is left out.

## 7. Not modelled

* Shutdown watch: it only writes to standard error, and the order of its lines against the end of the step is all there is to it.
* Navigation menu: a list built while plugins are initialised one after the other, sorted in a copy; nothing changes while the server runs.
* Base URLs, renderers and templates, server status: functions of the configuration, a request, or the operating system, without state; lists that are
  fixed after `Init`.
* TLS and root page providers: one assignment each, refused when made already, in the sequential part of the start.
* Configuration: values fixed before `Run`.
* HTTP routing, XSRF validation, static files, content file systems of plugins: handling of one request, without state shared with another.
* Calls on managers that are not started: what a nil mailbox does is up to `pmaas-common`.
* A wall clock finer than minutes, zones whose offset changes within the hour.

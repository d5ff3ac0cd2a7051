------------------------------ MODULE PluginCalls ------------------------------
(***************************************************************************)
(* Who waits for whom.  Plugins, each on the goroutine of its runner       *)
(* (src/internal/plugins/PluginWrapper.go), call each other through stub   *)
(* factories and views (src/pmaas.go, src/entityviews.go) and call the two *)
(* managers; the managers run predicates, which are plugin code, on their  *)
(* own goroutines; the dispatcher of events runs receivers on runners;     *)
(* HTTP handlers call all of them; and the goroutine of internalRun stops  *)
(* them one after the other while all this goes on.                        *)
(*                                                                         *)
(* Every one of these calls blocks the caller until a function has run on  *)
(* somebody else's goroutine.  The mailboxes are those of pmaas-common:    *)
(* FIFO, refusing sends once stopped, Stop waiting for what was accepted.  *)
(***************************************************************************)
EXTENDS Integers, Sequences, FiniteSets

CONSTANTS N,           \* number of plugins; plugin i is the i-th configured
          Entities,    \* the entity manager
          Events,      \* the event manager
          Dispatcher,  \* the goroutine that hands events to receivers
          Main,        \* the goroutine of internalRun
          Outside,     \* goroutines of HTTP handlers
          None,
          MayCall,     \* pairs <<a, b>>: code on a's goroutine may wait for b's
          Panicking,   \* plugins whose stub factories may panic
          MaxCalls     \* bound: calls that plugin code makes, in all

Plugins == 1..N
Managers == {Entities, Events}
Actors == Plugins \cup Managers         \* those with a mailbox
Callers == Actors \cup Outside
Threads == Callers \cup {Dispatcher, Main}

(* What is accepted by a mailbox, with who waits for it.                  *)
Functions == {f \in [kind : {"call", "view", "stub"}, from : Threads \cup {None}] :
                  f.kind = "stub" => f.from # None}

(* In no set of actors can each wait for another of the set.  Without this *)
(* two plugins that use each other's stubs at once, or a predicate that    *)
(* calls the manager which runs it, wait for each other for ever.          *)
Acyclic == \A S \in SUBSET Actors :
               S # {} => \E a \in S : \A b \in S : <<a, b>> \notin MayCall

ASSUME PluginCallsAssumption ==
    /\ N \in Nat /\ MaxCalls \in Nat
    /\ MayCall \subseteq Callers \X Actors /\ Acyclic
    /\ Panicking \subseteq Plugins
    /\ Entities # Events /\ Dispatcher # Main
    /\ None \notin Threads \cup Functions
    /\ {Dispatcher, Main} \cap Callers = {} /\ Actors \cap Outside = {}
    /\ Managers \cap Plugins = {}

VARIABLES
    open,     \* open[a]: a's mailbox accepts functions
    inbox,    \* inbox[a]: functions accepted by a and not begun, each with who waits for it
    job,      \* job[a]: the function that a's goroutine executes, or None
    waits,    \* waits[t]: the actor that goroutine t waits for, or None
    looking,  \* looking[c]: the plugin whose entity c looks up under the read lock, or None
    writing,  \* the goroutines that want the write lock of entityInfoMu
    queue,    \* dispatchEventCh: the plugins that the next receivers are of
    phase,    \* what internalRun does: "running", or, stopping actor number "at",
              \* "stop" (the plugin's Stop and callbacks) or "runner" (its mailbox)
    at,       \* N..1 the plugins, 0 the entity manager, -1 the event manager, -2 done
    lost,     \* history: the goroutines whose stub factory panicked and never answers
    refused,  \* history: pairs <<a, b>>, a call from a's goroutine that b refused
    calls     \* history: calls made, for the bound

vars == <<open, inbox, job, waits, looking, writing, queue, phase, at, lost, refused, calls>>
callVars == <<open, inbox, waits, refused>>
lockVars == <<looking, writing>>
runVars == <<phase, at, lost>>

Init ==
    /\ open = [a \in Actors |-> TRUE]
    /\ inbox = [a \in Actors |-> <<>>]
    /\ job = [a \in Actors |-> None]
    /\ waits = [t \in Threads |-> None]
    /\ looking = [c \in Callers |-> None] /\ writing = {}
    /\ queue = <<>>
    /\ phase = "running" /\ at = N
    /\ lost = {} /\ refused = {} /\ calls = 0

--------------------------------------------------------------------------------
(* Calls.  Code runs on an actor's goroutine while it executes a function, *)
(* and goes on only when what it waits for is there.                       *)

Free(c) == waits[c] = None /\ looking[c] = None /\ c \notin writing
Runs(c) == Free(c) /\ (c \in Actors => job[c] # None)
Counts == calls < MaxCalls /\ calls' = calls + 1

(* Faulty variant: the answer is waited for although the send was refused. *)
AskIgnoringError(t, a, kind) ==
    /\ inbox' = IF open[a] THEN [inbox EXCEPT ![a] = Append(@, [kind |-> kind, from |-> t])]
                ELSE inbox
    /\ waits' = [waits EXCEPT ![t] = a]
    /\ UNCHANGED <<open, refused>>

(* Exec, or Send and a wait for the answer: refused, or accepted and waited for. *)
Ask(t, a, kind) ==
    IF open[a]
    THEN /\ inbox' = [inbox EXCEPT ![a] = Append(@, [kind |-> kind, from |-> t])]
         /\ waits' = [waits EXCEPT ![t] = a]
         /\ UNCHANGED <<open, refused>>
    ELSE /\ refused' = refused \cup {<<t, a>>}
         /\ UNCHANGED <<open, inbox, waits>>

Send(t, a) ==
    IF open[a]
    THEN /\ inbox' = [inbox EXCEPT ![a] = Append(@, [kind |-> "call", from |-> None])]
         /\ UNCHANGED <<open, waits, refused>>
    ELSE /\ refused' = refused \cup {<<t, a>>}
         /\ UNCHANGED <<open, inbox, waits>>

(* The stub factory of an entity of plugin p, which sends its result on a   *)
(* channel, or ExecOnPluginGoRoutine of p.                                 *)
StubFactory(c, p) ==
    /\ Runs(c) /\ <<c, p>> \in MayCall /\ Counts
    /\ \E kind \in {"stub", "call"} : Ask(c, p, kind)
    /\ UNCHANGED <<job, lockVars, queue, runVars>>

(* A call of a manager that is answered: AddEntity, FindEntities, AddReceiver. *)
AskManager(c, m) ==
    /\ Runs(c) /\ <<c, m>> \in MayCall /\ Counts
    /\ Ask(c, m, "call")
    /\ UNCHANGED <<job, lockVars, queue, runVars>>

(* BroadcastEvent, and EnqueueOnPluginGoRoutine on the plugin's own runner. *)
BroadcastEvent(c) ==
    /\ Runs(c) /\ Counts
    /\ Send(c, Events)
    /\ UNCHANGED <<job, lockVars, queue, runVars>>

EnqueueOnPluginGoRoutine(p) ==
    /\ Runs(p) /\ Counts
    /\ Send(p, p)
    /\ UNCHANGED <<job, lockVars, queue, runVars>>

(* getEntityView: the info is read under the read lock, ...                *)
GetEntityView(c, p) ==
    /\ Runs(c) /\ writing = {} /\ <<c, p>> \in MayCall /\ Counts
    /\ looking' = [looking EXCEPT ![c] = p]
    /\ UNCHANGED <<callVars, job, writing, queue, runVars>>

(* ... and the view, after it, on its plugin's runner; or there is none.   *)
RunView(c) ==
    /\ looking[c] # None
    /\ looking' = [looking EXCEPT ![c] = None]
    /\ Ask(c, looking[c], "view") \/ UNCHANGED callVars
    /\ UNCHANGED <<job, writing, queue, runVars, calls>>

(* Faulty variant: the lock is released when the view has been run.        *)
HeldReaders ==
    {c \in Callers : \/ looking[c] # None
                     \/ \E p \in Plugins : job[p] = [kind |-> "view", from |-> c]}

Readers == {c \in Callers : looking[c] # None}

(* setEntityInfo, removeEntityInfo, registerEntityView: a writer waits for *)
(* the readers, and keeps others out while it does.                        *)
WantEntityInfo(c) ==
    /\ Runs(c) /\ Counts
    /\ writing' = writing \cup {c}
    /\ UNCHANGED <<callVars, job, looking, queue, runVars>>

WriteEntityInfo(c) ==
    /\ c \in writing /\ Readers = {}
    /\ writing' = writing \ {c}
    /\ UNCHANGED <<callVars, job, looking, queue, runVars, calls>>

--------------------------------------------------------------------------------
(* The goroutines behind the mailboxes.                                    *)

Begin(a) ==
    /\ job[a] = None /\ inbox[a] # <<>>
    /\ job' = [job EXCEPT ![a] = Head(inbox[a])]
    /\ inbox' = [inbox EXCEPT ![a] = Tail(@)]
    /\ UNCHANGED <<open, waits, refused, lockVars, queue, runVars, calls>>

(* The function returns, and whoever waits for it goes on.  One of the     *)
(* event manager may have been a broadcast: for each receiver its          *)
(* predicate chose, at most one of a plugin here, a request is queued.     *)
Finish(a) ==
    /\ job[a] # None /\ Free(a)
    /\ job' = [job EXCEPT ![a] = None]
    /\ waits' = IF job[a].from = None THEN waits ELSE [waits EXCEPT ![job[a].from] = None]
    /\ \/ UNCHANGED queue
       \/ /\ a = Events /\ job[a].from = None
          /\ \E p \in Plugins : queue' = Append(queue, p)
    /\ UNCHANGED <<open, inbox, refused, lockVars, runVars, calls>>

(* A stub factory panics.  Nothing is sent on its channel, which stays     *)
(* open: the runner goes on, and the caller waits for ever.  callView      *)
(* makes an error of a panic in a view; nothing here does.                 *)
Panic(a) ==
    /\ a \in Panicking /\ job[a] # None /\ job[a].kind = "stub" /\ Free(a)
    /\ job' = [job EXCEPT ![a] = None]
    /\ lost' = lost \cup {job[a].from}
    /\ UNCHANGED <<callVars, lockVars, queue, phase, at, calls>>

(* dispatchEvents: ExecErrorFn; a refused delivery is dropped.             *)
Deliver ==
    /\ waits[Dispatcher] = None /\ queue # <<>>
    /\ queue' = Tail(queue)
    /\ Ask(Dispatcher, Head(queue), "call")
    /\ UNCHANGED <<job, lockVars, runVars, calls>>

--------------------------------------------------------------------------------
(* internalRun, after the signal: stopPlugins, and then the managers.      *)

Signal ==
    /\ phase = "running"
    /\ phase' = IF at \in Plugins THEN "stop" ELSE "runner"
    /\ UNCHANGED <<callVars, job, lockVars, queue, at, lost, calls>>

Stopping == CASE at \in Plugins -> at [] at = 0 -> Entities [] OTHER -> Events

(* stopPlugin: Stop, and any callback after it, is executed on the runner  *)
(* and waited for.  Nothing of it is done for a plugin that is not Running. *)
StopPlugin ==
    /\ phase = "stop" /\ waits[Main] = None
    /\ Counts
    /\ Ask(Main, at, "call")
    /\ UNCHANGED <<job, lockVars, queue, runVars>>

(* Then StopPluginRunner, or the manager's Stop: mailbox.Stop refuses what *)
(* comes now, ...                                                          *)
StopMailbox ==
    /\ phase # "running" /\ at >= -1 /\ waits[Main] = None /\ open[Stopping]
    /\ open' = [open EXCEPT ![Stopping] = FALSE]
    /\ phase' = "runner"
    /\ UNCHANGED <<inbox, waits, refused, job, lockVars, queue, at, lost, calls>>

(* Faulty variant: the stop does not wait for what was accepted.           *)
StoppedAtOnce ==
    /\ phase = "runner" /\ at >= -1 /\ ~open[Stopping]
    /\ at' = at - 1
    /\ phase' = IF at' \in Plugins THEN "stop" ELSE "runner"
    /\ UNCHANGED <<callVars, job, lockVars, queue, lost, calls>>

(* ... and returns when what was accepted has run.  The event manager's    *)
(* then waits for the dispatcher to have emptied its queue.                *)
MailboxStopped ==
    /\ phase = "runner" /\ at >= -1 /\ ~open[Stopping]
    /\ inbox[Stopping] = <<>> /\ job[Stopping] = None
    /\ Stopping = Events => queue = <<>> /\ waits[Dispatcher] = None
    /\ at' = at - 1
    /\ phase' = IF at' \in Plugins THEN "stop" ELSE "runner"
    /\ UNCHANGED <<callVars, job, lockVars, queue, lost, calls>>

PluginCode(c) == \/ \E p \in Plugins : StubFactory(c, p) \/ GetEntityView(c, p)
                 \/ \E m \in Managers : AskManager(c, m)
                 \/ BroadcastEvent(c) \/ WantEntityInfo(c)
                 \/ c \in Plugins /\ EnqueueOnPluginGoRoutine(c)
GoOn(c) == RunView(c) \/ WriteEntityInfo(c)
(* All is stopped, or a goroutine that waits for ever keeps the rest from it. *)
Quiet == (at = -2 \/ lost # {}) /\ UNCHANGED vars

Next == \/ \E c \in Callers : PluginCode(c) \/ GoOn(c)
        \/ \E a \in Actors : Begin(a) \/ Finish(a) \/ Panic(a)
        \/ Deliver \/ Signal \/ StopPlugin \/ StopMailbox \/ MailboxStopped \/ Quiet

Spec == Init /\ [][Next]_vars

(* Goroutines that can run do, a lock that is free is had, and functions   *)
(* end unless they wait: what they call is bounded.                        *)
FairSpec == /\ Spec
            /\ \A c \in Callers : WF_vars(GoOn(c))
            /\ \A a \in Actors : WF_vars(Begin(a)) /\ WF_vars(Finish(a) \/ Panic(a))
            /\ WF_vars(Deliver) /\ WF_vars(StopMailbox) /\ WF_vars(MailboxStopped)

--------------------------------------------------------------------------------
(* Properties.                                                             *)

(* What a's goroutine has to do, or does, for t. *)
Answering(a, t) == \/ job[a] # None /\ job[a].from = t
                   \/ \E k \in DOMAIN inbox[a] : inbox[a][k].from = t

(* Each variable keeps to its range, and nobody waits for an answer that   *)
(* is not on its way, but for the callers of stub factories that panicked.  *)
TypeOK ==
    /\ open \in [Actors -> BOOLEAN]
    /\ inbox \in [Actors -> Seq(Functions)]
    /\ job \in [Actors -> Functions \cup {None}]
    /\ waits \in [Threads -> Actors \cup {None}]
    /\ looking \in [Callers -> Plugins \cup {None}]
    /\ writing \subseteq Callers
    /\ queue \in Seq(Plugins)
    /\ phase \in {"running", "stop", "runner"}
    /\ at \in -2..N
    /\ refused \subseteq Threads \X Actors
    /\ calls \in 0..MaxCalls
    /\ lost \subseteq Threads
    /\ \A t \in Threads \ lost : waits[t] # None => Answering(waits[t], t)

(* Whatever runs on a plugin's runner at whatever moment of the shutdown,  *)
(* be it its own Stop, a view that a page asks for, a stub of another      *)
(* plugin or a receiver that was queued, finds the managers, and every     *)
(* plugin that is configured before its own, accepting calls.              *)
DependenciesServe ==
    \A p \in Plugins, a \in Actors :
        <<p, a>> \in refused => a \in Plugins /\ a >= p

StoppingMailbox == phase = "runner" /\ at >= -1

Blocked(t) == waits[t] # None \/ t \in writing \/ (t = Main /\ StoppingMailbox)

(* Whose goroutines t waits for: to execute what it asked for and what was *)
(* there before, to leave the lock, or to be done with what was accepted.  *)
WaitsFor(t) ==
    (IF waits[t] # None THEN {waits[t]} ELSE {})
    \cup (IF t \in writing THEN Readers ELSE {})
    \cup (IF t = Main /\ StoppingMailbox /\ ~open[Stopping]
          THEN {Stopping} \cup (IF Stopping = Events THEN {Dispatcher} ELSE {}) ELSE {})

(* What t has begun, or has been asked for, it can go on with at once.     *)
CanGoOn(t) ==
    \/ t \in Callers /\ looking[t] # None
    \/ t \in writing /\ Readers = {}
    \/ t \in Actors /\ IF job[t] = None THEN inbox[t] # <<>> ELSE Free(t)
    \/ t = Dispatcher /\ waits[t] = None /\ queue # <<>>
    \/ /\ t = Main /\ StoppingMailbox /\ waits[t] = None
       /\ \/ open[Stopping]
          \/ /\ inbox[Stopping] = <<>> /\ job[Stopping] = None
             /\ Stopping = Events => queue = <<>> /\ waits[Dispatcher] = None

(* At no moment, the shutdown's included, are goroutines stuck on calls,   *)
(* the lock and the stops together: among those that a blocked one waits   *)
(* for, directly or not, there is one that can go on, or one whose stub    *)
(* factory panicked.                                                       *)
NobodyIsStuck ==
    \A S \in SUBSET Threads :
        /\ \A t \in S : WaitsFor(t) \subseteq S
        /\ \E t \in S : Blocked(t)
        /\ S \cap lost = {}
        => \E t \in S : CanGoOn(t)

(* Among those that t waits for, directly or not, is one that waits for a  *)
(* stub factory that panicked.                                             *)
WaitsForLost(t) ==
    \A S \in SUBSET (Threads \ lost) : t \in S => \E u \in S : ~(WaitsFor(u) \subseteq S)

(* As long as plugins do not call each other in circles, every wait ends:  *)
(* a call comes back with an answer or, the callee having stopped, an      *)
(* error; the lock that the views are kept under is had; and each stop in  *)
(* the shutdown returns, whoever still calls whom, up to the last.  Only   *)
(* a stub factory that panics may keep those waiting who wait for its      *)
(* caller.                                                                 *)
EveryWaitEnds == \A t \in Threads : Blocked(t) ~> ~Blocked(t) \/ WaitsForLost(t)
================================================================================

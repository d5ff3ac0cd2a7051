----------------------------- MODULE EventManager ------------------------------
(***************************************************************************)
(* src/internal/eventmanager/EventManager.go, started, with the plugins    *)
(* whose runners (src/internal/plugins/PluginWrapper.go) execute the       *)
(* receivers.  Four kinds of goroutine: the clients that call the manager; *)
(* the manager's mailbox goroutine, which alone touches the registrations; *)
(* the dispatcher goroutine, which hands one delivery at a time to the     *)
(* runner of the receiver's plugin and waits for it; the plugin runners.   *)
(*                                                                         *)
(* A dispatch request is the pair <<i, h>>: the i-th broadcast the manager *)
(* handled, for the receiver with handle h.  The mailboxes are those of    *)
(* pmaas-common: FIFO, a send to a stopped one fails, Stop refuses new     *)
(* sends and lets what is queued run.                                      *)
(***************************************************************************)
EXTENDS Integers, Sequences, FiniteSets

CONSTANTS Plugins,     \* plugins: their runners execute receivers, and call
          Others,      \* goroutines that call the manager, on nobody's runner
          None,        \* no value
          MaxHandles,  \* bound: registrations
          MaxEvents,   \* bound: broadcasts
          MaxRemoves   \* bound: RemoveReceiver calls

Clients == Plugins \cup Others
Handles == 1..MaxHandles

ASSUME EventManagerAssumption ==
    /\ Plugins \cap Others = {}
    /\ MaxHandles \in Nat /\ MaxEvents \in Nat /\ MaxRemoves \in Nat
    /\ None \notin Plugins
    /\ None \notin Nat \X Nat /\ None \notin [pair : Nat \X Nat, plugin : Plugins]

VARIABLES
    inbox,       \* the manager's mailbox: requests accepted, not yet executed
    wait,        \* wait[c]: client c is blocked in AddReceiver or RemoveReceiver
    receivers,   \* receivers[h]: the plugin of registration h, None if there is none
    counter,     \* addReceiverCounter
    queue,       \* dispatchEventCh: pairs <<i, h>>, each with its plugin
    delivering,  \* the request the dispatcher waits for, or None
    dispatcher,  \* the dispatcher goroutine: "running" or "done"
    stop,        \* where the first call of Stop is
    closed,      \* dispatchEventCh is closed
    accepts,     \* accepts[p]: the runner of p accepts work (its mailbox is not stopped)
    job,         \* what the runner of p executes: "none", "own" work, a "receiver"
    audience,    \* history: audience[i], the receivers the i-th broadcast matched
    delivered,   \* history: pairs whose receiver has run
    dropped,     \* history: pairs whose plugin's runner refused them
    asked        \* history: broadcasts and removals requested, for the bounds

managerVars == <<inbox, receivers, counter, queue>>
stopVars == <<stop, closed>>
historyVars == <<audience, delivered, dropped, asked>>
runnerVars == <<accepts, job>>
dispatchVars == <<delivering, dispatcher>>
vars == <<managerVars, wait, dispatchVars, stopVars, runnerVars, historyVars>>

Init ==
    /\ inbox = <<>>
    /\ wait = [c \in Clients |-> FALSE]
    /\ receivers = [h \in Handles |-> None]
    /\ counter = 0
    /\ queue = <<>>
    /\ delivering = None /\ dispatcher = "running"
    /\ stop = "no" /\ closed = FALSE
    /\ accepts = [p \in Plugins |-> TRUE]
    /\ job = [p \in Plugins |-> "none"]
    /\ audience = <<>> /\ delivered = {} /\ dropped = {}
    /\ asked = [broadcast |-> 0, add |-> 0, remove |-> 0]

--------------------------------------------------------------------------------
(* Clients.  A plugin's runner calls from the function it executes.        *)

MayCall(c) == ~wait[c] /\ (c \in Plugins => job[c] # "none")

Ask(kind, bound, request) ==
    /\ stop = "no" /\ asked[kind] < bound
    /\ inbox' = Append(inbox, request)
    /\ asked' = [asked EXCEPT ![kind] = @ + 1]
    /\ UNCHANGED <<receivers, counter, queue, dispatchVars, stopVars, runnerVars,
                   audience, delivered, dropped>>

(* Send: the caller does not wait. *)
BroadcastEvent(c) ==
    /\ MayCall(c)
    /\ Ask("broadcast", MaxEvents, [kind |-> "broadcast"])
    /\ UNCHANGED wait

(* Exec: the caller waits until the handler has run. *)
AddReceiver(c, p) ==
    /\ MayCall(c) /\ (c \in Plugins => p = c)
    /\ Ask("add", MaxHandles, [kind |-> "add", from |-> c, plugin |-> p])
    /\ wait' = [wait EXCEPT ![c] = TRUE]

RemoveReceiver(c, h) ==
    /\ MayCall(c)
    /\ Ask("remove", MaxRemoves, [kind |-> "remove", from |-> c, handle |-> h])
    /\ wait' = [wait EXCEPT ![c] = TRUE]

ClientCall(c) == \/ BroadcastEvent(c)
                 \/ \E p \in Plugins : AddReceiver(c, p)
                 \/ \E h \in Handles : RemoveReceiver(c, h)

--------------------------------------------------------------------------------
(* The manager's mailbox goroutine executes the handlers, one at a time.   *)

Registered == {h \in Handles : receivers[h] # None}

(* The orders in which a Go map of the keys S may be visited. *)
Visits(S) == {q \in [1..Cardinality(S) -> S] :
                \A h \in S : \E k \in DOMAIN q : q[k] = h}

Request(kind) == /\ inbox # <<>> /\ Head(inbox).kind = kind
                 /\ inbox' = Tail(inbox)
                 /\ UNCHANGED <<dispatchVars, stopVars, runnerVars, delivered, dropped, asked>>

(* Faulty variant: receivers that were removed are still looked at.        *)
BroadcastToRemoved ==
    /\ Request("broadcast")
    /\ \E S \in SUBSET (1..counter) : \E q \in Visits(S) :
          /\ audience' = Append(audience, S)
          /\ queue' = queue \o
                 [k \in DOMAIN q |-> [pair |-> <<Len(audience) + 1, q[k]>>,
                                      plugin |-> receivers[q[k]]]]
    /\ UNCHANGED <<receivers, counter, wait>>

(* Faulty variant: the mailbox goroutine itself sees each delivery through *)
(* before it handles the next event.                                       *)
BroadcastInline ==
    /\ Request("broadcast") /\ queue = <<>> /\ delivering = None
    /\ \E S \in SUBSET Registered : \E q \in Visits(S) :
          /\ audience' = Append(audience, S)
          /\ queue' = [k \in DOMAIN q |-> [pair |-> <<Len(audience) + 1, q[k]>>,
                                           plugin |-> receivers[q[k]]]]
    /\ UNCHANGED <<receivers, counter, wait>>

(* The predicates of the registered receivers choose the audience S; one   *)
(* dispatch request per receiver goes to the unbounded queue.              *)
HandleBroadcastEvent ==
    /\ Request("broadcast")
    /\ \E S \in SUBSET Registered : \E q \in Visits(S) :
          /\ audience' = Append(audience, S)
          /\ queue' = queue \o
                 [k \in DOMAIN q |-> [pair |-> <<Len(audience) + 1, q[k]>>,
                                      plugin |-> receivers[q[k]]]]
    /\ UNCHANGED <<receivers, counter, wait>>

(* Faulty variant: the handle is the number of receivers there are.        *)
HandleFromCount ==
    /\ Request("add")
    /\ counter' = counter + 1
    /\ receivers' = [receivers EXCEPT ![Cardinality(Registered) + 1] = Head(inbox).plugin]
    /\ wait' = [wait EXCEPT ![Head(inbox).from] = FALSE]
    /\ UNCHANGED <<queue, audience>>

HandleAddReceiver ==
    /\ Request("add")
    /\ counter' = counter + 1
    /\ receivers' = [receivers EXCEPT ![counter + 1] = Head(inbox).plugin]
    /\ wait' = [wait EXCEPT ![Head(inbox).from] = FALSE]
    /\ UNCHANGED <<queue, audience>>

(* An unknown handle is an error for the caller, and changes nothing.      *)
HandleRemoveReceiver ==
    /\ Request("remove")
    /\ receivers' = [receivers EXCEPT ![Head(inbox).handle] = None]
    /\ wait' = [wait EXCEPT ![Head(inbox).from] = FALSE]
    /\ UNCHANGED <<counter, queue, audience>>

Handle == HandleBroadcastEvent \/ HandleAddReceiver \/ HandleRemoveReceiver

--------------------------------------------------------------------------------
(* dispatchEvents: one request at a time, through ExecErrorFn on the       *)
(* plugin's runner.  A runner that has stopped refuses it: the error is    *)
(* logged and the request is gone.                                         *)

(* Faulty variant: the dispatcher takes nothing once Stop has been called. *)
TakeUntilStopped ==
    /\ stop = "no"
    /\ dispatcher = "running" /\ delivering = None /\ queue # <<>>
    /\ queue' = Tail(queue)
    /\ IF accepts[Head(queue).plugin]
       THEN delivering' = Head(queue) /\ UNCHANGED dropped
       ELSE dropped' = dropped \cup {Head(queue).pair} /\ UNCHANGED delivering
    /\ UNCHANGED <<inbox, receivers, counter, wait, dispatcher, stopVars, runnerVars,
                   audience, delivered, asked>>

TakeRequest ==
    /\ dispatcher = "running" /\ delivering = None /\ queue # <<>>
    /\ queue' = Tail(queue)
    /\ IF accepts[Head(queue).plugin]
       THEN delivering' = Head(queue) /\ UNCHANGED dropped
       ELSE dropped' = dropped \cup {Head(queue).pair} /\ UNCHANGED delivering
    /\ UNCHANGED <<inbox, receivers, counter, wait, dispatcher, stopVars, runnerVars,
                   audience, delivered, asked>>

(* The range over dispatchEventCh ends; doneCh is closed. *)
DispatcherExit ==
    /\ dispatcher = "running" /\ delivering = None /\ queue = <<>> /\ closed
    /\ dispatcher' = "done"
    /\ UNCHANGED <<managerVars, wait, delivering, stopVars, runnerVars, historyVars>>

(* Plugin runners: FIFO mailboxes, one function at a time.                 *)
StartOwnWork(p) ==
    /\ accepts[p] /\ job[p] = "none"
    /\ job' = [job EXCEPT ![p] = "own"]
    /\ UNCHANGED <<managerVars, wait, dispatchVars, stopVars, accepts, historyVars>>

RunReceiver(p) ==
    /\ delivering # None /\ delivering.plugin = p /\ job[p] = "none"
    /\ job' = [job EXCEPT ![p] = "receiver"]
    /\ UNCHANGED <<managerVars, wait, dispatchVars, stopVars, accepts, historyVars>>

FinishOwnWork(p) ==
    /\ job[p] = "own" /\ ~wait[p]
    /\ job' = [job EXCEPT ![p] = "none"]
    /\ UNCHANGED <<managerVars, wait, dispatchVars, stopVars, accepts, historyVars>>

(* The receiver returns, ExecErrorFn returns, the dispatcher goes on.      *)
FinishReceiver(p) ==
    /\ job[p] = "receiver" /\ ~wait[p]
    /\ job' = [job EXCEPT ![p] = "none"]
    /\ delivering' = None
    /\ delivered' = delivered \cup {delivering.pair}
    /\ UNCHANGED <<managerVars, wait, dispatcher, stopVars, accepts, audience, dropped, asked>>

(* StopPluginRunner: new work is refused, accepted work still runs.        *)
StopPluginRunner(p) ==
    /\ accepts[p]
    /\ accepts' = [accepts EXCEPT ![p] = FALSE]
    /\ UNCHANGED <<managerVars, wait, dispatchVars, stopVars, job, historyVars>>

--------------------------------------------------------------------------------
(* Stop.  The first call wins the CompareAndSwap and stops the mailbox.    *)
StopMailbox ==
    /\ stop = "no"
    /\ stop' = "mailbox"
    /\ UNCHANGED <<managerVars, wait, dispatchVars, closed, runnerVars, historyVars>>

(* Faulty variant: the dispatch channel is left open. *)
LeaveDispatchOpen ==
    /\ stop = "mailbox" /\ inbox = <<>>
    /\ stop' = "closing"
    /\ UNCHANGED <<managerVars, wait, dispatchVars, closed, runnerVars, historyVars>>

(* mailbox.Stop() returns once what it accepted has run; then the dispatch *)
(* channel is closed.                                                      *)
CloseDispatch ==
    /\ stop = "mailbox" /\ inbox = <<>>
    /\ stop' = "closing" /\ closed' = TRUE
    /\ UNCHANGED <<managerVars, wait, dispatchVars, runnerVars, historyVars>>

(* <-dispatchDoneCh *)
StopReturn ==
    /\ stop = "closing" /\ dispatcher = "done"
    /\ stop' = "returned"
    /\ UNCHANGED <<managerVars, wait, dispatchVars, closed, runnerVars, historyVars>>

Stopping == CloseDispatch \/ StopReturn
Dispatch == TakeRequest \/ DispatcherExit
Finish(p) == FinishOwnWork(p) \/ FinishReceiver(p)

(* After Stop the plugins may go on with work of their own, or have none.  *)
Quiet == stop = "returned" /\ UNCHANGED vars

Next == \/ \E c \in Clients : ClientCall(c)
        \/ Handle \/ Dispatch \/ StopMailbox \/ Stopping \/ Quiet
        \/ \E p \in Plugins : \/ StartOwnWork(p) \/ RunReceiver(p)
                              \/ Finish(p) \/ StopPluginRunner(p)

Spec == Init /\ [][Next]_vars

(* The manager's own goroutines run; a function on a plugin's runner       *)
(* returns unless it is blocked in the manager; and a runner's FIFO        *)
(* mailbox serves the delivery that waits in it even if the plugin always  *)
(* has other work (strong fairness).  Nobody is obliged to call anything.  *)
Fairness == /\ WF_vars(Handle) /\ WF_vars(Dispatch) /\ WF_vars(Stopping)
            /\ \A p \in Plugins : WF_vars(Finish(p)) /\ SF_vars(RunReceiver(p))

FairSpec == Spec /\ Fairness

--------------------------------------------------------------------------------
(* Properties.                                                             *)

Pairs == (1..MaxEvents) \X Handles

(* Each variable keeps to its range. *)
TypeOK ==
    /\ wait \in [Clients -> BOOLEAN]
    /\ receivers \in [Handles -> Plugins \cup {None}]
    /\ counter \in 0..MaxHandles
    /\ \A k \in DOMAIN queue : queue[k].pair \in Pairs /\ queue[k].plugin \in Plugins
    /\ delivering # None => delivering.pair \in Pairs /\ delivering.plugin \in Plugins
    /\ dispatcher \in {"running", "done"}
    /\ stop \in {"no", "mailbox", "closing", "returned"} /\ closed \in BOOLEAN
    /\ accepts \in [Plugins -> BOOLEAN]
    /\ job \in [Plugins -> {"none", "own", "receiver"}]
    /\ audience \in Seq(SUBSET Handles)
    /\ delivered \cup dropped \subseteq Pairs

Owed == {pr \in (1..Len(audience)) \X Handles : pr[2] \in audience[pr[1]]}

(* Stop's documented promise: when it returns, every event accepted has    *)
(* been delivered to every receiver it was for.                            *)
AllDelivered == stop = "returned" => Owed \subseteq delivered

(* The manager implements EventBus, the mapping taking a delivery as begun *)
(* when the plugin's runner begins to run the receiver: in order, at most  *)
(* once, to receivers registered at the time, and, once Stop has returned, *)
(* nothing any more and nothing left, so that plugins can be torn down.    *)
Bus == INSTANCE EventBus WITH
           Nobody <- None,
           open <- stop # "returned",
           subscribed <- Registered,
           ever <- 1..counter,
           over <- delivered \cup dropped,
           serving <- IF delivering # None /\ job[delivering.plugin] = "receiver"
                      THEN delivering.pair ELSE None
BusSpec == Bus!Spec

(* A client blocked in AddReceiver or RemoveReceiver gets its answer, even *)
(* a receiver that registers another from inside a delivery, and even      *)
(* while the manager is being stopped.                                     *)
CallsReturn == \A c \in Clients : wait[c] ~> ~wait[c]

(* Stop returns, whatever is queued and whoever is calling.                *)
StopReturns == stop = "mailbox" ~> stop = "returned"

(* Every event reaches each receiver of its audience, or is refused by a   *)
(* runner that has stopped; a busy plugin only delays it.  Events being    *)
(* bounded, that is to say that again and again none is owed.              *)
EventuallyServed == []<>(Owed \subseteq delivered \cup dropped)
================================================================================

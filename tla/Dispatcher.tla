------------------------------ MODULE Dispatcher -------------------------------
(***************************************************************************)
(* src/internal/dispatcher/dispatcher.go: a bounded channel of callbacks,  *)
(* written by any goroutine through Dispatch and emptied by the server     *)
(* goroutine, which executes the callbacks inside Run until its context is *)
(* cancelled, then stops the ingress and drains what was accepted.         *)
(*                                                                         *)
(* A callback is the pair <<t, n>>: the n-th callback accepted from thread *)
(* t.  The server goroutine is itself a thread that may call Dispatch, but *)
(* only from inside a callback it executes.                                *)
(***************************************************************************)
EXTENDS Integers, Sequences, FiniteSets

CONSTANTS Callers,    \* the goroutines, other than the server's, that call Dispatch
          Server,     \* the server goroutine, the one that calls Run
          Cap,        \* capacity of callbackCh (50 in the code)
          MaxBatch,   \* bound: the longest batch handed to one Dispatch
          MaxCalls,   \* bound: the Dispatch calls each thread makes
          None        \* no callback

Threads == Callers \cup {Server}

ASSUME DispatcherAssumption ==
    /\ Server \notin Callers
    /\ Cap \in Nat \ {0}
    /\ MaxBatch \in Nat
    /\ MaxCalls \in [Threads -> Nat]
    /\ None \notin Threads \X Nat

VARIABLES
    running,          \* Dispatcher.running
    callbackCh,       \* the contents of Dispatcher.callbackCh
    chClosed,         \* callbackCh has been closed
    writers,          \* callbackChWriters: the threads between Add(1) and Done
    pc,               \* where each thread is in Dispatch
    todo,             \* what each thread still has to send of its batch
    calls,            \* the calls each thread has made
    sent,             \* how many callbacks each thread has sent
    loop,             \* where the server goroutine is in Run
    current,          \* the callback the server goroutine executes, or None
    closer,           \* the goroutine that closes callbackCh
    cancelled,        \* the context given to Run has been cancelled
    begun             \* history: how many callbacks of each thread have started

callerVars == <<pc, todo, calls, sent, writers>>
loopVars == <<loop, current, begun>>
vars == <<running, callbackCh, chClosed, closer, cancelled, callerVars, loopVars>>

--------------------------------------------------------------------------------
(* rwLock.  Dispatch holds the read lock from its check of running to its  *)
(* Add(1).  A writer that waits keeps new readers out (sync.RWMutex).      *)

Readers == {t \in Threads : pc[t] = "admitted"}
WriterWaits == loop \in {"starting", "stopping"}

(* The server goroutine is free to run Dispatch only inside a callback.    *)
MayCall(t) == t = Server => current # None

Init ==
    /\ running = FALSE
    /\ callbackCh = <<>>
    /\ chClosed = FALSE
    /\ writers = {}
    /\ pc = [t \in Threads |-> "idle"]
    /\ todo = [t \in Threads |-> 0]
    /\ calls = [t \in Threads |-> 0]
    /\ sent = [t \in Threads |-> 0]
    /\ loop = "new"
    /\ current = None
    /\ closer = "none"
    /\ cancelled = FALSE
    /\ begun = [t \in Threads |-> 0]

--------------------------------------------------------------------------------
(* Dispatch(callbacks), by thread t.                                       *)

(* RLock, and running is false: RUnlock and return the error.              *)
Reject(t) ==
    /\ pc[t] = "idle" /\ MayCall(t) /\ calls[t] < MaxCalls[t]
    /\ ~WriterWaits
    /\ ~running
    /\ calls' = [calls EXCEPT ![t] = @ + 1]
    /\ UNCHANGED <<running, callbackCh, chClosed, closer, cancelled, pc, todo,
                   sent, writers, loopVars>>

(* RLock, and running is true: go on, still holding the read lock.         *)
Admit(t) ==
    /\ pc[t] = "idle" /\ MayCall(t) /\ calls[t] < MaxCalls[t]
    /\ ~WriterWaits
    /\ running
    /\ calls' = [calls EXCEPT ![t] = @ + 1]
    /\ pc' = [pc EXCEPT ![t] = "admitted"]
    /\ UNCHANGED <<running, callbackCh, chClosed, closer, cancelled, todo,
                   sent, writers, loopVars>>

(* callbackChWriters.Add(1), RUnlock; the batch of n callbacks is now      *)
(* accepted.                                                               *)
Register(t, n) ==
    /\ pc[t] = "admitted"
    /\ writers' = writers \cup {t}
    /\ todo' = [todo EXCEPT ![t] = n]
    /\ pc' = [pc EXCEPT ![t] = "sending"]
    /\ UNCHANGED <<running, callbackCh, chClosed, closer, cancelled, calls,
                   sent, loopVars>>

(* Faulty variant: the channel has no capacity. *)
SendPastCapacity(t) ==
    /\ pc[t] = "sending" /\ todo[t] > 0
    /\ callbackCh' = Append(callbackCh, <<t, sent[t] + 1>>)
    /\ sent' = [sent EXCEPT ![t] = @ + 1]
    /\ todo' = [todo EXCEPT ![t] = @ - 1]
    /\ UNCHANGED <<running, chClosed, closer, cancelled, pc, calls, writers,
                   loopVars>>

(* d.callbackCh <- callback, which blocks while the channel is full.       *)
SendCallback(t) ==
    /\ pc[t] = "sending" /\ todo[t] > 0
    /\ Len(callbackCh) < Cap
    /\ callbackCh' = Append(callbackCh, <<t, sent[t] + 1>>)
    /\ sent' = [sent EXCEPT ![t] = @ + 1]
    /\ todo' = [todo EXCEPT ![t] = @ - 1]
    /\ UNCHANGED <<running, chClosed, closer, cancelled, pc, calls, writers,
                   loopVars>>

(* Faulty variant: no deferred Done. *)
ReturnWithoutDone(t) ==
    /\ pc[t] = "sending" /\ todo[t] = 0
    /\ pc' = [pc EXCEPT ![t] = "idle"]
    /\ UNCHANGED <<running, callbackCh, chClosed, closer, cancelled, todo,
                   calls, sent, writers, loopVars>>

(* Return nil; the deferred callbackChWriters.Done() runs.                 *)
Return(t) ==
    /\ pc[t] = "sending" /\ todo[t] = 0
    /\ writers' = writers \ {t}
    /\ pc' = [pc EXCEPT ![t] = "idle"]
    /\ UNCHANGED <<running, callbackCh, chClosed, closer, cancelled, todo,
                   calls, sent, loopVars>>

Call(t) == Reject(t) \/ Admit(t)
Proceed(t) == (\E n \in 0..MaxBatch : Register(t, n)) \/ Return(t)

--------------------------------------------------------------------------------
(* Run(ctx), on the server goroutine.                                      *)

(* rwLock.Lock() before the loop.                                          *)
StartRun ==
    /\ loop = "new"
    /\ loop' = "starting"
    /\ UNCHANGED <<running, callbackCh, chClosed, closer, cancelled, callerVars,
                   current, begun>>

(* The write lock is granted: running = true, Unlock.                      *)
MarkRunning ==
    /\ loop = "starting" /\ Readers = {}
    /\ running' = TRUE
    /\ loop' = "serving"
    /\ UNCHANGED <<callbackCh, chClosed, closer, cancelled, callerVars,
                   current, begun>>

(* Faulty variant: the newest callback first. *)
ReceiveNewest ==
    /\ loop \in {"serving", "draining"} /\ current = None
    /\ callbackCh # <<>>
    /\ LET last == Len(callbackCh) IN
          /\ current' = callbackCh[last]
          /\ callbackCh' = SubSeq(callbackCh, 1, last - 1)
          /\ begun' = [begun EXCEPT ![callbackCh[last][1]] = @ + 1]
    /\ UNCHANGED <<running, chClosed, closer, cancelled, callerVars, loop>>

(* Faulty variant: nothing is executed after the cancellation. *)
ReceiveWhileServing ==
    /\ loop = "serving" /\ current = None
    /\ callbackCh # <<>>
    /\ current' = Head(callbackCh)
    /\ callbackCh' = Tail(callbackCh)
    /\ begun' = [begun EXCEPT ![Head(callbackCh)[1]] = @ + 1]
    /\ UNCHANGED <<running, chClosed, closer, cancelled, callerVars, loop>>

(* A callback is received, by the select or by the draining range.         *)
Receive ==
    /\ loop \in {"serving", "draining"} /\ current = None
    /\ callbackCh # <<>>
    /\ current' = Head(callbackCh)
    /\ callbackCh' = Tail(callbackCh)
    /\ begun' = [begun EXCEPT ![Head(callbackCh)[1]] = @ + 1]
    /\ UNCHANGED <<running, chClosed, closer, cancelled, callerVars, loop>>

(* executeCallback returns: the callback did, or its panic was recovered.  *)
FinishCallback ==
    /\ current # None /\ pc[Server] = "idle"
    /\ current' = None
    /\ UNCHANGED <<running, callbackCh, chClosed, closer, cancelled, callerVars,
                   loop, begun>>

(* The select takes ctx.Done(); rwLock.Lock().                             *)
ObserveCancel ==
    /\ loop = "serving" /\ current = None /\ cancelled
    /\ loop' = "stopping"
    /\ UNCHANGED <<running, callbackCh, chClosed, closer, cancelled, callerVars,
                   current, begun>>

(* Faulty variant: running is cleared without the write lock. *)
MarkStoppedUnlocked ==
    /\ loop = "stopping"
    /\ running' = FALSE
    /\ closer' = "waiting"
    /\ loop' = "draining"
    /\ UNCHANGED <<callbackCh, chClosed, cancelled, callerVars, current, begun>>

(* The write lock is granted: running = false, Unlock; the closer starts.  *)
MarkStopped ==
    /\ loop = "stopping" /\ Readers = {}
    /\ running' = FALSE
    /\ closer' = "waiting"
    /\ loop' = "draining"
    /\ UNCHANGED <<callbackCh, chClosed, cancelled, callerVars, current, begun>>

(* Faulty variant: draining ends when the channel is empty, closed or not. *)
EndDrainWhenEmpty ==
    /\ loop = "draining" /\ current = None
    /\ callbackCh = <<>>
    /\ loop' = "returned"
    /\ UNCHANGED <<running, callbackCh, chClosed, closer, cancelled, callerVars,
                   current, begun>>

(* The range over callbackCh ends: it is closed and empty.                 *)
EndDrain ==
    /\ loop = "draining" /\ current = None
    /\ callbackCh = <<>> /\ chClosed
    /\ loop' = "returned"
    /\ UNCHANGED <<running, callbackCh, chClosed, closer, cancelled, callerVars,
                   current, begun>>

(* Faulty variant: the closer does not wait. *)
CloseAtOnce ==
    /\ closer = "waiting"
    /\ closer' = "closing"
    /\ UNCHANGED <<running, callbackCh, chClosed, cancelled, callerVars, loopVars>>

(* The closer: callbackChWriters.Wait() returns, then close(callbackCh).   *)
WaitForWriters ==
    /\ closer = "waiting" /\ writers = {}
    /\ closer' = "closing"
    /\ UNCHANGED <<running, callbackCh, chClosed, cancelled, callerVars, loopVars>>

CloseChannel ==
    /\ closer = "closing"
    /\ chClosed' = TRUE
    /\ closer' = "done"
    /\ UNCHANGED <<running, callbackCh, cancelled, callerVars, loopVars>>

(* dispatcherCancelFn, called once internalRun has returned (src/pmaas.go). *)
CancelContext ==
    /\ ~cancelled
    /\ cancelled' = TRUE
    /\ UNCHANGED <<running, callbackCh, chClosed, closer, callerVars, loopVars>>

RunLoop == \/ StartRun \/ MarkRunning \/ Receive \/ FinishCallback
           \/ ObserveCancel \/ MarkStopped \/ EndDrain
Closer == WaitForWriters \/ CloseChannel

(* Run has returned and no thread is inside Dispatch: nothing is left.     *)
Finished == /\ loop = "returned" /\ closer = "done"
            /\ \A t \in Threads : pc[t] = "idle"
Done == Finished /\ UNCHANGED vars

Next == \/ \E t \in Threads : Call(t) \/ Proceed(t) \/ SendCallback(t)
        \/ RunLoop \/ Closer \/ CancelContext \/ Done

Spec == Init /\ [][Next]_vars

(* Goroutines that can run do run; whether a thread calls Dispatch, and    *)
(* whether the context is ever cancelled, is up to the environment.  A     *)
(* sender blocked on a full channel is in its FIFO queue, so it is served  *)
(* if the channel has room infinitely often.  That FinishCallback is fair  *)
(* says that every callback returns if nothing it waits for blocks it.     *)
Fairness == /\ WF_vars(RunLoop) /\ WF_vars(Closer)
            /\ \A t \in Threads : WF_vars(Proceed(t)) /\ SF_vars(SendCallback(t))

FairSpec == Spec /\ Fairness

--------------------------------------------------------------------------------
(* Properties.                                                             *)

(* Each field keeps to its range, and the buffer to its capacity.          *)
TypeOK ==
    /\ running \in BOOLEAN /\ chClosed \in BOOLEAN /\ cancelled \in BOOLEAN
    /\ callbackCh \in Seq(Threads \X (Nat \ {0})) /\ Len(callbackCh) <= Cap
    /\ writers \in SUBSET Threads
    /\ pc \in [Threads -> {"idle", "admitted", "sending"}]
    /\ todo \in [Threads -> Nat]
    /\ calls \in [Threads -> Nat]
    /\ sent \in [Threads -> Nat]
    /\ begun \in [Threads -> Nat]
    /\ loop \in {"new", "starting", "serving", "stopping", "draining", "returned"}
    /\ current \in (Threads \X (Nat \ {0})) \cup {None}
    /\ closer \in {"none", "waiting", "closing", "done"}

(* No thread that is still inside an accepted Dispatch can find the        *)
(* channel closed: its next send would panic the process.  The read lock   *)
(* around the check and Add(1), and Wait before close, must together rule  *)
(* it out.                                                                 *)
NoSendOnClosed == \A t \in Threads : pc[t] \in {"admitted", "sending"} => ~chClosed

(* Once the closer waits no Add(1) raises the group from zero again, which *)
(* sync.WaitGroup forbids: nobody is between the check and Add by then.    *)
NoAddDuringWait == closer # "none" => Readers = {}

(* When Run returns, every callback of every batch that Dispatch accepted  *)
(* has been executed: shutting down loses none.                            *)
NothingLost ==
    loop = "returned" => /\ current = None
                         /\ \A t \in Threads : todo[t] = 0 /\ begun[t] = sent[t]

(* The dispatcher implements CallbackQueue: batches are accepted whole     *)
(* while it is open, and each thread's callbacks run once each, in order,  *)
(* one at a time, before it stops.                                         *)
phaseOf == CASE loop \in {"new", "starting"} -> "new"
             [] loop \in {"serving", "stopping"} -> "open"
             [] loop = "draining" -> "closed"
             [] loop = "returned" -> "stopped"
acceptedOf == [t \in Threads |-> sent[t] + todo[t]]
Queue == INSTANCE CallbackQueue WITH
            Idle <- None,
            phase <- phaseOf,
            accepted <- acceptedOf,
            running <- current
QueueSpec == Queue!Spec

(* Cancelling the context of a Run that has begun makes it return, however *)
(* full the channel is and whoever is blocked on it.                       *)
StopsOnCancel == (cancelled /\ loop = "serving") ~> loop = "returned"

(* An accepted callback is eventually executed, even if the channel is     *)
(* full when the context is cancelled: so no sender stays blocked either.  *)
AcceptedRuns ==
    \A t \in Threads :
        \A n \in 1..(MaxBatch * MaxCalls[t]) : sent[t] + todo[t] >= n ~> begun[t] >= n
================================================================================

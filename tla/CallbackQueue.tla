----------------------------- MODULE CallbackQueue -----------------------------
(***************************************************************************)
(* What the dispatcher (src/internal/dispatcher/dispatcher.go) promises to *)
(* the goroutines that hand it callbacks, with no lock, no channel and no  *)
(* closer in sight:                                                        *)
(*   - a batch is accepted whole, and only while the dispatcher is open;   *)
(*   - the callbacks accepted from one thread run one at a time, each once,*)
(*     in the order that thread handed them over;                          *)
(*   - the dispatcher stops only once nothing that was accepted is left.   *)
(* The n-th callback accepted from thread t is <<t, n>>.                   *)
(***************************************************************************)
EXTENDS Naturals

CONSTANTS Threads,    \* the goroutines that may hand callbacks over
          Idle        \* "no callback is running"; not a pair

VARIABLES phase,      \* "new", "open", "closed", "stopped"
          accepted,   \* how many callbacks were accepted from each thread
          begun,      \* how many of those have started to run
          running     \* the callback that runs now, or Idle

queueVars == <<phase, accepted, begun, running>>

Init == /\ phase = "new"
        /\ accepted = [t \in Threads |-> 0]
        /\ begun = [t \in Threads |-> 0]
        /\ running = Idle

Open == /\ phase = "new"
        /\ phase' = "open"
        /\ UNCHANGED <<accepted, begun, running>>

(* A batch of any length, the empty one too. *)
Accept(t) == /\ phase = "open"
             /\ accepted'[t] \in Nat /\ accepted'[t] >= accepted[t]
             /\ accepted' = [accepted EXCEPT ![t] = accepted'[t]]
             /\ UNCHANGED <<phase, begun, running>>

Begin(t) == /\ phase \in {"open", "closed"}
            /\ running = Idle
            /\ begun[t] < accepted[t]
            /\ begun' = [begun EXCEPT ![t] = @ + 1]
            /\ running' = <<t, begun[t] + 1>>
            /\ UNCHANGED <<phase, accepted>>

End == /\ running # Idle
       /\ running' = Idle
       /\ UNCHANGED <<phase, accepted, begun>>

Close == /\ phase = "open"
         /\ phase' = "closed"
         /\ UNCHANGED <<accepted, begun, running>>

Stop == /\ phase = "closed"
        /\ running = Idle
        /\ begun = accepted
        /\ phase' = "stopped"
        /\ UNCHANGED <<accepted, begun, running>>

Next == \/ Open \/ Close \/ Stop \/ End
        \/ \E t \in Threads : Begin(t) \/ Accept(t)

Spec == Init /\ [][Next]_queueVars
================================================================================

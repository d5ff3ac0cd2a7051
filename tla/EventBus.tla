------------------------------- MODULE EventBus --------------------------------
(***************************************************************************)
(* What the event manager (src/internal/eventmanager/EventManager.go)      *)
(* promises to those who register receivers, with no mailbox, no dispatch  *)
(* queue and no dispatcher goroutine in sight:                             *)
(*   - an event is for receivers that are registered when it is published, *)
(*     and an audience once fixed does not change;                         *)
(*   - receivers run one at a time, each at most once per event, and no    *)
(*     event reaches anybody before every earlier event is over;           *)
(*   - a receiver may be passed over, in its turn (a stopped plugin's is); *)
(*   - the bus closes only once nothing published is still owed.           *)
(* Events are numbered in the order they are published.                    *)
(***************************************************************************)
EXTENDS Naturals, Sequences

CONSTANTS Handles,     \* receiver handles
          Nobody       \* "no receiver is running"; not a pair

VARIABLES open,        \* BOOLEAN: the bus takes events and registrations
          subscribed,  \* the handles registered now
          ever,        \* the handles registered so far
          audience,    \* audience[i]: the handles the i-th event is for
          over,        \* the pairs <<i, h>> that are delivered or passed over
          serving      \* the pair being delivered, or Nobody

busVars == <<open, subscribed, ever, audience, over, serving>>

Init == /\ open = TRUE
        /\ subscribed = {} /\ ever = {}
        /\ audience = <<>> /\ over = {}
        /\ serving = Nobody

(* A handle is given out once. *)
Subscribe(h) == /\ open /\ h \notin ever
                /\ subscribed' = subscribed \cup {h}
                /\ ever' = ever \cup {h}
                /\ UNCHANGED <<open, audience, over, serving>>

Unsubscribe(h) == /\ open /\ h \in subscribed
                  /\ subscribed' = subscribed \ {h}
                  /\ UNCHANGED <<open, ever, audience, over, serving>>

Publish(S) == /\ open /\ S \subseteq subscribed
              /\ audience' = Append(audience, S)
              /\ UNCHANGED <<open, subscribed, ever, over, serving>>

(* <<i, h>> may be served: it is owed, and all earlier events are over. *)
Due(i, h) == /\ h \in audience[i] /\ <<i, h>> \notin over
             /\ \A j \in 1..(i - 1) : \A g \in audience[j] : <<j, g>> \in over

Deliver(i, h) == /\ serving = Nobody /\ Due(i, h)
                 /\ serving' = <<i, h>>
                 /\ UNCHANGED <<open, subscribed, ever, audience, over>>

EndDelivery == /\ serving # Nobody
               /\ over' = over \cup {serving}
               /\ serving' = Nobody
               /\ UNCHANGED <<open, subscribed, ever, audience>>

PassOver(i, h) == /\ serving = Nobody /\ Due(i, h)
                  /\ over' = over \cup {<<i, h>>}
                  /\ UNCHANGED <<open, subscribed, ever, audience, serving>>

Close == /\ open /\ serving = Nobody
         /\ \A i \in 1..Len(audience) : \A h \in audience[i] : <<i, h>> \in over
         /\ open' = FALSE
         /\ UNCHANGED <<subscribed, ever, audience, over, serving>>

Next == \/ \E h \in Handles : Subscribe(h) \/ Unsubscribe(h)
        \/ \E S \in SUBSET Handles : Publish(S)
        \/ \E i \in 1..Len(audience), h \in Handles : Deliver(i, h) \/ PassOver(i, h)
        \/ EndDelivery \/ Close

Spec == Init /\ [][Next]_busVars
================================================================================

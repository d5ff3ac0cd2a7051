--------------------------- MODULE PluginCallsProofs ---------------------------
(***************************************************************************)
(* What PluginCalls guarantees for any number of plugins and handlers, and *)
(* whoever calls whom.                                                     *)
(***************************************************************************)
EXTENDS PluginCalls, SequenceTheorems, TLAPS

USE PluginCallsAssumption DEF PluginCallsAssumption

(* TypeOK in parts: what the prover treats as sequences, as numbers and as *)
(* truth values is kept apart.                                             *)
Mail ==
    /\ inbox \in [Actors -> Seq(Functions)]
    /\ job \in [Actors -> Functions \cup {None}]
    /\ waits \in [Threads -> Actors \cup {None}]
    /\ refused \subseteq Threads \X Actors
    /\ lost \subseteq Threads
Locks ==
    /\ looking \in [Callers -> Plugins \cup {None}]
    /\ writing \subseteq Callers
Answered == \A t \in Threads \ lost : waits[t] # None => Answering(waits[t], t)
Doors == open \in [Actors -> BOOLEAN]
Requests == queue \in Seq(Plugins)
Numbers ==
    /\ at \in -2..N /\ calls \in 0..MaxCalls
    /\ phase \in {"running", "stop", "runner"}
    /\ phase = "stop" => at \in Plugins

(* Ask and Send keep the mail well formed, and whoever is made to wait has *)
(* left a function for it with the one waited for.                         *)
LEMMA AskMail ==
    ASSUME NEW t \in Threads, NEW a \in Actors, NEW kind \in {"call", "view", "stub"},
           Mail, Answered, Ask(t, a, kind), UNCHANGED <<job, lost>>
    PROVE  Mail' /\ Answered'
<1> USE DEF Mail, Answered, Ask
<1>1. CASE ~open[a]
  BY <1>1 DEF Answering
<1>2. CASE open[a]
  <2> DEFINE f == [kind |-> kind, from |-> t]
  <2>1. f \in Functions
    BY DEF Functions
  <2>2. /\ inbox' = [inbox EXCEPT ![a] = Append(@, f)]
        /\ waits' = [waits EXCEPT ![t] = a]
        /\ refused' = refused
    BY <1>2
  <2>3. Append(inbox[a], f) \in Seq(Functions)
    BY <2>1
  <2>4. inbox' \in [Actors -> Seq(Functions)]
    BY <2>2, <2>3
  <2>5. waits' \in [Threads -> Actors \cup {None}]
    BY <2>2
  <2>6. Answered'
    <3> SUFFICES ASSUME NEW u \in Threads \ lost, waits'[u] # None
                 PROVE  Answering(waits[u], u)'
      OBVIOUS
    <3>1. Len(inbox'[a]) = Len(inbox[a]) + 1 /\ inbox'[a][Len(inbox[a]) + 1] = f
      BY <2>1, <2>2
    <3>2. CASE u = t
      <4>1. waits'[u] = a /\ Len(inbox[a]) + 1 \in DOMAIN inbox'[a]
        BY <2>2, <2>4, <3>1, <3>2
      <4>2. inbox'[a][Len(inbox[a]) + 1].from = u
        BY <3>1, <3>2
      <4> QED
        BY <4>1, <4>2 DEF Answering
    <3>3. CASE u # t
      <4>1. waits'[u] = waits[u] /\ waits[u] \in Actors /\ Answering(waits[u], u)
        BY <2>2, <3>3
      <4>2. CASE job[waits[u]] # None /\ job[waits[u]].from = u
        BY <4>1, <4>2 DEF Answering
      <4>3. CASE \E k \in DOMAIN inbox[waits[u]] : inbox[waits[u]][k].from = u
        <5>1. PICK k \in DOMAIN inbox[waits[u]] : inbox[waits[u]][k].from = u
          BY <4>3
        <5>2. /\ k \in 1..Len(inbox[waits[u]]) /\ inbox[waits[u]] \in Seq(Functions)
              /\ inbox'[waits[u]] \in {inbox[waits[u]], Append(inbox[waits[u]], f)}
          BY <2>2, <4>1
        <5>3. k \in DOMAIN inbox'[waits[u]] /\ inbox'[waits[u]][k] = inbox[waits[u]][k]
          BY <2>1, <5>2
        <5> QED
          BY <4>1, <5>1, <5>3 DEF Answering
      <4> QED
        BY <4>1, <4>2, <4>3 DEF Answering
    <3> QED
      BY <3>2, <3>3
  <2> QED
    BY <2>2, <2>4, <2>5, <2>6
<1> QED
  BY <1>1, <1>2

(* The same for mail nobody waits on: it goes behind the mail there was,   *)
(* so that whoever waits still has a function coming.                      *)
LEMMA SendMail ==
    ASSUME NEW t \in Threads, NEW a \in Actors, Mail, Answered, Send(t, a), UNCHANGED <<job, lost>>
    PROVE  Mail' /\ Answered'
<1> USE DEF Mail, Answered, Send
<1>1. CASE ~open[a]
  BY <1>1 DEF Answering
<1>2. CASE open[a]
  <2> DEFINE f == [kind |-> "call", from |-> None]
  <2>1. f \in Functions
    BY DEF Functions
  <2>2. inbox' = [inbox EXCEPT ![a] = Append(@, f)] /\ waits' = waits /\ refused' = refused
    BY <1>2
  <2>3. Append(inbox[a], f) \in Seq(Functions)
    BY <2>1
  <2>4. inbox' \in [Actors -> Seq(Functions)]
    BY <2>2, <2>3
  <2>5. Answered'
    <3> SUFFICES ASSUME NEW u \in Threads \ lost, waits'[u] # None
                 PROVE  Answering(waits[u], u)'
      OBVIOUS
    <3>1. waits'[u] = waits[u] /\ waits[u] \in Actors /\ Answering(waits[u], u)
      BY <2>2
    <3>2. CASE job[waits[u]] # None /\ job[waits[u]].from = u
      BY <3>1, <3>2 DEF Answering
    <3>3. CASE \E k \in DOMAIN inbox[waits[u]] : inbox[waits[u]][k].from = u
      <4>1. PICK k \in DOMAIN inbox[waits[u]] : inbox[waits[u]][k].from = u
        BY <3>3
      <4>2. /\ k \in 1..Len(inbox[waits[u]]) /\ inbox[waits[u]] \in Seq(Functions)
            /\ inbox'[waits[u]] \in {inbox[waits[u]], Append(inbox[waits[u]], f)}
        <5>1. CASE waits[u] = a
          BY <2>2, <3>1, <4>1, <5>1
        <5>2. CASE waits[u] # a
          BY <2>2, <3>1, <4>1, <5>2
        <5> QED
          BY <5>1, <5>2
      <4>3. k \in DOMAIN inbox'[waits[u]] /\ inbox'[waits[u]][k] = inbox[waits[u]][k]
        BY <2>1, <4>2
      <4> QED
        BY <3>1, <4>1, <4>3 DEF Answering
    <3> QED
      BY <3>1, <3>2, <3>3 DEF Answering
  <2> QED
    BY <2>2, <2>4, <2>5
<1> QED
  BY <1>1, <1>2

(* Begin takes the first function of the inbox: it is still on its way.    *)
LEMMA BeginMail ==
    ASSUME NEW a \in Actors, Mail, Answered, Begin(a)
    PROVE  Mail' /\ Answered'
<1> USE DEF Mail, Answered
<1>1. /\ inbox[a] \in Seq(Functions) /\ inbox[a] # <<>>
      /\ job' = [job EXCEPT ![a] = Head(inbox[a])]
      /\ inbox' = [inbox EXCEPT ![a] = Tail(@)]
      /\ waits' = waits /\ refused' = refused /\ lost' = lost
  BY DEF Begin, runVars
<1>2. Head(inbox[a]) \in Functions /\ Tail(inbox[a]) \in Seq(Functions)
  BY <1>1
<1>3. Mail'
  BY <1>1, <1>2
<1>4. None \notin Functions
  OBVIOUS
<1>5. Answered'
  <2> SUFFICES ASSUME NEW u \in Threads \ lost, waits'[u] # None
               PROVE  Answering(waits[u], u)'
    BY <1>1
  <2>1. waits'[u] = waits[u] /\ waits[u] \in Actors /\ Answering(waits[u], u)
    BY <1>1
  <2>2. CASE waits[u] # a
    BY <1>1, <2>1, <2>2 DEF Answering
  <2>3. CASE waits[u] = a
    <3>1. PICK k \in DOMAIN inbox[a] : inbox[a][k].from = u
      BY <2>1, <2>3 DEF Answering, Begin
    <3>2. CASE k = 1
      <4>1. job'[a] = Head(inbox[a]) /\ Head(inbox[a]) = inbox[a][1] /\ job'[a] # None
        BY <1>1, <1>2, <1>4
      <4> QED
        BY <2>1, <2>3, <3>1, <3>2, <4>1 DEF Answering
    <3>3. CASE k # 1
      <4>1. k - 1 \in DOMAIN Tail(inbox[a]) /\ Tail(inbox[a])[k - 1] = inbox[a][k]
        BY <1>1, <3>3
      <4>2. inbox'[a] = Tail(inbox[a])
        BY <1>1
      <4> QED
        BY <2>1, <2>3, <3>1, <4>1, <4>2 DEF Answering
    <3> QED
      BY <3>2, <3>3
  <2> QED
    BY <2>2, <2>3
<1> QED
  BY <1>3, <1>5

(* Finish answers exactly the one that waits for the function.             *)
LEMMA FinishMail ==
    ASSUME NEW a \in Actors, Mail, Answered, Finish(a)
    PROVE  Mail' /\ Answered'
<1> USE DEF Mail, Answered
<1>1. /\ job[a] \in Functions
      /\ job' = [job EXCEPT ![a] = None]
      /\ inbox' = inbox /\ refused' = refused /\ lost' = lost
      /\ waits' = IF job[a].from = None THEN waits ELSE [waits EXCEPT ![job[a].from] = None]
  BY DEF Finish, runVars
<1>2. job[a].from \in Threads \cup {None}
  BY <1>1 DEF Functions
<1>3. Mail'
  BY <1>1, <1>2
<1>4. ASSUME NEW u \in Threads \ lost, waits'[u] # None
      PROVE  Answering(waits[u], u)'
  <2>1. waits'[u] = waits[u] /\ waits[u] \in Actors /\ Answering(waits[u], u) /\ job[a].from # u
    BY <1>1, <1>2, <1>4
  <2> QED
    BY <1>1, <2>1 DEF Answering
<1> QED
  BY <1>1, <1>3, <1>4

(* Panic drops the function: whoever waited for it is lost, and nobody     *)
(* else waited for it.                                                     *)
LEMMA PanicMail ==
    ASSUME NEW a \in Actors, Mail, Answered, Panic(a)
    PROVE  Mail' /\ Answered'
<1> USE DEF Mail, Answered
<1>1. /\ job[a] \in Functions
      /\ job' = [job EXCEPT ![a] = None]
      /\ inbox' = inbox /\ refused' = refused /\ waits' = waits
      /\ lost' = lost \cup {job[a].from}
  BY DEF Panic, callVars
<1>2. lost' \subseteq Threads
  BY <1>1 DEF Functions, Panic
<1>3. Mail'
  BY <1>1, <1>2
<1>4. ASSUME NEW u \in Threads \ lost', waits'[u] # None
      PROVE  Answering(waits[u], u)'
  <2>1. waits'[u] = waits[u] /\ waits[u] \in Actors /\ Answering(waits[u], u) /\ job[a].from # u
    BY <1>1, <1>4
  <2> QED
    BY <1>1, <2>1 DEF Answering
<1> QED
  BY <1>3, <1>4

--------------------------------------------------------------------------------
TypeInv == Mail /\ Answered /\ Locks /\ Doors /\ Requests /\ Numbers

(* The parts hold at every step: one case per action for the mail, which   *)
(* is what the lemmas above are for.                                       *)
LEMMA TypeInvHolds == Spec => []TypeInv
<1>1. Init => TypeInv
  <2> SUFFICES ASSUME Init PROVE TypeInv
    OBVIOUS
  <2>1. Mail /\ Answered
    BY DEF Init, Mail, Answered
  <2>2. Locks /\ Requests
    BY DEF Init, Locks, Requests
  <2>3. Doors
    BY DEF Init, Doors
  <2>4. Numbers
    BY DEF Init, Numbers
  <2> QED
    BY <2>1, <2>2, <2>3, <2>4 DEF TypeInv
<1>2. TypeInv /\ [Next]_vars => TypeInv'
  <2> SUFFICES ASSUME TypeInv, [Next]_vars PROVE TypeInv'
    OBVIOUS
  <2> USE DEF TypeInv, callVars, lockVars, runVars
  <2>0. /\ Callers \subseteq Threads /\ Actors \subseteq Callers /\ Plugins \subseteq Actors
        /\ Main \in Threads /\ Dispatcher \in Threads /\ Managers \subseteq Actors
        /\ Events \in Actors /\ Entities \in Actors
    BY DEF Threads, Callers, Actors, Managers
  <2>1. ASSUME NEW c \in Callers, PluginCode(c)
        PROVE  TypeInv'
    <3>1. Mail' /\ Answered'
      <4>1. ASSUME NEW p \in Plugins, StubFactory(c, p) PROVE Mail' /\ Answered'
        BY <2>0, <4>1, AskMail DEF StubFactory
      <4>2. ASSUME NEW m \in Managers, AskManager(c, m) PROVE Mail' /\ Answered'
        BY <2>0, <4>2, AskMail DEF AskManager
      <4>3. ASSUME BroadcastEvent(c) PROVE Mail' /\ Answered'
        BY <2>0, <4>3, SendMail DEF BroadcastEvent
      <4>4. ASSUME c \in Plugins, EnqueueOnPluginGoRoutine(c) PROVE Mail' /\ Answered'
        BY <2>0, <4>4, SendMail DEF EnqueueOnPluginGoRoutine
      <4>5. ASSUME NEW p \in Plugins, GetEntityView(c, p) PROVE Mail' /\ Answered'
        BY <4>5 DEF GetEntityView, Mail, Answered, Answering
      <4>6. ASSUME WantEntityInfo(c) PROVE Mail' /\ Answered'
        BY <4>6 DEF WantEntityInfo, Mail, Answered, Answering
      <4> QED
        BY <2>1, <4>1, <4>2, <4>3, <4>4, <4>5, <4>6 DEF PluginCode
    <3>2. Locks'
      <4>1. \/ looking' = looking /\ writing' = writing
            \/ writing' = writing \cup {c} /\ looking' = looking
            \/ writing' = writing /\ \E p \in Plugins : looking' = [looking EXCEPT ![c] = p]
        BY <2>1 DEF PluginCode, StubFactory, AskManager, BroadcastEvent,
                    EnqueueOnPluginGoRoutine, GetEntityView, WantEntityInfo
      <4> QED
        BY <4>1 DEF Locks
    <3>3. Doors' /\ Requests'
      BY <2>1 DEF PluginCode, StubFactory, AskManager, BroadcastEvent, Ask, Send,
                  EnqueueOnPluginGoRoutine, GetEntityView, WantEntityInfo, Doors, Requests
    <3>4. Numbers'
      <4>1. at' = at /\ phase' = phase /\ calls < MaxCalls /\ calls' = calls + 1
        BY <2>1 DEF PluginCode, StubFactory, AskManager, BroadcastEvent, Counts,
                    EnqueueOnPluginGoRoutine, GetEntityView, WantEntityInfo
      <4> QED
        BY <4>1 DEF Numbers
    <3> QED
      BY <3>1, <3>2, <3>3, <3>4
  <2>2. ASSUME NEW c \in Callers, RunView(c)
        PROVE  TypeInv'
    <3>1. looking[c] \in Plugins
      BY <2>2 DEF RunView, Locks
    <3>2. Mail' /\ Answered'
      <4>1. CASE Ask(c, looking[c], "view")
        BY <2>0, <2>2, <3>1, <4>1, AskMail DEF RunView
      <4>2. CASE UNCHANGED callVars
        BY <2>2, <4>2 DEF RunView, Mail, Answered, Answering
      <4> QED
        BY <2>2, <4>1, <4>2 DEF RunView
    <3>3. Locks'
      BY <2>2 DEF RunView, Locks
    <3>4. Doors' /\ Requests'
      BY <2>2 DEF RunView, Ask, Doors, Requests
    <3>5. Numbers'
      BY <2>2 DEF RunView, Numbers
    <3> QED
      BY <3>2, <3>3, <3>4, <3>5
  <2>3. ASSUME NEW c \in Callers, WriteEntityInfo(c)
        PROVE  TypeInv'
    BY <2>3 DEF WriteEntityInfo, Mail, Answered, Answering, Locks, Doors, Requests, Numbers
  <2>4. ASSUME NEW a \in Actors, Begin(a)
        PROVE  TypeInv'
    <3>1. Mail' /\ Answered'
      BY <2>4, BeginMail
    <3>2. Locks' /\ Doors' /\ Requests' /\ Numbers'
      BY <2>4 DEF Begin, Locks, Doors, Requests, Numbers
    <3> QED
      BY <3>1, <3>2
  <2>5. ASSUME NEW a \in Actors, Finish(a)
        PROVE  TypeInv'
    <3>1. Mail' /\ Answered'
      BY <2>5, FinishMail
    <3>2. Locks' /\ Doors' /\ Numbers'
      BY <2>5 DEF Finish, Locks, Doors, Numbers
    <3>3. Requests'
      <4>1. queue' = queue \/ \E p \in Plugins : queue' = Append(queue, p)
        BY <2>5 DEF Finish
      <4> QED
        BY <4>1 DEF Requests
    <3> QED
      BY <3>1, <3>2, <3>3
  <2>6. CASE Deliver
    <3>1. Head(queue) \in Plugins /\ Tail(queue) \in Seq(Plugins)
      BY <2>6 DEF Deliver, Requests
    <3>2. Mail' /\ Answered'
      BY <2>0, <2>6, <3>1, AskMail DEF Deliver
    <3>3. Locks' /\ Numbers'
      BY <2>6 DEF Deliver, Locks, Numbers
    <3>4. Doors' /\ Requests'
      BY <2>6, <3>1 DEF Deliver, Ask, Doors, Requests
    <3> QED
      BY <3>2, <3>3, <3>4
  <2>7. CASE Signal
    <3>1. Mail' /\ Answered' /\ Locks' /\ Doors' /\ Requests'
      BY <2>7 DEF Signal, Mail, Answered, Answering, Locks, Doors, Requests
    <3>2. Numbers'
      BY <2>7 DEF Signal, Numbers
    <3> QED
      BY <3>1, <3>2
  <2>8. CASE StopPlugin
    <3>1. at \in Plugins
      BY <2>8 DEF StopPlugin, Numbers
    <3>2. Mail' /\ Answered'
      BY <2>0, <2>8, <3>1, AskMail DEF StopPlugin
    <3>3. Locks' /\ Doors' /\ Requests'
      BY <2>8 DEF StopPlugin, Ask, Locks, Doors, Requests
    <3>4. Numbers'
      BY <2>8 DEF StopPlugin, Counts, Numbers
    <3> QED
      BY <3>2, <3>3, <3>4
  <2>9. CASE StopMailbox
    <3>1. Mail' /\ Answered' /\ Locks' /\ Doors' /\ Requests'
      BY <2>9 DEF StopMailbox, Mail, Answered, Answering, Locks, Doors, Requests
    <3>2. Numbers'
      BY <2>9 DEF StopMailbox, Numbers
    <3> QED
      BY <3>1, <3>2
  <2>10. CASE MailboxStopped
    <3>1. Mail' /\ Answered' /\ Locks' /\ Doors' /\ Requests'
      BY <2>10 DEF MailboxStopped, Mail, Answered, Answering, Locks, Doors, Requests
    <3>2. Numbers'
      BY <2>10 DEF MailboxStopped, Numbers
    <3> QED
      BY <3>1, <3>2
  <2>11. CASE UNCHANGED vars
    BY <2>11 DEF vars, Mail, Answered, Answering, Locks, Doors, Requests, Numbers
  <2>12. ASSUME NEW a \in Actors, Panic(a)
         PROVE  TypeInv'
    <3>1. Mail' /\ Answered'
      BY <2>12, PanicMail
    <3>2. Locks' /\ Doors' /\ Requests' /\ Numbers'
      BY <2>12 DEF Panic, Locks, Doors, Requests, Numbers
    <3> QED
      BY <3>1, <3>2
  <2> QED
    BY <2>1, <2>2, <2>3, <2>4, <2>5, <2>6, <2>7, <2>8, <2>9, <2>10, <2>11, <2>12
    DEF Next, GoOn, Quiet
<1> QED
  BY <1>1, <1>2, PTL DEF Spec

(* Type correctness, and nobody waits for an answer that is not on its way: *)
(* every wait is for a function that is queued or runs, unless it was for  *)
(* a stub factory that panicked.                                           *)
THEOREM TypeCorrect == Spec => []TypeOK
<1>1. TypeInv => TypeOK
  BY DEF TypeInv, TypeOK, Mail, Answered, Locks, Doors, Requests, Numbers
<1> QED
  BY <1>1, TypeInvHolds, PTL

--------------------------------------------------------------------------------
(* The order of the shutdown: the plugins from the last to the first, the  *)
(* entity manager, the event manager.                                      *)
Rank == [a \in Actors |-> IF a \in Plugins THEN a ELSE IF a = Entities THEN 0 ELSE -1]

(* The inductive invariant: behind internalRun nothing runs or is accepted *)
(* any more, before it everything is still open, and whoever looks up an   *)
(* entity on a runner is being executed there.                             *)
Behind == \A a \in Actors : Rank[a] > at => ~open[a] /\ inbox[a] = <<>> /\ job[a] = None
Before == \A a \in Actors : Rank[a] < at => open[a]
LooksUp == \A a \in Actors : looking[a] # None => job[a] # None

InOrder == Behind /\ Before /\ LooksUp /\ DependenciesServe

(* The actor that internalRun stops is the only one of that rank.          *)
LEMMA StoppingRank ==
    ASSUME Numbers
    PROVE  /\ \A a \in Actors : Rank[a] \in Int
           /\ \A a \in Actors : Rank[a] = at => a = Stopping
           /\ at >= -1 => Stopping \in Actors /\ Rank[Stopping] = at
<1>1. ASSUME NEW a \in Actors
      PROVE  /\ a \in Plugins => Rank[a] = a /\ a \in Int /\ a >= 1
             /\ a = Entities => Rank[a] = 0
             /\ a = Events => Rank[a] = -1
             /\ a \in Plugins \/ a = Entities \/ a = Events
  BY DEF Rank, Actors, Managers, Plugins
<1>2. at \in Plugins \/ at = 0 \/ at = -1 \/ at = -2
  BY DEF Numbers, Plugins
<1>3. /\ at \in Plugins => Stopping = at
      /\ at = 0 => Stopping = Entities
      /\ at < 0 => Stopping = Events
  BY <1>2 DEF Stopping, Plugins
<1>4. Entities \in Actors /\ Events \in Actors /\ Plugins \subseteq Actors
  BY DEF Actors, Managers
<1> QED
  BY <1>1, <1>2, <1>3, <1>4

(* What runs on a plugin's runner is refused by nobody but the plugins     *)
(* that are stopped before it.                                             *)
LEMMA RefusedByLater ==
    ASSUME TypeInv, InOrder, NEW p \in Plugins, job[p] # None,
           NEW a \in Actors, ~open[a]
    PROVE  a \in Plugins /\ a >= p
<1>1. /\ p \in Actors /\ Rank[p] = p
      /\ p \in Int /\ at \in Int /\ p >= 1
      /\ Rank[a] = IF a \in Plugins THEN a ELSE IF a = Entities THEN 0 ELSE -1
  BY DEF Rank, Actors, TypeInv, Numbers, Plugins
<1>2. Rank[a] \in Int
  BY <1>1 DEF Plugins
<1>3. ~(Rank[p] > at) /\ ~(Rank[a] < at)
  BY <1>1 DEF InOrder, Behind, Before
<1>4. Rank[a] >= p
  BY <1>1, <1>2, <1>3
<1> QED
  BY <1>1, <1>4

(* A call, whoever makes it, keeps the order.                              *)
LEMMA AskInOrder ==
    ASSUME TypeInv, InOrder, NEW t \in Threads, NEW a \in Actors, NEW kind,
           t \in Plugins => job[t] # None,
           Ask(t, a, kind) \/ Send(t, a), UNCHANGED <<job, at>>
    PROVE  Behind' /\ Before' /\ DependenciesServe'
<1> USE DEF InOrder, TypeInv
<1>1. open' = open
  BY DEF Ask, Send
<1>2. CASE open[a]
  <2>1. refused' = refused /\ \A b \in Actors : b # a => inbox'[b] = inbox[b]
    BY <1>2 DEF Ask, Send, Mail
  <2>2. Behind'
    BY <1>1, <1>2, <2>1 DEF Behind
  <2> QED
    BY <1>1, <2>1, <2>2 DEF Before, DependenciesServe
<1>3. CASE ~open[a]
  <2>1. refused' = refused \cup {<<t, a>>} /\ inbox' = inbox
    BY <1>3 DEF Ask, Send
  <2>2. t \in Plugins => a \in Plugins /\ a >= t
    BY <1>3, RefusedByLater
  <2>3. DependenciesServe'
    BY <2>1, <2>2 DEF DependenciesServe
  <2> QED
    BY <1>1, <2>1, <2>3 DEF Behind, Before
<1> QED
  BY <1>2, <1>3

(* InOrder holds at every step.                                            *)
LEMMA InOrderHolds == Spec => []InOrder
<1>1. Init => InOrder
  <2> SUFFICES ASSUME Init PROVE InOrder
    OBVIOUS
  <2>1. Behind
    BY DEF Init, Behind, Rank, Plugins
  <2>2. Before /\ LooksUp
    BY DEF Init, Before, LooksUp, Callers
  <2>3. DependenciesServe
    BY DEF Init, DependenciesServe
  <2> QED
    BY <2>1, <2>2, <2>3 DEF InOrder
<1>2. TypeInv /\ InOrder /\ [Next]_vars => InOrder'
  <2> SUFFICES ASSUME TypeInv, InOrder, [Next]_vars PROVE InOrder'
    OBVIOUS
  <2> USE DEF InOrder, callVars, lockVars, runVars
  <2>0. /\ Callers \subseteq Threads /\ Actors \subseteq Callers /\ Plugins \subseteq Actors
        /\ Main \in Threads /\ Dispatcher \in Threads /\ Managers \subseteq Actors
        /\ Main \notin Plugins /\ Dispatcher \notin Plugins
        /\ Events \in Actors /\ Entities \in Actors
    BY DEF Threads, Callers, Actors, Managers
  <2>1. ASSUME NEW c \in Callers, PluginCode(c)
        PROVE  InOrder'
    <3>0. Runs(c) /\ (c \in Actors => job[c] # None)
      BY <2>1 DEF PluginCode, StubFactory, AskManager, BroadcastEvent,
                  EnqueueOnPluginGoRoutine, GetEntityView, WantEntityInfo, Runs
    <3>1. Behind' /\ Before' /\ DependenciesServe'
      <4>1. ASSUME NEW p \in Plugins, StubFactory(c, p)
            PROVE  Behind' /\ Before' /\ DependenciesServe'
        BY <2>0, <3>0, <4>1, AskInOrder DEF StubFactory
      <4>2. ASSUME NEW m \in Managers, AskManager(c, m)
            PROVE  Behind' /\ Before' /\ DependenciesServe'
        BY <2>0, <3>0, <4>2, AskInOrder DEF AskManager
      <4>3. ASSUME BroadcastEvent(c)
            PROVE  Behind' /\ Before' /\ DependenciesServe'
        BY <2>0, <3>0, <4>3, AskInOrder DEF BroadcastEvent
      <4>4. ASSUME c \in Plugins, EnqueueOnPluginGoRoutine(c)
            PROVE  Behind' /\ Before' /\ DependenciesServe'
        BY <2>0, <3>0, <4>4, AskInOrder DEF EnqueueOnPluginGoRoutine
      <4>5. ASSUME NEW p \in Plugins, GetEntityView(c, p)
            PROVE  Behind' /\ Before' /\ DependenciesServe'
        BY <4>5 DEF GetEntityView, Behind, Before, DependenciesServe
      <4>6. ASSUME WantEntityInfo(c)
            PROVE  Behind' /\ Before' /\ DependenciesServe'
        BY <4>6 DEF WantEntityInfo, Behind, Before, DependenciesServe
      <4> QED
        BY <2>1, <4>1, <4>2, <4>3, <4>4, <4>5, <4>6 DEF PluginCode
    <3>2. LooksUp'
      <4>1. /\ job' = job
            /\ \/ looking' = looking
               \/ \E p \in Plugins : looking' = [looking EXCEPT ![c] = p]
        BY <2>1 DEF PluginCode, StubFactory, AskManager, BroadcastEvent,
                    EnqueueOnPluginGoRoutine, GetEntityView, WantEntityInfo
      <4> QED
        BY <2>0, <3>0, <4>1 DEF LooksUp, TypeInv, Locks
    <3> QED
      BY <3>1, <3>2
  <2>2. ASSUME NEW c \in Callers, RunView(c)
        PROVE  InOrder'
    <3>1. looking[c] \in Plugins /\ (c \in Actors => job[c] # None)
      BY <2>2 DEF RunView, TypeInv, Locks, LooksUp
    <3>2. Behind' /\ Before' /\ DependenciesServe'
      <4>1. CASE Ask(c, looking[c], "view")
        BY <2>0, <2>2, <3>1, <4>1, AskInOrder DEF RunView
      <4>2. CASE UNCHANGED callVars
        BY <2>2, <4>2 DEF RunView, Behind, Before, DependenciesServe
      <4> QED
        BY <2>2, <4>1, <4>2 DEF RunView
    <3>3. LooksUp'
      BY <2>0, <2>2 DEF RunView, LooksUp, TypeInv, Locks
    <3> QED
      BY <3>2, <3>3
  <2>3. ASSUME NEW c \in Callers, WriteEntityInfo(c)
        PROVE  InOrder'
    BY <2>3 DEF WriteEntityInfo, Behind, Before, LooksUp, DependenciesServe
  <2>4. ASSUME NEW a \in Actors, Begin(a)
        PROVE  InOrder'
    <3>1. job'[a] # None
      BY <2>4 DEF Begin, TypeInv, Mail
    <3>2. Behind'
      BY <2>4 DEF Begin, Behind, TypeInv, Mail
    <3>3. LooksUp'
      BY <2>4, <3>1 DEF Begin, LooksUp, TypeInv, Mail
    <3> QED
      BY <2>4, <3>2, <3>3 DEF Begin, Before, DependenciesServe
  <2>5. ASSUME NEW a \in Actors, Finish(a)
        PROVE  InOrder'
    <3>1. Behind'
      BY <2>5 DEF Finish, Behind, TypeInv, Mail
    <3>2. LooksUp'
      BY <2>5 DEF Finish, Free, LooksUp, TypeInv, Mail
    <3> QED
      BY <2>5, <3>1, <3>2 DEF Finish, Before, DependenciesServe
  <2>6. CASE Deliver
    <3>1. Head(queue) \in Plugins
      BY <2>6 DEF Deliver, TypeInv, Requests
    <3>2. Behind' /\ Before' /\ DependenciesServe'
      BY <2>0, <2>6, <3>1, AskInOrder DEF Deliver
    <3> QED
      BY <2>6, <3>2 DEF Deliver, LooksUp
  <2>7. CASE Signal
    BY <2>7 DEF Signal, Behind, Before, LooksUp, DependenciesServe
  <2>8. CASE StopPlugin
    <3>1. at \in Plugins
      BY <2>8 DEF StopPlugin, TypeInv, Numbers
    <3>2. Behind' /\ Before' /\ DependenciesServe'
      BY <2>0, <2>8, <3>1, AskInOrder DEF StopPlugin
    <3> QED
      BY <2>8, <3>2 DEF StopPlugin, LooksUp
  <2>9. CASE StopMailbox
    <3>1. Stopping \in Actors /\ Rank[Stopping] = at
      BY <2>0, <2>9, StoppingRank DEF StopMailbox, TypeInv
    <3>2. open' = [open EXCEPT ![Stopping] = FALSE] /\ at' = at /\ at \in Int
      BY <2>9 DEF StopMailbox, TypeInv, Numbers
    <3>3. Before'
      BY <3>1, <3>2 DEF Before, TypeInv, Doors
    <3>4. Behind'
      BY <2>9, <3>1, <3>2 DEF StopMailbox, Behind, TypeInv, Doors
    <3> QED
      BY <2>9, <3>3, <3>4 DEF StopMailbox, LooksUp, DependenciesServe
  <2>10. CASE MailboxStopped
    <3>1. \A a \in Actors : Rank[a] = at => a = Stopping
      BY <2>10, StoppingRank DEF MailboxStopped, TypeInv
    <3>2. at' = at - 1 /\ at \in Int /\ \A a \in Actors : Rank[a] \in Int
      BY <2>10, StoppingRank DEF MailboxStopped, TypeInv, Numbers
    <3>3. Behind'
      <4> SUFFICES ASSUME NEW a \in Actors, Rank[a] > at'
                   PROVE  (~open[a] /\ inbox[a] = <<>> /\ job[a] = None)'
        BY DEF Behind
      <4>1. Rank[a] > at \/ a = Stopping
        BY <3>1, <3>2
      <4> QED
        BY <2>10, <4>1 DEF MailboxStopped, Behind
    <3>4. Before'
      BY <2>10, <3>2 DEF MailboxStopped, Before
    <3> QED
      BY <2>10, <3>3, <3>4 DEF MailboxStopped, LooksUp, DependenciesServe
  <2>11. CASE UNCHANGED vars
    BY <2>11 DEF vars, Behind, Before, LooksUp, DependenciesServe
  <2>12. ASSUME NEW a \in Actors, Panic(a)
         PROVE  InOrder'
    <3>1. Behind'
      BY <2>12 DEF Panic, Behind, TypeInv, Mail
    <3>2. LooksUp'
      BY <2>12 DEF Panic, Free, LooksUp, TypeInv, Mail
    <3> QED
      BY <2>12, <3>1, <3>2 DEF Panic, Before, DependenciesServe
  <2> QED
    BY <2>1, <2>2, <2>3, <2>4, <2>5, <2>6, <2>7, <2>8, <2>9, <2>10, <2>11, <2>12
    DEF Next, GoOn, Quiet
<1> QED
  BY <1>1, <1>2, TypeInvHolds, PTL DEF Spec

(* What runs on a plugin's runner, whenever it runs, is refused neither by *)
(* a manager nor by a plugin configured before its own.                    *)
THEOREM DependenciesServed == Spec => []DependenciesServe
<1>1. InOrder => DependenciesServe
  BY DEF InOrder
<1> QED
  BY <1>1, InOrderHolds, PTL

--------------------------------------------------------------------------------
(* Plugin code waits, and is about to wait, only for whom it may call.     *)
Allowed ==
    \A c \in Callers : /\ waits[c] # None => <<c, waits[c]>> \in MayCall
                       /\ looking[c] # None => <<c, looking[c]>> \in MayCall

LEMMA AllowedHolds == Spec => []Allowed
<1>1. Init => Allowed
  BY DEF Init, Allowed, Threads
<1>2. TypeInv /\ Allowed /\ [Next]_vars => Allowed'
  <2> SUFFICES ASSUME TypeInv, Allowed, [Next]_vars PROVE Allowed'
    OBVIOUS
  <2> USE DEF TypeInv, Mail, Locks, Allowed, callVars, lockVars, runVars
  <2>0. /\ Callers \subseteq Threads /\ Actors \subseteq Callers /\ Plugins \subseteq Actors
        /\ Main \notin Callers /\ Dispatcher \notin Callers
    BY DEF Threads, Callers, Actors
  <2>1. ASSUME NEW c \in Callers, PluginCode(c) PROVE Allowed'
    <3>1. ASSUME NEW b, NEW kind, <<c, b>> \in MayCall, Ask(c, b, kind), UNCHANGED looking
          PROVE  Allowed'
      BY <2>0, <3>1 DEF Ask
    <3>2. ASSUME NEW p \in Plugins, StubFactory(c, p) PROVE Allowed'
      BY <3>1, <3>2 DEF StubFactory
    <3>3. ASSUME NEW m \in Managers, AskManager(c, m) PROVE Allowed'
      BY <3>1, <3>3 DEF AskManager
    <3>4. ASSUME NEW p \in Plugins, GetEntityView(c, p) PROVE Allowed'
      BY <2>0, <3>4 DEF GetEntityView
    <3>5. CASE BroadcastEvent(c)
      BY <2>0, <3>5 DEF BroadcastEvent, Send
    <3>6. CASE c \in Plugins /\ EnqueueOnPluginGoRoutine(c)
      BY <2>0, <3>6 DEF EnqueueOnPluginGoRoutine, Send
    <3>7. CASE WantEntityInfo(c)
      BY <2>0, <3>7 DEF WantEntityInfo
    <3> QED
      BY <2>1, <3>2, <3>3, <3>4, <3>5, <3>6, <3>7 DEF PluginCode
  <2>2. ASSUME NEW c \in Callers, RunView(c) PROVE Allowed'
    <3>1. looking' = [looking EXCEPT ![c] = None] /\ <<c, looking[c]>> \in MayCall
      BY <2>0, <2>2 DEF RunView
    <3>2. CASE Ask(c, looking[c], "view")
      BY <2>0, <3>1, <3>2 DEF Ask
    <3>3. CASE UNCHANGED callVars
      BY <2>0, <3>1, <3>3
    <3> QED
      BY <2>2, <3>2, <3>3 DEF RunView
  <2>3. ASSUME NEW c \in Callers, WriteEntityInfo(c) PROVE Allowed'
    BY <2>0, <2>3 DEF WriteEntityInfo
  <2>4. ASSUME NEW a \in Actors, Begin(a) PROVE Allowed'
    BY <2>0, <2>4 DEF Begin
  <2>5. ASSUME NEW a \in Actors, Finish(a) PROVE Allowed'
    <3>1. /\ waits' = IF job[a].from = None THEN waits ELSE [waits EXCEPT ![job[a].from] = None]
          /\ UNCHANGED looking
      BY <2>5 DEF Finish
    <3> QED
      BY <2>0, <3>1
  <2>6. CASE Deliver
    BY <2>0, <2>6 DEF Deliver, Ask
  <2>7. CASE StopPlugin
    BY <2>0, <2>7 DEF StopPlugin, Ask
  <2>8. CASE Signal \/ StopMailbox \/ MailboxStopped \/ UNCHANGED vars
    BY <2>8 DEF Signal, StopMailbox, MailboxStopped, vars
  <2>9. ASSUME NEW a \in Actors, Panic(a) PROVE Allowed'
    BY <2>9 DEF Panic
  <2> QED
    BY <2>1, <2>2, <2>3, <2>4, <2>5, <2>6, <2>7, <2>8, <2>9 DEF Next, GoOn, Quiet
<1> QED
  BY <1>1, <1>2, TypeInvHolds, PTL DEF Spec

(* In a set of goroutines none of which is lost or can go on and which     *)
(* holds all that its members wait for, nobody waits for the lock, and an  *)
(* actor that has anything to do waits for another that has.               *)
LEMMA StuckActors ==
    ASSUME TypeInv, NEW S \in SUBSET Threads,
           \A t \in S : WaitsFor(t) \subseteq S /\ ~CanGoOn(t), S \cap lost = {}
    PROVE  /\ S \cap writing = {}
           /\ \A t \in S : waits[t] # None => /\ waits[t] \in S \cap Actors
                                              /\ job[waits[t]] # None \/ inbox[waits[t]] # <<>>
           /\ \A a \in S \cap Actors : job[a] # None \/ inbox[a] # <<>> => waits[a] # None
<1>0. Actors \subseteq Callers /\ Callers \subseteq Threads
  BY DEF Callers, Threads
<1>1. S \cap writing = {}
  <2> SUFFICES ASSUME NEW t \in S, t \in writing PROVE FALSE
    OBVIOUS
  <2>1. PICK r \in Readers : TRUE
    BY DEF CanGoOn
  <2>2. r \in S /\ r \in Callers /\ looking[r] # None
    BY <2>1 DEF WaitsFor, Readers
  <2> QED
    BY <2>2 DEF CanGoOn
<1>2. ASSUME NEW t \in S, waits[t] # None
      PROVE  waits[t] \in S \cap Actors /\ (job[waits[t]] # None \/ inbox[waits[t]] # <<>>)
  <2>1. waits[t] \in S /\ waits[t] \in Actors
    BY <1>2 DEF WaitsFor, TypeInv, Mail
  <2>2. Answering(waits[t], t)
    BY <1>2 DEF TypeInv, Answered
  <2>3. CASE \E k \in DOMAIN inbox[waits[t]] : inbox[waits[t]][k].from = t
    <3>1. DOMAIN inbox[waits[t]] # {} /\ inbox[waits[t]] \in Seq(Functions)
      BY <2>1, <2>3 DEF TypeInv, Mail
    <3>2. inbox[waits[t]] # <<>>
      BY <3>1
    <3> QED
      BY <2>1, <3>2
  <2> QED
    BY <2>1, <2>2, <2>3 DEF Answering
<1>3. ASSUME NEW a \in S \cap Actors, job[a] # None \/ inbox[a] # <<>> PROVE waits[a] # None
  <2>1. job[a] # None /\ ~Free(a)
    BY <1>3 DEF CanGoOn
  <2>2. looking[a] = None
    BY <1>0 DEF CanGoOn
  <2> QED
    BY <1>1, <2>1, <2>2 DEF Free
<1> QED
  BY <1>1, <1>2, <1>3

(* For any plugins, handlers and calls that do not go in circles, whatever *)
(* is stopped: somebody whom a blocked goroutine waits for, directly or    *)
(* not, can go on, or one of them called a stub factory that panicked.     *)
(* Otherwise the actors among them would wait for each other in a circle   *)
(* of MayCall.                                                             *)
THEOREM NobodyGetsStuck == Spec => []NobodyIsStuck
<1>1. TypeInv /\ Allowed => NobodyIsStuck
  <2> SUFFICES ASSUME TypeInv, Allowed, NEW S \in SUBSET Threads,
                      \A t \in S : WaitsFor(t) \subseteq S /\ ~CanGoOn(t),
                      S \cap lost = {},
                      NEW t \in S, Blocked(t)
               PROVE  FALSE
    BY DEF NobodyIsStuck
  <2> DEFINE Busy == {a \in S \cap Actors : job[a] # None \/ inbox[a] # <<>>}
  <2>0. /\ S \cap writing = {}
        /\ \A u \in S : waits[u] # None => waits[u] \in Busy
        /\ \A a \in Busy : waits[a] # None
    <3>1. /\ S \cap writing = {}
          /\ \A u \in S : waits[u] # None => /\ waits[u] \in S \cap Actors
                                             /\ job[waits[u]] # None \/ inbox[waits[u]] # <<>>
          /\ \A a \in S \cap Actors : job[a] # None \/ inbox[a] # <<>> => waits[a] # None
      BY StuckActors
    <3>2. ASSUME NEW u \in S, waits[u] # None PROVE waits[u] \in Busy
      <4>1. waits[u] \in S \cap Actors /\ (job[waits[u]] # None \/ inbox[waits[u]] # <<>>)
        BY <3>1, <3>2
      <4> QED
        BY <4>1
    <3>3. \A a \in Busy : waits[a] # None
      BY <3>1
    <3> HIDE DEF Busy
    <3> QED
      BY <3>1, <3>2, <3>3
  <2>1. ASSUME NEW a \in Busy PROVE waits[a] \in Busy /\ <<a, waits[a]>> \in MayCall
    <3>1. a \in Callers
      BY DEF Callers
    <3> QED
      BY <2>0, <3>1 DEF Allowed
  <2>2. Busy = {}
    <3>1. Busy \in SUBSET Actors
      OBVIOUS
    <3> HIDE DEF Busy
    <3> QED
      BY <2>1, <3>1 DEF Acyclic
  <2>3. ASSUME NEW u \in S PROVE waits[u] = None /\ u \notin writing
    BY <2>0, <2>2
  <2>4. t = Main /\ StoppingMailbox /\ waits[Main] = None /\ ~open[Stopping]
    BY <2>3 DEF Blocked, CanGoOn
  <2>5. Stopping \in S \cap Actors /\ (Stopping = Events => Dispatcher \in S)
    <3>1. Stopping \in Actors
      BY <2>4 DEF Stopping, Actors, Managers
    <3> QED
      BY <2>4, <3>1 DEF WaitsFor
  <2>6. inbox[Stopping] = <<>> /\ job[Stopping] = None
    BY <2>2, <2>5
  <2>7. Stopping = Events => queue = <<>> /\ waits[Dispatcher] = None
    BY <2>3, <2>5 DEF CanGoOn
  <2> QED
    BY <2>4, <2>6, <2>7 DEF CanGoOn
<1> QED
  BY <1>1, TypeInvHolds, AllowedHolds, PTL
================================================================================

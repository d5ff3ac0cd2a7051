-------------------------- MODULE EventManagerProofs --------------------------
(***************************************************************************)
(* What EventManager guarantees for any plugins, callers, registrations,   *)
(* events and removals, with runners that stop or do not.                  *)
(***************************************************************************)
EXTENDS EventManager, FiniteSetTheorems, SequenceTheorems, TLAPS

USE EventManagerAssumption DEF EventManagerAssumption, Handles, Clients, Pairs

(* The requests in the mailbox, and the dispatch requests.                 *)
Requests == [kind : {"broadcast"}]
            \cup [kind : {"add"}, from : Clients, plugin : Plugins]
            \cup [kind : {"remove"}, from : Clients, handle : Handles]
Dispatches == [pair : Pairs, plugin : Plugins]

Over == delivered \cup dropped
Owes(i, h) == i \in 1..Len(audience) /\ h \in Handles /\ h \in audience[i]

(* The inductive invariant, in parts.                                      *)
Registry ==
    /\ receivers \in [Handles -> Plugins \cup {None}] /\ counter \in 0..MaxHandles
    /\ audience \in Seq(SUBSET Handles) /\ Len(audience) \in 0..MaxEvents
    /\ wait \in [Clients -> BOOLEAN]
    /\ asked \in [broadcast : Nat, add : Nat, remove : Nat]

(* Requests of a kind are numbered in the order they were accepted: those  *)
(* handled, those in the mailbox, and in total no more than the bound.     *)
Counts(q, kind, done, total, bound) ==
    \E f \in [0..Len(q) -> 0..bound] :
        /\ f[0] = done /\ f[Len(q)] = total
        /\ \A k \in 1..Len(q) : f[k] = f[k - 1] + IF q[k].kind = kind THEN 1 ELSE 0
Mailbox ==
    /\ inbox \in Seq(Requests)
    /\ Counts(inbox, "add", counter, asked.add, MaxHandles)
    /\ Counts(inbox, "broadcast", Len(audience), asked.broadcast, MaxEvents)

(* The dispatcher and the runners.                                         *)
Runners ==
    /\ delivering \in Dispatches \cup {None}
    /\ accepts \in [Plugins -> BOOLEAN]
    /\ job \in [Plugins -> {"none", "own", "receiver"}]
    /\ \A p \in Plugins : job[p] = "receiver" => delivering # None /\ delivering.plugin = p

(* Stop goes through its steps with nothing left behind.                   *)
Stopped ==
    /\ stop \in {"no", "mailbox", "closing", "returned"}
    /\ dispatcher \in {"running", "done"} /\ closed \in BOOLEAN
    /\ stop \in {"closing", "returned"} => inbox = <<>>
    /\ closed => stop \in {"closing", "returned"}
    /\ dispatcher = "done" => closed /\ queue = <<>> /\ delivering = None
    /\ stop = "returned" => dispatcher = "done"

(* What is on the way: the queue, and what is taken from it, hold the      *)
(* pairs that are owed and not over, each once, in the order of events.    *)
Line ==
    /\ queue \in Seq(Dispatches)
    /\ \A pr \in Over : pr \in Pairs /\ Owes(pr[1], pr[2])
    /\ \A k \in 1..Len(queue) : Owes(queue[k].pair[1], queue[k].pair[2]) /\ queue[k].pair \notin Over
    /\ \A k, l \in 1..Len(queue) :
          k < l => queue[k].pair # queue[l].pair /\ queue[k].pair[1] <= queue[l].pair[1]
    /\ delivering # None =>
          /\ Owes(delivering.pair[1], delivering.pair[2]) /\ delivering.pair \notin Over
          /\ \A k \in 1..Len(queue) : /\ queue[k].pair # delivering.pair
                                     /\ delivering.pair[1] <= queue[k].pair[1]
    /\ \A i \in 1..Len(audience), h \in Handles :
          h \in audience[i] /\ <<i, h>> \notin Over
              => \/ delivering # None /\ delivering.pair = <<i, h>>
                 \/ \E k \in 1..Len(queue) : queue[k].pair = <<i, h>>

EInv == Registry /\ Mailbox /\ Runners /\ Stopped /\ Line

--------------------------------------------------------------------------------
(* Counting requests: one is accepted, or the first is handled.            *)
LEMMA CountsAppend ==
    ASSUME NEW q \in Seq(Requests), NEW r \in Requests, NEW kind, NEW bound \in Nat,
           NEW done, NEW total, NEW more, Counts(q, kind, done, total, bound),
           more = total + IF r.kind = kind THEN 1 ELSE 0, more \in 0..bound
    PROVE  Counts(Append(q, r), kind, done, more, bound)
<1>1. PICK f \in [0..Len(q) -> 0..bound] :
          /\ f[0] = done /\ f[Len(q)] = total
          /\ \A k \in 1..Len(q) : f[k] = f[k - 1] + IF q[k].kind = kind THEN 1 ELSE 0
  BY DEF Counts
<1>2. PICK n \in Nat : n = Len(q)
  BY LenProperties
<1>3. PICK s \in Seq(Requests) : s = Append(q, r)
  BY AppendProperties
<1>4. /\ Len(s) = n + 1 /\ s[n + 1] = r /\ \A k \in 1..n : s[k] = q[k]
  BY <1>2, <1>3, AppendProperties
<1> DEFINE g == [k \in 0..(n + 1) |-> IF k \in 0..n THEN f[k] ELSE more]
<1>5. g \in [0..(n + 1) -> 0..bound]
  BY <1>1, <1>2
<1>6. g[0] = done /\ g[n + 1] = more
  BY <1>1, <1>2
<1>7. ASSUME NEW k \in 1..(n + 1)
      PROVE  g[k] = g[k - 1] + IF s[k].kind = kind THEN 1 ELSE 0
  <2>1. CASE k \in 1..n
    BY <1>1, <1>2, <1>4, <2>1
  <2>2. CASE k = n + 1
    BY <1>1, <1>2, <1>4, <2>2
  <2> QED
    BY <2>1, <2>2
<1> HIDE DEF g
<1> QED
  BY <1>3, <1>4, <1>5, <1>6, <1>7 DEF Counts

LEMMA CountsTail ==
    ASSUME NEW q \in Seq(Requests), q # <<>>, NEW kind, NEW bound \in Nat,
           NEW done, NEW total, Counts(q, kind, done, total, bound)
    PROVE  LET next == done + IF Head(q).kind = kind THEN 1 ELSE 0
           IN  next \in 0..bound /\ Counts(Tail(q), kind, next, total, bound)
<1>1. PICK f \in [0..Len(q) -> 0..bound] :
          /\ f[0] = done /\ f[Len(q)] = total
          /\ \A k \in 1..Len(q) : f[k] = f[k - 1] + IF q[k].kind = kind THEN 1 ELSE 0
  BY DEF Counts
<1>2. PICK n \in Nat : Len(q) = n + 1
  <2>1. Len(q) \in Nat /\ Len(q) # 0
    BY LenProperties, EmptySeq
  <2> QED
    BY <2>1
<1>3. PICK s \in Seq(Requests) : s = Tail(q)
  BY HeadTailProperties
<1>4. /\ Len(s) = n /\ Head(q) = q[1] /\ \A k \in 1..n : s[k] = q[k + 1]
  BY <1>2, <1>3, HeadTailProperties
<1> DEFINE g == [k \in 0..n |-> f[k + 1]]
<1>5. g \in [0..n -> 0..bound]
  BY <1>1, <1>2
<1>6. g[0] = f[1] /\ g[n] = total
  BY <1>1, <1>2
<1>7. f[1] = done + IF Head(q).kind = kind THEN 1 ELSE 0
  <2>1. 1 \in 1..Len(q) /\ 1 - 1 = 0
    BY <1>2
  <2>2. f[1] = f[1 - 1] + IF q[1].kind = kind THEN 1 ELSE 0
    BY <1>1, <2>1
  <2> QED
    BY <1>1, <1>4, <2>1, <2>2
<1>8. ASSUME NEW k \in 1..n
      PROVE  g[k] = g[k - 1] + IF s[k].kind = kind THEN 1 ELSE 0
  <2>1. PICK j \in 1..Len(q) : j = k + 1 /\ j - 1 = k
    BY <1>2
  <2>2. f[j] = f[j - 1] + IF q[j].kind = kind THEN 1 ELSE 0
    BY <1>1
  <2>3. g[k] = f[j] /\ g[k - 1] = f[j - 1] /\ s[k] = q[j]
    BY <1>4, <2>1
  <2> HIDE DEF g
  <2> QED
    BY <2>1, <2>2, <2>3
<1>9. f[1] \in 0..bound
  <2>1. 1 \in 0..Len(q)
    BY <1>2
  <2> HIDE DEF g
  <2> QED
    BY <2>1
<1> HIDE DEF g
<1>10. Counts(s, kind, f[1], total, bound)
  BY <1>4, <1>5, <1>6, <1>8 DEF Counts
<1> QED
  BY <1>3, <1>7, <1>9, <1>10

(* A queue that another joins at its end.                                  *)
LEMMA ConcatParts ==
    ASSUME NEW D, NEW s \in Seq(D), NEW b \in Seq(D), NEW t, t = s \o b
    PROVE  /\ t \in Seq(D) /\ Len(t) = Len(s) + Len(b)
           /\ \A k \in 1..Len(s) : t[k] = s[k]
           /\ \A k \in 1..Len(b) : t[Len(s) + k] = b[k]
<1>1. /\ s \o b \in Seq(D) /\ Len(s \o b) = Len(s) + Len(b)
      /\ \A i \in 1..(Len(s) + Len(b)) : (s \o b)[i] = IF i <= Len(s) THEN s[i] ELSE b[i - Len(s)]
  BY ConcatProperties
<1>2. PICK n \in Nat, m \in Nat : n = Len(s) /\ m = Len(b)
  BY LenProperties
<1>3. \A i \in 1..(n + m) : t[i] = IF i <= n THEN s[i] ELSE b[i - n]
  BY <1>1, <1>2
<1>4. ASSUME NEW k \in 1..n PROVE t[k] = s[k]
  <2>1. k \in 1..(n + m) /\ k <= n
    OBVIOUS
  <2> QED
    BY <1>3, <2>1
<1>5. ASSUME NEW k \in 1..m PROVE t[n + k] = b[k]
  <2>1. PICK i \in 1..(n + m) : i = n + k /\ ~(i <= n) /\ i - n = k
    OBVIOUS
  <2> QED
    BY <1>3, <2>1
<1> QED
  BY <1>1, <1>2, <1>4, <1>5

(* Each receiver that matches is visited, once.                            *)
LEMMA VisitsOnce ==
    ASSUME NEW S \in SUBSET Handles, NEW q \in Visits(S)
    PROVE  /\ Cardinality(S) \in Nat /\ q \in [1..Cardinality(S) -> S]
           /\ \A h \in S : \E k \in 1..Cardinality(S) : q[k] = h
           /\ \A k, l \in 1..Cardinality(S) : k # l => q[k] # q[l]
<1>1. IsFiniteSet(S)
  <2>1. 1 \in Int /\ MaxHandles \in Int
    OBVIOUS
  <2>2. IsFiniteSet(1..MaxHandles)
    BY <2>1, FS_Interval
  <2> QED
    BY <2>2, FS_Subset
<1>2. Cardinality(S) \in Nat
  BY <1>1, FS_CardinalityType
<1>3. /\ q \in [1..Cardinality(S) -> S]
      /\ \A h \in S : \E k \in 1..Cardinality(S) : q[k] = h
  BY DEF Visits
<1>4. q \in Surjection(1..Cardinality(S), S)
  BY <1>3 DEF Surjection
<1>5. IsFiniteSet(1..Cardinality(S)) /\ Cardinality(1..Cardinality(S)) = Cardinality(S)
  <2> DEFINE n == Cardinality(S)
  <2>1. 1 \in Int /\ n \in Int /\ (IF 1 > n THEN 0 ELSE n - 1 + 1) = n
    BY <1>2
  <2> HIDE DEF n
  <2>2. IsFiniteSet(1..n) /\ Cardinality(1..n) = n
    BY <2>1, FS_Interval
  <2> QED
    BY <2>2 DEF n
<1>6. q \in Injection(1..Cardinality(S), S)
  BY <1>1, <1>4, <1>5, FS_SurjSameCardinalityImpliesInj
<1>7. \A k, l \in 1..Cardinality(S) : q[k] = q[l] => k = l
  BY <1>6 DEF Injection, IsInjective
<1> QED
  BY <1>2, <1>3, <1>7
--------------------------------------------------------------------------------
(* A step that leaves the queue, what is owed and what is over leaves the  *)
(* line as it was, and one that leaves the registrations leaves those.     *)
LEMMA SameLine ==
    ASSUME Line, UNCHANGED <<queue, delivering, audience, delivered, dropped>>
    PROVE  Line'
<1>1. Over' = Over
  BY DEF Over
<1> QED
  BY ZenonT(30), <1>1 DEF Line, Owes

LEMMA SameMailbox ==
    ASSUME Mailbox, UNCHANGED <<inbox, counter, audience, asked>>
    PROVE  Mailbox'
BY DEF Mailbox

(* A client's request is accepted.                                         *)
LEMMA AskKeeps ==
    ASSUME EInv, NEW r \in Requests, NEW bound, Ask(r.kind, bound, r), wait' \in [Clients -> BOOLEAN],
           r.kind = "add" => bound = MaxHandles, r.kind = "broadcast" => bound = MaxEvents
    PROVE  EInv'
<1> USE DEF EInv, stopVars, historyVars, runnerVars, dispatchVars, managerVars
<1>1. /\ stop = "no" /\ inbox' = Append(inbox, r)
      /\ UNCHANGED <<receivers, counter, queue, delivering, dispatcher, stop, closed, accepts, job,
                     audience, delivered, dropped>>
      /\ asked[r.kind] < bound /\ asked' = [asked EXCEPT ![r.kind] = @ + 1]
  BY DEF Ask
<1>2. r.kind \in {"broadcast", "add", "remove"}
  BY DEF Requests
<1>3. asked' \in [broadcast : Nat, add : Nat, remove : Nat]
  BY SMTT(30), <1>1, <1>2 DEF Registry
<1>4. Registry'
  BY <1>1, <1>3 DEF Registry
<1>5. Mailbox'
  <2>1. inbox \in Seq(Requests) /\ inbox' \in Seq(Requests)
    BY <1>1, AppendProperties DEF Mailbox
  <2>2. Counts(inbox', "add", counter, asked'.add, MaxHandles)
    <3>1. /\ asked'.add = asked.add + IF r.kind = "add" THEN 1 ELSE 0
          /\ asked'.add \in 0..MaxHandles
      <4>1. asked.add \in 0..MaxHandles
        BY SMTT(30), LenProperties, <2>1 DEF Mailbox, Counts
      <4> QED
        BY <1>1, <1>2, <4>1 DEF Registry
    <3> QED
      BY <1>1, <2>1, <3>1, CountsAppend DEF Mailbox
  <2>3. Counts(inbox', "broadcast", Len(audience), asked'.broadcast, MaxEvents)
    <3>1. /\ asked'.broadcast = asked.broadcast + IF r.kind = "broadcast" THEN 1 ELSE 0
          /\ asked'.broadcast \in 0..MaxEvents
      <4>1. asked.broadcast \in 0..MaxEvents
        BY SMTT(30), LenProperties, <2>1 DEF Mailbox, Counts
      <4> QED
        BY <1>1, <1>2, <4>1 DEF Registry
    <3> QED
      BY <1>1, <2>1, <3>1, CountsAppend DEF Mailbox
  <2> QED
    BY <1>1, <2>1, <2>2, <2>3 DEF Mailbox
<1>6. Runners' /\ Stopped'
  BY <1>1 DEF Runners, Stopped
<1>7. Line'
  BY <1>1, SameLine
<1> QED
  BY <1>4, <1>5, <1>6, <1>7

(* The mailbox goroutine takes a request of this kind.                     *)
LEMMA RequestTakes ==
    ASSUME EInv, NEW kind \in {"broadcast", "add", "remove"}, Request(kind)
    PROVE  /\ Head(inbox) \in Requests /\ Head(inbox).kind = kind
           /\ inbox' \in Seq(Requests)
           /\ LET c == counter + IF kind = "add" THEN 1 ELSE 0 IN
              c \in 0..MaxHandles /\ Counts(inbox', "add", c, asked.add, MaxHandles)
           /\ LET n == Len(audience) + IF kind = "broadcast" THEN 1 ELSE 0 IN
              n \in 0..MaxEvents /\ Counts(inbox', "broadcast", n, asked.broadcast, MaxEvents)
           /\ stop \in {"no", "mailbox"} /\ ~closed /\ dispatcher = "running"
           /\ UNCHANGED <<delivering, dispatcher, stop, closed, accepts, job, delivered, dropped, asked>>
<1> USE DEF EInv, stopVars, runnerVars, dispatchVars
<1>1. inbox \in Seq(Requests) /\ inbox # <<>> /\ inbox' = Tail(inbox) /\ Head(inbox).kind = kind
  BY DEF Request, Mailbox
<1>2. Head(inbox) \in Requests /\ inbox' \in Seq(Requests)
  BY <1>1, HeadTailProperties
<1>3. Counts(inbox, "add", counter, asked.add, MaxHandles)
  BY DEF Mailbox
<1>4. Counts(inbox, "broadcast", Len(audience), asked.broadcast, MaxEvents)
  BY DEF Mailbox
<1>5. LET c == counter + IF kind = "add" THEN 1 ELSE 0 IN
      c \in 0..MaxHandles /\ Counts(inbox', "add", c, asked.add, MaxHandles)
  BY <1>1, <1>3, CountsTail
<1>6. LET n == Len(audience) + IF kind = "broadcast" THEN 1 ELSE 0 IN
      n \in 0..MaxEvents /\ Counts(inbox', "broadcast", n, asked.broadcast, MaxEvents)
  BY <1>1, <1>4, CountsTail
<1>7. stop \in {"no", "mailbox"}
  BY <1>1 DEF Stopped
<1>8. ~closed
  BY <1>7 DEF Stopped
<1>9. dispatcher = "running"
  BY <1>8 DEF Stopped
<1>10. UNCHANGED <<delivering, dispatcher, stop, closed, accepts, job, delivered, dropped, asked>>
  BY DEF Request
<1> QED
  BY <1>1, <1>2, <1>5, <1>6, <1>7, <1>8, <1>9, <1>10

LEMMA AddKeeps == EInv /\ HandleAddReceiver => EInv'
<1> SUFFICES ASSUME EInv, HandleAddReceiver PROVE EInv'
  OBVIOUS
<1> USE DEF EInv
<1>1. Request("add") /\ UNCHANGED <<queue, audience>>
  BY DEF HandleAddReceiver
<1>2. /\ Head(inbox) \in Requests /\ Head(inbox).kind = "add" /\ inbox' \in Seq(Requests)
      /\ counter + 1 \in 0..MaxHandles /\ Counts(inbox', "add", counter + 1, asked.add, MaxHandles)
      /\ Counts(inbox', "broadcast", Len(audience) + 0, asked.broadcast, MaxEvents)
      /\ stop \in {"no", "mailbox"} /\ ~closed /\ dispatcher = "running"
      /\ UNCHANGED <<delivering, dispatcher, stop, closed, accepts, job, delivered, dropped, asked>>
  BY <1>1, RequestTakes
<1>3. Head(inbox).plugin \in Plugins
  BY <1>2 DEF Requests
<1>4. counter' = counter + 1 /\ Len(audience) + 0 = Len(audience)
  BY DEF HandleAddReceiver, Registry
<1>5. Registry'
  <2>1. receivers' \in [Handles -> Plugins \cup {None}]
    BY <1>3 DEF HandleAddReceiver, Registry
  <2>2. wait' \in [Clients -> BOOLEAN]
    BY DEF HandleAddReceiver, Registry
  <2> QED
    BY <1>1, <1>2, <1>4, <2>1, <2>2 DEF Registry
<1>6. Mailbox'
  BY <1>1, <1>2, <1>4 DEF Mailbox
<1>7. Runners' /\ Stopped'
  BY <1>1, <1>2 DEF Runners, Stopped
<1>8. Line'
  BY <1>1, <1>2, SameLine
<1> QED
  BY <1>5, <1>6, <1>7, <1>8

LEMMA RemoveKeeps == EInv /\ HandleRemoveReceiver => EInv'
<1> SUFFICES ASSUME EInv, HandleRemoveReceiver PROVE EInv'
  OBVIOUS
<1> USE DEF EInv
<1>1. Request("remove") /\ UNCHANGED <<counter, queue, audience>>
  BY DEF HandleRemoveReceiver
<1>2. /\ inbox' \in Seq(Requests)
      /\ Counts(inbox', "add", counter + 0, asked.add, MaxHandles)
      /\ Counts(inbox', "broadcast", Len(audience) + 0, asked.broadcast, MaxEvents)
      /\ stop \in {"no", "mailbox"} /\ ~closed /\ dispatcher = "running"
      /\ UNCHANGED <<delivering, dispatcher, stop, closed, accepts, job, delivered, dropped, asked>>
  BY <1>1, RequestTakes
<1>3. counter + 0 = counter /\ Len(audience) + 0 = Len(audience)
  BY DEF Registry
<1>4. Registry'
  <2>1. receivers' \in [Handles -> Plugins \cup {None}]
    BY DEF HandleRemoveReceiver, Registry
  <2>2. wait' \in [Clients -> BOOLEAN]
    BY DEF HandleRemoveReceiver, Registry
  <2> QED
    BY <1>1, <1>2, <2>1, <2>2 DEF Registry
<1>5. Mailbox'
  BY <1>1, <1>2, <1>3 DEF Mailbox
<1>6. Runners' /\ Stopped'
  BY <1>1, <1>2 DEF Runners, Stopped
<1>7. Line'
  BY <1>1, <1>2, SameLine
<1> QED
  BY <1>4, <1>5, <1>6, <1>7

(* The requests of one event join the queue behind those of earlier ones.  *)
LEMMA BroadcastKeeps == EInv /\ HandleBroadcastEvent => EInv'
<1> SUFFICES ASSUME EInv, HandleBroadcastEvent PROVE EInv'
  OBVIOUS
<1> USE DEF EInv
<1>1. Request("broadcast") /\ UNCHANGED <<receivers, counter, wait>>
  BY DEF HandleBroadcastEvent
<1>2. PICK n \in Nat : n = Len(audience)
  BY DEF Registry
<1>3. /\ inbox' \in Seq(Requests)
      /\ Counts(inbox', "add", counter + 0, asked.add, MaxHandles)
      /\ n + 1 \in 0..MaxEvents /\ Counts(inbox', "broadcast", n + 1, asked.broadcast, MaxEvents)
      /\ stop \in {"no", "mailbox"} /\ ~closed /\ dispatcher = "running"
      /\ UNCHANGED <<delivering, dispatcher, stop, closed, accepts, job, delivered, dropped, asked>>
  BY <1>1, <1>2, RequestTakes
<1>4a. PICK S \in SUBSET Registered : \E q \in Visits(S) :
          /\ audience' = Append(audience, S)
          /\ queue' = queue \o [k \in DOMAIN q |-> [pair |-> <<n + 1, q[k]>>, plugin |-> receivers[q[k]]]]
  BY <1>2 DEF HandleBroadcastEvent
<1>4. PICK q \in Visits(S) :
          /\ audience' = Append(audience, S)
          /\ queue' = queue \o [k \in DOMAIN q |-> [pair |-> <<n + 1, q[k]>>, plugin |-> receivers[q[k]]]]
  BY <1>4a
<1>5. S \in SUBSET Handles /\ \A h \in S : receivers[h] \in Plugins
  BY DEF Registered, Registry
<1>6. /\ Len(audience') = n + 1 /\ audience'[n + 1] = S /\ audience' \in Seq(SUBSET Handles)
      /\ \A i \in 1..n : audience'[i] = audience[i]
  BY <1>2, <1>4, <1>5, AppendProperties DEF Registry
<1>7. PICK m \in Nat : m = Cardinality(S)
  BY <1>5, VisitsOnce
<1>8. /\ q \in [1..m -> S] /\ \A h \in S : \E k \in 1..m : q[k] = h
      /\ \A k, l \in 1..m : k # l => q[k] # q[l]
  <2>1. S \in SUBSET Handles /\ q \in Visits(S)
    BY <1>5, <1>4
  <2>2. /\ q \in [1..Cardinality(S) -> S] /\ \A h \in S : \E k \in 1..Cardinality(S) : q[k] = h
        /\ \A k, l \in 1..Cardinality(S) : k # l => q[k] # q[l]
    BY <2>1, VisitsOnce
  <2> HIDE DEF EInv
  <2> QED
    BY <1>7, <2>2
<1>9. PICK batch \in Seq(Dispatches) :
          /\ Len(batch) = m /\ queue' = queue \o batch
          /\ \A k \in 1..m : batch[k].pair = <<n + 1, q[k]>>
  <2> DEFINE b == [k \in DOMAIN q |-> [pair |-> <<n + 1, q[k]>>, plugin |-> receivers[q[k]]]]
  <2>1. \A k \in 1..m : [pair |-> <<n + 1, q[k]>>, plugin |-> receivers[q[k]]] \in Dispatches
    BY <1>3, <1>5, <1>8 DEF Dispatches
  <2>2. b \in [1..m -> Dispatches]
    BY <1>8, <2>1
  <2>4. \A k \in 1..m : b[k].pair = <<n + 1, q[k]>>
    BY <1>8
  <2>5. queue' = queue \o b
    BY <1>4
  <2> HIDE DEF b
  <2>3. b \in Seq(Dispatches) /\ Len(b) = m
    BY <2>2, SeqDef
  <2> QED
    BY <2>3, <2>4, <2>5
<1>10. PICK lq \in Nat : lq = Len(queue)
  BY LenProperties DEF Line
<1>10a. PICK N \in Nat : N = lq + m
  OBVIOUS
<1>11. /\ queue' \in Seq(Dispatches) /\ Len(queue') = N
       /\ \A k \in 1..lq : queue'[k] = queue[k] /\ k \in 1..N
       /\ \A k \in (lq + 1)..N : \E j \in 1..m : k = lq + j /\ queue'[k].pair = <<n + 1, q[j]>>
       /\ \A j \in 1..m : \E k \in 1..N : queue'[k].pair = <<n + 1, q[j]>>
  <2>1. /\ queue' \in Seq(Dispatches) /\ Len(queue') = lq + m
        /\ \A k \in 1..lq : queue'[k] = queue[k]
        /\ \A j \in 1..m : queue'[lq + j] = batch[j]
    <3>1. queue \in Seq(Dispatches) /\ batch \in Seq(Dispatches) /\ queue' = queue \o batch
      BY <1>9 DEF Line
    <3>2. /\ queue' \in Seq(Dispatches) /\ Len(queue') = Len(queue) + Len(batch)
          /\ \A k \in 1..Len(queue) : queue'[k] = queue[k]
          /\ \A j \in 1..Len(batch) : queue'[Len(queue) + j] = batch[j]
      BY SMTT(30), <3>1, ConcatParts
    <3> QED
      BY <1>9, <1>10, <3>2
  <2>2. \A k \in 1..lq : k \in 1..N
    BY <1>10a
  <2>3. ASSUME NEW k \in (lq + 1)..N
        PROVE  \E j \in 1..m : k = lq + j /\ queue'[k].pair = <<n + 1, q[j]>>
    <3>1. PICK j \in 1..m : k = lq + j
      <4>1. k - lq \in 1..m /\ k = lq + (k - lq)
        BY <1>10a
      <4> QED
        BY <4>1
    <3>2. queue'[k] = batch[j]
      BY <2>1, <3>1
    <3> QED
      BY <1>9, <3>1, <3>2
  <2>4. ASSUME NEW j \in 1..m PROVE \E k \in 1..N : queue'[k].pair = <<n + 1, q[j]>>
    <3>1. PICK k \in 1..N : k = lq + j
      BY <1>10a
    <3>2. queue'[k] = batch[j]
      BY <2>1, <3>1
    <3> QED
      BY <1>9, <3>2
  <2> QED
    BY <1>10a, <2>1, <2>2, <2>3, <2>4
<1>12. Registry'
  BY <1>1, <1>3, <1>6 DEF Registry
<1>13. Mailbox'
  <2>1. counter + 0 = counter
    BY DEF Registry
  <2> QED
    BY <1>1, <1>3, <1>6, <2>1 DEF Mailbox
<1>14. Runners' /\ Stopped'
  BY <1>3 DEF Runners, Stopped
<1>15. Line'
  <2> USE <1>3
  <2>0. \A k \in (lq + 1)..N : \E h \in S : queue'[k].pair = <<n + 1, h>>
    BY <1>8, <1>11
  <2>1. \A i \in 1..n, h \in Handles : Owes(i, h)' <=> Owes(i, h)
    BY <1>2, <1>6 DEF Owes
  <2>2. \A h \in S : Owes(n + 1, h)'
    BY <1>5, <1>6 DEF Owes
  <2>3. \A pr \in Over : pr \in Pairs /\ pr[1] \in 1..n /\ pr[2] \in Handles /\ Owes(pr[1], pr[2])
    BY <1>2 DEF Line, Owes
  <2>4. Over' = Over
    BY DEF Over
  <2>5. \A k \in 1..lq : /\ queue[k].pair[1] \in 1..n /\ queue[k].pair[2] \in Handles
                         /\ Owes(queue[k].pair[1], queue[k].pair[2]) /\ queue[k].pair \notin Over
    BY <1>2, <1>10 DEF Line, Owes
  <2>6. \A pr \in Over' : pr \in Pairs /\ Owes(pr[1], pr[2])'
    BY <2>1, <2>3, <2>4
  <2>7. ASSUME NEW k \in 1..N
        PROVE  Owes(queue[k].pair[1], queue[k].pair[2])' /\ queue'[k].pair \notin Over'
    <3>1. CASE k \in 1..lq
      <4>1. PICK i \in 1..n, h \in Handles : queue[k].pair[1] = i /\ queue[k].pair[2] = h
        BY <2>5, <3>1
      <4>2. Owes(i, h)'
        BY <2>1, <2>5, <3>1, <4>1
      <4>3. queue'[k] = queue[k]
        BY <1>11, <3>1
      <4> QED
        BY <2>4, <2>5, <3>1, <4>1, <4>2, <4>3 DEF Owes
    <3>2. CASE k \in (lq + 1)..N
      <4>1. PICK h \in S : queue'[k].pair = <<n + 1, h>>
        BY <2>0, <3>2
      <4>2. <<n + 1, h>> \notin Over
        BY <2>3
      <4> QED
        BY <2>2, <2>4, <4>1, <4>2 DEF Owes
    <3> QED
      BY <3>1, <3>2
  <2>8. ASSUME NEW k \in 1..N, NEW l \in 1..N, k < l
        PROVE  queue'[k].pair # queue'[l].pair /\ queue'[k].pair[1] <= queue'[l].pair[1]
    <3>1. CASE l \in 1..lq
      <4>1. k \in 1..lq
        BY <2>8, <3>1
      <4> QED
        BY SMTT(30), <1>10, <1>11, <2>8, <3>1, <4>1 DEF Line
    <3>2. CASE k \in 1..lq /\ l \in (lq + 1)..N
      <4>0. PICK h \in S : queue'[l].pair = <<n + 1, h>>
        BY <2>0, <3>2
      <4>1. queue'[l].pair[1] = n + 1 /\ queue'[k] = queue[k]
        BY SMTT(30), <1>11, <3>2, <4>0
      <4>2. queue[k].pair[1] \in 1..n
        BY <2>5, <3>2
      <4> QED
        BY SMTT(30), <4>1, <4>2
    <3>3. CASE k \in (lq + 1)..N /\ l \in (lq + 1)..N
      <4>1. PICK j \in 1..m : k = lq + j /\ queue'[k].pair = <<n + 1, q[j]>>
        BY <1>11, <3>3
      <4>2. PICK i \in 1..m : l = lq + i /\ queue'[l].pair = <<n + 1, q[i]>>
        BY <1>11, <3>3
      <4>3. j # i
        BY <2>8, <4>1, <4>2
      <4>4. q[j] # q[i]
        BY <1>8, <4>3
      <4> QED
        BY <4>1, <4>2, <4>4
    <3> QED
      BY <2>8, <3>1, <3>2, <3>3
  <2>9. ASSUME delivering # None
        PROVE  /\ delivering.pair[1] \in 1..n /\ delivering.pair[2] \in Handles
               /\ Owes(delivering.pair[1], delivering.pair[2]) /\ delivering.pair \notin Over
               /\ \A k \in 1..lq : /\ queue[k].pair # delivering.pair
                                  /\ delivering.pair[1] <= queue[k].pair[1]
    BY <1>2, <1>10, <2>9 DEF Line, Owes
  <2>10. ASSUME delivering # None
         PROVE  /\ Owes(delivering.pair[1], delivering.pair[2])' /\ delivering'.pair \notin Over'
                /\ \A k \in 1..N : /\ queue'[k].pair # delivering'.pair
                                         /\ delivering'.pair[1] <= queue'[k].pair[1]
    <3>1. PICK i \in 1..n, h \in Handles : delivering.pair[1] = i /\ delivering.pair[2] = h
      BY <2>9, <2>10
    <3>2. Owes(i, h)'
      BY <2>1, <2>9, <2>10, <3>1
    <3>3. ASSUME NEW k \in 1..N
          PROVE  queue'[k].pair # delivering.pair /\ delivering.pair[1] <= queue'[k].pair[1]
      <4>1. CASE k \in 1..lq
        BY <1>11, <2>9, <2>10, <4>1
      <4>2. CASE k \in (lq + 1)..N
        <5>0. PICK g \in S : queue'[k].pair = <<n + 1, g>>
          BY <2>0, <4>2
        <5>1. queue'[k].pair[1] = n + 1
          BY <5>0
        <5> QED
          BY SMTT(30), <3>1, <5>1
      <4> QED
        BY SMTT(30), <4>1, <4>2
    <3> QED
      BY <2>4, <2>9, <2>10, <3>1, <3>2, <3>3 DEF Owes
  <2>11. ASSUME NEW i \in 1..(n + 1), NEW h \in Handles, h \in audience'[i], <<i, h>> \notin Over'
         PROVE  \/ delivering' # None /\ delivering'.pair = <<i, h>>
                \/ \E k \in 1..N : queue'[k].pair = <<i, h>>
    <3>1. CASE i \in 1..n
      <4>1. h \in audience[i] /\ <<i, h>> \notin Over
        BY <1>6, <2>4, <2>11, <3>1
      <4>2. \/ delivering # None /\ delivering.pair = <<i, h>>
            \/ \E k \in 1..lq : queue[k].pair = <<i, h>>
        BY <1>2, <1>10, <3>1, <4>1 DEF Line
      <4>3. ASSUME NEW k \in 1..lq, queue[k].pair = <<i, h>>
            PROVE  k \in 1..N /\ queue'[k].pair = <<i, h>>
        BY <1>11, <4>3
      <4> QED
        BY <4>2, <4>3
    <3>2. CASE i = n + 1
      <4>1. PICK j \in 1..m : q[j] = h
        BY <1>6, <1>8, <2>11, <3>2
      <4> QED
        BY <1>11, <3>2, <4>1
    <3> QED
      BY SMTT(30), <3>1, <3>2
  <2>12. Len(audience') = n + 1
    BY <1>6
  <2> HIDE DEF EInv
  <2> QED
    BY ZenonT(30), <1>11, <2>6, <2>7, <2>8, <2>10, <2>11, <2>12 DEF Line, Owes
<1> QED
  BY <1>12, <1>13, <1>14, <1>15
(* The first in the queue leaves it, to be delivered or to be refused.     *)
LEMMA TakeKeeps == EInv /\ TakeRequest => EInv'
<1> SUFFICES ASSUME EInv, TakeRequest PROVE EInv'
  OBVIOUS
<1> USE DEF EInv, stopVars, runnerVars
<1>1. /\ dispatcher = "running" /\ delivering = None /\ queue # <<>> /\ queue' = Tail(queue)
      /\ UNCHANGED <<inbox, receivers, counter, wait, dispatcher, stop, closed, accepts, job,
                     audience, delivered, asked>>
  BY DEF TakeRequest
<1>2. PICK d \in Dispatches : d = Head(queue)
  BY <1>1, HeadTailProperties DEF Line
<1>3. d # None /\ d.pair \in Pairs /\ d.plugin \in Plugins
  <2>1. d \in [pair : Nat \X Nat, plugin : Plugins]
    BY DEF Dispatches
  <2> QED
    BY <2>1 DEF Dispatches
<1>4. \/ delivering' = d /\ dropped' = dropped
      \/ delivering' = None /\ dropped' = dropped \cup {d.pair}
  BY <1>1, <1>2 DEF TakeRequest
<1>5. PICK n \in Nat : Len(queue) = n + 1
  <2>1. Len(queue) \in Nat /\ Len(queue) # 0
    BY <1>1, LenProperties, EmptySeq DEF Line
  <2>2. Len(queue) - 1 \in Nat /\ Len(queue) = (Len(queue) - 1) + 1
    BY <2>1
  <2> QED
    BY <2>2
<1>6. /\ queue' \in Seq(Dispatches) /\ Len(queue') = n /\ d = queue[1]
      /\ \A k \in 1..n : queue'[k] = queue[k + 1]
  BY <1>1, <1>2, <1>5, HeadTailProperties DEF Line
<1>7. Registry'
  BY <1>1 DEF Registry
<1>8. Mailbox'
  BY <1>1, SameMailbox
<1>9. Runners'
  BY <1>1, <1>4 DEF Runners
<1>10. Stopped'
  BY <1>1 DEF Stopped
<1>11. Line'
  <2>1. \A i, h : Owes(i, h)' <=> Owes(i, h)
    BY <1>1 DEF Owes
  <2>2. 1 \in 1..Len(queue) /\ Owes(d.pair[1], d.pair[2]) /\ d.pair \notin Over
    BY <1>5, <1>6 DEF Line
  <2>3. ASSUME NEW k \in 1..n
        PROVE  /\ Owes(queue'[k].pair[1], queue'[k].pair[2]) /\ queue'[k].pair \notin Over
               /\ queue'[k].pair # d.pair /\ d.pair[1] <= queue'[k].pair[1]
    <3>1. PICK j \in 1..Len(queue) : j = k + 1 /\ 1 < j
      BY <1>5
    <3>2. queue'[k] = queue[j]
      BY <1>6, <3>1
    <3> QED
      BY <1>6, <2>2, <3>1, <3>2 DEF Line
  <2>4. ASSUME NEW k \in 1..n, NEW l \in 1..n, k < l
        PROVE  queue'[k].pair # queue'[l].pair /\ queue'[k].pair[1] <= queue'[l].pair[1]
    <3>1. PICK j \in 1..Len(queue), i \in 1..Len(queue) : j = k + 1 /\ i = l + 1 /\ j < i
      BY <1>5, <2>4
    <3>2. queue'[k] = queue[j] /\ queue'[l] = queue[i]
      BY <1>6, <3>1
    <3> QED
      BY <3>1, <3>2 DEF Line
  <2>5. ASSUME NEW i \in 1..Len(audience), NEW h \in Handles, h \in audience[i], <<i, h>> \notin Over
        PROVE  d.pair = <<i, h>> \/ \E k \in 1..n : queue'[k].pair = <<i, h>>
    <3>1. PICK j \in 1..Len(queue) : queue[j].pair = <<i, h>>
      BY <1>1, <2>5 DEF Line
    <3>2. CASE j = 1
      BY <1>6, <3>1, <3>2
    <3>3. CASE j # 1
      <4>1. PICK k \in 1..n : j = k + 1
        <5>1. j - 1 \in 1..n /\ j = (j - 1) + 1
          BY <1>5, <3>3
        <5> QED
          BY <5>1
      <4> QED
        BY <1>6, <3>1, <4>1
    <3> QED
      BY <3>2, <3>3
  <2>6. CASE delivering' = d /\ dropped' = dropped
    <3>1. Over' = Over
      BY <1>1, <2>6 DEF Over
    <3>2. \A pr \in Over' : pr \in Pairs /\ Owes(pr[1], pr[2])'
      BY <2>1, <3>1 DEF Line
    <3>3. \A k \in 1..n : Owes(queue[k].pair[1], queue[k].pair[2])' /\ queue'[k].pair \notin Over'
      BY <1>1, <2>3, <3>1 DEF Owes
    <3>4. /\ Owes(delivering.pair[1], delivering.pair[2])' /\ delivering'.pair \notin Over'
          /\ \A k \in 1..n : queue'[k].pair # delivering'.pair /\ delivering'.pair[1] <= queue'[k].pair[1]
      BY <1>1, <2>2, <2>3, <2>6, <3>1 DEF Owes
    <3>5. ASSUME NEW i \in 1..Len(audience'), NEW h \in Handles, h \in audience'[i], <<i, h>> \notin Over'
          PROVE  \/ delivering' # None /\ delivering'.pair = <<i, h>>
                 \/ \E k \in 1..n : queue'[k].pair = <<i, h>>
      BY <1>1, <1>3, <2>5, <2>6, <3>1, <3>5
    <3> QED
      BY <1>6, <2>4, <3>2, <3>3, <3>4, <3>5 DEF Line
  <2>7. CASE delivering' = None /\ dropped' = dropped \cup {d.pair}
    <3>1. Over' = Over \cup {d.pair}
      BY <1>1, <2>7 DEF Over
    <3>2. \A pr \in Over' : pr \in Pairs /\ Owes(pr[1], pr[2])'
      BY <1>3, <2>1, <2>2, <3>1 DEF Line
    <3>3. \A k \in 1..n : Owes(queue[k].pair[1], queue[k].pair[2])' /\ queue'[k].pair \notin Over'
      BY <1>1, <2>3, <3>1 DEF Owes
    <3>5. ASSUME NEW i \in 1..Len(audience'), NEW h \in Handles, h \in audience'[i], <<i, h>> \notin Over'
          PROVE  \E k \in 1..n : queue'[k].pair = <<i, h>>
      BY <1>1, <2>5, <3>1, <3>5
    <3> QED
      BY <1>6, <2>4, <2>7, <3>2, <3>3, <3>5 DEF Line
  <2> QED
    BY <1>4, <2>6, <2>7
<1> QED
  BY <1>7, <1>8, <1>9, <1>10, <1>11

(* A receiver that has run is over.                                        *)
LEMMA FinishKeeps == ASSUME EInv, NEW p \in Plugins, FinishReceiver(p) PROVE EInv'
<1> USE DEF EInv, stopVars, managerVars
<1>1. /\ job[p] = "receiver" /\ job' = [job EXCEPT ![p] = "none"]
      /\ delivering' = None /\ delivered' = delivered \cup {delivering.pair}
      /\ UNCHANGED <<inbox, receivers, counter, queue, wait, dispatcher, stop, closed, accepts,
                     audience, dropped, asked>>
  BY DEF FinishReceiver
<1>2. delivering # None /\ delivering.plugin = p
  BY <1>1 DEF Runners
<1>3. delivering.pair \in Pairs
  BY <1>2 DEF Runners, Dispatches
<1>4. Registry' /\ Stopped'
  BY <1>1 DEF Registry, Stopped
<1>5. Mailbox'
  BY <1>1, SameMailbox
<1>6. Runners'
  <2>1. job' \in [Plugins -> {"none", "own", "receiver"}] /\ delivering' \in Dispatches \cup {None}
    BY <1>1 DEF Runners
  <2>2. \A r \in Plugins : job'[r] # "receiver"
    BY <1>1, <1>2 DEF Runners
  <2> QED
    BY <1>1, <2>1, <2>2 DEF Runners
<1>7. Line'
  <2>1. Over' = Over \cup {delivering.pair}
    BY <1>1 DEF Over
  <2>2. \A i, h : Owes(i, h)' <=> Owes(i, h)
    BY <1>1 DEF Owes
  <2>3. /\ Owes(delivering.pair[1], delivering.pair[2])
        /\ \A k \in 1..Len(queue) : queue[k].pair # delivering.pair
    BY <1>2 DEF Line
  <2>4. \A pr \in Over' : pr \in Pairs /\ Owes(pr[1], pr[2])'
    BY <1>3, <2>1, <2>2, <2>3 DEF Line
  <2>5. \A k \in 1..Len(queue') : Owes(queue[k].pair[1], queue[k].pair[2])' /\ queue'[k].pair \notin Over'
    BY <1>1, <2>1, <2>3 DEF Line, Owes
  <2>6. ASSUME NEW i \in 1..Len(audience'), NEW h \in Handles, h \in audience'[i], <<i, h>> \notin Over'
        PROVE  \E k \in 1..Len(queue') : queue'[k].pair = <<i, h>>
    BY <1>1, <2>1, <2>6 DEF Line
  <2>7. /\ queue' \in Seq(Dispatches) /\ delivering' = None
        /\ \A k, l \in 1..Len(queue') :
              k < l => queue'[k].pair # queue'[l].pair /\ queue'[k].pair[1] <= queue'[l].pair[1]
    BY <1>1 DEF Line
  <2>8. queue' = queue
    BY <1>1
  <2> HIDE DEF EInv
  <2> QED
    BY ZenonT(30), <2>4, <2>5, <2>6, <2>7, <2>8 DEF Line, Owes
<1> QED
  BY <1>4, <1>5, <1>6, <1>7

(* The invariant holds at every step.                                      *)
LEMMA InvHolds == Spec => []EInv
<1>1. Init => EInv
  <2> SUFFICES ASSUME Init PROVE EInv
    OBVIOUS
  <2>1. Registry
    BY EmptySeq DEF Init, Registry
  <2>2. Mailbox
    <3>1. inbox = <<>> /\ counter = 0 /\ Len(audience) = 0 /\ asked.add = 0 /\ asked.broadcast = 0
      BY EmptySeq DEF Init
    <3>2. ASSUME NEW kind, NEW bound \in Nat PROVE Counts(<<>>, kind, 0, 0, bound)
      <4> DEFINE f == [k \in 0..0 |-> 0]
      <4>1. f \in [0..Len(<<>>) -> 0..bound] /\ f[0] = 0 /\ f[Len(<<>>)] = 0 /\ 1..Len(<<>>) = {}
        BY EmptySeq
      <4> HIDE DEF f
      <4> QED
        BY <4>1 DEF Counts
    <3> QED
      BY <3>1, <3>2, EmptySeq DEF Mailbox
  <2>3. Runners /\ Stopped
    BY DEF Init, Runners, Stopped
  <2>4. Line
    <3>1. queue = <<>> /\ Len(queue) = 0 /\ Len(audience) = 0 /\ Over = {} /\ delivering = None
      BY EmptySeq DEF Init, Over
    <3>2. queue \in Seq(Dispatches) /\ 1..Len(queue) = {} /\ 1..Len(audience) = {}
      BY <3>1, EmptySeq
    <3> QED
      BY <3>1, <3>2 DEF Line
  <2> QED
    BY <2>1, <2>2, <2>3, <2>4 DEF EInv
<1>2. EInv /\ [Next]_vars => EInv'
  <2> SUFFICES ASSUME EInv, [Next]_vars PROVE EInv'
    OBVIOUS
  <2> USE DEF managerVars, stopVars, historyVars, runnerVars, dispatchVars
  <2>1. ASSUME NEW c \in Clients, ClientCall(c) PROVE EInv'
    <3>1. CASE BroadcastEvent(c)
      <4>1. [kind |-> "broadcast"] \in Requests
        BY DEF Requests
      <4> QED
        BY <3>1, <4>1, AskKeeps DEF BroadcastEvent, EInv, Registry
    <3>2. ASSUME NEW p \in Plugins, AddReceiver(c, p) PROVE EInv'
      <4>1. [kind |-> "add", from |-> c, plugin |-> p] \in Requests
        BY DEF Requests
      <4> QED
        BY <3>2, <4>1, AskKeeps DEF AddReceiver, EInv, Registry
    <3>3. ASSUME NEW h \in Handles, RemoveReceiver(c, h) PROVE EInv'
      <4>1. [kind |-> "remove", from |-> c, handle |-> h] \in Requests
        BY DEF Requests
      <4> QED
        BY <3>3, <4>1, AskKeeps DEF RemoveReceiver, EInv, Registry
    <3> QED
      BY <2>1, <3>1, <3>2, <3>3 DEF ClientCall
  <2>2. CASE Handle
    BY <2>2, BroadcastKeeps, AddKeeps, RemoveKeeps DEF Handle
  <2>3. CASE Dispatch
    <3>1. CASE DispatcherExit
      <4>1. /\ dispatcher' = "done" /\ closed /\ queue = <<>> /\ delivering = None
            /\ UNCHANGED <<inbox, receivers, counter, queue, wait, delivering, stop, closed, accepts, job,
                           audience, delivered, dropped, asked>>
        BY <3>1 DEF DispatcherExit
      <4>2. Registry' /\ Mailbox' /\ Line'
        BY <4>1, SameLine, SameMailbox DEF EInv, Registry
      <4>3. Runners' /\ Stopped'
        BY <4>1 DEF EInv, Runners, Stopped
      <4> QED
        BY <4>2, <4>3 DEF EInv
    <3> QED
      BY <2>3, <3>1, TakeKeeps DEF Dispatch
  <2>4. ASSUME NEW p \in Plugins, StartOwnWork(p) \/ RunReceiver(p) \/ FinishOwnWork(p) \/ StopPluginRunner(p)
        PROVE  EInv'
    <3>1. UNCHANGED <<inbox, receivers, counter, queue, wait, delivering, dispatcher, stop, closed,
                      audience, delivered, dropped, asked>>
      BY <2>4 DEF StartOwnWork, RunReceiver, FinishOwnWork, StopPluginRunner
    <3>2. Registry' /\ Mailbox' /\ Line' /\ Stopped'
      BY <3>1, SameLine, SameMailbox DEF EInv, Registry, Stopped
    <3>3. accepts' \in [Plugins -> BOOLEAN]
      BY <2>4 DEF StartOwnWork, RunReceiver, FinishOwnWork, StopPluginRunner, EInv, Runners
    <3>4. job' \in [Plugins -> {"none", "own", "receiver"}]
      BY <2>4 DEF StartOwnWork, RunReceiver, FinishOwnWork, StopPluginRunner, EInv, Runners
    <3>5. \A r \in Plugins : job'[r] = "receiver" => delivering # None /\ delivering.plugin = r
      BY <2>4 DEF StartOwnWork, RunReceiver, FinishOwnWork, StopPluginRunner, EInv, Runners
    <3> QED
      BY <3>1, <3>2, <3>3, <3>4, <3>5 DEF EInv, Runners
  <2>5. ASSUME NEW p \in Plugins, FinishReceiver(p) PROVE EInv'
    BY <2>5, FinishKeeps
  <2>6. CASE StopMailbox \/ Stopping
    <3>1. UNCHANGED <<inbox, receivers, counter, queue, wait, delivering, dispatcher, accepts, job,
                      audience, delivered, dropped, asked>>
      BY <2>6 DEF StopMailbox, Stopping, CloseDispatch, StopReturn
    <3>2. Registry' /\ Mailbox' /\ Line' /\ Runners'
      BY <3>1, SameLine, SameMailbox DEF EInv, Registry, Runners
    <3>3. Stopped'
      <4> USE <3>1 DEF EInv, Stopped
      <4>1. CASE StopMailbox
        BY <4>1 DEF StopMailbox
      <4>2. CASE CloseDispatch
        BY <4>2 DEF CloseDispatch
      <4>3. CASE StopReturn
        BY <4>3 DEF StopReturn
      <4> QED
        BY <2>6, <4>1, <4>2, <4>3 DEF Stopping
    <3> QED
      BY <3>2, <3>3 DEF EInv
  <2>7. CASE UNCHANGED vars
    <3>1. UNCHANGED <<inbox, receivers, counter, queue, wait, delivering, dispatcher, stop, closed, accepts,
                      job, audience, delivered, dropped, asked>>
      BY <2>7 DEF vars
    <3>2. Registry' /\ Mailbox' /\ Line' /\ Runners' /\ Stopped'
      BY <3>1, SameLine, SameMailbox DEF EInv, Registry, Runners, Stopped
    <3> QED
      BY <3>2 DEF EInv
  <2> QED
    BY <2>1, <2>2, <2>3, <2>4, <2>5, <2>6, <2>7 DEF Next, Finish, Quiet
<1> QED
  BY <1>1, <1>2, PTL DEF Spec

(* Every variable keeps to its range.                                      *)
THEOREM TypeCorrect == Spec => []TypeOK
<1>1. EInv => TypeOK
  <2> SUFFICES ASSUME EInv PROVE TypeOK
    OBVIOUS
  <2> USE DEF EInv
  <2>1. \A k \in DOMAIN queue : queue[k].pair \in Pairs /\ queue[k].plugin \in Plugins
    <3>1. \A k \in 1..Len(queue) : queue[k] \in Dispatches
      BY ElementOfSeq DEF Line
    <3>2. DOMAIN queue = 1..Len(queue)
      BY LenProperties DEF Line
    <3> QED
      BY <3>1, <3>2 DEF Dispatches
  <2>2. delivering # None => delivering.pair \in Pairs /\ delivering.plugin \in Plugins
    BY DEF Runners, Dispatches
  <2>3. delivered \cup dropped \subseteq Pairs
    BY DEF Line, Over
  <2> QED
    BY <2>1, <2>2, <2>3 DEF Registry, Runners, Stopped, TypeOK
<1> QED
  BY <1>1, InvHolds, PTL
--------------------------------------------------------------------------------
(* The mapping to EventBus.                                                *)
Serving == IF delivering # None /\ job[delivering.plugin] = "receiver" THEN delivering.pair ELSE None

LEMMA BusIs ==
    /\ Bus!busVars = <<stop # "returned", Registered, 1..counter, audience, Over, Serving>>
    /\ \A i, h : Bus!Due(i, h) <=> /\ h \in audience[i] /\ <<i, h>> \notin Over
                                   /\ \A j \in 1..(i - 1) : \A g \in audience[j] : <<j, g>> \in Over
BY DEF Bus!busVars, Bus!Due, Over, Serving

LEMMA SameBus ==
    ASSUME UNCHANGED <<stop, receivers, counter, audience, delivered, dropped, Serving>>
    PROVE  UNCHANGED Bus!busVars
BY DEF Bus!busVars, Registered, Serving

(* What the dispatcher waits for, or else the first of the queue, is due:  *)
(* whatever is owed of an earlier event would stand before it.             *)
LEMMA FirstIsDue ==
    ASSUME EInv, NEW d \in Dispatches,
           d = delivering \/ (delivering = None /\ queue # <<>> /\ d = queue[1])
    PROVE  \E i \in 1..Len(audience), h \in Handles : d.pair = <<i, h>> /\ Bus!Due(i, h)
<1> USE DEF EInv
<1>1. d # None /\ d.pair \in Pairs
  <2>1. d \in [pair : Nat \X Nat, plugin : Plugins]
    BY DEF Dispatches
  <2> QED
    BY <2>1 DEF Dispatches
<1>2. Len(audience) \in Nat /\ Len(queue) \in Nat /\ (queue # <<>> => 1 \in 1..Len(queue))
  <2>1. Len(queue) \in Nat /\ (queue # <<>> => Len(queue) # 0)
    BY LenProperties, EmptySeq DEF Line
  <2>2. Len(audience) \in Nat
    BY DEF Registry
  <2> QED
    BY <2>1, <2>2
<1>3. Owes(d.pair[1], d.pair[2]) /\ d.pair \notin Over
  BY <1>1, <1>2 DEF Line
<1>4. PICK i \in 1..Len(audience), h \in Handles : d.pair = <<i, h>>
  BY <1>1, <1>3 DEF Owes
<1>5. h \in audience[i] /\ <<i, h>> \notin Over
  BY <1>3, <1>4 DEF Owes
<1>6. ASSUME NEW k \in 1..Len(queue) PROVE i <= queue[k].pair[1]
  <2>1. CASE d = delivering
    BY <1>1, <1>4, <2>1 DEF Line
  <2>2. CASE queue # <<>> /\ d = queue[1]
    <3>1. CASE k = 1
      <4>1. queue[k].pair[1] = i
        BY <1>4, <2>2, <3>1
      <4> QED
        BY <4>1, <1>2
    <3>2. CASE 1 < k
      <4>1. queue[1].pair[1] <= queue[k].pair[1]
        BY <1>2, <2>2, <3>2 DEF Line
      <4> QED
        BY <1>4, <2>2, <4>1
    <3> QED
      BY <3>1, <3>2
  <2> QED
    BY <2>1, <2>2
<1>7. ASSUME NEW j \in 1..(i - 1), NEW g \in audience[j], <<j, g>> \notin Over PROVE FALSE
  <2>1. j \in 1..Len(audience) /\ j < i
    BY <1>2
  <2>2. g \in Handles
    BY <2>1, ElementOfSeq DEF Registry
  <2>3. \/ delivering # None /\ delivering.pair = <<j, g>>
        \/ \E k \in 1..Len(queue) : queue[k].pair = <<j, g>>
    BY <1>7, <2>1, <2>2 DEF Line
  <2>4. CASE delivering # None /\ delivering.pair = <<j, g>>
    <3>1. d = delivering
      BY <2>4
    <3>2. <<j, g>> = <<i, h>>
      BY <1>4, <2>4, <3>1
    <3> QED
      BY <2>1, <3>2
  <2>5. ASSUME NEW k \in 1..Len(queue), queue[k].pair = <<j, g>> PROVE FALSE
    <3>1. queue[k].pair[1] = j
      BY <2>5
    <3> QED
      BY <1>6, <2>1, <3>1
  <2> QED
    BY <2>3, <2>4, <2>5
<1> QED
  BY <1>4, <1>5, <1>7, BusIs

(* Every step is one of the bus, or leaves it alone.                       *)
LEMMA BusStep == EInv /\ [Next]_vars => [Bus!Next]_(Bus!busVars)
<1> SUFFICES ASSUME EInv, [Next]_vars PROVE Bus!Next \/ UNCHANGED Bus!busVars
  OBVIOUS
<1> USE DEF EInv, managerVars, stopVars, historyVars, runnerVars, dispatchVars
<1>1. ASSUME NEW c \in Clients, ClientCall(c) PROVE UNCHANGED Bus!busVars
  BY <1>1, SameBus DEF ClientCall, BroadcastEvent, AddReceiver, RemoveReceiver, Ask, Serving
<1>2. CASE HandleBroadcastEvent
  <2>1. /\ Request("broadcast") /\ UNCHANGED <<receivers, counter>>
        /\ \E S \in SUBSET Registered : audience' = Append(audience, S)
    BY <1>2 DEF HandleBroadcastEvent
  <2>2. PICK S \in SUBSET Handles : S \subseteq Registered /\ audience' = Append(audience, S)
    BY <2>1 DEF Registered
  <2>3. /\ stop \in {"no", "mailbox"}
        /\ UNCHANGED <<delivering, stop, job, delivered, dropped>>
    BY <2>1, RequestTakes
  <2>4. Bus!Publish(S)
    BY <2>1, <2>2, <2>3 DEF Bus!Publish, Registered
  <2> QED
    BY <2>4 DEF Bus!Next
<1>3. CASE HandleAddReceiver
  <2>1. /\ Request("add") /\ counter' = counter + 1 /\ UNCHANGED audience
        /\ receivers' = [receivers EXCEPT ![counter + 1] = Head(inbox).plugin]
    BY <1>3 DEF HandleAddReceiver
  <2>2. /\ stop \in {"no", "mailbox"} /\ counter + 1 \in 0..MaxHandles
        /\ Head(inbox) \in Requests /\ Head(inbox).kind = "add"
        /\ UNCHANGED <<delivering, stop, job, delivered, dropped>>
    BY <2>1, RequestTakes
  <2>3. Head(inbox).plugin \in Plugins
    BY <2>2 DEF Requests
  <2>4. PICK h \in Handles : h = counter + 1 /\ h \notin 1..counter /\ 1..counter' = (1..counter) \cup {h}
    BY <2>1, <2>2 DEF Registry
  <2>5. Registered' = Registered \cup {h}
    BY <2>1, <2>3, <2>4 DEF Registered, Registry
  <2>6. Bus!Subscribe(h)
    BY <2>1, <2>2, <2>4, <2>5 DEF Bus!Subscribe
  <2> QED
    BY <2>6 DEF Bus!Next
<1>4. CASE HandleRemoveReceiver
  <2>1. /\ Request("remove") /\ UNCHANGED <<counter, audience>>
        /\ receivers' = [receivers EXCEPT ![Head(inbox).handle] = None]
    BY <1>4 DEF HandleRemoveReceiver
  <2>2. /\ stop \in {"no", "mailbox"}
        /\ Head(inbox) \in Requests /\ Head(inbox).kind = "remove"
        /\ UNCHANGED <<delivering, stop, job, delivered, dropped>>
    BY <2>1, RequestTakes
  <2>3. PICK h \in Handles : h = Head(inbox).handle
    BY <2>2 DEF Requests
  <2>4. Registered' = Registered \ {h}
    BY <2>1, <2>3 DEF Registered, Registry
  <2>5. CASE h \in Registered
    <3>1. Bus!Unsubscribe(h)
      BY <2>1, <2>2, <2>4, <2>5 DEF Bus!Unsubscribe
    <3> QED
      BY <3>1 DEF Bus!Next
  <2>6. CASE h \notin Registered
    <3>1. Registered' = Registered
      BY <2>4, <2>6
    <3> QED
      BY <2>1, <2>2, <3>1 DEF Bus!busVars
  <2> QED
    BY <2>5, <2>6
<1>5. CASE TakeRequest
  <2>1. /\ delivering = None /\ queue # <<>>
        /\ UNCHANGED <<receivers, counter, stop, job, audience, delivered>>
    BY <1>5 DEF TakeRequest
  <2>2. PICK d \in Dispatches : d = Head(queue) /\ d = queue[1]
    BY <2>1, HeadTailProperties DEF Line
  <2>3. d.plugin \in Plugins /\ job[d.plugin] # "receiver"
    BY <2>1, <2>2 DEF Dispatches, Runners
  <2>4. Serving = None
    BY <2>1 DEF Serving
  <2>5. CASE delivering' = d /\ dropped' = dropped
    <3>1. Serving' = None
      BY <2>1, <2>3, <2>5 DEF Serving
    <3> QED
      BY <2>1, <2>4, <2>5, <3>1, SameBus
  <2>6. CASE delivering' = None /\ dropped' = dropped \cup {d.pair}
    <3>1. PICK i \in 1..Len(audience), h \in Handles : d.pair = <<i, h>> /\ Bus!Due(i, h)
      BY <2>1, <2>2, FirstIsDue
    <3>2. Serving' = None
      BY <2>6 DEF Serving
    <3>3. (delivered \cup dropped)' = (delivered \cup dropped) \cup {<<i, h>>}
      BY <2>1, <2>6, <3>1
    <3>4. Bus!PassOver(i, h)
      BY <2>1, <2>4, <3>1, <3>2, <3>3 DEF Bus!PassOver, Serving, Registered
    <3> QED
      BY <3>1, <3>4 DEF Bus!Next
  <2> QED
    BY <1>5, <2>1, <2>2, <2>5, <2>6 DEF TakeRequest
<1>6. CASE DispatcherExit
  BY <1>6, SameBus DEF DispatcherExit, Serving
<1>7. ASSUME NEW p \in Plugins, RunReceiver(p) PROVE Bus!Next
  <2>1. /\ delivering # None /\ delivering.plugin = p /\ job[p] = "none"
        /\ job' = [job EXCEPT ![p] = "receiver"]
        /\ UNCHANGED <<receivers, counter, stop, delivering, audience, delivered, dropped>>
    BY <1>7 DEF RunReceiver
  <2>2. delivering \in Dispatches
    BY <2>1 DEF Runners
  <2>3. PICK i \in 1..Len(audience), h \in Handles : delivering.pair = <<i, h>> /\ Bus!Due(i, h)
    BY <2>2, FirstIsDue
  <2>4. job'[p] = "receiver"
    BY <2>1 DEF Runners
  <2>5. Serving = None /\ Serving' = <<i, h>>
    BY <2>1, <2>3, <2>4 DEF Serving
  <2>6. Bus!Deliver(i, h)
    BY <2>1, <2>3, <2>5 DEF Bus!Deliver, Serving, Registered
  <2> QED
    BY <2>3, <2>6 DEF Bus!Next
<1>8. ASSUME NEW p \in Plugins, FinishReceiver(p) PROVE Bus!Next
  <2>1. /\ job[p] = "receiver" /\ delivering' = None
        /\ delivered' = delivered \cup {delivering.pair}
        /\ UNCHANGED <<receivers, counter, stop, audience, dropped>>
    BY <1>8 DEF FinishReceiver
  <2>2. delivering # None /\ delivering.plugin = p /\ delivering \in Dispatches
    BY <2>1 DEF Runners
  <2>3. Serving = delivering.pair /\ Serving' = None
    BY <2>1, <2>2 DEF Serving
  <2>4. delivering.pair \in Nat \X Nat
    BY <2>2 DEF Dispatches
  <2>5. (delivered \cup dropped)' = (delivered \cup dropped) \cup {Serving}
    BY <2>1, <2>3
  <2>6. Bus!EndDelivery
    BY <2>1, <2>3, <2>4, <2>5 DEF Bus!EndDelivery, Serving, Registered
  <2> QED
    BY <2>6 DEF Bus!Next
<1>9. ASSUME NEW p \in Plugins, StartOwnWork(p) \/ FinishOwnWork(p) PROVE UNCHANGED Bus!busVars
  <2>1. /\ job[p] # "receiver" /\ \E w \in {"own", "none"} : job' = [job EXCEPT ![p] = w]
        /\ UNCHANGED <<receivers, counter, stop, delivering, audience, delivered, dropped>>
    BY <1>9 DEF StartOwnWork, FinishOwnWork
  <2>2. \A r \in Plugins : job'[r] = "receiver" <=> job[r] = "receiver"
    BY <2>1 DEF Runners
  <2>3. Serving' = Serving
    <3>1. CASE delivering = None
      BY <2>1, <3>1 DEF Serving
    <3>2. CASE delivering # None
      <4>1. delivering.plugin \in Plugins
        BY <3>2 DEF Runners, Dispatches
      <4> QED
        BY <2>1, <2>2, <4>1 DEF Serving
    <3> QED
      BY <3>1, <3>2
  <2> QED
    BY <2>1, <2>3, SameBus
<1>10. ASSUME NEW p \in Plugins, StopPluginRunner(p) PROVE UNCHANGED Bus!busVars
  BY <1>10, SameBus DEF StopPluginRunner, Serving
<1>11. CASE StopMailbox \/ CloseDispatch
  <2>1. /\ stop # "returned" /\ stop' # "returned"
        /\ UNCHANGED <<receivers, counter, delivering, job, audience, delivered, dropped>>
    BY <1>11 DEF StopMailbox, CloseDispatch
  <2> QED
    BY <2>1 DEF Bus!busVars, Registered
<1>12. CASE StopReturn
  <2>1. /\ stop = "closing" /\ stop' = "returned" /\ dispatcher = "done"
        /\ UNCHANGED <<receivers, counter, delivering, job, audience, delivered, dropped>>
    BY <1>12 DEF StopReturn
  <2>2. queue = <<>> /\ delivering = None
    BY <2>1 DEF Stopped
  <2>3. 1..Len(queue) = {}
    BY <2>2, EmptySeq
  <2>4. ASSUME NEW i \in 1..Len(audience), NEW h \in audience[i] PROVE <<i, h>> \in delivered \cup dropped
    <3>1. h \in Handles
      BY ElementOfSeq DEF Registry
    <3> QED
      BY <2>2, <2>3, <3>1 DEF Line, Over
  <2>5. Bus!Close
    BY <2>1, <2>2, <2>4 DEF Bus!Close, Registered
  <2> QED
    BY <2>5 DEF Bus!Next
<1>13. CASE UNCHANGED vars
  BY <1>13, SameBus DEF vars, Serving
<1> QED
  BY <1>1, <1>2, <1>3, <1>4, <1>5, <1>6, <1>7, <1>8, <1>9, <1>10, <1>11, <1>12, <1>13
  DEF Next, Handle, Dispatch, Stopping, Finish, Quiet

(* The manager, with its mailbox, queue, dispatcher and runners, does what *)
(* EventBus says and no more: events reach the receivers registered when   *)
(* they were handled, in their order, one receiver at a time and at most   *)
(* once, and when Stop returns nothing is owed and nothing comes after.    *)
THEOREM ImplementsEventBus == Spec => BusSpec
<1>1. Init => Bus!Init
  <2> SUFFICES ASSUME Init PROVE Bus!Init
    OBVIOUS
  <2>1. Registered = {} /\ 1..counter = {} /\ delivered \cup dropped = {}
    BY DEF Init, Registered
  <2> QED
    BY <2>1 DEF Init, Bus!Init
<1> QED
  BY <1>1, BusStep, InvHolds, PTL DEF Spec, BusSpec, Bus!Spec
================================================================================

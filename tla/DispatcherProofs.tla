--------------------------- MODULE DispatcherProofs ----------------------------
(***************************************************************************)
(* What Dispatcher guarantees for every set of callers, every capacity and *)
(* every number and length of batches.                                     *)
(***************************************************************************)
EXTENDS Dispatcher, TLAPS

USE DispatcherAssumption

(* The shape of one step: some action of some goroutine, or a stutter.     *)
Caller(t) == \/ Reject(t) \/ Admit(t) \/ Return(t) \/ SendCallback(t)
             \/ \E n \in 0..MaxBatch : Register(t, n)

(* Every step is one of the dispatcher's actions.                          *)
LEMMA StepCases ==
    ASSUME [Next]_vars
    PROVE  \/ \E t \in Threads : Caller(t)
           \/ StartRun \/ MarkRunning \/ Receive \/ FinishCallback
           \/ ObserveCancel \/ MarkStopped \/ EndDrain
           \/ WaitForWriters \/ CloseChannel \/ CancelContext
           \/ UNCHANGED vars
BY DEF Next, Call, Proceed, Caller, RunLoop, Closer, Done

(* What Append does to a channel: one longer, the rest as it was.          *)
LEMMA AppendFacts ==
    ASSUME NEW S, NEW q \in Seq(S), NEW e \in S
    PROVE  /\ Append(q, e) \in Seq(S)
           /\ Len(q) \in Nat /\ Len(Append(q, e)) = Len(q) + 1
           /\ \A i \in 1..Len(q) : Append(q, e)[i] = q[i] /\ q[i] \in S
           /\ Append(q, e)[Len(q) + 1] = e
OBVIOUS

(* What receiving does to a channel: its head goes, the rest moves up.     *)
LEMMA TailFacts ==
    ASSUME NEW S, NEW q \in Seq(S), q # <<>>
    PROVE  /\ Head(q) = q[1] /\ Head(q) \in S
           /\ Tail(q) \in Seq(S)
           /\ Len(q) \in Nat \ {0} /\ Len(Tail(q)) = Len(q) - 1
           /\ \A i \in 1..Len(Tail(q)) : Tail(q)[i] = q[i + 1]
           /\ \A i \in 1..Len(q) : q[i] \in S
OBVIOUS

(* Counting up one thread's callbacks leaves a family of counters.         *)
LEMMA CountUp ==
    ASSUME NEW c \in [Threads -> Nat], NEW h
    PROVE  [c EXCEPT ![h] = @ + 1] \in [Threads -> Nat]
<1> DEFINE up == [t \in Threads |-> IF t = h THEN c[t] + 1 ELSE c[t]]
<1>1. [c EXCEPT ![h] = @ + 1] = up
  OBVIOUS
<1>2. ASSUME NEW t \in Threads PROVE (IF t = h THEN c[t] + 1 ELSE c[t]) \in Nat
  OBVIOUS
<1>3. up \in [Threads -> Nat]
  BY ONLY <1>2
<1> QED
  BY ONLY <1>1, <1>3

(* Type correctness: each variable keeps to its range and the channel      *)
(* never holds more than Cap callbacks.                                    *)
THEOREM TypeCorrect == Spec => []TypeOK
<1>1. Init => TypeOK
  <2> SUFFICES ASSUME Init PROVE TypeOK
    OBVIOUS
  <2>1. callbackCh \in Seq(Threads \X (Nat \ {0})) /\ Len(callbackCh) <= Cap
    BY DEF Init
  <2>2. current \in (Threads \X (Nat \ {0})) \cup {None}
    BY DEF Init
  <2> QED
    BY <2>1, <2>2 DEF Init, TypeOK
<1>2. TypeOK /\ [Next]_vars => TypeOK'
  <2> SUFFICES ASSUME TypeOK, [Next]_vars PROVE TypeOK'
    OBVIOUS
  <2> USE DEF TypeOK, callerVars, loopVars
  <2>1. ASSUME NEW t \in Threads, Reject(t) PROVE TypeOK'
    BY <2>1 DEF Reject
  <2>2. ASSUME NEW t \in Threads, Admit(t) PROVE TypeOK'
    BY <2>2 DEF Admit
  <2>3. ASSUME NEW t \in Threads, NEW n \in 0..MaxBatch, Register(t, n) PROVE TypeOK'
    BY <2>3 DEF Register
  <2>4. ASSUME NEW t \in Threads, SendCallback(t) PROVE TypeOK'
    <3>1. /\ callbackCh' = Append(callbackCh, <<t, sent[t] + 1>>) /\ Len(callbackCh) < Cap
          /\ sent' = [sent EXCEPT ![t] = @ + 1]
          /\ todo[t] > 0 /\ todo' = [todo EXCEPT ![t] = @ - 1]
      BY <2>4 DEF SendCallback
    <3>2. <<t, sent[t] + 1>> \in Threads \X (Nat \ {0})
      OBVIOUS
    <3>3. callbackCh' \in Seq(Threads \X (Nat \ {0})) /\ Len(callbackCh') <= Cap
      BY <3>1, <3>2, AppendFacts
    <3>4. sent' \in [Threads -> Nat] /\ todo' \in [Threads -> Nat]
      <4>1. sent \in [Threads -> Nat] /\ todo \in [Threads -> Nat]
        OBVIOUS
      <4>2. sent' \in [Threads -> Nat]
        BY ONLY <3>1, <4>1, CountUp
      <4>3. todo' \in [Threads -> Nat]
        BY ONLY <3>1, <4>1
      <4> QED
        BY <4>2, <4>3
    <3> QED
      BY <2>4, <3>3, <3>4 DEF SendCallback
  <2>5. ASSUME NEW t \in Threads, Return(t) PROVE TypeOK'
    BY <2>5 DEF Return
  <2>6. CASE StartRun
    BY <2>6 DEF StartRun
  <2>7. CASE MarkRunning
    BY <2>7 DEF MarkRunning
  <2>8. CASE Receive
    <3>1. /\ callbackCh # <<>> /\ callbackCh' = Tail(callbackCh)
          /\ current' = Head(callbackCh)
          /\ begun' = [begun EXCEPT ![Head(callbackCh)[1]] = @ + 1]
      BY <2>8 DEF Receive
    <3>2. /\ callbackCh' \in Seq(Threads \X (Nat \ {0})) /\ Len(callbackCh') <= Cap
          /\ current' \in Threads \X (Nat \ {0})
      <4>1. callbackCh \in Seq(Threads \X (Nat \ {0})) /\ Len(callbackCh) <= Cap
        OBVIOUS
      <4>2. /\ Tail(callbackCh) \in Seq(Threads \X (Nat \ {0}))
            /\ Len(Tail(callbackCh)) = Len(callbackCh) - 1
            /\ Head(callbackCh) \in Threads \X (Nat \ {0})
        BY ONLY <3>1, <4>1, TailFacts
      <4>3. Len(callbackCh) \in Nat /\ Cap \in Nat
        BY <4>1
      <4> QED
        BY ONLY <3>1, <4>1, <4>2, <4>3
    <3>3. begun' \in [Threads -> Nat]
      <4>1. begun \in [Threads -> Nat]
        OBVIOUS
      <4> QED
        BY ONLY <3>1, <4>1, CountUp
    <3> QED
      BY <2>8, <3>2, <3>3 DEF Receive
  <2>9. CASE FinishCallback
    BY <2>9 DEF FinishCallback
  <2>10. CASE ObserveCancel
    BY <2>10 DEF ObserveCancel
  <2>11. CASE MarkStopped
    BY <2>11 DEF MarkStopped
  <2>12. CASE EndDrain
    BY <2>12 DEF EndDrain
  <2>13. CASE WaitForWriters
    BY <2>13 DEF WaitForWriters
  <2>14. CASE CloseChannel
    BY <2>14 DEF CloseChannel
  <2>15. CASE CancelContext
    BY <2>15 DEF CancelContext
  <2>16. CASE UNCHANGED vars
    BY <2>16 DEF vars
  <2> QED
    BY <2>1, <2>2, <2>3, <2>4, <2>5, <2>6, <2>7, <2>8, <2>9, <2>10, <2>11, <2>12,
       <2>13, <2>14, <2>15, <2>16, StepCases DEF Caller
<1> QED
  BY <1>1, <1>2, PTL DEF Spec

--------------------------------------------------------------------------------
(* The shutdown protocol.  The invariant relates the three things that the *)
(* code keeps apart: the flag that the read lock protects, the wait group  *)
(* of senders, and the closer.                                             *)
Protocol ==
    /\ running <=> loop \in {"serving", "stopping"}
    /\ \A t \in Threads : pc[t] = "admitted" => running
    /\ writers = {t \in Threads : pc[t] = "sending"}
    /\ \A t \in Threads : todo[t] > 0 => pc[t] = "sending"
    /\ closer = "none" <=> loop \in {"new", "starting", "serving", "stopping"}
    /\ chClosed <=> closer = "done"
    /\ closer \in {"closing", "done"} => writers = {}
    /\ loop = "returned" => chClosed /\ callbackCh = <<>>
    /\ current # None => loop \in {"serving", "draining"}

(* The protocol invariant holds in every reachable state.                  *)
LEMMA ProtocolHolds == Spec => []Protocol
<1>1. Init => Protocol
  BY DEF Init, Protocol
<1>2. TypeOK /\ Protocol /\ [Next]_vars => Protocol'
  <2> SUFFICES ASSUME TypeOK, Protocol, [Next]_vars PROVE Protocol'
    OBVIOUS
  <2> USE DEF TypeOK, Protocol, Readers, callerVars, loopVars
  <2>1. ASSUME NEW t \in Threads, Reject(t) PROVE Protocol'
    BY <2>1 DEF Reject
  <2>2. ASSUME NEW t \in Threads, Admit(t) PROVE Protocol'
    BY <2>2 DEF Admit
  <2>3. ASSUME NEW t \in Threads, NEW n \in 0..MaxBatch, Register(t, n) PROVE Protocol'
    <3>1. pc[t] = "admitted" /\ running /\ closer = "none"
      BY <2>3 DEF Register
    <3>2. writers' = {u \in Threads : pc'[u] = "sending"}
      <4>1. writers' = writers \cup {t} /\ pc' = [pc EXCEPT ![t] = "sending"]
        BY <2>3 DEF Register
      <4> QED
        BY ONLY <4>1, writers = {u \in Threads : pc[u] = "sending"},
                pc \in [Threads -> {"idle", "admitted", "sending"}], t \in Threads
    <3> QED
      BY <2>3, <3>1, <3>2 DEF Register
  <2>4. ASSUME NEW t \in Threads, SendCallback(t) PROVE Protocol'
    BY <2>4 DEF SendCallback
  <2>5. ASSUME NEW t \in Threads, Return(t) PROVE Protocol'
    <3>1. writers' = {u \in Threads : pc'[u] = "sending"}
      BY <2>5 DEF Return
    <3>2. ASSUME NEW u \in Threads PROVE todo'[u] > 0 => pc'[u] = "sending"
      <4>1. CASE u = t
        BY <2>5, <4>1 DEF Return
      <4>2. CASE u # t
        BY <2>5, <4>2 DEF Return
      <4> QED
        BY <4>1, <4>2
    <3>3. closer' \in {"closing", "done"} => writers' = {}
      BY <2>5 DEF Return
    <3> QED
      BY <2>5, <3>1, <3>2, <3>3 DEF Return
  <2>6. CASE StartRun
    BY <2>6 DEF StartRun
  <2>7. CASE MarkRunning
    BY <2>7 DEF MarkRunning
  <2>8. CASE Receive
    BY <2>8 DEF Receive
  <2>9. CASE FinishCallback
    BY <2>9 DEF FinishCallback
  <2>10. CASE ObserveCancel
    BY <2>10 DEF ObserveCancel
  <2>11. CASE MarkStopped
    BY <2>11 DEF MarkStopped
  <2>12. CASE EndDrain
    BY <2>12 DEF EndDrain
  <2>13. CASE WaitForWriters
    BY <2>13 DEF WaitForWriters
  <2>14. CASE CloseChannel
    BY <2>14 DEF CloseChannel
  <2>15. CASE CancelContext
    BY <2>15 DEF CancelContext
  <2>16. CASE UNCHANGED vars
    BY <2>16 DEF vars
  <2> QED
    BY <2>1, <2>2, <2>3, <2>4, <2>5, <2>6, <2>7, <2>8, <2>9, <2>10, <2>11, <2>12,
       <2>13, <2>14, <2>15, <2>16, StepCases DEF Caller
<1> QED
  BY <1>1, <1>2, TypeCorrect, PTL DEF Spec

(* No caller of Dispatch ever sends on a closed channel, however callers,  *)
(* the server goroutine and the closer interleave.                         *)
THEOREM SendsAreSafe == Spec => []NoSendOnClosed
<1>1. TypeOK /\ Protocol => NoSendOnClosed
  BY DEF TypeOK, Protocol, NoSendOnClosed
<1> QED
  BY <1>1, TypeCorrect, ProtocolHolds, PTL

(* No Add(1) can run concurrently with the closer's Wait.                  *)
THEOREM WaitIsSafe == Spec => []NoAddDuringWait
<1>1. TypeOK /\ Protocol => NoAddDuringWait
  BY DEF TypeOK, Protocol, NoAddDuringWait, Readers
<1> QED
  BY <1>1, TypeCorrect, ProtocolHolds, PTL

--------------------------------------------------------------------------------
(* Order.  What the channel holds of thread t is exactly the callbacks that*)
(* t has sent and the server goroutine has not begun, in the order t sent  *)
(* them.                                                                   *)
InOrder ==
    /\ \A t \in Threads : begun[t] <= sent[t]
    /\ \A i \in 1..Len(callbackCh) :
           /\ begun[callbackCh[i][1]] < callbackCh[i][2]
           /\ callbackCh[i][2] <= sent[callbackCh[i][1]]
    /\ \A i, j \in 1..Len(callbackCh) :
           i < j /\ callbackCh[i][1] = callbackCh[j][1]
               => callbackCh[i][2] < callbackCh[j][2]
    /\ \A t \in Threads : \A n \in (begun[t] + 1)..sent[t] :
           \E i \in 1..Len(callbackCh) : callbackCh[i] = <<t, n>>

(* The callback at the head of the channel is the next one of its thread.  *)
LEMMA HeadIsNext ==
    ASSUME TypeOK, InOrder, callbackCh # <<>>
    PROVE  /\ Head(callbackCh)[1] \in Threads
           /\ begun[Head(callbackCh)[1]] < sent[Head(callbackCh)[1]]
           /\ Head(callbackCh) = <<Head(callbackCh)[1], begun[Head(callbackCh)[1]] + 1>>
<1> DEFINE t == Head(callbackCh)[1]
           n == Head(callbackCh)[2]
<1>1. /\ Len(callbackCh) \in Nat \ {0} /\ Head(callbackCh) = callbackCh[1]
      /\ Head(callbackCh) \in Threads \X (Nat \ {0})
  <2>1. callbackCh \in Seq(Threads \X (Nat \ {0}))
    BY DEF TypeOK
  <2> QED
    BY <2>1, TailFacts
<1>2. t \in Threads /\ n \in Nat /\ Head(callbackCh) = <<t, n>>
  BY <1>1
<1>3. begun[t] \in Nat /\ sent[t] \in Nat /\ begun[t] < n /\ n <= sent[t]
  <2>1. 1 \in 1..Len(callbackCh) /\ callbackCh[1] = <<t, n>>
    BY <1>1, <1>2
  <2>2. begun[t] \in Nat /\ sent[t] \in Nat
    BY <1>2 DEF TypeOK
  <2> HIDE DEF t, n
  <2> QED
    BY <2>1, <2>2 DEF InOrder
<1>4. n = begun[t] + 1
  <2> SUFFICES ASSUME begun[t] + 1 < n PROVE FALSE
    BY <1>2, <1>3
  <2>1. begun[t] + 1 \in (begun[t] + 1)..sent[t]
    BY <1>2, <1>3
  <2>2. PICK i \in 1..Len(callbackCh) : callbackCh[i] = <<t, begun[t] + 1>>
    BY <1>2, <2>1 DEF InOrder
  <2>3. i # 1
    BY <1>1, <1>2, <1>3, <2>2
  <2>4. callbackCh[1][2] < callbackCh[i][2]
    BY <1>1, <1>2, <2>2, <2>3 DEF InOrder
  <2> QED
    BY <1>1, <1>2, <1>3, <2>2, <2>4
<1> QED
  BY <1>2, <1>3, <1>4

(* The order invariant holds in every reachable state.                     *)
LEMMA InOrderHolds == Spec => []InOrder
<1>1. Init => InOrder
  BY DEF Init, InOrder
<1>2. TypeOK /\ InOrder /\ [Next]_vars => InOrder'
  <2> SUFFICES ASSUME TypeOK, InOrder, [Next]_vars PROVE InOrder'
    OBVIOUS
  <2>1. ASSUME UNCHANGED <<callbackCh, sent, begun>> PROVE InOrder'
    BY <2>1 DEF InOrder
  <2>2. ASSUME NEW t \in Threads, SendCallback(t) PROVE InOrder'
    <3>1. /\ Len(callbackCh') = Len(callbackCh) + 1 /\ Len(callbackCh) \in Nat
          /\ \A i \in 1..Len(callbackCh) : callbackCh'[i] = callbackCh[i]
          /\ callbackCh'[Len(callbackCh) + 1] = <<t, sent[t] + 1>>
          /\ \A i \in 1..Len(callbackCh) : callbackCh[i] \in Threads \X (Nat \ {0})
      <4>1. callbackCh' = Append(callbackCh, <<t, sent[t] + 1>>)
        BY <2>2 DEF SendCallback
      <4>2. callbackCh \in Seq(Threads \X (Nat \ {0}))
        BY DEF TypeOK
      <4>3. <<t, sent[t] + 1>> \in Threads \X (Nat \ {0})
        BY DEF TypeOK
      <4> QED
        BY <4>1, <4>2, <4>3, AppendFacts
    <3>2. /\ sent' = [sent EXCEPT ![t] = @ + 1] /\ begun' = begun
          /\ sent \in [Threads -> Nat] /\ begun \in [Threads -> Nat]
      BY <2>2 DEF SendCallback, TypeOK, loopVars
    <3>3. \A u \in Threads : begun'[u] <= sent'[u]
      BY <3>2 DEF InOrder
    <3>4. ASSUME NEW i \in 1..Len(callbackCh')
          PROVE  /\ begun'[callbackCh'[i][1]] < callbackCh'[i][2]
                 /\ callbackCh'[i][2] <= sent'[callbackCh'[i][1]]
      <4>1. CASE i = Len(callbackCh) + 1
        BY <3>1, <3>2, <4>1 DEF InOrder
      <4>2. CASE i \in 1..Len(callbackCh)
        BY <3>1, <3>2, <4>2 DEF InOrder
      <4> QED
        BY <3>1, <4>1, <4>2
    <3>5. ASSUME NEW i \in 1..Len(callbackCh'), NEW j \in 1..Len(callbackCh'),
                 i < j, callbackCh'[i][1] = callbackCh'[j][1]
          PROVE  callbackCh'[i][2] < callbackCh'[j][2]
      <4>1. i \in 1..Len(callbackCh)
        BY <3>1, <3>5
      <4>2. CASE j = Len(callbackCh) + 1
        <5>1. callbackCh[i] = callbackCh'[i] /\ callbackCh[i] \in Threads \X (Nat \ {0})
          BY <3>1, <4>1
        <5>2. callbackCh'[j] = <<t, sent[t] + 1>> /\ callbackCh[i][1] = t
          BY <3>1, <3>5, <4>2, <5>1
        <5>3. callbackCh[i][2] <= sent[t]
          BY <4>1, <5>2 DEF InOrder
        <5>4. sent[t] \in Nat /\ callbackCh[i][2] \in Nat
          BY <3>2, <5>1
        <5> QED
          BY ONLY <5>1, <5>2, <5>3, <5>4
      <4>3. CASE j \in 1..Len(callbackCh)
        BY <3>1, <3>5, <4>1, <4>3 DEF InOrder
      <4> QED
        BY <3>1, <4>2, <4>3
    <3>6. ASSUME NEW u \in Threads, NEW n \in (begun'[u] + 1)..sent'[u]
          PROVE  \E i \in 1..Len(callbackCh') : callbackCh'[i] = <<u, n>>
      <4>1. CASE u = t /\ n = sent[t] + 1
        <5>1. Len(callbackCh) + 1 \in 1..Len(callbackCh')
          BY <3>1
        <5> QED
          BY <3>1, <4>1, <5>1
      <4>2. CASE ~(u = t /\ n = sent[t] + 1)
        <5>1. n \in (begun[u] + 1)..sent[u]
          BY <3>2, <4>2
        <5>2. PICK i \in 1..Len(callbackCh) : callbackCh[i] = <<u, n>>
          BY <5>1 DEF InOrder
        <5>3. i \in 1..Len(callbackCh') /\ callbackCh'[i] = <<u, n>>
          BY <3>1, <5>2
        <5> QED
          BY <5>3
      <4> QED
        BY <4>1, <4>2
    <3> QED
      BY <3>3, <3>4, <3>5, <3>6 DEF InOrder
  <2>3. CASE Receive
    <3> DEFINE h == Head(callbackCh)[1]
    <3>1. /\ Len(callbackCh') = Len(callbackCh) - 1 /\ Len(callbackCh) \in Nat
          /\ \A i \in 1..Len(callbackCh') : callbackCh'[i] = callbackCh[i + 1]
          /\ \A i \in 1..Len(callbackCh) : callbackCh[i] \in Threads \X (Nat \ {0})
          /\ callbackCh # <<>> /\ Len(callbackCh) > 0 /\ Head(callbackCh) = callbackCh[1]
      <4>1. callbackCh # <<>> /\ callbackCh' = Tail(callbackCh)
        BY <2>3 DEF Receive
      <4>2. callbackCh \in Seq(Threads \X (Nat \ {0}))
        BY DEF TypeOK
      <4>3. /\ Head(callbackCh) = callbackCh[1]
            /\ Len(callbackCh) \in Nat \ {0} /\ Len(callbackCh') = Len(callbackCh) - 1
            /\ \A i \in 1..Len(callbackCh') : callbackCh'[i] = callbackCh[i + 1]
            /\ \A i \in 1..Len(callbackCh) : callbackCh[i] \in Threads \X (Nat \ {0})
        BY <4>1, <4>2, TailFacts
      <4> QED
        BY <4>1, <4>3
    <3>2. /\ sent' = sent /\ begun' = [begun EXCEPT ![h] = @ + 1]
          /\ sent \in [Threads -> Nat] /\ begun \in [Threads -> Nat]
      <4>1. sent' = sent
        BY <2>3 DEF Receive, callerVars
      <4>2. begun' = [begun EXCEPT ![h] = @ + 1]
        BY <2>3 DEF Receive
      <4> QED
        BY <4>1, <4>2 DEF TypeOK
    <3>3. /\ h \in Threads /\ begun[h] < sent[h]
          /\ callbackCh[1] = <<h, begun[h] + 1>>
      BY <3>1, HeadIsNext
    <3> HIDE DEF h
    <3>4. \A u \in Threads : begun'[u] <= sent'[u]
      BY <3>2, <3>3 DEF InOrder
    <3>5. ASSUME NEW i \in 1..Len(callbackCh')
          PROVE  /\ begun'[callbackCh'[i][1]] < callbackCh'[i][2]
                 /\ callbackCh'[i][2] <= sent'[callbackCh'[i][1]]
      <4>1. i + 1 \in 1..Len(callbackCh) /\ 1 \in 1..Len(callbackCh) /\ 1 < i + 1
        BY <3>1
      <4>2. /\ callbackCh'[i] = callbackCh[i + 1]
            /\ callbackCh[i + 1] \in Threads \X (Nat \ {0})
        BY <3>1, <4>1
      <4>3. /\ begun[callbackCh[i + 1][1]] < callbackCh[i + 1][2]
            /\ callbackCh[i + 1][2] <= sent[callbackCh[i + 1][1]]
            /\ callbackCh[1][1] = callbackCh[i + 1][1]
                 => callbackCh[1][2] < callbackCh[i + 1][2]
        BY <4>1 DEF InOrder
      <4> QED
        BY <3>2, <3>3, <4>2, <4>3
    <3>6. ASSUME NEW i \in 1..Len(callbackCh'), NEW j \in 1..Len(callbackCh'),
                 i < j, callbackCh'[i][1] = callbackCh'[j][1]
          PROVE  callbackCh'[i][2] < callbackCh'[j][2]
      <4>1. i + 1 \in 1..Len(callbackCh) /\ j + 1 \in 1..Len(callbackCh) /\ i + 1 < j + 1
        BY <3>1, <3>6
      <4>2. callbackCh[i + 1][1] = callbackCh[j + 1][1]
        BY <3>1, <3>6
      <4>3. callbackCh[i + 1][2] < callbackCh[j + 1][2]
        BY <4>1, <4>2 DEF InOrder
      <4> QED
        BY <3>1, <4>3
    <3>7. ASSUME NEW u \in Threads, NEW n \in (begun'[u] + 1)..sent'[u]
          PROVE  \E i \in 1..Len(callbackCh') : callbackCh'[i] = <<u, n>>
      <4>1. n \in (begun[u] + 1)..sent[u] /\ ~(u = h /\ n = begun[h] + 1)
        BY <3>2, <3>3
      <4>2. PICK i \in 1..Len(callbackCh) : callbackCh[i] = <<u, n>>
        BY <4>1 DEF InOrder
      <4>3. i # 1
        BY <3>3, <4>1, <4>2
      <4>4. i - 1 \in 1..Len(callbackCh') /\ (i - 1) + 1 = i
        BY <3>1, <4>2, <4>3
      <4>5. callbackCh'[i - 1] = <<u, n>>
        BY <3>1, <4>2, <4>4
      <4> QED
        BY <4>4, <4>5
    <3> QED
      BY <3>4, <3>5, <3>6, <3>7 DEF InOrder
  <2> QED
    BY <2>1, <2>2, <2>3, StepCases
    DEF Caller, Reject, Admit, Register, Return, StartRun, MarkRunning, FinishCallback,
        ObserveCancel, MarkStopped, EndDrain, WaitForWriters, CloseChannel,
        CancelContext, vars, callerVars, loopVars
<1> QED
  BY <1>1, <1>2, TypeCorrect, PTL DEF Spec

(* When Run returns, everything Dispatch accepted has been executed.       *)
THEOREM NothingIsLost == Spec => []NothingLost
<1>1. TypeOK /\ Protocol /\ InOrder => NothingLost
  <2> SUFFICES ASSUME TypeOK, Protocol, InOrder, loop = "returned"
               PROVE  /\ current = None
                      /\ \A t \in Threads : todo[t] = 0 /\ begun[t] = sent[t]
    BY DEF NothingLost
  <2>1. callbackCh = <<>> /\ closer = "done" /\ writers = {} /\ current = None
    BY DEF Protocol
  <2>2. ASSUME NEW t \in Threads PROVE todo[t] = 0
    BY <2>1 DEF Protocol, TypeOK
  <2>3. ASSUME NEW t \in Threads PROVE begun[t] = sent[t]
    <3>1. begun[t] \in Nat /\ sent[t] \in Nat /\ begun[t] <= sent[t]
      BY DEF TypeOK, InOrder
    <3>2. 1..Len(callbackCh) = {}
      BY <2>1
    <3>3. (begun[t] + 1)..sent[t] = {}
      BY <3>2 DEF InOrder
    <3>4. begun[t] < sent[t] => begun[t] + 1 \in (begun[t] + 1)..sent[t]
      BY <3>1
    <3> QED
      BY <3>1, <3>3, <3>4
  <2> QED
    BY <2>1, <2>2, <2>3
<1> QED
  BY <1>1, TypeCorrect, ProtocolHolds, InOrderHolds, PTL

--------------------------------------------------------------------------------
(* The dispatcher implements the abstract callback queue: the flag, the    *)
(* bounded channel, the wait group and the closer together behave like a   *)
(* queue that accepts whole batches, runs each thread's callbacks in order *)
(* and once each, and stops only when none is left.                        *)
THEOREM ImplementsQueue == Spec => QueueSpec
<1>1. Init => Queue!Init
  BY DEF Init, Queue!Init, phaseOf, acceptedOf
<1>2. TypeOK /\ TypeOK' /\ Protocol /\ Protocol' /\ InOrder /\ NothingLost'
        /\ [Next]_vars => [Queue!Next]_(Queue!queueVars)
  <2> SUFFICES ASSUME TypeOK, TypeOK', Protocol, Protocol', InOrder, NothingLost', [Next]_vars
               PROVE  [Queue!Next]_(Queue!queueVars)
    OBVIOUS
  <2> DEFINE Same == UNCHANGED <<phaseOf, acceptedOf, begun, current>>
  <2>0. Same => UNCHANGED Queue!queueVars
    BY DEF Queue!queueVars
  <2>1. ASSUME NEW t \in Threads, NEW n \in 0..MaxBatch, Register(t, n)
        PROVE  Queue!Accept(t)
    <3>1. /\ loop \in {"serving", "stopping"} /\ loop' = loop
          /\ begun' = begun /\ current' = current /\ sent' = sent
          /\ pc[t] = "admitted" /\ todo' = [todo EXCEPT ![t] = n]
      BY <2>1 DEF Register, Protocol, loopVars
    <3>4. todo[t] = 0 /\ sent[t] \in Nat /\ n \in Nat
      <4>1. todo[t] \in Nat /\ sent[t] \in Nat /\ n \in Nat
        BY DEF TypeOK
      <4>2. ~(todo[t] > 0)
        BY <3>1 DEF Protocol
      <4> QED
        BY <4>1, <4>2
    <3>2. phaseOf = "open" /\ phaseOf' = phaseOf
      BY <3>1 DEF phaseOf
    <3>5. acceptedOf[t] = sent[t] /\ acceptedOf'[t] = sent[t] + n
      BY <3>1, <3>4 DEF acceptedOf, TypeOK
    <3>6. acceptedOf' = [acceptedOf EXCEPT ![t] = acceptedOf'[t]]
      BY <3>1, <3>5 DEF acceptedOf, TypeOK
    <3> QED
      BY <3>1, <3>2, <3>4, <3>5, <3>6 DEF Queue!Accept
  <2>2. ASSUME NEW t \in Threads, SendCallback(t) PROVE Same
    <3>1. acceptedOf' = acceptedOf
      BY <2>2 DEF SendCallback, acceptedOf, TypeOK
    <3> QED
      BY <2>2, <3>1 DEF SendCallback, phaseOf, loopVars
  <2>3. CASE Receive
    <3> DEFINE t == Head(callbackCh)[1]
    <3>1. /\ callbackCh # <<>> /\ current = None /\ loop' = loop
          /\ loop \in {"serving", "draining"} /\ current' = Head(callbackCh)
          /\ begun' = [begun EXCEPT ![t] = @ + 1] /\ sent' = sent /\ todo' = todo
      BY <2>3 DEF Receive, callerVars
    <3>2. /\ t \in Threads /\ begun[t] < sent[t]
          /\ current' = <<t, begun[t] + 1>>
      BY <3>1, HeadIsNext
    <3>3. phaseOf \in {"open", "closed"} /\ phaseOf' = phaseOf
      BY <3>1 DEF phaseOf
    <3> HIDE DEF t
    <3>4. acceptedOf' = acceptedOf
      BY <3>1 DEF acceptedOf
    <3>5. begun[t] < acceptedOf[t]
      BY <3>2 DEF acceptedOf, TypeOK
    <3>6. Queue!Begin(t)
      BY <3>1, <3>2, <3>3, <3>4, <3>5 DEF Queue!Begin
    <3> QED
      BY <3>2, <3>6 DEF Queue!Next
  <2>4. CASE FinishCallback
    <3>1. Queue!End
      BY <2>4 DEF FinishCallback, Queue!End, phaseOf, acceptedOf, callerVars
    <3> QED
      BY <3>1 DEF Queue!Next
  <2>5. CASE MarkRunning
    <3>1. Queue!Open
      BY <2>5 DEF MarkRunning, Queue!Open, phaseOf, acceptedOf, callerVars
    <3> QED
      BY <3>1 DEF Queue!Next
  <2>6. CASE MarkStopped
    <3>1. Queue!Close
      BY <2>6 DEF MarkStopped, Queue!Close, phaseOf, acceptedOf, callerVars
    <3> QED
      BY <3>1 DEF Queue!Next
  <2>7. CASE EndDrain
    <3>1. /\ loop = "draining" /\ loop' = "returned" /\ current = None
          /\ current' = current /\ begun' = begun /\ sent' = sent /\ todo' = todo
      BY <2>7 DEF EndDrain, callerVars
    <3>2. phaseOf = "closed" /\ phaseOf' = "stopped"
      BY <3>1 DEF phaseOf
    <3>3. begun = acceptedOf /\ acceptedOf' = acceptedOf
      BY <3>1 DEF NothingLost, acceptedOf, TypeOK
    <3>4. Queue!Stop
      BY <3>1, <3>2, <3>3 DEF Queue!Stop
    <3> QED
      BY <3>4 DEF Queue!Next
  <2>8. ASSUME \/ \E t \in Threads : Reject(t) \/ Admit(t) \/ Return(t)
               \/ StartRun \/ ObserveCancel \/ WaitForWriters \/ CloseChannel
               \/ CancelContext \/ UNCHANGED vars
        PROVE  Same
    <3>1. UNCHANGED <<sent, todo, begun, current>>
      BY <2>8 DEF Reject, Admit, Return, StartRun, ObserveCancel, WaitForWriters,
                  CloseChannel, CancelContext, vars, callerVars, loopVars
    <3>2. phaseOf' = phaseOf
      BY <2>8 DEF Reject, Admit, Return, StartRun, ObserveCancel, WaitForWriters,
                  CloseChannel, CancelContext, vars, callerVars, loopVars, phaseOf
    <3> QED
      BY <3>1, <3>2 DEF acceptedOf
  <2> HIDE DEF Same
  <2> QED
    BY <2>0, <2>1, <2>2, <2>3, <2>4, <2>5, <2>6, <2>7, <2>8, StepCases
    DEF Caller, Queue!Next
<1> QED
  BY <1>1, <1>2, TypeCorrect, ProtocolHolds, InOrderHolds, NothingIsLost, PTL
  DEF Spec, QueueSpec, Queue!Spec
================================================================================

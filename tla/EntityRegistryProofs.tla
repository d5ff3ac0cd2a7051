------------------------- MODULE EntityRegistryProofs -------------------------
(***************************************************************************)
(* What EntityRegistry guarantees for any number of ids, goroutines,       *)
(* readers and registrations.                                              *)
(***************************************************************************)
EXTENDS EntityRegistry, SequenceTheorems, TLAPS

USE EntityRegistryAssumption DEF EntityRegistryAssumption

(* TypeOK in parts: the maps, the goroutines, the events and the watcher.  *)
Event == [kind : {"registered", "deregistered"}, id : Ids, gen : 1..MaxGen]

Maps ==
    /\ entities \in [Ids -> 0..MaxGen] /\ infoGen \in [Ids -> 0..MaxGen]
    /\ infoView \in [Ids -> 0..MaxGen] /\ lastGen \in [Ids -> 0..MaxGen]
    /\ found \in [Readers -> [Ids -> 0..MaxGen]]
Goroutines ==
    /\ pc \in [Threads -> {"idle", "added", "described", "got", "removed", "forgotten"}]
    /\ at \in [Threads -> Ids \cup {NoId}]
    /\ gen \in [Threads -> 0..MaxGen]
    /\ known \in [Threads -> [Ids -> 0..MaxGen]]
AtWork == \A t \in Threads : pc[t] # "idle" => at[t] \in Ids /\ gen[t] # 0
Heard ==
    /\ events \in Seq(Event)
    /\ heard \in 0..Len(events) /\ belief \in [Ids -> 0..MaxGen]
    /\ watching \in {"no", "subscribed", "looked"}
Up == entityManagerUp \in BOOLEAN /\ eventManagerUp \in BOOLEAN

TypeInv == Maps /\ Goroutines /\ AtWork /\ Heard /\ Up

(* The types, and what they rest on, hold at every step.  No assumption on *)
(* who works on which id is needed for them.                               *)
LEMMA TypeInvHolds == Spec => []TypeInv
<1>1. Init => TypeInv
  <2>1. Init => Maps
    BY DEF Init, Maps, Nothing
  <2>2. Init => Goroutines /\ AtWork
    BY DEF Init, Goroutines, AtWork, Nothing
  <2>3. Init => Heard
    BY DEF Init, Heard, Nothing
  <2>4. Init => Up
    BY DEF Init, Up
  <2> QED
    BY <2>1, <2>2, <2>3, <2>4 DEF TypeInv
<1>2. TypeInv /\ [Next]_vars => TypeInv'
  <2> SUFFICES ASSUME TypeInv, [Next]_vars PROVE TypeInv'
    OBVIOUS
  <2> USE DEF TypeInv, registryVars, threadVars, upVars, watchVars, Goto
  <2>1. ASSUME NEW t \in Threads, NEW i \in Ids, AddEntity(t, i)
        PROVE  TypeInv'
    <3>1. lastGen[i] + 1 \in 1..MaxGen
      BY <2>1 DEF AddEntity, Maps
    <3>2. Maps'
      BY <2>1, <3>1 DEF AddEntity, Maps
    <3>3. Goroutines' /\ AtWork'
      BY <2>1, <3>1 DEF AddEntity, Goroutines, AtWork
    <3> QED
      BY <2>1, <3>2, <3>3 DEF AddEntity, Heard, Up
  <2>2. ASSUME NEW t \in Threads, SetEntityInfo(t)
        PROVE  TypeInv'
    <3>1. at[t] \in Ids /\ gen[t] \in 0..MaxGen
      BY <2>2 DEF SetEntityInfo, AtWork, Goroutines
    <3>2. Maps'
      BY <2>2, <3>1 DEF SetEntityInfo, Maps
    <3>3. Goroutines' /\ AtWork'
      BY <2>2 DEF SetEntityInfo, Goroutines, AtWork
    <3> QED
      BY <2>2, <3>2, <3>3 DEF SetEntityInfo, Heard, Up
  <2>3. ASSUME NEW t \in Threads, AnnounceRegistered(t) \/ AnnounceDeregistered(t)
        PROVE  TypeInv'
    <3>1. at[t] \in Ids /\ gen[t] \in 1..MaxGen
      BY <2>3 DEF AnnounceRegistered, AnnounceDeregistered, AtWork, Goroutines
    <3>2. Maps'
      BY <2>3 DEF AnnounceRegistered, AnnounceDeregistered, Maps
    <3>3. Goroutines' /\ AtWork'
      <4>1. PICK g \in 0..MaxGen : known' = [known EXCEPT ![t][at[t]] = g]
        BY <2>3, <3>1 DEF AnnounceRegistered, AnnounceDeregistered
      <4>2. known' \in [Threads -> [Ids -> 0..MaxGen]]
        BY <3>1, <4>1 DEF Goroutines
      <4> QED
        BY <2>3, <4>2 DEF AnnounceRegistered, AnnounceDeregistered, Goroutines, AtWork
    <3>4. Heard'
      <4>1. PICK kind \in {"registered", "deregistered"} : Broadcast(kind, t)
        BY <2>3 DEF AnnounceRegistered, AnnounceDeregistered
      <4>2. [kind |-> kind, id |-> at[t], gen |-> gen[t]] \in Event
        BY <3>1 DEF Event
      <4>3. events' \in Seq(Event) /\ Len(events) \in Nat /\ Len(events') >= Len(events)
        BY <4>1, <4>2 DEF Broadcast, Heard
      <4> QED
        BY <2>3, <4>3 DEF AnnounceRegistered, AnnounceDeregistered, Heard
    <3> QED
      BY <2>3, <3>2, <3>3, <3>4 DEF AnnounceRegistered, AnnounceDeregistered, Up
  <2>4. ASSUME NEW t \in Threads, NEW i \in Ids, GetEntity(t, i)
        PROVE  TypeInv'
    <3>1. entities[i] \in 0..MaxGen /\ entities[i] # 0
      BY <2>4 DEF GetEntity, Maps
    <3>2. Goroutines' /\ AtWork'
      BY <2>4, <3>1 DEF GetEntity, Goroutines, AtWork
    <3> QED
      BY <2>4, <3>2 DEF GetEntity, Maps, Heard, Up
  <2>5. ASSUME NEW t \in Threads, RemoveEntity(t) \/ RemoveEntityInfo(t)
        PROVE  TypeInv'
    <3>1. Maps'
      BY <2>5 DEF RemoveEntity, RemoveEntityInfo, Maps
    <3>2. Goroutines'
      BY <2>5 DEF RemoveEntity, RemoveEntityInfo, Goroutines
    <3>3. AtWork'
      BY <2>5 DEF RemoveEntity, RemoveEntityInfo, Goroutines, AtWork
    <3> QED
      BY <2>5, <3>1, <3>2, <3>3 DEF RemoveEntity, RemoveEntityInfo, Heard, Up
  <2>6. ASSUME NEW t \in Threads, NEW i \in Ids, RegisterEntityView(t, i)
        PROVE  TypeInv'
    <3>1. Maps'
      BY <2>6 DEF RegisterEntityView, Maps, Goroutines
    <3> QED
      BY <2>6, <3>1 DEF RegisterEntityView, Goroutines, AtWork, Heard, Up
  <2>7. ASSUME NEW r \in Readers, FindEntities(r) \/ \E i \in Ids : EntityName(r, i)
        PROVE  TypeInv'
    <3>1. Maps'
      <4>1. CASE FindEntities(r)
        BY <4>1 DEF FindEntities, Maps
      <4>2. ASSUME NEW i \in Ids, EntityName(r, i) PROVE Maps'
        BY <4>2 DEF EntityName, Maps
      <4> QED
        BY <2>7, <4>1, <4>2
    <3> QED
      BY <2>7, <3>1 DEF FindEntities, EntityName, Goroutines, AtWork, Heard, Up
  <2>8. CASE WatchEvents \/ LookUp
    <3>1. Heard'
      BY <2>8 DEF WatchEvents, LookUp, Heard, Maps
    <3> QED
      BY <2>8, <3>1 DEF WatchEvents, LookUp, Maps, Goroutines, AtWork, Up
  <2>9. CASE Hear
    <3>1. heard + 1 \in 1..Len(events) /\ events[heard + 1] \in Event
      BY <2>9 DEF Hear, Heard
    <3>2. belief' \in [Ids -> 0..MaxGen]
      BY <2>9, <3>1 DEF Hear, Heard, Event
    <3>3. Heard'
      BY <2>9, <3>1, <3>2 DEF Hear, Heard
    <3> QED
      BY <2>9, <3>3 DEF Hear, Maps, Goroutines, AtWork, Up
  <2>10. CASE StopEntityManager \/ StopEventManager
    BY <2>10 DEF StopEntityManager, StopEventManager, Maps, Goroutines, AtWork, Heard, Up
  <2>11. CASE UNCHANGED vars
    BY <2>11 DEF vars, Maps, Goroutines, AtWork, Heard, Up
  <2> QED
    BY <2>1, <2>2, <2>3, <2>4, <2>5, <2>6, <2>7, <2>8, <2>9, <2>10, <2>11
    DEF Next, Register, Deregister
<1> QED
  BY <1>1, <1>2, PTL DEF Spec

(* Type correctness: each variable keeps to its range.                     *)
THEOREM TypeCorrect == Spec => []TypeOK
<1>1. TypeInv => TypeOK
  BY DEF TypeInv, TypeOK, Maps, Goroutines, AtWork, Heard, Up, Event
<1> QED
  BY <1>1, TypeInvHolds, PTL

--------------------------------------------------------------------------------
(* What follows needs each id to be registered and deregistered by one     *)
(* goroutine: with two of them, the maps may disagree for good.            *)
OneGoroutinePerId == \A t, u \in Threads : t # u => Touches[t] \cap Touches[u] = {}

(* How far a registration has come, told from where its goroutine is.      *)
InMaps(t) ==
    LET i == at[t] IN
    /\ pc[t] \in {"added", "described", "got"} => entities[i] = lastGen[i]
    /\ pc[t] \in {"removed", "forgotten"} => entities[i] = 0
    /\ pc[t] \in {"described", "got", "removed"} => infoGen[i] = lastGen[i]
    /\ pc[t] \in {"added", "forgotten"} => infoGen[i] = 0

(* The inductive invariant: the goroutine that is at an id decides what    *)
(* the two maps hold of it, and neither holds an earlier generation.       *)
OnIds ==
    \A t \in Threads :
        pc[t] # "idle" => at[t] \in Touches[t] /\ gen[t] = lastGen[at[t]] /\ InMaps(t)
Latest == \A i \in Ids : entities[i] \in {0, lastGen[i]} /\ infoGen[i] \in {0, lastGen[i]}
MapsAgree == \A i \in Ids : Settled(i) => infoGen[i] = entities[i]
FoundOnce == \A r \in Readers, i \in Ids : found[r][i] <= lastGen[i]

Agree == OnIds /\ Latest /\ FoundOnce /\ MapsAgree

(* What goroutine t does to id i, which nobody else touches, leaves the    *)
(* others and their ids as they were.                                      *)
LEMMA OthersAgree ==
    ASSUME OneGoroutinePerId, TypeInv, Agree,
           NEW t \in Threads, NEW i \in Touches[t],
           pc[t] # "idle" => at[t] = i, pc'[t] # "idle" => at'[t] = i,
           \A u \in Threads : u # t => pc'[u] = pc[u] /\ at'[u] = at[u] /\ gen'[u] = gen[u],
           \A j \in Ids : j # i => /\ entities'[j] = entities[j] /\ infoGen'[j] = infoGen[j]
                                  /\ lastGen'[j] = lastGen[j],
           pc'[t] # "idle" => gen'[t] = lastGen'[i] /\ InMaps(t)',
           pc'[t] = "idle" => infoGen'[i] = entities'[i],
           entities'[i] \in {0, lastGen'[i]} /\ infoGen'[i] \in {0, lastGen'[i]}
    PROVE  OnIds' /\ Latest' /\ MapsAgree'
<1> USE DEF TypeInv, Agree
<1>1. \A u \in Threads : u # t /\ pc[u] # "idle" => at[u] # i /\ at[u] \in Ids
  BY DEF OnIds, OneGoroutinePerId, AtWork
<1>2. OnIds'
  <2> SUFFICES ASSUME NEW u \in Threads, pc'[u] # "idle"
               PROVE  (at[u] \in Touches[u] /\ gen[u] = lastGen[at[u]] /\ InMaps(u))'
    BY DEF OnIds
  <2>1. CASE u = t
    BY <2>1
  <2>2. CASE u # t
    <3>1. pc[u] # "idle" /\ at[u] # i /\ at[u] \in Ids
      BY <1>1, <2>2
    <3>2. /\ pc'[u] = pc[u] /\ at'[u] = at[u] /\ gen'[u] = gen[u]
          /\ entities'[at[u]] = entities[at[u]] /\ infoGen'[at[u]] = infoGen[at[u]]
          /\ lastGen'[at[u]] = lastGen[at[u]]
      BY <2>2, <3>1
    <3>3. at[u] \in Touches[u] /\ gen[u] = lastGen[at[u]] /\ InMaps(u)
      BY <3>1 DEF OnIds
    <3>4. InMaps(u)'
      BY <3>2, <3>3 DEF InMaps
    <3> QED
      BY <3>2, <3>3, <3>4
  <2> QED
    BY <2>1, <2>2
<1>3. Latest'
  BY DEF Latest
<1>4. MapsAgree'
  <2> SUFFICES ASSUME NEW j \in Ids, Settled(j)' PROVE infoGen'[j] = entities'[j]
    BY DEF MapsAgree
  <2>1. CASE j = i
    BY <2>1 DEF Settled
  <2>2. CASE j # i
    <3>1. Settled(j)
      BY <2>2 DEF Settled
    <3> QED
      BY <2>2, <3>1 DEF MapsAgree
  <2> QED
    BY <2>1, <2>2
<1> QED
  BY <1>2, <1>3, <1>4

(* Agree holds at every step.                                              *)
LEMMA AgreeHolds == ASSUME OneGoroutinePerId PROVE Spec => []Agree
<1>1. Init => Agree
  <2> SUFFICES ASSUME Init PROVE Agree
    OBVIOUS
  <2>1. OnIds /\ MapsAgree
    BY DEF Init, OnIds, MapsAgree, Nothing
  <2>2. Latest
    BY DEF Init, Latest, Nothing
  <2>3. FoundOnce
    BY DEF Init, FoundOnce, Nothing
  <2> QED
    BY <2>1, <2>2, <2>3 DEF Agree
<1>2. TypeInv /\ Agree /\ [Next]_vars => Agree'
  <2> SUFFICES ASSUME TypeInv, Agree, [Next]_vars PROVE Agree'
    OBVIOUS
  <2> USE DEF TypeInv, Agree, registryVars, threadVars, upVars, watchVars, Goto
  <2>1. ASSUME NEW t \in Threads, NEW i \in Ids, AddEntity(t, i)
        PROVE  Agree'
    <3>1. Settled(i)
      BY <2>1 DEF AddEntity, Settled, OnIds, OneGoroutinePerId
    <3>2. /\ infoGen[i] = 0 /\ pc[t] = "idle" /\ i \in Touches[t]
          /\ UNCHANGED <<infoGen, found>>
          /\ lastGen' = [lastGen EXCEPT ![i] = lastGen[i] + 1]
          /\ entities' = [entities EXCEPT ![i] = lastGen[i] + 1]
          /\ pc' = [pc EXCEPT ![t] = "added"] /\ at' = [at EXCEPT ![t] = i]
          /\ gen' = [gen EXCEPT ![t] = lastGen[i] + 1]
      BY <2>1, <3>1 DEF AddEntity, MapsAgree
    <3>3. /\ pc'[t] = "added" /\ at'[t] = i /\ gen'[t] = lastGen'[i]
          /\ entities'[i] = lastGen'[i] /\ infoGen'[i] = 0
      BY <3>2 DEF Maps, Goroutines
    <3>4. \A u \in Threads : u # t => pc'[u] = pc[u] /\ at'[u] = at[u] /\ gen'[u] = gen[u]
      BY <3>2 DEF Goroutines
    <3>5. \A j \in Ids : j # i => /\ entities'[j] = entities[j] /\ infoGen'[j] = infoGen[j]
                                 /\ lastGen'[j] = lastGen[j]
      BY <3>2 DEF Maps
    <3>6. InMaps(t)'
      BY <3>3 DEF InMaps
    <3>7. OnIds' /\ Latest' /\ MapsAgree'
      BY <3>2, <3>3, <3>4, <3>5, <3>6, OthersAgree
    <3>8. FoundOnce'
      BY <3>2 DEF FoundOnce, Maps
    <3> QED
      BY <3>7, <3>8
  <2>2. ASSUME NEW t \in Threads, NEW i \in Ids, GetEntity(t, i)
        PROVE  Agree'
    <3>1. Settled(i)
      BY <2>2 DEF GetEntity, Settled, OnIds, OneGoroutinePerId
    <3>2. /\ infoGen[i] = lastGen[i] /\ entities[i] = lastGen[i] /\ pc[t] = "idle" /\ i \in Touches[t]
          /\ UNCHANGED <<entities, infoGen, lastGen, found>>
          /\ pc' = [pc EXCEPT ![t] = "got"] /\ at' = [at EXCEPT ![t] = i]
          /\ gen' = [gen EXCEPT ![t] = entities[i]]
      BY <2>2, <3>1 DEF GetEntity, MapsAgree, Latest
    <3>3. pc'[t] = "got" /\ at'[t] = i /\ gen'[t] = lastGen'[i]
      BY <3>2 DEF Goroutines
    <3>4. \A u \in Threads : u # t => pc'[u] = pc[u] /\ at'[u] = at[u] /\ gen'[u] = gen[u]
      BY <3>2 DEF Goroutines
    <3>5. InMaps(t)'
      BY <3>2, <3>3 DEF InMaps
    <3>6. OnIds' /\ Latest' /\ MapsAgree'
      BY <3>2, <3>3, <3>4, <3>5, OthersAgree
    <3> QED
      BY <3>2, <3>6 DEF FoundOnce
  <2>3. ASSUME NEW t \in Threads,
               \/ SetEntityInfo(t) \/ AnnounceRegistered(t)
               \/ RemoveEntity(t) \/ RemoveEntityInfo(t) \/ AnnounceDeregistered(t)
        PROVE  Agree'
    <3> DEFINE i == at[t]
    <3>1. /\ pc[t] # "idle" /\ i \in Touches[t] /\ i \in Ids
          /\ gen[t] = lastGen[i] /\ InMaps(t) /\ UNCHANGED <<at, gen, lastGen, found>>
      BY <2>3 DEF SetEntityInfo, AnnounceRegistered, RemoveEntity, RemoveEntityInfo,
                  AnnounceDeregistered, OnIds, AtWork
    <3>2. \A u \in Threads : u # t => pc'[u] = pc[u] /\ at'[u] = at[u] /\ gen'[u] = gen[u]
      BY <2>3, <3>1 DEF SetEntityInfo, AnnounceRegistered, RemoveEntity, RemoveEntityInfo,
                        AnnounceDeregistered, Goroutines
    <3>3. \A j \in Ids : j # i => /\ entities'[j] = entities[j] /\ infoGen'[j] = infoGen[j]
                                 /\ lastGen'[j] = lastGen[j]
      BY <2>3, <3>1 DEF SetEntityInfo, AnnounceRegistered, RemoveEntity, RemoveEntityInfo,
                        AnnounceDeregistered, Maps
    <3>4. /\ pc'[t] # "idle" => InMaps(t)'
          /\ pc'[t] = "idle" => infoGen'[i] = entities'[i]
          /\ entities'[i] \in {0, lastGen'[i]} /\ infoGen'[i] \in {0, lastGen'[i]}
      <4>1. CASE SetEntityInfo(t)
        BY <3>1, <4>1 DEF SetEntityInfo, InMaps, Maps, Goroutines
      <4>2. CASE AnnounceRegistered(t)
        BY <3>1, <4>2 DEF AnnounceRegistered, InMaps, Maps, Goroutines
      <4>3. CASE RemoveEntity(t)
        <5>1. pc[t] = "got" /\ entities[i] = lastGen[i] /\ infoGen[i] = lastGen[i] /\ infoGen' = infoGen
          BY <3>1, <4>3 DEF RemoveEntity, InMaps
        <5>2. CASE entities' = [entities EXCEPT ![i] = 0] /\ pc' = [pc EXCEPT ![t] = "removed"]
          BY <3>1, <5>1, <5>2 DEF InMaps, Maps, Goroutines
        <5>3. CASE entities' = entities /\ pc' = [pc EXCEPT ![t] = "idle"]
          BY <3>1, <5>1, <5>3 DEF Maps, Goroutines
        <5> QED
          BY <4>3, <5>2, <5>3 DEF RemoveEntity
      <4>4. CASE RemoveEntityInfo(t)
        BY <3>1, <4>4 DEF RemoveEntityInfo, InMaps, Maps, Goroutines
      <4>5. CASE AnnounceDeregistered(t)
        BY <3>1, <4>5 DEF AnnounceDeregistered, InMaps, Maps, Goroutines
      <4> QED
        BY <2>3, <4>1, <4>2, <4>3, <4>4, <4>5
    <3>5. OnIds' /\ Latest' /\ MapsAgree'
      BY <3>1, <3>2, <3>3, <3>4, OthersAgree
    <3> QED
      BY <3>1, <3>5 DEF FoundOnce
  <2>4. ASSUME NEW r \in Readers, FindEntities(r) \/ \E i \in Ids : EntityName(r, i)
        PROVE  Agree'
    <3>0. UNCHANGED <<entities, infoGen, lastGen, pc, at, gen>>
      BY <2>4 DEF FindEntities, EntityName
    <3>1. OnIds' /\ Latest' /\ MapsAgree' /\ lastGen' = lastGen
      BY <3>0 DEF OnIds, InMaps, Latest, MapsAgree, Settled
    <3>2. FoundOnce'
      <4>1. CASE FindEntities(r)
        BY <4>1 DEF FindEntities, FoundOnce, Latest, Maps
      <4>2. ASSUME NEW i \in Ids, EntityName(r, i) PROVE FoundOnce'
        BY <4>2 DEF EntityName, FoundOnce, Maps
      <4> QED
        BY <2>4, <4>1, <4>2
    <3> QED
      BY <3>1, <3>2
  <2>5. ASSUME \/ \E t \in Threads, i \in Ids : RegisterEntityView(t, i)
               \/ WatchEvents \/ LookUp \/ Hear \/ StopEntityManager \/ StopEventManager
               \/ UNCHANGED vars
        PROVE  Agree'
    <3>1. UNCHANGED <<entities, infoGen, lastGen, pc, at, gen, found>>
      BY <2>5 DEF RegisterEntityView, WatchEvents, LookUp, Hear, StopEntityManager,
                  StopEventManager, vars
    <3> QED
      BY <3>1 DEF OnIds, InMaps, Latest, FoundOnce, MapsAgree, Settled
  <2> QED
    BY <2>1, <2>2, <2>3, <2>4, <2>5 DEF Next, Register, Deregister
<1> QED
  BY <1>1, <1>2, TypeInvHolds, PTL DEF Spec

(* What a goroutine has been told of its ids is what is there, or what it  *)
(* is about to take away, so that a view is given to the right entity.     *)
KnownOf(t, i) ==
    known[t][i] # 0 =>
        /\ i \in Touches[t] /\ known[t][i] = lastGen[i]
        /\ entities[i] # 0 \/ (pc[t] \in {"removed", "forgotten"} /\ at[t] = i)
Views ==
    /\ \A t \in Threads, i \in Ids : KnownOf(t, i)
    /\ \A i \in Ids : infoView[i] \in {0, infoGen[i]}

LEMMA ViewsHold == ASSUME OneGoroutinePerId PROVE Spec => []Views
<1>1. Init => Views
  <2> SUFFICES ASSUME Init PROVE Views
    OBVIOUS
  <2>1. \A t \in Threads, i \in Ids : KnownOf(t, i)
    BY DEF Init, KnownOf, Nothing
  <2>2. \A i \in Ids : infoView[i] \in {0, infoGen[i]}
    BY DEF Init, Nothing
  <2> QED
    BY <2>1, <2>2 DEF Views
<1>2. TypeInv /\ Agree /\ Views /\ [Next]_vars => Views'
  <2> SUFFICES ASSUME TypeInv, Agree, Views, [Next]_vars PROVE Views'
    OBVIOUS
  <2> USE DEF TypeInv, Agree, registryVars, threadVars, upVars, watchVars, Goto
  (* A goroutine that does not announce tells nobody anything.             *)
  <2>0. ASSUME NEW t \in Threads, NEW i \in Touches[t], known' = known,
               \A u \in Threads : u # t => pc'[u] = pc[u] /\ at'[u] = at[u],
               \A j \in Ids : j # i => entities'[j] = entities[j] /\ lastGen'[j] = lastGen[j],
               pc[t] # "idle" => at[t] = i,
               KnownOf(t, i)'
        PROVE  \A u \in Threads, j \in Ids : KnownOf(u, j)'
    <3> SUFFICES ASSUME NEW u \in Threads, NEW j \in Ids PROVE KnownOf(u, j)'
      OBVIOUS
    <3>1. KnownOf(u, j)
      BY DEF Views
    <3>2. CASE j # i /\ u # t
      BY <2>0, <3>1, <3>2 DEF KnownOf
    <3>3. CASE j # i /\ u = t
      BY <2>0, <3>1, <3>3 DEF KnownOf
    <3>4. CASE j = i /\ u # t
      BY <2>0, <3>1, <3>4 DEF KnownOf, OneGoroutinePerId
    <3>5. CASE j = i /\ u = t
      BY <2>0, <3>5
    <3> QED
      BY <3>2, <3>3, <3>4, <3>5
  <2>1. ASSUME NEW t \in Threads, NEW i \in Ids, AddEntity(t, i)
        PROVE  Views'
    <3>1. /\ i \in Touches[t] /\ pc[t] = "idle" /\ entities[i] = 0
          /\ UNCHANGED <<known, infoGen, infoView>>
          /\ lastGen' = [lastGen EXCEPT ![i] = lastGen[i] + 1]
          /\ entities' = [entities EXCEPT ![i] = lastGen[i] + 1]
          /\ pc' = [pc EXCEPT ![t] = "added"] /\ at' = [at EXCEPT ![t] = i]
      BY <2>1 DEF AddEntity
    <3>2. known[t][i] = 0
      BY <3>1 DEF Views, KnownOf
    <3>3. KnownOf(t, i)'
      BY <3>1, <3>2 DEF KnownOf
    <3>4. \A u \in Threads : u # t => pc'[u] = pc[u] /\ at'[u] = at[u]
      BY <3>1 DEF Goroutines
    <3>5. \A j \in Ids : j # i => entities'[j] = entities[j] /\ lastGen'[j] = lastGen[j]
      BY <3>1 DEF Maps
    <3>6. \A u \in Threads, j \in Ids : KnownOf(u, j)'
      BY <2>0, <3>1, <3>3, <3>4, <3>5
    <3> QED
      BY <3>1, <3>6 DEF Views
  <2>2. ASSUME NEW t \in Threads, NEW i \in Ids, GetEntity(t, i)
        PROVE  Views'
    <3>1. /\ i \in Touches[t] /\ pc[t] = "idle" /\ entities[i] # 0
          /\ UNCHANGED <<known, infoGen, infoView, entities, lastGen>>
          /\ pc' = [pc EXCEPT ![t] = "got"] /\ at' = [at EXCEPT ![t] = i]
      BY <2>2 DEF GetEntity
    <3>2. KnownOf(t, i)'
      BY <3>1 DEF Views, KnownOf
    <3>3. \A u \in Threads : u # t => pc'[u] = pc[u] /\ at'[u] = at[u]
      BY <3>1 DEF Goroutines
    <3>4. \A u \in Threads, j \in Ids : KnownOf(u, j)'
      BY <2>0, <3>1, <3>2, <3>3
    <3> QED
      BY <3>1, <3>4 DEF Views
  <2>3. ASSUME NEW t \in Threads, SetEntityInfo(t) \/ RemoveEntity(t) \/ RemoveEntityInfo(t)
        PROVE  Views'
    <3> DEFINE i == at[t]
    <3>1. /\ pc[t] \in {"added", "got", "removed"} /\ i \in Touches[t] /\ i \in Ids
          /\ UNCHANGED <<at, lastGen, known>>
      BY <2>3 DEF SetEntityInfo, RemoveEntity, RemoveEntityInfo, OnIds, AtWork
    <3>2. \A u \in Threads : u # t => pc'[u] = pc[u] /\ at'[u] = at[u]
      BY <2>3, <3>1 DEF SetEntityInfo, RemoveEntity, RemoveEntityInfo, Goroutines
    <3>3. \A j \in Ids : j # i => entities'[j] = entities[j]
      BY <2>3, <3>1 DEF SetEntityInfo, RemoveEntity, RemoveEntityInfo, Maps
    <3>4. KnownOf(t, i)
      BY <3>1 DEF Views
    <3>5. KnownOf(t, i)'
      <4>1. CASE SetEntityInfo(t)
        BY <3>1, <3>4, <4>1 DEF SetEntityInfo, KnownOf, Goroutines
      <4>2. CASE RemoveEntity(t)
        BY <3>1, <3>4, <4>2 DEF RemoveEntity, KnownOf, Goroutines
      <4>3. CASE RemoveEntityInfo(t)
        BY <3>1, <3>4, <4>3 DEF RemoveEntityInfo, KnownOf, Goroutines
      <4> QED
        BY <2>3, <4>1, <4>2, <4>3
    <3>6. \A u \in Threads, j \in Ids : KnownOf(u, j)'
      BY <2>0, <3>1, <3>2, <3>3, <3>5
    <3>7. ASSUME NEW j \in Ids PROVE infoView'[j] \in {0, infoGen'[j]}
      BY <2>3, <3>1 DEF SetEntityInfo, RemoveEntity, RemoveEntityInfo, Maps, Views
    <3> QED
      BY <3>6, <3>7 DEF Views
  <2>4. ASSUME NEW t \in Threads, AnnounceRegistered(t) \/ AnnounceDeregistered(t)
        PROVE  Views'
    <3>1. /\ pc[t] \in {"described", "forgotten"} /\ at[t] \in Touches[t] /\ at[t] \in Ids
          /\ gen[t] = lastGen[at[t]] /\ gen[t] # 0 /\ InMaps(t)
          /\ UNCHANGED <<entities, infoGen, infoView, lastGen, at>>
          /\ pc' = [pc EXCEPT ![t] = "idle"]
      BY <2>4 DEF AnnounceRegistered, AnnounceDeregistered, OnIds, AtWork
    <3>2. /\ known' = [known EXCEPT ![t][at[t]] = IF pc[t] = "described" THEN gen[t] ELSE 0]
      BY <2>4 DEF AnnounceRegistered, AnnounceDeregistered
    <3>3. ASSUME NEW u \in Threads, NEW j \in Ids PROVE KnownOf(u, j)'
      <4>0. KnownOf(u, j)
        BY DEF Views
      <4>1. CASE u = t /\ j = at[t]
        <5>1. known'[u][j] = IF pc[t] = "described" THEN gen[t] ELSE 0
          BY <3>1, <3>2, <4>1 DEF Goroutines
        <5> QED
          BY <3>1, <4>1, <5>1 DEF KnownOf, InMaps
      <4>2. CASE u # t \/ j # at[t]
        <5>1. known'[u][j] = known[u][j]
          BY <3>2, <4>2 DEF Goroutines
        <5>2. pc'[u] = pc[u] \/ u = t
          BY <3>1 DEF Goroutines
        <5> QED
          BY <3>1, <4>0, <4>2, <5>1, <5>2 DEF KnownOf
      <4> QED
        BY <4>1, <4>2
    <3> QED
      BY <3>1, <3>3 DEF Views
  <2>5. ASSUME NEW t \in Threads, NEW i \in Ids, RegisterEntityView(t, i)
        PROVE  Views'
    <3>1. /\ known[t][i] = lastGen[i] /\ infoGen[i] = lastGen[i]
          /\ infoView' = [infoView EXCEPT ![i] = known[t][i]]
          /\ UNCHANGED <<entities, infoGen, lastGen, pc, at, known>>
      BY <2>5 DEF RegisterEntityView, Views, KnownOf, Latest
    <3>2. \A j \in Ids : infoView'[j] \in {0, infoGen'[j]}
      BY <3>1 DEF Views, Maps
    <3> QED
      BY <3>1, <3>2 DEF Views, KnownOf
  <2>6. ASSUME \/ \E r \in Readers : FindEntities(r) \/ \E i \in Ids : EntityName(r, i)
               \/ WatchEvents \/ LookUp \/ Hear \/ StopEntityManager \/ StopEventManager
               \/ UNCHANGED vars
        PROVE  Views'
    <3>1. UNCHANGED <<entities, infoGen, infoView, lastGen, pc, at, known>>
      BY <2>6 DEF FindEntities, EntityName, WatchEvents, LookUp, Hear, StopEntityManager,
                  StopEventManager, vars
    <3> QED
      BY <3>1 DEF Views, KnownOf
  <2> QED
    BY <2>1, <2>2, <2>3, <2>4, <2>5, <2>6 DEF Next, Register, Deregister
<1> QED
  BY <1>1, <1>2, TypeInvHolds, AgreeHolds, PTL DEF Spec

(* Where each id is one goroutine's, an entity that is registered has its  *)
(* info, no other does, and no info ever has the view of another entity.   *)
THEOREM InfoIsTheEntitys == ASSUME OneGoroutinePerId PROVE Spec => []InfoAgrees
<1>1. Agree /\ Views => InfoAgrees
  BY DEF Agree, MapsAgree, Views, InfoAgrees
<1> QED
  BY <1>1, AgreeHolds, ViewsHold, PTL

(* Where each id is one goroutine's, no name is that of an earlier entity. *)
THEOREM NamesAreFresh == ASSUME OneGoroutinePerId PROVE Spec => []NoStaleName
<1>1. TypeInv /\ Agree => NoStaleName
  BY DEF TypeInv, Maps, Agree, Latest, FoundOnce, NoStaleName
<1> QED
  BY <1>1, TypeInvHolds, AgreeHolds, PTL

--------------------------------------------------------------------------------
(* What the events have said of an id, told from where its goroutine is:   *)
(* a registration is announced last, and a deregistration too.             *)
Announced(i) ==
    Settled(i) => LastSays(i, Len(events), IF entities[i] = 0 THEN "deregistered" ELSE "registered",
                           lastGen[i])
OnTheWay(t) ==
    LET said(kind, g) == LastSays(at[t], Len(events), kind, g) IN
    /\ pc[t] \in {"added", "described"} => said("deregistered", gen[t] - 1)
    /\ pc[t] \in {"got", "removed", "forgotten"} => said("registered", gen[t])

(* The inductive invariant.  Events are not broadcast any more when the    *)
(* event manager has stopped, so the last one may then be out of date.     *)
History ==
    /\ EventsAlternate
    /\ eventManagerUp => (\A i \in Ids : Announced(i)) /\ (\A t \in Threads : OnTheWay(t))

(* A new event is the last that its id has; what the last event of another *)
(* id says, and what those before it said, is as it was.                   *)
LEMMA AppendSays ==
    ASSUME events \in Seq(Event), NEW e \in Event, events' = Append(events, e)
    PROVE  /\ \A i \in Ids, k \in 0..Len(events), g \in 0..MaxGen, kind \in {"registered", "deregistered"} :
                 LastSays(i, k, kind, g)' = LastSays(i, k, kind, g)
           /\ \A i \in Ids, g \in 0..MaxGen, kind \in {"registered", "deregistered"} :
                 i # e.id => LastSays(i, Len(events), kind, g)' = LastSays(i, Len(events), kind, g)
           /\ LastSays(e.id, Len(events), e.kind, e.gen)'

<1>0. PICK n \in Nat : n = Len(events)
  BY AppendProperties
<1>1. /\ Len(events) = n /\ Len(events') = n + 1 /\ events'[n + 1] = e
      /\ \A j \in 1..n : events'[j] = events[j]
  BY <1>0, AppendProperties
<1>2. ASSUME NEW i \in Ids, NEW k \in 0..n PROVE EventsOf(i, k)' = EventsOf(i, k)
  BY <1>1 DEF EventsOf
<1>3. ASSUME NEW i \in Ids, i # e.id PROVE EventsOf(i, n + 1)' = EventsOf(i, n)
  BY <1>1, <1>3 DEF EventsOf
<1>4. ASSUME NEW i \in Ids, NEW k \in 0..n, NEW g \in 0..MaxGen, NEW kind \in {"registered", "deregistered"}
      PROVE  LastSays(i, k, kind, g)' = LastSays(i, k, kind, g)
  <2>1. \A j \in EventsOf(i, k) : events'[j] = events[j]
    BY <1>1 DEF EventsOf
  <2> QED
    BY <1>2, <2>1 DEF LastSays
<1>5. ASSUME NEW i \in Ids, NEW g \in 0..MaxGen, NEW kind \in {"registered", "deregistered"}, i # e.id
      PROVE  LastSays(i, Len(events), kind, g)' = LastSays(i, Len(events), kind, g)
  <2>1. \A j \in EventsOf(i, n) : events'[j] = events[j]
    BY <1>1 DEF EventsOf
  <2>2. EventsOf(i, Len(events))' = EventsOf(i, n)
    BY <1>1, <1>3, <1>5 DEF EventsOf
  <2> QED
    BY <1>1, <2>1, <2>2 DEF LastSays
<1>6. LastSays(e.id, Len(events), e.kind, e.gen)'
  <2>1. e.gen # 0
    BY DEF Event
  <2>2. /\ n + 1 \in EventsOf(e.id, Len(events))'
        /\ \A l \in EventsOf(e.id, Len(events))' : l <= n + 1
    BY <1>1 DEF EventsOf
  <2> QED
    BY <1>1, <2>1, <2>2 DEF LastSays
<1> QED
  BY <1>1, <1>4, <1>5, <1>6

(* The history is told right where each id is one goroutine's.             *)
LEMMA HistoryHolds == ASSUME OneGoroutinePerId PROVE Spec => []History
<1>1. Init => History
  <2> SUFFICES ASSUME Init PROVE History
    OBVIOUS
  <2>1. EventsAlternate
    BY DEF Init, EventsAlternate
  <2>2. \A t \in Threads : OnTheWay(t)
    BY DEF Init, OnTheWay
  <2>3. \A i \in Ids : Announced(i)
    BY DEF Init, Announced, Nothing, LastSays, EventsOf
  <2> QED
    BY <2>1, <2>2, <2>3 DEF History
<1>2. TypeInv /\ Agree /\ History /\ [Next]_vars => History'
  <2> SUFFICES ASSUME TypeInv, Agree, History, [Next]_vars PROVE History'
    OBVIOUS
  <2> USE DEF TypeInv, Agree, registryVars, threadVars, upVars, watchVars, Goto
  (* An action of t at i tells of i and t only, if it broadcasts nothing.  *)
  <2>0. ASSUME NEW t \in Threads, NEW i \in Touches[t], UNCHANGED <<events, eventManagerUp>>,
               pc[t] # "idle" => at[t] = i, pc'[t] # "idle" => at'[t] = i,
               \A u \in Threads : u # t => pc'[u] = pc[u] /\ at'[u] = at[u] /\ gen'[u] = gen[u],
               \A j \in Ids : j # i => entities'[j] = entities[j] /\ lastGen'[j] = lastGen[j],
               eventManagerUp /\ pc'[t] = "idle" => Announced(i)',
               eventManagerUp => OnTheWay(t)'
        PROVE  History'
    <3>1. EventsAlternate'
      BY <2>0 DEF History, EventsAlternate, LastSays, EventsOf
    <3>2. ASSUME eventManagerUp, NEW u \in Threads PROVE OnTheWay(u)'
      BY <2>0, <3>2 DEF History, OnTheWay, LastSays, EventsOf
    <3>3. ASSUME eventManagerUp, NEW j \in Ids PROVE Announced(j)'
      <4>1. CASE j # i
        <5>1. Settled(j)' => Settled(j)
          BY <2>0, <4>1 DEF Settled
        <5> QED
          BY <2>0, <3>3, <4>1, <5>1 DEF History, Announced, LastSays, EventsOf
      <4>2. CASE j = i
        BY <2>0, <3>3, <4>2 DEF Announced, Settled
      <4> QED
        BY <4>1, <4>2
    <3> QED
      BY <2>0, <3>1, <3>2, <3>3 DEF History

  <2>1. ASSUME NEW t \in Threads, NEW i \in Ids, AddEntity(t, i)
        PROVE  History'
    <3>1. Settled(i)
      BY <2>1 DEF AddEntity, Settled, OnIds, OneGoroutinePerId
    <3>2. /\ pc[t] = "idle" /\ i \in Touches[t] /\ UNCHANGED <<events, eventManagerUp>>
          /\ entities[i] = 0 /\ lastGen[i] \in 0..MaxGen
          /\ pc'[t] = "added" /\ at'[t] = i /\ gen'[t] = lastGen[i] + 1
          /\ \A u \in Threads : u # t => pc'[u] = pc[u] /\ at'[u] = at[u] /\ gen'[u] = gen[u]
          /\ \A j \in Ids : j # i => entities'[j] = entities[j] /\ lastGen'[j] = lastGen[j]
      BY <2>1 DEF AddEntity, Maps, Goroutines
    <3>3. ASSUME eventManagerUp PROVE OnTheWay(t)'
      <4>1. LastSays(i, Len(events), "deregistered", lastGen[i])
        BY <3>1, <3>2, <3>3 DEF History, Announced
      <4>2. gen'[t] - 1 = lastGen[i]
        BY <3>2
      <4> QED
        BY <3>2, <4>1, <4>2 DEF OnTheWay, LastSays, EventsOf
    <3> QED
      BY <2>0, <3>2, <3>3
  <2>2. ASSUME NEW t \in Threads, NEW i \in Ids, GetEntity(t, i)
        PROVE  History'
    <3>1. Settled(i)
      BY <2>2 DEF GetEntity, Settled, OnIds, OneGoroutinePerId
    <3>2. /\ pc[t] = "idle" /\ i \in Touches[t] /\ UNCHANGED <<events, eventManagerUp, entities, lastGen>>
          /\ entities[i] # 0 /\ entities[i] = lastGen[i]
          /\ pc'[t] = "got" /\ at'[t] = i /\ gen'[t] = entities[i]
          /\ \A u \in Threads : u # t => pc'[u] = pc[u] /\ at'[u] = at[u] /\ gen'[u] = gen[u]
      BY <2>2 DEF GetEntity, Maps, Goroutines, Latest
    <3>3. ASSUME eventManagerUp PROVE OnTheWay(t)'
      <4>1. LastSays(i, Len(events), "registered", lastGen[i])
        BY <3>1, <3>2, <3>3 DEF History, Announced
      <4> QED
        BY <3>2, <4>1 DEF OnTheWay, LastSays, EventsOf
    <3> QED
      BY <2>0, <3>2, <3>3
  <2>3. ASSUME NEW t \in Threads, SetEntityInfo(t) \/ RemoveEntity(t) \/ RemoveEntityInfo(t)
        PROVE  History'
    <3> DEFINE i == at[t]
    <3>1. /\ pc[t] # "idle" /\ i \in Touches[t] /\ i \in Ids /\ gen[t] = lastGen[i] /\ InMaps(t)
          /\ UNCHANGED <<at, gen, lastGen, events, eventManagerUp>>
      BY <2>3 DEF SetEntityInfo, RemoveEntity, RemoveEntityInfo, OnIds, AtWork
    <3>2. /\ \A u \in Threads : u # t => pc'[u] = pc[u]
          /\ \A j \in Ids : j # i => entities'[j] = entities[j]
      BY <2>3, <3>1 DEF SetEntityInfo, RemoveEntity, RemoveEntityInfo, Goroutines, Maps
    <3>3. \/ pc[t] = "added" /\ pc'[t] = "described"
          \/ pc[t] = "got" /\ pc'[t] = "removed"
          \/ pc[t] = "removed" /\ pc'[t] = "forgotten"
          \/ pc[t] = "got" /\ pc'[t] = "idle" /\ entities' = entities
      BY <2>3 DEF SetEntityInfo, RemoveEntity, RemoveEntityInfo, Goroutines
    <3>4. ASSUME eventManagerUp PROVE OnTheWay(t)'
      <4>1. OnTheWay(t)
        BY <3>4 DEF History
      <4> QED
        BY <3>1, <3>3, <4>1 DEF OnTheWay, LastSays, EventsOf
    <3>5. ASSUME eventManagerUp, pc'[t] = "idle" PROVE Announced(i)'
      <4>1. LastSays(i, Len(events), "registered", lastGen[i])
        BY <3>1, <3>3, <3>5 DEF History, OnTheWay
      <4>2. entities'[i] = lastGen[i] /\ gen[t] # 0
        BY <3>1, <3>3, <3>5 DEF InMaps, AtWork
      <4> QED
        BY <3>1, <4>1, <4>2 DEF Announced, LastSays, EventsOf
    <3>6. at'[t] = i /\ \A u \in Threads : u # t => pc'[u] = pc[u] /\ at'[u] = at[u] /\ gen'[u] = gen[u]
      BY <3>1, <3>2
    <3>7. \A j \in Ids : j # i => entities'[j] = entities[j] /\ lastGen'[j] = lastGen[j]
      BY <3>1, <3>2
    <3> QED
      BY <2>0, <3>1, <3>4, <3>5, <3>6, <3>7
  <2>4. ASSUME NEW t \in Threads, AnnounceRegistered(t) \/ AnnounceDeregistered(t)
        PROVE  History'
    <3>1. /\ pc[t] # "idle" /\ at[t] \in Touches[t] /\ at[t] \in Ids /\ gen[t] = lastGen[at[t]]
          /\ gen[t] \in 1..MaxGen /\ InMaps(t)
          /\ UNCHANGED <<at, gen, lastGen, entities, eventManagerUp>>
          /\ pc' = [pc EXCEPT ![t] = "idle"]
      BY <2>4 DEF AnnounceRegistered, AnnounceDeregistered, OnIds, AtWork, Goroutines
    <3>2. CASE ~eventManagerUp
      <4>1. UNCHANGED <<events, eventManagerUp>>
        BY <2>4, <3>2 DEF AnnounceRegistered, AnnounceDeregistered, Broadcast
      <4> QED
        BY <3>2, <4>1 DEF History, EventsAlternate, LastSays, EventsOf
    <3>3. CASE eventManagerUp
      <4>1. PICK kind \in {"registered", "deregistered"} :
                /\ events' = Append(events, [kind |-> kind, id |-> at[t], gen |-> gen[t]])
                /\ IF kind = "registered" THEN pc[t] = "described" ELSE pc[t] = "forgotten"
        BY <2>4, <3>3 DEF AnnounceRegistered, AnnounceDeregistered, Broadcast
      <4>2. PICK e \in Event : /\ e.kind = kind /\ e.id = at[t] /\ e.gen = gen[t]
                               /\ events' = Append(events, e)
        BY <3>1, <4>1 DEF Event
      <4>3. PICK n \in Nat : /\ n = Len(events) /\ Len(events') = n + 1 /\ events'[n + 1] = e
                             /\ \A j \in 1..n : events'[j] = events[j] /\ events[j] \in Event
        <5>1. \A j \in 1..Len(events) : events[j] \in Event
          BY ElementOfSeq DEF Heard
        <5> QED
          BY <4>2, <5>1, AppendProperties DEF Heard
      <4>4. EventsAlternate'
        <5>0. events' \in Seq(Event) /\ DOMAIN events' = 1..(n + 1) /\ \A k \in 1..(n + 1) : events'[k] \in Event
          BY <4>2, <4>3, AppendProperties DEF Heard
        <5> SUFFICES ASSUME NEW k \in 1..(n + 1), NEW f \in Event, f = events'[k]
                     PROVE  IF f.kind = "registered" THEN LastSays(f.id, k - 1, "deregistered", f.gen - 1)'
                                                     ELSE LastSays(f.id, k - 1, "registered", f.gen)'
          BY <5>0 DEF EventsAlternate
        <5>1. f.gen \in 0..MaxGen /\ f.gen - 1 \in 0..MaxGen /\ f.id \in Ids /\ k - 1 \in 0..Len(events)
          BY <4>3 DEF Event
        <5>2. IF f.kind = "registered" THEN LastSays(f.id, k - 1, "deregistered", f.gen - 1)
                                       ELSE LastSays(f.id, k - 1, "registered", f.gen)
          <6>1. CASE k \in 1..n
            BY <4>3, <6>1 DEF History, EventsAlternate
          <6>2. CASE k = n + 1
            <7>1. f = e /\ k - 1 = n
              BY <4>3, <6>2
            <7> QED
              BY <3>3, <4>1, <4>2, <4>3, <7>1 DEF History, OnTheWay
          <6> QED
            BY <6>1, <6>2
        <5>3. PICK m \in 0..Len(events) : m = k - 1
          BY <5>1
        <5>4. ASSUME NEW what \in {"registered", "deregistered"}, NEW g \in 0..MaxGen
              PROVE  LastSays(f.id, m, what, g)' = LastSays(f.id, m, what, g)
          BY <4>2, <5>1, AppendSays DEF Heard
        <5> QED
          BY <5>1, <5>2, <5>3, <5>4
      <4>5. ASSUME NEW j \in Ids PROVE Announced(j)'
        <5>1. CASE j = at[t]
          <6>1. LastSays(j, Len(events), kind, gen[t])'
            BY <3>1, <4>2, <5>1, AppendSays DEF Heard
          <6> QED
            BY <3>1, <4>1, <5>1, <6>1 DEF Announced, InMaps
        <5>2. CASE j # at[t]
          <6>1. Settled(j)' => Settled(j)
            BY <3>1, <5>2 DEF Settled, Goroutines
          <6>2. ASSUME NEW what \in {"registered", "deregistered"}
                PROVE  LastSays(j, Len(events), what, lastGen[j])' = LastSays(j, Len(events), what, lastGen[j])
            BY <3>1, <4>2, <5>2, AppendSays DEF Heard, Maps
          <6> QED
            BY <3>1, <3>3, <6>1, <6>2 DEF History, Announced
        <5> QED
          BY <5>1, <5>2
      <4>6. ASSUME NEW u \in Threads PROVE OnTheWay(u)'
        <5>1. CASE u = t \/ pc[u] = "idle"
          BY <3>1, <5>1 DEF OnTheWay, Goroutines
        <5>2. CASE u # t /\ pc[u] # "idle"
          <6>1. /\ at[u] # at[t] /\ at[u] \in Ids /\ gen[u] \in 0..MaxGen /\ gen[u] - 1 \in 0..MaxGen
                /\ pc'[u] = pc[u]
            <7>1. at[u] \in Touches[u] /\ at[u] \in Ids /\ gen[u] # 0
              BY <5>2 DEF OnIds, AtWork
            <7>2. at[u] # at[t]
              BY <3>1, <5>2, <7>1 DEF OneGoroutinePerId
            <7>0. gen[u] \in 0..MaxGen
              BY DEF Goroutines
            <7>3. gen[u] \in 0..MaxGen /\ gen[u] - 1 \in 0..MaxGen
              BY <7>0, <7>1
            <7>4. pc'[u] = pc[u]
              BY <3>1, <5>2 DEF Goroutines
            <7> QED
              BY <7>1, <7>2, <7>3, <7>4
          <6>2. OnTheWay(u)
            BY <3>3 DEF History
          <6> QED
            BY <3>1, <4>2, <6>1, <6>2, AppendSays DEF OnTheWay, Heard
        <5> QED
          BY <5>1, <5>2
      <4> QED
        BY <4>4, <4>5, <4>6 DEF History
    <3> QED
      BY <3>2, <3>3
  <2>5. ASSUME \/ \E t \in Threads, i \in Ids : RegisterEntityView(t, i)
               \/ \E r \in Readers : FindEntities(r) \/ \E i \in Ids : EntityName(r, i)
               \/ WatchEvents \/ LookUp \/ Hear \/ StopEntityManager \/ StopEventManager
               \/ UNCHANGED vars
        PROVE  History'
    <3>1. UNCHANGED <<entities, lastGen, pc, at, gen, events>> /\ (eventManagerUp' => eventManagerUp)
      BY <2>5 DEF RegisterEntityView, FindEntities, EntityName, WatchEvents, LookUp, Hear,
                  StopEntityManager, StopEventManager, vars
    <3> QED
      BY <3>1 DEF History, EventsAlternate, Announced, OnTheWay, Settled, LastSays, EventsOf
  <2> QED
    BY <2>1, <2>2, <2>3, <2>4, <2>5 DEF Next, Register, Deregister
<1> QED
  BY <1>1, <1>2, TypeInvHolds, AgreeHolds, PTL DEF Spec

(* Where each id is one goroutine's, its events tell its history with no   *)
(* step missing or repeated.                                               *)
THEOREM EventsAreAHistory == ASSUME OneGoroutinePerId PROVE Spec => []EventsAlternate
<1>1. History => EventsAlternate
  BY DEF History
<1> QED
  BY <1>1, HistoryHolds, PTL

(* What the watcher does not know yet is still to be heard: while it       *)
(* listens, an id whose registration is not on its way, and of which there *)
(* is no event that it has not heard, is as it believes.                   *)
Quiet(i) == \A t \in Threads : pc[t] \notin {"idle", "got"} => at[t] # i
Informed ==
    watching = "looked" /\ eventManagerUp
        => \A i \in Ids : Quiet(i) /\ (\A k \in EventsOf(i, Len(events)) : k <= heard)
                           => belief[i] = entities[i]

LEMMA InformedHolds == ASSUME OneGoroutinePerId PROVE Spec => []Informed
<1>1. Init => Informed
  BY DEF Init, Informed
<1>2. TypeInv /\ Agree /\ History /\ Informed /\ [Next]_vars => Informed'
  <2> SUFFICES ASSUME TypeInv, Agree, History, Informed, [Next]_vars,
                      watching' = "looked", eventManagerUp',
                      NEW i \in Ids, Quiet(i)', \A k \in EventsOf(i, Len(events))' : k <= heard'
               PROVE  belief'[i] = entities'[i]
    BY DEF Informed
  <2> USE DEF TypeInv, Agree, registryVars, threadVars, upVars, watchVars, Goto
  <2>1. ASSUME UNCHANGED <<watching, heard, belief, events, eventManagerUp>>, entities'[i] = entities[i],
               Quiet(i)
        PROVE  belief'[i] = entities'[i]
    BY <2>1 DEF Informed, EventsOf
  <2>2. ASSUME NEW t \in Threads, NEW j \in Ids, AddEntity(t, j)
        PROVE  belief'[i] = entities'[i]
    <3>1. i # j /\ Quiet(i)
      BY <2>2 DEF AddEntity, Quiet, Goroutines
    <3> QED
      BY <2>1, <2>2, <3>1 DEF AddEntity, Maps
  <2>3. ASSUME NEW t \in Threads, SetEntityInfo(t) \/ RemoveEntityInfo(t) \/ \E j \in Ids : GetEntity(t, j)
        PROVE  belief'[i] = entities'[i]
    <3>1. Quiet(i)
      BY <2>3 DEF SetEntityInfo, RemoveEntityInfo, GetEntity, Quiet, Goroutines
    <3> QED
      BY <2>1, <2>3, <3>1 DEF SetEntityInfo, RemoveEntityInfo, GetEntity
  <2>4. ASSUME NEW t \in Threads, RemoveEntity(t)
        PROVE  belief'[i] = entities'[i]
    <3>1. Quiet(i) /\ entities'[i] = entities[i]
      BY <2>4 DEF RemoveEntity, Quiet, Goroutines, AtWork, Maps
    <3> QED
      BY <2>1, <2>4, <3>1 DEF RemoveEntity
  <2>5. ASSUME NEW t \in Threads, AnnounceRegistered(t) \/ AnnounceDeregistered(t)
        PROVE  belief'[i] = entities'[i]
    <3>0. eventManagerUp
      BY <2>5 DEF AnnounceRegistered, AnnounceDeregistered
    <3>1. /\ at[t] \in Ids /\ gen[t] \in 1..MaxGen
          /\ pc' = [pc EXCEPT ![t] = "idle"]
          /\ UNCHANGED <<at, entities, watching, heard, belief>>
      <4>1. pc[t] # "idle" /\ pc' = [pc EXCEPT ![t] = "idle"]
        BY <2>5 DEF AnnounceRegistered, AnnounceDeregistered
      <4>2. gen[t] \in 0..MaxGen
        BY DEF Goroutines
      <4>3. at[t] \in Ids /\ gen[t] # 0
        BY <4>1 DEF AtWork
      <4>4. UNCHANGED <<at, entities, watching, heard, belief>>
        BY <2>5 DEF AnnounceRegistered, AnnounceDeregistered
      <4> QED
        BY <4>1, <4>2, <4>3, <4>4
    <3>2. PICK e \in Event : e.id = at[t] /\ events' = Append(events, e)
      BY <2>5, <3>0, <3>1 DEF AnnounceRegistered, AnnounceDeregistered, Broadcast, Event
    <3>3. PICK n \in Nat : /\ n = Len(events) /\ Len(events') = n + 1 /\ events'[n + 1] = e
                           /\ \A j \in 1..n : events'[j] = events[j]
      BY <3>2, AppendProperties DEF Heard
    <3>4. i # at[t]
      <4> SUFFICES ASSUME i = at[t] PROVE FALSE
        OBVIOUS
      <4>1. n + 1 \in EventsOf(i, Len(events))'
        BY <3>2, <3>3 DEF EventsOf
      <4>2. n + 1 <= heard'
        BY <4>1
      <4>3. heard' = heard /\ heard \in 0..n
        BY <3>1, <3>3 DEF Heard
      <4> QED
        BY <4>2, <4>3
    <3>5. Quiet(i)
      BY <3>1, <3>4 DEF Quiet, Goroutines
    <3>6. \A k \in EventsOf(i, Len(events)) : k <= heard
      BY <3>1, <3>3 DEF EventsOf
    <3> QED
      BY <3>0, <3>1, <3>5, <3>6 DEF Informed
  <2>6. ASSUME \/ \E t \in Threads, j \in Ids : RegisterEntityView(t, j)
               \/ \E r \in Readers : FindEntities(r) \/ \E j \in Ids : EntityName(r, j)
               \/ StopEntityManager \/ UNCHANGED vars
        PROVE  belief'[i] = entities'[i]
    <3>1. /\ UNCHANGED <<watching, heard, belief, events, eventManagerUp, entities, pc, at>>
      BY <2>6 DEF RegisterEntityView, FindEntities, EntityName, StopEntityManager, vars
    <3> QED
      BY <2>1, <3>1 DEF Quiet
  <2>7. CASE LookUp
    BY <2>7 DEF LookUp
  <2>8. CASE WatchEvents \/ StopEventManager
    BY <2>8 DEF WatchEvents, StopEventManager
  <2>9. CASE Hear
    <3>1. PICK k \in Nat : /\ k = heard + 1 /\ k \in 1..Len(events) /\ heard' = k
                           /\ UNCHANGED <<events, entities, pc, at, lastGen, watching, eventManagerUp>>
      <4>1. /\ UNCHANGED <<events, entities, pc, at, lastGen, watching, eventManagerUp>>
            /\ heard' = heard + 1
        BY <2>9 DEF Hear
      <4>2. heard + 1 \in Nat /\ heard + 1 \in 1..Len(events)
        BY <2>9 DEF Hear, Heard
      <4> QED
        BY <4>1, <4>2
    <3>2. PICK e \in Event : e = events[k]
      BY <3>1, ElementOfSeq DEF Heard
    <3>3. belief' = [belief EXCEPT ![e.id] = IF e.kind = "registered" THEN e.gen ELSE 0]
      BY <2>9, <3>1, <3>2 DEF Hear
    <3>4. Quiet(i) /\ \A l \in EventsOf(i, Len(events)) : l <= k
      BY <3>1 DEF Quiet, EventsOf
    <3>5. CASE i # e.id
      <4>1. \A l \in EventsOf(i, Len(events)) : l <= heard
        <5> SUFFICES ASSUME NEW l \in EventsOf(i, Len(events)), l = k PROVE FALSE
          BY <3>1, <3>4 DEF EventsOf, Heard
        <5> QED
          BY <3>2, <3>5 DEF EventsOf
      <4> QED
        BY <3>1, <3>3, <3>4, <3>5, <4>1 DEF Informed, Heard, Event
    <3>6. CASE i = e.id
      <4>1. k \in EventsOf(i, Len(events)) /\ belief'[i] = IF e.kind = "registered" THEN e.gen ELSE 0
        BY <3>1, <3>2, <3>3, <3>6 DEF EventsOf, Heard
      <4>2. LastSays(i, Len(events), IF entities[i] = 0 THEN "deregistered" ELSE "registered", lastGen[i])
        <5>1. CASE Settled(i)
          BY <3>1, <5>1 DEF History, Announced
        <5>2. CASE ~Settled(i)
          <6>1. PICK t \in Threads : pc[t] = "got" /\ at[t] = i
            BY <3>4, <5>2 DEF Settled, Quiet
          <6>2. entities[i] = lastGen[i] /\ lastGen[i] = gen[t] /\ gen[t] # 0
            BY <6>1 DEF OnIds, InMaps, AtWork
          <6> QED
            BY <3>1, <6>1, <6>2 DEF History, OnTheWay
        <5> QED
          BY <5>1, <5>2
      <4>3. /\ e.kind = IF entities[i] = 0 THEN "deregistered" ELSE "registered"
            /\ e.gen = lastGen[i]
        <5> DEFINE E == EventsOf(i, Len(events))
        <5>1. PICK j \in E : /\ \A l \in E : l <= j
                             /\ events[j].kind = IF entities[i] = 0 THEN "deregistered" ELSE "registered"
                             /\ events[j].gen = lastGen[i]
          BY <4>1, <4>2 DEF LastSays
        <5>2. j = k
          BY <3>1, <3>4, <4>1, <5>1 DEF EventsOf
        <5> QED
          BY <3>2, <5>1, <5>2
      <4> QED
        BY <3>1, <4>1, <4>3 DEF Latest
    <3> QED
      BY <3>5, <3>6
  <2> QED
    BY <2>2, <2>3, <2>4, <2>5, <2>6, <2>7, <2>8, <2>9 DEF Next, Register, Deregister
<1> QED
  BY <1>1, <1>2, TypeInvHolds, AgreeHolds, HistoryHolds, PTL DEF Spec

(* Where each id is one goroutine's, a plugin that subscribes, then looks, *)
(* then listens, believes exactly what is registered once it has heard     *)
(* every event.                                                            *)
THEOREM WatcherIsInformed == ASSUME OneGoroutinePerId PROVE Spec => []WatcherConverges
<1>1. TypeInv /\ Informed => WatcherConverges
  BY DEF TypeInv, Heard, Informed, WatcherConverges, Quiet, Settled, EventsOf
<1> QED
  BY <1>1, TypeInvHolds, InformedHolds, PTL

================================================================================

---------------------------- MODULE EntityRegistry -----------------------------
(***************************************************************************)
(* Registering, finding and deregistering entities: src/pmaas.go           *)
(* (registerEntity, deregisterEntity, getEntities), the entity manager     *)
(* (src/internal/entitymanager/EntityManager.go) and what the server keeps *)
(* of an entity beside it (src/entityviews.go).                            *)
(*                                                                         *)
(* One registration touches three things, one after the other and with no  *)
(* lock around them: the manager's map, the server's entityInfo map, and   *)
(* the stream of events.  Any goroutine of any plugin may be between two   *)
(* of these steps while others take theirs.                                *)
(*                                                                         *)
(* An id that is registered again is a new entity: its generation is one   *)
(* higher.  Generation 0 is "not registered".                              *)
(***************************************************************************)
EXTENDS Integers, Sequences, FiniteSets

CONSTANTS Ids,         \* entity ids
          Threads,     \* the plugins' goroutines that register and deregister
          Touches,     \* Touches[t]: the ids goroutine t registers and deregisters
          Owns,        \* Owns[t]: the ids whose prefix is the plugin of t
          Readers,     \* goroutines that call GetEntities
          NoId,        \* no id
          MaxGen       \* bound: how often one id is registered

ASSUME EntityRegistryAssumption ==
    /\ Touches \in [Threads -> SUBSET Ids]
    /\ Owns \in [Threads -> SUBSET Ids]
    /\ NoId \notin Ids
    /\ MaxGen \in Nat

VARIABLES
    entities,    \* EntityManager.entities: the generation registered under each id
    infoGen,     \* PMAAS.entityInfo: the generation whose info is kept, 0 if none
    infoView,    \* the generation for which the view in that info was given, 0 if none
    events,      \* EntityRegistered and EntityDeregistered events, as broadcast
    pc,          \* where each goroutine is in registerEntity or deregisterEntity
    at,          \* the id it is working on
    gen,         \* the generation it is registering or deregistering
    known,       \* known[t]: the generations RegisterEntity has returned to t
    lastGen,     \* how often each id has been registered
    entityManagerUp, eventManagerUp,   \* the managers accept requests
    found,       \* found[r]: what FindEntities returned to r, still to be named
    watching,    \* a watcher: "no", "subscribed" (RegisterEventReceiver), "looked"
    heard,       \* how many events the watcher has heard, or were there before it
    belief       \* what the watcher takes to be registered

registryVars == <<entities, infoGen, infoView, events, lastGen>>
threadVars == <<pc, at, gen, known>>
upVars == <<entityManagerUp, eventManagerUp>>
watchVars == <<watching, heard, belief>>
vars == <<registryVars, threadVars, upVars, found, watchVars>>

Nothing == [i \in Ids |-> 0]

Init ==
    /\ entities = Nothing /\ infoGen = Nothing /\ infoView = Nothing
    /\ events = <<>>
    /\ pc = [t \in Threads |-> "idle"]
    /\ at = [t \in Threads |-> NoId]
    /\ gen = [t \in Threads |-> 0]
    /\ known = [t \in Threads |-> Nothing]
    /\ lastGen = Nothing
    /\ entityManagerUp = TRUE /\ eventManagerUp = TRUE
    /\ found = [r \in Readers |-> Nothing]
    /\ watching = "no" /\ heard = 0 /\ belief = Nothing

Goto(t, l) == pc' = [pc EXCEPT ![t] = l]

(* The event is broadcast, or lost with a logged error if the event        *)
(* manager no longer accepts.                                              *)
Broadcast(kind, t) ==
    events' = IF eventManagerUp
              THEN Append(events, [kind |-> kind, id |-> at[t], gen |-> gen[t]])
              ELSE events

--------------------------------------------------------------------------------
(* registerEntity                                                          *)

(* AddEntity: handleAddEntity refuses an id that is registered.            *)
AddEntity(t, i) ==
    /\ pc[t] = "idle" /\ i \in Touches[t] \cap Owns[t]
    /\ entityManagerUp /\ entities[i] = 0 /\ lastGen[i] < MaxGen
    /\ lastGen' = [lastGen EXCEPT ![i] = @ + 1]
    /\ entities' = [entities EXCEPT ![i] = lastGen[i] + 1]
    /\ at' = [at EXCEPT ![t] = i]
    /\ gen' = [gen EXCEPT ![t] = lastGen[i] + 1]
    /\ Goto(t, "added")
    /\ UNCHANGED <<infoGen, infoView, events, known, upVars, found, watchVars>>

(* setEntityInfo: a new info, without a view.                              *)
SetEntityInfo(t) ==
    /\ pc[t] = "added"
    /\ infoGen' = [infoGen EXCEPT ![at[t]] = gen[t]]
    /\ infoView' = [infoView EXCEPT ![at[t]] = 0]
    /\ Goto(t, "described")
    /\ UNCHANGED <<entities, events, lastGen, at, gen, known, upVars, found, watchVars>>

AnnounceRegistered(t) ==
    /\ pc[t] = "described"
    /\ Broadcast("registered", t)
    /\ known' = [known EXCEPT ![t][at[t]] = gen[t]]
    /\ Goto(t, "idle")
    /\ UNCHANGED <<entities, infoGen, infoView, lastGen, at, gen, upVars, found, watchVars>>

--------------------------------------------------------------------------------
(* deregisterEntity: the calling plugin is not looked at.                  *)

(* Faulty variant: an id that is not registered is deregistered too.       *)
GetMissing(t, i) ==
    /\ pc[t] = "idle" /\ i \in Touches[t]
    /\ entityManagerUp
    /\ at' = [at EXCEPT ![t] = i]
    /\ gen' = [gen EXCEPT ![t] = entities[i]]
    /\ Goto(t, "got")
    /\ UNCHANGED <<registryVars, known, upVars, found, watchVars>>

GetEntity(t, i) ==
    /\ pc[t] = "idle" /\ i \in Touches[t]
    /\ entityManagerUp /\ entities[i] # 0
    /\ at' = [at EXCEPT ![t] = i]
    /\ gen' = [gen EXCEPT ![t] = entities[i]]
    /\ Goto(t, "got")
    /\ UNCHANGED <<registryVars, known, upVars, found, watchVars>>

(* Faulty variant: the info is left behind. *)
RemoveKeepingInfo(t) ==
    /\ pc[t] = "got"
    /\ IF entityManagerUp /\ entities[at[t]] # 0
       THEN entities' = [entities EXCEPT ![at[t]] = 0] /\ Goto(t, "forgotten")
       ELSE Goto(t, "idle") /\ UNCHANGED entities
    /\ UNCHANGED <<infoGen, infoView, events, lastGen, at, gen, known, upVars, found, watchVars>>

(* Faulty variant: RemoveEntity's error is not looked at. *)
RemoveIgnoringError(t) ==
    /\ pc[t] = "got"
    /\ entities' = IF entityManagerUp THEN [entities EXCEPT ![at[t]] = 0] ELSE entities
    /\ Goto(t, "removed")
    /\ UNCHANGED <<infoGen, infoView, events, lastGen, at, gen, known, upVars, found, watchVars>>

(* RemoveEntity, by id: an error if it is gone or the manager has stopped. *)
RemoveEntity(t) ==
    /\ pc[t] = "got"
    /\ IF entityManagerUp /\ entities[at[t]] # 0
       THEN entities' = [entities EXCEPT ![at[t]] = 0] /\ Goto(t, "removed")
       ELSE Goto(t, "idle") /\ UNCHANGED entities
    /\ UNCHANGED <<infoGen, infoView, events, lastGen, at, gen, known, upVars, found, watchVars>>

(* Faulty variant: the view is left behind. *)
RemoveKeepingView(t) ==
    /\ pc[t] = "removed"
    /\ infoGen' = [infoGen EXCEPT ![at[t]] = 0]
    /\ Goto(t, "forgotten")
    /\ UNCHANGED <<entities, infoView, events, lastGen, at, gen, known, upVars, found, watchVars>>

(* removeEntityInfo: the info goes, and the view with it.                  *)
RemoveEntityInfo(t) ==
    /\ pc[t] = "removed"
    /\ infoGen' = [infoGen EXCEPT ![at[t]] = 0]
    /\ infoView' = [infoView EXCEPT ![at[t]] = 0]
    /\ Goto(t, "forgotten")
    /\ UNCHANGED <<entities, events, lastGen, at, gen, known, upVars, found, watchVars>>

(* Faulty variant: nobody is told. *)
DeregisterSilently(t) ==
    /\ pc[t] = "forgotten"
    /\ known' = [known EXCEPT ![t][at[t]] = 0]
    /\ Goto(t, "idle")
    /\ UNCHANGED <<entities, infoGen, infoView, events, lastGen, at, gen, upVars, found, watchVars>>

AnnounceDeregistered(t) ==
    /\ pc[t] = "forgotten"
    /\ Broadcast("deregistered", t)
    /\ known' = [known EXCEPT ![t][at[t]] = 0]
    /\ Goto(t, "idle")
    /\ UNCHANGED <<entities, infoGen, infoView, lastGen, at, gen, upVars, found, watchVars>>

(* registerEntityView: under entityInfoMu, for a plugin's own entity whose *)
(* info is there.                                                          *)
RegisterEntityView(t, i) ==
    /\ pc[t] = "idle" /\ known[t][i] # 0
    /\ infoGen[i] # 0 /\ i \in Owns[t]
    /\ infoView' = [infoView EXCEPT ![i] = known[t][i]]
    /\ UNCHANGED <<entities, infoGen, events, lastGen, threadVars, upVars, found, watchVars>>

--------------------------------------------------------------------------------
(* getEntities: FindEntities on the manager's goroutine, then entityName   *)
(* of each, one lock per name.  Found entities are named in any order.     *)

FindEntities(r) ==
    /\ entityManagerUp /\ found[r] = Nothing
    /\ found' = [found EXCEPT ![r] = entities]
    /\ UNCHANGED <<registryVars, threadVars, upVars, watchVars>>

EntityName(r, i) ==
    /\ found[r][i] # 0
    /\ found' = [found EXCEPT ![r][i] = 0]
    /\ UNCHANGED <<registryVars, threadVars, upVars, watchVars>>

(* A plugin that follows what is registered: it registers a receiver for   *)
(* the events, asks GetEntities once, and applies the events it hears.     *)
WatchEvents ==
    /\ watching = "no" /\ eventManagerUp
    /\ watching' = "subscribed" /\ heard' = Len(events)
    /\ UNCHANGED <<registryVars, threadVars, upVars, found, belief>>

LookUp ==
    /\ watching = "subscribed" /\ entityManagerUp
    /\ watching' = "looked" /\ belief' = entities
    /\ UNCHANGED <<registryVars, threadVars, upVars, found, heard>>

Hear ==
    /\ watching # "no" /\ heard < Len(events)
    /\ heard' = heard + 1
    /\ LET e == events[heard + 1]
       IN belief' = [belief EXCEPT ![e.id] = IF e.kind = "registered" THEN e.gen ELSE 0]
    /\ UNCHANGED <<registryVars, threadVars, upVars, found, watching>>

(* internalRun stops the entity manager first, then the event manager.     *)
StopEntityManager ==
    /\ entityManagerUp /\ entityManagerUp' = FALSE
    /\ UNCHANGED <<registryVars, threadVars, eventManagerUp, found, watchVars>>

StopEventManager ==
    /\ ~entityManagerUp /\ eventManagerUp /\ eventManagerUp' = FALSE
    /\ UNCHANGED <<registryVars, threadVars, entityManagerUp, found, watchVars>>

Register(t) == \/ \E i \in Ids : AddEntity(t, i)
               \/ SetEntityInfo(t) \/ AnnounceRegistered(t)
Deregister(t) == \/ \E i \in Ids : GetEntity(t, i)
                 \/ RemoveEntity(t) \/ RemoveEntityInfo(t) \/ AnnounceDeregistered(t)

Next == \/ \E t \in Threads : \/ Register(t) \/ Deregister(t)
                              \/ \E i \in Ids : RegisterEntityView(t, i)
        \/ \E r \in Readers : FindEntities(r) \/ \E i \in Ids : EntityName(r, i)
        \/ WatchEvents \/ LookUp \/ Hear
        \/ StopEntityManager \/ StopEventManager

Spec == Init /\ [][Next]_vars

--------------------------------------------------------------------------------
(* Properties.                                                             *)

(* Each variable keeps to its range. *)
TypeOK ==
    /\ entities \in [Ids -> 0..MaxGen]
    /\ infoGen \in [Ids -> 0..MaxGen]
    /\ infoView \in [Ids -> 0..MaxGen]
    /\ lastGen \in [Ids -> 0..MaxGen]
    /\ events \in Seq([kind : {"registered", "deregistered"}, id : Ids, gen : 1..MaxGen])
    /\ pc \in [Threads -> {"idle", "added", "described", "got", "removed", "forgotten"}]
    /\ at \in [Threads -> Ids \cup {NoId}]
    /\ \A t \in Threads : pc[t] # "idle" => at[t] \in Ids /\ gen[t] # 0
    /\ gen \in [Threads -> 0..MaxGen]
    /\ known \in [Threads -> [Ids -> 0..MaxGen]]
    /\ entityManagerUp \in BOOLEAN /\ eventManagerUp \in BOOLEAN
    /\ found \in [Readers -> [Ids -> 0..MaxGen]]
    /\ watching \in {"no", "subscribed", "looked"}
    /\ heard \in 0..Len(events)
    /\ belief \in [Ids -> 0..MaxGen]

(* Nobody is in the middle of registering or deregistering i.              *)
Settled(i) == \A t \in Threads : pc[t] # "idle" => at[t] # i

(* The two maps of one registration agree: once nobody is working on an id *)
(* it has an info, with name and owner, if and only if the entity that was *)
(* registered last is still there, and it is that entity's; and at no      *)
(* moment does an info hold the view of another entity than its own.       *)
InfoAgrees ==
    \A i \in Ids : /\ Settled(i) => infoGen[i] = entities[i]
                  /\ infoView[i] \in {0, infoGen[i]}

(* Half of InfoAgrees, as the tests of src/entityviews.go say it: nothing  *)
(* is left of an entity that is deregistered.                              *)
DeregisteredIsGone == \A i \in Ids : Settled(i) /\ entities[i] = 0 => infoGen[i] = 0

(* The name GetEntities gives an entity it found is never that of an       *)
(* earlier entity with the same id: it is its own, a later one's, or the id. *)
NoStaleName == \A r \in Readers, i \in Ids :
                   found[r][i] # 0 => infoGen[i] = 0 \/ infoGen[i] >= found[r][i]

(* Where the events of i stand among the first n.                          *)
EventsOf(i, n) == {j \in 1..n : events[j].id = i}

(* The last of them is of this kind and generation.  Of an id that has no  *)
(* event yet, it is as if its generation 0 had been deregistered.          *)
LastSays(i, n, kind, g) ==
    IF kind = "deregistered" /\ g = 0
    THEN EventsOf(i, n) = {}
    ELSE \E j \in EventsOf(i, n) : /\ \A l \in EventsOf(i, n) : l <= j
                                  /\ events[j].kind = kind /\ events[j].gen = g

(* What the events say of one id is a history: registered, deregistered,   *)
(* registered again as a later entity, with no step missing or repeated.   *)
EventsAlternate ==
    \A k \in DOMAIN events : LET e == events[k] IN
        IF e.kind = "registered" THEN LastSays(e.id, k - 1, "deregistered", e.gen - 1)
                                 ELSE LastSays(e.id, k - 1, "registered", e.gen)

(* A plugin that subscribes, then looks, then listens, misses nothing and  *)
(* keeps nothing that is gone: when it has heard everything, it believes   *)
(* exactly what is registered.                                             *)
WatcherConverges ==
    watching = "looked" /\ heard = Len(events) /\ eventManagerUp
        => \A i \in Ids : Settled(i) => belief[i] = entities[i]
================================================================================

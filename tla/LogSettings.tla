------------------------------ MODULE LogSettings ------------------------------
(***************************************************************************)
(* The log levels: src/internal/logging/registry.go, which holds them in   *)
(* memory under a lock, together with ConfigStore, which keeps them, and   *)
(* restoreLogLevels of src/pmaas.go, which reads them back at the start.   *)
(*                                                                         *)
(* A component caches the level its loggers filter by.  A change is made,  *)
(* applied to every component and copied under the lock; the copy is saved *)
(* after the lock is released.  What is done under the lock is one step:   *)
(* the moments the model knows are those at which the lock is free.        *)
(***************************************************************************)
EXTENDS ConfigStore

CONSTANTS Names,         \* component names
          Parent,        \* Parent[n]: the component above n, Root if there is none
          Root,
          Levels,        \* the levels that can be set
          Bad,           \* a level that cannot, as a file edited by hand may hold
          DefaultLevel,
          Unset,
          MaxChanges     \* bound: changes

(* What a file may hold; what the registry saves has no Bad in it.         *)
Settings == [def : Levels \cup {Bad}, levels : [Names -> Levels \cup {Bad, Unset}]]

(* A name is its parent's, a dot and a part of its own, so that there is no *)
(* way up that does not end.  The store keeps settings.                    *)
ASSUME LogSettingsAssumption ==
    /\ Root \notin Names /\ Parent \in [Names -> Names \cup {Root}]
    /\ DefaultLevel \in Levels /\ Bad \notin Levels /\ Unset \notin Levels \cup {Bad}
    /\ \A S \in SUBSET Names : S # {} => \E n \in S : Parent[n] \notin S
    /\ MaxChanges \in Nat
    /\ Values = Settings

VARIABLES
    def,          \* Registry.def
    explicit,     \* Registry.explicit, Unset where it has no entry
    comps,        \* the keys of Registry.comps
    level,        \* component.level, for those in comps
    restored,     \* NewPMAAS has called restoreLogLevels
    changes,      \* history, for the bound
    standing,     \* history: the settings of the latest change, NoValue if they need not be kept
    recent,       \* history: those of the latest change and of the ones its save may overlap
    promised,     \* history: those that a start may find,
    fallback      \* and those that it may find after a loss of power

registryVars == <<def, explicit, comps, level, restored>>
keptVars == <<promised, fallback>>
historyVars == <<changes, standing, recent, keptVars>>
vars == <<registryVars, historyVars, storeVars>>

NoSave == \A s \in Savers : pc[s] = "idle"

Defaults == [def |-> DefaultLevel, levels |-> [n \in Names |-> Unset]]

(* What is valid of a file, and the default for the rest.                  *)
Sound(f) ==
    IF f \notin Settings THEN Defaults
    ELSE [def |-> IF f.def \in Levels THEN f.def ELSE DefaultLevel,
          levels |-> [n \in Names |-> IF f.levels[n] \in Levels THEN f.levels[n] ELSE Unset]]

(* effective: the level set for n or for the nearest component above it,   *)
(* or else the default.                                                    *)
Effective(d, x) ==
    LET eff[n \in Names] == IF x[n] # Unset THEN x[n]
                            ELSE IF Parent[n] = Root THEN d ELSE eff[Parent[n]]
    IN eff

Init ==
    /\ def = DefaultLevel /\ explicit = [n \in Names |-> Unset]
    /\ comps = {} /\ level = [n \in Names |-> Unset]
    /\ restored = FALSE /\ changes = 0
    /\ StoreInit
    /\ standing = NoValue /\ recent = {} /\ promised = {Sound(file)} /\ fallback = {}

(* Faulty variant: only the components with a level of their own follow.   *)
RecomputeSet(d, x) ==
    level' = [n \in Names |-> IF n \in comps /\ x[n] # Unset THEN x[n] ELSE level[n]]

(* recompute, over the components there are.                               *)
Recompute(d, x) == level' = [n \in Names |-> IF n \in comps THEN Effective(d, x)[n] ELSE Unset]

(* Logger(name): the component is made the first time it is asked for.     *)
Logger(n) ==
    /\ n \notin comps
    /\ comps' = comps \cup {n}
    /\ level' = [level EXCEPT ![n] = Effective(def, explicit)[n]]
    /\ UNCHANGED <<def, explicit, restored, historyVars, storeVars>>

(* Faulty variant: what the file holds is taken as it is. *)
RestoreUnchecked ==
    /\ ~restored /\ restored' = TRUE
    /\ IF file \in Settings
       THEN /\ def' = file.def /\ explicit' = file.levels
            /\ Recompute(def', explicit')
       ELSE UNCHANGED <<def, explicit, level>>
    /\ UNCHANGED <<comps, historyVars, storeVars>>

(* Faulty variant: one level that is not valid spoils the file.            *)
RestoreAllOrNothing ==
    /\ ~restored /\ restored' = TRUE
    /\ IF file \in Settings /\ file = Sound(file)
       THEN /\ def' = file.def /\ explicit' = file.levels
            /\ Recompute(def', explicit')
       ELSE UNCHANGED <<def, explicit, level>>
    /\ UNCHANGED <<comps, historyVars, storeVars>>

(* Load, then Restore: what is not valid is dropped.  Without a file, or   *)
(* with one that cannot be read, the levels stay.                          *)
RestoreLogLevels ==
    /\ ~restored /\ restored' = TRUE
    /\ IF file \in Settings
       THEN /\ def' = IF file.def \in Levels THEN file.def ELSE def
            /\ explicit' = [n \in Names |-> IF file.levels[n] \in Levels
                                            THEN file.levels[n] ELSE explicit[n]]
            /\ Recompute(def', explicit')
       ELSE UNCHANGED <<def, explicit, level>>
    /\ UNCHANGED <<comps, historyVars, storeVars>>

(* change: under the lock, to d and x; then the save of the copy begins.   *)
Change(s, d, x) ==
    /\ restored /\ changes < MaxChanges
    /\ def' = d /\ explicit' = x
    /\ Recompute(d, x)
    /\ LET v == [def |-> d, levels |-> x]
       IN /\ BeginSave(s, v)
          /\ standing' = v
          /\ recent' = IF NoSave THEN {v} ELSE recent \cup {v}
    /\ changes' = changes + 1
    /\ UNCHANGED <<comps, restored, keptVars>>

SetLevel(s, n, l) == IF n = Root THEN Change(s, l, explicit)
                     ELSE Change(s, def, [explicit EXCEPT ![n] = l])
ClearLevel(s, n) == Change(s, def, [explicit EXCEPT ![n] = Unset])

(* A step of a save: the change has been applied whatever becomes of it.   *)
(* The rename keeps a change for the next start.                           *)
Save(s) ==
    /\ SaveStep(s)
    /\ IF pc[s] = "rename" THEN promised' = recent /\ fallback' = fallback \cup promised
                            ELSE UNCHANGED keptVars
    /\ UNCHANGED <<registryVars, changes, standing, recent>>

SaveFailed(s) ==
    /\ SaveFails(s) /\ standing' = NoValue
    /\ UNCHANGED <<registryVars, changes, recent, keptVars>>

FileWrittenBack ==
    /\ WriteBack /\ fallback' = {}
    /\ UNCHANGED <<registryVars, changes, standing, recent, promised>>

(* The server stops with no save in progress, or is killed, or the power   *)
(* fails; then it starts with a new registry.                              *)
Restart ==
    /\ restored
    /\ \/ NoSave /\ UNCHANGED <<storeVars, keptVars>>
       \/ Killed /\ UNCHANGED keptVars
       \/ PowerLoss /\ promised' = promised \cup fallback /\ fallback' = {}
    /\ def' = DefaultLevel /\ explicit' = [n \in Names |-> Unset]
    /\ comps' = {} /\ level' = [n \in Names |-> Unset]
    /\ restored' = FALSE
    /\ standing' = IF NoSave /\ file' = file THEN standing ELSE NoValue
    /\ UNCHANGED <<changes, recent>>

Next == \/ \E n \in Names : Logger(n)
        \/ RestoreLogLevels
        \/ \E s \in Savers : \/ \E n \in Names \cup {Root}, l \in Levels : SetLevel(s, n, l)
                             \/ \E n \in Names : ClearLevel(s, n)
                             \/ Save(s) \/ SaveFailed(s)
        \/ FileWrittenBack \/ Restart

Spec == Init /\ [][Next]_vars

--------------------------------------------------------------------------------
(* Properties.                                                             *)

(* Each variable keeps to its range: in memory no level is ever Bad.       *)
TypeOK ==
    /\ def \in Levels /\ explicit \in [Names -> Levels \cup {Unset}]
    /\ comps \subseteq Names /\ level \in [Names -> Levels \cup {Unset}]
    /\ restored \in BOOLEAN /\ changes \in 0..MaxChanges
    /\ standing \in Settings \cup {NoValue}
    /\ recent \subseteq Settings /\ promised \subseteq Settings /\ fallback \subseteq Settings
    /\ StoreTypeOK

(* The components above n, n itself among them: those that are in every    *)
(* set that n is in and that has the parents of its members.               *)
HasParents(S) == \A k \in S : Parent[k] # Root => Parent[k] \in S
Above(n) == {m \in Names : \A S \in SUBSET Names : n \in S /\ HasParents(S) => m \in S}

(* Whenever the registry's lock is free a component filters by the level   *)
(* set nearest above it: its cached level is never that of settings that   *)
(* have changed since.                                                     *)
LevelsFollow ==
    \A n \in comps :
        LET set == {m \in Above(n) : explicit[m] # Unset}
        IN IF set = {} THEN level[n] = def
           ELSE \E m \in set : /\ level[n] = explicit[m]
                               /\ \A k \in set : k \in Above(m)

InMemory == [def |-> def, levels |-> explicit]

(* What a start finds in force are the settings kept last: those of the    *)
(* latest change whose save succeeded, whole, or of one that was under way *)
(* at the same time; what is valid of the file, all of it, if nothing was  *)
(* ever kept; and after a loss of power possibly those of an earlier one.  *)
KeptAcrossRestarts == [][~restored /\ restored' => InMemory' \in promised]_vars

(* As src/logging_test.go says it, of changes that may be made at once:    *)
(* the level set last, if no save of one failed or was cut short, is the   *)
(* level after the server is started again.                                *)
SurvivesRestart == restored /\ standing # NoValue => InMemory = standing
================================================================================

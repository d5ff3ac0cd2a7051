------------------------------ MODULE StoreProofs ------------------------------
(***************************************************************************)
(* What ConfigStore guarantees for every finite set of savers, every set   *)
(* of values and any number of losses of power, and what LogSettings       *)
(* guarantees on top of it for any components, levels and changes.         *)
(* The first part does not use LogSettingsAssumption: its theorems hold    *)
(* whatever the values are.                                                *)
(***************************************************************************)
EXTENDS LogSettings, FiniteSetTheorems, TLAPS

USE ConfigStoreAssumption

(* Where a saver is decides what its temporary file holds and whether it   *)
(* is on the disk.                                                         *)
Stage(s) ==
    /\ pc[s] = "idle" <=> data[s] = NoValue
    /\ pc[s] \in {"idle", "create"} => temp[s] = NoValue
    /\ pc[s] \in {"sync", "rename"} => temp[s] = data[s]
    /\ synced[s] <=> pc[s] = "rename"

(* The inductive invariant: a file is renamed only once it is written and  *)
(* on the disk, so that the file always is, and those it had before were,  *)
(* and no save that has ended has a temporary file.                        *)
Whole ==
    /\ StoreTypeOK
    /\ \A s \in Savers : Stage(s)
    /\ file \in Values \cup {NoValue} /\ fileSynced
    /\ older \subseteq Values \cup {NoValue}
    /\ crashes = 0 => litter = 0

(* The number of temporary files a crash leaves is a number.               *)
LEMMA LitterIsNat ==
    Cardinality({s \in Savers : temp[s] # NoValue}) \in Nat
<1>1. IsFiniteSet({s \in Savers : temp[s] # NoValue})
  BY FS_Subset
<1> QED
  BY <1>1, FS_CardinalityType

(* Whole holds at first, and every step of every saver keeps it.           *)
LEMMA WholeHolds == StoreSpec => []Whole
<1>1. StoreInit => Whole
  BY DEF StoreInit, Whole, StoreTypeOK, Stage
<1>2. Whole /\ [StoreNext]_storeVars => Whole'
  <2> SUFFICES ASSUME Whole, [StoreNext]_storeVars PROVE Whole'
    OBVIOUS
  <2> USE DEF Whole, StoreTypeOK, Stage, Step
  <2>1. ASSUME NEW s \in Savers, CreateTemp(s) PROVE Whole'
    BY <2>1 DEF CreateTemp
  <2>2. ASSUME NEW s \in Savers, WriteTemp(s) PROVE Whole'
    BY <2>2 DEF WriteTemp
  <2>3. ASSUME NEW s \in Savers, SyncTemp(s) PROVE Whole'
    BY <2>3 DEF SyncTemp
  <2>4. ASSUME NEW s \in Savers, RenameTemp(s) PROVE Whole'
    BY <2>4 DEF RenameTemp, OnDisk
  <2>5. ASSUME NEW s \in Savers, SaveFails(s) PROVE Whole'
    BY <2>5 DEF SaveFails
  <2>6. ASSUME NEW s \in Savers, NEW v \in Values, BeginSave(s, v) PROVE Whole'
    BY <2>6 DEF BeginSave
  <2>7. CASE Killed
    BY <2>7, LitterIsNat DEF Killed, Interrupted
  <2>8. CASE PowerLoss
    BY <2>8, LitterIsNat DEF PowerLoss, Interrupted, OnDisk
  <2>9. CASE WriteBack \/ UNCHANGED storeVars
    BY <2>9 DEF WriteBack, storeVars, saveVars
  <2> QED
    BY <2>1, <2>2, <2>3, <2>4, <2>5, <2>6, <2>7, <2>8, <2>9 DEF StoreNext, SaveStep
<1> QED
  BY <1>1, <1>2, PTL DEF StoreSpec

(* Type correctness, with what is on the disk being what was to be saved.  *)
THEOREM StoreTypeCorrect == StoreSpec => []StoreTypeOK
<1>1. Whole => StoreTypeOK
  BY DEF Whole
<1> QED
  BY <1>1, WholeHolds, PTL

(* However a save ends it leaves no temporary file; only a crash does.     *)
THEOREM NothingIsLeftBehind == StoreSpec => []NoLitter
<1>1. Whole => NoLitter
  BY DEF Whole, Stage, NoLitter
<1> QED
  BY <1>1, WholeHolds, PTL

(* Every step of the store is one of AtomicFile, or none: the rename       *)
(* commits, a failure aborts, a crash loses the saves in progress, and one *)
(* of the machine also the renames that the directory does not have yet.   *)
THEOREM ImplementsAtomicFile == StoreSpec => AtomicSpec
<1>1. StoreInit => Atomic!Init
  BY DEF StoreInit, Atomic!Init
<1>2. Whole /\ [StoreNext]_storeVars => [Atomic!Next]_(Atomic!fileVars)
  <2> SUFFICES ASSUME Whole, [StoreNext]_storeVars
               PROVE  Atomic!Next \/ UNCHANGED <<file, older, data>>
    BY DEF Atomic!fileVars
  <2> USE DEF Whole, StoreTypeOK, Stage, Step
  <2>1. ASSUME NEW s \in Savers, CreateTemp(s) \/ WriteTemp(s) \/ SyncTemp(s)
        PROVE  UNCHANGED <<file, older, data>>
    BY <2>1 DEF CreateTemp, WriteTemp, SyncTemp
  <2>2. ASSUME NEW s \in Savers, RenameTemp(s) PROVE Atomic!Commit(s)
    BY <2>2 DEF RenameTemp, OnDisk, Atomic!Commit
  <2>3. ASSUME NEW s \in Savers, SaveFails(s) PROVE Atomic!Abort(s)
    BY <2>3 DEF SaveFails, Atomic!Abort
  <2>4. ASSUME NEW s \in Savers, NEW v \in Values, BeginSave(s, v) PROVE Atomic!Begin(s)
    BY <2>4 DEF BeginSave, Atomic!Begin
  <2>5. CASE Killed \/ PowerLoss
    BY <2>5 DEF Killed, PowerLoss, Interrupted, OnDisk, Atomic!Crash, Atomic!Next
  <2>6. CASE WriteBack
    BY <2>6 DEF WriteBack, saveVars, Atomic!Settle, Atomic!Next
  <2>7. CASE UNCHANGED storeVars
    BY <2>7 DEF storeVars, saveVars
  <2> QED
    BY <2>1, <2>2, <2>3, <2>4, <2>5, <2>6, <2>7 DEF StoreNext, SaveStep, Atomic!Next
<1> QED
  BY <1>1, <1>2, WholeHolds, PTL DEF StoreSpec, AtomicSpec, Atomic!Spec

--------------------------------------------------------------------------------
USE LogSettingsAssumption

(* No level in memory is one that cannot be set.                           *)
Valid == def \in Levels /\ explicit \in [Names -> Levels \cup {Unset}]

(* Whatever a file holds: what is not valid in it is dropped.              *)
LEMMA ValidHolds == Spec => []Valid
<1>1. Init => Valid
  BY DEF Init, Valid
<1>2. Valid /\ [Next]_vars => Valid'
  <2> SUFFICES ASSUME Valid, [Next]_vars PROVE Valid'
    OBVIOUS
  <2> USE DEF Valid, registryVars
  <2>1. ASSUME NEW n \in Names, Logger(n) PROVE Valid'
    BY <2>1 DEF Logger
  <2>2. CASE RestoreLogLevels
    BY <2>2 DEF RestoreLogLevels
  <2>3. ASSUME NEW s \in Savers, NEW n \in Names \cup {Root}, NEW l \in Levels,
               SetLevel(s, n, l)
        PROVE  Valid'
    BY <2>3 DEF SetLevel, Change
  <2>4. ASSUME NEW s \in Savers, NEW n \in Names, ClearLevel(s, n) PROVE Valid'
    BY <2>4 DEF ClearLevel, Change
  <2>5. ASSUME NEW s \in Savers, Save(s) \/ SaveFailed(s) PROVE Valid'
    BY <2>5 DEF Save, SaveFailed
  <2>6. CASE FileWrittenBack \/ Restart
    BY <2>6 DEF FileWrittenBack, Restart
  <2>7. CASE UNCHANGED vars
    BY <2>7 DEF vars
  <2> QED
    BY <2>1, <2>2, <2>3, <2>4, <2>5, <2>6, <2>7 DEF Next
<1> QED
  BY <1>1, <1>2, PTL DEF Spec

(* Steps of the registry leave the store alone, and what changes a level   *)
(* or restarts the server takes the store one step of its own: so what     *)
(* ConfigStore guarantees of the file holds here as well.                  *)
THEOREM UsesTheStore == Spec => StoreSpec
<1>1. Init => StoreInit
  BY DEF Init
<1>2. Valid /\ [Next]_vars => [StoreNext]_storeVars
  <2> SUFFICES ASSUME Valid, [Next]_vars PROVE StoreNext \/ UNCHANGED storeVars
    BY DEF storeVars
  <2>1. ASSUME NEW s \in Savers, NEW d \in Levels, NEW x \in [Names -> Levels \cup {Unset}],
               Change(s, d, x)
        PROVE  StoreNext
    <3>1. [def |-> d, levels |-> x] \in Settings
      BY DEF Settings
    <3>2. BeginSave(s, [def |-> d, levels |-> x])
      BY <2>1 DEF Change
    <3> QED
      BY <3>1, <3>2 DEF StoreNext
  <2>2. ASSUME NEW s \in Savers, NEW n \in Names \cup {Root}, NEW l \in Levels,
               SetLevel(s, n, l)
        PROVE  StoreNext
    BY <2>1, <2>2 DEF SetLevel, Valid
  <2>3. ASSUME NEW s \in Savers, NEW n \in Names, ClearLevel(s, n) PROVE StoreNext
    BY <2>1, <2>3 DEF ClearLevel, Valid
  <2>4. ASSUME NEW s \in Savers, Save(s) \/ SaveFailed(s) PROVE StoreNext
    BY <2>4 DEF Save, SaveFailed, StoreNext
  <2>5. CASE FileWrittenBack \/ Restart
    BY <2>5 DEF FileWrittenBack, Restart, StoreNext
  <2>6. ASSUME NEW n \in Names, Logger(n) PROVE UNCHANGED storeVars
    BY <2>6 DEF Logger
  <2>7. CASE RestoreLogLevels
    BY <2>7 DEF RestoreLogLevels
  <2>8. CASE UNCHANGED vars
    BY <2>8 DEF vars
  <2> QED
    BY <2>2, <2>3, <2>4, <2>5, <2>6, <2>7, <2>8 DEF Next
<1> QED
  BY <1>1, <1>2, ValidHolds, PTL DEF Spec, StoreSpec

--------------------------------------------------------------------------------
(* The components above one are those above its parent, and itself.        *)
LEMMA AboveParent ==
    ASSUME NEW n \in Names
    PROVE  /\ n \in Above(n) /\ Above(n) \subseteq Names
           /\ Parent[n] = Root => Above(n) = {n}
           /\ Parent[n] # Root => Parent[n] \in Names /\ Above(n) = {n} \cup Above(Parent[n])
<1> USE LogSettingsAssumption
<1>1. n \in Above(n) /\ Above(n) \subseteq Names
  BY DEF Above
<1>2. ASSUME Parent[n] = Root PROVE Above(n) = {n}
  <2>1. HasParents({n})
    BY <1>2 DEF HasParents
  <2> QED
    BY <1>1, <2>1 DEF Above
<1>3. ASSUME Parent[n] # Root PROVE Parent[n] \in Names /\ Above(n) = {n} \cup Above(Parent[n])
  <2>1. Parent[n] \in Names
    BY <1>3
  <2>2. HasParents({n} \cup Above(Parent[n]))
    BY <2>1 DEF HasParents, Above
  <2>3. Above(n) \subseteq {n} \cup Above(Parent[n])
    BY <2>1, <2>2 DEF Above
  <2>4. Above(Parent[n]) \subseteq Above(n)
    BY <1>3, <2>1 DEF HasParents, Above
  <2> QED
    BY <1>1, <2>1, <2>3, <2>4
<1> QED
  BY <1>1, <1>2, <1>3

(* What is above a component is above those below it.                      *)
LEMMA AboveAbove ==
    ASSUME NEW n \in Names, NEW m \in Above(n)
    PROVE  m \in Names /\ Above(m) \subseteq Above(n)
BY DEF Above

(* Going up never comes back.                                              *)
LEMMA NoWayBack ==
    ASSUME NEW n \in Names, Parent[n] # Root
    PROVE  n \notin Above(Parent[n])
<1> USE LogSettingsAssumption
<1> DEFINE Back == {k \in Names : Parent[k] # Root /\ k \in Above(Parent[k])}
<1>1. SUFFICES ASSUME Back # {} PROVE FALSE
  OBVIOUS
<1>2. PICK k \in Back : Parent[k] \notin Back
  BY <1>1
<1>3. PICK p \in Names : p = Parent[k] /\ p \notin Back
  BY <1>2
<1>4. /\ k \in Names /\ k \in Above(p) /\ p \in Above(k) /\ p # k
  BY <1>2, <1>3, AboveParent
<1>5. Parent[p] # Root /\ k \in Above(Parent[p]) /\ Parent[p] \in Names
  BY <1>4, AboveParent
<1>6. p \in Above(Parent[p])
  BY <1>4, <1>5, AboveAbove
<1> QED
  BY <1>3, <1>5, <1>6

(* The level that is set for a component is that set nearest above it.     *)
SetAbove(x, n) == {m \in Above(n) : x[m] # Unset}
Nearest(x, n) == {m \in SetAbove(x, n) : \A k \in SetAbove(x, n) : k \in Above(m)}

LEMMA OneNearest ==
    ASSUME NEW x, NEW n \in Names, NEW m \in Nearest(x, n), NEW k \in Nearest(x, n)
    PROVE  m = k
<1>1. m \in Names /\ k \in Names /\ m \in Above(k) /\ k \in Above(m)
  BY AboveAbove DEF Nearest, SetAbove
<1>2. ASSUME m # k PROVE FALSE
  <2>1. Parent[k] # Root /\ Parent[k] \in Names /\ m \in Above(Parent[k])
    BY <1>1, <1>2, AboveParent
  <2>2. k \in Above(Parent[k])
    BY <1>1, <2>1, AboveAbove
  <2> QED
    BY <1>1, <2>1, <2>2, NoWayBack
<1> QED
  BY <1>2

(* A component without a level of its own has its parent's.                *)
LEMMA NearestParent ==
    ASSUME NEW x, NEW n \in Names
    PROVE  /\ x[n] # Unset => Nearest(x, n) = {n}
           /\ x[n] = Unset /\ Parent[n] = Root => Nearest(x, n) = {} /\ SetAbove(x, n) = {}
           /\ x[n] = Unset /\ Parent[n] # Root => /\ Nearest(x, n) = Nearest(x, Parent[n])
                                                /\ SetAbove(x, n) = SetAbove(x, Parent[n])
<1>1. ASSUME x[n] # Unset PROVE Nearest(x, n) = {n}
  <2>1. n \in Nearest(x, n)
    BY <1>1, AboveParent DEF Nearest, SetAbove
  <2> QED
    BY <2>1, OneNearest
<1>2. ASSUME x[n] = Unset, Parent[n] = Root PROVE Nearest(x, n) = {} /\ SetAbove(x, n) = {}
  BY <1>2, AboveParent DEF Nearest, SetAbove
<1>3. ASSUME x[n] = Unset, Parent[n] # Root
      PROVE  Nearest(x, n) = Nearest(x, Parent[n]) /\ SetAbove(x, n) = SetAbove(x, Parent[n])
  <2>1. SetAbove(x, n) = SetAbove(x, Parent[n])
    BY <1>3, AboveParent DEF SetAbove
  <2> QED
    BY <2>1 DEF Nearest
<1> QED
  BY <1>1, <1>2, <1>3

(* The loop of effective: there is a function that goes up as Effective    *)
(* says, so that Effective is one.                                         *)
Up(d, x, f) == [n \in Names |-> IF x[n] # Unset THEN x[n]
                               ELSE IF Parent[n] = Root THEN d ELSE f[Parent[n]]]

LEMMA EffectiveUp == ASSUME NEW d, NEW x PROVE Effective(d, x) = Up(d, x, Effective(d, x))
<1> DEFINE f == [n \in Names |-> IF SetAbove(x, n) = {} THEN d ELSE x[CHOOSE m \in Nearest(x, n) : TRUE]]
<1>1. ASSUME NEW n \in Names
      PROVE  f[n] = IF x[n] # Unset THEN x[n] ELSE IF Parent[n] = Root THEN d ELSE f[Parent[n]]
  <2>1. CASE x[n] # Unset
    <3>1. Nearest(x, n) = {n} /\ SetAbove(x, n) # {}
      BY <2>1, NearestParent, AboveParent DEF SetAbove
    <3>2. (CHOOSE m \in Nearest(x, n) : TRUE) = n
      BY <3>1
    <3> QED
      BY <2>1, <3>1, <3>2
  <2>2. CASE x[n] = Unset /\ Parent[n] = Root
    BY <2>2, NearestParent
  <2>3. CASE x[n] = Unset /\ Parent[n] # Root
    BY <2>3, NearestParent, AboveParent
  <2> QED
    BY <2>1, <2>2, <2>3
<1>2. f = [n \in Names |-> f[n]]
  OBVIOUS
<1> HIDE DEF f
<1>3. \E g : g = Up(d, x, g)
  <2>1. [n \in Names |-> f[n]] = Up(d, x, f)
    BY <1>1 DEF Up
  <2> QED
    BY <1>2, <2>1
<1>4. Effective(d, x) = CHOOSE g : g = Up(d, x, g)
  BY DEF Effective, Up
<1> QED
  BY <1>3, <1>4

(* The loop ends: it gives the level set nearest above, or else the        *)
(* default.                                                                *)
FoundLevel(d, x, n, l) ==
    IF SetAbove(x, n) = {} THEN l = d ELSE \E m \in Nearest(x, n) : l = x[m]

LEMMA EffectiveIsNearest ==
    ASSUME NEW d, NEW x, NEW n \in Names
    PROVE  FoundLevel(d, x, n, Effective(d, x)[n])
<1> DEFINE e == Effective(d, x)
           Wrong == {k \in Names : ~FoundLevel(d, x, k, e[k])}
<1>1. \A k \in Names : e[k] = IF x[k] # Unset THEN x[k]
                             ELSE IF Parent[k] = Root THEN d ELSE e[Parent[k]]
  BY EffectiveUp DEF Up
<1> HIDE DEF e
<1>2. ASSUME NEW k \in Names, Parent[k] \notin Wrong PROVE FoundLevel(d, x, k, e[k])
  <2>1. CASE x[k] # Unset
    <3>1. Nearest(x, k) = {k} /\ SetAbove(x, k) # {} /\ e[k] = x[k]
      BY <1>1, <2>1, NearestParent, AboveParent DEF SetAbove
    <3> QED
      BY <3>1 DEF FoundLevel
  <2>2. CASE x[k] = Unset /\ Parent[k] = Root
    BY <1>1, <2>2, NearestParent DEF FoundLevel
  <2>3. CASE x[k] = Unset /\ Parent[k] # Root
    <3>1. Parent[k] \in Names /\ e[k] = e[Parent[k]]
      BY <1>1, <2>3, AboveParent
    <3>2. FoundLevel(d, x, Parent[k], e[Parent[k]])
      BY <1>2, <3>1
    <3> QED
      BY <2>3, <3>1, <3>2, NearestParent DEF FoundLevel
  <2> QED
    BY <2>1, <2>2, <2>3
<1>3. Wrong = {}
  <2> SUFFICES ASSUME Wrong # {} PROVE FALSE
    OBVIOUS
  <2>1. PICK k \in Wrong : Parent[k] \notin Wrong
    BY LogSettingsAssumption
  <2>2. k \in Names /\ ~FoundLevel(d, x, k, e[k])
    BY <2>1
  <2> QED
    BY <1>2, <2>1, <2>2
<1>4. FoundLevel(d, x, n, e[n])
  BY <1>3
<1> QED
  BY <1>4 DEF e

(* The inductive invariant: every component holds what effective gives.    *)
Cached ==
    /\ comps \subseteq Names /\ level = [n \in Names |-> level[n]]
    /\ \A n \in Names : level[n] = IF n \in comps THEN Effective(def, explicit)[n] ELSE Unset

LEMMA CachedHolds == Spec => []Cached
<1>1. Init => Cached
  BY DEF Init, Cached
<1>2. Cached /\ [Next]_vars => Cached'
  <2> SUFFICES ASSUME Cached, [Next]_vars PROVE Cached'
    OBVIOUS
  <2> USE DEF Cached, registryVars
  <2>1. ASSUME NEW n \in Names, Logger(n) PROVE Cached'
    BY <2>1 DEF Logger
  <2>2. ASSUME Recompute(def', explicit'), UNCHANGED comps PROVE Cached'
    BY <2>2 DEF Recompute
  <2>3. CASE RestoreLogLevels
    <3>1. CASE file \in Settings
      BY <2>2, <2>3, <3>1 DEF RestoreLogLevels
    <3>2. CASE file \notin Settings
      BY <2>3, <3>2 DEF RestoreLogLevels
    <3> QED
      BY <3>1, <3>2
  <2>4. ASSUME NEW s \in Savers, NEW d, NEW x, Change(s, d, x) PROVE Cached'
    BY <2>2, <2>4 DEF Change
  <2>5. ASSUME NEW s \in Savers, Save(s) \/ SaveFailed(s) PROVE Cached'
    BY <2>5 DEF Save, SaveFailed
  <2>6. CASE FileWrittenBack \/ Restart
    BY <2>6 DEF FileWrittenBack, Restart
  <2>7. CASE UNCHANGED vars
    BY <2>7 DEF vars
  <2> QED
    BY <2>1, <2>3, <2>4, <2>5, <2>6, <2>7 DEF Next, SetLevel, ClearLevel
<1> QED
  BY <1>1, <1>2, PTL DEF Spec

(* Whenever the registry's lock is free a component filters by the level   *)
(* set nearest above it, or by the default: no change leaves a stale level *)
(* behind.                                                                 *)
THEOREM LevelsAreInForce == Spec => []LevelsFollow
<1>1. Cached => LevelsFollow
  <2> SUFFICES ASSUME Cached, NEW n \in comps
               PROVE  IF SetAbove(explicit, n) = {} THEN level[n] = def
                      ELSE \E m \in SetAbove(explicit, n) :
                               /\ level[n] = explicit[m]
                               /\ \A k \in SetAbove(explicit, n) : k \in Above(m)
    BY DEF LevelsFollow, SetAbove
  <2>1. FoundLevel(def, explicit, n, level[n])
    BY EffectiveIsNearest DEF Cached
  <2> QED
    BY <2>1 DEF FoundLevel, Nearest
<1> QED
  BY <1>1, CachedHolds, PTL

(* What the histories speak of are settings, and those that somebody made  *)
(* have no level in them that cannot be set.                               *)
Made == [def : Levels, levels : [Names -> Levels \cup {Unset}]]
Histories ==
    /\ standing \in Made \cup {NoValue} /\ recent \subseteq Made
    /\ promised \subseteq Made /\ fallback \subseteq Made

LEMMA SoundIsMade == \A f : Sound(f) \in Made
BY DEF Sound, Made, Defaults

LEMMA HistoriesHold == Spec => []Histories
<1>1. Init => Histories
  BY SoundIsMade DEF Init, Histories
<1>2. Valid /\ Histories /\ [Next]_vars => Histories'
  <2> SUFFICES ASSUME Valid, Histories, [Next]_vars PROVE Histories'
    OBVIOUS
  <2> USE DEF Histories, historyVars, keptVars
  <2>1. ASSUME NEW s \in Savers, NEW d \in Levels, NEW x \in [Names -> Levels \cup {Unset}],
               Change(s, d, x)
        PROVE  Histories'
    <3>1. [def |-> d, levels |-> x] \in Made
      BY DEF Made
    <3> QED
      BY <2>1, <3>1 DEF Change
  <2>2. ASSUME NEW s \in Savers, NEW n \in Names \cup {Root}, NEW l \in Levels,
               SetLevel(s, n, l)
        PROVE  Histories'
    BY <2>1, <2>2 DEF SetLevel, Valid
  <2>3. ASSUME NEW s \in Savers, NEW n \in Names, ClearLevel(s, n) PROVE Histories'
    BY <2>1, <2>3 DEF ClearLevel, Valid
  <2>4. ASSUME NEW s \in Savers, Save(s) \/ SaveFailed(s) PROVE Histories'
    BY <2>4 DEF Save, SaveFailed
  <2>5. CASE FileWrittenBack \/ Restart
    BY <2>5 DEF FileWrittenBack, Restart
  <2>6. ASSUME \/ \E n \in Names : Logger(n)
               \/ RestoreLogLevels \/ UNCHANGED vars
        PROVE  Histories'
    BY <2>6 DEF Logger, RestoreLogLevels, vars
  <2> QED
    BY <2>2, <2>3, <2>4, <2>5, <2>6 DEF Next
<1> QED
  BY <1>1, <1>2, ValidHolds, PTL DEF Spec

(* Every variable keeps to its range; a level in memory is never one that  *)
(* cannot be set, whatever a file holds, and the store keeps its types.    *)
THEOREM TypeCorrect == Spec => []TypeOK
<1> DEFINE Flag == restored \in BOOLEAN
           Counted == changes \in 0..MaxChanges
<1> USE DEF historyVars, registryVars
<1>0. Spec => []Flag
  <2>1. Init => Flag
    BY DEF Init
  <2>2. Flag /\ [Next]_vars => Flag'
    BY DEF Next, Logger, RestoreLogLevels, SetLevel, ClearLevel, Change, Save, SaveFailed, Restart,
           FileWrittenBack, vars
  <2> QED
    BY <2>1, <2>2, PTL DEF Spec
<1>1. Spec => []Counted
  <2>1. Init => Counted
    BY LogSettingsAssumption DEF Init
  <2>2. Counted /\ [Next]_vars => Counted'
    <3>1. [Next]_vars => changes' = changes \/ (changes < MaxChanges /\ changes' = changes + 1)
      BY DEF Next, Logger, RestoreLogLevels, SetLevel, ClearLevel, Change, Save, SaveFailed, Restart,
             FileWrittenBack, vars
    <3> QED
      BY <3>1, LogSettingsAssumption
  <2> QED
    BY <2>1, <2>2, PTL DEF Spec
<1>2. Valid /\ Cached => level \in [Names -> Levels \cup {Unset}]
  <2> SUFFICES ASSUME Valid, Cached, NEW n \in Names PROVE level[n] \in Levels \cup {Unset}
    BY DEF Cached
  <2>1. CASE n \in comps
    <3>1. FoundLevel(def, explicit, n, level[n])
      BY <2>1, EffectiveIsNearest DEF Cached
    <3>2. \A m \in Nearest(explicit, n) : explicit[m] \in Levels
      BY DEF Nearest, SetAbove, Above, Valid
    <3> QED
      BY <3>1, <3>2 DEF FoundLevel, Valid
  <2>2. CASE n \notin comps
    BY <2>2 DEF Cached
  <2> QED
    BY <2>1, <2>2
<1>3. Histories => /\ standing \in Settings \cup {NoValue} /\ recent \subseteq Settings
                   /\ promised \subseteq Settings /\ fallback \subseteq Settings
  <2>1. Made \subseteq Settings
    BY DEF Made, Settings
  <2> QED
    BY <2>1 DEF Histories
<1>4. Valid /\ Cached /\ Flag /\ Counted /\ Histories /\ StoreTypeOK => TypeOK
  BY <1>2, <1>3 DEF Valid, Cached, TypeOK
<1> QED
  BY <1>0, <1>1, <1>4, ValidHolds, CachedHolds, HistoriesHold, UsesTheStore, StoreTypeCorrect, PTL

--------------------------------------------------------------------------------
(* The inductive invariant: what a start would find in the file, now or    *)
(* after a loss of power, was promised; what is being saved will be; and a *)
(* registry that has restored nothing yet holds the defaults.              *)
Promises ==
    /\ Sound(file) \in promised
    /\ \A f \in older : Sound(f) \in fallback
    /\ \A s \in Savers : data[s] # NoValue => data[s] \in recent
    /\ ~restored => InMemory = Defaults

(* Settings that somebody made are restored whole.                         *)
LEMMA MadeIsSound == \A v \in Made : Sound(v) = v
<1> SUFFICES ASSUME NEW v \in Made PROVE Sound(v) = v
  OBVIOUS
<1>1. v \in Settings
  BY DEF Made, Settings
<1>2. v = [def |-> v.def, levels |-> v.levels] /\ v.levels = [n \in Names |-> v.levels[n]]
  BY DEF Made
<1>3. v.def \in Levels /\ \A n \in Names : v.levels[n] \in Levels \cup {Unset}
  BY DEF Made
<1>4. [n \in Names |-> IF v.levels[n] \in Levels THEN v.levels[n] ELSE Unset]
        = [n \in Names |-> v.levels[n]]
  BY <1>3
<1> QED
  BY <1>1, <1>2, <1>3, <1>4 DEF Sound

(* A change enters what its save, or one that overlaps it, may leave in    *)
(* the file; a rename leaves one of those there; a failed save leaves the  *)
(* file as it is, and so does a crash, or brings back what was replaced.   *)
LEMMA PromisesHold == Spec => []Promises
<1>1. Init => Promises
  BY DEF Init, StoreInit, Promises, InMemory, Defaults
<1>2. Whole /\ Histories /\ Promises /\ [Next]_vars => Promises'
  <2> SUFFICES ASSUME Whole, Histories, Promises, [Next]_vars PROVE Promises'
    OBVIOUS
  <2> USE DEF Promises, historyVars, keptVars, registryVars
  <2>1. ASSUME UNCHANGED <<file, older, data, promised, fallback, recent>>,
               ~restored' => InMemory' = Defaults
        PROVE  Promises'
    BY <2>1
  <2>2. ASSUME NEW n \in Names, Logger(n) PROVE Promises'
    BY <2>1, <2>2 DEF Logger, storeVars, saveVars, InMemory
  <2>3. CASE RestoreLogLevels
    BY <2>1, <2>3 DEF RestoreLogLevels, storeVars, saveVars
  <2>4. ASSUME NEW s \in Savers, NEW d, NEW x, Change(s, d, x) PROVE Promises'
    <3> DEFINE v == [def |-> d, levels |-> x]
    <3>1. /\ BeginSave(s, v) /\ recent' = IF NoSave THEN {v} ELSE recent \cup {v}
          /\ restored' /\ UNCHANGED <<file, older, promised, fallback>>
      BY <2>4 DEF Change, BeginSave
    <3>2. data' = [data EXCEPT ![s] = v]
      BY <3>1 DEF BeginSave
    <3> HIDE DEF v
    <3>3. ASSUME NEW u \in Savers, data'[u] # NoValue PROVE data'[u] \in recent'
      <4>1. CASE u = s
        BY <3>1, <3>2, <4>1 DEF Whole, StoreTypeOK
      <4>2. CASE u # s
        <5>1. data'[u] = data[u] /\ data[u] # NoValue
          BY <3>2, <3>3, <4>2 DEF Whole, StoreTypeOK
        <5>2. ~NoSave
          BY <5>1 DEF NoSave, Whole, Stage
        <5> QED
          BY <3>1, <5>1, <5>2
      <4> QED
        BY <4>1, <4>2
    <3> QED
      BY <3>1, <3>3
  <2>5. ASSUME NEW s \in Savers, Save(s) PROVE Promises'
    <3>1. CASE CreateTemp(s) \/ WriteTemp(s) \/ SyncTemp(s)
      <4>1. UNCHANGED <<file, older, data>> /\ pc[s] # "rename"
        BY <3>1 DEF CreateTemp, WriteTemp, SyncTemp, Step
      <4>2. UNCHANGED <<promised, fallback, recent, restored, def, explicit>>
        BY <2>5, <4>1 DEF Save
      <4> QED
        BY <2>1, <4>1, <4>2 DEF InMemory
    <3>2. CASE RenameTemp(s)
      <4>1. /\ promised' = recent /\ fallback' = fallback \cup promised
            /\ UNCHANGED <<recent, restored, def, explicit>>
        BY <2>5, <3>2 DEF Save, RenameTemp, Step
      <4>2. /\ file' = data[s] /\ data[s] # NoValue /\ older' = older \cup {file}
            /\ data' = [data EXCEPT ![s] = NoValue]
        BY <3>2 DEF RenameTemp, Step, OnDisk, Whole, Stage
      <4>3. data[s] \in recent /\ data[s] \in Made
        BY <4>2 DEF Histories
      <4>4. Sound(file') \in promised'
        BY <4>1, <4>2, <4>3, MadeIsSound
      <4>5. \A f \in older' : Sound(f) \in fallback'
        BY <4>1, <4>2
      <4>6. \A u \in Savers : data'[u] # NoValue => data'[u] \in recent'
        BY <4>1, <4>2 DEF Whole, StoreTypeOK
      <4>7. ~restored' => InMemory' = Defaults
        BY <4>1 DEF InMemory
      <4> QED
        BY <4>4, <4>5, <4>6, <4>7
    <3> QED
      BY <2>5, <3>1, <3>2 DEF Save, SaveStep
  <2>6. ASSUME NEW s \in Savers, SaveFailed(s) PROVE Promises'
    <3>1. /\ UNCHANGED <<file, older, promised, fallback, recent, restored, def, explicit>>
          /\ data' = [data EXCEPT ![s] = NoValue]
      BY <2>6 DEF SaveFailed, SaveFails
    <3> QED
      BY <3>1 DEF InMemory, Whole, StoreTypeOK
  <2>7. CASE FileWrittenBack
    BY <2>7 DEF FileWrittenBack, WriteBack, saveVars, InMemory
  <2>8. CASE Restart
    <3>0. InMemory' = Defaults /\ recent' = recent
      BY <2>8 DEF Restart, InMemory, Defaults
    <3>1. CASE UNCHANGED storeVars /\ UNCHANGED keptVars
      BY <2>1, <3>0, <3>1 DEF storeVars, saveVars
    <3>2. CASE Killed /\ UNCHANGED keptVars
      BY <3>0, <3>2 DEF Killed, Interrupted
    <3>3. CASE PowerLoss /\ promised' = promised \cup fallback /\ fallback' = {}
      BY <3>0, <3>3 DEF PowerLoss, Interrupted, OnDisk, Whole
    <3> QED
      BY <2>8, <3>1, <3>2, <3>3 DEF Restart
  <2>9. CASE UNCHANGED vars
    BY <2>1, <2>9 DEF vars, storeVars, saveVars, InMemory
  <2> QED
    BY <2>2, <2>3, <2>4, <2>5, <2>6, <2>7, <2>8, <2>9 DEF Next, SetLevel, ClearLevel
<1>3. Spec => []Whole
  BY UsesTheStore, WholeHolds, PTL
<1> QED
  BY <1>1, <1>2, <1>3, HistoriesHold, PTL DEF Spec

(* A start puts in force the settings that were kept last, or one of those *)
(* saved at the same time; what is valid of the file if none ever was; and *)
(* after a loss of power possibly those of an earlier change.  Any number  *)
(* of goroutines may change levels.                                        *)
THEOREM SettingsKept == Spec => KeptAcrossRestarts
<1>1. Promises /\ [Next]_vars => (~restored /\ restored' => InMemory' \in promised)
  <2> SUFFICES ASSUME Promises, [Next]_vars, ~restored, restored'
               PROVE  InMemory' \in promised
    OBVIOUS
  <2>1. RestoreLogLevels
    BY DEF Next, Logger, SetLevel, ClearLevel, Change, Save, SaveFailed, FileWrittenBack, Restart,
           vars, registryVars
  <2>2. def = DefaultLevel /\ explicit = [n \in Names |-> Unset]
    BY DEF Promises, InMemory, Defaults
  <2>3. InMemory' = Sound(file)
    BY <2>1, <2>2 DEF RestoreLogLevels, InMemory, Sound, Defaults
  <2> QED
    BY <2>3 DEF Promises
<1>2. Promises /\ [Next]_vars => [~restored /\ restored' => InMemory' \in promised]_vars
  BY <1>1
<1> QED
  BY <1>2, PromisesHold, PTL DEF Spec, KeptAcrossRestarts

(* Whatever becomes of the saves and of the power, a start finds a file of *)
(* levels that somebody saved, whole: AtomicFile is implemented here too.  *)
COROLLARY LevelsFileIsWhole == Spec => AtomicSpec
BY UsesTheStore, ImplementsAtomicFile, PTL
================================================================================

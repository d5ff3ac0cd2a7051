------------------------------ MODULE ConfigStore ------------------------------
(***************************************************************************)
(* src/internal/configstore/ConfigStore.go: Save writes an envelope to a   *)
(* temporary file of its own, syncs, closes and renames it over the file;  *)
(* Load reads the file.  Any number of goroutines save the same name at    *)
(* once, any step may fail, and between any two steps the process may be   *)
(* killed or the machine lose power.  What was not synced is then torn;    *)
(* and Save does not sync the directory, so that the latest renames may be *)
(* undone as long as the system has not written it.                        *)
(***************************************************************************)
EXTENDS Integers, FiniteSets

CONSTANTS Savers,      \* goroutines that save
          Values,      \* what is saved
          NoValue,     \* no value: no file, no temporary file
          Torn,        \* the content of a file that was not written out
          MaxCrashes   \* bound: how often the process is killed or power lost

ASSUME ConfigStoreAssumption ==
    /\ IsFiniteSet(Savers)
    /\ NoValue \notin Values /\ Torn \notin Values /\ Torn # NoValue
    /\ MaxCrashes \in Nat

VARIABLES
    file,      \* the content of <name>.json, NoValue if it does not exist
    pc,        \* where each saver is in Save
    data,      \* what each saver saves, NoValue when it is not in Save
    temp,      \* the content of each saver's temporary file, NoValue if there is none
    synced,    \* synced[s]: the temporary file of s is on the disk
    fileSynced,\* the file is on the disk
    older,     \* what the directory on the disk may still have in its place
    litter,    \* history: temporary files left in the directory
    crashes    \* history

saveVars == <<pc, data, temp, synced>>
storeVars == <<file, fileSynced, older, litter, crashes, saveVars>>

StoreInit ==
    /\ file \in Values \cup {NoValue} /\ fileSynced = TRUE /\ older = {}
    /\ pc = [s \in Savers |-> "idle"]
    /\ data = [s \in Savers |-> NoValue]
    /\ temp = [s \in Savers |-> NoValue]
    /\ synced = [s \in Savers |-> FALSE]
    /\ litter = 0 /\ crashes = 0

Step(s, from, to) == pc[s] = from /\ pc' = [pc EXCEPT ![s] = to]

(* Marshal and MkdirAll are still to come, and may still fail.             *)
BeginSave(s, v) ==
    /\ Step(s, "idle", "create")
    /\ data' = [data EXCEPT ![s] = v]
    /\ UNCHANGED <<file, fileSynced, older, litter, crashes, temp, synced>>

CreateTemp(s) ==
    /\ Step(s, "create", "write")
    /\ temp' = [temp EXCEPT ![s] = Torn]
    /\ UNCHANGED <<file, fileSynced, older, litter, crashes, data, synced>>

WriteTemp(s) ==
    /\ Step(s, "write", "sync")
    /\ temp' = [temp EXCEPT ![s] = data[s]]
    /\ UNCHANGED <<file, fileSynced, older, litter, crashes, data, synced>>

(* Faulty variant: no Sync. *)
CloseTemp(s) ==
    /\ Step(s, "sync", "rename")
    /\ UNCHANGED <<file, fileSynced, older, litter, crashes, data, temp, synced>>

(* Sync, then Close. *)
SyncTemp(s) ==
    /\ Step(s, "sync", "rename")
    /\ synced' = [synced EXCEPT ![s] = TRUE]
    /\ UNCHANGED <<file, fileSynced, older, litter, crashes, data, temp>>

(* What the file holds after a loss of power, if it is still in place.     *)
OnDisk == IF fileSynced THEN file ELSE Torn

(* Rename is atomic, but not yet on the disk.  The deferred Remove finds   *)
(* nothing to remove.                                                      *)
RenameTemp(s) ==
    /\ Step(s, "rename", "idle")
    /\ file' = temp[s] /\ fileSynced' = synced[s]
    /\ older' = older \cup {OnDisk}
    /\ temp' = [temp EXCEPT ![s] = NoValue]
    /\ synced' = [synced EXCEPT ![s] = FALSE]
    /\ data' = [data EXCEPT ![s] = NoValue]
    /\ UNCHANGED <<litter, crashes>>

(* Faulty variant: no deferred Remove. *)
SaveFailsWithoutRemove(s) ==
    /\ pc[s] # "idle"
    /\ pc' = [pc EXCEPT ![s] = "idle"]
    /\ synced' = [synced EXCEPT ![s] = FALSE]
    /\ data' = [data EXCEPT ![s] = NoValue]
    /\ UNCHANGED <<file, fileSynced, older, litter, crashes, temp>>

(* Any step fails: the deferred Close and Remove, and the error.           *)
SaveFails(s) ==
    /\ pc[s] # "idle"
    /\ pc' = [pc EXCEPT ![s] = "idle"]
    /\ temp' = [temp EXCEPT ![s] = NoValue]
    /\ synced' = [synced EXCEPT ![s] = FALSE]
    /\ data' = [data EXCEPT ![s] = NoValue]
    /\ UNCHANGED <<file, fileSynced, older, litter, crashes>>

(* The system writes the directory when it likes.                          *)
WriteBack ==
    /\ older # {} /\ older' = {}
    /\ UNCHANGED <<file, fileSynced, litter, crashes, saveVars>>

(* The saves in progress are cut short.  Nothing removes their temporary   *)
(* files any more.                                                         *)
Interrupted ==
    /\ crashes < MaxCrashes /\ crashes' = crashes + 1
    /\ litter' = litter + Cardinality({s \in Savers : temp[s] # NoValue})
    /\ pc' = [s \in Savers |-> "idle"]
    /\ data' = [s \in Savers |-> NoValue]
    /\ temp' = [s \in Savers |-> NoValue]
    /\ synced' = [s \in Savers |-> FALSE]

Killed == Interrupted /\ UNCHANGED <<file, fileSynced, older>>

(* The directory is as it was written last, or later.                      *)
PowerLoss ==
    /\ Interrupted
    /\ file' \in older \cup {OnDisk}
    /\ fileSynced' = TRUE /\ older' = {}

SaveStep(s) == CreateTemp(s) \/ WriteTemp(s) \/ SyncTemp(s) \/ RenameTemp(s)

StoreNext == \/ \E s \in Savers : SaveStep(s) \/ SaveFails(s) \/ \E v \in Values : BeginSave(s, v)
             \/ WriteBack \/ Killed \/ PowerLoss

StoreSpec == StoreInit /\ [][StoreNext]_storeVars

--------------------------------------------------------------------------------
(* Properties.                                                             *)

(* Each variable keeps to its range, and what is synced is what was saved. *)
StoreTypeOK ==
    /\ file \in Values \cup {NoValue, Torn} /\ older \subseteq Values \cup {NoValue, Torn}
    /\ pc \in [Savers -> {"idle", "create", "write", "sync", "rename"}]
    /\ data \in [Savers -> Values \cup {NoValue}]
    /\ temp \in [Savers -> Values \cup {NoValue, Torn}]
    /\ \A s \in Savers : synced[s] => temp[s] = data[s]
    /\ synced \in [Savers -> BOOLEAN] /\ fileSynced \in BOOLEAN
    /\ litter \in Nat /\ crashes \in 0..MaxCrashes

(* A save that fails or succeeds leaves no temporary file behind; only a   *)
(* crash in the middle of one does.                                        *)
NoLitter == /\ crashes = 0 => litter = 0
            /\ \A s \in Savers : pc[s] = "idle" => temp[s] = NoValue

(* The store implements AtomicFile: Load never finds half an envelope, or  *)
(* one that nobody saved, not even after a power loss in the middle of any *)
(* number of saves or right after them, when it may find an earlier one.   *)
Atomic == INSTANCE AtomicFile WITH saving <- data
AtomicSpec == Atomic!Spec
================================================================================

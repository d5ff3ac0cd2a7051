--------------------------- MODULE ServiceUnitProofs ---------------------------
(***************************************************************************)
(* What ServiceUnit guarantees for any number of commands, builds, edits   *)
(* and seconds.                                                            *)
(***************************************************************************)
EXTENDS ServiceUnit, TLAPS

USE ServiceUnitAssumption DEF ServiceUnitAssumption

(* TypeOK in parts: files, commands, seconds and truth values.             *)
FileTypes ==
    /\ unit \in Files \cup {NoFile}
    /\ backups \in [Seconds -> Files \cup {NoFile}]
    /\ seen \in [Commands -> Files \cup {NoFile}]
    /\ temp \in [Commands -> Files \cup {NoFile, Torn}]
CommandTypes ==
    /\ pc \in [Commands -> {"idle", "read", "backup", "write", "askEnabled", "askActive", "remove"}]
    /\ build \in [Commands -> Builds \cup {Foreign}]
    /\ service \in {"inactive", "starting", "active"}
    /\ made \subseteq Edits /\ excused \subseteq made
Clocks == now \in Seconds /\ stamp \in [Commands -> Seconds]
Flags == sawEnabled \in [Commands -> BOOLEAN] /\ enabled \in BOOLEAN /\ careless \in BOOLEAN
EditsMade == EditsIn(unit) \subseteq made

(* What a command holds: the file it has written out is the one it means   *)
(* to put in place, and a backup is named for a second that has come.      *)
Holds == \A c \in Commands :
             /\ pc[c] \notin {"backup", "write"} => temp[c] = NoFile
             /\ pc[c] \in {"read", "backup", "write"} => build[c] \in Builds
             /\ pc[c] = "backup" => seen[c] \in Files
             /\ temp[c] \in Files => temp[c] = Data(c)
Stamped == \A c \in Commands : stamp[c] <= now

TypeInv == FileTypes /\ CommandTypes /\ Clocks /\ Flags /\ EditsMade /\ Holds /\ Stamped

(* A file holds the edits above its hash line and those below.             *)
LEMMA FileEdits ==
    /\ \A f \in Files : /\ f # NoFile /\ f # Torn /\ EditsIn(f) = f.above \cup f.below
                        /\ f.above \subseteq Edits /\ f.below \subseteq Edits
    /\ EditsIn(NoFile) = {}
    /\ \A b \in Builds \cup {Foreign} : /\ Render(b) \in Files /\ EditsIn(Render(b)) = {}
                                       /\ Render(b).above = {}
<1>1. \A f \in Files : /\ f # NoFile /\ f # Torn /\ EditsIn(f) = f.above \cup f.below
                      /\ f.above \subseteq Edits /\ f.below \subseteq Edits
  BY DEF Files, EditsIn
<1>2. EditsIn(NoFile) = {}
  BY DEF EditsIn
<1>3. ASSUME NEW b \in Builds \cup {Foreign}
      PROVE  Render(b) \in Files /\ Render(b).above = {} /\ Render(b).below = {}
  BY DEF Render, Files
<1> QED
  BY <1>1, <1>2, <1>3

(* The user's editor saves whole files, with the edit in the part edited.  *)
LEMMA EditedFiles ==
    ASSUME FileTypes, NEW e \in Edits
    PROVE  /\ EditBelow(e) => unit' \in Files /\ unit'.above = unit.above
           /\ EditAbove(e) => unit' \in Files /\ unit'.above = unit.above \cup {e}
           /\ EditBelow(e) \/ EditAbove(e) =>
                  unit \in Files /\ EditsIn(unit') = EditsIn(unit) \cup {e}
           /\ WriteOwnUnit(e) =>
                  /\ unit = NoFile /\ unit' \in Files
                  /\ unit'.above = {} /\ EditsIn(unit') = {e}
<1>1. ASSUME EditBelow(e)
      PROVE  /\ unit \in Files /\ unit' \in Files /\ unit'.above = unit.above
             /\ EditsIn(unit') = EditsIn(unit) \cup {e}
  <2>1. unit \in Files /\ unit' = [unit EXCEPT !.below = @ \cup {e}]
    BY <1>1 DEF EditBelow, SaveEdit, FileTypes
  <2>2. /\ unit' \in Files /\ unit'.above = unit.above /\ unit'.below = unit.below \cup {e}
    BY <2>1 DEF Files
  <2>3. EditsIn(unit') = EditsIn(unit) \cup {e}
    BY <2>1, <2>2, FileEdits
  <2> QED
    BY <2>1, <2>2, <2>3
<1>2. ASSUME EditAbove(e)
      PROVE  /\ unit \in Files /\ unit' \in Files /\ unit'.above = unit.above \cup {e}
             /\ EditsIn(unit') = EditsIn(unit) \cup {e}
  <2>1. unit \in Files /\ unit' = [unit EXCEPT !.above = @ \cup {e}]
    BY <1>2 DEF EditAbove, SaveEdit, FileTypes
  <2>2. /\ unit' \in Files /\ unit'.above = unit.above \cup {e} /\ unit'.below = unit.below
    BY <2>1 DEF Files
  <2>3. EditsIn(unit') = EditsIn(unit) \cup {e}
    BY <2>1, <2>2, FileEdits
  <2> QED
    BY <2>1, <2>2, <2>3
<1>3. ASSUME WriteOwnUnit(e)
      PROVE  /\ unit = NoFile /\ unit' \in Files
             /\ unit'.above = {} /\ EditsIn(unit') = {e}
  <2>1. unit = NoFile /\ unit' = [text |-> Foreign, above |-> {}, below |-> {e}]
    BY <1>3 DEF WriteOwnUnit, SaveEdit
  <2>2. unit' \in Files /\ unit'.above = {} /\ unit'.below = {e}
    BY <2>1 DEF Files
  <2> QED
    BY <2>1, <2>2, FileEdits
<1> QED
  BY <1>1, <1>2, <1>3

(* Type correctness, and no edit is in the unit that was not made.         *)
LEMMA TypeInvHolds == Spec => []TypeInv
<1>1. Init => TypeInv
  <2> SUFFICES ASSUME Init PROVE TypeInv
    OBVIOUS
  <2>1. FileTypes /\ CommandTypes
    BY DEF Init, FileTypes, CommandTypes
  <2>2. Clocks
    BY DEF Init, Clocks, Seconds
  <2>3. Flags
    BY DEF Init, Flags
  <2>4. EditsMade
    BY DEF Init, EditsMade, EditsIn
  <2>5. Holds
    BY FileEdits DEF Init, Holds
  <2>6. Stamped
    BY DEF Init, Stamped
  <2> QED
    BY <2>1, <2>2, <2>3, <2>4, <2>5, <2>6 DEF TypeInv
<1>2. TypeInv /\ [Next]_vars => TypeInv'
  <2> SUFFICES ASSUME TypeInv, [Next]_vars PROVE TypeInv'
    OBVIOUS
  <2> USE DEF TypeInv, fileVars, commandVars, systemdVars, historyVars, Step, Exit
  <2>1. FileTypes'
    <3> USE DEF FileTypes
    <3>1. ASSUME NEW c \in Commands, InstallStep(c) PROVE FileTypes'
      <4>1. CASE ReadUpToDate(c) \/ ReadOther(c) \/ ReadNothing(c)
        BY <4>1 DEF ReadUpToDate, ReadOther, ReadNothing
      <4>2. CASE CreateTemp(c)
        BY <4>2 DEF CreateTemp
      <4>3. CASE WriteTemp(c)
        <5>1. Data(c) \in Files \cup {NoFile}
          BY FileEdits DEF Data, CommandTypes
        <5> QED
          BY <4>3, <5>1 DEF WriteTemp
      <4>4. CASE RenameTemp(c)
        <5>1. temp[c] \in Files
          BY <4>4 DEF RenameTemp
        <5> QED
          BY <4>4, <5>1 DEF RenameTemp, RenameBackup, RenameUnit
      <4> QED
        BY <3>1, <4>1, <4>2, <4>3, <4>4 DEF InstallStep
    <3>2. ASSUME NEW c \in Commands, UninstallStep(c) PROVE FileTypes'
      BY <3>2 DEF UninstallStep, AskEnabled, AskActive, Remove
    <3>3. ASSUME NEW c \in Commands,
                 Uninstall(c) \/ Fail(c) \/ \E b \in Builds : Install(c, b)
          PROVE  FileTypes'
      BY <3>3 DEF Uninstall, Fail, Install
    <3>4. ASSUME NEW e \in Edits, EditBelow(e) \/ EditAbove(e) \/ WriteOwnUnit(e)
          PROVE  FileTypes'
      <4>1. unit' \in Files
        BY <3>4, EditedFiles
      <4>2. UNCHANGED <<backups, seen, temp>>
        BY <3>4 DEF EditBelow, EditAbove, WriteOwnUnit, SaveEdit
      <4> QED
        BY <4>1, <4>2
    <3>5. ASSUME SystemctlEnable \/ SystemctlStart \/ StartedUp \/ SystemctlStop \/ UNCHANGED vars
          PROVE  FileTypes'
      BY <3>5 DEF SystemctlEnable, SystemctlStart, StartedUp, SystemctlStop, vars
    <3> QED
      BY <3>1, <3>2, <3>3, <3>4, <3>5 DEF Next
  <2> USE DEF Next, InstallStep, UninstallStep, Install, ReadUpToDate, ReadOther, ReadNothing,
              CreateTemp, WriteTemp, RenameTemp, RenameBackup, RenameUnit, Uninstall, AskEnabled,
              AskActive, Remove, Fail, EditBelow, EditAbove, WriteOwnUnit, SaveEdit,
              SystemctlEnable, SystemctlStart, StartedUp, SystemctlStop, vars
  <2>2. CommandTypes'
    <3> USE DEF CommandTypes
    <3>1. pc' \in [Commands -> {"idle", "read", "backup", "write", "askEnabled", "askActive", "remove"}]
      OBVIOUS
    <3>2. build' \in [Commands -> Builds \cup {Foreign}]
      OBVIOUS
    <3>3. service' \in {"inactive", "starting", "active"}
      OBVIOUS
    <3>4. made' \subseteq Edits
      OBVIOUS
    <3>5. excused' \subseteq made'
      BY DEF EditsMade
    <3> QED
      BY <3>1, <3>2, <3>3, <3>4, <3>5
  <2>3. Clocks'
    <3>1. now' \in Seconds
      BY DEF Clocks, Seconds
    <3>2. stamp' \in [Commands -> Seconds]
      BY DEF Clocks, Seconds
    <3> QED
      BY <3>1, <3>2 DEF Clocks
  <2>4. Flags'
    <3>1. sawEnabled' \in [Commands -> BOOLEAN]
      <4>1. \/ sawEnabled' = sawEnabled
            \/ \E c \in Commands : \/ sawEnabled' = [sawEnabled EXCEPT ![c] = FALSE]
                                 \/ AskEnabled(c)
        OBVIOUS
      <4> HIDE DEF Next, InstallStep, UninstallStep
      <4> QED
        BY <4>1 DEF Flags
    <3>2. enabled' \in BOOLEAN
      <4>1. enabled' = enabled \/ SystemctlEnable
        OBVIOUS
      <4> HIDE DEF Next, InstallStep, UninstallStep
      <4> QED
        BY <4>1, Zenon DEF Flags
    <3>3. careless' \in BOOLEAN
      <4>1. \/ careless' = careless
            \/ \E c \in Commands : AskEnabled(c) \/ AskActive(c)
            \/ SystemctlEnable \/ SystemctlStart
        OBVIOUS
      <4> HIDE DEF Next, InstallStep, UninstallStep
      <4> QED
        BY <4>1, Zenon DEF Flags
    <3> QED
      BY <3>1, <3>2, <3>3 DEF Flags
  <2>5. EditsMade'
    <3>1. CASE unit' = unit
      BY <3>1 DEF EditsMade
    <3>2. ASSUME NEW c \in Commands, RenameUnit(c), temp[c] \in Files
          PROVE  EditsMade'
      <4>1. unit' = Render(build[c]) /\ build[c] \in Builds \cup {Foreign}
        BY <3>2 DEF Holds, Data, CommandTypes
      <4> QED
        BY <4>1, FileEdits DEF EditsMade
    <3>3. CASE unit' = NoFile
      BY <3>3, FileEdits DEF EditsMade
    <3>4. ASSUME NEW e \in Edits, EditBelow(e) \/ EditAbove(e) \/ WriteOwnUnit(e)
          PROVE  EditsMade'
      BY <2>1, <3>4, FileEdits DEF FileTypes, EditsMade, Files
    <3> QED
      BY <3>1, <3>2, <3>3, <3>4 DEF FileTypes
  <2>6. Holds'
    BY FileEdits DEF Holds, FileTypes, CommandTypes, Data
  <2>7. Stamped'
    BY DEF Stamped, Clocks, Seconds
  <2> HIDE DEF Next, vars
  <2> QED
    BY <2>1, <2>2, <2>3, <2>4, <2>5, <2>6, <2>7
<1> QED
  BY <1>1, <1>2, PTL DEF Spec

(* Type correctness: the unit and its backups are whole at every step.     *)
THEOREM TypeCorrect == Spec => []TypeOK
<1>1. TypeInv => TypeOK
  BY DEF TypeInv, TypeOK, FileTypes, CommandTypes, Clocks, Flags
<1> QED
  BY <1>1, TypeInvHolds, PTL

--------------------------------------------------------------------------------
(* What an uninstall knows of the service when it goes on, and what is     *)
(* known of it when the unit is gone.                                      *)
AskedEnabled == \A c \in Commands : pc[c] = "askActive" /\ enabled /\ ~sawEnabled[c] => careless
AskedBoth == \A c \in Commands : pc[c] = "remove" /\ (enabled \/ service # "inactive") => careless
Removed == unit = NoFile /\ (enabled \/ service # "inactive") => careless

Looked == AskedEnabled /\ AskedBoth /\ Removed

(* What uninstall has seen of the unit's state is still so when it acts on *)
(* it, unless systemd was out of reach or the service came up meanwhile.   *)
LEMMA LookedHolds == Spec => []Looked
<1>1. Init => Looked
  BY DEF Init, Looked, AskedEnabled, AskedBoth, Removed
<1>2. TypeInv /\ Looked /\ [Next]_vars => Looked'
  <2> SUFFICES ASSUME TypeInv, Looked, [Next]_vars PROVE Looked'
    OBVIOUS
  <2> USE DEF TypeInv, Looked, CommandTypes, Flags, fileVars, commandVars, systemdVars,
              historyVars, Step, Exit
  <2>1. ASSUME NEW c \in Commands,
               (\E b \in Builds : Install(c, b)) \/ ReadUpToDate(c) \/ ReadOther(c) \/ ReadNothing(c) \/ CreateTemp(c)
               \/ WriteTemp(c) \/ Uninstall(c) \/ Fail(c)
        PROVE  Looked'
    BY <2>1 DEF Install, ReadUpToDate, ReadOther, ReadNothing, CreateTemp, WriteTemp, Uninstall,
                Fail, AskedEnabled, AskedBoth, Removed
  <2>2. ASSUME NEW c \in Commands, RenameTemp(c)
        PROVE  Looked'
    <3>1. temp[c] # NoFile
      BY <2>2 DEF RenameTemp
    <3> QED
      BY <2>2, <3>1 DEF RenameTemp, RenameBackup, RenameUnit, AskedEnabled, AskedBoth, Removed
  <2>3. ASSUME NEW c \in Commands, AskEnabled(c)
        PROVE  Looked'
    BY <2>3 DEF AskEnabled, AskedEnabled, AskedBoth, Removed
  <2>4. ASSUME NEW c \in Commands, AskActive(c)
        PROVE  Looked'
    <3>1. service \in {"inactive", "starting", "active"}
      OBVIOUS
    <3>2. AskedBoth'
      BY <2>4, <3>1 DEF AskActive, AskedEnabled, AskedBoth
    <3> QED
      BY <2>4, <3>2 DEF AskActive, AskedEnabled, Removed
  <2>5. ASSUME NEW c \in Commands, Remove(c)
        PROVE  Looked'
    BY <2>5 DEF Remove, AskedEnabled, AskedBoth, Removed
  <2>6. ASSUME NEW e \in Edits, EditBelow(e) \/ EditAbove(e) \/ WriteOwnUnit(e)
        PROVE  Looked'
    <3>1. UNCHANGED <<pc, sawEnabled, enabled, service, careless>>
      BY <2>6 DEF EditBelow, EditAbove, WriteOwnUnit, SaveEdit
    <3>2. unit = NoFile \/ unit' # NoFile
      BY <2>6, EditedFiles, FileEdits
    <3> QED
      BY <3>1, <3>2 DEF AskedEnabled, AskedBoth, Removed
  <2>7. CASE SystemctlEnable
    BY <2>7 DEF SystemctlEnable, AboutToRemove, AskedEnabled, AskedBoth, Removed
  <2>8. CASE SystemctlStart
    BY <2>8 DEF SystemctlStart, AskedEnabled, AskedBoth, Removed
  <2>9. CASE StartedUp \/ SystemctlStop
    BY <2>9 DEF StartedUp, SystemctlStop, AskedEnabled, AskedBoth, Removed
  <2>10. CASE UNCHANGED vars
    BY <2>10 DEF vars, AskedEnabled, AskedBoth, Removed
  <2> QED
    BY <2>1, <2>2, <2>3, <2>4, <2>5, <2>6, <2>7, <2>8, <2>9, <2>10
    DEF Next, InstallStep, UninstallStep
<1> QED
  BY <1>1, <1>2, TypeInvHolds, PTL DEF Spec

(* The unit of a service in use goes only when systemd did not answer an   *)
(* uninstall or the service came up behind its back.                       *)
THEOREM UnitInUse == Spec => []InUseKept
<1>1. Looked => InUseKept
  BY DEF Looked, Removed, InUseKept
<1> QED
  BY <1>1, LookedHolds, PTL

--------------------------------------------------------------------------------
(* c may yet put its backup under second s. *)
Threatens(c, s) == /\ pc[c] = "backup"
                   /\ IF temp[c] = NoFile THEN now = s ELSE stamp[c] = s

(* Edit e is in the backup of second s, and will stay in it: whoever may   *)
(* still write that backup has read e too.  As an edit takes a second,     *)
(* nobody who comes to read the unit in second s finds another to save.    *)
SafeIn(e, s) ==
    /\ e \in EditsIn(backups[s]) /\ s <= now
    /\ \A c \in Commands : Threatens(c, s) => e \in EditsIn(seen[c])
    /\ s = now => e \in EditsIn(unit) \/ unit = NoFile \/ ParseManaged(unit)

Safe(e) == \E s \in Seconds : SafeIn(e, s)

(* The inductive invariant, for each edit that install promises to keep.   *)
(* While it is in the unit, whoever is about to save the unit has read it, *)
(* and before anyone is about to replace the unit it is safe.              *)
KeptOrSafe ==
    \A e \in made \ excused :
        IF e \in EditsIn(unit)
        THEN /\ e \notin unit.above
             /\ \A c \in Commands : /\ pc[c] = "backup" => e \in EditsIn(seen[c])
                                    /\ pc[c] = "write" => Safe(e)
        ELSE Safe(e)

(* A unit that was rendered is taken for what it is.                       *)
LEMMA Rendered ==
    ASSUME TypeInv, NEW c \in Commands, RenameUnit(c), temp[c] \notin {NoFile, Torn}
    PROVE  unit' \in Files /\ EditsIn(unit') = {} /\ ParseManaged(unit')
<1>1. temp[c] \in Files /\ temp[c] = Render(build[c]) /\ build[c] \in Builds /\ unit' = temp[c]
  BY DEF RenameUnit, TypeInv, FileTypes, Holds, Data
<1>2. Render(build[c]).text # Foreign /\ Render(build[c]).below = {}
  BY <1>1 DEF Render
<1> QED
  BY <1>1, <1>2, FileEdits DEF ParseManaged

(* A safe edit stays safe as long as install promises to keep it: one case *)
(* per action that touches the unit, a backup, the time, or what a command *)
(* is about to save.                                                       *)
LEMMA SafeStays ==
    ASSUME TypeInv, KeptOrSafe, [Next]_vars,
           NEW e \in made \ excused, NEW s \in Seconds, SafeIn(e, s)
    PROVE  SafeIn(e, s)'
<1> USE DEF TypeInv, fileVars, commandVars, systemdVars, historyVars, Step, Exit
<1>1. ASSUME UNCHANGED fileVars,
             \A d \in Commands : Threatens(d, s)' => e \in EditsIn(seen'[d])
      PROVE  SafeIn(e, s)'
  BY <1>1 DEF SafeIn
<1>2. ASSUME NEW c \in Commands,
             \/ (\E b \in Builds : Install(c, b)) \/ ReadUpToDate(c) \/ ReadNothing(c) \/ Uninstall(c)
             \/ AskEnabled(c) \/ AskActive(c) \/ Fail(c)
      PROVE  SafeIn(e, s)'
  <2>1. UNCHANGED fileVars
    BY <1>2 DEF Install, ReadUpToDate, ReadNothing, Uninstall, AskEnabled, AskActive, Fail
  <2>2. ASSUME NEW d \in Commands, Threatens(d, s)'
        PROVE  e \in EditsIn(seen'[d])
    <3>1. Threatens(d, s) /\ seen'[d] = seen[d]
      BY <1>2, <2>1, <2>2 DEF Install, ReadUpToDate, ReadNothing, Uninstall, AskEnabled, AskActive,
                              Fail, Threatens, FileTypes, CommandTypes, Clocks
    <3> QED
      BY <3>1 DEF SafeIn
  <2> QED
    BY <1>1, <2>1, <2>2
<1>3. ASSUME NEW c \in Commands, ReadOther(c)
      PROVE  SafeIn(e, s)'
  <2>1. UNCHANGED fileVars
    BY <1>3 DEF ReadOther
  <2>2. ASSUME NEW d \in Commands, Threatens(d, s)'
        PROVE  e \in EditsIn(seen'[d])
    <3>1. CASE d = c
      <4>1. ~ParseManaged(unit) /\ unit # NoFile /\ seen'[c] = unit /\ temp[c] = NoFile /\ now = s
        BY <1>3, <2>1, <2>2, <3>1 DEF ReadOther, Threatens, FileTypes, CommandTypes, Holds
      <4> QED
        BY <3>1, <4>1 DEF SafeIn
    <3>2. CASE d # c
      <4>1. Threatens(d, s) /\ seen'[d] = seen[d]
        BY <1>3, <2>1, <2>2, <3>2 DEF ReadOther, Threatens, FileTypes, CommandTypes
      <4> QED
        BY <4>1 DEF SafeIn
    <3> QED
      BY <3>1, <3>2
  <2> QED
    BY <1>1, <2>1, <2>2
<1>4. ASSUME NEW c \in Commands, CreateTemp(c) \/ WriteTemp(c)
      PROVE  SafeIn(e, s)'
  <2>1. UNCHANGED <<fileVars, seen, pc>>
    BY <1>4 DEF CreateTemp, WriteTemp
  <2>2. ASSUME NEW d \in Commands, Threatens(d, s)'
        PROVE  Threatens(d, s)
    <3>1. CASE d = c /\ CreateTemp(c)
      <4>1. temp[c] = NoFile /\ temp'[c] = Torn /\ (pc[c] = "backup" => stamp'[c] = now)
        BY <3>1 DEF CreateTemp, FileTypes, Clocks
      <4> QED
        BY <2>1, <2>2, <3>1, <4>1 DEF Threatens
    <3>2. CASE d = c /\ WriteTemp(c)
      <4>1. temp[c] = Torn /\ stamp' = stamp /\ temp'[c] = Data(c)
        BY <3>2 DEF WriteTemp, FileTypes
      <4>2. pc[c] = "backup" => Data(c) # NoFile
        BY FileEdits DEF Data, Holds
      <4> QED
        BY <2>1, <2>2, <3>2, <4>1, <4>2 DEF Threatens
    <3>3. CASE d # c
      BY <1>4, <2>1, <2>2, <3>3 DEF CreateTemp, WriteTemp, Threatens, FileTypes, Clocks
    <3> QED
      BY <1>4, <3>1, <3>2, <3>3
  <2>3. ASSUME NEW d \in Commands, Threatens(d, s)'
        PROVE  e \in EditsIn(seen'[d])
    BY <2>1, <2>2, <2>3 DEF SafeIn
  <2> QED
    BY <1>1, <2>1, <2>3
<1>5. ASSUME NEW c \in Commands, RenameBackup(c), temp[c] \notin {NoFile, Torn}
      PROVE  SafeIn(e, s)'
  <2>1. /\ backups' = [backups EXCEPT ![stamp[c]] = seen[c]]
        /\ pc[c] = "backup" /\ pc' = [pc EXCEPT ![c] = "write"]
        /\ temp' = [temp EXCEPT ![c] = NoFile]
        /\ UNCHANGED <<unit, now, seen, stamp>>
    BY <1>5 DEF RenameBackup, Holds, FileTypes, Data
  <2>2. e \in EditsIn(backups'[s])
    <3>1. CASE stamp[c] = s
      BY <1>5, <2>1, <3>1 DEF SafeIn, Threatens, FileTypes
    <3>2. CASE stamp[c] # s
      BY <2>1, <3>2 DEF SafeIn, FileTypes
    <3> QED
      BY <3>1, <3>2
  <2>3. ASSUME NEW d \in Commands, Threatens(d, s)'
        PROVE  e \in EditsIn(seen'[d])
    <3>1. Threatens(d, s)
      BY <2>1, <2>3 DEF Threatens, FileTypes, CommandTypes
    <3> QED
      BY <2>1, <3>1 DEF SafeIn
  <2> QED
    BY <2>1, <2>2, <2>3 DEF SafeIn
<1>6. ASSUME NEW c \in Commands,
             (RenameUnit(c) /\ temp[c] \notin {NoFile, Torn}) \/ Remove(c)
      PROVE  SafeIn(e, s)'
  <2>1. UNCHANGED <<backups, now>> /\ (unit' = NoFile \/ ParseManaged(unit'))
    BY <1>6, Rendered DEF RenameUnit, Remove
  <2>2. ASSUME NEW d \in Commands, Threatens(d, s)'
        PROVE  e \in EditsIn(seen'[d])
    <3>1. Threatens(d, s) /\ seen'[d] = seen[d]
      BY <1>6, <2>1, <2>2 DEF RenameUnit, Remove, Threatens, FileTypes, CommandTypes, Clocks
    <3> QED
      BY <3>1 DEF SafeIn
  <2> QED
    BY <2>1, <2>2 DEF SafeIn
<1>7. ASSUME NEW x \in Edits, EditBelow(x) \/ EditAbove(x) \/ WriteOwnUnit(x)
      PROVE  SafeIn(e, s)'
  <2>1. now' = now + 1 /\ now \in Nat /\ s \in Nat /\ UNCHANGED <<backups, pc, seen, stamp, temp>>
    BY <1>7 DEF EditBelow, EditAbove, WriteOwnUnit, SaveEdit, Clocks, Seconds
  <2>2. s <= now
    BY DEF SafeIn
  <2>3. ASSUME NEW d \in Commands, Threatens(d, s)'
        PROVE  e \in EditsIn(seen'[d])
    <3>1. Threatens(d, s)
      BY <2>1, <2>2, <2>3 DEF Threatens
    <3> QED
      BY <2>1, <3>1 DEF SafeIn
  <2>4. s <= now' /\ s # now'
    BY <2>1, <2>2
  <2> QED
    BY <2>1, <2>3, <2>4 DEF SafeIn
<1>8. CASE SystemctlEnable \/ SystemctlStart \/ StartedUp \/ SystemctlStop \/ UNCHANGED vars
  BY <1>8 DEF SystemctlEnable, SystemctlStart, StartedUp, SystemctlStop, vars, SafeIn, Threatens
<1> QED
  BY <1>2, <1>3, <1>4, <1>5, <1>6, <1>7, <1>8
  DEF Next, InstallStep, UninstallStep, RenameTemp

(* Every edit made is in the unit or in a backup, or is about to be.       *)
LEMMA KeptOrSafeHolds == Spec => []KeptOrSafe
<1>1. Init => KeptOrSafe
  BY DEF Init, KeptOrSafe
<1>2. TypeInv /\ KeptOrSafe /\ [Next]_vars => KeptOrSafe'
  <2> SUFFICES ASSUME TypeInv, KeptOrSafe, [Next]_vars PROVE KeptOrSafe'
    OBVIOUS
  <2> DEFINE InUnit(x) == /\ x \notin unit.above
                          /\ \A c \in Commands : /\ pc[c] = "backup" => x \in EditsIn(seen[c])
                                                 /\ pc[c] = "write" => Safe(x)
  <2> SUFFICES ASSUME NEW x \in made' \ excused'
               PROVE  IF x \in EditsIn(unit') THEN InUnit(x)' ELSE Safe(x)'
    BY DEF KeptOrSafe
  <2>0. x \in made \ excused /\ Safe(x) => Safe(x)'
    BY SafeStays DEF Safe
  <2> USE DEF TypeInv, fileVars, commandVars, systemdVars, historyVars, Step, Exit
  <2>1. ASSUME NEW c \in Commands, ReadOther(c)
        PROVE  IF x \in EditsIn(unit') THEN InUnit(x)' ELSE Safe(x)'
    <3>1. x \in made \ excused /\ unit' = unit /\ unit \in Files
      BY <2>1 DEF ReadOther, FileTypes
    <3>2. CASE x \in EditsIn(unit)
      <4>1. x \notin unit.above /\ ~ParseManaged(unit)
        BY <3>1, <3>2, FileEdits DEF KeptOrSafe, ParseManaged
      <4>2. pc' = [pc EXCEPT ![c] = "backup"] /\ seen' = [seen EXCEPT ![c] = unit]
        BY <2>1, <4>1 DEF ReadOther
      <4>3. ASSUME NEW d \in Commands
            PROVE  /\ pc'[d] = "backup" => x \in EditsIn(seen'[d])
                   /\ pc'[d] = "write" => Safe(x)'
        BY <2>0, <3>1, <3>2, <4>2 DEF KeptOrSafe, FileTypes, CommandTypes
      <4> QED
        BY <3>1, <3>2, <4>1, <4>3
    <3>3. CASE x \notin EditsIn(unit)
      BY <2>0, <3>1, <3>3 DEF KeptOrSafe
    <3> QED
      BY <3>2, <3>3
  <2>2. ASSUME NEW c \in Commands, RenameBackup(c), temp[c] \notin {NoFile, Torn}
        PROVE  IF x \in EditsIn(unit') THEN InUnit(x)' ELSE Safe(x)'
    <3>1. /\ x \in made \ excused /\ unit' = unit /\ now' = now /\ seen' = seen /\ stamp' = stamp
          /\ pc[c] = "backup" /\ pc' = [pc EXCEPT ![c] = "write"]
          /\ backups' = [backups EXCEPT ![stamp[c]] = seen[c]]
      BY <2>2 DEF RenameBackup, Holds, FileTypes, Data
    <3>2. CASE x \in EditsIn(unit)
      <4>1. \A d \in Commands : pc[d] = "backup" => x \in EditsIn(seen[d])
        BY <3>1, <3>2 DEF KeptOrSafe
      <4>2. stamp[c] \in Seconds /\ stamp[c] <= now
        BY DEF Clocks, Stamped
      <4>3. x \in EditsIn(backups'[stamp[c]])
        BY <3>1, <4>1, <4>2 DEF FileTypes
      <4>4. \A d \in Commands : pc'[d] = "backup" => x \in EditsIn(seen'[d])
        BY <3>1, <4>1 DEF CommandTypes
      <4>5. SafeIn(x, stamp[c])'
        BY <3>1, <3>2, <4>2, <4>3, <4>4 DEF SafeIn, Threatens
      <4>6. Safe(x)'
        BY <3>1, <4>2, <4>5 DEF Safe
      <4> QED
        BY <3>1, <3>2, <4>4, <4>6 DEF KeptOrSafe
    <3>3. CASE x \notin EditsIn(unit)
      BY <2>0, <3>1, <3>3 DEF KeptOrSafe
    <3> QED
      BY <3>2, <3>3
  <2>3. ASSUME NEW c \in Commands, RenameUnit(c), temp[c] \notin {NoFile, Torn}
        PROVE  IF x \in EditsIn(unit') THEN InUnit(x)' ELSE Safe(x)'
    <3>1. x \in made \ excused /\ pc[c] = "write" /\ EditsIn(unit') = {}
      BY <2>3, Rendered DEF RenameUnit
    <3>2. Safe(x)
      BY <3>1 DEF KeptOrSafe
    <3> QED
      BY <2>0, <3>1, <3>2
  <2>4. ASSUME NEW c \in Commands, Remove(c)
        PROVE  IF x \in EditsIn(unit') THEN InUnit(x)' ELSE Safe(x)'
    <3>1. x \in made \ excused /\ x \notin EditsIn(unit) /\ EditsIn(unit') = {}
      BY <2>4, FileEdits DEF Remove
    <3> QED
      BY <2>0, <3>1 DEF KeptOrSafe
  <2>5. ASSUME NEW e \in Edits, EditBelow(e) \/ EditAbove(e) \/ WriteOwnUnit(e)
        PROVE  IF x \in EditsIn(unit') THEN InUnit(x)' ELSE Safe(x)'
    <3>1. UNCHANGED <<pc, seen>> /\ made' = made \cup {e}
      BY <2>5 DEF EditBelow, EditAbove, WriteOwnUnit, SaveEdit
    <3>2. CASE x = e
      <4>1. ~EditAbove(e) /\ \A c \in Commands : ~InHand(c)
        BY <2>5, <3>2 DEF EditBelow, EditAbove, WriteOwnUnit, SaveEdit
      <4>2. e \notin made /\ e \in EditsIn(unit') /\ unit'.above \in {{}, unit.above}
            /\ (unit'.above = {} \/ unit \in Files)
        BY <2>5, <4>1, EditedFiles DEF EditBelow, WriteOwnUnit, SaveEdit
      <4>3. e \notin unit'.above
        BY <4>2, FileEdits DEF EditsMade
      <4>4. \A c \in Commands : pc'[c] # "backup" /\ pc'[c] # "write"
        BY <3>1, <4>1 DEF InHand
      <4> QED
        BY <3>2, <4>2, <4>3, <4>4
    <3>3. CASE x # e
      <4>1. x \in made \ excused
        BY <2>5, <3>1, <3>3 DEF EditBelow, EditAbove, WriteOwnUnit, SaveEdit
      <4>2. CASE x \in EditsIn(unit)
        <5>1. unit # NoFile /\ ~WriteOwnUnit(e)
          BY <4>2, FileEdits DEF WriteOwnUnit
        <5>2. x \in EditsIn(unit') /\ x \notin unit.above /\ unit'.above \in {unit.above, unit.above \cup {e}}
          BY <2>5, <4>1, <4>2, <5>1, EditedFiles DEF KeptOrSafe
        <5> QED
          BY <2>0, <3>1, <3>3, <4>1, <4>2, <5>2 DEF KeptOrSafe
      <4>3. CASE x \notin EditsIn(unit)
        <5>1. x \notin EditsIn(unit')
          BY <2>5, <3>3, <4>3, EditedFiles
        <5> QED
          BY <2>0, <4>1, <4>3, <5>1 DEF KeptOrSafe
      <4> QED
        BY <4>2, <4>3
    <3> QED
      BY <3>2, <3>3
  <2>6. ASSUME NEW c \in Commands, CreateTemp(c) \/ WriteTemp(c)
        PROVE  IF x \in EditsIn(unit') THEN InUnit(x)' ELSE Safe(x)'
    <3>1. x \in made \ excused /\ UNCHANGED <<unit, pc, seen>>
      BY <2>6 DEF CreateTemp, WriteTemp
    <3> QED
      BY <2>0, <3>1 DEF KeptOrSafe
  <2>7. ASSUME NEW c \in Commands,
               \/ (\E b \in Builds : Install(c, b)) \/ ReadUpToDate(c) \/ Uninstall(c)
               \/ AskEnabled(c) \/ AskActive(c) \/ Fail(c)
        PROVE  IF x \in EditsIn(unit') THEN InUnit(x)' ELSE Safe(x)'
    <3>1. x \in made \ excused /\ unit' = unit
      BY <2>7 DEF Install, ReadUpToDate, Uninstall, AskEnabled, AskActive, Fail
    <3>2. ASSUME NEW d \in Commands
          PROVE  /\ pc'[d] = "backup" => pc[d] = "backup" /\ seen'[d] = seen[d]
                 /\ pc'[d] = "write" => pc[d] = "write"
      BY <2>7 DEF Install, ReadUpToDate, Uninstall, AskEnabled, AskActive, Fail,
                  FileTypes, CommandTypes
    <3> QED
      BY <2>0, <3>1, <3>2 DEF KeptOrSafe
  <2>8. ASSUME NEW c \in Commands, ReadNothing(c)
        PROVE  IF x \in EditsIn(unit') THEN InUnit(x)' ELSE Safe(x)'
    <3>1. x \in made \ excused /\ unit' = unit /\ x \notin EditsIn(unit)
      BY <2>8 DEF ReadNothing
    <3> QED
      BY <2>0, <3>1 DEF KeptOrSafe
  <2>9. CASE SystemctlEnable \/ SystemctlStart \/ StartedUp \/ SystemctlStop \/ UNCHANGED vars
    <3>1. x \in made \ excused /\ UNCHANGED <<unit, pc, seen>>
      BY <2>9 DEF SystemctlEnable, SystemctlStart, StartedUp, SystemctlStop, vars
    <3> QED
      BY <2>0, <3>1 DEF KeptOrSafe
  <2> QED
    BY <2>1, <2>2, <2>3, <2>4, <2>5, <2>6, <2>7, <2>8, <2>9
    DEF Next, InstallStep, UninstallStep, RenameTemp
<1> QED
  BY <1>1, <1>2, TypeInvHolds, PTL DEF Spec

(* An edit below the header is in the unit or in a backup, however many    *)
(* commands run at once, fail or are killed, save for the exceptions that  *)
(* EditsKept names.                                                        *)
THEOREM NoEditLost == Spec => []EditsKept
<1>1. TypeInv /\ KeptOrSafe => EditsKept
  <2> SUFFICES ASSUME TypeInv, KeptOrSafe, NEW e \in made \ excused PROVE e \in Kept
    BY DEF EditsKept
  <2>1. CASE e \in EditsIn(unit)
    BY <2>1 DEF Kept
  <2>2. CASE e \notin EditsIn(unit)
    <3>1. PICK s \in Seconds : SafeIn(e, s)
      BY <2>2 DEF KeptOrSafe, Safe
    <3> QED
      BY <3>1 DEF SafeIn, Kept
  <2> QED
    BY <2>1, <2>2
<1> QED
  BY <1>1, TypeInvHolds, KeptOrSafeHolds, PTL
================================================================================

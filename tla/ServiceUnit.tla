------------------------------ MODULE ServiceUnit ------------------------------
(***************************************************************************)
(* The systemd unit of an assembly: src/service/service.go (install,       *)
(* uninstall, tell) over the machine of src/service/service_linux.go.      *)
(*                                                                         *)
(* Each command is a process that runs once and may be run again: it reads *)
(* the unit, compares it with the text it would write, saves it beside if  *)
(* it was changed by hand, and replaces it.  Nothing locks the file: two   *)
(* commands, the user's editor and the user's systemctl act in between.    *)
(* A read, a write or a question to systemd may fail, and a command may be *)
(* killed at any step.                                                     *)
(***************************************************************************)
EXTENDS Integers, FiniteSets

CONSTANTS Commands,    \* processes that install or uninstall
          Builds,      \* builds of the program, each rendering a text of its own
          Foreign,     \* the text of a unit that is not this program's
          Edits,       \* changes made by hand, each made at most once
          NoFile,      \* no file
          Torn,        \* a file that is not written out
          Horizon      \* bound: seconds

Seconds == 0..Horizon

ASSUME ServiceUnitAssumption ==
    /\ Foreign \notin Builds /\ Horizon \in Nat
    /\ NoFile # Torn
    /\ \A f \in [text : Builds \cup {Foreign}, above : SUBSET Edits, below : SUBSET Edits] :
           f # NoFile /\ f # Torn

(* A file: what it was made from, and what was changed in it by hand above *)
(* the end of the header's hash line and below it.                         *)
Files == [text : Builds \cup {Foreign}, above : SUBSET Edits, below : SUBSET Edits]

VARIABLES
    unit,        \* the unit file
    backups,     \* the file <unit>.bak-<second>, for each second
    now,         \* the second it is
    pc,          \* where each command is
    build,       \* the build each command is a process of, Foreign when it does not run
    seen,        \* what the command's ReadFile gave, NoFile if it gave an error
    stamp,       \* the second in the name of the command's backup
    temp,        \* the temporary file of the command's WriteFile
    sawEnabled,  \* what is-enabled said to the uninstalling command
    enabled,     \* systemctl enable
    service,     \* "inactive", "starting" (ExecStartPre) or "active"
    made,        \* history: the edits made
    excused,     \* history: the edits that install does not promise to keep
    careless     \* history: systemd was unreachable, or the service came up, under an uninstall

fileVars == <<unit, backups, now>>
commandVars == <<pc, build, seen, stamp, temp, sawEnabled>>
systemdVars == <<enabled, service>>
historyVars == <<made, excused, careless>>
vars == <<fileVars, commandVars, systemdVars, historyVars>>

EditsIn(f) == IF f \in {NoFile, Torn} THEN {} ELSE f.above \cup f.below

Init ==
    /\ unit = NoFile /\ backups = [s \in Seconds |-> NoFile] /\ now = 0
    /\ pc = [c \in Commands |-> "idle"]
    /\ build = [c \in Commands |-> Foreign]
    /\ seen = [c \in Commands |-> NoFile]
    /\ stamp = [c \in Commands |-> 0]
    /\ temp = [c \in Commands |-> NoFile]
    /\ sawEnabled = [c \in Commands |-> FALSE]
    /\ enabled = FALSE /\ service = "inactive"
    /\ made = {} /\ excused = {} /\ careless = FALSE

Step(c, from, to) == pc[c] = from /\ pc' = [pc EXCEPT ![c] = to]

(* render: the template under the header. *)
Render(b) == [text |-> b, above |-> {}, below |-> {}]

(* Faulty variant: a file with the header is taken to be as it was written. *)
HasHeader(f) == f.text # Foreign

(* parseManaged: the header's hash is that of what follows it.             *)
ParseManaged(f) == f.text # Foreign /\ f.below = {}

(* How a command ends: it keeps nothing.  The file of a WriteFile that was *)
(* cut short is removed, or, when the command was killed, left under a     *)
(* name nobody looks for.                                                  *)
Exit(c) ==
    /\ pc' = [pc EXCEPT ![c] = "idle"]
    /\ seen' = [seen EXCEPT ![c] = NoFile]
    /\ stamp' = [stamp EXCEPT ![c] = 0]
    /\ temp' = [temp EXCEPT ![c] = NoFile]
    /\ sawEnabled' = [sawEnabled EXCEPT ![c] = FALSE]
    /\ build' = [build EXCEPT ![c] = Foreign]

--------------------------------------------------------------------------------
(* install.                                                                *)

(* Everything before the file is read: the executable, its name, the text. *)
(* What fails there changes nothing.                                       *)
Install(c, b) ==
    /\ Step(c, "idle", "read")
    /\ build' = [build EXCEPT ![c] = b]
    /\ UNCHANGED <<fileVars, seen, stamp, temp, sawEnabled, systemdVars, historyVars>>

(* Up to date: nothing is written, systemd is not told, and the command    *)
(* ends with tell, which only asks.                                        *)
ReadUpToDate(c) ==
    /\ pc[c] = "read" /\ unit = Render(build[c])
    /\ Exit(c)
    /\ UNCHANGED <<fileVars, systemdVars, historyVars>>

(* There is a unit, and it is another one: as it was written, or not.      *)
ReadOther(c) ==
    /\ unit # NoFile /\ unit # Render(build[c])
    /\ Step(c, "read", IF ParseManaged(unit) THEN "write" ELSE "backup")
    /\ seen' = [seen EXCEPT ![c] = unit]
    /\ UNCHANGED <<fileVars, build, stamp, temp, sawEnabled, systemdVars, historyVars>>

(* It is not there, or it is and cannot be read: any error is taken for    *)
(* its absence.                                                            *)
ReadNothing(c) ==
    /\ Step(c, "read", "write")
    /\ excused' = excused \cup EditsIn(unit)
    /\ UNCHANGED <<fileVars, build, seen, stamp, temp, sawEnabled, systemdVars,
                   made, careless>>

(* WriteFile, for the backup and then for the unit: a temporary file in    *)
(* the same directory, written, closed, and renamed.  The backup is named  *)
(* for the second its WriteFile begins in.                                 *)
Data(c) == IF pc[c] = "backup" THEN seen[c] ELSE Render(build[c])

CreateTemp(c) ==
    /\ pc[c] \in {"backup", "write"} /\ temp[c] = NoFile
    /\ temp' = [temp EXCEPT ![c] = Torn]
    /\ stamp' = IF pc[c] = "backup" THEN [stamp EXCEPT ![c] = now] ELSE stamp
    /\ UNCHANGED <<fileVars, pc, build, seen, sawEnabled, systemdVars, historyVars>>

WriteTemp(c) ==
    /\ pc[c] \in {"backup", "write"} /\ temp[c] = Torn
    /\ temp' = [temp EXCEPT ![c] = Data(c)]
    /\ UNCHANGED <<fileVars, pc, build, seen, stamp, sawEnabled, systemdVars, historyVars>>

(* The rename that puts the temporary file in place ends the WriteFile.    *)
(* That of the unit is the command's last change: daemon-reload may fail,  *)
(* in which case the user is told to, and tell only asks.                  *)
RenameBackup(c) ==
    /\ Step(c, "backup", "write")
    /\ backups' = [backups EXCEPT ![stamp[c]] = temp[c]]
    /\ temp' = [temp EXCEPT ![c] = NoFile]
    /\ UNCHANGED <<unit, now, build, seen, stamp, sawEnabled, systemdVars, historyVars>>

RenameUnit(c) ==
    /\ pc[c] = "write"
    /\ unit' = temp[c]
    /\ Exit(c)
    /\ UNCHANGED <<backups, now, systemdVars, historyVars>>

(* Faulty variant: what is not yet written is renamed.                     *)
RenameEarly(c) == temp[c] # NoFile /\ (RenameBackup(c) \/ RenameUnit(c))

RenameTemp(c) == temp[c] \notin {NoFile, Torn} /\ (RenameBackup(c) \/ RenameUnit(c))

--------------------------------------------------------------------------------
(* uninstall.                                                              *)

(* The unit is there and can be read. *)
Uninstall(c) ==
    /\ unit # NoFile
    /\ Step(c, "idle", "askEnabled")
    /\ UNCHANGED <<fileVars, build, seen, stamp, temp, sawEnabled, systemdVars, historyVars>>

AskEnabled(c) ==
    /\ Step(c, "askEnabled", "askActive")
    /\ \E answered \in BOOLEAN :
          /\ sawEnabled' = [sawEnabled EXCEPT ![c] = answered /\ enabled]
          /\ careless' = (careless \/ ~answered)
    /\ UNCHANGED <<fileVars, build, seen, stamp, temp, systemdVars, made, excused>>

(* Faulty variant: one of the two is enough to remove it.                  *)
AskActiveOnly(c) ==
    /\ pc[c] = "askActive"
    /\ \E answered \in BOOLEAN :
          /\ IF answered /\ service = "active" /\ sawEnabled[c]
             THEN Exit(c)
             ELSE /\ pc' = [pc EXCEPT ![c] = "remove"]
                  /\ UNCHANGED <<build, seen, stamp, temp, sawEnabled>>
          /\ careless' = (careless \/ ~answered \/ service = "starting")
    /\ UNCHANGED <<fileVars, systemdVars, made, excused>>

(* Enabled or active: refused.                                             *)
AskActive(c) ==
    /\ pc[c] = "askActive"
    /\ \E answered \in BOOLEAN :
          /\ IF sawEnabled[c] \/ (answered /\ service = "active")
             THEN Exit(c)
             ELSE /\ pc' = [pc EXCEPT ![c] = "remove"]
                  /\ UNCHANGED <<build, seen, stamp, temp, sawEnabled>>
          /\ careless' = (careless \/ ~answered \/ service = "starting")
    /\ UNCHANGED <<fileVars, systemdVars, made, excused>>

(* Remove fails if the file is gone.  Then systemd is told, or the user is. *)
Remove(c) ==
    /\ pc[c] = "remove"
    /\ unit' = NoFile
    /\ excused' = excused \cup EditsIn(unit)
    /\ Exit(c)
    /\ UNCHANGED <<backups, now, systemdVars, made, careless>>

(* A step fails and the command ends with the error, or it is killed.      *)
Fail(c) ==
    /\ pc[c] # "idle"
    /\ Exit(c)
    /\ UNCHANGED <<fileVars, systemdVars, historyVars>>

--------------------------------------------------------------------------------
(* The user, who works on the file and on the service.                     *)

(* Between a command's read of the unit and its replacement or removal.    *)
InHand(c) == pc[c] \in {"backup", "write", "askEnabled", "askActive", "remove"}
AboutToRemove(c) == pc[c] \in {"askActive", "remove"}

(* An edit takes a second at least.  One above the hash line is not told   *)
(* from the header, and one saved while a command has the file in hand may *)
(* not be seen: neither is install's to keep.                              *)
SaveEdit(e, f, kept) ==
    /\ e \notin made /\ now < Horizon
    /\ unit' = f /\ now' = now + 1
    /\ made' = made \cup {e}
    /\ excused' = IF kept /\ \A c \in Commands : ~InHand(c) THEN excused
                  ELSE excused \cup {e}
    /\ UNCHANGED <<backups, commandVars, systemdVars, careless>>

EditBelow(e) == /\ unit # NoFile
                /\ SaveEdit(e, [unit EXCEPT !.below = @ \cup {e}], TRUE)
EditAbove(e) == /\ unit # NoFile
                /\ SaveEdit(e, [unit EXCEPT !.above = @ \cup {e}], FALSE)
WriteOwnUnit(e) == /\ unit = NoFile
                   /\ SaveEdit(e, [text |-> Foreign, above |-> {}, below |-> {e}], TRUE)

SystemctlEnable ==
    /\ unit # NoFile /\ enabled' = ~enabled
    /\ careless' = (careless \/ (enabled' /\ \E c \in Commands : AboutToRemove(c)))
    /\ UNCHANGED <<fileVars, commandVars, service, made, excused>>

SystemctlStart ==
    /\ service = "inactive" /\ unit # NoFile
    /\ service' = "starting"
    /\ careless' = (careless \/ \E c \in Commands : pc[c] = "remove")
    /\ UNCHANGED <<fileVars, commandVars, enabled, made, excused>>

StartedUp ==
    /\ service = "starting" /\ service' = "active"
    /\ UNCHANGED <<fileVars, commandVars, enabled, historyVars>>

SystemctlStop ==
    /\ service # "inactive" /\ service' = "inactive"
    /\ UNCHANGED <<fileVars, commandVars, enabled, historyVars>>

InstallStep(c) == \/ ReadUpToDate(c) \/ ReadOther(c) \/ ReadNothing(c)
                  \/ CreateTemp(c) \/ WriteTemp(c) \/ RenameTemp(c)
UninstallStep(c) == AskEnabled(c) \/ AskActive(c) \/ Remove(c)

Next == \/ \E c \in Commands : \/ \E b \in Builds : Install(c, b)
                               \/ InstallStep(c) \/ Uninstall(c) \/ UninstallStep(c) \/ Fail(c)
        \/ \E e \in Edits : EditBelow(e) \/ EditAbove(e) \/ WriteOwnUnit(e)
        \/ SystemctlEnable \/ SystemctlStart \/ StartedUp \/ SystemctlStop

Spec == Init /\ [][Next]_vars

--------------------------------------------------------------------------------
(* Properties.                                                             *)

(* Each variable keeps to its range.  The unit and its backups are whole   *)
(* at every step, a command being killed in the middle of a WriteFile or   *)
(* not: only temporary files are ever torn.                                *)
TypeOK ==
    /\ unit \in Files \cup {NoFile}
    /\ backups \in [Seconds -> Files \cup {NoFile}] /\ now \in Seconds
    /\ pc \in [Commands -> {"idle", "read", "backup", "write", "askEnabled", "askActive", "remove"}]
    /\ build \in [Commands -> Builds \cup {Foreign}]
    /\ seen \in [Commands -> Files \cup {NoFile}]
    /\ stamp \in [Commands -> Seconds]
    /\ temp \in [Commands -> Files \cup {NoFile, Torn}]
    /\ sawEnabled \in [Commands -> BOOLEAN]
    /\ enabled \in BOOLEAN /\ service \in {"inactive", "starting", "active"}
    /\ made \subseteq Edits /\ excused \subseteq made
    /\ careless \in BOOLEAN

Kept == EditsIn(unit) \cup UNION {EditsIn(backups[s]) : s \in Seconds}

(* "A change here is saved as a .bak first": a change made by hand below   *)
(* the header is in the unit or in a backup, however many commands run at  *)
(* once, fail or are killed; the exceptions are an uninstall, a unit that  *)
(* could not be read, and a change that was saved while a command was      *)
(* between its read and its write.                                         *)
EditsKept == made \subseteq Kept \cup excused

(* The unit of a service that is enabled or active is not removed, unless, *)
(* while an uninstall looked, systemd did not answer or the service was on *)
(* its way up, or it was enabled or started behind the uninstall's back.   *)
InUseKept == (enabled \/ service = "active") /\ unit = NoFile => careless
================================================================================

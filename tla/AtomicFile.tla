------------------------------ MODULE AtomicFile -------------------------------
(***************************************************************************)
(* What src/internal/configstore/ConfigStore.go promises of a saved file:  *)
(* the file only ever goes from one whole value to another, in one step,   *)
(* and only to a value somebody is saving at that moment.  A process that  *)
(* is killed loses the saves in progress and nothing else; a loss of power *)
(* may also bring back a value that the file had before, whole as it was,  *)
(* if it was replaced so recently that this is not yet settled.            *)
(***************************************************************************)
EXTENDS Naturals

CONSTANTS Savers, Values, NoValue

VARIABLES file,     \* the value in the file, NoValue if there is none
          older,    \* the values replaced since everything was settled
          saving    \* saving[s]: the value s is saving, NoValue if none

fileVars == <<file, older, saving>>

Init == /\ file \in Values \cup {NoValue} /\ older = {}
        /\ saving = [s \in Savers |-> NoValue]

Begin(s) == /\ saving[s] = NoValue
            /\ \E v \in Values : saving' = [saving EXCEPT ![s] = v]
            /\ UNCHANGED <<file, older>>

(* The save takes effect ... *)
Commit(s) == /\ saving[s] # NoValue
             /\ file' = saving[s] /\ older' = older \cup {file}
             /\ saving' = [saving EXCEPT ![s] = NoValue]

(* ... or fails. *)
Abort(s) == /\ saving[s] # NoValue
            /\ saving' = [saving EXCEPT ![s] = NoValue]
            /\ UNCHANGED <<file, older>>

Settle == older' = {} /\ UNCHANGED <<file, saving>>

Crash == /\ saving' = [s \in Savers |-> NoValue]
         /\ \/ UNCHANGED <<file, older>>
            \/ file' \in older \cup {file} /\ older' = {}

Next == Crash \/ Settle \/ \E s \in Savers : Begin(s) \/ Commit(s) \/ Abort(s)

Spec == Init /\ [][Next]_fileVars
================================================================================

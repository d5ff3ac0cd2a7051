----------------------------- MODULE MCLogSettings -----------------------------
(* Instances of LogSettings for TLC: a component "core" and a part of it;  *)
(* two levels; two goroutines that change levels.                          *)
EXTENDS LogSettings

CONSTANTS core, bus, warn, debug, s1, s2

TwoNames == {core, bus}
ParentOf == [n \in Names |-> IF n = core THEN Root ELSE core]
TwoLevels == {warn, debug}
TwoSavers == {s1, s2}
================================================================================

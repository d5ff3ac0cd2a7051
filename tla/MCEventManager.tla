---------------------------- MODULE MCEventManager -----------------------------
(* Instances of EventManager for TLC: one or two plugins, one goroutine    *)
(* that belongs to no runner, two registrations, two events, one removal.  *)
EXTENDS EventManager

CONSTANTS p1, p2, o1

TwoPlugins == {p1, p2}
OnePlugin == {p1}
OneOther == {o1}
NoOthers == {}
================================================================================

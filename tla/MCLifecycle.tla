------------------------------ MODULE MCLifecycle ------------------------------
(* Three plugins, two stop callbacks each, two requests at once: the       *)
(* constants are numbers, so the cfg gives them their values.              *)
EXTENDS Lifecycle
================================================================================

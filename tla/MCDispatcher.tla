----------------------------- MODULE MCDispatcher ------------------------------
(* An instance of Dispatcher for TLC: two goroutines that call Dispatch    *)
(* twice each, batches that fill the channel, and a server goroutine       *)
(* whose callbacks do not call it.                                         *)
EXTENDS Dispatcher

CONSTANTS c1, c2, srv

MCCallers == {c1, c2}
CallsFromOutside == [t \in {c1, c2, srv} |-> IF t = srv THEN 0 ELSE 2]
================================================================================

----------------------------- MODULE MCPluginCalls -----------------------------
(* An instance of PluginCalls for TLC: the second of two plugins uses the  *)
(* first; predicates of the entity manager use the first too; a page uses  *)
(* both.  The first calls the event manager only.                          *)
EXTENDS PluginCalls

CONSTANT page

Pages == {page}
Uses == {<<2, 1>>, <<2, Entities>>, <<2, Events>>, <<1, Events>>, <<Entities, 1>>,
         <<page, 1>>, <<page, 2>>, <<page, Entities>>}
================================================================================

--------------------------- MODULE MCEntityRegistry ----------------------------
(* Instances of EntityRegistry for TLC: two ids and two goroutines, each   *)
(* with an id of its own, or one id that both of them work on.             *)
EXTENDS EntityRegistry

CONSTANTS e1, e2, t1, t2, r1

TwoIds == {e1, e2}
OneId == {e1}
TwoThreads == {t1, t2}
OneReader == {r1}
IdOfItsOwn == [t \in {t1, t2} |-> IF t = t1 THEN {e1} ELSE {e2}]
SameId == [t \in {t1, t2} |-> {e1}]
================================================================================

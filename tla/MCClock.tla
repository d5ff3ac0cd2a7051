-------------------------------- MODULE MCClock --------------------------------
(* An instance of Clock for TLC: two minutes to the hour, two hours to the *)
(* day, two days to the month and two months to the year, which changes at *)
(* minute 13.  Hours do not begin on the hour in absolute time, and at     *)
(* minute 7 the zone goes back an hour: the hour just past comes again.    *)
EXTENDS Clock

SummerTimeEnds == [m \in Minutes |-> IF m < 7 THEN 5 ELSE 3]
================================================================================

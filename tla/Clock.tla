--------------------------------- MODULE Clock ---------------------------------
(***************************************************************************)
(* The clock plugin: src/internal/clock/driver.go, which turns the passing *)
(* of time into events, and src/internal/clock/plugin.go, which starts the *)
(* driver in a goroutine of its own and stops it.                          *)
(*                                                                         *)
(* Time is counted in minutes of absolute time.  The calendar is a small   *)
(* one (PerHour minutes, PerDay hours, ...) in a zone whose offset may     *)
(* change, as it does when summer time ends.  The wall clock runs, and is  *)
(* set forward and back, while the driver waits and while it broadcasts.   *)
(***************************************************************************)
EXTENDS Integers, Sequences

CONSTANTS PerHour, PerDay, PerMonth, PerYear,  \* minutes, hours, days, months
          Offset,         \* Offset[m]: local minus absolute time, at minute m
          Horizon,        \* bound: the minutes 0..Horizon
          MaxAdjustments  \* bound: how often the clock is set

Minutes == 0..Horizon

ASSUME ClockAssumption ==
    /\ PerHour \in Nat \ {0} /\ PerDay \in Nat \ {0}
    /\ PerMonth \in Nat \ {0} /\ PerYear \in Nat \ {0}
    /\ Horizon \in Nat /\ Offset \in [Minutes -> Nat] /\ MaxAdjustments \in Nat

Local(m) == m + Offset[m]
Day(m) == (Local(m) \div (PerHour * PerDay))
Month(m) == Day(m) \div PerMonth
Year(m) == Month(m) \div PerYear

(* time.Time's Day and Month are those within the month and the year.      *)
DayOfMonth(m) == Day(m) % PerMonth
MonthOfYear(m) == Month(m) % PerYear

VARIABLES
    now,         \* the wall clock
    pc,          \* the driver: "new", "waiting", "broadcasting", "finished"
    last,        \* run's last
    target,      \* the minute being broadcast
    pending,     \* the events of broadcastChanges still to be emitted
    cancelled,   \* the driver's context is cancelled
    stopCh,      \* the channel Stop returned: "none", "open", "closed"
    known,       \* a listener: the year, month, day and hour it was last told
    announced,   \* history: the minute of the latest MinuteChangedEvent, -1 if none
    setBack,     \* history: the driver has found the clock set back
    adjusted     \* history: how often the clock was set

driverVars == <<pc, last, target, pending>>
listenerVars == <<known, announced>>
vars == <<now, driverVars, cancelled, stopCh, listenerVars, setBack, adjusted>>

(* What a wall calendar and clock show at m; the two hours of the same     *)
(* name, when a zone goes back, are told apart by their offset.            *)
Shown(m) == [year |-> Year(m), month |-> Month(m), day |-> Day(m),
             hour |-> <<Local(m) \div PerHour, Offset[m]>>]

Init ==
    /\ now \in Minutes
    /\ pc = "new" /\ last = now /\ target = now /\ pending = <<>>
    /\ cancelled = FALSE /\ stopCh = "none"
    /\ known = Shown(now) /\ announced = -1
    /\ setBack = FALSE /\ adjusted = 0

(* startOfHour: worked out from the minute of the hour.                    *)
StartOfHour(m) == m - (Local(m) % PerHour)

(* Faulty variant: the minute is news only if the hour is the same.        *)
MinuteWithinHour(p, c) == IF StartOfHour(p) = StartOfHour(c) THEN <<"minute">> ELSE <<>>

(* Faulty variant: the fields are compared without the larger ones.        *)
ChangesByField(p, c) ==
    LET If(same, unit) == IF same THEN <<>> ELSE <<unit>>
    IN If(Year(p) = Year(c), "year") \o If(MonthOfYear(p) = MonthOfYear(c), "month")
         \o If(DayOfMonth(p) = DayOfMonth(c), "day")
         \o If(StartOfHour(p) = StartOfHour(c), "hour") \o <<"minute">>

(* Faulty variant: the smallest change first. *)
SmallestFirst(p, c) ==
    LET If(same, unit) == IF same THEN <<>> ELSE <<unit>>
    IN If(StartOfHour(p) = StartOfHour(c), "hour") \o If(Day(p) = Day(c), "day")
         \o If(Month(p) = Month(c), "month") \o If(Year(p) = Year(c), "year")
         \o <<"minute">>

(* broadcastChanges: the units that changed, the largest first.            *)
Changes(p, c) ==
    LET sameYear == Year(p) = Year(c)
        sameMonth == sameYear /\ MonthOfYear(p) = MonthOfYear(c)
        sameDay == sameMonth /\ DayOfMonth(p) = DayOfMonth(c)
        sameHour == sameDay /\ StartOfHour(p) = StartOfHour(c)
        If(same, unit) == IF same THEN <<>> ELSE <<unit>>
    IN If(sameYear, "year") \o If(sameMonth, "month") \o If(sameDay, "day")
         \o If(sameHour, "hour") \o <<"minute">>

(* Plugin.Start; run takes the minute it starts in as its baseline.        *)
Start ==
    /\ pc = "new"
    /\ pc' = "waiting" /\ last' = now
    /\ known' = Shown(now)
    /\ UNCHANGED <<now, target, pending, cancelled, stopCh, announced, setBack, adjusted>>

(* Faulty variant: a clock that was set back is like any other change.     *)
WakeOnAnyChange ==
    /\ pc = "waiting" /\ ~cancelled
    /\ IF now # last
       THEN pc' = "broadcasting" /\ target' = now /\ pending' = Changes(last, now)
       ELSE UNCHANGED <<pc, target, pending>>
    /\ UNCHANGED <<now, last, cancelled, stopCh, listenerVars, setBack, adjusted>>

(* wait returns true: the timer fired, on time, early or late.             *)
Wake ==
    /\ pc = "waiting" /\ ~cancelled
    /\ IF now > last
       THEN pc' = "broadcasting" /\ target' = now /\ pending' = Changes(last, now)
       ELSE UNCHANGED <<pc, target, pending>>
    /\ last' = IF now < last THEN now ELSE last
    /\ setBack' = (setBack \/ now < last)
    /\ UNCHANGED <<now, cancelled, stopCh, listenerVars, adjusted>>

(* emit, and what a listener makes of it.  After the last event of a       *)
(* change, run remembers the minute and waits again.                       *)
Emit ==
    /\ pc = "broadcasting"
    /\ LET unit == Head(pending) IN
          IF unit = "minute"
          THEN announced' = target /\ UNCHANGED known
          ELSE known' = [known EXCEPT ![unit] = Shown(target)[unit]] /\ UNCHANGED announced
    /\ pending' = Tail(pending)
    /\ IF Len(pending) = 1 THEN pc' = "waiting" /\ last' = target ELSE UNCHANGED <<pc, last>>
    /\ UNCHANGED <<now, target, cancelled, stopCh, setBack, adjusted>>

(* wait returns false: run returns.                                        *)
Finish ==
    /\ pc = "waiting" /\ cancelled
    /\ pc' = "finished"
    /\ UNCHANGED <<now, last, target, pending, cancelled, stopCh, listenerVars, setBack, adjusted>>

(* Plugin.Stop, and the goroutine that closes its channel.                 *)
Stop ==
    /\ pc # "new" /\ stopCh = "none"
    /\ cancelled' = TRUE /\ stopCh' = "open"
    /\ UNCHANGED <<now, driverVars, listenerVars, setBack, adjusted>>

(* Faulty variant: the channel is closed without waiting for the driver.   *)
CloseWithoutWaiting ==
    /\ stopCh = "open"
    /\ stopCh' = "closed"
    /\ UNCHANGED <<now, driverVars, cancelled, listenerVars, setBack, adjusted>>

CloseStopCh ==
    /\ stopCh = "open" /\ pc = "finished"
    /\ stopCh' = "closed"
    /\ UNCHANGED <<now, driverVars, cancelled, listenerVars, setBack, adjusted>>

(* The wall clock. *)
Tick ==
    /\ now < Horizon
    /\ now' = now + 1
    /\ UNCHANGED <<driverVars, cancelled, stopCh, listenerVars, setBack, adjusted>>

SetClock ==
    /\ adjusted < MaxAdjustments
    /\ now' \in Minutes \ {now}
    /\ adjusted' = adjusted + 1
    /\ UNCHANGED <<driverVars, cancelled, stopCh, listenerVars, setBack>>

Driver == Wake \/ Emit \/ Finish

Next == \/ Start \/ Driver \/ Stop \/ CloseStopCh \/ Tick \/ SetClock
        \/ stopCh = "closed" /\ UNCHANGED vars

Spec == Init /\ [][Next]_vars

--------------------------------------------------------------------------------
(* Properties.                                                             *)

(* Each variable keeps to its range. *)
TypeOK ==
    /\ now \in Minutes /\ last \in Minutes /\ target \in Minutes
    /\ pc \in {"new", "waiting", "broadcasting", "finished"}
    /\ pending \in Seq({"year", "month", "day", "hour", "minute"})
    /\ (pending # <<>>) = (pc = "broadcasting")
    /\ cancelled \in BOOLEAN /\ stopCh \in {"none", "open", "closed"}
    /\ announced \in Minutes \cup {-1} /\ setBack \in BOOLEAN
    /\ adjusted \in 0..MaxAdjustments

(* A listener that only believes the events always shows the right year,   *)
(* month, day and hour, whatever minutes were skipped and however the      *)
(* zone's offset changed, as long as the clock was not set back.           *)
ListenerAgrees == pc \in {"waiting", "finished"} /\ ~setBack => known = Shown(last)

(* The largest change comes first: whoever acts on an event about a unit   *)
(* has been told already of every larger unit that changed with it.        *)
Units == <<"year", "month", "day", "hour">>
LargestFirst ==
    pc = "broadcasting" /\ ~setBack =>
        \A i, j \in DOMAIN Units :
            i < j /\ Units[j] \notin {pending[k] : k \in DOMAIN pending}
                  /\ known[Units[j]] # Shown(last)[Units[j]]
                => known[Units[i]] = Shown(target)[Units[i]]

(* No minute is announced twice, or after a later one, unless the clock    *)
(* was set back: the event that ends a change is always news.              *)
MinutesIncrease ==
    [][pending # <<>> /\ pending' = <<>> => announced' > announced \/ setBack]_vars

(* Once the channel Stop returned is closed the plugin broadcasts nothing: *)
(* the server may take its runner down.                                    *)
SilentWhenStopped == [][stopCh = "closed" => UNCHANGED listenerVars]_vars
================================================================================

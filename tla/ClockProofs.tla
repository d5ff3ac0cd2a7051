------------------------------ MODULE ClockProofs ------------------------------
(***************************************************************************)
(* What Clock guarantees for any calendar, any offsets of the zone, any    *)
(* number of minutes and however often the wall clock is set.              *)
(***************************************************************************)
EXTENDS Clock, SequenceTheorems, TLAPS

AllUnits == {"year", "month", "day", "hour", "minute"}
Larger == {"year", "month", "day", "hour"}
Rank == [year |-> 1, month |-> 2, day |-> 3, hour |-> 4, minute |-> 5]

LEMMA Ranks == /\ Rank["year"] = 1 /\ Rank["month"] = 2 /\ Rank["day"] = 3
               /\ Rank["hour"] = 4 /\ Rank["minute"] = 5
BY DEF Rank

(* How the events of a change are arranged, and which there are.           *)
Sorted(s) == \A a, b \in 1..Len(s) : a < b => Rank[s[a]] < Rank[s[b]]
UpTo(s, r) == \A k \in 1..Len(s) : Rank[s[k]] <= r
Has(s, u) == \E k \in 1..Len(s) : s[k] = u

(* A larger rank at the end keeps the order.                               *)
LEMMA AtTheEnd ==
    ASSUME NEW s \in Seq(AllUnits), NEW t \in Seq(AllUnits), NEW u \in AllUnits, NEW r \in Nat,
           Len(t) = Len(s) + 1, \A k \in 1..Len(s) : t[k] = s[k], t[Len(s) + 1] = u,
           Rank[u] = r + 1, Sorted(s), UpTo(s, r)
    PROVE  /\ Sorted(t) /\ UpTo(t, r + 1) /\ Has(t, u)
           /\ \A x \in AllUnits : Has(s, x) => Has(t, x)
<1>1. /\ Len(s) \in Nat
      /\ \A k \in 1..Len(t) : k \in 1..Len(s) \/ k = Len(s) + 1
      /\ \A k \in 1..Len(s) : k \in 1..Len(t)
      /\ Len(s) + 1 \in 1..Len(t)
  OBVIOUS
<1>2. \A k \in 1..Len(s) : Rank[s[k]] \in Nat /\ Rank[s[k]] <= r
  <2>1. \A x \in AllUnits : Rank[x] \in Nat
    BY Ranks DEF AllUnits
  <2>2. \A k \in 1..Len(s) : s[k] \in AllUnits
    BY ElementOfSeq
  <2> QED
    BY <2>1, <2>2 DEF UpTo
<1>3. UpTo(t, r + 1)
  BY <1>1, <1>2 DEF UpTo
<1>4. Sorted(t)
  <2> SUFFICES ASSUME NEW a \in 1..Len(t), NEW b \in 1..Len(t), a < b
               PROVE  Rank[t[a]] < Rank[t[b]]
    BY DEF Sorted
  <2>1. a \in 1..Len(s) /\ (b \in 1..Len(s) \/ b = Len(s) + 1)
    BY <1>1
  <2>2. CASE b \in 1..Len(s)
    BY <2>1, <2>2 DEF Sorted
  <2>3. CASE b = Len(s) + 1
    <3>1. t[a] = s[a] /\ t[b] = u
      BY <2>1, <2>3
    <3> QED
      BY <1>2, <2>1, <3>1
  <2> QED
    BY <2>1, <2>2, <2>3
<1>5. Has(t, u)
  BY <1>1 DEF Has
<1>6. \A x \in AllUnits : Has(s, x) => Has(t, x)
  BY <1>1 DEF Has
<1> QED
  BY <1>3, <1>4, <1>5, <1>6

(* One more unit, if it has changed, goes behind the larger ones.          *)
LEMMA OneMore ==
    ASSUME NEW s \in Seq(AllUnits), NEW u \in AllUnits, NEW r \in Nat,
           Rank[u] = r + 1, Sorted(s), UpTo(s, r), NEW same \in BOOLEAN
    PROVE  LET t == s \o (IF same THEN <<>> ELSE <<u>>)
           IN  /\ t \in Seq(AllUnits) /\ Sorted(t) /\ UpTo(t, r + 1)
               /\ \A x \in AllUnits : Has(s, x) => Has(t, x)
               /\ ~same => Has(t, u)
<1> DEFINE t == s \o (IF same THEN <<>> ELSE <<u>>)
<1>1. CASE same
  <2>1. t = s
    BY <1>1, ConcatEmptySeq
  <2>2. UpTo(s, r + 1)
    <3>1. \A x \in AllUnits : Rank[x] \in Nat
      BY Ranks DEF AllUnits
    <3>2. \A k \in 1..Len(s) : s[k] \in AllUnits
      BY ElementOfSeq
    <3> QED
      BY <3>1, <3>2 DEF UpTo
  <2> QED
    BY <1>1, <2>1, <2>2
<1>2. CASE ~same
  <2> DEFINE v == <<u>>
  <2>1. t = s \o v
    BY <1>2
  <2>2. v \in Seq(AllUnits) /\ Len(v) = 1 /\ v[1] = u
    OBVIOUS
  <2> HIDE DEF v, t
  <2>3. /\ t \in Seq(AllUnits) /\ Len(t) = Len(s) + Len(v)
        /\ \A i \in 1..Len(s) + Len(v) : t[i] = IF i <= Len(s) THEN s[i] ELSE v[i - Len(s)]
    BY <2>1, <2>2, ConcatProperties
  <2>4. /\ Len(t) = Len(s) + 1 /\ t[Len(s) + 1] = u
        /\ \A k \in 1..Len(s) : t[k] = s[k]
    BY <2>2, <2>3
  <2>5. /\ Sorted(t) /\ UpTo(t, r + 1) /\ Has(t, u)
        /\ \A x \in AllUnits : Has(s, x) => Has(t, x)
    BY <2>3, <2>4, AtTheEnd
  <2> QED
    BY <1>2, <2>3, <2>5 DEF t
<1> QED
  BY <1>1, <1>2

USE ClockAssumption DEF ClockAssumption

(* The hour is not told apart by its name only, as the offsets of a zone   *)
(* change at the full hour: minutes of the same hour have the same offset. *)
OffsetsChangeOnTheHour ==
    \A p, c \in Minutes : StartOfHour(p) = StartOfHour(c) => Offset[p] = Offset[c]

(* What broadcastChanges emits: units the largest first, the minute at the *)
(* end, and every unit that shows something else.                          *)
LEMMA ChangesAre ==
    ASSUME NEW p \in Minutes, NEW c \in Minutes, NEW s, s = Changes(p, c)
    PROVE  /\ s \in Seq(AllUnits) /\ Sorted(s) /\ Has(s, "minute")
           /\ OffsetsChangeOnTheHour
                => \A u \in Larger : Has(s, u) \/ Shown(p)[u] = Shown(c)[u]
<1> DEFINE sameYear == Year(p) = Year(c)
           sameMonth == sameYear /\ MonthOfYear(p) = MonthOfYear(c)
           sameDay == sameMonth /\ DayOfMonth(p) = DayOfMonth(c)
           sameHour == sameDay /\ StartOfHour(p) = StartOfHour(c)
           one == IF sameYear THEN <<>> ELSE <<"year">>
           two == one \o IF sameMonth THEN <<>> ELSE <<"month">>
           three == two \o IF sameDay THEN <<>> ELSE <<"day">>
           four == three \o IF sameHour THEN <<>> ELSE <<"hour">>
           five == four \o <<"minute">>
<1>1. s = five
  BY DEF Changes
<1>2. /\ sameYear \in BOOLEAN /\ sameMonth \in BOOLEAN /\ sameDay \in BOOLEAN
      /\ sameHour \in BOOLEAN
  OBVIOUS
<1>3. /\ "year" \in AllUnits /\ "month" \in AllUnits /\ "day" \in AllUnits
      /\ "hour" \in AllUnits /\ "minute" \in AllUnits
  BY DEF AllUnits
<1> HIDE DEF sameYear, sameMonth, sameDay, sameHour
<1>4. /\ one \in Seq(AllUnits) /\ Sorted(one) /\ UpTo(one, 1)
      /\ ~sameYear => Has(one, "year")
  <2>1. CASE sameYear
    <3>1. one = <<>> /\ Len(one) = 0 /\ one \in Seq(AllUnits)
      BY <2>1
    <3> HIDE DEF one
    <3> QED
      BY <2>1, <3>1 DEF Sorted, UpTo
  <2>2. CASE ~sameYear
    <3>1. one = <<"year">> /\ Len(one) = 1 /\ one[1] = "year" /\ one \in Seq(AllUnits)
      BY <1>3, <2>2
    <3> HIDE DEF one
    <3> QED
      BY <3>1, Ranks DEF Sorted, UpTo, Has
  <2> QED
    BY <2>1, <2>2
<1> HIDE DEF one
<1>5. /\ two \in Seq(AllUnits) /\ Sorted(two) /\ UpTo(two, 2)
      /\ \A x \in AllUnits : Has(one, x) => Has(two, x)
      /\ ~sameMonth => Has(two, "month")
  <2>1. two = one \o (IF sameMonth THEN <<>> ELSE <<"month">>)
    OBVIOUS
  <2>2. Rank["month"] = 1 + 1
    BY Ranks
  <2> HIDE DEF two
  <2> QED
    BY <1>2, <1>3, <1>4, <2>1, <2>2, OneMore
<1> HIDE DEF two
<1>6. /\ three \in Seq(AllUnits) /\ Sorted(three) /\ UpTo(three, 3)
      /\ \A x \in AllUnits : Has(two, x) => Has(three, x)
      /\ ~sameDay => Has(three, "day")
  <2>1. three = two \o (IF sameDay THEN <<>> ELSE <<"day">>)
    OBVIOUS
  <2>2. Rank["day"] = 2 + 1
    BY Ranks
  <2> HIDE DEF three
  <2> QED
    BY <1>2, <1>3, <1>5, <2>1, <2>2, OneMore
<1> HIDE DEF three
<1>7. /\ four \in Seq(AllUnits) /\ Sorted(four) /\ UpTo(four, 4)
      /\ \A x \in AllUnits : Has(three, x) => Has(four, x)
      /\ ~sameHour => Has(four, "hour")
  <2>1. four = three \o (IF sameHour THEN <<>> ELSE <<"hour">>)
    OBVIOUS
  <2>2. Rank["hour"] = 3 + 1
    BY Ranks
  <2> HIDE DEF four
  <2> QED
    BY <1>2, <1>3, <1>6, <2>1, <2>2, OneMore
<1> HIDE DEF four
<1>8. /\ five \in Seq(AllUnits) /\ Sorted(five) /\ UpTo(five, 5)
      /\ \A x \in AllUnits : Has(four, x) => Has(five, x)
      /\ Has(five, "minute")
  <2> DEFINE no == FALSE
  <2>1. five = four \o (IF no THEN <<>> ELSE <<"minute">>)
    OBVIOUS
  <2>2. Rank["minute"] = 4 + 1
    BY Ranks
  <2>3. no \in BOOLEAN /\ ~no
    OBVIOUS
  <2> HIDE DEF five, no
  <2> QED
    BY <1>2, <1>3, <1>7, <2>1, <2>2, <2>3, OneMore
<1> HIDE DEF five
<1>9. /\ ~sameYear => Has(five, "year")
      /\ ~sameMonth => Has(five, "month")
      /\ ~sameDay => Has(five, "day")
      /\ ~sameHour => Has(five, "hour")
  BY <1>3, <1>4, <1>5, <1>6, <1>7, <1>8
<1>10. ASSUME OffsetsChangeOnTheHour, NEW u \in Larger, ~Has(five, u)
      PROVE  Shown(p)[u] = Shown(c)[u]
  <2>1. Local(p) \in Int /\ Local(c) \in Int /\ p \in Int /\ c \in Int
        /\ Offset[p] \in Int /\ Offset[c] \in Int
    BY DEF Local, Minutes
  <2>2. PerHour * PerDay \in Nat \ {0}
    <3>1. \A a, b \in Nat \ {0} : a * b \in Nat \ {0}
      BY SMT
    <3> QED
      BY <3>1
  <2>3. Day(p) \in Int /\ Day(c) \in Int
    BY <2>1, <2>2 DEF Day
  <2>4. Month(p) \in Int /\ Month(c) \in Int
    BY <2>3 DEF Month
  <2>5. ASSUME NEW n \in Nat \ {0}, NEW a \in Int, NEW b \in Int,
               a \div n = b \div n, a % n = b % n
        PROVE  a = b
    BY <2>5, SMT
  <2>6. sameMonth => Month(p) = Month(c)
    BY <2>4, <2>5 DEF sameMonth, sameYear, Year, MonthOfYear
  <2>7. sameDay => Day(p) = Day(c)
    BY <2>3, <2>5, <2>6 DEF sameDay, Month, DayOfMonth
  <2>8. sameHour => /\ Offset[p] = Offset[c]
                    /\ Local(p) \div PerHour = Local(c) \div PerHour
    <3> SUFFICES ASSUME sameHour
                 PROVE  /\ Offset[p] = Offset[c]
                        /\ Local(p) \div PerHour = Local(c) \div PerHour
      OBVIOUS
    <3>1. StartOfHour(p) = StartOfHour(c)
      BY DEF sameHour
    <3>2. Offset[p] = Offset[c]
      BY <1>10, <3>1 DEF OffsetsChangeOnTheHour
    <3> DEFINE o == Offset[p]
    <3>3. /\ Local(p) = p + o /\ Local(c) = c + o
          /\ p - ((p + o) % PerHour) = c - ((c + o) % PerHour)
      BY <3>1, <3>2 DEF StartOfHour, Local
    <3>4. o \in Int
      BY <2>1
    <3> HIDE DEF o
    <3>5. (p + o) \div PerHour = (c + o) \div PerHour
      BY <2>1, <3>3, <3>4
    <3> QED
      BY <3>2, <3>3, <3>5
  <2>9. CASE u = "year"
    BY <1>9, <1>10, <2>9 DEF Shown, sameYear
  <2>10. CASE u = "month"
    BY <1>9, <1>10, <2>6, <2>10 DEF Shown
  <2>11. CASE u = "day"
    BY <1>9, <1>10, <2>7, <2>11 DEF Shown
  <2>12. CASE u = "hour"
    BY <1>9, <1>10, <2>8, <2>12 DEF Shown
  <2> QED
    BY <2>9, <2>10, <2>11, <2>12 DEF Larger
<1> QED
  BY <1>1, <1>8, <1>10
(* What emitting the first of the pending events leaves.                   *)
LEMMA Emitted ==
    ASSUME NEW s \in Seq(AllUnits), Sorted(s), Has(s, "minute")
    PROVE  /\ s # <<>> /\ Head(s) \in AllUnits
           /\ Tail(s) \in Seq(AllUnits) /\ Sorted(Tail(s))
           /\ Len(s) = 1 <=> Tail(s) = <<>>
           /\ Head(s) = "minute" <=> Len(s) = 1
           /\ Len(s) # 1 => Has(Tail(s), "minute")
           /\ \A u \in AllUnits : Has(s, u) /\ u # Head(s) => Has(Tail(s), u)
           /\ \A u \in AllUnits : Has(Tail(s), u) => Has(s, u) /\ Rank[Head(s)] < Rank[u]
<1>1. /\ s # <<>> /\ Len(s) \in Nat \ {0} /\ Head(s) = s[1]
  BY DEF Has
<1>2. /\ Head(s) \in AllUnits /\ Tail(s) \in Seq(AllUnits) /\ Len(Tail(s)) = Len(s) - 1
      /\ \A i \in 1..Len(Tail(s)) : Tail(s)[i] = s[i + 1]
  BY <1>1, HeadTailProperties
<1> DEFINE t == Tail(s)
<1>3. /\ t \in Seq(AllUnits) /\ Len(t) = Len(s) - 1
      /\ \A i \in 1..Len(t) : t[i] = s[i + 1] /\ i + 1 \in 1..Len(s)
      /\ \A k \in 1..Len(s) : k # 1 => k - 1 \in 1..Len(t) /\ s[k] = t[k - 1]
  BY <1>1, <1>2
<1> HIDE DEF t
<1>4. \A a \in AllUnits : Rank[a] \in 1..5 /\ (Rank[a] = 5 <=> a = "minute")
  BY Ranks DEF AllUnits
<1>5. \A k \in 1..Len(s) : s[k] \in AllUnits
  BY ElementOfSeq
<1>6. \A k \in 1..Len(s) : k # 1 => Rank[s[1]] < Rank[s[k]]
  BY <1>1 DEF Sorted
<1>7. Sorted(t)
  BY <1>3 DEF Sorted
<1>8. Len(s) = 1 <=> t = <<>>
  <2>1. t = <<>> <=> Len(t) = 0
    BY <1>3, EmptySeq
  <2> QED
    BY <1>1, <1>3, <2>1
<1>9. \A u \in AllUnits : Has(s, u) /\ u # s[1] => Has(t, u)
  BY <1>3 DEF Has
<1>10. \A u \in AllUnits : Has(t, u) => Has(s, u) /\ Rank[s[1]] < Rank[u]
  <2> SUFFICES ASSUME NEW i \in 1..Len(t) PROVE Has(s, t[i]) /\ Rank[s[1]] < Rank[t[i]]
    BY DEF Has
  <2>1. t[i] = s[i + 1] /\ i + 1 \in 1..Len(s) /\ i + 1 # 1
    BY <1>3
  <2> QED
    BY <1>6, <2>1 DEF Has
<1>11. s[1] = "minute" => Len(s) = 1
  <2> SUFFICES ASSUME s[1] = "minute", Len(s) # 1 PROVE FALSE
    OBVIOUS
  <2> DEFINE n == Len(s)
  <2>0. n \in Nat \ {0} /\ n # 1
    BY <1>1
  <2> HIDE DEF n
  <2>1. 2 \in 1..n
    BY <2>0
  <2>2. Rank[s[1]] < Rank[s[2]] /\ s[2] \in AllUnits
    BY <1>5, <1>6, <2>1 DEF n
  <2>3. Rank[s[2]] \in 1..5 /\ Rank[s[1]] = 5
    BY <1>4, <2>2, Ranks
  <2> QED
    BY <2>2, <2>3
<1>12. Len(s) = 1 => s[1] = "minute"
  BY DEF Has
<1>13. "minute" \in AllUnits
  BY DEF AllUnits
<1>14. Len(s) # 1 => Has(t, "minute")
  BY <1>9, <1>11, <1>13
<1> QED
  BY <1>1, <1>2, <1>7, <1>8, <1>9, <1>10, <1>11, <1>12, <1>14 DEF t

--------------------------------------------------------------------------------
(* The types, in parts, with the order of the events still to come.        *)
Times == /\ now \in Minutes /\ last \in Minutes /\ target \in Minutes
         /\ announced \in Minutes \cup {-1} /\ adjusted \in 0..MaxAdjustments
Phases == /\ pc \in {"new", "waiting", "broadcasting", "finished"}
          /\ stopCh \in {"none", "open", "closed"}
Flags == cancelled \in BOOLEAN /\ setBack \in BOOLEAN
ToCome == /\ pending \in Seq(AllUnits) /\ Sorted(pending)
          /\ pc = "broadcasting" => Has(pending, "minute")
          /\ pc # "broadcasting" => pending = <<>>

(* The minute being broadcast is later than the last, and what was         *)
(* announced is not, but for a clock that was set back.                    *)
Later == /\ pc = "new" => announced = -1
         /\ pc = "broadcasting" => target > last
         /\ ~setBack => announced <= last

Silent == stopCh = "closed" => pc = "finished"

TypeInv == Times /\ Phases /\ Flags /\ ToCome /\ Later /\ Silent

(* A change begins with what broadcastChanges puts together, and goes on   *)
(* event by event.                                                         *)
LEMMA TypeInvHolds == Spec => []TypeInv
<1>1. Init => TypeInv
  <2> SUFFICES ASSUME Init PROVE TypeInv
    OBVIOUS
  <2>1. Times
    BY DEF Init, Times
  <2>2. Phases /\ Flags /\ Silent
    BY DEF Init, Phases, Flags, Silent
  <2>3. ToCome
    <3>1. pending = <<>> /\ Len(pending) = 0 /\ pending \in Seq(AllUnits) /\ pc = "new"
      BY DEF Init
    <3> QED
      BY <3>1 DEF ToCome, Sorted
  <2>4. Later
    BY DEF Init, Later, Minutes
  <2> QED
    BY <2>1, <2>2, <2>3, <2>4 DEF TypeInv
<1>2. TypeInv /\ [Next]_vars => TypeInv'
  <2> SUFFICES ASSUME TypeInv, [Next]_vars PROVE TypeInv'
    OBVIOUS
  <2> USE DEF TypeInv
  <2>1. CASE Start
    <3>1. Times' /\ Later'
      BY <2>1 DEF Start, Times, Later, Phases, Minutes
    <3>2. Phases' /\ Flags' /\ Silent' /\ ToCome'
      BY <2>1 DEF Start, Phases, Flags, Silent, ToCome
    <3> QED
      BY <3>1, <3>2
  <2>2. CASE Wake
    <3>1. Times' /\ Later'
      <4>1. /\ now < last => setBack'
            /\ ~setBack' => ~setBack
        <5>1. setBack' = (setBack \/ now < last)
          BY <2>2 DEF Wake
        <5> QED
          BY <5>1, Zenon
      <4>2. /\ pc = "waiting"
            /\ now > last => pc' = "broadcasting" /\ target' = now
            /\ ~(now > last) => pc' = "waiting" /\ target' = target
            /\ now < last => last' = now
            /\ ~(now < last) => last' = last
            /\ now' = now /\ announced' = announced /\ adjusted' = adjusted
        BY <2>2 DEF Wake, listenerVars
      <4>3. Times'
        BY <4>2 DEF Times
      <4>4. Later'
        BY <4>1, <4>2 DEF Times, Later, Minutes
      <4> QED
        BY <4>3, <4>4
    <3>2. Phases' /\ Silent'
      BY <2>2 DEF Wake, Phases, Silent
    <3>3. Flags'
      BY <2>2, Zenon DEF Wake, Flags
    <3>4. ToCome'
      <4>1. CASE now > last
        <5>1. /\ pc' = "broadcasting" /\ pending' = Changes(last, now)
              /\ last \in Minutes /\ now \in Minutes
          BY <2>2, <4>1 DEF Wake, Times
        <5>2. pending' \in Seq(AllUnits) /\ Sorted(pending') /\ Has(pending', "minute")
          BY <5>1, ChangesAre
        <5> QED
          BY <5>1, <5>2 DEF ToCome
      <4>2. CASE ~(now > last)
        BY <2>2, <4>2 DEF Wake, ToCome
      <4> QED
        BY <4>1, <4>2
    <3> QED
      BY <3>1, <3>2, <3>3, <3>4
  <2>3. CASE Emit
    <3> DEFINE s == pending
    <3>1. /\ pc = "broadcasting" /\ pending' = Tail(pending)
          /\ s \in Seq(AllUnits) /\ Sorted(s) /\ Has(s, "minute")
      BY <2>3 DEF Emit, ToCome
    <3>2. /\ Tail(s) \in Seq(AllUnits) /\ Sorted(Tail(s))
          /\ Len(s) = 1 <=> Tail(s) = <<>>
          /\ Head(s) = "minute" <=> Len(s) = 1
          /\ Len(s) # 1 => Has(Tail(s), "minute")
      BY <3>1, Emitted
    <3>3. ToCome'
      BY <2>3, <3>1, <3>2 DEF Emit, ToCome
    <3>4. Times' /\ Later'
      BY <2>3, <3>1, <3>2 DEF Emit, Times, Later, Minutes
    <3>5. Phases' /\ Flags' /\ Silent'
      BY <2>3, <3>1 DEF Emit, Phases, Flags, Silent
    <3> QED
      BY <3>3, <3>4, <3>5
  <2>4. CASE Finish
    BY <2>4 DEF Finish, listenerVars, Times, Phases, Flags, ToCome, Later, Silent
  <2>5. CASE Stop
    BY <2>5 DEF Stop, driverVars, listenerVars, Times, Phases, Flags, ToCome, Later, Silent
  <2>6. CASE CloseStopCh
    BY <2>6 DEF CloseStopCh, driverVars, listenerVars, Times, Phases, Flags, ToCome, Later, Silent
  <2>7. CASE Tick
    BY <2>7 DEF Tick, driverVars, listenerVars, Times, Phases, Flags, ToCome, Later, Silent, Minutes
  <2>8. CASE SetClock
    BY <2>8 DEF SetClock, driverVars, listenerVars, Times, Phases, Flags, ToCome, Later, Silent
  <2>9. CASE UNCHANGED vars
    BY <2>9 DEF vars, driverVars, listenerVars, Times, Phases, Flags, ToCome, Later, Silent
  <2> QED
    BY <2>1, <2>2, <2>3, <2>4, <2>5, <2>6, <2>7, <2>8, <2>9 DEF Next, Driver
<1> QED
  BY <1>1, <1>2, PTL DEF Spec

--------------------------------------------------------------------------------
(* Type correctness; events are pending during a change and only then.     *)
THEOREM TypeCorrect == Spec => []TypeOK
<1>1. TypeInv => TypeOK
  <2> SUFFICES ASSUME TypeInv PROVE TypeOK
    OBVIOUS
  <2>1. pc = "broadcasting" => pending # <<>>
    BY DEF TypeInv, ToCome, Has
  <2>2. (pending # <<>>) = (pc = "broadcasting")
    BY <2>1 DEF TypeInv, ToCome
  <2> QED
    BY <2>2 DEF TypeInv, Times, Phases, Flags, ToCome, TypeOK, AllUnits
<1> QED
  BY <1>1, TypeInvHolds, PTL

(* The minute that ends a change is later than any announced before.       *)
THEOREM MinutesOnlyIncrease == Spec => MinutesIncrease
<1>1. TypeInv /\ [Next]_vars /\ pending # <<>> /\ pending' = <<>>
        => announced' > announced \/ setBack
  <2> SUFFICES ASSUME TypeInv, [Next]_vars, pending # <<>>, pending' = <<>>
               PROVE  announced' > announced \/ setBack
    OBVIOUS
  <2>1. pc = "broadcasting"
    BY DEF TypeInv, ToCome
  <2>2. Emit
    BY <2>1 DEF Next, Driver, Start, Wake, Finish, Stop, CloseStopCh, Tick, SetClock, vars, driverVars
  <2>3. Head(pending) = "minute"
    BY <2>1, <2>2, Emitted DEF Emit, TypeInv, ToCome
  <2> QED
    BY <2>1, <2>2, <2>3 DEF Emit, TypeInv, Later, Times, Minutes
<1> QED
  BY <1>1, TypeInvHolds, PTL DEF Spec, MinutesIncrease

(* Once the channel is closed the driver has returned, and nobody else     *)
(* broadcasts.                                                             *)
THEOREM NothingAfterStop == Spec => SilentWhenStopped
<1>1. TypeInv /\ [Next]_vars => [stopCh = "closed" => UNCHANGED listenerVars]_vars
  BY DEF TypeInv, Silent, Next, Driver, Start, Wake, Emit, Finish, Stop, CloseStopCh, Tick,
         SetClock, vars, driverVars, listenerVars
<1> QED
  BY <1>1, TypeInvHolds, PTL DEF Spec, SilentWhenStopped

--------------------------------------------------------------------------------
(* What the listener has been told: all that the last minute shows when    *)
(* nothing is being broadcast, and meanwhile all but what is still to      *)
(* come; what it has been told of the new minute came largest first.       *)
Believes == known = [u \in Larger |-> known[u]]
AtRest == ~setBack /\ pc \in {"waiting", "finished"}
            => \A u \in Larger : known[u] = Shown(last)[u]
Midway == ~setBack /\ pc = "broadcasting"
            => \A u \in Larger : Has(pending, u) \/ known[u] = Shown(target)[u]
InTurn == ~setBack /\ pc = "broadcasting"
            => \A u, w \in Larger :
                  Rank[w] < Rank[u] /\ ~Has(pending, u) /\ known[u] # Shown(last)[u]
                     => ~Has(pending, w)

Told == Believes /\ AtRest /\ Midway /\ InTurn

(* What Shown is made of. *)
LEMMA ShownIs == \A m : Shown(m) = [u \in Larger |-> Shown(m)[u]]
  BY DEF Shown, Larger

(* Every unit whose event is not to come shows the same before and after,  *)
(* which is where the offsets of the zone matter.                          *)
LEMMA ToldHolds == ASSUME OffsetsChangeOnTheHour PROVE Spec => []Told
<1>1. Init => Told
  BY ShownIs DEF Init, Told, Believes, AtRest, Midway, InTurn
<1>2. TypeInv /\ Told /\ [Next]_vars => Told'
  <2> SUFFICES ASSUME TypeInv, Told, [Next]_vars PROVE Told'
    OBVIOUS
  <2> USE DEF Told
  <2>1. CASE Start
    BY <2>1, ShownIs DEF Start, Believes, AtRest, Midway, InTurn
  <2>2. CASE Wake
    <3>1. known' = known
      BY <2>2 DEF Wake, listenerVars
    <3>2. CASE now > last
      <4> DEFINE s == pending'
      <4>1. /\ s = Changes(last, now) /\ last \in Minutes /\ now \in Minutes
            /\ pc' = "broadcasting" /\ target' = now /\ last' = last /\ pc = "waiting"
            /\ setBack' = setBack
        BY <2>2, <3>2 DEF Wake, TypeInv, Times, Flags, Minutes
      <4>2. \A u \in Larger : Has(s, u) \/ Shown(last)[u] = Shown(now)[u]
        BY <4>1, ChangesAre
      <4>3. ~setBack' => \A u \in Larger : known[u] = Shown(last)[u]
        BY <4>1 DEF AtRest
      <4> HIDE DEF s
      <4>4. Midway'
        BY <3>1, <4>1, <4>2, <4>3 DEF Midway, s
      <4>5. InTurn'
        BY <3>1, <4>1, <4>3 DEF InTurn
      <4> QED
        BY <3>1, <4>1, <4>4, <4>5 DEF Believes, AtRest
    <3>3. CASE ~(now > last)
      <4>1. pc' = "waiting" /\ pc = "waiting"
        BY <2>2, <3>3 DEF Wake
      <4>2. ~setBack' => ~setBack /\ last' = last
        BY <2>2 DEF Wake
      <4> QED
        BY <3>1, <4>1, <4>2 DEF Believes, AtRest, Midway, InTurn
    <3> QED
      BY <3>2, <3>3
  <2>3. CASE Emit
    <3>1. /\ pc = "broadcasting" /\ pending' = Tail(pending) /\ setBack' = setBack
          /\ target' = target
          /\ pending \in Seq(AllUnits) /\ Sorted(pending) /\ Has(pending, "minute")
      BY <2>3 DEF Emit, TypeInv, ToCome
    <3> DEFINE h == Head(pending)
    <3>2. /\ h \in AllUnits
          /\ h = "minute" <=> Len(pending) = 1
          /\ Len(pending) = 1 <=> Tail(pending) = <<>>
          /\ \A u \in AllUnits : Has(pending, u) /\ u # h => Has(pending', u)
          /\ \A u \in AllUnits : Has(pending', u) => Has(pending, u) /\ Rank[h] < Rank[u]
      BY <3>1, Emitted
    <3>3. \A u \in Larger : u \in AllUnits /\ u # "minute"
      BY DEF Larger, AllUnits
    <3>4. \A u \in Larger : ~Has(<<>>, u)
      BY DEF Has
    <3>5. CASE h = "minute"
      <4>1. /\ known' = known /\ pending' = <<>> /\ pc' = "waiting" /\ last' = target
        BY <2>3, <3>1, <3>2, <3>5 DEF Emit
      <4>2. \A u \in Larger : ~Has(pending, u)
        BY <3>2, <3>3, <3>4, <3>5, <4>1
      <4> QED
        BY <3>1, <4>1, <4>2 DEF Believes, AtRest, Midway, InTurn
    <3>6. CASE h # "minute"
      <4>1. /\ known' = [known EXCEPT ![h] = Shown(target)[h]]
            /\ pc' = "broadcasting" /\ last' = last
        BY <2>3, <3>1, <3>2, <3>6 DEF Emit
      <4>2. h \in Larger
        BY <3>2, <3>6 DEF Larger, AllUnits
      <4>3. Believes'
        BY <4>1, <4>2 DEF Believes
      <4> HIDE DEF h
      <4>4. /\ known'[h] = Shown(target)[h]
            /\ \A u \in Larger : u # h => known'[u] = known[u]
        BY <4>1, <4>2 DEF Believes
      <4>5. Midway'
        BY <3>1, <3>2, <3>3, <4>1, <4>4 DEF Midway
      <4>6. InTurn'
        <5> SUFFICES ASSUME ~setBack, NEW u \in Larger, NEW w \in Larger, Rank[w] < Rank[u],
                            ~Has(pending', u), known'[u] # Shown(last)[u], Has(pending', w)
                     PROVE  FALSE
          BY <3>1, <4>1 DEF InTurn
        <5>1. Rank[h] < Rank[w] /\ w # h /\ u # h
          <6>1. \A a \in Larger : Rank[a] \in 1..4
            BY Ranks DEF Larger
          <6> QED
            BY <3>2, <3>3, <4>2, <6>1
        <5>2. ~Has(pending, u) /\ known[u] # Shown(last)[u] /\ Has(pending, w)
          <6>1. known'[u] = known[u] /\ ~Has(pending, u)
            BY <3>2, <3>3, <4>4, <5>1
          <6>2. Has(pending, w)
            BY <3>2, <3>3
          <6> QED
            BY <6>1, <6>2
        <5> QED
          BY <3>1, <5>2 DEF InTurn
      <4> QED
        BY <4>1, <4>3, <4>5, <4>6 DEF AtRest
    <3> QED
      BY <3>5, <3>6
  <2>4. CASE Finish
    BY <2>4 DEF Finish, listenerVars, Believes, AtRest, Midway, InTurn
  <2>5. CASE Stop \/ CloseStopCh \/ Tick \/ SetClock \/ UNCHANGED vars
    BY <2>5 DEF Stop, CloseStopCh, Tick, SetClock, vars, driverVars, listenerVars, Believes,
                AtRest, Midway, InTurn
  <2> QED
    BY <2>1, <2>2, <2>3, <2>4, <2>5 DEF Next, Driver
<1> QED
  BY <1>1, <1>2, TypeInvHolds, PTL DEF Spec

(* In a zone whose offset changes on the hour, a listener shows the right  *)
(* year, month, day and hour, whatever minutes were skipped.               *)
THEOREM ListenersAgree == ASSUME OffsetsChangeOnTheHour PROVE Spec => []ListenerAgrees
<1>1. Told => ListenerAgrees
  BY ShownIs DEF Told, Believes, AtRest, ListenerAgrees
<1> QED
  BY <1>1, ToldHolds, PTL

(* And whoever hears of a unit has heard of every larger one that changed. *)
THEOREM LargestComesFirst == ASSUME OffsetsChangeOnTheHour PROVE Spec => []LargestFirst
<1>1. TypeInv /\ Told => LargestFirst
  <2> SUFFICES ASSUME TypeInv, Told, pc = "broadcasting", ~setBack,
                      NEW i \in DOMAIN Units, NEW j \in DOMAIN Units, i < j,
                      Units[j] \notin {pending[k] : k \in DOMAIN pending},
                      known[Units[j]] # Shown(last)[Units[j]]
               PROVE  known[Units[i]] = Shown(target)[Units[i]]
    BY DEF LargestFirst
  <2>1. /\ Units[i] \in Larger /\ Units[j] \in Larger
        /\ Rank[Units[i]] = i /\ Rank[Units[j]] = j
    BY Ranks DEF Units, Larger
  <2>2. ~Has(pending, Units[j])
    BY DEF TypeInv, ToCome, Has
  <2>3. ~Has(pending, Units[i])
    BY <2>1, <2>2 DEF Told, InTurn
  <2> QED
    BY <2>1, <2>3 DEF Told, Midway
<1> QED
  BY <1>1, TypeInvHolds, ToldHolds, PTL
================================================================================

--------------------------------- MODULE Clock ---------------------------------
(***************************************************************************)
(* The clock of the surveillance (CClockPerPort, taskClock.cpp), the axis  *)
(* of time stamps (CSeqTimeAxis, sequence.cpp) and the marks that tell an  *)
(* object it begins a new hour or day (ISeqElement, seqElement.cpp).       *)
(*                                                                         *)
(* Time is set and the bell rung by two separate calls, which clients may  *)
(* make in any order.  Stamps count bell periods of 60 seconds.            *)
(***************************************************************************)
EXTENDS Integers

CONSTANTS Source,            \* the objects that are triggered
          TriggersPerCycle,  \* triggersPerCycle of each
          HourLen,           \* bell periods in an hour, 60
          HoursInDay,        \* 24
          DaysInWeek,        \* 7
          LogLen,            \* START_DATALOG_SIZECYCLES, 60
          Starts,            \* bound: stamps the first reading may have
          Ahead,             \* bound: how far a stamp is set past the last
          MaxTime,           \* bound of the stamps
          MaxTriggers,       \* bound of the bells
          MaxOdd             \* bound of the calls out of turn

(* Of an hour or a day that follows another, the clock shows another number. *)
ASSUME CalendarAssumption ==
    /\ HourLen \in Nat \ {0} /\ HoursInDay \in Nat \ {0, 1} /\ DaysInWeek \in Nat \ {0, 1}
    /\ LogLen \in Nat \ {0} /\ HourLen <= LogLen
(* An hour is a whole number of cycles. *)
ASSUME RateAssumption ==
    /\ TriggersPerCycle \in [Source -> Nat \ {0}]
    /\ \A o \in Source : HourLen % TriggersPerCycle[o] = 0
ASSUME BoundsAssumption ==
    /\ MaxTime \in Nat /\ MaxTriggers \in Nat /\ MaxOdd \in Nat
    /\ Starts \subseteq Nat /\ Ahead \subseteq Int

VARIABLES
    timestamp,      \* clockReadAtBell.timestamp, 0 before the first one
    timeStructWas,  \* hour and day of the week of the last reading
    newHour,        \* clockReadAtBell.newHour
    newDay,         \* clockReadAtBell.newDay
    timesHeld,      \* timesHeld_newestToOldest
    begins,         \* cycleBeginsNewClockHour, cycleBeginsNewCalendarDay
    untilCycle,     \* triggersUntilCycle
    triggers,       \* bells heard so far
    odd,            \* calls out of turn so far: not one stamp, a period later, a bell
    unread          \* a stamp was set that no bell has read yet

clockVars == <<timestamp, timeStructWas, newHour, newDay, timesHeld, begins,
               untilCycle, triggers, odd, unread>>

HourOf(t) == t \div HourLen
DayOf(t)  == HourOf(t) \div HoursInDay

(* tm_hour and tm_wday *)
TimeStruct(t) == [hour |-> HourOf(t) % HoursInDay, wday |-> DayOf(t) % DaysInWeek]

InitClock ==
    /\ timestamp = 0
    /\ timeStructWas = [hour |-> 0, wday |-> 0]
    /\ newHour = FALSE /\ newDay = FALSE
    /\ timesHeld = [i \in 1 .. LogLen |-> 0]
    /\ begins = [o \in Source |-> [hour |-> FALSE, day |-> FALSE]]
    /\ untilCycle = [o \in Source |-> 1]
    /\ triggers = 0
    /\ odd = 0 /\ unread = FALSE

-------------------------------------------------------------------------------
OutOfTurn(this) == /\ odd < MaxOdd \/ ~this
                   /\ odd' = odd + (IF this THEN 1 ELSE 0)

regular == odd = 0

(* A new stamp overwrites one that no bell has read, with its marks; an     *)
(* equal one is refused.                                                    *)
SetTimeFromPort(t) ==
    /\ t # timestamp
    /\ timestamp' = t
    /\ newHour' = (TimeStruct(t).hour # timeStructWas.hour)
    /\ newDay' = (TimeStruct(t).wday # timeStructWas.wday)
    /\ timeStructWas' = TimeStruct(t)
    /\ OutOfTurn(unread \/ (triggers > 0 /\ t # timestamp + 1))
    /\ unread' = TRUE
    /\ UNCHANGED <<timesHeld, begins, untilCycle, triggers>>

Stamps == IF timestamp = 0 THEN Starts ELSE {timestamp + d : d \in Ahead}

SetTime == \E t \in Stamps : t \in 1 .. MaxTime /\ SetTimeFromPort(t)

-------------------------------------------------------------------------------
(* One trigger of every object, part of the step a bell starts.             *)

(* Newest first, the oldest drops out. *)
Push(x, log) == [i \in DOMAIN log |-> IF i = 1 THEN x ELSE log[i - 1]]

(* The first stamp is written back over the whole axis. *)
TriggerAxis ==
    timesHeld' = IF triggers = 0 THEN [i \in 1 .. LogLen |-> timestamp - i + 1]
                                 ELSE Push(timestamp, timesHeld)

(* Mutant: marks are kept for one trigger only. *)
Begins_Fleeting(o) == [hour |-> newHour, day |-> newHour /\ newDay]

(* Marks stick until the object cycles; a day counts only with an hour. *)
Begins(o) == [hour |-> begins[o].hour \/ newHour,
              day  |-> begins[o].day \/ (newHour /\ newDay)]

ShallTriggerInvokeCycle(o) == untilCycle[o] = 1

Trigger ==
    /\ triggers < MaxTriggers
    /\ triggers' = triggers + 1
    /\ TriggerAxis
    /\ untilCycle' = [o \in Source |-> IF ShallTriggerInvokeCycle(o)
                                       THEN TriggersPerCycle[o] ELSE untilCycle[o] - 1]
    /\ begins' = [o \in Source |-> IF ShallTriggerInvokeCycle(o)
                                   THEN [hour |-> FALSE, day |-> FALSE] ELSE Begins(o)]
    /\ OutOfTurn(~unread)
    /\ unread' = FALSE
    /\ UNCHANGED <<timestamp, timeStructWas, newHour, newDay>>

ClockTypeOK ==
    /\ timestamp \in 0 .. MaxTime
    /\ timeStructWas \in [hour : 0 .. HoursInDay - 1, wday : 0 .. DaysInWeek - 1]
    /\ newHour \in BOOLEAN /\ newDay \in BOOLEAN
    /\ timesHeld \in [1 .. LogLen -> Int]
    /\ begins \in [Source -> [hour : BOOLEAN, day : BOOLEAN]]
    /\ untilCycle \in [Source -> Nat \ {0}]
    /\ triggers \in 0 .. MaxTriggers
    /\ odd \in 0 .. MaxOdd /\ unread \in BOOLEAN
===============================================================================

------------------------------- MODULE Rainfall -------------------------------
(***************************************************************************)
(* Logs of what points, formulas, facts and rules came to (ARainfall,      *)
(* rainfall.cpp) and the histograms on them (AHistogram, viewParts.cpp):   *)
(* over the last hour, over the past 24 clock hours and over the past 7    *)
(* calendar days.                                                          *)
(*                                                                         *)
(* A series is one log.  A point or formula has two, of its binned values  *)
(* and of its states; a fact has one and a rule kit has one per rule.  The *)
(* histogram of the hour is never computed from the log: it is adjusted by *)
(* the outcome that enters and the one that leaves, and copied when an     *)
(* hour begins.  Means are the subject of Chart, cases that of RuleKit.    *)
(***************************************************************************)
EXTENDS Clock, Sequences, FiniteSets, FiniteSetsExt

CONSTANTS Series,
          SourceOf,      \* object that cycles the series
          Kind,          \* "value", "state", "fact" or "rule"
          SnapshotSize,  \* FIXED_KRONO_SNAPSHOT_SIZE, 15
          Readings       \* bound: what the objects come to, all at once

Values      == {"low", "high"}     \* the lowest and the highest of the bins
AnalogState == {"valid", "invalid"}
FactState   == {"true", "false", "invalid"}
Fail == {"autoFail", "caseFail", "idleFail"}
Pass == {"autoPass", "casePass", "idlePass"}
Skip == {"autoSkip", "caseSkip", "idleSkip"}
RuleState == Fail \union Pass \union Skip \union {"invalid"}
Unavail == "unavail"

(* What a cycle can bring to a series, and what the log can hold. *)
Outcomes(s) == [value |-> Values, state |-> AnalogState,
                fact |-> FactState, rule |-> RuleState][Kind[s]]
Logged(s) == Outcomes(s) \union {Unavail}

Analogs == {s \in Series : Kind[s] = "value"}
Rules   == {s \in Series : Kind[s] = "rule"}

(* A reading of a point may be beyond the bins, or invalid at the source. *)
Input(s) == IF Kind[s] = "value" THEN Values \union {"beyond", "invalid"} ELSE Outcomes(s)

ASSUME SeriesAssumption ==
    /\ IsFiniteSet(Series)
    /\ SourceOf \in [Series -> Source]
    /\ Kind \in [Series -> {"value", "state", "fact", "rule"}]
    /\ \A s \in Series : Kind[s] = "state" =>
          \E v \in Analogs : SourceOf[v] = SourceOf[s]
ASSUME SnapshotAssumption ==
    /\ SnapshotSize \in 1 .. LogLen
    /\ \A o \in Source : SnapshotSize % TriggersPerCycle[o] = 0
ASSUME ReadingsAssumption ==
    \A r \in Readings : \A s \in Series : Kind[s] # "state" => r[s] \in Input(s)

(* movingHourSpanInCycles and the length of the log, in cycles of the source *)
MovingHour(s) == HourLen \div TriggersPerCycle[SourceOf[s]]
LogSize(s)    == LogLen \div TriggersPerCycle[SourceOf[s]]

VARIABLES
    log,      \* ...LoggedAsBindex, newest first
    started,  \* the object has cycled (firstCycle is false)
    moving,   \* realtimeSlice_movingHour
    hours,    \* sliceLog_past24clockHrs, newest first
    days,     \* sliceLog_past7calendarDays, newest first
    snap,     \* the snapshot a failed rule holds, of the axis and all series
    ran       \* history: stamp and outcomes of every step, newest first

histoVars == <<log, started, moving, hours, days>>
vars == <<clockVars, histoVars, snap, ran>>

-------------------------------------------------------------------------------
(* Slices: sums by bar, and the stamp of the front edge.                    *)

(* The bars an outcome is counted in: its own and, for a rule, those of the *)
(* overview of the kit. *)
CountedIn(x) ==
    {x} \union (IF x \in Fail THEN {"fails"} ELSE {})
        \union (IF x \in Fail \union Pass THEN {"tests"} ELSE {})
        \union (IF x \in Fail \union Pass \union Skip THEN {"valids"} ELSE {})

Overview == {"fails", "tests", "valids"}

Bars(s) == Logged(s) \union (IF Kind[s] = "rule" THEN Overview ELSE {})

Slice(s) == [bins : [Bars(s) -> Int], at : Int]

NoSum(s) == [bins |-> [b \in Bars(s) |-> 0], at |-> 0]

(* All of n cycles unavailable; the bins of values wait for the first value, *)
(* and the overview counts no cycle that is not valid.                      *)
SHistoSliceAnalog(s, n) ==
    IF Kind[s] = "value" THEN NoSum(s)
    ELSE [NoSum(s) EXCEPT !.bins[Unavail] = n]
SHistoSliceFact(s, n) == [NoSum(s) EXCEPT !.bins[Unavail] = n]
SHistoSliceRule(s, n) == [NoSum(s) EXCEPT !.bins[Unavail] = n]

Initial(s, n) ==
    CASE s \in Rules -> SHistoSliceRule(s, n)
      [] Kind[s] = "fact" -> SHistoSliceFact(s, n)
      [] OTHER -> SHistoSliceAnalog(s, n)

(* InitializeAnalogSliceOnValue() *)
InitializeOnValue(slice, x, n) ==
    [slice EXCEPT !.bins = [b \in DOMAIN slice.bins |-> IF b = x THEN n ELSE 0]]

Init ==
    /\ InitClock
    /\ log = [s \in Series |-> [i \in 1 .. LogSize(s) |-> Unavail]]
    /\ started = [s \in Series |-> FALSE]
    /\ moving = [s \in Series |-> Initial(s, MovingHour(s))]
    /\ hours = [s \in Series |-> [i \in 1 .. HoursInDay |-> Initial(s, MovingHour(s))]]
    /\ days = [s \in Series |-> [i \in 1 .. DaysInWeek |->
                                   Initial(s, MovingHour(s) * HoursInDay)]]
    /\ snap = [s \in Rules |-> <<>>]
    /\ ran = <<>>

-------------------------------------------------------------------------------
(* A cycle of one series that comes to x.                                   *)

(* The value an analog source is left with: one that is invalid keeps the    *)
(* last, one beyond the bins is squeezed into the nearest.                  *)
Held(s) == IF started[s] THEN log[s][1] ELSE "low"

DropBin(s, r) == [low |-> "low", high |-> "high", beyond |-> "high",
                  invalid |-> Held(s)][r[s]]

ValueOf(s) == CHOOSE v \in Analogs : SourceOf[v] = SourceOf[s]

AnalogStateOf(s, r) == IF r[ValueOf(s)] \in Values THEN "valid" ELSE "invalid"

Outcome(s, r) ==
    CASE Kind[s] = "value" -> DropBin(s, r)
      [] Kind[s] = "state" -> AnalogStateOf(s, r)
      [] OTHER -> r[s]

(* The first value is taken for the past, in the log and in every slice.    *)
FirstValue(s) == Kind[s] = "value" /\ ~started[s]

Backfilled(s, x) == IF FirstValue(s) THEN [i \in DOMAIN log[s] |-> x] ELSE log[s]

OpenMoving(s, x) ==
    IF FirstValue(s) THEN InitializeOnValue(moving[s], x, MovingHour(s)) ELSE moving[s]

OpenHours(s, x) ==
    LET past == IF FirstValue(s)
                THEN [i \in DOMAIN hours[s] |-> InitializeOnValue(hours[s][i], x, MovingHour(s))]
                ELSE hours[s]
    IN  IF started[s] THEN past ELSE [past EXCEPT ![1].at = timestamp]

OpenDays(s, x) ==
    LET past == IF FirstValue(s)
                THEN [i \in DOMAIN days[s] |->
                        InitializeOnValue(days[s][i], x, MovingHour(s) * HoursInDay)]
                ELSE days[s]
    IN  IF started[s] THEN past ELSE [past EXCEPT ![1].at = timestamp]

Summed(s, slices) ==
    [bins |-> [b \in Bars(s) |->
                 MapThenSumSet(LAMBDA i : slices[i].bins[b], DOMAIN slices)],
     at   |-> slices[1].at]

(* Mutant: the hour is closed after the cycle that begins the next. *)
CloseHour_Late(s, x) ==
    IF Begins(SourceOf[s]).hour THEN Push(moving'[s], OpenHours(s, x)) ELSE OpenHours(s, x)

(* An hour that has ended is put away before its successor's first cycle.   *)
CloseHour(s, x) ==
    IF Begins(SourceOf[s]).hour THEN Push(OpenMoving(s, x), OpenHours(s, x)) ELSE OpenHours(s, x)

(* Mutant: the day is summed before its last hour is put away. *)
CloseDay_Early(s, x) ==
    IF Begins(SourceOf[s]).day THEN Push(Summed(s, OpenHours(s, x)), OpenDays(s, x))
    ELSE OpenDays(s, x)

CloseDay(s, x) ==
    IF Begins(SourceOf[s]).day THEN Push(Summed(s, CloseHour(s, x)), OpenDays(s, x))
    ELSE OpenDays(s, x)

(* Mutant: what leaves is read before the first value is written back. *)
Leaving_Unfilled(s, x) == log[s][MovingHour(s)]

(* The outcome as old as the hour is long. *)
Leaving(s, x) == Backfilled(s, x)[MovingHour(s)]

Sign(b, x) == IF b \in CountedIn(x) THEN 1 ELSE 0

Moved(s, x) ==
    [bins |-> [b \in Bars(s) |-> OpenMoving(s, x).bins[b] + Sign(b, x) - Sign(b, Leaving(s, x))],
     at   |-> timestamp]

-------------------------------------------------------------------------------
(* Snapshots: the axis and every series, at the rate of the axis.           *)

(* Mutant: the log is read before this cycle is pushed onto it. *)
Pasted_Early(s) == [i \in 1 .. SnapshotSize |->
                      log[s][((i - 1) \div TriggersPerCycle[SourceOf[s]]) + 1]]

(* Slow series are pasted as often as their source is slower. *)
Pasted(s) == [i \in 1 .. SnapshotSize |->
                log'[s][((i - 1) \div TriggersPerCycle[SourceOf[s]]) + 1]]

CreateSnapshot == [axis |-> [i \in 1 .. SnapshotSize |-> timesHeld'[i]],
                   of   |-> [s \in Series |-> Pasted(s)],
                   step |-> triggers']

Captures(s, x) == x = "autoFail" /\ snap[s] = <<>>

-------------------------------------------------------------------------------
(* The bell: one step of the surveillance, in which the sources that are    *)
(* due cycle. A snapshot whose rule is done with it may go at the end.      *)
Cycle(r, wiped) ==
    LET due(s) == ShallTriggerInvokeCycle(SourceOf[s])
        x(s)   == Outcome(s, r)
    IN  /\ Trigger
        /\ moving' = [s \in Series |-> IF due(s) THEN Moved(s, x(s)) ELSE moving[s]]
        /\ hours' = [s \in Series |-> IF due(s) THEN CloseHour(s, x(s)) ELSE hours[s]]
        /\ days' = [s \in Series |-> IF due(s) THEN CloseDay(s, x(s)) ELSE days[s]]
        /\ log' = [s \in Series |-> IF due(s) THEN Push(x(s), Backfilled(s, x(s))) ELSE log[s]]
        /\ started' = [s \in Series |-> started[s] \/ due(s)]
        /\ snap' = [s \in Rules |-> IF s \in wiped THEN <<>>
                                    ELSE IF due(s) /\ Captures(s, x(s)) THEN CreateSnapshot
                                    ELSE snap[s]]
        /\ ran' = <<[at |-> timestamp,
                     out |-> [s \in Series |-> IF due(s) THEN {x(s)} ELSE {}]]>> \o ran

RingTaskBell == \E r \in Readings, wiped \in SUBSET Rules : Cycle(r, wiped)

SetTimeOnly == SetTime /\ UNCHANGED <<histoVars, snap, ran>>

Next == SetTimeOnly \/ RingTaskBell

Spec == Init /\ [][Next]_vars

-------------------------------------------------------------------------------
(* What the user is shown.                                                  *)

Spans == {"hour", "day", "week"}

(* Mutant: the sum starts from a slice that is all unavailable. *)
Past24hrs_Unavail(s) ==
    [Summed(s, hours[s]) EXCEPT !.bins[Unavail] = @ + MovingHour(s) * HoursInDay]

Past24hrs(s) == Summed(s, hours[s])

(* Facts and rules take the stamp of the hour, points and the kit's overview *)
(* that of the day.                                                         *)
Past7days(s) ==
    [Summed(s, days[s]) EXCEPT
        !.at = IF Kind[s] \in {"fact", "rule"} THEN hours[s][1].at ELSE @]

Showing(s, span) ==
    [hour |-> moving[s], day |-> Past24hrs(s), week |-> Past7days(s)][span]

CountAllCycles(s, span) ==
    MovingHour(s) * [hour |-> 1, day |-> HoursInDay, week |-> HoursInDay * DaysInWeek][span]

(* Bars as part and whole. *)
ShownStates(s, span) ==
    [b \in Logged(s) |-> <<Showing(s, span).bins[b], CountAllCycles(s, span)>>]

ShownRuleKit(s, span) ==
    LET bins == Showing(s, span).bins
    IN  [fails  |-> <<bins["fails"], bins["tests"]>>,
         tests  |-> <<bins["tests"], bins["valids"]>>,
         valids |-> <<bins["valids"], CountAllCycles(s, span)>>]

(* Traces and their axis run from the oldest to the newest.                 *)
OldToNew(newToOld) == [i \in 1 .. SnapshotSize |-> newToOld[SnapshotSize + 1 - i]]

SayGuiStatesFromBindexLog(s)        == OldToNew(log[s])
DisplayAxisInRealtime               == OldToNew(timesHeld)
SayGuiStatesFromSnapshotInSet(s, r) == OldToNew(snap[r].of[s])
DisplayAxisFromSnapshotSet(r)       == OldToNew(snap[r].axis)

-------------------------------------------------------------------------------
(* Properties.                                                              *)

TypeOK ==
    /\ ClockTypeOK
    /\ \A s \in Series :
          /\ log[s] \in [1 .. LogSize(s) -> Logged(s)]
          /\ started[s] \in BOOLEAN
          /\ moving[s] \in Slice(s)
          /\ hours[s] \in [1 .. HoursInDay -> Slice(s)]
          /\ days[s] \in [1 .. DaysInWeek -> Slice(s)]

(* The histogram of the hour, which is only ever adjusted, shows what the   *)
(* log holds of that hour, whatever the calls of the feeder: so a bar that  *)
(* is taken from is never empty (viewParts.cpp:1550 hopes so).              *)
BinsMatchLog ==
    \A s \in Series : started[s] \/ Kind[s] # "value" =>
        \A b \in Bars(s) :
            moving[s].bins[b] =
                Cardinality({i \in 1 .. MovingHour(s) : b \in CountedIn(log[s][i])})

(* The stamps of the steps in which a series came to something counted in b. *)
StepsOf(s, b) == {i \in DOMAIN ran : \E x \in ran[i].out[s] : b \in CountedIn(x)}

LastOf(s) == CHOOSE i \in DOMAIN ran :
                 ran[i].out[s] # {} /\ \A j \in 1 .. i - 1 : ran[j].out[s] = {}

(* The k-th slice holds the k-th span before that of the last cycle, as far *)
(* back as the feeder covered it.                                           *)
Counted(s, slices, Span(_), from(_)) ==
    started[s] =>
        LET now == Span(ran[LastOf(s)].at)
        IN  \A k \in DOMAIN slices :
               from(now - k) >= ran[Len(ran)].at =>
                  \A b \in Bars(s) : slices[k].bins[b] =
                     Cardinality({i \in StepsOf(s, b) : Span(ran[i].at) = now - k})

(* With a bell each minute, the slices of the past 24 hours count exactly   *)
(* the cycles of each clock hour, of slower sources too, although each is a *)
(* copy of a moving window taken by a mark that may have waited.            *)
HoursCounted ==
    regular => \A s \in Series :
                   Counted(s, hours[s], HourOf, LAMBDA h : h * HourLen)

(* And those of the past 7 days the cycles of each calendar day.            *)
DaysCounted ==
    regular => \A s \in Series :
                   Counted(s, days[s], DayOf, LAMBDA d : d * HourLen * HoursInDay)

(* No bar is higher than 100 %, over any span: the states of a source share *)
(* all its cycles, fails are among tests and tests among valid cycles.      *)
BarsAreShares ==
    \A s \in Series, span \in Spans :
        /\ \A b \in Logged(s) : LET bar == ShownStates(s, span)[b]
                                IN  0 <= bar[1] /\ bar[1] <= bar[2]
        /\ started[s] =>
              MapThenSumSet(LAMBDA b : ShownStates(s, span)[b][1], Logged(s))
                  = CountAllCycles(s, span)
        /\ s \in Rules => \A b \in Overview : LET bar == ShownRuleKit(s, span)[b]
                                              IN  0 <= bar[1] /\ bar[1] <= bar[2]

(* Axis and series show the step in the same place, in real time and in the *)
(* snapshot of a failure, where a slow series may be off by less than one   *)
(* of its cycles.                                                           *)
TracesLineUp ==
    /\ \A i \in 1 .. SnapshotSize :
          LET step == SnapshotSize + 1 - i    \* counted from the newest
          IN  step <= Len(ran) =>
                 /\ DisplayAxisInRealtime[i] = ran[step].at
                 /\ \A s \in Series : TriggersPerCycle[SourceOf[s]] = 1 =>
                       ran[step].out[s] = {SayGuiStatesFromBindexLog(s)[i]}
    /\ \A r \in Rules : snap[r] # <<>> => \A i \in 1 .. SnapshotSize :
          LET step == triggers - snap[r].step + SnapshotSize + 1 - i
          IN  step <= Len(ran) =>
                 /\ DisplayAxisFromSnapshotSet(r)[i] = ran[step].at
                 /\ \A s \in Series : \E j \in DOMAIN ran :
                       /\ j - step < TriggersPerCycle[SourceOf[s]]
                       /\ step - j < TriggersPerCycle[SourceOf[s]]
                       /\ ran[j].out[s] = {SayGuiStatesFromSnapshotInSet(s, r)[i]}

===============================================================================

---------------------------- MODULE RainfallProofs ----------------------------
(***************************************************************************)
(* Theorems about Rainfall, for any series, rates, calendars and feeders:  *)
(* the histogram of the hour always shows what the log holds of that hour, *)
(* so that none of its unsigned sums is ever taken below zero; traces and  *)
(* axis show a step in the same place, in real time and in snapshots; bars *)
(* are shares of all cycles; and, with a bell each minute, the slices of   *)
(* the past hours and days count the cycles of each clock hour and day.    *)
(*                                                                         *)
(* The argument: the places below the length of the hour that are counted  *)
(* in a bar move on by one, the first is new and the last drops out        *)
(* (ShiftCount). What a series came to k cycles ago is at place k of its   *)
(* log and in the step of that age (Cycles), and a snapshot takes both     *)
(* along (Fits). Each slice divides its cycles (Divided). The marks that a *)
(* series has not yet read say whether an hour or a day has begun since    *)
(* its last cycle (Feed), so that a moving window is put away just when it *)
(* is the clock hour (WindowIsHour); a day is then the sum of its hours    *)
(* (DayOfHours).                                                           *)
(***************************************************************************)
EXTENDS Rainfall, Sums, TLAPS

LogTyped  == /\ DOMAIN log = Series
             /\ \A s \in Series : DOMAIN log[s] = 1 .. LogSize(s)
SlicesTyped == /\ DOMAIN moving = Series
               /\ \A s \in Series :
                     /\ moving[s] = [bins |-> moving[s].bins, at |-> moving[s].at]
                     /\ moving[s].bins \in [Bars(s) -> Int]
Window(s, b, l) == {i \in 1 .. MovingHour(s) : b \in CountedIn(l[i])}

(* The inductive invariant. *)
IInv == LogTyped /\ SlicesTyped /\ started \in [Series -> BOOLEAN] /\ BinsMatchLog

-------------------------------------------------------------------------------
(* Counting.                                                                *)

(* A window moved on by one place gains its first and loses its last.       *)
LEMMA ShiftCount ==
    ASSUME NEW N \in Nat \ {0}, NEW A \in SUBSET (1 .. N), NEW B \in SUBSET (1 .. N),
           \A i \in 1 .. N - 1 : i \in A <=> i + 1 \in B
    PROVE  Cardinality(B) = Cardinality(A) + (IF 1 \in B THEN 1 ELSE 0)
                                           - (IF N \in A THEN 1 ELSE 0)
<1> DEFINE A0 == A \ {N}
           B0 == B \ {1}
           f  == [i \in A0 |-> i + 1]
<1>1. IsFiniteSet(A) /\ IsFiniteSet(B)
  <2>1. 1 \in Int /\ N \in Int
    OBVIOUS
  <2>2. IsFiniteSet(1 .. N)
    BY <2>1, FS_Interval, Zenon
  <2> QED BY <2>2, FS_Subset, Zenon
<1>2. f \in Bijection(A0, B0)
  <2>1. \A i \in A0 : i \in 1 .. N - 1 /\ i + 1 \in B0
    OBVIOUS
  <2>2. f \in [A0 -> B0]
    BY <2>1
  <2>3. IsInjective(f)
    BY <2>1 DEF IsInjective
  <2>4. \A j \in B0 : \E i \in A0 : f[i] = j
    <3> TAKE j \in B0
    <3>1. j - 1 \in 1 .. N - 1 /\ (j - 1) + 1 = j
      OBVIOUS
    <3>2. j - 1 \in A0
      BY <3>1
    <3> QED BY <3>1, <3>2
  <2> QED BY <2>2, <2>3, <2>4 DEF Bijection, Injection, Surjection
<1>3. IsFiniteSet(A0) /\ IsFiniteSet(B0)
  BY <1>1, FS_RemoveElement
<1>4. Cardinality(B0) = Cardinality(A0)
  <2>1. ExistsBijection(A0, B0)
    BY <1>2 DEF ExistsBijection
  <2> QED BY <2>1, <1>3, FS_Bijection
<1>5. Cardinality(A0) = IF N \in A THEN Cardinality(A) - 1 ELSE Cardinality(A)
  BY <1>1, FS_RemoveElement
<1>6. Cardinality(B0) = IF 1 \in B THEN Cardinality(B) - 1 ELSE Cardinality(B)
  BY <1>1, FS_RemoveElement
<1>7. Cardinality(A) \in Nat /\ Cardinality(B) \in Nat
  BY <1>1, FS_CardinalityType
<1> QED BY <1>4, <1>5, <1>6, <1>7

(* All places, or none.                                                     *)
LEMMA ConstantWindow ==
    ASSUME NEW N \in Nat \ {0}, NEW W \in SUBSET (1 .. N), NEW P \in BOOLEAN,
           \A i \in 1 .. N : i \in W <=> P
    PROVE  Cardinality(W) = IF P THEN N ELSE 0
<1>1. CASE P
  <2>1. W = 1 .. N
    BY <1>1
  <2>2. 1 \in Int /\ N \in Int
    OBVIOUS
  <2>3. Cardinality(1 .. N) = IF 1 > N THEN 0 ELSE N - 1 + 1
    BY <2>2, FS_Interval, Zenon
  <2> QED BY <1>1, <2>1, <2>3
<1>2. CASE ~P
  <2>1. W = {}
    BY <1>2
  <2> QED BY <1>2, <2>1, FS_EmptySet
<1> QED BY <1>1, <1>2

(* The window of an hour lies in the log.                                   *)
LEMMA HourInLog ==
    ASSUME NEW s \in Series
    PROVE  /\ MovingHour(s) \in Nat \ {0} /\ LogSize(s) \in Nat
           /\ MovingHour(s) <= LogSize(s)
<1>1. PICK n : n = TriggersPerCycle[SourceOf[s]] /\ n \in Nat \ {0} /\ HourLen % n = 0
  BY RateAssumption, SeriesAssumption
<1>2. HourLen \in Nat \ {0} /\ LogLen \in Nat /\ HourLen <= LogLen
  BY CalendarAssumption
<1>3. /\ HourLen \div n \in Nat /\ LogLen \div n \in Nat
      /\ HourLen = n * (HourLen \div n)
  BY <1>1, <1>2, Z3
<1>4. HourLen \div n # 0
  BY <1>1, <1>2, <1>3
<1>5. HourLen \div n <= LogLen \div n
  BY <1>1, <1>2, Z3
<1> QED BY <1>1, <1>3, <1>4, <1>5 DEF MovingHour, LogSize

-------------------------------------------------------------------------------
(* Strings of the kinds are told apart.                                     *)

LEMMA ValuesApart ==
    ASSUME NEW x \in Values
    PROVE  CountedIn(x) = {x} /\ x # Unavail
BY DEF Values, CountedIn, Fail, Pass, Skip, Unavail

LEMMA UnavailApart == CountedIn(Unavail) = {Unavail}
BY DEF CountedIn, Fail, Pass, Skip, Unavail

LEMMA OutcomesLogged ==
    ASSUME NEW s \in Series
    PROVE  /\ Unavail \in Logged(s) /\ Outcomes(s) \subseteq Logged(s)
           /\ Logged(s) \subseteq Bars(s)
           /\ Kind[s] = "value" => Outcomes(s) = Values
BY DEF Logged, Bars, Outcomes

-------------------------------------------------------------------------------
(* The start.                                                               *)

LEMMA InitialForm ==
    ASSUME NEW s \in Series, NEW n
    PROVE  Initial(s, n) = [bins |-> [b \in Bars(s) |->
                                        IF b = Unavail /\ Kind[s] # "value" THEN n ELSE 0],
                            at |-> 0]
<1>1. Unavail \in Bars(s)
  BY OutcomesLogged
<1>2. Kind[s] \in {"value", "state", "fact", "rule"}
  BY SeriesAssumption
<1>3. [NoSum(s) EXCEPT !.bins[Unavail] = n]
          = [bins |-> [b \in Bars(s) |-> IF b = Unavail THEN n ELSE 0], at |-> 0]
  BY <1>1 DEF NoSum
<1>4. CASE Kind[s] = "value"
  <2>1. Initial(s, n) = NoSum(s)
    BY <1>4 DEF Initial, Rules, SHistoSliceAnalog
  <2> QED BY <1>4, <2>1 DEF NoSum
<1>5. CASE Kind[s] # "value"
  <2>1. Initial(s, n) = [NoSum(s) EXCEPT !.bins[Unavail] = n]
    BY <1>2, <1>5 DEF Initial, Rules, SHistoSliceAnalog, SHistoSliceFact, SHistoSliceRule
  <2> QED BY <1>3, <1>5, <2>1
<1> QED BY <1>4, <1>5

LEMMA InitSlices ==
    ASSUME Init, NEW s \in Series
    PROVE  moving[s] = [bins |-> [b \in Bars(s) |->
                                    IF b = Unavail /\ Kind[s] # "value" THEN MovingHour(s) ELSE 0],
                        at |-> 0]
<1> DEFINE n == MovingHour(s)
<1>1. moving[s] = Initial(s, n)
  BY DEF Init
<1> HIDE DEF n
<1>2. moving[s] = [bins |-> [b \in Bars(s) |-> IF b = Unavail /\ Kind[s] # "value" THEN n ELSE 0],
                   at |-> 0]
  BY <1>1, InitialForm
<1> QED
  BY <1>2 DEF n

LEMMA InitIInv == Init => IInv
<1> SUFFICES ASSUME Init PROVE IInv
  OBVIOUS
<1>1. LogTyped
  BY DEF Init, LogTyped
<1>2. started \in [Series -> BOOLEAN] /\ \A s \in Series : ~started[s]
  BY DEF Init
<1>3. SlicesTyped
  <2>1. DOMAIN moving = Series
    BY DEF Init
  <2>2. ASSUME NEW s \in Series
        PROVE  /\ moving[s] = [bins |-> moving[s].bins, at |-> moving[s].at]
               /\ moving[s].bins \in [Bars(s) -> Int]
    <3> DEFINE N == MovingHour(s)
               u == Kind[s] # "value"
    <3>1. N \in Int
      BY HourInLog
    <3>2. moving[s] = [bins |-> [b \in Bars(s) |-> IF b = Unavail /\ u THEN N ELSE 0], at |-> 0]
      BY InitSlices
    <3> HIDE DEF N, u
    <3> QED BY <3>1, <3>2
  <2> QED BY <2>1, <2>2 DEF SlicesTyped
<1>4. BinsMatchLog
  <2> SUFFICES ASSUME NEW s \in Series, Kind[s] # "value", NEW b \in Bars(s)
               PROVE  moving[s].bins[b] = Cardinality(Window(s, b, log[s]))
    BY <1>2 DEF BinsMatchLog, Window
  <2>1. \A i \in 1 .. MovingHour(s) : log[s][i] = Unavail
    BY HourInLog DEF Init
  <2>2. \A i \in 1 .. MovingHour(s) : i \in Window(s, b, log[s]) <=> b = Unavail
    BY <2>1, UnavailApart DEF Window
  <2>3. Window(s, b, log[s]) \in SUBSET (1 .. MovingHour(s))
    BY DEF Window
  <2>4. Cardinality(Window(s, b, log[s])) = IF b = Unavail THEN MovingHour(s) ELSE 0
    BY <2>2, <2>3, ConstantWindow, HourInLog
  <2>5. moving[s] = [bins |-> [e \in Bars(s) |-> IF e = Unavail /\ Kind[s] # "value"
                                                 THEN MovingHour(s) ELSE 0], at |-> 0]
    BY InitSlices
  <2>6. moving[s].bins[b] = IF b = Unavail THEN MovingHour(s) ELSE 0
    BY <2>5
  <2> QED BY <2>4, <2>6
<1> QED BY <1>1, <1>2, <1>3, <1>4 DEF IInv

-------------------------------------------------------------------------------
(* A cycle of one series.                                                   *)

(* The first value is one of the bins.                                      *)
LEMMA FirstIsValue ==
    ASSUME NEW r \in Readings, NEW s \in Series, FirstValue(s)
    PROVE  Outcome(s, r) \in Values
<1>1. Kind[s] = "value" /\ ~started[s]
  BY DEF FirstValue
<1>2. r[s] \in Values \union {"beyond", "invalid"}
  BY <1>1, ReadingsAssumption DEF Input
<1> QED BY <1>1, <1>2 DEF Outcome, DropBin, Held, Values

(* What is counted before the cycle is what is taken over for it: the log   *)
(* and the slice, each written back with the first value or left alone.     *)
LEMMA OpenedMatches ==
    ASSUME IInv, NEW r \in Readings, NEW s \in Series, NEW b \in Bars(s)
    PROVE  /\ DOMAIN Backfilled(s, Outcome(s, r)) = 1 .. LogSize(s)
           /\ OpenMoving(s, Outcome(s, r)).bins[b]
                 = Cardinality(Window(s, b, Backfilled(s, Outcome(s, r))))
<1> DEFINE x == Outcome(s, r)
           N == MovingHour(s)
<1>0. /\ DOMAIN log[s] = 1 .. LogSize(s)
      /\ moving[s].bins \in [Bars(s) -> Int]
      /\ N \in Nat \ {0} /\ LogSize(s) \in Nat /\ N <= LogSize(s)
  BY HourInLog DEF IInv, LogTyped, SlicesTyped
<1>1. CASE FirstValue(s)
  <2>1. x \in Values /\ CountedIn(x) = {x}
    BY <1>1, FirstIsValue, ValuesApart
  <2> HIDE DEF x
  <2>2. Backfilled(s, x) = [i \in 1 .. LogSize(s) |-> x]
    BY <1>0, <1>1 DEF Backfilled
  <2>3. \A i \in 1 .. N : i \in Window(s, b, Backfilled(s, x)) <=> b = x
    BY <1>0, <2>1, <2>2 DEF Window
  <2>4. Window(s, b, Backfilled(s, x)) \in SUBSET (1 .. N)
    BY DEF Window
  <2>5. Cardinality(Window(s, b, Backfilled(s, x))) = IF b = x THEN N ELSE 0
    BY <1>0, <2>3, <2>4, ConstantWindow
  <2>6. OpenMoving(s, x) = InitializeOnValue(moving[s], x, N)
    BY <1>1 DEF OpenMoving
  <2>7. InitializeOnValue(moving[s], x, N).bins[b] = IF b = x THEN N ELSE 0
    <3>1. DOMAIN moving[s].bins = Bars(s)
      BY <1>0
    <3>2. moving[s] = [bins |-> moving[s].bins, at |-> moving[s].at]
      BY DEF IInv, SlicesTyped
    <3> QED BY <3>1, <3>2 DEF InitializeOnValue
  <2>8. DOMAIN Backfilled(s, x) = 1 .. LogSize(s)
    BY <2>2
  <2> QED BY <2>5, <2>6, <2>7, <2>8 DEF x
<1>2. CASE ~FirstValue(s)
  <2>1. started[s] \/ Kind[s] # "value"
    BY <1>2 DEF FirstValue
  <2>2. moving[s].bins[b] = Cardinality(Window(s, b, log[s]))
    BY <2>1 DEF IInv, BinsMatchLog, Window
  <2>3. Backfilled(s, x) = log[s] /\ OpenMoving(s, x) = moving[s]
    BY <1>2 DEF Backfilled, OpenMoving
  <2> QED BY <1>0, <2>2, <2>3
<1> QED BY <1>1, <1>2

(* One cycle of one series, and none.                                       *)
LEMMA MovedMatches ==
    ASSUME IInv, NEW r \in Readings, NEW s \in Series, NEW b \in Bars(s)
    PROVE  LET x == Outcome(s, r)
           IN  Moved(s, x).bins[b] = Cardinality(Window(s, b, Push(x, Backfilled(s, x))))
<1> DEFINE x == Outcome(s, r)
           N == MovingHour(s)
           l == Backfilled(s, x)
           A == Window(s, b, l)
           B == Window(s, b, Push(x, l))
<1>1. DOMAIN l = 1 .. LogSize(s) /\ OpenMoving(s, x).bins[b] = Cardinality(A)
  BY OpenedMatches
<1>2. N \in Nat \ {0} /\ LogSize(s) \in Nat /\ N <= LogSize(s)
  BY HourInLog
<1>3. Moved(s, x).bins[b] = Cardinality(A) + Sign(b, x) - Sign(b, l[N])
  BY <1>1 DEF Moved, Leaving
<1> HIDE DEF x, l
<1>4. Push(x, l) = [i \in 1 .. LogSize(s) |-> IF i = 1 THEN x ELSE l[i - 1]]
  BY <1>1 DEF Push
<1>5. /\ \A i \in 1 .. N - 1 : i \in A <=> i + 1 \in B
      /\ 1 \in B <=> b \in CountedIn(x)
      /\ N \in A <=> b \in CountedIn(l[N])
  <2>1. \A i \in 1 .. N - 1 : i + 1 \in 1 .. N /\ i + 1 \in 1 .. LogSize(s) /\ (i + 1) - 1 = i
                              /\ i + 1 # 1 /\ i \in 1 .. N
    BY <1>2
  <2>2. \A i \in 1 .. N - 1 : Push(x, l)[i + 1] = l[i]
    BY <1>4, <2>1
  <2>3. 1 \in 1 .. N /\ N \in 1 .. N /\ Push(x, l)[1] = x
    BY <1>2, <1>4
  <2> QED BY <2>1, <2>2, <2>3 DEF Window
<1>6. A \in SUBSET (1 .. N) /\ B \in SUBSET (1 .. N)
  BY DEF Window
<1> HIDE DEF A, B, N
<1>7. Cardinality(B) = Cardinality(A) + (IF 1 \in B THEN 1 ELSE 0) - (IF N \in A THEN 1 ELSE 0)
  BY <1>2, <1>5, <1>6, ShiftCount
<1>8. Sign(b, x) = (IF 1 \in B THEN 1 ELSE 0) /\ Sign(b, l[N]) = (IF N \in A THEN 1 ELSE 0)
  BY <1>5 DEF Sign
<1> QED BY <1>3, <1>7, <1>8 DEF x, l, B

(* What a bell does to one series.                                          *)
LEMMA CycleOfSeries ==
    ASSUME IInv, NEW r \in Readings, NEW w \in SUBSET Rules, Cycle(r, w), NEW s \in Series
    PROVE  LET x   == Outcome(s, r)
               due == ShallTriggerInvokeCycle(SourceOf[s])
           IN  /\ moving'[s] = IF due THEN Moved(s, x) ELSE moving[s]
               /\ log'[s] = IF due THEN Push(x, Backfilled(s, x)) ELSE log[s]
               /\ started'[s] = (started[s] \/ due)
BY DEF Cycle

LEMMA CycleIInv == ASSUME IInv, NEW r \in Readings, NEW w \in SUBSET Rules, Cycle(r, w)
                   PROVE  IInv'
<1> DEFINE due(s) == ShallTriggerInvokeCycle(SourceOf[s])
           x(s) == Outcome(s, r)
<1>1. \A s \in Series :
         /\ moving'[s] = IF due(s) THEN Moved(s, x(s)) ELSE moving[s]
         /\ log'[s] = IF due(s) THEN Push(x(s), Backfilled(s, x(s))) ELSE log[s]
         /\ started'[s] = (started[s] \/ due(s))
  BY CycleOfSeries
<1>2. DOMAIN moving' = Series /\ DOMAIN log' = Series
      /\ started' = [s \in Series |-> started[s] \/ due(s)]
  BY DEF Cycle
<1> HIDE DEF due
<1>3. LogTyped'
  <2>1. ASSUME NEW s \in Series PROVE DOMAIN (log'[s]) = 1 .. LogSize(s)
    <3>1. DOMAIN log[s] = 1 .. LogSize(s)
      BY DEF IInv, LogTyped
    <3>2. DOMAIN Backfilled(s, x(s)) = 1 .. LogSize(s)
      BY <3>1 DEF Backfilled
    <3> HIDE DEF x
    <3>3. DOMAIN Push(x(s), Backfilled(s, x(s))) = 1 .. LogSize(s)
      BY <3>2 DEF Push
    <3> QED BY <1>1, <3>1, <3>3
  <2> QED BY <1>2, <2>1 DEF LogTyped
<1>4. SlicesTyped'
  <2>1. ASSUME NEW s \in Series
        PROVE  /\ moving'[s] = [bins |-> moving'[s].bins, at |-> moving'[s].at]
               /\ moving'[s].bins \in [Bars(s) -> Int]
    <3>1. CASE ~due(s)
      BY <1>1, <3>1 DEF IInv, SlicesTyped
    <3>2. CASE due(s)
      <4>1. \A b \in Bars(s) : OpenMoving(s, x(s)).bins[b] \in Int
        <5> TAKE b \in Bars(s)
        <5>1. OpenMoving(s, x(s)).bins[b] = Cardinality(Window(s, b, Backfilled(s, x(s))))
          BY OpenedMatches
        <5>2. IsFiniteSet(Window(s, b, Backfilled(s, x(s))))
          <6>1. MovingHour(s) \in Int /\ 1 \in Int
            BY HourInLog
          <6>2. IsFiniteSet(1 .. MovingHour(s))
            BY <6>1, FS_Interval, Zenon
          <6>3. Window(s, b, Backfilled(s, x(s))) \subseteq 1 .. MovingHour(s)
            BY DEF Window
          <6> QED BY <6>2, <6>3, FS_Subset, Zenon
        <5>3. Cardinality(Window(s, b, Backfilled(s, x(s)))) \in Nat
          BY <5>2, FS_CardinalityType
        <5> QED BY <5>1, <5>3
      <4>2. moving'[s] = Moved(s, x(s))
        BY <1>1, <3>2
      <4>3. \A y, b : Sign(b, y) \in Int
        BY DEF Sign
      <4> HIDE DEF x
      <4>4. Moved(s, x(s)).bins \in [Bars(s) -> Int]
        BY <4>1, <4>3 DEF Moved
      <4>5. Moved(s, x(s)) = [bins |-> Moved(s, x(s)).bins, at |-> Moved(s, x(s)).at]
        BY DEF Moved
      <4> QED BY <4>2, <4>4, <4>5
    <3> QED BY <3>1, <3>2
  <2> QED BY <1>2, <2>1 DEF SlicesTyped
<1>5. BinsMatchLog'
  <2> SUFFICES ASSUME NEW s \in Series, started'[s] \/ Kind[s] # "value", NEW b \in Bars(s)
               PROVE  moving'[s].bins[b] = Cardinality(Window(s, b, log'[s]))
    BY DEF BinsMatchLog, Window, MovingHour, Bars, Logged, Outcomes
  <2>1. CASE due(s)
    <3>1. Moved(s, x(s)).bins[b] = Cardinality(Window(s, b, Push(x(s), Backfilled(s, x(s)))))
      BY MovedMatches
    <3> QED BY <1>1, <2>1, <3>1
  <2>2. CASE ~due(s)
    <3>1. started[s] \/ Kind[s] # "value"
      BY <1>1, <2>2
    <3>2. moving[s].bins[b] = Cardinality(Window(s, b, log[s]))
      BY <3>1 DEF IInv, BinsMatchLog, Window
    <3> QED BY <1>1, <2>2, <3>2
  <2> QED BY <2>1, <2>2
<1>6. (started \in [Series -> BOOLEAN])'
  BY <1>2 DEF IInv
<1> QED BY <1>3, <1>4, <1>5, <1>6 DEF IInv

LEMMA NextIInv == IInv /\ [Next]_vars => IInv'
<1> SUFFICES ASSUME IInv, [Next]_vars PROVE IInv'
  OBVIOUS
<1>1. CASE RingTaskBell
  BY <1>1, CycleIInv DEF RingTaskBell
<1>2. CASE SetTimeOnly \/ UNCHANGED vars
  <2>1. UNCHANGED <<log, started, moving>>
    BY <1>2 DEF SetTimeOnly, histoVars, vars
  <2> QED BY <2>1 DEF IInv, LogTyped, SlicesTyped, BinsMatchLog
<1> QED BY <1>1, <1>2 DEF Next

LEMMA Inductive == Spec => []IInv
BY InitIInv, NextIInv, PTL DEF Spec

-------------------------------------------------------------------------------
(* The histogram of the hour, which is only ever adjusted by what enters    *)
(* and what leaves, always shows what the log holds of that hour.           *)
THEOREM HistogramIsLog == Spec => []BinsMatchLog
<1>1. IInv => BinsMatchLog
  BY DEF IInv
<1> QED BY <1>1, Inductive, PTL

NoneBelowZero == \A s \in Series : started[s] \/ Kind[s] # "value" =>
                     \A b \in Bars(s) : moving[s].bins[b] \in 0 .. MovingHour(s)

(* So no bar of the hour, unsigned in the code, is ever taken below zero,   *)
(* nor above the hour.                                                      *)
THEOREM BarsInBounds == Spec => []NoneBelowZero
<1>1. IInv => NoneBelowZero
  <2> SUFFICES ASSUME IInv, NEW s \in Series, started[s] \/ Kind[s] # "value", NEW b \in Bars(s)
               PROVE  moving[s].bins[b] \in 0 .. MovingHour(s)
    BY DEF NoneBelowZero
  <2> DEFINE W == Window(s, b, log[s])
             N == MovingHour(s)
  <2>1. moving[s].bins[b] = Cardinality(W)
    BY DEF IInv, BinsMatchLog, Window
  <2>2. N \in Nat \ {0} /\ N \in Int /\ 1 \in Int
    BY HourInLog
  <2>3. IsFiniteSet(1 .. N) /\ Cardinality(1 .. N) = IF 1 > N THEN 0 ELSE N - 1 + 1
    BY <2>2, FS_Interval, Zenon
  <2>4. W \subseteq 1 .. N
    BY DEF Window
  <2> HIDE DEF W, N
  <2>5. Cardinality(W) <= Cardinality(1 .. N) /\ IsFiniteSet(W)
    BY <2>3, <2>4, FS_Subset, Zenon
  <2>6. Cardinality(W) \in Nat
    BY <2>5, FS_CardinalityType
  <2> QED BY <2>1, <2>2, <2>3, <2>5, <2>6 DEF N
<1> QED BY <1>1, Inductive, PTL

-------------------------------------------------------------------------------
(* The log and the steps.  What a series came to in step i, counted from    *)
(* the newest, is at place k of its log when i is the age of its k-th last  *)
(* cycle, and a step of another age has nothing of the series.              *)

Period(s) == TriggersPerCycle[SourceOf[s]]
Until(s)  == untilCycle[SourceOf[s]]
Age(s, k) == Period(s) * k - Until(s) + 1

Marks == UNION {Outcomes(s) : s \in Series}
Step  == [at : Int, out : [Series -> SUBSET Marks]]

Typed == /\ ran \in Seq(Step) /\ triggers = Len(ran) /\ timestamp \in Int
         /\ odd \in Nat /\ unread \in BOOLEAN
         /\ DOMAIN timesHeld = 1 .. LogLen

LogHolds ==
    \A s \in Series : \A i \in 1 .. LogSize(s) :
        /\ log[s][i] \in Logged(s)
        /\ Kind[s] = "value" /\ started[s] => log[s][i] \in Values

Bells ==
    \A s \in Series : /\ started[s] <=> triggers > 0
                      /\ Until(s) \in 1 .. Period(s)
                      /\ triggers = 0 => Until(s) = 1

Dated == \A i \in 1 .. Len(ran) : i <= LogLen => timesHeld[i] = ran[i].at

Cycles ==
    \A s \in Series : \A i \in 1 .. Len(ran) :
        /\ ran[i].out[s] # {} => \E k \in Nat \ {0} : i = Age(s, k)
        /\ \A k \in 1 .. LogSize(s) : i = Age(s, k) => ran[i].out[s] = {log[s][k]}

FirstCycles == Len(ran) > 0 => \A s \in Series : ran[Len(ran)].out[s] # {}

Trace == Typed /\ LogHolds /\ Bells /\ Dated /\ Cycles /\ FirstCycles

LEMMA PeriodType ==
    ASSUME NEW s \in Series
    PROVE  /\ Period(s) \in Nat \ {0} /\ SourceOf[s] \in Source
           /\ LogSize(s) \in Nat /\ MovingHour(s) \in Nat \ {0} /\ MovingHour(s) <= LogSize(s)
           /\ LogSize(s) = LogLen \div Period(s) /\ HourLen = Period(s) * MovingHour(s)
<1>1. SourceOf[s] \in Source /\ Period(s) \in Nat \ {0} /\ HourLen % Period(s) = 0
  BY RateAssumption, SeriesAssumption DEF Period
<1>2. HourLen \in Nat /\ HourLen = Period(s) * (HourLen \div Period(s))
  BY <1>1, CalendarAssumption, Z3
<1> QED
  BY <1>1, <1>2, HourInLog DEF Period, LogSize, MovingHour

(* The step of a bell goes before all others.                               *)
LEMMA Prepended ==
    ASSUME NEW S, NEW q \in Seq(S), NEW e \in S
    PROVE  /\ <<e>> \o q \in Seq(S) /\ Len(<<e>> \o q) = Len(q) + 1
           /\ (<<e>> \o q)[1] = e
           /\ \A i \in 1 .. Len(q) : (<<e>> \o q)[i + 1] = q[i]
<1>1. /\ <<e>> \in Seq(S) /\ Len(<<e>>) = 1 /\ Len(q) \in Nat
  OBVIOUS
<1>2. <<e>> \o q \in Seq(S) /\ Len(<<e>> \o q) = Len(q) + 1
  BY <1>1
<1>3. \A i \in 1 .. Len(q) + 1 : (<<e>> \o q)[i] = IF i <= 1 THEN <<e>>[i] ELSE q[i - 1]
  BY <1>1
<1>4. (<<e>> \o q)[1] = e
  BY <1>1, <1>3
<1>5. \A i \in 1 .. Len(q) : (<<e>> \o q)[i + 1] = q[i]
  <2> TAKE i \in 1 .. Len(q)
  <2>1. i + 1 \in 1 .. Len(q) + 1 /\ ~(i + 1 <= 1) /\ (i + 1) - 1 = i
    BY <1>1
  <2> QED
    BY <1>3, <2>1
<1> QED
  BY <1>2, <1>4, <1>5

LEMMA Pushed ==
    ASSUME NEW n \in Nat \ {0}, NEW l, DOMAIN l = 1 .. n, NEW x
    PROVE  /\ DOMAIN Push(x, l) = 1 .. n
           /\ Push(x, l)[1] = x
           /\ \A i \in 1 .. n : i + 1 <= n => Push(x, l)[i + 1] = l[i]
BY DEF Push

(* A cycle comes to one of the outcomes of its series.                      *)
LEMMA OutcomeType ==
    ASSUME LogHolds, NEW r \in Readings, NEW s \in Series
    PROVE  Outcome(s, r) \in Outcomes(s)
<1>0. Kind[s] \in {"value", "state", "fact", "rule"}
  BY SeriesAssumption
<1>1. CASE Kind[s] = "value"
  <2>1. r[s] \in {"low", "high", "beyond", "invalid"}
    BY <1>1, ReadingsAssumption DEF Input, Values
  <2>2. 1 \in 1 .. LogSize(s)
    BY HourInLog
  <2>3. Held(s) \in Values
    BY <1>1, <2>2 DEF Held, LogHolds, Values
  <2> QED
    BY <1>1, <2>1, <2>3 DEF Outcome, DropBin, Outcomes, Values
<1>2. CASE Kind[s] = "state"
  BY <1>2 DEF Outcome, AnalogStateOf, Outcomes, AnalogState
<1>3. CASE Kind[s] \in {"fact", "rule"}
  BY <1>3, ReadingsAssumption DEF Outcome, Input
<1> QED
  BY <1>0, <1>1, <1>2, <1>3

(* What a bell does to the axis, one series and the steps.                  *)
StepOf(r) == [at |-> timestamp, out |-> [s \in Series |->
                 IF ShallTriggerInvokeCycle(SourceOf[s]) THEN {Outcome(s, r)} ELSE {}]]

LEMMA StepAt ==
    ASSUME NEW r, NEW s \in Series
    PROVE  /\ StepOf(r).at = timestamp
           /\ StepOf(r).out[s] = IF ShallTriggerInvokeCycle(SourceOf[s])
                                 THEN {Outcome(s, r)} ELSE {}
BY DEF StepOf

LEMMA BellOnSteps ==
    ASSUME Typed, LogHolds, NEW r \in Readings, NEW w, Cycle(r, w)
    PROVE  /\ Typed' /\ Len(ran') = Len(ran) + 1 /\ Len(ran) \in Nat
           /\ ran'[1] = StepOf(r)
           /\ \A i \in 1 .. Len(ran) : ran'[i + 1] = ran[i]
<1>1. StepOf(r) \in Step
  <2>1. \A s \in Series : Outcome(s, r) \in Marks
    BY OutcomeType DEF Marks
  <2> QED
    BY <2>1 DEF StepOf, Step, Typed
<1>2. ran' = <<StepOf(r)>> \o ran
  BY DEF Cycle, StepOf
<1>3. ran \in Seq(Step) /\ Len(ran) \in Nat
  BY DEF Typed
<1>4. /\ ran' \in Seq(Step) /\ Len(ran') = Len(ran) + 1 /\ ran'[1] = StepOf(r)
      /\ \A i \in 1 .. Len(ran) : ran'[i + 1] = ran[i]
  BY <1>1, <1>2, <1>3, Prepended
<1>5. triggers' = Len(ran')
  BY <1>4 DEF Cycle, Trigger, Typed
<1>6. /\ timestamp' \in Int /\ odd' \in Nat /\ unread' \in BOOLEAN
      /\ DOMAIN timesHeld' = 1 .. LogLen
  <2>1. Trigger
    BY DEF Cycle
  <2>2. timestamp' = timestamp /\ unread' = FALSE /\ OutOfTurn(~unread) /\ TriggerAxis
    BY <2>1 DEF Trigger
  <2>3. odd' \in Nat
    BY <2>2 DEF OutOfTurn, Typed
  <2>4. DOMAIN timesHeld' = 1 .. LogLen
    BY <2>2 DEF TriggerAxis, Push, Typed
  <2> QED
    BY <2>2, <2>3, <2>4 DEF Typed
<1> QED
  BY <1>3, <1>4, <1>5, <1>6 DEF Typed

LEMMA BellOnDates ==
    ASSUME Typed, LogHolds, Dated, NEW r \in Readings, NEW w, Cycle(r, w)
    PROVE  Dated'
<1>1. /\ Len(ran') = Len(ran) + 1 /\ ran'[1].at = timestamp /\ Len(ran) \in Nat
      /\ \A i \in 1 .. Len(ran) : ran'[i + 1] = ran[i]
  <2>1. StepOf(r).at = timestamp
    BY DEF StepOf
  <2> QED
    BY <2>1, BellOnSteps
<1>2. LogLen \in Nat \ {0} /\ timestamp \in Int /\ triggers = Len(ran)
  BY CalendarAssumption DEF Typed
<1> SUFFICES ASSUME NEW i \in 1 .. Len(ran'), i <= LogLen PROVE timesHeld'[i] = ran'[i].at
  BY DEF Dated
<1>3. CASE triggers = 0
  <2>1. i = 1
    BY <1>1, <1>2, <1>3
  <2> QED
    BY <1>1, <1>2, <1>3, <2>1 DEF Cycle, Trigger, TriggerAxis
<1>4. CASE triggers # 0
  <2>1. timesHeld' = Push(timestamp, timesHeld) /\ DOMAIN timesHeld = 1 .. LogLen
    BY <1>4 DEF Cycle, Trigger, TriggerAxis, Typed
  <2>2. CASE i = 1
    BY <1>1, <1>2, <2>1, <2>2, Pushed
  <2>3. CASE i # 1
    <3>1. i - 1 \in 1 .. Len(ran) /\ i - 1 \in 1 .. LogLen /\ (i - 1) + 1 = i
      BY <1>1, <1>2, <2>3
    <3>2. timesHeld'[i] = timesHeld[i - 1] /\ ran'[i] = ran[i - 1]
      BY <1>1, <1>2, <2>1, <3>1, Pushed
    <3> QED
      BY <3>1, <3>2 DEF Dated
  <2> QED
    BY <2>2, <2>3
<1> QED
  BY <1>3, <1>4

LEMMA BellOnUntil ==
    ASSUME Bells, triggers \in Nat, NEW r, NEW w, Cycle(r, w), NEW s \in Series
    PROVE  /\ Until(s)' = IF Until(s) = 1 THEN Period(s) ELSE Until(s) - 1
           /\ ShallTriggerInvokeCycle(SourceOf[s]) <=> Until(s) = 1
           /\ triggers' = triggers + 1
BY PeriodType DEF Cycle, Trigger, ShallTriggerInvokeCycle, Until, Period

LEMMA BellOnBells ==
    ASSUME IInv, Typed, Bells, NEW r \in Readings, NEW w \in SUBSET Rules, Cycle(r, w)
    PROVE  Bells'
<1>1. triggers \in Nat
  BY DEF Typed
<1>2. ASSUME NEW s \in Series
      PROVE  started'[s] /\ Until(s)' \in 1 .. Period(s)
  <2>1. /\ Until(s)' = IF Until(s) = 1 THEN Period(s) ELSE Until(s) - 1
        /\ ShallTriggerInvokeCycle(SourceOf[s]) <=> Until(s) = 1
    BY <1>1, BellOnUntil
  <2>2. started'[s] = (started[s] \/ ShallTriggerInvokeCycle(SourceOf[s]))
    BY CycleOfSeries
  <2>3. /\ Until(s) \in 1 .. Period(s)
        /\ started[s] <=> triggers > 0
        /\ triggers = 0 => Until(s) = 1
    BY DEF Bells
  <2>4. started'[s]
    <3>1. started[s] \/ ShallTriggerInvokeCycle(SourceOf[s])
      BY <1>1, <2>1, <2>3
    <3> QED
      BY <2>2, <3>1, Zenon
  <2> QED
    BY <2>1, <2>3, <2>4, PeriodType
<1>3. triggers' = triggers + 1
  BY DEF Cycle, Trigger
<1>4. ASSUME NEW s \in Series
      PROVE  /\ started'[s] <=> triggers' > 0
             /\ Until(s)' \in 1 .. Period(s)'
             /\ triggers' = 0 => Until(s)' = 1
  BY <1>1, <1>2, <1>3 DEF Period
<1> QED
  BY <1>4 DEF Bells

(* What is in the log of a series that cycles.                              *)
LEMMA BellOnLog ==
    ASSUME IInv, LogHolds, NEW r \in Readings, NEW w \in SUBSET Rules, Cycle(r, w),
           NEW s \in Series
    PROVE  IF ShallTriggerInvokeCycle(SourceOf[s])
           THEN /\ log'[s][1] = Outcome(s, r)
                /\ \A i \in 1 .. LogSize(s) : i + 1 <= LogSize(s) =>
                      log'[s][i + 1] = IF FirstValue(s) THEN Outcome(s, r) ELSE log[s][i]
           ELSE log'[s] = log[s]
<1> DEFINE x == Outcome(s, r)
<1>1. log'[s] = IF ShallTriggerInvokeCycle(SourceOf[s]) THEN Push(x, Backfilled(s, x)) ELSE log[s]
  BY CycleOfSeries
<1>2. DOMAIN log[s] = 1 .. LogSize(s) /\ LogSize(s) \in Nat \ {0}
  BY HourInLog DEF IInv, LogTyped
<1> HIDE DEF x
<1>3. /\ DOMAIN Backfilled(s, x) = 1 .. LogSize(s)
      /\ \A i \in 1 .. LogSize(s) :
            Backfilled(s, x)[i] = IF FirstValue(s) THEN x ELSE log[s][i]
  BY <1>2 DEF Backfilled
<1>4. /\ Push(x, Backfilled(s, x))[1] = x
      /\ \A i \in 1 .. LogSize(s) : i + 1 <= LogSize(s) =>
             Push(x, Backfilled(s, x))[i + 1] = Backfilled(s, x)[i]
  BY <1>2, <1>3, Pushed
<1>5. CASE ShallTriggerInvokeCycle(SourceOf[s])
  BY <1>1, <1>3, <1>4, <1>5 DEF x
<1> QED
  BY <1>1, <1>5

LEMMA BellOnLogHolds ==
    ASSUME IInv, Typed, LogHolds, Bells,
           NEW r \in Readings, NEW w \in SUBSET Rules, Cycle(r, w)
    PROVE  LogHolds'
<1> SUFFICES ASSUME NEW s \in Series, NEW i \in 1 .. LogSize(s)
             PROVE  /\ log'[s][i] \in Logged(s)
                    /\ Kind[s] = "value" /\ started'[s] => log'[s][i] \in Values
  BY DEF LogHolds, LogSize, Logged, Outcomes
<1>1. LogSize(s) \in Nat
  BY HourInLog
<1>2. /\ Outcome(s, r) \in Logged(s)
      /\ Kind[s] = "value" => Outcome(s, r) \in Values
  BY OutcomeType, OutcomesLogged
<1>3. started'[s] = (started[s] \/ ShallTriggerInvokeCycle(SourceOf[s]))
  BY CycleOfSeries
<1>4. CASE ShallTriggerInvokeCycle(SourceOf[s])
  <2>1. CASE i = 1
    BY <1>2, <1>4, <2>1, BellOnLog
  <2>2. CASE i # 1
    <3>1. i - 1 \in 1 .. LogSize(s) /\ (i - 1) + 1 = i /\ i <= LogSize(s)
      BY <1>1, <2>2
    <3>2. log'[s][i] = IF FirstValue(s) THEN Outcome(s, r) ELSE log[s][i - 1]
      BY <1>4, <3>1, BellOnLog
    <3>3. Kind[s] = "value" /\ ~FirstValue(s) => started[s]
      BY DEF FirstValue
    <3> QED
      BY <1>2, <3>1, <3>2, <3>3 DEF LogHolds
  <2> QED
    BY <2>1, <2>2
<1>5. CASE ~ShallTriggerInvokeCycle(SourceOf[s])
  BY <1>3, <1>5, BellOnLog DEF LogHolds
<1> QED
  BY <1>4, <1>5

(* A cycle is one cycle older after a cycle, and one step older after any.  *)
LEMMA Aging ==
    ASSUME IInv, Typed, Bells, NEW r \in Readings, NEW w \in SUBSET Rules, Cycle(r, w),
           NEW s \in Series
    PROVE  IF ShallTriggerInvokeCycle(SourceOf[s])
           THEN /\ \A k \in Int : Age(s, k + 1)' = Age(s, k) + 1
                /\ Age(s, 1)' = 1
           ELSE \A k \in Int : Age(s, k)' = Age(s, k) + 1
<1>1. /\ Until(s)' = IF Until(s) = 1 THEN Period(s) ELSE Until(s) - 1
      /\ ShallTriggerInvokeCycle(SourceOf[s]) <=> Until(s) = 1
      /\ Until(s) \in Int /\ Period(s) \in Int /\ Period(s)' = Period(s)
  BY BellOnUntil, PeriodType DEF Typed, Bells, Period
<1>2. /\ \A k \in Int : Period(s) * (k + 1) = Period(s) * k + Period(s)
      /\ \A k \in Int : Period(s) * k \in Int
      /\ Period(s) * 1 = Period(s)
  BY <1>1
<1>3. \A k : Age(s, k)' = Period(s) * k - Until(s)' + 1 /\ Age(s, k) = Period(s) * k - Until(s) + 1
  BY <1>1 DEF Age
<1>4. CASE ShallTriggerInvokeCycle(SourceOf[s])
  <2>1. Until(s) = 1 /\ Until(s)' = Period(s)
    BY <1>1, <1>4
  <2>2. ASSUME NEW k \in Int PROVE Age(s, k + 1)' = Age(s, k) + 1
    <3>1. Age(s, k + 1)' = Period(s) * k + Period(s) - Period(s) + 1
      BY <1>2, <1>3, <2>1
    <3> QED
      BY <1>1, <1>2, <1>3, <2>1, <3>1
  <2>3. Age(s, 1)' = 1
    BY <1>1, <1>2, <1>3, <2>1
  <2> QED
    BY <1>4, <2>2, <2>3
<1>5. CASE ~ShallTriggerInvokeCycle(SourceOf[s])
  <2>1. Until(s)' = Until(s) - 1
    BY <1>1, <1>5
  <2>2. ASSUME NEW k \in Int PROVE Age(s, k)' = Age(s, k) + 1
    <3>1. Age(s, k)' = Period(s) * k - (Until(s) - 1) + 1
      BY <1>3, <2>1
    <3> QED
      BY <1>1, <1>2, <1>3, <3>1
  <2> QED
    BY <1>5, <2>2
<1> QED
  BY <1>4, <1>5

LEMMA AgeType ==
    ASSUME Bells, NEW s \in Series
    PROVE  /\ \A k \in Int : Age(s, k) \in Int
           /\ \A k \in Nat \ {0} : Age(s, k) >= 1
           /\ \A j, k \in Int : j < k => Age(s, j) < Age(s, k)
<1>1. Period(s) \in Nat \ {0} /\ Until(s) \in 1 .. Period(s)
  BY PeriodType DEF Bells
<1> DEFINE P == Period(s)
           u == Until(s)
<1>2. P \in Nat \ {0} /\ u \in 1 .. P
  BY <1>1
<1>3. \A k : Age(s, k) = P * k - u + 1
  BY DEF Age
<1> HIDE DEF P, u
<1>4. \A k \in Int : P * k \in Int
  BY <1>2
<1>5. ASSUME NEW j \in Int, NEW k \in Int, j < k PROVE P * j < P * k
  <2>1. k - j \in Nat \ {0}
    BY <1>5
  <2>2. P * (k - j) >= 1 /\ P * (k - j) \in Int
    BY <1>2, <2>1
  <2>3. P * k = P * j + P * (k - j)
    BY <1>2
  <2> QED
    BY <1>4, <2>2, <2>3
<1>6. P * 1 = P
  BY <1>2
<1>7. ASSUME NEW k \in Nat \ {0} PROVE P * k >= P
  BY <1>2, <1>4, <1>5, <1>6
<1> QED
  BY <1>2, <1>3, <1>4, <1>5, <1>7

LEMMA BellOnCycles ==
    ASSUME IInv, Trace, NEW r \in Readings, NEW w \in SUBSET Rules, Cycle(r, w)
    PROVE  Cycles' /\ FirstCycles'
<1>0. Typed /\ LogHolds /\ Bells /\ Cycles /\ FirstCycles /\ Bells'
  BY BellOnBells DEF Trace
<1>1. /\ Len(ran') = Len(ran) + 1 /\ Len(ran) \in Nat /\ triggers = Len(ran)
      /\ ran'[1] = StepOf(r)
      /\ \A i \in 1 .. Len(ran) : ran'[i + 1] = ran[i]
  BY <1>0, BellOnSteps DEF Typed
<1>2. ASSUME NEW s \in Series, NEW i \in 1 .. Len(ran')
      PROVE  /\ ran'[i].out[s] # {} => \E k \in Nat \ {0} : i = Age(s, k)'
             /\ \A k \in 1 .. LogSize(s) : i = Age(s, k)' => ran'[i].out[s] = {log'[s][k]}
  <2> DEFINE due == ShallTriggerInvokeCycle(SourceOf[s])
  <2>1. LogSize(s) \in Nat
    BY HourInLog
  <2>2. CASE i = 1
    <3>1. ran'[i].out[s] = IF due THEN {Outcome(s, r)} ELSE {}
      BY <1>1, <2>2, StepAt
    <3>2. CASE due
      <4>1. Age(s, 1)' = 1
        BY <1>0, <3>2, Aging
      <4>2. \A k \in Nat \ {0} : Age(s, k)' = 1 => k = 1
        <5> SUFFICES ASSUME NEW k \in Nat \ {0}, k # 1 PROVE Age(s, k)' # 1
          OBVIOUS
        <5>1. k - 1 \in Nat \ {0} /\ k - 1 \in Int /\ (k - 1) + 1 = k
          OBVIOUS
        <5>2. Age(s, k - 1) \in Int /\ Age(s, k - 1) >= 1
          BY <1>0, <5>1, AgeType
        <5>3. Age(s, k)' = Age(s, k - 1) + 1
          <6>1. \A m \in Int : Age(s, m + 1)' = Age(s, m) + 1
            BY <1>0, <3>2, Aging
          <6>2. Age(s, (k - 1) + 1)' = Age(s, k - 1) + 1
            BY <5>1, <6>1
          <6> QED
            BY <5>1, <6>2
        <5> QED
          BY <5>2, <5>3
      <4>3. log'[s][1] = Outcome(s, r)
        BY <1>0, <3>2, BellOnLog
      <4>4. ASSUME NEW k \in 1 .. LogSize(s), i = Age(s, k)' PROVE ran'[i].out[s] = {log'[s][k]}
        <5>1. k = 1
          BY <2>1, <2>2, <4>2, <4>4
        <5> QED
          BY <3>1, <3>2, <4>3, <5>1
      <4> QED
        BY <2>2, <4>1, <4>4
    <3>3. CASE ~due
      <4>1. \A k \in Nat \ {0} : Age(s, k) \in Int /\ Age(s, k) >= 1
        BY <1>0, AgeType
      <4>2. \A k \in Int : Age(s, k)' = Age(s, k) + 1
        BY <1>0, <3>3, Aging
      <4>3. ASSUME NEW k \in 1 .. LogSize(s) PROVE Age(s, k)' # 1
        <5>1. k \in Nat \ {0} /\ k \in Int
          BY <2>1
        <5>2. Age(s, k)' = Age(s, k) + 1
          BY <4>2, <5>1
        <5> QED
          BY <4>1, <5>1, <5>2
      <4> QED
        BY <2>2, <3>1, <3>3, <4>3
    <3> QED
      BY <3>2, <3>3
  <2>3. CASE i # 1
    <3> DEFINE j == i - 1
    <3>1. j \in 1 .. Len(ran) /\ i = j + 1 /\ ran'[i] = ran[j]
      BY <1>1, <2>3
    <3> HIDE DEF j
    <3>2. /\ ran[j].out[s] # {} => \E k \in Nat \ {0} : j = Age(s, k)
          /\ \A k \in 1 .. LogSize(s) : j = Age(s, k) => ran[j].out[s] = {log[s][k]}
      BY <1>0, <3>1 DEF Cycles
    <3>3. \A k \in Int : Age(s, k) \in Int
      BY <1>0, AgeType
    <3>4. CASE due
      <4>1. \A k \in Int : Age(s, k + 1)' = Age(s, k) + 1
        BY <1>0, <3>4, Aging
      <4>2. ran'[i].out[s] # {} => \E k \in Nat \ {0} : i = Age(s, k)'
        <5> SUFFICES ASSUME ran[j].out[s] # {} PROVE \E k \in Nat \ {0} : i = Age(s, k)'
          BY <3>1
        <5>1. PICK k \in Nat \ {0} : j = Age(s, k)
          BY <3>2
        <5>2. i = Age(s, k + 1)' /\ k + 1 \in Nat \ {0}
          BY <3>1, <4>1, <5>1
        <5> QED
          BY <5>2
      <4>3. ASSUME NEW k \in 1 .. LogSize(s), i = Age(s, k)' PROVE ran'[i].out[s] = {log'[s][k]}
        <5>1. k # 1
          <6>1. Age(s, 1)' = 1
            BY <1>0, <3>4, Aging
          <6> QED
            BY <2>3, <4>3, <6>1
        <5>2. k - 1 \in 1 .. LogSize(s) /\ (k - 1) + 1 = k /\ k <= LogSize(s) /\ k - 1 \in Int
          BY <2>1, <5>1
        <5>3. j = Age(s, k - 1)
          <6>1. Age(s, k)' = Age(s, k - 1) + 1 /\ Age(s, k - 1) \in Int
            BY <3>3, <4>1, <5>2
          <6> QED
            BY <3>1, <4>3, <6>1
        <5>4. ran[j].out[s] = {log[s][k - 1]}
          BY <3>2, <5>2, <5>3
        <5>5. ~FirstValue(s)
          <6>1. Len(ran) > 0
            BY <1>1, <3>1
          <6> QED
            BY <1>0, <1>1, <6>1 DEF FirstValue, Bells
        <5>6. log'[s][k] = log[s][k - 1]
          BY <1>0, <3>4, <5>2, <5>5, BellOnLog
        <5> QED
          BY <3>1, <5>4, <5>6
      <4> QED
        BY <4>2, <4>3
    <3>5. CASE ~due
      <4>1. \A k \in Int : Age(s, k)' = Age(s, k) + 1
        BY <1>0, <3>5, Aging
      <4>2. log'[s] = log[s]
        BY <1>0, <3>5, BellOnLog
      <4>3. ASSUME NEW k \in Int PROVE i = Age(s, k)' <=> j = Age(s, k)
        <5>1. Age(s, k)' = Age(s, k) + 1 /\ Age(s, k) \in Int
          BY <3>3, <4>1
        <5> QED
          BY <1>1, <3>1, <5>1
      <4>4. \A k \in 1 .. LogSize(s) : k \in Int
        OBVIOUS
      <4>5. ASSUME ran'[i].out[s] # {} PROVE \E k \in Nat \ {0} : i = Age(s, k)'
        BY <3>1, <3>2, <4>3, <4>5
      <4>6. ASSUME NEW k \in 1 .. LogSize(s), i = Age(s, k)' PROVE ran'[i].out[s] = {log'[s][k]}
        BY <3>1, <3>2, <4>2, <4>3, <4>4, <4>6
      <4> QED
        BY <4>5, <4>6
    <3> QED
      BY <3>4, <3>5
  <2> QED
    BY <2>2, <2>3
<1>3. Cycles'
  BY <1>2 DEF Cycles, LogSize
<1>4. FirstCycles'
  <2> SUFFICES ASSUME NEW s \in Series PROVE ran'[Len(ran')].out[s] # {}
    BY DEF FirstCycles
  <2>1. CASE Len(ran) = 0
    <3>1. ShallTriggerInvokeCycle(SourceOf[s])
      <4>1. triggers = 0 /\ Until(s) = 1
        BY <1>0, <1>1, <2>1 DEF Bells
      <4> QED
        BY <4>1 DEF ShallTriggerInvokeCycle, Until
    <3>2. ran'[1].out[s] = {Outcome(s, r)}
      BY <1>1, <3>1 DEF StepOf
    <3> QED
      BY <1>1, <2>1, <3>2
  <2>2. CASE Len(ran) # 0
    <3>1. Len(ran) \in 1 .. Len(ran)
      BY <1>1, <2>2
    <3>2. ran'[Len(ran')] = ran[Len(ran)]
      BY <1>1, <3>1
    <3> QED
      BY <1>0, <1>1, <2>2, <3>2 DEF FirstCycles
  <2> QED
    BY <2>1, <2>2
<1> QED
  BY <1>3, <1>4

LEMMA InitTrace == Init => Trace
<1> SUFFICES ASSUME Init PROVE Trace
  OBVIOUS
<1>1. /\ ran = <<>> /\ triggers = 0 /\ timestamp = 0 /\ odd = 0 /\ unread = FALSE
      /\ timesHeld = [i \in 1 .. LogLen |-> 0]
      /\ untilCycle = [o \in Source |-> 1]
      /\ log = [s \in Series |-> [i \in 1 .. LogSize(s) |-> Unavail]]
      /\ \A s \in Series : ~started[s]
  BY DEF Init, InitClock
<1>2. Typed
  <2>1. <<>> \in Seq(Step) /\ Len(<<>>) = 0
    OBVIOUS
  <2>2. DOMAIN timesHeld = 1 .. LogLen
    BY <1>1
  <2>3. timestamp \in Int /\ odd \in Nat /\ triggers = Len(ran)
    BY <1>1, <2>1
  <2>4. unread \in BOOLEAN /\ ran \in Seq(Step)
    BY <1>1, <2>1
  <2> QED
    BY <2>2, <2>3, <2>4 DEF Typed
<1>3. LogHolds
  BY <1>1, OutcomesLogged DEF LogHolds
<1>4. Bells
  <2>1. ASSUME NEW s \in Series PROVE Until(s) = 1 /\ Period(s) \in Nat \ {0}
    BY <1>1, PeriodType DEF Until
  <2> QED
    BY <1>1, <2>1 DEF Bells
<1>5. Len(ran) = 0 /\ 1 .. Len(ran) = {}
  BY <1>1
<1>6. Dated /\ Cycles /\ FirstCycles
  BY <1>5 DEF Dated, Cycles, FirstCycles
<1> QED
  BY <1>2, <1>3, <1>4, <1>6 DEF Trace

LEMMA NextTrace == IInv /\ Trace /\ [Next]_vars => Trace'
<1> SUFFICES ASSUME IInv, Trace, [Next]_vars PROVE Trace'
  OBVIOUS
<1>1. ASSUME NEW r \in Readings, NEW w \in SUBSET Rules, Cycle(r, w) PROVE Trace'
  BY <1>1, BellOnSteps, BellOnLogHolds, BellOnBells, BellOnDates, BellOnCycles DEF Trace
<1>2. CASE RingTaskBell
  BY <1>1, <1>2 DEF RingTaskBell
<1>3. CASE SetTimeOnly \/ UNCHANGED vars
  <2>1. UNCHANGED <<ran, triggers, untilCycle, timesHeld, log, started>>
    BY <1>3 DEF SetTimeOnly, SetTime, SetTimeFromPort, histoVars, vars, clockVars
  <2>2. timestamp' \in Int /\ odd' \in Nat /\ unread' \in BOOLEAN
    <3>1. CASE SetTimeOnly
      <4>1. PICK t \in 1 .. MaxTime : SetTimeFromPort(t)
        BY <3>1 DEF SetTimeOnly, SetTime
      <4>2. timestamp' = t /\ unread' = TRUE
            /\ (odd' = odd + 1 \/ odd' = odd + 0)
        BY <4>1 DEF SetTimeFromPort, OutOfTurn
      <4> QED
        BY <4>2 DEF Trace, Typed
    <3>2. CASE UNCHANGED vars
      BY <3>2 DEF vars, clockVars, Trace, Typed
    <3> QED
      BY <1>3, <3>1, <3>2
  <2>3. Typed'
    BY <2>1, <2>2 DEF Trace, Typed
  <2>4. LogHolds' /\ Bells' /\ Dated'
    BY <2>1 DEF Trace, LogHolds, Bells, Dated, Until
  <2>5. Cycles' /\ FirstCycles'
    BY <2>1 DEF Trace, Cycles, FirstCycles, Age, Until, Period
  <2> QED
    BY <2>3, <2>4, <2>5 DEF Trace
<1> QED
  BY <1>2, <1>3 DEF Next

LEMMA TraceHolds == Spec => [](IInv /\ Trace)
<1>1. Init => IInv /\ Trace
  BY InitIInv, InitTrace
<1>2. IInv /\ Trace /\ [Next]_vars => IInv' /\ Trace'
  BY NextIInv, NextTrace
<1> QED
  BY <1>1, <1>2, PTL DEF Spec

-------------------------------------------------------------------------------
(* What a snapshot holds: at place p, the step that was the p-th newest     *)
(* when it was taken, and of a slow series a cycle near that step.          *)

Place(r, p) == triggers - snap[r].step + p

Near(s, j, i) == j - i < Period(s) /\ i - j < Period(s)

Fits(sn, n, q) ==
    \A r \in Rules : sn[r] # <<>> =>
        /\ sn[r].step \in Nat /\ sn[r].step <= n
        /\ \A p \in 1 .. SnapshotSize : n - sn[r].step + p <= Len(q) =>
              /\ sn[r].axis[p] = q[n - sn[r].step + p].at
              /\ \A s \in Series : \E j \in 1 .. Len(q) :
                    Near(s, j, n - sn[r].step + p) /\ q[j].out[s] = {sn[r].of[s][p]}

Snapped == Fits(snap, triggers, ran)

(* Places of the axis by the cycles of a slow series.                       *)
LEMMA Pasting ==
    ASSUME NEW P \in Nat \ {0}, NEW n \in Nat, NEW m \in Nat, n % P = 0, n <= m,
           NEW p \in 1 .. n
    PROVE  /\ ((p - 1) \div P) + 1 \in 1 .. (m \div P)
           /\ P * ((p - 1) \div P) <= p - 1 /\ p <= P * (((p - 1) \div P) + 1)
<1> DEFINE c == (p - 1) \div P
           N == n \div P
           M == m \div P
<1>1. /\ c \in Nat /\ P * c <= p - 1 /\ p - 1 < P * c + P
      /\ N \in Nat /\ n = P * N
      /\ M \in Nat /\ P * M <= m /\ m < P * M + P
  BY Z3
<1> HIDE DEF c, N, M
<1>2. P * (c + 1) = P * c + P /\ P * (M + 1) = P * M + P
  BY <1>1
<1>3. c < M
  <2> SUFFICES ASSUME M <= c PROVE FALSE
    BY <1>1
  <2>1. P * M <= P * c
    BY <1>1
  <2>2. N > c
    <3> SUFFICES ASSUME N <= c PROVE FALSE
      BY <1>1
    <3>1. P * N <= P * c
      BY <1>1
    <3> QED
      BY <1>1, <3>1
  <2>3. N >= M + 1
    BY <1>1, <2>2
  <2>4. P * N >= P * (M + 1)
    BY <1>1, <2>3
  <2> QED
    BY <1>1, <1>2, <2>4
<1>4. c + 1 \in 1 .. M /\ P * c <= p - 1 /\ p <= P * (c + 1)
  BY <1>1, <1>2, <1>3
<1> QED
  BY <1>4 DEF c, M

(* The cycle whose outcome is pasted at place p is near the p-th step.      *)
LEMMA PastedNear ==
    ASSUME Trace, NEW s \in Series, NEW p \in 1 .. SnapshotSize, p <= Len(ran)
    PROVE  \E j \in 1 .. Len(ran) : /\ Near(s, j, p)
                                    /\ ran[j].out[s] = {log[s][((p - 1) \div Period(s)) + 1]}
<1> DEFINE P == Period(s)
           u == Until(s)
           c == (p - 1) \div Period(s)
           n == Len(ran)
           L == LogSize(s)
<1>0. /\ P \in Nat \ {0} /\ u \in 1 .. P /\ n \in Nat /\ p \in 1 .. n /\ L \in Nat
      /\ LogLen \in Nat /\ SnapshotSize \in 1 .. LogLen /\ SnapshotSize % P = 0
      /\ L = LogLen \div P
  BY PeriodType, SnapshotAssumption, CalendarAssumption DEF Trace, Bells, Typed, Period
<1>1. c + 1 \in 1 .. L /\ P * c <= p - 1 /\ p <= P * (c + 1) /\ c \in Int
  <2>1. /\ ((p - 1) \div P) + 1 \in 1 .. (LogLen \div P)
        /\ P * ((p - 1) \div P) <= p - 1 /\ p <= P * (((p - 1) \div P) + 1)
    <3>1. SnapshotSize \in Nat /\ SnapshotSize <= LogLen
      BY <1>0
    <3> QED
      BY <1>0, <3>1, Pasting
  <2>2. (p - 1) \div P \in Int
    BY <1>0
  <2> QED
    BY <1>0, <2>1, <2>2
<1>2. \A k : Age(s, k) = P * k - u + 1
  BY DEF Age
<1>3. PICK q \in Nat \ {0} : n = Age(s, q)
  <2>1. n \in 1 .. n /\ n > 0
    BY <1>0
  <2>2. ran[n].out[s] # {}
    BY <2>1 DEF Trace, FirstCycles
  <2> QED
    BY <2>1, <2>2 DEF Trace, Cycles
<1>4. \A i, k \in Int : i < k => Age(s, i) < Age(s, k)
  BY AgeType DEF Trace
<1>5. \A k \in Int : Age(s, k) \in Int
  BY AgeType DEF Trace
<1>6. Age(s, c + 1) >= 1
  BY <1>1, AgeType DEF Trace
<1> DEFINE j == Age(s, c + 1)
<1>7. j = P * (c + 1) - u + 1 /\ Age(s, c) = P * c - u + 1 /\ j \in Int /\ Age(s, c) \in Int
  BY <1>1, <1>2, <1>5
<1> HIDE DEF P, u, n, c, L, j
<1>8. /\ P * (c + 1) = P * c + P /\ P * c \in Int /\ c \in Int /\ p \in Int
  BY <1>0, <1>1
<1>9. j - p < P /\ p - j < P
  BY <1>0, <1>1, <1>7, <1>8
<1>10. j \in 1 .. n
  <2>1. CASE c + 1 < q
    BY <1>0, <1>3, <1>4, <1>6, <1>7, <1>8, <2>1 DEF j
  <2>2. CASE c + 1 = q
    BY <1>0, <1>3, <1>6, <1>7, <2>2 DEF j
  <2>3. CASE q < c + 1
    <3>1. Age(s, q) <= Age(s, c)
      <4>1. CASE q < c
        <5>1. Age(s, q) < Age(s, c)
          BY <1>4, <1>8, <4>1
        <5> QED
          BY <1>0, <1>3, <1>7, <5>1
      <4>2. CASE q = c
        BY <1>0, <1>3, <4>2
      <4> QED
        BY <1>8, <2>3, <4>1, <4>2
    <3>2. Age(s, c) < p
      BY <1>0, <1>1, <1>7, <1>8
    <3> QED
      BY <1>0, <1>3, <1>7, <3>1, <3>2
  <2> QED
    BY <1>8, <2>1, <2>2, <2>3
<1>11. ran[j].out[s] = {log[s][c + 1]}
  BY <1>1, <1>10 DEF Trace, Cycles, n, L, j
<1> QED
  BY <1>9, <1>10, <1>11 DEF n, P, c, Near

AllNear == \A s \in Series, p \in 1 .. SnapshotSize : p <= Len(ran) =>
    \E j \in 1 .. Len(ran) : /\ Near(s, j, p)
                             /\ ran[j].out[s] = {log[s][((p - 1) \div Period(s)) + 1]}

LEMMA NearThen == Trace => AllNear
BY PastedNear DEF AllNear

LEMMA BellOnSnapshots ==
    ASSUME IInv, Trace, Snapped, NEW r \in Readings, NEW w \in SUBSET Rules, Cycle(r, w)
    PROVE  Snapped'
<1>0. Trace' /\ AllNear'
  <2>1. [Next]_vars
    BY DEF Next, RingTaskBell
  <2>2. Trace'
    BY <2>1, NextTrace
  <2>3. AllNear'
    BY <2>2, NearThen, PTL
  <2> QED
    BY <2>2, <2>3
<1>1. triggers \in Nat /\ triggers = Len(ran) /\ triggers' = triggers + 1
  BY DEF Trace, Typed, Cycle, Trigger
<1>2. /\ Len(ran') = Len(ran) + 1
      /\ \A i \in 1 .. Len(ran) : ran'[i + 1] = ran[i]
  BY BellOnSteps DEF Trace
<1> SUFFICES ASSUME NEW f \in Rules, snap'[f] # <<>>
    PROVE  /\ snap'[f].step \in Nat /\ snap'[f].step <= triggers'
           /\ \A p \in 1 .. SnapshotSize : Place(f, p)' <= Len(ran') =>
                 /\ snap'[f].axis[p] = ran'[Place(f, p)'].at
                 /\ \A s \in Series : \E j \in 1 .. Len(ran') :
                       Near(s, j, Place(f, p)') /\ ran'[j].out[s] = {snap'[f].of[s][p]}
  BY DEF Snapped, Fits, Place, Near, Period
<1>3. snap'[f] = CreateSnapshot \/ snap'[f] = snap[f]
  BY DEF Cycle
<1>4. CASE snap'[f] = CreateSnapshot
  <2>1. /\ snap'[f].step = triggers'
        /\ \A p \in Int : Place(f, p)' = p
    BY <1>1, <1>4 DEF CreateSnapshot, Place
  <2>2. ASSUME NEW p \in 1 .. SnapshotSize, p <= Len(ran')
        PROVE  snap'[f].axis[p] = ran'[p].at
    <3>1. snap'[f].axis[p] = timesHeld'[p]
      BY <1>4 DEF CreateSnapshot
    <3>2. p \in 1 .. Len(ran') /\ p <= LogLen
      BY <1>1, <1>2, <2>2, SnapshotAssumption, CalendarAssumption
    <3> QED
      BY <1>0, <3>1, <3>2 DEF Trace, Dated
  <2>3. ASSUME NEW p \in 1 .. SnapshotSize, p <= Len(ran'), NEW s \in Series
        PROVE  \E j \in 1 .. Len(ran') :
                  Near(s, j, p) /\ ran'[j].out[s] = {snap'[f].of[s][p]}
    <3>1. snap'[f].of[s][p] = log'[s][((p - 1) \div Period(s)) + 1]
      BY <1>4 DEF CreateSnapshot, Pasted, Period
    <3>2. \E j \in 1 .. Len(ran') :
             /\ Near(s, j, p)
             /\ ran'[j].out[s] = {log'[s][((p - 1) \div Period(s)) + 1]}
      BY <1>0, <2>3 DEF AllNear, Near, Period
    <3> QED
      BY <3>1, <3>2
  <2>4. ASSUME NEW p \in 1 .. SnapshotSize, Place(f, p)' <= Len(ran')
        PROVE  /\ snap'[f].axis[p] = ran'[Place(f, p)'].at
               /\ \A s \in Series : \E j \in 1 .. Len(ran') :
                     Near(s, j, Place(f, p)') /\ ran'[j].out[s] = {snap'[f].of[s][p]}
    <3>1. Place(f, p)' = p
      BY <2>1
    <3> QED
      BY <2>2, <2>3, <2>4, <3>1
  <2>5. snap'[f].step \in Nat /\ snap'[f].step <= triggers'
    BY <1>1, <2>1
  <2> QED
    BY <2>4, <2>5
<1>5. CASE snap'[f] = snap[f]
  <2>1. snap[f].step \in Nat /\ snap[f].step <= triggers /\ snap[f] # <<>>
    BY <1>5 DEF Snapped, Fits
  <2>2. ASSUME NEW p \in 1 .. SnapshotSize, Place(f, p)' <= Len(ran')
        PROVE  /\ snap'[f].axis[p] = ran'[Place(f, p)'].at
               /\ \A s \in Series : \E j \in 1 .. Len(ran') :
                     Near(s, j, Place(f, p)') /\ ran'[j].out[s] = {snap'[f].of[s][p]}
    <3> DEFINE i == Place(f, p)
    <3>0. p \in Int /\ p >= 1
      OBVIOUS
    <3>1. Place(f, p)' = i + 1 /\ i \in Int /\ i >= 1
      BY <1>1, <1>5, <2>1, <3>0 DEF Place
    <3>2. /\ snap[f].axis[p] = ran[i].at
          /\ \A s \in Series : \E j \in 1 .. Len(ran) :
                Near(s, j, i) /\ ran[j].out[s] = {snap[f].of[s][p]}
      <4>1. i <= Len(ran) /\ i \in 1 .. Len(ran)
        BY <1>1, <1>2, <2>2, <3>1
      <4> QED
        BY <2>1, <4>1 DEF Snapped, Fits, Place
    <3> HIDE DEF i
    <3>3. ran'[i + 1] = ran[i] /\ i \in Int
      <4>1. i \in 1 .. Len(ran)
        BY <1>1, <1>2, <2>2, <3>1
      <4> QED
        BY <1>2, <4>1
    <3>4. ASSUME NEW s \in Series
          PROVE  \E j \in 1 .. Len(ran') :
                    Near(s, j, i + 1) /\ ran'[j].out[s] = {snap'[f].of[s][p]}
      <4>1. PICK j \in 1 .. Len(ran) : Near(s, j, i) /\ ran[j].out[s] = {snap[f].of[s][p]}
        BY <3>2
      <4>2. j + 1 \in 1 .. Len(ran') /\ ran'[j + 1] = ran[j]
        BY <1>1, <1>2
      <4>3. Near(s, j + 1, i + 1)
        <5>1. (j + 1) - (i + 1) = j - i /\ (i + 1) - (j + 1) = i - j
          BY <1>1, <3>3
        <5> QED
          BY <4>1, <5>1 DEF Near
      <4> QED
        BY <1>5, <4>1, <4>2, <4>3
    <3> QED
      BY <1>5, <3>1, <3>2, <3>3, <3>4
  <2>3. snap'[f].step \in Nat /\ snap'[f].step <= triggers'
    BY <1>1, <1>5, <2>1
  <2> QED
    BY <2>2, <2>3
<1> QED
  BY <1>3, <1>4, <1>5

LEMMA SnapshotsHold == Spec => [](IInv /\ Trace /\ Snapped)
<1>1. Init => Snapped
  BY DEF Init, Snapped, Fits
<1>2. IInv /\ Trace /\ Snapped /\ [Next]_vars => Snapped'
  <2> SUFFICES ASSUME IInv, Trace, Snapped, [Next]_vars PROVE Snapped'
    OBVIOUS
  <2>1. CASE RingTaskBell
    BY <2>1, BellOnSnapshots DEF RingTaskBell
  <2>2. CASE SetTimeOnly \/ UNCHANGED vars
    <3>1. ran' = ran /\ triggers' = triggers /\ snap' = snap
      BY <2>2 DEF SetTimeOnly, SetTime, SetTimeFromPort, vars, clockVars
    <3> QED
      BY <3>1 DEF Snapped
  <2> QED
    BY <2>1, <2>2 DEF Next
<1> QED
  BY <1>1, <1>2, TraceHolds, PTL DEF Spec

(* The axis and the series show a step in the same place, in real time and  *)
(* in the snapshot of a failure, where a slow series may be off by less     *)
(* than one of its cycles; for any rates that divide the snapshot.          *)
THEOREM TracesAligned == Spec => []TracesLineUp
<1>1. IInv /\ Trace /\ Snapped => TracesLineUp
  <2> SUFFICES ASSUME Trace, Snapped PROVE TracesLineUp
    OBVIOUS
  <2>1. /\ SnapshotSize \in Nat /\ SnapshotSize <= LogLen /\ LogLen \in Nat
        /\ triggers = Len(ran) /\ Len(ran) \in Nat
    BY SnapshotAssumption, CalendarAssumption DEF Trace, Typed
  <2>2. ASSUME NEW i \in 1 .. SnapshotSize
        PROVE  SnapshotSize + 1 - i \in 1 .. SnapshotSize
    BY <2>1
  <2>3. ASSUME NEW i \in 1 .. SnapshotSize, SnapshotSize + 1 - i <= Len(ran)
        PROVE  /\ DisplayAxisInRealtime[i] = ran[SnapshotSize + 1 - i].at
               /\ \A s \in Series : TriggersPerCycle[SourceOf[s]] = 1 =>
                     ran[SnapshotSize + 1 - i].out[s] = {SayGuiStatesFromBindexLog(s)[i]}
    <3> DEFINE step == SnapshotSize + 1 - i
    <3>1. /\ DisplayAxisInRealtime[i] = timesHeld[step]
          /\ \A s : SayGuiStatesFromBindexLog(s)[i] = log[s][step]
      BY DEF DisplayAxisInRealtime, SayGuiStatesFromBindexLog, OldToNew
    <3>2. step \in 1 .. Len(ran) /\ step <= LogLen /\ step \in 1 .. LogLen
      BY <2>1, <2>2, <2>3
    <3> HIDE DEF step
    <3>3. timesHeld[step] = ran[step].at
      BY <3>2 DEF Trace, Dated
    <3>4. ASSUME NEW s \in Series, Period(s) = 1
          PROVE  ran[step].out[s] = {log[s][step]}
      <4>1. Until(s) = 1
        BY <3>4 DEF Trace, Bells
      <4>2. Age(s, step) = step
        BY <3>2, <3>4, <4>1 DEF Age
      <4>3. step \in 1 .. LogSize(s)
        BY <2>1, <3>2, <3>4, PeriodType
      <4> QED
        BY <3>2, <4>2, <4>3 DEF Trace, Cycles
    <3> QED
      BY <3>1, <3>3, <3>4 DEF step, Period
  <2>4. ASSUME NEW f \in Rules, snap[f] # <<>>, NEW i \in 1 .. SnapshotSize,
               triggers - snap[f].step + SnapshotSize + 1 - i <= Len(ran)
        PROVE  LET step == triggers - snap[f].step + SnapshotSize + 1 - i
               IN  /\ DisplayAxisFromSnapshotSet(f)[i] = ran[step].at
                   /\ \A s \in Series : \E j \in DOMAIN ran :
                         /\ j - step < TriggersPerCycle[SourceOf[s]]
                         /\ step - j < TriggersPerCycle[SourceOf[s]]
                         /\ ran[j].out[s] = {SayGuiStatesFromSnapshotInSet(s, f)[i]}
    <3> DEFINE p == SnapshotSize + 1 - i
               step == triggers - snap[f].step + SnapshotSize + 1 - i
    <3>1. /\ DisplayAxisFromSnapshotSet(f)[i] = snap[f].axis[p]
          /\ \A s : SayGuiStatesFromSnapshotInSet(s, f)[i] = snap[f].of[s][p]
      BY DEF DisplayAxisFromSnapshotSet, SayGuiStatesFromSnapshotInSet, OldToNew
    <3>2. snap[f].step \in Nat
      BY <2>4 DEF Snapped, Fits
    <3>3. step = Place(f, p) /\ p \in 1 .. SnapshotSize
      <4>1. triggers - snap[f].step \in Int /\ i \in Int /\ SnapshotSize + 1 \in Int
        BY <2>1, <3>2
      <4>2. \A a \in Int : a + SnapshotSize + 1 - i = a + (SnapshotSize + 1 - i)
        BY <2>1, <4>1
      <4> QED
        BY <2>1, <2>2, <4>1, <4>2 DEF Place
    <3> HIDE DEF p
    <3>4. /\ snap[f].axis[p] = ran[step].at
          /\ \A s \in Series : \E j \in 1 .. Len(ran) :
                Near(s, j, step) /\ ran[j].out[s] = {snap[f].of[s][p]}
      <4>1. step <= Len(ran)
        BY <2>4
      <4> HIDE DEF step
      <4>2. /\ snap[f].axis[p] = ran[Place(f, p)].at
            /\ \A s \in Series : \E j \in 1 .. Len(ran) :
                  Near(s, j, Place(f, p)) /\ ran[j].out[s] = {snap[f].of[s][p]}
        <5>1. p \in 1 .. SnapshotSize /\ Place(f, p) <= Len(ran)
          BY <3>3, <4>1
        <5> QED
          BY <2>4, <5>1 DEF Snapped, Fits, Place
      <4> QED
        BY <3>3, <4>2
    <3>5. DOMAIN ran = 1 .. Len(ran)
      BY DEF Trace, Typed
    <3> HIDE DEF step
    <3>6. /\ DisplayAxisFromSnapshotSet(f)[i] = ran[step].at
          /\ \A s \in Series : \E j \in DOMAIN ran :
                /\ j - step < TriggersPerCycle[SourceOf[s]]
                /\ step - j < TriggersPerCycle[SourceOf[s]]
                /\ ran[j].out[s] = {SayGuiStatesFromSnapshotInSet(s, f)[i]}
      BY <3>1, <3>4, <3>5 DEF Near, Period
    <3> QED
      BY <3>6 DEF step
  <2> QED
    BY <2>3, <2>4 DEF TracesLineUp
<1> QED
  BY <1>1, SnapshotsHold, PTL

-------------------------------------------------------------------------------
(* Bars as shares.  The bars of what can be logged divide the cycles of a   *)
(* slice; those of the overview are parts of one another.                   *)

Shares(s, bins, n) ==
    /\ bins \in [Bars(s) -> Nat]
    /\ SumOf(bins, Logged(s)) = n
    /\ s \in Rules => /\ bins["fails"] <= bins["tests"]
                      /\ bins["tests"] <= bins["valids"]
                      /\ bins["valids"] <= n

(* A slice of n cycles; the bins of values wait for the first value.        *)
Divides(s, slice, n, open) ==
    /\ slice = [bins |-> slice.bins, at |-> slice.at]
    /\ IF Kind[s] = "value" /\ ~open THEN slice.bins = [b \in Bars(s) |-> 0]
       ELSE Shares(s, slice.bins, n)

AllDivide(s, slices, K, n, open) ==
    /\ DOMAIN slices = 1 .. K
    /\ \A i \in 1 .. K : Divides(s, slices[i], n, open)

Divided ==
    \A s \in Series :
        /\ Divides(s, moving[s], MovingHour(s), started[s])
        /\ AllDivide(s, hours[s], HoursInDay, MovingHour(s), started[s])
        /\ AllDivide(s, days[s], DaysInWeek, MovingHour(s) * HoursInDay, started[s])

LEMMA Triples == ASSUME NEW a, NEW b, NEW c PROVE IsFiniteSet({a, b, c})
<1>1. IsFiniteSet({a} \union {b})
  BY FS_Singleton, FS_AddElement
<1>2. IsFiniteSet(({a} \union {b}) \union {c})
  BY <1>1, FS_AddElement
<1>3. ({a} \union {b}) \union {c} = {a, b, c}
  OBVIOUS
<1> QED
  BY <1>2, <1>3

LEMMA FiniteLogged == ASSUME NEW s \in Series PROVE IsFiniteSet(Logged(s))
<1>1. /\ IsFiniteSet(Fail) /\ IsFiniteSet(Pass) /\ IsFiniteSet(Skip)
      /\ IsFiniteSet(FactState) /\ IsFiniteSet({"low", "high", "high"})
      /\ IsFiniteSet({"valid", "invalid", "invalid"})
  BY Triples DEF Fail, Pass, Skip, FactState
<1>2. IsFiniteSet(Values) /\ IsFiniteSet(AnalogState)
  BY <1>1 DEF Values, AnalogState
<1>3. IsFiniteSet(Fail \union Pass)
  BY <1>1, FS_Union
<1>4. IsFiniteSet(Fail \union Pass \union Skip)
  BY <1>1, <1>3, FS_Union
<1>5. IsFiniteSet(RuleState)
  BY <1>4, FS_AddElement DEF RuleState
<1>6. Kind[s] \in {"value", "state", "fact", "rule"}
  BY SeriesAssumption
<1>7. IsFiniteSet(Outcomes(s))
  BY <1>1, <1>2, <1>5, <1>6 DEF Outcomes
<1> QED
  BY <1>7, FS_AddElement DEF Logged

(* The bars of the overview are none of what can be logged.                 *)
LEMMA OverviewApart == ASSUME NEW s \in Series, NEW x \in Logged(s) PROVE x \notin Overview
<1>1. Kind[s] \in {"value", "state", "fact", "rule"}
  BY SeriesAssumption
<1>2. CASE x = Unavail
  BY <1>2 DEF Unavail, Overview
<1>3. CASE x \in Outcomes(s) /\ Kind[s] = "rule"
  BY <1>3 DEF Outcomes, RuleState, Fail, Pass, Skip, Overview
<1>4. CASE x \in Outcomes(s) /\ Kind[s] # "rule"
  BY <1>1, <1>4 DEF Outcomes, Values, AnalogState, FactState, Overview
<1> QED
  BY <1>2, <1>3, <1>4 DEF Logged

LEMMA OwnBar ==
    ASSUME NEW s \in Series, NEW x \in Logged(s), NEW b \in Logged(s)
    PROVE  b \in CountedIn(x) <=> x = b
BY OverviewApart DEF CountedIn, Overview

LEMMA BarsOf ==
    ASSUME NEW s \in Series
    PROVE  /\ Logged(s) \subseteq Bars(s)
           /\ s \in Rules => Overview \subseteq Bars(s)
           /\ s \in Rules <=> Kind[s] = "rule"
BY OutcomesLogged DEF Bars, Rules

(* Counts of a window are shares of it.                                     *)
LEMMA WindowShares ==
    ASSUME NEW s \in Series, NEW l, \A i \in 1 .. MovingHour(s) : l[i] \in Logged(s),
           NEW bins, bins = [b \in Bars(s) |-> Cardinality(Window(s, b, l))]
    PROVE  Shares(s, bins, MovingHour(s))
<1> DEFINE N == MovingHour(s)
<1>1. /\ N \in Nat /\ IsFiniteSet(1 .. N) /\ Cardinality(1 .. N) = N
  <2>1. N \in Nat \ {0} /\ N \in Int /\ 1 \in Int
    BY HourInLog
  <2>2. IsFiniteSet(1 .. N) /\ Cardinality(1 .. N) = IF 1 > N THEN 0 ELSE N - 1 + 1
    BY <2>1, FS_Interval, Zenon
  <2> HIDE DEF N
  <2> QED
    BY <2>1, <2>2
<1>2. ASSUME NEW b
      PROVE  /\ Window(s, b, l) \subseteq 1 .. N /\ IsFiniteSet(Window(s, b, l))
             /\ Cardinality(Window(s, b, l)) \in Nat /\ Cardinality(Window(s, b, l)) <= N
  <2>1. Window(s, b, l) \in SUBSET (1 .. N)
    BY DEF Window
  <2>2. IsFiniteSet(Window(s, b, l)) /\ Cardinality(Window(s, b, l)) <= Cardinality(1 .. N)
    BY <1>1, <2>1, FS_Subset
  <2> QED
    BY <1>1, <2>1, <2>2, FS_CardinalityType
<1>3. bins \in [Bars(s) -> Nat]
  BY <1>2
<1>4. SumOf(bins, Logged(s)) = N
  <2> DEFINE d == [i \in 1 .. N |-> l[i]]
             f == [b \in Logged(s) |-> Cardinality({i \in 1 .. N : d[i] = b})]
  <2>1. SumOf(f, Logged(s)) = N
    <3>1. \A i \in 1 .. N : d[i] \in Logged(s)
      OBVIOUS
    <3> HIDE DEF d
    <3>2. SumOf(f, Logged(s)) = Cardinality(1 .. N)
      BY <1>1, <3>1, FiniteLogged, SumOfClasses
    <3> QED
      BY <1>1, <3>2
  <2>2. ASSUME NEW b \in Logged(s) PROVE bins[b] = f[b]
    <3>1. Window(s, b, l) = {i \in 1 .. N : d[i] = b}
      BY OwnBar DEF Window
    <3> QED
      BY <3>1, BarsOf
  <2> HIDE DEF f
  <2> QED
    BY <2>1, <2>2, FiniteLogged, SumSame
<1>5. ASSUME s \in Rules
      PROVE  /\ bins["fails"] <= bins["tests"] /\ bins["tests"] <= bins["valids"]
             /\ bins["valids"] <= N
  <2>1. /\ bins["fails"] = Cardinality(Window(s, "fails", l))
        /\ bins["tests"] = Cardinality(Window(s, "tests", l))
        /\ bins["valids"] = Cardinality(Window(s, "valids", l))
    BY <1>5, BarsOf DEF Overview
  <2>2. ASSUME NEW x \in Logged(s)
        PROVE  /\ "fails" \in CountedIn(x) => "tests" \in CountedIn(x)
               /\ "tests" \in CountedIn(x) => "valids" \in CountedIn(x)
    BY OverviewApart DEF CountedIn, Overview
  <2>3. Window(s, "fails", l) \subseteq Window(s, "tests", l)
        /\ Window(s, "tests", l) \subseteq Window(s, "valids", l)
    BY <2>2 DEF Window
  <2> QED
    BY <1>2, <2>1, <2>3, FS_Subset
<1> QED
  BY <1>3, <1>4, <1>5 DEF Shares

(* All cycles in one bar.                                                   *)
LEMMA OneBar ==
    ASSUME NEW s \in Series, NEW x \in Logged(s), NEW n \in Nat,
           NEW bins, bins = [b \in Bars(s) |-> IF b = x THEN n ELSE 0]
    PROVE  Shares(s, bins, n)
<1>1. bins \in [Bars(s) -> Nat] /\ Logged(s) \subseteq Bars(s)
  BY BarsOf
<1>2. SumOf(bins, Logged(s)) = n
  <2> DEFINE f == [b \in Logged(s) |-> 0]
  <2>1. /\ \A b \in Logged(s) : f[b] \in Int /\ bins[b] \in Int
        /\ \A b \in Logged(s) \ {x} : bins[b] = f[b]
        /\ f[x] = 0 /\ bins[x] = n
    BY <1>1
  <2>2. SumOf(f, Logged(s)) = 0
    BY FiniteLogged, SumZero
  <2> HIDE DEF f
  <2>3. SumOf(bins, Logged(s)) = SumOf(f, Logged(s)) + (bins[x] - f[x])
    <3> DEFINE S == Logged(s)
               g == bins
    <3>1. /\ IsFiniteSet(S) /\ x \in S
          /\ \A b \in S : f[b] \in Int /\ g[b] \in Int
          /\ \A b \in S \ {x} : g[b] = f[b]
      BY <2>1, FiniteLogged
    <3> HIDE DEF S, g
    <3>2. SumOf(g, S) = SumOf(f, S) + (g[x] - f[x])
      BY <3>1, SumChange
    <3> QED
      BY <3>2 DEF S, g
  <2> QED
    BY <2>1, <2>2, <2>3
<1>3. s \in Rules => bins["fails"] = 0 /\ bins["tests"] = 0 /\ bins["valids"] = 0
  BY BarsOf, OverviewApart DEF Overview
<1> QED
  BY <1>1, <1>2, <1>3 DEF Shares

-------------------------------------------------------------------------------
(* Slices summed.                                                           *)

LEMMA SummedSum ==
    ASSUME NEW s \in Series, NEW slices, NEW b \in Bars(s)
    PROVE  Summed(s, slices).bins[b]
              = SumOf([i \in DOMAIN slices |-> slices[i].bins[b]], DOMAIN slices)
<1> DEFINE S    == DOMAIN slices
           t(i) == slices[i].bins[b]
           f    == [i \in DOMAIN slices |-> slices[i].bins[b]]
           P(g) == g = [q \in SUBSET S |-> IF q = {} THEN 0 ELSE t(Taken(q)) + g[q \ {Taken(q)}]]
<1>1. Summed(s, slices).bins[b] = (CHOOSE g : P(g))[S]
  BY DEF Summed, MapThenSumSet, MapThenFoldSet, Taken
<1>2. ASSUME NEW g PROVE P(g) <=> Sums(g, f, S)
  <2>1. \A q \in SUBSET S : q # {} => f[Taken(q)] = t(Taken(q))
    BY TakenIn
  <2> HIDE DEF f, t, S
  <2> QED
    BY <2>1 DEF Sums
<1>3. (CHOOSE g : P(g)) = TheSum(f, S)
  BY <1>2, Zenon DEF TheSum
<1> QED
  BY <1>1, <1>3, Unfold

(* K slices of n cycles are shares of all their cycles.                     *)
LEMMA SummedShares ==
    ASSUME NEW s \in Series, NEW K \in Nat, NEW n \in Nat, NEW slices,
           DOMAIN slices = 1 .. K, \A i \in 1 .. K : Shares(s, slices[i].bins, n)
    PROVE  Shares(s, Summed(s, slices).bins, n * K)
<1> DEFINE I == 1 .. K
           L == Logged(s)
           bins == Summed(s, slices).bins
           at(b) == [i \in I |-> slices[i].bins[b]]
           F == [i \in I |-> slices[i].bins]
<1>1. IsFiniteSet(I) /\ Cardinality(I) = K
  <2>1. 1 \in Int /\ K \in Int
    OBVIOUS
  <2>2. IsFiniteSet(1 .. K) /\ Cardinality(1 .. K) = IF 1 > K THEN 0 ELSE K - 1 + 1
    BY <2>1, FS_Interval, Zenon
  <2> QED
    BY <2>2
<1>2. \A b \in Bars(s) : bins[b] = SumOf(at(b), I)
  BY SummedSum
<1>3. \A i \in I, b \in Bars(s) : at(b)[i] = slices[i].bins[b] /\ at(b)[i] \in Nat
  BY DEF Shares
<1>4. bins = [b \in Bars(s) |-> bins[b]]
  BY DEF Summed
<1>5. IsFiniteSet(L) /\ L \subseteq Bars(s)
  BY FiniteLogged, BarsOf
<1>6. \A i \in I : F[i] = slices[i].bins
  OBVIOUS
<1> HIDE DEF I, L, at, bins, F
<1>7. ASSUME NEW b \in Bars(s) PROVE SumOf(at(b), I) \in Nat
  <2>1. \A i \in I : at(b)[i] \in Nat
    BY <1>3
  <2> QED
    BY <1>1, <2>1, SumNat
<1>8. bins \in [Bars(s) -> Nat]
  BY <1>2, <1>4, <1>7
<1>9. SumOf(bins, L) = n * K
  <2> DEFINE row == [i \in I |-> SumOf(F[i], L)]
             col == [b \in L |-> SumOf([i \in I |-> F[i][b]], I)]
  <2>1. SumOf(row, I) = SumOf(col, L)
    <3>1. ASSUME NEW i \in I, NEW b \in L PROVE F[i][b] \in Int
      BY <1>3, <1>5, <1>6
    <3> QED
      BY <1>1, <1>5, <3>1, SumSwap
  <2>2. \A i \in I : row[i] = n
    BY <1>6 DEF Shares, I, L
  <2>3. ASSUME NEW b \in L PROVE bins[b] = col[b]
    <3>1. [i \in I |-> F[i][b]] = at(b)
      BY <1>6 DEF at
    <3> QED
      BY <1>2, <1>5, <3>1
  <2> HIDE DEF row, col
  <2>4. SumOf(row, I) = n * K
    BY <1>1, <2>2, SumConst
  <2>5. SumOf(bins, L) = SumOf(col, L)
    BY <1>5, <2>3, SumSame
  <2> QED
    BY <2>1, <2>4, <2>5
<1>10. ASSUME s \in Rules
       PROVE  /\ bins["fails"] <= bins["tests"] /\ bins["tests"] <= bins["valids"]
              /\ bins["valids"] <= n * K
  <2>1. /\ "fails" \in Bars(s) /\ "tests" \in Bars(s) /\ "valids" \in Bars(s)
    BY <1>10, BarsOf DEF Overview
  <2>2. \A i \in I : /\ at("fails")[i] <= at("tests")[i]
                     /\ at("tests")[i] <= at("valids")[i]
                     /\ at("valids")[i] <= n
    BY <1>3, <1>10, <2>1 DEF Shares, I
  <2>3. SumOf(at("fails"), I) <= SumOf(at("tests"), I)
        /\ SumOf(at("tests"), I) <= SumOf(at("valids"), I)
    BY <1>1, <1>3, <2>1, <2>2, SumGrows
  <2> DEFINE all == [i \in I |-> n]
  <2>4. \A i \in I : all[i] = n
    OBVIOUS
  <2> HIDE DEF all
  <2>5. SumOf(at("valids"), I) <= SumOf(all, I)
    BY <1>1, <1>3, <2>1, <2>2, <2>4, SumGrows
  <2>6. SumOf(all, I) = n * K
    BY <1>1, <2>4, SumConst
  <2> QED
    BY <1>2, <2>1, <2>3, <2>5, <2>6
<1> QED
  BY <1>8, <1>9, <1>10 DEF Shares, bins, L

LEMMA SummedDivides ==
    ASSUME NEW s \in Series, NEW K \in Nat, NEW n \in Nat, NEW slices, NEW open,
           AllDivide(s, slices, K, n, open)
    PROVE  Divides(s, Summed(s, slices), n * K, open)
<1>0. Summed(s, slices) = [bins |-> Summed(s, slices).bins, at |-> Summed(s, slices).at]
  BY DEF Summed
<1>1. CASE Kind[s] = "value" /\ ~open
  <2> DEFINE I == 1 .. K
  <2>1. ASSUME NEW b \in Bars(s) PROVE Summed(s, slices).bins[b] = 0
    <3> DEFINE f == [i \in DOMAIN slices |-> slices[i].bins[b]]
               z == [i \in I |-> 0]
    <3>1. IsFiniteSet(I) /\ DOMAIN slices = I
      <4>1. 1 \in Int /\ K \in Int
        OBVIOUS
      <4> QED
        BY <4>1, FS_Interval DEF AllDivide
    <3>2. \A i \in I : f[i] = z[i]
      BY <1>1, <3>1 DEF AllDivide, Divides
    <3>3. SumOf(z, I) = 0
      BY <3>1, SumZero
    <3>4. Summed(s, slices).bins[b] = SumOf(f, DOMAIN slices)
      BY SummedSum
    <3> HIDE DEF f, z, I
    <3>5. SumOf(f, I) = SumOf(z, I)
      BY <3>1, <3>2, SumSame
    <3> QED
      BY <3>1, <3>3, <3>4, <3>5
  <2>2. Summed(s, slices).bins = [b \in Bars(s) |-> Summed(s, slices).bins[b]]
    BY DEF Summed
  <2>3. Summed(s, slices).bins = [b \in Bars(s) |-> 0]
    BY <2>1, <2>2
  <2> QED
    BY <1>0, <1>1, <2>3 DEF Divides
<1>2. CASE ~(Kind[s] = "value" /\ ~open)
  <2>1. Shares(s, Summed(s, slices).bins, n * K)
    BY <1>2, SummedShares DEF AllDivide, Divides
  <2> QED
    BY <1>0, <1>2, <2>1 DEF Divides
<1> QED
  BY <1>1, <1>2

LEMMA InitialDivides ==
    ASSUME NEW s \in Series, NEW n \in Nat
    PROVE  Divides(s, Initial(s, n), n, FALSE)
<1> DEFINE sl == Initial(s, n)
<1>1. sl = [bins |-> [b \in Bars(s) |-> IF b = Unavail /\ Kind[s] # "value" THEN n ELSE 0],
            at |-> 0]
  BY InitialForm
<1> HIDE DEF sl
<1>2. /\ sl = [bins |-> sl.bins, at |-> sl.at]
      /\ sl.bins = [b \in Bars(s) |-> IF b = Unavail /\ Kind[s] # "value" THEN n ELSE 0]
  BY <1>1
<1>3. CASE Kind[s] = "value"
  <2>1. sl.bins = [b \in Bars(s) |-> 0]
    BY <1>2, <1>3
  <2> QED
    BY <1>2, <1>3, <2>1 DEF Divides, sl
<1>4. CASE Kind[s] # "value"
  <2>1. sl.bins = [b \in Bars(s) |-> IF b = Unavail THEN n ELSE 0]
    BY <1>2, <1>4
  <2>2. Shares(s, sl.bins, n)
    BY <2>1, OutcomesLogged, OneBar
  <2> QED
    BY <1>2, <1>4, <2>2 DEF Divides, sl
<1> QED
  BY <1>3, <1>4

LEMMA Calendar == ASSUME NEW s \in Series
                  PROVE  /\ HoursInDay \in Nat \ {0} /\ DaysInWeek \in Nat \ {0}
                         /\ MovingHour(s) \in Nat /\ MovingHour(s) * HoursInDay \in Nat
<1>1. HoursInDay \in Nat \ {0} /\ DaysInWeek \in Nat \ {0} /\ MovingHour(s) \in Nat
  BY CalendarAssumption, HourInLog
<1> QED
  BY <1>1

LEMMA InitDivided == Init => Divided
<1> SUFFICES ASSUME Init, NEW s \in Series
    PROVE  /\ Divides(s, moving[s], MovingHour(s), started[s])
           /\ AllDivide(s, hours[s], HoursInDay, MovingHour(s), started[s])
           /\ AllDivide(s, days[s], DaysInWeek, MovingHour(s) * HoursInDay, started[s])
  BY DEF Divided
<1>1. /\ moving[s] = Initial(s, MovingHour(s))
      /\ hours[s] = [i \in 1 .. HoursInDay |-> Initial(s, MovingHour(s))]
      /\ days[s] = [i \in 1 .. DaysInWeek |-> Initial(s, MovingHour(s) * HoursInDay)]
      /\ started[s] = FALSE
  BY DEF Init
<1>2. /\ Divides(s, Initial(s, MovingHour(s)), MovingHour(s), FALSE)
      /\ Divides(s, Initial(s, MovingHour(s) * HoursInDay), MovingHour(s) * HoursInDay, FALSE)
  BY Calendar, InitialDivides
<1> QED
  BY <1>1, <1>2 DEF AllDivide

(* A slice written back with the first value, stamped, put away.            *)
LEMMA OpenDivides ==
    ASSUME NEW s \in Series, NEW n \in Nat, NEW sl, Divides(s, sl, n, started[s]),
           NEW x \in Logged(s)
    PROVE  Divides(s, IF FirstValue(s) THEN InitializeOnValue(sl, x, n) ELSE sl, n, TRUE)
<1>1. CASE FirstValue(s)
  <2>1. DOMAIN sl.bins = Bars(s) /\ sl = [bins |-> sl.bins, at |-> sl.at]
    BY <1>1 DEF FirstValue, Divides
  <2> DEFINE new == InitializeOnValue(sl, x, n)
  <2>2. new = [bins |-> [b \in Bars(s) |-> IF b = x THEN n ELSE 0], at |-> sl.at]
    BY <2>1 DEF InitializeOnValue
  <2> HIDE DEF new
  <2>3. /\ new = [bins |-> new.bins, at |-> new.at]
        /\ new.bins = [b \in Bars(s) |-> IF b = x THEN n ELSE 0]
    BY <2>2
  <2>4. Shares(s, new.bins, n)
    BY <2>3, OneBar
  <2> QED
    BY <1>1, <2>3, <2>4 DEF Divides, new
<1>2. CASE ~FirstValue(s)
  BY <1>2 DEF FirstValue, Divides
<1> QED
  BY <1>1, <1>2

LEMMA StampDivides ==
    ASSUME NEW s \in Series, NEW n, NEW K, NEW slices, AllDivide(s, slices, K, n, TRUE), NEW t
    PROVE  AllDivide(s, [slices EXCEPT ![1].at = t], K, n, TRUE)
<1> DEFINE new == [slices EXCEPT ![1].at = t]
<1>1. DOMAIN new = 1 .. K /\ DOMAIN slices = 1 .. K
  BY DEF AllDivide
<1>2. ASSUME NEW i \in 1 .. K
      PROVE  /\ new[i] = [bins |-> new[i].bins, at |-> new[i].at]
             /\ new[i].bins = slices[i].bins
  <2>1. slices[i] = [bins |-> slices[i].bins, at |-> slices[i].at]
    BY DEF AllDivide, Divides
  <2>2. new[i] = IF i = 1 THEN [slices[i] EXCEPT !.at = t] ELSE slices[i]
    BY <1>1
  <2>3. [slices[i] EXCEPT !.at = t] = [bins |-> slices[i].bins, at |-> t]
    BY <2>1
  <2> HIDE DEF new
  <2> QED
    BY <2>1, <2>2, <2>3
<1> HIDE DEF new
<1>3. \A i \in 1 .. K : Divides(s, new[i], n, TRUE)
  BY <1>2 DEF AllDivide, Divides
<1> QED
  BY <1>1, <1>3 DEF AllDivide, new

LEMMA PushDivides ==
    ASSUME NEW s \in Series, NEW n, NEW K \in Nat \ {0}, NEW slices,
           AllDivide(s, slices, K, n, TRUE), NEW sl, Divides(s, sl, n, TRUE)
    PROVE  AllDivide(s, Push(sl, slices), K, n, TRUE)
<1>1. DOMAIN slices = 1 .. K
  BY DEF AllDivide
<1>2. DOMAIN Push(sl, slices) = 1 .. K
  BY <1>1, Pushed
<1>3. ASSUME NEW i \in 1 .. K PROVE Divides(s, Push(sl, slices)[i], n, TRUE)
  <2>1. CASE i = 1
    <3>1. Push(sl, slices)[i] = sl
      BY <1>1, <2>1, Pushed
    <3> QED
      BY <3>1
  <2>2. CASE i # 1
    <3>1. i - 1 \in 1 .. K /\ (i - 1) + 1 = i /\ (i - 1) + 1 <= K
      BY <2>2
    <3>2. Push(sl, slices)[(i - 1) + 1] = slices[i - 1]
      BY <1>1, <3>1, Pushed
    <3> QED
      BY <3>1, <3>2 DEF AllDivide
  <2> QED
    BY <2>1, <2>2
<1> QED
  BY <1>2, <1>3 DEF AllDivide

LEMMA OpenAllDivide ==
    ASSUME NEW s \in Series, NEW n \in Nat, NEW K, NEW slices,
           AllDivide(s, slices, K, n, started[s]), NEW x \in Logged(s), NEW t
    PROVE  LET past == IF FirstValue(s)
                       THEN [i \in DOMAIN slices |-> InitializeOnValue(slices[i], x, n)]
                       ELSE slices
           IN  AllDivide(s, IF started[s] THEN past ELSE [past EXCEPT ![1].at = t], K, n, TRUE)
<1> DEFINE past == IF FirstValue(s)
                   THEN [i \in DOMAIN slices |-> InitializeOnValue(slices[i], x, n)]
                   ELSE slices
<1>1. DOMAIN slices = 1 .. K /\ DOMAIN past = 1 .. K
  BY DEF AllDivide
<1>2. ASSUME NEW i \in 1 .. K PROVE Divides(s, past[i], n, TRUE)
  <2>1. Divides(s, slices[i], n, started[s])
    BY DEF AllDivide
  <2>2. past[i] = IF FirstValue(s) THEN InitializeOnValue(slices[i], x, n) ELSE slices[i]
    BY <1>1
  <2> QED
    BY <2>1, <2>2, OpenDivides
<1> HIDE DEF past
<1>3. AllDivide(s, past, K, n, TRUE)
  BY <1>1, <1>2 DEF AllDivide
<1>4. AllDivide(s, [past EXCEPT ![1].at = t], K, n, TRUE)
  BY <1>3, StampDivides
<1> QED
  BY <1>3, <1>4 DEF past

(* The slices a cycle finds and leaves.                                     *)
LEMMA OpenHoursDivide ==
    ASSUME Divided, NEW s \in Series, NEW x \in Logged(s)
    PROVE  /\ Divides(s, OpenMoving(s, x), MovingHour(s), TRUE)
           /\ AllDivide(s, OpenHours(s, x), HoursInDay, MovingHour(s), TRUE)
           /\ AllDivide(s, OpenDays(s, x), DaysInWeek, MovingHour(s) * HoursInDay, TRUE)
<1>1. MovingHour(s) \in Nat /\ MovingHour(s) * HoursInDay \in Nat
  BY Calendar
<1>2. Divides(s, OpenMoving(s, x), MovingHour(s), TRUE)
  BY <1>1, OpenDivides DEF OpenMoving, Divided
<1>3. AllDivide(s, OpenHours(s, x), HoursInDay, MovingHour(s), TRUE)
  BY <1>1, OpenAllDivide DEF OpenHours, Divided
<1>4. AllDivide(s, OpenDays(s, x), DaysInWeek, MovingHour(s) * HoursInDay, TRUE)
  <2> DEFINE n == MovingHour(s) * HoursInDay
  <2>1. AllDivide(s, days[s], DaysInWeek, n, started[s]) /\ n \in Nat
    BY <1>1 DEF Divided
  <2>2. OpenDays(s, x) =
          LET past == IF FirstValue(s)
                      THEN [i \in DOMAIN days[s] |-> InitializeOnValue(days[s][i], x, n)]
                      ELSE days[s]
          IN  IF started[s] THEN past ELSE [past EXCEPT ![1].at = timestamp]
    BY DEF OpenDays
  <2> HIDE DEF n
  <2>3. AllDivide(s, OpenDays(s, x), DaysInWeek, n, TRUE)
    <3>1. LET past == IF FirstValue(s)
                      THEN [i \in DOMAIN days[s] |-> InitializeOnValue(days[s][i], x, n)]
                      ELSE days[s]
          IN  AllDivide(s, IF started[s] THEN past ELSE [past EXCEPT ![1].at = timestamp],
                        DaysInWeek, n, TRUE)
      BY <2>1, OpenAllDivide
    <3> QED
      BY <2>2, <3>1
  <2> QED
    BY <2>3 DEF n
<1> QED
  BY <1>2, <1>3, <1>4

LEMMA CloseDivides ==
    ASSUME Divided, NEW s \in Series, NEW x \in Logged(s)
    PROVE  /\ AllDivide(s, CloseHour(s, x), HoursInDay, MovingHour(s), TRUE)
           /\ AllDivide(s, CloseDay(s, x), DaysInWeek, MovingHour(s) * HoursInDay, TRUE)
<1>1. /\ HoursInDay \in Nat \ {0} /\ DaysInWeek \in Nat \ {0} /\ MovingHour(s) \in Nat
  BY Calendar
<1>2. AllDivide(s, CloseHour(s, x), HoursInDay, MovingHour(s), TRUE)
  BY <1>1, OpenHoursDivide, PushDivides DEF CloseHour
<1>3. Divides(s, Summed(s, CloseHour(s, x)), MovingHour(s) * HoursInDay, TRUE)
  BY <1>1, <1>2, SummedDivides
<1>4. AllDivide(s, CloseDay(s, x), DaysInWeek, MovingHour(s) * HoursInDay, TRUE)
  BY <1>1, <1>3, OpenHoursDivide, PushDivides DEF CloseDay
<1> QED
  BY <1>2, <1>4

LEMMA CycleOfSlices ==
    ASSUME NEW r \in Readings, NEW w \in SUBSET Rules, Cycle(r, w), NEW s \in Series
    PROVE  LET x   == Outcome(s, r)
               due == ShallTriggerInvokeCycle(SourceOf[s])
           IN  /\ hours'[s] = IF due THEN CloseHour(s, x) ELSE hours[s]
               /\ days'[s] = IF due THEN CloseDay(s, x) ELSE days[s]
BY DEF Cycle

LEMMA BellOnShares ==
    ASSUME IInv, Trace, Divided, NEW r \in Readings, NEW w \in SUBSET Rules, Cycle(r, w)
    PROVE  Divided'
<1> SUFFICES ASSUME NEW s \in Series
    PROVE  /\ Divides(s, moving'[s], MovingHour(s), started'[s])
           /\ AllDivide(s, hours'[s], HoursInDay, MovingHour(s), started'[s])
           /\ AllDivide(s, days'[s], DaysInWeek, MovingHour(s) * HoursInDay, started'[s])
  BY DEF Divided, Divides, AllDivide, Shares, MovingHour, Bars, Logged, Outcomes
<1> DEFINE x   == Outcome(s, r)
           due == ShallTriggerInvokeCycle(SourceOf[s])
<1>0. LogHolds /\ LogHolds'
  BY BellOnLogHolds DEF Trace
<1>1. x \in Logged(s)
  BY <1>0, OutcomeType, OutcomesLogged
<1>2. /\ moving'[s] = IF due THEN Moved(s, x) ELSE moving[s]
      /\ log'[s] = IF due THEN Push(x, Backfilled(s, x)) ELSE log[s]
      /\ started'[s] = (started[s] \/ due)
      /\ hours'[s] = IF due THEN CloseHour(s, x) ELSE hours[s]
      /\ days'[s] = IF due THEN CloseDay(s, x) ELSE days[s]
  BY CycleOfSeries, CycleOfSlices
<1>3. CASE ~due
  <2>1. started'[s] = started[s]
    BY <1>2, <1>3, Zenon DEF IInv
  <2> QED
    BY <1>2, <1>3, <2>1 DEF Divided
<1>4. CASE due
  <2>1. started'[s] = TRUE
    BY <1>2, <1>4
  <2>2. Divides(s, Moved(s, x), MovingHour(s), TRUE)
    <3> DEFINE l == Push(x, Backfilled(s, x))
               m == Moved(s, x)
    <3>1. \A b \in Bars(s) : m.bins[b] = Cardinality(Window(s, b, l))
      BY MovedMatches
    <3>2. m = [bins |-> m.bins, at |-> m.at] /\ m.bins = [b \in Bars(s) |-> m.bins[b]]
      BY DEF Moved
    <3>3. \A i \in 1 .. MovingHour(s) : l[i] \in Logged(s)
      <4>1. \A i \in 1 .. LogSize(s) : log'[s][i] \in Logged(s)
        BY <1>0 DEF LogHolds, LogSize, Logged, Outcomes
      <4>2. l = log'[s]
        BY <1>2, <1>4
      <4> QED
        BY <4>1, <4>2, HourInLog
    <3> HIDE DEF l, m
    <3>4. m.bins = [b \in Bars(s) |-> Cardinality(Window(s, b, l))]
      BY <3>1, <3>2
    <3>5. Shares(s, m.bins, MovingHour(s))
      BY <3>3, <3>4, WindowShares
    <3> QED
      BY <3>2, <3>5 DEF Divides, m
  <2>3. /\ AllDivide(s, CloseHour(s, x), HoursInDay, MovingHour(s), TRUE)
        /\ AllDivide(s, CloseDay(s, x), DaysInWeek, MovingHour(s) * HoursInDay, TRUE)
    BY <1>1, CloseDivides
  <2> QED
    BY <1>2, <1>4, <2>1, <2>2, <2>3
<1> QED
  BY <1>3, <1>4

LEMMA SharesHold == Spec => [](IInv /\ Trace /\ Divided)
<1>1. IInv /\ Trace /\ Divided /\ [Next]_vars => Divided'
  <2> SUFFICES ASSUME IInv, Trace, Divided, [Next]_vars PROVE Divided'
    OBVIOUS
  <2>1. CASE RingTaskBell
    BY <2>1, BellOnShares DEF RingTaskBell
  <2>2. CASE SetTimeOnly \/ UNCHANGED vars
    <3>1. moving' = moving /\ hours' = hours /\ days' = days /\ started' = started
      BY <2>2 DEF SetTimeOnly, histoVars, vars
    <3> SUFFICES ASSUME NEW s \in Series
        PROVE  /\ Divides(s, moving'[s], MovingHour(s), started'[s])
               /\ AllDivide(s, hours'[s], HoursInDay, MovingHour(s), started'[s])
               /\ AllDivide(s, days'[s], DaysInWeek, MovingHour(s) * HoursInDay, started'[s])
      BY DEF Divided, Divides, AllDivide, Shares, MovingHour, Bars, Logged, Outcomes
    <3> QED
      BY <3>1 DEF Divided
  <2> QED
    BY <2>1, <2>2 DEF Next
<1> QED
  BY <1>1, InitDivided, TraceHolds, PTL DEF Spec

(* What the user is shown of a span divides all cycles of the span.         *)
LEMMA ShowingDivides ==
    ASSUME Divided, NEW s \in Series, NEW span \in Spans
    PROVE  /\ Divides(s, Showing(s, span), CountAllCycles(s, span), started[s])
           /\ CountAllCycles(s, span) \in Nat
<1> DEFINE M == MovingHour(s)
           H == HoursInDay
           D == DaysInWeek
<1>1. M \in Nat /\ H \in Nat /\ D \in Nat /\ M * H \in Nat /\ H * D \in Nat
  BY Calendar
<1>2. CASE span = "hour"
  <2>1. Showing(s, span) = moving[s] /\ CountAllCycles(s, span) = M * 1
    BY <1>2 DEF Showing, CountAllCycles
  <2>2. M * 1 = M
    BY <1>1
  <2> QED
    BY <1>1, <2>1, <2>2 DEF Divided
<1>3. CASE span = "day"
  <2>1. Showing(s, span) = Summed(s, hours[s]) /\ CountAllCycles(s, span) = M * H
    BY <1>3 DEF Showing, CountAllCycles, Past24hrs
  <2>2. AllDivide(s, hours[s], H, M, started[s])
    BY DEF Divided
  <2> HIDE DEF M, H, D
  <2> QED
    BY <1>1, <2>1, <2>2, SummedDivides
<1>4. CASE span = "week"
  <2> DEFINE sum == Summed(s, days[s])
             now == Past7days(s)
  <2>1. Showing(s, span) = now /\ CountAllCycles(s, span) = M * (H * D)
    BY <1>4 DEF Showing, CountAllCycles
  <2>2. AllDivide(s, days[s], D, M * H, started[s])
    BY DEF Divided
  <2>3. now = [sum EXCEPT !.at = IF Kind[s] \in {"fact", "rule"} THEN hours[s][1].at ELSE @]
    BY DEF Past7days
  <2> HIDE DEF M, H, D, sum, now
  <2>4. Divides(s, sum, (M * H) * D, started[s])
    BY <1>1, <2>2, SummedDivides DEF sum
  <2>5. (M * H) * D = M * (H * D) /\ M * (H * D) \in Nat
    BY <1>1
  <2>6. sum = [bins |-> sum.bins, at |-> sum.at]
    BY <2>4 DEF Divides
  <2>7. now = [bins |-> now.bins, at |-> now.at] /\ now.bins = sum.bins
    BY <2>3, <2>6
  <2> QED
    BY <2>1, <2>4, <2>5, <2>7 DEF Divides
<1> QED
  BY <1>2, <1>3, <1>4 DEF Spans

LEMMA ShownSum ==
    ASSUME NEW s \in Series, NEW span
    PROVE  MapThenSumSet(LAMBDA b : ShownStates(s, span)[b][1], Logged(s))
              = SumOf(Showing(s, span).bins, Logged(s))
<1> DEFINE S    == Logged(s)
           t(b) == ShownStates(s, span)[b][1]
           f    == Showing(s, span).bins
           P(g) == g = [q \in SUBSET S |-> IF q = {} THEN 0 ELSE t(Taken(q)) + g[q \ {Taken(q)}]]
<1>1. MapThenSumSet(LAMBDA b : ShownStates(s, span)[b][1], S) = (CHOOSE g : P(g))[S]
  BY DEF MapThenSumSet, MapThenFoldSet, Taken
<1>2. ASSUME NEW g PROVE P(g) <=> Sums(g, f, S)
  <2>1. ASSUME NEW q \in SUBSET S, q # {} PROVE f[Taken(q)] = t(Taken(q))
    <3>1. Taken(q) \in Logged(s)
      BY <2>1, TakenIn
    <3> QED
      BY <3>1 DEF ShownStates
  <2> HIDE DEF f, t, S
  <2> QED
    BY <2>1 DEF Sums
<1>3. (CHOOSE g : P(g)) = TheSum(f, S)
  BY <1>2, Zenon DEF TheSum
<1> QED
  BY <1>1, <1>3, Unfold

(* No bar is higher than 100 %, whatever the feeder does: over any span the *)
(* bars of the states share all its cycles, which no step of the adding and *)
(* taking away, the copying and the summing ever loses.                     *)
THEOREM BarsAlwaysShares == Spec => []BarsAreShares
<1>1. IInv /\ Trace /\ Divided => BarsAreShares
  <2> SUFFICES ASSUME Divided, NEW s \in Series, NEW span \in Spans
      PROVE  /\ \A b \in Logged(s) : LET bar == ShownStates(s, span)[b]
                                     IN  0 <= bar[1] /\ bar[1] <= bar[2]
             /\ started[s] =>
                   MapThenSumSet(LAMBDA b : ShownStates(s, span)[b][1], Logged(s))
                       = CountAllCycles(s, span)
             /\ s \in Rules => \A b \in Overview : LET bar == ShownRuleKit(s, span)[b]
                                                   IN  0 <= bar[1] /\ bar[1] <= bar[2]
    BY DEF BarsAreShares
  <2> DEFINE bins == Showing(s, span).bins
             n    == CountAllCycles(s, span)
  <2>1. /\ n \in Nat
        /\ IF Kind[s] = "value" /\ ~started[s] THEN bins = [b \in Bars(s) |-> 0]
           ELSE Shares(s, bins, n)
    BY ShowingDivides DEF Divides
  <2>2. \A b \in Logged(s) : ShownStates(s, span)[b] = <<bins[b], n>>
    BY DEF ShownStates
  <2>3. MapThenSumSet(LAMBDA b : ShownStates(s, span)[b][1], Logged(s)) = SumOf(bins, Logged(s))
    BY ShownSum
  <2>4. s \in Rules => /\ ShownRuleKit(s, span)["fails"] = <<bins["fails"], bins["tests"]>>
                       /\ ShownRuleKit(s, span)["tests"] = <<bins["tests"], bins["valids"]>>
                       /\ ShownRuleKit(s, span)["valids"] = <<bins["valids"], n>>
    BY DEF ShownRuleKit
  <2> HIDE DEF bins, n
  <2>5. ASSUME NEW b \in Logged(s) PROVE 0 <= bins[b] /\ bins[b] <= n
    <3>1. CASE Kind[s] = "value" /\ ~started[s]
      BY <2>1, <3>1, BarsOf
    <3>2. CASE ~(Kind[s] = "value" /\ ~started[s])
      <4>1. bins \in [Bars(s) -> Nat] /\ SumOf(bins, Logged(s)) = n
        BY <2>1, <3>2 DEF Shares
      <4>2. \A e \in Logged(s) : bins[e] \in Nat
        BY <4>1, BarsOf
      <4>3. bins[b] <= SumOf(bins, Logged(s))
        BY <4>2, FiniteLogged, SumBounds
      <4> QED
        BY <4>1, <4>2, <4>3
    <3> QED
      BY <3>1, <3>2
  <2>6. started[s] => SumOf(bins, Logged(s)) = n
    BY <2>1 DEF Shares
  <2>7. ASSUME s \in Rules, NEW b \in Overview
        PROVE  LET bar == ShownRuleKit(s, span)[b] IN 0 <= bar[1] /\ bar[1] <= bar[2]
    <3>1. Shares(s, bins, n)
      BY <2>1, <2>7, BarsOf
    <3>2. /\ bins["fails"] \in Nat /\ bins["tests"] \in Nat /\ bins["valids"] \in Nat
          /\ bins["fails"] <= bins["tests"] /\ bins["tests"] <= bins["valids"]
          /\ bins["valids"] <= n
      BY <2>7, <3>1, BarsOf DEF Shares, Overview
    <3> QED
      BY <2>4, <2>7, <3>2 DEF Overview
  <2>8. \A b \in Logged(s) : LET bar == ShownStates(s, span)[b]
                            IN  0 <= bar[1] /\ bar[1] <= bar[2]
    BY <2>2, <2>5
  <2>9. started[s] =>
           MapThenSumSet(LAMBDA b : ShownStates(s, span)[b][1], Logged(s))
               = CountAllCycles(s, span)
    BY <2>3, <2>6 DEF n
  <2> QED
    BY <2>7, <2>8, <2>9
<1> QED
  BY <1>1, SharesHold, PTL

-------------------------------------------------------------------------------
(* Hours and days.                                                          *)

LEMMA DivBounds ==
    ASSUME NEW N \in Nat \ {0}, NEW t \in Int
    PROVE  /\ t \div N \in Int /\ N * (t \div N) \in Int
           /\ N * (t \div N) <= t /\ t < N * (t \div N) + N
BY Z3

LEMMA TimesGrows ==
    ASSUME NEW N \in Nat, NEW a \in Int, NEW b \in Int, a <= b
    PROVE  N * a <= N * b
<1>1. b - a \in Nat /\ N * (b - a) \in Nat
  OBVIOUS
<1>2. N * b = N * a + N * (b - a) /\ N * a \in Int
  OBVIOUS
<1> QED
  BY <1>1, <1>2

LEMMA DivUnique ==
    ASSUME NEW N \in Nat \ {0}, NEW t \in Int, NEW g \in Int, N * g <= t, t < N * g + N
    PROVE  t \div N = g
<1> DEFINE q == t \div N
<1>1. q \in Int /\ N * q <= t /\ t < N * q + N
  BY DivBounds
<1> HIDE DEF q
<1>2. N * (q + 1) = N * q + N /\ N * (g + 1) = N * g + N /\ N * q \in Int /\ N * g \in Int
  BY <1>1
<1>3. ~(q < g)
  <2> SUFFICES ASSUME q + 1 <= g PROVE FALSE
    BY <1>1
  <2>1. N * (q + 1) <= N * g
    BY <1>1, TimesGrows
  <2> QED
    BY <1>1, <1>2, <2>1
<1>4. ~(g < q)
  <2> SUFFICES ASSUME g + 1 <= q PROVE FALSE
    BY <1>1
  <2>1. N * (g + 1) <= N * q
    BY <1>1, TimesGrows
  <2> QED
    BY <1>1, <1>2, <2>1
<1> QED
  BY <1>1, <1>3, <1>4 DEF q

LEMMA DivMono ==
    ASSUME NEW N \in Nat \ {0}, NEW t \in Int, NEW u \in Int, t <= u
    PROVE  t \div N <= u \div N
<1> DEFINE p == t \div N
           q == u \div N
<1>1. p \in Int /\ q \in Int /\ N * p <= t /\ u < N * q + N
  BY DivBounds
<1> HIDE DEF p, q
<1> SUFFICES ASSUME q + 1 <= p PROVE FALSE
  BY <1>1 DEF p, q
<1>2. N * (q + 1) <= N * p
  BY <1>1, TimesGrows
<1>3. N * (q + 1) = N * q + N /\ N * p \in Int /\ N * q \in Int
  BY <1>1
<1> QED
  BY <1>1, <1>2, <1>3

(* Not more than one span is begun in a time not longer than it.            *)
LEMMA DivNext ==
    ASSUME NEW N \in Nat \ {0}, NEW t \in Int, NEW d \in 0 .. N
    PROVE  (t + d) \div N \in {t \div N, (t \div N) + 1}
<1> DEFINE q == t \div N
<1>1. q \in Int /\ N * q <= t /\ t < N * q + N /\ d \in Int /\ 0 <= d /\ d <= N
  BY DivBounds
<1> HIDE DEF q
<1>2. N * (q + 1) = N * q + N /\ N * q \in Int /\ t + d \in Int
  BY <1>1
<1>3. CASE t + d < N * q + N
  <2>1. (t + d) \div N = q
    BY <1>1, <1>2, <1>3, DivUnique
  <2> QED
    BY <2>1 DEF q
<1>4. CASE ~(t + d < N * q + N)
  <2>1. (t + d) \div N = q + 1
    BY <1>1, <1>2, <1>4, DivUnique
  <2> QED
    BY <2>1 DEF q
<1> QED
  BY <1>3, <1>4

(* The next hour of a day of two or more is not the same hour of the day.   *)
LEMMA ModNext ==
    ASSUME NEW N \in Nat \ {0, 1}, NEW t \in Int
    PROVE  (t + 1) % N # t % N
<1>1. /\ t = N * (t \div N) + (t % N) /\ t + 1 = N * ((t + 1) \div N) + ((t + 1) % N)
      /\ t \div N \in Int /\ (t + 1) \div N \in Int /\ t % N \in Int /\ (t + 1) % N \in Int
  BY Z3
<1> SUFFICES ASSUME (t + 1) % N = t % N PROVE FALSE
  OBVIOUS
<1> DEFINE p == t \div N
           q == (t + 1) \div N
<1>2. N * q = N * p + 1 /\ p \in Int /\ q \in Int
  BY <1>1
<1> HIDE DEF p, q
<1>3. N * (q - p) = N * q - N * p /\ N * q \in Int /\ N * p \in Int
  BY <1>2
<1>4. N * (q - p) = 1 /\ q - p \in Int
  BY <1>2, <1>3
<1>5. CASE q - p <= 0
  BY <1>4, <1>5, TimesGrows
<1>6. CASE q - p >= 1
  <2>1. N * 1 <= N * (q - p)
    BY <1>4, <1>6, TimesGrows
  <2> QED
    BY <1>4, <2>1
<1> QED
  BY <1>4, <1>5, <1>6

LEMMA HourType ==
    ASSUME NEW t \in Int
    PROVE  /\ HourOf(t) \in Int /\ DayOf(t) \in Int
           /\ HourLen \in Nat \ {0} /\ HoursInDay \in Nat \ {0, 1} /\ DaysInWeek \in Nat \ {0, 1}
<1>1. HourLen \in Nat \ {0} /\ HoursInDay \in Nat \ {0, 1} /\ DaysInWeek \in Nat \ {0, 1}
  BY CalendarAssumption
<1>2. HourOf(t) \in Int
  BY <1>1, DivBounds DEF HourOf
<1>3. DayOf(t) \in Int
  BY <1>1, <1>2, DivBounds DEF DayOf
<1> QED
  BY <1>1, <1>2, <1>3

(* From one stamp to the next the clock shows whether an hour or a day has  *)
(* begun, from its numbers alone.                                           *)
LEMMA ShownByClock ==
    ASSUME NEW t \in Int
    PROVE  /\ TimeStruct(t + 1).hour # TimeStruct(t).hour <=> HourOf(t + 1) # HourOf(t)
           /\ TimeStruct(t + 1).wday # TimeStruct(t).wday <=> DayOf(t + 1) # DayOf(t)
<1>1. HourOf(t) \in Int /\ DayOf(t) \in Int
      /\ HourLen \in Nat \ {0} /\ HoursInDay \in Nat \ {0, 1} /\ DaysInWeek \in Nat \ {0, 1}
  BY HourType
<1>2. HourOf(t + 1) \in {HourOf(t), HourOf(t) + 1}
  BY <1>1, DivNext DEF HourOf
<1>3. DayOf(t + 1) \in {DayOf(t), DayOf(t) + 1}
  <2>1. PICK d \in {0, 1} : HourOf(t + 1) = HourOf(t) + d
    BY <1>1, <1>2
  <2>2. d \in 0 .. HoursInDay /\ HoursInDay \in Nat \ {0}
    BY <1>1
  <2> QED
    BY <1>1, <2>1, <2>2, DivNext DEF DayOf
<1>4. (HourOf(t) + 1) % HoursInDay # HourOf(t) % HoursInDay
  BY <1>1, ModNext
<1>5. (DayOf(t) + 1) % DaysInWeek # DayOf(t) % DaysInWeek
  BY <1>1, ModNext
<1>6. \A u : /\ TimeStruct(u).hour = HourOf(u) % HoursInDay
             /\ TimeStruct(u).wday = DayOf(u) % DaysInWeek
  BY DEF TimeStruct
<1> QED
  BY <1>2, <1>3, <1>4, <1>5, <1>6

(* An hour or a day once over does not come again.                          *)
LEMMA NoneAgain ==
    ASSUME NEW t \in Int, NEW u \in Int, NEW v \in Int, t <= u, u <= v
    PROVE  /\ HourOf(v) # HourOf(t) <=> HourOf(u) # HourOf(t) \/ HourOf(v) # HourOf(u)
           /\ DayOf(v) # DayOf(t) <=> DayOf(u) # DayOf(t) \/ DayOf(v) # DayOf(u)
           /\ HourOf(t) <= HourOf(u) /\ HourOf(u) <= HourOf(v)
<1>1. /\ HourLen \in Nat \ {0} /\ HoursInDay \in Nat \ {0}
      /\ HourOf(t) \in Int /\ HourOf(u) \in Int /\ HourOf(v) \in Int
      /\ DayOf(t) \in Int /\ DayOf(u) \in Int /\ DayOf(v) \in Int
  BY HourType
<1>2. HourOf(t) <= HourOf(u) /\ HourOf(u) <= HourOf(v)
  BY <1>1, DivMono DEF HourOf
<1>3. DayOf(t) <= DayOf(u) /\ DayOf(u) <= DayOf(v)
  BY <1>1, <1>2, DivMono DEF DayOf
<1> QED
  BY <1>1, <1>2, <1>3

-------------------------------------------------------------------------------
(* With a bell each minute: the stamps are consecutive, and the marks of a  *)
(* series say what has begun since its last cycle.                          *)

Now       == ran[1].at
LastAt(s) == ran[Age(s, 1)].at

Feed == regular =>
    /\ unread \/ Len(ran) > 0 => timeStructWas = TimeStruct(timestamp)
    /\ Len(ran) > 0 =>
          /\ \A i \in 1 .. Len(ran) : ran[i].at = Now - i + 1
          /\ timestamp = Now + (IF unread THEN 1 ELSE 0)
          /\ unread => /\ newHour <=> HourOf(timestamp) # HourOf(Now)
                       /\ newDay <=> DayOf(timestamp) # DayOf(Now)
          /\ \A s \in Series :
                /\ begins[SourceOf[s]].hour <=> HourOf(Now) # HourOf(LastAt(s))
                /\ begins[SourceOf[s]].day <=> DayOf(Now) # DayOf(LastAt(s))

LEMMA InitFeed == Init => Feed
<1> SUFFICES ASSUME Init PROVE Feed
  OBVIOUS
<1>1. ran = <<>> /\ unread = FALSE
  BY DEF Init, InitClock
<1>2. ~(Len(ran) > 0)
  BY <1>1
<1> QED
  BY <1>1, <1>2 DEF Feed

LEMMA RanTyped == ASSUME Trace, NEW i \in 1 .. Len(ran) PROVE ran[i].at \in Int
<1>1. ran[i] \in Step
  BY DEF Trace, Typed
<1> QED
  BY <1>1 DEF Step

LEMMA LastCycle ==
    ASSUME Trace, NEW s \in Series, Len(ran) > 0
    PROVE  /\ Age(s, 1) \in 1 .. Len(ran) /\ 1 \in 1 .. LogSize(s)
           /\ ran[Age(s, 1)].out[s] = {log[s][1]}
<1>1. Len(ran) \in Nat /\ Len(ran) \in 1 .. Len(ran)
  BY DEF Trace, Typed
<1>2. PICK q \in Nat \ {0} : Len(ran) = Age(s, q)
  <2>1. ran[Len(ran)].out[s] # {}
    BY DEF Trace, FirstCycles
  <2> QED
    BY <1>1, <2>1 DEF Trace, Cycles
<1>3. Age(s, 1) \in Int /\ Age(s, 1) >= 1 /\ (1 < q => Age(s, 1) < Age(s, q))
  BY AgeType DEF Trace
<1>4. Age(s, 1) \in 1 .. Len(ran)
  BY <1>1, <1>2, <1>3
<1>5. 1 \in 1 .. LogSize(s)
  BY HourInLog
<1> QED
  BY <1>4, <1>5 DEF Trace, Cycles

LEMMA SetFeed ==
    ASSUME Trace, Feed, SetTimeOnly PROVE Feed'
<1>1. PICK t \in 1 .. MaxTime : SetTimeFromPort(t)
  BY DEF SetTimeOnly, SetTime
<1>2. /\ ran' = ran /\ begins' = begins /\ untilCycle' = untilCycle /\ triggers = Len(ran)
      /\ unread' = TRUE /\ timestamp' = t /\ timeStructWas' = TimeStruct(t) /\ odd \in Nat
  BY <1>1 DEF SetTimeOnly, SetTimeFromPort, Trace, Typed
<1> SUFFICES ASSUME regular' PROVE Feed'
  BY DEF Feed
<1>3. regular /\ ~(unread \/ (triggers > 0 /\ t # timestamp + 1))
  <2>1. odd' = 0 /\ OutOfTurn(unread \/ (triggers > 0 /\ t # timestamp + 1))
    BY <1>1 DEF SetTimeFromPort, regular
  <2> QED
    BY <1>2, <2>1 DEF OutOfTurn, regular
<1>4. ASSUME Len(ran) > 0
      PROVE  /\ \A i \in 1 .. Len(ran) : ran[i].at = Now - i + 1
             /\ timestamp = Now /\ t = Now + 1 /\ Now \in Int
             /\ newHour' <=> HourOf(t) # HourOf(Now)
             /\ newDay' <=> DayOf(t) # DayOf(Now)
             /\ \A s \in Series :
                   /\ begins[SourceOf[s]].hour <=> HourOf(Now) # HourOf(LastAt(s))
                   /\ begins[SourceOf[s]].day <=> DayOf(Now) # DayOf(LastAt(s))
  <2>1. 1 \in 1 .. Len(ran) /\ Now \in Int
    <3>1. Len(ran) \in Nat
      BY DEF Trace, Typed
    <3>2. 1 \in 1 .. Len(ran)
      BY <1>4, <3>1
    <3> QED
      BY <3>2, RanTyped DEF Now
  <2>2. timestamp = Now /\ timeStructWas = TimeStruct(Now) /\ t = Now + 1
    BY <1>2, <1>3, <1>4, <2>1 DEF Feed
  <2>3. /\ newHour' = (TimeStruct(t).hour # timeStructWas.hour)
        /\ newDay' = (TimeStruct(t).wday # timeStructWas.wday)
    BY <1>1 DEF SetTimeFromPort
  <2>4. /\ newHour' <=> HourOf(t) # HourOf(Now)
        /\ newDay' <=> DayOf(t) # DayOf(Now)
    BY <2>1, <2>2, <2>3, ShownByClock
  <2> QED
    BY <1>3, <1>4, <2>1, <2>2, <2>4 DEF Feed
<1>5. Now' = Now /\ \A s \in Series : LastAt(s)' = LastAt(s)
  BY <1>2 DEF Now, LastAt, Age, Until, Period
<1>6. /\ timeStructWas' = TimeStruct(timestamp')
      /\ \A u : HourOf(u)' = HourOf(u) /\ DayOf(u)' = DayOf(u)
  BY <1>2
<1> QED
  BY <1>2, <1>4, <1>5, <1>6 DEF Feed

(* A bell of a regular feeder reads a stamp that no other bell has read.    *)
LEMMA BellInTurn ==
    ASSUME NEW r, NEW w, Cycle(r, w), regular', odd \in Nat
    PROVE  regular /\ unread = TRUE
<1>1. OutOfTurn(~unread) /\ odd' = 0
  BY DEF Cycle, Trigger, regular
<1>2. odd' = odd + (IF ~unread THEN 1 ELSE 0)
  BY <1>1 DEF OutOfTurn
<1> QED
  BY <1>1, <1>2 DEF regular

(* What a bell leaves of the steps, seen from one series.                   *)
LEMMA BellOnLast ==
    ASSUME IInv, Trace, NEW r \in Readings, NEW w \in SUBSET Rules, Cycle(r, w),
           NEW s \in Series, Len(ran) > 0
    PROVE  LastAt(s)' = IF ShallTriggerInvokeCycle(SourceOf[s]) THEN timestamp ELSE LastAt(s)
<1>1. /\ ran'[1] = StepOf(r) /\ StepOf(r).at = timestamp /\ Len(ran) \in Nat
      /\ \A i \in 1 .. Len(ran) : ran'[i + 1] = ran[i]
  BY BellOnSteps, StepAt DEF Trace
<1>2. CASE ShallTriggerInvokeCycle(SourceOf[s])
  <2>1. Age(s, 1)' = 1
    BY <1>2, Aging DEF Trace
  <2> QED
    BY <1>1, <1>2, <2>1 DEF LastAt
<1>3. CASE ~ShallTriggerInvokeCycle(SourceOf[s])
  <2>1. \A k \in Int : Age(s, k)' = Age(s, k) + 1
    BY <1>3, Aging DEF Trace
  <2>2. Age(s, 1)' = Age(s, 1) + 1
    BY <2>1
  <2>3. Age(s, 1) \in 1 .. Len(ran)
    BY LastCycle
  <2> QED
    BY <1>1, <1>3, <2>2, <2>3 DEF LastAt
<1> QED
  BY <1>2, <1>3

(* The first bell: every series cycles.                                     *)
LEMMA FirstBell ==
    ASSUME Trace, Len(ran) = 0, NEW s \in Series
    PROVE  ShallTriggerInvokeCycle(SourceOf[s])
<1>1. triggers = 0 /\ Until(s) = 1
  BY DEF Trace, Typed, Bells
<1> QED
  BY <1>1 DEF ShallTriggerInvokeCycle, Until

(* The marks the bell finds or sets, before any of them is taken away.      *)
LEMMA MarksSoFar ==
    ASSUME Trace, Feed, regular, unread = TRUE, NEW s \in Series, Len(ran) > 0
    PROVE  /\ Begins(SourceOf[s]).hour <=> HourOf(timestamp) # HourOf(LastAt(s))
           /\ Begins(SourceOf[s]).day <=> DayOf(timestamp) # DayOf(LastAt(s))
           /\ timestamp = Now + 1 /\ Now \in Int
           /\ LastAt(s) = Now - Age(s, 1) + 1 /\ LastAt(s) \in Int
<1>1. 1 \in 1 .. Len(ran) /\ Age(s, 1) \in 1 .. Len(ran) /\ Len(ran) \in Nat
  <2>1. Len(ran) \in Nat
    BY DEF Trace, Typed
  <2> QED
    BY <2>1, LastCycle
<1>2. Now \in Int
  BY <1>1, RanTyped DEF Now
<1>3. /\ timestamp = Now + 1 /\ LastAt(s) = Now - Age(s, 1) + 1
      /\ begins[SourceOf[s]].hour <=> HourOf(Now) # HourOf(LastAt(s))
      /\ begins[SourceOf[s]].day <=> DayOf(Now) # DayOf(LastAt(s))
      /\ newHour <=> HourOf(timestamp) # HourOf(Now)
      /\ newDay <=> DayOf(timestamp) # DayOf(Now)
  BY <1>1, <1>2 DEF Feed, LastAt
<1>4. LastAt(s) \in Int /\ LastAt(s) <= Now /\ Now <= timestamp /\ timestamp \in Int
  BY <1>1, <1>2, <1>3
<1>5. /\ HourOf(timestamp) # HourOf(LastAt(s))
           <=> HourOf(Now) # HourOf(LastAt(s)) \/ HourOf(timestamp) # HourOf(Now)
      /\ DayOf(timestamp) # DayOf(LastAt(s))
           <=> DayOf(Now) # DayOf(LastAt(s)) \/ DayOf(timestamp) # DayOf(Now)
  BY <1>2, <1>4, NoneAgain
<1>6. DayOf(timestamp) # DayOf(Now) => HourOf(timestamp) # HourOf(Now)
  BY DEF DayOf
<1>7. /\ Begins(SourceOf[s]).hour <=> (begins[SourceOf[s]].hour \/ newHour)
      /\ Begins(SourceOf[s]).day <=> (begins[SourceOf[s]].day \/ (newHour /\ newDay))
  <2>1. /\ Begins(SourceOf[s]).hour = (begins[SourceOf[s]].hour \/ newHour)
        /\ Begins(SourceOf[s]).day = (begins[SourceOf[s]].day \/ (newHour /\ newDay))
    BY DEF Begins
  <2> QED
    BY <2>1, Zenon
<1>8. /\ Begins(SourceOf[s]).hour <=> HourOf(timestamp) # HourOf(LastAt(s))
      /\ Begins(SourceOf[s]).day <=> DayOf(timestamp) # DayOf(LastAt(s))
  BY <1>3, <1>5, <1>6, <1>7, Zenon
<1> QED
  BY <1>2, <1>3, <1>4, <1>8, Zenon

LEMMA BellOnBegins ==
    ASSUME NEW r, NEW w, Cycle(r, w), NEW s \in Series
    PROVE  begins'[SourceOf[s]] = IF ShallTriggerInvokeCycle(SourceOf[s])
                                  THEN [hour |-> FALSE, day |-> FALSE] ELSE Begins(SourceOf[s])
<1>1. SourceOf[s] \in Source
  BY PeriodType
<1> QED
  BY <1>1 DEF Cycle, Trigger

LEMMA BellFeed ==
    ASSUME IInv, Trace, Feed, NEW r \in Readings, NEW w \in SUBSET Rules, Cycle(r, w)
    PROVE  Feed'
<1> SUFFICES ASSUME regular' PROVE Feed'
  BY DEF Feed
<1>1. /\ ran'[1] = StepOf(r) /\ StepOf(r).at = timestamp /\ Len(ran) \in Nat
      /\ Len(ran') = Len(ran) + 1
      /\ \A i \in 1 .. Len(ran) : ran'[i + 1] = ran[i]
  BY BellOnSteps DEF Trace, StepOf
<1>2. regular /\ unread = TRUE /\ timestamp \in Int /\ odd \in Nat
  <2>1. timestamp \in Int /\ odd \in Nat
    BY DEF Trace, Typed
  <2> QED
    BY <2>1, BellInTurn
<1>3. /\ timestamp' = timestamp /\ unread' = FALSE /\ timeStructWas' = timeStructWas
      /\ Now' = timestamp
  BY <1>1 DEF Cycle, Trigger, Now
<1>4. timeStructWas' = TimeStruct(timestamp')
  BY <1>2, <1>3 DEF Feed
<1>5. timestamp' = Now' + (IF unread' THEN 1 ELSE 0)
  BY <1>2, <1>3
<1>6. /\ \A i \in 1 .. Len(ran') : ran'[i].at = Now' - i + 1
      /\ \A s \in Series :
            /\ begins'[SourceOf[s]].hour <=> HourOf(Now') # HourOf(LastAt(s)')
            /\ begins'[SourceOf[s]].day <=> DayOf(Now') # DayOf(LastAt(s)')
  <2>1. CASE Len(ran) = 0
    <3>1. ASSUME NEW i \in 1 .. Len(ran') PROVE ran'[i].at = Now' - i + 1
      <4>1. i = 1
        BY <1>1, <2>1
      <4> QED
        BY <1>1, <1>2, <1>3, <4>1
    <3>2. ASSUME NEW s \in Series
          PROVE  /\ ~begins'[SourceOf[s]].hour /\ ~begins'[SourceOf[s]].day
                 /\ LastAt(s)' = Now'
      <4>1. ShallTriggerInvokeCycle(SourceOf[s])
        BY <2>1, FirstBell
      <4>2. Age(s, 1)' = 1
        BY <4>1, Aging DEF Trace
      <4> QED
        BY <4>1, <4>2, BellOnBegins DEF LastAt, Now
    <3> QED
      BY <3>1, <3>2
  <2>2. CASE Len(ran) > 0
    <3>1. /\ 1 \in 1 .. Len(ran) /\ Now \in Int
          /\ \A i \in 1 .. Len(ran) : ran[i].at = Now - i + 1
          /\ timestamp = Now + 1
      <4>1. 1 \in 1 .. Len(ran)
        BY <1>1, <2>2
      <4>2. Now \in Int
        BY <4>1, RanTyped DEF Now
      <4> QED
        BY <1>2, <2>2, <4>1, <4>2 DEF Feed
    <3>2. ASSUME NEW i \in 1 .. Len(ran') PROVE ran'[i].at = Now' - i + 1
      <4>1. CASE i = 1
        BY <1>1, <1>2, <1>3, <4>1
      <4>2. CASE i # 1
        <5>1. i - 1 \in 1 .. Len(ran) /\ (i - 1) + 1 = i
          BY <1>1, <4>2
        <5>2. ran'[i].at = Now - (i - 1) + 1
          BY <1>1, <3>1, <5>1
        <5> QED
          BY <1>3, <3>1, <5>2
      <4> QED
        BY <4>1, <4>2
    <3>3. ASSUME NEW s \in Series
          PROVE  /\ begins'[SourceOf[s]].hour <=> HourOf(Now') # HourOf(LastAt(s)')
                 /\ begins'[SourceOf[s]].day <=> DayOf(Now') # DayOf(LastAt(s)')
      <4>1. LastAt(s)' = IF ShallTriggerInvokeCycle(SourceOf[s]) THEN timestamp ELSE LastAt(s)
        BY <2>2, BellOnLast
      <4>2. CASE ShallTriggerInvokeCycle(SourceOf[s])
        BY <1>3, <4>1, <4>2, BellOnBegins
      <4>3. CASE ~ShallTriggerInvokeCycle(SourceOf[s])
        <5>1. begins'[SourceOf[s]] = Begins(SourceOf[s]) /\ LastAt(s)' = LastAt(s)
          BY <4>1, <4>3, BellOnBegins
        <5>2. /\ Begins(SourceOf[s]).hour <=> HourOf(timestamp) # HourOf(LastAt(s))
              /\ Begins(SourceOf[s]).day <=> DayOf(timestamp) # DayOf(LastAt(s))
          BY <1>2, <2>2, MarksSoFar
        <5> QED
          BY <1>3, <5>1, <5>2
      <4> QED
        BY <4>2, <4>3
    <3> QED
      BY <3>2, <3>3
  <2> QED
    BY <1>1, <2>1, <2>2
<1> QED
  BY <1>3, <1>4, <1>5, <1>6 DEF Feed

LEMMA FeedHolds == Spec => [](IInv /\ Trace /\ Feed)
<1>1. IInv /\ Trace /\ Feed /\ [Next]_vars => Feed'
  <2> SUFFICES ASSUME IInv, Trace, Feed, [Next]_vars PROVE Feed'
    OBVIOUS
  <2>1. CASE RingTaskBell
    BY <2>1, BellFeed DEF RingTaskBell
  <2>2. CASE SetTimeOnly
    BY <2>2, SetFeed
  <2>3. CASE UNCHANGED vars
    BY <2>3 DEF vars, clockVars, Feed, regular, Now, LastAt, Age, Until, Period
  <2> QED
    BY <2>1, <2>2, <2>3 DEF Next
<1> QED
  BY <1>1, InitFeed, TraceHolds, PTL DEF Spec

-------------------------------------------------------------------------------
(* What the slices of the hours and the days count.                         *)

First == ran[Len(ran)].at

InHour(s, b, g) == {i \in StepsOf(s, b) : HourOf(ran[i].at) = g}
InDay(s, b, g)  == {i \in StepsOf(s, b) : DayOf(ran[i].at) = g}

HoursFull == regular /\ Len(ran) > 0 =>
    \A s \in Series : \A k \in 1 .. HoursInDay :
        HourLen * (HourOf(LastAt(s)) - k) >= First =>
           \A b \in Bars(s) : hours[s][k].bins[b]
                                 = Cardinality(InHour(s, b, HourOf(LastAt(s)) - k))

DaysFull == regular /\ Len(ran) > 0 =>
    \A s \in Series : \A k \in 1 .. DaysInWeek :
        HourLen * (HoursInDay * (DayOf(LastAt(s)) - k)) >= First =>
           \A b \in Bars(s) : days[s][k].bins[b]
                                 = Cardinality(InDay(s, b, DayOf(LastAt(s)) - k))

LEMMA StepsTyped ==
    ASSUME Trace, NEW s, NEW b
    PROVE  /\ Len(ran) \in Nat /\ DOMAIN ran = 1 .. Len(ran)
           /\ StepsOf(s, b) \subseteq 1 .. Len(ran) /\ IsFiniteSet(StepsOf(s, b))
<1>1. Len(ran) \in Nat /\ DOMAIN ran = 1 .. Len(ran)
  BY DEF Trace, Typed
<1>2. StepsOf(s, b) \subseteq 1 .. Len(ran)
  BY <1>1 DEF StepsOf
<1>3. IsFiniteSet(1 .. Len(ran))
  <2>1. 1 \in Int /\ Len(ran) \in Int
    BY <1>1
  <2> QED
    BY <2>1, FS_Interval
<1> QED
  BY <1>1, <1>2, <1>3, FS_Subset

(* The places of old steps move on by one and stay as many.                 *)
LEMMA MovedOn ==
    ASSUME NEW n \in Nat, NEW A \in SUBSET (1 .. n), NEW B \in SUBSET (1 .. n + 1),
           1 \notin B, \A i \in 1 .. n : i \in A <=> i + 1 \in B
    PROVE  Cardinality(B) = Cardinality(A)
<1>1. n + 1 \in Nat \ {0} /\ A \in SUBSET (1 .. n + 1) /\ (n + 1) - 1 = n /\ n + 1 \notin A
  OBVIOUS
<1>2. \A i \in 1 .. (n + 1) - 1 : i \in A <=> i + 1 \in B
  BY <1>1
<1>3. Cardinality(B) = Cardinality(A) + (IF 1 \in B THEN 1 ELSE 0)
                                      - (IF n + 1 \in A THEN 1 ELSE 0)
  BY <1>1, <1>2, ShiftCount
<1>4. Cardinality(A) \in Nat
  <2>1. 1 \in Int /\ n \in Int
    OBVIOUS
  <2>2. IsFiniteSet(1 .. n)
    BY <2>1, FS_Interval
  <2> QED
    BY <2>2, FS_Subset, FS_CardinalityType
<1> QED
  BY <1>1, <1>3, <1>4

LEMMA BellOnStepsOf ==
    ASSUME Trace, NEW r \in Readings, NEW w \in SUBSET Rules, Cycle(r, w), NEW s \in Series, NEW b
    PROVE  /\ \A i \in 1 .. Len(ran) : i \in StepsOf(s, b) <=> i + 1 \in StepsOf(s, b)'
           /\ StepsOf(s, b)' \subseteq 1 .. Len(ran) + 1
           /\ ~ShallTriggerInvokeCycle(SourceOf[s]) => 1 \notin StepsOf(s, b)'
           /\ ran'[1].at = timestamp
           /\ \A i \in 1 .. Len(ran) : ran'[i + 1].at = ran[i].at
<1>1. /\ ran'[1] = StepOf(r) /\ Len(ran) \in Nat /\ Len(ran') = Len(ran) + 1
      /\ \A i \in 1 .. Len(ran) : ran'[i + 1] = ran[i]
      /\ Typed' /\ Typed
  BY BellOnSteps DEF Trace
<1>2. DOMAIN ran' = 1 .. Len(ran) + 1 /\ DOMAIN ran = 1 .. Len(ran)
  BY <1>1 DEF Typed
<1>3. /\ StepOf(r).at = timestamp
      /\ StepOf(r).out[s] = IF ShallTriggerInvokeCycle(SourceOf[s]) THEN {Outcome(s, r)} ELSE {}
  BY StepAt
<1>4. \A i \in 1 .. Len(ran) : i \in StepsOf(s, b) <=> i + 1 \in StepsOf(s, b)'
  <2> SUFFICES ASSUME NEW i \in 1 .. Len(ran)
      PROVE  i \in StepsOf(s, b) <=> i + 1 \in StepsOf(s, b)'
    OBVIOUS
  <2>1. i + 1 \in DOMAIN ran' /\ i \in DOMAIN ran /\ ran'[i + 1] = ran[i]
    BY <1>1, <1>2
  <2> QED
    BY <2>1 DEF StepsOf
<1>5. StepsOf(s, b)' \subseteq 1 .. Len(ran) + 1
  BY <1>2 DEF StepsOf
<1>6. ~ShallTriggerInvokeCycle(SourceOf[s]) => 1 \notin StepsOf(s, b)'
  BY <1>1, <1>3 DEF StepsOf
<1> QED
  BY <1>1, <1>3, <1>4, <1>5, <1>6

(* A bell leaves the count of an hour or a day that is over.                *)
LEMMA BellOnPast ==
    ASSUME Trace, NEW r \in Readings, NEW w \in SUBSET Rules, Cycle(r, w),
           NEW s \in Series, NEW b, NEW g
    PROVE  /\ ~ShallTriggerInvokeCycle(SourceOf[s]) \/ HourOf(timestamp) # g =>
                 Cardinality(InHour(s, b, g)') = Cardinality(InHour(s, b, g))
           /\ ~ShallTriggerInvokeCycle(SourceOf[s]) \/ DayOf(timestamp) # g =>
                 Cardinality(InDay(s, b, g)') = Cardinality(InDay(s, b, g))
<1>1. /\ \A i \in 1 .. Len(ran) : i \in StepsOf(s, b) <=> i + 1 \in StepsOf(s, b)'
      /\ StepsOf(s, b)' \subseteq 1 .. Len(ran) + 1
      /\ ~ShallTriggerInvokeCycle(SourceOf[s]) => 1 \notin StepsOf(s, b)'
      /\ ran'[1].at = timestamp
      /\ \A i \in 1 .. Len(ran) : ran'[i + 1].at = ran[i].at
  BY BellOnStepsOf
<1>2. StepsOf(s, b) \subseteq 1 .. Len(ran) /\ Len(ran) \in Nat
  BY StepsTyped
<1> DEFINE n == Len(ran)
<1>3. ASSUME ~ShallTriggerInvokeCycle(SourceOf[s]) \/ HourOf(timestamp) # g
      PROVE  Cardinality(InHour(s, b, g)') = Cardinality(InHour(s, b, g))
  <2> DEFINE A == InHour(s, b, g)
             B == InHour(s, b, g)'
  <2>1. A \in SUBSET (1 .. n) /\ B \in SUBSET (1 .. n + 1)
    BY <1>1, <1>2 DEF InHour
  <2>2. 1 \notin B
    BY <1>1, <1>3 DEF InHour
  <2>3. \A i \in 1 .. n : i \in A <=> i + 1 \in B
    BY <1>1 DEF InHour
  <2> HIDE DEF A, B
  <2>4. Cardinality(B) = Cardinality(A)
    BY <1>2, <2>1, <2>2, <2>3, MovedOn
  <2> QED
    BY <2>4 DEF A, B
<1>4. ASSUME ~ShallTriggerInvokeCycle(SourceOf[s]) \/ DayOf(timestamp) # g
      PROVE  Cardinality(InDay(s, b, g)') = Cardinality(InDay(s, b, g))
  <2> DEFINE A == InDay(s, b, g)
             B == InDay(s, b, g)'
  <2>1. A \in SUBSET (1 .. n) /\ B \in SUBSET (1 .. n + 1)
    BY <1>1, <1>2 DEF InDay
  <2>2. 1 \notin B
    BY <1>1, <1>4 DEF InDay
  <2>3. \A i \in 1 .. n : i \in A <=> i + 1 \in B
    BY <1>1 DEF InDay
  <2> HIDE DEF A, B
  <2>4. Cardinality(B) = Cardinality(A)
    BY <1>2, <2>1, <2>2, <2>3, MovedOn
  <2> QED
    BY <2>4 DEF A, B
<1> QED
  BY <1>3, <1>4

(* Ages and stamps of the cycles of a series.                               *)
LEMMA AgesApart ==
    ASSUME Bells, NEW s \in Series, NEW k \in Int
    PROVE  Age(s, k) = Age(s, 1) + Period(s) * (k - 1) /\ Period(s) * (k - 1) \in Int
<1> DEFINE P == Period(s)
           u == Until(s)
<1>1. P \in Nat \ {0} /\ u \in 1 .. P
  BY PeriodType DEF Bells
<1>2. Age(s, k) = P * k - u + 1 /\ Age(s, 1) = P * 1 - u + 1
  BY DEF Age
<1> HIDE DEF P, u
<1>3. P * (k - 1) = P * k - P /\ P * k \in Int /\ P * 1 = P
  BY <1>1
<1>4. Age(s, k) = Age(s, 1) + P * (k - 1) /\ P * (k - 1) \in Int
  BY <1>1, <1>2, <1>3
<1> QED
  BY <1>4 DEF P

(* When the next cycle is in another hour, the window of the hour holds the *)
(* cycles of this one, and of no other.                                     *)
LEMMA WindowIsHour ==
    ASSUME Trace, NEW s \in Series, NEW b, Len(ran) > 0, Now \in Int,
           \A i \in 1 .. Len(ran) : ran[i].at = Now - i + 1,
           HourOf(LastAt(s) + Period(s)) # HourOf(LastAt(s)),
           HourLen * HourOf(LastAt(s)) >= First
    PROVE  Cardinality(Window(s, b, log[s])) = Cardinality(InHour(s, b, HourOf(LastAt(s))))
<1> DEFINE n == Len(ran)
           P == Period(s)
           M == MovingHour(s)
           A == LastAt(s)
           g == HourOf(LastAt(s))
           W == Window(s, b, log[s])
           Q == InHour(s, b, g)
<1>1. /\ n \in Nat /\ n > 0 /\ P \in Nat \ {0} /\ M \in Nat \ {0} /\ M <= LogSize(s)
      /\ LogSize(s) \in Nat /\ HourLen = P * M /\ HourLen \in Nat \ {0}
  BY PeriodType, CalendarAssumption DEF Trace, Typed
<1>2. /\ A = Now - Age(s, 1) + 1 /\ A \in Int /\ Age(s, 1) \in Int /\ Age(s, 1) >= 1
      /\ First = Now - n + 1
  <2>1. Age(s, 1) \in 1 .. n /\ n \in 1 .. n
    BY <1>1, LastCycle
  <2> QED
    BY <2>1 DEF LastAt, First
<1> DEFINE G == HourLen * g
<1>3. g \in Int /\ G \in Int /\ G <= A /\ A < G + HourLen
  BY <1>1, <1>2, DivBounds DEF HourOf
<1>h. First <= G
  BY <1>1, <1>2, <1>3
<1>u. ASSUME NEW t \in Int, G <= t, t < G + HourLen PROVE HourOf(t) = g
  <2> HIDE DEF g
  <2>1. t \div HourLen = g
    BY <1>1, <1>3, <1>u, DivUnique
  <2> QED
    BY <2>1 DEF HourOf
<1>l. ASSUME NEW t \in Int, HourOf(t) = g PROVE G <= t
  BY <1>1, <1>l, DivBounds DEF HourOf
<1>o. HourOf(A + P) # g
  OBVIOUS
<1>5. \A k \in Int : Age(s, k) = Age(s, 1) + P * (k - 1) /\ P * (k - 1) \in Int
  BY AgesApart DEF Trace
<1>6. \A j, k \in Int : j < k => Age(s, j) < Age(s, k)
  BY AgeType DEF Trace
<1>7. \A i \in 1 .. n : ran[i].at = Now - i + 1
  OBVIOUS
<1> HIDE DEF n, P, M, A, g, G
<1>4. A + P >= G + HourLen
  <2> SUFFICES ASSUME A + P < G + HourLen PROVE FALSE
    BY <1>1, <1>2, <1>3
  <2>1. A + P \in Int /\ G <= A + P
    BY <1>1, <1>2, <1>3
  <2> QED
    BY <1>o, <1>u, <2>1
<1>8. ASSUME NEW k \in 1 .. M
      PROVE  /\ k \in Int /\ k \in 1 .. LogSize(s)
             /\ Age(s, k) \in 1 .. n /\ HourOf(ran[Age(s, k)].at) = g
  <2>1. k \in Int /\ k - 1 \in Int /\ 0 <= k - 1 /\ k - 1 <= M - 1 /\ M - 1 \in Int
    BY <1>1
  <2>2. P * 0 <= P * (k - 1) /\ P * (k - 1) <= P * (M - 1)
    BY <1>1, <2>1, TimesGrows
  <2>3. P * (M - 1) = HourLen - P /\ P * 0 = 0
    BY <1>1
  <2>4. Age(s, k) = Age(s, 1) + P * (k - 1) /\ P * (k - 1) \in Int
    BY <1>5, <2>1
  <2> DEFINE e == P * (k - 1)
  <2>5. e \in Int /\ 0 <= e /\ e <= HourLen - P /\ Age(s, k) = Age(s, 1) + e
    BY <2>2, <2>3, <2>4
  <2> HIDE DEF e
  <2>6. /\ G <= A - e /\ A - e < G + HourLen /\ A - e \in Int
        /\ A - e = Now - Age(s, k) + 1
    <3>1. P \in Int /\ HourLen \in Int /\ Now \in Int
      BY <1>1
    <3>2. A - e = Now - Age(s, k) + 1 /\ A - e \in Int
      BY <1>2, <2>5, <3>1
    <3>3. G <= A - e /\ A - e < G + HourLen
      <4>1. A \in Int /\ G \in Int /\ e \in Int
        BY <1>2, <1>3, <2>5
      <4>2. G <= A /\ A < G + HourLen /\ A + P >= G + HourLen /\ 0 <= e /\ e <= HourLen - P
        BY <1>3, <1>4, <2>5
      <4> HIDE DEF A
      <4> QED
        BY <3>1, <4>1, <4>2
    <3> QED
      BY <3>2, <3>3
  <2>7. Age(s, k) \in 1 .. n
    <3>1. n \in Int /\ Now \in Int /\ Age(s, k) \in Int /\ Age(s, k) >= 1
      BY <1>1, <1>2, <2>5
    <3>2. Now - n + 1 <= Now - Age(s, k) + 1
      BY <1>2, <1>3, <1>h, <2>6, <3>1
    <3> QED
      BY <3>1, <3>2
  <2>8. ran[Age(s, k)].at = A - e
    BY <1>7, <2>6, <2>7
  <2>9. HourOf(A - e) = g
    BY <1>u, <2>6
  <2> QED
    BY <1>1, <2>1, <2>7, <2>8, <2>9
<1>9. ASSUME NEW k \in Nat \ {0}, Age(s, k) \in 1 .. n, HourOf(ran[Age(s, k)].at) = g
      PROVE  k \in 1 .. M
  <2> SUFFICES ASSUME M <= k - 1 PROVE FALSE
    BY <1>1
  <2>1. k \in Int /\ k - 1 \in Int
    OBVIOUS
  <2>2. P * M <= P * (k - 1)
    BY <1>1, <2>1, TimesGrows
  <2>3. Age(s, k) = Age(s, 1) + P * (k - 1) /\ P * (k - 1) \in Int
    BY <1>5, <2>1
  <2> DEFINE e == P * (k - 1)
             t == ran[Age(s, k)].at
  <2>4. e \in Int /\ HourLen <= e /\ Age(s, k) = Age(s, 1) + e
    BY <1>1, <2>2, <2>3
  <2>5. t = Now - Age(s, k) + 1
    BY <1>7, <1>9
  <2>6. HourOf(t) = g
    BY <1>9
  <2> HIDE DEF e, t
  <2> DEFINE y == Age(s, 1)
             z == Age(s, k)
  <2>7. t \in Int /\ t < G
    <3>1. Now \in Int /\ G \in Int /\ HourLen \in Int /\ y \in Int /\ e \in Int
      BY <1>1, <1>2, <1>3, <2>4
    <3>2. t = Now - z + 1 /\ z = y + e /\ A = Now - y + 1 /\ HourLen <= e /\ A < G + HourLen
      BY <1>2, <1>3, <2>4, <2>5
    <3> HIDE DEF y, z
    <3> QED
      BY <3>1, <3>2
  <2> QED
    BY <1>3, <1>l, <2>6, <2>7
<1>10. \A k \in 1 .. M : ran[Age(s, k)].out[s] = {log[s][k]}
  <2> SUFFICES ASSUME NEW k \in 1 .. M PROVE ran[Age(s, k)].out[s] = {log[s][k]}
    OBVIOUS
  <2>1. k \in 1 .. LogSize(s) /\ Age(s, k) \in 1 .. n
    BY <1>8
  <2> QED
    BY <2>1 DEF Trace, Cycles, n
<1>11. W = {k \in 1 .. M : b \in CountedIn(log[s][k])}
  BY DEF Window, M
<1>12. \A i : i \in Q <=> /\ i \in 1 .. n /\ HourOf(ran[i].at) = g
                          /\ \E x \in ran[i].out[s] : b \in CountedIn(x)
  <2>1. DOMAIN ran = 1 .. n
    BY DEF Trace, Typed, n
  <2> QED
    BY <2>1 DEF InHour, StepsOf
<1> HIDE DEF W, Q
<1> DEFINE f == [k \in W |-> Age(s, k)]
<1>13. f \in [W -> Q]
  <2> SUFFICES ASSUME NEW k \in W PROVE Age(s, k) \in Q
    OBVIOUS
  <2>1. k \in 1 .. M /\ b \in CountedIn(log[s][k])
    BY <1>11
  <2>2. Age(s, k) \in 1 .. n /\ HourOf(ran[Age(s, k)].at) = g
        /\ ran[Age(s, k)].out[s] = {log[s][k]}
    BY <1>8, <1>10, <2>1
  <2> QED
    BY <1>12, <2>1, <2>2
<1>14. IsInjective(f)
  <2> SUFFICES ASSUME NEW j \in W, NEW k \in W, Age(s, j) = Age(s, k) PROVE j = k
    BY DEF IsInjective
  <2>1. j \in Int /\ k \in Int /\ Age(s, j) \in Int
    BY <1>8, <1>11
  <2>2. (j < k => Age(s, j) < Age(s, k)) /\ (k < j => Age(s, k) < Age(s, j))
    BY <1>6, <2>1
  <2> QED
    BY <2>1, <2>2
<1>15. \A i \in Q : \E k \in W : f[k] = i
  <2> SUFFICES ASSUME NEW i \in Q PROVE \E k \in W : Age(s, k) = i
    OBVIOUS
  <2>1. i \in 1 .. n /\ HourOf(ran[i].at) = g /\ \E x \in ran[i].out[s] : b \in CountedIn(x)
    BY <1>12
  <2>2. PICK k \in Nat \ {0} : i = Age(s, k)
    <3>1. ran[i].out[s] # {}
      BY <2>1
    <3> QED
      BY <2>1, <3>1 DEF Trace, Cycles, n
  <2>3. k \in 1 .. M
    BY <1>9, <2>1, <2>2
  <2>4. ran[i].out[s] = {log[s][k]}
    BY <1>10, <2>2, <2>3
  <2>5. k \in W
    BY <1>11, <2>1, <2>3, <2>4
  <2> QED
    BY <2>2, <2>5
<1>16. f \in Bijection(W, Q)
  <2> HIDE DEF f
  <2> QED
    BY <1>13, <1>14, <1>15 DEF Bijection, Injection, Surjection
<1>17. IsFiniteSet(W)
  <2>1. 1 \in Int /\ M \in Int
    BY <1>1
  <2>2. IsFiniteSet(1 .. M) /\ W \in SUBSET (1 .. M)
    BY <1>11, <2>1, FS_Interval
  <2> QED
    BY <2>2, FS_Subset
<1>18. Cardinality(Q) = Cardinality(W)
  BY <1>16, <1>17, FS_Bijection DEF ExistsBijection
<1> QED
  BY <1>18 DEF W, Q, g

(* The stamps a due series cycles at, one period apart, and the marks it    *)
(* finds.                                                                   *)
LEMMA DueStep ==
    ASSUME Trace, Feed, regular, unread = TRUE, NEW s \in Series, Len(ran) > 0,
           ShallTriggerInvokeCycle(SourceOf[s])
    PROVE  /\ timestamp = LastAt(s) + Period(s) /\ LastAt(s) \in Int
           /\ HourOf(timestamp) \in {HourOf(LastAt(s)), HourOf(LastAt(s)) + 1}
           /\ Begins(SourceOf[s]).hour <=> HourOf(timestamp) = HourOf(LastAt(s)) + 1
           /\ DayOf(timestamp) \in {DayOf(LastAt(s)), DayOf(LastAt(s)) + 1}
           /\ Begins(SourceOf[s]).day <=> DayOf(timestamp) = DayOf(LastAt(s)) + 1
           /\ Begins(SourceOf[s]).day => /\ Begins(SourceOf[s]).hour
                                         /\ HourOf(timestamp) = HoursInDay * DayOf(timestamp)
<1> DEFINE A == LastAt(s)
           P == Period(s)
           h == HourOf(A)
           D == DayOf(A)
<1>1. P \in Nat \ {0} /\ MovingHour(s) \in Nat \ {0} /\ HourLen = P * MovingHour(s)
  BY PeriodType
<1>2. /\ Begins(SourceOf[s]).hour <=> HourOf(timestamp) # h
      /\ Begins(SourceOf[s]).day <=> DayOf(timestamp) # D
      /\ timestamp = Now + 1 /\ Now \in Int
      /\ A = Now - Age(s, 1) + 1 /\ A \in Int
  BY MarksSoFar
<1>3. Age(s, 1) = P
  BY <1>1 DEF ShallTriggerInvokeCycle, Age, Until
<1>4. timestamp = A + P
  BY <1>1, <1>2, <1>3
<1>5. h \in Int /\ D \in Int /\ HourLen \in Nat \ {0} /\ HoursInDay \in Nat \ {0, 1}
  BY <1>2, HourType
<1>6. P \in 0 .. HourLen
  <2> DEFINE M == MovingHour(s)
  <2>1. M \in Nat \ {0} /\ HourLen = P * M
    BY <1>1
  <2> HIDE DEF M, P
  <2>2. P * 1 <= P * M /\ P * 1 = P
    BY <1>1, <2>1, TimesGrows
  <2> QED
    BY <1>1, <1>5, <2>1, <2>2
<1> HIDE DEF A, P
<1>7. HourOf(timestamp) \in {h, h + 1}
  BY <1>2, <1>4, <1>5, <1>6, DivNext DEF HourOf
<1>8. DayOf(timestamp) \in {D, D + 1}
  <2>1. PICK d \in {0, 1} : HourOf(timestamp) = h + d
    BY <1>5, <1>7
  <2>2. d \in 0 .. HoursInDay /\ HoursInDay \in Nat \ {0}
    BY <1>5
  <2> HIDE DEF h
  <2>3. (h + d) \div HoursInDay \in {h \div HoursInDay, (h \div HoursInDay) + 1}
    BY <1>5, <2>2, DivNext
  <2> QED
    BY <2>1, <2>3 DEF DayOf, h
<1>9. ASSUME DayOf(timestamp) = D + 1
      PROVE  HourOf(timestamp) # h /\ HourOf(timestamp) = HoursInDay * DayOf(timestamp)
  <2>1. HourOf(timestamp) = h + 1
    <3>1. D # D + 1
      BY <1>5
    <3> QED
      BY <1>7, <1>9, <3>1 DEF DayOf
  <2>2. D = h \div HoursInDay /\ D + 1 = (h + 1) \div HoursInDay
    BY <1>9, <2>1 DEF DayOf
  <2> HIDE DEF h, D
  <2>3. /\ h < HoursInDay * D + HoursInDay /\ HoursInDay * (D + 1) <= h + 1
        /\ HoursInDay * D \in Int
    <3>1. h + 1 \in Int /\ HoursInDay \in Nat \ {0}
      BY <1>5
    <3> QED
      BY <1>5, <2>2, <3>1, DivBounds
  <2>4. HoursInDay * (D + 1) = HoursInDay * D + HoursInDay
    BY <1>5
  <2>5. h + 1 = HoursInDay * (D + 1)
    BY <1>5, <2>3, <2>4
  <2> QED
    BY <1>5, <1>9, <2>1, <2>5
<1> HIDE DEF h, D
<1>10. h # h + 1 /\ D # D + 1
  BY <1>5
<1>11. /\ Begins(SourceOf[s]).hour <=> HourOf(timestamp) = h + 1
       /\ Begins(SourceOf[s]).day <=> DayOf(timestamp) = D + 1
  BY <1>2, <1>7, <1>8, <1>10
<1>12. Begins(SourceOf[s]).day => /\ Begins(SourceOf[s]).hour
                                  /\ HourOf(timestamp) = HoursInDay * DayOf(timestamp)
  BY <1>2, <1>9, <1>11
<1> QED
  BY <1>2, <1>4, <1>7, <1>8, <1>11, <1>12, Zenon DEF h, D, A, P

(* What a due series that has cycled before does to its slices.             *)
LEMMA DueSlices ==
    ASSUME Trace, Len(ran) > 0, NEW s \in Series, NEW x
    PROVE  /\ CloseHour(s, x) = IF Begins(SourceOf[s]).hour THEN Push(moving[s], hours[s])
                                ELSE hours[s]
           /\ CloseDay(s, x) = IF Begins(SourceOf[s]).day
                               THEN Push(Summed(s, CloseHour(s, x)), days[s]) ELSE days[s]
<1>1. started[s] = TRUE
  <2>1. started[s] /\ started[s] \in BOOLEAN
    BY DEF Trace, Typed, Bells
  <2> QED
    BY <2>1
<1>2. OpenMoving(s, x) = moving[s] /\ OpenHours(s, x) = hours[s] /\ OpenDays(s, x) = days[s]
  BY <1>1 DEF OpenMoving, OpenHours, OpenDays, FirstValue
<1> QED
  BY <1>2 DEF CloseHour, CloseDay

(* The first bell: no hour or day before its own is covered.                *)
LEMMA NoneCovered ==
    ASSUME NEW t \in Int, NEW k \in Nat \ {0}
    PROVE  /\ ~(HourLen * (HourOf(t) - k) >= t)
           /\ ~(HourLen * (HoursInDay * (DayOf(t) - k)) >= t)
<1>1. /\ HourOf(t) \in Int /\ DayOf(t) \in Int
      /\ HourLen \in Nat \ {0} /\ HoursInDay \in Nat \ {0}
  BY HourType
<1>2. HourLen * HourOf(t) <= t /\ HourLen * HourOf(t) \in Int
  BY <1>1, DivBounds DEF HourOf
<1>3. ASSUME NEW e \in Int, e <= HourOf(t) - 1 PROVE ~(HourLen * e >= t)
  <2> DEFINE h == HourOf(t)
  <2>1. h - 1 \in Int /\ HourLen * (h - 1) = HourLen * h - HourLen
    BY <1>1
  <2>2. HourLen * e <= HourLen * (h - 1)
    BY <1>1, <1>3, <2>1, TimesGrows
  <2>3. HourLen * e \in Int /\ HourLen * h <= t /\ HourLen * h \in Int
    BY <1>1, <1>2
  <2> HIDE DEF h
  <2> DEFINE X == HourLen * e
             Y == HourLen * (h - 1)
             Z == HourLen * h
  <2>4. X <= Y /\ Y = Z - HourLen /\ Z <= t /\ X \in Int /\ Z \in Int
    BY <2>1, <2>2, <2>3
  <2> HIDE DEF X, Y, Z
  <2>5. ~(X >= t)
    BY <1>1, <2>4
  <2> QED
    BY <2>5 DEF X
<1>4. HoursInDay * (DayOf(t) - k) <= HourOf(t) - 1 /\ HoursInDay * (DayOf(t) - k) \in Int
  <2> DEFINE D == DayOf(t)
             h == HourOf(t)
  <2>1. D - k \in Int /\ D - 1 \in Int /\ D - k <= D - 1
        /\ HoursInDay * (D - 1) = HoursInDay * D - HoursInDay
    BY <1>1
  <2>2. HoursInDay * (D - k) <= HoursInDay * (D - 1) /\ HoursInDay * (D - k) \in Int
    BY <1>1, <2>1, TimesGrows
  <2>3. HoursInDay * D <= h /\ HoursInDay * D \in Int /\ h \in Int
    BY <1>1, DivBounds DEF DayOf
  <2> HIDE DEF h, D
  <2> DEFINE X == HoursInDay * (D - k)
             Y == HoursInDay * (D - 1)
             Z == HoursInDay * D
  <2>4. X <= Y /\ Y = Z - HoursInDay /\ Z <= h /\ X \in Int /\ Z \in Int
    BY <2>1, <2>2, <2>3
  <2> HIDE DEF X, Y, Z
  <2>5. X <= h - 1 /\ X \in Int
    BY <1>1, <2>3, <2>4
  <2> QED
    BY <2>5 DEF X, h, D
<1>5. HourOf(t) - k \in Int /\ HourOf(t) - k <= HourOf(t) - 1
  BY <1>1
<1> QED
  BY <1>3, <1>4, <1>5

(* What a bell does to the ends of the steps.                               *)
LEMMA BellOnFirst ==
    ASSUME IInv, Trace, NEW r \in Readings, NEW w \in SUBSET Rules, Cycle(r, w)
    PROVE  /\ Len(ran) = 0 => First' = timestamp /\ \A s \in Series : LastAt(s)' = timestamp
           /\ Len(ran) > 0 => First' = First
           /\ Len(ran) \in Nat /\ Len(ran') = Len(ran) + 1 /\ timestamp \in Int
<1>1. /\ Len(ran) \in Nat /\ Len(ran') = Len(ran) + 1 /\ ran'[1] = StepOf(r)
      /\ \A i \in 1 .. Len(ran) : ran'[i + 1] = ran[i]
      /\ StepOf(r).at = timestamp /\ timestamp \in Int
  BY BellOnSteps DEF Trace, Typed, StepOf
<1>2. ASSUME Len(ran) = 0, NEW s \in Series PROVE LastAt(s)' = timestamp
  <2>1. ShallTriggerInvokeCycle(SourceOf[s])
    BY <1>2, FirstBell
  <2>2. Age(s, 1)' = 1
    BY <2>1, Aging DEF Trace
  <2> QED
    BY <1>1, <2>2 DEF LastAt
<1>3. Len(ran) = 0 => First' = timestamp
  BY <1>1 DEF First
<1>4. ASSUME Len(ran) > 0 PROVE First' = First
  <2>1. Len(ran) \in 1 .. Len(ran)
    BY <1>1, <1>4
  <2>2. ran'[Len(ran')] = ran[Len(ran)]
    BY <1>1, <2>1
  <2> QED
    BY <2>2 DEF First
<1> QED
  BY <1>1, <1>2, <1>3, <1>4

(* A bell keeps what the hours count.                                       *)
LEMMA BellHours ==
    ASSUME IInv, Trace, Feed, Divided, HoursFull,
           NEW r \in Readings, NEW w \in SUBSET Rules, Cycle(r, w), regular',
           NEW s \in Series, NEW k \in 1 .. HoursInDay, NEW b \in Bars(s),
           HourLen * (HourOf(LastAt(s)') - k) >= First'
    PROVE  hours'[s][k].bins[b] = Cardinality(InHour(s, b, HourOf(LastAt(s)) - k)')
<1>1. regular /\ unread = TRUE
  BY BellInTurn DEF Trace, Typed
<1>2. HoursInDay \in Nat \ {0} /\ HourLen \in Nat \ {0} /\ k \in Nat \ {0}
  BY CalendarAssumption
<1>3. Len(ran) \in Nat /\ timestamp \in Int
  BY BellOnFirst
<1>4. Len(ran) > 0
  <2> SUFFICES ASSUME Len(ran) = 0 PROVE FALSE
    BY <1>3
  <2>1. First' = timestamp /\ LastAt(s)' = timestamp
    BY BellOnFirst
  <2>2. ~(HourLen * (HourOf(timestamp) - k) >= timestamp)
    BY <1>2, <1>3, NoneCovered
  <2> QED
    BY <2>1, <2>2
<1>5. First' = First
  BY <1>4, BellOnFirst
<1>6. PICK g : g = HourOf(LastAt(s)') - k
  OBVIOUS
<1>7. HourLen * g >= First
  BY <1>5, <1>6
<1>8. InHour(s, b, HourOf(LastAt(s)) - k)' = InHour(s, b, g)'
  BY <1>6 DEF InHour, HourOf
<1>9. /\ ~ShallTriggerInvokeCycle(SourceOf[s]) \/ HourOf(timestamp) # g =>
              Cardinality(InHour(s, b, g)') = Cardinality(InHour(s, b, g))
  BY BellOnPast
<1>10. LastAt(s)' = IF ShallTriggerInvokeCycle(SourceOf[s]) THEN timestamp ELSE LastAt(s)
  BY <1>4, BellOnLast
<1>11. \A j \in 1 .. HoursInDay : HourLen * (HourOf(LastAt(s)) - j) >= First =>
          hours[s][j].bins[b] = Cardinality(InHour(s, b, HourOf(LastAt(s)) - j))
  BY <1>1, <1>4 DEF HoursFull
<1>12. CASE ~ShallTriggerInvokeCycle(SourceOf[s])
  <2>1. hours'[s] = hours[s]
    BY <1>12, CycleOfSlices
  <2>2. g = HourOf(LastAt(s)) - k
    BY <1>6, <1>10, <1>12
  <2> QED
    BY <1>7, <1>8, <1>9, <1>11, <1>12, <2>1, <2>2
<1>13. CASE ShallTriggerInvokeCycle(SourceOf[s])
  <2> DEFINE h == HourOf(LastAt(s))
             x == Outcome(s, r)
  <2>1. /\ timestamp = LastAt(s) + Period(s) /\ LastAt(s) \in Int
        /\ HourOf(timestamp) \in {h, h + 1}
        /\ Begins(SourceOf[s]).hour <=> HourOf(timestamp) = h + 1
    BY <1>1, <1>4, <1>13, DueStep
  <2>2. h \in Int /\ HourOf(timestamp) \in Int
    BY <1>3, <2>1, HourType
  <2>3. g = HourOf(timestamp) - k
    BY <1>6, <1>10, <1>13
  <2>4. Cardinality(InHour(s, b, g)') = Cardinality(InHour(s, b, g))
    BY <1>2, <1>9, <2>2, <2>3
  <2>5. hours'[s] = IF Begins(SourceOf[s]).hour THEN Push(moving[s], hours[s]) ELSE hours[s]
    <3>1. hours'[s] = CloseHour(s, x)
      BY <1>13, CycleOfSlices
    <3> HIDE DEF x
    <3> QED
      BY <1>4, <3>1, DueSlices
  <2>6. DOMAIN hours[s] = 1 .. HoursInDay
    BY DEF Divided, AllDivide
  <2>7. CASE ~Begins(SourceOf[s]).hour
    <3>1. g = h - k
      BY <2>1, <2>3, <2>7
    <3> QED
      BY <1>7, <1>8, <1>11, <2>4, <2>5, <2>7, <3>1
  <2>8. CASE Begins(SourceOf[s]).hour /\ k = 1
    <3>1. g = h /\ HourOf(LastAt(s) + Period(s)) # h
      BY <2>1, <2>2, <2>3, <2>8
    <3>2. hours'[s][k] = moving[s]
      BY <1>2, <2>5, <2>6, <2>8, Pushed
    <3>3. moving[s].bins[b] = Cardinality(Window(s, b, log[s]))
      <4>1. started[s]
        BY <1>4 DEF Trace, Typed, Bells
      <4> QED
        BY <4>1 DEF IInv, BinsMatchLog, Window
    <3>4. /\ Now \in Int /\ \A i \in 1 .. Len(ran) : ran[i].at = Now - i + 1
      BY <1>1, <1>4, MarksSoFar DEF Feed
    <3>5. Cardinality(Window(s, b, log[s])) = Cardinality(InHour(s, b, HourOf(LastAt(s))))
      BY <1>4, <1>7, <3>1, <3>4, WindowIsHour
    <3> QED
      BY <1>8, <2>4, <3>1, <3>2, <3>3, <3>5
  <2>9. CASE Begins(SourceOf[s]).hour /\ k # 1
    <3>1. k - 1 \in 1 .. HoursInDay /\ (k - 1) + 1 = k /\ k <= HoursInDay
      BY <1>2, <2>9
    <3>2. g = h - (k - 1)
      BY <1>2, <2>1, <2>2, <2>3, <2>9
    <3>3. hours'[s][k] = hours[s][k - 1]
      <4>1. Push(moving[s], hours[s])[(k - 1) + 1] = hours[s][k - 1]
        BY <1>2, <2>6, <3>1, Pushed
      <4> QED
        BY <2>5, <2>9, <3>1, <4>1
    <3> QED
      BY <1>7, <1>8, <1>11, <2>4, <3>1, <3>2, <3>3
  <2> QED
    BY <2>7, <2>8, <2>9
<1> QED
  BY <1>12, <1>13

(* The hours of a day count what the day counts.                            *)
HoursOf(s, b, g) == [j \in 1 .. HoursInDay |-> Cardinality(InHour(s, b, HoursInDay * (g + 1) - j))]

AllDaysOfHours == \A s \in Series, g \in Int : \A b :
    Cardinality(InDay(s, b, g)) = SumOf(HoursOf(s, b, g), 1 .. HoursInDay)

LEMMA HourInDay ==
    ASSUME NEW g \in Int, NEW t \in Int
    PROVE  /\ DayOf(t) = g => HoursInDay * (g + 1) - HourOf(t) \in 1 .. HoursInDay
           /\ \A j \in 1 .. HoursInDay : HourOf(t) = HoursInDay * (g + 1) - j => DayOf(t) = g
<1>1. HourOf(t) \in Int /\ HoursInDay \in Nat \ {0} /\ DayOf(t) = HourOf(t) \div HoursInDay
  BY HourType DEF DayOf
<1> DEFINE h == HourOf(t)
           N == HoursInDay
           X == HoursInDay * g
<1>2. h \in Int /\ N \in Nat \ {0} /\ X \in Int /\ N * (g + 1) = X + N
  BY <1>1
<1>3. DayOf(t) = g => X <= h /\ h < X + N
  BY <1>1, DivBounds
<1>4. X <= h /\ h < X + N => DayOf(t) = g
  BY <1>1, DivUnique
<1> HIDE DEF h, N, X
<1>5. DayOf(t) = g => N * (g + 1) - h \in 1 .. N
  BY <1>2, <1>3
<1>6. \A j \in 1 .. N : h = N * (g + 1) - j => DayOf(t) = g
  BY <1>2, <1>4
<1> QED
  BY <1>5, <1>6 DEF h, N

LEMMA DayOfHours == Trace => AllDaysOfHours
<1> SUFFICES ASSUME Trace, NEW s \in Series, NEW g \in Int, NEW b
             PROVE  Cardinality(InDay(s, b, g)) = SumOf(HoursOf(s, b, g), 1 .. HoursInDay)
  BY DEF AllDaysOfHours
<1> DEFINE B == InDay(s, b, g)
           K == 1 .. HoursInDay
           H == HoursInDay * (g + 1)
           d == [i \in B |-> H - HourOf(ran[i].at)]
           c == [j \in K |-> Cardinality({i \in B : d[i] = j})]
<1>1. HoursInDay \in Nat \ {0} /\ H \in Int /\ IsFiniteSet(K)
  <2>1. HoursInDay \in Nat \ {0}
    BY CalendarAssumption
  <2>2. 1 \in Int /\ HoursInDay \in Int
    BY <2>1
  <2>3. IsFiniteSet(1 .. HoursInDay)
    BY <2>2, FS_Interval
  <2> QED
    BY <2>1, <2>3
<1>2. IsFiniteSet(B) /\ B \subseteq StepsOf(s, b) /\ StepsOf(s, b) \subseteq 1 .. Len(ran)
  <2>1. StepsOf(s, b) \subseteq 1 .. Len(ran) /\ IsFiniteSet(StepsOf(s, b))
    BY StepsTyped
  <2>2. B \subseteq StepsOf(s, b)
    BY DEF InDay
  <2> QED
    BY <2>1, <2>2, FS_Subset
<1>3. \A i \in StepsOf(s, b) : ran[i].at \in Int /\ HourOf(ran[i].at) \in Int
  BY <1>2, RanTyped, HourType
<1>4. \A i \in B : d[i] \in K
  <2> SUFFICES ASSUME NEW i \in B PROVE H - HourOf(ran[i].at) \in K
    OBVIOUS
  <2>1. ran[i].at \in Int /\ DayOf(ran[i].at) = g
    BY <1>2, <1>3 DEF InDay
  <2> QED
    BY <2>1, HourInDay
<1>5. \A j \in K : {i \in B : d[i] = j} = InHour(s, b, H - j)
  <2> SUFFICES ASSUME NEW j \in K PROVE {i \in B : d[i] = j} = InHour(s, b, H - j)
    OBVIOUS
  <2>1. ASSUME NEW i \in B, d[i] = j PROVE i \in InHour(s, b, H - j)
    <3>1. i \in StepsOf(s, b) /\ HourOf(ran[i].at) \in Int /\ H - HourOf(ran[i].at) = j /\ j \in Int
      BY <1>1, <1>2, <1>3, <2>1
    <3> HIDE DEF H
    <3>2. HourOf(ran[i].at) = H - j
      BY <1>1, <3>1
    <3> QED
      BY <3>1, <3>2 DEF InHour
  <2>2. ASSUME NEW i \in InHour(s, b, H - j) PROVE i \in B /\ d[i] = j
    <3>1. i \in StepsOf(s, b) /\ HourOf(ran[i].at) = H - j
      BY DEF InHour
    <3>2. ran[i].at \in Int /\ HourOf(ran[i].at) \in Int
      BY <1>3, <3>1
    <3>3. DayOf(ran[i].at) = g
      BY <3>1, <3>2, HourInDay
    <3>4. i \in B
      BY <3>1, <3>3 DEF InDay
    <3>5. d[i] = H - HourOf(ran[i].at)
      BY <3>4
    <3> HIDE DEF H, d, B
    <3>6. d[i] = j
      BY <1>1, <3>1, <3>5
    <3> QED
      BY <3>4, <3>6
  <2> QED
    BY <2>1, <2>2
<1> HIDE DEF d
<1>6. SumOf(c, K) = Cardinality(B)
  <2> HIDE DEF B, K
  <2> QED
    BY <1>1, <1>2, <1>4, SumOfClasses
<1>7. \A j \in K : c[j] = HoursOf(s, b, g)[j]
  BY <1>5 DEF HoursOf
<1> HIDE DEF c
<1>8. SumOf(c, K) = SumOf(HoursOf(s, b, g), K)
  <2> HIDE DEF K
  <2> QED
    BY <1>1, <1>7, SumSame
<1> QED
  BY <1>6, <1>8

(* A bell keeps what the days count.                                        *)
LEMMA BellDays ==
    ASSUME IInv, Trace, Trace', AllDaysOfHours', Feed, Divided, HoursFull, DaysFull,
           NEW r \in Readings, NEW w \in SUBSET Rules, Cycle(r, w), regular',
           NEW s \in Series, NEW k \in 1 .. DaysInWeek, NEW b \in Bars(s),
           HourLen * (HoursInDay * (DayOf(LastAt(s)') - k)) >= First'
    PROVE  days'[s][k].bins[b] = Cardinality(InDay(s, b, DayOf(LastAt(s)) - k)')
<1>1. regular /\ unread = TRUE
  BY BellInTurn DEF Trace, Typed
<1>2. /\ HoursInDay \in Nat \ {0} /\ HourLen \in Nat \ {0} /\ DaysInWeek \in Nat \ {0}
      /\ k \in Nat \ {0}
  BY CalendarAssumption
<1>3. Len(ran) \in Nat /\ timestamp \in Int
  BY BellOnFirst
<1>4. Len(ran) > 0
  <2> SUFFICES ASSUME Len(ran) = 0 PROVE FALSE
    BY <1>3
  <2>1. First' = timestamp /\ LastAt(s)' = timestamp
    BY BellOnFirst
  <2>2. ~(HourLen * (HoursInDay * (DayOf(timestamp) - k)) >= timestamp)
    BY <1>2, <1>3, NoneCovered
  <2> QED
    BY <2>1, <2>2
<1>5. First' = First
  BY <1>4, BellOnFirst
<1>6. PICK g : g = DayOf(LastAt(s)') - k
  OBVIOUS
<1>7. HourLen * (HoursInDay * g) >= First
  BY <1>5, <1>6
<1>8. InDay(s, b, DayOf(LastAt(s)) - k)' = InDay(s, b, g)'
  BY <1>6 DEF InDay, DayOf, HourOf
<1>9. ~ShallTriggerInvokeCycle(SourceOf[s]) \/ DayOf(timestamp) # g =>
              Cardinality(InDay(s, b, g)') = Cardinality(InDay(s, b, g))
  BY BellOnPast
<1>10. LastAt(s)' = IF ShallTriggerInvokeCycle(SourceOf[s]) THEN timestamp ELSE LastAt(s)
  BY <1>4, BellOnLast
<1>11. \A j \in 1 .. DaysInWeek : HourLen * (HoursInDay * (DayOf(LastAt(s)) - j)) >= First =>
          days[s][j].bins[b] = Cardinality(InDay(s, b, DayOf(LastAt(s)) - j))
  BY <1>1, <1>4 DEF DaysFull
<1>12. CASE ~ShallTriggerInvokeCycle(SourceOf[s])
  <2>1. days'[s] = days[s]
    BY <1>12, CycleOfSlices
  <2>2. g = DayOf(LastAt(s)) - k
    BY <1>6, <1>10, <1>12
  <2> QED
    BY <1>7, <1>8, <1>9, <1>11, <1>12, <2>1, <2>2
<1>13. CASE ShallTriggerInvokeCycle(SourceOf[s])
  <2> DEFINE D == DayOf(LastAt(s))
             x == Outcome(s, r)
             H == HoursInDay * (g + 1)
             f == [j \in DOMAIN hours'[s] |-> hours'[s][j].bins[b]]
             K == 1 .. HoursInDay
  <2>1. /\ timestamp = LastAt(s) + Period(s) /\ LastAt(s) \in Int
        /\ DayOf(timestamp) \in {D, D + 1}
        /\ Begins(SourceOf[s]).day <=> DayOf(timestamp) = D + 1
        /\ Begins(SourceOf[s]).day => /\ Begins(SourceOf[s]).hour
                                      /\ HourOf(timestamp) = HoursInDay * DayOf(timestamp)
    BY <1>1, <1>4, <1>13, DueStep
  <2>2. D \in Int /\ DayOf(timestamp) \in Int
    BY <1>3, <2>1, HourType
  <2>3. g = DayOf(timestamp) - k /\ g \in Int
    BY <1>2, <1>6, <1>10, <1>13, <2>2
  <2>4. Cardinality(InDay(s, b, g)') = Cardinality(InDay(s, b, g))
    BY <1>2, <1>9, <2>2, <2>3
  <2>5. days'[s] = IF Begins(SourceOf[s]).day THEN Push(Summed(s, hours'[s]), days[s]) ELSE days[s]
    <3>1. days'[s] = CloseDay(s, x) /\ hours'[s] = CloseHour(s, x)
      BY <1>13, CycleOfSlices
    <3> HIDE DEF x
    <3> QED
      BY <1>4, <3>1, DueSlices
  <2>6. DOMAIN days[s] = 1 .. DaysInWeek /\ DOMAIN (hours'[s]) = K
    <3>1. DOMAIN days[s] = 1 .. DaysInWeek /\ DOMAIN hours[s] = K
      BY DEF Divided, AllDivide
    <3>2. hours'[s] = CloseHour(s, x)
      BY <1>13, CycleOfSlices
    <3> HIDE DEF x
    <3>3. hours'[s] = IF Begins(SourceOf[s]).hour THEN Push(moving[s], hours[s]) ELSE hours[s]
      BY <1>4, <3>2, DueSlices
    <3> QED
      BY <1>2, <3>1, <3>3, Pushed
  <2>7. CASE ~Begins(SourceOf[s]).day
    <3>1. g = D - k
      BY <2>1, <2>3, <2>7
    <3> QED
      BY <1>7, <1>8, <1>11, <2>4, <2>5, <2>7, <3>1
  <2>8. CASE Begins(SourceOf[s]).day /\ k = 1
    <3>1. HourOf(timestamp) = H /\ H \in Int
      <4>1. g + 1 = DayOf(timestamp)
        BY <2>2, <2>3, <2>8
      <4> QED
        BY <1>2, <2>1, <2>3, <2>8, <4>1
    <3>2. days'[s][k] = Summed(s, hours'[s])
      BY <1>2, <2>5, <2>6, <2>8, Pushed
    <3>3. ASSUME NEW j \in K PROVE f[j] = Cardinality(InHour(s, b, H - j)')
      <4>1. HourOf(LastAt(s)') - j = H - j
        BY <1>10, <1>13, <3>1
      <4>2. HourLen * (H - j) >= First'
        <5> DEFINE X == HoursInDay * g
        <5>1. X \in Int /\ H = X + HoursInDay /\ j \in Int /\ j <= HoursInDay
          BY <1>2, <2>3
        <5>2. HourLen * X >= First /\ First \in Int
          <6>1. Len(ran) \in 1 .. Len(ran)
            BY <1>3, <1>4
          <6> QED
            BY <1>7, <6>1, RanTyped DEF First
        <5> HIDE DEF X, H
        <5>3. X <= H - j /\ H - j \in Int
          BY <1>2, <5>1
        <5>4. HourLen * X <= HourLen * (H - j) /\ HourLen * X \in Int /\ HourLen * (H - j) \in Int
          BY <1>2, <5>1, <5>3, TimesGrows
        <5> QED
          BY <1>5, <5>2, <5>4
      <4>3. hours'[s][j].bins[b] = Cardinality(InHour(s, b, HourOf(LastAt(s)) - j)')
        <5>1. HourLen * (HourOf(LastAt(s)') - j) >= First'
          BY <4>1, <4>2
        <5> QED
          BY <5>1, BellHours
      <4>4. InHour(s, b, HourOf(LastAt(s)) - j)' = InHour(s, b, H - j)'
        BY <4>1 DEF InHour, HourOf
      <4> QED
        BY <2>6, <4>3, <4>4
    <3>4. \A j \in K : f[j] = HoursOf(s, b, g)'[j]
      BY <3>3 DEF HoursOf
    <3>5. Summed(s, hours'[s]).bins[b] = SumOf(f, K)
      <4> DEFINE sl == hours'[s]
      <4>1. DOMAIN sl = K
        BY <2>6
      <4>2. f = [j \in DOMAIN sl |-> sl[j].bins[b]]
        OBVIOUS
      <4> HIDE DEF sl, K, f
      <4>3. Summed(s, sl).bins[b] = SumOf([j \in DOMAIN sl |-> sl[j].bins[b]], DOMAIN sl)
        BY SummedSum
      <4>4. Summed(s, sl).bins[b] = SumOf(f, K)
        BY <4>1, <4>2, <4>3
      <4> QED
        BY <4>4 DEF sl
    <3>6. SumOf(f, K) = SumOf(HoursOf(s, b, g)', K)
      <4>1. IsFiniteSet(K)
        <5>1. 1 \in Int /\ HoursInDay \in Int
          BY <1>2
        <5> QED
          BY <5>1, FS_Interval
      <4> HIDE DEF f, K
      <4> QED
        BY <3>4, <4>1, SumSame
    <3>7. Cardinality(InDay(s, b, g)') = SumOf(HoursOf(s, b, g)', K)
      BY <2>3 DEF AllDaysOfHours
    <3> QED
      BY <1>8, <3>2, <3>5, <3>6, <3>7
  <2>9. CASE Begins(SourceOf[s]).day /\ k # 1
    <3>1. k - 1 \in 1 .. DaysInWeek /\ (k - 1) + 1 = k /\ k <= DaysInWeek
      BY <1>2, <2>9
    <3>2. g = D - (k - 1)
      BY <1>2, <2>1, <2>2, <2>3, <2>9
    <3>3. days'[s][k] = days[s][k - 1]
      <4> DEFINE sl == Summed(s, hours'[s])
      <4> HIDE DEF sl
      <4>1. Push(sl, days[s])[(k - 1) + 1] = days[s][k - 1]
        BY <1>2, <2>6, <3>1, Pushed
      <4> QED
        BY <2>5, <2>9, <3>1, <4>1 DEF sl
    <3> QED
      BY <1>7, <1>8, <1>11, <2>4, <3>1, <3>2, <3>3
  <2> QED
    BY <2>7, <2>8, <2>9
<1> QED
  BY <1>12, <1>13

LEMMA InitFull == Init => HoursFull /\ DaysFull
<1> SUFFICES ASSUME Init PROVE HoursFull /\ DaysFull
  OBVIOUS
<1>1. ran = <<>>
  BY DEF Init
<1>2. ~(Len(ran) > 0)
  BY <1>1
<1> QED
  BY <1>2 DEF HoursFull, DaysFull

LEMMA NextFull ==
    /\ IInv /\ Trace /\ Feed /\ Divided /\ HoursFull /\ DaysFull
    /\ Trace' /\ AllDaysOfHours' /\ [Next]_vars
    => HoursFull' /\ DaysFull'
<1> SUFFICES ASSUME IInv, Trace, Feed, Divided, HoursFull, DaysFull,
                    Trace', AllDaysOfHours', [Next]_vars
             PROVE  HoursFull' /\ DaysFull'
  OBVIOUS
<1>1. ASSUME NEW r \in Readings, NEW w \in SUBSET Rules, Cycle(r, w)
      PROVE  HoursFull' /\ DaysFull'
  <2>1. HoursFull'
    BY <1>1, BellHours DEF HoursFull
  <2>2. DaysFull'
    BY <1>1, BellDays DEF DaysFull
  <2> QED
    BY <2>1, <2>2
<1>2. CASE UNCHANGED <<ran, hours, days, untilCycle>> /\ (regular' => regular)
  <2>1. First' = First /\ \A s \in Series : LastAt(s)' = LastAt(s)
    BY <1>2 DEF First, LastAt, Age, Until, Period
  <2>2. \A s, b, g : InHour(s, b, g)' = InHour(s, b, g) /\ InDay(s, b, g)' = InDay(s, b, g)
    BY <1>2 DEF InHour, InDay, StepsOf
  <2>3. HoursFull'
    <3> SUFFICES ASSUME regular', Len(ran') > 0, NEW s \in Series, NEW k \in 1 .. HoursInDay,
                        HourLen * (HourOf(LastAt(s)') - k) >= First', NEW b \in Bars(s)
                 PROVE  hours'[s][k].bins[b] = Cardinality(InHour(s, b, HourOf(LastAt(s)) - k)')
      BY DEF HoursFull
    <3>1. InHour(s, b, HourOf(LastAt(s)) - k)' = InHour(s, b, HourOf(LastAt(s)) - k)
      BY <1>2, <2>1 DEF InHour, StepsOf
    <3> QED
      BY <1>2, <2>1, <3>1 DEF HoursFull
  <2>4. DaysFull'
    <3> SUFFICES ASSUME regular', Len(ran') > 0, NEW s \in Series, NEW k \in 1 .. DaysInWeek,
                        HourLen * (HoursInDay * (DayOf(LastAt(s)') - k)) >= First',
                        NEW b \in Bars(s)
                 PROVE  days'[s][k].bins[b] = Cardinality(InDay(s, b, DayOf(LastAt(s)) - k)')
      BY DEF DaysFull
    <3>1. InDay(s, b, DayOf(LastAt(s)) - k)' = InDay(s, b, DayOf(LastAt(s)) - k)
      BY <1>2, <2>1 DEF InDay, StepsOf
    <3> QED
      BY <1>2, <2>1, <3>1 DEF DaysFull
  <2> QED
    BY <2>3, <2>4
<1>3. CASE SetTimeOnly
  <2>1. PICK t : SetTimeFromPort(t)
    BY <1>3 DEF SetTimeOnly, SetTime
  <2>2. UNCHANGED <<ran, hours, days, untilCycle>>
    BY <1>3, <2>1 DEF SetTimeOnly, histoVars, SetTimeFromPort
  <2>3. regular' => regular
    BY <2>1 DEF SetTimeFromPort, OutOfTurn, regular, Trace, Typed
  <2> QED
    BY <1>2, <2>2, <2>3
<1>4. CASE UNCHANGED vars
  BY <1>2, <1>4 DEF vars, clockVars, histoVars, regular
<1> QED
  BY <1>1, <1>3, <1>4 DEF Next, RingTaskBell

LEMMA FullHolds == Spec => [](IInv /\ Trace /\ Feed /\ Divided /\ HoursFull /\ DaysFull)
BY InitFull, NextFull, DayOfHours, FeedHolds, SharesHold, PTL DEF Spec

(* The last cycle of a series is of age 1.                                  *)
LEMMA LastIsFirstAge ==
    ASSUME Trace, NEW s \in Series, Len(ran) > 0
    PROVE  ran[LastOf(s)].at = LastAt(s)
<1> DEFINE a == Age(s, 1)
           Q(i) == ran[i].out[s] # {} /\ \A j \in 1 .. i - 1 : ran[j].out[s] = {}
<1>1. a \in 1 .. Len(ran) /\ ran[a].out[s] # {} /\ DOMAIN ran = 1 .. Len(ran) /\ Len(ran) \in Nat
  <2>1. DOMAIN ran = 1 .. Len(ran) /\ Len(ran) \in Nat
    BY DEF Trace, Typed
  <2>2. a \in 1 .. Len(ran) /\ ran[a].out[s] = {log[s][1]}
    BY LastCycle
  <2>3. ran[a].out[s] # {}
    BY <2>2
  <2> QED
    BY <2>1, <2>2, <2>3
<1>2. ASSUME NEW i \in 1 .. Len(ran), ran[i].out[s] # {} PROVE a <= i
  <2>1. PICK k \in Nat \ {0} : i = Age(s, k)
    BY <1>2 DEF Trace, Cycles
  <2>2. k \in Int /\ 1 \in Int /\ (k = 1 \/ 1 < k)
    OBVIOUS
  <2>3. Age(s, 1) \in Int /\ Age(s, k) \in Int /\ (1 < k => Age(s, 1) < Age(s, k))
    BY <2>2, AgeType DEF Trace
  <2> QED
    BY <2>1, <2>2, <2>3
<1> HIDE DEF a
<1>3. a \in DOMAIN ran /\ Q(a)
  <2>1. \A j \in 1 .. a - 1 : ran[j].out[s] = {}
    <3> SUFFICES ASSUME NEW j \in 1 .. a - 1, ran[j].out[s] # {} PROVE FALSE
      OBVIOUS
    <3>1. j \in 1 .. Len(ran) /\ ~(a <= j)
      BY <1>1
    <3> QED
      BY <1>2, <3>1
  <2> QED
    BY <1>1, <2>1
<1>4. \A i \in DOMAIN ran : Q(i) => i = a
  <2> SUFFICES ASSUME NEW i \in DOMAIN ran, Q(i), i # a PROVE FALSE
    OBVIOUS
  <2>1. i \in 1 .. Len(ran) /\ a <= i
    BY <1>1, <1>2
  <2>2. a \in 1 .. i - 1
    BY <1>1, <2>1
  <2> QED
    BY <1>1, <2>2
<1>5. LastOf(s) = CHOOSE i \in DOMAIN ran : Q(i)
  BY DEF LastOf
<1> HIDE DEF Q
<1>6. LastOf(s) = a
  BY <1>3, <1>4, <1>5
<1> QED
  BY <1>6 DEF LastAt, a

(* With a bell each minute, the slices of the past 24 hours count exactly   *)
(* the cycles of each clock hour that the feeder covered.                   *)
THEOREM HoursAlwaysCounted == Spec => []HoursCounted
<1>1. IInv /\ Trace /\ Divided /\ HoursFull => HoursCounted
  <2> SUFFICES ASSUME Trace, Divided, HoursFull, regular, NEW s \in Series, started[s],
                      NEW k \in DOMAIN hours[s],
                      (HourOf(ran[LastOf(s)].at) - k) * HourLen >= ran[Len(ran)].at,
                      NEW b \in Bars(s)
               PROVE  hours[s][k].bins[b] = Cardinality(
                         {i \in StepsOf(s, b) : HourOf(ran[i].at) = HourOf(ran[LastOf(s)].at) - k})
    BY DEF HoursCounted, Counted
  <2>1. Len(ran) > 0
    BY DEF Trace, Typed, Bells
  <2>2. ran[LastOf(s)].at = LastAt(s) /\ LastAt(s) \in Int
    <3>1. Age(s, 1) \in 1 .. Len(ran)
      BY <2>1, LastCycle
    <3> QED
      BY <2>1, <3>1, LastIsFirstAge, RanTyped DEF LastAt
  <2>3. k \in 1 .. HoursInDay /\ k \in Int /\ HourOf(LastAt(s)) \in Int /\ HourLen \in Int
    <3>1. k \in 1 .. HoursInDay
      BY DEF Divided, AllDivide
    <3>2. HourOf(LastAt(s)) \in Int /\ HourLen \in Int
      BY <2>2, HourType
    <3> QED
      BY <3>1, <3>2
  <2>4. HourLen * (HourOf(LastAt(s)) - k) = (HourOf(LastAt(s)) - k) * HourLen
    BY <2>3
  <2>5. HourLen * (HourOf(LastAt(s)) - k) >= First
    BY <2>2, <2>4 DEF First
  <2> QED
    BY <2>1, <2>2, <2>3, <2>5 DEF HoursFull, InHour
<1> QED
  BY <1>1, FullHolds, PTL

(* And the slices of the past 7 days the cycles of each calendar day.       *)
THEOREM DaysAlwaysCounted == Spec => []DaysCounted
<1>1. IInv /\ Trace /\ Divided /\ DaysFull => DaysCounted
  <2> SUFFICES ASSUME Trace, Divided, DaysFull, regular, NEW s \in Series, started[s],
                      NEW k \in DOMAIN days[s],
                      (DayOf(ran[LastOf(s)].at) - k) * HourLen * HoursInDay >= ran[Len(ran)].at,
                      NEW b \in Bars(s)
               PROVE  days[s][k].bins[b] = Cardinality(
                         {i \in StepsOf(s, b) : DayOf(ran[i].at) = DayOf(ran[LastOf(s)].at) - k})
    BY DEF DaysCounted, Counted
  <2>1. Len(ran) > 0
    BY DEF Trace, Typed, Bells
  <2>2. ran[LastOf(s)].at = LastAt(s) /\ LastAt(s) \in Int
    <3>1. Age(s, 1) \in 1 .. Len(ran)
      BY <2>1, LastCycle
    <3> QED
      BY <2>1, <3>1, LastIsFirstAge, RanTyped DEF LastAt
  <2>3. /\ k \in 1 .. DaysInWeek /\ k \in Int /\ DayOf(LastAt(s)) \in Int
        /\ HourLen \in Int /\ HoursInDay \in Int
    <3>1. k \in 1 .. DaysInWeek
      BY DEF Divided, AllDivide
    <3>2. DayOf(LastAt(s)) \in Int /\ HourLen \in Int /\ HoursInDay \in Int
      BY <2>2, HourType
    <3> QED
      BY <3>1, <3>2
  <2>4. HourLen * (HoursInDay * (DayOf(LastAt(s)) - k))
           = (DayOf(LastAt(s)) - k) * HourLen * HoursInDay
    <3> DEFINE e == DayOf(LastAt(s)) - k
    <3>1. e \in Int
      BY <2>3
    <3> HIDE DEF e
    <3> QED
      BY <2>3, <3>1 DEF e
  <2>5. HourLen * (HoursInDay * (DayOf(LastAt(s)) - k)) >= First
    BY <2>2, <2>4 DEF First
  <2> QED
    BY <2>1, <2>2, <2>3, <2>5 DEF DaysFull, InDay
<1> QED
  BY <1>1, FullHolds, PTL
===============================================================================

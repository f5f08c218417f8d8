------------------------------ MODULE ChartProofs ------------------------------
(***************************************************************************)
(* Theorems about Chart, for any charts, facts, ranges and readings: the   *)
(* knobs tell what their hosts use, the log of a source is as long as the  *)
(* span its charts were given, and no sustained fact claims early.         *)
(***************************************************************************)
EXTENDS Chart, TLAPS

ValuesTyped == /\ valuesLogged \in [Source -> Seq(Int)]
               /\ \A s \in Source : Len(valuesLogged[s]) >= LogSize
FieldsTyped == field \in [Knob -> Int] /\ DOMAIN shown = Knob
ChartsTyped == /\ DOMAIN shew = Shewhart
               /\ \A c \in Shewhart : /\ "cyclesUsed" \in DOMAIN shew[c]
                                      /\ shew[c].cyclesUsed \in Nat
SpansTyped == DOMAIN spansInUse = Source

(* The inductive invariant. *)
IInv == ValuesTyped /\ FieldsTyped /\ ChartsTyped /\ SpansTyped /\ KnobShowsUse

-------------------------------------------------------------------------------
LEMMA MaxOfTwo == ASSUME NEW i \in Nat, NEW j \in Nat
                  PROVE  /\ Max({i, j}) \in {i, j}
                         /\ Max({i, j}) >= i /\ Max({i, j}) >= j
<1>1. \E m \in {i, j} : \A n \in {i, j} : m >= n
  OBVIOUS
<1> QED
  BY <1>1 DEF Max

LEMMA MinOfTwo == ASSUME NEW i \in Nat, NEW j \in Nat
                  PROVE  /\ Min({i, j}) \in {i, j}
                         /\ Min({i, j}) <= i /\ Min({i, j}) <= j
<1>1. \E m \in {i, j} : \A n \in {i, j} : m <= n
  OBVIOUS
<1> QED
  BY <1>1 DEF Min

(* A span the user asks for is rounded down to whole cycles, one at least.  *)
LEMMA SpanFits ==
    ASSUME NEW secs \in Int, FitRainCycles(secs) > 0
    PROVE  LET n == FitRainCycles(secs)
           IN  /\ n \in Nat
               /\ SecsPerCycle <= n * SecsPerCycle
               /\ n * SecsPerCycle <= RainfallSize * SecsPerCycle
<1> DEFINE n == secs \div SecsPerCycle
<1>1. SecsPerCycle \in Nat /\ SecsPerCycle > 0 /\ RainfallSize \in Nat
  BY SpanAssumption
<1>2. SecsPerCycle <= secs /\ secs < RainfallSize * SecsPerCycle
  BY <1>1 DEF FitRainCycles
<1>3. FitRainCycles(secs) = n
  BY <1>2 DEF FitRainCycles
<1>4. n \in Int /\ n > 0
  BY <1>1, <1>3
<1>5. n * SecsPerCycle <= secs
  BY <1>1
<1>6. SecsPerCycle <= n * SecsPerCycle
  <2>1. \A a, b \in Nat : a > 0 /\ b > 0 => b <= a * b
    OBVIOUS
  <2> QED BY <2>1, <1>1, <1>4
<1> QED
  BY <1>1, <1>2, <1>3, <1>4, <1>5, <1>6

-------------------------------------------------------------------------------
LEMMA InitIInv == Init => IInv
<1> SUFFICES ASSUME Init PROVE IInv
  OBVIOUS
<1>1. LogSize \in Nat /\ StartSpan \in Nat /\ SecsPerCycle \in Nat /\ RainfallSize \in Nat
  BY SpanAssumption
<1>2. StartSpan <= LogSize /\ LogSize < RainfallSize /\ SecsPerCycle > 0 /\ StartSpan >= 2
  BY SpanAssumption
<1>3. ValuesTyped
  <2>1. [i \in 1 .. LogSize |-> 0] \in Seq(Int) /\ Len([i \in 1 .. LogSize |-> 0]) = LogSize
    BY <1>1
  <2>2. valuesLogged = [s \in Source |-> [i \in 1 .. LogSize |-> 0]]
    BY DEF Init
  <2> QED BY <2>1, <2>2, <1>1 DEF ValuesTyped
<1>4. \A k \in Knob : StartOf(k) \in Int /\ Low(k) <= StartOf(k) /\ StartOf(k) <= High(k)
  <2> SUFFICES ASSUME NEW k \in Knob
               PROVE  StartOf(k) \in Int /\ Low(k) <= StartOf(k) /\ StartOf(k) <= High(k)
    OBVIOUS
  <2>1. CASE k[2] = "secs"
    <3>1. StartSpan * SecsPerCycle \in Int
      BY <1>1
    <3>2. \A a, b, m \in Nat : a <= b => a * m <= b * m
      OBVIOUS
    <3>3. SecsPerCycle <= StartSpan * SecsPerCycle
      BY <3>2, <1>1, <1>2
    <3>4. StartSpan * SecsPerCycle <= RainfallSize * SecsPerCycle
      BY <3>2, <1>1, <1>2
    <3> QED BY <2>1, <3>1, <3>3, <3>4 DEF StartOf, Low, High
  <2>2. CASE k[2] # "secs"
    <3>1. k[2] \in Names
      BY <2>2 DEF Knob, Names
    <3>2. MinDefMax[k[2]] \in [1 .. 3 -> Int]
      BY <3>1, RangeAssumption
    <3>3. MinDefMax[k[2]][1] <= MinDefMax[k[2]][2] /\ MinDefMax[k[2]][2] <= MinDefMax[k[2]][3]
      BY <3>1, RangeAssumption
    <3> QED BY <2>2, <3>2, <3>3 DEF StartOf, Low, High
  <2> QED BY <2>1, <2>2
<1>5. field = [k \in Knob |-> StartOf(k)] /\ shown = [k \in Knob |-> StartOf(k)]
  BY DEF Init
<1>6. FieldsTyped /\ \A k \in Knob : shown[k] = field[k] /\ Low(k) <= shown[k] /\ shown[k] <= High(k)
  BY <1>4, <1>5 DEF FieldsTyped
<1>7. shew = [c \in Shewhart |-> InitShewhart]
  BY DEF Init
<1>8. ChartsTyped /\ \A c \in Shewhart : shew[c].cyclesUsed = StartSpan
  BY <1>7, <1>1 DEF ChartsTyped, InitShewhart
<1>9. spansInUse = [s \in Source |->
          [n \in {LogSize} \union (IF ChartsOn(s) = {} THEN {} ELSE {StartSpan}) |-> 1]]
  BY DEF Init
<1>10. ASSUME NEW c \in Shewhart
       PROVE  /\ shown[<<c, "secs">>] = shew[c].cyclesUsed * SecsPerCycle
              /\ shew[c].cyclesUsed \in DOMAIN spansInUse[Observed[c]]
              /\ shew[c].cyclesUsed <= Len(valuesLogged[Observed[c]])
  <2>1. Observed[c] \in Source /\ c \in ChartsOn(Observed[c])
    BY ChartsAssumption DEF ChartsOn
  <2>2. <<c, "secs">> \in Knob
    BY DEF Knob
  <2>3. shown[<<c, "secs">>] = StartSpan * SecsPerCycle
    BY <2>2, <1>5 DEF StartOf
  <2>4. StartSpan \in DOMAIN spansInUse[Observed[c]]
    BY <2>1, <1>9
  <2>5. StartSpan <= Len(valuesLogged[Observed[c]])
    BY <2>1, <1>1, <1>2, <1>3 DEF ValuesTyped
  <2> QED BY <2>3, <2>4, <2>5, <1>8
<1> QED
  BY <1>3, <1>6, <1>8, <1>9, <1>10 DEF IInv, SpansTyped, KnobShowsUse

-------------------------------------------------------------------------------
(* A cycle leaves the spans alone: a chart changes everything but its span, *)
(* and the log takes a value for the one it loses.                          *)
LEMMA CycleKeepsLogs ==
    ASSUME IInv, NEW in \in Readings, NEW luck, NEW area, Cycle(in, luck, area)
    PROVE  /\ ValuesTyped'
           /\ \A s \in Source : Len(valuesLogged'[s]) = Len(valuesLogged[s])
<1>1. valuesLogged' = [s \in Source |-> UpdateLogging(s, in[s])]
  BY DEF Cycle
<1>2. \A s \in Source : valuesLogged[s] \in Seq(Int) /\ Len(valuesLogged[s]) >= LogSize
  BY DEF IInv, ValuesTyped
<1>3. LogSize \in Nat /\ LogSize >= 2
  BY SpanAssumption
<1>4. ASSUME NEW s \in Source
      PROVE  /\ UpdateLogging(s, in[s]) \in Seq(Int)
             /\ Len(UpdateLogging(s, in[s])) = Len(valuesLogged[s])
  <2> DEFINE log == valuesLogged[s]
             y == IF in[s] = Invalid THEN log[1] ELSE in[s]
  <2>1. log \in Seq(Int) /\ Len(log) \in Nat /\ Len(log) >= 1 /\ DOMAIN log = 1 .. Len(log)
    BY <1>2, <1>3
  <2>2. in[s] \in Int \union {Invalid}
    BY InputsAssumption
  <2>3. y \in Int
    BY <2>1, <2>2
  <2>4. CASE started
    <3>1. UpdateLogging(s, in[s]) = [i \in 1 .. Len(log) |-> IF i = 1 THEN y ELSE log[i - 1]]
      BY <2>1, <2>4 DEF UpdateLogging, Push
    <3> HIDE DEF y
    <3>2. \A i \in 1 .. Len(log) : (IF i = 1 THEN y ELSE log[i - 1]) \in Int
      BY <2>1, <2>3
    <3>3. [i \in 1 .. Len(log) |-> IF i = 1 THEN y ELSE log[i - 1]] \in [1 .. Len(log) -> Int]
      BY <3>2
    <3> QED BY <3>1, <3>3, <2>1
  <2>5. CASE ~started
    <3>1. UpdateLogging(s, in[s]) = [i \in 1 .. Len(log) |-> y]
      BY <2>1, <2>5 DEF UpdateLogging
    <3> HIDE DEF y
    <3> QED BY <3>1, <2>3, <2>1
  <2> QED BY <2>4, <2>5
<1> QED
  BY <1>1, <1>2, <1>4 DEF ValuesTyped

LEMMA CycleIInv ==
    ASSUME IInv, NEW in \in Readings, NEW luck, NEW area, Cycle(in, luck, area)
    PROVE  IInv'
<1>1. UNCHANGED <<spansInUse, field, shown>> /\ shew' = [c \in Shewhart |-> CycleShewhart(c, luck)]
  BY DEF Cycle
<1>2. /\ ValuesTyped'
      /\ \A s \in Source : Len(valuesLogged'[s]) = Len(valuesLogged[s])
  BY CycleKeepsLogs
<1>3. ASSUME NEW c \in Shewhart
      PROVE  "cyclesUsed" \in DOMAIN shew'[c] /\ shew'[c].cyclesUsed = shew[c].cyclesUsed
  <2>1. "cyclesUsed" \in DOMAIN shew[c]
    BY DEF IInv, ChartsTyped
  <2>2. "cyclesUsed" \in DOMAIN CycleShewhart(c, luck) /\ CycleShewhart(c, luck).cyclesUsed = shew[c].cyclesUsed
    <3>1. "cyclesUsed" \in DOMAIN ApplyShewhart(c) /\ ApplyShewhart(c).cyclesUsed = shew[c].cyclesUsed
      BY <2>1 DEF ApplyShewhart
    <3>2. LET r == [shew[c] EXCEPT !.valid = FALSE, !.steady = shew[c].was]
          IN  "cyclesUsed" \in DOMAIN r /\ r.cyclesUsed = shew[c].cyclesUsed
      BY <2>1
    <3> QED BY <3>1, <3>2 DEF CycleShewhart
  <2> QED BY <1>1, <2>2
<1>4. ChartsTyped'
  BY <1>1, <1>3 DEF IInv, ChartsTyped
<1>5. Observed \in [Shewhart -> Source]
  BY ChartsAssumption
<1>6. FieldsTyped' /\ SpansTyped'
  BY <1>1 DEF IInv, FieldsTyped, SpansTyped
<1>7. KnobShowsUse'
  <2>1. KnobShowsUse
    BY DEF IInv
  <2>2. \A k \in Knob : shown'[k] = field'[k] /\ Low(k) <= shown'[k] /\ shown'[k] <= High(k)
    BY <2>1, <1>1 DEF KnobShowsUse
  <2>3. ASSUME NEW c \in Shewhart
        PROVE  /\ shown'[<<c, "secs">>] = shew'[c].cyclesUsed * SecsPerCycle
               /\ shew'[c].cyclesUsed \in DOMAIN spansInUse'[Observed[c]]
               /\ shew'[c].cyclesUsed <= Len(valuesLogged'[Observed[c]])
    <3>1. Len(valuesLogged'[Observed[c]]) = Len(valuesLogged[Observed[c]])
      BY <1>2, <1>5
    <3> QED BY <3>1, <2>1, <1>1, <1>3 DEF KnobShowsUse
  <2> QED BY <2>2, <2>3 DEF KnobShowsUse, Low, High
<1> QED
  BY <1>2, <1>4, <1>6, <1>7 DEF IInv

-------------------------------------------------------------------------------
(* The log grows with the span, if it has to, and the span is counted from  *)
(* then on.                                                                 *)
LEMMA LogGrows ==
    ASSUME NEW log \in Seq(Int), Len(log) >= LogSize, NEW n \in Nat
    PROVE  /\ Grown(log, n) \in Seq(Int)
           /\ Len(Grown(log, n)) >= LogSize
           /\ Len(Grown(log, n)) >= n /\ Len(Grown(log, n)) >= Len(log)
<1>1. Len(log) \in Nat /\ LogSize \in Nat /\ Len(log) >= 2
  BY SpanAssumption
<1> DEFINE m == Max({n, Len(log)})
<1>2. m \in Nat /\ m >= n /\ m >= Len(log)
  BY <1>1, MaxOfTwo
<1>3. ASSUME NEW i \in 1 .. m PROVE log[Min({i, Len(log)})] \in Int
  <2>1. Min({i, Len(log)}) \in {i, Len(log)} /\ Min({i, Len(log)}) <= Len(log)
    BY <1>1, <1>2, MinOfTwo
  <2>2. Min({i, Len(log)}) \in 1 .. Len(log)
    BY <2>1, <1>1, <1>2
  <2> QED BY <2>2
<1>4. Grown(log, n) = [i \in 1 .. m |-> log[Min({i, Len(log)})]]
  BY DEF Grown
<1> HIDE DEF m
<1>5. Grown(log, n) \in [1 .. m -> Int]
  BY <1>3, <1>4
<1>6. Grown(log, n) \in Seq(Int) /\ Len(Grown(log, n)) = m
  BY <1>5, <1>2
<1> QED
  BY <1>6, <1>2, <1>1

LEMMA SpanAdded == ASSUME NEW users, NEW old, NEW n
                   PROVE  DOMAIN ShiftSpan(users, old, n) = DOMAIN users \union {n}
BY DEF ShiftSpan

LEMMA SetKnobIInv ==
    ASSUME IInv, NEW k \in Knob, NEW v \in Tries[k[2]], SetKnobToValue(k, v)
    PROVE  IInv'
<1>1. /\ Low(k) <= v /\ v <= High(k)
      /\ FieldSetter(k, v)
      /\ shown' = [shown EXCEPT ![k] = field'[k]]
  BY DEF SetKnobToValue, ValueNowToGui
<1>2. /\ KnobShowsUse /\ ValuesTyped /\ SpansTyped /\ ChartsTyped
      /\ field \in [Knob -> Int] /\ DOMAIN shown = Knob
  BY DEF IInv, FieldsTyped
<1>3. v \in Int
  <2>1. k[2] \in Names \union {"secs"}
    BY DEF Knob, Names
  <2> QED BY <2>1, InputsAssumption
<1>4. SecsPerCycle \in Nat /\ LogSize \in Nat
  BY SpanAssumption
<1>5. ASSUME field' \in [Knob -> Int], Low(k) <= field'[k], field'[k] <= High(k),
             \A j \in Knob : j # k => field'[j] = field[j]
      PROVE  /\ FieldsTyped'
             /\ \A j \in Knob : shown'[j] = field'[j] /\ Low(j) <= shown'[j] /\ shown'[j] <= High(j)
             /\ shown'[k] = field'[k]
             /\ \A j \in Knob : j # k => shown'[j] = shown[j]
  <2>1. DOMAIN shown' = Knob /\ shown'[k] = field'[k] /\ \A j \in Knob : j # k => shown'[j] = shown[j]
    BY <1>1, <1>2
  <2>2. \A j \in Knob : j # k => shown'[j] = field'[j] /\ Low(j) <= shown'[j] /\ shown'[j] <= High(j)
    BY <2>1, <1>2, <1>5 DEF KnobShowsUse
  <2> QED BY <2>1, <2>2, <1>5 DEF FieldsTyped
<1>6. CASE k[2] = "secs" /\ SetNumSecs(k[1], v)
  <2> DEFINE c == k[1]
             n == FitRainCycles(v)
             s == Observed[c]
  <2>1. c \in Shewhart /\ k = <<c, "secs">>
    BY <1>6 DEF Knob
  <2>2. s \in Source
    BY <2>1, ChartsAssumption
  <2>3. /\ n > 0
        /\ valuesLogged' = [valuesLogged EXCEPT ![s] = Grown(valuesLogged[s], n)]
        /\ spansInUse' = [spansInUse EXCEPT ![s] = ShiftSpan(spansInUse[s], shew[c].cyclesUsed, n)]
        /\ shew' = [shew EXCEPT ![c].cyclesUsed = n]
        /\ field' = [field EXCEPT ![<<c, "secs">>] = n * SecsPerCycle]
    BY <1>6 DEF SetNumSecs
  <2>4. n \in Nat /\ SecsPerCycle <= n * SecsPerCycle /\ n * SecsPerCycle <= RainfallSize * SecsPerCycle
    BY <2>3, <1>3, SpanFits
  <2> HIDE DEF n, s, c
  <2>5. Low(k) = SecsPerCycle /\ High(k) = RainfallSize * SecsPerCycle
    BY <1>6 DEF Low, High
  <2>6. n * SecsPerCycle \in Int
    BY <2>4, <1>4
  <2>7. field' \in [Knob -> Int] /\ field'[k] = n * SecsPerCycle /\ \A j \in Knob : j # k => field'[j] = field[j]
    BY <2>1, <2>3, <2>6, <1>2
  <2>8. /\ FieldsTyped'
        /\ \A j \in Knob : shown'[j] = field'[j] /\ Low(j) <= shown'[j] /\ shown'[j] <= High(j)
        /\ shown'[k] = field'[k]
        /\ \A j \in Knob : j # k => shown'[j] = shown[j]
    BY <1>5, <2>4, <2>5, <2>7
  <2>9. /\ Grown(valuesLogged[s], n) \in Seq(Int)
        /\ Len(Grown(valuesLogged[s], n)) >= LogSize
        /\ Len(Grown(valuesLogged[s], n)) >= n
        /\ Len(Grown(valuesLogged[s], n)) >= Len(valuesLogged[s])
    BY <2>2, <2>4, <1>2, LogGrows DEF ValuesTyped
  <2>10. ValuesTyped'
    BY <2>3, <2>9, <1>2 DEF ValuesTyped
  <2>11. \A t \in Source : Len(valuesLogged'[t]) \in Nat /\ Len(valuesLogged[t]) \in Nat
                           /\ Len(valuesLogged'[t]) >= Len(valuesLogged[t])
    <3>1. \A t \in Source : Len(valuesLogged'[t]) \in Nat /\ Len(valuesLogged[t]) \in Nat
      BY <2>10, <1>2 DEF ValuesTyped
    <3>2. \A t \in Source : t # s => valuesLogged'[t] = valuesLogged[t]
      BY <2>3, <1>2 DEF ValuesTyped
    <3>3. valuesLogged'[s] = Grown(valuesLogged[s], n)
      BY <2>2, <2>3, <1>2 DEF ValuesTyped
    <3> QED BY <3>1, <3>2, <3>3, <2>9
  <2>12. /\ SpansTyped'
         /\ \A t \in Source : DOMAIN spansInUse[t] \subseteq DOMAIN spansInUse'[t]
         /\ n \in DOMAIN spansInUse'[s]
    <3>1. DOMAIN ShiftSpan(spansInUse[s], shew[c].cyclesUsed, n) = DOMAIN spansInUse[s] \union {n}
      BY SpanAdded
    <3> QED BY <3>1, <2>2, <2>3, <1>2 DEF SpansTyped
  <2>13. /\ ChartsTyped' /\ shew'[c].cyclesUsed = n
         /\ \A d \in Shewhart : d # c => shew'[d] = shew[d]
    BY <2>1, <2>3, <2>4, <1>2 DEF ChartsTyped
  <2>14. ASSUME NEW d \in Shewhart
         PROVE  /\ shown'[<<d, "secs">>] = shew'[d].cyclesUsed * SecsPerCycle
                /\ shew'[d].cyclesUsed \in DOMAIN spansInUse'[Observed[d]]
                /\ shew'[d].cyclesUsed <= Len(valuesLogged'[Observed[d]])
    <3>1. <<d, "secs">> \in Knob /\ Observed[d] \in Source
      BY ChartsAssumption DEF Knob
    <3>2. CASE d = c
      <4>1. shown'[<<d, "secs">>] = n * SecsPerCycle
        BY <3>2, <2>1, <2>7, <2>8
      <4>2. n <= Len(valuesLogged'[s])
        BY <2>2, <2>3, <2>4, <2>9, <1>2 DEF ValuesTyped
      <4> QED BY <3>2, <4>1, <4>2, <2>12, <2>13 DEF s
    <3>3. CASE d # c
      <4>1. <<d, "secs">> # k
        BY <3>3, <2>1
      <4>2. shown'[<<d, "secs">>] = shown[<<d, "secs">>] /\ shew'[d].cyclesUsed = shew[d].cyclesUsed
        BY <4>1, <3>1, <3>3, <2>8, <2>13
      <4>3. /\ shown[<<d, "secs">>] = shew[d].cyclesUsed * SecsPerCycle
            /\ shew[d].cyclesUsed \in DOMAIN spansInUse[Observed[d]]
            /\ shew[d].cyclesUsed <= Len(valuesLogged[Observed[d]])
        BY <1>2 DEF KnobShowsUse
      <4>4. shew[d].cyclesUsed \in Nat
        BY <1>2 DEF ChartsTyped
      <4> QED BY <4>2, <4>3, <4>4, <3>1, <2>11, <2>12
    <3> QED BY <3>2, <3>3
  <2> QED BY <2>8, <2>10, <2>12, <2>13, <2>14 DEF IInv, KnobShowsUse, Low, High
<1>7. CASE /\ FieldSetter(k, v) /\ ~(k[2] = "secs" /\ SetNumSecs(k[1], v))
  <2>1. UNCHANGED <<valuesLogged, spansInUse, shew>>
    BY <1>7 DEF FieldSetter
  <2>2. \/ field' = field
        \/ k[2] # "secs" /\ field' = [field EXCEPT ![k] = v]
    BY <1>7 DEF FieldSetter
  <2>3. /\ field' \in [Knob -> Int] /\ Low(k) <= field'[k] /\ field'[k] <= High(k)
        /\ \A j \in Knob : j # k => field'[j] = field[j]
    BY <2>2, <1>1, <1>2, <1>3 DEF KnobShowsUse
  <2>4. /\ FieldsTyped'
        /\ \A j \in Knob : shown'[j] = field'[j] /\ Low(j) <= shown'[j] /\ shown'[j] <= High(j)
        /\ shown'[k] = field'[k]
        /\ \A j \in Knob : j # k => shown'[j] = shown[j]
    BY <1>5, <2>3
  <2>5. \A d \in Shewhart : shown'[<<d, "secs">>] = shown[<<d, "secs">>]
    <3> SUFFICES ASSUME NEW d \in Shewhart PROVE shown'[<<d, "secs">>] = shown[<<d, "secs">>]
      OBVIOUS
    <3>1. <<d, "secs">> \in Knob
      BY DEF Knob
    <3>2. CASE <<d, "secs">> # k
      BY <3>1, <3>2, <2>4
    <3>3. CASE <<d, "secs">> = k
      <4>1. field' = field
        BY <3>3, <2>2
      <4> QED BY <4>1, <3>3, <2>4, <1>2 DEF KnobShowsUse
    <3> QED BY <3>2, <3>3
  <2> QED BY <2>1, <2>4, <2>5, <1>2 DEF IInv, KnobShowsUse, ValuesTyped, SpansTyped, ChartsTyped, Low, High
<1> QED
  BY <1>1, <1>6, <1>7

LEMMA NextIInv == IInv /\ [Next]_vars => IInv'
<1> SUFFICES ASSUME IInv, [Next]_vars PROVE IInv'
  OBVIOUS
<1>1. CASE \E in \in Readings, luck \in BOOLEAN, area \in Moves : Cycle(in, luck, area)
  BY <1>1, CycleIInv
<1>2. CASE \E k \in Knob : \E v \in Tries[k[2]] : SetKnobToValue(k, v)
  BY <1>2, SetKnobIInv
<1>3. CASE UNCHANGED vars
  BY <1>3 DEF vars, IInv, ValuesTyped, FieldsTyped, ChartsTyped, SpansTyped, KnobShowsUse, Low, High
<1> QED
  BY <1>1, <1>2, <1>3 DEF Next

(* For any charts, facts and ranges, and whatever the user tries: a knob    *)
(* shows the value its host uses and one within its range, and a chart has  *)
(* statistics and a log for the span it shows (AKnob::SetValueTo(),         *)
(* CChartShewhart::SetNumSecsBeingUsedTo()).                                *)
THEOREM KnobsTell == Spec => []KnobShowsUse
<1>1. IInv => KnobShowsUse
  BY DEF IInv
<1> QED
  BY InitIInv, NextIInv, <1>1, PTL DEF Spec

-------------------------------------------------------------------------------
(* What a sustained fact has counted is no more than what there was to      *)
(* count, of the claim it watches now.                                      *)
CountTyped(f) == /\ {"claim", "valid", "first", "cycles", "toWatch"} \subseteq DOMAIN fact[f]
                 /\ fact[f].cycles \in Nat /\ held[f] \in Nat

HeldCounts(f) ==
    /\ fact[f].cycles <= held[f]
    /\ fact[f].cycles > 0 => ~fact[f].first /\ fact[f].toWatch = fact[Watched[f]].claim
    /\ ~fact[f].first /\ WatchMode[f] # "TrueXorFalse" =>
           fact[f].toWatch = (WatchMode[f] = "True")

SInv == /\ DOMAIN fact = Fact
        /\ \A g \in Fact \ Sustained : {"claim", "valid"} \subseteq DOMAIN fact[g]
        /\ \A f \in Sustained : CountTyped(f) /\ HeldCounts(f)

LEMMA InitSInv == Init => SInv
<1> SUFFICES ASSUME Init PROVE SInv
  OBVIOUS
<1>1. /\ fact = [f \in Fact |-> IF f \in Sustained THEN InitSustained ELSE InitFact]
      /\ held = [f \in Sustained |-> 0]
  BY DEF Init
<1>2. \A f \in Sustained : f \in Fact
  BY DEF Fact
<1>3. \A g \in Fact \ Sustained : {"claim", "valid"} \subseteq DOMAIN fact[g]
  BY <1>1 DEF InitFact
<1>4. \A f \in Sustained : CountTyped(f) /\ HeldCounts(f)
  <2> SUFFICES ASSUME NEW f \in Sustained PROVE CountTyped(f) /\ HeldCounts(f)
    OBVIOUS
  <2>1. fact[f] = InitSustained /\ held[f] = 0
    BY <1>1, <1>2
  <2>2. /\ {"claim", "valid", "first", "cycles", "toWatch"} \subseteq DOMAIN fact[f]
        /\ fact[f].cycles = 0 /\ fact[f].first = TRUE
    BY <2>1 DEF InitSustained
  <2> QED BY <2>1, <2>2 DEF CountTyped, HeldCounts
<1> QED
  BY <1>1, <1>3, <1>4 DEF SInv

(* A fact that is not valid keeps its claim.                                *)
LEMMA ClaimKept ==
    ASSUME NEW g \in Fact, {"claim", "valid"} \subseteq DOMAIN fact[g], NEW valid, NEW claim
    PROVE  LET r == Claimed(g, valid, claim)
           IN  {"claim", "valid"} \subseteq DOMAIN r /\ (~r.valid => r.claim = fact[g].claim)
<1>1. CASE valid
  BY <1>1 DEF Claimed
<1>2. CASE ~valid
  <2>1. Claimed(g, valid, claim) = [fact[g] EXCEPT !.valid = FALSE]
    BY <1>2 DEF Claimed
  <2> QED BY <2>1
<1> QED
  BY <1>1, <1>2

LEMMA InvalidKeepsClaim ==
    ASSUME SInv, NEW in \in Readings, NEW luck, NEW area, Cycle(in, luck, area),
           NEW g \in Fact \ Sustained
    PROVE  /\ {"claim", "valid"} \subseteq DOMAIN fact'[g]
           /\ ~fact'[g].valid => fact'[g].claim = fact[g].claim
<1>1. fact'[g] = IF g \in Joint THEN FromFacts(g, Basic(in)) ELSE Basic(in)[g]
  BY DEF Cycle
<1>2. {"claim", "valid"} \subseteq DOMAIN fact[g]
  BY DEF SInv
<1>3. CASE g \in Joint
  <2>1. \E valid, claim : fact'[g] = Claimed(g, valid, claim)
    BY <1>1, <1>3 DEF FromFacts
  <2> QED BY <2>1, <1>2, ClaimKept
<1>4. CASE g \notin Joint
  <2>1. g \in ChartFact \union Relation \union Given
    BY <1>4 DEF Fact
  <2>2. fact'[g] \in {FromChart(g), FromRelation(g), FromGiven(g, in[g])}
    BY <1>1, <1>4, <2>1 DEF Basic
  <2>3. \E valid, claim : FromChart(g) = Claimed(g, valid, claim)
    BY DEF FromChart
  <2>4. \E valid, claim : FromRelation(g) = Claimed(g, valid, claim)
    BY DEF FromRelation
  <2>5. \E valid, claim : FromGiven(g, in[g]) = Claimed(g, valid, claim)
    BY DEF FromGiven
  <2>6. \E valid, claim : fact'[g] = Claimed(g, valid, claim)
    BY <2>2, <2>3, <2>4, <2>5
  <2> QED BY <2>6, <1>2, ClaimKept
<1> QED
  BY <1>3, <1>4

(* One cycle of a sustained fact, with the number of cycles asked for then. *)
LEMMA SustainedCycle ==
    ASSUME IInv, SInv, NEW in \in Readings, NEW luck, NEW area, Cycle(in, luck, area),
           NEW f \in Sustained
    PROVE  /\ CountTyped(f)' /\ HeldCounts(f)'
           /\ fact'[f].valid /\ fact'[f].claim =>
                 /\ held'[f] >= field[<<f, "minCycles">>]
                 /\ WatchMode[f] # "TrueXorFalse" =>
                        fact'[Watched[f]].claim = (WatchMode[f] = "True")
<1> DEFINE w == Watched[f]
           m == field[<<f, "minCycles">>]
           now == fact'[w].claim
           watch == IF fact[f].first THEN Mode(f, now) ELSE fact[f].toWatch
           n == CyclesSustained(f, now, watch)
<1>1. w \in Fact \ Sustained /\ f \in Fact
  BY FactsAssumption DEF Fact
<1>2. /\ {"claim", "valid"} \subseteq DOMAIN fact'[w]
      /\ ~fact'[w].valid => fact'[w].claim = fact[w].claim
  BY <1>1, InvalidKeepsClaim
<1>3. fact'[f] = FromSustained(f, fact'[w])
  BY <1>1 DEF Cycle
<1>4. m \in Nat /\ m >= 1
  <2>1. <<f, "minCycles">> \in Knob
    BY DEF Knob
  <2>2. m \in Int /\ Low(<<f, "minCycles">>) <= m
    BY <2>1 DEF IInv, FieldsTyped, KnobShowsUse
  <2>3. Low(<<f, "minCycles">>) = MinDefMax["minCycles"][1]
    BY DEF Low
  <2>4. MinDefMax["minCycles"][1] \in Int /\ MinDefMax["minCycles"][1] >= 1
    BY RangeAssumption DEF Names
  <2> QED BY <2>2, <2>3, <2>4
<1>5. /\ CountTyped(f) /\ HeldCounts(f)
      /\ fact[f].cycles \in Nat /\ held[f] \in Nat
  BY DEF SInv, CountTyped
<1>6. WatchMode[f] # "TrueXorFalse" => watch = (WatchMode[f] = "True")
  BY <1>5 DEF HeldCounts, Mode
<1>7. fact[f].cycles > 0 => watch = fact[w].claim
  BY <1>5 DEF HeldCounts
<1>8. held'[f] = IF ~fact'[f].valid THEN held[f]
                 ELSE IF fact'[w].claim = fact[w].claim THEN held[f] + 1 ELSE 1
  BY DEF Cycle
<1> HIDE DEF m, w, watch
<1>9. CASE fact'[w].valid
  <2>1. n \in Nat /\ n <= m /\ (now # watch => n = 0) /\ n <= fact[f].cycles + 1
    <3>1. CASE now = watch
      <4>1. n = Min({m, fact[f].cycles + 1})
        BY <3>1 DEF CyclesSustained, m
      <4>2. fact[f].cycles + 1 \in Nat
        BY <1>5
      <4>3. Min({m, fact[f].cycles + 1}) \in {m, fact[f].cycles + 1}
            /\ Min({m, fact[f].cycles + 1}) <= m
            /\ Min({m, fact[f].cycles + 1}) <= fact[f].cycles + 1
        BY <4>2, <1>4, MinOfTwo
      <4> QED BY <4>1, <4>2, <4>3, <1>4, <3>1
    <3>2. CASE now # watch
      BY <3>2, <1>4, <1>5 DEF CyclesSustained
    <3> QED BY <3>1, <3>2
  <2> HIDE DEF n
  <2> DEFINE claim == n > m - 1
             turn == claim # fact[f].claim /\ WatchMode[f] = "TrueXorFalse"
  <2>2. fact'[f] = [claim |-> claim, valid |-> TRUE, first |-> FALSE, cycles |-> n,
                    toWatch |-> IF turn THEN now ELSE watch]
    BY <1>3, <1>9 DEF FromSustained, n, m, watch, CyclesSustained
  <2>3. held'[f] = IF now = fact[w].claim THEN held[f] + 1 ELSE 1
    BY <1>8, <2>2
  <2>4. held'[f] \in Nat /\ held'[f] >= 1
    BY <2>3, <1>5
  <2>5. n <= held'[f]
    <3>1. CASE now = fact[w].claim
      BY <3>1, <2>1, <2>3, <1>5 DEF HeldCounts
    <3>2. CASE now # fact[w].claim
      <4>1. now = watch => fact[f].cycles = 0
        BY <3>2, <1>5, <1>7
      <4> QED BY <4>1, <3>2, <2>1, <2>3, <1>5
    <3> QED BY <3>1, <3>2
  <2>6. CountTyped(f)'
    BY <2>1, <2>2, <2>4 DEF CountTyped
  <2>7. HeldCounts(f)'
    <3>1. n > 0 => fact'[f].toWatch = now
      BY <2>1, <2>2
    <3>2. WatchMode[f] # "TrueXorFalse" => fact'[f].toWatch = (WatchMode[f] = "True")
      BY <2>2, <1>6
    <3>3. fact'[f].cycles = n /\ ~fact'[f].first
      BY <2>2
    <3>4. n > 0 => fact'[f].toWatch = fact'[Watched[f]].claim
      BY <3>1 DEF w
    <3> QED BY <3>2, <3>3, <3>4, <2>5 DEF HeldCounts
  <2>8. fact'[f].claim => held'[f] >= m /\ now = watch
    <3>1. fact'[f].claim <=> n > m - 1
      <4> HIDE DEF turn, claim
      <4>1. fact'[f].claim = claim
        BY <2>2
      <4>2. fact'[f].claim <=> claim
        BY <4>1, Zenon
      <4> QED BY <4>2 DEF claim
    <3>2. n > m - 1 => n >= m /\ n # 0
      BY <2>1, <1>4
    <3>3. now # watch => n = 0
      BY <2>1
    <3>4. n >= m => held'[f] >= m
      BY <2>1, <2>4, <2>5, <1>4
    <3> HIDE DEF now
    <3> QED BY <3>1, <3>2, <3>3, <3>4
  <2> QED BY <2>6, <2>7, <2>8, <1>6 DEF w, m
<1>10. CASE ~fact'[w].valid
  <2>1. fact'[f] = [fact[f] EXCEPT !.valid = FALSE, !.first = FALSE, !.toWatch = watch]
    BY <1>3, <1>10 DEF FromSustained, watch
  <2>2. /\ {"claim", "valid", "first", "cycles", "toWatch"} \subseteq DOMAIN fact'[f]
        /\ fact'[f].cycles = fact[f].cycles /\ ~fact'[f].valid /\ ~fact'[f].first
        /\ fact'[f].toWatch = watch
    BY <2>1, <1>5 DEF CountTyped
  <2>3. held'[f] = held[f]
    BY <1>8, <2>2
  <2>4. CountTyped(f)'
    BY <2>2, <2>3, <1>5 DEF CountTyped
  <2>5. HeldCounts(f)'
    BY <2>2, <2>3, <1>2, <1>5, <1>6, <1>7, <1>10 DEF HeldCounts, w
  <2> QED BY <2>2, <2>4, <2>5
<1> QED
  BY <1>9, <1>10

LEMMA NextSInv == IInv /\ SInv /\ [Next]_vars => SInv'
<1> SUFFICES ASSUME IInv, SInv, [Next]_vars PROVE SInv'
  OBVIOUS
<1>1. ASSUME NEW in \in Readings, NEW luck \in BOOLEAN, NEW area \in Moves, Cycle(in, luck, area)
      PROVE  SInv'
  <2>1. DOMAIN fact' = Fact
    BY <1>1 DEF Cycle
  <2>2. \A g \in Fact \ Sustained : {"claim", "valid"} \subseteq DOMAIN fact'[g]
    BY <1>1, InvalidKeepsClaim
  <2>3. \A f \in Sustained : CountTyped(f)' /\ HeldCounts(f)'
    BY <1>1, SustainedCycle
  <2> QED BY <2>1, <2>2, <2>3 DEF SInv
<1>2. CASE UNCHANGED <<fact, held>>
  BY <1>2 DEF SInv, CountTyped, HeldCounts
<1>3. ASSUME NEW k \in Knob, NEW v \in Tries[k[2]], SetKnobToValue(k, v)
      PROVE  SInv'
  BY <1>2, <1>3 DEF SetKnobToValue
<1> QED
  BY <1>1, <1>2, <1>3 DEF Next, vars

(* For any facts, any numbers of cycles asked for and any changes of these  *)
(* meanwhile: a sustained fact never claims before what it watches has made *)
(* its claim for as long as asked for then (CFactSustained::Cycle()).       *)
THEOREM ClaimsInTime == Spec => NeverPremature
<1> DEFINE A == cycles' # cycles =>
                  \A f \in Sustained : fact'[f].valid /\ fact'[f].claim =>
                     /\ held'[f] >= field[<<f, "minCycles">>]
                     /\ WatchMode[f] # "TrueXorFalse" =>
                            fact'[Watched[f]].claim = (WatchMode[f] = "True")
<1>1. IInv /\ SInv /\ [Next]_vars => [A]_vars
  <2> SUFFICES ASSUME IInv, SInv, [Next]_vars, cycles' # cycles PROVE A
    OBVIOUS
  <2>1. PICK in \in Readings, luck \in BOOLEAN, area \in Moves : Cycle(in, luck, area)
    BY DEF Next, vars, SetKnobToValue
  <2> QED BY <2>1, SustainedCycle
<1>2. Spec => [](IInv /\ SInv)
  BY InitIInv, NextIInv, InitSInv, NextSInv, PTL DEF Spec
<1> QED
  BY <1>1, <1>2, PTL DEF Spec, NeverPremature

-------------------------------------------------------------------------------
(* A chart's own mean is of the span it was built with, which no knob       *)
(* changes and no user of the statistics takes away.                        *)
UInv == \A c \in Shewhart : /\ "depthUsed" \in DOMAIN shew[c]
                            /\ shew[c].depthUsed = StartSpan - 1
                            /\ StartSpan \in DOMAIN spansInUse[Observed[c]]

LEMMA InitUInv == Init => UInv
<1> SUFFICES ASSUME Init, NEW c \in Shewhart
             PROVE  /\ "depthUsed" \in DOMAIN shew[c]
                    /\ shew[c].depthUsed = StartSpan - 1
                    /\ StartSpan \in DOMAIN spansInUse[Observed[c]]
  BY DEF UInv
<1>1. shew[c] = InitShewhart
  BY DEF Init
<1>2. Observed[c] \in Source /\ c \in ChartsOn(Observed[c])
  BY ChartsAssumption DEF ChartsOn
<1>3. spansInUse = [s \in Source |->
          [n \in {LogSize} \union (IF ChartsOn(s) = {} THEN {} ELSE {StartSpan}) |-> 1]]
  BY DEF Init
<1> QED
  BY <1>1, <1>2, <1>3 DEF InitShewhart

LEMMA NextUInv == IInv /\ UInv /\ [Next]_vars => UInv'
<1> SUFFICES ASSUME IInv, UInv, [Next]_vars, NEW c \in Shewhart
             PROVE  /\ "depthUsed" \in DOMAIN shew'[c]
                    /\ shew'[c].depthUsed = StartSpan - 1
                    /\ StartSpan \in DOMAIN spansInUse'[Observed[c]]
  BY DEF UInv
<1>1. /\ "depthUsed" \in DOMAIN shew[c] /\ shew[c].depthUsed = StartSpan - 1
      /\ StartSpan \in DOMAIN spansInUse[Observed[c]]
      /\ Observed[c] \in Source
  BY ChartsAssumption DEF UInv
<1>2. ASSUME NEW in \in Readings, NEW luck \in BOOLEAN, NEW area \in Moves, Cycle(in, luck, area)
      PROVE  /\ "depthUsed" \in DOMAIN shew'[c]
             /\ shew'[c].depthUsed = StartSpan - 1
             /\ StartSpan \in DOMAIN spansInUse'[Observed[c]]
  <2>1. shew'[c] = CycleShewhart(c, luck) /\ spansInUse' = spansInUse
    BY <1>2 DEF Cycle
  <2>2. "depthUsed" \in DOMAIN ApplyShewhart(c) /\ ApplyShewhart(c).depthUsed = StartSpan - 1
    BY <1>1 DEF ApplyShewhart
  <2>3. LET r == [shew[c] EXCEPT !.valid = FALSE, !.steady = shew[c].was]
        IN  "depthUsed" \in DOMAIN r /\ r.depthUsed = StartSpan - 1
    BY <1>1
  <2> QED BY <2>1, <2>2, <2>3, <1>1 DEF CycleShewhart
<1>3. ASSUME NEW k \in Knob, NEW v \in Tries[k[2]], SetKnobToValue(k, v)
      PROVE  /\ "depthUsed" \in DOMAIN shew'[c]
             /\ shew'[c].depthUsed = StartSpan - 1
             /\ StartSpan \in DOMAIN spansInUse'[Observed[c]]
  <2>1. FieldSetter(k, v)
    BY <1>3 DEF SetKnobToValue
  <2>2. CASE SetNumSecs(k[1], v)
    <3> DEFINE d == k[1]
               n == FitRainCycles(v)
               s == Observed[d]
    <3>1. /\ spansInUse' = [spansInUse EXCEPT ![s] = ShiftSpan(spansInUse[s], shew[d].cyclesUsed, n)]
          /\ shew' = [shew EXCEPT ![d].cyclesUsed = n]
      BY <2>2 DEF SetNumSecs
    <3>2. DOMAIN shew = Shewhart /\ DOMAIN spansInUse = Source
      BY DEF IInv, ChartsTyped, SpansTyped
    <3> HIDE DEF d, n, s
    <3>3. "depthUsed" \in DOMAIN shew'[c] /\ shew'[c].depthUsed = StartSpan - 1
      BY <3>1, <3>2, <1>1
    <3>4. \A t \in Source : DOMAIN spansInUse[t] \subseteq DOMAIN spansInUse'[t]
      <4>1. DOMAIN ShiftSpan(spansInUse[s], shew[d].cyclesUsed, n) = DOMAIN spansInUse[s] \union {n}
        BY SpanAdded
      <4> QED BY <4>1, <3>1, <3>2
    <3> QED BY <3>3, <3>4, <1>1
  <2>3. CASE UNCHANGED <<spansInUse, shew>>
    BY <2>3, <1>1
  <2> QED BY <2>1, <2>2, <2>3 DEF FieldSetter
<1>4. CASE UNCHANGED vars
  BY <1>4, <1>1 DEF vars
<1> QED
  BY <1>2, <1>3, <1>4 DEF Next

LEMMA DepthsAreKept ==
    ASSUME IInv, UInv, NEW s \in Source, NEW d \in DepthsRead(s)
    PROVE  d \in Depths(s)
<1>1. CASE \E c \in ChartsOn(s) : d = shew[c].depthUsed
  <2>1. PICK c \in ChartsOn(s) : d = shew[c].depthUsed
    BY <1>1
  <2>2. c \in Shewhart /\ Observed[c] = s
    BY DEF ChartsOn
  <2> QED BY <2>1, <2>2 DEF UInv, Depths
<1>2. CASE \E t \in Tracker : Observed[ObsvdShew[t]] = s /\ d = shew[ObsvdShew[t]].cyclesUsed - 1
  <2>1. PICK t \in Tracker : Observed[ObsvdShew[t]] = s /\ d = shew[ObsvdShew[t]].cyclesUsed - 1
    BY <1>2
  <2>2. ObsvdShew[t] \in Shewhart
    BY ChartsAssumption
  <2>3. shew[ObsvdShew[t]].cyclesUsed \in DOMAIN spansInUse[s]
    BY <2>1, <2>2 DEF IInv, KnobShowsUse
  <2> QED BY <2>1, <2>3 DEF Depths
<1> QED
  BY <1>1, <1>2 DEF DepthsRead

(* For any charts and whatever spans users set and give back: after a cycle *)
(* each mean a chart reads is that of the newest values of the log          *)
(* (ShiftSpanOfStatisticsForOneUserFromTo()).                               *)
THEOREM MeansFresh == Spec => MeansAreFresh
<1> DEFINE A == cycles' # cycles =>
                  \A s \in Source : \A d \in DepthsRead(s) :
                      d \in DOMAIN means'[s] /\ means'[s][d] = Stats(valuesLogged'[s], d)
<1>1. IInv /\ UInv /\ [Next]_vars => [A]_vars
  <2> SUFFICES ASSUME IInv, UInv, [Next]_vars, cycles' # cycles,
                      NEW s \in Source, NEW d \in DepthsRead(s)
               PROVE  d \in DOMAIN means'[s] /\ means'[s][d] = Stats(valuesLogged'[s], d)
    OBVIOUS
  <2>1. PICK in \in Readings, luck \in BOOLEAN, area \in Moves : Cycle(in, luck, area)
    BY DEF Next, vars, SetKnobToValue
  <2>2. means'[s] = UpdateStatistics(s, valuesLogged'[s])
    BY <2>1 DEF Cycle
  <2>3. d \in Depths(s)
    BY DepthsAreKept
  <2> QED BY <2>2, <2>3 DEF UpdateStatistics
<1>2. Spec => [](IInv /\ UInv)
  BY InitIInv, NextIInv, InitUInv, NextUInv, PTL DEF Spec
<1> QED
  BY <1>1, <1>2, PTL DEF Spec, MeansAreFresh

-------------------------------------------------------------------------------
LEMMA MinOfInts == ASSUME NEW i \in Int, NEW j \in Int
                   PROVE  /\ Min({i, j}) \in {i, j}
                          /\ Min({i, j}) <= i /\ Min({i, j}) <= j
<1>1. \E m \in {i, j} : \A n \in {i, j} : m <= n
  OBVIOUS
<1> QED
  BY <1>1 DEF Min

LEMMA MaxOfInts == ASSUME NEW i \in Int, NEW j \in Int
                   PROVE  /\ Max({i, j}) \in {i, j}
                          /\ Max({i, j}) >= i /\ Max({i, j}) >= j
<1>1. \E m \in {i, j} : \A n \in {i, j} : m >= n
  OBVIOUS
<1> QED
  BY <1>1 DEF Max

(* While a chart is not steady its count is not behind the calm cycles.     *)
ShewDom == {"running", "pending", "refNew", "cyclesUsed", "depthUsed", "count", "steady",
            "was", "valid"}

CalmCounted(c) == /\ ShewDom \subseteq DOMAIN shew[c]
                  /\ shew[c].count \in Int /\ calm[c] \in Nat
                  /\ ~shew[c].pending /\ ~shew[c].was => shew[c].count >= calm[c]

CInv == \A c \in Shewhart : CalmCounted(c)

LEMMA InitCInv == Init => CInv
<1> SUFFICES ASSUME Init, NEW c \in Shewhart PROVE CalmCounted(c)
  BY DEF CInv
<1>1. shew[c] = InitShewhart /\ calm[c] = 0
  BY DEF Init
<1> QED
  BY <1>1 DEF InitShewhart, CalmCounted, ShewDom

(* One cycle of a chart, with the margin set then.                          *)
LEMMA CalmCycle ==
    ASSUME IInv, CInv, NEW in, NEW luck, NEW area, Cycle(in, luck, area), NEW c \in Shewhart
    PROVE  /\ CalmCounted(c)'
           /\ shew'[c].valid /\ ~shew'[c].steady =>
                 calm'[c] < Max({field[<<c, "tripFreeMargin">>], 1})
<1> DEFINE margin == field[<<c, "tripFreeMargin">>]
           trip == Trips(c, StdDevRef(c))
<1>1. shew'[c] = CycleShewhart(c, luck)
  BY DEF Cycle
<1>2. calm'[c] = IF ~shew'[c].valid THEN calm[c] ELSE IF trip THEN 0 ELSE calm[c] + 1
  BY DEF Cycle
<1>3. margin \in Int
  <2>1. <<c, "tripFreeMargin">> \in Knob
    BY DEF Knob
  <2> QED BY <2>1 DEF IInv, FieldsTyped
<1>4. CalmCounted(c) /\ shew[c].count \in Int /\ calm[c] \in Nat
  BY DEF CInv, CalmCounted
<1>5. CASE shew'[c] = ApplyShewhart(c)
  <2> DEFINE reset == shew[c].pending
             was == reset \/ shew[c].was
             start == IF reset THEN margin ELSE shew[c].count
             count == TripFreeCount(start, trip, margin)
             flip == \/ ~trip /\ ~was /\ count = margin
                     \/ trip /\ was
             steady == IF flip THEN ~was ELSE was
  <2>1. shew'[c] = [shew[c] EXCEPT !.running = TRUE, !.pending = FALSE, !.valid = TRUE,
                        !.count = count, !.steady = steady, !.was = steady,
                        !.refNew = IF steady THEN Variance(c) ELSE StdDevRef(c)]
    BY <1>5 DEF ApplyShewhart
  <2>2. start \in Int
    BY <1>3, <1>4
  <2>3. ShewDom \subseteq DOMAIN shew[c]
    BY <1>4 DEF CalmCounted
  <2> HIDE DEF count, margin, start
  <2>4. (trip => count \in Int /\ count >= 0)
        /\ (~trip => count \in Int /\ (count = margin \/ (count = start + 1 /\ count < margin)))
    <3>1. CASE trip
      <4>1. Max({start - 1, 0}) \in {start - 1, 0} /\ Max({start - 1, 0}) >= 0
        BY <2>2, MaxOfInts
      <4> QED BY <3>1, <4>1, <2>2 DEF count, TripFreeCount
    <3>2. CASE ~trip
      <4>1. Min({start + 1, margin}) \in {start + 1, margin}
            /\ Min({start + 1, margin}) <= margin
        <5>1. margin \in Int
          BY <1>3 DEF margin
        <5>2. start + 1 \in Int
          BY <2>2
        <5> QED BY <5>1, <5>2, MinOfInts
      <4>2. count = Min({start + 1, margin})
        BY <3>2 DEF count, TripFreeCount
      <4> QED BY <3>2, <4>1, <4>2, <2>2, <1>3
    <3> QED BY <3>1, <3>2
  <2> HIDE DEF trip, steady
  <2>5. /\ ShewDom \subseteq DOMAIN shew'[c] /\ shew'[c].count = count
        /\ shew'[c].valid = TRUE /\ shew'[c].pending = FALSE
        /\ shew'[c].was = steady /\ shew'[c].steady = steady
    BY <2>1, <2>3 DEF ShewDom
  <2>6. calm'[c] = IF trip THEN 0 ELSE calm[c] + 1
    BY <1>2, <2>5
  <2>7. ~trip /\ ~steady => ~reset /\ ~shew[c].was /\ count # margin
    BY DEF steady
  <2>8. ~trip /\ ~steady => start >= calm[c] /\ start = shew[c].count
    BY <2>7, <1>4 DEF CalmCounted, start
  <2>9. ~steady => count >= calm'[c]
    <3>1. CASE trip
      BY <3>1, <2>4, <2>6
    <3>2. ASSUME ~trip, ~steady PROVE count >= calm'[c]
      <4>1. count = start + 1
        BY <3>2, <2>4, <2>7
      <4> QED BY <4>1, <3>2, <2>2, <2>6, <2>8, <1>4
    <3> QED BY <3>1, <3>2
  <2>10. ~steady => calm'[c] < Max({margin, 1})
    <3>1. Max({margin, 1}) \in {margin, 1} /\ Max({margin, 1}) >= margin /\ Max({margin, 1}) >= 1
      <4>1. margin \in Int
        BY <1>3 DEF margin
      <4>2. 1 \in Int
        OBVIOUS
      <4> QED BY <4>1, <4>2, MaxOfInts, Zenon
    <3>2. CASE trip
      BY <3>1, <3>2, <2>6, <1>3
    <3>3. ASSUME ~trip, ~steady PROVE calm'[c] < Max({margin, 1})
      <4>1. count < margin
        BY <3>3, <2>4, <2>7
      <4>2. calm'[c] \in Int /\ count \in Int
        BY <2>4, <2>6, <1>4
      <4> QED BY <4>1, <4>2, <3>1, <3>3, <2>9, <1>3
    <3> QED BY <3>2, <3>3
  <2>11. calm'[c] \in Nat /\ count \in Int
    BY <2>4, <2>6, <1>4
  <2>12. CalmCounted(c)'
    BY <2>5, <2>9, <2>11 DEF CalmCounted
  <2> QED BY <2>5, <2>10, <2>12 DEF margin
<1>6. CASE shew'[c] = [shew[c] EXCEPT !.valid = FALSE, !.steady = shew[c].was]
  <2>1. ShewDom \subseteq DOMAIN shew[c]
    BY <1>4 DEF CalmCounted
  <2>2. /\ ShewDom \subseteq DOMAIN shew'[c] /\ shew'[c].count = shew[c].count
        /\ shew'[c].valid = FALSE /\ shew'[c].pending = shew[c].pending
        /\ shew'[c].was = shew[c].was
    BY <2>1, <1>6 DEF ShewDom
  <2>3. calm'[c] = calm[c]
    BY <1>2, <2>2
  <2> QED BY <2>2, <2>3, <1>4 DEF CalmCounted
<1> QED
  BY <1>1, <1>5, <1>6 DEF CycleShewhart

LEMMA NextCInv == IInv /\ CInv /\ [Next]_vars => CInv'
<1> SUFFICES ASSUME IInv, CInv, [Next]_vars, NEW c \in Shewhart PROVE CalmCounted(c)'
  BY DEF CInv
<1>1. CalmCounted(c)
  BY DEF CInv
<1>2. ASSUME NEW in \in Readings, NEW luck \in BOOLEAN, NEW area \in Moves, Cycle(in, luck, area)
      PROVE  CalmCounted(c)'
  BY <1>2, CalmCycle
<1>3. ASSUME NEW k \in Knob, NEW v \in Tries[k[2]], SetKnobToValue(k, v)
      PROVE  CalmCounted(c)'
  <2>1. FieldSetter(k, v) /\ calm' = calm
    BY <1>3 DEF SetKnobToValue
  <2>2. CASE SetNumSecs(k[1], v)
    <3>1. shew' = [shew EXCEPT ![k[1]].cyclesUsed = FitRainCycles(v)]
      BY <2>2 DEF SetNumSecs
    <3>2. DOMAIN shew = Shewhart
      BY DEF IInv, ChartsTyped
    <3>3. \/ shew'[c] = shew[c]
          \/ shew'[c] = [shew[c] EXCEPT !.cyclesUsed = FitRainCycles(v)]
      BY <3>1, <3>2
    <3>4. /\ ShewDom \subseteq DOMAIN shew'[c] /\ shew'[c].count = shew[c].count
          /\ shew'[c].pending = shew[c].pending /\ shew'[c].was = shew[c].was
      BY <3>3, <1>1 DEF CalmCounted, ShewDom
    <3> QED BY <3>4, <2>1, <1>1 DEF CalmCounted
  <2>3. CASE UNCHANGED shew
    BY <2>1, <2>3, <1>1 DEF CalmCounted
  <2> QED BY <2>1, <2>2, <2>3 DEF FieldSetter
<1>4. CASE UNCHANGED vars
  BY <1>4, <1>1 DEF vars, CalmCounted
<1> QED
  BY <1>2, <1>3, <1>4 DEF Next

(* For any charts and margins, and any changes of these meanwhile: a chart  *)
(* that is not steady has tripped within a margin of valid cycles           *)
(* (CChartShewhart::ApplyChart()).                                          *)
THEOREM SteadinessReturns == Spec => SteadyReturns
<1> DEFINE A == cycles' # cycles =>
                  \A c \in Shewhart : shew'[c].valid /\ ~shew'[c].steady =>
                      calm'[c] < Max({field[<<c, "tripFreeMargin">>], 1})
<1>1. IInv /\ CInv /\ [Next]_vars => [A]_vars
  <2> SUFFICES ASSUME IInv, CInv, [Next]_vars, cycles' # cycles PROVE A
    OBVIOUS
  <2>1. PICK in \in Readings, luck \in BOOLEAN, area \in Moves : Cycle(in, luck, area)
    BY DEF Next, vars, SetKnobToValue
  <2> QED BY <2>1, CalmCycle
<1>2. Spec => [](IInv /\ CInv)
  BY InitIInv, NextIInv, InitCInv, NextCInv, PTL DEF Spec
<1> QED
  BY <1>1, <1>2, PTL DEF Spec, SteadyReturns

===============================================================================

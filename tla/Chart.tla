--------------------------------- MODULE Chart ---------------------------------
(***************************************************************************)
(* From logged values to claims: the statistics of a rainfall by span      *)
(* (CRainAnalog, rainfall.cpp), the charts that use them (chart.cpp), the  *)
(* facts drawn from charts, values, points and other facts (fact.hpp,      *)
(* fact.cpp, factParts.hpp), and the knobs by which a user sets any of     *)
(* their parameters between two steps (controlParts.cpp, mvc_ctrlr.cpp).   *)
(*                                                                         *)
(* Values are whole numbers, a mean is a sum and a count.  How far a       *)
(* register of a tracking chart moves in a cycle is one of Moves; so       *)
(* staleFrac has no knob here.  The order of the cycles in a step is the   *)
(* subject of Sequence: here each reads what its inputs came to in the     *)
(* same step.  The stamp of a claim is only shown and left out.            *)
(***************************************************************************)
EXTENDS Integers, Sequences, FiniteSets, FiniteSetsExt, TLC

CONSTANTS
    Source,        \* points and formulas, each with a log
    Invalid,       \* what comes of a source that is not valid
    Shewhart,      \* charts that tell if a source is steady
    Observed,      \* the source of each
    Tracker,       \* charts that tell drift and hunting
    ObsvdShew,     \* the Shewhart chart of the source observed
    GuideShew,     \* that of the guide, or NoGuide: autoregressive
    NoGuide,
    ChartFact, ChartOf, Getter,   \* facts from charts
    Relation, Left, Rights, Reln, Param,  \* facts that relate a source to another,
                   \* if Rights has one, or to a parameter
    Given,                        \* facts from points, processes, clock, subjects
    Joint, Operands,              \* facts from other facts: all of them hold
    Sustained, Watched, WatchMode,
    StartSpan,     \* START_SHEWCHART_CYCLESUSING, 3
    LogSize,       \* START_DATALOG_SIZECYCLES, an hour of cycles, 60
    RainfallSize,  \* FIXED_RAINFALL_SIZE, 360
    SecsPerCycle,
    MinVariance,   \* of a bin, scaled as Variance
    MinDefMax,     \* range and first value of the knobs of a name
    Readings,      \* bound: what the inputs come to in a step
    Moves,         \* bound: what a register gains, P and N lose to staleness
    Tries,         \* bound: what users set a knob of a name to
    MaxCycles, MaxSets            \* bounds

Names == {"zPass", "tripFreeMargin", "halfBand", "warn", "lagFrac", "appsBtwnResets",
          "hyster", "slack", "minCycles"}

ASSUME SpanAssumption == /\ {StartSpan, LogSize, RainfallSize, SecsPerCycle} \subseteq Nat
                         /\ 2 <= StartSpan /\ StartSpan <= LogSize
                         /\ LogSize < RainfallSize /\ SecsPerCycle > 0
ASSUME RangeAssumption ==
    /\ MinDefMax \in [Names -> [1 .. 3 -> Int]]
    /\ \A n \in Names : /\ MinDefMax[n][1] <= MinDefMax[n][2]
                        /\ MinDefMax[n][2] <= MinDefMax[n][3]
    /\ MinDefMax["minCycles"][1] >= 1
ASSUME ChartsAssumption == /\ Observed \in [Shewhart -> Source]
                           /\ ObsvdShew \in [Tracker -> Shewhart]
ASSUME InputsAssumption ==
    /\ \A r \in Readings : \A s \in Source : r[s] \in Int \union {Invalid}
    /\ \A n \in Names \union {"secs"} : Tries[n] \subseteq Int

ASSUME FactsAssumption ==
    /\ Sustained \intersect (ChartFact \union Relation \union Given \union Joint) = {}
    /\ Watched \in [Sustained -> ChartFact \union Relation \union Given \union Joint]

Fact == ChartFact \union Relation \union Given \union Joint \union Sustained

(* Every knob is of a host and a name, and sets the field of that name. *)
Knob == (Shewhart \X {"secs", "zPass", "tripFreeMargin"})
        \union (Tracker \X {"halfBand", "warn", "lagFrac", "appsBtwnResets"})
        \union (Relation \X {"hyster", "slack"})
        \union (Sustained \X {"minCycles"})

VARIABLES
    valuesLogged,  \* valuesLoggedAsBindex of each source, newest first
    statesLogged,  \* statesLoggedAsBindex: not invalid
    started,       \* firstCycle is over
    spansInUse,    \* span -> users counted
    means,         \* yMeansByDepth: depth -> sum of the values and of their squares
    shew, trax, fact,
    field,         \* what the host of a knob uses
    shown,         \* valueNowToGui of a knob
    calm,          \* history: valid cycles since the last trip of a chart
    held,          \* history: valid cycles a watched fact has made its claim
    cycles, sets   \* bounds

vars == <<valuesLogged, statesLogged, started, spansInUse, means, shew, trax, fact,
          field, shown, calm, held, cycles, sets>>

ChartsOn(s) == {c \in Shewhart : Observed[c] = s}

StartOf(k) == IF k[2] = "secs" THEN StartSpan * SecsPerCycle ELSE MinDefMax[k[2]][2]

InitShewhart == [running |-> FALSE, pending |-> TRUE, refNew |-> MinVariance,
                 cyclesUsed |-> StartSpan, depthUsed |-> StartSpan - 1, count |-> 0,
                 steady |-> FALSE, was |-> FALSE, valid |-> TRUE]

InitTracker == [N |-> 0, P |-> 0, apps |-> 0, now |-> {}, was |-> {}, on |-> FALSE,
                valid |-> TRUE]

InitFact == [claim |-> FALSE, valid |-> TRUE, was |-> FALSE]

InitSustained == [claim |-> FALSE, valid |-> TRUE, first |-> TRUE, cycles |-> 0,
                  toWatch |-> FALSE]

Init ==
    /\ valuesLogged = [s \in Source |-> [i \in 1 .. LogSize |-> 0]]
    /\ statesLogged = [s \in Source |-> [i \in 1 .. LogSize |-> TRUE]]
    /\ started = FALSE
    /\ spansInUse = [s \in Source |->
          [n \in {LogSize} \union (IF ChartsOn(s) = {} THEN {} ELSE {StartSpan}) |-> 1]]
    /\ means = [s \in Source |-> <<>>]
    /\ shew = [c \in Shewhart |-> InitShewhart]
    /\ trax = [t \in Tracker |-> InitTracker]
    /\ fact = [f \in Fact |-> IF f \in Sustained THEN InitSustained ELSE InitFact]
    /\ field = [k \in Knob |-> StartOf(k)]
    /\ shown = [k \in Knob |-> StartOf(k)]
    /\ calm = [c \in Shewhart |-> 0]
    /\ held = [f \in Sustained |-> 0]
    /\ cycles = 0 /\ sets = 0

-------------------------------------------------------------------------------
(* The log and its statistics.                                              *)

Push(x, log) == [i \in DOMAIN log |-> IF i = 1 THEN x ELSE log[i - 1]]

(* An invalid reading keeps the last value; the first fills the log.        *)
UpdateLogging(s, x) ==
    LET y == IF x = Invalid THEN valuesLogged[s][1] ELSE x
    IN  IF started THEN Push(y, valuesLogged[s])
                   ELSE [i \in DOMAIN valuesLogged[s] |-> y]

(* Of the newest d cycles: a span counts one more than the depth.           *)
Stats(log, d) == [sum |-> MapThenSumSet(LAMBDA i : log[i], 1 .. d),
                  sq  |-> MapThenSumSet(LAMBDA i : log[i] * log[i], 1 .. d)]

Depths(s) == {n - 1 : n \in DOMAIN spansInUse[s]}

UpdateStatistics(s, log) ==
    [d \in Depths(s) \union DOMAIN means[s] |->
        IF d \in Depths(s) THEN Stats(log, d) ELSE means[s][d]]

IsValidOverCycles(s, n, luck) ==    \* the end of the log is not looked for
    /\ \A i \in 1 .. Min({n, LogSize}) : statesLogged'[s][i]
    /\ n <= LogSize \/ luck

(* Mutant: users of a span are really counted, and a span without any goes. *)
ShiftSpan_Counted(users, old, new) ==
    LET more == IF new \in DOMAIN users THEN [users EXCEPT ![new] = @ + 1]
                                        ELSE (new :> 1) @@ users
        less == [more EXCEPT ![old] = @ - 1]
    IN  [n \in {m \in DOMAIN less : less[m] > 0} |-> less[n]]

(* ShiftSpanOfStatisticsForOneUserFromTo(): neither count ever changes, as  *)
(* each is assigned its own value of before.                                *)
ShiftSpan(users, old, new) ==
    [n \in DOMAIN users \union {new} |-> IF n \in DOMAIN users THEN users[n] ELSE 1]

(* The log of values grows with the span, that of states does not. *)
Grown(log, n) == [i \in 1 .. Max({n, Len(log)}) |-> log[Min({i, Len(log)})]]

-------------------------------------------------------------------------------
(* Shewhart charts.                                                         *)

Now(c)   == valuesLogged'[Observed[c]][1]
MeanY(c) == means'[Observed[c]][shew[c].depthUsed]

Variance(c) == LET d == shew[c].depthUsed
               IN  Max({MinVariance, d * MeanY(c).sq - MeanY(c).sum * MeanY(c).sum})

(* A deviation equal to the pass band trips above the mean, not below it.   *)
Trips(c, ref) ==
    LET off  == shew[c].depthUsed * Now(c) - MeanY(c).sum
        band == field[<<c, "zPass">>] * field[<<c, "zPass">>] * ref
    IN  \/ off >= 0 /\ off * off >= band
        \/ off < 0 /\ off * off > band

StdDevRef(c) == IF shew[c].running THEN shew[c].refNew ELSE Variance(c)

(* Mutant: the count goes on beyond a margin that was lowered. *)
TripFreeCount_Unbounded(was, trip, margin) == IF trip THEN Max({was - 1, 0}) ELSE was + 1

TripFreeCount(was, trip, margin) ==
    IF trip THEN Max({was - 1, 0}) ELSE Min({was + 1, margin})

ApplyShewhart(c) ==
    LET margin == field[<<c, "tripFreeMargin">>]
        reset  == shew[c].pending
        was    == reset \/ shew[c].was
        ref    == StdDevRef(c)
        trip   == Trips(c, ref)
        count  == TripFreeCount(IF reset THEN margin ELSE shew[c].count, trip, margin)
        flip   == \/ ~trip /\ ~was /\ count = margin
                  \/ trip /\ was
        steady == IF flip THEN ~was ELSE was
    IN  [shew[c] EXCEPT !.running = TRUE, !.pending = FALSE, !.valid = TRUE,
                        !.count = count, !.steady = steady, !.was = steady,
                        !.refNew = IF steady THEN Variance(c) ELSE ref]

CycleShewhart(c, luck) ==
    IF IsValidOverCycles(Observed[c], shew[c].cyclesUsed, luck)
    THEN ApplyShewhart(c)
    ELSE [shew[c] EXCEPT !.valid = FALSE, !.steady = shew[c].was]

-------------------------------------------------------------------------------
(* Tracking charts: registers of what exceeds a band around the guide.      *)

Autoregressive(t) == GuideShew[t] = NoGuide
ShewsOf(t) == {ObsvdShew[t]} \union (IF Autoregressive(t) THEN {} ELSE {GuideShew[t]})

(* Numerator and denominator; a mean over no cycle is 0. *)
Guide(t) ==
    IF Autoregressive(t)
    THEN LET d == shew'[ObsvdShew[t]].cyclesUsed - 1
         IN  <<means'[Observed[ObsvdShew[t]]][d].sum, Max({d, 1})>>
    ELSE <<Now(GuideShew[t]), 1>>

PastTop(t) == Guide(t)[2] * (Now(ObsvdShew[t]) - field[<<t, "halfBand">>]) > Guide(t)[1]
PastBtm(t) == Guide(t)[2] * (Now(ObsvdShew[t]) + field[<<t, "halfBand">>]) < Guide(t)[1]

(* What is past the band adds up to warn at most; all else goes stale.      *)
Register(was, fresh, area, stale, warn) ==
    Max({0, Min({was + (IF fresh THEN area ELSE -Min({stale, was})), warn})})

(* CChartTracking::ApplyChart(), which does not ask whether the tracker is on *)
ApplyTracking(t, area) ==
    LET warn  == field[<<t, "warn">>]
        reset == trax[t].apps + 1 > field[<<t, "appsBtwnResets">>]
        P     == Register(IF reset THEN 0 ELSE trax[t].P, PastTop(t), area[1], area[2], warn)
        N     == Register(IF reset THEN 0 ELSE trax[t].N, PastBtm(t), area[1], area[3], warn)
        lags(r) == 100 * r <= field[<<t, "lagFrac">>] * warn
    IN  [trax[t] EXCEPT
            !.P = P, !.N = N, !.apps = IF reset THEN 0 ELSE @ + 1,
            !.now = (IF P = warn /\ lags(N) THEN {"rising"} ELSE {})
                    \union (IF N = warn /\ lags(P) THEN {"falling"} ELSE {})
                    \union (IF P = warn /\ N = warn THEN {"hunting"} ELSE {})]

CycleTracking(t, area) ==
    IF \A c \in ShewsOf(t) : shew'[c].valid
    THEN [ApplyTracking(t, area) EXCEPT
             !.valid = TRUE, !.was = trax[t].now,
             !.on = \A c \in ShewsOf(t) : shew'[c].steady]
    ELSE [trax[t] EXCEPT !.valid = FALSE, !.now = trax[t].was]

-------------------------------------------------------------------------------
(* Facts.  Each kind in its turn, from what the others came to in the step.  *)

(* While its source is not valid a fact keeps its claim; was is of the      *)
(* functor of a relation, which is called for valid sources only.           *)
Claimed(f, valid, claim) ==
    IF valid THEN [claim |-> claim, valid |-> TRUE, was |-> claim]
             ELSE [fact[f] EXCEPT !.valid = FALSE]

FromChart(f) ==
    IF Getter[f] = "steady"
    THEN Claimed(f, shew'[ChartOf[f]].valid, shew'[ChartOf[f]].steady)
    ELSE Claimed(f, trax'[ChartOf[f]].valid, Getter[f] \in trax'[ChartOf[f]].now)

Relate(f) ==
    LET left  == valuesLogged'[Left[f]][1]
        right == Param[f] + MapThenSumSet(LAMBDA s : valuesLogged'[s][1], Rights[f])
        give  == field[<<f, "slack">>] + (IF fact[f].was THEN field[<<f, "hyster">>] ELSE 0)
    IN  CASE Reln[f] = "LT"  -> left < right + give
          [] Reln[f] = "GT"  -> left > right - give
          [] Reln[f] = "EQ"  -> left >= right - give /\ left <= right + give
          [] Reln[f] = "GTE" -> left >= right - give
          [] Reln[f] = "LTE" -> left <= right + give

FromRelation(f) ==
    Claimed(f, \A s \in {Left[f]} \union Rights[f] : statesLogged'[s][1], Relate(f))

FromGiven(f, x) == Claimed(f, x # Invalid, x = TRUE)

Basic(in) ==
    [f \in ChartFact \union Relation \union Given |->
        CASE f \in ChartFact -> FromChart(f)
          [] f \in Relation  -> FromRelation(f)
          [] f \in Given     -> FromGiven(f, in[f])]

FromFacts(f, now) ==
    Claimed(f, \A o \in Operands[f] : now[o].valid, \A o \in Operands[f] : now[o].claim)

(* CFactSustained::Cycle()                                                  *)
Mode(f, watched) == IF WatchMode[f] = "TrueXorFalse" THEN watched
                                                     ELSE WatchMode[f] = "True"

(* Mutant: the other claim only holds the count. *)
CyclesSustained_Held(f, now, watch) ==
    IF now = watch THEN Min({field[<<f, "minCycles">>], fact[f].cycles + 1}) ELSE fact[f].cycles

CyclesSustained(f, now, watch) ==
    IF now = watch THEN Min({field[<<f, "minCycles">>], fact[f].cycles + 1}) ELSE 0

FromSustained(f, watched) ==
    LET watch == IF fact[f].first THEN Mode(f, watched.claim) ELSE fact[f].toWatch
        n     == CyclesSustained(f, watched.claim, watch)
        claim == n > field[<<f, "minCycles">>] - 1
        turn  == claim # fact[f].claim /\ WatchMode[f] = "TrueXorFalse"
    IN  IF watched.valid
        THEN [claim |-> claim, valid |-> TRUE, first |-> FALSE, cycles |-> n,
              toWatch |-> IF turn THEN watched.claim ELSE watch]
        ELSE [fact[f] EXCEPT !.valid = FALSE, !.first = FALSE, !.toWatch = watch]

-------------------------------------------------------------------------------
(* One step of the sequence: every element takes its cycle.                 *)

(* in: what each source and given fact gets; luck: what is found past the   *)
(* end of the log of states; area: how far the registers move.              *)
Cycle(in, luck, area) ==
    /\ cycles < MaxCycles /\ cycles' = cycles + 1
    /\ started' = TRUE
    /\ valuesLogged' = [s \in Source |-> UpdateLogging(s, in[s])]
    /\ statesLogged' = [s \in Source |-> Push(in[s] # Invalid, statesLogged[s])]
    /\ means' = [s \in Source |-> UpdateStatistics(s, valuesLogged'[s])]
    /\ shew' = [c \in Shewhart |-> CycleShewhart(c, luck)]
    /\ trax' = [t \in Tracker |-> CycleTracking(t, area)]
    /\ fact' = LET basic == Basic(in)
                   joint == [f \in Fact \ Sustained |->
                                IF f \in Joint THEN FromFacts(f, basic) ELSE basic[f]]
               IN  [f \in Fact |-> IF f \in Sustained THEN FromSustained(f, joint[Watched[f]])
                                                      ELSE joint[f]]
    /\ calm' = [c \in Shewhart |->
          IF ~shew'[c].valid THEN calm[c]
          ELSE IF Trips(c, StdDevRef(c)) THEN 0 ELSE calm[c] + 1]
    /\ held' = [f \in Sustained |->
          IF ~fact'[f].valid THEN held[f]
          ELSE IF fact'[Watched[f]].claim = fact[Watched[f]].claim THEN held[f] + 1 ELSE 1]
    /\ UNCHANGED <<spansInUse, field, shown, sets>>

-------------------------------------------------------------------------------
(* Knobs.  A value out of the range is refused, and so is an unknown key.   *)

Low(k)  == IF k[2] = "secs" THEN SecsPerCycle ELSE MinDefMax[k[2]][1]
High(k) == IF k[2] = "secs" THEN RainfallSize * SecsPerCycle ELSE MinDefMax[k[2]][3]

(* The whole cycles that fit; 0, a size's NaN, if they are not in the rainfall. *)
FitRainCycles(secs) ==
    IF SecsPerCycle <= secs /\ secs < RainfallSize * SecsPerCycle
    THEN secs \div SecsPerCycle ELSE 0

(* CChartShewhart::SetNumSecsBeingUsedTo(): its refusal is not passed on;   *)
(* the depth of the chart's own mean stays.                                 *)
SetNumSecs(c, secs) ==
    LET s == Observed[c]
        n == FitRainCycles(secs)
    IN  /\ n > 0
        /\ valuesLogged' = [valuesLogged EXCEPT ![s] = Grown(@, n)]
        /\ spansInUse' = [spansInUse EXCEPT ![s] = ShiftSpan(@, shew[c].cyclesUsed, n)]
        /\ shew' = [shew EXCEPT ![c].cyclesUsed = n]
        /\ field' = [field EXCEPT ![<<c, "secs">>] = n * SecsPerCycle]

FieldSetter(k, v) ==
    \/ k[2] = "secs" /\ SetNumSecs(k[1], v)
    \/ /\ k[2] = "secs" /\ FitRainCycles(v) = 0
       /\ UNCHANGED <<valuesLogged, spansInUse, shew, field>>
    \/ /\ k[2] # "secs"
       /\ field' = [field EXCEPT ![k] = v]
       /\ UNCHANGED <<valuesLogged, spansInUse, shew>>

(* Mutant: the user sees the value given. *)
ValueNowToGui_Given(k, v) == v

ValueNowToGui(k, v) == field'[k]

SetKnobToValue(k, v) ==
    /\ sets < MaxSets /\ sets' = sets + 1
    /\ Low(k) <= v /\ v <= High(k)
    /\ FieldSetter(k, v)
    /\ shown' = [shown EXCEPT ![k] = ValueNowToGui(k, v)]
    /\ UNCHANGED <<statesLogged, started, means, trax, fact, calm, held, cycles>>

Next ==
    \/ \E in \in Readings, luck \in BOOLEAN, area \in Moves : Cycle(in, luck, area)
    \/ \E k \in Knob : \E v \in Tries[k[2]] : SetKnobToValue(k, v)

Spec == Init /\ [][Next]_vars

-------------------------------------------------------------------------------
(* Properties.                                                              *)

(* The depths at which the charts look up a mean: a depth that is not kept  *)
(* up yields NaN or a mean of long ago.                                     *)
DepthsRead(s) ==
    {shew[c].depthUsed : c \in ChartsOn(s)}
    \union {shew[ObsvdShew[t]].cyclesUsed - 1 :
              t \in {u \in Tracker : Autoregressive(u) /\ Observed[ObsvdShew[u]] = s}}

(* Whatever spans users have set and given back, after a cycle the means    *)
(* the charts read are those of the newest values of the log                *)
(* (UpdateStatistics_Analog(), ShiftSpanOfStatisticsForOneUserFromTo()).    *)
MeansAreFresh ==
    [][cycles' # cycles =>
         \A s \in Source : \A d \in DepthsRead(s) :
             d \in DOMAIN means'[s] /\ means'[s][d] = Stats(valuesLogged'[s], d)]_vars

(* A chart that lost its steadiness regains it after at most a margin of    *)
(* valid cycles without a trip, whatever the margin was set to on the way   *)
(* (CChartShewhart::ApplyChart()).                                          *)
SteadyReturns ==
    [][cycles' # cycles =>
         \A c \in Shewhart : shew'[c].valid /\ ~shew'[c].steady =>
             calm'[c] < Max({field[<<c, "tripFreeMargin">>], 1})]_vars

(* A sustained fact never claims before what it watches has made its claim  *)
(* in as many valid cycles running as are asked for then, even when that    *)
(* was changed meanwhile (CFactSustained::Cycle()).                         *)
NeverPremature ==
    [][cycles' # cycles =>
         \A f \in Sustained : fact'[f].valid /\ fact'[f].claim =>
             /\ held'[f] >= field[<<f, "minCycles">>]
             /\ WatchMode[f] # "TrueXorFalse" =>
                    fact'[Watched[f]].claim = (WatchMode[f] = "True")]_vars

(* What a knob shows is what its host uses, also after a value the host     *)
(* rounded or refused; and what a chart says of its span is the span it     *)
(* has statistics for (AKnob::SetValueTo(), SetNumSecsBeingUsedTo()).       *)
KnobShowsUse ==
    /\ \A k \in Knob : shown[k] = field[k] /\ Low(k) <= shown[k] /\ shown[k] <= High(k)
    /\ \A c \in Shewhart :
          /\ shown[<<c, "secs">>] = shew[c].cyclesUsed * SecsPerCycle
          /\ shew[c].cyclesUsed \in DOMAIN spansInUse[Observed[c]]
          /\ shew[c].cyclesUsed <= Len(valuesLogged[Observed[c]])
===============================================================================

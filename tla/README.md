# ZandrEA in TLA+

Specifications of the ZandrEA fault detection and diagnosis engine (`libEA`),
its REST daemon (`EAd`) and the way they are used, checked with TLC, with
theorems proved by TLAPS.

## 1. The system

| Part | Source | State it keeps | Operations | What is hard about it |
|---|---|---|---|---|
| Clock, time axis | `libEA/taskClock.cpp`, `agentTask.cpp`, `sequence.cpp`, `seqElement.cpp` | stamp, new-hour and new-day marks, ring of stamps | `SetTimeFromPort`, `RingTaskBell` | two separate calls in any order; a bell rung again repeats marks; marks stick to objects that cycle slower |
| Controller and model | `mvc_ctrlr.cpp`, `mvc_model.cpp` | the objects of the engine | `SingleStepModelOnTimeAndInputs` | pass calls on |
| Sequence | `sequence.cpp` | objects by class and trigger group | `TriggerSequence` (laps over five classes, then rule kits) | every object must run once per step, after its inputs |
| Points, formulas, processes | `dataChannel.cpp`, `portOmni.cpp`, `formula.cpp`, `process.cpp` | last value | `Cycle` | an invalid source keeps its value; a failed remote process is ignored |
| Charts | `chart.cpp` | registers, counts of trips | `Cycle`, knobs | knobs move margins that running counts are compared with |
| Facts | `fact.cpp`, `fact.hpp`, `factParts.hpp` | claim, cycles sustained | `Cycle`, knobs | facts on facts, on charts, on the subject's verdict of the step before |
| Rainfall, histograms | `rainfall.cpp`, `viewParts.cpp` | logs, sums by hour, day and week, snapshots | one entry per cycle | unsigned sums that are only adjusted; windows that move on at marks of the clock |
| Rules and rule kit | `rule.cpp`, `rainfall.cpp` | mode of each rule, log of failures, trap clock | `CRuleKit::Cycle`, knobs | trapping, idling and case mode interact |
| Cases and case kit | `case.cpp` | open cases, their dialogue | open, answer, destroy | about ten prompts with ten handlers |
| Knowledge base | `knowBase.cpp`, `knowParts.cpp`, `HDF5Parts.cpp` | counts in an HDF5 file | build, read, learn | outlives cases and the process, is written node by node |
| Subject, domain | `subject.cpp` | identifiers, alerts, history of pinned failures | alerts FIFO, verdict on the unit | counters that stop |
| Knobs | `controlParts.cpp` | the value shown | `SetKnobToValue` | shown value and field of the host drift apart |
| View and its parts | `mvc_view.cpp`, `viewParts.cpp`, `guiShadow.cpp` | tables of kronos, panes, traces, cases, knobs | build and lose kronos, answer keys | clients hold keys of what has died |
| REST daemon | `EAd/handler.cpp`, `EAd/main.cpp` | sequence number, alert buffer, three locks | GET, PUT and POST handlers on a pool of five threads | the only true concurrency of the program |
| Clients | `eajscli/src/App.js`, `EAbacnet/main.py` | what the last replies said | polling, feeding samples | read and write without coordination |
| Instantiation | `libEA/tool.cpp` | none | builds plant, rules and diagnostics | a script of about 3900 lines |

A client or the BACnet feeder sends time and samples to the daemon (`PUT`). Each
step rings the clock and runs the sequence once: points log their values,
charts turn logs into steadiness, drift and hunting, facts claim, rules test
facts. The rule kits come last; they may trap a failing rule, post an alert and
open a case. The user reads histograms, traces and cases by their keys and
answers the prompts of a case, which weighs the answers against the knowledge
base and teaches it the verified solution.

## 2. What makes each part correct

* **Clock, histograms**: each hour and day reaches every object once; a sum that is
  only adjusted agrees with the log it stands for; windows hold what their names say.
* **Sequence**: every object fires once per step; how late is what it concludes from?
* **Charts, facts, knobs**: no claim comes early, steadiness comes back, whatever the
  user sets meanwhile, and a knob shows what its host uses.
* **Rule kit**: a rule is in case mode exactly while its case exists, the data of a case
  outlive every wipe, a rule that keeps failing is heard.
* **Cases**: a dialogue always takes another answer, never loses or repeats a
  question, keeps at least one hypothesis, teaches each verified solution once.
* **View**: the tables hold what is owned and nothing else, and a key held by a client
  never turns up another object.
* **REST daemon**: data are as fresh as announced, alerts keep their order, a client
  that waits for an event is woken by every later change, threads suffice.

## 3. Modules and the code

| Module | Models | Actions and the code |
|---|---|---|
| `Clock` | stamp, marks, ring of stamps (`taskClock.cpp`, `seqElement.cpp`, `sequence.cpp`) | `SetTimeFromPort`; `Trigger` is what a bell does to the axis and to each object: the rate at which it cycles, its sticky marks |
| `Rainfall` | EXTENDS `Clock`: logs and histograms of points, facts and rules, snapshots (`rainfall.cpp`, `viewParts.cpp`) | `Cycle` is a bell with every object that is due: new hour and day, the move of each window, the log, the snapshot; the operators after it are the getters |
| `Chart` | statistics by span, Shewhart and tracking charts, facts of every kind, knobs of a number (`rainfall.cpp`, `chart.cpp`, `fact.cpp`, `controlParts.cpp`) | `Cycle` is a whole step; `SetKnobToValue` the setter of any knob, with range, rounding and refusal |
| `Sequence` | one step over any network of objects (`sequence.cpp`, `seqElement.cpp`, `PullValidity` and `Cycle` of the objects) | `RingTaskBell` starts a step, `TriggerClass(c)` is one turn of one class in a lap, `EndOfLap` the test of the `while`, `TriggerRuleKits` the loop after it |
| `Plant` | the network `CTool_ahu_ibal` and `CTool_vav_ibal` build (`tool.cpp`) | constants only: objects with class, operands, what they really read, features of the user interface |
| `RuleKit` | rule kits, their log of failures, the case kit and the verdict of one subject (`rule.cpp`, `rainfall.cpp`, `case.cpp`, `subject.cpp`) | `Cycle` is one `CRuleKit::Cycle` with test, log, snapshot, trap, alert and case; `SetRuleIdle` and `SetAllIdle` are knobs; `DestroyCase` the end of a case |
| `KnowBase` | the nodes of the base (`knowBase.cpp`, `knowParts.cpp`) | operators: what a lesson adds, what a new node starts with |
| `Diagnostics` | hypotheses and evidence of all twenty rules (`tool.cpp`) and the building of the file, write by write (`knowBase.cpp`, `HDF5Parts.cpp`) | `FileAfter(rule, evidence, n)` is the file after n writes, what a restart finds |
| `CaseDialogue` | cases on a rule, one at a time, and the rule's part of the base (`case.cpp`) | `OpenCase` is the constructor; `PromptAsIs`, `LeaveIdle`, `AskQuestion`, `EvaluateEvidence`, ... the handlers `p_ActOnAnswer` points to, each with the whole Bayesian update; `Crash` and `CrashWhileTeaching` end the process |
| `CaseProtocol` | what a case promises the base: opened, at most one lesson, closed | abstract specification that `CaseDialogue` implements |
| `View` | kronos, panes, traces, cases and the tables of their keys (`viewParts.cpp`, `mvc_view.cpp`, `mvc_ctrlr.cpp`, `rule.cpp`, `case.cpp`) | `LoadRealtimeKrono...` and `ClearKit...` are settings of the selection knob, `CCase` and `CloseCase` begin and end a case, `Look` is a client that reads all keys of a krono and keeps them |
| `RestServer` | the clients and the sequence number that the next two share | |
| `RestApi` | handlers, locks, sequence number and alert buffer (`handler.cpp`) | one action per stretch of a handler between two points where another thread can come in |
| `EventWait` | eventwait, `update_seq` and the pool of threads (`handler.cpp`, `main.cpp`) | `Check`, `Wake`, `TimeOut` are `wait_for_event`; `Increment` and `NotifyAll` are `update_seq` |

`MC...` modules give the instances TLC checks, `...Proofs` modules the theorems;
`RestApiProofs` is about `RestApi` and `EventWait`; `Sums` has the lemmas on sums over
finite sets that several of these need.
`PROJECT.json` maps each definition to its lines.

How they meet: `Rainfall` composes the clock with what is logged by it, and the
dialogue starts from a base that `Diagnostics` builds. A step of `Sequence`
ends with `RuleKit!Cycle`; what fires in it is `Chart!Cycle` in the order that
`Chart` takes for granted and `Sequence` checks. The case `RuleKit` opens is
`OpenCase` of the dialogue and `CCase` of the view. The calls of `RestApi` that
change the engine are the actions of the others; since it makes them under a
lock, each is one action there. These are not composed further: a case does
not look at its rule kit, the rule kit not at the clock, the view at none.

Abstractions that several modules share:

* The outcome of a test, the samples and the output of formulas and processes are
  inputs. `Chart` computes in whole numbers, a mean is a sum and a count;
  `Sequence` keeps of a value how many steps it is behind the samples (`lag`).
* Texts, units, colours and layout are left out. A percentage is kept where a
  comparison depends on it (`PctX10`, integer division and `short` as in the code).
* Serial numbers of snapshot sets are up to renaming.
* Two single steps at once, or a single step while a GET swaps the alerts, are
  data races in the code (no lock is held). `RestApi` lets the alerts
  concerned be lost or kept, in any way; what else a race could do to the
  engine is outside the model.
* A read past the end of a list (answer 0 of a case without hypotheses) is a choice
  over every outcome.
* The order in which a hash table is walked is nowhere assumed. Of the tallies of a
  case (`diagnosticTypes.hpp:127`) each walk takes any order: the queue of evidence
  is any arrangement of it (`Walks`), the lone survivor has passed any of those
  ruled out (`passed` in `WeighSole`), ties for the MAPP go to any of the best
  (`Leads`), and a lesson cut short has written the nodes of any hypotheses and some
  of those of one more (`WrittenSoFar`). The layouts of `View` take any order too. The
  two tables of a rule kit are filled once, so their orders are constants of
  `RuleKit`, `TestPlace` of the rules and `LogPlace` of the logs, of which nothing is
  assumed but that they number the rules of a kit; that they differ matters
  (`PinnedFailureShows`, section 6).

## 4. Runs

| Run | What it asks | Bounds and why they are enough |
|---|---|---|
| `case_three` | Is a dialogue always answerable, are questions neither lost nor repeated, does a hypothesis survive, is a proven one alone, are divisors positive, lessons counted once; does the dialogue implement `CaseProtocol` | Rule 7 of the air handler from the base the kit builds: three hypotheses, whose evidence is of both senses and partly under each other's number, can be ruled out in either order, and skips wrap the queue; every order of the queue, of ties and of kills; one lesson, whole or cut short, lets the next case meet a taught base, and up to `MaxWritten` 3 of its nine nodes are written when it is cut short: those of any one hypothesis, or some of one. Two assumptions TLC evaluates are about all twenty rules: each starts without a bias, and a base cut short while being built stays so |
| `kit_one` | Is a rule in case mode exactly while it has one case, does the case keep its data, does an alert mean a case, do failures that must have a pinned one among them show, is a failing rule heard | two rules, one of them pinned, compete for one trap and one place in the case kit; a trap span of two has a log with a past; the tables are walked in opposite orders, as libstdc++ does |
| `kit_leak` | *Violation*: a snapshot set loses its last reference and can no longer be eliminated | two cases at once |
| `kit_pinned` | *Violation*: a pinned rule has just failed and the output of its subject is said to be okay | as `kit_leak`; with one order for both tables there is no such state (`FailureToldInOrder`) |
| `seq_plant` | Does a step trigger every object and end, does validity pass on, how late is what a rule or the user interface concludes | one air handler and a VAV box it serves, with every object and feature; all other subjects are copies. Two objects can turn invalid, the binary point and the quotient with a zero divisor; the box's own binary point would square the states and fails alike. How late an object may be is computed from the network (`PlantLateness`). The deepest lap is 2 of `MaxLap` 6, and `MaxLag` 3 is beyond the lag of any valid rule |
| `hist` | Do the histogram of the hour and the log agree, do past hours and days count their cycles, are bars shares, do traces and axis line up | a point, a fact, a rule and a fact of half their rate (a longer hour in triggers than in cycles); hours of two periods, days of two hours and weeks of two days come round within `MaxTime` 8; stamps go on by 1 or jump by 4, past an hour and to the next day; `MaxOdd` 1 is a call out of turn; snapshots of two entries in a log of two |
| `chart` | Do charts read means of the log as it is, does steadiness return, does a sustained fact never claim early, do knobs show what is used | a temperature and its setpoint, an autoregressive and a guided tracker, facts down to a sustained one; four steps are more than any margin or number of cycles set; two settings let one knob be set twice or two knobs in either order; the spans tried are rounded, longer than the log, and refused |
| `view` | Do the tables hold what is owned, does a krono show its chain once in the right panes, does a held key keep its meaning | two rules whose chains share an analog, one with a sustained fact; keys up to 30 last for about five selections or cases, so that a case dies with a selection before and after it; the layout takes any order of the tables |
| `rest_all` | Have data what was announced, does a sampletimestep compute from its own inputs, are the ids of alerts consecutive and in order, is none dropped early, is every request answered | two clients, one between any two calls of the other, and every kind of request; one subject, whose entry is set, passed over, of the wrong length or fatal, since a lock is kept or released by the request and not by the subject; four requests, so that two steps post alerts while two GETs move them, and one follows an abandoned one; a buffer of one alert instead of 128 is full after the first. More clients, subjects and alerts are for the theorems |
| `rest_number` | *Violation*: old data are shown with the current number | two clients, one subject |
| `wait_free` | Is no wakeup lost, a change heard without a timeout, each request answered | three clients on the five threads of `main.cpp`: three eventwaits leave two threads for their tasks; `MaxSeq` 2 lets a second change meet the notification of the first |
| `wait_full` | *Violation*: as many eventwaits as threads hang | two clients, two threads ("min is 2") |

Deadlock is checked except where a bound ends all behaviours (`hist`: time and
bells, `chart`: steps and settings, the `rest_` runs: requests) and in
`wait_full`, where the hang is the finding.

Fairness:

* `RuleKit`: weak fairness of `Cycle` of each kit, since the feeder steps the
  engine for ever. The user owes nothing.
* `Sequence`: weak fairness of the step once begun: `Trigger` is one loop on one
  thread. No new step need ever begin.
* `RestApi`, `EventWait`: weak fairness of each handler, of the dispatch of the
  pool, and of the wakeup of a notified sleeper, which the scheduler gives.
  Requests are never owed. That a sleep ends at its timeout (`TimesOut`) is
  assumed only where a property needs it and says so.
* `CaseDialogue`, `Rainfall`, `Chart`, `View`: none, the user may never act.

## 5. Proofs

All theorems hold for every value of the constants that satisfies the named
assumptions of the module, which TLC evaluates in the runs. Four theorems have a
hypothesis of their own, named with them.

`CaseDialogueProofs`: types are kept, an open case is answerable, a hypothesis
survives, a proven hypothesis is alone and reported, and evidence is partitioned
(`TypeCorrect`, `Answerable`, `Survival`, `Alone`, `Partition`). `IInv` adds what each
prompt implies: a question is up only while the base is not spent, a bust
case has left the menu and the questions, a verified case is at its end;
without these the early return of the evidence handler could not be
excluded, and it is also why a step never takes back that a case busts the base
(`BustStays`). The survivor follows from arithmetic on `numAlive`, which handlers
decrement on some paths only. `QInv` is what a skip and its rollback keep of the queue:
its items are distinct, all open ones are in it, and one being asked is open.

About the knowledge base: each step of the dialogue is a step of `CaseProtocol` or
none (`Refinement`, for rules that have hypotheses: of one without any, a lesson
would name none), what is counted is exactly what was taught (`Balance`: a lesson
adds one to one value of each node, so every sum over a node moves by one or, for a
torn lesson, by one or nothing; which nodes a torn lesson has written is any set
that some order of the two tables allows, in the dialogue as in the protocol), and `UpdateBayesProbabilities` never divides by zero
(`Divisors`). The last takes a base that holds some case of a true hypothesis at the
start (`Primed`); counts never go down, so some prior stays positive, and `Weighed`
says that the joint sum stays so while any evidence counts. `DesignsUnbiased` shows
that every base the code builds whole starts primed, `CutShortStays` that one whose
building was cut at its first node does not, and then the code does divide by zero
(section 6).

`RuleKitProofs`: types, results within the tables, a case exactly for each rule in
case mode, its snapshot kept, the limit of cases, a case for each alert
(`TypeCorrect`, `InTable`, `OneCase`, `SnapshotKept`, `WithinLimit`, `Alerted`). `IInv`
adds that a case shows the set its rule holds (`CaseHasRulesSet`), that two rules
never hold one set (`SetsDistinct`), so that wiping the set of one rule cannot take
the data of another's case, and that a failure logged since the last trap has
its set (`FailureHeld`), so that a trapped rule has data to open a case with.

What the subject is told of failures depends on two orders. For any two, it is
told when more rules of a kit fail, or failed within the history, than the kit has
rules that are not pinned (`FailureTold`): so many fall on the place of a mark at
least once. For one order of both tables it is told of every failure of a pinned
rule (`FailureToldInOrder`, which has that hypothesis). Both come from the verdict
being computed from the history of the kit in the very cycle (`VerdictCurrent`), and
from what a cycle enters in it (`HistoryCovers`).

A trap is well defined for every log (`TrapDecides`): by the least number of a set, which
needs no induction over data but the library's order on numbers, there is one rule to
trap or none, and the one to wipe is another. So no rule that failed more often
than an empty trap may have is passed over, and the traps of a kit keep their
distance whatever the other kits and the user do (`Heard`): this is what the liveness
property `NoSilentFailure` rests on in each step. Serials of cases tell open cases apart
until they run out (`SerialsDistinct`, from `SerialsUpwards`).

`SequenceProofs`: for every network that satisfies the assumptions of `Sequence`,
operands are in lower groups than their readers (`OperandsInLowerGroups`, why
laps suffice), every object has been triggered when the count says so
(`EverybodyTriggered`), an object whose reads come before it is on the samples of
its step (`TimelyIsFresh`) and validity passes on (`ValidityPassesOn`). `IInv` says that
the objects triggered are exactly those whose lap and class have passed
(`FiredSoFar`) and that counts are sizes of these sets (`CountsTell`); equality of
sums means equality of sets because each count is bounded by its class.

How late is what is not fresh follows for any network (`LateAsTheLapsSay`): `Lateness`
gives some objects the steps they may be late, under `LatenessAssumption` that these
read only such objects and are one step later than any that comes after them
in a step. `LateInv` carries it through a step, from the value an object last had to
the one it gets; an operand that can turn invalid is no way round, because its readers
turn invalid with it, and what is read without being an operand is a rule or can
not turn invalid at all (`Sound`). That `Timely` and `Sound`, which are recursive, hold of
an object as they do of those below it is proved (`TimelyRecursion`,
`SoundRecursion`) from the order of laps, not assumed. `StepShrinks` gives the loop its
rank: a step ends after at most `7 * MaxLap + 1` turns.

`RainfallProofs`, for any series, rates, calendars and order of calls:

* The histogram of the hour shows what the log holds of that hour, and no unsigned
  sum is taken below zero or above the hour (`HistogramIsLog`, `BarsInBounds`). The
  invariant is `BinsMatchLog` with the shape of logs and slices; its step is a
  lemma on a window that moves on by one place (`ShiftCount`).
* A trace and its axis show a step in the same place, in real time and in every
  snapshot (`TracesAligned`): what a series came to k cycles ago is at place k of
  its log and in the step of that age, on the axis too (`Cycles`), and a snapshot
  takes both along (`Fits`).
* The bars of any slice are shares of all its cycles (`BarsAlwaysShares`): each
  slice, moving or past, divides its cycles among its bars (`Divided`), which a new
  result leaves so since one bar gains what another loses.
* With a bell each minute, past hours and days count the cycles of their clock
  hour and day, bar by bar (`HoursAlwaysCounted`, `DaysAlwaysCounted`). The marks a
  series has not yet read say whether an hour or a day began since its last cycle
  (`Feed`), so that the window, which knows nothing of the clock, is put away
  just when it is the hour (`WindowIsHour`); every past hour in the list is then
  counted (`HoursFull`), and a day, which the code adds up from hours, is a sum over
  disjoint classes of steps (`DayOfHours`, `DaysFull`). `CalendarAssumption` asks for two
  hours a day and two days a week because the clock knows a new hour or day by
  its number only: of one hour a day it would never tell the next.

`Sums`: `MapThenSumSet` is a recursive function on the subsets of a set. The lemmas
that it exists, adds up term by term, can be split, exchanged and bounded are
proved without an induction rule, which would take an operator as a parameter:
a statement that failed would fail for a smallest subset (`Least`, from the library's
well-founded order on subsets), and does not.

`ChartProofs`: for any charts, facts, ranges and readings, a knob shows what its
host uses (`KnobsTell`, from `IInv`: a log is at least as long as any span its charts
use), a sustained fact has held as long as it says (`ClaimsInTime`, from `HeldCounts`:
its count is no more than the cycles it held), charts read means of the present log
(`MeansFresh`, from `UInv`: every depth read is among the spans in use), and a chart that has not
tripped for its margin is steady again (`SteadinessReturns`, from `CalmCounted`: the
count, which the code compares with the margin for equality, is at least the cycles
without a trip and is cut to the margin of its cycle).

`RestApiProofs`: for any clients, subjects and mix of requests, data are as fresh
as what was announced (`DataFresh`) and the step of a sampletimestep has its own
time and inputs (`StepOwn`). `IInv` counts: the calls finished are those announced
and those of handlers about to announce (`Numbered`), so the number is never
ahead and each change is announced once (`AnnouncedOnce`); exactly the holder of the
lock is in its section (`LockHeld`), so nobody else stamps or lifts the mark that
single calls leave. `RestTypes` has the types.

Of what `EveryRequestAnswered` rests on two parts are proved: each handler has a rank,
`StepsLeft`, which its own steps lower and no other step moves (`EachHandlerEnds`), and a
handler that waits for a lock waits for one that can go on, or at most one further
(`NoDeadlock`), because whoever holds `instance_api_lock` waits for nothing (`ApiHeld`).
That such a handler is given the processor is the fairness of section 4.

It also has the alerts, for any number of them and size of the buffer: they keep
one order from the fifo through a GET to the buffer (`OneOrder`), which is as full as
it can be (`BufferFull`). `Alarms` says that only the holder of the lock has
alerts in hand (`InHand`), that the fifo is younger than these and these younger than
the buffer (`Younger`), and that ids begin at 0 or the buffer is full (`Room`).

And it has the theorems about `EventWait`: for any number of clients and threads,
types are kept and no wakeup is lost (`WaitTypes`, `WakeupKept`). `WaitInv` ties every
job of the pool to the request that put it in, once (`JobsMatch`), and every task to
the handler that waits for it (`BlockedOnTask`): no dispatch can take a handler away
from between its increment and its notification. Where the pool can stand still is
exactly known: no job is lost (`JobsKept`), so with a request open something can go on
unless every thread is the handler of an eventwait whose task has no thread
(`OnlyIfAllHeldUp`), which takes as many clients as threads (`NothingStalls`, for fewer;
`Answered`, run `wait_full`, for as many), and from which nothing leads out (`NeverFreed`).

`ViewProofs`, for any plant, logic chains, kits of rules and orders of the tables:

* The tables of the view and of the controller hold what the kit and its cases own
  (`Tables`), and a key a client still holds is refused or finds what it was given
  for (`HeldKeys`). `IInv` says that the keys given to two boards on show, with
  their knobs and the traces of their cases, have nothing in common (`Apart`), so that
  what dies takes no entry of another along, and are none of those given when the
  plant was built. `HInv` follows a key read from a pack: it is that of a trace in real
  time, or is listed by a board still on show, or is dead for good, since whatever
  is shown later has keys not given before (`Grows`).
* A krono shows the chain of its rule (`Chain`): `Shape` holds of every way to lay out a
  set of sources if it does of every way to lay out one source less
  (`PlacedShape`), whichever of them comes last; no source joins the pane of the rule,
  whose units are those of rules alone (`TracesAssumption`). `Arrangement` says what
  the order of panes is worth. The layout and the pane of all rules are recursive
  functions; that they exist is proved as for `Sums`.

Only model-checked:

* All liveness, with the fairness of section 4: it is outside the prover's reach. The
  ranks and the absence of deadlock it rests on are proved (`StepShrinks`,
  `EachHandlerEnds`, `NoDeadlock`, `NothingStalls`, `Heard`); that a step which can be taken
  is `ENABLED`, and what fairness makes of it, is not.
* How late the objects of the real plant are: `LateAsTheLapsSay` takes the numbers, and
  `PlantLatenessAssumption`, which TLC evaluates, has them for its network, a list of
  constants.
* The counterexamples of the violation runs.

## 6. What the checks found

The violation runs state what a text of the repository says:

* `NoSetLeaks`: snapshot sets are captured at every failure and some are never
  eliminated.
* `PinnedFailureShows`: `customTypes.hpp:120` says that a pinned rule must be passed or
  skipped for the output of its subject to be okay. The failures of a cycle are listed
  as `p_Rules_byUai` is walked (`rainfall.cpp:1580`) and multiplied, place by place
  (1614), with the marks of the pinned rules, listed as another hash table is walked
  (1156), which was filled by a walk of the first. libstdc++ walks rules 1 to 10
  from 10 down to 1 and the logs from 1 up to 10. An air handler has rules 1 to 4
  pinned (`tool.cpp:2073` to 2193), a VAV box 1, 2, 3 and 6: of an air handler the
  verdict is made of rules 10, 9, 8 and 7. Subjects with all rules pinned are not
  affected, which is the case of equality in `EnoughFailuresShow`.
* `CurrentNumberMeansCurrentData`: a GET may carry old data with a new number;
  a client that polls on the number keeps them until something else changes.
* `Answered`: as many eventwaits as threads hang the daemon, for ever (`NeverFreed`).

Further disagreements met while modelling, which one step or a reading shows and
no run states (paths under `src/`, file names without a directory are in `libEA`):

* **Sequence**: a fact on a tracking chart is triggered a lap before the chart and
  concludes from the step before (`sequence.cpp:163`), against `customTypes.hpp:48`
  "Objects in a higher numbered group will be triggered only after ALL the objects in
  lower group(s)"; `LagBounded` says what that costs: rules of an air handler are at
  most one step late, of a VAV box two.
* **Cases**: after a combination never learned before, `case.cpp:464` adds one per
  hypothesis to the sum but keeps the accumulated counts, so that "probabilities"
  (`case.cpp:656`) exceed 100 %; a spent base does not mean everything was evaluated
  (744); a prompt that only notifies takes answers (1171); a solution reported at
  100 % stays so after it is ruled out (479); a hypothesis in the first place with a
  prior below 0.1 % looks up number 0 and throws (581), which takes a base of a
  thousand lessons on the others.
* **Knowledge base**: a base cut short while it is built is never completed
  (`knowBase.cpp:40`, 68, 132): a case on a rule cut at its first node divides by a
  prior sum of zero, and the number of active nodes is not counted again after a
  restart; `DevolveCounts` works on copies and changes nothing (486).
* **Rules, subjects**: the flag that all rules are idle stays set when one is woken
  (`rule.cpp:927`); a rule keeps the number of a set that was eliminated (303);
  serial numbers of cases are 1 for ever after 255 (`subject.cpp:95`), so that two
  open cases may then carry the same one (`SerialsDistinct`: only then).
* **Charts and facts**: a value that swings past the band both ways is never
  reported as hunting by a chart on its own mean, since the register that is not
  fed goes stale in the same cycle (`chart.cpp:757`, against 727); steadiness is
  lost at the first trip (345, against Method Note [4]); `trackerOn` is never tested
  (728); an invalid cycle restores the results of the last valid one instead of
  freezing them (781); a knob of the span changes `cyclesUsed` and not
  `rainDepthBeingUsed`; the counts of users of a span are assigned to themselves, so
  that none ever goes (`rainfall.cpp:735`, 772, 776); the mean of a single cycle is 0
  (411, 711, 746); `IsValidOverCycles` reads past the log of states (837); the longest
  span in the range of its knob is refused without a word (`chart.cpp:34`).
* **Clock and histograms**: a bell rung again repeats the marks of its hour and day
  (`taskClock.cpp:111`), two stamps without a bell lose those of the first, and a new
  day without a new hour is not noticed (`seqElement.cpp:121`): `HoursCounted` and
  `DaysCounted` are claimed of a feeder that calls each minute; a first cycle that is
  also a new hour leaves a slice with time 0 (`viewParts.cpp:1514`); facts and rules
  give a past day the front edge of an hour (1667, 1876), points and kits that of the
  day (1389, 2187); a snapshot of a rate that does not divide 15 would write past its
  array (`rainfall.cpp:803`, excluded by `SnapshotAssumption`).
* **View**: panes in real time are tested for the types of snapshots (`case.cpp:375`),
  so that in a case all count as analog, the pane of the rule is listed twice and
  facts are not above analogs (against 387); panes of analogs hold four traces, the
  text says up to three (`viewParts.cpp:605`, `customTypes.hpp:150`, 598); the group Alone is
  compatible with itself (`customTypes.hpp:597`); the selection knob refuses the 0 that `rule.cpp:487`
  allows; the two knobs of a krono show stale copies once the other is set
  (`controlParts.cpp:128`, 224, 269); `SetSecsLookingBack` does nothing
  (`viewParts.cpp:727`); the chain of a sustained fact is not lent (868); keys that
  never die are looked up without a test (`mvc_view.cpp:97`), keys that do with one.
* **Instantiation**: `unitReheating` is built with `u_Tad_GT_Taz` as operand and computes
  from `u_Tad_GT_Tai` (`tool.cpp:3160`); Rule 1 of the air handler tests the pointer
  `u_Xfact`, not the fact (2051); Rule 5 begins with `false &&` (2210); the numbers of
  evidence 7 and 8 are exchanged (2437). `Plant` and `Diagnostics` follow the code.
  `process.cpp:111`: constants are sent to the remote service and its status is not
  looked at.
* **REST**: `EAd/REST-API-v3.md:207` calls sampletimestep a "single atomic operation",
  185 says ALL successful PUT requests update the number (`/ctrl/time` does not);
  `EAd/handler.cpp:1550`: a sample of the wrong length is answered with returncode 0; the
  buffer of alerts exceeds 128 when more come at once; a single step takes no lock
  (1451, against the comment at 40), so alerts posted while a GET swaps the fifo may
  be lost and two steps may run at once.

## 7. Not modelled

* Values: psychrometric formulas, conversions of units and the remote inference
  service are stateless floating point computations, the areas a tracking chart
  gains likewise (inputs of `Chart`). `microservice.pb.cc` is generated.
* The handles and compound types of HDF5 and the cursor of the base: plain storage.
* JSON, compression, certificates, options, CORS and shutdown: no state the rest
  depends on. `session.cpp` is used by no handler.
* Texts, units and colours of the packs; tables of the view, model and controller
  that are filled at construction and never change.
* The copies that the two knobs of a krono keep of each other (section 6).
* The plants of `tool.cpp` that have no rules; ranges of points.
* The web client and the feeder: they are the clients of `RestApi`, `EventWait` and
  `View`, in any order and number; what a page does with a reply is layout.

What is left out of a part that is modelled is in `PROJECT.json`. What a next version
could add is the numeric side: the tracking chart with real areas, and the
formulas against bounds of their outputs.

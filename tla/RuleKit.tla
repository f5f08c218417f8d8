-------------------------------- MODULE RuleKit --------------------------------
(***************************************************************************)
(* The rule kits of one subject (CRuleKit and its CRule objects, rule.cpp; *)
(* their rainfall CRainRuleKit, rainfall.cpp; the case kit and the history *)
(* of pinned failures they share, case.cpp and subject.cpp).               *)
(*                                                                         *)
(* Each step of time cycles a kit: every rule is tested, a rule that fails *)
(* in auto mode has the data behind it captured as a snapshot set, and     *)
(* once every trap span the rule with the most failures is trapped: an     *)
(* alert is posted and a case opened, which keeps the rule in case mode    *)
(* and shows the captured data until the user closes it.  Meanwhile the    *)
(* user idles rules, one by one or all at once, in any order.              *)
(*                                                                         *)
(* The outcomes of the tests are inputs.  Of the log of a rule only the    *)
(* auto-mode failures within the trap span are kept, as nothing here reads *)
(* the rest.  A kit keeps its rules, and the logs of their results, in     *)
(* hash tables that are walked in different orders, each fixed once the    *)
(* kit is built: TestPlace and LogPlace.  Snapshot sets are numbered up to *)
(* renaming: the code takes the next of 2^32 numbers, the model one that   *)
(* nothing refers to.                                                      *)
(***************************************************************************)
EXTENDS Integers, FiniteSets, Functions

CONSTANTS Kits,         \* rule kits of the subject
          Rules,        \* uais of all their rules
          KitOf,        \* the kit of a rule
          TestPlace,    \* place of a rule as p_Rules_byUai of its kit is walked
          LogPlace,     \* its place in the walk of the logs of the kit
          Pinned,       \* rules pinned to the unit output of the subject
          Outcomes,     \* results of a test explored, part of AllOutcomes
          TrapSpan,     \* cycles from trap to trap, and counted by each
          EmptyTrap,    \* FIXED_RULERAIN_FAILSINEMPTYTRAP_MAX
          MaxCases,     \* FIXED_CASEKIT_NUMCASESOUT_MAX
          History,      \* FIXED_SUBJECT_CYCLESPINNEDFAILHISTORY
          SgiWrap,      \* the serial of a case from which they wrap (255)
          Sets,         \* numbers of snapshot sets
          NoRule        \* the uai 0 of no rule

AllOutcomes == {"fail", "pass", "skip", "invalid"}
RulesOf(k)  == {r \in Rules : KitOf[r] = k}

ASSUME RulesAssumption    == /\ IsFiniteSet(Rules) /\ Rules \subseteq Nat
                             /\ NoRule \notin Rules
                             /\ KitOf \in [Rules -> Kits]
                             /\ Pinned \subseteq Rules
                             /\ Outcomes \subseteq AllOutcomes
ASSUME PlacesAssumption   ==
    \A place \in {TestPlace, LogPlace} :
        /\ place \in [Rules -> Nat \ {0}]
        /\ \A r \in Rules : place[r] <= Cardinality(RulesOf(KitOf[r]))
        /\ \A q, r \in Rules : KitOf[q] = KitOf[r] /\ place[q] = place[r] => q = r
ASSUME SpansAssumption    == /\ TrapSpan \in Nat \ {0} /\ EmptyTrap \in Nat
                             /\ History \in Nat \ {0}
ASSUME CasesAssumption    == MaxCases \in Nat /\ SgiWrap \in Nat \ {0}
ASSUME SetsAssumption     == Sets \subseteq Nat \ {0}

VARIABLES
    caseMode, idleMode,     \* offsets of a rule's modes set (4 and 7) or not
    allIdle,                \* areAllRulesNotInCaseModePutToIdle of a kit
    bindex,                 \* newest result of a rule (bindexNow)
    failLog,                \* newest first: the result was an auto-mode failure
    untilTrap,              \* cyclesUntilTrapEnable of a kit
    setSgi,                 \* snapshotSetSgi of a rule, 0 = none yet
    held,                   \* snapshot sets that exist, of those referred to
    leaked,                 \* history: a set has lost its last reference
    cases,                  \* the case kit: open cases
    nextSgi,                \* nextSgiForCases
    history,                \* pinnedRuleFailHistories_byRuleKit, newest first
    outputOkay,             \* unitOutputOkay
    trapped, wiped          \* result of the last cycle of any kit

snapshots == <<setSgi, held, leaked>>
results   == <<bindex, failLog, untilTrap, history, outputOkay, trapped, wiped>>
casekit   == <<cases, nextSgi>>
vars      == <<caseMode, idleMode, allIdle, results, snapshots, casekit>>

InAutoMode(r) == ~caseMode[r] /\ ~idleMode[r]

Unavailable == 10
Bins        == 0 .. 10

(* CycleAndSayBindex: the result of a test with the mode of the rule.       *)
Bindex(r, out) ==
    LET offset == (IF caseMode[r] THEN 4 ELSE 0) + (IF idleMode[r] THEN 7 ELSE 0)
    IN  CASE out = "fail"    -> offset
          [] out = "pass"    -> 1 + offset
          [] out = "skip"    -> 2 + offset
          [] out = "invalid" -> 3

FailedInAnyMode(b) == b \in {0, 4, 7}

-------------------------------------------------------------------------------
(* Snapshot sets.                                                          *)

CasesOn(r)   == {c \in cases : c.rule = r}
InUse        == Range(setSgi) \cup {c.set : c \in cases}

(* A different unused number for each of the rules that failed.             *)
Numberings(rules) == {n \in Injection(rules, Sets) : Range(n) \cap (InUse \cup held) = {}}

(* SaveAntecedentSnapshotsAndSaySetSgi for every rule that failed in auto   *)
(* mode.  HasSnapshotSet() is of a field nothing sets: each failure         *)
(* captures a set, whether the rule has one or not.                         *)
Capture(rules, n) ==
    setSgi' = [r \in Rules |-> IF r \in rules THEN n[r] ELSE setSgi[r]]

(* DestroySnapshotSet: only on a rule without a case.  The number remains.  *)
(* Mutant: the mode of the rule is not looked at.                           *)
Destroyed_Always(w) == IF w = NoRule THEN {} ELSE {setSgi'[w]}
Destroyed(w) == IF w = NoRule THEN {} ELSE
                IF caseMode[w] THEN {} ELSE {setSgi'[w]}

(* What nothing refers to any more can not be destroyed either.             *)
Keep(sets) ==
    LET referred == Range(setSgi') \cup {c.set : c \in cases'}
    IN  /\ held' = sets \cap referred
        /\ leaked' = (leaked \/ ~(sets \subseteq referred))

-------------------------------------------------------------------------------
(* The trap.                                                               *)

(* WriteFailsOnRulesToRainfall: the failures of a rule the trap counts.     *)
(* Mutant: rules are not masked by their mode.                              *)
Fails_Unmasked(r, log) == {i \in 1 .. TrapSpan : log[r][i]}
(* Mutant: the newest result is logged only after the trap.                 *)
Fails_NotNewest(r, log) == IF InAutoMode(r) THEN {i \in 2 .. TrapSpan : log[r][i]} ELSE {}
Fails(r, log) == IF InAutoMode(r) THEN {i \in 1 .. TrapSpan : log[r][i]} ELSE {}

NumFails(r, log) == Cardinality(Fails(r, log))
AllFails(k, log) == {f \in RulesOf(k) \X (1 .. TrapSpan) : f[2] \in Fails(f[1], log)}

(* The first rule in the order of the logs with the most failures.          *)
Trapped(k, t, log) ==
    /\ t \in RulesOf(k)
    /\ \A r \in RulesOf(k) : \/ NumFails(r, log) < NumFails(t, log)
                             \/ /\ NumFails(r, log) = NumFails(t, log)
                                /\ LogPlace[t] <= LogPlace[r]

(* The first with the least, one failure added to those that never had a    *)
(* snapshot; nothing is wiped when it is the trapped rule as well.          *)
Score(r, log) == NumFails(r, log) + (IF setSgi'[r] = 0 THEN 1 ELSE 0)
Least(k, w, log) ==
    /\ w \in RulesOf(k)
    /\ \A r \in RulesOf(k) : \/ Score(r, log) > Score(w, log)
                             \/ /\ Score(r, log) = Score(w, log)
                                /\ LogPlace[w] <= LogPlace[r]

(* EnableTrapAndSayResult                                                   *)
TrapResult(k, t, w, log) ==
    IF Cardinality(AllFails(k, log)) > EmptyTrap
    THEN /\ Trapped(k, t, log)
         /\ \E l \in RulesOf(k) : Least(k, l, log) /\ w = (IF l = t THEN NoRule ELSE l)
    ELSE t = NoRule /\ w = NoRule

(* Mutant: the counter is reset only by a trap that is not empty.           *)
ResetTrap_Late(k, t) == [untilTrap EXCEPT ![k] = IF t = NoRule THEN 0 ELSE TrapSpan]
ResetTrap(k, t) == [untilTrap EXCEPT ![k] = TrapSpan]

Trap(k, t, w) ==
    IF untilTrap[k] - 1 < 1
    THEN TrapResult(k, t, w, failLog') /\ untilTrap' = ResetTrap(k, t)
    ELSE /\ t = NoRule /\ w = NoRule
         /\ untilTrap' = [untilTrap EXCEPT ![k] = @ - 1]

-------------------------------------------------------------------------------
(* Results, verdict and cases.                                             *)

(* Each rule of the kit is tested and its result logged.                    *)
Test(k, out) ==
    /\ bindex' = [r \in Rules |-> IF KitOf[r] = k THEN Bindex(r, out[r]) ELSE bindex[r]]
    /\ failLog' = [r \in Rules |->
           IF KitOf[r] = k
           THEN [i \in 1 .. TrapSpan |-> IF i = 1 THEN bindex'[r] = 0 ELSE failLog[r][i - 1]]
           ELSE failLog[r]]

(* The failures, in the order of the tests, are multiplied element by       *)
(* element with the marks of the pinned rules, in the order of the logs.    *)
PinnedFailed(k, failed) ==
    \E q \in failed, r \in RulesOf(k) \cap Pinned : TestPlace[q] = LogPlace[r]

FailedNow(k) == {r \in RulesOf(k) : FailedInAnyMode(bindex[r])}

(* SubmitTrueIfGotFailOnPinnedRule                                          *)
(* Mutant: a history one cycle short.                                       *)
Recent_Short(h) == {i \in 1 .. History - 1 : h[i]}
Recent(h) == {i \in 1 .. History : h[i]}

Submit(k) ==
    /\ history' = [history EXCEPT ![k] =
           [i \in 1 .. History |-> IF i = 1 THEN PinnedFailed(k, FailedNow(k)')
                                            ELSE history[k][i - 1]]]
    /\ outputOkay' = (\A q \in Kits : Recent(history'[q]) = {})

(* GenerateAndSaySgiForNewCase                                              *)
SerialAfter(sgi) == IF sgi < SgiWrap THEN sgi + 1 ELSE sgi
Serial(sgi)      == IF sgi < SgiWrap THEN sgi ELSE 1

(* CreateAndOwnCase; the CCase puts its rule to case mode.                  *)
(* Mutant: the limit of the case kit is off by one.                         *)
HasRoom_OneMore == Cardinality(cases) <= MaxCases
HasRoom == Cardinality(cases) < MaxCases

CaseModeSet(t) == [caseMode EXCEPT ![t] = TRUE]

OpenCase(t) ==
    /\ cases' = cases \cup {[rule |-> t, set |-> setSgi'[t], sgi |-> Serial(nextSgi)]}
    /\ nextSgi' = SerialAfter(nextSgi)
    /\ caseMode' = CaseModeSet(t)

(* The end of CRuleKit::Cycle: a case only for a rule in auto mode, if the  *)
(* case kit has room; the flag is lowered in either case.                   *)
ActOnTrap(k, t) ==
    IF t = NoRule \/ ~InAutoMode(t) THEN UNCHANGED <<casekit, caseMode, allIdle>>
    ELSE /\ allIdle' = [allIdle EXCEPT ![k] = FALSE]
         /\ IF HasRoom THEN OpenCase(t) ELSE UNCHANGED <<casekit, caseMode>>

-------------------------------------------------------------------------------
(* The steps.                                                              *)

Init ==
    /\ caseMode = [r \in Rules |-> FALSE]
    /\ idleMode = [r \in Rules |-> FALSE]
    /\ allIdle = [k \in Kits |-> FALSE]
    /\ bindex = [r \in Rules |-> Unavailable]
    /\ failLog = [r \in Rules |-> [i \in 1 .. TrapSpan |-> FALSE]]
    /\ untilTrap = [k \in Kits |-> TrapSpan]
    /\ setSgi = [r \in Rules |-> 0]
    /\ held = {} /\ leaked = FALSE
    /\ cases = {} /\ nextSgi = 1
    /\ history = [k \in Kits |-> [i \in 1 .. History |-> FALSE]]
    /\ outputOkay = TRUE
    /\ trapped = NoRule /\ wiped = NoRule

(* CRuleKit::Cycle on the outcomes of the tests, with the rules that fail   *)
(* in auto mode, the numbers of their sets and the rules t trapped, w wiped. *)
CycleWith(k, out, failing, number, t, w) ==
    /\ Test(k, out)
    /\ Capture(failing, number)
    /\ Submit(k)
    /\ Trap(k, t, w)
    /\ ActOnTrap(k, t)
    /\ Keep((held \cup Range(number)) \ Destroyed(w))
    /\ trapped' = t /\ wiped' = w
    /\ UNCHANGED idleMode

Failing(k, out) == {r \in RulesOf(k) : Bindex(r, out[r]) = 0}

Cycle(k) ==
    \E out \in [RulesOf(k) -> Outcomes], t, w \in RulesOf(k) \cup {NoRule} :
        /\ Numberings(Failing(k, out)) # {}
        /\ CycleWith(k, out, Failing(k, out),
                     CHOOSE n \in Numberings(Failing(k, out)) : TRUE, t, w)

(* SetIdleModeTo: a rule in case mode does not go idle.                     *)
(* Mutant: case mode is not looked at.                                      *)
IdleModeSet_Any(r, wanted) == wanted
IdleModeSet(r, wanted) == wanted /\ ~caseMode[r]

(* The knob of one rule.                                                    *)
SetRuleIdle(r, wanted) ==
    /\ idleMode' = [idleMode EXCEPT ![r] = IdleModeSet(r, wanted)]
    /\ UNCHANGED <<caseMode, allIdle, results, snapshots, casekit>>

(* IdleAllRulesNotInCaseMode: the knob of the kit.                          *)
SetAllIdle(k, wanted) ==
    /\ idleMode' = [r \in Rules |->
                        IF KitOf[r] = k THEN IdleModeSet(r, wanted) ELSE idleMode[r]]
    /\ allIdle' = [allIdle EXCEPT ![k] = wanted]
    /\ UNCHANGED <<caseMode, results, snapshots, casekit>>

(* DestroyCase with ~CCase: the user has the case deleted or reports its    *)
(* fault fixed; the rule goes back to auto mode.                            *)
(* Mutant: the rule is left in case mode.                                   *)
CaseModeReset_Not(r) == caseMode
CaseModeReset(r) == [caseMode EXCEPT ![r] = FALSE]

DestroyCase(c) ==
    /\ cases' = cases \ {c}
    /\ caseMode' = CaseModeReset(c.rule)
    /\ setSgi' = setSgi
    /\ Keep(held)
    /\ UNCHANGED <<idleMode, allIdle, results, nextSgi>>

Next ==
    \/ \E k \in Kits : Cycle(k)
    \/ \E r \in Rules, wanted \in BOOLEAN : SetRuleIdle(r, wanted)
    \/ \E k \in Kits, wanted \in BOOLEAN : SetAllIdle(k, wanted)
    \/ \E c \in cases : DestroyCase(c)

Spec == Init /\ [][Next]_vars

(* The driver keeps feeding time steps; the user need not do anything.      *)
FairSpec == Spec /\ \A k \in Kits : WF_vars(Cycle(k))
-------------------------------------------------------------------------------
(* Properties.                                                             *)

(* Every variable has its type.                                            *)
TypeOK ==
    /\ caseMode \in [Rules -> BOOLEAN] /\ idleMode \in [Rules -> BOOLEAN]
    /\ allIdle \in [Kits -> BOOLEAN]
    /\ bindex \in [Rules -> Nat]
    /\ failLog \in [Rules -> [1 .. TrapSpan -> BOOLEAN]]
    /\ untilTrap \in [Kits -> 1 .. TrapSpan]
    /\ setSgi \in [Rules -> Sets \cup {0}]
    /\ held \subseteq Sets /\ leaked \in BOOLEAN
    /\ cases \subseteq [rule : Rules, set : Sets, sgi : Nat \ {0}]
    /\ nextSgi \in Nat \ {0}
    /\ history \in [Kits -> [1 .. History -> BOOLEAN]]
    /\ outputOkay \in BOOLEAN
    /\ trapped \in Rules \cup {NoRule} /\ wiped \in Rules \cup {NoRule}

(* Every result of a rule is in the tables it is looked up in for display   *)
(* and histograms: no order of knobs, traps and closed cases gives a rule   *)
(* both modes, whose offsets add up to more than the tables hold.           *)
ResultsInTable == \A r \in Rules : bindex[r] \in Bins /\ ~(caseMode[r] /\ idleMode[r])

(* A rule is in case mode exactly while it has a case, and has only one:    *)
(* no rule is left muted by a case that is gone, nor gets a second case.    *)
CaseModeMeansCase ==
    \A r \in Rules : /\ caseMode[r] <=> CasesOn(r) # {}
                     /\ \A c, d \in CasesOn(r) : c = d

(* The data a case shows exists as long as the case: neither a wipe by a    *)
(* later trap nor a new failure of the rule takes it away.                  *)
CaseKeepsSnapshot == \A c \in cases : c.set \in held

(* The case kit never owns more cases than its limit.                       *)
CasesWithinLimit == Cardinality(cases) <= MaxCases

(* The auto-mode failures of a kit i - 1 cycles ago.                        *)
FailedBefore(k, i) == {r \in RulesOf(k) : failLog[r][i]}

(* So many that pinned rules must be among them.                            *)
OutnumberUnpinned(k, failed) ==
    Cardinality(failed) + Cardinality(RulesOf(k) \cap Pinned) > Cardinality(RulesOf(k))

(* While more rules of a kit fail than it has rules not pinned to the unit  *)
(* output, in whatever mode, or did in auto mode within the history kept,   *)
(* the output of the subject is not said to be okay: whatever the orders of *)
(* the tables, some failure meets the mark of a pinned rule.  Of a kit that *)
(* has all its rules pinned, every failure shows.                           *)
EnoughFailuresShow ==
    \A k \in Kits :
        \/ OutnumberUnpinned(k, FailedNow(k))
        \/ \E i \in 1 .. TrapSpan : i <= History /\ OutnumberUnpinned(k, FailedBefore(k, i))
        => ~outputOkay

(* Claim of the pins: a pinned rule must be passed or skipped for the       *)
(* output of its subject to be okay.  So while the newest result of one is  *)
(* a failure in whatever mode, the output is not said to be okay.           *)
PinnedFailureShows ==
    \A r \in Pinned : FailedInAnyMode(bindex[r]) => ~outputOkay

(* A rule is trapped, with an alert, only if it is in auto mode; and then a *)
(* case on it is opened unless the case kit is full.                        *)
AlertMeansCase ==
    [][trapped' # trapped /\ trapped' # NoRule =>
           /\ InAutoMode(trapped')
           /\ Cardinality(cases) < MaxCases =>
                  \E c \in cases' \ cases : c.rule = trapped']_vars

(* A rule that goes on failing in auto mode does not go unheard: alerts are *)
(* raised again and again, also while the case kit is full.                 *)
NoSilentFailure ==
    \A r \in Rules : <>[](bindex[r] = 0) => []<>(trapped # NoRule)

(* Claim of the wiping of snapshots: no set is left with no way to          *)
(* eliminate it.                                                            *)
NoSetLeaks == ~leaked
===============================================================================

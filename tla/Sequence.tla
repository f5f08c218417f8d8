------------------------------- MODULE Sequence -------------------------------
(***************************************************************************)
(* One step of the surveillance (CSequence::Trigger, sequence.cpp): the    *)
(* objects that turn samples into facts - points, formulas, charts,        *)
(* processes, facts - are triggered class by class in laps, each lap one   *)
(* trigger group further in every class, and the rule kits come last.      *)
(*                                                                         *)
(* What an object computes is left out.  Of its value the model keeps how  *)
(* many steps behind the samples it is: the lag of an object that cycles   *)
(* is the largest lag of what it reads at that moment.  An object that     *)
(* reads one which has not been triggered yet in this step takes over      *)
(* the result, and the validity, of the step before.                       *)
(*                                                                         *)
(* Every object cycles each time it is triggered (triggersPerCycle is 1    *)
(* wherever the tool sets it).                                             *)
(***************************************************************************)
EXTENDS Integers, FiniteSets, FiniteSetsExt

CONSTANTS Obj,          \* ISeqElement objects, and the rules of the kits
          Class,        \* vector of the sequence that holds the object
          Operands,     \* objects it was constructed with as operands
          Reads,        \* objects its value is computed from
          MayFail,      \* objects that can turn invalid on their own
          TriggerGroup, \* ownTriggerGroup
          Lateness,     \* steps the value of an object may be late, where known
          MaxLap,       \* bound of the laps, beyond the deepest group
          MaxLag        \* bound of the lags

Classes   == 0 .. 4     \* points, formulas, charts, processes, facts
RuleClass == 5          \* rules, in the turn of their kits
LapEnd    == 5
Kits      == 6
Idle      == 7

(* BASETRIGGRP_POINT to BASETRIGGRP_FACT *)
BaseTriggerGroup(c) == c + 1

InClass(c) == {o \in Obj : Class[o] = c}
SeqObj     == {o \in Obj : Class[o] \in Classes}
Rules      == InClass(RuleClass)

(* CalcOwnTriggerGroup(): the base group of the class, or one more than the *)
(* highest group among the operands when that is not lower.                 *)
CalcOwnTriggerGroup(o, group) ==
    LET base == BaseTriggerGroup(Class[o])
    IN  \/ /\ \A i \in Operands[o] : group[i] < base
           /\ group[o] = base
        \/ \E i \in Operands[o] :
              /\ group[i] >= base
              /\ \A j \in Operands[o] : group[j] <= group[i]
              /\ group[o] = group[i] + 1

LapOf(o) == TriggerGroup[o] - BaseTriggerGroup(Class[o])

(* The step triggers i before o. *)
Before(i, o) == \/ o \in Rules /\ i \in SeqObj
                \/ /\ i \in SeqObj /\ o \in SeqObj
                   /\ \/ LapOf(i) < LapOf(o)
                      \/ LapOf(i) = LapOf(o) /\ Class[i] < Class[o]

(* Objects that see the samples of this step: everything they read comes    *)
(* before them and does so too.                                             *)
Timely[o \in Obj] ==
    Reads[o] \subseteq Operands[o] /\ \A i \in Reads[o] : Before(i, o) /\ Timely[i]

TimelyObj == {o \in Obj : Timely[o]}

(* Objects that are always valid: nothing below them can fail.              *)
Sound[o \in Obj] == o \notin MayFail /\ \A i \in Operands[o] : Sound[i]

ASSUME NetworkAssumption ==
    /\ IsFiniteSet(Obj)
    /\ Class \in [Obj -> 0 .. RuleClass]
    /\ Operands \in [Obj -> SUBSET SeqObj] /\ Reads \in [Obj -> SUBSET Obj]
    /\ MayFail \subseteq SeqObj
ASSUME GroupsAssumption ==
    /\ TriggerGroup \in [Obj -> Nat]
    /\ \A o \in SeqObj : CalcOwnTriggerGroup(o, TriggerGroup)
ASSUME LapsAssumption == MaxLap \in Nat \ {0} /\ \A o \in SeqObj : LapOf(o) < MaxLap
ASSUME LagAssumption  == MaxLag \in Nat \ {0}
(* Objects triggered in one turn do not read one another. *)
ASSUME TurnAssumption ==
    \A o \in Obj : \A i \in Reads[o] \union Operands[o] :
        Class[i] = Class[o] => Class[o] # RuleClass /\ LapOf(i) # LapOf(o)
(* An object of known lateness reads valid values of known lateness, and is *)
(* as late as they are, one step more where it comes before them.           *)
ASSUME LatenessAssumption ==
    /\ Lateness \in [DOMAIN Lateness -> Nat] /\ DOMAIN Lateness \subseteq Obj
    /\ \A o \in DOMAIN Lateness : \A i \in Reads[o] :
          /\ i \in DOMAIN Lateness
          /\ i \in Operands[o] \/ i \in Rules \/ Sound[i]
          /\ Lateness[o] >= Lateness[i] + (IF Before(i, o) THEN 0 ELSE 1)

VARIABLES
    lap,                \* lapIncrement
    turn,               \* class being triggered, or the phase after them
    objectsTriggered,   \* objects triggered in this step, per class
    fired,              \* which objects those are
    valid,              \* validNow
    lag                 \* steps the value is behind the newest samples

vars == <<lap, turn, objectsTriggered, fired, valid, lag>>

Init ==
    /\ lap = 0 /\ turn = Idle
    /\ objectsTriggered = [c \in Classes |-> 0]
    /\ fired = Obj
    /\ valid = [o \in Obj |-> TRUE]
    /\ lag = [o \in Obj |-> 0]

-------------------------------------------------------------------------------
(* An object cycles.                                                        *)

(* Mutant: one valid operand is enough.                                     *)
PullValidity_Any(o) == Operands[o] = {} \/ \E i \in Operands[o] : valid[i]

PullValidity(o) == \A i \in Operands[o] : valid[i]

(* A rule whose data are invalid goes untested and reports nothing.         *)
LagOfReads(o) ==
    Max({0} \union {lag[i] : i \in {r \in Reads[o] : r \in Rules => valid[r]}})

(* Trigger() of the objects in S, none of them triggered before, and with   *)
(* it Cycle(): an object that is or turns invalid holds the value it had.   *)
Cycle(S) ==
    /\ fired' = fired \union S
    /\ \E failing \in SUBSET (MayFail \intersect S) :
          LET cycles(o)  == o \in fired' \ fired
              correct(o) == PullValidity(o) /\ o \notin failing
          IN  /\ valid' = [o \in Obj |-> IF cycles(o) THEN correct(o) ELSE valid[o]]
              /\ lag' = [o \in Obj |-> IF cycles(o) /\ correct(o) THEN LagOfReads(o)
                                                               ELSE lag[o]]

-------------------------------------------------------------------------------
(* One step.                                                                *)

(* HearTaskBell(), with new samples in the data channels. *)
RingTaskBell ==
    /\ turn = Idle
    /\ lap' = 0 /\ turn' = 0
    /\ objectsTriggered' = [c \in Classes |-> 0]
    /\ fired' = {}
    /\ lag' = [o \in Obj |-> IF lag[o] < MaxLag THEN lag[o] + 1 ELSE MaxLag]
    /\ UNCHANGED valid

AllTriggered(c) == objectsTriggered[c] = Cardinality(InClass(c))

(* Mutant: the trigger group of an object is not looked at.                 *)
Targeted_All(c) == InClass(c) \ fired

Targeted(c) == {o \in InClass(c) : TriggerGroup[o] = BaseTriggerGroup(c) + lap}

TriggerClass(c) ==
    /\ turn = c
    /\ turn' = c + 1
    /\ IF AllTriggered(c)
       THEN UNCHANGED <<objectsTriggered, fired, valid, lag>>
       ELSE /\ Cycle(Targeted(c))
            /\ objectsTriggered' =
                  [objectsTriggered EXCEPT ![c] = @ + Cardinality(Targeted(c))]
    /\ UNCHANGED lap

(* std::accumulate over the five classes *)
Total(count) == count[0] + count[1] + count[2] + count[3] + count[4]

(* Mutant: the step is over when one class is complete.                     *)
AllObjectsUpdated_Any == \E c \in Classes : AllTriggered(c)
(* Mutant: the rules are counted among the objects to trigger.              *)
AllObjectsUpdated_Rules ==
    Total(objectsTriggered) = Cardinality(Obj)

AllObjectsUpdated ==
    Total(objectsTriggered) = Total([c \in Classes |-> Cardinality(InClass(c))])

EndOfLap ==
    /\ turn = LapEnd
    /\ IF AllObjectsUpdated
       THEN turn' = Kits /\ UNCHANGED lap
       ELSE turn' = 0 /\ lap' = IF lap < MaxLap THEN lap + 1 ELSE MaxLap
    /\ UNCHANGED <<objectsTriggered, fired, valid, lag>>

(* The kits trigger their rules; the verdicts of the pinned ones are what   *)
(* IsUnitOutputOkay() tells until the next step.                            *)
TriggerRuleKits ==
    /\ turn = Kits
    /\ turn' = Idle
    /\ Cycle(Rules)
    /\ UNCHANGED <<lap, objectsTriggered>>

(* Regen() of a feature on o, which the view calls when the step is over:   *)
(* how late what it shows is, unless it shows that its source is invalid.   *)
Regen(o) == IF valid[o] THEN {lag[o]} ELSE {}

Next == \/ RingTaskBell
        \/ \E c \in Classes : TriggerClass(c)
        \/ EndOfLap
        \/ TriggerRuleKits

(* Trigger() is one loop on the thread that rang the bell. *)
Spec == Init /\ [][Next]_vars /\ WF_vars(turn # Idle /\ Next)

-------------------------------------------------------------------------------
(* Properties.                                                              *)

TypeOK ==
    /\ lap \in 0 .. MaxLap - 1
    /\ turn \in 0 .. Idle
    /\ objectsTriggered \in [Classes -> Nat]
    /\ fired \subseteq Obj
    /\ valid \in [Obj -> BOOLEAN]
    /\ lag \in [Obj -> 0 .. MaxLag]

(* The loop stops on a count (sequence.cpp:235), not on a look at the       *)
(* objects: when it stops every object has been triggered, and when the     *)
(* step is over every rule has been tested.                                 *)
NobodyLeftOut == /\ turn = Kits => SeqObj \subseteq fired
                 /\ turn = Idle => fired = Obj

(* An object whose reads come before it in laps and classes ends up on the  *)
(* samples of this very step, however validity came and went: no held or    *)
(* skipped value slips in between.                                          *)
Fresh == \A o \in fired \intersect TimelyObj : valid[o] => lag[o] = 0

(* A conclusion that stands at the end of a step rests on operands that     *)
(* stand: a held value of an invalid object never counts as a valid one.    *)
ValidRestsOnValid ==
    \A o \in fired : \A i \in Operands[o] :
        valid[o] /\ Before(i, o) => valid[i]

(* Whatever fails, recovers and is held: of what a rule concludes or the    *)
(* user interface shows as valid after a step, nothing is from samples      *)
(* older than the order of the laps accounts for.                           *)
LagBounded ==
    turn = Idle => \A o \in DOMAIN Lateness : \A steps \in Regen(o) : steps <= Lateness[o]

(* Every step comes to its end (sequence.cpp:154, a loop without a bound).  *)
StepEnds == (turn # Idle) ~> (turn = Idle)
===============================================================================

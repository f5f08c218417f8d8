---------------------------- MODULE SequenceProofs ----------------------------
(***************************************************************************)
(* Theorems about Sequence for every network of objects whose trigger      *)
(* groups obey CalcOwnTriggerGroup.                                        *)
(*                                                                         *)
(* The inductive invariant says what the loop has done so far: FiredSoFar  *)
(* that the objects triggered are exactly those whose lap and class the    *)
(* loop has passed, CountsTell that the counts are theirs.  The counts     *)
(* make the loop stop, so that everybody was triggered when it does rests  *)
(* on both; and that a value is fresh rests on FiredSoFar, as it says what *)
(* an object finds when it reads.  How late one is that is not fresh       *)
(* follows from the same (LateInv), and Remaining counts the turns left.   *)
(***************************************************************************)
EXTENDS Sequence, FiniteSetTheorems, WellFoundedInduction, TLAPS

Passed(o) == LapOf(o) < lap \/ (LapOf(o) = lap /\ Class[o] < turn)

FiredSoFar == /\ turn <= LapEnd => fired = {o \in SeqObj : Passed(o)}
              /\ turn = Kits => fired = SeqObj
              /\ turn = Idle => fired = Obj

CountsTell == turn <= LapEnd => \A c \in Classes :
                  objectsTriggered[c] = Cardinality(fired \intersect InClass(c))

IInv == TypeOK /\ FiredSoFar /\ CountsTell /\ Fresh /\ ValidRestsOnValid

-------------------------------------------------------------------------------
(* Lemmas about groups and about the operators of the model.                *)

(* No group is below the base of its class, and an object has a higher      *)
(* group than each of its operands, whatever their classes.                 *)
THEOREM OperandsInLowerGroups ==
    \A o \in SeqObj : /\ TriggerGroup[o] >= BaseTriggerGroup(Class[o])
                      /\ LapOf(o) \in Nat
                      /\ \A i \in Operands[o] : TriggerGroup[i] < TriggerGroup[o]
<1> SUFFICES ASSUME NEW o \in SeqObj
             PROVE  /\ TriggerGroup[o] >= BaseTriggerGroup(Class[o])
                    /\ LapOf(o) \in Nat
                    /\ \A i \in Operands[o] : TriggerGroup[i] < TriggerGroup[o]
  OBVIOUS
<1>1. /\ Class[o] \in Classes /\ o \in Obj
      /\ Operands[o] \subseteq Obj
  BY NetworkAssumption DEF SeqObj
<1>2. \A i \in Obj : TriggerGroup[i] \in Nat
  BY GroupsAssumption
<1>3. BaseTriggerGroup(Class[o]) \in Nat
  BY <1>1 DEF Classes, BaseTriggerGroup
<1>4. CalcOwnTriggerGroup(o, TriggerGroup)
  BY GroupsAssumption
<1>5. /\ TriggerGroup[o] >= BaseTriggerGroup(Class[o])
      /\ \A i \in Operands[o] : TriggerGroup[i] < TriggerGroup[o]
  BY <1>1, <1>2, <1>3, <1>4 DEF CalcOwnTriggerGroup
<1> QED
  BY <1>1, <1>2, <1>3, <1>5 DEF LapOf

IsConjunction(f, own, below) == f = [o \in Obj |-> own[o] /\ \A i \in below[o] : f[i]]

(* Timely and Sound are conjunctions over objects of a lower rank, so these  *)
(* functions exist: were there a rank below which no function does as it    *)
(* should, one for the rank before the least such could be extended.        *)
LEMMA ConjunctionExists ==
    ASSUME NEW own, NEW below, NEW rank \in [Obj -> Nat], NEW top \in Nat,
           \A o \in Obj : rank[o] < top,
           \A o \in Obj : \A i \in below[o] : i \in Obj /\ rank[i] < rank[o]
    PROVE  \E f : IsConjunction(f, own, below)
<1> DEFINE Body(f, o) == own[o] /\ \A i \in below[o] : f[i]
           Good(f, n) == \A o \in Obj : rank[o] < n => f[o] = Body(f, o)
           Bad == {n \in Nat : ~ \E f : Good(f, n)}
<1>0. ASSUME NEW f, NEW g, NEW o \in Obj, \A i \in Obj : rank[i] < rank[o] => f[i] = g[i]
      PROVE  Body(f, o) = Body(g, o)
  BY <1>0
<1> HIDE DEF Body
<1>1. Bad = {}
  <2>1. SUFFICES ASSUME Bad # {} PROVE FALSE
    OBVIOUS
  <2>2. PICK n \in Bad : \A m \in Nat : m < n => m \notin Bad
    <3>1. Bad \subseteq Nat
      OBVIOUS
    <3> HIDE DEF Bad
    <3>2. PICK n \in Bad : \A m \in Bad : ~ (<<m, n>> \in OpToRel(<, Nat))
      BY <2>1, <3>1, NatLessThanWellFounded, WFMin
    <3> QED
      BY <3>1, <3>2 DEF OpToRel
  <2>3. n \in Nat /\ n # 0
    <3>1. Good([o \in Obj |-> 0], 0)
      OBVIOUS
    <3> QED
      BY <3>1
  <2>4. PICK f : Good(f, n - 1)
    BY <2>2, <2>3
  <2> DEFINE g == [o \in Obj |-> IF rank[o] < n - 1 THEN f[o] ELSE Body(f, o)]
  <2>5. Good(g, n)
    <3> SUFFICES ASSUME NEW o \in Obj, rank[o] < n PROVE g[o] = Body(g, o)
      OBVIOUS
    <3>1. \A i \in Obj : rank[i] < rank[o] => g[i] = f[i]
      BY <2>3
    <3>2. Body(g, o) = Body(f, o)
      <4> HIDE DEF g
      <4> QED
        BY <1>0, <3>1
    <3>3. rank[o] < n - 1 => f[o] = Body(f, o)
      BY <2>4
    <3> QED
      BY <3>2, <3>3
  <2> QED
    BY <2>2, <2>3, <2>5
<1>2. PICK f : Good(f, top)
  BY <1>1
<1> DEFINE h == [o \in Obj |-> f[o]]
<1>3. ASSUME NEW o \in Obj PROVE h[o] = Body(h, o)
  <2>1. \A i \in Obj : h[i] = f[i]
    OBVIOUS
  <2>2. Body(h, o) = Body(f, o)
    <3> HIDE DEF h
    <3> QED
      BY <1>0, <2>1
  <2> QED
    BY <1>2, <2>2
<1>4. h = [o \in Obj |-> Body(h, o)]
  BY <1>3
<1> QED
  BY <1>4 DEF Body, IsConjunction

(* What Timely and Sound say of one object and of those below it.           *)
LEMMA TimelyRecursion ==
    \A o \in Obj : Timely[o] = (Reads[o] \subseteq Operands[o]
                                /\ \A i \in Reads[o] : Before(i, o) /\ Timely[i])
<1> DEFINE Body(f, o) == Reads[o] \subseteq Operands[o]
                         /\ \A i \in Reads[o] : Before(i, o) /\ f[i]
           own   == [o \in Obj |-> Reads[o] \subseteq Operands[o]
                                   /\ \A i \in Reads[o] : Before(i, o)]
           below == [o \in Obj |-> {i \in Reads[o] : Before(i, o)}]
           rank  == [o \in Obj |-> IF o \in SeqObj THEN LapOf(o) * 5 + Class[o] ELSE MaxLap * 5]
<1>1. rank \in [Obj -> Nat] /\ \A o \in Obj : rank[o] < MaxLap * 5 + 1
  <2>1. ASSUME NEW o \in SeqObj
        PROVE  LapOf(o) * 5 + Class[o] \in Nat /\ LapOf(o) * 5 + Class[o] < MaxLap * 5
    <3>1. LapOf(o) \in Nat /\ MaxLap \in Nat /\ LapOf(o) < MaxLap /\ Class[o] \in 0 .. 4
      BY OperandsInLowerGroups, LapsAssumption DEF SeqObj, Classes
    <3> QED
      BY <3>1
  <2> QED
    BY <2>1, LapsAssumption
<1>2. ASSUME NEW o \in Obj, NEW i \in below[o]
      PROVE  i \in Obj /\ rank[i] < rank[o]
  <2>1. i \in SeqObj /\ i \in Obj /\ Before(i, o)
    BY DEF Before, SeqObj
  <2>2. LapOf(i) \in Nat /\ MaxLap \in Nat /\ LapOf(i) < MaxLap /\ Class[i] \in 0 .. 4
    BY <2>1, OperandsInLowerGroups, LapsAssumption DEF SeqObj, Classes
  <2>3. CASE o \in SeqObj
    <3>1. LapOf(o) \in Nat /\ Class[o] \in 0 .. 4 /\ o \notin Rules
      BY <2>3, OperandsInLowerGroups DEF SeqObj, Classes, Rules, InClass, RuleClass
    <3> QED
      BY <2>1, <2>2, <2>3, <3>1 DEF Before
  <2>4. CASE o \notin SeqObj
    BY <2>1, <2>2, <2>4
  <2> QED
    BY <2>3, <2>4
<1>3. \E f : IsConjunction(f, own, below)
  <2> DEFINE top == MaxLap * 5 + 1
  <2>1. top \in Nat /\ rank \in [Obj -> Nat] /\ \A o \in Obj : rank[o] < top
    BY <1>1, LapsAssumption
  <2>2. \A o \in Obj : \A i \in below[o] : i \in Obj /\ rank[i] < rank[o]
    BY <1>2
  <2> HIDE DEF own, below, rank, top
  <2> QED
    BY <2>1, <2>2, ConjunctionExists
<1>4. PICK f : f = [o \in Obj |-> own[o] /\ \A i \in below[o] : f[i]]
  BY <1>3 DEF IsConjunction
<1>5. \A o \in Obj : (own[o] /\ \A i \in below[o] : f[i]) = Body(f, o)
  OBVIOUS
<1>6. f = [o \in Obj |-> Body(f, o)]
  <2> HIDE DEF own, below
  <2> QED
    BY <1>4, <1>5
<1>7. Timely = [o \in Obj |-> Body(Timely, o)]
  BY <1>6, Zenon DEF Timely
<1> QED
  BY <1>7

(* An object is sound if it does not fail and its operands, which are in    *)
(* lower groups, are sound.                                                 *)
LEMMA SoundRecursion ==
    \A o \in Obj : Sound[o] = (o \notin MayFail /\ \A i \in Operands[o] : Sound[i])
<1> DEFINE Body(f, o) == o \notin MayFail /\ \A i \in Operands[o] : f[i]
           own   == [o \in Obj |-> o \notin MayFail]
           rank  == [o \in Obj |-> IF o \in SeqObj THEN TriggerGroup[o] ELSE MaxLap + 5]
<1>1. rank \in [Obj -> Nat] /\ \A o \in Obj : rank[o] < MaxLap + 6
  <2>1. ASSUME NEW o \in SeqObj
        PROVE  TriggerGroup[o] \in Nat /\ TriggerGroup[o] < MaxLap + 5
    <3>1. /\ TriggerGroup[o] \in Nat /\ MaxLap \in Nat /\ Class[o] \in 0 .. 4
          /\ LapOf(o) < MaxLap
      BY GroupsAssumption, LapsAssumption DEF SeqObj, Classes
    <3> QED
      BY <3>1 DEF LapOf, BaseTriggerGroup
  <2> QED
    BY <2>1, LapsAssumption
<1>2. ASSUME NEW o \in Obj, NEW i \in Operands[o]
      PROVE  i \in Obj /\ rank[i] < rank[o]
  <2>1. i \in SeqObj /\ i \in Obj
    BY NetworkAssumption DEF SeqObj
  <2>2. CASE o \in SeqObj
    BY <2>1, <2>2, OperandsInLowerGroups
  <2>3. CASE o \notin SeqObj
    <3>1. /\ TriggerGroup[i] \in Nat /\ MaxLap \in Nat /\ Class[i] \in 0 .. 4
          /\ LapOf(i) < MaxLap
      BY <2>1, GroupsAssumption, LapsAssumption DEF SeqObj, Classes
    <3>2. TriggerGroup[i] < MaxLap + 5
      BY <3>1 DEF LapOf, BaseTriggerGroup
    <3> QED
      BY <2>1, <2>3, <3>2
  <2> QED
    BY <2>2, <2>3
<1>3. \E f : IsConjunction(f, own, Operands)
  <2> DEFINE top == MaxLap + 6
  <2>1. top \in Nat /\ rank \in [Obj -> Nat] /\ \A o \in Obj : rank[o] < top
    BY <1>1, LapsAssumption
  <2>2. \A o \in Obj : \A i \in Operands[o] : i \in Obj /\ rank[i] < rank[o]
    BY <1>2
  <2> HIDE DEF own, rank, top
  <2> QED
    BY <2>1, <2>2, ConjunctionExists
<1>4. PICK f : f = [o \in Obj |-> own[o] /\ \A i \in Operands[o] : f[i]]
  BY <1>3 DEF IsConjunction
<1>5. f = [o \in Obj |-> Body(f, o)]
  BY <1>4
<1>6. Sound = [o \in Obj |-> Body(Sound, o)]
  BY <1>5, Zenon DEF Sound
<1> QED
  BY <1>6

(* Max of a finite set of numbers is one of them. *)
LEMMA MaxIsMember ==
    ASSUME NEW S, IsFiniteSet(S), S # {}, S \subseteq Nat
    PROVE  Max(S) \in S
<1> DEFINE T == {U \in FiniteSubsetsOf(S) :
                    U # {} /\ ~ \E x \in U : \A y \in U : x >= y}
<1>1. T = {}
  <2>1. SUFFICES ASSUME T # {} PROVE FALSE
    OBVIOUS
  <2>2. PICK U \in T : \A V \in T : ~ <<V, U>> \in StrictSubsetOrdering(S)
    <3>1. T \subseteq FiniteSubsetsOf(S)
      OBVIOUS
    <3> QED
      BY <2>1, <3>1, WFMin, FS_StrictSubsetOrderingWellFounded
  <2>3. PICK x \in U : TRUE
    BY <2>2
  <2>4. U \subseteq Nat /\ U \subseteq S /\ IsFiniteSet(U)
    BY <2>2 DEF FiniteSubsetsOf
  <2> DEFINE V == U \ {x}
  <2>5. V \in FiniteSubsetsOf(S) /\ <<V, U>> \in StrictSubsetOrdering(S)
    <3>1. IsFiniteSet(V) /\ V \subseteq S
      BY <2>4, FS_RemoveElement
    <3> QED
      BY <2>3, <2>4, <3>1 DEF FiniteSubsetsOf, StrictSubsetOrdering
  <2>6. V = {} \/ \E y \in V : \A z \in V : y >= z
    BY <2>2, <2>5
  <2>7. \E y \in U : \A z \in U : y >= z
    <3>1. CASE V = {}
      BY <2>3, <2>4, <3>1
    <3>2. CASE \E y \in V : \A z \in V : y >= z
      <4>1. PICK y \in V : \A z \in V : y >= z
        BY <3>2
      <4>2. CASE x >= y
        BY <2>3, <2>4, <4>1, <4>2
      <4>3. CASE ~(x >= y)
        BY <2>3, <2>4, <4>1, <4>3
      <4> QED
        BY <4>2, <4>3
    <3> QED
      BY <2>6, <3>1, <3>2
  <2> QED
    BY <2>2, <2>7
<1>2. S \in FiniteSubsetsOf(S)
  BY DEF FiniteSubsetsOf
<1>3. \E x \in S : \A y \in S : x >= y
  BY <1>1, <1>2
<1> QED
  BY <1>3 DEF Max

(* LagOfReads is a lag. *)
LEMMA LagOfReadsType ==
    ASSUME TypeOK, NEW o \in Obj
    PROVE  LagOfReads(o) \in 0 .. MaxLag
<1> DEFINE R == {r \in Reads[o] : r \in Rules => valid[r]}
           S == {0} \union {lag[i] : i \in R}
<1>1. R \subseteq Obj /\ IsFiniteSet(R)
  <2>1. Reads[o] \subseteq Obj /\ IsFiniteSet(Obj)
    BY NetworkAssumption
  <2> QED
    BY <2>1, FS_Subset
<1>2. \A i \in R : lag[i] \in 0 .. MaxLag
  BY <1>1 DEF TypeOK
<1>3. MaxLag \in Nat
  BY LagAssumption
<1>4. S \subseteq 0 .. MaxLag /\ S # {} /\ S \subseteq Nat
  BY <1>2, <1>3
<1>5. IsFiniteSet(S)
  <2>1. IsFiniteSet(0 .. MaxLag)
    BY <1>3, FS_Interval
  <2> HIDE DEF S
  <2> QED
    BY <1>4, <2>1, FS_Subset
<1>6. Max(S) \in S
  <2> HIDE DEF S
  <2> QED
    BY <1>4, <1>5, MaxIsMember
<1> QED
  BY <1>4, <1>6 DEF LagOfReads

(* Objects that cycle when all that comes before them has cycled keep the   *)
(* fresh and the valid apart from the rest.                                 *)
LEMMA CycleInOrder ==
    ASSUME TypeOK, Fresh, ValidRestsOnValid,
           NEW S, S \subseteq Obj, S \intersect fired = {},
           \A o \in fired \union S : \A i \in Obj : Before(i, o) => i \in fired,
           Cycle(S)
    PROVE  /\ valid' \in [Obj -> BOOLEAN] /\ lag' \in [Obj -> 0 .. MaxLag]
           /\ fired' = fired \union S /\ fired' \subseteq Obj
           /\ Fresh' /\ ValidRestsOnValid'
<1>1. PICK failing \in SUBSET (MayFail \intersect S) :
        /\ valid' = [o \in Obj |-> IF o \in S THEN PullValidity(o) /\ o \notin failing
                                  ELSE valid[o]]
        /\ lag' = [o \in Obj |-> IF o \in S /\ PullValidity(o) /\ o \notin failing
                                THEN LagOfReads(o) ELSE lag[o]]
        /\ fired' = fired \union S
  <2>1. fired' = fired \union S
    BY DEF Cycle
  <2>2. \A o : o \in fired' \ fired <=> o \in S
    BY <2>1
  <2> QED
    BY <2>1, <2>2 DEF Cycle
<1>2. /\ valid \in [Obj -> BOOLEAN] /\ lag \in [Obj -> 0 .. MaxLag]
      /\ fired \subseteq Obj
  BY DEF TypeOK
<1>5. valid' \in [Obj -> BOOLEAN]
  <2>1. \A o \in Obj : (PullValidity(o) /\ o \notin failing) \in BOOLEAN
    BY DEF PullValidity
  <2> QED
    BY <1>1, <1>2, <2>1
<1>6. lag' \in [Obj -> 0 .. MaxLag]
  BY <1>1, <1>2, LagOfReadsType
<1>7. Fresh'
  <2> SUFFICES ASSUME NEW o \in fired', o \in TimelyObj, valid'[o]
               PROVE  lag'[o] = 0
    BY DEF Fresh
  <2>0. o \in Obj
    BY DEF TimelyObj
  <2>1. CASE o \notin S
    BY <1>1, <2>0, <2>1 DEF Fresh
  <2>2. CASE o \in S
    <3>1. PullValidity(o) /\ o \notin failing
      BY <1>1, <2>0, <2>2
    <3>2. /\ Reads[o] \subseteq Operands[o] /\ Operands[o] \subseteq Obj
          /\ \A i \in Reads[o] : Before(i, o) /\ i \in TimelyObj
      BY <2>0, TimelyRecursion, NetworkAssumption DEF TimelyObj, SeqObj
    <3>3. \A i \in Reads[o] : i \in fired /\ valid[i]
      BY <2>2, <3>1, <3>2 DEF PullValidity
    <3>4. \A i \in Reads[o] : lag[i] = 0
      BY <3>2, <3>3 DEF Fresh
    <3> DEFINE R == {0} \union {lag[i] : i \in {r \in Reads[o] : r \in Rules => valid[r]}}
    <3>5. R = {0}
      BY <3>4
    <3>6. Max(R) \in R
      <4>1. {0} # {} /\ {0} \subseteq Nat /\ IsFiniteSet({0})
        <5>1. IsFiniteSet({0})
          BY FS_Singleton, Zenon
        <5>2. {0} # {} /\ {0} \subseteq Nat
          OBVIOUS
        <5> QED
          BY <5>1, <5>2
      <4> DEFINE Z == {0}
      <4>2. Max(Z) \in Z
        <5> HIDE DEF Z
        <5>1. Z # {} /\ Z \subseteq Nat /\ IsFiniteSet(Z)
          BY <4>1 DEF Z
        <5> QED
          BY <5>1, MaxIsMember
      <4> QED
        BY <3>5, <4>2
    <3>7. LagOfReads(o) = 0
      BY <3>5, <3>6 DEF LagOfReads
    <3> QED
      BY <1>1, <2>0, <2>2, <3>1, <3>7
  <2> QED
    BY <2>1, <2>2
<1>8. ValidRestsOnValid'
  <2> SUFFICES ASSUME NEW o \in fired', NEW i \in Operands[o], valid'[o], Before(i, o)
               PROVE  valid'[i]
    BY DEF ValidRestsOnValid, Before, LapOf, SeqObj, Rules, InClass
  <2>1. o \in Obj /\ i \in Obj
    BY <1>1, <1>2, NetworkAssumption DEF SeqObj
  <2>2. i \in fired /\ i \notin S
    BY <1>1, <2>1
  <2>3. valid[i]
    BY <1>1, <2>1 DEF ValidRestsOnValid, PullValidity
  <2> QED
    BY <1>1, <2>1, <2>2, <2>3
<1> QED
  BY <1>1, <1>2, <1>5, <1>6, <1>7, <1>8

(* What comes before an object the loop has passed has been passed. *)
LEMMA PassedInOrder ==
    ASSUME NEW o \in SeqObj, NEW i \in SeqObj, lap \in Nat, turn \in Nat,
           Before(i, o),
           Passed(o) \/ (LapOf(o) = lap /\ Class[o] = turn)
    PROVE  Passed(i)
<1>1. /\ LapOf(o) \in Nat /\ LapOf(i) \in Nat
  BY OperandsInLowerGroups
<1>2. /\ Class[o] \in 0 .. 4 /\ Class[i] \in 0 .. 4
      /\ Class[o] \in Nat /\ Class[i] \in Nat
  BY DEF SeqObj, Classes
<1>3. o \notin Rules
  BY <1>2 DEF Rules, InClass, RuleClass
<1>4. \/ LapOf(i) < LapOf(o)
      \/ LapOf(i) = LapOf(o) /\ Class[i] < Class[o]
  BY <1>3 DEF Before
<1>5. lap \in Nat /\ turn \in Nat
  OBVIOUS
<1>6. LapOf(o) < lap \/ (LapOf(o) = lap /\ Class[o] <= turn)
  BY <1>1, <1>2, <1>5 DEF Passed
<1>7. CASE LapOf(i) < LapOf(o)
  BY <1>1, <1>5, <1>6, <1>7 DEF Passed
<1>8. CASE LapOf(i) = LapOf(o) /\ Class[i] < Class[o]
  BY <1>1, <1>2, <1>5, <1>6, <1>8 DEF Passed
<1> QED
  BY <1>4, <1>7, <1>8

(* Counts that add up to the totals are the totals. *)
LEMMA TotalsTell ==
    ASSUME NEW f, NEW g, \A c \in Classes : f[c] \in Nat /\ g[c] \in Nat /\ f[c] <= g[c]
    PROVE  Total(f) = Total(g) <=> \A c \in Classes : f[c] = g[c]
<1>1. 0 \in Classes /\ 1 \in Classes /\ 2 \in Classes /\ 3 \in Classes /\ 4 \in Classes
  BY DEF Classes
<1>2. /\ f[0] \in Nat /\ g[0] \in Nat /\ f[0] <= g[0]
      /\ f[1] \in Nat /\ g[1] \in Nat /\ f[1] <= g[1]
      /\ f[2] \in Nat /\ g[2] \in Nat /\ f[2] <= g[2]
      /\ f[3] \in Nat /\ g[3] \in Nat /\ f[3] <= g[3]
      /\ f[4] \in Nat /\ g[4] \in Nat /\ f[4] <= g[4]
  BY <1>1
<1>3. (\A c \in Classes : f[c] = g[c]) <=>
         (f[0] = g[0] /\ f[1] = g[1] /\ f[2] = g[2] /\ f[3] = g[3] /\ f[4] = g[4])
  <2>1. \A c \in Classes : c = 0 \/ c = 1 \/ c = 2 \/ c = 3 \/ c = 4
    BY DEF Classes
  <2> QED
    BY <1>1, <2>1, Zenon
<1>4. Total(f) = Total(g) <=>
         (f[0] = g[0] /\ f[1] = g[1] /\ f[2] = g[2] /\ f[3] = g[3] /\ f[4] = g[4])
  BY <1>2 DEF Total
<1> QED
  BY <1>3, <1>4

(* A class counts as complete exactly when all its objects were triggered. *)
LEMMA CountsAreExact ==
    ASSUME NEW c \in Classes
    PROVE  /\ Cardinality(InClass(c)) \in Nat
           /\ Cardinality(fired \intersect InClass(c)) \in Nat
           /\ Cardinality(fired \intersect InClass(c)) <= Cardinality(InClass(c))
           /\ Cardinality(fired \intersect InClass(c)) = Cardinality(InClass(c))
                  <=> InClass(c) \subseteq fired
<1>1. IsFiniteSet(InClass(c))
  <2>1. InClass(c) \in SUBSET Obj /\ IsFiniteSet(Obj)
    BY NetworkAssumption DEF InClass
  <2> QED
    BY <2>1, FS_Subset
<1> DEFINE F == fired \intersect InClass(c)
<1>2. F \in SUBSET InClass(c)
  OBVIOUS
<1>3. /\ IsFiniteSet(F)
      /\ Cardinality(F) <= Cardinality(InClass(c))
      /\ Cardinality(InClass(c)) = Cardinality(F) => InClass(c) = F
  <2> HIDE DEF F
  <2> QED
    BY <1>1, <1>2, FS_Subset
<1>4. Cardinality(F) \in Nat /\ Cardinality(InClass(c)) \in Nat
  BY <1>1, <1>3, FS_CardinalityType
<1>5. InClass(c) = F <=> InClass(c) \subseteq fired
  OBVIOUS
<1> QED
  BY <1>3, <1>4, <1>5

-------------------------------------------------------------------------------
(* The invariant.                                                           *)

LEMMA InitIInv == Init => IInv
<1> SUFFICES ASSUME Init PROVE IInv
  OBVIOUS
<1>1. TypeOK
  BY LapsAssumption, LagAssumption DEF Init, TypeOK, Idle
<1>2. FiredSoFar
  BY DEF Init, FiredSoFar, Idle, Kits, LapEnd
<1>3. CountsTell
  BY DEF Init, CountsTell, Idle, LapEnd
<1>4. Fresh
  BY DEF Init, Fresh, TimelyObj
<1>5. ValidRestsOnValid
  BY NetworkAssumption DEF Init, ValidRestsOnValid, SeqObj
<1> QED
  BY <1>1, <1>2, <1>3, <1>4, <1>5 DEF IInv

LEMMA BellIInv == IInv /\ RingTaskBell => IInv'
<1> SUFFICES ASSUME IInv, RingTaskBell PROVE IInv'
  OBVIOUS
<1>1. TypeOK'
  <2>1. lag' \in [Obj -> 0 .. MaxLag]
    BY LagAssumption DEF IInv, TypeOK, RingTaskBell
  <2> QED
    BY <2>1, LapsAssumption DEF IInv, TypeOK, RingTaskBell, Idle
<1>2. FiredSoFar'
  <2>1. \A o \in SeqObj : LapOf(o) \in Nat /\ Class[o] \in Nat
    BY OperandsInLowerGroups DEF SeqObj, Classes
  <2>2. {o \in SeqObj : Passed(o)}' = {}
    BY <2>1 DEF RingTaskBell, Passed
  <2> QED
    BY <2>2 DEF RingTaskBell, FiredSoFar, Kits, Idle
<1>3. CountsTell'
  <2>1. \A c \in Classes : {} \intersect InClass(c) = {}
    OBVIOUS
  <2>2. Cardinality({}) = 0
    BY FS_EmptySet
  <2> QED
    BY <2>1, <2>2 DEF RingTaskBell, CountsTell
<1>4. Fresh' /\ ValidRestsOnValid'
  BY DEF RingTaskBell, Fresh, ValidRestsOnValid
<1> QED
  BY <1>1, <1>2, <1>3, <1>4 DEF IInv

(* The objects of a class that this lap targets. *)
LEMMA TargetedIsLap ==
    ASSUME TypeOK, NEW c \in Classes
    PROVE  Targeted(c) = {o \in SeqObj : LapOf(o) = lap /\ Class[o] = c}
<1>1. \A o \in InClass(c) : o \in SeqObj /\ TriggerGroup[o] \in Nat
  BY GroupsAssumption DEF InClass, SeqObj
<1>2. lap \in Nat /\ BaseTriggerGroup(c) \in Nat
  BY LapsAssumption DEF TypeOK, BaseTriggerGroup, Classes
<1>3. \A o \in InClass(c) :
         TriggerGroup[o] = BaseTriggerGroup(c) + lap <=> LapOf(o) = lap
  BY <1>1, <1>2 DEF LapOf, InClass
<1> QED
  BY <1>1, <1>3 DEF Targeted, InClass, SeqObj

(* What a turn targets was not triggered before, and all that comes before  *)
(* it was.                                                                  *)
LEMMA TurnInOrder ==
    ASSUME IInv, NEW c \in Classes, turn = c
    PROVE  /\ Targeted(c) \subseteq SeqObj /\ Targeted(c) \subseteq Obj
           /\ Targeted(c) \intersect fired = {}
           /\ \A o \in fired \union Targeted(c) : \A i \in Obj : Before(i, o) => i \in fired
<1>0. /\ TypeOK /\ lap \in Nat /\ turn \in Nat
      /\ fired = {o \in SeqObj : Passed(o)}
  BY LapsAssumption DEF IInv, TypeOK, FiredSoFar, Classes, LapEnd
<1>1. \A o \in SeqObj : LapOf(o) \in Nat /\ Class[o] \in Nat
  BY OperandsInLowerGroups DEF SeqObj, Classes
<1>2. Targeted(c) \subseteq SeqObj /\ Targeted(c) \subseteq Obj
  BY <1>0, TargetedIsLap DEF SeqObj
<1>3. Targeted(c) \intersect fired = {}
  BY <1>0, <1>1, TargetedIsLap DEF Passed
<1>4. ASSUME NEW o \in fired \union Targeted(c), NEW i \in Obj, Before(i, o)
      PROVE  i \in fired
  <2>1. /\ o \in SeqObj
        /\ Passed(o) \/ (LapOf(o) = lap /\ Class[o] = turn)
    BY <1>0, <1>2, TargetedIsLap
  <2>2. i \in SeqObj
    BY <1>4 DEF Before
  <2>3. Passed(i)
    BY <1>0, <1>4, <2>1, <2>2, PassedInOrder
  <2> QED
    BY <1>0, <2>2, <2>3
<1> QED
  BY <1>2, <1>3, <1>4

LEMMA ClassIInv == ASSUME IInv, NEW c \in Classes, TriggerClass(c) PROVE IInv'
<1> DEFINE Done == {o \in SeqObj : Passed(o)}
<1>0. /\ TypeOK /\ turn = c /\ turn' = c + 1 /\ lap' = lap
      /\ lap \in Nat /\ c \in Nat /\ c <= 4 /\ turn \in Nat
      /\ fired = Done
  BY LapsAssumption DEF IInv, TypeOK, TriggerClass, FiredSoFar, Classes, LapEnd
<1>1. \A o \in SeqObj : LapOf(o) \in Nat /\ Class[o] \in Nat /\ Class[o] \in Classes
  BY OperandsInLowerGroups DEF SeqObj, Classes
<1>2. \A o \in SeqObj : Passed(o)' <=> Passed(o) \/ (LapOf(o) = lap /\ Class[o] = c)
  BY <1>0, <1>1 DEF Passed
<1>3. Done' = Done \union Targeted(c)
  BY <1>0, <1>2, TargetedIsLap
<1>4. \A d \in Classes : objectsTriggered[d] = Cardinality(fired \intersect InClass(d))
  BY <1>0 DEF IInv, CountsTell, LapEnd
<1>5. turn' <= LapEnd /\ turn' # Kits /\ turn' # Idle /\ turn' \in 0 .. Idle
  BY <1>0 DEF LapEnd, Kits, Idle
<1>6. CASE AllTriggered(c)
  <2>1. UNCHANGED <<objectsTriggered, fired, valid, lag>>
    BY <1>6 DEF TriggerClass
  <2>2. Targeted(c) \subseteq fired
    <3>1. InClass(c) \subseteq fired
      BY <1>4, <1>6, CountsAreExact DEF AllTriggered
    <3> QED
      BY <3>1 DEF Targeted
  <2>3. TypeOK'
    BY <1>0, <1>5, <2>1 DEF TypeOK
  <2>4. FiredSoFar'
    BY <1>0, <1>3, <1>5, <2>1, <2>2 DEF FiredSoFar
  <2>5. CountsTell'
    BY <1>4, <2>1 DEF CountsTell
  <2>6. Fresh' /\ ValidRestsOnValid'
    BY <2>1 DEF IInv, Fresh, ValidRestsOnValid
  <2> QED
    BY <2>3, <2>4, <2>5, <2>6 DEF IInv
<1>7. CASE ~ AllTriggered(c)
  <2>1. /\ Cycle(Targeted(c))
        /\ objectsTriggered' =
              [objectsTriggered EXCEPT ![c] = objectsTriggered[c] + Cardinality(Targeted(c))]
    BY <1>7 DEF TriggerClass
  <2>2. /\ Targeted(c) \subseteq Obj /\ Targeted(c) \intersect fired = {}
        /\ \A o \in fired \union Targeted(c) : \A i \in Obj : Before(i, o) => i \in fired
    BY <1>0, TurnInOrder
  <2>5. /\ valid' \in [Obj -> BOOLEAN] /\ lag' \in [Obj -> 0 .. MaxLag]
        /\ fired' = fired \union Targeted(c) /\ fired' \subseteq Obj
        /\ Fresh' /\ ValidRestsOnValid'
    <3>1. Fresh /\ ValidRestsOnValid
      BY DEF IInv
    <3> QED
      BY <1>0, <2>1, <2>2, <3>1, CycleInOrder
  <2>6. /\ Cardinality(Targeted(c)) \in Nat
        /\ Cardinality(fired' \intersect InClass(c)) =
              Cardinality(fired \intersect InClass(c)) + Cardinality(Targeted(c))
    <3> DEFINE F == fired \intersect InClass(c)
               G == Targeted(c)
    <3>1. IsFiniteSet(InClass(c))
      <4>1. InClass(c) \in SUBSET Obj /\ IsFiniteSet(Obj)
        BY NetworkAssumption DEF InClass
      <4> QED
        BY <4>1, FS_Subset
    <3>2. F \in SUBSET InClass(c) /\ G \in SUBSET InClass(c)
      BY DEF Targeted
    <3>3. fired' \intersect InClass(c) = F \union G
      BY <2>5, <3>2
    <3>4. F \intersect G = {}
      BY <2>2
    <3>5. IsFiniteSet(F) /\ IsFiniteSet(G)
      <4> HIDE DEF F, G
      <4> QED
        BY <3>1, <3>2, FS_Subset
    <3>6. Cardinality(F) \in Nat /\ Cardinality(G) \in Nat
      BY <3>5, FS_CardinalityType
    <3>7. Cardinality(F \union G) = Cardinality(F) + Cardinality(G)
      <4> HIDE DEF F, G
      <4>1. Cardinality(F \union G) = Cardinality(F) + Cardinality(G) - Cardinality(F \intersect G)
        BY <3>5, FS_Union
      <4>2. Cardinality(F \intersect G) = 0
        BY <3>4, FS_EmptySet
      <4> QED
        BY <3>6, <4>1, <4>2
    <3> QED
      BY <3>3, <3>6, <3>7
  <2>7. objectsTriggered \in [Classes -> Nat]
    BY <1>0 DEF TypeOK
  <2>8. objectsTriggered' \in [Classes -> Nat]
    BY <2>1, <2>6, <2>7
  <2>9. TypeOK'
    BY <1>0, <1>5, <2>5, <2>8 DEF TypeOK
  <2>10. FiredSoFar'
    BY <1>0, <1>3, <1>5, <2>5 DEF FiredSoFar
  <2>11. CountsTell'
    <3>1. objectsTriggered'[c] = Cardinality(fired' \intersect InClass(c))
      BY <1>4, <2>1, <2>6, <2>7
    <3>2. ASSUME NEW d \in Classes, d # c
          PROVE  objectsTriggered'[d] = Cardinality(fired' \intersect InClass(d))
      <4>1. fired' \intersect InClass(d) = fired \intersect InClass(d)
        BY <2>5, <3>2 DEF Targeted, InClass
      <4> QED
        BY <1>4, <2>1, <2>7, <3>2, <4>1
    <3> QED
      BY <3>1, <3>2 DEF CountsTell
  <2> QED
    BY <2>5, <2>9, <2>10, <2>11 DEF IInv
<1> QED
  BY <1>6, <1>7

LEMMA EndOfLapIInv == IInv /\ EndOfLap => IInv'
<1> SUFFICES ASSUME IInv, EndOfLap PROVE IInv'
  OBVIOUS
<1> DEFINE Done == {o \in SeqObj : Passed(o)}
<1>0. /\ TypeOK /\ turn = LapEnd
      /\ lap \in Nat /\ lap < MaxLap /\ MaxLap \in Nat
      /\ fired = Done
      /\ UNCHANGED <<objectsTriggered, fired, valid, lag>>
  BY LapsAssumption DEF IInv, TypeOK, EndOfLap, FiredSoFar, LapEnd
<1>1. \A o \in SeqObj : /\ LapOf(o) \in Nat /\ Class[o] \in Nat /\ Class[o] < LapEnd
                        /\ Class[o] \in Classes
  BY OperandsInLowerGroups DEF SeqObj, Classes, LapEnd
<1>2. \A o \in SeqObj : Passed(o) <=> LapOf(o) < lap + 1
  BY <1>0, <1>1 DEF Passed
<1>3. \A c \in Classes : objectsTriggered[c] = Cardinality(fired \intersect InClass(c))
  BY <1>0 DEF IInv, CountsTell, LapEnd
<1>4. AllObjectsUpdated <=> SeqObj \subseteq fired
  <2> DEFINE g == [c \in Classes |-> Cardinality(InClass(c))]
  <2>1. \A c \in Classes : /\ objectsTriggered[c] \in Nat /\ g[c] \in Nat
                           /\ objectsTriggered[c] <= g[c]
                           /\ objectsTriggered[c] = g[c] <=> InClass(c) \subseteq fired
    BY <1>3, CountsAreExact
  <2>2. AllObjectsUpdated <=> \A c \in Classes : objectsTriggered[c] = g[c]
    <3> HIDE DEF g
    <3>1. Total(objectsTriggered) = Total(g)
             <=> \A c \in Classes : objectsTriggered[c] = g[c]
      BY <2>1, TotalsTell
    <3> QED
      BY <3>1 DEF AllObjectsUpdated, g
  <2>3. (\A c \in Classes : InClass(c) \subseteq fired) <=> SeqObj \subseteq fired
    BY DEF InClass, SeqObj
  <2> QED
    BY <2>1, <2>2, <2>3
<1>5. Fresh' /\ ValidRestsOnValid'
  BY <1>0 DEF IInv, Fresh, ValidRestsOnValid
<1>6. CASE AllObjectsUpdated
  <2>1. turn' = Kits /\ lap' = lap
    BY <1>6 DEF EndOfLap
  <2>2. TypeOK'
    BY <1>0, <2>1 DEF TypeOK, Kits, Idle
  <2>3. FiredSoFar'
    BY <1>0, <1>4, <1>6, <2>1 DEF FiredSoFar, Kits, LapEnd, Idle
  <2>4. CountsTell'
    BY <2>1 DEF CountsTell, Kits, LapEnd
  <2> QED
    BY <1>5, <2>2, <2>3, <2>4 DEF IInv
<1>7. CASE ~ AllObjectsUpdated
  <2>1. turn' = 0 /\ lap' = lap + 1
    BY <1>0, <1>7 DEF EndOfLap
  <2>2. lap + 1 < MaxLap
    <3>1. PICK o \in SeqObj : ~ Passed(o)
      BY <1>0, <1>4, <1>7
    <3>2. LapOf(o) < MaxLap
      BY LapsAssumption
    <3> QED
      BY <1>0, <1>1, <1>2, <3>1, <3>2
  <2>3. TypeOK'
    BY <1>0, <2>1, <2>2 DEF TypeOK, Idle
  <2>4. \A o \in SeqObj : Passed(o)' <=> LapOf(o) < lap + 1
    BY <1>0, <1>1, <2>1 DEF Passed
  <2>5. FiredSoFar'
    BY <1>0, <1>2, <2>1, <2>4 DEF FiredSoFar, Kits, LapEnd, Idle
  <2>6. CountsTell'
    BY <1>0, <1>3 DEF CountsTell
  <2> QED
    BY <1>5, <2>3, <2>5, <2>6 DEF IInv
<1> QED
  BY <1>6, <1>7

LEMMA KitsIInv == IInv /\ TriggerRuleKits => IInv'
<1> SUFFICES ASSUME IInv, TriggerRuleKits PROVE IInv'
  OBVIOUS
<1>1. /\ TypeOK /\ turn = Kits /\ turn' = Idle /\ fired = SeqObj
      /\ UNCHANGED <<lap, objectsTriggered>> /\ Cycle(Rules)
      /\ Fresh /\ ValidRestsOnValid
  BY DEF IInv, TriggerRuleKits, FiredSoFar
<1>2. Rules \subseteq Obj /\ Rules \intersect SeqObj = {} /\ SeqObj \union Rules = Obj
  BY NetworkAssumption DEF Rules, InClass, RuleClass, SeqObj, Classes
<1>3. \A o \in fired \union Rules : \A i \in Obj : Before(i, o) => i \in fired
  BY <1>1 DEF Before
<1>4. /\ valid' \in [Obj -> BOOLEAN] /\ lag' \in [Obj -> 0 .. MaxLag]
      /\ fired' = fired \union Rules /\ fired' \subseteq Obj
      /\ Fresh' /\ ValidRestsOnValid'
  BY <1>1, <1>2, <1>3, CycleInOrder
<1>5. TypeOK'
  BY <1>1, <1>4 DEF TypeOK, Idle
<1>6. FiredSoFar'
  BY <1>1, <1>2, <1>4 DEF FiredSoFar, Kits, LapEnd, Idle
<1>7. CountsTell'
  BY <1>1 DEF CountsTell, Idle, LapEnd
<1> QED
  BY <1>4, <1>5, <1>6, <1>7 DEF IInv

LEMMA NextIInv == IInv /\ [Next]_vars => IInv'
<1> SUFFICES ASSUME IInv, [Next]_vars PROVE IInv'
  OBVIOUS
<1>1. CASE RingTaskBell
  BY <1>1, BellIInv
<1>2. ASSUME NEW c \in Classes, TriggerClass(c) PROVE IInv'
  BY <1>2, ClassIInv
<1>3. CASE EndOfLap
  BY <1>3, EndOfLapIInv
<1>4. CASE TriggerRuleKits
  BY <1>4, KitsIInv
<1>5. CASE UNCHANGED vars
  BY <1>5 DEF vars, IInv, TypeOK, FiredSoFar, CountsTell, Passed, Fresh, ValidRestsOnValid
<1> QED
  BY <1>1, <1>2, <1>3, <1>4, <1>5 DEF Next

LEMMA Invariant == Spec => []IInv
<1> QED
  BY InitIInv, NextIInv, PTL DEF Spec

-------------------------------------------------------------------------------
(* How late values are.  A sound object is valid, so that what is read of   *)
(* it is not held from some earlier step; and a valid object of known       *)
(* lateness is as late as that, or one step more until it is triggered.     *)

LateInv == /\ \A o \in Obj : Sound[o] => valid[o]
           /\ \A o \in DOMAIN Lateness : valid[o] =>
                 lag[o] <= Lateness[o] + (IF o \in fired THEN 0 ELSE 1)

LEMMA CycleLate ==
    ASSUME TypeOK, LateInv, NEW S, S \subseteq Obj, S \intersect fired = {},
           \A o \in S : \A i \in Obj : Before(i, o) => i \in fired,
           Cycle(S)
    PROVE  LateInv'
<1>1. PICK failing \in SUBSET (MayFail \intersect S) :
        /\ valid' = [o \in Obj |-> IF o \in S THEN PullValidity(o) /\ o \notin failing
                                  ELSE valid[o]]
        /\ lag' = [o \in Obj |-> IF o \in S /\ PullValidity(o) /\ o \notin failing
                                THEN LagOfReads(o) ELSE lag[o]]
        /\ fired' = fired \union S
  <2>1. fired' = fired \union S
    BY DEF Cycle
  <2>2. \A o : o \in fired' \ fired <=> o \in S
    BY <2>1
  <2> QED
    BY <2>1, <2>2 DEF Cycle
<1>2. ASSUME NEW o \in Obj, Sound[o] PROVE valid'[o]
  <2>1. o \notin MayFail /\ \A i \in Operands[o] : Sound[i] /\ i \in Obj
    BY <1>2, SoundRecursion, NetworkAssumption DEF SeqObj
  <2>2. PullValidity(o) /\ o \notin failing
    BY <2>1 DEF PullValidity, LateInv
  <2> QED
    BY <1>1, <1>2, <2>2 DEF LateInv
<1>3. ASSUME NEW o \in DOMAIN Lateness, valid'[o]
      PROVE  lag'[o] <= Lateness[o] + (IF o \in fired' THEN 0 ELSE 1)
  <2>1. o \in Obj /\ Lateness[o] \in Nat
    BY LatenessAssumption
  <2>2. CASE o \notin S
    BY <1>1, <1>3, <2>1, <2>2 DEF LateInv
  <2>3. CASE o \in S
    <3> DEFINE R == {r \in Reads[o] : r \in Rules => valid[r]}
               late == {0} \union {lag[i] : i \in R}
    <3>1. PullValidity(o) /\ o \notin failing /\ lag'[o] = Max(late)
      BY <1>1, <1>3, <2>1, <2>3 DEF LagOfReads
    <3>2. ASSUME NEW i \in R PROVE lag[i] \in Nat /\ lag[i] <= Lateness[o]
      <4>1. /\ i \in DOMAIN Lateness /\ i \in Obj /\ Lateness[i] \in Nat
            /\ i \in Operands[o] \/ i \in Rules \/ Sound[i]
            /\ Lateness[o] >= Lateness[i] + (IF Before(i, o) THEN 0 ELSE 1)
        BY LatenessAssumption
      <4>2. valid[i]
        BY <3>1, <4>1 DEF PullValidity, LateInv
      <4>3. lag[i] \in Nat /\ lag[i] <= Lateness[i] + (IF i \in fired THEN 0 ELSE 1)
        BY <4>1, <4>2, LagAssumption DEF LateInv, TypeOK
      <4>4. Before(i, o) => i \in fired
        BY <2>3, <4>1
      <4> QED
        BY <2>1, <4>1, <4>3, <4>4
    <3>3. late # {} /\ late \subseteq Nat /\ \A n \in late : n <= Lateness[o]
      BY <2>1, <3>2
    <3>4. IsFiniteSet(late)
      <4> HIDE DEF late
      <4>1. late \subseteq 0 .. Lateness[o]
        BY <2>1, <3>3
      <4>2. IsFiniteSet(0 .. Lateness[o])
        BY <2>1, FS_Interval
      <4> QED
        BY <4>1, <4>2, FS_Subset
    <3>5. Max(late) \in late
      <4> HIDE DEF late
      <4> QED
        BY <3>3, <3>4, MaxIsMember
    <3>6. o \in fired'
      BY <1>1, <2>3
    <3>7. lag'[o] \in Nat /\ lag'[o] <= Lateness[o]
      <4> HIDE DEF late
      <4> QED
        BY <3>1, <3>3, <3>5
    <3> QED
      BY <2>1, <3>6, <3>7
  <2> QED
    BY <2>2, <2>3
<1> QED
  BY <1>2, <1>3 DEF LateInv

LEMMA NextLate == IInv /\ LateInv /\ [Next]_vars => LateInv'
<1> SUFFICES ASSUME IInv, LateInv, [Next]_vars PROVE LateInv'
  OBVIOUS
<1>0. TypeOK
  BY DEF IInv
<1>1. CASE RingTaskBell
  <2>1. /\ fired = Obj /\ fired' = {} /\ valid' = valid
        /\ lag' = [o \in Obj |-> IF lag[o] < MaxLag THEN lag[o] + 1 ELSE MaxLag]
    BY <1>1 DEF IInv, FiredSoFar, RingTaskBell
  <2>2. \A o \in Obj : lag[o] \in Nat /\ lag'[o] <= lag[o] + 1
    BY <1>0, <2>1, LagAssumption DEF TypeOK
  <2>3. \A o \in DOMAIN Lateness : o \in Obj /\ Lateness[o] \in Nat
    BY LatenessAssumption
  <2>4. \A o \in DOMAIN Lateness : valid'[o] => lag'[o] <= Lateness[o] + 1
    <3> SUFFICES ASSUME NEW o \in DOMAIN Lateness, valid[o]
                 PROVE  lag'[o] <= Lateness[o] + 1
      BY <2>1
    <3>1. lag[o] <= Lateness[o]
      BY <2>1, <2>3 DEF LateInv
    <3>2. lag'[o] \in Nat
      BY <1>0, <2>1, <2>3, LagAssumption DEF TypeOK
    <3> QED
      BY <2>2, <2>3, <3>1, <3>2
  <2> QED
    BY <2>1, <2>4 DEF LateInv
<1>2. ASSUME NEW c \in Classes, TriggerClass(c) PROVE LateInv'
  <2>1. CASE AllTriggered(c)
    BY <1>2, <2>1 DEF TriggerClass, LateInv
  <2>2. CASE ~ AllTriggered(c)
    <3>1. turn = c /\ Cycle(Targeted(c))
      BY <1>2, <2>2 DEF TriggerClass
    <3>2. /\ Targeted(c) \subseteq Obj /\ Targeted(c) \intersect fired = {}
          /\ \A o \in fired \union Targeted(c) : \A i \in Obj : Before(i, o) => i \in fired
      BY <3>1, TurnInOrder
    <3> QED
      BY <1>0, <3>1, <3>2, CycleLate
  <2> QED
    BY <2>1, <2>2
<1>3. CASE EndOfLap
  BY <1>3 DEF EndOfLap, LateInv
<1>4. CASE TriggerRuleKits
  <2>1. Cycle(Rules) /\ fired = SeqObj
    BY <1>4 DEF TriggerRuleKits, IInv, FiredSoFar
  <2>2. Rules \subseteq Obj /\ Rules \intersect fired = {}
    BY <2>1 DEF Rules, InClass, RuleClass, SeqObj, Classes
  <2>3. \A o \in Rules : \A i \in Obj : Before(i, o) => i \in fired
    BY <2>1 DEF Before
  <2> QED
    BY <1>0, <2>1, <2>2, <2>3, CycleLate
<1>5. CASE UNCHANGED vars
  BY <1>5 DEF vars, LateInv
<1> QED
  BY <1>1, <1>2, <1>3, <1>4, <1>5 DEF Next

-------------------------------------------------------------------------------
(* Theorems.                                                                *)

(* Every reachable state is well typed; the loop never needs a lap beyond   *)
(* that of the deepest trigger group, as lap < MaxLap says.                 *)
THEOREM TypeCorrect == Spec => []TypeOK
<1>1. IInv => TypeOK
  BY DEF IInv
<1> QED
  BY <1>1, Invariant, PTL

(* When the loop of sequence.cpp stops, its counts did not deceive it.      *)
THEOREM EverybodyTriggered == Spec => []NobodyLeftOut
<1>1. IInv => NobodyLeftOut
  BY DEF IInv, FiredSoFar, NobodyLeftOut
<1> QED
  BY <1>1, Invariant, PTL

(* In every network, whatever fails and recovers, an object whose reads     *)
(* come before it in laps and classes works on the samples of its step.     *)
THEOREM TimelyIsFresh == Spec => []Fresh
<1>1. IInv => Fresh
  BY DEF IInv
<1> QED
  BY <1>1, Invariant, PTL

(* How late a value can be follows from the laps alone: whatever fails and  *)
(* recovers, after a step nothing valid is older than the objects between   *)
(* it and the samples account for, one step for each that comes before what *)
(* it reads.                                                                *)
THEOREM LateAsTheLapsSay == Spec => []LagBounded
<1>1. Init => LateInv
  BY LatenessAssumption DEF Init, LateInv
<1>2. IInv /\ LateInv => LagBounded
  <2> SUFFICES ASSUME IInv, LateInv, turn = Idle, NEW o \in DOMAIN Lateness, valid[o]
               PROVE  lag[o] <= Lateness[o]
    BY DEF LagBounded, Regen
  <2>1. o \in fired /\ Lateness[o] \in Nat
    BY LatenessAssumption DEF IInv, FiredSoFar
  <2> QED
    BY <2>1 DEF LateInv
<1> QED
  BY <1>1, <1>2, Invariant, NextLate, PTL DEF Spec

(* The loop of sequence.cpp needs no bound to stop: each of its turns lowers *)
(* a number that has one, so that with the thread running (StepEnds) a step *)
(* ends after at most 7 * MaxLap + 1 turns.                                 *)
Remaining == IF turn = Idle THEN 0
             ELSE IF turn = Kits THEN 1
             ELSE 1 + 7 * (MaxLap - lap) - turn

TurnsAreCounted ==
    [][turn # Idle => /\ Remaining' \in Nat /\ Remaining \in 1 .. 7 * MaxLap + 1
                      /\ Remaining' < Remaining]_vars

THEOREM StepShrinks == Spec => TurnsAreCounted
<1>1. IInv /\ [Next]_vars =>
          [turn # Idle => /\ Remaining' \in Nat /\ Remaining \in 1 .. 7 * MaxLap + 1
                          /\ Remaining' < Remaining]_vars
  <2> SUFFICES ASSUME IInv, Next, turn # Idle
               PROVE  /\ Remaining' \in Nat /\ Remaining \in 1 .. 7 * MaxLap + 1
                      /\ Remaining' < Remaining
    OBVIOUS
  <2>1. /\ lap \in Nat /\ lap < MaxLap /\ MaxLap \in Nat /\ turn \in 0 .. 7
        /\ lap' \in Nat /\ lap' < MaxLap
    <3>1. TypeOK /\ TypeOK'
      BY NextIInv DEF IInv
    <3> QED
      BY <3>1, LapsAssumption DEF TypeOK, Idle
  <2>2. ASSUME NEW c \in Classes, TriggerClass(c)
        PROVE  turn \in 0 .. 4 /\ turn' = turn + 1 /\ lap' = lap
    BY <2>2 DEF TriggerClass, Classes
  <2>3. CASE EndOfLap
    <3>1. turn = 5 /\ (turn' = 6 \/ (turn' = 0 /\ lap' = lap + 1))
      BY <2>1, <2>3 DEF EndOfLap, LapEnd, Kits
    <3> QED
      BY <2>1, <3>1 DEF Remaining, Idle, Kits
  <2>4. CASE TriggerRuleKits
    BY <2>1, <2>4 DEF TriggerRuleKits, Remaining, Idle, Kits
  <2>5. CASE \E c \in Classes : TriggerClass(c)
    BY <2>1, <2>2, <2>5 DEF Remaining, Idle, Kits
  <2> QED
    BY <2>3, <2>4, <2>5 DEF Next, RingTaskBell
<1> QED
  BY <1>1, Invariant, PTL DEF Spec, TurnsAreCounted

(* A valid object never rests on an operand that turned invalid before it   *)
(* was triggered.                                                           *)
THEOREM ValidityPassesOn == Spec => []ValidRestsOnValid
<1>1. IInv => ValidRestsOnValid
  BY DEF IInv
<1> QED
  BY <1>1, Invariant, PTL
===============================================================================

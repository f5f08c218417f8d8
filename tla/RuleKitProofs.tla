----------------------------- MODULE RuleKitProofs -----------------------------
(***************************************************************************)
(* Theorems about RuleKit for every number of kits and rules, every order   *)
(* of their tables, every trap span, history and limit of cases.           *)
(*                                                                         *)
(* The invariants are proved from one inductive invariant, IInv.  That a   *)
(* case is never opened on data already wiped rests on FailureHeld: a      *)
(* failure logged since the last trap has its set, because only a trap     *)
(* wipes and each trap counts only what was logged since the one before.   *)
(*                                                                         *)
(* Then come the serials of cases, which go up until they run out, and the *)
(* decision of a trap: it is one of the rules of the kit or none, whatever *)
(* the log, and a rule that failed often enough is not passed over.        *)
(***************************************************************************)
EXTENDS RuleKit, FiniteSetTheorems, WellFoundedInduction, TLAPS

CaseHasRulesSet == \A c \in cases : c.set = setSgi[c.rule]

SetsDistinct == \A q, r \in Rules : setSgi[q] = setSgi[r] /\ setSgi[q] # 0 => q = r

FailureHeld ==
    \A r \in Rules : \A i \in 1 .. TrapSpan :
        i <= TrapSpan - untilTrap[KitOf[r]] /\ failLog[r][i] => setSgi[r] \in held

IInv == /\ TypeOK
        /\ ResultsInTable
        /\ CaseModeMeansCase
        /\ CaseHasRulesSet /\ CaseKeepsSnapshot
        /\ SetsDistinct
        /\ FailureHeld
        /\ IsFiniteSet(cases) /\ CasesWithinLimit

-------------------------------------------------------------------------------
(* Lemmas about the operators of the model.                                *)

(* A result of a rule not in both modes is in the tables, and is 0 only for *)
(* a failure in auto mode.                                                 *)
LEMMA BindexRange ==
    ASSUME NEW r \in Rules, NEW out \in Outcomes,
           caseMode[r] \in BOOLEAN, idleMode[r] \in BOOLEAN, ~(caseMode[r] /\ idleMode[r])
    PROVE  /\ Bindex(r, out) \in Bins
           /\ Bindex(r, out) = 0 => InAutoMode(r)
<1>1. out \in {"fail", "pass", "skip", "invalid"}
  BY RulesAssumption DEF AllOutcomes
<1>2. CASE caseMode[r]
  BY <1>1, <1>2 DEF Bindex, Bins, InAutoMode
<1>3. CASE ~caseMode[r]
  BY <1>1, <1>3 DEF Bindex, Bins, InAutoMode
<1> QED
  BY <1>2, <1>3

(* A trap that is not empty has a rule with a failure, so the rule with the *)
(* most failures has one: it is in auto mode and failed within the span.    *)
LEMMA TrappedFailed ==
    ASSUME NEW k \in Kits, NEW t, NEW log,
           Cardinality(AllFails(k, log)) > EmptyTrap, Trapped(k, t, log)
    PROVE  t \in RulesOf(k) /\ InAutoMode(t) /\ \E i \in 1 .. TrapSpan : log[t][i]
<1>1. \A r : IsFiniteSet(Fails(r, log)) /\ NumFails(r, log) \in Nat
             /\ (NumFails(r, log) = 0 <=> Fails(r, log) = {})
  <2> TAKE r
  <2>1. IsFiniteSet(1 .. TrapSpan)
    BY FS_Interval, SpansAssumption
  <2>2. Fails(r, log) \subseteq 1 .. TrapSpan
    BY DEF Fails
  <2> QED
    BY <2>1, <2>2, FS_Subset, FS_CardinalityType, FS_EmptySet DEF NumFails
<1>2. AllFails(k, log) # {}
  BY FS_EmptySet, SpansAssumption
<1>3. PICK r \in RulesOf(k) : Fails(r, log) # {}
  BY <1>2 DEF AllFails
<1>4. NumFails(r, log) <= NumFails(t, log) /\ t \in RulesOf(k)
  BY <1>1, <1>3 DEF Trapped
<1>5. Fails(t, log) # {}
  BY <1>1, <1>3, <1>4
<1> QED
  BY <1>4, <1>5 DEF Fails

(* What the trap of a cycle can name.                                      *)
LEMMA TrapFacts ==
    ASSUME NEW k \in Kits, NEW t, NEW w, TypeOK, Trap(k, t, w)
    PROVE  /\ t # NoRule => /\ t \in RulesOf(k) /\ InAutoMode(t) /\ untilTrap[k] = 1
                            /\ \E i \in 1 .. TrapSpan : failLog'[t][i]
           /\ w # NoRule => w \in RulesOf(k) /\ w # t /\ untilTrap[k] = 1
           /\ untilTrap' = [untilTrap EXCEPT ![k] = IF untilTrap[k] = 1 THEN TrapSpan
                                                                   ELSE untilTrap[k] - 1]
<1>1. untilTrap[k] \in 1 .. TrapSpan /\ untilTrap[k] \in Int
  BY SpansAssumption DEF TypeOK
<1>2. CASE untilTrap[k] = 1
  <2>1. TrapResult(k, t, w, failLog') /\ untilTrap' = [untilTrap EXCEPT ![k] = TrapSpan]
    BY <1>2 DEF Trap, ResetTrap
  <2>2. CASE Cardinality(AllFails(k, failLog')) > EmptyTrap
    <3>1. Trapped(k, t, failLog')
      BY <2>1, <2>2 DEF TrapResult
    <3>2. w # NoRule => w \in RulesOf(k) /\ w # t
      BY <2>1, <2>2 DEF TrapResult
    <3> QED
      BY <3>1, <3>2, <2>1, <2>2, <1>2, TrappedFailed
  <2>3. CASE ~(Cardinality(AllFails(k, failLog')) > EmptyTrap)
    BY <2>1, <2>3, <1>2 DEF TrapResult
  <2> QED
    BY <2>2, <2>3
<1>3. CASE untilTrap[k] # 1
  BY <1>1, <1>3 DEF Trap
<1> QED
  BY <1>2, <1>3

-------------------------------------------------------------------------------
(* A cycle of a kit.                                                       *)

(* The numbers of new sets are new and different.                          *)
LEMMA NewNumbers ==
    ASSUME NEW rules, NEW n \in Numberings(rules)
    PROVE  /\ n \in [rules -> Sets]
           /\ \A q, r \in rules : n[q] = n[r] => q = r
           /\ \A r \in rules : n[r] \notin InUse /\ n[r] \notin held
           /\ Range(n) \subseteq Sets
           /\ \A r \in rules : n[r] \in Range(n)
BY DEF Numberings, Injection, IsInjective, Range

LEMMA CycleKeeps ==
    ASSUME IInv, NEW k \in Kits, Cycle(k)
    PROVE  IInv'
<1>1. PICK out \in [RulesOf(k) -> Outcomes],
           t \in RulesOf(k) \cup {NoRule}, w \in RulesOf(k) \cup {NoRule} :
             /\ Numberings(Failing(k, out)) # {}
             /\ CycleWith(k, out, Failing(k, out),
                          CHOOSE n \in Numberings(Failing(k, out)) : TRUE, t, w)
  BY DEF Cycle
<1> DEFINE F == Failing(k, out)
           n == CHOOSE m \in Numberings(Failing(k, out)) : TRUE
<1>n. n \in Numberings(F)
  BY <1>1
<1>2. /\ Test(k, out) /\ Capture(F, n) /\ Submit(k) /\ Trap(k, t, w) /\ ActOnTrap(k, t)
      /\ Keep((held \cup Range(n)) \ Destroyed(w))
      /\ trapped' = t /\ wiped' = w /\ idleMode' = idleMode
  BY <1>1 DEF CycleWith
<1> HIDE DEF n
<1>3. /\ n \in [F -> Sets] /\ Range(n) \subseteq Sets
      /\ \A q, r \in F : n[q] = n[r] => q = r
      /\ \A r \in F : n[r] \notin InUse /\ n[r] \notin held /\ n[r] \in Range(n)
  <2> HIDE DEF F
  <2> QED  BY <1>n, NewNumbers
<1>4. /\ t # NoRule => /\ t \in RulesOf(k) /\ InAutoMode(t) /\ untilTrap[k] = 1
                       /\ \E i \in 1 .. TrapSpan : failLog'[t][i]
      /\ w # NoRule => w \in RulesOf(k) /\ w # t /\ untilTrap[k] = 1
      /\ untilTrap' = [untilTrap EXCEPT ![k] = IF untilTrap[k] = 1 THEN TrapSpan
                                                              ELSE untilTrap[k] - 1]
  BY <1>2, TrapFacts DEF IInv
<1>5. F \subseteq RulesOf(k) /\ RulesOf(k) \subseteq Rules
  BY DEF Failing, RulesOf
<1>6. \A r \in RulesOf(k) : Bindex(r, out[r]) \in Bins /\ (Bindex(r, out[r]) = 0 => InAutoMode(r))
  BY <1>5, BindexRange DEF IInv, TypeOK, ResultsInTable
<1>7. \A r \in Rules : KitOf[r] = k <=> r \in RulesOf(k)
  BY DEF RulesOf
<1>8. bindex' = [r \in Rules |-> IF KitOf[r] = k THEN Bindex(r, out[r]) ELSE bindex[r]]
  BY <1>2 DEF Test
<1>9. \A r \in Rules : bindex'[r] \in Bins /\ (KitOf[r] = k /\ bindex'[r] = 0 => r \in F)
  BY <1>6, <1>7, <1>8 DEF Failing, IInv, ResultsInTable
<1>10. failLog' = [r \in Rules |->
           IF KitOf[r] = k
           THEN [i \in 1 .. TrapSpan |-> IF i = 1 THEN bindex'[r] = 0 ELSE failLog[r][i - 1]]
           ELSE failLog[r]]
  BY <1>2 DEF Test
<1>11. setSgi' = [r \in Rules |-> IF r \in F THEN n[r] ELSE setSgi[r]]
  BY <1>2 DEF Capture
<1>12. Rules \subseteq Nat /\ NoRule \notin Rules /\ KitOf \in [Rules -> Kits]
  BY RulesAssumption
(* An auto-mode rule has no case; the cases keep their sets.                *)
<1>13. \A c \in cases : c.rule \in Rules /\ caseMode[c.rule] /\ c.rule \notin F
  <2> TAKE c \in cases
  <2>1. c.rule \in Rules /\ caseMode[c.rule]
    BY DEF IInv, TypeOK, CaseModeMeansCase, CasesOn
  <2> QED
    BY <2>1, <1>6, <1>5 DEF Failing, InAutoMode
<1>14. \A r \in Rules : setSgi'[r] \in Sets \cup {0}
  BY <1>11, <1>3 DEF IInv, TypeOK
<1>sd. SetsDistinct'
  <2> SUFFICES ASSUME NEW q \in Rules, NEW r \in Rules,
                      setSgi'[q] = setSgi'[r], setSgi'[q] # 0
               PROVE  q = r
    BY DEF SetsDistinct
  <2>1. \A x \in F, y \in Rules : n[x] # setSgi[y]
    BY <1>3 DEF InUse, Range, IInv, TypeOK
  <2>2. CASE q \in F /\ r \in F
    BY <2>2, <1>11, <1>3
  <2>3. CASE q \in F /\ r \notin F
    BY <2>3, <2>1, <1>11
  <2>4. CASE q \notin F /\ r \in F
    BY <2>4, <2>1, <1>11
  <2>5. CASE q \notin F /\ r \notin F
    BY <2>5, <1>11 DEF IInv, SetsDistinct
  <2> QED
    BY <2>2, <2>3, <2>4, <2>5
(* What is destroyed is the set of a rule that is neither trapped nor has a *)
(* case.                                                                   *)
<1>15. \A s \in Destroyed(w) : w \in RulesOf(k) /\ w # t /\ ~caseMode[w]
                               /\ untilTrap[k] = 1 /\ s = setSgi'[w]
  BY <1>4 DEF Destroyed
<1>16. \A r \in Rules : setSgi'[r] # 0 /\ setSgi'[r] \in Destroyed(w) => r = w
  BY <1>15, <1>sd, <1>5 DEF SetsDistinct
(* Cases after the cycle.                                                  *)
<1>17. \/ cases' = cases /\ caseMode' = caseMode
       \/ /\ t # NoRule /\ Cardinality(cases) < MaxCases
          /\ cases' = cases \cup {[rule |-> t, set |-> setSgi'[t], sgi |-> Serial(nextSgi)]}
          /\ caseMode' = [caseMode EXCEPT ![t] = TRUE]
  BY <1>2 DEF ActOnTrap, OpenCase, HasRoom, CaseModeSet, casekit
<1>kp. /\ held' = ((held \cup Range(n)) \ Destroyed(w))
                    \cap (Range(setSgi') \cup {c.set : c \in cases'})
       /\ leaked' \in BOOLEAN
  BY <1>2 DEF Keep, IInv, TypeOK
<1>18. \A r \in Rules : setSgi'[r] # 0 /\ r # w
            /\ (r \in F \/ setSgi[r] \in held) => setSgi'[r] \in held'
  <2> SUFFICES ASSUME NEW r \in Rules, setSgi'[r] # 0, r # w, r \in F \/ setSgi[r] \in held
               PROVE  setSgi'[r] \in held'
    OBVIOUS
  <2>1. setSgi'[r] \in held \cup Range(n)
    BY <1>3, <1>11
  <2>2. setSgi'[r] \in Range(setSgi')
    BY <1>11 DEF Range
  <2> QED
    BY <2>1, <2>2, <1>16, <1>kp
(* The set of the trapped rule exists, for one of its failures since the    *)
(* last trap.                                                              *)
<1>19. t # NoRule => setSgi'[t] # 0 /\ setSgi'[t] \in held'
  <2> SUFFICES ASSUME t # NoRule
               PROVE  setSgi'[t] # 0 /\ setSgi'[t] \in held'
    OBVIOUS
  <2>1. t \in Rules /\ KitOf[t] = k /\ t # w /\ untilTrap[k] = 1
    BY <1>4, <1>5, <1>7
  <2>2. PICK i \in 1 .. TrapSpan : failLog'[t][i]
    BY <1>4
  <2>3. CASE i = 1
    <3>1. t \in F
      BY <2>1, <2>2, <2>3, <1>9, <1>10
    <3> QED
      BY <3>1, <2>1, <1>18, <1>11, <1>3, SetsAssumption
  <2>4. CASE i # 1
    <3>1. i - 1 \in 1 .. TrapSpan /\ i - 1 <= TrapSpan - 1 /\ failLog[t][i - 1]
      BY <2>1, <2>2, <2>4, <1>10, SpansAssumption
    <3>2. setSgi[t] \in held
      BY <3>1, <2>1 DEF IInv, FailureHeld
    <3>3. setSgi'[t] # 0
      BY <3>2, <2>1, <1>11, <1>3, SetsAssumption DEF IInv, TypeOK
    <3> QED
      BY <3>2, <3>3, <2>1, <1>18
  <2> QED
    BY <2>3, <2>4
<1>20. t # NoRule => t \in Rules /\ ~caseMode[t] /\ ~idleMode[t] /\ setSgi'[t] \in Sets
  BY <1>4, <1>5, <1>14, <1>19 DEF InAutoMode
<1>21. \A c \in cases : c.set = setSgi'[c.rule] /\ c.set \in held'
  <2> TAKE c \in cases
  <2>1. c.set = setSgi'[c.rule] /\ c.set \in held /\ c.set # 0
    BY <1>13, <1>11, SetsAssumption DEF IInv, CaseHasRulesSet, CaseKeepsSnapshot, TypeOK
  <2>2. c.rule # w \/ Destroyed(w) = {}
    BY <1>13, <1>15
  <2>3. c.set \notin Destroyed(w)
    BY <2>1, <2>2, <1>13, <1>16
  <2>4. c.set \in Range(setSgi')
    BY <2>1, <1>13, <1>11 DEF Range
  <2> QED
    BY <2>1, <2>3, <2>4, <1>kp
<1> HIDE DEF F
<1>a. ResultsInTable'
  <2> SUFFICES ASSUME NEW r \in Rules
               PROVE  bindex'[r] \in Bins /\ ~(caseMode'[r] /\ idleMode'[r])
    BY DEF ResultsInTable
  <2>1. ~(caseMode'[r] /\ idleMode[r])
    BY <1>17, <1>20 DEF IInv, ResultsInTable, TypeOK
  <2> QED
    BY <2>1, <1>9, <1>2
<1>b. CaseModeMeansCase'
  <2>1. CASE cases' = cases /\ caseMode' = caseMode
    BY <2>1 DEF IInv, CaseModeMeansCase, CasesOn
  <2>2. CASE /\ t # NoRule
             /\ cases' = cases \cup {[rule |-> t, set |-> setSgi'[t], sgi |-> Serial(nextSgi)]}
             /\ caseMode' = [caseMode EXCEPT ![t] = TRUE]
    <3> DEFINE new == [rule |-> t, set |-> setSgi'[t], sgi |-> Serial(nextSgi)]
    <3>1. new.rule = t /\ t \in Rules /\ CasesOn(t) = {}
      BY <2>2, <1>20 DEF IInv, CaseModeMeansCase
    <3>2. cases' = cases \cup {new}
      BY <2>2
    <3> HIDE DEF new
    <3>3. ASSUME NEW r \in Rules, r # t
          PROVE  CasesOn(r)' = CasesOn(r) /\ caseMode'[r] = caseMode[r]
      BY <3>1, <3>2, <3>3, <2>2 DEF CasesOn, IInv, TypeOK
    <3>4. CasesOn(t)' = {new} /\ caseMode'[t]
      BY <3>1, <3>2, <2>2 DEF CasesOn, IInv, TypeOK
    <3>5. ASSUME NEW r \in Rules
          PROVE  /\ caseMode'[r] <=> CasesOn(r)' # {}
                 /\ \A c, d \in CasesOn(r)' : c = d
      <4>1. CASE r = t
        BY <4>1, <3>4
      <4>2. CASE r # t
        BY <4>2, <3>3 DEF IInv, CaseModeMeansCase
      <4> QED
        BY <4>1, <4>2
    <3> QED
      BY <3>5 DEF CaseModeMeansCase
  <2> QED
    BY <1>17, <2>1, <2>2
<1>c. CaseHasRulesSet' /\ CaseKeepsSnapshot'
  BY <1>17, <1>19, <1>21 DEF CaseHasRulesSet, CaseKeepsSnapshot
<1>d. FailureHeld'
  <2> SUFFICES ASSUME NEW r \in Rules, NEW i \in 1 .. TrapSpan,
                      i <= TrapSpan - untilTrap'[KitOf[r]], failLog'[r][i]
               PROVE  setSgi'[r] \in held'
    BY DEF FailureHeld
  <2>1. untilTrap[k] \in 1 .. TrapSpan /\ TrapSpan \in Nat /\ i \in Nat /\ i >= 1
    BY SpansAssumption DEF IInv, TypeOK
  <2>2. CASE KitOf[r] = k
    <3>1. untilTrap[k] # 1 /\ untilTrap'[k] = untilTrap[k] - 1
      BY <2>1, <2>2, <1>4 DEF IInv, TypeOK
    <3>2. w = NoRule
      BY <3>1, <1>4
    <3>3. CASE i = 1
      <4>1. r \in F
        BY <2>2, <3>3, <1>9, <1>10
      <4> QED
        BY <4>1, <3>2, <1>12, <1>18, <1>11, <1>3, SetsAssumption
    <3>4. CASE i # 1
      <4>1. i - 1 \in 1 .. TrapSpan /\ i - 1 <= TrapSpan - untilTrap[k] /\ failLog[r][i - 1]
        BY <2>1, <2>2, <3>1, <3>4, <1>10
      <4>2. setSgi[r] \in held
        BY <4>1, <2>2 DEF IInv, FailureHeld
      <4>3. setSgi'[r] # 0
        BY <4>2, <1>11, <1>3, SetsAssumption DEF IInv, TypeOK
      <4> QED
        BY <4>2, <4>3, <3>2, <1>12, <1>18
    <3> QED
      BY <3>3, <3>4
  <2>3. CASE KitOf[r] # k
    <3>1. untilTrap'[KitOf[r]] = untilTrap[KitOf[r]] /\ failLog'[r] = failLog[r]
      BY <2>3, <1>4, <1>10, <1>12 DEF IInv, TypeOK
    <3>2. setSgi[r] \in held
      BY <3>1 DEF IInv, FailureHeld
    <3>3. r # w /\ r \notin F
      BY <2>3, <1>4, <1>5, <1>7, <1>12
    <3>4. setSgi'[r] # 0
      BY <3>2, <3>3, <1>11, SetsAssumption DEF IInv, TypeOK
    <3> QED
      BY <3>2, <3>3, <3>4, <1>18
  <2> QED
    BY <2>2, <2>3
<1>e. IsFiniteSet(cases)' /\ CasesWithinLimit'
  <2>1. CASE cases' = cases
    BY <2>1 DEF IInv, CasesWithinLimit
  <2>2. CASE /\ Cardinality(cases) < MaxCases
             /\ \E c : cases' = cases \cup {c}
    <3>1. PICK c : cases' = cases \cup {c}
      BY <2>2
    <3>2. IsFiniteSet(cases') /\ Cardinality(cases') <= Cardinality(cases) + 1
      <4>1. IsFiniteSet(cases)
        BY DEF IInv
      <4> QED
        BY <3>1, <4>1, FS_AddElement, FS_CardinalityType
    <3> QED
      BY <2>2, <3>2, FS_CardinalityType, CasesAssumption DEF IInv, CasesWithinLimit
  <2> QED
    BY <1>17, <2>1, <2>2
<1>f. TypeOK'
  <2>1. caseMode' \in [Rules -> BOOLEAN] /\ idleMode' \in [Rules -> BOOLEAN]
    BY <1>17, <1>2 DEF IInv, TypeOK
  <2>2. allIdle' \in [Kits -> BOOLEAN]
    BY <1>2 DEF ActOnTrap, IInv, TypeOK
  <2>3. bindex' \in [Rules -> Nat]
    BY <1>8, <1>9 DEF Bins
  <2>4. failLog' \in [Rules -> [1 .. TrapSpan -> BOOLEAN]]
    <3>1. ASSUME NEW r \in Rules
          PROVE  [i \in 1 .. TrapSpan |-> IF i = 1 THEN bindex'[r] = 0 ELSE failLog[r][i - 1]]
                     \in [1 .. TrapSpan -> BOOLEAN]
      <4>1. ASSUME NEW i \in 1 .. TrapSpan, i # 1
            PROVE  failLog[r][i - 1] \in BOOLEAN
        BY <4>1, SpansAssumption DEF IInv, TypeOK
      <4> QED
        BY <4>1
    <3> QED
      BY <3>1, <1>10 DEF IInv, TypeOK
  <2>5. untilTrap' \in [Kits -> 1 .. TrapSpan]
    BY <1>4, SpansAssumption DEF IInv, TypeOK
  <2>6. setSgi' \in [Rules -> Sets \cup {0}]
    BY <1>11, <1>14
  <2>7. held' \subseteq Sets /\ leaked' \in BOOLEAN
    BY <1>kp, <1>3 DEF IInv, TypeOK
  <2>8. cases' \subseteq [rule : Rules, set : Sets, sgi : Nat \ {0}]
    BY <1>17, <1>20 DEF Serial, IInv, TypeOK
  <2>9. nextSgi' \in Nat \ {0}
    BY <1>2 DEF ActOnTrap, OpenCase, SerialAfter, casekit, IInv, TypeOK
  <2>10. history' \in [Kits -> [1 .. History -> BOOLEAN]] /\ outputOkay' \in BOOLEAN
    <3> DEFINE failed == PinnedFailed(k, FailedNow(k)')
               h == [i \in 1 .. History |-> IF i = 1 THEN failed ELSE history[k][i - 1]]
    <3>1. history' = [history EXCEPT ![k] = h] /\ outputOkay' \in BOOLEAN
      BY <1>2 DEF Submit
    <3>2. failed \in BOOLEAN
      BY DEF PinnedFailed
    <3> HIDE DEF failed
    <3>3. ASSUME NEW i \in 1 .. History, i # 1
          PROVE  history[k][i - 1] \in BOOLEAN
      BY <3>3, SpansAssumption DEF IInv, TypeOK
    <3>4. h \in [1 .. History -> BOOLEAN]
      BY <3>2, <3>3
    <3> HIDE DEF h
    <3> QED
      BY <3>1, <3>4 DEF IInv, TypeOK
  <2>11. trapped' \in Rules \cup {NoRule} /\ wiped' \in Rules \cup {NoRule}
    BY <1>2, <1>4, <1>5
  <2> QED
    BY <2>1, <2>2, <2>3, <2>4, <2>5, <2>6, <2>7, <2>8, <2>9, <2>10, <2>11 DEF TypeOK
<1> QED
  BY <1>a, <1>b, <1>c, <1>sd, <1>d, <1>e, <1>f DEF IInv

-------------------------------------------------------------------------------
(* The other steps.                                                        *)

LEMMA InitIInv == Init => IInv
<1> SUFFICES ASSUME Init PROVE IInv
  OBVIOUS
<1>1. TypeOK
  <2>1. TrapSpan \in 1 .. TrapSpan
    BY SpansAssumption
  <2>2. /\ caseMode \in [Rules -> BOOLEAN] /\ idleMode \in [Rules -> BOOLEAN]
        /\ allIdle \in [Kits -> BOOLEAN] /\ bindex \in [Rules -> Nat]
        /\ setSgi \in [Rules -> Sets \cup {0}]
    BY DEF Init, Unavailable
  <2>3. /\ failLog \in [Rules -> [1 .. TrapSpan -> BOOLEAN]]
        /\ history \in [Kits -> [1 .. History -> BOOLEAN]]
    BY DEF Init
  <2>4. untilTrap \in [Kits -> 1 .. TrapSpan]
    BY <2>1 DEF Init
  <2>5. held = {} /\ cases = {} /\ nextSgi = 1 /\ trapped = NoRule /\ wiped = NoRule
    BY DEF Init
  <2>6. leaked \in BOOLEAN /\ outputOkay \in BOOLEAN
    BY DEF Init
  <2>7. /\ held \subseteq Sets /\ nextSgi \in Nat \ {0}
        /\ trapped \in Rules \cup {NoRule} /\ wiped \in Rules \cup {NoRule}
    BY <2>5
  <2>8. cases \subseteq [rule : Rules, set : Sets, sgi : Nat \ {0}]
    BY <2>5
  <2> QED
    BY <2>2, <2>3, <2>4, <2>6, <2>7, <2>8 DEF TypeOK
<1>2. ResultsInTable /\ CaseHasRulesSet /\ CaseKeepsSnapshot /\ SetsDistinct
  BY DEF Init, ResultsInTable, Bins, Unavailable, CaseHasRulesSet, CaseKeepsSnapshot, SetsDistinct
<1>3. CaseModeMeansCase
  BY DEF Init, CaseModeMeansCase, CasesOn
<1>4. FailureHeld
  BY DEF Init, FailureHeld
<1>5. IsFiniteSet(cases) /\ CasesWithinLimit
  BY FS_EmptySet, CasesAssumption DEF Init, CasesWithinLimit
<1> QED
  BY <1>1, <1>2, <1>3, <1>4, <1>5 DEF IInv

(* The knobs write the idle modes only, and never of a rule in case mode.   *)
LEMMA IdleKeeps ==
    ASSUME IInv, idleMode' \in [Rules -> BOOLEAN], allIdle' \in [Kits -> BOOLEAN],
           \A r \in Rules : caseMode[r] => ~idleMode'[r],
           UNCHANGED <<caseMode, results, snapshots, casekit>>
    PROVE  IInv'
<1>1. TypeOK' /\ ResultsInTable'
  BY DEF IInv, TypeOK, ResultsInTable, results, snapshots, casekit
<1>2. CaseModeMeansCase' /\ CaseHasRulesSet' /\ CaseKeepsSnapshot' /\ SetsDistinct'
  BY DEF IInv, CaseModeMeansCase, CasesOn, CaseHasRulesSet, CaseKeepsSnapshot, SetsDistinct,
         snapshots, casekit
<1>3. FailureHeld' /\ IsFiniteSet(cases)' /\ CasesWithinLimit'
  BY DEF IInv, FailureHeld, CasesWithinLimit, results, snapshots, casekit
<1> QED
  BY <1>1, <1>2, <1>3 DEF IInv

LEMMA DestroyKeeps ==
    ASSUME IInv, NEW c \in cases, DestroyCase(c)
    PROVE  IInv'
<1>1. /\ cases' = cases \ {c} /\ caseMode' = [caseMode EXCEPT ![c.rule] = FALSE]
      /\ setSgi' = setSgi /\ idleMode' = idleMode /\ allIdle' = allIdle
      /\ UNCHANGED results /\ nextSgi' = nextSgi
      /\ held' = held \cap (Range(setSgi) \cup {d.set : d \in cases'})
      /\ leaked' \in BOOLEAN
  BY DEF DestroyCase, CaseModeReset, Keep, IInv, TypeOK
<1>2. c.rule \in Rules
  BY DEF IInv, TypeOK
<1>3. \A r \in Rules : setSgi[r] \in held => setSgi[r] \in held'
  BY <1>1 DEF Range, IInv, TypeOK
<1>4. TypeOK'
  BY <1>1 DEF IInv, TypeOK, results
<1>5. ResultsInTable'
  BY <1>1, <1>2 DEF IInv, TypeOK, ResultsInTable, results
<1>6. CaseModeMeansCase'
  <2>1. ASSUME NEW r \in Rules, r # c.rule
        PROVE  CasesOn(r)' = CasesOn(r) /\ caseMode'[r] = caseMode[r]
    BY <1>1, <2>1 DEF CasesOn, IInv, TypeOK
  <2>2. CasesOn(c.rule)' = {} /\ ~caseMode'[c.rule]
    BY <1>1, <1>2 DEF CasesOn, IInv, TypeOK, CaseModeMeansCase
  <2>3. ASSUME NEW r \in Rules
        PROVE  /\ caseMode'[r] <=> CasesOn(r)' # {}
               /\ \A d, e \in CasesOn(r)' : d = e
    <3>1. CASE r = c.rule
      BY <3>1, <2>2
    <3>2. CASE r # c.rule
      BY <3>2, <2>1 DEF IInv, CaseModeMeansCase
    <3> QED
      BY <3>1, <3>2
  <2> QED
    BY <2>3 DEF CaseModeMeansCase
<1>7. CaseHasRulesSet' /\ SetsDistinct'
  BY <1>1 DEF IInv, CaseHasRulesSet, SetsDistinct
<1>8. CaseKeepsSnapshot'
  BY <1>1, <1>3 DEF IInv, TypeOK, CaseHasRulesSet, CaseKeepsSnapshot
<1>9. FailureHeld'
  BY <1>1, <1>3 DEF IInv, FailureHeld, results
<1>10. IsFiniteSet(cases)' /\ CasesWithinLimit'
  <2>1. IsFiniteSet(cases) /\ Cardinality(cases) <= MaxCases
    BY DEF IInv, CasesWithinLimit
  <2>2. IsFiniteSet(cases') /\ Cardinality(cases') = Cardinality(cases) - 1
    BY <1>1, <2>1, FS_RemoveElement
  <2> QED
    BY <2>1, <2>2, FS_CardinalityType, CasesAssumption DEF CasesWithinLimit
<1> QED
  BY <1>4, <1>5, <1>6, <1>7, <1>8, <1>9, <1>10 DEF IInv

LEMMA NextIInv == IInv /\ [Next]_vars => IInv'
<1> SUFFICES ASSUME IInv, [Next]_vars PROVE IInv'
  OBVIOUS
<1>1. CASE \E k \in Kits : Cycle(k)
  BY <1>1, CycleKeeps
<1>2. CASE \E r \in Rules, wanted \in BOOLEAN : SetRuleIdle(r, wanted)
  <2>1. PICK r \in Rules, wanted \in BOOLEAN : SetRuleIdle(r, wanted)
    BY <1>2
  <2>2. idleMode' = [idleMode EXCEPT ![r] = wanted /\ ~caseMode[r]]
    BY <2>1 DEF SetRuleIdle, IdleModeSet
  <2>3. ASSUME NEW q \in Rules
        PROVE  idleMode'[q] = IF q = r THEN wanted /\ ~caseMode[r] ELSE idleMode[q]
    BY <2>2 DEF IInv, TypeOK
  <2>4. \A q \in Rules : caseMode[q] => ~idleMode'[q]
    BY <2>3 DEF IInv, ResultsInTable
  <2>5. idleMode' \in [Rules -> BOOLEAN]
    BY <2>2 DEF IInv, TypeOK
  <2> QED
    BY <2>1, <2>4, <2>5, IdleKeeps DEF SetRuleIdle, IInv, TypeOK
<1>3. CASE \E k \in Kits, wanted \in BOOLEAN : SetAllIdle(k, wanted)
  <2>1. PICK k \in Kits, wanted \in BOOLEAN : SetAllIdle(k, wanted)
    BY <1>3
  <2>2. idleMode' = [q \in Rules |-> IF KitOf[q] = k THEN wanted /\ ~caseMode[q]
                                                      ELSE idleMode[q]]
    BY <2>1 DEF SetAllIdle, IdleModeSet
  <2>3. \A q \in Rules : caseMode[q] => ~idleMode'[q]
    BY <2>2 DEF IInv, ResultsInTable
  <2>4. idleMode' \in [Rules -> BOOLEAN] /\ allIdle' \in [Kits -> BOOLEAN]
    BY <2>1, <2>2 DEF SetAllIdle, IInv, TypeOK
  <2> QED
    BY <2>1, <2>3, <2>4, IdleKeeps DEF SetAllIdle
<1>4. CASE \E c \in cases : DestroyCase(c)
  BY <1>4, DestroyKeeps
<1>5. CASE UNCHANGED vars
  <2>1. UNCHANGED <<caseMode, idleMode, allIdle, results, snapshots, casekit>>
    BY <1>5 DEF vars
  <2> QED
    BY <2>1, IdleKeeps DEF IInv, TypeOK, ResultsInTable
<1> QED
  BY <1>1, <1>2, <1>3, <1>4, <1>5 DEF Next

-------------------------------------------------------------------------------
(* Theorems.                                                               *)

LEMMA Inductive == Spec => []IInv
BY InitIInv, NextIInv, PTL DEF Spec

(* The state of every subject's kits (rule.cpp, rainfall.cpp) is well typed. *)
THEOREM TypeCorrect == Spec => []TypeOK
<1>1. IInv => TypeOK
  BY DEF IInv
<1> QED
  BY <1>1, Inductive, PTL

(* No order of knobs, traps and closed cases makes CycleAndSayBindex return  *)
(* a result outside the tables it indexes.                                 *)
THEOREM InTable == Spec => []ResultsInTable
<1>1. IInv => ResultsInTable
  BY DEF IInv
<1> QED
  BY <1>1, Inductive, PTL

(* SetCaseModeTo is called with TRUE and FALSE in pairs: a rule is in case   *)
(* mode exactly while the one case on it exists.                           *)
THEOREM OneCase == Spec => []CaseModeMeansCase
<1>1. IInv => CaseModeMeansCase
  BY DEF IInv
<1> QED
  BY <1>1, Inductive, PTL

(* A case is opened on a snapshot set that exists, and DestroySnapshotSet    *)
(* never takes it away before the case is closed.                          *)
THEOREM SnapshotKept == Spec => []CaseKeepsSnapshot
<1>1. IInv => CaseKeepsSnapshot
  BY DEF IInv
<1> QED
  BY <1>1, Inductive, PTL

(* CreateAndOwnCase keeps the case kit of a subject within its limit.        *)
THEOREM WithinLimit == Spec => []CasesWithinLimit
<1>1. IInv => CasesWithinLimit
  BY DEF IInv
<1> QED
  BY <1>1, Inductive, PTL

(* CRuleKit::Cycle posts an alert only about a rule in auto mode, and opens  *)
(* a new case on it unless the case kit is full.                           *)
THEOREM Alerted == Spec => AlertMeansCase
<1> DEFINE A == trapped' # trapped /\ trapped' # NoRule =>
                    /\ InAutoMode(trapped')
                    /\ Cardinality(cases) < MaxCases =>
                           \E c \in cases' \ cases : c.rule = trapped'
<1>1. IInv /\ [Next]_vars => [A]_vars
  <2> SUFFICES ASSUME IInv, [Next]_vars, trapped' # trapped, trapped' # NoRule
               PROVE  /\ InAutoMode(trapped')
                      /\ Cardinality(cases) < MaxCases =>
                             \E c \in cases' \ cases : c.rule = trapped'
    OBVIOUS
  <2>1. PICK k \in Kits : Cycle(k)
    BY DEF Next, SetRuleIdle, SetAllIdle, DestroyCase, results, vars
  <2>2. PICK w : Trap(k, trapped', w) /\ ActOnTrap(k, trapped')
    BY <2>1 DEF Cycle, CycleWith
  <2>3. trapped' \in Rules /\ InAutoMode(trapped')
    BY <2>2, TrapFacts DEF IInv, RulesOf
  <2>4. ASSUME Cardinality(cases) < MaxCases
        PROVE  \E c \in cases' \ cases : c.rule = trapped'
    <3> DEFINE new == [rule |-> trapped', set |-> setSgi'[trapped'], sgi |-> Serial(nextSgi)]
    <3>1. new \in cases'
      BY <2>2, <2>3, <2>4 DEF ActOnTrap, OpenCase, HasRoom
    <3>2. new.rule = trapped' /\ CasesOn(trapped') = {}
      BY <2>3 DEF IInv, CaseModeMeansCase, InAutoMode
    <3> HIDE DEF new
    <3> QED
      BY <3>1, <3>2 DEF CasesOn
  <2> QED
    BY <2>3, <2>4
<1>2. Spec => [][A]_vars
  BY <1>1, Inductive, PTL DEF Spec
<1> QED
  BY <1>2 DEF AlertMeansCase

-------------------------------------------------------------------------------
(* The verdict about the output of the subject.  The history of a kit       *)
(* covers what is known of its failures (HistoryCovers), and a verdict is   *)
(* never older than the histories (VerdictCurrent): each cycle writes the   *)
(* history of its kit before it says what all of them make of it.           *)

HistoryCovers ==
    \A k \in Kits :
        /\ PinnedFailed(k, FailedNow(k)) => history[k][1]
        /\ \A i \in 1 .. TrapSpan :
              i <= History /\ PinnedFailed(k, FailedBefore(k, i)) => history[k][i]

VerdictCurrent == outputOkay = (\A k \in Kits : Recent(history[k]) = {})

LEMMA CycleCovers ==
    ASSUME TypeOK, HistoryCovers, NEW k \in Kits, Cycle(k)
    PROVE  HistoryCovers' /\ VerdictCurrent'
<1>1. PICK out : Test(k, out) /\ Submit(k)
  BY DEF Cycle, CycleWith
<1> DEFINE failed == PinnedFailed(k, FailedNow(k)')
<1>2. /\ history' = [history EXCEPT ![k] =
             [i \in 1 .. History |-> IF i = 1 THEN failed ELSE history[k][i - 1]]]
      /\ VerdictCurrent'
  BY <1>1 DEF Submit, VerdictCurrent
<1>3. /\ \A i \in 1 .. History : history'[k][i] = IF i = 1 THEN failed ELSE history[k][i - 1]
      /\ \A q \in Kits \ {k} : history'[q] = history[q]
      /\ 1 \in 1 .. History
  BY <1>2, SpansAssumption DEF TypeOK
<1>4. /\ failed => history'[k][1]
      /\ \A i \in 1 .. TrapSpan :
            i <= History /\ PinnedFailed(k, FailedBefore(k, i)') => history'[k][i]
  <2>1. failed => history'[k][1]
    <3> HIDE DEF failed
    <3> QED
      BY <1>3
  <2>2. ASSUME NEW i \in 1 .. TrapSpan, i <= History, PinnedFailed(k, FailedBefore(k, i)')
        PROVE  history'[k][i]
    <3>1. \A r \in RulesOf(k) :
             failLog'[r][i] = IF i = 1 THEN bindex'[r] = 0 ELSE failLog[r][i - 1]
      BY <1>1 DEF Test, RulesOf
    <3>2. CASE i = 1
      <4>1. FailedBefore(k, i)' \subseteq FailedNow(k)'
        BY <3>1, <3>2 DEF FailedBefore, FailedNow, FailedInAnyMode
      <4> QED
        BY <2>1, <2>2, <3>2, <4>1 DEF PinnedFailed
    <3>3. CASE i # 1
      <4>1. i - 1 \in 1 .. TrapSpan /\ i - 1 <= History /\ i \in 1 .. History
        BY <2>2, <3>3, SpansAssumption
      <4>2. FailedBefore(k, i)' = FailedBefore(k, i - 1)
        BY <3>1, <3>3 DEF FailedBefore
      <4>3. history[k][i - 1]
        BY <2>2, <4>1, <4>2 DEF HistoryCovers
      <4> QED
        BY <1>3, <3>3, <4>1, <4>3
    <3> QED
      BY <3>2, <3>3
  <2> QED
    BY <2>1, <2>2
<1>5. ASSUME NEW q \in Kits \ {k}
      PROVE  /\ FailedNow(q)' = FailedNow(q) /\ history'[q] = history[q]
             /\ \A i \in 1 .. TrapSpan : FailedBefore(q, i)' = FailedBefore(q, i)
  <2>1. \A r \in RulesOf(q) : bindex'[r] = bindex[r] /\ failLog'[r] = failLog[r]
    BY <1>1 DEF Test, RulesOf
  <2> QED
    BY <1>3, <2>1 DEF FailedNow, FailedBefore
<1> HIDE DEF failed
<1>6. HistoryCovers'
  <2> SUFFICES ASSUME NEW q \in Kits
               PROVE  /\ PinnedFailed(q, FailedNow(q)') => history'[q][1]
                      /\ \A i \in 1 .. TrapSpan :
                            i <= History /\ PinnedFailed(q, FailedBefore(q, i)')
                                => history'[q][i]
    BY DEF HistoryCovers, PinnedFailed
  <2>1. CASE q = k
    BY <1>4, <2>1 DEF failed
  <2>2. CASE q # k
    BY <1>5, <2>2 DEF HistoryCovers
  <2> QED
    BY <2>1, <2>2
<1> QED
  BY <1>2, <1>6

LEMMA AlwaysCovers == Spec => [](HistoryCovers /\ VerdictCurrent)
<1>1. Init => HistoryCovers /\ VerdictCurrent
  <2> SUFFICES ASSUME Init PROVE HistoryCovers /\ VerdictCurrent
    OBVIOUS
  <2>1. \A k \in Kits : /\ FailedNow(k) = {}
                        /\ \A i \in 1 .. TrapSpan : FailedBefore(k, i) = {}
    BY DEF Init, FailedNow, FailedBefore, FailedInAnyMode, Unavailable, RulesOf
  <2>2. HistoryCovers
    BY <2>1 DEF HistoryCovers, PinnedFailed
  <2>3. \A k \in Kits : Recent(history[k]) = {}
    BY DEF Init, Recent
  <2> QED
    BY <2>2, <2>3 DEF Init, VerdictCurrent
<1>2. TypeOK /\ HistoryCovers /\ VerdictCurrent /\ [Next]_vars => (HistoryCovers /\ VerdictCurrent)'
  <2> SUFFICES ASSUME TypeOK, HistoryCovers, VerdictCurrent, [Next]_vars
               PROVE  HistoryCovers' /\ VerdictCurrent'
    OBVIOUS
  <2>1. CASE \E k \in Kits : Cycle(k)
    BY <2>1, CycleCovers
  <2>2. CASE UNCHANGED results
    BY <2>2 DEF results, HistoryCovers, VerdictCurrent, FailedNow, FailedBefore, PinnedFailed
  <2> QED
    BY <2>1, <2>2 DEF Next, vars, SetRuleIdle, SetAllIdle, DestroyCase
<1> QED
  BY <1>1, <1>2, TypeCorrect, PTL DEF Spec

(* A failure that meets the mark of a pinned rule, now or within the        *)
(* history, is in the verdict.                                              *)
LEMMA CoveredShows ==
    ASSUME HistoryCovers, VerdictCurrent, NEW k \in Kits,
           \/ PinnedFailed(k, FailedNow(k))
           \/ \E i \in 1 .. TrapSpan : i <= History /\ PinnedFailed(k, FailedBefore(k, i))
    PROVE  ~outputOkay
<1>1. \E i \in 1 .. History : history[k][i]
  BY SpansAssumption DEF HistoryCovers
<1> QED
  BY <1>1 DEF VerdictCurrent, Recent

(* As many places as a set of rules has members.                            *)
LEMMA PlacesOf ==
    ASSUME NEW k \in Kits, NEW place \in {TestPlace, LogPlace}, NEW R \in SUBSET RulesOf(k)
    PROVE  /\ IsFiniteSet(R)
           /\ IsFiniteSet({place[r] : r \in R})
           /\ Cardinality({place[r] : r \in R}) = Cardinality(R)
           /\ {place[r] : r \in R} \subseteq 1 .. Cardinality(RulesOf(k))
<1>1. IsFiniteSet(RulesOf(k)) /\ IsFiniteSet(R)
  <2>1. RulesOf(k) \subseteq Rules
    BY DEF RulesOf
  <2> QED
    BY <2>1, RulesAssumption, FS_Subset
<1>2. /\ \A r \in R : place[r] \in Nat \ {0} /\ place[r] <= Cardinality(RulesOf(k))
      /\ \A q, r \in R : place[q] = place[r] => q = r
  BY PlacesAssumption DEF RulesOf
<1> DEFINE f == [r \in R |-> place[r]]
           T == {place[r] : r \in R}
<1>3. f \in Surjection(R, T) /\ f \in Injection(R, T)
  BY <1>2 DEF Surjection, Injection, IsInjective
<1>4. T \subseteq 1 .. Cardinality(RulesOf(k))
  BY <1>1, <1>2, FS_CardinalityType
<1> HIDE DEF f, T
<1>5. IsFiniteSet(T) /\ Cardinality(T) = Cardinality(R)
  BY <1>1, <1>3, FS_Surjection
<1> QED
  BY <1>1, <1>4, <1>5 DEF T

(* More failures and pinned rules than rules can not be all at different    *)
(* places.                                                                  *)
LEMMA OutnumberedMeet ==
    ASSUME NEW k \in Kits, NEW failed \in SUBSET RulesOf(k), OutnumberUnpinned(k, failed)
    PROVE  PinnedFailed(k, failed)
<1> DEFINE n == Cardinality(RulesOf(k))
           P == RulesOf(k) \cap Pinned
           F == {TestPlace[q] : q \in failed}
           M == {LogPlace[r] : r \in P}
<1>1. /\ IsFiniteSet(F) /\ Cardinality(F) = Cardinality(failed) /\ F \subseteq 1 .. n
      /\ IsFiniteSet(M) /\ Cardinality(M) = Cardinality(P) /\ M \subseteq 1 .. n
      /\ n \in Nat
  <2>1. P \subseteq RulesOf(k) /\ RulesOf(k) \subseteq RulesOf(k)
    OBVIOUS
  <2> HIDE DEF P
  <2>2. IsFiniteSet(RulesOf(k))
    BY <2>1, PlacesOf
  <2> QED
    BY <2>1, <2>2, PlacesOf, FS_CardinalityType
<1>2. Cardinality(F) + Cardinality(M) > n
  BY <1>1 DEF OutnumberUnpinned
<1>3. F \cap M # {}
  <2> SUFFICES ASSUME F \cap M = {} PROVE FALSE
    OBVIOUS
  <2> HIDE DEF F, M, n
  <2>0. Cardinality(F) \in Nat /\ Cardinality(M) \in Nat
    BY <1>1, FS_CardinalityType
  <2>1. IsFiniteSet(1 .. n) /\ Cardinality(1 .. n) = n
    BY <1>1, FS_Interval
  <2>2. Cardinality(F \cup M) = Cardinality(F) + Cardinality(M)
    <3>1. Cardinality(F \cup M) = Cardinality(F) + Cardinality(M) - Cardinality(F \cap M)
      BY <1>1, FS_Union
    <3>2. Cardinality(F \cap M) = 0
      BY FS_EmptySet
    <3> QED
      BY <2>0, <3>1, <3>2
  <2>3. Cardinality(F \cup M) <= n
    <3>1. F \cup M \in SUBSET (1 .. n)
      BY <1>1
    <3> DEFINE U == F \cup M
               N == 1 .. n
    <3> HIDE DEF U, N
    <3>2. Cardinality(U) <= Cardinality(N)
      BY <2>1, <3>1, FS_Subset DEF U, N
    <3> QED
      BY <2>1, <3>2 DEF U, N
  <2> QED
    BY <1>1, <1>2, <2>0, <2>2, <2>3
<1> QED
  BY <1>3 DEF PinnedFailed

(* For any kits, pins, orders of their tables, trap span and length of the  *)
(* history, and whatever the user idles: SubmitTrueIfGotFailOnPinnedRule    *)
(* has told the subject of failures that outnumber the rules not pinned.    *)
THEOREM FailureTold == Spec => []EnoughFailuresShow
<1>1. HistoryCovers /\ VerdictCurrent => EnoughFailuresShow
  <2> SUFFICES ASSUME HistoryCovers, VerdictCurrent, NEW k \in Kits,
                      \/ OutnumberUnpinned(k, FailedNow(k))
                      \/ \E i \in 1 .. TrapSpan :
                            i <= History /\ OutnumberUnpinned(k, FailedBefore(k, i))
               PROVE  ~outputOkay
    BY DEF EnoughFailuresShow
  <2>1. /\ FailedNow(k) \in SUBSET RulesOf(k)
        /\ \A i \in 1 .. TrapSpan : FailedBefore(k, i) \in SUBSET RulesOf(k)
    BY DEF FailedNow, FailedBefore
  <2>2. \/ PinnedFailed(k, FailedNow(k))
        \/ \E i \in 1 .. TrapSpan : i <= History /\ PinnedFailed(k, FailedBefore(k, i))
    BY <2>1, OutnumberedMeet
  <2> QED
    BY <2>2, CoveredShows
<1> QED
  BY <1>1, AlwaysCovers, PTL

(* What it takes for each failure of a pinned rule to be told: tables that  *)
(* are walked in the same order.                                            *)
THEOREM FailureToldInOrder ==
    ASSUME TestPlace = LogPlace
    PROVE  Spec => []PinnedFailureShows
<1>1. HistoryCovers /\ VerdictCurrent => PinnedFailureShows
  <2> SUFFICES ASSUME HistoryCovers, VerdictCurrent, NEW r \in Pinned,
                      FailedInAnyMode(bindex[r])
               PROVE  ~outputOkay
    BY DEF PinnedFailureShows
  <2>1. KitOf[r] \in Kits /\ r \in RulesOf(KitOf[r])
    BY RulesAssumption DEF RulesOf
  <2>2. PinnedFailed(KitOf[r], FailedNow(KitOf[r]))
    BY <2>1 DEF PinnedFailed, FailedNow
  <2> QED
    BY <2>1, <2>2, CoveredShows
<1> QED
  BY <1>1, AlwaysCovers, PTL

-------------------------------------------------------------------------------
(* The serial numbers of cases.                                            *)

(* What the user is told of a case names it by its serial: two open cases   *)
(* carry the same one only when the serials have run out, and then it is 1. *)
SerialsTell ==
    \A c, d \in cases : c # d /\ c.sgi = d.sgi => c.sgi = 1 /\ nextSgi = SgiWrap

(* Serials are given upwards, and the last one is never given.             *)
SerialsUpwards ==
    /\ nextSgi \in 1 .. SgiWrap
    /\ \A c \in cases : \/ c.sgi < nextSgi
                        \/ c.sgi = 1 /\ nextSgi = SgiWrap

(* GenerateAndSaySgiForNewCase tells the open cases of a subject apart as    *)
(* long as fewer than SgiWrap have been opened: cases that are closed and    *)
(* others opened in between never bring a number back while it is in use,    *)
(* except the 1 of every case after those.                                 *)
THEOREM SerialsDistinct == Spec => []SerialsTell
<1>1. Init => SerialsUpwards /\ SerialsTell
  BY CasesAssumption DEF Init, SerialsUpwards, SerialsTell
<1>2. TypeOK /\ SerialsUpwards /\ SerialsTell /\ [Next]_vars => (SerialsUpwards /\ SerialsTell)'
  <2> SUFFICES ASSUME TypeOK, SerialsUpwards, SerialsTell, [Next]_vars
               PROVE  SerialsUpwards' /\ SerialsTell'
    OBVIOUS
  <2>0. /\ nextSgi \in 1 .. SgiWrap /\ SgiWrap \in Nat
        /\ \A c \in cases : c.sgi \in Nat \ {0}
    BY CasesAssumption DEF TypeOK, SerialsUpwards
  <2>1. CASE cases' \subseteq cases /\ nextSgi' = nextSgi
    BY <2>1 DEF SerialsUpwards, SerialsTell
  <2>2. ASSUME NEW t, OpenCase(t) PROVE SerialsUpwards' /\ SerialsTell'
    <3> DEFINE new == [rule |-> t, set |-> setSgi'[t], sgi |-> Serial(nextSgi)]
    <3>1. /\ cases' = cases \cup {new} /\ nextSgi' = SerialAfter(nextSgi)
          /\ new.sgi = Serial(nextSgi)
      BY <2>2 DEF OpenCase
    <3> HIDE DEF new
    <3>2. CASE nextSgi < SgiWrap
      <4>1. nextSgi' = nextSgi + 1 /\ new.sgi = nextSgi
        BY <3>1, <3>2 DEF Serial, SerialAfter
      <4>2. \A c \in cases : c.sgi < nextSgi
        BY <3>2, <2>0 DEF SerialsUpwards
      <4>3. SerialsUpwards'
        BY <2>0, <3>1, <3>2, <4>1, <4>2 DEF SerialsUpwards
      <4>4. ASSUME NEW c \in cases', NEW d \in cases', c # d PROVE c.sgi # d.sgi
        <5>1. CASE c \in cases /\ d \in cases
          BY <2>0, <3>2, <4>4, <5>1 DEF SerialsTell
        <5>2. CASE c = new /\ d \in cases
          BY <2>0, <4>1, <4>2, <5>2
        <5>3. CASE d = new /\ c \in cases
          BY <2>0, <4>1, <4>2, <5>3
        <5> QED
          BY <3>1, <4>4, <5>1, <5>2, <5>3
      <4> QED
        BY <4>3, <4>4 DEF SerialsTell
    <3>3. CASE ~(nextSgi < SgiWrap)
      <4>1. nextSgi' = SgiWrap /\ nextSgi = SgiWrap /\ new.sgi = 1
        BY <2>0, <3>1, <3>3 DEF Serial, SerialAfter
      <4>2. SerialsUpwards'
        BY <2>0, <3>1, <4>1 DEF SerialsUpwards
      <4>3. ASSUME NEW c \in cases', NEW d \in cases', c # d, c.sgi = d.sgi PROVE c.sgi = 1
        BY <3>1, <4>1, <4>3 DEF SerialsTell
      <4> QED
        BY <4>1, <4>2, <4>3 DEF SerialsTell
    <3> QED
      BY <3>2, <3>3
  <2>3. CASE \E k \in Kits : Cycle(k)
    <3>1. PICK t : \E k \in Kits : ActOnTrap(k, t)
      BY <2>3 DEF Cycle, CycleWith
    <3> QED
      BY <2>1, <2>2, <3>1 DEF ActOnTrap, casekit
  <2>4. CASE \E c \in cases : DestroyCase(c)
    BY <2>1, <2>4 DEF DestroyCase
  <2>5. CASE UNCHANGED casekit
    BY <2>1, <2>5 DEF casekit
  <2> QED
    BY <2>3, <2>4, <2>5 DEF Next, vars, SetRuleIdle, SetAllIdle
<1> QED
  BY <1>1, <1>2, TypeCorrect, PTL DEF Spec

-------------------------------------------------------------------------------
(* The decision of a trap.                                                 *)

(* A set of numbers has a least one, and of those with the least value of a *)
(* function there is a first.                                               *)
LEMMA LeastNumber ==
    ASSUME NEW S \in SUBSET Nat, S # {}
    PROVE  \E m \in S : \A n \in S : m <= n
<1>1. PICK m \in S : \A n \in S : ~ (<<n, m>> \in OpToRel(<, Nat))
  BY NatLessThanWellFounded, WFMin
<1>2. ASSUME NEW n \in S PROVE m <= n
  <2>1. m \in Nat /\ n \in Nat
    OBVIOUS
  <2>2. ~ (n < m)
    BY <1>1, <2>1 DEF OpToRel
  <2> QED
    BY <2>1, <2>2
<1> QED
  BY <1>2

LEMMA FirstOfTheLeast ==
    ASSUME NEW R, R # {}, NEW f \in [R -> Nat], NEW place, \A r \in R : place[r] \in Nat
    PROVE  \E m \in R : \A r \in R : \/ f[m] < f[r]
                                     \/ f[m] = f[r] /\ place[m] <= place[r]
<1>1. PICK v \in {f[r] : r \in R} : \A u \in {f[r] : r \in R} : v <= u
  <2>1. {f[r] : r \in R} \in SUBSET Nat /\ {f[r] : r \in R} # {}
    OBVIOUS
  <2> QED
    BY <2>1, LeastNumber
<1> DEFINE L == {r \in R : f[r] = v}
<1>2. PICK p \in {place[r] : r \in L} : \A o \in {place[r] : r \in L} : p <= o
  <2>1. {place[r] : r \in L} \in SUBSET Nat /\ {place[r] : r \in L} # {}
    BY <1>1
  <2> QED
    BY <2>1, LeastNumber
<1>3. PICK m \in L : place[m] = p
  OBVIOUS
<1>4. \A r \in R : \/ f[m] < f[r]
                   \/ f[m] = f[r] /\ place[m] <= place[r]
  <2> SUFFICES ASSUME NEW r \in R PROVE \/ f[m] < f[r]
                                        \/ f[m] = f[r] /\ place[m] <= place[r]
    OBVIOUS
  <2>1. f[m] = v /\ v <= f[r] /\ v \in Nat /\ f[r] \in Nat
    BY <1>1
  <2>2. f[r] = v => p <= place[r]
    BY <1>2
  <2> QED
    BY <1>3, <2>1, <2>2
<1> QED
  BY <1>3, <1>4

(* A trap counts at most its span of failures of each rule, and of a kit no *)
(* fewer than of one of its rules.                                         *)
LEMMA FailsCounted ==
    ASSUME NEW k \in Kits, NEW log, NEW r \in RulesOf(k)
    PROVE  /\ NumFails(r, log) \in 0 .. TrapSpan
           /\ Cardinality(AllFails(k, log)) \in Nat
           /\ NumFails(r, log) <= Cardinality(AllFails(k, log))
<1>1. IsFiniteSet(1 .. TrapSpan) /\ Cardinality(1 .. TrapSpan) = TrapSpan
  BY FS_Interval, SpansAssumption
<1>2. IsFiniteSet(RulesOf(k))
  BY FS_Subset, RulesAssumption DEF RulesOf
<1>3. Fails(r, log) \subseteq 1 .. TrapSpan
  BY DEF Fails
<1>4. IsFiniteSet(Fails(r, log)) /\ NumFails(r, log) \in 0 .. TrapSpan
  BY <1>1, <1>3, FS_Subset, FS_CardinalityType, SpansAssumption DEF NumFails
<1>5. IsFiniteSet(AllFails(k, log))
  <2>1. IsFiniteSet(RulesOf(k) \X (1 .. TrapSpan))
    BY <1>1, <1>2, FS_Product
  <2>2. AllFails(k, log) \subseteq RulesOf(k) \X (1 .. TrapSpan)
    BY DEF AllFails
  <2> QED
    BY <2>1, <2>2, FS_Subset
<1> DEFINE name == [i \in Fails(r, log) |-> <<r, i>>]
<1>6. name \in Injection(Fails(r, log), AllFails(k, log))
  <2>1. \A i \in Fails(r, log) : <<r, i>> \in AllFails(k, log)
    BY <1>3 DEF AllFails
  <2> QED
    BY <2>1 DEF Injection, IsInjective
<1> QED
  <2> HIDE DEF name
  <2> QED
    BY <1>4, <1>5, <1>6, FS_CardinalityType, FS_Injection DEF NumFails

(* The rule with the most failures is determined, and so is the one with    *)
(* the least.                                                              *)
LEMMA MostAndLeast ==
    ASSUME NEW k \in Kits, NEW log, RulesOf(k) # {}
    PROVE  /\ \E t : Trapped(k, t, log)
           /\ \A t, u : Trapped(k, t, log) /\ Trapped(k, u, log) => t = u
           /\ \E l : Least(k, l, log)
           /\ \A l, m : Least(k, l, log) /\ Least(k, m, log) => l = m
<1>0. /\ \A r \in RulesOf(k) : LogPlace[r] \in Nat
      /\ \A q, r \in RulesOf(k) : LogPlace[q] = LogPlace[r] => q = r
  BY PlacesAssumption DEF RulesOf
<1>1. \A r \in RulesOf(k) : NumFails(r, log) \in 0 .. TrapSpan /\ TrapSpan \in Nat
  BY FailsCounted, SpansAssumption
<1>2. \A r \in RulesOf(k) : Score(r, log) \in Nat
  BY <1>1 DEF Score
<1>3. \E t : Trapped(k, t, log)
  <2> DEFINE f == [r \in RulesOf(k) |-> TrapSpan - NumFails(r, log)]
  <2>1. f \in [RulesOf(k) -> Nat]
    BY <1>1
  <2>2. PICK t \in RulesOf(k) : \A r \in RulesOf(k) : \/ f[t] < f[r]
                                                      \/ f[t] = f[r] /\ LogPlace[t] <= LogPlace[r]
    <3> HIDE DEF f
    <3> QED
      BY <1>0, <2>1, FirstOfTheLeast
  <2>3. \A r \in RulesOf(k) : \/ NumFails(r, log) < NumFails(t, log)
                              \/ /\ NumFails(r, log) = NumFails(t, log)
                                 /\ LogPlace[t] <= LogPlace[r]
    BY <1>1, <2>2
  <2> QED
    BY <2>3 DEF Trapped
<1>4. ASSUME NEW t, NEW u, Trapped(k, t, log), Trapped(k, u, log) PROVE t = u
  <2>1. t \in RulesOf(k) /\ u \in RulesOf(k) /\ LogPlace[t] \in Nat /\ LogPlace[u] \in Nat
    BY <1>0, <1>4 DEF Trapped
  <2>2. /\ \/ NumFails(u, log) < NumFails(t, log)
           \/ NumFails(u, log) = NumFails(t, log) /\ LogPlace[t] <= LogPlace[u]
        /\ \/ NumFails(t, log) < NumFails(u, log)
           \/ NumFails(t, log) = NumFails(u, log) /\ LogPlace[u] <= LogPlace[t]
    BY <1>4, <2>1 DEF Trapped
  <2>3. NumFails(t, log) \in Nat /\ NumFails(u, log) \in Nat
    BY <1>1, <2>1
  <2> QED
    BY <1>0, <2>1, <2>2, <2>3
<1>5. \E l : Least(k, l, log)
  <2> DEFINE f == [r \in RulesOf(k) |-> Score(r, log)]
  <2>1. f \in [RulesOf(k) -> Nat]
    BY <1>2
  <2>2. PICK l \in RulesOf(k) : \A r \in RulesOf(k) : \/ f[l] < f[r]
                                                      \/ f[l] = f[r] /\ LogPlace[l] <= LogPlace[r]
    <3> HIDE DEF f
    <3> QED
      BY <1>0, <2>1, FirstOfTheLeast
  <2>3. \A r \in RulesOf(k) : \/ Score(r, log) > Score(l, log)
                              \/ /\ Score(r, log) = Score(l, log)
                                 /\ LogPlace[l] <= LogPlace[r]
    BY <1>2, <2>2
  <2> QED
    BY <2>3 DEF Least
<1>6. ASSUME NEW l, NEW m, Least(k, l, log), Least(k, m, log) PROVE l = m
  <2>1. l \in RulesOf(k) /\ m \in RulesOf(k) /\ LogPlace[l] \in Nat /\ LogPlace[m] \in Nat
    BY <1>0, <1>6 DEF Least
  <2>2. /\ \/ Score(m, log) > Score(l, log)
           \/ Score(m, log) = Score(l, log) /\ LogPlace[l] <= LogPlace[m]
        /\ \/ Score(l, log) > Score(m, log)
           \/ Score(l, log) = Score(m, log) /\ LogPlace[m] <= LogPlace[l]
    BY <1>6, <2>1 DEF Least
  <2>3. Score(l, log) \in Nat /\ Score(m, log) \in Nat
    BY <1>2, <2>1
  <2> QED
    BY <1>0, <2>1, <2>2, <2>3
<1> QED
  BY <1>3, <1>4, <1>5, <1>6

(* EnableTrapAndSayResult: whatever the log and the modes of the rules, a    *)
(* trap has exactly one outcome; it names rules of its kit, or none, and     *)
(* the rule to wipe is never the trapped one.                              *)
THEOREM TrapDecides ==
    ASSUME NEW k \in Kits, NEW log
    PROVE  \E t, w \in RulesOf(k) \cup {NoRule} :
               /\ TrapResult(k, t, w, log)
               /\ t # NoRule => t # w
               /\ \A u, v : TrapResult(k, u, v, log) => u = t /\ v = w
<1>1. CASE Cardinality(AllFails(k, log)) > EmptyTrap
  <2>1. RulesOf(k) # {}
    <3>1. AllFails(k, log) # {}
      BY <1>1, FS_EmptySet, SpansAssumption
    <3> QED
      BY <3>1 DEF AllFails
  <2>2. PICK t : Trapped(k, t, log)
    BY <2>1, MostAndLeast
  <2>3. PICK l : Least(k, l, log)
    BY <2>1, MostAndLeast
  <2>4. t \in RulesOf(k) /\ l \in RulesOf(k) /\ NoRule \notin RulesOf(k)
    BY <2>2, <2>3, RulesAssumption DEF Trapped, Least, RulesOf
  <2> DEFINE w == IF l = t THEN NoRule ELSE l
  <2>5. TrapResult(k, t, w, log)
    BY <1>1, <2>2, <2>3, <2>4 DEF TrapResult
  <2>6. ASSUME NEW u, NEW v, TrapResult(k, u, v, log) PROVE u = t /\ v = w
    <3>1. Trapped(k, u, log)
      BY <1>1, <2>6 DEF TrapResult
    <3>2. u = t
      BY <2>1, <2>2, <3>1, MostAndLeast
    <3>3. PICK m \in RulesOf(k) : Least(k, m, log) /\ v = (IF m = u THEN NoRule ELSE m)
      BY <1>1, <2>6 DEF TrapResult
    <3>4. m = l
      BY <2>1, <2>3, <3>3, MostAndLeast
    <3> QED
      BY <3>2, <3>3, <3>4
  <2> QED
    BY <2>4, <2>5, <2>6
<1>2. CASE ~(Cardinality(AllFails(k, log)) > EmptyTrap)
  BY <1>2 DEF TrapResult
<1> QED
  BY <1>1, <1>2

-------------------------------------------------------------------------------
(* What NoSilentFailure rests on in every step: the traps of a kit keep     *)
(* coming, one in TrapSpan of its cycles and none by anything else; and a   *)
(* trap does not pass over a rule in auto mode with more failures than an   *)
(* empty trap may have, be the case kit full or not.                       *)
FailuresOf(r) == {i \in 1 .. TrapSpan : failLog'[r][i]}

HeardAtTheTrap ==
    [][\A k \in Kits :
          /\ untilTrap'[k] = IF ~Cycle(k) THEN untilTrap[k]
                             ELSE IF untilTrap[k] = 1 THEN TrapSpan ELSE untilTrap[k] - 1
          /\ /\ Cycle(k) /\ untilTrap[k] = 1
             /\ \E r \in RulesOf(k) : InAutoMode(r) /\ Cardinality(FailuresOf(r)) > EmptyTrap
             => trapped' \in RulesOf(k)]_vars

(* CRuleKit::Cycle with EnableTrapAndSayResult: no order of cycles of the    *)
(* kits, knobs and closed cases puts a trap off or lets one stay silent      *)
(* about a rule that failed often enough.                                  *)
THEOREM Heard == Spec => HeardAtTheTrap
<1> DEFINE A == \A k \in Kits :
          /\ untilTrap'[k] = IF ~Cycle(k) THEN untilTrap[k]
                             ELSE IF untilTrap[k] = 1 THEN TrapSpan ELSE untilTrap[k] - 1
          /\ /\ Cycle(k) /\ untilTrap[k] = 1
             /\ \E r \in RulesOf(k) : InAutoMode(r) /\ Cardinality(FailuresOf(r)) > EmptyTrap
             => trapped' \in RulesOf(k)
<1>1. TypeOK /\ [Next]_vars => [A]_vars
  <2> SUFFICES ASSUME TypeOK, Next, NEW k \in Kits
               PROVE  /\ untilTrap'[k] = IF ~Cycle(k) THEN untilTrap[k]
                                         ELSE IF untilTrap[k] = 1 THEN TrapSpan
                                         ELSE untilTrap[k] - 1
                      /\ /\ Cycle(k) /\ untilTrap[k] = 1
                         /\ \E r \in RulesOf(k) : /\ InAutoMode(r)
                                                 /\ Cardinality(FailuresOf(r)) > EmptyTrap
                         => trapped' \in RulesOf(k)
    OBVIOUS
  <2>1. ASSUME NEW q \in Kits, Cycle(q)
        PROVE  untilTrap' = [untilTrap EXCEPT ![q] = IF untilTrap[q] = 1 THEN TrapSpan
                                                     ELSE untilTrap[q] - 1]
    BY <2>1, TrapFacts DEF Cycle, CycleWith
  <2>2. CASE Cycle(k)
    <3>1. untilTrap'[k] = IF untilTrap[k] = 1 THEN TrapSpan ELSE untilTrap[k] - 1
      BY <2>1, <2>2 DEF TypeOK
    <3>2. ASSUME untilTrap[k] = 1, NEW r \in RulesOf(k), InAutoMode(r),
                 Cardinality(FailuresOf(r)) > EmptyTrap
          PROVE  trapped' \in RulesOf(k)
      <4>1. PICK w : Trap(k, trapped', w)
        BY <2>2 DEF Cycle, CycleWith
      <4>2. TrapResult(k, trapped', w, failLog')
        BY <3>2, <4>1 DEF Trap
      <4>3. Fails(r, failLog') = FailuresOf(r)
        BY <3>2 DEF Fails, FailuresOf
      <4>4. Cardinality(AllFails(k, failLog')) > EmptyTrap
        <5>1. /\ NumFails(r, failLog') <= Cardinality(AllFails(k, failLog'))
              /\ NumFails(r, failLog') \in Nat /\ Cardinality(AllFails(k, failLog')) \in Nat
          BY FailsCounted, SpansAssumption
        <5> QED
          BY <3>2, <4>3, <5>1, SpansAssumption DEF NumFails
      <4> QED
        BY <4>2, <4>4 DEF TrapResult, Trapped
    <3> QED
      BY <2>2, <3>1, <3>2
  <2>3. CASE ~Cycle(k)
    <3>1. CASE \E q \in Kits : Cycle(q)
      BY <2>1, <2>3, <3>1 DEF TypeOK
    <3>2. CASE ~ \E q \in Kits : Cycle(q)
      BY <3>2 DEF Next, SetRuleIdle, SetAllIdle, DestroyCase, results
    <3> QED
      BY <2>3, <3>1, <3>2
  <2> QED
    BY <2>2, <2>3
<1>2. Spec => [][A]_vars
  BY <1>1, TypeCorrect, PTL DEF Spec
<1> QED
  BY <1>2 DEF HeardAtTheTrap
===============================================================================

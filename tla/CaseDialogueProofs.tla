-------------------------- MODULE CaseDialogueProofs --------------------------
(***************************************************************************)
(* Theorems about CaseDialogue for every rule: any finite set of           *)
(* hypotheses, any evidence, any knowledge base to start from.  At the end: *)
(* that it implements CaseProtocol, and what it counts in the base.        *)
(*                                                                         *)
(* The invariants are proved from one inductive invariant, IInv.  Next to  *)
(* the invariants themselves it says which prompts are compatible with a   *)
(* spent, a bust and a verified case: that is what keeps the handler of    *)
(* the evidence, and with it the weighing, away from such cases.           *)
(***************************************************************************)
EXTENDS CaseDialogue, Sums, TLAPS

SpentPrompts    == prompt = "EvaluateEvid" => ~spent /\ evidUp \in Evids
BustPrompts     == bust => /\ prompt \notin {"TopMenu", "EvaluateEvid"}
                           /\ ~spent => prompt = "ShouldDelete" /\ ~verified
VerifiedPrompts == verified => prompt \in {"IsFaultFixed", "CaseVerified", "ShouldDelete"}

IInv == /\ TypeOK
        /\ AlwaysAnswerable
        /\ SomeHypothesisSurvives
        /\ ProvenIsAlone
        /\ SpentPrompts /\ BustPrompts /\ VerifiedPrompts

-------------------------------------------------------------------------------
(* Lemmas about the operators of the model.                                *)

(* A count added to a node leaves a node.                                  *)
LEMMA IncrementedType ==
    ASSUME NEW node \in Nodes, NEW v \in EvidValues, NEW isTrue \in BOOLEAN
    PROVE  Incremented(node, v, isTrue) \in Nodes
BY DEF Incremented, Nodes, Counts

(* A lesson, whole or cut short, leaves a knowledge base.                   *)
LEMMA LessonType ==
    ASSUME NEW base \in [Hypos -> [Evids -> Nodes]], NEW h,
           NEW values \in [Evids -> EvidValues], NEW written
    PROVE  Lesson(base, h, values, written) \in [Hypos -> [Evids -> Nodes]]
<1>1. ASSUME NEW g \in Hypos, NEW e \in Evids
      PROVE  Incremented(base[g][e], values[e], g = h) \in Nodes
  BY IncrementedType
<1>2. DOMAIN base = Hypos /\ \A g \in Hypos : DOMAIN base[g] = Evids
  OBVIOUS
<1> QED
  BY <1>1, <1>2 DEF Lesson

(* The evidence of a rule is queued whole when a case opens: each item, in  *)
(* whatever order, once.                                                    *)
LEMMA WalkType ==
    ASSUME NEW walk \in Walks
    PROVE  /\ walk \in Seq(Evids)
           /\ \A i, j \in 1 .. Len(walk) : walk[i] = walk[j] => i = j
           /\ \A e \in Evids : \E i \in 1 .. Len(walk) : walk[i] = e
<1>1. /\ walk \in [1 .. Cardinality(Evids) -> Evids]
      /\ \A i, j \in 1 .. Cardinality(Evids) : walk[i] = walk[j] => i = j
      /\ \A e \in Evids : \E i \in 1 .. Cardinality(Evids) : walk[i] = e
  BY DEF Walks, Bijection, Injection, Surjection, IsInjective
<1>2. Cardinality(Evids) \in Nat
  BY EvidsAssumption, FS_CardinalityType
<1>3. walk \in Seq(Evids) /\ Len(walk) = Cardinality(Evids)
  BY <1>1, <1>2
<1> QED
  BY <1>1, <1>3

(* The fields of a case when it opens and when it is gone.                  *)
LEMMA BlankTypes ==
    /\ "TopMenu" \in Prompts /\ <<>> \in Seq(Evids)
    /\ BlankEvidence \in [Evids -> EvidValues]
    /\ BlankStatus \in [Hypos -> 0 .. 2]
    /\ BlankAccum \in [Hypos -> Nat]
BY DEF BlankEvidence, BlankStatus, BlankAccum, EvidValues, Unevaluated, Prompts, Menu

(* Every prompt offers some answer.                                        *)
LEMMA MenuNotEmpty == \A p \in Prompts : Menu[p] # {}
BY DEF Prompts, Menu

LEMMA FiniteHypos == \A S \in SUBSET Hypos : IsFiniteSet(S) /\ Cardinality(S) \in Nat
BY HyposAssumption, FS_Subset, FS_CardinalityType

(* Choosing the MAPP hypothesis chooses one of the rule's.                  *)
LEMMA LeadFromType ==
    ASSUME NEW counts, NEW total, LeadFrom(counts, total),
           mapp \in Hypos \cup {0}, mappAt100 \in BOOLEAN
    PROVE  mapp' \in Hypos \cup {0} /\ mappAt100' \in BOOLEAN
<1>1. CASE Hypos = {}
  BY <1>1 DEF LeadFrom
<1>2. CASE Hypos # {}
  <2>1. PICK h \in Hypos : mapp' = h /\ mappAt100' = (PctX10(counts[h], total) > 989)
    BY <1>2 DEF LeadFrom
  <2>2. mappAt100' \in BOOLEAN
    BY <2>1
  <2> QED
    BY <2>1, <2>2
<1> QED
  BY <1>1, <1>2

(* Removing fewer than all hypotheses alive leaves as many as the counter   *)
(* says.                                                                   *)
LEMMA Killing ==
    ASSUME NEW S \in SUBSET Hypos, NEW K \in SUBSET S
    PROVE  Cardinality(S \ K) = Cardinality(S) - Cardinality(K)
<1>1. IsFiniteSet(S) /\ IsFiniteSet(K) /\ S \cap K = K
  BY FiniteHypos
<1> QED
  BY <1>1, FS_Difference

-------------------------------------------------------------------------------
(* The initial state.                                                      *)

LEMMA InitInvariant == Init => IInv
<1> SUFFICES ASSUME Init PROVE IInv
  OBVIOUS
<1> USE DEF Init, NoCase
<1>1. TypeOK
  BY BlankTypes, StartKbAssumption DEF TypeOK
<1>2. ProvenIsAlone
  BY DEF ProvenIsAlone, BlankStatus
<1> QED
  BY <1>1, <1>2 DEF IInv, AlwaysAnswerable, SomeHypothesisSurvives, SpentPrompts,
     BustPrompts, VerifiedPrompts

-------------------------------------------------------------------------------
(* A case that vanishes, by the user's word or with the process.            *)

LEMMA VanishPreserves ==
    ASSUME IInv, Vanish, kb' \in [Hypos -> [Evids -> Nodes]],
           lessons' \in Nat, torn' \in Nat
    PROVE  IInv'
<1> USE DEF Vanish
<1>1. TypeOK'
  BY BlankTypes DEF TypeOK
<1>2. ProvenIsAlone'
  BY DEF ProvenIsAlone, BlankStatus
<1> QED
  BY <1>1, <1>2 DEF IInv, AlwaysAnswerable, SomeHypothesisSurvives, SpentPrompts,
     BustPrompts, VerifiedPrompts

(* A new case: all hypotheses alive and counted, nothing asked yet.         *)
LEMMA OpenCasePreserves ==
    ASSUME IInv, OpenCase
    PROVE  IInv'
<1> USE DEF OpenCase, Ask
<1>1. mapp' \in Hypos \cup {0} /\ mappAt100' \in BOOLEAN
  BY LeadFromType DEF IInv, TypeOK
<1>2. TypeOK'
  <2>1. Cardinality(Hypos) \in Nat
    BY FiniteHypos
  <2> QED
    BY <1>1, <2>1, WalkType, BlankTypes DEF IInv, TypeOK, memory
<1>3. SomeHypothesisSurvives'
  <2>1. Alive' = Hypos
    BY DEF Alive, BlankStatus
  <2>2. Cardinality(Hypos) \in Nat
    BY FiniteHypos
  <2> QED
    BY <2>1, <2>2 DEF SomeHypothesisSurvives
<1>4. ProvenIsAlone'
  BY DEF ProvenIsAlone, BlankStatus
<1>5. AlwaysAnswerable'
  BY DEF AlwaysAnswerable, Menu
<1> QED
  BY <1>2, <1>3, <1>4, <1>5 DEF IInv, SpentPrompts, BustPrompts, VerifiedPrompts

-------------------------------------------------------------------------------
(* The steps of the menus, which only put up another prompt.                *)

LEMMA KeepPreserves ==
    ASSUME IInv, Keep, open, waiting, waiting' = TRUE,
           prompt' \in Prompts, bust' \in BOOLEAN, SpentPrompts', BustPrompts', VerifiedPrompts'
    PROVE  IInv'
<1> USE DEF Keep, memory, evidence, belief, verdict
<1>1. TypeOK'
  BY DEF IInv, TypeOK
<1>2. SomeHypothesisSurvives' /\ ProvenIsAlone'
  BY DEF IInv, SomeHypothesisSurvives, ProvenIsAlone, Alive
<1>3. AlwaysAnswerable'
  BY MenuNotEmpty DEF AlwaysAnswerable
<1> QED
  BY <1>1, <1>2, <1>3 DEF IInv

(* The prompt a choice belongs to.                                         *)
LEMMA ChoicePrompts ==
    ASSUME prompt \in Prompts
    PROVE  /\ Chosen("idle") => prompt \in {"TopMenu", "SpentOut", "MappAt100",
                                            "CaseVerified", "ShouldDelete"}
           /\ Chosen("verify") => prompt \in {"TopMenu", "SpentOut", "MappAt100"}
BY DEF Chosen, Prompts, Menu

LEMMA PromptNames ==
    {"TopMenu", "EvaluateEvid", "SpentOut", "MappAt100", "CaseVerified", "IsMapp", "IsAny",
     "IsFaultFixed", "PickHypo", "ShouldDelete"} \subseteq Prompts
BY DEF Prompts, Menu

LEMMA MenuPreserves ==
    ASSUME IInv, \/ OfferToVerify \/ RejectMapp \/ NotSureWhichHypo \/ RejectAllHypos
                 \/ PickFromList \/ FaultNotFixed \/ TellFixed
    PROVE  IInv'
<1>0. /\ prompt \in Prompts /\ SpentPrompts /\ BustPrompts /\ VerifiedPrompts
      /\ bust \in BOOLEAN /\ spent \in BOOLEAN /\ verified \in BOOLEAN
  BY DEF IInv, TypeOK
<1> USE DEF Ask, Answer, Keep, verdict, SpentPrompts, BustPrompts, VerifiedPrompts
<1>1. CASE OfferToVerify
  <2>1. prompt \in {"TopMenu", "SpentOut", "MappAt100"} /\ open /\ waiting
    BY <1>0, <1>1, ChoicePrompts DEF OfferToVerify, Chosen
  <2> QED
    BY <1>0, <1>1, <2>1, PromptNames, KeepPreserves DEF OfferToVerify
<1>2. CASE RejectMapp
  BY <1>0, <1>2, PromptNames, KeepPreserves DEF RejectMapp, Chosen
<1>3. CASE NotSureWhichHypo
  BY <1>0, <1>3, PromptNames, KeepPreserves DEF NotSureWhichHypo, Chosen
<1>4. CASE RejectAllHypos
  BY <1>0, <1>4, PromptNames, KeepPreserves DEF RejectAllHypos, Chosen
<1>5. CASE PickFromList
  BY <1>0, <1>5, PromptNames, KeepPreserves DEF PickFromList, Chosen
<1>6. CASE FaultNotFixed
  BY <1>0, <1>6, PromptNames, KeepPreserves DEF FaultNotFixed, Chosen
<1>7. CASE TellFixed
  BY <1>0, <1>7, PromptNames, KeepPreserves DEF TellFixed, Chosen
<1> QED
  BY <1>1, <1>2, <1>3, <1>4, <1>5, <1>6, <1>7
(* Putting the case at idle shows the prompt that fits what it knows; the   *)
(* probabilities it recomputes leave a MAPP at 100 % alone.                 *)
LEMMA LeaveIdlePreserves ==
    ASSUME IInv, LeaveIdle
    PROVE  IInv'
<1> USE DEF Ask, memory, evidence, verdict
<1>0. /\ TypeOK /\ SpentPrompts /\ BustPrompts /\ VerifiedPrompts
      /\ open /\ open' /\ waiting' = TRUE
      /\ prompt \in {"TopMenu", "SpentOut", "MappAt100", "CaseVerified", "ShouldDelete"}
  BY ChoicePrompts DEF IInv, LeaveIdle, TypeOK, Chosen
<1>1. /\ mapp' \in Hypos \cup {0} /\ mappAt100' \in BOOLEAN
      /\ mappAt100 => mapp' = mapp /\ mappAt100'
  <2>1. CASE UNCHANGED <<mapp, mappAt100>>
    BY <1>0, <2>1 DEF TypeOK
  <2>2. CASE ~mappAt100 /\ LeadFrom(PriorCounts, Sum(PriorCounts))
    BY <1>0, <2>2, LeadFromType DEF TypeOK
  <2>3. CASE ~mappAt100 /\ LeadFrom(accum, sumJoint)
    BY <1>0, <2>3, LeadFromType DEF TypeOK
  <2> QED
    BY <2>1, <2>2, <2>3 DEF LeaveIdle, UpdateBayes
<1>2. prompt' \in Prompts
  BY PromptNames DEF LeaveIdle, PromptAsIs
<1>3. TypeOK'
  BY <1>0, <1>1, <1>2 DEF LeaveIdle, TypeOK
<1>4. SomeHypothesisSurvives'
  BY DEF IInv, LeaveIdle, SomeHypothesisSurvives, Alive
<1>5. ProvenIsAlone'
  <2> SUFFICES ASSUME ~verified, NEW h \in Hypos, hypoStatus[h] = 1
               PROVE  Alive = {h} /\ mapp' = h /\ mappAt100'
    BY DEF LeaveIdle, ProvenIsAlone, Alive
  <2> QED
    BY <1>1 DEF IInv, ProvenIsAlone
<1>6. AlwaysAnswerable'
  BY <1>0, <1>2, MenuNotEmpty DEF AlwaysAnswerable
<1>7. SpentPrompts' /\ BustPrompts' /\ VerifiedPrompts'
  BY <1>0 DEF LeaveIdle, PromptAsIs, SpentPrompts, BustPrompts, VerifiedPrompts, TypeOK
<1> QED
  BY <1>3, <1>4, <1>5, <1>6, <1>7 DEF IInv

(* The next question comes from the head of the queue, and only a case that *)
(* is not spent asks one.                                                  *)
LEMMA AskQuestionPreserves ==
    ASSUME IInv, AskQuestion
    PROVE  IInv'
<1> USE DEF AskQuestion, Answer, Ask, memory, belief, verdict
<1>0. /\ TypeOK /\ BustPrompts /\ VerifiedPrompts /\ prompt = "TopMenu"
      /\ open /\ open' /\ waiting' = TRUE
  BY DEF IInv, TypeOK, Chosen
<1>1. prompt' \in {"SpentOut", "EvaluateEvid"} /\ prompt' \in Prompts
  BY PromptNames
<1>2. /\ queue' \in Seq(Evids)
      /\ evidUp' \in Evids \cup {0}
      /\ prompt' = "EvaluateEvid" => ~spent' /\ evidUp' \in Evids
      /\ spent' \in BOOLEAN
  <2>0. queue \in Seq(Evids)
    BY <1>0 DEF TypeOK
  <2>1. CASE queue = <<>>
    BY <1>0, <2>1 DEF TypeOK
  <2>2. CASE queue # <<>>
    <3>1. Head(queue) \in Evids /\ Tail(queue) \in Seq(Evids)
      BY <2>0, <2>2
    <3>2. spent' = FALSE /\ queue' = Tail(queue) /\ evidUp' = Head(queue)
      BY <2>2
    <3> QED
      BY <3>1, <3>2
  <2> QED
    BY <2>1, <2>2
<1>3. TypeOK'
  BY <1>0, <1>1, <1>2 DEF TypeOK
<1>4. SomeHypothesisSurvives' /\ ProvenIsAlone'
  BY DEF IInv, SomeHypothesisSurvives, ProvenIsAlone, Alive
<1>5. AlwaysAnswerable'
  BY <1>0, <1>1, MenuNotEmpty DEF AlwaysAnswerable
<1>6. SpentPrompts' /\ BustPrompts' /\ VerifiedPrompts'
  BY <1>0, <1>1, <1>2 DEF SpentPrompts, BustPrompts, VerifiedPrompts
<1> QED
  BY <1>3, <1>4, <1>5, <1>6 DEF IInv

-------------------------------------------------------------------------------
(* The weighing of evidence.                                               *)

(* The counts the weighing looks up are natural numbers.                    *)
LEMMA PostType ==
    ASSUME TypeOK, evidUp \in Evids, NEW v \in EvidValues
    PROVE  \A h \in Hypos : Post(h, v) \in Nat
BY DEF TypeOK, Post, Nodes, Counts

(* A novel value kills nobody.                                             *)
LEMMA WeighNovelKeeps ==
    ASSUME TypeOK, NEW v \in EvidValues, WeighNovel(v)
    PROVE  /\ hypoStatus' \in [Hypos -> 0 .. 2] /\ accum' \in [Hypos -> Nat]
           /\ numAlive' = numAlive /\ hypoStatus' = hypoStatus
BY DEF WeighNovel, TypeOK

(* The value that only one hypothesis explains leaves that one alive, and   *)
(* the counter not below one.                                              *)
LEMMA WeighSoleKeeps ==
    ASSUME TypeOK, ProvenIsAlone, ~verified, evidUp \in Evids,
           numAlive >= Cardinality(Alive),
           NEW v \in EvidValues, NEW m \in Hypos, WeighSole(m, v)
    PROVE  /\ hypoStatus' \in [Hypos -> 0 .. 2] /\ accum' \in [Hypos -> Nat]
           /\ numAlive' \in Nat /\ numAlive' >= 1
           /\ hypoStatus'[m] = 1 /\ Alive' = {m}
<1>0. m \in Alive /\ Post(m, v) \in Nat
  BY PostType DEF WeighSole, Sole
<1>1. hypoStatus' \in [Hypos -> 0 .. 2] /\ accum' \in [Hypos -> Nat]
  BY <1>0, PostType DEF WeighSole, TypeOK
<1>2. ASSUME NEW h \in Hypos, h # m
      PROVE  hypoStatus'[h] = 0
  <2>1. hypoStatus[h] # 1
    BY <1>0, <1>2 DEF ProvenIsAlone
  <2> QED
    BY <1>2, <2>1 DEF WeighSole, Rivals, TypeOK
<1>3. hypoStatus'[m] = 1 /\ Alive' = {m}
  BY <1>2 DEF WeighSole, Alive
<1>4. numAlive' \in Nat /\ numAlive' >= 1
  <2>1. PICK K \in SUBSET {h \in Hypos \ {m} : RuledOut(h, v)} :
               numAlive' = numAlive - Cardinality(K)
    BY DEF WeighSole
  <2>5. K \subseteq Alive \ {m}
    BY <2>1 DEF RuledOut
  <2>2. Alive \subseteq Hypos
    BY DEF Alive
  <2>3. /\ Cardinality(K) <= Cardinality(Alive \ {m})
        /\ Cardinality(K) \in Nat /\ Cardinality(Alive \ {m}) \in Nat
    BY <2>2, <2>5, FiniteHypos, FS_Subset
  <2>4. Cardinality(Alive \ {m}) = Cardinality(Alive) - 1 /\ Cardinality(Alive) \in Nat
    BY <1>0, <2>2, FiniteHypos, FS_RemoveElement
  <2> QED
    BY <2>1, <2>3, <2>4 DEF TypeOK
<1> QED
  BY <1>1, <1>3, <1>4

(* Otherwise some hypothesis alive explains the value and survives, and the *)
(* counter goes down by exactly the number of those that do not.            *)
LEMMA WeighSharedKeeps ==
    ASSUME TypeOK, ProvenIsAlone, ~verified, evidUp \in Evids,
           numAlive >= Cardinality(Alive),
           NEW v \in EvidValues, WeighShared(v)
    PROVE  /\ hypoStatus' \in [Hypos -> 0 .. 2] /\ accum' \in [Hypos -> Nat]
           /\ numAlive' \in Nat /\ numAlive' >= Cardinality(Alive')
           /\ Alive' # {} /\ \A h \in Hypos : hypoStatus'[h] # 1
<1> DEFINE dead == {h \in Hypos : RuledOut(h, v)}
<1>0. dead \subseteq Alive /\ Alive \subseteq Hypos
  BY DEF RuledOut, Alive
<1>1. hypoStatus' \in [Hypos -> 0 .. 2] /\ accum' \in [Hypos -> Nat]
  BY PostType DEF WeighShared, TypeOK
<1>2. Alive' = Alive \ dead
  BY DEF WeighShared, Alive
<1>3. Alive' # {}
  <2>1. PICK h \in Alive : Post(h, v) # 0
    BY DEF WeighShared, Novel
  <2> QED
    BY <1>0, <1>2, <2>1 DEF RuledOut
<1>4. \A h \in Hypos : hypoStatus'[h] # 1
  <2> SUFFICES ASSUME NEW h \in Hypos, hypoStatus[h] = 1
               PROVE  FALSE
    BY DEF WeighShared
  <2>1. Alive = {h}
    BY DEF ProvenIsAlone
  <2>2. Post(h, v) \in Nat
    BY PostType
  <2>3. Sole(h, v)
    BY <2>1, <2>2 DEF WeighShared, Novel, Sole
  <2> QED
    BY <2>3 DEF WeighShared
<1>5. numAlive' \in Nat /\ numAlive' >= Cardinality(Alive')
  <2>1. numAlive' = numAlive - Cardinality(dead)
    BY DEF WeighShared
  <2>2. Cardinality(Alive') = Cardinality(Alive) - Cardinality(dead)
    BY <1>0, <1>2, Killing
  <2>3. Cardinality(Alive') \in Nat /\ Cardinality(Alive) \in Nat /\ Cardinality(dead) \in Nat
    BY <1>0, <1>2, FiniteHypos
  <2> QED
    BY <2>1, <2>2, <2>3 DEF TypeOK
<1> QED
  BY <1>1, <1>3, <1>4, <1>5

(* All outcomes of the weighing at once.                                   *)
LEMMA WeighKeeps ==
    ASSUME IInv, open, ~verified, evidUp \in Evids, NEW v \in EvidValues, Weigh(v),
           Alive # {}, numAlive >= Cardinality(Alive)
    PROVE  /\ hypoStatus' \in [Hypos -> 0 .. 2] /\ accum' \in [Hypos -> Nat]
           /\ numAlive' \in Nat /\ numAlive' >= 1 /\ numAlive' >= Cardinality(Alive')
           /\ Alive' # {}
           /\ mapp' \in Hypos \cup {0} /\ mappAt100' \in BOOLEAN
           /\ \A h \in Hypos : hypoStatus'[h] = 1 => Alive' = {h} /\ mapp' = h /\ mappAt100'
<1>0. TypeOK /\ ProvenIsAlone /\ Alive \subseteq Hypos /\ Cardinality(Alive) \in Nat
  BY FiniteHypos DEF IInv, Alive
<1>1. ASSUME NEW m \in Hypos, WeighSole(m, v)
      PROVE  /\ numAlive' >= Cardinality(Alive')
             /\ mapp' = m /\ mappAt100' = TRUE
             /\ hypoStatus' \in [Hypos -> 0 .. 2] /\ accum' \in [Hypos -> Nat]
             /\ numAlive' \in Nat /\ numAlive' >= 1 /\ Alive' = {m}
  <2>1. /\ hypoStatus' \in [Hypos -> 0 .. 2] /\ accum' \in [Hypos -> Nat]
        /\ numAlive' \in Nat /\ numAlive' >= 1 /\ Alive' = {m}
    BY <1>0, <1>1, WeighSoleKeeps
  <2>2. Cardinality({m}) = 1
    BY FS_Singleton
  <2> QED
    BY <1>1, <2>1, <2>2 DEF WeighSole
<1>2. ASSUME WeighNovel(v) \/ WeighShared(v),
             IF mappAt100 \/ spent \/ bust THEN UNCHANGED <<mapp, mappAt100>>
                                           ELSE LeadFrom(accum', sumJoint')
      PROVE  /\ mapp' \in Hypos \cup {0} /\ mappAt100' \in BOOLEAN
             /\ mappAt100 => mapp' = mapp /\ mappAt100'
  BY <1>0, <1>2, LeadFromType DEF TypeOK
<1>3. CASE \E m \in Hypos : WeighSole(m, v)
  <2> PICK m \in Hypos : WeighSole(m, v)
    BY <1>3
  <2>1. \A h \in Hypos : hypoStatus'[h] = 1 => h = m
    <3>1. Alive' = {m}
      BY <1>1
    <3>2. \A h \in Hypos : hypoStatus'[h] = 1 => h \in Alive'
      BY DEF Alive
    <3> QED
      BY <3>1, <3>2
  <2> QED
    BY <1>1, <2>1
<1>4. CASE WeighNovel(v) /\ ~\E m \in Hypos : WeighSole(m, v)
  <2>1. /\ hypoStatus' \in [Hypos -> 0 .. 2] /\ accum' \in [Hypos -> Nat]
        /\ numAlive' = numAlive /\ hypoStatus' = hypoStatus
    BY <1>0, <1>4, WeighNovelKeeps
  <2>2. Alive' = Alive /\ Cardinality(Alive) >= 1
    <3>1. Alive' = Alive
      BY <2>1 DEF Alive
    <3>2. Cardinality(Alive) # 0
      BY <1>0, FiniteHypos, FS_EmptySet
    <3> QED
      BY <1>0, <3>1, <3>2
  <2>3. /\ mapp' \in Hypos \cup {0} /\ mappAt100' \in BOOLEAN
        /\ mappAt100 => mapp' = mapp /\ mappAt100'
    BY <1>2, <1>4 DEF Weigh
  <2> QED
    BY <1>0, <2>1, <2>2, <2>3 DEF ProvenIsAlone, TypeOK
<1>5. CASE WeighShared(v) /\ ~\E m \in Hypos : WeighSole(m, v)
  <2>1. /\ hypoStatus' \in [Hypos -> 0 .. 2] /\ accum' \in [Hypos -> Nat]
        /\ numAlive' \in Nat /\ numAlive' >= Cardinality(Alive')
        /\ Alive' # {} /\ \A h \in Hypos : hypoStatus'[h] # 1
    BY <1>0, <1>5, WeighSharedKeeps
  <2>2. Cardinality(Alive') \in Nat /\ Cardinality(Alive') # 0
    BY <2>1, FiniteHypos, FS_EmptySet DEF Alive
  <2>3. mapp' \in Hypos \cup {0} /\ mappAt100' \in BOOLEAN
    BY <1>2, <1>5 DEF Weigh
  <2> QED
    BY <2>1, <2>2, <2>3
<1> QED
  BY <1>3, <1>4, <1>5 DEF Weigh

LEMMA EvaluateEvidencePreserves ==
    ASSUME IInv, EvaluateEvidence
    PROVE  IInv'
<1>0. /\ TypeOK /\ SpentPrompts /\ BustPrompts /\ VerifiedPrompts /\ ProvenIsAlone
      /\ prompt = "EvaluateEvid" /\ ~spent /\ ~bust /\ ~verified /\ evidUp \in Evids
      /\ Hypos # {}
  <2>1. /\ TypeOK /\ SpentPrompts /\ BustPrompts /\ VerifiedPrompts /\ ProvenIsAlone
        /\ prompt = "EvaluateEvid"
    BY DEF IInv, EvaluateEvidence
  <2>2. Hypos # {}
    BY <2>1, EvidsAssumption DEF SpentPrompts
  <2> QED
    BY <2>1, <2>2 DEF SpentPrompts, BustPrompts, VerifiedPrompts
<1>1. /\ open /\ waiting /\ open' = open /\ evidUp' = evidUp
      /\ UNCHANGED <<memory, verdict>> /\ (Evaluate \/ Skip)
  BY <1>0 DEF EvaluateEvidence, Evaluate, Skip, Chosen
<1>2. Alive # {} /\ numAlive >= Cardinality(Alive)
  BY <1>0, <1>1 DEF IInv, SomeHypothesisSurvives
<1>3. /\ hypoStatus' \in [Hypos -> 0 .. 2] /\ accum' \in [Hypos -> Nat]
      /\ numAlive' \in Nat /\ numAlive' >= 1 /\ numAlive' >= Cardinality(Alive')
      /\ Alive' # {}
      /\ mapp' \in Hypos \cup {0} /\ mappAt100' \in BOOLEAN
      /\ \A h \in Hypos : hypoStatus'[h] = 1 => Alive' = {h} /\ mapp' = h /\ mappAt100'
      /\ evidStatus' \in [Evids -> EvidValues] /\ noEvid' \in BOOLEAN
      /\ queue' \in Seq(Evids)
  <2>1. CASE Evaluate
    <3>1. PICK v \in EvidValues : Weigh(v)
      BY <2>1 DEF Evaluate, EvidValues
    <3>2. evidStatus' \in [Evids -> EvidValues] /\ noEvid' \in BOOLEAN
      BY <1>0, <3>1 DEF Weigh, TypeOK
    <3>3. queue' \in Seq(Evids)
      BY <1>0, <2>1 DEF Evaluate, TypeOK
    <3> QED
      BY <1>0, <1>1, <1>2, <3>1, <3>2, <3>3, WeighKeeps
  <2>2. CASE Skip
    <3>1. UNCHANGED <<belief, evidStatus, noEvid>> /\ queue' = Append(queue, evidUp)
      BY <2>2 DEF Skip
    <3>2. Alive' = Alive /\ Cardinality(Alive) \in Nat /\ Cardinality(Alive) # 0
      BY <1>2, <3>1, FiniteHypos, FS_EmptySet DEF belief, Alive
    <3>3. queue' \in Seq(Evids)
      BY <1>0, <3>1 DEF TypeOK
    <3> QED
      BY <1>0, <1>2, <3>1, <3>2, <3>3 DEF belief, TypeOK, ProvenIsAlone
  <2> QED
    BY <1>1, <2>1, <2>2
<1>4. AfterEvidence
  BY <1>1 DEF Evaluate, Skip
<1>5. /\ bust' = FALSE /\ spent' \in BOOLEAN /\ waiting' = TRUE
      /\ prompt' \in {"MappAt100", "SpentOut", "TopMenu"}
  <2>1. numAlive' # 0
    BY <1>3
  <2>2. bust' = FALSE
    BY <1>4, <2>1 DEF AfterEvidence
  <2> QED
    BY <1>4, <2>2 DEF AfterEvidence, Ask
<1>6. prompt' \in Prompts
  BY <1>5, PromptNames
<1>7. TypeOK'
  BY <1>0, <1>1, <1>3, <1>5, <1>6 DEF TypeOK, memory, verdict
<1>8. SomeHypothesisSurvives' /\ ProvenIsAlone'
  BY <1>0, <1>1, <1>3 DEF SomeHypothesisSurvives, ProvenIsAlone, verdict
<1>9. AlwaysAnswerable'
  BY <1>5, <1>6, MenuNotEmpty DEF AlwaysAnswerable
<1>10. SpentPrompts' /\ BustPrompts' /\ VerifiedPrompts'
  BY <1>0, <1>1, <1>5 DEF SpentPrompts, BustPrompts, VerifiedPrompts, verdict
<1> QED
  BY <1>7, <1>8, <1>9, <1>10 DEF IInv

-------------------------------------------------------------------------------
(* Teaching a solution.                                                    *)

LEMMA VerifyAndLearnPreserves ==
    ASSUME IInv, VerifyAndLearn
    PROVE  IInv'
<1>0. PICK h \in Named :
        /\ trueHypo' = h
        /\ IF h # 0
           THEN /\ hypoStatus' = [g \in Hypos |-> IF g = h THEN 1 ELSE 0]
                /\ kb' = Lesson(kb, h, evidStatus, Hypos \X Evids)
                /\ lessons' = lessons + 1
                /\ verified' = TRUE
           ELSE UNCHANGED <<hypoStatus, kb, lessons, verified>>
        /\ Ask("IsFaultFixed")
        /\ UNCHANGED <<torn, open, evidence, accum, sumJoint, numAlive, mapp, mappAt100,
                       spent, bust>>
  BY DEF VerifyAndLearn
<1>1. /\ TypeOK /\ BustPrompts /\ prompt \in {"IsMapp", "PickHypo"} /\ open /\ ~verified
      /\ (Hypos # {} => h \in Hypos \cup {mapp})
      /\ h \in Hypos \cup {0, WildUai}
  <2>1. TypeOK /\ BustPrompts /\ VerifiedPrompts
    BY DEF IInv
  <2>2. prompt \in {"IsMapp", "PickHypo"} /\ open
    BY DEF Named, Answer, Chosen
  <2>3. h \in Hypos \cup {0, WildUai} /\ (Hypos # {} => h \in Hypos \cup {mapp})
    BY <2>1 DEF Named, TypeOK
  <2> QED
    BY <2>1, <2>2, <2>3 DEF VerifiedPrompts
<1>2. prompt' = "IsFaultFixed" /\ waiting' = TRUE /\ prompt' \in Prompts
  BY <1>0, PromptNames DEF Ask
<1>3. TypeOK'
  <2>1. kb' \in [Hypos -> [Evids -> Nodes]] /\ hypoStatus' \in [Hypos -> 0 .. 2]
        /\ lessons' \in Nat /\ verified' \in BOOLEAN
    <3>1. CASE h = 0
      BY <1>0, <1>1, <3>1 DEF TypeOK
    <3>2. CASE h # 0
      <4>1. Lesson(kb, h, evidStatus, Hypos \X Evids) \in [Hypos -> [Evids -> Nodes]]
        BY <1>1, LessonType DEF TypeOK
      <4>2. [g \in Hypos |-> IF g = h THEN 1 ELSE 0] \in [Hypos -> 0 .. 2]
        OBVIOUS
      <4>3. /\ kb' = Lesson(kb, h, evidStatus, Hypos \X Evids)
            /\ hypoStatus' = [g \in Hypos |-> IF g = h THEN 1 ELSE 0]
            /\ lessons' = lessons + 1 /\ verified' = TRUE
        BY <1>0, <3>2
      <4>4. lessons \in Nat
        BY <1>1 DEF TypeOK
      <4>5. hypoStatus' \in [Hypos -> 0 .. 2]
        BY <4>2, <4>3
      <4>6. kb' \in [Hypos -> [Evids -> Nodes]]
        BY <4>1, <4>3, Zenon
      <4>7. lessons' \in Nat /\ verified' \in BOOLEAN
        BY <4>3, <4>4
      <4> QED
        BY <4>5, <4>6, <4>7
    <3> QED
      BY <3>1, <3>2
  <2> QED
    BY <1>0, <1>1, <1>2, <2>1 DEF TypeOK, evidence
<1>4. SomeHypothesisSurvives'
  <2> SUFFICES ASSUME Hypos # {}
               PROVE  Alive' # {} /\ numAlive' >= (IF verified' THEN 1 ELSE Cardinality(Alive'))
    BY DEF SomeHypothesisSurvives
  <2>1. Alive # {} /\ numAlive \in Nat /\ numAlive >= Cardinality(Alive)
    BY <1>1 DEF IInv, SomeHypothesisSurvives, TypeOK
  <2>2. Cardinality(Alive) \in Nat /\ Cardinality(Alive) # 0
    BY <2>1, FiniteHypos, FS_EmptySet DEF Alive
  <2>3. CASE h = 0
    BY <1>0, <1>1, <2>1, <2>2, <2>3 DEF Alive
  <2>4. CASE h # 0
    <3>1. h \in Hypos
      BY <1>1, <2>4 DEF TypeOK
    <3>2. Alive' = {h}
      BY <1>0, <2>4, <3>1 DEF Alive
    <3> QED
      BY <1>0, <2>1, <2>2, <2>4, <3>2
  <2> QED
    BY <2>3, <2>4
<1>5. ProvenIsAlone'
  BY <1>0 DEF IInv, ProvenIsAlone, Alive
<1>6. AlwaysAnswerable'
  BY <1>2, MenuNotEmpty DEF AlwaysAnswerable
<1>7. SpentPrompts' /\ BustPrompts' /\ VerifiedPrompts'
  BY <1>0, <1>1, <1>2 DEF SpentPrompts, BustPrompts, VerifiedPrompts
<1> QED
  BY <1>3, <1>4, <1>5, <1>6, <1>7 DEF IInv

-------------------------------------------------------------------------------
(* The theorems.                                                           *)

LEMMA NextPreserves == IInv /\ [Next]_vars => IInv'
<1> SUFFICES ASSUME IInv, [Next]_vars PROVE IInv'
  OBVIOUS
<1>0. TypeOK
  BY DEF IInv
<1>1. CASE OpenCase
  BY <1>1, OpenCasePreserves
<1>2. CASE DeleteCase \/ Crash
  BY <1>0, <1>2, VanishPreserves DEF DeleteCase, Crash, memory, TypeOK
<1>3. CASE LeaveIdle
  BY <1>3, LeaveIdlePreserves
<1>4. CASE AskQuestion
  BY <1>4, AskQuestionPreserves
<1>5. CASE EvaluateEvidence
  BY <1>5, EvaluateEvidencePreserves
<1>6. CASE \/ OfferToVerify \/ RejectMapp \/ NotSureWhichHypo \/ RejectAllHypos
           \/ PickFromList \/ FaultNotFixed \/ TellFixed
  BY <1>6, MenuPreserves
<1>7. CASE VerifyAndLearn
  BY <1>7, VerifyAndLearnPreserves
<1>8. CASE ReportFixed
  <2>1. kb' \in [Hypos -> [Evids -> Nodes]]
    <3>1. \A h \in Hypos, e \in Evids :
             (IF h = trueHypo THEN DevolveCounts(kb[h][e]) ELSE kb[h][e]) \in Nodes
      BY <1>0 DEF DevolveCounts, TypeOK
    <3> QED
      BY <1>0, <1>8, <3>1 DEF ReportFixed, TypeOK
  <2> QED
    BY <1>0, <1>8, <2>1, VanishPreserves DEF ReportFixed, TypeOK
<1>9. CASE CrashWhileTeaching
  <2>1. kb' \in [Hypos -> [Evids -> Nodes]]
    <3>1. PICK h, written : kb' = Lesson(kb, h, evidStatus, written)
      BY <1>9 DEF CrashWhileTeaching
    <3> QED
      BY <1>0, <3>1, LessonType DEF TypeOK
  <2> QED
    BY <1>0, <1>9, <2>1, VanishPreserves DEF CrashWhileTeaching, TypeOK
<1>10. CASE UNCHANGED vars
  BY <1>10 DEF vars, memory, evidence, belief, verdict, IInv, TypeOK, AlwaysAnswerable,
     SomeHypothesisSurvives, ProvenIsAlone, SpentPrompts, BustPrompts, VerifiedPrompts, Alive
<1> QED
  BY <1>1, <1>2, <1>3, <1>4, <1>5, <1>6, <1>7, <1>8, <1>9, <1>10 DEF Next

LEMMA Invariance == Spec => []IInv
BY InitInvariant, NextPreserves, PTL DEF Spec

(* Every variable of a case keeps its type; above all numHyposAlive, an     *)
(* unsigned counter in the code, never wraps below zero.                    *)
THEOREM TypeCorrect == Spec => []TypeOK
<1>1. IInv => TypeOK
  BY DEF IInv
<1> QED
  BY <1>1, Invariance, PTL

(* However the user answers, an open case waits for another answer: no path *)
(* through the handlers of CCase strands it.                               *)
THEOREM Answerable == Spec => []AlwaysAnswerable
<1>1. IInv => AlwaysAnswerable
  BY DEF IInv
<1> QED
  BY <1>1, Invariance, PTL

(* The weighing of evidence never kills the last hypothesis, whatever the   *)
(* knowledge base holds and however often a question is answered.           *)
THEOREM Survival == Spec => []SomeHypothesisSurvives
<1>1. IInv => SomeHypothesisSurvives
  BY DEF IInv
<1> QED
  BY <1>1, Invariance, PTL

(* The hypothesis marked as likely true by the evidence is alone and is the *)
(* one reported.                                                           *)
THEOREM Alone == Spec => []ProvenIsAlone
<1>1. IInv => ProvenIsAlone
  BY DEF IInv
<1> QED
  BY <1>1, Invariance, PTL

-------------------------------------------------------------------------------
(* The queue of questions: no item is in it twice, and it holds what was    *)
(* neither evaluated nor is asked now.                                      *)

Queued(e) == \E i \in 1 .. Len(queue) : queue[i] = e
Asked(e)  == prompt = "EvaluateEvid" /\ evidUp = e

QueueDistinct == \A i, j \in 1 .. Len(queue) : queue[i] = queue[j] => i = j
QueueComplete == \A e \in Evids : Queued(e) <=> evidStatus[e] = Unevaluated /\ ~Asked(e)
AskedIsOpen   == prompt = "EvaluateEvid" => evidStatus[evidUp] = Unevaluated

QInv == open => QueueDistinct /\ QueueComplete /\ AskedIsOpen

LEMMA OpenCaseQueues == ASSUME OpenCase PROVE QInv'
<1>1. /\ queue' \in Walks /\ evidStatus' = BlankEvidence /\ prompt' = "TopMenu"
  BY DEF OpenCase, Ask
<1>2. /\ \A i, j \in 1 .. Len(queue') : queue'[i] = queue'[j] => i = j
      /\ \A e \in Evids : \E i \in 1 .. Len(queue') : queue'[i] = e
  BY <1>1, WalkType
<1>3. \A e \in Evids : evidStatus'[e] = Unevaluated
  BY <1>1 DEF BlankEvidence
<1> QED
  BY <1>1, <1>2, <1>3 DEF QInv, QueueDistinct, QueueComplete, AskedIsOpen, Queued, Asked

(* A step that leaves the questions alone.                                  *)
LEMMA OtherStepsQueue ==
    ASSUME QInv, UNCHANGED <<queue, evidStatus>>, open,
           prompt # "EvaluateEvid", prompt' # "EvaluateEvid"
    PROVE  QInv'
BY DEF QInv, QueueDistinct, QueueComplete, AskedIsOpen, Queued, Asked

LEMMA AskQuestionQueues == ASSUME IInv, QInv, AskQuestion PROVE QInv'
<1>1. /\ queue \in Seq(Evids) /\ prompt = "TopMenu" /\ open
      /\ evidStatus' = evidStatus
      /\ QueueDistinct /\ QueueComplete
  BY DEF IInv, TypeOK, AskQuestion, Answer, Chosen, QInv
<1>2. CASE queue = <<>> /\ prompt' = "SpentOut" /\ queue' = queue
  BY <1>1, <1>2, OtherStepsQueue
<1>3. CASE /\ queue # <<>> /\ evidUp' = Head(queue) /\ queue' = Tail(queue)
           /\ prompt' = "EvaluateEvid"
  <2>1. /\ Len(queue) \in Nat /\ Len(queue) > 0 /\ Len(queue') = Len(queue) - 1
        /\ \A i \in 1 .. Len(queue) - 1 : queue'[i] = queue[i + 1]
        /\ evidUp' = queue[1] /\ queue[1] \in Evids
    BY <1>1, <1>3
  <2>2. QueueDistinct'
    <3> SUFFICES ASSUME NEW i \in 1 .. Len(queue'), NEW j \in 1 .. Len(queue'),
                        queue'[i] = queue'[j]
                 PROVE  i = j
      BY DEF QueueDistinct
    <3>1. queue[i + 1] = queue[j + 1] /\ i + 1 \in 1 .. Len(queue) /\ j + 1 \in 1 .. Len(queue)
      BY <2>1
    <3>2. i + 1 = j + 1
      BY <1>1, <3>1 DEF QueueDistinct
    <3> QED BY <2>1, <3>2
  <2>3. ASSUME NEW e \in Evids PROVE Queued(e)' <=> Queued(e) /\ e # queue[1]
    <3>1. ASSUME Queued(e)' PROVE Queued(e) /\ e # queue[1]
      <4>1. PICK i \in 1 .. Len(queue') : queue'[i] = e
        BY <3>1 DEF Queued
      <4>2. i + 1 \in 1 .. Len(queue) /\ queue[i + 1] = e /\ 1 \in 1 .. Len(queue)
        BY <2>1, <4>1
      <4>3. i + 1 # 1
        BY <2>1
      <4> QED BY <1>1, <4>2, <4>3 DEF QueueDistinct, Queued
    <3>2. ASSUME Queued(e), e # queue[1] PROVE Queued(e)'
      <4>1. PICK i \in 1 .. Len(queue) : queue[i] = e
        BY <3>2 DEF Queued
      <4>2. i - 1 \in 1 .. Len(queue') /\ queue'[i - 1] = e
        BY <2>1, <3>2, <4>1
      <4> QED BY <4>2 DEF Queued
    <3> QED BY <3>1, <3>2
  <2>4. Queued(queue[1])
    BY <2>1 DEF Queued
  <2>5. evidStatus[queue[1]] = Unevaluated
    BY <1>1, <2>1, <2>4 DEF QueueComplete
  <2>6. QueueComplete' /\ AskedIsOpen'
    BY <1>1, <1>3, <2>1, <2>3, <2>5 DEF QueueComplete, AskedIsOpen, Asked
  <2> QED BY <2>2, <2>6 DEF QInv
<1> QED
  BY <1>2, <1>3 DEF AskQuestion, Ask

LEMMA EvaluateEvidenceQueues == ASSUME IInv, QInv, EvaluateEvidence PROVE QInv'
<1>1. /\ queue \in Seq(Evids) /\ evidStatus \in [Evids -> EvidValues]
      /\ prompt = "EvaluateEvid" /\ ~spent /\ evidUp \in Evids
  BY DEF IInv, TypeOK, SpentPrompts, EvaluateEvidence
<1>2. Evaluate \/ Skip
  BY <1>1 DEF EvaluateEvidence
<1>3. open /\ prompt' # "EvaluateEvid"
  BY <1>2 DEF Evaluate, Skip, Chosen, AfterEvidence, Ask
<1>4. QueueDistinct /\ QueueComplete /\ evidStatus[evidUp] = Unevaluated /\ ~Queued(evidUp)
  BY <1>1, <1>3 DEF QInv, QueueComplete, AskedIsOpen, Asked
<1>5. CASE Evaluate
  <2>1. PICK v \in {0, 1} : Weigh(v)
    BY <1>5 DEF Evaluate
  <2>2. evidStatus' = [evidStatus EXCEPT ![evidUp] = v] /\ queue' = queue
    BY <1>5, <2>1 DEF Weigh, Evaluate
  <2>3. v # Unevaluated
    BY DEF Unevaluated
  <2>4. QueueDistinct'
    BY <1>4, <2>2 DEF QueueDistinct
  <2>5. \A e \in Evids : evidStatus'[e] = Unevaluated <=> e # evidUp /\ evidStatus[e] = Unevaluated
    BY <1>1, <2>2, <2>3
  <2>6. QueueComplete'
    BY <1>1, <1>3, <1>4, <2>2, <2>5 DEF QueueComplete, Queued, Asked
  <2> QED BY <1>3, <2>4, <2>6 DEF QInv, AskedIsOpen
<1>6. CASE Skip
  <2>1. queue' = Append(queue, evidUp) /\ evidStatus' = evidStatus
    BY <1>6 DEF Skip
  <2>2. /\ Len(queue) \in Nat /\ Len(queue') = Len(queue) + 1
        /\ \A i \in 1 .. Len(queue) : queue'[i] = queue[i]
        /\ queue'[Len(queue) + 1] = evidUp
    BY <1>1, <2>1
  <2>3. \A i \in 1 .. Len(queue) : queue[i] # evidUp
    BY <1>4 DEF Queued
  <2>4. QueueDistinct'
    <3> SUFFICES ASSUME NEW i \in 1 .. Len(queue'), NEW j \in 1 .. Len(queue'),
                        queue'[i] = queue'[j]
                 PROVE  i = j
      BY DEF QueueDistinct
    <3>1. CASE i \in 1 .. Len(queue) /\ j \in 1 .. Len(queue)
      BY <1>4, <2>2, <3>1 DEF QueueDistinct
    <3>2. CASE i = Len(queue) + 1 \/ j = Len(queue) + 1
      BY <2>2, <2>3, <3>2
    <3> QED BY <2>2, <3>1, <3>2
  <2>5. \A e \in Evids : Queued(e)' <=> Queued(e) \/ e = evidUp
    <3>1. ASSUME NEW e \in Evids, Queued(e)' PROVE Queued(e) \/ e = evidUp
      <4>1. PICK i \in 1 .. Len(queue') : queue'[i] = e
        BY <3>1 DEF Queued
      <4>2. CASE i \in 1 .. Len(queue)
        BY <2>2, <4>1, <4>2 DEF Queued
      <4>3. CASE i = Len(queue) + 1
        BY <2>2, <4>1, <4>3
      <4> QED BY <2>2, <4>2, <4>3
    <3>2. ASSUME NEW e \in Evids, Queued(e) PROVE Queued(e)'
      <4>1. PICK i \in 1 .. Len(queue) : queue[i] = e
        BY <3>2 DEF Queued
      <4> QED BY <2>2, <4>1 DEF Queued
    <3>3. Queued(evidUp)'
      <4>1. Len(queue) + 1 \in 1 .. Len(queue')
        BY <2>2
      <4>2. evidUp' = evidUp
        BY DEF EvaluateEvidence
      <4> QED BY <2>2, <4>1, <4>2 DEF Queued
    <3>4. evidUp' = evidUp
      BY DEF EvaluateEvidence
    <3> QED BY <3>1, <3>2, <3>3, <3>4
  <2>6. QueueComplete'
    BY <1>1, <1>3, <1>4, <2>1, <2>5 DEF QueueComplete, Asked
  <2> QED BY <1>3, <2>4, <2>6 DEF QInv, AskedIsOpen
<1> QED
  BY <1>2, <1>5, <1>6

LEMMA NextQueues == IInv /\ QInv /\ [Next]_vars => QInv'
<1> SUFFICES ASSUME IInv, QInv, [Next]_vars PROVE QInv'
  OBVIOUS
<1>0. prompt \in Prompts
  BY DEF IInv, TypeOK
<1>1. CASE OpenCase
  BY <1>1, OpenCaseQueues
<1>2. CASE DeleteCase \/ Crash \/ ReportFixed \/ CrashWhileTeaching
  BY <1>2 DEF DeleteCase, Crash, ReportFixed, CrashWhileTeaching, Vanish, QInv
<1>3. CASE LeaveIdle
  <2>1. prompt # "EvaluateEvid" /\ open
    BY <1>0, <1>3, ChoicePrompts DEF LeaveIdle, Chosen
  <2>2. prompt' # "EvaluateEvid"
    BY <1>3 DEF LeaveIdle, Ask, PromptAsIs
  <2> QED BY <1>3, <2>1, <2>2, OtherStepsQueue DEF LeaveIdle, evidence
<1>4. CASE AskQuestion
  BY <1>4, AskQuestionQueues
<1>5. CASE EvaluateEvidence
  BY <1>5, EvaluateEvidenceQueues
<1>6. CASE \/ OfferToVerify \/ RejectMapp \/ NotSureWhichHypo \/ RejectAllHypos
           \/ PickFromList \/ FaultNotFixed \/ TellFixed
  <2>1. prompt # "EvaluateEvid" /\ open
    BY <1>0, <1>6, ChoicePrompts DEF OfferToVerify, RejectMapp, NotSureWhichHypo, RejectAllHypos,
       PickFromList, FaultNotFixed, TellFixed, Answer, Chosen
  <2>2. prompt' # "EvaluateEvid" /\ UNCHANGED <<queue, evidStatus>>
    BY <1>6 DEF OfferToVerify, RejectMapp, NotSureWhichHypo, RejectAllHypos,
       PickFromList, FaultNotFixed, TellFixed, Ask, Keep, evidence
  <2> QED BY <2>1, <2>2, OtherStepsQueue
<1>7. CASE VerifyAndLearn
  <2>1. prompt # "EvaluateEvid" /\ open
    BY <1>7 DEF VerifyAndLearn, Named, Answer, Chosen
  <2>2. prompt' # "EvaluateEvid" /\ UNCHANGED <<queue, evidStatus>>
    BY <1>7 DEF VerifyAndLearn, Ask, evidence
  <2> QED BY <2>1, <2>2, OtherStepsQueue
<1>8. CASE UNCHANGED vars
  BY <1>8 DEF vars, evidence, QInv, QueueDistinct, QueueComplete, AskedIsOpen, Queued, Asked
<1> QED
  BY <1>1, <1>2, <1>3, <1>4, <1>5, <1>6, <1>7, <1>8 DEF Next

(* However the user asks, skips and answers: each item of evidence of a     *)
(* case is queued once, or asked now, or evaluated.                         *)
THEOREM Partition == Spec => []EvidencePartition
<1>1. IInv /\ QInv => EvidencePartition
  <2> SUFFICES ASSUME IInv, QInv, open, NEW e \in Evids
               PROVE  Cardinality(Occurrences(e)) =
                        IF evidStatus[e] # Unevaluated \/ (prompt = "EvaluateEvid" /\ evidUp = e)
                        THEN 0 ELSE 1
    BY DEF EvidencePartition
  <2>1. QueueDistinct /\ QueueComplete
    BY DEF QInv
  <2>2. CASE Queued(e)
    <3>1. PICK i \in 1 .. Len(queue) : queue[i] = e
      BY <2>2 DEF Queued
    <3>2. Occurrences(e) = {i}
      BY <2>1, <3>1 DEF Occurrences, QueueDistinct
    <3>3. Cardinality({i}) = 1
      BY FS_Singleton
    <3> QED BY <2>1, <2>2, <3>2, <3>3 DEF QueueComplete, Asked
  <2>3. CASE ~Queued(e)
    <3>1. Occurrences(e) = {}
      BY <2>3 DEF Occurrences, Queued
    <3>2. Cardinality({}) = 0
      BY FS_EmptySet
    <3> QED BY <2>1, <2>3, <3>1, <3>2 DEF QueueComplete, Asked
  <2> QED BY <2>2, <2>3
<1>2. Init => QInv
  BY DEF Init, NoCase, QInv
<1> QED
  BY <1>1, <1>2, InitInvariant, NextPreserves, NextQueues, PTL DEF Spec

-------------------------------------------------------------------------------
(* No word of the user is taken back.                                       *)

(* A closed case has no verdict, so the next one starts without.            *)
ClosedClean == ~open => ~bust /\ ~verified

LEMMA NextClosedClean == ClosedClean /\ [Next]_vars => ClosedClean'
<1> SUFFICES ASSUME ClosedClean, [Next]_vars PROVE ClosedClean'
  OBVIOUS
<1>1. CASE OpenCase \/ LeaveIdle \/ AskQuestion \/ EvaluateEvidence
  BY <1>1 DEF ClosedClean, OpenCase, LeaveIdle, AskQuestion, EvaluateEvidence, Answer, Chosen,
     LeaveUnanswerable, Evaluate, Skip
<1>2. CASE DeleteCase \/ Crash \/ ReportFixed \/ CrashWhileTeaching
  BY <1>2 DEF ClosedClean, DeleteCase, Crash, ReportFixed, CrashWhileTeaching, Vanish
<1>3. CASE \/ OfferToVerify \/ RejectMapp \/ NotSureWhichHypo \/ RejectAllHypos
           \/ PickFromList \/ FaultNotFixed \/ TellFixed \/ VerifyAndLearn
  BY <1>3 DEF ClosedClean, OfferToVerify, RejectMapp, NotSureWhichHypo, RejectAllHypos,
     PickFromList, FaultNotFixed, TellFixed, VerifyAndLearn, Named, Answer, Chosen, Keep
<1>4. CASE UNCHANGED vars
  BY <1>4 DEF vars, verdict, ClosedClean
<1> QED
  BY <1>1, <1>2, <1>3, <1>4 DEF Next

LEMMA ClosedCleanly == Spec => []ClosedClean
<1>1. Init => ClosedClean
  BY DEF Init, NoCase, ClosedClean
<1> QED
  BY <1>1, NextClosedClean, PTL DEF Spec

(* No step of an open case takes back that the user declared it unknown to  *)
(* the base: the evidence handler, whose tail recomputes caseBustsKbase     *)
(* from the counter, is out of reach by then.                               *)
THEOREM BustStays == Spec => BustSticks
<1>1. IInv /\ ClosedClean /\ [Next]_vars => [bust /\ open' => bust']_vars
  <2> SUFFICES ASSUME IInv, ClosedClean, [Next]_vars, bust, open' PROVE bust'
    OBVIOUS
  <2>1. open /\ prompt # "EvaluateEvid" /\ prompt # "TopMenu"
    BY DEF ClosedClean, IInv, BustPrompts
  <2>2. CASE OpenCase \/ AskQuestion \/ EvaluateEvidence
    BY <2>1, <2>2 DEF OpenCase, AskQuestion, EvaluateEvidence, Answer
  <2>3. CASE DeleteCase \/ Crash \/ ReportFixed \/ CrashWhileTeaching
    BY <2>3 DEF DeleteCase, Crash, ReportFixed, CrashWhileTeaching, Vanish
  <2>4. CASE \/ LeaveIdle \/ OfferToVerify \/ RejectMapp \/ NotSureWhichHypo
             \/ RejectAllHypos \/ PickFromList \/ FaultNotFixed \/ TellFixed \/ VerifyAndLearn
    BY <2>4 DEF LeaveIdle, OfferToVerify, RejectMapp, NotSureWhichHypo, RejectAllHypos,
       PickFromList, FaultNotFixed, TellFixed, VerifyAndLearn
  <2>5. CASE UNCHANGED vars
    BY <2>5 DEF vars
  <2> QED
    BY <2>2, <2>3, <2>4, <2>5 DEF Next
<1> QED
  BY <1>1, Invariance, ClosedCleanly, PTL DEF Spec, BustSticks

-------------------------------------------------------------------------------
(* The dialogue implements CaseProtocol.                                   *)

Solution == IF verified THEN trueHypo ELSE 0

(* Steps of the dialogue that the protocol does not see.                    *)
LEMMA UnseenStep ==
    ASSUME open, open', kb' = kb, verified' = verified, verified => trueHypo' = trueHypo
    PROVE  UNCHANGED Protocol!vars
BY DEF Protocol!vars, Phase

(* A case that ends after the base was left alone.                          *)
LEMMA CloseStep ==
    ASSUME open, Vanish, kb' = kb
    PROVE  Protocol!Close
BY DEF Vanish, Protocol!Close, Phase

(* A rule with hypotheses only ever names one of them.                      *)
LEMMA NamedHypo ==
    ASSUME IInv, Hypos # {}
    PROVE  \A h \in Named : h \in Hypos \cup {0} /\ open /\ ~verified
BY DEF Named, IInv, TypeOK, VerifiedPrompts, Answer, Chosen

LEMMA SameBase ==
    /\ Protocol!EvidValues = EvidValues
    /\ Protocol!WrittenSoFar(Hypos, Evids) = WrittenSoFar(Hypos, Evids)
    /\ \A base, h, values, written :
          Protocol!Lesson(base, h, values, written) = Lesson(base, h, values, written)
BY DEF Protocol!EvidValues, EvidValues, Protocol!Lesson, Lesson, Protocol!Incremented,
   Incremented, Protocol!WrittenSoFar, WrittenSoFar

(* The nodes a lesson changes are the nodes it writes.                      *)
LEMMA LessonWrites ==
    ASSUME NEW base \in [Hypos -> [Evids -> Nodes]], NEW h,
           NEW values \in [Evids -> EvidValues], NEW written \in SUBSET (Hypos \X Evids)
    PROVE  {n \in Hypos \X Evids :
               Lesson(base, h, values, written)[n[1]][n[2]] # base[n[1]][n[2]]} = written
<1>1. ASSUME NEW node \in Nodes, NEW v \in EvidValues, NEW isTrue \in BOOLEAN
      PROVE  Incremented(node, v, isTrue) # node
  <2>1. node[v].true \in Nat /\ node[v].false \in Nat
    BY DEF Nodes, Counts
  <2>2. CASE isTrue
    <3>1. Incremented(node, v, isTrue)[v].true = node[v].true + 1
      BY <2>2 DEF Incremented, Nodes, Counts
    <3> QED
      BY <2>1, <3>1
  <2>3. CASE ~isTrue
    <3>1. Incremented(node, v, isTrue)[v].false = node[v].false + 1
      BY <2>3 DEF Incremented, Nodes, Counts
    <3> QED
      BY <2>1, <3>1
  <2> QED
    BY <2>2, <2>3
<1>2. ASSUME NEW g \in Hypos, NEW e \in Evids
      PROVE  Lesson(base, h, values, written)[g][e] # base[g][e] <=> <<g, e>> \in written
  <2>1. Lesson(base, h, values, written)[g][e] =
            IF <<g, e>> \in written THEN Incremented(base[g][e], values[e], g = h)
                                   ELSE base[g][e]
    BY DEF Lesson
  <2>2. Incremented(base[g][e], values[e], g = h) # base[g][e]
    BY <1>1
  <2> QED
    BY <2>1, <2>2
<1> QED
  BY <1>2

LEMMA WrittenType ==
    ASSUME NEW written \in WrittenSoFar(Hypos, Evids)
    PROVE  written \in SUBSET (Hypos \X Evids)
BY DEF WrittenSoFar

(* Reporting the fault as fixed writes the base back as it was.             *)
LEMMA FixedLeavesBase == ASSUME TypeOK, ReportFixed PROVE kb' = kb
<1>1. \A h \in Hypos, e \in Evids :
         (IF h = trueHypo THEN DevolveCounts(kb[h][e]) ELSE kb[h][e]) = kb[h][e]
  BY DEF DevolveCounts
<1>2. kb = [h \in Hypos |-> [e \in Evids |-> kb[h][e]]]
  BY DEF TypeOK
<1> QED
  BY <1>1, <1>2 DEF ReportFixed

LEMMA StepRefines ==
    ASSUME IInv, ClosedClean, Hypos # {}, [Next]_vars
    PROVE  [Protocol!Next]_(Protocol!vars)
<1>0. TypeOK
  BY DEF IInv
<1>1. CASE OpenCase
  <2>1. Protocol!Open
    BY <1>1 DEF ClosedClean, OpenCase, memory, Protocol!Open, Phase
  <2> QED
    BY <2>1 DEF Protocol!Next
<1>2. CASE DeleteCase \/ Crash
  <2>1. Protocol!Close
    BY <1>2, CloseStep DEF DeleteCase, Crash, Chosen, memory
  <2> QED
    BY <2>1 DEF Protocol!Next
<1>3. CASE LeaveIdle \/ AskQuestion \/ EvaluateEvidence
  <2>1. open /\ open' /\ kb' = kb /\ verified' = verified /\ trueHypo' = trueHypo
    BY <1>3 DEF LeaveIdle, AskQuestion, EvaluateEvidence, LeaveUnanswerable, Evaluate, Skip,
       Answer, Chosen, memory, verdict
  <2> QED
    BY <2>1, UnseenStep
<1>4. CASE \/ OfferToVerify \/ RejectMapp \/ NotSureWhichHypo \/ RejectAllHypos
           \/ PickFromList \/ FaultNotFixed \/ TellFixed
  <2>1. open /\ open' /\ kb' = kb /\ verified' = verified /\ trueHypo' = trueHypo
    BY <1>4 DEF OfferToVerify, RejectMapp, NotSureWhichHypo, RejectAllHypos, PickFromList,
       FaultNotFixed, TellFixed, Keep, Answer, Chosen, memory, verdict
  <2> QED
    BY <2>1, UnseenStep
<1>5. CASE VerifyAndLearn
  <2>1. PICK h \in Named :
           /\ trueHypo' = h /\ open' = open
           /\ IF h # 0 THEN /\ kb' = Lesson(kb, h, evidStatus, Hypos \X Evids)
                            /\ verified' = TRUE
                       ELSE UNCHANGED <<kb, verified>>
    BY <1>5 DEF VerifyAndLearn
  <2>2. h \in Hypos \cup {0} /\ open /\ ~verified
    BY NamedHypo
  <2>3. CASE h = 0
    BY <2>1, <2>2, <2>3, UnseenStep
  <2>4. CASE h # 0
    <3>1. evidStatus \in [Evids -> EvidValues] /\ h \in Hypos
      BY <1>0, <2>2, <2>4 DEF TypeOK
    <3>2. Phase = "diagnosing" /\ Phase' = "taught" /\ Solution' = h
      BY <2>1, <2>2, <2>4 DEF Phase, Solution
    <3>3. kb' = Protocol!Lesson(kb, h, evidStatus, Hypos \X Evids)
      BY <2>1, <2>4, SameBase
    <3>4. Protocol!Teach
      BY <3>1, <3>2, <3>3, SameBase DEF Protocol!Teach, Solution
    <3> QED
      BY <3>4 DEF Protocol!Next
  <2> QED
    BY <2>3, <2>4
<1>6. CASE ReportFixed
  <2>1. kb' = kb
    BY <1>0, <1>6, FixedLeavesBase
  <2>2. Protocol!Close
    BY <1>6, <2>1, CloseStep DEF ReportFixed, Answer, Chosen
  <2> QED
    BY <2>2 DEF Protocol!Next
<1>7. CASE CrashWhileTeaching
  <2>1. PICK h \in Named \ {0}, written \in WrittenSoFar(Hypos, Evids) :
           kb' = Lesson(kb, h, evidStatus, written)
    BY <1>7 DEF CrashWhileTeaching
  <2>2. h \in Hypos /\ open /\ ~verified /\ evidStatus \in [Evids -> EvidValues]
    BY <1>0, NamedHypo DEF TypeOK
  <2>3. Phase = "diagnosing" /\ Phase' = "closed" /\ Solution' = Solution
    BY <1>7, <2>2 DEF CrashWhileTeaching, Vanish, Phase, Solution
  <2>4. Protocol!Written = written
    <3>1. kb \in [Hypos -> [Evids -> Nodes]]
      BY <1>0 DEF TypeOK
    <3>2. {n \in Hypos \X Evids : Lesson(kb, h, evidStatus, written)[n[1]][n[2]]
                                     # kb[n[1]][n[2]]} = written
      BY <2>2, <3>1, LessonWrites, WrittenType
    <3> QED
      BY <2>1, <3>2 DEF Protocol!Written
  <2>5. kb' = Protocol!Lesson(kb, h, evidStatus, written)
    BY <2>1, SameBase
  <2>6. Protocol!TeachCutShort
    BY <2>1, <2>2, <2>3, <2>4, <2>5, SameBase DEF Protocol!TeachCutShort, Solution
  <2> QED
    BY <2>6 DEF Protocol!Next
<1>8. CASE UNCHANGED vars
  BY <1>8 DEF vars, memory, verdict, Protocol!vars, Phase
<1> QED
  BY <1>1, <1>2, <1>3, <1>4, <1>5, <1>6, <1>7, <1>8 DEF Next

(* A rule with hypotheses: whatever the user answers and whenever the       *)
(* process ends, its case teaches one lesson or none, of a hypothesis of    *)
(* the rule, and nothing else changes the base.                             *)
THEOREM Refinement == ASSUME Hypos # {} PROVE Spec => ImplementsProtocol
<1>1. Init => Protocol!Init
  BY DEF Init, NoCase, Protocol!Init, Phase
<1>2. IInv /\ ClosedClean /\ [Next]_vars => [Protocol!Next]_(Protocol!vars)
  BY StepRefines
<1> QED
  BY <1>1, <1>2, Invariance, ClosedCleanly, PTL DEF Spec, Protocol!Spec, ImplementsProtocol

-------------------------------------------------------------------------------
(* The sums of the model as sums of functions, see Sums.                    *)

LEMMA FiniteValues ==
    /\ IsFiniteSet(EvidValues) /\ IsFiniteSet(Evids)
    /\ IsFiniteSet(Hypos \X EvidValues) /\ IsFiniteSet(Evids \X EvidValues)
<1>1. IsFiniteSet(EvidValues)
  <2>1. 0 \in Int /\ 2 \in Int
    OBVIOUS
  <2> QED
    BY <2>1, FS_Interval DEF EvidValues
<1> QED
  BY <1>1, EvidsAssumption, HyposAssumption, FS_Product

TruesAt(base, h, e) == base[h][e][0].true + base[h][e][1].true + base[h][e][2].true
TruesOf(base, e)    == [h \in Hypos |-> TruesAt(base, h, e)]
PriorsOf(h)         == [n \in Evids \X EvidValues |-> kb[h][n[1]][n[2]].true]

LEMMA TruesSum ==
    ASSUME NEW base, NEW e
    PROVE  Trues(base, e) = SumOf(TruesOf(base, e), Hypos)
<1> DEFINE S    == Hypos
           t(h) == base[h][e][0].true + base[h][e][1].true + base[h][e][2].true
           f    == TruesOf(base, e)
           P(g) == g = [s \in SUBSET S |-> IF s = {} THEN 0 ELSE t(Taken(s)) + g[s \ {Taken(s)}]]
<1>1. Trues(base, e) = (CHOOSE g : P(g))[S]
  BY DEF Trues, MapThenSumSet, MapThenFoldSet, Taken
<1>2. ASSUME NEW g PROVE P(g) <=> Sums(g, f, S)
  <2>1. \A s \in SUBSET S : s # {} => f[Taken(s)] = t(Taken(s))
    BY TakenIn DEF TruesOf, TruesAt
  <2> HIDE DEF f, t, S
  <2> QED
    BY <2>1 DEF Sums
<1>3. (CHOOSE g : P(g)) = TheSum(f, S)
  BY <1>2, Zenon DEF TheSum
<1> QED
  BY <1>1, <1>3, Unfold

LEMMA PriorsSum ==
    ASSUME NEW h \in Hypos
    PROVE  PriorCounts[h] = SumOf(PriorsOf(h), Evids \X EvidValues)
<1> DEFINE S    == Evids \X EvidValues
           t(n) == kb[h][n[1]][n[2]].true
           f    == PriorsOf(h)
           P(g) == g = [s \in SUBSET S |-> IF s = {} THEN 0 ELSE t(Taken(s)) + g[s \ {Taken(s)}]]
<1>1. PriorCounts[h] = (CHOOSE g : P(g))[S]
  BY DEF PriorCounts, MapThenSumSet, MapThenFoldSet, Taken
<1>2. ASSUME NEW g PROVE P(g) <=> Sums(g, f, S)
  <2>1. \A s \in SUBSET S : s # {} => f[Taken(s)] = t(Taken(s))
    BY TakenIn DEF PriorsOf
  <2> HIDE DEF f, t, S
  <2> QED
    BY <2>1 DEF Sums
<1>3. (CHOOSE g : P(g)) = TheSum(f, S)
  BY <1>2, Zenon DEF TheSum
<1> QED
  BY <1>1, <1>3, Unfold

LEMMA SumIsSum == ASSUME NEW f PROVE Sum(f) = SumOf(f, DOMAIN f)
BY DEF Sum, SumOf

-------------------------------------------------------------------------------
(* What a lesson adds to the counts.                                       *)

Bases == [Hypos -> [Evids -> Nodes]]

LEMMA NodeCounts ==
    ASSUME NEW base \in Bases, NEW h \in Hypos, NEW e \in Evids, NEW v \in EvidValues
    PROVE  base[h][e] \in Nodes /\ base[h][e][v].true \in Nat /\ base[h][e][v].false \in Nat
BY DEF Bases, Nodes, Counts

(* A lesson adds one count to each node it writes, at the value the case    *)
(* has for the evidence, and to "true" at the node of the true hypothesis.  *)
LEMMA LessonAt ==
    ASSUME NEW base \in Bases, NEW t, NEW values \in [Evids -> EvidValues], NEW written,
           NEW h \in Hypos, NEW e \in Evids, NEW v \in EvidValues
    PROVE  /\ Lesson(base, t, values, written)[h][e][v].true =
                 IF <<h, e>> \in written /\ v = values[e] /\ h = t
                 THEN base[h][e][v].true + 1 ELSE base[h][e][v].true
           /\ Lesson(base, t, values, written)[h][e][v].false =
                 IF <<h, e>> \in written /\ v = values[e] /\ h # t
                 THEN base[h][e][v].false + 1 ELSE base[h][e][v].false
<1>0. base[h][e] \in Nodes /\ values[e] \in EvidValues
  BY DEF Bases
<1>1. Lesson(base, t, values, written)[h][e] =
         IF <<h, e>> \in written THEN Incremented(base[h][e], values[e], h = t) ELSE base[h][e]
  BY DEF Lesson, Bases
<1>2. ASSUME NEW node \in Nodes, NEW w \in EvidValues
      PROVE  /\ Incremented(node, w, TRUE)[v].true =
                  IF v = w THEN node[v].true + 1 ELSE node[v].true
             /\ Incremented(node, w, TRUE)[v].false = node[v].false
             /\ Incremented(node, w, FALSE)[v].true = node[v].true
             /\ Incremented(node, w, FALSE)[v].false =
                  IF v = w THEN node[v].false + 1 ELSE node[v].false
  BY DEF Incremented, Nodes, Counts
<1>3. CASE <<h, e>> \notin written
  BY <1>1, <1>3
<1>4. CASE <<h, e>> \in written /\ h = t
  <2>1. Lesson(base, t, values, written)[h][e] = Incremented(base[h][e], values[e], TRUE)
    <3>1. (h = t) = TRUE
      BY <1>4
    <3> QED
      BY <1>1, <1>4, <3>1, Zenon
  <2>2. /\ Incremented(base[h][e], values[e], TRUE)[v].true =
              IF v = values[e] THEN base[h][e][v].true + 1 ELSE base[h][e][v].true
        /\ Incremented(base[h][e], values[e], TRUE)[v].false = base[h][e][v].false
    BY <1>0, <1>2, Zenon
  <2> QED
    BY <1>4, <2>1, <2>2
<1>5. CASE <<h, e>> \in written /\ h # t
  <2>1. Lesson(base, t, values, written)[h][e] = Incremented(base[h][e], values[e], FALSE)
    <3>1. (h = t) = FALSE
      BY <1>5
    <3> QED
      BY <1>1, <1>5, <3>1, Zenon
  <2>2. /\ Incremented(base[h][e], values[e], FALSE)[v].true = base[h][e][v].true
        /\ Incremented(base[h][e], values[e], FALSE)[v].false =
              IF v = values[e] THEN base[h][e][v].false + 1 ELSE base[h][e][v].false
    BY <1>0, <1>2, Zenon
  <2> QED
    BY <1>5, <2>1, <2>2
<1> QED
  BY <1>3, <1>4, <1>5

LEMMA LessonTotal ==
    ASSUME NEW base \in Bases, NEW t, NEW values \in [Evids -> EvidValues], NEW written,
           NEW h \in Hypos, NEW e \in Evids
    PROVE  /\ Total(base, h, e) \in Int
           /\ Total(Lesson(base, t, values, written), h, e) =
                 Total(base, h, e) + (IF <<h, e>> \in written THEN 1 ELSE 0)
<1> DEFINE new == Lesson(base, t, values, written)
           x == values[e]
           old(v) == base[h][e][v]
<1>1. \A v \in EvidValues :
         /\ old(v).true \in Nat /\ old(v).false \in Nat
         /\ new[h][e][v].true = IF <<h, e>> \in written /\ v = x /\ h = t
                                THEN old(v).true + 1 ELSE old(v).true
         /\ new[h][e][v].false = IF <<h, e>> \in written /\ v = x /\ h # t
                                 THEN old(v).false + 1 ELSE old(v).false
  BY NodeCounts, LessonAt
<1>2. /\ Total(base, h, e) = old(0).true + old(1).true + old(2).true
                                + old(0).false + old(1).false + old(2).false
      /\ Total(new, h, e) =
            new[h][e][0].true + new[h][e][1].true + new[h][e][2].true
                + new[h][e][0].false + new[h][e][1].false + new[h][e][2].false
  BY DEF Total
<1>3. 0 \in EvidValues /\ 1 \in EvidValues /\ 2 \in EvidValues /\ (x = 0 \/ x = 1 \/ x = 2)
  BY DEF EvidValues
<1> HIDE DEF new, x, old
<1>4. /\ Total(base, h, e) \in Int
      /\ Total(new, h, e) = Total(base, h, e) + (IF <<h, e>> \in written THEN 1 ELSE 0)
  BY <1>1, <1>2, <1>3, SMTT(30)
<1> QED
  BY <1>4 DEF new

LEMMA LessonTrues ==
    ASSUME NEW base \in Bases, NEW t \in Hypos, NEW values \in [Evids -> EvidValues],
           NEW written, NEW e \in Evids
    PROVE  /\ Trues(base, e) \in Int
           /\ Trues(Lesson(base, t, values, written), e) =
                 Trues(base, e) + (IF <<t, e>> \in written THEN 1 ELSE 0)
<1> DEFINE new == Lesson(base, t, values, written)
           f == TruesOf(base, e)
           g == TruesOf(new, e)
           x == values[e]
<1>1. ASSUME NEW h \in Hypos
      PROVE  /\ f[h] \in Int /\ g[h] \in Int
             /\ g[h] = IF <<t, e>> \in written /\ h = t THEN f[h] + 1 ELSE f[h]
  <2>1. \A v \in EvidValues :
           /\ base[h][e][v].true \in Nat
           /\ new[h][e][v].true = IF <<h, e>> \in written /\ v = x /\ h = t
                                  THEN base[h][e][v].true + 1 ELSE base[h][e][v].true
    BY NodeCounts, LessonAt
  <2>2. /\ f[h] = base[h][e][0].true + base[h][e][1].true + base[h][e][2].true
        /\ g[h] = new[h][e][0].true + new[h][e][1].true + new[h][e][2].true
    BY DEF TruesOf, TruesAt
  <2>3. 0 \in EvidValues /\ 1 \in EvidValues /\ 2 \in EvidValues /\ (x = 0 \/ x = 1 \/ x = 2)
    BY DEF EvidValues
  <2> HIDE DEF f, g, x, new
  <2>4. CASE <<t, e>> \in written /\ h = t
    <3> DEFINE old(v) == base[h][e][v].true
               now(v) == new[h][e][v].true
    <3>1. \A v \in EvidValues : old(v) \in Nat /\ now(v) = IF v = x THEN old(v) + 1 ELSE old(v)
      BY <2>1, <2>4
    <3>2. f[h] = old(0) + old(1) + old(2) /\ g[h] = now(0) + now(1) + now(2)
      BY <2>2
    <3> HIDE DEF old, now
    <3>3. /\ old(0) \in Nat /\ old(1) \in Nat /\ old(2) \in Nat
          /\ \/ now(0) = old(0) + 1 /\ now(1) = old(1) /\ now(2) = old(2)
             \/ now(0) = old(0) /\ now(1) = old(1) + 1 /\ now(2) = old(2)
             \/ now(0) = old(0) /\ now(1) = old(1) /\ now(2) = old(2) + 1
      BY <3>1, <2>3
    <3>4. f[h] \in Int /\ g[h] = f[h] + 1
      BY <3>2, <3>3
    <3> QED
      BY <2>4, <3>4
  <2>5. CASE ~(<<t, e>> \in written /\ h = t)
    <3>1. \A v \in EvidValues : new[h][e][v].true = base[h][e][v].true
      BY <2>1, <2>5
    <3>2. g[h] = f[h] /\ f[h] \in Int
      BY <2>1, <2>2, <2>3, <3>1
    <3> QED
      BY <2>5, <3>2
  <2> QED
    BY <2>4, <2>5
<1>2. Trues(base, e) = SumOf(f, Hypos) /\ Trues(new, e) = SumOf(g, Hypos)
  BY TruesSum
<1> HIDE DEF f, g, x, new
<1>3. IsFiniteSet(Hypos) /\ \A h \in Hypos : f[h] \in Int /\ g[h] \in Int
  BY <1>1, HyposAssumption
<1>4. SumOf(g, Hypos) = SumOf(f, Hypos) + (g[t] - f[t])
  <2>1. \A h \in Hypos \ {t} : g[h] = f[h]
    BY <1>1
  <2> QED
    BY <1>3, <2>1, SumChange
<1>5. SumOf(f, Hypos) \in Int
  BY <1>3, SumInt
<1>6. g[t] - f[t] = IF <<t, e>> \in written THEN 1 ELSE 0
  BY <1>1
<1>7. /\ Trues(base, e) \in Int
      /\ Trues(new, e) = Trues(base, e) + (IF <<t, e>> \in written THEN 1 ELSE 0)
  BY <1>2, <1>4, <1>5, <1>6
<1> QED
  BY <1>7 DEF new

LEMMA TotalInt ==
    ASSUME NEW base \in Bases, NEW e \in Evids
    PROVE  Trues(base, e) \in Int /\ \A h \in Hypos : Total(base, h, e) \in Int
<1>0. 0 \in EvidValues /\ 1 \in EvidValues /\ 2 \in EvidValues
  BY DEF EvidValues
<1>1. ASSUME NEW h \in Hypos PROVE Total(base, h, e) \in Int /\ TruesAt(base, h, e) \in Int
  <2>1. \A v \in EvidValues : base[h][e][v].true \in Nat /\ base[h][e][v].false \in Nat
    BY NodeCounts
  <2> QED
    BY <1>0, <2>1 DEF Total, TruesAt
<1>2. Trues(base, e) \in Int
  <2>1. \A h \in Hypos : TruesOf(base, e)[h] \in Int
    BY <1>1 DEF TruesOf
  <2> QED
    BY <2>1, HyposAssumption, TruesSum, SumInt
<1> QED
  BY <1>1, <1>2

LEMMA NoEvidence == Hypos = {} => Evids = {}
BY EvidsAssumption

LEMMA InitBalance == Init => LessonsBalance
<1> SUFFICES ASSUME Init PROVE LessonsBalance
  OBVIOUS
<1>1. kb = StartKb /\ StartKb \in Bases /\ lessons = 0 /\ torn = 0
  BY StartKbAssumption DEF Init, Bases
<1> QED
  BY <1>1, TotalInt DEF LessonsBalance

(* A lesson, whole or cut short.                                            *)
LEMMA LessonBalances ==
    ASSUME TypeOK, LessonsBalance, NEW t \in Hypos, NEW written,
           kb' = Lesson(kb, t, evidStatus, written),
           \/ written = Hypos \X Evids /\ lessons' = lessons + 1 /\ torn' = torn
           \/ lessons' = lessons /\ torn' = torn + 1
    PROVE  LessonsBalance'
<1>0. /\ kb \in Bases /\ StartKb \in Bases /\ evidStatus \in [Evids -> EvidValues]
      /\ lessons \in Nat /\ torn \in Nat
  BY StartKbAssumption DEF TypeOK, Bases
<1> SUFFICES ASSUME NEW e \in Evids
             PROVE  /\ \A h \in Hypos : Total(kb', h, e) - Total(StartKb, h, e)
                                           \in lessons' .. lessons' + torn'
                    /\ Trues(kb', e) - Trues(StartKb, e) \in lessons' .. lessons' + torn'
  BY DEF LessonsBalance
<1>1. ASSUME NEW was \in Int, NEW start \in Int, NEW is, NEW n, NEW h \in Hypos,
             was - start \in lessons .. lessons + torn,
             is = was + (IF n \in written THEN 1 ELSE 0), n = <<h, e>>
      PROVE  is - start \in lessons' .. lessons' + torn'
  <2>1. CASE n \in written
    BY <1>0, <1>1, <2>1
  <2>2. CASE n \notin written
    <3>1. lessons' = lessons /\ torn' = torn + 1
      BY <1>1, <2>2
    <3> QED
      BY <1>0, <1>1, <2>2, <3>1
  <2> QED
    BY <2>1, <2>2
<1>2. ASSUME NEW h \in Hypos
      PROVE  Total(kb', h, e) - Total(StartKb, h, e) \in lessons' .. lessons' + torn'
  <2>1. /\ Total(kb, h, e) \in Int /\ Total(StartKb, h, e) \in Int
        /\ Total(kb', h, e) = Total(kb, h, e) + (IF <<h, e>> \in written THEN 1 ELSE 0)
    BY <1>0, TotalInt, LessonTotal
  <2>2. Total(kb, h, e) - Total(StartKb, h, e) \in lessons .. lessons + torn
    BY DEF LessonsBalance
  <2> QED
    BY <1>1, <2>1, <2>2
<1>3. Trues(kb', e) - Trues(StartKb, e) \in lessons' .. lessons' + torn'
  <2>1. /\ Trues(kb, e) \in Int /\ Trues(StartKb, e) \in Int
        /\ Trues(kb', e) = Trues(kb, e) + (IF <<t, e>> \in written THEN 1 ELSE 0)
    BY <1>0, TotalInt, LessonTrues
  <2>2. Trues(kb, e) - Trues(StartKb, e) \in lessons .. lessons + torn
    BY DEF LessonsBalance
  <2> QED
    BY <1>1, <2>1, <2>2
<1> QED
  BY <1>2, <1>3

LEMMA NextBalance == IInv /\ LessonsBalance /\ [Next]_vars => LessonsBalance'
<1> SUFFICES ASSUME IInv, LessonsBalance, [Next]_vars, Hypos # {} PROVE LessonsBalance'
  BY NoEvidence DEF LessonsBalance
<1>0. TypeOK
  BY DEF IInv
<1>1. CASE UNCHANGED memory
  BY <1>1 DEF memory, LessonsBalance
<1>2. CASE VerifyAndLearn
  <2>1. PICK h \in Named :
           IF h # 0 THEN /\ kb' = Lesson(kb, h, evidStatus, Hypos \X Evids)
                         /\ lessons' = lessons + 1 /\ torn' = torn
                    ELSE UNCHANGED memory
    BY <1>2 DEF VerifyAndLearn, memory
  <2>2. h \in Hypos \cup {0}
    BY NamedHypo
  <2> QED
    BY <1>0, <1>1, <2>1, <2>2, LessonBalances
<1>3. CASE CrashWhileTeaching
  <2>0. PICK h \in Named \ {0} : \E written : kb' = Lesson(kb, h, evidStatus, written)
    BY <1>3 DEF CrashWhileTeaching
  <2>1. PICK written : kb' = Lesson(kb, h, evidStatus, written)
    BY <2>0
  <2>2. h \in Hypos /\ lessons' = lessons /\ torn' = torn + 1
    BY <1>3, NamedHypo DEF CrashWhileTeaching
  <2> QED
    BY <1>0, <2>1, <2>2, LessonBalances
<1>4. CASE ReportFixed
  BY <1>0, <1>1, <1>4, FixedLeavesBase DEF ReportFixed, memory
<1> QED
  BY <1>1, <1>2, <1>3, <1>4 DEF Next, vars, OpenCase, DeleteCase, LeaveIdle, AskQuestion,
     EvaluateEvidence, OfferToVerify, RejectMapp, NotSureWhichHypo, RejectAllHypos,
     PickFromList, FaultNotFixed, TellFixed, Crash, Keep

(* For any rule, base and sequence of cases, crashes and restarts: every    *)
(* node counts each whole lesson once and each interrupted one at most      *)
(* once, and each lesson made one hypothesis true.                          *)
THEOREM Balance == Spec => []LessonsBalance
BY InitInvariant, NextPreserves, InitBalance, NextBalance, PTL DEF Spec

-------------------------------------------------------------------------------
(* The divisors of the probabilities.                                      *)

(* Some hypothesis was true in some case the base counts: a base that was   *)
(* built whole starts with such counts.                                     *)
Primed(base) == \E h \in Hypos, e \in Evids, v \in EvidValues : base[h][e][v].true > 0

Weighed == open /\ Hypos # {} /\ ~noEvid => sumJoint > 0

LEMMA PrimedDivides == ASSUME TypeOK, Primed(kb) PROVE Sum(PriorCounts) > 0
<1>1. PICK h \in Hypos, e \in Evids, v \in EvidValues : kb[h][e][v].true > 0
  BY DEF Primed
<1>2. \A g \in Hypos : \A n \in Evids \X EvidValues : PriorsOf(g)[n] \in Nat
  BY NodeCounts DEF TypeOK, Bases, PriorsOf
<1>3. \A g \in Hypos : PriorCounts[g] \in Nat
  <2> SUFFICES ASSUME NEW g \in Hypos PROVE PriorCounts[g] \in Nat
    OBVIOUS
  <2>1. SumOf(PriorsOf(g), Evids \X EvidValues) \in Nat
    BY <1>2, FiniteValues, SumNat
  <2> QED
    BY <2>1, PriorsSum
<1>4. PriorCounts[h] > 0
  <2>1. PriorsOf(h)[<<e, v>>] = kb[h][e][v].true /\ <<e, v>> \in Evids \X EvidValues
    BY DEF PriorsOf
  <2>2. PriorsOf(h)[<<e, v>>] <= PriorCounts[h]
    BY <1>2, <2>1, FiniteValues, PriorsSum, SumBounds
  <2> QED
    BY <1>1, <1>2, <1>3, <2>1, <2>2
<1>5. PriorCounts[h] <= SumOf(PriorCounts, Hypos) /\ SumOf(PriorCounts, Hypos) \in Nat
  BY <1>3, HyposAssumption, SumBounds, SumNat
<1>6. Sum(PriorCounts) = SumOf(PriorCounts, Hypos)
  BY SumIsSum DEF PriorCounts
<1> QED
  BY <1>3, <1>4, <1>5, <1>6

LEMMA LessonPrimed ==
    ASSUME NEW base \in Bases, Primed(base), NEW t, NEW values \in [Evids -> EvidValues],
           NEW written
    PROVE  Primed(Lesson(base, t, values, written))
<1>1. PICK h \in Hypos, e \in Evids, v \in EvidValues : base[h][e][v].true > 0
  BY DEF Primed
<1>2. base[h][e][v].true \in Nat
  BY NodeCounts
<1> DEFINE new == Lesson(base, t, values, written)[h][e][v].true
<1>3. new = IF <<h, e>> \in written /\ v = values[e] /\ h = t
            THEN base[h][e][v].true + 1 ELSE base[h][e][v].true
  BY LessonAt
<1> HIDE DEF new
<1>4. new > 0
  BY <1>1, <1>2, <1>3
<1> QED
  BY <1>4 DEF Primed, new

LEMMA NextPrimed == TypeOK /\ Primed(kb) /\ [Next]_vars => Primed(kb)'
<1> SUFFICES ASSUME TypeOK, Primed(kb), [Next]_vars PROVE Primed(kb')
  BY DEF Primed
<1>0. kb \in Bases /\ evidStatus \in [Evids -> EvidValues]
  BY DEF TypeOK, Bases
<1>1. CASE kb' = kb
  BY <1>1
<1>2. CASE VerifyAndLearn
  <2>1. kb' = kb \/ \E h : kb' = Lesson(kb, h, evidStatus, Hypos \X Evids)
    BY <1>2 DEF VerifyAndLearn
  <2> QED
    BY <1>0, <2>1, LessonPrimed
<1>3. CASE CrashWhileTeaching
  <2>1. \E h, written : kb' = Lesson(kb, h, evidStatus, written)
    BY <1>3 DEF CrashWhileTeaching
  <2> QED
    BY <1>0, <2>1, LessonPrimed
<1>4. CASE ReportFixed
  BY <1>1, <1>4, FixedLeavesBase DEF ReportFixed
<1> QED
  BY <1>1, <1>2, <1>3, <1>4 DEF Next, vars, memory, OpenCase, DeleteCase, LeaveIdle,
     AskQuestion, EvaluateEvidence, OfferToVerify, RejectMapp, NotSureWhichHypo,
     RejectAllHypos, PickFromList, FaultNotFixed, TellFixed, Crash, Keep

(* Weighing leaves a positive sum: somebody survives, and what survives has *)
(* counts or is counted.                                                    *)
LEMMA WeighPositive ==
    ASSUME TypeOK, evidUp \in Evids, Alive # {}, NEW v \in EvidValues, Weigh(v)
    PROVE  sumJoint' > 0
<1>0. /\ \A h \in Hypos : Post(h, v) \in Nat /\ accum[h] \in Nat
      /\ Alive \subseteq Hypos
  BY PostType DEF TypeOK, Alive
<1>1. CASE WeighNovel(v)
  <2>1. Cardinality(Alive) \in Nat /\ Cardinality(Alive) # 0
    BY <1>0, FiniteHypos, FS_EmptySet
  <2> QED
    BY <1>1, <2>1 DEF WeighNovel
<1>2. CASE \E m \in Hypos : WeighSole(m, v)
  BY <1>0, <1>2 DEF WeighSole, Sole
<1>3. CASE WeighShared(v)
  <2> DEFINE dead == {h \in Hypos : RuledOut(h, v)}
             f == [h \in Alive \ dead |-> accum'[h]]
  <2>1. PICK m \in Alive : Post(m, v) # 0
    BY <1>3 DEF WeighShared, Novel
  <2>2. m \in Alive \ dead /\ m \in Hypos
    BY <1>0, <2>1 DEF RuledOut
  <2>3. \A h \in Alive \ dead : f[h] = accum[h] + Post(h, v)
    BY <1>0, <1>3 DEF WeighShared
  <2>4. DOMAIN f = Alive \ dead /\ sumJoint' = Sum(f)
    BY <1>3 DEF WeighShared
  <2>5. IsFiniteSet(Alive \ dead)
    BY <1>0, FiniteHypos
  <2> HIDE DEF f, dead
  <2>6. \A h \in Alive \ dead : f[h] \in Nat
    BY <1>0, <2>3
  <2>7. f[m] <= SumOf(f, Alive \ dead) /\ SumOf(f, Alive \ dead) \in Nat
    BY <2>2, <2>5, <2>6, SumBounds, SumNat
  <2>8. sumJoint' = SumOf(f, Alive \ dead)
    BY <2>4, SumIsSum
  <2>9. f[m] > 0 /\ f[m] \in Nat
    BY <1>0, <2>1, <2>2, <2>3
  <2> QED
    BY <2>7, <2>8, <2>9
<1> QED
  BY <1>1, <1>2, <1>3 DEF Weigh

LEMMA NextWeighed == IInv /\ Weighed /\ [Next]_vars => Weighed'
<1> SUFFICES ASSUME IInv, Weighed, [Next]_vars, Hypos # {} PROVE Weighed'
  BY DEF Weighed
<1>1. CASE UNCHANGED <<open, noEvid, sumJoint>>
  BY <1>1 DEF Weighed
<1>2. CASE OpenCase \/ DeleteCase \/ Crash \/ ReportFixed \/ CrashWhileTeaching
  BY <1>2 DEF OpenCase, DeleteCase, Crash, ReportFixed, CrashWhileTeaching, Vanish, Weighed
<1>3. CASE EvaluateEvidence
  <2>1. TypeOK /\ evidUp \in Evids /\ ~spent
    BY <1>3 DEF IInv, SpentPrompts, EvaluateEvidence
  <2>2. CASE Evaluate
    <3>1. PICK v \in {0, 1} : Weigh(v)
      BY <2>2 DEF Evaluate
    <3>2. open /\ Alive # {} /\ v \in EvidValues
      BY <2>2 DEF Evaluate, Chosen, IInv, SomeHypothesisSurvives, EvidValues
    <3> QED
      BY <2>1, <3>1, <3>2, WeighPositive DEF Weighed
  <2>3. CASE Skip
    BY <1>1, <1>3, <2>3 DEF Skip, belief, EvaluateEvidence
  <2> QED
    BY <1>3, <2>1, <2>2, <2>3 DEF EvaluateEvidence
<1> QED
  BY <1>1, <1>2, <1>3 DEF Next, vars, evidence, belief, LeaveIdle, AskQuestion, OfferToVerify,
     RejectMapp, NotSureWhichHypo, RejectAllHypos, PickFromList, FaultNotFixed, TellFixed,
     VerifyAndLearn, Keep

(* For any rule whose base holds some case of a true hypothesis at the      *)
(* start, UpdateBayesProbabilities never divides by zero, whatever the      *)
(* evidence rules out.                                                      *)
THEOREM Divisors == ASSUME Hypos # {} => Primed(StartKb) PROVE Spec => []DivisorsPositive
<1> DEFINE Counted == Hypos # {} => Primed(kb)
<1>1. Init => Counted /\ Weighed
  BY DEF Init, NoCase, Weighed
<1>2. IInv /\ Counted /\ Weighed /\ [Next]_vars => (Counted /\ Weighed)'
  <2>1. IInv /\ Counted /\ [Next]_vars => Counted'
    BY NextPrimed DEF IInv
  <2> QED
    BY <2>1, NextWeighed
<1>3. IInv /\ Counted /\ Weighed => DivisorsPositive
  BY PrimedDivides DEF IInv, Weighed, DivisorsPositive
<1> HIDE DEF Counted
<1> QED
  BY <1>1, <1>2, <1>3, InitInvariant, NextPreserves, PTL DEF Spec
===============================================================================

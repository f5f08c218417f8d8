----------------------------- MODULE CaseDialogue -----------------------------
(***************************************************************************)
(* The diagnosis of one rule's failures: a case (CCase, case.cpp) opened   *)
(* on a trapped rule, its dialogue with the user, the Bayesian weighing of *)
(* the evidence the user gives and the lessons a case teaches the          *)
(* knowledge base, which outlives the case and the process.                *)
(*                                                                         *)
(* A rule has at most one case outstanding (a rule in case mode is not     *)
(* trapped) and the nodes of the knowledge base are keyed by rule, so the  *)
(* cases of different rules do not meet here.  The REST layer runs each    *)
(* answer under its API lock: an answer is one action.  What the user sees *)
(* is abstracted to which prompt is up; an answer is a member of the menu  *)
(* of that prompt, not its index.                                          *)
(*                                                                         *)
(* The tallies of hypotheses and evidence are hash tables.  Where the code *)
(* walks one, any order is taken here, a new one at every walk.            *)
(***************************************************************************)
EXTENDS KnowBase, FiniteSets, FiniteSetsExt, Functions

CONSTANTS Hypos,        \* uais of the hypotheses of the rule, {} = no diagnostics
          Evids,        \* uais of the items of evidence
          StartKb,      \* the rule's part of the knowledge base at the start
          MaxLessons,   \* bound on the lessons taught, whole or interrupted
          MaxWritten    \* bound on the nodes a lesson cut short has written

ASSUME HyposAssumption      == IsFiniteSet(Hypos) /\ Hypos \subseteq Nat \ {0}
ASSUME EvidsAssumption      == /\ IsFiniteSet(Evids) /\ Evids \subseteq Nat \ {0}
                               /\ Hypos = {} => Evids = {}
ASSUME StartKbAssumption    == StartKb \in [Hypos -> [Evids -> Nodes]]
ASSUME MaxLessonsAssumption == MaxLessons \in Nat /\ MaxWritten \in Nat

VARIABLES
    kb,             \* the rule's nodes in the HDF5 file
    open,           \* a case on the rule exists
    prompt,         \* userPrompt with its handler p_ActOnAnswer
    waiting,        \* waitingOnUserToAnswer
    queue,          \* evidsUnevaluated
    evidUp,         \* uaiEvidUp
    evidStatus,     \* evidTally[e].evidStatus
    noEvid,         \* noEvidenceEvaluated
    hypoStatus,     \* hypoTally[h].hypoStatus: 0 dead, 1 likely true, 2 neither
    accum,          \* hypoTally[h].accumPostCountsJointToThisHypoTrue
    sumJoint,       \* sumJointPostCountsAccumByHyposAlive
    numAlive,       \* numHyposAlive
    mapp,           \* uaiMappHypo
    mappAt100,      \* mappAt100pct
    trueHypo,       \* uaiTrueHypo
    spent,          \* caseSpentKbase
    bust,           \* caseBustsKbase
    verified,       \* caseVerifiedAndLearned
    lessons, torn   \* history: lessons taught whole, and cut short by a crash

evidence == <<queue, evidUp, evidStatus, noEvid>>
belief   == <<hypoStatus, accum, sumJoint, numAlive, mapp, mappAt100>>
verdict  == <<trueHypo, verified>>
memory   == <<kb, lessons, torn>>
vars     == <<memory, open, prompt, waiting, evidence, belief, verdict, spent, bust>>

(* The prompts of a case and the choices offered with each (choice_...).   *)
Menu ==
    [ TopMenu      |-> {"idle", "ask", "verify", "delete"},
      EvaluateEvid |-> {"no", "yes", "dnk"},
      SpentOut     |-> {"idle", "verify", "delete"},
      MappAt100    |-> {"idle", "verify", "delete"},
      CaseVerified |-> {"idle", "fixed", "delete"},
      IsMapp       |-> {"no", "yes", "dnk"},
      IsAny        |-> {"no", "yes", "dnk"},
      IsFaultFixed |-> {"no", "yes", "dnk"},
      PickHypo     |-> {"hypothesis"},
      ShouldDelete |-> {"idle", "delete"} ]

Prompts == DOMAIN Menu

(* CheckAnswerValidThenSet: the answer is one the prompt offers, and the    *)
(* case is waiting for one; any other answer is refused with no change.     *)
Chosen(choice) == open /\ waiting /\ choice \in Menu[prompt]
Answer(p, choice) == prompt = p /\ Chosen(choice)

Ask(p) == prompt' = p /\ waiting' = TRUE

-------------------------------------------------------------------------------
(* The weighing of evidence.                                               *)

Sum(f) == MapThenSumSet(LAMBDA h : f[h], DOMAIN f)

PriorCounts == [h \in Hypos |-> MapThenSumSet(
                   LAMBDA n : kb[h][n[1]][n[2]].true, Evids \X EvidValues)]

(* static_cast<short>                                                       *)
Short(n) == ((n + 32768) % 65536) - 32768
PctX10(count, total) == Short((1000 * count) \div total)

(* The hypothesis the loop of UpdateBayesProbabilities ends with: the first *)
(* to reach 99.0 %, or else the first of those ahead with the greatest      *)
(* count.  Where none is ahead the MAPP there is stays, unless hypotheses   *)
(* at 0.0 % have greater counts (with no MAPP yet its count is not found).  *)
Leads(h, counts, total) ==
    LET q == [g \in Hypos |-> PctX10(counts[g], total)]
        certain == {g \in Hypos : q[g] > 989}
        ahead   == {g \in Hypos : q[g] > 0}
        level   == {g \in Hypos : q[g] = 0 /\ counts[g] > counts[mapp]}
    IN  IF certain # {} THEN h \in certain
        ELSE IF ahead # {}
        THEN \A g \in ahead : \/ q[g] < q[h]
                              \/ q[g] = q[h] /\ counts[g] <= counts[h]
        ELSE /\ mapp # 0
             /\ IF level = {} THEN h = mapp
                ELSE h \in level /\ \A g \in level : counts[g] <= counts[h]

(* UpdateBayesProbabilities on given counts, when no MAPP at 100 % is held. *)
LeadFrom(counts, total) ==
    IF Hypos = {} THEN UNCHANGED <<mapp, mappAt100>>
    ELSE \E h \in Hypos : /\ Leads(h, counts, total)
                          /\ mapp' = h
                          /\ mappAt100' = (PctX10(counts[h], total) > 989)

UpdateBayes ==
    IF spent \/ bust \/ mappAt100 THEN UNCHANGED <<mapp, mappAt100>>
    ELSE IF noEvid THEN LeadFrom(PriorCounts, Sum(PriorCounts))
    ELSE LeadFrom(accum, sumJoint)

Alive == {h \in Hypos : hypoStatus[h] # 0}

Post(h, v) == kb[h][evidUp][v].true
(* Mutant: no test for a value never seen before.                           *)
Novel_Never(v) == FALSE
Novel(v)   == \A h \in Alive : Post(h, v) = 0
Sole(m, v) == /\ m \in Alive /\ Post(m, v) > 0
              /\ \A h \in Alive \ {m} : Post(h, v) = 0
(* Mutant: the loop that kills does not skip the dead.                      *)
RuledOut_Again(h, v) == Post(h, v) = 0 /\ HasHypoEverBeenFalse(kb[h][evidUp], v)
RuledOut(h, v) == h \in Alive /\ Post(h, v) = 0 /\ HasHypoEverBeenFalse(kb[h][evidUp], v)

(* Mutant: the novel counts are not added to the sum.                       *)
WeighNovel_NoSum(v) ==
    /\ Novel(v)
    /\ accum' = [h \in Hypos |-> IF h \in Alive THEN accum[h] + 1 ELSE accum[h]]
    /\ sumJoint' = 0
    /\ UNCHANGED <<hypoStatus, numAlive>>

(* No hypothesis alive was ever true at this value: one count for each. *)
WeighNovel(v) ==
    /\ Novel(v)
    /\ accum' = [h \in Hypos |-> IF h \in Alive THEN accum[h] + 1 ELSE accum[h]]
    /\ sumJoint' = Cardinality(Alive)
    /\ UNCHANGED <<hypoStatus, numAlive>>

(* Only m was ever true at this value: every other is dead, either by the   *)
(* loop before it gets to m, which counts down, or when it is there.        *)
(* Mutant: the inner loop that kills the rest is left out.                  *)
Rivals_OnlyPassed(m, passed) == passed
Rivals(m, passed) == {h \in Hypos \ {m} : hypoStatus[h] = 2} \cup passed

WeighSole(m, v) ==
    /\ Sole(m, v)
    /\ \E passed \in SUBSET {h \in Hypos \ {m} : RuledOut(h, v)} :
          /\ hypoStatus' = [h \in Hypos |-> IF h = m THEN 1
                                            ELSE IF h \in Rivals(m, passed) THEN 0
                                            ELSE hypoStatus[h]]
          /\ accum' = [h \in Hypos |-> IF h = m THEN accum[h] + Post(h, v)
                                       ELSE IF h \in Rivals(m, passed) THEN 0
                                       ELSE accum[h]]
          /\ numAlive' = numAlive - Cardinality(passed)
    /\ sumJoint' = accum[m] + Post(m, v)
    /\ mapp' = m /\ mappAt100' = TRUE

WeighShared(v) ==
    /\ ~Novel(v) /\ ~\E m \in Hypos : Sole(m, v)
    /\ LET dead == {h \in Hypos : RuledOut(h, v)}
       IN  /\ hypoStatus' = [h \in Hypos |-> IF h \in dead THEN 0 ELSE hypoStatus[h]]
           /\ accum' = [h \in Hypos |-> IF h \in dead THEN 0
                                        ELSE IF h \in Alive THEN accum[h] + Post(h, v)
                                        ELSE accum[h]]
           /\ numAlive' = numAlive - Cardinality(dead)
           /\ sumJoint' = Sum([h \in Alive \ dead |-> accum'[h]])

(* ApplyBayesGivenEvidUpIs(v), then UpdateBayesProbabilities. *)
Weigh(v) ==
    /\ evidStatus' = [evidStatus EXCEPT ![evidUp] = v]
    /\ noEvid' = FALSE
    /\ \/ \E m \in Hypos : WeighSole(m, v)
       \/ /\ WeighNovel(v) \/ WeighShared(v)
          /\ IF mappAt100 \/ spent \/ bust THEN UNCHANGED <<mapp, mappAt100>>
             ELSE LeadFrom(accum', sumJoint')

-------------------------------------------------------------------------------
(* Opening and closing a case.                                             *)

BlankEvidence == [e \in Evids |-> Unevaluated]
BlankStatus   == [h \in Hypos |-> 2]
BlankAccum    == [h \in Hypos |-> 0]

NoCase ==
    /\ open = FALSE /\ prompt = "TopMenu" /\ waiting = FALSE
    /\ queue = <<>> /\ evidUp = 0 /\ evidStatus = BlankEvidence /\ noEvid = TRUE
    /\ hypoStatus = BlankStatus /\ accum = BlankAccum /\ sumJoint = 0
    /\ numAlive = 0 /\ mapp = 0 /\ mappAt100 = FALSE
    /\ trueHypo = 0 /\ verified = FALSE /\ spent = FALSE /\ bust = FALSE

Init == NoCase /\ kb = StartKb /\ lessons = 0 /\ torn = 0

(* The orders in which the evidence may be met.                             *)
Walks == Bijection(1 .. Cardinality(Evids), Evids)

(* CreateAndOwnCase and the constructor of CCase, when its rule is trapped. *)
OpenCase ==
    /\ ~open
    /\ open' = TRUE /\ Ask("TopMenu")
    /\ queue' \in Walks
    /\ evidUp' = 0 /\ evidStatus' = BlankEvidence /\ noEvid' = TRUE
    /\ hypoStatus' = BlankStatus /\ accum' = BlankAccum /\ sumJoint' = 0
    /\ numAlive' = Cardinality(Hypos)
    /\ IF Hypos = {} THEN mapp' = 0 /\ mappAt100' = FALSE
       ELSE LeadFrom(PriorCounts, Sum(PriorCounts))
    /\ trueHypo' = 0 /\ verified' = FALSE /\ spent' = FALSE /\ bust' = FALSE
    /\ UNCHANGED memory

(* DestroyCase; also what is left of a case when the process ends.          *)
Vanish ==
    /\ open' = FALSE /\ prompt' = "TopMenu" /\ waiting' = FALSE
    /\ queue' = <<>> /\ evidUp' = 0 /\ evidStatus' = BlankEvidence /\ noEvid' = TRUE
    /\ hypoStatus' = BlankStatus /\ accum' = BlankAccum /\ sumJoint' = 0
    /\ numAlive' = 0 /\ mapp' = 0 /\ mappAt100' = FALSE
    /\ trueHypo' = 0 /\ verified' = FALSE /\ spent' = FALSE /\ bust' = FALSE

DeleteCase ==
    /\ prompt \in {"TopMenu", "SpentOut", "MappAt100", "CaseVerified", "ShouldDelete"}
    /\ Chosen("delete")
    /\ Vanish
    /\ UNCHANGED memory

-------------------------------------------------------------------------------
(* Putting a case at idle, RegenGuiFieldsPerCaseAsIs.                       *)

(* Mutant: the bust case is not told apart.                                 *)
PromptAsIs_NoBust ==
    IF Hypos = {} THEN "ShouldDelete" ELSE IF verified THEN "IsFaultFixed"
    ELSE IF spent THEN "SpentOut" ELSE "TopMenu"

PromptAsIs ==
    IF Hypos = {} THEN "ShouldDelete"
    ELSE IF verified THEN "IsFaultFixed"
    ELSE IF spent THEN "SpentOut"
    ELSE IF bust THEN "ShouldDelete"
    ELSE "TopMenu"

LeaveIdle ==
    /\ Chosen("idle")
    /\ Ask(PromptAsIs)
    /\ IF PromptAsIs \in {"SpentOut", "TopMenu"} THEN UpdateBayes
                                                 ELSE UNCHANGED <<mapp, mappAt100>>
    /\ UNCHANGED <<memory, open, evidence, hypoStatus, accum, sumJoint, numAlive,
                   verdict, spent, bust>>

-------------------------------------------------------------------------------
(* Questions about evidence.                                               *)

(* Mutant: the queue is looked at after its front is popped.                *)
AskQuestion_PopFirst ==
    /\ Answer("TopMenu", "ask")
    /\ IF queue = <<>>
       THEN spent' = TRUE /\ Ask("SpentOut") /\ UNCHANGED <<queue, evidUp>>
       ELSE /\ evidUp' = Head(queue) /\ queue' = Tail(queue)
            /\ spent' = (queue' = <<>>)
            /\ Ask("EvaluateEvid")
    /\ UNCHANGED <<memory, open, evidStatus, noEvid, belief, verdict, bust>>

AskQuestion ==
    /\ Answer("TopMenu", "ask")
    /\ spent' = (queue = <<>>)
    /\ \/ /\ queue = <<>>
          /\ Ask("SpentOut")
          /\ UNCHANGED <<queue, evidUp>>
       \/ /\ queue # <<>>
          /\ evidUp' = Head(queue) /\ queue' = Tail(queue)
          /\ Ask("EvaluateEvid")
    /\ UNCHANGED <<memory, open, evidStatus, noEvid, belief, verdict, bust>>

(* The common tail of the handler: what the case asks next.                 *)
AfterEvidence ==
    /\ bust' = (numAlive' = 0)
    /\ spent' = (queue = <<>>)
    /\ Ask(IF mappAt100' THEN "MappAt100" ELSE IF spent' THEN "SpentOut" ELSE "TopMenu")

Evaluate ==
    /\ \/ Chosen("no")  /\ Weigh(0)
       \/ Chosen("yes") /\ Weigh(1)
    /\ AfterEvidence
    /\ UNCHANGED queue

(* Mutant: the question skipped is not put back.                            *)
Skip_NoRoll ==
    /\ Chosen("dnk")
    /\ UNCHANGED <<belief, evidStatus, noEvid>>
    /\ AfterEvidence
    /\ UNCHANGED queue

(* "Do not know" returns the question to the queue, but only after the tail *)
(* has looked whether the queue is empty.                                   *)
Skip ==
    /\ Chosen("dnk")
    /\ UNCHANGED <<belief, evidStatus, noEvid>>
    /\ AfterEvidence
    /\ queue' = Append(queue, evidUp)

(* The early return on a spent case leaves it not waiting for an answer.    *)
LeaveUnanswerable ==
    /\ open /\ waiting /\ waiting' = FALSE
    /\ UNCHANGED <<prompt, queue, evidStatus, noEvid, belief, spent, bust>>

EvaluateEvidence ==
    /\ prompt = "EvaluateEvid"
    /\ IF spent THEN LeaveUnanswerable ELSE Evaluate \/ Skip
    /\ UNCHANGED <<memory, open, evidUp, verdict>>

-------------------------------------------------------------------------------
(* Verifying a solution and teaching it.                                   *)

Keep == UNCHANGED <<memory, open, evidence, belief, verdict, spent>>

OfferToVerify ==
    /\ Chosen("verify") /\ Ask("IsMapp") /\ UNCHANGED bust /\ Keep

RejectMapp ==
    /\ Answer("IsMapp", "no") /\ Ask("IsAny") /\ UNCHANGED bust /\ Keep

NotSureWhichHypo ==
    /\ Answer("IsMapp", "dnk") \/ Answer("IsAny", "dnk")
    /\ Ask(IF spent THEN "SpentOut" ELSE "TopMenu")
    /\ UNCHANGED bust /\ Keep

RejectAllHypos ==
    /\ Answer("IsAny", "no") /\ Ask("ShouldDelete") /\ bust' = TRUE /\ Keep

PickFromList ==
    /\ Answer("IsAny", "yes") /\ Ask("PickHypo") /\ UNCHANGED bust /\ Keep

FaultNotFixed ==
    /\ Answer("IsFaultFixed", "no") \/ Answer("IsFaultFixed", "dnk")
    /\ Ask("CaseVerified") /\ UNCHANGED bust /\ Keep

TellFixed ==
    /\ Answer("CaseVerified", "fixed") /\ Ask("IsFaultFixed") /\ UNCHANGED bust /\ Keep

(* The solutions a user can name now: the MAPP hypothesis, or one from the  *)
(* list.  With no hypothesis listed the code reads past the end of an empty *)
(* map, and what it finds there is 0 or not.                                *)
WildUai == 1
Named ==
    IF Answer("IsMapp", "yes") THEN {mapp}
    ELSE IF Answer("PickHypo", "hypothesis") THEN (IF Hypos = {} THEN {0, WildUai} ELSE Hypos)
    ELSE {}

(* LearnFromUserVerifyingSoln, then the question whether the fault is fixed *)
VerifyAndLearn ==
    \E h \in Named :
        /\ trueHypo' = h
        /\ IF h # 0
           THEN /\ lessons + torn < MaxLessons
                /\ hypoStatus' = [g \in Hypos |-> IF g = h THEN 1 ELSE 0]
                /\ kb' = Lesson(kb, h, evidStatus, Hypos \X Evids)
                /\ lessons' = lessons + 1
                /\ verified' = TRUE
           ELSE UNCHANGED <<hypoStatus, kb, lessons, verified>>
        /\ Ask("IsFaultFixed")
        /\ UNCHANGED <<torn, open, evidence, accum, sumJoint, numAlive, mapp, mappAt100,
                       spent, bust>>

(* IsFaultFixed answered yes: LearnFaultHasBeenFixed and the case is gone.  *)
ReportFixed ==
    /\ Answer("IsFaultFixed", "yes")
    /\ kb' = IF verified
             THEN [h \in Hypos |-> [e \in Evids |->
                      IF h = trueHypo THEN DevolveCounts(kb[h][e]) ELSE kb[h][e]]]
             ELSE kb
    /\ Vanish
    /\ UNCHANGED <<lessons, torn>>

-------------------------------------------------------------------------------
(* The process ends: the file is all that is left.  The nodes of a lesson   *)
(* are written one at a time, in whatever orders the tallies are walked.    *)

Crash == open /\ Vanish /\ UNCHANGED memory

CrashWhileTeaching ==
    /\ lessons + torn < MaxLessons
    /\ \E h \in Named \ {0} : \E written \in WrittenSoFar(Hypos, Evids) :
          /\ Cardinality(written) <= MaxWritten
          /\ kb' = Lesson(kb, h, evidStatus, written)
    /\ torn' = torn + 1
    /\ Vanish
    /\ UNCHANGED lessons

Next ==
    \/ OpenCase \/ DeleteCase \/ LeaveIdle
    \/ AskQuestion \/ EvaluateEvidence
    \/ OfferToVerify \/ RejectMapp \/ NotSureWhichHypo \/ RejectAllHypos \/ PickFromList
    \/ VerifyAndLearn \/ FaultNotFixed \/ TellFixed \/ ReportFixed
    \/ Crash \/ CrashWhileTeaching

Spec == Init /\ [][Next]_vars

-------------------------------------------------------------------------------
(* Properties.                                                             *)

(* Every variable has its type; sumJoint is covered by DivisorsPositive.    *)
TypeOK ==
    /\ kb \in [Hypos -> [Evids -> Nodes]]
    /\ open \in BOOLEAN /\ prompt \in Prompts /\ waiting \in BOOLEAN
    /\ queue \in Seq(Evids) /\ evidUp \in Evids \cup {0}
    /\ evidStatus \in [Evids -> EvidValues] /\ noEvid \in BOOLEAN
    /\ hypoStatus \in [Hypos -> 0 .. 2] /\ accum \in [Hypos -> Nat]
    /\ numAlive \in Nat /\ mapp \in Hypos \cup {0} /\ mappAt100 \in BOOLEAN
    /\ trueHypo \in Hypos \cup {0, WildUai} /\ verified \in BOOLEAN
    /\ spent \in BOOLEAN /\ bust \in BOOLEAN
    /\ lessons \in Nat /\ torn \in Nat

(* An open case always takes an answer to the prompt it shows: no path      *)
(* through the handlers leaves waitingOnUserToAnswer false, after which     *)
(* CheckAnswerValidThenSet would refuse every answer for ever.              *)
AlwaysAnswerable == open => waiting /\ Menu[prompt] # {}

(* Weighing evidence never rules out the last hypothesis: the kills of      *)
(* ApplyBayesGivenEvidUpIs and its counter agree that one survives, so the  *)
(* case cannot declare itself bust, whatever the order of the answers.      *)
SomeHypothesisSurvives ==
    open /\ Hypos # {} => /\ Alive # {}
                          /\ numAlive >= (IF verified THEN 1 ELSE Cardinality(Alive))

Occurrences(e) == {i \in 1 .. Len(queue) : queue[i] = e}

(* Every item of evidence of an open case is in one place: waiting once in  *)
(* the queue, or asked now, or evaluated.  Skipping and asking neither      *)
(* loses a question nor asks an answered one again.                         *)
EvidencePartition ==
    open => \A e \in Evids :
        Cardinality(Occurrences(e)) =
            IF evidStatus[e] # Unevaluated \/ (prompt = "EvaluateEvid" /\ evidUp = e)
            THEN 0 ELSE 1

(* UpdateBayesProbabilities divides by a positive number whenever it runs.  *)
DivisorsPositive ==
    open /\ Hypos # {} => IF noEvid THEN Sum(PriorCounts) > 0 ELSE sumJoint > 0

(* A hypothesis the evidence marked as likely true is the only one alive    *)
(* and is the one reported as the solution, until the user says otherwise.  *)
ProvenIsAlone ==
    ~verified => \A h \in Hypos :
        hypoStatus[h] = 1 => Alive = {h} /\ mapp = h /\ mappAt100

(* What the base holds of evidence e: the lessons its node at hypothesis h  *)
(* counts, and those that made any hypothesis true.                         *)
Total(base, h, e) ==
    LET node == base[h][e]
    IN  node[0].true + node[1].true + node[2].true
            + node[0].false + node[1].false + node[2].false
Trues(base, e) ==
    MapThenSumSet(LAMBDA h : base[h][e][0].true + base[h][e][1].true + base[h][e][2].true,
                  Hypos)

(* Across cases, crashes and restarts, every node counts each whole lesson  *)
(* exactly once and each interrupted one at most once, and each lesson made *)
(* exactly one hypothesis true: LearnFromUserVerifyingSoln never counts a   *)
(* case twice.                                                              *)
LessonsBalance ==
    \A e \in Evids :
        /\ \A h \in Hypos :
              Total(kb, h, e) - Total(StartKb, h, e) \in lessons .. lessons + torn
        /\ Trues(kb, e) - Trues(StartKb, e) \in lessons .. lessons + torn

(* A case the user declared unknown to the knowledge base stays declared:   *)
(* the tail of the evidence handler, which recomputes caseBustsKbase from   *)
(* the counter, is never reached again.                                     *)
BustSticks == [][bust /\ open' => bust']_vars

(* What a case promises the knowledge base, see CaseProtocol.               *)
Phase == IF ~open THEN "closed" ELSE IF verified THEN "taught" ELSE "diagnosing"

Protocol == INSTANCE CaseProtocol
                WITH phase <- Phase, solution <- IF verified THEN trueHypo ELSE 0

(* The dialogue implements the protocol: whatever the user answers, a case  *)
(* teaches at most one lesson, of a hypothesis of its rule, and nothing     *)
(* else ever changes the base.                                             *)
ImplementsProtocol == Protocol!Spec
===============================================================================

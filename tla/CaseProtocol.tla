----------------------------- MODULE CaseProtocol -----------------------------
(***************************************************************************)
(* What a diagnostic case promises the knowledge base, without the         *)
(* dialogue: a case is opened, teaches one lesson or none, and is closed.  *)
(* The solution taught stands until the case is gone.  Only the end of the *)
(* process can cut a lesson short, and then the case is gone with it.      *)
(***************************************************************************)
EXTENDS KnowBase

CONSTANTS Hypos, Evids, StartKb

VARIABLES kb,           \* the rule's part of the knowledge base
          phase,        \* of the rule's case
          solution      \* the hypothesis taught as true, or 0

vars == <<kb, phase, solution>>

Init == kb = StartKb /\ phase = "closed" /\ solution = 0

Open == phase = "closed" /\ phase' = "diagnosing" /\ UNCHANGED <<kb, solution>>

Teach ==
    /\ phase = "diagnosing" /\ phase' = "taught"
    /\ \E h \in Hypos, values \in [Evids -> EvidValues] :
          /\ kb' = Lesson(kb, h, values, Hypos \X Evids)
          /\ solution' = h

Close == phase # "closed" /\ phase' = "closed" /\ solution' = 0 /\ UNCHANGED kb

(* The nodes of some hypotheses are written, and part of those of one more. *)
Written == {n \in Hypos \X Evids : kb'[n[1]][n[2]] # kb[n[1]][n[2]]}

TeachCutShort ==
    /\ phase = "diagnosing" /\ phase' = "closed" /\ UNCHANGED solution
    /\ Written \in WrittenSoFar(Hypos, Evids)
    /\ \E h \in Hypos, values \in [Evids -> EvidValues] :
          kb' = Lesson(kb, h, values, Written)

Next == Open \/ Teach \/ Close \/ TeachCutShort

Spec == Init /\ [][Next]_vars
===============================================================================

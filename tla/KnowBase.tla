------------------------------- MODULE KnowBase -------------------------------
(***************************************************************************)
(* The knowledge base of src/libEA/knowBase.cpp: one table of joint        *)
(* occurrence counts (a "node") per hypothesis and item of evidence of a   *)
(* rule, kept in an HDF5 file that outlives the process.                   *)
(*                                                                         *)
(* A node has one row per value of the evidence (0 false, 1 true, 2 left   *)
(* unevaluated) and in it the number of taught cases in which the          *)
(* hypothesis was true and the number in which it was false.  The whole    *)
(* base is a function kb[h][e] of nodes; the file's groups, the cursor     *)
(* and the local image of a node are access paths to it and left out.      *)
(***************************************************************************)
EXTENDS Integers, Sequences

EvidValues == 0 .. 2
Unevaluated == 2

Counts == [true : Nat, false : Nat]
Nodes  == [EvidValues -> Counts]

Blank == [true |-> 0, false |-> 0]

(* Mutant: only the true hypothesis is counted.                             *)
Incremented_TrueOnly(node, v, isTrue) ==
    IF isTrue THEN [node EXCEPT ![v].true = @ + 1] ELSE node

(* IncrementHypoTrueForEvid, IncrementHypoFalseForEvid *)
Incremented(node, v, isTrue) ==
    IF isTrue THEN [node EXCEPT ![v].true = @ + 1]
              ELSE [node EXCEPT ![v].false = @ + 1]

(* Mutant: the devolved counts are written back.                            *)
DevolveCounts_Halved(node) ==
    [v \in EvidValues |-> [true  |-> node[v].true \div 2,
                           false |-> node[v].false \div 2]]

(* DevolveCounts(): its loops walk copies of the rows and of the counts, so *)
(* the image that is written back is the image that was read.               *)
DevolveCounts(node) == node

HasHypoEverBeenFalse(node, v) == node[v].false # 0

(* The node of the hypothesis an item of evidence is named for, one of n    *)
(* hypotheses of the rule.  Evidence of direct sense supports it when true. *)
NominalNode(n, direct, invertible) ==
    LET seen == IF direct THEN 1 ELSE 0
    IN  [v \in EvidValues |->
            [true  |-> IF v = seen THEN 1 ELSE 0,
             false |-> IF v = 1 - seen /\ invertible THEN n - 1 ELSE 0]]

(* The node of any other hypothesis of the rule for that evidence. *)
AlternativeNode(n, direct) ==
    LET seen == IF direct THEN 1 ELSE 0
    IN  [v \in EvidValues |->
            CASE v = seen     -> [true |-> 0, false |-> 1]
              [] v = 1 - seen -> [true |-> 1, false |-> n - 2]
              [] OTHER        -> Blank]

(* The base after a lesson that h was the true hypothesis of a case whose   *)
(* evidence had these values, as far as the nodes in written.               *)
Lesson(base, h, values, written) ==
    [g \in DOMAIN base |-> [e \in DOMAIN base[g] |->
        IF <<g, e>> \in written THEN Incremented(base[g][e], values[e], g = h)
                                ELSE base[g][e]]]

(* The nodes a lesson may have written when it is cut short.  It walks hash *)
(* tables, in orders of their own: it is through with some hypotheses, any, *)
(* and with some of the evidence for one more.                              *)
WrittenSoFar(hypos, evids) ==
    {(done \X evids) \cup ({g} \X part) :
        done \in SUBSET hypos, g \in hypos, part \in SUBSET evids}

===============================================================================

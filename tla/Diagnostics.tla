----------------------------- MODULE Diagnostics -----------------------------
(***************************************************************************)
(* The diagnostics tool.cpp designs for the rules of an air handler and of *)
(* a VAV box, and how a rule kit builds them into a new knowledge base.    *)
(*                                                                         *)
(* A base is built rule by rule, hypothesis by hypothesis, in single       *)
(* writes to the HDF5 file; a file that is found at the start with any     *)
(* rule in it is taken as it is.  The writes of a rule are a sequence      *)
(* here, so that a base whose building was cut short is the one its first  *)
(* writes leave.                                                           *)
(***************************************************************************)
EXTENDS KnowBase
LOCAL INSTANCE SequencesExt
LOCAL INSTANCE TLC

-------------------------------------------------------------------------------
(* The designs: the hypotheses of each rule in the order they are           *)
(* associated, and the item of evidence of each hypothesis.                 *)

AhuHypos ==
    << <<1, 5>>, <<1, 5, 7, 9, 10, 11>>, <<1, 5>>, <<1, 18, 19>>, <<1, 6>>,
       <<1, 18, 19>>, <<1, 7, 8>>, <<1, 13, 14, 15, 16, 17>>, <<1, 2, 3, 4>>,
       <<1, 18, 19>> >>

(* The items on the valve (7) and on its control loop (8) are given each    *)
(* other's uai.  A case seems spurious when its item is true, every other   *)
(* fault is there when its item is false.                                   *)
AhuEvid ==
    [h \in 1 .. 19 |-> [uai |-> CASE h = 7 -> 8 [] h = 8 -> 7 [] OTHER -> h,
                        direct |-> h = 1, invertible |-> TRUE]]

VavHypos ==
    << <<1, 2, 12, 13>>, <<1, 13>>, <<1, 6, 7, 12, 14, 15>>, <<1, 5, 14, 15>>,
       <<1, 12, 14>>, <<1, 7, 8>>, <<1, 7, 8, 9, 10, 11>>, <<1, 7, 8>>,
       <<1, 3, 4, 6>>, <<1, 6, 7, 12, 13, 14>> >>

VavEvid ==
    [h \in 1 .. 15 |-> [uai |-> h, direct |-> h = 1, invertible |-> TRUE]]

-------------------------------------------------------------------------------
(* Building a rule into the file: a function from <<hypothesis, evidence>>  *)
(* to nodes, as the nodes of a rule meet no other's.                        *)

(* A node not active yet is linked, with counts of zero. *)
PanCursorToNodeAt(file, node) ==
    IF node \in DOMAIN file THEN file
    ELSE file @@ (node :> [v \in EvidValues |-> Blank])

(* What InitializeNodeAt writes for the item of hypothesis h: the node of h *)
(* first, then those of the alternatives.                                   *)
InitializeNodeAt(h, item, assoc) ==
    LET n == Len(assoc)
        others == SelectSeq(assoc, LAMBDA g : g # h)
    IN  << [node  |-> <<h, item.uai>>,
            image |-> NominalNode(n, item.direct, item.invertible)] >> \o
        [i \in DOMAIN others |-> [node  |-> <<others[i], item.uai>>,
                                  image |-> AlternativeNode(n, item.direct)]]

BuildRuleIntoKbase(assoc, evid) ==
    FlattenSeq([i \in DOMAIN assoc |-> InitializeNodeAt(assoc[i], evid[assoc[i]], assoc)])

WriteImageToCursor(file, w) ==
    [PanCursorToNodeAt(file, w.node) EXCEPT ![w.node] = w.image]

(* The rule's part of the file after its first k writes. *)
FileAfter(assoc, evid, k) ==
    FoldLeft(WriteImageToCursor, <<>>, SubSeq(BuildRuleIntoKbase(assoc, evid), 1, k))

(* The process ended while the next node was linked and not yet written. *)
FileCutShort(assoc, evid, k) ==
    PanCursorToNodeAt(FileAfter(assoc, evid, k),
                      BuildRuleIntoKbase(assoc, evid)[k + 1].node)

(* RebuildMimicFromFile: with no rule in the file the base counts as new    *)
(* and is initialized; with any it is left as it was found.                 *)
RebuildMimicFromFile(file) == DOMAIN file # {}

FileAfterRestart(file, assoc, evid) ==
    IF RebuildMimicFromFile(file) THEN file
    ELSE FileAfter(assoc, evid, Len(assoc) * Len(assoc))

(* InitializeCaseTallies walks the active nodes of the rule. *)
CaseHypos(file) == {n[1] : n \in DOMAIN file}
CaseEvids(file) == {n[2] : n \in DOMAIN file}
NodesOf(file) == [h \in CaseHypos(file) |-> [e \in CaseEvids(file) |-> file[<<h, e>>]]]

===============================================================================

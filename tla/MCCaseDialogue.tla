---------------------------- MODULE MCCaseDialogue ----------------------------
(***************************************************************************)
(* The dialogue of the air handler's Rule 7 (cooling is called for and the *)
(* air is not cooled), with the base the kit builds for it: hypotheses 1   *)
(* (spurious), 7 (valve stuck) and 8 (its control loop), the items of the  *)
(* latter two under each other's uai.                                      *)
(***************************************************************************)
EXTENDS CaseDialogue, Diagnostics

Rule7 == AhuHypos[7]
Rule7File == FileAfter(Rule7, AhuEvid, 9)

Rule7Hypos == CaseHypos(Rule7File)
Rule7Evids == CaseEvids(Rule7File)
Rule7Kb    == NodesOf(Rule7File)

Designs == {<<AhuHypos[r], AhuEvid>> : r \in 1 .. 10} \cup
           {<<VavHypos[r], VavEvid>> : r \in 1 .. 10}

Count(file, h) ==
    MapThenSumSet(LAMBDA n : file[n][0].true + file[n][1].true + file[n][2].true,
                  {n \in DOMAIN file : n[1] = h})

(* Every design starts without a bias: each hypothesis has an item of its   *)
(* own and as many counts as any other, so no case begins with a solution.  *)
ASSUME DesignsUnbiased ==
    \A d \in Designs :
        LET n == Len(d[1])
            file == FileAfter(d[1], d[2], n * n)
        IN  /\ CaseHypos(file) = {d[1][i] : i \in 1 .. n}
            /\ Cardinality(CaseEvids(file)) = n
            /\ DOMAIN file = CaseHypos(file) \X CaseEvids(file)
            /\ \A h \in CaseHypos(file) : Count(file, h) = n

(* A base whose building was cut short is used as it was left: some node   *)
(* holds no counts and is never initialized.  Cut at the first node, a case *)
(* on the rule has no prior counts but zero to divide by.                   *)
ASSUME CutShortStays ==
    \A d \in Designs :
        LET n == Len(d[1])
            cut(k) == FileAfterRestart(FileCutShort(d[1], d[2], k), d[1], d[2])
        IN  /\ \A k \in 0 .. n * n - 1 : \E m \in DOMAIN cut(k) :
                   cut(k)[m] = [v \in EvidValues |-> Blank]
            /\ \A h \in CaseHypos(cut(0)) : Count(cut(0), h) = 0
===============================================================================

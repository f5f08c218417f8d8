------------------------------- MODULE MCRuleKit -------------------------------
(***************************************************************************)
(* Instances of RuleKit for TLC: one kit, as tool.cpp gives every subject. *)
(***************************************************************************)
EXTENDS RuleKit

One      == {1}
Two      == {1, 2}
OneKit   == [r \in {1, 2} |-> "kit"]
Kit      == {"kit"}

(* The log table is filled in the order of the rules, and libstdc++ puts a  *)
(* new element of an empty bucket first: it is walked the other way round.  *)
Forth    == [r \in {1, 2} |-> r]
Back     == [r \in {1, 2} |-> 3 - r]

PassFail == {"fail", "pass"}
FourSets == 1 .. 4
None     == 0
===============================================================================

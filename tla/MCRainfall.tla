------------------------------ MODULE MCRainfall ------------------------------
(***************************************************************************)
(* A point, a fact and a rule that are triggered each minute and a fact    *)
(* that cycles every other time.  Hours of two minutes, days of two hours. *)
(***************************************************************************)
EXTENDS Rainfall

Objects == {"point", "fact", "slow", "kit"}
Rate    == [point |-> 1, fact |-> 1, slow |-> 2, kit |-> 1]

AllSeries == {"value", "state", "fact", "slow", "rule"}
Owner == [value |-> "point", state |-> "point", fact |-> "fact", slow |-> "slow", rule |-> "kit"]
Kinds == [value |-> "value", state |-> "state", fact |-> "fact", slow |-> "fact", rule |-> "rule"]

(* All series move at once: none depends on another. *)
Three ==
    {[value |-> "low", fact |-> "true", slow |-> "true", rule |-> "autoFail"],
     [value |-> "beyond", fact |-> "invalid", slow |-> "false", rule |-> "caseSkip"],
     [value |-> "invalid", fact |-> "false", slow |-> "invalid", rule |-> "idlePass"]}

First == {3}
Gaps  == {1, 4}
===============================================================================

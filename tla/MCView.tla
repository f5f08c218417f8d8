------------------------------- MODULE MCView -------------------------------
(* A kit of two rules of subject "ahu": one tests the hour and a fact that   *)
(* lasts (logged at a slower rate), the other a fact that compares points of *)
(* two subjects.                                                             *)
EXTENDS View, TLC

Analog(host, group, rate) ==
  [kind |-> "analog", host |-> host, group |-> group, axis |-> "degF", rate |-> rate]
Binary(rate) ==
  [kind |-> "fact", host |-> "ahu", group |-> "Free", axis |-> "binary", rate |-> rate]

MCFacts == {"hour", "lasting", "above"}
MCAnalogs == {"supply", "zone"}
MCAbout == ("hour" :> Binary(1)) @@ ("lasting" :> Binary(4)) @@
           ("above" :> Binary(1)) @@
           ("supply" :> Analog("ahu", "Free", 1)) @@
           ("zone" :> Analog("vav", "GroupA", 1))
MCInputs == ("hour" :> {}) @@ ("lasting" :> {"above"}) @@
            ("above" :> {"zone", "supply"}) @@ [a \in MCAnalogs |-> {}]
MCSustained == {"lasting"}
MCRuleOrder == <<"r1", "r2">>
MCTested == ("r1" :> {"lasting", "hour"}) @@ ("r2" :> {"above"})
MCKitTrace == [kind |-> "rule", host |-> "ahu", group |-> "Alone",
               axis |-> "rule", rate |-> 1]
MCKeyOf == ("hour" :> 1) @@ ("lasting" :> 2) @@ ("above" :> 3) @@
           ("supply" :> 4) @@ ("zone" :> 5) @@ ("r1" :> 6) @@ ("r2" :> 7)
MCMaxTraces == ("fact" :> 9) @@ ("analog" :> 1) @@ ("rule" :> 9)
=============================================================================

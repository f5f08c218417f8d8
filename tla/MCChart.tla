-------------------------------- MODULE MCChart --------------------------------
(* A subject in the manner of the air handler of tool.cpp:1497-2000: a      *)
(* temperature and its setpoint, a chart on each, a tracker of the          *)
(* temperature about its own mean and one about the setpoint, and facts     *)
(* down to a sustained one.                                                 *)
EXTENDS Chart

Sources == {"Tas", "TasSetpt"}
Shews == {"TasShew", "SetptShew"}
ShewOf == [c \in Shews |-> IF c = "TasShew" THEN "Tas" ELSE "TasSetpt"]
Trackers == {"auto", "setpt"}
TracksShew == [t \in Trackers |-> "TasShew"]
GuidedBy == [t \in Trackers |-> IF t = "auto" THEN "none" ELSE "SetptShew"]

ChartFacts == {"tasSteady", "setptSteady", "tasHunting"}
Charts == [f \in ChartFacts |->
    CASE f = "tasSteady" -> "TasShew" [] f = "setptSteady" -> "SetptShew"
      [] f = "tasHunting" -> "setpt"]
Getters == [f \in ChartFacts |-> IF f = "tasHunting" THEN "hunting" ELSE "steady"]

Relations == {"tasAbove"}
Lefts == [f \in Relations |-> "Tas"]
RightsOf == [f \in Relations |-> {"TasSetpt"}]
Relns == [f \in Relations |-> "GT"]
Params == [f \in Relations |-> 0]

Givens == {"run"}
Joints == {"runSteady"}
Parts == [f \in Joints |-> {"tasSteady", "setptSteady", "run"}]
Sustaineds == {"runSteadySus"}
Watches == [f \in Sustaineds |-> "runSteady"]
Modes == [f \in Sustaineds |-> "True"]

Ranges == [n \in {"zPass", "tripFreeMargin", "halfBand", "warn", "lagFrac",
                  "appsBtwnResets", "hyster", "slack", "minCycles"} |->
    CASE n = "zPass" -> <<0, 1, 2>> [] n = "tripFreeMargin" -> <<0, 2, 3>>
      [] n = "halfBand" -> <<0, 1, 2>> [] n = "warn" -> <<0, 2, 3>>
      [] n = "lagFrac" -> <<20, 50, 100>> [] n = "appsBtwnResets" -> <<0, 3, 5>>
      [] n = "hyster" -> <<0, 0, 2>> [] n = "slack" -> <<-1, 0, 1>>
      [] n = "minCycles" -> <<1, 2, 3>>]

(* Knobs: a span that is rounded, the longest, and the one refused; a       *)
(* margin lowered; a fact asked to sustain for more or less.                *)
Settings == [n \in DOMAIN Ranges \union {"secs"} |->
    CASE n = "secs" -> {5, 9, 10} [] n = "zPass" -> {2}
      [] n = "tripFreeMargin" -> {1} [] n = "warn" -> {1} [] n = "minCycles" -> {1, 3}
      [] n = "hyster" -> {1} [] OTHER -> {}]

In(x, y, b) == [s \in {"Tas", "TasSetpt", "run"} |->
    CASE s = "Tas" -> x [] s = "TasSetpt" -> y [] s = "run" -> b]

Inputs == {In(0, 0, TRUE), In(2, 0, TRUE), In(Invalid, 0, TRUE),
           In(0, 2, TRUE), In(0, 0, FALSE)}

Area == {<<1, 1, 2>>}
===============================================================================

-------------------------------- MODULE MCPlant --------------------------------
(***************************************************************************)
(* The sequence over the objects of one air handler and of a VAV box that  *)
(* it serves.                                                              *)
(***************************************************************************)
EXTENDS Sequence, Plant

(* How late each object may be: as late as what it reads, and one step more *)
(* than what the step triggers after it.                                    *)
PlantLateness[o \in PlantObj] ==
    Max({0} \union {PlantLateness[i] + (IF Before(i, o) THEN 0 ELSE 1) :
                       i \in PlantReads[o]})

(* The feature on a tracking chart, which the laps trigger after its fact.  *)
OneStepLate == Of("ahu1", {"TasTrackingHigh"})

(* What LagBounded says of this plant.  A rule of the air handler is at     *)
(* most one step late, which the facts on tracking charts make it, one of   *)
(* the VAV box at most two, as it reads through ahuOutputOkay the verdict   *)
(* the air handler ended the previous step with (fact.cpp:414); and of what *)
(* the user interface shows (viewParts.cpp:183), only the feature on such a *)
(* chart is late, by one step.                                              *)
ASSUME PlantLatenessAssumption ==
    /\ Lateness = PlantLateness
    /\ \A o \in Rules : Lateness[o] <= IF o[1] = "ahu1" THEN 1 ELSE 2
    /\ \A o \in PlantFeatures : Lateness[o] <= IF o \in OneStepLate THEN 1 ELSE 0
===============================================================================

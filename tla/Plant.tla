--------------------------------- MODULE Plant ---------------------------------
(***************************************************************************)
(* What CTool_ahu_ibal and CTool_vav_ibal build for an air handler and a   *)
(* VAV box (tool.cpp): the objects of every class, each with the operands  *)
(* its constructor is given, and the rules with the facts of both clauses. *)
(* An object is a pair of its subject and its name, u_ left off.           *)
(***************************************************************************)
EXTENDS Integers, FiniteSets, FiniteSetsExt, TLC

-------------------------------------------------------------------------------
(* The air handling unit.                                                   *)

AhuPoints == [n \in {"Psas", "Tao", "Udm", "Tam", "Tar", "Uvc", "Tas", "TasSetpt",
                     "Bso", "Uvh", "Qas"} |-> {}]

AhuFormulas ==
    [absDifTaoTar |-> {"Tao", "Tar"}, fracOA |-> {"Tam", "Tao", "Tar"},
     maxTaoTar |-> {"Tao", "Tar"}, minTaoTar |-> {"Tao", "Tar"}]

AhuProcesses == [Xtest |-> {"Tao", "Tar", "TasSetpt"}]

AhuShewharts == [TasShew |-> {"Tas"}, TasSetptShew |-> {"TasSetpt"},
                 UvcShew |-> {"Uvc"}, QasShew |-> {"Qas"}]

(* A tracking chart reads its points and the Shewhart charts on them. *)
AhuTrackings ==
    [Qas_VS_auto  |-> {"Qas", "QasShew"}, Tas_VS_auto |-> {"Tas", "TasShew"},
     Tas_VS_setpt |-> {"Tas", "TasShew", "TasSetpt", "TasSetptShew"},
     Uvc_VS_auto  |-> {"Uvc", "UvcShew"}]

AhuChartFacts ==
    [TasSteady |-> {"TasShew"}, TasSetptSteady |-> {"TasSetptShew"},
     QasSteady |-> {"QasShew"}, UvcSteady |-> {"UvcShew"},
     QasHunting |-> {"Qas_VS_auto"}, UvcHunting |-> {"Uvc_VS_auto"},
     TasTrackingHigh |-> {"Tas_VS_setpt"}, TasTrackingLow |-> {"Tas_VS_setpt"},
     TasRising |-> {"Tas_VS_auto"}, TasFalling |-> {"Tas_VS_auto"}]

AhuParamFacts ==
    [PsasZero |-> {"Psas"}, QasZero |-> {"Qas"}, UdmFullOA |-> {"Udm"},
     UvcShut |-> {"Uvc"}, UvcShutSus |-> {"UvcShut"}, fracOAatMin |-> {"fracOA"},
     Tam_GT_frzStat |-> {"Tam"}, absDifTaoTar_GTE_10F |-> {"absDifTaoTar"}]

AhuLeftRightFacts ==
    [Tas_EQ_TasSetpt |-> {"Tas", "TasSetpt"}, Tam_GT_TasSetpt |-> {"Tam", "TasSetpt"},
     Tam_GTE_minTaoTar |-> {"Tam", "minTaoTar"}, Tao_LT_Tar |-> {"Tao", "Tar"},
     Tao_LT_TasSetpt |-> {"Tao", "TasSetpt"}, Tas_LT_Tam |-> {"Tas", "Tam"},
     Tam_LTE_maxTaoTar |-> {"Tam", "maxTaoTar"}]

AhuDirectFacts ==
    [sysOcc |-> {"Bso"}, sysOccSus |-> {"sysOcc"}, Xfact |-> {"Xtest"}]

AhuFactFacts ==
    [unitOn |-> {"PsasZero", "QasZero"}, inputSteady |-> {"TasSetptSteady"},
     inputSteadySus |-> {"inputSteady"}, chwCoolingAir |-> {"unitOn", "Tas_LT_Tam"},
     chwNeeded |-> {"unitOn", "Tam_GT_TasSetpt"},
     econActive |-> {"unitOn", "fracOAatMin"},
     econExpected |-> {"unitOn", "Tao_LT_TasSetpt"}]

AhuRules1to4 ==
    LET occupied == {"unitOn", "sysOccSus", "inputSteadySus", "econExpected"}
    IN  [Rule1 |-> occupied \union {"Xfact", "Tas_EQ_TasSetpt"},
         Rule2 |-> occupied \union {"TasTrackingHigh", "TasTrackingLow"},
         Rule3 |-> occupied \union {"Tas_EQ_TasSetpt"},
         Rule4 |-> occupied \union {"TasTrackingHigh", "TasTrackingLow"}]

AhuRules5to7 ==
    [Rule5 |-> {"unitOn", "UvcSteady", "UvcShut", "UvcShutSus", "chwCoolingAir"},
     Rule6 |-> {"unitOn", "sysOccSus", "inputSteadySus", "econExpected", "econActive"},
     Rule7 |-> {"unitOn", "sysOccSus", "inputSteadySus", "chwNeeded", "chwCoolingAir"}]

AhuRules8to10 ==
    [Rule8  |-> {"unitOn", "Tam_GT_frzStat"},
     Rule9  |-> {"unitOn", "Tam_GTE_minTaoTar", "Tam_LTE_maxTaoTar"},
     Rule10 |-> {"unitOn", "sysOccSus", "inputSteadySus", "absDifTaoTar_GTE_10F",
                 "econExpected", "fracOAatMin"}]

(* FIXED_RULE_UNITOUTPUT_PINNED *)
AhuPinned == {"Rule1", "Rule2", "Rule3", "Rule4"}

(* What each feature of the user interface shows, by its uai. *)
AhuFeatures ==
    <<"Bso", "inputSteadySus", "Tas", "Tas_EQ_TasSetpt", "TasTrackingHigh",
      "econExpected", "econActive", "chwNeeded", "chwCoolingAir">>

-------------------------------------------------------------------------------
(* The VAV box.                                                             *)

VavPoints == [n \in {"Psai", "Tai", "Tad", "Taz", "TazSetptHtg", "TazSetptClg",
                     "Uvh", "Udd", "Qad", "QadSetpt", "Bzo"} |-> {}]

VavShewharts ==
    [PsaiShew |-> {"Psai"}, QadShew |-> {"Qad"}, QadSetptShew |-> {"QadSetpt"},
     TadShew |-> {"Tad"}, TaiShew |-> {"Tai"}, TazShew |-> {"Taz"},
     TazSetptClgShew |-> {"TazSetptClg"}, TazSetptHtgShew |-> {"TazSetptHtg"},
     UddShew |-> {"Udd"}, UvhShew |-> {"Uvh"}]

VavTrackings ==
    [Qad_VS_setpt    |-> {"Qad", "QadShew", "QadSetpt", "QadSetptShew"},
     Tad_VS_auto     |-> {"Tad", "TadShew"},
     Taz_VS_setptClg |-> {"Taz", "TazShew", "TazSetptClg", "TazSetptClgShew"},
     Taz_VS_setptHtg |-> {"Taz", "TazShew", "TazSetptHtg", "TazSetptHtgShew"}]

VavChartFacts ==
    [PsaiSteady |-> {"PsaiShew"}, QadSteady |-> {"QadShew"},
     QadSetptSteady |-> {"QadSetptShew"}, TadSteady |-> {"TadShew"},
     TaiSteady |-> {"TaiShew"}, TazSteady |-> {"TazShew"},
     TazSetptClgSteady |-> {"TazSetptClgShew"}, TazSetptHtgSteady |-> {"TazSetptHtgShew"},
     UddSteady |-> {"UddShew"}, UvhSteady |-> {"UvhShew"},
     QadHunting |-> {"Qad_VS_setpt"}, QadTrackingHigh |-> {"Qad_VS_setpt"},
     QadTrackingLow |-> {"Qad_VS_setpt"}, TadHunting |-> {"Tad_VS_auto"},
     TazTrackingHigh |-> {"Taz_VS_setptClg"}, TazTrackingLow |-> {"Taz_VS_setptHtg"}]

VavParamFacts == [QadZero |-> {"Qad"}, UddFull |-> {"Udd"}, UvhShut |-> {"Uvh"}]

VavLeftRightFacts ==
    [Tad_GT_Tai |-> {"Tad", "Tai"}, Tad_GT_Taz |-> {"Tad", "Taz"},
     Taz_GT_setptClg |-> {"Taz", "TazSetptClg"}, Tad_LT_Taz |-> {"Tad", "Taz"},
     Taz_LT_setptHtg |-> {"Taz", "TazSetptHtg"}]

(* The antecedent subject is no operand: it has no trigger group. *)
VavDirectFacts ==
    [zoneOcc |-> {"Bzo"}, zoneOccSus |-> {"zoneOcc"}, ahuOutputOkay |-> {}]

VavFactFacts ==
    [unitCoolingZone |-> {"Tad_LT_Taz", "QadZero"},
     unitReheating |-> {"Tad_GT_Taz", "QadZero"},
     inputSteady |-> {"PsaiSteady", "TaiSteady", "TazSetptHtgSteady", "TazSetptClgSteady"},
     inputSteadySus |-> {"inputSteady"},
     TazInBand |-> {"Taz_GT_setptClg", "Taz_LT_setptHtg"}]

VavRules1to3 ==
    LET served == {"ahuOutputOkay", "zoneOccSus", "inputSteadySus"}
    IN  [Rule1 |-> served \union {"QadTrackingLow", "QadTrackingHigh"},
         Rule2 |-> served \union {"QadHunting"},
         Rule3 |-> served \union {"Taz_GT_setptClg", "unitCoolingZone"}]

VavRules4to6 ==
    LET occupied == {"zoneOccSus", "inputSteadySus"}
        cooling  == occupied \union {"unitCoolingZone", "UddFull", "TazTrackingHigh"}
    IN  [Rule4 |-> cooling, Rule5 |-> cooling,
         Rule6 |-> occupied \union {"Taz_LT_setptHtg", "unitReheating"}]

VavRules7to10 ==
    LET occupied == {"zoneOccSus", "inputSteadySus"}
        heating  == occupied \union {"unitReheating", "UddFull", "TazTrackingLow"}
    IN  [Rule7 |-> heating, Rule8 |-> heating,
         Rule9 |-> {"inputSteadySus", "UvhShut", "QadZero", "Tad_GT_Tai"},
         Rule10 |-> occupied \union {"ahuOutputOkay", "QadZero", "TazInBand"}]

VavFeatures ==
    <<"Bzo", "inputSteadySus", "TazInBand", "Taz_GT_setptClg", "Taz_LT_setptHtg",
      "unitReheating", "unitCoolingZone", "TazSetptClg", "Taz", "TazSetptHtg">>

-------------------------------------------------------------------------------
(* The network the objects of the subjects form.                            *)

(* CApplication: the VAV box and the air handler it is built with. *)
Subjects == {"ahu1", "vav3"}
AntecedentOf(s) == "ahu1"

(* By class: points, formulas, charts, processes, facts, rules. *)
Built(s) ==
    IF s = "ahu1"
    THEN <<AhuPoints, AhuFormulas, AhuShewharts @@ AhuTrackings, AhuProcesses,
           AhuChartFacts @@ AhuParamFacts @@ AhuLeftRightFacts @@ AhuDirectFacts
             @@ AhuFactFacts,
           AhuRules1to4 @@ AhuRules5to7 @@ AhuRules8to10>>
    ELSE <<VavPoints, [n \in {} |-> {}], VavShewharts @@ VavTrackings, [n \in {} |-> {}],
           VavChartFacts @@ VavParamFacts @@ VavLeftRightFacts @@ VavDirectFacts
             @@ VavFactFacts,
           VavRules1to3 @@ VavRules4to6 @@ VavRules7to10>>

PlantObj == UNION {{<<s, n>> : n \in UNION {DOMAIN Built(s)[i] : i \in 1 .. 6}} :
                      s \in Subjects}

PlantClass ==
    [o \in PlantObj |-> CHOOSE c \in 0 .. 5 : o[2] \in DOMAIN Built(o[1])[c + 1]]

Of(s, names) == {<<s, n>> : n \in names}

PlantFeatures ==
    Of("ahu1", {AhuFeatures[u] : u \in DOMAIN AhuFeatures}) \union
    Of("vav3", {VavFeatures[u] : u \in DOMAIN VavFeatures})

PlantOperands ==
    [o \in PlantObj |-> Of(o[1], Built(o[1])[PlantClass[o] + 1][o[2]])]

(* Where the computation does not read the operands, or not only them: the  *)
(* verdict on the antecedent subject, the inputs of unitReheating, the      *)
(* constants the process sends, the pointer Rule1 tests in place of the     *)
(* fact and the clause of Rule5 that begins with false.                     *)
PlantReads ==
    [o \in PlantObj |->
        CASE o[2] = "ahuOutputOkay"  -> Of(AntecedentOf(o[1]), AhuPinned)
          [] o[2] = "unitReheating"  -> Of(o[1], {"Tad_GT_Tai", "QadZero"})
          [] o[2] = "Xtest"          -> {}
          [] o = <<"ahu1", "Rule1">> -> PlantOperands[o] \ Of("ahu1", {"Xfact"})
          [] o = <<"ahu1", "Rule5">> -> {}
          [] OTHER                   -> PlantOperands[o]]

(* The binary point and the quotient that may have a zero divisor.  Bzo of  *)
(* the VAV box fails as Bso does and is left out to bound the runs.         *)
PlantMayFail == {<<"ahu1", "Bso">>, <<"ahu1", "fracOA">>}

Group[o \in PlantObj] ==
    LET base == PlantClass[o] + 1
        last == Max({0} \union {Group[i] : i \in PlantOperands[o]})
    IN  IF last < base THEN base ELSE last + 1

PlantTriggerGroup == [o \in PlantObj |-> Group[o]]
===============================================================================

CONSTANTS
    Obj <- PlantObj
    Class <- PlantClass
    Operands <- PlantOperands
    Reads <- PlantReads
    MayFail <- PlantMayFail
    TriggerGroup <- PlantTriggerGroup
    Lateness <- PlantLateness
    MaxLap = 6
    MaxLag = 3
SPECIFICATION Spec
INVARIANTS
    NobodyLeftOut
    Fresh
    ValidRestsOnValid
    LagBounded
PROPERTIES
    StepEnds

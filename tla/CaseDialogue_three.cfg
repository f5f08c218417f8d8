CONSTANTS
    Hypos <- Rule7Hypos
    Evids <- Rule7Evids
    StartKb <- Rule7Kb
    MaxLessons = 1
    MaxWritten = 3
SPECIFICATION Spec
INVARIANTS
    TypeOK
    SomeHypothesisSurvives
    DivisorsPositive
    ProvenIsAlone
    AlwaysAnswerable
    EvidencePartition
    LessonsBalance
PROPERTIES
    BustSticks
    ImplementsProtocol

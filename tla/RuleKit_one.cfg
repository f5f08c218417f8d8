CONSTANTS
    Kits <- Kit
    Rules <- Two
    KitOf <- OneKit
    TestPlace <- Back
    LogPlace <- Forth
    Pinned <- One
    Outcomes <- PassFail
    TrapSpan = 2
    EmptyTrap = 1
    MaxCases = 1
    History = 2
    SgiWrap = 1
    Sets <- FourSets
    NoRule <- None
SPECIFICATION FairSpec
INVARIANTS
    CaseModeMeansCase
    CaseKeepsSnapshot
    ResultsInTable
    EnoughFailuresShow
PROPERTIES
    AlertMeansCase
    NoSilentFailure

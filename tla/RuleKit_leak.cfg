CONSTANTS
    Kits <- Kit
    Rules <- Two
    KitOf <- OneKit
    TestPlace <- Back
    LogPlace <- Forth
    Pinned <- One
    Outcomes <- PassFail
    TrapSpan = 2
    EmptyTrap = 1
    MaxCases = 2
    History = 2
    SgiWrap = 1
    Sets <- FourSets
    NoRule <- None
SPECIFICATION Spec
INVARIANTS
    NoSetLeaks

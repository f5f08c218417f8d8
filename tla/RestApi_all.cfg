CONSTANTS
    c1 = c1
    c2 = c2
    s1 = s1
    Clients <- Two
    Subjects <- Input
    Nobody = Nobody
    Sent <- Kinds
    BufferSize = 1
    MaxPosts = 1
    MaxRequests = 4
SPECIFICATION FairSpec
INVARIANTS
    FreshEnough
    StepUsesOwn
    AlertsInOrder
    NoneDroppedEarly
PROPERTIES
    EveryRequestAnswered
CHECK_DEADLOCK FALSE

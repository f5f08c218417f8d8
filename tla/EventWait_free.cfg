CONSTANTS
    Clients <- Three
    PoolSize = 5
    MaxSeq = 2
SPECIFICATION FairWaitSpec
INVARIANTS
    NoLostWakeup
PROPERTIES
    ChangeIsHeard
    AllAnswered

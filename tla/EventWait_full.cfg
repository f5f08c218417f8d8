CONSTANTS
    Clients <- Two
    PoolSize = 2
    MaxSeq = 1
SPECIFICATION TimedWaitSpec
PROPERTIES
    Answered
CHECK_DEADLOCK FALSE

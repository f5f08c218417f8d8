SPECIFICATION Spec
CONSTANTS
    Source <- Objects
    TriggersPerCycle <- Rate
    HourLen = 2
    HoursInDay = 2
    DaysInWeek = 2
    LogLen = 2
    Starts <- First
    Ahead <- Gaps
    MaxTime = 8
    MaxTriggers = 6
    MaxOdd = 1
    Series <- AllSeries
    SourceOf <- Owner
    Kind <- Kinds
    SnapshotSize = 2
    Readings <- Three
INVARIANTS
    BinsMatchLog
    HoursCounted
    DaysCounted
    BarsAreShares
    TracesLineUp
CHECK_DEADLOCK FALSE

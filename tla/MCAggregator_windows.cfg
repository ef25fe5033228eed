SPECIFICATION FairSpec
CONSTANTS
    Partitions = {1, 2}
    Events <- SomeEvents
    Corrupt = Corrupt
    WindowSize = 2
    IntModulus = 8
    MaxTime = 4
    MaxRecords = 3
    MaxCrashes = 0
CHECK_DEADLOCK FALSE
INVARIANTS
    TypeOK
    DropsOnlyAcrossPartitions
    EmittedInOrder
    WindowsExact
PROPERTIES
    OvertakenWindowsAreEmitted

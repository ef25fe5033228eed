SPECIFICATION FairSpec
CONSTANTS
    Partitions = {1, 2}
    Events <- OneEvent
    Corrupt = Corrupt
    WindowSize = 1
    IntModulus = 8
    MaxTime = 1
    MaxRecords = 3
    MaxCrashes = 1
CHECK_DEADLOCK FALSE
INVARIANTS
    OpenWindowsSurviveCrashes
    CopiesBounded
PROPERTIES
    OvertakenWindowsAreEmitted

SPECIFICATION FairSpec
CONSTANTS
    Metrics = {"bytes", "flows"}
    StoreKeys = {"global"}
    Flows <- SomeFlows
    Corrupt = Corrupt
    WindowSize = 3
    MaxRecords = 3
    MaxCrashes = 2
    MaxFailures = 1
CHECK_DEADLOCK FALSE
INVARIANTS
    SumMatchesWindow
    DuplicatesBounded
PROPERTIES
    RecordsAreHandled

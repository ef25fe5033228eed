SPECIFICATION Spec
CONSTANTS
    Metrics = {"bytes", "flows"}
    StoreKeys = {"global", "other"}
    Flows <- SomeFlows
    Corrupt = Corrupt
    WindowSize = 3
    MaxRecords = 5
    MaxCrashes = 0
    MaxFailures = 1
CHECK_DEADLOCK FALSE
INVARIANTS
    TypeOK
    DetectsExactly

SPECIFICATION FairSpec
CONSTANTS
    MaxRecords = 4
    MaxEnds = 2
CHECK_DEADLOCK FALSE
INVARIANTS
    TypeOK
    CommittedWereHandled
    RepeatsBounded
PROPERTIES
    RecordsAreHandled

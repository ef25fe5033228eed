SPECIFICATION FairSpec
CONSTANTS
    Packets = {p1, p2}
    Keys = {k1, k2}
    Tables = {t1, t2}
    NULL = NULL
    QueueCap = 1
INVARIANTS
    TypeOK
    TableOwnership
    PacketConservation
    ResourcesOutliveThreads
PROPERTIES
    SigintEndsProcess
    PacketsLeaveTables
    ImplementsWindowExport

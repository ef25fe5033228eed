SPECIFICATION Spec
CONSTANTS
    Packets = {p1, p2}
    Keys = {k1}
    Tables = {t1, t2}
    NULL = NULL
    QueueCap = 2
INVARIANTS
    GracefulShutdownExports

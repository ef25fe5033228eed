SPECIFICATION Spec
CONSTANTS
    Frames <- CornerFrames
    Local = {"host", "peer"}
    CounterModulus = 4
    MaxPackets = 6
INVARIANTS
    TypeOK
    SizesFit
    MirroredDirections
    MeanIsOverGaps
    AggregatesMatchPackets

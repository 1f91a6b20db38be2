SPECIFICATION FairSpec
CONSTANTS
    k1 = k1
    k2 = k2
    Conns <- TwoConns
    MaxConnections = 1
    ByteBudget = 2
    Capacity = 1
    Kinds <- FrameKinds
    MaxFrames = 2
INVARIANTS PermitsConserved EveryFrameAccounted CaptureOrder
PROPERTIES CommandStops HalfClosedEnds
CHECK_DEADLOCK FALSE

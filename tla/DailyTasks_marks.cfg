SPECIFICATION FairSpec
CONSTANTS
    List <- OneOfEachKind
    Teams = {1, 2, 3}
    Starts <- Begun
    MaxFaults = 2
INVARIANT FormationsKept
PROPERTIES ResultMarksEarned EventuallyMarked

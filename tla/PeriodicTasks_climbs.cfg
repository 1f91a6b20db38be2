SPECIFICATION FairSpec
CONSTANTS
    Section = 2
    ClearFloor = 3
    FullEnergy = 2
    MaxClimbs = 2
    MaxFailures = 2
    Teams = {1, 2, 3}
    TowerTeam = 2
    EvoTeam = 3
    Starts <- SmallStarts
    MaxFaults = 3
INVARIANTS FormationRestored NotesAreTrue
PROPERTY RunEnds
CHECK_DEADLOCK FALSE

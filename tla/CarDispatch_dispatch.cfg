SPECIFICATION FairSpec
CONSTANTS
    c1 = c1
    c2 = c2
    g1 = g1
    g2 = g2
    me = me
    Cars = {c1, c2}
    Guards <- TwoGuards
    Self = me
    GuardMax = 1
    Slots = 6
    SendSlot = 2
    LastSlot = 5
    Ripe = 1
    Prices <- OnePrice
    Starts <- Mornings
    MaxTime = 3
    MaxFaults = 2
INVARIANTS GuardLimit ClaimScheduledInTime
PROPERTY PhaseEnds
CHECK_DEADLOCK FALSE

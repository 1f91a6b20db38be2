SPECIFICATION Spec
CONSTANTS
    c1 = c1
    c2 = c2
    g1 = g1
    g2 = g2
    me = me
    Cars = {c1, c2}
    Guards <- TwoGuards
    Self = me
    GuardMax = 1
    Slots = 6
    SendSlot = 2
    LastSlot = 5
    Ripe = 1
    Prices <- OnePrice
    Starts <- OutSinceMonday
    MaxTime = 3
    MaxFaults = 0
INVARIANT ClaimedFourHoursLater
CHECK_DEADLOCK FALSE

SPECIFICATION Spec
CONSTANTS
    r1 = r1
    r2 = r2
    b1 = b1
    b2 = b2
    Roles <- BothRoles
    Bins <- TwoBins
    BinOf <- BinOfBoth
    Copies = {1, 2}
    Configs <- Duplicates
    Concurrency = 1
    Flags = {"hangup_reward"}
    CoreFlags = {"hangup_reward"}
    StatusFlags = {}
    BlindFlags = {"hangup_reward"}
    CarSent = "car_send_done"
    CarClaimed = "car_claimed_today"
    CarWindow <- NoWindows
    DaysPerWeek = 2
    Slots = 1
    ScheduleSlot = 0
    FridaySlot = 0
    Friday = 5
    WeeklyDay = 0
    StudyEnabled = FALSE
    Maintenance <- NoWindows
    DiskMayFail = TRUE
    MaxDay = 0
    MaxStops = 1
    MaxEdits = 1
INVARIANTS TypeOK PermitConservation TasksBelongToRound FileNotAhead
PROPERTIES NoOrphanResurrected

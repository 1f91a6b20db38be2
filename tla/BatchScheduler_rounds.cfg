SPECIFICATION Spec
CONSTANTS
    r1 = r1
    r2 = r2
    b1 = b1
    b2 = b2
    Roles <- BothRoles
    Bins <- OneBin
    BinOf <- BinOfShared
    Copies = {1}
    Configs <- EachOnce
    Concurrency = 2
    Flags = {"signin"}
    CoreFlags = {"signin"}
    StatusFlags = {}
    BlindFlags = {}
    CarSent = "car_send_done"
    CarClaimed = "car_claimed_today"
    CarWindow <- NoWindows
    DaysPerWeek = 1
    Slots = 1
    ScheduleSlot = 0
    FridaySlot = 0
    Friday = 5
    WeeklyDay = 0
    StudyEnabled = TRUE
    Maintenance <- NoWindows
    DiskMayFail = FALSE
    MaxDay = 1
    MaxStops = 0
    MaxEdits = 0
INVARIANTS MarksAreEarned IdleDurable
PROPERTIES ProgressKept
SYMMETRY RoleSymmetry

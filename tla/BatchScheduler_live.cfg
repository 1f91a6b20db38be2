SPECIFICATION FairSpec
CONSTANTS
    r1 = r1
    r2 = r2
    b1 = b1
    b2 = b2
    Roles <- OneRole
    Bins <- OneBin
    BinOf <- BinOfOne
    Copies = {1, 2}
    Configs <- Twice
    Concurrency = 1
    Flags = {"signin", "car_send_done"}
    CoreFlags = {"signin"}
    StatusFlags = {}
    BlindFlags = {"car_send_done"}
    CarSent = "car_send_done"
    CarClaimed = "car_claimed_today"
    CarWindow <- CarHours
    DaysPerWeek = 2
    Slots = 3
    ScheduleSlot = 1
    FridaySlot = 2
    Friday = 1
    WeeklyDay = 0
    StudyEnabled = FALSE
    Maintenance <- FirstSlotOfFriday
    DiskMayFail = FALSE
    MaxDay = 1
    MaxStops = 0
    MaxEdits = 0
INVARIANTS ClaimFollowsSend
PROPERTIES RoundsEnd UnfinishedIsRetried

SPECIFICATION Spec
CONSTANTS
    WordBytes = 1
    MaskedPrefix = 10
    Sensitive <- UidOnly
    MaxShapeDepth = 2
    MaxFields = 1
    MaxVariants = 2
    MaxItems = 3
    chA = chA
    chB = chB
    chStar = chStar
    chNewline = chNewline
    chGarbage = chGarbage
    Star <- chStar
    Newline <- chNewline
    Garbage <- chGarbage
INVARIANTS RoundTripsKept DecodeBounded CaptureTextRight BodiesRedacted MaintenanceKept PurchasesRight
CHECK_DEADLOCK FALSE

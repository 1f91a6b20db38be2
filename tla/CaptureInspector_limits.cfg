SPECIFICATION Spec
CONSTANTS
    Records <- SomeRecords
    Cmds <- TwoCmds
    Shapes <- SomeShapes
    Bytes <- ShapeBytes
    MaxPending = 2
    Window = 0
    MaxCommands = 2
    MaxShapes = 1
    MaxSingle = 8
    MaxShapeCount = 3
    MaxSchemaBytes = 4
    MaxCodes = 1
    MaxTime = 1
    MaxRecords = 6
INVARIANTS MatchingIsRight ResponsesAttributed CatalogConsistent
CHECK_DEADLOCK FALSE

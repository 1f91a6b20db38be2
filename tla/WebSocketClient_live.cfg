SPECIFICATION FairSpec
CONSTANTS
    c1 = c1
    c2 = c2
    f1 = f1
    Calls <- OneCall
    Fires <- OneFire
    OutCap = 1
    MsgCap = 2
    MaxFrames = 2
PROPERTIES CallsSettle DisconnectEndsTasks
CHECK_DEADLOCK FALSE

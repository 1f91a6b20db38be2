SPECIFICATION Spec
CONSTANTS
    c1 = c1
    c2 = c2
    f1 = f1
    Calls <- TwoCalls
    Fires <- OneFire
    OutCap = 1
    MsgCap = 2
    MaxFrames = 2
INVARIANTS AnswersMatch RegistrationExact
PROPERTIES AckNeverRetreats ServiceSpec
SYMMETRY Symm
CHECK_DEADLOCK FALSE

SPECIFICATION MCSpec
CONSTANTS
    SeqEra = 3
    SeqSibo = 2
    WinEra = 2
    WinSibo = 1
    ReqRetries = 2
    DataRetries = 2
    mA = mA
    mB = mB
    MagicA = mA
    MagicB = mB
    Data <- MCMessages
    Short = Short
    NoFrame = NoFrame
    MuxMayFail = FALSE
    MessagesA = 2
    MessagesB = 1
    WireMax = 1
    Lossy = FALSE
    FaultMax = 0
PROPERTIES ConnectedDelivers Settles
CHECK_DEADLOCK FALSE

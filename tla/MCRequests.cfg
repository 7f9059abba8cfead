SPECIFICATION MCSpec
CONSTANTS
    o1 = o1
    o2 = o2
    o3 = o3
    o4 = o4
    Ops <- MCOps
    IdMax = 3
    Numbered = TRUE
    CallbackMayFail = FALSE
    None = None
    Channels <- MCChannels
    Servers <- MCServers
    Long = 2
    RxSize = 2
    MaxFrames = 3
    Unasked = FALSE
    Stale = FALSE
    Ids = {1, 2}
    Era = FALSE
    Entries <- MCEntries
    BadNames = {}
    Block = 2
    Sizes = {2, 3}
    Drives = 2
    StopTime = 2
    StopDelay = 1
    StartDelay = 2
    FaultMax = 1
INVARIANTS ShareOK UnifiedOK MuxOK
PROPERTIES OwnReply Progress
CHECK_DEADLOCK FALSE

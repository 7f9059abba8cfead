SPECIFICATION MCSpec
CONSTANTS
    InboxMax = 2
    EndAfterInfo = TRUE
    Drivers <- MCDrivers
    Settings <- MCSettings
    Recommended <- MCRecommended
    Devices <- MCDevices
    IdleLink = TRUE
    IdlePrinter = TRUE
    OperationMax = 1
    FaultMax = 2
    Blocks = 2
    ChangeMax = 2
    CopyFaultMax = 1
    SearchLengths = {1}
    EscapeMax = 1
    OthersMax = 1
    Pieces = 2
    PageMax = 1
    JobMax = 3
    LapseMax = 1
    Rough = FALSE
INVARIANTS ChannelsOK LayersOK RightServer EndedOK InterceptOK LinkOK EntryOK ClipboardOK PrintingOK ArchiveOK
VIEW DataView

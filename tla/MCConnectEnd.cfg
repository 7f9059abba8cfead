SPECIFICATION FairSpec
CONSTANTS
    SeqEra = 2
    SeqSibo = 2
    WinEra = 1
    WinSibo = 1
    ReqRetries = 1
    DataRetries = 1
    Magic = {m1, m2}
    Data = {d1}
    Short = Short
    NoFrame = NoFrame
    MuxMayFail = FALSE
PROPERTY EndOutlivesConnection

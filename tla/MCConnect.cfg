SPECIFICATION MCSpec
CONSTANTS
    SeqEra = 3
    SeqSibo = 2
    WinEra = 2
    WinSibo = 1
    ReqRetries = 2
    DataRetries = 2
    m1 = m1
    m2 = m2
    d1 = d1
    mA = mA
    mB = mB
    Magic <- MCMagic
    Data <- MCData
    Short = Short
    NoFrame = NoFrame
    MuxMayFail = FALSE
INVARIANTS TypeOK WindowOK SeqOK AckOK TimerOK RetriesOK ConnectedOK InOrderOnce
PROPERTIES NoLateConnection AckedIsDelivered
SYMMETRY MagicSymmetry
VIEW TransmitView

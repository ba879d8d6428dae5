CONSTANTS
    Kinds = {"direct", "socks5", "fake"}
    CMax = 3
    RMax = 3
    Wnd = 2
    SndBuf = 2
    Body = 3
SPECIFICATION Spec
INVARIANT StreamsIntact
INVARIANT RequestsSound
INVARIANT FaultsKnown
INVARIANT FreeOrder
PROPERTY EndAfterData
PROPERTY EndsFreed
CHECK_DEADLOCK FALSE

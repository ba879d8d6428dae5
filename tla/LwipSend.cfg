SPECIFICATION Spec
CONSTANTS
    Stream = 2
    Mss = 2
    SndBuf = 2
    Buffer = 4
    CwndSpace = 11
    MaxRtx = 1
    InFlight = 2
    Fails = FALSE
    Width = 5
    Isn = 30
INVARIANT QueuesSound
INVARIANT NeverSilent
PROPERTY WithinWindow
PROPERTY Drains
CHECK_DEADLOCK FALSE

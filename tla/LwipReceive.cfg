\* TCP_WND is 4 segments in the build; here 3, of 2 bytes, with a stream that
\* does not fit in one window and sequence numbers that wrap in its middle.
CONSTANTS
    Stream = 7
    Mss = 2
    TcpWnd = 6
    Width = 5
    Isn = 28
SPECIFICATION Spec
INVARIANT ReceiverSound
INVARIANT InStreamOrder
INVARIANT WindowIsFree
PROPERTY EdgeKept
PROPERTY AllAcknowledged

CONSTANTS
    Platforms = {"pkexec", "osascript", "windows"}
    MaxStarts = 2
SPECIFICATION Spec
INVARIANT OneRelay
INVARIANT NoStrayRelay
PROPERTY QuitWaits
PROPERTY StopIsFinal
PROPERTY RelaysEnd
CHECK_DEADLOCK FALSE

CONSTANTS
    PAUSE_TICKS = 600
    wifi_host = 77
    Consoles <- MCConsoles
SPECIFICATION DiscoverySpec
INVARIANT SweepComplete
PROPERTY ConsoleFound
CHECK_DEADLOCK FALSE

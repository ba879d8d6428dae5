CONSTANTS
    Clients = {a, b}
    Good = {a}
    Ips = {x, y}
    Modes = {TRUE, FALSE}
    Timeout = 1
    LoginTimeout = 1
    MaxGen = 2
    MaxFails = 1
SPECIFICATION Spec
INVARIANT LoginProved
INVARIANT ReachesOwner
INVARIANT RouteListed
PROPERTY LogsIn
CHECK_DEADLOCK FALSE

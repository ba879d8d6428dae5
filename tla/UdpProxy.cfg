CONSTANTS
    Kinds = {"direct", "socks5"}
    Srcs = {a, b}
    Ports = {p}
    TTL = 1
    MaxSessions = 3
    MaxSends = 4
SPECIFICATION Spec
INVARIANT SessionsSound
PROPERTY ImplementsNat
PROPERTY Reclaimed

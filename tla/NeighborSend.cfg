SPECIFICATION SendSpec
CONSTANTS
    ARP_CACHE_LEN = 3
    ARP_TTL = 2
    IPv4 = {none, h1, h2, h3}
    NONE_IP = none
    MAC = {m1, m2}
    ZERO_MAC = zero
    MaxTime = 5
PROPERTY ImplementsMap

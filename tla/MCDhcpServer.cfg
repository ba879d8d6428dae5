CONSTANTS
    DHCP_LEASE_COUNT = 2
    DHCP_LEASE_TIME = 2
    DHCP_OFFER_TIME = 1
    POOL = 3
    bcast = 5
    gw = 3
    self = 2
    Clients = {m1, m2, m3}
    NoMac = NoMac
    NoIp = NoIp
    HeardSets <- MCHeardSets
    Wanted = {2, 4}
    Configured = {1, 4}
    MaxTime = 3
SYMMETRY MCSymmetry
SPECIFICATION DhcpSpec
INVARIANT LeaseUnique
INVARIANT ExclusiveGrant
PROPERTY RenewalHonoured

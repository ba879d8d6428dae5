CONSTANTS
    IPv4 <- MCIPv4
    NONE_IP <- NoneIp
    MAC <- MCMAC
    ZERO_MAC <- Zero
    BROADCAST_MAC <- FF
    GroupMacs <- MCGroup
    NintendoMacs <- MCNintendo
    zerotier_subnet <- MCSubnet
    zerotier_broadcast_ip <- Bcast
    NetworkIps = {}
    game_subnet <- MCSubnet
    game_broadcast <- Bcast
    NINTENDO_BROADCAST <- NintendoBcast
    Port = {1}
    MAX_UDP_PORTS = 1
    GamePorts = {1}
    cfg <- MCcfg
    console_ip <- MCconsole_ip
    console_mac <- MCconsole_mac
    payload <- MCpayload
    Relays = {1, 2}
    Discovered = {1, 2}
    Destinations <- Members
    MaxSends = 2
    Expiring <- MCExpiring
SPECIFICATION Spec
INVARIANTS
    MembersSound
PROPERTIES
    Quiesces
    EndToEnd
CHECK_DEADLOCK FALSE

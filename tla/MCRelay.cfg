CONSTANTS
    IPv4 <- MCIPv4
    NONE_IP = "none"
    MAC <- MCMAC
    ZERO_MAC = "zero"
    BROADCAST_MAC = "ff"
    GroupMacs = {"ff"}
    NintendoMacs = {"console"}
    zerotier_subnet <- MCOverlay
    zerotier_broadcast_ip = "bc"
    NetworkIps = {}
    game_subnet <- MCOverlay
    game_broadcast = "bc"
    NINTENDO_BROADCAST = "nbc"
    Port = {1, 2, 3}
    MAX_UDP_PORTS = 2
    GamePorts = {1}
    config <- MCConfig
    WifiFrames <- MCWifiFrames
    ZeroTierFrames <- MCZeroTierFrames
SPECIFICATION Spec
INVARIANT StateSound
INVARIANT OverlaySound
INVARIANT ReturnPath
PROPERTY ConsolePinned

------------------------------ MODULE MCRelay -------------------------------
(***************************************************************************)
(* A small instance of Relay: a console that may use an overlay address,   *)
(* the relay's own managed address or a DHCP address, an access point that *)
(* also emits the console's frames, and one overlay peer.                  *)
(***************************************************************************)
EXTENDS Relay

MCIPv4 ==
    {"none", "zt", "gw", "sw", "peer", "bc", "dhcp", "wifi", "nbc", "inet"}
MCOverlay == {"zt", "gw", "sw", "peer", "bc"}

MCMAC == {"wifi_if", "zt_if", "console", "ap", "peer_if", "ff"}

MCConfig ==
    [zerotier_ip |-> "zt", zerotier_mac |-> "zt_if", gateway_ip |-> "gw",
     wifi_mac |-> "wifi_if", wifi_ip |-> "wifi",
     wifi_subnet |-> {"wifi", "dhcp"}, wifi_reserved |-> {}]

Data(proto, frag, sport, size) ==
    [proto |-> proto, frag |-> frag, sport |-> sport,
     game |-> (proto = "udp" /\ frag # "later"), size |-> size]

Ip(sip, dip, p) == [type |-> "ipv4", sip |-> sip, dip |-> dip, p |-> p]

Game == Data("udp", "whole", 1, "mtu")

\* What a console sends: game traffic from three ports, fragments, ICMP.
ConsoleData ==
    {Game, Data("udp", "first", 2, "mtu"), Data("udp", "later", 0, "mtu"),
     Data("udp", "whole", 3, "mtu"),
     Data("unreachable", "whole", 0, "mtu")}

\* Wi-Fi stations: the console at one of three addresses, an access point that
\* replaces the Ethernet source of its frames, and the host itself.
Direct3 == {<<"console", ip>> : ip \in {"sw", "zt", "dhcp"}}
Stations == Direct3 \cup {<<"ap", "sw">>, <<"ap", "dhcp">>}

MCWifiFrames ==
    {Ether(s[1], "ff", Arp("request", s[1], s[2], "peer")) : s \in Stations}
    \cup {Ether("ap", "wifi_if", Arp("reply", "console", "sw", "gw"))}
    \cup {Ether(s[1], "ff", Ip(s[2], d, Game)) :
             s \in Stations, d \in {"bc", "nbc"}}
    \cup {Ether(s[1], "wifi_if", Ip(s[2], "peer", p)) :
             s \in Direct3, p \in ConsoleData}
    \cup {Ether("ap", "wifi_if", Ip("sw", "peer", Game))}
    \cup {Ether(s[1], "wifi_if", Ip(s[2], "inet", Data("tcp", "whole", 0, "mtu"))) :
             s \in Direct3}
    \cup {Ether(s[1], "wifi_if", Ip(s[2], d, Data("probe_reply", "whole", 0, "mtu"))) :
             s \in Stations, d \in {"gw", "wifi"}}
    \cup {Ether("wifi_if", "ff", Arp("request", "wifi_if", "wifi", "sw"))}

\* Overlay members: the peer, which may also use the console's address.
MCZeroTierFrames ==
    {Ether("peer_if", "ff", Arp("request", "peer_if", ip, t)) :
        ip \in {"peer", "sw"}, t \in {"zt", "gw"}}
    \cup {Ether("peer_if", "ff", Arp("request", "peer_if", "zt", "peer"))}
    \cup {Ether("peer_if", "ff", Ip("peer", d, Game)) : d \in {"bc", "nbc"}}
    \cup {Ether("peer_if", "zt_if", Ip(ip, d, Game)) :
            ip \in {"peer", "sw"}, d \in {"zt", "sw"}}
    \cup {Ether("peer_if", "zt_if", Ip("peer", "sw", Data("udp", "whole", 1, "jumbo"))),
          Ether("peer_if", "zt_if", Ip("peer", "gw", Data("echo", "whole", 0, "mtu"))),
          Ether("zt_if", "peer_if", Ip("zt", "peer", Game))}

\* A ZeroTier adapter carries datagrams beyond the Ethernet MTU of Wi-Fi.
MCLargeFrames ==
    {Ether("peer_if", "ff", Ip("peer", "bc", Data("udp", "whole", 1, s))) :
        s \in {"mtu", "jumbo", "huge"}}
=============================================================================

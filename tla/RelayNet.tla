------------------------------ MODULE RelayNet ------------------------------
(***************************************************************************)
(* The two Ethernet segments the relay joins, the Wi-Fi of the console and *)
(* the ZeroTier overlay: addresses, frames and address classes.            *)
(*                                                                         *)
(* Frames are well formed.  The relay tells apart the fields below; game   *)
(* payload, checksums and lengths are abstracted to what its guards test.  *)
(***************************************************************************)
EXTENDS Integers, FiniteSets

CONSTANTS
    IPv4,
    NONE_IP,                \* 0.0.0.0
    MAC,
    ZERO_MAC,               \* 00:00:00:00:00:00; also an unbound ARP entry
    BROADCAST_MAC,
    GroupMacs,              \* multicast bit set
    NintendoMacs,           \* is_nintendo_mac
    zerotier_subnet,        \* addresses under zerotier_ip/zerotier_netmask
    zerotier_broadcast_ip,
    NetworkIps,             \* no host bit set under zerotier_netmask
    game_subnet,            \* packet_ctx.subnet_net/subnet_mask (--subnet)
    game_broadcast,         \* IS_BROADCAST of game_subnet
    NINTENDO_BROADCAST,     \* 10.255.255.255
    Port,                   \* UDP ports; 0 is not one of them
    MAX_UDP_PORTS,          \* capacity of the port guard (64)
    GamePorts               \* reserved by lan_play_init before traffic

\* zerotier_broadcast_ip is built from zerotier_ip in lan_play_init, which
\* also reserves GamePorts and fails when it cannot.
ASSUME NetAssumption ==
    /\ NONE_IP \in IPv4 \ (zerotier_subnet \cup game_subnet)
    /\ zerotier_subnet \subseteq IPv4
    /\ game_subnet \subseteq IPv4
    /\ zerotier_broadcast_ip \in zerotier_subnet
    /\ game_broadcast \in game_subnet
    /\ NINTENDO_BROADCAST \in IPv4
    /\ ZERO_MAC \notin MAC
    /\ BROADCAST_MAC \in GroupMacs
    /\ GroupMacs \subseteq MAC
    /\ NintendoMacs \subseteq MAC \ GroupMacs
    /\ 0 \notin Port
    /\ MAX_UDP_PORTS \in Nat
    /\ GamePorts \subseteq Port
    /\ IsFiniteSet(GamePorts)
    /\ Cardinality(GamePorts) <= MAX_UDP_PORTS

\* What one relay reads from its adapters and options.  wifi_subnet is empty
\* when the Wi-Fi adapter has no IPv4 address (wifi_subnet_known is false).
Config ==
    [zerotier_ip : zerotier_subnet \cap game_subnet, zerotier_mac : MAC,
     gateway_ip : game_subnet,
     wifi_mac : MAC, wifi_ip : IPv4, wifi_subnet : SUBSET IPv4,
     wifi_reserved : SUBSET IPv4]   \* wifi_broadcast and wifi_subnet.0

\* An IPv4 payload: "unreachable" is ICMP 3/3, "echo" any other ICMP message,
\* "probe_reply" the ICMP echo reply that carries the bytes of the delivery
\* probe.  game: UDP destination port 35000.  size: up to ETHER_MTU, up to
\* the send buffer, or beyond it.
Payload ==
    [proto : {"udp", "tcp", "unreachable", "echo", "probe_reply"},
     frag  : {"whole", "first", "later"},
     sport : Port \cup {0}, game : BOOLEAN,
     size  : {"mtu", "jumbo", "huge"}]

ArpPacket ==
    [type : {"arp"}, op : {"request", "reply"}, smac : MAC,
     sip : IPv4, tip : IPv4]

Ipv4Packet ==
    [type : {"ipv4"}, sip : IPv4, dip : IPv4, p : Payload]

Frame == [src : MAC, dst : MAC, pkt : ArpPacket \cup Ipv4Packet]

Arp(op, smac, sip, tip) ==
    [type |-> "arp", op |-> op, smac |-> smac, sip |-> sip, tip |-> tip]

Ether(src, dst, pkt) == [src |-> src, dst |-> dst, pkt |-> pkt]

-----------------------------------------------------------------------------
is_nintendo_lan_broadcast(ip) == ip = NINTENDO_BROADCAST

is_zerotier_destination(ip) ==
    ip = zerotier_broadcast_ip \/ ip \in zerotier_subnet

\* A console address on the Wi-Fi subnet only: DHCP/Automatic settings.
IsDhcpIp(c, ip) == ip \in c.wifi_subnet /\ ~ is_zerotier_destination(ip)

\* ICMP fragments are never inspected; UDP ports sit in the first fragment.
IsIcmp(p) == p.proto \in {"unreachable", "echo", "probe_reply"}

HasUdpHeader(p) == p.proto = "udp" /\ p.frag # "later"
=============================================================================

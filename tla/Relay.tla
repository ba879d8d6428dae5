------------------------------- MODULE Relay --------------------------------
(***************************************************************************)
(* One relay between the console's Wi-Fi and the ZeroTier overlay, driven  *)
(* by any sequence of frames on the two captures.  Every callback runs to  *)
(* completion on the libuv loop, so an action is one callback.             *)
(***************************************************************************)
EXTENDS RelayCore

CONSTANTS
    config,         \* of Config
    WifiFrames,     \* frames that other stations send on Wi-Fi
    ZeroTierFrames  \* frames that other members send on the overlay

ASSUME RelayAssumption ==
    /\ config \in Config
    /\ WifiFrames \subseteq Frame
    /\ ZeroTierFrames \subseteq Frame

VARIABLES
    relay,      \* struct lan_play
    served,     \* hosts whose datagrams lwIP, behind the gateway, has received
    out         \* the callback that ran last and what it transmitted

vars == <<relay, served, out>>

Transmission ==
    [on : {"wifi", "zerotier", "gateway", "assert"}, frame : Frame]

\* Every field of struct lan_play, and every frame the callbacks put together,
\* is of its declared shape.
TypeOK ==
    /\ relay \in RelayState
    /\ served \subseteq IPv4
    /\ out.from \in {"start", "wifi", "zerotier", "gateway", "expiry"}
    /\ out.tx \subseteq Transmission

Init ==
    /\ relay = lan_play_init
    /\ served = {}
    /\ out = [from |-> "start", tx |-> {}]

Apply(from, o) ==
    /\ relay' = o.state
    /\ out' = [from |-> from, tx |-> o.tx]
    /\ served' = served \cup {t.frame.pkt.sip :
                                 t \in {u \in o.tx : u.on = "gateway"}}

\* An answer to the delivery probe exists only once the probe was sent.
WifiFrame(f) ==
    /\ f.pkt.type = "ipv4" /\ f.pkt.p.proto = "probe_reply" => relay.probe_sent
    /\ \E o \in lan_play_pcap_handler(config, relay, f) : Apply("wifi", o)

ZeroTierFrame(f) ==
    \E o \in lan_play_zerotier_pcap_handler(config, relay, f) :
        Apply("zerotier", o)

\* lwIP answers a host it has served, from the address the host talked to.
GatewaySend(ip, remote) ==
    /\ ip \in served
    /\ Apply("gateway",
             gateway_send_packet(config, relay,
                 [type |-> "ipv4", sip |-> remote, dip |-> ip,
                  p |-> [proto |-> "tcp", frag |-> "whole", sport |-> 0,
                         game |-> FALSE, size |-> "mtu"]]))

\* The lifetime of an entry of one of the tables ends.
ArpExpire(ip) ==
    /\ \/ /\ relay.local[ip] # ZERO_MAC
          /\ relay' = [relay EXCEPT !.local[ip] = ZERO_MAC]
       \/ /\ relay.neighbors[ip] # ZERO_MAC
          /\ relay' = [relay EXCEPT !.neighbors[ip] = ZERO_MAC]
    /\ out' = [from |-> "expiry", tx |-> {}]
    /\ UNCHANGED served

\* Addresses outside both subnets: the Internet behind the gateway.
Remotes ==
    IPv4 \ (game_subnet \cup zerotier_subnet \cup config.wifi_subnet
            \cup {NONE_IP, NINTENDO_BROADCAST})

Next ==
    \/ \E f \in WifiFrames : WifiFrame(f)
    \/ \E f \in ZeroTierFrames : ZeroTierFrame(f)
    \/ \E ip \in IPv4, remote \in Remotes : GatewaySend(ip, remote)
    \/ \E ip \in IPv4 : ArpExpire(ip)

Spec == Init /\ [][Next]_vars

-----------------------------------------------------------------------------
(* Properties.                                                             *)

\* IPv4 datagrams that the last callback put on a segment.
Datagrams(on) ==
    {t.frame : t \in {u \in out.tx : u.on = on /\ u.frame.pkt.type = "ipv4"}}

\* learn_local_switch keeps the console it found: the address never changes,
\* the MAC changes at most once, from a provisional unicast source to a
\* confirmed one, and a confirmed MAC is final.
ConsolePinned ==
    [][relay.switch_seen =>
          /\ relay'.switch_seen
          /\ relay'.switch_ip = relay.switch_ip
          /\ relay.switch_mac_confirmed => relay'.switch_mac_confirmed
          /\ relay'.switch_mac # relay.switch_mac =>
                ~ relay.switch_mac_confirmed /\ relay'.switch_mac_confirmed]_vars

\* What the console sends reaches the overlay only from the managed ZeroTier
\* address: lan_play_relay_wifi_ipv4 maps the source address of every
\* datagram, and no datagram slips past it through process_ipv4.
ManagedSource ==
    out.from = "wifi" =>
        \A f \in Datagrams("zerotier") : f.pkt.sip = config.zerotier_ip

\* A UDP datagram of the console enters the overlay only while the host holds
\* its source port, so that the host never answers the peer with an ICMP error,
\* and the guard stays within its capacity.
PortsReserved ==
    /\ Cardinality(relay.ports) <= MAX_UDP_PORTS
    /\ out.from = "wifi" =>
           \A f \in Datagrams("zerotier") :
               HasUdpHeader(f.pkt.p) => f.pkt.p.sport \in relay.ports

\* The console's ICMP port-unreachable errors never reach an overlay peer.
NoUnreachable ==
    out.from = "wifi" =>
        \A f \in Datagrams("zerotier") :
            ~ (f.pkt.p.proto = "unreachable" /\ f.pkt.p.frag = "whole")

\* An overlay datagram for the console, of at most ETHER_MTU bytes, is delivered
\* to the MAC that learn_local_switch pinned, whatever the ARP table says.
ReturnPath ==
    out.from = "zerotier" /\ relay.switch_seen =>
        \A f \in Datagrams("wifi") :
            /\ f.pkt.dip = relay.switch_ip
            /\ f.pkt.sip # config.gateway_ip
            /\ f.pkt.p.size = "mtu"
            => f.dst = relay.switch_mac

\* On the overlay the relay announces one binding only, its own managed
\* address at its own adapter, in its ARP replies and requests alike; an
\* announced console or gateway address would divert its traffic.
OverlayArpTruth ==
    \A t \in out.tx :
        t.on = "zerotier" /\ t.frame.pkt.type = "arp" =>
            /\ t.frame.pkt.smac = config.zerotier_mac
            /\ t.frame.pkt.sip = config.zerotier_ip

\* The overlay table holds other members only: its bindings are unicast MACs
\* of overlay hosts, never the relay's own address, the broadcast address or
\* the relay's own adapter.
NeighborsAreMembers ==
    \A ip \in IPv4 :
        relay.neighbors[ip] # ZERO_MAC =>
            /\ is_zerotier_destination(ip)
            /\ ip \notin {config.zerotier_ip, zerotier_broadcast_ip}
            /\ relay.neighbors[ip] \notin GroupMacs \cup {config.zerotier_mac}

\* All that the relay puts on the overlay is fit for it, whichever of the two
\* paths through the code it took.
OverlaySound == ManagedSource /\ PortsReserved /\ NoUnreachable /\ OverlayArpTruth

\* The state of the relay and its overlay table stay well formed.
StateSound == TypeOK /\ NeighborsAreMembers

-----------------------------------------------------------------------------
(* Statements of the documentation, the comments and the tests that this   *)
(* code does not meet in every case.                                       *)

\* docs/relay-diagnostics.md and native_relay_test.c: the delivery probe follows
\* the first game datagram from the overlay.  learn_local_switch has sent it by
\* then.
ProbeOnReply ==
    [][~ relay.probe_sent /\ relay'.probe_sent => out'.from = "zerotier"]_vars

\* docs/relay-diagnostics.md: the answer to the delivery probe is consumed
\* locally and never sent into ZeroTier.
ProbeStaysLocal ==
    out.from = "wifi" =>
        \A f \in Datagrams("zerotier") : f.pkt.p.proto # "probe_reply"

\* docs/zerotier-transport.md: packets for the fake gateway stay local.
GatewayStaysLocal ==
    out.from = "wifi" =>
        \A f \in Datagrams("zerotier") : f.pkt.dip # config.gateway_ip

\* docs/relay-diagnostics.md: what arrives on the overlay cannot overwrite an
\* entry of the local ARP table.
TablesSeparate ==
    [][out'.from = "zerotier" =>
          \A ip \in IPv4 :
              relay.local[ip] # ZERO_MAC => relay'.local[ip] = relay.local[ip]
      ]_vars

\* packet.c: send_payloads asserts that no frame exceeds the packet buffer.
BufferSuffices == \A t \in out.tx : t.on # "assert"
=============================================================================

----------------------------- MODULE RelayCore ------------------------------
(***************************************************************************)
(* The frame handlers of the relay (lan-play.c, packet.c, arp.c, ipv4.c) as*)
(* operators from a relay's configuration c, its state r and a frame f to  *)
(* the possible outcomes: the next state and the frames transmitted.       *)
(*                                                                         *)
(* The two ARP tables are maps from addresses to MACs, ZERO_MAC for a miss:*)
(* what ArpCache is proved to implement.  Lifetimes, and the refusal of an *)
(* entry by a full table, are entries that disappear between two handlers. *)
(* Captures, counters and logging are left out.                            *)
(***************************************************************************)
EXTENDS RelayNet

ArpTableMap == [IPv4 -> MAC \cup {ZERO_MAC}]

RelayState ==
    [switch_seen : BOOLEAN, switch_ip : IPv4, switch_mac : MAC \cup {ZERO_MAC},
     switch_mac_confirmed : BOOLEAN, switch_dhcp : BOOLEAN,
     probe_sent : BOOLEAN, probe_replied : BOOLEAN,
     probe_ip : IPv4, probe_mac : MAC \cup {ZERO_MAC},
     local : ArpTableMap,       \* packet_ctx.arp_list
     neighbors : ArpTableMap,   \* zerotier_neighbors.arp_list
     mac : MAC,                 \* packet_ctx.mac
     ports : SUBSET Port]       \* udp_guard

\* A bug in packet_init: the context starts without a MAC.
LanPlayInitNoMac ==
    [switch_seen |-> FALSE, switch_ip |-> NONE_IP, switch_mac |-> ZERO_MAC,
     switch_mac_confirmed |-> FALSE, switch_dhcp |-> FALSE,
     probe_sent |-> FALSE, probe_replied |-> FALSE,
     probe_ip |-> NONE_IP, probe_mac |-> ZERO_MAC,
     local |-> [ip \in IPv4 |-> ZERO_MAC],
     neighbors |-> [ip \in IPv4 |-> ZERO_MAC],
     mac |-> ZERO_MAC,
     ports |-> GamePorts]

\* lan_play_init and packet_init: an all-zero lan_play with the game ports.
lan_play_init ==
    [switch_seen |-> FALSE, switch_ip |-> NONE_IP, switch_mac |-> ZERO_MAC,
     switch_mac_confirmed |-> FALSE, switch_dhcp |-> FALSE,
     probe_sent |-> FALSE, probe_replied |-> FALSE,
     probe_ip |-> NONE_IP, probe_mac |-> ZERO_MAC,
     local |-> [ip \in IPv4 |-> ZERO_MAC],
     neighbors |-> [ip \in IPv4 |-> ZERO_MAC],
     mac |-> BROADCAST_MAC,
     ports |-> GamePorts]

\* An outcome that transmits tx, and one that transmits nothing.
Outcome(r, tx) == [state |-> r, tx |-> tx]
Silent(r) == Outcome(r, {})

\* uv_pcap_sendpacket writes the adapter's own MAC as Ethernet source.
OnWifi(c, dst, pkt) == [on |-> "wifi", frame |-> Ether(c.wifi_mac, dst, pkt)]
OnZeroTier(c, dst, pkt) ==
    [on |-> "zerotier", frame |-> Ether(c.zerotier_mac, dst, pkt)]

-----------------------------------------------------------------------------
(* Discovery of the console on Wi-Fi.                                      *)

\* Evidence that the Ethernet source is the console itself.
Direct(f) ==
    \/ f.pkt.type = "arp"
    \/ /\ f.dst = BROADCAST_MAC
       /\ \/ f.pkt.dip = zerotier_broadcast_ip
          \/ is_nintendo_lan_broadcast(f.pkt.dip)

\* The early returns of learn_local_switch: any other frame is dropped.
SwitchCandidate(c, r, f) ==
    LET ip == f.pkt.sip
    IN  /\ f.src \notin GroupMacs
        /\ f.pkt.type = "arp" => f.pkt.smac = f.src
        /\ is_zerotier_destination(ip) \/ ip \in c.wifi_subnet
        /\ ip \notin {zerotier_broadcast_ip, c.gateway_ip}
        /\ ip \in c.wifi_subnet => ip \notin c.wifi_reserved
        /\ ip \notin NetworkIps
        /\ IsDhcpIp(c, ip) => f.src \in NintendoMacs
        /\ r.switch_seen => ip = r.switch_ip

Changed(r, f) == ~ r.switch_seen \/ f.src # r.switch_mac

\* A bug in the choice of the return path: the last MAC wins.
ConflictNever(r, f) == FALSE

\* A second MAC for the console's address that is not adopted: the known one
\* is confirmed, or this one is no direct evidence.
Conflict(r, f) ==
    /\ r.switch_seen
    /\ Changed(r, f)
    /\ r.switch_mac_confirmed \/ ~ Direct(f)

\* One ICMP echo per run, from an address the console can answer to.
ProbeSource(c, r) == IF r.switch_dhcp THEN c.wifi_ip ELSE c.gateway_ip

probe_wifi_delivery(c, r) ==
    IF r.probe_sent THEN Silent(r)
    ELSE Outcome([r EXCEPT !.probe_sent = TRUE,
                           !.probe_ip = r.switch_ip,
                           !.probe_mac = r.switch_mac],
                 {OnWifi(c, r.switch_mac,
                         [type |-> "ipv4", sip |-> ProbeSource(c, r),
                          dip |-> r.switch_ip,
                          p |-> [proto |-> "echo", frag |-> "whole",
                                 sport |-> 0, game |-> FALSE,
                                 size |-> "mtu"]])})

\* learn_local_switch on a candidate: it returns true in all cases.
learn_local_switch(c, r, f) ==
    LET ip == f.pkt.sip
        known == [r EXCEPT !.switch_ip = ip, !.switch_mac = f.src,
                           !.switch_seen = TRUE,
                           !.switch_mac_confirmed = @ \/ Direct(f)]
        fresh == [known EXCEPT !.local[ip] = f.src,
                               !.switch_dhcp = IsDhcpIp(c, ip)]
    IN  IF Conflict(r, f) THEN Silent(r)
        ELSE IF Changed(r, f) THEN probe_wifi_delivery(c, fresh)
        ELSE Silent(known)

\* The echo reply that proves delivery is consumed on the Wi-Fi side.
consume_wifi_delivery_reply(c, r, f) ==
    /\ r.probe_sent
    /\ f.src = r.probe_mac
    /\ f.dst = c.wifi_mac
    /\ f.pkt.type = "ipv4"
    /\ f.pkt.p.proto = "probe_reply" /\ f.pkt.p.frag = "whole"
    /\ f.pkt.sip = r.probe_ip
    /\ f.pkt.dip = ProbeSource(c, r)

-----------------------------------------------------------------------------
(* Transmission on the overlay.                                            *)

\* lan_play_send_zerotier_ipv4: unicast to a known neighbour, otherwise an
\* ARP request and the datagram as a broadcast.
send_zerotier_ipv4(c, r, pkt) ==
    IF pkt.p.size # "mtu" THEN {}
    ELSE IF r.neighbors[pkt.dip] # ZERO_MAC
    THEN {OnZeroTier(c, r.neighbors[pkt.dip], pkt)}
    ELSE {OnZeroTier(c, BROADCAST_MAC,
                     Arp("request", c.zerotier_mac, c.zerotier_ip, pkt.dip)),
          OnZeroTier(c, BROADCAST_MAC, pkt)}

send_zerotier_ipv4_broadcast(c, pkt) ==
    IF pkt.p.size # "mtu" THEN {} ELSE {OnZeroTier(c, BROADCAST_MAC, pkt)}

\* A bug at the limit of the guard: one port too many.
ReserveOneMore(ports, port) ==
    LET failed == [ports |-> ports, ok |-> FALSE]
    IN  IF port = 0 THEN {failed}
        ELSE IF port \in ports THEN {[ports |-> ports, ok |-> TRUE]}
        ELSE IF Cardinality(ports) > MAX_UDP_PORTS THEN {failed}
        ELSE {failed, [ports |-> ports \cup {port}, ok |-> TRUE]}

\* native_udp_guard_reserve: the possible port sets and whether it succeeded.
\* Binding a new port fails when another application holds it.
native_udp_guard_reserve(ports, port) ==
    LET failed == [ports |-> ports, ok |-> FALSE]
    IN  IF port = 0 THEN {failed}
        ELSE IF port \in ports THEN {[ports |-> ports, ok |-> TRUE]}
        ELSE IF Cardinality(ports) >= MAX_UDP_PORTS THEN {failed}
        ELSE {failed, [ports |-> ports \cup {port}, ok |-> TRUE]}

-----------------------------------------------------------------------------
(* The native relay path: it either handles a datagram or leaves it to     *)
(* get_packet.                                                             *)

\* A bug in the destination test: the console's legacy broadcast is left to
\* process_ipv4, which does not translate it.
HandledNoBroadcast(r, pkt) ==
    /\ r.switch_seen
    /\ pkt.sip = r.switch_ip
    /\ pkt.p.size = "mtu"
    /\ is_zerotier_destination(pkt.dip)

\* lan_play_relay_wifi_ipv4 returns true.
HandledFromWifi(r, pkt) ==
    /\ r.switch_seen
    /\ pkt.sip = r.switch_ip
    /\ pkt.p.size = "mtu"
    /\ is_nintendo_lan_broadcast(pkt.dip) \/ is_zerotier_destination(pkt.dip)

\* A bug in the relay path: ICMP errors are treated as any datagram.
RelayWifiKeepsErrors(c, r, pkt) ==
    LET dst == IF is_nintendo_lan_broadcast(pkt.dip)
               THEN zerotier_broadcast_ip ELSE pkt.dip
        tx == send_zerotier_ipv4(c, r, [pkt EXCEPT !.sip = c.zerotier_ip,
                                                   !.dip = dst])
    IN  IF ~ HasUdpHeader(pkt.p) THEN {Outcome(r, tx)}
        ELSE {Outcome([r EXCEPT !.ports = g.ports], IF g.ok THEN tx ELSE {}) :
                 g \in native_udp_guard_reserve(r.ports, pkt.p.sport)}

\* A port-unreachable error is consumed.  Anything else goes to the overlay
\* from the managed address, once the source port of a UDP datagram is held.
lan_play_relay_wifi_ipv4(c, r, pkt) ==
    LET dst == IF is_nintendo_lan_broadcast(pkt.dip)
               THEN zerotier_broadcast_ip ELSE pkt.dip
        translated == [pkt EXCEPT !.sip = c.zerotier_ip, !.dip = dst]
        tx == IF dst = zerotier_broadcast_ip
              THEN send_zerotier_ipv4_broadcast(c, translated)
              ELSE send_zerotier_ipv4(c, r, translated)
    IN  IF pkt.p.proto = "unreachable" /\ pkt.p.frag = "whole" THEN {Silent(r)}
        ELSE IF ~ HasUdpHeader(pkt.p) THEN {Outcome(r, tx)}
        ELSE {Outcome([r EXCEPT !.ports = g.ports], IF g.ok THEN tx ELSE {}) :
                 g \in native_udp_guard_reserve(r.ports, pkt.p.sport)}

\* A bug in the destination test: the console's own address is not accepted.
HandledNotForSwitch(c, r, pkt) ==
    /\ r.switch_seen
    /\ pkt.p.size = "mtu"
    /\ pkt.dip \in {zerotier_broadcast_ip, c.zerotier_ip}

\* lan_play_relay_zerotier_ipv4 returns true.
HandledFromZeroTier(c, r, pkt) ==
    /\ r.switch_seen
    /\ pkt.p.size = "mtu"
    /\ pkt.dip \in {zerotier_broadcast_ip, c.zerotier_ip, r.switch_ip}

\* A bug in the delivery: the ARP table, not the pinned MAC, gives the target.
RelayZeroTierByTable(c, r, pkt) ==
    IF pkt.dip = zerotier_broadcast_ip
    THEN Outcome(r, {OnWifi(c, BROADCAST_MAC, pkt)})
    ELSE IF r.local[r.switch_ip] = ZERO_MAC THEN Silent(r)
    ELSE Outcome(r, {OnWifi(c, r.local[r.switch_ip],
                            [pkt EXCEPT !.dip = r.switch_ip])})

\* Broadcasts keep their address; the managed address becomes the console's.
\* The first game datagram may trigger the delivery probe.
lan_play_relay_zerotier_ipv4(c, r, pkt) ==
    LET broadcast == pkt.dip = zerotier_broadcast_ip
        sent == IF broadcast THEN OnWifi(c, BROADCAST_MAC, pkt)
                ELSE OnWifi(c, r.switch_mac, [pkt EXCEPT !.dip = r.switch_ip])
        game == /\ ~ broadcast
                /\ pkt.p.proto = "udp" /\ pkt.p.frag = "whole" /\ pkt.p.game
        probe == probe_wifi_delivery(c, r)
    IN  IF game THEN Outcome(probe.state, {sent} \cup probe.tx)
        ELSE Outcome(r, {sent})

-----------------------------------------------------------------------------
(* get_packet: the original switch-lan-play path.  zt: ingress_zerotier.   *)

\* send_ether always transmits on Wi-Fi; a frame beyond the packet buffer
\* runs into the assertion of send_payloads.
send_ether(c, dst, pkt) ==
    LET sent == OnWifi(c, dst, pkt)
    IN  IF pkt.type = "ipv4" /\ pkt.p.size = "huge"
        THEN {[sent EXCEPT !.on = "assert"]} ELSE {sent}

\* arp_get_mac_by_ip on the local table, then send_ether: a miss sends an ARP
\* request instead.
SendToLocal(c, r, pkt) ==
    IF r.local[pkt.dip] = ZERO_MAC
    THEN send_ether(c, BROADCAST_MAC,
                    Arp("request", r.mac, c.gateway_ip, pkt.dip))
    ELSE send_ether(c, r.local[pkt.dip], pkt)

\* A bug in proxy ARP: the overlay is answered for the whole subnet.
ArpRequestForAll(c, a, zt) ==
    IF a.tip \notin game_subnet \/ a.tip = a.sip \/ a.sip = NONE_IP THEN {}
    ELSE IF zt
    THEN {OnZeroTier(c, a.smac, Arp("reply", c.zerotier_mac, a.tip, a.sip))}
    ELSE {OnWifi(c, a.smac, Arp("reply", c.wifi_mac, a.tip, a.sip))}

\* Proxy ARP.  The overlay learns this relay's managed address only; the
\* console is answered for every address of the game subnet.
arp_request(c, a, zt) ==
    IF \/ a.tip \notin game_subnet
       \/ a.tip = a.sip
       \/ a.sip = NONE_IP
       \/ zt /\ a.tip # c.zerotier_ip
    THEN {}
    ELSE IF zt
    THEN {OnZeroTier(c, a.smac, Arp("reply", c.zerotier_mac, a.tip, a.sip))}
    ELSE send_ether(c, a.smac, Arp("reply", c.wifi_mac, a.tip, a.sip))

process_arp(c, r, a, zt) ==
    Outcome([r EXCEPT !.local[a.sip] = a.smac],
            IF a.op = "request" THEN arp_request(c, a, zt) ELSE {})

\* Any ICMP message to the gateway address comes back as an echo reply.
process_icmp(c, r, pkt) ==
    SendToLocal(c, r,
        [pkt EXCEPT !.sip = c.gateway_ip, !.dip = pkt.sip,
                    !.p.proto = "echo", !.p.frag = "whole"])

process_ipv4(c, r, f, zt) ==
    LET pkt == f.pkt
        heard == [r EXCEPT !.local[pkt.sip] = f.src]
        broadcast == is_nintendo_lan_broadcast(pkt.dip)
                     \/ pkt.dip = game_broadcast
    IN  Outcome(heard,
            IF pkt.dip = c.gateway_ip
            THEN IF IsIcmp(pkt.p) THEN process_icmp(c, heard, pkt) ELSE {}
            ELSE IF broadcast /\ zt THEN send_ether(c, BROADCAST_MAC, pkt)
            ELSE IF is_nintendo_lan_broadcast(pkt.dip)
            THEN send_zerotier_ipv4_broadcast(c, pkt)
            ELSE IF pkt.dip \in game_subnet
            THEN IF zt /\ heard.local[pkt.dip] # ZERO_MAC
                 THEN SendToLocal(c, heard, pkt)
                 ELSE send_zerotier_ipv4(c, heard, pkt)
            ELSE IF f.dst = r.mac THEN {[on |-> "gateway", frame |-> f]}
            ELSE {})

get_packet(c, r, f, zt) ==
    IF f.pkt.type = "arp" THEN process_arp(c, r, f.pkt, zt)
    ELSE process_ipv4(c, r, f, zt)

-----------------------------------------------------------------------------
(* The two capture callbacks and the gateway's output.                     *)

\* Frames sent by this host are skipped; frames that are no evidence of the
\* console are dropped.
lan_play_pcap_handler(c, r, f) ==
    LET learned == learn_local_switch(c, r, f)
        s == [learned.state EXCEPT !.mac = c.wifi_mac]
        handled == IF f.pkt.type = "ipv4" /\ HandledFromWifi(s, f.pkt)
                   THEN lan_play_relay_wifi_ipv4(c, s, f.pkt)
                   ELSE {get_packet(c, s, f, FALSE)}
    IN  IF f.src = c.wifi_mac THEN {Silent(r)}
        ELSE IF consume_wifi_delivery_reply(c, r, f)
        THEN {Silent([r EXCEPT !.probe_replied = TRUE])}
        ELSE IF ~ SwitchCandidate(c, r, f) THEN {Silent(r)}
        ELSE {Outcome(o.state, learned.tx \cup o.tx) : o \in handled}

\* A bug in neighbour learning: the relay's own address is not excluded.
IsNeighborOwn(c, f) ==
    /\ f.pkt.type = "arp" => f.pkt.smac = f.src
    /\ is_zerotier_destination(f.pkt.sip)
    /\ f.pkt.sip # zerotier_broadcast_ip
    /\ f.src \notin GroupMacs

\* The overlay address of a frame, worth remembering as a neighbour.
IsNeighbor(c, f) ==
    /\ f.pkt.type = "arp" => f.pkt.smac = f.src
    /\ is_zerotier_destination(f.pkt.sip)
    /\ f.pkt.sip \notin {c.zerotier_ip, zerotier_broadcast_ip}
    /\ f.src \notin GroupMacs

\* A bug in the capture callback: the host's own frames are not skipped.
ZeroTierHandlerOwnFrames(c, r, f) ==
    LET s == [r EXCEPT !.mac = c.zerotier_mac]
    IN  IF f.pkt.type = "ipv4" /\ HandledFromZeroTier(c, s, f.pkt)
        THEN {lan_play_relay_zerotier_ipv4(c, s, f.pkt)}
        ELSE {get_packet(c, s, f, TRUE)}

lan_play_zerotier_pcap_handler(c, r, f) ==
    LET s == [r EXCEPT !.neighbors[f.pkt.sip] =
                           IF IsNeighbor(c, f) THEN f.src ELSE @,
                       !.mac = c.zerotier_mac]
    IN  IF f.src = c.zerotier_mac THEN {Silent(r)}
        ELSE IF f.pkt.type = "ipv4" /\ HandledFromZeroTier(c, s, f.pkt)
        THEN {lan_play_relay_zerotier_ipv4(c, s, f.pkt)}
        ELSE {get_packet(c, s, f, TRUE)}

\* lan_play_gateway_send_packet: what lwIP sends to a host it served.
gateway_send_packet(c, r, pkt) == Outcome(r, SendToLocal(c, r, pkt))
=============================================================================

---------------------------- MODULE Relay_proofs ----------------------------
(***************************************************************************)
(* Proofs about one relay, for all sets of addresses, frames and ports.    *)
(* The invariant Good says of the relay's state what the handlers rely on; *)
(* the lemmas follow the calls, from the senders up to the callbacks, and  *)
(* say what each leaves of the state and what it transmits.  The last part *)
(* is about the relay's search for its console.                            *)
(***************************************************************************)
EXTENDS Relay, SwitchDiscovery, FiniteSetTheorems, TLAPS

c == config
Packet == ArpPacket \cup Ipv4Packet

\* The fields that discovery and the delivery probe write.
Same(r, s) ==
    /\ s.switch_seen = r.switch_seen /\ s.switch_ip = r.switch_ip
    /\ s.switch_mac = r.switch_mac /\ s.switch_mac_confirmed = r.switch_mac_confirmed
    /\ s.switch_dhcp = r.switch_dhcp
    /\ s.probe_sent = r.probe_sent /\ s.probe_replied = r.probe_replied
    /\ s.probe_ip = r.probe_ip /\ s.probe_mac = r.probe_mac

\* What discovery pins, and the probe that learn_local_switch sends with it.
Found(r) ==
    /\ r.switch_seen = r.probe_sent
    /\ r.switch_seen =>
           /\ r.switch_mac \in MAC /\ r.switch_ip # zerotier_broadcast_ip
           /\ r.probe_ip = r.switch_ip
           /\ r.switch_dhcp <=> IsDhcpIp(c, r.switch_ip)
           /\ r.switch_dhcp => r.probe_mac \in NintendoMacs
    /\ r.probe_replied => r.probe_sent

\* NeighborsAreMembers of a state r.
Members(r) ==
    \A ip \in IPv4 : r.neighbors[ip] # ZERO_MAC =>
        /\ is_zerotier_destination(ip)
        /\ ip \notin {c.zerotier_ip, zerotier_broadcast_ip}
        /\ r.neighbors[ip] \notin GroupMacs \cup {c.zerotier_mac}

Guarded(r) == IsFiniteSet(r.ports) /\ Cardinality(r.ports) <= MAX_UDP_PORTS

Good(r) == r \in RelayState /\ Found(r) /\ Members(r) /\ Guarded(r)

\* What a step may do to the console that was found.
Pinned(r, s) ==
    r.switch_seen =>
        /\ s.switch_seen
        /\ s.switch_ip = r.switch_ip
        /\ r.switch_mac_confirmed => s.switch_mac_confirmed
        /\ s.switch_mac # r.switch_mac =>
              ~ r.switch_mac_confirmed /\ s.switch_mac_confirmed

\* OverlayArpTruth of a transmission t.
Truthful(t) ==
    t.on = "zerotier" /\ t.frame.pkt.type = "arp" =>
        t.frame.pkt.smac = c.zerotier_mac /\ t.frame.pkt.sip = c.zerotier_ip

-----------------------------------------------------------------------------
(* Types.                                                                  *)

\* The addresses of a configuration.
LEMMA ConfigType ==
    /\ c.zerotier_ip \in IPv4 /\ c.zerotier_ip \in zerotier_subnet
    /\ c.zerotier_mac \in MAC /\ c.gateway_ip \in IPv4
    /\ c.wifi_mac \in MAC /\ c.wifi_ip \in IPv4 /\ c.wifi_subnet \subseteq IPv4
    /\ BROADCAST_MAC \in MAC /\ zerotier_broadcast_ip \in IPv4 /\ NONE_IP \in IPv4
    /\ ZERO_MAC \notin MAC
BY RelayAssumption, NetAssumption DEF Config, c

\* The fields of a frame.
LEMMA FrameType ==
    ASSUME NEW f \in Frame
    PROVE  /\ f.src \in MAC /\ f.dst \in MAC /\ f.pkt \in Packet
           /\ f.pkt.sip \in IPv4 /\ f.pkt.type \in {"arp", "ipv4"}
           /\ f.pkt.type = "arp" => f.pkt \in ArpPacket
           /\ f.pkt.type = "ipv4" => f.pkt \in Ipv4Packet
BY DEF Frame, Packet, ArpPacket, Ipv4Packet

\* The fields of an ARP packet the relay builds.
LEMMA ArpType ==
    ASSUME NEW op \in {"request", "reply"}, NEW smac \in MAC, NEW sip \in IPv4, NEW tip \in IPv4
    PROVE  /\ Arp(op, smac, sip, tip) \in ArpPacket /\ Arp(op, smac, sip, tip) \in Packet
           /\ Arp(op, smac, sip, tip).type = "arp"
           /\ Arp(op, smac, sip, tip).smac = smac /\ Arp(op, smac, sip, tip).sip = sip
<1>1. /\ Arp(op, smac, sip, tip) \in ArpPacket /\ Arp(op, smac, sip, tip).type = "arp"
      /\ Arp(op, smac, sip, tip).smac = smac /\ Arp(op, smac, sip, tip).sip = sip
  BY DEF Arp, ArpPacket
<1> QED  BY <1>1 DEF Packet

\* What it puts on Wi-Fi.
LEMMA OnWifiType ==
    ASSUME NEW dst \in MAC, NEW pkt \in Packet
    PROVE  /\ OnWifi(c, dst, pkt) \in Transmission
           /\ OnWifi(c, dst, pkt).on = "wifi"
           /\ OnWifi(c, dst, pkt).frame.pkt = pkt /\ OnWifi(c, dst, pkt).frame.dst = dst
BY ConfigType DEF OnWifi, Ether, Transmission, Frame, Packet

\* What it puts on the overlay.
LEMMA OnZeroTierType ==
    ASSUME NEW dst \in MAC, NEW pkt \in Packet
    PROVE  /\ OnZeroTier(c, dst, pkt) \in Transmission
           /\ OnZeroTier(c, dst, pkt).on = "zerotier"
           /\ OnZeroTier(c, dst, pkt).frame.pkt = pkt
BY ConfigType DEF OnZeroTier, Ether, Transmission, Frame, Packet

\* A datagram with other addresses.
LEMMA Readdressed ==
    ASSUME NEW pkt \in Ipv4Packet, NEW s \in IPv4, NEW d \in IPv4
    PROVE  /\ [pkt EXCEPT !.sip = s, !.dip = d] \in Ipv4Packet
           /\ [pkt EXCEPT !.sip = s, !.dip = d].sip = s
           /\ [pkt EXCEPT !.sip = s, !.dip = d].dip = d
           /\ [pkt EXCEPT !.sip = s, !.dip = d].p = pkt.p
           /\ [pkt EXCEPT !.sip = s, !.dip = d].type = "ipv4"
BY Zenon DEF Ipv4Packet

-----------------------------------------------------------------------------
(* What is transmitted.                                                    *)

\* A datagram for the overlay goes out as it is, or an ARP request goes instead.
LEMMA SendZeroTier ==
    ASSUME NEW r \in RelayState, NEW pkt \in Ipv4Packet, NEW t \in send_zerotier_ipv4(c, r, pkt)
    PROVE  /\ t \in Transmission /\ t.on = "zerotier" /\ Truthful(t)
           /\ t.frame.pkt.type = "ipv4" => t.frame.pkt = pkt
           /\ pkt.p.size = "mtu"
<1>1. pkt.dip \in IPv4 /\ pkt.type = "ipv4" /\ pkt \in Packet
  BY DEF Ipv4Packet, Packet
<1>2. pkt.p.size = "mtu"
  BY DEF send_zerotier_ipv4
<1>3. r.neighbors[pkt.dip] # ZERO_MAC => r.neighbors[pkt.dip] \in MAC
  BY <1>1 DEF RelayState, ArpTableMap
<1> DEFINE a == Arp("request", c.zerotier_mac, c.zerotier_ip, pkt.dip)
<1>4. a \in Packet /\ a.type = "arp" /\ a.smac = c.zerotier_mac /\ a.sip = c.zerotier_ip
  <2> DEFINE mac == c.zerotier_mac
             ip == c.zerotier_ip
             tip == pkt.dip
  <2>1. mac \in MAC /\ ip \in IPv4 /\ tip \in IPv4
    BY <1>1, ConfigType
  <2>2. a = Arp("request", mac, ip, tip)
    OBVIOUS
  <2> HIDE DEF a, mac, ip, tip
  <2>3. a \in Packet /\ a.type = "arp" /\ a.smac = mac /\ a.sip = ip
    BY <2>1, <2>2, ArpType
  <2> QED  BY <2>3 DEF mac, ip
<1> HIDE DEF a
<1>5. CASE r.neighbors[pkt.dip] # ZERO_MAC
  <2>1. t = OnZeroTier(c, r.neighbors[pkt.dip], pkt)
    BY <1>2, <1>5 DEF send_zerotier_ipv4
  <2> QED  BY <1>1, <1>2, <1>3, <1>5, <2>1, OnZeroTierType DEF Truthful
<1>6. CASE r.neighbors[pkt.dip] = ZERO_MAC
  <2>1. t = OnZeroTier(c, BROADCAST_MAC, a) \/ t = OnZeroTier(c, BROADCAST_MAC, pkt)
    BY <1>2, <1>6 DEF send_zerotier_ipv4, a
  <2>2. CASE t = OnZeroTier(c, BROADCAST_MAC, a)
    BY <1>2, <1>4, <2>2, OnZeroTierType, ConfigType DEF Truthful
  <2>3. CASE t = OnZeroTier(c, BROADCAST_MAC, pkt)
    BY <1>1, <1>2, <2>3, OnZeroTierType, ConfigType DEF Truthful
  <2> QED  BY <2>1, <2>2, <2>3
<1> QED  BY <1>5, <1>6

\* A broadcast for the overlay goes out as it is.
LEMMA SendZeroTierBroadcast ==
    ASSUME NEW pkt \in Ipv4Packet, NEW t \in send_zerotier_ipv4_broadcast(c, pkt)
    PROVE  /\ t \in Transmission /\ t.on = "zerotier" /\ Truthful(t)
           /\ t.frame.pkt = pkt /\ pkt.p.size = "mtu"
<1>1. pkt.type = "ipv4" /\ pkt \in Packet
  BY DEF Ipv4Packet, Packet
<1>2. pkt.p.size = "mtu" /\ t = OnZeroTier(c, BROADCAST_MAC, pkt)
  BY DEF send_zerotier_ipv4_broadcast
<1> QED  BY <1>1, <1>2, OnZeroTierType, ConfigType DEF Truthful

\* A frame for Wi-Fi goes out, or is too long for the buffer.
LEMMA SendEther ==
    ASSUME NEW dst \in MAC, NEW pkt \in Packet, NEW t \in send_ether(c, dst, pkt)
    PROVE  t \in Transmission /\ t.on \in {"wifi", "assert"} /\ t.frame.pkt = pkt
<1> DEFINE s == OnWifi(c, dst, pkt)
<1>1. s \in Transmission /\ s.on = "wifi" /\ s.frame.pkt = pkt
  BY OnWifiType
<1>2. t = s \/ t = [s EXCEPT !.on = "assert"]
  BY DEF send_ether
<1> HIDE DEF s
<1> QED  BY <1>1, <1>2 DEF Transmission

\* A datagram for Wi-Fi goes out as it is, or an ARP request goes instead.
LEMMA SendsToLocal ==
    ASSUME NEW r \in RelayState, NEW pkt \in Ipv4Packet, NEW t \in SendToLocal(c, r, pkt)
    PROVE  /\ t \in Transmission /\ t.on \in {"wifi", "assert"}
           /\ t.frame.pkt.type = "ipv4" => t.frame.pkt = pkt
<1>1. pkt.dip \in IPv4 /\ pkt \in Packet
  BY DEF Ipv4Packet, Packet
<1>2. r.local[pkt.dip] # ZERO_MAC => r.local[pkt.dip] \in MAC
  BY <1>1 DEF RelayState, ArpTableMap
<1> DEFINE a == Arp("request", r.mac, c.gateway_ip, pkt.dip)
<1>3. a \in Packet /\ a.type = "arp"
  <2>1. r.mac \in MAC
    BY DEF RelayState
  <2>2. c.gateway_ip \in IPv4
    BY ConfigType
  <2> DEFINE mac == r.mac
             gateway == c.gateway_ip
             tip == pkt.dip
  <2>3. mac \in MAC /\ gateway \in IPv4 /\ tip \in IPv4
    BY <1>1, <2>1, <2>2
  <2>4. a = Arp("request", mac, gateway, tip)
    OBVIOUS
  <2> HIDE DEF a, mac, gateway, tip
  <2> QED  BY <2>3, <2>4, ArpType
<1> HIDE DEF a
<1>4. CASE r.local[pkt.dip] = ZERO_MAC
  <2>1. t \in send_ether(c, BROADCAST_MAC, a)
    BY <1>4 DEF SendToLocal, a
  <2> QED  BY <1>3, <2>1, SendEther, ConfigType
<1>5. CASE r.local[pkt.dip] # ZERO_MAC
  <2>1. t \in send_ether(c, r.local[pkt.dip], pkt)
    BY <1>5 DEF SendToLocal
  <2> QED  BY <1>1, <1>2, <1>5, <2>1, SendEther
<1> QED  BY <1>4, <1>5

\* Answers to ARP requests name the relay's own MAC.
LEMMA ProcessArp ==
    ASSUME NEW r \in RelayState, NEW a \in ArpPacket, NEW zt \in BOOLEAN,
           NEW t \in process_arp(c, r, a, zt).tx
    PROVE  t \in Transmission /\ t.on # "gateway" /\ t.frame.pkt.type = "arp" /\ Truthful(t)
<1>1. a.smac \in MAC /\ a.sip \in IPv4 /\ a.tip \in IPv4
  BY DEF ArpPacket
<1>2. t \in arp_request(c, a, zt)
  BY DEF process_arp, Outcome
<1> DEFINE m == IF zt THEN c.zerotier_mac ELSE c.wifi_mac
           b == Arp("reply", m, a.tip, a.sip)
<1>3. b \in Packet /\ b.type = "arp" /\ b.smac = m /\ b.sip = a.tip
  <2>1. m \in MAC
    BY ConfigType
  <2> HIDE DEF m
  <2> QED  BY <1>1, <2>1, ArpType DEF Packet
<1>4. CASE zt
  <2>1. t = OnZeroTier(c, a.smac, b) /\ a.tip = c.zerotier_ip
    BY <1>2, <1>4 DEF arp_request
  <2> HIDE DEF b
  <2> QED  BY <1>1, <1>3, <1>4, <2>1, OnZeroTierType DEF Truthful
<1>5. CASE ~ zt
  <2>1. t \in send_ether(c, a.smac, b)
    BY <1>2, <1>5, SMTT(30) DEF arp_request
  <2> HIDE DEF b
  <2> QED  BY <1>1, <1>3, <2>1, SendEther DEF Truthful
<1> QED  BY <1>4, <1>5

\* What process_ipv4 transmits is the datagram itself, an answer of the
\* gateway, or an ARP packet; on the overlay only a whole frame of it.
LEMMA ProcessIpv4 ==
    ASSUME NEW r \in RelayState, NEW f \in Frame, f.pkt.type = "ipv4", NEW zt \in BOOLEAN,
           NEW t \in process_ipv4(c, r, f, zt).tx
    PROVE  /\ t \in Transmission /\ Truthful(t)
           /\ t.on = "gateway" => t.frame = f
           /\ t.frame.pkt.type = "ipv4" /\ t.on = "wifi" =>
                  t.frame.pkt = f.pkt \/ t.frame.pkt.sip = c.gateway_ip
           /\ t.frame.pkt.type = "ipv4" /\ t.on = "zerotier" =>
                  /\ t.frame.pkt = f.pkt /\ f.pkt.p.size = "mtu"
                  /\ is_nintendo_lan_broadcast(f.pkt.dip) \/ f.pkt.dip \in game_subnet
<1> DEFINE heard == [r EXCEPT !.local[f.pkt.sip] = f.src]
           broadcast == is_nintendo_lan_broadcast(f.pkt.dip) \/ f.pkt.dip = game_broadcast
<1>1. f.pkt \in Ipv4Packet /\ f.pkt \in Packet /\ f.src \in MAC /\ f.pkt.sip \in IPv4
  BY FrameType
<1>2. heard \in RelayState
  BY <1>1 DEF RelayState, ArpTableMap
<1>3. \/ t \in process_icmp(c, heard, f.pkt)
      \/ t \in send_ether(c, BROADCAST_MAC, f.pkt)
      \/ is_nintendo_lan_broadcast(f.pkt.dip) /\ t \in send_zerotier_ipv4_broadcast(c, f.pkt)
      \/ t \in SendToLocal(c, heard, f.pkt)
      \/ f.pkt.dip \in game_subnet /\ t \in send_zerotier_ipv4(c, heard, f.pkt)
      \/ t = [on |-> "gateway", frame |-> f]
  BY Zenon DEF process_ipv4, Outcome
<1> HIDE DEF heard
<1>4. CASE t \in process_icmp(c, heard, f.pkt)
  <2> DEFINE pkt == [f.pkt EXCEPT !.sip = c.gateway_ip, !.dip = f.pkt.sip,
                                  !.p.proto = "echo", !.p.frag = "whole"]
  <2>1. pkt \in Ipv4Packet /\ pkt.sip = c.gateway_ip
    BY <1>1, ConfigType, Zenon DEF Ipv4Packet, Payload
  <2>2. t \in SendToLocal(c, heard, pkt)
    BY <1>4 DEF process_icmp
  <2> HIDE DEF pkt
  <2> QED  BY <1>2, <2>1, <2>2, SendsToLocal DEF Truthful
<1>5. CASE t \in send_ether(c, BROADCAST_MAC, f.pkt)
  BY <1>1, <1>5, SendEther, ConfigType DEF Truthful
<1>6. CASE is_nintendo_lan_broadcast(f.pkt.dip) /\ t \in send_zerotier_ipv4_broadcast(c, f.pkt)
  BY <1>1, <1>6, SendZeroTierBroadcast
<1>7. CASE t \in SendToLocal(c, heard, f.pkt)
  BY <1>1, <1>2, <1>7, SendsToLocal DEF Truthful
<1>8. CASE f.pkt.dip \in game_subnet /\ t \in send_zerotier_ipv4(c, heard, f.pkt)
  BY <1>1, <1>2, <1>8, SendZeroTier, SMTT(30)
<1>9. CASE t = [on |-> "gateway", frame |-> f]
  BY <1>9 DEF Transmission, Truthful
<1> QED  BY <1>3, <1>4, <1>5, <1>6, <1>7, <1>8, <1>9, SMTT(30)

-----------------------------------------------------------------------------
(* What is left of the state.                                              *)

\* An entry of the local table is of no concern to the invariant.
LEMMA LocalKeeps ==
    ASSUME NEW r, Good(r), NEW ip \in IPv4, NEW m \in MAC \cup {ZERO_MAC}
    PROVE  /\ Good([r EXCEPT !.local[ip] = m]) /\ Same(r, [r EXCEPT !.local[ip] = m])
           /\ [r EXCEPT !.local[ip] = m].ports = r.ports
<1> DEFINE s == [r EXCEPT !.local[ip] = m]
<1>1. s \in RelayState
  BY DEF Good, RelayState, ArpTableMap
<1>2. Same(r, s) /\ s.ports = r.ports /\ s.neighbors = r.neighbors
  BY SMTT(30) DEF Same, Good, RelayState
<1> HIDE DEF s
<1>3. Good(s)
  BY <1>1, <1>2 DEF Good, Same, Found, Members, Guarded
<1> QED  BY <1>2, <1>3 DEF s

\* Nor is packet_ctx.mac.
LEMMA MacKeeps ==
    ASSUME NEW r, Good(r), NEW m \in MAC
    PROVE  /\ Good([r EXCEPT !.mac = m]) /\ Same(r, [r EXCEPT !.mac = m])
           /\ [r EXCEPT !.mac = m].ports = r.ports
<1> DEFINE s == [r EXCEPT !.mac = m]
<1>1. s \in RelayState
  BY DEF Good, RelayState
<1>2. Same(r, s) /\ s.ports = r.ports /\ s.neighbors = r.neighbors
  BY SMTT(30) DEF Same, Good, RelayState
<1> HIDE DEF s
<1>3. Good(s)
  BY <1>1, <1>2 DEF Good, Same, Found, Members, Guarded
<1> QED  BY <1>2, <1>3 DEF s

\* The ports that a reservation leaves.
LEMMA PortsKeep ==
    ASSUME NEW r, Good(r), NEW port \in Port \cup {0},
           NEW g \in native_udp_guard_reserve(r.ports, port)
    PROVE  /\ Good([r EXCEPT !.ports = g.ports]) /\ Same(r, [r EXCEPT !.ports = g.ports])
           /\ [r EXCEPT !.ports = g.ports].ports = g.ports
           /\ g.ok => port \in g.ports
<1>1. r.ports \subseteq Port
  BY SMTT(30) DEF Good, RelayState
<1>2. /\ \/ g.ports = r.ports
         \/ /\ Cardinality(r.ports) < MAX_UDP_PORTS /\ port \notin r.ports /\ port # 0
            /\ g.ports = r.ports \cup {port}
      /\ g.ok => port \in g.ports
  <2>1. IsFiniteSet(r.ports) => Cardinality(r.ports) \in Nat
    BY FS_CardinalityType
  <2> QED  BY <2>1, NetAssumption DEF native_udp_guard_reserve, Good, Guarded
<1>3. g.ports \subseteq Port
  BY <1>1, <1>2
<1>4. IsFiniteSet(g.ports) /\ Cardinality(g.ports) <= MAX_UDP_PORTS
  <2>1. CASE g.ports = r.ports
    BY <2>1 DEF Good, Guarded
  <2>2. CASE g.ports # r.ports
    <3>1. /\ Cardinality(r.ports) < MAX_UDP_PORTS /\ port \notin r.ports
          /\ g.ports = r.ports \cup {port}
      BY <1>2, <2>2
    <3>2. IsFiniteSet(r.ports) /\ Cardinality(r.ports) \in Nat
      BY FS_CardinalityType DEF Good, Guarded
    <3>3. IsFiniteSet(g.ports) /\ Cardinality(g.ports) = Cardinality(r.ports) + 1
      BY <3>1, <3>2, FS_AddElement
    <3> QED  BY <3>1, <3>2, <3>3, NetAssumption
  <2> QED  BY <2>1, <2>2
<1> DEFINE s == [r EXCEPT !.ports = g.ports]
<1>5. s \in RelayState
  BY <1>3 DEF Good, RelayState
<1>6. Same(r, s) /\ s.ports = g.ports /\ s.neighbors = r.neighbors
  BY DEF Same, Good, RelayState
<1> HIDE DEF s
<1>7. Good(s)
  BY <1>4, <1>5, <1>6 DEF Good, Same, Found, Members, Guarded
<1> QED  BY <1>2, <1>6, <1>7 DEF s

\* A callback that leaves discovery alone leaves the console pinned.
LEMMA SamePinned ==
    ASSUME NEW r, NEW s, Same(r, s)
    PROVE  Pinned(r, s)
BY SMTT(30) DEF Same, Pinned

\* A candidate becomes the console, confirms it, or is ignored.  The probe of a
\* console that was just found has not been sent.
LEMMA Learns ==
    ASSUME NEW r, Good(r), NEW f \in Frame, SwitchCandidate(c, r, f)
    PROVE  LET l == learn_local_switch(c, r, f)
           IN  /\ Good(l.state) /\ Pinned(r, l.state)
               /\ l.state.switch_seen /\ l.state.switch_ip = f.pkt.sip
               /\ \A t \in l.tx : t \in Transmission /\ t.on = "wifi"
<1> DEFINE ip == f.pkt.sip
           known == [r EXCEPT !.switch_ip = ip, !.switch_mac = f.src,
                              !.switch_seen = TRUE,
                              !.switch_mac_confirmed = @ \/ Direct(f)]
           fresh == [known EXCEPT !.local[ip] = f.src, !.switch_dhcp = IsDhcpIp(c, ip)]
           l == learn_local_switch(c, r, f)
<1>1. f.src \in MAC /\ ip \in IPv4
  BY FrameType
<1>2. /\ r.switch_seen => ip = r.switch_ip
      /\ ip # zerotier_broadcast_ip
      /\ IsDhcpIp(c, ip) => f.src \in NintendoMacs
  BY DEF SwitchCandidate
<1>3. /\ known \in RelayState /\ known.neighbors = r.neighbors /\ known.ports = r.ports
      /\ known.switch_seen /\ known.switch_ip = ip /\ known.switch_mac = f.src
      /\ known.switch_mac_confirmed <=> r.switch_mac_confirmed \/ Direct(f)
      /\ known.switch_dhcp = r.switch_dhcp
      /\ known.probe_sent = r.probe_sent /\ known.probe_replied = r.probe_replied
      /\ known.probe_ip = r.probe_ip /\ known.probe_mac = r.probe_mac
  BY <1>1, Zenon DEF Good, RelayState
<1> HIDE DEF known
<1>4. /\ fresh \in RelayState /\ fresh.neighbors = r.neighbors /\ fresh.ports = r.ports
      /\ fresh.switch_seen /\ fresh.switch_ip = ip /\ fresh.switch_mac = f.src
      /\ fresh.switch_mac_confirmed <=> r.switch_mac_confirmed \/ Direct(f)
      /\ fresh.switch_dhcp <=> IsDhcpIp(c, ip)
      /\ fresh.probe_sent = r.probe_sent /\ fresh.probe_replied = r.probe_replied
      /\ fresh.probe_ip = r.probe_ip /\ fresh.probe_mac = r.probe_mac
  <2> DEFINE d == IsDhcpIp(c, ip)
  <2>1. d \in BOOLEAN /\ (d <=> IsDhcpIp(c, ip))
    BY DEF IsDhcpIp
  <2> HIDE DEF d
  <2>2. fresh = [known EXCEPT !.local = [@ EXCEPT ![ip] = f.src], !.switch_dhcp = d]
    BY DEF d
  <2> HIDE DEF fresh
  <2>3. [known.local EXCEPT ![ip] = f.src] \in ArpTableMap
    BY <1>1, <1>3 DEF RelayState, ArpTableMap
  <2> QED  BY <1>3, <2>1, <2>2, <2>3, Zenon DEF RelayState
<1>5. l = IF Conflict(r, f) THEN Silent(r)
          ELSE IF Changed(r, f) THEN probe_wifi_delivery(c, fresh) ELSE Silent(known)
  BY DEF learn_local_switch, known
<1> HIDE DEF fresh
<1>6. CASE Conflict(r, f)
  <2>1. l.state = r /\ l.tx = {} /\ r.switch_seen
    BY <1>5, <1>6 DEF Silent, Outcome, Conflict
  <2> QED  BY <1>2, <2>1, SMTT(30) DEF Pinned
<1>7. CASE ~ Conflict(r, f) /\ ~ Changed(r, f)
  <2>1. l.state = known /\ l.tx = {} /\ r.switch_seen /\ f.src = r.switch_mac
    BY <1>5, <1>7, SMTT(30) DEF Silent, Outcome, Changed
  <2>2. Good(known)
    BY <1>1, <1>2, <1>3, <2>1 DEF Good, Found, Members, Guarded
  <2>3. Pinned(r, known)
    BY <1>2, <1>3, <2>1, SMTT(30) DEF Pinned
  <2> QED  BY <1>3, <2>1, <2>2, <2>3, SMTT(30)
<1>8. CASE ~ Conflict(r, f) /\ Changed(r, f)
  <2>1. l = probe_wifi_delivery(c, fresh)
    BY <1>5, <1>8
  <2>2. r.switch_seen => ~ r.switch_mac_confirmed /\ Direct(f)
    BY <1>8, SMTT(30) DEF Conflict
  <2>3. CASE fresh.probe_sent
    <3>1. l.state = fresh /\ l.tx = {} /\ r.switch_seen
      BY <1>4, <2>1, <2>3, SMTT(30) DEF probe_wifi_delivery, Silent, Outcome, Good, Found
    <3>2. Good(fresh)
      BY <1>1, <1>2, <1>4, <3>1, SMTT(30) DEF Good, Found, Members, Guarded
    <3>3. Pinned(r, fresh)
      BY <1>2, <1>4, <2>2, SMTT(30) DEF Pinned
    <3> QED  BY <1>4, <3>1, <3>2, <3>3
  <2>4. CASE ~ fresh.probe_sent
    <3> DEFINE s == [fresh EXCEPT !.probe_sent = TRUE, !.probe_ip = fresh.switch_ip,
                                  !.probe_mac = fresh.switch_mac]
               pkt == [type |-> "ipv4", sip |-> ProbeSource(c, fresh), dip |-> fresh.switch_ip,
                       p |-> [proto |-> "echo", frag |-> "whole", sport |-> 0,
                              game |-> FALSE, size |-> "mtu"]]
    <3>1. l = Outcome(s, {OnWifi(c, fresh.switch_mac, pkt)})
      BY <2>1, <2>4 DEF probe_wifi_delivery
    <3>2. /\ s \in RelayState /\ s.neighbors = r.neighbors /\ s.ports = r.ports
          /\ s.switch_seen /\ s.switch_ip = ip /\ s.switch_mac = f.src
          /\ s.switch_dhcp <=> IsDhcpIp(c, ip)
          /\ s.probe_sent /\ s.probe_replied = r.probe_replied
          /\ s.probe_ip = ip /\ s.probe_mac = f.src
      BY <1>1, <1>4, Zenon DEF RelayState
    <3>3. pkt \in Packet
      <4>1. ProbeSource(c, fresh) \in IPv4
        BY ConfigType DEF ProbeSource
      <4> QED  BY <1>1, <1>4, <4>1 DEF Packet, Ipv4Packet, Payload
    <3> HIDE DEF s, pkt
    <3>4. ~ r.switch_seen
      BY <1>4, <2>4 DEF Good, Found
    <3>5. Good(s)
      BY <1>1, <1>2, <3>2 DEF Good, Found, Members, Guarded
    <3>6. l.state = s /\ l.tx = {OnWifi(c, fresh.switch_mac, pkt)}
      BY <3>1, SMTT(30) DEF Outcome
    <3>7. fresh.switch_mac \in MAC
      BY <1>1, <1>4
    <3> DEFINE mac == fresh.switch_mac
               sent == OnWifi(c, mac, pkt)
    <3>8. sent \in Transmission /\ sent.on = "wifi" /\ sent.frame.pkt = pkt /\ sent.frame.dst = mac
      <4> mac \in MAC
        BY <3>7
      <4> HIDE DEF mac
      <4> QED  BY <3>3, OnWifiType
    <3>9. Pinned(r, s)
      BY <3>4 DEF Pinned
    <3>10. l.tx = {sent}
      BY <3>6
    <3> HIDE DEF sent
    <3> QED  BY <1>1, <1>4, <3>2, <3>5, <3>6, <3>8, <3>9, <3>10
  <2> QED  BY <2>3, <2>4
<1> QED  BY <1>6, <1>7, <1>8

\* A datagram of the console on the overlay, as OverlaySound has it; s is the
\* state after the callback.
Carries(t, s) ==
    t.on = "zerotier" /\ t.frame.pkt.type = "ipv4" =>
        /\ t.frame.pkt.sip = c.zerotier_ip
        /\ HasUdpHeader(t.frame.pkt.p) => t.frame.pkt.p.sport \in s.ports
        /\ ~ (t.frame.pkt.p.proto = "unreachable" /\ t.frame.pkt.p.frag = "whole")

\* The native path of a console's datagram: translated, from a held port.
LEMMA RelaysWifi ==
    ASSUME NEW r, Good(r), NEW pkt \in Ipv4Packet, NEW o \in lan_play_relay_wifi_ipv4(c, r, pkt)
    PROVE  /\ Good(o.state) /\ Same(r, o.state)
           /\ \A t \in o.tx : /\ t \in Transmission /\ Truthful(t)
                              /\ Carries(t, o.state)
<1> DEFINE dst == IF is_nintendo_lan_broadcast(pkt.dip) THEN zerotier_broadcast_ip ELSE pkt.dip
           translated == [pkt EXCEPT !.sip = c.zerotier_ip, !.dip = dst]
           tx == IF dst = zerotier_broadcast_ip
                 THEN send_zerotier_ipv4_broadcast(c, translated)
                 ELSE send_zerotier_ipv4(c, r, translated)
           error == pkt.p.proto = "unreachable" /\ pkt.p.frag = "whole"
<1>1. dst \in IPv4 /\ pkt.p.sport \in Port \cup {0}
  BY ConfigType DEF Ipv4Packet, Payload
<1> HIDE DEF dst
<1>2. /\ translated \in Ipv4Packet /\ translated.sip = c.zerotier_ip
      /\ translated.p = pkt.p /\ translated.type = "ipv4"
  <2>1. c.zerotier_ip \in IPv4
    BY ConfigType
  <2> QED  BY <1>1, <2>1, Zenon DEF Ipv4Packet
<1> HIDE DEF translated
<1>3. \A t \in tx : /\ t \in Transmission /\ Truthful(t) /\ t.on = "zerotier"
                    /\ t.frame.pkt.type = "ipv4" => t.frame.pkt = translated
  BY <1>2, SendZeroTier, SendZeroTierBroadcast DEF Good
<1> HIDE DEF tx
<1>4. \/ error /\ o = Silent(r)
      \/ ~ error /\ ~ HasUdpHeader(pkt.p) /\ o = Outcome(r, tx)
      \/ /\ ~ error
         /\ \E g \in native_udp_guard_reserve(r.ports, pkt.p.sport) :
               o = Outcome([r EXCEPT !.ports = g.ports], IF g.ok THEN tx ELSE {})
  BY DEF lan_play_relay_wifi_ipv4, dst, translated, tx
<1>5. CASE error /\ o = Silent(r)
  BY <1>5, SMTT(30) DEF Silent, Outcome, Same
<1>6. CASE ~ error /\ ~ HasUdpHeader(pkt.p) /\ o = Outcome(r, tx)
  <2>1. o.state = r /\ o.tx = tx
    BY <1>6 DEF Outcome
  <2> QED  BY <1>2, <1>3, <1>6, <2>1, SMTT(30) DEF Carries, Same
<1>7. ASSUME ~ error, NEW g \in native_udp_guard_reserve(r.ports, pkt.p.sport),
             o = Outcome([r EXCEPT !.ports = g.ports], IF g.ok THEN tx ELSE {})
      PROVE  /\ Good(o.state) /\ Same(r, o.state)
             /\ \A t \in o.tx : t \in Transmission /\ Truthful(t) /\ Carries(t, o.state)
  <2>1. o.state = [r EXCEPT !.ports = g.ports] /\ o.tx = IF g.ok THEN tx ELSE {}
    BY <1>7 DEF Outcome
  <2>2. Good(o.state) /\ Same(r, o.state) /\ (g.ok => pkt.p.sport \in o.state.ports)
    BY <1>1, <2>1, PortsKeep, SMTT(30)
  <2> QED  BY <1>2, <1>3, <1>7, <2>1, <2>2 DEF Carries
<1> QED  BY <1>4, <1>5, <1>6, <1>7, Zenon

-----------------------------------------------------------------------------
(* The callbacks.                                                          *)

\* get_packet leaves an entry in the local table and transmits what
\* process_arp or process_ipv4 does.
LEMMA GetPacket ==
    ASSUME NEW r, Good(r), NEW f \in Frame, NEW zt \in BOOLEAN
    PROVE  LET o == get_packet(c, r, f, zt)
           IN  /\ Good(o.state) /\ Same(r, o.state)
               /\ \A t \in o.tx :
                     /\ t \in Transmission /\ Truthful(t)
                     /\ t.frame.pkt.type = "ipv4" /\ t.on = "wifi" =>
                            /\ f.pkt.type = "ipv4"
                            /\ t.frame.pkt = f.pkt \/ t.frame.pkt.sip = c.gateway_ip
                     /\ t.frame.pkt.type = "ipv4" /\ t.on = "zerotier" =>
                            /\ f.pkt.type = "ipv4" /\ f.pkt.p.size = "mtu"
                            /\ is_nintendo_lan_broadcast(f.pkt.dip) \/ f.pkt.dip \in game_subnet
<1> DEFINE o == get_packet(c, r, f, zt)
<1>1. f.src \in MAC /\ f.pkt.sip \in IPv4 /\ f.pkt.type \in {"arp", "ipv4"}
  BY FrameType
<1>2. r \in RelayState
  BY SMTT(30) DEF Good
<1>3. CASE f.pkt.type = "arp"
  <2>1. f.pkt \in ArpPacket /\ f.pkt.smac \in MAC
    BY <1>3, FrameType DEF ArpPacket
  <2>2. o.state = [r EXCEPT !.local[f.pkt.sip] = f.pkt.smac]
    BY <1>3 DEF get_packet, process_arp, Outcome
  <2>3. o.tx = process_arp(c, r, f.pkt, zt).tx
    BY <1>3 DEF get_packet
  <2>4. f.pkt.smac \in MAC \cup {ZERO_MAC}
    BY <2>1
  <2> DEFINE s == [r EXCEPT !.local[f.pkt.sip] = f.pkt.smac]
  <2>5. Good(s) /\ Same(r, s)
    BY <1>1, <2>4, LocalKeeps
  <2>6. o.state = s
    BY <2>2, SMTT(30)
  <2> HIDE DEF o, s
  <2> QED  BY <1>2, <2>1, <2>3, <2>5, <2>6, ProcessArp, SMTT(30) DEF o
<1>4. CASE f.pkt.type = "ipv4"
  <2>2. o.state = [r EXCEPT !.local[f.pkt.sip] = f.src]
    BY <1>4 DEF get_packet, process_ipv4, Outcome
  <2>3. o.tx = process_ipv4(c, r, f, zt).tx
    BY <1>4 DEF get_packet
  <2>4. f.src \in MAC \cup {ZERO_MAC}
    BY <1>1
  <2> DEFINE s == [r EXCEPT !.local[f.pkt.sip] = f.src]
  <2>5. Good(s) /\ Same(r, s)
    BY <1>1, <2>4, LocalKeeps
  <2>6. o.state = s
    BY <2>2
  <2> HIDE DEF o, s
  <2> QED  BY <1>2, <1>4, <2>3, <2>5, <2>6, ProcessIpv4 DEF o
<1> QED  BY <1>1, <1>3, <1>4, SMTT(30)

\* The Wi-Fi callback.  A candidate is the console, so what lan_play_relay_wifi_ipv4
\* leaves to get_packet is too long for the overlay or not destined to it.
LEMMA WifiHandler ==
    ASSUME NEW r, Good(r), NEW f \in Frame, NEW o \in lan_play_pcap_handler(c, r, f)
    PROVE  /\ Good(o.state) /\ Pinned(r, o.state)
           /\ \A t \in o.tx :
                 /\ t \in Transmission /\ Truthful(t)
                 /\ game_subnet \subseteq zerotier_subnet => Carries(t, o.state)
<1> DEFINE Goal == /\ Good(o.state) /\ Pinned(r, o.state)
                   /\ \A t \in o.tx :
                         /\ t \in Transmission /\ Truthful(t)
                         /\ game_subnet \subseteq zerotier_subnet => Carries(t, o.state)
           l == learn_local_switch(c, r, f)
           s == [l.state EXCEPT !.mac = c.wifi_mac]
           native == f.pkt.type = "ipv4" /\ HandledFromWifi(s, f.pkt)
<1>1. \/ o = Silent(r)
      \/ consume_wifi_delivery_reply(c, r, f) /\ o = Silent([r EXCEPT !.probe_replied = TRUE])
      \/ /\ SwitchCandidate(c, r, f)
         /\ \E h \in IF native THEN lan_play_relay_wifi_ipv4(c, s, f.pkt)
                               ELSE {get_packet(c, s, f, FALSE)} :
               o = Outcome(h.state, l.tx \cup h.tx)
  BY Zenon DEF lan_play_pcap_handler
<1>2. CASE o = Silent(r)
  BY <1>2 DEF Silent, Outcome, Pinned
<1>3. CASE consume_wifi_delivery_reply(c, r, f) /\ o = Silent([r EXCEPT !.probe_replied = TRUE])
  <2> DEFINE q == [r EXCEPT !.probe_replied = TRUE]
  <2>1. r.probe_sent /\ o.state = q /\ o.tx = {}
    BY <1>3 DEF Silent, Outcome, consume_wifi_delivery_reply
  <2>2. /\ q \in RelayState /\ q.neighbors = r.neighbors /\ q.ports = r.ports
        /\ q.switch_seen = r.switch_seen /\ q.switch_ip = r.switch_ip
        /\ q.switch_mac = r.switch_mac /\ q.switch_mac_confirmed = r.switch_mac_confirmed
        /\ q.switch_dhcp = r.switch_dhcp
        /\ q.probe_sent = r.probe_sent /\ q.probe_replied
        /\ q.probe_ip = r.probe_ip /\ q.probe_mac = r.probe_mac
    BY Zenon DEF Good, RelayState
  <2> HIDE DEF q
  <2>3. Good(q) /\ Pinned(r, q)
    BY <2>1, <2>2, ZenonT(60) DEF Good, Found, Members, Guarded, Pinned
  <2> QED  BY <2>1, <2>3
<1>4. ASSUME SwitchCandidate(c, r, f),
             NEW h \in IF native THEN lan_play_relay_wifi_ipv4(c, s, f.pkt)
                                 ELSE {get_packet(c, s, f, FALSE)},
             o = Outcome(h.state, l.tx \cup h.tx)
      PROVE  Goal
  <2>1. /\ Good(l.state) /\ Pinned(r, l.state)
        /\ l.state.switch_seen /\ l.state.switch_ip = f.pkt.sip
        /\ \A t \in l.tx : t \in Transmission /\ t.on = "wifi"
    BY <1>4, Learns
  <2> HIDE DEF l
  <2>2. Good(s) /\ Same(l.state, s)
    BY <2>1, MacKeeps, ConfigType, Zenon
  <2>3. s.switch_seen /\ s.switch_ip = f.pkt.sip
    BY <2>1, <2>2, SMTT(30) DEF Same
  <2> HIDE DEF s
  <2>4. /\ Good(h.state) /\ Same(s, h.state)
        /\ \A t \in h.tx :
              /\ t \in Transmission /\ Truthful(t)
              /\ game_subnet \subseteq zerotier_subnet => Carries(t, h.state)
    <3>1. CASE native
      <4>1. h \in lan_play_relay_wifi_ipv4(c, s, f.pkt) /\ f.pkt \in Ipv4Packet
        BY <3>1, FrameType, SMTT(30)
      <4> QED  BY <2>2, <4>1, RelaysWifi, SMTT(30)
    <3>2. CASE ~ native
      <4>1. h = get_packet(c, s, f, FALSE)
        BY <3>2, ZenonT(60)
      <4>2. f.pkt.type = "ipv4" /\ f.pkt.p.size = "mtu" =>
                ~ is_nintendo_lan_broadcast(f.pkt.dip) /\ ~ is_zerotier_destination(f.pkt.dip)
        BY <2>3, <3>2 DEF HandledFromWifi
      <4> HIDE DEF native
      <4>3. ASSUME NEW t \in h.tx, game_subnet \subseteq zerotier_subnet
            PROVE  Carries(t, h.state)
        <5>1. ~ (t.frame.pkt.type = "ipv4" /\ t.on = "zerotier")
          BY <2>2, <4>1, <4>2, <4>3, GetPacket, Zenon DEF is_zerotier_destination
        <5> QED  BY <5>1, SMTT(30) DEF Carries
      <4> QED  BY <2>2, <4>1, <4>3, GetPacket, Zenon
    <3> QED  BY <3>1, <3>2, SMTT(30)
  <2>5. o.state = h.state /\ o.tx = l.tx \cup h.tx
    BY <1>4 DEF Outcome
  <2>6. Pinned(r, o.state)
    BY <2>1, <2>2, <2>4, <2>5, ZenonT(60) DEF Pinned, Same
  <2>7. ASSUME NEW t \in l.tx
        PROVE  t \in Transmission /\ Truthful(t) /\ Carries(t, o.state)
    BY <2>1 DEF Truthful, Carries
  <2> QED  BY <2>4, <2>5, <2>6, <2>7
<1> HIDE DEF Goal, native, s, l
<1> QED  BY <1>1, <1>2, <1>3, <1>4, Zenon DEF Goal

\* ReturnPath of a transmission t; s is the state after the callback.
Returns(t, s) ==
    s.switch_seen /\ t.on = "wifi" /\ t.frame.pkt.type = "ipv4" =>
        (/\ t.frame.pkt.dip = s.switch_ip
         /\ t.frame.pkt.sip # c.gateway_ip
         /\ t.frame.pkt.p.size = "mtu"
         => t.frame.dst = s.switch_mac)

\* What neighbour learning writes keeps the overlay table.
LEMMA NeighborKeeps ==
    ASSUME NEW r, Good(r), NEW f \in Frame, f.src # c.zerotier_mac
    PROVE  LET s == [r EXCEPT !.neighbors[f.pkt.sip] = IF IsNeighbor(c, f) THEN f.src ELSE @,
                              !.mac = c.zerotier_mac]
           IN  Good(s) /\ Same(r, s)
<1> DEFINE m == IF IsNeighbor(c, f) THEN f.src ELSE r.neighbors[f.pkt.sip]
           n == [r.neighbors EXCEPT ![f.pkt.sip] = m]
           s == [r EXCEPT !.neighbors = n, !.mac = c.zerotier_mac]
<1>1. f.src \in MAC /\ f.pkt.sip \in IPv4 /\ c.zerotier_mac \in MAC
  BY FrameType, ConfigType
<1>2. r.neighbors \in [IPv4 -> MAC \cup {ZERO_MAC}]
  BY DEF Good, RelayState, ArpTableMap
<1>3. /\ m \in MAC \cup {ZERO_MAC}
      /\ m # ZERO_MAC =>
            /\ is_zerotier_destination(f.pkt.sip)
            /\ f.pkt.sip \notin {c.zerotier_ip, zerotier_broadcast_ip}
            /\ m \notin GroupMacs \cup {c.zerotier_mac}
  <2>1. CASE IsNeighbor(c, f)
    BY <1>1, <2>1, SMTT(30) DEF IsNeighbor
  <2>2. CASE ~ IsNeighbor(c, f)
    BY <1>1, <1>2, <2>2, SMTT(30) DEF Good, Members
  <2> QED  BY <2>1, <2>2, SMTT(30)
<1> HIDE DEF m
<1>4. /\ n \in ArpTableMap
      /\ n[f.pkt.sip] = m
      /\ \A ip \in IPv4 : ip # f.pkt.sip => n[ip] = r.neighbors[ip]
  BY <1>1, <1>2, <1>3 DEF ArpTableMap
<1> HIDE DEF n
<1>5. s \in RelayState /\ s.neighbors = n /\ s.ports = r.ports /\ Same(r, s)
  BY <1>1, <1>4, ZenonT(60) DEF Good, RelayState, Same
<1>6. [r EXCEPT !.neighbors[f.pkt.sip] = IF IsNeighbor(c, f) THEN f.src ELSE @,
                !.mac = c.zerotier_mac] = s
  BY DEF m, n
<1> HIDE DEF s
<1>7. Members(s)
  BY <1>3, <1>4, <1>5 DEF Good, Members
<1>8. Good(s)
  BY <1>5, <1>7 DEF Good, Found, Guarded, Same
<1> QED  BY <1>5, <1>6, <1>8

\* The overlay callback.  The probe was sent when the console was found, so the
\* call of probe_wifi_delivery here transmits nothing.
LEMMA ZeroTierHandler ==
    ASSUME NEW r, Good(r), NEW f \in Frame,
           NEW o \in lan_play_zerotier_pcap_handler(c, r, f)
    PROVE  /\ Good(o.state) /\ Pinned(r, o.state)
           /\ \A t \in o.tx : t \in Transmission /\ Truthful(t) /\ Returns(t, o.state)
<1> DEFINE s == [r EXCEPT !.neighbors[f.pkt.sip] = IF IsNeighbor(c, f) THEN f.src ELSE @,
                          !.mac = c.zerotier_mac]
           native == f.pkt.type = "ipv4" /\ HandledFromZeroTier(c, s, f.pkt)
<1>1. \/ o = Silent(r)
      \/ /\ f.src # c.zerotier_mac
         /\ o = IF native THEN lan_play_relay_zerotier_ipv4(c, s, f.pkt)
                          ELSE get_packet(c, s, f, TRUE)
  BY Zenon DEF lan_play_zerotier_pcap_handler
<1>2. CASE o = Silent(r)
  BY <1>2 DEF Silent, Outcome, Pinned
<1>3. f.src # c.zerotier_mac => Good(s) /\ Same(r, s)
  BY NeighborKeeps, ZenonT(60)
<1> HIDE DEF s
<1>4. CASE f.src # c.zerotier_mac /\ native /\ o = lan_play_relay_zerotier_ipv4(c, s, f.pkt)
  <2> DEFINE d == [f.pkt EXCEPT !.dip = s.switch_ip]
             sent == IF f.pkt.dip = zerotier_broadcast_ip THEN OnWifi(c, BROADCAST_MAC, f.pkt)
                     ELSE OnWifi(c, s.switch_mac, d)
  <2>1. /\ Good(s) /\ Same(r, s) /\ s.switch_seen /\ s.probe_sent
        /\ s.switch_mac \in MAC /\ s.switch_ip \in IPv4
        /\ s.switch_ip # zerotier_broadcast_ip
    BY <1>3, <1>4, Zenon DEF HandledFromZeroTier, Good, Found, RelayState
  <2>2. f.pkt \in Ipv4Packet /\ d \in Ipv4Packet /\ d \in Packet /\ f.pkt \in Packet
    BY <1>4, <2>1, FrameType DEF Ipv4Packet, Packet
  <2> HIDE DEF d
  <2>3. o.state = s /\ o.tx = {sent}
    BY <1>4, <2>1, SMTT(30) DEF lan_play_relay_zerotier_ipv4, probe_wifi_delivery, Silent, Outcome, d
  <2>4. /\ sent \in Transmission /\ sent.on = "wifi"
        /\ \/ sent.frame.pkt = f.pkt /\ f.pkt.dip = zerotier_broadcast_ip
           \/ sent.frame.dst = s.switch_mac
    <3>1. CASE f.pkt.dip = zerotier_broadcast_ip
      <4>1. sent = OnWifi(c, BROADCAST_MAC, f.pkt)
        BY <3>1
      <4>2. BROADCAST_MAC \in MAC
        BY ConfigType, SMTT(30)
      <4> HIDE DEF sent, native
      <4> QED  BY <2>2, <3>1, <4>1, <4>2, OnWifiType
    <3>2. CASE f.pkt.dip # zerotier_broadcast_ip
      <4>1. sent = OnWifi(c, s.switch_mac, d)
        BY <3>2, SMTT(30)
      <4> HIDE DEF sent, native
      <4> QED  BY <2>1, <2>2, <4>1, OnWifiType
    <3> QED  BY <3>1, <3>2, ZenonT(60)
  <2> HIDE DEF sent
  <2> QED  BY <2>1, <2>3, <2>4, SamePinned, SMTT(30) DEF Truthful, Returns
<1>5. CASE f.src # c.zerotier_mac /\ ~ native /\ o = get_packet(c, s, f, TRUE)
  <2>1. f.pkt.type = "ipv4" /\ f.pkt.p.size = "mtu" /\ s.switch_seen => f.pkt.dip # s.switch_ip
    BY <1>5, SMTT(30) DEF HandledFromZeroTier
  <2>2. /\ Good(s) /\ Same(r, s) /\ Good(o.state) /\ Same(s, o.state)
        /\ \A t \in o.tx :
              /\ t \in Transmission /\ Truthful(t)
              /\ t.frame.pkt.type = "ipv4" /\ t.on = "wifi" =>
                     /\ f.pkt.type = "ipv4"
                     /\ t.frame.pkt = f.pkt \/ t.frame.pkt.sip = c.gateway_ip
    BY <1>3, <1>5, GetPacket, Zenon
  <2>3. Pinned(r, o.state)
    BY <2>2 DEF Same, Pinned
  <2>4. ASSUME NEW t \in o.tx
        PROVE  Returns(t, o.state)
    BY <2>1, <2>2 DEF Returns, Same
  <2> QED  BY <2>2, <2>3, <2>4, SMTT(30)
<1> HIDE DEF native
<1> QED  BY <1>1, <1>2, <1>4, <1>5, Zenon

-----------------------------------------------------------------------------
(* Steps and theorems.                                                     *)

\* What the last callback transmitted.
Sent ==
    /\ out.from \in {"start", "wifi", "zerotier", "gateway", "expiry"}
    /\ \A t \in out.tx :
          /\ t \in Transmission /\ Truthful(t)
          /\ out.from = "wifi" /\ game_subnet \subseteq zerotier_subnet => Carries(t, relay)
          /\ out.from = "zerotier" => Returns(t, relay)

IInv == Good(relay) /\ served \subseteq IPv4 /\ Sent

\* lan_play_init.
LEMMA InitGood ==
    Init => IInv
<1> SUFFICES ASSUME Init PROVE IInv
  BY SMTT(30)
<1>1. /\ relay.switch_seen = FALSE /\ relay.probe_sent = FALSE /\ relay.probe_replied = FALSE
      /\ relay.neighbors = [ip \in IPv4 |-> ZERO_MAC] /\ relay.ports = GamePorts
  BY SMTT(30) DEF Init, lan_play_init
<1>2. relay \in RelayState
  BY ConfigType, NetAssumption, SMTT(30) DEF Init, lan_play_init, RelayState, ArpTableMap
<1>3. Found(relay) /\ Members(relay) /\ Guarded(relay)
  BY <1>1, NetAssumption, Zenon DEF Found, Members, Guarded
<1> QED  BY <1>2, <1>3 DEF Init, IInv, Good, Sent

\* The hosts served are sources of captured datagrams.
LEMMA Applied ==
    ASSUME NEW from, NEW o, served \subseteq IPv4, \A t \in o.tx : t \in Transmission,
           Apply(from, o)
    PROVE  /\ served' \subseteq IPv4 /\ relay' = o.state
           /\ out'.from = from /\ out'.tx = o.tx
<1>1. \A t \in o.tx : t.frame.pkt.sip \in IPv4
  BY FrameType DEF Transmission
<1> QED  BY <1>1 DEF Apply

\* Every callback keeps the invariant and the console.
LEMMA StepGood ==
    IInv /\ [Next]_vars => IInv' /\ Pinned(relay, relay')
<1> SUFFICES ASSUME IInv, [Next]_vars PROVE IInv' /\ Pinned(relay, relay')
  OBVIOUS
<1>1. Good(relay) /\ served \subseteq IPv4
  BY SMTT(30) DEF IInv
<1>2. ASSUME NEW f \in WifiFrames, WifiFrame(f)
      PROVE  IInv' /\ Pinned(relay, relay')
  <2>1. f \in Frame
    BY RelayAssumption
  <2>2. PICK o \in lan_play_pcap_handler(c, relay, f) : Apply("wifi", o)
    BY <1>2, SMTT(30) DEF WifiFrame, c
  <2>3. /\ Good(o.state) /\ Pinned(relay, o.state)
        /\ \A t \in o.tx :
              /\ t \in Transmission /\ Truthful(t)
              /\ game_subnet \subseteq zerotier_subnet => Carries(t, o.state)
    BY <1>1, <2>1, WifiHandler, SMTT(30)
  <2>4. served' \subseteq IPv4 /\ relay' = o.state /\ out'.from = "wifi" /\ out'.tx = o.tx
    BY <1>1, <2>2, <2>3, Applied, SMTT(30)
  <2>5. Good(relay')
    BY <2>3, <2>4, SMTT(30)
  <2>6. Sent'
    BY <2>3, <2>4, SMTT(30) DEF Sent
  <2> QED  BY <2>3, <2>4, <2>5, <2>6 DEF IInv
<1>3. ASSUME NEW f \in ZeroTierFrames, ZeroTierFrame(f)
      PROVE  IInv' /\ Pinned(relay, relay')
  <2>1. f \in Frame
    BY RelayAssumption
  <2>2. PICK o \in lan_play_zerotier_pcap_handler(c, relay, f) : Apply("zerotier", o)
    BY <1>3, SMTT(30) DEF ZeroTierFrame, c
  <2>3. /\ Good(o.state) /\ Pinned(relay, o.state)
        /\ \A t \in o.tx : t \in Transmission /\ Truthful(t) /\ Returns(t, o.state)
    BY <1>1, <2>1, ZeroTierHandler, SMTT(30)
  <2>4. served' \subseteq IPv4 /\ relay' = o.state /\ out'.from = "zerotier" /\ out'.tx = o.tx
    BY <1>1, <2>2, <2>3, Applied, SMTT(30)
  <2>5. Good(relay')
    BY <2>3, <2>4, SMTT(30)
  <2>6. Sent'
    BY <2>3, <2>4, SMTT(30) DEF Sent
  <2> QED  BY <2>3, <2>4, <2>5, <2>6 DEF IInv
<1>4. ASSUME NEW ip \in IPv4, NEW remote \in Remotes, GatewaySend(ip, remote)
      PROVE  IInv' /\ Pinned(relay, relay')
  <2> DEFINE pkt == [type |-> "ipv4", sip |-> remote, dip |-> ip,
                     p |-> [proto |-> "tcp", frag |-> "whole", sport |-> 0,
                            game |-> FALSE, size |-> "mtu"]]
             o == gateway_send_packet(c, relay, pkt)
  <2>1. pkt \in Ipv4Packet
    BY <1>4, SMTT(30) DEF Remotes, Ipv4Packet, Payload
  <2>2. Apply("gateway", o)
    BY <1>4 DEF GatewaySend, c
  <2> HIDE DEF pkt
  <2>3. o.state = relay /\ o.tx = SendToLocal(c, relay, pkt)
    BY SMTT(30) DEF gateway_send_packet, Outcome
  <2>4. \A t \in o.tx : t \in Transmission /\ Truthful(t)
    BY <1>1, <2>1, <2>3, SendsToLocal, SMTT(30) DEF Good, Truthful
  <2> HIDE DEF o
  <2>5. served' \subseteq IPv4 /\ relay' = relay /\ out'.from = "gateway" /\ out'.tx = o.tx
    BY <1>1, <2>2, <2>3, <2>4, Applied, SMTT(30)
  <2>6. Sent'
    BY <2>4, <2>5 DEF Sent
  <2> QED  BY <1>1, <2>5, <2>6, SMTT(30) DEF IInv, Pinned
<1>5. ASSUME NEW ip \in IPv4, ArpExpire(ip)
      PROVE  IInv' /\ Pinned(relay, relay')
  <2>1. Sent' /\ served' = served
    BY <1>5 DEF ArpExpire, Sent
  <2>2. CASE relay' = [relay EXCEPT !.local[ip] = ZERO_MAC]
    <3> DEFINE s == [relay EXCEPT !.local[ip] = ZERO_MAC]
    <3>1. Good(s) /\ Same(relay, s)
      BY <1>1, LocalKeeps
    <3> HIDE DEF s
    <3>2. Good(relay') /\ Same(relay, relay')
      BY <2>2, <3>1, SMTT(30) DEF s
    <3> QED  BY <1>1, <2>1, <3>2, SamePinned DEF IInv
  <2>3. CASE relay' = [relay EXCEPT !.neighbors[ip] = ZERO_MAC]
    <3>1. /\ relay' \in RelayState /\ Same(relay, relay') /\ relay'.ports = relay.ports
          /\ \A a \in IPv4 : relay'.neighbors[a] = IF a = ip THEN ZERO_MAC ELSE relay.neighbors[a]
      BY <1>1, <2>3, SMTT(30) DEF Good, RelayState, ArpTableMap, Same
    <3>2. Good(relay')
      BY <1>1, <3>1, SMTT(30) DEF Good, Found, Members, Guarded, Same
    <3> QED  BY <1>1, <2>1, <3>1, <3>2, SamePinned DEF IInv
  <2> QED  BY <1>5, <2>2, <2>3 DEF ArpExpire
<1>6. CASE UNCHANGED vars
  BY <1>6 DEF vars, IInv, Sent, Pinned
<1> QED  BY <1>2, <1>3, <1>4, <1>5, <1>6 DEF Next

\* IInv is an invariant.
LEMMA Invariance ==
    Spec => []IInv
<1>1. IInv /\ [Next]_vars => IInv'
  BY StepGood
<1> QED  BY InitGood, <1>1, PTL DEF Spec

\* The relay's state and all it transmits are well formed, and its overlay
\* table holds unicast MACs of other members only, whatever frames the two
\* captures deliver.
THEOREM StateIsSound == Spec => []StateSound
<1>1. IInv => StateSound
  BY DEF IInv, Good, Sent, Members, StateSound, TypeOK, NeighborsAreMembers, c
<1> QED  BY Invariance, <1>1, PTL

\* What the console sends enters the overlay only from the managed address, with
\* its port held and without port-unreachable errors, and the relay announces
\* its own binding only.  The subnet of --subnet must not be wider than the
\* adapter's: otherwise process_ipv4 sends what lan_play_relay_wifi_ipv4 left.
THEOREM OverlayIsSound ==
    ASSUME game_subnet \subseteq zerotier_subnet
    PROVE  Spec => []OverlaySound
<1>1. IInv => OverlaySound
  <2> SUFFICES ASSUME IInv PROVE OverlaySound
    OBVIOUS
  <2>1. out.from = "wifi" => \A t \in out.tx : Carries(t, relay)
    BY DEF IInv, Sent
  <2>2. ManagedSource /\ NoUnreachable
    BY <2>1, SMTT(30) DEF ManagedSource, NoUnreachable, Datagrams, Carries, c
  <2>3. PortsReserved
    BY <2>1, SMTT(30) DEF PortsReserved, Datagrams, Carries, IInv, Good, Guarded
  <2>4. OverlayArpTruth
    BY SMTT(30) DEF OverlayArpTruth, IInv, Sent, Truthful, c
  <2> QED  BY <2>2, <2>3, <2>4 DEF OverlaySound
<1> QED  BY Invariance, <1>1, PTL

\* An overlay datagram for the console goes to the MAC that discovery pinned.
THEOREM PathIsPinned == Spec => []ReturnPath
<1>1. IInv => ReturnPath
  BY SMTT(30) DEF IInv, Sent, Returns, ReturnPath, Datagrams, c
<1> QED  BY Invariance, <1>1, PTL

\* No callback changes the console's address or its confirmed MAC.
THEOREM ConsoleIsPinned == Spec => ConsolePinned
<1> DEFINE A == relay.switch_seen =>
                   /\ relay'.switch_seen
                   /\ relay'.switch_ip = relay.switch_ip
                   /\ relay.switch_mac_confirmed => relay'.switch_mac_confirmed
                   /\ relay'.switch_mac # relay.switch_mac =>
                         ~ relay.switch_mac_confirmed /\ relay'.switch_mac_confirmed
<1>1. IInv /\ [Next]_vars => [A]_vars
  BY StepGood DEF Pinned
<1> QED  BY Invariance, <1>1, PTL DEF Spec, ConsolePinned

-----------------------------------------------------------------------------
(***************************************************************************)
(* The search for the console, for every pause and every address of the    *)
(* relay on Wi-Fi.                                                         *)
(***************************************************************************)

\* The part of the sweep that lies before the current host: the Wi-Fi phase
\* up to it, or all of that phase and the overlay phase up to it.
Before ==
    IF Phase THEN {"wifi"} \X ((2 .. host - 1) \ {wifi_host})
    ELSE (IF wifi_subnet_known THEN {"wifi"} \X (Hosts \ {wifi_host}) ELSE {})
         \cup ({"zerotier"} \X (2 .. host - 1))

\* The inductive invariant: outside a pause, exactly the hosts before the
\* current one were probed; a pause starts with a complete sweep and with the
\* counters reset.
DiscoveryInv ==
    /\ DiscoveryTypeOK
    /\ host \in Hosts
    /\ wifi_phase => wifi_subnet_known
    /\ pause = 0 => probed = Before
    /\ pause > 0 => /\ host = 2
                    /\ wifi_phase <=> wifi_subnet_known
                    /\ probed = IF pause = PAUSE_TICKS
                                THEN Sweep(wifi_subnet_known) ELSE {}

\* The 8-bit counter runs through 2 .. 254 and returns to 2.
LEMMA AdvanceStep ==
    ASSUME NEW h \in Hosts
    PROVE  Advance(h) = IF h = 254 THEN 2 ELSE h + 1
  BY DEF Advance, Hosts

\* Initially every variable has its type.
LEMMA InitType == DiscoveryInit => DiscoveryTypeOK
<1> SUFFICES ASSUME DiscoveryInit PROVE DiscoveryTypeOK
  OBVIOUS
<1>1. host \in 0 .. 255 /\ pause \in 0 .. PAUSE_TICKS
  BY DiscoveryAssumption DEF DiscoveryInit
<1>2. probed \subseteq {"wifi", "zerotier"} \X (0 .. 255)
  BY DEF DiscoveryInit
<1>3. /\ wifi_subnet_known \in BOOLEAN /\ wifi_phase \in BOOLEAN
      /\ running \in BOOLEAN /\ switch_seen \in BOOLEAN
      /\ console \in Consoles /\ pending \in BOOLEAN
  BY Zenon DEF DiscoveryInit
<1> QED
  BY <1>1, <1>2, <1>3, Zenon DEF DiscoveryTypeOK

\* A probe keeps the counters in their ranges.
LEMMA ProbeType ==
    ASSUME DiscoveryTypeOK, host \in Hosts, Probe
    PROVE  DiscoveryTypeOK'
<1>1. host' \in 0 .. 255
  BY AdvanceStep DEF Probe, Hosts
<1>2. pause' \in 0 .. PAUSE_TICKS
  <2>1. pause' = pause \/ pause' = PAUSE_TICKS
    BY ZenonT(60) DEF Probe
  <2>2. pause \in 0 .. PAUSE_TICKS /\ PAUSE_TICKS \in 0 .. PAUSE_TICKS
    BY DiscoveryAssumption, SMTT(30) DEF DiscoveryTypeOK
  <2> QED
    BY <2>1, <2>2
<1>3. probed' \subseteq {"wifi", "zerotier"} \X (0 .. 255)
  <2>1. Target \in {"wifi", "zerotier"} \X (0 .. 255)
    <3>1. host \in 0 .. 255
      BY DEF Hosts
    <3>2. Target = <<"wifi", host>> \/ Target = <<"zerotier", host>>
      BY Zenon DEF Target
    <3> QED
      BY <3>1, <3>2
  <2>2. Probes \subseteq {Target}
    BY Zenon DEF Probes
  <2>3. probed \subseteq {"wifi", "zerotier"} \X (0 .. 255)
    BY Zenon DEF DiscoveryTypeOK
  <2>4. probed' = probed \cup Probes
    BY Zenon DEF Probe
  <2> QED
    BY <2>1, <2>2, <2>3, <2>4, SMTT(30)
<1>4. /\ wifi_subnet_known' \in BOOLEAN /\ running' \in BOOLEAN
      /\ switch_seen' \in BOOLEAN /\ console' \in Consoles
  BY Zenon DEF Probe, DiscoveryTypeOK
<1>5. wifi_phase' \in BOOLEAN /\ pending' \in BOOLEAN
  BY ZenonT(60) DEF Probe, DiscoveryTypeOK
<1> QED
  BY <1>1, <1>2, <1>3, <1>4, <1>5, ZenonT(60) DEF DiscoveryTypeOK

\* The first tick starts a sweep of which nothing was probed.
LEMMA InitInv == DiscoveryInit => DiscoveryInv
<1> SUFFICES ASSUME DiscoveryInit PROVE DiscoveryInv
  OBVIOUS
<1>1. 2 .. host - 1 = {} /\ host \in Hosts /\ ~ (pause > 0)
  BY DEF DiscoveryInit, Hosts
<1>2. probed = Before
  <2>1. {"wifi"} \X ({} \ {wifi_host}) = {} /\ {"zerotier"} \X {} = {}
    OBVIOUS
  <2>2. Phase <=> wifi_subnet_known
    BY Zenon DEF DiscoveryInit, Phase
  <2> QED
    BY <1>1, <2>1, <2>2 DEF DiscoveryInit, Before
<1>3. wifi_phase => wifi_subnet_known
  BY ZenonT(60) DEF DiscoveryInit
<1> QED
  BY <1>1, <1>2, <1>3, InitType, Zenon DEF DiscoveryInv

\* The tick that probes one host extends what was probed by that host, and
\* completes the sweep with the last one.
LEMMA ProbeInv ==
    ASSUME DiscoveryInv, Probe
    PROVE  DiscoveryInv'
<1> USE DEF DiscoveryInv
<1>1. host \in 2 .. 254 /\ wifi_host \in 0 .. 255 /\ PAUSE_TICKS \in Nat \ {0}
  BY DiscoveryAssumption DEF Hosts
<1>2. host' = IF host = 254 THEN 2 ELSE host + 1
  BY AdvanceStep DEF Probe
<1>3. pause = 0 /\ probed = Before /\ probed' = Before \cup Probes
  BY DEF Probe
<1>4. UNCHANGED <<wifi_subnet_known, running, switch_seen, console>>
  BY DEF Probe
<1>5. (host = 254) <=> (Advance(host) = 2)
  BY <1>1, AdvanceStep, SMTT(30) DEF Hosts
<1>6. Before \cup Probes =
        IF Phase THEN {"wifi"} \X ((2 .. host) \ {wifi_host})
        ELSE (IF wifi_subnet_known THEN {"wifi"} \X (Hosts \ {wifi_host}) ELSE {})
             \cup ({"zerotier"} \X (2 .. host))
  <2>1. 2 .. host = (2 .. host - 1) \cup {host}
    BY <1>1, SMTT(30)
  <2>2. CASE Phase
    <3>1. Probes = {"wifi"} \X ({host} \ {wifi_host})
      BY <2>2, SMTT(30) DEF Probes, Target
    <3> QED
      BY <2>1, <2>2, <3>1 DEF Before
  <2>3. CASE ~ Phase
    <3>1. Probes = {"zerotier"} \X {host}
      BY <2>3 DEF Probes, Target
    <3> QED
      BY <2>1, <2>3, <3>1, SMTT(30) DEF Before
  <2> QED
    BY <2>2, <2>3
<1>7. CASE host # 254
  <2>1. UNCHANGED <<wifi_phase, pause>> /\ host' = host + 1
    BY <1>2, <1>5, <1>7, SMTT(30) DEF Probe
  <2>2. 2 .. host' - 1 = 2 .. host /\ (Phase' <=> Phase)
    BY <1>1, <1>4, <2>1, SMTT(30) DEF Phase
  <2>3. probed' = Before'
    BY <1>3, <1>4, <1>6, <2>2, ZenonT(60) DEF Before
  <2>4. DiscoveryTypeOK'
    BY ProbeType
  <2>5. host' \in Hosts /\ ~ (pause' > 0)
    BY <1>1, <1>3, <1>7, <2>1 DEF Hosts
  <2>6. wifi_phase' => wifi_subnet_known'
    BY <1>4, <2>1, Zenon
  <2> QED
    BY <2>3, <2>4, <2>5, <2>6, ZenonT(60)
<1>8. CASE host = 254 /\ Phase
  <2>1. wifi_phase' = FALSE /\ pause' = 0 /\ host' = 2
    BY <1>2, <1>3, <1>5, <1>8, SMTT(30) DEF Probe
  <2>2. 2 .. host' - 1 = {} /\ ~ Phase' /\ wifi_subnet_known
    BY <1>8, <2>1, SMTT(30) DEF Phase
  <2>3. probed' = Before'
    BY <1>3, <1>4, <1>6, <1>8, <2>2, SMTT(30) DEF Before, Hosts
  <2>4. DiscoveryTypeOK'
    BY ProbeType
  <2> QED
    BY <1>4, <2>1, <2>3, <2>4 DEF Hosts
<1>9. CASE host = 254 /\ ~ Phase
  <2>1. wifi_phase' = wifi_subnet_known /\ pause' = PAUSE_TICKS /\ host' = 2
    BY <1>2, <1>5, <1>9, SMTT(30) DEF Probe
  <2>2. probed' = Sweep(wifi_subnet_known)
    BY <1>3, <1>6, <1>9 DEF Sweep, Hosts
  <2>3. DiscoveryTypeOK'
    BY ProbeType
  <2> QED
    BY <1>1, <1>4, <2>1, <2>2, <2>3, SMTT(30) DEF Hosts
<1> QED
  BY <1>7, <1>8, <1>9, SMTT(30)

\* The pause counts down and forgets the sweep it follows.
LEMMA PauseInv ==
    ASSUME DiscoveryInv, Pause
    PROVE  DiscoveryInv'
<1>1. /\ pause \in 1 .. PAUSE_TICKS /\ pause' = pause - 1 /\ PAUSE_TICKS \in Nat
      /\ host = 2 /\ host' = host /\ probed' = {}
  BY DiscoveryAssumption DEF DiscoveryInv, DiscoveryTypeOK, Pause
<1>2. UNCHANGED <<wifi_subnet_known, wifi_phase, running, switch_seen, console, pending>>
  BY Zenon DEF Pause
<1>3. /\ pause' \in 0 .. PAUSE_TICKS /\ pause' # PAUSE_TICKS
      /\ host' = 2 /\ host' \in 0 .. 255 /\ host' \in Hosts /\ 2 .. host' - 1 = {}
  BY <1>1 DEF Hosts
<1>4. wifi_phase <=> wifi_subnet_known
  BY <1>1 DEF DiscoveryInv
<1>5. DiscoveryTypeOK'
  <2>1. probed' \subseteq {"wifi", "zerotier"} \X (0 .. 255)
    BY <1>1, SMTT(30)
  <2> QED
    BY <1>2, <1>3, <2>1, ZenonT(60) DEF DiscoveryInv, DiscoveryTypeOK
<1>6. probed' = Before'
  <2>1. {"wifi"} \X ({} \ {wifi_host}) = {} /\ {"zerotier"} \X {} = {}
    OBVIOUS
  <2>2. Phase' <=> wifi_subnet_known'
    BY <1>2, <1>4, Zenon DEF Phase
  <2> QED
    BY <1>1, <1>3, <2>1, <2>2 DEF Before
<1>7. (wifi_phase' <=> wifi_subnet_known')
  BY <1>2, <1>4, Zenon
<1>8. probed' = IF pause' = PAUSE_TICKS THEN Sweep(wifi_subnet_known') ELSE {}
  BY <1>1, <1>3, Zenon
<1> QED
  BY <1>3, <1>5, <1>6, <1>7, <1>8, ZenonT(60) DEF DiscoveryInv

\* Every other step leaves the counters and the sweep alone.
LEMMA OtherInv ==
    ASSUME DiscoveryInv, Stop \/ Answered \/ Lost \/ Overheard \/ UNCHANGED discovery_vars
    PROVE  DiscoveryInv'
<1>1. UNCHANGED <<wifi_subnet_known, host, pause, wifi_phase, console, probed>>
  BY Zenon DEF Stop, Answered, Lost, Overheard, discovery_vars
<1>2. running' \in BOOLEAN /\ switch_seen' \in BOOLEAN /\ pending' \in BOOLEAN
  BY ZenonT(60) DEF DiscoveryInv, DiscoveryTypeOK, Stop, Answered, Lost, Overheard, discovery_vars
<1>3. DiscoveryTypeOK'
  BY <1>1, <1>2, Zenon DEF DiscoveryInv, DiscoveryTypeOK
<1>4. Before' = Before
  BY <1>1, Zenon DEF Before, Phase
<1> QED
  BY <1>1, <1>3, <1>4, Zenon DEF DiscoveryInv

\* Every step preserves the invariant, so that it always holds.
LEMMA InvariantHolds == DiscoverySpec => []DiscoveryInv
<1>1. DiscoveryInv /\ [DiscoveryNext]_discovery_vars => DiscoveryInv'
  BY ProbeInv, PauseInv, OtherInv, Zenon DEF DiscoveryNext, switch_discovery_timer_cb
<1> QED
  BY InitInv, <1>1, PTL DEF DiscoverySpec

\* The 8-bit host counter and the pause counter of lan-play.c stay in range.
THEOREM CountersInRange == DiscoverySpec => []DiscoveryTypeOK
<1>1. DiscoveryInv => DiscoveryTypeOK
  BY ZenonT(60) DEF DiscoveryInv
<1> QED
  BY InvariantHolds, <1>1, PTL

\* When switch_discovery_timer_cb starts to pause, it has probed every host of
\* both subnets, whatever the relay's own host number and the pause are.
THEOREM SweepsAreComplete == DiscoverySpec => []SweepComplete
<1>1. DiscoveryInv => SweepComplete
  BY DiscoveryAssumption DEF DiscoveryInv, SweepComplete
<1> QED
  BY InvariantHolds, <1>1, PTL

\* switch_discovery_timer_cb never probes beyond .2 to .254 of the two subnets,
\* nor the relay's own address.
THEOREM SweepsStayInRange == DiscoverySpec => []ProbesInRange
<1>1. DiscoveryInv => ProbesInRange
  <2> SUFFICES ASSUME DiscoveryInv PROVE probed \subseteq Sweep(wifi_subnet_known)
    BY Zenon DEF ProbesInRange
  <2>1. 2 .. host - 1 \subseteq Hosts
    BY DEF DiscoveryInv, Hosts
  <2>2. Before \subseteq Sweep(wifi_subnet_known)
    <3>1. CASE Phase
      <4>1. wifi_subnet_known
        BY <3>1, ZenonT(60) DEF Phase
      <4> QED
        BY <2>1, <3>1, <4>1 DEF Before, Sweep
    <3>2. CASE ~ Phase
      BY <2>1, <3>2 DEF Before, Sweep
    <3> QED
      BY <3>1, <3>2
  <2>3. probed = Before \/ probed = Sweep(wifi_subnet_known) \/ probed = {}
    <3>1. pause = 0 \/ pause > 0
      BY DiscoveryAssumption DEF DiscoveryInv, DiscoveryTypeOK
    <3> QED
      BY <3>1, ZenonT(60) DEF DiscoveryInv
  <2> QED
    BY <2>2, <2>3, Zenon
<1> QED
  BY InvariantHolds, <1>1, PTL

\* After learn_local_switch, whatever made it learn, no tick sends a probe.
THEOREM QuietAfterwards == DiscoverySpec => QuietOnceFound
<1>1. [DiscoveryNext]_discovery_vars => [switch_seen => probed' = probed]_discovery_vars
  BY Zenon DEF DiscoveryNext, switch_discovery_timer_cb, Stop, Pause, Probe, Answered,
     Lost, Overheard, discovery_vars
<1> QED
  BY <1>1, PTL DEF DiscoverySpec, QuietOnceFound
=============================================================================

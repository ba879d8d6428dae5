------------------------------ MODULE Overlay -------------------------------
(***************************************************************************)
(* Several relays, each with a console, as members of one ZeroTier network.*)
(* A broadcast reaches every other member; a unicast frame reaches the     *)
(* owner of its destination MAC.  Frames are delivered in any order and    *)
(* may be lost.                                                            *)
(***************************************************************************)
EXTENDS RelayCore

CONSTANTS
    Relays,
    cfg,            \* relay -> Config
    console_ip,     \* relay -> address its console is set to
    console_mac,    \* relay -> MAC of its console
    Discovered,     \* relays that know their console from the start
    Destinations,   \* addresses the consoles' games send to
    payload,        \* of Payload
    MaxSends,       \* bound: datagrams all consoles together send
    Expiring        \* bound: addresses whose ARP entries expire

ASSUME OverlayAssumption ==
    /\ cfg \in [Relays -> Config]
    /\ console_ip \in [Relays -> IPv4]
    /\ console_mac \in [Relays -> MAC]
    /\ Discovered \subseteq Relays
    /\ Destinations \subseteq IPv4
    /\ payload \in Payload
    /\ MaxSends \in Nat
    /\ Expiring \subseteq IPv4

VARIABLES
    relay,      \* relay -> RelayState
    net,        \* overlay frames on their way, each with its receiver
    sends,      \* datagrams sent by the consoles so far
    due,        \* <<sender, receiver>> of unicast datagrams not delivered yet
    wifi        \* what the last step put on Wi-Fi, and by which relay

vars == <<relay, net, sends, due, wifi>>

\* Every relay's struct lan_play and every frame under way is of its shape.
TypeOK ==
    /\ relay \in [Relays -> RelayState]
    /\ net \subseteq [to : Relays, frame : Frame]
    /\ sends \in 0 .. MaxSends
    /\ due \subseteq Relays \X Relays
    /\ wifi \subseteq [by : Relays, frame : Frame]

-----------------------------------------------------------------------------
\* The relay's state after its console announced itself by ARP.
AfterDiscovery(r) ==
    learn_local_switch(cfg[r], lan_play_init,
        Ether(console_mac[r], BROADCAST_MAC,
              Arp("request", console_mac[r], console_ip[r], cfg[r].gateway_ip))
    ).state

Init ==
    /\ relay = [r \in Relays |->
                   IF r \in Discovered THEN AfterDiscovery(r) ELSE lan_play_init]
    /\ net = {}
    /\ sends = 0
    /\ due = {}
    /\ wifi = {}

\* Deliveries that the overlay transmissions among tx cause.  The capture of
\* an adapter also sees the frames that the adapter sends.
Carried(tx) ==
    {d \in {[to |-> q, frame |-> t.frame] :
                q \in Relays, t \in {u \in tx : u.on = "zerotier"}} :
        \/ d.frame.dst \in {BROADCAST_MAC, cfg[d.to].zerotier_mac}
        \/ d.frame.src = cfg[d.to].zerotier_mac}

OnAir(r, tx) ==
    {[by |-> r, frame |-> t.frame] : t \in {u \in tx : u.on = "wifi"}}

\* The <<sender, receiver>> pairs of the datagrams that reach a console in w.
Served(w) ==
    {p \in Relays \X Relays :
        \E d \in w : /\ d.by = p[2]
                     /\ d.frame.pkt.type = "ipv4"
                     /\ d.frame.pkt.sip = cfg[p[1]].zerotier_ip
                     /\ d.frame.dst = console_mac[p[2]]}

Step(r, o, rest, owed) ==
    /\ relay' = [relay EXCEPT ![r] = o.state]
    /\ net' = rest \cup Carried(o.tx)
    /\ wifi' = OnAir(r, o.tx)
    /\ due' = owed \ Served(OnAir(r, o.tx))

\* A console sends a datagram, to the broadcast MAC or to the relay, which
\* answers its ARP requests.
ConsoleSend(r, dip) ==
    LET f == Ether(console_mac[r],
                   IF dip = zerotier_broadcast_ip THEN BROADCAST_MAC
                                                  ELSE cfg[r].wifi_mac,
                   [type |-> "ipv4", sip |-> console_ip[r], dip |-> dip,
                    p |-> payload])
        to == {q \in Relays : dip \in {cfg[q].zerotier_ip, console_ip[q]}}
    IN  /\ sends < MaxSends
        /\ dip \notin {console_ip[r], cfg[r].zerotier_ip}
        /\ sends' = sends + 1
        /\ \E o \in lan_play_pcap_handler(cfg[r], relay[r], f) :
               Step(r, o, net, due \cup ({r} \X to))

Deliver(d) ==
    /\ d \in net
    /\ UNCHANGED sends
    /\ \E o \in lan_play_zerotier_pcap_handler(cfg[d.to], relay[d.to], d.frame) :
           Step(d.to, o, net \ {d}, due)

\* The lifetime of an entry of one of a relay's ARP tables ends.
Expire(r, ip) ==
    /\ \/ /\ relay[r].neighbors[ip] # ZERO_MAC
          /\ relay' = [relay EXCEPT ![r].neighbors[ip] = ZERO_MAC]
       \/ /\ relay[r].local[ip] # ZERO_MAC
          /\ relay' = [relay EXCEPT ![r].local[ip] = ZERO_MAC]
    /\ wifi' = {}
    /\ UNCHANGED <<net, sends, due>>

Next ==
    \/ \E r \in Relays, dip \in Destinations : ConsoleSend(r, dip)
    \/ \E d \in net : Deliver(d)
    \/ \E r \in Relays, ip \in Expiring : Expire(r, ip)

\* Every frame on its way arrives.  Loss is left out here: it only removes
\* what the properties below bound.
Spec == Init /\ [][Next]_vars /\ WF_vars(\E d \in net : Deliver(d))

-----------------------------------------------------------------------------
\* A console hears other members only: no relay forwards a datagram to its own
\* console that this console sent, as the capture of the overlay adapter or a
\* detour through the other relay could make it do.  It is stated of two relays:
\* with a third one a broadcast that process_ipv4 sends back comes home.
NoReflection ==
    \A d \in wifi :
        d.frame.pkt.type = "ipv4" => d.frame.pkt.sip # cfg[d.by].zerotier_ip

\* Every member keeps a well-formed state, whatever the others send, and its
\* console hears other members only.
MembersSound == TypeOK /\ NoReflection

\* The datagrams of the consoles do not keep the overlay busy for ever: each
\* causes finitely many frames, the relays do not answer each other in circles.
Quiesces == <>[](net = {})

\* A datagram that a console sends to another relay or to its console reaches
\* that console, whether or not the sender knows the relay's MAC.
EndToEnd == []<>(due = {})
=============================================================================

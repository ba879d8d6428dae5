----------------------------- MODULE DhcpServer -----------------------------
(***************************************************************************)
(* The DHCP server of src/src/dhcp-server.c, which gives consoles on Wi-Fi *)
(* an address of the overlay subnet.  Addresses are the host numbers of    *)
(* that subnet, from its network address 0 to its broadcast address.       *)
(*                                                                         *)
(* Leases live in a fixed array and carry the second at which they end.    *)
(* The sweep of expired leases, the choice of an address and the claim each*)
(* read the clock, so a second may begin in between.  grants records what  *)
(* the clients were told; the server does not keep it.                     *)
(***************************************************************************)
EXTENDS Clock, FiniteSets

CONSTANTS
    DHCP_LEASE_COUNT,   \* slots of the lease array (8)
    DHCP_LEASE_TIME,    \* seconds of an acknowledged lease (3600)
    DHCP_OFFER_TIME,    \* seconds an offer is held (120)
    POOL,               \* addresses below the broadcast address (24)
    bcast,              \* zerotier_broadcast_ip
    gw,                 \* packet_ctx.ip, the fake gateway
    self,               \* zerotier_ip
    Clients,            \* Nintendo MACs
    NoMac, NoIp,
    HeardSets,          \* what the local ARP table may hold at a DISCOVER
    Wanted,             \* addresses that consoles ask for
    Configured          \* addresses at which discovery may pin a console

Addresses == 0 .. bcast
LeaseSlots == 1 .. DHCP_LEASE_COUNT

ASSUME DhcpAssumption ==
    /\ DHCP_LEASE_COUNT \in Nat \ {0}
    /\ DHCP_LEASE_TIME \in Nat \ {0}
    /\ DHCP_OFFER_TIME \in Nat \ {0}
    /\ POOL \in Nat
    /\ bcast \in Nat
    /\ self \in 1 .. bcast - 1
    /\ gw \in 1 .. bcast - 1
    /\ NoMac \notin Clients
    /\ NoIp \notin Addresses
    /\ HeardSets \subseteq SUBSET Addresses
    /\ Wanted \subseteq Addresses
    /\ Configured \subseteq Addresses

VARIABLES
    leases,     \* dhcp_state.leases
    switch_ip,  \* address of the console that discovery pinned, or NoIp
    switch_mac, \* and its MAC
    last,       \* the last client packet and the reply to it
    grants      \* client -> the address it was told it has, and until when

dhcp_vars == <<leases, switch_ip, switch_mac, now, last, grants>>

Lease ==
    [used : BOOLEAN, mac : Clients \cup {NoMac}, ip : Addresses,
     expires : Nat, offered : BOOLEAN]

FreeLease ==
    [used |-> FALSE, mac |-> NoMac, ip |-> 0, expires |-> 0, offered |-> FALSE]

NoGrant == [ip |-> NoIp, until |-> 0]

\* A DISCOVER or REQUEST: the client, the address it asks for (NoIp for none,
\* or for one of another subnet); and the reply.
Exchange ==
    [mac : Clients \cup {NoMac}, want : Addresses \cup {NoIp},
     reply : {"none", "offer", "ack", "nak"}, ip : Addresses \cup {NoIp}]

NoExchange ==
    [mac |-> NoMac, want |-> NoIp, reply |-> "none", ip |-> NoIp]

\* Every slot of the lease array, and every reply, is of its declared shape.
DhcpTypeOK ==
    /\ leases \in [LeaseSlots -> Lease]
    /\ switch_ip \in Addresses \cup {NoIp}
    /\ switch_mac \in Clients \cup {NoMac}
    /\ now \in Nat
    /\ last \in Exchange
    /\ grants \in [Clients -> [ip : Addresses \cup {NoIp}, until : Nat]]

-----------------------------------------------------------------------------
(* The lease array.                                                        *)

First(S) == CHOOSE i \in S : \A j \in S : i <= j

dhcp_sweep_expired(l, t) ==
    [i \in LeaseSlots |-> IF l[i].used /\ l[i].expires <= t
                          THEN FreeLease ELSE l[i]]

\* The slot dhcp_find_mac returns, if S is not empty.
OwnSlots(l, mac) == {i \in LeaseSlots : l[i].used /\ l[i].mac = mac}
FreeSlots(l) == {i \in LeaseSlots : ~ l[i].used}

\* An unexpired lease of the address, of a client other than mac.
Taken(l, t, ip, mac) ==
    \E i \in LeaseSlots : /\ l[i].used /\ l[i].expires > t
                          /\ l[i].ip = ip /\ l[i].mac # mac

\* A bug in the preference for the relay's address: leases are not looked at.
SelfOkUnchecked(l, t, mac, heard, sw) ==
    /\ self \notin heard
    /\ sw \in {NoIp, self}

\* The relay's own address, preferred for the first console.  heard: addresses
\* with a live entry in the local ARP table.
SelfOk(l, t, mac, heard, sw) ==
    /\ ~ Taken(l, t, self, mac)
    /\ self \notin heard
    /\ sw \in {NoIp, self}

\* The candidates of the loop of dhcp_pick_ip, which takes the highest.
Pool(l, t, heard, sw) ==
    {ip \in 1 .. bcast - 1 :
        /\ bcast - ip <= POOL
        /\ ip \notin {gw, self}
        /\ ip # sw
        /\ ip \notin heard
        /\ ~ Taken(l, t, ip, NoMac)}

\* dhcp_pick_ip: the address for a DISCOVER, NoIp when there is none.
dhcp_pick_ip(l, t, mac, heard, sw) ==
    LET own == {i \in OwnSlots(l, mac) : l[i].expires > t}
        pool == Pool(l, t, heard, sw)
    IN  IF own # {} THEN l[First(own)].ip
        ELSE IF SelfOk(l, t, mac, heard, sw) THEN self
        ELSE IF pool = {} THEN NoIp
        ELSE CHOOSE ip \in pool : \A other \in pool : ip >= other

\* The slot dhcp_claim writes; the empty set when the array is full.
ClaimSlot(l, mac) ==
    IF OwnSlots(l, mac) # {} THEN {First(OwnSlots(l, mac))}
    ELSE IF FreeSlots(l) # {} THEN {First(FreeSlots(l))}
    ELSE {}

\* A bug in the lifetime: every claim is held as long as an offer.
ClaimShort(l, t, mac, ip, offered) ==
    [i \in LeaseSlots |->
        IF i \notin ClaimSlot(l, mac) THEN l[i]
        ELSE [used |-> TRUE, mac |-> mac, ip |-> ip, offered |-> offered,
              expires |-> t + DHCP_OFFER_TIME]]

dhcp_claim(l, t, mac, ip, offered) ==
    [i \in LeaseSlots |->
        IF i \notin ClaimSlot(l, mac) THEN l[i]
        ELSE [used |-> TRUE, mac |-> mac, ip |-> ip, offered |-> offered,
              expires |-> t + IF offered THEN DHCP_OFFER_TIME
                                         ELSE DHCP_LEASE_TIME]]

-----------------------------------------------------------------------------
(* dhcp_server_consume: one action per message type.  The array is swept in*)
(* second now, searched in second t and written in second u, and at most   *)
(* one second begins meanwhile.  A reply may be lost, by a failed injection*)
(* or on the air: then the client learns nothing.                          *)

DhcpInit ==
    /\ leases = [i \in LeaseSlots |-> FreeLease]
    /\ switch_ip = NoIp
    /\ switch_mac = NoMac
    /\ now = 0
    /\ last = NoExchange
    /\ grants = [m \in Clients |-> NoGrant]

At(t, u) == now <= t /\ t <= u /\ u <= now + 1 /\ u <= MaxTime /\ now' = u

\* A client that broadcasts DISCOVER has given up the address it had.
Discover(mac, heard, t, u) ==
    LET l  == dhcp_sweep_expired(leases, now)
        ip == dhcp_pick_ip(l, t, mac, heard, switch_ip)
        ok == ip # NoIp /\ ClaimSlot(l, mac) # {}
    IN  /\ At(t, u)
        /\ leases' = IF ok THEN dhcp_claim(l, u, mac, ip, TRUE) ELSE l
        /\ last' = [NoExchange EXCEPT !.mac = mac,
                       !.reply = IF ok THEN "offer" ELSE "none",
                       !.ip = IF ok THEN ip ELSE NoIp]
        /\ grants' = [grants EXCEPT ![mac] = NoGrant]
        /\ UNCHANGED <<switch_ip, switch_mac>>

\* The lease that a REQUEST for want confirms.
Confirmed(l, t, mac, want) ==
    {i \in OwnSlots(l, mac) : /\ i = First(OwnSlots(l, mac))
                              /\ l[i].expires > t
                              /\ l[i].ip = want}

Request(mac, want, t, u, received) ==
    LET l   == dhcp_sweep_expired(leases, now)
        ack == Confirmed(l, t, mac, want) # {}
        nak == ~ ack /\ want \in Addresses
    IN  /\ At(t, u)
        /\ received => ack \/ nak
        /\ leases' = IF ack THEN dhcp_claim(l, u, mac, want, FALSE) ELSE l
        /\ last' = [NoExchange EXCEPT !.mac = mac, !.want = want,
                       !.reply = IF ack THEN "ack"
                                 ELSE IF nak THEN "nak" ELSE "none",
                       !.ip = IF ack THEN want ELSE NoIp]
        /\ grants' = IF ~ received THEN grants
                     ELSE [grants EXCEPT ![mac] =
                              IF ack
                              THEN [ip |-> want, until |-> u + DHCP_LEASE_TIME]
                              ELSE NoGrant]
        /\ UNCHANGED <<switch_ip, switch_mac>>

Release(mac) ==
    LET l == dhcp_sweep_expired(leases, now)
    IN  /\ leases' = [i \in LeaseSlots |->
                         IF OwnSlots(l, mac) # {} /\ i = First(OwnSlots(l, mac))
                         THEN FreeLease ELSE l[i]]
        /\ last' = NoExchange
        /\ grants' = [grants EXCEPT ![mac] = NoGrant]
        /\ UNCHANGED <<switch_ip, switch_mac, now>>

\* A packet of another vendor's client, or of another type: swept, swallowed.
Ignored ==
    /\ leases' = dhcp_sweep_expired(leases, now)
    /\ last' = NoExchange
    /\ UNCHANGED <<switch_ip, switch_mac, now, grants>>

\* learn_local_switch pins the console that is heard first.  An address of the
\* Wi-Fi subnet is for this server like one outside of its pool.
LearnSwitch(mac, ip) ==
    /\ switch_ip = NoIp
    /\ switch_ip' = ip
    /\ switch_mac' = mac
    /\ last' = NoExchange
    /\ UNCHANGED <<leases, now, grants>>

DhcpTick ==
    /\ now < MaxTime
    /\ now' = now + 1
    /\ last' = NoExchange
    /\ UNCHANGED <<leases, switch_ip, switch_mac, grants>>

DhcpNext ==
    \/ \E mac \in Clients, heard \in HeardSets, t, u \in now .. now + 1 :
           Discover(mac, heard, t, u)
    \/ \E mac \in Clients, want \in Wanted \cup {NoIp},
          t, u \in now .. now + 1, received \in BOOLEAN :
           Request(mac, want, t, u, received)
    \/ \E mac \in Clients : Release(mac)
    \/ Ignored
    \/ \E mac \in Clients, ip \in Configured : LearnSwitch(mac, ip)
    \/ DhcpTick

DhcpSpec == DhcpInit /\ [][DhcpNext]_dhcp_vars

-----------------------------------------------------------------------------
(* Properties.                                                             *)

Live(i) == leases[i].used /\ leases[i].expires > now

\* A client owns at most one slot, and an address is leased, or held by an
\* offer, for at most one client at a time: dhcp_pick_ip and dhcp_claim agree
\* although each reads the clock for itself.
LeaseUnique ==
    \A i, j \in LeaseSlots :
        i # j =>
            /\ leases[i].used /\ leases[j].used => leases[i].mac # leases[j].mac
            /\ Live(i) /\ Live(j) => leases[i].ip # leases[j].ip

\* Two consoles never both rely on an acknowledged lease of one address.
ExclusiveGrant ==
    \A m, n \in Clients :
        m # n /\ grants[m].until > now /\ grants[n].until > now =>
            grants[m].ip # grants[n].ip

\* A console that renews the address it was granted, within the lease time, is
\* acknowledged: whatever other consoles did, it is not told to start over.
RenewalHonoured ==
    [][\A m \in Clients :
          /\ last'.mac = m
          /\ last'.want = grants[m].ip
          /\ grants[m].until > now'
          => last'.reply = "ack"]_dhcp_vars

\* No console is offered or acknowledged the network address, the broadcast
\* address or, as long as the relay's own address differs from it, the address
\* of the fake gateway.
ServesHostAddresses ==
    last.reply \in {"offer", "ack"} =>
        /\ last.ip \in 1 .. bcast - 1
        /\ gw # self => last.ip # gw

\* Dropping an offer never frees or shortens what another console was granted:
\* a grant is backed by a lease of the array until it ends.
GrantBacked ==
    \A m \in Clients :
        grants[m].until > now =>
            \E i \in LeaseSlots : /\ leases[i].used /\ leases[i].mac = m
                                  /\ leases[i].ip = grants[m].ip
                                  /\ leases[i].expires >= grants[m].until

\* The relay's own address goes to the first console only: additional consoles
\* fall back to the pool.
OwnAddressForFirstConsole ==
    last.reply = "offer" /\ last.ip = self /\ switch_ip = self =>
        last.mac = switch_mac
=============================================================================

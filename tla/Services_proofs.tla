--------------------------- MODULE Services_proofs ---------------------------
(***************************************************************************)
(* Proofs about the two services that keep addresses in an array and let   *)
(* the clock expire them: ArpCache, for every table size, lifetime and set *)
(* of hosts, with NeighborSend, which looks up in two steps; and           *)
(* DhcpServer, for every number of slots, clients and addresses, and for   *)
(* all lease and offer times.                                              *)
(***************************************************************************)
EXTENDS NeighborSend, DhcpServer, WellFoundedInduction, TLAPS

\* A nonempty set of numbers has a least element.
LEMMA LeastExists ==
    ASSUME NEW S \in SUBSET Nat, S # {}
    PROVE  \E i \in S : \A j \in S : i <= j
<1> DEFINE R == OpToRel(<, Nat)
<1>1. PICK i \in S : \A j \in S : ~ (<<j, i>> \in R)
  <2> HIDE DEF R
  <2>1. IsWellFoundedOn(R, Nat)
    BY NatLessThanWellFounded, Zenon DEF R
  <2> QED
    BY <2>1, WFMin, Zenon
<1>2. ASSUME NEW j \in S
      PROVE  i <= j
  <2>1. j < i => <<j, i>> \in R
    BY DEF OpToRel
  <2> HIDE DEF R
  <2> QED
    BY <1>1, <2>1
<1> QED
  BY <1>2

-----------------------------------------------------------------------------
(* The DHCP server.                                                        *)

\* A loop over the lease array that accepts some slot stops at one of them.
LEMMA FirstIsLeast ==
    ASSUME NEW S \in SUBSET LeaseSlots, S # {}
    PROVE  First(S) \in S
<1>1. S \in SUBSET Nat
  BY DhcpAssumption DEF LeaseSlots
<1> QED
  BY <1>1, LeastExists, Zenon DEF First

-----------------------------------------------------------------------------
(* The lease array: what holds of it whatever the clients do.              *)

\* An address that may be leased: a host address, and not the gateway's unless
\* the relay itself has that one.
Servable == {ip \in 1 .. bcast - 1 : ip = self \/ ip # gw}

\* A slot in use belongs to a client and holds a servable address, no client
\* has two slots, and no address has two leases that are live at time t.
Sound(l, t) ==
    /\ \A i \in LeaseSlots : l[i].used => l[i].mac \in Clients /\ l[i].ip \in Servable
    /\ \A i, j \in LeaseSlots :
           i # j =>
               /\ l[i].used /\ l[j].used => l[i].mac # l[j].mac
               /\ /\ l[i].used /\ l[i].expires > t
                  /\ l[j].used /\ l[j].expires > t
                  => l[i].ip # l[j].ip

\* The sweep keeps the array sound, and what is left of it after time t was
\* there before.
LEMMA SweepSound ==
    ASSUME NEW l \in [LeaseSlots -> Lease], NEW t \in Nat, Sound(l, t)
    PROVE  LET s == dhcp_sweep_expired(l, t)
           IN  /\ s \in [LeaseSlots -> Lease]
               /\ Sound(s, t)
               /\ \A i \in LeaseSlots :
                      l[i].used /\ l[i].expires > t => s[i] = l[i]
<1> DEFINE s == dhcp_sweep_expired(l, t)
<1>1. FreeLease \in Lease /\ ~ FreeLease.used
  BY DhcpAssumption DEF FreeLease, Lease, Addresses
<1>2. \A i \in LeaseSlots : s[i] = l[i] \/ s[i] = FreeLease
  BY DEF dhcp_sweep_expired
<1>3. s \in [LeaseSlots -> Lease]
  BY <1>1 DEF dhcp_sweep_expired
<1>4. Sound(s, t)
  <2> HIDE DEF s
  <2> QED
    BY <1>1, <1>2 DEF Sound
<1>5. \A i \in LeaseSlots : l[i].used /\ l[i].expires > t => s[i] = l[i]
  BY DEF dhcp_sweep_expired, Lease
<1> QED
  BY <1>3, <1>4, <1>5

\* Soundness is not lost when time passes.
LEMMA LaterSound ==
    ASSUME NEW l \in [LeaseSlots -> Lease], NEW t \in Nat, NEW u \in Nat, t <= u,
           Sound(l, t)
    PROVE  Sound(l, u)
  BY DEF Sound, Lease

\* An address that no other client holds is not taken by the passing of time.
LEMMA LaterFree ==
    ASSUME NEW l \in [LeaseSlots -> Lease], NEW t \in Nat, NEW u \in Nat, t <= u,
           NEW ip, NEW mac, ~ Taken(l, t, ip, mac)
    PROVE  ~ Taken(l, u, ip, mac)
  BY DEF Taken, Lease

\* The slot that dhcp_claim writes is the client's own or a free one; every
\* other slot in use belongs to another client.
LEMMA ClaimSlotOwnOrFree ==
    ASSUME NEW l \in [LeaseSlots -> Lease], NEW t \in Nat, Sound(l, t),
           NEW mac \in Clients, ClaimSlot(l, mac) # {}
    PROVE  \E s \in LeaseSlots :
               /\ ClaimSlot(l, mac) = {s}
               /\ l[s].used => l[s].mac = mac
               /\ \A i \in LeaseSlots \ {s} : l[i].used => l[i].mac # mac
<1>1. OwnSlots(l, mac) \in SUBSET LeaseSlots /\ FreeSlots(l) \in SUBSET LeaseSlots
  BY DEF OwnSlots, FreeSlots
<1>2. CASE OwnSlots(l, mac) # {}
  <2> DEFINE s == First(OwnSlots(l, mac))
  <2>1. s \in OwnSlots(l, mac)
    BY <1>1, <1>2, FirstIsLeast
  <2>2. ClaimSlot(l, mac) = {s}
    BY <1>2 DEF ClaimSlot
  <2> HIDE DEF s
  <2> QED
    BY <2>1, <2>2 DEF OwnSlots, Sound
<1>3. CASE OwnSlots(l, mac) = {}
  <2> DEFINE s == First(FreeSlots(l))
  <2>1. FreeSlots(l) # {}
    BY <1>3 DEF ClaimSlot
  <2>2. s \in FreeSlots(l)
    BY <1>1, <2>1, FirstIsLeast
  <2>3. ClaimSlot(l, mac) = {s}
    BY <1>3, <2>1 DEF ClaimSlot
  <2> HIDE DEF s
  <2> QED
    BY <1>3, <2>2, <2>3 DEF OwnSlots, FreeSlots
<1> QED
  BY <1>2, <1>3

\* What dhcp_pick_ip answers: a servable address of which no other client has
\* a live lease, or none.
LEMMA PickIsServable ==
    ASSUME NEW l \in [LeaseSlots -> Lease], NEW t \in Nat, Sound(l, t),
           NEW mac \in Clients, NEW heard, NEW sw,
           dhcp_pick_ip(l, t, mac, heard, sw) # NoIp
    PROVE  LET ip == dhcp_pick_ip(l, t, mac, heard, sw)
           IN  ip \in Servable /\ ~ Taken(l, t, ip, mac)
<1> DEFINE own == {i \in OwnSlots(l, mac) : l[i].expires > t}
           pool == Pool(l, t, heard, sw)
           ip == dhcp_pick_ip(l, t, mac, heard, sw)
<1> SUFFICES ip \in Servable /\ ~ Taken(l, t, ip, mac)
  OBVIOUS
<1>1. CASE own # {}
  <2> DEFINE s == First(own)
  <2>1. own \in SUBSET LeaseSlots
    BY DEF OwnSlots
  <2>2. s \in own
    BY <1>1, <2>1, FirstIsLeast
  <2>3. ip = l[s].ip
    BY <1>1 DEF dhcp_pick_ip
  <2> HIDE DEF s, ip
  <2> QED
    BY <2>2, <2>3 DEF OwnSlots, Sound, Taken
<1>2. CASE own = {} /\ SelfOk(l, t, mac, heard, sw)
  <2>1. ip = self
    BY <1>2 DEF dhcp_pick_ip
  <2> HIDE DEF ip
  <2> QED
    BY <1>2, <2>1, DhcpAssumption DEF SelfOk, Servable
<1>3. CASE own = {} /\ ~ SelfOk(l, t, mac, heard, sw)
  <2>1. pool # {} /\ ip = CHOOSE p \in pool : \A other \in pool : p >= other
    BY <1>3 DEF dhcp_pick_ip
  <2>2. \E p \in pool : \A other \in pool : p >= other
    <3> DEFINE gaps == {bcast - p : p \in pool}
    <3>1. \A p \in pool : p \in Nat /\ bcast - p \in Nat
      BY DhcpAssumption DEF Pool
    <3> HIDE DEF pool
    <3>2. gaps \in SUBSET Nat /\ gaps # {}
      BY <2>1, <3>1
    <3>3. PICK g \in gaps : \A h \in gaps : g <= h
      <4> HIDE DEF gaps
      <4> QED
        BY <3>2, LeastExists
    <3>4. PICK p \in pool : g = bcast - p
      BY <3>3
    <3>5. ASSUME NEW other \in pool
          PROVE  p >= other
      <4>1. bcast - other \in gaps
        OBVIOUS
      <4>2. bcast - p <= bcast - other
        BY <3>3, <3>4, <4>1
      <4> QED
        BY <3>1, <4>2, DhcpAssumption
    <3> QED
      BY <3>5
  <2>3. ip \in pool
    <3> HIDE DEF pool, ip
    <3> QED
      BY <2>1, <2>2
  <2> HIDE DEF ip
  <2>4. ip \in Servable
    BY <2>3 DEF Pool, Servable
  <2>5. ~ Taken(l, t, ip, mac)
    BY <2>3, DhcpAssumption DEF Pool, Taken, Sound
  <2> QED
    BY <2>4, <2>5
<1> QED
  BY <1>1, <1>2, <1>3

\* dhcp_claim of an address that no other client holds keeps the array sound,
\* and spares the slots of the other clients.
LEMMA ClaimSound ==
    ASSUME NEW l \in [LeaseSlots -> Lease], NEW t \in Nat, Sound(l, t),
           NEW mac \in Clients, NEW ip \in Servable, ~ Taken(l, t, ip, mac),
           NEW offered \in BOOLEAN, ClaimSlot(l, mac) # {}
    PROVE  LET c == dhcp_claim(l, t, mac, ip, offered)
           IN  /\ c \in [LeaseSlots -> Lease]
               /\ Sound(c, t)
               /\ \A i \in LeaseSlots : l[i].used /\ l[i].mac # mac => c[i] = l[i]
               /\ \E s \in LeaseSlots :
                      /\ c[s].used /\ c[s].mac = mac /\ c[s].ip = ip
                      /\ ~ offered => c[s].expires = t + DHCP_LEASE_TIME
<1> DEFINE new == [used |-> TRUE, mac |-> mac, ip |-> ip, offered |-> offered,
                   expires |-> t + IF offered THEN DHCP_OFFER_TIME
                                              ELSE DHCP_LEASE_TIME]
           c == dhcp_claim(l, t, mac, ip, offered)
<1>1. PICK s \in LeaseSlots :
          /\ ClaimSlot(l, mac) = {s}
          /\ l[s].used => l[s].mac = mac
          /\ \A i \in LeaseSlots \ {s} : l[i].used => l[i].mac # mac
  BY ClaimSlotOwnOrFree
<1>2. c = [i \in LeaseSlots |-> IF i # s THEN l[i] ELSE new]
  BY <1>1 DEF dhcp_claim
<1>3. new \in Lease
  BY DhcpAssumption DEF Lease, Servable, Addresses
<1>4. c \in [LeaseSlots -> Lease]
  <2> HIDE DEF new, c
  <2> QED
    BY <1>2, <1>3
<1>5. Sound(c, t)
  <2>1. new.used /\ new.mac = mac /\ new.ip = ip
    OBVIOUS
  <2> HIDE DEF new, c
  <2>2. \A i \in LeaseSlots : c[i] = IF i # s THEN l[i] ELSE new
    BY <1>2
  <2>3. \A i \in LeaseSlots : c[i].used => c[i].mac \in Clients /\ c[i].ip \in Servable
    BY <2>1, <2>2 DEF Sound
  <2>4. \A i \in LeaseSlots \ {s} :
            l[i].used => /\ l[i].mac # mac
                         /\ l[i].expires > t => l[i].ip # ip
    BY <1>1 DEF Taken
  <2>5. ASSUME NEW i \in LeaseSlots, NEW j \in LeaseSlots, i # j
        PROVE  /\ c[i].used /\ c[j].used => c[i].mac # c[j].mac
               /\ /\ c[i].used /\ c[i].expires > t
                  /\ c[j].used /\ c[j].expires > t
                  => c[i].ip # c[j].ip
    BY <2>1, <2>2, <2>4, <2>5 DEF Sound
  <2> QED
    BY <2>3, <2>5 DEF Sound
<1>6. \A i \in LeaseSlots : l[i].used /\ l[i].mac # mac => c[i] = l[i]
  <2> HIDE DEF new, c
  <2> QED
    BY <1>1, <1>2
<1>7. /\ c[s].used /\ c[s].mac = mac /\ c[s].ip = ip
      /\ ~ offered => c[s].expires = t + DHCP_LEASE_TIME
  <2> HIDE DEF c
  <2>1. c[s] = new
    BY <1>2
  <2> QED
    BY <2>1
<1> QED
  BY <1>4, <1>5, <1>6, <1>7

-----------------------------------------------------------------------------
(* The inductive invariant.                                                *)

Grants == [Clients -> [ip : Addresses \cup {NoIp}, until : Nat]]

\* GrantBacked as a relation between a lease array, a time and grants.
Backed(l, t, g) ==
    \A m \in Clients :
        g[m].until > t =>
            \E i \in LeaseSlots : /\ l[i].used /\ l[i].mac = m
                                  /\ l[i].ip = g[m].ip
                                  /\ l[i].expires >= g[m].until

\* No client relies on more than a lease that is acknowledged now.
Bounded(t, g) == \A m \in Clients : g[m].until <= t + DHCP_LEASE_TIME

\* The inductive invariant.
DhcpInv ==
    /\ DhcpTypeOK
    /\ Sound(leases, now)
    /\ Backed(leases, now, grants)
    /\ Bounded(now, grants)
    /\ last.reply \in {"offer", "ack"} => last.ip \in Servable

\* In second t, this one or the next, the array swept by a handler is sound
\* and still backs every grant.
LEMMA AfterSweep ==
    ASSUME DhcpInv, NEW t \in {now, now + 1}
    PROVE  LET l == dhcp_sweep_expired(leases, now)
           IN  /\ t \in Nat
               /\ l \in [LeaseSlots -> Lease]
               /\ Sound(l, t)
               /\ Backed(l, t, grants)
               /\ Bounded(t, grants)
<1> DEFINE l == dhcp_sweep_expired(leases, now)
<1>1. now \in Nat /\ t \in Nat /\ now <= t /\ leases \in [LeaseSlots -> Lease]
  BY DEF DhcpInv, DhcpTypeOK
<1>2. /\ l \in [LeaseSlots -> Lease]
      /\ Sound(l, now)
      /\ \A i \in LeaseSlots : leases[i].used /\ leases[i].expires > now
                              => l[i] = leases[i]
  BY <1>1, SweepSound DEF DhcpInv
<1>3. Sound(l, t)
  BY <1>1, <1>2, LaterSound
<1>4. grants \in Grants
  BY DEF DhcpInv, DhcpTypeOK, Grants
<1> HIDE DEF l
<1>5. Backed(l, t, grants)
  BY <1>1, <1>2, <1>4 DEF DhcpInv, Backed, Grants, Lease
<1>6. Bounded(t, grants)
  BY <1>1, <1>4, DhcpAssumption DEF DhcpInv, Bounded, Grants
<1> QED
  BY <1>1, <1>2, <1>3, <1>5, <1>6 DEF l

\* Giving up one's own grant keeps the others backed.
LEMMA DropGrant ==
    ASSUME NEW l, NEW t \in Nat, NEW g \in Grants, NEW mac \in Clients,
           NEW k, Backed(l, t, g), Bounded(t, g),
           \A i \in LeaseSlots : l[i].used /\ l[i].mac # mac => k[i] = l[i]
    PROVE  LET h == [g EXCEPT ![mac] = NoGrant]
           IN  h \in Grants /\ Backed(k, t, h) /\ Bounded(t, h)
<1> DEFINE h == [g EXCEPT ![mac] = NoGrant]
<1>1. NoGrant \in [ip : Addresses \cup {NoIp}, until : Nat] /\ NoGrant.until = 0
  BY DEF NoGrant
<1>2. h \in Grants
  BY <1>1 DEF Grants
<1>3. Backed(k, t, h)
  <2> SUFFICES ASSUME NEW m \in Clients, h[m].until > t
               PROVE  \E i \in LeaseSlots : /\ k[i].used /\ k[i].mac = m
                                            /\ k[i].ip = h[m].ip
                                            /\ k[i].expires >= h[m].until
    BY DEF Backed
  <2>1. m # mac /\ h[m] = g[m]
    BY <1>1 DEF Grants
  <2> HIDE DEF h
  <2> QED
    BY <2>1 DEF Backed
<1>4. Bounded(t, h)
  BY <1>1, DhcpAssumption DEF Bounded, Grants
<1> QED
  BY <1>2, <1>3, <1>4

\* The server starts with an empty array and no grants.
LEMMA InitInv == DhcpInit => DhcpInv
<1> SUFFICES ASSUME DhcpInit PROVE DhcpInv
  OBVIOUS
<1>1. FreeLease \in Lease /\ ~ FreeLease.used
  BY DhcpAssumption DEF FreeLease, Lease, Addresses
<1>2. NoExchange \in Exchange /\ NoExchange.reply = "none"
  BY DEF NoExchange, Exchange
<1>3. NoGrant \in [ip : Addresses \cup {NoIp}, until : Nat] /\ NoGrant.until = 0
  BY DEF NoGrant
<1>4. DhcpTypeOK
  BY <1>1, <1>2, <1>3 DEF DhcpInit, DhcpTypeOK
<1>5. Sound(leases, now)
  BY <1>1 DEF DhcpInit, Sound
<1>6. Backed(leases, now, grants) /\ Bounded(now, grants)
  BY <1>3, DhcpAssumption DEF DhcpInit, Backed, Bounded
<1> QED
  BY <1>2, <1>4, <1>5, <1>6 DEF DhcpInv, DhcpInit

\* A DISCOVER, whether it is answered or not, keeps the invariant.
LEMMA DiscoverInv ==
    ASSUME DhcpInv, NEW mac \in Clients, NEW heard \in HeardSets,
           NEW t \in now .. now + 1, NEW u \in now .. now + 1,
           Discover(mac, heard, t, u)
    PROVE  DhcpInv'
<1> DEFINE l  == dhcp_sweep_expired(leases, now)
           ip == dhcp_pick_ip(l, t, mac, heard, switch_ip)
           ok == ip # NoIp /\ ClaimSlot(l, mac) # {}
<1>1. t \in {now, now + 1} /\ u \in {now, now + 1} /\ t <= u /\ now' = u
  BY SMTT(30) DEF Discover, At, DhcpInv, DhcpTypeOK
<1>2. /\ t \in Nat /\ u \in Nat
      /\ l \in [LeaseSlots -> Lease]
      /\ Sound(l, t) /\ Sound(l, u)
      /\ Backed(l, u, grants)
      /\ Bounded(u, grants)
  BY <1>1, AfterSweep
<1>3. grants \in Grants
  BY DEF DhcpInv, DhcpTypeOK, Grants
<1>4. ok => ip \in Servable /\ ~ Taken(l, u, ip, mac)
  <2> HIDE DEF l
  <2>1. ok => ip \in Servable /\ ~ Taken(l, t, ip, mac)
    BY <1>2, PickIsServable
  <2> HIDE DEF ip
  <2> QED
    BY <1>1, <1>2, <2>1, LaterFree
<1>5. /\ leases' \in [LeaseSlots -> Lease]
      /\ Sound(leases', u)
      /\ \A i \in LeaseSlots : l[i].used /\ l[i].mac # mac => leases'[i] = l[i]
  <2>1. leases' = IF ok THEN dhcp_claim(l, u, mac, ip, TRUE) ELSE l
    BY DEF Discover
  <2> HIDE DEF l, ip
  <2>2. CASE ok
    <3>1. leases' = dhcp_claim(l, u, mac, ip, TRUE)
      BY <2>1, <2>2
    <3>2. ip \in Servable /\ ~ Taken(l, u, ip, mac) /\ ClaimSlot(l, mac) # {}
      BY <1>4, <2>2
    <3> DEFINE offered == TRUE
    <3>3. offered \in BOOLEAN
      OBVIOUS
    <3>4. leases' = dhcp_claim(l, u, mac, ip, offered)
      BY <3>1
    <3> HIDE DEF offered
    <3> QED
      BY <1>2, <3>2, <3>3, <3>4, ClaimSound
  <2>3. CASE ~ ok
    BY <1>2, <2>1, <2>3, Zenon
  <2> QED
    BY <2>2, <2>3
<1>6. grants' \in Grants /\ Backed(leases', u, grants') /\ Bounded(u, grants')
  <2>1. grants' = [grants EXCEPT ![mac] = NoGrant]
    BY DEF Discover
  <2> HIDE DEF l
  <2> QED
    BY <1>2, <1>3, <1>5, <2>1, DropGrant, Zenon
<1>7. /\ last' \in Exchange
      /\ last'.reply \in {"offer", "ack"} => last'.ip \in Servable
  <2>1. last' = [mac |-> mac, want |-> NoIp,
                 reply |-> IF ok THEN "offer" ELSE "none",
                 ip |-> IF ok THEN ip ELSE NoIp]
    BY Zenon DEF Discover, NoExchange
  <2> HIDE DEF l, ip, ok
  <2>2. CASE ok
    <3>1. ip \in Servable /\ ip \in Addresses
      BY <1>4, <2>2, DhcpAssumption DEF Servable, Addresses, ok
    <3> QED
      BY <2>1, <2>2, <3>1 DEF Exchange
  <2>3. CASE ~ ok
    BY <2>1, <2>3 DEF Exchange
  <2> QED
    BY <2>2, <2>3
<1>8. UNCHANGED <<switch_ip, switch_mac>>
  BY DEF Discover
<1> HIDE DEF l, ip, ok
<1> QED
  BY <1>1, <1>2, <1>5, <1>6, <1>7, <1>8 DEF DhcpInv, DhcpTypeOK, Grants

\* What a REQUEST confirms is the client's only lease, live and servable; no
\* other client has a live lease of that address.
LEMMA ConfirmedLease ==
    ASSUME NEW l \in [LeaseSlots -> Lease], NEW t \in Nat, Sound(l, t),
           NEW mac \in Clients, NEW want, Confirmed(l, t, mac, want) # {}
    PROVE  /\ want \in Servable
           /\ ~ Taken(l, t, want, mac)
           /\ ClaimSlot(l, mac) # {}
           /\ \A i \in LeaseSlots : l[i].used /\ l[i].mac = mac => l[i].ip = want
<1>1. PICK i \in OwnSlots(l, mac) :
          l[i].expires > t /\ l[i].ip = want
  BY DEF Confirmed
<1>2. ClaimSlot(l, mac) # {}
  BY <1>1 DEF ClaimSlot
<1> QED
  BY <1>1, <1>2 DEF OwnSlots, Sound, Taken

\* A client with a live lease of an address has its REQUEST confirmed.
LEMMA LeaseConfirmed ==
    ASSUME NEW l \in [LeaseSlots -> Lease], NEW t \in Nat, Sound(l, t),
           NEW mac \in Clients, NEW i \in LeaseSlots,
           l[i].used, l[i].mac = mac, l[i].expires > t
    PROVE  Confirmed(l, t, mac, l[i].ip) # {}
<1>1. OwnSlots(l, mac) = {i}
  BY DEF OwnSlots, Sound
<1>2. First({i}) \in {i}
  BY FirstIsLeast
<1>3. i \in Confirmed(l, t, mac, l[i].ip)
  BY <1>1, <1>2 DEF Confirmed
<1> QED
  BY <1>3

\* A REQUEST, acknowledged or not and whether its reply arrives or is lost,
\* keeps the invariant.
LEMMA RequestInv ==
    ASSUME DhcpInv, NEW mac \in Clients, NEW want \in Wanted \cup {NoIp},
           NEW t \in now .. now + 1, NEW u \in now .. now + 1,
           NEW received \in BOOLEAN, Request(mac, want, t, u, received)
    PROVE  DhcpInv'
<1> DEFINE l   == dhcp_sweep_expired(leases, now)
           ack == Confirmed(l, t, mac, want) # {}
           nak == ~ ack /\ want \in Addresses
<1>1. t \in {now, now + 1} /\ u \in {now, now + 1} /\ t <= u /\ now' = u
  BY SMTT(30) DEF Request, At, DhcpInv, DhcpTypeOK
<1>2. /\ t \in Nat /\ u \in Nat
      /\ l \in [LeaseSlots -> Lease]
      /\ Sound(l, t) /\ Sound(l, u)
      /\ Backed(l, u, grants)
      /\ Bounded(u, grants)
  BY <1>1, AfterSweep
<1>3. grants \in Grants /\ want \in Addresses \cup {NoIp}
  BY DhcpAssumption DEF DhcpInv, DhcpTypeOK, Grants, Addresses
<1>4. last' = [mac |-> mac, want |-> want,
               reply |-> IF ack THEN "ack" ELSE IF nak THEN "nak" ELSE "none",
               ip |-> IF ack THEN want ELSE NoIp]
  BY Zenon DEF Request, NoExchange
<1>5. leases' = IF ack THEN dhcp_claim(l, u, mac, want, FALSE) ELSE l
  BY DEF Request
<1>6. grants' = IF ~ received THEN grants
                ELSE [grants EXCEPT ![mac] =
                         IF ack THEN [ip |-> want, until |-> u + DHCP_LEASE_TIME]
                         ELSE NoGrant]
  BY DEF Request
<1>7. UNCHANGED <<switch_ip, switch_mac>>
  BY DEF Request
<1> HIDE DEF l
<1>8. CASE ack
  <2>1. /\ want \in Servable
        /\ ~ Taken(l, u, want, mac)
        /\ ClaimSlot(l, mac) # {}
        /\ \A i \in LeaseSlots : l[i].used /\ l[i].mac = mac => l[i].ip = want
    BY <1>1, <1>2, <1>8, ConfirmedLease, LaterFree
  <2>2. leases' = dhcp_claim(l, u, mac, want, FALSE)
    BY <1>5, <1>8
  <2>3. /\ leases' \in [LeaseSlots -> Lease]
        /\ Sound(leases', u)
        /\ \A i \in LeaseSlots : l[i].used /\ l[i].mac # mac => leases'[i] = l[i]
        /\ \E s \in LeaseSlots :
               /\ leases'[s].used /\ leases'[s].mac = mac
               /\ leases'[s].ip = want
               /\ leases'[s].expires = u + DHCP_LEASE_TIME
    <3> DEFINE offered == FALSE
    <3>1. offered \in BOOLEAN /\ ~ offered
      OBVIOUS
    <3>2. leases' = dhcp_claim(l, u, mac, want, offered)
      BY <2>2
    <3> HIDE DEF offered, ack, nak
    <3> QED
      BY <1>2, <2>1, <3>1, <3>2, ClaimSound
  <2>4. last' \in Exchange /\ last'.ip \in Servable
    <3>1. last' = [mac |-> mac, want |-> want, reply |-> "ack", ip |-> want]
      BY <1>4, <1>8
    <3> QED
      BY <1>3, <2>1, <3>1 DEF Exchange, Servable, Addresses
  <2> DEFINE given == [ip |-> want, until |-> u + DHCP_LEASE_TIME]
  <2>5. given \in [ip : Addresses \cup {NoIp}, until : Nat]
    BY <1>2, <1>3, DhcpAssumption
  <2>6. given.ip = want /\ given.until = u + DHCP_LEASE_TIME
    OBVIOUS
  <2>7. grants' = grants \/ grants' = [grants EXCEPT ![mac] = given]
    BY <1>6, <1>8
  <2> HIDE DEF given, ack, nak
  <2>8. /\ grants' \in Grants
        /\ \A m \in Clients : m # mac => grants'[m] = grants[m]
        /\ grants'[mac] = grants[mac] \/ grants'[mac] = given
    BY <1>3, <2>5, <2>7 DEF Grants
  <2>9. Bounded(u, grants')
    BY <1>2, <2>6, <2>8, SMTT(30) DEF Bounded, Grants
  <2>10. Backed(leases', u, grants')
    <3> SUFFICES ASSUME NEW m \in Clients, grants'[m].until > u
                 PROVE  \E i \in LeaseSlots :
                            /\ leases'[i].used /\ leases'[i].mac = m
                            /\ leases'[i].ip = grants'[m].ip
                            /\ leases'[i].expires >= grants'[m].until
      BY SMTT(30) DEF Backed
    <3>1. CASE m # mac
      BY <1>2, <2>3, <2>8, <3>1 DEF Backed
    <3>2. CASE m = mac
      <4>1. grants'[mac].ip = want
        BY <1>2, <2>1, <2>6, <2>8, <3>2 DEF Backed
      <4>2. grants'[mac].until <= u + DHCP_LEASE_TIME
        BY <2>9 DEF Bounded
      <4>3. PICK s \in LeaseSlots :
               /\ leases'[s].used /\ leases'[s].mac = mac
               /\ leases'[s].ip = want
               /\ leases'[s].expires = u + DHCP_LEASE_TIME
        BY <2>3, SMTT(30)
      <4>4. grants'[mac].until \in Nat /\ u + DHCP_LEASE_TIME \in Nat
        BY <1>2, <2>8, DhcpAssumption DEF Grants
      <4> QED
        BY <3>2, <4>1, <4>2, <4>3, <4>4, SMTT(30)
    <3> QED
      BY <3>1, <3>2
  <2> QED
    BY <1>1, <1>2, <1>7, <2>3, <2>4, <2>8, <2>9, <2>10
    DEF DhcpInv, DhcpTypeOK, Grants
<1>9. CASE ~ ack
  <2>1. leases' = l
    BY <1>5, <1>9
  <2>2. last' \in Exchange /\ last'.reply \notin {"offer", "ack"}
    <3>1. last' = [mac |-> mac, want |-> want,
                   reply |-> IF nak THEN "nak" ELSE "none", ip |-> NoIp]
      BY <1>4, <1>9
    <3> HIDE DEF ack, nak
    <3> QED
      BY <1>3, <3>1 DEF Exchange
  <2>3. grants' = grants \/ grants' = [grants EXCEPT ![mac] = NoGrant]
    BY <1>6, <1>9
  <2>4. grants' \in Grants /\ Backed(l, u, grants') /\ Bounded(u, grants')
    BY <1>2, <1>3, <2>3, DropGrant
  <2> HIDE DEF ack, nak
  <2> QED
    BY <1>1, <1>2, <1>7, <2>1, <2>2, <2>4 DEF DhcpInv, DhcpTypeOK, Grants
<1> QED
  BY <1>8, <1>9

\* RELEASE gives up the lease and the grant of its sender only.
LEMMA ReleaseInv ==
    ASSUME DhcpInv, NEW mac \in Clients, Release(mac)
    PROVE  DhcpInv'
<1> DEFINE l == dhcp_sweep_expired(leases, now)
<1>1. /\ now \in Nat
      /\ l \in [LeaseSlots -> Lease]
      /\ Sound(l, now)
      /\ Backed(l, now, grants)
      /\ Bounded(now, grants)
  BY AfterSweep
<1>2. FreeLease \in Lease /\ ~ FreeLease.used
  BY DhcpAssumption DEF FreeLease, Lease, Addresses
<1>3. leases' = [i \in LeaseSlots |->
                    IF OwnSlots(l, mac) # {} /\ i = First(OwnSlots(l, mac))
                    THEN FreeLease ELSE l[i]]
  BY DEF Release
<1> HIDE DEF l
<1>4. OwnSlots(l, mac) # {} => First(OwnSlots(l, mac)) \in OwnSlots(l, mac)
  <2>1. OwnSlots(l, mac) \in SUBSET LeaseSlots
    BY DEF OwnSlots
  <2> QED
    BY <2>1, FirstIsLeast
<1>5. /\ leases' \in [LeaseSlots -> Lease]
      /\ \A i \in LeaseSlots : leases'[i] = l[i] \/ leases'[i] = FreeLease
      /\ \A i \in LeaseSlots : l[i].used /\ l[i].mac # mac => leases'[i] = l[i]
  BY <1>1, <1>2, <1>3, <1>4 DEF OwnSlots
<1>6. Sound(leases', now)
  BY <1>1, <1>2, <1>5 DEF Sound
<1>7. grants' \in Grants /\ Backed(leases', now, grants') /\ Bounded(now, grants')
  <2>1. grants' = [grants EXCEPT ![mac] = NoGrant] /\ grants \in Grants
    BY DEF Release, DhcpInv, DhcpTypeOK, Grants
  <2> QED
    BY <1>1, <1>5, <2>1, DropGrant, Zenon
<1>8. last' \in Exchange /\ last'.reply = "none"
  BY DEF Release, NoExchange, Exchange
<1>9. UNCHANGED <<switch_ip, switch_mac, now>>
  BY DEF Release
<1> QED
  BY <1>5, <1>6, <1>7, <1>8, <1>9 DEF DhcpInv, DhcpTypeOK, Grants

\* Every step of the server, its clients and the clock keeps the invariant.
LEMMA NextInv == DhcpInv /\ [DhcpNext]_dhcp_vars => DhcpInv'
<1> SUFFICES ASSUME DhcpInv, [DhcpNext]_dhcp_vars PROVE DhcpInv'
  OBVIOUS
<1>1. NoExchange \in Exchange /\ NoExchange.reply = "none"
  BY DEF NoExchange, Exchange
<1>2. CASE Ignored
  <2>1. /\ leases' \in [LeaseSlots -> Lease]
        /\ Sound(leases', now)
        /\ Backed(leases', now, grants)
    BY <1>2, AfterSweep DEF Ignored
  <2> QED
    BY <1>1, <1>2, <2>1 DEF Ignored, DhcpInv, DhcpTypeOK
<1>3. ASSUME NEW mac \in Clients, NEW ip \in Configured, LearnSwitch(mac, ip)
      PROVE  DhcpInv'
  <2>1. ip \in Addresses
    BY DhcpAssumption
  <2> QED
    BY <1>1, <1>3, <2>1 DEF LearnSwitch, DhcpInv, DhcpTypeOK
<1>4. CASE DhcpTick
  <2>1. now \in Nat /\ now + 1 \in Nat /\ leases \in [LeaseSlots -> Lease]
        /\ grants \in Grants
    BY DEF DhcpInv, DhcpTypeOK, Grants
  <2>2. Sound(leases, now + 1)
    BY <2>1, LaterSound DEF DhcpInv
  <2>3. Backed(leases, now + 1, grants) /\ Bounded(now + 1, grants)
    BY <2>1, DhcpAssumption, SMTT(30) DEF DhcpInv, Backed, Bounded, Grants
  <2> QED
    BY <1>1, <1>4, <2>1, <2>2, <2>3 DEF DhcpTick, DhcpInv, DhcpTypeOK
<1>5. CASE UNCHANGED dhcp_vars
  BY <1>5 DEF dhcp_vars, DhcpInv, DhcpTypeOK, Sound, Backed, Bounded
<1> QED
  BY <1>2, <1>3, <1>4, <1>5, DiscoverInv, RequestInv, ReleaseInv, Zenon DEF DhcpNext

\* Every exchange and every tick preserve the invariant, so it always holds.
LEMMA DhcpInvariantHolds == DhcpSpec => []DhcpInv
  BY InitInv, NextInv, PTL DEF DhcpSpec

-----------------------------------------------------------------------------
(* The results.                                                            *)

\* The server's data keep their shape, whatever clients send and when.
THEOREM DhcpTypeCorrect == DhcpSpec => []DhcpTypeOK
<1>1. DhcpInv => DhcpTypeOK
  BY DEF DhcpInv
<1> QED
  BY <1>1, DhcpInvariantHolds, PTL

\* No client ever owns two slots and no address is leased or on offer twice,
\* although dhcp_pick_ip and dhcp_claim each read the clock for themselves.
THEOREM LeasesAreUnique == DhcpSpec => []LeaseUnique
<1>1. DhcpInv => LeaseUnique
  BY DEF DhcpInv, Sound, LeaseUnique, Live
<1> QED
  BY <1>1, DhcpInvariantHolds, PTL

\* What a console was acknowledged stays in the lease array until it ends,
\* however many consoles compete for the slots.
THEOREM GrantsAreBacked == DhcpSpec => []GrantBacked
<1>1. DhcpInv => GrantBacked
  BY SMTT(30) DEF DhcpInv, Backed, GrantBacked
<1> QED
  BY <1>1, DhcpInvariantHolds, PTL

\* Two consoles never both rely on one acknowledged address.
THEOREM GrantsAreExclusive == DhcpSpec => []ExclusiveGrant
<1>1. DhcpInv => ExclusiveGrant
  <2> SUFFICES ASSUME DhcpInv, NEW m \in Clients, NEW n \in Clients, m # n,
                      grants[m].until > now, grants[n].until > now
               PROVE  grants[m].ip # grants[n].ip
    BY DEF ExclusiveGrant
  <2>1. now \in Nat /\ grants \in Grants /\ leases \in [LeaseSlots -> Lease]
    BY DEF DhcpInv, DhcpTypeOK, Grants
  <2>2. PICK i \in LeaseSlots : /\ leases[i].used /\ leases[i].mac = m
                                /\ leases[i].ip = grants[m].ip
                                /\ leases[i].expires >= grants[m].until
    BY DEF DhcpInv, Backed
  <2>3. PICK j \in LeaseSlots : /\ leases[j].used /\ leases[j].mac = n
                                /\ leases[j].ip = grants[n].ip
                                /\ leases[j].expires >= grants[n].until
    BY DEF DhcpInv, Backed
  <2>4. i # j
    BY <2>2, <2>3
  <2>5. leases[i].expires > now /\ leases[j].expires > now
    BY <2>1, <2>2, <2>3 DEF Grants, Lease
  <2> QED
    BY <2>2, <2>3, <2>4, <2>5 DEF DhcpInv, Sound
<1> QED
  BY <1>1, DhcpInvariantHolds, PTL

\* Only host addresses are offered or acknowledged, and the fake gateway's
\* never, unless the relay itself has that address.
THEOREM HostAddressesOnly == DhcpSpec => []ServesHostAddresses
<1>1. DhcpInv => ServesHostAddresses
  BY DEF DhcpInv, ServesHostAddresses, Servable
<1> QED
  BY <1>1, DhcpInvariantHolds, PTL

\* A renewal that reaches the server while the grant runs is acknowledged.
THEOREM RenewalsAreHonoured == DhcpSpec => RenewalHonoured
<1>1. ASSUME DhcpInv, [DhcpNext]_dhcp_vars, NEW m \in Clients,
             last'.mac = m, last'.want = grants[m].ip, grants[m].until > now',
             ~ UNCHANGED dhcp_vars
      PROVE  last'.reply = "ack"
  <2>1. now \in Nat /\ grants \in Grants /\ leases \in [LeaseSlots -> Lease]
    BY <1>1 DEF DhcpInv, DhcpTypeOK, Grants
  <2>2. now' \in {now, now + 1}
    <3>1. ASSUME NEW mac \in Clients, NEW heard \in HeardSets,
                 NEW t \in now .. now + 1, NEW u \in now .. now + 1,
                 Discover(mac, heard, t, u)
          PROVE  now' \in {now, now + 1}
      BY <2>1, <3>1 DEF Discover, At
    <3>2. ASSUME NEW mac \in Clients, NEW want \in Wanted \cup {NoIp},
                 NEW t \in now .. now + 1, NEW u \in now .. now + 1,
                 NEW received \in BOOLEAN, Request(mac, want, t, u, received)
          PROVE  now' \in {now, now + 1}
      BY <2>1, <3>2, SMTT(30) DEF Request, At
    <3> QED
      BY <1>1, <3>1, <3>2 DEF DhcpNext, Release, Ignored, LearnSwitch, DhcpTick
  <2> DEFINE l == dhcp_sweep_expired(leases, now)
  <2>3. /\ now' \in Nat
        /\ l \in [LeaseSlots -> Lease]
        /\ Sound(l, now')
        /\ Backed(l, now', grants)
    BY <1>1, <2>2, AfterSweep, ZenonT(60)
  <2> HIDE DEF l
  <2>4. PICK i \in LeaseSlots : /\ l[i].used /\ l[i].mac = m
                                /\ l[i].ip = grants[m].ip
                                /\ l[i].expires >= grants[m].until
    BY <1>1, <2>3 DEF Backed
  <2>5. l[i].expires > now' /\ grants[m].ip # NoIp
    BY <1>1, <2>1, <2>3, <2>4, DhcpAssumption, SMTT(30) DEF Grants, Lease
  <2>6. ASSUME NEW t \in {now, now + 1}, t <= now'
        PROVE  Confirmed(l, t, m, grants[m].ip) # {}
    <3>1. t \in Nat /\ Sound(l, t)
      BY <1>1, <2>6, AfterSweep DEF l
    <3>2. l[i].expires > t
      BY <2>3, <2>5, <2>6, <3>1, SMTT(30) DEF Lease
    <3> QED
      BY <2>3, <2>4, <3>1, <3>2, LeaseConfirmed, SMTT(30)
  <2>7. ASSUME NEW mac \in Clients, NEW want \in Wanted \cup {NoIp},
               NEW t \in now .. now + 1, NEW u \in now .. now + 1,
               NEW received \in BOOLEAN, Request(mac, want, t, u, received)
        PROVE  last'.reply = "ack"
    <3>1. /\ last'.mac = mac /\ last'.want = want
          /\ Confirmed(l, t, mac, want) # {} => last'.reply = "ack"
      BY <2>7 DEF Request, NoExchange, l
    <3>2. t \in {now, now + 1} /\ t <= now'
      BY <2>1, <2>7 DEF Request, At
    <3> QED
      BY <1>1, <2>6, <3>1, <3>2
  <2>8. ASSUME NEW mac \in Clients, NEW heard \in HeardSets,
               NEW t \in now .. now + 1, NEW u \in now .. now + 1,
                 Discover(mac, heard, t, u)
        PROVE  FALSE
    <3>1. last'.want = NoIp
      BY <2>8 DEF Discover, NoExchange
    <3> QED
      BY <1>1, <2>5, <3>1
  <2>9. last' # NoExchange
    BY <1>1, DhcpAssumption DEF NoExchange
  <2> QED
    BY <1>1, <2>7, <2>8, <2>9 DEF DhcpNext, Release, Ignored, LearnSwitch, DhcpTick
<1>2. DhcpInv /\ [DhcpNext]_dhcp_vars =>
        [\A m \in Clients :
            /\ last'.mac = m
            /\ last'.want = grants[m].ip
            /\ grants[m].until > now'
            => last'.reply = "ack"]_dhcp_vars
  BY <1>1
<1> QED
  BY <1>2, DhcpInvariantHolds, PTL DEF DhcpSpec, RenewalHonoured

-----------------------------------------------------------------------------
(* The table of ARP.                                                       *)

\* A scan that accepts some slot stops at the least of them (the loops over
\* arp_list in arp.c, which return at the first match).
LEMMA FirstSlotIsLeast ==
    ASSUME NEW S \in SUBSET Slots, S # {}
    PROVE  /\ FirstSlot(S) \in S
           /\ \A j \in S : FirstSlot(S) <= j
<1>1. S \in SUBSET Nat
  BY ArpAssumption DEF Slots
<1> QED
  BY <1>1, LeastExists, Zenon DEF FirstSlot

\* arp_set writes exactly one slot, or none when the table is full; that slot
\* held no live item of another address, and every slot below it holds a
\* different address.
LEMMA ArpSetWritesOneSlot ==
    ASSUME NEW l \in [Slots -> Item], NEW t \in Nat,
           NEW mac \in MAC, NEW ip \in IPv4,
           ReusableSlots(l, t, ip) # {}
    PROVE  \E f \in Slots :
               /\ arp_set(l, t, mac, ip) =
                    [l EXCEPT ![f] = [ip |-> ip, mac |-> mac,
                                      expire_at |-> t + ARP_TTL]]
               /\ \/ l[f].ip = NONE_IP
                  \/ l[f].ip = ip
                  \/ l[f].expire_at < t
               /\ \A i \in Slots : l[i].ip = ip => f <= i
<1> DEFINE S == ReusableSlots(l, t, ip)
           f == FirstSlot(S)
<1>1. S \in SUBSET Slots
  BY DEF ReusableSlots
<1>2. f \in S /\ \A i \in S : f <= i
  <2> HIDE DEF S
  <2> QED
    BY <1>1, FirstSlotIsLeast DEF S
<1>3. \A i \in Slots : l[i].ip = ip => i \in S
  BY DEF ReusableSlots
<1>4. arp_set(l, t, mac, ip) =
        [l EXCEPT ![f] = [ip |-> ip, mac |-> mac, expire_at |-> t + ARP_TTL]]
  BY SMTT(30) DEF arp_set
<1>5. l[f].ip = NONE_IP \/ l[f].ip = ip \/ l[f].expire_at < t
  BY <1>2 DEF ReusableSlots
<1>6. f \in Slots
  BY <1>1, <1>2
<1> HIDE DEF f, S
<1> QED
  BY <1>2, <1>3, <1>4, <1>5, <1>6, Zenon

\* A full table is left as it is.
LEMMA ArpSetFull ==
    ASSUME NEW l, NEW t, NEW mac, NEW ip, ReusableSlots(l, t, ip) = {}
    PROVE  arp_set(l, t, mac, ip) = l
  BY DEF arp_set

\* The table keeps its shape: arp_set stays inside arp_list.
LEMMA ArpSetType ==
    ASSUME NEW l \in [Slots -> Item], NEW t \in Nat,
           NEW mac \in MAC, NEW ip \in IPv4
    PROVE  arp_set(l, t, mac, ip) \in [Slots -> Item]
<1>1. t + ARP_TTL \in Nat
  BY ArpAssumption
<1>2. [ip |-> ip, mac |-> mac, expire_at |-> t + ARP_TTL] \in Item
  BY <1>1 DEF Item
<1>3. CASE ReusableSlots(l, t, ip) = {}
  BY <1>3, ArpSetFull
<1>4. CASE ReusableSlots(l, t, ip) # {}
  <2>1. PICK f \in Slots :
            arp_set(l, t, mac, ip) =
              [l EXCEPT ![f] = [ip |-> ip, mac |-> mac,
                                expire_at |-> t + ARP_TTL]]
    BY <1>4, ArpSetWritesOneSlot
  <2> QED
    BY <1>2, <2>1
<1> QED
  BY <1>3, <1>4

-----------------------------------------------------------------------------
\* Init and every step keep the table and the clock in their types.
THEOREM TypeCorrect == Spec => []TypeOK
<1>1. Init => TypeOK
  <2> SUFFICES ASSUME Init PROVE TypeOK
    OBVIOUS
  <2>1. [ip |-> NONE_IP, mac |-> ZERO_MAC, expire_at |-> 0] \in Item
    BY ArpAssumption DEF Item
  <2> QED
    BY <2>1 DEF Init, TypeOK, arp_list_init
<1>2. TypeOK /\ [Next]_vars => TypeOK'
  <2> SUFFICES ASSUME TypeOK, [Next]_vars PROVE TypeOK'
    OBVIOUS
  <2> USE DEF TypeOK
  <2>1. ASSUME NEW mac \in MAC, NEW ip \in IPv4, Hear(mac, ip)
        PROVE  TypeOK'
    BY <2>1, ArpSetType DEF Hear
  <2>2. CASE Tick
    BY <2>2 DEF Tick
  <2>3. CASE UNCHANGED vars
    BY <2>3 DEF vars
  <2> QED
    BY <2>1, <2>2, <2>3 DEF Next
<1> QED
  BY <1>1, <1>2, PTL DEF Spec

\* The inductive strengthening of NewestFirst: no item outlives a lifetime
\* that starts now, so an item written now expires last.
ExpiryBounded ==
    \A i \in Slots : list[i].expire_at <= now + ARP_TTL

IInv == TypeOK /\ NewestFirst /\ ExpiryBounded

\* A call of arp_set keeps the order of the duplicates of an address.
LEMMA HearKeepsOrder ==
    ASSUME IInv, TypeOK', NEW mac \in MAC, NEW ip \in IPv4, Hear(mac, ip)
    PROVE  (NewestFirst /\ ExpiryBounded)'
<1> USE DEF IInv, TypeOK, Hear
<1>1. CASE ReusableSlots(list, now, ip) = {}
  BY <1>1, ArpSetFull DEF NewestFirst, ExpiryBounded
<1>2. CASE ReusableSlots(list, now, ip) # {}
  <2> DEFINE new == [ip |-> ip, mac |-> mac, expire_at |-> now + ARP_TTL]
  <2>1. PICK f \in Slots :
            /\ list' = [list EXCEPT ![f] = new]
            /\ \A i \in Slots : list[i].ip = ip => f <= i
    BY <1>2, ArpSetWritesOneSlot
  <2>2. ExpiryBounded'
    BY <2>1, ArpAssumption DEF ExpiryBounded, Item
  <2>3. ASSUME NEW i \in Slots, NEW j \in Slots, i < j,
               list'[i].ip = list'[j].ip, list'[i].ip # NONE_IP
        PROVE  list'[i].expire_at >= list'[j].expire_at
    <3>1. CASE i = f
      BY <2>1, <2>3, <3>1, ArpAssumption, SMTT(30) DEF ExpiryBounded, Item, Slots
    <3>2. CASE j = f
      <4>1. list[i].ip = ip
        BY <2>1, <2>3, <3>2 DEF Slots
      <4> QED
        BY <2>1, <2>3, <3>2, <4>1, ArpAssumption, SMTT(30) DEF Slots
    <3>3. CASE i # f /\ j # f
      BY <2>1, <2>3, <3>3 DEF NewestFirst
    <3> QED
      BY <3>1, <3>2, <3>3
  <2> QED
    BY <2>2, <2>3 DEF NewestFirst
<1> QED
  BY <1>1, <1>2

\* The inductive invariant holds in every reachable state of the table.
LEMMA InvariantHolds == Spec => []IInv
<1>1. Init => NewestFirst /\ ExpiryBounded
  BY ArpAssumption
  DEF Init, NewestFirst, ExpiryBounded, arp_list_init
<1>2. IInv /\ TypeOK' /\ [Next]_vars => (NewestFirst /\ ExpiryBounded)'
  <2> SUFFICES ASSUME IInv, TypeOK', [Next]_vars
               PROVE  (NewestFirst /\ ExpiryBounded)'
    OBVIOUS
  <2>1. CASE Tick
    BY <2>1, ArpAssumption
    DEF Tick, IInv, TypeOK, NewestFirst, ExpiryBounded, Item
  <2>2. CASE UNCHANGED vars
    BY <2>2 DEF vars, IInv, NewestFirst, ExpiryBounded
  <2> QED
    BY <2>1, <2>2, HearKeepsOrder DEF Next
<1> QED
  BY <1>1, <1>2, TypeCorrect, PTL DEF Spec, IInv

\* The invariant behind the scan order of arp_get_mac_by_ip holds for every
\* table: of two items of an address the lower one never expires first.
THEOREM OrderCorrect == Spec => []NewestFirst
  BY InvariantHolds, PTL DEF IInv

-----------------------------------------------------------------------------
\* A lookup finds a given slot when that slot is live for the address and no
\* slot below it holds the address (the first match of arp_get_mac_by_ip).
LEMMA BindingOfFirst ==
    ASSUME NEW l \in [Slots -> Item], NEW t \in Nat, NEW ip, NEW f \in Slots,
           f \in LiveSlots(l, t, ip),
           \A i \in LiveSlots(l, t, ip) : f <= i
    PROVE  Binding(l, t, ip) = [mac |-> l[f].mac, until |-> l[f].expire_at]
<1> DEFINE L == LiveSlots(l, t, ip)
<1>1. L \in SUBSET Slots /\ L # {}
  BY DEF LiveSlots
<1>2. FirstSlot(L) \in L /\ FirstSlot(L) <= f
  <2> HIDE DEF L
  <2> QED
    BY <1>1, FirstSlotIsLeast DEF L
<1>3. f <= FirstSlot(L)
  BY <1>2
<1>4. FirstSlot(L) = f
  BY <1>1, <1>2, <1>3, ArpAssumption DEF Slots
<1> QED
  BY <1>1, <1>4 DEF Binding

\* Two tables answer alike for an address for which the same slots are live
\* with the same content.
LEMMA BindingDependsOnLive ==
    ASSUME NEW l \in [Slots -> Item], NEW m \in [Slots -> Item],
           NEW t \in Nat, NEW ip,
           LiveSlots(l, t, ip) = LiveSlots(m, t, ip),
           \A i \in LiveSlots(l, t, ip) : l[i] = m[i]
    PROVE  Binding(l, t, ip) = Binding(m, t, ip)
<1> DEFINE L == LiveSlots(l, t, ip)
<1>1. CASE L = {}
  BY <1>1, SMTT(30) DEF Binding
<1>2. CASE L # {}
  <2>1. L \in SUBSET Slots
    BY DEF LiveSlots
  <2>2. FirstSlot(L) \in L
    <3> HIDE DEF L
    <3> QED
      BY <1>2, <2>1, FirstSlotIsLeast DEF L
  <2> QED
    BY <2>2 DEF Binding
<1> QED
  BY <1>1, <1>2, SMTT(30)

\* arp_set for one address leaves the answer for every other host alone, even
\* when it reuses a slot that the other host held.
LEMMA ArpSetSparesOthers ==
    ASSUME NEW l \in [Slots -> Item], NEW t \in Nat,
           NEW mac \in MAC, NEW ip \in IPv4,
           NEW h \in IPv4 \ {NONE_IP}, h # ip
    PROVE  Binding(arp_set(l, t, mac, ip), t, h) = Binding(l, t, h)
<1> DEFINE m == arp_set(l, t, mac, ip)
<1>1. CASE ReusableSlots(l, t, ip) = {}
  BY <1>1, ArpSetFull
<1>2. CASE ReusableSlots(l, t, ip) # {}
  <2>1. PICK f \in Slots :
            /\ m = [l EXCEPT ![f] = [ip |-> ip, mac |-> mac,
                                     expire_at |-> t + ARP_TTL]]
            /\ l[f].ip = NONE_IP \/ l[f].ip = ip \/ l[f].expire_at < t
    BY <1>2, ArpSetWritesOneSlot
  <2>2. m \in [Slots -> Item]
    BY ArpSetType, SMTT(30)
  <2>3. f \notin LiveSlots(l, t, h) /\ f \notin LiveSlots(m, t, h)
    <3>1. l[f].expire_at \in Nat
      BY DEF Item
    <3> QED
      BY <2>1, <3>1 DEF LiveSlots
  <2> HIDE DEF m
  <2>4. \A i \in Slots \ {f} : m[i] = l[i]
    BY <2>1
  <2>5. LiveSlots(m, t, h) = LiveSlots(l, t, h)
    BY <2>3, <2>4 DEF LiveSlots
  <2>6. \A i \in LiveSlots(m, t, h) : m[i] = l[i]
    BY <2>3, <2>4 DEF LiveSlots
  <2>7. Binding(m, t, h) = Binding(l, t, h)
    BY <2>2, <2>5, <2>6, BindingDependsOnLive, SMTT(30)
  <2> QED
    BY <2>7 DEF m
<1> QED
  BY <1>1, <1>2

\* After a successful arp_set the lookup answers with the new MAC for a whole
\* lifetime, whatever older items of the address the table still holds.
LEMMA ArpSetBinds ==
    ASSUME NEW l \in [Slots -> Item], NEW t \in Nat,
           NEW mac \in MAC, NEW ip \in IPv4 \ {NONE_IP},
           ReusableSlots(l, t, ip) # {}
    PROVE  Binding(arp_set(l, t, mac, ip), t, ip)
             = [mac |-> mac, until |-> t + ARP_TTL]
<1> DEFINE m == arp_set(l, t, mac, ip)
<1>1. PICK f \in Slots :
          /\ m = [l EXCEPT ![f] = [ip |-> ip, mac |-> mac,
                                   expire_at |-> t + ARP_TTL]]
          /\ \A i \in Slots : l[i].ip = ip => f <= i
  BY ArpSetWritesOneSlot
<1>2. m \in [Slots -> Item]
  BY ArpSetType
<1> HIDE DEF m
<1>3. m[f] = [ip |-> ip, mac |-> mac, expire_at |-> t + ARP_TTL]
  BY <1>1, SMTT(30)
<1>4. f \in LiveSlots(m, t, ip)
  BY <1>3, ArpAssumption DEF LiveSlots
<1>5. \A i \in LiveSlots(m, t, ip) : f <= i
  BY <1>1, ArpAssumption DEF LiveSlots, Slots
<1>6. Binding(m, t, ip) = [mac |-> m[f].mac, until |-> m[f].expire_at]
  BY <1>2, <1>4, <1>5, BindingOfFirst, SMTT(30)
<1> QED
  BY <1>3, <1>6 DEF m

\* When a second passes, a lookup keeps its answer or misses: it never falls
\* through to an older item of the address.  This is where the order of the
\* duplicates is needed.
LEMMA TickKeepsOrDrops ==
    ASSUME IInv, NEW h \in IPv4 \ {NONE_IP}
    PROVE  Binding(list, now + 1, h) =
             IF Binding(list, now, h).until > now + 1
             THEN Binding(list, now, h)
             ELSE [mac |-> ZERO_MAC, until |-> 0]
<1> DEFINE L == LiveSlots(list, now, h)
           M == LiveSlots(list, now + 1, h)
           f == FirstSlot(L)
<1> USE DEF IInv, TypeOK
<1>1. L \in SUBSET Slots /\ M \in SUBSET Slots /\ now + 1 \in Nat
  BY DEF LiveSlots
<1>2. M \subseteq L
  BY DEF LiveSlots, Item
<1>3. CASE L = {}
  <2>1. Binding(list, now, h) = [mac |-> ZERO_MAC, until |-> 0]
    BY <1>3, SMTT(30) DEF Binding
  <2>2. Binding(list, now + 1, h) = [mac |-> ZERO_MAC, until |-> 0]
    BY <1>2, <1>3, SMTT(30) DEF Binding
  <2> QED
    BY <2>1, <2>2, SMTT(30)
<1>4. CASE L # {}
  <2>1. f \in L /\ \A j \in L : f <= j
    <3> HIDE DEF L
    <3> QED
      BY <1>1, <1>4, FirstSlotIsLeast, SMTT(30) DEF L
  <2>2. Binding(list, now, h) = [mac |-> list[f].mac, until |-> list[f].expire_at]
    BY <1>4, SMTT(30) DEF Binding
  <2>3. f \in Slots /\ list[f].expire_at \in Nat /\ list[f].ip = h
    BY <1>1, <2>1, SMTT(30) DEF LiveSlots, Item
  <2>4. CASE list[f].expire_at > now + 1
    <3>1. f \in M
      BY <2>3, <2>4 DEF LiveSlots
    <3>2. \A j \in M : f <= j
      BY <1>2, <2>1
    <3> HIDE DEF f, L
    <3>3. Binding(list, now + 1, h)
            = [mac |-> list[f].mac, until |-> list[f].expire_at]
      BY <1>1, <2>3, <3>1, <3>2, BindingOfFirst, SMTT(30)
    <3> QED
      BY <2>2, <2>4, <3>3, SMTT(30)
  <2>5. CASE ~ (list[f].expire_at > now + 1)
    <3>1. ASSUME NEW j \in M
          PROVE  FALSE
      <4>1. j \in Slots /\ list[j].ip = h /\ list[j].expire_at > now + 1
        BY <3>1 DEF LiveSlots
      <4>2. f < j
        BY <1>1, <1>2, <2>1, <2>5, <3>1, <4>1, ArpAssumption DEF Slots
      <4> HIDE DEF f
      <4>3. list[f].expire_at >= list[j].expire_at
        BY <2>3, <4>1, <4>2, SMTT(30) DEF NewestFirst
      <4> QED
        BY <2>3, <2>5, <4>1, <4>3 DEF Item
    <3>2. Binding(list, now + 1, h) = [mac |-> ZERO_MAC, until |-> 0]
      BY <3>1 DEF Binding
    <3> QED
      BY <2>2, <2>5, <3>2
  <2> QED
    BY <2>4, <2>5
<1> QED
  BY <1>3, <1>4

\* The array of arp.c implements the timed map of ArpMap: every call of
\* arp_set is a Learn or leaves all answers alone, and every second is a Tick.
THEOREM CacheImplementsMap == Spec => ImplementsMap
<1> DEFINE bind == [ip \in IPv4 \ {NONE_IP} |-> Binding(list, now, ip)]
<1>1. Init => Map!Init
  <2> SUFFICES ASSUME Init PROVE Map!Init
    OBVIOUS
  <2>1. ASSUME NEW h \in IPv4 \ {NONE_IP}
        PROVE  Binding(list, now, h) = [mac |-> ZERO_MAC, until |-> 0]
    <3>1. LiveSlots(list, now, h) = {}
      BY DEF Init, arp_list_init, LiveSlots
    <3> QED
      BY <3>1 DEF Binding
  <2> QED
    BY <2>1 DEF Init, Map!Init, Map!Hosts, Map!Unbound
<1>2. IInv /\ [Next]_vars => [Map!Next]_<<bind, now>>
  <2> SUFFICES ASSUME IInv, [Next]_vars
               PROVE  [Map!Next]_<<bind, now>>
    OBVIOUS
  <2> USE DEF IInv, TypeOK
  <2>1. ASSUME NEW mac \in MAC, NEW ip \in IPv4, Hear(mac, ip)
        PROVE  [Map!Next]_<<bind, now>>
    <3>1. \A h \in IPv4 \ {NONE_IP} :
              h # ip => Binding(list', now', h) = Binding(list, now, h)
      BY <2>1, ArpSetSparesOthers DEF Hear
    <3>2. CASE ip = NONE_IP
      BY <2>1, <3>1, <3>2 DEF Hear
    <3>3. CASE ReusableSlots(list, now, ip) = {}
      BY <2>1, <3>3, ArpSetFull DEF Hear
    <3>4. CASE ip # NONE_IP /\ ReusableSlots(list, now, ip) # {}
      <4>1. Binding(list', now', ip) = [mac |-> mac, until |-> now + ARP_TTL]
        BY <2>1, <3>4, ArpSetBinds DEF Hear
      <4>2. Map!Learn(mac, ip)
        BY <2>1, <3>1, <3>4, <4>1, Zenon DEF Hear, Map!Learn
      <4> QED
        BY <3>4, <4>2 DEF Map!Next, Map!Hosts
    <3> QED
      BY <3>2, <3>3, <3>4
  <2>2. CASE Tick
    <3>1. \A h \in IPv4 \ {NONE_IP} :
              Binding(list', now', h) =
                IF Binding(list, now, h).until > now + 1
                THEN Binding(list, now, h)
                ELSE [mac |-> ZERO_MAC, until |-> 0]
      BY <2>2, TickKeepsOrDrops DEF Tick
    <3>2. Map!Tick
      BY <2>2, <3>1 DEF Tick, Map!Tick, Map!Hosts, Map!Unbound
    <3> QED
      BY <3>2 DEF Map!Next
  <2>3. CASE UNCHANGED vars
    BY <2>3 DEF vars
  <2> QED
    BY <2>1, <2>2, <2>3 DEF Next
<1> QED
  BY <1>1, <1>2, InvariantHolds, PTL DEF Spec, ImplementsMap, Map!Spec

\* A datagram that lan_play_send_zerotier_ipv4 sends is, for the table, no step
\* or the second that begins between its two lookups.
LEMMA SendIsCacheStep ==
    ASSUME now \in Nat, [SendNext]_sendVars
    PROVE  [Next]_vars /\ now' \in Nat
<1>1. ASSUME NEW dst \in IPv4 \ {NONE_IP}, NEW t \in now .. now + 1,
             lan_play_send_zerotier_ipv4(dst, t)
      PROVE  [Next]_vars /\ now' \in Nat
  <2>1. t \in {now, now + 1} /\ t <= MaxTime /\ now' = t /\ list' = list
    BY <1>1, Zenon DEF lan_play_send_zerotier_ipv4
  <2>2. CASE t = now
    BY <2>1, <2>2 DEF vars
  <2>3. CASE t = now + 1
    <3>1. now < MaxTime /\ now' = now + 1 /\ now + 1 \in Nat
      BY <2>1, <2>3, MaxTimeAssumption
    <3> QED  BY <2>1, <3>1 DEF Next, Tick
  <2> QED  BY <2>1, <2>2, <2>3
<1>2. CASE Next
  BY <1>2 DEF Next, Hear, Tick
<1>3. CASE UNCHANGED sendVars
  BY <1>3 DEF sendVars, vars
<1> QED  BY <1>1, <1>2, <1>3 DEF SendNext

\* The table also implements the map under lan_play_send_zerotier_ipv4, which
\* reads the clock before each of its two lookups.
THEOREM SendImplementsMap == SendSpec => ImplementsMap
<1>1. SendInit => Init /\ now \in Nat
  BY DEF SendInit, Init
<1>2. now \in Nat /\ [SendNext]_sendVars => [Next]_vars /\ (now \in Nat)'
  BY SendIsCacheStep
<1>3. SendSpec => Spec
  BY <1>1, <1>2, PTL DEF SendSpec, Spec
<1> QED  BY <1>3, CacheImplementsMap, PTL
=============================================================================

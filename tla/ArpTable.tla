------------------------------ MODULE ArpTable ------------------------------
(***************************************************************************)
(* The fixed-size ARP table of src/src/arp.c as operators on its value: an *)
(* array of ARP_CACHE_LEN items, scanned from slot 0 on every call.  The   *)
(* relay keeps two such tables, packet_ctx.arp_list for the Wi-Fi side and *)
(* zerotier_neighbors.arp_list for the overlay.  Time is time(NULL), in    *)
(* seconds; an item records the second at which it stops being valid.      *)
(***************************************************************************)
EXTENDS Integers

CONSTANTS
    ARP_CACHE_LEN,  \* slots of the table (100 in arp.h)
    ARP_TTL,        \* arp_ttl of the packet_ctx (30 s for both tables)
    IPv4,           \* addresses that a frame can carry, NONE_IP included
    NONE_IP,        \* 0.0.0.0, which marks a slot that was never filled
    MAC,            \* Ethernet addresses that a frame can carry
    ZERO_MAC        \* 00:00:00:00:00:00, the content of a fresh slot

ASSUME ArpAssumption ==
    /\ ARP_CACHE_LEN \in Nat \ {0}
    /\ ARP_TTL \in Nat \ {0}
    /\ NONE_IP \in IPv4
    /\ ZERO_MAC \notin MAC

Slots == 1 .. ARP_CACHE_LEN

Item == [ip : IPv4, mac : MAC \cup {ZERO_MAC}, expire_at : Nat]

\* The slot at which a scan from slot 0 stops, S being the slots it accepts.
FirstSlot(S) == CHOOSE i \in S : \A j \in S : i <= j

\* arp_list_init: the whole table is zeroed.
arp_list_init ==
    [i \in Slots |-> [ip |-> NONE_IP, mac |-> ZERO_MAC, expire_at |-> 0]]

\* The slots that arp_has_ip and arp_get_mac_by_ip accept for an address.
LiveSlots(list, now, ip) ==
    {i \in Slots : list[i].ip = ip /\ list[i].expire_at > now}

arp_has_ip(list, now, ip) == LiveSlots(list, now, ip) # {}

\* The address found by arp_get_mac_by_ip; ZERO_MAC stands for a miss, on
\* which the code sends an ARP request and returns false.
arp_get_mac_by_ip(list, now, ip) ==
    LET live == LiveSlots(list, now, ip)
    IN  IF live = {} THEN ZERO_MAC ELSE list[FirstSlot(live)].mac

\* The slots that arp_set accepts: never filled, same address, or expired.
\* An item whose last second is running is neither live nor reusable.
ReusableSlots(list, now, ip) ==
    {i \in Slots : \/ list[i].ip = NONE_IP
                   \/ list[i].ip = ip
                   \/ list[i].expire_at < now}

\* A bug in the handling of a full table: its last item is evicted.
ArpSetEvicts(list, now, mac, ip) ==
    LET S == ReusableSlots(list, now, ip)
        new == [ip |-> ip, mac |-> mac, expire_at |-> now + ARP_TTL]
    IN  [list EXCEPT ![IF S = {} THEN ARP_CACHE_LEN ELSE FirstSlot(S)] = new]

\* arp_set fills the first reusable slot; a table without one is unchanged.
arp_set(list, now, mac, ip) ==
    LET S == ReusableSlots(list, now, ip)
    IN  IF S = {} THEN list
        ELSE [list EXCEPT ![FirstSlot(S)] =
                 [ip |-> ip, mac |-> mac, expire_at |-> now + ARP_TTL]]
=============================================================================

------------------------------ MODULE ArpCache ------------------------------
(***************************************************************************)
(* One ARP table in use.  Frames arrive and call arp_set, seconds pass, and*)
(* lookups read the table between them.  Every address and every MAC may be*)
(* heard at any time, NONE_IP (an ARP probe's sender) included.            *)
(***************************************************************************)
EXTENDS ArpTable, Clock

VARIABLES
    list        \* arp_list

vars == <<list, now>>

\* arp_set, at most one item per call, keeps the table an array of
\* ARP_CACHE_LEN items: a full table is not written beyond its end.
TypeOK ==
    /\ list \in [Slots -> Item]
    /\ now \in Nat

Init ==
    /\ list = arp_list_init
    /\ now = 1

\* A frame from ip at mac reaches arp_set.
Hear(mac, ip) ==
    /\ list' = arp_set(list, now, mac, ip)
    /\ UNCHANGED now

Tick ==
    /\ now < MaxTime
    /\ now' = now + 1
    /\ UNCHANGED list

Next ==
    \/ \E mac \in MAC, ip \in IPv4 : Hear(mac, ip)
    \/ Tick

Spec == Init /\ [][Next]_vars

-----------------------------------------------------------------------------
\* arp_set may store an address in an expired low slot while a higher slot
\* still holds it.  Of two slots with the same address the lower one never
\* expires first, so the scan of arp_get_mac_by_ip, which stops at the lower
\* one, cannot fall through to an outdated MAC once the newer item expires.
NewestFirst ==
    \A i, j \in Slots :
        i < j /\ list[i].ip = list[j].ip /\ list[i].ip # NONE_IP
            => list[i].expire_at >= list[j].expire_at

\* What lookups in table l answer for an address at time t, as a binding of
\* ArpMap.
Binding(l, t, ip) ==
    LET live == LiveSlots(l, t, ip)
    IN  IF live = {} THEN [mac |-> ZERO_MAC, until |-> 0]
        ELSE [mac |-> l[FirstSlot(live)].mac,
              until |-> l[FirstSlot(live)].expire_at]

Map == INSTANCE ArpMap
         WITH bind <- [ip \in IPv4 \ {NONE_IP} |-> Binding(list, now, ip)]

\* The array with its duplicates and reused slots behaves as the map: lookups
\* answer with the MAC of the last successful arp_set for the address, from
\* that call until its lifetime ends, and a call for one address never
\* changes the answer for another.
ImplementsMap == Map!Spec
=============================================================================

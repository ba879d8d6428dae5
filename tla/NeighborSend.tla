---------------------------- MODULE NeighborSend ----------------------------
(***************************************************************************)
(* lan_play_send_zerotier_ipv4 on the table of overlay neighbours.  It asks*)
(* arp_has_ip first and arp_get_mac_by_ip then, and each call reads the    *)
(* clock: a second may begin between the two.  The packet_ctx that holds   *)
(* this table has no arg and no buffer, so that the ARP request which      *)
(* arp_get_mac_by_ip sends on a miss would be sent from a null context.    *)
(***************************************************************************)
EXTENDS ArpCache

VARIABLES
    sent        \* how the last datagram left

sendVars == <<list, now, sent>>

SendInit == Init /\ sent = "nothing"

\* t: the second in which arp_get_mac_by_ip reads the clock.
lan_play_send_zerotier_ipv4(dst, t) ==
    /\ t \in {now, now + 1}
    /\ t <= MaxTime
    /\ now' = t
    /\ UNCHANGED list
    /\ sent' = IF ~ arp_has_ip(list, now, dst) THEN "broadcast"
               ELSE IF arp_get_mac_by_ip(list, t, dst) # ZERO_MAC THEN "unicast"
               ELSE "null context"

SendNext ==
    \/ Next /\ UNCHANGED sent
    \/ \E dst \in IPv4 \ {NONE_IP}, t \in now .. now + 1 :
           lan_play_send_zerotier_ipv4(dst, t)

SendSpec == SendInit /\ [][SendNext]_sendVars

\* tests/native_relay_test.c: a datagram for an unknown peer does not cause an
\* ARP send from a null context.
NoNullContext == sent # "null context"
=============================================================================

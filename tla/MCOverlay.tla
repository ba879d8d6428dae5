----------------------------- MODULE MCOverlay ------------------------------
(***************************************************************************)
(* Two or three relays.  The console of relay 1 uses its relay's managed   *)
(* address, as the relay recommends; the others use one of their own.      *)
(***************************************************************************)
EXTENDS Overlay

N == Cardinality(Relays)

Zt(r) == <<"zt", r>>
Sw(r) == IF r = 1 THEN Zt(r) ELSE <<"sw", r>>
Mac(kind, r) == <<kind, r>>

Gateway == <<"gw", 0>>
Bcast == <<"bc", 0>>
Gone == <<"gone", 0>>
NoneIp == <<"none", 0>>
NintendoBcast == <<"nbc", 0>>
FF == <<"ff", 0>>
Zero == <<"zero", 0>>

MCSubnet ==
    {Zt(r) : r \in Relays} \cup {Sw(r) : r \in Relays} \cup {Gateway, Bcast, Gone}
MCIPv4 == MCSubnet \cup {NoneIp, NintendoBcast}
MCMAC ==
    {Mac(k, r) : k \in {"wifi_if", "zt_if", "console"}, r \in Relays} \cup {FF}
MCGroup == {FF}
MCNintendo == {Mac("console", r) : r \in Relays}

MCcfg ==
    [r \in Relays |->
        [zerotier_ip |-> Zt(r), zerotier_mac |-> Mac("zt_if", r),
         gateway_ip |-> Gateway, wifi_mac |-> Mac("wifi_if", r),
         wifi_ip |-> NoneIp, wifi_subnet |-> {}, wifi_reserved |-> {}]]
MCconsole_ip == [r \in Relays |-> Sw(r)]
MCconsole_mac == [r \in Relays |-> Mac("console", r)]
MCpayload ==
    [proto |-> "udp", frag |-> "whole", sport |-> 1, game |-> TRUE,
     size |-> "mtu"]

\* Games address the broadcast address, a relay or a console.
Members == {Zt(r) : r \in Relays} \cup {Sw(r) : r \in Relays} \cup {Bcast}
OneGone == {Gone}

\* Enough to forget one neighbour, and both consoles on Wi-Fi.
MCExpiring == {Sw(r) : r \in Relays}
=============================================================================

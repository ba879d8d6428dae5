------------------------------- MODULE ArpMap -------------------------------
(***************************************************************************)
(* What an ARP table promises its callers: a map from addresses to the MAC *)
(* heard last, in which a binding stays for its whole lifetime, answers    *)
(* with the newest MAC, and disappears at once when its lifetime ends.     *)
(* ArpCache implements it.                                                 *)
(***************************************************************************)
EXTENDS Integers

CONSTANTS ARP_TTL, IPv4, NONE_IP, MAC, ZERO_MAC

VARIABLES
    bind,   \* address -> the MAC a lookup answers with, and until when
    now

Unbound == [mac |-> ZERO_MAC, until |-> 0]

Hosts == IPv4 \ {NONE_IP}

Init ==
    /\ bind = [ip \in Hosts |-> Unbound]
    /\ now \in Nat

\* A host is heard: its binding is replaced and its lifetime starts again.
Learn(mac, ip) ==
    /\ bind' = [bind EXCEPT ![ip] = [mac |-> mac, until |-> now + ARP_TTL]]
    /\ UNCHANGED now

\* A second passes: exactly the bindings whose lifetime is over disappear.
Tick ==
    /\ now' = now + 1
    /\ bind' = [ip \in Hosts |-> IF bind[ip].until > now + 1 THEN bind[ip]
                                                            ELSE Unbound]

Next ==
    \/ \E mac \in MAC, ip \in Hosts : Learn(mac, ip)
    \/ Tick

Spec == Init /\ [][Next]_<<bind, now>>
=============================================================================

------------------------------- MODULE UdpNat -------------------------------
(***************************************************************************)
(* What the gateway promises for the console's UDP traffic: every source   *)
(* endpoint of the console has at most one socket of its own on the host,  *)
(* keeps it while there is traffic in either direction, and may lose it    *)
(* only after more than TTL silent seconds.  A socket is never used again  *)
(* for another endpoint.                                                   *)
(***************************************************************************)
EXTENDS Naturals

CONSTANTS Endpoints, TTL

VARIABLES
    port,   \* the socket of each endpoint, 0 for none
    made,   \* sockets opened so far; they are numbered
    idle    \* seconds since the last datagram, up to TTL + 1

vars == <<port, made, idle>>

Later(late) ==
    [e \in Endpoints |-> IF late /\ idle[e] <= TTL THEN idle[e] + 1 ELSE idle[e]]

Init ==
    /\ port = [e \in Endpoints |-> 0]
    /\ made = 0
    /\ idle = [e \in Endpoints |-> TTL + 1]

\* A datagram of the console; a second may begin while it is handled.
Outgoing(e) ==
    /\ \E late \in BOOLEAN : idle' = [Later(late) EXCEPT ![e] = 0]
    /\ \/ port[e] # 0 /\ UNCHANGED <<port, made>>
       \/ /\ port[e] = 0 \/ idle[e] > TTL
          /\ made' = made + 1
          /\ port' = [port EXCEPT ![e] = made + 1]

\* A datagram for the socket of e.
Incoming(e) ==
    /\ port[e] # 0
    /\ idle' = [idle EXCEPT ![e] = 0]
    /\ UNCHANGED <<port, made>>

\* Time passes, and sockets of silent endpoints may be closed.
Pass ==
    \E late \in BOOLEAN, closed \in SUBSET Endpoints :
        /\ idle' = Later(late)
        /\ \A e \in closed : idle'[e] > TTL
        /\ port' = [e \in Endpoints |-> IF e \in closed THEN 0 ELSE port[e]]
        /\ UNCHANGED made

Next == Pass \/ \E e \in Endpoints : Outgoing(e) \/ Incoming(e)

Spec == Init /\ [][Next]_vars
=============================================================================

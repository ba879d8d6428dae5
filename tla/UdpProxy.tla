------------------------------ MODULE UdpProxy ------------------------------
(***************************************************************************)
(* The UDP sessions behind the gateway: ProxyBase with its table of        *)
(* sessions and its gc timer (proxy_common.hpp), DirectProxyUdp            *)
(* (proxy_direct.cpp), Socks5ProxyUdp and the association it asks a SOCKS5  *)
(* server for (proxy_socks5.cpp), reached through gateway::processUdp.      *)
(*                                                                         *)
(* Time is what is left until a session's expire_at.  Each call of         *)
(* time(NULL) may read a later second than the one before it in the same   *)
(* callback (`late').                                                      *)
(***************************************************************************)
EXTENDS Integers, Sequences

CONSTANTS
    Kinds,          \* proxies to run: "direct", "socks5"
    Srcs, Ports,    \* the console's addresses and source ports
    TTL,            \* PROXY_UDP_TABLE_TTL
    MaxSessions,    \* bound: sessions created
    MaxSends        \* bound: datagrams of the console

ASSUME UdpAssumption ==
    /\ Kinds \subseteq {"direct", "socks5"}
    /\ TTL \in Nat /\ MaxSessions \in Nat /\ MaxSends \in Nat

VARIABLES
    kind,       \* which proxy gateway::setProxy made
    table,      \* cacheTable: session of each endpoint, 0 for none
    session,    \* the sessions by number
    made,       \* sessions created so far
    sent,       \* history: whose datagram the n-th was
    answered,   \* history: datagrams a remote host has replied to
    got,        \* history: <<endpoint, n>>, replies handed to the console
    idle        \* history: seconds since an endpoint's last datagram

vars == <<kind, table, session, made, sent, answered, got, idle>>

Endpoints == Srcs \X Ports

Ids == 1 .. MaxSessions

\* No session: never created, or destroyed with its sockets closed.
Gone == [stage |-> "gone"]

\* connect, method, request: the steps of the SOCKS5 handshake; ready: isReady,
\* or direct; failed: the handshake ended, which nobody notices.
Handshaking == {"connect", "method", "request"}

Session ==
    [ep : Endpoints, stage : Handshaking \cup {"ready", "failed"},
     left : -1 .. TTL,          \* expire_at - now, -1 for any time after it
     waiting : Nat,             \* waitingData, 0 for none
     given : Seq(Nat),          \* history: datagrams send() was called for
     fwd : Seq(Nat)]            \* history: datagrams sent by the socket

Open == {i \in Ids : session[i] # Gone}

Aged(s, late) ==
    IF late /\ s # Gone /\ s.left >= 0 THEN [s EXCEPT !.left = @ - 1] ELSE s

AgedIdle(late) ==
    [e \in Endpoints |-> IF late /\ idle[e] <= TTL THEN idle[e] + 1 ELSE idle[e]]

isExpire(s) == s.left < 0

visit(s) == [s EXCEPT !.left = TTL]

Init ==
    /\ kind \in Kinds
    /\ table = [e \in Endpoints |-> 0]
    /\ session = [i \in Ids |-> Gone]
    /\ made = 0
    /\ sent = <<>> /\ answered = {} /\ got = {}
    /\ idle = [e \in Endpoints |-> TTL + 1]

------------------------------------------------------------------------------
(* A datagram of the console. *)

\* Mutant: the key of the table is the source port alone.
PortOnly(src, srcport) == <<CHOOSE s \in Srcs : TRUE, srcport>>

UdpCacheKey(src, srcport) == <<src, srcport>>

Created(e, stage) ==
    [ep |-> e, stage |-> stage, left |-> TTL, waiting |-> 0, given |-> <<>>, fwd |-> <<>>]

\* A direct session receives at once; a SOCKS5 session begins to connect.  Only
\* the direct one sets expire_at by itself, but send() follows in either case.
DirectProxyUdp(e) == Created(e, "ready")

Socks5ProxyUdp(e) == Created(e, "connect")

newUdp(e) == IF kind = "direct" THEN DirectProxyUdp(e) ELSE Socks5ProxyUdp(e)

\* Without an association only the newest datagram is kept.
send(s, n) ==
    visit(IF s.stage = "ready"
          THEN [s EXCEPT !.given = Append(@, n), !.fwd = Append(@, n)]
          ELSE [s EXCEPT !.given = Append(@, n), !.waiting = n])

\* Whether getUdp makes a session, for lack of one or in place of an expired one.
getUdp(k) == IF table[k] = 0 THEN TRUE ELSE isExpire(session[table[k]])

\* The last reference to a session that is replaced goes with its table entry.
udpSend(e) ==
    LET k == UdpCacheKey(e[1], e[2])
        old == table[k]
        fresh == getUdp(k)
        id == IF fresh THEN made + 1 ELSE old
        n == Len(sent) + 1
    IN  /\ n <= MaxSends
        /\ id <= MaxSessions
        /\ made' = IF fresh THEN id ELSE made
        /\ table' = [table EXCEPT ![k] = id]
        /\ \E late \in BOOLEAN :
               /\ session' = [i \in Ids |->
                      IF i = id THEN send(IF fresh THEN newUdp(e) ELSE session[i], n)
                      ELSE IF i = old THEN Gone
                      ELSE Aged(session[i], late)]
               /\ idle' = [AgedIdle(late) EXCEPT ![e] = 0]
        /\ sent' = Append(sent, e)
        /\ UNCHANGED <<kind, answered, got>>

\* gateway_on_packet for a UDP packet of the console; other packets go to lwIP.
processUdp == \E e \in Endpoints : udpSend(e)

------------------------------------------------------------------------------
(* Events of a session's handles.  A destroyed session has closed them, and  *)
(* libuv reports nothing but cancellation for a closed handle.               *)

Becomes(i, s) ==
    /\ session' = [session EXCEPT ![i] = s]
    /\ UNCHANGED <<kind, table, made, sent>>

Connected(i) ==
    /\ session[i].stage = "connect"
    /\ Becomes(i, [session[i] EXCEPT !.stage = "method"])
    /\ UNCHANGED <<answered, got, idle>>

MethodChosen(i) ==
    /\ session[i].stage = "method"
    /\ Becomes(i, [session[i] EXCEPT !.stage = "request"])
    /\ UNCHANGED <<answered, got, idle>>

\* Mutant: the datagram that waited is not sent.
DropsWaiting(s) == visit([s EXCEPT !.stage = "ready", !.waiting = 0])

\* The callback of onUDPReady.
onUDPReady(s) ==
    visit([s EXCEPT !.stage = "ready", !.waiting = 0,
                    !.fwd = IF s.waiting # 0 THEN Append(@, s.waiting) ELSE @])

Associated(i) ==
    /\ session[i].stage = "request"
    /\ Becomes(i, onUDPReady(session[i]))
    /\ UNCHANGED <<answered, got, idle>>

\* A connect that fails, or an answer Assert does not accept (a piece of one
\* included): the handshake is over, the session stays.
Refused(i) ==
    /\ session[i].stage \in Handshaking
    /\ Becomes(i, [session[i] EXCEPT !.stage = "failed"])
    /\ UNCHANGED <<answered, got, idle>>

\* Mutant: what comes back does not keep the session alive.
NoVisit(s) == s

\* The end of both handlers of UDPDataEvent.
Received(s) == visit(s)

\* The reply to datagram n for the console's endpoint e; sending it fails while
\* the MAC of the console is not known.
send_udp_ex(e, n) == got' \in {got, got \cup {<<e, n>>}}

\* A reply of the remote host to datagram n.  One that a SOCKS5 server passes on
\* with another address type than IPv4 is dropped, as if it were lost.
UdpData(i, n) ==
    /\ session[i].stage = "ready"
    /\ n \notin answered /\ \E j \in DOMAIN session[i].fwd : session[i].fwd[j] = n
    /\ answered' = answered \cup {n}
    /\ Becomes(i, Received(session[i]))
    /\ send_udp_ex(session[i].ep, n)
    /\ idle' = [idle EXCEPT ![session[i].ep] = 0]

------------------------------------------------------------------------------
(* The timer of ProxyBase, and time.  The items of the table are tested in   *)
(* no particular order; those in `late' are reached after a second began.    *)

\* Mutant: only sessions with an association are collected.
ReadyExpired(late) ==
    {i \in Open : isExpire(Aged(session[i], i \in late)) /\ session[i].stage = "ready"}

Expired(late) == {i \in Open : isExpire(Aged(session[i], i \in late))}

Gc ==
    \E late \in SUBSET Open :
        LET dead == Expired(late)
        IN  /\ table' = [e \in Endpoints |-> IF table[e] \in dead THEN 0 ELSE table[e]]
            /\ session' = [i \in Ids |-> IF i \in dead THEN Gone
                                         ELSE Aged(session[i], late # {})]
            /\ idle' = AgedIdle(late # {})
            /\ UNCHANGED <<kind, made, sent, answered, got>>

Tick ==
    /\ session' = [i \in Ids |-> Aged(session[i], TRUE)]
    /\ idle' = AgedIdle(TRUE)
    /\ UNCHANGED <<kind, table, made, sent, answered, got>>

Next ==
    \/ processUdp
    \/ \E i \in Open : Connected(i) \/ MethodChosen(i) \/ Associated(i) \/ Refused(i)
    \/ \E i \in Open, n \in 1 .. MaxSends : UdpData(i, n)
    \/ Gc
    \/ Tick

\* The timer repeats every 10 s, and time passes.
Spec == Init /\ [][Next]_vars /\ WF_vars(Gc) /\ WF_vars(Tick)

------------------------------------------------------------------------------

TypeOK ==
    /\ kind \in Kinds
    /\ table \in [Endpoints -> 0 .. made]
    /\ session \in [Ids -> Session \cup {Gone}]
    /\ made \in 0 .. MaxSessions
    /\ sent \in Seq(Endpoints)
    /\ answered \subseteq 1 .. Len(sent)
    /\ got \subseteq Endpoints \X (1 .. Len(sent))
    /\ idle \in [Endpoints -> 0 .. TTL + 1]

\* The sessions that have sockets are exactly those of the table, each under
\* its own endpoint: a session that is replaced, or collected, leaves no socket
\* behind, and no two endpoints share one.
SocketsHeld ==
    /\ \A e \in Endpoints : table[e] # 0 => table[e] \in Open /\ session[table[e]].ep = e
    /\ \A i \in Open : table[session[i].ep] = i

\* The last datagrams of a sequence.
Suffix(s, len) == SubSeq(s, Len(s) - len + 1, Len(s))

\* Nothing is lost or swapped once a session is ready: what its socket sent is
\* all it was given (direct), or all from the newest one that waited for the
\* association (socks5).
InOrder ==
    \A i \in Open :
        /\ session[i].stage = "ready" =>
               /\ session[i].waiting = 0
               /\ Len(session[i].fwd) \in 1 .. Len(session[i].given)
               /\ session[i].fwd = Suffix(session[i].given, Len(session[i].fwd))
               /\ kind = "direct" => session[i].fwd = session[i].given
        /\ session[i].stage # "ready" =>
               /\ session[i].fwd = <<>>
               /\ <<session[i].waiting>> = Suffix(session[i].given, 1)

\* What a remote host replies to a datagram reaches the endpoint that sent it,
\* or nobody, whatever sessions came and went in between.
RepliesRouted == \A g \in got : sent[g[2]] = g[1]

\* Sockets, datagrams and replies belong together.
SessionsSound == TypeOK /\ SocketsHeld /\ InOrder /\ RepliesRouted

NAT == INSTANCE UdpNat WITH port <- table

\* The table of sessions is a translation as UdpNat promises it: an endpoint
\* keeps its socket until more than TTL seconds passed without a datagram in
\* either direction, also when a handshake is slow or fails.
ImplementsNat == NAT!Spec

\* When the traffic ends every socket is closed, those of sessions without an
\* association included.
Reclaimed == <>[](Open = {})
=============================================================================

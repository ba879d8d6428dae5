----------------------------- MODULE TcpBridge ------------------------------
(***************************************************************************)
(* One TCP connection of the console through the relay's gateway: the      *)
(* console's segments end in lwIP (one pcb), uv_lwip.c turns lwIP's        *)
(* callbacks into a libuv-like stream (uvl_tcp_t), TcpConnection in        *)
(* gateway.cpp pumps that stream to and from a proxy socket (IProxyTcp),   *)
(* and UvLwipBase owns the connections until the gateway is closed.        *)
(* Everything runs on one libuv loop: an action is one loop callback, with *)
(* all the calls nested in it.  A byte is its position in its stream.      *)
(***************************************************************************)
EXTENDS Integers, Sequences

CONSTANTS
    Kinds,      \* among "direct", "socks5" (TcpConnection), "fake"
    CMax,       \* bytes the console may send
    RMax,       \* bytes the remote host may send
    Wnd,        \* TCP_WND, also the size of recv_buf
    SndBuf,     \* TCP_SND_BUF
    Body        \* length of the fixed answer of SwitchFakeTcpConnection

ASSUME BridgeAssumption ==
    /\ Kinds \subseteq {"direct", "socks5", "fake"}
    /\ CMax \in Nat /\ RMax \in Nat
    /\ Wnd \in Nat \ {0} /\ SndBuf \in Nat \ {0} /\ Body \in Nat \ {0}

VARIABLES
    c,          \* the connection, see NoConnection
    cSent,      \* bytes the console has sent
    cEnd,       \* "open", or the console ended by "fin" or "rst"
    cGot,       \* bytes the console has received
    sock,       \* bytes of the remote host in the proxy socket, unread
    rSent, rEnd, rGot       \* the same for the remote host

vars == <<c, cSent, cEnd, cGot, sock, rSent, rEnd, rGot>>

Stream(n) == [i \in 1 .. n |-> i]

NoConnection ==
    [kind     |-> "direct",
     \* lwIP's pcb
     pcb      |-> "none",       \* then "live", "closing", "reset", "gone"
     wnd      |-> Wnd,          \* rcv_wnd
     snd      |-> << >>,        \* written by tcp_write, not acknowledged
     \* uvl_tcp_t
     buf      |-> << >>,        \* recv_buf[0 .. recv_used)
     readCb   |-> FALSE,        \* read_cb is set
     closed   |-> FALSE,
     writes   |-> << >>,        \* cur_write ... tail_write
     asyncR   |-> FALSE,        \* read_req is pending
     asyncW   |-> FALSE,        \* write_req is pending
     handles  |-> "none",       \* then "open", "closing", "freed"
     \* IConnection, TcpConnection
     iclosing |-> FALSE,
     killed   |-> FALSE,        \* TcpConnection::closing
     \* IProxyTcp
     ptcp     |-> "none",
     pReading |-> FALSE,
     pOut     |-> << >>,        \* the write in flight
     cancelled |-> FALSE,       \* a request was in flight when the socket was
                                \* closed, its callback is still to come
     \* UvLwipBase
     inSet    |-> FALSE,        \* in connSet
     released |-> FALSE,        \* UvLwipBase::closing
     count    |-> 0,            \* closingCount
     selfClosed |-> 0,          \* calls of onSelfClose
     timer    |-> "running",
     \* an assertion failed, or a pointer that is null or freed was used
     fault    |-> "none"]

Init ==
    /\ c = NoConnection
    /\ cSent = 0 /\ cEnd = "open" /\ cGot = << >>
    /\ sock = << >> /\ rSent = 0 /\ rEnd = "open" /\ rGot = << >>

Fault(s, what) == [s EXCEPT !.fault = IF @ = "none" THEN what ELSE @]
----------------------------------------------------------------------------
(* Closing.  Every path ends in Kill (both ends) or in IClose.             *)

\* UvLwipBase::onSelfClose: the second call drops the base's self reference.
SelfClose(s) == [s EXCEPT !.selfClosed = @ + 1]

\* A bug in the accounting: the count of a closed connection is not tested.
RemoveConnectionAlways(s) ==
    IF s.released THEN SelfClose([s EXCEPT !.count = @ - 1])
    ELSE [s EXCEPT !.inSet = FALSE]

\* UvLwipBase::removeConnection, called by every close() of a connection.
RemoveConnection(s) ==
    IF ~ s.released THEN [s EXCEPT !.inSet = FALSE]
    ELSE IF s.count - 1 = 0 THEN SelfClose([s EXCEPT !.count = 0])
    ELSE [s EXCEPT !.count = @ - 1]

\* tcp_close: a reset when the application left data unread, else a FIN after
\* the data already written.
TcpClose(s) ==
    IF s.wnd # Wnd THEN [s EXCEPT !.pcb = "reset", !.snd = << >>]
    ELSE [s EXCEPT !.pcb = "closing"]

\* uvl_client_freed, without the callback.
Detach(s) ==
    [s EXCEPT !.closed = TRUE, !.readCb = FALSE,
              !.pcb = IF @ = "live" THEN "gone" ELSE @]

\* uvl_tcp_close with uvl_cancel_reqs.  The cancelled read callback does
\* nothing: IConnection::closing is set by its only caller.
UvlTcpClose(s) ==
    LET t == IF s.closed THEN s ELSE Detach(TcpClose(s)) IN
    [t EXCEPT !.writes = << >>, !.readCb = FALSE, !.handles = "closing"]

\* A bug in IConnection::close: a connection the console ended is not closed.
ICloseIfOpen(s) ==
    LET t == RemoveConnection(s) IN
    IF t.iclosing \/ t.closed THEN t ELSE UvlTcpClose([t EXCEPT !.iclosing = TRUE])

\* IConnection::close.
IClose(s) ==
    LET t == RemoveConnection(s) IN
    IF t.iclosing THEN t ELSE UvlTcpClose([t EXCEPT !.iclosing = TRUE])

\* ptcp->stop() and ptcp->close().  Socks5ProxyTcp::tcp is null until the
\* handshake is over.  The connect or write in flight is cancelled: libuv calls
\* it back when it has closed the socket, see ProxyClosed.
PtcpClose(s) ==
    IF s.kind = "socks5" /\ s.ptcp \notin {"ready", "closed"}
    THEN Fault(s, "null proxy socket")
    ELSE [s EXCEPT !.ptcp = "closed", !.pReading = FALSE,
                   !.cancelled = (s.ptcp = "connecting" \/ s.pOut # << >>)]

\* A bug in TcpConnection::kill: the console's side is left reading.
KillHalf(s) ==
    IF s.killed THEN s ELSE PtcpClose([s EXCEPT !.killed = TRUE])

\* TcpConnection::kill.
Kill(s) ==
    IF s.killed THEN s
    ELSE IClose(PtcpClose([s EXCEPT !.killed = TRUE, !.readCb = FALSE]))

\* IConnection::readCallback with an error or the end of the stream.
ReadEnd(s) == IF s.iclosing \/ s.kind = "fake" THEN s ELSE Kill(s)

\* uvl_client_freed.
ClientFreed(s) == IF s.readCb THEN ReadEnd(Detach(s)) ELSE Detach(s)

\* uvl_client_close_func.
CloseFunc(s) == ClientFreed(TcpClose(s))
----------------------------------------------------------------------------
(* Reading and writing.                                                    *)

\* IConnection::read: uvl_read_start, whose result is asserted to be zero.
Read(s) ==
    IF s.readCb THEN Fault(s, "read_start")
    ELSE IF s.closed THEN ReadEnd(s)
    ELSE [s EXCEPT !.readCb = TRUE, !.asyncR = TRUE]

\* uvl_write.
UvlWrite(s, data) ==
    [s EXCEPT !.writes = Append(@, [data |-> data, sent |-> 0, pending |-> 0]),
              !.asyncW = TRUE]

\* n units handed out in order to places that take cap[i] each.
Share(cap, n) ==
    LET before[i \in 1 .. Len(cap)] ==
            IF i = 1 THEN 0 ELSE before[i - 1] + cap[i - 1]
        left(i) == n - before[i]
    IN  [i \in 1 .. Len(cap) |->
            IF left(i) <= 0 THEN 0
            ELSE IF left(i) < cap[i] THEN left(i) ELSE cap[i]]

Total(cap) ==
    LET sum[i \in 0 .. Len(cap)] == IF i = 0 THEN 0 ELSE sum[i - 1] + cap[i]
    IN  sum[Len(cap)]

\* The sequences ss[1], ss[2], ... one after the other.
Joined(ss) ==
    LET join[i \in 0 .. Len(ss)] == IF i = 0 THEN << >> ELSE join[i - 1] \o ss[i]
    IN  join[Len(ss)]

Pending(s) == [i \in DOMAIN s.writes |-> s.writes[i].pending]

Unsent(s) ==
    [i \in DOMAIN s.writes |-> Len(s.writes[i].data) - s.writes[i].sent]

\* A bug in uvl_client_sent_func: every request is credited in full.
SentFuncAll(s, n) ==
    IF n = 0 THEN s
    ELSE [s EXCEPT !.snd = SubSeq(@, n + 1, Len(@)),
                   !.writes = [i \in DOMAIN @ |-> [s.writes[i] EXCEPT !.pending = 0]],
                   !.asyncW = TRUE]

\* uvl_client_sent_func: lwIP had n bytes acknowledged.  The loop runs off the
\* list when they are more than the requests have pending.
SentFunc(s, n) ==
    LET paid == Share(Pending(s), n) IN
    IF n = 0 THEN s
    ELSE IF n > Total(Pending(s)) THEN Fault(s, "sent")
    ELSE [s EXCEPT
            !.snd = SubSeq(@, n + 1, Len(@)),
            !.writes = [i \in DOMAIN @ |->
                [s.writes[i] EXCEPT !.pending = @ - paid[i]]],
            !.asyncW = TRUE]

\* uvl_client_recv_func with data: lwIP takes it off the window, the bridge
\* copies it to recv_buf, or refuses it for want of room.
RecvFunc(s, data) ==
    IF data = << >> THEN s
    ELSE IF Len(data) > Wnd - Len(s.buf) THEN Fault(s, "no buffer for data")
    ELSE [s EXCEPT !.wnd = @ - Len(data), !.buf = @ \o data, !.asyncR = TRUE]

\* A bug in uvl_async_tcp_read_cb: recv_used is not reset.
AsyncReadCbKeeps(s) ==
    IF ~ s.readCb \/ s.buf = << >> THEN [s EXCEPT !.asyncR = FALSE]
    ELSE [s EXCEPT !.asyncR = FALSE, !.wnd = @ + Len(s.buf),
                   !.readCb = FALSE, !.pOut = @ \o s.buf]

\* A bug in TcpConnection::onData: the console is read on.
AsyncReadCbNoStop(s) ==
    IF ~ s.readCb \/ s.buf = << >> THEN [s EXCEPT !.asyncR = FALSE]
    ELSE [s EXCEPT !.asyncR = FALSE, !.wnd = @ + Len(s.buf), !.buf = << >>,
                   !.pOut = @ \o s.buf]

\* uvl_async_tcp_read_cb, tcp_recved, and TcpConnection::onData: stop reading
\* and write the data to the proxy.
AsyncReadCb(s) ==
    IF ~ s.readCb \/ s.buf = << >> THEN [s EXCEPT !.asyncR = FALSE]
    ELSE [s EXCEPT !.asyncR = FALSE, !.wnd = @ + Len(s.buf), !.buf = << >>,
                   !.readCb = FALSE, !.pOut = @ \o s.buf]

Complete(w) == w.sent = Len(w.data) /\ w.pending = 0

\* The requests behind the finished ones.
Unfinished(s) ==
    LET n == CHOOSE n \in 0 .. Len(s.writes) :
                /\ \A i \in 1 .. n : Complete(s.writes[i])
                /\ n < Len(s.writes) => ~ Complete(s.writes[n + 1])
    IN  SubSeq(s.writes, n + 1, Len(s.writes))

\* onWrite: TcpConnection reads the proxy again, the fake server hangs up.
OnWrite(s) ==
    IF s.kind = "fake" THEN IClose(s) ELSE [s EXCEPT !.pReading = (s.ptcp = "ready")]

\* A bug in uvl_imp_write_buf_to_tcp: the data is written from its start again.
ImpWriteToTcpAgain(s, mem) ==
    LET room == IF mem THEN SndBuf - Len(s.snd) ELSE 0
        put  == Share(Unsent(s), room)
        part(i) == SubSeq(s.writes[i].data, 1, put[i])
    IN  [s EXCEPT
            !.snd = @ \o Joined([i \in DOMAIN s.writes |-> part(i)]),
            !.writes = [i \in DOMAIN @ |->
                [s.writes[i] EXCEPT !.sent = @ + put[i], !.pending = @ + put[i]]]]

\* uvl_imp_write_to_tcp: as much as the send buffer takes, or nothing when
\* lwIP is out of memory (mem = FALSE).
ImpWriteToTcp(s, mem) ==
    LET room == IF mem THEN SndBuf - Len(s.snd) ELSE 0
        put  == Share(Unsent(s), room)
        part(i) == SubSeq(s.writes[i].data, s.writes[i].sent + 1,
                          s.writes[i].sent + put[i])
    IN  [s EXCEPT
            !.snd = @ \o Joined([i \in DOMAIN s.writes |-> part(i)]),
            !.writes = [i \in DOMAIN @ |->
                [s.writes[i] EXCEPT !.sent = @ + put[i], !.pending = @ + put[i]]]]

\* uvl_async_tcp_write_cb: report the finished requests, then write on, or
\* cancel when the connection is closed.  out = FALSE: tcp_output fails and
\* the connection is closed.
AsyncWriteCb(s, mem, out) ==
    LET rest == Unfinished(s)
        t    == [s EXCEPT !.asyncW = FALSE, !.writes = rest]
        u    == IF Len(rest) < Len(s.writes) THEN OnWrite(t) ELSE t
    IN  IF u.closed THEN [u EXCEPT !.writes = << >>]
        ELSE IF u.writes = << >> THEN u
        ELSE IF out THEN ImpWriteToTcp(u, mem)
        ELSE CloseFunc(ImpWriteToTcp(u, mem))
----------------------------------------------------------------------------
(* The loop's callbacks.                                                   *)

Running == c.fault = "none"

\* uvl_listener_accept_func, UvLwipBase::onConnect, uvl_accept and
\* onConnection.  A connect may fail at once ("kernel" = FALSE): the direct
\* proxy kills the connection before it enters connSet; the SOCKS5 one has no
\* listener yet.
Accept(k, kernel) ==
    LET fresh == [c EXCEPT !.kind = k, !.pcb = "live", !.handles = "open",
                           !.ptcp = IF k = "fake" THEN "none" ELSE "connecting"]
        up    == IF k = "fake" THEN UvlWrite(fresh, Stream(Body))
                 ELSE IF kernel THEN fresh
                 ELSE IF k = "direct" THEN Kill([fresh EXCEPT !.ptcp = "failed"])
                 ELSE [fresh EXCEPT !.ptcp = "failed"]
    IN  /\ c.pcb = "none"
        /\ ~ c.released
        /\ c' = [up EXCEPT !.inSet = TRUE]
        /\ UNCHANGED <<cSent, cEnd, cGot, sock, rSent, rEnd, rGot>>

\* A segment of the console: n bytes, the acknowledgement of a bytes, a FIN.
\* tcp_input calls sent, then recv, then recv with NULL.
Segment(n, a, fin) ==
    LET t == RecvFunc(SentFunc(c, a), SubSeq(Stream(CMax), cSent + 1, cSent + n))
    IN  /\ Running
        /\ c.pcb = "live"
        /\ cEnd = "open"
        /\ cSent + n <= CMax
        /\ n <= c.wnd
        /\ a <= Len(c.snd)
        /\ n + a > 0 \/ fin
        /\ c' = IF fin /\ t.fault = "none" THEN CloseFunc(t) ELSE t
        /\ cSent' = cSent + n
        /\ cGot' = cGot \o SubSeq(c.snd, 1, a)
        /\ cEnd' = IF fin THEN "fin" ELSE "open"
        /\ UNCHANGED <<sock, rSent, rEnd, rGot>>

\* uvl_client_err_func: the console's reset, or lwIP gives the pcb up.
PcbError ==
    /\ Running
    /\ c.pcb = "live"
    /\ c' = ClientFreed(c)
    /\ cEnd' = "rst"
    /\ UNCHANGED <<cSent, cGot, sock, rSent, rEnd, rGot>>

\* lwIP finishes a closed pcb by itself while the interface is there: the
\* console acknowledges what was written, or resets.
LwipClosing(lost) ==
    /\ Running
    /\ c.pcb = "closing"
    /\ ~ c.released
    /\ c' = [c EXCEPT !.pcb = IF lost THEN "reset" ELSE "gone", !.snd = << >>]
    /\ cGot' = IF lost THEN cGot ELSE cGot \o c.snd
    /\ UNCHANGED <<cSent, cEnd, sock, rSent, rEnd, rGot>>

AsyncRead ==
    /\ Running
    /\ c.handles = "open" /\ c.asyncR
    /\ c' = AsyncReadCb(c)
    /\ UNCHANGED <<cSent, cEnd, cGot, sock, rSent, rEnd, rGot>>

AsyncWrite(mem, out) ==
    /\ Running
    /\ c.handles = "open" /\ c.asyncW
    /\ c' = AsyncWriteCb(c, mem, out)
    /\ UNCHANGED <<cSent, cEnd, cGot, sock, rSent, rEnd, rGot>>

\* The next answer to the proxy's connect: of the remote host, or of the
\* SOCKS5 server (connection, greeting, request).
HandshakeNext(s) ==
    CASE s.kind = "socks5" /\ s.ptcp = "connecting" -> "greeting"
      [] s.kind = "socks5" /\ s.ptcp = "greeting" -> "request"
      [] OTHER -> "ready"

\* ConnectEvent: read both sides.
ProxyAnswer ==
    LET next == HandshakeNext(c) IN
    /\ Running
    /\ c.ptcp \in {"connecting", "greeting", "request"}
    /\ c' = IF next # "ready" THEN [c EXCEPT !.ptcp = next]
            ELSE Read([c EXCEPT !.ptcp = "ready", !.pReading = TRUE])
    /\ UNCHANGED <<cSent, cEnd, cGot, sock, rSent, rEnd, rGot>>

\* The direct proxy reports the failure, Socks5Protocol only closes its socket.
ProxyRefuse ==
    /\ Running
    /\ c.ptcp \in {"connecting", "greeting", "request"}
    /\ LET t == [c EXCEPT !.ptcp = "failed"] IN
       c' = IF c.kind = "direct" THEN Kill(t) ELSE t
    /\ UNCHANGED <<cSent, cEnd, cGot, sock, rSent, rEnd, rGot>>

\* A bug in TcpConnection::onConnection: the proxy is read on.
OnProxyDataNoStop(s, data) == UvlWrite(s, data)

\* DataEvent of the proxy: stop reading it and write to the console.
OnProxyData(s, data) == UvlWrite([s EXCEPT !.pReading = FALSE], data)

ProxyData(n) ==
    /\ Running
    /\ c.ptcp = "ready" /\ c.pReading
    /\ n <= Len(sock)
    /\ c' = OnProxyData(c, SubSeq(sock, 1, n))
    /\ sock' = SubSeq(sock, n + 1, Len(sock))
    /\ UNCHANGED <<cSent, cEnd, cGot, rSent, rEnd, rGot>>

\* WriteEvent: the write in flight is done, read the console again.
ProxyWrote ==
    /\ Running
    /\ c.ptcp = "ready" /\ c.pOut # << >>
    /\ rEnd # "rst"
    /\ c' = Read([c EXCEPT !.pOut = << >>])
    /\ rGot' = rGot \o c.pOut
    /\ UNCHANGED <<cSent, cEnd, cGot, sock, rSent, rEnd>>

\* EndEvent, seen only while the proxy is read.
ProxyEnd ==
    /\ Running
    /\ c.ptcp = "ready" /\ c.pReading
    /\ sock = << >> /\ rEnd = "fin"
    /\ c' = Kill(c)
    /\ UNCHANGED <<cSent, cEnd, cGot, sock, rSent, rEnd, rGot>>

\* ErrorEvent of a read, or of the write in flight, after the remote host's
\* reset.
ProxyError ==
    /\ Running
    /\ c.ptcp = "ready" /\ rEnd = "rst"
    /\ \/ c.pReading /\ c' = Kill(c)
       \/ c.pOut # << >> /\ c' = Kill([c EXCEPT !.pOut = << >>])
    /\ UNCHANGED <<cSent, cEnd, cGot, sock, rSent, rEnd, rGot>>

\* A bug in IConnection: nothing happens when the handles are closed.
OnClosedNothing(s) == [s EXCEPT !.handles = "freed", !.writes = << >>]

\* uvl_tcp_close_handle_cb for the second handle: everything is released, then
\* onClosed kills the proxy side if the close began on this one.
OnClosed(s) ==
    LET t == [s EXCEPT !.handles = "freed", !.buf = << >>, !.writes = << >>,
                       !.readCb = FALSE]
    IN  IF t.kind = "fake" THEN t ELSE Kill(t)

HandlesClosed ==
    /\ Running
    /\ c.handles = "closing"
    /\ c' = OnClosed(c)
    /\ UNCHANGED <<cSent, cEnd, cGot, sock, rSent, rEnd, rGot>>

\* The last shared pointer to the TcpConnection is gone: closeCallback has reset
\* its own, and connSet has lost it or was freed with the base.
Destroyed(s) == s.handles = "freed" /\ (~ s.inSet \/ s.selfClosed = 2)

\* The listeners of onConnection capture `this' and stay on the socket: for a
\* write that was done after all they read the console, for a cancelled one
\* they kill.
LateCallback(s, written) ==
    IF Destroyed(s) THEN Fault(s, "freed connection")
    ELSE IF written THEN Read(s) ELSE Kill(s)

\* libuv has closed the proxy's socket and calls the request back that was in
\* flight; n bytes of a write were sent.  Between this and HandlesClosed there
\* is no order: on Unix the handle closed last comes first, on Windows the one
\* whose requests end first.
ProxyClosed(n) ==
    /\ Running
    /\ c.ptcp = "closed" /\ c.cancelled
    /\ n <= Len(c.pOut)
    /\ c' = LateCallback([c EXCEPT !.cancelled = FALSE, !.pOut = << >>],
                         n > 0 /\ n = Len(c.pOut))
    /\ rGot' = rGot \o SubSeq(c.pOut, 1, n)
    /\ UNCHANGED <<cSent, cEnd, cGot, sock, rSent, rEnd>>

\* gateway_close: UvLwipBase::release closes the listener, the interface and
\* the timer, then every connection of connSet.
Release ==
    LET t == [c EXCEPT !.released = TRUE, !.count = IF c.inSet THEN 1 ELSE 0,
                       !.timer = "closing"]
    IN  /\ Running
        /\ ~ c.released
        /\ c' = IF c.inSet THEN IClose(t) ELSE t
        /\ UNCHANGED <<cSent, cEnd, cGot, sock, rSent, rEnd, rGot>>

\* uvl_timer_close_cb.
TimerClosed ==
    /\ Running
    /\ c.timer = "closing"
    /\ c' = SelfClose([c EXCEPT !.timer = "closed"])
    /\ UNCHANGED <<cSent, cEnd, cGot, sock, rSent, rEnd, rGot>>

\* The remote host, once connected.
RemoteSends ==
    /\ Running
    /\ c.ptcp = "ready" /\ rEnd = "open" /\ rSent < RMax
    /\ rSent' = rSent + 1
    /\ sock' = Append(sock, rSent + 1)
    /\ UNCHANGED <<c, cSent, cEnd, cGot, rEnd, rGot>>

RemoteEnds(how) ==
    /\ Running
    /\ c.ptcp = "ready" /\ rEnd = "open"
    /\ rEnd' = how
    /\ UNCHANGED <<c, cSent, cEnd, cGot, sock, rSent, rGot>>

Next ==
    \/ \E k \in Kinds, kernel \in BOOLEAN : Accept(k, kernel)
    \/ \E n \in 0 .. CMax, a \in 0 .. SndBuf, fin \in BOOLEAN : Segment(n, a, fin)
    \/ PcbError
    \/ \E lost \in BOOLEAN : LwipClosing(lost)
    \/ AsyncRead
    \/ \E mem \in BOOLEAN, out \in BOOLEAN : AsyncWrite(mem, out)
    \/ ProxyAnswer
    \/ ProxyRefuse
    \/ \E n \in 1 .. RMax : ProxyData(n)
    \/ ProxyWrote
    \/ ProxyEnd
    \/ ProxyError
    \/ HandlesClosed
    \/ \E n \in 0 .. CMax : ProxyClosed(n)
    \/ Release
    \/ TimerClosed
    \/ RemoteSends
    \/ \E how \in {"fin", "rst"} : RemoteEnds(how)

\* libuv runs the close callbacks; a connect ends one way or the other; the
\* remote host takes what it is sent, or resets.
Fairness ==
    /\ WF_vars(HandlesClosed)
    /\ WF_vars(ProxyAnswer \/ ProxyRefuse)
    /\ WF_vars(ProxyWrote \/ ProxyError)

Spec == Init /\ [][Next]_vars /\ Fairness
----------------------------------------------------------------------------
(* Properties.                                                             *)

\* The fields of the connection stay in their ranges.
TypeOK ==
    /\ c.kind \in {"direct", "socks5", "fake"}
    /\ c.pcb \in {"none", "live", "closing", "reset", "gone"}
    /\ c.wnd \in 0 .. Wnd /\ Len(c.snd) <= SndBuf /\ Len(c.buf) <= Wnd
    /\ c.handles \in {"none", "open", "closing", "freed"}
    /\ c.ptcp \in {"none", "connecting", "greeting", "request", "failed",
                   "ready", "closed"}
    /\ c.selfClosed \in 0 .. 2
    /\ cSent \in 0 .. CMax /\ rSent \in 0 .. RMax

Reading == c.handles = "open" /\ ~ c.closed /\ ~ c.killed

\* While the connection is open, every byte of the console is, in order and
\* once, with the remote host, in the write in flight or in recv_buf, and lwIP's
\* window is what recv_buf leaves free: uvl_async_tcp_read_cb, onData and
\* tcp_recved together lose, repeat and swap nothing.
UpstreamIntact ==
    Reading =>
        /\ rGot \o c.pOut \o c.buf = Stream(cSent)
        /\ c.wnd = Wnd - Len(c.buf)

\* What the requests still have to hand to lwIP.
Queued ==
    Joined([i \in DOMAIN c.writes |->
        SubSeq(c.writes[i].data, c.writes[i].sent + 1, Len(c.writes[i].data))])

\* The same for the remote host's bytes: with the console, in lwIP's send
\* buffer, in a write request or in the socket.
DownstreamIntact ==
    Reading /\ c.kind # "fake" => cGot \o c.snd \o Queued \o sock = Stream(rSent)

\* However the connection ends, each side has received a prefix of what the
\* other sent.
PrefixDelivered ==
    /\ \E n \in 0 .. cSent : rGot = Stream(n)
    /\ c.kind # "fake" => \E n \in 0 .. rSent : cGot = Stream(n)

\* The requests' pending bytes are exactly lwIP's unacknowledged bytes: the loop
\* of uvl_client_sent_func never runs off the list.
PendingIsUnacked == Reading => Total(Pending(c)) = Len(c.snd)

\* Flow control: one write in flight in each direction, and no side is read
\* while its write is in flight; so uvl_write_t's are never chained, and
\* uvl_read_start never answers UV_EALREADY to the asserting caller.
OneInFlight ==
    /\ Len(c.writes) <= 1
    /\ c.readCb => c.pOut = << >> /\ ~ c.closed
    /\ c.pReading /\ c.handles = "open" => c.writes = << >>

\* The only faults.  Closing the gateway during an unfinished SOCKS5 handshake
\* reaches the proxy's socket before it exists; and the request that was in
\* flight when the socket was closed calls a connection that is destroyed by
\* then.  No assertion on the requests or on recv_buf fails.
FaultsKnown ==
    c.fault # "none" =>
        \/ /\ c.fault = "null proxy socket"
           /\ c.released /\ c.kind = "socks5"
           /\ c.ptcp \notin {"ready", "closed"}
        \/ /\ c.fault = "freed connection"
           /\ c.killed /\ c.ptcp = "closed" /\ c.handles = "freed"

\* Once the handles are closed only the cancelled request of the proxy's socket
\* can still call the connection: neither side reads, no request is queued and
\* the proxy's socket is closed.
FreedIsQuiet ==
    c.handles = "freed" /\ Running /\ c.kind # "fake" =>
        /\ ~ c.readCb /\ ~ c.pReading /\ c.writes = << >>
        /\ c.ptcp = "closed" /\ c.killed

\* The base drops its self reference (second onSelfClose) only when its timer
\* is closed and no connection is open: close() runs twice per connection.
BaseFreedLast ==
    c.selfClosed = 2 =>
        c.timer = "closed" /\ c.handles \in {"none", "closing", "freed"}

\* A remote host that ends its stream loses nothing: the end is noticed only
\* when the console has acknowledged every byte before it.
EndAfterData == [][ProxyEnd => cGot = Stream(rSent)]_vars

\* When the console ends the connection, everything the direct proxy holds for
\* it is freed.
ConsoleEndFrees == cEnd # "open" /\ c.kind = "direct" ~> c.handles = "freed"

\* gateway_close frees the connection, unless it hits the unfinished handshake.
ReleaseFrees ==
    c.released /\ c.handles # "none" ~> c.handles = "freed" \/ ~ Running

\* Whoever ends the connection, the console or gateway_close, it is freed.
EndsFreed == ConsoleEndFrees /\ ReleaseFrees

\* Both streams together: nothing is lost, repeated or swapped in the bridge.
StreamsIntact == UpstreamIntact /\ DownstreamIntact /\ PrefixDelivered

\* The lists of requests and the flags of the reads fit each other and lwIP.
RequestsSound == TypeOK /\ PendingIsUnacked /\ OneInFlight

\* Nothing is freed while another part may still call it, but for the cancelled
\* request of a proxy socket (FreedNotCalled).
FreeOrder == FreedIsQuiet /\ BaseFreedLast

\* What the capture of `this' in onConnection relies on, and what the cancelled
\* request breaks: a connection that is destroyed is not called any more.
FreedNotCalled == c.fault # "freed connection"
=============================================================================

------------------------------ MODULE LwipSend ------------------------------
(***************************************************************************)
(* The sending half of a TCP connection of the lwIP stack the gateway runs *)
(* for the console (lwip/src/core): tcp_write, tcp_output, what            *)
(* tcp_receive does with an acknowledgement, fast retransmission, and the  *)
(* retransmission and persist timers of tcp_slowtmr.                       *)
(*                                                                         *)
(* uv_lwip writes the bytes 1 .. Stream of a remote server and closes.     *)
(* The network between lwIP and the console loses, repeats and reorders    *)
(* segments and acknowledgements; the console itself sends no data, so     *)
(* that no acknowledgement is due to it (TF_ACK_NOW).  When the timers     *)
(* expire is left open: rtime is only running or not, and the persist      *)
(* timer on or off.                                                        *)
(***************************************************************************)
EXTENDS TcpSeq, TLC

CONSTANTS
    Stream,     \* bytes written before the connection is closed
    Mss,        \* pcb->mss
    SndBuf,     \* TCP_SND_BUF
    Buffer,     \* the console's receive buffer, announced when it connected
    CwndSpace,  \* 2^16, the values of tcpwnd_size_t
    MaxRtx,     \* TCP_MAXRTX
    InFlight,   \* segments under way at a time, and acknowledgements
    Fails       \* whether an output of the netif may fail

ASSUME SendAssumption ==
    /\ Stream \in Nat /\ Mss \in Nat \ {0} /\ SndBuf \in Nat \ {0} /\ Buffer \in Nat \ {0}
    /\ CwndSpace \in Nat /\ 5 * Mss < CwndSpace /\ 3 * Mss + Buffer \div 2 < CwndSpace
    /\ MaxRtx \in Nat /\ InFlight \in Nat /\ Fails \in BOOLEAN
    /\ 2 * (Stream + Buffer + 2) <= Space

VARIABLES
    pcb,        \* the sender's fields of struct tcp_pcb
    written,    \* how many bytes tcp_write has accepted
    net,        \* segments under way to the console
    acks,       \* acknowledgements under way from the console
    got,        \* the console: the first byte it misses
    held,       \* the console: what it has received beyond that
    edge        \* the console: the first byte beyond its window

vars == <<pcb, written, net, acks, got, held, edge>>

(***************************************************************************)
(* Segments: [seqno, len, fin].                                            *)
(***************************************************************************)
Tcplen(s) == s.len + (IF s.fin THEN 1 ELSE 0)
End(s) == Plus(s.seqno, Tcplen(s))
Data(q) == FoldFunction(LAMBDA s, n : s.len + n, 0, q)

\* mss_local of tcp_write; snd_wnd_max is what the console announced first.
MssLocal == LET m == Min({Mss, Buffer \div 2}) IN IF m = 0 THEN Mss ELSE m

Pieces(seqno, n) ==
    [i \in 1 .. (n + MssLocal - 1) \div MssLocal |->
        [seqno |-> Plus(seqno, (i - 1) * MssLocal),
         len |-> Min({MssLocal, n - (i - 1) * MssLocal}), fin |-> FALSE]]

\* tcp_write: fill the last unsent segment, also one that was sent before,
\* then make new ones.
TcpWrite(p, n) ==
    LET q == p.unsent
        room == IF q = <<>> THEN 0 ELSE Min({n, MssLocal - Last(q).len})
        filled == IF room = 0 THEN q ELSE [q EXCEPT ![Len(q)].len = @ + room]
    IN  [p EXCEPT !.unsent = filled \o Pieces(Plus(p.snd_lbb, room), n - room),
                  !.snd_lbb = Plus(@, n), !.snd_buf = @ - n]

\* tcp_send_fin.  snd_lbb only counts a FIN that has a segment of its own.
TcpSendFin(p) ==
    LET q == p.unsent
    IN  [p EXCEPT !.tf_fin = TRUE,
                  !.unsent = IF q # <<>> THEN [q EXCEPT ![Len(q)].fin = TRUE]
                             ELSE <<[seqno |-> p.snd_lbb, len |-> 0, fin |-> TRUE]>>,
                  !.snd_lbb = IF q # <<>> THEN @ ELSE Plus(@, 1)]

(***************************************************************************)
(* tcp_output, of which at most limit segments leave before an output of   *)
(* the netif fails.  What leaves is in the field out.                      *)
(***************************************************************************)
Fits(p, s) == Plus(Minus(s.seqno, p.lastack), s.len) <= Min({p.snd_wnd, p.cwnd})

\* tcp_do_output_nagle when the first i - 1 unsent segments have left.
Nagle(p, i) ==
    \/ i = 1 /\ p.unacked = <<>>
    \/ p.infr \/ i < Len(p.unsent) \/ p.unsent[i].len >= Mss \/ p.snd_buf = 0
    \/ p.memerr \/ p.tf_fin

InOrder(q) == SortSeq(q, LAMBDA s, t : Gt(t.seqno, s.seqno))

\* The window is open, but not wide enough for the next segment.
TooNarrow(p) ==
    /\ p.unsent # <<>> /\ p.unacked = <<>>
    /\ ~Fits(p, p.unsent[1]) /\ 0 < p.snd_wnd /\ p.snd_wnd <= p.cwnd

\* A bug: what is sent goes to the tail of unacked.
TcpOutputTail(p, limit) ==
    LET k == Leading(p.unsent, LAMBDA i : Fits(p, p.unsent[i]) /\ Nagle(p, i))
        taken == SubSeq(p.unsent, 1, k)
        end == IF k = 0 THEN p.snd_nxt ELSE End(taken[k])
    IN  IF TooNarrow(p) THEN [p EXCEPT !.persist = TRUE, !.memerr = FALSE]
        ELSE [p EXCEPT !.out = @ \cup {taken[i] : i \in 1 .. k},
                       !.unsent = From(@, k + 1), !.unacked = @ \o taken,
                       !.snd_nxt = IF Gt(end, @) THEN end ELSE @,
                       !.rtime = @ \/ k > 0, !.memerr = FALSE]

\* What fits leaves and joins unacked in the order of the stream.
TcpOutput(p, limit) ==
    LET ready == Leading(p.unsent, LAMBDA i : Fits(p, p.unsent[i]) /\ Nagle(p, i))
        k == Min({ready, limit})
        taken == SubSeq(p.unsent, 1, k)
        end == IF k = 0 THEN p.snd_nxt ELSE End(taken[k])
    IN  IF TooNarrow(p) THEN [p EXCEPT !.persist = TRUE, !.memerr = FALSE]
        ELSE [p EXCEPT !.out = @ \cup {taken[i] : i \in 1 .. k},
                       !.unsent = From(@, k + 1),
                       !.unacked = InOrder(@ \o taken),
                       !.snd_nxt = IF Gt(end, @) THEN end ELSE @,
                       !.rtime = @ \/ ready > 0,
                       !.memerr = k < ready]

(***************************************************************************)
(* tcp_receive: the acknowledgement a = [ackno, wnd].                      *)
(***************************************************************************)
\* A bug: a window of zero does not start the persist timer.
UpdateWindowNoPersist(p, a) ==
    IF Gt(a.ackno, p.snd_wl2) \/ (a.ackno = p.snd_wl2 /\ a.wnd > p.snd_wnd)
    THEN [p EXCEPT !.snd_wnd = a.wnd, !.snd_wl2 = a.ackno] ELSE p

\* A bug: the window of an old acknowledgement counts too.
UpdateWindowAny(p, a) ==
    [p EXCEPT !.snd_wnd = a.wnd, !.snd_wl2 = a.ackno, !.persist = (a.wnd = 0)]

\* Only a newer acknowledgement, or a wider window, counts.
UpdateWindow(p, a) ==
    IF Gt(a.ackno, p.snd_wl2) \/ (a.ackno = p.snd_wl2 /\ a.wnd > p.snd_wnd)
    THEN [p EXCEPT !.snd_wnd = a.wnd, !.snd_wl2 = a.ackno, !.persist = (a.wnd = 0)]
    ELSE p

Grown(cwnd, n) == IF (cwnd + n) % CwndSpace > cwnd THEN cwnd + n ELSE cwnd
Halved(p) == Max({Min({p.cwnd, p.snd_wnd}) \div 2, 2 * Mss})

\* tcp_rexmit_fast and tcp_rexmit: the first unacked segment, once.
RexmitFast(p) ==
    IF p.unacked = <<>> \/ p.infr THEN p
    ELSE [p EXCEPT !.unsent = InOrder(<<p.unacked[1]>> \o @), !.unacked = Tail(@),
                   !.nrtx = @ + 1, !.ssthresh = Halved(p), !.cwnd = Halved(p) + 3 * Mss,
                   !.infr = TRUE, !.rtime = TRUE]

\* An acknowledgement of nothing new; q is the pcb before its window update.
\* Above 4 the count of duplicates makes no difference.
DupAck(p, q, a) ==
    LET dup == /\ Plus(p.snd_wl2, p.snd_wnd) = Plus(q.snd_wl2, q.snd_wnd)
               /\ p.rtime /\ a.ackno = p.lastack
        n == Min({p.dupacks + 1, 4})
    IN  IF ~dup THEN [p EXCEPT !.dupacks = 0]
        ELSE IF n = 3 THEN RexmitFast([p EXCEPT !.dupacks = n])
        ELSE [p EXCEPT !.dupacks = n, !.cwnd = IF n > 3 THEN Grown(@, Mss) ELSE @]

\* A bug: a segment is freed when its first byte is acknowledged.
NewAckPartial(p, a) ==
    LET k == Leading(p.unacked, LAMBDA i : Gt(a.ackno, p.unacked[i].seqno))
    IN  [p EXCEPT !.infr = FALSE, !.nrtx = 0, !.dupacks = 0, !.lastack = a.ackno,
                  !.unacked = From(@, k + 1), !.rtime = k < Len(p.unacked),
                  !.snd_buf = @ + Data(SubSeq(p.unacked, 1, k))]

\* What is acknowledged in full leaves unacked and frees its buffer.
NewAck(p, a) ==
    LET cwnd == IF p.infr THEN p.ssthresh ELSE p.cwnd
        k == Leading(p.unacked, LAMBDA i : Geq(a.ackno, End(p.unacked[i])))
    IN  [p EXCEPT !.infr = FALSE, !.nrtx = 0, !.dupacks = 0, !.lastack = a.ackno,
                  !.cwnd = Grown(cwnd, IF cwnd < p.ssthresh THEN Mss ELSE (Mss * Mss) \div cwnd),
                  !.unacked = From(@, k + 1), !.rtime = k < Len(p.unacked),
                  !.snd_buf = @ + Data(SubSeq(p.unacked, 1, k))]

\* A bug: such segments are freed without their bytes of the send buffer.
AckUnsentLeaks(p, a) ==
    [p EXCEPT !.unsent = From(@, 1 + Leading(@, LAMBDA i :
                                Between(a.ackno, End(p.unsent[i]), p.snd_nxt)))]

\* Segments that wait to be sent again may be acknowledged too.
AckUnsent(p, a) ==
    LET k == Leading(p.unsent, LAMBDA i : Between(a.ackno, End(p.unsent[i]), p.snd_nxt))
    IN  [p EXCEPT !.unsent = From(@, k + 1), !.snd_buf = @ + Data(SubSeq(p.unsent, 1, k))]

TcpReceive(p, a) ==
    LET q == UpdateWindow(p, a)
    IN  AckUnsent(IF Geq(p.lastack, a.ackno) THEN DupAck(q, p, a)
                  ELSE IF Between(a.ackno, Plus(p.lastack, 1), p.snd_nxt) THEN NewAck(q, a)
                  ELSE q, a)

(***************************************************************************)
(* tcp_slowtmr.                                                            *)
(***************************************************************************)
Probe(p) == LET s == (p.unacked \o p.unsent)[1]
            IN  [seqno |-> s.seqno, len |-> Min({s.len, 1}), fin |-> s.len = 0]

ZeroWindowProbe(p, limit) ==
    IF p.unacked \o p.unsent = <<>> THEN p
    ELSE [p EXCEPT !.out = IF limit = 0 THEN @ ELSE @ \cup {Probe(p)},
                   !.snd_nxt = IF Gt(End(Probe(p)), @) THEN End(Probe(p)) ELSE @]

RexmitRto(p) ==
    [p EXCEPT !.unsent = p.unacked \o @, !.unacked = <<>>, !.nrtx = @ + 1,
              !.ssthresh = Halved(p), !.cwnd = Mss, !.rtime = TRUE]

\* One tick, in which the timer that runs expires or not; pollinterval is 0,
\* so that every tick ends with tcp_output.
SlowTimer(p, expired, limit) ==
    TcpOutput(IF ~expired THEN p
              ELSE IF p.persist THEN ZeroWindowProbe(p, limit)
              ELSE IF p.rtime /\ p.unacked # <<>> THEN TcpOutput(RexmitRto(p), limit)
              ELSE p, limit)

(***************************************************************************)
(* The steps of the relay.  limit is 0 when the netif's output fails.      *)
(***************************************************************************)
All == Stream + 1
Limits == IF Fails THEN {0, All} ELSE {All}

Fresh == [snd_nxt |-> SeqNo(1), lastack |-> SeqNo(1), snd_lbb |-> SeqNo(1),
          snd_wnd |-> Buffer, snd_wl2 |-> SeqNo(1), snd_buf |-> SndBuf,
          cwnd |-> 4 * Mss, ssthresh |-> SndBuf, dupacks |-> 0, nrtx |-> 0,
          infr |-> FALSE, memerr |-> FALSE, tf_fin |-> FALSE, rtime |-> FALSE,
          persist |-> FALSE, aborted |-> FALSE, unsent |-> <<>>, unacked |-> <<>>,
          out |-> {}]

\* Of the segments under way older ones are lost when there are too many.
Sends(p) ==
    /\ pcb' = [p EXCEPT !.out = {}]
    /\ net' = IF Cardinality(net \cup p.out) <= InFlight THEN net \cup p.out ELSE p.out

May == Min({pcb.snd_buf, Stream - written})

\* All that was sent before is acknowledged; the console has read part of it.
Init ==
    \E wnd \in 0 .. Min({Buffer, Stream + 1}) :
        /\ pcb = [Fresh EXCEPT !.snd_wnd = wnd, !.persist = (wnd = 0)]
        /\ written = 0 /\ net = {} /\ acks = {}
        /\ got = 1 /\ held = {} /\ edge = 1 + wnd

\* uvl_imp_write_to_tcp: tcp_write takes n bytes, all of them or, out of
\* memory, none; then tcp_output.  When that fails the connection is closed.
Write(n, ok, limit) ==
    LET p == TcpOutput(IF ok THEN TcpWrite(pcb, n) ELSE [pcb EXCEPT !.memerr = TRUE], limit)
    IN  /\ ~pcb.aborted /\ ~pcb.tf_fin
        /\ Sends(IF p.memerr THEN TcpOutput(TcpSendFin(p), limit) ELSE p)
        /\ written' = IF ok THEN written + n ELSE written
        /\ UNCHANGED <<acks, got, held, edge>>

\* tcp_close of an established connection.
Close(limit) ==
    /\ ~pcb.aborted /\ ~pcb.tf_fin
    /\ Sends(TcpOutput(TcpSendFin(pcb), limit))
    /\ UNCHANGED <<written, acks, got, held, edge>>

\* tcp_input: tcp_receive; when that frees something of the send buffer the
\* sent callback writes n more bytes; then tcp_output.
AckInput(a, n, limit) ==
    LET p == TcpReceive(pcb, a)
    IN  /\ ~pcb.aborted
        /\ written' = written + n
        /\ n > 0 => /\ n <= Min({p.snd_buf, Stream - written})
                    /\ p.snd_buf > pcb.snd_buf /\ ~pcb.tf_fin
        /\ Sends(TcpOutput(TcpWrite(p, n), limit))

\* The network may deliver an acknowledgement again.
AckArrives(a, n, limit, again) ==
    /\ acks' = IF again THEN acks ELSE acks \ {a}
    /\ UNCHANGED <<got, held, edge>>
    /\ AckInput(a, n, limit)

Tick(expired, limit) ==
    /\ ~pcb.aborted /\ pcb.nrtx < MaxRtx
    /\ UNCHANGED <<written, acks, got, held, edge>>
    /\ Sends(SlowTimer(pcb, expired, limit))

\* The connection is removed; nothing that is under way matters any more.
Abort ==
    /\ ~pcb.aborted /\ pcb.nrtx >= MaxRtx
    /\ pcb' = [Fresh EXCEPT !.aborted = TRUE]
    /\ net' = {} /\ acks' = {} /\ got' = 1 /\ held' = {} /\ edge' = Buffer + 1 /\ written' = 0

(***************************************************************************)
(* The console and the network.  Bytes are numbered from 1, a FIN as the   *)
(* byte after the last one.                                                *)
(***************************************************************************)
Place(seqno) == 1 + Minus(seqno, Isn)
Bytes(s) == Place(s.seqno) .. Place(s.seqno) + Tcplen(s) - 1

Answers(g, e) == acks' = acks \cup {[ackno |-> SeqNo(g), wnd |-> e - g]}

Arrives(s) ==
    LET taken == {i \in Bytes(s) : i < edge \/ (s.fin /\ i = Place(s.seqno) + s.len /\ i = edge)}
        all == held \cup taken
        g == CHOOSE i \in got .. Stream + 2 : got .. i - 1 \subseteq all /\ i \notin all
    IN  /\ ~pcb.aborted /\ Cardinality(acks) < InFlight
        /\ net' = net \ {s}
        /\ UNCHANGED <<pcb, written>>
        /\ got' = g /\ held' = {i \in all : i > g} /\ edge' = Max({edge, g})
        /\ Answers(g, edge')

Lost(s) ==
    /\ ~pcb.aborted
    /\ net' = net \ {s}
    /\ UNCHANGED <<pcb, written, acks, got, held, edge>>

AckLost(a) ==
    /\ ~pcb.aborted
    /\ acks' = acks \ {a}
    /\ UNCHANGED <<pcb, written, net, got, held, edge>>

\* The console's program reads and its window opens, here only as far as the
\* stream goes.
Widest == Min({got + Buffer, Stream + 2})

Reads(e) ==
    /\ ~pcb.aborted /\ Cardinality(acks) < InFlight
    /\ edge < e /\ e <= Widest
    /\ edge' = e /\ Answers(got, e)
    /\ UNCHANGED <<pcb, written, net, got, held>>

Next ==
    \/ \E n \in 1 .. Stream, limit \in Limits : n <= May /\ Write(n, TRUE, limit)
    \/ \E limit \in Limits : May > 0 /\ Write(May, FALSE, limit)
    \/ \E limit \in Limits : Close(limit)
    \/ \E a \in acks, n \in 0 .. Stream, limit \in Limits, again \in BOOLEAN :
          AckArrives(a, n, limit, again)
    \/ \E expired \in BOOLEAN, limit \in Limits : Tick(expired, limit)
    \/ Abort
    \/ \E s \in net : Arrives(s)
    \/ \E s \in net : Lost(s)
    \/ \E a \in acks : AckLost(a)
    \/ \E e \in 1 .. Stream + 2 : Reads(e)

(***************************************************************************)
(* A tick of the slow timer that does something comes in time, what is     *)
(* sent again and again gets through, and the console's program reads.     *)
(***************************************************************************)
TickDue ==
    /\ ~pcb.aborted /\ pcb.nrtx < MaxRtx
    /\ \/ pcb.persist /\ pcb.unacked \o pcb.unsent # <<>> /\ Probe(pcb) \notin net
       \/ ~pcb.persist /\ pcb.rtime /\ pcb.unacked # <<>>
       \/ ~pcb.persist /\ pcb.unacked = <<>> /\ pcb.unsent # <<>>
          /\ (TooNarrow(pcb) \/ Fits(pcb, pcb.unsent[1]))

Fairness ==
    /\ []<>~TickDue \/ []<><<Tick(TRUE, All)>>_vars
    /\ []<>(pcb.aborted \/ pcb.nrtx < MaxRtx) \/ []<><<Abort>>_vars
    /\ <>[](net = {} \/ pcb.aborted \/ Cardinality(acks) >= InFlight)
       \/ []<><<\E s \in net : Arrives(s)>>_vars
    /\ <>[](acks = {} \/ pcb.aborted)
       \/ []<><<\E a \in acks, n \in 0 .. Stream : AckArrives(a, n, All, FALSE)>>_vars
    /\ <>[](edge >= Widest \/ pcb.aborted \/ Cardinality(acks) >= InFlight)
       \/ []<><<\E e \in 1 .. Stream + 2 : Reads(e)>>_vars

Spec == Init /\ [][Next]_vars /\ Fairness

(***************************************************************************)
(* Properties.                                                             *)
(***************************************************************************)
Queued == InOrder(pcb.unacked \o pcb.unsent)
Closing == IF pcb.tf_fin THEN 1 ELSE 0

\* The fields keep their ranges; the send buffer is never over- or underrun,
\* and what is free of it (snd_buf) and what is queued add up to TCP_SND_BUF.
TypeOK ==
    /\ pcb.snd_buf \in 0 .. SndBuf
    /\ pcb.cwnd \in Mss .. CwndSpace - 1 /\ pcb.ssthresh \in 1 .. CwndSpace - 1
    /\ pcb.nrtx \in 0 .. MaxRtx + 1 /\ pcb.dupacks \in 0 .. 4 /\ pcb.out = {}
    /\ written \in 0 .. Stream /\ got \in 1 .. written + 1 + Closing
    /\ Cardinality(acks) <= InFlight
    /\ ~pcb.aborted => pcb.snd_buf + Data(Queued) = SndBuf

\* However segments were split, joined, sent again and acknowledged in part,
\* unacked and unsent together hold, once and in order, everything that
\* tcp_write took and the console has not acknowledged, and the FIN: no byte
\* the console misses has left the queues.
QueuesCover ==
    pcb.aborted \/
    /\ \A i \in 1 .. Len(Queued) - 1 : End(Queued[i]) = Queued[i + 1].seqno
    /\ Queued # <<>> => /\ End(Last(Queued)) = SeqNo(written + 1 + Closing)
                        /\ Place(Queued[1].seqno) <= got
                        /\ Gt(End(Queued[1]), pcb.lastack)
    /\ Queued = <<>> => Place(pcb.lastack) = written + 1 + Closing
    /\ Place(pcb.lastack) <= got

\* Both queues are in the order of the stream, as tcp_receive, which looks
\* only at their heads, takes for granted.
QueuesSorted ==
    /\ pcb.unacked = InOrder(pcb.unacked)
    /\ pcb.unsent = InOrder(pcb.unsent)

\* Whatever is still to be acknowledged, a timer is there to send it: after
\* any order of acknowledgements and window updates the retransmission timer
\* runs, or the persist timer, or the next poll sends.
NeverSilent ==
    /\ pcb.unacked # <<>> => pcb.rtime \/ pcb.persist
    /\ pcb.unacked = <<>> /\ pcb.unsent # <<>> =>
          pcb.persist \/ TooNarrow(pcb) \/ Fits(pcb, pcb.unsent[1])

\* No data is sent beyond the window the console announced, but for the one byte
\* of the persist timer's probe.
WithinWindow ==
    [][\A s \in net' \ net :
           \/ Place(s.seqno) + s.len <= edge
           \/ s.len = 0
           \/ pcb.persist /\ s = Probe(pcb)]_vars

\* What is queued is eventually acknowledged, or the connection is aborted
\* after TCP_MAXRTX retransmissions; lost window updates do not stop it.
Drains == <>[](pcb.aborted \/ Queued = <<>>)

\* The sender's queues: accounted for in snd_buf, complete and in order.
QueuesSound == TypeOK /\ QueuesCover /\ QueuesSorted
=============================================================================

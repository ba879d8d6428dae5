---------------------------- MODULE LwipReceive -----------------------------
(***************************************************************************)
(* The receiving half of a TCP connection of the lwIP stack the gateway    *)
(* runs for the console (lwip/src/core, with lwip/custom/lwipopts.h): the  *)
(* data part of tcp_receive with its queue of out-of-order segments, the   *)
(* announced window, and the acknowledgements.  The reader is              *)
(* uvl_async_tcp_read_cb, which takes all that has been received.          *)
(*                                                                         *)
(* The console sends the bytes 1 .. Stream and then its FIN.  The network  *)
(* loses, repeats and reorders: any piece of the stream that the console   *)
(* has been allowed to send may arrive at any time, and an acknowledgement *)
(* is lost or overtaken by the next.  Sequence numbers have Width bits and *)
(* are compared by the sign of their difference; Isn makes them wrap.      *)
(***************************************************************************)
EXTENDS TcpSeq

CONSTANTS
    Stream,     \* bytes the console sends before its FIN
    Mss,        \* TCP_MSS, the most bytes in a segment
    TcpWnd      \* TCP_WND, also UVL_TCP_RECV_BUF_LEN

\* 512 and 4 * 512 in the build.  No segment survives long enough to be
\* half the sequence space old.
ASSUME ReceiveAssumption ==
    /\ Stream \in Nat /\ Mss \in Nat \ {0} /\ TcpWnd \in Nat \ {0}
    /\ 2 * (Stream + TcpWnd + 2) <= Space

VARIABLES
    pcb,        \* the receiver's fields of struct tcp_pcb; delayed is TF_ACK_DELAY
    delivered,  \* all that TCP_EVENT_RECV has handed over
    recv_used,  \* bytes waiting in recv_buf
    una,        \* the console: the first byte it has no acknowledgement of
    allowed,    \* the console: the first byte beyond the window it knows
    ack,        \* the newest acknowledgement under way
    resent      \* the console has sent again from una, and that is under way

vars == <<pcb, delivered, recv_used, una, allowed, ack, resent>>
console == <<una, allowed, resent>>

NoAck == [una |-> 0, allowed |-> 0]

(***************************************************************************)
(* Segments: [seqno, data, fin].                                           *)
(***************************************************************************)
Tcplen(s) == Len(s.data) + (IF s.fin THEN 1 ELSE 0)
DataEnd(s) == Plus(s.seqno, Len(s.data))
End(s) == Plus(s.seqno, Tcplen(s))
CutAt(s, seqno) == [s EXCEPT !.data = SubSeq(@, 1, Minus(seqno, s.seqno))]

\* How many segments at the head of q end at seqno or before, start before it,
\* or follow it without a gap.
Covered(q, seqno) == Leading(q, LAMBDA i : Geq(seqno, DataEnd(q[i])))
Earlier(q, seqno) == Leading(q, LAMBDA i : Gt(seqno, q[i].seqno))
Adjacent(q, seqno) ==
    Leading(q, LAMBDA i : q[i].seqno = IF i = 1 THEN seqno ELSE End(q[i - 1]))

(***************************************************************************)
(* tcp_update_rcv_ann_wnd: the right edge moves by Step or more, or stays. *)
(***************************************************************************)
Step == IF TcpWnd \div 2 < Mss THEN TcpWnd \div 2 ELSE Mss
RightEdge(p) == Plus(p.rcv_nxt, p.rcv_wnd)
CanAdvertise(p) == Geq(RightEdge(p), Plus(p.rcv_ann_right_edge, Step))

\* A bug: the window is closed where the edge should stay.
UpdateAnnWndShrinks(p) ==
    [p EXCEPT !.rcv_ann_wnd = IF CanAdvertise(p) THEN p.rcv_wnd ELSE 0]

\* A bug: the announced window is left as it was.
UpdateAnnWndStale(p) ==
    IF CanAdvertise(p) THEN [p EXCEPT !.rcv_ann_wnd = p.rcv_wnd] ELSE p

\* What is announced, so that the edge never moves back.
UpdateAnnWnd(p) ==
    [p EXCEPT !.rcv_ann_wnd =
        IF CanAdvertise(p) THEN p.rcv_wnd
        ELSE IF Gt(p.rcv_nxt, p.rcv_ann_right_edge) THEN 0
        ELSE Minus(p.rcv_ann_right_edge, p.rcv_nxt)]

(***************************************************************************)
(* tcp_receive.  The result: the pcb, what goes to the application, and    *)
(* whether an acknowledgement leaves before the segment is done with.      *)
(***************************************************************************)
Result(p, data, fin, now) == [pcb |-> p, data |-> data, fin |-> fin, now |-> now]

\* A bug: one byte too few is dropped.
TrimFrontShort(p, s) ==
    IF Between(p.rcv_nxt, Plus(s.seqno, 1), Plus(s.seqno, Tcplen(s) - 1))
    THEN [s EXCEPT !.seqno = p.rcv_nxt, !.data = From(@, Minus(p.rcv_nxt, s.seqno))]
    ELSE s

\* Dropping what rcv_nxt has passed.
TrimFront(p, s) ==
    IF Between(p.rcv_nxt, Plus(s.seqno, 1), Plus(s.seqno, Tcplen(s) - 1))
    THEN [s EXCEPT !.seqno = p.rcv_nxt,
                   !.data = From(@, Minus(p.rcv_nxt, s.seqno) + 1)]
    ELSE s

\* Cutting what does not fit in the window, the FIN first.
TrimToWindow(p, s) ==
    IF Gt(End(s), RightEdge(p)) THEN CutAt([s EXCEPT !.fin = FALSE], RightEdge(p)) ELSE s

\* Segments of the queue that s covers give way to it; s ends where the next
\* begins.
CoverTail(s, rest) ==
    IF rest # <<>> /\ Gt(End(s), rest[1].seqno) THEN CutAt(s, rest[1].seqno) ELSE s

\* What is handed over: the data of all the segments taken, in order.
Joined(parts) ==
    LET joined[i \in 1 .. Len(parts)] ==
            IF i = 1 THEN parts[i] ELSE joined[i - 1] \o parts[i]
    IN  joined[Len(parts)]

InOrder(p, s0) ==
    LET s1 == TrimToWindow(p, s0)
        covered == IF s1.fin THEN Len(p.ooseq) ELSE Covered(p.ooseq, End(s1))
        rest == From(p.ooseq, covered + 1)
        s == CoverTail([s1 EXCEPT !.fin = @ \/ \E i \in 1 .. covered : p.ooseq[i].fin], rest)
        run == Adjacent(rest, End(s))
        taken == <<s>> \o SubSeq(rest, 1, run)
        end == End(Last(taken))
        fin == \E i \in DOMAIN taken : taken[i].fin
        data == Joined([i \in DOMAIN taken |-> taken[i].data])
        q == UpdateAnnWnd([p EXCEPT !.rcv_nxt = end,
                                    !.rcv_wnd = @ - Minus(end, p.rcv_nxt),
                                    !.ooseq = From(rest, run + 1),
                                    !.state = IF fin THEN "CLOSE_WAIT" ELSE @])
    IN  Result([q EXCEPT !.delayed = ~p.delayed], data, fin, p.delayed \/ fin)

\* A bug: what c covers stays queued.
OosInsertKeeps(c, q) == <<c>> \o q

\* tcp_oos_insert_segment: c before the queue q.
OosInsert(c, q) ==
    IF c.fin THEN <<c>>
    ELSE LET covered == Covered(q, DataEnd(c))
             rest == From(q, covered + 1)
             c1 == IF rest # <<>> /\ Gt(DataEnd(c), rest[1].seqno)
                   THEN CutAt(c, rest[1].seqno) ELSE c
         IN  <<[c1 EXCEPT !.fin = \E i \in 1 .. covered : q[i].fin]>> \o rest

\* The segments that start before s, the last of them cut where s begins.
Before(q, s) ==
    LET k == Earlier(q, s.seqno)
    IN  [i \in 1 .. k |-> IF i = k /\ Gt(DataEnd(q[i]), s.seqno) THEN CutAt(q[i], s.seqno) ELSE q[i]]

OutOfOrder(p, s) ==
    LET q == p.ooseq
        before == Before(q, s)
        after == From(q, Len(before) + 1)
    IN  IF q = <<>> THEN <<s>>
        ELSE IF after = <<>>
             THEN IF Last(q).fin THEN q ELSE before \o <<TrimToWindow(p, s)>>
        ELSE IF s.seqno = after[1].seqno /\ Len(s.data) <= Len(after[1].data) THEN q
        ELSE IF s.seqno = after[1].seqno
             THEN SubSeq(q, 1, Len(before)) \o OosInsert(s, after)
        ELSE before \o OosInsert(s, after)

InWindow(p, seqno) == Between(seqno, p.rcv_nxt, Plus(p.rcv_nxt, p.rcv_wnd - 1))

\* A bug: a segment outside the window is not answered.
RefuseSilently(p) == Result(p, <<>>, FALSE, FALSE)

\* A segment outside the window is answered: its acknowledgement may be lost.
Refuse(p) == Result(p, <<>>, FALSE, TRUE)

\* copied: tcp_seg_copy had memory.
Receive(p, s0, copied) ==
    LET s == TrimFront(p, s0)
    IN  IF Tcplen(s0) = 0 \/ p.state = "CLOSE_WAIT"
        THEN Result(p, <<>>, FALSE, ~InWindow(p, s0.seqno))
        ELSE IF ~InWindow(p, s.seqno) THEN Refuse(p)
        ELSE IF s.seqno = p.rcv_nxt THEN InOrder(p, s)
        ELSE Result([p EXCEPT !.ooseq = IF copied THEN OutOfOrder(p, s) ELSE @], <<>>, FALSE, TRUE)

(***************************************************************************)
(* Steps.                                                                  *)
(***************************************************************************)
\* The position in the stream that rcv_nxt stands for.
Position == Len(delivered) + 1 + (IF pcb.state = "CLOSE_WAIT" THEN 1 ELSE 0)

Init ==
    /\ pcb = [rcv_nxt |-> Isn, rcv_wnd |-> TcpWnd, rcv_ann_wnd |-> TcpWnd,
              rcv_ann_right_edge |-> Plus(Isn, TcpWnd), ooseq |-> <<>>,
              state |-> "ESTABLISHED", delayed |-> FALSE]
    /\ delivered = <<>> /\ recv_used = 0
    /\ una = 1 /\ allowed = 1 + TcpWnd /\ ack = NoAck /\ resent = FALSE

\* tcp_send_empty_ack, or nothing; position is rcv_nxt's after the step.
Output(p, now, position) ==
    /\ pcb' = IF now
              THEN [p EXCEPT !.rcv_ann_right_edge = Plus(p.rcv_nxt, p.rcv_ann_wnd),
                             !.delayed = FALSE]
              ELSE p
    /\ ack' = IF now THEN [una |-> position, allowed |-> position + p.rcv_ann_wnd] ELSE ack

\* tcp_input for a segment with n bytes from position i on.
Segment(i, n, fin, copied) ==
    LET s == [seqno |-> SeqNo(i), data |-> [k \in 1 .. n |-> i + k - 1], fin |-> fin]
        r == Receive(pcb, s, copied)
        wnd == r.pcb.rcv_wnd
    IN  /\ delivered' = delivered \o r.data
        /\ recv_used' = recv_used + Len(r.data)
        /\ Output(IF r.fin /\ wnd # TcpWnd THEN [r.pcb EXCEPT !.rcv_wnd = wnd + 1] ELSE r.pcb,
                  r.now, Position + Len(r.data) + IF r.fin THEN 1 ELSE 0)

\* What the console may send: data within the window it knows, the FIN after
\* the last byte, and one byte beyond the window to probe it.
MaySend(i, n, fin) ==
    LET end == i + n + IF fin THEN 1 ELSE 0
    IN  /\ i + n <= Stream + 1
        /\ fin => i + n = Stream + 1
        /\ end <= allowed \/ (i = allowed /\ end = i + 1)

Arrives ==
    /\ \E i \in 1 .. Stream + 1, n \in 0 .. Mss, fin, copied \in BOOLEAN :
           MaySend(i, n, fin) /\ Segment(i, n, fin, copied)
    /\ UNCHANGED console

\* The console's retransmission timer: it sends again from the first byte that
\* is not acknowledged.
Resend ==
    /\ ~resent /\ una <= Stream + 1 /\ resent' = TRUE
    /\ UNCHANGED <<pcb, delivered, recv_used, una, allowed, ack>>

ResentArrives ==
    /\ resent /\ resent' = FALSE
    /\ \E n \in 0 .. Mss, fin \in BOOLEAN :
           (n > 0 \/ fin) /\ MaySend(una, n, fin) /\ Segment(una, n, fin, TRUE)
    /\ UNCHANGED <<una, allowed>>

AckArrives ==
    /\ ack # NoAck
    /\ una' = Max({una, ack.una}) /\ allowed' = Max({allowed, ack.allowed})
    /\ ack' = NoAck /\ resent' = (resent /\ una' = una)
    /\ UNCHANGED <<pcb, delivered, recv_used>>

AckLost ==
    /\ ack # NoAck /\ ack' = NoAck
    /\ UNCHANGED <<pcb, delivered, recv_used, una, allowed, resent>>

UpdateThreshold == Min({TcpWnd \div 4, 4 * Mss})
Recved(p, n) == UpdateAnnWnd([p EXCEPT !.rcv_wnd = Min({@ + n, TcpWnd})])

\* A bug: recv_used is not reset.
ReadKeeps ==
    LET p == Recved(pcb, recv_used)
    IN  /\ recv_used > 0 /\ pcb.state = "ESTABLISHED"
        /\ Output(p, TRUE, Position)
        /\ UNCHANGED <<delivered, recv_used, console>>

\* uvl_async_tcp_read_cb and tcp_recved.
Read ==
    LET p == Recved(pcb, recv_used)
    IN  /\ recv_used > 0 /\ pcb.state = "ESTABLISHED"
        /\ recv_used' = 0
        /\ Output(p, CanAdvertise(p) /\ Minus(RightEdge(p), p.rcv_ann_right_edge) >= UpdateThreshold,
                  Position)
        /\ UNCHANGED <<delivered, console>>

\* tcp_fasttmr.
FastTimer ==
    /\ pcb.delayed /\ Output(pcb, TRUE, Position)
    /\ UNCHANGED <<delivered, recv_used, console>>

\* tcp_slowtmr gives up what has waited TCP_OOSEQ_TIMEOUT times the rto.
OoseqTimeout ==
    /\ pcb.ooseq # <<>> /\ pcb' = [pcb EXCEPT !.ooseq = <<>>]
    /\ UNCHANGED <<delivered, recv_used, console, ack>>

Next == Arrives \/ Resend \/ ResentArrives \/ AckArrives \/ AckLost \/ Read \/ FastTimer \/ OoseqTimeout

\* The console retransmits until it is acknowledged, an acknowledgement sent
\* again and again arrives at last, and the bridge keeps reading.  The second
\* conjunct is weak fairness of ResentArrives, its enabling condition written
\* out.
Fairness ==
    /\ WF_vars(Resend)
    /\ []<>~resent \/ []<><<ResentArrives>>_vars
    /\ SF_vars(AckArrives) /\ WF_vars(Read)
Spec == Init /\ [][Next]_vars /\ Fairness

-----------------------------------------------------------------------------
Segments == [seqno : 0 .. Space - 1, data : Seq(1 .. Stream), fin : BOOLEAN]

TypeOK ==
    /\ pcb \in [rcv_nxt : 0 .. Space - 1, rcv_wnd : 0 .. TcpWnd, rcv_ann_wnd : 0 .. TcpWnd,
                rcv_ann_right_edge : 0 .. Space - 1, ooseq : Seq(Segments),
                state : {"ESTABLISHED", "CLOSE_WAIT"}, delayed : BOOLEAN]
    /\ delivered \in Seq(1 .. Stream) /\ recv_used \in 0 .. TcpWnd
    /\ una \in 1 .. Stream + 2 /\ allowed \in 1 .. Stream + TcpWnd + 2
    /\ ack \in [una : 0 .. Stream + 2, allowed : 0 .. Stream + TcpWnd + 2] /\ resent \in BOOLEAN

\* The bridge gets the console's bytes in order, each once, whatever arrives
\* in whatever order, and the end only after all of them; rcv_nxt, which is
\* what the console is told it need not send again, counts exactly those.
InStreamOrder ==
    /\ delivered = [i \in 1 .. Len(delivered) |-> i]
    /\ pcb.rcv_nxt = SeqNo(Position)
    /\ pcb.state = "CLOSE_WAIT" => Len(delivered) = Stream

\* The queue of out-of-order segments is in order and without overlaps, starts
\* after a gap, lies in the window, holds the bytes its sequence numbers say,
\* and only its last segment may carry the FIN, at the end of the stream.
\* tcp_receive and tcp_oos_insert_segment rely on this without checking it.
QueueSound ==
    LET q == pcb.ooseq
    IN  /\ q # <<>> => Gt(q[1].seqno, pcb.rcv_nxt) /\ Geq(RightEdge(pcb), End(Last(q)))
        /\ \A i \in DOMAIN q :
               /\ Tcplen(q[i]) > 0
               /\ \A k \in DOMAIN q[i].data : SeqNo(q[i].data[k]) = Plus(q[i].seqno, k - 1)
               /\ q[i].fin => i = Len(q) /\ DataEnd(q[i]) = SeqNo(Stream + 1)
               /\ i < Len(q) => Geq(q[i + 1].seqno, End(q[i]))

\* The window is exactly the free part of recv_buf, so "no buffer for data" of
\* uvl_client_recv_func is never met; and what the console may still send
\* within the window it was told of always fits.
WindowIsFree ==
    pcb.state = "ESTABLISHED" =>
        /\ pcb.rcv_wnd + recv_used = TcpWnd
        /\ pcb.rcv_ann_wnd <= pcb.rcv_wnd
        /\ Max({allowed, ack.allowed}) <= Position + pcb.rcv_wnd

\* An announced right edge is never taken back by a later acknowledgement.
EdgeKept == [][ack' # ack /\ ack' # NoAck /\ pcb'.state = "ESTABLISHED"
                   => ack'.allowed >= Max({allowed, ack.allowed})]_vars

\* The whole stream is delivered, with its end, and the console learns it:
\* also when window updates are lost and queued segments are given up.
AllAcknowledged == <>(una = Stream + 2)

\* The receiver's state is well formed, its queue of segments included.
ReceiverSound == TypeOK /\ QueueSound
=============================================================================

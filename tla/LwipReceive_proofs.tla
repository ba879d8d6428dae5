------------------------- MODULE LwipReceive_proofs -------------------------
(***************************************************************************)
(* Proofs about LwipReceive, for streams of any length, any sizes of the   *)
(* window and of a segment, and any number of bits of a sequence number    *)
(* that leaves the stream and the window in half of the sequence space.    *)
(***************************************************************************)
EXTENDS LwipQueue_proofs

\* The bytes handed over are the stream so far; window and unread bytes make
\* up the buffer; no acknowledgement allows more than was announced.
IInv ==
    /\ TypeOK
    /\ delivered = [i \in 1 .. Len(delivered) |-> i]
    /\ Len(delivered) <= Stream
    /\ Receiver(pcb, Position)
    /\ una <= Position /\ ack.una <= Position
    /\ pcb.state = "CLOSE_WAIT" => Len(delivered) = Stream /\ pcb.ooseq = <<>>
    /\ pcb.state = "ESTABLISHED" =>
        /\ pcb.rcv_wnd + recv_used = TcpWnd
        /\ Announced(pcb, Position)
        /\ allowed <= Edge(pcb) /\ ack.allowed <= Edge(pcb)

-----------------------------------------------------------------------------
(* tcp_receive.                                                            *)

\* What tcp_receive does with any other segment: nothing goes to the
\* application, and at most the queue changes.
Kept(r, p, n) ==
    /\ r.fin = FALSE /\ r.now \in BOOLEAN /\ r.data = <<>> /\ Receiver(r.pcb, n)
    /\ r.pcb.rcv_wnd = p.rcv_wnd /\ r.pcb.rcv_ann_wnd = p.rcv_ann_wnd /\ r.pcb.state = p.state
    /\ r.pcb.rcv_ann_right_edge = p.rcv_ann_right_edge
    /\ p.state = "CLOSE_WAIT" => r.pcb.ooseq = p.ooseq

\* Only the queue changes.
Requeue(p, q) == [p EXCEPT !.ooseq = q]

\* ooseq changes, and nothing else.
LEMMA PcbRequeue ==
    ASSUME NEW p \in Pcbs, NEW q \in Seq(Segments)
    PROVE  LET r == Requeue(p, q)
           IN  /\ r \in Pcbs /\ r.rcv_nxt = p.rcv_nxt /\ r.rcv_wnd = p.rcv_wnd
               /\ r.rcv_ann_wnd = p.rcv_ann_wnd /\ r.rcv_ann_right_edge = p.rcv_ann_right_edge
               /\ r.ooseq = q /\ r.state = p.state /\ r.delayed = p.delayed
BY SMTT(30) DEF Pcbs, Requeue

\* A result that hands nothing over and changes no more than a sound queue.
LEMMA KeptIs ==
    ASSUME NEW p, NEW n, NEW q, NEW now \in BOOLEAN
    PROVE  Receiver(p, n) /\ Queue(q, n + 1, n + p.rcv_wnd) /\ (p.state = "CLOSE_WAIT" => q = p.ooseq) =>
               Kept(Result(Requeue(p, q), <<>>, FALSE, now), p, n)
<1> SUFFICES ASSUME Receiver(p, n), Queue(q, n + 1, n + p.rcv_wnd), p.state = "CLOSE_WAIT" => q = p.ooseq
             PROVE  Kept(Result(Requeue(p, q), <<>>, FALSE, now), p, n)
  BY Zenon
<1> DEFINE r == Result(Requeue(p, q), <<>>, FALSE, now)
           z == Requeue(p, q)
<1>1. p \in Pcbs /\ q \in Seq(Segments) /\ p.rcv_nxt = SeqNo(n)
  BY QueueIsSeq DEF Receiver
<1>2. /\ z \in Pcbs /\ z.rcv_nxt = p.rcv_nxt /\ z.rcv_wnd = p.rcv_wnd
      /\ z.rcv_ann_wnd = p.rcv_ann_wnd /\ z.rcv_ann_right_edge = p.rcv_ann_right_edge
      /\ z.ooseq = q /\ z.state = p.state
  BY <1>1, PcbRequeue
<1> HIDE DEF z
<1>3. r.pcb = z /\ r.fin = FALSE /\ r.now = now /\ r.data = <<>>
  BY DEF Result, z
<1> HIDE DEF r
<1>4. Receiver(z, n)
  BY <1>1, <1>2, SMTT(30) DEF Receiver
<1> QED
  BY <1>2, <1>3, <1>4, Zenon DEF Kept, r

\* The same when nothing changes.
LEMMA UnchangedIs ==
    ASSUME NEW p, NEW n, NEW now \in BOOLEAN
    PROVE  Receiver(p, n) => Kept(Result(p, <<>>, FALSE, now), p, n)
<1> SUFFICES ASSUME Receiver(p, n)
             PROVE  Kept(Result(p, <<>>, FALSE, now), p, n)
  BY Zenon
<1> DEFINE r == Result(p, <<>>, FALSE, now)
<1>1. r.pcb = p /\ r.fin = FALSE /\ r.now = now /\ r.data = <<>>
  BY DEF Result
<1> HIDE DEF r
<1> QED
  BY <1>1, Zenon DEF Kept, r

\* A segment that the console may send either is taken with all that follows it
\* or leaves all but the queue as it was.
LEMMA ReceiveIs ==
    ASSUME NEW p, NEW n \in 1 .. Stream + 2, NEW s0, NEW copied \in BOOLEAN
    PROVE  /\ Receiver(p, n) /\ Genuine(s0)
           /\ p.state = "ESTABLISHED" =>
                  /\ n <= Stream + 1 /\ Announced(p, n)
                  /\ To(s0) <= Edge(p) \/ To(s0) = At(s0) + 1
           => LET r == Receive(p, s0, copied)
              IN  \/ Kept(r, p, n)
                  \/ p.state = "ESTABLISHED" /\ \E t \in 1 .. Stream + 2 : Taken(r, p, n, t)
<1> DEFINE r == Receive(p, s0, copied)
           s == TrimFront(p, s0)
           W == p.rcv_wnd
<1> SUFFICES ASSUME Receiver(p, n), Genuine(s0),
                    p.state = "ESTABLISHED" =>
                        /\ n <= Stream + 1 /\ Announced(p, n)
                        /\ To(s0) <= Edge(p) \/ To(s0) = At(s0) + 1
             PROVE  \/ Kept(r, p, n)
                    \/ p.state = "ESTABLISHED" /\ \E t \in 1 .. Stream + 2 : Taken(r, p, n, t)
  OBVIOUS
<1>1. p \in Pcbs /\ p.rcv_nxt = SeqNo(n) /\ Queue(p.ooseq, n + 1, n + W)
  BY DEF Receiver
<1>2. /\ W \in 0 .. TcpWnd /\ p.rcv_ann_wnd \in 0 .. TcpWnd /\ p.rcv_ann_right_edge \in 0 .. Space - 1
      /\ p.state \in {"ESTABLISHED", "CLOSE_WAIT"}
  BY <1>1, PcbFields
<1>3. Stream \in Nat /\ TcpWnd \in Nat /\ n \in Nat
  BY StreamInReach
<1>4. CASE Tcplen(s0) = 0 \/ p.state = "CLOSE_WAIT"
  <2>1. r = Result(p, <<>>, FALSE, ~InWindow(p, s0.seqno))
    BY <1>4, Zenon DEF Receive
  <2>2. (~InWindow(p, s0.seqno)) \in BOOLEAN
    OBVIOUS
  <2> HIDE DEF r
  <2> QED
    BY <2>1, <2>2, UnchangedIs, Zenon
<1>5. CASE ~(Tcplen(s0) = 0 \/ p.state = "CLOSE_WAIT")
  <2>1. p.state = "ESTABLISHED" /\ n <= Stream + 1 /\ Announced(p, n) /\ n \in 1 .. Stream + 1
    BY <1>2, <1>3, <1>5, SMTT(30)
  <2>2. /\ Tcplen(s0) \in Nat /\ At(s0) \in 1 .. Stream + 1 /\ To(s0) \in 1 .. Stream + 2
        /\ To(s0) = At(s0) + Tcplen(s0)
    BY SegmentPlaces
  <2>3. Tcplen(s0) > 0
    BY <1>5, <2>2, SMTT(30)
  <2>4. /\ Genuine(s) /\ Tcplen(s) > 0 /\ To(s) = To(s0)
        /\ At(s) = IF At(s0) < n /\ n < To(s0) THEN n ELSE At(s0)
    BY <1>1, <2>1, <2>3, TrimFrontIs
  <2>5. r = IF ~InWindow(p, s.seqno) THEN Refuse(p)
            ELSE IF s.seqno = p.rcv_nxt THEN InOrder(p, s)
            ELSE Result([p EXCEPT !.ooseq = IF copied THEN OutOfOrder(p, s) ELSE @], <<>>, FALSE, TRUE)
    BY <1>5, SMTT(30) DEF Receive
  <2> HIDE DEF r, s
  <2>6. /\ At(s) \in 1 .. Stream + 1 /\ At(s) \in 1 .. Stream + 2 /\ s.seqno = SeqNo(At(s))
        /\ To(s) \in 1 .. Stream + 2 /\ At(s) < To(s)
    BY <1>3, <2>4, SegmentPlaces, Occupies, SMTT(30)
  <2>7. InWindow(p, s.seqno) <=> n <= At(s) /\ At(s) < n + W
    BY <1>1, <1>2, <2>6, InWindowIs, Zenon
  <2>8. CASE ~InWindow(p, s.seqno)
    <3>1. r = Result(p, <<>>, FALSE, TRUE)
      BY <2>5, <2>8 DEF Refuse
    <3> QED
      BY <3>1, UnchangedIs, ZenonT(30)
  <2>9. CASE InWindow(p, s.seqno)
    <3>1. n <= At(s) /\ At(s) < n + W
      BY <2>7, <2>9
    <3>2. /\ Edge(p) \in 1 .. Space /\ Space \in Nat
          /\ Edge(p) <= n + p.rcv_ann_wnd /\ p.rcv_ann_wnd <= W
      BY <1>2, <2>1, SeqNoOfPlace, SpaceFacts DEF Announced, Edge
    <3>3. Edge(p) <= n + W
      BY <1>2, <1>3, <3>2
    <3>4. To(s) <= n + W
      <4>1. CASE To(s0) <= Edge(p)
        BY <1>2, <1>3, <2>2, <2>4, <3>2, <3>3, <4>1, SMTT(30)
      <4>2. CASE To(s0) = At(s0) + 1
        <5>1. At(s) = At(s0)
          BY <1>3, <2>2, <2>4, <4>2, SMTT(30)
        <5> QED
          BY <1>2, <1>3, <2>2, <2>4, <3>1, <4>2, <5>1, SMTT(30)
      <4> QED
        BY <2>1, <4>1, <4>2, SMTT(30)
    <3>5. SeqNo(At(s)) = SeqNo(n) <=> At(s) = n
      BY <2>6, StreamInReach, Compare, Zenon
    <3>6. CASE At(s) = n
      <4>1. r = InOrder(p, s)
        BY <1>1, <2>5, <2>6, <2>9, <3>5, <3>6, SMTT(30)
      <4> QED
        BY <2>1, <2>4, <3>3, <3>4, <3>6, <4>1, InOrderIs
    <3>7. CASE At(s) # n
      <4> DEFINE q == IF copied THEN OutOfOrder(p, s) ELSE p.ooseq
                 a == n + 1
                 b == n + W
      <4>1. r = Result(Requeue(p, q), <<>>, FALSE, TRUE)
        <5>1. s.seqno # p.rcv_nxt
          BY <1>1, <2>6, <3>5, <3>7, SMTT(30)
        <5> QED
          BY <2>5, <2>9, <5>1, SMTT(30) DEF Requeue
      <4>2. TrimToWindow(p, s) = s
        BY <1>1, <1>2, <2>4, <3>4, Uncut, SMTT(30)
      <4>3. a \in Nat /\ b \in Nat /\ a <= At(s) /\ To(s) <= b
        BY <1>2, <1>3, <2>6, <3>1, <3>4, <3>7, SMTT(30)
      <4>4. Queue(p.ooseq, a, b)
        BY <1>1
      <4> HIDE DEF a, b
      <4>5. Queue(OutOfOrder(p, s), a, b)
        BY <2>4, <4>2, <4>3, <4>4, OutOfOrderIs, SMTT(30)
      <4>6. Queue(q, n + 1, n + p.rcv_wnd)
        BY <4>4, <4>5 DEF a, b
      <4> HIDE DEF q
      <4>7. TRUE \in BOOLEAN /\ (p.state = "CLOSE_WAIT" => q = p.ooseq)
        BY <2>1
      <4> QED
        BY <4>1, <4>6, <4>7, KeptIs, ZenonT(30)
    <3> QED
      BY <3>6, <3>7
  <2> QED
    BY <2>8, <2>9
<1> QED
  BY <1>4, <1>5

-----------------------------------------------------------------------------
(* Steps.                                                                  *)

\* The larger of two numbers.
LEMMA MaxOfTwo ==
    ASSUME NEW i \in Int, NEW j \in Int
    PROVE  Max({i, j}) = IF i >= j THEN i ELSE j
<1> DEFINE m == IF i >= j THEN i ELSE j
<1>1. m \in {i, j} /\ \A y \in {i, j} : m >= y
  OBVIOUS
<1>2. ASSUME NEW x \in {i, j}, \A y \in {i, j} : x >= y
      PROVE  x = m
  BY <1>2
<1> QED
  BY <1>1, <1>2 DEF Max

\* The smaller of two numbers.
LEMMA MinOfTwo ==
    ASSUME NEW i \in Int, NEW j \in Int
    PROVE  Min({i, j}) = IF i <= j THEN i ELSE j
<1> DEFINE m == IF i <= j THEN i ELSE j
<1>1. m \in {i, j} /\ \A y \in {i, j} : m =< y
  OBVIOUS
<1>2. ASSUME NEW x \in {i, j}, \A y \in {i, j} : x =< y
      PROVE  x = m
  BY <1>2
<1> QED
  BY <1>1, <1>2 DEF Min

\* Acknowledgements.
Acks == [una : 0 .. Stream + 2, allowed : 0 .. Stream + TcpWnd + 2]

\* What EdgeKept says of a step.
EdgeStep == ack' # ack /\ ack' # NoAck /\ pcb'.state = "ESTABLISHED"
                => ack'.allowed >= Max({allowed, ack.allowed})

\* An acknowledgement leaves.
Sent(p, e) == [p EXCEPT !.rcv_ann_right_edge = e, !.delayed = FALSE]

\* rcv_ann_right_edge and the flag of the delayed acknowledgement change, and
\* nothing else.
LEMMA PcbSent ==
    ASSUME NEW p \in Pcbs, NEW e \in 0 .. Space - 1
    PROVE  LET r == Sent(p, e)
           IN  /\ r \in Pcbs /\ r.rcv_nxt = p.rcv_nxt /\ r.rcv_wnd = p.rcv_wnd
               /\ r.rcv_ann_wnd = p.rcv_ann_wnd /\ r.rcv_ann_right_edge = e
               /\ r.ooseq = p.ooseq /\ r.state = p.state
BY Zenon DEF Pcbs, Sent

\* What an acknowledgement announces is what the receiver then keeps to.
LEMMA OutputIs ==
    ASSUME NEW p, NEW now \in BOOLEAN, NEW t \in 1 .. Stream + 2
    PROVE  /\ Output(p, now, t) /\ Receiver(p, t)
           /\ allowed \in Nat /\ ack \in Acks /\ ack.una <= t
           /\ p.state = "ESTABLISHED" =>
                  Announced(p, t) /\ allowed <= Edge(p) /\ ack.allowed <= Edge(p)
           => /\ Receiver(pcb', t) /\ pcb'.rcv_wnd = p.rcv_wnd /\ pcb'.state = p.state
              /\ pcb'.ooseq = p.ooseq
              /\ ack' \in Acks /\ ack'.una <= t
              /\ p.state = "ESTABLISHED" =>
                     Announced(pcb', t) /\ allowed <= Edge(pcb') /\ ack'.allowed <= Edge(pcb')
              /\ EdgeStep
<1> SUFFICES ASSUME Output(p, now, t), Receiver(p, t),
                    allowed \in Nat, ack \in Acks, ack.una <= t,
                    p.state = "ESTABLISHED" =>
                        Announced(p, t) /\ allowed <= Edge(p) /\ ack.allowed <= Edge(p)
             PROVE  /\ Receiver(pcb', t) /\ pcb'.rcv_wnd = p.rcv_wnd /\ pcb'.state = p.state
                    /\ pcb'.ooseq = p.ooseq
                    /\ ack' \in Acks /\ ack'.una <= t
                    /\ p.state = "ESTABLISHED" =>
                           Announced(pcb', t) /\ allowed <= Edge(pcb') /\ ack'.allowed <= Edge(pcb')
                    /\ EdgeStep
  OBVIOUS
<1>1. CASE ~now
  <2>1. pcb' = p /\ ack' = ack
    BY <1>1, SMTT(30) DEF Output
  <2> QED
    BY <2>1 DEF EdgeStep
<1>2. CASE now
  <2> DEFINE a == p.rcv_ann_wnd
             x == t + a
             e == Plus(p.rcv_nxt, a)
             r == Sent(p, e)
  <2>1. p \in Pcbs /\ p.rcv_nxt = SeqNo(t) /\ Queue(p.ooseq, t + 1, t + p.rcv_wnd)
    BY DEF Receiver
  <2>2. pcb' = r /\ ack' = [una |-> t, allowed |-> x]
    BY <1>2, Zenon DEF Output, Sent
  <2>3. a \in 0 .. TcpWnd /\ p.rcv_ann_right_edge \in 0 .. Space - 1
    BY <2>1, PcbFields
  <2>4. /\ Stream \in Nat /\ TcpWnd \in Nat /\ Reach = Stream + TcpWnd + 2
        /\ Reach \in Nat /\ Space \in Nat /\ 2 * Reach <= Space
    BY StreamInReach, SpaceFacts DEF Reach
  <2>5. Edge(p) \in 1 .. Space
    BY <2>3, SeqNoOfPlace DEF Edge
  <2> HIDE DEF a, Reach, Space
  <2>6. /\ t \in 0 .. Reach /\ a \in -1 .. Reach /\ t + a >= 0 /\ x \in 1 .. Space /\ x \in 0 .. Space
        /\ x \in 0 .. Stream + TcpWnd + 2
    BY <2>3, <2>4, SMTT(30)
  <2>7. e = SeqNo(x)
    BY <2>1, <2>6, PlusSeqNo, SMTT(30)
  <2>8. e \in 0 .. Space - 1 /\ Place(e) = x
    BY <2>6, <2>7, SeqNoIs, PlaceOfSeqNo, SMTT(30)
  <2> HIDE DEF e, x
  <2>9. /\ r \in Pcbs /\ r.rcv_nxt = p.rcv_nxt /\ r.rcv_wnd = p.rcv_wnd
        /\ r.rcv_ann_wnd = a /\ r.rcv_ann_right_edge = e
        /\ r.ooseq = p.ooseq /\ r.state = p.state
    BY <2>1, <2>8, PcbSent DEF a
  <2> HIDE DEF r
  <2>10. Receiver(r, t)
    BY <2>1, <2>9, SMTT(30) DEF Receiver
  <2>11. Edge(r) = x
    BY <2>8, <2>9, Zenon DEF Edge
  <2>12. ack' \in Acks /\ ack'.una = t /\ ack'.allowed = x
    BY <2>2, <2>4, <2>6 DEF Acks
  <2>13. t <= t /\ x <= x
    BY <2>4, <2>6
  <2>14. ASSUME p.state = "ESTABLISHED"
         PROVE  Announced(r, t) /\ allowed <= x /\ ack.allowed <= x
    <3>1. a <= p.rcv_wnd /\ Edge(p) <= x /\ allowed <= Edge(p) /\ ack.allowed <= Edge(p)
      BY <2>14 DEF Announced, a, x
    <3>2. ack.allowed \in Nat
      BY <2>4 DEF Acks
    <3>3. allowed <= x /\ ack.allowed <= x
      BY <2>4, <2>5, <2>6, <3>1, <3>2, SMTT(30)
    <3>4. Announced(r, t)
      BY <2>9, <2>11, <2>13, <3>1, SMTT(30) DEF Announced, x
    <3> QED
      BY <3>3, <3>4
  <2>15. EdgeStep
    <3>1. ack.allowed \in Nat
      BY <2>4 DEF Acks
    <3>2. Max({allowed, ack.allowed}) = IF allowed >= ack.allowed THEN allowed ELSE ack.allowed
      BY <3>1, MaxOfTwo
    <3>3. p.state = "ESTABLISHED" => x >= Max({allowed, ack.allowed})
      BY <2>6, <2>14, <3>1, <3>2, SMTT(30)
    <3>4. pcb'.state = p.state
      BY <2>2, <2>9
    <3> QED
      BY <2>12, <3>3, <3>4, SMTT(30) DEF EdgeStep
  <2> QED
    BY <2>2, <2>9, <2>10, <2>11, <2>12, <2>13, <2>14, <2>15, SMTT(30)
<1> QED
  BY <1>1, <1>2

\* The bytes delivered, as a stretch of the stream.
LEMMA WholeStream ==
    ASSUME NEW q
    PROVE  Stretch(q, 1) /\ Len(q) <= Stream =>
               q \in Seq(1 .. Stream) /\ q = [i \in 1 .. Len(q) |-> i]
<1> SUFFICES ASSUME Stretch(q, 1), Len(q) <= Stream
             PROVE  q \in Seq(1 .. Stream) /\ q = [i \in 1 .. Len(q) |-> i]
  OBVIOUS
<1>1. q \in Seq(Nat) /\ Len(q) \in Nat /\ Stream \in Nat /\ \A k \in 1 .. Len(q) : q[k] = 1 + k - 1
  BY StreamInReach DEF Stretch
<1>2. \A k \in 1 .. Len(q) : q[k] = k /\ q[k] \in 1 .. Stream
  BY <1>1
<1>3. q \in [1 .. Len(q) -> 1 .. Stream]
  BY <1>1, <1>2
<1>4. q \in Seq(1 .. Stream)
  BY <1>1, <1>3, IsSequence
<1> QED
  BY <1>2, <1>3, <1>4

\* Bytes that count up from 1 are a stretch from the first position on.
LEMMA StreamStart ==
    ASSUME NEW q \in Seq(1 .. Stream)
    PROVE  q = [i \in 1 .. Len(q) |-> i] => Stretch(q, 1)
<1> SUFFICES ASSUME q = [i \in 1 .. Len(q) |-> i]
             PROVE  Stretch(q, 1)
  OBVIOUS
<1>1. Len(q) \in Nat /\ Stream \in Nat
  BY StreamInReach
<1>2. \A k \in 1 .. Len(q) : q[k] = k
  OBVIOUS
<1>3. \A k \in 1 .. Len(q) : q[k] = 1 + k - 1 /\ q[k] \in Nat
  BY <1>1, <1>2
<1>4. q \in [1 .. Len(q) -> Nat]
  BY <1>1, <1>3
<1>5. q \in Seq(Nat)
  BY <1>1, <1>4, IsSequence, SMTT(30)
<1> QED
  BY <1>3, <1>5 DEF Stretch

\* What the inductive invariant says of the state before a step.
LEMMA StateBefore ==
    IInv => /\ pcb \in Pcbs /\ Receiver(pcb, Position) /\ Position \in 1 .. Stream + 2
            /\ Stretch(delivered, 1) /\ Len(delivered) \in Nat /\ Len(delivered) <= Stream
            /\ delivered \in Seq(1 .. Stream)
            /\ allowed \in Nat /\ ack \in Acks /\ ack.una <= Position
            /\ recv_used \in 0 .. TcpWnd /\ una \in Nat /\ una <= Position
            /\ pcb.state = "ESTABLISHED" =>
                   /\ Position = Len(delivered) + 1 /\ Position <= Stream + 1
                   /\ pcb.rcv_wnd + recv_used = TcpWnd
                   /\ Announced(pcb, Position) /\ allowed <= Edge(pcb) /\ ack.allowed <= Edge(pcb)
            /\ pcb.state = "CLOSE_WAIT" =>
                   Position = Stream + 2 /\ Len(delivered) = Stream /\ pcb.ooseq = <<>>
<1> SUFFICES ASSUME IInv
             PROVE  /\ pcb \in Pcbs /\ Receiver(pcb, Position) /\ Position \in 1 .. Stream + 2
                    /\ Stretch(delivered, 1) /\ Len(delivered) \in Nat /\ Len(delivered) <= Stream
                    /\ delivered \in Seq(1 .. Stream)
                    /\ allowed \in Nat /\ ack \in Acks /\ ack.una <= Position
                    /\ recv_used \in 0 .. TcpWnd /\ una \in Nat /\ una <= Position
                    /\ pcb.state = "ESTABLISHED" =>
                           /\ Position = Len(delivered) + 1 /\ Position <= Stream + 1
                           /\ pcb.rcv_wnd + recv_used = TcpWnd
                           /\ Announced(pcb, Position) /\ allowed <= Edge(pcb) /\ ack.allowed <= Edge(pcb)
                    /\ pcb.state = "CLOSE_WAIT" =>
                           Position = Stream + 2 /\ Len(delivered) = Stream /\ pcb.ooseq = <<>>
  OBVIOUS
<1>1. pcb \in Pcbs /\ Receiver(pcb, Position)
  BY DEF IInv, Receiver
<1>2. /\ delivered \in Seq(1 .. Stream) /\ recv_used \in 0 .. TcpWnd /\ ack \in Acks
      /\ una \in 1 .. Stream + 2 /\ allowed \in 1 .. Stream + TcpWnd + 2
  BY DEF IInv, TypeOK, Acks
<1>3. delivered = [i \in 1 .. Len(delivered) |-> i] /\ Len(delivered) <= Stream
  BY DEF IInv
<1>4. Len(delivered) \in Nat /\ Stream \in Nat /\ TcpWnd \in Nat
  BY <1>2, StreamInReach
<1>5. Stretch(delivered, 1)
  BY <1>2, <1>3, StreamStart
<1>6. pcb.state \in {"ESTABLISHED", "CLOSE_WAIT"}
  BY <1>1, PcbFields, SMTT(30)
<1>7. /\ una <= Position /\ ack.una <= Position
      /\ pcb.state = "CLOSE_WAIT" => Len(delivered) = Stream /\ pcb.ooseq = <<>>
      /\ pcb.state = "ESTABLISHED" =>
            /\ pcb.rcv_wnd + recv_used = TcpWnd
            /\ Announced(pcb, Position)
            /\ allowed <= Edge(pcb) /\ ack.allowed <= Edge(pcb)
  BY DEF IInv
<1>8. /\ pcb.state = "ESTABLISHED" => Position = Len(delivered) + 1
      /\ pcb.state = "CLOSE_WAIT" => Position = Len(delivered) + 2
  BY <1>4 DEF Position
<1>9. /\ Position \in 1 .. Stream + 2
      /\ pcb.state = "ESTABLISHED" => Position <= Stream + 1
      /\ pcb.state = "CLOSE_WAIT" => Position = Stream + 2
  <2>1. CASE pcb.state = "ESTABLISHED"
    BY <1>3, <1>4, <1>8, <2>1
  <2>2. CASE pcb.state = "CLOSE_WAIT"
    <3>1. Position = Stream + 2
      BY <1>7, <1>8, <2>2
    <3> QED
      BY <1>4, <2>2, <3>1, SMTT(30)
  <2> QED
    BY <1>6, <2>1, <2>2
<1>10. allowed \in Nat /\ una \in Nat
  BY <1>2, <1>4, SMTT(30)
<1> QED
  BY <1>1, <1>2, <1>3, <1>4, <1>5, <1>7, <1>8, <1>9, <1>10, ZenonT(30)

\* What is to be shown of the state after a step that leaves rcv_nxt at t.
LEMMA StateAfter ==
    ASSUME NEW t \in 1 .. Stream + 2
    PROVE  /\ Receiver(pcb', t) /\ Stretch(delivered', 1) /\ Len(delivered') <= Stream
           /\ recv_used' \in 0 .. TcpWnd /\ ack' \in Acks /\ ack'.una <= t
           /\ una' \in 1 .. Stream + 2 /\ una' <= t
           /\ allowed' \in 1 .. Stream + TcpWnd + 2 /\ resent' \in BOOLEAN
           /\ pcb'.state = "CLOSE_WAIT" =>
                  t = Len(delivered') + 2 /\ Len(delivered') = Stream /\ pcb'.ooseq = <<>>
           /\ pcb'.state = "ESTABLISHED" =>
                  /\ t = Len(delivered') + 1 /\ pcb'.rcv_wnd + recv_used' = TcpWnd
                  /\ Announced(pcb', t) /\ allowed' <= Edge(pcb') /\ ack'.allowed <= Edge(pcb')
           => IInv'
<1> SUFFICES ASSUME Receiver(pcb', t), Stretch(delivered', 1), Len(delivered') <= Stream,
                    recv_used' \in 0 .. TcpWnd, ack' \in Acks, ack'.una <= t,
                    una' \in 1 .. Stream + 2, una' <= t,
                    allowed' \in 1 .. Stream + TcpWnd + 2, resent' \in BOOLEAN,
                    pcb'.state = "CLOSE_WAIT" =>
                        t = Len(delivered') + 2 /\ Len(delivered') = Stream /\ pcb'.ooseq = <<>>,
                    pcb'.state = "ESTABLISHED" =>
                        /\ t = Len(delivered') + 1 /\ pcb'.rcv_wnd + recv_used' = TcpWnd
                        /\ Announced(pcb', t) /\ allowed' <= Edge(pcb') /\ ack'.allowed <= Edge(pcb')
             PROVE  IInv'
  OBVIOUS
<1>1. pcb' \in Pcbs
  BY SMTT(30) DEF Receiver
<1>2. pcb'.state \in {"ESTABLISHED", "CLOSE_WAIT"}
  BY <1>1, PcbFields, SMTT(30)
<1>3. delivered' \in Seq(1 .. Stream) /\ delivered' = [i \in 1 .. Len(delivered') |-> i]
  BY WholeStream, SMTT(30)
<1>4. Len(delivered') \in Nat
  BY <1>3
<1>5. Position' = t
  BY <1>2, <1>4 DEF Position
<1>6. TypeOK'
  BY <1>1, <1>3 DEF TypeOK, Pcbs, Acks
<1> QED
  BY <1>3, <1>5, <1>6, ZenonT(30) DEF IInv

\* A segment that the console may send.
LEMMA SegmentIs ==
    ASSUME NEW i \in 1 .. Stream + 1, NEW m \in Nat, NEW fin \in BOOLEAN, NEW copied \in BOOLEAN
    PROVE  /\ IInv /\ MaySend(i, m, fin) /\ Segment(i, m, fin, copied)
           /\ una' = una /\ allowed' = allowed /\ resent' \in BOOLEAN
           => IInv' /\ EdgeStep
<1> SUFFICES ASSUME IInv, MaySend(i, m, fin), Segment(i, m, fin, copied),
                    una' = una, allowed' = allowed, resent' \in BOOLEAN
             PROVE  IInv' /\ EdgeStep
  BY SMTT(30)
<1> DEFINE n == Position
           d == [k \in 1 .. m |-> i + k - 1]
           s == [seqno |-> SeqNo(i), data |-> d, fin |-> fin]
           r == Receive(pcb, s, copied)
           w == r.pcb.rcv_wnd
           p == IF r.fin /\ w # TcpWnd THEN [r.pcb EXCEPT !.rcv_wnd = w + 1] ELSE r.pcb
           L == Len(delivered)
<1>1. /\ pcb \in Pcbs /\ Receiver(pcb, n) /\ n \in 1 .. Stream + 2
      /\ Stretch(delivered, 1) /\ L \in Nat /\ L <= Stream
      /\ allowed \in Nat /\ ack \in Acks /\ ack.una <= n
      /\ recv_used \in 0 .. TcpWnd /\ una \in Nat /\ una <= n
      /\ pcb.state = "ESTABLISHED" =>
             /\ n = L + 1 /\ n <= Stream + 1
             /\ pcb.rcv_wnd + recv_used = TcpWnd
             /\ Announced(pcb, n) /\ allowed <= Edge(pcb) /\ ack.allowed <= Edge(pcb)
      /\ pcb.state = "CLOSE_WAIT" =>
             n = Stream + 2 /\ L = Stream /\ pcb.ooseq = <<>>
  BY StateBefore
<1>2. /\ una' \in 1 .. Stream + 2 /\ allowed' \in 1 .. Stream + TcpWnd + 2
  BY DEF IInv, TypeOK
<1>3. Stream \in Nat /\ TcpWnd \in Nat
  BY StreamInReach
<1>4. /\ delivered' = delivered \o r.data /\ recv_used' = recv_used + Len(r.data)
      /\ Output(p, r.now, n + Len(r.data) + IF r.fin THEN 1 ELSE 0)
  BY DEF Segment
<1>5. /\ i + m <= Stream + 1 /\ (fin => i + m = Stream + 1)
      /\ LET end == i + m + IF fin THEN 1 ELSE 0 IN end <= allowed \/ (i = allowed /\ end = i + 1)
  BY SMTT(30) DEF MaySend
<1> HIDE DEF n, L
<1>6. Genuine(s) /\ At(s) = i /\ DataTo(s) = i + m
  <2>1. \A k \in 1 .. m : i + k - 1 \in Nat
    BY <1>3
  <2>2. d \in [1 .. m -> Nat] /\ \A k \in 1 .. m : d[k] = i + k - 1
    BY <2>1
  <2> HIDE DEF d
  <2>3. d \in Seq(Nat) /\ Len(d) = m
    BY <2>2, IsSequence, LenOfDomain
  <2>4. Stretch(d, i)
    BY <2>2, <2>3 DEF Stretch
  <2> QED
    BY <1>5, <2>3, <2>4, MakesGenuine
<1>7. s.fin = fin
  OBVIOUS
<1> HIDE DEF s
<1>8. To(s) = IF fin THEN DataTo(s) + 1 ELSE DataTo(s)
  BY <1>6, <1>7, SegmentPlaces, SMTT(30)
<1>9. pcb.state = "ESTABLISHED" => To(s) <= Edge(pcb) \/ To(s) = At(s) + 1
  <2> SUFFICES ASSUME pcb.state = "ESTABLISHED"
               PROVE  To(s) <= Edge(pcb) \/ To(s) = At(s) + 1
    OBVIOUS
  <2>1. To(s) = i + m + IF fin THEN 1 ELSE 0
    BY <1>3, <1>6, <1>8
  <2>2. To(s) <= allowed \/ To(s) = At(s) + 1
    BY <1>5, <1>6, <2>1
  <2>3. Edge(pcb) \in Nat
    <3>1. pcb.rcv_ann_right_edge \in 0 .. Space - 1
      BY <1>1, PcbFields
    <3>2. Edge(pcb) \in 1 .. Space /\ Space \in Nat
      BY <3>1, SeqNoOfPlace, SpaceFacts, SMTT(30) DEF Edge
    <3> QED
      BY <3>2, SMTT(30)
  <2>4. To(s) \in Nat
    BY <1>3, <1>6, SegmentPlaces, SMTT(30)
  <2> QED
    BY <1>1, <2>2, <2>3, <2>4, SMTT(30)
<1>10. Kept(r, pcb, n) \/ (pcb.state = "ESTABLISHED" /\ \E t \in 1 .. Stream + 2 : Taken(r, pcb, n, t))
  BY <1>1, <1>6, <1>9, ReceiveIs, ZenonT(30)
<1> HIDE DEF r
<1>11. CASE Kept(r, pcb, n)
  <2>1. /\ r.fin = FALSE /\ r.now \in BOOLEAN /\ r.data = <<>> /\ Receiver(r.pcb, n)
        /\ r.pcb.rcv_wnd = pcb.rcv_wnd /\ r.pcb.rcv_ann_wnd = pcb.rcv_ann_wnd /\ r.pcb.state = pcb.state
        /\ r.pcb.rcv_ann_right_edge = pcb.rcv_ann_right_edge
        /\ pcb.state = "CLOSE_WAIT" => r.pcb.ooseq = pcb.ooseq
    BY <1>11 DEF Kept
  <2>2. p = r.pcb
    BY <2>1, SMTT(30)
  <2>3. delivered \in Seq(Nat)
    BY <1>1 DEF Stretch
  <2>4. delivered' = delivered /\ Len(r.data) = 0
    BY <1>4, <2>1, <2>3
  <2>5. recv_used' = recv_used /\ n + Len(r.data) + (IF r.fin THEN 1 ELSE 0) = n
    BY <1>1, <1>3, <1>4, <2>1, <2>4, SMTT(30)
  <2>6. Output(r.pcb, r.now, n)
    BY <1>4, <2>2, <2>5, SMTT(30)
  <2>7. pcb.state = "ESTABLISHED" =>
            Announced(r.pcb, n) /\ allowed <= Edge(r.pcb) /\ ack.allowed <= Edge(r.pcb)
    BY <1>1, <2>1, SMTT(30) DEF Announced, Edge
  <2>8. /\ Receiver(pcb', n) /\ pcb'.rcv_wnd = r.pcb.rcv_wnd /\ pcb'.state = r.pcb.state
        /\ pcb'.ooseq = r.pcb.ooseq
        /\ ack' \in Acks /\ ack'.una <= n
        /\ r.pcb.state = "ESTABLISHED" =>
               Announced(pcb', n) /\ allowed <= Edge(pcb') /\ ack'.allowed <= Edge(pcb')
        /\ EdgeStep
    BY <1>1, <2>1, <2>6, <2>7, OutputIs, ZenonT(30)
  <2>9. pcb.state = "CLOSE_WAIT" => n = L + 2
    BY <1>1, <1>3, ZenonT(30)
  <2>10. IInv'
    BY <1>1, <1>2, <2>1, <2>4, <2>5, <2>8, <2>9, StateAfter, ZenonT(30) DEF L
  <2> QED
    BY <2>8, <2>10, SMTT(30)
<1>12. ASSUME NEW t \in 1 .. Stream + 2, pcb.state = "ESTABLISHED", Taken(r, pcb, n, t)
       PROVE  IInv' /\ EdgeStep
  <2>1. /\ r.fin \in BOOLEAN /\ r.now \in BOOLEAN
        /\ n < t /\ Receiver(r.pcb, t) /\ Announced(r.pcb, t)
        /\ t + r.pcb.rcv_wnd = n + pcb.rcv_wnd
        /\ r.pcb.rcv_ann_right_edge = pcb.rcv_ann_right_edge
        /\ r.pcb.state = IF r.fin THEN "CLOSE_WAIT" ELSE "ESTABLISHED"
        /\ Stretch(r.data, n) /\ n + Len(r.data) = IF r.fin THEN t - 1 ELSE t
        /\ r.fin => t = Stream + 2 /\ r.pcb.ooseq = <<>>
        /\ ~r.fin => t <= Stream + 1
    BY <1>12, ZenonT(30) DEF Taken
  <2>2. /\ n = L + 1 /\ n <= Stream + 1 /\ pcb.rcv_wnd + recv_used = TcpWnd
        /\ allowed <= Edge(pcb) /\ ack.allowed <= Edge(pcb)
    BY <1>1, <1>12, SMTT(30)
  <2>3. Len(r.data) \in Nat
    BY <2>1, StretchLen, SMTT(30)
  <2>4. r.pcb \in Pcbs /\ r.pcb.rcv_wnd \in 0 .. TcpWnd /\ pcb.rcv_wnd \in 0 .. TcpWnd
    BY <1>1, <2>1, PcbFields, Zenon DEF Receiver
  <2>5. Stretch(delivered', 1) /\ Len(delivered') = L + Len(r.data)
    <3>1. n \in Nat /\ 1 \in Nat /\ n = 1 + Len(delivered)
      BY <1>1, <2>2, SMTT(30) DEF L
    <3> QED
      BY <1>1, <1>4, <2>1, <3>1, Joins, ZenonT(30) DEF L
  <2>6. n + Len(r.data) + (IF r.fin THEN 1 ELSE 0) = t
    <3> DEFINE l == Len(r.data)
               f == r.fin
    <3>1. n \in Nat /\ t \in Nat /\ l \in Nat
      BY <1>1, <1>3, <2>3, SMTT(30)
    <3>2. f \in BOOLEAN /\ n + l = IF f THEN t - 1 ELSE t
      BY <2>1, Zenon
    <3> HIDE DEF l, f
    <3>3. n + l + (IF f THEN 1 ELSE 0) = t
      BY <3>1, <3>2
    <3> QED
      BY <3>3, Zenon DEF l, f
  <2>7. Output(p, r.now, t)
    BY <1>4, <2>6, SMTT(30)
  <2>8. Edge(r.pcb) = Edge(pcb)
    BY <2>1, SMTT(30) DEF Edge
  <2>9. t \in Nat /\ n \in Nat
    BY <1>1, <1>3, SMTT(30)
  <2>10. una' <= t /\ ack.una <= t /\ ack.una \in Nat
    <3>1. ack.una \in Nat
      BY <1>1, <1>3 DEF Acks
    <3> QED
      BY <1>1, <2>1, <2>9, <3>1, SMTT(30)
  <2>11. CASE r.fin
    <3>1. /\ t = Stream + 2 /\ r.pcb.ooseq = <<>> /\ r.pcb.state = "CLOSE_WAIT"
          /\ n + Len(r.data) = t - 1
      BY <2>1, <2>11
    <3>2. Receiver(p, t) /\ p.state = "CLOSE_WAIT" /\ p.ooseq = <<>>
      <4>1. CASE w = TcpWnd
        <5>1. p = r.pcb
          BY <4>1
        <5> QED
          BY <2>1, <3>1, <5>1
      <4>2. CASE w # TcpWnd
        <5>1. p = [r.pcb EXCEPT !.rcv_wnd = w + 1]
          BY <2>11, <4>2
        <5>2. w + 1 \in 0 .. TcpWnd
          BY <1>3, <2>4, <4>2
        <5> HIDE DEF p, w
        <5>3. p \in Pcbs /\ p.rcv_nxt = r.pcb.rcv_nxt /\ p.ooseq = r.pcb.ooseq /\ p.state = r.pcb.state
          BY <2>4, <5>1, <5>2, SMTT(30) DEF Pcbs
        <5>4. Queue(p.ooseq, t + 1, t + p.rcv_wnd)
          BY <3>1, <5>3, QueueEmpty
        <5>5. r.pcb.rcv_nxt = SeqNo(t)
          BY <2>1, SMTT(30) DEF Receiver
        <5> QED
          BY <3>1, <5>3, <5>4, <5>5 DEF Receiver
      <4> QED
        BY <4>1, <4>2
    <3> HIDE DEF p
    <3>3. /\ Receiver(pcb', t) /\ pcb'.state = p.state /\ pcb'.ooseq = p.ooseq
          /\ ack' \in Acks /\ ack'.una <= t /\ EdgeStep
      BY <1>1, <2>1, <2>7, <2>10, <3>2, OutputIs, Zenon
    <3>4. Len(delivered') = Stream /\ t = Len(delivered') + 2
      <4> DEFINE c == Len(delivered')
                 l == Len(r.data)
      <4>1. l \in Nat /\ L \in Nat /\ Stream \in Nat /\ c = L + l /\ n = L + 1 /\ n + l = t - 1 /\ t = Stream + 2
        BY <1>1, <1>3, <2>2, <2>3, <2>5, <3>1, ZenonT(30)
      <4> HIDE DEF c, l
      <4>2. c = Stream /\ t = c + 2
        BY <4>1
      <4> QED
        BY <4>2, SMTT(30) DEF c
    <3>5. recv_used' \in 0 .. TcpWnd
      <4>1. recv_used' = recv_used + Len(r.data) /\ t + w = n + pcb.rcv_wnd
        BY <1>4, <2>1, Zenon
      <4> DEFINE l == Len(r.data)
                 W == pcb.rcv_wnd
      <4>2. /\ w \in 0 .. TcpWnd /\ W \in 0 .. TcpWnd /\ TcpWnd \in Nat /\ l \in Nat
            /\ recv_used \in 0 .. TcpWnd /\ recv_used' = recv_used + l /\ t + w = n + W
            /\ W + recv_used = TcpWnd /\ n + l = t - 1 /\ t \in Nat /\ n \in Nat
        BY <1>1, <1>3, <2>2, <2>3, <2>4, <2>9, <3>1, <4>1, ZenonT(30)
      <4> HIDE DEF l, W, w
      <4> QED
        BY <4>2, SMTT(30)
    <3>6. Len(delivered') <= Stream
      BY <1>3, <3>4
    <3>7. IInv'
      BY <1>2, <2>5, <2>10, <3>2, <3>3, <3>4, <3>5, <3>6, StateAfter, ZenonT(30)
    <3> QED
      BY <3>3, <3>7, SMTT(30)
  <2>12. CASE ~r.fin
    <3>1. /\ t <= Stream + 1 /\ r.pcb.state = "ESTABLISHED" /\ n + Len(r.data) = t /\ p = r.pcb
      BY <2>1, <2>12, SMTT(30)
    <3>2. /\ Receiver(pcb', t) /\ pcb'.rcv_wnd = r.pcb.rcv_wnd /\ pcb'.state = "ESTABLISHED"
          /\ ack' \in Acks /\ ack'.una <= t
          /\ Announced(pcb', t) /\ allowed <= Edge(pcb') /\ ack'.allowed <= Edge(pcb')
          /\ EdgeStep
      <4> HIDE DEF p
      <4>1. Output(r.pcb, r.now, t)
        BY <2>7, <3>1, SMTT(30)
      <4>2. Announced(r.pcb, t) /\ allowed <= Edge(r.pcb) /\ ack.allowed <= Edge(r.pcb)
        BY <2>1, <2>2, <2>8
      <4> QED
        BY <1>1, <2>1, <2>10, <3>1, <4>1, <4>2, OutputIs, ZenonT(30)
    <3>3. Len(delivered') <= Stream /\ t = Len(delivered') + 1
      <4> DEFINE c == Len(delivered')
                 l == Len(r.data)
      <4>1. l \in Nat /\ L \in Nat /\ Stream \in Nat /\ c = L + l /\ n = L + 1 /\ n + l = t /\ t <= Stream + 1
        BY <1>1, <1>3, <2>2, <2>3, <2>5, <3>1, SMTT(30)
      <4> HIDE DEF c, l
      <4>2. c <= Stream /\ t = c + 1
        BY <4>1
      <4> QED
        BY <4>2 DEF c
    <3>4. recv_used' \in 0 .. TcpWnd /\ r.pcb.rcv_wnd + recv_used' = TcpWnd
      <4>1. recv_used' = recv_used + Len(r.data) /\ t + w = n + pcb.rcv_wnd
        BY <1>4, <2>1, Zenon
      <4> DEFINE l == Len(r.data)
                 W == pcb.rcv_wnd
      <4>2. /\ w \in 0 .. TcpWnd /\ W \in 0 .. TcpWnd /\ TcpWnd \in Nat /\ l \in Nat
            /\ recv_used \in 0 .. TcpWnd /\ recv_used' = recv_used + l /\ t + w = n + W
            /\ W + recv_used = TcpWnd /\ n + l = t /\ t \in Nat /\ n \in Nat
        BY <1>1, <1>3, <2>2, <2>3, <2>4, <2>9, <3>1, <4>1, SMTT(30)
      <4> HIDE DEF l, W, w
      <4>3. recv_used' \in 0 .. TcpWnd /\ w + recv_used' = TcpWnd
        BY <4>2, SMTT(30)
      <4> QED
        BY <4>3 DEF w
    <3>5. IInv'
      BY <1>2, <2>5, <2>10, <3>2, <3>3, <3>4, StateAfter, SMTT(30)
    <3> QED
      BY <3>2, <3>5
  <2> QED
    BY <2>1, <2>11, <2>12, ZenonT(30)
<1> QED
  BY <1>10, <1>11, <1>12

\* The initial state.
LEMMA InitIs == Init => IInv
<1> SUFFICES ASSUME Init
             PROVE  IInv
  BY SMTT(30)
<1> DEFINE e == 1 + TcpWnd
<1>1. /\ pcb = [rcv_nxt |-> Isn, rcv_wnd |-> TcpWnd, rcv_ann_wnd |-> TcpWnd,
                rcv_ann_right_edge |-> Plus(Isn, TcpWnd), ooseq |-> <<>>,
                state |-> "ESTABLISHED", delayed |-> FALSE]
      /\ delivered = <<>> /\ recv_used = 0
      /\ una = 1 /\ allowed = e /\ ack = [una |-> 0, allowed |-> 0] /\ resent = FALSE
  BY DEF Init, NoAck
<1>2. /\ Stream \in Nat /\ TcpWnd \in Nat /\ Reach = Stream + TcpWnd + 2
      /\ Reach \in Nat /\ Space \in Nat /\ 2 * Reach <= Space /\ Isn \in 0 .. Space - 1
  BY StreamInReach, SpaceFacts DEF Reach
<1>3. 1 \in 0 .. Space /\ e \in 1 .. Space /\ e \in 0 .. Space
  BY <1>2
<1>4. SeqNo(1) = Isn
  <2>1. 0 < Isn + 1 /\ Isn + 1 <= Space /\ Isn + 1 - 1 = Isn
    BY <1>2
  <2> QED
    BY <1>3, <2>1, SeqNoIs
<1>5. Plus(Isn, TcpWnd) = SeqNo(e)
  <2>1. 1 \in 0 .. Reach /\ TcpWnd \in -1 .. Reach /\ 1 + TcpWnd >= 0
    BY <1>2
  <2> QED
    BY <1>4, <2>1, PlusSeqNo
<1>6. SeqNo(e) \in 0 .. Space - 1 /\ Place(SeqNo(e)) = e
  BY <1>3, SeqNoIs, PlaceOfSeqNo, SMTT(30)
<1> HIDE DEF Space
<1>7. /\ pcb.rcv_nxt = Isn /\ pcb.rcv_wnd = TcpWnd /\ pcb.rcv_ann_wnd = TcpWnd
      /\ pcb.rcv_ann_right_edge = SeqNo(e) /\ pcb.ooseq = <<>> /\ pcb.state = "ESTABLISHED"
      /\ ack.una = 0 /\ ack.allowed = 0
  BY <1>1, <1>5
<1>8. <<>> \in Seq(Segments) /\ <<>> \in Seq(1 .. Stream) /\ Len(<<>>) = 0
  BY SMTT(30)
<1>9. pcb \in Pcbs
  BY <1>1, <1>2, <1>5, <1>6, <1>8, SMTT(30) DEF Pcbs
<1>10. Position = 1
  BY <1>1, <1>7, <1>8 DEF Position
<1>11. Receiver(pcb, 1)
  BY <1>4, <1>7, <1>9, QueueEmpty DEF Receiver
<1>12. Edge(pcb) = e
  BY <1>6, <1>7 DEF Edge
<1>13. Announced(pcb, 1)
  BY <1>2, <1>7, <1>12, SMTT(30) DEF Announced
<1>14. delivered = [i \in 1 .. Len(delivered) |-> i] /\ Len(delivered) = 0
  <2>1. \A i \in 1 .. 0 : FALSE
    BY SMTT(30)
  <2> QED
    BY <1>1, <1>8, <2>1
<1>15. TypeOK
  <2>1. ack \in Acks
    BY <1>1, <1>2, SMTT(30) DEF Acks
  <2>2. una \in 1 .. Stream + 2 /\ allowed \in 1 .. Stream + TcpWnd + 2 /\ recv_used \in 0 .. TcpWnd
    BY <1>1, <1>2, SMTT(30)
  <2> QED
    BY <1>1, <1>8, <1>9, <2>1, <2>2, ZenonT(30) DEF TypeOK, Pcbs, Acks
<1>16. /\ Len(delivered) <= Stream /\ una <= 1 /\ ack.una <= 1
       /\ pcb.rcv_wnd + recv_used = TcpWnd
       /\ allowed <= Edge(pcb) /\ ack.allowed <= Edge(pcb)
  BY <1>1, <1>2, <1>7, <1>12, <1>14, SMTT(30)
<1> QED
  BY <1>7, <1>10, <1>11, <1>13, <1>14, <1>15, <1>16, SMTT(30) DEF IInv

\* A step that sends an acknowledgement, or none, and delivers nothing.
LEMMA OutputKeeps ==
    ASSUME NEW p, NEW now \in BOOLEAN
    PROVE  /\ IInv /\ Output(p, now, Position) /\ Receiver(p, Position)
           /\ delivered' = delivered /\ una' = una /\ allowed' = allowed /\ resent' = resent
           /\ recv_used' \in 0 .. TcpWnd /\ p.state = pcb.state
           /\ pcb.state = "ESTABLISHED" =>
                  /\ p.rcv_wnd + recv_used' = TcpWnd /\ Announced(p, Position)
                  /\ Edge(p) = Edge(pcb)
           /\ pcb.state = "CLOSE_WAIT" => p.ooseq = pcb.ooseq
           => IInv' /\ EdgeStep
<1> DEFINE n == Position
<1> SUFFICES ASSUME IInv, Output(p, now, n), Receiver(p, n),
                    delivered' = delivered, una' = una, allowed' = allowed, resent' = resent,
                    recv_used' \in 0 .. TcpWnd, p.state = pcb.state,
                    pcb.state = "ESTABLISHED" =>
                        /\ p.rcv_wnd + recv_used' = TcpWnd /\ Announced(p, n)
                        /\ Edge(p) = Edge(pcb),
                    pcb.state = "CLOSE_WAIT" => p.ooseq = pcb.ooseq
             PROVE  IInv' /\ EdgeStep
  BY SMTT(30)
<1>1. /\ n \in 1 .. Stream + 2
      /\ Stretch(delivered, 1) /\ Len(delivered) \in Nat /\ Len(delivered) <= Stream
      /\ allowed \in Nat /\ ack \in Acks /\ ack.una <= n /\ una <= n
      /\ pcb.state = "ESTABLISHED" =>
             n = Len(delivered) + 1 /\ allowed <= Edge(pcb) /\ ack.allowed <= Edge(pcb)
      /\ pcb.state = "CLOSE_WAIT" =>
             n = Stream + 2 /\ Len(delivered) = Stream /\ pcb.ooseq = <<>>
  BY StateBefore, Zenon
<1>2. una \in 1 .. Stream + 2 /\ allowed \in 1 .. Stream + TcpWnd + 2 /\ resent \in BOOLEAN
  BY SMTT(30) DEF IInv, TypeOK
<1> HIDE DEF n
<1>3. /\ Receiver(pcb', n) /\ pcb'.rcv_wnd = p.rcv_wnd /\ pcb'.state = p.state
      /\ pcb'.ooseq = p.ooseq
      /\ ack' \in Acks /\ ack'.una <= n
      /\ p.state = "ESTABLISHED" =>
             Announced(pcb', n) /\ allowed <= Edge(pcb') /\ ack'.allowed <= Edge(pcb')
      /\ EdgeStep
  BY <1>1, OutputIs, SMTT(30)
<1>4. /\ pcb'.state = "CLOSE_WAIT" =>
             n = Len(delivered') + 2 /\ Len(delivered') = Stream /\ pcb'.ooseq = <<>>
      /\ pcb'.state = "ESTABLISHED" =>
             /\ n = Len(delivered') + 1 /\ pcb'.rcv_wnd + recv_used' = TcpWnd
             /\ Announced(pcb', n) /\ allowed' <= Edge(pcb') /\ ack'.allowed <= Edge(pcb')
  BY <1>1, <1>3, ZenonT(30)
<1>5. /\ Receiver(pcb', n) /\ Stretch(delivered', 1) /\ Len(delivered') <= Stream
      /\ recv_used' \in 0 .. TcpWnd /\ ack' \in Acks /\ ack'.una <= n
      /\ una' \in 1 .. Stream + 2 /\ una' <= n
      /\ allowed' \in 1 .. Stream + TcpWnd + 2 /\ resent' \in BOOLEAN
  BY <1>1, <1>2, <1>3, SMTT(30)
<1>6. IInv'
  BY <1>1, <1>4, <1>5, StateAfter, SMTT(30)
<1> QED
  BY <1>3, <1>6

\* The application reads, and the window opens.
LEMMA ReadIs == IInv /\ Read => IInv' /\ EdgeStep
<1> SUFFICES ASSUME IInv, Read
             PROVE  IInv' /\ EdgeStep
  OBVIOUS
<1> DEFINE n == Position
           W == pcb.rcv_wnd
           q == [pcb EXCEPT !.rcv_wnd = TcpWnd]
           p == Recved(pcb, recv_used)
           now == CanAdvertise(p) /\ Minus(RightEdge(p), p.rcv_ann_right_edge) >= UpdateThreshold
<1>1. /\ pcb.state = "ESTABLISHED" /\ recv_used' = 0
      /\ Output(p, now, n)
      /\ delivered' = delivered /\ una' = una /\ allowed' = allowed /\ resent' = resent
  BY SMTT(30) DEF Read, console
<1>2. /\ pcb \in Pcbs /\ Receiver(pcb, n) /\ n \in 1 .. Stream + 2
      /\ W + recv_used = TcpWnd /\ Announced(pcb, n) /\ recv_used \in 0 .. TcpWnd
  BY <1>1, StateBefore, Zenon
<1>3. /\ W \in 0 .. TcpWnd /\ pcb.rcv_ann_right_edge \in 0 .. Space - 1
      /\ pcb.rcv_ann_wnd \in 0 .. TcpWnd
  BY <1>2, PcbFields
<1>4. TcpWnd \in Nat /\ Stream \in Nat
  BY StreamInReach
<1>5. p = UpdateAnnWnd(q)
  <2>1. Min({W + recv_used, TcpWnd}) = TcpWnd
    BY <1>2, <1>4, MinOfTwo
  <2> QED
    BY <2>1 DEF Recved
<1>6. now \in BOOLEAN
  OBVIOUS
<1> HIDE DEF p, now, n
<1>7. /\ q \in Pcbs /\ q.rcv_nxt = pcb.rcv_nxt /\ q.rcv_wnd = TcpWnd /\ q.ooseq = pcb.ooseq
      /\ q.state = pcb.state /\ q.rcv_ann_right_edge = pcb.rcv_ann_right_edge
  <2>1. TcpWnd \in 0 .. TcpWnd
    BY <1>4
  <2> QED
    BY <1>2, <2>1, SMTT(30) DEF Pcbs
<1> HIDE DEF q
<1>8. pcb.rcv_nxt = SeqNo(n) /\ Queue(pcb.ooseq, n + 1, n + W)
  BY <1>2 DEF Receiver
<1>9. Queue(q.ooseq, n + 1, n + TcpWnd)
  <2> DEFINE a == n + 1
             b == n + W
             c == n + TcpWnd
  <2>1. a \in Nat /\ b \in Nat /\ c \in Nat /\ a <= a /\ b <= c
    BY <1>2, <1>3, <1>4
  <2>2. Queue(q.ooseq, a, b)
    BY <1>7, <1>8
  <2> HIDE DEF a, b, c
  <2>3. Queue(q.ooseq, a, c)
    BY <2>1, <2>2, QueueWithin, SMTT(30)
  <2> QED
    BY <2>3 DEF a, c
<1>10. Edge(q) = Edge(pcb) /\ Edge(q) \in Nat /\ Edge(q) <= n + TcpWnd
  <2>1. Edge(q) = Edge(pcb)
    BY <1>7 DEF Edge
  <2>2. Edge(pcb) \in 1 .. Space /\ Space \in Nat
    BY <1>3, SeqNoOfPlace, SpaceFacts DEF Edge
  <2>3. Edge(pcb) <= n + pcb.rcv_ann_wnd
    BY <1>2 DEF Announced
  <2> HIDE DEF Space
  <2> QED
    BY <1>2, <1>3, <1>4, <2>1, <2>2, <2>3, SMTT(30)
<1>11. PICK w \in 0 .. TcpWnd : p = [q EXCEPT !.rcv_ann_wnd = w] /\ w <= TcpWnd /\ Edge(q) <= n + w
  <2>1. /\ q.rcv_nxt = SeqNo(n) /\ q.rcv_wnd \in 0 .. TcpWnd
        /\ q.rcv_ann_right_edge \in 0 .. Space - 1 /\ Edge(q) <= n + q.rcv_wnd
    BY <1>3, <1>4, <1>7, <1>8, <1>10
  <2>2. \E w \in 0 .. TcpWnd : /\ UpdateAnnWnd(q) = [q EXCEPT !.rcv_ann_wnd = w]
                               /\ w <= q.rcv_wnd /\ Edge(q) <= n + w
    <3> HIDE DEF Space
    <3> QED
      BY <1>2, <2>1, UpdateAnnWndIs
  <2> QED
    BY <1>5, <1>7, <2>2
<1>12. /\ p \in Pcbs /\ p.rcv_nxt = SeqNo(n) /\ p.rcv_wnd = TcpWnd /\ p.ooseq = q.ooseq
       /\ p.state = pcb.state /\ p.rcv_ann_right_edge = q.rcv_ann_right_edge /\ p.rcv_ann_wnd = w
  BY <1>7, <1>8, <1>11 DEF Pcbs
<1>13. Receiver(p, n)
  BY <1>9, <1>12 DEF Receiver
<1>14. Edge(p) = Edge(pcb) /\ Announced(p, n)
  BY <1>10, <1>11, <1>12, SMTT(30) DEF Announced, Edge
<1>15. recv_used' \in 0 .. TcpWnd /\ p.rcv_wnd + recv_used' = TcpWnd
  BY <1>1, <1>4, <1>12
<1>16. pcb.state # "CLOSE_WAIT"
  BY <1>1
<1> QED
  BY <1>1, <1>6, <1>12, <1>13, <1>14, <1>15, <1>16, OutputKeeps, Zenon DEF n

\* The timer for delayed acknowledgements.
LEMMA FastTimerIs == IInv /\ FastTimer => IInv' /\ EdgeStep
<1> SUFFICES ASSUME IInv, FastTimer
             PROVE  IInv' /\ EdgeStep
  OBVIOUS
<1>1. /\ Output(pcb, TRUE, Position)
      /\ delivered' = delivered /\ una' = una /\ allowed' = allowed /\ resent' = resent
      /\ recv_used' = recv_used
  BY ZenonT(30) DEF FastTimer, console
<1>2. /\ Receiver(pcb, Position) /\ recv_used \in 0 .. TcpWnd
      /\ pcb.state = "ESTABLISHED" => pcb.rcv_wnd + recv_used = TcpWnd /\ Announced(pcb, Position)
  BY StateBefore
<1> QED
  BY <1>1, <1>2, OutputKeeps, Zenon

\* The queue is given up.
LEMMA OoseqTimeoutIs == IInv /\ OoseqTimeout => IInv' /\ EdgeStep
<1> SUFFICES ASSUME IInv, OoseqTimeout
             PROVE  IInv' /\ EdgeStep
  OBVIOUS
<1> DEFINE p == Requeue(pcb, <<>>)
<1>1. /\ pcb' = p /\ ack' = ack
      /\ delivered' = delivered /\ una' = una /\ allowed' = allowed /\ resent' = resent
      /\ recv_used' = recv_used /\ pcb.ooseq # <<>>
  BY DEF OoseqTimeout, console, Requeue
<1>2. /\ pcb \in Pcbs /\ Receiver(pcb, Position) /\ recv_used \in 0 .. TcpWnd
      /\ pcb.state = "ESTABLISHED" => pcb.rcv_wnd + recv_used = TcpWnd /\ Announced(pcb, Position)
      /\ pcb.state = "CLOSE_WAIT" => pcb.ooseq = <<>>
  BY StateBefore, SMTT(30)
<1>3. /\ p \in Pcbs /\ p.rcv_nxt = pcb.rcv_nxt /\ p.rcv_wnd = pcb.rcv_wnd
      /\ p.rcv_ann_wnd = pcb.rcv_ann_wnd /\ p.rcv_ann_right_edge = pcb.rcv_ann_right_edge
      /\ p.ooseq = <<>> /\ p.state = pcb.state
  <2>1. <<>> \in Seq(Segments)
    BY SMTT(30)
  <2> QED
    BY <1>2, <2>1, PcbRequeue, Zenon
<1> HIDE DEF p
<1>4. Receiver(p, Position)
  BY <1>2, <1>3, QueueEmpty DEF Receiver
<1>5. Output(p, FALSE, Position)
  BY <1>1 DEF Output
<1>6. pcb.state = "ESTABLISHED" =>
          /\ p.rcv_wnd + recv_used = TcpWnd /\ Announced(p, Position) /\ Edge(p) = Edge(pcb)
  BY <1>2, <1>3 DEF Announced, Edge
<1>7. recv_used' \in 0 .. TcpWnd /\ pcb.state # "CLOSE_WAIT" /\ FALSE \in BOOLEAN
  BY <1>1, <1>2
<1> QED
  BY <1>1, <1>3, <1>4, <1>5, <1>6, <1>7, OutputKeeps, Zenon

\* The console gets an acknowledgement, or it is lost.
LEMMA AckIs == IInv /\ (AckArrives \/ AckLost) => IInv' /\ EdgeStep
<1> SUFFICES ASSUME IInv, AckArrives \/ AckLost
             PROVE  IInv' /\ EdgeStep
  BY SMTT(30)
<1> DEFINE n == Position
<1>1. /\ Receiver(pcb, n) /\ n \in 1 .. Stream + 2
      /\ Stretch(delivered, 1) /\ Len(delivered) \in Nat /\ Len(delivered) <= Stream
      /\ allowed \in Nat /\ ack \in Acks /\ ack.una <= n
      /\ recv_used \in 0 .. TcpWnd /\ una \in Nat /\ una <= n
      /\ pcb.state = "ESTABLISHED" =>
             /\ n = Len(delivered) + 1 /\ pcb.rcv_wnd + recv_used = TcpWnd
             /\ Announced(pcb, n) /\ allowed <= Edge(pcb) /\ ack.allowed <= Edge(pcb)
      /\ pcb.state = "CLOSE_WAIT" =>
             n = Stream + 2 /\ Len(delivered) = Stream /\ pcb.ooseq = <<>>
  BY StateBefore
<1>2. una \in 1 .. Stream + 2 /\ allowed \in 1 .. Stream + TcpWnd + 2 /\ resent \in BOOLEAN
  BY SMTT(30) DEF IInv, TypeOK
<1>3. ack.una \in 0 .. Stream + 2 /\ ack.allowed \in 0 .. Stream + TcpWnd + 2
  BY <1>1 DEF Acks
<1>4. Stream \in Nat /\ TcpWnd \in Nat
  BY StreamInReach
<1>5. pcb' = pcb /\ delivered' = delivered /\ recv_used' = recv_used /\ ack' = NoAck
  BY DEF AckArrives, AckLost
<1>6. resent' \in BOOLEAN
  BY <1>2, Zenon DEF AckArrives, AckLost
<1>7. \/ una' = una /\ allowed' = allowed
      \/ una' = Max({una, ack.una}) /\ allowed' = Max({allowed, ack.allowed})
  BY DEF AckArrives, AckLost
<1>8. una' \in {una, ack.una} /\ una' >= una /\ allowed' \in {allowed, ack.allowed} /\ allowed' >= allowed
  <2>1. Max({una, ack.una}) = IF una >= ack.una THEN una ELSE ack.una
    BY <1>2, <1>3, <1>4, MaxOfTwo
  <2>2. Max({allowed, ack.allowed}) = IF allowed >= ack.allowed THEN allowed ELSE ack.allowed
    BY <1>2, <1>3, <1>4, MaxOfTwo, SMTT(30)
  <2> QED
    BY <1>2, <1>3, <1>4, <1>7, <2>1, <2>2, SMTT(30)
<1> HIDE DEF n
<1>9. una' \in 1 .. Stream + 2 /\ una' <= n /\ allowed' \in 1 .. Stream + TcpWnd + 2
  BY <1>1, <1>2, <1>3, <1>4, <1>8, SMTT(30)
<1>10. ack' \in Acks /\ ack'.una <= n /\ ack'.una = 0 /\ ack'.allowed = 0
  <2>1. ack' = [una |-> 0, allowed |-> 0]
    BY <1>5 DEF NoAck
  <2> QED
    BY <1>1, <1>4, <2>1 DEF Acks
<1>11. pcb.state = "ESTABLISHED" => allowed' <= Edge(pcb) /\ ack'.allowed <= Edge(pcb)
  <2> SUFFICES ASSUME pcb.state = "ESTABLISHED"
               PROVE  allowed' <= Edge(pcb) /\ ack'.allowed <= Edge(pcb)
    OBVIOUS
  <2>1. allowed <= Edge(pcb) /\ ack.allowed <= Edge(pcb)
    BY <1>1
  <2>2. allowed' <= Edge(pcb)
    BY <1>8, <2>1
  <2>3. Edge(pcb) \in 1 .. Space /\ Space \in Nat
    <3>1. pcb.rcv_ann_right_edge \in 0 .. Space - 1
      BY <1>1, PcbFields DEF Receiver
    <3> QED
      BY <3>1, SeqNoOfPlace, SpaceFacts, SMTT(30) DEF Edge
  <2>4. 0 <= Edge(pcb)
    BY <2>3, SMTT(30)
  <2> QED
    BY <1>10, <2>2, <2>4
<1>12. /\ pcb'.state = "CLOSE_WAIT" =>
              n = Len(delivered') + 2 /\ Len(delivered') = Stream /\ pcb'.ooseq = <<>>
       /\ pcb'.state = "ESTABLISHED" =>
              /\ n = Len(delivered') + 1 /\ pcb'.rcv_wnd + recv_used' = TcpWnd
              /\ Announced(pcb', n) /\ allowed' <= Edge(pcb') /\ ack'.allowed <= Edge(pcb')
  BY <1>1, <1>5, <1>11, SMTT(30)
<1>13. /\ Receiver(pcb', n) /\ Stretch(delivered', 1) /\ Len(delivered') <= Stream
       /\ recv_used' \in 0 .. TcpWnd
  BY <1>1, <1>5, SMTT(30)
<1>14. IInv'
  BY <1>1, <1>6, <1>9, <1>10, <1>12, <1>13, StateAfter, SMTT(30)
<1>15. EdgeStep
  BY <1>5 DEF EdgeStep
<1> QED
  BY <1>14, <1>15

\* Any step.
LEMMA NextIs == IInv /\ [Next]_vars => IInv' /\ (EdgeStep \/ UNCHANGED vars)
<1> SUFFICES ASSUME IInv, [Next]_vars
             PROVE  IInv' /\ (EdgeStep \/ UNCHANGED vars)
  BY SMTT(30)
<1>1. resent \in BOOLEAN /\ una \in 1 .. Stream + 2 /\ Stream \in Nat
  BY StreamInReach, Zenon DEF IInv, TypeOK
<1>2. CASE Arrives
  <2>1. PICK i \in 1 .. Stream + 1, m \in 0 .. Mss, fin \in BOOLEAN, copied \in BOOLEAN :
            MaySend(i, m, fin) /\ Segment(i, m, fin, copied)
    BY <1>2 DEF Arrives
  <2>2. una' = una /\ allowed' = allowed /\ resent' = resent
    BY <1>2 DEF Arrives, console
  <2>3. m \in Nat
    BY ReceiveAssumption
  <2> QED
    BY <1>1, <2>1, <2>2, <2>3, SegmentIs, SMTT(30)
<1>3. CASE Resend
  <2>1. /\ pcb' = pcb /\ delivered' = delivered /\ recv_used' = recv_used /\ una' = una
        /\ allowed' = allowed /\ ack' = ack /\ resent' = TRUE
    BY <1>3, SMTT(30) DEF Resend
  <2>2. IInv'
    BY <2>1 DEF IInv, TypeOK, Position
  <2> QED
    BY <2>1, <2>2 DEF EdgeStep
<1>4. CASE ResentArrives
  <2>1. PICK m \in 0 .. Mss, fin \in BOOLEAN :
            MaySend(una, m, fin) /\ Segment(una, m, fin, TRUE)
    BY <1>4, Zenon DEF ResentArrives
  <2>2. una' = una /\ allowed' = allowed /\ resent' = FALSE
    BY <1>4 DEF ResentArrives
  <2>3. m \in Nat
    BY ReceiveAssumption
  <2>4. una \in 1 .. Stream + 1
    BY <1>1, <2>1, <2>3 DEF MaySend
  <2>5. TRUE \in BOOLEAN /\ resent' \in BOOLEAN
    BY <2>2, Zenon
  <2> QED
    BY <2>1, <2>2, <2>3, <2>4, <2>5, SegmentIs, Zenon
<1>5. CASE AckArrives \/ AckLost
  BY <1>5, AckIs
<1>6. CASE Read
  BY <1>6, ReadIs
<1>7. CASE FastTimer
  BY <1>7, FastTimerIs, SMTT(30)
<1>8. CASE OoseqTimeout
  BY <1>8, OoseqTimeoutIs
<1>9. CASE UNCHANGED vars
  BY <1>9 DEF vars, IInv, TypeOK, Position
<1> QED
  BY <1>2, <1>3, <1>4, <1>5, <1>6, <1>7, <1>8, <1>9, SMTT(30) DEF Next

-----------------------------------------------------------------------------
(* The theorems.                                                           *)

\* The inductive invariant holds in every state, and every step keeps to it.
THEOREM Inductive == Spec => []IInv
<1>1. IInv /\ [Next]_vars => IInv'
  BY NextIs
<1> QED
  BY InitIs, <1>1, PTL DEF Spec

\* Whatever is lost, repeated or reordered, uvl_async_tcp_read_cb gets the bytes
\* of the stream in order and each once, rcv_nxt counts exactly these, and the
\* end comes after all of them.
THEOREM StreamInOrder == Spec => []InStreamOrder
<1>1. IInv => InStreamOrder
  BY DEF IInv, InStreamOrder, Receiver
<1> QED
  BY Inductive, <1>1, PTL

\* The receive window is the free part of recv_buf, the announced window is not
\* wider, and all that the console has been allowed to send fits.
THEOREM WindowFree == Spec => []WindowIsFree
<1>1. IInv => WindowIsFree
  <2> SUFFICES ASSUME IInv, pcb.state = "ESTABLISHED"
               PROVE  /\ pcb.rcv_wnd + recv_used = TcpWnd
                      /\ pcb.rcv_ann_wnd <= pcb.rcv_wnd
                      /\ Max({allowed, ack.allowed}) <= Position + pcb.rcv_wnd
    BY SMTT(30) DEF WindowIsFree
  <2> DEFINE n == Position
             W == pcb.rcv_wnd
             a == pcb.rcv_ann_wnd
             e == Edge(pcb)
             x == ack.allowed
  <2>1. /\ pcb \in Pcbs /\ n \in 1 .. Stream + 2 /\ allowed \in Nat /\ ack \in Acks
        /\ W + recv_used = TcpWnd /\ Announced(pcb, n) /\ allowed <= e /\ x <= e
    BY StateBefore
  <2>2. W \in 0 .. TcpWnd /\ a \in 0 .. TcpWnd /\ pcb.rcv_ann_right_edge \in 0 .. Space - 1
    BY <2>1, PcbFields
  <2>3. e \in 1 .. Space /\ Space \in Nat
    BY <2>2, SeqNoOfPlace, SpaceFacts DEF Edge
  <2>4. a <= W /\ e <= n + a
    BY <2>1 DEF Announced
  <2>5. Stream \in Nat /\ TcpWnd \in Nat
    BY StreamInReach
  <2>6. x \in Nat
    BY <2>1, <2>5 DEF Acks
  <2>7. Max({allowed, x}) = IF allowed >= x THEN allowed ELSE x
    BY <2>1, <2>6, MaxOfTwo
  <2> HIDE DEF n, W, a, e, x, Space
  <2>8. Max({allowed, x}) <= n + W
    BY <2>1, <2>2, <2>3, <2>4, <2>5, <2>6, <2>7, SMTT(30)
  <2> QED
    BY <2>1, <2>4, <2>8 DEF n, W, a, x
<1> QED
  BY Inductive, <1>1, PTL

\* tcp_receive and tcp_oos_insert_segment keep the queue in order, without
\* overlaps, after a gap, in the window, and true to the stream.
THEOREM QueueIsSound == Spec => []ReceiverSound
<1>1. IInv => QueueSound
  <2> DEFINE q == pcb.ooseq
             n == Position
             a == n + 1
             b == n + pcb.rcv_wnd
  <2> SUFFICES ASSUME IInv
               PROVE  /\ q # <<>> => Gt(q[1].seqno, pcb.rcv_nxt) /\ Geq(RightEdge(pcb), End(Last(q)))
                      /\ \A i \in DOMAIN q :
                             /\ Tcplen(q[i]) > 0
                             /\ \A k \in DOMAIN q[i].data : SeqNo(q[i].data[k]) = Plus(q[i].seqno, k - 1)
                             /\ q[i].fin => i = Len(q) /\ DataEnd(q[i]) = SeqNo(Stream + 1)
                             /\ i < Len(q) => Geq(q[i + 1].seqno, End(q[i]))
    BY ZenonT(30) DEF QueueSound
  <2>1. pcb \in Pcbs /\ Receiver(pcb, n) /\ n \in 1 .. Stream + 2
    BY StateBefore, Zenon
  <2>2. pcb.rcv_nxt = SeqNo(n) /\ Queue(q, a, b)
    BY <2>1 DEF Receiver
  <2>3. pcb.rcv_wnd \in 0 .. TcpWnd
    BY <2>1, PcbFields
  <2>4. RightEdge(pcb) = SeqNo(b) /\ b \in 1 .. Reach
    BY <2>1, <2>2, <2>3, RightEdgeIs, SMTT(30)
  <2>5. /\ Stream \in Nat /\ TcpWnd \in Nat /\ Reach \in Nat /\ n \in Nat /\ a \in Nat /\ b \in Nat
        /\ Stream + 2 <= Reach /\ n \in 1 .. Reach
    BY <2>1, <2>3, <2>4, StreamInReach, SMTT(30) DEF Reach
  <2>6. q \in Seq(Segments) /\ Len(q) \in Nat /\ DOMAIN q = 1 .. Len(q)
    BY <2>2, QueueIsSeq, SMTT(30)
  <2> HIDE DEF q, b, Reach
  <2>7. ASSUME NEW i \in 1 .. Len(q)
        PROVE  /\ Genuine(q[i]) /\ Tcplen(q[i]) > 0 /\ a <= At(q[i]) /\ To(q[i]) <= b
               /\ q[i].fin => i = Len(q)
               /\ q[i].seqno = SeqNo(At(q[i])) /\ DataEnd(q[i]) = SeqNo(DataTo(q[i]))
               /\ End(q[i]) = SeqNo(To(q[i])) /\ (q[i].fin => DataTo(q[i]) = Stream + 1)
               /\ At(q[i]) \in 1 .. Stream + 1 /\ To(q[i]) \in 1 .. Stream + 2
               /\ DataTo(q[i]) = At(q[i]) + Len(q[i].data) /\ DataTo(q[i]) \in 1 .. Stream + 1
               /\ At(q[i]) \in 1 .. Reach /\ To(q[i]) \in 1 .. Reach
    <3> HIDE DEF a
    <3>1. /\ Genuine(q[i]) /\ Tcplen(q[i]) > 0 /\ a <= At(q[i]) /\ To(q[i]) <= b
          /\ q[i].fin => i = Len(q)
      BY <2>2, <2>5, QueueElement, SMTT(30)
    <3>2. /\ q[i].seqno = SeqNo(At(q[i])) /\ DataEnd(q[i]) = SeqNo(DataTo(q[i]))
          /\ End(q[i]) = SeqNo(To(q[i])) /\ (q[i].fin => DataTo(q[i]) = Stream + 1)
          /\ At(q[i]) \in 1 .. Stream + 1 /\ To(q[i]) \in 1 .. Stream + 2
          /\ DataTo(q[i]) = At(q[i]) + Len(q[i].data) /\ DataTo(q[i]) \in 1 .. Stream + 1
      BY <3>1, SegmentPlaces
    <3>3. At(q[i]) \in 1 .. Reach /\ To(q[i]) \in 1 .. Reach
      BY <3>2, StreamInReach, SMTT(30)
    <3> QED
      BY <3>1, <3>2, <3>3, SMTT(30)
  <2>8. ASSUME q # <<>>
        PROVE  Gt(q[1].seqno, pcb.rcv_nxt) /\ Geq(RightEdge(pcb), End(Last(q)))
    <3> DEFINE z == Len(q)
    <3>1. 1 \in 1 .. z /\ z \in 1 .. z
      BY <2>6, <2>8
    <3>2. Last(q) = q[z]
      BY SMTT(30) DEF Last
    <3>3. Gt(SeqNo(At(q[1])), SeqNo(n)) <=> At(q[1]) > n
      BY <2>5, <2>7, <3>1, Compare, SMTT(30)
    <3>4. Geq(SeqNo(b), SeqNo(To(q[z]))) <=> b >= To(q[z])
      BY <2>4, <2>7, <3>1, Compare, SMTT(30)
    <3>5. At(q[1]) > n /\ b >= To(q[z])
      <4>1. At(q[1]) \in 1 .. Stream + 1 /\ n + 1 <= At(q[1])
        BY <2>7, <3>1, SMTT(30)
      <4>2. To(q[z]) \in 1 .. Stream + 2 /\ To(q[z]) <= b
        BY <2>7, <3>1, SMTT(30)
      <4> HIDE DEF n
      <4> QED
        BY <2>5, <4>1, <4>2, SMTT(30)
    <3> QED
      BY <2>2, <2>4, <2>7, <3>1, <3>2, <3>3, <3>4, <3>5, ZenonT(30)
  <2>9. ASSUME NEW i \in 1 .. Len(q), NEW k \in DOMAIN q[i].data
        PROVE  SeqNo(q[i].data[k]) = Plus(q[i].seqno, k - 1)
    <3> DEFINE x == At(q[i])
               d == q[i].data
               j == k - 1
    <3>1. Stretch(d, x) /\ x \in 1 .. Stream + 1 /\ q[i].seqno = SeqNo(x) /\ x + Len(d) \in 1 .. Stream + 1
      BY <2>7, SMTT(30) DEF Genuine
    <3>2. d \in Seq(Nat) /\ Len(d) \in Nat /\ \A l \in 1 .. Len(d) : d[l] = x + l - 1
      BY <3>1, SMTT(30) DEF Stretch
    <3>3. k \in 1 .. Len(d) /\ k \in Nat
      BY <3>2
    <3>4. d[k] = x + k - 1
      BY <3>2, <3>3
    <3> HIDE DEF x, d
    <3>5. x + k - 1 = x + j /\ x \in 0 .. Reach /\ j \in -1 .. Reach /\ x + j >= 0
      BY <2>5, <3>1, <3>2, <3>3, SMTT(30)
    <3>6. Plus(SeqNo(x), j) = SeqNo(x + j)
      BY <3>5, PlusSeqNo, SMTT(30)
    <3>7. SeqNo(d[k]) = Plus(q[i].seqno, j)
      BY <3>1, <3>4, <3>5, <3>6
    <3> QED
      BY <3>7, SMTT(30) DEF d
  <2>10. ASSUME NEW i \in 1 .. Len(q), i < Len(q)
         PROVE  Geq(q[i + 1].seqno, End(q[i]))
    <3> DEFINE j == i + 1
    <3>1. j \in 1 .. Len(q) /\ i < j
      BY <2>6, <2>10
    <3> HIDE DEF j
    <3>2. To(q[i]) <= At(q[j])
      BY <2>2, <3>1, QueueOrder, SMTT(30)
    <3>3. Geq(SeqNo(At(q[j])), SeqNo(To(q[i]))) <=> At(q[j]) >= To(q[i])
      BY <2>7, <3>1, Compare, SMTT(30)
    <3>4. At(q[j]) \in 1 .. Stream + 1 /\ To(q[i]) \in 1 .. Stream + 2
      BY <2>7, <3>1
    <3>5. At(q[j]) >= To(q[i])
      BY <2>5, <3>2, <3>4, SMTT(30)
    <3>6. Geq(q[j].seqno, End(q[i]))
      BY <2>7, <3>1, <3>3, <3>5, SMTT(30)
    <3> QED
      BY <3>6 DEF j
  <2>11. ASSUME NEW i \in 1 .. Len(q)
         PROVE  Tcplen(q[i]) > 0 /\ (q[i].fin => i = Len(q) /\ DataEnd(q[i]) = SeqNo(Stream + 1))
    BY <2>7, SMTT(30)
  <2> QED
    BY <2>6, <2>8, <2>9, <2>10, <2>11, ZenonT(30)
<1>2. IInv => ReceiverSound
  BY <1>1 DEF IInv, ReceiverSound
<1> QED
  BY Inductive, <1>2, PTL

\* No acknowledgement takes back what an earlier one announced.
THEOREM EdgeNotTakenBack == Spec => EdgeKept
<1>1. IInv /\ [Next]_vars => [EdgeStep]_vars
  BY NextIs
<1>2. Spec => [][EdgeStep]_vars
  BY Inductive, <1>1, PTL DEF Spec
<1> QED
  BY <1>2 DEF EdgeKept, EdgeStep

=============================================================================

-------------------------- MODULE TcpBridge_proofs --------------------------
(***************************************************************************)
(* Proofs about TcpBridge, for streams of any length and buffers of any    *)
(* size.  The inductive invariant has three parts: Control relates the     *)
(* flags of the connection to each other, Upstream and Downstream say      *)
(* where the bytes of the two streams are.                                 *)
(***************************************************************************)
EXTENDS TcpBridge, TLAPS

Request == [data : Seq(Nat), sent : Nat, pending : Nat]

\* What a fault may be.
Faults == {"none", "null proxy socket", "freed connection", "read_start", "sent",
           "no buffer for data"}

Connection ==
    [kind : {"direct", "socks5", "fake"},
     pcb : {"none", "live", "closing", "reset", "gone"},
     wnd : Int, snd : Seq(Nat), buf : Seq(Nat),
     readCb : BOOLEAN, closed : BOOLEAN, writes : Seq(Request),
     asyncR : BOOLEAN, asyncW : BOOLEAN,
     handles : {"none", "open", "closing", "freed"},
     iclosing : BOOLEAN, killed : BOOLEAN,
     ptcp : {"none", "connecting", "greeting", "request", "failed", "ready", "closed"},
     pReading : BOOLEAN, pOut : Seq(Nat), cancelled : BOOLEAN,
     inSet : BOOLEAN, released : BOOLEAN, count : Int, selfClosed : Int,
     timer : {"running", "closing", "closed"},
     fault : Faults]

\* Which callbacks may still come: the pcb, the handles and the flags of the
\* closes agree.
Life(s) ==
    /\ s.pcb = "none" <=> s.handles = "none"
    /\ s.pcb = "none" => s.writes = << >> /\ s.kind = "direct"
    /\ s.closed <=> s.pcb \in {"closing", "reset", "gone"}
    /\ s.iclosing <=> s.handles \in {"closing", "freed"}
    /\ s.iclosing => s.closed
    /\ s.killed => s.iclosing
    /\ s.handles = "freed" => s.writes = << >>
    /\ s.handles = "closing" /\ s.kind # "fake" /\ ~ s.killed => s.released

\* The proxy's socket, and who is read.
Proxy(s) ==
    /\ s.readCb => ~ s.closed /\ s.ptcp = "ready" /\ s.pOut = << >>
    /\ s.pReading => s.ptcp = "ready" /\ s.writes = << >>
    /\ s.pOut # << >> => s.ptcp \in {"ready", "closed"}
    /\ s.kind = "fake" => s.ptcp = "none" /\ ~ s.killed
    /\ s.ptcp = "none" <=> s.kind = "fake" \/ s.pcb = "none"
    /\ s.ptcp = "closed" => s.killed
    /\ s.killed /\ s.fault = "none" => s.ptcp = "closed"
    /\ Len(s.writes) <= 1
    /\ s.kind # "fake" /\ s.ptcp \notin {"ready", "closed"} => s.writes = << >>

\* The accounting of UvLwipBase: after release the count is spent, so that the
\* later calls of removeConnection do not reach onSelfClose again.
Base(s) ==
    /\ s.handles = "open" => ~ s.released
    /\ s.handles = "none" => ~ s.inSet
    /\ ~ s.released => s.count = 0 /\ s.timer = "running" /\ s.selfClosed = 0
    /\ s.released => s.count <= 0 /\ s.timer # "running"
    /\ s.selfClosed \in 0 .. 2
    /\ s.selfClosed = 2 => s.timer = "closed"

Faultless(s) ==
    s.fault # "none" =>
        /\ s.handles = "freed"
        /\ \/ /\ s.fault = "null proxy socket"
              /\ s.released /\ s.kind = "socks5"
              /\ s.ptcp \notin {"ready", "closed"}
           \/ s.fault = "freed connection" /\ s.killed /\ s.ptcp = "closed"

\* What the steps of a close keep; between two of them an open connection may
\* be out of connSet, and a freed one not killed yet.
Steady(s) == s \in Connection /\ Life(s) /\ Proxy(s) /\ Base(s) /\ Faultless(s)

Control(s) ==
    /\ Steady(s)
    /\ s.handles = "open" => s.inSet
    /\ s.handles = "freed" /\ s.kind # "fake" => s.killed

\* The bytes of q are the ones that follow position a of their stream.
From(q, a) == q \in Seq(Nat) /\ \A i \in 1 .. Len(q) : q[i] = a + i

\* The console's n bytes, of which the remote host has got.
Upstream(s, n, got) ==
    /\ From(got, 0) /\ From(s.pOut, Len(got))
    /\ Len(got) + Len(s.pOut) <= n
    /\ s.wnd \in 0 .. Wnd /\ Len(s.buf) <= Wnd
    /\ s.pcb \in {"none", "live"} =>
        /\ From(s.buf, Len(got) + Len(s.pOut))
        /\ Len(got) + Len(s.pOut) + Len(s.buf) = n
        /\ s.wnd = Wnd - Len(s.buf)

\* The bytes in lwIP's send buffer are those the request has pending.
Unacked(s) ==
    /\ Len(s.snd) <= SndBuf
    /\ s.writes # << >> => s.writes[1].sent <= Len(s.writes[1].data)
    /\ s.pcb \in {"none", "live"} =>
        Len(s.snd) = IF s.writes = << >> THEN 0 ELSE s.writes[1].pending

\* The console has everything the proxy's socket does not hold.
CaughtUp(s, n, got, q) == s.snd = << >> /\ From(q, Len(got)) /\ Len(got) + Len(q) = n

\* The request w was handed over up to position a of the stream, and the rest of
\* it and q go on from there to position n.
Behind(w, a, n, q) ==
    /\ From(w.data, a - w.sent)
    /\ From(q, a - w.sent + Len(w.data))
    /\ a - w.sent + Len(w.data) + Len(q) = n

\* The remote host's n bytes, of which the console has got; q is in the socket.
Downstream(s, n, got, q) ==
    /\ From(got, 0) /\ From(s.snd, Len(got)) /\ Len(got) + Len(s.snd) <= n
    /\ s.ptcp \notin {"ready", "closed"} =>
        n = 0 /\ got = << >> /\ s.snd = << >> /\ q = << >>
    /\ s.pReading => CaughtUp(s, n, got, q)
    /\ s.writes # << >> /\ Complete(s.writes[1]) => CaughtUp(s, n, got, q)
    /\ s.pcb \in {"none", "live"} =>
        IF s.writes = << >>
        THEN From(q, Len(got) + Len(s.snd)) /\ Len(got) + Len(s.snd) + Len(q) = n
        ELSE Behind(s.writes[1], Len(got) + Len(s.snd), n, q)

IInv ==
    /\ Control(c)
    /\ cSent \in 0 .. CMax /\ rSent \in 0 .. RMax
    /\ cGot \in Seq(Nat) /\ sock \in Seq(Nat) /\ rGot \in Seq(Nat)
    /\ Upstream(c, cSent, rGot)
    /\ Unacked(c)
    /\ c.kind # "fake" => Downstream(c, rSent, cGot, sock)

-----------------------------------------------------------------------------
(* Stretches of a stream.                                                  *)

\* The first n bytes of a stream.
LEMMA StreamFrom ==
    ASSUME NEW n \in Nat
    PROVE  From(Stream(n), 0) /\ Len(Stream(n)) = n
BY DEF From, Stream

\* They are the only n bytes from position 0.
LEMMA FromStream ==
    ASSUME NEW q, From(q, 0)
    PROVE  q = Stream(Len(q))
BY DEF From, Stream

\* The empty stretch may be anywhere.
LEMMA FromEmpty ==
    ASSUME NEW a
    PROVE  From(<< >>, a) /\ Len(<< >>) = 0
BY DEF From

\* A stretch and the next one.
LEMMA FromConcat ==
    ASSUME NEW a \in Int, NEW p, NEW q, From(p, a), From(q, a + Len(p))
    PROVE  From(p \o q, a) /\ Len(p \o q) = Len(p) + Len(q)
<1>1. p \in Seq(Nat) /\ q \in Seq(Nat) /\ Len(p) \in Nat /\ Len(q) \in Nat
  BY DEF From
<1>2. p \o q \in Seq(Nat) /\ Len(p \o q) = Len(p) + Len(q)
  BY <1>1
<1>3. ASSUME NEW i \in 1 .. Len(p \o q)
      PROVE  (p \o q)[i] = a + i
  <2>1. CASE i <= Len(p)
    BY <1>1, <1>2, <2>1 DEF From
  <2>2. CASE i > Len(p)
    <3>1. (p \o q)[i] = q[i - Len(p)] /\ i - Len(p) \in 1 .. Len(q)
      BY <1>1, <1>2, <2>2
    <3> QED  BY <1>1, <3>1 DEF From
  <2> QED  BY <1>1, <1>2, <2>1, <2>2
<1> QED  BY <1>2, <1>3 DEF From

\* The first n bytes of a stretch, and the rest.
LEMMA FromSplit ==
    ASSUME NEW a \in Int, NEW q, From(q, a), NEW n \in 0 .. Len(q)
    PROVE  /\ From(SubSeq(q, 1, n), a) /\ Len(SubSeq(q, 1, n)) = n
           /\ From(SubSeq(q, n + 1, Len(q)), a + n)
           /\ Len(SubSeq(q, n + 1, Len(q))) = Len(q) - n
<1>1. q \in Seq(Nat) /\ Len(q) \in Nat
  BY DEF From
<1>2. SubSeq(q, 1, n) \in Seq(Nat) /\ Len(SubSeq(q, 1, n)) = n
  BY <1>1
<1>3. SubSeq(q, n + 1, Len(q)) \in Seq(Nat) /\ Len(SubSeq(q, n + 1, Len(q))) = Len(q) - n
  BY <1>1
<1>4. \A i \in 1 .. n : SubSeq(q, 1, n)[i] = a + i
  BY <1>1 DEF From
<1>5. \A i \in 1 .. Len(q) - n : SubSeq(q, n + 1, Len(q))[i] = a + n + i
  BY <1>1 DEF From
<1> QED  BY <1>2, <1>3, <1>4, <1>5 DEF From

\* Some bytes in the middle of a stretch.
LEMMA FromPart ==
    ASSUME NEW a \in Int, NEW q, From(q, a), NEW k \in Nat, NEW n \in Nat, k + n <= Len(q)
    PROVE  From(SubSeq(q, k + 1, k + n), a + k) /\ Len(SubSeq(q, k + 1, k + n)) = n
<1>1. q \in Seq(Nat) /\ Len(q) \in Nat
  BY DEF From
<1>2. SubSeq(q, k + 1, k + n) \in Seq(Nat) /\ Len(SubSeq(q, k + 1, k + n)) = n
  BY <1>1
<1>3. \A i \in 1 .. n : SubSeq(q, k + 1, k + n)[i] = a + k + i
  BY <1>1 DEF From
<1> QED  BY <1>2, <1>3 DEF From

-----------------------------------------------------------------------------
(* The loops over the list of requests, which holds at most one.           *)

\* A natural number that is at most one.
LEMMA AtMostOne ==
    ASSUME NEW n \in Nat, n <= 1
    PROVE  n = 0 \/ n = 1
OBVIOUS

\* A sequence that is at most one long.
LEMMA Short ==
    ASSUME NEW S, NEW q \in Seq(S), Len(q) <= 1
    PROVE  (q = << >> /\ Len(q) = 0) \/ (q # << >> /\ Len(q) = 1)
<1>1. Len(q) \in Nat /\ (q = << >> <=> Len(q) = 0)
  OBVIOUS
<1> QED  BY <1>1, AtMostOne, Zenon

\* The sum over an empty and over a one-element list.
LEMMA TotalShort ==
    ASSUME NEW cap, cap \in Seq(Nat), Len(cap) <= 1
    PROVE  Total(cap) = IF cap = << >> THEN 0 ELSE cap[1]
<1> DEFINE P(f) == f = [i \in 0 .. Len(cap) |-> IF i = 0 THEN 0 ELSE f[i - 1] + cap[i]]
           w == [i \in 0 .. Len(cap) |-> IF i = 0 THEN 0 ELSE cap[1]]
           g == CHOOSE f : P(f)
<1>1. P(w)
  <2>1. \A i \in 0 .. Len(cap) : i # 0 => i = 1 /\ w[i - 1] = 0 /\ 0 + cap[i] = cap[1]
    OBVIOUS
  <2> QED  BY <2>1
<1>2. P(g)
  <2> HIDE DEF P, w
  <2> QED  BY <1>1, Zenon
<1>3. Total(cap) = g[Len(cap)]
  BY Zenon DEF Total
<1>4. g = [i \in 0 .. Len(cap) |-> IF i = 0 THEN 0 ELSE g[i - 1] + cap[i]]
  BY <1>2, Zenon
<1> HIDE DEF g
<1>5. g[0] = 0
  BY <1>4
<1>6. Len(cap) = 1 => g[1] = cap[1]
  BY <1>4, <1>5
<1>7. (cap = << >> /\ Len(cap) = 0) \/ (cap # << >> /\ Len(cap) = 1)
  BY Short, Zenon
<1> QED  BY <1>3, <1>5, <1>6, <1>7

\* The same for concatenation.
LEMMA JoinedShort ==
    ASSUME NEW ss \in Seq(Seq(Nat)), Len(ss) <= 1
    PROVE  Joined(ss) = IF ss = << >> THEN << >> ELSE ss[1]
<1> DEFINE P(f) == f = [i \in 0 .. Len(ss) |-> IF i = 0 THEN << >> ELSE f[i - 1] \o ss[i]]
           w == [i \in 0 .. Len(ss) |-> IF i = 0 THEN << >> ELSE ss[1]]
           g == CHOOSE f : P(f)
<1>0. Len(ss) = 1 => << >> \o ss[1] = ss[1]
  OBVIOUS
<1>1. P(w)
  <2>1. \A i \in 0 .. Len(ss) : i # 0 => i = 1 /\ w[i - 1] = << >> /\ << >> \o ss[i] = ss[1]
    BY <1>0
  <2> QED  BY <2>1, Zenon
<1>2. P(g)
  <2> HIDE DEF P, w
  <2> QED  BY <1>1, Zenon
<1>3. Joined(ss) = g[Len(ss)]
  BY Zenon DEF Joined
<1>4. g = [i \in 0 .. Len(ss) |-> IF i = 0 THEN << >> ELSE g[i - 1] \o ss[i]]
  BY <1>2, Zenon
<1> HIDE DEF g
<1>5. g[0] = << >>
  BY <1>4
<1>6. Len(ss) = 1 => g[1] = ss[1]
  <2>1. Len(ss) = 1 => g[1] = g[0] \o ss[1]
    BY <1>4
  <2> QED  BY <1>0, <1>5, <2>1
<1>7. (ss = << >> /\ Len(ss) = 0) \/ (ss # << >> /\ Len(ss) = 1)
  BY Short, Zenon
<1> QED  BY <1>3, <1>5, <1>6, <1>7

\* One place takes what there is, up to its size.
LEMMA ShareShort ==
    ASSUME NEW cap \in Seq(Nat), Len(cap) = 1, NEW n \in Nat
    PROVE  Share(cap, n)[1] = IF n < cap[1] THEN n ELSE cap[1]
<1> DEFINE P(f) == f = [i \in 1 .. Len(cap) |-> IF i = 1 THEN 0 ELSE f[i - 1] + cap[i - 1]]
           w == [i \in 1 .. Len(cap) |-> 0]
           g == CHOOSE f : P(f)
<1>1. P(w)
  OBVIOUS
<1>2. P(g)
  <2> HIDE DEF P, w
  <2> QED  BY <1>1, Zenon
<1>3. Share(cap, n) = [i \in 1 .. Len(cap) |->
                          IF n - g[i] <= 0 THEN 0
                          ELSE IF n - g[i] < cap[i] THEN n - g[i] ELSE cap[i]]
  BY Zenon DEF Share
<1>4. g = [i \in 1 .. Len(cap) |-> IF i = 1 THEN 0 ELSE g[i - 1] + cap[i - 1]]
  BY <1>2, Zenon
<1> HIDE DEF g
<1>5. g[1] = 0
  BY <1>4
<1> QED  BY <1>3, <1>5

\* uvl_async_tcp_write_cb takes a finished request off the list, no other.
LEMMA UnfinishedShort ==
    ASSUME NEW s, s.writes \in Seq(Request), Len(s.writes) <= 1
    PROVE  Unfinished(s) = IF s.writes # << >> /\ Complete(s.writes[1]) THEN << >> ELSE s.writes
<1> DEFINE P(n) == /\ \A i \in 1 .. n : Complete(s.writes[i])
                   /\ n < Len(s.writes) => ~ Complete(s.writes[n + 1])
           m == IF s.writes # << >> /\ Complete(s.writes[1]) THEN 1 ELSE 0
           g == CHOOSE n \in 0 .. Len(s.writes) : P(n)
<1>1. m \in 0 .. Len(s.writes) /\ P(m)
  OBVIOUS
<1>2. \A n \in 0 .. Len(s.writes) : P(n) => n = m
  OBVIOUS
<1>3. g = m
  <2> HIDE DEF P, m
  <2> QED  BY <1>1, <1>2, Zenon
<1>4. Unfinished(s) = SubSeq(s.writes, g + 1, Len(s.writes))
  BY Zenon DEF Unfinished
<1> HIDE DEF g
<1> DEFINE q == s.writes
<1>5. q \in Seq(Request) /\ Unfinished(s) = SubSeq(q, m + 1, Len(q))
  BY <1>3, <1>4
<1>6. m = 0 \/ (m = 1 /\ Len(q) = 1)
  <2>1. (q = << >> /\ Len(q) = 0) \/ (q # << >> /\ Len(q) = 1)
    BY Short, Zenon
  <2> QED  BY <2>1
<1>7. m = IF q # << >> /\ Complete(q[1]) THEN 1 ELSE 0
  OBVIOUS
<1> HIDE DEF q, m
<1>8. m = 0 => SubSeq(q, m + 1, Len(q)) = q
  BY <1>5
<1>9. m = 1 => SubSeq(q, m + 1, Len(q)) = << >>
  BY <1>5, <1>6
<1> QED  BY <1>5, <1>6, <1>7, <1>8, <1>9, Zenon DEF q

\* The request at the head of the list.
LEMMA FirstRequest ==
    ASSUME NEW s \in Connection, Len(s.writes) <= 1, s.writes # << >>
    PROVE  /\ s.writes \in Seq(Request) /\ Len(s.writes) = 1 /\ s.writes[1] \in Request
           /\ s.writes[1].data \in Seq(Nat) /\ s.writes[1].sent \in Nat
           /\ s.writes[1].pending \in Nat /\ Len(s.writes[1].data) \in Nat
<1>1. s.writes \in Seq(Request)
  BY Zenon DEF Connection
<1>2. Len(s.writes) = 1
  BY <1>1, Short
<1>3. s.writes[1] \in Request
  BY <1>1, <1>2
<1> QED  BY <1>1, <1>2, <1>3 DEF Request

-----------------------------------------------------------------------------
(* Closing.                                                                *)

\* What a close leaves of the data: everything, or nothing, of each buffer.
Closes(s, u) ==
    /\ u \in Connection /\ u.kind = s.kind /\ u.wnd = s.wnd
    /\ u.buf \in {s.buf, << >>} /\ u.pOut \in {s.pOut, << >>}
    /\ u.snd \in {s.snd, << >>} /\ u.writes \in {s.writes, << >>}
    /\ u.pReading => s.pReading
    /\ u.ptcp \in {s.ptcp, "closed"}
    /\ u.pcb \notin {"none", "live"}

\* A count of bytes is a natural number.
LEMMA CountIsNat ==
    ASSUME NEW m, NEW n \in 0 .. m
    PROVE  n \in Nat
OBVIOUS

\* Two buffers hold what each of them holds.
LEMMA ConcatLen ==
    ASSUME NEW p \in Seq(Nat), NEW q \in Seq(Nat)
    PROVE  Len(p \o q) = Len(p) + Len(q)
OBVIOUS

\* The first bytes of a buffer.
LEMMA Prefix ==
    ASSUME NEW q \in Seq(Nat), NEW k \in 0 .. Len(q)
    PROVE  SubSeq(q, 1, k) \in Seq(Nat)
OBVIOUS

\* Buffers are emptied.
LEMMA Empties == << >> \in Seq(Nat) /\ << >> \in Seq(Request)
OBVIOUS

\* A connection stays one when a field is given a value of its own type: one
\* lemma for each field that is set together with several others.
LEMMA SetKind ==
    ASSUME NEW s \in Connection,
           NEW x \in {"direct", "socks5", "fake"}
    PROVE  [s EXCEPT !.kind = x] \in Connection
BY Zenon DEF Connection

\* The same for ptcp.
LEMMA SetPtcp ==
    ASSUME NEW s \in Connection,
           NEW x \in {"none", "connecting", "greeting", "request", "failed", "ready", "closed"}
    PROVE  [s EXCEPT !.ptcp = x] \in Connection
BY ZenonT(60) DEF Connection

\* The same for writes.
LEMMA SetWrites ==
    ASSUME NEW s \in Connection,
           NEW x \in Seq(Request)
    PROVE  [s EXCEPT !.writes = x] \in Connection
BY Zenon DEF Connection

\* The same for readCb.
LEMMA SetReadCb ==
    ASSUME NEW s \in Connection,
           NEW x \in BOOLEAN
    PROVE  [s EXCEPT !.readCb = x] \in Connection
BY Zenon DEF Connection

\* The same for handles.
LEMMA SetHandles ==
    ASSUME NEW s \in Connection,
           NEW x \in {"none", "open", "closing", "freed"}
    PROVE  [s EXCEPT !.handles = x] \in Connection
BY Zenon DEF Connection

\* The same for inSet.
LEMMA SetInSet ==
    ASSUME NEW s \in Connection,
           NEW x \in BOOLEAN
    PROVE  [s EXCEPT !.inSet = x] \in Connection
BY Zenon DEF Connection

\* The same for count.
LEMMA SetCount ==
    ASSUME NEW s \in Connection,
           NEW x \in Int
    PROVE  [s EXCEPT !.count = x] \in Connection
BY Zenon DEF Connection

\* The same for killed.
LEMMA SetKilled ==
    ASSUME NEW s \in Connection,
           NEW x \in BOOLEAN
    PROVE  [s EXCEPT !.killed = x] \in Connection
BY Zenon DEF Connection

\* The same for pReading.
LEMMA SetPReading ==
    ASSUME NEW s \in Connection,
           NEW x \in BOOLEAN
    PROVE  [s EXCEPT !.pReading = x] \in Connection
BY Zenon DEF Connection

\* The same for pOut.
LEMMA SetPOut ==
    ASSUME NEW s \in Connection,
           NEW x \in Seq(Nat)
    PROVE  [s EXCEPT !.pOut = x] \in Connection
BY Zenon DEF Connection

\* The same for cancelled.
LEMMA SetCancelled ==
    ASSUME NEW s \in Connection,
           NEW x \in BOOLEAN
    PROVE  [s EXCEPT !.cancelled = x] \in Connection
BY Zenon DEF Connection

\* The same for fault.
LEMMA SetFault ==
    ASSUME NEW s \in Connection,
           NEW x \in Faults
    PROVE  [s EXCEPT !.fault = x] \in Connection
BY Zenon DEF Connection

\* The same for pcb.
LEMMA SetPcb ==
    ASSUME NEW s \in Connection,
           NEW x \in {"none", "live", "closing", "reset", "gone"}
    PROVE  [s EXCEPT !.pcb = x] \in Connection
BY Zenon DEF Connection

\* The same for snd.
LEMMA SetSnd ==
    ASSUME NEW s \in Connection,
           NEW x \in Seq(Nat)
    PROVE  [s EXCEPT !.snd = x] \in Connection
BY Zenon DEF Connection

\* The same for buf.
LEMMA SetBuf ==
    ASSUME NEW s \in Connection,
           NEW x \in Seq(Nat)
    PROVE  [s EXCEPT !.buf = x] \in Connection
BY Zenon DEF Connection

\* The same for closed.
LEMMA SetClosed ==
    ASSUME NEW s \in Connection,
           NEW x \in BOOLEAN
    PROVE  [s EXCEPT !.closed = x] \in Connection
BY Zenon DEF Connection

\* After release the count is spent: removeConnection only counts on.
LEMMA RemoveEffect ==
    ASSUME NEW s \in Connection, Base(s)
    PROVE  \E i \in BOOLEAN, n \in Int :
              /\ RemoveConnection(s) = [s EXCEPT !.inSet = i, !.count = n]
              /\ s.released => n <= 0
              /\ ~ s.released => n = s.count
              /\ s.handles = "none" => ~ i
<1>1. CASE ~ s.released
  <2>1. RemoveConnection(s) = [s EXCEPT !.inSet = FALSE, !.count = s.count]
    BY <1>1, Zenon DEF RemoveConnection, Connection
  <2> QED  BY <1>1, <2>1, Zenon DEF Connection
<1>2. CASE s.released
  <2> DEFINE n == s.count - 1
  <2>1. n \in Int /\ n <= 0 /\ n # 0
    <3>1. s.count \in Int
      BY Zenon DEF Connection
    <3>2. s.count <= 0
      BY <1>2 DEF Base
    <3> QED  BY <3>1, <3>2
  <2>2. s.inSet \in BOOLEAN /\ (s.handles = "none" => ~ s.inSet)
    BY Zenon DEF Base, Connection
  <2>3. RemoveConnection(s) = [s EXCEPT !.count = n]
    BY <1>2, <2>1 DEF RemoveConnection
  <2> HIDE DEF n
  <2>4. [s EXCEPT !.count = n] = [s EXCEPT !.inSet = s.inSet, !.count = n]
    BY Zenon DEF Connection
  <2> QED  BY <1>2, <2>1, <2>2, <2>3, <2>4, Zenon
<1> QED  BY <1>1, <1>2, Zenon

\* uvl_tcp_close.
LEMMA UvlTcpCloseEffect ==
    ASSUME NEW s \in Connection
    PROVE  \E p \in {"reset", "closing", s.pcb}, q \in {s.snd, << >>} :
              /\ UvlTcpClose(s) = [s EXCEPT !.pcb = p, !.snd = q, !.closed = TRUE,
                                            !.writes = << >>, !.readCb = FALSE,
                                            !.handles = "closing"]
              /\ ~ s.closed => p \in {"reset", "closing"}
              /\ s.closed => p = s.pcb
<1>1. CASE s.closed
  <2>1. UvlTcpClose(s) = [s EXCEPT !.pcb = s.pcb, !.snd = s.snd, !.closed = TRUE,
                                   !.writes = << >>, !.readCb = FALSE,
                                   !.handles = "closing"]
    <3>1. s = [s EXCEPT !.pcb = s.pcb, !.snd = s.snd, !.closed = TRUE]
      BY <1>1, Zenon DEF Connection
    <3>2. UvlTcpClose(s) = [s EXCEPT !.writes = << >>, !.readCb = FALSE, !.handles = "closing"]
      BY <1>1, Zenon DEF UvlTcpClose
    <3> QED  BY <3>1, <3>2, Zenon
  <2> QED  BY <1>1, <2>1
<1>2. CASE ~ s.closed
  <2>1. CASE s.wnd # Wnd
    <3>1. UvlTcpClose(s) = [s EXCEPT !.pcb = "reset", !.snd = << >>, !.closed = TRUE,
                                     !.writes = << >>, !.readCb = FALSE,
                                     !.handles = "closing"]
      BY <1>2, <2>1, Zenon DEF UvlTcpClose, Connection, TcpClose, Detach
    <3> QED  BY <1>2, <3>1
  <2>2. CASE s.wnd = Wnd
    <3>1. UvlTcpClose(s) = [s EXCEPT !.pcb = "closing", !.snd = s.snd, !.closed = TRUE,
                                     !.writes = << >>, !.readCb = FALSE,
                                     !.handles = "closing"]
      BY <1>2, <2>2, ZenonT(60) DEF UvlTcpClose, Connection, TcpClose, Detach
    <3> QED  BY <1>2, <3>1
  <2> QED  BY <2>1, <2>2
<1> QED  BY <1>1, <1>2

\* IConnection::close, again.
LEMMA ICloseAgain ==
    ASSUME NEW s \in Connection, Base(s), s.iclosing
    PROVE  \E i \in BOOLEAN, n \in Int :
              /\ IClose(s) = [s EXCEPT !.inSet = i, !.count = n]
              /\ s.released => n <= 0
              /\ ~ s.released => n = s.count
              /\ s.handles = "none" => ~ i
<1>1. PICK i \in BOOLEAN, n \in Int :
         /\ RemoveConnection(s) = [s EXCEPT !.inSet = i, !.count = n]
         /\ s.released => n <= 0
         /\ ~ s.released => n = s.count
         /\ s.handles = "none" => ~ i
  BY RemoveEffect, Zenon
<1>2. [s EXCEPT !.inSet = i, !.count = n].iclosing
  BY Zenon DEF Connection
<1>3. IClose(s) = [s EXCEPT !.inSet = i, !.count = n]
  BY <1>1, <1>2, Zenon DEF IClose
<1> QED  BY <1>1, <1>3, Zenon

\* A closed uvl_tcp_t: out of connSet (i) and of the count (n), with the pcb in
\* state p and q in lwIP's send buffer.
Shut(s, i, n, p, q) ==
    [s EXCEPT !.inSet = i, !.count = n, !.iclosing = TRUE, !.pcb = p, !.snd = q,
              !.closed = TRUE, !.writes = << >>, !.readCb = FALSE, !.handles = "closing"]

\* It is a connection.
LEMMA ShutType ==
    ASSUME NEW s \in Connection, NEW i \in BOOLEAN, NEW n \in Int,
           NEW p \in {"closing", "reset", "gone"}, NEW q \in Seq(Nat)
    PROVE  Shut(s, i, n, p, q) \in Connection
<1> DEFINE t == [s EXCEPT !.inSet = i, !.count = n, !.iclosing = TRUE, !.pcb = p]
           v == [t EXCEPT !.snd = q, !.closed = TRUE]
           w == [v EXCEPT !.writes = << >>, !.readCb = FALSE, !.handles = "closing"]
<1>1. t \in Connection
  BY ZenonT(60) DEF Connection
<1>2. Shut(s, i, n, p, q) = w
  BY DEF Shut
<1> HIDE DEF t
<1>3. v \in Connection
  BY <1>1, Zenon DEF Connection
<1> HIDE DEF v
<1>4. w \in Connection
  BY <1>3, Empties, SetWrites, SetReadCb, SetHandles, Zenon
<1> QED  BY <1>2, <1>4

\* IConnection::close, for the first time.
LEMMA ICloseFirst ==
    ASSUME NEW s \in Connection, Base(s), ~ s.iclosing
    PROVE  \E i \in BOOLEAN, n \in Int, p \in {"reset", "closing", s.pcb}, q \in {s.snd, << >>} :
              /\ IClose(s) = Shut(s, i, n, p, q)
              /\ s.released => n <= 0
              /\ ~ s.released => n = s.count
              /\ ~ s.closed => p \in {"reset", "closing"}
              /\ s.closed => p = s.pcb
<1>1. PICK i \in BOOLEAN, n \in Int :
         /\ RemoveConnection(s) = [s EXCEPT !.inSet = i, !.count = n]
         /\ s.released => n <= 0
         /\ ~ s.released => n = s.count
  BY RemoveEffect, Zenon
<1> DEFINE t == [s EXCEPT !.inSet = i, !.count = n]
           v == [t EXCEPT !.iclosing = TRUE]
<1>2. ~ t.iclosing
  BY Zenon DEF Connection
<1>3. IClose(s) = UvlTcpClose(v)
  BY <1>1, <1>2, Zenon DEF IClose
<1>4. v \in Connection /\ v.pcb = s.pcb /\ v.snd = s.snd /\ v.closed = s.closed
  BY ZenonT(60) DEF Connection
<1>5. PICK p \in {"reset", "closing", v.pcb}, q \in {v.snd, << >>} :
         /\ UvlTcpClose(v) = [v EXCEPT !.pcb = p, !.snd = q, !.closed = TRUE,
                                       !.writes = << >>, !.readCb = FALSE,
                                       !.handles = "closing"]
         /\ ~ v.closed => p \in {"reset", "closing"}
         /\ v.closed => p = v.pcb
  <2> HIDE DEF v
  <2> QED  BY <1>4, UvlTcpCloseEffect, Zenon
<1>6. UvlTcpClose(v) = Shut(s, i, n, p, q)
  BY <1>5 DEF Shut
<1>7. /\ p \in {"reset", "closing", s.pcb} /\ q \in {s.snd, << >>}
      /\ ~ s.closed => p \in {"reset", "closing"}
      /\ s.closed => p = s.pcb
  BY <1>4, <1>5
<1>8. IClose(s) = Shut(s, i, n, p, q)
  BY <1>3, <1>6, Zenon
<1> HIDE DEF t, v
<1> QED  BY <1>1, <1>7, <1>8

\* TcpConnection::kill, of a connection that is there.  Only a gateway_close in
\* the SOCKS5 handshake meets the proxy's socket before it exists.
LEMMA KillEffect ==
    ASSUME NEW s, Steady(s), ~ s.killed, s.kind # "fake", s.pcb # "none", s.fault = "none",
           s.kind = "socks5" => s.ptcp = "ready" \/ (s.released /\ s.handles = "freed")
    PROVE  Control(Kill(s)) /\ Closes(s, Kill(s)) /\ Kill(s).handles # "open"
<1> DEFINE t == [s EXCEPT !.killed = TRUE, !.readCb = FALSE]
           b == s.ptcp = "connecting" \/ s.pOut # << >>
           g == PtcpClose(t)
           u == Kill(s)
<1>1. s \in Connection /\ Life(s) /\ Proxy(s) /\ Base(s)
  BY DEF Steady
<1>2. u = IClose(g)
  BY Zenon DEF Kill
<1>3. CASE s.kind = "socks5" /\ s.ptcp # "ready"
  <2>1. s.released /\ s.handles = "freed" /\ s.iclosing /\ s.ptcp \notin {"ready", "closed"}
    BY <1>1, <1>3 DEF Life, Proxy
  <2>2. g = [s EXCEPT !.killed = TRUE, !.readCb = FALSE, !.fault = "null proxy socket"]
    BY <1>1, <2>1, <1>3, Zenon DEF PtcpClose, Fault, Connection
  <2> HIDE DEF g
  <2>3. g \in Connection /\ g.released /\ g.handles = "freed" /\ g.iclosing /\ Base(g)
    <3>1. "null proxy socket" \in Faults
      BY DEF Faults
    <3>2. /\ g \in Connection /\ g.released /\ g.handles = "freed" /\ g.iclosing
          /\ g.count = s.count /\ g.timer = s.timer /\ g.selfClosed = s.selfClosed
      BY <1>1, <2>1, <2>2, <3>1, ZenonT(60) DEF Connection
    <3> QED  BY <1>1, <2>1, <3>2 DEF Base
  <2> HIDE DEF u
  <2>4. PICK i \in BOOLEAN, n \in Int :
           u = [g EXCEPT !.inSet = i, !.count = n] /\ (g.released => n <= 0)
    BY <1>2, <2>3, ICloseAgain, Zenon
  <2>5. u = [s EXCEPT !.killed = TRUE, !.readCb = FALSE, !.fault = "null proxy socket",
                      !.inSet = i, !.count = n]
    BY <2>2, <2>4
  <2>6. /\ u \in Connection /\ u.killed /\ ~ u.readCb /\ u.fault = "null proxy socket"
        /\ u.inSet = i /\ u.count = n
        /\ u.kind = s.kind /\ u.pcb = s.pcb /\ u.wnd = s.wnd /\ u.snd = s.snd /\ u.buf = s.buf
        /\ u.closed = s.closed /\ u.writes = s.writes /\ u.handles = s.handles
        /\ u.iclosing = s.iclosing /\ u.ptcp = s.ptcp /\ u.pReading = s.pReading
        /\ u.pOut = s.pOut /\ u.released = s.released /\ u.selfClosed = s.selfClosed
        /\ u.timer = s.timer
    <3>1. u \in Connection
      BY <2>3, <2>4, SetInSet, SetCount, Zenon
    <3>2. /\ u.killed /\ ~ u.readCb /\ u.fault = "null proxy socket"
          /\ u.inSet = i /\ u.count = n
      BY <1>1, <2>5, Zenon DEF Connection
    <3>3. /\ u.kind = s.kind /\ u.pcb = s.pcb /\ u.wnd = s.wnd /\ u.snd = s.snd
          /\ u.buf = s.buf /\ u.closed = s.closed /\ u.writes = s.writes
          /\ u.handles = s.handles
      BY <1>1, <2>5, Zenon DEF Connection
    <3>4. /\ u.iclosing = s.iclosing /\ u.ptcp = s.ptcp /\ u.pReading = s.pReading
          /\ u.pOut = s.pOut /\ u.released = s.released /\ u.selfClosed = s.selfClosed
          /\ u.timer = s.timer
      BY <1>1, <2>5, Zenon DEF Connection
    <3> QED  BY <3>1, <3>2, <3>3, <3>4, Zenon
  <2>7. Life(u)
    BY <1>1, <2>1, <2>6, Zenon DEF Life
  <2>8. Proxy(u)
    BY <1>1, <2>1, <2>6, Zenon DEF Proxy
  <2>9. Base(u)
    BY <1>1, <2>1, <2>3, <2>4, <2>6, ZenonT(60) DEF Base
  <2>10. Faultless(u)
    BY <1>3, <2>1, <2>6, Zenon DEF Faultless
  <2>11. Closes(s, u)
    BY <1>1, <2>1, <2>6, Zenon DEF Closes, Life
  <2> QED  BY <2>1, <2>6, <2>7, <2>8, <2>9, <2>10, <2>11, Zenon DEF Control, Steady, u
<1>4. CASE ~ (s.kind = "socks5" /\ s.ptcp # "ready")
  <2>1. g = [s EXCEPT !.killed = TRUE, !.readCb = FALSE, !.ptcp = "closed",
                      !.pReading = FALSE, !.cancelled = b]
    BY <1>1, <1>4, Zenon DEF PtcpClose, Connection
  <2> HIDE DEF g, u, b
  <2>2. /\ g \in Connection
        /\ g.released = s.released /\ g.handles = s.handles /\ g.iclosing = s.iclosing
        /\ g.closed = s.closed /\ g.pcb = s.pcb /\ g.snd = s.snd /\ g.count = s.count
        /\ g.inSet = s.inSet /\ g.timer = s.timer /\ g.selfClosed = s.selfClosed
    <3>1. g \in Connection
      <4>1. b \in BOOLEAN
        BY Zenon DEF b
      <4> QED  BY <1>1, <2>1, <4>1, SetKilled, SetReadCb, SetPtcp, SetPReading, SetCancelled, Zenon
    <3>2. /\ g.released = s.released /\ g.handles = s.handles /\ g.iclosing = s.iclosing
          /\ g.closed = s.closed /\ g.pcb = s.pcb
      BY <1>1, <2>1, Zenon DEF Connection
    <3>3. /\ g.snd = s.snd /\ g.count = s.count
          /\ g.inSet = s.inSet /\ g.timer = s.timer /\ g.selfClosed = s.selfClosed
      BY <1>1, <2>1, Zenon DEF Connection
    <3> QED  BY <3>1, <3>2, <3>3
  <2>5. Base(g)
    BY <1>1, <2>2 DEF Base
  <2>3. CASE s.iclosing
    <3>0. PICK i \in BOOLEAN, n \in Int :
             /\ u = [g EXCEPT !.inSet = i, !.count = n]
             /\ g.released => n <= 0
             /\ ~ g.released => n = g.count
      BY <1>2, <2>2, <2>3, <2>5, ICloseAgain, Zenon
    <3>1. /\ s.released => n <= 0
          /\ ~ s.released => n = s.count
      BY <2>2, <3>0
    <3>2. u = [s EXCEPT !.killed = TRUE, !.readCb = FALSE, !.ptcp = "closed",
                        !.pReading = FALSE, !.cancelled = b, !.inSet = i, !.count = n]
      BY <2>1, <3>0
    <3>9. u \in Connection
      BY <2>2, <3>0, SetInSet, SetCount, Zenon
    <3>3. /\ u.killed /\ ~ u.readCb /\ u.fault = s.fault
          /\ u.inSet = i /\ u.count = n
          /\ u.kind = s.kind /\ u.pcb = s.pcb /\ u.wnd = s.wnd /\ u.snd = s.snd /\ u.buf = s.buf
          /\ u.closed = s.closed /\ u.writes = s.writes /\ u.handles = s.handles
          /\ u.iclosing = s.iclosing /\ u.ptcp = "closed" /\ ~ u.pReading
          /\ u.pOut = s.pOut /\ u.released = s.released /\ u.selfClosed = s.selfClosed
          /\ u.timer = s.timer
      BY <1>1, <3>2, ZenonT(60) DEF Connection
    <3>4. s.handles \in {"closing", "freed"} /\ s.closed
      BY <1>1, <2>3 DEF Life
    <3>5. Life(u)
      BY <1>1, <3>3, <3>4 DEF Life
    <3>6. Proxy(u)
      BY <1>1, <3>3 DEF Proxy
    <3>7. Base(u)
      BY <1>1, <3>1, <3>3, <3>4 DEF Base
    <3>8. Closes(s, u)
      BY <1>1, <3>3, <3>4, <3>9 DEF Closes, Life
    <3> QED  BY <3>3, <3>4, <3>5, <3>6, <3>7, <3>8, <3>9 DEF Control, Steady, Faultless, u
  <2>4. CASE ~ s.iclosing
    <3>0. PICK i \in BOOLEAN, n \in Int, p \in {"reset", "closing", g.pcb}, q \in {g.snd, << >>} :
             /\ u = Shut(g, i, n, p, q)
             /\ g.released => n <= 0
             /\ ~ g.released => n = g.count
             /\ ~ g.closed => p \in {"reset", "closing"}
             /\ g.closed => p = g.pcb
      <4>1. g \in Connection /\ ~ g.iclosing
        BY <2>2, <2>4
      <4> QED  BY <1>2, <2>5, <4>1, ICloseFirst
    <3>1. /\ s.released => n <= 0
          /\ ~ s.released => n = s.count
          /\ ~ s.closed => p \in {"reset", "closing"}
          /\ s.closed => p = s.pcb
          /\ q \in {s.snd, << >>}
      BY <2>2, <3>0
    <3>2. u = [s EXCEPT !.killed = TRUE, !.readCb = FALSE, !.ptcp = "closed",
                        !.pReading = FALSE, !.cancelled = b, !.inSet = i, !.count = n,
                        !.iclosing = TRUE, !.pcb = p, !.snd = q, !.closed = TRUE,
                        !.writes = << >>, !.handles = "closing"]
      BY <2>1, <3>0, ZenonT(60) DEF Shut
    <3>3. p \in {"closing", "reset", "gone"}
      BY <1>1, <3>1 DEF Life
    <3>9. u \in Connection
      <4>1. q \in Seq(Nat)
        BY <1>1, <3>1, Empties, Zenon DEF Connection
      <4> QED  BY <2>2, <3>0, <3>3, <4>1, ShutType
    <3>4. /\ u.killed /\ ~ u.readCb /\ u.fault = s.fault
          /\ u.inSet = i /\ u.count = n
          /\ u.kind = s.kind /\ u.pcb = p /\ u.wnd = s.wnd /\ u.snd = q /\ u.buf = s.buf
          /\ u.closed /\ u.writes = << >> /\ u.handles = "closing"
          /\ u.iclosing /\ u.ptcp = "closed" /\ ~ u.pReading
          /\ u.pOut = s.pOut /\ u.released = s.released /\ u.selfClosed = s.selfClosed
          /\ u.timer = s.timer
      BY <1>1, <3>1, <3>2, <3>3, ZenonT(60) DEF Connection
    <3>5. Life(u)
      BY <3>3, <3>4 DEF Life
    <3>6. Proxy(u)
      BY <1>1, <3>3, <3>4 DEF Proxy
    <3>7. Base(u)
      BY <1>1, <3>1, <3>4 DEF Base
    <3>8. Closes(s, u)
      BY <3>1, <3>3, <3>4, <3>9 DEF Closes
    <3> QED  BY <3>4, <3>5, <3>6, <3>7, <3>8, <3>9 DEF Control, Steady, Faultless, u
  <2> QED  BY <1>1, <2>3, <2>4, Zenon DEF Connection
<1> QED  BY <1>3, <1>4

\* A close keeps what is known of the console's bytes,
LEMMA ClosesUpstream ==
    ASSUME NEW s \in Connection, NEW u, Closes(s, u),
           NEW n \in Nat, NEW got, Upstream(s, n, got)
    PROVE  Upstream(u, n, got)
<1>1. /\ From(got, 0) /\ From(s.pOut, Len(got)) /\ Len(got) + Len(s.pOut) <= n
      /\ s.wnd \in 0 .. Wnd /\ Len(s.buf) <= Wnd
  BY DEF Upstream
<1>2. /\ u.wnd = s.wnd /\ u.buf \in {s.buf, << >>} /\ u.pOut \in {s.pOut, << >>}
      /\ u.pcb \notin {"none", "live"}
  BY DEF Closes
<1>3. Len(got) \in Nat /\ Len(s.pOut) \in Nat
  BY <1>1 DEF From
<1>4. From(u.pOut, Len(got)) /\ Len(got) + Len(u.pOut) <= n
  BY <1>1, <1>2, <1>3, FromEmpty
<1>5. Len(u.buf) <= Wnd
  BY <1>1, <1>2, FromEmpty, BridgeAssumption
<1> QED  BY <1>1, <1>2, <1>4, <1>5, Zenon DEF Upstream

\* of the requests,
LEMMA ClosesUnacked ==
    ASSUME NEW s \in Connection, NEW u, Closes(s, u), Unacked(s)
    PROVE  Unacked(u)
<1>1. /\ u.snd \in {s.snd, << >>} /\ u.writes \in {s.writes, << >>}
      /\ u.pcb \notin {"none", "live"}
  BY DEF Closes
<1>2. Len(u.snd) <= SndBuf
  BY <1>1, FromEmpty, BridgeAssumption DEF Unacked
<1> QED  BY <1>1, <1>2 DEF Unacked

\* and of the remote host's bytes.
LEMMA ClosesDownstream ==
    ASSUME NEW s \in Connection, NEW u, Closes(s, u),
           NEW n \in Nat, NEW got, NEW q, Downstream(s, n, got, q)
    PROVE  Downstream(u, n, got, q)
<1>1. /\ u.snd \in {s.snd, << >>} /\ u.writes \in {s.writes, << >>}
      /\ u.pReading => s.pReading
      /\ u.ptcp \in {s.ptcp, "closed"}
      /\ u.pcb \notin {"none", "live"}
  BY DEF Closes
<1>2. /\ From(got, 0) /\ From(s.snd, Len(got)) /\ Len(got) + Len(s.snd) <= n
      /\ s.ptcp \notin {"ready", "closed"} =>
            n = 0 /\ got = << >> /\ s.snd = << >> /\ q = << >>
      /\ s.pReading => CaughtUp(s, n, got, q)
      /\ s.writes # << >> /\ Complete(s.writes[1]) => CaughtUp(s, n, got, q)
  BY DEF Downstream
<1>3. Len(got) \in Nat /\ Len(s.snd) \in Nat
  BY <1>2 DEF From
<1>4. From(u.snd, Len(got)) /\ Len(got) + Len(u.snd) <= n
  BY <1>1, <1>2, <1>3, FromEmpty
<1>5. CaughtUp(s, n, got, q) => CaughtUp(u, n, got, q)
  BY <1>1 DEF CaughtUp
<1>6. u.ptcp \notin {"ready", "closed"} =>
            n = 0 /\ got = << >> /\ u.snd = << >> /\ q = << >>
  BY <1>1, <1>2
<1>7. u.writes # << >> /\ Complete(u.writes[1]) => CaughtUp(u, n, got, q)
  BY <1>1, <1>2, <1>5
<1>8. u.pReading => CaughtUp(u, n, got, q)
  BY <1>1, <1>2, <1>5
<1> QED  BY <1>1, <1>2, <1>4, <1>6, <1>7, <1>8 DEF Downstream

\* A close may be made in two steps.
LEMMA ClosesTwice ==
    ASSUME NEW s, NEW t, NEW u, Closes(s, t), Closes(t, u)
    PROVE  Closes(s, u)
BY DEF Closes

\* What is known of the bytes is a matter of these fields only.
SameData(s, u) ==
    /\ u.kind = s.kind /\ u.pcb = s.pcb /\ u.wnd = s.wnd /\ u.buf = s.buf
    /\ u.pOut = s.pOut /\ u.snd = s.snd /\ u.writes = s.writes
    /\ u.pReading = s.pReading /\ u.ptcp = s.ptcp

\* As the definitions say.
LEMMA SameDataKeeps ==
    ASSUME NEW s, NEW u, SameData(s, u)
    PROVE  /\ \A n, got : Upstream(s, n, got) => Upstream(u, n, got)
           /\ Unacked(s) => Unacked(u)
           /\ \A n, got, q : Downstream(s, n, got, q) => Downstream(u, n, got, q)
<1>1. \A n, got : Upstream(s, n, got) => Upstream(u, n, got)
  BY Zenon DEF SameData, Upstream
<1>2. Unacked(s) => Unacked(u)
  BY DEF SameData, Unacked
<1>3. \A n, got, q : Downstream(s, n, got, q) => Downstream(u, n, got, q)
  BY DEF SameData, Downstream, CaughtUp
<1> QED  BY <1>1, <1>2, <1>3

\* uvl_client_freed, after tcp_close or after the pcb is gone.  A reader is told
\* and kills the connection; one that is not reading finds out when it next does.
LEMMA FreedEffect ==
    ASSUME NEW s, Control(s), s.pcb = "live", s.fault = "none", NEW t \in {s, TcpClose(s)}
    PROVE  Control(ClientFreed(t)) /\ Closes(s, ClientFreed(t))
<1> DEFINE d == Detach(t)
<1>1. /\ s \in Connection /\ Life(s) /\ Proxy(s) /\ Base(s) /\ s.handles = "open" /\ s.inSet
      /\ ~ s.iclosing /\ ~ s.killed /\ ~ s.closed /\ ~ s.released
  <2>1. s \in Connection /\ Life(s) /\ Proxy(s) /\ Base(s)
    BY DEF Control, Steady
  <2>2. ~ s.closed
    BY <2>1 DEF Life
  <2>3. s.handles = "open" /\ ~ s.iclosing /\ ~ s.killed
    BY <2>1, <2>2, Zenon DEF Life, Connection
  <2> QED  BY <2>1, <2>2, <2>3 DEF Control, Base
<1>2. PICK p \in {"gone", "closing", "reset"}, q \in {s.snd, << >>} :
         d = [s EXCEPT !.pcb = p, !.snd = q, !.closed = TRUE, !.readCb = FALSE]
  <2>1. CASE t = s
    <3>1. d = [s EXCEPT !.pcb = "gone", !.snd = s.snd, !.closed = TRUE, !.readCb = FALSE]
      BY <1>1, <2>1, Zenon DEF Detach, Connection
    <3> QED  BY <3>1
  <2>2. CASE t = TcpClose(s) /\ s.wnd # Wnd
    <3>1. d = [s EXCEPT !.pcb = "reset", !.snd = << >>, !.closed = TRUE, !.readCb = FALSE]
      BY <1>1, <2>2, Zenon DEF Detach, Connection, TcpClose
    <3> QED  BY <3>1
  <2>3. CASE t = TcpClose(s) /\ s.wnd = Wnd
    <3>1. d = [s EXCEPT !.pcb = "closing", !.snd = s.snd, !.closed = TRUE, !.readCb = FALSE]
      BY <1>1, <2>3, Zenon DEF Detach, Connection, TcpClose
    <3> QED  BY <3>1
  <2> QED  BY <2>1, <2>2, <2>3
<1>3. t.readCb = s.readCb
  BY <1>1, Zenon DEF TcpClose, Connection
<1>4. ClientFreed(t) = IF s.readCb THEN ReadEnd(d) ELSE d
  BY <1>3, Zenon DEF ClientFreed
<1> HIDE DEF d
<1>5. d \in Connection
  <2>1. q \in Seq(Nat) /\ p \in {"none", "live", "closing", "reset", "gone"}
    BY <1>1, <1>2, Empties, Zenon DEF Connection
  <2> QED  BY <1>1, <1>2, <2>1, SetPcb, SetSnd, SetClosed, SetReadCb, Zenon
<1>6. /\ d.pcb = p /\ d.snd = q /\ d.closed /\ ~ d.readCb /\ d.fault = "none"
      /\ d.kind = s.kind /\ d.wnd = s.wnd /\ d.buf = s.buf /\ d.writes = s.writes
      /\ d.handles = "open" /\ ~ d.iclosing /\ ~ d.killed /\ d.ptcp = s.ptcp
      /\ d.pReading = s.pReading /\ d.pOut = s.pOut /\ d.inSet /\ ~ d.released
      /\ d.count = s.count /\ d.selfClosed = s.selfClosed /\ d.timer = s.timer
  BY <1>1, <1>2, ZenonT(60) DEF Connection
<1>7. Steady(d)
  <2>1. Life(d)
    BY <1>2, <1>6 DEF Life
  <2>2. Proxy(d)
    BY <1>1, <1>2, <1>6 DEF Proxy
  <2>3. Base(d)
    BY <1>1, <1>6 DEF Base
  <2> QED  BY <1>5, <1>6, <2>1, <2>2, <2>3 DEF Steady, Faultless
<1>8. Closes(s, d)
  BY <1>2, <1>5, <1>6 DEF Closes
<1>9. CASE ~ s.readCb
  BY <1>4, <1>6, <1>7, <1>8, <1>9 DEF Control
<1>10. CASE s.readCb
  <2>1. s.ptcp = "ready" /\ s.kind # "fake"
    BY <1>1, <1>10 DEF Proxy
  <2>2. ClientFreed(t) = Kill(d)
    BY <1>4, <1>6, <1>10, <2>1 DEF ReadEnd
  <2>3. d.pcb # "none"
    BY <1>2, <1>6
  <2>4. Control(Kill(d)) /\ Closes(d, Kill(d))
    BY <1>6, <1>7, <2>1, <2>3, KillEffect
  <2> QED  BY <1>8, <2>2, <2>4, ClosesTwice
<1> QED  BY <1>1, <1>9, <1>10, Zenon DEF Connection

\* IConnection::read, when nothing is in flight to the proxy.  The assertion on
\* uvl_read_start holds.
LEMMA ReadEffect ==
    ASSUME NEW s, Control(s), s.fault = "none", ~ s.readCb, s.ptcp = "ready", s.pOut = << >>
    PROVE  /\ Control(Read(s))
           /\ s.closed => Closes(s, Read(s))
           /\ ~ s.closed => SameData(s, Read(s))
<1> DEFINE u == Read(s)
<1>1. /\ s \in Connection /\ Life(s) /\ Proxy(s) /\ Base(s) /\ Steady(s)
      /\ s.kind # "fake" /\ s.pcb # "none"
  BY DEF Control, Steady, Proxy
<1>2. CASE ~ s.closed
  <2>1. u = [s EXCEPT !.readCb = TRUE, !.asyncR = TRUE]
    BY <1>2 DEF Read
  <2> HIDE DEF u
  <2>2. u \in Connection
    BY <1>1, <2>1, ZenonT(60) DEF Connection
  <2>3. /\ u.readCb /\ u.fault = "none" /\ SameData(s, u) /\ u.closed = s.closed
        /\ u.handles = s.handles /\ u.iclosing = s.iclosing /\ u.killed = s.killed
        /\ u.inSet = s.inSet /\ u.released = s.released
        /\ u.count = s.count /\ u.selfClosed = s.selfClosed /\ u.timer = s.timer
    BY <1>1, <2>1, Zenon DEF Connection, SameData
  <2>4. Life(u)
    BY <1>1, <2>3 DEF Life, SameData
  <2>5. Proxy(u)
    BY <1>1, <1>2, <2>3 DEF Proxy, SameData
  <2>6. Base(u)
    BY <1>1, <2>3 DEF Base
  <2> QED  BY <1>2, <2>2, <2>3, <2>4, <2>5, <2>6 DEF Control, Steady, Faultless, SameData, u
<1>3. CASE s.closed
  <2>1. u = IF s.iclosing THEN s ELSE Kill(s)
    BY <1>1, <1>3 DEF Read, ReadEnd
  <2>2. Closes(s, s)
    BY <1>1, <1>3 DEF Closes, Life
  <2>3. ~ s.iclosing => Control(Kill(s)) /\ Closes(s, Kill(s))
    BY <1>1, KillEffect DEF Life
  <2> HIDE DEF u
  <2> QED  BY <1>3, <2>1, <2>2, <2>3 DEF u
<1> QED  BY <1>1, <1>2, <1>3, Zenon DEF Connection

-----------------------------------------------------------------------------
(* The steps.                                                              *)

Others == UNCHANGED <<cSent, cGot, sock, rSent, rGot>>

\* A step that closes.
LEMMA CloseStep ==
    ASSUME IInv, Control(c'), Closes(c, c'), Others
    PROVE  IInv'
<1>1. /\ c \in Connection /\ cSent \in Nat /\ rSent \in Nat /\ c'.kind = c.kind
      /\ Upstream(c, cSent, rGot) /\ Unacked(c)
      /\ c.kind # "fake" => Downstream(c, rSent, cGot, sock)
  BY DEF IInv, Control, Steady, Closes
<1>2. Upstream(c', cSent, rGot) /\ Unacked(c')
  BY <1>1, ClosesUpstream, ClosesUnacked
<1>3. c.kind # "fake" => Downstream(c', rSent, cGot, sock)
  BY <1>1, ClosesDownstream
<1>4. /\ cSent' = cSent /\ cGot' = cGot /\ sock' = sock /\ rSent' = rSent /\ rGot' = rGot
  BY DEF Others
<1> QED  BY <1>1, <1>2, <1>3, <1>4 DEF IInv

\* A step that moves no byte.
LEMMA SameStep ==
    ASSUME IInv, Control(c'), SameData(c, c'), Others
    PROVE  IInv'
<1>1. /\ c'.kind = c.kind /\ Upstream(c, cSent, rGot) /\ Unacked(c)
      /\ c.kind # "fake" => Downstream(c, rSent, cGot, sock)
  BY DEF IInv, SameData
<1>2. Upstream(c', cSent, rGot) /\ Unacked(c')
  BY <1>1, SameDataKeeps
<1>3. c.kind # "fake" => Downstream(c', rSent, cGot, sock)
  BY <1>1, SameDataKeeps
<1>4. /\ cSent' = cSent /\ cGot' = cGot /\ sock' = sock /\ rSent' = rSent /\ rGot' = rGot
  BY DEF Others
<1> QED  BY <1>1, <1>2, <1>3, <1>4 DEF IInv

\* The pcb is lost.
LEMMA PcbErrorStep ==
    ASSUME IInv, PcbError
    PROVE  IInv'
<1>1. Control(c) /\ c.fault = "none" /\ c.pcb = "live" /\ c' = ClientFreed(c) /\ Others
  BY DEF PcbError, Running, IInv, Others
<1>2. Control(c') /\ Closes(c, c')
  BY <1>1, FreedEffect
<1> QED  BY <1>1, <1>2, CloseStep

\* The proxy ends or fails.
LEMMA ProxyKillStep ==
    ASSUME IInv, c.fault = "none", c.ptcp = "ready", c' = Kill(c), Others
    PROVE  IInv'
<1>1. /\ Control(c) /\ Steady(c) /\ c.kind # "fake" /\ c.pcb # "none"
  BY DEF IInv, Control, Steady, Proxy
<1>2. CASE c.killed
  BY <1>1, <1>2 DEF Steady, Proxy
<1>3. CASE ~ c.killed
  <2>1. Control(c') /\ Closes(c, c')
    BY <1>1, <1>3, KillEffect
  <2> QED  BY <2>1, CloseStep
<1> QED  BY <1>2, <1>3, SMTT(30)

\* The proxy's connect fails.
LEMMA ProxyRefuseStep ==
    ASSUME IInv, ProxyRefuse
    PROVE  IInv'
<1> DEFINE u == [c EXCEPT !.ptcp = "failed"]
<1>1. /\ c.fault = "none" /\ c.ptcp \in {"connecting", "greeting", "request"} /\ Others
      /\ c' = IF c.kind = "direct" THEN Kill(u) ELSE u
  BY DEF ProxyRefuse, Running, Others
<1>2. /\ Control(c) /\ Steady(c) /\ c \in Connection /\ Life(c) /\ Proxy(c) /\ Base(c)
      /\ c.kind # "fake" /\ c.pcb # "none" /\ ~ c.killed
  BY <1>1 DEF IInv, Control, Steady, Proxy
<1>3. u \in Connection
  BY <1>2, ZenonT(60) DEF Connection
<1>4. /\ u.ptcp = "failed" /\ u.kind = c.kind /\ u.pcb = c.pcb /\ u.wnd = c.wnd
      /\ u.buf = c.buf /\ u.pOut = c.pOut /\ u.snd = c.snd /\ u.writes = c.writes
      /\ u.pReading = c.pReading /\ u.readCb = c.readCb /\ u.fault = "none"
      /\ u.closed = c.closed
      /\ u.handles = c.handles /\ u.iclosing = c.iclosing /\ u.killed = c.killed
      /\ u.inSet = c.inSet /\ u.released = c.released
      /\ u.count = c.count /\ u.selfClosed = c.selfClosed /\ u.timer = c.timer
  BY <1>1, <1>2, Zenon DEF Connection
<1> HIDE DEF u
<1>5. Life(u) /\ Base(u)
  BY <1>2, <1>4 DEF Life, Base
<1>6. Proxy(u)
  BY <1>1, <1>2, <1>4 DEF Proxy
<1>7. Control(u) /\ Steady(u)
  BY <1>2, <1>3, <1>4, <1>5, <1>6, Zenon DEF Control, Steady, Faultless
<1>8. Upstream(u, cSent, rGot) /\ Unacked(u)
  BY <1>4, Zenon DEF IInv, Upstream, Unacked
<1>9. Downstream(u, rSent, cGot, sock)
  BY <1>1, <1>2, <1>4 DEF IInv, Downstream, CaughtUp
<1>10. cSent \in Nat /\ rSent \in Nat
  BY DEF IInv
<1>11. CASE c.kind = "direct"
  <2>1. c' = Kill(u)
    BY <1>1, <1>11
  <2>2. Control(c') /\ Closes(u, c')
    BY <1>2, <1>4, <1>7, <1>11, <2>1, KillEffect
  <2>3. Upstream(c', cSent, rGot) /\ Unacked(c') /\ Downstream(c', rSent, cGot, sock)
    BY <1>3, <1>8, <1>9, <1>10, <2>2, ClosesUpstream, ClosesUnacked, ClosesDownstream
  <2> QED  BY <1>1, <2>2, <2>3, Zenon DEF IInv, Others
<1>12. CASE c.kind # "direct"
  <2>1. c' = u
    BY <1>1, <1>12
  <2> QED  BY <1>1, <1>7, <1>8, <1>9, <2>1, Zenon DEF IInv, Others
<1> QED  BY <1>11, <1>12

\* The write in flight fails, and is none when the connection is killed.
LEMMA ProxyWriteErrorStep ==
    ASSUME IInv, c.fault = "none", c.ptcp = "ready", c.pOut # << >>,
           c' = Kill([c EXCEPT !.pOut = << >>]), Others
    PROVE  IInv'
<1> DEFINE t == [c EXCEPT !.pOut = << >>]
<1>1. /\ Control(c) /\ Steady(c) /\ c \in Connection /\ Life(c) /\ Proxy(c) /\ Base(c)
      /\ c.kind # "fake" /\ c.pcb # "none" /\ ~ c.readCb
  BY DEF IInv, Control, Steady, Proxy
<1>2. t \in Connection
  BY <1>1, Empties, SetPOut, Zenon
<1>3. /\ t.pOut = << >> /\ t.kind = c.kind /\ t.pcb = c.pcb /\ t.wnd = c.wnd
      /\ t.buf = c.buf /\ t.snd = c.snd /\ t.writes = c.writes
      /\ t.pReading = c.pReading /\ t.ptcp = c.ptcp
      /\ t.readCb = c.readCb /\ t.fault = "none" /\ t.closed = c.closed
      /\ t.handles = c.handles /\ t.iclosing = c.iclosing /\ t.killed = c.killed
      /\ t.inSet = c.inSet /\ t.released = c.released
      /\ t.count = c.count /\ t.selfClosed = c.selfClosed /\ t.timer = c.timer
  BY <1>1, Zenon DEF Connection
<1>4. c' = Kill(t) /\ ~ t.killed
  BY <1>1, <1>3 DEF Proxy
<1> HIDE DEF t
<1>5. Steady(t)
  <2>1. Life(t) /\ Base(t)
    BY <1>1, <1>3, SMTT(30) DEF Life, Base
  <2>2. Proxy(t)
    BY <1>1, <1>3 DEF Proxy
  <2> QED  BY <1>2, <1>3, <2>1, <2>2, ZenonT(60) DEF Steady, Faultless
<1>6. Control(c') /\ Closes(t, c')
  BY <1>1, <1>3, <1>4, <1>5, KillEffect
<1>7. Closes(c, c')
  BY <1>3, <1>6 DEF Closes
<1> QED  BY <1>6, <1>7, CloseStep

\* The handles are closed: onClosed kills what gateway_close began to close.
LEMMA HandlesClosedStep ==
    ASSUME IInv, HandlesClosed
    PROVE  IInv'
<1> DEFINE t == [c EXCEPT !.handles = "freed", !.buf = << >>, !.writes = << >>, !.readCb = FALSE]
<1>1. /\ c.fault = "none" /\ c.handles = "closing" /\ Others
      /\ c' = IF t.kind = "fake" THEN t ELSE Kill(t)
  BY DEF HandlesClosed, Running, Others, OnClosed
<1>2. /\ Control(c) /\ Steady(c) /\ c \in Connection /\ Life(c) /\ Proxy(c) /\ Base(c)
  BY DEF IInv, Control, Steady
<1>3. c.pcb \notin {"none", "live"}
  BY <1>1, <1>2 DEF Life
<1>4. t \in Connection
  BY <1>2, Empties, ZenonT(60) DEF Connection
<1>5. /\ t.handles = "freed" /\ t.buf = << >> /\ t.writes = << >> /\ ~ t.readCb
      /\ t.fault = "none" /\ t.kind = c.kind /\ t.pcb = c.pcb /\ t.wnd = c.wnd
      /\ t.snd = c.snd /\ t.closed = c.closed /\ t.iclosing = c.iclosing
      /\ t.killed = c.killed /\ t.ptcp = c.ptcp /\ t.pReading = c.pReading
      /\ t.pOut = c.pOut /\ t.inSet = c.inSet /\ t.released = c.released
      /\ t.count = c.count /\ t.selfClosed = c.selfClosed /\ t.timer = c.timer
  BY <1>1, <1>2, Zenon DEF Connection
<1> HIDE DEF t
<1>6. Life(t) /\ Base(t)
  BY <1>1, <1>2, <1>5 DEF Life, Base
<1>7. Proxy(t)
  <2>1. Len(t.writes) <= 1
    BY <1>5, FromEmpty
  <2> QED  BY <1>1, <1>2, <1>5, <2>1 DEF Proxy
<1>8. Steady(t)
  BY <1>4, <1>5, <1>6, <1>7 DEF Steady, Faultless
<1>9. Closes(c, t)
  BY <1>3, <1>4, <1>5 DEF Closes
<1>10. Control(c') /\ Closes(c, c')
  <2>1. CASE t.kind = "fake"
    BY <1>1, <1>5, <1>8, <1>9, <2>1 DEF Control
  <2>2. CASE t.kind # "fake" /\ t.killed
    <3>1. c' = t
      BY <1>1, <2>2 DEF Kill
    <3> QED  BY <1>5, <1>8, <1>9, <2>2, <3>1 DEF Control
  <2>3. CASE t.kind # "fake" /\ ~ t.killed
    <3>1. c.released /\ c' = Kill(t)
      BY <1>1, <1>2, <1>5, <2>3 DEF Life
    <3>2. Control(Kill(t)) /\ Closes(t, Kill(t))
      BY <1>3, <1>5, <1>8, <2>3, <3>1, KillEffect, ZenonT(60)
    <3> QED  BY <1>9, <3>1, <3>2, ClosesTwice
  <2> QED  BY <2>1, <2>2, <2>3
<1> QED  BY <1>1, <1>10, CloseStep

\* lwIP finishes with a closed pcb.
LEMMA LwipClosingStep ==
    ASSUME IInv, NEW lost \in BOOLEAN, LwipClosing(lost)
    PROVE  IInv'
<1> DEFINE p == IF lost THEN "reset" ELSE "gone"
           u == [c EXCEPT !.pcb = p, !.snd = << >>]
<1>1. /\ c.fault = "none" /\ c.pcb = "closing" /\ c' = u
      /\ cGot' = IF lost THEN cGot ELSE cGot \o c.snd
      /\ UNCHANGED <<cSent, sock, rSent, rGot>>
  BY DEF LwipClosing, Running
<1>2. /\ Control(c) /\ Steady(c) /\ c \in Connection /\ Life(c) /\ Proxy(c) /\ Base(c)
      /\ Upstream(c, cSent, rGot) /\ Unacked(c)
      /\ cSent \in 0 .. CMax /\ rSent \in 0 .. RMax /\ cSent \in Nat /\ rSent \in Nat
      /\ cGot \in Seq(Nat) /\ sock \in Seq(Nat) /\ rGot \in Seq(Nat)
  BY DEF IInv, Control, Steady
<1>3. p \in {"reset", "gone"}
  OBVIOUS
<1> HIDE DEF p
<1>4. u \in Connection
  BY <1>2, <1>3, Empties, ZenonT(60) DEF Connection
<1>5. /\ u.pcb = p /\ u.snd = << >> /\ u.kind = c.kind /\ u.wnd = c.wnd
      /\ u.buf = c.buf /\ u.pOut = c.pOut /\ u.writes = c.writes
      /\ u.pReading = c.pReading /\ u.readCb = c.readCb /\ u.fault = "none"
      /\ u.closed = c.closed /\ u.ptcp = c.ptcp
      /\ u.handles = c.handles /\ u.iclosing = c.iclosing /\ u.killed = c.killed
      /\ u.inSet = c.inSet /\ u.released = c.released
      /\ u.count = c.count /\ u.selfClosed = c.selfClosed /\ u.timer = c.timer
  BY <1>1, <1>2, Zenon DEF Connection
<1> HIDE DEF u
<1>6. Life(u) /\ Base(u)
  BY <1>1, <1>2, <1>3, <1>5 DEF Life, Base
<1>7. Proxy(u)
  BY <1>1, <1>2, <1>3, <1>5 DEF Proxy
<1>8. Control(u)
  BY <1>2, <1>4, <1>5, <1>6, <1>7, Zenon DEF Control, Steady, Faultless
<1>9. Closes(c, u)
  BY <1>3, <1>4, <1>5 DEF Closes
<1>10. Upstream(u, cSent, rGot) /\ Unacked(u)
  BY <1>2, <1>9, ClosesUpstream, ClosesUnacked
<1>11. cGot' \in Seq(Nat) /\ (c.kind # "fake" => Downstream(u, rSent, cGot', sock))
  <2>1. c.kind # "fake" => Downstream(c, rSent, cGot, sock) /\ Downstream(u, rSent, cGot, sock)
    BY <1>2, <1>9, ClosesDownstream DEF IInv
  <2>2. CASE lost
    BY <1>1, <1>2, <2>1, <2>2
  <2>3. CASE ~ lost
    <3>1. cGot' = cGot \o c.snd /\ cGot' \in Seq(Nat)
      <4>1. c.snd \in Seq(Nat)
        BY <1>2, Zenon DEF Connection
      <4>2. cGot \in Seq(Nat)
        BY <1>2
      <4>3. cGot \o c.snd \in Seq(Nat)
        BY <4>1, <4>2
      <4>4. cGot' = cGot \o c.snd
        BY <1>1, <2>3
      <4> QED  BY <4>3, <4>4
    <3>2. ASSUME c.kind # "fake"
          PROVE  Downstream(u, rSent, cGot', sock)
      <4>1. /\ From(cGot, 0) /\ From(c.snd, Len(cGot)) /\ Len(cGot) + Len(c.snd) <= rSent
            /\ c.ptcp \notin {"ready", "closed"} =>
                  rSent = 0 /\ cGot = << >> /\ c.snd = << >> /\ sock = << >>
            /\ c.pReading => CaughtUp(c, rSent, cGot, sock)
            /\ c.writes # << >> /\ Complete(c.writes[1]) => CaughtUp(c, rSent, cGot, sock)
        BY <2>1, <3>2 DEF Downstream
      <4>2. Len(cGot) \in Nat /\ Len(c.snd) \in Nat /\ 0 + Len(cGot) = Len(cGot)
        BY <4>1 DEF From
      <4>3. From(cGot', 0) /\ Len(cGot') = Len(cGot) + Len(c.snd)
        BY <3>1, <4>1, <4>2, FromConcat
      <4>4. c.snd = << >> => cGot' = cGot
        BY <1>2, <3>1
      <4>5. CaughtUp(c, rSent, cGot, sock) => CaughtUp(u, rSent, cGot', sock)
        BY <1>5, <4>4 DEF CaughtUp
      <4>6. From(u.snd, Len(cGot')) /\ Len(cGot') + Len(u.snd) <= rSent
        BY <1>5, <4>1, <4>2, <4>3, FromEmpty
      <4> QED  BY <1>3, <1>5, <4>1, <4>3, <4>4, <4>5, <4>6 DEF Downstream
    <3> QED  BY <3>1, <3>2
  <2> QED  BY <2>2, <2>3
<1> QED  BY <1>1, <1>2, <1>5, <1>8, <1>10, <1>11 DEF IInv

\* The base's timer is closed.
LEMMA TimerClosedStep ==
    ASSUME IInv, TimerClosed
    PROVE  IInv'
<1> DEFINE u == [c EXCEPT !.timer = "closed", !.selfClosed = c.selfClosed + 1]
<1>1. c.fault = "none" /\ c.timer = "closing" /\ c \in Connection /\ Others
  BY DEF TimerClosed, Running, Others, IInv, Control, Steady
<1>2. c' = u
  BY <1>1, Zenon DEF TimerClosed, SelfClose, Connection
<1>3. Control(c) /\ Steady(c) /\ Life(c) /\ Proxy(c) /\ Base(c)
  BY DEF IInv, Control, Steady
<1>4. u \in Connection
  <2>1. c.selfClosed \in Int
    BY <1>1, Zenon DEF Connection
  <2>2. c.selfClosed + 1 \in Int
    BY <2>1
  <2> QED  BY <1>1, <2>2, Zenon DEF Connection
<1>5. /\ u.timer = "closed" /\ u.selfClosed = c.selfClosed + 1 /\ SameData(c, u)
      /\ u.readCb = c.readCb /\ u.fault = "none" /\ u.closed = c.closed
      /\ u.handles = c.handles /\ u.iclosing = c.iclosing /\ u.killed = c.killed
      /\ u.inSet = c.inSet /\ u.released = c.released /\ u.count = c.count
  BY <1>1, ZenonT(60) DEF Connection, SameData
<1> HIDE DEF u
<1>6. Life(u) /\ Proxy(u)
  BY <1>1, <1>3, <1>5 DEF Life, Proxy, SameData
<1>7. Base(u)
  <2>1. c.selfClosed \in 0 .. 1 /\ c.released
    BY <1>1, <1>3 DEF Base
  <2>2. u.selfClosed \in 0 .. 2
    BY <1>5, <2>1
  <2> QED  BY <1>3, <1>5, <2>1, <2>2 DEF Base
<1>8. Control(u)
  BY <1>3, <1>4, <1>5, <1>6, <1>7, Zenon DEF Control, Steady, Faultless, SameData
<1> QED  BY <1>1, <1>2, <1>5, <1>8, SameStep

\* The remote host sends.
LEMMA RemoteSendsStep ==
    ASSUME IInv, RemoteSends
    PROVE  IInv'
<1>1. /\ c.ptcp = "ready" /\ rSent < RMax /\ rSent' = rSent + 1
      /\ sock' = Append(sock, rSent + 1)
      /\ c' = c /\ cSent' = cSent /\ cGot' = cGot /\ rGot' = rGot
  BY DEF RemoteSends
<1>2. /\ rSent \in 0 .. RMax /\ rSent \in Nat /\ rSent + 1 \in 0 .. RMax
      /\ cGot \in Seq(Nat) /\ sock \in Seq(Nat)
  BY <1>1, BridgeAssumption DEF IInv
<1>3. sock' \in Seq(Nat) /\ Len(sock') = Len(sock) + 1 /\ Len(sock) \in Nat
  BY <1>1, <1>2
<1>4. ASSUME NEW a \in Int, From(sock, a), a + Len(sock) = rSent
      PROVE  From(sock', a) /\ a + Len(sock') = rSent + 1
  <2>1. \A i \in 1 .. Len(sock') : sock'[i] = a + i
    <3> SUFFICES ASSUME NEW i \in 1 .. Len(sock')
                 PROVE  sock'[i] = a + i
      OBVIOUS
    <3>1. CASE i <= Len(sock)
      BY <1>1, <1>2, <1>3, <1>4, <3>1 DEF From
    <3>2. CASE i = Len(sock) + 1
      BY <1>1, <1>2, <1>3, <1>4, <3>2
    <3> QED  BY <1>3, <3>1, <3>2
  <2> QED  BY <1>2, <1>3, <1>4, <2>1 DEF From
<1>5. ASSUME c.kind # "fake"
      PROVE  Downstream(c, rSent + 1, cGot, sock')
  <2> DEFINE w == c.writes[1]
             a == Len(cGot) + Len(c.snd)
  <2>1. /\ From(cGot, 0) /\ From(c.snd, Len(cGot)) /\ a <= rSent
        /\ c.pReading => CaughtUp(c, rSent, cGot, sock)
        /\ c.writes # << >> /\ Complete(c.writes[1]) => CaughtUp(c, rSent, cGot, sock)
        /\ c.pcb \in {"none", "live"} =>
               IF c.writes = << >> THEN From(sock, a) /\ a + Len(sock) = rSent
               ELSE Behind(w, a, rSent, sock)
    BY <1>5 DEF IInv, Downstream
  <2>2. Len(cGot) \in Nat /\ Len(c.snd) \in Nat /\ a \in Nat
    BY <2>1 DEF From
  <2>3. a <= rSent + 1
    BY <1>2, <2>1, <2>2
  <2>4. CaughtUp(c, rSent, cGot, sock) => CaughtUp(c, rSent + 1, cGot, sock')
    BY <1>4, <2>2 DEF CaughtUp
  <2>5. From(sock, a) /\ a + Len(sock) = rSent =>
            From(sock', a) /\ a + Len(sock') = rSent + 1
    BY <1>4, <2>2
  <2>6. ASSUME c.writes # << >>, Behind(w, a, rSent, sock)
        PROVE  Behind(w, a, rSent + 1, sock')
    <3>1. w \in Request
      BY <2>6, FirstRequest DEF IInv, Control, Steady, Proxy
    <3>2. a - w.sent + Len(w.data) \in Int
      BY <2>2, <3>1, SMTT(30) DEF Request
    <3> HIDE DEF w, a
    <3> QED  BY <1>4, <2>6, <3>2, SMTT(30) DEF Behind
  <2> QED  BY <1>1, <2>1, <2>3, <2>4, <2>5, <2>6, ZenonT(60) DEF Downstream
<1> QED  BY <1>1, <1>2, <1>3, <1>5 DEF IInv

\* gateway_close: the connection's count is spent at once.
LEMMA ReleaseStep ==
    ASSUME IInv, Release
    PROVE  IInv'
<1> DEFINE t == [c EXCEPT !.released = TRUE, !.count = IF c.inSet THEN 1 ELSE 0,
                          !.timer = "closing"]
<1>1. c.fault = "none" /\ ~ c.released /\ c' = (IF c.inSet THEN IClose(t) ELSE t) /\ Others
  BY DEF Release, Running, Others
<1>2. Control(c) /\ Steady(c) /\ c \in Connection /\ Life(c) /\ Proxy(c) /\ Base(c)
  BY DEF IInv, Control, Steady
<1>3. c.count = 0 /\ c.selfClosed = 0 /\ c.timer = "running"
  BY <1>1, <1>2 DEF Base
<1>4. ASSUME NEW r, NEW k \in {0, 1}, c.handles # "open",
             r = [c EXCEPT !.released = TRUE, !.count = 0, !.timer = "closing", !.selfClosed = k]
      PROVE  Control(r) /\ SameData(c, r)
  <2>1. r \in Connection
    <3>1. k \in Int /\ 0 \in Int
      OBVIOUS
    <3> QED  BY <1>2, <1>4, <3>1, ZenonT(60) DEF Connection
  <2>2. /\ r.released /\ r.count = 0 /\ r.timer = "closing" /\ r.selfClosed = k /\ SameData(c, r)
        /\ r.readCb = c.readCb /\ r.fault = "none" /\ r.closed = c.closed
        /\ r.handles = c.handles /\ r.iclosing = c.iclosing /\ r.killed = c.killed
        /\ r.inSet = c.inSet
    BY <1>1, <1>2, <1>4, Zenon DEF Connection, SameData
  <2>3. Life(r) /\ Proxy(r)
    BY <1>1, <1>2, <2>2 DEF Life, Proxy, SameData
  <2>4. Base(r)
    BY <1>2, <1>4, <2>2 DEF Base
  <2> QED  BY <1>2, <2>1, <2>2, <2>3, <2>4, Zenon DEF Control, Steady, Faultless, SameData
<1>5. CASE ~ c.inSet
  <2>1. c.handles # "open"
    BY <1>2, <1>5 DEF Control
  <2>2. c' = [c EXCEPT !.released = TRUE, !.count = 0, !.timer = "closing", !.selfClosed = 0]
    BY <1>1, <1>2, <1>3, <1>5, ZenonT(60) DEF Connection
  <2> QED  BY <1>1, <1>4, <2>1, <2>2, SameStep
<1>6. CASE c.inSet
  <2> DEFINE r == [c EXCEPT !.released = TRUE, !.count = 0, !.timer = "closing", !.selfClosed = 1]
             v == [r EXCEPT !.iclosing = TRUE]
  <2>1. RemoveConnection(t) = r
    <3>1. t = [c EXCEPT !.released = TRUE, !.count = 1, !.timer = "closing"]
      BY <1>6
    <3> HIDE DEF t
    <3>2. t.released /\ t.count = 1 /\ t.selfClosed = 0
      BY <1>2, <1>3, <3>1, Zenon DEF Connection
    <3>3. RemoveConnection(t) = SelfClose([t EXCEPT !.count = 0])
      BY <3>2 DEF RemoveConnection
    <3>4. SelfClose([t EXCEPT !.count = 0]) = [t EXCEPT !.count = 0, !.selfClosed = 1]
      <4>1. [t EXCEPT !.count = 0].selfClosed + 1 = 1
        BY <3>2
      <4> QED  BY <4>1, Zenon DEF SelfClose
    <3> QED  BY <3>1, <3>3, <3>4, Zenon
  <2>2. r.iclosing = c.iclosing
    BY <1>2, Zenon DEF Connection
  <2>3. c' = IF c.iclosing THEN r ELSE UvlTcpClose(v)
    BY <1>1, <1>6, <2>1, <2>2, Zenon DEF IClose
  <2>4. CASE c.iclosing
    <3>1. c.handles # "open"
      BY <1>2, <2>4 DEF Life
    <3>2. c' = r
      BY <2>3, <2>4
    <3> QED  BY <1>1, <1>4, <3>1, <3>2, SameStep, SMTT(30)
  <2>5. CASE ~ c.iclosing
    <3>1. v \in Connection /\ v.pcb = c.pcb /\ v.snd = c.snd /\ v.closed = c.closed
      <4>1. 0 \in Int /\ 1 \in Int
        OBVIOUS
      <4>2. r \in Connection /\ r.pcb = c.pcb /\ r.snd = c.snd /\ r.closed = c.closed
        BY <1>2, <4>1, ZenonT(60) DEF Connection
      <4> HIDE DEF r
      <4> QED  BY <4>2, Zenon DEF Connection
    <3>2. v = [c EXCEPT !.released = TRUE, !.count = 0, !.timer = "closing", !.selfClosed = 1,
                        !.iclosing = TRUE]
      OBVIOUS
    <3> HIDE DEF v
    <3>3. PICK p \in {"reset", "closing", v.pcb}, q \in {v.snd, << >>} :
             /\ UvlTcpClose(v) = [v EXCEPT !.pcb = p, !.snd = q, !.closed = TRUE,
                                           !.writes = << >>, !.readCb = FALSE,
                                           !.handles = "closing"]
             /\ ~ v.closed => p \in {"reset", "closing"}
             /\ v.closed => p = v.pcb
      BY <3>1, UvlTcpCloseEffect, Zenon
    <3> DEFINE u == UvlTcpClose(v)
    <3>4. c' = u
      BY <2>3, <2>5
    <3> HIDE DEF u
    <3>5. c.handles = "open" /\ c.pcb # "none" /\ ~ c.killed
      BY <1>2, <1>6, <2>5, Zenon DEF Life, Base, Connection
    <3>6. p \in {"closing", "reset", "gone"} /\ q \in {c.snd, << >>}
      <4>1. p \in {"reset", "closing"} \/ (p = c.pcb /\ c.closed)
        BY <3>1, <3>3
      <4>2. c.closed => c.pcb \in {"closing", "reset", "gone"}
        BY <1>2 DEF Life
      <4> QED  BY <3>1, <3>3, <4>1, <4>2
    <3>7. u = [v EXCEPT !.pcb = p, !.snd = q, !.closed = TRUE, !.writes = << >>,
                        !.readCb = FALSE, !.handles = "closing"]
      BY <3>3 DEF u
    <3>8. u \in Connection
      <4>1. q \in Seq(Nat)
        BY <1>2, <3>6, Empties, Zenon DEF Connection
      <4> DEFINE x == [v EXCEPT !.pcb = p, !.snd = q, !.closed = TRUE]
      <4>2. x \in Connection
        BY <3>1, <3>6, <4>1, ZenonT(60) DEF Connection
      <4>3. u = [x EXCEPT !.writes = << >>, !.readCb = FALSE, !.handles = "closing"]
        BY <3>7
      <4> HIDE DEF x
      <4> QED  BY <4>2, <4>3, Empties, ZenonT(60) DEF Connection
    <3>9. /\ u.pcb = p /\ u.snd = q /\ u.closed /\ u.writes = << >> /\ ~ u.readCb
          /\ u.handles = "closing" /\ u.iclosing /\ u.fault = "none"
          /\ u.released /\ u.count = 0 /\ u.timer = "closing" /\ u.selfClosed = 1
          /\ u.kind = c.kind /\ u.wnd = c.wnd /\ u.buf = c.buf /\ u.killed = c.killed
          /\ u.ptcp = c.ptcp /\ u.pReading = c.pReading /\ u.pOut = c.pOut
      BY <1>1, <1>2, <3>2, <3>7, ZenonT(60) DEF Connection
    <3>10. Life(u) /\ Base(u)
      BY <3>5, <3>6, <3>9 DEF Life, Base
    <3>11. Proxy(u)
      <4>1. Len(u.writes) <= 1
        BY <3>9, FromEmpty
      <4> QED  BY <1>1, <1>2, <3>5, <3>6, <3>9, <4>1 DEF Proxy
    <3>12. Control(u)
      BY <3>8, <3>9, <3>10, <3>11 DEF Control, Steady, Faultless
    <3>13. Closes(c, u)
      BY <3>6, <3>8, <3>9 DEF Closes
    <3> QED  BY <1>1, <3>4, <3>12, <3>13, CloseStep
  <2> QED  BY <2>4, <2>5
<1> QED  BY <1>5, <1>6

\* The proxy answers: both sides are read once it is ready.
LEMMA ProxyAnswerStep ==
    ASSUME IInv, ProxyAnswer
    PROVE  IInv'
<1> DEFINE next == HandshakeNext(c)
           ready == [c EXCEPT !.ptcp = "ready", !.pReading = TRUE]
<1>1. /\ c.fault = "none" /\ c.ptcp \in {"connecting", "greeting", "request"} /\ Others
      /\ c' = IF next # "ready" THEN [c EXCEPT !.ptcp = next] ELSE Read(ready)
  BY DEF ProxyAnswer, Running, Others
<1>2. /\ Control(c) /\ Steady(c) /\ c \in Connection /\ Life(c) /\ Proxy(c) /\ Base(c)
      /\ c.kind # "fake" /\ c.pcb # "none" /\ ~ c.killed /\ ~ c.pReading /\ ~ c.readCb
      /\ c.pOut = << >> /\ c.writes = << >>
  BY <1>1 DEF IInv, Control, Steady, Proxy
<1>3. next \in {"greeting", "request", "ready"}
  BY SMTT(30) DEF HandshakeNext
<1>4. ASSUME NEW u, NEW p \in {"greeting", "request", "ready"}, NEW b \in BOOLEAN,
             u = [c EXCEPT !.ptcp = p, !.pReading = b], b => p = "ready"
      PROVE  /\ Control(u) /\ u.fault = "none" /\ ~ u.readCb /\ u.ptcp = p /\ u.pOut = << >>
             /\ u.closed = c.closed /\ u.kind = c.kind
             /\ Upstream(u, cSent, rGot) /\ Unacked(u) /\ Downstream(u, rSent, cGot, sock)
  <2>1. u \in Connection
    BY <1>2, <1>4, ZenonT(60) DEF Connection
  <2>2. /\ u.ptcp = p /\ u.pReading = b /\ u.kind = c.kind /\ u.pcb = c.pcb /\ u.wnd = c.wnd
        /\ u.buf = c.buf /\ u.pOut = c.pOut /\ u.snd = c.snd /\ u.writes = c.writes
        /\ u.readCb = c.readCb /\ u.fault = "none" /\ u.closed = c.closed
        /\ u.handles = c.handles /\ u.iclosing = c.iclosing /\ u.killed = c.killed
        /\ u.inSet = c.inSet /\ u.released = c.released
        /\ u.count = c.count /\ u.selfClosed = c.selfClosed /\ u.timer = c.timer
    BY <1>1, <1>2, <1>4, Zenon DEF Connection
  <2>3. Life(u) /\ Base(u)
    BY <1>2, <2>2 DEF Life, Base
  <2>4. Proxy(u)
    BY <1>2, <1>4, <2>2 DEF Proxy
  <2>5. Control(u)
    BY <1>2, <2>1, <2>2, <2>3, <2>4, Zenon DEF Control, Steady, Faultless
  <2>6. Upstream(u, cSent, rGot) /\ Unacked(u)
    BY <2>2, ZenonT(60) DEF IInv, Upstream, Unacked
  <2>7. Downstream(u, rSent, cGot, sock)
    <3>1. Downstream(c, rSent, cGot, sock)
      BY <1>2 DEF IInv
    <3>2. rSent = 0 /\ cGot = << >> /\ c.snd = << >> /\ sock = << >>
      BY <1>1, <3>1, SMTT(30) DEF Downstream
    <3>3. CaughtUp(u, rSent, cGot, sock)
      BY <2>2, <3>2, FromEmpty DEF CaughtUp
    <3> QED  BY <1>2, <2>2, <3>1, <3>2, <3>3, SMTT(30) DEF Downstream
  <2> QED  BY <1>2, <2>2, <2>5, <2>6, <2>7
<1>5. CASE next # "ready"
  <2>1. c' = [c EXCEPT !.ptcp = next, !.pReading = FALSE]
    BY <1>1, <1>2, <1>5, ZenonT(60) DEF Connection
  <2> HIDE DEF next
  <2>2. /\ Control(c') /\ c'.kind = c.kind
        /\ Upstream(c', cSent, rGot) /\ Unacked(c') /\ Downstream(c', rSent, cGot, sock)
    BY <1>3, <1>4, <2>1, Zenon
  <2> QED  BY <1>1, <2>2 DEF IInv, Others
<1>6. CASE next = "ready"
  <2>1. /\ Control(ready) /\ ready.fault = "none" /\ ~ ready.readCb /\ ready.ptcp = "ready"
        /\ ready.pOut = << >> /\ ready.closed = c.closed /\ ready.kind = c.kind
        /\ Upstream(ready, cSent, rGot) /\ Unacked(ready) /\ Downstream(ready, rSent, cGot, sock)
    BY <1>4, Zenon
  <2>2. c' = Read(ready)
    BY <1>1, <1>6, SMTT(30)
  <2> HIDE DEF ready
  <2>3. /\ Control(c')
        /\ ready.closed => Closes(ready, c')
        /\ ~ ready.closed => SameData(ready, c')
    BY <2>1, <2>2, ReadEffect
  <2>4. ready \in Connection /\ cSent \in Nat /\ rSent \in Nat /\ ready.closed \in BOOLEAN
    <3>1. ready \in Connection /\ cSent \in Nat /\ rSent \in Nat
      BY <2>1, SMTT(30) DEF IInv, Control, Steady
    <3> QED  BY <3>1, ZenonT(60) DEF Connection
  <2>5. /\ c'.kind = c.kind
        /\ Upstream(c', cSent, rGot) /\ Unacked(c') /\ Downstream(c', rSent, cGot, sock)
    <3>1. CASE ready.closed
      <4>1. Closes(ready, c') /\ c'.kind = c.kind
        BY <2>1, <2>3, <3>1, SMTT(30) DEF Closes
      <4> QED  BY <2>1, <2>4, <4>1, ClosesUpstream, ClosesUnacked, ClosesDownstream, SMTT(30)
    <3>2. CASE ~ ready.closed
      <4>1. SameData(ready, c') /\ c'.kind = c.kind
        BY <2>1, <2>3, <3>2, SMTT(30) DEF SameData
      <4> QED  BY <2>1, <4>1, SameDataKeeps, SMTT(30)
    <3> QED  BY <2>4, <3>1, <3>2, SMTT(30)
  <2> QED  BY <1>1, <2>3, <2>5 DEF IInv, Others
<1> QED  BY <1>5, <1>6

\* The proxy has written: the console is read again.
LEMMA ProxyWroteStep ==
    ASSUME IInv, ProxyWrote
    PROVE  IInv'
<1> DEFINE t == [c EXCEPT !.pOut = << >>]
<1>1. /\ c.fault = "none" /\ c.ptcp = "ready" /\ c.pOut # << >> /\ c' = Read(t)
      /\ rGot' = rGot \o c.pOut
      /\ cSent' = cSent /\ cGot' = cGot /\ sock' = sock /\ rSent' = rSent
  BY DEF ProxyWrote, Running
<1>2. /\ Control(c) /\ Steady(c) /\ c \in Connection /\ Life(c) /\ Proxy(c) /\ Base(c)
      /\ c.kind # "fake" /\ ~ c.readCb
      /\ Upstream(c, cSent, rGot) /\ Unacked(c) /\ Downstream(c, rSent, cGot, sock)
      /\ cSent \in Nat /\ rSent \in Nat
  BY <1>1 DEF IInv, Control, Steady, Proxy
<1>3. t \in Connection
  BY <1>2, Empties, Zenon DEF Connection
<1>4. /\ t.pOut = << >> /\ t.kind = c.kind /\ t.pcb = c.pcb /\ t.wnd = c.wnd
      /\ t.buf = c.buf /\ t.snd = c.snd /\ t.writes = c.writes
      /\ t.pReading = c.pReading /\ t.ptcp = c.ptcp
      /\ t.readCb = c.readCb /\ t.fault = "none" /\ t.closed = c.closed
      /\ t.handles = c.handles /\ t.iclosing = c.iclosing /\ t.killed = c.killed
      /\ t.inSet = c.inSet /\ t.released = c.released
      /\ t.count = c.count /\ t.selfClosed = c.selfClosed /\ t.timer = c.timer
  BY <1>1, <1>2, Zenon DEF Connection
<1> HIDE DEF t
<1>5. Control(t)
  <2>1. Life(t) /\ Base(t)
    BY <1>2, <1>4, SMTT(30) DEF Life, Base
  <2>2. Proxy(t)
    BY <1>1, <1>2, <1>4 DEF Proxy
  <2> QED  BY <1>2, <1>3, <1>4, <2>1, <2>2, ZenonT(60) DEF Control, Steady, Faultless
<1>6. Upstream(t, cSent, rGot') /\ rGot' \in Seq(Nat)
  <2>1. /\ From(rGot, 0) /\ From(c.pOut, Len(rGot)) /\ Len(rGot) + Len(c.pOut) <= cSent
        /\ c.wnd \in 0 .. Wnd /\ Len(c.buf) <= Wnd
        /\ c.pcb \in {"none", "live"} =>
              /\ From(c.buf, Len(rGot) + Len(c.pOut))
              /\ Len(rGot) + Len(c.pOut) + Len(c.buf) = cSent
              /\ c.wnd = Wnd - Len(c.buf)
    BY <1>2, Zenon DEF Upstream
  <2>2. Len(rGot) \in Nat /\ Len(c.pOut) \in Nat /\ 0 + Len(rGot) = Len(rGot)
    BY <2>1 DEF From
  <2>3. From(rGot', 0) /\ Len(rGot') = Len(rGot) + Len(c.pOut)
    BY <1>1, <2>1, <2>2, FromConcat
  <2>4. /\ From(t.pOut, Len(rGot')) /\ Len(t.pOut) = 0 /\ Len(rGot') \in Nat
        /\ Len(rGot') + Len(t.pOut) = Len(rGot) + Len(c.pOut)
    BY <1>4, <2>2, <2>3, FromEmpty
  <2>5. rGot' \in Seq(Nat)
    BY <2>3, SMTT(30) DEF From
  <2> QED  BY <1>4, <2>1, <2>3, <2>4, <2>5, Zenon DEF Upstream
<1>7. Unacked(t) /\ Downstream(t, rSent, cGot, sock)
  BY <1>2, <1>4, SMTT(30) DEF Unacked, Downstream, CaughtUp
<1>8. /\ Control(c')
      /\ t.closed => Closes(t, c')
      /\ ~ t.closed => SameData(t, c')
  BY <1>1, <1>2, <1>4, <1>5, ReadEffect
<1>9. /\ c'.kind = c.kind
      /\ Upstream(c', cSent, rGot') /\ Unacked(c') /\ Downstream(c', rSent, cGot, sock)
  <2>1. CASE t.closed
    <3>1. Closes(t, c') /\ c'.kind = c.kind
      BY <1>4, <1>8, <2>1, SMTT(30) DEF Closes
    <3> QED  BY <1>2, <1>3, <1>6, <1>7, <3>1, ClosesUpstream, ClosesUnacked, ClosesDownstream, SMTT(30)
  <2>2. CASE ~ t.closed
    <3>1. SameData(t, c') /\ c'.kind = c.kind
      BY <1>4, <1>8, <2>2 DEF SameData
    <3> QED  BY <1>6, <1>7, <3>1, SameDataKeeps
  <2> QED  BY <2>1, <2>2
<1> QED  BY <1>1, <1>6, <1>8, <1>9 DEF IInv

\* The console's bytes go to the proxy.
LEMMA AsyncReadStep ==
    ASSUME IInv, AsyncRead
    PROVE  IInv'
<1>1. c.fault = "none" /\ c' = AsyncReadCb(c) /\ Others
  BY DEF AsyncRead, Running, Others
<1>2. /\ Control(c) /\ Steady(c) /\ c \in Connection /\ Life(c) /\ Proxy(c) /\ Base(c)
  BY DEF IInv, Control, Steady
<1>3. CASE ~ c.readCb \/ c.buf = << >>
  <2> DEFINE u == [c EXCEPT !.asyncR = FALSE]
  <2>1. c' = u
    BY <1>1, <1>3 DEF AsyncReadCb
  <2>2. u \in Connection
    BY <1>2, ZenonT(60) DEF Connection
  <2>3. /\ SameData(c, u) /\ u.readCb = c.readCb /\ u.fault = "none" /\ u.closed = c.closed
        /\ u.handles = c.handles /\ u.iclosing = c.iclosing /\ u.killed = c.killed
        /\ u.inSet = c.inSet /\ u.released = c.released
        /\ u.count = c.count /\ u.selfClosed = c.selfClosed /\ u.timer = c.timer
    BY <1>1, <1>2, Zenon DEF Connection, SameData
  <2> HIDE DEF u
  <2>4. Life(u) /\ Base(u)
    BY <1>2, <2>3, SMTT(30) DEF Life, Base, SameData
  <2>5. Proxy(u)
    BY <1>1, <1>2, <2>3 DEF Proxy, SameData
  <2>6. Control(u)
    BY <1>2, <2>2, <2>3, <2>4, <2>5, Zenon DEF Control, Steady, Faultless, SameData
  <2> QED  BY <1>1, <2>1, <2>3, <2>6, SameStep
<1>4. CASE c.readCb /\ c.buf # << >>
  <2>1. /\ ~ c.closed /\ c.ptcp = "ready" /\ c.pOut = << >> /\ c.pcb = "live" /\ c.kind # "fake"
    <3>1. ~ c.closed /\ c.ptcp = "ready" /\ c.pOut = << >> /\ c.pcb # "none" /\ c.kind # "fake"
      BY <1>2, <1>4 DEF Proxy
    <3> QED  BY <1>2, <3>1, Zenon DEF Life, Connection
  <2>2. /\ From(rGot, 0) /\ From(c.buf, Len(rGot) + Len(c.pOut))
        /\ Len(rGot) + Len(c.pOut) + Len(c.buf) = cSent
        /\ c.wnd = Wnd - Len(c.buf) /\ c.wnd \in 0 .. Wnd /\ Len(c.buf) <= Wnd
    BY <2>1 DEF IInv, Upstream
  <2>3. /\ Len(rGot) \in Nat /\ Len(c.pOut) = 0 /\ Len(c.buf) \in Nat /\ c.buf \in Seq(Nat)
    BY <2>1, <2>2, FromEmpty DEF From
  <2>4. c.wnd + Len(c.buf) = Wnd /\ Wnd \in Nat
    BY <2>2, <2>3, BridgeAssumption
  <2>5. << >> \o c.buf = c.buf
    BY <2>3
  <2> DEFINE u == [c EXCEPT !.asyncR = FALSE, !.wnd = Wnd, !.buf = << >>,
                            !.readCb = FALSE, !.pOut = c.buf]
  <2>6. c' = u
    BY <1>1, <1>4, <2>1, <2>4, <2>5, Zenon DEF AsyncReadCb
  <2>7. u \in Connection
    <3> DEFINE x == [c EXCEPT !.asyncR = FALSE, !.wnd = Wnd]
    <3>1. Wnd \in Int
      BY <2>4
    <3>2. x \in Connection
      BY <1>2, <3>1, Zenon DEF Connection
    <3>3. u = [x EXCEPT !.buf = << >>, !.readCb = FALSE, !.pOut = c.buf]
      OBVIOUS
    <3> HIDE DEF x, u
    <3> QED  BY <2>3, <3>2, <3>3, Empties, SetBuf, SetReadCb, SetPOut, Zenon
  <2>8. /\ u.wnd = Wnd /\ u.buf = << >> /\ ~ u.readCb /\ u.pOut = c.buf
        /\ u.kind = c.kind /\ u.pcb = c.pcb /\ u.snd = c.snd /\ u.writes = c.writes
        /\ u.pReading = c.pReading /\ u.ptcp = c.ptcp
        /\ u.fault = "none" /\ u.closed = c.closed
        /\ u.handles = c.handles /\ u.iclosing = c.iclosing /\ u.killed = c.killed
        /\ u.inSet = c.inSet /\ u.released = c.released
        /\ u.count = c.count /\ u.selfClosed = c.selfClosed /\ u.timer = c.timer
    BY <1>1, <1>2, ZenonT(60) DEF Connection
  <2> HIDE DEF u
  <2>9. Life(u) /\ Base(u)
    BY <1>2, <2>8, SMTT(30) DEF Life, Base
  <2>10. Proxy(u)
    BY <1>1, <1>2, <2>1, <2>8 DEF Proxy
  <2>11. Control(u)
    BY <1>2, <2>7, <2>8, <2>9, <2>10, Zenon DEF Control, Steady, Faultless
  <2>12. Upstream(u, cSent, rGot)
    <3>1. Len(rGot) + Len(c.pOut) = Len(rGot)
      BY <2>3
    <3>2. From(u.pOut, Len(rGot)) /\ Len(rGot) + Len(u.pOut) = cSent
      BY <2>2, <2>8, <3>1, Zenon
    <3>3. From(u.buf, Len(rGot) + Len(u.pOut)) /\ Len(u.buf) = 0
      BY <2>8, FromEmpty
    <3>4. /\ u.wnd \in 0 .. Wnd /\ Len(u.buf) <= Wnd /\ u.wnd = Wnd - Len(u.buf)
      BY <2>4, <2>8, <3>3
    <3>5. cSent \in Nat /\ Len(rGot) + Len(u.pOut) <= cSent
          /\ Len(rGot) + Len(u.pOut) + Len(u.buf) = cSent
      BY <3>2, <3>3, SMTT(30) DEF IInv
    <3> QED  BY <2>2, <3>2, <3>3, <3>4, <3>5 DEF Upstream
  <2>13. Unacked(u) /\ Downstream(u, rSent, cGot, sock)
    BY <2>1, <2>8, SMTT(30) DEF IInv, Unacked, Downstream, CaughtUp
  <2> QED  BY <1>1, <2>6, <2>11, <2>12, <2>13 DEF IInv, Others
<1> QED  BY <1>2, <1>3, <1>4, Zenon DEF Connection

\* The proxy's bytes become the one write request.
LEMMA ProxyDataStep ==
    ASSUME IInv, NEW n \in 1 .. RMax, ProxyData(n)
    PROVE  IInv'
<1> DEFINE data == SubSeq(sock, 1, n)
           w == [data |-> data, sent |-> 0, pending |-> 0]
           u == [c EXCEPT !.pReading = FALSE, !.writes = <<w>>, !.asyncW = TRUE]
<1>1. /\ c.fault = "none" /\ c.ptcp = "ready" /\ c.pReading /\ n <= Len(sock)
      /\ c' = OnProxyData(c, data) /\ sock' = SubSeq(sock, n + 1, Len(sock))
      /\ cSent' = cSent /\ cGot' = cGot /\ rSent' = rSent /\ rGot' = rGot
  BY DEF ProxyData, Running
<1>2. /\ Control(c) /\ Steady(c) /\ c \in Connection /\ Life(c) /\ Proxy(c) /\ Base(c)
      /\ c.kind # "fake" /\ c.pcb # "none" /\ c.writes = << >>
      /\ Upstream(c, cSent, rGot) /\ Unacked(c) /\ Downstream(c, rSent, cGot, sock)
      /\ sock \in Seq(Nat) /\ rSent \in Nat
  <2>1. /\ Control(c) /\ Upstream(c, cSent, rGot) /\ Unacked(c)
        /\ c.kind # "fake" => Downstream(c, rSent, cGot, sock)
        /\ sock \in Seq(Nat) /\ rSent \in 0 .. RMax
    BY Zenon DEF IInv
  <2>2. Steady(c) /\ c \in Connection /\ Life(c) /\ Proxy(c) /\ Base(c)
    BY <2>1, ZenonT(60) DEF Control, Steady
  <2>3. c.kind # "fake" /\ c.pcb # "none" /\ c.writes = << >>
    BY <1>1, <2>2 DEF Proxy
  <2>4. rSent \in Nat
    BY <2>1
  <2> QED  BY <2>1, <2>2, <2>3, <2>4, Zenon
<1>3. c.handles # "freed"
  BY <1>1, <1>2, ZenonT(60) DEF Control, Proxy
<1>4. CaughtUp(c, rSent, cGot, sock) /\ From(cGot, 0)
  BY <1>1, <1>2, SMTT(30) DEF Downstream
<1>5. /\ c.snd = << >> /\ Len(c.snd) = 0 /\ Len(cGot) \in Nat /\ Len(cGot) \in Int
      /\ From(sock, Len(cGot)) /\ Len(sock) \in Nat /\ Len(cGot) + Len(sock) = rSent
  BY <1>2, <1>4, FromEmpty DEF CaughtUp, From
<1>6. /\ n \in Nat /\ n # 0 /\ n \in 0 .. Len(sock)
  BY <1>1, <1>5, BridgeAssumption
<1>7. /\ From(data, Len(cGot)) /\ Len(data) = n
      /\ From(sock', Len(cGot) + n) /\ Len(sock') = Len(sock) - n
  BY <1>1, <1>5, <1>6, FromSplit
<1>8. data \in Seq(Nat) /\ sock' \in Seq(Nat)
  BY <1>7 DEF From
<1>9. c' = u
  <2>1. c' = [c EXCEPT !.pReading = FALSE, !.writes = Append(c.writes, w), !.asyncW = TRUE]
    BY <1>1 DEF OnProxyData, UvlWrite
  <2>2. Append(c.writes, w) = <<w>>
    BY <1>2
  <2> QED  BY <2>1, <2>2, Zenon
<1> HIDE DEF data
<1>10. w \in Request /\ w.data = data /\ w.sent = 0 /\ w.pending = 0
  BY <1>8 DEF Request
<1> HIDE DEF w
<1>11. <<w>> \in Seq(Request) /\ <<w>> # << >> /\ Len(<<w>>) = 1 /\ <<w>>[1] = w
  BY <1>10
<1>12. u \in Connection
  BY <1>2, <1>11, Zenon DEF Connection
<1>13. /\ u.writes = <<w>> /\ ~ u.pReading
       /\ u.kind = c.kind /\ u.pcb = c.pcb /\ u.wnd = c.wnd /\ u.buf = c.buf
       /\ u.snd = c.snd /\ u.pOut = c.pOut /\ u.ptcp = c.ptcp /\ u.readCb = c.readCb
       /\ u.fault = "none" /\ u.closed = c.closed
       /\ u.handles = c.handles /\ u.iclosing = c.iclosing /\ u.killed = c.killed
       /\ u.inSet = c.inSet /\ u.released = c.released
       /\ u.count = c.count /\ u.selfClosed = c.selfClosed /\ u.timer = c.timer
  BY <1>1, <1>2, ZenonT(60) DEF Connection
<1> HIDE DEF u
<1>14. Control(u)
  <2>1. Life(u)
    BY <1>2, <1>3, <1>13, SMTT(30) DEF Life
  <2>2. Base(u)
    BY <1>2, <1>13, SMTT(30) DEF Base
  <2>3. Len(u.writes) <= 1
    BY <1>11, <1>13, SMTT(30)
  <2>4. Proxy(u)
    BY <1>1, <1>2, <1>13, <2>3 DEF Proxy
  <2> QED  BY <1>2, <1>12, <1>13, <2>1, <2>2, <2>4, ZenonT(60) DEF Control, Steady, Faultless
<1>15. Upstream(u, cSent, rGot)
  BY <1>2, <1>13, ZenonT(60) DEF Upstream
<1>16. Unacked(u)
  <2>1. w.sent <= Len(w.data) /\ Len(u.snd) = w.pending
    BY <1>5, <1>6, <1>7, <1>10, <1>13, SMTT(30)
  <2> QED  BY <1>2, <1>11, <1>13, <2>1 DEF Unacked
<1>17. Downstream(u, rSent, cGot, sock')
  <2>1. ~ Complete(w)
    BY <1>6, <1>7, <1>10 DEF Complete
  <2> DEFINE a == Len(cGot) + Len(u.snd)
  <2>2. /\ a = Len(cGot) /\ a - w.sent = Len(cGot) /\ Len(w.data) = n
        /\ a - w.sent + Len(w.data) = Len(cGot) + n
        /\ Len(cGot) + n + Len(sock') = rSent /\ a <= rSent
    BY <1>5, <1>6, <1>7, <1>10, <1>13
  <2>3. Behind(w, a, rSent, sock')
    BY <1>7, <1>10, <2>2, SMTT(30) DEF Behind
  <2>4. From(u.snd, Len(cGot))
    BY <1>5, <1>13, FromEmpty
  <2> QED  BY <1>1, <1>4, <1>11, <1>13, <2>1, <2>2, <2>3, <2>4 DEF Downstream
<1> QED  BY <1>1, <1>8, <1>9, <1>13, <1>14, <1>15, <1>16, <1>17 DEF IInv

\* A new connection.
LEMMA AcceptStep ==
    ASSUME IInv, NEW k \in Kinds, NEW kernel \in BOOLEAN, Accept(k, kernel)
    PROVE  IInv'
<1> DEFINE p == IF k = "fake" THEN "none" ELSE "connecting"
           fresh == [c EXCEPT !.kind = k, !.pcb = "live", !.handles = "open", !.ptcp = p]
           up == IF k = "fake" THEN UvlWrite(fresh, Stream(Body))
                 ELSE IF kernel THEN fresh
                 ELSE IF k = "direct" THEN Kill([fresh EXCEPT !.ptcp = "failed"])
                 ELSE [fresh EXCEPT !.ptcp = "failed"]
<1>1. c.pcb = "none" /\ ~ c.released /\ c' = [up EXCEPT !.inSet = TRUE] /\ Others
  BY DEF Accept, Others
<1>2. /\ Control(c) /\ Steady(c) /\ c \in Connection /\ Life(c) /\ Proxy(c) /\ Base(c)
      /\ Faultless(c)
      /\ cSent \in Nat /\ rSent \in Nat /\ Upstream(c, cSent, rGot) /\ Unacked(c)
  BY DEF IInv, Control, Steady
<1>3. /\ c.handles = "none" /\ c.writes = << >> /\ c.kind = "direct" /\ c.ptcp = "none"
      /\ ~ c.closed /\ ~ c.iclosing /\ ~ c.killed /\ ~ c.readCb /\ ~ c.pReading
      /\ c.pOut = << >> /\ c.fault = "none"
  BY <1>1, <1>2, ZenonT(60) DEF Life, Proxy, Faultless
<1>4. /\ Downstream(c, rSent, cGot, sock) /\ rSent = 0 /\ cGot = << >> /\ sock = << >>
      /\ c.snd = << >>
  BY <1>3 DEF IInv, Downstream
<1>5. k \in {"direct", "socks5", "fake"} /\ p \in {"none", "connecting"}
      /\ (p = "none" <=> k = "fake")
  BY BridgeAssumption
<1> HIDE DEF p
<1>6. fresh \in Connection
  <2> DEFINE y == [c EXCEPT !.kind = k]
             x == [y EXCEPT !.ptcp = p]
  <2>1. x \in Connection
    <3>1. y \in Connection
      BY <1>2, <1>5, SetKind, Zenon
    <3>2. p \in {"none", "connecting", "greeting", "request", "failed", "ready", "closed"}
      BY <1>5, Zenon
    <3> HIDE DEF y
    <3> QED  BY <3>1, <3>2, SetPtcp, Zenon
  <2>2. fresh = [x EXCEPT !.pcb = "live", !.handles = "open"]
    BY Zenon
  <2> HIDE DEF x, fresh
  <2> QED  BY <2>1, <2>2, ZenonT(60) DEF Connection
<1>7. /\ fresh.kind = k /\ fresh.pcb = "live" /\ fresh.handles = "open" /\ fresh.ptcp = p
      /\ fresh.wnd = c.wnd /\ fresh.buf = c.buf /\ fresh.snd = << >> /\ fresh.pOut = << >>
      /\ fresh.writes = << >> /\ ~ fresh.pReading /\ ~ fresh.readCb /\ ~ fresh.closed
      /\ ~ fresh.iclosing /\ ~ fresh.killed /\ ~ fresh.released /\ fresh.fault = "none"
      /\ fresh.count = c.count /\ fresh.selfClosed = c.selfClosed /\ fresh.timer = c.timer
  BY <1>1, <1>2, <1>3, <1>4, Zenon DEF Connection
<1> HIDE DEF fresh
<1>8. Steady(fresh)
  <2>1. Life(fresh)
    BY <1>7 DEF Life
  <2>2. Base(fresh)
    BY <1>1, <1>2, <1>7 DEF Base
  <2>3. Proxy(fresh)
    <3>1. Len(fresh.writes) <= 1
      BY <1>7, FromEmpty
    <3> QED  BY <1>5, <1>7, <3>1 DEF Proxy
  <2> QED  BY <1>6, <1>7, <2>1, <2>2, <2>3 DEF Steady, Faultless
<1>9. Upstream(fresh, cSent, rGot)
  BY <1>1, <1>2, <1>3, <1>7 DEF Upstream
<1>10. Unacked(fresh)
  <2>1. Len(fresh.snd) = 0 /\ Len(fresh.snd) <= SndBuf
    BY <1>7, FromEmpty, BridgeAssumption, SMTT(30)
  <2> QED  BY <1>7, <2>1 DEF Unacked
<1>11. k # "fake" => Downstream(fresh, rSent, cGot, sock)
  <2>1. Len(cGot) = 0 /\ Len(fresh.snd) = 0 /\ Len(sock) = 0
        /\ From(cGot, 0) /\ From(fresh.snd, Len(cGot)) /\ From(sock, Len(cGot) + Len(fresh.snd))
    BY <1>4, <1>7, FromEmpty
  <2>2. Len(cGot) + Len(fresh.snd) <= rSent /\ Len(cGot) + Len(fresh.snd) + Len(sock) = rSent
    BY <1>4, <2>1
  <2> QED  BY <1>4, <1>7, <2>1, <2>2 DEF Downstream
<1>12. ASSUME NEW v, Steady(v), v.pcb # "none", v.kind = k,
              v.handles = "freed" /\ v.kind # "fake" => v.killed,
              Upstream(v, cSent, rGot), Unacked(v),
              k # "fake" => Downstream(v, rSent, cGot, sock), up = v
       PROVE  IInv'
  <2> DEFINE u == [v EXCEPT !.inSet = TRUE]
  <2>1. v \in Connection /\ Life(v) /\ Proxy(v) /\ Base(v) /\ Faultless(v)
    BY <1>12 DEF Steady
  <2>2. u \in Connection
    BY <2>1, Zenon DEF Connection
  <2>3. /\ SameData(v, u) /\ u.readCb = v.readCb /\ u.fault = v.fault /\ u.closed = v.closed
        /\ u.handles = v.handles /\ u.iclosing = v.iclosing /\ u.killed = v.killed
        /\ u.inSet /\ u.released = v.released
        /\ u.count = v.count /\ u.selfClosed = v.selfClosed /\ u.timer = v.timer
    BY <2>1, Zenon DEF Connection, SameData
  <2>4. c' = u
    BY <1>1, <1>12, Zenon
  <2> HIDE DEF u, up
  <2>5. Life(u) /\ Base(u)
    BY <1>12, <2>1, <2>3, Zenon DEF Life, Base, SameData
  <2>6. Proxy(u) /\ Faultless(u)
    BY <2>1, <2>3, ZenonT(60) DEF Proxy, Faultless, SameData
  <2>7. Control(u)
    BY <1>12, <2>2, <2>3, <2>5, <2>6 DEF Control, Steady, SameData
  <2>8. Upstream(u, cSent, rGot) /\ Unacked(u) /\ u.kind = k
    BY <1>12, <2>3, SameDataKeeps DEF SameData
  <2>9. k # "fake" => Downstream(u, rSent, cGot, sock)
    BY <1>12, <2>3, SameDataKeeps
  <2> QED  BY <1>1, <2>4, <2>7, <2>8, <2>9, Zenon DEF IInv, Others
<1>13. CASE k # "fake" /\ kernel
  <2>1. up = fresh
    BY <1>13
  <2> QED  BY <1>7, <1>8, <1>9, <1>10, <1>11, <1>12, <2>1
<1>14. CASE k # "fake" /\ ~ kernel
  <2> DEFINE v == [fresh EXCEPT !.ptcp = "failed"]
  <2>1. up = IF k = "direct" THEN Kill(v) ELSE v
    BY <1>14
  <2>2. v \in Connection
    BY <1>6, ZenonT(60) DEF Connection
  <2>3. /\ v.ptcp = "failed" /\ v.kind = k /\ v.pcb = "live" /\ v.handles = "open"
        /\ v.wnd = fresh.wnd /\ v.buf = fresh.buf /\ v.snd = fresh.snd /\ v.pOut = << >>
        /\ v.writes = << >> /\ ~ v.pReading /\ ~ v.readCb /\ ~ v.closed
        /\ ~ v.iclosing /\ ~ v.killed /\ ~ v.released /\ v.fault = "none"
        /\ v.count = fresh.count /\ v.selfClosed = fresh.selfClosed /\ v.timer = fresh.timer
    BY <1>6, <1>7, Zenon DEF Connection
  <2> HIDE DEF v, up
  <2>4. Life(v)
    BY <2>3, SMTT(30) DEF Life
  <2>5. Base(v)
    BY <1>7, <1>8, <2>3 DEF Base, Steady
  <2>6. Proxy(v)
    <3>1. Len(v.writes) <= 1
      BY <2>3, FromEmpty
    <3> QED  BY <1>14, <2>3, <3>1 DEF Proxy
  <2>7. Steady(v)
    BY <2>2, <2>3, <2>4, <2>5, <2>6, SMTT(30) DEF Steady, Faultless
  <2>8. Upstream(v, cSent, rGot) /\ Unacked(v)
    BY <1>7, <1>9, <1>10, <2>3, SMTT(30) DEF Upstream, Unacked
  <2>9. Downstream(v, rSent, cGot, sock)
    BY <1>4, <1>5, <1>7, <1>11, <1>14, <2>3, SMTT(30) DEF Downstream
  <2>10. CASE k = "direct"
    <3> DEFINE x == Kill(v)
    <3>1. Control(x) /\ Closes(v, x)
      BY <2>3, <2>7, <2>10, KillEffect, SMTT(30)
    <3>2. up = x
      BY <2>1, <2>10, SMTT(30)
    <3> HIDE DEF x
    <3>3. Steady(x) /\ x.kind = k /\ x.pcb # "none" /\ (x.handles = "freed" /\ x.kind # "fake" => x.killed)
      BY <2>3, <3>1 DEF Control, Closes
    <3>4. /\ Upstream(x, cSent, rGot) /\ Unacked(x) /\ Downstream(x, rSent, cGot, sock)
      BY <1>2, <2>2, <2>8, <2>9, <3>1, ClosesUpstream, ClosesUnacked, ClosesDownstream
    <3> QED  BY <1>12, <3>2, <3>3, <3>4
  <2>11. CASE k # "direct"
    <3>1. up = v
      BY <2>1, <2>11, SMTT(30)
    <3> QED  BY <1>12, <2>3, <2>7, <2>8, <2>9, <3>1
  <2> QED  BY <2>10, <2>11
<1>16. CASE k = "fake"
  <2> DEFINE w == [data |-> Stream(Body), sent |-> 0, pending |-> 0]
             v == [fresh EXCEPT !.writes = <<w>>, !.asyncW = TRUE]
  <2>1. up = v
    <3>1. up = [fresh EXCEPT !.writes = Append(fresh.writes, w), !.asyncW = TRUE]
      BY <1>16 DEF UvlWrite
    <3>2. Append(fresh.writes, w) = <<w>>
      BY <1>7
    <3> HIDE DEF w, up
    <3> QED  BY <3>1, <3>2
  <2>2. Body \in Nat /\ Stream(Body) \in Seq(Nat) /\ Len(Stream(Body)) = Body
    BY BridgeAssumption, StreamFrom DEF From
  <2>3. w \in Request /\ w.sent = 0 /\ w.pending = 0 /\ w.sent <= Len(w.data)
    BY <2>2 DEF Request
  <2> HIDE DEF w, up
  <2>4. <<w>> \in Seq(Request) /\ <<w>> # << >> /\ Len(<<w>>) = 1 /\ <<w>>[1] = w
    BY <2>3
  <2>5. v \in Connection
    BY <1>6, <2>4, ZenonT(60) DEF Connection
  <2>6. /\ v.writes = <<w>> /\ v.kind = k /\ v.pcb = "live" /\ v.handles = "open"
        /\ v.ptcp = p /\ v.wnd = fresh.wnd /\ v.buf = fresh.buf /\ v.snd = fresh.snd
        /\ v.pOut = fresh.pOut /\ ~ v.pReading /\ ~ v.readCb /\ ~ v.closed
        /\ ~ v.iclosing /\ ~ v.killed /\ ~ v.released /\ v.fault = "none"
        /\ v.count = fresh.count /\ v.selfClosed = fresh.selfClosed /\ v.timer = fresh.timer
    BY <1>6, <1>7, Zenon DEF Connection
  <2> HIDE DEF v
  <2>7. Life(v)
    BY <2>6, SMTT(30) DEF Life
  <2>8. Base(v)
    BY <1>7, <1>8, <2>6, SMTT(30) DEF Base, Steady
  <2>9. Proxy(v)
    <3>1. Len(v.writes) <= 1
      BY <2>4, <2>6, SMTT(30)
    <3> QED  BY <1>5, <1>7, <1>16, <2>6, <3>1, SMTT(30) DEF Proxy
  <2>10. Steady(v)
    BY <2>5, <2>6, <2>7, <2>8, <2>9, SMTT(30) DEF Steady, Faultless
  <2>11. Upstream(v, cSent, rGot)
    BY <1>7, <1>9, <2>6 DEF Upstream
  <2>12. Unacked(v)
    <3>1. Len(v.snd) = 0 /\ Len(v.snd) <= SndBuf
      BY <1>7, <2>6, FromEmpty, BridgeAssumption
    <3> QED  BY <2>3, <2>4, <2>6, <3>1, SMTT(30) DEF Unacked
  <2> QED  BY <1>12, <1>16, <2>1, <2>6, <2>10, <2>11, <2>12
<1> QED  BY <1>5, <1>13, <1>14, <1>16

\* Received bytes and the ones that come next.
LEMMA FromGrow ==
    ASSUME NEW p, NEW q, From(p, 0), From(q, Len(p))
    PROVE  From(p \o q, 0) /\ Len(p \o q) = Len(p) + Len(q)
<1>1. Len(p) \in Nat
  BY DEF From
<1>2. 0 + Len(p) = Len(p) /\ 0 \in Int
  BY <1>1
<1>3. From(q, 0 + Len(p))
  BY <1>2
<1> QED  BY <1>2, <1>3, FromConcat

\* A part of what the console sends.
LEMMA StreamPart ==
    ASSUME NEW m \in Nat, NEW k \in Nat, NEW n \in Nat, k + n <= m
    PROVE  From(SubSeq(Stream(m), k + 1, k + n), k) /\ Len(SubSeq(Stream(m), k + 1, k + n)) = n
<1>1. /\ Stream(m) \in Seq(Nat) /\ Len(Stream(m)) = m
      /\ \A i \in 1 .. m : Stream(m)[i] = i
  BY DEF Stream
<1> DEFINE q == Stream(m)
           p == SubSeq(q, k + 1, k + n)
<1> HIDE DEF q
<1>2. q \in Seq(Nat) /\ Len(q) = m /\ \A i \in 1 .. m : q[i] = i
  BY <1>1 DEF q
<1>3. p \in Seq(Nat) /\ Len(p) = n
  BY <1>2
<1>4. \A i \in 1 .. n : p[i] = k + i
  BY <1>2
<1>5. From(p, k) /\ Len(p) = n
  BY <1>3, <1>4 DEF From
<1> QED  BY <1>5 DEF q

\* Nothing appended.
LEMMA ConcatEmpty ==
    ASSUME NEW S, NEW q \in Seq(S)
    PROVE  q \o << >> = q
  OBVIOUS

\* a bytes move from one place to the next.
LEMMA Moved ==
    ASSUME NEW g \in Nat, NEW m \in Nat, NEW a \in Nat
    PROVE  (g + a) + (m - a) = g + m
  OBVIOUS

\* The arithmetic of the window: d more bytes in a buffer of b, size w.
LEMMA Fits ==
    ASSUME NEW g \in Nat, NEW p \in Nat, NEW b \in Nat, NEW d \in Nat, NEW m \in Nat,
           NEW w \in Nat, NEW size \in Nat, g + p + b = m, w = size - b, d <= w
    PROVE  /\ g + p \in Int /\ (g + p) + b = m /\ ~ (d > size - b)
           /\ w - d \in 0 .. size /\ b + d <= size /\ w - d = size - (b + d)
           /\ g + p <= m + d /\ (g + p) + (b + d) = m + d
  BY SMTT(30)

\* The fields Control is about, the list of requests aside.
SameControl(s, u) ==
    /\ u.kind = s.kind /\ u.pcb = s.pcb /\ u.readCb = s.readCb /\ u.closed = s.closed
    /\ u.handles = s.handles /\ u.iclosing = s.iclosing /\ u.killed = s.killed
    /\ u.ptcp = s.ptcp /\ u.pReading = s.pReading /\ u.pOut = s.pOut
    /\ u.inSet = s.inSet /\ u.released = s.released /\ u.count = s.count
    /\ u.selfClosed = s.selfClosed /\ u.timer = s.timer /\ u.fault = s.fault

\* Bytes moved between the buffers leave it alone.
LEMMA SameControlKeeps ==
    ASSUME NEW s, NEW u, Control(s), u \in Connection, SameControl(s, u),
           u.writes = << >> <=> s.writes = << >>, Len(u.writes) <= 1
    PROVE  Control(u)
<1>1. Life(s) /\ Proxy(s) /\ Base(s) /\ Faultless(s)
  BY SMTT(30) DEF Control, Steady
<1>2. Life(u)
  BY <1>1, SMTT(30) DEF Life, SameControl
<1>3. Proxy(u)
  BY <1>1, SMTT(30) DEF Proxy, SameControl
<1>4. Base(u)
  BY <1>1 DEF Base, SameControl
<1>5. Faultless(u)
  BY <1>1, Zenon DEF Faultless, SameControl
<1> QED  BY <1>2, <1>3, <1>4, <1>5, SMTT(30) DEF Control, Steady, SameControl

\* A sequence of length one.
LEMMA Nonempty ==
    ASSUME NEW q, Len(q) = 1
    PROVE  q # << >> /\ Len(q) <= 1
<1>1. Len(<< >>) = 0
  OBVIOUS
<1> QED  BY <1>1

\* The arithmetic of that chain: g bytes received, m in the send buffer, t of the
\* request's d handed over, r in the socket.
LEMMA Chain ==
    ASSUME NEW g \in Nat, NEW m \in Nat, NEW t \in Nat, NEW d \in Nat, NEW r \in Nat,
           NEW n \in Nat, NEW b \in Int, b = (g + m) - t, b + d + r = n, t <= d
    PROVE  /\ g + m <= n
           /\ t = d /\ m = 0 => b + d = g
  BY SMTT(30)

\* On a live connection with a request the chain of stretches is all there is to
\* say: a finished request left nothing unacknowledged.
LEMMA DownstreamLive ==
    ASSUME NEW u, NEW n, NEW got, NEW q, NEW b
    PROVE  /\ u \in Connection /\ u.pcb = "live" /\ Len(u.writes) <= 1 /\ u.writes # << >>
           /\ Unacked(u) /\ ~ u.pReading /\ u.ptcp \in {"ready", "closed"}
           /\ n \in Nat /\ From(got, 0) /\ From(u.snd, Len(got))
           /\ b \in Int /\ b = (Len(got) + Len(u.snd)) - u.writes[1].sent
           /\ From(u.writes[1].data, b) /\ From(q, b + Len(u.writes[1].data))
           /\ b + Len(u.writes[1].data) + Len(q) = n
           => Downstream(u, n, got, q)
<1> DEFINE w == u.writes[1]
<1>0. SUFFICES ASSUME
           u \in Connection, u.pcb = "live", Len(u.writes) <= 1, u.writes # << >>,
           Unacked(u), ~ u.pReading, u.ptcp \in {"ready", "closed"},
           n \in Nat, From(got, 0), From(u.snd, Len(got)),
           b \in Int, b = (Len(got) + Len(u.snd)) - w.sent,
           From(w.data, b), From(q, b + Len(w.data)), b + Len(w.data) + Len(q) = n
      PROVE  Downstream(u, n, got, q)
  OBVIOUS
<1>1. w.data \in Seq(Nat) /\ w.sent \in Nat /\ w.pending \in Nat /\ Len(w.data) \in Nat
  BY <1>0, FirstRequest
<1>2. w.sent <= Len(w.data) /\ Len(u.snd) = w.pending
  BY <1>0 DEF Unacked
<1>3. Len(got) \in Nat /\ Len(u.snd) \in Nat /\ Len(q) \in Nat /\ u.snd \in Seq(Nat)
  BY <1>0 DEF From
<1>4. b = (Len(got) + Len(u.snd)) - w.sent /\ b + Len(w.data) + Len(q) = n
      /\ From(w.data, b) /\ From(q, b + Len(w.data)) /\ b \in Int /\ n \in Nat
  BY <1>0
<1> HIDE DEF w
<1>5. /\ Len(got) + Len(u.snd) <= n
      /\ w.sent = Len(w.data) /\ Len(u.snd) = 0 => b + Len(w.data) = Len(got)
  <2> DEFINE g == Len(got)
             m == Len(u.snd)
             t == w.sent
             d == Len(w.data)
             r == Len(q)
  <2>1. /\ g \in Nat /\ m \in Nat /\ t \in Nat /\ d \in Nat /\ r \in Nat
        /\ b = (g + m) - t /\ b + d + r = n /\ t <= d /\ b \in Int /\ n \in Nat
    BY <1>1, <1>2, <1>3, <1>4
  <2> HIDE DEF g, m, t, d, r
  <2>2. g + m <= n /\ (t = d /\ m = 0 => b + d = g)
    BY <2>1, Chain
  <2> QED  BY <2>2 DEF g, m, t, d, r
<1>6. Complete(w) => CaughtUp(u, n, got, q)
  <2> SUFFICES ASSUME Complete(w)
               PROVE  CaughtUp(u, n, got, q)
    OBVIOUS
  <2>1. w.sent = Len(w.data) /\ Len(u.snd) = 0
    BY <1>2 DEF Complete
  <2>2. u.snd = << >>
    BY <1>3, <2>1
  <2>3. b + Len(w.data) = Len(got)
    BY <1>5, <2>1
  <2>4. From(q, Len(got)) /\ Len(got) + Len(q) = n
    BY <1>4, <2>3, SMTT(30)
  <2> QED  BY <2>2, <2>4 DEF CaughtUp
<1>7. /\ From(w.data, (Len(got) + Len(u.snd)) - w.sent)
      /\ From(q, (Len(got) + Len(u.snd)) - w.sent + Len(w.data))
      /\ (Len(got) + Len(u.snd)) - w.sent + Len(w.data) + Len(q) = n
  BY <1>4
<1>8. Behind(u.writes[1], Len(got) + Len(u.snd), n, q)
  BY <1>7 DEF Behind, w
<1>9. u.writes # << >> /\ Complete(u.writes[1]) => CaughtUp(u, n, got, q)
  BY <1>6 DEF w
<1>10. From(got, 0) /\ From(u.snd, Len(got)) /\ Len(got) + Len(u.snd) <= n
  BY <1>0, <1>5, SMTT(30)
<1> QED  BY <1>0, <1>8, <1>9, <1>10, SMTT(30) DEF Downstream

\* uvl_client_sent_func: the acknowledged bytes are taken off the request.
LEMMA SentEffect ==
    ASSUME NEW s, NEW a
    PROVE  /\ Control(s) /\ s.pcb = "live" /\ s.fault = "none" /\ Unacked(s)
           /\ a \in 0 .. Len(s.snd)
           => LET v == SentFunc(s, a) IN
              /\ Control(v) /\ v.pcb = "live" /\ v.fault = "none" /\ Unacked(v)
              /\ v.kind = s.kind /\ v.wnd = s.wnd /\ v.buf = s.buf /\ v.pOut = s.pOut
              /\ \A n \in Nat : \A got, q :
                   Downstream(s, n, got, q) /\ s.kind # "fake" =>
                       Downstream(v, n, got \o SubSeq(s.snd, 1, a), q)
<1> DEFINE v == SentFunc(s, a)
<1>0. SUFFICES ASSUME Control(s), s.pcb = "live", s.fault = "none", Unacked(s),
                      a \in 0 .. Len(s.snd)
      PROVE   /\ Control(v) /\ v.pcb = "live" /\ v.fault = "none" /\ Unacked(v)
              /\ v.kind = s.kind /\ v.wnd = s.wnd /\ v.buf = s.buf /\ v.pOut = s.pOut
              /\ \A n \in Nat : \A got, q :
                   Downstream(s, n, got, q) /\ s.kind # "fake" =>
                       Downstream(v, n, got \o SubSeq(s.snd, 1, a), q)
  OBVIOUS
<1>1. /\ s \in Connection /\ Life(s) /\ Proxy(s) /\ Len(s.writes) <= 1
      /\ s.writes \in Seq(Request) /\ s.snd \in Seq(Nat)
  <2>1. s \in Connection /\ Life(s) /\ Proxy(s)
    BY <1>0 DEF Control, Steady
  <2> QED  BY <2>1, Zenon DEF Proxy, Connection
<1>2. Len(s.snd) \in Nat /\ a \in Nat /\ a <= Len(s.snd)
  BY <1>0, <1>1
<1>3. CASE a = 0
  <2>1. v = s
    BY <1>3 DEF SentFunc
  <2>2. ASSUME NEW n \in Nat, NEW got, NEW q, Downstream(s, n, got, q)
        PROVE  got \o SubSeq(s.snd, 1, a) = got
    <3>1. got \in Seq(Nat)
      BY <2>2 DEF Downstream, From
    <3>2. SubSeq(s.snd, 1, a) = << >>
      BY <1>1, <1>3
    <3>3. got \o << >> = got
      BY <3>1, ConcatEmpty, SMTT(30)
    <3> QED  BY <3>2, <3>3, ZenonT(60)
  <2> QED  BY <1>0, <2>1, <2>2, Zenon
<1>4. CASE a # 0
  <2> DEFINE w == s.writes[1]
             x == [w EXCEPT !.pending = w.pending - a]
             ws == [i \in DOMAIN s.writes |->
                       [s.writes[i] EXCEPT !.pending = @ - Share(Pending(s), a)[i]]]
             rest == SubSeq(s.snd, a + 1, Len(s.snd))
  <2>1. s.writes # << >>
    BY <1>0, <1>2, <1>4 DEF Unacked
  <2>2. /\ Len(s.writes) = 1 /\ w \in Request /\ w.data \in Seq(Nat) /\ w.sent \in Nat
        /\ w.pending \in Nat /\ Len(w.data) \in Nat
    BY <1>1, <2>1, FirstRequest
  <2>3. w.sent <= Len(w.data) /\ Len(s.snd) = w.pending /\ Len(s.snd) <= SndBuf
    BY <1>0, <2>1, SMTT(30) DEF Unacked
  <2>4. DOMAIN s.writes = {1}
    BY <1>1, <2>2
  <2>5. Pending(s) \in Seq(Nat) /\ Len(Pending(s)) = 1 /\ Pending(s)[1] = w.pending
    <3>1. Pending(s) = [i \in 1 .. 1 |-> s.writes[i].pending]
      BY <1>1, <2>2 DEF Pending
    <3>2. \A i \in 1 .. 1 : s.writes[i].pending \in Nat
      BY <2>2
    <3> QED  BY <3>1, <3>2
  <2>6. Total(Pending(s)) = w.pending
    <3>1. Pending(s) # << >> /\ Len(Pending(s)) <= 1
      BY <2>5, Nonempty
    <3>2. Total(Pending(s)) = Pending(s)[1]
      BY <2>5, <3>1, TotalShort, ZenonT(60)
    <3> QED  BY <2>5, <3>2
  <2>7. Share(Pending(s), a)[1] = a
    <3>1. Share(Pending(s), a)[1] = IF a < w.pending THEN a ELSE w.pending
      BY <1>2, <2>5, ShareShort, SMTT(30)
    <3> QED  BY <1>2, <2>2, <2>3, <3>1, SMTT(30)
  <2>8. ~ (a > Total(Pending(s)))
    BY <1>2, <2>2, <2>3, <2>6
  <2>9. v = [s EXCEPT !.snd = rest, !.writes = ws, !.asyncW = TRUE]
    BY <1>4, <2>8 DEF SentFunc
  <2>10. ws \in Seq(Request) /\ Len(ws) = 1 /\ ws # << >> /\ ws[1] = x
    <3>1. x \in Request
      <4>1. w.pending - a \in Nat
        BY <1>2, <2>2, <2>3
      <4> QED  BY <2>2, <4>1 DEF Request
    <3>2. ws = [i \in 1 .. 1 |-> x]
      <4>1. \A i \in {1} : [s.writes[i] EXCEPT !.pending = @ - Share(Pending(s), a)[i]] = x
        BY <2>2, <2>7
      <4>2. 1 .. 1 = {1}
        OBVIOUS
      <4> QED  BY <2>4, <4>1, <4>2
    <3> HIDE DEF x, ws
    <3> QED  BY <3>1, <3>2
  <2>11. x.data = w.data /\ x.sent = w.sent /\ x.pending = w.pending - a
    BY <2>2 DEF Request
  <2>12. rest \in Seq(Nat) /\ Len(rest) = Len(s.snd) - a
    BY <1>1, <1>2
  <2> HIDE DEF w, x, ws, rest, v
  <2>13. v \in Connection
    BY <1>1, <2>9, <2>10, <2>12, ZenonT(60) DEF Connection
  <2>14. /\ SameControl(s, v) /\ v.snd = rest /\ v.writes = ws
         /\ v.wnd = s.wnd /\ v.buf = s.buf
    <3>1. SameControl(s, v)
      BY <1>1, <2>9, Zenon DEF Connection, SameControl
    <3>2. v.snd = rest /\ v.writes = ws /\ v.wnd = s.wnd /\ v.buf = s.buf
      BY <1>1, <2>9, ZenonT(60) DEF Connection
    <3> QED  BY <3>1, <3>2
  <2>15. Control(v)
    <3>1. Len(v.writes) <= 1 /\ v.writes # << >>
      BY <2>10, <2>14, Nonempty
    <3> QED  BY <1>0, <2>1, <2>13, <2>14, <3>1, SameControlKeeps
  <2>16. Unacked(v)
    <3>1. Len(rest) <= SndBuf /\ x.sent <= Len(x.data) /\ Len(rest) = x.pending
      BY <1>2, <2>2, <2>3, <2>11, <2>12, BridgeAssumption
    <3> QED  BY <2>10, <2>14, <3>1 DEF Unacked
  <2>17. ASSUME NEW n \in Nat, NEW got, NEW q, Downstream(s, n, got, q), s.kind # "fake"
         PROVE  Downstream(v, n, got \o SubSeq(s.snd, 1, a), q)
    <3> DEFINE b == (Len(got) + Len(s.snd)) - w.sent
               g == got \o SubSeq(s.snd, 1, a)
    <3>1. /\ From(got, 0) /\ From(s.snd, Len(got))
          /\ From(w.data, b) /\ From(q, b + Len(w.data)) /\ b + Len(w.data) + Len(q) = n
      <4>1. s.pcb \in {"none", "live"}
        BY <1>0, SMTT(30)
      <4>2. Behind(s.writes[1], Len(got) + Len(s.snd), n, q)
        BY <2>1, <2>17, <4>1, SMTT(30) DEF Downstream
      <4>3. From(got, 0) /\ From(s.snd, Len(got))
        BY <2>17 DEF Downstream
      <4> QED  BY <4>2, <4>3 DEF Behind, w
    <3>2. Len(got) \in Nat /\ 0 + Len(got) = Len(got) /\ b \in Int
      <4>1. Len(got) \in Nat
        BY <3>1 DEF From
      <4> QED  BY <1>2, <2>2, <4>1
    <3>3. /\ From(SubSeq(s.snd, 1, a), Len(got)) /\ Len(SubSeq(s.snd, 1, a)) = a
          /\ From(rest, Len(got) + a)
      BY <1>2, <3>1, <3>2, FromSplit DEF rest
    <3>4. From(g, 0) /\ Len(g) = Len(got) + a
      <4>1. From(g, 0) /\ Len(g) = Len(got) + Len(SubSeq(s.snd, 1, a))
        BY <3>1, <3>3, FromGrow, Zenon
      <4> QED  BY <3>3, <4>1, Zenon
    <3>5. b = (Len(g) + Len(v.snd)) - v.writes[1].sent
      <4>1. v.writes[1].sent = w.sent /\ Len(v.snd) = Len(s.snd) - a
        BY <2>10, <2>11, <2>12, <2>14
      <4>2. (Len(got) + a) + (Len(s.snd) - a) = Len(got) + Len(s.snd)
        BY <1>2, <3>2, Moved, ZenonT(60)
      <4> QED  BY <3>4, <4>1, <4>2, ZenonT(60)
    <3>6. From(v.snd, Len(g)) /\ v.writes[1].data = w.data
      BY <2>10, <2>11, <2>14, <3>3, <3>4, Zenon
    <3>7. /\ Len(v.writes) <= 1 /\ v.writes # << >> /\ v.pcb = "live"
          /\ ~ v.pReading /\ v.ptcp \in {"ready", "closed"}
      <4>1. Len(v.writes) <= 1 /\ v.writes # << >>
        BY <2>10, <2>14, Nonempty
      <4>2. v.pcb = "live" /\ v.pReading = s.pReading /\ v.ptcp = s.ptcp
        BY <1>0, <2>14, Zenon DEF SameControl
      <4>3. ~ s.pReading /\ s.ptcp \in {"ready", "closed"}
        BY <1>1, <2>1, <2>17, Zenon DEF Proxy
      <4> QED  BY <4>1, <4>2, <4>3, Zenon
    <3> HIDE DEF b, g
    <3>8. Downstream(v, n, g, q)
      BY <2>13, <2>16, <3>1, <3>2, <3>4, <3>5, <3>6, <3>7, DownstreamLive, Zenon
    <3> QED  BY <3>8, SMTT(30) DEF g
  <2> QED  BY <1>0, <2>14, <2>15, <2>16, <2>17, SMTT(30) DEF SameControl
<1> QED  BY <1>3, <1>4

\* s with the console's bytes up to m taken in is v.
Received(s, v, m, got) ==
    /\ Control(v) /\ v.pcb = "live" /\ v.fault = "none"
    /\ Upstream(v, m, got)
    /\ v.kind = s.kind /\ v.snd = s.snd /\ v.writes = s.writes
    /\ v.pReading = s.pReading /\ v.ptcp = s.ptcp

\* uvl_client_recv_func: the window lets in no more than recv_buf takes.
LEMMA RecvEffect ==
    ASSUME NEW s, NEW m, NEW got, NEW data
    PROVE  /\ Control(s) /\ s.pcb = "live" /\ s.fault = "none"
           /\ m \in Nat /\ Upstream(s, m, got) /\ From(data, m) /\ Len(data) <= s.wnd
           => Received(s, RecvFunc(s, data), m + Len(data), got)
<1> DEFINE v == RecvFunc(s, data)
<1>0. SUFFICES ASSUME Control(s), s.pcb = "live", s.fault = "none", m \in Nat,
                      Upstream(s, m, got), From(data, m), Len(data) <= s.wnd
               PROVE  Received(s, v, m + Len(data), got)
  OBVIOUS
<1>1. /\ s \in Connection /\ s.wnd \in Int /\ s.buf \in Seq(Nat) /\ Len(s.writes) <= 1
  BY <1>0, Zenon DEF Control, Steady, Proxy, Connection
<1>2. /\ From(got, 0) /\ From(s.pOut, Len(got)) /\ Len(got) + Len(s.pOut) <= m
      /\ s.wnd \in 0 .. Wnd /\ Len(s.buf) <= Wnd
      /\ From(s.buf, Len(got) + Len(s.pOut))
      /\ Len(got) + Len(s.pOut) + Len(s.buf) = m /\ s.wnd = Wnd - Len(s.buf)
  BY <1>0, ZenonT(60) DEF Upstream
<1>3. /\ Len(got) \in Nat /\ Len(s.pOut) \in Nat /\ Len(s.buf) \in Nat /\ Len(data) \in Nat
      /\ data \in Seq(Nat)
  BY <1>0, <1>2 DEF From
<1>11. /\ Len(got) + Len(s.pOut) \in Int /\ (Len(got) + Len(s.pOut)) + Len(s.buf) = m
      /\ ~ (Len(data) > Wnd - Len(s.buf))
      /\ s.wnd - Len(data) \in 0 .. Wnd /\ Len(s.buf) + Len(data) <= Wnd
      /\ s.wnd - Len(data) = Wnd - (Len(s.buf) + Len(data))
      /\ Len(got) + Len(s.pOut) <= m + Len(data)
      /\ (Len(got) + Len(s.pOut)) + (Len(s.buf) + Len(data)) = m + Len(data)
  <2> DEFINE g == Len(got)
             p == Len(s.pOut)
             b == Len(s.buf)
             d == Len(data)
             w == s.wnd
  <2>1. /\ g \in Nat /\ p \in Nat /\ b \in Nat /\ d \in Nat /\ w \in Nat
        /\ m \in Nat /\ Wnd \in Nat /\ g + p + b = m /\ w = Wnd - b /\ d <= w
    <3>1. w \in Nat
      BY <1>2, BridgeAssumption
    <3>2. g + p + b = m /\ w = Wnd - b
      BY <1>2, Zenon
    <3>3. m \in Nat /\ d <= w
      BY <1>0
    <3> QED  BY <1>3, <3>1, <3>2, <3>3, BridgeAssumption, ZenonT(60)
  <2> HIDE DEF g, p, b, d, w
  <2>2. /\ g + p \in Int /\ (g + p) + b = m /\ ~ (d > Wnd - b)
        /\ w - d \in 0 .. Wnd /\ b + d <= Wnd /\ w - d = Wnd - (b + d)
        /\ g + p <= m + d /\ (g + p) + (b + d) = m + d
    BY <2>1, Fits
  <2> QED  BY <2>2, Zenon DEF g, p, b, d, w
<1>4. CASE data = << >>
  <2>1. v = s
    BY <1>4 DEF RecvFunc
  <2>2. m + Len(data) = m
    BY <1>0, <1>4, FromEmpty, SMTT(30)
  <2> QED  BY <1>0, <2>1, <2>2 DEF Received
<1>5. CASE data # << >>
  <2> DEFINE u == [s EXCEPT !.wnd = s.wnd - Len(data), !.buf = s.buf \o data, !.asyncR = TRUE]
             x == s.buf \o data
  <2>1. ~ (Len(data) > Wnd - Len(s.buf))
    BY <1>11
  <2>2. v = u
    BY <1>5, <2>1, Zenon DEF RecvFunc
  <2>3. Len(got) + Len(s.pOut) \in Int /\ (Len(got) + Len(s.pOut)) + Len(s.buf) = m
    BY <1>11, Zenon
  <2>4. From(x, Len(got) + Len(s.pOut)) /\ Len(x) = Len(s.buf) + Len(data)
    BY <1>0, <1>2, <2>3, FromConcat, ZenonT(60)
  <2>5. x \in Seq(Nat) /\ s.wnd - Len(data) \in Int
    BY <1>1, <1>3, <2>4 DEF From
  <2> HIDE DEF x
  <2>6. u = [s EXCEPT !.wnd = s.wnd - Len(data), !.buf = x, !.asyncR = TRUE]
    BY DEF x
  <2> HIDE DEF u, v
  <2>7. u \in Connection
    BY <1>1, <2>5, <2>6, ZenonT(60) DEF Connection
  <2>8. /\ SameControl(s, u) /\ u.wnd = s.wnd - Len(data) /\ u.buf = x
        /\ u.snd = s.snd /\ u.writes = s.writes
    BY <1>1, <2>6, Zenon DEF Connection, SameControl
  <2>9. Control(u)
    BY <1>0, <1>1, <2>7, <2>8, SameControlKeeps, SMTT(30)
  <2>10. Upstream(u, m + Len(data), got)
    <3>1. /\ u.pOut = s.pOut
      BY <2>8 DEF SameControl
    <3>2. /\ Len(got) + Len(s.pOut) <= m + Len(data)
          /\ (Len(got) + Len(s.pOut)) + Len(u.buf) = m + Len(data)
      BY <1>11, <2>4, <2>8, ZenonT(60)
    <3>3. u.wnd \in 0 .. Wnd /\ Len(u.buf) <= Wnd /\ u.wnd = Wnd - Len(u.buf)
      BY <1>11, <2>4, <2>8
    <3> QED  BY <1>0, <1>2, <2>4, <2>8, <3>1, <3>2, <3>3, SMTT(30) DEF Upstream
  <2> QED  BY <1>0, <2>2, <2>8, <2>9, <2>10 DEF SameControl, Received
<1> QED  BY <1>4, <1>5

\* A segment of the console.
LEMMA SegmentStep ==
    ASSUME IInv, NEW n \in 0 .. CMax, NEW a \in 0 .. SndBuf, NEW fin \in BOOLEAN,
           Segment(n, a, fin)
    PROVE  IInv'
<1> DEFINE data == SubSeq(Stream(CMax), cSent + 1, cSent + n)
           s == SentFunc(c, a)
           t == RecvFunc(s, data)
           got == cGot \o SubSeq(c.snd, 1, a)
<1>1. /\ c.fault = "none" /\ c.pcb = "live" /\ cSent + n <= CMax /\ n <= c.wnd
      /\ a <= Len(c.snd) /\ (c' = IF fin /\ t.fault = "none" THEN CloseFunc(t) ELSE t)
      /\ cSent' = cSent + n /\ cGot' = got
      /\ sock' = sock /\ rSent' = rSent /\ rGot' = rGot
  BY DEF Segment, Running
<1>2. /\ Control(c) /\ c.snd \in Seq(Nat) /\ Upstream(c, cSent, rGot) /\ Unacked(c)
      /\ c.kind # "fake" => Downstream(c, rSent, cGot, sock)
      /\ cSent \in Nat /\ rSent \in Nat /\ cGot \in Seq(Nat)
      /\ rSent \in 0 .. RMax /\ sock \in Seq(Nat) /\ rGot \in Seq(Nat)
  <2>1. /\ Control(c) /\ Upstream(c, cSent, rGot) /\ Unacked(c)
        /\ c.kind # "fake" => Downstream(c, rSent, cGot, sock)
        /\ cSent \in 0 .. CMax /\ rSent \in 0 .. RMax
        /\ cGot \in Seq(Nat) /\ sock \in Seq(Nat) /\ rGot \in Seq(Nat)
    BY Zenon DEF IInv
  <2>2. c.snd \in Seq(Nat)
    BY <2>1, Zenon DEF Control, Steady, Connection
  <2>3. cSent \in Nat /\ rSent \in Nat
    BY <2>1
  <2> QED  BY <2>1, <2>2, <2>3
<1>3. a \in 0 .. Len(c.snd) /\ n \in Nat /\ CMax \in Nat
  BY <1>1, <1>2, BridgeAssumption
<1>4. From(data, cSent) /\ Len(data) = n
  BY <1>1, <1>2, <1>3, StreamPart, Zenon
<1>5. got \in Seq(Nat)
  <2>1. SubSeq(c.snd, 1, a) \in Seq(Nat)
    BY <1>2, <1>3, Prefix, Zenon
  <2> QED  BY <1>2, <2>1
<1>6. /\ Control(s) /\ s.pcb = "live" /\ s.fault = "none" /\ Unacked(s)
      /\ s.kind = c.kind /\ s.wnd = c.wnd /\ s.buf = c.buf /\ s.pOut = c.pOut
      /\ \A k \in Nat : \A g, q : Downstream(c, k, g, q) /\ c.kind # "fake" =>
            Downstream(s, k, g \o SubSeq(c.snd, 1, a), q)
  BY <1>1, <1>2, <1>3, SentEffect, ZenonT(60)
<1>7. c.kind # "fake" => Downstream(s, rSent, got, sock)
  BY <1>2, <1>6
<1> HIDE DEF data, s, got
<1>8. Upstream(s, cSent, rGot)
  BY <1>1, <1>2, <1>6, ZenonT(60) DEF Upstream
<1>9. /\ Control(t) /\ t.pcb = "live" /\ t.fault = "none"
      /\ Upstream(t, cSent + n, rGot)
      /\ t.kind = s.kind /\ t.snd = s.snd /\ t.writes = s.writes
      /\ t.pReading = s.pReading /\ t.ptcp = s.ptcp
  <2>1. Len(data) <= s.wnd
    BY <1>1, <1>4, <1>6
  <2>2. Received(s, t, cSent + Len(data), rGot)
    <3>1. /\ Control(s) /\ s.pcb = "live" /\ s.fault = "none"
          /\ cSent \in Nat /\ Upstream(s, cSent, rGot) /\ From(data, cSent)
          /\ Len(data) <= s.wnd
      BY <1>2, <1>4, <1>6, <1>8, <2>1, SMTT(30)
    <3> QED  BY <3>1, RecvEffect, ZenonT(60)
  <2> QED  BY <1>4, <2>2, SMTT(30) DEF Received
<1> HIDE DEF t
<1>10. Unacked(t)
  BY <1>6, <1>9 DEF Unacked
<1>11. c.kind # "fake" => Downstream(t, rSent, got, sock)
  BY <1>6, <1>7, <1>9, ZenonT(60) DEF Downstream, CaughtUp
<1>12. cSent + n \in 0 .. CMax /\ cSent + n \in Nat
  BY <1>1, <1>2, <1>3, SMTT(30)
<1>13. CASE fin
  <2>1. c' = ClientFreed(TcpClose(t))
    BY <1>1, <1>9, <1>13, Zenon DEF CloseFunc
  <2>2. Control(c') /\ Closes(t, c')
    BY <1>9, <2>1, FreedEffect, Zenon
  <2>3. c'.kind = c.kind /\ t \in Connection
    BY <1>6, <1>9, <2>2, Zenon DEF Closes, Control, Steady
  <2>4. Upstream(c', cSent + n, rGot) /\ Unacked(c')
    BY <1>9, <1>10, <1>12, <2>2, <2>3, ClosesUpstream, ClosesUnacked, ZenonT(60)
  <2>5. c.kind # "fake" => Downstream(c', rSent, got, sock)
    BY <1>2, <1>11, <2>2, <2>3, ClosesDownstream, SMTT(30)
  <2> QED  BY <1>1, <1>2, <1>5, <1>12, <2>2, <2>3, <2>4, <2>5 DEF IInv
<1>14. CASE ~ fin
  <2>1. c' = t
    BY <1>1, <1>14
  <2> QED  BY <1>1, <1>2, <1>5, <1>6, <1>9, <1>10, <1>11, <1>12, <2>1, SMTT(30) DEF IInv
<1> QED  BY <1>13, <1>14

\* A part of a sequence.
LEMMA Piece ==
    ASSUME NEW q \in Seq(Nat), NEW k \in Nat, NEW n \in Nat, k + n <= Len(q)
    PROVE  SubSeq(q, k + 1, k + n) \in Seq(Nat) /\ Len(SubSeq(q, k + 1, k + n)) = n
<1>1. Len(q) \in Nat
  OBVIOUS
<1> QED  BY <1>1

\* A list of one element.
LEMMA Single ==
    ASSUME NEW S, NEW x \in S, NEW q, q = [i \in 1 .. 1 |-> x]
    PROVE  q \in Seq(S) /\ Len(q) = 1 /\ q[1] = x
  OBVIOUS

\* The arithmetic of a write: k is the smaller of the room and of what is unsent.
LEMMA Portion ==
    ASSUME NEW room \in Nat, NEW d \in Nat, NEW t \in Nat, t <= d, NEW m \in Nat,
           NEW size \in Nat, m <= size, room = size - m \/ room = 0, NEW k,
           k = IF room < d - t THEN room ELSE d - t
    PROVE  k \in Nat /\ t + k <= d /\ m + k <= size
  OBVIOUS

\* s with k more bytes of its request handed to lwIP is v.
Written(s, v, k) ==
    /\ s.pcb = "live" /\ s.fault = "none" /\ s.writes # << >> /\ v \in Connection
    /\ SameControl(s, v) /\ v.wnd = s.wnd /\ v.buf = s.buf
    /\ Len(v.writes) = 1 /\ k \in Nat
    /\ v.writes[1].data = s.writes[1].data
    /\ v.writes[1].sent = s.writes[1].sent + k
    /\ v.writes[1].pending = s.writes[1].pending + k
    /\ v.snd = s.snd \o SubSeq(s.writes[1].data, s.writes[1].sent + 1, s.writes[1].sent + k)
    /\ s.writes[1].sent + k <= Len(s.writes[1].data) /\ Len(s.snd) + k <= SndBuf

\* uvl_imp_write_to_tcp does that.
LEMMA WriteEffect ==
    ASSUME NEW s, NEW mem \in BOOLEAN
    PROVE  /\ s \in Connection /\ s.pcb = "live" /\ s.fault = "none" /\ s.writes # << >>
           /\ Len(s.writes) <= 1 /\ Unacked(s)
           => \E k : Written(s, ImpWriteToTcp(s, mem), k)
<1> DEFINE v == ImpWriteToTcp(s, mem)
           w == s.writes[1]
           room == IF mem THEN SndBuf - Len(s.snd) ELSE 0
           put == Share(Unsent(s), room)
           k == put[1]
           x == [w EXCEPT !.sent = w.sent + k, !.pending = w.pending + k]
           ws == [i \in DOMAIN s.writes |->
                    [s.writes[i] EXCEPT !.sent = @ + put[i], !.pending = @ + put[i]]]
           ps == [i \in DOMAIN s.writes |->
                    SubSeq(s.writes[i].data, s.writes[i].sent + 1, s.writes[i].sent + put[i])]
           part == SubSeq(w.data, w.sent + 1, w.sent + k)
           more == s.snd \o part
<1>0. SUFFICES ASSUME s \in Connection, s.pcb = "live", s.fault = "none", s.writes # << >>,
                      Len(s.writes) <= 1, Unacked(s)
               PROVE  \E z : Written(s, v, z)
  BY SMTT(30)
<1>1. /\ Len(s.writes) = 1 /\ w \in Request /\ w.data \in Seq(Nat) /\ w.sent \in Nat
      /\ w.pending \in Nat /\ Len(w.data) \in Nat /\ s.writes \in Seq(Request)
  BY <1>0, FirstRequest
<1>2. s.snd \in Seq(Nat) /\ Len(s.snd) \in Nat
  <2>1. s.snd \in Seq(Nat)
    BY <1>0, Zenon DEF Connection
  <2> QED  BY <2>1
<1>3. w.sent <= Len(w.data) /\ Len(s.snd) <= SndBuf
  BY <1>0 DEF Unacked
<1>4. DOMAIN s.writes = {1}
  BY <1>1
<1>5. room \in Nat /\ (room = SndBuf - Len(s.snd) \/ room = 0)
  <2> DEFINE m == Len(s.snd)
  <2>1. m \in Nat /\ m <= SndBuf /\ SndBuf \in Nat
    BY <1>2, <1>3, BridgeAssumption
  <2> HIDE DEF m
  <2>2. SndBuf - m \in Nat
    BY <2>1
  <2> QED  BY <2>2 DEF m
<1>6. v = [s EXCEPT !.snd = s.snd \o Joined(ps), !.writes = ws]
  BY DEF ImpWriteToTcp
<1> HIDE DEF room
<1>7. Unsent(s) \in Seq(Nat) /\ Len(Unsent(s)) = 1 /\ Unsent(s)[1] = Len(w.data) - w.sent
  <2>1. Unsent(s) = [i \in 1 .. 1 |-> Len(s.writes[i].data) - s.writes[i].sent]
    BY <1>1 DEF Unsent
  <2>2. Len(w.data) - w.sent \in Nat
    BY <1>1, <1>3
  <2>3. \A i \in 1 .. 1 : Len(s.writes[i].data) - s.writes[i].sent \in Nat
    BY <2>2, SMTT(30)
  <2> QED  BY <2>1, <2>3
<1>8. k = IF room < Len(w.data) - w.sent THEN room ELSE Len(w.data) - w.sent
  <2>1. k = IF room < Unsent(s)[1] THEN room ELSE Unsent(s)[1]
    BY <1>5, <1>7, ShareShort, SMTT(30)
  <2> QED  BY <1>7, <2>1, SMTT(30)
<1>9. k \in Nat /\ w.sent + k <= Len(w.data) /\ Len(s.snd) + k <= SndBuf
  <2> DEFINE d == Len(w.data)
             t == w.sent
             m == Len(s.snd)
             z == k
  <2>1. /\ room \in Nat /\ d \in Nat /\ t \in Nat /\ t <= d /\ m \in Nat /\ SndBuf \in Nat
        /\ m <= SndBuf /\ (room = SndBuf - m \/ room = 0)
        /\ z = IF room < d - t THEN room ELSE d - t
    BY <1>1, <1>2, <1>3, <1>5, <1>8, BridgeAssumption
  <2> HIDE DEF d, t, m, z
  <2>2. z \in Nat /\ t + z <= d /\ m + z <= SndBuf
    BY <2>1, Portion
  <2> QED  BY <2>2, SMTT(30) DEF d, t, m, z
<1>10. part \in Seq(Nat)
  <2> HIDE DEF k
  <2> QED  BY <1>1, <1>9, Piece, Zenon
<1>11. Joined(ps) = part
  <2>1. ps = [i \in 1 .. 1 |-> part]
    <3>1. \A i \in {1} : SubSeq(s.writes[i].data, s.writes[i].sent + 1,
                                s.writes[i].sent + put[i]) = part
      BY Zenon
    <3>2. 1 .. 1 = {1}
      OBVIOUS
    <3> HIDE DEF part
    <3> QED  BY <1>4, <3>1, <3>2
  <2> HIDE DEF part, ps
  <2>2. ps \in Seq(Seq(Nat)) /\ Len(ps) = 1 /\ ps[1] = part
    BY <1>10, <2>1, Single
  <2>3. ps # << >> /\ Len(ps) <= 1
    BY <2>2, Nonempty
  <2> QED  BY <2>2, <2>3, JoinedShort, ZenonT(60)
<1>12. x \in Request /\ x.data = w.data /\ x.sent = w.sent + k /\ x.pending = w.pending + k
  <2>1. w.sent + k \in Nat /\ w.pending + k \in Nat
    BY <1>1, <1>9, SMTT(30)
  <2> HIDE DEF k
  <2> QED  BY <1>1, <2>1, ZenonT(60) DEF Request
<1>13. ws = [i \in 1 .. 1 |-> x]
  <2>1. \A i \in {1} : [s.writes[i] EXCEPT !.sent = @ + put[i], !.pending = @ + put[i]] = x
    BY <1>1
  <2>2. 1 .. 1 = {1}
    OBVIOUS
  <2> HIDE DEF x, put
  <2> QED  BY <1>4, <2>1, <2>2
<1> HIDE DEF x, ws, ps, part, k
<1>14. ws \in Seq(Request) /\ Len(ws) = 1 /\ ws[1] = x
  BY <1>12, <1>13, Single
<1>15. more \in Seq(Nat)
  BY <1>2, <1>10
<1>16. v = [s EXCEPT !.snd = more, !.writes = ws]
  BY <1>6, <1>11
<1> HIDE DEF more, v
<1>17. v \in Connection
  BY <1>0, <1>14, <1>15, <1>16, ZenonT(60) DEF Connection
<1>18. /\ SameControl(s, v) /\ v.wnd = s.wnd /\ v.buf = s.buf /\ v.snd = more /\ v.writes = ws
  BY <1>0, <1>16, Zenon DEF Connection, SameControl
<1>19. /\ Len(v.writes) = 1 /\ v.writes[1].data = w.data
       /\ v.writes[1].sent = w.sent + k /\ v.writes[1].pending = w.pending + k
  BY <1>12, <1>14, <1>18, SMTT(30)
<1>20. v.snd = s.snd \o SubSeq(w.data, w.sent + 1, w.sent + k)
  BY <1>18 DEF more, part
<1>21. Written(s, v, k)
  BY <1>0, <1>9, <1>17, <1>18, <1>19, <1>20, ZenonT(60) DEF Written
<1> QED  BY <1>21, SMTT(30)

\* What it does to the invariant's parts.
LEMMA WrittenKeeps ==
    ASSUME NEW s, NEW v, NEW k
    PROVE  Control(s) /\ Unacked(s) /\ Written(s, v, k) =>
           /\ Control(v) /\ Unacked(v)
           /\ \A n \in Nat : \A got, q :
                Downstream(s, n, got, q) /\ s.kind # "fake" => Downstream(v, n, got, q)
<1> DEFINE w == s.writes[1]
           part == SubSeq(w.data, w.sent + 1, w.sent + k)
<1>0. SUFFICES ASSUME Control(s), Unacked(s), Written(s, v, k)
               PROVE  /\ Control(v) /\ Unacked(v)
                      /\ \A n \in Nat : \A got, q : Downstream(s, n, got, q) /\ s.kind # "fake" =>
                            Downstream(v, n, got, q)
  BY SMTT(30)
<1>1. /\ s.pcb = "live" /\ s.fault = "none" /\ s.writes # << >> /\ v \in Connection
      /\ SameControl(s, v) /\ v.wnd = s.wnd /\ v.buf = s.buf
      /\ Len(v.writes) = 1 /\ k \in Nat
      /\ v.writes[1].data = w.data /\ v.writes[1].sent = w.sent + k
      /\ v.writes[1].pending = w.pending + k /\ v.snd = s.snd \o part
      /\ w.sent + k <= Len(w.data) /\ Len(s.snd) + k <= SndBuf
  BY <1>0 DEF Written
<1>2. /\ s \in Connection /\ Proxy(s) /\ s.snd \in Seq(Nat) /\ Len(s.writes) <= 1
  BY <1>0, ZenonT(60) DEF Control, Steady, Proxy, Connection
<1>3. v.writes # << >> /\ Len(v.writes) <= 1
  BY <1>1, Nonempty
<1>4. Control(v)
  BY <1>0, <1>1, <1>3, SameControlKeeps, ZenonT(60)
<1>5. /\ w.data \in Seq(Nat) /\ w.sent \in Nat /\ w.pending \in Nat /\ Len(w.data) \in Nat
      /\ Len(s.snd) \in Nat
  <2>1. Len(s.snd) \in Nat
    BY <1>2, SMTT(30)
  <2>2. w.data \in Seq(Nat) /\ w.sent \in Nat /\ w.pending \in Nat
    BY <1>1, <1>2, FirstRequest
  <2>3. Len(w.data) \in Nat
    BY <2>2
  <2> QED  BY <2>1, <2>2, <2>3
<1>6. part \in Seq(Nat) /\ Len(part) = k
  BY <1>1, <1>5, Piece, Zenon
<1>7. Len(v.snd) = Len(s.snd) + k
  <2>1. v.snd = s.snd \o part
    BY <1>1
  <2>2. s.snd \in Seq(Nat)
    BY <1>2
  <2> HIDE DEF part
  <2>3. Len(s.snd \o part) = Len(s.snd) + Len(part)
    BY <1>6, <2>2, ConcatLen, Zenon
  <2> QED  BY <1>6, <2>1, <2>3, ZenonT(60)
<1>8. Len(s.snd) = w.pending
  BY <1>0, <1>1, ZenonT(60) DEF Unacked
<1>9. Unacked(v)
  <2>1. Len(v.snd) <= SndBuf /\ v.writes[1].sent <= Len(v.writes[1].data)
        /\ Len(v.snd) = v.writes[1].pending
    BY <1>1, <1>7, <1>8, Zenon
  <2> QED  BY <1>3, <2>1 DEF Unacked
<1>10. /\ v.pcb = "live" /\ ~ s.pReading /\ v.pReading = s.pReading /\ v.ptcp = s.ptcp
       /\ s.kind # "fake" => s.ptcp \in {"ready", "closed"}
  BY <1>1, <1>2, Zenon DEF Proxy, SameControl
<1>11. ASSUME NEW n \in Nat, NEW got, NEW q, Downstream(s, n, got, q), s.kind # "fake"
       PROVE  Downstream(v, n, got, q)
  <2> DEFINE b == (Len(got) + Len(s.snd)) - w.sent
  <2>1. From(got, 0) /\ From(s.snd, Len(got))
    BY <1>11 DEF Downstream
  <2>2. Behind(w, Len(got) + Len(s.snd), n, q)
    <3>1. s.pcb \in {"none", "live"}
      BY <1>1
    <3> QED  BY <1>1, <1>11, <3>1, ZenonT(60) DEF Downstream
  <2>3. From(w.data, b) /\ From(q, b + Len(w.data)) /\ b + Len(w.data) + Len(q) = n
    BY <2>2 DEF Behind
  <2>4. Len(got) \in Nat
    BY <2>1 DEF From
  <2>5. b \in Int /\ b + w.sent = Len(got) + Len(s.snd)
    BY <1>5, <2>4
  <2>6. From(part, Len(got) + Len(s.snd))
    <3>1. From(part, b + w.sent)
      BY <1>1, <1>5, <2>3, <2>5, FromPart, ZenonT(60)
    <3> QED  BY <2>5, <3>1
  <2>7. From(v.snd, Len(got))
    <3>1. Len(got) \in Int
      BY <2>4
    <3>2. v.snd = s.snd \o part
      BY <1>1, Zenon
    <3> HIDE DEF part
    <3>3. From(s.snd \o part, Len(got))
      BY <2>1, <2>6, <3>1, FromConcat, Zenon
    <3> QED  BY <3>2, <3>3, Zenon
  <2>8. b = (Len(got) + Len(v.snd)) - v.writes[1].sent
    <3> DEFINE g == Len(got)
               m == Len(s.snd)
               t == w.sent
    <3>1. g \in Nat /\ m \in Nat /\ t \in Nat /\ k \in Nat
      BY <1>1, <1>5, <2>4
    <3> HIDE DEF g, m, t
    <3>2. (g + m) - t = (g + (m + k)) - (t + k)
      BY <3>1, SMTT(30)
    <3> QED  BY <1>1, <1>7, <3>2, ZenonT(60) DEF g, m, t
  <2> HIDE DEF b
  <2> QED  BY <1>1, <1>3, <1>9, <1>10, <1>11, <2>1, <2>3, <2>5, <2>7, <2>8, DownstreamLive, ZenonT(60)
<1> QED  BY <1>4, <1>9, <1>11

\* The fake server hangs up.
LEMMA HangUpEffect ==
    ASSUME NEW s, Control(s), s.kind = "fake", s.handles = "open", s.fault = "none"
    PROVE  LET r == IClose(s) IN
           Control(r) /\ Closes(s, r) /\ r.closed /\ r.writes = << >>
<1> DEFINE r == IClose(s)
<1>1. s \in Connection /\ Life(s) /\ Proxy(s) /\ Base(s)
  BY SMTT(30) DEF Control, Steady
<1>2. ~ s.iclosing /\ ~ s.released /\ s.pcb # "none" /\ ~ s.killed /\ s.ptcp = "none" /\ ~ s.pReading
      /\ s.pOut = << >>
  BY <1>1 DEF Life, Base, Proxy
<1>3. PICK i \in BOOLEAN, n \in Int, p \in {"reset", "closing", s.pcb}, q \in {s.snd, << >>} :
         /\ IClose(s) = Shut(s, i, n, p, q)
         /\ s.released => n <= 0
         /\ ~ s.released => n = s.count
         /\ ~ s.closed => p \in {"reset", "closing"}
         /\ s.closed => p = s.pcb
  BY <1>1, <1>2, ICloseFirst, Zenon
<1>4. p \in {"closing", "reset", "gone"} /\ q \in Seq(Nat)
  BY <1>1, <1>3, Empties, ZenonT(60) DEF Life, Connection
<1> HIDE DEF r
<1>13. r = Shut(s, i, n, p, q)
  BY <1>3, SMTT(30) DEF r
<1>5. r \in Connection
  BY <1>1, <1>4, <1>13, ShutType, SMTT(30)
<1>6. /\ r.inSet = i /\ r.count = n /\ r.iclosing /\ r.pcb = p /\ r.snd = q
      /\ r.closed /\ r.writes = << >> /\ ~ r.readCb /\ r.handles = "closing"
      /\ r.kind = s.kind /\ r.wnd = s.wnd /\ r.buf = s.buf /\ r.killed = s.killed
      /\ r.ptcp = s.ptcp /\ r.pReading = s.pReading /\ r.pOut = s.pOut
      /\ r.released = s.released /\ r.selfClosed = s.selfClosed /\ r.timer = s.timer
      /\ r.fault = s.fault
  <2>1. /\ r.inSet = i /\ r.count = n /\ r.iclosing /\ r.pcb = p /\ r.snd = q
        /\ r.closed /\ r.writes = << >> /\ ~ r.readCb /\ r.handles = "closing"
    BY <1>1, <1>13, Zenon DEF Shut, Connection
  <2>2. /\ r.kind = s.kind /\ r.wnd = s.wnd /\ r.buf = s.buf /\ r.killed = s.killed
        /\ r.ptcp = s.ptcp /\ r.pReading = s.pReading /\ r.pOut = s.pOut
        /\ r.released = s.released /\ r.selfClosed = s.selfClosed /\ r.timer = s.timer
        /\ r.fault = s.fault
    BY <1>1, <1>13, ZenonT(60) DEF Shut, Connection
  <2> QED  BY <2>1, <2>2
<1>7. Life(r)
  BY <1>2, <1>4, <1>6 DEF Life
<1>8. Base(r)
  BY <1>1, <1>2, <1>3, <1>6, ZenonT(60) DEF Base
<1>9. Len(r.writes) <= 1
  BY <1>6, FromEmpty, SMTT(30)
<1>10. Proxy(r)
  BY <1>1, <1>2, <1>6, <1>9, SMTT(30) DEF Proxy
<1>11. Control(r)
  BY <1>5, <1>6, <1>7, <1>8, <1>10, SMTT(30) DEF Control, Steady, Faultless
<1>12. Closes(s, r)
  BY <1>3, <1>4, <1>5, <1>6, SMTT(30) DEF Closes
<1> QED  BY <1>6, <1>11, <1>12 DEF r

\* uvl_async_tcp_write_cb with a finished request: it is reported, and nothing
\* is left to write.
LEMMA FinishedStep ==
    ASSUME IInv, NEW mem \in BOOLEAN, NEW out \in BOOLEAN, AsyncWrite(mem, out),
           c.writes # << >>, Complete(c.writes[1])
    PROVE  IInv'
<1> DEFINE t == [c EXCEPT !.asyncW = FALSE, !.writes = << >>]
           u == [t EXCEPT !.pReading = (t.ptcp = "ready")]
<1>1. /\ c.fault = "none" /\ c.handles = "open" /\ c' = AsyncWriteCb(c, mem, out) /\ Others
      /\ cSent' = cSent /\ cGot' = cGot /\ sock' = sock /\ rSent' = rSent /\ rGot' = rGot
  BY DEF AsyncWrite, Running, Others
<1>2. /\ Control(c) /\ c \in Connection /\ Life(c) /\ Proxy(c) /\ Base(c)
      /\ c.writes \in Seq(Request) /\ Len(c.writes) <= 1
      /\ Upstream(c, cSent, rGot) /\ Unacked(c)
      /\ c.kind # "fake" => Downstream(c, rSent, cGot, sock)
  BY ZenonT(60) DEF IInv, Control, Steady, Proxy, Connection
<1>3. Unfinished(c) = << >> /\ Len(<< >>) < Len(c.writes)
  <2>1. Len(c.writes) = 1 /\ Len(<< >>) = 0
    BY <1>2, Short, Zenon
  <2>2. Unfinished(c) = << >>
    BY <1>2, UnfinishedShort, Zenon
  <2> QED  BY <2>1, <2>2
<1>4. t \in Connection
  BY <1>2, Empties, Zenon DEF Connection
<1>5. /\ t.writes = << >> /\ t.kind = c.kind /\ t.pcb = c.pcb /\ t.wnd = c.wnd
      /\ t.buf = c.buf /\ t.snd = c.snd /\ t.pOut = c.pOut
      /\ t.pReading = c.pReading /\ t.ptcp = c.ptcp
      /\ t.readCb = c.readCb /\ t.fault = "none" /\ t.closed = c.closed
      /\ t.handles = c.handles /\ t.iclosing = c.iclosing /\ t.killed = c.killed
      /\ t.inSet = c.inSet /\ t.released = c.released
      /\ t.count = c.count /\ t.selfClosed = c.selfClosed /\ t.timer = c.timer
  BY <1>1, <1>2, ZenonT(60) DEF Connection
<1>6. LET r == OnWrite(t)
      IN  c' = IF r.closed THEN [r EXCEPT !.writes = << >>]
               ELSE IF r.writes = << >> THEN r
               ELSE IF out THEN ImpWriteToTcp(r, mem)
               ELSE CloseFunc(ImpWriteToTcp(r, mem))
  BY <1>1, <1>3 DEF AsyncWriteCb
<1> HIDE DEF t
<1>7. Control(t)
  <2>1. Life(t) /\ Base(t)
    BY <1>1, <1>2, <1>5, ZenonT(60) DEF Life, Base
  <2>2. Len(t.writes) <= 1
    BY <1>5, FromEmpty
  <2>3. Proxy(t)
    BY <1>1, <1>2, <1>5, <2>2, ZenonT(60) DEF Proxy
  <2> QED  BY <1>1, <1>2, <1>4, <1>5, <2>1, <2>3, ZenonT(60) DEF Control, Steady, Faultless
<1>8. Unacked(t) /\ Upstream(t, cSent, rGot)
  <2>1. c.pcb \in {"none", "live"} => Len(c.snd) = 0
    BY <1>2, ZenonT(60) DEF Unacked, Complete
  <2>2. Len(c.snd) <= SndBuf
    BY <1>2, SMTT(30) DEF Unacked
  <2>3. Unacked(t)
    BY <1>5, <2>1, <2>2, SMTT(30) DEF Unacked
  <2> QED  BY <1>2, <1>5, <2>3, Zenon DEF Upstream
<1>9. CASE c.kind = "fake"
  <2> DEFINE r == IClose(t)
  <2>1. OnWrite(t) = r
    BY <1>5, <1>9, SMTT(30) DEF OnWrite
  <2>2. Control(r) /\ Closes(t, r) /\ r.closed /\ r.writes = << >>
    BY <1>1, <1>5, <1>7, <1>9, HangUpEffect
  <2>3. c' = [r EXCEPT !.writes = << >>]
    BY <1>6, <2>1, <2>2, Zenon
  <2> HIDE DEF r
  <2>4. c' = r
    <3>1. r \in Connection
      BY <2>2 DEF Closes
    <3>2. [r EXCEPT !.writes = << >>] = r
      BY <2>2, <3>1, ZenonT(60) DEF Connection
    <3> QED  BY <2>3, <3>2, SMTT(30)
  <2>5. Closes(c, r)
    BY <1>5, <2>2 DEF Closes
  <2> QED  BY <1>1, <2>2, <2>4, <2>5, CloseStep
<1>10. CASE c.kind # "fake"
  <2>1. OnWrite(t) = u
    BY <1>5, <1>10 DEF OnWrite
  <2>2. u \in Connection /\ u.writes = << >> /\ u.pReading = (c.ptcp = "ready")
    <3>1. u \in Connection
      BY <1>4, ZenonT(60) DEF Connection
    <3>2. u.writes = << >>
      BY <1>4, <1>5, Zenon DEF Connection
    <3>3. u.pReading = (c.ptcp = "ready")
      BY <1>4, <1>5, Zenon DEF Connection
    <3> QED  BY <3>1, <3>2, <3>3
  <2>3. /\ u.kind = c.kind /\ u.pcb = c.pcb /\ u.wnd = c.wnd
        /\ u.buf = c.buf /\ u.snd = c.snd /\ u.pOut = c.pOut /\ u.ptcp = c.ptcp
        /\ u.readCb = t.readCb /\ u.fault = "none" /\ u.closed = t.closed
        /\ u.handles = t.handles /\ u.iclosing = t.iclosing /\ u.killed = t.killed
        /\ u.inSet = t.inSet /\ u.released = t.released
        /\ u.count = t.count /\ u.selfClosed = t.selfClosed /\ u.timer = t.timer
    BY <1>4, <1>5, ZenonT(60) DEF Connection
  <2> HIDE DEF u
  <2>4. c' = u
    <3>1. [u EXCEPT !.writes = << >>] = u
      BY <2>2, ZenonT(60) DEF Connection
    <3> QED  BY <1>6, <2>1, <2>2, <3>1, Zenon
  <2>5. Control(u)
    <3>1. Life(t) /\ Base(t) /\ Proxy(t)
      BY <1>7 DEF Control, Steady
    <3>2. Life(u) /\ Base(u)
      <4>0. /\ u.pcb = t.pcb /\ u.handles = t.handles /\ u.writes = t.writes
            /\ u.kind = t.kind /\ u.closed = t.closed /\ u.iclosing = t.iclosing
            /\ u.killed = t.killed /\ u.released = t.released
        BY <1>5, <2>2, <2>3, Zenon
      <4>1. Life(u)
        BY <3>1, <4>0, Zenon DEF Life
      <4>2. Base(u)
        BY <2>3, <3>1, ZenonT(60) DEF Base
      <4> QED  BY <4>1, <4>2
    <3>3. Proxy(u)
      <4>1. Len(u.writes) <= 1
        BY <2>2, FromEmpty
      <4> QED  BY <1>5, <2>2, <2>3, <3>1, <4>1, ZenonT(60) DEF Proxy
    <3>4. Steady(u)
      BY <2>2, <2>3, <3>2, <3>3 DEF Steady, Faultless
    <3>5. /\ u.handles = "open" => u.inSet
          /\ u.handles = "freed" /\ u.kind # "fake" => u.killed
      BY <1>5, <1>7, <2>3 DEF Control
    <3> QED  BY <3>4, <3>5, SMTT(30) DEF Control
  <2>6. Unacked(u) /\ Upstream(u, cSent, rGot)
    <3>1. Unacked(u)
      BY <1>5, <1>8, <2>2, <2>3, Zenon DEF Unacked
    <3>2. Upstream(u, cSent, rGot)
      BY <1>5, <1>8, <2>3, ZenonT(60) DEF Upstream
    <3> QED  BY <3>1, <3>2
  <2>7. Downstream(u, rSent, cGot, sock)
    <3>1. /\ CaughtUp(c, rSent, cGot, sock) /\ From(cGot, 0) /\ From(c.snd, Len(cGot))
          /\ Len(cGot) + Len(c.snd) <= rSent
          /\ c.ptcp \notin {"ready", "closed"} =>
                rSent = 0 /\ cGot = << >> /\ c.snd = << >> /\ sock = << >>
      BY <1>2, <1>10, ZenonT(60) DEF Downstream
    <3>2. CaughtUp(u, rSent, cGot, sock)
      BY <2>3, <3>1, SMTT(30) DEF CaughtUp
    <3>3. Len(cGot) \in Nat /\ Len(u.snd) = 0
      BY <3>1, <3>2, FromEmpty DEF From, CaughtUp
    <3>4. Len(cGot) + Len(u.snd) = Len(cGot)
      BY <3>3
    <3>5. From(sock, Len(cGot) + Len(u.snd)) /\ Len(cGot) + Len(u.snd) + Len(sock) = rSent
      BY <3>2, <3>4 DEF CaughtUp
    <3> QED  BY <2>2, <2>3, <3>1, <3>2, <3>5, Zenon DEF Downstream
  <2>8. /\ cSent \in 0 .. CMax /\ rSent \in 0 .. RMax
        /\ cGot \in Seq(Nat) /\ sock \in Seq(Nat) /\ rGot \in Seq(Nat)
    BY Zenon DEF IInv
  <2> QED  BY <1>1, <2>4, <2>5, <2>6, <2>7, <2>8, ZenonT(60) DEF IInv
<1> QED  BY <1>9, <1>10, SMTT(30)

\* uvl_async_tcp_write_cb with no finished request: it writes on.
LEMMA WriteOnStep ==
    ASSUME IInv, NEW mem \in BOOLEAN, NEW out \in BOOLEAN, AsyncWrite(mem, out),
           ~ (c.writes # << >> /\ Complete(c.writes[1]))
    PROVE  IInv'
<1> DEFINE t == [c EXCEPT !.asyncW = FALSE]
           v == ImpWriteToTcp(t, mem)
<1>1. /\ c.fault = "none" /\ c.handles = "open" /\ c' = AsyncWriteCb(c, mem, out) /\ Others
      /\ cSent' = cSent /\ cGot' = cGot /\ sock' = sock /\ rSent' = rSent /\ rGot' = rGot
  BY DEF AsyncWrite, Running, Others
<1>2. /\ Control(c) /\ c \in Connection /\ Life(c) /\ Proxy(c) /\ Base(c)
      /\ c.writes \in Seq(Request) /\ Len(c.writes) <= 1
      /\ Upstream(c, cSent, rGot) /\ Unacked(c)
      /\ c.kind # "fake" => Downstream(c, rSent, cGot, sock)
  BY ZenonT(60) DEF IInv, Control, Steady, Proxy, Connection
<1>3. Unfinished(c) = c.writes /\ ~ (Len(c.writes) < Len(c.writes))
  <2>1. Unfinished(c) = c.writes
    BY <1>2, UnfinishedShort, ZenonT(60)
  <2>2. Len(c.writes) \in Nat
    BY <1>2
  <2> QED  BY <2>1, <2>2
<1>4. [c EXCEPT !.asyncW = FALSE, !.writes = c.writes] = t
  BY <1>2, Zenon DEF Connection
<1>5. t \in Connection /\ t.writes = c.writes /\ SameControl(c, t) /\ SameData(c, t)
  <2>1. t \in Connection
    BY <1>2, ZenonT(60) DEF Connection
  <2>2. t.writes = c.writes /\ SameControl(c, t)
    BY <1>2, Zenon DEF Connection, SameControl
  <2>3. SameData(c, t)
    BY <1>2, Zenon DEF Connection, SameData
  <2> QED  BY <2>1, <2>2, <2>3
<1>6. c' = IF t.closed THEN [t EXCEPT !.writes = << >>]
           ELSE IF t.writes = << >> THEN t
           ELSE IF out THEN v ELSE CloseFunc(v)
  BY <1>1, <1>3, <1>4, Zenon DEF AsyncWriteCb
<1> HIDE DEF t
<1>7. Control(t)
  BY <1>2, <1>5, SameControlKeeps, ZenonT(60)
<1>8. CASE t.closed
  <2> DEFINE u == [t EXCEPT !.writes = << >>]
  <2>1. c' = u
    BY <1>6, <1>8
  <2>2. /\ u \in Connection /\ u.writes = << >> /\ SameControl(t, u)
        /\ u.wnd = t.wnd /\ u.buf = t.buf /\ u.snd = t.snd
    <3>1. u \in Connection
      BY <1>5, Empties, SetWrites, Zenon
    <3>2. SameControl(t, u)
      BY <1>5, Zenon DEF Connection, SameControl
    <3>3. u.writes = << >> /\ u.wnd = t.wnd /\ u.buf = t.buf /\ u.snd = t.snd
      BY <1>5, Zenon DEF Connection
    <3> QED  BY <3>1, <3>2, <3>3
  <2> HIDE DEF u
  <2>3. Control(u)
    <3>1. Life(t) /\ Proxy(t) /\ Base(t) /\ Faultless(t)
      BY <1>7, SMTT(30) DEF Control, Steady
    <3>2. Life(u) /\ Base(u) /\ Faultless(u)
      <4>1. Life(u)
        BY <2>2, <3>1, Zenon DEF Life, SameControl
      <4>2. Base(u)
        BY <2>2, <3>1, Zenon DEF Base, SameControl
      <4>3. Faultless(u)
        BY <2>2, <3>1, ZenonT(60) DEF Faultless, SameControl
      <4> QED  BY <4>1, <4>2, <4>3
    <3>3. Len(u.writes) <= 1
      BY <2>2, FromEmpty, SMTT(30)
    <3>4. Proxy(u)
      BY <2>2, <3>1, <3>3, SMTT(30) DEF Proxy, SameControl
    <3> QED  BY <1>7, <2>2, <3>2, <3>4, ZenonT(60) DEF Control, Steady, SameControl
  <2>4. t.pcb \notin {"none", "live"}
    BY <1>7, <1>8, SMTT(30) DEF Control, Steady, Life
  <2>5. Closes(c, u)
    BY <1>5, <2>2, <2>4 DEF Closes, SameControl, SameData
  <2> QED  BY <1>1, <2>1, <2>3, <2>5, CloseStep
<1>9. CASE ~ t.closed /\ t.writes = << >>
  BY <1>1, <1>5, <1>6, <1>7, <1>9, SameStep, SMTT(30)
<1>10. CASE ~ t.closed /\ t.writes # << >>
  <2>1. t.pcb = "live" /\ t.fault = "none"
    <3>1. Life(t) /\ t.pcb \in {"none", "live", "closing", "reset", "gone"}
      BY <1>5, <1>7, Zenon DEF Control, Steady, Connection
    <3> QED  BY <1>1, <1>5, <1>10, <3>1 DEF Life, SameControl
  <2>2. /\ Unacked(t) /\ Upstream(t, cSent, rGot) /\ Len(t.writes) <= 1 /\ t.kind = c.kind
        /\ c.kind # "fake" => Downstream(t, rSent, cGot, sock)
    BY <1>2, <1>5, SameDataKeeps, Zenon DEF SameData
  <2>3. PICK k : Written(t, v, k)
    BY <1>5, <1>10, <2>1, <2>2, WriteEffect, Zenon
  <2> HIDE DEF v
  <2>4. /\ Control(v) /\ Unacked(v)
        /\ \A n \in Nat : \A got, q :
              Downstream(t, n, got, q) /\ t.kind # "fake" => Downstream(v, n, got, q)
    BY <1>7, <2>2, <2>3, WrittenKeeps, Zenon
  <2>5. /\ v.pcb = "live" /\ v.fault = "none" /\ v.kind = c.kind /\ v.wnd = t.wnd
        /\ v.buf = t.buf /\ v.pOut = t.pOut /\ v \in Connection
    <3>1. SameControl(t, v) /\ v.wnd = t.wnd /\ v.buf = t.buf /\ v \in Connection
      BY <2>3, Zenon DEF Written
    <3> QED  BY <2>1, <2>2, <3>1, Zenon DEF SameControl
  <2>6. /\ cSent \in 0 .. CMax /\ rSent \in 0 .. RMax
        /\ cGot \in Seq(Nat) /\ sock \in Seq(Nat) /\ rGot \in Seq(Nat)
    BY Zenon DEF IInv
  <2>7. cSent \in Nat /\ rSent \in Nat
    BY <2>6, CountIsNat, Zenon
  <2>8. c.kind # "fake" => Downstream(v, rSent, cGot, sock)
    BY <2>2, <2>4, <2>7, Zenon
  <2>9. Upstream(v, cSent, rGot)
    BY <2>1, <2>2, <2>5, Zenon DEF Upstream
  <2>10. CASE out
    <3>1. c' = v
      BY <1>6, <1>10, <2>10
    <3> QED  BY <1>1, <2>4, <2>5, <2>6, <2>8, <2>9, <3>1, ZenonT(60) DEF IInv
  <2>11. CASE ~ out
    <3>1. c' = ClientFreed(TcpClose(v))
      BY <1>6, <1>10, <2>11, SMTT(30) DEF CloseFunc
    <3>2. TcpClose(v) \in {v, TcpClose(v)}
      OBVIOUS
    <3>3. Control(ClientFreed(TcpClose(v))) /\ Closes(v, ClientFreed(TcpClose(v)))
      BY <2>4, <2>5, <3>2, FreedEffect, ZenonT(60)
    <3>4. Control(c') /\ Closes(v, c')
      BY <3>1, <3>3, ZenonT(60)
    <3>5. c'.kind = c.kind
      BY <2>5, <3>4, SMTT(30) DEF Closes
    <3>6. Upstream(c', cSent, rGot) /\ Unacked(c')
      BY <2>4, <2>5, <2>7, <2>9, <3>4, ClosesUpstream, ClosesUnacked
    <3>7. c.kind # "fake" => Downstream(c', rSent, cGot, sock)
      BY <2>5, <2>7, <2>8, <3>4, ClosesDownstream, ZenonT(60)
    <3> QED  BY <1>1, <2>6, <3>4, <3>5, <3>6, <3>7, ZenonT(60) DEF IInv
  <2> QED  BY <2>10, <2>11, SMTT(30)
<1> QED  BY <1>8, <1>9, <1>10, SMTT(30)
-----------------------------------------------------------------------------
(* The inductive invariant, and what it gives.                             *)

\* Before the first connection.
LEMMA InitIInv == Init => IInv
<1> SUFFICES ASSUME Init
             PROVE  IInv
  OBVIOUS
<1>1. /\ c = NoConnection /\ cSent = 0 /\ cGot = << >>
      /\ sock = << >> /\ rSent = 0 /\ rGot = << >>
  BY DEF Init
<1>2. /\ Wnd \in Nat /\ Wnd \in Int /\ SndBuf \in Nat /\ CMax \in Nat /\ RMax \in Nat
      /\ 0 \in Int
  BY BridgeAssumption
<1>3. c \in Connection
  BY <1>1, <1>2, Empties, ZenonT(60) DEF NoConnection, Connection, Faults
<1>4. /\ c.kind = "direct" /\ c.pcb = "none" /\ c.wnd = Wnd /\ c.snd = << >> /\ c.buf = << >>
      /\ ~ c.readCb /\ ~ c.closed /\ c.writes = << >> /\ c.handles = "none" /\ ~ c.iclosing
      /\ ~ c.killed /\ c.ptcp = "none" /\ ~ c.pReading /\ c.pOut = << >> /\ ~ c.inSet
      /\ ~ c.released /\ c.count = 0 /\ c.selfClosed = 0 /\ c.timer = "running"
      /\ c.fault = "none"
  BY <1>1, SMTT(30) DEF NoConnection
<1>5. Life(c)
  BY <1>4, SMTT(30) DEF Life
<1>6. Len(c.writes) <= 1
  BY <1>4, FromEmpty, SMTT(30)
<1>7. Proxy(c)
  BY <1>4, <1>6, SMTT(30) DEF Proxy
<1>8. Base(c)
  BY <1>4, SMTT(30) DEF Base
<1>9. Control(c)
  BY <1>3, <1>4, <1>5, <1>7, <1>8 DEF Control, Steady, Faultless
<1>10. From(<< >>, 0) /\ Len(<< >>) = 0 /\ 0 + 0 = 0 /\ Wnd - 0 = Wnd /\ 0 <= Wnd /\ Wnd \in 0 .. Wnd
       /\ 0 + 0 + 0 = 0 /\ 0 <= 0 /\ 0 <= SndBuf
  BY <1>2, FromEmpty, SMTT(30)
<1>11. Upstream(c, cSent, rGot)
  BY <1>1, <1>4, <1>10, SMTT(30) DEF Upstream
<1>12. Unacked(c)
  BY <1>1, <1>4, <1>10, SMTT(30) DEF Unacked
<1>13. Downstream(c, rSent, cGot, sock)
  BY <1>1, <1>4, <1>10 DEF Downstream
<1>14. cSent \in 0 .. CMax /\ rSent \in 0 .. RMax
  BY <1>1, <1>2
<1> QED  BY <1>1, <1>9, <1>11, <1>12, <1>13, <1>14, Empties DEF IInv

\* The remote host ends: only rEnd changes.
LEMMA RemoteEndsStep ==
    ASSUME IInv, NEW how, RemoteEnds(how)
    PROVE  IInv'
<1>1. c' = c /\ cSent' = cSent /\ cGot' = cGot /\ sock' = sock /\ rSent' = rSent /\ rGot' = rGot
  BY DEF RemoteEnds
<1> QED  BY <1>1, Zenon DEF IInv

\* The proxy's socket is closed: the request that was in flight calls back, and
\* finds a connection that was killed, or none.
LEMMA ProxyClosedStep ==
    ASSUME IInv, NEW n \in 0 .. CMax, ProxyClosed(n)
    PROVE  IInv'
<1> DEFINE t == [c EXCEPT !.cancelled = FALSE, !.pOut = << >>]
           w == n > 0 /\ n = Len(c.pOut)
           f == [t EXCEPT !.fault = "freed connection"]
<1>1. /\ c.fault = "none" /\ c.ptcp = "closed" /\ n <= Len(c.pOut) /\ c' = LateCallback(t, w)
      /\ rGot' = rGot \o SubSeq(c.pOut, 1, n)
      /\ cSent' = cSent /\ cGot' = cGot /\ sock' = sock /\ rSent' = rSent
  BY DEF ProxyClosed, Running
<1>2. /\ Control(c) /\ c \in Connection /\ Life(c) /\ Proxy(c) /\ Base(c)
      /\ c.killed /\ c.iclosing /\ c.closed /\ c.kind # "fake" /\ ~ c.readCb
      /\ c.handles \in {"closing", "freed"} /\ c.pcb \notin {"none", "live"}
      /\ Upstream(c, cSent, rGot) /\ Unacked(c) /\ Downstream(c, rSent, cGot, sock)
      /\ cSent \in Nat /\ rSent \in Nat
  <2>1. /\ Control(c) /\ c \in Connection /\ Life(c) /\ Proxy(c) /\ Base(c)
        /\ Upstream(c, cSent, rGot) /\ Unacked(c) /\ cSent \in Nat /\ rSent \in Nat
    BY DEF IInv, Control, Steady
  <2>2. c.killed /\ c.kind # "fake" /\ ~ c.readCb
    BY <1>1, <2>1 DEF Proxy
  <2>3. c.iclosing /\ c.closed /\ c.handles \in {"closing", "freed"} /\ c.pcb \notin {"none", "live"}
    BY <2>1, <2>2 DEF Life
  <2> QED  BY <2>1, <2>2, <2>3, Zenon DEF IInv
<1>3. t \in Connection /\ f \in Connection
  <2>1. t \in Connection
    BY <1>2, Empties, SetCancelled, SetPOut, Zenon
  <2> HIDE DEF t
  <2>2. "freed connection" \in Faults
    BY DEF Faults
  <2> QED  BY <2>1, <2>2, SetFault, Zenon
<1>4. /\ t.pOut = << >> /\ t.kind = c.kind /\ t.pcb = c.pcb /\ t.wnd = c.wnd
      /\ t.buf = c.buf /\ t.snd = c.snd /\ t.writes = c.writes
      /\ t.pReading = c.pReading /\ t.ptcp = c.ptcp
      /\ t.readCb = c.readCb /\ t.fault = "none" /\ t.closed = c.closed
      /\ t.handles = c.handles /\ t.iclosing = c.iclosing /\ t.killed = c.killed
      /\ t.inSet = c.inSet /\ t.released = c.released
      /\ t.count = c.count /\ t.selfClosed = c.selfClosed /\ t.timer = c.timer
  BY <1>1, <1>2, Zenon DEF Connection
<1>5. f.fault = "freed connection" /\ SameData(t, f)
      /\ f.readCb = t.readCb /\ f.closed = t.closed
      /\ f.handles = t.handles /\ f.iclosing = t.iclosing /\ f.killed = t.killed
      /\ f.inSet = t.inSet /\ f.released = t.released
      /\ f.count = t.count /\ f.selfClosed = t.selfClosed /\ f.timer = t.timer
  <2> HIDE DEF t
  <2>1. f.fault = "freed connection" /\ SameData(t, f)
    BY <1>3, ZenonT(60) DEF Connection, SameData
  <2>2. /\ f.readCb = t.readCb /\ f.closed = t.closed
        /\ f.handles = t.handles /\ f.iclosing = t.iclosing /\ f.killed = t.killed
    BY <1>3, ZenonT(60) DEF Connection
  <2>3. /\ f.inSet = t.inSet /\ f.released = t.released
        /\ f.count = t.count /\ f.selfClosed = t.selfClosed /\ f.timer = t.timer
    BY <1>3, ZenonT(60) DEF Connection
  <2> QED  BY <2>1, <2>2, <2>3
<1>6. c' = t \/ (c' = f /\ t.handles = "freed")
  <2>1. Kill(t) = t
    BY <1>2, <1>4, Zenon DEF Kill
  <2>2. Read(t) = t
    BY <1>2, <1>4 DEF Read, ReadEnd
  <2>3. Fault(t, "freed connection") = f
    BY <1>4, Zenon DEF Fault
  <2> HIDE DEF t, f, w
  <2> QED  BY <1>1, <2>1, <2>2, <2>3 DEF LateCallback, Destroyed
<1> HIDE DEF t, f, w
<1>7. Control(t)
  <2>1. Life(t)
    BY <1>2, <1>4, ZenonT(60) DEF Life
  <2>3. Base(t)
    BY <1>2, <1>4, ZenonT(60) DEF Base
  <2>2. Proxy(t)
    BY <1>1, <1>2, <1>4 DEF Proxy
  <2> QED  BY <1>2, <1>3, <1>4, <2>1, <2>2, <2>3, ZenonT(60) DEF Control, Steady, Faultless
<1>8. t.handles = "freed" => Control(f)
  <2>1. Life(t) /\ Proxy(t) /\ Base(t)
    BY <1>7 DEF Control, Steady
  <2>2. Life(f)
    BY <1>5, <2>1, ZenonT(60) DEF Life, SameData
  <2>4. Base(f)
    BY <1>5, <2>1, ZenonT(60) DEF Base, SameData
  <2>3. Proxy(f)
    BY <1>1, <1>2, <1>4, <1>5, <2>1 DEF Proxy, SameData
  <2> QED  BY <1>1, <1>2, <1>3, <1>4, <1>5, <2>2, <2>3, <2>4, ZenonT(60) DEF Control, Steady, Faultless, SameData
<1>9. Upstream(t, cSent, rGot') /\ rGot' \in Seq(Nat)
  <2> DEFINE q == c.pOut
             a == SubSeq(q, 1, n)
  <2>1. /\ From(rGot, 0) /\ From(q, Len(rGot)) /\ Len(rGot) + Len(q) <= cSent
        /\ c.wnd \in 0 .. Wnd /\ Len(c.buf) <= Wnd
    BY <1>2, Zenon DEF Upstream
  <2>2. n <= Len(q)
    BY <1>1, Zenon
  <2> HIDE DEF q
  <2>3. rGot \in Seq(Nat) /\ q \in Seq(Nat)
    BY <2>1, Zenon DEF From
  <2>4. Len(rGot) \in Nat /\ Len(q) \in Nat
    BY <2>3, SMTT(30)
  <2>5. Len(rGot) \in Nat /\ Len(rGot) \in Int /\ Len(q) \in Nat /\ n \in 0 .. Len(q)
    BY <2>2, <2>4, SMTT(30)
  <2>6. From(a, Len(rGot)) /\ Len(a) = n
    BY <2>1, <2>5, FromSplit
  <2>7. rGot' = rGot \o a
    BY <1>1 DEF q
  <2> HIDE DEF a
  <2>8. From(rGot', 0) /\ Len(rGot') = Len(rGot) + n
    BY <2>1, <2>6, <2>7, FromGrow
  <2>9. /\ From(t.pOut, Len(rGot')) /\ Len(t.pOut) = 0 /\ Len(rGot') \in Nat
        /\ Len(rGot') + Len(t.pOut) <= cSent
    <3>1. Len(rGot') \in Nat /\ Len(rGot') + 0 <= cSent
      <4> DEFINE l == Len(rGot)
                 m == Len(q)
                 k == Len(rGot')
      <4>1. l \in Nat /\ m \in Nat /\ n \in 0 .. m /\ k = l + n /\ l + m <= cSent /\ cSent \in Nat
        BY <1>2, <2>1, <2>5, <2>8, Zenon
      <4> HIDE DEF l, m, k
      <4>2. k \in Nat /\ k + 0 <= cSent
        BY <4>1, SMTT(30)
      <4> QED  BY <4>2 DEF k
    <3>2. From(<< >>, Len(rGot')) /\ Len(<< >>) = 0
      BY <3>1, FromEmpty, Zenon
    <3> QED  BY <1>4, <3>1, <3>2, Zenon
  <2>10. rGot' \in Seq(Nat)
    BY <2>8, SMTT(30) DEF From
  <2> QED  BY <1>2, <1>4, <2>1, <2>8, <2>9, <2>10, Zenon DEF Upstream
<1>10. Unacked(t) /\ Downstream(t, rSent, cGot, sock)
  <2>1. Unacked(t)
    BY <1>2, <1>4, ZenonT(60) DEF Unacked
  <2>2. Downstream(t, rSent, cGot, sock)
    BY <1>2, <1>4, ZenonT(60) DEF Downstream, CaughtUp
  <2> QED  BY <2>1, <2>2
<1>11. Control(c') /\ c'.kind = c.kind
       /\ Upstream(c', cSent, rGot') /\ Unacked(c') /\ Downstream(c', rSent, cGot, sock)
  <2>1. CASE c' = t
    BY <1>4, <1>7, <1>9, <1>10, <2>1, Zenon
  <2>2. CASE c' = f /\ t.handles = "freed"
    <3>1. f.kind = c.kind
      BY <1>4, <1>5 DEF SameData
    <3>2. Upstream(f, cSent, rGot') /\ Unacked(f) /\ Downstream(f, rSent, cGot, sock)
      BY <1>5, <1>9, <1>10, SameDataKeeps
    <3> QED  BY <1>8, <2>2, <3>1, <3>2, Zenon
  <2> QED  BY <1>6, <2>1, <2>2
<1> QED  BY <1>1, <1>9, <1>11, Zenon DEF IInv

\* Every step.
LEMMA NextIInv == IInv /\ [Next]_vars => IInv'
<1> SUFFICES ASSUME IInv, [Next]_vars
             PROVE  IInv'
  OBVIOUS
<1>1. ASSUME NEW k \in Kinds, NEW kernel \in BOOLEAN, Accept(k, kernel)
      PROVE  IInv'
  BY <1>1, AcceptStep
<1>2. ASSUME NEW n \in 0 .. CMax, NEW a \in 0 .. SndBuf, NEW fin \in BOOLEAN,
             Segment(n, a, fin)
      PROVE  IInv'
  BY <1>2, SegmentStep
<1>3. CASE PcbError
  BY <1>3, PcbErrorStep
<1>4. ASSUME NEW lost \in BOOLEAN, LwipClosing(lost)
      PROVE  IInv'
  BY <1>4, LwipClosingStep
<1>5. CASE AsyncRead
  BY <1>5, AsyncReadStep
<1>6. ASSUME NEW mem \in BOOLEAN, NEW out \in BOOLEAN, AsyncWrite(mem, out)
      PROVE  IInv'
  BY <1>6, FinishedStep, WriteOnStep
<1>7. CASE ProxyAnswer
  BY <1>7, ProxyAnswerStep
<1>8. CASE ProxyRefuse
  BY <1>8, ProxyRefuseStep
<1>9. ASSUME NEW n \in 1 .. RMax, ProxyData(n)
      PROVE  IInv'
  BY <1>9, ProxyDataStep, SMTT(30)
<1>10. CASE ProxyWrote
  BY <1>10, ProxyWroteStep
<1>11. CASE ProxyEnd \/ ProxyError
  BY <1>11, ProxyKillStep, ProxyWriteErrorStep, SMTT(30) DEF ProxyEnd, ProxyError, Running, Others
<1>12. CASE HandlesClosed
  BY <1>12, HandlesClosedStep
<1>13. CASE Release
  BY <1>13, ReleaseStep
<1>14. CASE TimerClosed
  BY <1>14, TimerClosedStep
<1>15. CASE RemoteSends
  BY <1>15, RemoteSendsStep
<1>16. ASSUME NEW how \in {"fin", "rst"}, RemoteEnds(how)
       PROVE  IInv'
  BY <1>16, RemoteEndsStep
<1>17. ASSUME NEW n \in 0 .. CMax, ProxyClosed(n)
       PROVE  IInv'
  BY <1>17, ProxyClosedStep
<1>18. CASE UNCHANGED vars
  <2>1. c' = c /\ cSent' = cSent /\ cGot' = cGot /\ sock' = sock /\ rSent' = rSent /\ rGot' = rGot
    BY <1>18 DEF vars
  <2> QED  BY <2>1, Zenon DEF IInv
<1> QED
  BY <1>1, <1>2, <1>3, <1>4, <1>5, <1>6, <1>7, <1>8, <1>9, <1>10, <1>11, <1>12, <1>13,
     <1>14, <1>15, <1>16, <1>17, <1>18, SMTT(30) DEF Next

\* The parts of the invariant hold in every reachable state, whatever the
\* lengths of the streams and the sizes of the buffers.
THEOREM Inductive == Spec => []IInv
BY InitIInv, NextIInv, PTL DEF Spec

\* While neither side has closed, the pcb is live.
LEMMA ReadingIsLive == IInv /\ Reading => c.pcb = "live"
<1> SUFFICES ASSUME IInv, Reading
             PROVE  c.pcb = "live"
  OBVIOUS
<1>1. c \in Connection /\ Life(c)
  BY DEF IInv, Control, Steady
<1>2. c.pcb \in {"none", "live", "closing", "reset", "gone"}
  BY <1>1, ZenonT(60) DEF Connection
<1> QED  BY <1>1, <1>2 DEF Life, Reading

\* One request at most, so that the loop of uvl_client_sent_func ends on it.
LEMMA PendingOfState ==
    ASSUME IInv, Reading
    PROVE  Total(Pending(c)) = Len(c.snd)
<1>1. /\ c.pcb = "live" /\ c \in Connection /\ Len(c.writes) <= 1
      /\ c.writes \in Seq(Request) /\ Unacked(c)
  BY ReadingIsLive, ZenonT(60) DEF IInv, Control, Steady, Proxy, Connection
<1>2. Len(c.snd) = IF c.writes = << >> THEN 0 ELSE c.writes[1].pending
  BY <1>1 DEF Unacked
<1>3. CASE c.writes = << >>
  <2>1. Pending(c) = << >>
    BY <1>3 DEF Pending
  <2>2. << >> \in Seq(Nat) /\ Len(<< >>) <= 1
    OBVIOUS
  <2>3. Total(<< >>) = 0
    BY <2>2, TotalShort, Zenon
  <2> QED  BY <1>2, <1>3, <2>1, <2>3
<1>4. CASE c.writes # << >>
  <2>1. Len(c.writes) = 1 /\ c.writes[1].pending \in Nat
    BY <1>1, <1>4, FirstRequest
  <2>2. Pending(c) = [i \in 1 .. 1 |-> c.writes[1].pending]
    <3>1. DOMAIN c.writes = 1 .. 1
      BY <1>1, <2>1
    <3>2. \A i \in 1 .. 1 : c.writes[i].pending = c.writes[1].pending
      OBVIOUS
    <3> QED  BY <3>1, <3>2 DEF Pending
  <2>3. Pending(c) \in Seq(Nat) /\ Len(Pending(c)) = 1 /\ Pending(c)[1] = c.writes[1].pending
    BY <2>1, <2>2, Single
  <2>4. Pending(c) # << >> /\ Len(Pending(c)) <= 1
    BY <2>3, Nonempty
  <2>5. Total(Pending(c)) = Pending(c)[1]
    BY <2>3, <2>4, TotalShort, Zenon
  <2> QED  BY <1>2, <1>4, <2>3, <2>5, SMTT(30)
<1> QED  BY <1>3, <1>4

\* RequestsSound, of TcpBridge: the ranges, the requests' pending bytes are
\* lwIP's unacknowledged ones, and one write is in flight in each direction.
THEOREM Requests == Spec => []RequestsSound
<1>1. IInv => RequestsSound
  <2> SUFFICES ASSUME IInv
               PROVE  RequestsSound
    OBVIOUS
  <2>1. /\ c \in Connection /\ Proxy(c) /\ Base(c) /\ Upstream(c, cSent, rGot) /\ Unacked(c)
        /\ cSent \in 0 .. CMax /\ rSent \in 0 .. RMax
    BY SMTT(30) DEF IInv, Control, Steady
  <2>2. c.wnd \in 0 .. Wnd /\ Len(c.buf) <= Wnd /\ Len(c.snd) <= SndBuf
    BY <2>1 DEF Upstream, Unacked
  <2>3. c.selfClosed \in 0 .. 2
    BY <2>1 DEF Base
  <2>4. TypeOK
    BY <2>1, <2>2, <2>3, Zenon DEF TypeOK, Connection
  <2>5. PendingIsUnacked
    BY PendingOfState, SMTT(30) DEF PendingIsUnacked
  <2>6. OneInFlight
    BY <2>1 DEF OneInFlight, Proxy
  <2> QED  BY <2>4, <2>5, <2>6 DEF RequestsSound
<1> QED  BY <1>1, Inductive, PTL

\* FaultsKnown: the only faults are gateway_close in a SOCKS5 handshake, and the
\* request that was in flight when the proxy's socket was closed, called back
\* after the connection is gone.
THEOREM OnlyFault == Spec => []FaultsKnown
<1>1. IInv => FaultsKnown
  BY Zenon DEF IInv, Control, Steady, Faultless, FaultsKnown
<1> QED  BY <1>1, Inductive, PTL

\* FreeOrder: when the handles of a connection are closed, neither side reads, no
\* request is queued and the proxy's socket is closed, so that only a request
\* cancelled with that socket can call it (FaultsKnown); UvLwipBase drops itself
\* after the timer and with no connection open.
THEOREM Frees == Spec => []FreeOrder
<1>1. IInv => FreeOrder
  <2> SUFFICES ASSUME IInv
               PROVE  FreeOrder
    OBVIOUS
  <2>1. /\ c \in Connection /\ Control(c) /\ Life(c) /\ Proxy(c) /\ Base(c)
    BY SMTT(30) DEF IInv, Control, Steady
  <2>2. FreedIsQuiet
    <3> SUFFICES ASSUME c.handles = "freed", c.fault = "none", c.kind # "fake"
                 PROVE  /\ ~ c.readCb /\ ~ c.pReading /\ c.writes = << >>
                        /\ c.ptcp = "closed" /\ c.killed
      BY SMTT(30) DEF FreedIsQuiet, Running
    <3>1. c.killed /\ c.writes = << >>
      BY <2>1, SMTT(30) DEF Control, Life
    <3>2. c.ptcp = "closed"
      BY <2>1, <3>1 DEF Proxy
    <3> QED  BY <2>1, <3>1, <3>2 DEF Proxy
  <2>3. BaseFreedLast
    <3> SUFFICES ASSUME c.selfClosed = 2
                 PROVE  c.timer = "closed" /\ c.handles \in {"none", "closing", "freed"}
      BY DEF BaseFreedLast
    <3>1. c.timer = "closed" /\ c.released
      BY <2>1 DEF Base
    <3>2. c.handles # "open" /\ c.handles \in {"none", "open", "closing", "freed"}
      BY <2>1, <3>1, ZenonT(60) DEF Base, Connection
    <3> QED  BY <3>1, <3>2
  <2> QED  BY <2>2, <2>3, SMTT(30) DEF FreeOrder
<1> QED  BY <1>1, Inductive, PTL

\* What the request has not handed to lwIP follows what lwIP has.
LEMMA QueuedFrom ==
    ASSUME IInv, Reading, c.kind # "fake"
    PROVE  /\ From(Queued, Len(cGot) + Len(c.snd))
           /\ From(sock, Len(cGot) + Len(c.snd) + Len(Queued))
           /\ Len(cGot) + Len(c.snd) + Len(Queued) + Len(sock) = rSent
<1> DEFINE a == Len(cGot) + Len(c.snd)
           w == c.writes[1]
<1>1. /\ c.pcb = "live" /\ c \in Connection /\ Len(c.writes) <= 1
      /\ c.writes \in Seq(Request) /\ Unacked(c) /\ Downstream(c, rSent, cGot, sock)
  BY ReadingIsLive, ZenonT(60) DEF IInv, Control, Steady, Proxy, Connection
<1>2. c.pcb \in {"none", "live"}
  BY <1>1, SMTT(30)
<1>3. From(cGot, 0) /\ From(c.snd, Len(cGot))
  BY <1>1 DEF Downstream
<1>4. Len(cGot) \in Nat /\ Len(c.snd) \in Nat /\ a \in Nat
  BY <1>3 DEF From
<1>5. CASE c.writes = << >>
  <2>1. From(sock, a) /\ a + Len(sock) = rSent
    BY <1>1, <1>2, <1>5, SMTT(30) DEF Downstream
  <2>2. [i \in DOMAIN c.writes |-> SubSeq(c.writes[i].data, c.writes[i].sent + 1,
                                          Len(c.writes[i].data))] = << >>
    BY <1>5
  <2>3. << >> \in Seq(Seq(Nat)) /\ Len(<< >>) <= 1
    OBVIOUS
  <2>4. Queued = << >>
    BY <2>2, <2>3, JoinedShort, Zenon DEF Queued
  <2>5. Len(Queued) = 0 /\ From(Queued, a)
    BY <2>4, FromEmpty
  <2>6. a + Len(Queued) = a
    BY <1>4, <2>5
  <2> HIDE DEF a
  <2>7. From(Queued, a) /\ From(sock, a + Len(Queued)) /\ a + Len(Queued) + Len(sock) = rSent
    BY <2>1, <2>5, <2>6, SMTT(30)
  <2> QED  BY <2>7, SMTT(30) DEF a
<1>6. CASE c.writes # << >>
  <2> DEFINE part == SubSeq(w.data, w.sent + 1, Len(w.data))
             ps == [i \in DOMAIN c.writes |-> SubSeq(c.writes[i].data, c.writes[i].sent + 1,
                                                     Len(c.writes[i].data))]
             b == a - w.sent
             n == Len(w.data) - w.sent
  <2>1. Behind(w, a, rSent, sock)
    BY <1>1, <1>2, <1>6, SMTT(30) DEF Downstream
  <2>2. Len(c.writes) = 1 /\ w.data \in Seq(Nat) /\ w.sent \in Nat /\ Len(w.data) \in Nat
    BY <1>1, <1>6, FirstRequest, SMTT(30)
  <2>3. w.sent <= Len(w.data)
    BY <1>1, <1>6 DEF Unacked
  <2>4. n \in Nat
    BY <2>2, <2>3
  <2>5. b \in Int /\ b + w.sent = a /\ b + Len(w.data) = a + n
    BY <1>4, <2>2, SMTT(30)
  <2>6. From(w.data, b) /\ From(sock, b + Len(w.data)) /\ b + Len(w.data) + Len(sock) = rSent
    BY <2>1 DEF Behind
  <2> HIDE DEF n, b, a
  <2>7. From(part, a) /\ Len(part) = n
    <3> DEFINE d == w.data
               k == w.sent
    <3>1. From(d, b) /\ b \in Int /\ k \in 0 .. Len(d)
      BY <2>2, <2>3, <2>5, <2>6
    <3> HIDE DEF d, k
    <3>2. From(SubSeq(d, k + 1, Len(d)), b + k) /\ Len(SubSeq(d, k + 1, Len(d))) = Len(d) - k
      BY <3>1, FromSplit
    <3> QED  BY <2>5, <3>2, Zenon DEF d, k, n
  <2>8. ps = [i \in 1 .. 1 |-> part]
    <3>1. DOMAIN c.writes = 1 .. 1
      BY <1>1, <2>2
    <3>2. \A i \in {1} :
             SubSeq(c.writes[i].data, c.writes[i].sent + 1, Len(c.writes[i].data)) = part
      BY Zenon
    <3>3. 1 .. 1 = {1}
      OBVIOUS
    <3> HIDE DEF part
    <3> QED  BY <3>1, <3>2, <3>3, SMTT(30)
  <2>9. Queued = Joined(ps)
    BY DEF Queued
  <2> HIDE DEF part, ps
  <2>10. part \in Seq(Nat)
    BY <2>7 DEF From
  <2>11. ps \in Seq(Seq(Nat)) /\ Len(ps) = 1 /\ ps[1] = part
    BY <2>8, <2>10, Single
  <2>12. ps # << >> /\ Len(ps) <= 1
    BY <2>11, Nonempty
  <2>13. Queued = part
    BY <2>9, <2>11, <2>12, JoinedShort, ZenonT(60)
  <2>14. From(Queued, a) /\ From(sock, a + Len(Queued)) /\ a + Len(Queued) + Len(sock) = rSent
    BY <2>5, <2>6, <2>7, <2>13
  <2> QED  BY <2>14 DEF a
<1> QED  BY <1>5, <1>6

\* StreamsIntact: while the connection is open no byte of either stream is lost,
\* repeated or swapped, and at any time each side has a prefix.
THEOREM Streams == Spec => []StreamsIntact
<1>1. IInv => UpstreamIntact
  <2> SUFFICES ASSUME IInv, Reading
               PROVE  rGot \o c.pOut \o c.buf = Stream(cSent) /\ c.wnd = Wnd - Len(c.buf)
    BY ZenonT(60) DEF UpstreamIntact
  <2>1. c.pcb \in {"none", "live"} /\ Upstream(c, cSent, rGot)
    BY ReadingIsLive DEF IInv
  <2>2. /\ From(rGot, 0) /\ From(c.pOut, Len(rGot)) /\ c.wnd = Wnd - Len(c.buf)
        /\ From(c.buf, Len(rGot) + Len(c.pOut))
        /\ Len(rGot) + Len(c.pOut) + Len(c.buf) = cSent
    BY <2>1, Zenon DEF Upstream
  <2>3. From(rGot \o c.pOut, 0) /\ Len(rGot \o c.pOut) = Len(rGot) + Len(c.pOut)
    BY <2>2, FromGrow
  <2> DEFINE x == rGot \o c.pOut
  <2>4. From(x, 0) /\ From(c.buf, Len(x)) /\ Len(x) + Len(c.buf) = cSent
    BY <2>2, <2>3, Zenon
  <2> HIDE DEF x
  <2>5. From(x \o c.buf, 0) /\ Len(x \o c.buf) = cSent
    BY <2>4, FromGrow
  <2>6. x \o c.buf = Stream(cSent)
    BY <2>5, FromStream, Zenon
  <2> QED  BY <2>2, <2>6 DEF x
<1>2. IInv => DownstreamIntact
  <2> SUFFICES ASSUME IInv, Reading, c.kind # "fake"
               PROVE  cGot \o c.snd \o Queued \o sock = Stream(rSent)
    BY SMTT(30) DEF DownstreamIntact
  <2>1. From(cGot, 0) /\ From(c.snd, Len(cGot))
    BY Zenon DEF IInv, Downstream
  <2>2. /\ From(Queued, Len(cGot) + Len(c.snd))
        /\ From(sock, Len(cGot) + Len(c.snd) + Len(Queued))
        /\ Len(cGot) + Len(c.snd) + Len(Queued) + Len(sock) = rSent
    BY QueuedFrom
  <2> DEFINE x == cGot \o c.snd
  <2>3. From(x, 0) /\ Len(x) = Len(cGot) + Len(c.snd)
    BY <2>1, FromGrow
  <2> HIDE DEF x
  <2>4. From(Queued, Len(x)) /\ From(sock, Len(x) + Len(Queued))
        /\ Len(x) + Len(Queued) + Len(sock) = rSent
    BY <2>2, <2>3
  <2> DEFINE y == x \o Queued
  <2>5. From(y, 0) /\ Len(y) = Len(x) + Len(Queued)
    BY <2>3, <2>4, FromGrow
  <2> HIDE DEF y
  <2>6. From(sock, Len(y)) /\ Len(y) + Len(sock) = rSent
    BY <2>4, <2>5
  <2>7. From(y \o sock, 0) /\ Len(y \o sock) = rSent
    BY <2>5, <2>6, FromGrow
  <2>8. y \o sock = Stream(rSent)
    BY <2>7, FromStream, Zenon
  <2> QED  BY <2>8 DEF x, y
<1>3. IInv => PrefixDelivered
  <2> SUFFICES ASSUME IInv
               PROVE  PrefixDelivered
    OBVIOUS
  <2>1. /\ From(rGot, 0) /\ Len(c.pOut) \in Nat /\ Len(rGot) + Len(c.pOut) <= cSent
        /\ cSent \in 0 .. CMax
    BY DEF IInv, Upstream, From
  <2>2. Len(rGot) \in Nat
    BY <2>1 DEF From
  <2>3. rGot = Stream(Len(rGot)) /\ Len(rGot) \in 0 .. cSent
    <3>1. Len(rGot) \in 0 .. cSent
      BY <2>1, <2>2
    <3> QED  BY <2>1, <3>1, FromStream
  <2>4. ASSUME c.kind # "fake"
        PROVE  \E n \in 0 .. rSent : cGot = Stream(n)
    <3>1. /\ From(cGot, 0) /\ From(c.snd, Len(cGot)) /\ Len(cGot) + Len(c.snd) <= rSent
          /\ rSent \in 0 .. RMax
      BY <2>4, ZenonT(60) DEF IInv, Downstream
    <3>2. Len(cGot) \in Nat /\ Len(c.snd) \in Nat
      BY <3>1 DEF From
    <3>3. Len(cGot) \in 0 .. rSent
      BY <3>1, <3>2
    <3>4. cGot = Stream(Len(cGot))
      BY <3>1, FromStream
    <3> QED  BY <3>3, <3>4
  <2> QED  BY <2>3, <2>4, SMTT(30) DEF PrefixDelivered
<1> QED  BY <1>1, <1>2, <1>3, Inductive, PTL DEF StreamsIntact

\* EndAfterData: the remote host's end of stream is noticed only when the console
\* has acknowledged every byte before it.
THEOREM EndsAfterData == Spec => EndAfterData
<1>1. IInv /\ [Next]_vars => [ProxyEnd => cGot = Stream(rSent)]_vars
  <2> SUFFICES ASSUME IInv, ProxyEnd
               PROVE  cGot = Stream(rSent)
    OBVIOUS
  <2>1. c.pReading /\ c.ptcp = "ready" /\ sock = << >>
    BY DEF ProxyEnd
  <2>2. c.kind # "fake" /\ rSent \in Nat
    <3>1. Proxy(c) /\ rSent \in 0 .. RMax
      BY Zenon DEF IInv, Control, Steady
    <3>2. rSent \in Nat
      BY <3>1, SMTT(30)
    <3>3. c.kind # "fake"
      BY <2>1, <3>1, SMTT(30) DEF Proxy
    <3> QED  BY <3>2, <3>3
  <2>3. From(cGot, 0) /\ CaughtUp(c, rSent, cGot, sock)
    <3>1. Downstream(c, rSent, cGot, sock)
      BY <2>2, Zenon DEF IInv
    <3> QED  BY <2>1, <3>1 DEF Downstream
  <2>4. Len(cGot) + 0 = rSent /\ Len(cGot) \in Nat
    BY <2>1, <2>3, FromEmpty DEF CaughtUp, From
  <2>5. Len(cGot) = rSent
    BY <2>4
  <2> QED  BY <2>3, <2>5, FromStream
<1> QED  BY <1>1, Inductive, PTL DEF Spec, EndAfterData
=============================================================================

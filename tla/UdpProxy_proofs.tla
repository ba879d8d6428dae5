--------------------------- MODULE UdpProxy_proofs ---------------------------
(***************************************************************************)
(* The sessions of UdpProxy are sound and implement UdpNat, for every TTL,  *)
(* every set of endpoints and any number of sessions and datagrams.         *)
(***************************************************************************)
EXTENDS UdpProxy, TLAPS

------------------------------------------------------------------------------
(* The inductive invariant. *)

\* A session that is open was created, has been given datagrams of its own
\* endpoint only, and has not been silent for longer than its endpoint.
Owned(i) ==
    LET s == session[i]
    IN  /\ i <= made
        /\ s.given # <<>>
        /\ \A j \in 1 .. Len(s.given) :
               s.given[j] \in 1 .. Len(sent) /\ sent[s.given[j]] = s.ep
        /\ s.left + idle[s.ep] >= TTL

\* InOrder in terms of positions.
Ordered(s) ==
    /\ s.stage = "ready" =>
           /\ s.waiting = 0 /\ s.fwd # <<>>
           /\ Len(s.fwd) <= Len(s.given)
           /\ \A j \in 1 .. Len(s.fwd) : s.fwd[j] = s.given[Len(s.given) - Len(s.fwd) + j]
           /\ kind = "direct" => s.fwd = s.given
    /\ s.stage # "ready" =>
           kind # "direct" /\ s.fwd = <<>> /\ s.waiting = s.given[Len(s.given)]

IInv ==
    /\ TypeOK /\ SocketsHeld /\ RepliesRouted
    /\ \A i \in Open : Owned(i) /\ Ordered(session[i])

------------------------------------------------------------------------------
\* Element by element equal to the end means equal to the suffix.
LEMMA IsSuffix ==
    ASSUME NEW f \in Seq(Nat), NEW g \in Seq(Nat), Len(f) <= Len(g),
           \A j \in 1 .. Len(f) : f[j] = g[Len(g) - Len(f) + j]
    PROVE  f = Suffix(g, Len(f))
<1> DEFINE h == SubSeq(g, Len(g) - Len(f) + 1, Len(g))
<1>1. h \in Seq(Nat) /\ Len(h) = Len(f)
  OBVIOUS
<1>2. \A j \in 1 .. Len(f) : h[j] = g[Len(g) - Len(f) + j]
  OBVIOUS
<1> HIDE DEF h
<1>3. f = h
  BY <1>1, <1>2, SMTT(20)
<1> QED BY <1>3 DEF Suffix, h

\* Places of the end lie in the whole.
LEMMA Position ==
    ASSUME NEW f \in Seq(Nat), NEW g \in Seq(Nat), Len(f) <= Len(g), NEW j \in 1 .. Len(f)
    PROVE  Len(g) - Len(f) + j \in 1 .. Len(g)
OBVIOUS

\* Appending the same datagram to both keeps one the end of the other.
LEMMA SuffixAppend ==
    ASSUME NEW f \in Seq(Nat), NEW g \in Seq(Nat), NEW n \in Nat, Len(f) <= Len(g),
           \A j \in 1 .. Len(f) : f[j] = g[Len(g) - Len(f) + j]
    PROVE  LET f2 == Append(f, n)
               g2 == Append(g, n)
           IN  /\ f2 # <<>> /\ Len(f2) <= Len(g2)
               /\ \A j \in 1 .. Len(f2) : f2[j] = g2[Len(g2) - Len(f2) + j]
<1> DEFINE f2 == Append(f, n)
           g2 == Append(g, n)
<1>1. f2 # <<>> /\ Len(f2) = Len(f) + 1 /\ Len(g2) = Len(g) + 1
  OBVIOUS
<1>2. /\ \A j \in 1 .. Len(f) : f2[j] = f[j]
      /\ \A j \in 1 .. Len(g) : g2[j] = g[j]
      /\ f2[Len(f) + 1] = n /\ g2[Len(g) + 1] = n
  OBVIOUS
<1> HIDE DEF f2, g2
<1>3. ASSUME NEW j \in 1 .. Len(f2) PROVE f2[j] = g2[Len(g2) - Len(f2) + j]
  <2>1. Len(g2) - Len(f2) + j = Len(g) - Len(f) + j
    BY <1>1
  <2>2. CASE j \in 1 .. Len(f)
    BY <1>2, <2>1, <2>2, Position, ZenonT(60)
  <2>3. CASE j = Len(f) + 1
    <3>1. Len(g) - Len(f) + j = Len(g) + 1
      BY <2>3
    <3> QED BY <1>2, <2>1, <2>3, <3>1
  <2> QED BY <1>1, <2>2, <2>3
<1>4. Len(f2) <= Len(g2)
  BY <1>1
<1> QED BY <1>1, <1>3, <1>4, Zenon DEF f2, g2

\* A session is its fields.
LEMMA Shape ==
    ASSUME NEW s \in Session
    PROVE  /\ s # Gone
           /\ s = [ep |-> s.ep, stage |-> s.stage, left |-> s.left,
                   waiting |-> s.waiting, given |-> s.given, fwd |-> s.fwd]
           /\ s.ep \in Endpoints /\ s.stage \in Handshaking \cup {"ready", "failed"}
           /\ s.left \in -1 .. TTL /\ s.waiting \in Nat
           /\ s.given \in Seq(Nat) /\ s.fwd \in Seq(Nat)
<1>1. s.stage # "gone"
  BY DEF Session, Handshaking
<1>2. Gone.stage = "gone"
  BY DEF Gone
<1> QED BY <1>1, <1>2 DEF Session

\* Time changes nothing of a session but what is left of it.
LEMMA AgedSession ==
    ASSUME NEW s \in Session, NEW late \in BOOLEAN
    PROVE  LET a == Aged(s, late)
           IN  /\ a \in Session
               /\ a.ep = s.ep /\ a.stage = s.stage /\ a.waiting = s.waiting
               /\ a.given = s.given /\ a.fwd = s.fwd
               /\ a.left = IF late /\ s.left >= 0 THEN s.left - 1 ELSE s.left
<1> USE UdpAssumption DEF UdpAssumption
<1>1. s # Gone /\ s.left \in -1 .. TTL
  BY Shape
<1>2. CASE late /\ s.left >= 0
  <2>1. Aged(s, late) = [s EXCEPT !.left = s.left - 1]
    BY <1>1, <1>2 DEF Aged
  <2> DEFINE v == s.left - 1
             a == [s EXCEPT !.left = v]
  <2>2. v \in -1 .. TTL
    BY <1>1, <1>2
  <2> HIDE DEF v
  <2>3. a \in Session /\ a.left = v
    BY <2>2, Zenon DEF Session
  <2>4. /\ a.ep = s.ep /\ a.stage = s.stage /\ a.waiting = s.waiting
        /\ a.given = s.given /\ a.fwd = s.fwd
    BY DEF Session
  <2> QED BY <1>2, <2>1, <2>3, <2>4, Zenon DEF v
<1>3. CASE ~ (late /\ s.left >= 0)
  <2>1. Aged(s, late) = s
    BY <1>1, <1>3 DEF Aged
  <2> QED BY <1>1, <1>3, <2>1
<1> QED BY <1>2, <1>3

\* Time does not touch a session that is gone.
LEMMA AgedGone == \A late : Aged(Gone, late) = Gone
BY DEF Aged

\* Time neither creates nor ends a session.
LEMMA AgedOpen ==
    ASSUME NEW s \in Session \cup {Gone}, NEW late \in BOOLEAN
    PROVE  Aged(s, late) \in Session \cup {Gone} /\ (Aged(s, late) = Gone <=> s = Gone)
<1>1. CASE s \in Session
  <2>1. Aged(s, late) \in Session
    BY <1>1, AgedSession
  <2> QED BY <1>1, <2>1, Shape
<1>2. CASE s = Gone
  BY <1>2, AgedGone
<1> QED BY <1>1, <1>2

\* No session, nothing sent.
LEMMA Initially == Init => IInv
<1> SUFFICES ASSUME Init PROVE IInv
  OBVIOUS
<1> USE UdpAssumption DEF UdpAssumption
<1>1. Open = {}
  BY DEF Init, Open
<1>2. TypeOK
  BY DEF Init, TypeOK
<1>3. SocketsHeld
  BY <1>1 DEF Init, SocketsHeld
<1> QED BY <1>1, <1>2, <1>3 DEF Init, IInv, RepliesRouted

------------------------------------------------------------------------------
(* The timer and the clock. *)

\* Time passes and the sessions in dead are destroyed: Gc and Tick.
LEMMA Elapses ==
    ASSUME IInv, NEW late \in BOOLEAN, NEW dead \in SUBSET Open,
           table' = [e \in Endpoints |-> IF table[e] \in dead THEN 0 ELSE table[e]],
           session' = [i \in Ids |-> IF i \in dead THEN Gone ELSE Aged(session[i], late)],
           idle' = AgedIdle(late),
           UNCHANGED <<kind, made, sent, answered, got>>
    PROVE  IInv'
<1> USE UdpAssumption DEF UdpAssumption
<1>1. /\ table \in [Endpoints -> 0 .. made] /\ session \in [Ids -> Session \cup {Gone}]
      /\ idle \in [Endpoints -> 0 .. TTL + 1] /\ made \in Nat
  BY DEF IInv, TypeOK
<1>2. Open' = Open \ dead
  <2>1. ASSUME NEW i \in Ids PROVE i \in Open' <=> i \in Open /\ i \notin dead
    BY <1>1, AgedOpen DEF Open
  <2> QED BY <2>1 DEF Open
<1>3. ASSUME NEW i \in Open'
      PROVE  /\ i \in Open /\ i \in Ids /\ session[i] \in Session
             /\ session'[i] = Aged(session[i], late)
  BY <1>1, <1>2 DEF Open
<1>4. \A e \in Endpoints :
        idle'[e] = IF late /\ idle[e] <= TTL THEN idle[e] + 1 ELSE idle[e]
  BY DEF AgedIdle
<1>5. TypeOK'
  <2>1. session' \in [Ids -> Session \cup {Gone}]
    BY <1>1, AgedOpen, Zenon
  <2>2. idle' \in [Endpoints -> 0 .. TTL + 1]
    BY <1>1 DEF AgedIdle
  <2>3. table' \in [Endpoints -> 0 .. made']
    BY <1>1
  <2> QED BY <2>1, <2>2, <2>3, Zenon DEF IInv, TypeOK
<1>6. SocketsHeld'
  <2>1. ASSUME NEW e \in Endpoints, table'[e] # 0
        PROVE  table'[e] \in Open' /\ session'[table'[e]].ep = e
    <3>1. table'[e] = table[e] /\ table[e] \notin dead /\ table[e] \in Open
      BY <2>1 DEF IInv, SocketsHeld
    <3> QED BY <1>2, <1>3, <2>1, <3>1, AgedSession DEF IInv, SocketsHeld
  <2>2. ASSUME NEW i \in Open' PROVE table'[session'[i].ep] = i
    <3>1. session'[i].ep = session[i].ep /\ session[i].ep \in Endpoints
      BY <1>3, AgedSession, Shape
    <3> QED BY <1>2, <1>3, <3>1 DEF IInv, SocketsHeld
  <2> QED BY <2>1, <2>2 DEF SocketsHeld
<1>7. ASSUME NEW i \in Open' PROVE Owned(i)' /\ Ordered(session[i])'
  <2> DEFINE s == session[i]
             a == session'[i]
  <2>0. s \in Session /\ a = Aged(s, late)
    BY <1>3
  <2> HIDE DEF s, a
  <2>1. /\ a.ep = s.ep /\ a.stage = s.stage /\ a.waiting = s.waiting
        /\ a.given = s.given /\ a.fwd = s.fwd
        /\ a.left = IF late /\ s.left >= 0 THEN s.left - 1 ELSE s.left
        /\ s.left \in -1 .. TTL /\ s.ep \in Endpoints
    BY <2>0, AgedSession, Shape
  <2>2. Owned(i) /\ Ordered(s)
    BY <1>3 DEF IInv, s
  <2>3. a.left + idle'[a.ep] >= TTL
    <3>1. s.left + idle[s.ep] >= TTL
      BY <2>2, SMTT(30) DEF Owned, s
    <3> QED BY <1>1, <1>4, <2>1, <3>1
  <2>4. Owned(i)'
    BY <2>1, <2>2, <2>3 DEF Owned, s, a
  <2>5. Ordered(session[i])'
    <3>1. Ordered(a)
      BY <2>1, <2>2, Zenon DEF Ordered
    <3> QED BY <3>1, Zenon DEF Ordered, a
  <2> QED BY <2>4, <2>5
<1> QED BY <1>5, <1>6, <1>7 DEF IInv, RepliesRouted

\* The gc timer: what it erases from the table it destroys.
LEMMA GcStep == IInv /\ Gc => IInv'
<1> SUFFICES ASSUME IInv, Gc PROVE IInv'
  OBVIOUS
<1>1. PICK late \in SUBSET Open :
        LET dead == Expired(late)
        IN  /\ table' = [e \in Endpoints |-> IF table[e] \in dead THEN 0 ELSE table[e]]
            /\ session' = [i \in Ids |-> IF i \in dead THEN Gone
                                         ELSE Aged(session[i], late # {})]
            /\ idle' = AgedIdle(late # {})
            /\ UNCHANGED <<kind, made, sent, answered, got>>
  BY DEF Gc
<1>2. Expired(late) \in SUBSET Open /\ (late # {}) \in BOOLEAN
  BY DEF Expired
<1> QED BY <1>1, <1>2, Elapses, Zenon

\* A second passes.
LEMMA TickStep == IInv /\ Tick => IInv'
<1> SUFFICES ASSUME IInv, Tick PROVE IInv'
  OBVIOUS
<1>1. table' = [e \in Endpoints |-> IF table[e] \in {} THEN 0 ELSE table[e]]
  BY DEF IInv, TypeOK, Tick
<1>2. session' = [i \in Ids |-> IF i \in {} THEN Gone ELSE Aged(session[i], TRUE)]
  BY DEF Tick
<1>3. idle' = AgedIdle(TRUE) /\ UNCHANGED <<kind, made, sent, answered, got>>
  BY DEF Tick
<1>4. {} \in SUBSET Open /\ TRUE \in BOOLEAN
  OBVIOUS
<1> QED BY <1>1, <1>2, <1>3, <1>4, Elapses, Zenon

------------------------------------------------------------------------------
(* Events of one session. *)

\* A session changes in place: every event of its handles.
LEMMA Updated ==
    ASSUME IInv, NEW i \in Open, NEW s \in Session, Becomes(i, s),
           s.ep = session[i].ep, s.given = session[i].given,
           \/ s.left = session[i].left /\ idle' = idle
           \/ s.left = TTL /\ idle' = idle
           \/ s.left = TTL /\ idle' = [idle EXCEPT ![s.ep] = 0],
           Ordered(s), answered' \subseteq 1 .. Len(sent),
           got' \subseteq Endpoints \X (1 .. Len(sent)), RepliesRouted'
    PROVE  IInv'
<1> USE UdpAssumption DEF UdpAssumption
<1>1. /\ table \in [Endpoints -> 0 .. made] /\ session \in [Ids -> Session \cup {Gone}]
      /\ idle \in [Endpoints -> 0 .. TTL + 1] /\ i \in Ids /\ session[i] \in Session
  BY DEF IInv, TypeOK, Open
<1>2. /\ session' = [session EXCEPT ![i] = s]
      /\ kind' = kind /\ table' = table /\ made' = made /\ sent' = sent
  BY DEF Becomes
<1>3. Open' = Open
  BY <1>1, <1>2, Shape DEF Open
<1>4. s.ep \in Endpoints /\ s.left \in -1 .. TTL
  BY Shape
<1>5. TypeOK'
  <2>1. session' \in [Ids -> Session \cup {Gone}]
    BY <1>1, <1>2
  <2>2. idle' \in [Endpoints -> 0 .. TTL + 1]
    BY <1>1
  <2> QED BY <1>2, <2>1, <2>2, Zenon DEF IInv, TypeOK
<1>6. SocketsHeld'
  <2>1. \A j \in Open : session'[j].ep = session[j].ep
    BY <1>1, <1>2 DEF Open
  <2> QED BY <1>2, <1>3, <2>1 DEF IInv, SocketsHeld
<1>7. \A j \in Open : j # i => session'[j] = session[j] /\ session[j].ep # s.ep
  BY <1>1, <1>2 DEF IInv, SocketsHeld, Open
<1>8. ASSUME NEW j \in Open PROVE Owned(j)' /\ Ordered(session[j])'
  <2>1. Owned(j) /\ Ordered(session[j]) /\ Owned(i)
    BY DEF IInv
  <2>2. CASE j = i
    <3>1. session'[i] = s
      BY <1>1, <1>2
    <3>2. s.left + idle'[s.ep] >= TTL
      BY <1>1, <1>4, <2>1 DEF Owned
    <3>3. Owned(i)'
      BY <1>2, <2>1, <3>1, <3>2 DEF Owned
    <3>4. Ordered(session[i])'
      BY <1>2, <3>1, Zenon DEF Ordered
    <3> QED BY <2>2, <3>3, <3>4
  <2>3. CASE j # i
    <3>1. session'[j] = session[j] /\ session[j].ep # s.ep /\ session[j] \in Session
      BY <1>1, <1>7, <2>3 DEF Open
    <3>2. idle'[session[j].ep] = idle[session[j].ep]
      BY <1>1, <3>1, Shape, ZenonT(60)
    <3>3. Owned(j)'
      BY <1>2, <2>1, <3>1, <3>2 DEF Owned
    <3>4. Ordered(session[j])'
      BY <1>2, <2>1, <3>1, ZenonT(60) DEF Ordered
    <3> QED BY <3>3, <3>4
  <2> QED BY <2>2, <2>3
<1> QED BY <1>3, <1>5, <1>6, <1>8 DEF IInv

\* A step of the handshake that does not end it well.
LEMMA StageStep ==
    ASSUME IInv, NEW i \in Open, session[i].stage \in Handshaking,
           NEW st \in {"method", "request", "failed"},
           Becomes(i, [session[i] EXCEPT !.stage = st]),
           UNCHANGED <<answered, got, idle>>
    PROVE  IInv'
<1> DEFINE s == [session[i] EXCEPT !.stage = st]
<1>1. session[i] \in Session
  BY DEF IInv, TypeOK, Open
<1>2. /\ s \in Session /\ s.ep = session[i].ep /\ s.given = session[i].given
      /\ s.left = session[i].left /\ s.fwd = session[i].fwd
      /\ s.waiting = session[i].waiting /\ s.stage # "ready"
  BY <1>1, Zenon DEF Session, Handshaking
<1>3. Ordered(session[i]) /\ session[i].stage # "ready"
  BY DEF IInv, Handshaking
<1> HIDE DEF s
<1>4. Ordered(s)
  BY <1>2, <1>3 DEF Ordered
<1>5. Becomes(i, s) /\ idle' = idle
  BY DEF s
<1>6. /\ answered' \subseteq 1 .. Len(sent)
      /\ got' \subseteq Endpoints \X (1 .. Len(sent)) /\ RepliesRouted'
  BY <1>5 DEF IInv, TypeOK, RepliesRouted, Becomes
<1> QED BY <1>2, <1>4, <1>5, <1>6, Updated

\* The association is made and the datagram that waited is sent.
LEMMA AssociatedStep ==
    ASSUME IInv, NEW i \in Open, Associated(i)
    PROVE  IInv'
<1> DEFINE o == session[i]
           s == onUDPReady(o)
<1> USE UdpAssumption DEF UdpAssumption
<1>1. o \in Session /\ o.stage = "request" /\ Ordered(o) /\ Owned(i)
  BY DEF IInv, TypeOK, Open, Associated
<1>2. o.given \in Seq(Nat) /\ o.given # <<>> /\ o.waiting = o.given[Len(o.given)] /\ o.fwd = <<>>
  BY <1>1, Shape DEF Ordered, Owned
<1>3. kind # "direct"
  BY <1>1 DEF Ordered
<1>4. o.waiting # 0
  BY <1>1, <1>2 DEF Owned
<1> HIDE DEF o
<1>5. s = [o EXCEPT !.stage = "ready", !.waiting = 0, !.fwd = Append(o.fwd, o.waiting), !.left = TTL]
  BY <1>4 DEF onUDPReady, visit
<1> HIDE DEF s
<1>6. s \in Session
  <2>1. Append(o.fwd, o.waiting) \in Seq(Nat) /\ TTL \in -1 .. TTL
    BY <1>1, Shape
  <2> QED BY <1>1, <1>5, <2>1, Zenon DEF Session
<1>7. /\ s.ep = o.ep /\ s.given = o.given /\ s.left = TTL /\ s.stage = "ready"
      /\ s.waiting = 0 /\ s.fwd = Append(o.fwd, o.waiting)
  BY <1>1, <1>5 DEF Session
<1>8. Ordered(s)
  <2>1. Len(s.fwd) = 1 /\ s.fwd[1] = o.waiting /\ s.fwd # <<>> /\ Len(o.given) >= 1
    BY <1>1, <1>2, <1>7, Shape
  <2> QED BY <1>2, <1>3, <1>7, <2>1 DEF Ordered
<1>9. Becomes(i, s) /\ idle' = idle
  BY DEF Associated, s, o
<1>10. /\ answered' \subseteq 1 .. Len(sent)
       /\ got' \subseteq Endpoints \X (1 .. Len(sent)) /\ RepliesRouted'
  BY <1>9 DEF IInv, TypeOK, RepliesRouted, Becomes, Associated
<1>11. s.ep = session[i].ep /\ s.given = session[i].given
  BY <1>7 DEF o
<1> QED BY <1>6, <1>7, <1>8, <1>9, <1>10, <1>11, Updated

\* What comes back for datagram n belongs to the session's endpoint.
LEMMA UdpDataStep ==
    ASSUME IInv, NEW i \in Open, NEW n \in 1 .. MaxSends, UdpData(i, n)
    PROVE  IInv'
<1> DEFINE o == session[i]
           s == [o EXCEPT !.left = TTL]
<1> USE UdpAssumption DEF UdpAssumption
<1>1. o \in Session /\ o.stage = "ready" /\ Ordered(o) /\ Owned(i)
  BY DEF IInv, TypeOK, Open, UdpData
<1>2. /\ s \in Session /\ s.ep = o.ep /\ s.given = o.given /\ s.left = TTL
      /\ s.fwd = o.fwd /\ s.waiting = o.waiting /\ s.stage = o.stage
  <2> HIDE DEF o
  <2>1. TTL \in -1 .. TTL
    OBVIOUS
  <2> QED BY <1>1, <2>1, Zenon DEF Session
<1>3. PICK j \in 1 .. Len(o.fwd) : n = o.fwd[j]
  <2>1. o.fwd \in Seq(Nat) /\ \E j \in DOMAIN o.fwd : o.fwd[j] = n
    BY <1>1, Shape DEF UdpData
  <2> QED BY <2>1
<1>4. n \in 1 .. Len(sent) /\ sent[n] = o.ep
  <2>1. /\ o.fwd \in Seq(Nat) /\ o.given \in Seq(Nat) /\ Len(o.fwd) <= Len(o.given)
        /\ n = o.given[Len(o.given) - Len(o.fwd) + j]
    BY <1>1, <1>3, Shape DEF Ordered
  <2>2. Len(o.given) - Len(o.fwd) + j \in 1 .. Len(o.given)
    BY <1>3, <2>1, Position, Zenon
  <2> QED BY <1>1, <2>1, <2>2, Zenon DEF Owned
<1>5. Becomes(i, s) /\ idle' = [idle EXCEPT ![s.ep] = 0]
  BY <1>2 DEF UdpData, Received, visit
<1>6. answered' \subseteq 1 .. Len(sent)
  BY <1>4, Zenon DEF UdpData, IInv, TypeOK
<1>7. got' \subseteq Endpoints \X (1 .. Len(sent)) /\ RepliesRouted'
  <2>1. o.ep \in Endpoints
    BY <1>1, Shape
  <2>2. got' = got \cup {<<o.ep, n>>} \/ got' = got
    BY DEF UdpData, send_udp_ex
  <2>3. sent' = sent
    BY <1>5 DEF Becomes
  <2> HIDE DEF o
  <2>4. got \subseteq Endpoints \X (1 .. Len(sent)) /\ RepliesRouted
    BY DEF IInv, TypeOK
  <2>5. <<o.ep, n>> \in Endpoints \X (1 .. Len(sent))
    BY <1>4, <2>1
  <2>6. got' \subseteq Endpoints \X (1 .. Len(sent))
    BY <2>2, <2>4, <2>5
  <2>7. ASSUME NEW g \in got' PROVE sent'[g[2]] = g[1]
    <3>1. CASE g \in got
      BY <2>3, <2>4, <3>1 DEF RepliesRouted
    <3>2. CASE g = <<o.ep, n>>
      BY <1>4, <2>3, <3>2
    <3> QED BY <2>2, <2>7, <3>1, <3>2
  <2> QED BY <2>6, <2>7 DEF RepliesRouted
<1>8. Ordered(s)
  <2> HIDE DEF s, o
  <2> QED BY <1>1, <1>2, Zenon DEF Ordered
<1> QED BY <1>2, <1>5, <1>6, <1>7, <1>8, Updated, Zenon

------------------------------------------------------------------------------
(* A datagram of the console. *)

\* What send does to a session.
LEMMA Sends ==
    ASSUME NEW s \in Session, NEW n \in Nat
    PROVE  LET a == send(s, n)
           IN  /\ a \in Session /\ a.ep = s.ep /\ a.stage = s.stage /\ a.left = TTL
               /\ a.given = Append(s.given, n)
               /\ s.stage = "ready" => a.fwd = Append(s.fwd, n) /\ a.waiting = s.waiting
               /\ s.stage # "ready" => a.fwd = s.fwd /\ a.waiting = n
<1> USE UdpAssumption DEF UdpAssumption
<1>1. /\ Append(s.given, n) \in Seq(Nat) /\ Append(s.fwd, n) \in Seq(Nat)
      /\ TTL \in -1 .. TTL
  BY Shape
<1>2. CASE s.stage = "ready"
  <2>1. send(s, n) = [s EXCEPT !.given = Append(s.given, n), !.fwd = Append(s.fwd, n), !.left = TTL]
    BY <1>2 DEF send, visit, Session
  <2> QED BY <1>1, <1>2, <2>1, Zenon DEF Session
<1>3. CASE s.stage # "ready"
  <2>1. send(s, n) = [s EXCEPT !.given = Append(s.given, n), !.waiting = n, !.left = TTL]
    BY <1>3 DEF send, visit, Session
  <2> QED BY <1>1, <1>3, <2>1, ZenonT(60) DEF Session
<1> QED BY <1>2, <1>3

\* A new session is empty, and ready exactly when it is direct.
LEMMA Made ==
    ASSUME NEW e \in Endpoints, kind \in {"direct", "socks5"}
    PROVE  LET s == newUdp(e)
           IN  /\ s \in Session /\ s.ep = e /\ s.given = <<>> /\ s.fwd = <<>>
               /\ s.waiting = 0
               /\ s.stage = "ready" <=> kind = "direct"
<1> USE UdpAssumption DEF UdpAssumption
<1>1. <<>> \in Seq(Nat) /\ 0 \in Nat /\ TTL \in -1 .. TTL
  OBVIOUS
<1> QED BY <1>1 DEF newUdp, DirectProxyUdp, Socks5ProxyUdp, Created, Session, Handshaking

\* A session that was sound, or is new, is so after send, for the next
\* datagram and its sender.
LEMMA SendKeeps ==
    ASSUME NEW s \in Session, NEW n \in Nat \ {0},
           Ordered(s) \/ s = newUdp(s.ep), kind \in {"direct", "socks5"}
    PROVE  Ordered(send(s, n))
<1> DEFINE a == send(s, n)
<1>1. /\ s.given \in Seq(Nat) /\ s.fwd \in Seq(Nat) /\ s.ep \in Endpoints
      /\ a.stage = s.stage /\ a.given = Append(s.given, n)
      /\ s.stage = "ready" => a.fwd = Append(s.fwd, n) /\ a.waiting = s.waiting
      /\ s.stage # "ready" => a.fwd = s.fwd /\ a.waiting = n
  BY Sends, Shape, Zenon
<1> HIDE DEF a
<1>2. CASE s.stage # "ready"
  <2>1. s.fwd = <<>> /\ kind # "direct"
    BY <1>1, <1>2, Made, Zenon DEF Ordered
  <2>2. a.given[Len(a.given)] = n
    BY <1>1
  <2> QED BY <1>1, <1>2, <2>1, <2>2, Zenon DEF Ordered, a
<1>3. CASE s.stage = "ready"
  <2>1. /\ s.waiting = 0 /\ Len(s.fwd) <= Len(s.given)
        /\ \A j \in 1 .. Len(s.fwd) : s.fwd[j] = s.given[Len(s.given) - Len(s.fwd) + j]
        /\ kind = "direct" => s.fwd = s.given
    <3>1. CASE Ordered(s)
      BY <1>3, <3>1, Zenon DEF Ordered
    <3>2. CASE s = newUdp(s.ep)
      <4>1. s.waiting = 0 /\ s.fwd = <<>> /\ s.given = <<>>
        BY <1>1, <3>2, Made
      <4> QED BY <4>1
    <3> QED BY <3>1, <3>2, Zenon
  <2>2. /\ a.fwd = Append(s.fwd, n) /\ a.given = Append(s.given, n)
        /\ a.waiting = 0 /\ a.stage = "ready"
    BY <1>1, <1>3, <2>1
  <2>3. /\ a.fwd # <<>> /\ Len(a.fwd) <= Len(a.given)
        /\ \A j \in 1 .. Len(a.fwd) : a.fwd[j] = a.given[Len(a.given) - Len(a.fwd) + j]
    <3> DEFINE f == s.fwd
               g == s.given
    <3>1. /\ f \in Seq(Nat) /\ g \in Seq(Nat) /\ n \in Nat /\ Len(f) <= Len(g)
          /\ \A j \in 1 .. Len(f) : f[j] = g[Len(g) - Len(f) + j]
      BY <1>1, <2>1, Zenon
    <3> HIDE DEF f, g
    <3>2. /\ Append(f, n) # <<>> /\ Len(Append(f, n)) <= Len(Append(g, n))
          /\ \A j \in 1 .. Len(Append(f, n)) :
                 Append(f, n)[j] = Append(g, n)[Len(Append(g, n)) - Len(Append(f, n)) + j]
      BY <3>1, SuffixAppend, Zenon
    <3> QED BY <2>2, <3>2, Zenon DEF f, g
  <2>5. kind = "direct" => a.fwd = a.given
    BY <2>1, <2>2
  <2> QED BY <2>2, <2>3, <2>5, Zenon DEF Ordered, a
<1> QED BY <1>2, <1>3

\* A datagram of the console, on the session there is, a first one or one that
\* replaces an expired one.
LEMMA SendStep ==
    ASSUME IInv, NEW e \in Endpoints, udpSend(e)
    PROVE  IInv'
<1> USE UdpAssumption DEF UdpAssumption
<1> DEFINE k == UdpCacheKey(e[1], e[2])
           old == table[k]
           fresh == IF old = 0 THEN TRUE ELSE isExpire(session[old])
           id == IF fresh THEN made + 1 ELSE old
           n == Len(sent) + 1
           base == IF fresh THEN newUdp(e) ELSE session[id]
           s == send(base, n)
<1>1. k = e
  BY DEF UdpCacheKey, Endpoints
<1>2. PICK late \in BOOLEAN :
        /\ session' = [i \in Ids |->
               IF i = id THEN send(IF fresh THEN newUdp(e) ELSE session[i], n)
               ELSE IF i = old THEN Gone ELSE Aged(session[i], late)]
        /\ idle' = [AgedIdle(late) EXCEPT ![e] = 0]
  BY Zenon DEF udpSend, getUdp
<1>3. /\ id <= MaxSessions /\ made' = IF fresh THEN id ELSE made
      /\ table' = [table EXCEPT ![k] = id] /\ sent' = Append(sent, e)
      /\ UNCHANGED <<kind, answered, got>>
  BY DEF udpSend, getUdp
<1> HIDE DEF k
<1>4. /\ table \in [Endpoints -> 0 .. made] /\ session \in [Ids -> Session \cup {Gone}]
      /\ idle \in [Endpoints -> 0 .. TTL + 1] /\ made \in 0 .. MaxSessions
      /\ sent \in Seq(Endpoints) /\ kind \in {"direct", "socks5"}
  BY DEF IInv, TypeOK
<1>5. n \in Nat \ {0} /\ old \in 0 .. made
  BY <1>1, <1>4
<1>6. /\ id \in Ids /\ id # 0 /\ id <= made' /\ made <= made' /\ made' \in 0 .. MaxSessions
      /\ fresh => id \notin Open /\ id # old
      /\ ~ fresh => old \in Open /\ id = old
  <2>1. CASE fresh
    <3>1. id = made + 1 /\ made' = made + 1
      BY <1>3, <2>1
    <3> HIDE DEF id, fresh
    <3>2. id \notin Open
      BY <1>4, <3>1 DEF IInv, Owned
    <3> QED BY <1>3, <1>4, <1>5, <2>1, <3>1, <3>2 DEF Ids
  <2>2. CASE ~ fresh
    <3>1. id = old /\ old # 0 /\ made' = made
      BY <1>3, <2>2
    <3>2. old \in Open
      BY <1>1, <3>1, SMTT(30) DEF IInv, SocketsHeld
    <3> HIDE DEF id, fresh
    <3> QED BY <1>3, <1>4, <1>5, <2>2, <3>1, <3>2 DEF Ids, Open
  <2> QED BY <2>1, <2>2
<1>7. base \in Session /\ base.ep = e /\ (Ordered(base) \/ base = newUdp(base.ep))
  <2>1. CASE fresh
    BY <1>4, <2>1, Made
  <2>2. CASE ~ fresh
    BY <1>1, <1>4, <1>6, <2>2, SMTT(30) DEF IInv, SocketsHeld, Open
  <2> QED BY <2>1, <2>2, SMTT(30)
<1>8. \A j \in 1 .. Len(base.given) :
         base.given[j] \in 1 .. Len(sent) /\ sent[base.given[j]] = e
  <2>1. CASE fresh
    <3>1. base.given = <<>>
      BY <1>4, <2>1, Made
    <3> QED BY <3>1
  <2>2. CASE ~ fresh
    <3>1. base = session[old] /\ Owned(old)
      BY <1>6, <2>2, SMTT(30) DEF IInv
    <3>2. \A j \in 1 .. Len(session[old].given) :
             session[old].given[j] \in 1 .. Len(sent)
             /\ sent[session[old].given[j]] = session[old].ep
      BY <3>1 DEF Owned
    <3> HIDE DEF base, old, id, fresh
    <3>3. session[old].ep = e
      BY <1>7, <3>1
    <3> QED BY <3>1, <3>2, <3>3
  <2> QED BY <2>1, <2>2
<1>9. session'[id] = s
  <2>1. session'[id] = send(IF fresh THEN newUdp(e) ELSE session[id], n)
    BY <1>2, <1>6
  <2> QED BY <2>1
<1>10. \A i \in Ids : i # id => session'[i] = IF i = old THEN Gone ELSE Aged(session[i], late)
  BY <1>2
<1> HIDE DEF base, id, fresh, n
<1>11. /\ s \in Session /\ s.ep = e /\ s.left = TTL /\ Ordered(s)
       /\ s.given = Append(base.given, n) /\ base.given \in Seq(Nat)
  <2>1. n \in Nat
    BY <1>5
  <2>2. base.given \in Seq(Nat)
    BY <1>7, Shape
  <2>3. s \in Session /\ s.ep = e /\ s.left = TTL /\ s.given = Append(base.given, n)
    BY <1>7, <2>1, Sends, Zenon
  <2>4. Ordered(s)
    BY <1>4, <1>5, <1>7, SendKeeps
  <2> QED BY <2>2, <2>3, <2>4
<1> HIDE DEF s
<1>12. Open' = (Open \ {old}) \cup {id}
  <2>1. ASSUME NEW i \in Ids PROVE i \in Open' <=> i = id \/ (i \in Open /\ i # old)
    <3>1. CASE i = id
      BY <1>9, <1>11, <3>1, Shape DEF Open
    <3>2. CASE i # id
      <4>1. session[i] \in Session \cup {Gone}
        BY <1>4
      <4>2. Aged(session[i], late) = Gone <=> session[i] = Gone
        BY <4>1, AgedOpen
      <4>3. session'[i] = IF i = old THEN Gone ELSE Aged(session[i], late)
        BY <1>10, <3>2
      <4> HIDE DEF old
      <4> QED BY <3>2, <4>2, <4>3 DEF Open
    <3> QED BY <3>1, <3>2
  <2>2. Open \subseteq Ids /\ Open' \subseteq Ids
    BY DEF Open
  <2> QED BY <1>6, <2>1, <2>2
<1>13. ASSUME NEW i \in Open', i # id
       PROVE  /\ i \in Open /\ i \in Ids /\ i # old /\ session[i] \in Session
              /\ session'[i] = Aged(session[i], late)
              /\ session[i].ep \in Endpoints /\ session[i].ep # e
  <2>1. i \in Open /\ i # old /\ i \in Ids /\ session[i] \in Session
    BY <1>4, <1>12, <1>13 DEF Open
  <2>2. session[i].ep \in Endpoints /\ table[session[i].ep] = i
    BY <2>1, Shape DEF IInv, SocketsHeld
  <2> QED BY <1>1, <1>10, <1>13, <2>1, <2>2
<1>14. /\ Len(sent') = n /\ n = Len(sent) + 1 /\ Len(sent) \in Nat
       /\ sent' \in Seq(Endpoints) /\ sent'[n] = e
       /\ \A m \in 1 .. Len(sent) : sent'[m] = sent[m]
  BY <1>3, <1>4 DEF n
<1>15. /\ idle' \in [Endpoints -> 0 .. TTL + 1] /\ idle'[e] = 0
       /\ \A f \in Endpoints : f # e =>
              idle'[f] = IF late /\ idle[f] <= TTL THEN idle[f] + 1 ELSE idle[f]
  BY <1>2, <1>4, SMTT(20) DEF AgedIdle
<1>16. TypeOK'
  <2>1. session' \in [Ids -> Session \cup {Gone}]
    <3>1. session' = [i \in Ids |-> session'[i]]
      BY <1>2
    <3>2. ASSUME NEW i \in Ids PROVE session'[i] \in Session \cup {Gone}
      <4>1. CASE i = id
        BY <1>9, <1>11, <4>1
      <4>2. CASE i # id
        <5>1. Aged(session[i], late) \in Session \cup {Gone}
          BY <1>4, AgedOpen, SMTT(30)
        <5> QED BY <1>10, <4>2, <5>1
      <4> QED BY <4>1, <4>2
    <3> QED BY <3>1, <3>2
  <2>2. table' \in [Endpoints -> 0 .. made']
    BY <1>1, <1>3, <1>4, <1>6 DEF Ids
  <2>3. answered' \subseteq 1 .. Len(sent') /\ got' \subseteq Endpoints \X (1 .. Len(sent'))
    <3>1. 1 .. Len(sent) \subseteq 1 .. Len(sent')
      BY <1>14
    <3> QED BY <1>3, <3>1 DEF IInv, TypeOK
  <2>4. kind' \in Kinds
    BY <1>3 DEF IInv, TypeOK
  <2> QED BY <1>6, <1>14, <1>15, <2>1, <2>2, <2>3, <2>4 DEF TypeOK
<1>17. SocketsHeld'
  <2>1. ASSUME NEW f \in Endpoints, table'[f] # 0
        PROVE  table'[f] \in Open' /\ session'[table'[f]].ep = f
    <3>1. CASE f = e
      BY <1>1, <1>3, <1>4, <1>9, <1>11, <1>12, <3>1
    <3>2. CASE f # e
      <4>1. table'[f] = table[f] /\ table[f] \in Open /\ session[table[f]].ep = f
        BY <1>1, <1>3, <1>4, <2>1, <3>2 DEF IInv, SocketsHeld
      <4>2. table[f] # old /\ table[f] # id
        <5>1. CASE old = 0
          BY <1>6, <2>1, <4>1, <5>1
        <5>2. CASE old # 0
          BY <1>1, <1>6, <3>2, <4>1, <5>2 DEF IInv, SocketsHeld
        <5> QED BY <5>1, <5>2
      <4>3. table[f] \in Open'
        BY <1>12, <4>1, <4>2
      <4> QED BY <1>13, <4>1, <4>2, <4>3, AgedSession
    <3> QED BY <3>1, <3>2
  <2>2. ASSUME NEW i \in Open' PROVE table'[session'[i].ep] = i
    <3>1. CASE i = id
      BY <1>1, <1>3, <1>4, <1>9, <1>11, <3>1
    <3>2. CASE i # id
      <4>1. session'[i].ep = session[i].ep
        BY <1>13, <3>2, AgedSession
      <4> QED BY <1>1, <1>3, <1>4, <1>13, <3>2, <4>1 DEF IInv, SocketsHeld
    <3> QED BY <3>1, <3>2
  <2> QED BY <2>1, <2>2 DEF SocketsHeld
<1>18. RepliesRouted'
  BY <1>3, <1>14 DEF IInv, TypeOK, RepliesRouted
<1>19. ASSUME NEW i \in Open' PROVE Owned(i)' /\ Ordered(session[i])'
  <2>1. CASE i = id
    <3>1. session'[i] = s /\ s.given # <<>> /\ s.left + idle'[s.ep] >= TTL /\ i <= made'
      BY <1>6, <1>9, <1>11, <1>15, <2>1
    <3>2. ASSUME NEW j \in 1 .. Len(s.given)
          PROVE  s.given[j] \in 1 .. Len(sent') /\ sent'[s.given[j]] = s.ep
      <4> DEFINE g == base.given
      <4>0. g \in Seq(Nat) /\ n \in Nat /\ s.given = Append(g, n)
        BY <1>11, <1>14
      <4>1. CASE j \in 1 .. Len(g)
        <5>1. s.given[j] = g[j]
          BY <4>0, <4>1
        <5>2. g[j] \in 1 .. Len(sent) /\ sent[g[j]] = e
          BY <1>8, <4>1
        <5> HIDE DEF g
        <5> QED BY <1>11, <1>14, <5>1, <5>2, SMTT(20)
      <4>2. CASE j = Len(g) + 1
        <5>1. s.given[j] = n
          BY <4>0, <4>2
        <5> QED BY <1>11, <1>14, <5>1, SMTT(20)
      <4>3. Len(s.given) = Len(g) + 1 /\ Len(g) \in Nat
        BY <4>0
      <4> QED BY <4>1, <4>2, <4>3
    <3>3. Owned(i)'
      BY <3>1, <3>2 DEF Owned
    <3>4. Ordered(session[i])'
      BY <1>3, <1>11, <3>1, Zenon DEF Ordered
    <3> QED BY <3>3, <3>4
  <2>2. CASE i # id
    <3> DEFINE o == session[i]
               a == session'[i]
    <3>0. /\ o \in Session /\ a = Aged(o, late) /\ o.ep \in Endpoints /\ o.ep # e
          /\ Owned(i) /\ Ordered(o)
      BY <1>13, <2>2 DEF IInv
    <3>1. /\ a.ep = o.ep /\ a.stage = o.stage /\ a.waiting = o.waiting
          /\ a.given = o.given /\ a.fwd = o.fwd
          /\ a.left = IF late /\ o.left >= 0 THEN o.left - 1 ELSE o.left
          /\ o.left \in -1 .. TTL
      <4> HIDE DEF o, a
      <4> QED BY <3>0, AgedSession, Shape
    <3> HIDE DEF o, a
    <3>2. a.left + idle'[a.ep] >= TTL
      <4>1. o.left + idle[o.ep] >= TTL
        BY <3>0 DEF Owned, o
      <4>2. /\ idle'[o.ep] = IF late /\ idle[o.ep] <= TTL THEN idle[o.ep] + 1 ELSE idle[o.ep]
            /\ idle[o.ep] \in 0 .. TTL + 1
        BY <1>4, <1>15, <3>0
      <4> QED BY <3>1, <4>1, <4>2
    <3>3. \A j \in 1 .. Len(a.given) : a.given[j] \in 1 .. Len(sent') /\ sent'[a.given[j]] = a.ep
      <4>1. \A j \in 1 .. Len(o.given) : o.given[j] \in 1 .. Len(sent) /\ sent[o.given[j]] = o.ep
        BY <3>0 DEF Owned, o
      <4>2. \A m \in 1 .. Len(sent) : m \in 1 .. Len(sent') /\ sent'[m] = sent[m]
        BY <1>14
      <4> QED BY <3>1, <4>1, <4>2, SMTT(30)
    <3>4. i <= made' /\ a.given # <<>>
      <4>1. i <= made /\ o.given # <<>>
        BY <3>0 DEF Owned, o
      <4>2. i \in Ids
        BY <1>13, <2>2
      <4>3. i <= made'
        BY <1>4, <1>6, <4>1, <4>2 DEF Ids
      <4> QED BY <3>1, <4>1, <4>3
    <3>5. Owned(i)'
      BY <3>2, <3>3, <3>4 DEF Owned, a
    <3>6. Ordered(session[i])'
      <4>1. Ordered(a)
        BY <3>0, <3>1, Zenon DEF Ordered
      <4> QED BY <1>3, <4>1, Zenon DEF Ordered, a
    <3> QED BY <3>5, <3>6
  <2> QED BY <2>1, <2>2
<1> QED BY <1>16, <1>17, <1>18, <1>19 DEF IInv
------------------------------------------------------------------------------
(* The theorems. *)

\* Every action keeps the invariant.
LEMMA Step == IInv /\ [Next]_vars => IInv'
<1> SUFFICES ASSUME IInv, [Next]_vars PROVE IInv'
  OBVIOUS
<1>1. CASE \E e \in Endpoints : udpSend(e)
  BY <1>1, SendStep
<1>2. ASSUME NEW i \in Open, Connected(i) PROVE IInv'
  BY <1>2, StageStep, Zenon DEF Connected, Handshaking
<1>3. ASSUME NEW i \in Open, MethodChosen(i) PROVE IInv'
  BY <1>3, StageStep, Zenon DEF MethodChosen, Handshaking
<1>4. ASSUME NEW i \in Open, Refused(i) PROVE IInv'
  BY <1>4, StageStep, Zenon DEF Refused
<1>5. CASE UNCHANGED vars
  <2>1. Open' = Open
    BY <1>5 DEF vars, Open
  <2>2. TypeOK' /\ SocketsHeld' /\ RepliesRouted'
    BY <1>5, <2>1 DEF vars, IInv, TypeOK, SocketsHeld, RepliesRouted
  <2>3. ASSUME NEW i \in Open PROVE Owned(i)' /\ Ordered(session[i])'
    <3>1. Owned(i) /\ Ordered(session[i])
      BY DEF IInv
    <3> QED BY <1>5, <3>1, Zenon DEF vars, Owned, Ordered
  <2> QED BY <2>1, <2>2, <2>3 DEF IInv
<1> QED BY <1>1, <1>2, <1>3, <1>4, <1>5, AssociatedStep, UdpDataStep, GcStep, TickStep DEF Next, processUdp

\* IInv is an invariant.
LEMMA Invariance == Spec => []IInv
BY Initially, Step, PTL DEF Spec

\* Sockets, datagrams and replies belong together (SessionsSound) for every TTL,
\* any endpoints and any number of sessions: getUdp, send, onUDPReady, the
\* handlers of UDPDataEvent and the gc timer keep it.
THEOREM SessionsAreSound == Spec => []SessionsSound
<1>1. IInv => SessionsSound
  <2> SUFFICES ASSUME IInv PROVE InOrder
    BY DEF IInv, SessionsSound
  <2> SUFFICES ASSUME NEW i \in Open
               PROVE  LET s == session[i]
                      IN  /\ s.stage = "ready" =>
                                /\ s.waiting = 0
                                /\ Len(s.fwd) \in 1 .. Len(s.given)
                                /\ s.fwd = Suffix(s.given, Len(s.fwd))
                                /\ kind = "direct" => s.fwd = s.given
                          /\ s.stage # "ready" =>
                                s.fwd = <<>> /\ <<s.waiting>> = Suffix(s.given, 1)
    BY DEF InOrder
  <2> DEFINE s == session[i]
  <2>1. Ordered(s) /\ s \in Session /\ s.given # <<>>
    BY DEF IInv, TypeOK, Open, Owned
  <2> HIDE DEF s
  <2>2. s.fwd \in Seq(Nat) /\ s.given \in Seq(Nat) /\ s.waiting \in Nat
    BY <2>1, Shape
  <2>3. CASE s.stage = "ready"
    <3>1. s.fwd = Suffix(s.given, Len(s.fwd))
      BY <2>1, <2>2, <2>3, IsSuffix, Zenon DEF Ordered
    <3>2. Len(s.fwd) \in 1 .. Len(s.given)
      BY <2>1, <2>2, <2>3 DEF Ordered
    <3> QED BY <2>1, <2>3, <3>1, <3>2 DEF Ordered, s
  <2>4. CASE s.stage # "ready"
    <3> DEFINE w == <<s.waiting>>
               g == s.given
    <3>1. /\ w \in Seq(Nat) /\ g \in Seq(Nat) /\ Len(w) = 1 /\ Len(w) <= Len(g)
          /\ w[1] = g[Len(g)]
      BY <2>1, <2>2, <2>4 DEF Ordered
    <3> HIDE DEF w, g
    <3>2. \A j \in 1 .. Len(w) : w[j] = g[Len(g) - Len(w) + j]
      BY <3>1
    <3>3. w = Suffix(g, 1)
      BY <3>1, <3>2, IsSuffix, Zenon
    <3> QED BY <2>1, <2>4, <3>3 DEF Ordered, s, w, g
  <2> QED BY <2>3, <2>4 DEF s
<1> QED BY <1>1, Invariance, PTL

\* Every callback of the proxy is a step of the abstract translation or leaves
\* it alone.
LEMMA NatStep == IInv /\ [Next]_vars => [NAT!Next]_NAT!vars
<1> SUFFICES ASSUME IInv, [Next]_vars PROVE [NAT!Next]_NAT!vars
  OBVIOUS
<1> USE UdpAssumption DEF UdpAssumption
<1>0. /\ table \in [Endpoints -> 0 .. made] /\ session \in [Ids -> Session \cup {Gone}]
      /\ idle \in [Endpoints -> 0 .. TTL + 1]
  BY DEF IInv, TypeOK
<1>1. ASSUME NEW late PROVE AgedIdle(late) = NAT!Later(late)
  BY DEF AgedIdle, NAT!Later
<1>2. ASSUME NEW e \in Endpoints, udpSend(e) PROVE NAT!Outgoing(e)
  <2> DEFINE k == UdpCacheKey(e[1], e[2])
             old == table[k]
             fresh == IF old = 0 THEN TRUE ELSE isExpire(session[old])
             id == IF fresh THEN made + 1 ELSE old
  <2>1. k = e
    BY DEF UdpCacheKey, Endpoints
  <2>2. /\ \E late \in BOOLEAN : idle' = [AgedIdle(late) EXCEPT ![e] = 0]
        /\ made' = IF fresh THEN id ELSE made
        /\ table' = [table EXCEPT ![k] = id]
    BY <1>2, Zenon DEF udpSend, getUdp
  <2>3. \E late \in BOOLEAN : idle' = [NAT!Later(late) EXCEPT ![e] = 0]
    BY <1>1, <2>2, Zenon
  <2> HIDE DEF k
  <2>4. CASE fresh
    <3>1. made' = made + 1 /\ table' = [table EXCEPT ![e] = made + 1]
      BY <2>1, <2>2, <2>4, Zenon
    <3>2. table[e] = 0 \/ idle[e] > TTL
      <4> SUFFICES ASSUME table[e] # 0 PROVE idle[e] > TTL
        OBVIOUS
      <4>1. isExpire(session[table[e]])
        BY <2>1, <2>4
      <4>2. table[e] \in Open /\ session[table[e]].ep = e /\ Owned(table[e])
        BY SMTT(30) DEF IInv, SocketsHeld
      <4>3. session[table[e]].left < 0 /\ session[table[e]].left + idle[e] >= TTL
        BY <4>1, <4>2 DEF isExpire, Owned
      <4>4. session[table[e]].left \in -1 .. TTL
        BY <1>0, <4>2, Shape DEF Open
      <4> QED BY <1>0, <4>3, <4>4
    <3> QED BY <2>3, <3>1, <3>2, Zenon DEF NAT!Outgoing
  <2>5. CASE ~ fresh
    <3>1. table[e] # 0 /\ made' = made /\ table' = [table EXCEPT ![e] = table[e]]
      BY <2>1, <2>2, <2>5
    <3>2. table' = table
      BY <1>0, <3>1
    <3> QED BY <2>3, <3>1, <3>2, Zenon DEF NAT!Outgoing
  <2> QED BY <2>4, <2>5
<1>3. ASSUME NEW i \in Open, NEW n \in 1 .. MaxSends, UdpData(i, n)
      PROVE  NAT!Incoming(session[i].ep)
  <2>1. session[i].ep \in Endpoints /\ table[session[i].ep] = i /\ i # 0
    BY <1>0, Shape DEF IInv, SocketsHeld, Open, Ids
  <2>2. idle' = [idle EXCEPT ![session[i].ep] = 0] /\ UNCHANGED <<table, made>>
    BY <1>3 DEF UdpData, Becomes
  <2> QED BY <2>1, <2>2 DEF NAT!Incoming
<1>4. ASSUME NEW i \in Open, Connected(i) \/ MethodChosen(i) \/ Associated(i) \/ Refused(i)
      PROVE  UNCHANGED NAT!vars
  BY <1>4 DEF Connected, MethodChosen, Associated, Refused, Becomes, NAT!vars
<1>5. CASE Tick
  <2>1. idle' = NAT!Later(TRUE) /\ table' = table /\ made' = made
    BY <1>1, <1>5, Zenon DEF Tick
  <2>2. table' = [e \in Endpoints |-> IF e \in {} THEN 0 ELSE table[e]]
    BY <1>0, <2>1
  <2>3. {} \in SUBSET Endpoints /\ TRUE \in BOOLEAN /\ \A e \in {} : idle'[e] > TTL
    OBVIOUS
  <2>4. NAT!Pass
    BY <2>1, <2>2, <2>3, Zenon DEF NAT!Pass
  <2> QED BY <2>4 DEF NAT!Next
<1>6. CASE Gc
  <2>1. PICK late \in SUBSET Open :
          /\ table' = [e \in Endpoints |-> IF table[e] \in Expired(late) THEN 0 ELSE table[e]]
          /\ idle' = AgedIdle(late # {}) /\ made' = made
    BY <1>6 DEF Gc
  <2> DEFINE second == late # {}
             closed == {e \in Endpoints : table[e] \in Expired(late)}
  <2>2. idle' = NAT!Later(second) /\ second \in BOOLEAN
    BY <1>1, <2>1
  <2>3. ASSUME NEW e \in closed PROVE idle'[e] > TTL
    <3> DEFINE i == table[e]
               s == session[i]
               b == i \in late
    <3>1. i \in Open /\ isExpire(Aged(s, b)) /\ e \in Endpoints /\ s \in Session
      BY <1>0 DEF Expired, Open
    <3>2. s.ep = e /\ Owned(i) /\ b \in BOOLEAN /\ (b => second)
      <4>1. i # 0
        BY <3>1 DEF Open, Ids
      <4>2. s.ep = e
        BY <3>1, <4>1 DEF IInv, SocketsHeld
      <4>3. Owned(i)
        BY <3>1 DEF IInv
      <4> QED BY <4>2, <4>3
    <3>3. s.left + idle[e] >= TTL
      BY <3>2 DEF Owned
    <3> HIDE DEF s, b, i, second
    <3>4. s.left \in -1 .. TTL /\ (IF b /\ s.left >= 0 THEN s.left - 1 ELSE s.left) < 0
      BY <3>1, <3>2, Shape, AgedSession DEF isExpire
    <3>5. /\ idle[e] \in 0 .. TTL + 1
          /\ idle'[e] = IF second /\ idle[e] <= TTL THEN idle[e] + 1 ELSE idle[e]
      BY <1>0, <2>2, <3>1 DEF NAT!Later
    <3> QED BY <3>2, <3>3, <3>4, <3>5
  <2>4. table' = [e \in Endpoints |-> IF e \in closed THEN 0 ELSE table[e]]
    BY <2>1
  <2>5. closed \in SUBSET Endpoints
    OBVIOUS
  <2> HIDE DEF second, closed
  <2>6. NAT!Pass
    BY <2>1, <2>2, <2>3, <2>4, <2>5 DEF NAT!Pass
  <2> QED BY <2>6 DEF NAT!Next
<1>7. CASE UNCHANGED vars
  BY <1>7 DEF vars, NAT!vars
<1>8. CASE \E e \in Endpoints : udpSend(e)
  BY <1>2, <1>8 DEF NAT!Next
<1>9. CASE \E i \in Open, n \in 1 .. MaxSends : UdpData(i, n)
  <2>1. \A i \in Open : session[i].ep \in Endpoints
    BY <1>0, Shape DEF Open
  <2> QED BY <1>3, <1>9, <2>1 DEF NAT!Next
<1> QED BY <1>4, <1>5, <1>6, <1>7, <1>8, <1>9 DEF Next, processUdp

\* The sessions behind the gateway implement UdpNat: whatever seconds begin
\* inside its callbacks and however handshakes end, an endpoint keeps its socket
\* until more than TTL silent seconds have passed (ImplementsNat).
THEOREM ProxyImplementsNat == Spec => ImplementsNat
<1>1. Init => NAT!Init
  BY DEF Init, NAT!Init
<1> QED BY <1>1, NatStep, Invariance, PTL DEF Spec, ImplementsNat, NAT!Spec
=============================================================================

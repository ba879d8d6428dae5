------------------------ MODULE ForwardServer_proofs ------------------------
(***************************************************************************)
(* Proofs about ForwardServer, for any clients, consoles, time limits and  *)
(* number of Peer objects.                                                 *)
(***************************************************************************)
EXTENDS ForwardServer, TLAPS

\* A client that is listed has an object.
Made == \A c \in Clients : peers[c] # Absent => gen[c] >= 1

\* Object p is the one its client has in the manager, with at least n units to
\* go, or it was removed because a send failed.
Current(p, n) == p \in failed \/ (peers[p[1]] >= n /\ p[2] = gen[p[1]])

\* A login was asked for by who knows a password, not longer ago than its age.
Logins == \A v \in verifying : v.peer[1] \in Good /\ Current(v.peer, Timeout - v.age)

\* A route leads to the last sender and was renewed one reading of the clock
\* after its entry was.
Routes ==
    \A i \in Ips : cache[i].ttl # Absent =>
        /\ cache[i].peer \in Objects /\ cache[i].peer[1] = last[i]
        /\ cache[i].ttl <= 0 \/ Current(cache[i].peer, cache[i].ttl - 1)

IInv == TypeOK /\ Made /\ LoginProved /\ Logins /\ Routes

\* A Peer is a pair.
LEMMA Pairs ==
    /\ \A p \in Objects : p[1] \in Clients /\ p[2] \in 1 .. MaxGen /\ p = <<p[1], p[2]>>
    /\ \A c \in Clients, g \in 1 .. MaxGen :
          <<c, g>> \in Objects /\ <<c, g>>[1] = c /\ <<c, g>>[2] = g
    /\ NoObject \notin Objects
BY DEF Objects, NoObject

\* What is left of a time that is not over.
LEMMA LeftOver ==
    ASSUME NEW n \in Absent .. Timeout, NEW d \in {0, 1}
    PROVE  /\ Left(n, d) \in Absent .. Timeout
           /\ Left(n, d) = Absent <=> n = Absent
           /\ n >= 0 => Left(n, d) = n - d
           /\ n < 0 => Left(n, d) = n
BY ServerAssumption DEF Left, Absent

\* What PeerManager.get, which every message calls, keeps and gives when the
\* clock moves by d after it.
LEMMA Gets ==
    ASSUME IInv, NEW c \in Clients, NEW d \in {0, 1}, Arrives(c, d), failed' = failed
    PROVE  /\ GetPeer(c) \in Objects /\ GetPeer(c)[1] = c
           /\ gen' \in [Clients -> 0 .. MaxGen] /\ peers' \in [Clients -> Absent .. Timeout]
           /\ Made'
           /\ \A p \in Objects, n \in d .. Timeout : Current(p, n) => Current(p, n - d)'
           /\ \A p \in Objects : p = GetPeer(c) /\ Timeout >= d => Current(p, Timeout - d)'
<1> DEFINE p == GetPeer(c)
<1>1. Timeout \in Nat /\ MaxGen \in Nat \ {0}
  BY ServerAssumption
<1>2. gen[c] \in 0 .. MaxGen /\ \A x \in Clients : peers[x] \in Absent .. Timeout
  BY DEF IInv, TypeOK
<1>3. p = <<c, p[2]>> /\ p[1] = c /\ p[2] \in 1 .. MaxGen
  BY <1>1, <1>2 DEF Arrives, GetPeer, Listed, IInv, Made
<1>4. p \in Objects
  BY <1>3, Pairs
<1>5. /\ gen' = [gen EXCEPT ![c] = p[2]]
      /\ peers[c] # Absent => p[2] = gen[c]
  BY DEF Arrives, GetPeer, Listed
<1>6. /\ peers' = [x \in Clients |-> Left(IF x = c THEN Timeout ELSE peers[x], d)]
      /\ \A x \in Clients : (IF x = c THEN Timeout ELSE peers[x]) \in Absent .. Timeout
  BY <1>1, <1>2 DEF Arrives, Get, PeersLater, IInv, TypeOK, Absent
<1> HIDE DEF p
<1>7. /\ peers'[c] = Left(Timeout, d)
      /\ \A x \in Clients : x # c => peers'[x] = Left(peers[x], d)
  BY <1>6
<1>8. gen' \in [Clients -> 0 .. MaxGen]
  BY <1>1, <1>3, <1>5 DEF IInv, TypeOK
<1>9. peers' \in [Clients -> Absent .. Timeout]
  BY <1>6, LeftOver
<1>10. Made'
  BY <1>1, <1>2, <1>3, <1>5, <1>7, LeftOver DEF IInv, TypeOK, Made
<1>11. ASSUME NEW q \in Objects, NEW n \in d .. Timeout, Current(q, n) PROVE Current(q, n - d)'
  <2>1. q[1] \in Clients /\ n \in Nat /\ n - d \in Nat /\ Timeout >= d
    BY <1>1, Pairs
  <2>2. CASE q \in failed
    BY <2>2 DEF Current
  <2>3. CASE q \notin failed
    <3>1. peers[q[1]] >= n /\ q[2] = gen[q[1]]
      BY <1>11, <2>3 DEF Current
    <3>2. peers[q[1]] \in 0 .. Timeout
      BY <1>1, <1>2, <2>1, <3>1 DEF Absent
    <3>3. q[2] = gen'[q[1]]
      BY <1>5, <2>1, <3>1, <3>2 DEF IInv, TypeOK, Absent
    <3>4. peers'[q[1]] >= n - d
      <4>1. CASE q[1] = c
        <5>1. Left(Timeout, d) = Timeout - d
          BY <1>1 DEF Left
        <5> QED  BY <1>1, <1>7, <2>1, <4>1, <5>1
      <4>2. CASE q[1] # c
        <5>1. peers'[q[1]] = peers[q[1]] - d
          BY <1>1, <1>7, <2>1, <3>2, <4>2 DEF Left
        <5> QED  BY <1>1, <2>1, <3>1, <3>2, <5>1
      <4> QED  BY <4>1, <4>2
    <3> QED  BY <3>3, <3>4 DEF Current
  <2> QED  BY <2>2, <2>3
<1>12. ASSUME NEW q \in Objects, q = p, Timeout >= d PROVE Current(q, Timeout - d)'
  <2>1. peers'[c] = Timeout - d
    BY <1>1, <1>7 DEF Left
  <2>2. gen'[c] = p[2]
    BY <1>5 DEF IInv, TypeOK
  <2> QED  BY <1>1, <1>3, <1>12, <2>1, <2>2 DEF Current
<1> QED  BY <1>3, <1>4, <1>8, <1>9, <1>10, <1>11, <1>12 DEF p

\* The clock moves by d, and who is current stays so: the awaited logins get
\* older and stay within the time of their entries.
LEMMA LoginsAge ==
    ASSUME IInv, NEW d \in {0, 1}, Elapse(d),
           \A q \in Objects, n \in d .. Timeout : Current(q, n) => Current(q, n - d)'
    PROVE  verifying' \subseteq [peer : Objects, age : 0 .. LoginTimeout] /\ Logins'
<1>0. Timeout \in Nat /\ LoginTimeout \in Nat /\ LoginTimeout <= Timeout
  BY ServerAssumption
<1>1. \A v \in verifying : /\ v.peer \in Objects /\ v.age \in 0 .. LoginTimeout
                           /\ v.age + d <= LoginTimeout /\ v = [peer |-> v.peer, age |-> v.age]
  <2> SUFFICES ASSUME NEW v \in verifying
               PROVE  /\ v.peer \in Objects /\ v.age \in 0 .. LoginTimeout
                      /\ v.age + d <= LoginTimeout /\ v = [peer |-> v.peer, age |-> v.age]
    OBVIOUS
  <2>1. v \in [peer : Objects, age : 0 .. LoginTimeout]
    BY DEF IInv, TypeOK
  <2>2. d = 1 => v.age # LoginTimeout
    BY DEF Elapse, Due
  <2> QED  BY <1>0, <2>1, <2>2
<1>2. \A w \in verifying' : \E v \in verifying : w = [peer |-> v.peer, age |-> v.age + d]
  BY <1>1 DEF Elapse
<1>3. verifying' \subseteq [peer : Objects, age : 0 .. LoginTimeout]
  BY <1>0, <1>1, <1>2
<1>4. Logins'
  <2> SUFFICES ASSUME NEW w \in verifying'
               PROVE  w.peer[1] \in Good /\ Current(w.peer, Timeout - w.age)'
    BY DEF Logins
  <2>1. PICK v \in verifying : w = [peer |-> v.peer, age |-> v.age + d]
    BY <1>2
  <2>2. /\ w.peer = v.peer /\ Timeout - v.age \in d .. Timeout
        /\ Timeout - w.age = (Timeout - v.age) - d
    BY <1>0, <1>1, <2>1
  <2>3. v.peer[1] \in Good /\ Current(v.peer, Timeout - v.age) /\ v.peer \in Objects
    BY <1>1 DEF IInv, Logins
  <2> DEFINE n == Timeout - v.age
  <2>4. Current(v.peer, n - d)'
    BY <2>2, <2>3
  <2> QED  BY <2>2, <2>3, <2>4 DEF Current
<1> QED  BY <1>3, <1>4

\* What holds of one route.
RouteOf(i) ==
    cache[i].ttl # Absent =>
        /\ cache[i].peer \in Objects /\ cache[i].peer[1] = last[i]
        /\ cache[i].ttl <= 0 \/ Current(cache[i].peer, cache[i].ttl - 1)

\* The same for a route that the step does not renew.
LEMMA RouteAges ==
    ASSUME IInv, NEW d \in {0, 1}, NEW i \in Ips,
           \A q \in Objects, n \in d .. Timeout : Current(q, n) => Current(q, n - d)',
           last'[i] = last[i],
           cache'[i].ttl # Absent =>
               cache'[i].peer = cache[i].peer /\ cache'[i].ttl = Left(cache[i].ttl, d)
    PROVE  RouteOf(i)'
<1> SUFFICES ASSUME cache'[i].ttl # Absent
             PROVE  /\ cache'[i].peer \in Objects /\ cache'[i].peer[1] = last'[i]
                    /\ cache'[i].ttl <= 0 \/ Current(cache[i].peer, cache[i].ttl - 1)'
  BY DEF RouteOf
<1> DEFINE q == cache[i].peer
           t == cache[i].ttl
<1>1. t \in Absent .. Timeout /\ Timeout \in Nat /\ d \in {0, 1}
  BY ServerAssumption DEF IInv, TypeOK
<1>2. cache'[i].peer = q /\ cache'[i].ttl = Left(t, d)
  OBVIOUS
<1>3. t # Absent
  BY <1>1, <1>2, LeftOver
<1>4. q \in Objects /\ q[1] = last[i] /\ (t <= 0 \/ Current(q, t - 1))
  BY <1>3 DEF IInv, Routes
<1> HIDE DEF q, t
<1>5. Left(t, d) <= 0 \/ (t >= 0 /\ Left(t, d) = t - d /\ t - 1 \in d .. Timeout)
  BY <1>1 DEF Left, Absent
<1>6. CASE Left(t, d) <= 0
  BY <1>2, <1>4, <1>6
<1>7. CASE t >= 0 /\ Left(t, d) = t - d /\ t - 1 \in d .. Timeout
  <2> DEFINE n == t - 1
  <2>1. n \in d .. Timeout /\ Current(q, n)
    BY <1>1, <1>4, <1>7
  <2>2. n - d = Left(t, d) - 1
    BY <1>1, <1>7
  <2> HIDE DEF n
  <2>3. q \in failed' \/ (peers'[q[1]] >= n - d /\ q[2] = gen'[q[1]])
    BY <1>4, <2>1 DEF Current
  <2> QED  BY <1>2, <1>4, <2>2, <2>3 DEF Current
<1> QED  BY <1>5, <1>6, <1>7

\* A message that does not read the clock again leaves the logins ...
LEMMA LoginsKept ==
    ASSUME IInv, NEW c \in Clients, Arrives(c, 0), failed' = failed, verifying' = verifying
    PROVE  Logins'
<1> SUFFICES ASSUME NEW v \in verifying PROVE v.peer[1] \in Good /\ Current(v.peer, Timeout - v.age)'
  BY DEF Logins
<1>1. v.peer \in Objects /\ v.age \in 0 .. LoginTimeout
  BY DEF IInv, TypeOK
<1> DEFINE n == Timeout - v.age
<1>2. n \in 0 .. Timeout /\ n - 0 = n
  BY <1>1, ServerAssumption
<1>3. v.peer[1] \in Good /\ Current(v.peer, n)
  BY DEF IInv, Logins
<1>4. \A q \in Objects, m \in 0 .. Timeout : Current(q, m) => Current(q, m - 0)'
  BY Gets
<1>5. Current(v.peer, n - 0)'
  <2> HIDE DEF n
  <2> QED  BY <1>1, <1>2, <1>3, <1>4
<1> QED  BY <1>2, <1>3, <1>5 DEF Current

\* ... and the routes as they are.
LEMMA RoutesKept ==
    ASSUME IInv, NEW c \in Clients, Arrives(c, 0), UNCHANGED <<failed, cache, last>>
    PROVE  Routes'
<1> SUFFICES ASSUME NEW i \in Ips PROVE RouteOf(i)'
  BY DEF Routes, RouteOf
<1>1. \A q \in Objects, n \in 0 .. Timeout : Current(q, n) => Current(q, n - 0)'
  BY Gets
<1>2. cache[i].ttl \in Absent .. Timeout
  BY DEF IInv, TypeOK
<1>3. cache'[i].peer = cache[i].peer /\ cache'[i].ttl = Left(cache[i].ttl, 0)
  BY <1>2, ServerAssumption DEF Left, Absent
<1> QED  BY <1>1, <1>3, RouteAges

\* Keepalive, Ipv4, Challenge and AuthMe: what they do after get.
LEMMA KeepaliveStep ==
    ASSUME IInv, NEW c \in Clients, Keepalive(c)
    PROVE  IInv'
<1>1. Arrives(c, 0) /\ UNCHANGED <<auth, object, cache, verifying, answers, last, failed>>
  BY DEF Keepalive
<1>2. TypeOK' /\ Made'
  BY <1>1, Gets DEF IInv, TypeOK
<1>3. LoginProved'
  BY <1>1 DEF IInv, LoginProved
<1>4. Logins'
  BY <1>1, LoginsKept
<1>5. Routes'
  BY <1>1, RoutesKept
<1> QED  BY <1>2, <1>3, <1>4, <1>5 DEF IInv

\* Ipv4 keeps the invariant: the route gets a full time, its entry has at most
\* the d less that the clock moved in between.
LEMMA Ipv4Step ==
    ASSUME IInv, NEW c \in Clients, NEW src \in Ips, NEW d \in {0, 1}, Ipv4(c, src, d)
    PROVE  IInv'
<1> DEFINE p == GetPeer(c)
<1>1. /\ Arrives(c, d) /\ Elapse(d) /\ UNCHANGED <<auth, object, answers, failed>>
      /\ cache' = [CacheLater(d) EXCEPT ![src] = [peer |-> p, ttl |-> Timeout]]
      /\ last' = [last EXCEPT ![src] = p[1]]
  BY DEF Ipv4, onIpv4, onIpv4Frag, Learned
<1>2. p \in Objects /\ p[1] \in Clients /\ Timeout \in Absent .. Timeout /\ Timeout \in Nat
  BY <1>1, Gets, Pairs, ServerAssumption DEF Absent
<1>3. /\ \A q \in Objects : q = p /\ Timeout >= d => Current(q, Timeout - d)'
      /\ \A q \in Objects, n \in d .. Timeout : Current(q, n) => Current(q, n - d)'
  BY <1>1, Gets
<1> HIDE DEF p
<1>4. /\ CacheLater(d) \in [Ips -> [peer : Objects \cup {NoObject}, ttl : Absent .. Timeout]]
      /\ \A i \in Ips : CacheLater(d)[i].peer = cache[i].peer /\ CacheLater(d)[i].ttl = Left(cache[i].ttl, d)
  BY LeftOver DEF CacheLater, IInv, TypeOK
<1>5. verifying' \subseteq [peer : Objects, age : 0 .. LoginTimeout] /\ Logins'
  BY <1>1, <1>3, LoginsAge
<1>6. TypeOK' /\ Made'
  <2>1. cache' \in [Ips -> [peer : Objects \cup {NoObject}, ttl : Absent .. Timeout]]
    BY <1>1, <1>2, <1>4
  <2>2. last' \in [Ips -> Clients \cup {Nobody}]
    BY <1>1, <1>2 DEF IInv, TypeOK
  <2> QED  BY <1>1, <1>5, <2>1, <2>2, Gets DEF IInv, TypeOK
<1>7. LoginProved'
  BY <1>1 DEF IInv, LoginProved
<1>8. Routes'
  <2> SUFFICES ASSUME NEW i \in Ips PROVE RouteOf(i)'
    BY DEF Routes, RouteOf
  <2>1. CASE i = src
    <3>1. cache'[i] = [peer |-> p, ttl |-> Timeout] /\ last'[i] = p[1]
      BY <1>1, <1>4, <2>1 DEF IInv, TypeOK
    <3>2. (cache'[i]).peer = p /\ (cache'[i]).ttl = Timeout
      BY <3>1
    <3>3. Timeout <= 0 \/ p \in failed' \/ (peers'[p[1]] >= Timeout - 1 /\ p[2] = gen'[p[1]])
      <4>1. CASE Timeout <= 0
        BY <4>1
      <4>2. CASE Timeout > 0
        <5>1. Timeout >= d /\ Timeout - d >= Timeout - 1
          BY <1>2, <4>2
        <5>2. p \in failed' \/ (peers'[p[1]] >= Timeout - d /\ p[2] = gen'[p[1]])
          BY <1>2, <1>3, <5>1 DEF Current
        <5>3. peers'[p[1]] \in Int
          BY <1>2, <1>6 DEF TypeOK, Absent
        <5> QED  BY <1>2, <5>1, <5>2, <5>3
      <4> QED  BY <1>2, <4>1, <4>2
    <3> QED  BY <1>2, <3>1, <3>2, <3>3 DEF RouteOf, Current
  <2>2. CASE i # src
    <3>1. cache'[i] = CacheLater(d)[i] /\ last'[i] = last[i]
      BY <1>1, <1>4, <2>2 DEF IInv, TypeOK
    <3>2. cache'[i].peer = cache[i].peer /\ cache'[i].ttl = Left(cache[i].ttl, d)
      BY <1>4, <3>1
    <3> QED  BY <1>3, <3>1, <3>2, RouteAges
  <2> QED  BY <2>1, <2>2
<1> QED  BY <1>5, <1>6, <1>7, <1>8 DEF IInv

\* Challenge keeps the invariant.
LEMMA ChallengeStep ==
    ASSUME IInv, NEW c \in Clients, Challenge(c)
    PROVE  IInv'
<1> DEFINE p == GetPeer(c)
<1>1. /\ Arrives(c, 0) /\ UNCHANGED <<auth, cache, verifying, last, failed>>
      /\ object' = [object EXCEPT ![p].challenge = IF @ = "none" THEN "filling" ELSE @]
      /\ answers' = answers \/ answers' = answers \cup {p}
  BY DEF Challenge
<1>2. p \in Objects
  BY <1>1, Gets
<1> HIDE DEF p
<1>3. /\ object' \in [Objects -> [user : Objects \cup {NoObject}, challenge : {"none", "filling", "ready"}]]
      /\ \A q \in Objects : object'[q].user = object[q].user
  BY <1>1, <1>2 DEF IInv, TypeOK
<1>4. TypeOK' /\ Made'
  BY <1>1, <1>2, <1>3, Gets DEF IInv, TypeOK
<1>5. LoginProved'
  BY <1>3 DEF IInv, LoginProved
<1> QED  BY <1>1, <1>4, <1>5, LoginsKept, RoutesKept DEF IInv

\* AuthMe keeps the invariant.
LEMMA AuthMeStep ==
    ASSUME IInv, NEW c \in Clients, NEW q \in answers, AuthMe(c, q)
    PROVE  IInv'
<1> DEFINE p == GetPeer(c)
<1>1. /\ Arrives(c, 0) /\ UNCHANGED <<auth, object, cache, answers, last, failed>>
      /\ \/ verifying' = verifying
         \/ c \in Good /\ verifying' = verifying \cup {[peer |-> p, age |-> 0]}
  BY DEF AuthMe
<1>2. p \in Objects /\ p[1] = c /\ \A r \in Objects : r = p => Current(r, Timeout)'
  <2>1. Timeout >= 0 /\ Timeout - 0 = Timeout
    BY ServerAssumption
  <2>2. /\ p \in Objects /\ p[1] = c
        /\ \A r \in Objects : r = p /\ Timeout >= 0 => Current(r, Timeout - 0)'
    BY <1>1, Gets
  <2> QED  BY <2>1, <2>2 DEF Current
<1> HIDE DEF p
<1>3. TypeOK' /\ Made'
  <2>1. verifying' \subseteq [peer : Objects, age : 0 .. LoginTimeout]
    BY <1>1, <1>2, ServerAssumption DEF IInv, TypeOK
  <2> QED  BY <1>1, <2>1, Gets DEF IInv, TypeOK
<1>4. LoginProved'
  BY <1>1 DEF IInv, LoginProved
<1>5. Logins'
  <2> SUFFICES ASSUME NEW v \in verifying'
               PROVE  v.peer[1] \in Good /\ Current(v.peer, Timeout - v.age)'
    BY DEF Logins
  <2>1. CASE v \in verifying
    <3>1. v.peer \in Objects /\ v.age \in 0 .. LoginTimeout
      BY <2>1 DEF IInv, TypeOK
    <3> DEFINE n == Timeout - v.age
    <3>2. n \in 0 .. Timeout /\ n - 0 = n
      BY <3>1, ServerAssumption
    <3>3. v.peer[1] \in Good /\ Current(v.peer, n)
      BY <2>1 DEF IInv, Logins
    <3>4. \A r \in Objects, m \in 0 .. Timeout : Current(r, m) => Current(r, m - 0)'
      BY <1>1, Gets
    <3>5. Current(v.peer, n - 0)'
      <4> HIDE DEF n
      <4> QED  BY <3>1, <3>2, <3>3, <3>4
    <3> QED  BY <3>2, <3>3, <3>5 DEF Current
  <2>2. CASE v \notin verifying
    <3>1. c \in Good /\ v = [peer |-> p, age |-> 0]
      BY <1>1, <2>2
    <3>2. v.peer = p /\ Timeout - v.age = Timeout
      BY <3>1, ServerAssumption
    <3>3. (Timeout - v.age)' = Timeout
      BY <3>2
    <3> QED  BY <1>2, <3>1, <3>2, <3>3 DEF Current
  <2> QED  BY <2>1, <2>2
<1> QED  BY <1>1, <1>3, <1>4, <1>5, RoutesKept DEF IInv

\* The random bytes arrive, and the challenge is sent or lost.
LEMMA FilledStep ==
    ASSUME IInv, NEW p \in Objects, Filled(p) \/ Lost(p)
    PROVE  IInv'
<1>1. /\ UNCHANGED <<auth, gen, peers, cache, verifying, last, failed>>
      /\ object' = object \/ object' = [object EXCEPT ![p].challenge = "ready"]
      /\ answers' \subseteq answers \cup {p}
  BY DEF Filled, Lost
<1>2. /\ object' \in [Objects -> [user : Objects \cup {NoObject}, challenge : {"none", "filling", "ready"}]]
      /\ \A q \in Objects : object'[q].user = object[q].user
  BY <1>1 DEF IInv, TypeOK
<1>3. TypeOK' /\ Made'
  BY <1>1, <1>2 DEF IInv, TypeOK, Made
<1>4. LoginProved'
  BY <1>2 DEF IInv, LoginProved
<1>5. Logins' /\ Routes'
  BY <1>1 DEF IInv, Logins, Routes, Current
<1> QED  BY <1>3, <1>4, <1>5 DEF IInv

\* The check of a login ends.
LEMMA VerifyStep ==
    ASSUME IInv, NEW v \in verifying, Succeeds(v) \/ Fails(v)
    PROVE  IInv'
<1>0. v.peer \in Objects /\ v.peer[1] \in Good
  BY DEF IInv, TypeOK, Logins
<1>1. /\ UNCHANGED <<auth, gen, peers, cache, answers, last, failed>>
      /\ object' = object \/ object' = [object EXCEPT ![v.peer].user = v.peer]
      /\ verifying' \subseteq verifying
  BY DEF Succeeds, Fails, LoginPeer
<1>2. /\ object' \in [Objects -> [user : Objects \cup {NoObject}, challenge : {"none", "filling", "ready"}]]
      /\ \A q \in Objects : object'[q].user = object[q].user \/ (q = v.peer /\ object'[q].user = q)
  BY <1>0, <1>1 DEF IInv, TypeOK
<1>3. TypeOK' /\ Made'
  BY <1>1, <1>2 DEF IInv, TypeOK, Made
<1>4. LoginProved'
  BY <1>0, <1>2 DEF IInv, LoginProved
<1>5. Logins' /\ Routes'
  BY <1>1 DEF IInv, Logins, Routes, Current
<1> QED  BY <1>3, <1>4, <1>5 DEF IInv

\* SendFails keeps the invariant.
LEMMA SendFailsStep ==
    ASSUME IInv, NEW c \in Clients, SendFails(c)
    PROVE  IInv'
<1> DEFINE p == <<c, gen[c]>>
<1>0. peers[c] # Absent /\ gen[c] \in 1 .. MaxGen
  BY ServerAssumption DEF SendFails, Listed, IInv, TypeOK, Made
<1>1. /\ peers' = [peers EXCEPT ![c] = Absent] /\ failed' = failed \cup {p}
      /\ UNCHANGED <<auth, gen, object, cache, verifying, answers, last>>
  BY DEF SendFails
<1>2. p \in Objects
  BY <1>0, Pairs
<1>3. ASSUME NEW q \in Objects, NEW n \in Int, Current(q, n) PROVE Current(q, n)'
  <2>1. q[1] \in Clients /\ q = <<q[1], q[2]>>
    BY Pairs
  <2>2. CASE q[1] = c
    <3>1. q \in failed \/ q = p
      BY <1>3, <2>1, <2>2 DEF Current
    <3> QED  BY <1>1, <3>1 DEF Current
  <2>3. CASE q[1] # c
    BY <1>1, <1>3, <2>1, <2>3 DEF Current, IInv, TypeOK
  <2> QED  BY <2>2, <2>3
<1> HIDE DEF p
<1>4. TypeOK' /\ Made'
  BY <1>1, <1>2, ServerAssumption DEF IInv, TypeOK, Made, Absent
<1>5. LoginProved'
  BY <1>1 DEF IInv, LoginProved
<1>6. Logins'
  <2> SUFFICES ASSUME NEW v \in verifying
               PROVE  v.peer[1] \in Good /\ Current(v.peer, Timeout - v.age)'
    BY <1>1 DEF Logins
  <2>1. v.peer \in Objects /\ Timeout - v.age \in Int
    BY ServerAssumption DEF IInv, TypeOK
  <2> QED  BY <1>3, <2>1 DEF IInv, Logins
<1>7. Routes'
  <2> SUFFICES ASSUME NEW i \in Ips, cache[i].ttl # Absent
               PROVE  /\ cache[i].peer \in Objects /\ cache[i].peer[1] = last[i]
                      /\ \/ cache[i].ttl <= 0
                         \/ \E q \in Objects, n \in Int :
                               q = cache[i].peer /\ n = cache[i].ttl - 1 /\ Current(q, n)'
    BY <1>1 DEF Routes, Current
  <2>1. cache[i].peer \in Objects /\ cache[i].ttl - 1 \in Int
    BY ServerAssumption DEF IInv, TypeOK, Routes, Absent
  <2> QED  BY <1>3, <2>1 DEF IInv, Routes
<1> QED  BY <1>4, <1>5, <1>6, <1>7 DEF IInv

\* A step of the clock or of the interval keeps the invariant: it takes d from
\* every time and may drop what is over.
LEMMA ClockStep ==
    ASSUME IInv, NEW d \in {0, 1}, Elapse(d),
           UNCHANGED <<auth, gen, object, answers, last, failed>>,
           peers' \in [Clients -> Absent .. Timeout],
           \A c \in Clients : peers'[c] = Left(peers[c], d) \/ (peers[c] < 0 /\ peers'[c] = Absent),
           cache' \in [Ips -> [peer : Objects \cup {NoObject}, ttl : Absent .. Timeout]],
           \A i \in Ips : cache'[i].ttl # Absent =>
               cache'[i].peer = cache[i].peer /\ cache'[i].ttl = Left(cache[i].ttl, d)
    PROVE  IInv'
<1>0. Timeout \in Nat /\ \A c \in Clients : peers[c] \in Absent .. Timeout
  BY ServerAssumption DEF IInv, TypeOK
<1>1. ASSUME NEW q \in Objects, NEW n \in d .. Timeout, Current(q, n) PROVE Current(q, n - d)'
  <2>1. q[1] \in Clients /\ n \in Nat /\ n - d \in Nat
    BY <1>0, Pairs
  <2>2. CASE q \in failed
    BY <2>2 DEF Current
  <2>3. CASE q \notin failed
    <3>1. peers[q[1]] >= n /\ q[2] = gen[q[1]]
      BY <1>1, <2>3 DEF Current
    <3>2. peers[q[1]] \in 0 .. Timeout
      BY <1>0, <2>1, <3>1 DEF Absent
    <3>3. peers'[q[1]] = peers[q[1]] - d
      BY <1>0, <2>1, <3>2 DEF Left
    <3> QED  BY <1>0, <2>1, <3>1, <3>2, <3>3 DEF Current
  <2> QED  BY <2>2, <2>3
<1>2. verifying' \subseteq [peer : Objects, age : 0 .. LoginTimeout] /\ Logins'
  BY <1>1, LoginsAge
<1>3. TypeOK'
  BY <1>2 DEF IInv, TypeOK
<1>4. Made' /\ LoginProved'
  BY <1>0, LeftOver DEF IInv, Made, LoginProved, Absent
<1>5. Routes'
  <2> SUFFICES ASSUME NEW i \in Ips PROVE RouteOf(i)'
    BY DEF Routes, RouteOf
  <2> QED  BY <1>1, RouteAges
<1> QED  BY <1>2, <1>3, <1>4, <1>5 DEF IInv

\* Time passes between two callbacks.
LEMMA TickStep ==
    ASSUME IInv, Tick
    PROVE  IInv'
<1>1. /\ Elapse(1) /\ UNCHANGED <<auth, gen, object, answers, last, failed>>
      /\ peers' = PeersLater(peers, 1) /\ cache' = CacheLater(1)
  BY DEF Tick
<1>2. /\ peers' \in [Clients -> Absent .. Timeout]
      /\ \A c \in Clients : peers'[c] = Left(peers[c], 1)
  BY <1>1, LeftOver DEF PeersLater, IInv, TypeOK
<1>3. /\ cache' \in [Ips -> [peer : Objects \cup {NoObject}, ttl : Absent .. Timeout]]
      /\ \A i \in Ips : cache'[i].peer = cache[i].peer /\ cache'[i].ttl = Left(cache[i].ttl, 1)
  BY <1>1, LeftOver DEF CacheLater, IInv, TypeOK
<1>4. /\ \A c \in Clients : peers'[c] = Left(peers[c], 1) \/ (peers[c] < 0 /\ peers'[c] = Absent)
      /\ \A i \in Ips : cache'[i].ttl # Absent =>
             cache'[i].peer = cache[i].peer /\ cache'[i].ttl = Left(cache[i].ttl, 1)
  BY <1>2, <1>3
<1>5. 1 \in {0, 1}
  OBVIOUS
<1> HIDE DEF Absent, Left, IInv, Elapse
<1> QED  BY ONLY IInv, <1>1, <1>2, <1>3, <1>4, <1>5, ClockStep, Zenon

\* The sweep drops only what is over, each map by its own reading.
LEMMA SweepStep ==
    ASSUME IInv, NEW d \in {0, 1}, clearExpire(d)
    PROVE  IInv'
<1>0. Timeout \in Nat
  BY ServerAssumption
<1>1. /\ Elapse(d) /\ UNCHANGED <<auth, gen, object, answers, last, failed>>
      /\ peers' = PeersLater([c \in Clients |-> IF peers[c] < 0 THEN Absent ELSE peers[c]], d)
      /\ cache' = [i \in Ips |-> IF CacheLater(d)[i].ttl < 0 THEN NoRoute ELSE CacheLater(d)[i]]
  BY DEF clearExpire
<1>2. ASSUME NEW c \in Clients
      PROVE  /\ peers'[c] \in Absent .. Timeout
             /\ peers'[c] = Left(peers[c], d) \/ (peers[c] < 0 /\ peers'[c] = Absent)
  <2>1. peers'[c] = Left(IF peers[c] < 0 THEN Absent ELSE peers[c], d)
    BY <1>1 DEF PeersLater
  <2>2. peers[c] \in Absent .. Timeout /\ Absent \in Absent .. Timeout
    BY <1>0 DEF IInv, TypeOK, Absent
  <2> QED  BY <2>1, <2>2, LeftOver
<1>3. peers' \in [Clients -> Absent .. Timeout]
  BY <1>1, <1>2 DEF PeersLater
<1>4. /\ CacheLater(d) \in [Ips -> [peer : Objects \cup {NoObject}, ttl : Absent .. Timeout]]
      /\ \A i \in Ips : CacheLater(d)[i].peer = cache[i].peer /\ CacheLater(d)[i].ttl = Left(cache[i].ttl, d)
  BY LeftOver DEF CacheLater, IInv, TypeOK
<1>5. NoRoute \in [peer : Objects \cup {NoObject}, ttl : Absent .. Timeout] /\ NoRoute.ttl = Absent
  BY <1>0 DEF NoRoute, Absent
<1>6. /\ cache' \in [Ips -> [peer : Objects \cup {NoObject}, ttl : Absent .. Timeout]]
      /\ \A i \in Ips : cache'[i] = NoRoute \/ cache'[i] = CacheLater(d)[i]
  BY <1>1, <1>4, <1>5
<1>7. \A i \in Ips : cache'[i].ttl # Absent =>
          cache'[i].peer = cache[i].peer /\ cache'[i].ttl = Left(cache[i].ttl, d)
  BY <1>4, <1>5, <1>6
<1>8. \A c \in Clients : peers'[c] = Left(peers[c], d) \/ (peers[c] < 0 /\ peers'[c] = Absent)
  BY <1>2
<1> QED  BY <1>1, <1>3, <1>6, <1>7, <1>8, ClockStep, Zenon

\* The server starts empty.
LEMMA Starts == Init => IInv
<1> SUFFICES ASSUME Init PROVE IInv
  OBVIOUS
<1>1. TypeOK
  BY ServerAssumption DEF Init, TypeOK, NoRoute, Absent
<1>2. Made /\ LoginProved /\ Logins /\ Routes
  BY DEF Init, Made, LoginProved, Logins, Routes, NoRoute
<1> QED  BY <1>1, <1>2 DEF IInv

\* Every message, promise, failed send, sweep and unit of time keeps the invariant.
LEMMA Inductive == IInv /\ [Next]_vars => IInv'
<1> SUFFICES ASSUME IInv, [Next]_vars PROVE IInv'
  OBVIOUS
<1>1. ASSUME NEW c \in Clients,
             \/ Keepalive(c) \/ Challenge(c) \/ SendFails(c)
             \/ \E src \in Ips, d \in {0, 1} : Ipv4(c, src, d)
             \/ \E q \in answers : AuthMe(c, q)
      PROVE  IInv'
  BY <1>1, KeepaliveStep, ChallengeStep, SendFailsStep, Ipv4Step, AuthMeStep
<1>2. ASSUME NEW p \in Objects, Filled(p) \/ Lost(p) PROVE IInv'
  BY <1>2, FilledStep
<1>3. ASSUME NEW v \in verifying, Succeeds(v) \/ Fails(v) PROVE IInv'
  BY <1>3, VerifyStep
<1>4. CASE Tick
  BY <1>4, TickStep
<1>5. ASSUME NEW d \in {0, 1}, clearExpire(d) PROVE IInv'
  BY <1>5, SweepStep
<1>6. CASE UNCHANGED vars
  BY <1>6 DEF vars, IInv, TypeOK, Made, LoginProved, Logins, Routes, Current
<1> QED  BY <1>1, <1>2, <1>3, <1>4, <1>5, <1>6 DEF Next

(***************************************************************************)
(* The theorems.                                                           *)
(***************************************************************************)
\* IInv holds in every reachable state.
THEOREM Invariant == Spec => []IInv
BY Starts, Inductive, PTL DEF Spec

\* Every variable of the server keeps its range; no awaited login is older than
\* the limit of withTimeout.
THEOREM TypeCorrect == Spec => []TypeOK
<1>1. IInv => TypeOK
  BY DEF IInv
<1> QED  BY <1>1, Invariant, PTL

\* A Peer is logged in only by a client with a password that answered the
\* challenge of that very object.
THEOREM LoginsAreProved == Spec => []LoginProved
<1>1. IInv => LoginProved
  BY DEF IInv
<1> QED  BY <1>1, Invariant, PTL

\* While verify is awaited the Peer stays listed, because the limit of
\* withTimeout is not above the lifetime of an entry.
THEOREM LoginsStay == Spec => []LoginStaysListed
<1>1. ASSUME IInv PROVE LoginStaysListed
  <2> SUFFICES ASSUME NEW v \in verifying, v.peer \notin failed
               PROVE  v.peer[1] \in Listed /\ v.peer[2] = gen[v.peer[1]]
    BY DEF LoginStaysListed
  <2>1. v.peer \in Objects /\ v.age \in 0 .. LoginTimeout /\ v.peer[1] \in Clients
    BY <1>1, Pairs DEF IInv, TypeOK
  <2>2. peers[v.peer[1]] >= Timeout - v.age /\ v.peer[2] = gen[v.peer[1]]
    BY <1>1 DEF IInv, Logins, Current
  <2>3. peers[v.peer[1]] \in Absent .. Timeout
    BY <1>1, <2>1 DEF IInv, TypeOK
  <2> QED  BY <2>1, <2>2, <2>3, ServerAssumption DEF Listed, Absent
<1> QED  BY <1>1, Invariant, PTL

\* A route leads to the last sender, and its time is ahead of that of its
\* client's entry by at most what passes between two readings of the clock,
\* unless a failed send has dropped the client.
THEOREM RoutesAreListed == Spec => []RouteListed
<1>1. IInv => RouteListed
  BY DEF IInv, Routes, RouteListed, Current
<1> QED  BY <1>1, Invariant, PTL

\* A datagram reaches the client that spoke last for its destination, by its
\* route or by broadcast, and comes back to its sender only for its own console.
THEOREM OwnersAreReached == Spec => []ReachesOwner
<1>1. ASSUME IInv PROVE ReachesOwner
  <2> SUFFICES ASSUME NEW c \in Clients, NEW src \in Ips, NEW dst \in Ips
               PROVE  LET to == Recipients(GetPeer(c), dst, Learned(GetPeer(c), src, 0))
                          owner == IF dst = src THEN c ELSE last[dst]
                      IN  /\ owner \in Listed \ {c} => owner \in to
                          /\ c \in to => owner = c
    BY DEF ReachesOwner
  <2> DEFINE p == GetPeer(c)
             routes == Learned(p, src, 0)
  <2>1. p[1] = c
    BY DEF GetPeer
  <2>2. /\ dst = src => routes[dst].ttl # Absent /\ routes[dst].peer[1] = c
        /\ dst # src => routes[dst].ttl = cache[dst].ttl /\ routes[dst].peer = cache[dst].peer
    <3>0. CacheLater(0) = [i \in Ips |-> [cache[i] EXCEPT !.ttl = Left(@, 0)]]
      BY DEF CacheLater
    <3>1. routes[src] = [peer |-> p, ttl |-> Timeout]
      BY <1>1, <3>0 DEF Learned, IInv, TypeOK
    <3>2. routes[src].ttl = Timeout /\ routes[src].peer[1] = c
      BY <2>1, <3>1
    <3>3. dst # src => routes[dst].ttl = cache[dst].ttl /\ routes[dst].peer = cache[dst].peer
      <4>1. cache[dst].ttl \in Absent .. Timeout /\ Left(cache[dst].ttl, 0) = cache[dst].ttl
        BY <1>1, ServerAssumption DEF IInv, TypeOK, Left, Absent
      <4>2. CacheLater(0)[dst].ttl = cache[dst].ttl /\ CacheLater(0)[dst].peer = cache[dst].peer
        BY <1>1, <3>0, <4>1 DEF IInv, TypeOK
      <4> QED  BY <3>0, <4>2 DEF Learned
    <3> QED  BY <3>2, <3>3, ServerAssumption DEF Absent
  <2>3. cache[dst].ttl # Absent => cache[dst].peer[1] = last[dst]
    BY <1>1 DEF IInv, Routes
  <2>4. \A o \in Listed : Get(c)[o] # Absent
    BY <1>1, ServerAssumption DEF Get, Listed, IInv, TypeOK, Absent
  <2> HIDE DEF p, routes
  <2>5. Recipients(p, dst, routes) = IF routes[dst].ttl # Absent THEN {routes[dst].peer[1]}
                                     ELSE {o \in Clients : Get(c)[o] # Absent} \ {c}
    BY <2>1 DEF Recipients
  <2>6. Listed \subseteq Clients
    BY DEF Listed
  <2> QED  BY <2>2, <2>3, <2>4, <2>5, <2>6 DEF p, routes
<1> QED  BY <1>1, Invariant, PTL
=============================================================================

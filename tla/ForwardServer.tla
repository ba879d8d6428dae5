--------------------------- MODULE ForwardServer ----------------------------
(***************************************************************************)
(* The forwarding server of server/src: SLPServer, its PeerManager, the    *)
(* address cache and the login of a client.  One Node event loop: every    *)
(* action is one callback, and an await ends an action.                    *)
(*                                                                         *)
(* A client's messages may be lost, repeated and delayed: they arrive at   *)
(* any time and in any number.  The response to a challenge is under way   *)
(* from when the challenge is sent until it, or the response, is lost.     *)
(*                                                                         *)
(* A Peer object is named by its client and its generation: an object that *)
(* has left the manager can still be held by the cache or by a login.      *)
(*                                                                         *)
(* Times are kept as what is left of them.  Date.now() is read for every   *)
(* entry and every sweep anew, so the clock may move inside a callback: d  *)
(* is by how much.  The unit is longer than what passes between two        *)
(* readings of one callback, so that d is 0 or 1.                          *)
(***************************************************************************)
EXTENDS Integers, FiniteSets

CONSTANTS
    Clients,        \* addresses of clients
    Good,           \* the clients that know a user's password
    Ips,            \* addresses of consoles
    Modes,          \* among TRUE (an authProvider is given) and FALSE
    Timeout,        \* `Timeout', in units of the clock
    LoginTimeout,   \* the limit of withTimeout, in the same units
    MaxGen,         \* bound on the Peer objects made for a client
    MaxFails        \* bound on failed sends

\* In the code 30 s and 5 s.
ASSUME ServerAssumption ==
    /\ Good \subseteq Clients /\ Modes \subseteq BOOLEAN
    /\ Timeout \in Nat /\ LoginTimeout \in Nat /\ LoginTimeout <= Timeout
    /\ MaxGen \in Nat \ {0} /\ MaxFails \in Nat

Nobody == "nobody"
ASSUME NobodyAssumption == Nobody \notin Clients

Objects == Clients \X (1 .. MaxGen)
NoObject == <<Nobody, 0>>

VARIABLES
    auth,       \* authProvider is defined
    gen,        \* how many Peer objects each client has had
    peers,      \* PeerManager.map: listed or not, and how long
    object,     \* the fields of every Peer; the user is represented by the
                \* object whose challenge was answered
    cache,      \* ipCache
    verifying,  \* calls of verify that are awaited
    answers,    \* the objects whose challenge is being answered by their client
    last,       \* the last client accepted as the sender for each console
    failed      \* the objects removed because a send failed

vars == <<auth, gen, peers, object, cache, verifying, answers, last,
          failed>>

\* What is left of the time of an entry: Expired once `expireAt < now', Absent
\* when there is no entry.
Expired == -1
Absent == -2

TypeOK ==
    /\ auth \in Modes
    /\ gen \in [Clients -> 0 .. MaxGen]
    /\ peers \in [Clients -> Absent .. Timeout]
    /\ object \in [Objects -> [user : Objects \cup {NoObject}, challenge : {"none", "filling", "ready"}]]
    /\ cache \in [Ips -> [peer : Objects \cup {NoObject}, ttl : Absent .. Timeout]]
    /\ verifying \subseteq [peer : Objects, age : 0 .. LoginTimeout]
    /\ answers \subseteq Objects /\ failed \subseteq Objects
    /\ last \in [Ips -> Clients \cup {Nobody}]

NoRoute == [peer |-> NoObject, ttl |-> Absent]

Init ==
    /\ auth \in Modes
    /\ gen = [c \in Clients |-> 0]
    /\ peers = [c \in Clients |-> Absent]
    /\ object = [o \in Objects |-> [user |-> NoObject, challenge |-> "none"]]
    /\ cache = [i \in Ips |-> NoRoute]
    /\ verifying = {} /\ answers = {} /\ failed = {}
    /\ last = [i \in Ips |-> Nobody]
----------------------------------------------------------------------------
Listed == {c \in Clients : peers[c] # Absent}

\* What is left of n when the clock has moved by d.
Left(n, d) == IF n >= 0 THEN n - d ELSE n

PeersLater(m, d) == [c \in Clients |-> Left(m[c], d)]

CacheLater(d) == [i \in Ips |-> [cache[i] EXCEPT !.ttl = Left(@, d)]]

\* The timer of withTimeout fires before the clock moves on.
Due(v) == v.age = LoginTimeout

\* The clock moves by d while logins are awaited.
Elapse(d) ==
    /\ d = 1 => \A v \in verifying : ~ Due(v)
    /\ verifying' = {[v EXCEPT !.age = @ + d] : v \in verifying}

\* A bug in PeerManager.get: the entry of a peer that is listed is not renewed.
GetOnce(c) == [peers EXCEPT ![c] = IF @ = Absent THEN Timeout ELSE @]

\* PeerManager.get: the map after it ...
Get(c) == [peers EXCEPT ![c] = Timeout]

\* ... and the object it returns.
GetPeer(c) == IF c \in Listed THEN <<c, gen[c]>> ELSE <<c, gen[c] + 1>>

\* What every message but a ping does first, and then the clock moves by d; the
\* bound on objects is here.
Arrives(c, d) ==
    /\ c \in Listed \/ gen[c] < MaxGen
    /\ peers' = PeersLater(Get(c), d)
    /\ gen' = [gen EXCEPT ![c] = GetPeer(c)[2]]

Allowed(p) == ~ auth \/ (p[2] <= MaxGen /\ object[p].user # NoObject)

\* A bug in onIpv4: who has a route gets the datagram, and nobody otherwise.
RecipientsRouted(p, dst, routes) ==
    IF routes[dst].ttl # Absent THEN {routes[dst].peer[1]} ELSE {}

\* sendTo the route, or sendBroadcast to PeerManager.all but the sender.
Recipients(p, dst, routes) ==
    IF routes[dst].ttl # Absent THEN {routes[dst].peer[1]}
    ELSE {c \in Clients : Get(p[1])[c] # Absent} \ {p[1]}

\* ipCache.set for the source of a datagram, with a reading of the clock that
\* is d later than the one of get.
Learned(p, src, d) == [CacheLater(d) EXCEPT ![src] = [peer |-> p, ttl |-> Timeout]]

\* onIpv4, for a payload of more than 20 bytes.  Whom it is sent to, and so its
\* destination, changes nothing here: that is Recipients.
onIpv4(p, src, d) ==
    /\ cache' = Learned(p, src, d)
    /\ last' = [last EXCEPT ![src] = p[1]]

\* onIpv4Frag reads the addresses elsewhere and does the same.
onIpv4Frag(p, src, d) == onIpv4(p, src, d)

\* Keepalive, a short payload, or an AuthMe of a client that is logged in.
Keepalive(c) ==
    /\ Arrives(c, 0) /\ Allowed(GetPeer(c))
    /\ UNCHANGED <<auth, object, cache, verifying, answers, last, failed>>

Ipv4(c, src, d) ==
    /\ Arrives(c, d) /\ Allowed(GetPeer(c))
    /\ Elapse(d)
    /\ onIpv4(GetPeer(c), src, d) \/ onIpv4Frag(GetPeer(c), src, d)
    /\ UNCHANGED <<auth, object, answers, failed>>

\* A bug in onNeedAuth: only a new challenge is sent.
ResendsNever(p) == FALSE

\* A challenge that is complete is sent again.
Resends(p) == object[p].challenge = "ready"

\* onNeedAuth for a message that is not AuthMe: the first one makes the
\* challenge, later ones have it sent again, unless it is still being filled.
Challenge(c) ==
    LET p == GetPeer(c)
    IN  /\ Arrives(c, 0) /\ ~ Allowed(p)
        /\ object' = [object EXCEPT ![p].challenge = IF @ = "none" THEN "filling" ELSE @]
        /\ answers' = answers \cup (IF Resends(p) THEN {p} ELSE {})
        /\ UNCHANGED <<auth, cache, verifying, last, failed>>

\* The await of randomFill ends.
Filled(p) ==
    /\ object[p].challenge = "filling"
    /\ object' = [object EXCEPT ![p].challenge = "ready"]
    /\ answers' = answers \cup {p}
    /\ UNCHANGED <<auth, gen, peers, cache, verifying, last, failed>>

\* onNeedAuth for AuthMe, up to its await: the response of client c to the
\* challenge of object q is checked against that of its object of now.  A call
\* of verify that must fail only has Info sent, and is not kept.
AuthMe(c, q) ==
    LET p == GetPeer(c)
    IN  /\ q \in answers /\ q[1] = c
        /\ Arrives(c, 0) /\ ~ Allowed(p)
        /\ verifying' = IF c \in Good /\ q = p /\ object[p].challenge # "none"
                        THEN verifying \cup {[peer |-> p, age |-> 0]}
                        ELSE verifying
        /\ UNCHANGED <<auth, object, cache, answers, last, failed>>

\* The last copy of a challenge or of the response to it is lost.
Lost(q) ==
    /\ q \in answers /\ q[1] \in Good
    /\ answers' = answers \ {q}
    /\ UNCHANGED <<auth, gen, peers, object, cache, verifying, last, failed>>

\* A bug: the login is entered in the object the manager has now.
LoginPeerNow(v) == <<v.peer[1], gen[v.peer[1]]>>

\* The object that was captured before the await.
LoginPeer(v) == v.peer

Succeeds(v) ==
    /\ v \in verifying
    /\ object' = [object EXCEPT ![LoginPeer(v)].user = v.peer]
    /\ verifying' = verifying \ {v}
    /\ UNCHANGED <<auth, gen, peers, cache, answers, last, failed>>

\* An unknown user, an error of the provider or the limit of withTimeout: Info
\* is sent.
Fails(v) ==
    /\ v \in verifying
    /\ verifying' = verifying \ {v}
    /\ UNCHANGED <<auth, gen, peers, object, cache, answers, last, failed>>

\* The callback of a send that failed forgets the client.  As onPing answers
\* any address at any time, the callback can come for any client.
SendFails(c) ==
    /\ Cardinality(failed) < MaxFails /\ c \in Listed
    /\ peers' = [peers EXCEPT ![c] = Absent]
    /\ failed' = failed \cup {<<c, gen[c]>>}
    /\ UNCHANGED <<auth, gen, object, cache, verifying, answers, last>>

\* The interval's clearExpire: the manager is swept with one reading of the
\* clock, the cache with one that is d later.
clearExpire(d) ==
    /\ Elapse(d)
    /\ peers' = PeersLater([c \in Clients |-> IF peers[c] < 0 THEN Absent ELSE peers[c]], d)
    /\ cache' = [i \in Ips |-> IF CacheLater(d)[i].ttl < 0 THEN NoRoute ELSE CacheLater(d)[i]]
    /\ UNCHANGED <<auth, gen, object, answers, last, failed>>

\* Time passes between two callbacks.
Tick ==
    /\ Elapse(1)
    /\ peers' = PeersLater(peers, 1) /\ cache' = CacheLater(1)
    /\ UNCHANGED <<auth, gen, object, answers, last, failed>>

Next ==
    \/ \E c \in Clients :
        \/ Keepalive(c) \/ Challenge(c) \/ SendFails(c)
        \/ \E src \in Ips, d \in {0, 1} : Ipv4(c, src, d)
        \/ \E q \in answers : AuthMe(c, q)
    \/ \E p \in Objects : Filled(p) \/ Lost(p)
    \/ \E v \in verifying : Succeeds(v) \/ Fails(v)
    \/ \E d \in {0, 1} : clearExpire(d)
    \/ Tick

\* Clients send keepalives for ever, some of what is sent over and over arrives,
\* randomFill ends, and not every call of the provider fails.
Fairness ==
    /\ \A c \in Good : WF_vars(Challenge(c)) /\ SF_vars(AuthMe(c, GetPeer(c)))
    /\ \A p \in Good \X (1 .. MaxGen) : WF_vars(Filled(p))
    /\ SF_vars(\E v \in verifying : Succeeds(v))

Spec == Init /\ [][Next]_vars /\ Fairness
----------------------------------------------------------------------------
(* Properties.                                                             *)

\* A Peer counts as logged in only when its client knows a password and could
\* have answered the challenge of this very object, whatever objects, responses
\* and awaited calls of an earlier one are still around.
LoginProved == \A p \in Objects : object[p].user # NoObject => p[1] \in Good /\ object[p].user = p

\* While a login is awaited its Peer stays in the manager, so that it is not
\* entered in a forgotten object, unless a send to the client has failed.
LoginStaysListed ==
    \A v \in verifying :
        v.peer \in failed \/ (v.peer[1] \in Listed /\ v.peer[2] = gen[v.peer[1]])

\* A route leads to the last sender.  It is renewed and swept by readings of
\* the clock of its own, so it can still be there when the manager has dropped
\* its client; but its time is never ahead of that of the client's entry by more
\* than what passes between two readings, unless a failed send dropped it.
RouteListed ==
    \A i \in Ips : cache[i].ttl # Absent =>
        LET p == cache[i].peer
        IN  /\ p[1] = last[i]
            /\ \/ p \in failed \/ cache[i].ttl <= 0
               \/ peers[p[1]] >= cache[i].ttl - 1 /\ p[2] = gen[p[1]]

\* A datagram for a console reaches the client that last spoke for it, as long
\* as that client is listed: by its route or, when that has ended, by broadcast.
\* Nothing comes back to its sender, unless it is for a console of its own.
ReachesOwner ==
    \A c \in Clients, src, dst \in Ips : Allowed(GetPeer(c)) =>
        LET to == Recipients(GetPeer(c), dst, Learned(GetPeer(c), src, 0))
            owner == IF dst = src THEN c ELSE last[dst]
        IN  /\ owner \in Listed \ {c} => owner \in to
            /\ c \in to => owner = c

\* A client with a password whose messages keep arriving is logged in, if its
\* Peer stays listed: lost, repeated and late messages cannot block its login.
LogsIn ==
    \A p \in Good \X (1 .. MaxGen) :
        auth /\ p[1] \in Listed /\ gen[p[1]] = p[2]
            ~> object[p].user # NoObject \/ p[1] \notin Listed \/ gen[p[1]] # p[2]
=============================================================================

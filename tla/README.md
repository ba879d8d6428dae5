# A TLA+ development for GRID0-relay

GRID0-relay joins a stock Nintendo Switch on Wi-Fi to a ZeroTier network. One
process captures Ethernet frames on both adapters, finds the console, translates
its datagrams and answers ARP and DHCP on its behalf; it also carries the
console's TCP connections through lwIP to a proxy. A desktop application starts
and stops that process with administrator rights, and a server of the original
project forwards packets between clients. This directory holds TLA+ models of
these parts, their model-checking configurations, and machine-checked proofs.
`PROJECT.json` lists every run, property, mutant, source line, hazard and
theorem; this file explains them.

Run a model with `tlc -config X.cfg M`, a proof with `tlapm M.tla`.

## 1. The system and what is modelled

| Part of the system | Source | State, operations, concurrency | Module |
|---|---|---|---|
| ARP caches | `src/src/arp.c` | two arrays of 100 slots, 30 s lifetime, linear scan; wall clock read by each call | `ArpTable`, `Clock`, `ArpCache`, `ArpMap`, `NeighborSend` |
| Frame relay | `src/src/lan-play.c`, `packet.c`, `arp.c`, `ipv4/*.c` | `struct lan_play`; two capture callbacks and the gateway's output on one libuv loop | `RelayNet`, `RelayCore`, `Relay` |
| Relays on one overlay | the same, several processes | frames under way between members | `Overlay` |
| Host UDP port guard | `src/src/native-udp.c` | at most 64 bound ports; binding may fail | `native_udp_guard_reserve` of `RelayCore` |
| Discovery timer | `src/src/lan-play.c` 477-519 | 8-bit host counter, two phases, pause; runs between frames | `SwitchDiscovery` |
| DHCP server | `src/src/dhcp-server.c` | 8 lease slots with expiry; clock read several times per packet; replies may be lost | `DhcpServer`, `Clock` |
| TCP bridge | `src/uv_lwip/uv_lwip.c`, `uv_lwip.hpp` | one connection between lwIP and libuv: deferred reads and writes, close in several steps | `TcpBridge` |
| Gateway, SOCKS5 and direct proxies | `src/src/gateway.cpp`, `proxy_*.cpp` | asynchronous TCP connections; UDP sessions with expiry | TCP in `TcpBridge`; UDP in `UdpProxy`, `UdpNat` |
| lwIP | `src/lwip/core/tcp*.c` | send and receive queues, windows, retransmission | `TcpSeq`, `LwipReceive`, `LwipSend`, for an established connection |
| Desktop controller, supervisor | `src/desktop/controller.cpp`, `posix-supervisor.cpp` | window, authorisation helper, supervisor and relay are processes of their own | `Lifecycle` |
| Start, stop, instance lock | `src/src/main.c` | process scan, lock, signals | `Lifecycle` |
| Legacy server | `src/server` | peers with expiry, asynchronous login, routes | `ForwardServer` |
| Captures, pcap loop, legacy client, RPC, views, firewall rule | see section 7 | | not modelled |

All callbacks of the relay run to completion on one libuv loop, and so do those
of the window (Qt) and of the server (Node). One callback is therefore one
action. What still interleaves is the order of callbacks, the clock (several
`time(NULL)` calls inside a callback may read different seconds), other
processes (the relays of an overlay, other applications that hold ports, the
supervisor), promises that settle later, and losses on the network.

## 2. The modules

**ArpTable, ArpCache, ArpMap.** `ArpTable` has the functions of `arp.c` as
operators on the array: `arp_set` fills the first slot that is empty, has the
same address or expired before the current second; `arp_has_ip` and
`arp_get_mac_by_ip` scan for a live slot. `ArpCache` runs them with the clock of
`Clock`, which `DhcpServer` reads too.
`ArpMap` is the abstract promise: a map from addresses to a MAC and an expiry,
where a call for one address sets its binding or, with a full table, does
nothing. `ImplementsMap` is the refinement; `0.0.0.0` is outside the map because
a slot with that address counts as empty.

**NeighborSend** extends `ArpCache` with `lan_play_send_zerotier_ipv4`, which
looks twice and lets a second begin in between.

**RelayNet, RelayCore, Relay.** `RelayNet` has addresses, frames and address
classes. `RelayCore` has each handler as an operator from a configuration, a
state and a frame to its possible outcomes: next state and transmissions. Its
names are those of the C functions; helpers without a C name (`Conflict`,
`HandledFromWifi`, ...) name the condition of an early return. `Relay` drives one
relay by any order of frames (`WifiFrame`, `ZeroTierFrame`), replies of the local
gateway (`GatewaySend`) and expiring ARP entries (`ArpExpire`). `out` records
what the last callback transmitted.

Abstractions: frames are well formed (length and version tests are left out);
payloads keep protocol, fragment, source port, whether the destination port is
35000, and a size class (up to `ETHER_MTU`, up to the packet buffer, beyond). The
ARP tables are untimed maps whose entries disappear between callbacks, which is
what `CacheImplementsMap` proves of the array; a table that fills up within the
lifetime of its entries is covered by `ArpCache` only. DHCP packets are consumed
before discovery and belong to `DhcpServer`. An answer to the delivery probe
exists only after the probe. ICMP to the gateway is answered only for datagrams
that fit a frame. The branch of `arp_request` for a relay without
`--zerotier-if` is dead, since `main.c` requires that option.

**Overlay** composes several relays. `net` holds the frames under way, delivered
in any order; a broadcast reaches every member and the capture of the sending
adapter itself. `due` records unicast datagrams for another member that its
console has not received. ARP entries expire in both tables; the constant
`Expiring` bounds for which addresses.

**SwitchDiscovery** is the timer callback with its real constants: hosts 2-254,
600 pause ticks, 8-bit wrap. The console may answer, stay silent or be
overheard.

**DhcpServer** has one action per message type. `last` is the last exchange and
`grants` what clients believe they were given; the server itself has neither.
Each action sweeps expired leases at `now`, searches the array at `t` and writes
it at `u`, since the code reads the clock each time; one second may begin in
between. A reply may be lost (`received`).
The wire format, event lines and counters are left out.

**TcpBridge** is one connection of the console from lwIP's accept to the free of
its C++ object. `Accept`, `Segment` and `PcbError` are lwIP's callbacks;
`AsyncRead` and `AsyncWrite` the deferred ones that `uv_lwip.c` posts to itself;
`ProxyAnswer` to `ProxyError` the events of the direct or SOCKS5 proxy or of the
fake server; `HandlesClosed` the close callback of libuv; `Release` and
`TimerClosed` the shutdown of the interface; `ProxyClosed` the callback of the
connect or write that was in flight when the proxy's socket was closed
(`cancelled`), which libuv makes when the socket has closed, before or after the
handles of the console's side. Operators with the names of the C
functions (`UvlWrite`, `ImpWriteToTcp`, `SentFunc`, `UvlTcpClose`, `Kill`, ...)
change a record of the connection and are called inside these actions. Bytes are
numbers in stream order, so that a loss, a repetition or a wrong place shows.
Left out: allocation failures and the contents of the SOCKS5 messages.

**LwipReceive, LwipSend** (with the wrapping arithmetic of **TcpSeq**) are the two
halves of lwIP's data transfer under that connection. `LwipReceive` has
`tcp_receive` with its trimming, the out-of-order queue, the announced window and
the delayed acknowledgement; the console may lose, repeat, reorder and cut
segments anywhere. `LwipSend` has `tcp_write`, `tcp_output`, the handling of
acknowledgements, fast retransmit, the retransmission timer, the persist timer
and the give-up. Sequence numbers are `2^Width` wide and wrap inside the runs.
Left out: the handshake, options, the estimate of the round trip (a timer may
fire as soon as it is due), reset segments; the peer is the console's TCP, an
external actor.

**Lifecycle** has the window (`Start`, `Stop`, `Close`, `Finish`, the two timers),
the helper that asks for the password, the supervisor and the relay as processes
that run at their own pace, on three platforms: `pkexec` waits for the supervisor,
`osascript` does not, Windows has no supervisor. A relay started by hand competes
for the instance lock. Any process may crash where the code has a way to go on;
an action such as `RelayScan`, `RelayLock`, `RelaySignals`, `RelayInit` is one step of
the relay's start.

**ForwardServer** has the peers of `udpserver.ts`, the challenge and its random
bytes, the asynchronous check of a login, routes by address, expiry and send
errors. Each peer object has a number (`gen`), because a client that comes back
after expiry has a new object while the promise of the old one may still settle.
Times are kept as what is left of them. `Date.now()` is read anew for every entry
and every sweep, so the clock may move by `d` inside a callback: between `get` and
`ipCache.set` in `Ipv4`, and between the sweeps of peers and routes in `clearExpire`.
The unit of the clock is longer than what passes between two readings of one
callback, so `d` is 0 or 1; an event loop that stalls for whole units inside a
callback is not modelled. An entry is swept only once `expireAt < now`, so it may
be found expired and still listed (`Expired`, as against `Absent`).

**UdpProxy, UdpNat.** `UdpProxy` has the table of UDP sessions of `ProxyBase`, its
`gc` timer, and the two kinds of session. `processUdp` is a datagram of the
console: `getUdp` finds the session of its source endpoint, makes one or replaces
an expired one, whose sockets close with it. `Connected`, `MethodChosen`,
`Associated` and `Refused` are the steps of a SOCKS5 handshake, `UdpData` is a reply
of the remote host. Time is what is left of a session's lifetime; `late` marks a
second that begins inside a callback, between two calls of `time(NULL)`, and for
`Gc` the items of the table that are tested after it. The variables `sent`,
`answered`, `got` and `idle` are history: datagrams are numbered, so that a
reply at the wrong endpoint or a datagram out of order shows. `UdpNat` is the promise: a port translation
in which an endpoint keeps its binding until it was silent in both directions for
more than the lifetime. Left out: the destinations (a session serves all of
them) and the SOCKS5 header.

**MC modules** (`MCRelay`, `MCOverlay`, `MCSwitchDiscovery`, `MCDhcpServer`) give
the constants their small values where a `.cfg` cannot.

## 3. Runs that pass

Some properties join several invariants that are about one thing; the parts are
definitions of their own next to it. Times are for two workers.

**arp_cache** (module `NeighborSend`; 3 slots, 30 s shortened to 2 s, clock to 5;
124,898 states, 42 s). `ImplementsMap`: the array refines `ArpMap`, also when a
second begins between the two lookups of `lan_play_send_zerotier_ipv4`, and although `arp_set` may put an address into an expired low
slot while a higher slot still has it. Three slots are enough to have a duplicate
and a full table at the same time; the proofs below cover every size.

**relay** (one console that may use an overlay, the managed or a DHCP address, an
access point that repeats its frames, one overlay peer that may also use the
console's address, a port guard with room for one more port).
`ConsolePinned`: address and confirmed MAC never change, a provisional MAC once.
`OverlaySound`: no console datagram enters the overlay untranslated
(`ManagedSource`) or without its source port held (`PortsReserved`),
port-unreachable errors stay local (`NoUnreachable`), and the relay announces its
own managed address only (`OverlayArpTruth`).
`ReturnPath`: overlay datagrams go to the pinned MAC, whatever the ARP table
says. `StateSound`: types, and what the overlay table may hold
(`NeighborsAreMembers`).

**overlay** (two relays whose consoles are known, two datagrams, any destination
among the members, entries of the consoles expiring; 137,277 states, 57 s).
`MembersSound`: the state of every member keeps its type and no console hears its
own datagrams (`NoReflection`). `EndToEnd`: a datagram for another member's relay or
console reaches that console, whether its MAC is known, unknown or just expired.
`Quiesces`: the overlay falls silent.

**discovery** (real constants, consoles at the first and last hosts of both ranges).
`SweepComplete`: a sweep is exactly both ranges without the relay's own address.
`ConsoleFound`: a console that answers in the end is found.

**dhcp** (three consoles, two slots, two leasable addresses, lease 2 s, offer 1 s,
clock to 3). `LeaseUnique`: one slot per client and one live lease per address.
`ExclusiveGrant`: no two consoles rely on one address. `RenewalHonoured`: a renewal
in time is acknowledged.

**bridge** (three bytes each way, window and send buffer of two, a fake answer of
three, all three kinds of remote; 353,548 states, 31 s). `StreamsIntact`: the
bytes of each direction arrive once, in order, and what is held is exactly what is
still to be delivered. `RequestsSound`: a write request is outstanding exactly as
long as one of its bytes is unacknowledged, one at a time. `FreeOrder`: once the
handles are closed nobody reads, no request is queued and the proxy's socket is
closed, so that only a cancelled request of that socket can still call the
connection; and the owner is freed last. `FaultsKnown`: there are two faults and
no others. The null `tcp` of `Socks5ProxyTcp` is touched, only when the gateway is
released during a SOCKS5 handshake; and a cancelled request calls a connection
that is destroyed (`FreedNotCalled`, section 4). No assertion fails.
`EndAfterData`: the console sees the remote's end only after its data.
`EndsFreed`: a connection is freed when the console ends it (`ConsoleEndFrees`,
for the direct proxy) and when the gateway is released (`ReleaseFrees`, unless
that hits the handshake); the observations in section 4 say where the other kinds
differ. Two-byte windows force partial writes; three bytes make a request span two
of them.

**lifecycle** (all three platforms, two starts and a manual relay; 182,524
states, 1 min). `OneRelay`: one relay at a time is past the lock. `NoStrayRelay`:
a relay that the window no longer owns has lost its connection and so stops;
with pkexec and on Windows there is none while the window is idle. `QuitWaits`: the
window quits by itself only after its relay. `StopIsFinal`: a late ready message
does not undo a stop. `RelaysEnd`: a stop ends in Idle (`StopCompletes`), and when
the window is gone, by quitting or crashing, so are its relays in the end
(`OrphansStop`). Two starts are what it takes for an old session to
meet a new one.

**server** (two clients of which one knows a password, two addresses, peer
lifetime 1, login timeout 1, two objects per client, one failed send; 232,209
states, 2 min; with lifetime 2 there are 394,345 states, with the same result).
`LoginProved`: a peer is logged in only by an answer to its own challenge.
`ReachesOwner`: a datagram reaches the listed owner of its destination and no
sender gets its own back, unless it owns the destination itself. `RouteListed`: a
route leads to the client that last sent from its address and, until the last unit
of the route's lifetime and except after a failed send, to the object that client
is listed with. In the last unit the peer may have gone before its route, since
the two entries are made with separate readings of the clock. `LogsIn`: a client
that knows its password and keeps answering is logged in or expires.

**lwip_receive** (a stream of 7 bytes, segments of 2, window 6, 5-bit sequence
numbers that wrap in its middle; 11,504 states, 40 s). `InStreamOrder`: the
application gets the console's stream, once and in order. `ReceiverSound`: the
out-of-order queue is sorted, disjoint, inside the window and true to the stream.
`WindowIsFree`: the window never promises more than is free. `EdgeKept`: the right
edge of the window never moves back. `AllAcknowledged`: with a console that
retransmits, everything is acknowledged in the end. The stream is longer than
the window, so the window must close and reopen.

**lwip_send** (two bytes, segments of two, a console's buffer of four, one
retransmission before giving up, two segments in flight, 5-bit numbers that wrap;
155,564 states, 67 s). `QueuesSound`: unsent and unacknowledged segments cover
exactly the bytes that are not acknowledged, in order. `NeverSilent`: with data
left a timer runs or the application has been told. `WithinWindow`: no data is
sent beyond the console's window, but for the one byte of the persist timer's
probe. `Drains`: the queues empty or the connection is given up. A stream of three
bytes, which is longer than a segment (719,618 states, over five minutes), and two
retransmissions (357,300 states) give the same result.

**udp_sessions** (both proxies, two endpoints, three sessions, four datagrams,
lifetime 1 s; 233,410 states, 64 s). `SessionsSound`: the open sockets are exactly
those of the table, each under its own endpoint; a direct session forwards all it
is given, a SOCKS5 session everything from the newest datagram that waited for
the association; a reply reaches the endpoint whose datagram it answers, or
nobody. `ImplementsNat`: the table refines `UdpNat`. `Reclaimed`: when the traffic
ends every socket is closed, those of failed handshakes included. Three sessions
for two endpoints make one of them be replaced while the other lives.

Each passing property has a mutant, a definition with a plausible bug (named
next to the original in the module), under which TLC finds it violated.

## 4. Statements of the repository that the code does not keep

Each line is one sentence of a document, comment or test, stated as a property
for which TLC finds a counterexample. They state disagreements, of various
weight. Those with a run are in `PROJECT.json`; the others are reproduced by
adding the definition to the configuration named.

| Property | How | Statement | What happens |
|---|---|---|---|
| `Quiesces` | run overlay_storm | `src/src/lan-play.c:350`: anything else is dropped | it falls through to `process_ipv4`, which sends it back; two relays do so for ever |
| `NoNullContext` | `INVARIANT` in `NeighborSend.cfg` | `tests/native_relay_test.c:176`: no ARP send from a null context | an entry that expires between two lookups causes one |
| `ProbeStaysLocal` | `INVARIANT` in `MCRelay.cfg` | `docs/relay-diagnostics.md:45`: the probe's response never enters ZeroTier | the probe went to a provisional MAC; the console answers from its own, and the reply is relayed |
| `ProbeOnReply` | `PROPERTY` in `MCRelay.cfg` | `docs/relay-diagnostics.md:45`: the first incoming reply triggers the echo, with diagnostics enabled; `tests/native_relay_test.c:202`: it "follows a browse reply only once" | it is sent with discovery, diagnostics or not (`lan-play.c:287-314` says so itself), and the call in `lan_play_relay_zerotier_ipv4` never transmits |
| `GatewayStaysLocal` | `INVARIANT` in `MCRelay.cfg` | `docs/zerotier-transport.md:10`: packets for the fake gateway stay local | the gateway address is in the overlay subnet and is relayed like any other |
| `TablesSeparate` | `PROPERTY` in `MCRelay.cfg` | `docs/relay-diagnostics.md:49`: the ARP tables cannot overwrite each other | `process_arp` and `process_ipv4` write the local table for overlay frames |
| `BufferSuffices` | `INVARIANT` in `MCRelay.cfg`, with `ZeroTierFrames <- MCLargeFrames` | `src/src/packet.c:17`: `assert(0)` | overlay datagrams above 2048 bytes reach it |
| `OwnAddressForFirstConsole` | `INVARIANT` in `MCDhcpServer.cfg`, with `Configured = {2}` | `src/src/dhcp-server.c:107`: additional consoles fall back to the pool | the relay's address is offered to a second console while the first one uses it |

The rest are observations made while modelling. No statement of the repository
contradicts them, and no property is checked for them unless one is named.

- *Relay.* `--subnet` may be wider than the adapter's netmask, and `ManagedSource`
  then fails for the addresses between the two (`MCRelay` has them equal, as the
  desktop application passes them). The gateway's replies to the console use the
  local ARP table, not the pinned MAC. With three relays a datagram that is sent
  back teaches the third relay the wrong neighbour, and a relay whose datagram
  comes back from another member may put it on its own console's Wi-Fi:
  `NoReflection` holds of two relays and fails with `Relays = {1, 2, 3}`. A DHCP REQUEST that names
  another server of the same subnet is answered with a NAK.
- *Bridge.* Data that arrives with or before the console's FIN and is not read yet
  is dropped, and lwIP answers with a reset. `tcp_write` that runs out of memory
  with nothing in flight is not tried again, so the stream stalls. A SOCKS5
  handshake that fails or is not answered leaves the connection for ever, and a
  release during the handshake uses the null `tcp`. The listeners of `onConnection`
  capture `this` (`gateway.cpp:24-40`); when the proxy's socket is closed with a
  connect or write in flight, libuv calls it back as cancelled once the socket has
  closed, and on Unix the handle closed last comes first, so the connection may be
  destroyed by then: `FreedNotCalled`, as `INVARIANT` in `TcpBridge.cfg`, fails after
  `Accept`, `Release`, `HandlesClosed`, `TimerClosed`, `ProxyClosed`. `FaultsKnown` says
  that there is no third fault. A fake connection whose console closes before it
  acknowledged everything is not closed. A connect that fails at once leaves a
  closed connection in `connSet` until the release. `uv_lwip.c:196` tests for -1
  though the function returns 0 or `ERR_ABRT`.
- *UDP.* After a failed handshake, or when the server drops an association, which
  nobody notices, the session swallows every datagram for as long as the console
  sends more often than the lifetime; only silence replaces it. Of the datagrams
  that wait for an association the newest is kept. `PROXY_UDP_TABLE_LEN` limits
  nothing.
- *Desktop.* A supervisor that is killed leaves a relay with root rights. With
  `osascript` the window can be idle, or quit, while the supervisor still stops the
  relay. An interrupt between `fork` and the reset of its handler is lost; the kill
  after the deadline covers it. `--rpc` does not take the instance lock.
- *Server.* `JsonAuthProvider` has no users while it reloads its file.
- *lwIP.* With failing outputs (`Fails = TRUE` of `LwipSend`) a fast retransmission
  followed by a failed output lets a FIN or more data join a segment that was sent
  already, and `QueuesCover` fails.
- *RPC.* A start that fails after `init_pcap` leaves its captures polling, and the
  next start opens a second pair. UDP sessions outlive a stop.

## 5. Fairness

The invariants and action properties need none. For liveness:

| Module | Fair | Why the code justifies it |
|---|---|---|
| `SwitchDiscovery` | weak: the timer; strong: an answer | the timer repeats; a console that is probed again and again answers in the end |
| `Overlay` | weak: delivery of some frame | the overlay delivers what it does not lose; losses are left out of that run |
| `TcpBridge` | weak: `HandlesClosed`, the connect's answer, the end of a write | libuv reports the end of each request and close |
| `Lifecycle` | weak: `Finish`, the stop timer, the loop, deadline, kill and reap of each supervisor, the helper's exit | kernel and event loops make progress; no relay is assumed to stop by itself, except on Windows, where nobody outlives the application to kill it |
| `ForwardServer` | weak: a client asks for a challenge, the random bytes arrive; strong: a client with a password answers, its check succeeds | clients repeat their messages; an answer may be lost many times but not for ever |
| `LwipReceive`, `LwipSend` | weak: timers, reads of the application, retransmission of the console; strong: arrival of a segment or acknowledgement | TCP's own assumption that not everything is lost |
| `UdpProxy` | weak: `Gc`, `Tick` | a repeating timer of 10 s, and time passes; neither the console nor a server is assumed to do anything |

## 6. Proofs

Each module below proves its theorems for every value of the constants under the
assumptions named in the specification it extends. The pattern is always the
same: an inductive invariant `IInv` (`DhcpInv` for the DHCP server), one lemma per
action that the action keeps it, and theorems that follow from it.

`Services_proofs` is about the two services that keep addresses in an array and let
the clock expire them. About `ArpCache`, for every table size, lifetime, address and
MAC set:
`TypeCorrect`, `OrderCorrect` (`NewestFirst`) and `CacheImplementsMap`
(`Spec => ImplementsMap`). `NewestFirst` alone is not inductive: a call that
refreshes a slot must be known to be at least as late as every other slot, so it
is strengthened by a bound on expiry times (`expire_at <= now + ARP_TTL`). The step
lemma for `Hear` compares the lookup before and after for the written address and
for every other one; the order of duplicates is what keeps a reused slot from
uncovering an old item. The assumptions are `ArpAssumption` and
`MaxTimeAssumption` (of `Clock`): positive size and lifetime, and a zero MAC that
no frame carries. `SendImplementsMap` carries the refinement over to `NeighborSend`, the
module of the run: a send is no step of the table, or the second that begins
between its two lookups.

About `DhcpServer`, for every number of slots, set of clients, address range and
positive lease and offer time: `DhcpTypeCorrect`, `LeasesAreUnique`, `GrantsAreBacked`,
`GrantsAreExclusive`, `HostAddressesOnly`, `RenewalsAreHonoured`. `ExclusiveGrant`
speaks of the clients' view and follows only through the array: every live grant
is backed by a slot of that client with at least that expiry (`Backed`), and two
live slots never share an address or a client (`Sound`). `Backed` in turn needs
`Bounded`: a grant ends at most one lease time from now, so that a renewed slot
never ends before an older grant. The handlers read the clock several times:
`AfterSweep` carries these facts from the sweep to a later second, `LaterFree` from
the choice of an address to its claim. `DhcpAssumption` does not restrict what
clients ask for.

`Relay_proofs`, for any addresses, frames, ports and subnets: `StateIsSound`,
`PathIsPinned`, `ConsoleIsPinned`, and `OverlayIsSound` for a
game subnet inside the adapter's, which is the condition without which the first
observation above applies. `IInv` is the soundness of the relay's state (`Good`)
together with what the last callback transmitted (`Sent`). The lemmas follow the
code: one for each C function that transmits (`SendZeroTier`, `ProcessArp`,
`ProcessIpv4`, ...), one for each field a handler may change, then `WifiHandler` and
`ZeroTierHandler` for the two capture callbacks. The last part of the module is
about `SwitchDiscovery`, for every pause and every host number of the relay:
`CountersInRange` (`DiscoveryTypeOK`), `SweepsAreComplete`, `SweepsStayInRange`,
`QuietAfterwards`. `DiscoveryInv` says what was probed at any moment (`Before`: the
current phase up to the current host and the whole phase before it), which
`SweepComplete` alone, a statement about the end of a sweep, does not. Assumption:
`DiscoveryAssumption`.

`Lifecycle_proofs`, for every set of platforms and any number of sessions:
`TypeCorrect`, `LockExclusive`, `SupervisorLast`, `NoneStray`, `SessionsApart`,
`ReadyFirst`, `QuitIsSafe`, `StopSticks`. `IInv` adds to the types what the window's
state says of its current session (`Gui`), who may hold the lock (`Exclusive`) and,
for each session, that its processes exist only between its start and its end
(`Order`), how far the helper tells how far supervisor and relay are (`Chain`) and
what the connection and the readiness line prove (`Wire`). `NoStrayRelay` follows
from `Chain`, `Wire` and `Order` together: a live relay has a supervisor that runs, such a
supervisor has a connection, and outside the current session it is dropped.

`ForwardServer_proofs`, for any clients, addresses and lifetimes: `TypeCorrect`,
`LoginsAreProved`, `LoginsStay`, `RoutesAreListed`, `OwnersAreReached`. `IInv` has
`Made` (a client that is listed has an object), `Logins` (a login under way was
asked for by a client with a password, whose peer object is its newest and listed
for at least the rest, unless a send failed) and `Routes` (a route's peer is the
last sender, and it is listed for at least the route's time less one unit, which is
what may pass between the two readings of the clock). `ServerAssumption` has the login's timeout at most
the peer's, which holds of the code's constants and is needed for `Logins`.

`UdpProxy_proofs`, for any endpoints, lifetime and number of sessions and both
proxies: `SessionsAreSound` and `ProxyImplementsNat` (`Spec => ImplementsNat`). `IInv`
adds to `SessionsSound` that all a session was given came from its endpoint and
that what is left of its lifetime and the endpoint's silence together make at
least the lifetime (`Owned`): the first gives `RepliesRouted` when a reply comes,
the second gives the abstract guard, that a binding ends only after more than the
lifetime of silence, when `Gc` or `getUdp` ends a session. `Ordered` restates
`InOrder` element by element, in which form `Append` keeps it. Assumption:
`UdpAssumption`.

`TcpBridge_proofs`, for every window, send buffer, amount of data and set of
connection kinds: `Streams` (`StreamsIntact`), `Requests` (`RequestsSound`), `OnlyFault`
(`FaultsKnown`), `Frees` (`FreeOrder`) and `EndsAfterData` (`EndAfterData`).
None of these is inductive. `IInv` has four parts. `Control` relates pcb, handles
and the flags of the several closes (`Life`), the proxy's socket and who is read
(`Proxy`), the count of the base's closes (`Base`) and where a fault leaves the
connection (`Faultless`): a close arrives in up to four steps and from both
sides, and each handler relies on what the earlier ones left. `Upstream` says that
what the remote host has, the write in flight, `recv_buf` and the window continue
one another. `Unacked` ties the bytes lwIP holds to the pending count of the first
request. `Downstream` does for the other direction what `Upstream` does for this one,
with the first request partly written (`Behind`), or with nothing on its way when
the socket is read (`CaughtUp`), from which `EndAfterData` follows. Streams are
compared byte by byte (`From`: element `i` is byte `n + i`), in which form
concatenation and `SubSeq` keep it. The lemmas follow the C functions: each close function is
shown to be one `Shut` of the record, so that one lemma (`CloseStep`) serves every
handler that ends in a close; `SentEffect`, `RecvEffect` and `WriteEffect` are the
callbacks that move bytes. Assumption: `BridgeAssumption`. `IInv` was also checked
with TLC on the instance of the run.

`LwipReceive_proofs`, with its lemmas about segments, queues and the window in
`LwipQueue_proofs`, for every stream, window and segment size, every width of the
sequence numbers and every first one: `StreamInOrder` (`InStreamOrder`),
`QueueIsSound` (`ReceiverSound`), `WindowFree` (`WindowIsFree`) and `EdgeNotTakenBack`
(`EdgeKept`). The assumption that carries the proof is in `ReceiveAssumption`: stream
and window take up at most half of the sequence space, so that no segment is old
enough to be taken for a new one. Under it sequence numbers are translated once
and for all into positions of the stream: `SeqNo` and `Place` undo each other
(`PlaceOfSeqNo`, `SeqNoOfPlace`), `Plus` and `Minus` add and subtract positions, and
`Geq` and `Gt` compare them (`Compare`); after that no remainder is left in the
argument. `IInv` says that the bytes handed over are the stream up to the next
position, that the queue holds non-empty pieces of the stream in order and without
overlaps between the next position and the right edge of the window (`Queue`), that
window and unread bytes make up the buffer, and that the announced edge is at least
all that any acknowledgement under way allows and at most the right edge
(`Announced`). None of the four properties is inductive by itself: that the right
bytes are handed over needs the queue, that the queue fits needs the window, and
that an acknowledgement does not shrink the window needs the edge that was
announced before. The lemmas follow `tcp_receive`: what each of its walks over the
queue stops at (`CoveredIs`, `EarlierIs`, `AdjacentIs`), then `OosInsertIs`,
`BeforeIs`, `OutOfOrderIs`, `TrimFrontIs`, `MergeIs`, `ChainIs`, `InOrderIs`,
`ReceiveIs`, then the acknowledgement (`OutputIs`) and one lemma per action. The few
inductions (a walk stops somewhere, pieces that follow one another join to one
piece) are over a set of numbers, from the well-foundedness of `<`. `IInv` was also
checked with TLC on the instance of the run.

Some theorems are about definitions that no run checks any more, because the
proof covers them for every instance: the types of `ArpCache`, `DhcpServer`,
`SwitchDiscovery`, `Lifecycle` and `ForwardServer`; `NewestFirst`, `ProbesInRange`,
`QuietOnceFound`, `GrantBacked`, `ServesHostAddresses`, `RelayReaped`, `OneSession`,
`RunningWasReady`, `LoginStaysListed`.

Model-checked only: all liveness, since fairness is out of the prover's reach;
`LwipSend`, whose `QueuesSound` adds up the segments of both queues with a fold and
sorts them with `SortSeq`: what these compute is defined by recursion or choice over
the whole queue, and each fact about them is an induction over the queue, of which
`NeverSilent` and `WithinWindow` need the same ones; and `Overlay`, where
`NoReflection` is not true of every instance (section 4).

## 7. Not modelled

- *Captures and diagnostics* count and print; they have no effect on forwarding.
- *The pcap loop* hands frames to the callbacks one at a time, which is what the
  models assume. A read error stops polling for good; the POSIX handler drains
  without bound where Windows takes batches of 128.
- *Legacy client* (`lan-client.c`): `lan_client_init` is never called in this
  program, so its states are not reached.
- *RPC server*: mostly parsing, and the repository makes no promise about it; what
  was noticed is in section 4.
- *Desktop views and the macOS application*, *the Windows firewall rule*: user
  interface and calls of the operating system.
- *Most of lwIP*: the build compiles a part of the vendored tree; of that part the
  data transfer of an established connection is modelled, not the handshake,
  options, IP, ICMP or memory pools. Most lines of `src/lwip` are outside for that
  reason.
- *UDP sessions at shutdown*: nothing waits for them and nothing is promised.
- *A wall clock that steps back*: the clocks of the models only move forward.
- *Allocation failures*, except where `TcpBridge` and `LwipSend` name them.

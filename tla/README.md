# A TLA+ verification of lneto

lneto is a network stack that runs in user space: Ethernet, ARP, IPv4/IPv6, ICMP,
UDP, TCP, DHCP, DNS, NTP and HTTP without an operating system underneath.  This
directory models its stateful parts in TLA+, model-checks them with TLC and proves
the central properties with TLAPS.  Paths below are relative to `src/`.

Contents: [1 the system](#1-the-system-and-where-it-is-hard),
[2 modules and code](#2-modules-and-the-code-they-model), [3 runs](#3-what-tlc-checks),
[4 fairness](#4-fairness), [5 proofs](#5-what-tlaps-proves),
[6 findings](#6-findings-and-known-divergences), [7 limits](#7-what-is-not-modelled),
[8 open hazards](#8-hazards-without-a-property).

## 1. The system and where it is hard

Every protocol is a *node* with three entry points: `Encapsulate` (write the next
frame, if any, into the carrier's buffer), `Demux` (take a frame that arrived) and
`ConnectionID` (a counter whose change tells the table above that the node is gone).
Nothing in a node runs by itself.  Link, IP and port stacks (`internet`) hold tables
of nodes: a frame that arrives goes to the node its type or port names, and egress
asks the nodes in turn until one has something to send.  `x/xnet` assembles a stack
and puts blocking, retrying and socket front ends over it; `x/netdev` drives it from a
network device; `http` serves requests over connections.  Applications call the nodes
from goroutines of their own.

So the hard behaviour is in three places: in the protocol state machines, which meet
any message in any state; in the tables and buffers, which are fixed in size and
reused; and where two goroutines, or a timer and a late answer, meet.

| Part | State | What is hard |
|---|---|---|
| TCP control block, `tcp/control*.go`, `valuesize.go` | connection state, send and receive spaces, pending flags, counters of duplicate and challenge ACKs | numbers modulo 2^32; any segment in any state; flags queued in one call and sent in another |
| Byte ring, `internal/ring.go` | buffer, Off, End | full and empty share Off; bytes staged beyond the write position |
| Transmit queue, `tcp/txqueue.go` | one ring for sent and unsent bytes, list of packets | four offsets in which 0 means empty; the list is rewound apart from the sequence space |
| Reassembly, `tcp/reassembly.go`; timer, `tcp/rto` | staged segments; estimates, deadline, backoff | overlaps, gaps, a full list; partial acknowledgements, when to stop |
| Handler, `tcp/handler.go` | all of the above joined, closing and shutdown flags | order of the joined updates; windows; FIN behind data; the reset at the end |
| Connection, `tcp/conn.go`; UDP sockets, `udp`; descriptors, `x/xnet/stack-berkeley.go` | a handler under a mutex, deadlines, write lock; queues of lengths over rings; lists of descriptors | locks released between pieces; sockets closed, aborted and reused while a call waits |
| Listener, pool, resets, `tcp/listener.go`, `x/xnet/tcppool.go`, `tcp/rst.go` | incoming and accepted lists, acquisition times, reset queue | connections shared with the application and recycled; timeouts; clients that come back |
| SYN cookies, `tcp/syncookie.go` | secret, counter | expiry by 5 bits of a counter that wraps |
| Frame runner, `x/netdev` | pool of frame buffers, arrival numbers, wake channel | two goroutines without a lock; scans that are no snapshots; wakeups |
| Node tables, `internet` | node lists, round-robin index, connection ids | nodes that end and are registered again; a full table |
| ARP, NDP, subnet table, `arp`, `ipv6/icmpv6`, `x/xnet` | caches with ages and flags; waiting connections | eviction, changed addresses, several waiting for one answer |
| Link-local addresses, `ipv4/linklocal4` | state, candidate, conflicts, defence time | two hosts probing at once |
| DHCPv4, `dhcp/dhcpv4`; DHCPv6, `dhcp/dhcpv6` | client state; server's hosts, address counter, answers owed | lost and repeated messages, two servers, exchanges that start over |
| DNS, mDNS, NTP, NTS, ping, `dns`, `ntp`, `x/nts`, `ipv4/icmpv4` | a query in progress, cookies, keys, echo tables | late, repeated and damaged answers; clients shared by callers |
| Front ends, `x/xnet/stack-blocking.go`, `stack-retrying.go` | tries, deadlines | a timeout racing a late answer; what the last try left behind |
| HTTP, `http/httphi`, `http/httpraw` | header buffer, exchange, router, free list, workers | input cut anywhere; one buffer for request and response; a router that is set up again while it serves |

What correctness means: the byte streams arrive whole, in order and once; nothing
acknowledged is lost and nothing unacknowledged forgotten; windows and buffers are
never exceeded; what is owed is eventually sent; connections end and their slots come
back; no sequence of legal calls reaches a panic or an error the code calls a bug; an
address has one owner; an answer is the answer to the question asked.  `PROJECT.json`
lists every part under "components" and the places where these are most likely to fail
under "hazards".

## 2. Modules and the code they model

A component's data structure and methods are operators on a record, named as in the
code, in a module without variables; another module gives it variables and the steps of
its callers.  So `ControlBlock`, `Ring` and `TxQueue` are checked alone, and the same
text is part of the compositions.

```
SeqSpace ─ ControlBlock ─ ControlBlockSpec ─ MCControlBlock, ControlBlock_proofs
   │            │
Ring ─ RingSpec (=> ByteQueue) ─ Ring_proofs
   │    └── TxQueue ─ TxQueueSpec ─ TxQueueBytes_proofs ─ TxQueue_proofs
   │            │
   └──────── Handler ─ TCPPair ─ MCTCPPair
                ├──── Server ─ MCServer
                └──── UDP ─ Sockets ─ MCSockets
Runner (=> FrameFifo) ─ MCRunner, Runner_proofs
Prefix, DHCPv4Nodes ─ DHCPv4 ─ MCDHCPv4, DHCPv4_proofs
Neighbours ─ Link ─ MCLink, Link_proofs
NodeTable, DNS, NTP, Echo, DHCPv6Client ─ Queries ─ MCQueries
HTTPRaw ─ Exchange ─ HTTP ─ MCHTTP
SynCookie
```

| Module | Code | Correspondence |
|---|---|---|
| `SeqSpace` | `tcp/valuesize.go` | `Add`, `Sizeof`, `LessThan`, `InRange`, `InWindow` over numbers modulo `SeqMod`, 2^32 in the code |
| `ControlBlock`, `ControlBlockSpec` | `tcp/control.go`, `control_rcvhandlers.go` | the record is `ControlBlock`; one operator per method and receive handler; a call returns the new record and an error class.  In the Spec, `Receive` takes any segment near the two sequence spaces, `Transmit` is PendingSegment followed by Send |
| `Ring`, `RingSpec`, `ByteQueue` | `internal/ring.go` | offsets as in the code; `ByteQueue` is what a bounded queue with bytes staged ahead promises |
| `TxQueue`, `TxQueueSpec` | `tcp/txqueue.go` | the four offsets and the packet list; the caller's steps are those of `Handler` |
| `Handler` | `tcp/handler.go`, `reassembly.go`, `rto/timer.go` | joins control block, transmit queue, receive ring, the list of segments staged in it, and the timer, whose hooks take the clock's reading; a frame carries sequence numbers, flags, wire window, scale option and payload |
| `TCPPair` | `tcp/conn.go`, `internet/definitions.go`, `x/xnet/stack-retrying.go` | two handlers registered with their stacks, two applications, a network; `Poll` and `Deliver` are the stack's Encapsulate and Demux, with the detaching of a node that answers `net.ErrClosed` |
| `Server` | `x/xnet/tcppool.go`, `tcp/listener.go`, `tcp/rst.go`, `internet/stack-ports.go` | connections with full handlers, lent by the pool; the lists of the listener; clients, an application, the goroutine that checks timeouts, and a network |
| `UDP`, `Sockets` | `udp`, `tcp/conn.go`, `x/xnet/stack-berkeley.go` | one operator per critical section or atomic operation, those of `tcp.Conn` in `Sockets`, which runs programs of up to three callers from one section to the next |
| `Runner`, `FrameFifo` | `x/netdev/runner.go`, `buffer.go` | one action per atomic operation of the handler (claim, mark, number, copy, publish, wake) and of the loop (each slot of each scan is a step); `FrameFifo` is a bounded queue that drops when full |
| `Prefix`, `DHCPv4Nodes`, `DHCPv4` | `dhcp/dhcpv4`, `ipv4/prefix .go`, `x/xnet` | the client's states, the server's table; stacks with their retry loop, foreign clients and restarts of a server |
| `Neighbours`, `Link` | `arp`, `ipv6/icmpv6`, `x/xnet/subnet-table.go`, `stack6.go`, `ipv4/linklocal4` | the caches of ARP and NDP, connections that wait for a hardware address, learnt peers; the hosts of one link, which may claim an address |
| `NodeTable`, `DNS`, `NTP`, `Echo`, `DHCPv6Client`, `Queries` | `internet/definitions.go`, `dns`, `dns/mdns`, `ntp`, `x/nts`, `ipv4/icmpv4`, `dhcp/dhcpv6`, `x/xnet` | each client and server is a record; `Queries` has the stacks, the callers of the blocking and retrying API, the servers and the network |
| `HTTPRaw`, `Exchange`, `HTTP` | `http/httpraw`, `http/httphi` | headers parsed in place over one buffer, forms, cookies and parts; patterns and an exchange on a connection; the router with its goroutines |
| `SynCookie` | `tcp/syncookie.go` | operators and theorems; the hash is a parameter |

Where two types of the code have a method of the same name, one of them has a prefix:
`muxDemux` is `PacketConn`'s, `ntpDemux` that of `ntp.Client`, `llDemux` that of
`linklocal4.Handler`.  `..._proofs` modules hold proofs only.  `MC...` modules hold the instances that TLC checks.  Operators whose name ends in
`Mutant` are the damaged versions that `PROJECT.json` uses to see that each property can
fail.

Abstractions.  Bytes are numbers: in the pair the n-th byte written is n, so order,
loss and duplication show; in HTTP a byte is its code and a word that no parser looks
into is one symbol.  Addresses, names and keys are model values.  Messages are records
of the fields that matter; checksums, most options and logging are left out.  Errors are
classes: `nil`, refused, closed, end of file, `bug`, `panic`.  A seal of NTS is a record
of its key and contents, which nobody without the key can make.  Calls that hold a mutex
throughout are one step; calls that give it up are one step per section.

## 3. What TLC checks

| Run | Properties | Shows |
|---|---|---|
| `open_close` | `SendSpaceBounded`, `PendingIsSendable`, `SequencesKept` | a control block opened either way and closed, against a network that invents segments at the edges of both windows |
| `ring` | `QueueSpec` | the ring implements `ByteQueue` in every layout |
| `tx_queue` | `StreamIntact`, `PacketsCarryTheirBytes` | what is sent under a number is what was written there, after any acknowledgement, retransmission and rewind; no state the code calls a bug is met |
| `runner` | `SlotHasOneOwner`, `FifoSpec`, `FrameReachesStack` | the lock-free pool is a FIFO queue of whole frames and loses no wakeup |
| `pair` | `ReceivedIsPrefix`, `KeptUntilReceived`, `WindowKept`, `FailsOnlyInTimeWait`, `AllArrives` | streams arrive whole, and connections end, over a bad network |
| `server` | `PoolIsExact`, `SettledTogether`, `EveryDialEnds` | lent connections are where the listener has them and come back; clients that dial again are connected to the right end; what a late `Close` through an old pointer can do to the next client, and no more |
| `sockets` | `DatagramsAreWhole`, `FdsAreExact`, `StreamsAreWhole`, `CallsEnd` | three callers in UDP, packet and TCP sockets and descriptors at once |
| `dhcp` | `PendingIsExact`, `OneOwner`, `AddressIsKept`, `EveryStackComesUp` | leases over a network that loses, repeats and delays |
| `link` | `KnownIsOwner`, `OneClaimant`, `DutyKept`, `Connects` | neighbours are resolved, learnt and evicted, and link-local addresses claimed |
| `queries` | `AnswersAreTrue`, `RepliesAreExact`, `CookieSentOnce`, `LossesAreRetried`, `EveryCallEnds` | callers look up, read clocks, ping, discover and lease while answers are lost, late, repeated or damaged and the stack is configured again |
| `http` | `ResponseIsWhole`, `RequestIsExact`, `BodyInOrder`, `RoutedRightly`, `EveryConnectionHasItsExchange`, `EveryConnectionEnds` | requests cut anywhere are read, routed and answered while the router is set up again and shut down |
| `time_wait` | `NoFailure` (violated) | a segment in TIME-WAIT panics; see section 6 |

Some of these join what is said of several protocols, each a definition of its own:
`AnswersAreTrue` is `LookupIsRight`, `OffsetIsBounded`, `PingTruth` and `BoundIsLeased`;
`RepliesAreExact` is `EchoIsExact`, `ServiceHasAddress` and `AnswerIsOfOneRequest`;
`DatagramsAreWhole` is `ReadsAreWhole` and `WritesGoOut`; `StreamsAreWhole` is
`WritesUnmixed`, `CloseWaits` and `EOFIsLast`; `RequestIsExact` is `ServedAsSent`,
`FormIsExact` and `PartsAreExact`; `RoutedRightly` is `NarrowestWins` and
`ValuesAreTheWinners`.

The compositions have *scenarios* instead of one large instance: a record with the
buffers, programs and fault budgets of one question, and `Init` chooses one of the set
given in the MC module.  Every fault (loss, duplication, early timeout, restart, reset of
the stack, failing random source) has a budget in the scenario.

Bounds, and why they are enough:

* *Control block.*  `SeqMod` is 8 with an initial number next to the top, so both
  counters wrap within `MaxProgress` numbers.  The code compares numbers only by
  differences; the window (1) is below half the space, as the largest scaled window,
  2^30, is below 2^31.  Segments lie at and beside the edges of both windows.  `Int8` and
  `Uint8Max` are small so that the 8-bit counters reach their ends.  `Bounded` stops a
  connection that has made its progress; every state of the protocol is reached before.
  The proofs remove all of these bounds.
* *Ring.*  Three bytes of two values: every position of Off and End, full, empty,
  wrapped and ending at the last index occur.  Proved for every size.
* *Transmit queue.*  A buffer that wraps several times, a packet list that fills, a
  sequence space that wraps.
* *Runner.*  Three slots, three frames, arrival numbers modulo 8 that start at 6 and
  wrap.  Three is the least number with a slot before, at and behind the scan.  Both
  kinds of device: polled without a timer, callbacks with a timer.
* *Pair.*  Nine scenarios: loss and an early timeout, duplication, reordering, a closing
  window, scaling, a lost SYN, both ways, closing by both, closing with unsent data, a
  reader that stops.  `MaxFrames` is two frames on their way to each side: enough for one
  to overtake the other.
* *Server.*  Seven scenarios with one or two clients, which share a port, and a pool of one
  or two connections: served, exhausted, dialled again from the same port, lossy, timed
  with a client that vanishes, the listener closed.  Ages of connections stop where they exceed
  every timeout.  `CheckTimeouts` is two steps for each connection it does something about,
  `PoolRead` and `PoolCheck`: it holds the pool's lock, but not the connection's between the
  two, so connections are opened, established and ended in between.  `AppClose` closes through
  whatever pointer the application still has, also one whose connection was returned and
  lent again.
* *Sockets.*  Thirteen scenarios with programs of one to five calls, rings of 8 bytes and queues of 2, so
  that ring and queue each fill while the other has room.  In one, two callers connect and
  close the same descriptor; in another, a reader goes on after its side has closed.
* *DHCP.*  One or two stacks, subnets of 4 and 8 addresses so that the counter comes
  round, one or two servers, a foreign client that also chooses addresses and claims some
  that nobody holds, a restart; each scenario has one or two kinds of fault.
* *Link.*  Two hosts, caches of two or three entries, one or two slots for waiting
  connections, so that eviction and exhaustion occur; two candidates for two claimants.
* *Queries.*  Ten scenarios, each with two to four callers or hosts and one or two faults.
  The node table has fewer places than there are nodes registered over time.  `KeyMod` makes pings collide.
  The clock of the server is behind by an odd number of half units, so that the rounding
  of the offset shows.
* *HTTP.*  One request per parsing scenario, cut once, twice or in every byte; header
  buffers near the size of the request, response buffers near the size of the answer; all
  paths of up to three segments for the patterns, literal ones among and behind those with
  wildcards; three connections and two workers for the router, which is also refused a setup
  of another size.  A write through a handle kept from an earlier request is three steps
  (generation, acquired, write), and the exchange may be released or acquired again between
  any two.

`CHECK_DEADLOCK FALSE` stands where the system may stop: a closed control block, a
runner that nobody calls, networks that have said everything.

## 4. Fairness

* *Runner.*  `WF(Handler)` and `WF(Loop)`: the Go scheduler runs both goroutines.  No
  fairness on the device calling the handler, on `cancel`, or on a second `Run`.
  `FrameReachesStack` therefore says that the signal alone wakes the loop.
* *Pair, server, queries.*  "Nothing stops with work left": either the system becomes
  quiet for good, which the module defines as no frame to send or deliver, no call with an
  answer to see or a deadline that passed, no timer expired, or it takes steps for ever.
  In the pair each application is in addition fair for itself, as it takes boundedly many
  steps.  Losses and early expiries are bounded in number and never required.  A timer
  expires freely only when the network is empty and the peer has nothing to send, as a
  timeout longer than the round trip does; an earlier expiry is one of the scenario's
  faults.  The repository's stacks provide this: their loops poll every node, and
  `rto.Timer` is read at every poll.
* *DHCP, link.*  `WF(Progress)`, where `Progress` has the polls, deliveries, calls and the
  clock, and none of the faults.
* *Sockets.*  Each caller that can go on does, as goroutines do; the driver polls the stack until it is
  idle, and the clock passes every deadline.  `Accept` waits without a deadline and is
  exempt.
* *HTTP.*  Every goroutine that can run stops or waits again and again, and `Configure`
  does not wait for ever, as it has a timeout in the code (`reconfigureWait`).

## 5. What TLAPS proves

| Module | Theorem | Property | Says, for every value of the constants |
|---|---|---|---|
| `ControlBlock_proofs` | `TypeCorrect` | | all fields keep their widths; the duplicate-ACK counter does not wrap |
| | `FlightFits` | `SendSpaceBounded` | what is in flight fits the largest window and a FIN |
| | `ControlNeverStuck` | `PendingIsSendable` | every control segment `PendingSegment` offers is one `Send` accepts |
| | `SequencesAreKept` | `SequencesKept` | snd.UNA moves forward over sent numbers only, and a refused call moves neither sequence space |
| `Ring_proofs` | `RingIsQueue` | `QueueSpec` | the ring implements a bounded byte queue with staged bytes: any size, any alphabet |
| | `RingFreeIsExact`, `RingPeeksExactly`, `RingRespectsLimit` | | Free, ReadAt and FreeLimited are exact in every layout |
| `Runner_proofs` | `SlotsHaveOneOwner` | `SlotHasOneOwner` | handler and loop never share a slot: any number of slots and frames |
| | `ReleaseNeverRaces`, `RunnerTypeCorrect` | | the panic of `release` is unreachable; every variable keeps its type |
| `TxQueue_proofs` | `TxStreamIntact` | `StreamIntact` | the queue holds exactly the stream from snd.UNA on, and `Write` takes what `Free` promises: any size of buffer, packets and sequence space |
| | `TxPacketsCarryTheirBytes` | `PacketsCarryTheirBytes` | a packet, a retransmission included, carries the bytes of its number; `AddPacket` does not panic |
| `Link_proofs` | `KnownPairsAreOwned` | `KnownIsOwner` | every hardware address kept for an address is that of a host that had it: any hosts, caches and tables, over ARP and NDP |
| | `DutiesAreKept` | `DutyKept` | an answer or query that is owed gives way only when no entry is free or passive |
| `DHCPv4_proofs` | `ServerPendingIsExact` | `PendingIsExact` | the count covers every owed answer, and exceeds them by at most the entries written over: any servers, stacks, faults and restarts |
| | `HostsKeepAddresses` | `AddressIsKept` | only a restart changes the address of a host known by a key of its own |
| | `AddressesHaveOneOwner` | `OneOwner` | no host has the server's address; until the counter comes round two hosts share only an address one of them chose; a stack whose entry nobody released is bound to what its one server acknowledged |
| `SynCookie` | `CookieAccepted` | | a cookie is good for `MaxCounterDelta` increments, over every wrap |
| | `CookieExpires` | | after that, up to a whole turn of the counter, it is accepted exactly when its five counter bits have come round to a counter that is tried and the hash over that counter agrees in all 27 bits; never in the first 31 increments |
| | `CookieAfterReset` | | `Reset` keeps the counter, and the cookies of before are judged by the new secret, or by what a failed read left of the two |

*Control block.*  The theorems hold under the named assumptions of `SeqSpace`,
`ControlBlock` and `ControlBlockSpec`, and each assumes `NoHalfwayAck`: no segment
acknowledges the number exactly half the space after snd.UNA.  Without it the first
comparison of an ACK is wrong in both directions (section 6).  None of the four is
inductive.  `SendSpaceBounded` needs to know how much each state may have in flight: one
number for the SYN while opening, the window while a FIN is unsent, the window and the
FIN afterwards (`FlightInv`).  That in turn needs that snd.UNA has not moved before the
connection is established (`OpeningInv`), in which states a SYN or FIN can be queued
(`PendingInv`), that a closed block owes nothing (`ClosedInv`), and, for the width of the
duplicate-ACK counter, that retransmissions stop being counted in time (`CounterInv`).
`Inv` is `TypeOK` and these five.  The proof has four parts, by the call that changes the
block: arithmetic modulo `SeqMod`, each receive handler and `Recv`; what `PendingSegment`
may offer, `Send`, the opens, `Close` and `RetransmitFrom`; `PendingSegment` followed by
`Send`; and one step per action of `Next`, with the theorems.

*Ring.*  `Inv` is `Layout`, the range of Off and End with Off inside the buffer when the
ring is empty, and `Staged`, that every byte staged at a distance from the write position
lies in the free cell at that distance.  The second is what makes the refinement
inductive: a read moves the free room and not the write position, a write overwrites the
first staged cells, a commit turns them into contents.  `cell` looks at the buffer from
the write position, so that each operation is one shift; `wrap` keeps the modulus out of
the solvers' sight.  The refinement maps the queue to the contents of the ring, and each
operation to one step of `ByteQueue`.

*Runner.*  `Inv` adds to the two properties where the handler and the loop are when a slot is
marked: a handler between claim and publish has a claimed slot, a loop that remembers the
oldest frame or transmits has a slot that stays taken, and a stopped loop leaves an idle
handler.  TLC agrees with `Inv` on three slots.

*Transmit queue.*  The two properties speak of rings, and the queue keeps four offsets and a
list of packets apart from them.  The inductive invariant is `Holds`: there are numbers
u <= n <= w of the stream (acknowledged, sent, written), an offset o of the buffer for u,
and a function f from the packets to the numbers they begin at, such that the cell at
o + d modulo the size holds byte u + d, the four offsets are those of u, n and w (0 where
a part is empty), and packet i has the bytes from f[i] to f[i+1].  `TxQueueBytes_proofs`
shows what each operator of the queue does to `Holds`: a write, a new packet, an
acknowledgement that ends inside a packet or at its end, and a rewind.
`TxQueue_proofs` has the operators that search the list, whose first packet with a property
is found by a least-number argument, and one step per action.
The assumptions are those of `TxQueueSpec`: the buffer holds two bytes or more and is
below half the sequence space.

*Link.*  `KnownIsOwner` is not inductive, as what a host knows comes out of frames, slots and
callbacks.  `KnownInv` adds that every frame on its way names a pair that was owned when it
was sent (an NDP advertisement names its target, too), that a slot that waits for an
address has the buffer of a connection to that address, that a host's own pair is owned,
and that a query not sent yet is not complete.  The last is needed because `Encapsulate`
clears the flag of a query and nothing else of its entry.  The lemmas come in two layers: what
each operation of the cache and of the tables does, for any cache (`CacheStep`), and one lemma
per action.  `DutyKept` follows from the same lemmas: only `acquireNext` puts an entry
in the place of another, and the place it takes is free or passive while there is one.
Assumed of a scenario: its sizes are numbers, and link-local claims are made over IPv4
only.  Writing the proof showed that the model's record of owned pairs missed the pair of a
host whose hardware address changed between a claim and the moment the stack was told of it.

*DHCP.*  `Inv` says of every server that its table is finite, its entries have
their fields, and the count lies between the number of hosts owed an answer and that number
plus `hist.over`, the messages that were filed over an entry they did not find.  One
lemma per operation shows what it adds to and removes from the set of hosts owed an answer; a
cancelled answer is counted off before the new one is counted.  `OneOwner` needs three more
invariants.  `AddressInv`: each address in the table was chosen by a host or was the counter's
at one of its moves, and while the counter has not come round different moves gave different
addresses.  `RoutesInv`:
an entry answers to the hardware address of the stack whose identifier is its key, and a message
to a server carries both of one stack, or is the foreign client's.  `BoundInv`: what a
stack was offered, what is on its way to it and what its entry holds are one address while
nobody released the entry and its one server has not restarted.  `ScenarioAssumption` asks for four addresses or more in a subnet, and the
server's own in it, which `Server.Configure` checks.

*SYN cookies.*  Plain arithmetic modulo 2^32 = 32 * `hashMod`, with `hashMod` a parameter and
the hash any function of secret, connection and counter.  The lemma `AcceptedIff` says which
cookies of one jar another one takes; the three theorems apply it to a jar that has counted on
and to one that was reset.

Only model-checked: all liveness properties and fairness; the refinement `FifoSpec`
(its mapping sorts a set); `OneClaimant`, which depends on how many ticks of the clock the
probes of two hosts take against each other; and the compositions `pair`, `server`, `sockets`,
`queries` and `http`.  The first three of these are joined from `Handler`, whose
invariant would have to carry those of the control block, the transmit queue and the
reassembly list through every frame of a network at once; the parts are proved, their
composition is not.  `queries` and `http` reach RECURSIVE operators (decoding of names
and headers), which TLAPS does not take, and it has no induction over data.

## 6. Findings and known divergences

`time_wait` is a run that fails, and shows one finding.  `Recv` has no case for TIME-WAIT:
a segment that is acceptable there panics with "unexpected recv state:"
(`tcp/control.go:405`), which says that none is received in that state.  `Handler.Recv`
keeps segments away only once the last ACK is sent (`handler.go:722-726`); until then an
ACK that the peer sent around its FIN gets through.  `FailsOnlyInTimeWait` of the `pair`
run shows that this is the only failure of the composition.

The rest of this section lists what was met while modelling: the models do the same as
the code, and the properties above are stated so as to hold with it.  Each entry is a
limit of what the runs show.

*TCP.*
* The challenge-ACK counter is an int8 that is negated; -128 negates to itself
  (`control.go:769`).
* An ACK exactly 2^31 after snd.UNA is both before and after it and is accepted
  (`control.go:434`); hence the assumption `NoHalfwayAck`.
* There is no window probe: when the update that reopens a zero window is lost, both
  sides wait for ever (`handler.go:586`).  The pair's zero-window scenario loses nothing.
* A lost FIN or SYN-ACK is not repeated: the timer covers data only
  (`rto/timer.go:221`, `control_rcvhandlers.go:52`).  A client that repeats its SYN, or
  the timeout of the pool, ends such a connection.  The pair loses SYNs, data and ACKs, not these.
* Two sides that each find the other's segments unacceptable exchange challenge ACKs until
  the rejection limit aborts one (`control.go:19`).
* Sending the last ACK resets a handler in TIME-WAIT, with what the application has not
  read (`handler.go:512`).  `Send` closes a connection in CLOSE-WAIT by itself
  (`handler.go:417`).  A full packet list enters LAST-ACK without sending the FIN
  (`txqueue.go:120`).
* `Conn.Write` and `Close` that waited may go on in the connection that was opened meanwhile
  (`conn.go:292`); `Close` has no deadline.
* A half-closed reader may be told `net.ErrClosed` before the last byte, as the reset above
  takes the bytes it has not read; `conn.go:343` promises `io.EOF` "when the remote has closed
  the connection and all buffered data has been read".
  `EOFIsLast` allows it only after this side has closed and the peer has ended.
* A second `Close` after the FIN was sent makes the next `Send` abort the connection, in
  TIME-WAIT before its last ACK (`handler.go:427-437`): the peer waits in LAST-ACK.
* With a counter delta of 2^32 - 1 the loop that validates a SYN cookie does not end.
  `SYNCookieJar.Reset` says it keeps the counter "to maintain cookie validity during secret
  rotation" (`syncookie.go:52`), but the cookies of before do not survive the new secret
  (`CookieAfterReset`); and a read that fails leaves the secret half overwritten.

*Listener and pool.*  An incoming connection that is past ESTABLISHED before `TryAccept`
is aborted silently (`listener.go:276-280`); a client that vanishes in SYN-RCVD blocks its
next SYN until the timeout; a SYN that anything drops is answered with a reset
(`stack-ports.go:71`); closing a listener leaks what the pool lent it; a check of timeouts
between `GetTCP` and `OpenListen` starts the closing time early; an application that
closes through the pointer of a connection that went back to the pool closes the next
client's.  A client it hits in the handshake gets a FIN for its SYN, and one whose connection
is then closed again is aborted without its last ACK: `EveryDialEnds` lets these clients, and
no others, be left in SYN-SENT or LAST-ACK.

*Sockets.*  A datagram longer than any frame blocks the queue of a `udp.Conn`, while
`PacketConn` drops it; a `Write` larger than the ring waits for its deadline; reading into
an empty buffer takes a datagram; `Close` drops what is queued; after `Close`,
`udp.Conn.Open` leaves the socket marked closed; adding port 65535 to a mux filter of one
panics; `SocketNetip` answers a failed dial with a nil error.  Two calls of `Connect` or `Listen`
on one descriptor both find it pending before either files its socket
(`stack-berkeley.go:105-149`): the descriptor then stands for two sockets, and `CloseFD`
closes the first and forgets both, so the other stays open for good.  `FdsAreExact` allows
this for such a descriptor only, and nothing to be lost before it is closed.

*DHCP.*  `allocAddr` hands out the address of the counter without looking whether it is
assigned (`server.go:334-336`): two hosts may have one address once the counter came round,
or when one of them chose it; `OneOwner` allows just that.  A message whose
`ciaddr` nobody holds is filed under the zero key (`server.go:165`, `378`), where it does not
find the entry of the one before: the answer that was due stays counted in `pending` and is
never sent, and the address is given anew each time.  So `PendingIsExact` bounds the excess by
the entries written over, and `AddressIsKept` leaves out the zero key, which is no host.
A release without an identifier is looked up by the address it claims and
takes away another host's entry, whose client may then be bound to an address that was not
the one acknowledged; the second part of `OneOwner` leaves such hosts out (`hist.lost`).  A release from an unknown host stores an empty entry.  With two
servers the client takes the second server's identifier after it settled on the first
(`client.go:231`).  A NACK is dropped.  The DHCPv6 client accepts a Reply of any server,
and without an address; it never rebinds.

*Link.*  While a query without callback is under way, a dial to the same address gets
no hardware address; waiting connections beyond the slots push out the oldest, or, in
`stack6.go:216`, are refused though the comment says otherwise; queries are sent once.
With two lost frames two hosts can hold one link-local address.

*Queries.*  `handlers.reset` keeps the round-robin index (`definitions.go:31-39`): a table
that is shorter after a reset is indexed out of range by the next poll.  It takes a stack
with ICMP, so the scenario that restarts a stack has none.  Concurrent callers of
`DoLookupIPType` share one client, and every result is a slice of one buffer of the stack
(`stack-async.go:683`): a result already returned changes when the next one is read, and
`LookupIsRight` says whose addresses it may then show.  A lookup whose answer does not
decode is done with the addresses before the fault.  NTP's client drops a valid answer
whose transmit time equals its origin time, and waits in its state until it is reset.
NTS: a repeated request leaves an entry in the server's queue of four, until it is
exhausted; a repeated answer brings the same cookie twice; cookies are padded to four
bytes, and cut by one side where the other drops them; the client does not check that
the algorithm chosen was offered.

*HTTP.*  When the winner of a lookup is a literal pattern, the path values of wildcard
patterns tried before remain (`mux.go:256-290`), against `exchange.go:780-782`, "or nil if the
matched pattern has no such wildcard"; `ValuesAreTheWinners` says that they are those of
registrations it beat, and no others.  `ExchangeRW` checks its generation without a lock
before it writes (`exchange.go:358-374`): a release and a new `Acquire` in between let the
write reach the next request's response, and a release alone makes it panic on the nil
connection, though `exchange.go:347-349` says a stale handle is refused.  `ResponseIsWhole`
leaves out a response that such an overtaken call wrote to.  A `Configure` refused for a `Mux` without
paths has set its sizes and keeps the free list (`router.go:164-177`), so that buffers of two
sizes are in use, against the comment at 175-176; `EveryConnectionHasItsExchange` names the
two.  A Content-Length may have a sign (`+5`, `-0`), which the comment at `headerv1.go:278`
excludes.  `Shutdown` of a router without a bound does not
refuse connections (`router.go:127-129`).  Connections queued for a setup that is torn down are closed
unserved.  A failing `Set` loses the old value; `Add` says nothing when the buffer is
full; a header flushed before the body was read is written over the part of the body that came with
the request; a body shorter than its Content-Length is parsed as if whole; a malformed
header gets no answer; the pattern `/{}` never matches.

## 7. What is not modelled

* *Pure encodings* (`ethernet`, `ipv4`, `ipv6`, `tcp`, `udp`, `arp` frames, options,
  checksums, string conversions): functions of bytes that unit tests and fuzzers cover
  better.  Where a field's width matters (windows, sequence numbers, ports, offsets) the
  models have it.
* *Devices and programs*: `phy`, host interfaces (`internal/tap.go`, `x/rawsock`), test support,
  `examples`, packet capture (`internet/pcap`), logging.
* *HTTP*: normalisation of header keys (`NormalizeOutgoingKeys`), `CopyNormalizedHeaderValue`,
  `AppendResponse`, arena memory (`routermem.go`), and two `Configure` calls at once.
* *Timers' values*: the runs know the order of events and not durations; the timer in
  `Handler` keeps estimates in small units.  Congestion control would be a `Policy` the code does
  not have.
* *Memory model*: the runner's atomics are sequentially consistent, as Go's are.  Unlocked
  reads outside of the runner (`arp.CacheRemove` in `stack-blocking.go:150`) are not
  interleaved.
* *Whole-stack composition*: DHCP, link, TCP and the queries are composed with the tables
  that carry them, each with its own network; one model of all of them is beyond TLC.
* Components with status `partly` in `PROJECT.json` say which operations are left out.

## 8. Hazards without a property

`PROJECT.json` lists under "hazards" where this code is exposed and which property would
catch it.  One has no property of a run: the expiry of SYN cookies when the counter wraps,
which is proved for every counter instead (`SynCookie`).  Where the code does not do what
a stronger property would ask, the hazard has a note and section 6 an entry.

# A TLA+ model of nstack

nstack is a TCP/IP stack in user space: a daemon (`inetd`) owns a raw Ethernet
socket, and applications talk to it through datagram rings in shared memory.
The modules here model the parts of it where processes, threads, timers and an
unreliable network meet. TLC checks them on small instances, TLAPS proves the
central ones for every value of their constants, and this file says what is
covered and what is not. Paths are relative to the root of the repository.

## 1. The system

| Part | Source | State | Operations | Why it is hard |
|---|---|---|---|---|
| Datagram ring | `include/queue_r.h` | `m_read`, `m_write`, blocks, in a shared file | alloc, commit, peek, discard, clear | two processes, no lock, either may die |
| Socket receive path | `src/nstack.c` (`nstack_sock_dgram_input`), `src/socket.c` | ingress ring, `pid_end`, pending SIGUSR2 | dgram_input, listen, recvfrom | lost and merged signals, readers that die, full ring |
| Daemon threads, socket send path | `src/nstack.c`, `src/socket.c` | `nstack_state`, the threads, egress rings | start, stop, three thread loops, sendto | shutdown, starvation, blocked workers |
| TCP connection | `src/tcp.c`, `src/tcp.h` | control block, two segment lists, mutex, timers | `tcp_input`/`tcp_fsm`, `nstack_tcp_send`, `tcp_slowtimo`/`tcp_timer` | three threads on one block, loss, duplication, reordering, timeouts |
| TCP retransmission timeout | `src/tcp.c`, `src/tcp.h` | `rtt_est`, `rtt_var`, `retran_timeout`, `rtt` | start, tick, sample, retransmit | rounding, limits |
| ARP | `src/arp.c` | slots, search tree | insert, look up, evict, age, `arp_input` | slots and tree drift apart |
| Ethernet, IP, ICMP and UDP input, UDP output | `src/ether.c`, `src/linux/ether.c`, `src/ip.c`, `src/icmp.c`, `src/udp.c` | the receive buffer, worked on in place | one handler per layer, reply or datagram | byte order, lengths and addresses change hands at every layer |
| IP output and deferred packets | `src/ip.c`, `src/ip_defer.c` | `ip_defer_queue`, `q_rd`, `q_wr`, `defer_inhibit` | `ip_send`, push, handler | unlocked queue between threads |
| IP fragments | `src/ip_fragment.c`, `src/ip.c` | `packet_buffer[]`, bitmaps, tree | `ip_fragment_input`, `ip_send_fragments` | any order, loss, reuse of buffers, cutting in place |
| IP routes | `src/ip_route.c` | two trees, an array, a free list | update, remove, find by network and by interface | four structures to keep in step |
| Red-black tree | `src/tree.h` | links and colours | insert, remove, find, next | rebalancing, link by link |
| Connection map | `src/tcp.c` | `tcp_conn_map` | find, create, free, the walk of `tcp_slowtimo` | an order that is none, a walk over blocks being freed |
| List macros, logger, opening of sockets | `src/collection.h`, `src/logger.h`, `src/linux/ether.c` | | | not modelled, see section 7 |

How they interact: the ingress thread takes a frame, runs Ethernet, IP and
protocol input on it and pushes a datagram into a socket's ingress ring; a reader
process pops it. Applications push into egress rings; the egress thread pops and
calls the protocol, which calls `ip_send()`. A packet for an unknown hardware
address is parked in `ip_defer_queue`, from which the ingress thread resends it
after an ARP message or periodically. The TCP timer thread retransmits through
`ip_send()` as well, on control blocks the other two threads also use.

## 2. The modules

| Module | Models | State and actions against the code |
|---|---|---|
| `Fifo` | what a ring promises | abstract: `Enqueue`, `Dequeue`, `Peek`, `DropOldest` |
| `QueueR` | `queue_r.h` | one action per access to shared memory; `PushAbandon`, `PopAbandon` are the death of a process |
| `QueueRClear` | `queue_clear_from_push_end()` | kept apart: nothing calls it, and the ring is not safe with it |
| `QueueRProofs` | | proofs for `QueueR` |
| `SocketRx`, `SocketRxProofs` | receive path of a socket | ingress thread, a succession of reader processes, signals as one pending bit |
| `NstackThreads`, `NstackThreadsProofs` | `nstack_start`, `nstack_stop`, thread loops, `nstack_sendto` | a program counter per thread, egress rings as FIFOs; a thread may be stopped for good by a mutex left locked |
| `Tcp` | one entry of `tcp_conn_map` | `Fsm...` actions are the cases of `tcp_fsm()`; `Send...`, `Ack...`, `Rexmt...`, `Keep...` are the pieces of the three threads between which another can run |
| `TcpServer`, `TcpServerProofs`, `TcpClient`, `TcpClientProofs` | `Tcp` with a peer, a network and an application | the peer is an ordinary TCP and external |
| `TcpRto` | `tcp_rto_update()` and its callers | integers as in the code, one step per access to `rtt` of the three threads; its proofs are in `TcpClientProofs`, which extends it |
| `TcpConnMap` | `tcp_conn_map`, `tcp_conn_cmp()`, the walk of `tcp_slowtimo()` | blocks in a tree of `RbTree`, freed by the walk itself or by the ingress thread |
| `ArpCache` | the cache of `arp.c` | slots, and the set of slots the tree reaches |
| `PacketPath`, `PacketPathProofs` | what the ingress thread does with a frame, and UDP output; extends `ArpCache` | one action per outcome of the chain of handlers; a packet says which byte order it is in, how long it claims to be, where its data begin; sizes are `size_t` (`SizeMod`) |
| `IpOutput`, `IpOutputProofs` | `ip_send()`, `ip_defer.c` | one action per access to the queue and the flag, by any number of threads in `ip_send()` and the handler |
| `IpFragment`, `IpFragmentProofs` | `ip_fragment.c`, `ip_send_fragments()` | buffers with bitmap, length, and whose blocks they hold; the reply, cut again |
| `RbTree` | `RB_INSERT`, `RB_REMOVE`, `RB_FIND`, `RB_NEXT` of `tree.h` | a function from nodes to links and colour; the loops are recursive operators, so nothing above it is proved (section 5) |
| `RouteTable` | what the routing table promises | abstract: a set of routes |
| `IpRoute` | `ip_route.c` | array, free list, two trees of `RbTree` |
| `MC...` | instances for TLC | constants and inputs only; modules whose constants are plain values are run directly |

The modules are layered. `QueueR` is proved to implement `Fifo`, so `SocketRx`
and `NstackThreads` use a queue with atomic operations. `IpOutput` sees of the
ARP cache which destinations resolve; `ArpCache` is about how that comes about, and
`PacketPath` drives it with the frames that fill it. `PacketPath` takes whole
handlers as steps, `IpOutput` shows what the threads do to each other inside
`ip_send()`. `IpFragment` continues where `PacketPath` hands a fragment over, and
relies on its `HeardResolves`. `IpRoute` implements `RouteTable`. `Tcp` is the
common part of `TcpServer` (passive open, receiving) and `TcpClient` (active open,
sending).

Memory model: the build does not optimise (`-O0`), and stores become visible in
program order on the x86 targets, so steps of the threads are interleaved at
accesses to shared state. Where a mutex or a single thread owns the state a step
is a whole handler. In `Tcp` the unlocked read-modify-write of the timer counters
and of `rtt` is two steps, so are the test of `rtt` in `tcp_fsm()` and its use, and the
stores of `rtt` and `rtt_cur_seq`; `tcp_ack_segments()` is three, `tcp_send_segments()`
is one step per turn of its loop.

Definitions whose name says what is wrong with them (`QueueAllocNoWrap`,
`IpReplyCut`, ...) and whose comment starts with "Mutant" are used by no
specification. Putting one in the place of the definition that follows it shows
that a property notices that change.

## 3. What is checked

`tlc -config X.cfg M` in this directory, where `M` is the `MC` module of the component,
or the component's module itself where there is none. The passing runs are complete
searches.

| Run | Configuration | Shows | Bounds | States |
|---|---|---|---|---|
| `ring` | `MCQueueR` | the ends never share a block; `ImplementsFifo`: nothing lost, repeated, reordered or torn, either process dying anywhere, clears from the pop end included | 4 blocks, as in the build (16384/4096), 2 datagrams | 218,866 |
| `socket_rx` | `MCSocketRx` | over all readers every datagram is read once and in order; the signal ends no reader; every datagram is read in the end; the ingress thread gets off a full ring | ring of 3, 5 datagrams, 3 readers, 1 peek | 4,928 |
| `threads` | `MCNstackThreads` | each protocol is given what the application has sent since `nstack_init()`, in order; no socket starves; both worker threads end after `nstack_stop()`; the last two unless a thread waits for a mutex that a failed `ip_send()` has left locked | 2 sockets, one of them TCP, rings of 2, 3 datagrams each | 123,534 |
| `tcp_server` | `MCTcpServer` | under loss, duplication and overtaking the application gets a prefix of the stream; without network faults it gets everything sent with PSH, and a connection the peer closes is freed, also when the FIN is ignored at first and retransmitted; when nothing is sent twice `tcp_fsm()` never meets NULL | 2 payloads, with or without PSH, 2 faults, 1 retransmission, numbers modulo 64, starting 2 before the wrap | 430,023 |
| `tcp_client` | `MCTcpClient` | with timers slower than the network and an application that waits for its datagrams, everything sent arrives, in order and once; `send_una` stays at or below `send_max` | 3 datagrams, 1 failing `ip_send()`, 6 timeouts | 493 |
| `tcp_client_races` | `MCTcpClientRaces` | with timers racing everything, a network fault, a peer that may refuse: a datagram is on the segment lists at most once, and the mutex is only ever left locked by a failed `ip_send()` | 2 datagrams, 1 failure, 1 fault, 2 timeouts, modulo 16 | 3,002,040 |
| `tcp_client_loss` | `MCTcpClientLoss` | **violated**: a datagram sent on an open connection and lost never arrives | 1 datagram, 1 fault | |
| `tcp_rto` | `MCTcpRto` | once a measurement has counted the timeout is not below `TCP_TV_MIN`, with the three threads interleaved at every access to `rtt`, on connections opened by either side | measurements up to 6 ticks | 56,128 |
| `packet_path` | `MCPacketPath` | a reply goes back to the sender of the frame in network order, and what ICMP and TCP answer (unreachable messages aside) has the right length; a datagram is given to its socket and to no other; the host heard last resolves, an address is in one slot, an answer is something that host claimed; an ARP message sends the packets that waited for it | 3 slots, 3 hosts, 2 hardware addresses, 1 port, 2 deferred packets, 17 frames with IP packets, 7 more with a header longer than the packet, 6 with ARP messages | 137,349 |
| `ip_output` | `MCIpOutput` | with three threads in `ip_send()`, the ingress thread among them: order, no packet sent twice, the queue drains, the handler's loop is bounded by what it found; all until a push is completed with another thread inside of one | queue of 3, 3 packets, 3 destinations, one without a route, 1 ARP request that fails | 586,050 |
| `ip_fragment` | `MCIpFragment` | what is handed on is exactly the packet sent; one buffer per packet; a packet is handed on when its last missing fragment arrives; the reply to an echo, cut again, can be put together by the other host | 2 buffers, 3 packets of 4, 5 or 7 blocks in fragments of 3, 1 loss, 1 duplicate, replies cut into fragments of 2 | 839,899 |
| `ip_route` | `MCIpRoute` | through all orders of updates and removals both trees stay red-black search trees, no entry is lost or used twice, both lookups find what is there, and all of it implements a table | 5 entries, 7 routes for 6 networks, addresses of 4 bits | 124,440 |

Why the bounds are enough. A ring of 4 blocks wraps, fills and empties; the proofs
remove the bound. Three readers give a dead one, its successor and one more on the state
both left. Two sockets are what starvation needs. Two faults combine a loss with a
duplicate or an overtaking. Modulo 64 or 16 instead of 2^32 keeps the numbers of a run
apart as the real ones are, and the peer's numbers do wrap; nstack's own numbers stay
away from the wrap except in `MCTcpClientWrap`. Two payloads and a FIN are enough for
data that is ignored in front of data that is not, and one retransmission for a FIN
ignored with the data in front of it. The queue of 3 packets is full with 2; three
senders are the three threads of the code that call `ip_send()`. `SizeMod` is 2^20
instead of 2^64: what matters is that it is far above any frame. The cache of 3 slots is
smaller than the hosts and the own address together, so entries are evicted, and one
period is longer than the maximal age, so they expire; the frames are one for each
branch of the handlers, and one with a wrong checksum, which nothing looks at on input.
In `ip_fragment` the packets fit the part of the bitmap that `fragmap_init()` clears,
2048 blocks or 16 KiB in the code; 7 blocks are three fragments. In `ip_route` the
addresses are less than half the range apart, where the comparison function is an order.
Five entries are too few for a rebalancing that goes on further up the tree, which takes
seven elements for a removal and eight for an insertion; `MCRbTree.cfg` has nine of them
in a tree of its own (`TreeSound`, `OneElement`, 4,748 states). `MCTcpConnMap.cfg`
(`FindsItsOwn`, 12,809 states) is another search that finds its property true.

Of the type invariants `TypeOK` only that of the ring is checked by a run and proved; in
the other modules it documents the variables, and the proofs have what they need of it
in their invariants.

`ArpCache` needs two slots or more (`CacheAssumption`): one is taken by the own address.
That an insertion then always finds a slot, so that the ENOMEM return of
`arp_cache_insert()` is not reached, is `SlotFound`, which TLC finds true with the
constants of `MCPacketPath.cfg`.

Deadlock checking is off where the modelled system stops: a bounded application
has sent everything, a program has dereferenced NULL, an ARP tree is broken.

### Fairness

- `SocketRx`, `NstackThreads`: every thread keeps running, a reader that exists
  keeps reading, `sigtimedwait()` times out. The scheduler and the timeouts in the
  code give this. No signal is assumed to arrive, and a thread that waits for a mutex
  nobody will unlock has no step.
- `TcpServer`, `TcpClient`: the ingress thread, the egress thread and the peer keep
  running and the network delivers what it does not lose. The timer thread ticks for
  ever and comes to every timer that stays armed, whatever it does in between (strong
  fairness on the loads), and since every tick lowers a timer one of them is the last
  (strong fairness on the expiry, because model ticks do not count). The peer retransmits
  what stays unacknowledged; without network faults that excuses nothing, unless it does
  so while a segment is still on its way or at work (`Disturbed`).
- `IpOutput`: weak fairness of the threads, strong fairness of the periodic tasks,
  which run whenever the ingress thread is between frames.
- Promptness (`Prompt`) is an assumption of `tcp_client` and `tcp_client_loss`:
  round trips are shorter than the 500 ms tick. `tcp_client_races` drops it.

## 4. Where the code differs from its documentation

The violated run is listed with its quotation in `PROJECT.json`:

- `tcp_client_loss`. `tcp_send_segments()` numbers a segment with `send_next`
  whenever it sends it (`src/tcp.c:627`). A datagram queued before the handshake is sent
  by the timer on the open connection, under the number after the SYN's, and lost; the
  timer sends it again under the next one, and the peer, which waits for the first, repeats
  its acknowledgment. `tcp_ack_segments()` takes that as new, since `send_una` is still the
  number of the SYN, frees the segment and, with `send_una` below `send_max`, loads the
  timer with an estimate of 0 (`src/tcp.c:665`), which stops it.

The modules state further properties that TLC finds violated. To see one, put it in the
place of the INVARIANTs and PROPERTYs of the configuration named (some already have it).

| Configuration, module | Property | What happens |
|---|---|---|
| `MCQueueRClear`, `QueueRClear` | `NeverTorn` | the writer clears while the reader copies, then fills that block: the reader returns the header of one datagram and the payload of another (`include/queue_r.h:118` calls it safe) |
| `MCNstackStop`, `NstackThreads` | `StopCompletes` | `nstack_stop()` joins the timer thread, whose loop has no exit (`src/nstack.c:349`) |
| `MCNstackThreads`, `NstackThreads` | `EveryDgramHandedAlways`, `WorkersStopAlways` | `tcp_send_segments()` returns with the mutex locked when `ip_send()` fails (`src/tcp.c:638`); the next datagram for that connection stops the egress thread (`src/tcp.c:733`), an acknowledgment the ingress thread (`src/tcp.c:651`), and neither serves another socket or sees `NSTACK_DYING` |
| `MCTcpServer`, `MCTcpServer` | `PlainDataDelivered` | data without PSH is ignored as often as it comes (`src/tcp.c:421`) |
| the same | `StraySegmentHarmless` | a segment other than a SYN for which there is no connection, such as a FIN sent again after the connection was freed, makes `tcp_fsm()` dereference NULL (`src/tcp.c:539`) |
| `MCTcpServerLoss`, `MCTcpServer` | `DataDeliveredAlways` | the acknowledgment that ends the handshake is lost, the first data opens the connection in its stead and is dropped (`src/tcp.c:405`), and the FIN behind it, whose number nothing looks at (`src/tcp.c:449`), is answered with an acknowledgment of all |
| `MCTcpClientAck`, `MCTcpClient` | `UnaBelowMax` | an acknowledgment above `send_max` is accepted (`src/tcp.c:649`; the condition is at line 89) |
| `MCTcpClientRaces`, `MCTcpClient` | `OpenIsAccepted` | `tcp_flags & (TCP_SYN \| TCP_ACK)` holds for RST & ACK (`src/tcp.c:332`) |
| the same | `KeepSparesOpen` | the timer thread loads the connection timer, the handshake completes and stores 0, the timer thread stores its value back; on expiry the case falls through and frees the open connection (`src/tcp.c:809`, `:820`) |
| `MCTcpClientWrap`, `MCTcpClient` | `PeerInOrder` | past the wrap an acknowledgment looks old, the datagram is sent again under a new number and arrives twice (`src/tcp.c:649`) |
| `MCTcpRto`, `TcpRto` | `RtoStaysAtLeastMin` | the timer thread resets `rtt` between the test and the use of it (`src/tcp.c:324`, `:797`): a first measurement of 0 makes the timeout 0 |
| `MCTcpRtoMax`, `TcpRto` | `RtoAtMostMax` | nothing limits the timeout to `TCP_TV_REXMTMAX` (`src/tcp.c:763`) |
| `MCPacketPath`, `MCPacketPath` | `EvictsOldest` | the youngest entry goes (`src/arp.c:83`; `config.h:32` says the oldest) |
| the same | `EvictsOnlyWhenFull` | a slot never used is zero, which is not `ARP_CACHE_FREE` |
| the same | `AnswerSendsToAnnounced` | an address that is known keeps its old hardware address (`src/arp.c:74`), and the packets go there |
| the same | `UnreachableReturnable` | the length counts the message twice, the checksum is taken too early, options stay in front (`src/icmp.c:80`) |
| the same | `StaysInBuffer` | the size of the data is `bsize - hlen` as a `size_t` (`src/ip.c:201`); for a header longer than the packet it wraps around, and the handlers, which find it large enough, read beyond the buffer |
| `MCIpOutput`, `IpOutput` | `SentOnceOnly`, `InOrder` | two threads inside of `ip_defer_push()` fill the same slot, and the second sets `q_wr` to an index computed before the first has moved it (`src/ip_defer.c:52`) |
| the same | `DeferredIsQueued` | a push that sees the handler's `defer_inhibit` is dropped, and `ip_send()` still returns 0 (`src/ip_defer.c:36`) |
| the same | `DroppedAfterTries` | the handler takes the 0 of its own inhibited push for a transmission (`src/ip_defer.c:98`) |
| `MCIpFragment`, `IpFragment` | `AnyOrderIsHandedOn` | a first fragment after the last one makes the length unknown again (`src/ip_fragment.c:164`) |
| the same | `PayloadNotCut` | the payload's length is passed as the packet's (`src/ip_fragment.c:181`) |
| the same | `EveryEchoComesBack` | a packet above the MTU only with its header is neither sent nor cut (`src/ip.c:326`) |
| `MCIpFragmentMap`, `IpFragment` | `WholeOnly` | `memset()` is given a number of words (`src/ip_fragment.c:71`): a packet is complete with blocks of an earlier one |
| the same | `BuffersComeBack` | `ip_fragment_timer()` is not registered or called (`src/ip_fragment.c:205`) |
| `MCIpRoute`, `MCIpRoute` | `FullIsRefused` | the head of an empty free list is removed before it is looked at (`src/ip_route.c:57`) |
| `MCIpRouteDefault`, `MCIpRoute` | `DefaultIsLast` | network 0 with mask 0 covers everything and comes first in the traversal |
| `MCIpRouteFar`, `MCIpRoute` | `LookupsFindRoutes` | addresses half the range apart or more: the difference as an `int` is no order (`src/ip_route.c:32`) |
| `MCIpRouteIface`, `MCIpRoute` | `LookupsFindRoutes` | two networks with one interface address: only one of them is in the second tree |
| `MCTcpConnMapPorts`, `MCTcpConnMap` | `FindsItsOwn` | the sum of two `memcmp()` results is no order (`src/tcp.c:121`) |
| `MCTcpConnMapWalk`, `MCTcpConnMap` | `TickedOnce`, `WalksLiveBlocks` | the walk takes the successor of a block just freed (`src/tcp.c:826`) |

## 5. What is proved

For every ring length `ALen > 0` and every set of datagrams (`QueueRProofs`):

- `RingInvariant`: `Spec => []RingInv`, and from it `RingTypes` and `BlocksExclusive`;
- `RingImplementsFifo`: `Spec => ImplementsFifo`.

`BlockExclusion` alone is not inductive. `RingInv` adds: the push end is at `m_write`
and the ring was not full when it looked, which stays true because the pop end only
makes room; the pop end is at `m_read` and the ring was not empty, which stays true
because the push end only adds; what a clear has loaded is still between the two
indices; a block being written holds what was written so far; every committed block
holds one whole datagram. The refinement maps the committed blocks, oldest first, to
the abstract queue: commit is `Enqueue`, discard is `Dequeue`, a peeking return is
`Peek`, the store of a clear is `DropOldest` (or nothing on an empty ring), every
other step is a stutter. The only assumptions are `ALenAssumption` and
`NoDataAssumption`.

For any capacity, number of datagrams and number of readers (`SocketRxProofs`):
`NothingLost` and `NeverShot`. The first needs that a datagram a reader has copied is
still the head of the queue when it is discarded, which holds because a dead reader's
copy dies with it; the second that a reader which has not blocked the signal is not
the one registered.

For any number of sockets and datagrams (`NstackThreadsProofs`): `HandedInOrder`. The
invariant adds that between `proto_send[]` and `queue_discard()`, or for ever when the
thread is stopped there, the queue is not empty and its head is what was sent, and that
there is no egress thread before it is created, so that `nstack_init()` wipes nothing
that was handed over.

For any number of datagrams, sequence numbers, faults and timeouts, and all
interleavings of the three threads (`TcpClientProofs`): `NeverQueuedTwice` and
`MutexReleased`. `SegmentOnce` alone is not inductive: `ListInv` adds that a datagram
`nstack_tcp_send()` has in hand is on neither list, that both lists hold datagrams the
application has sent, and that a thread at work has a control block, until the step in
which another thread frees it (`undef`). The same module has the timeout, `RtoInvariant`
and `RtoNeverBelowMin`, for measurements of any length, connections opened by either side
and all interleavings of the accesses to `rtt`. The code never compares the timeout with
`TCP_TV_MIN`. That it is not below it once a measurement has counted (`rtt_est` is not 0)
holds because the deviation estimator, once at 2 or more, stays there: a quarter of it,
rounded down, leaves at least 2, also when the measurement is 0. Before that the estimators
are those of `tcp_connection_init()` or the zeros of `calloc()`, and a first measurement of
0 leaves a timeout of 0 (section 4).

For any number of payloads and any sequence numbers (`TcpServerProofs`): `NeverNull`.
`NoNullConnection` says nothing of how a connection comes and goes, so `QuietInv` does:
a connection on a network without faults, with nothing sent twice, is in one of five
phases, and in the last, `Open`, the acknowledgment that ends the handshake is the first
segment on its way to nstack; a FIN of the peer exists once, behind everything else it
has sent; and there is one answer to it, whose acknowledgment, the last segment of all,
frees the connection.

`StreamInOrder`, in the same module, is about a peer that retransmits and a network that
loses what it likes, in any amount: the application gets the stream in order and each
payload once (`AppGetsPrefix`). It has two hypotheses. `KeepsOrder`: no segment is
duplicated or overtaken. `FewSegments`: fewer are sent than there are sequence numbers, as
with 2^32 of them. `AppGetsPrefix` is not inductive: the order of the data depends on
`recv_next` being right when the connection opens, and in `TCP_SYN_RCVD` every segment
but the awaited acknowledgment, a repeated SYN among them, overwrites `recv_next` with
its own number (`FsmSynRcvdOther`). The same step increments `send_next`. So `StreamInv`
counts: `send_next` has moved n times, n is 0 only if `recv_next` is still right, and
since every move took a segment, n stays below a whole turn of the numbers, so that no
acknowledgment of the peer matches again once n is not 0 (`Drifted`, `PlusMoves`). Such a
connection never opens, and delivers nothing. The rest of the invariant is the phase the
connection is in: `Silent`, `Knocking` (only SYNs on their way), `Mute` (the peer will
never send data), `Early` (the peer sends, `tcp_fsm()` has not opened the connection) and
`Late`; SYNs are ahead of everything else, so none is left to open another connection
when one has ended.

For any size of the cache, any hosts and any frames (`PacketPathProofs`): `OneEntry`,
`AnswersClaimed`, `HeardIsResolved`, and `DeferredAreSent`, an action property. The
invariant `CacheInv` is the conjunction of the three invariants and types;
`InsertEffect` says what an insertion does whichever slot is chosen, so the proofs do
not depend on the choice. Nothing is claimed from the step on in which the tree's links
may break (`broken`). `RepliesReturn` and `DatagramsDelivered` are about what one frame
leaves behind, and inductive as they stand: the lemmas follow the header through
`ip_ntoh()`, the handler and `ip_reply_header()`, and `UnreachableFits` shows that
`ether_send()` does send an unreachable message, whose length is counted twice, since it
stays at or below 108 bytes. Sizes are taken modulo `SizeMod`, and a header may be
longer than its packet: `SizeOfData` says what the difference then is, and
`DatagramsDelivered` that no socket is given such data, because the copy does not come
to an end (`IpOverrun`). Assumed are `CacheAssumption` and `FrameAssumption`: no other
host sends under this host's address, and packets come in network order with their data
behind the header. No checksum is assumed to be right.

For any length of the queue, any destinations, any number of packets and any threads in
`ip_send()` (`IpOutputProofs`): `SentOnce`, `DeferredInOrder` and `HandlerEnds`. All
three hold up to the first push that is completed with another thread inside of
`ip_defer_push()` (`raced`); from there on they are false (section 4). `OutInv` relates
what the threads hold to the indices: the slot after `q_wr` that a sender has computed
is still the next one, because the first push to move `q_wr` under another thread sets
`raced`; of several senders that have filled the slot at `q_wr` the packet in it belongs
to one; the slot the handler has peeked at is still the first, because only it moves
`q_rd`; numbers increase from `q_rd` on; and of the packets in the queue only the one
about to be dropped is on the wire. For `HandlerEnds` it counts: while the handler runs,
`budget` is at least the packets in the queue and the pushes past the test of
`defer_inhibit`, and no push can pass that test any more.

For any buffers, packets, sizes, losses and duplicates (`IpFragmentProofs`):
`OneBuffer`, `ArrivedHandedOn`, and `ReassembledWhole` and `EchoReturned` under the
assumption that `fragmap_init()` clears the map as far as packets reach. `BufferInv`
says that a buffer is reserved exactly while it is for a packet, and that no two are for
one. `WholeInv` adds that a bit set in a map stands for a block of the buffer's own
packet, and that the length is unknown or that packet's. `ArriveInv` is the converse,
without the assumption: the buffer of a packet that came to no harm has the bits of
everything that has arrived and, once the last fragment has, the length; so a packet
cannot have arrived completely and still be waiting. `EchoReturned` is the loop
invariant of `ip_send_fragments()`, for every MTU that is a number of blocks larger than
the header and every length of a fragment: after n turns the fragments sent hold the
data up to n times that length, in place, and the data moved to the front of the buffer
were moved only over such as had been sent. The induction is over the turns of a
recursive function, by the well-foundedness of the natural numbers.

Only model-checked:

- all liveness properties, for the prover does not do fairness;
- `PeerInOrder` and `UnaBelowMax`: they hold where timers are slower than the network
  (`Prompt`), nothing is lost and the numbers stay away from the wrap, and not otherwise
  (section 4), so a proof would be about the schedule and the distance of the numbers
  rather than about the code;
- `AppGetsPrefix` where segments are duplicated and overtake one another: an old SYN may
  then open the connection again, and what keeps old segments out is how far the initial
  numbers `ISNs` are apart and how `SeqMod` compares with the number of steps;
- `IpRoute`, `TcpConnMap` and everything else over `RbTree`, whose recursive operators
  are out of the prover's reach.

## 6. Plan

Left, in this order:

1. Data in both directions on one connection: the ingress thread writes `send_next`
   back while the egress thread increments it (`src/tcp.c:430`).
2. Proofs: `AppGetsPrefix` on a network that also duplicates and reorders, from an
   assumption on the distance of the initial numbers.
3. The socket and fragment trees over `RbTree` instead of as sets, and the ARP tree
   beyond the point where its links break.

## 7. What is not modelled

- TCP options, windows and header layout, and checksums as numbers: a packet says whether
  its checksum is that of what it holds. Whether UDP's checksum, taken of a buffer that
  is not filled yet (`src/udp.c:194`), lets a datagram leave is a choice. That the
  checksum of an echo put together covers 20 bytes fewer is seen as `PayloadNotCut`.
- `src/collection.h`: its list macros are sequences. Of `src/tree.h` the splay tree,
  `RB_NFIND` and `RB_PREV`, which nothing uses. What removing a slot that is not in the
  tree does is modelled in `ArpCache` up to the point where the links stop forming a
  tree; from there on (`broken`) nothing is claimed.
- Opening and mapping socket files, the raw socket, the frame check sequence
  (`src/ether_fcs.c`), `src/logger.h`: I/O and formatting. A receive timeout and a failing
  send are choices in the modules. The announcements `ip_config()` sends change no state.
- A datagram larger than a block of the ring. The ARP lookup of the egress thread during
  an insertion of the ingress thread, and the increment of `ip_global_id`
  (`src/ip.c:319`), are single steps. In `PacketPath` nothing is claimed past the step in
  which a handler leaves the buffer (`fault`).
- A frame padded to the minimal length is dropped by `ip_input()`, which wants `ip_len` to
  be the size of the frame; `PacketPath` does the same, and no property is about it.
- `kill(0, SIGUSR2)` before any reader has attached is in `SocketRx` (the daemon ends),
  but no property is about it.

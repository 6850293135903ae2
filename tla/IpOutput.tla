------------------------------ MODULE IpOutput -------------------------------
(***************************************************************************)
(* Sending an IP packet (ip_send() in src/ip.c) and the queue of packets   *)
(* that wait for ARP (src/ip_defer.c).                                     *)
(*                                                                         *)
(* The egress thread (UDP, TCP), the timer thread (TCP retransmission) and *)
(* the ingress thread (the reply to a packet that came in fragments) call  *)
(* ip_send() and push; the ingress thread also runs ip_defer_handler(),    *)
(* after an ARP message and as a periodic task.  Nothing is locked: the    *)
(* queue is a ring with q_rd and q_wr, and the flag defer_inhibit, meant   *)
(* for the handler's own calls of ip_send(), is seen by every thread.  A   *)
(* step is one access to these.                                            *)
(*                                                                         *)
(* Of the ARP cache only the addresses that resolve matter; the ingress    *)
(* thread adds them, and evicts or expires others (module ArpCache).       *)
(* Packets are numbered in the order ip_send() is called.                  *)
(***************************************************************************)
EXTENDS Integers, Sequences, FiniteSets

CONSTANTS Senders,      \* threads that call ip_send()
          Ingress,      \* the ingress thread, when it is one of them
          Dsts,         \* destinations
          Routed,       \* destinations there is a route to
          QLen,         \* NSTACK_IP_DEFER_MAX
          MaxPackets,   \* bound: packets
          MaxFails      \* bound: ARP requests that cannot be sent

ASSUME OutputAssumption ==
    /\ Routed \subseteq Dsts /\ QLen \in Nat \ {0, 1}
    /\ MaxPackets \in Nat /\ MaxFails \in Nat /\ IsFiniteSet(Senders)

VARIABLES
    known,           \* destinations with a route whose address the ARP cache has
    ip_defer_queue, q_rd, q_wr, defer_inhibit,
    snd,             \* each sender: where it is in ip_send()
    ing,             \* the ingress thread: where it is in ip_defer_handler()
    count,           \* packets given to ip_send() so far
    ret,             \* what ip_send() has returned for each packet
    wire,            \* packets sent, in order
    handled,         \* packets the handler has taken off the queue
    early,           \* packets dropped unsent before their tries were used up
    raced,           \* a push was completed with another thread inside of one
    budget,          \* packets the handler may still drop: those it found, and
                     \* those that were on their way into the queue then
    fails            \* ARP requests that could not be sent

queueVars == <<ip_defer_queue, q_rd, q_wr, defer_inhibit>>
history   == <<wire, handled, early, raced, budget>>
vars == <<known, queueVars, snd, ing, count, ret, history, fails>>

Slot == 0..(QLen - 1)
NextSlot(i) == (i + 1) % QLen

NoPacket == [id |-> 0, dst |-> CHOOSE d \in Dsts : TRUE, tries |-> 0]
Idle == [pc |-> "idle"]

Init ==
    /\ known = {}
    /\ ip_defer_queue = [i \in Slot |-> NoPacket]
    /\ q_rd = 0 /\ q_wr = 0 /\ defer_inhibit = FALSE
    /\ snd = [t \in Senders |-> Idle] /\ ing = Idle
    /\ count = 0 /\ ret = [p \in 1..MaxPackets |-> "none"]
    /\ wire = <<>> /\ handled = {} /\ early = {} /\ fails = 0
    /\ raced = FALSE /\ budget = 0
-----------------------------------------------------------------------------
(* ip_send().                                                              *)

\* A thread that is not in ip_send(); the ingress thread is not in the handler.
MaySend(t) == snd[t] = Idle /\ count < MaxPackets /\ (t = Ingress => ing = Idle)

Returns(t, p, r) ==
    /\ snd' = [snd EXCEPT ![t] = Idle]
    /\ ret' = [ret EXCEPT ![p] = r]

\* The packet takes its number; without a route ip_send() fails.
IpSendNoRoute(t) ==
    /\ MaySend(t) /\ Dsts # Routed
    /\ count' = count + 1
    /\ Returns(t, count + 1, "error")
    /\ UNCHANGED <<known, queueVars, ing, history, fails>>

\* The address is in the ARP cache: the packet goes out.
IpSendNow(t) ==
    /\ MaySend(t) /\ known # {}
    /\ count' = count + 1
    /\ wire' = Append(wire, count + 1)
    /\ Returns(t, count + 1, "sent")
    /\ UNCHANGED <<known, queueVars, ing, handled, early, raced, budget, fails>>

\* So it would, but ether_send() fails.
IpSendFails(t) ==
    /\ MaySend(t) /\ known # {}
    /\ count' = count + 1
    /\ Returns(t, count + 1, "error")
    /\ UNCHANGED <<known, queueVars, ing, history, fails>>

\* It is not: an ARP request is sent, errno is EHOSTUNREACH, and the packet is
\* to be deferred.  ip_defer_push() first computes the index after q_wr.
IpSendDefer(t, d) ==
    /\ MaySend(t) /\ d \in Routed \ known
    /\ count' = count + 1
    /\ snd' = [snd EXCEPT ![t] = [pc |-> "inhibit", id |-> count + 1, dst |-> d,
                                  next |-> NextSlot(q_wr)]]
    /\ UNCHANGED <<known, queueVars, ing, ret, history, fails>>

\* The ARP request cannot be sent: errno is whatever it was before, and unless
\* that is EHOSTUNREACH by chance (the action above) ip_send() returns 0.
IpSendRequestFails(t) ==
    /\ MaySend(t) /\ Routed \ known # {}
    /\ fails < MaxFails /\ fails' = fails + 1
    /\ count' = count + 1
    /\ Returns(t, count + 1, "lost")
    /\ UNCHANGED <<known, queueVars, ing, history>>

\* An inhibited push is -EALREADY, for which ip_send() returns 0.
PushInhibit(t) ==
    /\ snd[t].pc = "inhibit"
    /\ IF defer_inhibit
         THEN Returns(t, snd[t].id, "deferred")
         ELSE snd' = [snd EXCEPT ![t].pc = "full"] /\ UNCHANGED ret
    /\ UNCHANGED <<known, queueVars, ing, count, history, fails>>

\* Mutant: the test for a full queue is missing.
PushFullNever(t) ==
    /\ snd[t].pc = "full"
    /\ snd' = [snd EXCEPT ![t].pc = "fill"]
    /\ UNCHANGED <<ret, known, queueVars, ing, count, history, fails>>

\* A full queue is -ENOBUFS, for which it returns -1.
PushFull(t) ==
    /\ snd[t].pc = "full"
    /\ IF snd[t].next = q_rd
         THEN Returns(t, snd[t].id, "error")
         ELSE snd' = [snd EXCEPT ![t].pc = "fill"] /\ UNCHANGED ret
    /\ UNCHANGED <<known, queueVars, ing, count, history, fails>>

\* Mutant: it is always the first slot that is filled.
PushFillFirst(t) ==
    /\ snd[t].pc = "fill"
    /\ ip_defer_queue' = [ip_defer_queue EXCEPT ![0] =
                             [id |-> snd[t].id, dst |-> snd[t].dst, tries |-> 0]]
    /\ snd' = [snd EXCEPT ![t].pc = "commit"]
    /\ UNCHANGED <<known, q_rd, q_wr, defer_inhibit, ing, count, ret, history, fails>>

\* The slot at q_wr is filled ...
PushFill(t) ==
    /\ snd[t].pc = "fill"
    /\ ip_defer_queue' = [ip_defer_queue EXCEPT ![q_wr] =
                             [id |-> snd[t].id, dst |-> snd[t].dst, tries |-> 0]]
    /\ snd' = [snd EXCEPT ![t].pc = "commit"]
    /\ UNCHANGED <<known, q_rd, q_wr, defer_inhibit, ing, count, ret, history, fails>>

\* ... and q_wr is set to the index computed at the beginning.
PushCommit(t) ==
    /\ snd[t].pc = "commit"
    /\ q_wr' = snd[t].next
    /\ Returns(t, snd[t].id, "deferred")
    /\ raced' = (raced \/ \E s \in Senders \ {t} : snd[s] # Idle)
    /\ UNCHANGED <<known, ip_defer_queue, q_rd, defer_inhibit, ing, count, wire, handled, early,
                   budget, fails>>

Push(t) == PushInhibit(t) \/ PushFull(t) \/ PushFill(t) \/ PushCommit(t)

IpSend(t) ==
    \/ IpSendNoRoute(t) \/ IpSendNow(t) \/ IpSendFails(t) \/ IpSendRequestFails(t)
    \/ \E d \in Dsts : IpSendDefer(t, d)
-----------------------------------------------------------------------------
(* The ingress thread.                                                     *)

\* It is not busy with a frame or with a periodic task.
IngressIdle == ing = Idle /\ (Ingress \in Senders => snd[Ingress] = Idle)

\* A frame from d: the cache learns its address and may evict others.  After
\* an IP packet that is all, after an ARP message the handler runs.
IpInput(d) ==
    /\ IngressIdle
    /\ \E gone \in SUBSET (known \ {d}) : known' = (known \ gone) \cup ({d} \cap Routed)
    /\ UNCHANGED <<queueVars, snd, ing, count, ret, history, fails>>

ArpInput(d) ==
    /\ IngressIdle
    /\ \E gone \in SUBSET (known \ {d}) : known' = (known \ gone) \cup ({d} \cap Routed)
    /\ ing' = [pc |-> "start"]
    /\ UNCHANGED <<queueVars, snd, count, ret, history, fails>>

\* The periodic tasks: arp_cache_update(), and the handler.
PeriodicTasks ==
    /\ IngressIdle
    /\ known' \in SUBSET known
    /\ ing' = [pc |-> "start"]
    /\ UNCHANGED <<queueVars, snd, count, ret, history, fails>>

\* Pushes that have found the queue open.
Pushing == {t \in Senders : snd[t].pc \in {"full", "fill", "commit"}}

\* Mutant: the handler leaves the queue open.
HandlerStartOpen ==
    /\ ing.pc = "start"
    /\ ing' = [pc |-> "peek"]
    /\ budget' = ((q_wr - q_rd) % QLen) + Cardinality(Pushing)
    /\ UNCHANGED <<known, queueVars, snd, count, ret, wire, handled, early, raced, fails>>

HandlerStart ==
    /\ ing.pc = "start"
    /\ defer_inhibit' = TRUE
    /\ ing' = [pc |-> "peek"]
    /\ budget' = ((q_wr - q_rd) % QLen) + Cardinality(Pushing)
    /\ UNCHANGED <<known, ip_defer_queue, q_rd, q_wr, snd, count, ret, wire, handled, early, raced,
                   fails>>

\* ip_defer_peek(), and tries++ in the slot.
HandlerPeek ==
    /\ ing.pc = "peek" /\ q_rd # q_wr
    /\ ing' = [pc |-> "try", at |-> q_rd]
    /\ ip_defer_queue' = [ip_defer_queue EXCEPT ![q_rd].tries = @ + 1]
    /\ UNCHANGED <<known, q_rd, q_wr, defer_inhibit, snd, count, ret, history, fails>>

HandlerReturn ==
    /\ ing.pc = "peek" /\ q_rd = q_wr
    /\ defer_inhibit' = FALSE
    /\ ing' = Idle
    /\ UNCHANGED <<known, ip_defer_queue, q_rd, q_wr, snd, count, ret, history, fails>>

\* Too many tries, or ip_send().  When the address is still not known, ip_send()
\* is refused the push with -EALREADY and returns 0, like after a transmission.
\* Its -1 with EHOSTUNREACH, upon which the handler would keep the packet for
\* later, is for a missing route, and routes are never removed.  When ether_send()
\* fails, the packet is dropped all the same.
HandlerTry ==
    /\ ing.pc = "try"
    /\ \E broken \in BOOLEAN :
       LET pkt == ip_defer_queue[ing.at]
           send == pkt.tries <= 4 /\ pkt.dst \in known /\ ~broken
       IN  /\ wire' = IF send THEN Append(wire, pkt.id) ELSE wire
           /\ early' = IF ~send /\ pkt.tries <= 4 THEN early \cup {pkt.id} ELSE early
           /\ handled' = handled \cup {pkt.id}
    /\ ing' = [pc |-> "drop"]
    /\ UNCHANGED <<known, queueVars, snd, count, ret, raced, budget, fails>>

\* Mutant: the packet stays in the queue and the handler goes on to the next.
HandlerDropKeeps ==
    /\ ing.pc = "drop"
    /\ ing' = [pc |-> "peek"]
    /\ UNCHANGED <<known, queueVars, snd, count, ret, history, fails>>

\* ip_defer_drop()
HandlerDrop ==
    /\ ing.pc = "drop"
    /\ q_rd' = IF q_rd = q_wr THEN q_rd ELSE NextSlot(q_rd)
    /\ ing' = [pc |-> "peek"]
    /\ budget' = budget - 1
    /\ UNCHANGED <<known, ip_defer_queue, q_wr, defer_inhibit, snd, count, ret, wire, handled, early,
                   raced, fails>>

Handler == HandlerStart \/ HandlerPeek \/ HandlerReturn \/ HandlerTry \/ HandlerDrop

Next ==
    \/ \E t \in Senders : IpSend(t) \/ Push(t)
    \/ \E d \in Dsts : IpInput(d) \/ ArpInput(d)
    \/ PeriodicTasks \/ Handler

\* The threads are scheduled, and periodic events come for ever: as often as
\* the ingress thread is done with a frame it looks at the clock.
Fairness ==
    /\ \A t \in Senders : WF_vars(Push(t))
    /\ WF_vars(Handler) /\ SF_vars(PeriodicTasks)

Spec == Init /\ [][Next]_vars /\ Fairness
-----------------------------------------------------------------------------
\* The slots that hold packets.
Queued ==
    {i \in Slot : IF q_rd <= q_wr THEN i \in q_rd..(q_wr - 1) ELSE i >= q_rd \/ i < q_wr}

\* Types: a ring with its two indices, and every thread at an access to it.
TypeOK ==
    /\ known \subseteq Dsts
    /\ \A i \in Slot : ip_defer_queue[i].id \in 0..MaxPackets
    /\ q_rd \in Slot /\ q_wr \in Slot /\ defer_inhibit \in BOOLEAN
    /\ \A t \in Senders : snd[t].pc \in {"idle", "inhibit", "full", "fill", "commit"}
    /\ ing.pc \in {"idle", "start", "peek", "try", "drop"}
    /\ count \in 0..MaxPackets /\ fails \in 0..MaxFails
    /\ raced \in BOOLEAN /\ budget \in Int

\* No packet is sent twice, whatever threads are inside of ip_defer_push().
SentOnceOnly == \A i, j \in 1..Len(wire) : wire[i] = wire[j] => i = j

\* Of two packets in the queue the one with the lower number is older.
InOrder ==
    \A i, j \in Queued :
        (i - q_rd) % QLen < (j - q_rd) % QLen => ip_defer_queue[i].id < ip_defer_queue[j].id

\* No packet is sent twice: the handler, which resends what is in a slot, never
\* comes to the same packet again, and never to a slot that is being filled.  This
\* is so for any number of threads in ip_send(), and while several are inside of
\* ip_defer_push() at once, up to the first that sets q_wr with another one inside.
NeverSentTwice == raced \/ SentOnceOnly

\* Packets come out of the queue in the order in which ip_send() was called for
\* them, up to that moment.
QueueInOrder == raced \/ InOrder

\* The queue drains: a deferred packet leaves it, sent or dropped, although a
\* handler that finds the flag or the indices in motion may have to come again.
EveryDeferredLeaves ==
    \A p \in 1..MaxPackets :
        (\E i \in Queued : ip_defer_queue[i].id = p) ~> (p \in handled \/ raced)

\* The loop of ip_defer_handler() is bounded, and so is the time the ingress
\* thread receives nothing: it ends with the packets that were in the queue or
\* past the test of defer_inhibit at its beginning, however many are sent meanwhile.
HandlerBounded == raced \/ budget >= 0

\* "Return 0 to indicate a deferred operation" (ip_send()): what ip_send() says
\* it has deferred is in the queue, or was until the handler took it.
DeferredIsQueued ==
    \A p \in 1..MaxPackets :
        ret[p] = "deferred" =>
            p \in handled \/ \E i \in Queued : ip_defer_queue[i].id = p

\* "Drop the packet after couple of tries" (ip_defer_handler()): no packet is
\* dropped unsent on an earlier one.
DroppedAfterTries == early = {}
=============================================================================

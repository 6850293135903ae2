------------------------------ MODULE IpFragment -----------------------------
(***************************************************************************)
(* Reassembly of fragmented IP packets (src/ip_fragment.c), run by the     *)
(* ingress thread from ip_input().  A packet that is being put together    *)
(* has one of a few buffers; a bitmap says which of its blocks, the units  *)
(* of 8 bytes a fragment offset counts, have arrived.                      *)
(*                                                                         *)
(* The network (external) cuts a packet into fragments of FragBlocks       *)
(* blocks, delivers them in any order unless InOrder, and may lose or      *)
(* duplicate a few.  Packets have different identifications.               *)
(*                                                                         *)
(* A packet that is complete goes back into ip_input(); what the protocol  *)
(* answers is sent with ip_send(), which cuts it into fragments again      *)
(* (src/ip.c).  It finds the hardware address: ip_input() has just learned *)
(* it from the last fragment (HeardResolves of ArpCache).                  *)
(*                                                                         *)
(* ip_fragment_timer(), which would give buffers back after a while, is    *)
(* not registered as a periodic task and nothing else calls it: it is no   *)
(* action here.                                                            *)
(***************************************************************************)
EXTENDS Integers, Sequences, FiniteSets, SequencesExt

CONSTANTS NBuf,         \* entries of packet_buffer[]
          Packets,      \* identifications of packets
          Sizes,        \* payload of a packet, in blocks
          FragBlocks,   \* blocks in a fragment but the last
          MapCleared,   \* blocks whose bits fragmap_init() clears
          Hlen,         \* length of the IP header, in blocks
          Mtu,          \* ETHER_DATA_LEN, in blocks
          CutBlocks,    \* ip_off_round(mtu - hlen - 8), in blocks
          Echoes,       \* the packets that are echo requests
          Refused,      \* those for a port without a socket or another protocol
          InOrder,      \* fragments of a packet arrive in order
          MaxOpen,      \* bound: packets on their way at the same time
          MaxLost,      \* bound: fragments lost
          MaxDup,       \* bound: fragments duplicated
          None

Blocks == UNION {0..(n - 1) : n \in Sizes}

ASSUME FragmentAssumption ==
    /\ NBuf \in Nat \ {0} /\ FragBlocks \in Nat \ {0} /\ MapCleared \in Nat /\ Hlen \in Nat
    /\ Sizes \subseteq {n \in Nat : n > FragBlocks} /\ InOrder \in BOOLEAN
    /\ Mtu \in Nat /\ Mtu > Hlen /\ CutBlocks \in 1..(Mtu - Hlen) /\ Echoes \subseteq Packets
    /\ Refused \subseteq Packets \ Echoes
    /\ MaxOpen \in Nat /\ MaxLost \in Nat /\ MaxDup \in Nat /\ None \notin Packets

VARIABLES
    packet_buffer,  \* per buffer: reserved, the packet it is for, ip_len, the
                    \* bitmap, and which packet each block of payload is from;
                    \* it is in the tree when it is for a packet
    size,           \* size of each packet, 0 before it is sent
    flight,         \* fragments on their way: pairs of a packet and a number
    handed,         \* what ip_input() has been given, in order; for each of them
                    \* Reply() is what has been sent
    harm,           \* what has happened to packets: pairs of a packet and "lost",
                    \* "no buffer" or "overtaken" (its first fragment by its last)
    lost, dups      \* fragments lost and duplicated so far

vars == <<packet_buffer, size, flight, handed, harm, lost, dups>>

Buffers == 1..NBuf

\* The blocks from one offset up to another.
InMap(from, to) == {i \in Blocks : from <= i /\ i < to}

Init ==
    /\ packet_buffer = [b \in Buffers |->
          [reserved |-> FALSE, id |-> None, ip_len |-> 0, fragmap |-> {},
           payload |-> [i \in Blocks |-> None]]]
    /\ size = [d \in Packets |-> 0]
    /\ flight = {} /\ handed = <<>> /\ harm = {} /\ lost = 0 /\ dups = 0
-----------------------------------------------------------------------------
\* Fragment k of a packet: where it starts, where it ends, whether it is the
\* last (no IP_FLAGS_MF).
Off(k) == k * FragBlocks
End(d, k) == IF Off(k + 1) < size[d] THEN Off(k + 1) ELSE size[d]
IsLast(d, k) == End(d, k) = size[d]

\* The buffers a packet already has in the tree, and the free ones.
Found(d) == {b \in Buffers : packet_buffer[b].id = d}
Free == {b \in Buffers : ~packet_buffer[b].reserved}

\* Mutant: a new buffer keeps its bitmap.
AllocatedDirty(b, d) ==
    [packet_buffer[b] EXCEPT !.reserved = TRUE, !.id = d, !.ip_len = 0]

\* A new buffer.  fragmap_init() clears FRAG_MAP_SIZE bytes, which is the number
\* of 32-bit words of the map: its first quarter.
Allocated(b, d) ==
    [packet_buffer[b] EXCEPT !.reserved = TRUE, !.id = d, !.ip_len = 0,
                             !.fragmap = @ \ InMap(0, MapCleared)]

\* Mutant: the packet's buffer is not looked for.
GetPacketBufferFresh(d) ==
    IF Free = {} THEN None ELSE CHOOSE b \in Free : \A c \in Free : b <= c

\* get_packet_buffer(): the packet's buffer, or the first free one.
GetPacketBuffer(d) ==
    IF Found(d) # {} THEN CHOOSE b \in Found(d) : TRUE
    ELSE IF Free = {} THEN None ELSE CHOOSE b \in Free : \A c \in Free : b <= c

\* The fragment goes into the buffer.  The first one takes the length of the
\* packet back to unknown, the last one sets it.
WithFragment(p, d, k) ==
    [p EXCEPT !.payload = [i \in Blocks |-> IF i \in InMap(Off(k), End(d, k)) THEN d ELSE @[i]],
              !.fragmap = @ \cup InMap(Off(k), End(d, k)),
              !.ip_len = IF k = 0 THEN 0 ELSE IF IsLast(d, k) THEN End(d, k) ELSE @]

\* Mutant: one block more than the packet has is waited for.
CompleteOneMore(p) == p.ip_len # 0 /\ InMap(0, p.ip_len + 1) \subseteq p.fragmap

Complete(p) == p.ip_len # 0 /\ InMap(0, p.ip_len) \subseteq p.fragmap

\* release_packet_buffer()
Released(p) == [p EXCEPT !.reserved = FALSE, !.id = None]

\* ip_input(NULL, ...): the length it is given leaves out the header, which it
\* takes off again before it calls the protocol.
Handed(p) ==
    [id |-> p.id, ip_len |-> p.ip_len, bsize |-> p.ip_len - Hlen,
     payload |-> [i \in 0..(p.ip_len - 1) |-> p.payload[i]]]

\* next_fragment_size()
NextFragmentSize(bytes) == IF bytes < CutBlocks THEN bytes ELSE CutBlocks

\* Mutant: the data are taken from behind the last fragment, not from the offset.
CutShifted(s, k) ==
    LET plen == NextFragmentSize(s.bytes)
        data == [i \in DOMAIN s.data |-> s.data[IF i < plen /\ k > 1 THEN i + plen ELSE i]]
    IN  [data |-> data, bytes |-> s.bytes - plen, offset |-> s.offset + plen,
         sent |-> Append(s.sent, [off |-> s.offset, mf |-> s.bytes # plen,
                                  blocks |-> [i \in 0..(plen - 1) |-> data[i]]])]

\* A turn of the loop of ip_send_fragments(): the next fragment is moved to the
\* front of the buffer, over those that have been sent, and leaves from there.
Cut(s, k) ==
    LET plen == NextFragmentSize(s.bytes)
        data == [i \in DOMAIN s.data |-> s.data[IF i < plen THEN i + s.offset ELSE i]]
    IN  [data |-> data, bytes |-> s.bytes - plen, offset |-> s.offset + plen,
         sent |-> Append(s.sent, [off |-> s.offset, mf |-> s.bytes # plen,
                                  blocks |-> [i \in 0..(plen - 1) |-> data[i]]])]

\* What is left after k turns of it.
Turns(data, n) ==
    LET after[k \in 0..n] ==
            IF k = 0 THEN [data |-> data, bytes |-> n, offset |-> 0, sent |-> <<>>]
            ELSE LET s == after[k - 1] IN IF s.bytes > 0 THEN Cut(s, k) ELSE s
    IN  after

SendFragments(data, n) == Turns(data, n)[n].sent

\* ip_send() of n blocks.  What is above the MTU only with its header is not cut,
\* and ether_send() refuses it.
IpSend(data, n) ==
    IF n > Mtu THEN SendFragments(data, n)
    ELSE IF Hlen + n > Mtu THEN <<>>
    ELSE << [off |-> 0, mf |-> FALSE, blocks |-> data] >>

\* The message that a packet was refused: 108 bytes of the buffer, which fit a frame.
Unreachable(d) == [off |-> 0, mf |-> FALSE, blocks |-> [i \in {0} |-> <<d, "unreachable">>]]

\* What is sent for a packet.  The reply to an echo is as long as what ICMP was
\* given and a header, so as long as the request.  For a packet that a protocol
\* takes without an answer nothing is sent: its header is turned to network order
\* once too often, and has no route.
Reply(h) ==
    IF h.id \in Echoes
      THEN IpSend([i \in DOMAIN h.payload |-> <<h.payload[i], i>>], h.bsize + Hlen)
      ELSE IF h.id \in Refused THEN << Unreachable(h.id) >> ELSE <<>>

\* ip_fragment_input().  Without a buffer the fragment is dropped.
FragmentInput(d, k) ==
    LET b == GetPacketBuffer(d)
    IN  IF b = None
          THEN UNCHANGED <<packet_buffer, handed>>
          ELSE LET new == IF b \in Found(d) THEN packet_buffer[b] ELSE Allocated(b, d)
                   p == WithFragment(new, d, k)
               IN  IF Complete(p)
                     THEN /\ handed' = Append(handed, Handed(p))
                          /\ packet_buffer' = [packet_buffer EXCEPT ![b] = Released(p)]
                     ELSE /\ packet_buffer' = [packet_buffer EXCEPT ![b] = p]
                          /\ UNCHANGED handed
-----------------------------------------------------------------------------
\* The packets of which a fragment is on its way.
OnTheWay == {f[1] : f \in flight}

Send(d, n) ==
    /\ size[d] = 0 /\ Cardinality(OnTheWay) < MaxOpen
    /\ size' = [size EXCEPT ![d] = n]
    /\ flight' = flight \cup {<<d, k>> : k \in {j \in 0..n : Off(j) < n}}
    /\ UNCHANGED <<packet_buffer, handed, harm, lost, dups>>

\* For the properties: a fragment that finds no buffer, or that comes first in
\* its packet and last in time.
NoteHarm(d, k) ==
    harm' = harm \cup (IF GetPacketBuffer(d) = None THEN {<<d, "no buffer">>} ELSE {})
                 \cup {<<d, "overtaken">> : b \in {c \in Found(d) : k = 0 /\ packet_buffer[c].ip_len # 0}}

MayArrive(d, k) == <<d, k>> \in flight /\ (InOrder => \A j \in 0..(k - 1) : <<d, j>> \notin flight)

Arrive(d, k) ==
    /\ MayArrive(d, k)
    /\ FragmentInput(d, k) /\ NoteHarm(d, k)
    /\ flight' = flight \ {<<d, k>>}
    /\ UNCHANGED <<size, lost, dups>>

Duplicate(d, k) ==
    /\ MayArrive(d, k) /\ dups < MaxDup
    /\ FragmentInput(d, k) /\ NoteHarm(d, k)
    /\ dups' = dups + 1
    /\ UNCHANGED <<size, flight, lost>>

Lose(d, k) ==
    /\ <<d, k>> \in flight /\ lost < MaxLost
    /\ flight' = flight \ {<<d, k>>}
    /\ lost' = lost + 1
    /\ harm' = harm \cup {<<d, "lost">>}
    /\ UNCHANGED <<packet_buffer, size, handed, dups>>

Next ==
    \E d \in Packets :
        \/ \E n \in Sizes : Send(d, n)
        \/ \E k \in 0..Cardinality(Blocks) : Arrive(d, k) \/ Duplicate(d, k) \/ Lose(d, k)

\* The network delivers what it does not lose, and the ingress thread takes it.
Fairness == WF_vars(\E f \in flight : Arrive(f[1], f[2]))

Spec == Init /\ [][Next]_vars /\ Fairness
-----------------------------------------------------------------------------
\* Types: a buffer in use is for a packet and knows its length or does not.
TypeOK ==
    \A b \in Buffers :
        LET p == packet_buffer[b]
        IN  /\ p.reserved <=> p.id \in Packets
            /\ p.ip_len \in 0..Cardinality(Blocks) /\ p.fragmap \subseteq Blocks

\* A packet that is handed on as reassembled is the packet that was sent: of
\* its full size, every block from one of its own fragments, and none left from
\* the packet that had the buffer before.
WholeOnly ==
    \A i \in 1..Len(handed) :
        LET h == handed[i]
        IN  h.ip_len = size[h.id] /\ \A j \in DOMAIN h.payload : h.payload[j] = h.id

\* A packet is put together in one buffer, and buffers of one packet are not
\* both in the tree: however fragments of several packets are interleaved,
\* duplicated or arrive after their packet was complete.
OneBufferPerPacket == \A d \in Packets : Cardinality(Found(d)) <= 1

\* Packets that have arrived, except for those that have come to some harm.
HandedOnUnless(causes) ==
    \A d \in Packets :
        size[d] > 0 /\ d \notin OnTheWay /\ (\A c \in causes : <<d, c>> \notin harm)
            => \E i \in 1..Len(handed) : handed[i].id = d

\* A packet is handed on as soon as its last missing fragment arrives, in any
\* order in which the first fragment does not follow the last: a duplicate, the
\* fragments of other packets and a buffer used before do not get in the way.
ArrivedIsHandedOn == HandedOnUnless({"lost", "no buffer", "overtaken"})

\* The same for every order in which the fragments of a packet may arrive.
AnyOrderIsHandedOn == HandedOnUnless({"lost", "no buffer"})

\* A buffer that is reserved is given back in the end: the reassembly timer of
\* config.h, started when a buffer is allocated, ends what does not complete.
BuffersComeBack ==
    \A b \in Buffers : packet_buffer[b].reserved ~> ~packet_buffer[b].reserved

\* The protocol is given all of the packet's payload.
PayloadNotCut == \A i \in 1..Len(handed) : handed[i].bsize = size[handed[i].id]

\* The fragments of a reply are what a receiver needs to put the request's data
\* together again: one after the other up to the end, each block once and where it
\* was, all but the last marked with IP_FLAGS_MF.
PutsTogether(frags, d) ==
    LET Behind(f) == f.off + Cardinality(DOMAIN f.blocks)
    IN  /\ frags # <<>> /\ Behind(frags[Len(frags)]) = size[d]
        /\ \A i \in 1..Len(frags) :
              /\ \A j \in DOMAIN frags[i].blocks : frags[i].blocks[j] = <<d, frags[i].off + j>>
              /\ frags[i].off = IF i = 1 THEN 0 ELSE Behind(frags[i - 1])
              /\ frags[i].mf <=> i < Len(frags)
              /\ Hlen + Cardinality(DOMAIN frags[i].blocks) <= Mtu

\* An echo request that came in fragments goes back whole, although its data are
\* moved about in the buffer while they are cut, and although both the length
\* ip_input() is given and the one ip_send() is given differ from the data's.
EchoComesBack ==
    \A i \in 1..Len(handed) :
        LET d == handed[i].id
        IN  d \in Echoes /\ (size[d] <= Mtu - Hlen \/ size[d] > Mtu) => PutsTogether(Reply(handed[i]), d)

\* The same for every size.
EveryEchoComesBack ==
    \A i \in 1..Len(handed) :
        handed[i].id \in Echoes => PutsTogether(Reply(handed[i]), handed[i].id)
=============================================================================

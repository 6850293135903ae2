----------------------------- MODULE PacketPath ------------------------------
(***************************************************************************)
(* What happens to a frame in the ingress thread, from ether_receive() to  *)
(* ether_output_reply(): the protocol handlers of src/ether.c, src/arp.c,  *)
(* src/ip.c, src/icmp.c and src/udp.c work on it in the receive buffer,    *)
(* and what they leave there is the reply.  On the way they fill the ARP   *)
(* cache (ArpCache), from which nstack_udp_send() and the packets deferred *)
(* by ip_send() take the hardware address.                                 *)
(*                                                                         *)
(* A step is a whole handler; how the threads interleave inside ip_send()  *)
(* and the deferred queue is in IpOutput, what TCP answers is in Tcp, what *)
(* becomes of a fragment in IpFragment.                                    *)
(*                                                                         *)
(* A packet says of its header whether it is in network order, where the   *)
(* data after it begins, and whether its checksums are those of what it    *)
(* holds.  Sizes are in bytes.  ip_input() hands its protocols the size of *)
(* the data as a size_t, which wraps around when the header is longer than *)
(* the packet: whoever touches all of the data then leaves the buffer, and *)
(* the process ends there (fault).                                         *)
(***************************************************************************)
EXTENDS ArpCache, FiniteSetsExt

CONSTANTS IpFrames,     \* frames with an IP packet that may be received
          ArpFrames,    \* frames with an ARP message that may be received
          Ports,        \* ports of the UDP sockets: nstack_init() has bound each
                        \* to Own, and exits when two are the same
          DeferMax,     \* packets the deferred queue can hold
          SizeMod       \* 2^64, the values of a size_t

\* What a packet says of its header and of what follows it (struct ip_hdr).
Fields == {"order", "v4", "hlen", "at", "len", "src", "dst", "frag",
           "proto", "what", "ports", "summed"}

\* No other host sends under this host's address; a host may send under several
\* hardware addresses, and several hosts under one.  A packet comes in network
\* order, its data behind a header that is not too short; nothing else is
\* assumed of it, neither right checksums nor a header shorter than the packet.
ASSUME FrameAssumption ==
    /\ SizeMod \in Nat /\ IpFrames \cap ArpFrames = {} /\ None \notin ArpFrames \cup IpFrames
    /\ \A f \in ArpFrames : f.spa \in Hosts \cup {None} /\ f.sha \in Macs
    /\ \A f \in IpFrames :
          /\ f.packet.src \in Hosts \cup {None} /\ f.h_src \in Macs
          /\ DOMAIN f.packet = Fields
          /\ f.bsize \in 0..(SizeMod - 1) /\ f.packet.hlen \in 0..(SizeMod - 1)
          /\ f.packet.order = "net" /\ f.packet.ports = "net"
          /\ f.packet.hlen >= 20 => f.packet.at = f.packet.hlen

VARIABLES
    deferred,   \* destinations of the packets ip_send() has deferred
    rx,         \* the frame in the receive buffer as it came
    tx,         \* frames sent since then
    dgram,      \* datagram put on the queue of a socket since then
    fault       \* a handler has run out of the buffer, and the process ended

vars == <<cacheVars, deferred, rx, tx, dgram, fault>>

Broadcast == "broadcast"
OwnMac == "own mac"

ETHER_HEADER_LEN == 14
ETHER_FCS_LEN == 4
ETHER_MINLEN == 60
ETHER_MAXLEN == 1514
UDP_HDR == 8
ICMP_HDR == 8
TCP_HDR == 20
ICMP_DESTUNREAC == 36   \* sizeof(struct icmp_destunreac), its 8 bytes of data included

Init ==
    /\ CacheInit
    /\ deferred = <<>> /\ rx = None /\ tx = <<>> /\ dgram = None /\ fault = FALSE
-----------------------------------------------------------------------------
\* ip_ntoh() and ip_hton(): each turns the bytes of every field around.
Turned(p) == [p EXCEPT !.order = IF @ = "net" THEN "host" ELSE "net"]

\* ip_reply_header(); it returns the new ip_len.
IpReplyHeader(p, n) ==
    Turned([p EXCEPT !.src = p.dst, !.dst = p.src, !.len = n + p.hlen])

\* ether_send(): nothing leaves when it is too long.
EtherSend(to, bsize, p) ==
    IF ETHER_HEADER_LEN + Max({bsize, ETHER_MINLEN - ETHER_FCS_LEN}) + ETHER_FCS_LEN
          > ETHER_MAXLEN + ETHER_FCS_LEN
      THEN <<>>
      ELSE << [h_dst |-> to, bytes |-> bsize, packet |-> p] >>

EtherOutputReply(f, bsize, p) == EtherSend(f.h_src, bsize, p)

\* Bytes after the IP header, as a size_t.
DataSize(f) == (f.bsize - f.packet.hlen) % SizeMod

\* There are that many in the packet.
InPacket(f) == DataSize(f) <= f.bsize

\* icmp_generate_dest_unreachable(): the message is where the data was, behind
\* a header that is declared to be 20 bytes long; the checksum is that of the
\* message before the old header is in it; the size of the message is counted twice.
DestUnreachable(f, p, code) ==
    LET size == ICMP_DESTUNREAC + Min({8, DataSize(f)})
        reply == IpReplyHeader([p EXCEPT !.hlen = 20, !.proto = "icmp", !.what = code,
                                         !.summed = FALSE], size)
    IN  EtherOutputReply(f, size + reply.len, reply)
-----------------------------------------------------------------------------
\* The sender of a frame enters the cache, unless its address is 0.
Learn(ip, mac) ==
    \/ ip = None /\ UNCHANGED cacheVars
    \/ ip # None /\ Insert(ip, mac)

ArpRequest(ip) == [h_dst |-> Broadcast, bytes |-> 28, packet |-> [oper |-> "request", tpa |-> ip]]

\* ip_send() of one packet, with a route: the packet leaves, or an ARP request.
SentTo(ip) ==
    IF Resolves(ip)
      THEN [h_dst |-> arp_cache[CHOOSE i \in Entries(ip) : TRUE].haddr, bytes |-> 56,
            packet |-> [order |-> "net", src |-> Own, dst |-> ip]]
      ELSE ArpRequest(ip)

Sending == [ip \in Hosts |-> SentTo(ip)]

\* Mutant: the handler runs before the sender is in the cache.
HandleDeferredEarly(reply) ==
    /\ deferred' = <<>>
    /\ tx' = [i \in DOMAIN deferred |-> Sending[deferred[i]]] \o reply

\* ip_defer_handler(), after the cache has changed, and then a reply.  It is not
\* told whether a packet had to be deferred again, and takes every one off the queue.
HandleDeferred(reply) ==
    /\ deferred' = <<>>
    /\ tx' = [i \in DOMAIN deferred |-> Sending'[deferred[i]]] \o reply
-----------------------------------------------------------------------------
\* arp_input().  A request for the own address is answered in place.
ArpInput(f) ==
    /\ f \in ArpFrames
    /\ Learn(f.spa, f.sha)
    /\ HandleDeferred(IF f.oper = "request" /\ f.tpa = Own
                        THEN EtherOutputReply(f, f.bsize,
                                [oper |-> "reply", sha |-> OwnMac, spa |-> Own,
                                 tha |-> f.sha, tpa |-> f.spa])
                        ELSE <<>>)
    /\ rx' = f /\ dgram' = None

\* The header checks of ip_input().
Valid(f) == f.packet.v4 /\ f.packet.hlen >= 20 /\ f.packet.len = f.bsize

\* ip_input(), as far as it is the same for all packets: an invalid one leaves no
\* trace, the sender of any other is learned, also when it is not for this host.
IpInput(f, reply, delivered) ==
    /\ Valid(f)
    /\ Learn(f.packet.src, f.h_src)
    /\ rx' = f /\ tx' = reply /\ dgram' = delivered
    /\ UNCHANGED deferred

IpInvalid(f) ==
    /\ ~Valid(f)
    /\ rx' = f /\ tx' = <<>> /\ dgram' = None
    /\ UNCHANGED <<cacheVars, deferred>>

IpNotOwn(f) ==
    /\ f.packet.dst # Own
    /\ IpInput(f, DestUnreachable(f, Turned(f.packet), "host"), None)

\* Mutant: fragments are not told apart.
ForAnyPart(f, proto) == f.packet.dst = Own /\ f.packet.proto = proto

\* The packet is for this host, whole, and for this protocol.
For(f, proto) == f.packet.dst = Own /\ ~f.packet.frag /\ f.packet.proto = proto

\* To ip_fragment_input().
IpFragmented(f) ==
    /\ f.packet.dst = Own /\ f.packet.frag /\ InPacket(f)
    /\ IpInput(f, <<>>, None)

IpNoProto(f) ==
    /\ \A proto \in {"icmp", "udp", "tcp"} : ~For(f, proto)
    /\ f.packet.dst = Own /\ ~f.packet.frag
    /\ IpInput(f, DestUnreachable(f, Turned(f.packet), "proto"), None)

\* Mutant: the bytes of the protocol only are sent.
IpReplyCut(f, p, n) == EtherOutputReply(f, n, IpReplyHeader(p, n))

\* The reply of a protocol that leaves n bytes in the buffer.
IpReply(f, p, n) ==
    LET reply == IpReplyHeader(p, n) IN EtherOutputReply(f, reply.len, reply)

\* What a protocol makes of the packet it answers, with a checksum of its own.
Answer(f, what) == [Turned(f.packet) EXCEPT !.what = what, !.summed = TRUE]

\* icmp_input()
IcmpEcho(f) ==
    /\ For(f, "icmp") /\ DataSize(f) >= ICMP_HDR /\ InPacket(f) /\ f.packet.what = "echo"
    /\ IpInput(f, IpReply(f, Answer(f, "echo reply"), DataSize(f)), None)

IcmpOther(f) ==
    /\ For(f, "icmp") /\ (DataSize(f) < ICMP_HDR \/ f.packet.what # "echo")
    /\ IpInput(f, <<>>, None)

\* tcp_input(): a header to answer with, or nothing.
TcpAnswered(f) ==
    /\ For(f, "tcp") /\ DataSize(f) >= TCP_HDR
    /\ IpInput(f, IpReply(f, Answer(f, "segment"), TCP_HDR), None)

TcpSilent(f) ==
    /\ For(f, "tcp")
    /\ IpInput(f, <<>>, None)

\* find_udp_socket(), for an address of this host.
FindUdpSocket(port) == port \in Ports

\* udp_input()
UdpTooSmall(f) ==
    /\ For(f, "udp") /\ DataSize(f) < UDP_HDR
    /\ IpInput(f, <<>>, None)

UdpDelivered(f) ==
    /\ For(f, "udp") /\ DataSize(f) >= UDP_HDR /\ InPacket(f) /\ FindUdpSocket(f.packet.what)
    /\ IpInput(f, <<>>, [port |-> f.packet.what, src |-> f.packet.src,
                         size |-> DataSize(f) - UDP_HDR])

\* The ports in the buffer are in host order by now.
UdpNoSocket(f) ==
    /\ For(f, "udp") /\ DataSize(f) >= UDP_HDR /\ ~FindUdpSocket(f.packet.what)
    /\ IpInput(f, DestUnreachable(f, [Turned(f.packet) EXCEPT !.ports = "host"], "port"), None)

\* The size has wrapped around, so that no test found it too small: memcpy() in
\* ip_fragment_input() and nstack_sock_dgram_input(), which tcp_input() calls for
\* some segments, or ip_checksum() in icmp_input() do not come to an end.
IpOverrun(f) ==
    /\ ~InPacket(f) /\ f.packet.dst = Own
    /\ \/ f.packet.frag
       \/ For(f, "icmp") /\ f.packet.what = "echo"
       \/ For(f, "udp") /\ FindUdpSocket(f.packet.what)
       \/ For(f, "tcp")
    /\ IpInput(f, <<>>, None)
-----------------------------------------------------------------------------
\* nstack_udp_send() from the egress thread.  It computes a checksum of a header
\* and of a payload that is not filled in yet, and sends only when that is 0.
UdpSendNow(ip) ==
    /\ ~broken /\ Resolves(ip)
    /\ tx' = <<SentTo(ip)>> /\ rx' = None /\ dgram' = None
    /\ UNCHANGED <<cacheVars, deferred>>

UdpSendDeferred(ip) ==
    /\ ~broken /\ ~Resolves(ip) /\ Len(deferred) < DeferMax
    /\ deferred' = Append(deferred, ip)
    /\ tx' = <<SentTo(ip)>> /\ rx' = None /\ dgram' = None
    /\ UNCHANGED cacheVars

\* ENOBUFS, with the ARP request already out.
UdpSendNoBuffer(ip) ==
    /\ ~broken /\ ~Resolves(ip) /\ Len(deferred) = DeferMax
    /\ tx' = <<SentTo(ip)>> /\ rx' = None /\ dgram' = None
    /\ UNCHANGED <<cacheVars, deferred>>

UdpSendRefused ==
    /\ tx' = <<>> /\ rx' = None /\ dgram' = None
    /\ UNCHANGED <<cacheVars, deferred>>

\* run_periodic_tasks(): arp_cache_update(), then ip_defer_handler().
Periodic(delta) ==
    /\ Update(delta)
    /\ HandleDeferred(<<>>)
    /\ rx' = None /\ dgram' = None

\* ether_receive() skips the frames this host has sent itself.
EtherReceive(f) == ~broken /\ f.h_src # OwnMac

\* nstack_ingress_thread(): the frame goes to its protocol, by ether_input().
Receive(f) ==
    /\ EtherReceive(f)
    /\ \/ ArpInput(f)
       \/ f \in IpFrames /\ (IpInvalid(f) \/ IpNotOwn(f) \/ IpFragmented(f) \/ IpNoProto(f)
             \/ IcmpEcho(f) \/ IcmpOther(f) \/ TcpAnswered(f) \/ TcpSilent(f)
             \/ UdpTooSmall(f) \/ UdpDelivered(f) \/ UdpNoSocket(f))

Runs ==
    \/ \E f \in ArpFrames \cup IpFrames : Receive(f)
    \/ \E ip \in Hosts : UdpSendNow(ip) \/ UdpSendDeferred(ip) \/ UdpSendNoBuffer(ip)
    \/ UdpSendRefused
    \/ \E delta \in Deltas : Periodic(delta)

Faults == \E f \in IpFrames : EtherReceive(f) /\ IpOverrun(f)

Next ==
    /\ ~fault
    /\ \/ Runs /\ fault' = FALSE
       \/ Faults /\ fault' = TRUE

Spec == Init /\ [][Next]_vars
-----------------------------------------------------------------------------
\* The replies to an IP packet.
IpReplies == IF rx \in IpFrames THEN {tx[i] : i \in DOMAIN tx} ELSE {}

Unreachable(r) == r.packet.what \in {"host", "proto", "port"}

\* A packet as a receiver takes it: ip_len is what was sent, the data follow the
\* header, the checksum is right, the ports quoted are in network order, and it
\* is not marked as a fragment.
Returnable(r) ==
    /\ r.bytes = r.packet.len /\ r.packet.at = r.packet.hlen
    /\ r.packet.summed /\ r.packet.ports = "net" /\ ~r.packet.frag

\* Whatever handlers have worked on the buffer, the reply in it goes to the host
\* that sent the frame, from the address it had sent it to, with a header in
\* network order; and what ICMP and TCP answer there can be returned, also behind
\* a header with options.
RepliesGoBack ==
    \A r \in IpReplies :
        /\ r.h_dst = rx.h_src /\ r.packet.order = "net"
        /\ r.packet.dst = rx.packet.src /\ r.packet.src = rx.packet.dst
        /\ Unreachable(r) \/ Returnable(r)

\* icmp_generate_dest_unreachable() "will generate a directly returnable IP
\* packet" and "Returns the number of bytes written" (nstack_icmp.h).
UnreachableReturnable == \A r \in IpReplies : Unreachable(r) => Returnable(r)

\* A socket is given a datagram exactly when a whole one has come for its
\* address and port, with its sender and its size, and nothing of a packet whose
\* header is longer than itself, although udp_input() does not find it too small;
\* one for another port of this host is answered with an unreachable message.
DatagramsReachTheirSocket ==
    LET p == rx.packet
        whole == rx \in IpFrames /\ Valid(rx) /\ p.proto = "udp" /\ p.dst = Own /\ ~p.frag
                 /\ rx.bsize >= p.hlen + UDP_HDR
    IN  /\ whole /\ p.what \in Ports =>
             dgram = [port |-> p.what, src |-> p.src, size |-> rx.bsize - p.hlen - UDP_HDR]
        /\ whole /\ p.what \notin Ports => \E r \in IpReplies : r.packet.what = "port"
        /\ dgram # None => whole

\* ip_input() hands on no more data than there are: whatever header a packet has,
\* the handlers stay in the receive buffer.
StaysInBuffer == ~fault

\* "Check for deferred IP packet transmissions" (arp_input()): when a host that
\* packets wait for is heard by ARP, they all leave at once, to a hardware address
\* this host has claimed, and none of them stays behind.
AnswerSendsDeferred ==
    [][rx' \in ArpFrames /\ ~broken' =>
          \A i \in DOMAIN deferred : deferred[i] = rx'.spa =>
              /\ tx'[i].packet = [order |-> "net", src |-> Own, dst |-> rx'.spa]
              /\ <<rx'.spa, tx'[i].h_dst>> \in claims']_vars

\* The same, to the address the host has just announced.
AnswerSendsToAnnounced ==
    [][rx' \in ArpFrames /\ ~broken' =>
          \A i \in DOMAIN deferred : deferred[i] = rx'.spa => tx'[i].h_dst = rx'.sha]_vars
=============================================================================

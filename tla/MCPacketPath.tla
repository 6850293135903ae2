---------------------------- MODULE MCPacketPath ----------------------------
(***************************************************************************)
(* PacketPath on a cache smaller than the number of hosts.  Host A sends   *)
(* packets of every kind, B one of them, and all hosts send ARP messages.  *)
(***************************************************************************)
EXTENDS PacketPath

CONSTANTS A, B, MacA, MacB

Packet(src, dst, hlen, size, proto, what) ==
    [order |-> "net", v4 |-> TRUE, hlen |-> hlen, at |-> hlen, len |-> hlen + size,
     src |-> src, dst |-> dst, frag |-> FALSE, proto |-> proto, what |-> what,
     ports |-> "net", summed |-> TRUE]

Frame(mac, p) == [h_src |-> mac, bsize |-> p.len, packet |-> p]

\* Protocols with what is told apart in them: a port, or a type of message.
Kinds == {<<"icmp", "echo">>, <<"icmp", "other">>, <<"udp", 10>>, <<"udp", 11>>,
          <<"tcp", "segment">>, <<"sctp", "other">>}

Sound == {Packet(A, Own, 20, 20, k[1], k[2]) : k \in Kinds}
         \cup {Packet(A, Own, 24, 20, k[1], k[2]) : k \in {<<"icmp", "echo">>, <<"udp", 11>>}}
         \cup {Packet(A, Own, 20, 4, k[1], k[2]) : k \in {<<"icmp", "echo">>, <<"udp", 11>>}}

Whole == Packet(A, Own, 20, 20, "udp", 10)

\* A header of 60 bytes in a packet of 46.
Overlong == {Packet(A, Own, 60, -14, k[1], k[2]) : k \in Kinds}

\* In a frame padded to the minimal length, not of version 4, with a header too
\* short, to another host, a fragment, an echo request with a wrong checksum.
Odd == {[Frame(MacA, Whole) EXCEPT !.bsize = 46],
        Frame(MacA, [Whole EXCEPT !.v4 = FALSE]),
        Frame(MacA, [Whole EXCEPT !.hlen = 16]),
        Frame(MacA, [Whole EXCEPT !.dst = B]),
        Frame(MacA, [Whole EXCEPT !.frag = TRUE]),
        Frame(MacA, [Packet(A, Own, 60, -14, "udp", 10) EXCEPT !.frag = TRUE]),
        Frame(MacA, [Packet(A, Own, 20, 20, "icmp", "echo") EXCEPT !.summed = FALSE])}

MCIpFrames ==
    {Frame(MacA, p) : p \in Sound \cup Overlong} \cup Odd
        \cup {Frame(MacB, Packet(B, Own, 20, 20, "icmp", "echo"))}

Arp(ip, mac, oper, tpa) ==
    [h_src |-> mac, bsize |-> 28, spa |-> ip, sha |-> mac, oper |-> oper, tpa |-> tpa]

\* Answers of every host; questions for this host, also from one that has no
\* address yet; a question for another host.  B is heard with both addresses.
MCArpFrames ==
    {Arp(ip, MacA, "reply", Own) : ip \in Hosts}
        \cup {Arp(ip, MacB, "request", Own) : ip \in {B, None}}
        \cup {Arp(B, MacB, "request", A)}
=============================================================================

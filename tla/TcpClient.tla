------------------------------ MODULE TcpClient ------------------------------
(***************************************************************************)
(* nstack as the initiator, the way tests/tcptest.c uses it: an            *)
(* application sends datagrams on a stream socket, the first one opens the *)
(* connection, and the peer receives them as a stream.                     *)
(*                                                                         *)
(* The peer is an ordinary TCP (external) that keeps the connection open   *)
(* and sends nothing but acknowledgments.  Its port is open or   *)
(* closed, as PeerPorts says.  With Prompt the application waits between   *)
(* two datagrams, as the test program does for ten seconds, longer than it *)
(* takes to have the last one acknowledged.                                *)
(***************************************************************************)
EXTENDS Tcp

CONSTANTS PeerISN,       \* the peer's initial sequence number
          PeerPorts,     \* whether the peer's port is open: "listen", "closed"
          MaxSend        \* bound: datagrams the application sends

ASSUME PeerAssumption ==
    PeerISN \in Seq32 /\ PeerPorts \subseteq {"listen", "closed"} /\ MaxSend \in Nat \ {0}

VARIABLES peer,   \* its state, the number it expects and what it has received
          sent    \* datagrams the egress thread has taken, numbered from 1

vars == <<tcpVars, peer, sent>>

Init ==
    /\ TcpInit /\ bound
    /\ peer \in [st : PeerPorts, rcv : {0}, got : {<<>>}]
    /\ sent = 0

\* The datagram before has been dealt with, as far as it ever will be.
Settled ==
    /\ toPeer = <<>> /\ toStack = <<>> /\ rx = Idle /\ tm = Idle
    /\ conn # NoConn => ~(conn.rexmt /\ conn.unsent \o conn.unacked # <<>>)

\* The egress thread takes the next datagram off the socket's egress ring.
AppSend ==
    /\ sent < MaxSend /\ (Prompt => Settled)
    /\ sent' = sent + 1
    /\ SendConnect(sent + 1) \/ SendQueue(sent + 1) \/ SendRefused(sent + 1)
    /\ UNCHANGED peer
-----------------------------------------------------------------------------
stackIdle == <<conn, mutex, bound, rx, eg, tm, app, isns, counters, undef>>

PeerReply(flags, seq, ack) == toStack' = Append(toStack, Segment(flags, seq, ack, NoData))

\* A closed port answers everything with a RST.
PeerRefuses(s) ==
    /\ peer.st = "closed"
    /\ IF "ACK" \in s.flags THEN PeerReply({"RST"}, s.ack, 0)
                            ELSE PeerReply({"RST", "ACK"}, 0, Plus(s.seq, 1))
    /\ UNCHANGED peer

PeerAccepts(s) ==
    /\ peer.st = "listen" /\ "SYN" \in s.flags
    /\ peer' = [peer EXCEPT !.st = "syn_rcvd", !.rcv = Plus(s.seq, 1)]
    /\ PeerReply({"SYN", "ACK"}, PeerISN, Plus(s.seq, 1))

\* Another SYN: its own SYN again, or, once open, where it is.
PeerSynAgain(s) ==
    /\ peer.st \in {"syn_rcvd", "est"} /\ "SYN" \in s.flags
    /\ IF peer.st = "syn_rcvd" THEN PeerReply({"SYN", "ACK"}, PeerISN, peer.rcv)
                               ELSE PeerReply({"ACK"}, Plus(PeerISN, 1), peer.rcv)
    /\ UNCHANGED peer

\* The next payload is taken; any other is answered with the number expected.
PeerTakes(s) ==
    /\ peer.st \in {"syn_rcvd", "est"} /\ "SYN" \notin s.flags
    /\ LET next == s.data # NoData /\ s.seq = peer.rcv
           rcv == IF next THEN Plus(peer.rcv, 1) ELSE peer.rcv
       IN  /\ peer' = [peer EXCEPT !.rcv = rcv,
                                   !.got = IF next THEN Append(@, s.data) ELSE @,
                                   !.st = IF s.ack = Plus(PeerISN, 1) THEN "est" ELSE @]
           /\ IF s.data # NoData THEN PeerReply({"ACK"}, Plus(PeerISN, 1), rcv)
                                 ELSE UNCHANGED toStack

PeerRecv ==
    /\ toPeer # <<>> /\ toPeer' = Tail(toPeer)
    /\ LET s == Head(toPeer)
       IN  PeerRefuses(s) \/ PeerAccepts(s) \/ PeerSynAgain(s) \/ PeerTakes(s)
    /\ UNCHANGED <<stackIdle, sent>>
-----------------------------------------------------------------------------
StackStep == (Ingress \/ IngressStep \/ EgressStep \/ TimerStep) /\ UNCHANGED <<peer, sent>>

Next ==
    /\ ~undef
    /\ \/ AppSend \/ PeerRecv \/ StackStep
       \/ NetworkFault /\ UNCHANGED <<peer, sent>>

On(A) == ~undef /\ A /\ UNCHANGED <<peer, sent>>

\* Every thread keeps running, the network delivers, the peer answers.  The
\* timer thread ticks for ever, so a timer that stays armed is counted down, and
\* of the ticks it takes one is the last.
Fairness ==
    /\ WF_vars(On(Ingress)) /\ WF_vars(On(IngressStep)) /\ WF_vars(On(EgressStep))
    /\ WF_vars(On(RexmtPrepare \/ SendLock("timer") \/ SendSegment("timer")
                  \/ SendUnlock("timer") \/ RexmtStore \/ KeepStore \/ KeepExpires \/ RttStore))
    /\ SF_vars(On(RexmtLoad)) /\ SF_vars(On(RexmtExpires))
    /\ SF_vars(On(KeepLoad)) /\ SF_vars(On(KeepExpires))
    /\ WF_vars(~undef /\ PeerRecv)

Spec == Init /\ [][Next]_vars /\ Fairness
-----------------------------------------------------------------------------
\* Types: a control block in a state the code can reach here (a late SYN & ACK
\* may open a second, passive one), the three threads each at a point of the
\* code where it may be held up.  The mutex is held by a thread that is in the
\* loop of tcp_send_segments(), or was left locked when ip_send() failed there.
TypeOK ==
    /\ conn # NoConn =>
         /\ conn.state \in {"LISTEN", "SYN_RCVD", "SYN_SENT", "ESTABLISHED"}
         /\ ~conn.lists => conn.unsent \o conn.unacked = <<>>
         /\ {conn.recv_next, conn.send_next, conn.send_una, conn.send_max} \subseteq Seq32
    /\ rx.pc \in {"idle", "timed", "free", "rearm", "data"}
    /\ eg.pc \in {"idle", "stamp", "append", "lock", "send"}
    /\ tm.pc \in {"idle", "rexmt", "prepare", "lock", "send", "keep", "rtt"}
    /\ mutex \in {"free", "egress", "timer"}

\* The send mutex of a connection is held by a thread that is inside
\* tcp_send_segments(), unless ip_send() has failed in there (the early return
\* leaves it locked).
MutexNotLeaked == (mutex # "free" /\ ~At(mutex, "send")) => fails > 0

\* Reliable stream, sending side: what the peer receives are the datagrams in
\* the order the application sent them, none of them twice.
PeerInOrder == \A i \in 1..(Len(peer.got) - 1) : peer.got[i] < peer.got[i + 1]

\* A datagram is queued once: on the unsent list or on the unacked list, however
\* tcp_send_segments(), tcp_rexmt_prepare() and tcp_ack_segments() of the three
\* threads interleave.
SegmentOnce ==
    conn # NoConn =>
        LET all == conn.unsent \o conn.unacked
        IN  \A i, j \in 1..Len(all) : all[i] = all[j] => i = j

\* Reliable stream, sending side: what the application sends arrives.  Excused
\* is a datagram after a failed ip_send().
EveryDatagramArrives ==
    \A d \in 1..MaxSend :
        (sent >= d) ~> (fails > 0 \/ \E i \in 1..Len(peer.got) : peer.got[i] = d)

\* The same with a loss: a datagram that is on the segment lists of an open
\* connection, before the network has lost anything, arrives all the same.
OpenDataArrives ==
    \A d \in 1..MaxSend :
        (/\ faults = 0 /\ conn.state = "ESTABLISHED"
         /\ \E i \in 1..Len(conn.unsent) : conn.unsent[i] = d)
          ~> (fails > 0 \/ \E i \in 1..Len(peer.got) : peer.got[i] = d)

\* An acknowledgment that is accepted is one of something sent: send_una stays
\* at or below send_max.
UnaBelowMax == conn # NoConn => conn.send_una <= conn.send_max

\* A connection is open only when the peer has accepted it.
OpenIsAccepted == (conn.state = "ESTABLISHED") => peer.st \in {"syn_rcvd", "est"}

\* The connection-establishment timer takes down a connection that is being
\* opened, never one that is open.
KeepSparesOpen == [][conn.state = "ESTABLISHED" => conn'.state = "ESTABLISHED"]_vars
=============================================================================

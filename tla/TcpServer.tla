------------------------------ MODULE TcpServer ------------------------------
(***************************************************************************)
(* nstack as the responder, the way tests/tnetcat.c uses it: a peer opens  *)
(* a connection to it, sends a stream and closes.                          *)
(*                                                                         *)
(* The peer is an ordinary TCP (external).  It numbers the units of its    *)
(* stream, the SYN, each payload and the FIN, from 1: unit i has sequence  *)
(* number PeerISN + i - 1.  A payload it has more behind may be sent with  *)
(* or without PSH, the last one with a FIN always has it.  It retransmits  *)
(* its oldest unacknowledged unit, as it was sent.                         *)
(***************************************************************************)
EXTENDS Tcp

CONSTANTS PeerISN,     \* the peer's initial sequence number
          MaxData,     \* bound: payloads of the peer's stream
          MaxRexmts    \* bound: retransmissions by the peer

ASSUME PeerAssumption ==
    PeerISN \in Seq32 /\ MaxData \in Nat \ {0} /\ MaxRexmts \in Nat

VARIABLES
    peer,      \* its state; units acknowledged, units sent, the FIN's unit or 0, what
               \* it expects, units sent without PSH, whether it has retransmitted
               \* something while a segment was on its way or at work
    rexmts     \* retransmissions so far

vars == <<tcpVars, peer, rexmts>>

Init ==
    /\ TcpInit
    /\ peer = [st |-> "closed", una |-> 0, nxt |-> 0, fin |-> 0, rcv |-> 0,
               plain |-> {}, early |-> FALSE]
    /\ rexmts = 0

SeqOf(i) == Plus(PeerISN, i - 1)
PeerSegment(flags, i, data) == Segment(flags, SeqOf(i), peer.rcv, data)
PeerSends(s) == toStack' = Append(toStack, s)

DataFlags(plain, i) == IF i \in plain THEN {"ACK"} ELSE {"PSH", "ACK"}

\* Unit i on the wire.
Unit(i) ==
    CASE i = 1 -> Segment(IF peer.st = "syn_rcvd" THEN {"SYN", "ACK"} ELSE {"SYN"},
                          PeerISN, peer.rcv, NoData)
      [] i > 1 /\ i = peer.fin -> PeerSegment({"FIN", "ACK"}, i, NoData)
      [] OTHER -> PeerSegment(DataFlags(peer.plain, i), i, i - 1)

stackIdle == <<conn, mutex, bound, rx, eg, tm, app, isns, counters, undef>>

PeerConnect ==
    /\ peer.st = "closed"
    /\ peer' = [peer EXCEPT !.st = "syn_sent", !.nxt = 1]
    /\ PeerSends(Unit(1))
    /\ UNCHANGED <<stackIdle, toPeer, rexmts>>

PeerSend ==
    /\ peer.st = "est" /\ peer.fin = 0 /\ peer.nxt <= MaxData
    /\ \E plain \in {peer.plain, peer.plain \cup {peer.nxt + 1}} :
          /\ peer' = [peer EXCEPT !.nxt = @ + 1, !.plain = plain]
          /\ PeerSends(PeerSegment(DataFlags(plain, peer.nxt + 1), peer.nxt + 1, peer.nxt))
    /\ UNCHANGED <<stackIdle, toPeer, rexmts>>

PeerClose ==
    /\ peer.st = "est" /\ peer.fin = 0
    /\ peer' = [peer EXCEPT !.nxt = @ + 1, !.fin = peer.nxt + 1]
    /\ PeerSends(PeerSegment({"FIN", "ACK"}, peer.nxt + 1, NoData))
    /\ UNCHANGED <<stackIdle, toPeer, rexmts>>

\* The last payload and the FIN in one segment.
PeerSendAndClose ==
    /\ peer.st = "est" /\ peer.fin = 0 /\ peer.nxt <= MaxData
    /\ peer' = [peer EXCEPT !.nxt = @ + 2, !.fin = peer.nxt + 2]
    /\ PeerSends(PeerSegment({"PSH", "FIN", "ACK"}, peer.nxt + 1, peer.nxt))
    /\ UNCHANGED <<stackIdle, toPeer, rexmts>>

PeerAbort ==
    /\ peer.st = "est" /\ peer.fin = 0
    /\ peer' = [peer EXCEPT !.st = "aborted"]
    /\ PeerSends(PeerSegment({"RST", "ACK"}, peer.nxt + 1, NoData))
    /\ UNCHANGED <<stackIdle, toPeer, rexmts>>

\* Nothing is on its way, and the ingress thread waits for a segment.
NothingPending == toPeer = <<>> /\ toStack = <<>> /\ rx = Idle

PeerRexmt ==
    /\ peer.st \in {"syn_sent", "syn_rcvd", "est"}
    /\ peer.una < peer.nxt /\ rexmts < MaxRexmts /\ MayExpire
    /\ PeerSends(Unit(peer.una + 1))
    /\ rexmts' = rexmts + 1
    /\ peer' = [peer EXCEPT !.early = @ \/ ~NothingPending]
    /\ UNCHANGED <<stackIdle, toPeer>>

\* The units that an acknowledgment number acknowledges.
Acked(s) == {k \in (peer.una + 1)..peer.nxt : SeqOf(k + 1) = s.ack}

PeerRecvSynSent(s) ==
    /\ peer.st = "syn_sent"
    /\ \/ /\ {"SYN", "ACK"} \subseteq s.flags /\ Acked(s) # {}
          /\ peer' = [peer EXCEPT !.st = "est", !.una = 1, !.rcv = Plus(s.seq, 1)]
          /\ PeerSends(Segment({"ACK"}, SeqOf(2), Plus(s.seq, 1), NoData))
       \/ /\ "SYN" \in s.flags /\ "ACK" \notin s.flags
          /\ peer' = [peer EXCEPT !.st = "syn_rcvd", !.rcv = Plus(s.seq, 1)]
          /\ PeerSends(Segment({"SYN", "ACK"}, PeerISN, Plus(s.seq, 1), NoData))
       \/ /\ {"RST", "ACK"} \subseteq s.flags /\ Acked(s) # {}
          /\ peer' = [peer EXCEPT !.st = "refused"]
          /\ UNCHANGED toStack

\* A synchronized peer drops what does not acknowledge anything.  A SYN, or a
\* FIN that is not the next thing it expects, is answered with where it is.
PeerRecvEst(s) ==
    /\ peer.st = "est" /\ "ACK" \in s.flags /\ "RST" \notin s.flags
    /\ LET fin == "FIN" \in s.flags /\ s.seq = peer.rcv
           rcv == IF fin THEN Plus(peer.rcv, 1) ELSE peer.rcv
       IN  /\ peer' = [peer EXCEPT !.rcv = rcv,
                                   !.una = IF Acked(s) = {} THEN @
                                           ELSE CHOOSE k \in Acked(s) : TRUE]
           /\ IF s.flags \cap {"SYN", "FIN"} # {}
                THEN PeerSends(Segment({"ACK"}, SeqOf(peer.nxt + 1), rcv, NoData))
                ELSE UNCHANGED toStack

PeerIgnores(s) ==
    /\ \/ peer.st = "syn_sent" /\ s.flags \cap {"SYN", "RST"} = {}
       \/ peer.st = "syn_sent" /\ "ACK" \in s.flags /\ Acked(s) = {}
       \/ peer.st = "syn_rcvd"
       \/ peer.st = "est" /\ ("ACK" \notin s.flags \/ "RST" \in s.flags)
       \/ peer.st \in {"refused", "aborted"}
    /\ UNCHANGED <<peer, toStack>>

PeerRecv ==
    /\ toPeer # <<>> /\ toPeer' = Tail(toPeer)
    /\ LET s == Head(toPeer)
       IN  PeerRecvSynSent(s) \/ PeerRecvEst(s) \/ PeerIgnores(s)
    /\ UNCHANGED <<stackIdle, rexmts>>

PeerStep ==
    PeerConnect \/ PeerSend \/ PeerClose \/ PeerSendAndClose \/ PeerAbort \/ PeerRexmt \/ PeerRecv

Next ==
    /\ ~undef
    /\ \/ PeerStep
       \/ (Ingress \/ IngressStep \/ NetworkFault) /\ UNCHANGED <<peer, rexmts>>

\* The ingress thread and the peer keep running, and the network delivers.
Fairness == WF_vars(~undef /\ (Ingress \/ IngressStep) /\ UNCHANGED <<peer, rexmts>>)
            /\ WF_vars(~undef /\ PeerRecv) /\ WF_vars(~undef /\ PeerRexmt)

Spec == Init /\ [][Next]_vars /\ Fairness
-----------------------------------------------------------------------------
States == {"CLOSED", "LISTEN", "SYN_RCVD", "ESTABLISHED", "LAST_ACK"}

\* Types: the control block of tcp_new_connection() in a state tcp_fsm() can
\* reach on a passive open, with 32-bit sequence numbers, and the ingress
\* thread idle or inside tcp_ack_segments() and the data branch.
TypeOK ==
    /\ conn # NoConn =>
         /\ conn.state \in States
         /\ {conn.recv_next, conn.send_next, conn.send_una, conn.send_max} \subseteq Seq32
         /\ conn.unsent = <<>> /\ conn.unacked = <<>> /\ ~conn.rexmt /\ ~conn.keep
    /\ mutex = "free"
    /\ rx.pc \in {"idle", "free", "rearm", "data"}
    /\ rx # Idle => conn.state = "ESTABLISHED"
    /\ undef \in BOOLEAN

\* Reliable stream, receiving side: whatever the network loses, duplicates or
\* reorders, and whatever connections old segments open again, the application
\* gets the payloads of the peer's stream in order, each once, none missing in
\* between (the test of tcp_seqno against recv_next in TCP_ESTABLISHED).
AppGetsPrefix == app = [i \in 1..Len(app) |-> i]

\* A network without faults, and a peer that has not sent anything twice.
Quiet == faults = 0 /\ rexmts = 0

\* On a quiet network tcp_input() never hands tcp_fsm() a NULL connection: no
\* segment but a SYN arrives for a connection that is not there.
NoNullConnection == Quiet => ~undef

\* The same with stray segments: what is left over from a connection that is gone,
\* or comes back after it, is not taken to one that is not there.
StraySegmentHarmless == ~undef

\* Unless the peer gives up, the network is at fault, or the peer retransmits what
\* is still on its way or at work.  A segment that was dropped is no excuse: it is
\* retransmitted when nothing is pending any more.
Disturbed == peer.st = "aborted" \/ faults > 0 \/ peer.early

\* The peer has sent payload k.
HasSent(k) == peer.nxt > k /\ (peer.fin = 0 \/ peer.fin > k + 1)

\* What the peer has sent on an open connection reaches the application, as far as
\* it was sent with PSH, the payloads before it too (the test for PSH in
\* TCP_ESTABLISHED).
DataDelivered ==
    \A k \in 1..MaxData :
        (HasSent(k) /\ peer.plain \cap 2..(k + 1) = {})
            ~> (k \in {app[i] : i \in 1..Len(app)} \/ Disturbed)

\* The same for a payload sent without PSH, or after one.
PlainDataDelivered ==
    \A k \in 1..MaxData : HasSent(k) ~> (k \in {app[i] : i \in 1..Len(app)} \/ Disturbed)

\* The same when segments are lost, duplicated or overtaken.
DataDeliveredAlways ==
    \A k \in 1..MaxData :
        (HasSent(k) /\ peer.plain = {})
            ~> (k \in {app[i] : i \in 1..Len(app)} \/ peer.st = "aborted" \/ peer.plain # {})

\* A connection that the peer closes is removed from tcp_conn_map and freed: after
\* a FIN on its own or with data, in sequence or after data that was ignored.
ClosedConnFreed == (peer.fin > 0) ~> (conn = NoConn \/ Disturbed)
=============================================================================

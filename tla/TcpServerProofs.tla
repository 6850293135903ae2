--------------------------- MODULE TcpServerProofs ---------------------------
(***************************************************************************)
(* Proofs about a connection that nstack accepts (TcpServer), for any      *)
(* number of payloads and any sequence numbers: on a quiet network         *)
(* tcp_input() never hands tcp_fsm() a connection that is not there; and   *)
(* on one that loses segments and keeps their order the application gets   *)
(* the stream as it was sent.                                              *)
(*                                                                         *)
(* A connection passes through phases.  On a quiet network these are       *)
(* Before, Asked, Answered, and Refused or Open; with losses Silent,       *)
(* Knocking, Mute, Early and Late.  One lemma for each phase, or for each  *)
(* process in it, shows where a step leads.                                *)
(***************************************************************************)
EXTENDS TcpServer, TLAPS

\* A control block has all the fields of struct tcp_conn_tcb; one that has sent no
\* data has no segment timed.
IsConn(c) ==
    /\ DOMAIN c = {"state", "recv_next", "send_next", "send_una", "send_max", "unsent", "unacked",
                   "lists", "rtt", "rtt_cur_seq", "rtt_est", "rto", "rexmt", "keep"}
    /\ ~c.rtt

\* A sequence, of whatever it holds; where in it a flag is set.
IsSeq(q) == Len(q) \in Nat /\ q = [i \in 1..Len(q) |-> q[i]]
With(f, q) == {i \in 1..Len(q) : f \in q[i].flags}

\* Nothing has happened yet.
Before ==
    peer.st = "closed" /\ peer.una = 0 /\ conn = NoConn /\ toStack = <<>> /\ toPeer = <<>> /\ rx = Idle

\* The peer has sent its SYN and waits for the answer.
Opening == peer.st = "syn_sent" /\ peer.una = 0 /\ peer.nxt = 1 /\ rx = Idle

\* The SYN is on its way.
Asked ==
    /\ Opening /\ conn = NoConn /\ toPeer = <<>>
    /\ Len(toStack) = 1 /\ toStack[1].flags = {"SYN"} /\ toStack[1].seq = PeerISN

\* The answer is on its way: of a socket that listens, or of one that does not.
Answered ==
    /\ Opening /\ toStack = <<>> /\ Len(toPeer) = 1 /\ toPeer[1].ack = SeqOf(2)
    /\ \/ /\ toPeer[1].flags = {"SYN", "ACK"} /\ conn.state = "SYN_RCVD"
          /\ conn.recv_next = SeqOf(2) /\ conn.send_next = Plus(toPeer[1].seq, 1)
       \/ toPeer[1].flags = {"RST", "ACK"} /\ conn.state = "CLOSED"

\* The peer has got the RST.
Refused == peer.st = "refused" /\ conn.state = "CLOSED" /\ toStack = <<>> /\ rx = Idle

\* The connection is open for the peer.  The acknowledgment that opens it for
\* tcp_fsm() comes first; there is one FIN of the peer at most, the last thing it
\* sends, and one answer to it; when the connection has ended with the
\* acknowledgment of that answer, nothing is on its way to it any more.
Open ==
    /\ peer.st \in {"est", "aborted"}
    /\ conn.state \in {"SYN_RCVD", "ESTABLISHED", "LAST_ACK", "NONE"}
    /\ With("SYN", toStack) = {} /\ With("SYN", toPeer) = {}
    /\ rx # Idle => conn.state = "ESTABLISHED" /\ "SYN" \notin rx.seg.flags
    /\ conn.state = "SYN_RCVD" =>
          /\ toStack # <<>> /\ toStack[1].flags = {"ACK"}
          /\ toStack[1].seq = conn.recv_next /\ toStack[1].ack = conn.send_next
    /\ peer.fin = 0 =>
          /\ With("FIN", toStack) = {} /\ With("FIN", toPeer) = {}
          /\ rx # Idle => "FIN" \notin rx.seg.flags
          /\ conn.state \in {"SYN_RCVD", "ESTABLISHED"}
    /\ \A i \in With("FIN", toStack) :
          /\ i = Len(toStack) /\ With("FIN", toPeer) = {}
          /\ rx # Idle => "FIN" \notin rx.seg.flags
    /\ rx # Idle /\ "FIN" \in rx.seg.flags => toStack = <<>> /\ With("FIN", toPeer) = {}
    /\ \A i, j \in With("FIN", toPeer) : i = j
    /\ conn.state = "LAST_ACK" =>
          /\ Len(toStack) <= 1 /\ With("FIN", toStack) = {}
          /\ toStack # <<>> => With("FIN", toPeer) = {}
    /\ conn.state = "NONE" => toStack = <<>> /\ With("FIN", toPeer) = {}

\* What the variables hold.
Types ==
    /\ IsSeq(toStack) /\ IsSeq(toPeer) /\ eg = Idle /\ tm = Idle
    /\ DOMAIN peer = {"st", "una", "nxt", "fin", "rcv", "plain", "early"} /\ peer.nxt \in Nat
    /\ conn = NoConn \/ (IsConn(conn) /\ conn.state # "NONE")
    /\ rx = Idle \/ (DOMAIN rx = {"pc", "seg"} /\ rx.pc # "timed")

\* tcp_input() and the steps after it as they are when no segment is timed.
UntimedInput(s) == rx = Idle /\ (InputNoConn(s) \/ InputBadSyn(s) \/ Fsm(s))
UntimedStep == AckFree \/ AckRearm \/ EstablishedData \/ EstablishedFin \/ EstablishedOther

\* The inductive invariant: a quiet connection is in one of its phases.
QuietInv ==
    /\ faults \in Nat /\ rexmts \in Nat
    /\ Quiet => ~undef /\ Types /\ (Before \/ Asked \/ Answered \/ Refused \/ Open)

\* A sequence of any set is one.
LEMMA SeqIsSeq ==
    ASSUME NEW S, NEW r \in Seq(S)
    PROVE  IsSeq(r)
<1>1. Len(r) \in Nat /\ DOMAIN r = 1..Len(r)
  OBVIOUS
<1>2. r = [i \in DOMAIN r |-> r[i]]
  OBVIOUS
<1> QED
  BY <1>1, <1>2 DEF IsSeq

\* What Append does to it.
LEMMA SeqAppend ==
    ASSUME NEW q, IsSeq(q), NEW e
    PROVE  /\ IsSeq(Append(q, e)) /\ Len(Append(q, e)) = Len(q) + 1
           /\ \A i \in 1..Len(q) : Append(q, e)[i] = q[i]
           /\ Append(q, e)[Len(q) + 1] = e /\ Append(q, e) # <<>>
<1> DEFINE S == {q[i] : i \in 1..Len(q)} \cup {e}
<1>1. q \in Seq(S) /\ e \in S
  BY DEF IsSeq
<1> HIDE DEF S
<1>2. Append(q, e) \in Seq(S)
  BY <1>1
<1>3. IsSeq(Append(q, e))
  BY <1>2, SeqIsSeq
<1> QED
  BY <1>1, <1>3

\* What Tail and Head do to it.
LEMMA SeqTail ==
    ASSUME NEW q, IsSeq(q), q # <<>>
    PROVE  /\ IsSeq(Tail(q)) /\ Len(q) >= 1 /\ Len(Tail(q)) = Len(q) - 1
           /\ \A i \in 1..Len(Tail(q)) : Tail(q)[i] = q[i + 1]
           /\ Head(q) = q[1]
<1> DEFINE S == {q[i] : i \in 1..Len(q)}
<1>1. q \in Seq(S)
  BY DEF IsSeq
<1> HIDE DEF S
<1>2. Tail(q) \in Seq(S)
  BY <1>1
<1>3. IsSeq(Tail(q))
  BY <1>2, SeqIsSeq
<1> QED
  BY <1>1, <1>3

\* A sequence of one element.
LEMMA SeqSingle ==
    ASSUME NEW e
    PROVE  IsSeq(Append(<<>>, e)) /\ Len(Append(<<>>, e)) = 1 /\ Append(<<>>, e)[1] = e
  BY DEF IsSeq

\* A sequence of none.
LEMMA SeqEmpty ==
    ASSUME NEW q, IsSeq(q), Len(q) = 0
    PROVE  q = <<>>
  BY DEF IsSeq

\* Where a flag is set after another segment has been sent.
LEMMA WithAppend ==
    ASSUME NEW q, IsSeq(q), NEW e, NEW f
    PROVE  /\ f \notin e.flags => With(f, Append(q, e)) = With(f, q)
           /\ f \in e.flags => With(f, Append(q, e)) = With(f, q) \cup {Len(q) + 1}
<1> DEFINE r == Append(q, e)
<1>1. /\ Len(q) \in Nat /\ Len(r) = Len(q) + 1 /\ \A i \in 1..Len(q) : r[i] = q[i]
      /\ r[Len(q) + 1] = e
  BY SeqAppend DEF IsSeq
<1> HIDE DEF r
<1>2. \A i : i \in 1..Len(r) <=> i \in 1..Len(q) \/ i = Len(q) + 1
  BY <1>1
<1>3. \A i : i \in With(f, r) <=> i \in With(f, q) \/ (i = Len(q) + 1 /\ f \in e.flags)
  BY <1>1, <1>2 DEF With
<1> QED
  BY <1>3 DEF r

\* Where a flag is set after the first segment has been taken.
LEMMA WithTail ==
    ASSUME NEW q, IsSeq(q), q # <<>>, NEW f
    PROVE  /\ \A i \in With(f, Tail(q)) : i + 1 \in With(f, q) /\ i \in 1..Len(Tail(q))
           /\ f \in Head(q).flags <=> 1 \in With(f, q)
  BY SeqTail DEF With, IsSeq

\* tcp_rto_update() does not touch what tcp_fsm() decides by.
LEMMA RtoUpdateFields ==
    ASSUME NEW c, IsConn(c)
    PROVE  /\ IsConn(RtoUpdate(c)) /\ RtoUpdate(c).state = c.state
           /\ RtoUpdate(c).recv_next = c.recv_next /\ RtoUpdate(c).send_next = c.send_next
  BY DEF IsConn, RtoUpdate

\* No segment is timed on a connection that is only read from.
LEMMA InputUntimed ==
    ASSUME Types, NEW s, TcpInput(s)
    PROVE  UntimedInput(s)
<1>1. conn # NoConn => ~conn.rtt
  BY DEF Types, IsConn
<1>2. ~FsmTimed(s)
  BY <1>1 DEF FsmTimed, Timed
<1> QED
  BY <1>2 DEF TcpInput, UntimedInput

LEMMA StepUntimed ==
    ASSUME Types, IngressStep
    PROVE  UntimedStep
<1>1. rx.pc # "timed"
  BY DEF Types, Idle
<1> QED
  BY <1>1 DEF IngressStep, FsmAfterSample, UntimedStep

\* The first phase is Before.
LEMMA QuietInit == Init => QuietInv
<1> SUFFICES ASSUME Init PROVE QuietInv
  OBVIOUS
<1>1. IsSeq(<<>>)
  BY DEF IsSeq
<1> QED
  BY <1>1 DEF Init, TcpInit, QuietInv, Types, Before

\* What the steps of a phase may be.

\* The peer asks for a connection.
LEMMA BeforeStep ==
    ASSUME Types, Before, PeerConnect
    PROVE  Types' /\ Asked'
<1>1. /\ toStack' = Append(<<>>, Unit(1)) /\ toPeer' = <<>> /\ UNCHANGED <<conn, rx, eg, tm>>
      /\ peer' = [peer EXCEPT !.st = "syn_sent", !.nxt = 1]
  BY DEF Before, PeerConnect, PeerSends, stackIdle
<1>2. Unit(1).flags = {"SYN"} /\ Unit(1).seq = PeerISN
  BY DEF Unit, Before, Segment
<1>3. IsSeq(<<>>)
  BY DEF IsSeq
<1>4. IsSeq(toStack') /\ Len(toStack') = 1 /\ toStack'[1] = Unit(1)
  BY <1>1, SeqSingle, Zenon
<1> QED
  BY <1>1, <1>2, <1>3, <1>4 DEF Types, Before, Asked, Opening

\* tcp_fsm() answers with a SYN and ACK, or, without a socket, with a RST.
LEMMA AskedStep ==
    ASSUME Types, ~undef, Asked, Ingress, UNCHANGED <<peer, rexmts>>
    PROVE  Types' /\ Answered' /\ ~undef'
<1> DEFINE s == Head(toStack)
<1>1. toStack # <<>> /\ IsSeq(toStack) /\ Len(toStack) = 1
  BY DEF Ingress, Asked, Types
<1>2. s = toStack[1] /\ s.flags = {"SYN"} /\ s.seq = PeerISN /\ "SYN" \in s.flags
  BY <1>1, SeqTail DEF Asked
<1>3. IsSeq(toStack') /\ toStack' = <<>>
  <2>1. toStack' = Tail(toStack)
    BY DEF Ingress
  <2>2. IsSeq(toStack') /\ Len(toStack') = 0
    BY <1>1, <2>1, SeqTail
  <2> QED
    BY <2>2, SeqEmpty
<1>4. conn = NoConn /\ conn.state = "NONE" /\ toPeer = <<>>
  BY DEF Asked, NoConn
<1>5. UntimedInput(s)
  BY InputUntimed DEF Ingress
<1> HIDE DEF s
<1>6. FsmListenSyn(s)
  BY <1>2, <1>4, <1>5 DEF UntimedInput, Fsm, InputNoConn, InputBadSyn, FsmIgnore, FsmSynSent,
      FsmSynRcvdRst, FsmSynRcvdAck, FsmSynRcvdOther, FsmLastAck, FsmEstablished, Synchronized
<1>7. PICK isn \in ISNs :
         /\ conn' = [NewConn("LISTEN") EXCEPT !.state = IF bound THEN "SYN_RCVD" ELSE "CLOSED",
                                  !.recv_next = Plus(s.seq, 1), !.send_next = Plus(isn, 1)]
         /\ toPeer' = Append(toPeer, Segment(IF bound THEN s.flags \cup {"ACK"}
                               ELSE (s.flags \ {"SYN"}) \cup {"RST", "ACK"},
                      isn, Plus(s.seq, 1), NoData))
  BY <1>4, <1>6, Zenon DEF FsmListenSyn, Reply
<1>8. UNCHANGED <<undef, rx, eg, tm, peer>>
  BY <1>5, <1>6 DEF UntimedInput, FsmListenSyn, inputIdle, Reply, NoReply
<1> DEFINE r == Segment(IF bound THEN s.flags \cup {"ACK"}
                               ELSE (s.flags \ {"SYN"}) \cup {"RST", "ACK"},
                      isn, Plus(s.seq, 1), NoData)
<1>9. /\ r.flags = IF bound THEN {"SYN", "ACK"} ELSE {"RST", "ACK"}
      /\ r.seq = isn /\ r.ack = Plus(PeerISN, 1)
  BY <1>2 DEF Segment
<1>10. SeqOf(2) = Plus(PeerISN, 1)
  BY DEF SeqOf
<1> HIDE DEF r
<1>11. IsSeq(toPeer') /\ Len(toPeer') = 1 /\ toPeer'[1] = r
  BY <1>4, <1>7, SeqSingle, Zenon DEF r
<1>12. /\ IsConn(conn') /\ conn'.state = (IF bound THEN "SYN_RCVD" ELSE "CLOSED")
       /\ conn'.recv_next = Plus(PeerISN, 1) /\ conn'.send_next = Plus(isn, 1)
  BY <1>2, <1>7 DEF NewConn, IsConn
<1>13. Types'
  BY <1>3, <1>8, <1>11, <1>12 DEF Types
<1>14. Answered'
  BY <1>3, <1>8, <1>9, <1>10, <1>11, <1>12 DEF Asked, Answered, Opening
<1> QED
  BY <1>8, <1>13, <1>14

\* The peer takes the answer.
LEMMA AnsweredStep ==
    ASSUME Types, Answered, PeerRecv
    PROVE  Types' /\ (Refused' \/ Open')
<1> DEFINE s == Head(toPeer)
<1>1. toPeer # <<>> /\ IsSeq(toPeer) /\ Len(toPeer) = 1 /\ toPeer' = Tail(toPeer)
  BY DEF PeerRecv, Answered, Types
<1>2. s = toPeer[1] /\ s.ack = SeqOf(2)
  BY <1>1, SeqTail DEF Answered
<1>3. IsSeq(toPeer') /\ toPeer' = <<>>
  BY <1>1, SeqTail, SeqEmpty
<1>4. UNCHANGED <<conn, rx, eg, tm>> /\ peer.st = "syn_sent" /\ rx = Idle /\ toStack = <<>>
  BY DEF PeerRecv, stackIdle, Answered, Opening
<1>5. PeerRecvSynSent(s) \/ PeerRecvEst(s) \/ PeerIgnores(s)
  BY DEF PeerRecv
<1> HIDE DEF s
<1>6. Acked(s) # {}
  <2>1. 1 \in (peer.una + 1)..peer.nxt /\ 1 + 1 = 2
    BY DEF Answered, Opening
  <2> QED
    BY <1>2, <2>1 DEF Acked
<1>7. CASE s.flags = {"SYN", "ACK"}
  <2>1. /\ conn.state = "SYN_RCVD" /\ conn.recv_next = SeqOf(2)
        /\ conn.send_next = Plus(s.seq, 1)
    <3>1. "RST" \notin {"SYN", "ACK"} /\ "RST" \in {"RST", "ACK"}
      OBVIOUS
    <3>2. toPeer[1].flags # {"RST", "ACK"}
      BY <1>2, <1>7, <3>1, Zenon
    <3> QED
      BY <1>2, <3>2 DEF Answered
  <2>2. ~PeerRecvEst(s) /\ ~PeerIgnores(s)
    BY <1>4, <1>6, <1>7 DEF PeerRecvEst, PeerIgnores
  <2>3. /\ peer' = [peer EXCEPT !.st = "est", !.una = 1, !.rcv = Plus(s.seq, 1)]
        /\ toStack' = Append(toStack, Segment({"ACK"}, SeqOf(2), Plus(s.seq, 1), NoData))
    BY <1>5, <1>7, <2>2 DEF PeerRecvSynSent, PeerSends
  <2> DEFINE r == Segment({"ACK"}, SeqOf(2), Plus(s.seq, 1), NoData)
  <2>4. r.flags = {"ACK"} /\ r.seq = SeqOf(2) /\ r.ack = Plus(s.seq, 1)
    BY DEF Segment
  <2> HIDE DEF r
  <2>5. IsSeq(toStack') /\ Len(toStack') = 1 /\ toStack'[1] = r
    BY <1>4, <2>3, SeqSingle, Zenon DEF r
  <2>6. toStack' # <<>>
    BY <2>5
  <2>7. With("SYN", toStack') = {} /\ With("FIN", toStack') = {}
    BY <2>4, <2>5 DEF With
  <2>8. With("SYN", toPeer') = {} /\ With("FIN", toPeer') = {}
    BY <1>3 DEF With
  <2>9. Types'
    BY <1>3, <1>4, <2>3, <2>5 DEF Types
  <2>10. peer'.st = "est"
    BY <2>3 DEF Types
  <2>11. Open'
    BY <1>4, <2>1, <2>4, <2>5, <2>6, <2>7, <2>8, <2>10 DEF Open
  <2> QED
    BY <2>9, <2>11
<1>8. CASE s.flags = {"RST", "ACK"}
  <2>1. conn.state = "CLOSED"
    <3>1. "SYN" \notin {"RST", "ACK"} /\ "SYN" \in {"SYN", "ACK"}
      OBVIOUS
    <3>2. toPeer[1].flags # {"SYN", "ACK"}
      BY <1>2, <1>8, <3>1, Zenon
    <3> QED
      BY <3>2, Zenon DEF Answered
  <2>2. ~PeerRecvEst(s) /\ ~PeerIgnores(s)
    BY <1>4, <1>6, <1>8 DEF PeerRecvEst, PeerIgnores
  <2>3. peer' = [peer EXCEPT !.st = "refused"] /\ UNCHANGED toStack
    BY <1>5, <1>8, <2>2 DEF PeerRecvSynSent
  <2>4. Types'
    BY <1>3, <1>4, <2>3 DEF Types
  <2>5. Refused'
    BY <1>4, <2>1, <2>3 DEF Refused, Types
  <2> QED
    BY <2>4, <2>5
<1> QED
  BY <1>2, <1>7, <1>8 DEF Answered

\* After a RST nothing is sent any more.
LEMMA RefusedStep ==
    ASSUME Types, Refused, PeerRecv
    PROVE  Types' /\ Refused'
<1>1. toPeer # <<>> /\ toPeer' = Tail(toPeer) /\ UNCHANGED <<conn, rx, eg, tm>>
  BY DEF PeerRecv, stackIdle
<1>2. UNCHANGED <<peer, toStack>>
  BY DEF PeerRecv, Refused, PeerRecvSynSent, PeerRecvEst, PeerIgnores
<1>3. IsSeq(toPeer')
  BY <1>1, SeqTail DEF Types
<1> QED
  BY <1>1, <1>2, <1>3 DEF Types, Refused

\* The peer sends on the open connection; a FIN is the last thing it sends.
LEMMA OpenPeerSends ==
    ASSUME Types, Open, peer.st = "est", peer.fin = 0, NEW s, PeerSends(s),
           UNCHANGED <<stackIdle, toPeer>>, "SYN" \notin s.flags,
           DOMAIN peer' = DOMAIN peer, peer'.nxt \in Nat, peer'.st \in {"est", "aborted"},
           peer'.fin = 0 => "FIN" \notin s.flags
    PROVE  Types' /\ Open'
<1>1. toStack' = Append(toStack, s) /\ UNCHANGED <<conn, rx, eg, tm, toPeer>> /\ IsSeq(toStack)
  BY DEF PeerSends, stackIdle, Types
<1>2. /\ IsSeq(toStack') /\ Len(toStack') = Len(toStack) + 1 /\ toStack' # <<>>
      /\ \A i \in 1..Len(toStack) : toStack'[i] = toStack[i]
  BY <1>1, SeqAppend
<1>3. Types'
  BY <1>1, <1>2 DEF Types
<1>4. With("SYN", toStack') = {}
  BY <1>1, WithAppend DEF Open
<1>5. /\ "FIN" \notin s.flags => With("FIN", toStack') = {}
      /\ \A i \in With("FIN", toStack') : i = Len(toStack')
  BY <1>1, <1>2, WithAppend DEF Open
<1>6. conn.state = "SYN_RCVD" => toStack'[1] = toStack[1]
  <2>1. toStack # <<>> => Len(toStack) >= 1
    BY <1>1, SeqTail
  <2> QED
    BY <1>1, <1>2, <2>1 DEF Open, IsSeq
<1>7. conn.state \in {"SYN_RCVD", "ESTABLISHED"} /\ With("FIN", toPeer) = {}
      /\ (rx # Idle => "FIN" \notin rx.seg.flags)
  BY DEF Open
<1>8. Open'
  BY <1>1, <1>2, <1>4, <1>5, <1>6, <1>7 DEF Open
<1> QED
  BY <1>3, <1>8

\* The peer sends data or its FIN, or gives up.
LEMMA OpenPeerStep ==
    ASSUME Types, Open, PeerSend \/ PeerClose \/ PeerSendAndClose \/ PeerAbort
    PROVE  Types' /\ Open'
<1>1. peer.st = "est" /\ peer.fin = 0 /\ UNCHANGED <<stackIdle, toPeer>>
  BY DEF PeerSend, PeerClose, PeerSendAndClose, PeerAbort
<1>2. DOMAIN peer' = DOMAIN peer /\ peer'.nxt \in Nat /\ peer'.st \in {"est", "aborted"}
  <2> USE <1>1 DEF Types
  <2>1. CASE PeerSend
    <3>1. PICK plain : peer' = [peer EXCEPT !.nxt = @ + 1, !.plain = plain]
      BY <2>1, Zenon DEF PeerSend
    <3> QED
      BY <3>1
  <2>2. CASE PeerClose
    <3>1. peer' = [peer EXCEPT !.nxt = @ + 1, !.fin = peer.nxt + 1]
      BY <2>2 DEF PeerClose
    <3> QED
      BY <3>1
  <2>3. CASE PeerSendAndClose
    <3>1. peer' = [peer EXCEPT !.nxt = @ + 2, !.fin = peer.nxt + 2]
      BY <2>3 DEF PeerSendAndClose
    <3> QED
      BY <3>1
  <2>4. CASE PeerAbort
    <3>1. peer' = [peer EXCEPT !.st = "aborted"]
      BY <2>4 DEF PeerAbort
    <3> QED
      BY <3>1
  <2> QED
    BY <2>1, <2>2, <2>3, <2>4
<1>3. ASSUME NEW s, PeerSends(s), "SYN" \notin s.flags, peer'.fin = 0 => "FIN" \notin s.flags
      PROVE  Types' /\ Open'
  BY <1>1, <1>2, <1>3, OpenPeerSends, Zenon
<1>4. \A flags, i, data : PeerSegment(flags, i, data).flags = flags
  BY DEF PeerSegment, Segment
<1>5. CASE PeerSend
  <2>0. PICK plain : PeerSends(PeerSegment(DataFlags(plain, peer.nxt + 1), peer.nxt + 1, peer.nxt))
    BY <1>5, Zenon DEF PeerSend
  <2> DEFINE s == PeerSegment(DataFlags(plain, peer.nxt + 1), peer.nxt + 1, peer.nxt)
  <2>1. PeerSends(s)
    BY <2>0
  <2>2. "SYN" \notin s.flags /\ "FIN" \notin s.flags
    BY <1>4 DEF DataFlags
  <2> QED
    BY <1>3, <2>1, <2>2
<1>6. CASE PeerAbort
  <2> DEFINE s == PeerSegment({"RST", "ACK"}, peer.nxt + 1, NoData)
  <2>1. PeerSends(s)
    BY <1>6 DEF PeerAbort
  <2>2. "SYN" \notin s.flags /\ "FIN" \notin s.flags
    BY <1>4
  <2> QED
    BY <1>3, <2>1, <2>2
<1>7. CASE PeerClose
  <2> DEFINE s == PeerSegment({"FIN", "ACK"}, peer.nxt + 1, NoData)
  <2>1. PeerSends(s) /\ peer' = [peer EXCEPT !.nxt = @ + 1, !.fin = peer.nxt + 1]
    BY <1>7 DEF PeerClose
  <2>2. "SYN" \notin s.flags
    BY <1>4
  <2>3. peer'.fin # 0
    BY <2>1 DEF Types
  <2> QED
    BY <1>3, <2>1, <2>2, <2>3
<1>8. CASE PeerSendAndClose
  <2> DEFINE s == PeerSegment({"PSH", "FIN", "ACK"}, peer.nxt + 1, peer.nxt)
  <2>1. PeerSends(s) /\ peer' = [peer EXCEPT !.nxt = @ + 2, !.fin = peer.nxt + 2]
    BY <1>8 DEF PeerSendAndClose
  <2>2. "SYN" \notin s.flags
    BY <1>4
  <2>3. peer'.fin # 0
    BY <2>1 DEF Types
  <2> QED
    BY <1>3, <2>1, <2>2, <2>3
<1> QED
  BY <1>5, <1>6, <1>7, <1>8

\* The peer takes what nstack has sent: at most one FIN, which it acknowledges.
LEMMA OpenPeerRecv ==
    ASSUME Types, Open, PeerRecv
    PROVE  Types' /\ Open'
<1> DEFINE s == Head(toPeer)
<1>1. /\ toPeer # <<>> /\ IsSeq(toPeer) /\ IsSeq(toStack) /\ toPeer' = Tail(toPeer)
      /\ UNCHANGED <<conn, rx, eg, tm>>
  BY DEF PeerRecv, stackIdle, Types
<1>2. PeerRecvEst(s) \/ PeerIgnores(s)
  BY DEF PeerRecv, PeerRecvSynSent, Open
<1>3. IsSeq(toPeer') /\ "SYN" \notin s.flags /\ With("SYN", toPeer') = {}
  BY <1>1, SeqTail, WithTail DEF Open
<1>4. \A i \in With("FIN", toPeer') : i + 1 \in With("FIN", toPeer) /\ i \in Nat /\ i >= 1
  BY <1>1, SeqTail, WithTail
<1>5. "FIN" \in s.flags => With("FIN", toPeer') = {} /\ With("FIN", toPeer) # {}
  <2>1. "FIN" \in s.flags => 1 \in With("FIN", toPeer)
    BY <1>1, WithTail
  <2> QED
    BY <1>4, <2>1 DEF Open
<1>6. With("FIN", toPeer) = {} => With("FIN", toPeer') = {}
  BY <1>4
<1>7. \A i, j \in With("FIN", toPeer') : i = j
  BY <1>4 DEF Open
<1> HIDE DEF s
<1>8. CASE UNCHANGED <<peer, toStack>>
  <2>1. Types'
    BY <1>1, <1>3, <1>8 DEF Types
  <2>2. Open'
    BY <1>1, <1>3, <1>6, <1>7, <1>8 DEF Open
  <2> QED
    BY <2>1, <2>2
<1>9. CASE PeerRecvEst(s)
  <2>1. /\ DOMAIN peer' = DOMAIN peer /\ peer'.nxt = peer.nxt /\ peer'.st = peer.st
        /\ peer'.fin = peer.fin
    BY <1>9 DEF PeerRecvEst, Types
  <2>2. CASE UNCHANGED toStack
    <3>1. Types'
      BY <1>1, <1>3, <2>1, <2>2 DEF Types
    <3>2. Open'
      BY <1>1, <1>3, <1>6, <1>7, <2>1, <2>2 DEF Open
    <3> QED
      BY <3>1, <3>2
  <2>3. ASSUME NEW r, PeerSends(r), r.flags = {"ACK"}, "FIN" \in s.flags PROVE Types' /\ Open'
    <3>1. toStack' = Append(toStack, r) /\ "SYN" \notin r.flags /\ "FIN" \notin r.flags
      BY <2>3 DEF PeerSends
    <3>2. /\ IsSeq(toStack') /\ Len(toStack') = Len(toStack) + 1 /\ toStack' # <<>>
          /\ \A i \in 1..Len(toStack) : toStack'[i] = toStack[i]
      BY <1>1, <3>1, SeqAppend
    <3>3. With("SYN", toStack') = {} /\ With("FIN", toStack) = {} /\ With("FIN", toStack') = {}
      BY <1>1, <1>5, <2>3, <3>1, WithAppend DEF Open
    <3>4. conn.state = "SYN_RCVD" => toStack'[1] = toStack[1]
      <4>1. toStack # <<>> => Len(toStack) >= 1
        BY <1>1, SeqTail
      <4> QED
        BY <1>1, <3>2, <4>1 DEF Open, IsSeq
    <3>5. conn.state = "LAST_ACK" => Len(toStack') = 1
      <4>1. conn.state = "LAST_ACK" => toStack = <<>>
        BY <1>5, <2>3 DEF Open
      <4>2. toStack = <<>> => Len(toStack) = 0
        OBVIOUS
      <4> QED
        BY <3>2, <4>1, <4>2
    <3>6. conn.state # "NONE" /\ peer.fin # 0 /\ ~(rx # Idle /\ "FIN" \in rx.seg.flags)
      BY <1>5, <2>3 DEF Open
    <3>7. Types'
      BY <1>1, <1>3, <2>1, <3>2 DEF Types
    <3>8. Open'
      BY <1>1, <1>3, <1>5, <1>7, <2>1, <2>3, <3>2, <3>3, <3>4, <3>5, <3>6 DEF Open
    <3> QED
      BY <3>7, <3>8
  <2>4. UNCHANGED toStack \/ (\E r : PeerSends(r) /\ r.flags = {"ACK"} /\ "FIN" \in s.flags)
    <3>1. \A seq, ack : Segment({"ACK"}, seq, ack, NoData).flags = {"ACK"}
      BY DEF Segment
    <3>2. s.flags \cap {"SYN", "FIN"} # {} => "FIN" \in s.flags
      BY <1>3
    <3>3. \/ UNCHANGED toStack
          \/ /\ s.flags \cap {"SYN", "FIN"} # {}
             /\ \E seq, ack : PeerSends(Segment({"ACK"}, seq, ack, NoData))
      BY <1>9, Zenon DEF PeerRecvEst
    <3> QED
      BY <3>1, <3>2, <3>3, Zenon
  <2> QED
    BY <2>2, <2>3, <2>4
<1> QED
  BY <1>2, <1>8, <1>9 DEF PeerIgnores

\* The ingress thread takes a segment on the open connection.
LEMMA OpenIngress ==
    ASSUME Types, Open, Ingress, ~undef, UNCHANGED peer
    PROVE  ~undef' /\ Types' /\ Open'
<1> DEFINE s == Head(toStack)
<1>1. /\ toStack # <<>> /\ IsSeq(toStack) /\ IsSeq(toPeer) /\ toStack' = Tail(toStack)
      /\ rx = Idle /\ UntimedInput(s)
  BY InputUntimed DEF UntimedInput, Ingress, Types
<1>2. /\ IsSeq(toStack') /\ Len(toStack) >= 1 /\ Len(toStack') = Len(toStack) - 1
      /\ Len(toStack) \in Nat /\ s = toStack[1]
  BY <1>1, SeqTail DEF IsSeq
<1>3. "SYN" \notin s.flags /\ With("SYN", toStack') = {}
  BY <1>1, WithTail DEF Open
<1>4. /\ \A i \in With("FIN", toStack') : i + 1 \in With("FIN", toStack) /\ i \in 1..Len(toStack')
      /\ "FIN" \in s.flags => 1 \in With("FIN", toStack)
  BY <1>1, WithTail
<1>5. "FIN" \in s.flags => toStack' = <<>> /\ With("FIN", toPeer) = {} /\ peer.fin # 0
  <2>1. "FIN" \in s.flags => Len(toStack') = 0 /\ With("FIN", toPeer) = {} /\ peer.fin # 0
    BY <1>2, <1>4 DEF Open
  <2> QED
    BY <1>2, <2>1, SeqEmpty
<1>6. \A i \in With("FIN", toStack') : i = Len(toStack') /\ With("FIN", toPeer) = {}
  BY <1>2, <1>4 DEF Open
<1>7. With("FIN", toStack) = {} => With("FIN", toStack') = {}
  BY <1>4
<1>8. /\ conn.state = "SYN_RCVD" =>
            s.flags = {"ACK"} /\ s.seq = conn.recv_next /\ s.ack = conn.send_next
      /\ conn.state = "LAST_ACK" => toStack' = <<>> /\ With("FIN", toPeer) = {}
      /\ conn.state # "NONE"
  <2>1. conn.state = "LAST_ACK" => Len(toStack') = 0
    BY <1>2 DEF Open
  <2> QED
    BY <1>1, <1>2, <2>1, SeqEmpty DEF Open
<1>9. conn # NoConn /\ IsConn(conn)
  BY <1>8 DEF Types, NoConn
<1> HIDE DEF s
<1>10. IsConn(RtoUpdate(conn)) /\ RtoUpdate(conn).state = conn.state
  BY <1>9, RtoUpdateFields
<1> DEFINE c == RtoUpdate(conn)
<1>11. CASE conn.state = "SYN_RCVD"
  <2>1. FsmSynRcvdAck(s)
    BY <1>1, <1>3, <1>8, <1>9, <1>11
    DEF UntimedInput, Fsm, InputNoConn, InputBadSyn, FsmListenSyn, FsmIgnore, FsmSynSent, FsmSynRcvdRst,
        FsmSynRcvdOther, FsmLastAck, FsmEstablished, InSequence, Synchronized
  <2>2. /\ conn' = [c EXCEPT !.state = "ESTABLISHED", !.keep = FALSE]
        /\ toPeer' = toPeer /\ undef' = undef /\ eg' = eg /\ tm' = tm /\ rx' = rx
    BY <1>1, <2>1 DEF FsmSynRcvdAck, inputIdle, Reply, NoReply
  <2>3. conn'.state = "ESTABLISHED" /\ IsConn(conn')
    BY <1>10, <2>2 DEF IsConn
  <2>4. Types'
    BY <1>2, <2>2, <2>3 DEF Types
  <2>5. Open'
    BY <1>1, <1>3, <1>6, <1>7, <2>2, <2>3 DEF Open
  <2> QED
    BY <2>2, <2>4, <2>5
<1>12. CASE conn.state = "LAST_ACK"
  <2>1. FsmLastAck(s)
    BY <1>1, <1>3, <1>8, <1>9, <1>12
    DEF UntimedInput, Fsm, InputNoConn, InputBadSyn, FsmListenSyn, FsmIgnore, FsmSynSent, FsmSynRcvdRst,
        FsmSynRcvdAck, FsmSynRcvdOther, FsmEstablished, Synchronized
  <2>2. /\ conn' = IF "ACK" \in s.flags THEN NoConn ELSE c
        /\ toPeer' = toPeer /\ eg' = eg /\ tm' = tm /\ rx' = rx
    BY <1>1, <2>1 DEF FsmLastAck, inputIdle, Reply, NoReply
  <2>3. ~undef'
    <3>1. undef' <=> ("ACK" \in s.flags /\ (eg # Idle \/ tm # Idle))
      BY <2>1, Zenon DEF FsmLastAck
    <3> QED
      BY <3>1 DEF Types
  <2>4. (conn' = NoConn /\ conn'.state = "NONE") \/ (IsConn(conn') /\ conn'.state = "LAST_ACK")
    BY <1>10, <1>12, <2>2 DEF NoConn
  <2>5. Types'
    BY <1>2, <2>2, <2>4 DEF Types
  <2>6. With("FIN", toStack') = {} /\ peer.fin # 0 /\ Len(toStack') = 0
    <3>1. With("FIN", toStack) = {} /\ peer.fin # 0
      BY <1>12 DEF Open
    <3>2. Len(<<>>) = 0
      OBVIOUS
    <3> QED
      BY <1>7, <1>8, <1>12, <3>1, <3>2
  <2>7. Open'
    BY <1>1, <1>3, <1>8, <1>12, <2>2, <2>4, <2>6 DEF Open
  <2> QED
    BY <2>3, <2>5, <2>7
<1>13. CASE conn.state = "ESTABLISHED"
  <2>1. FsmEstablished(s)
    BY <1>1, <1>3, <1>8, <1>9, <1>13
    DEF UntimedInput, Fsm, InputNoConn, InputBadSyn, FsmListenSyn, FsmIgnore, FsmSynSent, FsmSynRcvdRst,
        FsmSynRcvdAck, FsmSynRcvdOther, FsmLastAck, Synchronized
  <2>2. /\ conn' = c \/ conn' = [c EXCEPT !.send_una = s.ack]
        /\ rx' = [pc |-> "free", seg |-> s] \/ rx' = [pc |-> "data", seg |-> s]
        /\ toPeer' = toPeer /\ undef' = undef /\ eg' = eg /\ tm' = tm
    BY <2>1, Zenon DEF FsmEstablished, NoReply
  <2>3. conn'.state = "ESTABLISHED" /\ IsConn(conn')
    BY <1>10, <1>13, <2>2 DEF IsConn
  <2>4. rx'.seg = s /\ DOMAIN rx' = {"pc", "seg"} /\ rx'.pc # "timed"
    BY <2>2
  <2>5. Types'
    BY <1>2, <2>2, <2>3, <2>4 DEF Types
  <2>6. \A i \in With("FIN", toStack') : "FIN" \notin s.flags
    <3>1. With("FIN", <<>>) = {}
      BY DEF With
    <3> QED
      BY <1>5, <3>1
  <2>7. Open'
    BY <1>1, <1>3, <1>5, <1>6, <1>7, <2>2, <2>3, <2>4, <2>6 DEF Open
  <2> QED
    BY <2>2, <2>5, <2>7
<1> QED
  BY <1>8, <1>11, <1>12, <1>13 DEF Open

\* The ingress thread goes on with the segment it has.
LEMMA OpenIngressStep ==
    ASSUME Types, Open, IngressStep, ~undef, UNCHANGED peer
    PROVE  ~undef' /\ Types' /\ Open'
<1>1. rx # Idle /\ toStack' = toStack /\ eg' = eg /\ tm' = tm /\ undef' = undef /\ IsSeq(toPeer)
  BY StepUntimed DEF UntimedStep, AckFree, AckRearm, EstablishedData, EstablishedFin, EstablishedOther, Idle,
         Types
<1>2. conn.state = "ESTABLISHED" /\ "SYN" \notin rx.seg.flags
  BY <1>1 DEF Open
<1>3. IsConn(conn)
  BY <1>2 DEF Types, NoConn
<1>4. CASE AckFree \/ AckRearm
  <2>1. IsConn(conn') /\ conn'.state = "ESTABLISHED" /\ toPeer' = toPeer
    BY <1>2, <1>3, <1>4 DEF AckFree, AckRearm, IsConn
  <2>2. rx'.seg = rx.seg
    <3>1. rx' = [rx EXCEPT !.pc = "rearm"] \/ rx' = [rx EXCEPT !.pc = "data"]
      BY <1>4, Zenon DEF AckFree, AckRearm
    <3>2. DOMAIN rx = {"pc", "seg"}
      BY <1>1 DEF Types
    <3> QED
      BY <3>1, <3>2
  <2>5. DOMAIN rx' = DOMAIN rx /\ rx'.pc # "timed"
    BY <1>1, <1>4 DEF AckFree, AckRearm, Types
  <2>3. Types'
    BY <1>1, <2>1, <2>5 DEF Types
  <2>4. Open'
    BY <1>1, <2>1, <2>2 DEF Open
  <2> QED
    BY <1>1, <2>3, <2>4
<1>5. CASE EstablishedOther
  <2>1. conn' = conn /\ toPeer' = toPeer /\ rx' = Idle
    BY <1>5 DEF EstablishedOther
  <2>2. Types'
    BY <1>1, <2>1 DEF Types
  <2>3. Open'
    BY <1>1, <1>2, <2>1 DEF Open
  <2> QED
    BY <1>1, <2>2, <2>3
<1>6. ASSUME NEW r, toPeer' = Append(toPeer, r), "SYN" \notin r.flags,
             "FIN" \in r.flags => "FIN" \in rx.seg.flags,
             rx' = Idle, IsConn(conn'),
             \/ conn'.state = "ESTABLISHED"
             \/ conn'.state = "LAST_ACK" /\ "FIN" \in rx.seg.flags
      PROVE  Types' /\ Open'
  <2>1. IsSeq(toPeer') /\ With("SYN", toPeer') = {}
    BY <1>1, <1>6, SeqAppend, WithAppend DEF Open
  <2>2. \/ With("FIN", toPeer') = With("FIN", toPeer) /\ "FIN" \notin r.flags
        \/ /\ With("FIN", toPeer') = {Len(toPeer) + 1} /\ "FIN" \in rx.seg.flags
    BY <1>1, <1>6, WithAppend DEF Open
  <2>3. "FIN" \in rx.seg.flags => toStack = <<>> /\ With("FIN", toStack) = {} /\ peer.fin # 0
    <3>1. With("FIN", <<>>) = {}
      BY DEF With
    <3> QED
      BY <1>1, <3>1 DEF Open
  <2>4. Types'
    BY <1>1, <1>6, <2>1 DEF Types
  <2>5. toStack = <<>> => Len(toStack) <= 1
    OBVIOUS
  <2>6. Open'
    BY <1>1, <1>2, <1>6, <2>1, <2>2, <2>3, <2>5 DEF Open
  <2> QED
    BY <2>4, <2>6
<1>7. \A flags, seq, ack : Segment(flags, seq, ack, NoData).flags = flags
  BY DEF Segment
<1>8. CASE EstablishedData
  <2> DEFINE r == Segment(rx.seg.flags \ {"PSH"}, conn.send_next,
                          Plus(rx.seg.seq, Length(rx.seg)), NoData)
  <2>1. toPeer' = Append(toPeer, r) /\ rx' = Idle
    BY <1>8 DEF EstablishedData, Reply
  <2>2. IsConn(conn') /\ conn'.state = "ESTABLISHED"
    BY <1>2, <1>3, <1>8 DEF EstablishedData, IsConn
  <2>3. r.flags = rx.seg.flags \ {"PSH"}
    BY <1>7
  <2> HIDE DEF r
  <2>4. "SYN" \notin r.flags /\ ("FIN" \in r.flags => "FIN" \in rx.seg.flags)
    BY <1>2, <2>3
  <2> QED
    BY <1>1, <1>6, <2>1, <2>2, <2>4
<1>9. CASE EstablishedFin
  <2> DEFINE r == Segment(rx.seg.flags \cup {"ACK"}, conn.send_next, Plus(rx.seg.seq, 1), NoData)
  <2>1. toPeer' = Append(toPeer, r) /\ rx' = Idle /\ "FIN" \in rx.seg.flags
    BY <1>9 DEF EstablishedFin, Reply
  <2>2. IsConn(conn') /\ conn'.state = "LAST_ACK"
    BY <1>2, <1>3, <1>9 DEF EstablishedFin, IsConn
  <2>3. r.flags = rx.seg.flags \cup {"ACK"}
    BY <1>7
  <2> HIDE DEF r
  <2>4. "SYN" \notin r.flags
    BY <1>2, <2>3
  <2> QED
    BY <1>1, <1>6, <2>1, <2>2, <2>4
<1> QED
  BY <1>4, <1>5, <1>8, <1>9, StepUntimed DEF UntimedStep

\* A step of a quiet network is a step of the phase it is in.
LEMMA QuietNext == QuietInv /\ [Next]_vars => QuietInv'
<1> SUFFICES ASSUME QuietInv, [Next]_vars PROVE QuietInv'
  OBVIOUS
<1>1. CASE UNCHANGED vars
  BY <1>1 DEF vars, tcpVars, counters, QuietInv, Quiet, Types, Before, Asked, Answered, Refused, Open,
              Opening, With, IsSeq, IsConn
<1>2. CASE Next
  <2>1. CASE NetworkFault /\ UNCHANGED rexmts
    <3>1. faults' = faults + 1
      BY <2>1 DEF NetworkFault, Lose, Duplicate, Overtake, Fault
    <3> QED
      BY <2>1, <3>1 DEF QuietInv, Quiet
  <2>2. CASE PeerRexmt
    <3>1. rexmts' = rexmts + 1 /\ faults' = faults
      BY <2>2 DEF PeerRexmt, stackIdle, counters
    <3> QED
      BY <3>1 DEF QuietInv, Quiet
  <2> DEFINE Sends == PeerSend \/ PeerClose \/ PeerSendAndClose \/ PeerAbort
  <2>3. CASE /\ PeerConnect \/ Sends \/ PeerRecv \/ ((Ingress \/ IngressStep) /\ UNCHANGED <<peer, rexmts>>)
    <3>1. faults' = faults /\ rexmts' = rexmts
      <4>1. CASE PeerConnect \/ Sends \/ PeerRecv
        BY <4>1 DEF PeerConnect, PeerSend, PeerClose, PeerSendAndClose, PeerAbort, PeerRecv,
                    stackIdle, counters
      <4>2. CASE Ingress /\ UNCHANGED <<peer, rexmts>>
        BY <4>2 DEF Ingress, TcpInput, FsmTimed, Fsm, InputNoConn, InputBadSyn, FsmListenSyn, FsmIgnore, FsmSynSent,
                    FsmSynRcvdRst, FsmSynRcvdAck, FsmSynRcvdOther, FsmLastAck, FsmEstablished,
                    inputIdle, Reply, NoReply, counters
      <4>3. CASE IngressStep /\ UNCHANGED <<peer, rexmts>>
        BY <4>3 DEF IngressStep, FsmAfterSample, Fsm, FsmListenSyn, FsmIgnore, FsmSynSent,
                    FsmSynRcvdRst, FsmSynRcvdAck, FsmSynRcvdOther, FsmLastAck, FsmEstablished, inputIdle,
                    AckFree, AckRearm, EstablishedData, EstablishedFin, EstablishedOther, counters
      <4> QED
        BY <2>3, <4>1, <4>2, <4>3
    <3>2. CASE Quiet
      <4>1. ~undef /\ Types
        BY <1>2, <3>2 DEF QuietInv
      <4>2. (PeerConnect \/ Sends \/ PeerRecv) => ~undef'
        BY <4>1 DEF PeerConnect, PeerSend, PeerClose, PeerSendAndClose, PeerAbort, PeerRecv, stackIdle
      <4>3. Ingress => toStack # <<>> /\ rx = Idle
        BY DEF Ingress, TcpInput
      <4>4. IngressStep => rx # Idle
        BY DEF IngressStep, FsmAfterSample, AckFree, AckRearm, EstablishedData, EstablishedFin,
               EstablishedOther, Idle
      <4>5. /\ Sends => peer.st = "est"
            /\ PeerConnect => peer.st = "closed"
            /\ PeerRecv => toPeer # <<>>
        BY DEF PeerSend, PeerClose, PeerSendAndClose, PeerAbort, PeerConnect, PeerRecv
      <4>6. CASE Before
        <5>1. PeerConnect
          BY <2>3, <4>3, <4>4, <4>5, <4>6 DEF Before
        <5> QED
          BY <3>1, <4>1, <4>2, <4>6, <5>1, BeforeStep DEF QuietInv
      <4>7. CASE Asked
        <5>1. Ingress /\ UNCHANGED <<peer, rexmts>>
          BY <2>3, <4>3, <4>4, <4>5, <4>7 DEF Asked, Opening
        <5> QED
          BY <3>1, <4>1, <4>7, <5>1, AskedStep DEF QuietInv
      <4>8. CASE Answered
        <5>1. PeerRecv
          BY <2>3, <4>3, <4>4, <4>5, <4>8 DEF Answered, Opening
        <5> QED
          BY <3>1, <4>1, <4>2, <4>8, <5>1, AnsweredStep DEF QuietInv
      <4>9. CASE Refused
        <5>1. PeerRecv
          BY <2>3, <4>3, <4>4, <4>5, <4>9 DEF Refused
        <5> QED
          BY <3>1, <4>1, <4>2, <4>9, <5>1, RefusedStep DEF QuietInv
      <4>10. CASE Open
        <5>1. ~PeerConnect
          BY <4>5, <4>10 DEF Open
        <5>2. CASE Sends
          BY <3>1, <4>1, <4>2, <4>10, <5>2, OpenPeerStep DEF QuietInv
        <5>3. CASE PeerRecv
          BY <3>1, <4>1, <4>2, <4>10, <5>3, OpenPeerRecv DEF QuietInv
        <5>4. CASE Ingress /\ UNCHANGED <<peer, rexmts>>
          BY <3>1, <4>1, <4>10, <5>4, OpenIngress DEF QuietInv
        <5>5. CASE IngressStep /\ UNCHANGED <<peer, rexmts>>
          BY <3>1, <4>1, <4>10, <5>5, OpenIngressStep DEF QuietInv
        <5> QED
          BY <2>3, <5>1, <5>2, <5>3, <5>4, <5>5
      <4> QED
        BY <3>2, <4>6, <4>7, <4>8, <4>9, <4>10 DEF QuietInv
    <3>3. CASE ~Quiet
      BY <3>1, <3>3 DEF QuietInv, Quiet
    <3> QED
      BY <3>2, <3>3
  <2> QED
    BY <1>2, <2>1, <2>2, <2>3 DEF Next, PeerStep
<1> QED
  BY <1>1, <1>2

\* On a network without faults, and with a peer that repeats nothing, no segment
\* but a SYN reaches tcp_input() without a connection, so tcp_fsm() never gets a
\* NULL one: not around the handshake, nor when the connection is closed while
\* data and acknowledgments are still on their way.
THEOREM NeverNull == Spec => []NoNullConnection
<1>1. QuietInv => NoNullConnection
  BY DEF QuietInv, NoNullConnection
<1> QED
  BY QuietInit, QuietNext, <1>1, PTL DEF Spec
-----------------------------------------------------------------------------
(* The stream on a network that loses segments but neither repeats one nor *)
(* lets one overtake another, with a peer that retransmits when it likes.  *)

KeepsOrder == ~Duplicate /\ ~Overtake

\* Fewer segments than sequence numbers, as with 2^32 of them.
FewSegments == MaxData + MaxRexmts + 1 < SeqMod

Segs(q) == {q[i] : i \in 1..Len(q)}

\* The SYNs were sent before everything else.
SynsFirst(q) == \A i, j \in 1..Len(q) : i < j /\ "SYN" \in q[j].flags => "SYN" \in q[i].flags

\* Payload k is unit k + 1 of the peer's stream.
Numbered(s) == "PSH" \in s.flags => s.data \in 1..MaxData /\ s.seq = SeqOf(s.data + 1)

\* tcp_fsm() in TCP_SYN_RCVD has moved send_next of c n times away from b, the
\* number after its SYN, each time for a segment; with those still in q these are
\* not more than the m that the peer has sent.
Drifted(c, q, b, m) ==
    \E n \in 0..m :
        /\ c.send_next = Plus(b, n) /\ n + Len(q) <= m
        /\ n = 0 => c.recv_next = SeqOf(2)

\* The only acknowledgment in q is the first thing in it, for a SYN before b.
AckFirst(q, b) ==
    \A i \in 1..Len(q) : "ACK" \in q[i].flags => i = 1 /\ Plus(q[i].seq, 1) = b

\* Nothing has happened yet.
Silent ==
    /\ peer.st = "closed" /\ peer.una = 0 /\ peer.fin = 0 /\ conn = NoConn
    /\ toStack = <<>> /\ toPeer = <<>> /\ rx = Idle /\ app = <<>>

\* The peer waits for the answer to its SYN, and repeats it.
Knocking ==
    /\ peer.st = "syn_sent" /\ peer.una = 0 /\ peer.nxt = 1 /\ peer.fin = 0
    /\ rx = Idle /\ app = <<>>
    /\ \A s \in Segs(toStack) : s.flags = {"SYN"} /\ s.seq = PeerISN
    /\ \/ conn = NoConn /\ toPeer = <<>> /\ Len(toStack) <= rexmts + 1
       \/ conn.state = "CLOSED" /\ \A s \in Segs(toPeer) : "SYN" \notin s.flags
       \/ /\ conn.state = "SYN_RCVD"
          /\ \E b \in Seq32 : Drifted(conn, toStack, b, rexmts) /\ AckFirst(toPeer, b)

\* The peer has been refused, or has taken an answer without an ACK for a SYN of
\* its own: it will never send data.
Mute ==
    /\ peer.st \in {"syn_rcvd", "refused"} /\ peer.una = 0 /\ app = <<>>
    /\ \A s \in Segs(toStack) : "PSH" \notin s.flags
    /\ rx # Idle => "PSH" \notin rx.seg.flags

\* What a peer that has a connection has sent.
Sending ==
    /\ peer.st \in {"est", "aborted"}
    /\ peer.nxt \in 1..(MaxData + 2) /\ peer.una \in 1..peer.nxt
    /\ peer.fin = 0 => peer.nxt <= MaxData + 1
    /\ peer.fin # 0 => peer.fin = peer.nxt /\ peer.st = "est"
    /\ \A s \in Segs(toStack) : Numbered(s)

\* How many segments that is at most.
PeerTotal == rexmts + peer.nxt + (IF peer.st = "aborted" THEN 1 ELSE 0)

\* The connection is not yet open for tcp_fsm().  Once send_next has moved, no
\* acknowledgment of the peer matches it any more.
Early ==
    /\ Sending /\ conn.state = "SYN_RCVD" /\ app = <<>> /\ rx = Idle /\ peer.rcv \in Seq32
    /\ \A s \in Segs(toPeer) : "ACK" \notin s.flags
    /\ SynsFirst(toStack)
    /\ \A s \in Segs(toStack) :
          IF "SYN" \in s.flags THEN s.flags = {"SYN"} ELSE s.ack = peer.rcv
    /\ Drifted(conn, toStack, peer.rcv, PeerTotal)

\* It is, or has been; no SYN can open another one.
Late ==
    /\ Sending /\ conn.state \in {"ESTABLISHED", "LAST_ACK", "LISTEN", "NONE"}
    /\ \A s \in Segs(toStack) : "SYN" \notin s.flags
    /\ rx # Idle => Numbered(rx.seg)
    /\ Len(app) \in 0..MaxData /\ AppGetsPrefix
    /\ conn.state = "ESTABLISHED" => conn.recv_next = SeqOf(Len(app) + 2)

\* What the variables hold; the ingress thread waits in TCP_ESTABLISHED only.
StreamTypes ==
    Types /\ (rx # Idle => conn.state = "ESTABLISHED") /\ rexmts \in 0..MaxRexmts

\* The inductive invariant: the stream is in one of its phases.
StreamInv ==
    /\ StreamTypes
    /\ Silent \/ Knocking \/ Mute \/ Early \/ Late

\* Sequence numbers without the modulus.
LEMMA PlusCases ==
    ASSUME NEW a \in Seq32, NEW n \in 0..SeqMod
    PROVE  /\ Plus(a, n) = IF a + n < SeqMod THEN a + n ELSE a + n - SeqMod
           /\ Plus(a, n) \in Seq32
<1>1. SeqMod \in Nat /\ SeqMod > 1 /\ a \in Nat /\ a < SeqMod /\ n \in Nat /\ n <= SeqMod
  BY SeqAssumption DEF Seq32
<1>2. CASE a + n < SeqMod
  <2>1. (a + n) % SeqMod = a + n
    BY <1>1, <1>2
  <2> QED
    BY <1>1, <1>2, <2>1 DEF Plus, Seq32
<1>3. CASE a + n >= SeqMod
  <2> DEFINE x == a + n
  <2>1. x \in Nat /\ SeqMod <= x /\ x < 2 * SeqMod
    BY <1>1, <1>3
  <2> HIDE DEF x
  <2>2. x % SeqMod = x - SeqMod
    BY <1>1, <2>1
  <2> QED
    BY <1>1, <1>3, <2>2 DEF Plus, Seq32, x
<1> QED
  BY <1>1, <1>2, <1>3

\* A number that is moved on less than a whole turn is another one.
LEMMA PlusMoves ==
    ASSUME NEW b \in Seq32, NEW n \in 0..(SeqMod - 1)
    PROVE  /\ Plus(b, 0) = b
           /\ n # 0 => Plus(b, n) # b
           /\ Plus(Plus(b, n), 1) = Plus(b, n + 1)
<1>1. SeqMod \in Nat /\ SeqMod > 1 /\ b \in Nat /\ b < SeqMod /\ n \in Nat
  BY SeqAssumption DEF Seq32
<1>2. 0 \in 0..SeqMod /\ 1 \in 0..SeqMod /\ n \in 0..SeqMod /\ n + 1 \in 0..SeqMod
  BY <1>1
<1>3. /\ Plus(b, 0) = IF b + 0 < SeqMod THEN b + 0 ELSE b + 0 - SeqMod
      /\ Plus(b, n) = IF b + n < SeqMod THEN b + n ELSE b + n - SeqMod
      /\ Plus(b, n + 1) = IF b + (n + 1) < SeqMod THEN b + (n + 1) ELSE b + (n + 1) - SeqMod
      /\ Plus(b, n) \in Seq32
  BY <1>2, PlusCases
<1>4. Plus(Plus(b, n), 1) = IF Plus(b, n) + 1 < SeqMod THEN Plus(b, n) + 1 ELSE Plus(b, n) + 1 - SeqMod
  BY <1>2, <1>3, PlusCases
<1> QED
  BY <1>1, <1>3, <1>4

\* The units of the stream have different numbers, each one after the other.
LEMMA SeqOfUnits ==
    ASSUME NEW i \in 1..SeqMod, NEW j \in 1..SeqMod
    PROVE  /\ SeqOf(i) = SeqOf(j) => i = j
           /\ Plus(SeqOf(i), 1) = SeqOf(i + 1)
           /\ SeqOf(i) \in Seq32
<1>1. SeqMod \in Nat /\ SeqMod > 1 /\ PeerISN \in Seq32 /\ PeerISN \in Nat /\ PeerISN < SeqMod
  BY SeqAssumption, PeerAssumption DEF Seq32
<1>2. i - 1 \in 0..(SeqMod - 1) /\ j - 1 \in 0..(SeqMod - 1) /\ (i - 1) + 1 = (i + 1) - 1
  BY <1>1
<1>3. i - 1 \in 0..SeqMod /\ j - 1 \in 0..SeqMod
  BY <1>1
<1>4. /\ SeqOf(i) = IF PeerISN + (i - 1) < SeqMod THEN PeerISN + (i - 1) ELSE PeerISN + (i - 1) - SeqMod
      /\ SeqOf(j) = IF PeerISN + (j - 1) < SeqMod THEN PeerISN + (j - 1) ELSE PeerISN + (j - 1) - SeqMod
      /\ SeqOf(i) \in Seq32
  BY <1>1, <1>3, PlusCases DEF SeqOf
<1>5. Plus(SeqOf(i), 1) = SeqOf(i + 1)
  BY <1>1, <1>2, PlusMoves DEF SeqOf
<1>6. SeqOf(i) = SeqOf(j) => i = j
  BY <1>1, <1>2, <1>4
<1> QED
  BY <1>4, <1>5, <1>6

\* What is in a queue after another segment has been sent.
LEMMA SegsAppend ==
    ASSUME NEW q, IsSeq(q), NEW e
    PROVE  Segs(Append(q, e)) = Segs(q) \cup {e}
<1> DEFINE r == Append(q, e)
<1>1. /\ Len(q) \in Nat /\ Len(r) = Len(q) + 1 /\ \A i \in 1..Len(q) : r[i] = q[i]
      /\ r[Len(q) + 1] = e
  BY SeqAppend DEF IsSeq
<1> HIDE DEF r
<1>2. \A i : i \in 1..Len(r) <=> i \in 1..Len(q) \/ i = Len(q) + 1
  BY <1>1
<1>3. \A x : x \in Segs(r) <=> x \in Segs(q) \/ x = e
  BY <1>1, <1>2 DEF Segs
<1> QED
  BY <1>3 DEF r

\* What is in it after the first one has been taken.
LEMMA SegsTail ==
    ASSUME NEW q, IsSeq(q), q # <<>>
    PROVE  Segs(Tail(q)) \subseteq Segs(q) /\ Head(q) \in Segs(q)
<1>1. Len(q) \in Nat /\ Len(q) >= 1 /\ Len(Tail(q)) = Len(q) - 1 /\ Head(q) = q[1]
      /\ \A i \in 1..Len(Tail(q)) : Tail(q)[i] = q[i + 1]
  BY SeqTail DEF IsSeq
<1>2. \A i \in 1..Len(Tail(q)) : i + 1 \in 1..Len(q)
  BY <1>1
<1>3. 1 \in 1..Len(q)
  BY <1>1
<1> QED
  BY <1>1, <1>2, <1>3 DEF Segs

\* The SYNs stay in front.
LEMMA SynsFirstKept ==
    ASSUME NEW q, IsSeq(q), SynsFirst(q)
    PROVE  /\ \A e : "SYN" \notin e.flags => SynsFirst(Append(q, e))
           /\ q # <<>> => SynsFirst(Tail(q))
           /\ q # <<>> /\ "SYN" \notin Head(q).flags => \A s \in Segs(q) : "SYN" \notin s.flags
<1>1. ASSUME NEW e, "SYN" \notin e.flags PROVE SynsFirst(Append(q, e))
  <2> DEFINE r == Append(q, e)
  <2>1. /\ Len(q) \in Nat /\ Len(r) = Len(q) + 1 /\ \A i \in 1..Len(q) : r[i] = q[i]
        /\ r[Len(q) + 1] = e
    BY SeqAppend DEF IsSeq
  <2> HIDE DEF r
  <2> SUFFICES ASSUME NEW i \in 1..Len(r), NEW j \in 1..Len(r), i < j, "SYN" \in r[j].flags
               PROVE  "SYN" \in r[i].flags
    BY DEF SynsFirst, r
  <2>2. j # Len(q) + 1
    BY <1>1, <2>1
  <2>3. i \in 1..Len(q) /\ j \in 1..Len(q)
    BY <2>1, <2>2
  <2> QED
    BY <2>1, <2>3 DEF SynsFirst
<1>2. ASSUME q # <<>> PROVE SynsFirst(Tail(q))
  <2>1. Len(q) \in Nat /\ Len(Tail(q)) = Len(q) - 1 /\ \A i \in 1..Len(Tail(q)) : Tail(q)[i] = q[i + 1]
    BY <1>2, SeqTail DEF IsSeq
  <2>2. \A i \in 1..Len(Tail(q)) : i + 1 \in 1..Len(q)
    BY <2>1
  <2>3. \A i, j \in 1..Len(Tail(q)) : i < j => i + 1 < j + 1
    OBVIOUS
  <2> QED
    BY <2>1, <2>2, <2>3 DEF SynsFirst
<1>3. ASSUME q # <<>>, "SYN" \notin Head(q).flags, NEW s \in Segs(q) PROVE "SYN" \notin s.flags
  <2>1. Len(q) \in Nat /\ Len(q) >= 1 /\ Head(q) = q[1]
    BY <1>3, SeqTail DEF IsSeq
  <2>2. PICK i \in 1..Len(q) : s = q[i]
    BY DEF Segs
  <2>3. 1 \in 1..Len(q) /\ (i = 1 \/ 1 < i)
    BY <2>1
  <2> QED
    BY <1>3, <2>1, <2>2, <2>3 DEF SynsFirst
<1> QED
  BY <1>1, <1>2, <1>3

\* A retransmission moves nothing of the peer's.
LEMMA RexmtKeeps ==
    ASSUME Types, PeerRexmt
    PROVE  /\ DOMAIN peer' = DOMAIN peer /\ peer'.st = peer.st /\ peer'.una = peer.una
           /\ peer'.nxt = peer.nxt /\ peer'.fin = peer.fin /\ peer'.rcv = peer.rcv
<1>1. \E e : peer' = [peer EXCEPT !.early = e]
  BY Zenon DEF PeerRexmt
<1> QED
  BY <1>1 DEF Types

\* The types are kept, whatever the phase.  The peer:
LEMMA TypesPeer ==
    ASSUME StreamTypes, PeerStep
    PROVE  StreamTypes'
<1>1. UNCHANGED <<conn, rx, eg, tm>>
  BY DEF PeerStep, PeerConnect, PeerSend, PeerClose, PeerSendAndClose, PeerAbort, PeerRexmt,
         PeerRecv, stackIdle
<1>2. rexmts' \in 0..MaxRexmts
  <2>1. rexmts' = rexmts \/ (rexmts' = rexmts + 1 /\ rexmts < MaxRexmts)
    BY DEF PeerStep, PeerConnect, PeerSend, PeerClose, PeerSendAndClose, PeerAbort, PeerRexmt, PeerRecv
  <2> QED
    BY <2>1, PeerAssumption DEF StreamTypes
<1>3. DOMAIN peer' = DOMAIN peer /\ peer'.nxt \in Nat
  <2> USE DEF StreamTypes, Types
  <2>1. CASE PeerConnect
    <3>1. peer' = [peer EXCEPT !.st = "syn_sent", !.nxt = 1]
      BY <2>1 DEF PeerConnect
    <3> QED
      BY <3>1
  <2>2. CASE PeerSend
    <3>1. PICK plain : peer' = [peer EXCEPT !.nxt = @ + 1, !.plain = plain]
      BY <2>2, Zenon DEF PeerSend
    <3> QED
      BY <3>1
  <2>3. CASE PeerClose
    <3>1. peer' = [peer EXCEPT !.nxt = @ + 1, !.fin = peer.nxt + 1]
      BY <2>3 DEF PeerClose
    <3> QED
      BY <3>1
  <2>4. CASE PeerSendAndClose
    <3>1. peer' = [peer EXCEPT !.nxt = @ + 2, !.fin = peer.nxt + 2]
      BY <2>4 DEF PeerSendAndClose
    <3> QED
      BY <3>1
  <2>5. CASE PeerAbort
    <3>1. peer' = [peer EXCEPT !.st = "aborted"]
      BY <2>5 DEF PeerAbort
    <3> QED
      BY <3>1
  <2>6. CASE PeerRexmt
    BY <2>6, RexmtKeeps
  <2>7. CASE PeerRecv
    <3>1. PICK s : PeerRecvSynSent(s) \/ PeerRecvEst(s) \/ PeerIgnores(s)
      BY <2>7 DEF PeerRecv
    <3>2. CASE PeerRecvSynSent(s)
      BY <3>2 DEF PeerRecvSynSent
    <3>3. CASE PeerRecvEst(s)
      BY <3>3 DEF PeerRecvEst
    <3>4. CASE PeerIgnores(s)
      BY <3>4 DEF PeerIgnores
    <3> QED
      BY <3>1, <3>2, <3>3, <3>4
  <2> QED
    BY <2>1, <2>2, <2>3, <2>4, <2>5, <2>6, <2>7 DEF PeerStep
<1>4. IsSeq(toStack')
  <2>1. toStack' = toStack \/ \E s : PeerSends(s)
    <3>1. CASE PeerRecv
      <4>1. PICK s : PeerRecvSynSent(s) \/ PeerRecvEst(s) \/ PeerIgnores(s)
        BY <3>1 DEF PeerRecv
      <4> QED
        BY <4>1, Zenon DEF PeerRecvSynSent, PeerRecvEst, PeerIgnores
    <3>2. CASE ~PeerRecv
      BY <3>2, Zenon DEF PeerStep, PeerConnect, PeerSend, PeerClose, PeerSendAndClose, PeerAbort, PeerRexmt
    <3> QED
      BY <3>1, <3>2
  <2> QED
    BY <2>1, SeqAppend DEF PeerSends, StreamTypes, Types
<1>5. IsSeq(toPeer')
  <2>1. toPeer' = toPeer \/ (toPeer # <<>> /\ toPeer' = Tail(toPeer))
    BY DEF PeerStep, PeerConnect, PeerSend, PeerClose, PeerSendAndClose, PeerAbort, PeerRexmt, PeerRecv
  <2> QED
    BY <2>1, SeqTail DEF StreamTypes, Types
<1> QED
  BY <1>1, <1>2, <1>3, <1>4, <1>5 DEF StreamTypes, Types

\* tcp_input() keeps a whole control block, or none.
LEMMA TypesIngress ==
    ASSUME StreamTypes, Ingress, UNCHANGED <<peer, rexmts>>
    PROVE  StreamTypes'
<1> DEFINE s == Head(toStack)
<1>1. toStack # <<>> /\ toStack' = Tail(toStack) /\ rx = Idle /\ UntimedInput(s)
  BY InputUntimed DEF UntimedInput, Ingress, StreamTypes
<1> HIDE DEF s
<1>2. IsSeq(toStack')
  BY <1>1, SeqTail DEF StreamTypes, Types
<1>3. eg' = eg /\ tm' = tm
  BY <1>1 DEF UntimedInput, Fsm, InputNoConn, InputBadSyn, FsmListenSyn, FsmIgnore, FsmSynSent,
              FsmSynRcvdRst, FsmSynRcvdAck, FsmSynRcvdOther, FsmLastAck, FsmEstablished, inputIdle, Reply, NoReply
<1>4. IsSeq(toPeer')
  <2>1. toPeer' = toPeer \/ \E r : toPeer' = Append(toPeer, r)
    BY <1>1, Zenon DEF UntimedInput, Fsm, InputNoConn, InputBadSyn, FsmListenSyn, FsmIgnore, FsmSynSent,
              FsmSynRcvdRst, FsmSynRcvdAck, FsmSynRcvdOther, FsmLastAck, FsmEstablished,
              Reply, NoReply
  <2> QED
    BY <2>1, SeqAppend DEF StreamTypes, Types
<1> DEFINE c == RtoUpdate(conn)
           IsBlock(d) == d = NoConn \/ (IsConn(d) /\ d.state # "NONE")
<1>5. IsBlock(conn) /\ (conn.state # "NONE" => IsConn(conn))
  BY DEF StreamTypes, Types, NoConn
<1>6. conn.state # "NONE" => IsConn(c) /\ c.state = conn.state
  BY <1>5, RtoUpdateFields
<1> HIDE DEF c
<1>7. CASE FsmEstablished(s)
  <2>1. /\ conn' = c \/ conn' = [c EXCEPT !.send_una = s.ack]
        /\ rx' = [pc |-> "free", seg |-> s] \/ rx' = [pc |-> "data", seg |-> s]
    BY <1>7, Zenon DEF FsmEstablished, c
  <2>2. conn.state = "ESTABLISHED"
    BY <1>7 DEF FsmEstablished
  <2>3. IsConn(conn') /\ conn'.state = "ESTABLISHED"
    BY <1>6, <2>1, <2>2 DEF IsConn
  <2>4. DOMAIN rx' = {"pc", "seg"} /\ rx'.pc # "timed"
    BY <2>1
  <2> QED
    BY <1>2, <1>3, <1>4, <2>3, <2>4 DEF StreamTypes, Types
<1>8. CASE ~FsmEstablished(s)
  <2>1. rx' = Idle
    BY <1>1, <1>8 DEF UntimedInput, Fsm, InputNoConn, InputBadSyn, FsmListenSyn, FsmIgnore, FsmSynSent,
              FsmSynRcvdRst, FsmSynRcvdAck, FsmSynRcvdOther, FsmLastAck, inputIdle, Reply, NoReply
  <2>2. IsBlock(conn')
    <3>1. CASE InputNoConn(s) \/ InputBadSyn(s)
      BY <1>5, <3>1 DEF InputNoConn, InputBadSyn
    <3>2. CASE FsmListenSyn(s)
      <4>1. PICK isn \in ISNs : conn' =
               [IF conn = NoConn THEN NewConn("LISTEN") ELSE c EXCEPT
                   !.state = IF bound THEN "SYN_RCVD" ELSE "CLOSED",
                   !.recv_next = Plus(s.seq, 1), !.send_next = Plus(isn, 1)]
        BY <3>2, Zenon DEF FsmListenSyn, c
      <4> DEFINE d == IF conn = NoConn THEN NewConn("LISTEN") ELSE c
      <4>2. IsConn(d)
        <5>1. IsConn(NewConn("LISTEN"))
          BY DEF IsConn, NewConn
        <5>2. conn # NoConn => IsConn(c)
          BY <1>5, <1>6
        <5> QED
          BY <5>1, <5>2
      <4> HIDE DEF d
      <4>3. conn' = [d EXCEPT !.state = IF bound THEN "SYN_RCVD" ELSE "CLOSED",
                              !.recv_next = Plus(s.seq, 1), !.send_next = Plus(isn, 1)]
        BY <4>1 DEF d
      <4> QED
        BY <4>2, <4>3 DEF IsConn
    <3>3. CASE FsmIgnore(s)
      <4>1. conn' = c /\ conn.state # "NONE"
        BY <3>3 DEF FsmIgnore, c
      <4> QED
        BY <1>6, <4>1
    <3>4. CASE FsmSynSent(s)
      <4>1. conn' = [c EXCEPT !.state = "ESTABLISHED", !.keep = FALSE,
                              !.rexmt = TRUE, !.recv_next = Plus(s.seq, 1)] /\ conn.state # "NONE"
        BY <3>4 DEF FsmSynSent, c
      <4> QED
        BY <1>6, <4>1 DEF IsConn
    <3>5. CASE FsmSynRcvdRst(s) \/ FsmSynRcvdAck(s)
      <4>1. /\ \/ conn' = [c EXCEPT !.state = "LISTEN"]
               \/ conn' = [c EXCEPT !.state = "ESTABLISHED", !.keep = FALSE]
            /\ conn.state # "NONE"
        BY <3>5 DEF FsmSynRcvdRst, FsmSynRcvdAck, c
      <4> QED
        BY <1>6, <4>1 DEF IsConn
    <3>6. CASE FsmSynRcvdOther(s)
      <4>1. conn' = [c EXCEPT !.recv_next = s.seq, !.send_next = Plus(conn.send_next, 1)]
            /\ conn.state # "NONE"
        BY <3>6 DEF FsmSynRcvdOther, c
      <4> QED
        BY <1>6, <4>1 DEF IsConn
    <3>7. CASE FsmLastAck(s)
      <4>1. (conn' = NoConn \/ conn' = c) /\ conn.state # "NONE"
        BY <3>7 DEF FsmLastAck, c
      <4> QED
        BY <1>6, <4>1
    <3> QED
      BY <1>1, <1>8, <3>1, <3>2, <3>3, <3>4, <3>5, <3>6, <3>7 DEF UntimedInput, Fsm
  <2> QED
    BY <1>2, <1>3, <1>4, <2>1, <2>2 DEF StreamTypes, Types
<1> QED
  BY <1>7, <1>8

\* So does the rest of tcp_fsm() in TCP_ESTABLISHED.
LEMMA TypesIngressStep ==
    ASSUME StreamTypes, IngressStep, UNCHANGED <<peer, rexmts>>
    PROVE  StreamTypes'
<1>0. UntimedStep
  BY StepUntimed DEF StreamTypes
<1>1. rx # Idle /\ toStack' = toStack /\ eg' = eg /\ tm' = tm
  BY <1>0 DEF UntimedStep, AckFree, AckRearm, EstablishedData, EstablishedFin, EstablishedOther, Idle
<1>2. conn.state = "ESTABLISHED" /\ IsConn(conn) /\ DOMAIN rx = {"pc", "seg"}
  BY <1>1 DEF StreamTypes, Types, NoConn
<1>3. IsSeq(toPeer')
  <2>1. toPeer' = toPeer \/ \E r : toPeer' = Append(toPeer, r)
    BY <1>0, Zenon DEF UntimedStep, AckFree, AckRearm, EstablishedData, EstablishedFin, EstablishedOther, Reply
  <2> QED
    BY <2>1, SeqAppend DEF StreamTypes, Types
<1>4. IsConn(conn') /\ conn'.state # "NONE"
  BY <1>0, <1>2 DEF UntimedStep, AckFree, AckRearm, EstablishedData, EstablishedFin, EstablishedOther, IsConn
<1>5. rx' = Idle \/ (DOMAIN rx' = {"pc", "seg"} /\ rx'.pc # "timed" /\ conn'.state = "ESTABLISHED")
  <2>1. CASE AckFree \/ AckRearm
    BY <1>2, <2>1 DEF AckFree, AckRearm, IsConn
  <2>2. CASE EstablishedData \/ EstablishedFin \/ EstablishedOther
    BY <2>2 DEF EstablishedData, EstablishedFin, EstablishedOther, Reply
  <2> QED
    BY <1>0, <2>1, <2>2 DEF UntimedStep
<1> QED
  BY <1>1, <1>3, <1>4, <1>5 DEF StreamTypes, Types

\* And a lost segment changes nothing but its queue.
LEMMA TypesLose ==
    ASSUME StreamTypes, Lose, UNCHANGED <<peer, rexmts>>
    PROVE  StreamTypes'
<1>1. UNCHANGED <<conn, rx, eg, tm>>
  BY DEF Lose, netIdle
<1>2. /\ toPeer' = toPeer \/ (toPeer # <<>> /\ toPeer' = Tail(toPeer))
      /\ toStack' = toStack \/ (toStack # <<>> /\ toStack' = Tail(toStack))
  BY DEF Lose, Fault
<1>3. IsSeq(toPeer) /\ IsSeq(toStack)
  BY DEF StreamTypes, Types
<1>4. IsSeq(toPeer')
  <2>1. CASE toPeer # <<>> /\ toPeer' = Tail(toPeer)
    BY <1>3, <2>1, SeqTail
  <2> QED
    BY <1>2, <1>3, <2>1
<1>5. IsSeq(toStack')
  <2>1. CASE toStack # <<>> /\ toStack' = Tail(toStack)
    BY <1>3, <2>1, SeqTail
  <2> QED
    BY <1>2, <1>3, <2>1
<1> QED
  BY <1>1, <1>4, <1>5 DEF StreamTypes, Types

\* Segments that are lost, or that the peer adds to those it has sent, leave the
\* drift as it is.
LEMMA DriftKept ==
    ASSUME NEW c, NEW b, NEW q, NEW r, NEW m \in Nat, NEW k \in Nat, Drifted(c, q, b, m),
           Len(q) \in Nat, Len(r) \in Nat, m <= k, Len(r) + m <= Len(q) + k
    PROVE  Drifted(c, r, b, k)
<1>1. PICK n \in 0..m : /\ c.send_next = Plus(b, n) /\ n + Len(q) <= m
                        /\ n = 0 => c.recv_next = SeqOf(2)
  BY DEF Drifted
<1>2. n \in 0..k /\ n + Len(r) <= k
  BY <1>1
<1> QED
  BY <1>1, <1>2 DEF Drifted

\* A segment that tcp_fsm() answers with another number of its own adds one.
LEMMA DriftGrows ==
    ASSUME NEW c, NEW d, NEW b \in Seq32, NEW q, NEW r, NEW m \in 0..SeqMod, Drifted(c, q, b, m),
           Len(q) \in Nat, Len(q) >= 1, Len(r) = Len(q) - 1, d.send_next = Plus(c.send_next, 1)
    PROVE  Drifted(d, r, b, m)
<1>1. PICK n \in 0..m : c.send_next = Plus(b, n) /\ n + Len(q) <= m
  BY DEF Drifted
<1>2. n \in Nat /\ n + 1 \in 0..m /\ n \in 0..(SeqMod - 1) /\ n + 1 # 0 /\ n + 1 + Len(r) <= m
  BY <1>1, SeqAssumption
<1>3. d.send_next = Plus(b, n + 1)
  BY <1>1, <1>2, PlusMoves
<1> QED
  BY <1>2, <1>3 DEF Drifted

\* The acknowledgment in front.
LEMMA AckFirstKept ==
    ASSUME NEW q, IsSeq(q), NEW b, AckFirst(q, b)
    PROVE  /\ \A e : "ACK" \notin e.flags => AckFirst(Append(q, e), b)
           /\ q # <<>> => /\ AckFirst(Tail(q), b)
                          /\ \A s \in Segs(Tail(q)) : "ACK" \notin s.flags
                          /\ "ACK" \in Head(q).flags => Plus(Head(q).seq, 1) = b
<1>1. ASSUME NEW e, "ACK" \notin e.flags PROVE AckFirst(Append(q, e), b)
  <2> DEFINE r == Append(q, e)
  <2>1. /\ Len(q) \in Nat /\ Len(r) = Len(q) + 1 /\ \A i \in 1..Len(q) : r[i] = q[i]
        /\ r[Len(q) + 1] = e
    BY SeqAppend DEF IsSeq
  <2> HIDE DEF r
  <2>2. \A i \in 1..Len(r) : i \in 1..Len(q) \/ i = Len(q) + 1
    BY <2>1
  <2>3. AckFirst(r, b)
    BY <1>1, <2>1, <2>2 DEF AckFirst
  <2> QED
    BY <2>3 DEF r
<1>2. ASSUME q # <<>>
      PROVE  /\ \A i \in 1..Len(Tail(q)) : "ACK" \notin Tail(q)[i].flags
             /\ "ACK" \in Head(q).flags => Plus(Head(q).seq, 1) = b
  <2>1. Len(q) \in Nat /\ Len(q) >= 1 /\ Len(Tail(q)) = Len(q) - 1 /\ Head(q) = q[1]
        /\ \A i \in 1..Len(Tail(q)) : Tail(q)[i] = q[i + 1]
    BY <1>2, SeqTail DEF IsSeq
  <2>2. \A i \in 1..Len(Tail(q)) : i + 1 \in 1..Len(q) /\ i + 1 # 1
    BY <2>1
  <2>3. 1 \in 1..Len(q)
    BY <2>1
  <2> QED
    BY <2>1, <2>2, <2>3 DEF AckFirst
<1> QED
  BY <1>1, <1>2 DEF AckFirst, Segs

\* The peer asks for a connection.
LEMMA SilentStep ==
    ASSUME StreamTypes, Silent, PeerConnect
    PROVE  Knocking'
<1>1. /\ toStack' = Append(<<>>, Unit(1)) /\ toPeer' = <<>> /\ UNCHANGED <<conn, rx, app, rexmts>>
      /\ peer' = [peer EXCEPT !.st = "syn_sent", !.nxt = 1]
  BY DEF Silent, PeerConnect, PeerSends, stackIdle
<1>2. Unit(1).flags = {"SYN"} /\ Unit(1).seq = PeerISN
  BY DEF Unit, Silent, Segment
<1>3. Len(toStack') = 1 /\ toStack'[1] = Unit(1)
  BY <1>1, SeqSingle, Zenon
<1>4. \A s \in Segs(toStack') : s = Unit(1)
  BY <1>3 DEF Segs
<1>5. peer'.st = "syn_sent" /\ peer'.una = 0 /\ peer'.nxt = 1 /\ peer'.fin = 0
  BY <1>1 DEF StreamTypes, Types, Silent
<1>6. Len(toStack') <= rexmts + 1
  BY <1>3 DEF StreamTypes
<1> QED
  BY <1>1, <1>2, <1>4, <1>5, <1>6 DEF Silent, Knocking

\* The peer repeats its SYN.
LEMMA KnockingRexmt ==
    ASSUME StreamTypes, Knocking, PeerRexmt
    PROVE  Knocking'
<1>1. /\ toStack' = Append(toStack, Unit(1)) /\ rexmts' = rexmts + 1
      /\ UNCHANGED <<conn, rx, app, toPeer>> /\ IsSeq(toStack)
      /\ peer'.st = peer.st /\ peer'.una = peer.una /\ peer'.nxt = peer.nxt /\ peer'.fin = peer.fin
  <2>1. peer.una + 1 = 1
    BY DEF Knocking
  <2> QED
    BY <2>1, RexmtKeeps DEF PeerRexmt, PeerSends, stackIdle, StreamTypes, Types
<1>2. Unit(1).flags = {"SYN"} /\ Unit(1).seq = PeerISN
  BY DEF Unit, Knocking, Segment
<1>3. Len(toStack) \in Nat /\ Len(toStack') = Len(toStack) + 1 /\ rexmts \in Nat
  BY <1>1, SeqAppend DEF IsSeq, StreamTypes
<1>4. \A s \in Segs(toStack') : s.flags = {"SYN"} /\ s.seq = PeerISN
  BY <1>1, <1>2, SegsAppend DEF Knocking
<1>5. Len(toStack) <= rexmts + 1 => Len(toStack') <= rexmts' + 1
  BY <1>1, <1>3
<1>6. \A b : Drifted(conn, toStack, b, rexmts) => Drifted(conn, toStack', b, rexmts')
  <2>1. rexmts' \in Nat /\ rexmts <= rexmts' /\ Len(toStack') + rexmts <= Len(toStack) + rexmts'
        /\ Len(toStack') \in Nat
    BY <1>1, <1>3
  <2> QED
    BY <1>3, <2>1, DriftKept
<1> QED
  BY <1>1, <1>4, <1>5, <1>6 DEF Knocking

\* A segment is lost, in one direction or the other.
LEMMA KnockingLose ==
    ASSUME StreamTypes, Knocking, Lose, UNCHANGED <<peer, rexmts>>
    PROVE  Knocking'
<1>1. /\ UNCHANGED <<conn, rx, app, peer, rexmts>> /\ IsSeq(toPeer) /\ IsSeq(toStack)
      /\ \/ toPeer' = toPeer /\ toStack # <<>> /\ toStack' = Tail(toStack)
         \/ toStack' = toStack /\ toPeer # <<>> /\ toPeer' = Tail(toPeer)
  BY DEF Lose, Fault, netIdle, StreamTypes, Types
<1>2. CASE toPeer' = toPeer /\ toStack # <<>> /\ toStack' = Tail(toStack)
  <2>1. /\ Len(toStack) \in Nat /\ Len(toStack') \in Nat /\ Len(toStack') <= Len(toStack)
        /\ Segs(toStack') \subseteq Segs(toStack) /\ rexmts \in Nat
    <3>1. Len(toStack) \in Nat /\ Len(toStack) >= 1 /\ Len(toStack') = Len(toStack) - 1
      BY <1>1, <1>2, SeqTail DEF IsSeq
    <3>2. Segs(toStack') \subseteq Segs(toStack) /\ rexmts \in Nat
      BY <1>1, <1>2, SegsTail DEF StreamTypes
    <3> QED
      BY <3>1, <3>2
  <2>2. \A b : Drifted(conn, toStack, b, rexmts) => Drifted(conn, toStack', b, rexmts)
    <3>1. rexmts <= rexmts /\ Len(toStack') + rexmts <= Len(toStack) + rexmts
      BY <2>1
    <3> QED
      BY <2>1, <3>1, DriftKept
  <2>3. Len(toStack) <= rexmts + 1 => Len(toStack') <= rexmts + 1
    BY <2>1
  <2> QED
    BY <1>1, <1>2, <2>1, <2>2, <2>3 DEF Knocking
<1>3. CASE toStack' = toStack /\ toPeer # <<>> /\ toPeer' = Tail(toPeer)
  <2>1. Segs(toPeer') \subseteq Segs(toPeer) /\ \A b : AckFirst(toPeer, b) => AckFirst(toPeer', b)
    BY <1>1, <1>3, SegsTail, AckFirstKept
  <2> QED
    BY <1>1, <1>3, <2>1 DEF Knocking
<1> QED
  BY <1>1, <1>2, <1>3

\* tcp_fsm() gets the SYN, or the SYN once more.
LEMMA KnockingIngress ==
    ASSUME StreamTypes, Knocking, Ingress, UNCHANGED <<peer, rexmts>>, FewSegments
    PROVE  Knocking'
<1> DEFINE s == Head(toStack)
<1>1. /\ toStack # <<>> /\ IsSeq(toStack) /\ IsSeq(toPeer) /\ toStack' = Tail(toStack)
      /\ rx = Idle /\ UntimedInput(s)
  BY InputUntimed DEF UntimedInput, Ingress, StreamTypes, Types
<1>2. /\ Len(toStack) \in Nat /\ Len(toStack) >= 1 /\ Len(toStack') = Len(toStack) - 1
      /\ Segs(toStack') \subseteq Segs(toStack) /\ s \in Segs(toStack)
  BY <1>1, SeqTail, SegsTail DEF IsSeq
<1>3. s.flags = {"SYN"} /\ s.seq = PeerISN
  BY <1>2 DEF Knocking
<1> HIDE DEF s
<1>4. rexmts \in Nat /\ rexmts \in 0..SeqMod
  BY SeqAssumption, PeerAssumption DEF StreamTypes, FewSegments
<1>5. CASE conn = NoConn
  <2>1. conn.state = "NONE" /\ toPeer = <<>> /\ Len(toStack) <= rexmts + 1
    BY <1>5 DEF Knocking, NoConn
  <2>2. FsmListenSyn(s)
    BY <1>1, <1>3, <2>1 DEF UntimedInput, Fsm, InputNoConn, InputBadSyn, FsmIgnore, FsmSynSent,
        FsmSynRcvdRst, FsmSynRcvdAck, FsmSynRcvdOther, FsmLastAck, FsmEstablished, Synchronized
  <2>3. PICK isn \in ISNs :
           /\ conn' = [NewConn("LISTEN") EXCEPT !.state = IF bound THEN "SYN_RCVD" ELSE "CLOSED",
                                    !.recv_next = Plus(s.seq, 1), !.send_next = Plus(isn, 1)]
           /\ toPeer' = Append(toPeer, Segment(IF bound THEN s.flags \cup {"ACK"}
                                 ELSE (s.flags \ {"SYN"}) \cup {"RST", "ACK"},
                        isn, Plus(s.seq, 1), NoData))
    BY <1>5, <2>2, Zenon DEF FsmListenSyn, Reply
  <2>4. rx' = Idle /\ app' = app
    BY <1>1, <2>2 DEF FsmListenSyn, inputIdle, Reply, NoReply
  <2> DEFINE r == Segment(IF bound THEN s.flags \cup {"ACK"}
                                 ELSE (s.flags \ {"SYN"}) \cup {"RST", "ACK"},
                        isn, Plus(s.seq, 1), NoData)
             b == Plus(isn, 1)
  <2>5. r.flags = (IF bound THEN {"SYN", "ACK"} ELSE {"RST", "ACK"}) /\ r.seq = isn
    BY <1>3 DEF Segment
  <2>6. /\ conn'.state = (IF bound THEN "SYN_RCVD" ELSE "CLOSED")
        /\ conn'.recv_next = Plus(PeerISN, 1) /\ conn'.send_next = Plus(isn, 1)
    BY <1>3, <2>3 DEF NewConn
  <2>7. b \in Seq32
    <3>1. isn \in Seq32 /\ 1 \in 0..SeqMod
      BY SeqAssumption DEF Seq32
    <3> QED
      BY <3>1, PlusCases
  <2>8. SeqOf(2) = Plus(PeerISN, 1)
    BY DEF SeqOf
  <2> HIDE DEF r, b
  <2>9. Len(toPeer') = 1 /\ toPeer'[1] = r
    BY <2>1, <2>3, SeqSingle, Zenon DEF r
  <2>10. AckFirst(toPeer', b)
    BY <2>5, <2>9 DEF AckFirst, b
  <2>11. \A e \in Segs(toPeer') : e = r
    BY <2>9 DEF Segs
  <2>12. Drifted(conn', toStack', b, rexmts)
    <3>1. 0 \in 0..rexmts /\ 0 + Len(toStack') <= rexmts
      BY <1>2, <1>4, <2>1
    <3>2. conn'.send_next = Plus(b, 0)
      <4>1. 0 \in 0..(SeqMod - 1)
        BY SeqAssumption
      <4> QED
        BY <2>6, <2>7, <4>1, PlusMoves DEF b
    <3> QED
      BY <2>6, <2>8, <3>1, <3>2 DEF Drifted
  <2>13. CASE bound
    <3>1. conn'.state = "SYN_RCVD"
      BY <2>6, <2>13
    <3> QED
      BY <1>2, <2>4, <2>7, <2>10, <2>12, <3>1 DEF Knocking
  <2>14. CASE ~bound
    <3>1. conn'.state = "CLOSED" /\ r.flags = {"RST", "ACK"}
      BY <2>5, <2>6, <2>14
    <3> QED
      BY <1>2, <2>4, <2>11, <3>1 DEF Knocking
  <2> QED
    BY <2>13, <2>14
<1>6. CASE conn.state = "CLOSED"
  <2>1. conn # NoConn
    BY <1>6 DEF NoConn
  <2>2. FsmIgnore(s)
    BY <1>1, <1>3, <1>6, <2>1 DEF UntimedInput, Fsm, InputNoConn, InputBadSyn, FsmListenSyn, FsmSynSent,
        FsmSynRcvdRst, FsmSynRcvdAck, FsmSynRcvdOther, FsmLastAck, FsmEstablished, Synchronized
  <2>3. conn' = RtoUpdate(conn) /\ toPeer' = toPeer /\ rx' = rx /\ app' = app
    BY <1>1, <2>2 DEF FsmIgnore, inputIdle, Reply, NoReply
  <2>4. conn'.state = "CLOSED"
    BY <1>6, <2>1, <2>3, RtoUpdateFields DEF StreamTypes, Types
  <2>5. \A e \in Segs(toPeer) : "SYN" \notin e.flags
    BY <1>6, <2>1 DEF Knocking
  <2> QED
    BY <1>2, <2>3, <2>4, <2>5 DEF Knocking
<1>7. CASE conn.state = "SYN_RCVD"
  <2>1. conn # NoConn
    BY <1>7 DEF NoConn
  <2>2. FsmSynRcvdOther(s)
    BY <1>1, <1>3, <1>7, <2>1 DEF UntimedInput, Fsm, InputNoConn, InputBadSyn, FsmListenSyn, FsmSynSent,
        FsmIgnore, FsmSynRcvdRst, FsmSynRcvdAck, FsmLastAck, FsmEstablished, Synchronized
  <2> DEFINE c == RtoUpdate(conn)
             r == Segment(s.flags \ {"ACK"}, conn.send_next, s.seq, NoData)
  <2>3. /\ conn' = [c EXCEPT !.recv_next = s.seq, !.send_next = Plus(conn.send_next, 1)]
        /\ toPeer' = Append(toPeer, r) /\ rx' = rx /\ app' = app
    BY <1>1, <2>2 DEF FsmSynRcvdOther, inputIdle, Reply, NoReply
  <2>4. IsConn(c) /\ c.state = "SYN_RCVD"
    BY <1>7, <2>1, RtoUpdateFields DEF StreamTypes, Types
  <2>5. "ACK" \notin r.flags
    BY DEF Segment
  <2> HIDE DEF c, r
  <2>6. conn'.state = "SYN_RCVD" /\ conn'.send_next = Plus(conn.send_next, 1)
    BY <2>3, <2>4 DEF IsConn
  <2>7. PICK b \in Seq32 : Drifted(conn, toStack, b, rexmts) /\ AckFirst(toPeer, b)
    BY <1>7, <2>1 DEF Knocking
  <2>8. Drifted(conn', toStack', b, rexmts)
    BY <1>2, <1>4, <2>6, <2>7, DriftGrows
  <2>9. AckFirst(toPeer', b)
    BY <1>1, <2>3, <2>5, <2>7, AckFirstKept
  <2> QED
    BY <1>2, <2>3, <2>6, <2>8, <2>9 DEF Knocking
<1> QED
  BY <1>5, <1>6, <1>7 DEF Knocking

\* The peer takes an answer: it has a connection, or never will have one, or goes
\* on waiting.
LEMMA KnockingRecv ==
    ASSUME StreamTypes, Knocking, PeerRecv
    PROVE  Knocking' \/ Mute' \/ Early'
<1> DEFINE s == Head(toPeer)
<1>1. /\ toPeer # <<>> /\ IsSeq(toPeer) /\ IsSeq(toStack) /\ toPeer' = Tail(toPeer)
      /\ UNCHANGED <<conn, rx, app, rexmts>>
      /\ peer.st = "syn_sent" /\ peer.una = 0 /\ peer.nxt = 1 /\ peer.fin = 0
      /\ rx = Idle /\ app = <<>>
  BY DEF PeerRecv, stackIdle, StreamTypes, Types, Knocking
<1>2. Segs(toPeer') \subseteq Segs(toPeer) /\ s \in Segs(toPeer)
  BY <1>1, SegsTail
<1>3. PeerRecvSynSent(s) \/ PeerIgnores(s)
  BY <1>1 DEF PeerRecv, PeerRecvEst
<1>4. \A b : AckFirst(toPeer, b) =>
           /\ AckFirst(toPeer', b) /\ \A e \in Segs(toPeer') : "ACK" \notin e.flags
           /\ "ACK" \in s.flags => Plus(s.seq, 1) = b
  BY <1>1, AckFirstKept
<1>5. \A e \in Segs(toStack) : e.flags = {"SYN"} /\ e.seq = PeerISN
  BY DEF Knocking
<1>6. DOMAIN peer = {"st", "una", "nxt", "fin", "rcv", "plain", "early"}
  BY DEF StreamTypes, Types
<1> HIDE DEF s
<1>7. CASE PeerIgnores(s)
  <2>1. UNCHANGED <<peer, toStack>>
    BY <1>7 DEF PeerIgnores
  <2>2. conn # NoConn
    BY <1>1 DEF Knocking, NoConn
  <2>3. \/ conn.state = "CLOSED" /\ \A e \in Segs(toPeer') : "SYN" \notin e.flags
        \/ /\ conn.state = "SYN_RCVD"
           /\ \E b \in Seq32 : Drifted(conn, toStack, b, rexmts) /\ AckFirst(toPeer', b)
    BY <1>2, <1>4, <2>2 DEF Knocking
  <2>4. Knocking'
    BY <1>1, <1>5, <2>1, <2>3 DEF Knocking
  <2> QED
    BY <2>4
<1>8. CASE {"SYN", "ACK"} \subseteq s.flags /\ PeerRecvSynSent(s)
  <2>1. conn.state = "SYN_RCVD"
    BY <1>1, <1>2, <1>8 DEF Knocking
  <2> DEFINE r == Segment({"ACK"}, SeqOf(2), Plus(s.seq, 1), NoData)
  <2>2. CASE /\ peer' = [peer EXCEPT !.st = "est", !.una = 1, !.rcv = Plus(s.seq, 1)]
             /\ toStack' = Append(toStack, r)
    <3>1. r.flags = {"ACK"} /\ r.ack = Plus(s.seq, 1)
      BY DEF Segment
    <3> HIDE DEF r
    <3>2. PICK b \in Seq32 : Drifted(conn, toStack, b, rexmts) /\ AckFirst(toPeer, b)
      BY <2>1 DEF Knocking, NoConn
    <3>3. b = Plus(s.seq, 1) /\ \A e \in Segs(toPeer') : "ACK" \notin e.flags
      BY <1>4, <1>8, <3>2
    <3>4. /\ peer'.st = "est" /\ peer'.una = 1 /\ peer'.nxt = 1 /\ peer'.fin = 0 /\ peer'.rcv = b
      BY <1>1, <1>6, <2>2, <3>3
    <3>5. Segs(toStack') = Segs(toStack) \cup {r}
      BY <1>1, <2>2, SegsAppend
    <3>6. SynsFirst(toStack')
      <4>1. SynsFirst(toStack)
        BY <1>5 DEF SynsFirst, Segs
      <4> QED
        BY <1>1, <2>2, <3>1, <4>1, SynsFirstKept
    <3>7. \A e \in Segs(toStack') : IF "SYN" \in e.flags THEN e.flags = {"SYN"} ELSE e.ack = b
      BY <1>5, <3>1, <3>3, <3>5
    <3>8. \A e \in Segs(toStack') : Numbered(e)
      BY <1>5, <3>1, <3>5 DEF Numbered
    <3>9. Drifted(conn, toStack', b, rexmts + 1)
      <4>1. Len(toStack) \in Nat /\ Len(toStack') = Len(toStack) + 1 /\ rexmts \in Nat
        BY <1>1, <2>2, SeqAppend DEF IsSeq, StreamTypes
      <4>2. Len(toStack') \in Nat /\ rexmts + 1 \in Nat /\ rexmts <= rexmts + 1
            /\ Len(toStack') + rexmts <= Len(toStack) + (rexmts + 1)
        BY <4>1
      <4> QED
        BY <3>2, <4>1, <4>2, DriftKept
    <3>10. PeerTotal' = rexmts + 1
      BY <1>1, <3>4 DEF PeerTotal, StreamTypes
    <3>11. Sending'
      BY <3>4, <3>8, PeerAssumption DEF Sending
    <3>12. Early'
      BY <1>1, <2>1, <3>2, <3>3, <3>4, <3>6, <3>7, <3>9, <3>10, <3>11 DEF Early
    <3> QED
      BY <3>12
  <2>3. CASE peer' = [peer EXCEPT !.st = "refused"] /\ UNCHANGED toStack
    <3>1. peer'.st = "refused" /\ peer'.una = 0
      BY <1>1, <1>6, <2>3
    <3>2. Mute'
      BY <1>1, <1>5, <2>3, <3>1 DEF Mute
    <3> QED
      BY <3>2
  <2> QED
    BY <1>8, <2>2, <2>3, Zenon DEF PeerRecvSynSent, PeerSends
<1>9. CASE ~({"SYN", "ACK"} \subseteq s.flags) /\ PeerRecvSynSent(s)
  <2> DEFINE r == Segment({"SYN", "ACK"}, PeerISN, Plus(s.seq, 1), NoData)
  <2>1. \/ /\ peer' = [peer EXCEPT !.st = "syn_rcvd", !.rcv = Plus(s.seq, 1)]
           /\ toStack' = Append(toStack, r)
        \/ peer' = [peer EXCEPT !.st = "refused"] /\ UNCHANGED toStack
    BY <1>9, Zenon DEF PeerRecvSynSent, PeerSends
  <2>2. r.flags = {"SYN", "ACK"}
    BY DEF Segment
  <2> HIDE DEF r
  <2>3. Segs(toStack') \subseteq Segs(toStack) \cup {r}
    BY <1>1, <2>1, SegsAppend
  <2>4. peer'.st \in {"syn_rcvd", "refused"} /\ peer'.una = 0
    BY <1>1, <1>6, <2>1
  <2>5. Mute'
    BY <1>1, <1>5, <2>2, <2>3, <2>4 DEF Mute
  <2> QED
    BY <2>5
<1> QED
  BY <1>3, <1>7, <1>8, <1>9

\* A peer without a connection stays without one.
LEMMA MuteStep ==
    ASSUME StreamTypes, Mute,
           PeerStep \/ ((Ingress \/ IngressStep \/ Lose) /\ UNCHANGED <<peer, rexmts>>)
    PROVE  Mute'
<1>1. CASE PeerRexmt
  <2>1. toStack' = Append(toStack, Unit(1)) /\ UNCHANGED <<conn, rx, app>>
        /\ peer'.st = peer.st /\ peer'.una = peer.una
    <3>1. peer.una + 1 = 1
      BY DEF Mute
    <3> QED
      BY <1>1, <3>1, RexmtKeeps DEF PeerRexmt, PeerSends, stackIdle, StreamTypes
  <2>2. "PSH" \notin Unit(1).flags
    BY DEF Unit, Segment
  <2>3. Segs(toStack') = Segs(toStack) \cup {Unit(1)}
    BY <2>1, SegsAppend DEF StreamTypes, Types
  <2> QED
    BY <2>1, <2>2, <2>3 DEF Mute
<1>2. CASE PeerStep /\ ~PeerRexmt
  <2>1. PeerRecv
    BY <1>2 DEF Mute, PeerStep, PeerConnect, PeerSend, PeerClose, PeerSendAndClose, PeerAbort
  <2>2. UNCHANGED <<conn, rx, app, peer, toStack>>
    BY <2>1 DEF PeerRecv, stackIdle, PeerRecvSynSent, PeerRecvEst, PeerIgnores, Mute
  <2> QED
    BY <2>2 DEF Mute
<1>3. CASE Ingress /\ UNCHANGED <<peer, rexmts>>
  <2> DEFINE s == Head(toStack)
  <2>1. toStack # <<>> /\ toStack' = Tail(toStack) /\ rx = Idle /\ UntimedInput(s)
    BY <1>3, InputUntimed DEF Ingress, UntimedInput, StreamTypes
  <2>2. Segs(toStack') \subseteq Segs(toStack) /\ s \in Segs(toStack)
    BY <2>1, SegsTail DEF StreamTypes, Types
  <2> HIDE DEF s
  <2>3. app' = app /\ (rx' = rx \/ rx' = [pc |-> "free", seg |-> s] \/ rx' = [pc |-> "data", seg |-> s])
    BY <2>1, Zenon DEF UntimedInput, Fsm, InputNoConn, InputBadSyn, FsmListenSyn, FsmIgnore, FsmSynSent,
              FsmSynRcvdRst, FsmSynRcvdAck, FsmSynRcvdOther, FsmLastAck, FsmEstablished, inputIdle, Reply, NoReply
  <2>4. rx' = Idle \/ rx'.seg = s
    BY <2>1, <2>3
  <2> QED
    BY <1>3, <2>2, <2>3, <2>4 DEF Mute
<1>4. CASE IngressStep /\ UNCHANGED <<peer, rexmts>>
  <2>0. UntimedStep
    BY <1>4, StepUntimed DEF StreamTypes
  <2>1. rx # Idle /\ toStack' = toStack
    BY <2>0 DEF UntimedStep, AckFree, AckRearm, EstablishedData, EstablishedFin, EstablishedOther, Idle
  <2>2. ~EstablishedData
    BY <2>1 DEF EstablishedData, CarriesData, Mute
  <2>3. app' = app
    BY <2>0, <2>2 DEF UntimedStep, AckFree, AckRearm, EstablishedFin, EstablishedOther
  <2>4. rx' = Idle \/ rx' = [rx EXCEPT !.pc = "rearm"] \/ rx' = [rx EXCEPT !.pc = "data"]
    BY <2>0, <2>2, Zenon DEF UntimedStep, AckFree, AckRearm, EstablishedFin, EstablishedOther, Reply
  <2>5. rx' = Idle \/ rx'.seg = rx.seg
    BY <2>1, <2>4 DEF StreamTypes, Types
  <2> QED
    BY <1>4, <2>1, <2>3, <2>5 DEF Mute
<1>5. CASE Lose /\ UNCHANGED <<peer, rexmts>>
  <2>1. UNCHANGED <<conn, rx, app, peer>> /\ (toStack' = toStack \/ (toStack # <<>> /\ toStack' = Tail(toStack)))
    BY <1>5 DEF Lose, Fault, netIdle
  <2>2. Segs(toStack') \subseteq Segs(toStack)
    BY <2>1, SegsTail DEF StreamTypes, Types
  <2> QED
    BY <2>1, <2>2 DEF Mute
<1> QED
  BY <1>1, <1>2, <1>3, <1>4, <1>5

\* A peer that has a connection sends something: the next unit, an old one, or a
\* RST.
LEMMA SendingStep ==
    ASSUME StreamTypes, Sending, PeerStep, ~PeerRecv
    PROVE  \E s : /\ PeerSends(s) /\ "SYN" \notin s.flags /\ s.ack = peer.rcv /\ Numbered(s)
                  /\ peer'.rcv = peer.rcv /\ PeerTotal' \in Nat /\ PeerTotal' >= PeerTotal + 1
                  /\ UNCHANGED <<stackIdle, toPeer>> /\ Sending'
<1>1. /\ peer.nxt \in Nat /\ peer.nxt >= 1 /\ peer.nxt <= MaxData + 2 /\ MaxData \in Nat
      /\ peer.una \in Nat /\ peer.una >= 1 /\ peer.una <= peer.nxt /\ rexmts \in Nat
      /\ DOMAIN peer = {"st", "una", "nxt", "fin", "rcv", "plain", "early"}
  BY PeerAssumption DEF Sending, StreamTypes, Types
<1>2. ~PeerConnect /\ peer.st \in {"est", "aborted"}
  BY DEF PeerConnect, Sending
<1>3. ASSUME NEW s, PeerSends(s), Numbered(s), UNCHANGED <<stackIdle, toPeer>>,
             "SYN" \notin s.flags, s.ack = peer.rcv, peer'.rcv = peer.rcv,
             peer.st = "est", peer'.st \in {"est", "aborted"},
             peer'.nxt \in peer.nxt..(MaxData + 2), peer'.una = peer.una,
             peer'.fin = 0 => peer'.nxt <= MaxData + 1,
             peer'.fin # 0 => peer'.fin = peer'.nxt /\ peer'.st = "est",
             rexmts' \in Nat, rexmts' >= rexmts,
             \/ rexmts' = rexmts + 1 \/ peer'.nxt > peer.nxt \/ peer'.st = "aborted"
      PROVE  \E r : /\ PeerSends(r) /\ "SYN" \notin r.flags /\ r.ack = peer.rcv /\ Numbered(r)
                    /\ peer'.rcv = peer.rcv /\ PeerTotal' \in Nat /\ PeerTotal' >= PeerTotal + 1
                    /\ UNCHANGED <<stackIdle, toPeer>> /\ Sending'
  <2>1. Segs(toStack') = Segs(toStack) \cup {s}
    BY <1>3, SegsAppend DEF PeerSends, StreamTypes, Types
  <2>2. \A e \in Segs(toStack') : Numbered(e)
    BY <1>3, <2>1 DEF Sending
  <2>3. peer'.nxt \in 1..(MaxData + 2) /\ peer'.una \in 1..peer'.nxt
    BY <1>1, <1>3
  <2>4. Sending'
    BY <1>3, <2>2, <2>3 DEF Sending
  <2>5. PeerTotal = rexmts + peer.nxt
    BY <1>1, <1>3 DEF PeerTotal
  <2>6. PeerTotal' = rexmts' + peer'.nxt + (IF peer'.st = "aborted" THEN 1 ELSE 0)
    BY DEF PeerTotal
  <2>7. PeerTotal' \in Nat /\ PeerTotal' >= PeerTotal + 1
    BY <1>1, <1>3, <2>3, <2>5, <2>6
  <2> QED
    BY <1>3, <2>4, <2>7
<1>4. \A flags, i, data :
        LET s == PeerSegment(flags, i, data)
        IN  s.flags = flags /\ s.seq = SeqOf(i) /\ s.ack = peer.rcv /\ s.data = data
  BY DEF PeerSegment, Segment
<1>5. CASE PeerSend
  <2>0. PICK plain :
           /\ PeerSends(PeerSegment(DataFlags(plain, peer.nxt + 1), peer.nxt + 1, peer.nxt))
           /\ peer' = [peer EXCEPT !.nxt = @ + 1, !.plain = plain]
    BY <1>5, Zenon DEF PeerSend
  <2> DEFINE s == PeerSegment(DataFlags(plain, peer.nxt + 1), peer.nxt + 1, peer.nxt)
  <2>1. /\ PeerSends(s) /\ UNCHANGED <<stackIdle, toPeer>> /\ rexmts' = rexmts
        /\ peer.st = "est" /\ peer.fin = 0 /\ peer.nxt <= MaxData
        /\ peer' = [peer EXCEPT !.nxt = @ + 1, !.plain = plain]
    BY <1>5, <2>0 DEF PeerSend
  <2>2. peer'.rcv = peer.rcv /\ peer'.st = "est" /\ peer'.nxt = peer.nxt + 1 /\ peer'.fin = 0
        /\ peer'.una = peer.una
    BY <1>1, <2>1
  <2>3. Numbered(s) /\ "SYN" \notin s.flags /\ s.ack = peer.rcv
    BY <1>1, <1>4, <2>1 DEF Numbered, DataFlags
  <2> HIDE DEF s
  <2>4. peer'.nxt \in peer.nxt..(MaxData + 2) /\ peer'.nxt <= MaxData + 1 /\ peer'.nxt > peer.nxt
        /\ rexmts' \in Nat /\ rexmts' >= rexmts
    BY <1>1, <2>1, <2>2
  <2> QED
    BY <1>3, <2>1, <2>2, <2>3, <2>4
<1>6. CASE PeerClose
  <2> DEFINE s == PeerSegment({"FIN", "ACK"}, peer.nxt + 1, NoData)
  <2>1. /\ PeerSends(s) /\ UNCHANGED <<stackIdle, toPeer>> /\ rexmts' = rexmts
        /\ peer.st = "est" /\ peer.fin = 0
        /\ peer' = [peer EXCEPT !.nxt = @ + 1, !.fin = peer.nxt + 1]
    BY <1>6 DEF PeerClose
  <2>2. peer'.rcv = peer.rcv /\ peer'.st = "est" /\ peer'.nxt = peer.nxt + 1
        /\ peer'.fin = peer.nxt + 1 /\ peer'.una = peer.una
    BY <1>1, <2>1
  <2>3. Numbered(s) /\ "SYN" \notin s.flags /\ s.ack = peer.rcv
    BY <1>4 DEF Numbered
  <2> HIDE DEF s
  <2>4. peer'.nxt \in peer.nxt..(MaxData + 2) /\ peer'.fin # 0 /\ peer'.nxt > peer.nxt
        /\ rexmts' \in Nat /\ rexmts' >= rexmts
    BY <1>1, <2>1, <2>2 DEF Sending
  <2> QED
    BY <1>3, <2>1, <2>2, <2>3, <2>4
<1>7. CASE PeerSendAndClose
  <2> DEFINE s == PeerSegment({"PSH", "FIN", "ACK"}, peer.nxt + 1, peer.nxt)
  <2>1. /\ PeerSends(s) /\ UNCHANGED <<stackIdle, toPeer>> /\ rexmts' = rexmts
        /\ peer.st = "est" /\ peer.fin = 0 /\ peer.nxt <= MaxData
        /\ peer' = [peer EXCEPT !.nxt = @ + 2, !.fin = peer.nxt + 2]
    BY <1>7 DEF PeerSendAndClose
  <2>2. peer'.rcv = peer.rcv /\ peer'.st = "est" /\ peer'.nxt = peer.nxt + 2
        /\ peer'.fin = peer.nxt + 2 /\ peer'.una = peer.una
    BY <1>1, <2>1
  <2>3. Numbered(s) /\ "SYN" \notin s.flags /\ s.ack = peer.rcv
    BY <1>1, <1>4, <2>1 DEF Numbered
  <2> HIDE DEF s
  <2>4. peer'.nxt \in peer.nxt..(MaxData + 2) /\ peer'.fin # 0 /\ peer'.nxt > peer.nxt
        /\ rexmts' \in Nat /\ rexmts' >= rexmts
    BY <1>1, <2>1, <2>2
  <2> QED
    BY <1>3, <2>1, <2>2, <2>3, <2>4
<1>8. CASE PeerAbort
  <2> DEFINE s == PeerSegment({"RST", "ACK"}, peer.nxt + 1, NoData)
  <2>1. /\ PeerSends(s) /\ UNCHANGED <<stackIdle, toPeer>> /\ rexmts' = rexmts
        /\ peer.st = "est" /\ peer.fin = 0 /\ peer' = [peer EXCEPT !.st = "aborted"]
    BY <1>8 DEF PeerAbort
  <2>2. peer'.rcv = peer.rcv /\ peer'.st = "aborted" /\ peer'.nxt = peer.nxt
        /\ peer'.fin = 0 /\ peer'.una = peer.una
    BY <1>1, <2>1
  <2>3. Numbered(s) /\ "SYN" \notin s.flags /\ s.ack = peer.rcv
    BY <1>4 DEF Numbered
  <2> HIDE DEF s
  <2>4. peer'.nxt \in peer.nxt..(MaxData + 2) /\ peer'.nxt <= MaxData + 1
        /\ rexmts' \in Nat /\ rexmts' >= rexmts
    BY <1>1, <2>1, <2>2 DEF Sending
  <2> QED
    BY <1>3, <2>1, <2>2, <2>3, <2>4
<1>9. CASE PeerRexmt
  <2> DEFINE i == peer.una + 1
             s == Unit(i)
  <2>1. /\ PeerSends(s) /\ UNCHANGED <<stackIdle, toPeer>> /\ rexmts' = rexmts + 1
        /\ peer.st = "est" /\ peer.una < peer.nxt /\ peer'.st = peer.st /\ peer'.una = peer.una
        /\ peer'.nxt = peer.nxt /\ peer'.fin = peer.fin /\ peer'.rcv = peer.rcv
    BY <1>2, <1>9, RexmtKeeps DEF PeerRexmt, StreamTypes
  <2>2. i > 1 /\ i # 1 /\ i <= peer.nxt /\ i - 1 = peer.una
    BY <1>1, <2>1
  <2> HIDE DEF i
  <2>3. Numbered(s) /\ "SYN" \notin s.flags /\ s.ack = peer.rcv
    <3>1. CASE i = peer.fin
      <4>1. s = PeerSegment({"FIN", "ACK"}, i, NoData)
        BY <2>2, <3>1 DEF Unit
      <4> QED
        BY <1>4, <4>1 DEF Numbered
    <3>2. CASE i # peer.fin
      <4>1. s = PeerSegment(DataFlags(peer.plain, i), i, i - 1)
        BY <2>2, <3>2 DEF Unit
      <4>2. peer.una \in 1..MaxData
        BY <1>1, <2>1, <2>2, <3>2 DEF Sending, i
      <4>3. /\ s.flags \subseteq {"PSH", "ACK"} /\ s.data = peer.una /\ s.seq = SeqOf(peer.una + 1)
            /\ s.ack = peer.rcv
        BY <1>4, <2>2, <4>1 DEF i, DataFlags
      <4> QED
        BY <4>2, <4>3 DEF Numbered
    <3> QED
      BY <3>1, <3>2
  <2> HIDE DEF s
  <2>4. peer'.nxt \in peer.nxt..(MaxData + 2) /\ rexmts' \in Nat /\ rexmts' >= rexmts
    BY <1>1, <2>1
  <2> QED
    BY <1>3, <2>1, <2>3, <2>4 DEF Sending
<1> QED
  BY <1>2, <1>5, <1>6, <1>7, <1>8, <1>9 DEF PeerStep

\* The peer sends, takes what nstack has sent (nothing with an ACK), or a segment
\* is lost.
LEMMA EarlyOutside ==
    ASSUME StreamTypes, Early, PeerStep \/ (Lose /\ UNCHANGED <<peer, rexmts>>)
    PROVE  Early'
<1>1. /\ Sending /\ conn.state = "SYN_RCVD" /\ app = <<>> /\ rx = Idle /\ peer.rcv \in Seq32
      /\ SynsFirst(toStack) /\ Drifted(conn, toStack, peer.rcv, PeerTotal)
      /\ IsSeq(toStack) /\ IsSeq(toPeer) /\ Len(toStack) \in Nat
  BY DEF Early, StreamTypes, Types, IsSeq
<1>2. PeerTotal \in Nat
  <2>1. rexmts \in Nat /\ peer.nxt \in Nat
    BY DEF StreamTypes, Types
  <2> QED
    BY <2>1 DEF PeerTotal
<1>3. CASE PeerStep /\ ~PeerRecv
  <2>1. PICK s : /\ PeerSends(s) /\ "SYN" \notin s.flags /\ s.ack = peer.rcv /\ Numbered(s)
                 /\ peer'.rcv = peer.rcv /\ PeerTotal' \in Nat /\ PeerTotal' >= PeerTotal + 1
                 /\ UNCHANGED <<stackIdle, toPeer>> /\ Sending'
    BY <1>1, <1>3, SendingStep
  <2>2. toStack' = Append(toStack, s) /\ UNCHANGED <<conn, app, rx, toPeer>>
    BY <2>1 DEF PeerSends, stackIdle
  <2>3. Segs(toStack') = Segs(toStack) \cup {s} /\ SynsFirst(toStack')
    BY <1>1, <2>1, <2>2, SegsAppend, SynsFirstKept
  <2>4. Drifted(conn, toStack', peer.rcv, PeerTotal')
    <3>1. Len(toStack') = Len(toStack) + 1
      BY <1>1, <2>2, SeqAppend
    <3>2. Len(toStack') \in Nat /\ PeerTotal <= PeerTotal'
          /\ Len(toStack') + PeerTotal <= Len(toStack) + PeerTotal'
      BY <1>1, <1>2, <2>1, <3>1
    <3> HIDE DEF PeerTotal
    <3> QED
      BY <1>1, <1>2, <2>1, <3>2, DriftKept
  <2>5. \A e \in Segs(toStack') : IF "SYN" \in e.flags THEN e.flags = {"SYN"} ELSE e.ack = peer.rcv
    BY <2>1, <2>3 DEF Early
  <2>6. \A e \in Segs(toPeer) : "ACK" \notin e.flags
    BY DEF Early
  <2> QED
    BY <1>1, <2>1, <2>2, <2>3, <2>4, <2>5, <2>6 DEF Early
<1>4. CASE PeerRecv
  <2>1. /\ toPeer # <<>> /\ toPeer' = Tail(toPeer) /\ UNCHANGED <<conn, app, rx, rexmts>>
    BY <1>4 DEF PeerRecv, stackIdle
  <2>2. Segs(toPeer') \subseteq Segs(toPeer) /\ Head(toPeer) \in Segs(toPeer)
    BY <1>1, <2>1, SegsTail
  <2>3. "ACK" \notin Head(toPeer).flags
    BY <2>2 DEF Early
  <2>4. UNCHANGED <<peer, toStack>>
    BY <1>1, <1>4, <2>3 DEF PeerRecv, PeerRecvSynSent, PeerRecvEst, PeerIgnores, Sending
  <2> QED
    BY <2>1, <2>2, <2>4 DEF Early, Sending, PeerTotal
<1>5. CASE Lose /\ UNCHANGED <<peer, rexmts>>
  <2>1. /\ UNCHANGED <<conn, rx, app, peer, rexmts>>
        /\ \/ toPeer' = toPeer /\ toStack # <<>> /\ toStack' = Tail(toStack)
           \/ toStack' = toStack /\ toPeer # <<>> /\ toPeer' = Tail(toPeer)
    BY <1>5 DEF Lose, Fault, netIdle
  <2>2. PeerTotal' = PeerTotal
    BY <2>1 DEF PeerTotal
  <2>3. Segs(toStack') \subseteq Segs(toStack) /\ Segs(toPeer') \subseteq Segs(toPeer)
    BY <1>1, <2>1, SegsTail
  <2>4. SynsFirst(toStack')
    BY <1>1, <2>1, SynsFirstKept
  <2>5. Drifted(conn, toStack', peer.rcv, PeerTotal)
    <3>1. Len(toStack') = Len(toStack) \/ (Len(toStack) >= 1 /\ Len(toStack') = Len(toStack) - 1)
      BY <1>1, <2>1, SeqTail
    <3>2. Len(toStack') \in Nat /\ PeerTotal <= PeerTotal
          /\ Len(toStack') + PeerTotal <= Len(toStack) + PeerTotal
      BY <1>1, <1>2, <3>1
    <3> QED
      BY <1>1, <1>2, <3>2, DriftKept
  <2>6. Sending'
    BY <1>1, <2>1, <2>3 DEF Sending
  <2> QED
    BY <1>1, <2>1, <2>2, <2>3, <2>4, <2>5, <2>6 DEF Early
<1> QED
  BY <1>3, <1>4, <1>5

\* tcp_fsm() in TCP_SYN_RCVD: only the acknowledgment of its SYN, in sequence and
\* with nothing out of sequence before it, opens the connection.
LEMMA EarlyIngress ==
    ASSUME StreamTypes, Early, Ingress, UNCHANGED <<peer, rexmts>>, FewSegments
    PROVE  Early' \/ Late'
<1> DEFINE s == Head(toStack)
           c == RtoUpdate(conn)
<1>1. /\ Sending /\ conn.state = "SYN_RCVD" /\ app = <<>> /\ rx = Idle /\ peer.rcv \in Seq32
      /\ SynsFirst(toStack) /\ Drifted(conn, toStack, peer.rcv, PeerTotal)
      /\ IsSeq(toStack) /\ IsSeq(toPeer) /\ conn # NoConn
  <2>1. /\ Sending /\ conn.state = "SYN_RCVD" /\ app = <<>> /\ rx = Idle /\ peer.rcv \in Seq32
        /\ SynsFirst(toStack) /\ Drifted(conn, toStack, peer.rcv, PeerTotal)
    BY Zenon DEF Early
  <2>2. IsSeq(toStack) /\ IsSeq(toPeer)
    BY Zenon DEF StreamTypes, Types
  <2>3. conn # NoConn
    BY <2>1 DEF NoConn
  <2> QED
    BY <2>1, <2>2, <2>3, Zenon
<1>2. toStack # <<>> /\ toStack' = Tail(toStack) /\ UntimedInput(s)
  BY InputUntimed DEF Ingress, StreamTypes
<1>3. /\ Len(toStack) \in Nat /\ Len(toStack) >= 1 /\ Len(toStack') = Len(toStack) - 1
  BY <1>1, <1>2, SeqTail DEF IsSeq
<1>4. Segs(toStack') \subseteq Segs(toStack) /\ s \in Segs(toStack) /\ SynsFirst(toStack')
  BY <1>1, <1>2, SegsTail, SynsFirstKept
<1>5. IF "SYN" \in s.flags THEN s.flags = {"SYN"} ELSE s.ack = peer.rcv
  BY <1>4 DEF Early
<1>6. "SYN" \notin s.flags => \A e \in Segs(toStack') : "SYN" \notin e.flags
  BY <1>1, <1>2, <1>4, SynsFirstKept
<1>7. IsConn(c) /\ c.state = "SYN_RCVD" /\ c.recv_next = conn.recv_next
  BY <1>1, RtoUpdateFields DEF StreamTypes, Types
<1>8. Sending' /\ PeerTotal' = PeerTotal
  BY <1>1, <1>4 DEF Sending, PeerTotal
<1>9. PeerTotal \in 0..SeqMod
  <2>1. /\ rexmts \in Nat /\ rexmts <= MaxRexmts /\ peer.nxt \in Nat /\ peer.nxt <= MaxData + 2
        /\ peer.st = "aborted" => peer.nxt <= MaxData + 1
    BY <1>1, PeerAssumption DEF StreamTypes, Sending
  <2>2. MaxRexmts \in Nat /\ MaxData \in Nat /\ SeqMod \in Nat /\ MaxData + MaxRexmts + 1 < SeqMod
    BY SeqAssumption, PeerAssumption DEF FewSegments
  <2> QED
    BY <2>1, <2>2 DEF PeerTotal
<1>10. FsmSynRcvdRst(s) \/ FsmSynRcvdAck(s) \/ FsmSynRcvdOther(s)
  BY <1>1, <1>2 DEF UntimedInput, Fsm, InputNoConn, InputBadSyn, FsmListenSyn, FsmSynSent, FsmIgnore,
                    FsmLastAck, FsmEstablished, Synchronized
<1> HIDE DEF s, c
<1>11. CASE FsmSynRcvdOther(s)
  <2> DEFINE r == Segment(s.flags \ {"ACK"}, conn.send_next, s.seq, NoData)
  <2>1. /\ conn' = [c EXCEPT !.recv_next = s.seq, !.send_next = Plus(conn.send_next, 1)]
        /\ toPeer' = Append(toPeer, r) /\ rx' = rx /\ app' = app
    BY <1>1, <1>11 DEF FsmSynRcvdOther, inputIdle, Reply, NoReply, c
  <2>2. "ACK" \notin r.flags
    BY DEF Segment
  <2> HIDE DEF r
  <2>3. conn'.state = "SYN_RCVD" /\ conn'.send_next = Plus(conn.send_next, 1)
    BY <1>7, <2>1 DEF IsConn
  <2>4. Drifted(conn', toStack', peer.rcv, PeerTotal)
    BY <1>1, <1>3, <1>9, <2>3, DriftGrows
  <2>5. \A e \in Segs(toPeer') : "ACK" \notin e.flags
    BY <1>1, <2>1, <2>2, SegsAppend DEF Early
  <2>6. \A e \in Segs(toStack') : IF "SYN" \in e.flags THEN e.flags = {"SYN"} ELSE e.ack = peer.rcv
    BY <1>4 DEF Early
  <2>7. Early'
    BY <1>1, <1>4, <1>8, <2>1, <2>3, <2>4, <2>5, <2>6 DEF Early
  <2> QED
    BY <2>7
<1>12. CASE FsmSynRcvdRst(s) \/ FsmSynRcvdAck(s)
  <2>1. s.ack = conn.send_next /\ "SYN" \notin s.flags
    BY <1>5, <1>12 DEF FsmSynRcvdRst, FsmSynRcvdAck, InSequence
  <2>2. conn.recv_next = SeqOf(2)
    <3>1. PICK n \in 0..PeerTotal : /\ conn.send_next = Plus(peer.rcv, n) /\ n + Len(toStack) <= PeerTotal
                                    /\ n = 0 => conn.recv_next = SeqOf(2)
      BY <1>1 DEF Drifted
    <3>2. n \in 0..(SeqMod - 1)
      BY <1>3, <1>9, <3>1, SeqAssumption
    <3>3. Plus(peer.rcv, n) = peer.rcv
      BY <1>5, <2>1, <3>1
    <3> QED
      BY <1>1, <3>1, <3>2, <3>3, PlusMoves
  <2>3. /\ rx' = Idle /\ app' = <<>>
        /\ \/ conn' = [c EXCEPT !.state = "LISTEN"]
           \/ conn' = [c EXCEPT !.state = "ESTABLISHED", !.keep = FALSE]
    BY <1>1, <1>12 DEF FsmSynRcvdRst, FsmSynRcvdAck, inputIdle, Reply, NoReply, c
  <2>4. conn'.state \in {"LISTEN", "ESTABLISHED"} /\ conn'.recv_next = SeqOf(2)
    BY <1>7, <2>2, <2>3 DEF IsConn
  <2>5. Len(app') = 0 /\ app' = [i \in 1..Len(app') |-> i] /\ Len(app') + 2 = 2 /\ 0 \in 0..MaxData
    BY <2>3, PeerAssumption
  <2>6. Late'
    BY <1>6, <1>8, <2>1, <2>3, <2>4, <2>5 DEF Late, AppGetsPrefix
  <2> QED
    BY <2>6
<1> QED
  BY <1>10, <1>11, <1>12

\* The peer sends, or takes what nstack has sent, or a segment is lost.
LEMMA LateOutside ==
    ASSUME StreamTypes, Late, PeerStep \/ (Lose /\ UNCHANGED <<peer, rexmts>>)
    PROVE  Late'
<1>1. Sending /\ IsSeq(toStack) /\ IsSeq(toPeer)
  BY DEF Late, StreamTypes, Types
<1>2. ASSUME UNCHANGED <<conn, rx, app>>, Sending', \A s \in Segs(toStack') : "SYN" \notin s.flags
      PROVE  Late'
  BY <1>2 DEF Late, AppGetsPrefix
<1>3. CASE PeerStep /\ ~PeerRecv
  <2>1. PICK s : PeerSends(s) /\ "SYN" \notin s.flags /\ UNCHANGED <<stackIdle, toPeer>> /\ Sending'
    BY <1>1, <1>3, SendingStep
  <2>2. toStack' = Append(toStack, s) /\ UNCHANGED <<conn, app, rx>>
    BY <2>1 DEF PeerSends, stackIdle
  <2>3. \A e \in Segs(toStack') : "SYN" \notin e.flags
    BY <1>1, <2>1, <2>2, SegsAppend DEF Late
  <2> QED
    BY <1>2, <2>1, <2>2, <2>3
<1>4. CASE PeerRecv
  <2>1. PICK s : PeerRecvSynSent(s) \/ PeerRecvEst(s) \/ PeerIgnores(s)
    BY <1>4 DEF PeerRecv
  <2>2. UNCHANGED <<conn, app, rx>>
    BY <1>4 DEF PeerRecv, stackIdle
  <2>3. ~PeerRecvSynSent(s)
    BY <1>1 DEF PeerRecvSynSent, Sending
  <2>4. CASE PeerIgnores(s)
    <3>1. UNCHANGED <<peer, toStack>>
      BY <2>4 DEF PeerIgnores
    <3>2. Sending' /\ \A e \in Segs(toStack') : "SYN" \notin e.flags
      BY <1>1, <3>1 DEF Sending, Late
    <3> QED
      BY <1>2, <2>2, <3>2
  <2>5. CASE PeerRecvEst(s)
    <3> DEFINE u == IF Acked(s) = {} THEN peer.una ELSE CHOOSE k \in Acked(s) : TRUE
    <3>1. PICK v : peer' = [peer EXCEPT !.rcv = v, !.una = u]
      BY <2>5, Zenon DEF PeerRecvEst
    <3>2. u \in 1..peer.nxt
      <4>1. u = peer.una \/ u \in Acked(s)
        <5>1. Acked(s) # {} => (CHOOSE k \in Acked(s) : TRUE) \in Acked(s)
          OBVIOUS
        <5> QED
          BY <5>1
      <4> HIDE DEF u
      <4> QED
        BY <1>1, <4>1 DEF Sending, Acked
    <3> HIDE DEF u
    <3>3. /\ peer'.st = peer.st /\ peer'.nxt = peer.nxt /\ peer'.fin = peer.fin /\ peer'.una = u
      BY <3>1 DEF StreamTypes, Types
    <3>4. toStack' = toStack \/ \E n, a : toStack' = Append(toStack, Segment({"ACK"}, n, a, NoData))
      BY <2>5, Zenon DEF PeerRecvEst, PeerSends
    <3>5. \A e \in Segs(toStack') : "SYN" \notin e.flags /\ Numbered(e)
      <4>1. \A n, a : Segment({"ACK"}, n, a, NoData).flags = {"ACK"}
        BY DEF Segment
      <4>2. \A e \in Segs(toStack') : e \in Segs(toStack) \/ e.flags = {"ACK"}
        <5>1. CASE toStack' = toStack
          BY <5>1
        <5>2. ASSUME NEW n, NEW a, toStack' = Append(toStack, Segment({"ACK"}, n, a, NoData))
              PROVE  \A e \in Segs(toStack') : e \in Segs(toStack) \/ e.flags = {"ACK"}
          <6> DEFINE r == Segment({"ACK"}, n, a, NoData)
          <6>1. r.flags = {"ACK"}
            BY <4>1
          <6> HIDE DEF r
          <6>2. Segs(toStack') = Segs(toStack) \cup {r}
            BY <1>1, <5>2, SegsAppend DEF r
          <6> QED
            BY <6>1, <6>2
        <5> QED
          BY <3>4, <5>1, <5>2
      <4> QED
        BY <1>1, <4>2 DEF Late, Sending, Numbered
    <3>6. Sending'
      BY <1>1, <3>2, <3>3, <3>5 DEF Sending
    <3> QED
      BY <1>2, <2>2, <3>5, <3>6
  <2> QED
    BY <2>1, <2>3, <2>4, <2>5
<1>5. CASE Lose /\ UNCHANGED <<peer, rexmts>>
  <2>1. /\ UNCHANGED <<conn, rx, app, peer>>
        /\ toStack' = toStack \/ (toStack # <<>> /\ toStack' = Tail(toStack))
    BY <1>5 DEF Lose, Fault, netIdle
  <2>2. Segs(toStack') \subseteq Segs(toStack)
    BY <1>1, <2>1, SegsTail
  <2>3. Sending' /\ \A e \in Segs(toStack') : "SYN" \notin e.flags
    BY <1>1, <2>1, <2>2 DEF Sending, Late
  <2> QED
    BY <1>2, <2>1, <2>3
<1> QED
  BY <1>3, <1>4, <1>5

\* The ingress thread takes a segment on a connection that is open, or was.
LEMMA LateIngress ==
    ASSUME StreamTypes, Late, Ingress, UNCHANGED <<peer, rexmts>>
    PROVE  Late'
<1> DEFINE s == Head(toStack)
           c == RtoUpdate(conn)
<1>1. toStack # <<>> /\ toStack' = Tail(toStack) /\ rx = Idle /\ UntimedInput(s) /\ IsSeq(toStack)
  BY InputUntimed DEF UntimedInput, Ingress, StreamTypes, Types
<1>2. Segs(toStack') \subseteq Segs(toStack) /\ s \in Segs(toStack)
  BY <1>1, SegsTail
<1>3. "SYN" \notin s.flags /\ Numbered(s) /\ Sending'
  BY <1>2 DEF Late, Sending
<1>4. conn.state # "NONE" => /\ IsConn(c) /\ c.state = conn.state /\ c.recv_next = conn.recv_next
                             /\ conn # NoConn
  BY RtoUpdateFields DEF StreamTypes, Types, NoConn
<1> HIDE DEF s, c
<1>5. app' = app
  BY <1>1 DEF UntimedInput, Fsm, InputNoConn, InputBadSyn, FsmListenSyn, FsmIgnore, FsmSynSent,
              FsmSynRcvdRst, FsmSynRcvdAck, FsmSynRcvdOther, FsmLastAck, FsmEstablished, inputIdle, Reply, NoReply
<1>6. ASSUME conn'.state \in {"ESTABLISHED", "LAST_ACK", "LISTEN", "NONE"},
             rx' = Idle \/ rx'.seg = s,
             conn'.state = "ESTABLISHED" =>
                conn.state = "ESTABLISHED" /\ conn'.recv_next = conn.recv_next
      PROVE  Late'
  BY <1>2, <1>3, <1>5, <1>6 DEF Late, AppGetsPrefix
<1>7. CASE conn.state = "NONE"
  <2>1. InputNoConn(s)
    BY <1>1, <1>3, <1>7 DEF UntimedInput, Fsm, InputBadSyn, FsmListenSyn, FsmIgnore, FsmSynSent,
              FsmSynRcvdRst, FsmSynRcvdAck, FsmSynRcvdOther, FsmLastAck, FsmEstablished, Synchronized
  <2>2. conn' = conn /\ rx' = rx
    BY <1>1, <2>1 DEF InputNoConn, inputIdle, Reply, NoReply
  <2> QED
    BY <1>1, <1>6, <1>7, <2>2
<1>8. CASE conn.state = "LISTEN"
  <2>1. FsmIgnore(s)
    BY <1>1, <1>3, <1>4, <1>8 DEF UntimedInput, Fsm, InputNoConn, InputBadSyn, FsmListenSyn, FsmSynSent,
              FsmSynRcvdRst, FsmSynRcvdAck, FsmSynRcvdOther, FsmLastAck, FsmEstablished, Synchronized
  <2>2. conn' = c /\ rx' = rx
    BY <1>1, <2>1 DEF FsmIgnore, inputIdle, Reply, NoReply, c
  <2> QED
    BY <1>1, <1>4, <1>6, <1>8, <2>2
<1>9. CASE conn.state = "LAST_ACK"
  <2>1. FsmLastAck(s)
    BY <1>1, <1>3, <1>4, <1>9 DEF UntimedInput, Fsm, InputNoConn, InputBadSyn, FsmListenSyn, FsmIgnore,
              FsmSynSent, FsmSynRcvdRst, FsmSynRcvdAck, FsmSynRcvdOther, FsmEstablished, Synchronized
  <2>2. (conn' = NoConn \/ conn' = c) /\ rx' = rx
    BY <1>1, <2>1 DEF FsmLastAck, inputIdle, Reply, NoReply, c
  <2>3. conn'.state \in {"NONE", "LAST_ACK"}
    BY <1>4, <1>9, <2>2 DEF NoConn
  <2> QED
    BY <1>1, <1>6, <2>2, <2>3
<1>10. CASE conn.state = "ESTABLISHED"
  <2>1. FsmEstablished(s)
    BY <1>1, <1>3, <1>4, <1>10 DEF UntimedInput, Fsm, InputNoConn, InputBadSyn, FsmListenSyn, FsmIgnore,
              FsmSynSent, FsmSynRcvdRst, FsmSynRcvdAck, FsmSynRcvdOther, FsmLastAck, Synchronized
  <2>2. /\ conn' = c \/ conn' = [c EXCEPT !.send_una = s.ack]
        /\ rx' = [pc |-> "free", seg |-> s] \/ rx' = [pc |-> "data", seg |-> s]
    BY <2>1, Zenon DEF FsmEstablished, c
  <2>3. conn'.state = "ESTABLISHED" /\ conn'.recv_next = conn.recv_next /\ rx'.seg = s
    BY <1>4, <1>10, <2>2 DEF IsConn
  <2> QED
    BY <1>6, <1>10, <2>3
<1> QED
  BY <1>7, <1>8, <1>9, <1>10 DEF Late

\* It goes on with the segment it has: the payload that tcp_fsm() takes is the one
\* after the last one it has taken.
LEMMA LateIngressStep ==
    ASSUME StreamTypes, Late, IngressStep, UNCHANGED <<peer, rexmts>>, FewSegments
    PROVE  Late'
<1>1. rx # Idle /\ toStack' = toStack
  BY StepUntimed DEF StreamTypes, UntimedStep, AckFree, AckRearm, EstablishedData, EstablishedFin, EstablishedOther, Idle
<1>2. /\ conn.state = "ESTABLISHED" /\ IsConn(conn) /\ DOMAIN rx = {"pc", "seg"}
      /\ Numbered(rx.seg) /\ conn.recv_next = SeqOf(Len(app) + 2) /\ Len(app) \in 0..MaxData
      /\ AppGetsPrefix
  BY <1>1 DEF StreamTypes, Types, NoConn, Late
<1>3. Sending' /\ \A s \in Segs(toStack') : "SYN" \notin s.flags
  BY <1>1 DEF Late, Sending
<1>4. CASE AckFree \/ AckRearm
  <2>1. /\ conn'.state = "ESTABLISHED" /\ conn'.recv_next = conn.recv_next /\ app' = app
    BY <1>2, <1>4 DEF AckFree, AckRearm, IsConn
  <2>2. rx' = [rx EXCEPT !.pc = "rearm"] \/ rx' = [rx EXCEPT !.pc = "data"]
    BY <1>4, Zenon DEF AckFree, AckRearm
  <2>3. rx'.seg = rx.seg
    BY <1>2, <2>2
  <2> QED
    BY <1>2, <1>3, <2>1, <2>3 DEF Late, AppGetsPrefix
<1>5. CASE EstablishedOther
  BY <1>2, <1>3, <1>5 DEF EstablishedOther, Late, AppGetsPrefix
<1>6. CASE EstablishedFin
  <2>1. conn'.state = "LAST_ACK" /\ rx' = Idle /\ app' = app
    BY <1>2, <1>6 DEF EstablishedFin, IsConn, Reply
  <2> QED
    BY <1>2, <1>3, <2>1 DEF Late, AppGetsPrefix
<1>7. CASE EstablishedData
  <2> DEFINE s == rx.seg
             k == Len(app)
  <2>1. /\ "PSH" \in s.flags /\ s.seq = conn.recv_next /\ rx' = Idle /\ app' = Append(app, s.data)
        /\ conn' = [conn EXCEPT !.recv_next = Plus(s.seq, Length(s))]
    BY <1>7 DEF EstablishedData, CarriesData, InSequence, Reply
  <2>2. s.data \in 1..MaxData /\ s.seq = SeqOf(s.data + 1) /\ SeqOf(s.data + 1) = SeqOf(k + 2)
    BY <1>2, <2>1 DEF Numbered
  <2>3. MaxData \in Nat /\ SeqMod \in Nat /\ MaxData + 1 < SeqMod /\ k \in Nat /\ k <= MaxData
    BY <1>2, SeqAssumption, PeerAssumption DEF FewSegments
  <2> HIDE DEF s, k
  <2>4. s.data + 1 \in 1..SeqMod /\ k + 2 \in 1..SeqMod
    BY <2>2, <2>3
  <2>5. s.data + 1 = k + 2
    BY <2>2, <2>4, SeqOfUnits
  <2>6. s.data = k + 1 /\ k + 1 <= MaxData /\ Length(s) = 1
    <3>1. s.data = k + 1 /\ k + 1 <= MaxData
      BY <2>2, <2>3, <2>5
    <3> QED
      BY <2>3, <3>1 DEF Length, NoData
  <2>7. Plus(s.seq, 1) = SeqOf(k + 3)
    <3>1. Plus(SeqOf(k + 2), 1) = SeqOf((k + 2) + 1) /\ (k + 2) + 1 = k + 3
      BY <2>3, <2>4, SeqOfUnits
    <3> QED
      BY <2>2, <3>1
  <2>8. conn'.state = "ESTABLISHED" /\ conn'.recv_next = SeqOf(k + 3)
    BY <1>2, <2>1, <2>6, <2>7 DEF IsConn
  <2>9. Len(app') = k + 1 /\ AppGetsPrefix'
    <3>1. app \in Seq(Nat) /\ Len(app) = k /\ \A i \in 1..k : app[i] = i
      BY <1>2, <2>3 DEF AppGetsPrefix, k
    <3>2. app' = Append(app, k + 1) /\ k + 1 \in Nat
      BY <2>1, <2>3, <2>6
    <3>3. app' \in Seq(Nat) /\ Len(app') = k + 1 /\ \A i \in 1..(k + 1) : app'[i] = i
      BY <3>1, <3>2
    <3> QED
      BY <3>3 DEF AppGetsPrefix
  <2>10. Len(app') \in 0..MaxData /\ Len(app') + 2 = k + 3
    BY <2>3, <2>6, <2>9
  <2> QED
    BY <1>3, <2>1, <2>8, <2>9, <2>10 DEF Late
<1> QED
  BY <1>4, <1>5, <1>6, <1>7, StepUntimed DEF UntimedStep, StreamTypes

\* Every step leads from one phase to the next or stays in it.
LEMMA StreamNext ==
    ASSUME StreamInv, [Next]_vars, [KeepsOrder]_vars, FewSegments
    PROVE  StreamInv'
<1>1. CASE UNCHANGED vars
  BY <1>1 DEF vars, tcpVars, counters, StreamInv, StreamTypes, Types, Silent, Knocking, Mute, Early,
              Late, Sending, PeerTotal, AppGetsPrefix, IsConn
<1>2. CASE Next /\ KeepsOrder
  <2>1. \/ PeerStep
        \/ (Ingress \/ IngressStep \/ Lose) /\ UNCHANGED <<peer, rexmts>>
    BY <1>2, Zenon DEF Next, NetworkFault, KeepsOrder
  <2>2. StreamTypes /\ StreamTypes'
    BY <2>1, TypesPeer, TypesIngress, TypesIngressStep, TypesLose DEF StreamInv
  <2>3. IngressStep => rx # Idle
    BY DEF IngressStep, FsmAfterSample, AckFree, AckRearm, EstablishedData, EstablishedFin, EstablishedOther, Idle
  <2>4. CASE Silent
    <3>1. PeerConnect
      BY <2>1, <2>3, <2>4 DEF Silent, PeerStep, PeerSend, PeerClose, PeerSendAndClose, PeerAbort,
                              PeerRexmt, PeerRecv, Ingress, Lose, Fault
    <3> QED
      BY <2>2, <2>4, <3>1, SilentStep DEF StreamInv
  <2>5. CASE Knocking
    <3>1. PeerStep => PeerRexmt \/ PeerRecv
      BY <2>5 DEF Knocking, PeerStep, PeerConnect, PeerSend, PeerClose, PeerSendAndClose, PeerAbort
    <3>2. ~IngressStep
      BY <2>3, <2>5 DEF Knocking
    <3> QED
      BY <2>1, <2>2, <2>5, <3>1, <3>2, KnockingRexmt, KnockingRecv, KnockingIngress, KnockingLose
      DEF StreamInv
  <2>6. CASE Mute
    BY <2>1, <2>2, <2>6, MuteStep DEF StreamInv
  <2>7. CASE Early
    <3>1. ~IngressStep
      BY <2>3, <2>7 DEF Early
    <3> QED
      BY <2>1, <2>2, <2>7, <3>1, EarlyOutside, EarlyIngress DEF StreamInv
  <2>8. CASE Late
    BY <2>1, <2>2, <2>8, LateOutside, LateIngress, LateIngressStep DEF StreamInv
  <2> QED
    BY <2>4, <2>5, <2>6, <2>7, <2>8 DEF StreamInv
<1> QED
  BY <1>1, <1>2

\* When the network loses segments but keeps the others in order, and whatever the
\* peer retransmits, the application gets the payloads of the peer's stream in
\* order, each once, none missing in between, if fewer segments are sent than there
\* are sequence numbers.  A handshake that goes wrong in TCP_SYN_RCVD, where any
\* unexpected segment moves both numbers, never ends in a connection that starts in
\* the middle of the stream.
THEOREM StreamInOrder ==
    ASSUME FewSegments
    PROVE  Spec /\ [][KeepsOrder]_vars => []AppGetsPrefix
<1>1. Init => StreamInv
  <2> SUFFICES ASSUME Init PROVE StreamInv
    OBVIOUS
  <2>1. IsSeq(<<>>)
    BY DEF IsSeq
  <2> QED
    BY <2>1, PeerAssumption DEF Init, TcpInit, StreamInv, StreamTypes, Types, Silent
<1>2. StreamInv /\ [Next]_vars /\ [KeepsOrder]_vars => StreamInv'
  BY StreamNext
<1>3. StreamInv => AppGetsPrefix
  <2>1. <<>> = [i \in 1..Len(<<>>) |-> i]
    OBVIOUS
  <2> QED
    BY <2>1 DEF StreamInv, Silent, Knocking, Mute, Early, Late, AppGetsPrefix
<1> QED
  BY <1>1, <1>2, <1>3, PTL DEF Spec
=============================================================================

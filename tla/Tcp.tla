--------------------------------- MODULE Tcp --------------------------------
(***************************************************************************)
(* One TCP connection of nstack (src/tcp.c): the entry of tcp_conn_map for *)
(* one pair of addresses, and the three threads that work on it.           *)
(*                                                                         *)
(*   - the ingress thread runs tcp_input() and tcp_fsm() on a segment;     *)
(*   - the egress thread runs nstack_tcp_send() on an application's data;  *)
(*   - the timer thread runs tcp_slowtimo() every 500 ms.                  *)
(*                                                                         *)
(* Only the two segment lists are protected by conn->mutex; every other    *)
(* field is read and written without it.  The threads interleave where     *)
(* the code takes or releases the mutex and between the fields that one of *)
(* them writes and another one uses.                                       *)
(*                                                                         *)
(* Abstractions: a payload is a number and takes one sequence number;      *)
(* sequence numbers are modulo SeqMod, compared as the unsigned numbers    *)
(* they are; a timer is armed or not and may expire whenever it is armed;  *)
(* of the measured time, the RTT estimate and the timeout it only matters  *)
(* whether they are zero (TcpRto has the numbers).  Headers, options,      *)
(* checksums and windows do not influence the control flow.                *)
(*                                                                         *)
(* The peer, the network and the application are in TcpServer (nstack      *)
(* accepts and receives) and TcpClient (nstack connects and sends).        *)
(***************************************************************************)
EXTENDS Integers, Sequences

CONSTANTS SeqMod,        \* sequence numbers are 0..SeqMod - 1
          ISNs,          \* what /dev/urandom may give for an initial number
          MaxSendFails,  \* bound: ip_send() calls that fail
          MaxFaults,     \* bound: segments lost, duplicated or overtaken
          MaxExpiries,   \* bound: times the retransmission timer expires
          Prompt         \* no timer expires while a segment is on its way

ASSUME SeqAssumption ==
    /\ SeqMod \in Nat \ {0, 1} /\ ISNs \subseteq 0..(SeqMod - 1)
    /\ MaxSendFails \in Nat /\ MaxFaults \in Nat /\ MaxExpiries \in Nat /\ Prompt \in BOOLEAN

VARIABLES
    conn,      \* the control block in tcp_conn_map, or NoConn
    mutex,     \* conn->mutex: "free" or the thread that holds it
    bound,     \* a socket is bound to the local address of the connection
    rx,        \* the ingress thread: where it is and the segment it has
    eg,        \* the egress thread: where it is and the payload it has
    tm,        \* the timer thread: where it is
    toPeer,    \* segments sent by nstack and not yet received
    toStack,   \* segments sent by the peer and not yet received
    app,       \* payloads given to the socket, nstack_sock_dgram_input()
    isns,      \* initial sequence numbers nstack has used
    fails,     \* ip_send() calls that have failed
    expiries,  \* times the retransmission timer has expired
    faults,    \* segments lost, duplicated or overtaken so far
    undef      \* the program has used a NULL or a dangling pointer

tcpVars == <<conn, mutex, bound, rx, eg, tm, toPeer, toStack, app, isns,
             fails, expiries, faults, undef>>

\* The bounded events: nothing in the code depends on these counters.
counters == <<fails, expiries, faults>>

Seq32 == 0..(SeqMod - 1)

\* Arithmetic on uint32_t sequence numbers.
Plus(a, n) == (a + n) % SeqMod

NoConn == [state |-> "NONE"]
NoData == 0
Idle == [pc |-> "idle"]

Flag == {"SYN", "ACK", "PSH", "FIN", "RST"}

Segment(flags, seq, ack, data) ==
    [flags |-> flags, seq |-> seq, ack |-> ack, data |-> data]

\* bsize - tcp_hdr_size()
Length(s) == IF s.data = NoData THEN 0 ELSE 1

\* tcp_new_connection(): calloc() leaves everything zero, the heads of the
\* segment lists included.
NewConn(state) ==
    [state |-> state, recv_next |-> 0, send_next |-> 0, send_una |-> 0,
     send_max |-> 0, unsent |-> <<>>, unacked |-> <<>>, lists |-> FALSE,
     rtt |-> FALSE, rtt_cur_seq |-> 0, rtt_est |-> FALSE, rto |-> FALSE,
     rexmt |-> FALSE, keep |-> FALSE]

\* state >= TCP_ESTABLISHED in enum tcp_state, of the states the code enters.
Synchronized == {"ESTABLISHED", "LAST_ACK"}

TcpInit ==
    /\ conn = NoConn /\ mutex = "free" /\ bound \in BOOLEAN
    /\ rx = Idle /\ eg = Idle /\ tm = Idle
    /\ toPeer = <<>> /\ toStack = <<>> /\ app = <<>>
    /\ isns = {} /\ fails = 0 /\ faults = 0 /\ expiries = 0 /\ undef = FALSE
-----------------------------------------------------------------------------
(* The ingress thread: tcp_input(), tcp_fsm().                             *)

\* tcp_input() returns, with a fast reply, the header of the segment sent back,
\* or without one.
Reply(flags, seq, ack) ==
    toPeer' = Append(toPeer, Segment(flags, seq, ack, NoData)) /\ rx' = Idle
NoReply == UNCHANGED toPeer /\ rx' = Idle

\* The first lines of tcp_fsm(): the segment acknowledges the one that is timed.
Timed(s) == conn.rtt /\ s.ack > conn.rtt_cur_seq

\* tcp_rto_update(), if the segment was found to be so.  The time is loaded again,
\* and the timer thread may have stored 0 since: a first sample of 0 leaves the
\* estimate and the timeout 0.
RtoUpdate(c) ==
    IF rx.pc = "timed"
      THEN [c EXCEPT !.rtt = FALSE, !.rtt_est = c.rtt \/ c.rtt_est, !.rto = c.rtt \/ c.rtt_est]
      ELSE c

inputIdle == <<mutex, bound, eg, tm, app, counters>>

\* A segment other than a SYN for which there is no connection: tcp_fsm() is
\* called with conn = NULL and dereferences it.
InputNoConn(s) ==
    /\ conn = NoConn /\ "SYN" \notin s.flags
    /\ undef' = TRUE
    /\ NoReply
    /\ UNCHANGED <<conn, isns, inputIdle>>

\* A SYN on a connection that is synchronized is refused with -EINVAL.
InputBadSyn(s) ==
    /\ conn.state \in Synchronized /\ "SYN" \in s.flags
    /\ NoReply
    /\ UNCHANGED <<conn, isns, undef, inputIdle>>

\* Mutant: the SYN takes no sequence number of ours.
FsmListenSynUncounted(s) ==
    /\ conn.state \in {"NONE", "LISTEN"} /\ "SYN" \in s.flags
    /\ \E isn \in ISNs \ isns :
         /\ conn' = [NewConn(IF bound THEN "SYN_RCVD" ELSE "CLOSED") EXCEPT
                        !.recv_next = Plus(s.seq, 1), !.send_next = isn]
         /\ isns' = isns \cup {isn}
         /\ Reply(s.flags \cup {"ACK"}, isn, Plus(s.seq, 1))
    /\ UNCHANGED <<undef, inputIdle>>

\* A new connection, or one that is back in TCP_LISTEN, meets a SYN.  Without
\* a socket on the port the entry is left in the map as TCP_CLOSED.
FsmListenSyn(s) ==
    /\ conn.state \in {"NONE", "LISTEN"} /\ "SYN" \in s.flags
    /\ \E isn \in ISNs \ isns :
         LET c == IF conn = NoConn THEN NewConn("LISTEN") ELSE RtoUpdate(conn)
         IN  /\ conn' = [c EXCEPT !.state = IF bound THEN "SYN_RCVD" ELSE "CLOSED",
                                  !.recv_next = Plus(s.seq, 1),
                                  !.send_next = Plus(isn, 1)]
             /\ isns' = isns \cup {isn}
             /\ Reply(IF bound THEN s.flags \cup {"ACK"}
                               ELSE (s.flags \ {"SYN"}) \cup {"RST", "ACK"},
                      isn, Plus(s.seq, 1))
    /\ UNCHANGED <<undef, inputIdle>>

\* TCP_CLOSED, TCP_LISTEN without a SYN, TCP_SYN_SENT with neither SYN nor ACK:
\* nothing happens.
FsmIgnore(s) ==
    /\ \/ conn.state = "CLOSED"
       \/ conn.state = "LISTEN" /\ "SYN" \notin s.flags
       \/ conn.state = "SYN_SENT" /\ s.flags \cap {"SYN", "ACK"} = {}
    /\ conn' = RtoUpdate(conn)
    /\ NoReply
    /\ UNCHANGED <<isns, undef, inputIdle>>

\* Mutant: nothing is scheduled to send the data queued before the handshake.
FsmSynSentNoTimer(s) ==
    /\ conn.state = "SYN_SENT" /\ s.flags \cap {"SYN", "ACK"} # {}
    /\ conn' = [RtoUpdate(conn) EXCEPT !.state = "ESTABLISHED", !.keep = FALSE,
                                          !.recv_next = Plus(s.seq, 1)]
    /\ Reply({"ACK"}, conn.send_next, Plus(s.seq, 1))
    /\ UNCHANGED <<isns, undef, inputIdle>>

\* TCP_SYN_SENT: the test is for SYN or ACK, so any segment that acknowledges
\* anything opens the connection.  The branch for a simultaneous open that
\* follows it in the code is never reached.
FsmSynSent(s) ==
    /\ conn.state = "SYN_SENT" /\ s.flags \cap {"SYN", "ACK"} # {}
    /\ conn' = [RtoUpdate(conn) EXCEPT !.state = "ESTABLISHED", !.keep = FALSE,
                                          !.rexmt = TRUE, !.recv_next = Plus(s.seq, 1)]
    /\ Reply({"ACK"}, conn.send_next, Plus(s.seq, 1))
    /\ UNCHANGED <<isns, undef, inputIdle>>

InSequence(s) == s.seq = conn.recv_next /\ s.ack = conn.send_next

FsmSynRcvdRst(s) ==
    /\ conn.state = "SYN_RCVD"
    /\ "RST" \in s.flags /\ InSequence(s)
    /\ conn' = [RtoUpdate(conn) EXCEPT !.state = "LISTEN"]
    /\ NoReply
    /\ UNCHANGED <<isns, undef, inputIdle>>

FsmSynRcvdAck(s) ==
    /\ conn.state = "SYN_RCVD"
    /\ "RST" \notin s.flags /\ "ACK" \in s.flags /\ InSequence(s)
    /\ conn' = [RtoUpdate(conn) EXCEPT !.state = "ESTABLISHED", !.keep = FALSE]
    /\ NoReply
    /\ UNCHANGED <<isns, undef, inputIdle>>

\* Anything else moves both sequence numbers and is answered without an ACK.
FsmSynRcvdOther(s) ==
    /\ conn.state = "SYN_RCVD"
    /\ ~(s.flags \cap {"RST", "ACK"} # {} /\ InSequence(s))
    /\ conn' = [RtoUpdate(conn) EXCEPT !.recv_next = s.seq,
                                          !.send_next = Plus(conn.send_next, 1)]
    /\ Reply(s.flags \ {"ACK"}, conn.send_next, s.seq)
    /\ UNCHANGED <<isns, undef, inputIdle>>

\* Mutant: the control block is never freed.
FsmLastAckKeeps(s) ==
    /\ conn.state = "LAST_ACK" /\ "SYN" \notin s.flags
    /\ conn' = RtoUpdate(conn)
    /\ NoReply
    /\ UNCHANGED <<isns, undef, inputIdle>>

\* TCP_LAST_ACK: any acknowledgment removes and frees the control block.
FsmLastAck(s) ==
    /\ conn.state = "LAST_ACK" /\ "SYN" \notin s.flags
    /\ conn' = IF "ACK" \in s.flags THEN NoConn ELSE RtoUpdate(conn)
    /\ undef' = ("ACK" \in s.flags /\ (eg # Idle \/ tm # Idle))
    /\ NoReply
    /\ UNCHANGED <<isns, inputIdle>>

\* Mutant: the acknowledgment is compared with send_next.
FsmEstablishedNext(s) ==
    /\ conn.state = "ESTABLISHED" /\ "SYN" \notin s.flags
    /\ LET c == RtoUpdate(conn)
       IN  IF s.ack > c.send_next
             THEN /\ conn' = [c EXCEPT !.send_una = s.ack]
                  /\ rx' = [pc |-> "free", seg |-> s]
             ELSE /\ conn' = c
                  /\ rx' = [pc |-> "data", seg |-> s]
    /\ UNCHANGED <<mutex, bound, eg, tm, toPeer, app, isns, counters, undef>>

\* TCP_ESTABLISHED: tcp_ack_segments() first, over the next three steps.  An
\* acknowledgment counts when it is numerically above send_una.
FsmEstablished(s) ==
    /\ conn.state = "ESTABLISHED" /\ "SYN" \notin s.flags
    /\ LET c == RtoUpdate(conn)
       IN  IF s.ack > c.send_una
             THEN /\ conn' = [c EXCEPT !.send_una = s.ack]
                  /\ rx' = [pc |-> "free", seg |-> s]
             ELSE /\ conn' = c
                  /\ rx' = [pc |-> "data", seg |-> s]
    /\ UNCHANGED <<mutex, bound, eg, tm, toPeer, app, isns, counters, undef>>

\* tcp_fsm() from its switch on, up to its first wait.
Fsm(s) ==
    \/ FsmListenSyn(s) \/ FsmIgnore(s) \/ FsmSynSent(s) \/ FsmSynRcvdRst(s)
    \/ FsmSynRcvdAck(s) \/ FsmSynRcvdOther(s) \/ FsmLastAck(s) \/ FsmEstablished(s)

\* A segment that ends a measurement, from the test to the second load.
FsmTimed(s) ==
    /\ conn # NoConn /\ ~(conn.state \in Synchronized /\ "SYN" \in s.flags) /\ Timed(s)
    /\ rx' = [pc |-> "timed", seg |-> s]
    /\ UNCHANGED <<conn, toPeer, isns, undef, inputIdle>>

\* What tcp_input() does with a segment up to its first wait.
TcpInput(s) ==
    /\ rx = Idle
    /\ \/ InputNoConn(s) \/ InputBadSyn(s) \/ FsmTimed(s)
       \/ (conn # NoConn => ~Timed(s)) /\ Fsm(s)

FsmAfterSample == rx.pc = "timed" /\ Fsm(rx.seg) /\ UNCHANGED toStack

\* Under the mutex every unacked segment is freed: the sequence number kept
\* in its header is never set, and 0 is below send_una.
AckFree ==
    /\ rx.pc = "free" /\ mutex = "free"
    /\ conn' = [conn EXCEPT !.unacked = <<>>]
    /\ rx' = [rx EXCEPT !.pc = "rearm"]
    /\ UNCHANGED <<mutex, bound, eg, tm, toPeer, toStack, app, isns, counters, undef>>

\* Without the mutex: stop the timer, or go back to send_una and restart it.
AckRearm ==
    /\ rx.pc = "rearm"
    /\ conn' = IF conn.send_una = conn.send_max
                 THEN [conn EXCEPT !.rexmt = FALSE]
                 ELSE [conn EXCEPT !.send_next = conn.send_una, !.rexmt = conn.rtt_est]
    /\ rx' = [rx EXCEPT !.pc = "data"]
    /\ UNCHANGED <<mutex, bound, eg, tm, toPeer, toStack, app, isns, counters, undef>>

\* Mutant: data is taken without a look at its sequence number.
CarriesDataAnySeq(s) ==
    {"ACK", "PSH"} \subseteq s.flags /\ s.ack = conn.send_next

\* Data is taken when it carries PSH and both numbers are the expected ones.
CarriesData(s) ==
    {"ACK", "PSH"} \subseteq s.flags /\ InSequence(s)

EstablishedData ==
    /\ rx.pc = "data" /\ CarriesData(rx.seg)
    /\ LET s == rx.seg
           ack == Plus(s.seq, Length(s))
       IN  /\ conn' = [conn EXCEPT !.recv_next = ack]
           /\ app' = Append(app, s.data)
           /\ Reply(s.flags \ {"PSH"}, conn.send_next, ack)
    /\ UNCHANGED <<mutex, bound, eg, tm, toStack, isns, counters, undef>>

\* Mutant: the control block goes with the FIN, LAST_ACK is skipped too.
EstablishedFinFrees ==
    /\ rx.pc = "data" /\ ~CarriesData(rx.seg) /\ "FIN" \in rx.seg.flags
    /\ conn' = NoConn
    /\ Reply(rx.seg.flags \cup {"ACK"}, conn.send_next, Plus(rx.seg.seq, 1))
    /\ UNCHANGED <<mutex, bound, eg, tm, toStack, app, isns, counters, undef>>

\* A FIN closes the connection whatever its sequence number.
EstablishedFin ==
    /\ rx.pc = "data" /\ ~CarriesData(rx.seg) /\ "FIN" \in rx.seg.flags
    /\ LET s == rx.seg
       IN  /\ conn' = [conn EXCEPT !.state = "LAST_ACK",
                                   !.recv_next = Plus(s.seq, 1),
                                   !.send_next = Plus(conn.send_next, 1)]
           /\ Reply(s.flags \cup {"ACK"}, conn.send_next, Plus(s.seq, 1))
    /\ UNCHANGED <<mutex, bound, eg, tm, toStack, app, isns, counters, undef>>

EstablishedOther ==
    /\ rx.pc = "data" /\ ~CarriesData(rx.seg) /\ "FIN" \notin rx.seg.flags
    /\ rx' = Idle
    /\ UNCHANGED <<conn, mutex, bound, eg, tm, toPeer, toStack, app, isns, counters, undef>>

IngressStep ==
    FsmAfterSample \/ AckFree \/ AckRearm \/ EstablishedData \/ EstablishedFin \/ EstablishedOther
-----------------------------------------------------------------------------
(* The egress thread: nstack_tcp_send().                                   *)

egIdle == <<bound, rx, tm, toStack, app, expiries, faults, undef>>

\* tcp_connection_init(), with the initial sequence number it draws.
ConnectionInit(c, isn) ==
    [c EXCEPT !.state = "SYN_SENT", !.lists = TRUE, !.rto = TRUE,
              !.send_next = isn, !.send_una = isn, !.send_max = isn]

\* tcp_send_syn(): the state is as if the SYN had left, also when it has not.
SendSyn(c) ==
    /\ conn' = [c EXCEPT !.send_next = Plus(@, 1), !.keep = TRUE]
    /\ \/ /\ toPeer' = Append(toPeer, Segment({"SYN"}, c.send_next, 0, NoData))
          /\ UNCHANGED fails
       \/ /\ fails < MaxSendFails /\ fails' = fails + 1
          /\ UNCHANGED toPeer

\* No connection: create one, queue the data on it and send a SYN.
SendConnect(d) ==
    /\ eg = Idle /\ conn = NoConn
    /\ \E isn \in ISNs \ isns :
         /\ SendSyn([ConnectionInit(NewConn("CLOSED"), isn) EXCEPT !.unsent = <<d>>])
         /\ isns' = isns \cup {isn}
    /\ mutex' = "free"
    /\ UNCHANGED <<eg, egIdle>>

\* ESTABLISHED: start timing a segment, then queue it and send the queue.
SendQueue(d) ==
    /\ eg = Idle /\ conn.state = "ESTABLISHED"
    /\ conn' = [conn EXCEPT !.rtt = TRUE]
    /\ eg' = [pc |-> IF conn.rtt THEN "append" ELSE "stamp", data |-> d]
    /\ UNCHANGED <<mutex, toPeer, isns, fails, egIdle>>

\* Its number is stored after the time, without the mutex as well.
SendStamp ==
    /\ eg.pc = "stamp"
    /\ conn' = [conn EXCEPT !.rtt_cur_seq = conn.send_next]
    /\ eg' = [eg EXCEPT !.pc = "append"]
    /\ UNCHANGED <<mutex, toPeer, isns, fails, egIdle>>

\* Any other state: -EINVAL, and the egress thread drops the data.
SendRefused(d) ==
    /\ eg = Idle /\ conn.state \notin {"NONE", "ESTABLISHED"}
    /\ UNCHANGED tcpVars

\* The tail of a list that was never initialised is a NULL pointer.
AppendUnsent ==
    /\ eg.pc = "append" /\ mutex = "free"
    /\ IF conn.lists
         THEN /\ conn' = [conn EXCEPT !.unsent = Append(@, eg.data)]
              /\ UNCHANGED undef
         ELSE /\ undef' = TRUE
              /\ UNCHANGED conn
    /\ eg' = [pc |-> "lock"]
    /\ UNCHANGED <<mutex, bound, rx, tm, toPeer, toStack, app, isns, counters>>

\* tcp_send_segments(), called by the egress and by the timer thread.
At(t, pc) == IF t = "egress" THEN eg.pc = pc ELSE tm.pc = pc
GoTo(t, pc) ==
    IF t = "egress" THEN eg' = [pc |-> pc] /\ UNCHANGED tm
                    ELSE tm' = [pc |-> pc] /\ UNCHANGED eg

SendLock(t) ==
    /\ At(t, "lock") /\ mutex = "free"
    /\ mutex' = t
    /\ GoTo(t, "send")
    /\ UNCHANGED <<conn, bound, rx, toPeer, toStack, app, isns, counters, undef>>

\* Mutant: send_max is not updated.
SendSegmentNoMax(t) ==
    /\ At(t, "send") /\ conn.unsent # <<>>
    /\ conn' = [conn EXCEPT !.unsent = Tail(@), !.send_next = Plus(@, 1),
                            !.unacked = Append(@, Head(conn.unsent))]
    /\ toPeer' = Append(toPeer, Segment({"PSH", "ACK"}, conn.send_next,
                                        conn.recv_next, Head(conn.unsent)))
    /\ UNCHANGED <<mutex, bound, rx, eg, tm, toStack, app, isns, counters, undef>>

\* One turn of the loop.  The number is the next one, also for a segment that
\* has been sent before.
SendSegment(t) ==
    /\ At(t, "send") /\ conn.unsent # <<>>
    /\ LET next == Plus(conn.send_next, 1)
           taken == [conn EXCEPT !.unsent = Tail(@), !.send_next = next, !.send_max = next]
       IN  \/ /\ conn' = [taken EXCEPT !.unacked = Append(@, Head(conn.unsent))]
              /\ toPeer' = Append(toPeer, Segment({"PSH", "ACK"}, conn.send_next,
                                                  conn.recv_next, Head(conn.unsent)))
              /\ UNCHANGED <<eg, tm, fails>>
           \/ \* the early return keeps the mutex and forgets the segment
              /\ fails < MaxSendFails /\ fails' = fails + 1
              /\ conn' = taken
              /\ GoTo(t, "idle")
              /\ UNCHANGED toPeer
    /\ UNCHANGED <<mutex, bound, rx, toStack, app, isns, expiries, faults, undef>>

\* Mutant: the normal return forgets the mutex as well.
SendUnlockLeak(t) ==
    /\ At(t, "send") /\ conn.unsent = <<>>
    /\ GoTo(t, "idle")
    /\ UNCHANGED <<conn, mutex, bound, rx, toPeer, toStack, app, isns, counters, undef>>

SendUnlock(t) ==
    /\ At(t, "send") /\ conn.unsent = <<>>
    /\ mutex' = "free"
    /\ GoTo(t, "idle")
    /\ UNCHANGED <<conn, bound, rx, toPeer, toStack, app, isns, counters, undef>>

EgressStep ==
    SendStamp \/ AppendUnsent \/ SendLock("egress") \/ SendSegment("egress") \/ SendUnlock("egress")
-----------------------------------------------------------------------------
(* The timer thread: tcp_slowtimo(), tcp_timer().                          *)

\* Under Prompt the network and its ends answer faster than any timer.
MayExpire == Prompt => toPeer = <<>> /\ toStack = <<>> /\ rx = Idle /\ eg = Idle

\* A timer is counted down without the mutex: a tick loads the counter ...
RexmtLoad ==
    /\ tm = Idle /\ conn # NoConn /\ conn.rexmt /\ MayExpire
    /\ tm' = [pc |-> "rexmt"]
    /\ UNCHANGED <<conn, mutex, bound, rx, eg, toPeer, toStack, app, isns, counters, undef>>

\* ... and stores it one lower, over a 0 stored in the meantime, ...
RexmtStore ==
    /\ tm.pc = "rexmt"
    /\ conn' = [conn EXCEPT !.rexmt = TRUE]
    /\ tm' = Idle
    /\ UNCHANGED <<mutex, bound, rx, eg, toPeer, toStack, app, isns, counters, undef>>

\* ... or it was the last tick: the retransmission timer is restarted, if the
\* timeout is not 0, and the segment that is timed is timed no longer.
RexmtExpires ==
    /\ tm.pc = "rexmt"
    /\ expiries < MaxExpiries /\ expiries' = expiries + 1
    /\ conn' = [conn EXCEPT !.rexmt = conn.rto, !.rtt = FALSE]
    /\ tm' = [pc |-> "prepare"]
    /\ UNCHANGED <<mutex, bound, rx, eg, toPeer, toStack, app, isns, fails, faults, undef>>

\* Mutant: the unacked list is copied, not moved.
RexmtPrepareCopy ==
    /\ tm.pc = "prepare" /\ mutex = "free"
    /\ conn' = [conn EXCEPT !.unsent = conn.unacked \o conn.unsent]
    /\ tm' = [pc |-> "lock"]
    /\ UNCHANGED <<mutex, bound, rx, eg, toPeer, toStack, app, isns, counters, undef>>

\* tcp_rexmt_prepare(): what is unacked goes in front of what is unsent.
RexmtPrepare ==
    /\ tm.pc = "prepare" /\ mutex = "free"
    /\ conn' = [conn EXCEPT !.unsent = conn.unacked \o conn.unsent, !.unacked = <<>>]
    /\ tm' = [pc |-> "lock"]
    /\ UNCHANGED <<mutex, bound, rx, eg, toPeer, toStack, app, isns, counters, undef>>

\* The KEEP timer is counted down in the same way: a tick loads it, ...
KeepLoad ==
    /\ tm = Idle /\ conn # NoConn /\ conn.keep /\ MayExpire
    /\ tm' = [pc |-> "keep"]
    /\ UNCHANGED <<conn, mutex, bound, rx, eg, toPeer, toStack, app, isns, counters, undef>>

\* ... stores it one lower, over the 0 of an open connection perhaps, ...
KeepStore ==
    /\ tm.pc = "keep"
    /\ conn' = [conn EXCEPT !.keep = TRUE]
    /\ tm' = Idle
    /\ UNCHANGED <<mutex, bound, rx, eg, toPeer, toStack, app, isns, counters, undef>>

\* ... or it was the last tick: the control block is removed and freed, in
\* every state, since the case falls through into the one below it.  A thread
\* that has found it before goes on with a dangling pointer.  (tcp_slowtimo()
\* itself reads the freed block once more; free() leaves the fields it reads.)
KeepExpires ==
    /\ tm.pc = "keep"
    /\ conn' = NoConn /\ mutex' = "free"
    /\ tm' = Idle
    /\ undef' = (rx # Idle \/ eg # Idle)
    /\ UNCHANGED <<bound, rx, eg, toPeer, toStack, app, isns, counters>>

\* The time of a measurement is counted in the same way, over a 0 perhaps that
\* has ended it.
RttLoad ==
    /\ tm = Idle /\ conn # NoConn /\ conn.rtt /\ MayExpire
    /\ tm' = [pc |-> "rtt"]
    /\ UNCHANGED <<conn, mutex, bound, rx, eg, toPeer, toStack, app, isns, counters, undef>>

RttStore ==
    /\ tm.pc = "rtt"
    /\ conn' = [conn EXCEPT !.rtt = TRUE]
    /\ tm' = Idle
    /\ UNCHANGED <<mutex, bound, rx, eg, toPeer, toStack, app, isns, counters, undef>>

TimerStep ==
    \/ RttLoad \/ RttStore
    \/ RexmtLoad \/ RexmtStore \/ RexmtExpires \/ RexmtPrepare
    \/ SendLock("timer") \/ SendSegment("timer") \/ SendUnlock("timer")
    \/ KeepLoad \/ KeepStore \/ KeepExpires
-----------------------------------------------------------------------------
(* The network: in order, except for at most MaxFaults faults.             *)

netIdle == <<conn, mutex, bound, rx, eg, tm, app, isns, fails, expiries, undef>>

Fault(q) == q # <<>> /\ faults < MaxFaults /\ faults' = faults + 1

Lose ==
    /\ \/ Fault(toPeer) /\ toPeer' = Tail(toPeer) /\ UNCHANGED toStack
       \/ Fault(toStack) /\ toStack' = Tail(toStack) /\ UNCHANGED toPeer
    /\ UNCHANGED netIdle

Duplicate ==
    /\ \/ Fault(toPeer) /\ toPeer' = <<Head(toPeer)>> \o toPeer /\ UNCHANGED toStack
       \/ Fault(toStack) /\ toStack' = <<Head(toStack)>> \o toStack /\ UNCHANGED toPeer
    /\ UNCHANGED netIdle

\* The oldest segment is overtaken by all the others.
Overtake ==
    /\ \/ Len(toPeer) > 1 /\ Fault(toPeer) /\ toPeer' = Append(Tail(toPeer), Head(toPeer))
          /\ UNCHANGED toStack
       \/ Len(toStack) > 1 /\ Fault(toStack) /\ toStack' = Append(Tail(toStack), Head(toStack))
          /\ UNCHANGED toPeer
    /\ UNCHANGED netIdle

NetworkFault == Lose \/ Duplicate \/ Overtake

\* The ingress thread takes the next segment.
Ingress ==
    /\ toStack # <<>>
    /\ toStack' = Tail(toStack)
    /\ TcpInput(Head(toStack))
=============================================================================

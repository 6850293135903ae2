--------------------------- MODULE TcpClientProofs ---------------------------
(***************************************************************************)
(* Proofs about a connection that nstack opens and sends on (TcpClient),   *)
(* and about its retransmission timeout (TcpRto).  The mutex and the lists *)
(* are right for any number of datagrams, any sequence numbers, a network  *)
(* that loses, duplicates and reorders as it likes, and threads that       *)
(* interleave freely.                                                      *)
(***************************************************************************)
EXTENDS TcpClient, TcpRto, TLAPS
-----------------------------------------------------------------------------
\* A control block has all the fields of struct tcp_conn_tcb.
IsConn(c) ==
    DOMAIN c = {"state", "recv_next", "send_next", "send_una", "send_max", "unsent", "unacked",
                "lists", "rtt", "rtt_cur_seq", "rtt_est", "rto", "rexmt", "keep"}

\* The inductive invariant of conn->mutex: MutexNotLeaked, with the types of what
\* it is about.
LockInv ==
    /\ mutex \in {"free", "egress", "timer"} /\ fails \in Nat
    /\ MutexNotLeaked

\* Nobody has the mutex at the beginning.
LEMMA LockInit == Init => LockInv
  BY DEF Init, TcpInit, LockInv, MutexNotLeaked

\* Only tcp_send_segments() takes the mutex, in the egress and in the timer
\* thread; it leaves the loop by releasing it, or early because ip_send() failed.
LEMMA LockNext == LockInv /\ [Next]_vars => LockInv'
<1> SUFFICES ASSUME LockInv, [Next]_vars PROVE LockInv'
  OBVIOUS
<1> USE DEF LockInv, MutexNotLeaked, At
<1>1. CASE UNCHANGED <<mutex, eg, tm, fails>>
  BY <1>1
<1>2. CASE AppSend
  <2>1. CASE SendConnect(sent + 1)
    <3>1. mutex' = "free" /\ (fails' = fails \/ fails' = fails + 1)
      BY <2>1, Zenon DEF SendConnect, SendSyn
    <3> QED
      BY <3>1
  <2>2. CASE SendQueue(sent + 1)
    <3>1. eg = Idle /\ UNCHANGED <<mutex, fails, tm>>
      BY <2>2, Zenon DEF SendQueue, egIdle
    <3> QED
      BY <3>1 DEF Idle
  <2>3. CASE SendRefused(sent + 1)
    BY <1>1, <2>3, Zenon DEF SendRefused, tcpVars
  <2> QED
    BY <1>2, <2>1, <2>2, <2>3, Zenon DEF AppSend
<1>3. CASE Ingress
  BY <1>1, <1>3, Zenon DEF Ingress, TcpInput, InputNoConn, InputBadSyn, FsmTimed, Fsm, FsmListenSyn, FsmIgnore,
    FsmSynSent, FsmSynRcvdRst, FsmSynRcvdAck, FsmSynRcvdOther, FsmLastAck, FsmEstablished, inputIdle, counters
<1>31. CASE FsmAfterSample
  BY <1>1, <1>31, Zenon DEF FsmAfterSample, Fsm, FsmListenSyn, FsmIgnore, FsmSynSent, FsmSynRcvdRst, FsmSynRcvdAck,
    FsmSynRcvdOther, FsmLastAck, FsmEstablished, inputIdle, counters
<1>4. CASE IngressStep
  BY <1>1, <1>31, <1>4 DEF IngressStep, AckFree, AckRearm, EstablishedData, EstablishedFin, EstablishedOther, counters
<1>5. CASE AppendUnsent \/ SendStamp
  BY <1>5 DEF AppendUnsent, SendStamp, egIdle, counters
<1>6. ASSUME NEW t \in {"egress", "timer"}, SendLock(t) PROVE LockInv'
  BY <1>6 DEF SendLock, counters, GoTo
<1>7. ASSUME NEW t \in {"egress", "timer"}, SendSegment(t) PROVE LockInv'
  BY <1>7 DEF SendSegment, counters, GoTo
<1>8. ASSUME NEW t \in {"egress", "timer"}, SendUnlock(t) PROVE LockInv'
  BY <1>8 DEF SendUnlock, counters, GoTo
<1>9. CASE RexmtLoad \/ RexmtStore \/ RexmtExpires \/ RexmtPrepare \/ KeepLoad \/ KeepStore \/ KeepExpires
           \/ RttLoad \/ RttStore
  BY <1>9 DEF RexmtLoad, RexmtStore, RexmtExpires, RexmtPrepare, KeepLoad, KeepStore, KeepExpires, RttLoad,
    RttStore, counters, Idle
<1>10. CASE PeerRecv \/ NetworkFault \/ UNCHANGED vars
  BY <1>1, <1>10, Zenon DEF PeerRecv, stackIdle, counters, vars, tcpVars, NetworkFault, Lose, Duplicate, Overtake, netIdle
<1> QED
  BY <1>2, <1>3, <1>4, <1>5, <1>6, <1>7, <1>8, <1>9, <1>10, Zenon DEF Next, StackStep, EgressStep, TimerStep

-----------------------------------------------------------------------------
\* No element is twice in s; s and t have none in common.
Distinct(s) == \A i, j \in 1..Len(s) : s[i] = s[j] => i = j
Apart(s, t) == \A i \in 1..Len(s), j \in 1..Len(t) : s[i] # t[j]

\* Two lists of datagrams, each datagram on one of them only.
Lists(u, v, n) ==
    u \in Seq(1..n) /\ v \in Seq(1..n) /\ Distinct(u) /\ Distinct(v) /\ Apart(u, v)

\* The egress thread has a datagram in hand, which is on neither list.
HasData == eg.pc \in {"stamp", "append"}
InHand(u, v, d) == Apart(u, <<d>>) /\ Apart(v, <<d>>)

\* Until a thread has used a control block that was freed under it, a thread
\* that is at work has one.
WorkInv == (~undef /\ (rx # Idle \/ eg # Idle \/ tm # Idle)) => conn # NoConn

\* The inductive invariant of the two lists: unsent and unacked hold datagrams
\* of the application, no one twice and none on both, and the datagram that
\* nstack_tcp_send() has allocated and not appended yet is on neither.
ListInv ==
    /\ sent \in Nat /\ WorkInv
    /\ HasData => eg.data \in 1..sent
    /\ conn # NoConn =>
         /\ IsConn(conn) /\ Lists(conn.unsent, conn.unacked, sent)
         /\ HasData => InHand(conn.unsent, conn.unacked, eg.data)

\* The next datagram of the application is on no list yet.
LEMMA ListsGrow ==
    ASSUME NEW n \in Nat, NEW u, NEW v, Lists(u, v, n)
    PROVE  Lists(u, v, n + 1) /\ InHand(u, v, n + 1)
  BY DEF Lists, Distinct, Apart, InHand

\* The datagram in hand goes to the end of unsent.
LEMMA ListsAppend ==
    ASSUME NEW n \in Nat, NEW u, NEW v, NEW d \in 1..n, Lists(u, v, n), InHand(u, v, d)
    PROVE  Lists(Append(u, d), v, n)
<1> DEFINE w == Append(u, d)
<1>1. w \in Seq(1..n) /\ v \in Seq(1..n) /\ u \in Seq(1..n)
  BY DEF Lists
<1>2. /\ Len(w) = Len(u) + 1 /\ w[Len(u) + 1] = d /\ \A i \in 1..Len(u) : w[i] = u[i]
      /\ \A i \in 1..Len(w) : i \in 1..Len(u) \/ i = Len(u) + 1
  BY <1>1
<1>3. \A i \in 1..Len(u) : u[i] # d
  BY DEF InHand, Apart
<1>4. \A i \in 1..Len(v) : v[i] # d
  BY DEF InHand, Apart
<1> HIDE DEF w
<1>5. Distinct(w)
  BY <1>1, <1>2, <1>3 DEF Lists, Distinct
<1>6. Apart(w, v)
  BY <1>1, <1>2, <1>4 DEF Lists, Apart
<1> QED
  BY <1>1, <1>5, <1>6 DEF Lists, w

\* tcp_send_segments() takes the head of unsent, to the end of unacked or away.
LEMMA ListsMove ==
    ASSUME NEW n \in Nat, NEW u, NEW v, Lists(u, v, n), u # <<>>
    PROVE  /\ Lists(Tail(u), Append(v, Head(u)), n) /\ Lists(Tail(u), v, n)
           /\ \A d : InHand(u, v, d) => InHand(Tail(u), Append(v, Head(u)), d) /\ InHand(Tail(u), v, d)
<1> DEFINE t == Tail(u)
           w == Append(v, Head(u))
<1>1. u \in Seq(1..n) /\ v \in Seq(1..n) /\ t \in Seq(1..n) /\ w \in Seq(1..n)
  BY DEF Lists
<1>2. Len(u) \in Nat /\ Len(u) >= 1 /\ Len(t) = Len(u) - 1 /\ \A i \in 1..Len(t) : t[i] = u[i + 1]
  BY <1>1
<1>3. /\ Len(v) \in Nat /\ Len(w) = Len(v) + 1 /\ w[Len(v) + 1] = u[1]
      /\ \A i \in 1..Len(v) : w[i] = v[i]
      /\ \A i \in 1..Len(w) : i \in 1..Len(v) \/ i = Len(v) + 1
  BY <1>1
<1> HIDE DEF t, w
<1>4. \A i \in 1..Len(t) : i + 1 \in 1..Len(u) /\ 1 \in 1..Len(u) /\ i + 1 # 1
  BY <1>2
<1>5. Distinct(t)
  <2> SUFFICES ASSUME NEW i \in 1..Len(t), NEW j \in 1..Len(t), t[i] = t[j] PROVE i = j
    BY DEF Distinct
  <2>1. u[i + 1] = u[j + 1]
    BY <1>2
  <2>2. i + 1 = j + 1
    BY <1>4, <2>1 DEF Lists, Distinct
  <2> QED
    BY <2>2
<1>6. Apart(t, v)
  BY <1>2, <1>4 DEF Lists, Apart
<1>7. \A i \in 1..Len(t) : t[i] # u[1]
  BY <1>2, <1>4 DEF Lists, Distinct
<1>8. Apart(t, w)
  <2>1. \A i \in 1..Len(t), j \in 1..Len(v) : t[i] # v[j]
    BY <1>6 DEF Apart
  <2> QED
    BY <1>3, <1>7, <2>1 DEF Apart
<1>9. \A i \in 1..Len(v) : v[i] # u[1]
  BY <1>2 DEF Lists, Apart
<1>10. Distinct(w)
  <2>1. \A i, j \in 1..Len(v) : v[i] = v[j] => i = j
    BY DEF Lists, Distinct
  <2>2. ASSUME NEW i \in 1..Len(w), NEW j \in 1..Len(w), w[i] = w[j] PROVE i = j
    BY <1>3, <1>9, <2>1, <2>2
  <2> QED
    BY <2>2 DEF Distinct
<1>11. ASSUME NEW d, InHand(u, v, d) PROVE InHand(t, w, d) /\ InHand(t, v, d)
  <2>1. (\A i \in 1..Len(u) : u[i] # d) /\ (\A i \in 1..Len(v) : v[i] # d)
    BY <1>11 DEF InHand, Apart
  <2>2. \A i \in 1..Len(t) : t[i] # d
    BY <1>2, <1>4, <2>1
  <2>3. 1 \in 1..Len(u) /\ u[1] # d
    BY <1>2, <2>1
  <2>4. ASSUME NEW i \in 1..Len(w) PROVE w[i] # d
    <3>1. CASE i \in 1..Len(v)
      BY <1>3, <2>1, <3>1
    <3>2. CASE i = Len(v) + 1
      BY <1>3, <2>3, <3>2
    <3> QED
      BY <1>3, <3>1, <3>2
  <2> QED
    BY <2>1, <2>2, <2>4 DEF InHand, Apart
<1>12. Lists(t, w, n) /\ Lists(t, v, n)
  BY <1>1, <1>5, <1>6, <1>8, <1>10 DEF Lists
<1> QED
  BY <1>11, <1>12 DEF t, w

\* A retransmission puts unacked in front of unsent; an acknowledgment empties
\* unacked.
LEMMA ListsJoin ==
    ASSUME NEW n \in Nat, NEW u, NEW v, Lists(u, v, n)
    PROVE  /\ Lists(v \o u, <<>>, n) /\ Lists(u, <<>>, n)
           /\ \A d : InHand(u, v, d) => InHand(v \o u, <<>>, d) /\ InHand(u, <<>>, d)
<1> DEFINE w == v \o u
<1>1. w \in Seq(1..n) /\ v \in Seq(1..n) /\ u \in Seq(1..n) /\ <<>> \in Seq(1..n)
  BY DEF Lists
<1>2. /\ Len(w) = Len(v) + Len(u)
      /\ \A i \in 1..Len(v) : w[i] = v[i]
      /\ \A i \in 1..Len(w) : i \notin 1..Len(v) => i - Len(v) \in 1..Len(u) /\ w[i] = u[i - Len(v)]
  BY <1>1
<1> HIDE DEF w
<1>3. Distinct(w)
  <2> SUFFICES ASSUME NEW i \in 1..Len(w), NEW j \in 1..Len(w), w[i] = w[j] PROVE i = j
    BY DEF Distinct
  <2>1. Len(u) \in Nat /\ Len(v) \in Nat /\ i \in Int /\ j \in Int
    BY <1>1
  <2>2. CASE i \in 1..Len(v) /\ j \in 1..Len(v)
    BY <1>2, <2>2 DEF Lists, Distinct
  <2>3. CASE i \notin 1..Len(v) /\ j \notin 1..Len(v)
    <3>1. /\ i - Len(v) \in 1..Len(u) /\ w[i] = u[i - Len(v)]
          /\ j - Len(v) \in 1..Len(u) /\ w[j] = u[j - Len(v)]
      BY <1>2, <2>3
    <3>2. \A k, l \in 1..Len(u) : u[k] = u[l] => k = l
      BY DEF Lists, Distinct
    <3>3. i - Len(v) = j - Len(v)
      BY <3>1, <3>2
    <3> QED
      BY <2>1, <3>3
  <2>4. CASE i \in 1..Len(v) /\ j \notin 1..Len(v)
    BY <1>2, <2>4 DEF Lists, Apart
  <2>5. CASE i \notin 1..Len(v) /\ j \in 1..Len(v)
    BY <1>2, <2>5 DEF Lists, Apart
  <2> QED
    BY <2>2, <2>3, <2>4, <2>5
<1>4. Lists(w, <<>>, n) /\ Lists(u, <<>>, n)
  BY <1>1, <1>3 DEF Lists, Distinct, Apart
<1>5. ASSUME NEW d, InHand(u, v, d) PROVE InHand(w, <<>>, d) /\ InHand(u, <<>>, d)
  <2>1. \A i \in 1..Len(w) : w[i] # d
    <3>1. (\A i \in 1..Len(u) : u[i] # d) /\ (\A i \in 1..Len(v) : v[i] # d)
      BY <1>5 DEF InHand, Apart
    <3> QED
      BY <1>2, <3>1
  <2>2. Apart(w, <<d>>) /\ Apart(<<>>, <<d>>)
    BY <2>1 DEF Apart
  <2> QED
    BY <1>5, <2>2 DEF InHand
<1> QED
  BY <1>4, <1>5 DEF w

\* Two lists that are apart have every datagram once between them.
LEMMA ListsOnce ==
    ASSUME NEW n \in Nat, NEW u, NEW v, Lists(u, v, n)
    PROVE  \A i, j \in 1..Len(u \o v) : (u \o v)[i] = (u \o v)[j] => i = j
<1>1. Lists(v, u, n)
  BY DEF Lists, Apart
<1>2. Lists(u \o v, <<>>, n)
  BY <1>1, ListsJoin
<1> QED
  BY <1>2 DEF Lists, Distinct

\* A control block is not the absence of one.
LEMMA ConnIsThere ==
    ASSUME NEW c, IsConn(c)
    PROVE  c # NoConn
  BY DEF IsConn, NoConn

\* tcp_rto_update() does not touch the lists.
LEMMA RtoUpdateLists ==
    ASSUME NEW c, IsConn(c)
    PROVE  /\ IsConn(RtoUpdate(c)) /\ RtoUpdate(c).unsent = c.unsent
           /\ RtoUpdate(c).unacked = c.unacked
  BY DEF IsConn, RtoUpdate

\* tcp_new_connection() makes a control block with empty lists.
LEMMA NewConnLists ==
    ASSUME NEW state
    PROVE  /\ IsConn(NewConn(state)) /\ NewConn(state).unsent = <<>>
           /\ NewConn(state).unacked = <<>>
  BY DEF IsConn, NewConn

\* The control block keeps its two lists.
Keeps == IsConn(conn') /\ conn'.unsent = conn.unsent /\ conn'.unacked = conn.unacked

\* A step that leaves the lists alone, and gives the egress thread nothing new
\* to append.
LEMMA KeepsInv ==
    ASSUME ListInv, conn # NoConn, Keeps, UNCHANGED sent,
           eg' = eg \/ ~HasData' \/ (HasData /\ eg'.data = eg.data)
    PROVE  ListInv'
<1>1. conn' # NoConn
  BY ConnIsThere DEF Keeps
<1> QED
  BY <1>1 DEF ListInv, Keeps, WorkInv, HasData

\* A control block that is new has nothing on its lists.
LEMMA FreshInv ==
    ASSUME ListInv, IsConn(conn'), conn'.unsent = <<>>, conn'.unacked = <<>>, UNCHANGED <<sent, eg>>
    PROVE  ListInv'
<1>1. conn' # NoConn
  BY ConnIsThere
<1> QED
  BY <1>1 DEF ListInv, WorkInv, HasData, Lists, Distinct, Apart, InHand

\* There is no connection at the beginning.
LEMMA ListInit == Init => ListInv
  BY DEF Init, TcpInit, ListInv, WorkInv, HasData, Idle

\* tcp_fsm() from its switch on: it may start a connection or, by the last
\* acknowledgment, end one, and otherwise keeps the lists.
LEMMA FsmLists ==
    ASSUME ListInv, NEW s, Fsm(s), UNCHANGED <<peer, sent>>
    PROVE  ListInv'
<1> DEFINE c == RtoUpdate(conn)
<1>1. UNCHANGED <<eg, tm>>
  BY Zenon DEF Fsm, FsmListenSyn, FsmIgnore, FsmSynSent, FsmSynRcvdRst, FsmSynRcvdAck, FsmSynRcvdOther,
    FsmLastAck, FsmEstablished, inputIdle
<1>2. CASE conn = NoConn
  <2>1. FsmListenSyn(s)
    BY <1>2 DEF Fsm, FsmListenSyn, FsmIgnore, FsmSynSent, FsmSynRcvdRst, FsmSynRcvdAck, FsmSynRcvdOther,
      FsmLastAck, FsmEstablished, NoConn
  <2>2. PICK isn : conn' = [NewConn("LISTEN") EXCEPT
                              !.state = IF bound THEN "SYN_RCVD" ELSE "CLOSED",
                              !.recv_next = Plus(s.seq, 1), !.send_next = Plus(isn, 1)]
    BY <1>2, <2>1, Zenon DEF FsmListenSyn
  <2>3. IsConn(conn') /\ conn'.unsent = <<>> /\ conn'.unacked = <<>>
    BY <2>2, NewConnLists DEF IsConn
  <2> QED
    BY <1>1, <2>3, FreshInv
<1>3. CASE conn # NoConn
  <2>1. IsConn(conn) /\ IsConn(c) /\ c.unsent = conn.unsent /\ c.unacked = conn.unacked
    BY <1>3, RtoUpdateLists DEF ListInv
  <2> HIDE DEF c
  <2>2. CASE FsmLastAck(s)
    <3>1. CASE "ACK" \in s.flags
      <4>1. conn' = NoConn /\ (undef' <=> (eg # Idle \/ tm # Idle))
        BY <2>2, <3>1, Zenon DEF FsmLastAck
      <4>2. rx' = Idle
        BY <2>2 DEF FsmLastAck, NoReply
      <4> QED
        BY <1>1, <4>1, <4>2 DEF ListInv, WorkInv, HasData
    <3>2. CASE "ACK" \notin s.flags
      <4>1. Keeps
        BY <2>1, <2>2, <3>2 DEF FsmLastAck, Keeps, c
      <4> QED
        BY <1>1, <1>3, <4>1, KeepsInv
    <3> QED
      BY <3>1, <3>2
  <2>3. CASE FsmListenSyn(s)
    <3>1. PICK isn : conn' = [c EXCEPT !.state = IF bound THEN "SYN_RCVD" ELSE "CLOSED",
                                !.recv_next = Plus(s.seq, 1), !.send_next = Plus(isn, 1)]
      BY <1>3, <2>3, Zenon DEF FsmListenSyn, c
    <3>2. Keeps
      BY <2>1, <3>1 DEF Keeps, IsConn
    <3> QED
      BY <1>1, <1>3, <3>2, KeepsInv
  <2>4. CASE FsmIgnore(s) \/ FsmSynSent(s) \/ FsmSynRcvdRst(s) \/ FsmSynRcvdAck(s) \/ FsmSynRcvdOther(s)
    <3>1. Keeps
      BY <2>1, <2>4 DEF FsmIgnore, FsmSynSent, FsmSynRcvdRst, FsmSynRcvdAck, FsmSynRcvdOther, Keeps, IsConn, c
    <3> QED
      BY <1>1, <1>3, <3>1, KeepsInv
  <2>5. CASE FsmEstablished(s)
    <3>1. Keeps
      BY <2>1, <2>5 DEF FsmEstablished, Keeps, IsConn, c
    <3> QED
      BY <1>1, <1>3, <3>1, KeepsInv
  <2> QED
    BY <2>2, <2>3, <2>4, <2>5, Zenon DEF Fsm
<1> QED
  BY <1>2, <1>3

\* tcp_input() up to its first wait.
LEMMA IngressLists ==
    ASSUME ListInv, Ingress, UNCHANGED <<peer, sent>>
    PROVE  ListInv'
<1> DEFINE s == Head(toStack)
<1> HIDE DEF s
<1>1. CASE InputNoConn(s)
  BY <1>1 DEF InputNoConn, inputIdle, ListInv, WorkInv, HasData
<1>2. CASE InputBadSyn(s)
  <2>1. conn # NoConn /\ UNCHANGED <<conn, eg, tm, undef>>
    BY <1>2 DEF InputBadSyn, inputIdle, NoReply, Synchronized, NoConn
  <2> QED
    BY <2>1 DEF ListInv, WorkInv, HasData
<1>3. CASE FsmTimed(s)
  <2>1. conn # NoConn /\ UNCHANGED <<conn, eg, tm, undef>>
    BY <1>3 DEF FsmTimed, inputIdle
  <2> QED
    BY <2>1 DEF ListInv, WorkInv, HasData
<1>4. CASE Fsm(s)
  BY <1>4, FsmLists
<1> QED
  BY <1>1, <1>2, <1>3, <1>4, Zenon DEF Ingress, TcpInput, s

\* The rest of tcp_fsm() in ESTABLISHED: an acknowledgment frees the segments on
\* unacked, all of them.
LEMMA IngressStepLists ==
    ASSUME ListInv, ~undef, IngressStep, UNCHANGED <<peer, sent>>
    PROVE  ListInv'
<1>0. CASE FsmAfterSample
  BY <1>0, FsmLists DEF FsmAfterSample
<1> SUFFICES ASSUME AckFree \/ AckRearm \/ EstablishedData \/ EstablishedFin \/ EstablishedOther
             PROVE  ListInv'
  BY <1>0 DEF IngressStep
<1>1. conn # NoConn /\ IsConn(conn) /\ Lists(conn.unsent, conn.unacked, sent) /\ sent \in Nat
      /\ UNCHANGED eg
  BY DEF AckFree, AckRearm, EstablishedData, EstablishedFin, EstablishedOther, ListInv,
         WorkInv, Idle
<1>2. CASE AckFree
  <2>1. IsConn(conn') /\ conn'.unsent = conn.unsent /\ conn'.unacked = <<>>
    BY <1>1, <1>2 DEF AckFree, IsConn
  <2>2. Lists(conn'.unsent, conn'.unacked, sent)
    BY <1>1, <2>1, ListsJoin
  <2>3. \A d : InHand(conn.unsent, conn.unacked, d) => InHand(conn'.unsent, conn'.unacked, d)
    BY <1>1, <2>1, ListsJoin
  <2>4. conn' # NoConn
    BY <2>1, ConnIsThere
  <2> QED
    BY <1>1, <2>1, <2>2, <2>3, <2>4 DEF ListInv, WorkInv, HasData
<1>3. CASE AckRearm \/ EstablishedData \/ EstablishedFin \/ EstablishedOther
  <2>1. Keeps
    BY <1>1, <1>3 DEF AckRearm, EstablishedData, EstablishedFin, EstablishedOther, Keeps, IsConn
  <2> QED
    BY <1>1, <2>1, KeepsInv
<1> QED
  BY <1>2, <1>3

\* nstack_tcp_send(): a datagram starts a connection, is taken in hand, or is
\* refused.
LEMMA AppSendLists ==
    ASSUME ListInv, ~undef, AppSend
    PROVE  ListInv'
<1>1. sent \in Nat /\ sent' = sent + 1
  BY DEF AppSend, ListInv
<1> DEFINE d == sent + 1
<1> HIDE DEF d
<1>2. conn # NoConn => IsConn(conn) /\ Lists(conn.unsent, conn.unacked, d)
                       /\ InHand(conn.unsent, conn.unacked, d)
  BY <1>1, ListsGrow DEF ListInv, d
<1>3. CASE SendConnect(d)
  <2>1. PICK isn : SendSyn([ConnectionInit(NewConn("CLOSED"), isn) EXCEPT !.unsent = <<d>>])
    BY <1>3 DEF SendConnect
  <2>2. IsConn(conn') /\ conn'.unsent = <<d>> /\ conn'.unacked = <<>>
    BY <2>1, NewConnLists DEF SendSyn, ConnectionInit, IsConn
  <2>3. Lists(<<d>>, <<>>, d) /\ d \in Nat
    BY <1>1 DEF Lists, Distinct, Apart, d
  <2>4. eg' = Idle /\ conn' # NoConn
    BY <1>3, <2>2, ConnIsThere DEF SendConnect
  <2> QED
    BY <1>1, <2>2, <2>3, <2>4 DEF ListInv, WorkInv, HasData, Idle, d
<1>4. CASE SendQueue(d)
  <2>1. conn # NoConn
    BY <1>4 DEF SendQueue, NoConn
  <2>2. Keeps
    BY <1>2, <1>4, <2>1 DEF SendQueue, Keeps, IsConn
  <2>3. conn' # NoConn
    BY <2>2, ConnIsThere DEF Keeps
  <2>4. HasData' /\ eg'.data = d
    BY <1>4 DEF SendQueue, HasData
  <2> QED
    BY <1>1, <1>2, <2>1, <2>2, <2>3, <2>4 DEF ListInv, WorkInv, HasData, Keeps, d
<1>5. CASE SendRefused(d)
  <2>1. eg = Idle /\ UNCHANGED <<conn, eg, rx, tm, undef>>
    BY <1>5 DEF SendRefused, tcpVars
  <2> QED
    BY <1>1, <1>2, <2>1 DEF ListInv, WorkInv, HasData, Idle, d
<1> QED
  BY <1>3, <1>4, <1>5 DEF AppSend, d

\* tcp_send_segments(), in the egress and in the timer thread.
LEMMA SendLists ==
    ASSUME ListInv, ~undef, NEW t \in {"egress", "timer"},
           SendLock(t) \/ SendSegment(t) \/ SendUnlock(t), UNCHANGED <<peer, sent>>
    PROVE  ListInv'
<1>1. At(t, "lock") \/ At(t, "send")
  BY Zenon DEF SendLock, SendSegment, SendUnlock
<1>2. conn # NoConn /\ IsConn(conn) /\ Lists(conn.unsent, conn.unacked, sent) /\ sent \in Nat
  BY <1>1 DEF At, ListInv, WorkInv, Idle
<1>3. eg' = eg \/ ~HasData'
  BY DEF SendLock, SendSegment, SendUnlock, GoTo, HasData
<1>4. CASE SendLock(t) \/ SendUnlock(t)
  <2>1. Keeps
    BY <1>2, <1>4 DEF SendLock, SendUnlock, Keeps
  <2> QED
    BY <1>2, <1>3, <2>1, KeepsInv
<1>5. CASE SendSegment(t)
  <2>1. conn.unsent # <<>>
    BY <1>5 DEF SendSegment
  <2>2. IsConn(conn') /\ conn'.unsent = Tail(conn.unsent)
        /\ (conn'.unacked = Append(conn.unacked, Head(conn.unsent)) \/ conn'.unacked = conn.unacked)
    BY <1>2, <1>5 DEF SendSegment, IsConn
  <2>3. Lists(conn'.unsent, conn'.unacked, sent)
    BY <1>2, <2>1, <2>2, ListsMove
  <2>4. \A d : InHand(conn.unsent, conn.unacked, d) => InHand(conn'.unsent, conn'.unacked, d)
    BY <1>2, <2>1, <2>2, ListsMove
  <2>5. conn' # NoConn
    BY <2>2, ConnIsThere
  <2> QED
    BY <1>2, <1>3, <2>2, <2>3, <2>4, <2>5 DEF ListInv, WorkInv, HasData
<1> QED
  BY <1>4, <1>5

\* nstack_tcp_send() appends the datagram it has in hand.
LEMMA AppendLists ==
    ASSUME ListInv, ~undef, AppendUnsent, UNCHANGED <<peer, sent>>
    PROVE  ListInv'
<1>1. eg.pc = "append" /\ HasData /\ ~HasData'
  BY DEF AppendUnsent, HasData
<1>2. conn # NoConn /\ IsConn(conn) /\ Lists(conn.unsent, conn.unacked, sent) /\ sent \in Nat
      /\ eg.data \in 1..sent /\ InHand(conn.unsent, conn.unacked, eg.data)
  BY <1>1 DEF ListInv, WorkInv, HasData, Idle
<1>3. CASE conn.lists
  <2>1. conn' = [conn EXCEPT !.unsent = Append(@, eg.data)]
    BY <1>3 DEF AppendUnsent
  <2>2. IsConn(conn') /\ conn'.unsent = Append(conn.unsent, eg.data) /\ conn'.unacked = conn.unacked
    BY <1>2, <2>1 DEF IsConn
  <2>3. Lists(conn'.unsent, conn'.unacked, sent)
    BY <1>2, <2>2, ListsAppend
  <2>4. conn' # NoConn
    BY <2>2, ConnIsThere
  <2> QED
    BY <1>1, <1>2, <2>2, <2>3, <2>4 DEF ListInv, WorkInv, HasData
<1>4. CASE ~conn.lists
  <2>1. Keeps
    BY <1>2, <1>4 DEF AppendUnsent, Keeps
  <2> QED
    BY <1>1, <1>2, <2>1, KeepsInv
<1> QED
  BY <1>3, <1>4

\* It has stored the number of the one it times before that.
LEMMA StampLists ==
    ASSUME ListInv, ~undef, SendStamp, UNCHANGED <<peer, sent>>
    PROVE  ListInv'
<1>1. conn # NoConn /\ IsConn(conn) /\ HasData
  BY DEF SendStamp, ListInv, WorkInv, HasData, Idle
<1>2. conn' = [conn EXCEPT !.rtt_cur_seq = conn.send_next] /\ eg' = [eg EXCEPT !.pc = "append"]
  BY DEF SendStamp
<1>3. Keeps
  BY <1>1, <1>2 DEF Keeps, IsConn
<1>4. eg'.data = eg.data
  BY <1>2
<1> QED
  BY <1>1, <1>3, <1>4, KeepsInv

\* tcp_slowtimo() and tcp_timer(): a retransmission joins the lists, the
\* keep-alive timer frees the connection.
LEMMA TimerLists ==
    ASSUME ListInv, ~undef, UNCHANGED <<peer, sent>>,
           \/ RexmtLoad \/ RexmtStore \/ RexmtExpires \/ RexmtPrepare
           \/ KeepLoad \/ KeepStore \/ KeepExpires \/ RttLoad \/ RttStore
    PROVE  ListInv'
<1>1. conn # NoConn /\ UNCHANGED eg
  BY DEF RexmtLoad, RexmtStore, RexmtExpires, RexmtPrepare, KeepLoad, KeepStore, KeepExpires,
         RttLoad, RttStore, ListInv, WorkInv, Idle
<1>2. IsConn(conn) /\ Lists(conn.unsent, conn.unacked, sent) /\ sent \in Nat
  BY <1>1 DEF ListInv
<1>3. CASE RexmtLoad \/ RexmtStore \/ RexmtExpires \/ KeepLoad \/ KeepStore \/ RttLoad \/ RttStore
  <2>1. Keeps
    BY <1>2, <1>3 DEF RexmtLoad, RexmtStore, RexmtExpires, KeepLoad, KeepStore, RttLoad, RttStore, Keeps, IsConn
  <2> QED
    BY <1>1, <2>1, KeepsInv
<1>4. CASE RexmtPrepare
  <2>1. IsConn(conn') /\ conn'.unsent = conn.unacked \o conn.unsent /\ conn'.unacked = <<>>
    BY <1>2, <1>4 DEF RexmtPrepare, IsConn
  <2>2. Lists(conn'.unsent, conn'.unacked, sent)
    BY <1>2, <2>1, ListsJoin
  <2>3. \A d : InHand(conn.unsent, conn.unacked, d) => InHand(conn'.unsent, conn'.unacked, d)
    BY <1>2, <2>1, ListsJoin
  <2>4. conn' # NoConn
    BY <2>1, ConnIsThere
  <2> QED
    BY <1>1, <1>2, <2>1, <2>2, <2>3, <2>4 DEF ListInv, WorkInv, HasData
<1>5. CASE KeepExpires
  <2>1. conn' = NoConn /\ tm' = Idle /\ UNCHANGED rx /\ (undef' <=> (rx # Idle \/ eg # Idle))
    BY <1>5, Zenon DEF KeepExpires
  <2> QED
    BY <1>1, <2>1 DEF ListInv, WorkInv, HasData
<1> QED
  BY <1>3, <1>4, <1>5

\* Every step of every thread, of the peer and of the network.
LEMMA ListNext == ListInv /\ [Next]_vars => ListInv'
<1> SUFFICES ASSUME ListInv, [Next]_vars PROVE ListInv'
  OBVIOUS
<1>1. CASE UNCHANGED <<conn, rx, eg, tm, undef, sent>>
  BY <1>1 DEF ListInv, WorkInv, HasData
<1>2. CASE PeerRecv \/ (NetworkFault /\ UNCHANGED <<peer, sent>>) \/ UNCHANGED vars
  BY <1>1, <1>2, Zenon DEF PeerRecv, stackIdle, vars, tcpVars, NetworkFault, Lose, Duplicate, Overtake, netIdle
<1>3. CASE ~undef /\ AppSend
  BY <1>3, AppSendLists
<1>4. CASE ~undef /\ StackStep
  BY <1>4, IngressLists, IngressStepLists, StampLists, AppendLists, SendLists, TimerLists, Zenon
  DEF StackStep, EgressStep, TimerStep
<1> QED
  BY <1>2, <1>3, <1>4 DEF Next

\* No datagram is twice on the lists of a connection: retransmission, which moves
\* unacked in front of unsent, acknowledgments that free unacked and a sender that
\* appends meanwhile never put one there a second time, however they interleave.
THEOREM NeverQueuedTwice == Spec => []SegmentOnce
<1>1. ListInv => SegmentOnce
  BY ListsOnce DEF ListInv, SegmentOnce
<1> QED
  BY <1>1, ListInit, ListNext, PTL DEF Spec

\* A thread that has left tcp_send_segments() does not have conn->mutex any more,
\* unless ip_send() has failed in there, whose early return leaves it locked: there
\* is no other way for the egress and the timer thread to lock each other out.
THEOREM MutexReleased == Spec => []MutexNotLeaked
<1>1. LockInv => MutexNotLeaked
  BY DEF LockInv
<1> QED
  BY <1>1, LockInit, LockNext, PTL DEF Spec
-----------------------------------------------------------------------------
\* A quarter, rounded down, of a deviation of 2 or more leaves 2 or more.
LEMMA QuarterLeavesTwo ==
    ASSUME NEW v \in Nat, v >= 2
    PROVE  v - (v \div 4) >= 2
  BY SMT

\* An eighth is a natural number, and no more than the whole.
LEMMA EighthBelow ==
    ASSUME NEW e \in Nat
    PROVE  e \div 8 \in Nat /\ e \div 8 <= e
  BY SMT

\* tcp_connection_init() and calloc() start in range.
LEMMA InitRto == RtoInit => RtoInv
  BY SMT DEF RtoInit, RtoInv, TCP_TV_SRTTBASE, TCP_TV_SRTTDFLT, TCP_RTTDFT, TCP_TIMER_PR_SLOWHZ

\* A first measurement, which may be 0.
LEMMA FirstInRange ==
    ASSUME RtoInv, EndTiming, rtt_est = 0
    PROVE  RtoInv'
<1>1. rtt \in Nat /\ rtt_est' = rtt * 8 /\ rtt_var' = rtt * 2 /\ rtt' = 0 /\ loaded' = loaded
  BY DEF EndTiming, FirstSample, RtoInv
<1>2. retran_timeout' = RexmtVal(rtt_est', rtt_var')
  BY DEF EndTiming
<1>3. CASE rtt = 0
  <2>1. rtt_est' = 0 /\ rtt_var' = 0
    BY <1>1, <1>3
  <2>2. RexmtVal(0, 0) = 0
    BY SMT DEF RexmtVal
  <2> QED
    BY <1>1, <1>2, <2>1, <2>2 DEF RtoInv
<1>4. CASE rtt # 0
  BY <1>1, <1>2, <1>4 DEF RtoInv
<1> QED
  BY <1>3, <1>4

\* A later one, which may be 0 as well.
LEMMA NextInRange ==
    ASSUME RtoInv, EndTiming, rtt_est # 0
    PROVE  RtoInv'
<1> DEFINE delta == (rtt - 1) - (rtt_est \div 8)
<1>1. rtt_est \div 8 \in Nat
  BY EighthBelow DEF RtoInv
<1>2. rtt_var \in Nat /\ rtt_var - (rtt_var \div 4) >= 2 /\ rtt_var \div 4 \in Nat
  BY QuarterLeavesTwo, SMT DEF RtoInv
<1>3. delta \in Int
  BY <1>1 DEF RtoInv
<1>4. /\ rtt_est' = AtLeastOne(rtt_est + delta)
      /\ rtt_var' = AtLeastOne(rtt_var + (Abs(delta) - (rtt_var \div 4)))
  BY DEF EndTiming, NextSample
<1>5. Abs(delta) \in Nat
  BY <1>3 DEF Abs
<1> HIDE DEF delta
<1>6. rtt_est' \in Nat \ {0} /\ rtt_var' \in Nat /\ rtt_var' >= 2
  BY <1>2, <1>3, <1>4, <1>5 DEF RtoInv, AtLeastOne
<1>7. retran_timeout' = RexmtVal(rtt_est', rtt_var') /\ rtt' = 0 /\ loaded' = loaded
  BY DEF EndTiming
<1> QED
  BY <1>6, <1>7 DEF RtoInv

\* Every step of the three threads keeps the range.
LEMMA StepRto ==
    ASSUME RtoInv, [RtoNext]_rtoVars
    PROVE  RtoInv'
<1>1. CASE StartTest \/ StartTiming
  BY <1>1 DEF StartTest, StartTiming, estimators, RtoInv
<1>2. CASE TickTest \/ TickLoad \/ TickStore \/ Retransmit
  BY <1>2 DEF TickTest, TickLoad, TickStore, Retransmit, estimators, RtoInv
<1>3. CASE EndTest
  BY <1>3 DEF EndTest, estimators, RtoInv
<1>4. CASE EndTiming
  BY <1>4, FirstInRange, NextInRange
<1>5. CASE UNCHANGED rtoVars
  BY <1>5 DEF rtoVars, RtoInv
<1> QED
  BY <1>1, <1>2, <1>3, <1>4, <1>5 DEF RtoNext

\* Once a measurement has counted, the deviation stays at 2 or more and the timeout
\* is that of the estimators, whatever is measured and however the three threads
\* interleave between the loads and stores of conn->rtt; until then both are the
\* initial ones or 0 (tcp_rto_update()).
THEOREM RtoInvariant ==
    RtoSpec => []RtoInv
<1>1. RtoInit => RtoInv
  BY InitRto
<1>2. RtoInv /\ [RtoNext]_rtoVars => RtoInv'
  BY StepRto
<1> QED
  BY <1>1, <1>2, PTL DEF RtoSpec

\* Once a measurement has counted, the retransmission timeout is never below
\* TCP_TV_MIN, so tcp_timer() restarts the retransmission timer.
THEOREM RtoNeverBelowMin ==
    RtoSpec => []RtoAtLeastMin
<1>1. RtoInv => RtoAtLeastMin
  <2> SUFFICES ASSUME RtoInv, rtt_est # 0 PROVE retran_timeout >= TCP_TV_MIN
    BY DEF RtoAtLeastMin
  <2> DEFINE d == rtt_est \div 8
  <2>1. d \in Nat
    BY EighthBelow DEF RtoInv
  <2>2. retran_timeout = d + rtt_var /\ rtt_var \in Nat /\ rtt_var >= 2
    BY DEF RtoInv, RexmtVal
  <2> HIDE DEF d
  <2> QED
    BY <2>1, <2>2 DEF TCP_TV_MIN
<1> QED
  BY <1>1, RtoInvariant, PTL
=============================================================================

------------------------- MODULE NstackThreadsProofs -------------------------
(***************************************************************************)
(* Proofs about NstackThreads, for any number of sockets, any capacity of  *)
(* their queues and any number of datagrams.                               *)
(***************************************************************************)
EXTENDS NstackThreads, TLAPS

\* The numbers 1 to n in order.
UpTo(n) == [i \in 1..n |-> i]

\* Adding to the second of two queues adds to both together.
LEMMA AppendBehind ==
    ASSUME NEW S, NEW s \in Seq(S), NEW t \in Seq(S), NEW e \in S
    PROVE  s \o Append(t, e) = Append(s \o t, e)
  OBVIOUS

\* Moving the head of the second queue to the end of the first changes nothing.
LEMMA MoveHead ==
    ASSUME NEW S, NEW s \in Seq(S), NEW t \in Seq(S), t # <<>>
    PROVE  Append(s, Head(t)) \o Tail(t) = s \o t
<1>1. Head(t) \in S /\ Tail(t) \in Seq(S) /\ Len(Tail(t)) = Len(t) - 1 /\ Len(t) >= 1
  OBVIOUS
<1> DEFINE l == Append(s, Head(t)) \o Tail(t)
           r == s \o t
<1>2. l \in Seq(S) /\ r \in Seq(S)
  BY <1>1
<1>3. Len(l) = Len(r)
  BY <1>1
<1>4. \A i \in 1..Len(l) : l[i] = r[i]
  BY <1>1
<1> HIDE DEF l, r
<1>5. l = r
  BY <1>2, <1>3, <1>4
<1> QED
  BY <1>5 DEF l, r

\* Taking from the front and adding at the end do not disturb each other.
LEMMA TailAppend ==
    ASSUME NEW S, NEW t \in Seq(S), t # <<>>, NEW e \in S
    PROVE  Tail(t) \in Seq(S) /\ Tail(Append(t, e)) = Append(Tail(t), e)
<1>1. Tail(t) \in Seq(S) /\ Len(Tail(t)) = Len(t) - 1 /\ Len(t) >= 1
  OBVIOUS
<1> DEFINE l == Tail(Append(t, e))
           r == Append(Tail(t), e)
<1>2. l \in Seq(S) /\ r \in Seq(S)
  BY <1>1
<1>3. Len(l) = Len(t) /\ Len(r) = Len(t)
  BY <1>1
<1>4. \A i \in 1..Len(t) : l[i] = r[i]
  <2> SUFFICES ASSUME NEW i \in 1..Len(t) PROVE l[i] = r[i]
    OBVIOUS
  <2>1. l[i] = Append(t, e)[i + 1]
    BY <1>1
  <2>2. CASE i = Len(t)
    BY <1>1, <2>1, <2>2
  <2>3. CASE i < Len(t)
    <3>1. Tail(t)[i] = t[i + 1]
      BY <1>1, <2>3
    <3>2. r[i] = Tail(t)[i]
      <4>1. \A u \in Seq(S) : i \in 1..Len(u) => Append(u, e)[i] = u[i]
        OBVIOUS
      <4>2. i \in 1..Len(Tail(t))
        BY <1>1, <2>3
      <4> QED
        BY <1>1, <4>1, <4>2, Zenon
    <3>3. Append(t, e)[i + 1] = t[i + 1]
      BY <2>3
    <3> QED
      BY <2>1, <3>1, <3>2, <3>3
  <2> QED
    BY <2>2, <2>3
<1> HIDE DEF l, r
<1>5. l = r
  BY <1>2, <1>3, <1>4
<1> QED
  BY <1>1, <1>5 DEF l, r

\* The next number comes last.
LEMMA UpToNext ==
    ASSUME NEW n \in Nat
    PROVE  UpTo(n) \in Seq(Nat) /\ Append(UpTo(n), n + 1) = UpTo(n + 1)
  BY DEF UpTo
-----------------------------------------------------------------------------
\* There is no egress thread before nstack_start() has created it, and nothing has
\* been sent when nstack_init() wipes the queues.
StartInv ==
    /\ main_pc \in {"init", "start", "egress"} => eg_pc = "none"
    /\ main_pc = "init" => handed = [s \in Socks |-> <<>>]

\* From proto_send[] to queue_discard() the datagram that was sent is still the
\* head of the queue, whatever the application pushes behind it.
Sent == eg_pc \in {"discard", "blocked"}

EgressInv ==
    /\ egq \in [Socks -> Seq(Nat)] /\ handed \in [Socks -> Seq(Nat)]
    /\ accepted \in [Socks -> Nat]
    /\ Sent => eg_sock \in Socks /\ egq[eg_sock] # <<>>
    /\ EgressInOrder

LEMMA EgressInit == Init => EgressInv
  BY DEF Init, EgressInv, EgressInOrder, Unsent, Sent

\* Steps of the other threads, and those of the egress thread that send nothing.
LEMMA EgressOther ==
    ASSUME EgressInv, UNCHANGED <<egq, handed, accepted>>,
           \/ UNCHANGED <<eg_pc, eg_sock>>
           \/ ~Sent /\ ~Sent'
    PROVE  EgressInv'
  BY DEF EgressInv, EgressInOrder, Unsent, Sent

\* An application's datagram goes behind what is queued, also while the egress
\* thread is about to discard the head.
LEMMA SendtoInv ==
    ASSUME EgressInv, NEW s \in Socks, Sendto(s)
    PROVE  EgressInv'
<1> DEFINE n == accepted[s] + 1
<1> HIDE DEF n
<1>1. n \in Nat /\ n = accepted[s] + 1 /\ accepted[s] \in Nat /\ egq[s] \in Seq(Nat)
      /\ handed[s] \in Seq(Nat)
  BY DEF EgressInv, n
<1>2. UNCHANGED <<eg_pc, eg_sock, handed>>
  BY DEF Sendto, threadVars
<1>3. egq' = [egq EXCEPT ![s] = Append(egq[s], n)] /\ accepted' = [accepted EXCEPT ![s] = n]
  BY DEF Sendto, n
<1>4. egq' \in [Socks -> Seq(Nat)] /\ accepted' \in [Socks -> Nat]
  BY <1>1, <1>3 DEF EgressInv
<1>5. \A q \in Socks : q # s => egq'[q] = egq[q] /\ accepted'[q] = accepted[q]
  BY <1>3 DEF EgressInv
<1>6. egq'[s] = Append(egq[s], n) /\ accepted'[s] = n /\ egq'[s] # <<>>
  BY <1>1, <1>3 DEF EgressInv
<1>7. Sent' => eg_sock' \in Socks /\ egq'[eg_sock'] # <<>>
  BY <1>2, <1>5, <1>6 DEF EgressInv, Sent
<1>8. Unsent(s)' = Append(Unsent(s), n) /\ Unsent(s) \in Seq(Nat)
  <2>1. CASE Sent /\ eg_sock = s
    <3>1. egq[s] # <<>>
      BY <2>1 DEF EgressInv
    <3>2. Tail(Append(egq[s], n)) = Append(Tail(egq[s]), n) /\ Tail(egq[s]) \in Seq(Nat)
      BY <1>1, <3>1, TailAppend
    <3> QED
      BY <1>2, <1>6, <2>1, <3>2 DEF Unsent, Sent
  <2>2. CASE ~(Sent /\ eg_sock = s)
    BY <1>1, <1>2, <1>6, <2>2 DEF Unsent, Sent
  <2> QED
    BY <2>1, <2>2
<1>9. EgressInOrder'
  <2> SUFFICES ASSUME NEW q \in Socks PROVE handed'[q] \o Unsent(q)' = UpTo(accepted'[q])
    BY DEF EgressInOrder, UpTo
  <2>1. handed[q] \o Unsent(q) = UpTo(accepted[q])
    BY DEF EgressInv, EgressInOrder, UpTo
  <2>2. CASE q = s
    <3>1. handed[s] \o Append(Unsent(s), n) = Append(handed[s] \o Unsent(s), n)
      <4>1. handed[s] \in Seq(Nat) /\ Unsent(s) \in Seq(Nat) /\ n \in Nat
        BY <1>1, <1>8
      <4>2. \A u, v \in Seq(Nat) : \A e \in Nat : u \o Append(v, e) = Append(u \o v, e)
        BY AppendBehind
      <4> QED
        BY <4>1, <4>2, Zenon
    <3>2. Append(UpTo(accepted[s]), n) = UpTo(n)
      BY <1>1, UpToNext
    <3> QED
      BY <1>2, <1>6, <1>8, <2>1, <2>2, <3>1, <3>2
  <2>3. CASE q # s
    BY <1>2, <1>5, <2>1, <2>3 DEF Unsent
  <2> QED
    BY <2>2, <2>3
<1> QED
  BY <1>2, <1>4, <1>7, <1>9 DEF EgressInv

\* The head of a queue is handed over, to a function that may not return ...
LEMMA SendInv ==
    ASSUME EgressInv, EgressSend \/ EgressBlocks
    PROVE  EgressInv'
<1> DEFINE s == eg_sock
<1>1. s \in Socks /\ egq[s] # <<>> /\ eg_pc = "scan" /\ Sent'
      /\ UNCHANGED <<eg_sock, egq, accepted>>
  BY DEF EgressSend, EgressBlocks, Sent
<1>2. handed' = [handed EXCEPT ![s] = Append(handed[s], Head(egq[s]))]
  BY DEF EgressSend, EgressBlocks
<1>3. egq[s] \in Seq(Nat) /\ handed[s] \in Seq(Nat) /\ Head(egq[s]) \in Nat
  BY <1>1 DEF EgressInv
<1>4. handed' \in [Socks -> Seq(Nat)]
  <2>1. Append(handed[s], Head(egq[s])) \in Seq(Nat)
    BY <1>3
  <2> QED
    BY <1>2, <2>1, Zenon DEF EgressInv
<1>5. ASSUME NEW q \in Socks PROVE handed'[q] \o Unsent(q)' = handed[q] \o Unsent(q)
  <2>1. CASE q = s
    <3>1. Unsent(q)' = Tail(egq[s]) /\ Unsent(q) = egq[s]
      BY <1>1, <2>1 DEF Unsent, Sent
    <3>2. handed'[q] = Append(handed[s], Head(egq[s]))
      BY <1>1, <1>2, <2>1 DEF EgressInv
    <3>3. Append(handed[s], Head(egq[s])) \o Tail(egq[s]) = handed[s] \o egq[s]
      BY <1>1, <1>3, MoveHead, Zenon
    <3> QED
      BY <2>1, <3>1, <3>2, <3>3
  <2>2. CASE q # s
    BY <1>1, <1>2, <2>2 DEF EgressInv, Unsent, Sent
  <2> QED
    BY <2>1, <2>2
<1>6. EgressInOrder'
  BY <1>1, <1>5 DEF EgressInv, EgressInOrder
<1> QED
  BY <1>1, <1>4, <1>6 DEF EgressInv

\* ... and then discarded.
LEMMA DiscardInv ==
    ASSUME EgressInv, EgressDiscard
    PROVE  EgressInv'
<1>1. eg_sock \in Socks /\ egq[eg_sock] # <<>> /\ eg_pc = "discard" /\ eg_pc' = "scan"
      /\ UNCHANGED <<handed, accepted>>
  BY DEF EgressInv, EgressDiscard, Sent
<1>2. egq' = [egq EXCEPT ![eg_sock] = Tail(egq[eg_sock])]
  BY DEF EgressDiscard
<1>3. Tail(egq[eg_sock]) \in Seq(Nat)
  BY <1>1 DEF EgressInv
<1>4. egq' \in [Socks -> Seq(Nat)]
  BY <1>2, <1>3 DEF EgressInv
<1>5. \A q \in Socks : Unsent(q)' = Unsent(q)
  BY <1>1, <1>2 DEF EgressInv, Unsent
<1> QED
  BY <1>1, <1>4, <1>5 DEF EgressInv, EgressInOrder, Sent

\* nstack_init() starts from empty queues.
LEMMA WipeInv ==
    ASSUME StartInv, NstackInit
    PROVE  EgressInv'
<1>1. /\ egq' = [s \in Socks |-> <<>>] /\ accepted' = [s \in Socks |-> 0]
      /\ handed' = [s \in Socks |-> <<>>] /\ eg_pc' = "none"
  BY DEF StartInv, NstackInit, threadVars
<1>2. egq' \in [Socks -> Seq(Nat)] /\ handed' \in [Socks -> Seq(Nat)] /\ accepted' \in [Socks -> Nat]
  BY <1>1
<1>3. ASSUME NEW s \in Socks PROVE handed'[s] \o Unsent(s)' = [i \in 1..accepted'[s] |-> i]
  <2>1. handed'[s] = <<>> /\ Unsent(s)' = <<>> /\ accepted'[s] = 0
    BY <1>1 DEF Unsent
  <2>2. <<>> \o <<>> = [i \in 1..0 |-> i]
    OBVIOUS
  <2> QED
    BY <2>1, <2>2
<1> QED
  BY <1>1, <1>2, <1>3 DEF EgressInv, EgressInOrder, Sent

LEMMA StartNext == StartInv /\ [Next]_vars => StartInv'
<1> SUFFICES ASSUME StartInv, [Next]_vars PROVE StartInv'
  OBVIOUS
<1> USE DEF StartInv
<1>1. CASE StartStep \/ CreateFails \/ Stop \/ JoinStep
  BY <1>1 DEF StartStep, NstackInit, CreateIngress, CreateEgress, CreateTimer, SetRunning, CreateFails,
              Stop, JoinStep, Join, JoinNothing, After, Joined, threadVars, queueVars
<1>2. CASE IngressStep \/ TimerStep \/ AppReads \/ \E s \in Socks : Sendto(s)
  BY <1>2 DEF IngressStep, IngressOther, IngressBlocks, IngressDgram, IngressCommit, IngressCheck,
              IngressCancelled, TimerStep, TimerTick, TimerFails, TimerBlocks, AppReads, Sendto,
              threadVars, queueVars
<1>3. CASE EgressStep
  BY <1>3 DEF EgressStep, EgressWake, EgressSkip, EgressSend, EgressBlocks, EgressDiscard, EgressCheck,
              EgressCancelled, queueVars
<1>4. CASE UNCHANGED vars
  BY <1>4 DEF vars, threadVars, queueVars
<1> QED
  BY <1>1, <1>2, <1>3, <1>4 DEF Next

LEMMA EgressNext == StartInv /\ EgressInv /\ [Next]_vars => EgressInv'
<1> SUFFICES ASSUME StartInv, EgressInv, [Next]_vars PROVE EgressInv'
  OBVIOUS
<1>0. CASE NstackInit
  BY <1>0, WipeInv
<1>1. CASE (StartStep /\ ~NstackInit) \/ CreateFails \/ Stop \/ JoinStep \/ TimerStep \/ AppReads
  <2>1. UNCHANGED <<egq, handed, accepted>>
    BY <1>1 DEF StartStep, CreateIngress, CreateEgress, CreateTimer, SetRunning, CreateFails,
                Stop, JoinStep, Join, JoinNothing, TimerStep, TimerTick, TimerFails, TimerBlocks, AppReads, queueVars
  <2>2. UNCHANGED <<eg_pc, eg_sock>> \/ CreateEgress
    BY <1>1 DEF StartStep, CreateIngress, CreateTimer, SetRunning, CreateFails,
                Stop, JoinStep, Join, JoinNothing, TimerStep, TimerTick, TimerFails, TimerBlocks, AppReads, threadVars
  <2>3. CASE CreateEgress
    BY <2>1, <2>3, EgressOther DEF CreateEgress, StartInv, Sent
  <2> QED
    BY <2>1, <2>2, <2>3, EgressOther
<1>2. CASE IngressStep
  BY <1>2, EgressOther DEF IngressStep, IngressOther, IngressBlocks, IngressDgram, IngressCommit,
              IngressCheck, IngressCancelled, queueVars
<1>3. CASE EgressWake \/ EgressSkip \/ EgressCheck \/ EgressCancelled
  BY <1>3, EgressOther DEF EgressWake, EgressSkip, EgressCheck, EgressCancelled, queueVars, Sent
<1>4. CASE EgressSend \/ EgressBlocks \/ EgressDiscard
  BY <1>4, SendInv, DiscardInv
<1>5. CASE \E s \in Socks : Sendto(s)
  BY <1>5, SendtoInv
<1>6. CASE UNCHANGED vars
  BY <1>6, EgressOther DEF vars, threadVars, queueVars
<1> QED
  BY <1>0, <1>1, <1>2, <1>3, <1>4, <1>5, <1>6 DEF Next, EgressStep

\* The egress thread hands over what the applications send, each datagram once and
\* in order, for any number of sockets.
THEOREM HandedInOrder == Spec => []EgressInOrder
<1>1. EgressInv => EgressInOrder
  BY DEF EgressInv
<1>2. Init => StartInv
  BY DEF Init, StartInv
<1> QED
  BY <1>1, <1>2, StartNext, EgressInit, EgressNext, PTL DEF Spec
=============================================================================

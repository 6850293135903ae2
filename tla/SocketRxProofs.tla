--------------------------- MODULE SocketRxProofs ---------------------------
(***************************************************************************)
(* Proofs about SocketRx, for a queue of any capacity and any number of    *)
(* datagrams, readers and deaths of readers.                               *)
(***************************************************************************)
EXTENDS SocketRx, TLAPS

\* The numbers 1 to n in order.
UpTo(n) == [i \in 1..n |-> i]

\* Adding to the second of two queues adds to both together.
LEMMA AppendBehind ==
    ASSUME NEW S, NEW s \in Seq(S), NEW t \in Seq(S), NEW e \in S
    PROVE  s \o Append(t, e) = Append(s \o t, e)
  OBVIOUS

\* Moving the head of the second queue to the end of the first changes nothing.
LEMMA MoveHead ==
    ASSUME NEW S, NEW s \in Seq(S), NEW t \in Seq(S), t # <<>>
    PROVE  Append(s, Head(t)) \o Tail(t) = s \o t
<1>1. Head(t) \in S /\ Tail(t) \in Seq(S) /\ Len(Tail(t)) = Len(t) - 1 /\ Len(t) >= 1
  OBVIOUS
<1> DEFINE l == Append(s, Head(t)) \o Tail(t)
           r == s \o t
<1>2. l \in Seq(S) /\ r \in Seq(S)
  BY <1>1
<1>3. Len(l) = Len(r)
  BY <1>1
<1>4. \A i \in 1..Len(l) : l[i] = r[i]
  BY <1>1
<1> HIDE DEF l, r
<1>5. l = r
  BY <1>2, <1>3, <1>4
<1> QED
  BY <1>5 DEF l, r

\* The next number comes last.
LEMMA UpToNext ==
    ASSUME NEW n \in Nat
    PROVE  UpTo(n) \in Seq(Nat) /\ Append(UpTo(n), n + 1) = UpTo(n + 1)
  BY DEF UpTo
-----------------------------------------------------------------------------
Committed == IF in_pc = "alloc" THEN arrived - 1 ELSE arrived

\* A datagram that was copied is still the head of the queue when it is
\* discarded: only the reader that has copied it takes anything out.
QueueInv ==
    /\ queue \in Seq(Nat) /\ got \in Seq(Nat) /\ arrived \in Nat
    /\ in_pc = "alloc" => arrived >= 1
    /\ pc = "copied" => queue # <<>> /\ copied = Head(queue)
    /\ NothingLostBetweenReaders

\* A reader that has not blocked the signal is not the one registered.
SignalInv ==
    /\ reader \in Nat /\ pid_end \in Nat /\ pid_end <= reader
    /\ pc = "start" => pid_end < reader
    /\ ReaderNotShot

LEMMA QueueInit == Init => QueueInv
  BY DEF Init, QueueInv, NothingLostBetweenReaders

LEMMA QueueNext == QueueInv /\ [Next]_vars => QueueInv'
<1> SUFFICES ASSUME QueueInv, [Next]_vars PROVE QueueInv'
  OBVIOUS
<1> USE DEF QueueInv
<1>1. CASE DgramInput
  <2>1. Committed' = Committed
    BY <1>1 DEF DgramInput, Committed
  <2> QED
    BY <1>1, <2>1 DEF DgramInput, readerVars, NothingLostBetweenReaders, Committed
<1>2. CASE DgramCommit
  <2>1. arrived \in Nat /\ arrived - 1 \in Nat /\ queue' = Append(queue, arrived)
        /\ got' = got /\ arrived' = arrived /\ in_pc' = "kill" /\ in_pc = "alloc"
    BY <1>2 DEF DgramCommit, readerVars
  <2>2. got \o queue' = Append(got \o queue, arrived)
    BY <2>1, AppendBehind
  <2>3. got \o queue = UpTo(arrived - 1)
    BY <2>1 DEF NothingLostBetweenReaders, UpTo
  <2>4. Append(UpTo(arrived - 1), (arrived - 1) + 1) = UpTo((arrived - 1) + 1)
    BY <2>1, UpToNext
  <2>5. NothingLostBetweenReaders'
    BY <2>1, <2>2, <2>3, <2>4 DEF NothingLostBetweenReaders, UpTo
  <2>6. pc' = "copied" => queue' # <<>> /\ copied' = Head(queue')
    BY <1>2 DEF DgramCommit, readerVars
  <2> QED
    BY <2>1, <2>5, <2>6
<1>3. CASE SignalReader
  BY <1>3 DEF SignalReader, NothingLostBetweenReaders
<1>4. CASE DiscardAndReturn
  <2>1. queue # <<>> /\ queue' = Tail(queue) /\ got' = Append(got, Head(queue))
        /\ pc' = "idle" /\ UNCHANGED <<arrived, in_pc>>
    BY <1>4 DEF DiscardAndReturn, daemonVars
  <2>2. got' \o queue' = got \o queue
    BY <2>1, MoveHead
  <2>3. queue' \in Seq(Nat) /\ got' \in Seq(Nat)
    BY <2>1
  <2> QED
    BY <2>1, <2>2, <2>3 DEF NothingLostBetweenReaders
<1>5. CASE PeekQueue
  BY <1>5 DEF PeekQueue, daemonVars, NothingLostBetweenReaders
<1>6. CASE StartReader \/ Die \/ BlockSigusr2 \/ RegisterPid \/ Recvfrom
           \/ WakeBySignal \/ WakeByTimeout \/ ReturnPeeked
  BY <1>6 DEF StartReader, Die, BlockSigusr2, RegisterPid, Recvfrom, WakeBySignal,
              WakeByTimeout, ReturnPeeked, daemonVars, NothingLostBetweenReaders
<1>7. CASE UNCHANGED vars
  BY <1>7 DEF vars, daemonVars, readerVars, NothingLostBetweenReaders
<1> QED
  BY <1>1, <1>2, <1>3, <1>4, <1>5, <1>6, <1>7 DEF Next, IngressNext, ReaderStep

LEMMA SignalInit == Init => SignalInv
  BY DEF Init, SignalInv, ReaderNotShot

LEMMA SignalNext == SignalInv /\ [Next]_vars => SignalInv'
<1> SUFFICES ASSUME SignalInv, [Next]_vars PROVE SignalInv'
  OBVIOUS
<1> USE DEF SignalInv, ReaderNotShot
<1>1. CASE IngressNext
  BY <1>1 DEF IngressNext, DgramInput, DgramCommit, SignalReader, readerVars
<1>2. CASE StartReader \/ Die \/ ReturnPeeked
  BY <1>2 DEF StartReader, Die, ReturnPeeked
<1>3. CASE ReaderStep
  BY <1>3 DEF ReaderStep, BlockSigusr2, RegisterPid, Recvfrom, WakeBySignal, WakeByTimeout,
              PeekQueue, DiscardAndReturn
<1>4. CASE UNCHANGED vars
  BY <1>4 DEF vars, readerVars
<1> QED
  BY <1>1, <1>2, <1>3, <1>4 DEF Next

\* Readers may die at any point of nstack_recvfrom(): the datagrams taken and
\* those still queued are the ones inetd has committed, each once and in order.
THEOREM NothingLost == Spec => []NothingLostBetweenReaders
<1>1. QueueInv => NothingLostBetweenReaders
  BY DEF QueueInv
<1> QED
  BY <1>1, QueueInit, QueueNext, PTL DEF Spec

\* No reader is ended by the signal that is to wake it.
THEOREM NeverShot == Spec => []ReaderNotShot
<1>1. SignalInv => ReaderNotShot
  BY DEF SignalInv
<1> QED
  BY <1>1, SignalInit, SignalNext, PTL DEF Spec
=============================================================================

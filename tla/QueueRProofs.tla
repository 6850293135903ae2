---------------------------- MODULE QueueRProofs ----------------------------
(***************************************************************************)
(* Proofs about the ring of include/queue_r.h for any number of blocks and *)
(* any set of datagrams.                                                   *)
(***************************************************************************)
EXTENDS QueueR, SequenceTheorems, TLAPS

\* The index arithmetic of queue_r.h, (i + 1) % a_len, without the modulus.
LEMMA NextIndexCases ==
    ASSUME NEW i \in Index
    PROVE  NextIndex(i) = IF i = ALen - 1 THEN 0 ELSE i + 1
<1>1. CASE i = ALen - 1
  <2>1. ALen % ALen = 0
    BY ALenAssumption
  <2> QED
    BY <1>1, <2>1, ALenAssumption DEF NextIndex, Index
<1>2. CASE i # ALen - 1
  BY <1>2, ALenAssumption DEF NextIndex, Index
<1> QED
  BY <1>1, <1>2

\* The ring as queue_create() leaves it satisfies the invariant.
LEMMA InitInv == Init => RingInv
<1> SUFFICES ASSUME Init PROVE RingInv
  OBVIOUS
<1>1. 0 \in Index
  BY ALenAssumption DEF Index
<1>2. NoBlock \in Block /\ NoData \in Cell
  BY DEF NoBlock, Block, Cell
<1>3. TypeOK
  BY <1>1, <1>2 DEF Init, TypeOK
<1>4. PushInv /\ PopInv
  BY DEF Init, PushInv, PopInv, Reading
<1>5. BlocksWhole
  BY ALenAssumption DEF Init, BlocksWhole, Committed, Index
<1>6. NeverTorn
  BY DEF Init, NeverTorn
<1> QED
  BY <1>3, <1>4, <1>5, <1>6 DEF RingInv

\* Every step of either end of the ring keeps the invariant.
LEMMA StepInv == RingInv /\ [Next]_vars => RingInv'
<1> SUFFICES ASSUME RingInv, [Next]_vars PROVE RingInv'
  OBVIOUS
<1> USE ALenAssumption
<1>1. ASSUME NEW d \in Data, QueueAlloc(d) PROVE RingInv'
  <2>1. TypeOK'
    BY <1>1 DEF QueueAlloc, RingInv, TypeOK, popVars, Cell
  <2>2. PushInv'
    BY <1>1 DEF QueueAlloc, RingInv, PushInv, popVars
  <2>3. PopInv' /\ BlocksWhole' /\ NeverTorn'
    BY <1>1 DEF QueueAlloc, RingInv, PopInv, BlocksWhole, Committed, NeverTorn, popVars
  <2> QED
    BY <2>1, <2>2, <2>3 DEF RingInv
<1>2. ASSUME WriteHeader PROVE RingInv'
  <2>1. TypeOK'
    BY <1>2 DEF WriteHeader, RingInv, TypeOK, popVars, Cell, Block
  <2>2. PushInv'
    BY <1>2 DEF WriteHeader, RingInv, PushInv, TypeOK, popVars, Block
  <2>3. \A i \in Index : i # m_write => data'[i] = data[i]
    BY <1>2 DEF WriteHeader, RingInv, PushInv, TypeOK
  <2>4. PopInv'
    BY <1>2, <2>3 DEF WriteHeader, RingInv, PopInv, Reading, Committed, TypeOK, popVars
  <2>5. BlocksWhole'
    BY <1>2, <2>3 DEF WriteHeader, RingInv, BlocksWhole, Committed, TypeOK, Index
  <2>6. NeverTorn'
    BY <1>2 DEF WriteHeader, RingInv, NeverTorn
  <2> QED
    BY <2>1, <2>2, <2>4, <2>5, <2>6 DEF RingInv
<1>3. ASSUME WritePayload PROVE RingInv'
  <2>1. TypeOK'
    BY <1>3 DEF WritePayload, RingInv, TypeOK, popVars, Cell, Block
  <2>2. PushInv'
    BY <1>3 DEF WritePayload, RingInv, PushInv, TypeOK, popVars, Block
  <2>3. \A i \in Index : i # m_write => data'[i] = data[i]
    BY <1>3 DEF WritePayload, RingInv, PushInv, TypeOK
  <2>4. PopInv'
    BY <1>3, <2>3 DEF WritePayload, RingInv, PopInv, Reading, Committed, TypeOK, popVars
  <2>5. BlocksWhole'
    BY <1>3, <2>3 DEF WritePayload, RingInv, BlocksWhole, Committed, TypeOK, Index
  <2>6. NeverTorn'
    BY <1>3 DEF WritePayload, RingInv, NeverTorn
  <2> QED
    BY <2>1, <2>2, <2>4, <2>5, <2>6 DEF RingInv
<1>4. ASSUME QueueCommit PROVE RingInv'
  <2> DEFINE next == IF m_write = ALen - 1 THEN 0 ELSE m_write + 1
  <2>1. m_write' = next /\ next # m_read /\ m_write \in Index /\ m_read \in Index
    BY <1>4, NextIndexCases DEF QueueCommit, RingInv, PushInv, TypeOK
  <2>2. TypeOK'
    BY <1>4, <2>1 DEF QueueCommit, RingInv, TypeOK, popVars, Index
  <2>3. PushInv'
    BY <1>4 DEF QueueCommit, PushInv
  <2>4. PopInv'
    <3>1. \A i \in Index : Committed(i) \/ i = m_write => Committed(i)'
      BY <1>4, <2>1 DEF QueueCommit, Committed, Index
    <3>2. pop_at \in Index /\ m_read' = m_read /\ UNCHANGED popVars /\ data' = data
      BY <1>4 DEF QueueCommit, RingInv, TypeOK
    <3>3. pop_pc' = "clear" => Committed(pop_at)'
      BY <3>1, <3>2 DEF RingInv, PopInv, popVars
    <3> QED
      BY <2>1, <3>2, <3>3 DEF RingInv, PopInv, Reading, Committed, popVars
  <2>5. data[m_write] = Whole(push_dgram) /\ push_dgram \in Data
    BY <1>4 DEF QueueCommit, RingInv, PushInv, TypeOK, Block, Whole
  <2>6. \A i \in Index : Committed(i)' => Committed(i) \/ i = m_write
    BY <1>4, <2>1 DEF QueueCommit, Committed, Index
  <2>7. BlocksWhole'
    BY <1>4, <2>5, <2>6 DEF QueueCommit, RingInv, BlocksWhole
  <2>8. NeverTorn'
    BY <1>4 DEF QueueCommit, RingInv, NeverTorn
  <2> QED
    BY <2>2, <2>3, <2>4, <2>7, <2>8 DEF RingInv
<1>5. CASE PushAbandon
  BY <1>5 DEF PushAbandon, RingInv, TypeOK, PushInv, PopInv, BlocksWhole, Committed,
              NeverTorn, popVars
<1>6. CASE QueuePeek
  BY <1>6 DEF QueuePeek, RingInv, TypeOK, PushInv, PopInv, Reading, BlocksWhole, Committed,
              NeverTorn, pushVars
<1>7. ASSUME ReadHeader PROVE RingInv'
  <2>1. TypeOK'
    BY <1>7 DEF ReadHeader, RingInv, TypeOK, pushVars, Block
  <2>2. PushInv' /\ PopInv'
    BY <1>7 DEF ReadHeader, RingInv, PushInv, PopInv, Reading, pushVars
  <2>3. BlocksWhole' /\ NeverTorn'
    BY <1>7 DEF ReadHeader, RingInv, BlocksWhole, Committed, NeverTorn
  <2> QED
    BY <2>1, <2>2, <2>3 DEF RingInv
<1>8. ASSUME ReadPayload PROVE RingInv'
  <2>1. TypeOK'
    BY <1>8 DEF ReadPayload, RingInv, TypeOK, pushVars, Block
  <2>2. PushInv' /\ PopInv'
    BY <1>8 DEF ReadPayload, RingInv, PushInv, PopInv, Reading, pushVars
  <2>3. BlocksWhole' /\ NeverTorn'
    BY <1>8 DEF ReadPayload, RingInv, BlocksWhole, Committed, NeverTorn
  <2> QED
    BY <2>1, <2>2, <2>3 DEF RingInv
<1>9. ASSUME pop_pc = "discard"
      PROVE  [hdr |-> pop_hdr, body |-> pop_body] = data[m_read]
             /\ data[m_read] \in {Whole(d) : d \in Data} /\ m_read # m_write
  <2>1. m_read \in Index /\ pop_at = m_read /\ m_read # m_write
    BY <1>9 DEF RingInv, PopInv, Reading, TypeOK
  <2>2. Committed(m_read)
    BY <2>1 DEF RingInv, TypeOK, Committed, Index
  <2>3. data[m_read] \in {Whole(d) : d \in Data}
    BY <2>1, <2>2 DEF RingInv, BlocksWhole
  <2>4. pop_hdr = data[m_read].hdr /\ pop_body = data[m_read].body
    BY <1>9, <2>1 DEF RingInv, PopInv
  <2> QED
    BY <2>1, <2>3, <2>4 DEF Whole
<1>10. ASSUME QueueDiscard PROVE RingInv'
  <2> DEFINE next == IF m_read = ALen - 1 THEN 0 ELSE m_read + 1
  <2>1. m_read' = next /\ m_read # m_write /\ m_write \in Index /\ m_read \in Index
    BY <1>9, <1>10, NextIndexCases DEF QueueDiscard, RingInv, TypeOK
  <2>2. out' \in {Whole(d) : d \in Data}
    BY <1>9, <1>10 DEF QueueDiscard
  <2>3. TypeOK'
    BY <1>10, <2>1, <2>2
       DEF QueueDiscard, RingInv, TypeOK, pushVars, Index, Whole, Block, Cell
  <2>4. PushInv'
    <3>1. NextIndex(m_write) # m_read => NextIndex(m_write) # next
      BY <2>1, NextIndexCases DEF Index
    <3> QED
      BY <1>10, <2>1, <3>1 DEF QueueDiscard, RingInv, PushInv, pushVars, NextIndex
  <2>5. PopInv'
    BY <1>10 DEF QueueDiscard, PopInv, Reading
  <2>6. \A i \in Index : Committed(i)' => Committed(i)
    BY <1>10, <2>1 DEF QueueDiscard, Committed, Index
  <2>7. BlocksWhole' /\ NeverTorn'
    BY <1>10, <2>2, <2>6 DEF QueueDiscard, RingInv, BlocksWhole, NeverTorn
  <2> QED
    BY <2>3, <2>4, <2>5, <2>7 DEF RingInv
<1>11. ASSUME ReturnPeeked PROVE RingInv'
  <2>1. out' \in {Whole(d) : d \in Data}
    BY <1>9, <1>11 DEF ReturnPeeked
  <2>2. TypeOK'
    BY <1>11, <2>1 DEF ReturnPeeked, RingInv, TypeOK, pushVars, Whole, Block, Cell
  <2>3. PushInv' /\ PopInv' /\ BlocksWhole' /\ NeverTorn'
    BY <1>11, <2>1 DEF ReturnPeeked, RingInv, PushInv, PopInv, Reading, BlocksWhole, Committed,
                       NeverTorn, pushVars
  <2> QED
    BY <2>2, <2>3 DEF RingInv
<1>12. CASE PopAbandon
  BY <1>12 DEF PopAbandon, RingInv, TypeOK, PushInv, PopInv, Reading, BlocksWhole, Committed,
               NeverTorn, pushVars
<1>13. ASSUME ClearLoad PROVE RingInv'
  BY <1>13 DEF ClearLoad, RingInv, TypeOK, PushInv, PopInv, Reading, BlocksWhole, Committed,
               NeverTorn, pushVars
<1>14. ASSUME ClearStore PROVE RingInv'
  <2>1. /\ m_read' = pop_at /\ m_write' = m_write /\ data' = data
        /\ pop_at \in Index /\ m_read \in Index /\ m_write \in Index
        /\ Committed(pop_at) \/ pop_at = m_write
    BY <1>14 DEF ClearStore, RingInv, PopInv, TypeOK
  <2>2. TypeOK'
    BY <1>14, <2>1 DEF ClearStore, RingInv, TypeOK, pushVars
  <2>3. PushInv'
    <3>1. NextIndex(m_write) # m_read => NextIndex(m_write) # pop_at
      BY <2>1, NextIndexCases DEF Committed, Index
    <3> QED
      BY <1>14, <2>1, <3>1 DEF ClearStore, RingInv, PushInv, pushVars, NextIndex
  <2>4. PopInv'
    BY <1>14 DEF ClearStore, PopInv, Reading
  <2>5. \A i \in Index : Committed(i)' => Committed(i)
    BY <2>1 DEF Committed, Index
  <2>6. BlocksWhole' /\ NeverTorn'
    BY <1>14, <2>1, <2>5 DEF ClearStore, RingInv, BlocksWhole, NeverTorn
  <2> QED
    BY <2>2, <2>3, <2>4, <2>6 DEF RingInv
<1>15. CASE UNCHANGED vars
  BY <1>15 DEF vars, pushVars, popVars, RingInv, TypeOK, PushInv, PopInv, BlocksWhole,
               Committed, NeverTorn
<1> QED
  BY <1>1, <1>2, <1>3, <1>4, <1>5, <1>6, <1>7, <1>8, <1>10, <1>11, <1>12, <1>13, <1>14,
     <1>15 DEF Next, PushNext, PopNext

\* The invariant of the ring holds throughout, for every number of blocks.
THEOREM RingInvariant == Spec => []RingInv
<1> QED
  BY InitInv, StepInv, PTL DEF Spec

\* The indices of queue_cb stay inside the ring, and what is in the blocks and
\* in the locals of the two calls is what they may hold.
THEOREM RingTypes == Spec => []TypeOK
<1>1. RingInv => TypeOK
  BY DEF RingInv
<1> QED
  BY RingInvariant, <1>1, PTL

\* The two ends of the ring never work on the same block: what queue_alloc()
\* hands out is never what queue_peek() has handed out.
THEOREM BlocksExclusive == Spec => []BlockExclusion
<1>1. RingInv => BlockExclusion
  BY DEF RingInv, PushInv, PopInv, Reading, BlockExclusion
<1> QED
  BY RingInvariant, <1>1, PTL
-----------------------------------------------------------------------------
(* The ring implements the FIFO.                                           *)

\* The abstract queue is a sequence of whole datagrams.
LEMMA ContentsType ==
    ASSUME RingInv
    PROVE  /\ Used \in 0..(ALen - 1)
           /\ \A i \in 1..Used : SlotAt(i) \in Index /\ Committed(SlotAt(i))
           /\ Contents \in Seq({Whole(d) : d \in Data})
           /\ Len(Contents) = Used
<1> USE ALenAssumption
<1>1. m_read \in Index /\ m_write \in Index
  BY DEF RingInv, TypeOK
<1>2. Used \in 0..(ALen - 1)
  BY <1>1 DEF Used, Index
<1>3. \A i \in 1..Used : SlotAt(i) \in Index /\ Committed(SlotAt(i))
  BY <1>1 DEF Used, SlotAt, Index, Committed
<1>4. \A i \in 1..Used : data[SlotAt(i)] \in {Whole(d) : d \in Data}
  BY <1>3 DEF RingInv, BlocksWhole
<1> QED
  BY <1>2, <1>3, <1>4 DEF Contents

\* A step that moves neither index and writes no committed block does not
\* change the abstract queue.
LEMMA ContentsUnchanged ==
    ASSUME RingInv, m_read' = m_read, m_write' = m_write,
           \A i \in Index : Committed(i) => data'[i] = data[i]
    PROVE  Contents' = Contents
<1>1. Used' = Used /\ \A i \in 1..Used : SlotAt(i)' = SlotAt(i)
  BY DEF Used, SlotAt
<1>2. \A i \in 1..Used : data'[SlotAt(i)] = data[SlotAt(i)]
  BY ContentsType
<1> QED
  BY <1>1, <1>2 DEF Contents

\* queue_commit() appends the datagram that was written to the abstract queue.
LEMMA CommitEnqueues ==
    ASSUME RingInv, QueueCommit
    PROVE  F!Enqueue(Whole(push_dgram)) /\ push_dgram \in Data
<1> USE ALenAssumption
<1> DEFINE next == IF m_write = ALen - 1 THEN 0 ELSE m_write + 1
<1>1. m_write' = next /\ next # m_read /\ m_write \in Index /\ m_read \in Index
      /\ m_read' = m_read /\ data' = data
  BY NextIndexCases DEF QueueCommit, RingInv, PushInv, TypeOK
<1>2. data[m_write] = Whole(push_dgram) /\ push_dgram \in Data
  BY DEF QueueCommit, RingInv, PushInv, TypeOK, Block, Whole
<1>3. Used' = Used + 1 /\ Used < ALen - 1 /\ Used \in Nat
  BY <1>1 DEF Used, Index
<1>4. \A i \in 1..(Used + 1) : SlotAt(i)' = SlotAt(i)
  BY <1>1 DEF SlotAt
<1>5. SlotAt(Used + 1) = m_write
  BY <1>1 DEF Used, SlotAt, Index
<1>6. Contents' = [i \in 1..(Used + 1) |-> data[SlotAt(i)]]
  BY <1>1, <1>3, <1>4 DEF Contents
<1>7. Append(Contents, data[m_write]) = [i \in 1..(Used + 1) |-> data[SlotAt(i)]]
  BY <1>3, <1>5, ContentsType DEF Contents
<1>8. out' = out
  BY DEF QueueCommit
<1> QED
  BY <1>2, <1>3, <1>6, <1>7, <1>8, ContentsType DEF F!Enqueue

\* The block at m_read, which the pop end has copied, is the oldest datagram.
LEMMA HeadIsRead ==
    ASSUME RingInv, pop_pc = "discard"
    PROVE  /\ Contents # <<>>
           /\ Head(Contents) = [hdr |-> pop_hdr, body |-> pop_body]
           /\ m_read # m_write
<1> USE ALenAssumption
<1>1. m_read \in Index /\ m_write \in Index /\ pop_at = m_read /\ m_read # m_write
  BY DEF RingInv, PopInv, Reading, TypeOK
<1>2. Committed(m_read)
  BY <1>1 DEF Committed, Index
<1>3. data[m_read] = [hdr |-> pop_hdr, body |-> pop_body]
  <2>1. data[m_read] \in {Whole(d) : d \in Data}
    BY <1>1, <1>2 DEF RingInv, BlocksWhole
  <2>2. pop_hdr = data[m_read].hdr /\ pop_body = data[m_read].body
    BY <1>1 DEF RingInv, PopInv
  <2> QED
    BY <2>1, <2>2 DEF Whole
<1>4. Used > 0 /\ SlotAt(1) = m_read
  BY <1>1 DEF Used, SlotAt, Index
<1>5. 1 \in 1..Used
  BY <1>4, ContentsType
<1>6. Contents[1] = data[m_read]
  BY <1>4, <1>5 DEF Contents
<1> QED
  BY <1>1, <1>3, <1>4, <1>6, ContentsType

\* queue_discard(1) removes the oldest datagram from the abstract queue.
LEMMA DiscardDequeues ==
    ASSUME RingInv, QueueDiscard
    PROVE  F!Dequeue
<1> USE ALenAssumption
<1> DEFINE next == IF m_read = ALen - 1 THEN 0 ELSE m_read + 1
<1>1. m_read' = next /\ m_read # m_write /\ m_write \in Index /\ m_read \in Index
      /\ m_write' = m_write /\ data' = data
  BY HeadIsRead, NextIndexCases DEF QueueDiscard, RingInv, TypeOK
<1>2. Used' = Used - 1 /\ Used \in Nat \ {0}
  BY <1>1 DEF Used, Index
<1>3. \A i \in 1..(Used - 1) : SlotAt(i)' = SlotAt(i + 1)
  BY <1>1, <1>2 DEF SlotAt, Used, Index
<1>4. Contents' = [i \in 1..(Used - 1) |-> data[SlotAt(i + 1)]]
  BY <1>1, <1>2, <1>3 DEF Contents
<1>5. Tail(Contents) = Contents'
  <2> DEFINE W == {Whole(d) : d \in Data}
  <2>1. Contents # <<>>
    BY ContentsType, <1>2
  <2>2. /\ Tail(Contents) \in Seq(W)
        /\ Len(Tail(Contents)) = Used - 1
        /\ \A i \in 1..Len(Tail(Contents)) : Tail(Contents)[i] = Contents[i + 1]
    BY ContentsType, <2>1, HeadTailProperties
  <2>3. \A i \in 1..(Used - 1) : data[SlotAt(i + 1)] = Contents[i + 1] /\ Contents[i + 1] \in W
    BY <1>2, ContentsType DEF Contents
  <2>4. Contents' \in Seq(W) /\ Len(Contents') = Used - 1
    BY <1>2, <1>4, <2>3
  <2>5. \A i \in 1..(Used - 1) : Tail(Contents)[i] = Contents'[i]
    BY <1>4, <2>2, <2>3
  <2> QED
    BY <2>2, <2>4, <2>5, SeqEqual
<1> QED
  BY <1>4, <1>5, HeadIsRead DEF F!Dequeue, QueueDiscard

\* queue_clear_from_pop_end() drops the oldest datagrams from the abstract
\* queue, or none when it loaded m_write from an empty ring.
LEMMA ClearDropsOldest ==
    ASSUME RingInv, ClearStore
    PROVE  F!DropOldest \/ UNCHANGED F!fifoVars
<1> USE ALenAssumption
<1> DEFINE W == {Whole(d) : d \in Data}
           k == IF m_read <= pop_at THEN pop_at - m_read ELSE ALen - m_read + pop_at
<1>1. /\ m_read' = pop_at /\ m_write' = m_write /\ data' = data /\ out' = out
      /\ pop_at \in Index /\ m_read \in Index /\ m_write \in Index
      /\ Committed(pop_at) \/ pop_at = m_write
  BY DEF ClearStore, RingInv, PopInv, TypeOK
<1>2. Used \in Nat /\ k \in 0..Used /\ Used' = Used - k
  BY <1>1 DEF Used, Committed, Index
<1>3. \A i \in 1..(Used - k) : SlotAt(i)' = SlotAt(i + k)
  BY <1>1, <1>2 DEF SlotAt, Used, Index
<1>4. Contents' = [i \in 1..(Used - k) |-> data[SlotAt(i + k)]]
  BY <1>1, <1>2, <1>3 DEF Contents
<1>5. CASE k = 0
  <2>1. Contents' = [i \in 1..Used |-> data[SlotAt(i)]]
    BY <1>2, <1>4, <1>5
  <2> QED
    BY <1>1, <2>1 DEF Contents, F!fifoVars
<1>6. CASE k > 0
  <2> HIDE DEF k
  <2>1. Contents \in Seq(W) /\ Len(Contents) = Used
    BY ContentsType
  <2>2. SubSeq(Contents, k + 1, Used) = [i \in 1..(Used - k) |-> Contents[i + k]]
    BY <1>2, <2>1
  <2>3. \A i \in 1..(Used - k) : Contents[i + k] = data[SlotAt(i + k)]
    BY <1>2 DEF Contents
  <2>4. Contents' = SubSeq(Contents, k + 1, Len(Contents))
    BY <1>4, <2>1, <2>2, <2>3
  <2>5. k \in 1..Len(Contents)
    BY <1>2, <1>6, <2>1
  <2> QED
    BY <1>1, <2>4, <2>5 DEF F!DropOldest
<1> QED
  BY <1>2, <1>5, <1>6

\* The ring of include/queue_r.h implements a FIFO of ALen - 1 datagrams:
\* initial states map to the empty queue, queue_commit() to Enqueue,
\* queue_discard() to Dequeue, a return without discarding to Peek, a clear
\* from the pop end to DropOldest, and every
\* other step, the death of either process included, to no step at all.
THEOREM RingImplementsFifo == Spec => ImplementsFifo
<1>1. Init => F!Init
  BY ALenAssumption DEF Init, F!Init, Contents, Used
<1>2. RingInv /\ [Next]_vars => [F!Next]_(F!fifoVars)
  <2> SUFFICES ASSUME RingInv, [Next]_vars PROVE [F!Next]_(F!fifoVars)
    OBVIOUS
  <2>1. CASE QueueCommit
    BY <2>1, CommitEnqueues DEF F!Next
  <2>2. CASE QueueDiscard
    BY <2>2, DiscardDequeues DEF F!Next
  <2>3. ASSUME ReturnPeeked PROVE F!Peek
    <3>1. Contents' = Contents
      BY <2>3, ContentsUnchanged DEF ReturnPeeked
    <3> QED
      BY <2>3, <3>1, HeadIsRead DEF ReturnPeeked, F!Peek
  <2>4. ASSUME WriteHeader \/ WritePayload PROVE UNCHANGED F!fifoVars
    <3>1. m_read' = m_read /\ m_write' = m_write /\ out' = out
      BY <2>4 DEF WriteHeader, WritePayload
    <3>2. \A i \in Index : Committed(i) => data'[i] = data[i]
      BY <2>4, ALenAssumption
         DEF WriteHeader, WritePayload, RingInv, PushInv, TypeOK, Committed, Index
    <3> QED
      BY <3>1, <3>2, ContentsUnchanged DEF F!fifoVars
  <2>5. ASSUME \/ \E d \in Data : QueueAlloc(d)
               \/ PushAbandon \/ QueuePeek \/ ReadHeader \/ ReadPayload \/ ClearLoad
               \/ PopAbandon \/ UNCHANGED vars
        PROVE  UNCHANGED F!fifoVars
    <3>1. m_read' = m_read /\ m_write' = m_write /\ data' = data /\ out' = out
      BY <2>5 DEF QueueAlloc, PushAbandon, QueuePeek, ReadHeader, ReadPayload, ClearLoad,
                   PopAbandon, vars
    <3> QED
      BY <3>1, ContentsUnchanged DEF F!fifoVars
  <2>6. CASE ClearStore
    BY <2>6, ClearDropsOldest DEF F!Next
  <2> QED
    BY <2>1, <2>2, <2>3, <2>4, <2>5, <2>6 DEF Next, PushNext, PopNext, F!Next
<1> QED
  BY RingInvariant, <1>1, <1>2, PTL DEF Spec, ImplementsFifo, F!Spec
=============================================================================

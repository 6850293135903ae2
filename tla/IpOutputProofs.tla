--------------------------- MODULE IpOutputProofs ----------------------------
(***************************************************************************)
(* Proofs about ip_send() and the queue of packets that wait for ARP, for  *)
(* any length of the queue, any destinations, any number of packets and of *)
(* threads that send, up to the first time one of them sets q_wr while     *)
(* another one is inside of ip_defer_push().                               *)
(***************************************************************************)
EXTENDS IpOutput, FiniteSetTheorems, SequenceTheorems, TLAPS

\* How far slot i is behind slot r.
Dist(r, i) == IF r <= i THEN i - r ELSE i - r + QLen

\* Where the senders and the handler can be, and what they hold.  Several senders
\* may have filled the slot at q_wr; the packet in it is of one of them.
ThreadsInv ==
    /\ DOMAIN snd = Senders
    /\ \A t \in Senders :
          snd[t] # Idle =>
            /\ DOMAIN snd[t] = {"pc", "id", "dst", "next"}
            /\ snd[t].pc \in {"inhibit", "full", "fill", "commit"}
            /\ snd[t].id \in 1..count /\ snd[t].next = NextSlot(q_wr)
            /\ snd[t].pc \in {"fill", "commit"} => snd[t].next # q_rd
            /\ snd[t].pc = "commit" =>
                  \/ ip_defer_queue[q_wr].id = snd[t].id
                  \/ \E s \in Senders \ {t} : snd[s].pc = "commit"
    /\ ing.pc = "try" => ing.at = q_rd /\ q_rd # q_wr
    /\ ing.pc = "drop" => q_rd # q_wr

\* The packets in the queue are in the order of their numbers, and older than
\* those that are between their number and the end of ip_defer_push().
QueueInv ==
    /\ q_rd \in Slot /\ q_wr \in Slot /\ count \in Nat
    /\ DOMAIN ip_defer_queue = Slot
    /\ \A i \in Slot : DOMAIN ip_defer_queue[i] = {"id", "dst", "tries"}
    /\ \A i \in Queued :
          /\ ip_defer_queue[i].id \in 1..count
          /\ \A t \in Senders : snd[t] # Idle => ip_defer_queue[i].id < snd[t].id
    /\ \A i, j \in Queued :
          Dist(q_rd, i) < Dist(q_rd, j) => ip_defer_queue[i].id < ip_defer_queue[j].id

\* No packet has been sent twice, and those that have been sent are neither in
\* the queue, except for the one the handler is about to drop, nor being pushed.
WireInv ==
    /\ wire \in Seq(Nat)
    /\ \A k \in 1..Len(wire) :
          /\ wire[k] \in 1..count
          /\ \A t \in Senders : snd[t] # Idle => wire[k] # snd[t].id
          /\ \A i \in Queued : wire[k] = ip_defer_queue[i].id => i = q_rd /\ ing.pc = "drop"
    /\ SentOnceOnly

\* What the handler may still find: the packets in the queue, and those whose
\* push was past the test of defer_inhibit.
LoopInv ==
    /\ budget \in Nat
    /\ ing.pc \in {"peek", "try", "drop"} =>
          defer_inhibit /\ budget >= Dist(q_rd, q_wr) + Cardinality(Pushing)

CoreInv == ThreadsInv /\ QueueInv /\ WireInv /\ LoopInv

\* The inductive invariant.
OutInv == raced \/ CoreInv

\* A thread that is inside of ip_defer_push() after a step was so before, with
\* the same packet, or has a new one.
SendersKept ==
    \A t \in Senders :
        snd'[t] # Idle => \/ snd[t] # Idle /\ snd'[t].id = snd[t].id
                          \/ snd'[t].id \in Nat /\ snd'[t].id > count

\* The next slot, without the remainder.
LEMMA NextSlotCases ==
    ASSUME NEW i \in Slot
    PROVE  NextSlot(i) = IF i = QLen - 1 THEN 0 ELSE i + 1
<1>1. CASE i = QLen - 1
  <2>1. QLen % QLen = 0
    BY OutputAssumption
  <2> QED
    BY <1>1, <2>1, OutputAssumption DEF NextSlot, Slot
<1>2. CASE i # QLen - 1
  BY <1>2, OutputAssumption DEF NextSlot, Slot
<1> QED
  BY <1>1, <1>2

\* The distance, as QueueInOrder has it.
LEMMA DistIsMod ==
    ASSUME NEW r \in Slot, NEW i \in Slot
    PROVE  (i - r) % QLen = Dist(r, i)
  BY OutputAssumption DEF Slot, Dist

\* The slots in use are those nearer to q_rd than q_wr is.
LEMMA InQueued ==
    ASSUME q_rd \in Slot, q_wr \in Slot
    PROVE  \A i : i \in Queued <=> i \in Slot /\ Dist(q_rd, i) < Dist(q_rd, q_wr)
  BY OutputAssumption DEF Slot, Dist, Queued

\* The queue is left alone: packets only get older.
LEMMA QueueKept ==
    ASSUME QueueInv, q_rd' = q_rd, q_wr' = q_wr, DOMAIN ip_defer_queue' = Slot,
           \A i \in Slot : DOMAIN ip_defer_queue'[i] = {"id", "dst", "tries"},
           \A i \in Queued : ip_defer_queue'[i].id = ip_defer_queue[i].id,
           count' \in Nat, count' >= count, SendersKept
    PROVE  QueueInv'
<1>1. Queued' = Queued
  BY DEF Queued
<1>2. \A i \in Queued : ip_defer_queue[i].id \in 1..count' /\ ip_defer_queue[i].id <= count
  BY DEF QueueInv
<1>3. ASSUME NEW i \in Queued, NEW t \in Senders, snd'[t] # Idle
      PROVE  ip_defer_queue[i].id < snd'[t].id
  <2>1. CASE snd[t] # Idle /\ snd'[t].id = snd[t].id
    BY <2>1 DEF QueueInv
  <2>2. CASE snd'[t].id \in Nat /\ snd'[t].id > count
    BY <1>2, <2>2 DEF QueueInv
  <2> QED
    BY <1>3, <2>1, <2>2 DEF SendersKept
<1> QED
  BY <1>1, <1>2, <1>3 DEF QueueInv

\* Nothing is sent, and the queue is left alone.
LEMMA WireKept ==
    ASSUME QueueInv, WireInv, q_rd' = q_rd, q_wr' = q_wr, wire' = wire,
           \A i \in Queued : ip_defer_queue'[i].id = ip_defer_queue[i].id,
           count' \in Nat, count' >= count, SendersKept,
           ing.pc = "drop" => ing'.pc = "drop"
    PROVE  WireInv'
<1>1. Queued' = Queued
  BY DEF Queued
<1>2. SentOnceOnly'
  BY DEF WireInv, SentOnceOnly
<1>3. \A k \in 1..Len(wire) : wire[k] \in 1..count' /\ wire[k] <= count
  BY DEF WireInv, QueueInv
<1>4. ASSUME NEW k \in 1..Len(wire), NEW t \in Senders, snd'[t] # Idle
      PROVE  wire[k] # snd'[t].id
  <2>1. CASE snd[t] # Idle /\ snd'[t].id = snd[t].id
    BY <2>1 DEF WireInv
  <2>2. CASE snd'[t].id \in Nat /\ snd'[t].id > count
    BY <1>3, <2>2 DEF QueueInv
  <2> QED
    BY <1>4, <2>1, <2>2 DEF SendersKept
<1> QED
  BY <1>1, <1>2, <1>3, <1>4 DEF WireInv

\* There are finitely many threads past the test of defer_inhibit, and no more
\* when one of them leaves.
LEMMA PushingCard ==
    /\ IsFiniteSet(Pushing) /\ Cardinality(Pushing) \in Nat
    /\ \A t : /\ Cardinality(Pushing \ {t}) \in Nat
              /\ Cardinality(Pushing \ {t}) <= Cardinality(Pushing)
<1>1. IsFiniteSet(Pushing)
  BY OutputAssumption, FS_Subset DEF Pushing
<1>2. Cardinality(Pushing) \in Nat
  BY <1>1, FS_CardinalityType
<1>3. ASSUME NEW t
      PROVE  /\ IsFiniteSet(Pushing \ {t})
             /\ Cardinality(Pushing \ {t}) = IF t \in Pushing THEN Cardinality(Pushing) - 1
                                                              ELSE Cardinality(Pushing)
  BY <1>1, FS_RemoveElement
<1>4. ASSUME NEW t PROVE Cardinality(Pushing \ {t}) \in Nat
  BY <1>3, FS_CardinalityType
<1> QED
  BY <1>1, <1>2, <1>3, <1>4

\* A packet that has not been sent goes out.
LEMMA WireGrows ==
    ASSUME wire \in Seq(Nat), SentOnceOnly, NEW p \in Nat, wire' = Append(wire, p),
           \A k \in 1..Len(wire) : wire[k] # p
    PROVE  /\ wire' \in Seq(Nat) /\ SentOnceOnly'
           /\ \A k \in 1..Len(wire') :
                 (k \in 1..Len(wire) /\ wire'[k] = wire[k]) \/ (k = Len(wire) + 1 /\ wire'[k] = p)
<1>1. /\ wire' \in Seq(Nat) /\ Len(wire') = Len(wire) + 1 /\ Len(wire) \in Nat
      /\ wire'[Len(wire) + 1] = p
      /\ \A k \in 1..Len(wire) : wire'[k] = wire[k]
  OBVIOUS
<1>2. \A k \in 1..(Len(wire) + 1) : k \in 1..Len(wire) \/ k = Len(wire) + 1
  BY <1>1
<1>3. \A k \in 1..Len(wire') :
         (k \in 1..Len(wire) /\ wire'[k] = wire[k]) \/ (k = Len(wire) + 1 /\ wire'[k] = p)
  BY <1>1, <1>2
<1>4. ASSUME NEW i \in 1..Len(wire'), NEW j \in 1..Len(wire'), wire'[i] = wire'[j]
      PROVE  i = j
  <2>1. wire[i] = wire[j] /\ i \in 1..Len(wire) /\ j \in 1..Len(wire) => i = j
    BY DEF SentOnceOnly
  <2> QED
    BY <1>3, <1>4, <2>1
<1> QED
  BY <1>1, <1>3, <1>4 DEF SentOnceOnly

\* The queue is empty at the beginning.
LEMMA OutInit == Init => OutInv
<1> SUFFICES ASSUME Init PROVE CoreInv
  BY DEF OutInv
<1>1. ThreadsInv
  BY DEF Init, ThreadsInv, Idle
<1>2. Queued = {}
  BY DEF Init, Queued
<1>3. QueueInv
  BY <1>2, OutputAssumption DEF Init, QueueInv, Slot, NoPacket
<1>4. WireInv
  BY <1>2 DEF Init, WireInv, SentOnceOnly
<1>5. LoopInv
  BY DEF Init, LoopInv, Idle
<1> QED
  BY <1>1, <1>3, <1>4, <1>5 DEF CoreInv

\* ip_send() up to the push.
LEMMA SendInv ==
    ASSUME CoreInv, NEW t \in Senders, IpSend(t)
    PROVE  CoreInv'
<1>1. /\ snd[t] = Idle /\ count' = count + 1 /\ count \in Nat
      /\ UNCHANGED <<ip_defer_queue, q_rd, q_wr, defer_inhibit, ing, budget>>
      /\ DOMAIN snd = Senders
  BY DEF IpSend, IpSendNoRoute, IpSendNow, IpSendFails, IpSendDefer, IpSendRequestFails, MaySend,
         CoreInv, QueueInv, ThreadsInv, queueVars, history
<1>2. \/ /\ snd' = [snd EXCEPT ![t] = Idle]
         /\ wire' = wire \/ wire' = Append(wire, count + 1)
      \/ /\ wire' = wire
         /\ \E d \in Dsts : snd' = [snd EXCEPT ![t] = [pc |-> "inhibit", id |-> count + 1, dst |-> d,
                                                      next |-> NextSlot(q_wr)]]
  BY DEF IpSend, IpSendNoRoute, IpSendNow, IpSendFails, IpSendDefer, IpSendRequestFails, Returns,
         history
<1>3. /\ DOMAIN snd' = Senders /\ \A s \in Senders \ {t} : snd'[s] = snd[s]
      /\ snd'[t] = Idle \/ \E d : snd'[t] = [pc |-> "inhibit", id |-> count + 1, dst |-> d,
                                             next |-> NextSlot(q_wr)]
  BY <1>1, <1>2
<1>4. SendersKept
  BY <1>1, <1>3 DEF SendersKept
<1>5. snd'[t].pc \in {"idle", "inhibit"} /\ snd[t].pc = "idle"
  BY <1>1, <1>3 DEF Idle
<1>6. ThreadsInv'
  <2>1. \A s \in Senders : snd[s].pc = "commit" => s # t /\ snd'[s] = snd[s]
    BY <1>3, <1>5
  <2>2. ASSUME NEW s \in Senders, snd'[s] # Idle
        PROVE  /\ DOMAIN snd'[s] = {"pc", "id", "dst", "next"}
               /\ snd'[s].pc \in {"inhibit", "full", "fill", "commit"}
               /\ snd'[s].id \in 1..count' /\ snd'[s].next = NextSlot(q_wr)
               /\ snd'[s].pc \in {"fill", "commit"} => snd'[s].next # q_rd
               /\ snd'[s].pc = "commit" =>
                     \/ ip_defer_queue[q_wr].id = snd'[s].id
                     \/ \E u \in Senders \ {s} : snd'[u].pc = "commit"
    <3>1. CASE s = t
      BY <1>1, <1>3, <2>2, <3>1
    <3>2. CASE s # t
      <4>1. snd'[s] = snd[s]
        BY <1>3, <3>2
      <4> QED
        BY <1>1, <2>1, <2>2, <4>1 DEF CoreInv, ThreadsInv
    <3> QED
      BY <3>1, <3>2
  <2> QED
    BY <1>1, <1>3, <2>2 DEF CoreInv, ThreadsInv, NextSlot
<1>7. QueueInv'
  BY <1>1, <1>4, QueueKept DEF CoreInv, QueueInv
<1>8. LoopInv'
  <2>1. Pushing' = Pushing
    BY <1>3, <1>5 DEF Pushing
  <2> QED
    BY <1>1, <2>1 DEF CoreInv, LoopInv, Dist
<1>9. CASE wire' = wire
  <2>1. WireInv'
    BY <1>1, <1>4, <1>9, WireKept DEF CoreInv
  <2> QED
    BY <1>6, <1>7, <1>8, <2>1 DEF CoreInv
<1>10. CASE wire' = Append(wire, count + 1) /\ snd' = [snd EXCEPT ![t] = Idle]
  <2>1. wire \in Seq(Nat) /\ SentOnceOnly /\ \A k \in 1..Len(wire) : wire[k] # count + 1
    BY <1>1 DEF CoreInv, WireInv
  <2>2. Queued' = Queued
    BY <1>1 DEF Queued
  <2>3. /\ wire' \in Seq(Nat) /\ SentOnceOnly'
        /\ \A k \in 1..Len(wire') :
              (k \in 1..Len(wire) /\ wire'[k] = wire[k]) \/ wire'[k] = count + 1
    BY <1>1, <1>10, <2>1, WireGrows
  <2>4. \A k \in 1..Len(wire') : wire'[k] \in 1..count'
    <3>1. \A k \in 1..Len(wire) : wire[k] \in 1..count
      BY DEF CoreInv, WireInv
    <3>2. count + 1 \in 1..count' /\ \A n \in 1..count : n \in 1..count'
      BY <1>1
    <3> QED
      BY <2>3, <3>1, <3>2
  <2>5. \A i \in Queued : ip_defer_queue[i].id # count + 1
    BY <1>1 DEF CoreInv, QueueInv
  <2>6. ASSUME NEW k \in 1..Len(wire'), NEW s \in Senders, snd'[s] # Idle
        PROVE  wire'[k] # snd'[s].id
    <3>1. s # t /\ snd'[s] = snd[s] /\ snd[s] # Idle /\ snd[s].id \in 1..count
      BY <1>1, <1>3, <1>10, <2>6 DEF CoreInv, ThreadsInv
    <3> QED
      BY <1>1, <2>3, <3>1 DEF CoreInv, WireInv
  <2>7. WireInv'
    BY <1>1, <2>2, <2>3, <2>4, <2>5, <2>6 DEF CoreInv, WireInv
  <2> QED
    BY <1>6, <1>7, <1>8, <2>7 DEF CoreInv
<1> QED
  BY <1>2, <1>9, <1>10

\* ip_defer_push().
LEMMA PushInv ==
    ASSUME CoreInv, ~raced', NEW t \in Senders, Push(t)
    PROVE  CoreInv'
<1> DEFINE me == snd[t]
<1>1. /\ DOMAIN snd = Senders /\ q_rd \in Slot /\ q_wr \in Slot
      /\ count \in Nat /\ count' = count /\ UNCHANGED <<q_rd, ing, wire, defer_inhibit, budget>>
  BY DEF CoreInv, ThreadsInv, QueueInv, Push, PushInhibit, PushFull, PushFill, PushCommit,
         queueVars, history
<1>2. /\ me # Idle /\ me.pc \in {"inhibit", "full", "fill", "commit"}
      /\ DOMAIN me = {"pc", "id", "dst", "next"} /\ me.id \in 1..count /\ me.next = NextSlot(q_wr)
      /\ me.pc \in {"fill", "commit"} => me.next # q_rd
      /\ me.pc = "commit" => \/ ip_defer_queue[q_wr].id = me.id
                             \/ \E s \in Senders \ {t} : snd[s].pc = "commit"
  <2>1. me # Idle
    BY DEF Push, PushInhibit, PushFull, PushFill, PushCommit, Idle
  <2> QED
    BY <2>1 DEF CoreInv, ThreadsInv
<1>3. q_wr \notin Queued
  BY <1>1, OutputAssumption DEF Queued, Slot
<1>4. budget \in Nat /\ (ing.pc \in {"peek", "try", "drop"} =>
         defer_inhibit /\ budget >= Dist(q_rd, q_wr) + Cardinality(Pushing))
  BY DEF CoreInv, LoopInv
<1>5. Dist(q_rd, q_wr) \in Int
  BY <1>1, OutputAssumption DEF Dist, Slot
<1>6. CASE PushInhibit(t) \/ PushFull(t)
  <2>1. /\ UNCHANGED <<ip_defer_queue, q_wr>> /\ me.pc \in {"inhibit", "full"}
        /\ \/ snd' = [snd EXCEPT ![t] = Idle]
           \/ snd' = [snd EXCEPT ![t].pc = "full"] /\ ~defer_inhibit
           \/ snd' = [snd EXCEPT ![t].pc = "fill"] /\ me.next # q_rd /\ me.pc = "full"
    BY <1>6 DEF PushInhibit, PushFull, Returns, queueVars
  <2>2. /\ DOMAIN snd' = Senders /\ \A s \in Senders \ {t} : snd'[s] = snd[s]
        /\ \/ snd'[t] = Idle
           \/ snd'[t] = [me EXCEPT !.pc = "full"] /\ ~defer_inhibit
           \/ snd'[t] = [me EXCEPT !.pc = "fill"] /\ me.next # q_rd /\ me.pc = "full"
    BY <1>1, <2>1
  <2>3. /\ snd'[t] # Idle => /\ DOMAIN snd'[t] = {"pc", "id", "dst", "next"}
                             /\ snd'[t].id = me.id /\ snd'[t].next = me.next
                             /\ snd'[t].pc \in {"full", "fill"}
                             /\ snd'[t].pc = "fill" => me.next # q_rd
        /\ snd'[t].pc # "commit"
    BY <1>2, <2>2 DEF Idle
  <2>4. t \in Pushing' => ~defer_inhibit \/ t \in Pushing
    BY <1>2, <2>1, <2>2 DEF Idle, Pushing
  <2>5. SendersKept
    BY <1>2, <2>2, <2>3 DEF SendersKept
  <2>6. ThreadsInv'
    <3>1. \A s \in Senders : snd[s].pc = "commit" => s # t /\ snd'[s] = snd[s]
      BY <2>1, <2>2
    <3>2. ASSUME NEW s \in Senders, snd'[s] # Idle
          PROVE  /\ DOMAIN snd'[s] = {"pc", "id", "dst", "next"}
                 /\ snd'[s].pc \in {"inhibit", "full", "fill", "commit"}
                 /\ snd'[s].id \in 1..count /\ snd'[s].next = NextSlot(q_wr)
                 /\ snd'[s].pc \in {"fill", "commit"} => snd'[s].next # q_rd
                 /\ snd'[s].pc = "commit" =>
                       \/ ip_defer_queue[q_wr].id = snd'[s].id
                       \/ \E u \in Senders \ {s} : snd'[u].pc = "commit"
      <4>1. CASE s = t
        <5>1. snd'[t] # Idle
          BY <3>2, <4>1
        <5>2. /\ DOMAIN snd'[t] = {"pc", "id", "dst", "next"}
              /\ snd'[t].id = me.id /\ snd'[t].next = me.next
              /\ snd'[t].pc \in {"full", "fill"} /\ snd'[t].pc # "commit"
              /\ snd'[t].pc = "fill" => me.next # q_rd
          BY <2>3, <5>1, Zenon
        <5> HIDE DEF me
        <5> QED
          BY <1>2, <4>1, <5>2
      <4>2. CASE s # t
        <5>1. snd'[s] = snd[s]
          BY <2>2, <4>2
        <5> QED
          BY <3>1, <3>2, <5>1 DEF CoreInv, ThreadsInv
      <4> QED
        BY <4>1, <4>2
    <3> QED
      BY <1>1, <2>1, <2>2, <3>2 DEF CoreInv, ThreadsInv, NextSlot
  <2>7. QueueInv' /\ WireInv'
    BY <1>1, <2>1, <2>5, QueueKept, WireKept DEF CoreInv, QueueInv
  <2>8. LoopInv'
    <3>1. defer_inhibit => Pushing' = Pushing \/ Pushing' = Pushing \ {t}
      <4>1. \A s \in Senders : s # t => (s \in Pushing' <=> s \in Pushing)
        BY <2>2 DEF Pushing
      <4>2. Pushing' \subseteq Senders /\ Pushing \subseteq Senders
        BY DEF Pushing
      <4> QED
        BY <2>4, <4>1, <4>2
    <3>2. Dist(q_rd, q_wr)' = Dist(q_rd, q_wr)
      BY <1>1, <2>1 DEF Dist
    <3>3. CASE ing.pc \notin {"peek", "try", "drop"}
      BY <1>1, <1>4, <3>3 DEF LoopInv
    <3>4. CASE ing.pc \in {"peek", "try", "drop"}
      <4>1. Pushing' = Pushing \/ Pushing' = Pushing \ {t}
        BY <1>4, <3>1, <3>4, Zenon
      <4>2. Cardinality(Pushing') <= Cardinality(Pushing) /\ Cardinality(Pushing') \in Nat
            /\ Cardinality(Pushing) \in Nat
        <5>1. Cardinality(Pushing') = Cardinality(Pushing)
              \/ Cardinality(Pushing') = Cardinality(Pushing \ {t})
          BY <4>1, Zenon
        <5>2. /\ Cardinality(Pushing) \in Nat /\ Cardinality(Pushing \ {t}) \in Nat
              /\ Cardinality(Pushing \ {t}) <= Cardinality(Pushing)
          BY PushingCard, Zenon
        <5> QED
          BY <5>1, <5>2
      <4> QED
        BY <1>1, <1>4, <1>5, <3>2, <3>4, <4>2 DEF LoopInv
    <3> QED
      BY <3>3, <3>4
  <2> QED
    BY <2>6, <2>7, <2>8 DEF CoreInv
<1>7. CASE PushFill(t)
  <2>1. /\ q_wr' = q_wr /\ snd' = [snd EXCEPT ![t].pc = "commit"] /\ me.pc = "fill"
        /\ ip_defer_queue' = [ip_defer_queue EXCEPT ![q_wr] =
                                [id |-> me.id, dst |-> me.dst, tries |-> 0]]
    BY <1>7 DEF PushFill
  <2>2. /\ DOMAIN ip_defer_queue' = Slot
        /\ \A i \in Slot : DOMAIN ip_defer_queue'[i] = {"id", "dst", "tries"}
        /\ ip_defer_queue'[q_wr].id = me.id
        /\ \A i \in Queued : ip_defer_queue'[i].id = ip_defer_queue[i].id
    BY <1>1, <1>3, <2>1 DEF CoreInv, QueueInv, Queued
  <2>3. /\ DOMAIN snd' = Senders /\ \A s \in Senders \ {t} : snd'[s] = snd[s]
        /\ snd'[t] = [me EXCEPT !.pc = "commit"]
    BY <1>1, <2>1
  <2>4. /\ DOMAIN snd'[t] = {"pc", "id", "dst", "next"} /\ snd'[t].pc = "commit"
        /\ snd'[t].id = me.id /\ snd'[t].next = me.next
    BY <1>2, <2>3
  <2>5. SendersKept
    BY <1>2, <2>3, <2>4 DEF SendersKept
  <2>6. ThreadsInv'
    <3>1. ASSUME NEW s \in Senders, snd'[s] # Idle
          PROVE  /\ DOMAIN snd'[s] = {"pc", "id", "dst", "next"}
                 /\ snd'[s].pc \in {"inhibit", "full", "fill", "commit"}
                 /\ snd'[s].id \in 1..count /\ snd'[s].next = NextSlot(q_wr)
                 /\ snd'[s].pc \in {"fill", "commit"} => snd'[s].next # q_rd
                 /\ snd'[s].pc = "commit" =>
                       \/ ip_defer_queue'[q_wr].id = snd'[s].id
                       \/ \E u \in Senders \ {s} : snd'[u].pc = "commit"
      <4>1. CASE s = t
        BY <1>2, <2>1, <2>2, <2>4, <4>1
      <4>2. CASE s # t
        <5>1. snd'[s] = snd[s] /\ t \in Senders \ {s}
          BY <2>3, <4>2
        <5> QED
          BY <2>4, <3>1, <5>1 DEF CoreInv, ThreadsInv
      <4> QED
        BY <4>1, <4>2
    <3> QED
      BY <1>1, <2>1, <2>3, <3>1 DEF CoreInv, ThreadsInv, NextSlot
  <2>7. QueueInv' /\ WireInv'
    BY <1>1, <2>1, <2>2, <2>5, QueueKept, WireKept DEF CoreInv
  <2>8. LoopInv'
    <3>1. Pushing' = Pushing
      BY <2>1, <2>3, <2>4 DEF Pushing
    <3> QED
      BY <1>1, <1>4, <2>1, <3>1 DEF LoopInv, Dist
  <2> QED
    BY <2>6, <2>7, <2>8 DEF CoreInv
<1>8. CASE PushCommit(t)
  <2>1. /\ q_wr' = me.next /\ snd' = [snd EXCEPT ![t] = Idle] /\ me.pc = "commit"
        /\ ip_defer_queue' = ip_defer_queue /\ \A s \in Senders \ {t} : snd[s] = Idle
    BY <1>8 DEF PushCommit, Returns
  <2>2. q_wr' = (IF q_wr = QLen - 1 THEN 0 ELSE q_wr + 1) /\ q_wr' # q_rd /\ q_wr' \in Slot
    <3>1. q_wr' = (IF q_wr = QLen - 1 THEN 0 ELSE q_wr + 1) /\ q_wr' # q_rd
      BY <1>1, <1>2, <2>1, NextSlotCases
    <3> QED
      BY <1>1, <3>1, OutputAssumption DEF Slot
  <2>3. Dist(q_rd, q_wr') = Dist(q_rd, q_wr) + 1
    BY <1>1, <2>2, OutputAssumption DEF Dist, Slot
  <2>4. \A i \in Slot : Dist(q_rd, i) = Dist(q_rd, q_wr) => i = q_wr
    BY <1>1, OutputAssumption DEF Dist, Slot
  <2>5. \A i \in Slot : Dist(q_rd, i) \in Int
    BY <1>1, OutputAssumption DEF Dist, Slot
  <2>6. Queued' = Queued \cup {q_wr}
    <3>1. \A i : i \in Queued' <=> i \in Slot /\ Dist(q_rd, i) < Dist(q_rd, q_wr')
      BY <1>1, <2>2, OutputAssumption DEF Slot, Dist, Queued
    <3> QED
      BY <1>1, <2>3, <2>4, <2>5, <3>1, InQueued
  <2>7. \A s \in Senders : snd'[s] = Idle
    BY <1>1, <2>1
  <2>8. ThreadsInv'
    BY <1>1, <2>1, <2>2, <2>7 DEF CoreInv, ThreadsInv, Idle
  <2>9. ip_defer_queue[q_wr].id = me.id
    BY <1>2, <2>1 DEF Idle
  <2>10. \A i \in Queued' : ip_defer_queue[i].id \in 1..count
    BY <1>1, <1>2, <2>6, <2>9 DEF CoreInv, QueueInv
  <2>11. \A i \in Queued : ip_defer_queue[i].id < me.id /\ Dist(q_rd, i) < Dist(q_rd, q_wr)
    BY <1>1, <1>2, InQueued DEF CoreInv, QueueInv
  <2>12. \A i, j \in Queued' :
            Dist(q_rd, i) < Dist(q_rd, j) => ip_defer_queue[i].id < ip_defer_queue[j].id
    <3> SUFFICES ASSUME NEW i \in Queued', NEW j \in Queued', Dist(q_rd, i) < Dist(q_rd, j)
                 PROVE  ip_defer_queue[i].id < ip_defer_queue[j].id
      OBVIOUS
    <3>1. CASE i \in Queued /\ j \in Queued
      BY <3>1 DEF CoreInv, QueueInv
    <3>2. CASE i \in Queued /\ j = q_wr
      BY <2>11, <2>9, <3>2
    <3>3. CASE i = q_wr
      <4>1. j \in Queued \/ j = q_wr
        BY <2>6
      <4>2. Dist(q_rd, q_wr) \in Int /\ (j \in Slot => Dist(q_rd, j) \in Int)
        BY <1>1, <2>5
      <4>3. j \in Queued => j \in Slot
        BY DEF Queued
      <4> QED
        BY <2>11, <3>3, <4>1, <4>2, <4>3
    <3> QED
      BY <2>6, <3>1, <3>2, <3>3
  <2>13. QueueInv'
    BY <1>1, <2>1, <2>2, <2>7, <2>10, <2>12 DEF CoreInv, QueueInv
  <2>14. WireInv'
    <3>1. \A k \in 1..Len(wire) :
             /\ wire[k] \in 1..count /\ wire[k] # me.id
             /\ \A i \in Queued : wire[k] = ip_defer_queue[i].id => i = q_rd /\ ing.pc = "drop"
      BY <1>2 DEF CoreInv, WireInv
    <3>2. \A k \in 1..Len(wire), i \in Queued' :
             wire[k] = ip_defer_queue[i].id => i = q_rd /\ ing.pc = "drop"
      BY <2>6, <2>9, <3>1
    <3>3. wire \in Seq(Nat) /\ SentOnceOnly'
      BY <1>1 DEF CoreInv, WireInv, SentOnceOnly
    <3> HIDE DEF me
    <3> QED
      BY <1>1, <2>1, <2>7, <3>1, <3>2, <3>3 DEF WireInv
  <2>15. LoopInv'
    <3>1. t \in Pushing /\ Pushing' = {}
      BY <2>1, <2>7 DEF Pushing, Idle
    <3>2. Pushing = {t}
      BY <2>1, <3>1 DEF Pushing, Idle
    <3>3. Cardinality(Pushing') = 0 /\ Cardinality(Pushing) = 1
      BY <3>1, <3>2, FS_EmptySet, FS_Singleton
    <3>4. Dist(q_rd, q_wr)' = Dist(q_rd, q_wr) + 1
      BY <1>1, <2>3 DEF Dist
    <3> QED
      BY <1>1, <1>4, <1>5, <3>3, <3>4 DEF LoopInv
  <2> QED
    BY <2>8, <2>13, <2>14, <2>15 DEF CoreInv
<1> QED
  BY <1>6, <1>7, <1>8 DEF Push

\* The ingress thread: the cache and ip_defer_handler().
LEMMA IngressInv ==
    ASSUME CoreInv, (\E d \in Dsts : IpInput(d) \/ ArpInput(d)) \/ PeriodicTasks \/ Handler
    PROVE  CoreInv'
<1>1. /\ q_rd \in Slot /\ q_wr \in Slot /\ count \in Nat /\ UNCHANGED <<count, snd, q_wr>>
      /\ DOMAIN ip_defer_queue = Slot
      /\ \A i \in Slot : DOMAIN ip_defer_queue[i] = {"id", "dst", "tries"}
  BY DEF CoreInv, QueueInv, IpInput, ArpInput, PeriodicTasks, Handler, HandlerStart, HandlerPeek,
         HandlerReturn, HandlerTry, HandlerDrop, queueVars
<1>2. SendersKept /\ Pushing' = Pushing
  BY <1>1 DEF SendersKept, Pushing
<1>3. /\ budget \in Nat /\ Dist(q_rd, q_wr) \in Nat /\ Cardinality(Pushing) \in Nat
      /\ ing.pc \in {"peek", "try", "drop"} =>
            defer_inhibit /\ budget >= Dist(q_rd, q_wr) + Cardinality(Pushing)
  BY <1>1, OutputAssumption, PushingCard DEF CoreInv, LoopInv, Dist, Slot
<1>4. ASSUME UNCHANGED <<ip_defer_queue, q_rd, wire>>, ing.pc # "drop",
             (ing'.pc = ing.pc /\ ing' = ing) \/ ing'.pc \notin {"try", "drop"}, LoopInv'
      PROVE  CoreInv'
  <2>1. ThreadsInv'
    BY <1>1, <1>4 DEF CoreInv, ThreadsInv, NextSlot
  <2>2. QueueInv' /\ WireInv'
    BY <1>1, <1>2, <1>4, QueueKept, WireKept DEF CoreInv
  <2> QED
    BY <1>4, <2>1, <2>2 DEF CoreInv
<1>5. CASE (\E d \in Dsts : IpInput(d) \/ ArpInput(d)) \/ PeriodicTasks \/ HandlerReturn
  <2>1. budget' = budget /\ ing'.pc \notin {"peek", "try", "drop"}
    BY <1>5 DEF IpInput, ArpInput, PeriodicTasks, HandlerReturn, IngressIdle, history, Idle
  <2>2. LoopInv'
    BY <1>3, <2>1 DEF LoopInv
  <2> QED
    BY <1>4, <1>5, <2>2 DEF IpInput, ArpInput, PeriodicTasks, HandlerReturn, IngressIdle, queueVars,
                            history, Idle
<1>6. CASE HandlerStart
  <2>1. /\ ing.pc = "start" /\ ing' = [pc |-> "peek"] /\ defer_inhibit'
        /\ budget' = ((q_wr - q_rd) % QLen) + Cardinality(Pushing)
        /\ UNCHANGED <<ip_defer_queue, q_rd, wire>>
    BY <1>6 DEF HandlerStart
  <2>2. budget' = Dist(q_rd, q_wr) + Cardinality(Pushing) /\ Dist(q_rd, q_wr)' = Dist(q_rd, q_wr)
    BY <1>1, <2>1, DistIsMod DEF Dist
  <2>3. LoopInv'
    BY <1>2, <1>3, <2>1, <2>2 DEF LoopInv
  <2> QED
    BY <1>4, <2>1, <2>3
<1>7. CASE HandlerPeek
  <2>1. /\ ing.pc = "peek" /\ q_rd # q_wr /\ ing' = [pc |-> "try", at |-> q_rd]
        /\ ip_defer_queue' = [ip_defer_queue EXCEPT ![q_rd].tries = @ + 1]
        /\ UNCHANGED <<q_rd, wire, defer_inhibit, budget>>
    BY <1>7 DEF HandlerPeek, history
  <2>2. /\ DOMAIN ip_defer_queue' = Slot
        /\ \A i \in Slot : /\ DOMAIN ip_defer_queue'[i] = {"id", "dst", "tries"}
                           /\ ip_defer_queue'[i].id = ip_defer_queue[i].id
    BY <1>1, <2>1
  <2>3. ThreadsInv'
    BY <1>1, <2>1, <2>2 DEF CoreInv, ThreadsInv, NextSlot
  <2>4. \A i \in Queued : ip_defer_queue'[i].id = ip_defer_queue[i].id
    BY <2>2 DEF Queued
  <2>5. QueueInv' /\ WireInv'
    BY <1>1, <1>2, <2>1, <2>2, <2>4, QueueKept, WireKept DEF CoreInv
  <2>6. LoopInv'
    BY <1>1, <1>2, <1>3, <2>1 DEF LoopInv, Dist
  <2> QED
    BY <2>3, <2>5, <2>6 DEF CoreInv
<1>8. CASE HandlerTry
  <2> DEFINE p == ip_defer_queue[q_rd].id
  <2>1. /\ ing.pc = "try" /\ ing' = [pc |-> "drop"] /\ UNCHANGED <<ip_defer_queue, q_rd>>
        /\ UNCHANGED <<defer_inhibit, budget>>
        /\ wire' = wire \/ wire' = Append(wire, p)
        /\ q_rd # q_wr
    BY <1>8 DEF HandlerTry, CoreInv, ThreadsInv, queueVars
  <2>2. ThreadsInv'
    BY <1>1, <2>1 DEF CoreInv, ThreadsInv, NextSlot
  <2>3. QueueInv'
    BY <1>1, <1>2, <2>1, QueueKept DEF CoreInv
  <2>4. LoopInv'
    BY <1>1, <1>2, <1>3, <2>1 DEF LoopInv, Dist
  <2>5. CASE wire' = wire
    <3>1. WireInv'
      BY <1>1, <1>2, <2>1, <2>5, WireKept DEF CoreInv
    <3> QED
      BY <2>2, <2>3, <2>4, <3>1 DEF CoreInv
  <2>6. CASE wire' = Append(wire, p)
    <3>1. q_rd \in Queued /\ Queued' = Queued
      BY <1>1, <2>1, OutputAssumption DEF Queued, Slot
    <3>2. p \in 1..count /\ \A s \in Senders : snd[s] # Idle => p # snd[s].id
      BY <1>1, <3>1 DEF CoreInv, QueueInv, ThreadsInv
    <3>3. /\ wire \in Seq(Nat) /\ SentOnceOnly
          /\ \A k \in 1..Len(wire), i \in Queued : wire[k] # ip_defer_queue[i].id
      BY <2>1 DEF CoreInv, WireInv
    <3>4. \A i \in Queued : ip_defer_queue[i].id = p => i = q_rd
      <4> SUFFICES ASSUME NEW i \in Queued, i # q_rd PROVE ip_defer_queue[i].id # p
        OBVIOUS
      <4>1. i \in Slot /\ Dist(q_rd, q_rd) < Dist(q_rd, i)
        BY <1>1, OutputAssumption DEF Queued, Dist, Slot
      <4>2. p < ip_defer_queue[i].id /\ ip_defer_queue[i].id \in Nat
        BY <3>1, <4>1 DEF CoreInv, QueueInv
      <4> QED
        BY <3>2, <4>2
    <3> HIDE DEF p
    <3>5. p \in Nat /\ \A k \in 1..Len(wire) : wire[k] # p
      BY <3>1, <3>2, <3>3 DEF p
    <3>6. /\ wire' \in Seq(Nat) /\ SentOnceOnly'
          /\ \A k \in 1..Len(wire') :
                (k \in 1..Len(wire) /\ wire'[k] = wire[k]) \/ wire'[k] = p
      BY <2>6, <3>3, <3>5, WireGrows
    <3>7. \A k \in 1..Len(wire') :
             wire'[k] \in 1..count /\ \A s \in Senders : snd[s] # Idle => wire'[k] # snd[s].id
      BY <3>2, <3>6 DEF CoreInv, WireInv
    <3>8. \A k \in 1..Len(wire'), i \in Queued : wire'[k] = ip_defer_queue[i].id => i = q_rd
      BY <3>3, <3>4, <3>6
    <3>9. WireInv'
      BY <1>1, <1>2, <2>1, <3>1, <3>6, <3>7, <3>8 DEF WireInv
    <3> QED
      BY <2>2, <2>3, <2>4, <3>9 DEF CoreInv
  <2> QED
    BY <2>1, <2>5, <2>6
<1>9. CASE HandlerDrop
  <2>1. /\ ing.pc = "drop" /\ ing' = [pc |-> "peek"] /\ UNCHANGED <<ip_defer_queue, wire>>
        /\ q_rd # q_wr /\ q_rd' = NextSlot(q_rd) /\ budget' = budget - 1
        /\ defer_inhibit' = defer_inhibit
    BY <1>9 DEF HandlerDrop, CoreInv, ThreadsInv
  <2>2. q_rd' = (IF q_rd = QLen - 1 THEN 0 ELSE q_rd + 1) /\ q_rd' \in Slot
    <3>1. q_rd' = (IF q_rd = QLen - 1 THEN 0 ELSE q_rd + 1)
      BY <1>1, <2>1, NextSlotCases
    <3> QED
      BY <1>1, <3>1, OutputAssumption DEF Slot
  <2>3. \A i : i \in Queued' <=> i \in Queued /\ i # q_rd
    BY <1>1, <2>1, <2>2, OutputAssumption DEF Queued, Slot
  <2>4. \A i \in Slot : i # q_rd => Dist(q_rd', i) = Dist(q_rd, i) - 1 /\ Dist(q_rd, i) \in Int
    BY <1>1, <2>2, OutputAssumption DEF Dist, Slot
  <2>5. \A i \in Queued : i \in Slot
    BY DEF Queued
  <2>6. NextSlot(q_wr) # q_rd => NextSlot(q_wr) # q_rd'
    BY <1>1, <2>1, <2>2, NextSlotCases, OutputAssumption DEF Slot
  <2>7. ThreadsInv'
    BY <1>1, <2>1, <2>6 DEF CoreInv, ThreadsInv
  <2>8. \A i, j \in Queued' :
           Dist(q_rd', i) < Dist(q_rd', j) => ip_defer_queue[i].id < ip_defer_queue[j].id
    BY <2>3, <2>4, <2>5 DEF CoreInv, QueueInv
  <2>9. QueueInv'
    BY <1>1, <1>2, <2>1, <2>2, <2>3, <2>8 DEF CoreInv, QueueInv
  <2>10. WireInv'
    BY <1>1, <1>2, <2>1, <2>3 DEF CoreInv, WireInv, SentOnceOnly
  <2>11. LoopInv'
    <3>1. Dist(q_rd, q_wr)' = Dist(q_rd, q_wr) - 1
      BY <1>1, <2>1, <2>4 DEF Dist
    <3>2. Dist(q_rd, q_wr) > 0
      BY <1>1, <2>1, OutputAssumption DEF Dist, Slot
    <3> QED
      BY <1>1, <1>2, <1>3, <2>1, <3>1, <3>2 DEF LoopInv
  <2> QED
    BY <2>7, <2>9, <2>10, <2>11 DEF CoreInv
<1> QED
  BY <1>5, <1>7, <1>8, <1>9, <1>6 DEF Handler

\* Every step of the senders and of the ingress thread.
LEMMA OutNext == OutInv /\ [Next]_vars => OutInv'
<1> SUFFICES ASSUME OutInv, [Next]_vars, ~raced' PROVE CoreInv'
  BY DEF OutInv
<1>1. ~raced
  BY DEF Next, vars, history, IpSend, IpSendNoRoute, IpSendNow, IpSendFails, IpSendDefer,
         IpSendRequestFails, Push, PushInhibit, PushFull, PushFill, PushCommit, IpInput, ArpInput,
         PeriodicTasks, Handler, HandlerStart, HandlerPeek, HandlerReturn, HandlerTry, HandlerDrop
<1>2. CoreInv
  BY <1>1 DEF OutInv
<1>3. CASE UNCHANGED vars
  BY <1>2, <1>3 DEF vars, queueVars, history, CoreInv, ThreadsInv, QueueInv, WireInv, LoopInv, Queued,
                    Pushing, SentOnceOnly, NextSlot, Dist
<1> QED
  BY <1>2, <1>3, SendInv, PushInv, IngressInv DEF Next

\* No packet is sent twice, however ip_defer_push() in any number of threads
\* interleaves with itself and with ip_defer_handler(), until one thread sets q_wr
\* with another one inside: the handler neither resends what is in a slot that is
\* being filled, nor comes to a packet again that it has dropped.
THEOREM SentOnce == Spec => []NeverSentTwice
<1>1. OutInv => NeverSentTwice
  BY DEF OutInv, CoreInv, WireInv, NeverSentTwice
<1> QED
  BY OutInit, OutNext, <1>1, PTL DEF Spec

\* Until then the deferred packets stay in the order in which ip_send() was
\* called for them, also around the end of the ring.
THEOREM DeferredInOrder == Spec => []QueueInOrder
<1>1. OutInv => QueueInOrder
  <2> SUFFICES ASSUME CoreInv, NEW i \in Queued, NEW j \in Queued,
                      (i - q_rd) % QLen < (j - q_rd) % QLen
               PROVE  ip_defer_queue[i].id < ip_defer_queue[j].id
    BY DEF OutInv, QueueInOrder, InOrder
  <2>1. Dist(q_rd, i) < Dist(q_rd, j)
    BY DistIsMod DEF CoreInv, QueueInv, Queued
  <2> QED
    BY <2>1 DEF CoreInv, QueueInv
<1> QED
  BY OutInit, OutNext, <1>1, PTL DEF Spec

\* Until then ip_defer_handler() leaves its loop after the packets that were in
\* the queue or past the test of defer_inhibit when it began.
THEOREM HandlerEnds == Spec => []HandlerBounded
<1>1. OutInv => HandlerBounded
  BY DEF OutInv, CoreInv, LoopInv, HandlerBounded
<1> QED
  BY OutInit, OutNext, <1>1, PTL DEF Spec
=============================================================================

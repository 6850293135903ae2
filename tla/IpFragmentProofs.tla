-------------------------- MODULE IpFragmentProofs ---------------------------
(***************************************************************************)
(* Proofs about IpFragment, for any number of buffers and packets, packets *)
(* and fragments of any size, and any number of losses and duplicates.     *)
(***************************************************************************)
EXTENDS IpFragment, FiniteSetTheorems, WellFoundedInduction, TLAPS

Buffer == [reserved : BOOLEAN, id : Packets \cup {None}, ip_len : Nat,
           fragmap : SUBSET Blocks, payload : [Blocks -> Packets \cup {None}]]

\* A buffer is for a packet exactly while it is reserved, and no two are for one.
BufferInv ==
    /\ packet_buffer \in [Buffers -> Buffer] /\ size \in [Packets -> Nat]
    /\ flight \subseteq Packets \X Nat
    /\ \A b \in Buffers : packet_buffer[b].reserved <=> packet_buffer[b].id # None
    /\ \A b, c \in Buffers :
          packet_buffer[b].id = packet_buffer[c].id /\ packet_buffer[b].id # None => b = c

LEMMA OffType == \A k \in Nat : Off(k) \in Nat
  BY FragmentAssumption DEF Off

\* What the arrival of a fragment does to a buffer, field by field.
NewMap(p, d, k) == p.fragmap \cup InMap(Off(k), End(d, k))
NewPayload(p, d, k) ==
    [i \in Blocks |-> IF i \in InMap(Off(k), End(d, k)) THEN d ELSE p.payload[i]]
NewLen(p, d, k) == IF k = 0 THEN 0 ELSE IF IsLast(d, k) THEN End(d, k) ELSE p.ip_len

LEMMA WithFragmentFields ==
    ASSUME NEW p \in Buffer, NEW d \in Packets, NEW k \in Nat, size \in [Packets -> Nat]
    PROVE  /\ WithFragment(p, d, k) \in Buffer
           /\ WithFragment(p, d, k).reserved = p.reserved
           /\ WithFragment(p, d, k).id = p.id
           /\ WithFragment(p, d, k).fragmap = NewMap(p, d, k)
           /\ WithFragment(p, d, k).payload = NewPayload(p, d, k)
           /\ WithFragment(p, d, k).ip_len = NewLen(p, d, k)
<1>1. WithFragment(p, d, k) =
         [p EXCEPT !.payload = NewPayload(p, d, k), !.fragmap = NewMap(p, d, k),
                   !.ip_len = NewLen(p, d, k)]
  BY DEF WithFragment, NewPayload, NewMap, NewLen
<1>2. NewMap(p, d, k) \in SUBSET Blocks
  BY DEF Buffer, InMap, NewMap
<1>3. NewPayload(p, d, k) \in [Blocks -> Packets \cup {None}]
  BY DEF Buffer, NewPayload
<1>4. NewLen(p, d, k) \in Nat
  <2>1. End(d, k) \in Nat
    BY OffType DEF End
  <2> QED
    BY <2>1 DEF Buffer, NewLen
<1> QED
  BY <1>1, <1>2, <1>3, <1>4 DEF Buffer

\* A new buffer keeps its blocks; of its map the first part is cleared.
LEMMA AllocatedFields ==
    ASSUME NEW b \in Buffers, packet_buffer[b] \in Buffer, NEW d \in Packets
    PROVE  /\ Allocated(b, d) \in Buffer
           /\ Allocated(b, d).reserved = TRUE /\ Allocated(b, d).id = d
           /\ Allocated(b, d).ip_len = 0
           /\ Allocated(b, d).fragmap = packet_buffer[b].fragmap \ InMap(0, MapCleared)
<1> DEFINE map == packet_buffer[b].fragmap \ InMap(0, MapCleared)
           q == packet_buffer[b]
<1>1. Allocated(b, d) = [q EXCEPT !.reserved = TRUE, !.id = d, !.ip_len = 0, !.fragmap = map]
  BY DEF Allocated
<1>2. map \in SUBSET Blocks /\ q \in Buffer
  BY DEF Buffer
<1> HIDE DEF map, q
<1>3. Allocated(b, d).id = d /\ Allocated(b, d).ip_len = 0 /\ Allocated(b, d).fragmap = map
  BY <1>1, <1>2 DEF Buffer
<1>4. Allocated(b, d).reserved = TRUE
  BY <1>1, <1>2, Zenon DEF Buffer
<1>5. Allocated(b, d) \in Buffer
  <2>1. 0 \in Nat /\ TRUE \in BOOLEAN /\ d \in Packets \cup {None}
    OBVIOUS
  <2> QED
    BY <1>1, <1>2, <2>1, Zenon DEF Buffer
<1> QED
  BY <1>3, <1>4, <1>5 DEF map

LEMMA ReleasedFields ==
    ASSUME NEW p \in Buffer
    PROVE  /\ Released(p) \in Buffer
           /\ Released(p).reserved = FALSE /\ Released(p).id = None
  BY DEF Released, Buffer

\* There is a first free buffer when there is a free one.
LEMMA FirstFree ==
    ASSUME Free # {}
    PROVE  (CHOOSE b \in Free : \A c \in Free : b <= c) \in Free
<1>1. Free \subseteq Nat
  BY DEF Free, Buffers
<1> DEFINE R == {ss \in Nat \X Nat : ss[1] < ss[2]}
<1>2. IsWellFoundedOn(R, Nat)
  BY NatLessThanWellFounded, Zenon DEF OpToRel
<1> HIDE DEF R
<1>3. PICK b \in Free : \A c \in Free : ~(<<c, b>> \in R)
  BY <1>1, <1>2, WFMin
<1>4. ASSUME NEW c \in Free PROVE b <= c
  <2>1. b \in Nat /\ c \in Nat /\ ~(<<c, b>> \in R)
    BY <1>1, <1>3
  <2>2. <<c, b>> \in Nat \X Nat /\ <<c, b>>[1] = c /\ <<c, b>>[2] = b
    BY <2>1
  <2>3. c < b => <<c, b>> \in R
    BY <2>2, Zenon DEF R
  <2> QED
    BY <2>1, <2>3
<1> QED
  BY <1>4

\* The buffer a fragment is put into is its packet's, or a free one when the
\* packet has none.
LEMMA GotBuffer ==
    ASSUME NEW d \in Packets, GetPacketBuffer(d) # None
    PROVE  \/ GetPacketBuffer(d) \in Found(d)
           \/ GetPacketBuffer(d) \in Free /\ Found(d) = {}
  BY FirstFree DEF GetPacketBuffer

\* ip_fragment_input() drops the fragment, or changes one buffer: the only one of
\* the packet afterwards.
LEMMA InputEffect ==
    ASSUME BufferInv, NEW d \in Packets, NEW k \in Nat, FragmentInput(d, k)
    PROVE  \/ GetPacketBuffer(d) = None /\ UNCHANGED <<packet_buffer, handed>>
           \/ \E b \in Buffers, new \in Buffer :
                 /\ new.id = d /\ new.reserved
                 /\ \/ new = packet_buffer[b]
                    \/ new = Allocated(b, d) /\ Found(d) = {} /\ packet_buffer[b].id = None
                 /\ \A c \in Buffers \ {b} : packet_buffer[c].id # d
                 /\ \/ /\ Complete(WithFragment(new, d, k))
                       /\ handed' = Append(handed, Handed(WithFragment(new, d, k)))
                       /\ packet_buffer' =
                             [packet_buffer EXCEPT ![b] = Released(WithFragment(new, d, k))]
                    \/ /\ ~Complete(WithFragment(new, d, k))
                       /\ packet_buffer' = [packet_buffer EXCEPT ![b] = WithFragment(new, d, k)]
                       /\ UNCHANGED handed
<1> DEFINE b == GetPacketBuffer(d)
           new == IF b \in Found(d) THEN packet_buffer[b] ELSE Allocated(b, d)
           p == WithFragment(new, d, k)
<1>1. CASE b = None
  BY <1>1, Zenon DEF FragmentInput
<1>2. CASE b # None
  <2>1. b \in Found(d) \/ (b \in Free /\ Found(d) = {})
    BY <1>2, GotBuffer
  <2>2. b \in Buffers /\ packet_buffer[b] \in Buffer /\ d # None
    BY <2>1, FragmentAssumption DEF BufferInv, Found, Free
  <2>3. new \in Buffer /\ new.id = d /\ new.reserved
    <3>1. CASE b \in Found(d)
      BY <2>2, <3>1 DEF BufferInv, Found
    <3>2. CASE b \notin Found(d)
      BY <2>2, <3>2, AllocatedFields
    <3> QED
      BY <3>1, <3>2
  <2>4. \A c \in Buffers \ {b} : packet_buffer[c].id # d
    BY <2>1, <2>2 DEF BufferInv, Found
  <2>5. \/ /\ Complete(p) /\ handed' = Append(handed, Handed(p))
           /\ packet_buffer' = [packet_buffer EXCEPT ![b] = Released(p)]
        \/ ~Complete(p) /\ packet_buffer' = [packet_buffer EXCEPT ![b] = p] /\ UNCHANGED handed
    BY <1>2, Zenon DEF FragmentInput
  <2>6. \/ new = packet_buffer[b]
        \/ new = Allocated(b, d) /\ Found(d) = {} /\ packet_buffer[b].id = None
    <3>1. b \in Free => packet_buffer[b].id = None
      BY DEF BufferInv, Free
    <3> QED
      BY <2>1, <3>1, Zenon
  <2> HIDE DEF b, new
  <2> QED
    BY <2>2, <2>3, <2>4, <2>5, <2>6, Zenon
<1> QED
  BY <1>1, <1>2

\* The arrival of a fragment keeps the buffers apart.
LEMMA InputInv ==
    ASSUME BufferInv, NEW d \in Packets, NEW k \in Nat, FragmentInput(d, k),
           UNCHANGED size, flight' \subseteq flight
    PROVE  BufferInv'
<1>1. CASE UNCHANGED <<packet_buffer, handed>>
  BY <1>1 DEF BufferInv
<1>2. ASSUME NEW b \in Buffers, NEW q \in Buffer,
             packet_buffer' = [packet_buffer EXCEPT ![b] = q],
             q.reserved <=> q.id # None, q.id = d \/ q.id = None,
             \A c \in Buffers \ {b} : packet_buffer[c].id # d
      PROVE  BufferInv'
  <2>1. packet_buffer' \in [Buffers -> Buffer]
    BY <1>2 DEF BufferInv
  <2>2. packet_buffer'[b] = q /\ \A c \in Buffers \ {b} : packet_buffer'[c] = packet_buffer[c]
    BY <1>2 DEF BufferInv
  <2>3. \A c \in Buffers : packet_buffer'[c].reserved <=> packet_buffer'[c].id # None
    BY <1>2, <2>2 DEF BufferInv
  <2>4. \A c, e \in Buffers :
           packet_buffer'[c].id = packet_buffer'[e].id /\ packet_buffer'[c].id # None => c = e
    BY <1>2, <2>2 DEF BufferInv
  <2> QED
    BY <2>1, <2>3, <2>4 DEF BufferInv
<1>3. ASSUME NEW b \in Buffers, NEW new \in Buffer, new.id = d /\ new.reserved,
             \A c \in Buffers \ {b} : packet_buffer[c].id # d,
             \/ packet_buffer' = [packet_buffer EXCEPT ![b] = Released(WithFragment(new, d, k))]
             \/ packet_buffer' = [packet_buffer EXCEPT ![b] = WithFragment(new, d, k)]
      PROVE  BufferInv'
  <2> DEFINE p == WithFragment(new, d, k)
  <2>1. p \in Buffer /\ p.id = d /\ (p.reserved <=> p.id # None)
    <3>1. size \in [Packets -> Nat] /\ d # None
      BY FragmentAssumption DEF BufferInv
    <3>2. p \in Buffer /\ p.id = new.id /\ p.reserved = new.reserved
      BY <3>1, WithFragmentFields, Zenon
    <3> QED
      BY <1>3, <3>1, <3>2, Zenon
  <2>2. Released(p) \in Buffer /\ Released(p).id = None
        /\ (Released(p).reserved <=> Released(p).id # None)
    BY <2>1, ReleasedFields
  <2> HIDE DEF p
  <2>3. packet_buffer' = [packet_buffer EXCEPT ![b] = Released(p)]
        \/ packet_buffer' = [packet_buffer EXCEPT ![b] = p]
    BY <1>3 DEF p
  <2> QED
    BY <1>2, <1>3, <2>1, <2>2, <2>3
<1> QED
  BY <1>1, <1>3, InputEffect

\* So does every other step.
LEMMA BufferNext == BufferInv /\ [Next]_vars => BufferInv'
<1> SUFFICES ASSUME BufferInv, [Next]_vars PROVE BufferInv'
  OBVIOUS
<1>1. ASSUME NEW d \in Packets, NEW n \in Sizes, Send(d, n) PROVE BufferInv'
  <2>1. n \in Nat /\ {<<d, k>> : k \in {j \in 0..n : Off(j) < n}} \subseteq Packets \X Nat
    BY FragmentAssumption
  <2> QED
    BY <1>1, <2>1 DEF Send, BufferInv
<1>2. ASSUME NEW d \in Packets, NEW k, Arrive(d, k) \/ Duplicate(d, k) PROVE BufferInv'
  <2>1. k \in Nat
    BY <1>2 DEF Arrive, Duplicate, MayArrive, BufferInv
  <2> QED
    BY <1>2, <2>1, InputInv DEF Arrive, Duplicate
<1>3. ASSUME NEW d \in Packets, NEW k, Lose(d, k) PROVE BufferInv'
  BY <1>3 DEF Lose, BufferInv
<1>4. CASE UNCHANGED vars
  BY <1>4 DEF vars, BufferInv
<1> QED
  BY <1>1, <1>2, <1>3, <1>4 DEF Next

LEMMA BufferInit == Init => BufferInv
  BY FragmentAssumption DEF Init, BufferInv, Buffer

\* get_packet_buffer() never gives one packet two buffers.
THEOREM OneBuffer == Spec => []OneBufferPerPacket
<1>1. BufferInv => OneBufferPerPacket
  <2> SUFFICES ASSUME BufferInv, NEW d \in Packets PROVE Cardinality(Found(d)) <= 1
    BY DEF OneBufferPerPacket
  <2>1. d # None
    BY FragmentAssumption
  <2>2. \A b, c \in Found(d) : b = c
    BY <2>1 DEF BufferInv, Found
  <2>3. Found(d) = {} \/ \E b : Found(d) = {b}
    BY <2>2
  <2>4. Cardinality(Found(d)) = 0 \/ Cardinality(Found(d)) = 1
    BY <2>3, FS_EmptySet, FS_Singleton, Zenon
  <2> QED
    BY <2>4
<1> QED
  BY <1>1, BufferInit, BufferNext, PTL DEF Spec
-----------------------------------------------------------------------------
\* What a buffer holds, and what is handed on, belongs to the packet.
Own(p) ==
    /\ size[p.id] # 0 /\ (p.ip_len = 0 \/ p.ip_len = size[p.id])
    /\ \A i \in p.fragmap : p.payload[i] = p.id

Whole(h) ==
    /\ h.ip_len # 0 /\ h.ip_len = size[h.id] /\ h.bsize = h.ip_len - Hlen
    /\ DOMAIN h.payload = 0..(h.ip_len - 1)
    /\ \A j \in DOMAIN h.payload : h.payload[j] = h.id

HandedOn == [id : Packets, ip_len : Nat, bsize : Int,
             payload : UNION {[0..(n - 1) -> Packets \cup {None}] : n \in Nat}]

\* A size is given to a packet once, before its first fragment is on its way.
WholeInv ==
    /\ \A f \in flight : size[f[1]] # 0
    /\ \A d \in Packets : size[d] = 0 \/ size[d] \in Sizes
    /\ \A b \in Buffers : packet_buffer[b].id # None => Own(packet_buffer[b])
    /\ handed \in Seq(HandedOn)
    /\ \A i \in 1..Len(handed) : Whole(handed[i])

AllCleared == \A n \in Sizes : n <= MapCleared

\* The map of a new buffer is empty when fragmap_init() clears all of it, so the
\* bits that are set afterwards are those of the packet's own fragments.
LEMMA FragmentOwn ==
    ASSUME AllCleared, BufferInv, WholeInv, NEW d \in Packets, NEW k \in Nat, size[d] # 0,
           NEW b \in Buffers, NEW new \in Buffer, new.id = d,
           (new = packet_buffer[b]) \/ (new = Allocated(b, d))
    PROVE  Own(WithFragment(new, d, k))
<1>1. size \in [Packets -> Nat] /\ d # None /\ packet_buffer[b] \in Buffer
  BY FragmentAssumption DEF BufferInv
<1>2. Own(new)
  <2>1. CASE new = packet_buffer[b]
    BY <1>1, <2>1 DEF WholeInv
  <2>2. CASE new = Allocated(b, d)
    <3>1. Blocks \subseteq InMap(0, MapCleared)
      BY FragmentAssumption DEF Blocks, InMap, AllCleared
    <3>2. packet_buffer[b].fragmap \subseteq Blocks
      BY <1>1 DEF Buffer
    <3>3. new.ip_len = 0 /\ new.fragmap = packet_buffer[b].fragmap \ InMap(0, MapCleared)
      <4>1. /\ Allocated(b, d).ip_len = 0
            /\ Allocated(b, d).fragmap = packet_buffer[b].fragmap \ InMap(0, MapCleared)
        <5>1. packet_buffer[b] \in Buffer
          BY <1>1
        <5> QED
          BY <5>1, AllocatedFields
      <4> QED
        BY <2>2, <4>1, Zenon
    <3>4. new.fragmap = {}
      BY <3>1, <3>2, <3>3
    <3> QED
      BY <3>3, <3>4 DEF Own
  <2> QED
    BY <2>1, <2>2
<1> DEFINE p == WithFragment(new, d, k)
<1>3. /\ p.id = d /\ p.fragmap = NewMap(new, d, k) /\ p.payload = NewPayload(new, d, k)
      /\ p.ip_len = NewLen(new, d, k)
  BY <1>1, WithFragmentFields, Zenon
<1> HIDE DEF p
<1>4. p.ip_len = 0 \/ p.ip_len = size[d]
  BY <1>2, <1>3 DEF NewLen, IsLast, Own
<1>5. \A i \in p.fragmap : p.payload[i] = d
  <2> SUFFICES ASSUME NEW i \in NewMap(new, d, k) PROVE NewPayload(new, d, k)[i] = d
    BY <1>3
  <2>1. i \in Blocks
    BY DEF NewMap, InMap, Buffer
  <2>2. i \in InMap(Off(k), End(d, k)) \/ new.payload[i] = d
    BY <1>2 DEF NewMap, Own
  <2> QED
    BY <2>1, <2>2 DEF NewPayload
<1>6. Own(p)
  BY <1>3, <1>4, <1>5 DEF Own
<1> QED
  BY <1>6 DEF p

\* A packet that is complete has all its blocks.
LEMMA HandedWhole ==
    ASSUME BufferInv, WholeInv, NEW p \in Buffer, p.id \in Packets, Own(p), Complete(p)
    PROVE  Handed(p) \in HandedOn /\ Whole(Handed(p))
<1>1. p.ip_len # 0 /\ p.ip_len = size[p.id] /\ p.ip_len \in Sizes /\ p.ip_len \in Nat
  BY DEF Complete, Own, WholeInv, Buffer
<1>2. ASSUME NEW i \in 0..(p.ip_len - 1) PROVE p.payload[i] = p.id
  <2>1. i \in Blocks
    BY <1>1 DEF Blocks
  <2>2. i \in InMap(0, p.ip_len)
    BY <1>1, <2>1 DEF InMap
  <2> QED
    BY <2>2 DEF Complete, Own
<1> DEFINE pay == [i \in 0..(p.ip_len - 1) |-> p.payload[i]]
<1>3. pay \in [0..(p.ip_len - 1) -> Packets \cup {None}] /\ DOMAIN pay = 0..(p.ip_len - 1)
  BY <1>2
<1>4. \A j \in 0..(p.ip_len - 1) : pay[j] = p.id
  BY <1>2
<1>5. p.ip_len - Hlen \in Int
  BY <1>1, FragmentAssumption
<1>6. Handed(p) = [id |-> p.id, ip_len |-> p.ip_len, bsize |-> p.ip_len - Hlen, payload |-> pay]
  BY DEF Handed
<1> HIDE DEF pay
<1>7. pay \in UNION {[0..(n - 1) -> Packets \cup {None}] : n \in Nat}
  BY <1>1, <1>3
<1>8. Handed(p) \in HandedOn
  BY <1>1, <1>5, <1>6, <1>7 DEF HandedOn
<1>9. /\ Handed(p).id = p.id /\ Handed(p).ip_len = p.ip_len /\ Handed(p).payload = pay
      /\ Handed(p).bsize = p.ip_len - Hlen
  BY <1>6
<1> QED
  BY <1>1, <1>3, <1>4, <1>8, <1>9 DEF Whole

\* Nothing is handed on but the packet that was sent.
LEMMA InputWhole ==
    ASSUME AllCleared, BufferInv, WholeInv, NEW d \in Packets, NEW k \in Nat,
           <<d, k>> \in flight, FragmentInput(d, k), UNCHANGED size, flight' \subseteq flight
    PROVE  WholeInv'
<1>1. size[d] # 0
  BY DEF WholeInv
<1>2. \A p : Own(p)' <=> Own(p)
  BY DEF Own
<1>3. \A h : Whole(h)' <=> Whole(h)
  BY DEF Whole
<1>4. CASE UNCHANGED <<packet_buffer, handed>>
  BY <1>2, <1>3, <1>4 DEF WholeInv, Own, Whole
<1>5. ASSUME NEW b \in Buffers, NEW new \in Buffer, new.id = d,
             (new = packet_buffer[b]) \/ (new = Allocated(b, d)),
             \/ /\ Complete(WithFragment(new, d, k))
                /\ handed' = Append(handed, Handed(WithFragment(new, d, k)))
                /\ packet_buffer' =
                      [packet_buffer EXCEPT ![b] = Released(WithFragment(new, d, k))]
             \/ /\ packet_buffer' = [packet_buffer EXCEPT ![b] = WithFragment(new, d, k)]
                /\ UNCHANGED handed
      PROVE  WholeInv'
  <2> DEFINE p == WithFragment(new, d, k)
  <2>1. p \in Buffer /\ p.id = d
    <3>1. size \in [Packets -> Nat]
      BY DEF BufferInv
    <3> QED
      BY <1>5, <3>1, WithFragmentFields, Zenon
  <2>2. Own(p)
    BY <1>1, <1>5, FragmentOwn
  <2>3. Released(p).id = None
    BY <2>1, ReleasedFields
  <2> HIDE DEF p
  <2>4. \/ /\ Complete(p) /\ handed' = Append(handed, Handed(p))
           /\ packet_buffer' = [packet_buffer EXCEPT ![b] = Released(p)]
        \/ packet_buffer' = [packet_buffer EXCEPT ![b] = p] /\ UNCHANGED handed
    BY <1>5, Zenon DEF p
  <2>5. \A c \in Buffers : packet_buffer'[c].id # None => Own(packet_buffer'[c])
    BY <2>2, <2>3, <2>4 DEF BufferInv, WholeInv
  <2>6. handed' \in Seq(HandedOn) /\ \A i \in 1..Len(handed') : Whole(handed'[i])
    <3>1. CASE UNCHANGED handed
      BY <3>1 DEF WholeInv
    <3>2. CASE Complete(p) /\ handed' = Append(handed, Handed(p))
      <4>1. Handed(p) \in HandedOn /\ Whole(Handed(p))
        BY <2>1, <2>2, <3>2, HandedWhole
      <4>2. handed \in Seq(HandedOn) /\ \A i \in 1..Len(handed) : Whole(handed[i])
        BY DEF WholeInv
      <4>3. Len(handed') = Len(handed) + 1 /\ handed' \in Seq(HandedOn)
            /\ handed'[Len(handed) + 1] = Handed(p)
            /\ \A i \in 1..Len(handed) : handed'[i] = handed[i]
        BY <3>2, <4>1, <4>2
      <4> QED
        BY <4>1, <4>2, <4>3
    <3> QED
      BY <2>4, <3>1, <3>2
  <2> QED
    BY <1>2, <1>3, <2>5, <2>6 DEF WholeInv, Own, Whole
<1> QED
  BY <1>4, <1>5, InputEffect

\* A packet that is sent had no size, so nothing of it was held or handed on.
LEMMA SendWhole ==
    ASSUME BufferInv, WholeInv, NEW d \in Packets, NEW n \in Sizes, Send(d, n)
    PROVE  WholeInv'
<1>1. n \in Nat /\ n # 0 /\ size[d] = 0
  BY FragmentAssumption DEF Send
<1>2. size' = [size EXCEPT ![d] = n] /\ UNCHANGED <<packet_buffer, handed>>
  BY DEF Send
<1>3. size'[d] = n /\ \A c \in Packets : c # d => size'[c] = size[c]
  BY <1>2 DEF BufferInv
<1>4. \A f \in flight' : size'[f[1]] # 0
  <2> SUFFICES ASSUME NEW f \in flight' PROVE size'[f[1]] # 0
    OBVIOUS
  <2>1. f \in flight \/ f[1] = d
    BY DEF Send
  <2>2. f \in flight => f[1] \in Packets /\ size[f[1]] # 0
    BY DEF BufferInv, WholeInv
  <2> QED
    BY <1>1, <1>3, <2>1, <2>2
<1>5. \A c \in Packets : size'[c] = 0 \/ size'[c] \in Sizes
  BY <1>3 DEF WholeInv
<1>6. \A b \in Buffers : packet_buffer[b].id # None => Own(packet_buffer[b])'
  <2> SUFFICES ASSUME NEW b \in Buffers, packet_buffer[b].id # None
               PROVE  Own(packet_buffer[b])'
    OBVIOUS
  <2>1. Own(packet_buffer[b]) /\ packet_buffer[b].id \in Packets
    BY DEF WholeInv, BufferInv, Buffer
  <2>2. packet_buffer[b].id # d
    BY <1>1, <2>1 DEF Own
  <2> QED
    BY <1>2, <1>3, <2>1, <2>2 DEF Own
<1>7. \A i \in 1..Len(handed) : Whole(handed[i])'
  <2> SUFFICES ASSUME NEW i \in 1..Len(handed) PROVE Whole(handed[i])'
    OBVIOUS
  <2>1. Whole(handed[i]) /\ handed[i].id \in Packets
    <3>1. Whole(handed[i]) /\ handed[i] \in HandedOn
      BY DEF WholeInv
    <3> QED
      BY <3>1 DEF HandedOn
  <2>2. handed[i].id # d
    BY <1>1, <2>1 DEF Whole
  <2> QED
    BY <1>2, <1>3, <2>1, <2>2 DEF Whole
<1> QED
  BY <1>2, <1>4, <1>5, <1>6, <1>7 DEF WholeInv

LEMMA WholeNext ==
    ASSUME AllCleared
    PROVE  BufferInv /\ WholeInv /\ [Next]_vars => WholeInv'
<1> SUFFICES ASSUME BufferInv, WholeInv, [Next]_vars PROVE WholeInv'
  OBVIOUS
<1>1. ASSUME NEW d \in Packets, NEW n \in Sizes, Send(d, n) PROVE WholeInv'
  BY <1>1, SendWhole
<1>2. ASSUME NEW d \in Packets, NEW k, Arrive(d, k) \/ Duplicate(d, k) PROVE WholeInv'
  <2>1. k \in Nat /\ <<d, k>> \in flight
    BY <1>2 DEF Arrive, Duplicate, MayArrive, BufferInv
  <2> QED
    BY <1>2, <2>1, InputWhole DEF Arrive, Duplicate
<1>3. ASSUME NEW d \in Packets, NEW k, Lose(d, k) PROVE WholeInv'
  BY <1>3 DEF Lose, WholeInv, Own, Whole
<1>4. CASE UNCHANGED vars
  BY <1>4 DEF vars, WholeInv, Own, Whole
<1> QED
  BY <1>1, <1>2, <1>3, <1>4 DEF Next

LEMMA WholeInit == Init => WholeInv
  BY DEF Init, WholeInv

\* A packet that ip_fragment_input() hands on is the one that was sent, provided
\* no packet reaches beyond the part of the map that fragmap_init() clears.
THEOREM ReassembledWhole ==
    ASSUME AllCleared
    PROVE  Spec => []WholeOnly
<1>1. WholeInv => WholeOnly
  BY DEF WholeInv, Whole, WholeOnly
<1>2. BufferInv /\ WholeInv /\ [Next]_vars => WholeInv'
  BY WholeNext
<1> QED
  BY <1>1, <1>2, WholeInit, BufferInit, BufferNext, PTL DEF Spec
-----------------------------------------------------------------------------
\* Fragments follow each other without a gap.
LEMMA OffStep ==
    /\ Off(0) = 0
    /\ \A k \in Nat : Off(k + 1) = Off(k) + FragBlocks /\ Off(k) \in Nat /\ Off(k) >= k
  BY FragmentAssumption DEF Off

\* Every block is in some fragment.
LEMMA Covered ==
    ASSUME NEW i \in Nat
    PROVE  \E k \in Nat : Off(k) <= i /\ i < Off(k + 1)
<1> DEFINE S == {k \in Nat : i < Off(k + 1)}
           R == {ss \in Nat \X Nat : ss[1] < ss[2]}
<1>1. i \in S
  BY OffStep
<1>2. IsWellFoundedOn(R, Nat)
  BY NatLessThanWellFounded, Zenon DEF OpToRel
<1>3. S \subseteq Nat /\ S # {}
  BY <1>1
<1> HIDE DEF R
<1>4. PICK k \in S : \A j \in S : ~(<<j, k>> \in R)
  <2> HIDE DEF S
  <2> QED
    BY <1>2, <1>3, WFMin
<1>5. k \in Nat /\ i < Off(k + 1)
  BY <1>4
<1>6. CASE k = 0
  BY <1>5, <1>6, OffStep
<1>7. CASE k # 0
  <2>1. k - 1 \in Nat /\ k - 1 < k /\ (k - 1) + 1 = k
    BY <1>5, <1>7
  <2>2. <<k - 1, k>> \in Nat \X Nat /\ <<k - 1, k>>[1] = k - 1 /\ <<k - 1, k>>[2] = k
    BY <1>5, <2>1
  <2>3. <<k - 1, k>> \in R
    BY <2>1, <2>2, Zenon DEF R
  <2>4. k - 1 \notin S
    BY <1>4, <2>3
  <2>5. ~(i < Off(k))
    BY <2>1, <2>4
  <2>6. Off(k) \in Nat
    BY <1>5, OffStep
  <2> QED
    BY <1>5, <2>5, <2>6
<1> QED
  BY <1>6, <1>7

\* The packet has been handed on; something ip_fragment_input() cannot make good
\* has happened to it.
GivenOn(d) == \E i \in 1..Len(handed) : handed[i].id = d
Harmed(d) == \E c \in {"lost", "no buffer", "overtaken"} : <<d, c>> \in harm

\* The fragments of a packet that are not on their way any more.
Arrived(d) == {k \in Nat : Off(k) < size[d] /\ <<d, k>> \notin flight}

\* What the buffer of a packet has of it.
Holds(p, d) ==
    /\ ~Complete(p)
    /\ \A k \in Arrived(d) :
          InMap(Off(k), End(d, k)) \subseteq p.fragmap /\ (IsLast(d, k) => p.ip_len = size[d])

\* A sequence, of whatever it holds.
IsSeq(q) == Len(q) \in Nat /\ q = [i \in 1..Len(q) |-> q[i]]

\* The inductive invariant behind ArrivedIsHandedOn: a packet that has come to no
\* harm and is not handed on yet has a buffer from its first fragment on; the
\* buffer is not complete, has the blocks of everything that has arrived, and the
\* length once the last fragment has.
ArriveInv ==
    /\ IsSeq(handed)
    /\ \A d \in Packets : size[d] = 0 \/ size[d] \in Sizes
    /\ \A f \in flight : size[f[1]] # 0
    /\ \A b \in Buffers : packet_buffer[b].id # None => size[packet_buffer[b].id] # 0
    /\ \A d \in Packets :
          size[d] # 0 /\ ~Harmed(d) /\ ~GivenOn(d) =>
            /\ Arrived(d) # {} => Found(d) # {}
            /\ \A b \in Found(d) : Holds(packet_buffer[b], d)

\* A packet whose fragments have all arrived is complete.
LEMMA AllArrived ==
    ASSUME BufferInv, ArriveInv, NEW d \in Packets, size[d] # 0, d \notin OnTheWay,
           ~Harmed(d), ~GivenOn(d)
    PROVE  FALSE
<1>1. size[d] \in Nat /\ size[d] > 0 /\ \A k \in Nat : <<d, k>> \notin flight
  BY DEF BufferInv, OnTheWay
<1>2. \A k \in Nat : Off(k) < size[d] => k \in Arrived(d)
  BY <1>1 DEF Arrived
<1>3. 0 \in Arrived(d)
  BY <1>1, <1>2, OffStep
<1>4. PICK b \in Found(d) : Holds(packet_buffer[b], d)
  BY <1>3 DEF ArriveInv
<1> DEFINE p == packet_buffer[b]
<1>5. p.ip_len = size[d]
  <2>1. PICK k \in Nat : Off(k) <= size[d] - 1 /\ size[d] - 1 < Off(k + 1)
    BY <1>1, Covered
  <2>2. Off(k) < size[d] /\ ~(Off(k + 1) < size[d])
    <3>1. Off(k) \in Nat /\ Off(k + 1) \in Nat
      BY OffStep
    <3> QED
      BY <1>1, <2>1, <3>1
  <2>3. IsLast(d, k)
    BY <2>2 DEF IsLast, End
  <2> QED
    BY <1>2, <1>4, <2>2, <2>3 DEF Holds
<1>6. ASSUME NEW i \in InMap(0, size[d]) PROVE i \in p.fragmap
  <2>1. i \in Nat /\ i \in Blocks /\ i < size[d]
    BY FragmentAssumption DEF InMap, Blocks
  <2>2. PICK k \in Nat : Off(k) <= i /\ i < Off(k + 1)
    BY <2>1, Covered
  <2>3. Off(k) < size[d] /\ i < End(d, k)
    <3>1. Off(k) \in Nat /\ Off(k + 1) \in Nat
      BY OffStep
    <3> QED
      BY <1>1, <2>1, <2>2, <3>1 DEF End
  <2>4. i \in InMap(Off(k), End(d, k))
    BY <2>1, <2>2, <2>3 DEF InMap
  <2> QED
    BY <1>2, <1>4, <2>3, <2>4 DEF Holds
<1>7. Complete(p)
  BY <1>1, <1>5, <1>6 DEF Complete
<1> QED
  BY <1>4, <1>7 DEF Holds

\* What a buffer has of a packet only depends on that packet.
LEMMA HoldsKept ==
    ASSUME NEW q, NEW c, Holds(q, c), size'[c] = size[c],
           \A k \in Arrived(c)' : k \in Arrived(c)
    PROVE  Holds(q, c)'
<1>1. \A k : /\ End(c, k)' = End(c, k) /\ (IsLast(c, k)' <=> IsLast(c, k)) /\ Off(k)' = Off(k)
             /\ InMap(Off(k), End(c, k))' = InMap(Off(k), End(c, k))
  BY DEF End, IsLast, Off, InMap
<1>2. Complete(q)' <=> Complete(q)
  BY DEF Complete, InMap
<1> QED
  BY <1>1, <1>2 DEF Holds

\* What is sent is on its way.
LEMMA SendArrives ==
    ASSUME BufferInv, ArriveInv, NEW d \in Packets, NEW n \in Sizes, Send(d, n)
    PROVE  ArriveInv'
<1>1. /\ n \in Nat /\ n # 0 /\ size[d] = 0 /\ d # None
      /\ size' = [size EXCEPT ![d] = n] /\ UNCHANGED <<packet_buffer, handed, harm>>
      /\ flight' = flight \cup {<<d, k>> : k \in {j \in 0..n : Off(j) < n}}
  BY FragmentAssumption DEF Send
<1>2. size'[d] = n /\ \A c \in Packets : c # d => size'[c] = size[c]
  BY <1>1 DEF BufferInv
<1>3. \A f \in flight' : size'[f[1]] # 0
  <2> SUFFICES ASSUME NEW f \in flight' PROVE size'[f[1]] # 0
    OBVIOUS
  <2>1. f \in flight \/ f[1] = d
    BY <1>1
  <2>2. f \in flight => f[1] \in Packets /\ size[f[1]] # 0
    BY DEF BufferInv, ArriveInv
  <2> QED
    BY <1>1, <1>2, <2>1, <2>2
<1>4. \A b \in Buffers : packet_buffer[b].id # None =>
          size'[packet_buffer[b].id] # 0 /\ packet_buffer[b].id # d
  BY <1>1, <1>2 DEF ArriveInv, BufferInv, Buffer
<1>5. ASSUME NEW c \in Packets, size'[c] # 0, ~Harmed(c)', ~GivenOn(c)'
      PROVE  (Arrived(c)' # {} => Found(c)' # {}) /\ \A b \in Found(c)' : Holds(packet_buffer[b], c)'
  <2>1. CASE c = d
    <3>1. Arrived(d)' = {}
      <4> SUFFICES ASSUME NEW k \in Nat, Off(k) < n PROVE <<d, k>> \in flight'
        BY <1>2 DEF Arrived, Off
      <4>1. k \in 0..n
        BY <1>1, OffStep
      <4> QED
        BY <1>1, <4>1
    <3>2. Found(d)' = {}
      BY <1>1, <1>4 DEF Found
    <3> QED
      BY <2>1, <3>1, <3>2
  <2>2. CASE c # d
    <3>1. size'[c] = size[c] /\ Found(c)' = Found(c) /\ ~Harmed(c) /\ ~GivenOn(c)
      BY <1>1, <1>2, <1>5, <2>2 DEF Found, Harmed, GivenOn
    <3>2. \A k : <<c, k>> \in flight' <=> <<c, k>> \in flight
      BY <1>1, <2>2
    <3>3. Arrived(c)' = Arrived(c)
      BY <3>1, <3>2 DEF Arrived, Off
    <3>4. \A b \in Found(c) : Holds(packet_buffer[b], c)
      BY <1>5, <3>1 DEF ArriveInv
    <3>5. \A b \in Found(c)' : Holds(packet_buffer[b], c)'
      <4>1. \A q : Holds(q, c) => Holds(q, c)'
        BY <3>1, <3>3, HoldsKept
      <4> QED
        BY <1>1, <3>1, <3>4, <4>1
    <3> QED
      BY <1>5, <3>1, <3>3, <3>5 DEF ArriveInv
  <2> QED
    BY <2>1, <2>2
<1>6. \A c \in Packets : size'[c] = 0 \/ size'[c] \in Sizes
  BY <1>2 DEF ArriveInv
<1>7. IsSeq(handed)'
  BY <1>1 DEF ArriveInv, IsSeq
<1>8. \A b \in Buffers : packet_buffer'[b].id # None => size'[packet_buffer'[b].id] # 0
  BY <1>1, <1>4
<1> QED
  BY <1>3, <1>5, <1>6, <1>7, <1>8, Zenon DEF ArriveInv

\* A packet is handed on once and for all.
LEMMA HandedGrows ==
    ASSUME NEW e, IsSeq(handed), handed' = handed \/ handed' = Append(handed, e)
    PROVE  /\ IsSeq(handed)'
           /\ \A d : GivenOn(d) => GivenOn(d)'
           /\ handed' = Append(handed, e) => GivenOn(e.id)'
<1>1. CASE handed' = Append(handed, e)
  <2> DEFINE S == {handed[i] : i \in 1..Len(handed)} \cup {e}
  <2>1. handed \in Seq(S) /\ e \in S
    BY DEF IsSeq
  <2> HIDE DEF S
  <2>2. /\ handed' \in Seq(S) /\ Len(handed) \in Nat /\ Len(handed') = Len(handed) + 1
        /\ handed'[Len(handed) + 1] = e
        /\ \A i \in 1..Len(handed) : handed'[i] = handed[i]
    BY <1>1, <2>1
  <2>3. IsSeq(handed')
    <3>1. Len(handed') \in Nat /\ DOMAIN handed' = 1..Len(handed')
      BY <2>2
    <3>2. handed' = [i \in DOMAIN handed' |-> handed'[i]]
      BY <2>2
    <3> QED
      BY <3>1, <3>2 DEF IsSeq
  <2>4. Len(handed) + 1 \in 1..Len(handed') /\ \A i \in 1..Len(handed) : i \in 1..Len(handed')
    BY <2>2
  <2> QED
    BY <2>2, <2>3, <2>4 DEF GivenOn, IsSeq
<1>2. CASE handed' = handed
  <2>1. handed' = Append(handed, e) => FALSE
    <3> SUFFICES ASSUME handed = Append(handed, e) PROVE FALSE
      BY <1>2
    <3> DEFINE S == {handed[i] : i \in 1..Len(handed)} \cup {e}
    <3>1. handed \in Seq(S) /\ e \in S
      BY DEF IsSeq
    <3> HIDE DEF S
    <3>2. Len(Append(handed, e)) = Len(handed) + 1 /\ Len(handed) \in Nat
      BY <3>1
    <3> QED
      BY <3>2
  <2> QED
    BY <1>2, <2>1 DEF GivenOn, IsSeq
<1> QED
  BY <1>1, <1>2

\* The buffer with one more fragment has that fragment's blocks too, and its
\* length is not forgotten unless the first fragment is late.
LEMMA FragmentHeld ==
    ASSUME BufferInv, ArriveInv, NEW d \in Packets, NEW k \in Nat, size[d] # 0,
           NEW new \in Buffer, new.id = d,
           Arrived(d) = {} \/ Holds(new, d), k = 0 => new.ip_len = 0,
           UNCHANGED size, flight' = flight \/ flight' = flight \ {<<d, k>>},
           NEW p, p = WithFragment(new, d, k), ~Complete(p)
    PROVE  Holds(p, d)'
<1>1. size \in [Packets -> Nat] /\ size[d] \in Sizes /\ size[d] \in Nat
  BY DEF BufferInv, ArriveInv
<1>2. p.fragmap = NewMap(new, d, k) /\ p.ip_len = NewLen(new, d, k)
  BY <1>1, WithFragmentFields, Zenon
<1>3. ~Complete(p)'
  BY DEF Complete, InMap
<1>4. ~IsLast(d, 0)
  <2>1. Off(0 + 1) = FragBlocks /\ FragBlocks < size[d] /\ FragBlocks \in Nat
    BY <1>1, OffStep, FragmentAssumption
  <2> QED
    BY <1>1, <2>1 DEF IsLast, End
<1>5. \A j \in Arrived(d)' : j \in Nat /\ (j \in Arrived(d) \/ j = k)
  BY DEF Arrived, Off
<1>6. InMap(Off(k), End(d, k)) \subseteq p.fragmap /\ new.fragmap \subseteq p.fragmap
  BY <1>2 DEF NewMap
<1>7. IsLast(d, k) => p.ip_len = size[d]
  BY <1>2, <1>4 DEF NewLen, IsLast
<1>8. ASSUME NEW j \in Arrived(d)
      PROVE  InMap(Off(j), End(d, j)) \subseteq p.fragmap /\ (IsLast(d, j) => p.ip_len = size[d])
  <2>1. InMap(Off(j), End(d, j)) \subseteq new.fragmap /\ (IsLast(d, j) => new.ip_len = size[d])
    BY DEF Holds
  <2>2. IsLast(d, j) => p.ip_len = size[d]
    BY <1>2, <2>1 DEF NewLen, IsLast
  <2> QED
    BY <1>6, <2>1, <2>2
<1>9. \A j \in Arrived(d)' :
         InMap(Off(j), End(d, j)) \subseteq p.fragmap /\ (IsLast(d, j) => p.ip_len = size[d])
  BY <1>5, <1>6, <1>7, <1>8
<1>10. \A j : /\ IsLast(d, j)' <=> IsLast(d, j)
              /\ InMap(Off(j), End(d, j))' = InMap(Off(j), End(d, j))
  BY DEF End, IsLast, Off, InMap
<1> QED
  BY <1>3, <1>9, <1>10 DEF Holds

\* The arrival of a fragment.
LEMMA InputArrives ==
    ASSUME BufferInv, ArriveInv, NEW d \in Packets, NEW k \in Nat, <<d, k>> \in flight,
           FragmentInput(d, k), NoteHarm(d, k), UNCHANGED size,
           flight' = flight \/ flight' = flight \ {<<d, k>>}
    PROVE  ArriveInv'
<1>1. size[d] # 0 /\ d # None /\ IsSeq(handed)
  BY FragmentAssumption DEF ArriveInv
<1>2. /\ \A c : Harmed(c) => Harmed(c)'
      /\ GetPacketBuffer(d) = None => Harmed(d)'
      /\ \A b \in Found(d) : k = 0 /\ packet_buffer[b].ip_len # 0 => Harmed(d)'
  <2>1. \A x : x \in harm => x \in harm'
    BY DEF NoteHarm
  <2>2. GetPacketBuffer(d) = None => <<d, "no buffer">> \in harm'
    BY DEF NoteHarm
  <2>3. \A b \in Found(d) : k = 0 /\ packet_buffer[b].ip_len # 0 => <<d, "overtaken">> \in harm'
    BY DEF NoteHarm
  <2> QED
    BY <2>1, <2>2, <2>3 DEF Harmed
<1>3. \A f \in flight' : size'[f[1]] # 0
  BY DEF ArriveInv
<1>4. \A c \in Packets : size'[c] = 0 \/ size'[c] \in Sizes
  BY DEF ArriveInv
<1>5. \A c \in Packets : c # d => Arrived(c)' = Arrived(c)
  BY DEF Arrived, Off
<1>6. CASE GetPacketBuffer(d) = None /\ UNCHANGED <<packet_buffer, handed>>
  <2>1. ASSUME NEW c \in Packets, size'[c] # 0, ~Harmed(c)', ~GivenOn(c)'
        PROVE  (Arrived(c)' # {} => Found(c)' # {}) /\ \A b \in Found(c)' : Holds(packet_buffer[b], c)'
    <3>1. c # d /\ ~Harmed(c) /\ ~GivenOn(c) /\ Found(c)' = Found(c)
      BY <1>2, <1>6, <2>1 DEF GivenOn, Found
    <3>2. \A b \in Found(c) : Holds(packet_buffer[b], c)
      BY <2>1, <3>1 DEF ArriveInv
    <3>3. \A q : Holds(q, c) => Holds(q, c)'
      BY <1>5, <3>1, HoldsKept
    <3> QED
      BY <1>5, <1>6, <2>1, <3>1, <3>2, <3>3 DEF ArriveInv
  <2>2. \A b \in Buffers : packet_buffer'[b].id # None => size'[packet_buffer'[b].id] # 0
    BY <1>6 DEF ArriveInv
  <2>3. IsSeq(handed)'
    BY <1>1, <1>6 DEF IsSeq
  <2> QED
    BY <1>3, <1>4, <2>1, <2>2, <2>3, Zenon DEF ArriveInv
<1>7. ASSUME NEW b \in Buffers, NEW new \in Buffer, NEW p, NEW q, new.id = d,
             new = packet_buffer[b] \/ (new = Allocated(b, d) /\ Found(d) = {}),
             \A c \in Buffers \ {b} : packet_buffer[c].id # d,
             p = WithFragment(new, d, k), packet_buffer' = [packet_buffer EXCEPT ![b] = q],
             \/ handed' = Append(handed, Handed(p)) /\ q = Released(p)
             \/ ~Complete(p) /\ q = p /\ UNCHANGED handed,
             packet_buffer[b].id = d \/ packet_buffer[b].id = None
      PROVE  ArriveInv'
  <2>1. p \in Buffer /\ p.id = d
    <3>1. size \in [Packets -> Nat]
      BY DEF BufferInv
    <3> QED
      BY <1>7, <3>1, WithFragmentFields, Zenon
  <2>2. q.id = d \/ q.id = None
    BY <1>7, <2>1, ReleasedFields
  <2>3. packet_buffer'[b] = q /\ \A c \in Buffers \ {b} : packet_buffer'[c] = packet_buffer[c]
    BY <1>7 DEF BufferInv
  <2>4. IsSeq(handed)' /\ (\A c : GivenOn(c) => GivenOn(c)')
        /\ (handed' = Append(handed, Handed(p)) => GivenOn(Handed(p).id)')
    <3>1. handed' = handed \/ handed' = Append(handed, Handed(p))
      BY <1>7
    <3> QED
      BY <1>1, <3>1, HandedGrows
  <2>5. Handed(p).id = d
    BY <2>1 DEF Handed
  <2>6. \A c \in Buffers : packet_buffer'[c].id # None => size'[packet_buffer'[c].id] # 0
    BY <1>1, <2>2, <2>3 DEF ArriveInv
  <2>7. ASSUME NEW c \in Packets, size'[c] # 0, ~Harmed(c)', ~GivenOn(c)'
        PROVE  (Arrived(c)' # {} => Found(c)' # {}) /\ \A e \in Found(c)' : Holds(packet_buffer[e], c)'
    <3>1. size[c] # 0 /\ ~Harmed(c) /\ ~GivenOn(c)
      BY <1>2, <2>4, <2>7
    <3>2. (Arrived(c) # {} => Found(c) # {}) /\ \A e \in Found(c) : Holds(packet_buffer[e], c)
      BY <3>1 DEF ArriveInv
    <3>3. CASE c # d
      <4>1. c # None
        BY FragmentAssumption
      <4>2. Found(c)' = Found(c) /\ b \notin Found(c)
        BY <1>7, <2>2, <2>3, <3>3, <4>1 DEF Found
      <4>3. \A e \in Found(c) : packet_buffer'[e] = packet_buffer[e]
        BY <2>3, <4>2 DEF Found
      <4>4. \A r : Holds(r, c) => Holds(r, c)'
        BY <1>5, <3>3, HoldsKept
      <4> QED
        BY <1>5, <3>2, <3>3, <4>2, <4>3, <4>4
    <3>4. CASE c = d
      <4>1. ~Complete(p) /\ q = p
        BY <1>7, <2>4, <2>5, <2>7, <3>4
      <4>2. Found(d)' = {b}
        BY <1>7, <2>1, <2>3, <4>1 DEF Found
      <4>3. (Arrived(d) = {} \/ Holds(new, d)) /\ (k = 0 => new.ip_len = 0)
        <5>1. CASE b \in Found(d)
          <6>1. new = packet_buffer[b]
            BY <1>7, <5>1
          <6> QED
            BY <1>2, <2>7, <3>2, <3>4, <5>1, <6>1
        <5>2. CASE b \notin Found(d)
          <6>1. new = Allocated(b, d) /\ Found(d) = {}
            BY <1>7, <5>2 DEF Found
          <6>2. Allocated(b, d).ip_len = 0
            <7>1. packet_buffer[b] \in Buffer
              BY DEF BufferInv
            <7> QED
              BY <7>1, AllocatedFields
          <6> QED
            BY <3>2, <3>4, <6>1, <6>2
        <5> QED
          BY <5>1, <5>2
      <4>4. Holds(p, d)'
        BY <1>1, <1>7, <4>1, <4>3, FragmentHeld
      <4> QED
        BY <2>3, <3>4, <4>1, <4>2, <4>4
    <3> QED
      BY <3>3, <3>4
  <2> QED
    BY <1>3, <1>4, <2>4, <2>6, <2>7, Zenon DEF ArriveInv
<1>8. ASSUME NEW b \in Buffers, NEW new \in Buffer, new.id = d,
             \/ new = packet_buffer[b]
             \/ new = Allocated(b, d) /\ Found(d) = {} /\ packet_buffer[b].id = None,
             \A c \in Buffers \ {b} : packet_buffer[c].id # d,
             \/ /\ Complete(WithFragment(new, d, k))
                /\ handed' = Append(handed, Handed(WithFragment(new, d, k)))
                /\ packet_buffer' =
                      [packet_buffer EXCEPT ![b] = Released(WithFragment(new, d, k))]
             \/ /\ ~Complete(WithFragment(new, d, k))
                /\ packet_buffer' = [packet_buffer EXCEPT ![b] = WithFragment(new, d, k)]
                /\ UNCHANGED handed
      PROVE  ArriveInv'
  <2> DEFINE p == WithFragment(new, d, k)
  <2>1. \/ handed' = Append(handed, Handed(p)) /\ packet_buffer' = [packet_buffer EXCEPT ![b] = Released(p)]
        \/ ~Complete(p) /\ packet_buffer' = [packet_buffer EXCEPT ![b] = p] /\ UNCHANGED handed
    BY <1>8, Zenon
  <2>2. p = WithFragment(new, d, k)
    OBVIOUS
  <2> HIDE DEF p
  <2>3. packet_buffer[b].id = d \/ packet_buffer[b].id = None
    BY <1>8
  <2>4. new = packet_buffer[b] \/ (new = Allocated(b, d) /\ Found(d) = {})
    BY <1>8
  <2> QED
    BY <1>7, <1>8, <2>1, <2>2, <2>3, <2>4, Zenon
<1> QED
  BY <1>6, <1>8, InputEffect

\* Every step keeps a packet that has come to no harm and was not handed on in
\* its buffer, as far as it has arrived.
LEMMA ArriveNext == BufferInv /\ ArriveInv /\ [Next]_vars => ArriveInv'
<1> SUFFICES ASSUME BufferInv, ArriveInv, [Next]_vars PROVE ArriveInv'
  OBVIOUS
<1>1. ASSUME NEW d \in Packets, NEW n \in Sizes, Send(d, n) PROVE ArriveInv'
  BY <1>1, SendArrives
<1>2. ASSUME NEW d \in Packets, NEW k, Arrive(d, k) \/ Duplicate(d, k) PROVE ArriveInv'
  <2>1. k \in Nat /\ <<d, k>> \in flight
    BY <1>2 DEF Arrive, Duplicate, MayArrive, BufferInv
  <2> QED
    BY <1>2, <2>1, InputArrives DEF Arrive, Duplicate
<1>3. ASSUME NEW d \in Packets, NEW k, Lose(d, k) PROVE ArriveInv'
  <2>1. /\ UNCHANGED <<packet_buffer, size, handed>> /\ flight' = flight \ {<<d, k>>}
        /\ harm' = harm \cup {<<d, "lost">>}
    BY <1>3 DEF Lose
  <2>2. Harmed(d)' /\ \A c : Harmed(c) => Harmed(c)'
    BY <2>1 DEF Harmed
  <2>3. ASSUME NEW c \in Packets, size'[c] # 0, ~Harmed(c)', ~GivenOn(c)'
        PROVE  (Arrived(c)' # {} => Found(c)' # {}) /\ \A b \in Found(c)' : Holds(packet_buffer[b], c)'
    <3>1. c # d /\ ~Harmed(c) /\ ~GivenOn(c) /\ Found(c)' = Found(c)
      BY <2>1, <2>2, <2>3 DEF GivenOn, Found
    <3>2. Arrived(c)' = Arrived(c)
      BY <2>1, <3>1 DEF Arrived, Off
    <3>3. (Arrived(c) # {} => Found(c) # {}) /\ \A b \in Found(c) : Holds(packet_buffer[b], c)
      BY <2>1, <2>3, <3>1 DEF ArriveInv
    <3>4. \A q : Holds(q, c) => Holds(q, c)'
      BY <2>1, <3>2, HoldsKept
    <3> QED
      BY <2>1, <3>1, <3>2, <3>3, <3>4
  <2>4. \A b \in Buffers : packet_buffer'[b].id # None => size'[packet_buffer'[b].id] # 0
    BY <2>1 DEF ArriveInv
  <2>5. IsSeq(handed)' /\ (\A f \in flight' : size'[f[1]] # 0)
        /\ (\A c \in Packets : size'[c] = 0 \/ size'[c] \in Sizes)
    BY <2>1 DEF ArriveInv, IsSeq
  <2> QED
    BY <2>3, <2>4, <2>5, Zenon DEF ArriveInv
<1>4. CASE UNCHANGED vars
  <2>1. UNCHANGED <<packet_buffer, size, flight, handed, harm>>
    BY <1>4 DEF vars
  <2>2. \A c : /\ (Harmed(c)' <=> Harmed(c)) /\ (GivenOn(c)' <=> GivenOn(c))
              /\ Arrived(c)' = Arrived(c) /\ Found(c)' = Found(c)
    BY <2>1 DEF Harmed, GivenOn, Arrived, Found, Off
  <2>3. \A q, c : Holds(q, c) => Holds(q, c)'
    BY <2>1, <2>2, HoldsKept
  <2> QED
    BY <2>1, <2>2, <2>3 DEF ArriveInv, IsSeq
<1> QED
  BY <1>1, <1>2, <1>3, <1>4 DEF Next

\* Nothing has been sent at the beginning.
LEMMA ArriveInit == Init => ArriveInv
<1> SUFFICES ASSUME Init PROVE ArriveInv
  OBVIOUS
<1>1. \A d \in Packets : size[d] = 0
  BY DEF Init
<1>2. \A b \in Buffers : packet_buffer[b].id = None
  BY DEF Init
<1>3. handed = <<>> /\ flight = {} /\ IsSeq(<<>>)
  BY DEF Init, IsSeq
<1> QED
  BY <1>1, <1>2, <1>3 DEF ArriveInv

\* A packet is handed on with the last of its fragments, for any sizes, any number
\* of buffers and of packets on their way, and any duplicates, unless a fragment
\* was lost, found no buffer, or was the first and came after the last.  Unlike
\* ReassembledWhole this needs no assumption on the map: bits that fragmap_init()
\* has not cleared make a packet complete too early, never too late.
THEOREM ArrivedHandedOn == Spec => []ArrivedIsHandedOn
<1>1. BufferInv /\ ArriveInv => ArrivedIsHandedOn
  <2> SUFFICES ASSUME BufferInv, ArriveInv, NEW d \in Packets, size[d] > 0, d \notin OnTheWay,
                      ~Harmed(d)
               PROVE  GivenOn(d)
    BY Zenon DEF ArrivedIsHandedOn, HandedOnUnless, Harmed, GivenOn
  <2>1. size \in [Packets -> Nat]
    BY DEF BufferInv
  <2>2. size[d] # 0
    BY <2>1
  <2> QED
    BY <2>2, AllArrived, Zenon
<1> QED
  BY <1>1, ArriveInit, ArriveNext, BufferInit, BufferNext, PTL DEF Spec
-----------------------------------------------------------------------------
\* Induction: a set with 0 and the successor of each of its numbers has all of them.
LEMMA Induct ==
    ASSUME NEW S, 0 \in S, \A n \in Nat : n \in S => n + 1 \in S
    PROVE  \A n \in Nat : n \in S
<1> DEFINE R == {ss \in Nat \X Nat : ss[1] < ss[2]}
           T == Nat \ S
<1>1. IsWellFoundedOn(R, Nat)
  BY NatLessThanWellFounded, Zenon DEF OpToRel
<1>2. \A x, y \in Nat : y < x => <<y, x>> \in R
  OBVIOUS
<1> HIDE DEF R
<1>3. SUFFICES ASSUME T # {} PROVE FALSE
  OBVIOUS
<1>4. PICK x \in T : \A y \in T : ~(<<y, x>> \in R)
  BY <1>1, <1>3, WFMin
<1>5. x - 1 \in Nat /\ x - 1 < x /\ (x - 1) + 1 = x
  <2>1. x # 0 /\ x \in Nat
    OBVIOUS
  <2> QED
    BY <2>1
<1>6. x - 1 \in T
  BY <1>5
<1>7. <<x - 1, x>> \in R
  BY <1>2, <1>5
<1> QED
  BY <1>4, <1>6, <1>7

\* A turn of the loop, or none when nothing is left.
Turn(s) == IF s.bytes > 0 THEN Cut(s, 0) ELSE s
Start(data, n) == [data |-> data, bytes |-> n, offset |-> 0, sent |-> <<>>]

\* The loop of ip_send_fragments() turn by turn: the recursion has a solution.
LEMMA TurnsDef ==
    ASSUME NEW data, NEW n \in Nat
    PROVE  /\ Turns(data, n)[0] = Start(data, n)
           /\ \A k \in 1..n : Turns(data, n)[k] = Turn(Turns(data, n)[k - 1])
<1> DEFINE After(f, m) == [k \in 0..m |-> IF k = 0 THEN Start(data, n) ELSE Turn(f[k - 1])]
           S == {m \in Nat : \E f : f = After(f, m)}
<1>1. 0 \in S
  <2> DEFINE f == [k \in 0..0 |-> Start(data, n)]
  <2>1. f = After(f, 0)
    OBVIOUS
  <2> QED
    BY <2>1
<1>2. ASSUME NEW m \in Nat, m \in S PROVE m + 1 \in S
  <2>1. PICK f : f = After(f, m)
    BY <1>2
  <2> DEFINE g == [k \in 0..(m + 1) |-> IF k = m + 1 THEN Turn(f[m]) ELSE f[k]]
  <2>2. g = After(g, m + 1)
    <3> SUFFICES ASSUME NEW k \in 0..(m + 1)
                 PROVE  g[k] = IF k = 0 THEN Start(data, n) ELSE Turn(g[k - 1])
      BY Zenon
    <3>1. CASE k = m + 1
      <4>1. g[k - 1] = f[m]
        BY <3>1
      <4> QED
        BY <3>1, <4>1
    <3>2. CASE k # m + 1
      <4>1. k \in 0..m /\ g[k] = f[k] /\ (k # 0 => g[k - 1] = f[k - 1])
        BY <3>2
      <4>2. f[k] = IF k = 0 THEN Start(data, n) ELSE Turn(f[k - 1])
        BY <2>1, <4>1, Zenon
      <4> QED
        BY <4>1, <4>2
    <3> QED
      BY <3>1, <3>2
  <2> HIDE DEF g
  <2>3. \E h : h = After(h, m + 1)
    BY <2>2, Zenon
  <2>4. m + 1 \in Nat
    OBVIOUS
  <2> HIDE DEF After
  <2> QED
    BY <2>3, <2>4
<1> HIDE DEF S
<1>3. n \in S
  BY <1>1, <1>2, Induct
<1>4. \E f : f = After(f, n)
  BY <1>3 DEF S
<1>5. Turns(data, n) = CHOOSE f : f = After(f, n)
  BY Zenon DEF Turns, Start, Turn, Cut
<1>6. Turns(data, n) = After(Turns(data, n), n)
  BY <1>4, <1>5, Zenon
<1>7. ASSUME NEW k \in 0..n
      PROVE  Turns(data, n)[k] = IF k = 0 THEN Start(data, n) ELSE Turn(Turns(data, n)[k - 1])
  BY <1>6, Zenon
<1> QED
  BY <1>7

\* A fragment that carries len blocks of the data from its offset on.
Carries(f, data, len) ==
    /\ DOMAIN f.blocks = 0..(len - 1)
    /\ \A j \in 0..(len - 1) : f.blocks[j] = data[f.off + j]

\* Fragment i of q carries len[i] blocks, those that follow the fragment before it.
InPlace(q, data, len, i) ==
    /\ Carries(q[i], data, len[i])
    /\ q[i].off = IF i = 1 THEN 0 ELSE q[i - 1].off + len[i - 1]

\* The loop invariant of ip_send_fragments() after k turns: what has not been sent is
\* still in its place in the buffer, and what has been sent are the first blocks.
\* The length of fragment i is len[i].
Cutting(s, data, n, k) ==
    /\ s.offset \in 0..n /\ s.bytes = n - s.offset
    /\ s.offset >= k \/ s.offset = n
    /\ s.offset = 0 \/ s.offset >= CutBlocks \/ s.offset = n
    /\ DOMAIN s.data = 0..(n - 1)
    /\ \A i \in s.offset..(n - 1) : s.data[i] = data[i]
    /\ IsSeq(s.sent)
    /\ Len(s.sent) = 0 => s.offset = 0
    /\ \E len \in [1..Len(s.sent) -> 1..CutBlocks] :
          /\ Len(s.sent) > 0 =>
                s.sent[Len(s.sent)].off + len[Len(s.sent)] = s.offset
          /\ \A i \in 1..Len(s.sent) : InPlace(s.sent, data, len, i)
          /\ \A i \in 1..Len(s.sent) : s.sent[i].off \in Nat /\ s.sent[i].off + len[i] <= s.offset
          /\ \A i \in 1..Len(s.sent) : s.sent[i].mf <=> (i < Len(s.sent) \/ s.offset < n)

\* What Append does to a sequence.
LEMMA SeqAppend ==
    ASSUME NEW q, IsSeq(q), NEW e
    PROVE  /\ IsSeq(Append(q, e)) /\ Len(Append(q, e)) = Len(q) + 1
           /\ \A i \in 1..Len(q) : Append(q, e)[i] = q[i]
           /\ Append(q, e)[Len(q) + 1] = e
<1> DEFINE S == {q[i] : i \in 1..Len(q)} \cup {e}
           r == Append(q, e)
<1>1. q \in Seq(S) /\ e \in S
  BY DEF IsSeq
<1> HIDE DEF S
<1>2. r \in Seq(S)
  BY <1>1
<1>3. ASSUME NEW t \in Seq(S) PROVE IsSeq(t)
  <2>1. Len(t) \in Nat /\ DOMAIN t = 1..Len(t)
    OBVIOUS
  <2>2. t = [i \in DOMAIN t |-> t[i]]
    OBVIOUS
  <2> QED
    BY <2>1, <2>2 DEF IsSeq
<1>4. IsSeq(r)
  BY <1>2, <1>3
<1> QED
  BY <1>1, <1>4

\* A turn keeps it: the blocks that are moved to the front go over such as have
\* been sent, because there is no turn before CutBlocks of them have been.
LEMMA CutKeeps ==
    ASSUME NEW data, NEW n \in Nat, NEW k \in Nat, NEW s, Cutting(s, data, n, k), s.bytes > 0
    PROVE  Cutting(Cut(s, 0), data, n, k + 1)
<1> DEFINE plen == NextFragmentSize(s.bytes)
           moved == [i \in DOMAIN s.data |-> s.data[IF i < plen THEN i + s.offset ELSE i]]
           frag == [off |-> s.offset, mf |-> s.bytes # plen,
                    blocks |-> [i \in 0..(plen - 1) |-> moved[i]]]
           r == Cut(s, 0)
           m == Len(s.sent)
<1>1. /\ s.offset \in Nat /\ s.bytes = n - s.offset /\ s.offset < n
      /\ CutBlocks \in Nat /\ CutBlocks >= 1
      /\ s.offset >= k
      /\ s.offset = 0 \/ s.offset >= CutBlocks
      /\ m \in Nat
      /\ m = 0 => s.offset = 0
  BY FragmentAssumption DEF Cutting, IsSeq
<1>2. /\ DOMAIN s.data = 0..(n - 1) /\ IsSeq(s.sent)
      /\ \A i \in s.offset..(n - 1) : s.data[i] = data[i]
  BY DEF Cutting
<1>3. plen \in Nat /\ plen >= 1 /\ plen <= CutBlocks /\ plen <= n - s.offset
      /\ (plen = CutBlocks \/ plen = n - s.offset)
  BY <1>1 DEF NextFragmentSize
<1> HIDE DEF plen
<1>4. r = [data |-> moved, bytes |-> s.bytes - plen, offset |-> s.offset + plen,
           sent |-> Append(s.sent, frag)]
  BY DEF Cut, plen
<1>5. /\ frag.off = s.offset /\ (frag.mf <=> s.bytes # plen)
      /\ frag.blocks = [i \in 0..(plen - 1) |-> moved[i]]
  OBVIOUS
<1> HIDE DEF moved, frag
<1>6. r.offset = s.offset + plen /\ r.bytes = s.bytes - plen
  BY <1>4
<1>7. r.data = moved /\ r.sent = Append(s.sent, frag)
  BY <1>4
<1> HIDE DEF r
<1>8. /\ r.offset \in 0..n /\ r.bytes = n - r.offset
      /\ r.offset >= k + 1 \/ r.offset = n
      /\ r.offset = 0 \/ r.offset >= CutBlocks \/ r.offset = n
  BY <1>1, <1>3, <1>6
<1>9. ASSUME NEW j \in 0..(plen - 1)
      PROVE  j \in 0..(n - 1) /\ moved[j] = data[s.offset + j]
  <2>1. j < plen /\ j \in 0..(n - 1) /\ j + s.offset \in s.offset..(n - 1)
        /\ j + s.offset = s.offset + j
    BY <1>1, <1>3
  <2>2. moved[j] = s.data[j + s.offset]
    BY <1>2, <2>1, Zenon DEF moved
  <2> QED
    BY <1>2, <2>1, <2>2
<1>10. ASSUME NEW i \in r.offset..(n - 1) PROVE moved[i] = data[i]
  <2>1. i \in s.offset..(n - 1) /\ i \in 0..(n - 1) /\ ~(i < plen)
    BY <1>1, <1>3, <1>6
  <2>2. moved[i] = s.data[i]
    BY <1>2, <2>1, Zenon DEF moved
  <2> QED
    BY <1>2, <2>1, <2>2
<1>11. DOMAIN moved = 0..(n - 1)
  BY <1>2 DEF moved
<1>12. Carries(frag, data, plen)
  BY <1>9, <1>5 DEF Carries
<1>13. /\ Len(r.sent) = m + 1 /\ IsSeq(r.sent)
       /\ \A i \in 1..m : r.sent[i] = s.sent[i]
       /\ r.sent[m + 1] = frag
  BY <1>2, <1>7, SeqAppend
<1>14. PICK len \in [1..m -> 1..CutBlocks] :
          /\ m > 0 => s.sent[m].off + len[m] = s.offset
          /\ \A i \in 1..m : InPlace(s.sent, data, len, i)
          /\ \A i \in 1..m : s.sent[i].off \in Nat /\ s.sent[i].off + len[i] <= s.offset
          /\ \A i \in 1..m : s.sent[i].mf <=> (i < m \/ s.offset < n)
  BY DEF Cutting
<1> DEFINE newLen == [i \in 1..(m + 1) |-> IF i = m + 1 THEN plen ELSE len[i]]
<1>15. /\ newLen \in [1..(m + 1) -> 1..CutBlocks]
       /\ newLen[m + 1] = plen /\ \A i \in 1..m : newLen[i] = len[i]
  BY <1>1, <1>3
<1> HIDE DEF newLen, m
<1>16. r.sent[m + 1].off + newLen[m + 1] = r.offset
  BY <1>6, <1>5, <1>13, <1>15
<1>17. ASSUME NEW i \in 1..(m + 1) PROVE InPlace(r.sent, data, newLen, i)
  <2>1. CASE i = m + 1
    <3>1. Carries(r.sent[i], data, newLen[i])
      BY <2>1, <1>12, <1>13, <1>15
    <3>2. CASE m = 0
      BY <1>1, <1>5, <1>13, <2>1, <3>1, <3>2 DEF InPlace
    <3>3. CASE m > 0
      <4>1. m \in 1..m /\ i - 1 = m /\ i # 1
        BY <1>1, <2>1, <3>3
      <4>2. r.sent[i].off = s.offset /\ r.sent[i - 1] = s.sent[m] /\ newLen[i - 1] = len[m]
        BY <1>5, <1>13, <1>15, <2>1, <4>1
      <4>3. s.sent[m].off + len[m] = s.offset
        BY <1>14, <3>3
      <4> QED
        BY <3>1, <4>1, <4>2, <4>3, Zenon DEF InPlace
    <3> QED
      BY <1>1, <3>2, <3>3
  <2>2. CASE i # m + 1
    <3>1. i \in 1..m /\ (i # 1 => i - 1 \in 1..m)
      BY <1>1, <2>2
    <3>2. r.sent[i] = s.sent[i] /\ newLen[i] = len[i]
          /\ (i # 1 => r.sent[i - 1] = s.sent[i - 1] /\ newLen[i - 1] = len[i - 1])
      BY <1>13, <1>15, <3>1
    <3>3. InPlace(s.sent, data, len, i)
      BY <1>14, <3>1
    <3> QED
      BY <3>2, <3>3, Zenon DEF InPlace
  <2> QED
    BY <2>1, <2>2
<1>18. ASSUME NEW i \in 1..(m + 1) PROVE r.sent[i].mf <=> (i < m + 1 \/ r.offset < n)
  <2>1. CASE i = m + 1
    <3>1. s.bytes \in Int /\ (s.bytes # plen => r.offset < n) /\ (s.bytes = plen => ~(r.offset < n))
      BY <1>1, <1>3, <1>6
    <3>2. ~(i < m + 1)
      BY <1>1, <2>1
    <3> QED
      BY <1>5, <1>13, <2>1, <3>1, <3>2, Zenon
  <2>2. CASE i # m + 1
    <3>1. i \in 1..m /\ i < m + 1
      BY <1>1, <2>2
    <3>2. s.sent[i].mf
      BY <1>1, <1>14, <3>1, Zenon
    <3> QED
      BY <1>13, <3>1, <3>2, Zenon
  <2> QED
    BY <2>1, <2>2
<1>19. ASSUME NEW i \in 1..(m + 1)
       PROVE  r.sent[i].off \in Nat /\ r.sent[i].off + newLen[i] <= r.offset
  <2>1. CASE i = m + 1
    <3>1. r.sent[i].off = s.offset /\ newLen[i] = plen
      BY <1>5, <1>13, <1>15, <2>1, Zenon
    <3> QED
      BY <1>1, <1>3, <1>6, <3>1
  <2>2. CASE i # m + 1
    <3>1. i \in 1..m
      BY <1>1, <2>2
    <3>2. /\ len[i] \in 1..CutBlocks /\ s.sent[i].off \in Nat /\ s.sent[i].off + len[i] <= s.offset
          /\ r.sent[i] = s.sent[i] /\ newLen[i] = len[i]
      BY <1>13, <1>14, <1>15, <3>1, Zenon
    <3>3. \A a \in Nat : \A b \in 1..CutBlocks : a + b <= s.offset => a + b <= r.offset
      BY <1>1, <1>3, <1>6
    <3> QED
      BY <3>2, <3>3, Zenon
  <2> QED
    BY <2>1, <2>2
<1> DEFINE Good(q, l) ==
               /\ Len(q) > 0 => q[Len(q)].off + l[Len(q)] = r.offset
               /\ \A i \in 1..Len(q) : InPlace(q, data, l, i)
               /\ \A i \in 1..Len(q) : q[i].off \in Nat /\ q[i].off + l[i] <= r.offset
               /\ \A i \in 1..Len(q) : q[i].mf <=> (i < Len(q) \/ r.offset < n)
<1>20. Good(r.sent, newLen) /\ newLen \in [1..Len(r.sent) -> 1..CutBlocks]
  BY <1>13, <1>15, <1>16, <1>17, <1>18, <1>19, Zenon
<1>21. \E f \in [1..Len(r.sent) -> 1..CutBlocks] : Good(r.sent, f)
  BY <1>20, Zenon
<1>22. IsSeq(r.sent) /\ Len(r.sent) # 0
  BY <1>1, <1>13
<1>23. DOMAIN r.data = 0..(n - 1) /\ \A i \in r.offset..(n - 1) : r.data[i] = data[i]
  BY <1>7, <1>10, <1>11, Zenon
<1>24. Cutting(r, data, n, k + 1)
  BY <1>8, <1>21, <1>22, <1>23, Zenon DEF Cutting
<1> QED
  BY <1>24 DEF r

\* So the loop cuts all of the data, in as many turns as there are blocks at most.
LEMMA CutAll ==
    ASSUME NEW n \in Nat, NEW data, DOMAIN data = 0..(n - 1)
    PROVE  Cutting(Turns(data, n)[n], data, n, n)
<1> DEFINE S == {k \in Nat : k <= n => Cutting(Turns(data, n)[k], data, n, k)}
<1>1. 0 \in S
  <2>1. Turns(data, n)[0] = Start(data, n)
    BY TurnsDef
  <2> DEFINE s == Start(data, n)
  <2>2. s.data = data /\ s.bytes = n /\ s.offset = 0 /\ s.sent = <<>>
    BY DEF Start
  <2> HIDE DEF s
  <2>3. IsSeq(s.sent) /\ Len(s.sent) = 0
    BY <2>2 DEF IsSeq
  <2>4. ~(Len(s.sent) > 0) /\ \A i \in 1..Len(s.sent) : FALSE
    BY <2>3
  <2>5. PICK len : len \in [1..Len(s.sent) -> 1..CutBlocks]
    <3>1. 1 \in 1..CutBlocks
      BY FragmentAssumption
    <3>2. [i \in 1..Len(s.sent) |-> 1] \in [1..Len(s.sent) -> 1..CutBlocks]
      BY <3>1
    <3> QED
      BY <3>2, Zenon
  <2>6. /\ s.offset \in 0..n /\ s.bytes = n - s.offset /\ s.offset >= 0
        /\ \A i \in s.offset..(n - 1) : s.data[i] = data[i]
    BY <2>2
  <2>7. Cutting(s, data, n, 0)
    BY <2>2, <2>3, <2>4, <2>5, <2>6, Zenon DEF Cutting
  <2> QED
    BY <2>1, <2>7 DEF s
<1>2. ASSUME NEW k \in Nat, k \in S PROVE k + 1 \in S
  <2> SUFFICES ASSUME k + 1 <= n PROVE Cutting(Turns(data, n)[k + 1], data, n, k + 1)
    OBVIOUS
  <2> DEFINE s == Turns(data, n)[k]
  <2>1. Cutting(s, data, n, k)
    BY <1>2
  <2>2. Turns(data, n)[k + 1] = Turn(s)
    <3>1. k + 1 \in 1..n /\ (k + 1) - 1 = k
      OBVIOUS
    <3> QED
      BY <3>1, TurnsDef
  <2> HIDE DEF s
  <2>3. CASE s.bytes > 0
    BY <2>1, <2>2, <2>3, CutKeeps DEF Turn
  <2>4. CASE ~(s.bytes > 0)
    <3>1. s.offset = n
      BY <2>1, <2>4 DEF Cutting
    <3>2. Cutting(s, data, n, k + 1)
      BY <2>1, <3>1, Zenon DEF Cutting
    <3> QED
      BY <2>2, <2>4, <3>2 DEF Turn
  <2> QED
    BY <2>3, <2>4
<1> HIDE DEF S
<1>3. n \in S
  BY <1>1, <1>2, Induct
<1> QED
  BY <1>3 DEF S

\* What the loop sends can be put together.
LEMMA FragmentsFit ==
    ASSUME NEW n \in Nat \ {0}, NEW data, DOMAIN data = 0..(n - 1), NEW d, size[d] = n,
           \A i \in 0..(n - 1) : data[i] = <<d, i>>
    PROVE  PutsTogether(SendFragments(data, n), d)
<1> DEFINE s == Turns(data, n)[n]
           q == s.sent
           Behind(f) == f.off + Cardinality(DOMAIN f.blocks)
<1>1. Cutting(s, data, n, n) /\ SendFragments(data, n) = q
  BY CutAll DEF SendFragments
<1> HIDE DEF s
<1>2. s.offset = n /\ IsSeq(q) /\ Len(q) \in Nat /\ Len(q) # 0
  BY <1>1 DEF Cutting, IsSeq
<1>3. PICK len \in [1..Len(q) -> 1..CutBlocks] :
          /\ Len(q) > 0 => q[Len(q)].off + len[Len(q)] = n
          /\ \A i \in 1..Len(q) : InPlace(q, data, len, i)
          /\ \A i \in 1..Len(q) : q[i].off \in Nat /\ q[i].off + len[i] <= n
          /\ \A i \in 1..Len(q) : q[i].mf <=> (i < Len(q) \/ n < n)
  BY <1>1, <1>2, Zenon DEF Cutting
<1> HIDE DEF q
<1>4. CutBlocks \in Nat /\ Hlen \in Nat /\ Mtu \in Int /\ CutBlocks <= Mtu - Hlen
  BY FragmentAssumption
<1>5. ASSUME NEW i \in 1..Len(q)
      PROVE  /\ len[i] \in Nat /\ len[i] <= CutBlocks
             /\ DOMAIN q[i].blocks = 0..(len[i] - 1)
             /\ Cardinality(DOMAIN q[i].blocks) = len[i] /\ Behind(q[i]) = q[i].off + len[i]
  <2>1. len[i] \in 1..CutBlocks
    BY <1>3
  <2>2. DOMAIN q[i].blocks = 0..(len[i] - 1)
    BY <1>3, Zenon DEF InPlace, Carries
  <2>3. len[i] \in Nat /\ len[i] >= 1 /\ len[i] <= CutBlocks
    BY <1>4, <2>1
  <2>4. Cardinality(0..(len[i] - 1)) = len[i]
    BY <2>3, FS_Interval
  <2> QED
    BY <2>2, <2>3, <2>4
<1>6. q # <<>> /\ Behind(q[Len(q)]) = n
  BY <1>2, <1>3, <1>5
<1> HIDE DEF Behind
<1>7. ASSUME NEW i \in 1..Len(q)
      PROVE  /\ \A j \in DOMAIN q[i].blocks : q[i].blocks[j] = <<d, q[i].off + j>>
             /\ q[i].off = IF i = 1 THEN 0 ELSE Behind(q[i - 1])
             /\ q[i].mf <=> i < Len(q)
             /\ Hlen + Cardinality(DOMAIN q[i].blocks) <= Mtu
  <2>1. Hlen + Cardinality(DOMAIN q[i].blocks) <= Mtu
    BY <1>4, <1>5
  <2>2. q[i].off = IF i = 1 THEN 0 ELSE Behind(q[i - 1])
    <3>1. i # 1 => i - 1 \in 1..Len(q)
      BY <1>2
    <3> QED
      BY <1>3, <1>5, <3>1, Zenon DEF InPlace
  <2>3. q[i].mf <=> i < Len(q)
    <3>1. ~(n < n)
      OBVIOUS
    <3> QED
      BY <1>3, <3>1, Zenon
  <2>4. ASSUME NEW j \in DOMAIN q[i].blocks PROVE q[i].blocks[j] = <<d, q[i].off + j>>
    <3>1. Carries(q[i], data, len[i]) /\ q[i].off \in Nat /\ q[i].off + len[i] <= n
      BY <1>3, Zenon DEF InPlace
    <3>2. j \in 0..(len[i] - 1) /\ q[i].blocks[j] = data[q[i].off + j]
      BY <1>5, <3>1 DEF Carries
    <3>3. q[i].off + j \in 0..(n - 1)
      <4>1. \A a, b \in Nat : a + b <= n => \A c \in 0..(b - 1) : a + c \in 0..(n - 1)
        OBVIOUS
      <4> QED
        BY <1>5, <3>1, <3>2, <4>1, Zenon
    <3> QED
      BY <3>2, <3>3
  <2> QED
    BY <2>1, <2>2, <2>3, <2>4
<1> QED
  BY <1>1, <1>6, <1>7, Zenon DEF PutsTogether, Behind

\* A packet that was handed on whole goes back whole.
LEMMA WholeReply ==
    ASSUME NEW h, Whole(h), h.id \in Echoes, h.ip_len \in Nat,
           size[h.id] <= Mtu - Hlen \/ size[h.id] > Mtu
    PROVE  PutsTogether(Reply(h), h.id)
<1> DEFINE data == [i \in DOMAIN h.payload |-> <<h.payload[i], i>>]
           n == h.ip_len
           d == h.id
<1>1. /\ n \in Nat \ {0} /\ size[d] = n /\ DOMAIN h.payload = 0..(n - 1)
      /\ h.bsize + Hlen = n /\ Hlen \in Nat /\ Mtu \in Nat
      /\ \A j \in 0..(n - 1) : h.payload[j] = d
  BY FragmentAssumption DEF Whole
<1>2. DOMAIN data = 0..(n - 1) /\ \A i \in 0..(n - 1) : data[i] = <<d, i>>
  BY <1>1
<1>3. Reply(h) = IpSend(data, n)
  BY <1>1 DEF Reply
<1> HIDE DEF data, n, d
<1>4. CASE n > Mtu
  <2>1. Reply(h) = SendFragments(data, n)
    BY <1>3, <1>4 DEF IpSend
  <2> QED
    BY <1>1, <1>2, <2>1, FragmentsFit DEF d
<1>5. CASE n <= Mtu - Hlen
  <2> DEFINE f == [off |-> 0, mf |-> FALSE, blocks |-> data]
  <2>1. ~(n > Mtu) /\ ~(Hlen + n > Mtu) /\ Hlen + n <= Mtu
    BY <1>1, <1>5
  <2>2. Reply(h) = << f >>
    BY <1>3, <2>1, Zenon DEF IpSend
  <2>3. f.off = 0 /\ ~f.mf /\ f.blocks = data /\ DOMAIN f.blocks = 0..(n - 1)
    BY <1>2
  <2>4. Cardinality(DOMAIN f.blocks) = n
    BY <1>1, <2>3, FS_Interval
  <2> HIDE DEF f
  <2>5. ASSUME NEW j \in DOMAIN f.blocks PROVE f.blocks[j] = <<d, f.off + j>>
    <3>1. j \in 0..(n - 1) /\ f.off + j = j
      BY <1>1, <2>3
    <3> QED
      BY <1>2, <2>3, <3>1, Zenon
  <2> DEFINE q == << f >>
  <2>6. q # <<>> /\ Len(q) = 1 /\ q[1] = f
    OBVIOUS
  <2> HIDE DEF q
  <2>7. \A i \in 1..Len(q) : i = 1 /\ ~(i < Len(q))
    BY <2>6
  <2>8. f.off + Cardinality(DOMAIN f.blocks) = n
    BY <1>1, <2>3, <2>4
  <2>9. PutsTogether(q, d)
    BY <1>1, <2>1, <2>3, <2>4, <2>5, <2>6, <2>7, <2>8, Zenon DEF PutsTogether
  <2> QED
    BY <2>2, <2>9 DEF d, q
<1> QED
  BY <1>1, <1>4, <1>5 DEF n, d

\* An echo request that came in fragments, of any size but the ones between the MTU
\* less a header and the MTU, is answered with fragments that bring all of its data
\* back, for every MTU and every length of a fragment, when fragmap_init() clears
\* the whole map.  The proof is the loop invariant of ip_send_fragments(): the data
\* are moved to the front of the buffer only over such as have been sent.
THEOREM EchoReturned ==
    ASSUME AllCleared
    PROVE  Spec => []EchoComesBack
<1>1. WholeInv => EchoComesBack
  <2> SUFFICES ASSUME WholeInv, NEW i \in 1..Len(handed), handed[i].id \in Echoes,
                      size[handed[i].id] <= Mtu - Hlen \/ size[handed[i].id] > Mtu
               PROVE  PutsTogether(Reply(handed[i]), handed[i].id)
    BY Zenon DEF EchoComesBack
  <2>1. handed \in Seq(HandedOn) /\ Whole(handed[i])
    BY DEF WholeInv
  <2>2. handed[i] \in HandedOn
    BY <2>1
  <2>3. handed[i].ip_len \in Nat
    BY <2>2 DEF HandedOn
  <2> QED
    BY <2>1, <2>3, WholeReply
<1>2. BufferInv /\ WholeInv /\ [Next]_vars => WholeInv'
  BY WholeNext
<1> QED
  BY <1>1, <1>2, WholeInit, BufferInit, BufferNext, PTL DEF Spec
=============================================================================

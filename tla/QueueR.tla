------------------------------- MODULE QueueR -------------------------------
(***************************************************************************)
(* The lock-free single-writer single-reader ring of include/queue_r.h, as *)
(* src/nstack.c and src/socket.c use it: one process pushes datagrams into *)
(* blocks of shared memory, another one pops them, and nothing but the two *)
(* indices m_write and m_read keeps them apart.                            *)
(*                                                                         *)
(* Every access to memory the other side also accesses is a step: the load *)
(* of the other side's index, the stores that fill a block (header and     *)
(* payload apart), the loads that copy it out, and the store that          *)
(* publishes an index.  The build does not optimise (-O0) and stores are   *)
(* seen in program order on the targets it runs on, so interleaving these  *)
(* steps is what the two processes can do to one another.                  *)
(*                                                                         *)
(* Either process may also go away between any two steps (PushAbandon,     *)
(* PopAbandon): the indices and the blocks are in a shared file and        *)
(* survive, the local variables of the call do not.                        *)
(***************************************************************************)
EXTENDS Integers, Sequences

CONSTANTS ALen,      \* a_len, the number of blocks
          Data,      \* contents of a datagram, header and payload alike
          NoData     \* contents of a block nobody has written

ASSUME ALenAssumption == ALen \in Nat \ {0}
ASSUME NoDataAssumption == NoData \notin Data

VARIABLES
    m_write,   \* queue_cb.m_write, stored by the push end only
    m_read,    \* queue_cb.m_read, stored by the pop end only
    data,      \* the blocks of the data array
    push_pc, push_at, push_dgram,        \* locals of the push end
    pop_pc, pop_at, pop_hdr, pop_body,   \* locals of the pop end
    out        \* the datagram last handed to the caller of the pop end

pushVars == <<push_pc, push_at, push_dgram>>
popVars  == <<pop_pc, pop_at, pop_hdr, pop_body>>
vars     == <<m_write, m_read, data, pushVars, popVars, out>>

Index == 0..(ALen - 1)
Cell  == Data \cup {NoData}
Block == [hdr : Cell, body : Cell]

NoBlock  == [hdr |-> NoData, body |-> NoData]
Whole(d) == [hdr |-> d, body |-> d]

\* The index after i in the ring.
NextIndex(i) == (i + 1) % ALen
-----------------------------------------------------------------------------
\* queue_create() over memory that nstack_init() has zeroed.
Init ==
    /\ m_write = 0 /\ m_read = 0
    /\ data = [i \in Index |-> NoBlock]
    /\ push_pc = "idle" /\ push_at = 0 /\ push_dgram = NoData
    /\ pop_pc = "idle" /\ pop_at = 0 /\ pop_hdr = NoData /\ pop_body = NoData
    /\ out = NoBlock
-----------------------------------------------------------------------------
(* The push end: queue_alloc(), fill the block, queue_commit().            *)

\* Mutant: the test for a full ring forgets to wrap the next index.
QueueAllocNoWrap(d) ==
    /\ push_pc = "idle"
    /\ m_write + 1 # m_read
    /\ push_pc' = "hdr"
    /\ push_at' = m_write
    /\ push_dgram' = d
    /\ UNCHANGED <<m_write, m_read, data, popVars, out>>

\* The full ring makes queue_alloc() return -1, and its callers then call it
\* again: nothing changes until the test on m_read comes out the other way.
QueueAlloc(d) ==
    /\ push_pc = "idle"
    /\ NextIndex(m_write) # m_read
    /\ push_pc' = "hdr"
    /\ push_at' = m_write
    /\ push_dgram' = d
    /\ UNCHANGED <<m_write, m_read, data, popVars, out>>

\* The addresses and the size of the datagram.
WriteHeader ==
    /\ push_pc = "hdr"
    /\ data' = [data EXCEPT ![push_at].hdr = push_dgram]
    /\ push_pc' = "body"
    /\ UNCHANGED <<m_write, m_read, push_at, push_dgram, popVars, out>>

\* The payload of the datagram.
WritePayload ==
    /\ push_pc = "body"
    /\ data' = [data EXCEPT ![push_at].body = push_dgram]
    /\ push_pc' = "commit"
    /\ UNCHANGED <<m_write, m_read, push_at, push_dgram, popVars, out>>

\* Mutant: the write index is not wrapped.
QueueCommitNoWrap ==
    /\ push_pc = "commit"
    /\ m_write' = m_write + 1
    /\ push_pc' = "idle"
    /\ UNCHANGED <<m_read, data, push_at, push_dgram, popVars, out>>

QueueCommit ==
    /\ push_pc = "commit"
    /\ m_write' = NextIndex(m_write)
    /\ push_pc' = "idle"
    /\ UNCHANGED <<m_read, data, push_at, push_dgram, popVars, out>>

\* The pushing process dies in the middle of the call.
PushAbandon ==
    /\ push_pc # "idle"
    /\ push_pc' = "idle"
    /\ UNCHANGED <<m_write, m_read, data, push_at, push_dgram, popVars, out>>
-----------------------------------------------------------------------------
(* The pop end: queue_peek(), use the block, queue_discard(1).             *)

\* Mutant: no test for an empty ring.
QueuePeekUnchecked ==
    /\ pop_pc = "idle"
    /\ pop_pc' = "hdr"
    /\ pop_at' = m_read
    /\ UNCHANGED <<m_write, m_read, data, pushVars, pop_hdr, pop_body, out>>

\* An empty ring makes queue_peek() return 0 and the caller wait.
QueuePeek ==
    /\ pop_pc = "idle"
    /\ m_read # m_write
    /\ pop_pc' = "hdr"
    /\ pop_at' = m_read
    /\ UNCHANGED <<m_write, m_read, data, pushVars, pop_hdr, pop_body, out>>

ReadHeader ==
    /\ pop_pc = "hdr"
    /\ pop_hdr' = data[pop_at].hdr
    /\ pop_pc' = "body"
    /\ UNCHANGED <<m_write, m_read, data, pushVars, pop_at, pop_body, out>>

ReadPayload ==
    /\ pop_pc = "body"
    /\ pop_body' = data[pop_at].body
    /\ pop_pc' = "discard"
    /\ UNCHANGED <<m_write, m_read, data, pushVars, pop_at, pop_hdr, out>>

\* queue_discard() tests for an empty ring again before it moves m_read.
QueueDiscard ==
    /\ pop_pc = "discard"
    /\ m_read' = IF m_read = m_write THEN m_read ELSE NextIndex(m_read)
    /\ out' = [hdr |-> pop_hdr, body |-> pop_body]
    /\ pop_pc' = "idle"
    /\ UNCHANGED <<m_write, data, pushVars, pop_at, pop_hdr, pop_body>>

\* nstack_recvfrom() with NSTACK_MSG_PEEK returns without discarding.
ReturnPeeked ==
    /\ pop_pc = "discard"
    /\ out' = [hdr |-> pop_hdr, body |-> pop_body]
    /\ pop_pc' = "idle"
    /\ UNCHANGED <<m_write, m_read, data, pushVars, pop_at, pop_hdr, pop_body>>

\* queue_clear_from_pop_end() loads m_write ...
ClearLoad ==
    /\ pop_pc = "idle"
    /\ pop_pc' = "clear"
    /\ pop_at' = m_write
    /\ UNCHANGED <<m_write, m_read, data, pushVars, pop_hdr, pop_body, out>>

\* ... and stores it into m_read: what was committed in between is kept.
ClearStore ==
    /\ pop_pc = "clear"
    /\ m_read' = pop_at
    /\ pop_pc' = "idle"
    /\ UNCHANGED <<m_write, data, pushVars, pop_at, pop_hdr, pop_body, out>>

\* The popping process dies in the middle of the call.
PopAbandon ==
    /\ pop_pc # "idle"
    /\ pop_pc' = "idle"
    /\ UNCHANGED <<m_write, m_read, data, pushVars, pop_at, pop_hdr, pop_body, out>>
-----------------------------------------------------------------------------
PushNext ==
    \/ \E d \in Data : QueueAlloc(d)
    \/ WriteHeader
    \/ WritePayload
    \/ QueueCommit
    \/ PushAbandon

PopNext ==
    \/ QueuePeek
    \/ ReadHeader
    \/ ReadPayload
    \/ QueueDiscard
    \/ ReturnPeeked
    \/ ClearLoad
    \/ ClearStore
    \/ PopAbandon

Next == PushNext \/ PopNext

Spec == Init /\ [][Next]_vars
-----------------------------------------------------------------------------
TypeOK ==
    /\ m_write \in Index /\ m_read \in Index
    /\ data \in [Index -> Block]
    /\ push_pc \in {"idle", "hdr", "body", "commit"}
    /\ push_at \in Index /\ push_dgram \in Cell
    /\ pop_pc \in {"idle", "hdr", "body", "discard", "clear"}
    /\ pop_at \in Index /\ pop_hdr \in Cell /\ pop_body \in Cell
    /\ out \in Block

\* The pop end has a block, from queue_peek() to queue_discard().
Reading == {"hdr", "body", "discard"}

\* A push end that owns a block and a pop end that is using one never have
\* the same block: with no lock in queue_r.h this rests on queue_alloc()
\* keeping one block empty and on who stores which index.
BlockExclusion ==
    push_pc # "idle" /\ pop_pc \in Reading => push_at # pop_at

\* What the pop end hands to its caller is one datagram as it was pushed,
\* never the header of one and the payload of another.
NeverTorn == out = NoBlock \/ out \in {Whole(d) : d \in Data}
-----------------------------------------------------------------------------
(* The ring as the abstract queue: the committed blocks, oldest first.     *)

\* How many blocks are committed and not discarded.
Used == IF m_read <= m_write THEN m_write - m_read ELSE ALen - m_read + m_write

\* The index of the i-th committed block.
SlotAt(i) ==
    IF m_read + i - 1 < ALen THEN m_read + i - 1 ELSE m_read + i - 1 - ALen

Contents == [i \in 1..Used |-> data[SlotAt(i)]]

F == INSTANCE Fifo WITH queue <- Contents, Dgrams <- {Whole(d) : d \in Data},
                        Capacity <- ALen - 1, NoOut <- NoBlock

\* Pushing and popping through the ring is enqueueing and dequeueing on a
\* FIFO of ALen - 1 datagrams: nothing is lost, duplicated, reordered or
\* torn, whatever the two ends interleave and wherever either of them dies, and
\* clearing from the pop end drops the oldest datagrams only.
ImplementsFifo == F!Spec
-----------------------------------------------------------------------------
(* The inductive invariant behind the three properties.                    *)

\* Index i holds a datagram that is committed and not discarded.
Committed(i) ==
    IF m_read <= m_write THEN m_read <= i /\ i < m_write
                         ELSE m_read <= i \/ i < m_write

\* The push end works on the block at m_write, and the ring was not full.
PushInv ==
    /\ push_pc # "idle" => /\ push_at = m_write
                           /\ NextIndex(m_write) # m_read
                           /\ push_dgram \in Data
    /\ push_pc \in {"body", "commit"} => data[push_at].hdr = push_dgram
    /\ push_pc = "commit" => data[push_at].body = push_dgram

\* The pop end works on the block at m_read, and the ring was not empty; what
\* a clear has loaded is still between m_read and m_write.
PopInv ==
    /\ pop_pc \in Reading => pop_at = m_read /\ m_read # m_write
    /\ pop_pc = "clear" => Committed(pop_at) \/ pop_at = m_write
    /\ pop_pc \in {"body", "discard"} => pop_hdr = data[pop_at].hdr
    /\ pop_pc = "discard" => pop_body = data[pop_at].body

\* A committed block holds one whole datagram.
BlocksWhole == \A i \in Index : Committed(i) => data[i] \in {Whole(d) : d \in Data}

\* Every conjunct is needed: which block each end is on gives the exclusion,
\* and the exclusion is what keeps committed blocks whole until they are read.
RingInv == TypeOK /\ PushInv /\ PopInv /\ BlocksWhole /\ NeverTorn
=============================================================================

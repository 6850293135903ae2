-------------------------------- MODULE Fifo --------------------------------
(***************************************************************************)
(* What a datagram queue in the shared memory of a socket promises to the  *)
(* two processes at its ends: a bounded first-in first-out queue whose     *)
(* operations are single steps.  include/queue_r.h is the implementation   *)
(* (module QueueR); the modules of the socket layer are built on this one. *)
(***************************************************************************)
EXTENDS Integers, Sequences

CONSTANTS Dgrams,     \* what can be queued
          Capacity,   \* how many datagrams fit
          NoOut       \* value of "out" before anything has been read

VARIABLES queue,      \* the datagrams committed and not yet discarded
          out         \* the datagram the reader was handed last

fifoVars == <<queue, out>>

Init ==
    /\ queue = <<>>
    /\ out = NoOut

\* The writer's datagram becomes visible to the reader.
Enqueue(d) ==
    /\ Len(queue) < Capacity
    /\ queue' = Append(queue, d)
    /\ UNCHANGED out

\* The reader is handed the oldest datagram, which leaves the queue.
Dequeue ==
    /\ queue # <<>>
    /\ out' = Head(queue)
    /\ queue' = Tail(queue)

\* The reader is handed the oldest datagram, which stays in the queue.
Peek ==
    /\ queue # <<>>
    /\ out' = Head(queue)
    /\ UNCHANGED queue

\* The reader throws away some of the oldest datagrams without reading them.
DropOldest ==
    /\ \E k \in 1..Len(queue) : queue' = SubSeq(queue, k + 1, Len(queue))
    /\ UNCHANGED out

Next ==
    \/ \E d \in Dgrams : Enqueue(d)
    \/ Dequeue
    \/ Peek
    \/ DropOldest

Spec == Init /\ [][Next]_fifoVars
=============================================================================

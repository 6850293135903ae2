------------------------------ MODULE SocketRx ------------------------------
(***************************************************************************)
(* The receive side of a socket: the ingress thread of inetd hands         *)
(* datagrams to a reader process through the ingress queue in shared       *)
(* memory and wakes it with SIGUSR2 (nstack_sock_dgram_input() in          *)
(* src/nstack.c); the reader attaches with nstack_listen() and reads with  *)
(* nstack_recvfrom() (src/socket.c).  Readers may die and be replaced: the *)
(* queue and the pid_end field are in the shared file and stay.            *)
(*                                                                         *)
(* The queue is the FIFO that QueueR implements.  Datagrams are numbered   *)
(* in the order the ingress thread is given them.                          *)
(***************************************************************************)
EXTENDS Integers, Sequences

CONSTANTS Capacity,    \* datagrams the ingress queue holds, a_len - 1
          MaxDgrams,   \* bound: datagrams that arrive for the socket
          MaxReaders,  \* bound: reader processes that are started
          MaxPeeks     \* bound: calls with NSTACK_MSG_PEEK

ASSUME BoundsAssumption ==
    /\ Capacity \in Nat \ {0} /\ MaxDgrams \in Nat
    /\ MaxReaders \in Nat /\ MaxPeeks \in Nat

VARIABLES
    queue,      \* the ingress queue
    inetd,      \* "up", or "killed" by its own signal
    in_pc,      \* the ingress thread: "frame", "alloc" or "kill"
    arrived,    \* number of the last datagram handed to the socket
    pid_end,    \* the field of the control block: 0 or a reader
    reader,     \* number of the latest reader process
    pc,         \* where that process is, "dead" when it is not running
    pending,    \* SIGUSR2 is pending for it
    copied,     \* the datagram its call has copied
    peeks,      \* calls made with NSTACK_MSG_PEEK
    got         \* the datagrams readers took out of the queue, in order

daemonVars == <<inetd, in_pc, arrived>>
readerVars == <<reader, pc, pending, copied, peeks, got>>
vars == <<queue, pid_end, daemonVars, readerVars>>

Gone     == {"dead", "shot"}                                \* no such process
Attached == {"masked", "idle", "wait", "peek", "copied"}    \* SIGUSR2 is blocked

Init ==
    /\ queue = <<>> /\ pid_end = 0
    /\ inetd = "up" /\ in_pc = "frame" /\ arrived = 0
    /\ reader = 0 /\ pc = "dead" /\ pending = FALSE /\ copied = 0 /\ peeks = 0
    /\ got = <<>>
-----------------------------------------------------------------------------
(* The ingress thread, in nstack_sock_dgram_input().                       *)

\* A datagram for this socket comes up the input chain.
DgramInput ==
    /\ inetd = "up" /\ in_pc = "frame"
    /\ arrived < MaxDgrams
    /\ arrived' = arrived + 1
    /\ in_pc' = "alloc"
    /\ UNCHANGED <<queue, pid_end, inetd, readerVars>>

\* It spins on queue_alloc() until there is room, then fills and commits.
DgramCommit ==
    /\ inetd = "up" /\ in_pc = "alloc"
    /\ Len(queue) < Capacity
    /\ queue' = Append(queue, arrived)
    /\ in_pc' = "kill"
    /\ UNCHANGED <<pid_end, inetd, arrived, readerVars>>

\* kill(pid_end, SIGUSR2).  With pid_end still 0 the signal goes to inetd's
\* own process group, and SIGUSR2 is not blocked in inetd's main thread: its
\* default action ends the daemon.  A process that is gone gets nothing, one
\* that has not blocked the signal yet is ended by it.
SignalReader ==
    /\ inetd = "up" /\ in_pc = "kill"
    /\ in_pc' = "frame"
    /\ inetd' = IF pid_end = 0 THEN "killed" ELSE inetd
    /\ pc' = IF pid_end = reader /\ pc = "start" THEN "shot" ELSE pc
    /\ pending' = (pending \/ (pid_end = reader /\ pc \in Attached))
    /\ UNCHANGED <<queue, pid_end, arrived, reader, copied, peeks, got>>
-----------------------------------------------------------------------------
(* The reader process.                                                     *)

StartReader ==
    /\ pc = "dead" /\ reader < MaxReaders
    /\ reader' = reader + 1
    /\ pc' = "start" /\ pending' = FALSE /\ copied' = 0
    /\ UNCHANGED <<queue, pid_end, daemonVars, peeks, got>>

\* A reader may die anywhere; the last one the bound allows stays.
Die ==
    /\ pc \notin Gone /\ reader < MaxReaders
    /\ pc' = "dead"
    /\ UNCHANGED <<queue, pid_end, daemonVars, reader, pending, copied, peeks, got>>

\* nstack_listen() blocks the signal ...
BlockSigusr2 ==
    /\ pc = "start"
    /\ pc' = "masked"
    /\ UNCHANGED <<queue, pid_end, daemonVars, reader, pending, copied, peeks, got>>

\* Mutant: the reader registers before it has blocked the signal.
RegisterFirst ==
    /\ \/ pc = "start" /\ pid_end # reader /\ pid_end' = reader /\ UNCHANGED pc
       \/ pc = "masked" /\ pc' = "idle" /\ UNCHANGED pid_end
    /\ UNCHANGED <<queue, daemonVars, reader, pending, copied, peeks, got>>

\* ... and then makes itself known.
RegisterPid ==
    /\ pc = "masked"
    /\ pid_end' = reader
    /\ pc' = "idle"
    /\ UNCHANGED <<queue, daemonVars, reader, pending, copied, peeks, got>>

\* nstack_recvfrom() waits before it looks at the queue.
Recvfrom ==
    /\ pc = "idle"
    /\ pc' = "wait"
    /\ UNCHANGED <<queue, pid_end, daemonVars, reader, pending, copied, peeks, got>>

\* sigtimedwait() takes a pending signal.
WakeBySignal ==
    /\ pc = "wait" /\ pending
    /\ pending' = FALSE
    /\ pc' = "peek"
    /\ UNCHANGED <<queue, pid_end, daemonVars, reader, copied, peeks, got>>

\* Mutant: the wait has no timeout.
WakeNever == pc = "wait" /\ ~pending /\ UNCHANGED vars

\* sigtimedwait() gives up after NSTACK_PERIODIC_EVENT_SEC.
WakeByTimeout ==
    /\ pc = "wait" /\ ~pending
    /\ pc' = "peek"
    /\ UNCHANGED <<queue, pid_end, daemonVars, reader, pending, copied, peeks, got>>

\* queue_peek(); on an empty queue the call waits again.
PeekQueue ==
    /\ pc = "peek"
    /\ IF queue = <<>>
         THEN pc' = "wait" /\ UNCHANGED copied
         ELSE pc' = "copied" /\ copied' = Head(queue)
    /\ UNCHANGED <<queue, pid_end, daemonVars, reader, pending, peeks, got>>

\* Mutant: the call discards the newest datagram, not the one it has copied.
DiscardOther ==
    /\ pc = "copied"
    /\ queue' = SubSeq(queue, 1, Len(queue) - 1)
    /\ got' = Append(got, copied)
    /\ pc' = "idle"
    /\ UNCHANGED <<pid_end, daemonVars, reader, pending, copied, peeks>>

\* queue_discard(1) and return.
DiscardAndReturn ==
    /\ pc = "copied"
    /\ queue' = Tail(queue)
    /\ got' = Append(got, copied)
    /\ pc' = "idle"
    /\ UNCHANGED <<pid_end, daemonVars, reader, pending, copied, peeks>>

\* With NSTACK_MSG_PEEK the datagram stays queued.
ReturnPeeked ==
    /\ pc = "copied" /\ peeks < MaxPeeks
    /\ peeks' = peeks + 1
    /\ pc' = "idle"
    /\ UNCHANGED <<queue, pid_end, daemonVars, reader, pending, copied, got>>
-----------------------------------------------------------------------------
IngressNext == DgramInput \/ DgramCommit \/ SignalReader

\* What a reader does once it is started: attach, then read in a loop as
\* tests/unetcat.c does.
ReaderStep ==
    \/ BlockSigusr2 \/ RegisterPid
    \/ Recvfrom \/ WakeBySignal \/ WakeByTimeout \/ PeekQueue \/ DiscardAndReturn

Next == IngressNext \/ StartReader \/ Die \/ ReaderStep \/ ReturnPeeked

\* inetd's thread and the reader are scheduled by the kernel, sigtimedwait()
\* does return after its timeout, and a dead reader is started again.  Nothing
\* is assumed about new traffic, about when readers die, or that a signal
\* arrives before the timeout.
Fairness ==
    /\ WF_vars(DgramCommit) /\ WF_vars(SignalReader)
    /\ WF_vars(StartReader) /\ WF_vars(ReaderStep)

Spec == Init /\ [][Next]_vars /\ Fairness
-----------------------------------------------------------------------------
\* Types: the ingress queue never holds more than its ring has room for, and
\* the ingress thread and the reader are each at a point of their code.
TypeOK ==
    /\ queue \in Seq(1..MaxDgrams) /\ Len(queue) <= Capacity
    /\ inetd \in {"up", "killed"} /\ in_pc \in {"frame", "alloc", "kill"}
    /\ arrived \in 0..MaxDgrams /\ pid_end \in 0..MaxReaders
    /\ reader \in 0..MaxReaders
    /\ pc \in Gone \cup {"start"} \cup Attached
    /\ pending \in BOOLEAN /\ copied \in 0..MaxDgrams /\ peeks \in 0..MaxPeeks
    /\ got \in Seq(1..MaxDgrams)

\* Over all reader processes, what was taken out of the queue and what is
\* still in it are the datagrams inetd committed, each once and in order: a
\* reader that dies between queue_peek() and queue_discard() leaves its
\* datagram to the next one.
NothingLostBetweenReaders ==
    got \o queue = [i \in 1..(IF in_pc = "alloc" THEN arrived - 1 ELSE arrived) |-> i]

\* The wake-up signal never ends a reader: pid_end is stored only after the
\* reader has blocked SIGUSR2.
ReaderNotShot == pc # "shot"

\* Every committed datagram is read in the end, although signals are lost on
\* dead readers, sent before anybody is registered, and merge into one while
\* they are pending: the timeout of sigtimedwait() makes up for all of it.
\* This holds even for the datagram whose signal ends inetd.
EveryDgramRead ==
    \A d \in 1..MaxDgrams :
        (\E i \in DOMAIN queue : queue[i] = d) ~> (\E i \in DOMAIN got : got[i] = d)

\* The ingress thread, which spins on a full queue and serves no other
\* traffic meanwhile, gets away from it.
IngressNotStuck == (in_pc = "alloc") ~> (in_pc # "alloc")
=============================================================================

--------------------------- MODULE NstackThreads ----------------------------
(***************************************************************************)
(* The threads of inetd (src/nstack.c): nstack_start() and nstack_stop(),  *)
(* the ingress, egress and TCP timer threads, the send side of the sockets *)
(* (nstack_sendto() in src/socket.c) and the egress queues between the     *)
(* applications and the egress thread.                                     *)
(*                                                                         *)
(* A queue is the FIFO that QueueR implements.  Of an ingress queue only   *)
(* the number of datagrams matters here: module SocketRx is about it.  The *)
(* input chain and the protocols' send functions are modules of their own. *)
(* What the threads share in them and may wait for is the mutex of a TCP   *)
(* connection: tcp_send_segments() returns with it locked when ip_send()   *)
(* fails, and whoever locks it next, in any thread, waits for ever.        *)
(***************************************************************************)
EXTENDS Integers, Sequences

CONSTANTS NSock,      \* entries of sockets[]
          TcpSocks,   \* those of protocol XIP_PROTO_TCP
          Capacity,   \* datagrams a queue holds, a_len - 1
          MaxSend     \* bound: datagrams an application sends on a socket

ASSUME ThreadsAssumption ==
    /\ NSock \in Nat \ {0} /\ Capacity \in Nat \ {0} /\ MaxSend \in Nat
    /\ TcpSocks \subseteq 1..NSock

VARIABLES
    state,     \* nstack_state
    main_pc,   \* the main thread
    failed,    \* nstack_start() has failed and cancelled its threads
    in_pc,     \* nstack_ingress_thread()
    eg_pc,     \* nstack_egress_thread()
    eg_sock,   \* the socket its loop is at
    tmr_pc,    \* nstack_tcp_timer_thread()
    inq,       \* datagrams in the ingress queue of the socket that has traffic
    egq,       \* egress queue of each socket
    accepted,  \* datagrams nstack_sendto() has committed on each socket
    handed,    \* datagrams given to the send function of each socket's protocol
    leaked     \* TCP sockets with a connection whose mutex was left locked

threadVars == <<in_pc, eg_pc, eg_sock, tmr_pc>>
queueVars  == <<inq, egq, accepted, handed>>
vars == <<state, main_pc, failed, threadVars, queueVars, leaked>>

Socks == 1..NSock

Init ==
    /\ state = "STOPPED" /\ main_pc = "init" /\ failed = FALSE
    /\ in_pc = "none" /\ eg_pc = "none" /\ eg_sock = 1 /\ tmr_pc = "none"
    /\ inq = 0 /\ egq = [s \in Socks |-> <<>>]
    /\ accepted = [s \in Socks |-> 0] /\ handed = [s \in Socks |-> <<>>]
    /\ leaked = {}
-----------------------------------------------------------------------------
(* nstack_start().                                                         *)

\* nstack_init() wipes the shared memory of the sockets, and with it what
\* applications have sent before.
NstackInit ==
    /\ main_pc = "init" /\ state = "STOPPED"
    /\ inq' = 0 /\ egq' = [s \in Socks |-> <<>>] /\ accepted' = [s \in Socks |-> 0]
    /\ main_pc' = "start"
    /\ UNCHANGED <<failed, state, threadVars, handed, leaked>>

CreateIngress ==
    /\ main_pc = "start"
    /\ in_pc' = "rx" /\ main_pc' = "egress"
    /\ UNCHANGED <<failed, state, eg_pc, eg_sock, tmr_pc, queueVars, leaked>>

CreateEgress ==
    /\ main_pc = "egress"
    /\ eg_pc' = "sleep" /\ main_pc' = "timer"
    /\ UNCHANGED <<failed, state, in_pc, eg_sock, tmr_pc, queueVars, leaked>>

CreateTimer ==
    /\ main_pc = "timer"
    /\ tmr_pc' = "sleep" /\ main_pc' = "setrun"
    /\ UNCHANGED <<failed, state, in_pc, eg_pc, eg_sock, queueVars, leaked>>

\* pthread_create() fails: the threads made so far are cancelled and -1 is
\* returned, which main() does not look at.
CreateFails ==
    /\ main_pc \in {"start", "egress", "timer"}
    /\ failed' = TRUE /\ main_pc' = "sigwait"
    /\ UNCHANGED <<state, threadVars, queueVars, leaked>>

SetRunning ==
    /\ main_pc = "setrun"
    /\ state' = "RUNNING" /\ main_pc' = "sigwait"
    /\ UNCHANGED <<failed, threadVars, queueVars, leaked>>
-----------------------------------------------------------------------------
(* SIGUSR1 ends sigwaitinfo() in main(), which calls nstack_stop().        *)

Stop ==
    /\ main_pc = "sigwait"
    /\ state' = "DYING" /\ main_pc' = "join_ingress"
    /\ UNCHANGED <<failed, threadVars, queueVars, leaked>>

\* The thread each pthread_join() of nstack_stop() waits for, and what follows.
Joined == [join_ingress |-> in_pc, join_egress |-> eg_pc, join_timer |-> tmr_pc]
After  == [join_ingress |-> "join_egress", join_egress |-> "join_timer", join_timer |-> "stopped"]

\* The last one is for the timer thread, and no step of that ends its loop.
Join ==
    /\ main_pc \in DOMAIN Joined /\ Joined[main_pc] = "exited"
    /\ main_pc' = After[main_pc]
    /\ state' = IF main_pc = "join_timer" THEN "STOPPED" ELSE state
    /\ UNCHANGED <<failed, threadVars, queueVars, leaked>>

\* pthread_join() of a thread that was never created is undefined.
JoinNothing ==
    /\ main_pc \in DOMAIN Joined /\ Joined[main_pc] = "none"
    /\ main_pc' = "undefined"
    /\ UNCHANGED <<state, failed, threadVars, queueVars, leaked>>
-----------------------------------------------------------------------------
(* The ingress thread.                                                     *)

\* ether_receive() returns: a frame without a datagram for a socket, which may
\* end a connection, a read error, or nothing within its timeout.
IngressOther ==
    /\ in_pc = "rx"
    /\ in_pc' = "check"
    /\ leaked' \in {leaked} \cup {leaked \ {s} : s \in leaked}
    /\ UNCHANGED <<failed, state, main_pc, eg_pc, eg_sock, tmr_pc, queueVars>>

\* A segment that acknowledges data: tcp_ack_segments() locks the mutex.
IngressBlocks ==
    /\ in_pc = "rx" /\ leaked # {}
    /\ in_pc' = "blocked"
    /\ UNCHANGED <<failed, state, main_pc, eg_pc, eg_sock, tmr_pc, queueVars, leaked>>

\* A frame brings a datagram for a socket ...
IngressDgram ==
    /\ in_pc = "rx"
    /\ in_pc' = "alloc"
    /\ UNCHANGED <<failed, state, main_pc, eg_pc, eg_sock, tmr_pc, queueVars, leaked>>

\* ... and nstack_sock_dgram_input() spins until the ingress queue has room.
IngressCommit ==
    /\ in_pc = "alloc" /\ inq < Capacity
    /\ inq' = inq + 1
    /\ in_pc' = "check"
    /\ UNCHANGED <<failed, state, main_pc, eg_pc, eg_sock, tmr_pc, egq, accepted, handed, leaked>>

\* Mutant: the thread does not look at the state.
IngressCheckNever ==
    /\ in_pc = "check"
    /\ in_pc' = "rx"
    /\ UNCHANGED <<failed, state, main_pc, eg_pc, eg_sock, tmr_pc, queueVars, leaked>>

\* The end of the loop: periodic tasks, which the modules of their components
\* model, and the test of the state.
IngressCheck ==
    /\ in_pc = "check"
    /\ in_pc' = IF state = "DYING" THEN "exited" ELSE "rx"
    /\ UNCHANGED <<failed, state, main_pc, eg_pc, eg_sock, tmr_pc, queueVars, leaked>>

\* pthread_cancel() takes effect at the next cancellation point, recvfrom().
IngressCancelled ==
    /\ failed /\ in_pc = "rx"
    /\ in_pc' = "exited"
    /\ UNCHANGED <<failed, state, main_pc, eg_pc, eg_sock, tmr_pc, queueVars, leaked>>
-----------------------------------------------------------------------------
(* The egress thread: one datagram of each socket for every wake-up.       *)

\* sigtimedwait() returns.  nstack_sendto() sends no signal, so what ends it
\* is its timeout of NSTACK_PERIODIC_EVENT_SEC.
EgressWake ==
    /\ eg_pc = "sleep"
    /\ eg_pc' = "scan" /\ eg_sock' = 1
    /\ UNCHANGED <<failed, state, main_pc, in_pc, tmr_pc, queueVars, leaked>>

\* Mutant: the scan ends at the first socket that has nothing to send.
EgressSkipStops ==
    /\ eg_pc = "scan" /\ eg_sock \in Socks
    /\ egq[eg_sock] = <<>>
    /\ eg_sock' = NSock + 1
    /\ UNCHANGED <<failed, state, main_pc, in_pc, eg_pc, tmr_pc, queueVars, leaked>>

EgressSkip ==
    /\ eg_pc = "scan" /\ eg_sock \in Socks
    /\ egq[eg_sock] = <<>>
    /\ eg_sock' = eg_sock + 1
    /\ UNCHANGED <<failed, state, main_pc, in_pc, eg_pc, tmr_pc, queueVars, leaked>>

\* queue_peek() and proto_send[].  Whether that fails makes no difference to the
\* caller, but on a TCP socket the failure of ip_send() leaves a mutex locked, ...
EgressSend ==
    /\ eg_pc = "scan" /\ eg_sock \in Socks
    /\ egq[eg_sock] # <<>>
    /\ handed' = [handed EXCEPT ![eg_sock] = Append(@, Head(egq[eg_sock]))]
    /\ eg_pc' = "discard"
    /\ leaked' \in {leaked} \cup ({leaked \cup {eg_sock}} \cap SUBSET TcpSocks)
    /\ UNCHANGED <<failed, state, main_pc, in_pc, eg_sock, tmr_pc, inq, egq, accepted>>

\* ... and the next datagram for that connection is not returned from.
EgressBlocks ==
    /\ eg_pc = "scan" /\ eg_sock \in Socks
    /\ egq[eg_sock] # <<>> /\ eg_sock \in leaked
    /\ handed' = [handed EXCEPT ![eg_sock] = Append(@, Head(egq[eg_sock]))]
    /\ eg_pc' = "blocked"
    /\ UNCHANGED <<failed, state, main_pc, in_pc, eg_sock, tmr_pc, inq, egq, accepted, leaked>>

\* Mutant: everything queued is discarded after one send.
EgressDiscardAll ==
    /\ eg_pc = "discard"
    /\ egq' = [egq EXCEPT ![eg_sock] = <<>>]
    /\ eg_pc' = "scan" /\ eg_sock' = eg_sock + 1
    /\ UNCHANGED <<failed, state, main_pc, in_pc, tmr_pc, inq, accepted, handed, leaked>>

EgressDiscard ==
    /\ eg_pc = "discard"
    /\ egq' = [egq EXCEPT ![eg_sock] = Tail(@)]
    /\ eg_pc' = "scan" /\ eg_sock' = eg_sock + 1
    /\ UNCHANGED <<failed, state, main_pc, in_pc, tmr_pc, inq, accepted, handed, leaked>>

EgressCheck ==
    /\ eg_pc = "scan" /\ eg_sock > NSock
    /\ eg_pc' = IF state = "DYING" THEN "exited" ELSE "sleep"
    /\ UNCHANGED <<failed, state, main_pc, in_pc, eg_sock, tmr_pc, queueVars, leaked>>

\* Its cancellation point is sigtimedwait().
EgressCancelled ==
    /\ failed /\ eg_pc = "sleep"
    /\ eg_pc' = "exited"
    /\ UNCHANGED <<failed, state, main_pc, in_pc, eg_sock, tmr_pc, queueVars, leaked>>
-----------------------------------------------------------------------------
\* usleep(), then tcp_slowtimo() (module Tcp), for ever.
TimerTick ==
    /\ tmr_pc \in {"sleep", "slowtimo"}
    /\ tmr_pc' = IF tmr_pc = "sleep" THEN "slowtimo" ELSE "sleep"
    /\ UNCHANGED <<failed, state, main_pc, in_pc, eg_pc, eg_sock, queueVars, leaked>>

\* A retransmission of tcp_slowtimo() fails, or finds the mutex locked.
TimerFails ==
    /\ tmr_pc = "slowtimo"
    /\ \E s \in TcpSocks : handed[s] # <<>> /\ leaked' = leaked \cup {s}
    /\ UNCHANGED <<failed, state, main_pc, threadVars, queueVars>>

TimerBlocks ==
    /\ tmr_pc = "slowtimo" /\ leaked # {}
    /\ tmr_pc' = "blocked"
    /\ UNCHANGED <<failed, state, main_pc, in_pc, eg_pc, eg_sock, queueVars, leaked>>

\* nstack_sendto() spins until the egress queue has room.
Sendto(s) ==
    /\ accepted[s] < MaxSend
    /\ Len(egq[s]) < Capacity
    /\ accepted' = [accepted EXCEPT ![s] = @ + 1]
    /\ egq' = [egq EXCEPT ![s] = Append(@, accepted[s] + 1)]
    /\ UNCHANGED <<failed, state, main_pc, threadVars, inq, handed, leaked>>

\* An application takes a datagram out of the ingress queue.
AppReads ==
    /\ inq > 0
    /\ inq' = inq - 1
    /\ UNCHANGED <<failed, state, main_pc, threadVars, egq, accepted, handed, leaked>>
-----------------------------------------------------------------------------
StartStep == NstackInit \/ CreateIngress \/ CreateEgress \/ CreateTimer \/ SetRunning

JoinStep == Join \/ JoinNothing

\* What ether_receive() brings is the network's choice; that it returns, with
\* a frame or with its timeout, is not.
IngressStep ==
    \/ IngressOther \/ IngressBlocks \/ IngressDgram \/ IngressCommit \/ IngressCheck
    \/ IngressCancelled

EgressStep ==
    \/ EgressWake \/ EgressSkip \/ EgressSend \/ EgressBlocks \/ EgressDiscard \/ EgressCheck
    \/ EgressCancelled

TimerStep == TimerTick \/ TimerFails \/ TimerBlocks

Next ==
    \/ StartStep \/ CreateFails \/ Stop \/ JoinStep
    \/ IngressStep \/ EgressStep \/ TimerStep
    \/ \E s \in Socks : Sendto(s)
    \/ AppReads

\* The kernel schedules every thread, timeouts expire, and the application
\* goes on reading.  Nothing makes an application send or the daemon stop, and
\* a thread that waits for a mutex nobody will unlock has no step to take.
Fairness ==
    /\ WF_vars(StartStep) /\ WF_vars(JoinStep)
    /\ WF_vars(IngressStep) /\ WF_vars(EgressStep)
    /\ WF_vars(TimerStep) /\ WF_vars(AppReads)

Spec == Init /\ [][Next]_vars /\ Fairness
-----------------------------------------------------------------------------
\* Types: no queue of a socket holds more than its ring has room for, whoever
\* pushes and pops, and every thread is at a point of its loop.
TypeOK ==
    /\ state \in {"STOPPED", "RUNNING", "DYING"}
    /\ main_pc \in {"init", "start", "egress", "timer", "setrun", "sigwait",
                    "join_ingress", "join_egress", "join_timer", "stopped", "undefined"}
    /\ failed \in BOOLEAN
    /\ in_pc \in {"none", "rx", "alloc", "check", "blocked", "exited"}
    /\ eg_pc \in {"none", "sleep", "scan", "discard", "blocked", "exited"}
    /\ eg_sock \in 1..(NSock + 1)
    /\ tmr_pc \in {"none", "sleep", "slowtimo", "blocked", "exited"}
    /\ inq \in 0..Capacity
    /\ \A s \in Socks : /\ egq[s] \in Seq(1..MaxSend) /\ Len(egq[s]) <= Capacity
                        /\ handed[s] \in Seq(1..MaxSend)
    /\ accepted \in [Socks -> 0..MaxSend]
    /\ leaked \subseteq TcpSocks

\* What is queued on a socket and has not been given to its protocol.
Unsent(s) == IF eg_pc \in {"discard", "blocked"} /\ eg_sock = s THEN Tail(egq[s]) ELSE egq[s]

\* The protocol of a socket is given exactly what the application has sent on it
\* since nstack_init(), each datagram once and in the order of the
\* nstack_sendto() calls.
EgressInOrder ==
    \A s \in Socks : handed[s] \o Unsent(s) = [i \in 1..accepted[s] |-> i]

\* Datagram d is queued on socket s of a daemon that has initialised it; it has
\* been given to the protocol.
Queued(s, d) == main_pc # "init" /\ \E i \in DOMAIN egq[s] : egq[s][i] = d
Handed(s, d) == \E i \in DOMAIN handed[s] : handed[s][i] = d

\* While the daemon is up and not being stopped every datagram an application has
\* sent reaches the protocol: no socket starves another although a wake-up
\* serves only one datagram of each.  The one thing that stops the egress
\* thread is the mutex of a TCP connection left locked.
EveryDgramHanded ==
    \A s \in Socks : \A d \in 1..MaxSend :
        Queued(s, d) ~> (Handed(s, d) \/ state = "DYING" \/ failed \/ eg_pc = "blocked")

\* The same whatever TCP connections do to the egress thread.
EveryDgramHandedAlways ==
    \A s \in Socks : \A d \in 1..MaxSend :
        Queued(s, d) ~> (Handed(s, d) \/ state = "DYING" \/ failed)

\* Once nstack_stop() has set NSTACK_DYING the ingress and the egress thread
\* end, provided a reader frees the ingress queue the former may spin on, unless
\* they wait for a mutex left locked: neither waits for the other.
WorkersStop ==
    (state = "DYING")
      ~> (in_pc \in {"exited", "none", "blocked"} /\ eg_pc \in {"exited", "none", "blocked"})

\* The same whatever has been left locked.
WorkersStopAlways ==
    (state = "DYING") ~> (in_pc \in {"exited", "none"} /\ eg_pc \in {"exited", "none"})

\* NSTACK_DYING is the wait for the ingress and egress threads to stop, so it
\* ends once they have: nstack_stop() gets to NSTACK_STOPPED.
StopCompletes == (state = "DYING" /\ ~failed) ~> (state = "STOPPED")
=============================================================================

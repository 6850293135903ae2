------------------------------- MODULE TcpRto --------------------------------
(***************************************************************************)
(* The retransmission timeout of a connection (src/tcp.c): how it follows  *)
(* from the round-trip times that are measured, in ticks of 500 ms.        *)
(*                                                                         *)
(* nstack_tcp_send() starts a measurement (egress thread), tcp_slowtimo()  *)
(* counts it and a retransmission throws it away (timer thread, Karn's     *)
(* algorithm in tcp_timer()), an acknowledgment of the timed segment ends  *)
(* it in tcp_rto_update() (ingress thread).  The threads share conn->rtt   *)
(* without a lock; every load and store of it is a step.                   *)
(***************************************************************************)
EXTENDS Integers

CONSTANT MaxRtt   \* bound: ticks one measurement takes

ASSUME MaxRttAssumption == MaxRtt \in Nat \ {0}

TCP_TV_MIN == 2
TCP_TV_REXMTMAX == 128
TCP_TV_SRTTBASE == 0
TCP_TV_SRTTDFLT == 6
TCP_RTTDFT == 3
TCP_TIMER_PR_SLOWHZ == 2

VARIABLES
    rtt_est, rtt_var, retran_timeout, rtt,   \* fields of the control block
    timing,    \* egress thread: it has found rtt to be 0
    ticking,   \* timer thread: "idle", "load", or "store" of what it has loaded
    loaded,    \* timer thread: the rtt it has loaded
    ending     \* ingress thread: it has found rtt not to be 0

rtoVars == <<rtt_est, rtt_var, retran_timeout, rtt, timing, ticking, loaded, ending>>

estimators == <<rtt_est, rtt_var, retran_timeout>>

\* tcp_connection_init(), for a connection that nstack opens; one that a peer
\* opens is as calloc() left it.
RtoInit ==
    /\ \/ /\ rtt_est = TCP_TV_SRTTBASE
          /\ rtt_var = (TCP_RTTDFT * TCP_TIMER_PR_SLOWHZ) * 4
          /\ retran_timeout = ((TCP_TV_SRTTBASE \div 4) + (TCP_TV_SRTTDFLT * 4)) \div 2
       \/ rtt_est = 0 /\ rtt_var = 0 /\ retran_timeout = 0
    /\ rtt = 0 /\ timing = FALSE /\ ticking = "idle" /\ loaded = 0 /\ ending = FALSE

AtLeastOne(x) == IF x <= 0 THEN 1 ELSE x
Abs(x) == IF x < 0 THEN -x ELSE x
-----------------------------------------------------------------------------
\* nstack_tcp_send(): the test, and the store.
StartTest ==
    /\ ~timing /\ rtt = 0
    /\ timing' = TRUE
    /\ UNCHANGED <<estimators, rtt, ticking, loaded, ending>>

StartTiming ==
    /\ timing
    /\ rtt' = 1 /\ timing' = FALSE
    /\ UNCHANGED <<estimators, ticking, loaded, ending>>

\* tcp_slowtimo(): the test, and the load and the store of rtt++.
TickTest ==
    /\ ticking = "idle" /\ rtt # 0
    /\ ticking' = "load"
    /\ UNCHANGED <<estimators, rtt, timing, loaded, ending>>

TickLoad ==
    /\ ticking = "load" /\ rtt < MaxRtt
    /\ ticking' = "store" /\ loaded' = rtt
    /\ UNCHANGED <<estimators, rtt, timing, ending>>

TickStore ==
    /\ ticking = "store"
    /\ rtt' = loaded + 1 /\ ticking' = "idle" /\ loaded' = 0
    /\ UNCHANGED <<estimators, timing, ending>>

\* tcp_timer(), in the same thread.
Retransmit ==
    /\ ticking = "idle"
    /\ rtt' = 0
    /\ UNCHANGED <<estimators, timing, ticking, loaded, ending>>
-----------------------------------------------------------------------------
\* TCP_REXMTVAL()
RexmtVal(est, var) == (est \div 8) + var

\* Mutant: the deviation starts at the measured time, not at twice that.
FirstSampleUnscaled(r) ==
    /\ rtt_est' = r * 8
    /\ rtt_var' = r

\* The two estimators after a measurement of r ticks: the first one, and any
\* later one.
FirstSample(r) ==
    /\ rtt_est' = r * 8
    /\ rtt_var' = r * 2

\* Mutant: the deviation is added without its sign taken off first.
NextSampleSigned(r) ==
    LET delta == (r - 1) - (rtt_est \div 8)
    IN  /\ rtt_est' = AtLeastOne(rtt_est + delta)
        /\ rtt_var' = AtLeastOne(rtt_var + (delta - (rtt_var \div 4)))

NextSample(r) ==
    LET delta == (r - 1) - (rtt_est \div 8)
    IN  /\ rtt_est' = AtLeastOne(rtt_est + delta)
        /\ rtt_var' = AtLeastOne(rtt_var + (Abs(delta) - (rtt_var \div 4)))

\* tcp_fsm(): the test, for a segment that acknowledges the one timed ...
EndTest ==
    /\ ~ending /\ rtt # 0
    /\ ending' = TRUE
    /\ UNCHANGED <<estimators, rtt, timing, ticking, loaded>>

\* ... and tcp_rto_update(), for which rtt is loaded again: it may be 0 by now.
\* Only this thread writes the estimators, and what it stores in rtt hides what
\* others have stored in it since that load.
EndTiming ==
    /\ ending
    /\ IF rtt_est # 0 THEN NextSample(rtt) ELSE FirstSample(rtt)
    /\ retran_timeout' = RexmtVal(rtt_est', rtt_var')
    /\ rtt' = 0 /\ ending' = FALSE
    /\ UNCHANGED <<timing, ticking, loaded>>

RtoNext ==
    \/ StartTest \/ StartTiming
    \/ TickTest \/ TickLoad \/ TickStore \/ Retransmit
    \/ EndTest \/ EndTiming

RtoSpec == RtoInit /\ [][RtoNext]_rtoVars
-----------------------------------------------------------------------------
\* Once a measurement has counted, the timeout never falls below TCP_TV_MIN,
\* "Minimum value of retransmission timer", although no line of the code compares
\* it with that: not by rounding, and not by a later measurement of 0 that a
\* retransmission has left between the two loads of rtt in tcp_fsm().
RtoAtLeastMin == rtt_est # 0 => retran_timeout >= TCP_TV_MIN

\* The timeout never falls below TCP_TV_MIN, whatever the first measurement is.
RtoStaysAtLeastMin ==
    [][retran_timeout >= TCP_TV_MIN => retran_timeout' >= TCP_TV_MIN]_rtoVars

\* The timeout never exceeds TCP_TV_REXMTMAX, "Maximum value of retransmission
\* timer".
RtoAtMostMax == retran_timeout <= TCP_TV_REXMTMAX

\* What makes RtoAtLeastMin inductive: the timeout is that of the estimators, and
\* the deviation stays at 2 or more, where a quarter of it, rounded down, leaves
\* 2.  Before the first measurement that counts they are the ones of
\* tcp_connection_init(), or all 0.
RtoInv ==
    /\ rtt \in Nat /\ loaded \in Nat /\ rtt_est \in Nat /\ rtt_var \in Nat
    /\ rtt_est # 0 => rtt_var >= 2 /\ retran_timeout = RexmtVal(rtt_est, rtt_var)
    /\ rtt_est = 0 => <<rtt_var, retran_timeout>> \in {<<24, 12>>, <<0, 0>>}
=============================================================================

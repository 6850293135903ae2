---------------------------- MODULE QueueRClear -----------------------------
(***************************************************************************)
(* queue_clear_from_push_end() of include/queue_r.h.  The stack does not   *)
(* call it, and it is not one of the operations the ring is safe with, so  *)
(* it is kept apart from QueueR.                                           *)
(***************************************************************************)
EXTENDS QueueR

\* queue_clear_from_push_end(): load m_read ...
ClearPushLoad ==
    /\ push_pc = "idle"
    /\ push_pc' = "clear"
    /\ push_at' = m_read
    /\ UNCHANGED <<m_write, m_read, data, push_dgram, popVars, out>>

\* ... and store it into m_write.
ClearPushStore ==
    /\ push_pc = "clear"
    /\ m_write' = push_at
    /\ push_pc' = "idle"
    /\ UNCHANGED <<m_read, data, push_at, push_dgram, popVars, out>>

\* The steps of QueueR, beside a push end that also clears.
ClearSpec == Init /\ [][Next \/ ClearPushLoad \/ ClearPushStore]_vars
=============================================================================

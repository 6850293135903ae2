----------------------------- MODULE TcpConnMap ------------------------------
(***************************************************************************)
(* The connections of src/tcp.c: tcp_conn_map is a red-black tree of       *)
(* control blocks, which the ingress thread looks up, inserts and frees,   *)
(* while the timer thread goes through it in tcp_slowtimo() and frees some *)
(* as well.  What happens on a connection is in Tcp; here a connection is  *)
(* the pair of its local and remote address.                               *)
(*                                                                         *)
(* An operation on the tree is one step.  A block that is freed keeps its  *)
(* links until it is allocated again: free() writes to the start of the    *)
(* block only, where the addresses are.                                    *)
(***************************************************************************)
EXTENDS Integers, Sequences, FiniteSets

CONSTANTS Blocks,     \* control blocks there is memory for
          Attrs,      \* pairs of a local and a remote address, as numbers
          MaxWalks,   \* bound: calls of tcp_slowtimo()
          NULL

VARIABLES
    tcp_conn_map,   \* the tree
    attr,           \* addresses in the blocks
    live,           \* blocks that are allocated
    conn,           \* the block tcp_slowtimo() is at, NULL outside of it
    visited,        \* blocks it has been at in this call, in order
    present,        \* blocks allocated all through the call
    walks           \* calls so far

vars == <<tcp_conn_map, attr, live, conn, visited, present, walks>>

\* memcmp() of two addresses; callers use its sign.
Memcmp(a, b) == IF a < b THEN -1 ELSE IF a > b THEN 1 ELSE 0

\* tcp_conn_cmp()
TcpConnCmp(a, b) == Memcmp(a[1], b[1]) + Memcmp(a[2], b[2])

RB == INSTANCE RbTree WITH Nodes <- Blocks, Cmp <- TcpConnCmp

Init ==
    /\ tcp_conn_map = RB!EmptyTree
    /\ attr = [b \in Blocks |-> <<0, 0>>]
    /\ live = {} /\ conn = NULL /\ visited = <<>> /\ present = {} /\ walks = 0

\* tcp_find_connection()
FindConnection(a) == RB!Find(tcp_conn_map, attr, a)

\* tcp_input() of a SYN, or nstack_tcp_send(): tcp_new_connection().
NewConnection(a, b) ==
    /\ FindConnection(a) = NULL /\ b \notin live
    /\ live' = live \cup {b}
    /\ attr' = [attr EXCEPT ![b] = a]
    /\ tcp_conn_map' = RB!Insert(tcp_conn_map, attr', b)
    /\ UNCHANGED <<conn, visited, present, walks>>

\* RB_REMOVE and free().
Freed(b) ==
    /\ tcp_conn_map' = RB!Remove(tcp_conn_map, b)
    /\ live' = live \ {b}
    /\ present' = present \ {b}

\* tcp_fsm() in TCP_LAST_ACK.
Close(a) ==
    /\ FindConnection(a) # NULL
    /\ Freed(FindConnection(a))
    /\ UNCHANGED <<attr, conn, visited, walks>>
-----------------------------------------------------------------------------
\* tcp_slowtimo(): the start of RB_FOREACH.
WalkStart ==
    /\ conn = NULL /\ walks < MaxWalks /\ RB!Minimum(tcp_conn_map) # NULL
    /\ conn' = RB!Minimum(tcp_conn_map)
    /\ visited' = <<conn'>> /\ present' = live /\ walks' = walks + 1
    /\ UNCHANGED <<tcp_conn_map, attr, live>>

\* tcp_timer() frees the connection, and the loop goes on with it.
WalkExpires ==
    /\ conn \in live
    /\ Freed(conn)
    /\ UNCHANGED <<attr, conn, visited, walks>>

\* RB_NEXT, from the links of the block, allocated or not.
WalkNext ==
    /\ conn # NULL
    /\ conn' = RB!Successor(tcp_conn_map, conn)
    /\ visited' = IF conn' = NULL THEN visited ELSE Append(visited, conn')
    /\ UNCHANGED <<tcp_conn_map, attr, live, present, walks>>

Next ==
    \/ \E a \in Attrs : Close(a) \/ \E b \in Blocks : NewConnection(a, b)
    \/ WalkStart \/ WalkExpires \/ WalkNext

Spec == Init /\ [][Next]_vars
-----------------------------------------------------------------------------
\* A segment reaches the connection between its two addresses, if there is one,
\* and no other.
FindsItsOwn ==
    /\ \A b \in live : FindConnection(attr[b]) = b
    /\ \A a \in Attrs : FindConnection(a) # NULL => attr[FindConnection(a)] = a

\* The timers of every connection go down once in a call of tcp_slowtimo(),
\* however many of the others expire in it.
TickedOnce ==
    /\ \A i, j \in 1..Len(visited) : visited[i] = visited[j] => i = j
    /\ conn = NULL /\ walks > 0 => present \subseteq {visited[i] : i \in 1..Len(visited)}

\* tcp_slowtimo() only uses control blocks that are allocated.
WalksLiveBlocks == conn # NULL => conn \in live
=============================================================================

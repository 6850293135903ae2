------------------------------- MODULE IpRoute -------------------------------
(***************************************************************************)
(* The routing table of src/ip_route.c: an array of entries, two red-black *)
(* trees over those in use, by network and by the address of the           *)
(* interface, and a list of the free ones.  One thread uses it at a time:  *)
(* ip_config() fills it before the threads start.                          *)
(*                                                                         *)
(* Addresses have Width bits.  A netmask is given by its length.           *)
(***************************************************************************)
EXTENDS Integers, Sequences, FiniteSets, SequencesExt

CONSTANTS Size,      \* NSTACK_IP_RIB_SIZE
          Width,     \* bits of an address
          Configs,   \* pairs of an address and a mask length: see ip_config()
          NULL

Entries == 1..Size
Addresses == 0..(2^Width - 1)

ASSUME RouteAssumption ==
    /\ Size \in Nat \ {0} /\ Width \in Nat \ {0} /\ NULL \notin Entries
    /\ Configs \subseteq Addresses \X (0..Width)

VARIABLES
    rib,              \* the routes in the entries
    rib_routetree,    \* by r_network
    rib_sourcetree,   \* by r_iface
    rib_freelist,     \* entries, the head first
    dead              \* the program has dereferenced NULL

vars == <<rib, rib_routetree, rib_sourcetree, rib_freelist, dead>>

\* addr & mask
Masked(addr, len) == addr - (addr % 2^(Width - len))

\* Mutant: the difference is taken as a number without a sign.
DiffUnsigned(a, b) == (a - b) % 2^Width

\* route_network_cmp() and route_iface_cmp(): the difference of two unsigned
\* numbers, returned as a signed one of the same width.
Diff(a, b) ==
    LET d == (a - b) % 2^Width
    IN  IF d < 2^(Width - 1) THEN d ELSE d - 2^Width

RB == INSTANCE RbTree WITH Nodes <- Entries, Cmp <- Diff

Networks(r) == [e \in Entries |-> r[e].r_network]
Ifaces(r) == [e \in Entries |-> r[e].r_iface]

NoRoute == [r_network |-> 0, r_netmask |-> 0, r_iface |-> 0]

\* ip_config() makes this route of an address and a mask.
Route(c) == [r_network |-> Masked(c[1], c[2]), r_netmask |-> c[2], r_iface |-> c[1]]

\* ip_route_init()
Init ==
    /\ rib = [e \in Entries |-> NoRoute]
    /\ rib_routetree = RB!EmptyTree /\ rib_sourcetree = RB!EmptyTree
    /\ rib_freelist = Reverse([e \in Entries |-> e])
    /\ dead = FALSE

EntryOf(network) == RB!Find(rib_routetree, Networks(rib), network)
-----------------------------------------------------------------------------
\* ip_route_tree_insert(), with the route already in the entry.
TreeInsert(rtree, stree, r, e) ==
    /\ rib_routetree' = RB!Insert(rtree, Networks(r), e)
    /\ rib_sourcetree' = RB!Insert(stree, Ifaces(r), e)

\* Mutant: the entry is not taken out of the trees before it changes.
UpdateExistingInPlace(route) ==
    LET e == EntryOf(route.r_network)
        r == [rib EXCEPT ![e] = route]
    IN  /\ e # NULL
        /\ rib' = r
        /\ TreeInsert(rib_routetree, rib_sourcetree, r, e)
        /\ UNCHANGED <<rib_freelist, dead>>

\* ip_route_update() of a network that is in the table.
UpdateExisting(route) ==
    LET e == EntryOf(route.r_network)
        r == [rib EXCEPT ![e] = route]
    IN  /\ e # NULL
        /\ rib' = r
        /\ TreeInsert(RB!Remove(rib_routetree, e), RB!Remove(rib_sourcetree, e), r, e)
        /\ UNCHANGED <<rib_freelist, dead>>

\* Mutant: the entry stays on the free list.
AddStaysFree(route) ==
    LET e == Head(rib_freelist)
        r == [rib EXCEPT ![e] = route]
    IN  /\ EntryOf(route.r_network) = NULL /\ rib_freelist # <<>>
        /\ rib' = r
        /\ TreeInsert(rib_routetree, rib_sourcetree, r, e)
        /\ UNCHANGED <<rib_freelist, dead>>

\* ip_route_update() of a new one: ip_route_add().
Add(route) ==
    LET e == Head(rib_freelist)
        r == [rib EXCEPT ![e] = route]
    IN  /\ EntryOf(route.r_network) = NULL /\ rib_freelist # <<>>
        /\ rib_freelist' = Tail(rib_freelist)
        /\ rib' = r
        /\ TreeInsert(rib_routetree, rib_sourcetree, r, e)
        /\ UNCHANGED dead

\* ip_route_entry_alloc() takes the head off the list before ip_route_add()
\* looks whether there was one.
AddFull(route) ==
    /\ EntryOf(route.r_network) = NULL /\ rib_freelist = <<>>
    /\ dead' = TRUE
    /\ UNCHANGED <<rib, rib_routetree, rib_sourcetree, rib_freelist>>

\* memset() on the entry.
Zeroed(t, e) ==
    [t EXCEPT !.left[e] = NULL, !.right[e] = NULL, !.parent[e] = NULL, !.color[e] = RB!RB_BLACK]

\* ip_route_remove(); ENOENT when there is no such route.
Delete(network) ==
    LET e == EntryOf(network)
    IN  /\ e # NULL
        /\ rib_routetree' = Zeroed(RB!Remove(rib_routetree, e), e)
        /\ rib_sourcetree' = Zeroed(RB!Remove(rib_sourcetree, e), e)
        /\ rib' = [rib EXCEPT ![e] = NoRoute]
        /\ rib_freelist' = <<e>> \o rib_freelist
        /\ UNCHANGED dead

Next ==
    /\ ~dead
    /\ \E c \in Configs :
          \/ UpdateExisting(Route(c)) \/ Add(Route(c)) \/ AddFull(Route(c))
          \/ Delete(Route(c).r_network)

Spec == Init /\ [][Next]_vars
-----------------------------------------------------------------------------
Covers(e, addr) == rib[e].r_network = Masked(addr, rib[e].r_netmask)

\* ip_route_find_by_network(): the network with this very address, or else the
\* first in the order of the tree that covers it, or else network 0.
FindByNetwork(addr) ==
    LET covering == SelectSeq(RB!Foreach(rib_routetree), LAMBDA e : Covers(e, addr))
    IN  IF EntryOf(addr) # NULL THEN EntryOf(addr)
        ELSE IF covering # <<>> THEN Head(covering)
        ELSE EntryOf(0)

\* ip_route_find_by_iface()
FindByIface(addr) == RB!Find(rib_sourcetree, Ifaces(rib), addr)
-----------------------------------------------------------------------------
InUse == RB!Members(rib_routetree)

\* The two trees, the array and the list together are the table of nstack_ip.h:
\* an update or a removal changes the route of its network and no other.
Table == INSTANCE RouteTable WITH
             Routes <- {Route(c) : c \in Configs}, table <- {rib[e] : e \in InUse}

ImplementsTable == Table!TableSpec

\* Both trees keep the conditions of the comment in tree.h through insertions
\* and removals, and RB_FOREACH visits every route once, in order.
TreesSound ==
    /\ RB!RedBlack(rib_routetree) /\ RB!InOrder(rib_routetree, Networks(rib))
    /\ RB!RedBlack(rib_sourcetree) /\ RB!InOrder(rib_sourcetree, Ifaces(rib))

\* An entry is either free, once, or in both trees: none is lost and none is
\* given out twice, whatever the order of updates and removals.
EntriesConserved ==
    /\ RB!Members(rib_sourcetree) = InUse
    /\ ToSet(rib_freelist) = Entries \ InUse
    /\ Len(rib_freelist) = Cardinality(Entries \ InUse)

\* ip_send() finds a route for an address exactly when there is one, and
\* ip_input() takes an address for its own exactly when an interface has it.
LookupsFindRoutes ==
    \A addr \in Addresses :
        /\ (FindByNetwork(addr) # NULL) <=> (\E e \in InUse : Covers(e, addr) \/ rib[e].r_network \in {0, addr})
        /\ (FindByIface(addr) # NULL) <=> (\E e \in InUse : rib[e].r_iface = addr)

\* "And finally we check if there is a default gw" (ip_route.c): the route with
\* network 0 and mask 0 is used for an address no other route covers.
DefaultIsLast ==
    \A addr \in Addresses :
        LET e == FindByNetwork(addr)
        IN  e # NULL /\ rib[e].r_netmask = 0 => \A f \in InUse \ {e} : ~Covers(f, addr)

\* A table that is full refuses a route with ENOMEM (ip_route_add()).
FullIsRefused == ~dead
=============================================================================

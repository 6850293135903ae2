----------------------------- MODULE RouteTable ------------------------------
(***************************************************************************)
(* What src/nstack_ip.h promises of the routing table: a set of routes, at *)
(* most one per network, that ip_route_update() and ip_route_remove()      *)
(* change one at a time.                                                   *)
(***************************************************************************)
EXTENDS Naturals, FiniteSets

CONSTANTS Routes,   \* the routes callers may ask for
          Size      \* how many fit

VARIABLE table

TableInit == table = {}

Without(network) == {r \in table : r.r_network # network}

TableUpdate(route) ==
    /\ Cardinality(Without(route.r_network)) < Size
    /\ table' = Without(route.r_network) \cup {route}

TableRemove(network) == table' = Without(network)

TableNext ==
    \E route \in Routes : TableUpdate(route) \/ TableRemove(route.r_network)

TableSpec == TableInit /\ [][TableNext]_table
=============================================================================

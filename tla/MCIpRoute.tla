------------------------------ MODULE MCIpRoute ------------------------------
(***************************************************************************)
(* Instances of IpRoute.  Addresses have 4 bits; two of them are in the    *)
(* order of the comparison functions when they are less than 8 apart.      *)
(***************************************************************************)
EXTENDS IpRoute

\* Six networks below 8 for five entries.  Network 0 is that of all addresses up
\* to 7, with two of them to choose from, and addresses of others in between.
Near == {<<1, 1>>, <<7, 1>>, <<2, 4>>, <<3, 4>>, <<4, 4>>, <<5, 4>>, <<6, 4>>}

\* A default route beside another one.
Default == {<<1, 0>>, <<6, 3>>}

\* One address under two masks.
SameIface == {<<5, 3>>, <<5, 1>>}

\* Networks all around the circle of 16.
Far == {<<0, 4>>, <<5, 4>>, <<10, 4>>}
=============================================================================

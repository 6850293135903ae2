------------------------------ MODULE MCRbTree -------------------------------
(***************************************************************************)
(* A tree of its own, with enough elements for a rebalancing that goes on  *)
(* further up after a recolouring.  An element is its own key; memory of   *)
(* an element that was removed is zeroed before it is inserted again, as   *)
(* tcp_new_connection() does with calloc().                                *)
(***************************************************************************)
EXTENDS Integers, Sequences, FiniteSets

CONSTANTS Size, NULL

VARIABLE tree

Diff(a, b) == a - b
Keys == [n \in 1..Size |-> n]

RB == INSTANCE RbTree WITH Nodes <- 1..Size, Cmp <- Diff

Zeroed(t, n) ==
    [t EXCEPT !.left[n] = NULL, !.right[n] = NULL, !.parent[n] = NULL, !.color[n] = RB!RB_BLACK]

Init == tree = RB!EmptyTree

Next ==
    \E n \in 1..Size :
        \/ n \notin RB!Members(tree) /\ tree' = RB!Insert(tree, Keys, n)
        \/ n \in RB!Members(tree) /\ tree' = Zeroed(RB!Remove(tree, n), n)

Spec == Init /\ [][Next]_tree

\* The tree keeps the conditions of the comment in tree.h, and RB_FOREACH visits
\* its elements once and in order, after any insertions and removals.
TreeSound == RB!RedBlack(tree) /\ RB!InOrder(tree, Keys)

\* An insertion adds its element, a removal takes out its own, and nothing else.
OneElement ==
    [][\E n \in 1..Size : \/ RB!Members(tree') = RB!Members(tree) \cup {n}
                          \/ RB!Members(tree') = RB!Members(tree) \ {n}]_tree
=============================================================================

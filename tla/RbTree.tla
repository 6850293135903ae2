------------------------------- MODULE RbTree --------------------------------
(***************************************************************************)
(* The red-black tree of src/tree.h, link by link.  The macros generate    *)
(* the same code for every tree of the stack: the ARP cache, the routes,   *)
(* the sockets, the TCP connections and the fragment buffers.              *)
(*                                                                         *)
(* A tree is a record: the root, and for every node the fields of          *)
(* RB_ENTRY.  An operation takes a tree and returns the tree it leaves.    *)
(* The code has every case twice, once per side; here the side is a        *)
(* parameter, "left" or "right", which is also the name of the field.      *)
(* The keys are outside of the tree, in the elements: key[n].              *)
(***************************************************************************)
EXTENDS Integers, Sequences, FiniteSets

CONSTANTS Nodes,      \* the elements there are
          NULL,       \* no element
          Cmp(_, _)   \* the comparison function of the tree, on keys

RB_BLACK == 0
RB_RED   == 1

\* RB_INIT on elements whose memory is zero.
EmptyTree ==
    [root |-> NULL,
     left |-> [n \in Nodes |-> NULL], right |-> [n \in Nodes |-> NULL],
     parent |-> [n \in Nodes |-> NULL], color |-> [n \in Nodes |-> RB_BLACK]]

Other(side) == IF side = "left" THEN "right" ELSE "left"

Set(t, field, n, value) == [t EXCEPT ![field][n] = value]

\* A missing child counts as black.
IsBlack(t, n) == n = NULL \/ t.color[n] = RB_BLACK

SetBlackRed(t, black, red) == Set(Set(t, "color", black, RB_BLACK), "color", red, RB_RED)

\* In the place of old, new becomes the child of parent, or the root.
ReplaceChild(t, parent, old, new) ==
    IF parent = NULL THEN [t EXCEPT !.root = new]
    ELSE Set(t, IF t.left[parent] = old THEN "left" ELSE "right", parent, new)

SetParent(t, n, parent) == IF n = NULL THEN t ELSE Set(t, "parent", n, parent)

\* Mutant: the subtree that changes its parent is not told.
RotateNoParent(t, elm, side) ==
    LET tmp == t[Other(side)][elm]
        up == t.parent[elm]
        inner == Set(t, Other(side), elm, t[side][tmp])
        top == ReplaceChild(Set(inner, "parent", tmp, up), up, elm, tmp)
    IN  Set(Set(top, side, tmp, elm), "parent", elm, tmp)

\* RB_ROTATE_LEFT and RB_ROTATE_RIGHT: elm goes down on this side.
Rotate(t, elm, side) ==
    LET tmp == t[Other(side)][elm]
        up == t.parent[elm]
        inner == SetParent(Set(t, Other(side), elm, t[side][tmp]), t[side][tmp], elm)
        top == ReplaceChild(Set(inner, "parent", tmp, up), up, elm, tmp)
    IN  Set(Set(top, side, tmp, elm), "parent", elm, tmp)
-----------------------------------------------------------------------------
\* The descent of RB_FIND and RB_INSERT from node n: the element with the key,
\* or else where it would go.
RECURSIVE Locate(_, _, _, _, _)
Locate(t, key, k, n, parent) ==
    IF n = NULL THEN [found |-> NULL, parent |-> parent]
    ELSE IF Cmp(k, key[n]) = 0 THEN [found |-> n, parent |-> parent]
    ELSE Locate(t, key, k, IF Cmp(k, key[n]) < 0 THEN t.left[n] ELSE t.right[n], n)

Find(t, key, k) == Locate(t, key, k, t.root, NULL).found

\* RB_INSERT_COLOR: as long as a red node has a red parent.
RECURSIVE InsertColor(_, _)
InsertColor(t, elm) ==
    LET parent == t.parent[elm]
        gparent == t.parent[parent]
        side == IF parent = t.left[gparent] THEN "left" ELSE "right"
        uncle == t[Other(side)][gparent]
        inner == t[Other(side)][parent] = elm
        turned == IF inner THEN Rotate(t, parent, side) ELSE t
        top == IF inner THEN elm ELSE parent
        low == IF inner THEN parent ELSE elm
    IN  IF IsBlack(t, parent) THEN Set(t, "color", t.root, RB_BLACK)
        ELSE IF ~IsBlack(t, uncle)
               THEN InsertColor(SetBlackRed(Set(t, "color", uncle, RB_BLACK), parent, gparent),
                                gparent)
               ELSE InsertColor(Rotate(SetBlackRed(turned, top, gparent), gparent, Other(side)),
                                low)

\* RB_SET
Leaf(t, elm, parent) ==
    [t EXCEPT !.parent[elm] = parent, !.left[elm] = NULL, !.right[elm] = NULL,
              !.color[elm] = RB_RED]

\* RB_INSERT: an element with a key that is in the tree already is not inserted.
Insert(t, key, elm) ==
    LET at == Locate(t, key, key[elm], t.root, NULL)
        leaf == Leaf(t, elm, at.parent)
        linked == IF at.parent = NULL THEN [leaf EXCEPT !.root = elm]
                  ELSE Set(leaf, IF Cmp(key[elm], key[at.parent]) < 0 THEN "left" ELSE "right",
                           at.parent, elm)
    IN  IF at.found # NULL THEN t ELSE InsertColor(linked, elm)
-----------------------------------------------------------------------------
\* RB_REMOVE_COLOR: the paths through elm, a child of parent, lack a black node.
RECURSIVE RemoveColor(_, _, _)
RemoveColor(t, parent, elm) ==
    IF ~IsBlack(t, elm) \/ elm = t.root
      THEN IF elm = NULL THEN t ELSE Set(t, "color", elm, RB_BLACK)
      ELSE
        LET near == IF t.left[parent] = elm THEN "left" ELSE "right"
            far == Other(near)
            \* The sibling is made black.
            t1 == IF IsBlack(t, t[far][parent]) THEN t
                  ELSE Rotate(SetBlackRed(t, t[far][parent], parent), parent, near)
            tmp == t1[far][parent]
            \* Its outer child is made red.
            t2 == IF ~IsBlack(t1, t1[far][tmp]) THEN t1
                  ELSE Rotate(SetBlackRed(t1, t1[near][tmp], tmp), tmp, far)
            top == t2[far][parent]
            t3 == Set(Set(t2, "color", top, t2.color[parent]), "color", parent, RB_BLACK)
            t4 == IF t3[far][top] = NULL THEN t3 ELSE Set(t3, "color", t3[far][top], RB_BLACK)
            t5 == Rotate(t4, parent, near)
        IN  IF IsBlack(t1, t1.left[tmp]) /\ IsBlack(t1, t1.right[tmp])
              THEN RemoveColor(Set(t1, "color", tmp, RB_RED), t1.parent[parent], parent)
              ELSE Set(t5, "color", t5.root, RB_BLACK)

RECURSIVE Leftmost(_, _)
Leftmost(t, n) == IF t.left[n] = NULL THEN n ELSE Leftmost(t, t.left[n])

\* elm, which has at most one child, leaves its place to this child.
Splice(t, elm, child) ==
    ReplaceChild(SetParent(t, child, t.parent[elm]), t.parent[elm], elm, child)

\* The successor elm of old takes over its place, links and colour.
TakePlace(t, old, elm) ==
    LET moved == [t EXCEPT !.left[elm] = t.left[old], !.right[elm] = t.right[old],
                           !.parent[elm] = t.parent[old], !.color[elm] = t.color[old]]
        placed == ReplaceChild(moved, t.parent[old], old, elm)
    IN  SetParent(Set(placed, "parent", t.left[old], elm), t.right[old], elm)

\* RB_REMOVE
Remove(t, old) ==
    LET two == t.left[old] # NULL /\ t.right[old] # NULL
        elm == IF two THEN Leftmost(t, t.right[old]) ELSE old
        child == IF t.left[elm] = NULL THEN t.right[elm] ELSE t.left[elm]
        parent == IF two /\ t.parent[elm] = old THEN elm ELSE t.parent[elm]
        cut == IF two THEN TakePlace(Splice(t, elm, child), old, elm) ELSE Splice(t, elm, child)
    IN  IF t.color[elm] = RB_BLACK THEN RemoveColor(cut, parent, child) ELSE cut
-----------------------------------------------------------------------------
\* RB_MIN
Minimum(t) == IF t.root = NULL THEN NULL ELSE Leftmost(t, t.root)

\* Up from n until the step is one from the left.
RECURSIVE Climb(_, _)
Climb(t, n) ==
    LET parent == t.parent[n]
    IN  IF parent = NULL \/ n # t.right[parent] THEN parent ELSE Climb(t, parent)

\* RB_NEXT
Successor(t, n) == IF t.right[n] # NULL THEN Leftmost(t, t.right[n]) ELSE Climb(t, n)

\* RB_FOREACH: the elements it visits from n on.
RECURSIVE From(_, _)
From(t, n) == IF n = NULL THEN <<>> ELSE <<n>> \o From(t, Successor(t, n))

Foreach(t) == From(t, Minimum(t))
-----------------------------------------------------------------------------
\* The nodes below n, and the numbers of black nodes on the paths down from it.
RECURSIVE Below(_, _)
Below(t, n) == IF n = NULL THEN {} ELSE {n} \cup Below(t, t.left[n]) \cup Below(t, t.right[n])

RECURSIVE Heights(_, _)
Heights(t, n) ==
    IF n = NULL THEN {0}
    ELSE {h + (IF t.color[n] = RB_BLACK THEN 1 ELSE 0) :
             h \in Heights(t, t.left[n]) \cup Heights(t, t.right[n])}

Members(t) == Below(t, t.root)

\* What the comment at the top of tree.h requires of a tree: the same number of
\* black nodes on every path, no red node below a red one; and the links up
\* are those down.
RedBlack(t) ==
    /\ Cardinality(Heights(t, t.root)) = 1
    /\ IsBlack(t, t.root) /\ (t.root = NULL \/ t.parent[t.root] = NULL)
    /\ \A n \in Members(t) : \A c \in {t.left[n], t.right[n]} \ {NULL} :
          t.parent[c] = n /\ (IsBlack(t, n) \/ IsBlack(t, c))

\* A traversal visits every element of the tree once, in the order of the keys.
InOrder(t, key) ==
    LET visited == Foreach(t)
    IN  /\ Len(visited) = Cardinality(Members(t))
        /\ {visited[i] : i \in 1..Len(visited)} = Members(t)
        /\ \A i \in 1..(Len(visited) - 1) : Cmp(key[visited[i]], key[visited[i + 1]]) < 0
=============================================================================

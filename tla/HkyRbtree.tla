----------------------------- MODULE HkyRbtree ------------------------------
(* The red-black tree (core/hky_rbtree.c).  A tree is a record of the links  *)
(* of the nodes that are in it and of the sentinel.  The two sides are       *)
(* mirror images in the code; here "side" stands for either.  The fields of  *)
(* a node outside the tree, and of the sentinel between two operations, are  *)
(* written before they are read, and left out.                               *)
EXTENDS Integers, Sequences, FiniteSets, TLC

CONSTANTS Nodes, Sentinel, NULL

Sides == {"left", "right"}
Other(side) == IF side = "left" THEN "right" ELSE "left"

(* hky_rbtree_init *)
EmptyTree ==
    [root |-> Sentinel,
     child |-> [s \in Sides |-> (Sentinel :> NULL)],
     parent |-> (Sentinel :> NULL),
     red |-> (Sentinel :> FALSE),
     key |-> (Sentinel :> 0)]

Linked(t) == DOMAIN t.red \ {Sentinel}

Without(f, n) == [x \in DOMAIN f \ {n} |-> f[x]]
WithNode(f, n, v) == (n :> v) @@ f

(* Which child of its parent a node is. *)
SideOf(t, n) == IF n = t.child["left"][t.parent[n]] THEN "left" ELSE "right"

(* Mutant: the inner subtree keeps its old parent. *)
RotateForgetful(t, n, side) ==
    LET up == t.child[Other(side)][n]
        inner == t.child[side][up]
        turned == [t EXCEPT !.child[Other(side)][n] = inner,
                            !.child[side][up] = n,
                            !.parent[up] = t.parent[n],
                            !.parent[n] = up]
    IN  IF n = t.root THEN [turned EXCEPT !.root = up]
        ELSE [turned EXCEPT !.child[SideOf(t, n)][t.parent[n]] = up]

(* hky_rbtree_left_rotate (side "left") and hky_rbtree_right_rotate: the node *)
(* goes down on that side, its other child comes up.                         *)
Rotate(t, n, side) ==
    LET up == t.child[Other(side)][n]
        inner == t.child[side][up]
        turned == [t EXCEPT !.child[Other(side)][n] = inner,
                            !.child[side][up] = n,
                            !.parent[up] = t.parent[n],
                            !.parent[n] = up]
        adopted == IF inner = Sentinel THEN turned
                   ELSE [turned EXCEPT !.parent[inner] = n]
    IN  IF n = t.root THEN [adopted EXCEPT !.root = up]
        ELSE [adopted EXCEPT !.child[SideOf(t, n)][t.parent[n]] = up]

Paint(t, nodes, red) == [t EXCEPT !.red = [x \in DOMAIN @ |-> IF x \in nodes THEN red ELSE @[x]]]

(* The descent of the insert functions: the new node goes to the left of the *)
(* nodes in "lefts".                                                         *)
RECURSIVE LeafFor(_, _, _)
LeafFor(t, x, lefts) ==
    LET side == IF x \in lefts THEN "left" ELSE "right"
    IN  IF t.child[side][x] = Sentinel THEN [parent |-> x, side |-> side]
        ELSE LeafFor(t, t.child[side][x], lefts)

Hang(t, n, parent, key, red) ==
    [t EXCEPT !.child = [s \in Sides |-> WithNode(@[s], n, Sentinel)],
              !.parent = WithNode(@, n, parent),
              !.red = WithNode(@, n, red),
              !.key = WithNode(@, n, key)]

RECURSIVE InsertFixup(_, _)
InsertFixup(t, n) ==
    LET p == t.parent[n]
        g == t.parent[p]
        side == SideOf(t, p)
        uncle == t.child[Other(side)][g]
        inside == n = t.child[Other(side)][p]
        low == IF inside THEN p ELSE n
        straight == IF inside THEN Rotate(t, p, side) ELSE t
        painted == Paint(Paint(straight, {straight.parent[low]}, FALSE), {g}, TRUE)
    IN  IF n = t.root \/ ~t.red[p] THEN Paint(t, {t.root}, FALSE)
        ELSE IF t.red[uncle] THEN InsertFixup(Paint(Paint(t, {p, uncle}, FALSE), {g}, TRUE), g)
        ELSE InsertFixup(Rotate(painted, g, Other(side)), low)

(* hky_rbtree_insert; the tree's insert function sends the node to the left  *)
(* of the nodes in "lefts".                                                  *)
Insert(t, n, key, lefts) ==
    IF t.root = Sentinel THEN [Hang(t, n, NULL, key, FALSE) EXCEPT !.root = n]
    ELSE LET leaf == LeafFor(t, t.root, lefts)
             hung == Hang(t, n, leaf.parent, key, TRUE)
         IN  InsertFixup([hung EXCEPT !.child[leaf.side][leaf.parent] = n], n)

(* hky_rbtree_min *)
RECURSIVE MinFrom(_, _)
MinFrom(t, n) ==
    IF t.child["left"][n] = Sentinel THEN n ELSE MinFrom(t, t.child["left"][n])

(* The loop of the deletion, at the node that lacks one black. *)
RECURSIVE DeleteFixup(_, _)
DeleteFixup(t, x) ==
    LET p == t.parent[x]
        side == SideOf(t, x)
        far == Other(side)
        t1 == IF ~t.red[t.child[far][p]] THEN t
              ELSE Rotate(Paint(Paint(t, {t.child[far][p]}, FALSE), {p}, TRUE), p, side)
        w == t1.child[far][p]
        t2 == IF t1.red[t1.child[far][w]] THEN t1
              ELSE Rotate(Paint(Paint(t1, {t1.child[side][w]}, FALSE), {w}, TRUE), w, far)
        v == t2.child[far][p]
        t3 == Paint(Paint(t2, {v}, t2.red[p]), {p, t2.child[far][v]}, FALSE)
        t4 == Rotate(t3, p, side)
    IN  IF x = t.root \/ t.red[x] THEN Paint(t, {x}, FALSE)
        ELSE IF ~t1.red[t1.child["left"][w]] /\ ~t1.red[t1.child["right"][w]]
          THEN DeleteFixup(Paint(t1, {w}, TRUE), p)
        ELSE Paint(t4, {t4.root}, FALSE)

(* The node that takes the place of n when n leaves with two children. *)
Substitute(t, n) ==
    IF t.child["left"][n] = Sentinel \/ t.child["right"][n] = Sentinel THEN n
    ELSE MinFrom(t, t.child["right"][n])

(* s, which has been taken out of its place, gets the links and the colour   *)
(* of n.                                                                     *)
Replace(t, n, s) ==
    LET moved == [t EXCEPT !.child["left"][s] = t.child["left"][n],
                           !.child["right"][s] = t.child["right"][n],
                           !.parent[s] = t.parent[n],
                           !.red[s] = t.red[n]]
        up == IF n = t.root THEN [moved EXCEPT !.root = s]
              ELSE [moved EXCEPT !.child[SideOf(t, n)][t.parent[n]] = s]
    IN  [up EXCEPT !.parent =
            [x \in DOMAIN @ |->
                IF x # Sentinel /\ x \in {t.child["left"][n], t.child["right"][n]} THEN s
                ELSE @[x]]]

Unlink(t, n) ==
    [t EXCEPT !.child = [s \in Sides |-> Without(@[s], n)],
              !.parent = WithNode(Without(@, n), Sentinel, NULL),
              !.red = Without(@, n),
              !.key = Without(@, n)]

(* hky_rbtree_delete *)
Delete(t, n) ==
    LET subst == Substitute(t, n)
        temp == IF t.child["left"][subst] # Sentinel THEN t.child["left"][subst]
                ELSE t.child["right"][subst]
        above == IF subst # n /\ t.parent[subst] = n THEN subst ELSE t.parent[subst]
        cut == [t EXCEPT !.child[SideOf(t, subst)][t.parent[subst]] = temp,
                         !.parent[temp] = above]
        done == IF subst = n THEN cut ELSE Replace(cut, n, subst)
    IN  IF subst = t.root
          THEN Unlink(Paint([t EXCEPT !.root = temp], {temp}, FALSE), n)
        ELSE Unlink(IF t.red[subst] THEN done ELSE DeleteFixup(done, temp), n)

(* hky_rbtree_next *)
RECURSIVE ClimbFrom(_, _)
ClimbFrom(t, n) ==
    IF n = t.root THEN NULL
    ELSE IF n = t.child["left"][t.parent[n]] THEN t.parent[n]
    ELSE ClimbFrom(t, t.parent[n])

(* Mutant: a node without a right child is followed by its parent. *)
NextOfParent(t, n) ==
    IF t.child["right"][n] # Sentinel THEN MinFrom(t, t.child["right"][n]) ELSE t.parent[n]

NextOf(t, n) ==
    IF t.child["right"][n] # Sentinel THEN MinFrom(t, t.child["right"][n]) ELSE ClimbFrom(t, n)

-----------------------------------------------------------------------------
(* The nodes from n on, as hky_rbtree_next gives them, at most "most".       *)
RECURSIVE WalkFrom(_, _, _)
WalkFrom(t, n, most) ==
    IF n = NULL \/ most = 0 THEN <<>>
    ELSE <<n>> \o WalkFrom(t, NextOf(t, n), most - 1)

(* The numbers of black nodes on the ways down from n. *)
RECURSIVE BlackHeights(_, _)
BlackHeights(t, n) ==
    IF n = Sentinel THEN {0}
    ELSE {h + (IF t.red[n] THEN 0 ELSE 1) :
            h \in BlackHeights(t, t.child["left"][n]) \cup BlackHeights(t, t.child["right"][n])}
=============================================================================

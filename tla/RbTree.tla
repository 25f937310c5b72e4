------------------------------- MODULE RbTree -------------------------------
(***************************************************************************)
(* The red-black tree of the timers (core/dfs_rbtree.cpp) with its links   *)
(* and colours.  A tree is a record of the root and of one function per    *)
(* field of rbtree_node_t; its nodes are the rbtree_node_t's of the        *)
(* callers, in the tree or not, and the sentinel Nil.  The left and the    *)
(* right branches of the code are mirror images: here they are one branch  *)
(* that names the fields by a side.  Reading a field of Null is an error   *)
(* of the evaluation, as it is a fault of the program.                     *)
(***************************************************************************)
EXTENDS Integers, Sequences

CONSTANTS
  Node,    \* nodes the callers may insert
  Nil,     \* tree->sentinel
  Null,    \* nullptr
  KeyOf    \* bound: KeyOf[n] is the set of keys n is inserted with

ASSUME NodeAssumption == Nil \notin Node /\ Null \notin Node /\ Nil # Null
ASSUME KeyAssumption == KeyOf \in [Node -> SUBSET Int]

VARIABLE tree

Cell == Node \cup {Nil}

rbtree_init ==
  [root |-> Nil,
   left |-> [n \in Cell |-> Null], right |-> [n \in Cell |-> Null],
   parent |-> [n \in Cell |-> Null],
   red |-> [n \in Cell |-> FALSE], key |-> [n \in Cell |-> 0]]

Opposite(s) == IF s = "left" THEN "right" ELSE "left"

\* The side of p on which n hangs.
SideOf(t, n, p) == IF n = t.left[p] THEN "left" ELSE "right"

\* Put c where n hangs: at the root or below the parent of n.
Relink(t, n, c) ==
  IF n = t.root THEN [t EXCEPT !.root = c]
  ELSE [t EXCEPT ![SideOf(t, n, t.parent[n])][t.parent[n]] = c]

Adopt(t, c, p) == IF c = Nil THEN t ELSE [t EXCEPT !.parent[c] = p]

\* rbtree_left_rotate (s = "left") and rbtree_right_rotate.
rotate(t, n, s) ==
  LET o == Opposite(s)
      c == t[o][n]
      u == [Adopt([t EXCEPT ![o][n] = t[s][c]], t[s][c], n)
              EXCEPT !.parent[c] = t.parent[n]]
  IN  [Relink(u, n, c) EXCEPT ![s][c] = n, !.parent[n] = c]

RECURSIVE rbtree_min(_, _)
rbtree_min(t, n) == IF t.left[n] = Nil THEN n ELSE rbtree_min(t, t.left[n])

\* Mutant of insert_side: equal keys go left.
insert_side_equal_left(t, n, m) ==
  IF t.key[n] <= t.key[m] THEN "left" ELSE "right"

insert_side(t, n, m) == IF t.key[n] < t.key[m] THEN "left" ELSE "right"

\* rbtree_insert_timer_value, from the node m downwards.
RECURSIVE insert_timer_value(_, _, _)
insert_timer_value(t, m, n) ==
  LET s == insert_side(t, n, m)
  IN  IF t[s][m] = Nil
      THEN [t EXCEPT ![s][m] = n, !.parent[n] = m,
                     !.left[n] = Nil, !.right[n] = Nil, !.red[n] = TRUE]
      ELSE insert_timer_value(t, t[s][m], n)

\* The loop of rbtree_insert: n is red, and its parent may be.
RECURSIVE insert_rebalance(_, _)
insert_rebalance(t, n) ==
  IF n = t.root \/ ~t.red[t.parent[n]] THEN t
  ELSE LET p == t.parent[n]
           g == t.parent[p]
           s == SideOf(t, p, g)
           u == t[Opposite(s)][g]
           inner == n = t[Opposite(s)][p]
           m == IF inner THEN p ELSE n
           r == IF inner THEN rotate(t, p, s) ELSE t
       IN  IF t.red[u]
           THEN insert_rebalance([t EXCEPT !.red[p] = FALSE, !.red[u] = FALSE,
                                           !.red[g] = TRUE], g)
           ELSE insert_rebalance(
                  rotate([r EXCEPT !.red[r.parent[m]] = FALSE, !.red[g] = TRUE],
                         g, Opposite(s)), m)

rbtree_insert(t, n) ==
  IF t.root = Nil
  THEN [t EXCEPT !.root = n, !.parent[n] = Null, !.left[n] = Nil,
                 !.right[n] = Nil, !.red[n] = FALSE]
  ELSE LET u == insert_rebalance(insert_timer_value(t, t.root, n), n)
       IN  [u EXCEPT !.red[u.root] = FALSE]

\* Mutant of delete_rebalance: a missing black node is ignored.
delete_rebalance_none(t, n) == [t EXCEPT !.red[n] = FALSE]

\* The loop of rbtree_delete: a black node is missing on the way to n.
RECURSIVE delete_rebalance(_, _)
delete_rebalance(t, n) ==
  IF n = t.root \/ t.red[n] THEN [t EXCEPT !.red[n] = FALSE]
  ELSE LET p == t.parent[n]
           s == SideOf(t, n, p)
           o == Opposite(s)
           w0 == t[o][p]
           u == IF t.red[w0]
                THEN rotate([t EXCEPT !.red[w0] = FALSE, !.red[p] = TRUE], p, s)
                ELSE t
           w == u[o][p]
           far == ~u.red[u[o][w]]
           v == IF far
                THEN rotate([u EXCEPT !.red[u[s][w]] = FALSE, !.red[w] = TRUE], w, o)
                ELSE u
           x == v[o][p]
       IN  IF ~u.red[u.left[w]] /\ ~u.red[u.right[w]]
           THEN delete_rebalance([u EXCEPT !.red[w] = TRUE], p)
           ELSE LET y == rotate([v EXCEPT !.red[x] = v.red[p], !.red[p] = FALSE,
                                          !.red[v[o][x]] = FALSE], p, s)
                IN  [y EXCEPT !.red[y.root] = FALSE]

\* The fields of a node that has been taken out.
Cleared(t, n) ==
  [t EXCEPT !.left[n] = Null, !.right[n] = Null, !.parent[n] = Null, !.key[n] = 0]

\* subst takes the place, the children and the colour of n.
Substitute(t, n, subst) ==
  LET u == [t EXCEPT !.left[subst] = t.left[n], !.right[subst] = t.right[n],
                     !.parent[subst] = t.parent[n], !.red[subst] = t.red[n]]
      v == Relink(u, n, subst)
  IN  Adopt(Adopt(v, v.left[subst], subst), v.right[subst], subst)

rbtree_delete(t, n) ==
  LET subst == IF t.left[n] = Nil \/ t.right[n] = Nil THEN n
               ELSE rbtree_min(t, t.right[n])
      temp == IF t.left[subst] = Nil THEN t.right[subst] ELSE t.left[subst]
      up == IF subst # n /\ t.parent[subst] = n THEN subst ELSE t.parent[subst]
      u == [Relink(t, subst, temp) EXCEPT !.parent[temp] = up]
      v == Cleared(IF subst = n THEN u ELSE Substitute(u, n, subst), n)
  IN  IF subst = t.root
      THEN Cleared([t EXCEPT !.root = temp, !.red[temp] = FALSE], n)
      ELSE IF t.red[subst] THEN v ELSE delete_rebalance(v, temp)

-----------------------------------------------------------------------------
(* The tree by itself: any node may be inserted or deleted.                 *)

RECURSIVE InOrder(_, _)
InOrder(t, n) ==
  IF n = Nil THEN <<>>
  ELSE InOrder(t, t.left[n]) \o <<n>> \o InOrder(t, t.right[n])

Listed(t) == InOrder(t, t.root)
Contents(t) == {Listed(t)[i] : i \in 1 .. Len(Listed(t))}

TreeInit == tree = rbtree_init

Insert(n, k) ==
  /\ n \notin Contents(tree)
  /\ tree' = rbtree_insert([tree EXCEPT !.key[n] = k], n)

Delete(n) == n \in Contents(tree) /\ tree' = rbtree_delete(tree, n)

TreeNext == \E n \in Node : Delete(n) \/ \E k \in KeyOf[n] : Insert(n, k)

TreeSpec == TreeInit /\ [][TreeNext]_tree

-----------------------------------------------------------------------------
\* Black nodes on every way down from n, or -1 when two ways differ or a red
\* node has a red child.
RECURSIVE BlackHeight(_, _)
BlackHeight(t, n) ==
  IF n = Nil THEN 0
  ELSE LET l == BlackHeight(t, t.left[n])
           r == BlackHeight(t, t.right[n])
       IN  IF \/ l = -1 \/ l # r
              \/ t.red[n] /\ (t.red[t.left[n]] \/ t.red[t.right[n]])
           THEN -1 ELSE l + IF t.red[n] THEN 0 ELSE 1

\* The rotations and recolourings of rbtree_insert and rbtree_delete keep the
\* tree balanced: a black root and sentinel, no red node below a red one, the
\* same number of black nodes on every way down.
RedBlack ==
  /\ ~tree.red[tree.root] /\ ~tree.red[Nil]
  /\ BlackHeight(tree, tree.root) # -1

\* The parent links the rebalancing loops climb are those of the tree.  The
\* root's link is left stale by rbtree_delete and never followed.
ParentLinks ==
  \A n \in Contents(tree) \ {tree.root} :
    /\ tree.parent[n] \in Contents(tree)
    /\ n \in {tree.left[tree.parent[n]], tree.right[tree.parent[n]]}

\* What the searches and the rebalancing of the tree rely on, after every insertion and
\* every deletion: its balance, and the links they climb.
TreeSound == RedBlack /\ ParentLinks

List == INSTANCE SortedList WITH
          list <- Listed(tree), keyof <- [n \in Node |-> tree.key[n]]

\* rbtree_insert and rbtree_delete are an insertion into and a deletion from a
\* sorted list in which equal keys keep the order of their arrival.
ImplementsSortedList == List!Spec
=============================================================================

------------------------------- MODULE RbTree -------------------------------
(***************************************************************************)
(* The red-black tree of the bundled wepoll library (wepoll.c), which maps *)
(* SOCKET values to sock_states and epoll handles to ports.  A node is     *)
(* named by its key; 0 is NULL.  left, right, parent and red are the       *)
(* fields of tree_node_t, as functions of the node.                        *)
(***************************************************************************)
EXTENDS Integers, FiniteSets

CONSTANT Keys           \* a finite set of positive integers

VARIABLES tree, held    \* the tree_t with its nodes; the keys added, not deleted

vars == <<tree, held>>

Child(t, side, n) == t[side][n]
Red(t, n) == n # 0 /\ t.red[n]
Set(t, field, n, v) == [t EXCEPT ![field][n] = v]
Other(side) == IF side = "left" THEN "right" ELSE "left"

\* the side of its parent on which n hangs
SideOf(t, n, p) == IF t.left[p] = n THEN "left" ELSE "right"

\* parent's link to old now leads to new (the root when there is no parent)
Relink(t, parent, old, new) ==
  IF parent = 0 THEN [t EXCEPT !.root = new]
  ELSE Set(t, SideOf(t, old, parent), parent, new)

\* TREE__ROTATE(cis, trans) about p
Rotate(t, cis, p) ==
  LET trans == Other(cis)
      q     == t[trans][p]
      inner == t[cis][q]
      a == Relink(t, t.parent[p], p, q)
      b == [a EXCEPT !.parent[q] = t.parent[p], !.parent[p] = q,
                     ![trans][p] = inner, ![cis][q] = p]
  IN  IF inner = 0 THEN b ELSE [b EXCEPT !.parent[inner] = p]

-----------------------------------------------------------------------------
(* tree_add *)

RECURSIVE Descend(_, _, _)
\* the node below which k belongs, or the node that already has it
Descend(t, n, k) ==
  LET side == IF k < n THEN "left" ELSE "right"
  IN  IF k = n \/ t[side][n] = 0 THEN n ELSE Descend(t, t[side][n], k)

RECURSIVE RebalanceAfterInsert(_, _)
MutantUncleRed(t, grandparent, trans) == FALSE

UncleRed(t, grandparent, trans) == Red(t, t[trans][grandparent])

RebalanceAfterInsert(t, node) ==
  LET parent      == t.parent[node]
      grandparent == t.parent[parent]
      cis         == SideOf(t, parent, grandparent)
      trans       == Other(cis)
      uncle       == t[trans][grandparent]
      twisted     == node = t[trans][parent]
      straight    == IF twisted THEN Rotate(t, cis, parent) ELSE t
      low         == IF twisted THEN parent ELSE node
      top         == straight.parent[low]
      painted     == [straight EXCEPT !.red[top] = FALSE, !.red[grandparent] = TRUE]
  IN  IF ~Red(t, parent) THEN t
      ELSE IF UncleRed(t, grandparent, trans)
        THEN RebalanceAfterInsert(
               [t EXCEPT !.red[parent] = FALSE, !.red[uncle] = FALSE,
                         !.red[grandparent] = TRUE], grandparent)
      ELSE RebalanceAfterInsert(Rotate(painted, trans, grandparent), low)

\* the tree after tree_add of a key it does not have
Added(t, k) ==
  LET parent == IF t.root = 0 THEN 0 ELSE Descend(t, t.root, k)
      linked == IF parent = 0 THEN [t EXCEPT !.root = k]
                ELSE Set(t, IF k < parent THEN "left" ELSE "right", parent, k)
      fresh  == [linked EXCEPT !.left[k] = 0, !.right[k] = 0,
                               !.parent[k] = parent, !.red[k] = TRUE]
      done   == RebalanceAfterInsert(fresh, k)
  IN  [done EXCEPT !.red[done.root] = FALSE]

-----------------------------------------------------------------------------
(* tree_del *)

RECURSIVE Leftmost(_, _)
Leftmost(t, n) == IF t.left[n] = 0 THEN n ELSE Leftmost(t, t.left[n])

RECURSIVE RebalanceAfterRemove(_, _, _)
RebalanceAfterRemove(t, node, parent) ==
  LET cis     == SideOf(t, node, parent)
      trans   == Other(cis)
      s0      == t[trans][parent]
      a       == IF t.red[s0]
                   THEN Rotate([t EXCEPT !.red[s0] = FALSE, !.red[parent] = TRUE],
                               cis, parent)
                   ELSE t
      s1      == a[trans][parent]
      redKid  == Red(a, a.left[s1]) \/ Red(a, a.right[s1])
      b       == IF ~Red(a, a[trans][s1])
                   THEN Rotate([a EXCEPT !.red[a[cis][s1]] = FALSE,
                                         !.red[s1] = TRUE], trans, s1)
                   ELSE a
      s2      == b[trans][parent]
      c       == Rotate([b EXCEPT !.red[s2] = b.red[parent], !.red[parent] = FALSE,
                                  !.red[b[trans][s2]] = FALSE], cis, parent)
      d       == [a EXCEPT !.red[s1] = TRUE]
  IN  IF node = t.root THEN [t EXCEPT !.red[node] = FALSE]
      ELSE IF redKid THEN [c EXCEPT !.red[c.root] = FALSE]
      ELSE IF d.red[parent] THEN [d EXCEPT !.red[parent] = FALSE]
      ELSE RebalanceAfterRemove(d, parent, d.parent[parent])

\* the colour that leaves the tree: the successor's when node has two children
ColourGone(t, node, next) ==
  IF t.left[node] # 0 /\ t.right[node] # 0 THEN t.red[next] ELSE t.red[node]

\* the tree after tree_del(node): next takes node's place, child takes next's
Deleted(t, node) ==
  LET left   == t.left[node]
      right  == t.right[node]
      both   == left # 0 /\ right # 0
      next   == IF left = 0 THEN right ELSE IF right = 0 THEN left
                ELSE Leftmost(t, right)
      linked == Relink(t, t.parent[node], node, next)
      child  == IF both THEN t.right[next] ELSE next
      parent == IF ~both THEN t.parent[node]
                ELSE IF next # right THEN t.parent[next] ELSE next
      seated == IF ~both THEN linked
                ELSE [linked EXCEPT !.red[next] = t.red[node], !.left[next] = left,
                                    !.parent[left] = next,
                                    !.parent[next] = t.parent[node]]
      moved  == IF both /\ next # right
                  THEN [seated EXCEPT !.left[parent] = child, !.right[next] = right,
                                      !.parent[right] = next]
                  ELSE seated
      hung   == IF child = 0 THEN moved ELSE [moved EXCEPT !.parent[child] = parent]
      gone   == [hung EXCEPT !.left[node] = 0, !.right[node] = 0,
                             !.parent[node] = 0, !.red[node] = FALSE]
  IN  IF ColourGone(t, node, next) THEN gone
      ELSE IF Red(gone, child) THEN [gone EXCEPT !.red[child] = FALSE]
      ELSE IF gone.root = 0 THEN gone
      ELSE RebalanceAfterRemove(gone, child, parent)

-----------------------------------------------------------------------------
RECURSIVE Find(_, _, _)
\* tree_find
Find(t, n, k) ==
  IF n = 0 \/ n = k THEN n
  ELSE Find(t, IF k < n THEN t.left[n] ELSE t.right[n], k)

NoNode == [n \in Keys |-> 0]

Init == /\ tree = [root |-> 0, left |-> NoNode, right |-> NoNode,
                   parent |-> NoNode, red |-> [n \in Keys |-> FALSE]]
        /\ held = {}

Add(k) == /\ held' = held \cup {k}
          /\ tree' = IF Find(tree, tree.root, k) = k THEN tree ELSE Added(tree, k)
Del(k) == /\ Find(tree, tree.root, k) = k
          /\ tree' = Deleted(tree, k)
          /\ held' = held \ {k}

Next == \E k \in Keys : Add(k) \/ Del(k)

Spec == Init /\ [][Next]_vars

-----------------------------------------------------------------------------
RECURSIVE Below(_, _)
Below(t, n) ==
  IF n = 0 THEN {} ELSE {n} \cup Below(t, t.left[n]) \cup Below(t, t.right[n])

RECURSIVE BlackHeights(_, _)
BlackHeights(t, n) ==
  IF n = 0 THEN {0}
  ELSE {h + (IF t.red[n] THEN 0 ELSE 1) :
          h \in BlackHeights(t, t.left[n]) \cup BlackHeights(t, t.right[n])}

\* tree_find finds exactly the keys that were added and not deleted, whatever
\* the order of tree_add and tree_del.
FindsHeld == {k \in Keys : Find(tree, tree.root, k) = k} = held

\* Every tree_add and tree_del leaves a red-black tree: links agree both ways,
\* no red node has a red child, every path has the same number of black nodes.
RedBlack ==
  /\ Below(tree, tree.root) = held
  /\ tree.root # 0 => ~tree.red[tree.root] /\ tree.parent[tree.root] = 0
  /\ \A n \in held : \A side \in {"left", "right"} :
       tree[side][n] # 0 => /\ tree.parent[tree[side][n]] = n
                            /\ ~(tree.red[n] /\ tree.red[tree[side][n]])
  /\ Cardinality(BlackHeights(tree, tree.root)) = 1
=============================================================================

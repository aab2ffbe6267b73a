------------------------------- MODULE RBTree -------------------------------
(* The red-black tree of lib/internal/rbtree.c.  A node is named by its key; *)
(* NULL is 0.  A tree is a record of the node fields, as functions of the    *)
(* key, so that the rotations and the fix-up loop are functions of trees.    *)
EXTENDS Integers, Sequences, FiniteSets, FiniteSetsExt, SequencesExt

CONSTANTS
  Keys,       \* keys the caller uses
  Values,     \* values the caller stores
  Deletes     \* "spared": the caller deletes no black leaf; "any"; "none"

VARIABLES
  tree,       \* root, size and the fields of the nodes
  map,        \* what an ordered map would hold: key -> value
  looped,     \* delete_fixup entered its loop with a node
  crashed     \* NULL was dereferenced

vars == <<tree, map, looped, crashed>>

NULL == 0
RED == "red"
BLACK == "black"

Nodes == Keys
NoNode == [k \in Nodes |-> NULL]

Init ==
  /\ tree = [root |-> NULL, size |-> 0, parent |-> NoNode, left |-> NoNode,
             right |-> NoNode, color |-> [k \in Nodes |-> RED],
             value |-> [k \in Nodes |-> NULL]]
  /\ map = <<>> /\ looped = FALSE /\ crashed = FALSE

-----------------------------------------------------------------------------
(* Fields and rotations *)

SetColor(t, n, c) == [t EXCEPT !.color[n] = c]

\* if (n) n->parent = p
SetParent(t, n, p) == IF n = NULL THEN t ELSE [t EXCEPT !.parent[n] = p]

\* The link of u's parent that leads to u now leads to v.
Relink(t, u, v) ==
  LET p == t.parent[u]
  IN IF p = NULL THEN [t EXCEPT !.root = v]
     ELSE IF u = t.left[p] THEN [t EXCEPT !.left[p] = v]
     ELSE [t EXCEPT !.right[p] = v]

\* Mutant of rotate_left: the subtree that changes sides keeps its old parent.
rotate_leftStale(t, x) ==
  LET y == t.right[x]
      down == [t EXCEPT !.right[x] = t.left[y]]
      up == [Relink(down, x, y) EXCEPT !.parent[y] = t.parent[x]]
  IN [up EXCEPT !.left[y] = x, !.parent[x] = y]

rotate_left(t, x) ==
  LET y == t.right[x]
      down == SetParent([t EXCEPT !.right[x] = t.left[y]], t.left[y], x)
      up == [Relink(down, x, y) EXCEPT !.parent[y] = t.parent[x]]
  IN [up EXCEPT !.left[y] = x, !.parent[x] = y]

rotate_right(t, y) ==
  LET x == t.left[y]
      down == SetParent([t EXCEPT !.left[y] = t.right[x]], t.right[x], y)
      up == [Relink(down, y, x) EXCEPT !.parent[x] = t.parent[y]]
  IN [up EXCEPT !.right[x] = y, !.parent[y] = x]

-----------------------------------------------------------------------------
(* Search and insertion *)

RECURSIVE Descend(_, _, _, _)
\* The node with the key, or NULL, and the last node on the way to it.
Descend(t, key, x, last) ==
  IF x = NULL \/ x = key THEN [node |-> x, last |-> last]
  ELSE Descend(t, key, IF key < x THEN t.left[x] ELSE t.right[x], x)

tree_search(t, key) == Descend(t, key, t.root, NULL).node

\* The uncle is red: the parent and the uncle turn black, the grandparent red.
Recolor(t, p, y) ==
  [t EXCEPT !.color[p] = BLACK, !.color[y] = BLACK, !.color[t.parent[p]] = RED]

\* The uncle is black and z an outer grandchild: recolour and rotate.
Outer(t, z, leftSide) ==
  LET p == t.parent[z]
      g == t.parent[p]
      c == [t EXCEPT !.color[p] = BLACK, !.color[g] = RED]
  IN IF leftSide THEN rotate_right(c, g) ELSE rotate_left(c, g)

RECURSIVE Fixup(_, _)
\* The loop of insert_fixup.
Fixup(t, z) ==
  LET p == t.parent[z]
  IN IF p = NULL \/ t.color[p] = BLACK THEN t
     ELSE LET g == t.parent[p]
              leftSide == p = t.left[g]
              y == IF leftSide THEN t.right[g] ELSE t.left[g]
              inner == z = IF leftSide THEN t.right[p] ELSE t.left[p]
          IN IF y # NULL /\ t.color[y] = RED THEN Fixup(Recolor(t, p, y), g)
             ELSE IF inner
             THEN LET r == IF leftSide THEN rotate_left(t, p) ELSE rotate_right(t, p)
                  IN Fixup(Outer(r, p, leftSide), p)
             ELSE Fixup(Outer(t, z, leftSide), z)

\* insert_fixup: the loop, and the root turns black.
insert_fixup(t, z) == LET f == Fixup(t, z) IN SetColor(f, f.root, BLACK)

\* SNEPPX_rbtree_insert of a key that is not in the tree.
Attach(t, key, value, y) ==
  LET z == [t EXCEPT !.parent[key] = y, !.left[key] = NULL, !.right[key] = NULL,
                     !.color[key] = RED, !.value[key] = value, !.size = t.size + 1]
      linked == IF y = NULL THEN [z EXCEPT !.root = key]
                ELSE IF key < y THEN [z EXCEPT !.left[y] = key]
                ELSE [z EXCEPT !.right[y] = key]
  IN insert_fixup(linked, key)

\* SNEPPX_rbtree_insert: an existing key has its value replaced.  When node_create
\* fails it returns -1 and nothing changes, as delete does for an absent key.
Insert(key, value) ==
  /\ ~crashed
  /\ LET d == Descend(tree, key, tree.root, NULL)
     IN tree' = IF d.node # NULL THEN [tree EXCEPT !.value[key] = value]
                ELSE Attach(tree, key, value, d.last)
  /\ map' = [k \in DOMAIN map \cup {key} |-> IF k = key THEN value ELSE map[k]]
  /\ UNCHANGED <<looped, crashed>>

-----------------------------------------------------------------------------
(* Deletion *)

RECURSIVE tree_minimum(_, _)
tree_minimum(t, n) == IF t.left[n] = NULL THEN n ELSE tree_minimum(t, t.left[n])

RECURSIVE tree_maximum(_, _)
tree_maximum(t, n) == IF t.right[n] = NULL THEN n ELSE tree_maximum(t, t.right[n])

transplant(t, u, v) == SetParent(Relink(t, u, v), v, t.parent[u])

\* z has two children and its successor y takes its place.
Splice(t, z, y) ==
  LET x == t.right[y]
      freed == IF t.parent[y] = z THEN SetParent(t, x, y)
               ELSE LET m == transplant(t, y, x)
                        n == [m EXCEPT !.right[y] = m.right[z]]
                    IN SetParent(n, n.right[y], y)
      moved == transplant(freed, z, y)
      joined == [moved EXCEPT !.left[y] = moved.left[z]]
  IN [SetParent(joined, joined.left[y], y) EXCEPT !.color[y] = t.color[z]]

\* The node that leaves its place and the node that replaces it.
Removed(t, z) ==
  IF t.left[z] # NULL /\ t.right[z] # NULL THEN tree_minimum(t, t.right[z]) ELSE z
Replacement(t, z) ==
  LET y == Removed(t, z) IN IF t.left[y] = NULL THEN t.right[y] ELSE t.left[y]

node_free(t, z) ==
  [t EXCEPT !.parent[z] = NULL, !.left[z] = NULL, !.right[z] = NULL,
            !.color[z] = RED, !.value[z] = NULL]

Unlink(t, z) ==
  LET y == Removed(t, z)
      u == IF y = z THEN transplant(t, z, Replacement(t, z)) ELSE Splice(t, z, y)
  IN [node_free(u, z) EXCEPT !.size = t.size - 1]

\* What delete_fixup(x) meets on its first test: x is NULL and the tree is not
\* empty, and the loop reads x->parent; x is a black node other than the root,
\* and the loop runs; or the loop is skipped and x, if any, turns black.
FixupMeets(t, x) ==
  IF x = NULL THEN IF t.root # NULL THEN "null" ELSE "done"
  ELSE IF x # t.root /\ t.color[x] = BLACK THEN "loop" ELSE "done"

delete_fixup(t, x) == IF x = NULL THEN t ELSE SetColor(t, x, BLACK)

\* SNEPPX_rbtree_delete.
Delete(key) ==
  /\ ~crashed /\ Deletes # "none"
  /\ LET z == tree_search(tree, key)
         x == Replacement(tree, z)
         black == tree.color[Removed(tree, z)] = BLACK
         t == Unlink(tree, z)
     IN /\ z # NULL
        /\ Deletes = "spared" => ~(black /\ FixupMeets(t, x) = "null")
        /\ tree' = IF black THEN delete_fixup(t, x) ELSE t
        /\ looped' = (looped \/ (black /\ FixupMeets(t, x) = "loop"))
        /\ crashed' = (black /\ FixupMeets(t, x) = "null")
  /\ map' = [k \in DOMAIN map \ {key} |-> map[k]]

Next ==
  \/ \E k \in Keys, v \in Values : Insert(k, v)
  \/ \E k \in Keys : Delete(k)

Spec == Init /\ [][Next]_vars

-----------------------------------------------------------------------------
(* Queries *)

RECURSIVE inorder_collect(_, _)
\* The order in which foreach visits, and destroy frees, the nodes below n.
inorder_collect(t, n) ==
  IF n = NULL THEN <<>>
  ELSE inorder_collect(t, t.left[n]) \o <<n>> \o inorder_collect(t, t.right[n])

RECURSIVE Climb(_, _, _)
\* The first ancestor reached from the other side than side leads to.
Climb(t, n, side) ==
  LET p == t.parent[n]
  IN IF p # NULL /\ n = side[p] THEN Climb(t, p, side) ELSE p

successor(t, key) ==
  LET n == tree_search(t, key)
  IN IF n = NULL THEN NULL
     ELSE IF t.right[n] # NULL THEN tree_minimum(t, t.right[n]) ELSE Climb(t, n, t.right)

predecessor(t, key) ==
  LET n == tree_search(t, key)
  IN IF n = NULL THEN NULL
     ELSE IF t.left[n] # NULL THEN tree_maximum(t, t.left[n]) ELSE Climb(t, n, t.left)

-----------------------------------------------------------------------------
(* Properties *)

InTree == ToSet(inorder_collect(tree, tree.root))

RECURSIVE BlackHeights(_)
\* The numbers of black nodes on the paths from n down to a leaf.
BlackHeights(n) ==
  IF n = NULL THEN {0}
  ELSE {h + (IF tree.color[n] = BLACK THEN 1 ELSE 0) :
          h \in BlackHeights(tree.left[n]) \cup BlackHeights(tree.right[n])}

\* Any sequence of inserts and deletes leaves the tree balanced: the root is
\* black, no red node has a red child and every path has the same black height.
Balanced ==
  ~crashed =>
    /\ tree.root # NULL => tree.color[tree.root] = BLACK
    /\ \A n \in InTree : tree.color[n] = RED =>
         \A c \in {tree.left[n], tree.right[n]} \ {NULL} : tree.color[c] = BLACK
    /\ Cardinality(BlackHeights(tree.root)) = 1

\* The loop of delete_fixup is never entered with a node: a black node with one
\* child has a red one.
LoopUnreached == ~looped

\* The tree is an ordered map: foreach visits the stored keys in increasing
\* order, size counts them, and search finds each with the value last inserted
\* and no other.
OrderedMap ==
  ~crashed =>
    /\ LET s == inorder_collect(tree, tree.root)
       IN ToSet(s) = DOMAIN map /\ \A i \in 2 .. Len(s) : s[i - 1] < s[i]
    /\ tree.size = Cardinality(DOMAIN map)
    /\ \A k \in Keys :
         IF k \in DOMAIN map THEN tree_search(tree, k) = k /\ tree.value[k] = map[k]
         ELSE tree_search(tree, k) = NULL

\* successor and predecessor, which climb by parent pointers, give the next and
\* the previous stored key, and 0 at the ends.
Neighbours ==
  ~crashed =>
    \A k \in DOMAIN map :
      LET above == {j \in DOMAIN map : j > k}
          below == {j \in DOMAIN map : j < k}
      IN /\ successor(tree, k) = IF above = {} THEN NULL ELSE Min(above)
         /\ predecessor(tree, k) = IF below = {} THEN NULL ELSE Max(below)

\* SNEPPX_rbtree_delete returns, with 0 or -1, for every key.
DeleteReturns == ~crashed
=============================================================================

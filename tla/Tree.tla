-------------------------------- MODULE Tree --------------------------------
(***************************************************************************)
(* tree.c: the AVL tree in which cyberd keeps its daemons by name, its     *)
(* spawned daemons by pid, and its sockets by descriptor.                  *)
(*                                                                         *)
(* A pointer to a node is the node itself, a record; the functions which   *)
(* are given the address of a pointer return the node it points to after.  *)
(* Those which call themselves on what is below a node are recursive       *)
(* functions on the pointers of the tree.  Elements are their keys.        *)
(*                                                                         *)
(* An operator named Wrong... is a bug which the one after it does not     *)
(* have: no module uses it, it is there to be put in its place, so that    *)
(* the properties are seen to fail.                                        *)
(***************************************************************************)
EXTENDS Integers, Sequences

CONSTANTS Elements, NULL

ASSUME ElementsAssumption == Elements \subseteq Int /\ NULL \notin Elements

VARIABLES
  tree,     \* tree->root
  returned  \* the element tree_remove() returned

vars == <<tree, returned>>

-----------------------------------------------------------------------------

(* The null pointer, of height 0. *)
Nil == [height |-> 0]

Node(e, l, r) ==
  [element |-> e, left |-> l, right |-> r,
   height  |-> 1 + IF l.height > r.height THEN l.height ELSE r.height]

(* The nodes of t, each with what is below it, level by level.               *)
Nodes(t) ==
  LET level[depth \in 0..t.height] ==
        IF depth = 0 THEN {t}
        ELSE LET above == level[depth - 1] \ {Nil} IN
             {x.left : x \in above} \cup {x.right : x \in above}
  IN  (UNION {level[depth] : depth \in 0..t.height - 1}) \ {Nil}

(* The pointers in t: itself, and the two of each node. *)
Pointers(t) == Nodes(t) \cup {Nil}

(* Where a loop ends which begins at t and goes on from x to next[x].        *)
Loop(t, next) ==
  LET current[turn \in 0..t.height] == IF turn = 0 THEN t ELSE next[current[turn - 1]]
  IN  current[t.height]

Balance(t) == IF t = Nil THEN 0 ELSE t.right.height - t.left.height

(* root->height = ... + 1, from the heights of the children. *)
Measured(t) == Node(t.element, t.left, t.right)

(* Wrong: the inner grandchild is not handed over.                           *)
WrongRotateRight(t) == Node(t.left.element, t.left.left,
                            Node(t.element, Nil, t.right))

RotateRight(t) == Node(t.left.element, t.left.left,
                       Node(t.element, t.left.right, t.right))
RotateLeft(t)  == Node(t.right.element,
                       Node(t.element, t.left, t.right.left), t.right.right)

RotateLeftRight(t) == RotateRight([t EXCEPT !.left = RotateLeft(@)])
RotateRightLeft(t) == RotateLeft([t EXCEPT !.right = RotateRight(@)])

(* tree_node_insert, after the recursive call on the side of e.              *)
InsertBalance(t, e) ==
  CASE e < t.element /\ Balance(t) = -2 ->
         IF e < t.left.element  THEN RotateRight(t) ELSE RotateLeftRight(t)
    [] e > t.element /\ Balance(t) = 2 ->
         IF e > t.right.element THEN RotateLeft(t)  ELSE RotateRightLeft(t)
    [] OTHER -> t

(* tree_node_insert.  An element which is in the tree makes it abort.        *)
InsertNode(t, e) ==
  LET insert[x \in Pointers(t)] ==
        IF x = Nil THEN Node(e, Nil, Nil)
        ELSE LET inserted == IF e < x.element
                             THEN [x EXCEPT !.left  = insert[x.left]]
                             ELSE [x EXCEPT !.right = insert[x.right]]
             IN  Measured(InsertBalance(inserted, e))
  IN  insert[t]

(* Wrong: a child in balance is taken for one which leans inwards.           *)
WrongRemoveBalance(t) ==
  CASE Balance(t) > 1  -> IF Balance(t.right) > 0 THEN RotateLeft(t)
                                                  ELSE RotateRightLeft(t)
    [] Balance(t) < -1 -> IF Balance(t.left) < 0  THEN RotateRight(t)
                                                  ELSE RotateLeftRight(t)
    [] OTHER           -> t

(* tree_node_remove, after the recursive call and the measure of the height. *)
RemoveBalance(t) ==
  CASE Balance(t) > 1  -> IF Balance(t.right) >= 0 THEN RotateLeft(t)
                                                   ELSE RotateRightLeft(t)
    [] Balance(t) < -1 -> IF Balance(t.left) <= 0  THEN RotateRight(t)
                                                   ELSE RotateLeftRight(t)
    [] OTHER           -> t

Leftmost(t) ==
  Loop(t, [x \in Nodes(t) |-> IF x.left = Nil THEN x ELSE x.left]).element

(* tree_node_remove: a node with two children is replaced by its successor,  *)
(* which is removed from the right subtree.                                  *)
RemoveNode(t, e) ==
  LET remove[p \in Pointers(t) \X Elements] ==
        LET x == p[1]
            k == p[2]
            removed ==
              IF k < x.element      THEN [x EXCEPT !.left  = remove[<<x.left, k>>]]
              ELSE IF k > x.element THEN [x EXCEPT !.right = remove[<<x.right, k>>]]
              ELSE IF x.left = Nil  THEN x.right
              ELSE IF x.right = Nil THEN x.left
              ELSE LET successor == Leftmost(x.right) IN
                   Node(successor, x.left, remove[<<x.right, successor>>])
        IN  IF x = Nil \/ removed = Nil THEN Nil ELSE RemoveBalance(Measured(removed))
  IN  remove[<<t, e>>]

(* Wrong: the search goes right from an element which is greater.            *)
WrongFind(t, e) ==
  Loop(t, [x \in Pointers(t) |-> IF x = Nil \/ x.element = e THEN x
                                 ELSE IF e < x.element THEN x.right ELSE x.left])

(* tree_find: the node of e, or Nil. *)
Find(t, e) ==
  Loop(t, [x \in Pointers(t) |-> IF x = Nil \/ x.element = e THEN x
                                 ELSE IF e < x.element THEN x.left ELSE x.right])

(* tree_last. *)
Last(t) ==
  IF t = Nil THEN NULL
  ELSE Loop(t, [x \in Nodes(t) |-> IF x.right = Nil THEN x ELSE x.right]).element

(* tree_node_preorder_mutate: the elements in the order they are visited.    *)
Preorder(t) ==
  LET visits[x \in Pointers(t)] ==
        IF x = Nil THEN << >> ELSE <<x.element>> \o visits[x.left] \o visits[x.right]
  IN  visits[t]

-----------------------------------------------------------------------------

Init == tree = Nil /\ returned = NULL

(* tree_insert, of an element which is not in the tree. *)
Insert(e) ==
  /\ Find(tree, e) = Nil
  /\ tree' = InsertNode(tree, e)
  /\ returned' = NULL

(* tree_remove. *)
Remove(e) ==
  /\ tree' = RemoveNode(tree, e)
  /\ returned' = IF Find(tree, e) = Nil THEN NULL ELSE e

Next == \E e \in Elements : Insert(e) \/ Remove(e)

Spec == Init /\ [][Next]_vars

-----------------------------------------------------------------------------
(* Properties. *)

Members == {t.element : t \in Nodes(tree)}

(* tree.h:11, "Balanced sorted binary tree, implemented as an AVL": at every *)
(* node the subtrees differ in height by one at most, and the height it has  *)
(* recorded is its height (so that later rotations are decided on the truth).*)
Balanced ==
  \A t \in Nodes(tree) : t.height = Measured(t).height /\ Balance(t) \in -1..1

(* tree_find finds each element which is in the tree and no other, tree_last *)
(* the greatest; a traversal meets each element exactly once, as spawns_stop *)
(* and the destruction of the daemons need.                                  *)
Searchable ==
  LET visits  == Preorder(tree)
      members == Members
  IN
  /\ \A e \in Elements : Find(tree, e) # Nil <=> e \in members
  /\ members # {} => Last(tree) \in members /\ \A e \in members : e <= Last(tree)
  /\ \A i, j \in 1..Len(visits) : visits[i] = visits[j] => i = j
  /\ {visits[i] : i \in 1..Len(visits)} = members

(* A tree implements a set of elements: whatever the rotations do, an        *)
(* operation adds or takes out its element, and no other.                    *)
AsSet == INSTANCE SortedSet WITH set <- Members
TreeIsSet == AsSet!Spec

=============================================================================

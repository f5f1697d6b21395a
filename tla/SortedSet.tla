----------------------------- MODULE SortedSet ------------------------------
(***************************************************************************)
(* What the users of tree.h rely on: a tree is a set of elements, which    *)
(* gives back the element it removes.                                      *)
(***************************************************************************)
CONSTANTS Elements, NULL

VARIABLES
  set,      \* the elements in the tree
  returned  \* what the last operation returned

Init == set = {} /\ returned = NULL

(* The users of a tree never insert an element which is in it.               *)
Insert(e) ==
  /\ returned' = NULL
  /\ e \notin set
  /\ set' = set \cup {e}

Remove(e) ==
  /\ \/ returned' = e    /\ e \in set
     \/ returned' = NULL /\ e \notin set
  /\ set' = set \ {e}

Next == \E e \in Elements : Insert(e) \/ Remove(e)

Spec == Init /\ [][Next]_<<set, returned>>

=============================================================================

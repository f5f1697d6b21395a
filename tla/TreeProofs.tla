----------------------------- MODULE TreeProofs -----------------------------
(***************************************************************************)
(* Proofs about Tree: what the rotations do to a tree which leans, and so  *)
(* what an insertion and a removal make of a balanced and sorted one.      *)
(***************************************************************************)
EXTENDS Tree, SequenceTheorems, WellFoundedInduction, TLAPS

(* Induction, over sets of numbers. *)

LEMMA LeastIn ==
  ASSUME NEW S, S \subseteq Nat, S # {}
  PROVE  \E x \in S : \A y \in S : x <= y
<1>. DEFINE R == OpToRel(<, Nat)
<1>1. \A x, y \in Nat : y < x => <<y, x>> \in R
  BY DEF OpToRel
<1>. HIDE DEF R
<1>2. IsWellFoundedOn(R, Nat)
  BY NatLessThanWellFounded DEF R
<1>3. PICK x \in S : \A y \in S : ~(<<y, x>> \in R)
  BY <1>2, WFMin
<1>4. \A y \in S : x <= y
  <2>. TAKE y \in S
  <2>1. x \in Nat /\ y \in Nat
    OBVIOUS
  <2>2. ~(y < x)
    BY <1>1, <1>3, <2>1
  <2>. QED BY <2>1, <2>2
<1>. QED BY <1>4

LEMMA FromBelow ==
  ASSUME NEW S, \A n \in Nat : (\A m \in Nat : m < n => m \in S) => n \in S
  PROVE  Nat \subseteq S
<1>. SUFFICES ASSUME Nat \ S # {} PROVE FALSE
  OBVIOUS
<1>1. PICK n \in Nat \ S : \A m \in Nat \ S : n <= m
  BY LeastIn
<1>2. \A m \in Nat : m < n => m \in S
  BY <1>1
<1>. QED BY <1>1, <1>2

LEMMA OneByOne ==
  ASSUME NEW S, 0 \in S, \A n \in Nat : n \in S => n + 1 \in S
  PROVE  Nat \subseteq S
<1>1. ASSUME NEW n \in Nat, \A m \in Nat : m < n => m \in S
      PROVE  n \in S
  <2>1. CASE n = 0
    BY <2>1
  <2>2. CASE n # 0
    <3>1. n - 1 \in Nat /\ n - 1 < n /\ (n - 1) + 1 = n
      BY <2>2
    <3>. QED BY <1>1, <3>1
  <2>. QED BY <2>1, <2>2
<1>. QED BY <1>1, FromBelow

-----------------------------------------------------------------------------
(* Balanced and sorted trees. *)

Below(S, e) == S \subseteq Int /\ \A k \in S : k < e
Above(S, e) == S \subseteq Int /\ \A k \in S : e < k

(* t is a node of e between l and r, of the elements L and R.                *)
Joined(t, E, e, l, L, r, R) ==
  /\ t = Node(e, l, r) /\ E = L \cup {e} \cup R
  /\ e \in Int /\ Below(L, e) /\ Above(R, e)
  /\ l.height \in Nat /\ r.height \in Nat

(* Each tree of W is empty or a balanced node between trees of W.            *)
Built(W) ==
  \A t, E : <<t, E>> \in W =>
    \/ t = Nil /\ E = {}
    \/ \E e, l, L, r, R :
         /\ <<l, L>> \in W /\ <<r, R>> \in W
         /\ Joined(t, E, e, l, L, r, R) /\ r.height - l.height \in -1..1

(* t is a balanced and sorted tree of the elements E, whose heights are true.*)
Avl(t, E) == \E W : <<t, E>> \in W /\ Built(W)

LEMMA NodeIs ==
  ASSUME NEW e, NEW l, NEW r, l.height \in Nat, r.height \in Nat
  PROVE  /\ Node(e, l, r).element = e /\ Node(e, l, r).left = l /\ Node(e, l, r).right = r
         /\ Node(e, l, r).height \in Nat
         /\ Node(e, l, r).height > l.height /\ Node(e, l, r).height > r.height
         /\ Node(e, l, r).height \in {l.height + 1, r.height + 1}
         /\ Node(e, l, r) # Nil
<1>1. Node(e, l, r).height = 1 + IF l.height > r.height THEN l.height ELSE r.height
  BY DEF Node
<1>2. Nil.height = 0
  BY DEF Nil
<1>3. /\ Node(e, l, r).height \in Nat
      /\ Node(e, l, r).height > l.height /\ Node(e, l, r).height > r.height
      /\ Node(e, l, r).height \in {l.height + 1, r.height + 1}
  BY <1>1
<1>4. Node(e, l, r) # Nil
  BY <1>2, <1>3
<1>. QED BY <1>3, <1>4 DEF Node

LEMMA NilIsAvl == Avl(Nil, {})
<1>. DEFINE W == {<<Nil, {}>>}
<1>1. <<Nil, {}>> \in W /\ Built(W)
  BY DEF Built
<1>. QED BY <1>1 DEF Avl

(* A balanced tree is empty, or a node between two balanced ones.            *)
LEMMA AvlParts ==
  ASSUME NEW t, NEW E, Avl(t, E)
  PROVE  \/ t = Nil /\ E = {}
         \/ \E e, l, L, r, R :
              /\ Avl(l, L) /\ Avl(r, R)
              /\ Joined(t, E, e, l, L, r, R) /\ r.height - l.height \in -1..1
<1>1. PICK W : <<t, E>> \in W /\ Built(W)
  BY DEF Avl
<1>2. \A l, L : <<l, L>> \in W => Avl(l, L)
  BY <1>1 DEF Avl
<1>. QED BY <1>1, <1>2 DEF Built

LEMMA AvlJoin ==
  ASSUME NEW t, NEW E, NEW e, NEW l, NEW L, NEW r, NEW R,
         Avl(l, L), Avl(r, R), Joined(t, E, e, l, L, r, R), r.height - l.height \in -1..1
  PROVE  Avl(t, E)
<1>1. PICK V : <<l, L>> \in V /\ Built(V)
  BY DEF Avl
<1>2. PICK U : <<r, R>> \in U /\ Built(U)
  BY DEF Avl
<1>. DEFINE W == V \cup U \cup {<<t, E>>}
<1>3. Built(W)
  <2>. SUFFICES ASSUME NEW x, NEW X, <<x, X>> \in W
                PROVE  \/ x = Nil /\ X = {}
                       \/ \E a, p, P, q, Q :
                            /\ <<p, P>> \in W /\ <<q, Q>> \in W
                            /\ Joined(x, X, a, p, P, q, Q) /\ q.height - p.height \in -1..1
    BY DEF Built
  <2>1. CASE <<x, X>> \in V
    BY <1>1, <2>1 DEF Built
  <2>2. CASE <<x, X>> \in U
    BY <1>2, <2>2 DEF Built
  <2>3. CASE x = t /\ X = E
    BY <1>1, <1>2, <2>3
  <2>. QED BY <2>1, <2>2, <2>3
<1>. QED BY <1>3 DEF Avl

(* Its height is a number, and 0 for the empty one only.                     *)
LEMMA AvlHeight ==
  ASSUME NEW t, NEW E, Avl(t, E)
  PROVE  t.height \in Nat /\ (t = Nil <=> t.height = 0) /\ (t = Nil <=> E = {}) /\ E \subseteq Int
<1>1. CASE t = Nil /\ E = {}
  BY <1>1 DEF Nil
<1>2. CASE t # Nil \/ E # {}
  <2>1. PICK e, l, L, r, R : Joined(t, E, e, l, L, r, R)
    BY <1>2, AvlParts
  <2>. QED BY <2>1, NodeIs DEF Joined, Below, Above, Nil
<1>. QED BY <1>1, <1>2

(* What is joined is a record of its parts. *)
LEMMA JoinedIs ==
  ASSUME NEW t, NEW E, NEW e, NEW l, NEW L, NEW r, NEW R, Joined(t, E, e, l, L, r, R)
  PROVE  /\ t.element = e /\ t.left = l /\ t.right = r /\ t # Nil
         /\ t.height \in Nat /\ t.height \in {l.height + 1, r.height + 1}
         /\ t.height > l.height /\ t.height > r.height
         /\ Balance(t) = r.height - l.height /\ Measured(t) = t
<1>1. /\ t.element = e /\ t.left = l /\ t.right = r /\ t # Nil
      /\ t.height \in Nat /\ t.height \in {l.height + 1, r.height + 1}
      /\ t.height > l.height /\ t.height > r.height
  BY NodeIs DEF Joined
<1>. QED BY <1>1 DEF Balance, Measured, Joined

-----------------------------------------------------------------------------
(* Rotations of a node which leans to one side by two. *)

(* t has the fields of a node, of elements in order.                         *)
Leaning(t, X, R) ==
  /\ t = [element |-> t.element, left |-> t.left, right |-> t.right, height |-> t.height]
  /\ t.element \in Int /\ Below(X, t.element) /\ Above(R, t.element)

LEMMA Joins ==
  ASSUME NEW e, NEW l, NEW L, NEW r, NEW R,
         Avl(l, L), Avl(r, R), e \in Int, Below(L, e), Above(R, e), r.height - l.height \in -1..1
  PROVE  Avl(Node(e, l, r), L \cup {e} \cup R)
<1>1. l.height \in Nat /\ r.height \in Nat
  BY AvlHeight
<1>2. Joined(Node(e, l, r), L \cup {e} \cup R, e, l, L, r, R)
  BY <1>1 DEF Joined
<1>. QED BY <1>2, AvlJoin

LEMMA RotatedRight ==
  ASSUME NEW t, NEW X, NEW R, Avl(t.left, X), Avl(t.right, R), Leaning(t, X, R),
         t.left.height = t.right.height + 2, Balance(t.left) \in {-1, 0}
  PROVE  /\ Avl(RotateRight(t), X \cup {t.element} \cup R)
         /\ RotateRight(t).height = t.right.height + 3 + Balance(t.left)
<1>1. PICK c, p, P, q, Q : Avl(p, P) /\ Avl(q, Q) /\ Joined(t.left, X, c, p, P, q, Q)
  BY AvlParts, AvlHeight
<1>. DEFINE a == t.element
            r == t.right
            y == Node(a, q, r)
<1>2. /\ t.left.element = c /\ t.left.left = p /\ t.left.right = q
      /\ q.height - p.height = Balance(t.left)
      /\ t.left.height \in {p.height + 1, q.height + 1}
      /\ t.left.height > p.height /\ t.left.height > q.height
  BY <1>1, JoinedIs
<1>3. RotateRight(t) = Node(c, p, y)
  BY <1>2 DEF RotateRight
<1>4. X = P \cup {c} \cup Q /\ c \in Int /\ Below(P, c) /\ Above(Q, c)
  BY <1>1 DEF Joined
<1>5. /\ a \in Int /\ c < a /\ Below(Q, a) /\ Above(R, a)
      /\ Above(Q \cup {a} \cup R, c)
  BY <1>4 DEF Leaning, Below, Above
<1>6. p.height \in Nat /\ q.height \in Nat /\ r.height \in Nat
  BY <1>1, AvlHeight
<1>7. p.height = r.height + 1 /\ q.height \in {r.height, r.height + 1}
       /\ q.height + 2 = r.height + 3 + Balance(t.left)
  BY <1>2, <1>6
<1>8. Avl(y, Q \cup {a} \cup R)
  BY <1>1, <1>5, <1>6, <1>7, Joins
<1>9. y.height = q.height + 1
  BY <1>6, <1>7 DEF Node
<1>10. Avl(Node(c, p, y), P \cup {c} \cup (Q \cup {a} \cup R))
  <2>. HIDE DEF y, r, a
  <2>1. y.height - p.height \in -1..1
    BY <1>6, <1>7, <1>9
  <2>. QED BY <1>1, <1>4, <1>5, <1>8, <2>1, Joins
<1>11. P \cup {c} \cup (Q \cup {a} \cup R) = X \cup {a} \cup R
  BY <1>4
<1>12. Node(c, p, y).height = q.height + 2
  <2>. HIDE DEF y
  <2>. QED BY <1>6, <1>7, <1>9 DEF Node
<1>. QED BY <1>3, <1>7, <1>10, <1>11, <1>12

LEMMA RotatedLeftRight ==
  ASSUME NEW t, NEW X, NEW R, Avl(t.left, X), Avl(t.right, R), Leaning(t, X, R),
         t.left.height = t.right.height + 2, Balance(t.left) = 1
  PROVE  /\ Avl(RotateLeftRight(t), X \cup {t.element} \cup R)
         /\ RotateLeftRight(t).height = t.right.height + 2
<1>1. PICK c, p, P, q, Q : Avl(p, P) /\ Avl(q, Q) /\ Joined(t.left, X, c, p, P, q, Q)
  BY AvlParts, AvlHeight
<1>2. /\ t.left.element = c /\ t.left.left = p /\ t.left.right = q
       /\ p.height \in Nat /\ q.height \in Nat /\ t.right.height \in Nat
       /\ p.height = t.right.height /\ q.height = t.right.height + 1
  <2>1. p.height \in Nat /\ q.height \in Nat /\ t.right.height \in Nat
    BY <1>1, AvlHeight
  <2>2. /\ t.left.element = c /\ t.left.left = p /\ t.left.right = q
        /\ t.left.height \in {p.height + 1, q.height + 1}
        /\ t.left.height > p.height /\ t.left.height > q.height
        /\ Balance(t.left) = q.height - p.height
    BY <1>1, JoinedIs
  <2>. QED BY <2>1, <2>2
<1>3. PICK d, u, U, v, V : /\ Avl(u, U) /\ Avl(v, V)
                            /\ Joined(q, Q, d, u, U, v, V) /\ v.height - u.height \in -1..1
  <2>1. q # Nil
    BY <1>2 DEF Nil
  <2>. QED BY <1>1, <2>1, AvlParts
<1>. DEFINE a == t.element
            r == t.right
            x == Node(c, p, u)
            y == Node(a, v, r)
            z == [t EXCEPT !.left = RotateLeft(@)]
<1>4. /\ t.left.element = c /\ t.left.left = p /\ t.left.right = q
      /\ q.element = d /\ q.left = u /\ q.right = v
      /\ q.height \in {u.height + 1, v.height + 1}
      /\ q.height > u.height /\ q.height > v.height
  <2>1. u.height \in Nat /\ v.height \in Nat
    BY <1>3, AvlHeight
  <2>. QED BY <1>2, <1>3, <2>1, JoinedIs
<1>5. RotateLeft(t.left) = Node(d, x, v)
  BY <1>4 DEF RotateLeft
<1>6. p.height \in Nat /\ u.height \in Nat /\ v.height \in Nat /\ r.height \in Nat
  BY <1>2, <1>3, AvlHeight
<1>7. x.height \in Nat
  BY <1>6, NodeIs
<1>8. RotateLeftRight(t) = Node(d, x, y)
  <2>1. z.left = Node(d, x, v) /\ z.element = a /\ z.right = r
    BY <1>5 DEF Leaning
  <2>2. z.left.element = d /\ z.left.left = x /\ z.left.right = v
    <3>. HIDE DEF x, z
    <3>. QED BY <2>1, <1>6, <1>7, NodeIs
  <2>. QED BY <2>1, <2>2 DEF RotateLeftRight, RotateRight
<1>9. /\ X = P \cup {c} \cup Q /\ c \in Int /\ Below(P, c) /\ Above(Q, c)
      /\ Q = U \cup {d} \cup V /\ d \in Int /\ Below(U, d) /\ Above(V, d)
  BY <1>1, <1>3 DEF Joined
<1>10. /\ a \in Int /\ c < d /\ d < a /\ Above(U, c) /\ Below(V, a) /\ Above(R, a)
      /\ Below(P \cup {c} \cup U, d) /\ Above(V \cup {a} \cup R, d)
  BY <1>9 DEF Leaning, Below, Above
<1>11. /\ u.height - p.height \in -1..1 /\ r.height - v.height \in -1..1
  BY <1>2, <1>3, <1>4, <1>6
<1>12. Avl(x, P \cup {c} \cup U) /\ Avl(y, V \cup {a} \cup R)
  BY <1>1, <1>3, <1>9, <1>10, <1>11, Joins
<1>13. x.height = p.height + 1 /\ y.height = p.height + 1
  BY <1>2, <1>3, <1>4, <1>6 DEF Node
<1>14. Avl(Node(d, x, y), (P \cup {c} \cup U) \cup {d} \cup (V \cup {a} \cup R))
  <2>. HIDE DEF x, y, a, r
  <2>1. y.height - x.height \in -1..1
    BY <1>6, <1>13
  <2>. QED BY <1>9, <1>10, <1>12, <2>1, Joins
<1>15. (P \cup {c} \cup U) \cup {d} \cup (V \cup {a} \cup R) = X \cup {a} \cup R
  BY <1>9
<1>16. Node(d, x, y).height = p.height + 2
  <2>. HIDE DEF x, y
  <2>. QED BY <1>6, <1>13 DEF Node
<1>. QED BY <1>2, <1>8, <1>14, <1>15, <1>16

LEMMA RotatedLeft ==
  ASSUME NEW t, NEW X, NEW L, Avl(t.right, X), Avl(t.left, L), Leaning(t, L, X),
         t.right.height = t.left.height + 2, Balance(t.right) \in {0, 1}
  PROVE  /\ Avl(RotateLeft(t), L \cup {t.element} \cup X)
         /\ RotateLeft(t).height = t.left.height + 3 - Balance(t.right)
<1>1. PICK c, p, P, q, Q : Avl(p, P) /\ Avl(q, Q) /\ Joined(t.right, X, c, p, P, q, Q)
  BY AvlParts, AvlHeight
<1>. DEFINE a == t.element
            l == t.left
            y == Node(a, l, p)
<1>2. /\ t.right.element = c /\ t.right.left = p /\ t.right.right = q
      /\ q.height - p.height = Balance(t.right)
      /\ t.right.height \in {p.height + 1, q.height + 1}
      /\ t.right.height > p.height /\ t.right.height > q.height
  BY <1>1, JoinedIs
<1>3. RotateLeft(t) = Node(c, y, q)
  BY <1>2 DEF RotateLeft
<1>4. X = P \cup {c} \cup Q /\ c \in Int /\ Below(P, c) /\ Above(Q, c)
  BY <1>1 DEF Joined
<1>5. /\ a \in Int /\ a < c /\ Above(P, a) /\ Below(L, a)
      /\ Below(L \cup {a} \cup P, c)
  BY <1>4 DEF Leaning, Below, Above
<1>6. p.height \in Nat /\ q.height \in Nat /\ l.height \in Nat
  BY <1>1, AvlHeight
<1>7. q.height = l.height + 1 /\ p.height \in {l.height, l.height + 1}
       /\ p.height + 2 = l.height + 3 - Balance(t.right)
  BY <1>2, <1>6
<1>8. Avl(y, L \cup {a} \cup P)
  BY <1>1, <1>5, <1>6, <1>7, Joins
<1>9. y.height = p.height + 1
  BY <1>6, <1>7 DEF Node
<1>10. Avl(Node(c, y, q), (L \cup {a} \cup P) \cup {c} \cup Q)
  <2>. HIDE DEF y, l, a
  <2>1. q.height - y.height \in -1..1
    BY <1>6, <1>7, <1>9
  <2>. QED BY <1>1, <1>4, <1>5, <1>8, <2>1, Joins
<1>11. (L \cup {a} \cup P) \cup {c} \cup Q = L \cup {a} \cup X
  BY <1>4
<1>12. Node(c, y, q).height = p.height + 2
  <2>. HIDE DEF y
  <2>. QED BY <1>6, <1>7, <1>9 DEF Node
<1>. QED BY <1>3, <1>7, <1>10, <1>11, <1>12

LEMMA RotatedRightLeft ==
  ASSUME NEW t, NEW X, NEW L, Avl(t.right, X), Avl(t.left, L), Leaning(t, L, X),
         t.right.height = t.left.height + 2, Balance(t.right) = -1
  PROVE  /\ Avl(RotateRightLeft(t), L \cup {t.element} \cup X)
         /\ RotateRightLeft(t).height = t.left.height + 2
<1>1. PICK c, p, P, q, Q : Avl(p, P) /\ Avl(q, Q) /\ Joined(t.right, X, c, p, P, q, Q)
  BY AvlParts, AvlHeight
<1>2. /\ t.right.element = c /\ t.right.left = p /\ t.right.right = q
       /\ p.height \in Nat /\ q.height \in Nat /\ t.left.height \in Nat
       /\ q.height = t.left.height /\ p.height = t.left.height + 1
  <2>1. p.height \in Nat /\ q.height \in Nat /\ t.left.height \in Nat
    BY <1>1, AvlHeight
  <2>2. /\ t.right.element = c /\ t.right.left = p /\ t.right.right = q
        /\ t.right.height \in {p.height + 1, q.height + 1}
        /\ t.right.height > p.height /\ t.right.height > q.height
        /\ Balance(t.right) = q.height - p.height
    BY <1>1, JoinedIs
  <2>. QED BY <2>1, <2>2
<1>3. PICK d, u, U, v, V : /\ Avl(u, U) /\ Avl(v, V)
                            /\ Joined(p, P, d, u, U, v, V) /\ v.height - u.height \in -1..1
  <2>1. p # Nil
    BY <1>2 DEF Nil
  <2>. QED BY <1>1, <2>1, AvlParts
<1>. DEFINE a == t.element
            l == t.left
            x == Node(a, l, u)
            y == Node(c, v, q)
            z == [t EXCEPT !.right = RotateRight(@)]
<1>4. /\ t.right.element = c /\ t.right.left = p /\ t.right.right = q
      /\ p.element = d /\ p.left = u /\ p.right = v
      /\ p.height \in {u.height + 1, v.height + 1}
      /\ p.height > u.height /\ p.height > v.height
  <2>1. u.height \in Nat /\ v.height \in Nat
    BY <1>3, AvlHeight
  <2>. QED BY <1>2, <1>3, <2>1, JoinedIs
<1>5. RotateRight(t.right) = Node(d, u, y)
  BY <1>4 DEF RotateRight
<1>6. q.height \in Nat /\ u.height \in Nat /\ v.height \in Nat /\ l.height \in Nat
  BY <1>2, <1>3, AvlHeight
<1>7. y.height \in Nat
  BY <1>6, NodeIs
<1>8. RotateRightLeft(t) = Node(d, x, y)
  <2>1. z.right = Node(d, u, y) /\ z.element = a /\ z.left = l
    BY <1>5 DEF Leaning
  <2>2. z.right.element = d /\ z.right.left = u /\ z.right.right = y
    <3>. HIDE DEF y, z
    <3>. QED BY <2>1, <1>6, <1>7, NodeIs
  <2>. QED BY <2>1, <2>2 DEF RotateRightLeft, RotateLeft
<1>9. /\ X = P \cup {c} \cup Q /\ c \in Int /\ Below(P, c) /\ Above(Q, c)
      /\ P = U \cup {d} \cup V /\ d \in Int /\ Below(U, d) /\ Above(V, d)
  BY <1>1, <1>3 DEF Joined
<1>10. /\ a \in Int /\ d < c /\ a < d /\ Below(V, c) /\ Above(U, a) /\ Below(L, a)
      /\ Below(L \cup {a} \cup U, d) /\ Above(V \cup {c} \cup Q, d)
  BY <1>9 DEF Leaning, Below, Above
<1>11. /\ u.height - l.height \in -1..1 /\ q.height - v.height \in -1..1
  BY <1>2, <1>3, <1>4, <1>6
<1>12. Avl(x, L \cup {a} \cup U) /\ Avl(y, V \cup {c} \cup Q)
  BY <1>1, <1>3, <1>9, <1>10, <1>11, Joins
<1>13. x.height = q.height + 1 /\ y.height = q.height + 1
  BY <1>2, <1>3, <1>4, <1>6 DEF Node
<1>14. Avl(Node(d, x, y), (L \cup {a} \cup U) \cup {d} \cup (V \cup {c} \cup Q))
  <2>. HIDE DEF x, y, a, l
  <2>1. y.height - x.height \in -1..1
    BY <1>6, <1>13
  <2>. QED BY <1>9, <1>10, <1>12, <2>1, Joins
<1>15. (L \cup {a} \cup U) \cup {d} \cup (V \cup {c} \cup Q) = L \cup {a} \cup X
  BY <1>9
<1>16. Node(d, x, y).height = q.height + 2
  <2>. HIDE DEF x, y
  <2>. QED BY <1>6, <1>13 DEF Node
<1>. QED BY <1>2, <1>8, <1>14, <1>15, <1>16

-----------------------------------------------------------------------------
(* The nodes of a balanced tree. *)

Levels(t, n, f) ==
  f = [depth \in 0..n |->
         IF depth = 0 THEN {t}
         ELSE {x.left : x \in f[depth - 1] \ {Nil}} \cup {x.right : x \in f[depth - 1] \ {Nil}}]

LEMMA LevelsAre ==
  ASSUME NEW t, t.height \in Nat
  PROVE  \E f : /\ Levels(t, t.height, f)
                /\ \A x : x \in Nodes(t) <=> x # Nil /\ \E d \in 0..t.height - 1 : x \in f[d]
<1>. DEFINE S == {n \in Nat : \E f : Levels(t, n, f)}
<1>1. 0 \in S
  <2>. DEFINE g == [depth \in 0..0 |-> {t}]
  <2>1. Levels(t, 0, g)
    BY DEF Levels
  <2>. QED BY <2>1
<1>2. ASSUME NEW n \in Nat, n \in S PROVE n + 1 \in S
  <2>1. PICK f : Levels(t, n, f)
    BY <1>2
  <2>. DEFINE up == f[n] \ {Nil}
              g == [depth \in 0..n + 1 |-> IF depth \in 0..n THEN f[depth]
                                            ELSE {x.left : x \in up} \cup {x.right : x \in up}]
              h == [depth \in 0..n + 1 |->
                      IF depth = 0 THEN {t}
                      ELSE {x.left : x \in g[depth - 1] \ {Nil}}
                           \cup {x.right : x \in g[depth - 1] \ {Nil}}]
  <2>2. ASSUME NEW d \in 0..n + 1 PROVE g[d] = h[d]
    <3>1. CASE d = 0
      <4>1. f[0] = {t}
        BY <2>1 DEF Levels
      <4>. QED BY <3>1, <4>1
    <3>2. CASE d \in 1..n
      <4>1. d - 1 \in 0..n /\ d \in 0..n /\ d # 0 /\ d - 1 \in 0..n + 1
        BY <3>2
      <4>2. g[d - 1] = f[d - 1] /\ g[d] = f[d]
        BY <4>1
      <4>3. f[d] = {x.left : x \in f[d - 1] \ {Nil}} \cup {x.right : x \in f[d - 1] \ {Nil}}
        BY <2>1, <4>1 DEF Levels
      <4>. HIDE DEF g
      <4>. QED BY <4>1, <4>2, <4>3
    <3>3. CASE d = n + 1
      <4>1. d # 0 /\ d \notin 0..n /\ d - 1 = n /\ n \in 0..n + 1 /\ n \in 0..n
        BY <3>3
      <4>2. g[n] = f[n] /\ g[d] = {x.left : x \in up} \cup {x.right : x \in up}
        BY <4>1
      <4>. HIDE DEF g
      <4>. QED BY <4>1, <4>2
    <3>. QED BY <3>1, <3>2, <3>3
  <2>3. g = h
    <3>1. DOMAIN g = DOMAIN h
      OBVIOUS
    <3>. QED BY <2>2
  <2>. HIDE DEF g
  <2>4. Levels(t, n + 1, g)
    BY <2>3 DEF Levels
  <2>. QED BY <2>4
<1>. HIDE DEF S
<1>3. t.height \in S
  BY <1>1, <1>2, OneByOne
<1>4. \E f : Levels(t, t.height, f)
  BY <1>3 DEF S
<1>. DEFINE f == CHOOSE f : Levels(t, t.height, f)
<1>5. Levels(t, t.height, f)
  BY <1>4
<1>6. Nodes(t) = (UNION {f[d] : d \in 0..t.height - 1}) \ {Nil}
  BY DEF Nodes, Levels
<1>. HIDE DEF f
<1>7. \A x : x \in Nodes(t) <=> x # Nil /\ \E d \in 0..t.height - 1 : x \in f[d]
  BY <1>6
<1>. QED BY <1>5, <1>7

(* Each of them is balanced, and has its two pointers among those of t.      *)
LEMMA NodesOf ==
  ASSUME NEW t, NEW E, Avl(t, E)
  PROVE  /\ t \in Pointers(t)
         /\ \A x \in Nodes(t) : x.left \in Pointers(t) /\ x.right \in Pointers(t)
         /\ \A x \in Pointers(t) : \E X : Avl(x, X) /\ X \subseteq E
         /\ \A x \in Pointers(t) : x.height <= t.height
<1>. DEFINE h == t.height
<1>1. h \in Nat /\ (t = Nil <=> h = 0)
  BY AvlHeight
<1>2. PICK f : /\ Levels(t, h, f)
               /\ \A x : x \in Nodes(t) <=> x # Nil /\ \E d \in 0..h - 1 : x \in f[d]
  BY <1>1, LevelsAre
<1>. HIDE DEF h
<1>. DEFINE Fits(d) == \A x \in f[d] : \E X : Avl(x, X) /\ X \subseteq E /\ x.height + d <= h
<1>3. ASSUME NEW d \in 0..h, d # 0
      PROVE  f[d] = {x.left : x \in f[d - 1] \ {Nil}} \cup {x.right : x \in f[d - 1] \ {Nil}}
  BY <1>2, <1>3 DEF Levels
<1>4. ASSUME NEW d \in 0..h, d # 0, Fits(d - 1)
      PROVE  Fits(d)
  <2>1. ASSUME NEW x \in f[d - 1] \ {Nil}
        PROVE  /\ \E X : Avl(x.left, X) /\ X \subseteq E /\ x.left.height + d <= h
               /\ \E X : Avl(x.right, X) /\ X \subseteq E /\ x.right.height + d <= h
    <3>1. PICK X : Avl(x, X) /\ X \subseteq E /\ x.height + (d - 1) <= h
      BY <1>4
    <3>2. PICK e, l, L, r, R : Avl(l, L) /\ Avl(r, R) /\ Joined(x, X, e, l, L, r, R)
      BY <3>1, AvlParts
    <3>3. /\ x.left = l /\ x.right = r /\ x.height > l.height /\ x.height > r.height
          /\ x.height \in Nat /\ l.height \in Nat /\ r.height \in Nat
      <4>1. l.height \in Nat /\ r.height \in Nat
        BY <3>2 DEF Joined
      <4>. QED BY <3>2, <4>1, JoinedIs
    <3>4. L \subseteq E /\ R \subseteq E
      BY <3>1, <3>2 DEF Joined
    <3>5. l.height + d <= h /\ r.height + d <= h
      BY <1>1, <3>1, <3>3
    <3>. QED BY <3>2, <3>3, <3>4, <3>5
  <2>. QED BY <1>3, <1>4, <2>1
<1>5. Fits(0)
  <2>1. f[0] = {t}
    BY <1>1, <1>2 DEF Levels
  <2>2. t.height + 0 <= h
    BY <1>1 DEF h
  <2>. QED BY <2>1, <2>2
<1>. HIDE DEF Fits
<1>6. \A d \in 0..h : Fits(d)
  <2>. DEFINE S == {d \in Nat : d \in 0..h => Fits(d)}
  <2>1. 0 \in S
    BY <1>5
  <2>2. ASSUME NEW n \in Nat, n \in S PROVE n + 1 \in S
    <3>1. n + 1 \in 0..h => n + 1 # 0 /\ n \in 0..h /\ (n + 1) - 1 = n
      BY <1>1
    <3>. QED BY <1>4, <2>2, <3>1
  <2>3. Nat \subseteq S
    <3>. HIDE DEF S
    <3>. QED BY <2>1, <2>2, OneByOne
  <2>. QED BY <2>3
<1>7. t \in Pointers(t)
  <2>1. CASE t = Nil
    BY <2>1 DEF Pointers
  <2>2. CASE t # Nil
    <3>1. 0 \in 0..h - 1 /\ f[0] = {t}
      BY <1>1, <1>2, <2>2 DEF Levels
    <3>. QED BY <1>2, <2>2, <3>1 DEF Pointers
  <2>. QED BY <2>1, <2>2
<1>8. ASSUME NEW x \in Nodes(t)
      PROVE  /\ x.left \in Pointers(t) /\ x.right \in Pointers(t)
             /\ \E X : Avl(x, X) /\ X \subseteq E /\ x.height <= h
  <2>1. PICK d \in 0..h - 1 : x \in f[d] /\ x # Nil
    BY <1>2
  <2>2. d \in 0..h /\ d + 1 \in 0..h /\ d + 1 # 0 /\ (d + 1) - 1 = d
    BY <1>1, <2>1
  <2>3. x.left \in f[d + 1] /\ x.right \in f[d + 1]
    BY <1>3, <2>1, <2>2
  <2>4. ASSUME NEW y \in f[d + 1] PROVE y \in Pointers(t)
    <3>1. CASE y = Nil
      BY <3>1 DEF Pointers
    <3>2. CASE y # Nil
      <4>1. PICK Y : Avl(y, Y) /\ y.height + (d + 1) <= h
        BY <1>6, <2>2 DEF Fits
      <4>2. y.height \in Nat /\ y.height # 0
        BY <3>2, <4>1, AvlHeight
      <4>3. d + 1 \in 0..h - 1
        BY <1>1, <2>2, <4>1, <4>2
      <4>. QED BY <1>2, <3>2, <4>3 DEF Pointers
    <3>. QED BY <3>1, <3>2
  <2>5. PICK X : Avl(x, X) /\ X \subseteq E /\ x.height + d <= h
    BY <1>6, <2>1, <2>2 DEF Fits
  <2>6. x.height <= h
    BY <1>1, <2>1, <2>5, AvlHeight
  <2>. QED BY <2>3, <2>4, <2>5, <2>6
<1>9. (\E X : Avl(Nil, X) /\ X \subseteq E) /\ Nil.height <= h
  BY <1>1, NilIsAvl DEF Nil
<1>. QED BY <1>7, <1>8, <1>9 DEF Pointers, h

LEMMA PointerHeight ==
  ASSUME NEW t, NEW E, Avl(t, E)
  PROVE  /\ \A x \in Pointers(t) : x.height \in Nat
         /\ \A x \in Nodes(t) : /\ x \in Pointers(t) /\ x # Nil
                                /\ x.left.height < x.height /\ x.right.height < x.height
         /\ \A x \in Pointers(t) : x # Nil => x \in Nodes(t)
<1>1. ASSUME NEW x \in Pointers(t) PROVE x.height \in Nat
  BY NodesOf, AvlHeight
<1>2. ASSUME NEW x \in Nodes(t)
      PROVE  /\ x \in Pointers(t) /\ x # Nil
             /\ x.left.height < x.height /\ x.right.height < x.height
  <2>1. x \in Pointers(t) /\ x # Nil
    BY DEF Pointers, Nodes
  <2>2. PICK X : Avl(x, X)
    BY <2>1, NodesOf
  <2>3. PICK e, l, L, r, R : Joined(x, X, e, l, L, r, R)
    BY <2>1, <2>2, AvlParts
  <2>4. l.height \in Nat /\ r.height \in Nat
    BY <2>3 DEF Joined
  <2>. QED BY <2>1, <2>3, <2>4, JoinedIs
<1>. QED BY <1>1, <1>2 DEF Pointers

(* What holds of the null pointer, and of a node if it holds of the two      *)
(* pointers in it, holds of all pointers.                                    *)
LEMMA FromChildren ==
  ASSUME NEW t, NEW E, Avl(t, E), NEW S, Nil \in S,
         \A x \in Nodes(t) : x.left \in S /\ x.right \in S => x \in S
  PROVE  Pointers(t) \subseteq S
<1>. DEFINE H == {n \in Nat : \A x \in Pointers(t) : x.height = n => x \in S}
<1>1. ASSUME NEW n \in Nat, \A m \in Nat : m < n => m \in H
      PROVE  n \in H
  <2>. SUFFICES ASSUME NEW x \in Pointers(t), x.height = n, x # Nil PROVE x \in S
    OBVIOUS
  <2>1. x \in Nodes(t) /\ x.left \in Pointers(t) /\ x.right \in Pointers(t)
    BY PointerHeight, NodesOf
  <2>2. /\ x.left.height \in Nat /\ x.left.height < n
        /\ x.right.height \in Nat /\ x.right.height < n
    BY <2>1, PointerHeight
  <2>. QED BY <1>1, <2>1, <2>2
<1>2. Nat \subseteq H
  <2>. HIDE DEF H
  <2>. QED BY <1>1, FromBelow
<1>. QED BY <1>2, PointerHeight

(* The elements of the nodes are the elements of the tree.                   *)
LEMMA ElementsOf ==
  ASSUME NEW t, NEW E, Avl(t, E)
  PROVE  {x.element : x \in Nodes(t)} = E
<1>. DEFINE M == {x.element : x \in Nodes(t)}
            S == {x \in Pointers(t) : \A X : Avl(x, X) => X \subseteq M}
<1>1. ASSUME NEW x \in Nodes(t) PROVE x.element \in E
  <2>1. PICK X : Avl(x, X) /\ X \subseteq E
    BY NodesOf, PointerHeight
  <2>2. PICK e, l, L, r, R : Joined(x, X, e, l, L, r, R)
    BY <2>1, AvlParts, PointerHeight
  <2>3. e \in X
    BY <2>2 DEF Joined
  <2>4. x.element = e
    BY <2>2, JoinedIs
  <2>. QED BY <2>1, <2>3, <2>4
<1>2. Nil \in S
  BY AvlHeight DEF Pointers
<1>3. ASSUME NEW x \in Nodes(t), x.left \in S, x.right \in S
      PROVE  x \in S
  <2>. SUFFICES ASSUME NEW X, Avl(x, X) PROVE X \subseteq M
    BY PointerHeight
  <2>1. PICK e, l, L, r, R : Avl(l, L) /\ Avl(r, R) /\ Joined(x, X, e, l, L, r, R)
    BY AvlParts, PointerHeight
  <2>2. x.element = e /\ x.left = l /\ x.right = r
    BY <2>1, JoinedIs
  <2>3. L \subseteq M /\ R \subseteq M
    BY <1>3, <2>1, <2>2
  <2>4. X = L \cup {e} \cup R
    BY <2>1 DEF Joined
  <2>. QED BY <2>2, <2>3, <2>4
<1>4. t \in S
  <2>. HIDE DEF S
  <2>. QED BY <1>2, <1>3, FromChildren, NodesOf
<1>. QED BY <1>1, <1>4

(* At every node of a balanced tree the height is true, and the subtrees     *)
(* differ by one at most.                                                    *)
LEMMA NodesAreBalanced ==
  ASSUME NEW t, NEW E, Avl(t, E), NEW x \in Nodes(t)
  PROVE  x.height = Measured(x).height /\ Balance(x) \in -1..1
<1>1. PICK X : Avl(x, X) /\ x # Nil
  BY NodesOf, PointerHeight
<1>2. PICK e, l, L, r, R : Joined(x, X, e, l, L, r, R) /\ r.height - l.height \in -1..1
  BY <1>1, AvlParts
<1>. QED BY <1>2, JoinedIs

-----------------------------------------------------------------------------
(* Loops. *)

Turns(t, next, n, f) ==
  f = [turn \in 0..n |-> IF turn = 0 THEN t ELSE next[f[turn - 1]]]

LEMMA LoopIs ==
  ASSUME NEW t, t.height \in Nat, NEW next
  PROVE  \E f : Turns(t, next, t.height, f) /\ Loop(t, next) = f[t.height]
<1>. DEFINE S == {n \in Nat : \E f : Turns(t, next, n, f)}
<1>1. 0 \in S
  <2>. DEFINE g == [turn \in 0..0 |-> t]
  <2>1. Turns(t, next, 0, g)
    BY DEF Turns
  <2>. QED BY <2>1
<1>2. ASSUME NEW n \in Nat, n \in S PROVE n + 1 \in S
  <2>1. PICK f : Turns(t, next, n, f)
    BY <1>2
  <2>. DEFINE g == [turn \in 0..n + 1 |-> IF turn \in 0..n THEN f[turn] ELSE next[f[n]]]
              h == [turn \in 0..n + 1 |-> IF turn = 0 THEN t ELSE next[g[turn - 1]]]
  <2>2. ASSUME NEW d \in 0..n + 1 PROVE g[d] = h[d]
    <3>1. CASE d = 0
      <4>1. f[0] = t
        BY <2>1 DEF Turns
      <4>. QED BY <3>1, <4>1
    <3>2. CASE d \in 1..n
      <4>1. d - 1 \in 0..n /\ d \in 0..n /\ d # 0 /\ d - 1 \in 0..n + 1
        BY <3>2
      <4>2. g[d - 1] = f[d - 1] /\ g[d] = f[d]
        BY <4>1
      <4>3. f[d] = next[f[d - 1]]
        BY <2>1, <4>1 DEF Turns
      <4>. HIDE DEF g
      <4>. QED BY <4>1, <4>2, <4>3
    <3>3. CASE d = n + 1
      <4>1. d # 0 /\ d \notin 0..n /\ d - 1 = n /\ n \in 0..n + 1 /\ n \in 0..n
        BY <3>3
      <4>2. g[n] = f[n] /\ g[d] = next[f[n]]
        BY <4>1
      <4>. HIDE DEF g
      <4>. QED BY <4>1, <4>2
    <3>. QED BY <3>1, <3>2, <3>3
  <2>3. g = h
    BY <2>2
  <2>. HIDE DEF g
  <2>4. Turns(t, next, n + 1, g)
    BY <2>3 DEF Turns
  <2>. QED BY <2>4
<1>. HIDE DEF S
<1>3. t.height \in S
  BY <1>1, <1>2, OneByOne
<1>4. \E f : Turns(t, next, t.height, f)
  BY <1>3 DEF S
<1>. DEFINE f == CHOOSE f : Turns(t, next, t.height, f)
<1>5. Turns(t, next, t.height, f)
  BY <1>4
<1>6. Loop(t, next) = f[t.height]
  BY DEF Loop, Turns
<1>. QED BY <1>5, <1>6

(* A loop which goes down, in a set it does not leave, ends in it.           *)
LEMMA LoopEnds ==
  ASSUME NEW t, NEW I, t \in I, NEW next,
         \A x \in I : x.height \in Nat /\ next[x] \in I
                      /\ (next[x] = x \/ next[x].height < x.height)
  PROVE  Loop(t, next) \in I /\ next[Loop(t, next)] = Loop(t, next)
<1>. DEFINE h == t.height
<1>1. h \in Nat
  OBVIOUS
<1>2. PICK f : Turns(t, next, h, f) /\ Loop(t, next) = f[h]
  BY <1>1, LoopIs
<1>. DEFINE Far(d) == f[d] \in I /\ (next[f[d]] = f[d] \/ f[d].height + d <= h)
            S == {d \in Nat : d \in 0..h => Far(d)}
<1>3. 0 \in S
  <2>1. f[0] = t
    BY <1>1, <1>2 DEF Turns
  <2>. QED BY <1>1, <2>1
<1>. HIDE DEF h
<1>4. ASSUME NEW n \in Nat, n \in S PROVE n + 1 \in S
  <2>. SUFFICES ASSUME n + 1 \in 0..h PROVE Far(n + 1)
    OBVIOUS
  <2>1. n \in 0..h /\ (n + 1) - 1 = n /\ n + 1 # 0
    BY <1>1
  <2>2. f[n + 1] = next[f[n]]
    BY <1>2, <2>1 DEF Turns
  <2>3. Far(n)
    BY <1>4, <2>1
  <2>4. /\ f[n] \in I /\ f[n].height \in Nat /\ next[f[n]] \in I /\ next[f[n]].height \in Nat
        /\ next[f[n]] = f[n] \/ next[f[n]].height < f[n].height
    BY <2>3
  <2>5. CASE next[f[n]] = f[n]
    BY <2>2, <2>4, <2>5
  <2>6. CASE next[f[n]] # f[n]
    <3>1. f[n].height + n <= h /\ next[f[n]].height < f[n].height
      BY <2>3, <2>4, <2>6
    <3>2. next[f[n]].height + (n + 1) <= h
      BY <1>1, <2>4, <3>1
    <3>. QED BY <2>2, <2>4, <3>2
  <2>. QED BY <2>5, <2>6
<1>5. Far(h)
  <2>. HIDE DEF S, Far
  <2>1. Nat \subseteq S
    BY <1>3, <1>4, OneByOne
  <2>. QED BY <1>1, <2>1 DEF S
<1>6. next[f[h]] = f[h]
  <2>. SUFFICES ASSUME f[h].height + h <= h PROVE next[f[h]] = f[h]
    BY <1>5
  <2>1. f[h].height \in Nat /\ next[f[h]].height \in Nat
    BY <1>5
  <2>2. ~(next[f[h]].height < f[h].height)
    BY <1>1, <2>1
  <2>. QED BY <1>5, <2>2
<1>. QED BY <1>2, <1>5, <1>6

(* tree_find finds what is there. *)
LEMMA FindFinds ==
  ASSUME NEW t, NEW E, Avl(t, E), NEW e \in Int
  PROVE  Find(t, e) # Nil <=> e \in E
<1>. DEFINE next == [x \in Pointers(t) |-> IF x = Nil \/ x.element = e THEN x
                                           ELSE IF e < x.element THEN x.left ELSE x.right]
            I == {x \in Pointers(t) : \E X : Avl(x, X) /\ (e \in X <=> e \in E)}
            y == Loop(t, next)
<1>1. t \in I
  BY NodesOf
<1>2. ASSUME NEW x \in I, x # Nil, x.element # e
      PROVE  next[x] \in I /\ next[x].height < x.height
  <2>1. x \in Nodes(t) /\ x \in Pointers(t)
    BY <1>2, PointerHeight
  <2>2. next[x] = IF e < x.element THEN x.left ELSE x.right
    BY <1>2
  <2>3. next[x] \in Pointers(t) /\ next[x].height < x.height
    <3>. HIDE DEF next
    <3>. QED BY <2>1, <2>2, NodesOf, PointerHeight
  <2>4. PICK X : Avl(x, X) /\ (e \in X <=> e \in E)
    OBVIOUS
  <2>5. PICK a, l, L, r, R : Avl(l, L) /\ Avl(r, R) /\ Joined(x, X, a, l, L, r, R)
    BY <1>2, <2>4, AvlParts
  <2>6. x.element = a /\ x.left = l /\ x.right = r
    BY <2>5, JoinedIs
  <2>7. X = L \cup {a} \cup R /\ a \in Int /\ Below(L, a) /\ Above(R, a)
    BY <2>5 DEF Joined
  <2>8. (e < a => (e \in L <=> e \in E)) /\ (~(e < a) => (e \in R <=> e \in E))
    BY <1>2, <2>4, <2>6, <2>7 DEF Below, Above
  <2>9. \E Y : Avl(next[x], Y) /\ (e \in Y <=> e \in E)
    <3>. HIDE DEF next
    <3>. QED BY <2>2, <2>5, <2>6, <2>8
  <2>. HIDE DEF next
  <2>. QED BY <2>3, <2>9
<1>3. ASSUME NEW x \in I, x = Nil \/ x.element = e
      PROVE  next[x] = x
  BY <1>3
<1>4. y \in I /\ next[y] = y
  <2>1. \A x \in I : x.height \in Nat
    BY PointerHeight
  <2>. HIDE DEF next, I
  <2>. QED BY <1>1, <1>2, <1>3, <2>1, LoopEnds
<1>5. Find(t, e) = y
  BY DEF Find
<1>6. PICK Y : Avl(y, Y) /\ (e \in Y <=> e \in E)
  <2>. HIDE DEF y
  <2>. QED BY <1>4
<1>7. y = Nil \/ y.element = e
  <2>1. y.height \in Nat
    BY <1>6, AvlHeight
  <2>. HIDE DEF y, next, I
  <2>2. ~(y.height < y.height)
    BY <2>1
  <2>. QED BY <1>2, <1>4, <2>2
<1>. HIDE DEF y, next, I
<1>8. CASE y = Nil
  BY <1>5, <1>6, <1>8, AvlHeight
<1>9. CASE y # Nil
  <2>1. PICK a, l, L, r, R : Joined(y, Y, a, l, L, r, R)
    BY <1>6, <1>9, AvlParts
  <2>2. y.element = a
    BY <2>1, JoinedIs
  <2>3. a \in Y
    BY <2>1 DEF Joined
  <2>. QED BY <1>5, <1>6, <1>7, <1>9, <2>2, <2>3
<1>. QED BY <1>8, <1>9

(* The successor of a node is the least element on its right.                *)
LEMMA LeftmostIsLeast ==
  ASSUME NEW t, NEW E, Avl(t, E), t # Nil
  PROVE  Leftmost(t) \in E /\ \A k \in E : Leftmost(t) <= k
<1>. DEFINE next == [x \in Nodes(t) |-> IF x.left = Nil THEN x ELSE x.left]
            First(X) == X \subseteq E /\ \A k \in E : k \in X \/ \A m \in X : m < k
            I == {x \in Nodes(t) : \E X : Avl(x, X) /\ First(X)}
            y == Loop(t, next)
<1>1. t \in I
  BY NodesOf, PointerHeight
<1>2. ASSUME NEW x \in I, x.left # Nil
      PROVE  next[x] \in I /\ next[x].height < x.height
  <2>1. next[x] = x.left
    BY <1>2
  <2>2. next[x] \in Nodes(t) /\ next[x].height < x.height
    <3>. HIDE DEF next
    <3>. QED BY <1>2, <2>1, NodesOf, PointerHeight
  <2>3. PICK X : Avl(x, X) /\ First(X)
    OBVIOUS
  <2>4. PICK a, l, L, r, R : Avl(l, L) /\ Joined(x, X, a, l, L, r, R)
    BY <2>3, AvlParts, PointerHeight
  <2>5. x.left = l
    BY <2>4, JoinedIs
  <2>6. X = L \cup {a} \cup R /\ a \in Int /\ Below(L, a) /\ Above(R, a)
    BY <2>4 DEF Joined
  <2>7. First(L)
    BY <2>3, <2>6 DEF Below, Above
  <2>. HIDE DEF next, First
  <2>. QED BY <2>1, <2>2, <2>4, <2>5, <2>7
<1>3. ASSUME NEW x \in I, x.left = Nil
      PROVE  next[x] = x
  BY <1>3
<1>4. y \in I /\ next[y] = y
  <2>1. \A x \in I : x.height \in Nat
    BY PointerHeight
  <2>. HIDE DEF next, I
  <2>. QED BY <1>1, <1>2, <1>3, <2>1, LoopEnds
<1>5. Leftmost(t) = y.element
  BY DEF Leftmost
<1>6. PICK Y : Avl(y, Y) /\ First(Y) /\ y # Nil /\ y.height \in Nat
  <2>. HIDE DEF y, First
  <2>. QED BY <1>4, PointerHeight
<1>7. y.left = Nil
  <2>. HIDE DEF y, next, I
  <2>. QED BY <1>2, <1>4, <1>6
<1>. HIDE DEF y, next, I
<1>8. PICK a, l, L, r, R : Avl(l, L) /\ Joined(y, Y, a, l, L, r, R)
  BY <1>6, AvlParts
<1>9. y.element = a /\ l = Nil
  BY <1>7, <1>8, JoinedIs
<1>10. Y = {a} \cup R /\ a \in Int /\ Above(R, a)
  <2>1. L = {}
    BY <1>8, <1>9, AvlHeight
  <2>. QED BY <1>8, <2>1 DEF Joined
<1>11. E \subseteq Int
  BY AvlHeight
<1>. QED BY <1>5, <1>6, <1>9, <1>10, <1>11 DEF Above

(* tree_last gives the greatest. *)
LEMMA LastIsGreatest ==
  ASSUME NEW t, NEW E, Avl(t, E), t # Nil
  PROVE  Last(t) \in E /\ \A k \in E : k <= Last(t)
<1>. DEFINE next == [x \in Nodes(t) |-> IF x.right = Nil THEN x ELSE x.right]
            Final(X) == X \subseteq E /\ \A k \in E : k \in X \/ \A m \in X : k < m
            I == {x \in Nodes(t) : \E X : Avl(x, X) /\ Final(X)}
            y == Loop(t, next)
<1>1. t \in I
  BY NodesOf, PointerHeight
<1>2. ASSUME NEW x \in I, x.right # Nil
      PROVE  next[x] \in I /\ next[x].height < x.height
  <2>1. next[x] = x.right
    BY <1>2
  <2>2. next[x] \in Nodes(t) /\ next[x].height < x.height
    <3>. HIDE DEF next
    <3>. QED BY <1>2, <2>1, NodesOf, PointerHeight
  <2>3. PICK X : Avl(x, X) /\ Final(X)
    OBVIOUS
  <2>4. PICK a, l, L, r, R : Avl(r, R) /\ Joined(x, X, a, l, L, r, R)
    BY <2>3, AvlParts, PointerHeight
  <2>5. x.right = r
    BY <2>4, JoinedIs
  <2>6. X = L \cup {a} \cup R /\ a \in Int /\ Below(L, a) /\ Above(R, a)
    BY <2>4 DEF Joined
  <2>7. Final(R)
    BY <2>3, <2>6 DEF Below, Above
  <2>. HIDE DEF next, Final
  <2>. QED BY <2>1, <2>2, <2>4, <2>5, <2>7
<1>3. ASSUME NEW x \in I, x.right = Nil
      PROVE  next[x] = x
  BY <1>3
<1>4. y \in I /\ next[y] = y
  <2>1. \A x \in I : x.height \in Nat
    BY PointerHeight
  <2>. HIDE DEF next, I
  <2>. QED BY <1>1, <1>2, <1>3, <2>1, LoopEnds
<1>5. Last(t) = y.element
  BY DEF Last
<1>6. PICK Y : Avl(y, Y) /\ Final(Y) /\ y # Nil /\ y.height \in Nat
  <2>. HIDE DEF y, Final
  <2>. QED BY <1>4, PointerHeight
<1>7. y.right = Nil
  <2>. HIDE DEF y, next, I
  <2>. QED BY <1>2, <1>4, <1>6
<1>. HIDE DEF y, next, I
<1>8. PICK a, l, L, r, R : Avl(r, R) /\ Joined(y, Y, a, l, L, r, R)
  BY <1>6, AvlParts
<1>9. y.element = a /\ r = Nil
  BY <1>7, <1>8, JoinedIs
<1>10. Y = L \cup {a} /\ a \in Int /\ Below(L, a)
  <2>1. R = {}
    BY <1>8, <1>9, AvlHeight
  <2>. QED BY <1>8, <2>1 DEF Joined
<1>11. E \subseteq Int
  BY AvlHeight
<1>. QED BY <1>5, <1>6, <1>9, <1>10, <1>11 DEF Below

-----------------------------------------------------------------------------
(* Insertion. *)

Inserting(f, x, e) ==
  IF x = Nil THEN Node(e, Nil, Nil)
  ELSE Measured(InsertBalance(IF e < x.element THEN [x EXCEPT !.left  = f[x.left]]
                                               ELSE [x EXCEPT !.right = f[x.right]], e))

LEMMA InsertNodeIs ==
  ASSUME NEW t, NEW E, Avl(t, E), NEW e
  PROVE  \E f : f = [x \in Pointers(t) |-> Inserting(f, x, e)] /\ InsertNode(t, e) = f[t]
<1>. DEFINE D(n) == {x \in Pointers(t) : x.height <= n}
            H == {n \in Nat : \E f : f = [x \in D(n) |-> Inserting(f, x, e)]}
<1>1. 0 \in H
  <2>1. \A x \in D(0) : x = Nil
    <3>1. \A x \in Nodes(t) : x.left.height \in Nat /\ x.left.height < x.height
      BY NodesOf, PointerHeight
    <3>. QED BY <3>1, PointerHeight
  <2>. DEFINE f == [x \in D(0) |-> Node(e, Nil, Nil)]
  <2>2. f = [x \in D(0) |-> Inserting(f, x, e)]
    BY <2>1 DEF Inserting
  <2>. QED BY <2>2
<1>2. ASSUME NEW n \in Nat, n \in H PROVE n + 1 \in H
  <2>1. PICK f : f = [x \in D(n) |-> Inserting(f, x, e)]
    BY <1>2
  <2>. DEFINE g == [x \in D(n + 1) |-> IF x \in D(n) THEN f[x] ELSE Inserting(f, x, e)]
  <2>2. ASSUME NEW x \in D(n + 1) PROVE g[x] = Inserting(f, x, e)
    <3>. HIDE DEF D
    <3>. QED BY <2>1
  <2>3. ASSUME NEW x \in D(n) PROVE g[x] = f[x]
    <3>1. x \in D(n + 1)
      BY PointerHeight
    <3>. QED BY <3>1
  <2>4. ASSUME NEW x \in D(n + 1) PROVE Inserting(f, x, e) = Inserting(g, x, e)
    <3>1. CASE x = Nil
      BY <3>1 DEF Inserting
    <3>2. CASE x # Nil
      <4>1. x \in Nodes(t) /\ x.height \in Nat /\ x.height <= n + 1
        BY <3>2, PointerHeight
      <4>2. /\ x.left \in Pointers(t) /\ x.left.height \in Nat /\ x.left.height < x.height
            /\ x.right \in Pointers(t) /\ x.right.height \in Nat /\ x.right.height < x.height
        BY <4>1, NodesOf, PointerHeight
      <4>3. x.left \in D(n) /\ x.right \in D(n)
        BY <4>1, <4>2
      <4>4. g[x.left] = f[x.left] /\ g[x.right] = f[x.right]
        BY <2>3, <4>3
      <4>. HIDE DEF g
      <4>. QED BY <3>2, <4>4 DEF Inserting
    <3>. QED BY <3>1, <3>2
  <2>5. g = [x \in D(n + 1) |-> Inserting(g, x, e)]
    <3>1. g = [x \in D(n + 1) |-> g[x]]
      OBVIOUS
    <3>. HIDE DEF g, D
    <3>. QED BY <2>2, <2>4, <3>1
  <2>. HIDE DEF g, D
  <2>6. \E k : k = [x \in D(n + 1) |-> Inserting(k, x, e)]
    BY <2>5
  <2>. QED BY <2>6
<1>3. PICK n \in Nat : n = t.height
  BY AvlHeight
<1>4. n \in H
  <2>. HIDE DEF H
  <2>. QED BY <1>1, <1>2, OneByOne
<1>5. D(n) = Pointers(t)
  <2>1. \A x \in Pointers(t) : x.height <= n
    BY <1>3, NodesOf
  <2>. QED BY <2>1
<1>6. PICK k : k = [x \in Pointers(t) |-> Inserting(k, x, e)]
  <2>. HIDE DEF D
  <2>. QED BY <1>4, <1>5
<1>. DEFINE f == CHOOSE f : f = [x \in Pointers(t) |-> Inserting(f, x, e)]
<1>7. f = [x \in Pointers(t) |-> Inserting(f, x, e)]
  BY <1>6
<1>8. InsertNode(t, e) = f[t]
  BY DEF InsertNode, Inserting
<1>. QED BY <1>7, <1>8

LEMMA AvlMeasured ==
  ASSUME NEW t, NEW E, Avl(t, E), t # Nil
  PROVE  Measured(t) = t
<1>1. PICK e, l, L, r, R : Joined(t, E, e, l, L, r, R)
  BY AvlParts
<1>. QED BY <1>1, JoinedIs

(* y leans to the side where e is. *)
Toward(y, e) ==
  \/ e < y.element /\ y.left.height = y.right.height + 1
  \/ y.element < e /\ y.right.height = y.left.height + 1

(* y is x with e, and a tree which is higher leans to the side where it grew.*)
Grown(x, X, y, e) ==
  /\ Avl(y, X \cup {e})
  /\ y.height \in {x.height, x.height + 1}
  /\ y.height = x.height + 1 /\ x # Nil => Toward(y, e)

LEMMA GrownLeft ==
  ASSUME NEW x, NEW X, NEW a, NEW l, NEW L, NEW r, NEW R, NEW m, NEW e \in Int,
         Avl(l, L), Avl(r, R), Joined(x, X, a, l, L, r, R), r.height - l.height \in -1..1,
         e < a, Grown(l, L, m, e)
  PROVE  Grown(x, X, Measured(InsertBalance([x EXCEPT !.left = m], e)), e)
<1>. DEFINE z == [x EXCEPT !.left = m]
<1>. SUFFICES Grown(x, X, Measured(InsertBalance(z, e)), e)
  OBVIOUS
<1>1. /\ l.height \in Nat /\ r.height \in Nat /\ m.height \in Nat
      /\ Avl(m, L \cup {e}) /\ m.height \in {l.height, l.height + 1}
  BY AvlHeight DEF Grown
<1>2. /\ x # Nil /\ x.height \in Nat /\ x.height \in {l.height + 1, r.height + 1}
      /\ x.height > l.height /\ x.height > r.height
  BY <1>1, JoinedIs
<1>3. X = L \cup {a} \cup R /\ a \in Int /\ Below(L \cup {e}, a) /\ Above(R, a)
  BY DEF Joined, Below
<1>4. z = [element |-> a, left |-> m, right |-> r, height |-> x.height]
  BY DEF Joined, Node
<1>5. z.element = a /\ z.left = m /\ z.right = r /\ z # Nil /\ Leaning(z, L \cup {e}, R)
  <2>. HIDE DEF z
  <2>. QED BY <1>2, <1>3, <1>4 DEF Leaning, Nil
<1>6. L \cup {e} \cup {a} \cup R = X \cup {e}
  BY <1>3
<1>. HIDE DEF z
<1>7. Balance(z) = r.height - m.height
  BY <1>5 DEF Balance
<1>8. CASE Balance(z) # -2
  <2>1. InsertBalance(z, e) = z
    <3>1. ~(e > a)
      BY <1>3
    <3>. QED BY <1>5, <1>8, <3>1 DEF InsertBalance
  <2>2. Measured(z) = Node(a, m, r)
    BY <1>5 DEF Measured
  <2>3. r.height - m.height \in -1..1
    BY <1>1, <1>7, <1>8
  <2>4. Avl(Node(a, m, r), X \cup {e})
    <3>1. Avl(Node(a, m, r), (L \cup {e}) \cup {a} \cup R)
      BY <1>1, <1>3, <2>3, Joins
    <3>. QED BY <1>6, <3>1
  <2>. DEFINE y == Node(a, m, r)
  <2>5. /\ y.element = a /\ y.left = m /\ y.right = r
        /\ y.height \in {m.height + 1, r.height + 1}
        /\ y.height > m.height /\ y.height > r.height /\ y.height \in Nat
    BY <1>1, NodeIs
  <2>. HIDE DEF y
  <2>6. y.height \in {x.height, x.height + 1}
    BY <1>1, <1>2, <2>5
  <2>7. y.height = x.height + 1 => m.height = r.height + 1
    BY <1>1, <1>2, <2>3, <2>5
  <2>. QED BY <2>1, <2>2, <2>4, <2>5, <2>6, <2>7 DEF Grown, Toward, y
<1>9. CASE Balance(z) = -2
  <2>1. /\ m.height = r.height + 2 /\ l.height = r.height + 1 /\ m.height = l.height + 1
        /\ x.height = r.height + 2
    BY <1>1, <1>2, <1>7, <1>9
  <2>2. l # Nil /\ m # Nil
    BY <1>1, <2>1 DEF Nil
  <2>3. Toward(m, e)
    BY <2>1, <2>2 DEF Grown
  <2>4. PICK c, p, P, q, Q : /\ Avl(p, P) /\ Avl(q, Q)
                             /\ Joined(m, L \cup {e}, c, p, P, q, Q)
    BY <1>1, <2>2, AvlParts
  <2>5. /\ m.element = c /\ m.left = p /\ m.right = q
        /\ m.height \in {p.height + 1, q.height + 1}
        /\ m.height > p.height /\ m.height > q.height
        /\ p.height \in Nat /\ q.height \in Nat
    <3>1. p.height \in Nat /\ q.height \in Nat
      BY <2>4, AvlHeight
    <3>. QED BY <2>4, <3>1, JoinedIs
  <2>6. ASSUME NEW y, Avl(y, L \cup {e} \cup {a} \cup R), y.height = r.height + 2,
               InsertBalance(z, e) = y
        PROVE  Grown(x, X, Measured(InsertBalance(z, e)), e)
    <3>1. y # Nil
      BY <1>1, <2>6 DEF Nil
    <3>2. Measured(y) = y
      BY <2>6, <3>1, AvlMeasured
    <3>3. x.height # x.height + 1
      BY <1>2
    <3>. QED BY <1>6, <2>1, <2>6, <3>2, <3>3 DEF Grown
  <2>7. CASE e < c
    <3>1. p.height = r.height + 1 /\ q.height = r.height
      <4>1. c \in Int
        BY <2>4 DEF Joined
      <4>. QED BY <1>1, <2>1, <2>3, <2>5, <2>7, <4>1 DEF Toward
    <3>2. InsertBalance(z, e) = RotateRight(z)
      BY <1>5, <1>9, <2>5, <2>7 DEF InsertBalance
    <3>3. Avl(RotateRight(z), L \cup {e} \cup {a} \cup R) /\ RotateRight(z).height = r.height + 2
      <4>1. /\ Avl(z.left, L \cup {e}) /\ Avl(z.right, R)
            /\ z.left.height = z.right.height + 2 /\ Balance(z.left) = -1
        BY <1>1, <1>5, <2>1, <2>2, <2>5, <3>1 DEF Balance
      <4>2. /\ Avl(RotateRight(z), (L \cup {e}) \cup {z.element} \cup R)
            /\ RotateRight(z).height = z.right.height + 3 + Balance(z.left)
        BY ONLY <1>5, <4>1, RotatedRight
      <4>. QED BY <1>1, <1>5, <4>1, <4>2
    <3>. QED BY <2>6, <3>2, <3>3
  <2>8. CASE ~(e < c)
    <3>1. p.height = r.height /\ q.height = r.height + 1
      <4>1. c \in Int
        BY <2>4 DEF Joined
      <4>. QED BY <1>1, <2>1, <2>3, <2>5, <2>8, <4>1 DEF Toward
    <3>2. InsertBalance(z, e) = RotateLeftRight(z)
      BY <1>5, <1>9, <2>5, <2>8 DEF InsertBalance
    <3>3. /\ Avl(RotateLeftRight(z), L \cup {e} \cup {a} \cup R)
          /\ RotateLeftRight(z).height = r.height + 2
      <4>1. /\ Avl(z.left, L \cup {e}) /\ Avl(z.right, R)
            /\ z.left.height = z.right.height + 2 /\ Balance(z.left) = 1
        BY <1>1, <1>5, <2>1, <2>2, <2>5, <3>1 DEF Balance
      <4>2. /\ Avl(RotateLeftRight(z), (L \cup {e}) \cup {z.element} \cup R)
            /\ RotateLeftRight(z).height = z.right.height + 2
        BY ONLY <1>5, <4>1, RotatedLeftRight
      <4>. QED BY <1>1, <1>5, <4>2
    <3>. QED BY <2>6, <3>2, <3>3
  <2>. QED BY <2>7, <2>8
<1>. QED BY <1>8, <1>9

LEMMA GrownRight ==
  ASSUME NEW x, NEW X, NEW a, NEW l, NEW L, NEW r, NEW R, NEW m, NEW e \in Int,
         Avl(l, L), Avl(r, R), Joined(x, X, a, l, L, r, R), r.height - l.height \in -1..1,
         a < e, Grown(r, R, m, e)
  PROVE  Grown(x, X, Measured(InsertBalance([x EXCEPT !.right = m], e)), e)
<1>. DEFINE z == [x EXCEPT !.right = m]
<1>. SUFFICES Grown(x, X, Measured(InsertBalance(z, e)), e)
  OBVIOUS
<1>1. /\ l.height \in Nat /\ r.height \in Nat /\ m.height \in Nat
      /\ Avl(m, R \cup {e}) /\ m.height \in {r.height, r.height + 1}
  BY AvlHeight DEF Grown
<1>2. /\ x # Nil /\ x.height \in Nat /\ x.height \in {l.height + 1, r.height + 1}
      /\ x.height > l.height /\ x.height > r.height
  BY <1>1, JoinedIs
<1>3. X = L \cup {a} \cup R /\ a \in Int /\ Below(L, a) /\ Above(R \cup {e}, a)
  BY DEF Joined, Above
<1>4. z = [element |-> a, left |-> l, right |-> m, height |-> x.height]
  BY DEF Joined, Node
<1>5. z.element = a /\ z.left = l /\ z.right = m /\ z # Nil /\ Leaning(z, L, R \cup {e})
  <2>. HIDE DEF z
  <2>. QED BY <1>2, <1>3, <1>4 DEF Leaning, Nil
<1>6. L \cup {a} \cup (R \cup {e}) = X \cup {e}
  BY <1>3
<1>. HIDE DEF z
<1>7. Balance(z) = m.height - l.height
  BY <1>5 DEF Balance
<1>8. ~(e < a)
  BY <1>3
<1>9. CASE Balance(z) # 2
  <2>1. InsertBalance(z, e) = z
    BY <1>5, <1>8, <1>9 DEF InsertBalance
  <2>2. Measured(z) = Node(a, l, m)
    BY <1>5 DEF Measured
  <2>3. m.height - l.height \in -1..1
    BY <1>1, <1>7, <1>9
  <2>4. Avl(Node(a, l, m), X \cup {e})
    <3>1. Avl(Node(a, l, m), L \cup {a} \cup (R \cup {e}))
      BY <1>1, <1>3, <2>3, Joins
    <3>. QED BY <1>6, <3>1
  <2>. DEFINE y == Node(a, l, m)
  <2>5. /\ y.element = a /\ y.left = l /\ y.right = m
        /\ y.height \in {l.height + 1, m.height + 1}
        /\ y.height > l.height /\ y.height > m.height /\ y.height \in Nat
    BY <1>1, NodeIs
  <2>. HIDE DEF y
  <2>6. y.height \in {x.height, x.height + 1}
    BY <1>1, <1>2, <2>5
  <2>7. y.height = x.height + 1 => m.height = l.height + 1
    BY <1>1, <1>2, <2>3, <2>5
  <2>. QED BY <2>1, <2>2, <2>4, <2>5, <2>6, <2>7 DEF Grown, Toward, y
<1>10. CASE Balance(z) = 2
  <2>1. /\ m.height = l.height + 2 /\ r.height = l.height + 1 /\ m.height = r.height + 1
        /\ x.height = l.height + 2
    BY <1>1, <1>2, <1>7, <1>10
  <2>2. r # Nil /\ m # Nil
    BY <1>1, <2>1 DEF Nil
  <2>3. Toward(m, e)
    BY <2>1, <2>2 DEF Grown
  <2>4. PICK c, p, P, q, Q : /\ Avl(p, P) /\ Avl(q, Q)
                             /\ Joined(m, R \cup {e}, c, p, P, q, Q)
    BY <1>1, <2>2, AvlParts
  <2>5. /\ m.element = c /\ m.left = p /\ m.right = q
        /\ m.height \in {p.height + 1, q.height + 1}
        /\ m.height > p.height /\ m.height > q.height
        /\ p.height \in Nat /\ q.height \in Nat
    <3>1. p.height \in Nat /\ q.height \in Nat
      BY <2>4, AvlHeight
    <3>. QED BY <2>4, <3>1, JoinedIs
  <2>6. ASSUME NEW y, Avl(y, L \cup {a} \cup (R \cup {e})), y.height = l.height + 2,
               InsertBalance(z, e) = y
        PROVE  Grown(x, X, Measured(InsertBalance(z, e)), e)
    <3>1. y # Nil
      BY <1>1, <2>6 DEF Nil
    <3>2. Measured(y) = y
      BY <2>6, <3>1, AvlMeasured
    <3>3. x.height # x.height + 1
      BY <1>2
    <3>. QED BY <1>6, <2>1, <2>6, <3>2, <3>3 DEF Grown
  <2>7. CASE e > c
    <3>1. q.height = l.height + 1 /\ p.height = l.height
      <4>1. c \in Int
        BY <2>4 DEF Joined
      <4>. QED BY <1>1, <2>1, <2>3, <2>5, <2>7, <4>1 DEF Toward
    <3>2. InsertBalance(z, e) = RotateLeft(z)
      BY <1>5, <1>8, <1>10, <2>5, <2>7 DEF InsertBalance
    <3>3. Avl(RotateLeft(z), L \cup {a} \cup (R \cup {e})) /\ RotateLeft(z).height = l.height + 2
      <4>1. /\ Avl(z.right, R \cup {e}) /\ Avl(z.left, L)
            /\ z.right.height = z.left.height + 2 /\ Balance(z.right) = 1
        BY <1>1, <1>5, <2>1, <2>2, <2>5, <3>1 DEF Balance
      <4>2. /\ Avl(RotateLeft(z), L \cup {z.element} \cup (R \cup {e}))
            /\ RotateLeft(z).height = z.left.height + 3 - Balance(z.right)
        BY ONLY <1>5, <4>1, RotatedLeft
      <4>. QED BY <1>1, <1>5, <4>1, <4>2
    <3>. QED BY <2>6, <3>2, <3>3
  <2>8. CASE ~(e > c)
    <3>1. q.height = l.height /\ p.height = l.height + 1
      <4>1. c \in Int
        BY <2>4 DEF Joined
      <4>. QED BY <1>1, <2>1, <2>3, <2>5, <2>8, <4>1 DEF Toward
    <3>2. InsertBalance(z, e) = RotateRightLeft(z)
      BY <1>5, <1>8, <1>10, <2>5, <2>8 DEF InsertBalance
    <3>3. /\ Avl(RotateRightLeft(z), L \cup {a} \cup (R \cup {e}))
          /\ RotateRightLeft(z).height = l.height + 2
      <4>1. /\ Avl(z.right, R \cup {e}) /\ Avl(z.left, L)
            /\ z.right.height = z.left.height + 2 /\ Balance(z.right) = -1
        BY <1>1, <1>5, <2>1, <2>2, <2>5, <3>1 DEF Balance
      <4>2. /\ Avl(RotateRightLeft(z), L \cup {z.element} \cup (R \cup {e}))
            /\ RotateRightLeft(z).height = z.left.height + 2
        BY ONLY <1>5, <4>1, RotatedRightLeft
      <4>. QED BY <1>1, <1>5, <4>2
    <3>. QED BY <2>6, <3>2, <3>3
  <2>. QED BY <2>7, <2>8
<1>. QED BY <1>9, <1>10

(* An insertion adds its element, and keeps the tree balanced and sorted.    *)
LEMMA InsertInserts ==
  ASSUME NEW t, NEW E, Avl(t, E), NEW e \in Int, e \notin E
  PROVE  Avl(InsertNode(t, e), E \cup {e})
<1>1. PICK f : f = [x \in Pointers(t) |-> Inserting(f, x, e)] /\ InsertNode(t, e) = f[t]
  BY InsertNodeIs
<1>. DEFINE S == {x \in Pointers(t) : \A X : Avl(x, X) /\ e \notin X => Grown(x, X, f[x], e)}
<1>2. \A x \in Pointers(t) : f[x] = Inserting(f, x, e)
  BY <1>1
<1>3. Nil \in S
  <2>. SUFFICES ASSUME NEW X, Avl(Nil, X) PROVE Grown(Nil, X, f[Nil], e)
    BY DEF Pointers
  <2>1. X = {} /\ Nil.height = 0
    BY AvlHeight DEF Nil
  <2>2. f[Nil] = Node(e, Nil, Nil)
    BY <1>2 DEF Pointers, Inserting
  <2>3. Avl(Node(e, Nil, Nil), {} \cup {e} \cup {})
    BY <2>1, NilIsAvl, Joins DEF Below, Above
  <2>4. {} \cup {e} \cup {} = X \cup {e}
    BY <2>1
  <2>5. Node(e, Nil, Nil).height = 1
    BY <2>1 DEF Node
  <2>. QED BY <2>1, <2>2, <2>3, <2>4, <2>5 DEF Grown
<1>4. ASSUME NEW x \in Nodes(t), x.left \in S, x.right \in S
      PROVE  x \in S
  <2>1. x \in Pointers(t) /\ x # Nil
    BY PointerHeight
  <2>. SUFFICES ASSUME NEW X, Avl(x, X), e \notin X PROVE Grown(x, X, f[x], e)
    BY <2>1
  <2>2. PICK a, l, L, r, R : /\ Avl(l, L) /\ Avl(r, R)
                             /\ Joined(x, X, a, l, L, r, R) /\ r.height - l.height \in -1..1
    BY <2>1, AvlParts
  <2>3. x.element = a /\ x.left = l /\ x.right = r
    BY <2>2, JoinedIs
  <2>4. e \notin L /\ e \notin R /\ e # a /\ a \in Int
    BY <2>2 DEF Joined
  <2>5. Grown(l, L, f[l], e) /\ Grown(r, R, f[r], e)
    BY <1>4, <2>2, <2>3, <2>4
  <2>6. CASE e < a
    <3>1. f[x] = Measured(InsertBalance([x EXCEPT !.left = f[l]], e))
      BY <1>2, <2>1, <2>3, <2>6 DEF Inserting
    <3>. QED BY <2>2, <2>5, <2>6, <3>1, GrownLeft
  <2>7. CASE a < e
    <3>1. f[x] = Measured(InsertBalance([x EXCEPT !.right = f[r]], e))
      <4>1. ~(e < x.element)
        BY <2>3, <2>4, <2>7
      <4>. QED BY <1>2, <2>1, <2>3, <4>1 DEF Inserting
    <3>. QED BY <2>2, <2>5, <2>7, <3>1, GrownRight
  <2>. QED BY <2>4, <2>6, <2>7
<1>5. t \in S
  <2>. HIDE DEF S
  <2>. QED BY <1>3, <1>4, FromChildren, NodesOf
<1>. QED BY <1>1, <1>5 DEF Grown

-----------------------------------------------------------------------------
(* Removal. *)

LEMMA AvlStays ==
  ASSUME NEW t, NEW E, Avl(t, E), t # Nil
  PROVE  RemoveBalance(Measured(t)) = t
<1>1. PICK e, l, L, r, R : Joined(t, E, e, l, L, r, R) /\ r.height - l.height \in -1..1
  BY AvlParts
<1>2. Measured(t) = t /\ Balance(t) = r.height - l.height
  BY <1>1, JoinedIs
<1>3. Balance(t) \in -1..1
  BY <1>1, <1>2
<1>. QED BY <1>2, <1>3 DEF RemoveBalance

(* A node between two balanced trees, whose heights differ by two at most,   *)
(* is balanced again.                                                        *)
LEMMA Rebalanced ==
  ASSUME NEW e, NEW l, NEW L, NEW r, NEW R,
         Avl(l, L), Avl(r, R), e \in Int, Below(L, e), Above(R, e), r.height - l.height \in -2..2,
         NEW y, y = RemoveBalance(Node(e, l, r))
  PROVE  /\ Avl(y, L \cup {e} \cup R)
         /\ y.height \in Nat
         /\ r.height - l.height \in -1..1 => y.height = Node(e, l, r).height
         /\ r.height = l.height + 2 => y.height \in {r.height, r.height + 1}
         /\ l.height = r.height + 2 => y.height \in {l.height, l.height + 1}
<1>1. l.height \in Nat /\ r.height \in Nat
  BY AvlHeight
<1>2. PICK z : z = Node(e, l, r)
  OBVIOUS
<1>3. /\ z.element = e /\ z.left = l /\ z.right = r /\ z # Nil
      /\ z = [element |-> z.element, left |-> z.left, right |-> z.right, height |-> z.height]
  <2>1. z.element = e /\ z.left = l /\ z.right = r /\ z # Nil
    BY <1>1, <1>2, NodeIs
  <2>2. z = [element |-> z.element, left |-> z.left, right |-> z.right, height |-> z.height]
    BY <1>2 DEF Node
  <2>. QED BY <2>1, <2>2
<1>4. Balance(z) = r.height - l.height /\ Leaning(z, L, R)
  BY <1>3 DEF Balance, Leaning
<1>5. y = RemoveBalance(z)
  BY <1>2
<1>6. Avl(y, L \cup {e} \cup R) => y.height \in Nat
  BY AvlHeight
<1>7. CASE Balance(z) \in -1..1
  <2>1. y = z
    BY <1>5, <1>7 DEF RemoveBalance
  <2>2. Avl(z, L \cup {e} \cup R)
    BY <1>2, <1>4, <1>7, Joins
  <2>. QED BY <1>1, <1>2, <1>4, <1>6, <1>7, <2>1, <2>2
<1>8. CASE Balance(z) = 2
  <2>1. r.height = l.height + 2 /\ r # Nil
    BY <1>1, <1>4, <1>8 DEF Nil
  <2>2. Balance(r) \in -1..1
    <3>1. PICK c, p, P, q, Q : Joined(r, R, c, p, P, q, Q) /\ q.height - p.height \in -1..1
      BY <2>1, AvlParts
    <3>. QED BY <3>1, JoinedIs
  <2>3. CASE Balance(r) >= 0
    <3>1. y = RotateLeft(z)
      BY <1>3, <1>5, <1>8, <2>3 DEF RemoveBalance
    <3>2. /\ Avl(z.right, R) /\ Avl(z.left, L)
          /\ z.right.height = z.left.height + 2 /\ Balance(z.right) \in {0, 1}
      BY <1>3, <2>1, <2>2, <2>3
    <3>3. /\ Avl(RotateLeft(z), L \cup {z.element} \cup R)
          /\ RotateLeft(z).height = z.left.height + 3 - Balance(z.right)
      BY ONLY <1>4, <3>2, RotatedLeft
    <3>. QED BY <1>1, <1>3, <1>6, <2>1, <3>1, <3>2, <3>3
  <2>4. CASE Balance(r) < 0
    <3>1. y = RotateRightLeft(z)
      <4>1. ~(Balance(r) >= 0)
        BY <2>2, <2>4
      <4>. QED BY <1>3, <1>5, <1>8, <4>1 DEF RemoveBalance
    <3>2. /\ Avl(z.right, R) /\ Avl(z.left, L)
          /\ z.right.height = z.left.height + 2 /\ Balance(z.right) = -1
      BY <1>3, <2>1, <2>2, <2>4
    <3>3. /\ Avl(RotateRightLeft(z), L \cup {z.element} \cup R)
          /\ RotateRightLeft(z).height = z.left.height + 2
      BY ONLY <1>4, <3>2, RotatedRightLeft
    <3>. QED BY <1>1, <1>3, <1>6, <2>1, <3>1, <3>3
  <2>. QED BY <2>2, <2>3, <2>4
<1>9. CASE Balance(z) = -2
  <2>1. l.height = r.height + 2 /\ l # Nil
    BY <1>1, <1>4, <1>9 DEF Nil
  <2>2. Balance(l) \in -1..1
    <3>1. PICK c, p, P, q, Q : Joined(l, L, c, p, P, q, Q) /\ q.height - p.height \in -1..1
      BY <2>1, AvlParts
    <3>. QED BY <3>1, JoinedIs
  <2>3. CASE Balance(l) <= 0
    <3>1. y = RotateRight(z)
      BY <1>3, <1>5, <1>9, <2>3 DEF RemoveBalance
    <3>2. /\ Avl(z.right, R) /\ Avl(z.left, L)
          /\ z.left.height = z.right.height + 2 /\ Balance(z.left) \in {-1, 0}
      BY <1>3, <2>1, <2>2, <2>3
    <3>3. /\ Avl(RotateRight(z), L \cup {z.element} \cup R)
          /\ RotateRight(z).height = z.right.height + 3 + Balance(z.left)
      BY ONLY <1>4, <3>2, RotatedRight
    <3>. QED BY <1>1, <1>3, <1>6, <2>1, <3>1, <3>2, <3>3
  <2>4. CASE Balance(l) > 0
    <3>1. y = RotateLeftRight(z)
      <4>1. ~(Balance(l) <= 0)
        BY <2>2, <2>4
      <4>. QED BY <1>3, <1>5, <1>9, <4>1 DEF RemoveBalance
    <3>2. /\ Avl(z.right, R) /\ Avl(z.left, L)
          /\ z.left.height = z.right.height + 2 /\ Balance(z.left) = 1
      BY <1>3, <2>1, <2>2, <2>4
    <3>3. /\ Avl(RotateLeftRight(z), L \cup {z.element} \cup R)
          /\ RotateLeftRight(z).height = z.right.height + 2
      BY ONLY <1>4, <3>2, RotatedLeftRight
    <3>. QED BY <1>1, <1>3, <1>6, <2>1, <3>1, <3>3
  <2>. QED BY <2>2, <2>3, <2>4
<1>10. Balance(z) \in -2..2
  BY <1>4
<1>. QED BY <1>7, <1>8, <1>9, <1>10

(* y is x without k. *)
Shrunk(x, X, y, k) == Avl(y, X \ {k}) /\ y.height \in {x.height, x.height - 1}

(* Of two subtrees l and r, one is as high as before, the other one lower.   *)
OneLower(l, r, m, s) ==
  \/ m.height = l.height /\ s.height \in {r.height, r.height - 1}
  \/ s.height = r.height /\ m.height \in {l.height, l.height - 1}

LEMMA ShrunkJoin ==
  ASSUME NEW x, NEW X, NEW a, NEW l, NEW L, NEW r, NEW R,
         Avl(l, L), Avl(r, R), Joined(x, X, a, l, L, r, R), r.height - l.height \in -1..1,
         NEW b \in Int, NEW m, NEW M, NEW s, NEW S,
         Avl(m, M), Avl(s, S), Below(M, b), Above(S, b),
         OneLower(l, r, m, s),
         NEW y, y = RemoveBalance(Node(b, m, s))
  PROVE  Avl(y, M \cup {b} \cup S) /\ y.height \in {x.height, x.height - 1}
<1>1. l.height \in Nat /\ r.height \in Nat /\ m.height \in Nat /\ s.height \in Nat
  BY AvlHeight
<1>2. /\ x.height \in Nat /\ x.height \in {l.height + 1, r.height + 1}
      /\ x.height > l.height /\ x.height > r.height
  BY JoinedIs
<1>3. s.height - m.height \in -2..2
  BY <1>1 DEF OneLower
<1>4. PICK z : z = Node(b, m, s)
  OBVIOUS
<1>5. /\ z.height \in {m.height + 1, s.height + 1} /\ z.height \in Nat
      /\ z.height > m.height /\ z.height > s.height
  BY <1>1, <1>4, NodeIs
<1>6. /\ Avl(y, M \cup {b} \cup S) /\ y.height \in Nat
      /\ s.height - m.height \in -1..1 => y.height = z.height
      /\ s.height = m.height + 2 => y.height \in {s.height, s.height + 1}
      /\ m.height = s.height + 2 => y.height \in {m.height, m.height + 1}
  <2>1. /\ Avl(m, M) /\ Avl(s, S) /\ b \in Int /\ Below(M, b) /\ Above(S, b)
        /\ y = RemoveBalance(Node(b, m, s))
    OBVIOUS
  <2>2. /\ Avl(y, M \cup {b} \cup S) /\ y.height \in Nat
        /\ s.height - m.height \in -1..1 => y.height = Node(b, m, s).height
        /\ s.height = m.height + 2 => y.height \in {s.height, s.height + 1}
        /\ m.height = s.height + 2 => y.height \in {m.height, m.height + 1}
    BY ONLY <1>3, <2>1, Rebalanced
  <2>. QED BY <1>4, <2>2
<1>7. PICK i \in Nat, j \in Nat, h \in Nat, g \in Nat, k \in Nat, n \in Nat, d \in Nat :
        /\ i = l.height /\ j = r.height /\ h = x.height
        /\ g = m.height /\ k = s.height /\ n = z.height /\ d = y.height
  BY <1>1, <1>2, <1>5, <1>6
<1>8. d \in {h, h - 1}
  <2>1. (g = i /\ k \in {j, j - 1}) \/ (k = j /\ g \in {i, i - 1})
    BY <1>7 DEF OneLower
  <2>2. j - i \in -1..1 /\ h \in {i + 1, j + 1} /\ h > i /\ h > j
    BY <1>2, <1>7
  <2>3. n \in {g + 1, k + 1} /\ n > g /\ n > k
    BY <1>5, <1>7
  <2>4. /\ k - g \in -1..1 => d = n
        /\ k = g + 2 => d \in {k, k + 1}
        /\ g = k + 2 => d \in {g, g + 1}
    BY <1>6, <1>7
  <2>. QED BY ONLY <2>1, <2>2, <2>3, <2>4
<1>. QED BY <1>6, <1>7, <1>8

Removed(f, x, k) ==
  IF k < x.element      THEN [x EXCEPT !.left  = f[<<x.left, k>>]]
  ELSE IF k > x.element THEN [x EXCEPT !.right = f[<<x.right, k>>]]
  ELSE IF x.left = Nil  THEN x.right
  ELSE IF x.right = Nil THEN x.left
  ELSE Node(Leftmost(x.right), x.left, f[<<x.right, Leftmost(x.right)>>])

Removing(f, x, k) ==
  IF x = Nil \/ Removed(f, x, k) = Nil THEN Nil ELSE RemoveBalance(Measured(Removed(f, x, k)))

LEMMA RemoveNodeIs ==
  ASSUME NEW t, NEW E, Avl(t, E), E \subseteq Elements, NEW e \in Elements
  PROVE  \E f : /\ f = [p \in Pointers(t) \X Elements |-> Removing(f, p[1], p[2])]
                /\ RemoveNode(t, e) = f[<<t, e>>]
<1>. DEFINE D(n) == {p \in Pointers(t) \X Elements : p[1].height <= n}
            H == {n \in Nat : \E f : f = [p \in D(n) |-> Removing(f, p[1], p[2])]}
<1>1. 0 \in H
  <2>1. \A p \in D(0) : p[1] = Nil
    <3>1. \A x \in Nodes(t) : x.left.height \in Nat /\ x.left.height < x.height
      BY NodesOf, PointerHeight
    <3>2. \A x \in Pointers(t) : x.height <= 0 => x = Nil
      BY <3>1, PointerHeight
    <3>. QED BY <3>2
  <2>. DEFINE f == [p \in D(0) |-> Nil]
  <2>2. \A p \in D(0) : Removing(f, p[1], p[2]) = Nil
    BY <2>1 DEF Removing
  <2>. HIDE DEF D
  <2>3. f = [p \in D(0) |-> Removing(f, p[1], p[2])]
    BY <2>2
  <2>. HIDE DEF f
  <2>. QED BY <2>3
<1>2. ASSUME NEW n \in Nat, n \in H PROVE n + 1 \in H
  <2>1. PICK f : f = [p \in D(n) |-> Removing(f, p[1], p[2])]
    BY <1>2
  <2>. DEFINE g == [p \in D(n + 1) |-> IF p \in D(n) THEN f[p] ELSE Removing(f, p[1], p[2])]
  <2>2. ASSUME NEW p \in D(n + 1) PROVE g[p] = Removing(f, p[1], p[2])
    <3>. HIDE DEF D
    <3>. QED BY <2>1
  <2>3. ASSUME NEW p \in D(n) PROVE g[p] = f[p]
    <3>1. p \in D(n + 1)
      BY PointerHeight
    <3>. HIDE DEF D
    <3>. QED BY <3>1
  <2>4. ASSUME NEW x \in Pointers(t), NEW k \in Elements, x.height <= n + 1
        PROVE  Removing(f, x, k) = Removing(g, x, k)
    <3>1. CASE x = Nil
      BY <3>1 DEF Removing
    <3>2. CASE x # Nil
      <4>1. x \in Nodes(t) /\ x.height \in Nat
        BY <3>2, PointerHeight
      <4>2. /\ x.left \in Pointers(t) /\ x.left.height \in Nat /\ x.left.height < x.height
            /\ x.right \in Pointers(t) /\ x.right.height \in Nat /\ x.right.height < x.height
        BY <4>1, NodesOf, PointerHeight
      <4>3. x.left.height <= n /\ x.right.height <= n
        BY <2>4, <4>1, <4>2
      <4>4. \A i \in Elements : <<x.left, i>> \in D(n) /\ <<x.right, i>> \in D(n)
        BY <4>2, <4>3
      <4>. HIDE DEF D, g
      <4>5. \A i \in Elements : /\ g[<<x.left, i>>] = f[<<x.left, i>>]
                                /\ g[<<x.right, i>>] = f[<<x.right, i>>]
        BY <2>3, <4>4
      <4>6. x.right # Nil => Leftmost(x.right) \in Elements
        <5>. SUFFICES ASSUME x.right # Nil PROVE Leftmost(x.right) \in Elements
          OBVIOUS
        <5>1. PICK R : Avl(x.right, R) /\ R \subseteq E
          BY <4>2, NodesOf
        <5>. QED BY <5>1, LeftmostIsLeast
      <4>7. Removed(f, x, k) = Removed(g, x, k)
        BY <4>5, <4>6 DEF Removed
      <4>. QED BY <4>7 DEF Removing
    <3>. QED BY <3>1, <3>2
  <2>5. ASSUME NEW p \in D(n + 1) PROVE Removing(f, p[1], p[2]) = Removing(g, p[1], p[2])
    <3>1. p[1] \in Pointers(t) /\ p[2] \in Elements /\ p[1].height <= n + 1
      OBVIOUS
    <3>. HIDE DEF D, g
    <3>. QED BY <2>4, <3>1
  <2>6. g = [p \in D(n + 1) |-> Removing(g, p[1], p[2])]
    <3>1. g = [p \in D(n + 1) |-> g[p]]
      OBVIOUS
    <3>. HIDE DEF g, D
    <3>. QED BY <2>2, <2>5, <3>1
  <2>. HIDE DEF g, D
  <2>7. \E k : k = [p \in D(n + 1) |-> Removing(k, p[1], p[2])]
    BY <2>6
  <2>. QED BY <2>7
<1>3. PICK n \in Nat : n = t.height
  BY AvlHeight
<1>4. n \in H
  <2>. HIDE DEF H
  <2>. QED BY <1>1, <1>2, OneByOne
<1>5. D(n) = Pointers(t) \X Elements
  <2>1. \A x \in Pointers(t) : x.height <= n
    BY <1>3, NodesOf
  <2>. QED BY <2>1
<1>6. PICK k : k = [p \in Pointers(t) \X Elements |-> Removing(k, p[1], p[2])]
  <2>. HIDE DEF D
  <2>. QED BY <1>4, <1>5
<1>. DEFINE f == CHOOSE f : f = [p \in Pointers(t) \X Elements |-> Removing(f, p[1], p[2])]
<1>7. f = [p \in Pointers(t) \X Elements |-> Removing(f, p[1], p[2])]
  BY <1>6
<1>8. RemoveNode(t, e) = f[<<t, e>>]
  BY DEF RemoveNode, Removing, Removed
<1>. QED BY <1>7, <1>8

(* What becomes of a node when k is removed below it, on its left or right.  *)
LEMMA ShrunkLeft ==
  ASSUME NEW x, NEW X, NEW a, NEW l, NEW L, NEW r, NEW R, NEW m, NEW k \in Int,
         Avl(l, L), Avl(r, R), Joined(x, X, a, l, L, r, R), r.height - l.height \in -1..1,
         k < a, Shrunk(l, L, m, k)
  PROVE  /\ Shrunk(x, X, RemoveBalance(Measured([x EXCEPT !.left = m])), k)
         /\ [x EXCEPT !.left = m] # Nil
<1>1. x = Node(a, l, r)
  BY DEF Joined
<1>2. [x EXCEPT !.left = m] = [element |-> a, left |-> m, right |-> r, height |-> x.height]
  BY <1>1 DEF Node
<1>3. x.height \in Nat /\ x.height # 0
  <2>1. l.height \in Nat
    BY AvlHeight
  <2>. QED BY <2>1, JoinedIs
<1>4. [x EXCEPT !.left = m].height = x.height
  BY <1>2
<1>5. Measured([x EXCEPT !.left = m]) = Node(a, m, r)
  BY <1>2 DEF Measured
<1>6. X = L \cup {a} \cup R /\ a \in Int /\ Below(L, a) /\ Above(R, a)
  BY DEF Joined
<1>7. Below(L \ {k}, a) /\ (L \ {k}) \cup {a} \cup R = X \ {k}
  BY <1>6 DEF Below, Above
<1>8. PICK y : y = RemoveBalance(Node(a, m, r))
  OBVIOUS
<1>9. PICK M : M = L \ {k}
  OBVIOUS
<1>10. Avl(m, M) /\ m.height \in {l.height, l.height - 1}
  BY <1>9 DEF Shrunk
<1>11. Avl(y, M \cup {a} \cup R) /\ y.height \in {x.height, x.height - 1}
  <2>1. /\ Avl(l, L) /\ Avl(r, R) /\ Joined(x, X, a, l, L, r, R) /\ r.height - l.height \in -1..1
        /\ a \in Int /\ Avl(m, M) /\ Avl(r, R) /\ Below(M, a) /\ Above(R, a)
    BY <1>6, <1>7, <1>9, <1>10
  <2>2. OneLower(l, r, m, r)
    BY <1>10 DEF OneLower
  <2>. QED BY ONLY <1>8, <2>1, <2>2, ShrunkJoin
<1>12. Shrunk(x, X, y, k)
  BY <1>7, <1>9, <1>11 DEF Shrunk
<1>. QED BY <1>3, <1>4, <1>5, <1>8, <1>12 DEF Nil

LEMMA ShrunkRight ==
  ASSUME NEW x, NEW X, NEW a, NEW l, NEW L, NEW r, NEW R, NEW m, NEW k \in Int,
         Avl(l, L), Avl(r, R), Joined(x, X, a, l, L, r, R), r.height - l.height \in -1..1,
         a < k, Shrunk(r, R, m, k)
  PROVE  /\ Shrunk(x, X, RemoveBalance(Measured([x EXCEPT !.right = m])), k)
         /\ [x EXCEPT !.right = m] # Nil
<1>1. x = Node(a, l, r)
  BY DEF Joined
<1>2. [x EXCEPT !.right = m] = [element |-> a, left |-> l, right |-> m, height |-> x.height]
  BY <1>1 DEF Node
<1>3. x.height \in Nat /\ x.height # 0
  <2>1. l.height \in Nat
    BY AvlHeight
  <2>. QED BY <2>1, JoinedIs
<1>4. [x EXCEPT !.right = m].height = x.height
  BY <1>2
<1>5. Measured([x EXCEPT !.right = m]) = Node(a, l, m)
  BY <1>2 DEF Measured
<1>6. X = L \cup {a} \cup R /\ a \in Int /\ Below(L, a) /\ Above(R, a)
  BY DEF Joined
<1>7. Above(R \ {k}, a) /\ L \cup {a} \cup (R \ {k}) = X \ {k}
  BY <1>6 DEF Below, Above
<1>8. PICK y : y = RemoveBalance(Node(a, l, m))
  OBVIOUS
<1>9. PICK M : M = R \ {k}
  OBVIOUS
<1>10. Avl(m, M) /\ m.height \in {r.height, r.height - 1}
  BY <1>9 DEF Shrunk
<1>11. Avl(y, L \cup {a} \cup M) /\ y.height \in {x.height, x.height - 1}
  <2>1. /\ Avl(l, L) /\ Avl(r, R) /\ Joined(x, X, a, l, L, r, R) /\ r.height - l.height \in -1..1
        /\ a \in Int /\ Avl(l, L) /\ Avl(m, M) /\ Below(L, a) /\ Above(M, a)
    BY <1>6, <1>7, <1>9, <1>10
  <2>2. OneLower(l, r, l, m)
    BY <1>10 DEF OneLower
  <2>. QED BY ONLY <1>8, <2>1, <2>2, ShrunkJoin
<1>12. Shrunk(x, X, y, k)
  BY <1>7, <1>9, <1>11 DEF Shrunk
<1>. QED BY <1>3, <1>4, <1>5, <1>8, <1>12 DEF Nil

(* A node with one child at most is replaced by it. *)
LEMMA Spliced ==
  ASSUME NEW x, NEW X, NEW a, NEW l, NEW L, NEW r, NEW R,
         Avl(l, L), Avl(r, R), Joined(x, X, a, l, L, r, R), r.height - l.height \in -1..1
  PROVE  /\ l = Nil => Shrunk(x, X, r, a)
         /\ r = Nil => Shrunk(x, X, l, a)
<1>1. l.height \in Nat /\ r.height \in Nat
  BY AvlHeight
<1>2. /\ x.height \in Nat /\ x.height \in {l.height + 1, r.height + 1}
      /\ x.height > l.height /\ x.height > r.height
  BY <1>1, JoinedIs
<1>3. X = L \cup {a} \cup R /\ a \in Int /\ Below(L, a) /\ Above(R, a)
  BY DEF Joined
<1>4. ASSUME l = Nil PROVE Shrunk(x, X, r, a)
  <2>1. L = {} /\ l.height = 0
    BY <1>4, AvlHeight
  <2>2. X \ {a} = R
    BY <1>3, <2>1 DEF Above
  <2>3. r.height \in {x.height, x.height - 1}
    BY <1>1, <1>2, <2>1
  <2>. QED BY <2>2, <2>3 DEF Shrunk
<1>5. ASSUME r = Nil PROVE Shrunk(x, X, l, a)
  <2>1. R = {} /\ r.height = 0
    BY <1>5, AvlHeight
  <2>2. X \ {a} = L
    BY <1>3, <2>1 DEF Below
  <2>3. l.height \in {x.height, x.height - 1}
    BY <1>1, <1>2, <2>1
  <2>. QED BY <2>2, <2>3 DEF Shrunk
<1>. QED BY <1>4, <1>5

(* A node with two is replaced by its successor. *)
LEMMA Succeeded ==
  ASSUME NEW x, NEW X, NEW a, NEW l, NEW L, NEW r, NEW R, NEW m, NEW s,
         Avl(l, L), Avl(r, R), Joined(x, X, a, l, L, r, R), r.height - l.height \in -1..1,
         s \in R, \A k \in R : s <= k, Shrunk(r, R, m, s)
  PROVE  /\ Shrunk(x, X, RemoveBalance(Measured(Node(s, l, m))), a)
         /\ Node(s, l, m) # Nil
<1>1. X = L \cup {a} \cup R /\ a \in Int /\ Below(L, a) /\ Above(R, a)
  BY DEF Joined
<1>2. /\ s \in Int /\ Below(L, s) /\ Above(R \ {s}, s)
      /\ L \cup {s} \cup (R \ {s}) = X \ {a}
  <2>1. s \in Int /\ Below(L, s)
    BY <1>1 DEF Below, Above
  <2>2. Above(R \ {s}, s)
    BY <1>1, <2>1 DEF Above
  <2>3. a \notin L /\ a \notin R
    BY <1>1 DEF Below, Above
  <2>. QED BY <1>1, <2>1, <2>2, <2>3
<1>3. PICK M : M = R \ {s}
  OBVIOUS
<1>4. Avl(m, M) /\ m.height \in {r.height, r.height - 1}
  BY <1>3 DEF Shrunk
<1>5. l.height \in Nat /\ m.height \in Nat
  BY <1>4, AvlHeight
<1>6. Measured(Node(s, l, m)) = Node(s, l, m) /\ Node(s, l, m) # Nil
  BY <1>5, NodeIs DEF Measured
<1>7. PICK y : y = RemoveBalance(Node(s, l, m))
  OBVIOUS
<1>8. Avl(y, L \cup {s} \cup M) /\ y.height \in {x.height, x.height - 1}
  <2>1. /\ Avl(l, L) /\ Avl(r, R) /\ Joined(x, X, a, l, L, r, R) /\ r.height - l.height \in -1..1
        /\ s \in Int /\ Avl(l, L) /\ Avl(m, M) /\ Below(L, s) /\ Above(M, s)
    BY <1>2, <1>3, <1>4
  <2>2. OneLower(l, r, l, m)
    BY <1>4 DEF OneLower
  <2>. QED BY ONLY <1>7, <2>1, <2>2, ShrunkJoin
<1>9. Shrunk(x, X, y, a)
  BY <1>2, <1>3, <1>8 DEF Shrunk
<1>. QED BY <1>6, <1>7, <1>9

(* A removal takes out its element, and keeps the tree balanced and sorted.  *)
LEMMA RemoveRemoves ==
  ASSUME NEW t, NEW E, Avl(t, E), E \subseteq Elements, NEW e \in Elements
  PROVE  Avl(RemoveNode(t, e), E \ {e})
<1>1. PICK f : /\ f = [p \in Pointers(t) \X Elements |-> Removing(f, p[1], p[2])]
               /\ RemoveNode(t, e) = f[<<t, e>>]
  BY RemoveNodeIs
<1>2. \A x \in Pointers(t), k \in Elements : f[<<x, k>>] = Removing(f, x, k)
  <2>. TAKE x \in Pointers(t), k \in Elements
  <2>1. <<x, k>> \in Pointers(t) \X Elements /\ <<x, k>>[1] = x /\ <<x, k>>[2] = k
    OBVIOUS
  <2>2. PICK p : p = <<x, k>>
    OBVIOUS
  <2>3. f[p] = Removing(f, p[1], p[2])
    BY <1>1, <2>1, <2>2
  <2>. QED BY <2>1, <2>2, <2>3
<1>. DEFINE Shrinks(x, X) == \A k \in Elements : Shrunk(x, X, f[<<x, k>>], k)
            S == {x \in Pointers(t) : \A X : Avl(x, X) /\ X \subseteq E => Shrinks(x, X)}
<1>3. Elements \subseteq Int
  BY ElementsAssumption
<1>4. Nil \in S
  <2>. SUFFICES ASSUME NEW X, Avl(Nil, X), NEW k \in Elements
                PROVE  Shrunk(Nil, X, f[<<Nil, k>>], k)
    BY DEF Pointers
  <2>1. X = {}
    BY AvlHeight
  <2>2. f[<<Nil, k>>] = Nil
    BY <1>2 DEF Pointers, Removing
  <2>. QED BY <2>1, <2>2, NilIsAvl DEF Shrunk
<1>5. ASSUME NEW x \in Nodes(t), x.left \in S, x.right \in S
      PROVE  x \in S
  <2>1. x \in Pointers(t) /\ x # Nil
    BY PointerHeight
  <2>. SUFFICES ASSUME NEW X, Avl(x, X), X \subseteq E, NEW k \in Elements
                PROVE  Shrunk(x, X, f[<<x, k>>], k)
    BY <2>1
  <2>2. PICK a, l, L, r, R : /\ Avl(l, L) /\ Avl(r, R)
                             /\ Joined(x, X, a, l, L, r, R) /\ r.height - l.height \in -1..1
    BY <2>1, AvlParts
  <2>3. x.element = a /\ x.left = l /\ x.right = r
    BY <2>2, JoinedIs
  <2>4. X = L \cup {a} \cup R /\ a \in Int /\ k \in Int
    BY <1>3, <2>2 DEF Joined
  <2>5. Shrinks(l, L) /\ Shrinks(r, R)
    BY <1>5, <2>2, <2>3, <2>4
  <2>6. f[<<x, k>>] = Removing(f, x, k)
    BY <1>2, <2>1
  <2>. HIDE DEF S
  <2>7. CASE k < a
    <3>1. Removed(f, x, k) = [x EXCEPT !.left = f[<<l, k>>]]
      BY <2>3, <2>7 DEF Removed
    <3>2. PICK m : m = f[<<l, k>>]
      OBVIOUS
    <3>3. Shrunk(l, L, m, k)
      BY <2>5, <3>2
    <3>4. /\ Shrunk(x, X, RemoveBalance(Measured([x EXCEPT !.left = m])), k)
          /\ [x EXCEPT !.left = m] # Nil
      BY ONLY <2>2, <2>4, <2>7, <3>3, ShrunkLeft
    <3>. QED BY <2>1, <2>6, <3>1, <3>2, <3>4 DEF Removing
  <2>8. CASE a < k
    <3>1. Removed(f, x, k) = [x EXCEPT !.right = f[<<r, k>>]]
      <4>1. ~(k < x.element) /\ k > x.element
        BY <2>3, <2>4, <2>8
      <4>. QED BY <2>3, <4>1 DEF Removed
    <3>2. PICK m : m = f[<<r, k>>]
      OBVIOUS
    <3>3. Shrunk(r, R, m, k)
      BY <2>5, <3>2
    <3>4. /\ Shrunk(x, X, RemoveBalance(Measured([x EXCEPT !.right = m])), k)
          /\ [x EXCEPT !.right = m] # Nil
      BY ONLY <2>2, <2>4, <2>8, <3>3, ShrunkRight
    <3>. QED BY <2>1, <2>6, <3>1, <3>2, <3>4 DEF Removing
  <2>9. CASE a = k
    <3>1. ~(k < x.element) /\ ~(k > x.element)
      BY <2>3, <2>4, <2>9
    <3>2. ASSUME NEW y, Avl(y, X \ {k}), Removed(f, x, k) = y
          PROVE  f[<<x, k>>] = y
      <4>1. CASE y = Nil
        BY <2>6, <3>2, <4>1 DEF Removing
      <4>2. CASE y # Nil
        <5>1. RemoveBalance(Measured(y)) = y
          BY <3>2, <4>2, AvlStays
        <5>. QED BY <2>1, <2>6, <3>2, <4>2, <5>1 DEF Removing
      <4>. QED BY <4>1, <4>2
    <3>3. /\ l = Nil => Shrunk(x, X, r, k)
          /\ r = Nil => Shrunk(x, X, l, k)
      BY ONLY <2>2, <2>9, Spliced
    <3>4. CASE l = Nil
      <4>1. Removed(f, x, k) = r
        BY <2>3, <3>1, <3>4 DEF Removed
      <4>. QED BY <3>2, <3>3, <3>4, <4>1 DEF Shrunk
    <3>5. CASE l # Nil /\ r = Nil
      <4>1. Removed(f, x, k) = l
        BY <2>3, <3>1, <3>5 DEF Removed
      <4>. QED BY <3>2, <3>3, <3>5, <4>1 DEF Shrunk
    <3>6. CASE l # Nil /\ r # Nil
      <4>1. PICK s : s = Leftmost(r)
        OBVIOUS
      <4>2. PICK m : m = f[<<r, s>>]
        OBVIOUS
      <4>3. Removed(f, x, k) = Node(s, l, m)
        BY <2>3, <3>1, <3>6, <4>1, <4>2 DEF Removed
      <4>4. s \in R /\ \A i \in R : s <= i
        BY <2>2, <3>6, <4>1, LeftmostIsLeast
      <4>5. s \in Elements
        BY <2>4, <4>4
      <4>6. Shrunk(r, R, m, s)
        BY <2>5, <4>2, <4>5
      <4>7. /\ Shrunk(x, X, RemoveBalance(Measured(Node(s, l, m))), a)
            /\ Node(s, l, m) # Nil
        BY ONLY <2>2, <4>4, <4>6, Succeeded
      <4>. QED BY <2>1, <2>6, <2>9, <4>3, <4>7 DEF Removing
    <3>. QED BY <3>4, <3>5, <3>6
  <2>. QED BY <2>4, <2>7, <2>8, <2>9
<1>6. t \in S
  <2>. HIDE DEF S
  <2>. QED BY <1>4, <1>5, FromChildren, NodesOf
<1>7. Shrunk(t, E, f[<<t, e>>], e)
  BY <1>6
<1>. QED BY <1>1, <1>7 DEF Shrunk

-----------------------------------------------------------------------------
(* Traversal. *)

Visiting(f, x) ==
  IF x = Nil THEN << >> ELSE <<x.element>> \o f[x.left] \o f[x.right]

LEMMA PreorderIs ==
  ASSUME NEW t, NEW E, Avl(t, E)
  PROVE  \E f : f = [x \in Pointers(t) |-> Visiting(f, x)] /\ Preorder(t) = f[t]
<1>. DEFINE D(n) == {x \in Pointers(t) : x.height <= n}
            H == {n \in Nat : \E f : f = [x \in D(n) |-> Visiting(f, x)]}
<1>1. 0 \in H
  <2>1. \A x \in D(0) : x = Nil
    <3>1. \A x \in Nodes(t) : x.left.height \in Nat /\ x.left.height < x.height
      BY NodesOf, PointerHeight
    <3>. QED BY <3>1, PointerHeight
  <2>. DEFINE f == [x \in D(0) |-> << >>]
  <2>2. f = [x \in D(0) |-> Visiting(f, x)]
    BY <2>1 DEF Visiting
  <2>. QED BY <2>2
<1>2. ASSUME NEW n \in Nat, n \in H PROVE n + 1 \in H
  <2>1. PICK f : f = [x \in D(n) |-> Visiting(f, x)]
    BY <1>2
  <2>. DEFINE g == [x \in D(n + 1) |-> IF x \in D(n) THEN f[x] ELSE Visiting(f, x)]
  <2>2. ASSUME NEW x \in D(n + 1) PROVE g[x] = Visiting(f, x)
    <3>. HIDE DEF D
    <3>. QED BY <2>1
  <2>3. ASSUME NEW x \in D(n) PROVE g[x] = f[x]
    <3>1. x \in D(n + 1)
      BY PointerHeight
    <3>. QED BY <3>1
  <2>4. ASSUME NEW x \in D(n + 1) PROVE Visiting(f, x) = Visiting(g, x)
    <3>1. CASE x = Nil
      BY <3>1 DEF Visiting
    <3>2. CASE x # Nil
      <4>1. x \in Nodes(t) /\ x.height \in Nat /\ x.height <= n + 1
        BY <3>2, PointerHeight
      <4>2. /\ x.left \in Pointers(t) /\ x.left.height \in Nat /\ x.left.height < x.height
            /\ x.right \in Pointers(t) /\ x.right.height \in Nat /\ x.right.height < x.height
        BY <4>1, NodesOf, PointerHeight
      <4>3. x.left \in D(n) /\ x.right \in D(n)
        BY <4>1, <4>2
      <4>4. g[x.left] = f[x.left] /\ g[x.right] = f[x.right]
        BY <2>3, <4>3
      <4>. HIDE DEF g
      <4>. QED BY <3>2, <4>4 DEF Visiting
    <3>. QED BY <3>1, <3>2
  <2>5. g = [x \in D(n + 1) |-> Visiting(g, x)]
    <3>1. g = [x \in D(n + 1) |-> g[x]]
      OBVIOUS
    <3>. HIDE DEF g, D
    <3>. QED BY <2>2, <2>4, <3>1
  <2>. HIDE DEF g, D
  <2>6. \E k : k = [x \in D(n + 1) |-> Visiting(k, x)]
    BY <2>5
  <2>. QED BY <2>6
<1>3. PICK n \in Nat : n = t.height
  BY AvlHeight
<1>4. n \in H
  <2>. HIDE DEF H
  <2>. QED BY <1>1, <1>2, OneByOne
<1>5. D(n) = Pointers(t)
  <2>1. \A x \in Pointers(t) : x.height <= n
    BY <1>3, NodesOf
  <2>. QED BY <2>1
<1>6. PICK k : k = [x \in Pointers(t) |-> Visiting(k, x)]
  <2>. HIDE DEF D
  <2>. QED BY <1>4, <1>5
<1>. DEFINE f == CHOOSE f : f = [x \in Pointers(t) |-> Visiting(f, x)]
<1>7. f = [x \in Pointers(t) |-> Visiting(f, x)]
  BY <1>6
<1>8. Preorder(t) = f[t]
  BY DEF Preorder, Visiting
<1>. QED BY <1>7, <1>8

(* v has each element of E once, and nothing else. *)
Lists(v, E) ==
  /\ v \in Seq(Int)
  /\ \A i, j \in 1..Len(v) : v[i] = v[j] => i = j
  /\ {v[i] : i \in 1..Len(v)} = E

LEMMA ListsBoth ==
  ASSUME NEW p, NEW P, NEW q, NEW Q, Lists(p, P), Lists(q, Q), P \cap Q = {}
  PROVE  Lists(p \o q, P \cup Q)
<1>1. p \in Seq(Int) /\ q \in Seq(Int)
  BY DEF Lists
<1>2. PICK v : v = p \o q
  OBVIOUS
<1>3. /\ v \in Seq(Int) /\ Len(v) = Len(p) + Len(q)
      /\ \A i \in 1..Len(p) : v[i] = p[i]
      /\ \A i \in 1..Len(q) : v[Len(p) + i] = q[i]
  BY <1>1, <1>2
<1>4. /\ Len(p) \in Nat /\ Len(q) \in Nat
  BY <1>1
<1>5. \A i \in 1..Len(v) : i \in 1..Len(p) \/ (i - Len(p) \in 1..Len(q) /\ i = Len(p) + (i - Len(p)))
  BY <1>3, <1>4
<1>6. /\ \A i \in 1..Len(p) : v[i] \in P /\ i \in 1..Len(v)
      /\ \A i \in 1..Len(q) : v[Len(p) + i] \in Q /\ Len(p) + i \in 1..Len(v)
  <2>1. (\A i \in 1..Len(p) : p[i] \in P) /\ (\A i \in 1..Len(q) : q[i] \in Q)
    BY DEF Lists
  <2>2. /\ \A i \in 1..Len(p) : i \in 1..Len(v)
        /\ \A i \in 1..Len(q) : Len(p) + i \in 1..Len(v)
    BY <1>3, <1>4
  <2>. QED BY <1>3, <2>1, <2>2
<1>7. ASSUME NEW i \in 1..Len(v), NEW j \in 1..Len(v), v[i] = v[j]
      PROVE  i = j
  <2>1. CASE i \in 1..Len(p) /\ j \in 1..Len(p)
    BY <1>3, <1>7, <2>1 DEF Lists
  <2>2. CASE i \in 1..Len(p) /\ j \notin 1..Len(p)
    BY <1>5, <1>6, <1>7, <2>2
  <2>3. CASE i \notin 1..Len(p) /\ j \in 1..Len(p)
    BY <1>5, <1>6, <1>7, <2>3
  <2>4. CASE i \notin 1..Len(p) /\ j \notin 1..Len(p)
    <3>1. PICK k \in 1..Len(q), m \in 1..Len(q) : i = Len(p) + k /\ j = Len(p) + m
      BY <1>5, <2>4
    <3>2. q[k] = q[m]
      BY <1>3, <1>7, <3>1
    <3>3. k = m
      BY <3>2 DEF Lists
    <3>. QED BY <3>1, <3>3
  <2>. QED BY <2>1, <2>2, <2>3, <2>4
<1>8. {v[i] : i \in 1..Len(v)} = P \cup Q
  <2>1. ASSUME NEW i \in 1..Len(v) PROVE v[i] \in P \cup Q
    BY <1>5, <1>6
  <2>2. ASSUME NEW k \in P PROVE \E i \in 1..Len(v) : v[i] = k
    <3>1. PICK i \in 1..Len(p) : p[i] = k
      BY DEF Lists
    <3>. QED BY <1>3, <1>6, <3>1
  <2>3. ASSUME NEW k \in Q PROVE \E i \in 1..Len(v) : v[i] = k
    <3>1. PICK i \in 1..Len(q) : q[i] = k
      BY DEF Lists
    <3>. QED BY <1>3, <1>6, <3>1
  <2>. QED BY <2>1, <2>2, <2>3
<1>9. \A i, j \in 1..Len(v) : v[i] = v[j] => i = j
  BY ONLY <1>7
<1>10. v \in Seq(Int)
  BY ONLY <1>3
<1>11. Lists(v, P \cup Q)
  BY ONLY <1>8, <1>9, <1>10 DEF Lists
<1>. QED BY ONLY <1>2, <1>11

(* A traversal visits each element once. *)
LEMMA PreorderVisits ==
  ASSUME NEW t, NEW E, Avl(t, E)
  PROVE  Lists(Preorder(t), E)
<1>1. PICK f : f = [x \in Pointers(t) |-> Visiting(f, x)] /\ Preorder(t) = f[t]
  BY PreorderIs
<1>2. \A x \in Pointers(t) : f[x] = Visiting(f, x)
  BY <1>1
<1>. DEFINE S == {x \in Pointers(t) : \A X : Avl(x, X) => Lists(f[x], X)}
<1>3. Nil \in S
  <2>. SUFFICES ASSUME NEW X, Avl(Nil, X) PROVE Lists(f[Nil], X)
    BY DEF Pointers
  <2>1. X = {} /\ f[Nil] = << >>
    BY <1>2, AvlHeight DEF Pointers, Visiting
  <2>. QED BY <2>1 DEF Lists
<1>4. ASSUME NEW x \in Nodes(t), x.left \in S, x.right \in S
      PROVE  x \in S
  <2>1. x \in Pointers(t) /\ x # Nil
    BY PointerHeight
  <2>. SUFFICES ASSUME NEW X, Avl(x, X) PROVE Lists(f[x], X)
    BY <2>1
  <2>2. PICK a, l, L, r, R : Avl(l, L) /\ Avl(r, R) /\ Joined(x, X, a, l, L, r, R)
    BY <2>1, AvlParts
  <2>3. x.element = a /\ x.left = l /\ x.right = r
    BY <2>2, JoinedIs
  <2>4. /\ X = L \cup {a} \cup R /\ a \in Int
        /\ {a} \cap L = {} /\ ({a} \cup L) \cap R = {}
    BY <2>2 DEF Joined, Below, Above
  <2>5. Lists(f[l], L) /\ Lists(f[r], R)
    BY <1>4, <2>2, <2>3
  <2>6. Lists(<<a>>, {a})
    BY <2>4 DEF Lists
  <2>. HIDE DEF S
  <2>7. Lists(<<a>> \o f[l], {a} \cup L)
    BY <2>4, <2>5, <2>6, ListsBoth
  <2>8. Lists((<<a>> \o f[l]) \o f[r], ({a} \cup L) \cup R)
    BY <2>4, <2>5, <2>7, ListsBoth
  <2>9. f[x] = (<<a>> \o f[l]) \o f[r]
    BY <1>2, <2>1, <2>3 DEF Visiting
  <2>10. ({a} \cup L) \cup R = X
    BY <2>4
  <2>. QED BY <2>8, <2>9, <2>10
<1>5. t \in S
  <2>. HIDE DEF S
  <2>. QED BY <1>3, <1>4, FromChildren, NodesOf
<1>. QED BY <1>1, <1>5

-----------------------------------------------------------------------------
(* The tree of the specification. *)

(* The tree is balanced, sorted, and of elements: what Balanced says of the  *)
(* nodes is kept only together with the order and with the heights below.    *)
TreeInv == \E E \in SUBSET Elements : Avl(tree, E)

LEMMA MembersAre ==
  ASSUME NEW E, Avl(tree, E)
  PROVE  Members = E
BY ElementsOf DEF Members

LEMMA MembersWillBe ==
  ASSUME NEW E, Avl(tree', E)
  PROVE  Members' = E
<1>1. PICK t : t = tree'
  OBVIOUS
<1>2. {x.element : x \in Nodes(t)} = E
  BY <1>1, ElementsOf
<1>. QED BY <1>1, <1>2 DEF Members

LEMMA InsertedElement ==
  ASSUME NEW E \in SUBSET Elements, Avl(tree, E), NEW e \in Elements, Insert(e)
  PROVE  e \notin E /\ Avl(tree', E \cup {e})
<1>1. e \in Int
  BY ElementsAssumption
<1>2. e \notin E
  BY <1>1, FindFinds DEF Insert
<1>. QED BY <1>1, <1>2, InsertInserts DEF Insert

LEMMA RemovedElement ==
  ASSUME NEW E \in SUBSET Elements, Avl(tree, E), NEW e \in Elements, Remove(e)
  PROVE  /\ Avl(tree', E \ {e})
         /\ returned' = IF e \in E THEN e ELSE NULL
<1>1. e \in Int
  BY ElementsAssumption
<1>2. Find(tree, e) = Nil <=> e \notin E
  BY <1>1, FindFinds
<1>3. Avl(RemoveNode(tree, e), E \ {e})
  BY RemoveRemoves
<1>. QED BY <1>2, <1>3 DEF Remove

LEMMA TreeInvHolds == Spec => []TreeInv
<1>1. Init => TreeInv
  BY NilIsAvl DEF Init, TreeInv
<1>2. TreeInv /\ [Next]_vars => TreeInv'
  <2>. SUFFICES ASSUME TreeInv, [Next]_vars PROVE TreeInv'
    OBVIOUS
  <2>1. PICK E \in SUBSET Elements : Avl(tree, E)
    BY DEF TreeInv
  <2>2. ASSUME NEW e \in Elements, Insert(e) PROVE TreeInv'
    <3>1. Avl(tree', E \cup {e})
      BY <2>1, <2>2, InsertedElement
    <3>. QED BY <3>1 DEF TreeInv
  <2>3. ASSUME NEW e \in Elements, Remove(e) PROVE TreeInv'
    <3>1. Avl(tree', E \ {e})
      BY <2>1, <2>3, RemovedElement
    <3>. QED BY <3>1 DEF TreeInv
  <2>4. CASE UNCHANGED vars
    BY <2>1, <2>4 DEF vars, TreeInv
  <2>. QED BY <2>2, <2>3, <2>4 DEF Next
<1>. QED BY <1>1, <1>2, PTL DEF Spec

(* tree.h:11: whatever is inserted and removed, and in whatever order, at    *)
(* every node the recorded height is true and the subtrees differ in height  *)
(* by one at most.                                                           *)
THEOREM TreeBalanced == Spec => []Balanced
<1>1. TreeInv => Balanced
  BY NodesAreBalanced DEF TreeInv, Balanced
<1>. QED BY <1>1, TreeInvHolds, PTL

(* tree_find finds each element of the tree and no other, tree_last the      *)
(* greatest, and a traversal visits each of them once: of a tree of any      *)
(* number of elements.                                                       *)
THEOREM TreeSearchable == Spec => []Searchable
<1>1. TreeInv => Searchable
  <2>. SUFFICES ASSUME NEW E \in SUBSET Elements, Avl(tree, E) PROVE Searchable
    BY DEF TreeInv
  <2>1. Members = E
    BY MembersAre
  <2>2. \A e \in Elements : Find(tree, e) # Nil <=> e \in E
    BY ElementsAssumption, FindFinds
  <2>3. E # {} => Last(tree) \in E /\ \A e \in E : e <= Last(tree)
    BY AvlHeight, LastIsGreatest
  <2>4. Lists(Preorder(tree), E)
    BY PreorderVisits
  <2>. QED BY <2>1, <2>2, <2>3, <2>4 DEF Lists, Searchable
<1>. QED BY <1>1, TreeInvHolds, PTL

(* The tree implements a set: an insertion adds its element, and a removal   *)
(* takes its element out and returns it, or returns NULL where there is none;*)
(* the rotations and the successor which takes the place of a node change    *)
(* nothing else.                                                             *)
THEOREM TreeImplementsSet == Spec => TreeIsSet
<1>1. Init => AsSet!Init
  <2>. SUFFICES ASSUME Init PROVE AsSet!Init
    OBVIOUS
  <2>1. Members = {}
    BY NilIsAvl, MembersAre DEF Init
  <2>. QED BY <2>1 DEF Init, AsSet!Init
<1>2. TreeInv /\ [Next]_vars => [AsSet!Next]_<<Members, returned>>
  <2>. SUFFICES ASSUME TreeInv, [Next]_vars PROVE [AsSet!Next]_<<Members, returned>>
    OBVIOUS
  <2>1. PICK E \in SUBSET Elements : Avl(tree, E)
    BY DEF TreeInv
  <2>2. Members = E
    BY <2>1, MembersAre
  <2>3. ASSUME NEW e \in Elements, Insert(e) PROVE AsSet!Insert(e)
    <3>1. e \notin E /\ Members' = E \cup {e}
      <4>1. e \notin E /\ Avl(tree', E \cup {e})
        BY <2>1, <2>3, InsertedElement
      <4>2. PICK F : F = E \cup {e}
        OBVIOUS
      <4>3. Members' = F
        BY <4>1, <4>2, MembersWillBe
      <4>. QED BY <4>1, <4>2, <4>3
    <3>. QED BY <2>2, <2>3, <3>1 DEF Insert, AsSet!Insert
  <2>4. ASSUME NEW e \in Elements, Remove(e) PROVE AsSet!Remove(e)
    <3>1. Members' = E \ {e} /\ returned' = IF e \in E THEN e ELSE NULL
      <4>1. Avl(tree', E \ {e}) /\ returned' = IF e \in E THEN e ELSE NULL
        BY <2>1, <2>4, RemovedElement
      <4>2. PICK F : F = E \ {e}
        OBVIOUS
      <4>3. Members' = F
        BY <4>1, <4>2, MembersWillBe
      <4>. QED BY <4>1, <4>2, <4>3
    <3>. QED BY <2>2, <3>1 DEF AsSet!Remove
  <2>5. CASE UNCHANGED vars
    BY <2>5 DEF vars, Members
  <2>. QED BY <2>3, <2>4, <2>5 DEF Next, AsSet!Next
<1>. QED BY <1>1, <1>2, TreeInvHolds, PTL DEF Spec, TreeIsSet, AsSet!Spec
=============================================================================

------------------------------- MODULE YGTree -------------------------------
(***************************************************************************)
(* The balanced trees behind the analyzer's sets and lists (ygtree.cc).    *)
(* Leaves hold up to LeafSize elements, an inner node holds one between    *)
(* its subtrees, and the heights of subtrees differ by at most one.  A     *)
(* container of at most one element has no nodes.                          *)
(*   leaf:  [inner |-> FALSE, up, leaf]                                    *)
(*   inner: [inner |-> TRUE, up, datum, child, size, height]               *)
(* child is <<left, right>>; the root is its own parent.  An iterator is   *)
(* [which, where]: the place before element where of a leaf, or before the *)
(* inner element that follows the leaf.                                    *)
(***************************************************************************)
EXTENDS Integers, FiniteSets, SequencesExt, FiniteSetsExt

CONSTANTS
  LeafSize,  \* LEAF_SIZE
  Data,      \* elements, which are compared as numbers
  Others     \* sets that the container is combined with

VARIABLES
  tree,      \* [root, small, first, last, nodes]
  answer     \* the last operation: <<name, argument, what it returned>>

vars == <<tree, answer>>

Nil == 0
Empty == [root |-> Nil, small |-> <<>>, first |-> Nil, last |-> Nil, nodes |-> <<>>]
At(n, k) == [which |-> n, where |-> k]
With(t, i) == [t |-> t, i |-> i]

Size(t, n) == IF t.nodes[n].inner THEN t.nodes[n].size ELSE Len(t.nodes[n].leaf)
Height(t, n) == IF t.nodes[n].inner THEN t.nodes[n].height ELSE 0
Combined(a, b) == (a + b + 3) \div 2
Child(t, n, side) == t.nodes[n].child[side]

Recalc(t, n) ==
  LET l == Child(t, n, 1)
      r == Child(t, n, 2)
  IN [t EXCEPT !.nodes[n].size = Size(t, l) + Size(t, r) + 1,
               !.nodes[n].height = Combined(Height(t, l), Height(t, r))]

\* rotate_left (side 1) and rotate_right (side 2); n stays on top with other contents
Rotate(t, n, side) ==
  LET other == 3 - side
      m == Child(t, n, other)
      near == Child(t, n, side)
      far == Child(t, m, other)
  IN Recalc([t EXCEPT
       !.nodes[n].datum = t.nodes[m].datum,
       !.nodes[m].datum = t.nodes[n].datum,
       !.nodes[m].child[side] = near, !.nodes[near].up = m,
       !.nodes[m].child[other] = Child(t, m, side),
       !.nodes[n].child[side] = m,
       !.nodes[n].child[other] = far, !.nodes[far].up = n], m)

\* Variant with a defect: a single rotation is always enough.
Avl_single(t, n) ==
  LET tall(side) == Height(t, Child(t, n, side)) > Height(t, Child(t, n, 3 - side)) + 1
  IN Recalc(IF tall(2) THEN Rotate(t, n, 1) ELSE IF tall(1) THEN Rotate(t, n, 2) ELSE t, n)

Avl(t, n) ==
  LET tall(side) == Height(t, Child(t, n, side)) > Height(t, Child(t, n, 3 - side)) + 1
      lowered(side) ==
        LET c == Child(t, n, side)
        IN Rotate(IF Height(t, Child(t, c, side)) # Height(t, c) - 1 THEN Rotate(t, c, side) ELSE t, n, 3 - side)
  IN Recalc(IF tall(2) THEN lowered(2) ELSE IF tall(1) THEN lowered(1) ELSE t, n)

\* the tree is balanced upwards from n, and the cached first and last leaves are forgotten
RECURSIVE MakeAjour(_, _)
MakeAjour(t, n) ==
  LET b == IF t.nodes[n].inner THEN Avl(t, n) ELSE t
      up == b.nodes[n].up
  IN IF up = n THEN [b EXCEPT !.first = Nil, !.last = Nil] ELSE MakeAjour(b, up)

RECURSIVE Outermost(_, _, _)
Outermost(t, n, side) == IF t.nodes[n].inner THEN Outermost(t, Child(t, n, side), side) ELSE n

FirstLastAjour(t) ==
  IF t.first # Nil THEN t
  ELSE [t EXCEPT !.first = Outermost(t, t.root, 1), !.last = Outermost(t, t.root, 2)]

\* yg_node::next: the first leaf of the right subtree of an inner node, or
\* the first inner node upwards that has the leaf on its left
RECURSIVE Above(_, _)
Above(t, n) ==
  LET up == t.nodes[n].up IN IF Child(t, up, 1) = n THEN up ELSE Above(t, up)
NextNode(t, n) == IF t.nodes[n].inner THEN Outermost(t, Child(t, n, 2), 1) ELSE Above(t, n)

(***************************************************************************)
(* Iterators.                                                              *)
(***************************************************************************)
Begin(t) == IF t.root = Nil THEN With(t, At(Nil, 0)) ELSE With(FirstLastAjour(t), At(FirstLastAjour(t).first, 0))

AtInner(t, i) == i.where = (IF i.which = Nil THEN Len(t.small) ELSE Len(t.nodes[i.which].leaf))

RECURSIVE OnTheLeft(_, _)
OnTheLeft(t, n) ==
  LET up == t.nodes[n].up IN up # n /\ (Child(t, up, 2) # n \/ OnTheLeft(t, up))

Valid(t, i) == ~AtInner(t, i) \/ (i.which # Nil /\ OnTheLeft(t, i.which))

Inc(t, i) ==
  IF i.which # Nil /\ AtInner(t, i) THEN At(NextNode(t, NextNode(t, i.which)), 0) ELSE [i EXCEPT !.where = @ + 1]

Get(t, i) ==
  IF i.which = Nil THEN t.small[1]
  ELSE IF AtInner(t, i) THEN t.nodes[NextNode(t, i.which)].datum
  ELSE t.nodes[i.which].leaf[i.where + 1]

Put(t, i, d) ==
  IF i.which = Nil THEN [t EXCEPT !.small = <<d>>]
  ELSE IF AtInner(t, i) THEN [t EXCEPT !.nodes[NextNode(t, i.which)].datum = d]
  ELSE [t EXCEPT !.nodes[i.which].leaf[i.where + 1] = d]

RECURSIVE IndexFrom(_, _, _)
IndexFrom(t, n, k) ==
  IF ~t.nodes[n].inner THEN At(n, k)
  ELSE LET l == Child(t, n, 1)
       IN IF k > Size(t, l) THEN IndexFrom(t, Child(t, n, 2), k - Size(t, l) - 1) ELSE IndexFrom(t, l, k)
IndexIn(t, k) == IF t.root = Nil THEN At(Nil, k) ELSE IndexFrom(t, t.root, k)

RECURSIVE FindFrom(_, _, _)
FindFrom(t, n, d) ==
  IF t.nodes[n].inner THEN FindFrom(t, Child(t, n, IF d <= t.nodes[n].datum THEN 1 ELSE 2), d)
  ELSE At(n, Len(SelectSeq(t.nodes[n].leaf, LAMBDA e : e < d)))
FindIn(t, d) ==
  IF t.root # Nil THEN FindFrom(t, t.root, d)
  ELSE At(Nil, IF t.small = <<>> \/ d <= t.small[1] THEN 0 ELSE 1)

Count(t) == IF t.root = Nil THEN Len(t.small) ELSE Size(t, t.root)

(***************************************************************************)
(* Changes, which leave the iterator at the place after the change.        *)
(***************************************************************************)
Unused(t, n) == CHOOSE m \in 1..Cardinality(Data) + 4 :
  /\ m \notin DOMAIN t.nodes /\ m # n
  /\ \A k \in 1..m - 1 : k \in DOMAIN t.nodes \/ k = n

Drop(t, n) == [t EXCEPT !.nodes = [m \in DOMAIN t.nodes \ {n} |-> t.nodes[m]]]

\* yg_node::replace_with: n takes the contents of its child, which is deleted
ReplaceWith(t, n, child) ==
  LET up == t.nodes[n].up
      moved == [t EXCEPT !.nodes[n] = [t.nodes[child] EXCEPT !.up = up]]
  IN Drop(IF t.nodes[child].inner
          THEN [moved EXCEPT !.nodes[Child(t, child, 1)].up = n, !.nodes[Child(t, child, 2)].up = n]
          ELSE moved, child)

\* case 1a: an inner element after an empty leaf that is a left child
EraseAfterEmptyLeft(t, i) ==
  LET n == t.nodes[i.which].up
      r == Child(t, n, 2)
      j == Inc(t, i)
      k == IF j.which = r THEN [j EXCEPT !.which = n] ELSE j
  IN With(MakeAjour(Drop(ReplaceWith(t, n, r), i.which), n), k)

\* case 1b: the empty leaf is a right child: its parent's element takes the
\* place of the one that is erased, and the parent goes
EraseAfterEmptyRight(t, i) ==
  LET n == t.nodes[i.which].up
      moved == Put(t, i, t.nodes[n].datum)
      j == Inc(moved, i)
  IN With(MakeAjour(Drop(ReplaceWith(moved, n, Child(moved, n, 1)), i.which), n), j)

\* case 2: an inner element after a leaf, the last element of which replaces it
EraseInner(t, i) ==
  LET s == t.nodes[i.which].leaf
      b == MakeAjour([t EXCEPT !.nodes[i.which].leaf = Front(s)], i.which)
      j == [i EXCEPT !.where = @ - 1]
      moved == Put(b, j, Last(s))
  IN With(moved, Inc(moved, j))

EraseInLeaf(t, i) == With(MakeAjour([t EXCEPT !.nodes[i.which].leaf = RemoveAt(@, i.where + 1)], i.which), i)

EraseAt(t, i) ==
  IF t.root = Nil THEN With([t EXCEPT !.small = <<>>], i)
  ELSE IF t.nodes[i.which].leaf = <<>>
  THEN IF Child(t, t.nodes[i.which].up, 1) = i.which THEN EraseAfterEmptyLeft(t, i) ELSE EraseAfterEmptyRight(t, i)
  ELSE IF AtInner(t, i) THEN EraseInner(t, i) ELSE EraseInLeaf(t, i)

\* a full leaf n becomes an inner node; at the ends of the tree the new leaf is empty
SplitLeaf(t, n, where, d) ==
  LET u == FirstLastAjour(t)
      elements == InsertAt(t.nodes[n].leaf, where + 1, d)
      cut == IF where = 0 /\ n = u.first THEN 0
             ELSE IF where = LeafSize /\ n = u.last THEN LeafSize ELSE LeafSize \div 2
      l == Unused(t, Nil)
      r == Unused(t, l)
      leaf(s) == [inner |-> FALSE, up |-> n, leaf |-> s]
      parent == [inner |-> TRUE, up |-> t.nodes[n].up, datum |-> elements[cut + 1], child |-> <<l, r>>, size |-> 0, height |-> 0]
      nodes == [m \in DOMAIN t.nodes \cup {l, r} |->
                  CASE m = n -> parent
                    [] m = l -> leaf(SubSeq(elements, 1, cut))
                    [] m = r -> leaf(SubSeq(elements, cut + 2, LeafSize + 1))
                    [] OTHER -> t.nodes[m]]
  IN With(MakeAjour([t EXCEPT !.nodes = nodes], n),
          IF where + 1 <= cut THEN At(l, where + 1) ELSE At(r, where - cut))

InsertIn(t, i, d) ==
  IF t.root = Nil /\ t.small = <<>> THEN With([t EXCEPT !.small = <<d>>], At(Nil, 1))
  ELSE LET rooted == IF t.root # Nil THEN t
                     ELSE [root |-> 1, small |-> t.small, first |-> 1, last |-> 1,
                           nodes |-> [n \in {1} |-> [inner |-> FALSE, up |-> 1, leaf |-> t.small]]]
           n == IF t.root = Nil THEN 1 ELSE i.which
       IN IF Len(rooted.nodes[n].leaf) < LeafSize
          THEN With(MakeAjour([rooted EXCEPT !.nodes[n].leaf = InsertAt(@, i.where + 1, d)], n), At(n, i.where + 1))
          ELSE SplitLeaf(rooted, n, i.where, d)

(***************************************************************************)
(* Sets: Pset_... and Nset::...                                            *)
(***************************************************************************)
Found(t, d) == LET i == FindIn(t, d) IN Valid(t, i) /\ Get(t, i) = d

Inserted(t, d) == IF Found(t, d) THEN t ELSE InsertIn(t, FindIn(t, d), d).t

Built(S) == FoldSet(LAMBDA d, t : Inserted(t, d), Empty, S)

Outcome(t, same) == [t |-> t, same |-> same]

\* the two containers are walked through together; a is the one that changes
RECURSIVE UnionFrom(_, _, _, _, _)
\* Variant with a defect: what is left of the other set is not added.
UnionFrom_short(t, i, u, j, same) ==
  IF ~Valid(u, j) \/ ~Valid(t, i) THEN Outcome(t, same)
  ELSE IF Get(t, i) <= Get(u, j) THEN UnionFrom(t, Inc(t, i), u, IF Get(t, i) = Get(u, j) THEN Inc(u, j) ELSE j, same)
  ELSE LET r == InsertIn(t, i, Get(u, j)) IN UnionFrom(r.t, r.i, u, Inc(u, j), FALSE)

UnionFrom(t, i, u, j, same) ==
  IF ~Valid(u, j) THEN Outcome(t, same)
  ELSE IF Valid(t, i) /\ Get(t, i) = Get(u, j) THEN UnionFrom(t, Inc(t, i), u, Inc(u, j), same)
  ELSE IF Valid(t, i) /\ Get(t, i) <= Get(u, j) THEN UnionFrom(t, Inc(t, i), u, j, same)
  ELSE LET r == InsertIn(t, i, Get(u, j)) IN UnionFrom(r.t, r.i, u, Inc(u, j), FALSE)

RECURSIVE IntersectFrom(_, _, _, _, _)
IntersectFrom(t, i, u, j, same) ==
  IF ~Valid(t, i) THEN Outcome(t, same)
  ELSE IF Valid(u, j) /\ Get(t, i) = Get(u, j) THEN IntersectFrom(t, Inc(t, i), u, Inc(u, j), same)
  ELSE IF Valid(u, j) /\ Get(t, i) > Get(u, j) THEN IntersectFrom(t, i, u, Inc(u, j), same)
  ELSE LET r == EraseAt(t, i) IN IntersectFrom(r.t, r.i, u, j, FALSE)

RECURSIVE MinusFrom(_, _, _, _, _)
MinusFrom(t, i, u, j, same) ==
  IF ~Valid(t, i) \/ ~Valid(u, j) THEN Outcome(t, same)
  ELSE IF Get(t, i) = Get(u, j) THEN LET r == EraseAt(t, i) IN MinusFrom(r.t, r.i, u, Inc(u, j), FALSE)
  ELSE IF Get(t, i) <= Get(u, j) THEN MinusFrom(t, Inc(t, i), u, j, same)
  ELSE MinusFrom(t, i, u, Inc(u, j), same)

\* the addresses of nodes are of no consequence: they are numbered from the root
RECURSIVE Preorder(_, _)
Preorder(t, n) ==
  IF ~t.nodes[n].inner THEN <<n>> ELSE <<n>> \o Preorder(t, Child(t, n, 1)) \o Preorder(t, Child(t, n, 2))
Numbered(t) ==
  IF t.root = Nil THEN t
  ELSE LET order == Preorder(t, t.root)
           number == [n \in ToSet(order) |-> CHOOSE k \in DOMAIN order : order[k] = n]
           of(n) == IF n = Nil THEN Nil ELSE number[n]
           renamed(r) == [x \in DOMAIN r |-> CASE x = "up" -> number[r.up] [] x = "child" -> <<number[r.child[1]], number[r.child[2]]>> [] OTHER -> r[x]]
       IN [t EXCEPT !.root = 1, !.first = of(@), !.last = of(@), !.nodes = [k \in DOMAIN order |-> renamed(t.nodes[order[k]])]]

Combine(From(_, _, _, _, _), S) ==
  LET a == Begin(tree)
      b == Begin(Built(S))
  IN From(a.t, a.i, b.t, b.i, TRUE)

Init == tree = Empty /\ answer = <<"clear", {}, TRUE>>

Answer(op, arg, result) == answer' = <<op, arg, result>>
Become(op, S, r) == tree' = Numbered(r.t) /\ Answer(op, S, r.same)

Insert(d) == tree' = Numbered(Inserted(tree, d)) /\ Answer("insert", d, Found(tree, d))
Erase(d) == Found(tree, d) /\ tree' = Numbered(EraseAt(tree, FindIn(tree, d)).t) /\ Answer("erase", d, TRUE)
Find(d) == UNCHANGED tree /\ Answer("find", d, Found(tree, d))
Union(S) == Become("union", S, Combine(UnionFrom, S))
Intersect(S) == Become("intersect", S, Combine(IntersectFrom, S))
Minus(S) == Become("minus", S, Combine(MinusFrom, S))
Clear == tree' = Empty /\ Answer("clear", {}, TRUE)

Next ==
  \/ \E d \in Data : Insert(d) \/ Erase(d) \/ Find(d)
  \/ \E S \in Others : Union(S) \/ Intersect(S) \/ Minus(S)
  \/ Clear

Spec == Init /\ [][Next]_vars

(***************************************************************************)
(* Properties.                                                             *)
(***************************************************************************)
RECURSIVE InOrder(_, _)
InOrder(t, n) ==
  IF ~t.nodes[n].inner THEN t.nodes[n].leaf
  ELSE InOrder(t, Child(t, n, 1)) \o <<t.nodes[n].datum>> \o InOrder(t, Child(t, n, 2))

Contents(t) == IF t.root = Nil THEN t.small ELSE InOrder(t, t.root)

\* After every operation the tree is what the searches and the next operations rely
\* on: sorted, indexed, with the sizes and heights noted in each node, balanced, every node the
\* parent of its children, and no cached leaf that is stale.
WellFormed ==
  /\ LET s == Contents(tree)
     IN /\ Count(tree) = Len(s)
        /\ \A k \in DOMAIN s : Get(tree, IndexIn(tree, k - 1)) = s[k] /\ (k > 1 => s[k - 1] < s[k])
  /\ tree.root # Nil =>
       /\ tree.nodes[tree.root].up = tree.root
       /\ tree.first \in {Nil, Outermost(tree, tree.root, 1)}
       /\ tree.last \in {Nil, Outermost(tree, tree.root, 2)}
       /\ \A n \in DOMAIN tree.nodes :
            IF ~tree.nodes[n].inner THEN Len(tree.nodes[n].leaf) <= LeafSize
            ELSE LET l == Child(tree, n, 1)
                     r == Child(tree, n, 2)
                 IN /\ tree.nodes[l].up = n /\ tree.nodes[r].up = n /\ l # r
                    /\ tree.nodes[n].size = Size(tree, l) + Size(tree, r) + 1
                    /\ Height(tree, n) = 1 + Max({Height(tree, l), Height(tree, r)})
                    /\ Height(tree, l) - Height(tree, r) \in -1..1

\* What a container is for: every operation has the effect and the result it has on
\* sets, whatever the shape of the tree.
Abstract == INSTANCE SortedSets WITH set <- ToSet(Contents(tree))
=============================================================================

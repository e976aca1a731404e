------------------------------- MODULE AvlTree -------------------------------
(***************************************************************************)
(* The balanced search tree in a fixed array (class FixedMemAVLTree), in   *)
(* which the SRP store keeps its neighbour table.  A tree holds its nodes  *)
(* by array index, the list of free indexes, oldest first, the number of   *)
(* elements and the index of its root.  Where the code recurses over       *)
(* subtrees there is a function of the index it is called with, defined    *)
(* from the one for the calls it makes (below); a recursion goes no deeper *)
(* than there are nodes.  Insertion and removal return the tree and the    *)
(* new index of the subtree's root.  Rotations keep the index of the root  *)
(* of the subtree and move the contents of the nodes.                      *)
(***************************************************************************)
EXTENDS Integers, Sequences, FiniteSets

Null == -1             \* A_NULL

Node(key, data) == [key |-> key, data |-> data, left |-> Null, right |-> Null, height |-> 1]

Empty(size, key, data) ==
    [nodes    |-> [i \in 0 .. size - 1 |-> [Node(key, data) EXCEPT !.height = 0]],
     free     |-> [i \in 1 .. size |-> i - 1],
     elements |-> 0,
     root     |-> Null]

Higher(a, b) == IF a > b THEN a ELSE b

NodeHeight(n, idx) == IF idx = Null THEN 0 ELSE n[idx].height
Balance(n, idx) == IF idx = Null THEN 0 ELSE NodeHeight(n, n[idx].left) - NodeHeight(n, n[idx].right)

\* What an index may be, and the number of nodes.
Indexes(n) == DOMAIN n \cup {Null}
Size(n) == Cardinality(DOMAIN n)

\* What a method returns that calls itself: with calls[0] for the calls that are not
\* made any more, and Body(calls[d - 1]) from the calls one level deeper.
Recursion(n, last, Body(_)) ==
    LET calls[d \in 0 .. Size(n)] == IF d = 0 THEN last ELSE Body(calls[d - 1])
    IN  calls[Size(n)]

HeightFrom(n, below) ==
    [i \in Indexes(n) |-> IF i = Null THEN 0 ELSE 1 + Higher(below[n[i].left], below[n[i].right])]

CalcHeight(n) ==
    Recursion(n, [i \in Indexes(n) |-> 0], LAMBDA below : HeightFrom(n, below))

WithHeight(n, idx) == [n EXCEPT ![idx].height = CalcHeight(n)[idx]]

\* The node at top takes the contents of its child and the child those of top;
\* inner, which lies between them, changes its parent.
RotateRight(n, top) ==
    LET child == n[top].left
        moved == [n EXCEPT
            ![top]   = [@ EXCEPT !.key = n[child].key, !.data = n[child].data,
                                 !.left = n[child].left, !.right = child],
            ![child] = [@ EXCEPT !.key = n[top].key, !.data = n[top].data,
                                 !.left = n[child].right, !.right = n[top].right]]
    IN  WithHeight(WithHeight(moved, child), top)

\* Mutant of RotateLeft: the inner subtree is lost.
RotateLeftLosing(n, top) ==
    LET child == n[top].right
        moved == [n EXCEPT
            ![top]   = [@ EXCEPT !.key = n[child].key, !.data = n[child].data,
                                 !.left = child, !.right = n[child].right],
            ![child] = [@ EXCEPT !.key = n[top].key, !.data = n[top].data,
                                 !.left = n[top].left, !.right = Null]]
    IN  WithHeight(WithHeight(moved, top), child)

RotateLeft(n, top) ==
    LET child == n[top].right
        moved == [n EXCEPT
            ![top]   = [@ EXCEPT !.key = n[child].key, !.data = n[child].data,
                                 !.left = child, !.right = n[child].right],
            ![child] = [@ EXCEPT !.key = n[top].key, !.data = n[top].data,
                                 !.left = n[top].left, !.right = n[child].left]]
    IN  WithHeight(WithHeight(moved, top), child)

UpdateHeight(n, idx) ==
    [n EXCEPT ![idx].height = 1 + Higher(NodeHeight(n, n[idx].left), NodeHeight(n, n[idx].right))]

\* The rotations after an insertion of key below idx.
RebalanceInserted(nodes, idx, key) ==
    LET n == UpdateHeight(nodes, idx)
        l == n[idx].left
        r == n[idx].right
    IN  CASE Balance(n, idx) > 1 /\ key < n[l].key  -> RotateRight(n, idx)
          [] Balance(n, idx) < -1 /\ key > n[r].key -> RotateLeft(n, idx)
          [] Balance(n, idx) > 1 /\ key > n[l].key  -> RotateRight(RotateLeft(n, l), idx)
          [] Balance(n, idx) < -1 /\ key < n[r].key -> RotateLeft(RotateRight(n, r), idx)
          [] OTHER                                  -> n

\* The rotations after a removal below idx.
RebalanceRemoved(nodes, idx) ==
    LET n == UpdateHeight(nodes, idx)
        l == n[idx].left
        r == n[idx].right
    IN  CASE Balance(n, idx) > 1 /\ Balance(n, l) >= 0  -> RotateRight(n, idx)
          [] Balance(n, idx) > 1 /\ Balance(n, l) < 0   -> RotateRight(RotateLeft(n, l), idx)
          [] Balance(n, idx) < -1 /\ Balance(n, r) <= 0 -> RotateLeft(n, idx)
          [] Balance(n, idx) < -1 /\ Balance(n, r) > 0  -> RotateLeft(RotateRight(n, r), idx)
          [] OTHER                                      -> n

LeftmostFrom(n, below) ==
    [i \in Indexes(n) |-> IF n[i].left = Null THEN i ELSE below[n[i].left]]

MinKeyNode(n) ==
    Recursion(n, [i \in Indexes(n) |-> i], LAMBDA below : LeftmostFrom(n, below))

\* The tree t with the result of an operation on one subtree of idx put in its place.
WithChild(sub, idx, side) == [sub.tree EXCEPT !.nodes[idx][side] = sub.idx]

InsertFrom(t, key, data, below) ==
    [i \in Indexes(t.nodes) |->
        IF i = Null THEN
            [tree |-> [t EXCEPT !.nodes[Head(t.free)] = Node(key, data), !.free = Tail(@),
                                !.elements = @ + 1],
             idx  |-> Head(t.free)]
        ELSE IF key = t.nodes[i].key THEN
            [tree |-> [t EXCEPT !.nodes[i].data = data], idx |-> i]
        ELSE
            LET side == IF key < t.nodes[i].key THEN "left" ELSE "right"
                done == WithChild(below[t.nodes[i][side]], i, side)
            IN  [tree |-> [done EXCEPT !.nodes = RebalanceInserted(@, i, key)], idx |-> i]]

InsertBelow(t, key, data) ==
    Recursion(t.nodes, [i \in Indexes(t.nodes) |-> [tree |-> t, idx |-> i]],
              LAMBDA below : InsertFrom(t, key, data, below))

\* Removal of what node i holds.  With one child, its contents move up; with two, those
\* of the smallest node on the right, which is removed there.
RemoveTop(t, below, i, less) ==
    LET node     == t.nodes[i]
        only     == IF node.left # Null THEN node.left ELSE node.right
        smallest == t.nodes[MinKeyNode(t.nodes)[node.right]]
    IN  IF Null \in {node.left, node.right}
        THEN [t EXCEPT !.nodes[i] = t.nodes[only], !.free = Append(@, only), !.elements = @ - less]
        ELSE [WithChild(below[<<node.right, smallest.key, 0>>], i, "right")
                 EXCEPT !.nodes[i].key = smallest.key, !.nodes[i].data = smallest.data, !.elements = @ - less]

\* A call is made with a subtree, a key, and by how much the number of elements
\* counts down: 1, or 0 where the key is of a node that only moves.
RemoveAt(t, below, i, key, less) ==
    LET node    == t.nodes[i]
        removed == IF key < node.key THEN WithChild(below[<<node.left, key, less>>], i, "left")
                   ELSE IF key > node.key THEN WithChild(below[<<node.right, key, less>>], i, "right")
                   ELSE RemoveTop(t, below, i, less)
    IN  IF i = Null THEN [tree |-> t, idx |-> Null]
        ELSE IF key = node.key /\ node.left = Null /\ node.right = Null
             THEN [tree |-> [t EXCEPT !.free = Append(@, i), !.elements = @ - less], idx |-> Null]
             ELSE [tree |-> [removed EXCEPT !.nodes = RebalanceRemoved(@, i)], idx |-> i]

RemoveFrom(t, below) ==
    [call \in Indexes(t.nodes) \X Int \X {0, 1} |-> RemoveAt(t, below, call[1], call[2], call[3])]

RemoveBelow(t) ==
    Recursion(t.nodes, [call \in Indexes(t.nodes) \X Int \X {0, 1} |-> [tree |-> t, idx |-> call[1]]],
              LAMBDA below : RemoveFrom(t, below))

\* Full trees ignore the call, also when the key is in the tree.
Insert(t, key, data) ==
    LET r == InsertBelow(t, key, data)[t.root]
    IN  IF t.elements < Size(t.nodes) THEN [r.tree EXCEPT !.root = r.idx] ELSE t

Remove(t, key) == LET r == RemoveBelow(t)[<<t.root, key, 1>>] IN [r.tree EXCEPT !.root = r.idx]

LookupFrom(n, key, below) ==
    [i \in Indexes(n) |->
        IF i = Null \/ key = n[i].key THEN i
        ELSE below[IF key < n[i].key THEN n[i].left ELSE n[i].right]]

LookupBelow(n, key) ==
    Recursion(n, [i \in Indexes(n) |-> i], LAMBDA below : LookupFrom(n, key, below))

Lookup(t, key) == LookupBelow(t.nodes, key)[t.root]
IsMember(t, key) == Lookup(t, key) # Null
LookupData(t, key) == t.nodes[Lookup(t, key)].data

\* The data of a key in the tree are assigned to in place.
AssignData(t, key, data) == [t EXCEPT !.nodes[Lookup(t, key)].data = data]

MatchesFrom(n, matching, below) ==
    [i \in Indexes(n) |->
        IF i = Null THEN <<>>
        ELSE (IF i \in matching THEN <<i>> ELSE <<>>) \o below[n[i].left] \o below[n[i].right]]

\* The nodes of the tree that are among those that satisfy a predicate, root first.
FindMatchingData(t, matching) ==
    Recursion(t.nodes, [i \in Indexes(t.nodes) |-> <<>>],
              LAMBDA below : MatchesFrom(t.nodes, matching, below))[t.root]

ReachedFrom(n, below) ==
    [i \in Indexes(n) |->
        IF i = Null THEN {} ELSE {i} \cup below[n[i].left] \cup below[n[i].right]]

Reachable(n) ==
    Recursion(n, [i \in Indexes(n) |-> {}], LAMBDA below : ReachedFrom(n, below))

(***************************************************************************)
(* A tree is well formed when every index is in the tree or in the free    *)
(* list, once, keys are ordered, heights are right and subtrees balanced.  *)
(***************************************************************************)
WellFormed(t) ==
    LET n == t.nodes
        Used(i) == Reachable(n)[i]
    IN  /\ {t.free[i] : i \in 1 .. Len(t.free)} = DOMAIN n \ Used(t.root)
        /\ Len(t.free) + t.elements = Size(n)
        /\ Cardinality(Used(t.root)) = t.elements
        /\ \A i \in Used(t.root) :
              /\ \A j \in Used(n[i].left) : n[j].key < n[i].key
              /\ \A j \in Used(n[i].right) : n[j].key > n[i].key
              /\ n[i].height = CalcHeight(n)[i]
              /\ Balance(n, i) \in -1 .. 1

=============================================================================

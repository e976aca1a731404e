--------------------------- MODULE SrpNode_proofs ---------------------------
(***************************************************************************)
(* What the SRP daemon keeps to, whatever its neighbours, its timeouts and *)
(* the size of its table: the tree of its table is an ordered and balanced *)
(* one that loses and doubles nothing, table and buffers are a map of the  *)
(* neighbours, the records have their shapes, and what is sent of the own  *)
(* safety data is current.  First come the lemmas about AvlTree, up to the *)
(* operator Holds, in terms of which the daemon uses the tree.             *)
(***************************************************************************)
EXTENDS SrpNode, FiniteSetTheorems, WellFoundedInduction, SequenceTheorems, TLAPS

\* A non-empty set of numbers has a least element.
LEMMA LeastExists ==
    ASSUME NEW S \in SUBSET Nat, S # {}
    PROVE  \E n \in S : \A m \in S : n <= m
<1> DEFINE less == {ss \in Nat \X Nat : ss[1] < ss[2]}
<1>1. PICK n \in S : \A m \in S : <<m, n>> \notin less
  <2>1. IsWellFoundedOn(less, Nat)
    BY NatLessThanWellFounded DEF OpToRel
  <2> HIDE DEF less
  <2>. QED  BY <2>1, WFMin
<1>2. ASSUME NEW m \in S  PROVE n <= m
  <2>1. m \in Nat /\ n \in Nat /\ <<m, n>> \notin less
    BY <1>1
  <2>2. <<m, n>> \in less <=> m < n
    BY <2>1
  <2>. QED  BY <2>1, <2>2
<1>. QED  BY <1>2

\* What holds of 0, and of a number when it holds of the one before.
LEMMA OneByOne ==
    ASSUME NEW n \in Nat, NEW T, 0 \in T, \A i \in 0 .. n : i < n /\ i \in T => i + 1 \in T
    PROVE  \A i \in 0 .. n : i \in T
<1> DEFINE bad == {i \in 0 .. n : i \notin T}
<1>1. ASSUME bad # {}
      PROVE  FALSE
  <2>1. bad \in SUBSET Nat
    OBVIOUS
  <2>2. PICK k \in bad : \A i \in bad : k <= i
    BY <1>1, <2>1, LeastExists
  <2>3. k \in 0 .. n /\ k # 0 /\ k \notin T
    BY <2>2
  <2>4. k - 1 \in 0 .. n /\ k - 1 < n /\ (k - 1) + 1 = k /\ ~ (k <= k - 1)
    BY <2>3
  <2>5. k - 1 \in T
    BY <2>2, <2>4
  <2>. QED  BY <2>3, <2>4, <2>5
<1>. QED  BY <1>1

(***************************************************************************)
(* Trees in an array.  Tree(n, i, S) says that the subtree of i is a tree  *)
(* as it should be, and that S are the indexes of its nodes; the witness R *)
(* gives those of every subtree.  What it is good for is in the lemmas     *)
(* Split and Join, and nothing else depends on the witness.                *)
(***************************************************************************)
IsNode(x, I) ==
    /\ x = [key |-> x.key, data |-> x.data, left |-> x.left, right |-> x.right, height |-> x.height]
    /\ x.key \in Int /\ x.left \in I /\ x.right \in I /\ x.height \in Nat

IsArray(n, N) == DOMAIN n = 0 .. N - 1 /\ \A i \in 0 .. N - 1 : IsNode(n[i], -1 .. N - 1)

Below(n, S, key) == \A j \in S : n[j].key < key
Above(n, S, key) == \A j \in S : n[j].key > key
Ordered(n, i, L, R) == Below(n, L, n[i].key) /\ Above(n, R, n[i].key)

Fits(n, i) ==
    /\ n[i].height = 1 + Higher(NodeHeight(n, n[i].left), NodeHeight(n, n[i].right))
    /\ Balance(n, i) \in -1 .. 1

\* Two subtrees and a node above them.
Apart(i, L, R) == i \notin L /\ i \notin R /\ L \cap R = {}

Spans(n, S, R) ==
    /\ R[Null] = {}
    /\ \A i \in S :
          /\ n[i].left \in S \cup {Null} /\ n[i].right \in S \cup {Null}
          /\ R[i] = {i} \cup R[n[i].left] \cup R[n[i].right]
          /\ R[i] \subseteq S
          /\ Apart(i, R[n[i].left], R[n[i].right])
          /\ \A j \in R[i] : R[j] \subseteq R[i]
          /\ Ordered(n, i, R[n[i].left], R[n[i].right])
          /\ Fits(n, i)

Tree(n, i, S) ==
    /\ Null \notin S /\ S \subseteq DOMAIN n /\ i \in S \cup {Null}
    /\ \E R : Spans(n, S, R) /\ R[i] = S

\* A node of the array above two trees; whether it is balanced is left open.
Branch(n, i, L, R) ==
    /\ i \in DOMAIN n /\ i # Null /\ Apart(i, L, R)
    /\ Tree(n, n[i].left, L) /\ Tree(n, n[i].right, R)
    /\ Ordered(n, i, L, R)

\* No node, no indexes.
LEMMA NullTree ==
    ASSUME NEW n, NEW S
    PROVE  Tree(n, Null, S) <=> S = {}
<1>1. ASSUME S = {} PROVE Tree(n, Null, S)
  <2>1. PICK R : R = [x \in {Null} |-> {}]
    OBVIOUS
  <2>2. Spans(n, S, R) /\ R[Null] = S
    BY <1>1, <2>1 DEF Spans
  <2>. QED  BY <1>1, <2>2 DEF Tree
<1>2. ASSUME Tree(n, Null, S) PROVE S = {}
  BY <1>2 DEF Tree, Spans
<1>. QED  BY <1>1, <1>2

\* The subtrees that a witness knows are trees.
LEMMA Subtree ==
    ASSUME NEW n, NEW S, NEW R, Spans(n, S, R), Null \notin S, S \subseteq DOMAIN n, NEW i \in S \cup {Null}
    PROVE  Tree(n, i, R[i])
<1>1. CASE i = Null
  <2>1. R[i] = {}
    BY <1>1 DEF Spans
  <2>. QED  BY <1>1, <2>1, NullTree
<1>2. CASE i \in S
  <2> DEFINE T == R[i]
  <2>1. T \subseteq S /\ (\A j \in T : R[j] \subseteq T) /\ i \in T
    BY <1>2 DEF Spans
  <2>2. R[Null] = {}
    BY DEF Spans
  <2>3. ASSUME NEW j \in T
        PROVE  /\ n[j].left \in T \cup {Null} /\ n[j].right \in T \cup {Null}
               /\ R[j] = {j} \cup R[n[j].left] \cup R[n[j].right]
               /\ R[j] \subseteq T
               /\ Apart(j, R[n[j].left], R[n[j].right])
               /\ \A k \in R[j] : R[k] \subseteq R[j]
               /\ Ordered(n, j, R[n[j].left], R[n[j].right])
               /\ Fits(n, j)
    <3>1. j \in S /\ R[j] \subseteq T
      BY <2>1
    <3>2. /\ n[j].left \in S \cup {Null} /\ n[j].right \in S \cup {Null}
          /\ R[j] = {j} \cup R[n[j].left] \cup R[n[j].right]
          /\ Apart(j, R[n[j].left], R[n[j].right])
          /\ \A k \in R[j] : R[k] \subseteq R[j]
          /\ Ordered(n, j, R[n[j].left], R[n[j].right])
          /\ Fits(n, j)
      BY <3>1 DEF Spans
    <3>3. \A c \in S : c \in R[c]
      BY DEF Spans
    <3>4. n[j].left \in T \cup {Null} /\ n[j].right \in T \cup {Null}
      BY <3>1, <3>2, <3>3
    <3>. QED  BY <3>1, <3>2, <3>4
  <2> HIDE DEF T
  <2>4. Spans(n, T, R)
    BY <2>2, <2>3 DEF Spans
  <2>5. R[i] = T
    BY DEF T
  <2>. QED  BY <1>2, <2>1, <2>4, <2>5 DEF Tree
<1>. QED  BY <1>1, <1>2

\* A tree that is not empty is a balanced node above two trees.
LEMMA Split ==
    ASSUME NEW n, NEW i, NEW S, Tree(n, i, S), i # Null
    PROVE  /\ i \in S /\ Fits(n, i)
           /\ \E L, R \in SUBSET S : Branch(n, i, L, R) /\ S = {i} \cup L \cup R
<1>1. PICK R : Spans(n, S, R) /\ R[i] = S
  BY DEF Tree
<1>2. i \in S /\ Null \notin S /\ S \subseteq DOMAIN n
  BY DEF Tree
<1>3. /\ n[i].left \in S \cup {Null} /\ n[i].right \in S \cup {Null}
      /\ S = {i} \cup R[n[i].left] \cup R[n[i].right]
      /\ Apart(i, R[n[i].left], R[n[i].right])
      /\ Ordered(n, i, R[n[i].left], R[n[i].right])
      /\ Fits(n, i)
  BY <1>1, <1>2 DEF Spans
<1>4. Tree(n, n[i].left, R[n[i].left]) /\ Tree(n, n[i].right, R[n[i].right])
  BY <1>1, <1>2, <1>3, Subtree
<1>5. Branch(n, i, R[n[i].left], R[n[i].right])
  BY <1>2, <1>3, <1>4 DEF Branch
<1>. QED  BY <1>2, <1>3, <1>5

\* The subtree of every node of a tree is a tree.
LEMMA Inner ==
    ASSUME NEW n, NEW i, NEW S, Tree(n, i, S), NEW j \in S
    PROVE  \E T \in SUBSET S : Tree(n, j, T)
<1>1. PICK R : Spans(n, S, R) /\ R[i] = S
  BY DEF Tree
<1>2. Tree(n, j, R[j]) /\ R[j] \subseteq S
  <2>1. Null \notin S /\ S \subseteq DOMAIN n
    BY DEF Tree
  <2>2. Tree(n, j, R[j])
    BY <1>1, <2>1, Subtree
  <2>. QED  BY <1>1, <2>2 DEF Spans
<1>. QED  BY <1>2

\* A balanced node above two trees is a tree.
LEMMA Join ==
    ASSUME NEW n, NEW i, NEW L, NEW R, Branch(n, i, L, R), Fits(n, i)
    PROVE  Tree(n, i, {i} \cup L \cup R)
<1>1. PICK l, r, S : l = n[i].left /\ r = n[i].right /\ S = {i} \cup L \cup R
  OBVIOUS
<1>2. /\ i \in DOMAIN n /\ i # Null /\ Apart(i, L, R) /\ Tree(n, l, L) /\ Tree(n, r, R)
      /\ Ordered(n, i, L, R)
  BY <1>1 DEF Branch
<1>3. PICK A : Spans(n, L, A) /\ A[l] = L
  BY <1>2 DEF Tree
<1>4. PICK B : Spans(n, R, B) /\ B[r] = R
  BY <1>2 DEF Tree
<1>5. /\ Null \notin L /\ L \subseteq DOMAIN n /\ l \in L \cup {Null}
      /\ Null \notin R /\ R \subseteq DOMAIN n /\ r \in R \cup {Null}
  BY <1>2 DEF Tree
<1>6. i \notin L /\ i \notin R /\ L \cap R = {}
  BY <1>2 DEF Apart
<1>7. PICK C : C = [x \in S \cup {Null} |-> IF x = i THEN S ELSE IF x \in L THEN A[x]
                                           ELSE IF x \in R THEN B[x] ELSE {}]
  OBVIOUS
<1>8. C[Null] = {} /\ C[i] = S
  BY <1>1, <1>2, <1>5, <1>6, <1>7
<1>9. A[Null] = {} /\ B[Null] = {}
  BY <1>3, <1>4 DEF Spans
<1>10. /\ \A x \in L \cup {Null} : C[x] = A[x]
       /\ \A x \in R \cup {Null} : C[x] = B[x]
  BY <1>1, <1>2, <1>5, <1>6, <1>7, <1>8, <1>9
<1> DEFINE Good(j) == /\ n[j].left \in S \cup {Null} /\ n[j].right \in S \cup {Null}
                      /\ C[j] = {j} \cup C[n[j].left] \cup C[n[j].right]
                      /\ C[j] \subseteq S
                      /\ Apart(j, C[n[j].left], C[n[j].right])
                      /\ \A k \in C[j] : C[k] \subseteq C[j]
                      /\ Ordered(n, j, C[n[j].left], C[n[j].right])
                      /\ Fits(n, j)
<1>11. ASSUME NEW j \in L PROVE Good(j)
  <2>1. /\ n[j].left \in L \cup {Null} /\ n[j].right \in L \cup {Null}
        /\ A[j] = {j} \cup A[n[j].left] \cup A[n[j].right]
        /\ A[j] \subseteq L
        /\ Apart(j, A[n[j].left], A[n[j].right])
        /\ \A k \in A[j] : A[k] \subseteq A[j]
        /\ Ordered(n, j, A[n[j].left], A[n[j].right])
        /\ Fits(n, j)
    BY <1>3 DEF Spans
  <2>2. C[j] = A[j] /\ C[n[j].left] = A[n[j].left] /\ C[n[j].right] = A[n[j].right]
    BY <1>10, <2>1
  <2>3. \A k \in A[j] : C[k] = A[k]
    BY <1>10, <2>1
  <2>. QED  BY <1>1, <2>1, <2>2, <2>3
<1>12. ASSUME NEW j \in R PROVE Good(j)
  <2>1. /\ n[j].left \in R \cup {Null} /\ n[j].right \in R \cup {Null}
        /\ B[j] = {j} \cup B[n[j].left] \cup B[n[j].right]
        /\ B[j] \subseteq R
        /\ Apart(j, B[n[j].left], B[n[j].right])
        /\ \A k \in B[j] : B[k] \subseteq B[j]
        /\ Ordered(n, j, B[n[j].left], B[n[j].right])
        /\ Fits(n, j)
    BY <1>4 DEF Spans
  <2>2. C[j] = B[j] /\ C[n[j].left] = B[n[j].left] /\ C[n[j].right] = B[n[j].right]
    BY <1>10, <2>1
  <2>3. \A k \in B[j] : C[k] = B[k]
    BY <1>10, <2>1
  <2>. QED  BY <1>1, <2>1, <2>2, <2>3
<1>13. C[l] = L /\ C[r] = R
  BY <1>3, <1>4, <1>5, <1>10
<1>14. Good(i)
  <2>1. \A k \in S : C[k] \subseteq S
    BY <1>1, <1>8, <1>11, <1>12
  <2>. QED  BY <1>1, <1>2, <1>5, <1>8, <1>13, <2>1
<1>15. \A j \in S : Good(j)
  BY <1>1, <1>11, <1>12, <1>14
<1>16. Spans(n, S, C)
  BY <1>8, <1>15 DEF Spans
<1>17. Null \notin S /\ S \subseteq DOMAIN n
  BY <1>1, <1>2, <1>5
<1>. QED  BY <1>1, <1>8, <1>16, <1>17 DEF Tree

\* Arrays that are alike but for the data of some nodes.
Alike(n, m, S) ==
    \A i \in S : /\ m[i].key = n[i].key /\ m[i].left = n[i].left
                 /\ m[i].right = n[i].right /\ m[i].height = n[i].height

\* A tree is one in every array that is alike at its nodes.
LEMMA Frame ==
    ASSUME NEW n, NEW i, NEW S, Tree(n, i, S), NEW m, S \subseteq DOMAIN m, Alike(n, m, S)
    PROVE  Tree(m, i, S) /\ NodeHeight(m, i) = NodeHeight(n, i)
<1>1. PICK R : Spans(n, S, R) /\ R[i] = S
  BY DEF Tree
<1>2. Null \notin S /\ i \in S \cup {Null}
  BY DEF Tree
<1>3. \A x \in S \cup {Null} : NodeHeight(m, x) = NodeHeight(n, x)
  BY DEF NodeHeight, Alike
<1>4. ASSUME NEW j \in S
      PROVE  /\ m[j].left \in S \cup {Null} /\ m[j].right \in S \cup {Null}
             /\ R[j] = {j} \cup R[m[j].left] \cup R[m[j].right]
             /\ R[j] \subseteq S
             /\ Apart(j, R[m[j].left], R[m[j].right])
             /\ \A k \in R[j] : R[k] \subseteq R[j]
             /\ Ordered(m, j, R[m[j].left], R[m[j].right])
             /\ Fits(m, j)
  <2>1. /\ n[j].left \in S \cup {Null} /\ n[j].right \in S \cup {Null}
        /\ R[j] = {j} \cup R[n[j].left] \cup R[n[j].right]
        /\ R[j] \subseteq S
        /\ Apart(j, R[n[j].left], R[n[j].right])
        /\ \A k \in R[j] : R[k] \subseteq R[j]
        /\ Ordered(n, j, R[n[j].left], R[n[j].right])
        /\ Fits(n, j)
    BY <1>1 DEF Spans
  <2>2. m[j].left = n[j].left /\ m[j].right = n[j].right /\ m[j].height = n[j].height
    BY DEF Alike
  <2>3. Ordered(m, j, R[n[j].left], R[n[j].right])
    <3>1. R[n[j].left] \subseteq S /\ R[n[j].right] \subseteq S
      BY <2>1
    <3>2. \A k \in S : m[k].key = n[k].key
      BY DEF Alike
    <3>. QED  BY <2>1, <3>1, <3>2 DEF Ordered, Below, Above
  <2>4. Fits(m, j)
    BY <1>2, <1>3, <2>1, <2>2 DEF Fits, Balance
  <2>. QED  BY <2>1, <2>2, <2>3, <2>4
<1>5. Spans(m, S, R)
  BY <1>1, <1>4 DEF Spans
<1>. QED  BY <1>1, <1>2, <1>3, <1>5 DEF Tree

(***************************************************************************)
(* The recursions.  A function of the number of calls gives what those of  *)
(* that depth return; it is the one that Recursion defines.                *)
(***************************************************************************)
\* The calls of calculate_height.
LEMMA HeightCalls ==
    ASSUME NEW n, Size(n) \in Nat
    PROVE  \E f : /\ CalcHeight(n) = f[Size(n)]
                 /\ f[0] = [i \in Indexes(n) |-> 0]
                 /\ \A d \in 1 .. Size(n) : f[d] = HeightFrom(n, f[d - 1])
<1> DEFINE Prefix(f, m) == f = [d \in 0 .. m |-> IF d = 0 THEN [i \in Indexes(n) |-> 0]
                                                ELSE HeightFrom(n, f[d - 1])]
           U == {m \in 0 .. Size(n) : \E f : Prefix(f, m)}
<1>1. PICK N : N = Size(n) /\ N \in Nat
  OBVIOUS
<1>2. 0 \in U
  <2>1. PICK f : f = [d \in 0 .. 0 |-> [i \in Indexes(n) |-> 0]]
    OBVIOUS
  <2>2. \A d \in 0 .. 0 : d = 0
    OBVIOUS
  <2>3. Prefix(f, 0)
    BY <2>1, <2>2, Zenon
  <2> HIDE DEF Prefix
  <2>. QED  BY <1>1, <2>3
<1>3. ASSUME NEW m \in 0 .. N, m < N, m \in U PROVE m + 1 \in U
  <2>1. PICK f : Prefix(f, m)
    BY <1>3
  <2>2. PICK g : g = [d \in 0 .. m + 1 |-> IF d = m + 1 THEN HeightFrom(n, f[m]) ELSE f[d]]
    OBVIOUS
  <2>3. ASSUME NEW d \in 0 .. m + 1
        PROVE  g[d] = IF d = 0 THEN [i \in Indexes(n) |-> 0] ELSE HeightFrom(n, g[d - 1])
    <3>1. CASE d = m + 1
      <4>1. d # 0 /\ d - 1 = m /\ m \in 0 .. m + 1 /\ m # m + 1
        BY <3>1
      <4>. QED  BY <2>2, <3>1, <4>1
    <3>2. CASE d # m + 1
      <4>1. d \in 0 .. m /\ (d # 0 => d - 1 \in 0 .. m + 1 /\ d - 1 # m + 1)
        BY <3>2
      <4>2. g[d] = f[d] /\ (d # 0 => g[d - 1] = f[d - 1])
        BY <2>2, <3>2, <4>1
      <4>. QED  BY <2>1, <4>1, <4>2
    <3>. QED  BY <3>1, <3>2
  <2>4. Prefix(g, m + 1)
    BY <2>2, <2>3, Zenon
  <2>5. m + 1 \in 0 .. N
    BY <1>1, <1>3
  <2> HIDE DEF Prefix
  <2>. QED  BY <1>1, <2>4, <2>5
<1>4. N \in U
  <2> HIDE DEF U
  <2>1. \A m \in 0 .. N : m \in U
    BY <1>1, <1>2, <1>3, OneByOne
  <2>. QED  BY <1>1, <2>1
<1>5. \E f : Prefix(f, N)
  <2> HIDE DEF Prefix
  <2>. QED  BY <1>4 DEF U
<1>6. CalcHeight(n) = (CHOOSE f : Prefix(f, Size(n)))[Size(n)]
  BY Zenon DEF CalcHeight, Recursion
<1>7. PICK f : Prefix(f, N) /\ CalcHeight(n) = f[N]
  <2> HIDE DEF Prefix
  <2>. QED  BY <1>1, <1>5, <1>6
<1>8. f[0] = [i \in Indexes(n) |-> 0]
  BY <1>1, <1>7
<1>9. ASSUME NEW d \in 1 .. N PROVE f[d] = HeightFrom(n, f[d - 1])
  <2>1. d \in 0 .. N /\ d # 0
    BY <1>1
  <2>. QED  BY <1>1, <1>7, <2>1
<1>. QED  BY <1>1, <1>7, <1>8, <1>9, Zenon

\* Those of find_min_node_by_key.
LEMMA LeftmostCalls ==
    ASSUME NEW n, Size(n) \in Nat
    PROVE  \E f : /\ MinKeyNode(n) = f[Size(n)]
                 /\ f[0] = [i \in Indexes(n) |-> i]
                 /\ \A d \in 1 .. Size(n) : f[d] = LeftmostFrom(n, f[d - 1])
<1> DEFINE Prefix(f, m) == f = [d \in 0 .. m |-> IF d = 0 THEN [i \in Indexes(n) |-> i]
                                                ELSE LeftmostFrom(n, f[d - 1])]
           U == {m \in 0 .. Size(n) : \E f : Prefix(f, m)}
<1>1. PICK N : N = Size(n) /\ N \in Nat
  OBVIOUS
<1>2. 0 \in U
  <2>1. PICK f : f = [d \in 0 .. 0 |-> [i \in Indexes(n) |-> i]]
    OBVIOUS
  <2>2. \A d \in 0 .. 0 : d = 0
    OBVIOUS
  <2>3. Prefix(f, 0)
    BY <2>1, <2>2, Zenon
  <2> HIDE DEF Prefix
  <2>. QED  BY <1>1, <2>3
<1>3. ASSUME NEW m \in 0 .. N, m < N, m \in U PROVE m + 1 \in U
  <2>1. PICK f : Prefix(f, m)
    BY <1>3
  <2>2. PICK g : g = [d \in 0 .. m + 1 |-> IF d = m + 1 THEN LeftmostFrom(n, f[m]) ELSE f[d]]
    OBVIOUS
  <2>3. ASSUME NEW d \in 0 .. m + 1
        PROVE  g[d] = IF d = 0 THEN [i \in Indexes(n) |-> i] ELSE LeftmostFrom(n, g[d - 1])
    <3>1. CASE d = m + 1
      <4>1. d # 0 /\ d - 1 = m /\ m \in 0 .. m + 1 /\ m # m + 1
        BY <3>1
      <4>. QED  BY <2>2, <3>1, <4>1
    <3>2. CASE d # m + 1
      <4>1. d \in 0 .. m /\ (d # 0 => d - 1 \in 0 .. m + 1 /\ d - 1 # m + 1)
        BY <3>2
      <4>2. g[d] = f[d] /\ (d # 0 => g[d - 1] = f[d - 1])
        BY <2>2, <3>2, <4>1
      <4>. QED  BY <2>1, <4>1, <4>2
    <3>. QED  BY <3>1, <3>2
  <2>4. Prefix(g, m + 1)
    BY <2>2, <2>3, Zenon
  <2>5. m + 1 \in 0 .. N
    BY <1>1, <1>3
  <2> HIDE DEF Prefix
  <2>. QED  BY <1>1, <2>4, <2>5
<1>4. N \in U
  <2> HIDE DEF U
  <2>1. \A m \in 0 .. N : m \in U
    BY <1>1, <1>2, <1>3, OneByOne
  <2>. QED  BY <1>1, <2>1
<1>5. \E f : Prefix(f, N)
  <2> HIDE DEF Prefix
  <2>. QED  BY <1>4 DEF U
<1>6. MinKeyNode(n) = (CHOOSE f : Prefix(f, Size(n)))[Size(n)]
  BY Zenon DEF MinKeyNode, Recursion
<1>7. PICK f : Prefix(f, N) /\ MinKeyNode(n) = f[N]
  <2> HIDE DEF Prefix
  <2>. QED  BY <1>1, <1>5, <1>6
<1>8. f[0] = [i \in Indexes(n) |-> i]
  BY <1>1, <1>7
<1>9. ASSUME NEW d \in 1 .. N PROVE f[d] = LeftmostFrom(n, f[d - 1])
  <2>1. d \in 0 .. N /\ d # 0
    BY <1>1
  <2>. QED  BY <1>1, <1>7, <2>1
<1>. QED  BY <1>1, <1>7, <1>8, <1>9, Zenon

\* Those of insert.
LEMMA InsertCalls ==
    ASSUME NEW t, NEW key, NEW data, Size(t.nodes) \in Nat
    PROVE  \E f : /\ InsertBelow(t, key, data) = f[Size(t.nodes)]
                 /\ f[0] = [i \in Indexes(t.nodes) |-> [tree |-> t, idx |-> i]]
                 /\ \A d \in 1 .. Size(t.nodes) : f[d] = InsertFrom(t, key, data, f[d - 1])
<1> DEFINE Prefix(f, m) == f = [d \in 0 .. m |-> IF d = 0 THEN [i \in Indexes(t.nodes) |-> [tree |-> t, idx |-> i]]
                                                ELSE InsertFrom(t, key, data, f[d - 1])]
           U == {m \in 0 .. Size(t.nodes) : \E f : Prefix(f, m)}
<1>1. PICK N : N = Size(t.nodes) /\ N \in Nat
  OBVIOUS
<1>2. 0 \in U
  <2>1. PICK f : f = [d \in 0 .. 0 |-> [i \in Indexes(t.nodes) |-> [tree |-> t, idx |-> i]]]
    OBVIOUS
  <2>2. \A d \in 0 .. 0 : d = 0
    OBVIOUS
  <2>3. Prefix(f, 0)
    BY <2>1, <2>2, Zenon
  <2> HIDE DEF Prefix
  <2>. QED  BY <1>1, <2>3
<1>3. ASSUME NEW m \in 0 .. N, m < N, m \in U PROVE m + 1 \in U
  <2>1. PICK f : Prefix(f, m)
    BY <1>3
  <2>2. PICK g : g = [d \in 0 .. m + 1 |-> IF d = m + 1 THEN InsertFrom(t, key, data, f[m]) ELSE f[d]]
    OBVIOUS
  <2>3. ASSUME NEW d \in 0 .. m + 1
        PROVE  g[d] = IF d = 0 THEN [i \in Indexes(t.nodes) |-> [tree |-> t, idx |-> i]] ELSE InsertFrom(t, key, data, g[d - 1])
    <3>1. CASE d = m + 1
      <4>1. d # 0 /\ d - 1 = m /\ m \in 0 .. m + 1 /\ m # m + 1
        BY <3>1
      <4>. QED  BY <2>2, <3>1, <4>1
    <3>2. CASE d # m + 1
      <4>1. d \in 0 .. m /\ (d # 0 => d - 1 \in 0 .. m + 1 /\ d - 1 # m + 1)
        BY <3>2
      <4>2. g[d] = f[d] /\ (d # 0 => g[d - 1] = f[d - 1])
        BY <2>2, <3>2, <4>1
      <4>. QED  BY <2>1, <4>1, <4>2
    <3>. QED  BY <3>1, <3>2
  <2>4. Prefix(g, m + 1)
    BY <2>2, <2>3, Zenon
  <2>5. m + 1 \in 0 .. N
    BY <1>1, <1>3
  <2> HIDE DEF Prefix
  <2>. QED  BY <1>1, <2>4, <2>5
<1>4. N \in U
  <2> HIDE DEF U
  <2>1. \A m \in 0 .. N : m \in U
    BY <1>1, <1>2, <1>3, OneByOne
  <2>. QED  BY <1>1, <2>1
<1>5. \E f : Prefix(f, N)
  <2> HIDE DEF Prefix
  <2>. QED  BY <1>4 DEF U
<1>6. InsertBelow(t, key, data) = (CHOOSE f : Prefix(f, Size(t.nodes)))[Size(t.nodes)]
  BY Zenon DEF InsertBelow, Recursion
<1>7. PICK f : Prefix(f, N) /\ InsertBelow(t, key, data) = f[N]
  <2> HIDE DEF Prefix
  <2>. QED  BY <1>1, <1>5, <1>6
<1>8. f[0] = [i \in Indexes(t.nodes) |-> [tree |-> t, idx |-> i]]
  BY <1>1, <1>7
<1>9. ASSUME NEW d \in 1 .. N PROVE f[d] = InsertFrom(t, key, data, f[d - 1])
  <2>1. d \in 0 .. N /\ d # 0
    BY <1>1
  <2>. QED  BY <1>1, <1>7, <2>1
<1>. QED  BY <1>1, <1>7, <1>8, <1>9, Zenon

\* The calls of remove that are not made.
RemoveLast(t) == [call \in Indexes(t.nodes) \X Int \X {0, 1} |-> [tree |-> t, idx |-> call[1]]]

\* Those of remove.
LEMMA RemoveCalls ==
    ASSUME NEW t, Size(t.nodes) \in Nat
    PROVE  \E f : /\ RemoveBelow(t) = f[Size(t.nodes)]
                 /\ f[0] = RemoveLast(t)
                 /\ \A d \in 1 .. Size(t.nodes) : f[d] = RemoveFrom(t, f[d - 1])
<1> DEFINE Prefix(f, m) == f = [d \in 0 .. m |-> IF d = 0 THEN RemoveLast(t)
                                                ELSE RemoveFrom(t, f[d - 1])]
           U == {m \in 0 .. Size(t.nodes) : \E f : Prefix(f, m)}
<1>1. PICK N : N = Size(t.nodes) /\ N \in Nat
  OBVIOUS
<1>2. 0 \in U
  <2>1. PICK f : f = [d \in 0 .. 0 |-> RemoveLast(t)]
    OBVIOUS
  <2>2. \A d \in 0 .. 0 : d = 0
    OBVIOUS
  <2>3. Prefix(f, 0)
    BY <2>1, <2>2, Zenon
  <2> HIDE DEF Prefix
  <2>. QED  BY <1>1, <2>3
<1>3. ASSUME NEW m \in 0 .. N, m < N, m \in U PROVE m + 1 \in U
  <2>1. PICK f : Prefix(f, m)
    BY <1>3
  <2>2. PICK g : g = [d \in 0 .. m + 1 |-> IF d = m + 1 THEN RemoveFrom(t, f[m]) ELSE f[d]]
    OBVIOUS
  <2>3. ASSUME NEW d \in 0 .. m + 1
        PROVE  g[d] = IF d = 0 THEN RemoveLast(t) ELSE RemoveFrom(t, g[d - 1])
    <3>1. CASE d = m + 1
      <4>1. d # 0 /\ d - 1 = m /\ m \in 0 .. m + 1 /\ m # m + 1
        BY <3>1
      <4>. QED  BY <2>2, <3>1, <4>1
    <3>2. CASE d # m + 1
      <4>1. d \in 0 .. m /\ (d # 0 => d - 1 \in 0 .. m + 1 /\ d - 1 # m + 1)
        BY <3>2
      <4>2. g[d] = f[d] /\ (d # 0 => g[d - 1] = f[d - 1])
        BY <2>2, <3>2, <4>1
      <4>. QED  BY <2>1, <4>1, <4>2
    <3>. QED  BY <3>1, <3>2
  <2>4. Prefix(g, m + 1)
    BY <2>2, <2>3, Zenon
  <2>5. m + 1 \in 0 .. N
    BY <1>1, <1>3
  <2> HIDE DEF Prefix
  <2>. QED  BY <1>1, <2>4, <2>5
<1>4. N \in U
  <2> HIDE DEF U
  <2>1. \A m \in 0 .. N : m \in U
    BY <1>1, <1>2, <1>3, OneByOne
  <2>. QED  BY <1>1, <2>1
<1>5. \E f : Prefix(f, N)
  <2> HIDE DEF Prefix
  <2>. QED  BY <1>4 DEF U
<1>6. RemoveBelow(t) = (CHOOSE f : Prefix(f, Size(t.nodes)))[Size(t.nodes)]
  BY SMT DEF RemoveBelow, RemoveLast, Recursion
<1>7. PICK f : Prefix(f, N) /\ RemoveBelow(t) = f[N]
  <2> HIDE DEF Prefix
  <2>. QED  BY <1>1, <1>5, <1>6
<1>8. f[0] = RemoveLast(t)
  BY <1>1, <1>7
<1>9. ASSUME NEW d \in 1 .. N PROVE f[d] = RemoveFrom(t, f[d - 1])
  <2>1. d \in 0 .. N /\ d # 0
    BY <1>1
  <2>. QED  BY <1>1, <1>7, <2>1
<1>. QED  BY <1>1, <1>7, <1>8, <1>9, Zenon

\* Those of lookup.
LEMMA LookupCalls ==
    ASSUME NEW n, NEW key, Size(n) \in Nat
    PROVE  \E f : /\ LookupBelow(n, key) = f[Size(n)]
                 /\ f[0] = [i \in Indexes(n) |-> i]
                 /\ \A d \in 1 .. Size(n) : f[d] = LookupFrom(n, key, f[d - 1])
<1> DEFINE Prefix(f, m) == f = [d \in 0 .. m |-> IF d = 0 THEN [i \in Indexes(n) |-> i]
                                                ELSE LookupFrom(n, key, f[d - 1])]
           U == {m \in 0 .. Size(n) : \E f : Prefix(f, m)}
<1>1. PICK N : N = Size(n) /\ N \in Nat
  OBVIOUS
<1>2. 0 \in U
  <2>1. PICK f : f = [d \in 0 .. 0 |-> [i \in Indexes(n) |-> i]]
    OBVIOUS
  <2>2. \A d \in 0 .. 0 : d = 0
    OBVIOUS
  <2>3. Prefix(f, 0)
    BY <2>1, <2>2, Zenon
  <2> HIDE DEF Prefix
  <2>. QED  BY <1>1, <2>3
<1>3. ASSUME NEW m \in 0 .. N, m < N, m \in U PROVE m + 1 \in U
  <2>1. PICK f : Prefix(f, m)
    BY <1>3
  <2>2. PICK g : g = [d \in 0 .. m + 1 |-> IF d = m + 1 THEN LookupFrom(n, key, f[m]) ELSE f[d]]
    OBVIOUS
  <2>3. ASSUME NEW d \in 0 .. m + 1
        PROVE  g[d] = IF d = 0 THEN [i \in Indexes(n) |-> i] ELSE LookupFrom(n, key, g[d - 1])
    <3>1. CASE d = m + 1
      <4>1. d # 0 /\ d - 1 = m /\ m \in 0 .. m + 1 /\ m # m + 1
        BY <3>1
      <4>. QED  BY <2>2, <3>1, <4>1
    <3>2. CASE d # m + 1
      <4>1. d \in 0 .. m /\ (d # 0 => d - 1 \in 0 .. m + 1 /\ d - 1 # m + 1)
        BY <3>2
      <4>2. g[d] = f[d] /\ (d # 0 => g[d - 1] = f[d - 1])
        BY <2>2, <3>2, <4>1
      <4>. QED  BY <2>1, <4>1, <4>2
    <3>. QED  BY <3>1, <3>2
  <2>4. Prefix(g, m + 1)
    BY <2>2, <2>3, Zenon
  <2>5. m + 1 \in 0 .. N
    BY <1>1, <1>3
  <2> HIDE DEF Prefix
  <2>. QED  BY <1>1, <2>4, <2>5
<1>4. N \in U
  <2> HIDE DEF U
  <2>1. \A m \in 0 .. N : m \in U
    BY <1>1, <1>2, <1>3, OneByOne
  <2>. QED  BY <1>1, <2>1
<1>5. \E f : Prefix(f, N)
  <2> HIDE DEF Prefix
  <2>. QED  BY <1>4 DEF U
<1>6. LookupBelow(n, key) = (CHOOSE f : Prefix(f, Size(n)))[Size(n)]
  BY Zenon DEF LookupBelow, Recursion
<1>7. PICK f : Prefix(f, N) /\ LookupBelow(n, key) = f[N]
  <2> HIDE DEF Prefix
  <2>. QED  BY <1>1, <1>5, <1>6
<1>8. f[0] = [i \in Indexes(n) |-> i]
  BY <1>1, <1>7
<1>9. ASSUME NEW d \in 1 .. N PROVE f[d] = LookupFrom(n, key, f[d - 1])
  <2>1. d \in 0 .. N /\ d # 0
    BY <1>1
  <2>. QED  BY <1>1, <1>7, <2>1
<1>. QED  BY <1>1, <1>7, <1>8, <1>9, Zenon

\* A function that holds what the calls of find_matching_data return, by their depth.
MatchesBy(t, matching, f) ==
    /\ FindMatchingData(t, matching) = f[Size(t.nodes)][t.root]
    /\ f[0] = [i \in Indexes(t.nodes) |-> <<>>]
    /\ \A d \in 1 .. Size(t.nodes) : f[d] = MatchesFrom(t.nodes, matching, f[d - 1])

\* There is such a function.
LEMMA MatchesCalls ==
    ASSUME NEW t, NEW matching, Size(t.nodes) \in Nat
    PROVE  \E f : MatchesBy(t, matching, f)
<1> DEFINE Prefix(f, m) == f = [d \in 0 .. m |-> IF d = 0 THEN [i \in Indexes(t.nodes) |-> <<>>]
                                                ELSE MatchesFrom(t.nodes, matching, f[d - 1])]
           U == {m \in 0 .. Size(t.nodes) : \E f : Prefix(f, m)}
<1>1. PICK N : N = Size(t.nodes) /\ N \in Nat
  OBVIOUS
<1>2. 0 \in U
  <2>1. PICK f : f = [d \in 0 .. 0 |-> [i \in Indexes(t.nodes) |-> <<>>]]
    OBVIOUS
  <2>2. \A d \in 0 .. 0 : d = 0
    OBVIOUS
  <2>3. Prefix(f, 0)
    BY <2>1, <2>2, Zenon
  <2> HIDE DEF Prefix
  <2>. QED  BY <1>1, <2>3
<1>3. ASSUME NEW m \in 0 .. N, m < N, m \in U PROVE m + 1 \in U
  <2>1. PICK f : Prefix(f, m)
    BY <1>3
  <2>2. PICK g : g = [d \in 0 .. m + 1 |-> IF d = m + 1 THEN MatchesFrom(t.nodes, matching, f[m]) ELSE f[d]]
    OBVIOUS
  <2>3. ASSUME NEW d \in 0 .. m + 1
        PROVE  g[d] = IF d = 0 THEN [i \in Indexes(t.nodes) |-> <<>>] ELSE MatchesFrom(t.nodes, matching, g[d - 1])
    <3>1. CASE d = m + 1
      <4>1. d # 0 /\ d - 1 = m /\ m \in 0 .. m + 1 /\ m # m + 1
        BY <3>1
      <4>. QED  BY <2>2, <3>1, <4>1
    <3>2. CASE d # m + 1
      <4>1. d \in 0 .. m /\ (d # 0 => d - 1 \in 0 .. m + 1 /\ d - 1 # m + 1)
        BY <3>2
      <4>2. g[d] = f[d] /\ (d # 0 => g[d - 1] = f[d - 1])
        BY <2>2, <3>2, <4>1
      <4>. QED  BY <2>1, <4>1, <4>2
    <3>. QED  BY <3>1, <3>2
  <2>4. Prefix(g, m + 1)
    BY <2>2, <2>3, Zenon
  <2>5. m + 1 \in 0 .. N
    BY <1>1, <1>3
  <2> HIDE DEF Prefix
  <2>. QED  BY <1>1, <2>4, <2>5
<1>4. N \in U
  <2> HIDE DEF U
  <2>1. \A m \in 0 .. N : m \in U
    BY <1>1, <1>2, <1>3, OneByOne
  <2>. QED  BY <1>1, <2>1
<1>5. \E f : Prefix(f, N)
  <2> HIDE DEF Prefix
  <2>. QED  BY <1>4 DEF U
<1>6. FindMatchingData(t, matching) = (CHOOSE f : Prefix(f, Size(t.nodes)))[Size(t.nodes)][t.root]
  BY Zenon DEF FindMatchingData, Recursion
<1>7. PICK f : Prefix(f, N) /\ FindMatchingData(t, matching) = f[N][t.root]
  <2> HIDE DEF Prefix
  <2>. QED  BY <1>1, <1>5, <1>6
<1>8. f[0] = [i \in Indexes(t.nodes) |-> <<>>]
  BY <1>1, <1>7
<1>9. ASSUME NEW d \in 1 .. N PROVE f[d] = MatchesFrom(t.nodes, matching, f[d - 1])
  <2>1. d \in 0 .. N /\ d # 0
    BY <1>1
  <2>. QED  BY <1>1, <1>7, <2>1
<1>. QED  BY <1>1, <1>7, <1>8, <1>9, Zenon DEF MatchesBy

\* Those of the definition of the nodes in a subtree.
LEMMA ReachedCalls ==
    ASSUME NEW n, Size(n) \in Nat
    PROVE  \E f : /\ Reachable(n) = f[Size(n)]
                 /\ f[0] = [i \in Indexes(n) |-> {}]
                 /\ \A d \in 1 .. Size(n) : f[d] = ReachedFrom(n, f[d - 1])
<1> DEFINE Prefix(f, m) == f = [d \in 0 .. m |-> IF d = 0 THEN [i \in Indexes(n) |-> {}]
                                                ELSE ReachedFrom(n, f[d - 1])]
           U == {m \in 0 .. Size(n) : \E f : Prefix(f, m)}
<1>1. PICK N : N = Size(n) /\ N \in Nat
  OBVIOUS
<1>2. 0 \in U
  <2>1. PICK f : f = [d \in 0 .. 0 |-> [i \in Indexes(n) |-> {}]]
    OBVIOUS
  <2>2. \A d \in 0 .. 0 : d = 0
    OBVIOUS
  <2>3. Prefix(f, 0)
    BY <2>1, <2>2, Zenon
  <2> HIDE DEF Prefix
  <2>. QED  BY <1>1, <2>3
<1>3. ASSUME NEW m \in 0 .. N, m < N, m \in U PROVE m + 1 \in U
  <2>1. PICK f : Prefix(f, m)
    BY <1>3
  <2>2. PICK g : g = [d \in 0 .. m + 1 |-> IF d = m + 1 THEN ReachedFrom(n, f[m]) ELSE f[d]]
    OBVIOUS
  <2>3. ASSUME NEW d \in 0 .. m + 1
        PROVE  g[d] = IF d = 0 THEN [i \in Indexes(n) |-> {}] ELSE ReachedFrom(n, g[d - 1])
    <3>1. CASE d = m + 1
      <4>1. d # 0 /\ d - 1 = m /\ m \in 0 .. m + 1 /\ m # m + 1
        BY <3>1
      <4>. QED  BY <2>2, <3>1, <4>1
    <3>2. CASE d # m + 1
      <4>1. d \in 0 .. m /\ (d # 0 => d - 1 \in 0 .. m + 1 /\ d - 1 # m + 1)
        BY <3>2
      <4>2. g[d] = f[d] /\ (d # 0 => g[d - 1] = f[d - 1])
        BY <2>2, <3>2, <4>1
      <4>. QED  BY <2>1, <4>1, <4>2
    <3>. QED  BY <3>1, <3>2
  <2>4. Prefix(g, m + 1)
    BY <2>2, <2>3, Zenon
  <2>5. m + 1 \in 0 .. N
    BY <1>1, <1>3
  <2> HIDE DEF Prefix
  <2>. QED  BY <1>1, <2>4, <2>5
<1>4. N \in U
  <2> HIDE DEF U
  <2>1. \A m \in 0 .. N : m \in U
    BY <1>1, <1>2, <1>3, OneByOne
  <2>. QED  BY <1>1, <2>1
<1>5. \E f : Prefix(f, N)
  <2> HIDE DEF Prefix
  <2>. QED  BY <1>4 DEF U
<1>6. Reachable(n) = (CHOOSE f : Prefix(f, Size(n)))[Size(n)]
  BY Zenon DEF Reachable, Recursion
<1>7. PICK f : Prefix(f, N) /\ Reachable(n) = f[N]
  <2> HIDE DEF Prefix
  <2>. QED  BY <1>1, <1>5, <1>6
<1>8. f[0] = [i \in Indexes(n) |-> {}]
  BY <1>1, <1>7
<1>9. ASSUME NEW d \in 1 .. N PROVE f[d] = ReachedFrom(n, f[d - 1])
  <2>1. d \in 0 .. N /\ d # 0
    BY <1>1
  <2>. QED  BY <1>1, <1>7, <2>1
<1>. QED  BY <1>1, <1>7, <1>8, <1>9, Zenon

\* The size of an array.
LEMMA ArraySize ==
    ASSUME NEW N \in Nat, NEW n, IsArray(n, N)
    PROVE  Size(n) = N /\ DOMAIN n = 0 .. N - 1 /\ Indexes(n) = -1 .. N - 1
<1>1. DOMAIN n = 0 .. N - 1
  BY DEF IsArray
<1>2. Cardinality(0 .. N - 1) = N
  BY FS_Interval
<1>3. Size(n) = N
  BY <1>1, <1>2 DEF Size
<1>. QED  BY <1>1, <1>3 DEF Indexes, Null

\* Its nodes.
LEMMA ArrayNode ==
    ASSUME NEW N \in Nat, NEW n, IsArray(n, N), NEW i \in 0 .. N - 1
    PROVE  /\ n[i].key \in Int /\ n[i].height \in Nat
           /\ n[i].left \in -1 .. N - 1 /\ n[i].right \in -1 .. N - 1
BY DEF IsArray, IsNode

\* Heights are numbers, and positive but for the empty tree.
LEMMA HeightType ==
    ASSUME NEW N \in Nat, NEW n, IsArray(n, N), NEW i, NEW S, Tree(n, i, S)
    PROVE  /\ NodeHeight(n, i) \in Nat
           /\ i = Null <=> NodeHeight(n, i) = 0
<1>1. CASE i = Null
  BY <1>1 DEF NodeHeight
<1>2. CASE i # Null
  <2>1. i \in S /\ Fits(n, i) /\ S \subseteq DOMAIN n
    BY <1>2, Split DEF Tree
  <2>2. PICK L, R \in SUBSET S : Branch(n, i, L, R)
    BY <1>2, Split
  <2>3. i \in 0 .. N - 1 /\ n[i].left \in L \cup {Null} /\ n[i].right \in R \cup {Null}
    BY <2>1, <2>2 DEF IsArray, Branch, Tree
  <2>4. ASSUME NEW j \in S \cup {Null} PROVE NodeHeight(n, j) \in Nat
    BY <2>1, ArrayNode DEF IsArray, NodeHeight
  <2>5. NodeHeight(n, n[i].left) \in Nat /\ NodeHeight(n, n[i].right) \in Nat
    BY <2>3, <2>4
  <2>6. NodeHeight(n, i) = 1 + Higher(NodeHeight(n, n[i].left), NodeHeight(n, n[i].right))
    BY <1>2, <2>1 DEF Fits, NodeHeight
  <2>. QED  BY <1>2, <2>5, <2>6 DEF Higher
<1>. QED  BY <1>1, <1>2

\* The two subtrees of a tree and their heights.
Divided(n, N, i, S, L, R, hl, hr) ==
    /\ Branch(n, i, L, R) /\ S = {i} \cup L \cup R /\ i \in 0 .. N - 1
    /\ hl = NodeHeight(n, n[i].left) /\ hr = NodeHeight(n, n[i].right)
    /\ NodeHeight(n, i) = 1 + Higher(hl, hr) /\ hl - hr \in -1 .. 1

\* What they are worth.
LEMMA Parts ==
    ASSUME NEW N \in Nat, NEW n, IsArray(n, N), NEW i, NEW S, Tree(n, i, S), i # Null
    PROVE  \E L, R \in SUBSET S, hl, hr \in Nat : Divided(n, N, i, S, L, R, hl, hr)
<1>1. PICK L, R \in SUBSET S : Branch(n, i, L, R) /\ S = {i} \cup L \cup R
  BY Split
<1>2. i \in S /\ Fits(n, i) /\ i \in 0 .. N - 1
  BY Split DEF Tree, IsArray
<1>3. PICK hl, hr : hl = NodeHeight(n, n[i].left) /\ hr = NodeHeight(n, n[i].right)
  OBVIOUS
<1>4. Tree(n, n[i].left, L) /\ Tree(n, n[i].right, R)
  BY <1>1 DEF Branch
<1>5. hl \in Nat /\ hr \in Nat
  BY <1>3, <1>4, HeightType
<1>6. NodeHeight(n, i) = 1 + Higher(hl, hr) /\ hl - hr \in -1 .. 1
  BY <1>2, <1>3 DEF Fits, Balance, NodeHeight
<1>. QED  BY <1>1, <1>2, <1>3, <1>5, <1>6 DEF Divided

\* A tree has at least as many nodes as its height says.
LEMMA HeightBound ==
    ASSUME NEW N \in Nat, NEW n, IsArray(n, N), NEW i, NEW S, Tree(n, i, S)
    PROVE  IsFiniteSet(S) /\ Cardinality(S) \in Nat /\ NodeHeight(n, i) <= Cardinality(S)
<1> DEFINE Bounded(j, U, d) == Tree(n, j, U) /\ NodeHeight(n, j) <= d => NodeHeight(n, j) <= Cardinality(U)
           T == {d \in Nat : \A j \in -1 .. N - 1, U \in SUBSET (0 .. N - 1) : Bounded(j, U, d)}
<1>1. ASSUME NEW U \in SUBSET (0 .. N - 1) PROVE IsFiniteSet(U) /\ Cardinality(U) \in Nat
  <2>1. IsFiniteSet(0 .. N - 1)
    BY FS_Interval
  <2>2. IsFiniteSet(U)
    BY <2>1, FS_Subset
  <2>. QED  BY <2>2, FS_CardinalityType
<1>2. 0 \in T
  <2>1. ASSUME NEW j \in -1 .. N - 1, NEW U \in SUBSET (0 .. N - 1), Tree(n, j, U), NodeHeight(n, j) <= 0
        PROVE  NodeHeight(n, j) <= Cardinality(U)
    BY <1>1, <2>1, HeightType
  <2>. QED  BY <2>1
<1>3. ASSUME NEW d \in Nat, d \in T PROVE d + 1 \in T
  <2>1. ASSUME NEW j \in -1 .. N - 1, NEW U \in SUBSET (0 .. N - 1), Tree(n, j, U), NodeHeight(n, j) <= d + 1,
               j # Null
        PROVE  NodeHeight(n, j) <= Cardinality(U)
    <3>1. PICK L, R \in SUBSET U, hl, hr \in Nat : Divided(n, N, j, U, L, R, hl, hr)
      BY <2>1, Parts
    <3>1a. /\ Branch(n, j, L, R) /\ U = {j} \cup L \cup R /\ j \in 0 .. N - 1
          /\ hl = NodeHeight(n, n[j].left) /\ hr = NodeHeight(n, n[j].right)
          /\ NodeHeight(n, j) = 1 + Higher(hl, hr) /\ hl - hr \in -1 .. 1
      BY <3>1 DEF Divided
    <3>2. hl <= d /\ hr <= d
      BY <2>1, <3>1, <3>1a DEF Higher
    <3>3. Tree(n, n[j].left, L) /\ Tree(n, n[j].right, R) /\ j \notin L /\ j \notin R
      BY <3>1, <3>1a DEF Branch, Apart
    <3>4. n[j].left \in -1 .. N - 1 /\ n[j].right \in -1 .. N - 1
      BY <3>1, <3>1a, ArrayNode
    <3>5. L \in SUBSET (0 .. N - 1) /\ R \in SUBSET (0 .. N - 1)
      BY <3>1, <3>1a
    <3>6. hl <= Cardinality(L) /\ hr <= Cardinality(R)
      BY <1>3, <3>1, <3>1a, <3>2, <3>3, <3>4, <3>5
    <3>7. ASSUME NEW V \in SUBSET U, j \notin V PROVE Cardinality(V) + 1 <= Cardinality(U)
      <4>1. IsFiniteSet(V) /\ Cardinality(V) \in Nat /\ IsFiniteSet(U)
        BY <1>1
      <4>2. Cardinality(V \cup {j}) = Cardinality(V) + 1
        BY <3>7, <4>1, FS_AddElement
      <4>3. V \cup {j} \subseteq U
        BY <3>1, <3>1a
      <4>4. Cardinality(V \cup {j}) <= Cardinality(U)
        BY <4>1, <4>3, FS_Subset
      <4>. QED  BY <4>2, <4>4
    <3>8. Cardinality(L) + 1 <= Cardinality(U) /\ Cardinality(R) + 1 <= Cardinality(U)
      BY <3>1, <3>1a, <3>3, <3>7
    <3>9. Cardinality(L) \in Nat /\ Cardinality(R) \in Nat /\ Cardinality(U) \in Nat
      BY <1>1, <3>5
    <3>. QED  BY <3>1, <3>1a, <3>6, <3>8, <3>9 DEF Higher
  <2>2. ASSUME NEW j \in -1 .. N - 1, NEW U \in SUBSET (0 .. N - 1), Tree(n, j, U), NodeHeight(n, j) <= d + 1
        PROVE  NodeHeight(n, j) <= Cardinality(U)
    <3>1. CASE j = Null
      BY <1>1, <3>1, <2>2 DEF NodeHeight
    <3>2. CASE j # Null
      BY <2>1, <2>2, <3>2
    <3>. QED  BY <3>1, <3>2
  <2>. QED  BY <2>2
<1>4. PICK h : h = NodeHeight(n, i) /\ h \in Nat
  BY HeightType
<1>5. h \in T
  <2> HIDE DEF T
  <2>1. \A d \in 0 .. h : d < h /\ d \in T => d + 1 \in T
    BY <1>3
  <2>2. \A d \in 0 .. h : d \in T
    BY <1>2, <1>4, <2>1, OneByOne
  <2>. QED  BY <1>4, <2>2
<1>6. i \in -1 .. N - 1 /\ S \in SUBSET (0 .. N - 1)
  BY DEF Tree, IsArray, Null
<1>7. NodeHeight(n, i) <= Cardinality(S)
  BY <1>4, <1>5, <1>6
<1>. QED  BY <1>1, <1>6, <1>7

(***************************************************************************)
(* Heights that are calculated.  HasHeight(n, N, i, h) says that i has the *)
(* height h whatever is stored in its node: the calls deep enough return   *)
(* it.                                                                     *)
(***************************************************************************)
HeightRun(n, N, f) ==
    /\ f[0] = [i \in Indexes(n) |-> 0]
    /\ \A d \in 1 .. N : f[d] = HeightFrom(n, f[d - 1])

HasHeight(n, N, i, h) ==
    h \in Nat /\ \A f : HeightRun(n, N, f) => \A d \in h .. N : f[d][i] = h

\* The height of a node above two subtrees.
LEMMA HeightStep ==
    ASSUME NEW N \in Nat, NEW n, IsArray(n, N), NEW i \in 0 .. N - 1, NEW hl, NEW hr,
           HasHeight(n, N, n[i].left, hl), HasHeight(n, N, n[i].right, hr)
    PROVE  HasHeight(n, N, i, 1 + Higher(hl, hr))
<1>1. PICK h : h = 1 + Higher(hl, hr)
  OBVIOUS
<1>2. hl \in Nat /\ hr \in Nat /\ h \in Nat /\ hl < h /\ hr < h
  BY <1>1 DEF HasHeight, Higher
<1>3. ASSUME NEW f, HeightRun(n, N, f), NEW d \in h .. N PROVE f[d][i] = h
  <2>1. d \in 1 .. N /\ d - 1 \in hl .. N /\ d - 1 \in hr .. N
    BY <1>2
  <2>2. f[d - 1][n[i].left] = hl /\ f[d - 1][n[i].right] = hr
    BY <1>3, <2>1 DEF HasHeight
  <2>3. f[d] = HeightFrom(n, f[d - 1])
    BY <1>3, <2>1 DEF HeightRun
  <2>4. i \in Indexes(n) /\ i # Null
    BY ArraySize DEF Null
  <2>. QED  BY <1>1, <2>2, <2>3, <2>4 DEF HeightFrom
<1>. QED  BY <1>1, <1>2, <1>3 DEF HasHeight

\* Trees have the height that is stored.
LEMMA TreeHeight ==
    ASSUME NEW N \in Nat, NEW n, IsArray(n, N), NEW i, NEW S, Tree(n, i, S)
    PROVE  HasHeight(n, N, i, NodeHeight(n, i))
<1> DEFINE T == {d \in Nat : \A j \in -1 .. N - 1, U \in SUBSET (0 .. N - 1) :
                    Tree(n, j, U) /\ NodeHeight(n, j) <= d => HasHeight(n, N, j, NodeHeight(n, j))}
<1>1. HasHeight(n, N, Null, 0)
  <2>1. ASSUME NEW f, HeightRun(n, N, f), NEW d \in 0 .. N PROVE f[d][Null] = 0
    <3>1. Null \in Indexes(n)
      BY DEF Indexes
    <3>2. CASE d = 0
      BY <2>1, <3>1, <3>2 DEF HeightRun
    <3>3. CASE d # 0
      <4>1. d \in 1 .. N
        BY <3>3
      <4>2. f[d] = HeightFrom(n, f[d - 1])
        BY <2>1, <4>1 DEF HeightRun
      <4>. QED  BY <3>1, <4>2 DEF HeightFrom
    <3>. QED  BY <3>2, <3>3
  <2>. QED  BY <2>1 DEF HasHeight
<1>2. 0 \in T
  <2>1. ASSUME NEW j \in -1 .. N - 1, NEW U \in SUBSET (0 .. N - 1), Tree(n, j, U), NodeHeight(n, j) <= 0
        PROVE  HasHeight(n, N, j, NodeHeight(n, j))
    <3>1. NodeHeight(n, j) = 0 /\ j = Null
      BY <2>1, HeightType
    <3>. QED  BY <1>1, <3>1
  <2>. QED  BY <2>1
<1>3. ASSUME NEW d \in Nat, d \in T PROVE d + 1 \in T
  <2>1. ASSUME NEW j \in -1 .. N - 1, NEW U \in SUBSET (0 .. N - 1), Tree(n, j, U), NodeHeight(n, j) <= d + 1
        PROVE  HasHeight(n, N, j, NodeHeight(n, j))
    <3>1. CASE j = Null
      BY <1>1, <3>1 DEF NodeHeight
    <3>2. CASE j # Null
      <4>1. PICK L, R \in SUBSET U, hl, hr \in Nat : Divided(n, N, j, U, L, R, hl, hr)
        BY <2>1, <3>2, Parts
      <4>1a. /\ Branch(n, j, L, R) /\ U = {j} \cup L \cup R /\ j \in 0 .. N - 1
            /\ hl = NodeHeight(n, n[j].left) /\ hr = NodeHeight(n, n[j].right)
            /\ NodeHeight(n, j) = 1 + Higher(hl, hr) /\ hl - hr \in -1 .. 1
        BY <4>1 DEF Divided
      <4>2. hl <= d /\ hr <= d
        BY <2>1, <4>1, <4>1a DEF Higher
      <4>3. Tree(n, n[j].left, L) /\ Tree(n, n[j].right, R)
        BY <4>1, <4>1a DEF Branch
      <4>4. n[j].left \in -1 .. N - 1 /\ n[j].right \in -1 .. N - 1
        BY <4>1, <4>1a, ArrayNode
      <4>5. L \in SUBSET (0 .. N - 1) /\ R \in SUBSET (0 .. N - 1)
        BY <4>1, <4>1a
      <4>6. HasHeight(n, N, n[j].left, hl) /\ HasHeight(n, N, n[j].right, hr)
        BY <1>3, <4>1, <4>1a, <4>2, <4>3, <4>4, <4>5
      <4>. QED  BY <4>1, <4>1a, <4>6, HeightStep
    <3>. QED  BY <3>1, <3>2
  <2>. QED  BY <2>1
<1>4. PICK h : h = NodeHeight(n, i) /\ h \in Nat
  BY HeightType
<1>5. h \in T
  <2> HIDE DEF T
  <2>1. \A d \in 0 .. h : d < h /\ d \in T => d + 1 \in T
    BY <1>3
  <2>2. \A d \in 0 .. h : d \in T
    BY <1>2, <1>4, <2>1, OneByOne
  <2>. QED  BY <1>4, <2>2
<1>6. i \in -1 .. N - 1 /\ S \in SUBSET (0 .. N - 1)
  BY DEF Tree, IsArray, Null
<1>. QED  BY <1>4, <1>5, <1>6

\* The calculated height.
LEMMA Calculated ==
    ASSUME NEW N \in Nat, NEW n, IsArray(n, N), NEW i, NEW h, HasHeight(n, N, i, h), h <= N
    PROVE  CalcHeight(n)[i] = h
<1>1. PICK f : /\ CalcHeight(n) = f[Size(n)]
               /\ f[0] = [j \in Indexes(n) |-> 0]
               /\ \A d \in 1 .. Size(n) : f[d] = HeightFrom(n, f[d - 1])
  BY ArraySize, HeightCalls
<1>2. HeightRun(n, N, f) /\ CalcHeight(n) = f[N]
  BY <1>1, ArraySize DEF HeightRun
<1>3. h \in Nat /\ N \in h .. N
  BY DEF HasHeight
<1>. QED  BY <1>2, <1>3 DEF HasHeight

\* That of a tree is the one that is stored.
LEMMA TreeCalculated ==
    ASSUME NEW N \in Nat, NEW n, IsArray(n, N), NEW i, NEW S, Tree(n, i, S)
    PROVE  CalcHeight(n)[i] = NodeHeight(n, i) /\ NodeHeight(n, i) <= N
<1>1. S \subseteq 0 .. N - 1 /\ IsFiniteSet(0 .. N - 1) /\ Cardinality(0 .. N - 1) = N
  BY FS_Interval DEF Tree, IsArray
<1>2. Cardinality(S) <= N
  BY <1>1, FS_Subset
<1>3. NodeHeight(n, i) <= Cardinality(S) /\ NodeHeight(n, i) \in Nat /\ Cardinality(S) \in Nat
  BY HeightBound, HeightType
<1>4. NodeHeight(n, i) <= N
  BY <1>2, <1>3
<1>. QED  BY <1>4, TreeHeight, Calculated

(***************************************************************************)
(* Rotations.  A, B and C are three trees, in this order, with a node      *)
(* between each two; the lower of these nodes is the child.                *)
(***************************************************************************)
SameBut(n, m, S) == DOMAIN m = DOMAIN n /\ \A j \in DOMAIN n \ S : m[j] = n[j]

Entries(n, S) == {<<n[j].key, n[j].data>> : j \in S}

LeftLeaning(n, top, child, A, B, C) ==
    /\ n[top].left = child /\ top \in DOMAIN n /\ top # Null
    /\ Branch(n, child, A, B) /\ Tree(n, n[top].right, C)
    /\ Apart(top, {child} \cup A \cup B, C)
    /\ Ordered(n, top, {child} \cup A \cup B, C)

RightLeaning(n, top, child, A, B, C) ==
    /\ n[top].right = child /\ top \in DOMAIN n /\ top # Null
    /\ Branch(n, child, B, C) /\ Tree(n, n[top].left, A)
    /\ Apart(top, A, {child} \cup B \cup C)
    /\ Ordered(n, top, A, {child} \cup B \cup C)

\* The heights of three trees.
LeftHeights(n, top, child, hA, hB, hC) ==
    /\ hA = NodeHeight(n, n[child].left) /\ hB = NodeHeight(n, n[child].right)
    /\ hC = NodeHeight(n, n[top].right)

RightHeights(n, top, child, hA, hB, hC) ==
    /\ hA = NodeHeight(n, n[top].left) /\ hB = NodeHeight(n, n[child].left)
    /\ hC = NodeHeight(n, n[child].right)

\* What the rotations of n make of it: m.
TurnedRight(n, m, N, top, child, A, B, C, hA, hB, hC) ==
    /\ IsArray(m, N) /\ SameBut(n, m, {top, child})
    /\ Entries(m, {top, child}) = Entries(n, {top, child})
    /\ RightLeaning(m, top, child, A, B, C)
    /\ hA \in Nat /\ hB \in Nat /\ hC \in Nat
    /\ RightHeights(m, top, child, hA, hB, hC)
    /\ m[child].height = 1 + Higher(hB, hC)
    /\ m[top].height = 1 + Higher(hA, 1 + Higher(hB, hC))

TurnedLeft(n, m, N, top, child, A, B, C, hA, hB, hC) ==
    /\ IsArray(m, N) /\ SameBut(n, m, {top, child})
    /\ Entries(m, {top, child}) = Entries(n, {top, child})
    /\ LeftLeaning(m, top, child, A, B, C)
    /\ hA \in Nat /\ hB \in Nat /\ hC \in Nat
    /\ LeftHeights(m, top, child, hA, hB, hC)
    /\ m[child].height = 1 + Higher(hA, hB)
    /\ m[top].height = 1 + Higher(1 + Higher(hA, hB), hC)

\* Setting a height changes nothing else.
SetHeight(n, i, h) == [n EXCEPT ![i].height = h]

HeightOnly(n, m, N, i, h) ==
    /\ IsArray(m, N) /\ SameBut(n, m, {i}) /\ m[i].height = h
    /\ \A j \in 0 .. N - 1 : /\ m[j].key = n[j].key /\ m[j].data = n[j].data
                            /\ m[j].left = n[j].left /\ m[j].right = n[j].right

\* A height is set.
LEMMA HeightSet ==
    ASSUME NEW N \in Nat, NEW n, IsArray(n, N), NEW i \in 0 .. N - 1, NEW h \in Nat,
           NEW m, m = SetHeight(n, i, h)
    PROVE  HeightOnly(n, m, N, i, h)
<1>1. DOMAIN n = 0 .. N - 1 /\ DOMAIN m = 0 .. N - 1
  BY DEF IsArray, SetHeight
<1>2. m[i] = [n[i] EXCEPT !.height = h] /\ \A j \in 0 .. N - 1 : j # i => m[j] = n[j]
  BY <1>1 DEF SetHeight
<1>3. IsNode(n[i], -1 .. N - 1)
  BY DEF IsArray
<1>4. /\ m[i].key = n[i].key /\ m[i].data = n[i].data
      /\ m[i].left = n[i].left /\ m[i].right = n[i].right /\ m[i].height = h
  BY <1>2, <1>3 DEF IsNode
<1>5. IsNode(m[i], -1 .. N - 1)
  BY <1>2, <1>3, <1>4 DEF IsNode
<1>6. IsArray(m, N)
  BY <1>1, <1>2, <1>5 DEF IsArray
<1>. QED  BY <1>1, <1>2, <1>4, <1>6 DEF SameBut, HeightOnly

\* Sets of indexes.
LEMMA IndexSets ==
    ASSUME NEW N \in Nat, NEW S \in SUBSET (0 .. N - 1)
    PROVE  IsFiniteSet(S) /\ Cardinality(S) \in Nat /\ Cardinality(S) <= N
<1>1. IsFiniteSet(0 .. N - 1) /\ Cardinality(0 .. N - 1) = N
  BY FS_Interval
<1>2. IsFiniteSet(S) /\ Cardinality(S) <= Cardinality(0 .. N - 1)
  BY <1>1, FS_Subset
<1>. QED  BY <1>1, <1>2, FS_CardinalityType

\* A set without two of the indexes.
LEMMA TwoLess ==
    ASSUME NEW N \in Nat, NEW S \in SUBSET (0 .. N - 1), NEW x \in 0 .. N - 1, NEW y \in 0 .. N - 1,
           x # y, x \notin S, y \notin S
    PROVE  Cardinality(S) \in Nat /\ Cardinality(S) + 2 <= N
<1>1. IsFiniteSet(S) /\ Cardinality(S) \in Nat
  BY IndexSets
<1>2. IsFiniteSet(S \cup {x}) /\ Cardinality(S \cup {x}) = Cardinality(S) + 1
  BY <1>1, FS_AddElement
<1>3. y \notin S \cup {x}
  OBVIOUS
<1>4. Cardinality((S \cup {x}) \cup {y}) = Cardinality(S \cup {x}) + 1
  BY <1>2, <1>3, FS_AddElement
<1>5. Cardinality((S \cup {x}) \cup {y}) <= N
  <2>1. (S \cup {x}) \cup {y} \in SUBSET (0 .. N - 1)
    OBVIOUS
  <2>. QED  BY <2>1, IndexSets
<1>. QED  BY <1>1, <1>2, <1>4, <1>5

\* A tree that does not have the indexes of which something is assigned.
LEMMA Elsewhere ==
    ASSUME NEW n, NEW m, NEW X, SameBut(n, m, X), NEW i, NEW S, Tree(n, i, S), S \cap X = {}
    PROVE  Tree(m, i, S) /\ NodeHeight(m, i) = NodeHeight(n, i)
<1>1. S \subseteq DOMAIN n /\ DOMAIN m = DOMAIN n
  BY DEF Tree, SameBut
<1>2. Alike(n, m, S)
  BY <1>1 DEF SameBut, Alike
<1>. QED  BY <1>1, <1>2, Frame

\* RotateRight: the child comes to the top.
LEMMA RotatedRight ==
    ASSUME NEW N \in Nat, NEW n, IsArray(n, N), NEW top, NEW child, NEW A, NEW B, NEW C,
           LeftLeaning(n, top, child, A, B, C),
           NEW hA, NEW hB, NEW hC, LeftHeights(n, top, child, hA, hB, hC)
    PROVE  TurnedRight(n, RotateRight(n, top), N, top, child, A, B, C, hA, hB, hC)
<1>0. PICK m : m = RotateRight(n, top)
  OBVIOUS
<1> DEFINE a == n[child].left
           b == n[child].right
           c == n[top].right
           moved == [n EXCEPT
               ![top]   = [@ EXCEPT !.key = n[child].key, !.data = n[child].data,
                                    !.left = n[child].left, !.right = child],
               ![child] = [@ EXCEPT !.key = n[top].key, !.data = n[top].data,
                                    !.left = n[child].right, !.right = n[top].right]]
<1>1. PICK p : p = moved
  OBVIOUS
<1>2. m = WithHeight(WithHeight(p, child), top)
  BY <1>0, <1>1 DEF RotateRight, LeftLeaning
<1> HIDE DEF moved
<1>3. /\ n[top].left = child /\ Tree(n, a, A) /\ Tree(n, b, B) /\ Tree(n, c, C)
      /\ top \in 0 .. N - 1 /\ child \in 0 .. N - 1 /\ top # Null /\ child # Null /\ top # child
      /\ A \cap {top, child} = {} /\ B \cap {top, child} = {} /\ C \cap {top, child} = {}
      /\ A \cap B = {} /\ A \cap C = {} /\ B \cap C = {}
  BY DEF LeftLeaning, Branch, Apart, IsArray
<1>4. A \subseteq 0 .. N - 1 /\ B \subseteq 0 .. N - 1 /\ C \subseteq 0 .. N - 1
  BY <1>3 DEF Tree, IsArray
<1>5. IsNode(n[top], -1 .. N - 1) /\ IsNode(n[child], -1 .. N - 1) /\ DOMAIN n = 0 .. N - 1
  BY <1>3 DEF IsArray
<1>6. /\ DOMAIN p = 0 .. N - 1 /\ SameBut(n, p, {top, child})
      /\ p[top] = [n[top] EXCEPT !.key = n[child].key, !.data = n[child].data, !.left = a, !.right = child]
      /\ p[child] = [n[child] EXCEPT !.key = n[top].key, !.data = n[top].data, !.left = b, !.right = c]
  BY <1>1, <1>3, <1>5 DEF moved, SameBut
<1>7. /\ p[top].key = n[child].key /\ p[top].data = n[child].data /\ p[top].left = a
      /\ p[top].right = child /\ p[top].height = n[top].height
      /\ p[child].key = n[top].key /\ p[child].data = n[top].data /\ p[child].left = b
      /\ p[child].right = c /\ p[child].height = n[child].height
  BY <1>5, <1>6 DEF IsNode
<1>8. IsArray(p, N)
  <2>1. IsNode(p[top], -1 .. N - 1) /\ IsNode(p[child], -1 .. N - 1)
    BY <1>3, <1>5, <1>6, <1>7 DEF IsNode
  <2>2. \A j \in 0 .. N - 1 : j \notin {top, child} => p[j] = n[j]
    BY <1>5, <1>6 DEF SameBut
  <2>. QED  BY <1>6, <2>1, <2>2 DEF IsArray
<1>9. /\ Tree(p, a, A) /\ NodeHeight(p, a) = hA
      /\ Tree(p, b, B) /\ NodeHeight(p, b) = hB
      /\ Tree(p, c, C) /\ NodeHeight(p, c) = hC
  BY <1>3, <1>6, Elsewhere DEF LeftHeights
<1>10. /\ HasHeight(p, N, a, hA) /\ HasHeight(p, N, b, hB) /\ HasHeight(p, N, c, hC)
       /\ hA \in Nat /\ hB \in Nat /\ hC \in Nat
  BY <1>8, <1>9, TreeHeight, HeightType
<1>11. hA + 2 <= N /\ hB + 2 <= N /\ hC + 2 <= N
  <2>1. hA <= Cardinality(A) /\ hB <= Cardinality(B) /\ hC <= Cardinality(C)
    BY <1>8, <1>9, HeightBound
  <2>2. /\ Cardinality(A) + 2 <= N /\ Cardinality(A) \in Nat
        /\ Cardinality(B) + 2 <= N /\ Cardinality(B) \in Nat
        /\ Cardinality(C) + 2 <= N /\ Cardinality(C) \in Nat
    BY <1>3, <1>4, TwoLess
  <2>. QED  BY <1>10, <2>1, <2>2
<1>12. PICK hc, ht : hc = 1 + Higher(hB, hC) /\ ht = 1 + Higher(hA, hc)
  OBVIOUS
<1>13. hc \in Nat /\ ht \in Nat /\ hc <= N /\ ht <= N
  BY <1>10, <1>11, <1>12 DEF Higher
<1>14. CalcHeight(p)[child] = hc
  <2>1. HasHeight(p, N, child, hc)
    BY <1>3, <1>7, <1>8, <1>10, <1>12, HeightStep
  <2>. QED  BY <1>8, <1>13, <2>1, Calculated
<1>15. PICK q : q = WithHeight(p, child)
  OBVIOUS
<1>16. /\ IsArray(q, N) /\ SameBut(p, q, {child}) /\ q[child].height = hc
       /\ \A j \in 0 .. N - 1 : /\ q[j].key = p[j].key /\ q[j].data = p[j].data
                               /\ q[j].left = p[j].left /\ q[j].right = p[j].right
  <2>1. q = SetHeight(p, child, hc)
    BY <1>14, <1>15 DEF WithHeight, SetHeight
  <2>2. HeightOnly(p, q, N, child, hc)
    BY <1>3, <1>8, <1>13, <2>1, HeightSet
  <2>. QED  BY <2>2 DEF HeightOnly
<1>17. /\ Tree(q, a, A) /\ NodeHeight(q, a) = hA
       /\ Tree(q, b, B) /\ NodeHeight(q, b) = hB
       /\ Tree(q, c, C) /\ NodeHeight(q, c) = hC
  <2>1. A \cap {child} = {} /\ B \cap {child} = {} /\ C \cap {child} = {}
    BY <1>3
  <2>. QED  BY <1>9, <1>16, <2>1, Elsewhere
<1>18. CalcHeight(q)[top] = ht
  <2>1. /\ HasHeight(q, N, a, hA) /\ HasHeight(q, N, b, hB) /\ HasHeight(q, N, c, hC)
    BY <1>16, <1>17, TreeHeight
  <2>2. q[child].left = b /\ q[child].right = c /\ q[top].left = a /\ q[top].right = child
    BY <1>3, <1>7, <1>16
  <2>3. HasHeight(q, N, child, hc)
    BY <1>3, <1>12, <1>16, <2>1, <2>2, HeightStep
  <2>4. HasHeight(q, N, top, ht)
    BY <1>3, <1>12, <1>16, <2>1, <2>2, <2>3, HeightStep
  <2>. QED  BY <1>13, <1>16, <2>4, Calculated
<1>19. /\ IsArray(m, N) /\ SameBut(q, m, {top}) /\ m[top].height = ht
       /\ \A j \in 0 .. N - 1 : /\ m[j].key = q[j].key /\ m[j].data = q[j].data
                               /\ m[j].left = q[j].left /\ m[j].right = q[j].right
  <2>1. m = SetHeight(q, top, ht)
    BY <1>2, <1>15, <1>18 DEF WithHeight, SetHeight
  <2>2. IsArray(q, N)
    BY <1>16
  <2>3. HeightOnly(q, m, N, top, ht)
    BY <1>3, <1>13, <2>1, <2>2, HeightSet
  <2>. QED  BY <2>3 DEF HeightOnly
<1>20. /\ m[top].key = n[child].key /\ m[top].data = n[child].data /\ m[top].left = a
       /\ m[top].right = child /\ m[top].height = ht
       /\ m[child].key = n[top].key /\ m[child].data = n[top].data /\ m[child].left = b
       /\ m[child].right = c /\ m[child].height = hc
  <2>1. m[child].height = q[child].height
    BY <1>3, <1>16, <1>19 DEF SameBut, IsArray
  <2>. QED  BY <1>3, <1>7, <1>16, <1>19, <2>1
<1>21. SameBut(n, m, {top, child})
  BY <1>6, <1>16, <1>19 DEF SameBut
<1>22. /\ Tree(m, a, A) /\ NodeHeight(m, a) = hA
       /\ Tree(m, b, B) /\ NodeHeight(m, b) = hB
       /\ Tree(m, c, C) /\ NodeHeight(m, c) = hC
  BY <1>3, <1>21, Elsewhere DEF LeftHeights
<1>23. Entries(m, {top, child}) = Entries(n, {top, child})
  <2>1. /\ Entries(m, {top, child}) = {<<m[top].key, m[top].data>>, <<m[child].key, m[child].data>>}
        /\ Entries(n, {top, child}) = {<<n[top].key, n[top].data>>, <<n[child].key, n[child].data>>}
    BY DEF Entries
  <2>. QED  BY <1>20, <2>1
<1>24. RightLeaning(m, top, child, A, B, C)
  <2>1. /\ \A j \in A \cup B \cup C : m[j].key = n[j].key /\ n[j].key \in Int
        /\ n[top].key \in Int /\ n[child].key \in Int
    <3>1. \A j \in A \cup B \cup C : j \in 0 .. N - 1 /\ j \notin {top, child}
      BY <1>3, <1>4
    <3>. QED  BY <1>3, <1>5, <1>21, <3>1, ArrayNode DEF SameBut
  <2>2. /\ Below(n, {child} \cup A \cup B, n[top].key) /\ Above(n, C, n[top].key)
        /\ Below(n, A, n[child].key) /\ Above(n, B, n[child].key)
    BY DEF LeftLeaning, Branch, Ordered
  <2>3. /\ \A j \in A : n[j].key < n[child].key
        /\ \A j \in B : n[j].key > n[child].key /\ n[j].key < n[top].key
        /\ \A j \in C : n[j].key > n[top].key
        /\ n[child].key < n[top].key
    BY <2>2 DEF Below, Above
  <2>4. Ordered(m, child, B, C)
    BY <1>20, <2>1, <2>3 DEF Ordered, Below, Above
  <2>5. Ordered(m, top, A, {child} \cup B \cup C)
    BY <1>20, <2>1, <2>3 DEF Ordered, Below, Above
  <2>6. Apart(child, B, C) /\ Apart(top, A, {child} \cup B \cup C)
    BY <1>3 DEF Apart
  <2>7. DOMAIN m = 0 .. N - 1
    BY <1>19 DEF IsArray
  <2>8. Branch(m, child, B, C)
    BY <1>3, <1>20, <1>22, <2>4, <2>6, <2>7 DEF Branch
  <2>. QED  BY <1>3, <1>20, <1>22, <2>5, <2>6, <2>7, <2>8 DEF RightLeaning
<1>25. /\ RightHeights(m, top, child, hA, hB, hC)
       /\ m[child].height = 1 + Higher(hB, hC)
       /\ m[top].height = 1 + Higher(hA, 1 + Higher(hB, hC))
  BY <1>12, <1>20, <1>22 DEF RightHeights
<1>. QED  BY <1>0, <1>10, <1>19, <1>21, <1>23, <1>24, <1>25 DEF TurnedRight
\* RotateLeft: the same from the other side.
LEMMA RotatedLeft ==
    ASSUME NEW N \in Nat, NEW n, IsArray(n, N), NEW top, NEW child, NEW A, NEW B, NEW C,
           RightLeaning(n, top, child, A, B, C),
           NEW hA, NEW hB, NEW hC, RightHeights(n, top, child, hA, hB, hC)
    PROVE  TurnedLeft(n, RotateLeft(n, top), N, top, child, A, B, C, hA, hB, hC)
<1>0. PICK m : m = RotateLeft(n, top)
  OBVIOUS
<1> DEFINE a == n[top].left
           b == n[child].left
           c == n[child].right
           moved == [n EXCEPT
               ![top]   = [@ EXCEPT !.key = n[child].key, !.data = n[child].data,
                                    !.left = child, !.right = n[child].right],
               ![child] = [@ EXCEPT !.key = n[top].key, !.data = n[top].data,
                                    !.left = n[top].left, !.right = n[child].left]]
<1>1. PICK p : p = moved
  OBVIOUS
<1>2. m = WithHeight(WithHeight(p, top), child)
  BY <1>0, <1>1 DEF RotateLeft, RightLeaning
<1> HIDE DEF moved
<1>3. /\ n[top].right = child /\ Tree(n, a, A) /\ Tree(n, b, B) /\ Tree(n, c, C)
      /\ top \in 0 .. N - 1 /\ child \in 0 .. N - 1 /\ top # Null /\ child # Null /\ top # child
      /\ A \cap {top, child} = {} /\ B \cap {top, child} = {} /\ C \cap {top, child} = {}
      /\ A \cap B = {} /\ A \cap C = {} /\ B \cap C = {}
  BY DEF RightLeaning, Branch, Apart, IsArray
<1>4. A \subseteq 0 .. N - 1 /\ B \subseteq 0 .. N - 1 /\ C \subseteq 0 .. N - 1
  BY <1>3 DEF Tree, IsArray
<1>5. IsNode(n[top], -1 .. N - 1) /\ IsNode(n[child], -1 .. N - 1) /\ DOMAIN n = 0 .. N - 1
  BY <1>3 DEF IsArray
<1>6. /\ DOMAIN p = 0 .. N - 1 /\ SameBut(n, p, {top, child})
      /\ p[top] = [n[top] EXCEPT !.key = n[child].key, !.data = n[child].data, !.left = child, !.right = c]
      /\ p[child] = [n[child] EXCEPT !.key = n[top].key, !.data = n[top].data, !.left = a, !.right = b]
  BY <1>1, <1>3, <1>5 DEF moved, SameBut
<1>7. /\ p[top].key = n[child].key /\ p[top].data = n[child].data /\ p[top].left = child
      /\ p[top].right = c /\ p[top].height = n[top].height
      /\ p[child].key = n[top].key /\ p[child].data = n[top].data /\ p[child].left = a
      /\ p[child].right = b /\ p[child].height = n[child].height
  BY <1>5, <1>6 DEF IsNode
<1>8. IsArray(p, N)
  <2>1. IsNode(p[top], -1 .. N - 1) /\ IsNode(p[child], -1 .. N - 1)
    BY <1>3, <1>5, <1>6, <1>7 DEF IsNode
  <2>2. \A j \in 0 .. N - 1 : j \notin {top, child} => p[j] = n[j]
    BY <1>5, <1>6 DEF SameBut
  <2>. QED  BY <1>6, <2>1, <2>2 DEF IsArray
<1>9. /\ Tree(p, a, A) /\ NodeHeight(p, a) = hA
      /\ Tree(p, b, B) /\ NodeHeight(p, b) = hB
      /\ Tree(p, c, C) /\ NodeHeight(p, c) = hC
  BY <1>3, <1>6, Elsewhere DEF RightHeights
<1>10. /\ HasHeight(p, N, a, hA) /\ HasHeight(p, N, b, hB) /\ HasHeight(p, N, c, hC)
       /\ hA \in Nat /\ hB \in Nat /\ hC \in Nat
  BY <1>8, <1>9, TreeHeight, HeightType
<1>11. hA + 2 <= N /\ hB + 2 <= N /\ hC + 2 <= N
  <2>1. hA <= Cardinality(A) /\ hB <= Cardinality(B) /\ hC <= Cardinality(C)
    BY <1>8, <1>9, HeightBound
  <2>2. /\ Cardinality(A) + 2 <= N /\ Cardinality(A) \in Nat
        /\ Cardinality(B) + 2 <= N /\ Cardinality(B) \in Nat
        /\ Cardinality(C) + 2 <= N /\ Cardinality(C) \in Nat
    BY <1>3, <1>4, TwoLess
  <2>. QED  BY <1>10, <2>1, <2>2
<1>12. PICK hc, ht : hc = 1 + Higher(hA, hB) /\ ht = 1 + Higher(hc, hC)
  OBVIOUS
<1>13. hc \in Nat /\ ht \in Nat /\ hc <= N /\ ht <= N
  BY <1>10, <1>11, <1>12 DEF Higher
<1>14. CalcHeight(p)[top] = ht
  <2>1. HasHeight(p, N, child, hc)
    BY <1>3, <1>7, <1>8, <1>10, <1>12, HeightStep
  <2>2. HasHeight(p, N, top, ht)
    BY <1>3, <1>7, <1>8, <1>10, <1>12, <2>1, HeightStep
  <2>. QED  BY <1>8, <1>13, <2>2, Calculated
<1>15. PICK q : q = WithHeight(p, top)
  OBVIOUS
<1>16. /\ IsArray(q, N) /\ SameBut(p, q, {top}) /\ q[top].height = ht
       /\ \A j \in 0 .. N - 1 : /\ q[j].key = p[j].key /\ q[j].data = p[j].data
                               /\ q[j].left = p[j].left /\ q[j].right = p[j].right
  <2>1. q = SetHeight(p, top, ht)
    BY <1>14, <1>15 DEF WithHeight, SetHeight
  <2>2. HeightOnly(p, q, N, top, ht)
    BY <1>3, <1>8, <1>13, <2>1, HeightSet
  <2>. QED  BY <2>2 DEF HeightOnly
<1>17. /\ Tree(q, a, A) /\ NodeHeight(q, a) = hA
       /\ Tree(q, b, B) /\ NodeHeight(q, b) = hB
       /\ Tree(q, c, C) /\ NodeHeight(q, c) = hC
  <2>1. A \cap {top} = {} /\ B \cap {top} = {} /\ C \cap {top} = {}
    BY <1>3
  <2>. QED  BY <1>9, <1>16, <2>1, Elsewhere
<1>18. CalcHeight(q)[child] = hc
  <2>1. /\ HasHeight(q, N, a, hA) /\ HasHeight(q, N, b, hB)
    BY <1>16, <1>17, TreeHeight
  <2>2. q[child].left = a /\ q[child].right = b
    BY <1>3, <1>7, <1>16
  <2>3. HasHeight(q, N, child, hc)
    BY <1>3, <1>12, <1>16, <2>1, <2>2, HeightStep
  <2>. QED  BY <1>13, <1>16, <2>3, Calculated
<1>19. /\ IsArray(m, N) /\ SameBut(q, m, {child}) /\ m[child].height = hc
       /\ \A j \in 0 .. N - 1 : /\ m[j].key = q[j].key /\ m[j].data = q[j].data
                               /\ m[j].left = q[j].left /\ m[j].right = q[j].right
  <2>1. m = SetHeight(q, child, hc)
    BY <1>2, <1>15, <1>18 DEF WithHeight, SetHeight
  <2>2. IsArray(q, N)
    BY <1>16
  <2>3. HeightOnly(q, m, N, child, hc)
    BY <1>3, <1>13, <2>1, <2>2, HeightSet
  <2>. QED  BY <2>3 DEF HeightOnly
<1>20. /\ m[top].key = n[child].key /\ m[top].data = n[child].data /\ m[top].left = child
       /\ m[top].right = c /\ m[top].height = ht
       /\ m[child].key = n[top].key /\ m[child].data = n[top].data /\ m[child].left = a
       /\ m[child].right = b /\ m[child].height = hc
  <2>1. m[top].height = q[top].height
    BY <1>3, <1>16, <1>19 DEF SameBut, IsArray
  <2>. QED  BY <1>3, <1>7, <1>16, <1>19, <2>1
<1>21. SameBut(n, m, {top, child})
  BY <1>6, <1>16, <1>19 DEF SameBut
<1>22. /\ Tree(m, a, A) /\ NodeHeight(m, a) = hA
       /\ Tree(m, b, B) /\ NodeHeight(m, b) = hB
       /\ Tree(m, c, C) /\ NodeHeight(m, c) = hC
  BY <1>3, <1>21, Elsewhere DEF RightHeights
<1>23. Entries(m, {top, child}) = Entries(n, {top, child})
  <2>1. /\ Entries(m, {top, child}) = {<<m[top].key, m[top].data>>, <<m[child].key, m[child].data>>}
        /\ Entries(n, {top, child}) = {<<n[top].key, n[top].data>>, <<n[child].key, n[child].data>>}
    BY DEF Entries
  <2>. QED  BY <1>20, <2>1
<1>24. LeftLeaning(m, top, child, A, B, C)
  <2>1. /\ \A j \in A \cup B \cup C : m[j].key = n[j].key /\ n[j].key \in Int
        /\ n[top].key \in Int /\ n[child].key \in Int
    <3>1. \A j \in A \cup B \cup C : j \in 0 .. N - 1 /\ j \notin {top, child}
      BY <1>3, <1>4
    <3>. QED  BY <1>3, <1>5, <1>21, <3>1, ArrayNode DEF SameBut
  <2>2. /\ Above(n, {child} \cup B \cup C, n[top].key) /\ Below(n, A, n[top].key)
        /\ Below(n, B, n[child].key) /\ Above(n, C, n[child].key)
    BY DEF RightLeaning, Branch, Ordered
  <2>3. /\ \A j \in A : n[j].key < n[top].key
        /\ \A j \in B : n[j].key > n[top].key /\ n[j].key < n[child].key
        /\ \A j \in C : n[j].key > n[child].key
        /\ n[child].key > n[top].key
    BY <2>2 DEF Below, Above
  <2>4. Ordered(m, child, A, B)
    BY <1>20, <2>1, <2>3 DEF Ordered, Below, Above
  <2>5. Ordered(m, top, {child} \cup A \cup B, C)
    BY <1>20, <2>1, <2>3 DEF Ordered, Below, Above
  <2>6. Apart(child, A, B) /\ Apart(top, {child} \cup A \cup B, C)
    BY <1>3 DEF Apart
  <2>7. DOMAIN m = 0 .. N - 1
    BY <1>19 DEF IsArray
  <2>8. Branch(m, child, A, B)
    BY <1>3, <1>20, <1>22, <2>4, <2>6, <2>7 DEF Branch
  <2>. QED  BY <1>3, <1>20, <1>22, <2>5, <2>6, <2>7, <2>8 DEF LeftLeaning
<1>25. /\ LeftHeights(m, top, child, hA, hB, hC)
       /\ m[child].height = 1 + Higher(hA, hB)
       /\ m[top].height = 1 + Higher(1 + Higher(hA, hB), hC)
  BY <1>12, <1>20, <1>22 DEF LeftHeights
<1>. QED  BY <1>0, <1>10, <1>19, <1>21, <1>23, <1>24, <1>25 DEF TurnedLeft

\* What is known of the keys and data of some nodes.
LEMMA SameEntries ==
    ASSUME NEW n, NEW m, NEW S, NEW X \in SUBSET S, S \subseteq DOMAIN n, SameBut(n, m, X),
           Entries(m, X) = Entries(n, X)
    PROVE  Entries(m, S) = Entries(n, S)
<1>1. \A j \in S \ X : m[j] = n[j]
  BY DEF SameBut
<1>2. /\ Entries(m, S) = Entries(m, X) \cup Entries(m, S \ X)
      /\ Entries(n, S) = Entries(n, X) \cup Entries(n, S \ X)
  BY DEF Entries
<1>3. Entries(m, S \ X) = Entries(n, S \ X)
  BY <1>1 DEF Entries
<1>. QED  BY <1>2, <1>3

\* Whether keys are smaller or greater depends on the entries alone.
LEMMA KeyOrder ==
    ASSUME NEW n, NEW S, NEW m, NEW T, Entries(m, T) \subseteq Entries(n, S), NEW key
    PROVE  (Below(n, S, key) => Below(m, T, key)) /\ (Above(n, S, key) => Above(m, T, key))
<1>1. ASSUME NEW j \in T PROVE \E k \in S : m[j].key = n[k].key
  <2>1. <<m[j].key, m[j].data>> \in Entries(n, S)
    BY DEF Entries
  <2>2. PICK k \in S : <<m[j].key, m[j].data>> = <<n[k].key, n[k].data>>
    BY <2>1 DEF Entries
  <2>. QED  BY <2>2
<1>. QED  BY <1>1 DEF Below, Above

\* Between the nodes S of a tree with the root i nothing is lost or changed.
Rearranged(n, m, N, i, S, h) ==
    /\ IsArray(m, N) /\ SameBut(n, m, S) /\ Entries(m, S) = Entries(n, S)
    /\ Tree(m, i, S) /\ NodeHeight(m, i) = h

\* A rotation to the right, of which the result is balanced.
LEMMA SingleRight ==
    ASSUME NEW N \in Nat, NEW n, IsArray(n, N), NEW top, NEW child, NEW A, NEW B, NEW C,
           LeftLeaning(n, top, child, A, B, C),
           NEW hA, NEW hB, NEW hC,
           LeftHeights(n, top, child, hA, hB, hC),
           hB - hC \in -1 .. 1, hA - (1 + Higher(hB, hC)) \in -1 .. 1,
           NEW S, S = {top, child} \cup A \cup B \cup C
    PROVE  Rearranged(n, RotateRight(n, top), N, top, S, 1 + Higher(hA, 1 + Higher(hB, hC)))
<1>1. PICK m : m = RotateRight(n, top) /\ TurnedRight(n, m, N, top, child, A, B, C, hA, hB, hC)
  BY RotatedRight
<1>2. /\ IsArray(m, N) /\ SameBut(n, m, {top, child})
      /\ Entries(m, {top, child}) = Entries(n, {top, child})
      /\ RightLeaning(m, top, child, A, B, C)
      /\ hA \in Nat /\ hB \in Nat /\ hC \in Nat
      /\ hA = NodeHeight(m, m[top].left) /\ hB = NodeHeight(m, m[child].left)
      /\ hC = NodeHeight(m, m[child].right)
      /\ m[child].height = 1 + Higher(hB, hC)
      /\ m[top].height = 1 + Higher(hA, 1 + Higher(hB, hC))
  BY <1>1 DEF TurnedRight, RightHeights
<1>3. /\ m[top].right = child /\ top \in DOMAIN m /\ top # Null /\ child # Null
      /\ Branch(m, child, B, C) /\ Tree(m, m[top].left, A)
      /\ Apart(top, A, {child} \cup B \cup C)
      /\ Ordered(m, top, A, {child} \cup B \cup C)
  BY <1>2 DEF RightLeaning, Branch
<1>4. Fits(m, child)
  BY <1>2, <1>3 DEF Fits, Balance
<1>5. Tree(m, child, {child} \cup B \cup C)
  BY <1>3, <1>4, Join
<1>6. Branch(m, top, A, {child} \cup B \cup C)
  BY <1>3, <1>5 DEF Branch
<1>7. Fits(m, top)
  <2>1. NodeHeight(m, m[top].right) = 1 + Higher(hB, hC)
    BY <1>2, <1>3 DEF NodeHeight
  <2>. QED  BY <1>2, <1>3, <2>1 DEF Fits, Balance
<1>8. Tree(m, top, S)
  <2>1. Tree(m, top, {top} \cup A \cup ({child} \cup B \cup C))
    BY <1>6, <1>7, Join
  <2>2. {top} \cup A \cup ({child} \cup B \cup C) = S
    OBVIOUS
  <2>. QED  BY <2>1, <2>2
<1>9. SameBut(n, m, S) /\ {top, child} \in SUBSET S /\ S \subseteq DOMAIN n
  BY <1>2, <1>8 DEF SameBut, Tree
<1>10. Entries(m, S) = Entries(n, S)
  BY <1>2, <1>9, SameEntries
<1>11. NodeHeight(m, top) = 1 + Higher(hA, 1 + Higher(hB, hC))
  BY <1>2, <1>3 DEF NodeHeight
<1>. QED  BY <1>1, <1>2, <1>8, <1>9, <1>10, <1>11 DEF Rearranged

\* A rotation to the left.
LEMMA SingleLeft ==
    ASSUME NEW N \in Nat, NEW n, IsArray(n, N), NEW top, NEW child, NEW A, NEW B, NEW C,
           RightLeaning(n, top, child, A, B, C),
           NEW hA, NEW hB, NEW hC,
           RightHeights(n, top, child, hA, hB, hC),
           hA - hB \in -1 .. 1, (1 + Higher(hA, hB)) - hC \in -1 .. 1,
           NEW S, S = {top, child} \cup A \cup B \cup C
    PROVE  Rearranged(n, RotateLeft(n, top), N, top, S, 1 + Higher(1 + Higher(hA, hB), hC))
<1>1. PICK m : m = RotateLeft(n, top) /\ TurnedLeft(n, m, N, top, child, A, B, C, hA, hB, hC)
  BY RotatedLeft
<1>2. /\ IsArray(m, N) /\ SameBut(n, m, {top, child})
      /\ Entries(m, {top, child}) = Entries(n, {top, child})
      /\ LeftLeaning(m, top, child, A, B, C)
      /\ hA \in Nat /\ hB \in Nat /\ hC \in Nat
      /\ hA = NodeHeight(m, m[child].left) /\ hB = NodeHeight(m, m[child].right)
      /\ hC = NodeHeight(m, m[top].right)
      /\ m[child].height = 1 + Higher(hA, hB)
      /\ m[top].height = 1 + Higher(1 + Higher(hA, hB), hC)
  BY <1>1 DEF TurnedLeft, LeftHeights
<1>3. /\ m[top].left = child /\ top \in DOMAIN m /\ top # Null /\ child # Null
      /\ Branch(m, child, A, B) /\ Tree(m, m[top].right, C)
      /\ Apart(top, {child} \cup A \cup B, C)
      /\ Ordered(m, top, {child} \cup A \cup B, C)
  BY <1>2 DEF LeftLeaning, Branch
<1>4. Fits(m, child)
  BY <1>2, <1>3 DEF Fits, Balance
<1>5. Tree(m, child, {child} \cup A \cup B)
  BY <1>3, <1>4, Join
<1>6. Branch(m, top, {child} \cup A \cup B, C)
  BY <1>3, <1>5 DEF Branch
<1>7. Fits(m, top)
  <2>1. NodeHeight(m, m[top].left) = 1 + Higher(hA, hB)
    BY <1>2, <1>3 DEF NodeHeight
  <2>. QED  BY <1>2, <1>3, <2>1 DEF Fits, Balance
<1>8. Tree(m, top, S)
  <2>1. Tree(m, top, {top} \cup ({child} \cup A \cup B) \cup C)
    BY <1>6, <1>7, Join
  <2>2. {top} \cup ({child} \cup A \cup B) \cup C = S
    OBVIOUS
  <2>. QED  BY <2>1, <2>2
<1>9. SameBut(n, m, S) /\ {top, child} \in SUBSET S /\ S \subseteq DOMAIN n
  BY <1>2, <1>8 DEF SameBut, Tree
<1>10. Entries(m, S) = Entries(n, S)
  BY <1>2, <1>9, SameEntries
<1>11. NodeHeight(m, top) = 1 + Higher(1 + Higher(hA, hB), hC)
  BY <1>2, <1>3 DEF NodeHeight
<1>. QED  BY <1>1, <1>2, <1>8, <1>9, <1>10, <1>11 DEF Rearranged

\* The heights of the four trees in a double rotation, and that what comes out is balanced.
FourHeights(n, a, x, d, hA, hB, hC, hD) ==
    /\ hA = NodeHeight(n, a) /\ hB = NodeHeight(n, n[x].left)
    /\ hC = NodeHeight(n, n[x].right) /\ hD = NodeHeight(n, d)

Level(hA, hB, hC, hD) ==
    /\ hA - hB \in -1 .. 1 /\ hC - hD \in -1 .. 1
    /\ (1 + Higher(hA, hB)) - (1 + Higher(hC, hD)) \in -1 .. 1

\* The inner grandchild comes to the top: first it takes the place of the left child.
ReadyRight(n, N, top, l, x, A, B, C, D, X, hA, hB, hC, hD, S) ==
    /\ IsArray(n, N) /\ X = {x} \cup B \cup C /\ S = {top, l} \cup A \cup X \cup D
    /\ LeftLeaning(n, top, l, A, X, D) /\ n[l].right = x /\ Branch(n, x, B, C)
    /\ FourHeights(n, n[l].left, x, n[top].right, hA, hB, hC, hD) /\ Level(hA, hB, hC, hD)

\* Then it takes that of the top.
LEMMA DoubleRight ==
    ASSUME NEW N \in Nat, NEW n, NEW top, NEW l, NEW x, NEW A, NEW B, NEW C, NEW D, NEW X,
           NEW hA, NEW hB, NEW hC, NEW hD, NEW S,
           ReadyRight(n, N, top, l, x, A, B, C, D, X, hA, hB, hC, hD, S)
    PROVE  Rearranged(n, RotateRight(RotateLeft(n, l), top), N, top, S,
                      1 + Higher(1 + Higher(hA, hB), 1 + Higher(hC, hD)))
<1>00. /\ IsArray(n, N) /\ X = {x} \cup B \cup C /\ S = {top, l} \cup A \cup X \cup D
      /\ LeftLeaning(n, top, l, A, X, D) /\ n[l].right = x /\ Branch(n, x, B, C)
      /\ FourHeights(n, n[l].left, x, n[top].right, hA, hB, hC, hD) /\ Level(hA, hB, hC, hD)
  BY DEF ReadyRight
<1>0. /\ hA = NodeHeight(n, n[l].left) /\ hB = NodeHeight(n, n[x].left)
      /\ hC = NodeHeight(n, n[x].right) /\ hD = NodeHeight(n, n[top].right)
      /\ hA - hB \in -1 .. 1 /\ hC - hD \in -1 .. 1
      /\ (1 + Higher(hA, hB)) - (1 + Higher(hC, hD)) \in -1 .. 1
  BY <1>00 DEF FourHeights, Level
<1>1. PICK m : m = RotateLeft(n, l)
  BY <1>00
<1>2. /\ n[top].left = l /\ top \in DOMAIN n /\ top # Null /\ l \in DOMAIN n /\ l # Null
      /\ Tree(n, n[top].right, D) /\ Tree(n, n[l].left, A)
      /\ Apart(top, {l} \cup A \cup X, D) /\ Apart(l, A, X)
      /\ Ordered(n, top, {l} \cup A \cup X, D) /\ Ordered(n, l, A, X)
  BY <1>00 DEF LeftLeaning, Branch
<1>3. RightLeaning(n, l, x, A, B, C)
  BY <1>00, <1>2 DEF RightLeaning
<1>4. /\ IsArray(m, N) /\ SameBut(n, m, {l, x})
      /\ Entries(m, {l, x}) = Entries(n, {l, x})
      /\ LeftLeaning(m, l, x, A, B, C)
      /\ hA \in Nat /\ hB \in Nat /\ hC \in Nat
      /\ hA = NodeHeight(m, m[x].left) /\ hB = NodeHeight(m, m[x].right)
      /\ hC = NodeHeight(m, m[l].right)
      /\ m[x].height = 1 + Higher(hA, hB)
  <2>1. RightHeights(n, l, x, hA, hB, hC)
    BY <1>00, <1>0 DEF RightHeights
  <2>2. TurnedLeft(n, m, N, l, x, A, B, C, hA, hB, hC)
    BY <1>00, <1>1, <1>3, <2>1, RotatedLeft
  <2>. QED  BY <1>00, <2>2 DEF TurnedLeft, LeftHeights
<1>5. /\ m[l].left = x /\ Branch(m, x, A, B) /\ Tree(m, m[l].right, C)
      /\ Apart(l, {x} \cup A \cup B, C) /\ Ordered(m, l, {x} \cup A \cup B, C)
      /\ l \in DOMAIN m
  BY <1>00, <1>4 DEF LeftLeaning
<1>6. x \in DOMAIN n /\ x # Null /\ x \in X
  BY <1>00 DEF Branch
<1>7. PICK E : E = {x} \cup A \cup B
  BY <1>00
<1>8. Tree(m, x, E)
  <2>1. Fits(m, x)
    BY <1>00, <1>0, <1>4, <1>6 DEF Fits, Balance
  <2>. QED  BY <1>00, <1>5, <1>7, <2>1, Join
<1>9. Branch(m, l, E, C)
  BY <1>00, <1>2, <1>5, <1>7, <1>8 DEF Branch
<1>10. {l} \cup E \cup C = {l} \cup A \cup X
  BY <1>00, <1>7
<1>11. /\ top \notin {l, x} /\ D \cap {l, x} = {}
       /\ top \notin {l} \cup E \cup C /\ top \notin D /\ ({l} \cup E \cup C) \cap D = {}
  BY <1>00, <1>2, <1>6, <1>10 DEF Apart
<1>12. Tree(m, n[top].right, D) /\ NodeHeight(m, n[top].right) = hD
  BY <1>00, <1>0, <1>2, <1>4, <1>11, Elsewhere
<1>13. m[top] = n[top] /\ DOMAIN m = DOMAIN n /\ \A j \in D : m[j] = n[j]
  <2>1. D \subseteq DOMAIN n
    BY <1>00, <1>2 DEF Tree
  <2>. QED  BY <1>00, <1>2, <1>4, <1>11, <2>1 DEF SameBut
<1>14. Ordered(m, top, {l} \cup E \cup C, D)
  <2>1. {l} \cup A \cup X \subseteq DOMAIN n
    BY <1>00, <1>2, <1>6 DEF Tree, Branch
  <2>2. {l, x} \in SUBSET ({l} \cup A \cup X)
    BY <1>00, <1>6
  <2>3. Entries(m, {l} \cup A \cup X) = Entries(n, {l} \cup A \cup X)
    BY <1>00, <1>4, <2>1, <2>2, SameEntries
  <2>4. Below(m, {l} \cup A \cup X, n[top].key)
    BY <1>00, <1>2, <2>3, KeyOrder DEF Ordered
  <2>5. Above(m, D, n[top].key)
    BY <1>00, <1>2, <1>13 DEF Ordered, Above
  <2>. QED  BY <1>00, <1>10, <1>13, <2>4, <2>5 DEF Ordered
<1>15. LeftLeaning(m, top, l, E, C, D)
  BY <1>00, <1>2, <1>9, <1>11, <1>12, <1>13, <1>14 DEF LeftLeaning, Apart
<1>16. PICK hE : hE = 1 + Higher(hA, hB)
  BY <1>00
<1>17. LeftHeights(m, top, l, hE, hC, hD)
  BY <1>00, <1>0, <1>4, <1>5, <1>6, <1>12, <1>13, <1>16 DEF NodeHeight, LeftHeights
<1>18. S = {top, l} \cup E \cup C \cup D
  BY <1>00, <1>7
<1>19. Rearranged(m, RotateRight(m, top), N, top, S, 1 + Higher(hE, 1 + Higher(hC, hD)))
  <2>1. hC - hD \in -1 .. 1 /\ hE - (1 + Higher(hC, hD)) \in -1 .. 1
    BY <1>00, <1>0, <1>16
  <2>2. IsArray(m, N)
    BY <1>00, <1>4
  <2>. QED  BY <1>00, <1>15, <1>17, <1>18, <2>1, <2>2, SingleRight
<1>20. PICK p : p = RotateRight(m, top)
  BY <1>00
<1>21. SameBut(n, p, S) /\ Entries(m, S) = Entries(n, S)
  <2>1. SameBut(m, p, S) /\ Tree(p, top, S)
    BY <1>00, <1>19, <1>20 DEF Rearranged
  <2>2. S \subseteq DOMAIN n
    BY <1>00, <1>13, <2>1 DEF SameBut, Tree
  <2>3. {l, x} \in SUBSET S
    BY <1>00, <1>6
  <2>4. Entries(m, S) = Entries(n, S)
    BY <1>00, <1>4, <2>2, <2>3, SameEntries
  <2>. QED  BY <1>00, <1>4, <2>1, <2>3, <2>4 DEF SameBut
<1>. QED  BY <1>00, <1>1, <1>16, <1>19, <1>20, <1>21 DEF Rearranged

\* The same with the left child of the right child.
ReadyLeft(n, N, top, r, x, A, B, C, D, X, hA, hB, hC, hD, S) ==
    /\ IsArray(n, N) /\ X = {x} \cup B \cup C /\ S = {top, r} \cup A \cup X \cup D
    /\ RightLeaning(n, top, r, A, X, D) /\ n[r].left = x /\ Branch(n, x, B, C)
    /\ FourHeights(n, n[top].left, x, n[r].right, hA, hB, hC, hD) /\ Level(hA, hB, hC, hD)

\* Then it takes that of the top.
LEMMA DoubleLeft ==
    ASSUME NEW N \in Nat, NEW n, NEW top, NEW r, NEW x, NEW A, NEW B, NEW C, NEW D, NEW X,
           NEW hA, NEW hB, NEW hC, NEW hD, NEW S,
           ReadyLeft(n, N, top, r, x, A, B, C, D, X, hA, hB, hC, hD, S)
    PROVE  Rearranged(n, RotateLeft(RotateRight(n, r), top), N, top, S,
                      1 + Higher(1 + Higher(hA, hB), 1 + Higher(hC, hD)))
<1>00. /\ IsArray(n, N) /\ X = {x} \cup B \cup C /\ S = {top, r} \cup A \cup X \cup D
      /\ RightLeaning(n, top, r, A, X, D) /\ n[r].left = x /\ Branch(n, x, B, C)
      /\ FourHeights(n, n[top].left, x, n[r].right, hA, hB, hC, hD) /\ Level(hA, hB, hC, hD)
  BY DEF ReadyLeft
<1>0. /\ hA = NodeHeight(n, n[top].left) /\ hB = NodeHeight(n, n[x].left)
      /\ hC = NodeHeight(n, n[x].right) /\ hD = NodeHeight(n, n[r].right)
      /\ hA - hB \in -1 .. 1 /\ hC - hD \in -1 .. 1
      /\ (1 + Higher(hA, hB)) - (1 + Higher(hC, hD)) \in -1 .. 1
  BY <1>00 DEF FourHeights, Level
<1>1. PICK m : m = RotateRight(n, r)
  BY <1>00
<1>2. /\ n[top].right = r /\ top \in DOMAIN n /\ top # Null /\ r \in DOMAIN n /\ r # Null
      /\ Tree(n, n[top].left, A) /\ Tree(n, n[r].right, D)
      /\ Apart(top, A, {r} \cup X \cup D) /\ Apart(r, X, D)
      /\ Ordered(n, top, A, {r} \cup X \cup D) /\ Ordered(n, r, X, D)
  BY <1>00 DEF RightLeaning, Branch
<1>3. LeftLeaning(n, r, x, B, C, D)
  BY <1>00, <1>2 DEF LeftLeaning
<1>4. /\ IsArray(m, N) /\ SameBut(n, m, {r, x})
      /\ Entries(m, {r, x}) = Entries(n, {r, x})
      /\ RightLeaning(m, r, x, B, C, D)
      /\ hB \in Nat /\ hC \in Nat /\ hD \in Nat
      /\ hB = NodeHeight(m, m[r].left) /\ hC = NodeHeight(m, m[x].left)
      /\ hD = NodeHeight(m, m[x].right)
      /\ m[x].height = 1 + Higher(hC, hD)
  <2>1. LeftHeights(n, r, x, hB, hC, hD)
    BY <1>00, <1>0 DEF LeftHeights
  <2>2. TurnedRight(n, m, N, r, x, B, C, D, hB, hC, hD)
    BY <1>00, <1>1, <1>3, <2>1, RotatedRight
  <2>. QED  BY <1>00, <2>2 DEF TurnedRight, RightHeights
<1>5. /\ m[r].right = x /\ Branch(m, x, C, D) /\ Tree(m, m[r].left, B)
      /\ Apart(r, B, {x} \cup C \cup D) /\ Ordered(m, r, B, {x} \cup C \cup D)
      /\ r \in DOMAIN m
  BY <1>00, <1>4 DEF RightLeaning
<1>6. x \in DOMAIN n /\ x # Null /\ x \in X
  BY <1>00 DEF Branch
<1>7. PICK E : E = {x} \cup C \cup D
  BY <1>00
<1>8. Tree(m, x, E)
  <2>1. Fits(m, x)
    BY <1>00, <1>0, <1>4, <1>6 DEF Fits, Balance
  <2>. QED  BY <1>00, <1>5, <1>7, <2>1, Join
<1>9. Branch(m, r, B, E)
  BY <1>00, <1>2, <1>5, <1>7, <1>8 DEF Branch
<1>10. {r} \cup B \cup E = {r} \cup X \cup D
  BY <1>00, <1>7
<1>11. /\ top \notin {r, x} /\ A \cap {r, x} = {}
       /\ top \notin {r} \cup B \cup E /\ top \notin A /\ A \cap ({r} \cup B \cup E) = {}
  BY <1>00, <1>2, <1>6, <1>10 DEF Apart
<1>12. Tree(m, n[top].left, A) /\ NodeHeight(m, n[top].left) = hA
  BY <1>00, <1>0, <1>2, <1>4, <1>11, Elsewhere
<1>13. m[top] = n[top] /\ DOMAIN m = DOMAIN n /\ \A j \in A : m[j] = n[j]
  <2>1. A \subseteq DOMAIN n
    BY <1>00, <1>2 DEF Tree
  <2>. QED  BY <1>00, <1>2, <1>4, <1>11, <2>1 DEF SameBut
<1>14. Ordered(m, top, A, {r} \cup B \cup E)
  <2>1. {r} \cup X \cup D \subseteq DOMAIN n
    BY <1>00, <1>2, <1>6 DEF Tree, Branch
  <2>2. {r, x} \in SUBSET ({r} \cup X \cup D)
    BY <1>00, <1>6
  <2>3. Entries(m, {r} \cup X \cup D) = Entries(n, {r} \cup X \cup D)
    BY <1>00, <1>4, <2>1, <2>2, SameEntries
  <2>4. Above(m, {r} \cup X \cup D, n[top].key)
    BY <1>00, <1>2, <2>3, KeyOrder DEF Ordered
  <2>5. Below(m, A, n[top].key)
    BY <1>00, <1>2, <1>13 DEF Ordered, Below
  <2>. QED  BY <1>00, <1>10, <1>13, <2>4, <2>5 DEF Ordered
<1>15. RightLeaning(m, top, r, A, B, E)
  BY <1>00, <1>2, <1>9, <1>11, <1>12, <1>13, <1>14 DEF RightLeaning, Apart
<1>16. PICK hE : hE = 1 + Higher(hC, hD)
  BY <1>00
<1>17. RightHeights(m, top, r, hA, hB, hE)
  BY <1>00, <1>0, <1>4, <1>5, <1>6, <1>12, <1>13, <1>16 DEF NodeHeight, RightHeights
<1>18. S = {top, r} \cup A \cup B \cup E
  BY <1>00, <1>7
<1>19. Rearranged(m, RotateLeft(m, top), N, top, S, 1 + Higher(1 + Higher(hA, hB), hE))
  <2>1. hA - hB \in -1 .. 1 /\ (1 + Higher(hA, hB)) - hE \in -1 .. 1
    BY <1>00, <1>0, <1>16
  <2>2. IsArray(m, N)
    BY <1>00, <1>4
  <2>. QED  BY <1>00, <1>15, <1>17, <1>18, <2>1, <2>2, SingleLeft
<1>20. PICK p : p = RotateLeft(m, top)
  BY <1>00
<1>21. SameBut(n, p, S) /\ Entries(m, S) = Entries(n, S)
  <2>1. SameBut(m, p, S) /\ Tree(p, top, S)
    BY <1>00, <1>19, <1>20 DEF Rearranged
  <2>2. S \subseteq DOMAIN n
    BY <1>00, <1>13, <2>1 DEF SameBut, Tree
  <2>3. {r, x} \in SUBSET S
    BY <1>00, <1>6
  <2>4. Entries(m, S) = Entries(n, S)
    BY <1>00, <1>4, <2>2, <2>3, SameEntries
  <2>. QED  BY <1>00, <1>4, <2>1, <2>3, <2>4 DEF SameBut
<1>. QED  BY <1>00, <1>1, <1>16, <1>19, <1>20, <1>21 DEF Rearranged

\* A node of which the left subtree is too high is put right by one rotation, or by two.
LEMMA HeavyLeft ==
    ASSUME NEW N \in Nat, NEW n, IsArray(n, N), NEW i, NEW L, NEW R, Branch(n, i, L, R),
           NEW l, l = n[i].left, NEW hl, hl = NodeHeight(n, l),
           NEW hr, hr = NodeHeight(n, n[i].right), hl = hr + 2,
           NEW S, S = {i} \cup L \cup R
    PROVE  /\ hl \in Nat /\ hr \in Nat /\ l # Null /\ Balance(n, l) \in -1 .. 1
           /\ Balance(n, l) >= 0 =>
                  Rearranged(n, RotateRight(n, i), N, i, S, IF Balance(n, l) = 0 THEN hl + 1 ELSE hl)
           /\ Balance(n, l) < 0 =>
                  Rearranged(n, RotateRight(RotateLeft(n, l), i), N, i, S, hl)
<1>1. /\ i \in DOMAIN n /\ i # Null /\ Apart(i, L, R) /\ Tree(n, l, L) /\ Tree(n, n[i].right, R)
      /\ Ordered(n, i, L, R)
  BY DEF Branch
<1>2. hl \in Nat /\ hr \in Nat /\ l # Null
  <2>1. NodeHeight(n, l) \in Nat /\ (l = Null <=> NodeHeight(n, l) = 0)
    BY <1>1, HeightType
  <2>2. NodeHeight(n, n[i].right) \in Nat
    BY <1>1, HeightType
  <2>. QED  BY <2>1, <2>2
<1>3. PICK A, B \in SUBSET L, hA, hB \in Nat : Divided(n, N, l, L, A, B, hA, hB)
  BY <1>1, <1>2, Parts
<1>3a. /\ Branch(n, l, A, B) /\ L = {l} \cup A \cup B /\ l \in 0 .. N - 1
      /\ hA = NodeHeight(n, n[l].left) /\ hB = NodeHeight(n, n[l].right)
      /\ NodeHeight(n, l) = 1 + Higher(hA, hB) /\ hA - hB \in -1 .. 1
  BY <1>3 DEF Divided
<1>4. Balance(n, l) = hA - hB /\ hl = 1 + Higher(hA, hB)
  BY <1>2, <1>3, <1>3a DEF Balance
<1>5. LeftLeaning(n, i, l, A, B, R)
  BY <1>1, <1>3, <1>3a DEF LeftLeaning
<1>6. ASSUME Balance(n, l) >= 0
      PROVE  Rearranged(n, RotateRight(n, i), N, i, S, IF Balance(n, l) = 0 THEN hl + 1 ELSE hl)
  <2>1. LeftHeights(n, i, l, hA, hB, hr)
    BY <1>3, <1>3a DEF LeftHeights
  <2>2. hB - hr \in -1 .. 1 /\ hA - (1 + Higher(hB, hr)) \in -1 .. 1
    BY <1>2, <1>3, <1>3a, <1>4, <1>6 DEF Higher
  <2>3. S = {i, l} \cup A \cup B \cup R
    BY <1>3, <1>3a
  <2>4. Rearranged(n, RotateRight(n, i), N, i, S, 1 + Higher(hA, 1 + Higher(hB, hr)))
    BY <1>5, <2>1, <2>2, <2>3, SingleRight
  <2>5. 1 + Higher(hA, 1 + Higher(hB, hr)) = IF Balance(n, l) = 0 THEN hl + 1 ELSE hl
    BY <1>2, <1>3, <1>3a, <1>4, <1>6 DEF Higher
  <2>. QED  BY <2>4, <2>5
<1>7. ASSUME Balance(n, l) < 0
      PROVE  Rearranged(n, RotateRight(RotateLeft(n, l), i), N, i, S, hl)
  <2>1. PICK x : x = n[l].right
    OBVIOUS
  <2>2. hB = hA + 1 /\ Tree(n, x, B) /\ hB = NodeHeight(n, x)
    BY <1>3, <1>3a, <1>4, <1>7, <2>1 DEF Branch
  <2>3. x # Null
    BY <1>3, <1>3a, <2>2, HeightType
  <2>4. PICK B1, B2 \in SUBSET B, h1, h2 \in Nat : Divided(n, N, x, B, B1, B2, h1, h2)
    BY <2>2, <2>3, Parts
  <2>4a. /\ Branch(n, x, B1, B2) /\ B = {x} \cup B1 \cup B2 /\ x \in 0 .. N - 1
        /\ h1 = NodeHeight(n, n[x].left) /\ h2 = NodeHeight(n, n[x].right)
        /\ NodeHeight(n, x) = 1 + Higher(h1, h2) /\ h1 - h2 \in -1 .. 1
    BY <2>4 DEF Divided
  <2>5. /\ hA - h1 \in -1 .. 1 /\ h2 - hr \in -1 .. 1
        /\ (1 + Higher(hA, h1)) - (1 + Higher(h2, hr)) \in -1 .. 1
        /\ 1 + Higher(1 + Higher(hA, h1), 1 + Higher(h2, hr)) = hl
    BY <1>2, <1>3, <1>3a, <1>4, <2>2, <2>4, <2>4a DEF Higher
  <2>6. S = {i, l} \cup A \cup B \cup R
    BY <1>3, <1>3a
  <2>7. Rearranged(n, RotateRight(RotateLeft(n, l), i), N, i, S,
                   1 + Higher(1 + Higher(hA, h1), 1 + Higher(h2, hr)))
    <3>1. FourHeights(n, n[l].left, x, n[i].right, hA, h1, h2, hr) /\ Level(hA, h1, h2, hr)
      BY <1>3a, <2>4a, <2>5 DEF FourHeights, Level
    <3>2. n[l].right = x /\ Branch(n, x, B1, B2) /\ B = {x} \cup B1 \cup B2
      BY <2>1, <2>4a
    <3>3. ReadyRight(n, N, i, l, x, A, B1, B2, R, B, hA, h1, h2, hr, S)
      BY <1>5, <2>6, <3>1, <3>2 DEF ReadyRight
    <3>. QED  BY <3>3, DoubleRight
  <2>. QED  BY <2>5, <2>7
<1>. QED  BY <1>2, <1>3, <1>3a, <1>4, <1>6, <1>7

\* The right subtree is too high.
LEMMA HeavyRight ==
    ASSUME NEW N \in Nat, NEW n, IsArray(n, N), NEW i, NEW L, NEW R, Branch(n, i, L, R),
           NEW r, r = n[i].right, NEW hl, hl = NodeHeight(n, n[i].left),
           NEW hr, hr = NodeHeight(n, r), hr = hl + 2,
           NEW S, S = {i} \cup L \cup R
    PROVE  /\ hl \in Nat /\ hr \in Nat /\ r # Null /\ Balance(n, r) \in -1 .. 1
           /\ Balance(n, r) <= 0 =>
                  Rearranged(n, RotateLeft(n, i), N, i, S, IF Balance(n, r) = 0 THEN hr + 1 ELSE hr)
           /\ Balance(n, r) > 0 =>
                  Rearranged(n, RotateLeft(RotateRight(n, r), i), N, i, S, hr)
<1>1. /\ i \in DOMAIN n /\ i # Null /\ Apart(i, L, R) /\ Tree(n, n[i].left, L) /\ Tree(n, r, R)
      /\ Ordered(n, i, L, R)
  BY DEF Branch
<1>2. hl \in Nat /\ hr \in Nat /\ r # Null
  <2>1. NodeHeight(n, r) \in Nat /\ (r = Null <=> NodeHeight(n, r) = 0)
    BY <1>1, HeightType
  <2>2. NodeHeight(n, n[i].left) \in Nat
    BY <1>1, HeightType
  <2>. QED  BY <2>1, <2>2
<1>3. PICK B, C \in SUBSET R, hB, hC \in Nat : Divided(n, N, r, R, B, C, hB, hC)
  BY <1>1, <1>2, Parts
<1>3a. /\ Branch(n, r, B, C) /\ R = {r} \cup B \cup C /\ r \in 0 .. N - 1
      /\ hB = NodeHeight(n, n[r].left) /\ hC = NodeHeight(n, n[r].right)
      /\ NodeHeight(n, r) = 1 + Higher(hB, hC) /\ hB - hC \in -1 .. 1
  BY <1>3 DEF Divided
<1>4. Balance(n, r) = hB - hC /\ hr = 1 + Higher(hB, hC)
  BY <1>2, <1>3, <1>3a DEF Balance
<1>5. RightLeaning(n, i, r, L, B, C)
  BY <1>1, <1>3, <1>3a DEF RightLeaning
<1>6. ASSUME Balance(n, r) <= 0
      PROVE  Rearranged(n, RotateLeft(n, i), N, i, S, IF Balance(n, r) = 0 THEN hr + 1 ELSE hr)
  <2>1. RightHeights(n, i, r, hl, hB, hC)
    BY <1>3, <1>3a DEF RightHeights
  <2>2. hl - hB \in -1 .. 1 /\ (1 + Higher(hl, hB)) - hC \in -1 .. 1
    BY <1>2, <1>3, <1>3a, <1>4, <1>6 DEF Higher
  <2>3. S = {i, r} \cup L \cup B \cup C
    BY <1>3, <1>3a
  <2>4. Rearranged(n, RotateLeft(n, i), N, i, S, 1 + Higher(1 + Higher(hl, hB), hC))
    BY <1>5, <2>1, <2>2, <2>3, SingleLeft
  <2>5. 1 + Higher(1 + Higher(hl, hB), hC) = IF Balance(n, r) = 0 THEN hr + 1 ELSE hr
    BY <1>2, <1>3, <1>3a, <1>4, <1>6 DEF Higher
  <2>. QED  BY <2>4, <2>5
<1>7. ASSUME Balance(n, r) > 0
      PROVE  Rearranged(n, RotateLeft(RotateRight(n, r), i), N, i, S, hr)
  <2>1. PICK x : x = n[r].left
    OBVIOUS
  <2>2. hB = hC + 1 /\ Tree(n, x, B) /\ hB = NodeHeight(n, x)
    BY <1>3, <1>3a, <1>4, <1>7, <2>1 DEF Branch
  <2>3. x # Null
    BY <1>3, <1>3a, <2>2, HeightType
  <2>4. PICK B1, B2 \in SUBSET B, h1, h2 \in Nat : Divided(n, N, x, B, B1, B2, h1, h2)
    BY <2>2, <2>3, Parts
  <2>4a. /\ Branch(n, x, B1, B2) /\ B = {x} \cup B1 \cup B2 /\ x \in 0 .. N - 1
        /\ h1 = NodeHeight(n, n[x].left) /\ h2 = NodeHeight(n, n[x].right)
        /\ NodeHeight(n, x) = 1 + Higher(h1, h2) /\ h1 - h2 \in -1 .. 1
    BY <2>4 DEF Divided
  <2>5. /\ hl - h1 \in -1 .. 1 /\ h2 - hC \in -1 .. 1
        /\ (1 + Higher(hl, h1)) - (1 + Higher(h2, hC)) \in -1 .. 1
        /\ 1 + Higher(1 + Higher(hl, h1), 1 + Higher(h2, hC)) = hr
    <3>1. hB = 1 + Higher(h1, h2)
      BY <2>2, <2>4a
    <3>2. hB = hC + 1 /\ hr = 1 + hB /\ hr = hl + 2
      BY <1>3, <1>4, <2>2 DEF Higher
    <3>3. hl \in Nat /\ hC \in Nat /\ h1 \in Nat /\ h2 \in Nat /\ h1 - h2 \in -1 .. 1
      BY <1>2, <1>3, <2>4, <2>4a
    <3>. QED  BY <3>1, <3>2, <3>3, SMTT(30) DEF Higher
  <2>6. S = {i, r} \cup L \cup B \cup C
    BY <1>3, <1>3a
  <2>7. Rearranged(n, RotateLeft(RotateRight(n, r), i), N, i, S,
                   1 + Higher(1 + Higher(hl, h1), 1 + Higher(h2, hC)))
    <3>1. FourHeights(n, n[i].left, x, n[r].right, hl, h1, h2, hC) /\ Level(hl, h1, h2, hC)
      BY <1>3a, <2>4a, <2>5 DEF FourHeights, Level
    <3>2. n[r].left = x /\ Branch(n, x, B1, B2) /\ B = {x} \cup B1 \cup B2
      BY <2>1, <2>4a
    <3>3. ReadyLeft(n, N, i, r, x, L, B1, B2, C, B, hl, h1, h2, hC, S)
      BY <1>5, <2>6, <3>1, <3>2 DEF ReadyLeft
    <3>. QED  BY <3>3, DoubleLeft
  <2>. QED  BY <2>5, <2>7
<1>. QED  BY <1>2, <1>3, <1>3a, <1>4, <1>6, <1>7

(***************************************************************************)
(* Rebalancing a node above two trees, whose heights differ by two at most.*)
(***************************************************************************)
\* The height of the node is brought up to date.
Updated(n, m, N, i, L, R, hl, hr) ==
    /\ IsArray(m, N) /\ SameBut(n, m, {i}) /\ Branch(m, i, L, R)
    /\ m[i].key = n[i].key /\ m[i].left = n[i].left /\ m[i].right = n[i].right
    /\ hl \in Nat /\ hr \in Nat
    /\ NodeHeight(m, n[i].left) = hl /\ NodeHeight(m, n[i].right) = hr
    /\ Balance(m, i) = hl - hr /\ i # Null
    /\ hl - hr \in -1 .. 1 => Rearranged(n, m, N, i, {i} \cup L \cup R, 1 + Higher(hl, hr))
    /\ Entries(m, {i} \cup L \cup R) = Entries(n, {i} \cup L \cup R)

\* It changes nothing else.
LEMMA HeightUpdated ==
    ASSUME NEW N \in Nat, NEW n, IsArray(n, N), NEW i, NEW L, NEW R, Branch(n, i, L, R),
           NEW hl, hl = NodeHeight(n, n[i].left), NEW hr, hr = NodeHeight(n, n[i].right)
    PROVE  Updated(n, UpdateHeight(n, i), N, i, L, R, hl, hr)
<1>1. PICK m, h : m = UpdateHeight(n, i) /\ h = 1 + Higher(hl, hr)
  OBVIOUS
<1>2. /\ i \in DOMAIN n /\ i # Null /\ Apart(i, L, R)
      /\ Tree(n, n[i].left, L) /\ Tree(n, n[i].right, R)
      /\ Ordered(n, i, L, R)
  BY DEF Branch
<1>3. hl \in Nat /\ hr \in Nat /\ h \in Nat /\ i \in 0 .. N - 1
  <2>1. hl \in Nat /\ hr \in Nat
    BY <1>2, HeightType
  <2>. QED  BY <1>1, <1>2, <2>1 DEF Higher, IsArray
<1>4. HeightOnly(n, m, N, i, h)
  <2>1. m = SetHeight(n, i, h)
    BY <1>1 DEF UpdateHeight, SetHeight
  <2>. QED  BY <1>3, <2>1, HeightSet
<1>5. /\ IsArray(m, N) /\ SameBut(n, m, {i}) /\ m[i].height = h
      /\ m[i].key = n[i].key /\ m[i].data = n[i].data /\ m[i].left = n[i].left /\ m[i].right = n[i].right
  BY <1>3, <1>4 DEF HeightOnly
<1>6. /\ Tree(m, n[i].left, L) /\ NodeHeight(m, n[i].left) = hl
      /\ Tree(m, n[i].right, R) /\ NodeHeight(m, n[i].right) = hr
  <2>1. L \cap {i} = {} /\ R \cap {i} = {}
    BY <1>2 DEF Apart
  <2>. QED  BY <1>2, <1>5, <2>1, Elsewhere
<1>7. {i} \cup L \cup R \subseteq DOMAIN n /\ DOMAIN m = DOMAIN n
  BY <1>2, <1>5 DEF Tree, SameBut
<1>8. Branch(m, i, L, R)
  <2>1. \A j \in L \cup R : m[j] = n[j]
    BY <1>2, <1>5, <1>7 DEF SameBut, Apart
  <2>2. Ordered(m, i, L, R)
    BY <1>2, <1>5, <2>1 DEF Ordered, Below, Above
  <2>. QED  BY <1>2, <1>5, <1>6, <1>7, <2>2 DEF Branch
<1>9. Entries(m, {i} \cup L \cup R) = Entries(n, {i} \cup L \cup R)
  <2>1. Entries(m, {i}) = Entries(n, {i})
    BY <1>5 DEF Entries
  <2>. QED  BY <1>5, <1>7, <2>1, SameEntries
<1>10. Balance(m, i) = hl - hr
  BY <1>2, <1>5, <1>6 DEF Balance
<1>11. ASSUME hl - hr \in -1 .. 1
       PROVE  Rearranged(n, m, N, i, {i} \cup L \cup R, 1 + Higher(hl, hr))
  <2>1. Fits(m, i)
    BY <1>1, <1>5, <1>6, <1>10, <1>11 DEF Fits
  <2>2. Tree(m, i, {i} \cup L \cup R)
    BY <1>8, <2>1, Join
  <2>3. SameBut(n, m, {i} \cup L \cup R)
    BY <1>5 DEF SameBut
  <2>4. NodeHeight(m, i) = 1 + Higher(hl, hr)
    BY <1>1, <1>2, <1>5 DEF NodeHeight
  <2>. QED  BY <1>5, <1>9, <2>2, <2>3, <2>4 DEF Rearranged
<1>12. m = UpdateHeight(n, i)
  BY <1>1
<1>. QED  BY <1>2, <1>3, <1>5, <1>6, <1>8, <1>9, <1>10, <1>11, <1>12 DEF Updated

\* What comes of a rearrangement of what has only been brought up to date.
LEMMA RearrangedAgain ==
    ASSUME NEW N, NEW n, NEW u, NEW m, NEW i, NEW S, NEW h, i \in S,
           SameBut(n, u, {i}), Entries(u, S) = Entries(n, S), Rearranged(u, m, N, i, S, h)
    PROVE  Rearranged(n, m, N, i, S, h)
BY DEF Rearranged, SameBut

\* A node above two trees, of which one may be too high.
Uneven(n, N, i, L, R, hl, hr) ==
    /\ IsArray(n, N) /\ Branch(n, i, L, R) /\ hl - hr \in -2 .. 2
    /\ hl = NodeHeight(n, n[i].left) /\ hr = NodeHeight(n, n[i].right)

\* What it comes to.
Evened(n, m, N, i, S, hl, hr) ==
    \E h \in {Higher(hl, hr), 1 + Higher(hl, hr)} :
        Rearranged(n, m, N, i, S, h) /\ (hl - hr \in -1 .. 1 => h = 1 + Higher(hl, hr))

\* After a removal.
LEMMA RemovalRebalanced ==
    ASSUME NEW N \in Nat, NEW n, NEW i, NEW L, NEW R, NEW hl, NEW hr, Uneven(n, N, i, L, R, hl, hr)
    PROVE  Evened(n, RebalanceRemoved(n, i), N, i, {i} \cup L \cup R, hl, hr)
<1> SUFFICES ASSUME IsArray(n, N), Branch(n, i, L, R), hl = NodeHeight(n, n[i].left),
                    hr = NodeHeight(n, n[i].right), hl - hr \in -2 .. 2
             PROVE  \E h \in {Higher(hl, hr), 1 + Higher(hl, hr)} :
                       /\ Rearranged(n, RebalanceRemoved(n, i), N, i, {i} \cup L \cup R, h)
                       /\ hl - hr \in -1 .. 1 => h = 1 + Higher(hl, hr)
  BY DEF Uneven, Evened
<1>1. PICK u, S, l, r : u = UpdateHeight(n, i) /\ S = {i} \cup L \cup R /\ l = n[i].left /\ r = n[i].right
  OBVIOUS
<1>2. Updated(n, u, N, i, L, R, hl, hr)
  BY <1>1, HeightUpdated
<1>3. /\ IsArray(u, N) /\ SameBut(n, u, {i}) /\ Branch(u, i, L, R)
      /\ u[i].left = l /\ u[i].right = r
      /\ hl \in Nat /\ hr \in Nat
      /\ NodeHeight(u, l) = hl /\ NodeHeight(u, r) = hr
      /\ Balance(u, i) = hl - hr
      /\ Entries(u, S) = Entries(n, S) /\ i \in S
      /\ hl - hr \in -1 .. 1 => Rearranged(n, u, N, i, S, 1 + Higher(hl, hr))
  BY <1>1, <1>2 DEF Updated
<1>4. PICK m : m = RebalanceRemoved(n, i)
  OBVIOUS
<1>5. m = CASE Balance(u, i) > 1 /\ Balance(u, l) >= 0  -> RotateRight(u, i)
            [] Balance(u, i) > 1 /\ Balance(u, l) < 0   -> RotateRight(RotateLeft(u, l), i)
            [] Balance(u, i) < -1 /\ Balance(u, r) <= 0 -> RotateLeft(u, i)
            [] Balance(u, i) < -1 /\ Balance(u, r) > 0  -> RotateLeft(RotateRight(u, r), i)
            [] OTHER                                    -> u
  BY <1>1, <1>3, <1>4 DEF RebalanceRemoved
<1>6. CASE hl - hr \in -1 .. 1
  <2>1. m = u
    BY <1>3, <1>5, <1>6
  <2>. QED  BY <1>1, <1>3, <1>4, <1>6, <2>1
<1>7. CASE hl = hr + 2
  <2>1. /\ Balance(u, l) \in -1 .. 1
        /\ Balance(u, l) >= 0 =>
               Rearranged(u, RotateRight(u, i), N, i, S, IF Balance(u, l) = 0 THEN hl + 1 ELSE hl)
        /\ Balance(u, l) < 0 =>
               Rearranged(u, RotateRight(RotateLeft(u, l), i), N, i, S, hl)
    <3>1. /\ IsArray(u, N) /\ Branch(u, i, L, R) /\ l = u[i].left
          /\ hl = NodeHeight(u, u[i].left) /\ hr = NodeHeight(u, u[i].right)
      BY <1>3
    <3>. QED  BY <1>1, <1>7, <3>1, HeavyLeft
  <2>2. \E h \in {hl, hl + 1} : Rearranged(u, m, N, i, S, h)
    <3>1. CASE Balance(u, l) >= 0
      <4>1. m = RotateRight(u, i)
        BY <1>3, <1>5, <1>7, <2>1, <3>1
      <4>. QED  BY <2>1, <3>1, <4>1
    <3>2. CASE Balance(u, l) < 0
      <4>1. m = RotateRight(RotateLeft(u, l), i)
        BY <1>3, <1>5, <1>7, <2>1, <3>2
      <4>. QED  BY <2>1, <3>2, <4>1
    <3>. QED  BY <2>1, <3>1, <3>2
  <2>3. PICK h \in {hl, hl + 1} : Rearranged(n, m, N, i, S, h)
    BY <1>3, <2>2, RearrangedAgain
  <2>4. Higher(hl, hr) = hl /\ 1 + hl = hl + 1 /\ ~ (hl - hr \in -1 .. 1)
    BY <1>3, <1>7 DEF Higher
  <2>. QED  BY <1>1, <1>4, <2>3, <2>4
<1>8. CASE hr = hl + 2
  <2>1. /\ Balance(u, r) \in -1 .. 1
        /\ Balance(u, r) <= 0 =>
               Rearranged(u, RotateLeft(u, i), N, i, S, IF Balance(u, r) = 0 THEN hr + 1 ELSE hr)
        /\ Balance(u, r) > 0 =>
               Rearranged(u, RotateLeft(RotateRight(u, r), i), N, i, S, hr)
    <3>1. /\ IsArray(u, N) /\ Branch(u, i, L, R) /\ r = u[i].right
          /\ hl = NodeHeight(u, u[i].left) /\ hr = NodeHeight(u, u[i].right)
      BY <1>3
    <3>. QED  BY <1>1, <1>8, <3>1, HeavyRight
  <2>2. \E h \in {hr, hr + 1} : Rearranged(u, m, N, i, S, h)
    <3>1. CASE Balance(u, r) <= 0
      <4>1. m = RotateLeft(u, i)
        BY <1>3, <1>5, <1>8, <2>1, <3>1
      <4>. QED  BY <2>1, <3>1, <4>1
    <3>2. CASE Balance(u, r) > 0
      <4>1. m = RotateLeft(RotateRight(u, r), i)
        BY <1>3, <1>5, <1>8, <2>1, <3>2
      <4>. QED  BY <2>1, <3>2, <4>1
    <3>. QED  BY <2>1, <3>1, <3>2
  <2>3. PICK h \in {hr, hr + 1} : Rearranged(n, m, N, i, S, h)
    BY <1>3, <2>2, RearrangedAgain
  <2>4. Higher(hl, hr) = hr /\ 1 + hr = hr + 1 /\ ~ (hl - hr \in -1 .. 1)
    BY <1>3, <1>8 DEF Higher
  <2>. QED  BY <1>1, <1>4, <2>3, <2>4
<1>. QED  BY <1>3, <1>6, <1>7, <1>8

\* The subtree below which key was inserted, when it has grown, leans to where it was.
Leans(n, i, key) ==
    /\ key # n[i].key
    /\ key < n[i].key => Balance(n, i) = 1
    /\ key > n[i].key => Balance(n, i) = -1

\* A node above two trees, of which the higher one leans to the key when it is too high.
Insertable(n, N, i, L, R, hl, hr, key) ==
    /\ IsArray(n, N) /\ Branch(n, i, L, R) /\ hl - hr \in -2 .. 2
    /\ hl = NodeHeight(n, n[i].left) /\ hr = NodeHeight(n, n[i].right)
    /\ hl = hr + 2 => Leans(n, n[i].left, key)
    /\ hr = hl + 2 => Leans(n, n[i].right, key)

\* What it comes to.
Settled(n, m, N, i, S, hl, hr) ==
    IF hl - hr \in -1 .. 1
    THEN /\ Rearranged(n, m, N, i, S, 1 + Higher(hl, hr))
         /\ m[i].key = n[i].key /\ Balance(m, i) = hl - hr
    ELSE Rearranged(n, m, N, i, S, Higher(hl, hr))

\* After an insertion.
LEMMA InsertionRebalanced ==
    ASSUME NEW N \in Nat, NEW n, NEW i, NEW L, NEW R, NEW hl, NEW hr, NEW key \in Int,
           Insertable(n, N, i, L, R, hl, hr, key)
    PROVE  Settled(n, RebalanceInserted(n, i, key), N, i, {i} \cup L \cup R, hl, hr)
<1> SUFFICES ASSUME IsArray(n, N), Branch(n, i, L, R), hl = NodeHeight(n, n[i].left),
                    hr = NodeHeight(n, n[i].right), hl - hr \in -2 .. 2,
                    hl = hr + 2 => Leans(n, n[i].left, key),
                    hr = hl + 2 => Leans(n, n[i].right, key)
             PROVE  LET m == RebalanceInserted(n, i, key)
                    IN  IF hl - hr \in -1 .. 1
                        THEN /\ Rearranged(n, m, N, i, {i} \cup L \cup R, 1 + Higher(hl, hr))
                             /\ m[i].key = n[i].key /\ Balance(m, i) = hl - hr
                        ELSE Rearranged(n, m, N, i, {i} \cup L \cup R, Higher(hl, hr))
  BY DEF Insertable, Settled
<1>1. PICK u, S, l, r : u = UpdateHeight(n, i) /\ S = {i} \cup L \cup R /\ l = n[i].left /\ r = n[i].right
  OBVIOUS
<1>2. Updated(n, u, N, i, L, R, hl, hr)
  BY <1>1, HeightUpdated
<1>3. /\ IsArray(u, N) /\ SameBut(n, u, {i}) /\ Branch(u, i, L, R)
      /\ u[i].left = l /\ u[i].right = r /\ u[i].key = n[i].key
      /\ hl \in Nat /\ hr \in Nat
      /\ NodeHeight(u, l) = hl /\ NodeHeight(u, r) = hr
      /\ Balance(u, i) = hl - hr
      /\ Entries(u, S) = Entries(n, S) /\ i \in S
      /\ hl - hr \in -1 .. 1 => Rearranged(n, u, N, i, S, 1 + Higher(hl, hr))
  BY <1>1, <1>2 DEF Updated
<1>4. PICK m : m = RebalanceInserted(n, i, key)
  OBVIOUS
<1>5. m = CASE Balance(u, i) > 1 /\ key < u[l].key  -> RotateRight(u, i)
            [] Balance(u, i) < -1 /\ key > u[r].key -> RotateLeft(u, i)
            [] Balance(u, i) > 1 /\ key > u[l].key  -> RotateRight(RotateLeft(u, l), i)
            [] Balance(u, i) < -1 /\ key < u[r].key -> RotateLeft(RotateRight(u, r), i)
            [] OTHER                                -> u
  BY <1>1, <1>3, <1>4 DEF RebalanceInserted
<1>6. CASE hl - hr \in -1 .. 1
  <2>1. m = u
    BY <1>3, <1>5, <1>6
  <2>. QED  BY <1>1, <1>3, <1>4, <1>6, <2>1
\* The children are as they were.
<1>7. /\ l # Null => l \in 0 .. N - 1 /\ u[l].key = n[l].key /\ u[l].key \in Int /\ Balance(u, l) = Balance(n, l)
      /\ r # Null => r \in 0 .. N - 1 /\ u[r].key = n[r].key /\ u[r].key \in Int /\ Balance(u, r) = Balance(n, r)
  <2>1. Tree(n, l, L) /\ Tree(n, r, R) /\ i \notin L /\ i \notin R
    BY <1>1 DEF Branch, Apart
  <2>2. ASSUME NEW c, NEW T, Tree(n, c, T), i \notin T, c # Null
        PROVE  c \in 0 .. N - 1 /\ u[c].key = n[c].key /\ u[c].key \in Int /\ Balance(u, c) = Balance(n, c)
    <3>1. c \in T /\ T \subseteq DOMAIN n /\ DOMAIN n = 0 .. N - 1
      BY <2>2 DEF Tree, IsArray
    <3>2. \A j \in T : u[j] = n[j]
      BY <1>3, <2>2, <3>1 DEF SameBut
    <3>3. PICK A, B \in SUBSET T : Branch(n, c, A, B)
      BY <2>2, Split
    <3>4. n[c].left \in T \cup {Null} /\ n[c].right \in T \cup {Null}
      BY <3>3 DEF Branch, Tree
    <3>5. NodeHeight(u, n[c].left) = NodeHeight(n, n[c].left) /\ NodeHeight(u, n[c].right) = NodeHeight(n, n[c].right)
      BY <3>2, <3>4 DEF NodeHeight
    <3>. QED  BY <2>2, <3>1, <3>2, <3>5, ArrayNode DEF Balance
  <2>. QED  BY <2>1, <2>2
<1>8. CASE hl = hr + 2
  <2>1. /\ l # Null /\ Balance(u, l) \in -1 .. 1
        /\ Balance(u, l) >= 0 =>
               Rearranged(u, RotateRight(u, i), N, i, S, IF Balance(u, l) = 0 THEN hl + 1 ELSE hl)
        /\ Balance(u, l) < 0 =>
               Rearranged(u, RotateRight(RotateLeft(u, l), i), N, i, S, hl)
    <3>1. /\ IsArray(u, N) /\ Branch(u, i, L, R) /\ l = u[i].left
          /\ hl = NodeHeight(u, u[i].left) /\ hr = NodeHeight(u, u[i].right)
      BY <1>3
    <3>. QED  BY <1>1, <1>8, <3>1, HeavyLeft
  <2>2. /\ key # u[l].key /\ u[l].key \in Int
        /\ key < u[l].key => Balance(u, l) = 1
        /\ key > u[l].key => Balance(u, l) = -1
    BY <1>1, <1>7, <1>8, <2>1 DEF Leans
  <2>3. Rearranged(u, m, N, i, S, hl)
    <3>1. CASE key < u[l].key
      <4>1. m = RotateRight(u, i)
        BY <1>3, <1>5, <1>8, <2>2, <3>1
      <4>. QED  BY <2>1, <2>2, <3>1, <4>1
    <3>2. CASE key > u[l].key
      <4>1. m = RotateRight(RotateLeft(u, l), i)
        BY <1>3, <1>5, <1>8, <2>2, <3>2
      <4>. QED  BY <2>1, <2>2, <3>2, <4>1
    <3>. QED  BY <2>2, <3>1, <3>2
  <2>4. Rearranged(n, m, N, i, S, hl)
    BY <1>3, <2>3, RearrangedAgain
  <2>5. Higher(hl, hr) = hl /\ ~ (hl - hr \in -1 .. 1)
    BY <1>3, <1>8 DEF Higher
  <2>. QED  BY <1>1, <1>4, <2>4, <2>5
<1>9. CASE hr = hl + 2
  <2>1. /\ r # Null /\ Balance(u, r) \in -1 .. 1
        /\ Balance(u, r) <= 0 =>
               Rearranged(u, RotateLeft(u, i), N, i, S, IF Balance(u, r) = 0 THEN hr + 1 ELSE hr)
        /\ Balance(u, r) > 0 =>
               Rearranged(u, RotateLeft(RotateRight(u, r), i), N, i, S, hr)
    <3>1. /\ IsArray(u, N) /\ Branch(u, i, L, R) /\ r = u[i].right
          /\ hl = NodeHeight(u, u[i].left) /\ hr = NodeHeight(u, u[i].right)
      BY <1>3
    <3>. QED  BY <1>1, <1>9, <3>1, HeavyRight
  <2>2. /\ key # u[r].key /\ u[r].key \in Int
        /\ key < u[r].key => Balance(u, r) = 1
        /\ key > u[r].key => Balance(u, r) = -1
    BY <1>1, <1>7, <1>9, <2>1 DEF Leans
  <2>3. Rearranged(u, m, N, i, S, hr)
    <3>1. CASE key < u[r].key
      <4>1. m = RotateLeft(RotateRight(u, r), i)
        BY <1>3, <1>5, <1>9, <2>2, <3>1
      <4>. QED  BY <2>1, <2>2, <3>1, <4>1
    <3>2. CASE key > u[r].key
      <4>1. m = RotateLeft(u, i)
        BY <1>3, <1>5, <1>9, <2>2, <3>2
      <4>. QED  BY <2>1, <2>2, <3>2, <4>1
    <3>. QED  BY <2>2, <3>1, <3>2
  <2>4. Rearranged(n, m, N, i, S, hr)
    BY <1>3, <2>3, RearrangedAgain
  <2>5. Higher(hl, hr) = hr /\ ~ (hl - hr \in -1 .. 1)
    BY <1>3, <1>9 DEF Higher
  <2>. QED  BY <1>1, <1>4, <2>4, <2>5
<1>. QED  BY <1>3, <1>6, <1>8, <1>9

(***************************************************************************)
(* A subtree is replaced.  X are the indexes of which something may have   *)
(* changed below i, on one side of it.                                     *)
(***************************************************************************)
SetLeft(m, i, x) == [m EXCEPT ![i].left = x]
SetRight(m, i, x) == [m EXCEPT ![i].right = x]

Attached(n, m, p, N, i, x, T, X) ==
    /\ IsArray(p, N) /\ SameBut(n, p, X \cup {i}) /\ p[i].key = n[i].key /\ p[i].data = n[i].data
    /\ Entries(p, T) = Entries(m, T) /\ NodeHeight(p, x) = NodeHeight(m, x)
    /\ x # Null => p[x].key = m[x].key /\ Balance(p, x) = Balance(m, x)

\* A tree m into which x has been put below i.
LEMMA AttachedOK ==
    ASSUME NEW N \in Nat, NEW n, NEW i \in 0 .. N - 1, NEW X, i \notin X, NEW m, IsArray(m, N), SameBut(n, m, X),
           NEW x, NEW T, Tree(m, x, T), i \notin T, IsArray(n, N),
           NEW p, p \in {SetLeft(m, i, x), SetRight(m, i, x)}
    PROVE  /\ Attached(n, m, p, N, i, x, T, X) /\ Tree(p, x, T)
           /\ DOMAIN p = DOMAIN n /\ \A j \in 0 .. N - 1 : j # i => p[j] = m[j]
           /\ p = SetLeft(m, i, x) => p[i].left = x /\ p[i].right = n[i].right
           /\ p = SetRight(m, i, x) => p[i].left = n[i].left /\ p[i].right = x
<1>1. DOMAIN n = 0 .. N - 1 /\ DOMAIN m = 0 .. N - 1 /\ m[i] = n[i] /\ IsNode(m[i], -1 .. N - 1)
  BY DEF IsArray, SameBut
<1>2. x \in -1 .. N - 1 /\ T \subseteq 0 .. N - 1
  BY <1>1 DEF Tree, Null
<1>3. /\ DOMAIN p = 0 .. N - 1 /\ \A j \in 0 .. N - 1 : j # i => p[j] = m[j]
      /\ p[i] \in {[m[i] EXCEPT !.left = x], [m[i] EXCEPT !.right = x]}
      /\ p = SetLeft(m, i, x) => p[i] = [m[i] EXCEPT !.left = x]
      /\ p = SetRight(m, i, x) => p[i] = [m[i] EXCEPT !.right = x]
  BY <1>1 DEF SetLeft, SetRight
<1>4. /\ p[i].key = n[i].key /\ p[i].data = n[i].data /\ IsNode(p[i], -1 .. N - 1)
      /\ p = SetLeft(m, i, x) => p[i].left = x /\ p[i].right = n[i].right
      /\ p = SetRight(m, i, x) => p[i].left = n[i].left /\ p[i].right = x
  BY <1>1, <1>2, <1>3 DEF IsNode
<1>5. IsArray(p, N)
  BY <1>1, <1>3, <1>4 DEF IsArray
<1>6. SameBut(m, p, {i}) /\ SameBut(n, p, X \cup {i})
  BY <1>1, <1>3 DEF SameBut
<1>7. Tree(p, x, T) /\ NodeHeight(p, x) = NodeHeight(m, x)
  BY <1>6, Elsewhere
<1>8. \A j \in T : p[j] = m[j]
  BY <1>2, <1>3
<1>9. Entries(p, T) = Entries(m, T)
  BY <1>8 DEF Entries
<1>10. ASSUME x # Null PROVE p[x].key = m[x].key /\ Balance(p, x) = Balance(m, x)
  <2>1. PICK A, B \in SUBSET T : Branch(m, x, A, B)
    BY <1>10, Split
  <2>2. x \in T /\ m[x].left \in T \cup {Null} /\ m[x].right \in T \cup {Null}
    BY <1>10, <2>1 DEF Branch, Tree
  <2>. QED  BY <1>8, <1>10, <2>2 DEF Balance, NodeHeight
<1>. QED  BY <1>1, <1>3, <1>4, <1>5, <1>6, <1>7, <1>9, <1>10 DEF Attached

\* In place of the tree L on the left the tree x of m is put, with the nodes T.
OnLeft(n, m, N, i, L, R, x, T, X) ==
    /\ IsArray(n, N) /\ Branch(n, i, L, R) /\ i \notin X /\ X \cap R = {}
    /\ IsArray(m, N) /\ SameBut(n, m, X)
    /\ T \in SUBSET X /\ Tree(m, x, T) /\ Below(m, T, n[i].key)

\* Nothing is lost on the way.
LEMMA AttachedLeft ==
    ASSUME NEW N \in Nat, NEW n, NEW i, NEW L, NEW R, NEW X, NEW m, NEW x, NEW T,
           OnLeft(n, m, N, i, L, R, x, T, X)
    PROVE  \E p : /\ p = SetLeft(m, i, x) /\ Attached(n, m, p, N, i, x, T, X) /\ Branch(p, i, T, R)
                  /\ p[i].left = x /\ p[i].right = n[i].right /\ Entries(p, R) = Entries(n, R)
                  /\ NodeHeight(p, n[i].right) = NodeHeight(n, n[i].right)
<1> SUFFICES ASSUME IsArray(n, N), Branch(n, i, L, R), i \notin X, X \cap R = {},
                    IsArray(m, N), SameBut(n, m, X), T \in SUBSET X, Tree(m, x, T), Below(m, T, n[i].key),
                    NEW p, p = SetLeft(m, i, x)
             PROVE  /\ Attached(n, m, p, N, i, x, T, X) /\ Branch(p, i, T, R)
                    /\ p[i].left = x /\ p[i].right = n[i].right /\ Entries(p, R) = Entries(n, R)
                    /\ NodeHeight(p, n[i].right) = NodeHeight(n, n[i].right)
  BY DEF OnLeft
<1>1. /\ i \in 0 .. N - 1 /\ i # Null /\ Apart(i, L, R) /\ Tree(n, n[i].right, R)
      /\ Ordered(n, i, L, R) /\ DOMAIN n = 0 .. N - 1
  BY DEF Branch, IsArray
<1>2. /\ Attached(n, m, p, N, i, x, T, X) /\ Tree(p, x, T)
      /\ DOMAIN p = 0 .. N - 1 /\ \A j \in 0 .. N - 1 : j # i => p[j] = m[j]
      /\ p[i].left = x /\ p[i].right = n[i].right
  BY <1>1, AttachedOK
<1>3. SameBut(n, p, X \cup {i}) /\ R \cap (X \cup {i}) = {} /\ p[i].key = n[i].key
  BY <1>1, <1>2 DEF Attached, Apart
<1>4. Tree(p, n[i].right, R) /\ NodeHeight(p, n[i].right) = NodeHeight(n, n[i].right)
  BY <1>1, <1>3, Elsewhere
<1>5. \A j \in R : p[j] = n[j]
  <2>1. R \subseteq DOMAIN n
    BY <1>1 DEF Tree
  <2>. QED  BY <1>3, <2>1 DEF SameBut
<1>6. Ordered(p, i, T, R)
  <2>1. Below(p, T, n[i].key)
    BY <1>2, KeyOrder DEF Attached
  <2>. QED  BY <1>1, <1>3, <1>5, <2>1 DEF Ordered, Above
<1>7. Branch(p, i, T, R)
  <2>1. Apart(i, T, R)
    BY <1>1 DEF Apart
  <2>. QED  BY <1>1, <1>2, <1>4, <1>6, <2>1 DEF Branch
<1>8. Entries(p, R) = Entries(n, R)
  BY <1>5 DEF Entries
<1>. QED  BY <1>2, <1>4, <1>7, <1>8

\* In place of the tree R on the right the tree x of m is put, with the nodes T.
OnRight(n, m, N, i, L, R, x, T, X) ==
    /\ IsArray(n, N) /\ Branch(n, i, L, R) /\ i \notin X /\ X \cap L = {}
    /\ IsArray(m, N) /\ SameBut(n, m, X)
    /\ T \in SUBSET X /\ Tree(m, x, T) /\ Above(m, T, n[i].key)

\* Nothing is lost on this side either.
LEMMA AttachedRight ==
    ASSUME NEW N \in Nat, NEW n, NEW i, NEW L, NEW R, NEW X, NEW m, NEW x, NEW T,
           OnRight(n, m, N, i, L, R, x, T, X)
    PROVE  \E p : /\ p = SetRight(m, i, x) /\ Attached(n, m, p, N, i, x, T, X) /\ Branch(p, i, L, T)
                  /\ p[i].left = n[i].left /\ p[i].right = x /\ Entries(p, L) = Entries(n, L)
                  /\ NodeHeight(p, n[i].left) = NodeHeight(n, n[i].left)
<1> SUFFICES ASSUME IsArray(n, N), Branch(n, i, L, R), i \notin X, X \cap L = {},
                    IsArray(m, N), SameBut(n, m, X), T \in SUBSET X, Tree(m, x, T), Above(m, T, n[i].key),
                    NEW p, p = SetRight(m, i, x)
             PROVE  /\ Attached(n, m, p, N, i, x, T, X) /\ Branch(p, i, L, T)
                    /\ p[i].left = n[i].left /\ p[i].right = x /\ Entries(p, L) = Entries(n, L)
                    /\ NodeHeight(p, n[i].left) = NodeHeight(n, n[i].left)
  BY DEF OnRight
<1>1. /\ i \in 0 .. N - 1 /\ i # Null /\ Apart(i, L, R) /\ Tree(n, n[i].left, L)
      /\ Ordered(n, i, L, R) /\ DOMAIN n = 0 .. N - 1
  BY DEF Branch, IsArray
<1>2. /\ Attached(n, m, p, N, i, x, T, X) /\ Tree(p, x, T)
      /\ DOMAIN p = 0 .. N - 1 /\ \A j \in 0 .. N - 1 : j # i => p[j] = m[j]
      /\ p[i].left = n[i].left /\ p[i].right = x
  BY <1>1, AttachedOK
<1>3. SameBut(n, p, X \cup {i}) /\ L \cap (X \cup {i}) = {} /\ p[i].key = n[i].key
  BY <1>1, <1>2 DEF Attached, Apart
<1>4. Tree(p, n[i].left, L) /\ NodeHeight(p, n[i].left) = NodeHeight(n, n[i].left)
  BY <1>1, <1>3, Elsewhere
<1>5. \A j \in L : p[j] = n[j]
  <2>1. L \subseteq DOMAIN n
    BY <1>1 DEF Tree
  <2>. QED  BY <1>3, <2>1 DEF SameBut
<1>6. Ordered(p, i, L, T)
  <2>1. Above(p, T, n[i].key)
    BY <1>2, KeyOrder DEF Attached
  <2>. QED  BY <1>1, <1>3, <1>5, <2>1 DEF Ordered, Below
<1>7. Branch(p, i, L, T)
  <2>1. Apart(i, L, T)
    BY <1>1 DEF Apart
  <2>. QED  BY <1>1, <1>2, <1>4, <1>6, <2>1 DEF Branch
<1>8. Entries(p, L) = Entries(n, L)
  BY <1>5 DEF Entries
<1>. QED  BY <1>2, <1>4, <1>7, <1>8

(***************************************************************************)
(* Insertion of a key that is not in the tree, with a free node.           *)
(***************************************************************************)
\* What an insertion into new below i, where the nodes S are, makes of n: m, with the root x.
Grown(n, m, N, i, x, S, new, key, data) ==
    /\ IsArray(m, N) /\ SameBut(n, m, S \cup {new}) /\ Tree(m, x, S \cup {new})
    /\ Entries(m, S \cup {new}) = Entries(n, S) \cup {<<key, data>>}
    /\ NodeHeight(m, x) \in {NodeHeight(n, i), NodeHeight(n, i) + 1}
    /\ (NodeHeight(m, x) > NodeHeight(n, i) /\ i # Null) => Leans(m, i, key)
    /\ x = IF i = Null THEN new ELSE i

\* A new node.
LEMMA GrownNew ==
    ASSUME NEW N \in Nat, NEW n, IsArray(n, N), NEW new \in 0 .. N - 1, NEW key \in Int, NEW data
    PROVE  Grown(n, [n EXCEPT ![new] = Node(key, data)], N, Null, new, {}, new, key, data)
<1>1. PICK m : m = [n EXCEPT ![new] = Node(key, data)]
  OBVIOUS
<1>4. DOMAIN n = 0 .. N - 1 /\ new # Null
  BY DEF IsArray, Null
<1>5. /\ m[new] = Node(key, data) /\ DOMAIN m = 0 .. N - 1
      /\ \A j \in 0 .. N - 1 : j # new => m[j] = n[j]
  BY <1>1, <1>4
<1>6. /\ m[new].key = key /\ m[new].data = data /\ m[new].left = Null /\ m[new].right = Null
      /\ m[new].height = 1
  BY <1>5 DEF Node
<1>7. IsArray(m, N)
  <2>1. IsNode(m[new], -1 .. N - 1)
    BY <1>5, <1>6 DEF IsNode, Node, Null
  <2>. QED  BY <1>4, <1>5, <2>1 DEF IsArray
<1>8. SameBut(n, m, {} \cup {new})
  BY <1>4, <1>5 DEF SameBut
<1>9. Tree(m, new, {} \cup {new})
  <2>1. Tree(m, Null, {})
    BY NullTree
  <2>2. Branch(m, new, {}, {})
    BY <1>4, <1>5, <1>6, <2>1 DEF Branch, Apart, Ordered, Below, Above
  <2>3. Fits(m, new)
    BY <1>4, <1>6 DEF Fits, Balance, NodeHeight, Higher
  <2>4. Tree(m, new, {new} \cup {} \cup {})
    BY <2>2, <2>3, Join
  <2>. QED  BY <2>4
<1>10. Entries(m, {} \cup {new}) = Entries(n, {}) \cup {<<key, data>>}
  BY <1>6 DEF Entries
<1>11. NodeHeight(m, new) = 1 /\ NodeHeight(n, Null) = 0
  BY <1>4, <1>6 DEF NodeHeight
<1>12. Grown(n, m, N, Null, new, {}, new, key, data)
  BY <1>7, <1>8, <1>9, <1>10, <1>11 DEF Grown
<1>. QED  BY <1>1, <1>12

\* The heights after an insertion on one side of a node, of which this side had the height h and
\* has now the height g, and the other side the height o.
LEMMA GrowingHeights ==
    ASSUME NEW h \in Nat, NEW g \in {h, h + 1}, NEW o \in Nat, h - o \in -1 .. 1
    PROVE  /\ g \in Nat /\ g - o \in -2 .. 2 /\ o - g \in -2 .. 2 /\ o # g + 2
           /\ g = o + 2 => g > h /\ g = 1 + Higher(h, o) /\ Higher(g, o) = g /\ Higher(o, g) = g
           /\ g = o + 2 => ~ (g - o \in -1 .. 1) /\ ~ (o - g \in -1 .. 1)
           /\ g # o + 2 => /\ g - o \in -1 .. 1 /\ o - g \in -1 .. 1
                           /\ 1 + Higher(g, o) \in {1 + Higher(h, o), 1 + Higher(h, o) + 1}
                           /\ 1 + Higher(g, o) > 1 + Higher(h, o) => g = o + 1
           /\ Higher(g, o) = Higher(o, g) /\ Higher(h, o) = Higher(o, h)
BY DEF Higher

\* The recursion into the left subtree.
LEMMA GrownLeft ==
    ASSUME NEW N \in Nat, NEW n, IsArray(n, N), NEW key \in Int, NEW data, NEW new \in 0 .. N - 1,
           NEW i, NEW S, NEW L, NEW R, NEW hl \in Nat, NEW hr \in Nat,
           Divided(n, N, i, S, L, R, hl, hr), new \notin S, key < n[i].key,
           NEW m, NEW x, Grown(n, m, N, n[i].left, x, L, new, key, data)
    PROVE  Grown(n, RebalanceInserted(SetLeft(m, i, x), i, key), N, i, i, S, new, key, data)
<1>2. /\ x = IF n[i].left = Null THEN new ELSE n[i].left
      /\ IsArray(m, N) /\ SameBut(n, m, L \cup {new}) /\ Tree(m, x, L \cup {new})
      /\ Entries(m, L \cup {new}) = Entries(n, L) \cup {<<key, data>>}
      /\ NodeHeight(m, x) \in {NodeHeight(n, n[i].left), NodeHeight(n, n[i].left) + 1}
      /\ (NodeHeight(m, x) > NodeHeight(n, n[i].left) /\ n[i].left # Null) => Leans(m, n[i].left, key)
  BY DEF Grown
<1>3. /\ Branch(n, i, L, R) /\ S = {i} \cup L \cup R /\ i \in 0 .. N - 1
      /\ hl = NodeHeight(n, n[i].left) /\ hr = NodeHeight(n, n[i].right)
      /\ NodeHeight(n, i) = 1 + Higher(hl, hr) /\ hl - hr \in -1 .. 1
  BY DEF Divided
<1>4. PICK g, T : g = NodeHeight(m, x) /\ T = L \cup {new}
  OBVIOUS
<1>5. i # Null /\ n[i].key \in Int /\ DOMAIN n = 0 .. N - 1
  BY <1>3, ArrayNode DEF Branch, IsArray
<1>6. i \notin T /\ T \cap R = {} /\ x \in T
  BY <1>2, <1>3, <1>4 DEF Branch, Apart, Tree
<1>7. Below(m, T, n[i].key)
  <2>1. Below(n, L, n[i].key)
    BY <1>3 DEF Branch, Ordered
  <2>2. ASSUME NEW j \in T PROVE m[j].key < n[i].key
    <3>1. <<m[j].key, m[j].data>> \in Entries(n, L) \cup {<<key, data>>}
      BY <1>2, <1>4 DEF Entries
    <3>2. CASE <<m[j].key, m[j].data>> = <<key, data>>
      BY <3>2
    <3>3. CASE <<m[j].key, m[j].data>> \in Entries(n, L)
      BY <2>1, <3>3 DEF Entries, Below
    <3>. QED  BY <3>1, <3>2, <3>3
  <2>. QED  BY <2>2 DEF Below
<1>8. PICK p : /\ p = SetLeft(m, i, x) /\ Attached(n, m, p, N, i, x, T, T) /\ Branch(p, i, T, R)
               /\ p[i].left = x /\ p[i].right = n[i].right /\ Entries(p, R) = Entries(n, R)
               /\ NodeHeight(p, n[i].right) = NodeHeight(n, n[i].right)
  <2>1. OnLeft(n, m, N, i, L, R, x, T, T)
    BY <1>2, <1>3, <1>4, <1>6, <1>7 DEF OnLeft
  <2>. QED  BY <2>1, AttachedLeft
<1>9. /\ IsArray(p, N) /\ SameBut(n, p, T \cup {i}) /\ p[i].key = n[i].key /\ p[i].data = n[i].data
      /\ Entries(p, T) = Entries(m, T) /\ NodeHeight(p, x) = g
      /\ x # Null => p[x].key = m[x].key /\ Balance(p, x) = Balance(m, x)
  BY <1>4, <1>8 DEF Attached
<1>10. PICK q : q = RebalanceInserted(p, i, key)
  OBVIOUS
<1>12. g \in {hl, hl + 1} /\ S \cup {new} = {i} \cup T \cup R
  BY <1>2, <1>3, <1>4
<1>13. /\ g \in Nat /\ g - hr \in -2 .. 2 /\ hr # g + 2
       /\ g = hr + 2 => g > hl /\ g = 1 + Higher(hl, hr) /\ Higher(g, hr) = g /\ ~ (g - hr \in -1 .. 1)
       /\ g # hr + 2 => /\ g - hr \in -1 .. 1
                        /\ 1 + Higher(g, hr) \in {1 + Higher(hl, hr), 1 + Higher(hl, hr) + 1}
                        /\ 1 + Higher(g, hr) > 1 + Higher(hl, hr) => g = hr + 1
  BY <1>3, <1>12, GrowingHeights
<1>14. ASSUME g = hr + 2 PROVE Leans(p, p[i].left, key)
  <2>1. g > hl /\ hl # 0
    BY <1>3, <1>12, <1>13, <1>14
  <2>2. n[i].left # Null
    BY <1>3, <2>1 DEF NodeHeight
  <2>3. Leans(m, x, key) /\ x # Null
    BY <1>2, <1>3, <1>4, <2>1, <2>2
  <2>. QED  BY <1>8, <1>9, <2>3 DEF Leans
<1>15. Settled(p, q, N, i, {i} \cup T \cup R, g, hr)
  <2>1. Insertable(p, N, i, T, R, g, hr, key)
    BY <1>3, <1>8, <1>9, <1>13, <1>14 DEF Insertable
  <2>. QED  BY <1>10, <2>1, InsertionRebalanced
<1>16. \E h \in {NodeHeight(n, i), NodeHeight(n, i) + 1} :
          /\ Rearranged(p, q, N, i, S \cup {new}, h)
          /\ h > NodeHeight(n, i) => Leans(q, i, key)
  <2>0. NodeHeight(n, i) \in Nat
    BY <1>3 DEF Higher
  <2>1. CASE g = hr + 2
    <3>1. Rearranged(p, q, N, i, S \cup {new}, NodeHeight(n, i))
      BY <1>3, <1>12, <1>13, <1>15, <2>1 DEF Settled
    <3>. QED  BY <2>0, <3>1
  <2>2. CASE g # hr + 2
    <3>1. /\ Rearranged(p, q, N, i, S \cup {new}, 1 + Higher(g, hr))
          /\ q[i].key = n[i].key /\ Balance(q, i) = g - hr
      BY <1>9, <1>12, <1>13, <1>15, <2>2 DEF Settled
    <3>2. ASSUME 1 + Higher(g, hr) > NodeHeight(n, i) PROVE Leans(q, i, key)
      <4>1. Balance(q, i) = 1
        BY <1>3, <1>13, <2>2, <3>1, <3>2
      <4>. QED  BY <1>5, <3>1, <4>1 DEF Leans
    <3>. QED  BY <1>3, <1>13, <2>2, <3>1, <3>2
  <2>. QED  BY <2>1, <2>2
<1>17. Entries(p, S \cup {new}) = Entries(n, S) \cup {<<key, data>>}
  <2>1. /\ Entries(p, S \cup {new}) = Entries(p, {i}) \cup Entries(p, T) \cup Entries(p, R)
        /\ Entries(n, S) = Entries(n, {i}) \cup Entries(n, L) \cup Entries(n, R)
    BY <1>3, <1>12 DEF Entries
  <2>2. Entries(p, {i}) = Entries(n, {i})
    BY <1>9 DEF Entries
  <2>. QED  BY <1>2, <1>4, <1>8, <1>9, <2>1, <2>2
<1>19. Grown(n, q, N, i, i, S, new, key, data)
  <2>1. PICK h \in {NodeHeight(n, i), NodeHeight(n, i) + 1} :
          /\ Rearranged(p, q, N, i, S \cup {new}, h)
          /\ h > NodeHeight(n, i) => Leans(q, i, key)
    BY <1>16
  <2>2. /\ IsArray(q, N) /\ SameBut(p, q, S \cup {new}) /\ Entries(q, S \cup {new}) = Entries(p, S \cup {new})
        /\ Tree(q, i, S \cup {new}) /\ NodeHeight(q, i) = h
    BY <2>1 DEF Rearranged
  <2>3. SameBut(n, q, S \cup {new})
    <3>1. T \cup {i} \subseteq S \cup {new}
      BY <1>12
    <3>. QED  BY <1>9, <2>2, <3>1 DEF SameBut
  <2>. QED  BY <1>5, <1>17, <2>1, <2>2, <2>3 DEF Grown
<1>. QED  BY <1>8, <1>10, <1>19

\* The recursion into the right subtree.
LEMMA GrownRight ==
    ASSUME NEW N \in Nat, NEW n, IsArray(n, N), NEW key \in Int, NEW data, NEW new \in 0 .. N - 1,
           NEW i, NEW S, NEW L, NEW R, NEW hl \in Nat, NEW hr \in Nat,
           Divided(n, N, i, S, L, R, hl, hr), new \notin S, key > n[i].key,
           NEW m, NEW x, Grown(n, m, N, n[i].right, x, R, new, key, data)
    PROVE  Grown(n, RebalanceInserted(SetRight(m, i, x), i, key), N, i, i, S, new, key, data)
<1>2. /\ x = IF n[i].right = Null THEN new ELSE n[i].right
      /\ IsArray(m, N) /\ SameBut(n, m, R \cup {new}) /\ Tree(m, x, R \cup {new})
      /\ Entries(m, R \cup {new}) = Entries(n, R) \cup {<<key, data>>}
      /\ NodeHeight(m, x) \in {NodeHeight(n, n[i].right), NodeHeight(n, n[i].right) + 1}
      /\ (NodeHeight(m, x) > NodeHeight(n, n[i].right) /\ n[i].right # Null) => Leans(m, n[i].right, key)
  BY DEF Grown
<1>3. /\ Branch(n, i, L, R) /\ S = {i} \cup L \cup R /\ i \in 0 .. N - 1
      /\ hl = NodeHeight(n, n[i].left) /\ hr = NodeHeight(n, n[i].right)
      /\ NodeHeight(n, i) = 1 + Higher(hl, hr) /\ hl - hr \in -1 .. 1
  BY DEF Divided
<1>4. PICK g, T : g = NodeHeight(m, x) /\ T = R \cup {new}
  OBVIOUS
<1>5. i # Null /\ n[i].key \in Int /\ DOMAIN n = 0 .. N - 1
  BY <1>3, ArrayNode DEF Branch, IsArray
<1>6. i \notin T /\ T \cap L = {} /\ x \in T
  BY <1>2, <1>3, <1>4 DEF Branch, Apart, Tree
<1>7. Above(m, T, n[i].key)
  <2>1. Above(n, R, n[i].key)
    BY <1>3 DEF Branch, Ordered
  <2>2. ASSUME NEW j \in T PROVE m[j].key > n[i].key
    <3>1. <<m[j].key, m[j].data>> \in Entries(n, R) \cup {<<key, data>>}
      BY <1>2, <1>4 DEF Entries
    <3>2. CASE <<m[j].key, m[j].data>> = <<key, data>>
      BY <3>2
    <3>3. CASE <<m[j].key, m[j].data>> \in Entries(n, R)
      BY <2>1, <3>3 DEF Entries, Above
    <3>. QED  BY <3>1, <3>2, <3>3
  <2>. QED  BY <2>2 DEF Above
<1>8. PICK p : /\ p = SetRight(m, i, x) /\ Attached(n, m, p, N, i, x, T, T) /\ Branch(p, i, L, T)
               /\ p[i].right = x /\ p[i].left = n[i].left /\ Entries(p, L) = Entries(n, L)
               /\ NodeHeight(p, n[i].left) = NodeHeight(n, n[i].left)
  <2>1. OnRight(n, m, N, i, L, R, x, T, T)
    BY <1>2, <1>3, <1>4, <1>6, <1>7 DEF OnRight
  <2>. QED  BY <2>1, AttachedRight
<1>9. /\ IsArray(p, N) /\ SameBut(n, p, T \cup {i}) /\ p[i].key = n[i].key /\ p[i].data = n[i].data
      /\ Entries(p, T) = Entries(m, T) /\ NodeHeight(p, x) = g
      /\ x # Null => p[x].key = m[x].key /\ Balance(p, x) = Balance(m, x)
  BY <1>4, <1>8 DEF Attached
<1>10. PICK q : q = RebalanceInserted(p, i, key)
  OBVIOUS
<1>12. g \in {hr, hr + 1} /\ S \cup {new} = {i} \cup L \cup T
  BY <1>2, <1>3, <1>4
<1>13. /\ g \in Nat /\ hl - g \in -2 .. 2 /\ hl # g + 2
       /\ g = hl + 2 => g > hr /\ g = 1 + Higher(hl, hr) /\ Higher(hl, g) = g /\ ~ (hl - g \in -1 .. 1)
       /\ g # hl + 2 => /\ hl - g \in -1 .. 1
                        /\ 1 + Higher(hl, g) \in {1 + Higher(hl, hr), 1 + Higher(hl, hr) + 1}
                        /\ 1 + Higher(hl, g) > 1 + Higher(hl, hr) => g = hl + 1
  BY <1>3, <1>12, GrowingHeights
<1>14. ASSUME g = hl + 2 PROVE Leans(p, p[i].right, key)
  <2>1. g > hr /\ hr # 0
    BY <1>3, <1>12, <1>13, <1>14
  <2>2. n[i].right # Null
    BY <1>3, <2>1 DEF NodeHeight
  <2>3. Leans(m, x, key) /\ x # Null
    BY <1>2, <1>3, <1>4, <2>1, <2>2
  <2>. QED  BY <1>8, <1>9, <2>3 DEF Leans
<1>15. Settled(p, q, N, i, {i} \cup L \cup T, hl, g)
  <2>1. Insertable(p, N, i, L, T, hl, g, key)
    BY <1>3, <1>8, <1>9, <1>13, <1>14 DEF Insertable
  <2>. QED  BY <1>10, <2>1, InsertionRebalanced
<1>16. \E h \in {NodeHeight(n, i), NodeHeight(n, i) + 1} :
          /\ Rearranged(p, q, N, i, S \cup {new}, h)
          /\ h > NodeHeight(n, i) => Leans(q, i, key)
  <2>0. NodeHeight(n, i) \in Nat
    BY <1>3 DEF Higher
  <2>1. CASE g = hl + 2
    <3>1. Rearranged(p, q, N, i, S \cup {new}, NodeHeight(n, i))
      BY <1>3, <1>12, <1>13, <1>15, <2>1 DEF Settled
    <3>. QED  BY <2>0, <3>1
  <2>2. CASE g # hl + 2
    <3>1. /\ Rearranged(p, q, N, i, S \cup {new}, 1 + Higher(hl, g))
          /\ q[i].key = n[i].key /\ Balance(q, i) = hl - g
      BY <1>9, <1>12, <1>13, <1>15, <2>2 DEF Settled
    <3>2. ASSUME 1 + Higher(hl, g) > NodeHeight(n, i) PROVE Leans(q, i, key)
      <4>1. Balance(q, i) = -1
        BY <1>3, <1>13, <2>2, <3>1, <3>2
      <4>. QED  BY <1>5, <3>1, <4>1 DEF Leans
    <3>. QED  BY <1>3, <1>13, <2>2, <3>1, <3>2
  <2>. QED  BY <2>1, <2>2
<1>17. Entries(p, S \cup {new}) = Entries(n, S) \cup {<<key, data>>}
  <2>1. /\ Entries(p, S \cup {new}) = Entries(p, {i}) \cup Entries(p, T) \cup Entries(p, L)
        /\ Entries(n, S) = Entries(n, {i}) \cup Entries(n, R) \cup Entries(n, L)
    BY <1>3, <1>12 DEF Entries
  <2>2. Entries(p, {i}) = Entries(n, {i})
    BY <1>9 DEF Entries
  <2>. QED  BY <1>2, <1>4, <1>8, <1>9, <2>1, <2>2
<1>19. Grown(n, q, N, i, i, S, new, key, data)
  <2>1. PICK h \in {NodeHeight(n, i), NodeHeight(n, i) + 1} :
          /\ Rearranged(p, q, N, i, S \cup {new}, h)
          /\ h > NodeHeight(n, i) => Leans(q, i, key)
    BY <1>16
  <2>2. /\ IsArray(q, N) /\ SameBut(p, q, S \cup {new}) /\ Entries(q, S \cup {new}) = Entries(p, S \cup {new})
        /\ Tree(q, i, S \cup {new}) /\ NodeHeight(q, i) = h
    BY <2>1 DEF Rearranged
  <2>3. SameBut(n, q, S \cup {new})
    <3>1. T \cup {i} \subseteq S \cup {new}
      BY <1>12
    <3>. QED  BY <1>9, <2>2, <3>1 DEF SameBut
  <2>. QED  BY <1>5, <1>17, <2>1, <2>2, <2>3 DEF Grown
<1>. QED  BY <1>8, <1>10, <1>19

\* The shape of a tree.
Fields(m, f, e, r) == [nodes |-> m, free |-> f, elements |-> e, root |-> r]

IsTree(t, N) == t = Fields(t.nodes, t.free, t.elements, t.root) /\ IsArray(t.nodes, N)

\* A subtree that is put in its place.
LEMMA ChildPut ==
    ASSUME NEW sub, NEW m, NEW f, NEW e, NEW r, sub.tree = Fields(m, f, e, r), NEW i
    PROVE  /\ WithChild(sub, i, "left") = Fields(SetLeft(m, i, sub.idx), f, e, r)
           /\ WithChild(sub, i, "right") = Fields(SetRight(m, i, sub.idx), f, e, r)
BY DEF WithChild, SetLeft, SetRight, Fields

\* Other nodes.
LEMMA NodesPut ==
    ASSUME NEW t, NEW m, NEW f, NEW e, NEW r, t = Fields(m, f, e, r), NEW p
    PROVE  [t EXCEPT !.nodes = p] = Fields(p, f, e, r) /\ t.nodes = m
BY DEF Fields

\* What an insertion below i, where the nodes S are, returns.
PutIn(t, N, key, data, i, S, r) ==
    /\ r.tree = Fields(r.tree.nodes, Tail(t.free), t.elements + 1, t.root)
    /\ Grown(t.nodes, r.tree.nodes, N, i, r.idx, S, Head(t.free), key, data)

\* The new key belongs to the left.
LEMMA InsertLower ==
    ASSUME NEW t, NEW key \in Int, NEW data, NEW below, NEW i \in Indexes(t.nodes), i # Null,
           t.nodes[i].key \in Int, key < t.nodes[i].key
    PROVE  InsertFrom(t, key, data, below)[i]
               = [tree |-> [WithChild(below[t.nodes[i].left], i, "left")
                               EXCEPT !.nodes = RebalanceInserted(@, i, key)], idx |-> i]
<1>1. PICK side : side = IF key < t.nodes[i].key THEN "left" ELSE "right"
  OBVIOUS
<1>2. key # t.nodes[i].key /\ side = "left"
  BY <1>1
<1>3. InsertFrom(t, key, data, below)[i]
          = [tree |-> [WithChild(below[t.nodes[i][side]], i, side)
                          EXCEPT !.nodes = RebalanceInserted(@, i, key)], idx |-> i]
  BY <1>1, <1>2 DEF InsertFrom
<1>4. t.nodes[i][side] = t.nodes[i].left
  BY <1>2
<1>. QED  BY <1>2, <1>3, <1>4

\* It belongs to the right.
LEMMA InsertHigher ==
    ASSUME NEW t, NEW key \in Int, NEW data, NEW below, NEW i \in Indexes(t.nodes), i # Null,
           t.nodes[i].key \in Int, key > t.nodes[i].key
    PROVE  InsertFrom(t, key, data, below)[i]
               = [tree |-> [WithChild(below[t.nodes[i].right], i, "right")
                               EXCEPT !.nodes = RebalanceInserted(@, i, key)], idx |-> i]
<1>1. PICK side : side = IF key < t.nodes[i].key THEN "left" ELSE "right"
  OBVIOUS
<1>2. key # t.nodes[i].key /\ side = "right"
  BY <1>1
<1>3. InsertFrom(t, key, data, below)[i]
          = [tree |-> [WithChild(below[t.nodes[i][side]], i, side)
                          EXCEPT !.nodes = RebalanceInserted(@, i, key)], idx |-> i]
  BY <1>1, <1>2 DEF InsertFrom
<1>4. t.nodes[i][side] = t.nodes[i].right
  BY <1>2
<1>. QED  BY <1>2, <1>3, <1>4

\* The recursive calls for smaller trees.
LEMMA InsertStep ==
    ASSUME NEW N \in Nat, NEW t, IsTree(t, N), NEW key \in Int, NEW data, NEW below,
           Head(t.free) \in 0 .. N - 1,
           NEW i, NEW S, Tree(t.nodes, i, S), Head(t.free) \notin S, \A j \in S : t.nodes[j].key # key,
           \A j \in -1 .. N - 1, U \in SUBSET S :
               Tree(t.nodes, j, U) /\ NodeHeight(t.nodes, j) < NodeHeight(t.nodes, i)
               => PutIn(t, N, key, data, j, U, below[j])
    PROVE  PutIn(t, N, key, data, i, S, InsertFrom(t, key, data, below)[i])
<1>1. PICK n, new, r : n = t.nodes /\ new = Head(t.free) /\ r = InsertFrom(t, key, data, below)[i]
  OBVIOUS
<1>2. IsArray(n, N) /\ i \in Indexes(n) /\ new \in 0 .. N - 1 /\ new \notin S
  BY <1>1 DEF IsTree, Tree, Indexes
<1>3. CASE i = Null
  <2>1. S = {}
    BY <1>3, NullTree
  <2>2. PICK m : m = [n EXCEPT ![new] = Node(key, data)]
    OBVIOUS
  <2>3. r = [tree |-> [t EXCEPT !.nodes[new] = Node(key, data), !.free = Tail(@), !.elements = @ + 1],
             idx  |-> new]
    BY <1>1, <1>2, <1>3 DEF InsertFrom
  <2>4. r.tree = Fields(m, Tail(t.free), t.elements + 1, t.root) /\ r.idx = new
    <3>1. t = Fields(n, t.free, t.elements, t.root)
      BY <1>1 DEF IsTree
    <3>2. [t EXCEPT !.nodes[new] = Node(key, data), !.free = Tail(@), !.elements = @ + 1]
              = Fields([n EXCEPT ![new] = Node(key, data)], Tail(t.free), t.elements + 1, t.root)
      <4>1. PICK f, e, o, x : f = t.free /\ e = t.elements /\ o = t.root /\ x = Node(key, data)
        OBVIOUS
      <4>2. t = Fields(n, f, e, o)
        BY <3>1, <4>1
      <4>3. PICK w : w = [t EXCEPT !.nodes[new] = x, !.free = Tail(@), !.elements = @ + 1]
        OBVIOUS
      <4>4. w = [t EXCEPT !.nodes[new] = x, !.free = Tail(t.free), !.elements = t.elements + 1]
        BY <4>3
      <4>5. w = Fields([n EXCEPT ![new] = x], Tail(f), e + 1, o)
        BY <4>2, <4>3, <4>4 DEF Fields
      <4>. QED  BY <4>1, <4>3, <4>5
    <3>. QED  BY <2>2, <2>3, <3>2
  <2>5. r.tree.nodes = m
    BY <2>4 DEF Fields
  <2>6. Grown(n, m, N, Null, new, {}, new, key, data)
    BY <1>2, <2>2, GrownNew
  <2>. QED  BY <1>1, <1>3, <2>1, <2>4, <2>5, <2>6 DEF PutIn
<1>4. CASE i # Null
  <2>1. PICK L, R \in SUBSET S, hl, hr \in Nat : Divided(n, N, i, S, L, R, hl, hr)
    BY <1>1, <1>2, <1>4, Parts
  <2>2. /\ Branch(n, i, L, R) /\ S = {i} \cup L \cup R /\ i \in 0 .. N - 1
        /\ hl = NodeHeight(n, n[i].left) /\ hr = NodeHeight(n, n[i].right)
        /\ NodeHeight(n, i) = 1 + Higher(hl, hr)
    BY <2>1 DEF Divided
  <2>3. /\ Tree(n, n[i].left, L) /\ hl < NodeHeight(n, i) /\ n[i].left \in -1 .. N - 1
        /\ Tree(n, n[i].right, R) /\ hr < NodeHeight(n, i) /\ n[i].right \in -1 .. N - 1
    BY <1>2, <2>2, ArrayNode DEF Branch, Higher
  <2>4. key # n[i].key /\ n[i].key \in Int
    BY <1>1, <1>2, <2>2, ArrayNode
  <2>5. CASE key < n[i].key
    <3>1. PICK sub : sub = below[n[i].left] /\ PutIn(t, N, key, data, n[i].left, L, sub)
      BY <1>1, <2>2, <2>3
    <3>2. PICK m, x : /\ m = sub.tree.nodes /\ x = sub.idx
                      /\ sub.tree = Fields(m, Tail(t.free), t.elements + 1, t.root)
                      /\ Grown(n, m, N, n[i].left, x, L, new, key, data)
      BY <1>1, <3>1 DEF PutIn
    <3>3. PICK done : done = WithChild(sub, i, "left")
      OBVIOUS
    <3>9. done = Fields(SetLeft(m, i, x), Tail(t.free), t.elements + 1, t.root)
      <4>1. sub.tree = Fields(m, Tail(t.free), t.elements + 1, t.root)
        BY <3>2
      <4>2. WithChild(sub, i, "left") = Fields(SetLeft(m, i, sub.idx), Tail(t.free), t.elements + 1, t.root)
        BY <4>1, ChildPut
      <4>. QED  BY <3>2, <3>3, <4>2
    <3>4. r = [tree |-> [done EXCEPT !.nodes = RebalanceInserted(@, i, key)], idx |-> i]
      <4>1. r = [tree |-> [WithChild(below[n[i].left], i, "left")
                              EXCEPT !.nodes = RebalanceInserted(@, i, key)], idx |-> i]
        BY <1>1, <1>2, <1>4, <2>4, <2>5, InsertLower
      <4>. QED  BY <3>1, <3>3, <4>1
    <3>5. PICK q : q = RebalanceInserted(SetLeft(m, i, x), i, key)
      OBVIOUS
    <3>6. r.tree = Fields(q, Tail(t.free), t.elements + 1, t.root) /\ r.idx = i
      <4>1. /\ [done EXCEPT !.nodes = q] = Fields(q, Tail(t.free), t.elements + 1, t.root)
            /\ done.nodes = SetLeft(m, i, x)
        BY <3>9, NodesPut
      <4>2. r = [tree |-> [done EXCEPT !.nodes = q], idx |-> i]
        BY <3>4, <3>5, <4>1
      <4>. QED  BY <4>1, <4>2
    <3>7. r.tree.nodes = q
      BY <3>6 DEF Fields
    <3>8. Grown(n, q, N, i, i, S, new, key, data)
      BY <1>2, <2>1, <2>5, <3>2, <3>5, GrownLeft
    <3>. QED  BY <1>1, <3>6, <3>7, <3>8 DEF PutIn
  <2>6. CASE key > n[i].key
    <3>1. PICK sub : sub = below[n[i].right] /\ PutIn(t, N, key, data, n[i].right, R, sub)
      BY <1>1, <2>2, <2>3
    <3>2. PICK m, x : /\ m = sub.tree.nodes /\ x = sub.idx
                      /\ sub.tree = Fields(m, Tail(t.free), t.elements + 1, t.root)
                      /\ Grown(n, m, N, n[i].right, x, R, new, key, data)
      BY <1>1, <3>1 DEF PutIn
    <3>3. PICK done : done = WithChild(sub, i, "right")
      OBVIOUS
    <3>9. done = Fields(SetRight(m, i, x), Tail(t.free), t.elements + 1, t.root)
      <4>1. sub.tree = Fields(m, Tail(t.free), t.elements + 1, t.root)
        BY <3>2
      <4>2. WithChild(sub, i, "right") = Fields(SetRight(m, i, sub.idx), Tail(t.free), t.elements + 1, t.root)
        BY <4>1, ChildPut
      <4>. QED  BY <3>2, <3>3, <4>2
    <3>4. r = [tree |-> [done EXCEPT !.nodes = RebalanceInserted(@, i, key)], idx |-> i]
      <4>1. r = [tree |-> [WithChild(below[n[i].right], i, "right")
                              EXCEPT !.nodes = RebalanceInserted(@, i, key)], idx |-> i]
        BY <1>1, <1>2, <1>4, <2>4, <2>6, InsertHigher
      <4>. QED  BY <3>1, <3>3, <4>1
    <3>5. PICK q : q = RebalanceInserted(SetRight(m, i, x), i, key)
      OBVIOUS
    <3>6. r.tree = Fields(q, Tail(t.free), t.elements + 1, t.root) /\ r.idx = i
      <4>1. /\ [done EXCEPT !.nodes = q] = Fields(q, Tail(t.free), t.elements + 1, t.root)
            /\ done.nodes = SetRight(m, i, x)
        BY <3>9, NodesPut
      <4>2. r = [tree |-> [done EXCEPT !.nodes = q], idx |-> i]
        BY <3>4, <3>5, <4>1
      <4>. QED  BY <4>1, <4>2
    <3>7. r.tree.nodes = q
      BY <3>6 DEF Fields
    <3>8. Grown(n, q, N, i, i, S, new, key, data)
      BY <1>2, <2>1, <2>6, <3>2, <3>5, GrownRight
    <3>. QED  BY <1>1, <3>6, <3>7, <3>8 DEF PutIn
  <2>. QED  BY <2>4, <2>5, <2>6
<1>. QED  BY <1>3, <1>4

\* The whole recursion.
LEMMA InsertedBelow ==
    ASSUME NEW N \in Nat, NEW t, IsTree(t, N), NEW key \in Int, NEW data, Head(t.free) \in 0 .. N - 1,
           NEW i, NEW S, Tree(t.nodes, i, S), Head(t.free) \notin S, \A j \in S : t.nodes[j].key # key
    PROVE  PutIn(t, N, key, data, i, S, InsertBelow(t, key, data)[i])
<1>1. PICK n, new : n = t.nodes /\ new = Head(t.free)
  OBVIOUS
<1>2. IsArray(n, N) /\ new \in 0 .. N - 1 /\ new \notin S /\ Size(n) = N /\ S \in SUBSET (0 .. N - 1)
  BY <1>1, ArraySize DEF IsTree, Tree
<1>3. PICK f : /\ InsertBelow(t, key, data) = f[N]
               /\ \A d \in 1 .. N : f[d] = InsertFrom(t, key, data, f[d - 1])
  <2>1. Size(t.nodes) = N /\ Size(t.nodes) \in Nat
    BY <1>1, <1>2
  <2>2. PICK f : /\ InsertBelow(t, key, data) = f[Size(t.nodes)]
                 /\ f[0] = [j \in Indexes(t.nodes) |-> [tree |-> t, idx |-> j]]
                 /\ \A d \in 1 .. Size(t.nodes) : f[d] = InsertFrom(t, key, data, f[d - 1])
    BY <2>1, InsertCalls
  <2>. QED  BY <2>1, <2>2
<1> DEFINE T == {d \in 0 .. N : \A j \in -1 .. N - 1, U \in SUBSET S :
                    Tree(n, j, U) /\ NodeHeight(n, j) < d => PutIn(t, N, key, data, j, U, f[d][j])}
<1>4. 0 \in T
  <2>1. ASSUME NEW j \in -1 .. N - 1, NEW U \in SUBSET S, Tree(n, j, U), NodeHeight(n, j) < 0
        PROVE  FALSE
    BY <1>2, <2>1, HeightType
  <2>. QED  BY <2>1
<1>5. ASSUME NEW d \in 0 .. N, d < N, d \in T PROVE d + 1 \in T
  <2>1. d + 1 \in 1 .. N /\ (d + 1) - 1 = d /\ f[d + 1] = InsertFrom(t, key, data, f[d])
    BY <1>3, <1>5
  <2>2. ASSUME NEW j \in -1 .. N - 1, NEW U \in SUBSET S, Tree(n, j, U), NodeHeight(n, j) < d + 1
        PROVE  PutIn(t, N, key, data, j, U, f[d + 1][j])
    <3>1. NodeHeight(n, j) \in Nat
      BY <1>2, <2>2, HeightType
    <3>2. \A k \in -1 .. N - 1, V \in SUBSET U :
             Tree(n, k, V) /\ NodeHeight(n, k) < NodeHeight(n, j) => PutIn(t, N, key, data, k, V, f[d][k])
      <4>1. ASSUME NEW k \in -1 .. N - 1, NEW V \in SUBSET U, Tree(n, k, V), NodeHeight(n, k) < NodeHeight(n, j)
            PROVE  PutIn(t, N, key, data, k, V, f[d][k])
        <5>1. NodeHeight(n, k) \in Nat
          BY <1>2, <4>1, HeightType
        <5>2. NodeHeight(n, k) < d /\ V \in SUBSET S
          BY <2>2, <3>1, <4>1, <5>1
        <5>. QED  BY <1>5, <4>1, <5>2
      <4>. QED  BY <4>1
    <3>3. PutIn(t, N, key, data, j, U, InsertFrom(t, key, data, f[d])[j])
      <4>1. new \notin U /\ \A k \in U : n[k].key # key
        BY <1>1, <1>2
      <4> HIDE DEF T
      <4>. QED  BY <1>1, <1>2, <2>2, <3>2, <4>1, InsertStep
    <3>. QED  BY <2>1, <3>3
  <2>. QED  BY <2>1, <2>2
<1>6. NodeHeight(n, i) < N
  <2>1. PICK W : W = (0 .. N - 1) \ {new}
    OBVIOUS
  <2>6. S \in SUBSET W
    BY <1>2, <2>1
  <2>2. IsFiniteSet(0 .. N - 1) /\ Cardinality(0 .. N - 1) = N
    BY FS_Interval
  <2>3. Cardinality(W) = N - 1 /\ IsFiniteSet(W)
    BY <1>2, <2>1, <2>2, FS_RemoveElement
  <2>4. Cardinality(S) <= N - 1
    BY <2>3, <2>6, FS_Subset
  <2>5. NodeHeight(n, i) <= Cardinality(S) /\ Cardinality(S) \in Nat /\ NodeHeight(n, i) \in Nat
    BY <1>1, <1>2, HeightBound, HeightType
  <2>. QED  BY <2>4, <2>5
<1>7. N \in T
  <2> HIDE DEF T
  <2>1. \A d \in 0 .. N : d < N /\ d \in T => d + 1 \in T
    BY <1>5
  <2>2. \A d \in 0 .. N : d \in T
    BY <1>4, <2>1, OneByOne
  <2>. QED  BY <2>2
<1>8. i \in -1 .. N - 1 /\ S \in SUBSET S
  BY <1>1, <1>2 DEF Tree, IsArray, Null
<1>. QED  BY <1>1, <1>3, <1>6, <1>7, <1>8

(***************************************************************************)
(* What holds of the empty tree, and of a tree when it holds of its two    *)
(* subtrees, holds of all: G is the set of the trees it holds of.          *)
(***************************************************************************)
StepsUp(n, N, G) ==
    \A i \in 0 .. N - 1, S, L, R \in SUBSET (0 .. N - 1), hl, hr \in Nat :
        /\ Tree(n, i, S) /\ Divided(n, N, i, S, L, R, hl, hr)
        /\ <<n[i].left, L>> \in G /\ <<n[i].right, R>> \in G
        => <<i, S>> \in G

\* All trees are in G, the empty one first, and then from the small to the large.
LEMMA TreeInduction ==
    ASSUME NEW N \in Nat, NEW n, IsArray(n, N), NEW G, <<Null, {}>> \in G, StepsUp(n, N, G),
           NEW i, NEW S, Tree(n, i, S)
    PROVE  <<i, S>> \in G
<1> DEFINE T == {d \in Nat : \A j \in -1 .. N - 1, U \in SUBSET (0 .. N - 1) :
                    Tree(n, j, U) /\ NodeHeight(n, j) <= d => <<j, U>> \in G}
<1>1. 0 \in T
  <2>1. ASSUME NEW j \in -1 .. N - 1, NEW U \in SUBSET (0 .. N - 1), Tree(n, j, U), NodeHeight(n, j) <= 0
        PROVE  <<j, U>> \in G
    <3>1. j = Null
      BY <2>1, HeightType
    <3>2. U = {}
      BY <2>1, <3>1, NullTree
    <3>. QED  BY <3>1, <3>2
  <2>. QED  BY <2>1
<1>2. ASSUME NEW d \in Nat, d \in T PROVE d + 1 \in T
  <2>1. ASSUME NEW j \in -1 .. N - 1, NEW U \in SUBSET (0 .. N - 1), Tree(n, j, U), NodeHeight(n, j) <= d + 1
        PROVE  <<j, U>> \in G
    <3>1. CASE j = Null
      <4>1. U = {}
        BY <2>1, <3>1, NullTree
      <4>. QED  BY <3>1, <4>1
    <3>2. CASE j # Null
      <4>1. PICK L, R \in SUBSET U, hl, hr \in Nat : Divided(n, N, j, U, L, R, hl, hr)
        BY <2>1, <3>2, Parts
      <4>2. /\ Branch(n, j, L, R) /\ j \in 0 .. N - 1
            /\ hl = NodeHeight(n, n[j].left) /\ hr = NodeHeight(n, n[j].right)
            /\ NodeHeight(n, j) = 1 + Higher(hl, hr)
        BY <4>1 DEF Divided
      <4>3. hl <= d /\ hr <= d
        BY <2>1, <4>2 DEF Higher
      <4>4. Tree(n, n[j].left, L) /\ Tree(n, n[j].right, R)
        BY <4>2 DEF Branch
      <4>5. n[j].left \in -1 .. N - 1 /\ n[j].right \in -1 .. N - 1
        BY <4>2, ArrayNode
      <4>6. <<n[j].left, L>> \in G /\ <<n[j].right, R>> \in G
        BY <1>2, <4>2, <4>3, <4>4, <4>5
      <4>. QED  BY <2>1, <4>1, <4>2, <4>6 DEF StepsUp
    <3>. QED  BY <3>1, <3>2
  <2>. QED  BY <2>1
<1>3. PICK h : h = NodeHeight(n, i) /\ h \in Nat
  BY HeightType
<1>4. h \in T
  <2> HIDE DEF T
  <2>1. \A d \in 0 .. h : d < h /\ d \in T => d + 1 \in T
    BY <1>2
  <2>2. \A d \in 0 .. h : d \in T
    BY <1>1, <1>3, <2>1, OneByOne
  <2>. QED  BY <1>3, <2>2
<1>5. i \in -1 .. N - 1 /\ S \in SUBSET (0 .. N - 1)
  BY DEF Tree, IsArray, Null
<1>. QED  BY <1>3, <1>4, <1>5

\* The pairs of an index of the array and a set of its nodes.
Subtrees(N) == (-1 .. N - 1) \X SUBSET (0 .. N - 1)

\* The trees of an array are among the pairs of an index and a set of indexes.
LEMMA IsSubtree ==
    ASSUME NEW N \in Nat, NEW x \in 0 .. N - 1, NEW U \in SUBSET (0 .. N - 1)
    PROVE  <<x, U>> \in Subtrees(N)
<1>1. x \in -1 .. N - 1
  OBVIOUS
<1>. QED  BY <1>1 DEF Subtrees

\* No two nodes of a tree have the same key.
LEMMA Distinct ==
    ASSUME NEW N \in Nat, NEW n, IsArray(n, N), NEW i, NEW S, Tree(n, i, S),
           NEW j \in S, NEW k \in S, n[j].key = n[k].key
    PROVE  j = k
<1> DEFINE G == {g \in Subtrees(N) : \A a, b \in g[2] : n[a].key = n[b].key => a = b}
<1>1. <<Null, {}>> \in G
  BY DEF Subtrees, Null
<1>2. StepsUp(n, N, G)
  <2>1. ASSUME NEW x \in 0 .. N - 1, NEW U \in SUBSET (0 .. N - 1), NEW L \in SUBSET (0 .. N - 1),
               NEW R \in SUBSET (0 .. N - 1), NEW hl, NEW hr, Divided(n, N, x, U, L, R, hl, hr),
               <<n[x].left, L>> \in G, <<n[x].right, R>> \in G
        PROVE  <<x, U>> \in G
    <3>1. /\ U = {x} \cup L \cup R
          /\ \A a \in L : n[a].key < n[x].key
          /\ \A a \in R : n[a].key > n[x].key
      BY <2>1 DEF Divided, Branch, Ordered, Below, Above
    <3>2. \A a \in 0 .. N - 1 : n[a].key \in Int
      BY ArrayNode
    <3>3. /\ \A a, b \in L : n[a].key = n[b].key => a = b
          /\ \A a, b \in R : n[a].key = n[b].key => a = b
      BY <2>1
    <3>4. \A a, b \in U : n[a].key = n[b].key => a = b
      BY <3>1, <3>2, <3>3
    <3>5. <<x, U>> \in Subtrees(N)
      BY IsSubtree
    <3>. QED  BY <3>4, <3>5
  <2>. QED  BY <2>1 DEF StepsUp
<1>3. <<i, S>> \in G
  <2> HIDE DEF G
  <2>. QED  BY <1>1, <1>2, TreeInduction
<1>. QED  BY <1>3

\* The calls deep enough return what they should.
\* Lookup: the node with the key, if there is one.
Looked(n, S, key, j) ==
    /\ j \in S \cup {Null}
    /\ j # Null => n[j].key = key
    /\ j = Null => \A k \in S : n[k].key # key

\* The recursion of lookup finds it.
LEMMA Found ==
    ASSUME NEW N \in Nat, NEW n, IsArray(n, N), NEW i, NEW S, Tree(n, i, S), NEW key \in Int
    PROVE  Looked(n, S, key, LookupBelow(n, key)[i])
<1>1. PICK f : /\ LookupBelow(n, key) = f[N]
               /\ f[0] = [j \in Indexes(n) |-> j]
               /\ \A d \in 1 .. N : f[d] = LookupFrom(n, key, f[d - 1])
  <2>1. Size(n) = N /\ Size(n) \in Nat
    BY ArraySize
  <2>2. PICK f : /\ LookupBelow(n, key) = f[Size(n)]
                 /\ f[0] = [j \in Indexes(n) |-> j]
                 /\ \A d \in 1 .. Size(n) : f[d] = LookupFrom(n, key, f[d - 1])
    BY <2>1, LookupCalls
  <2>. QED  BY <2>1, <2>2
<1> DEFINE G == {g \in Subtrees(N) : \A d \in 0 .. N : NodeHeight(n, g[1]) <= d => Looked(n, g[2], key, f[d][g[1]])}
<1>2. <<Null, {}>> \in G
  <2>1. ASSUME NEW d \in 0 .. N PROVE f[d][Null] = Null
    <3>1. Null \in Indexes(n)
      BY DEF Indexes
    <3>2. CASE d = 0
      BY <1>1, <3>1, <3>2
    <3>3. CASE d # 0
      <4>1. f[d] = LookupFrom(n, key, f[d - 1])
        BY <1>1, <3>3
      <4>. QED  BY <3>1, <4>1 DEF LookupFrom
    <3>. QED  BY <3>2, <3>3
  <2>2. \A d \in 0 .. N : Looked(n, {}, key, f[d][Null])
    BY <2>1 DEF Looked
  <2>3. <<Null, {}>> \in Subtrees(N)
    BY DEF Subtrees, Null
  <2>. QED  BY <2>2, <2>3
<1>3. StepsUp(n, N, G)
  <2>1. ASSUME NEW x \in 0 .. N - 1, NEW U \in SUBSET (0 .. N - 1), NEW L \in SUBSET (0 .. N - 1),
               NEW R \in SUBSET (0 .. N - 1), NEW hl \in Nat, NEW hr \in Nat, Divided(n, N, x, U, L, R, hl, hr),
               <<n[x].left, L>> \in G, <<n[x].right, R>> \in G
        PROVE  <<x, U>> \in G
    <3>1. /\ U = {x} \cup L \cup R
          /\ hl = NodeHeight(n, n[x].left) /\ hr = NodeHeight(n, n[x].right)
          /\ NodeHeight(n, x) = 1 + Higher(hl, hr) /\ n[x].key \in Int
          /\ \A a \in L : n[a].key < n[x].key
          /\ \A a \in R : n[a].key > n[x].key
      BY <2>1, ArrayNode DEF Divided, Branch, Ordered, Below, Above
    <3>2. ASSUME NEW d \in 0 .. N, NodeHeight(n, x) <= d PROVE Looked(n, U, key, f[d][x])
      <4>1. d \in 1 .. N /\ d - 1 \in 0 .. N /\ hl <= d - 1 /\ hr <= d - 1
        BY <3>1, <3>2 DEF Higher
      <4>2. Looked(n, L, key, f[d - 1][n[x].left]) /\ Looked(n, R, key, f[d - 1][n[x].right])
        BY <2>1, <3>1, <4>1
      <4>3. x \in Indexes(n) /\ x # Null
        <5>1. Indexes(n) = -1 .. N - 1
          BY ArraySize
        <5>. QED  BY <5>1 DEF Null
      <4>4. f[d][x] = IF key = n[x].key THEN x
                      ELSE f[d - 1][IF key < n[x].key THEN n[x].left ELSE n[x].right]
        <5>1. PICK g : g = f[d - 1] /\ f[d] = LookupFrom(n, key, g)
          BY <1>1, <4>1
        <5>. QED  BY <4>3, <5>1 DEF LookupFrom
      <4>5. CASE key = n[x].key
        BY <3>1, <4>3, <4>4, <4>5 DEF Looked
      <4>6. CASE key < n[x].key
        <5>1. f[d][x] = f[d - 1][n[x].left]
          BY <3>1, <4>4, <4>6
        <5>2. \A a \in R : n[a].key \in Int
          BY ArrayNode
        <5>3. \A a \in {x} \cup R : n[a].key # key
          BY <3>1, <4>6, <5>2
        <5>. QED  BY <3>1, <4>2, <5>1, <5>3 DEF Looked
      <4>7. CASE key > n[x].key
        <5>1. f[d][x] = f[d - 1][n[x].right]
          BY <3>1, <4>4, <4>7
        <5>2. \A a \in L : n[a].key \in Int
          BY ArrayNode
        <5>3. \A a \in {x} \cup L : n[a].key # key
          BY <3>1, <4>7, <5>2
        <5>. QED  BY <3>1, <4>2, <5>1, <5>3 DEF Looked
      <4>. QED  BY <3>1, <4>5, <4>6, <4>7
    <3>3. <<x, U>> \in Subtrees(N)
      BY IsSubtree
    <3>. QED  BY <3>2, <3>3
  <2>. QED  BY <2>1 DEF StepsUp
<1>4. <<i, S>> \in G
  <2> HIDE DEF G
  <2>. QED  BY <1>2, <1>3, TreeInduction
<1>5. NodeHeight(n, i) <= N /\ N \in 0 .. N
  BY TreeCalculated
<1>. QED  BY <1>1, <1>4, <1>5

\* The smallest key of a tree.
Least(n, S, j) == j \in S /\ \A k \in S : n[j].key <= n[k].key

\* The recursion to the left finds it.
LEMMA LeastFound ==
    ASSUME NEW N \in Nat, NEW n, IsArray(n, N), NEW i, NEW S, Tree(n, i, S), i # Null
    PROVE  Least(n, S, MinKeyNode(n)[i])
<1>1. PICK f : /\ MinKeyNode(n) = f[N]
               /\ \A d \in 1 .. N : f[d] = LeftmostFrom(n, f[d - 1])
  <2>1. Size(n) = N /\ Size(n) \in Nat
    BY ArraySize
  <2>2. PICK f : /\ MinKeyNode(n) = f[Size(n)]
                 /\ f[0] = [j \in Indexes(n) |-> j]
                 /\ \A d \in 1 .. Size(n) : f[d] = LeftmostFrom(n, f[d - 1])
    BY <2>1, LeftmostCalls
  <2>. QED  BY <2>1, <2>2
<1> DEFINE G == {g \in Subtrees(N) :
                    /\ g[1] = Null => g[2] = {}
                    /\ g[1] # Null => \A d \in 0 .. N : NodeHeight(n, g[1]) <= d => Least(n, g[2], f[d][g[1]])}
<1>2. <<Null, {}>> \in G
  BY DEF Subtrees, Null
<1>3. StepsUp(n, N, G)
  <2>1. ASSUME NEW x \in 0 .. N - 1, NEW U \in SUBSET (0 .. N - 1), NEW L \in SUBSET (0 .. N - 1),
               NEW R \in SUBSET (0 .. N - 1), NEW hl \in Nat, NEW hr \in Nat, Divided(n, N, x, U, L, R, hl, hr),
               <<n[x].left, L>> \in G, <<n[x].right, R>> \in G
        PROVE  <<x, U>> \in G
    <3>1. /\ U = {x} \cup L \cup R
          /\ hl = NodeHeight(n, n[x].left)
          /\ NodeHeight(n, x) = 1 + Higher(hl, hr) /\ n[x].key \in Int
          /\ \A a \in L : n[a].key < n[x].key
          /\ \A a \in R : n[a].key > n[x].key
      BY <2>1, ArrayNode DEF Divided, Branch, Ordered, Below, Above
    <3>2. ASSUME NEW d \in 0 .. N, NodeHeight(n, x) <= d PROVE Least(n, U, f[d][x])
      <4>1. d \in 1 .. N /\ d - 1 \in 0 .. N /\ hl <= d - 1
        BY <3>1, <3>2 DEF Higher
      <4>2. x \in Indexes(n)
        BY ArraySize
      <4>3. f[d][x] = IF n[x].left = Null THEN x ELSE f[d - 1][n[x].left]
        <5>1. PICK g : g = f[d - 1] /\ f[d] = LeftmostFrom(n, g)
          BY <1>1, <4>1
        <5>. QED  BY <4>2, <5>1 DEF LeftmostFrom
      <4>4. \A a \in U : n[a].key \in Int
        BY ArrayNode
      <4>5. CASE n[x].left = Null
        <5>1. L = {}
          BY <2>1, <4>5
        <5>. QED  BY <3>1, <4>3, <4>4, <4>5, <5>1 DEF Least
      <4>6. CASE n[x].left # Null
        <5>1. PICK j : j = f[d - 1][n[x].left] /\ Least(n, L, j)
          BY <2>1, <3>1, <4>1, <4>6
        <5>2. j \in L /\ f[d][x] = j /\ \A k \in L : n[j].key <= n[k].key
          BY <4>3, <4>6, <5>1 DEF Least
        <5>3. \A k \in {x} \cup R : n[j].key <= n[k].key
          BY <3>1, <4>4, <5>2
        <5>. QED  BY <3>1, <5>2, <5>3 DEF Least
      <4>. QED  BY <4>5, <4>6
    <3>3. <<x, U>> \in Subtrees(N) /\ x # Null
      BY IsSubtree DEF Null
    <3>. QED  BY <3>2, <3>3
  <2>. QED  BY <2>1 DEF StepsUp
<1>4. <<i, S>> \in G
  <2> HIDE DEF G
  <2>. QED  BY <1>2, <1>3, TreeInduction
<1>5. NodeHeight(n, i) <= N /\ N \in 0 .. N
  BY TreeCalculated
<1>. QED  BY <1>1, <1>4, <1>5

\* The nodes that are reached are those of the tree.
LEMMA Reached ==
    ASSUME NEW N \in Nat, NEW n, IsArray(n, N), NEW i, NEW S, Tree(n, i, S)
    PROVE  Reachable(n)[i] = S
<1>1. PICK f : /\ Reachable(n) = f[N]
               /\ f[0] = [j \in Indexes(n) |-> {}]
               /\ \A d \in 1 .. N : f[d] = ReachedFrom(n, f[d - 1])
  <2>1. Size(n) = N /\ Size(n) \in Nat
    BY ArraySize
  <2>2. PICK f : /\ Reachable(n) = f[Size(n)]
                 /\ f[0] = [j \in Indexes(n) |-> {}]
                 /\ \A d \in 1 .. Size(n) : f[d] = ReachedFrom(n, f[d - 1])
    BY <2>1, ReachedCalls
  <2>. QED  BY <2>1, <2>2
<1> DEFINE G == {g \in Subtrees(N) : \A d \in 0 .. N : NodeHeight(n, g[1]) <= d => f[d][g[1]] = g[2]}
<1>2. <<Null, {}>> \in G
  <2>1. ASSUME NEW d \in 0 .. N PROVE f[d][Null] = {}
    <3>1. Null \in Indexes(n)
      BY DEF Indexes
    <3>2. CASE d = 0
      BY <1>1, <3>1, <3>2
    <3>3. CASE d # 0
      <4>1. f[d] = ReachedFrom(n, f[d - 1])
        BY <1>1, <3>3
      <4>. QED  BY <3>1, <4>1 DEF ReachedFrom
    <3>. QED  BY <3>2, <3>3
  <2>2. <<Null, {}>> \in Subtrees(N)
    BY DEF Subtrees, Null
  <2>. QED  BY <2>1, <2>2
<1>3. StepsUp(n, N, G)
  <2>1. ASSUME NEW x \in 0 .. N - 1, NEW U \in SUBSET (0 .. N - 1), NEW L \in SUBSET (0 .. N - 1),
               NEW R \in SUBSET (0 .. N - 1), NEW hl \in Nat, NEW hr \in Nat, Divided(n, N, x, U, L, R, hl, hr),
               <<n[x].left, L>> \in G, <<n[x].right, R>> \in G
        PROVE  <<x, U>> \in G
    <3>1. /\ U = {x} \cup L \cup R
          /\ hl = NodeHeight(n, n[x].left) /\ hr = NodeHeight(n, n[x].right)
          /\ NodeHeight(n, x) = 1 + Higher(hl, hr)
      BY <2>1 DEF Divided
    <3>2. ASSUME NEW d \in 0 .. N, NodeHeight(n, x) <= d PROVE f[d][x] = U
      <4>1. d \in 1 .. N /\ d - 1 \in 0 .. N /\ hl <= d - 1 /\ hr <= d - 1
        BY <3>1, <3>2 DEF Higher
      <4>2. x \in Indexes(n) /\ x # Null
        <5>1. Indexes(n) = -1 .. N - 1
          BY ArraySize
        <5>. QED  BY <5>1 DEF Null
      <4>3. f[d][x] = {x} \cup f[d - 1][n[x].left] \cup f[d - 1][n[x].right]
        <5>1. PICK g : g = f[d - 1] /\ f[d] = ReachedFrom(n, g)
          BY <1>1, <4>1
        <5>. QED  BY <4>2, <5>1 DEF ReachedFrom
      <4>4. f[d - 1][n[x].left] = L /\ f[d - 1][n[x].right] = R
        BY <2>1, <3>1, <4>1
      <4>. QED  BY <3>1, <4>3, <4>4
    <3>3. <<x, U>> \in Subtrees(N)
      BY IsSubtree
    <3>. QED  BY <3>2, <3>3
  <2>. QED  BY <2>1 DEF StepsUp
<1>4. <<i, S>> \in G
  <2> HIDE DEF G
  <2>. QED  BY <1>2, <1>3, TreeInduction
<1>5. NodeHeight(n, i) <= N /\ N \in 0 .. N
  BY TreeCalculated
<1>. QED  BY <1>1, <1>4, <1>5

\* A list of the elements of a set, each of them once.
Lists(q, T) ==
    /\ q \in Seq(T)
    /\ \A a, b \in 1 .. Len(q) : q[a] = q[b] => a = b
    /\ \A x \in T : \E a \in 1 .. Len(q) : q[a] = x

\* Two lists one after the other.
LEMMA ListsTogether ==
    ASSUME NEW A, NEW B, A \cap B = {}, NEW p, NEW q, Lists(p, A), Lists(q, B)
    PROVE  Lists(p \o q, A \cup B)
<1>1. PICK r, j, k : r = p \o q /\ j = Len(p) /\ k = Len(q)
  OBVIOUS
<1>2. p \in Seq(A \cup B) /\ q \in Seq(A \cup B) /\ j \in Nat /\ k \in Nat
  BY <1>1 DEF Lists
<1>3. /\ r \in Seq(A \cup B) /\ Len(r) = j + k
      /\ \A a \in 1 .. j + k : r[a] = IF a <= j THEN p[a] ELSE q[a - j]
  BY <1>1, <1>2
<1>4. /\ \A a \in 1 .. j : r[a] = p[a] /\ p[a] \in A
      /\ \A a \in 1 .. k : j + a \in 1 .. j + k /\ r[j + a] = q[a] /\ q[a] \in B
  BY <1>1, <1>2, <1>3 DEF Lists
<1>5. ASSUME NEW a \in 1 .. j + k, NEW b \in 1 .. j + k, r[a] = r[b] PROVE a = b
  <2>1. CASE a <= j /\ b <= j
    BY <1>1, <1>2, <1>4, <1>5, <2>1 DEF Lists
  <2>2. CASE a > j /\ b > j
    <3>1. a - j \in 1 .. k /\ b - j \in 1 .. k /\ r[a] = q[a - j] /\ r[b] = q[b - j]
      BY <1>2, <1>3, <2>2
    <3>2. a - j = b - j
      BY <1>1, <1>5, <3>1 DEF Lists
    <3>. QED  BY <1>2, <3>2
  <2>3. CASE a <= j /\ b > j
    <3>1. b - j \in 1 .. k /\ r[b] = q[b - j] /\ a \in 1 .. j
      BY <1>2, <1>3, <2>3
    <3>. QED  BY <1>4, <1>5, <3>1
  <2>4. CASE a > j /\ b <= j
    <3>1. a - j \in 1 .. k /\ r[a] = q[a - j] /\ b \in 1 .. j
      BY <1>2, <1>3, <2>4
    <3>. QED  BY <1>4, <1>5, <3>1
  <2>. QED  BY <1>2, <2>1, <2>2, <2>3, <2>4
<1>6. ASSUME NEW x \in A \cup B PROVE \E a \in 1 .. j + k : r[a] = x
  <2>1. CASE x \in A
    <3>1. PICK a \in 1 .. j : p[a] = x
      BY <1>1, <2>1 DEF Lists
    <3>2. r[a] = x
      BY <1>4, <3>1
    <3>3. a \in 1 .. j + k
      BY <1>2, <3>1
    <3>. QED  BY <3>2, <3>3
  <2>2. CASE x \in B
    <3>1. PICK a \in 1 .. k : q[a] = x
      BY <1>1, <2>2 DEF Lists
    <3>. QED  BY <1>4, <3>1
  <2>. QED  BY <2>1, <2>2
<1>. QED  BY <1>1, <1>3, <1>5, <1>6 DEF Lists

\* The matching nodes of a tree, each of them once.
LEMMA Matched ==
    ASSUME NEW N \in Nat, NEW t, IsTree(t, N), NEW S, Tree(t.nodes, t.root, S), NEW matching
    PROVE  Lists(FindMatchingData(t, matching), S \cap matching)
<1>0. PICK n, i : n = t.nodes /\ i = t.root
  OBVIOUS
<1>7. IsArray(n, N) /\ Tree(n, i, S)
  BY <1>0 DEF IsTree
<1>1. PICK f : /\ FindMatchingData(t, matching) = f[N][i]
               /\ f[0] = [j \in Indexes(n) |-> <<>>]
               /\ \A d \in 1 .. N : f[d] = MatchesFrom(n, matching, f[d - 1])
  <2>1. Size(t.nodes) = N /\ Size(t.nodes) \in Nat
    BY <1>0, <1>7, ArraySize
  <2>1a. \E f : MatchesBy(t, matching, f)
    BY <2>1, MatchesCalls
  <2>2. PICK f : /\ FindMatchingData(t, matching) = f[Size(t.nodes)][t.root]
                 /\ f[0] = [j \in Indexes(t.nodes) |-> <<>>]
                 /\ \A d \in 1 .. Size(t.nodes) : f[d] = MatchesFrom(t.nodes, matching, f[d - 1])
    BY <2>1a, Zenon DEF MatchesBy
  <2>. QED  BY <1>0, <2>1, <2>2
<1> DEFINE G == {g \in Subtrees(N) :
                    \A d \in 0 .. N : NodeHeight(n, g[1]) <= d => Lists(f[d][g[1]], g[2] \cap matching)}
<1>2. <<Null, {}>> \in G
  <2>1. ASSUME NEW d \in 0 .. N PROVE f[d][Null] = <<>>
    <3>1. Null \in Indexes(n)
      BY DEF Indexes
    <3>2. CASE d = 0
      BY <1>1, <3>1, <3>2
    <3>3. CASE d # 0
      <4>1. f[d] = MatchesFrom(n, matching, f[d - 1])
        BY <1>1, <3>3
      <4>. QED  BY <3>1, <4>1 DEF MatchesFrom
    <3>. QED  BY <3>2, <3>3
  <2>2. <<Null, {}>> \in Subtrees(N) /\ {} \cap matching = {}
    BY DEF Subtrees, Null
  <2>3. Lists(<<>>, {})
    <3>1. <<>> \in Seq({}) /\ Len(<<>>) = 0
      OBVIOUS
    <3>. QED  BY <3>1 DEF Lists
  <2>. QED  BY <2>1, <2>2, <2>3
<1>3. StepsUp(n, N, G)
  <2>1. ASSUME NEW x \in 0 .. N - 1, NEW U \in SUBSET (0 .. N - 1), NEW L \in SUBSET (0 .. N - 1),
               NEW R \in SUBSET (0 .. N - 1), NEW hl \in Nat, NEW hr \in Nat, Divided(n, N, x, U, L, R, hl, hr),
               <<n[x].left, L>> \in G, <<n[x].right, R>> \in G
        PROVE  <<x, U>> \in G
    <3>1. /\ U = {x} \cup L \cup R /\ Apart(x, L, R)
          /\ hl = NodeHeight(n, n[x].left) /\ hr = NodeHeight(n, n[x].right)
          /\ NodeHeight(n, x) = 1 + Higher(hl, hr)
      BY <2>1 DEF Divided, Branch
    <3>2. ASSUME NEW d \in 0 .. N, NodeHeight(n, x) <= d PROVE Lists(f[d][x], U \cap matching)
      <4>1. d \in 1 .. N /\ d - 1 \in 0 .. N /\ hl <= d - 1 /\ hr <= d - 1
        BY <3>1, <3>2 DEF Higher
      <4>2. x \in Indexes(n) /\ x # Null
        <5>1. Indexes(n) = -1 .. N - 1
          BY <1>7, ArraySize
        <5>. QED  BY <5>1 DEF Null
      <4>3. PICK p, q, one : /\ p = f[d - 1][n[x].left] /\ q = f[d - 1][n[x].right]
                             /\ one = IF x \in matching THEN <<x>> ELSE <<>>
        OBVIOUS
      <4>4. f[d][x] = one \o p \o q
        <5>1. PICK g : g = f[d - 1] /\ f[d] = MatchesFrom(n, matching, g)
          BY <1>1, <4>1
        <5>. QED  BY <4>2, <4>3, <5>1 DEF MatchesFrom
      <4>5. Lists(p, L \cap matching) /\ Lists(q, R \cap matching)
        BY <2>1, <3>1, <4>1, <4>3
      <4>6. Lists(one, {x} \cap matching)
        <5>1. CASE x \in matching
          <6>1. one = <<x>> /\ {x} \cap matching = {x}
            BY <4>3, <5>1
          <6>2. <<x>> \in Seq({x}) /\ Len(<<x>>) = 1 /\ <<x>>[1] = x
            OBVIOUS
          <6>3. Lists(<<x>>, {x})
            BY <6>2 DEF Lists
          <6>. QED  BY <6>1, <6>3
        <5>2. CASE x \notin matching
          <6>1. one = <<>> /\ {x} \cap matching = {}
            BY <4>3, <5>2
          <6>2. <<>> \in Seq({}) /\ Len(<<>>) = 0
            OBVIOUS
          <6>3. Lists(<<>>, {})
            BY <6>2 DEF Lists
          <6>. QED  BY <6>1, <6>3
        <5>. QED  BY <5>1, <5>2
      <4>7. PICK A, B, C : A = {x} \cap matching /\ B = L \cap matching /\ C = R \cap matching
        OBVIOUS
      <4>8. A \cap B = {} /\ (A \cup B) \cap C = {} /\ A \cup B \cup C = U \cap matching
        BY <3>1, <4>7 DEF Apart
      <4>9. Lists(one \o p, A \cup B)
        BY <4>5, <4>6, <4>7, <4>8, ListsTogether
      <4>10. Lists(one \o p \o q, A \cup B \cup C)
        BY <4>5, <4>7, <4>8, <4>9, ListsTogether
      <4>. QED  BY <4>4, <4>8, <4>10
    <3>3. <<x, U>> \in Subtrees(N)
      BY IsSubtree
    <3>. QED  BY <3>2, <3>3
  <2>. QED  BY <2>1 DEF StepsUp
<1>4. <<i, S>> \in G
  <2> HIDE DEF G
  <2>. QED  BY <1>2, <1>3, <1>7, TreeInduction
<1>5. NodeHeight(n, i) <= N /\ N \in 0 .. N
  BY <1>7, TreeCalculated
<1>. QED  BY <1>1, <1>4, <1>5

(***************************************************************************)
(* Removal of a key that is in the tree.                                   *)
(***************************************************************************)
\* What the removal of key from the tree i with the nodes S makes of n: m, with the root x,
\* of which gone is no node any more.
Shrunk(n, m, N, i, x, S, key, gone) ==
    /\ gone \in S /\ IsArray(m, N) /\ SameBut(n, m, S) /\ Tree(m, x, S \ {gone})
    /\ Entries(m, S \ {gone}) = {e \in Entries(n, S) : e[1] # key}
    /\ NodeHeight(m, x) \in {NodeHeight(n, i) - 1, NodeHeight(n, i)}

\* The heights after the removal on one side of a node.
LEMMA ShrinkingHeights ==
    ASSUME NEW h \in Nat, NEW g \in {h - 1, h}, g \in Nat, NEW o \in Nat, h - o \in -1 .. 1
    PROVE  /\ g - o \in -2 .. 2 /\ o - g \in -2 .. 2
           /\ 1 + Higher(g, o) \in {Higher(h, o), 1 + Higher(h, o)}
           /\ ~ (g - o \in -1 .. 1) => Higher(g, o) \in {Higher(h, o), 1 + Higher(h, o)}
           /\ Higher(g, o) = Higher(o, g) /\ Higher(h, o) = Higher(o, h)
           /\ g - o \in -1 .. 1 <=> o - g \in -1 .. 1
BY DEF Higher

\* Node i of p above two trees, from which one node of S is missing.
Missing(n, p, N, i, S, L, R, key, gone) ==
    /\ IsArray(p, N) /\ Branch(p, i, L, R) /\ SameBut(n, p, S)
    /\ gone \in S /\ S \ {gone} = {i} \cup L \cup R
    /\ Entries(p, {i} \cup L \cup R) = {e \in Entries(n, S) : e[1] # key}
    /\ \E hl, hr \in Nat :
          /\ NodeHeight(n, i) = 1 + Higher(hl, hr) /\ hl - hr \in -1 .. 1
          /\ \/ NodeHeight(p, p[i].left) \in {hl - 1, hl} /\ NodeHeight(p, p[i].right) = hr
             \/ NodeHeight(p, p[i].right) \in {hr - 1, hr} /\ NodeHeight(p, p[i].left) = hl

\* The node is rebalanced.
LEMMA ShrunkBelow ==
    ASSUME NEW N \in Nat, NEW n, NEW p, NEW i, NEW S, NEW L, NEW R, NEW key, NEW gone,
           Missing(n, p, N, i, S, L, R, key, gone)
    PROVE  Shrunk(n, RebalanceRemoved(p, i), N, i, i, S, key, gone)
<1>1. /\ IsArray(p, N) /\ Branch(p, i, L, R) /\ SameBut(n, p, S)
      /\ gone \in S /\ S \ {gone} = {i} \cup L \cup R
      /\ Entries(p, {i} \cup L \cup R) = {e \in Entries(n, S) : e[1] # key}
  BY DEF Missing
<1>2. PICK gl, gr : gl = NodeHeight(p, p[i].left) /\ gr = NodeHeight(p, p[i].right)
  OBVIOUS
<1>3. gl \in Nat /\ gr \in Nat
  BY <1>1, <1>2, HeightType DEF Branch
<1>4. PICK hl \in Nat, hr \in Nat :
          /\ NodeHeight(n, i) = 1 + Higher(hl, hr) /\ hl - hr \in -1 .. 1
          /\ (gl \in {hl - 1, hl} /\ gr = hr) \/ (gr \in {hr - 1, hr} /\ gl = hl)
  BY <1>2 DEF Missing
<1>5. /\ gl - gr \in -2 .. 2
      /\ 1 + Higher(gl, gr) \in {NodeHeight(n, i) - 1, NodeHeight(n, i)}
      /\ ~ (gl - gr \in -1 .. 1) => Higher(gl, gr) \in {NodeHeight(n, i) - 1, NodeHeight(n, i)}
  <2>1. NodeHeight(n, i) - 1 = Higher(hl, hr) /\ hr - hl \in -1 .. 1
    BY <1>4 DEF Higher
  <2>2. CASE gl \in {hl - 1, hl} /\ gr = hr
    BY <1>3, <1>4, <2>1, <2>2, ShrinkingHeights
  <2>3. CASE gr \in {hr - 1, hr} /\ gl = hl
    BY <1>3, <1>4, <2>1, <2>3, ShrinkingHeights
  <2>. QED  BY <1>4, <2>2, <2>3
<1>6. PICK m, T : m = RebalanceRemoved(p, i) /\ T = {i} \cup L \cup R
  OBVIOUS
<1>7. PICK h \in {Higher(gl, gr), 1 + Higher(gl, gr)} :
          Rearranged(p, m, N, i, T, h) /\ (gl - gr \in -1 .. 1 => h = 1 + Higher(gl, gr))
  <2>1. Uneven(p, N, i, L, R, gl, gr)
    BY <1>1, <1>2, <1>5 DEF Uneven
  <2>2. Evened(p, m, N, i, T, gl, gr)
    BY <1>6, <2>1, RemovalRebalanced
  <2>. QED  BY <2>2 DEF Evened
<1>8. /\ IsArray(m, N) /\ SameBut(p, m, T) /\ Entries(m, T) = Entries(p, T)
      /\ Tree(m, i, T) /\ NodeHeight(m, i) = h
  BY <1>7 DEF Rearranged
<1>9. h \in {NodeHeight(n, i) - 1, NodeHeight(n, i)}
  BY <1>5, <1>7
<1>10. SameBut(n, m, S) /\ T = S \ {gone}
  <2>1. T = S \ {gone} /\ T \subseteq S
    BY <1>1, <1>6
  <2>. QED  BY <1>1, <1>8, <2>1 DEF SameBut
<1>11. Shrunk(n, m, N, i, i, S, key, gone)
  BY <1>1, <1>6, <1>8, <1>9, <1>10 DEF Shrunk
<1>. QED  BY <1>6, <1>11

\* A node without children.
LEMMA ShrunkLeaf ==
    ASSUME NEW N \in Nat, NEW n, IsArray(n, N), NEW i, NEW S, NEW L, NEW R, NEW hl \in Nat, NEW hr \in Nat,
           Divided(n, N, i, S, L, R, hl, hr), n[i].left = Null, n[i].right = Null
    PROVE  Shrunk(n, n, N, i, Null, S, n[i].key, i)
<1>1. /\ Branch(n, i, L, R) /\ S = {i} \cup L \cup R
      /\ hl = NodeHeight(n, n[i].left) /\ hr = NodeHeight(n, n[i].right)
      /\ NodeHeight(n, i) = 1 + Higher(hl, hr)
  BY DEF Divided
<1>2. L = {} /\ R = {}
  BY <1>1, NullTree DEF Branch
<1>3. S = {i} /\ S \ {i} = {}
  BY <1>1, <1>2
<1>4. Tree(n, Null, S \ {i})
  BY <1>3, NullTree
<1>5. Entries(n, S \ {i}) = {e \in Entries(n, S) : e[1] # n[i].key}
  BY <1>3 DEF Entries
<1>6. NodeHeight(n, Null) = 0 /\ NodeHeight(n, i) = 1
  BY <1>1 DEF NodeHeight, Higher
<1>7. SameBut(n, n, S)
  BY DEF SameBut
<1>8. i \in S /\ NodeHeight(n, Null) \in {NodeHeight(n, i) - 1, NodeHeight(n, i)}
  BY <1>3, <1>6
<1>. QED  BY <1>4, <1>5, <1>7, <1>8 DEF Shrunk

\* A node with one child, which then has none.
LEMMA ShrunkOne ==
    ASSUME NEW N \in Nat, NEW n, IsArray(n, N), NEW i, NEW S, NEW L, NEW R, NEW hl \in Nat, NEW hr \in Nat,
           Divided(n, N, i, S, L, R, hl, hr), Null \in {n[i].left, n[i].right},
           NEW only, only = IF n[i].left # Null THEN n[i].left ELSE n[i].right, only # Null
    PROVE  Shrunk(n, RebalanceRemoved([n EXCEPT ![i] = n[only]], i), N, i, i, S, n[i].key, only)
<1>1. /\ Branch(n, i, L, R) /\ S = {i} \cup L \cup R /\ i \in 0 .. N - 1
      /\ hl = NodeHeight(n, n[i].left) /\ hr = NodeHeight(n, n[i].right)
      /\ NodeHeight(n, i) = 1 + Higher(hl, hr) /\ hl - hr \in -1 .. 1
  BY DEF Divided
<1>2. PICK C : Tree(n, only, C) /\ S = {i} \cup C /\ i \notin C /\ (C = L \/ C = R)
  <2>1. CASE n[i].left # Null
    <3>1. R = {} /\ only = n[i].left
      BY <1>1, <2>1, NullTree DEF Branch
    <3>. QED  BY <1>1, <3>1 DEF Branch, Apart
  <2>2. CASE n[i].left = Null
    <3>1. L = {} /\ only = n[i].right
      BY <1>1, <2>2, NullTree DEF Branch
    <3>. QED  BY <1>1, <3>1 DEF Branch, Apart
  <2>. QED  BY <2>1, <2>2
<1>3. NodeHeight(n, only) = 1 /\ NodeHeight(n, i) = 2
  <2>1. NodeHeight(n, only) \in Nat /\ NodeHeight(n, only) # 0 /\ NodeHeight(n, Null) = 0
    BY <1>2, HeightType DEF NodeHeight
  <2>2. (NodeHeight(n, only) = hl /\ hr = 0) \/ (NodeHeight(n, only) = hr /\ hl = 0)
    BY <1>1, <2>1
  <2>. QED  BY <1>1, <2>1, <2>2 DEF Higher
<1>4. PICK A, B \in SUBSET C, ha, hb \in Nat : Divided(n, N, only, C, A, B, ha, hb)
  BY <1>2, Parts
<1>5. /\ Branch(n, only, A, B) /\ C = {only} \cup A \cup B /\ only \in 0 .. N - 1
      /\ ha = NodeHeight(n, n[only].left) /\ hb = NodeHeight(n, n[only].right)
      /\ 1 = 1 + Higher(ha, hb)
  BY <1>3, <1>4 DEF Divided
<1>6. ha = 0 /\ hb = 0
  BY <1>5 DEF Higher
<1>7. n[only].left = Null /\ n[only].right = Null /\ A = {} /\ B = {}
  <2>1. n[only].left = Null /\ n[only].right = Null
    BY <1>5, <1>6, HeightType DEF Branch
  <2>. QED  BY <1>5, <2>1, NullTree DEF Branch
<1>8. C = {only} /\ S = {i, only} /\ i # only
  BY <1>2, <1>5, <1>7
<1>9. PICK p : p = [n EXCEPT ![i] = n[only]]
  OBVIOUS
<1>10. /\ DOMAIN n = 0 .. N - 1 /\ DOMAIN p = 0 .. N - 1 /\ p[i] = n[only]
       /\ \A j \in 0 .. N - 1 : j # i => p[j] = n[j]
  BY <1>1, <1>9 DEF IsArray
<1>11. IsArray(p, N) /\ SameBut(n, p, S)
  <2>1. IsNode(n[only], -1 .. N - 1)
    BY <1>5 DEF IsArray
  <2>. QED  BY <1>8, <1>10, <2>1 DEF IsArray, SameBut
<1>12. p[i].left = Null /\ p[i].right = Null
  BY <1>7, <1>10
<1>13. Branch(p, i, {}, {})
  <2>1. Tree(p, Null, {})
    BY NullTree
  <2>. QED  BY <1>1, <1>10, <1>12, <2>1 DEF Branch, Apart, Ordered, Below, Above, Null
<1>14. S \ {only} = {i} \cup {} \cup {} /\ only \in S
  BY <1>8
<1>15. n[only].key # n[i].key
  <2>1. only \in C /\ n[only].key \in Int /\ n[i].key \in Int
    BY <1>1, <1>5, <1>8, ArrayNode
  <2>2. n[only].key < n[i].key \/ n[only].key > n[i].key
    BY <1>1, <1>2, <2>1 DEF Branch, Ordered, Below, Above
  <2>. QED  BY <2>1, <2>2
<1>16. Entries(p, {i} \cup {} \cup {}) = {e \in Entries(n, S) : e[1] # n[i].key}
  <2>1. Entries(p, {i} \cup {} \cup {}) = {<<n[only].key, n[only].data>>}
    BY <1>10 DEF Entries
  <2>2. Entries(n, S) = {<<n[i].key, n[i].data>>, <<n[only].key, n[only].data>>}
    BY <1>8 DEF Entries
  <2>. QED  BY <1>15, <2>1, <2>2
<1>17. \E h, g \in Nat :
          /\ NodeHeight(n, i) = 1 + Higher(h, g) /\ h - g \in -1 .. 1
          /\ \/ NodeHeight(p, p[i].left) \in {h - 1, h} /\ NodeHeight(p, p[i].right) = g
             \/ NodeHeight(p, p[i].right) \in {g - 1, g} /\ NodeHeight(p, p[i].left) = h
  <2>1. NodeHeight(p, p[i].left) = 0 /\ NodeHeight(p, p[i].right) = 0
    BY <1>12 DEF NodeHeight
  <2>2. 2 = 1 + Higher(1, 0) /\ 1 - 0 \in -1 .. 1 /\ 0 \in {1 - 1, 1} /\ 1 \in Nat /\ 0 \in Nat
    BY DEF Higher
  <2>. QED  BY <1>3, <2>1, <2>2
<1>18. Missing(n, p, N, i, S, {}, {}, n[i].key, only)
  BY <1>11, <1>13, <1>14, <1>16, <1>17 DEF Missing
<1>. QED  BY <1>9, <1>18, ShrunkBelow

\* A key that is on the left.
LEMMA ShrunkLeft ==
    ASSUME NEW N \in Nat, NEW n, IsArray(n, N), NEW i, NEW S, NEW L, NEW R, NEW hl \in Nat, NEW hr \in Nat,
           Divided(n, N, i, S, L, R, hl, hr), NEW key \in Int, key < n[i].key,
           NEW m, NEW x, NEW gone, Shrunk(n, m, N, n[i].left, x, L, key, gone)
    PROVE  Shrunk(n, RebalanceRemoved(SetLeft(m, i, x), i), N, i, i, S, key, gone)
<1>1. /\ Branch(n, i, L, R) /\ S = {i} \cup L \cup R /\ i \in 0 .. N - 1
      /\ hl = NodeHeight(n, n[i].left) /\ hr = NodeHeight(n, n[i].right)
      /\ NodeHeight(n, i) = 1 + Higher(hl, hr) /\ hl - hr \in -1 .. 1
  BY DEF Divided
<1>2. PICK T : T = L \ {gone}
  OBVIOUS
<1>3. /\ gone \in L /\ IsArray(m, N) /\ SameBut(n, m, L) /\ Tree(m, x, T)
      /\ Entries(m, T) = {e \in Entries(n, L) : e[1] # key}
      /\ NodeHeight(m, x) \in {hl - 1, hl}
  BY <1>1, <1>2 DEF Shrunk
<1>4. i \notin L /\ i \notin R /\ L \cap R = {} /\ Ordered(n, i, L, R)
  BY <1>1 DEF Branch, Apart
<1>5. Below(m, T, n[i].key)
  <2>1. Entries(m, T) \subseteq Entries(n, L)
    BY <1>3
  <2>. QED  BY <1>4, <2>1, KeyOrder DEF Ordered
<1>6. PICK p : /\ p = SetLeft(m, i, x) /\ Attached(n, m, p, N, i, x, T, L) /\ Branch(p, i, T, R)
               /\ p[i].left = x /\ p[i].right = n[i].right /\ Entries(p, R) = Entries(n, R)
               /\ NodeHeight(p, n[i].right) = NodeHeight(n, n[i].right)
  <2>1. OnLeft(n, m, N, i, L, R, x, T, L)
    BY <1>1, <1>2, <1>3, <1>4, <1>5 DEF OnLeft
  <2>. QED  BY <2>1, AttachedLeft
<1>7. /\ IsArray(p, N) /\ SameBut(n, p, L \cup {i}) /\ p[i].key = n[i].key /\ p[i].data = n[i].data
      /\ Entries(p, T) = Entries(m, T) /\ NodeHeight(p, x) = NodeHeight(m, x)
  BY <1>6 DEF Attached
<1>8. SameBut(n, p, S) /\ gone \in S /\ S \ {gone} = {i} \cup T \cup R
  BY <1>1, <1>2, <1>3, <1>4, <1>7 DEF SameBut
<1>9. Entries(p, {i} \cup T \cup R) = {e \in Entries(n, S) : e[1] # key}
  <2>1. /\ Entries(p, {i} \cup T \cup R) = Entries(p, {i}) \cup Entries(p, T) \cup Entries(p, R)
        /\ Entries(n, S) = Entries(n, {i}) \cup Entries(n, L) \cup Entries(n, R)
    BY <1>1 DEF Entries
  <2>2. Entries(p, {i}) = Entries(n, {i})
    BY <1>7 DEF Entries
  <2>3. \A j \in {i} \cup R : n[j].key # key
    <3>1. \A j \in {i} \cup R : n[j].key \in Int
      BY <1>1, ArrayNode DEF Branch, Tree, IsArray
    <3>. QED  BY <1>4, <3>1 DEF Ordered, Above, Below
  <2>4. \A e \in Entries(n, {i}) \cup Entries(n, R) : e[1] # key
    BY <2>3 DEF Entries
  <2>. QED  BY <1>3, <1>6, <1>7, <2>1, <2>2, <2>4
<1>10. /\ NodeHeight(n, i) = 1 + Higher(hl, hr) /\ hl - hr \in -1 .. 1
       /\ NodeHeight(p, p[i].left) \in {hl - 1, hl} /\ NodeHeight(p, p[i].right) = hr
  BY <1>1, <1>3, <1>6, <1>7
<1>11. Missing(n, p, N, i, S, T, R, key, gone)
  BY <1>6, <1>7, <1>8, <1>9, <1>10 DEF Missing
<1>. QED  BY <1>6, <1>11, ShrunkBelow

\* A key that is on the right.
LEMMA ShrunkRight ==
    ASSUME NEW N \in Nat, NEW n, IsArray(n, N), NEW i, NEW S, NEW L, NEW R, NEW hl \in Nat, NEW hr \in Nat,
           Divided(n, N, i, S, L, R, hl, hr), NEW key \in Int, key > n[i].key,
           NEW m, NEW x, NEW gone, Shrunk(n, m, N, n[i].right, x, R, key, gone)
    PROVE  Shrunk(n, RebalanceRemoved(SetRight(m, i, x), i), N, i, i, S, key, gone)
<1>1. /\ Branch(n, i, L, R) /\ S = {i} \cup L \cup R /\ i \in 0 .. N - 1
      /\ hl = NodeHeight(n, n[i].left) /\ hr = NodeHeight(n, n[i].right)
      /\ NodeHeight(n, i) = 1 + Higher(hl, hr) /\ hl - hr \in -1 .. 1
  BY DEF Divided
<1>2. PICK T : T = R \ {gone}
  OBVIOUS
<1>3. /\ gone \in R /\ IsArray(m, N) /\ SameBut(n, m, R) /\ Tree(m, x, T)
      /\ Entries(m, T) = {e \in Entries(n, R) : e[1] # key}
      /\ NodeHeight(m, x) \in {hr - 1, hr}
  BY <1>1, <1>2 DEF Shrunk
<1>4. i \notin R /\ i \notin L /\ R \cap L = {} /\ Ordered(n, i, L, R)
  BY <1>1 DEF Branch, Apart
<1>5. Above(m, T, n[i].key)
  <2>1. Entries(m, T) \subseteq Entries(n, R)
    BY <1>3
  <2>. QED  BY <1>4, <2>1, KeyOrder DEF Ordered
<1>6. PICK p : /\ p = SetRight(m, i, x) /\ Attached(n, m, p, N, i, x, T, R) /\ Branch(p, i, L, T)
               /\ p[i].right = x /\ p[i].left = n[i].left /\ Entries(p, L) = Entries(n, L)
               /\ NodeHeight(p, n[i].left) = NodeHeight(n, n[i].left)
  <2>1. OnRight(n, m, N, i, L, R, x, T, R)
    BY <1>1, <1>2, <1>3, <1>4, <1>5 DEF OnRight
  <2>. QED  BY <2>1, AttachedRight
<1>7. /\ IsArray(p, N) /\ SameBut(n, p, R \cup {i}) /\ p[i].key = n[i].key /\ p[i].data = n[i].data
      /\ Entries(p, T) = Entries(m, T) /\ NodeHeight(p, x) = NodeHeight(m, x)
  BY <1>6 DEF Attached
<1>8. SameBut(n, p, S) /\ gone \in S /\ S \ {gone} = {i} \cup L \cup T
  BY <1>1, <1>2, <1>3, <1>4, <1>7 DEF SameBut
<1>9. Entries(p, {i} \cup L \cup T) = {e \in Entries(n, S) : e[1] # key}
  <2>1. /\ Entries(p, {i} \cup L \cup T) = Entries(p, {i}) \cup Entries(p, T) \cup Entries(p, L)
        /\ Entries(n, S) = Entries(n, {i}) \cup Entries(n, R) \cup Entries(n, L)
    BY <1>1 DEF Entries
  <2>2. Entries(p, {i}) = Entries(n, {i})
    BY <1>7 DEF Entries
  <2>3. \A j \in {i} \cup L : n[j].key # key
    <3>1. \A j \in {i} \cup L : n[j].key \in Int
      BY <1>1, ArrayNode DEF Branch, Tree, IsArray
    <3>. QED  BY <1>4, <3>1 DEF Ordered, Above, Below
  <2>4. \A e \in Entries(n, {i}) \cup Entries(n, L) : e[1] # key
    BY <2>3 DEF Entries
  <2>. QED  BY <1>3, <1>6, <1>7, <2>1, <2>2, <2>4
<1>10. /\ NodeHeight(n, i) = 1 + Higher(hl, hr) /\ hl - hr \in -1 .. 1
       /\ NodeHeight(p, p[i].right) \in {hr - 1, hr} /\ NodeHeight(p, p[i].left) = hl
  BY <1>1, <1>3, <1>6, <1>7
<1>11. Missing(n, p, N, i, S, L, T, key, gone)
  BY <1>6, <1>7, <1>8, <1>9, <1>10 DEF Missing
<1>. QED  BY <1>6, <1>11, ShrunkBelow

\* The contents of a node are replaced.
Rekey(n, i, key, data) == [n EXCEPT ![i].key = key, ![i].data = data]

Rekeyable(n, p, N, i, L, R, key, data) ==
    /\ IsArray(n, N) /\ Branch(n, i, L, R) /\ key \in Int /\ Below(n, L, key) /\ Above(n, R, key)
    /\ p = Rekey(n, i, key, data)

TakenOver(n, p, N, i, L, R, key, data) ==
    /\ IsArray(p, N) /\ SameBut(n, p, {i}) /\ Branch(p, i, L, R)
    /\ p[i].key = key /\ p[i].data = data /\ p[i].left = n[i].left /\ p[i].right = n[i].right
    /\ NodeHeight(p, p[i].left) = NodeHeight(n, n[i].left)
    /\ NodeHeight(p, p[i].right) = NodeHeight(n, n[i].right)
    /\ Entries(p, L) = Entries(n, L) /\ Entries(p, R) = Entries(n, R)

\* The order stays when the new key lies between the subtrees.
LEMMA Rekeyed ==
    ASSUME NEW N \in Nat, NEW n, NEW p, NEW i, NEW L, NEW R, NEW key, NEW data,
           Rekeyable(n, p, N, i, L, R, key, data)
    PROVE  TakenOver(n, p, N, i, L, R, key, data)
<1> SUFFICES ASSUME IsArray(n, N), Branch(n, i, L, R), key \in Int, Below(n, L, key), Above(n, R, key),
                    p = Rekey(n, i, key, data)
             PROVE  TakenOver(n, p, N, i, L, R, key, data)
  BY DEF Rekeyable
<1>1. /\ i \in 0 .. N - 1 /\ DOMAIN n = 0 .. N - 1 /\ i # Null /\ i \notin L /\ i \notin R
      /\ Apart(i, L, R) /\ Tree(n, n[i].left, L) /\ Tree(n, n[i].right, R) /\ IsNode(n[i], -1 .. N - 1)
  BY DEF IsArray, Branch, Apart
<1>2. /\ DOMAIN p = 0 .. N - 1 /\ p[i] = [[n[i] EXCEPT !.key = key] EXCEPT !.data = data]
      /\ \A j \in 0 .. N - 1 : j # i => p[j] = n[j]
  BY <1>1 DEF Rekey
<1>3. /\ p[i].key = key /\ p[i].data = data /\ p[i].left = n[i].left /\ p[i].right = n[i].right
      /\ IsNode(p[i], -1 .. N - 1)
  BY <1>1, <1>2 DEF IsNode
<1>4. IsArray(p, N) /\ SameBut(n, p, {i})
  BY <1>1, <1>2, <1>3 DEF IsArray, SameBut
<1>5. /\ Tree(p, n[i].left, L) /\ NodeHeight(p, n[i].left) = NodeHeight(n, n[i].left)
      /\ Tree(p, n[i].right, R) /\ NodeHeight(p, n[i].right) = NodeHeight(n, n[i].right)
  <2>1. L \cap {i} = {} /\ R \cap {i} = {}
    BY <1>1
  <2>. QED  BY <1>1, <1>4, <2>1, Elsewhere
<1>6. \A j \in L \cup R : p[j] = n[j]
  BY <1>1, <1>2 DEF Tree
<1>7. Ordered(p, i, L, R)
  BY <1>3, <1>6 DEF Ordered, Below, Above
<1>8. Branch(p, i, L, R)
  BY <1>1, <1>2, <1>3, <1>5, <1>7 DEF Branch
<1>9. Entries(p, L) = Entries(n, L) /\ Entries(p, R) = Entries(n, R)
  BY <1>6 DEF Entries
<1>. QED  BY <1>3, <1>4, <1>5, <1>8, <1>9 DEF TakenOver

\* A node with two children, which takes the contents of the smallest one on its right.
LEMMA ShrunkTwo ==
    ASSUME NEW N \in Nat, NEW n, IsArray(n, N), NEW i, NEW S, NEW L, NEW R, NEW hl \in Nat, NEW hr \in Nat,
           Divided(n, N, i, S, L, R, hl, hr), NEW j, Least(n, R, j),
           NEW key, key = n[j].key, NEW data, data = n[j].data,
           NEW m, NEW x, NEW gone, Shrunk(n, m, N, n[i].right, x, R, key, gone)
    PROVE  Shrunk(n, RebalanceRemoved(Rekey(SetRight(m, i, x), i, key, data), i), N,
                  i, i, S, n[i].key, gone)
<1>1. /\ Branch(n, i, L, R) /\ S = {i} \cup L \cup R /\ i \in 0 .. N - 1
      /\ hl = NodeHeight(n, n[i].left) /\ hr = NodeHeight(n, n[i].right)
      /\ NodeHeight(n, i) = 1 + Higher(hl, hr) /\ hl - hr \in -1 .. 1
  BY DEF Divided
<1>2. PICK T : T = R \ {gone}
  OBVIOUS
<1>3. /\ gone \in R /\ IsArray(m, N) /\ SameBut(n, m, R) /\ Tree(m, x, T)
      /\ Entries(m, T) = {e \in Entries(n, R) : e[1] # key}
      /\ NodeHeight(m, x) \in {hr - 1, hr}
  BY <1>1, <1>2 DEF Shrunk
<1>4. /\ i \notin L /\ i \notin R /\ L \cap R = {}
      /\ \A k \in L : n[k].key < n[i].key
      /\ \A k \in R : n[k].key > n[i].key
      /\ Above(n, R, n[i].key) /\ L \subseteq 0 .. N - 1 /\ R \subseteq 0 .. N - 1
  BY <1>1 DEF Branch, Apart, Ordered, Below, Above, Tree, IsArray
<1>5. Above(m, T, n[i].key)
  <2>1. Entries(m, T) \subseteq Entries(n, R)
    BY <1>3
  <2>. QED  BY <1>4, <2>1, KeyOrder
<1>6. PICK q : /\ q = SetRight(m, i, x) /\ Attached(n, m, q, N, i, x, T, R) /\ Branch(q, i, L, T)
               /\ q[i].left = n[i].left /\ q[i].right = x /\ Entries(q, L) = Entries(n, L)
               /\ NodeHeight(q, n[i].left) = NodeHeight(n, n[i].left)
  <2>1. OnRight(n, m, N, i, L, R, x, T, R)
    BY <1>1, <1>2, <1>3, <1>4, <1>5 DEF OnRight
  <2>. QED  BY <2>1, AttachedRight
<1>7. /\ IsArray(q, N) /\ SameBut(n, q, R \cup {i})
      /\ Entries(q, T) = Entries(m, T) /\ NodeHeight(q, x) = NodeHeight(m, x)
  BY <1>6 DEF Attached
<1>8. j \in R /\ \A k \in R : key <= n[k].key
  BY DEF Least
<1>9. \A k \in S : n[k].key \in Int
  BY <1>1, <1>4, ArrayNode
<1>10. key \in Int /\ Below(q, L, key) /\ Above(q, T, key)
  <2>1. key \in Int /\ key > n[i].key
    BY <1>1, <1>4, <1>8, <1>9
  <2>2. Below(n, L, key)
    BY <1>1, <1>4, <1>9, <2>1 DEF Below
  <2>3. ASSUME NEW k \in T PROVE q[k].key > key
    <3>1. <<q[k].key, q[k].data>> \in {e \in Entries(n, R) : e[1] # key}
      BY <1>3, <1>7 DEF Entries
    <3>2. PICK l \in R : <<q[k].key, q[k].data>> = <<n[l].key, n[l].data>>
      BY <3>1 DEF Entries
    <3>3. q[k].key = n[l].key /\ n[l].key # key
      BY <3>1, <3>2
    <3>4. n[l].key \in Int /\ key <= n[l].key
      BY <1>1, <1>8, <1>9
    <3>. QED  BY <2>1, <3>3, <3>4
  <2>. QED  BY <1>6, <2>1, <2>2, <2>3, KeyOrder DEF Above
<1>11. PICK p : p = Rekey(q, i, key, data)
  OBVIOUS
<1>12. /\ IsArray(p, N) /\ SameBut(q, p, {i}) /\ Branch(p, i, L, T)
       /\ p[i].key = key /\ p[i].data = data
       /\ NodeHeight(p, p[i].left) = NodeHeight(q, q[i].left)
       /\ NodeHeight(p, p[i].right) = NodeHeight(q, q[i].right)
       /\ Entries(p, L) = Entries(q, L) /\ Entries(p, T) = Entries(q, T)
  <2>1. Rekeyable(q, p, N, i, L, T, key, data)
    BY <1>6, <1>7, <1>10, <1>11 DEF Rekeyable
  <2>2. TakenOver(q, p, N, i, L, T, key, data)
    BY <2>1, Rekeyed
  <2>. QED  BY <2>2 DEF TakenOver
<1>13. SameBut(n, p, S) /\ gone \in S /\ S \ {gone} = {i} \cup L \cup T
  BY <1>1, <1>2, <1>3, <1>4, <1>7, <1>12 DEF SameBut
<1>14. Entries(p, {i} \cup L \cup T) = {e \in Entries(n, S) : e[1] # n[i].key}
  <2>1. /\ Entries(p, {i} \cup L \cup T) = Entries(p, {i}) \cup Entries(p, L) \cup Entries(p, T)
        /\ Entries(n, S) = Entries(n, {i}) \cup Entries(n, L) \cup Entries(n, R)
    BY <1>1 DEF Entries
  <2>2. Entries(p, {i}) = {<<key, data>>} /\ Entries(n, {i}) = {<<n[i].key, n[i].data>>}
    BY <1>12 DEF Entries
  <2>3. \A k \in L \cup R : n[k].key # n[i].key
    BY <1>1, <1>4, <1>9
  <2>4. \A e \in Entries(n, L) \cup Entries(n, R) : e[1] # n[i].key
    BY <2>3 DEF Entries
  <2>5. \A e \in Entries(n, {i}) : e[1] = n[i].key
    BY <2>2
  <2>6. Entries(n, R) = {<<key, data>>} \cup {e \in Entries(n, R) : e[1] # key}
    <3>1. <<key, data>> \in Entries(n, R)
      BY <1>8 DEF Entries
    <3>2. ASSUME NEW e \in Entries(n, R), e[1] = key PROVE e = <<key, data>>
      <4>1. PICK k \in R : e = <<n[k].key, n[k].data>>
        BY DEF Entries
      <4>2. n[k].key = n[j].key /\ Tree(n, n[i].right, R)
        BY <1>1, <3>2, <4>1 DEF Branch
      <4>3. k = j
        BY <1>8, <4>2, Distinct
      <4>. QED  BY <4>1, <4>3
    <3>. QED  BY <3>1, <3>2
  <2>7. Entries(p, {i} \cup L \cup T) = {<<key, data>>} \cup Entries(n, L) \cup {e \in Entries(n, R) : e[1] # key}
    BY <1>3, <1>6, <1>7, <1>12, <2>1, <2>2
  <2>8. Entries(p, {i} \cup L \cup T) = Entries(n, L) \cup Entries(n, R)
    BY <2>6, <2>7
  <2>. QED  BY <2>1, <2>4, <2>5, <2>8
<1>15. /\ NodeHeight(n, i) = 1 + Higher(hl, hr) /\ hl - hr \in -1 .. 1
       /\ NodeHeight(p, p[i].right) \in {hr - 1, hr} /\ NodeHeight(p, p[i].left) = hl
  BY <1>1, <1>3, <1>6, <1>7, <1>12
<1>16. Missing(n, p, N, i, S, L, T, n[i].key, gone)
  BY <1>12, <1>13, <1>14, <1>15 DEF Missing
<1>. QED  BY <1>6, <1>11, <1>16, ShrunkBelow

\* What a removal from the tree i, where the nodes S are, returns.
TakenOut(t, N, key, less, i, S, r) ==
    \E gone \in S :
        /\ r.tree = Fields(r.tree.nodes, Append(t.free, gone), t.elements - less, t.root)
        /\ Shrunk(t.nodes, r.tree.nodes, N, i, r.idx, S, key, gone)

\* The three changes to a tree in remove: a node becomes free; the contents of another one
\* move up first; a node takes a key and its data.
Freed(t, x, less) == [t EXCEPT !.free = Append(@, x), !.elements = @ - less]
Copied(n, i, only) == [n EXCEPT ![i] = n[only]]
MovedUp(t, i, only, less) ==
    [t EXCEPT !.nodes[i] = t.nodes[only], !.free = Append(@, only), !.elements = @ - less]
Refilled(t, i, key, data, less) ==
    [t EXCEPT !.nodes[i].key = key, !.nodes[i].data = data, !.elements = @ - less]

\* A node becomes free.
LEMMA FreePut ==
    ASSUME NEW t, NEW n, NEW f, NEW e, NEW r, t = Fields(n, f, e, r), NEW x, NEW less
    PROVE  Freed(t, x, less) = Fields(n, Append(f, x), e - less, r)
<1>1. PICK w : w = [t EXCEPT !.free = Append(@, x), !.elements = @ - less]
  OBVIOUS
<1>2. t.free = f /\ t.elements = e
  BY DEF Fields
<1>3. PICK g, d : g = Append(f, x) /\ d = e - less
  OBVIOUS
<1>4. w = [t EXCEPT !.free = Append(t.free, x), !.elements = t.elements - less]
  BY <1>1
<1>5. w = [t EXCEPT !.free = g, !.elements = d]
  BY <1>2, <1>3, <1>4
<1>6. w = Fields(n, g, d, r)
  BY <1>5 DEF Fields
<1>. QED  BY <1>1, <1>3, <1>6, Zenon DEF Freed

\* The contents of a node move up, and it becomes free.
LEMMA NodeMovedPut ==
    ASSUME NEW t, NEW n, NEW f, NEW e, NEW r, t = Fields(n, f, e, r), NEW i, NEW only, NEW less
    PROVE  MovedUp(t, i, only, less) = Fields(Copied(n, i, only), Append(f, only), e - less, r)
<1>1. PICK w : w = [t EXCEPT !.nodes[i] = t.nodes[only], !.free = Append(@, only), !.elements = @ - less]
  OBVIOUS
<1>2. t.free = f /\ t.nodes = n /\ t.elements = e
  BY DEF Fields
<1>3. PICK g, d, p : g = Append(f, only) /\ d = e - less /\ p = [n EXCEPT ![i] = n[only]]
  OBVIOUS
<1>4. w = [t EXCEPT !.nodes[i] = t.nodes[only], !.free = Append(t.free, only), !.elements = t.elements - less]
  BY <1>1
<1>5. w = [t EXCEPT !.nodes = [n EXCEPT ![i] = n[only]], !.free = Append(f, only), !.elements = e - less]
  BY <1>2, <1>4
<1>6. w = [t EXCEPT !.nodes = p, !.free = g, !.elements = d]
  BY <1>3, <1>5
<1>7. w = Fields(p, g, d, r)
  BY <1>6 DEF Fields
<1>. QED  BY <1>1, <1>3, <1>7, Zenon DEF MovedUp, Copied

\* A node takes a key and its data, and there is one element fewer.
LEMMA RekeyedPut ==
    ASSUME NEW t, NEW n, NEW f, NEW e, NEW r, t = Fields(n, f, e, r), NEW i, NEW key, NEW data, NEW less
    PROVE  Refilled(t, i, key, data, less)
               = Fields(Rekey(n, i, key, data), f, e - less, r)
<1>1. PICK u : u = [t EXCEPT !.nodes = [n EXCEPT ![i].key = key]]
  OBVIOUS
<1>2. PICK p : p = [n EXCEPT ![i].key = key]
  OBVIOUS
<1>3. u = Fields(p, f, e, r) /\ u.nodes = p /\ t.nodes = n
  BY <1>1, <1>2 DEF Fields
<1>4. PICK q : q = [p EXCEPT ![i].data = data]
  OBVIOUS
<1>5. PICK w : w = [t EXCEPT !.nodes[i].key = key, !.nodes[i].data = data, !.elements = @ - less]
  OBVIOUS
<1>6. w = [[[t EXCEPT !.nodes[i].key = key] EXCEPT !.nodes[i].data = data] EXCEPT !.elements = @ - less]
  BY <1>5
<1>7. w = [[u EXCEPT !.nodes[i].data = data] EXCEPT !.elements = @ - less]
  BY <1>1, <1>3, <1>6
<1>8. PICK v : v = [u EXCEPT !.nodes = q]
  OBVIOUS
<1>9. w = [v EXCEPT !.elements = @ - less]
  BY <1>3, <1>4, <1>7, <1>8
<1>10. v = Fields(q, f, e, r) /\ v.elements = e
  BY <1>3, <1>8 DEF Fields
<1>11. PICK d : d = e - less
  OBVIOUS
<1>12. w = [v EXCEPT !.elements = d]
  BY <1>9, <1>10, <1>11
<1>13. w = Fields(q, f, d, r)
  BY <1>10, <1>12 DEF Fields
<1>14. q = [n EXCEPT ![i].key = key, ![i].data = data]
  BY <1>2, <1>4
<1>15. q = Rekey(n, i, key, data)
  BY <1>14 DEF Rekey
<1>. QED  BY <1>5, <1>11, <1>13, <1>15, Zenon DEF Refilled

\* A call of the recursive function.
Called(below, i, key, less) == below[<<i, key, less>>]

\* One call.
LEMMA RemoveUnfolded ==
    ASSUME NEW t, NEW below, NEW i \in Indexes(t.nodes), NEW key \in Int, NEW less \in {0, 1}
    PROVE  Called(RemoveFrom(t, below), i, key, less) = RemoveAt(t, below, i, key, less)
<1>1. PICK call : call = <<i, key, less>>
  OBVIOUS
<1>2. call \in Indexes(t.nodes) \X Int \X {0, 1} /\ call[1] = i /\ call[2] = key /\ call[3] = less
  BY <1>1
<1>3. RemoveFrom(t, below)[call] = RemoveAt(t, below, call[1], call[2], call[3])
  BY <1>2 DEF RemoveFrom
<1>4. Called(RemoveFrom(t, below), i, key, less) = RemoveFrom(t, below)[call]
  BY <1>1, Zenon DEF Called
<1>. QED  BY <1>2, <1>3, <1>4, Zenon

\* The node i after the removal at or below it: its height, and the rotations.
Recalculated(done, i) == [tree |-> [done EXCEPT !.nodes = RebalanceRemoved(@, i)], idx |-> i]

\* The key is on the left.
LEMMA RemoveLower ==
    ASSUME NEW t, NEW below, NEW i, i # Null, NEW key \in Int, NEW less, t.nodes[i].key \in Int,
           key < t.nodes[i].key
    PROVE  RemoveAt(t, below, i, key, less)
               = Recalculated(WithChild(Called(below, t.nodes[i].left, key, less), i, "left"), i)
<1>1. key # t.nodes[i].key
  OBVIOUS
<1>. QED  BY <1>1, Zenon DEF RemoveAt, Recalculated, Called

\* The key is on the right.
LEMMA RemoveHigher ==
    ASSUME NEW t, NEW below, NEW i, i # Null, NEW key \in Int, NEW less, t.nodes[i].key \in Int,
           key > t.nodes[i].key
    PROVE  RemoveAt(t, below, i, key, less)
               = Recalculated(WithChild(Called(below, t.nodes[i].right, key, less), i, "right"), i)
<1>1. ~ (key < t.nodes[i].key) /\ key # t.nodes[i].key
  OBVIOUS
<1>. QED  BY <1>1, Zenon DEF RemoveAt, Recalculated, Called

\* The key is that of the node, which has a child.
LEMMA RemoveHere ==
    ASSUME NEW t, NEW below, NEW i, i # Null, NEW key \in Int, NEW less, key = t.nodes[i].key,
           ~ (t.nodes[i].left = Null /\ t.nodes[i].right = Null)
    PROVE  RemoveAt(t, below, i, key, less) = Recalculated(RemoveTop(t, below, i, less), i)
<1>1. ~ (key < t.nodes[i].key) /\ ~ (key > t.nodes[i].key)
  OBVIOUS
<1>. QED  BY <1>1, Zenon DEF RemoveAt, Recalculated, Called

\* It has none.
LEMMA RemoveLeaf ==
    ASSUME NEW t, NEW below, NEW i, i # Null, NEW key \in Int, NEW less, key = t.nodes[i].key,
           t.nodes[i].left = Null, t.nodes[i].right = Null
    PROVE  RemoveAt(t, below, i, key, less)
               = [tree |-> Freed(t, i, less), idx |-> Null]
BY Zenon DEF RemoveAt, Freed

\* It has two.
LEMMA RemoveTwoTop ==
    ASSUME NEW t, NEW below, NEW i, NEW less, Null \notin {t.nodes[i].left, t.nodes[i].right},
           NEW j, j = MinKeyNode(t.nodes)[t.nodes[i].right], NEW k, k = t.nodes[j].key, NEW data, data = t.nodes[j].data
    PROVE  RemoveTop(t, below, i, less)
               = Refilled(WithChild(Called(below, t.nodes[i].right, k, 0), i, "right"), i, k, data, less)
BY Zenon DEF RemoveTop, Refilled, Called

\* When a tree m has been made by a removal of gone, and its root i is recalculated.
LEMMA RemovedHere ==
    ASSUME NEW N, NEW t, NEW key, NEW less, NEW i, NEW S, NEW m, NEW gone,
           NEW done, done = Fields(m, Append(t.free, gone), t.elements - less, t.root),
           Shrunk(t.nodes, RebalanceRemoved(m, i), N, i, i, S, key, gone)
    PROVE  TakenOut(t, N, key, less, i, S, Recalculated(done, i))
<1>1. PICK q, f, e, o, r : /\ q = RebalanceRemoved(m, i) /\ f = Append(t.free, gone)
                           /\ e = t.elements - less /\ o = t.root /\ r = Recalculated(done, i)
  OBVIOUS
<1>2. done = Fields(m, f, e, o)
  BY <1>1
<1>3. done.nodes = m /\ [done EXCEPT !.nodes = q] = Fields(q, f, e, o)
  BY <1>2, NodesPut
<1>4. r = [tree |-> [done EXCEPT !.nodes = q], idx |-> i]
  BY <1>1, <1>3 DEF Recalculated
<1>5. r.tree = Fields(q, f, e, o) /\ r.idx = i
  BY <1>3, <1>4
<1>6. r.tree.nodes = q
  BY <1>5 DEF Fields
<1>7. gone \in S
  BY DEF Shrunk
<1>8. TakenOut(t, N, key, less, i, S, r)
  BY <1>1, <1>5, <1>6, <1>7 DEF TakenOut
<1>. QED  BY <1>1, <1>8

\* The key is on the left.
LEMMA RemovedLeft ==
    ASSUME NEW N \in Nat, NEW t, IsTree(t, N), NEW i, NEW S, NEW L, NEW R, NEW hl \in Nat, NEW hr \in Nat,
           Divided(t.nodes, N, i, S, L, R, hl, hr), NEW key \in Int, key < t.nodes[i].key, NEW less,
           NEW sub, TakenOut(t, N, key, less, t.nodes[i].left, L, sub)
    PROVE  TakenOut(t, N, key, less, i, S, Recalculated(WithChild(sub, i, "left"), i))
<1>1. PICK n, o : n = t.nodes /\ o = t.root
  OBVIOUS
<1>2. PICK m, x, gone : /\ m = sub.tree.nodes /\ x = sub.idx
                        /\ sub.tree = Fields(m, Append(t.free, gone), t.elements - less, o)
                        /\ Shrunk(n, m, N, n[i].left, x, L, key, gone)
  BY <1>1 DEF TakenOut
<1>3. WithChild(sub, i, "left") = Fields(SetLeft(m, i, x), Append(t.free, gone), t.elements - less, o)
  <2>1. sub.tree = Fields(m, Append(t.free, gone), t.elements - less, o)
    BY <1>2
  <2>2. WithChild(sub, i, "left") = Fields(SetLeft(m, i, sub.idx), Append(t.free, gone), t.elements - less, o)
    BY <2>1, ChildPut
  <2>. QED  BY <1>2, <2>2
<1>4. Shrunk(n, RebalanceRemoved(SetLeft(m, i, x), i), N, i, i, S, key, gone)
  <2>1. IsArray(n, N)
    BY <1>1 DEF IsTree
  <2>. QED  BY <1>1, <1>2, <2>1, ShrunkLeft
<1>. QED  BY <1>1, <1>2, <1>3, <1>4, RemovedHere

\* The key is on the right.
LEMMA RemovedRight ==
    ASSUME NEW N \in Nat, NEW t, IsTree(t, N), NEW i, NEW S, NEW L, NEW R, NEW hl \in Nat, NEW hr \in Nat,
           Divided(t.nodes, N, i, S, L, R, hl, hr), NEW key \in Int, key > t.nodes[i].key, NEW less,
           NEW sub, TakenOut(t, N, key, less, t.nodes[i].right, R, sub)
    PROVE  TakenOut(t, N, key, less, i, S, Recalculated(WithChild(sub, i, "right"), i))
<1>1. PICK n, o : n = t.nodes /\ o = t.root
  OBVIOUS
<1>2. PICK m, x, gone : /\ m = sub.tree.nodes /\ x = sub.idx
                        /\ sub.tree = Fields(m, Append(t.free, gone), t.elements - less, o)
                        /\ Shrunk(n, m, N, n[i].right, x, R, key, gone)
  BY <1>1 DEF TakenOut
<1>3. WithChild(sub, i, "right") = Fields(SetRight(m, i, x), Append(t.free, gone), t.elements - less, o)
  <2>1. sub.tree = Fields(m, Append(t.free, gone), t.elements - less, o)
    BY <1>2
  <2>2. WithChild(sub, i, "right") = Fields(SetRight(m, i, sub.idx), Append(t.free, gone), t.elements - less, o)
    BY <2>1, ChildPut
  <2>. QED  BY <1>2, <2>2
<1>4. Shrunk(n, RebalanceRemoved(SetRight(m, i, x), i), N, i, i, S, key, gone)
  <2>1. IsArray(n, N)
    BY <1>1 DEF IsTree
  <2>. QED  BY <1>1, <1>2, <2>1, ShrunkRight
<1>. QED  BY <1>1, <1>2, <1>3, <1>4, RemovedHere

\* The key is of a node without children.
LEMMA RemovedLeaf ==
    ASSUME NEW N \in Nat, NEW t, IsTree(t, N), NEW i, NEW S, NEW L, NEW R, NEW hl \in Nat, NEW hr \in Nat,
           Divided(t.nodes, N, i, S, L, R, hl, hr), t.nodes[i].left = Null, t.nodes[i].right = Null,
           NEW less, NEW r,
           r = [tree |-> Freed(t, i, less), idx |-> Null]
    PROVE  TakenOut(t, N, t.nodes[i].key, less, i, S, r)
<1>1. PICK n, o, g, d : n = t.nodes /\ o = t.root /\ g = Append(t.free, i) /\ d = t.elements - less
  OBVIOUS
<1>2. t = Fields(n, t.free, t.elements, o) /\ IsArray(n, N)
  BY <1>1 DEF IsTree
<1>3. Freed(t, i, less) = Fields(n, g, d, o)
  <2>1. Freed(t, i, less) = Fields(n, Append(t.free, i), t.elements - less, o)
    BY <1>2, FreePut
  <2>. QED  BY <1>1, <2>1
<1>4. r.tree = Fields(n, g, d, o) /\ r.idx = Null
  BY <1>3
<1>5. r.tree.nodes = n
  BY <1>4 DEF Fields
<1>6. Shrunk(n, n, N, i, Null, S, n[i].key, i)
  BY <1>1, <1>2, ShrunkLeaf
<1>7. i \in S
  BY DEF Divided
<1>. QED  BY <1>1, <1>4, <1>5, <1>6, <1>7 DEF TakenOut

\* The key is of a node with one child.
LEMMA RemovedOne ==
    ASSUME NEW N \in Nat, NEW t, IsTree(t, N), NEW i, NEW S, NEW L, NEW R, NEW hl \in Nat, NEW hr \in Nat,
           Divided(t.nodes, N, i, S, L, R, hl, hr), Null \in {t.nodes[i].left, t.nodes[i].right},
           ~ (t.nodes[i].left = Null /\ t.nodes[i].right = Null), NEW less, NEW below
    PROVE  TakenOut(t, N, t.nodes[i].key, less, i, S, Recalculated(RemoveTop(t, below, i, less), i))
<1>1. PICK n, only : n = t.nodes /\ only = IF n[i].left # Null THEN n[i].left ELSE n[i].right
  OBVIOUS
<1>2. t = Fields(n, t.free, t.elements, t.root) /\ IsArray(n, N) /\ only # Null
  BY <1>1 DEF IsTree
<1>3. PICK top : top = RemoveTop(t, below, i, less)
  OBVIOUS
<1>4. top = MovedUp(t, i, only, less)
  BY <1>1, <1>3, Zenon DEF RemoveTop, MovedUp
<1>5. top = Fields([n EXCEPT ![i] = n[only]], Append(t.free, only), t.elements - less, t.root)
  <2>1. MovedUp(t, i, only, less) = Fields([n EXCEPT ![i] = n[only]], Append(t.free, only), t.elements - less, t.root)
    <3>1. PICK f, e, o, p : f = t.free /\ e = t.elements /\ o = t.root /\ p = Copied(n, i, only)
      OBVIOUS
    <3>2. t = Fields(n, f, e, o)
      BY <1>2, <3>1
    <3>3. MovedUp(t, i, only, less) = Fields(p, Append(f, only), e - less, o)
      BY <3>1, <3>2, NodeMovedPut
    <3>4. p = [n EXCEPT ![i] = n[only]]
      BY <3>1 DEF Copied
    <3>. QED  BY <3>1, <3>3, <3>4
  <2>. QED  BY <1>4, <2>1
<1>6. Shrunk(n, RebalanceRemoved([n EXCEPT ![i] = n[only]], i), N, i, i, S, n[i].key, only)
  BY <1>1, <1>2, ShrunkOne
<1>7. TakenOut(t, N, n[i].key, less, i, S, Recalculated(top, i))
  <2>1. PICK m, q, k : m = [n EXCEPT ![i] = n[only]] /\ q = RebalanceRemoved(m, i) /\ k = n[i].key
    OBVIOUS
  <2>2. /\ top = Fields(m, Append(t.free, only), t.elements - less, t.root)
        /\ Shrunk(t.nodes, RebalanceRemoved(m, i), N, i, i, S, k, only)
    BY <1>1, <1>5, <1>6, <2>1
  <2>3. TakenOut(t, N, k, less, i, S, Recalculated(top, i))
    BY <2>2, RemovedHere
  <2>. QED  BY <2>1, <2>3
<1>. QED  BY <1>1, <1>3, <1>7

\* The key is of a node with two children.
LEMMA RemovedTwo ==
    ASSUME NEW N \in Nat, NEW t, IsTree(t, N), NEW i, NEW S, NEW L, NEW R, NEW hl \in Nat, NEW hr \in Nat,
           Divided(t.nodes, N, i, S, L, R, hl, hr), NEW j, Least(t.nodes, R, j),
           NEW k, k = t.nodes[j].key, NEW data, data = t.nodes[j].data, NEW less, t.elements \in Int,
           NEW sub, TakenOut(t, N, k, 0, t.nodes[i].right, R, sub)
    PROVE  TakenOut(t, N, t.nodes[i].key, less, i, S,
                   Recalculated(Refilled(WithChild(sub, i, "right"), i, k, data, less), i))
<1>1. PICK n, o, e : n = t.nodes /\ o = t.root /\ e = t.elements
  OBVIOUS
<1>2. PICK m, x, gone : /\ m = sub.tree.nodes /\ x = sub.idx
                        /\ sub.tree = Fields(m, Append(t.free, gone), e - 0, o)
                        /\ Shrunk(n, m, N, n[i].right, x, R, k, gone)
  BY <1>1, Zenon DEF TakenOut
<1>3. sub.tree = Fields(m, Append(t.free, gone), e, o)
  <2>1. e - 0 = e
    BY <1>1
  <2>. QED  BY <1>2, <2>1
<1>4. PICK w : w = WithChild(sub, i, "right")
  OBVIOUS
<1>5. w = Fields(SetRight(m, i, x), Append(t.free, gone), e, o)
  <2>1. WithChild(sub, i, "right") = Fields(SetRight(m, i, sub.idx), Append(t.free, gone), e, o)
    BY <1>3, ChildPut
  <2>. QED  BY <1>2, <1>4, <2>1
<1>6. PICK q, top : q = Rekey(SetRight(m, i, x), i, k, data) /\ top = Refilled(w, i, k, data, less)
  OBVIOUS
<1>7. top = Fields(q, Append(t.free, gone), e - less, o)
  <2>1. Refilled(w, i, k, data, less)
            = Fields(Rekey(SetRight(m, i, x), i, k, data), Append(t.free, gone), e - less, o)
    BY <1>5, RekeyedPut
  <2>. QED  BY <1>6, <2>1
<1>8. Shrunk(n, RebalanceRemoved(q, i), N, i, i, S, n[i].key, gone)
  <2>1. IsArray(n, N) /\ Least(n, R, j) /\ Divided(n, N, i, S, L, R, hl, hr)
    BY <1>1 DEF IsTree
  <2>2. k = n[j].key /\ data = n[j].data
    BY <1>1
  <2>3. Shrunk(n, RebalanceRemoved(Rekey(SetRight(m, i, x), i, k, data), i), N, i, i, S, n[i].key, gone)
    BY <1>2, <2>1, <2>2, ShrunkTwo
  <2>. QED  BY <1>6, <2>3
<1>9. TakenOut(t, N, n[i].key, less, i, S, Recalculated(top, i))
  <2>1. PICK c : c = n[i].key
    OBVIOUS
  <2>2. TakenOut(t, N, c, less, i, S, Recalculated(top, i))
    BY <1>1, <1>7, <1>8, <2>1, RemovedHere
  <2>. QED  BY <2>1, <2>2
<1>. QED  BY <1>1, <1>4, <1>6, <1>9

\* A key of a tree.
HasKey(n, S, key) == \E a \in S : n[a].key = key

\* The calls for trees smaller than h, of nodes of S, return what they should.
SmallerRemoved(t, N, S, h, below) ==
    \A j \in -1 .. N - 1, U \in SUBSET S, k \in Int, c \in {0, 1} :
        Tree(t.nodes, j, U) /\ NodeHeight(t.nodes, j) < h /\ HasKey(t.nodes, U, k)
        => TakenOut(t, N, k, c, j, U, Called(below, j, k, c))

\* The recursive calls for smaller trees.
LEMMA RemoveStep ==
    ASSUME NEW N \in Nat, NEW t, IsTree(t, N), t.elements \in Int, NEW key \in Int, NEW less \in {0, 1}, NEW below,
           NEW i, NEW S, Tree(t.nodes, i, S), HasKey(t.nodes, S, key),
           SmallerRemoved(t, N, S, NodeHeight(t.nodes, i), below)
    PROVE  TakenOut(t, N, key, less, i, S, Called(RemoveFrom(t, below), i, key, less))
<1>1. PICK n : n = t.nodes
  OBVIOUS
<1>2. IsArray(n, N) /\ i \in Indexes(n)
  BY <1>1 DEF IsTree, Tree, Indexes
<1>3. PICK r : r = Called(RemoveFrom(t, below), i, key, less)
  OBVIOUS
<1>4. r = RemoveAt(t, below, i, key, less)
  <2>1. i \in Indexes(t.nodes)
    BY <1>1, <1>2
  <2>2. Called(RemoveFrom(t, below), i, key, less) = RemoveAt(t, below, i, key, less)
    BY <2>1, RemoveUnfolded
  <2>. QED  BY <1>3, <2>2
<1>5. i # Null
  <2>1. S # {}
    BY DEF HasKey
  <2>. QED  BY <2>1, NullTree
<1>6. PICK L, R \in SUBSET S, hl, hr \in Nat : Divided(n, N, i, S, L, R, hl, hr)
  BY <1>1, <1>2, <1>5, Parts
<1>7. /\ Branch(n, i, L, R) /\ S = {i} \cup L \cup R /\ i \in 0 .. N - 1
      /\ hl = NodeHeight(n, n[i].left) /\ hr = NodeHeight(n, n[i].right)
      /\ NodeHeight(n, i) = 1 + Higher(hl, hr)
  BY <1>6 DEF Divided
<1>8. /\ Tree(n, n[i].left, L) /\ hl < NodeHeight(n, i) /\ n[i].left \in -1 .. N - 1
      /\ Tree(n, n[i].right, R) /\ hr < NodeHeight(n, i) /\ n[i].right \in -1 .. N - 1
  BY <1>2, <1>7, ArrayNode DEF Branch, Higher
<1>9. /\ n[i].key \in Int
      /\ \A a \in L : n[a].key < n[i].key
      /\ \A a \in R : n[a].key > n[i].key
  BY <1>2, <1>7, ArrayNode DEF Branch, Ordered, Below, Above
<1>10. \A j \in -1 .. N - 1, U \in SUBSET S, k \in Int, c \in {0, 1} :
          Tree(n, j, U) /\ NodeHeight(n, j) < NodeHeight(n, i) /\ HasKey(n, U, k)
          => TakenOut(t, N, k, c, j, U, Called(below, j, k, c))
  BY <1>1 DEF SmallerRemoved
<1>11. ASSUME key < n[i].key PROVE TakenOut(t, N, key, less, i, S, r)
  <2>1. HasKey(n, L, key)
    BY <1>1, <1>7, <1>9, <1>11 DEF HasKey
  <2>2. PICK sub : sub = Called(below, n[i].left, key, less) /\ TakenOut(t, N, key, less, n[i].left, L, sub)
    BY <1>7, <1>8, <1>10, <2>1
  <2>3. r = Recalculated(WithChild(Called(below, n[i].left, key, less), i, "left"), i)
    BY <1>1, <1>4, <1>5, <1>9, <1>11, RemoveLower
  <2>4. TakenOut(t, N, key, less, i, S, Recalculated(WithChild(sub, i, "left"), i))
    BY <1>1, <1>6, <1>11, <2>2, RemovedLeft
  <2>. QED  BY <2>2, <2>3, <2>4
<1>12. ASSUME key > n[i].key PROVE TakenOut(t, N, key, less, i, S, r)
  <2>1. HasKey(n, R, key)
    BY <1>1, <1>7, <1>9, <1>12 DEF HasKey
  <2>2. PICK sub : sub = Called(below, n[i].right, key, less) /\ TakenOut(t, N, key, less, n[i].right, R, sub)
    BY <1>7, <1>8, <1>10, <2>1
  <2>3. r = Recalculated(WithChild(Called(below, n[i].right, key, less), i, "right"), i)
    BY <1>1, <1>4, <1>5, <1>9, <1>12, RemoveHigher
  <2>4. TakenOut(t, N, key, less, i, S, Recalculated(WithChild(sub, i, "right"), i))
    BY <1>1, <1>6, <1>12, <2>2, RemovedRight
  <2>. QED  BY <2>2, <2>3, <2>4
<1>13. ASSUME key = n[i].key, n[i].left = Null, n[i].right = Null PROVE TakenOut(t, N, key, less, i, S, r)
  <2>1. r = [tree |-> Freed(t, i, less), idx |-> Null]
    BY <1>1, <1>4, <1>5, <1>13, RemoveLeaf
  <2>2. TakenOut(t, N, n[i].key, less, i, S, r)
    BY <1>1, <1>6, <1>13, <2>1, RemovedLeaf
  <2>. QED  BY <1>13, <2>2
<1>14. ASSUME key = n[i].key, ~ (n[i].left = Null /\ n[i].right = Null), Null \in {n[i].left, n[i].right}
       PROVE  TakenOut(t, N, key, less, i, S, r)
  <2>1. r = Recalculated(RemoveTop(t, below, i, less), i)
    BY <1>1, <1>4, <1>5, <1>14, RemoveHere
  <2>2. TakenOut(t, N, n[i].key, less, i, S, Recalculated(RemoveTop(t, below, i, less), i))
    BY <1>1, <1>6, <1>14, RemovedOne
  <2>. QED  BY <1>14, <2>1, <2>2
<1>15. ASSUME key = n[i].key, Null \notin {n[i].left, n[i].right}
       PROVE  TakenOut(t, N, key, less, i, S, r)
  <2>1. r = Recalculated(RemoveTop(t, below, i, less), i)
    BY <1>1, <1>4, <1>5, <1>15, RemoveHere
  <2>2. PICK j, k, data : j = MinKeyNode(n)[n[i].right] /\ k = n[j].key /\ data = n[j].data
    OBVIOUS
  <2>3. Least(n, R, j)
    BY <1>2, <1>8, <1>15, <2>2, LeastFound
  <2>4. j \in R /\ k \in Int /\ HasKey(n, R, k)
    <3>1. j \in R
      BY <2>3 DEF Least
    <3>2. j \in 0 .. N - 1
      BY <1>2, <1>8, <3>1 DEF Tree, IsArray
    <3>. QED  BY <1>2, <2>2, <3>1, <3>2, ArrayNode DEF HasKey
  <2>5. PICK sub : sub = Called(below, n[i].right, k, 0) /\ TakenOut(t, N, k, 0, n[i].right, R, sub)
    BY <1>7, <1>8, <1>10, <2>4
  <2>6. RemoveTop(t, below, i, less) = Refilled(WithChild(Called(below, n[i].right, k, 0), i, "right"), i, k, data, less)
    BY <1>1, <1>15, <2>2, RemoveTwoTop
  <2>7. TakenOut(t, N, n[i].key, less, i, S,
                Recalculated(Refilled(WithChild(sub, i, "right"), i, k, data, less), i))
    <3>1. /\ Least(t.nodes, R, j) /\ Divided(t.nodes, N, i, S, L, R, hl, hr)
          /\ k = t.nodes[j].key /\ data = t.nodes[j].data
          /\ TakenOut(t, N, k, 0, t.nodes[i].right, R, sub)
      BY <1>1, <1>6, <2>2, <2>3, <2>5
    <3>2. TakenOut(t, N, t.nodes[i].key, less, i, S,
                  Recalculated(Refilled(WithChild(sub, i, "right"), i, k, data, less), i))
      BY <3>1, RemovedTwo
    <3>. QED  BY <1>1, <3>2
  <2>. QED  BY <1>15, <2>1, <2>5, <2>6, <2>7
<1>. QED  BY <1>3, <1>9, <1>11, <1>12, <1>13, <1>14, <1>15

\* The whole recursion.
LEMMA RemovedBelow ==
    ASSUME NEW N \in Nat, NEW t, IsTree(t, N), t.elements \in Int, NEW key \in Int, NEW less \in {0, 1},
           NEW i, NEW S, Tree(t.nodes, i, S), HasKey(t.nodes, S, key)
    PROVE  TakenOut(t, N, key, less, i, S, Called(RemoveBelow(t), i, key, less))
<1>1. PICK n : n = t.nodes
  OBVIOUS
<1>2. IsArray(n, N) /\ Size(n) = N
  BY <1>1, ArraySize DEF IsTree
<1>3. PICK f : /\ RemoveBelow(t) = f[N]
               /\ \A d \in 1 .. N : f[d] = RemoveFrom(t, f[d - 1])
  <2>1. Size(t.nodes) = N /\ Size(t.nodes) \in Nat
    BY <1>1, <1>2
  <2>2. PICK f : /\ RemoveBelow(t) = f[Size(t.nodes)]
                 /\ \A d \in 1 .. Size(t.nodes) : f[d] = RemoveFrom(t, f[d - 1])
    BY <2>1, RemoveCalls
  <2>. QED  BY <2>1, <2>2
<1> DEFINE T == {d \in 0 .. N : \A j \in -1 .. N - 1, U \in SUBSET S, k \in Int, c \in {0, 1} :
                    Tree(n, j, U) /\ NodeHeight(n, j) <= d /\ HasKey(n, U, k)
                    => TakenOut(t, N, k, c, j, U, Called(f[d], j, k, c))}
<1>4. 0 \in T
  <2>1. ASSUME NEW j \in -1 .. N - 1, NEW U \in SUBSET S, NEW k, Tree(n, j, U), NodeHeight(n, j) <= 0, HasKey(n, U, k)
        PROVE  FALSE
    <3>1. j = Null
      BY <1>2, <2>1, HeightType
    <3>2. U = {}
      BY <2>1, <3>1, NullTree
    <3>. QED  BY <2>1, <3>2 DEF HasKey
  <2>. QED  BY <2>1
<1>5. ASSUME NEW d \in 0 .. N, d < N, d \in T PROVE d + 1 \in T
  <2>1. d + 1 \in 0 .. N /\ f[d + 1] = RemoveFrom(t, f[d])
    <3>1. d + 1 \in 1 .. N /\ (d + 1) - 1 = d
      BY <1>5
    <3>. QED  BY <1>3, <3>1
  <2>2. ASSUME NEW j \in -1 .. N - 1, NEW U \in SUBSET S, NEW k \in Int, NEW c \in {0, 1},
               Tree(n, j, U), NodeHeight(n, j) <= d + 1, HasKey(n, U, k)
        PROVE  TakenOut(t, N, k, c, j, U, Called(f[d + 1], j, k, c))
    <3>1. NodeHeight(n, j) \in Nat
      BY <1>2, <2>2, HeightType
    <3>2. SmallerRemoved(t, N, U, NodeHeight(n, j), f[d])
      <4>1. ASSUME NEW a \in -1 .. N - 1, NEW V \in SUBSET U, NEW b \in Int, NEW e \in {0, 1},
                   Tree(n, a, V), NodeHeight(n, a) < NodeHeight(n, j), HasKey(n, V, b)
            PROVE  TakenOut(t, N, b, e, a, V, Called(f[d], a, b, e))
        <5>1. NodeHeight(n, a) \in Nat
          BY <1>2, <4>1, HeightType
        <5>2. NodeHeight(n, a) <= d /\ V \in SUBSET S
          BY <2>2, <3>1, <4>1, <5>1
        <5>. QED  BY <1>5, <4>1, <5>2
      <4>. QED  BY <1>1, <4>1 DEF SmallerRemoved
    <3>3. TakenOut(t, N, k, c, j, U, Called(RemoveFrom(t, f[d]), j, k, c))
      <4> HIDE DEF T
      <4>. QED  BY <1>1, <2>2, <3>2, RemoveStep
    <3>. QED  BY <2>1, <3>3
  <2>. QED  BY <2>1, <2>2
<1>6. NodeHeight(n, i) <= N /\ i \in -1 .. N - 1 /\ S \in SUBSET S
  <2>1. Tree(n, i, S)
    BY <1>1
  <2>2. NodeHeight(n, i) <= N
    BY <1>2, <2>1, TreeCalculated
  <2>. QED  BY <1>2, <2>1, <2>2 DEF Tree, IsArray, Null
<1>7. N \in T
  <2> HIDE DEF T
  <2>1. \A d \in 0 .. N : d < N /\ d \in T => d + 1 \in T
    BY <1>5
  <2>2. \A d \in 0 .. N : d \in T
    BY <1>4, <2>1, OneByOne
  <2>. QED  BY <2>2
<1>8. TakenOut(t, N, key, less, i, S, Called(f[N], i, key, less))
  BY <1>1, <1>6, <1>7
<1>. QED  BY <1>3, <1>8

(***************************************************************************)
(* A tree of N nodes, of which S are used, for the entries E.              *)
(***************************************************************************)
Used(t, N, S, E) ==
    /\ IsTree(t, N) /\ Tree(t.nodes, t.root, S) /\ Entries(t.nodes, S) = E
    /\ Lists(t.free, (0 .. N - 1) \ S) /\ Len(t.free) + t.elements = N
    /\ t.elements \in Nat /\ Cardinality(S) = t.elements

\* The entry of a key, in a set of pairs of a key and its data.
HasEntry(E, key) == \E e \in E : e[1] = key

\* The entries of the others.
Others(E, key) == {e \in E : e[1] # key}

Holds(t, N, E) == \E S : Used(t, N, S, E)

\* A list without its first element.
LEMMA ListsTail ==
    ASSUME NEW q, NEW T, Lists(q, T), Len(q) > 0
    PROVE  Head(q) \in T /\ Lists(Tail(q), T \ {Head(q)}) /\ Len(Tail(q)) = Len(q) - 1
<1>1. q \in Seq(T) /\ q # <<>> /\ \A a, b \in 1 .. Len(q) : q[a] = q[b] => a = b
  BY DEF Lists
<1>2. Head(q) = q[1] /\ Len(Tail(q)) = Len(q) - 1 /\ \A a \in 1 .. Len(q) - 1 : Tail(q)[a] = q[a + 1]
  BY <1>1
<1>3. Tail(q) \in Seq(T \ {Head(q)})
  <2>1. \A a \in 1 .. Len(Tail(q)) : Tail(q)[a] \in T \ {Head(q)}
    BY <1>1, <1>2
  <2>2. PICK r, U, l : r = Tail(q) /\ U = T \ {Head(q)} /\ l = Len(r)
    OBVIOUS
  <2>3. r \in Seq(T)
    BY <1>1, <2>2
  <2>4. r \in [1 .. l -> T] /\ l \in Nat
    BY <2>2, <2>3, LenProperties
  <2>5. r \in [1 .. l -> U]
    BY <2>1, <2>2, <2>4
  <2>6. r \in Seq(U)
    BY <2>4, <2>5
  <2>. QED  BY <2>2, <2>6
<1>4. \A x \in T \ {Head(q)} : \E a \in 1 .. Len(Tail(q)) : Tail(q)[a] = x
  <2>1. ASSUME NEW x \in T, x # Head(q) PROVE \E a \in 1 .. Len(Tail(q)) : Tail(q)[a] = x
    <3>1. PICK a \in 1 .. Len(q) : q[a] = x
      BY DEF Lists
    <3>2. a # 1 /\ a - 1 \in 1 .. Len(q) - 1 /\ (a - 1) + 1 = a
      BY <1>1, <1>2, <2>1, <3>1
    <3>. QED  BY <1>2, <3>1, <3>2
  <2>. QED  BY <2>1
<1>5. \A a, b \in 1 .. Len(Tail(q)) : Tail(q)[a] = Tail(q)[b] => a = b
  BY <1>1, <1>2
<1>6. Head(q) \in T
  BY <1>1, <1>2
<1>. QED  BY <1>2, <1>3, <1>4, <1>5, <1>6 DEF Lists

\* A list with one more.
LEMMA ListsAppend ==
    ASSUME NEW q, NEW T, NEW x, Lists(q, T), x \notin T
    PROVE  Lists(Append(q, x), T \cup {x}) /\ Len(Append(q, x)) = Len(q) + 1
<1>1. q \in Seq(T) /\ Len(q) \in Nat
  BY DEF Lists
<1>2. /\ Append(q, x) \in Seq(T \cup {x}) /\ Len(Append(q, x)) = Len(q) + 1
      /\ Append(q, x)[Len(q) + 1] = x /\ \A a \in 1 .. Len(q) : Append(q, x)[a] = q[a] /\ q[a] \in T
  BY <1>1
<1>3. \A a, b \in 1 .. Len(q) : q[a] = q[b] => a = b
  BY DEF Lists
<1>4. \A a, b \in 1 .. Len(q) + 1 : Append(q, x)[a] = Append(q, x)[b] => a = b
  BY <1>1, <1>2, <1>3
<1>5. \A y \in T \cup {x} : \E a \in 1 .. Len(q) + 1 : Append(q, x)[a] = y
  <2>1. ASSUME NEW y \in T PROVE \E a \in 1 .. Len(q) + 1 : Append(q, x)[a] = y
    <3>1. PICK a \in 1 .. Len(q) : q[a] = y
      BY DEF Lists
    <3>2. a \in 1 .. Len(q) + 1
      BY <1>1
    <3>. QED  BY <1>2, <3>1, <3>2
  <2>. QED  BY <1>1, <1>2, <2>1
<1>. QED  BY <1>2, <1>4, <1>5 DEF Lists

\* Another root.
LEMMA RootPut ==
    ASSUME NEW t, NEW m, NEW f, NEW e, NEW r, t = Fields(m, f, e, r), NEW x
    PROVE  [t EXCEPT !.root = x] = Fields(m, f, e, x)
BY DEF Fields

\* What the entries are worth.
LEMMA UsedFacts ==
    ASSUME NEW N \in Nat, NEW t, NEW S, NEW E, Used(t, N, S, E)
    PROVE  /\ IsArray(t.nodes, N) /\ Tree(t.nodes, t.root, S) /\ S \in SUBSET (0 .. N - 1)
           /\ IsFiniteSet(S) /\ Len(t.free) \in Nat
           /\ \A key : HasKey(t.nodes, S, key) <=> HasEntry(E, key)
<1>1. IsArray(t.nodes, N) /\ Tree(t.nodes, t.root, S) /\ Entries(t.nodes, S) = E /\ t.free \in Seq((0 .. N - 1) \ S)
  BY DEF Used, IsTree, Lists
<1>2. S \in SUBSET (0 .. N - 1)
  BY <1>1 DEF Tree, IsArray
<1>3. IsFiniteSet(S)
  BY <1>2, IndexSets
<1>4. \A key : HasKey(t.nodes, S, key) <=> HasEntry(E, key)
  <2>1. PICK n : n = t.nodes /\ E = {<<n[i].key, n[i].data>> : i \in S}
    BY <1>1 DEF Entries
  <2>2. ASSUME NEW key, HasKey(n, S, key) PROVE HasEntry(E, key)
    <3>1. PICK a \in S : n[a].key = key
      BY <2>2 DEF HasKey
    <3>2. PICK e : e = <<n[a].key, n[a].data>>
      OBVIOUS
    <3>3. e \in E /\ e[1] = key
      BY <2>1, <3>1, <3>2
    <3>. QED  BY <3>3 DEF HasEntry
  <2>3. ASSUME NEW key, HasEntry(E, key) PROVE HasKey(n, S, key)
    <3>1. PICK e \in E : e[1] = key
      BY <2>3 DEF HasEntry
    <3>2. PICK a \in S : e = <<n[a].key, n[a].data>>
      BY <2>1
    <3>3. n[a].key = key
      BY <3>1, <3>2
    <3>. QED  BY <3>3 DEF HasKey
  <2>. QED  BY <2>1, <2>2, <2>3
<1>. QED  BY <1>1, <1>2, <1>3, <1>4

\* Membership, and the data of a key.
LEMMA HoldsLookup ==
    ASSUME NEW N \in Nat, NEW t, NEW E, Holds(t, N, E), NEW key \in Int
    PROVE  /\ IsMember(t, key) <=> HasEntry(E, key)
           /\ \A e \in E : e[1] = key => LookupData(t, key) = e[2]
           /\ IsMember(t, key) => <<key, LookupData(t, key)>> \in E
<1>1. PICK S : Used(t, N, S, E)
  BY DEF Holds
<1>2. PICK n, j : n = t.nodes /\ j = LookupBelow(n, key)[t.root]
  OBVIOUS
<1>3. /\ IsArray(n, N) /\ Tree(n, t.root, S) /\ Entries(n, S) = E /\ S \in SUBSET (0 .. N - 1)
      /\ \A k : HasKey(n, S, k) <=> HasEntry(E, k)
  BY <1>1, <1>2, UsedFacts DEF Used
<1>4. /\ j \in S \cup {Null}
      /\ j # Null => n[j].key = key
      /\ j = Null => ~ HasKey(n, S, key)
  <2>1. Looked(n, S, key, j)
    BY <1>2, <1>3, Found
  <2>. QED  BY <2>1 DEF Looked, HasKey
<1>5. Lookup(t, key) = j /\ (IsMember(t, key) <=> j # Null) /\ LookupData(t, key) = n[j].data
  BY <1>2 DEF Lookup, IsMember, LookupData
<1>6. ASSUME j # Null PROVE <<key, n[j].data>> \in E /\ HasKey(n, S, key)
  <2>1. j \in S /\ n[j].key = key
    BY <1>4, <1>6
  <2>. QED  BY <1>3, <2>1 DEF Entries, HasKey
<1>7. ASSUME NEW e \in E, e[1] = key PROVE j # Null /\ n[j].data = e[2]
  <2>1. PICK k \in S : e = <<n[k].key, n[k].data>>
    BY <1>3 DEF Entries
  <2>2. n[k].key = key /\ HasKey(n, S, key) /\ e[2] = n[k].data
    BY <1>7, <2>1 DEF HasKey
  <2>3. j # Null /\ j \in S /\ n[j].key = key
    BY <1>4, <2>2
  <2>4. j = k
    BY <1>3, <2>1, <2>2, <2>3, Distinct
  <2>. QED  BY <2>2, <2>3, <2>4
<1>8. j # Null => HasEntry(E, key)
  BY <1>3, <1>6
<1>9. HasEntry(E, key) => j # Null
  BY <1>7 DEF HasEntry
<1>10. \A e \in E : e[1] = key => LookupData(t, key) = e[2]
  BY <1>5, <1>7
<1>. QED  BY <1>5, <1>6, <1>8, <1>9, <1>10

\* An insertion.
LEMMA HoldsInsert ==
    ASSUME NEW N \in Nat, NEW t, NEW E, Holds(t, N, E), t.elements < N,
           NEW key \in Int, NEW data, ~ HasEntry(E, key)
    PROVE  /\ Holds(Insert(t, key, data), N, E \cup {<<key, data>>})
           /\ Insert(t, key, data).elements = t.elements + 1
<1>1. PICK S : Used(t, N, S, E)
  BY DEF Holds
<1>2. PICK n, f, e, o, new : n = t.nodes /\ f = t.free /\ e = t.elements /\ o = t.root /\ new = Head(f)
  OBVIOUS
<1>3. /\ IsTree(t, N) /\ IsArray(n, N) /\ Tree(n, o, S) /\ S \in SUBSET (0 .. N - 1)
      /\ Entries(n, S) = E /\ Lists(f, (0 .. N - 1) \ S) /\ Len(f) + e = N /\ e \in Nat
      /\ Cardinality(S) = e /\ IsFiniteSet(S) /\ Len(f) \in Nat
      /\ ~ HasKey(n, S, key)
  BY <1>1, <1>2, UsedFacts DEF Used
<1>4. new \in (0 .. N - 1) \ S /\ Lists(Tail(f), ((0 .. N - 1) \ S) \ {new}) /\ Len(Tail(f)) = Len(f) - 1
  <2>1. Len(f) > 0
    BY <1>2, <1>3
  <2>. QED  BY <1>2, <1>3, <2>1, ListsTail
<1>5. PICK r : r = InsertBelow(t, key, data)[o] /\ PutIn(t, N, key, data, o, S, r)
  BY <1>2, <1>3, <1>4, InsertedBelow DEF HasKey
<1>6. PICK m, x : /\ m = r.tree.nodes /\ x = r.idx
                  /\ r.tree = Fields(m, Tail(f), e + 1, o)
                  /\ Grown(n, m, N, o, x, S, new, key, data)
  BY <1>2, <1>5 DEF PutIn
<1>7. PICK u : u = Insert(t, key, data)
  OBVIOUS
<1>8. u = Fields(m, Tail(f), e + 1, x)
  <2>1. Size(t.nodes) = N
    BY <1>2, <1>3, ArraySize
  <2>2. u = [r.tree EXCEPT !.root = x]
    BY <1>2, <1>5, <1>6, <1>7, <2>1 DEF Insert
  <2>3. [r.tree EXCEPT !.root = x] = Fields(m, Tail(f), e + 1, x)
    BY <1>6, RootPut
  <2>. QED  BY <2>2, <2>3
<1>9. u.nodes = m /\ u.free = Tail(f) /\ u.elements = e + 1 /\ u.root = x
  BY <1>8 DEF Fields
<1>10. PICK V : V = S \cup {new}
  OBVIOUS
<1>11. IsArray(m, N) /\ Tree(m, x, V) /\ Entries(m, V) = E \cup {<<key, data>>}
  BY <1>3, <1>6, <1>10 DEF Grown
<1>12. Cardinality(V) = e + 1
  BY <1>3, <1>4, <1>10, FS_AddElement
<1>13. Lists(Tail(f), (0 .. N - 1) \ V)
  <2>1. ((0 .. N - 1) \ S) \ {new} = (0 .. N - 1) \ V
    BY <1>10
  <2>. QED  BY <1>4, <2>1
<1>14. Len(Tail(f)) + (e + 1) = N /\ e + 1 \in Nat
  <2>1. PICK a, b : a = Len(f) /\ b = Len(Tail(f))
    OBVIOUS
  <2>2. a + e = N /\ e \in Nat /\ a \in Nat
    BY <1>3, <2>1
  <2>3. b = a - 1
    BY <1>4, <2>1
  <2>4. b + (e + 1) = N /\ e + 1 \in Nat
    BY <2>2, <2>3
  <2>. QED  BY <2>1, <2>4
<1>15. IsTree(u, N)
  BY <1>8, <1>9, <1>11 DEF IsTree
<1>16. Used(u, N, V, E \cup {<<key, data>>})
  BY <1>9, <1>11, <1>12, <1>13, <1>14, <1>15 DEF Used
<1>. QED  BY <1>2, <1>7, <1>9, <1>16 DEF Holds

\* A removal.
LEMMA HoldsRemove ==
    ASSUME NEW N \in Nat, NEW t, NEW E, Holds(t, N, E), NEW key \in Int, HasEntry(E, key)
    PROVE  Holds(Remove(t, key), N, Others(E, key)) /\ Remove(t, key).elements = t.elements - 1
<1>1. PICK S : Used(t, N, S, E)
  BY DEF Holds
<1>2. PICK n, f, e, o : n = t.nodes /\ f = t.free /\ e = t.elements /\ o = t.root
  OBVIOUS
<1>3. /\ IsTree(t, N) /\ IsArray(n, N) /\ Tree(n, o, S) /\ S \in SUBSET (0 .. N - 1)
      /\ Entries(n, S) = E /\ Lists(f, (0 .. N - 1) \ S) /\ Len(f) + e = N /\ e \in Nat
      /\ Cardinality(S) = e /\ IsFiniteSet(S) /\ Len(f) \in Nat
      /\ HasKey(n, S, key)
  BY <1>1, <1>2, UsedFacts DEF Used
<1>4. PICK r : r = Called(RemoveBelow(t), o, key, 1) /\ TakenOut(t, N, key, 1, o, S, r)
  BY <1>2, <1>3, RemovedBelow
<1>5. PICK m, x, gone : /\ m = r.tree.nodes /\ x = r.idx
                        /\ r.tree = Fields(m, Append(f, gone), e - 1, o)
                        /\ Shrunk(n, m, N, o, x, S, key, gone)
  BY <1>2, <1>4 DEF TakenOut
<1>6. PICK u : u = Remove(t, key)
  OBVIOUS
<1>7. u = Fields(m, Append(f, gone), e - 1, x)
  <2>1. u = [r.tree EXCEPT !.root = x]
    BY <1>2, <1>4, <1>5, <1>6, Zenon DEF Remove, Called
  <2>2. [r.tree EXCEPT !.root = x] = Fields(m, Append(f, gone), e - 1, x)
    BY <1>5, RootPut
  <2>. QED  BY <2>1, <2>2
<1>8. u.nodes = m /\ u.free = Append(f, gone) /\ u.elements = e - 1 /\ u.root = x
  BY <1>7 DEF Fields
<1>9. PICK V, F : V = S \ {gone} /\ F = Others(E, key)
  OBVIOUS
<1>10. gone \in S /\ IsArray(m, N) /\ Tree(m, x, V) /\ Entries(m, V) = F
  BY <1>3, <1>5, <1>9 DEF Shrunk, Others
<1>11. Cardinality(V) = e - 1 /\ e - 1 \in Nat
  <2>1. IsFiniteSet(V) /\ Cardinality(V) = Cardinality(S) - 1
    BY <1>3, <1>9, <1>10, FS_RemoveElement
  <2>2. Cardinality(V) \in Nat
    BY <2>1, FS_CardinalityType
  <2>. QED  BY <1>3, <2>1, <2>2
<1>12. Lists(Append(f, gone), (0 .. N - 1) \ V) /\ Len(Append(f, gone)) = Len(f) + 1
  <2>1. ((0 .. N - 1) \ S) \cup {gone} = (0 .. N - 1) \ V /\ gone \notin (0 .. N - 1) \ S
    BY <1>3, <1>9, <1>10
  <2>2. PICK T : T = (0 .. N - 1) \ S
    OBVIOUS
  <2>3. Lists(Append(f, gone), T \cup {gone}) /\ Len(Append(f, gone)) = Len(f) + 1
    BY <1>3, <2>1, <2>2, ListsAppend
  <2>. QED  BY <2>1, <2>2, <2>3
<1>13. Len(Append(f, gone)) + (e - 1) = N
  BY <1>3, <1>12
<1>14. IsTree(u, N)
  BY <1>7, <1>8, <1>10 DEF IsTree
<1>15. Used(u, N, V, F)
  BY <1>8, <1>10, <1>11, <1>12, <1>13, <1>14 DEF Used
<1>. QED  BY <1>2, <1>6, <1>8, <1>9, <1>15 DEF Holds

\* The empty tree.
LEMMA HoldsEmpty ==
    ASSUME NEW N \in Nat, NEW key \in Int, NEW data
    PROVE  Holds(Empty(N, key, data), N, {})
<1>1. PICK x, n, f : /\ x = [Node(key, data) EXCEPT !.height = 0]
                     /\ n = [i \in 0 .. N - 1 |-> x] /\ f = [i \in 1 .. N |-> i - 1]
  OBVIOUS
<1>2. PICK t : t = Empty(N, key, data)
  OBVIOUS
<1>3. t = Fields(n, f, 0, Null)
  BY <1>1, <1>2, Zenon DEF Empty, Fields
<1>4. t.nodes = n /\ t.free = f /\ t.elements = 0 /\ t.root = Null
  BY <1>3 DEF Fields
<1>5. IsNode(x, -1 .. N - 1)
  BY <1>1 DEF Node, IsNode, Null
<1>6. IsTree(t, N)
  BY <1>1, <1>3, <1>4, <1>5 DEF IsTree, IsArray
<1>7. Tree(n, Null, {}) /\ Entries(n, {}) = {}
  BY NullTree DEF Entries
<1>8. f \in Seq(0 .. N - 1) /\ Len(f) = N
  BY <1>1
<1>9. Lists(f, 0 .. N - 1)
  <2>1. \A a, b \in 1 .. Len(f) : f[a] = f[b] => a = b
    BY <1>1, <1>8
  <2>2. \A i \in 0 .. N - 1 : \E a \in 1 .. Len(f) : f[a] = i
    <3>1. ASSUME NEW i \in 0 .. N - 1 PROVE i + 1 \in 1 .. N /\ f[i + 1] = i
      BY <1>1
    <3>. QED  BY <1>8, <3>1
  <2>. QED  BY <1>8, <2>1, <2>2 DEF Lists
<1>10. Cardinality({}) = 0 /\ (0 .. N - 1) \ {} = 0 .. N - 1
  BY FS_EmptySet
<1>11. Used(t, N, {}, {})
  <2>1. Len(f) + 0 = N /\ 0 \in Nat
    BY <1>8
  <2>2. Lists(f, (0 .. N - 1) \ {})
    BY <1>9, <1>10
  <2>. QED  BY <1>4, <1>6, <1>7, <1>10, <2>1, <2>2 DEF Used
<1>. QED  BY <1>2, <1>11 DEF Holds

\* Other data for a key.
Assigned(n, j, data) == [n EXCEPT ![j].data = data]

\* The data of a node.
LEMMA DataAssigned ==
    ASSUME NEW N \in Nat, NEW n, IsArray(n, N), NEW i, NEW S, Tree(n, i, S), NEW j \in S, NEW data,
           NEW m, m = Assigned(n, j, data)
    PROVE  /\ IsArray(m, N) /\ Tree(m, i, S)
           /\ Entries(m, S) = {e \in Entries(n, S) : e[1] # n[j].key} \cup {<<n[j].key, data>>}
<1>1. j \in 0 .. N - 1 /\ DOMAIN n = 0 .. N - 1 /\ S \subseteq 0 .. N - 1
  BY DEF Tree, IsArray
<1>2. DOMAIN m = 0 .. N - 1 /\ m[j] = [n[j] EXCEPT !.data = data] /\ \A k \in 0 .. N - 1 : k # j => m[k] = n[k]
  BY <1>1 DEF Assigned
<1>3. IsNode(n[j], -1 .. N - 1)
  BY <1>1 DEF IsArray
<1>4. /\ IsNode(m[j], -1 .. N - 1) /\ m[j].key = n[j].key /\ m[j].data = data
      /\ m[j].left = n[j].left /\ m[j].right = n[j].right /\ m[j].height = n[j].height
  BY <1>2, <1>3 DEF IsNode
<1>5. IsArray(m, N)
  BY <1>2, <1>4 DEF IsArray
<1>6. Alike(n, m, S)
  BY <1>1, <1>2, <1>4 DEF Alike
<1>7. Tree(m, i, S)
  BY <1>1, <1>2, <1>6, Frame
<1>8. \A k \in S : k # j => n[k].key # n[j].key
  BY Distinct
<1>9. Entries(m, S) = {e \in Entries(n, S) : e[1] # n[j].key} \cup {<<n[j].key, data>>}
  <2>1. Entries(m, S) = {<<m[k].key, m[k].data>> : k \in S \ {j}} \cup {<<n[j].key, data>>}
    BY <1>4 DEF Entries
  <2>2. {<<m[k].key, m[k].data>> : k \in S \ {j}} = {<<n[k].key, n[k].data>> : k \in S \ {j}}
    BY <1>1, <1>2
  <2>3. {<<n[k].key, n[k].data>> : k \in S \ {j}} = {e \in Entries(n, S) : e[1] # n[j].key}
    BY <1>8 DEF Entries
  <2>. QED  BY <2>1, <2>2, <2>3
<1>. QED  BY <1>5, <1>7, <1>9

\* The data of a node of a tree.
LEMMA DataPut ==
    ASSUME NEW t, NEW n, NEW f, NEW e, NEW r, t = Fields(n, f, e, r), NEW key, NEW data
    PROVE  AssignData(t, key, data) = Fields(Assigned(n, Lookup(t, key), data), f, e, r)
<1>1. PICK j : j = Lookup(t, key)
  OBVIOUS
<1>2. [t EXCEPT !.nodes[j].data = data] = Fields(Assigned(n, j, data), f, e, r)
  BY DEF Fields, Assigned
<1>. QED  BY <1>1, <1>2 DEF AssignData

\* The node of a key.
LEMMA HoldsFound ==
    ASSUME NEW N \in Nat, NEW t, NEW S, NEW E, Used(t, N, S, E), NEW key \in Int, HasEntry(E, key)
    PROVE  Lookup(t, key) \in S /\ t.nodes[Lookup(t, key)].key = key
<1>1. Tree(t.nodes, t.root, S) /\ IsArray(t.nodes, N) /\ HasKey(t.nodes, S, key)
  BY UsedFacts
<1>2. Looked(t.nodes, S, key, LookupBelow(t.nodes, key)[t.root])
  BY <1>1, Found
<1>. QED  BY <1>1, <1>2 DEF Looked, HasKey, Lookup

\* The data of a key are assigned to.
LEMMA HoldsAssign ==
    ASSUME NEW N \in Nat, NEW t, NEW E, Holds(t, N, E), NEW key \in Int, NEW data, HasEntry(E, key)
    PROVE  /\ Holds(AssignData(t, key, data), N, Others(E, key) \cup {<<key, data>>})
           /\ AssignData(t, key, data).elements = t.elements
<1>1. PICK S : Used(t, N, S, E)
  BY DEF Holds
<1>2. PICK n, f, e, o, j : n = t.nodes /\ f = t.free /\ e = t.elements /\ o = t.root /\ j = Lookup(t, key)
  OBVIOUS
<1>3. j \in S /\ n[j].key = key
  BY <1>1, <1>2, HoldsFound
<1>4. t = Fields(n, f, e, o) /\ IsArray(n, N) /\ Tree(n, o, S) /\ Entries(n, S) = E
  BY <1>1, <1>2 DEF Used, IsTree
<1>5. PICK m : m = Assigned(n, j, data)
  OBVIOUS
<1>6. /\ IsArray(m, N) /\ Tree(m, o, S)
      /\ Entries(m, S) = Others(E, key) \cup {<<key, data>>}
  <2>1. /\ IsArray(m, N) /\ Tree(m, o, S)
        /\ Entries(m, S) = {g \in Entries(n, S) : g[1] # n[j].key} \cup {<<n[j].key, data>>}
    BY <1>3, <1>4, <1>5, DataAssigned
  <2>. QED  BY <1>3, <1>4, <2>1 DEF Others
<1>7. PICK u : u = AssignData(t, key, data)
  OBVIOUS
<1>8. u = Fields(m, f, e, o)
  <2>1. AssignData(t, key, data) = Fields(Assigned(n, Lookup(t, key), data), f, e, o)
    BY <1>4, DataPut
  <2>. QED  BY <1>2, <1>5, <1>7, <2>1
<1>9. u.nodes = m /\ u.free = f /\ u.elements = e /\ u.root = o
  BY <1>8 DEF Fields
<1>10. IsTree(u, N)
  BY <1>6, <1>8, <1>9 DEF IsTree
<1>11. Lists(f, (0 .. N - 1) \ S) /\ Len(f) + e = N /\ e \in Nat /\ Cardinality(S) = e
  BY <1>1, <1>2 DEF Used
<1>12. Used(u, N, S, Others(E, key) \cup {<<key, data>>})
  BY <1>6, <1>9, <1>10, <1>11 DEF Used
<1>. QED  BY <1>2, <1>7, <1>9, <1>12 DEF Holds

\* A tree that is used as it should be is well formed.
LEMMA HoldsWellFormed ==
    ASSUME NEW N \in Nat, NEW t, NEW E, Holds(t, N, E)
    PROVE  WellFormed(t)
<1>1. PICK S : Used(t, N, S, E)
  BY DEF Holds
<1>2. PICK n, f, e, o : n = t.nodes /\ f = t.free /\ e = t.elements /\ o = t.root
  OBVIOUS
<1>3. /\ IsArray(n, N) /\ Tree(n, o, S) /\ S \in SUBSET (0 .. N - 1)
      /\ Lists(f, (0 .. N - 1) \ S) /\ Len(f) + e = N /\ Cardinality(S) = e
  BY <1>1, <1>2, UsedFacts DEF Used
<1>4. Reachable(n)[o] = S /\ Size(n) = N /\ DOMAIN n = 0 .. N - 1
  BY <1>3, Reached, ArraySize
<1>5. {f[i] : i \in 1 .. Len(f)} = DOMAIN n \ S
  <2>1. f \in Seq((0 .. N - 1) \ S) /\ \A x \in (0 .. N - 1) \ S : \E a \in 1 .. Len(f) : f[a] = x
    BY <1>3 DEF Lists
  <2>2. \A a \in 1 .. Len(f) : f[a] \in (0 .. N - 1) \ S
    BY <2>1
  <2>3. {f[a] : a \in 1 .. Len(f)} \subseteq (0 .. N - 1) \ S
    BY <2>2
  <2>4. (0 .. N - 1) \ S \subseteq {f[a] : a \in 1 .. Len(f)}
    BY <2>1
  <2>. QED  BY <1>4, <2>3, <2>4
<1>6. ASSUME NEW i \in S
      PROVE  /\ \A j \in Reachable(n)[n[i].left] : n[j].key < n[i].key
             /\ \A j \in Reachable(n)[n[i].right] : n[j].key > n[i].key
             /\ n[i].height = CalcHeight(n)[i]
             /\ Balance(n, i) \in -1 .. 1
  <2>1. PICK T \in SUBSET S : Tree(n, i, T)
    BY <1>3, Inner
  <2>2. i # Null
    BY <1>3 DEF Tree
  <2>3. Fits(n, i) /\ \E L, R \in SUBSET T : Branch(n, i, L, R) /\ T = {i} \cup L \cup R
    BY <2>1, <2>2, Split
  <2>4. PICK L, R : Branch(n, i, L, R)
    BY <2>3
  <2>5. Reachable(n)[n[i].left] = L /\ Reachable(n)[n[i].right] = R
    BY <1>3, <2>4, Reached DEF Branch
  <2>6. CalcHeight(n)[i] = n[i].height
    BY <1>3, <2>1, <2>2, TreeCalculated DEF NodeHeight
  <2>. QED  BY <2>3, <2>4, <2>5, <2>6 DEF Branch, Ordered, Below, Above, Fits
<1>7. Len(f) + e = Size(n) /\ Cardinality(S) = e
  BY <1>3, <1>4
<1>. QED  BY <1>2, <1>4, <1>5, <1>6, <1>7 DEF WellFormed

\* No key has two entries.
LEMMA OneEntry ==
    ASSUME NEW N \in Nat, NEW t, NEW E, Holds(t, N, E), NEW d \in E, NEW e \in E, d[1] = e[1]
    PROVE  d = e
<1>1. PICK S : Used(t, N, S, E)
  BY DEF Holds
<1>2. PICK n : n = t.nodes
  OBVIOUS
<1>3. IsArray(n, N) /\ Tree(n, t.root, S) /\ E = {<<n[i].key, n[i].data>> : i \in S}
  BY <1>1, <1>2, UsedFacts DEF Used, Entries
<1>4. PICK i \in S, j \in S : d = <<n[i].key, n[i].data>> /\ e = <<n[j].key, n[j].data>>
  BY <1>3
<1>5. n[i].key = n[j].key
  BY <1>4
<1>6. i = j
  BY <1>3, <1>5, Distinct
<1>. QED  BY <1>4, <1>6

\* The keys of the entries with data of a kind, in a list.
KeysOf(nodes, found) == [k \in 1 .. Len(found) |-> nodes[found[k]].key]
Having(n, Good) == {i \in DOMAIN n : n[i].data \in Good}

\* There are as many entries as elements.
LEMMA EntriesCounted ==
    ASSUME NEW N \in Nat, NEW t, NEW E, Holds(t, N, E)
    PROVE  /\ IsFiniteSet(E) /\ Cardinality(E) <= t.elements /\ t.elements \in Nat
           /\ \A e \in E : e = <<e[1], e[2]>> /\ e[1] \in Int
<1>1. PICK S : Used(t, N, S, E)
  BY DEF Holds
<1>2. PICK n : n = t.nodes
  OBVIOUS
<1>3. /\ IsArray(n, N) /\ IsFiniteSet(S) /\ E = {<<n[i].key, n[i].data>> : i \in S}
      /\ Cardinality(S) = t.elements /\ t.elements \in Nat /\ S \in SUBSET (0 .. N - 1)
  BY <1>1, <1>2, UsedFacts DEF Used, Entries
<1>4. PICK f : f = [i \in S |-> <<n[i].key, n[i].data>>]
  OBVIOUS
<1>5. f \in Surjection(S, E)
  BY <1>3, <1>4 DEF Surjection
<1>6. IsFiniteSet(E) /\ Cardinality(E) <= Cardinality(S)
  BY <1>3, <1>5, FS_Surjection
<1>7. \A e \in E : e = <<e[1], e[2]>> /\ e[1] \in Int
  BY <1>3, ArrayNode
<1>. QED  BY <1>3, <1>6, <1>7

Keys(E) == {e[1] : e \in E}

\* The nodes that are used, in a list.
LEMMA HoldsMatches ==
    ASSUME NEW N \in Nat, NEW t, NEW E, Holds(t, N, E), NEW F \in SUBSET E, NEW matching,
           \A i \in DOMAIN t.nodes :
               <<t.nodes[i].key, t.nodes[i].data>> \in E
               => (i \in matching <=> <<t.nodes[i].key, t.nodes[i].data>> \in F)
    PROVE  Lists(KeysOf(t.nodes, FindMatchingData(t, matching)), Keys(F))
<1>1. PICK S : Used(t, N, S, E)
  BY DEF Holds
<1>2. PICK n, q, r, T, U : /\ n = t.nodes /\ q = FindMatchingData(t, matching) /\ r = KeysOf(n, q)
                           /\ T = S \cap matching /\ U = Keys(F)
  OBVIOUS
<1>3. /\ IsTree(t, N) /\ IsArray(n, N) /\ Tree(n, t.root, S) /\ E = {<<n[i].key, n[i].data>> : i \in S}
      /\ S \in SUBSET (0 .. N - 1)
  BY <1>1, <1>2, UsedFacts DEF Used, Entries
<1>4. Lists(q, T)
  <2>1. Tree(t.nodes, t.root, S)
    BY <1>2, <1>3
  <2>. QED  BY <1>2, <1>3, <2>1, Matched
<1>5. \A i \in S : i \in matching <=> <<n[i].key, n[i].data>> \in F
  <2>1. DOMAIN n = 0 .. N - 1
    BY <1>3 DEF IsArray
  <2>2. \A i \in S : <<n[i].key, n[i].data>> \in E
    BY <1>3
  <2>. QED  BY <1>2, <1>3, <2>1, <2>2
<1>6. U = {n[i].key : i \in T}
  <2>0. U = {e[1] : e \in F}
    BY <1>2 DEF Keys
  <2>1. F = {<<n[i].key, n[i].data>> : i \in T}
    BY <1>2, <1>3, <1>5
  <2>2. \A e \in F : \E i \in T : e[1] = n[i].key
    BY <2>1
  <2>3. \A i \in T : \E e \in F : e[1] = n[i].key
    <3>1. ASSUME NEW i \in T PROVE <<n[i].key, n[i].data>> \in F /\ <<n[i].key, n[i].data>>[1] = n[i].key
      BY <2>1
    <3>. QED  BY <3>1
  <2>. QED  BY <2>0, <2>2, <2>3
<1>7. q \in Seq(T) /\ Len(q) \in Nat /\ (\A a \in 1 .. Len(q) : q[a] \in T)
  BY <1>4 DEF Lists
<1>8. r = [k \in 1 .. Len(q) |-> n[q[k]].key]
  BY <1>2 DEF KeysOf
<1>9. r \in Seq(U) /\ Len(r) = Len(q)
  <2>1. \A k \in 1 .. Len(q) : n[q[k]].key \in U
    BY <1>6, <1>7
  <2>2. PICK l : l = Len(q)
    OBVIOUS
  <2>3. r \in [1 .. l -> U] /\ l \in Nat
    BY <1>7, <1>8, <2>1, <2>2
  <2>4. r \in Seq(U)
    BY <2>3
  <2>5. Len(r) = l
    BY <1>8, <2>2, <2>3
  <2>. QED  BY <2>2, <2>4, <2>5
<1>10. ASSUME NEW a \in 1 .. Len(r), NEW b \in 1 .. Len(r), r[a] = r[b] PROVE a = b
  <2>1. n[q[a]].key = n[q[b]].key /\ q[a] \in S /\ q[b] \in S
    BY <1>2, <1>7, <1>8, <1>9, <1>10
  <2>2. q[a] = q[b]
    BY <1>3, <2>1, Distinct
  <2>. QED  BY <1>4, <1>9, <2>2 DEF Lists
<1>11. ASSUME NEW x \in U PROVE \E a \in 1 .. Len(r) : r[a] = x
  <2>1. PICK i \in T : x = n[i].key
    BY <1>6
  <2>2. PICK a \in 1 .. Len(q) : q[a] = i
    BY <1>4 DEF Lists
  <2>. QED  BY <1>8, <1>9, <2>1, <2>2
<1>12. Lists(r, U)
  BY <1>9, <1>10, <1>11 DEF Lists
<1>. QED  BY <1>2, <1>12

(***************************************************************************)
(* The neighbour table.  It has N buffers, and the entries E: the state of *)
(* each neighbour that is known, under its identifier.                     *)
(***************************************************************************)
Buffers(E) == {e[2].esd_offs : e \in E}

\* An entry, with its buffer.
EntryOK(esds, N, now, e) ==
    /\ e[1] \in NodeId \ {OwnNodeId}
    /\ e[2].esd_offs \in 0 .. N - 1
    /\ e[2].last_esd_received \in Nat /\ e[2].last_esd_received <= now
    /\ esds[e[2].esd_offs] \in HeardSet /\ esds[e[2].esd_offs].nodeId = e[1]

Table(tree, esds, free) == [neighbour_table |-> tree, neighbour_ESD |-> esds, freeList |-> free]

\* No two have the same buffer.
Owned(esds, N, now, E) ==
    /\ DOMAIN esds = 0 .. N - 1
    /\ \A e \in E : EntryOK(esds, N, now, e)
    /\ \A d, e \in E : d[2].esd_offs = e[2].esd_offs => d = e

TableIs(tb, N, now, E) ==
    /\ tb = Table(tb.neighbour_table, tb.neighbour_ESD, tb.freeList)
    /\ Holds(tb.neighbour_table, N, E) /\ Owned(tb.neighbour_ESD, N, now, E)
    /\ Lists(tb.freeList, (0 .. N - 1) \ Buffers(E))
    /\ Len(tb.freeList) + tb.neighbour_table.elements = N

\* What is known of a neighbour.
KnownOf(tb, e) ==
    [esd |-> tb.neighbour_ESD[e[2].esd_offs], heard |-> e[2].last_esd_received]

\* What the application gets of some nodes.
InfoOf(nodes, esds, found) ==
    LET Of(n) == CHOOSE i \in found : nodes[i].key = n
    IN  [n \in {nodes[i].key : i \in found} |->
            [esd   |-> esds[nodes[Of(n)].data.esd_offs],
             heard |-> nodes[Of(n)].data.last_esd_received]]

\* A map of the neighbours with entries to what is known of them.
Informs(I, tb, E) ==
    /\ DOMAIN I = Keys(E)
    /\ \A e \in E : I[e[1]] = KnownOf(tb, e)
    /\ I = [n \in Keys(E) |-> I[n]]

\* The application gets the entries.
LEMMA InformationIs ==
    ASSUME NEW N \in Nat, NEW now, NEW tb, NEW E, TableIs(tb, N, now, E)
    PROVE  Informs(Information(tb), tb, E)
<1>1. PICK t, n, b, q : /\ t = tb.neighbour_table /\ n = t.nodes /\ b = tb.neighbour_ESD
                        /\ q = FindMatchingData(t, DOMAIN n)
  OBVIOUS
<1>2. Holds(t, N, E)
  BY <1>1 DEF TableIs
<1>3. PICK S : Used(t, N, S, E)
  BY <1>2 DEF Holds
<1>4. /\ IsTree(t, N) /\ IsArray(n, N) /\ Tree(n, t.root, S) /\ E = {<<n[i].key, n[i].data>> : i \in S}
      /\ S \in SUBSET (0 .. N - 1)
  BY <1>1, <1>3, UsedFacts DEF Used, Entries
<1>5. Range(q) = S
  <2>1. Tree(t.nodes, t.root, S)
    BY <1>1, <1>4
  <2>2. Lists(q, S \cap DOMAIN n) /\ S \cap DOMAIN n = S
    BY <1>1, <1>4, <2>1, Matched DEF IsArray
  <2>3. q \in Seq(S) /\ \A x \in S : \E a \in 1 .. Len(q) : q[a] = x
    BY <2>2 DEF Lists
  <2>4. DOMAIN q = 1 .. Len(q) /\ \A a \in 1 .. Len(q) : q[a] \in S
    BY <2>3
  <2>. QED  BY <2>3, <2>4 DEF Range
<1> DEFINE Of(k) == CHOOSE i \in S : n[i].key = k
           K == {n[i].key : i \in S}
           I == [k \in K |-> [esd |-> b[n[Of(k)].data.esd_offs], heard |-> n[Of(k)].data.last_esd_received]]
<1>6. Information(tb) = I
  <2>1. Information(tb) = InfoOf(tb.neighbour_table.nodes, tb.neighbour_ESD,
            Range(FindMatchingData(tb.neighbour_table, DOMAIN tb.neighbour_table.nodes)))
    BY DEF Information, InfoOf
  <2>2. Information(tb) = InfoOf(n, b, S)
    BY <1>1, <1>5, <2>1
  <2>. QED  BY <2>2 DEF InfoOf
<1>7. K = Keys(E)
  <2>1. Keys(E) = {<<n[i].key, n[i].data>>[1] : i \in S}
    BY <1>4 DEF Keys
  <2>. QED  BY <2>1
<1>8. ASSUME NEW e \in E PROVE I[e[1]] = KnownOf(tb, e)
  <2>1. PICK i \in S : e = <<n[i].key, n[i].data>>
    BY <1>4
  <2>2. e[1] = n[i].key /\ e[2] = n[i].data
    BY <2>1
  <2>3. \A j \in S : n[j].key = n[i].key => j = i
    BY <1>4, Distinct
  <2>4. Of(e[1]) = i
    BY <2>2, <2>3
  <2>5. e[1] \in K
    BY <2>2
  <2>. QED  BY <1>1, <2>2, <2>4, <2>5 DEF KnownOf
<1>9. I = [k \in K |-> I[k]]
  OBVIOUS
<1> HIDE DEF I, K
<1>10. DOMAIN I = K
  BY DEF I
<1>. QED  BY <1>6, <1>7, <1>8, <1>9, <1>10 DEF Informs

\* Numbers from 0 on.
LEMMA NumbersListed ==
    ASSUME NEW N \in Nat, NEW f, f = [i \in 1 .. N |-> i - 1]
    PROVE  Lists(f, 0 .. N - 1) /\ Len(f) = N
<1>1. f \in Seq(0 .. N - 1) /\ Len(f) = N
  OBVIOUS
<1>2. \A a, b \in 1 .. Len(f) : f[a] = f[b] => a = b
  BY <1>1
<1>3. \A i \in 0 .. N - 1 : \E a \in 1 .. Len(f) : f[a] = i
  <2>1. ASSUME NEW i \in 0 .. N - 1 PROVE i + 1 \in 1 .. N /\ f[i + 1] = i
    OBVIOUS
  <2>. QED  BY <1>1, <2>1
<1>. QED  BY <1>1, <1>2, <1>3 DEF Lists

\* A new table.
LEMMA TableStart ==
    ASSUME NEW N \in Nat, NEW now, NEW key \in Int, NEW data, NEW none
    PROVE  TableIs(Table(Empty(N, key, data), [i \in 0 .. N - 1 |-> none], [i \in 1 .. N |-> i - 1]),
                   N, now, {})
<1>1. PICK tree, esds, free : /\ tree = Empty(N, key, data) /\ esds = [i \in 0 .. N - 1 |-> none]
                              /\ free = [i \in 1 .. N |-> i - 1]
  OBVIOUS
<1>2. Holds(tree, N, {}) /\ tree.elements = 0
  BY <1>1, HoldsEmpty DEF Empty
<1>3. DOMAIN esds = 0 .. N - 1
  BY <1>1
<1>4. Lists(free, 0 .. N - 1) /\ Len(free) = N
  BY <1>1, NumbersListed
<1>5. (0 .. N - 1) \ Buffers({}) = 0 .. N - 1
  BY DEF Buffers
<1>6. PICK tb : tb = Table(tree, esds, free)
  OBVIOUS
<1>7. tb.neighbour_table = tree /\ tb.neighbour_ESD = esds /\ tb.freeList = free
  BY <1>6 DEF Table
<1>8. Len(free) + tree.elements = N /\ Lists(free, (0 .. N - 1) \ Buffers({}))
  <2>1. Len(free) + tree.elements = N
    BY <1>2, <1>4
  <2>2. Lists(free, (0 .. N - 1) \ Buffers({}))
    BY <1>4, <1>5, Zenon
  <2>. QED  BY <2>1, <2>2
<1>9. TableIs(tb, N, now, {})
  BY <1>2, <1>3, <1>6, <1>7, <1>8 DEF TableIs, Owned
<1>. QED  BY <1>1, <1>6, <1>9

\* Time passes.
LEMMA TableLater ==
    ASSUME NEW N \in Nat, NEW now \in Nat, NEW tb, NEW E, TableIs(tb, N, now, E),
           NEW later \in Nat, now <= later
    PROVE  TableIs(tb, N, later, E)
<1>1. \A e \in E : EntryOK(tb.neighbour_ESD, N, now, e)
  BY DEF TableIs, Owned
<1>2. \A e \in E : EntryOK(tb.neighbour_ESD, N, later, e)
  BY <1>1 DEF EntryOK
<1>. QED  BY <1>2 DEF TableIs, Owned

\* A record of a neighbour, and what is kept of its reception.
Record(esd) == esd \in HeardSet /\ esd.nodeId \in NodeId \ {OwnNodeId}
StateAt(o, now) == [esd_offs |-> o, last_esd_received |-> now]

\* A record in its buffer.
Filled(esds, o, esd) == [esds EXCEPT ![o] = esd]

\* Nodes have numbers.
LEMMA NodesAreNumbers == NodeId \subseteq Int /\ OwnNodeId \in NodeId
BY SrpAssumption

\* With the entry of one neighbour.
With(E, n, o, now) == Others(E, n) \cup {<<n, StateAt(o, now)>>}

\* The buffer of one neighbour gets its record, and its entry the time.
LEMMA BufferWritten ==
    ASSUME NEW N \in Nat, NEW now \in Nat, NEW esds, NEW D, Owned(esds, N, now, D),
           NEW o \in (0 .. N - 1) \ Buffers(D), NEW esd, Record(esd),
           NEW E, E = D \cup {<<esd.nodeId, StateAt(o, now)>>},
           NEW b, b = Filled(esds, o, esd)
    PROVE  Owned(b, N, now, E) /\ Buffers(E) = Buffers(D) \cup {o}
<1>1. PICK x : x = <<esd.nodeId, StateAt(o, now)>>
  OBVIOUS
<1>10. /\ DOMAIN esds = 0 .. N - 1
       /\ \A e \in D : EntryOK(esds, N, now, e)
       /\ \A d, e \in D : d[2].esd_offs = e[2].esd_offs => d = e
  BY DEF Owned
<1>2. DOMAIN b = 0 .. N - 1 /\ b[o] = esd /\ \A p \in (0 .. N - 1) \ {o} : b[p] = esds[p]
  BY <1>10 DEF Filled
<1>3. x[1] = esd.nodeId /\ x[2].esd_offs = o /\ x[2].last_esd_received = now
  BY <1>1 DEF StateAt
<1>4. \A e \in D : e[2].esd_offs \in Buffers(D) /\ e[2].esd_offs # o
  BY DEF Buffers
<1>5. \A e \in D : EntryOK(b, N, now, e)
  BY <1>2, <1>4, <1>10 DEF EntryOK
<1>6. EntryOK(b, N, now, x)
  BY <1>2, <1>3 DEF EntryOK, Record
<1>7. E = D \cup {x}
  BY <1>1
<1>8. \A d, e \in E : d[2].esd_offs = e[2].esd_offs => d = e
  BY <1>3, <1>4, <1>7, <1>10
<1>9. Buffers(E) = Buffers(D) \cup {o}
  BY <1>3, <1>7 DEF Buffers
<1>. QED  BY <1>2, <1>5, <1>6, <1>7, <1>8, <1>9 DEF Owned

\* A neighbour that is new gets the oldest free buffer.
LEMMA TableAdds ==
    ASSUME NEW N \in Nat, NEW now \in Nat, NEW tb, NEW E, TableIs(tb, N, now, E),
           NEW esd, Record(esd), ~ HasEntry(E, esd.nodeId), tb.freeList # <<>>,
           NEW o, o = Head(tb.freeList)
    PROVE  TableIs(Table(Insert(tb.neighbour_table, esd.nodeId, StateAt(o, now)),
                         Filled(tb.neighbour_ESD, o, esd), Tail(tb.freeList)),
                   N, now, E \cup {<<esd.nodeId, StateAt(o, now)>>})
<1>1. PICK t, b, f, n, st : /\ t = tb.neighbour_table /\ b = tb.neighbour_ESD /\ f = tb.freeList
                            /\ n = esd.nodeId /\ st = StateAt(o, now)
  OBVIOUS
<1>2. /\ Holds(t, N, E) /\ Owned(b, N, now, E)
      /\ Lists(f, (0 .. N - 1) \ Buffers(E)) /\ Len(f) + t.elements = N
  BY <1>1 DEF TableIs
<1>3. PICK T : T = (0 .. N - 1) \ Buffers(E)
  OBVIOUS
<1>4. Len(f) \in Nat /\ Len(f) > 0
  <2>1. f \in Seq(T) /\ f # <<>>
    BY <1>1, <1>2, <1>3 DEF Lists
  <2>. QED  BY <2>1
<1>5. o \in T /\ Lists(Tail(f), T \ {o}) /\ Len(Tail(f)) = Len(f) - 1
  BY <1>1, <1>2, <1>3, <1>4, ListsTail
<1>6. t.elements \in Nat /\ t.elements < N
  <2>1. t.elements \in Nat
    BY <1>2, EntriesCounted
  <2>. QED  BY <1>2, <1>4, <2>1
<1>7. n \in Int /\ ~ HasEntry(E, n)
  BY <1>1, NodesAreNumbers DEF Record
<1>8. PICK u, F, c : u = Insert(t, n, st) /\ F = E \cup {<<n, st>>} /\ c = Filled(b, o, esd)
  OBVIOUS
<1>9. Holds(u, N, F) /\ u.elements = t.elements + 1
  <2>1. Holds(Insert(t, n, st), N, E \cup {<<n, st>>}) /\ Insert(t, n, st).elements = t.elements + 1
    BY <1>2, <1>6, <1>7, HoldsInsert
  <2>. QED  BY <1>8, <2>1
<1>10. Owned(c, N, now, F) /\ Buffers(F) = Buffers(E) \cup {o}
  <2>1. F = E \cup {<<esd.nodeId, StateAt(o, now)>>}
    BY <1>1, <1>8
  <2>2. c = Filled(b, o, esd) /\ Owned(b, N, now, E) /\ o \in (0 .. N - 1) \ Buffers(E) /\ Record(esd)
    BY <1>2, <1>3, <1>5, <1>8
  <2>. QED  BY <2>1, <2>2, BufferWritten
<1>11. Lists(Tail(f), (0 .. N - 1) \ Buffers(F))
  <2>1. T \ {o} = (0 .. N - 1) \ Buffers(F)
    BY <1>3, <1>10
  <2>. QED  BY <1>5, <2>1
<1>12. Len(Tail(f)) + u.elements = N
  BY <1>2, <1>4, <1>5, <1>6, <1>9
<1>13. PICK w : w = Table(u, c, Tail(f))
  OBVIOUS
<1>14. w.neighbour_table = u /\ w.neighbour_ESD = c /\ w.freeList = Tail(f)
  BY <1>13 DEF Table
<1>15. TableIs(w, N, now, F)
  BY <1>9, <1>10, <1>11, <1>12, <1>13, <1>14 DEF TableIs
<1>. QED  BY <1>1, <1>8, <1>13, <1>15

\* Without its entry the buffer of a neighbour is free.
LEMMA OtherBuffers ==
    ASSUME NEW N \in Nat, NEW now, NEW tb, NEW E, TableIs(tb, N, now, E), NEW n \in Int, HasEntry(E, n),
           NEW o, o = LookupData(tb.neighbour_table, n).esd_offs
    PROVE  /\ o \in Buffers(E) /\ o \in 0 .. N - 1 /\ o \notin Buffers(Others(E, n))
           /\ Buffers(E) = Buffers(Others(E, n)) \cup {o}
           /\ \E e \in E : e[1] = n /\ e[2].esd_offs = o
<1>1. Holds(tb.neighbour_table, N, E)
  BY DEF TableIs
<1>2. PICK e \in E : e[1] = n
  BY DEF HasEntry
<1>3. e[2].esd_offs = o
  BY <1>1, <1>2, HoldsLookup
<1>4. o \in Buffers(E) /\ o \in 0 .. N - 1
  BY <1>3 DEF Buffers, TableIs, Owned, EntryOK
<1>5. \A d \in E : d[2].esd_offs = o => d = e
  BY <1>3 DEF TableIs, Owned
<1>6. \A d \in Others(E, n) : d[2].esd_offs # o
  BY <1>2, <1>5 DEF Others
<1>7. \A d \in E : d \in Others(E, n) \/ d[2].esd_offs = o
  <2>1. \A d \in E : d[1] = n => d = e
    BY <1>1, <1>2, OneEntry
  <2>. QED  BY <1>3, <2>1 DEF Others
<1>8. Buffers(E) = Buffers(Others(E, n)) \cup {o}
  BY <1>4, <1>7 DEF Buffers, Others
<1>. QED  BY <1>2, <1>3, <1>4, <1>6, <1>8 DEF Buffers

\* A neighbour that is known keeps its buffer.
LEMMA TableUpdates ==
    ASSUME NEW N \in Nat, NEW now \in Nat, NEW tb, NEW E, TableIs(tb, N, now, E),
           NEW esd, Record(esd), HasEntry(E, esd.nodeId),
           NEW o, o = LookupData(tb.neighbour_table, esd.nodeId).esd_offs
    PROVE  TableIs(Table(AssignData(tb.neighbour_table, esd.nodeId, StateAt(o, now)),
                         Filled(tb.neighbour_ESD, o, esd), tb.freeList),
                   N, now, With(E, esd.nodeId, o, now))
<1>1. PICK t, b, f, n, st : /\ t = tb.neighbour_table /\ b = tb.neighbour_ESD /\ f = tb.freeList
                            /\ n = esd.nodeId /\ st = StateAt(o, now)
  OBVIOUS
<1>2. /\ Holds(t, N, E) /\ Owned(b, N, now, E)
      /\ Lists(f, (0 .. N - 1) \ Buffers(E)) /\ Len(f) + t.elements = N
  BY <1>1 DEF TableIs
<1>3. n \in Int /\ HasEntry(E, n) /\ o = LookupData(t, n).esd_offs
  BY <1>1, NodesAreNumbers DEF Record
<1>4. PICK u, D, F, c : /\ u = AssignData(t, n, st) /\ D = Others(E, n)
                        /\ F = D \cup {<<n, st>>} /\ c = Filled(b, o, esd)
  OBVIOUS
<1>5. o \in (0 .. N - 1) \ Buffers(D) /\ Buffers(E) = Buffers(D) \cup {o}
  BY <1>1, <1>3, <1>4, OtherBuffers
<1>6. Holds(u, N, F) /\ u.elements = t.elements
  <2>1. /\ Holds(AssignData(t, n, st), N, Others(E, n) \cup {<<n, st>>})
        /\ AssignData(t, n, st).elements = t.elements
    BY <1>2, <1>3, HoldsAssign
  <2>. QED  BY <1>4, <2>1
<1>7. Owned(c, N, now, F) /\ Buffers(F) = Buffers(D) \cup {o}
  <2>1. D \subseteq E
    BY <1>4 DEF Others
  <2>2. Owned(b, N, now, D)
    BY <1>2, <2>1 DEF Owned
  <2>3. F = D \cup {<<esd.nodeId, StateAt(o, now)>>}
    BY <1>1, <1>4
  <2>4. c = Filled(b, o, esd) /\ o \in (0 .. N - 1) \ Buffers(D) /\ Record(esd)
    BY <1>4, <1>5
  <2>. QED  BY <2>2, <2>3, <2>4, BufferWritten
<1>8. Lists(f, (0 .. N - 1) \ Buffers(F)) /\ Len(f) + u.elements = N
  BY <1>2, <1>5, <1>6, <1>7
<1>9. PICK w : w = Table(u, c, f)
  OBVIOUS
<1>10. w.neighbour_table = u /\ w.neighbour_ESD = c /\ w.freeList = f
  BY <1>9 DEF Table
<1>11. TableIs(w, N, now, F)
  BY <1>6, <1>7, <1>8, <1>9, <1>10 DEF TableIs
<1>. QED  BY <1>1, <1>4, <1>9, <1>11 DEF With

\* A neighbour is taken out.
LEMMA TableRemoves ==
    ASSUME NEW N \in Nat, NEW now \in Nat, NEW tb, NEW E, TableIs(tb, N, now, E),
           NEW n \in Int, HasEntry(E, n), NEW o, o = LookupData(tb.neighbour_table, n).esd_offs
    PROVE  TableIs(Table(Remove(tb.neighbour_table, n), tb.neighbour_ESD, Append(tb.freeList, o)),
                   N, now, Others(E, n))
<1>1. PICK t, b, f : t = tb.neighbour_table /\ b = tb.neighbour_ESD /\ f = tb.freeList
  OBVIOUS
<1>2. /\ Holds(t, N, E) /\ Owned(b, N, now, E)
      /\ Lists(f, (0 .. N - 1) \ Buffers(E)) /\ Len(f) + t.elements = N
  BY <1>1 DEF TableIs
<1>3. PICK u, F, g : u = Remove(t, n) /\ F = Others(E, n) /\ g = Append(f, o)
  OBVIOUS
<1>4. o \in (0 .. N - 1) \ Buffers(F) /\ o \in Buffers(E) /\ Buffers(E) = Buffers(F) \cup {o}
  BY <1>1, <1>3, OtherBuffers
<1>5. Holds(u, N, F) /\ u.elements = t.elements - 1
  <2>1. Holds(Remove(t, n), N, Others(E, n)) /\ Remove(t, n).elements = t.elements - 1
    BY <1>2, HoldsRemove
  <2>. QED  BY <1>3, <2>1
<1>6. F \subseteq E
  BY <1>3 DEF Others
<1>7. Lists(g, (0 .. N - 1) \ Buffers(F)) /\ Len(g) = Len(f) + 1
  <2>1. PICK T : T = (0 .. N - 1) \ Buffers(E)
    OBVIOUS
  <2>2. o \notin T /\ T \cup {o} = (0 .. N - 1) \ Buffers(F)
    BY <1>4, <2>1
  <2>3. Lists(f, T)
    BY <1>2, <2>1
  <2>4. Lists(Append(f, o), T \cup {o}) /\ Len(Append(f, o)) = Len(f) + 1
    BY <2>2, <2>3, ListsAppend
  <2>. QED  BY <1>3, <2>2, <2>4
<1>8. Len(g) + u.elements = N
  <2>1. Len(f) \in Nat /\ t.elements \in Nat
    BY <1>2, EntriesCounted DEF Lists
  <2>. QED  BY <1>2, <1>5, <1>7, <2>1
<1>9. PICK w : w = Table(u, b, g)
  OBVIOUS
<1>10. w.neighbour_table = u /\ w.neighbour_ESD = b /\ w.freeList = g
  BY <1>9 DEF Table
<1>11. TableIs(w, N, now, F)
  <2>1. Owned(b, N, now, F)
    BY <1>2, <1>6 DEF Owned
  <2>. QED  BY <1>2, <1>5, <1>7, <1>8, <1>9, <1>10, <2>1 DEF TableIs
<1>. QED  BY <1>1, <1>3, <1>9, <1>11

\* The table with a record put into it, in the buffer o.
Put(tb, esd, o, now, known) ==
    Table(IF known THEN AssignData(tb.neighbour_table, esd.nodeId, StateAt(o, now))
                   ELSE Insert(tb.neighbour_table, esd.nodeId, StateAt(o, now)),
          Filled(tb.neighbour_ESD, o, esd),
          IF known THEN tb.freeList ELSE Tail(tb.freeList))

\* Which buffer it is.
BufferFor(tb, esd, o, known) ==
    IF known THEN o = LookupData(tb.neighbour_table, esd.nodeId).esd_offs
             ELSE o = Head(tb.freeList) /\ tb.freeList # <<>>

\* A record is put into the table.
LEMMA TablePuts ==
    ASSUME NEW N \in Nat, NEW now \in Nat, NEW tb, NEW E, TableIs(tb, N, now, E),
           NEW esd, Record(esd), NEW known \in BOOLEAN, known <=> HasEntry(E, esd.nodeId),
           NEW o, BufferFor(tb, esd, o, known), NEW tc, tc = Put(tb, esd, o, now, known)
    PROVE  /\ TableIs(tc, N, now, With(E, esd.nodeId, o, now))
           /\ o \in 0 .. N - 1 /\ o \notin Buffers(Others(E, esd.nodeId))
<1>1. PICK n : n = esd.nodeId /\ n \in Int
  BY NodesAreNumbers DEF Record
<1>2. CASE known
  <2>1. /\ o = LookupData(tb.neighbour_table, esd.nodeId).esd_offs /\ HasEntry(E, esd.nodeId)
        /\ tc = Table(AssignData(tb.neighbour_table, esd.nodeId, StateAt(o, now)),
                      Filled(tb.neighbour_ESD, o, esd), tb.freeList)
    BY <1>2 DEF BufferFor, Put
  <2>2. TableIs(tc, N, now, With(E, esd.nodeId, o, now))
    BY <2>1, TableUpdates
  <2>3. o = LookupData(tb.neighbour_table, n).esd_offs /\ HasEntry(E, n)
    BY <1>1, <2>1
  <2>4. o \in 0 .. N - 1 /\ o \notin Buffers(Others(E, n))
    BY <1>1, <2>3, OtherBuffers
  <2>. QED  BY <1>1, <2>2, <2>4
<1>3. CASE ~ known
  <2>1. /\ o = Head(tb.freeList) /\ tb.freeList # <<>> /\ ~ HasEntry(E, esd.nodeId)
        /\ tc = Table(Insert(tb.neighbour_table, esd.nodeId, StateAt(o, now)),
                      Filled(tb.neighbour_ESD, o, esd), Tail(tb.freeList))
    BY <1>3 DEF BufferFor, Put
  <2>2. Others(E, n) = E
    BY <1>1, <2>1 DEF Others, HasEntry
  <2>3. TableIs(tc, N, now, E \cup {<<esd.nodeId, StateAt(o, now)>>})
    BY <2>1, TableAdds
  <2>4. TableIs(tc, N, now, With(E, esd.nodeId, o, now))
    BY <1>1, <2>2, <2>3 DEF With
  <2>5. o \in (0 .. N - 1) \ Buffers(E)
    <3>1. Lists(tb.freeList, (0 .. N - 1) \ Buffers(E))
      BY DEF TableIs
    <3>2. PICK f, T : f = tb.freeList /\ T = (0 .. N - 1) \ Buffers(E)
      OBVIOUS
    <3>3. f \in Seq(T) /\ f # <<>>
      BY <2>1, <3>1, <3>2 DEF Lists
    <3>4. Head(f) \in T
      BY <3>3
    <3>. QED  BY <2>1, <3>2, <3>4
  <2>. QED  BY <1>1, <2>2, <2>4, <2>5
<1>. QED  BY <1>2, <1>3

\* What is known then.
LEMMA InformationPut ==
    ASSUME NEW N \in Nat, NEW now \in Nat, NEW tb, NEW E, TableIs(tb, N, now, E),
           NEW esd, NEW n, n = esd.nodeId, NEW o \in 0 .. N - 1, o \notin Buffers(Others(E, n)),
           NEW tc, tc.neighbour_ESD = Filled(tb.neighbour_ESD, o, esd),
           TableIs(tc, N, now, With(E, n, o, now)),
           NEW I, I = Information(tb)
    PROVE  Information(tc) = [m \in DOMAIN I \cup {n} |->
                                 IF m = n THEN [esd |-> esd, heard |-> now] ELSE I[m]]
<1>1. PICK b, c, D, F, J, x : /\ b = tb.neighbour_ESD /\ c = tc.neighbour_ESD /\ D = Others(E, n)
                              /\ F = With(E, n, o, now) /\ J = Information(tc)
                              /\ x = <<n, StateAt(o, now)>>
  OBVIOUS
<1>2. Informs(I, tb, E)
  BY InformationIs
<1>3. Informs(J, tc, F)
  <2>1. TableIs(tc, N, now, F)
    BY <1>1
  <2>. QED  BY <1>1, <2>1, InformationIs
<1>4. F = D \cup {x} /\ D \subseteq E /\ x[1] = n /\ x[2].esd_offs = o /\ x[2].last_esd_received = now
  BY <1>1 DEF With, Others, StateAt
<1>5. DOMAIN b = 0 .. N - 1 /\ c[o] = esd /\ \A p \in (0 .. N - 1) \ {o} : c[p] = b[p]
  <2>1. DOMAIN b = 0 .. N - 1
    BY <1>1 DEF TableIs, Owned
  <2>. QED  BY <1>1, <2>1 DEF Filled
<1>6. \A e \in D : e[2].esd_offs \in (0 .. N - 1) \ {o} /\ e[1] # n
  <2>1. \A e \in D : e[2].esd_offs \in Buffers(D)
    BY DEF Buffers
  <2>2. \A e \in E : e[2].esd_offs \in 0 .. N - 1
    BY DEF TableIs, Owned, EntryOK
  <2>. QED  BY <1>1, <1>4, <2>1, <2>2 DEF Others
<1>7. DOMAIN J = DOMAIN I \cup {n}
  <2>1. \A e \in E : e \in D \/ e[1] = n
    BY <1>1 DEF Others
  <2>2. Keys(F) = Keys(E) \cup {n}
    BY <1>4, <2>1 DEF Keys
  <2>. QED  BY <1>2, <1>3, <2>2 DEF Informs
<1>8. J[n] = [esd |-> esd, heard |-> now]
  <2>1. x \in F /\ \A e \in F : J[e[1]] = KnownOf(tc, e)
    BY <1>3, <1>4 DEF Informs
  <2>2. J[x[1]] = KnownOf(tc, x)
    BY <2>1
  <2>3. KnownOf(tc, x) = [esd |-> c[o], heard |-> now]
    BY <1>1, <1>4 DEF KnownOf
  <2>. QED  BY <1>4, <1>5, <2>2, <2>3
<1>9. ASSUME NEW m \in DOMAIN I, m # n PROVE J[m] = I[m]
  <2>1. PICK e \in E : e[1] = m
    BY <1>2 DEF Informs, Keys
  <2>2. e \in D /\ e \in F
    BY <1>1, <1>4, <1>9, <2>1 DEF Others
  <2>3. c[e[2].esd_offs] = b[e[2].esd_offs]
    BY <1>5, <1>6, <2>2
  <2>4. KnownOf(tc, e) = KnownOf(tb, e)
    BY <1>1, <2>3 DEF KnownOf
  <2>. QED  BY <1>2, <1>3, <2>1, <2>2, <2>4 DEF Informs
<1>10. J = [m \in DOMAIN I \cup {n} |-> J[m]]
  BY <1>3, <1>7 DEF Informs
<1>11. \A m \in DOMAIN I \cup {n} : J[m] = IF m = n THEN [esd |-> esd, heard |-> now] ELSE I[m]
  BY <1>8, <1>9
<1>12. J = [m \in DOMAIN I \cup {n} |-> IF m = n THEN [esd |-> esd, heard |-> now] ELSE I[m]]
  BY <1>10, <1>11
<1>. QED  BY <1>1, <1>12

\* What is known when a neighbour has been taken out.
LEMMA InformationRest ==
    ASSUME NEW N \in Nat, NEW now \in Nat, NEW tb, NEW E, TableIs(tb, N, now, E), NEW n,
           NEW tc, tc.neighbour_ESD = tb.neighbour_ESD, TableIs(tc, N, now, Others(E, n)),
           NEW I, I = Information(tb)
    PROVE  Information(tc) = Restrict(I, DOMAIN I \ {n})
<1>1. PICK F, J : F = Others(E, n) /\ J = Information(tc)
  OBVIOUS
<1>2. Informs(I, tb, E)
  BY InformationIs
<1>3. Informs(J, tc, F)
  <2>1. TableIs(tc, N, now, F)
    BY <1>1
  <2>. QED  BY <1>1, <2>1, InformationIs
<1>4. DOMAIN J = DOMAIN I \ {n}
  BY <1>1, <1>2, <1>3 DEF Others, Informs, Keys
<1>5. ASSUME NEW m \in DOMAIN I \ {n} PROVE J[m] = I[m]
  <2>1. PICK e \in E : e[1] = m
    BY <1>2 DEF Informs, Keys
  <2>2. e \in F
    BY <1>1, <1>5, <2>1 DEF Others
  <2>3. KnownOf(tc, e) = KnownOf(tb, e)
    BY DEF KnownOf
  <2>. QED  BY <1>2, <1>3, <2>1, <2>2, <2>3 DEF Informs
<1>6. J = [m \in DOMAIN I \ {n} |-> J[m]]
  BY <1>3, <1>4 DEF Informs
<1>7. J = [m \in DOMAIN I \ {n} |-> I[m]]
  BY <1>5, <1>6
<1>. QED  BY <1>1, <1>7 DEF Restrict

\* There is room for a neighbour that is not known when there is a free buffer.
LEMMA RoomLeft ==
    ASSUME NEW N \in Nat, NEW now, NEW tb, NEW E, TableIs(tb, N, now, E), tb.freeList # <<>>
    PROVE  Cardinality(DOMAIN Information(tb)) < N
<1>1. PICK t, f, K : t = tb.neighbour_table /\ f = tb.freeList /\ K = Keys(E)
  OBVIOUS
<1>2. Holds(t, N, E) /\ f \in Seq((0 .. N - 1) \ Buffers(E)) /\ f # <<>> /\ Len(f) + t.elements = N
  BY <1>1 DEF TableIs, Lists
<1>3. IsFiniteSet(E) /\ Cardinality(E) <= t.elements /\ t.elements \in Nat
  BY <1>2, EntriesCounted
<1>4. Len(f) \in Nat /\ Len(f) > 0
  BY <1>2
<1>5. PICK g : g = [e \in E |-> e[1]]
  OBVIOUS
<1>6. g \in Surjection(E, K)
  BY <1>1, <1>5 DEF Surjection, Keys
<1>7. IsFiniteSet(K) /\ Cardinality(K) <= Cardinality(E)
  BY <1>3, <1>6, FS_Surjection
<1>8. Cardinality(K) \in Nat /\ Cardinality(E) \in Nat
  BY <1>3, <1>7, FS_CardinalityType
<1>9. Cardinality(K) < N
  BY <1>2, <1>3, <1>4, <1>7, <1>8
<1>10. DOMAIN Information(tb) = K
  BY <1>1, InformationIs DEF Informs
<1>. QED  BY <1>9, <1>10

(***************************************************************************)
(* The own safety data.  Whoever holds the mutex of the own safety data,   *)
(* the write counted last is the one that was completed last; nothing that *)
(* is in the buffer of BP or was sent is newer than what can be generated  *)
(* next.                                                                   *)
(***************************************************************************)
\* The bounds are what the scenario leaves, and the records have their fields.
BoundsOK ==
    /\ scenario \in Scenarios
    /\ left \in [payloads : Seq(SUBSET Received), writes : Nat, lists : Nat, sends : Nat]
    /\ DOMAIN scrub = {"pc", "now", "nodes"}

\* A payload that was generated before the next one.
Before(payload) == payload.seqno < own.next_seqno /\ payload.safetyData <= Len(writes)

\* Of the write that was completed last.
WritesOK ==
    /\ sd_mutex # "app" => own.own_sd = Len(writes)
    /\ app = "writing" => own.own_sd = Len(writes) + 1
    /\ writes # <<>> => own.last_own_sd_write = writes[Len(writes)] /\ own.last_own_sd_write <= clock
    /\ own.own_sd_written = TRUE => writes # <<>>

\* Of what is in the buffer, what was sent and what is being pushed.
PayloadsOK ==
    /\ Before(sent)
    /\ \A i \in 1 .. Len(buffer.items) : Before(buffer.items[i])
    /\ tx.pc = "push" => buffer.items = <<>> /\ Before(tx.payload) /\ GeneratesCurrentData

\* Of the transmitter between its two looks at the clock.
TestOK ==
    tx.pc = "generate" =>
        /\ writes # <<>> /\ writes[Len(writes)] <= tx.tested /\ tx.tested <= clock
        /\ tx.tested - writes[Len(writes)] < KeepaliveTimeout

OwnDataOK == WritesOK /\ PayloadsOK /\ TestOK

DaemonInv == Shapes /\ Holders /\ BoundsOK /\ OwnDataOK

\* What the assumptions say of the scenario.
LEMMA ScenarioFacts ==
    ASSUME BoundsOK
    PROVE  /\ scenario.time \in Nat /\ scenario.room \in Nat \ {0}
           /\ scenario.heard \in Seq(SUBSET Received)
           /\ scenario.writes \in Nat /\ scenario.lists \in Nat /\ scenario.sends \in Nat
BY SrpAssumption DEF BoundsOK, Received

\* It holds at the start.
LEMMA DaemonInit == Init => DaemonInv
<1> SUFFICES ASSUME Init PROVE DaemonInv
  OBVIOUS
<1>1. BoundsOK
  BY SrpAssumption DEF Init, BoundsOK, Received
<1>2. own = [own_sd |-> 0, last_own_sd_write |-> 0, own_sd_written |-> FALSE, next_seqno |-> 0]
  BY DEF Init, initialize_srp_store
<1>3. Shapes
  <2>1. clock \in 0 .. scenario.time
    BY <1>1, ScenarioFacts DEF Init
  <2>2. sent \in Payload /\ tx \in TxState /\ buffer \in BufferState /\ own \in OwnState
    BY <1>2 DEF Init, Payload, TxState, BufferState, OwnState
  <2>3. rx \in RxState /\ scrub.pc = "loop"
    BY DEF Init, RxState, Received
  <2>4. inbox \in Seq(Received) /\ writes \in Seq(Nat) /\ srp_exitFlag \in BOOLEAN
    <3>1. <<>> \in Seq(Received) /\ <<>> \in Seq(Nat)
      OBVIOUS
    <3>. QED  BY <3>1 DEF Init
  <2>. QED  BY <2>1, <2>2, <2>3, <2>4 DEF Shapes
<1>4. Holders
  BY DEF Init, Holders
<1>5. OwnDataOK
  BY <1>2 DEF Init, OwnDataOK, WritesOK, PayloadsOK, TestOK, Before
<1>. QED  BY <1>1, <1>3, <1>4, <1>5 DEF DaemonInv

\* The variables that OwnDataOK is about, and those that Holders is about.
ownDataVars == <<clock, own, sd_mutex, tx, app, buffer, sent, writes>>
holderVars  == <<sd_mutex, table_mutex, tx, scrub, app>>

\* Steps that leave all of them alone.
LEMMA OwnDataKept ==
    ASSUME OwnDataOK, UNCHANGED ownDataVars
    PROVE  OwnDataOK'
BY DEF OwnDataOK, WritesOK, PayloadsOK, TestOK, ownDataVars, Before, GeneratesCurrentData

\* Nothing moves the holders of the mutexes.
LEMMA HoldersKept ==
    ASSUME Holders, UNCHANGED holderVars
    PROVE  Holders'
BY DEF Holders, holderVars

\* The receiver changes its own state, the inbox and the exit flag.
LEMMA ReceiverStep ==
    ASSUME DaemonInv, Receiver
    PROVE  DaemonInv'
<1>1. Shapes /\ Holders /\ BoundsOK /\ OwnDataOK
  BY DEF DaemonInv
<1>2. RxKeeps /\ UNCHANGED table_mutex
  BY DEF Receiver, RxLoop, RxTimedOut, RxReceive, RxInsert
<1>3. BoundsOK' /\ OwnDataOK' /\ Holders'
  BY <1>1, <1>2, OwnDataKept, HoldersKept
     DEF RxKeeps, BoundsOK, boundVars, ownDataVars, holderVars
<1>4. rx' \in RxState /\ inbox' \in Seq(Received) /\ srp_exitFlag' \in BOOLEAN
  <2>1. rx \in RxState /\ inbox \in Seq(Received) /\ srp_exitFlag \in BOOLEAN
    BY <1>1 DEF Shapes
  <2>2. CASE RxLoop \/ RxTimedOut
    BY <2>1, <2>2 DEF RxLoop, RxTimedOut, RxState
  <2>3. CASE RxReceive
    <3>1. inbox # <<>> /\ inbox' = Tail(inbox) /\ srp_exitFlag' = srp_exitFlag
      BY <2>3 DEF RxReceive
    <3>2. Head(inbox) \in Received /\ inbox' \in Seq(Received)
      BY <2>1, <3>1
    <3>3. \E more \in BOOLEAN : rx' \in {[rx EXCEPT !.pc = NextPayload(more)],
                                        [pc |-> "insert", esd |-> Head(inbox), more |-> more]}
      BY <2>3 DEF RxReceive
    <3>4. rx' \in RxState
      BY <2>1, <3>2, <3>3 DEF RxState, NextPayload
    <3>. QED  BY <2>1, <3>1, <3>2, <3>4
  <2>4. CASE RxInsert
    <3>1. /\ inbox' = inbox /\ (srp_exitFlag' = srp_exitFlag \/ srp_exitFlag' = TRUE)
          /\ rx' \in {[rx EXCEPT !.pc = "ended"],
                       [rx EXCEPT !.pc = NextPayload(rx.more), !.esd = WrongLength]}
      BY <2>4 DEF RxInsert, Inserted
    <3>2. rx' \in RxState
      BY <2>1, <3>1 DEF RxState, NextPayload, Received
    <3>. QED  BY <2>1, <3>1, <3>2
  <2>. QED  BY <2>2, <2>3, <2>4 DEF Receiver
<1>5. Shapes'
  BY <1>1, <1>2, <1>4 DEF Shapes, RxKeeps, boundVars
<1>. QED  BY <1>3, <1>5 DEF DaemonInv

\* The scrubber changes its own state and the mutex of the table.
LEMMA ScrubberStep ==
    ASSUME DaemonInv, Scrubber
    PROVE  DaemonInv'
<1>1. Shapes /\ Holders /\ BoundsOK /\ OwnDataOK
  BY DEF DaemonInv
<1>2. ScrubKeeps
  BY DEF Scrubber, ScrubLoop, ScrubFind, ScrubRemove
<1>3. OwnDataOK'
  BY <1>1, <1>2, OwnDataKept DEF ScrubKeeps, ownDataVars, bpVars
<1> DEFINE Goal == /\ DOMAIN scrub' = {"pc", "now", "nodes"}
                   /\ scrub'.pc \in {"loop", "find", "remove", "ended"}
                   /\ table_mutex' \in {"free", "scrub", "app"}
                   /\ table_mutex' = "scrub" <=> scrub'.pc = "remove"
                   /\ table_mutex' = "app" <=> table_mutex = "app"
<1>4. Goal
  <2>1. DOMAIN scrub = {"pc", "now", "nodes"}
    BY <1>1 DEF BoundsOK
  <2>2. /\ scrub.pc \in {"loop", "find", "remove", "ended"}
        /\ table_mutex \in {"free", "scrub", "app"}
        /\ table_mutex = "scrub" <=> scrub.pc = "remove"
    BY <1>1 DEF Shapes, Holders
  <2>3. CASE ScrubLoop
    <3>1. /\ scrub.pc = "loop" /\ table_mutex' = table_mutex
          /\ scrub' \in {[scrub EXCEPT !.pc = "ended"], [scrub EXCEPT !.pc = "find", !.now = clock]}
      BY <2>3 DEF ScrubLoop
    <3>2. DOMAIN scrub' = {"pc", "now", "nodes"} /\ scrub'.pc \in {"find", "ended"}
      BY <2>1, <3>1
    <3>. QED  BY <2>2, <3>1, <3>2
  <2>4. CASE ScrubFind
    <3>1. scrub.pc = "find" /\ table_mutex = "free"
      BY <2>4 DEF ScrubFind, MayLock
    <3>2. \/ scrub' = [scrub EXCEPT !.pc = "loop", !.now = 0] /\ table_mutex' = table_mutex
          \/ \E f : scrub' = [pc |-> "remove", now |-> 0, nodes |-> f] /\ table_mutex' = "scrub"
      BY <2>4 DEF ScrubFind
    <3>3. CASE scrub' = [scrub EXCEPT !.pc = "loop", !.now = 0] /\ table_mutex' = table_mutex
      <4>1. DOMAIN scrub' = {"pc", "now", "nodes"} /\ scrub'.pc = "loop"
        BY <2>1, <3>3
      <4>. QED  BY <3>1, <3>3, <4>1
    <3>4. ASSUME NEW f, scrub' = [pc |-> "remove", now |-> 0, nodes |-> f], table_mutex' = "scrub"
          PROVE  Goal
      <4>1. DOMAIN scrub' = {"pc", "now", "nodes"} /\ scrub'.pc = "remove"
        BY <3>4
      <4>. QED  BY <3>1, <3>4, <4>1
    <3>. QED  BY <3>2, <3>3, <3>4
  <2>5. CASE ScrubRemove
    <3>1. /\ scrub.pc = "remove"
          /\ IF Len(scrub.nodes) = 1 THEN table_mutex' = "free" ELSE table_mutex' = table_mutex
          /\ scrub' = [scrub EXCEPT !.pc = IF Len(scrub.nodes) = 1 THEN "loop" ELSE @,
                                    !.nodes = Tail(@)]
      BY <2>5 DEF ScrubRemove, Removed
    <3>2. /\ DOMAIN scrub' = {"pc", "now", "nodes"}
          /\ scrub'.pc = IF Len(scrub.nodes) = 1 THEN "loop" ELSE "remove"
      BY <2>1, <3>1
    <3>. QED  BY <2>2, <3>1, <3>2
  <2>. QED  BY <2>3, <2>4, <2>5 DEF Scrubber
<1>5. BoundsOK'
  BY <1>1, <1>2, <1>4 DEF ScrubKeeps, BoundsOK, boundVars
<1>6. Shapes'
  BY <1>1, <1>2, <1>4 DEF Shapes, ScrubKeeps, boundVars, bpVars
<1>7. Holders'
  BY <1>1, <1>2, <1>4 DEF Holders, ScrubKeeps
<1>. QED  BY <1>3, <1>5, <1>6, <1>7 DEF DaemonInv

\* The transmitter generates a payload, or gives up.
LEMMA TransmitterStep ==
    ASSUME DaemonInv, Transmitter
    PROVE  DaemonInv'
<1>1. Shapes /\ Holders /\ BoundsOK /\ OwnDataOK
  BY DEF DaemonInv
<1>2. TxKeeps
  BY DEF Transmitter, TxLoop, TxSilent, TxTest, TxGenerate, TxPush
<1>3. /\ tx \in TxState /\ own \in OwnState /\ buffer \in BufferState /\ writes \in Seq(Nat)
      /\ sent \in Payload /\ srp_exitFlag \in BOOLEAN
  BY <1>1 DEF Shapes
<1>4. clock \in Nat
  BY <1>1, ScenarioFacts DEF Shapes
<1>5. BoundsOK'
  <2>1. left' = left \/ (left' = [left EXCEPT !.sends = @ - 1] /\ left.sends > 0)
    <3>1. CASE TxTest
      BY <3>1 DEF TxTest
    <3>2. CASE TxLoop \/ TxSilent \/ TxGenerate \/ TxPush
      BY <3>2 DEF TxLoop, TxSilent, TxGenerate, TxPush
    <3>. QED  BY <3>1, <3>2 DEF Transmitter
  <2>2. left' \in [payloads : Seq(SUBSET Received), writes : Nat, lists : Nat, sends : Nat]
    BY <1>1, <2>1 DEF BoundsOK
  <2>. QED  BY <1>1, <1>2, <2>2 DEF TxKeeps, BoundsOK
<1>6. CASE TxLoop \/ TxSilent
  <2>1. /\ UNCHANGED <<sd_mutex, buffer>> /\ srp_exitFlag' = srp_exitFlag
        /\ tx.pc \in {"loop", "lock"}
        /\ \E l \in {"loop", "lock", "ended"} : tx' = [tx EXCEPT !.pc = l]
        /\ own' \in {own, [own EXCEPT !.own_sd_written = FALSE]}
    BY <1>6 DEF TxLoop, TxSilent
  <2>2. tx' \in TxState /\ tx'.pc \notin {"generate", "push"}
    BY <1>3, <2>1 DEF TxState
  <2>3. /\ own' \in OwnState
        /\ own'.own_sd = own.own_sd /\ own'.last_own_sd_write = own.last_own_sd_write
        /\ own'.next_seqno = own.next_seqno /\ (own'.own_sd_written = TRUE => own.own_sd_written = TRUE)
    BY <1>3, <2>1 DEF OwnState
  <2>4. Shapes' /\ Holders'
    BY <1>1, <1>2, <2>1, <2>2, <2>3 DEF Shapes, Holders, TxKeeps
  <2>5. OwnDataOK'
    <3>1. WritesOK'
      BY <1>1, <1>2, <2>1, <2>3 DEF OwnDataOK, WritesOK, TxKeeps
    <3>2. PayloadsOK'
      BY <1>1, <1>2, <2>1, <2>2, <2>3 DEF OwnDataOK, PayloadsOK, TxKeeps, Before
    <3>. QED  BY <2>2, <3>1, <3>2 DEF OwnDataOK, TestOK
  <2>. QED  BY <1>5, <2>4, <2>5 DEF DaemonInv
<1>7. CASE TxTest
  <2>1. /\ tx.pc = "lock" /\ sd_mutex = "free" /\ own.own_sd_written = TRUE /\ sd_mutex' = "tx"
        /\ tx' = [tx EXCEPT !.pc = "generate", !.tested = clock]
        /\ own' = own /\ buffer' = buffer /\ srp_exitFlag' = srp_exitFlag
        /\ ~ Silent
    BY <1>3, <1>7 DEF TxTest, MayLock, OwnState
  <2>2. tx' \in TxState /\ tx'.pc = "generate" /\ tx'.tested = clock
    BY <1>3, <1>4, <2>1 DEF TxState
  <2>3. Shapes' /\ Holders'
    BY <1>1, <1>2, <2>1, <2>2 DEF Shapes, Holders, TxKeeps
  <2>4. /\ writes # <<>> /\ own.last_own_sd_write = writes[Len(writes)]
        /\ own.last_own_sd_write <= clock
    BY <1>1, <2>1 DEF OwnDataOK, WritesOK
  <2>5. clock - own.last_own_sd_write < KeepaliveTimeout
    <3>1. own.last_own_sd_write \in Nat
      BY <1>3 DEF OwnState
    <3>. QED  BY <1>4, <2>1, <2>4, <3>1, SrpAssumption DEF Silent, MillisecondsPassed
  <2>6. WritesOK' /\ PayloadsOK'
    <3>1. WritesOK'
      BY <1>1, <1>2, <2>1 DEF OwnDataOK, WritesOK, TxKeeps
    <3>2. PayloadsOK'
      BY <1>1, <1>2, <2>1, <2>2 DEF OwnDataOK, PayloadsOK, TxKeeps, Before
    <3>. QED  BY <3>1, <3>2
  <2>7. TestOK'
    BY <1>2, <1>4, <2>2, <2>4, <2>5 DEF TestOK, TxKeeps
  <2>. QED  BY <1>5, <2>3, <2>6, <2>7 DEF DaemonInv, OwnDataOK
<1>8. CASE TxGenerate
  <2>1. /\ tx.pc = "generate" /\ sd_mutex' = sd_mutex
        /\ tx' = [tx EXCEPT !.pc = "push",
                            !.payload = [safetyData |-> own.own_sd, seqno |-> own.next_seqno,
                                         timeStamp |-> clock]]
        /\ own' = [own EXCEPT !.next_seqno = @ + 1]
        /\ buffer' = [buffer EXCEPT !.items = <<>>] /\ srp_exitFlag' = srp_exitFlag
    BY <1>8 DEF TxGenerate
  <2>2. /\ tx' \in TxState /\ tx'.pc = "push" /\ tx'.tested = tx.tested
        /\ tx'.payload.safetyData = own.own_sd
        /\ tx'.payload.seqno = own.next_seqno /\ tx'.payload.timeStamp = clock
    BY <1>3, <1>4, <2>1 DEF Payload, TxState, OwnState
  <2>3. /\ own' \in OwnState /\ own'.own_sd = own.own_sd
        /\ own'.last_own_sd_write = own.last_own_sd_write
        /\ own'.own_sd_written = own.own_sd_written
        /\ own'.next_seqno = own.next_seqno + 1 /\ own.next_seqno \in Nat
        /\ own.own_sd \in Nat /\ own.last_own_sd_write \in Nat
    BY <1>3, <2>1 DEF OwnState
  <2>4. buffer' \in BufferState /\ buffer'.items = <<>>
    <3>1. <<>> \in Seq(Payload)
      OBVIOUS
    <3>. QED  BY <1>3, <2>1, <3>1 DEF BufferState
  <2>5. Shapes' /\ Holders'
    BY <1>1, <1>2, <2>1, <2>2, <2>3, <2>4 DEF Shapes, Holders, TxKeeps
  <2>6. /\ own.own_sd = Len(writes) /\ writes # <<>> /\ Before(sent)
        /\ writes[Len(writes)] <= tx.tested /\ tx.tested <= clock
        /\ tx.tested - writes[Len(writes)] < KeepaliveTimeout
    BY <1>1, <2>1 DEF OwnDataOK, WritesOK, PayloadsOK, TestOK, Holders
  <2>7. Before(sent)' /\ Before(tx.payload)'
    BY <1>2, <1>3, <2>2, <2>3, <2>6 DEF TxKeeps, Before, Payload
  <2>8. GeneratesCurrentData'
    BY <1>2, <1>3, <2>2, <2>3, <2>6 DEF GeneratesCurrentData, TxKeeps, Before, Payload
  <2>9. OwnDataOK'
    <3>1. WritesOK'
      BY <1>1, <1>2, <2>1, <2>3 DEF OwnDataOK, WritesOK, TxKeeps
    <3>2. PayloadsOK'
      BY <2>4, <2>7, <2>8 DEF PayloadsOK
    <3>. QED  BY <2>2, <3>1, <3>2 DEF OwnDataOK, TestOK
  <2>. QED  BY <1>5, <2>5, <2>9 DEF DaemonInv
<1>9. CASE TxPush
  <2>1. tx.pc = "push" /\ sd_mutex' = "free" /\ own' = own
    BY <1>9 DEF TxPush
  <2>2. /\ GeneratesCurrentData /\ buffer.items = <<>> /\ own.own_sd = Len(writes)
        /\ Before(tx.payload) /\ Before(sent)
        /\ own.own_sd_written = TRUE => writes # <<>>
        /\ writes # <<>> => own.last_own_sd_write = writes[Len(writes)] /\ own.last_own_sd_write <= clock
        /\ app # "writing"
    BY <1>1, <2>1 DEF OwnDataOK, WritesOK, PayloadsOK, TestOK, Holders
  <2>3. tx.payload \in Payload
    BY <1>3 DEF TxState
  <2>4. /\ tx' \in TxState /\ tx'.pc \notin {"generate", "push"} /\ buffer' \in BufferState /\ srp_exitFlag' \in BOOLEAN
        /\ \A i \in 1 .. Len(buffer'.items) : Before(buffer'.items[i])
    <3>1. CASE ~ buffer.has_data
      <4>1. /\ buffer' = [has_data |-> TRUE, items |-> <<tx.payload>>]
            /\ tx' = [tx EXCEPT !.pc = "loop"] /\ srp_exitFlag' = srp_exitFlag
        BY <1>9, <3>1 DEF TxPush
      <4>2. <<tx.payload>> \in Seq(Payload) /\ Len(<<tx.payload>>) = 1 /\ <<tx.payload>>[1] = tx.payload
        BY <2>3
      <4>3. tx' \in TxState /\ tx'.pc = "loop"
        BY <1>3, <4>1 DEF TxState
      <4>4. buffer' \in BufferState /\ buffer'.items = <<tx.payload>>
        BY <4>1, <4>2 DEF BufferState
      <4>5. \A i \in 1 .. Len(buffer'.items) : buffer'.items[i] = tx.payload
        BY <4>2, <4>4
      <4>6. \A i \in 1 .. Len(buffer'.items) : Before(buffer'.items[i])
        BY <2>2, <4>5
      <4>7. tx'.pc \notin {"generate", "push"}
        BY <4>3
      <4>. QED  BY <1>3, <4>1, <4>3, <4>4, <4>6, <4>7
    <3>2. CASE buffer.has_data
      <4>1. /\ buffer' = buffer /\ tx' = [tx EXCEPT !.pc = "ended"] /\ srp_exitFlag' = TRUE
        BY <1>9, <3>2 DEF TxPush
      <4>2. tx' \in TxState /\ tx'.pc = "ended"
        BY <1>3, <4>1 DEF TxState
      <4>. QED  BY <1>3, <2>2, <4>1, <4>2
    <3>. QED  BY <3>1, <3>2
  <2>5. Shapes' /\ Holders'
    BY <1>1, <1>2, <2>1, <2>2, <2>4 DEF Shapes, Holders, TxKeeps
  <2>6. OwnDataOK'
    <3>1. UNCHANGED <<own, writes, sent, clock, app>>
      BY <1>2, <2>1 DEF TxKeeps
    <3>2. WritesOK'
      BY <2>2, <3>1 DEF WritesOK
    <3>3. Before(sent)' /\ (\A i \in 1 .. Len(buffer.items) : Before(buffer.items[i]))'
      BY <2>2, <2>4, <3>1 DEF Before
    <3>4. PayloadsOK'
      BY <2>4, <3>3 DEF PayloadsOK
    <3>. QED  BY <2>4, <3>2, <3>4 DEF OwnDataOK, TestOK
  <2>. QED  BY <1>5, <2>5, <2>6 DEF DaemonInv
<1>. QED  BY <1>6, <1>7, <1>8, <1>9 DEF Transmitter

\* The application writes its safety data under the mutex.
LEMMA WritingStep ==
    ASSUME DaemonInv, set_own_safety_data \/ EndOfWrite
    PROVE  DaemonInv'
<1>1. Shapes /\ Holders /\ BoundsOK /\ OwnDataOK
  BY DEF DaemonInv
<1>2. AppKeeps /\ UNCHANGED table_mutex
  BY DEF set_own_safety_data, EndOfWrite
<1>3. own \in OwnState /\ writes \in Seq(Nat) /\ Len(writes) \in Nat
  BY <1>1 DEF Shapes
<1>4. clock \in Nat
  BY <1>1, ScenarioFacts DEF Shapes
<1>5. BoundsOK'
  <2>1. left' = left \/ (left' = [left EXCEPT !.writes = @ - 1] /\ left.writes > 0)
    <3>1. CASE set_own_safety_data
      BY <3>1 DEF set_own_safety_data
    <3>2. CASE EndOfWrite
      BY <3>2 DEF EndOfWrite
    <3>. QED  BY <3>1, <3>2
  <2>2. left' \in [payloads : Seq(SUBSET Received), writes : Nat, lists : Nat, sends : Nat]
    BY <1>1, <2>1 DEF BoundsOK
  <2>. QED  BY <1>1, <1>2, <2>2 DEF AppKeeps, BoundsOK
<1>6. CASE set_own_safety_data
  <2>1. /\ own' = [own EXCEPT !.own_sd = Len(writes) + 1] /\ writes' = writes
        /\ app = "off" /\ sd_mutex = "free" /\ sd_mutex' = "app" /\ app' = "writing"
    BY <1>6 DEF set_own_safety_data, MayLock
  <2>2. /\ own' \in OwnState /\ own'.own_sd = Len(writes) + 1
        /\ own'.last_own_sd_write = own.last_own_sd_write
        /\ own'.own_sd_written = own.own_sd_written /\ own'.next_seqno = own.next_seqno
    BY <1>3, <2>1 DEF OwnState
  <2>3. Shapes' /\ Holders'
    BY <1>1, <1>2, <2>1, <2>2 DEF Shapes, Holders, AppKeeps, bpVars
  <2>4. OwnDataOK'
    BY <1>1, <1>2, <2>1, <2>2 DEF OwnDataOK, WritesOK, PayloadsOK, TestOK, AppKeeps, bpVars, Before,
                             GeneratesCurrentData, Holders
  <2>. QED  BY <1>5, <2>3, <2>4 DEF DaemonInv
<1>7. CASE EndOfWrite
  <2>1. /\ own' = [own EXCEPT !.last_own_sd_write = clock, !.own_sd_written = TRUE]
        /\ writes' = Append(writes, clock) /\ app' = "off" /\ app = "writing" /\ sd_mutex' = "free"
    BY <1>7 DEF EndOfWrite
  <2>2. /\ own' \in OwnState /\ own'.own_sd = own.own_sd /\ own'.last_own_sd_write = clock
        /\ own'.next_seqno = own.next_seqno
    BY <1>3, <1>4, <2>1 DEF OwnState
  <2>3. /\ Len(writes') = Len(writes) + 1 /\ writes'[Len(writes')] = clock /\ writes' # <<>>
        /\ writes' \in Seq(Nat)
    BY <1>3, <1>4, <2>1
  <2>4. own.own_sd = Len(writes) + 1 /\ sd_mutex = "app" /\ tx.pc \notin {"generate", "push"}
    BY <1>1, <2>1 DEF OwnDataOK, WritesOK, PayloadsOK, TestOK, Holders
  <2>5. Shapes' /\ Holders'
    BY <1>1, <1>2, <2>1, <2>2, <2>3, <2>4 DEF Shapes, Holders, AppKeeps, bpVars
  <2>6. \A p \in Payload : Before(p) => p.seqno < own'.next_seqno /\ p.safetyData <= Len(writes')
    BY <1>3, <2>2, <2>3 DEF Before, Payload
  <2>7. sent \in Payload /\ \A i \in 1 .. Len(buffer.items) : buffer.items[i] \in Payload
    BY <1>1 DEF Shapes, BufferState
  <2>8. UNCHANGED <<sent, buffer, tx, clock>>
    BY <1>2 DEF AppKeeps, bpVars
  <2>9. Before(sent)' /\ (\A i \in 1 .. Len(buffer.items) : Before(buffer.items[i]))'
    BY <1>1, <2>6, <2>7, <2>8 DEF OwnDataOK, WritesOK, PayloadsOK, TestOK, Before
  <2>10. OwnDataOK'
    BY <1>4, <2>1, <2>2, <2>3, <2>4, <2>8, <2>9 DEF OwnDataOK, WritesOK, PayloadsOK, TestOK
  <2>. QED  BY <1>5, <2>5, <2>10 DEF DaemonInv
<1>. QED  BY <1>6, <1>7

\* It lists the neighbours under the other mutex, and may die under either.
LEMMA ListingStep ==
    ASSUME DaemonInv, get_neighbours \/ EndOfList \/ Dies
    PROVE  DaemonInv'
<1>1. Shapes /\ Holders /\ BoundsOK /\ OwnDataOK
  BY DEF DaemonInv
<1>2. AppKeeps /\ UNCHANGED <<own, sd_mutex, writes>> /\ app' # "writing"
  BY DEF get_neighbours, EndOfList, Dies
<1>3. BoundsOK'
  <2>1. left' = left \/ (left' = [left EXCEPT !.lists = @ - 1] /\ left.lists > 0)
    <3>1. CASE get_neighbours
      BY <3>1 DEF get_neighbours
    <3>2. CASE EndOfList \/ Dies
      BY <3>2 DEF EndOfList, Dies
    <3>. QED  BY <3>1, <3>2
  <2>2. left' \in [payloads : Seq(SUBSET Received), writes : Nat, lists : Nat, sends : Nat]
    BY <1>1, <2>1 DEF BoundsOK
  <2>. QED  BY <1>1, <1>2, <2>2 DEF AppKeeps, BoundsOK
<1>4. Shapes'
  BY <1>1, <1>2 DEF Shapes, AppKeeps, bpVars
<1>5. Holders'
  <2>1. CASE get_neighbours
    BY <1>1, <1>2, <2>1 DEF Holders, AppKeeps, get_neighbours, MayLock
  <2>2. CASE EndOfList
    BY <1>1, <1>2, <2>2 DEF Holders, AppKeeps, EndOfList
  <2>3. CASE Dies
    BY <1>1, <1>2, <2>3 DEF Holders, AppKeeps, Dies
  <2>. QED  BY <2>1, <2>2, <2>3
<1>6. OwnDataOK'
  BY <1>1, <1>2 DEF OwnDataOK, WritesOK, PayloadsOK, TestOK, AppKeeps, bpVars, Before,
                             GeneratesCurrentData
<1>. QED  BY <1>3, <1>4, <1>5, <1>6 DEF DaemonInv

\* The environment delivers payloads, takes the one in the buffer, and lets time pass.
LEMMA EnvironmentStep ==
    ASSUME DaemonInv, Delivers \/ Sends \/ Tick \/ signalHandler
    PROVE  DaemonInv'
<1>1. Shapes /\ Holders /\ BoundsOK /\ OwnDataOK
  BY DEF DaemonInv
<1>2. DaemonKeeps /\ scenario' = scenario
  BY DEF Delivers, Sends, Tick, signalHandler, boundVars
<1>3. Holders'
  BY <1>1, <1>2, HoldersKept DEF DaemonKeeps, memoryVars, holderVars
<1>4. left \in [payloads : Seq(SUBSET Received), writes : Nat, lists : Nat, sends : Nat]
  BY <1>1 DEF BoundsOK
<1>5. /\ inbox \in Seq(Received) /\ buffer \in BufferState /\ sent \in Payload
      /\ srp_exitFlag \in BOOLEAN /\ clock \in 0 .. scenario.time
  BY <1>1 DEF Shapes
<1>6. CASE Delivers
  <2>1. PICK p \in Head(left.payloads) : inbox' = Append(inbox, p)
    BY <1>6 DEF Delivers
  <2>2. /\ left.payloads # <<>> /\ left' = [left EXCEPT !.payloads = Tail(@)]
        /\ UNCHANGED <<clock, srp_exitFlag, buffer, sent>>
    BY <1>6 DEF Delivers
  <2>3. Head(left.payloads) \subseteq Received /\ Tail(left.payloads) \in Seq(SUBSET Received)
    <3>1. left.payloads \in Seq(SUBSET Received)
      BY <1>4
    <3>2. Head(left.payloads) \in SUBSET Received
      BY <2>2, <3>1
    <3>. QED  BY <2>2, <3>1, <3>2
  <2>4. inbox' \in Seq(Received)
    <3>1. p \in Received
      BY <2>3
    <3>. QED  BY <1>5, <2>1, <3>1
  <2>5. Shapes'
    BY <1>1, <1>2, <2>2, <2>4 DEF Shapes, DaemonKeeps, memoryVars
  <2>6. left' \in [payloads : Seq(SUBSET Received), writes : Nat, lists : Nat, sends : Nat]
    BY <1>4, <2>2, <2>3
  <2>7. BoundsOK'
    BY <1>1, <1>2, <2>6 DEF BoundsOK, DaemonKeeps
  <2>8. OwnDataOK'
    BY <1>1, <1>2, <2>2, OwnDataKept DEF DaemonKeeps, memoryVars, ownDataVars
  <2>. QED  BY <1>3, <2>5, <2>7, <2>8 DEF DaemonInv
<1>7. CASE Sends
  <2>1. /\ buffer.items # <<>> /\ sent' = Head(buffer.items)
        /\ buffer' = [has_data |-> FALSE, items |-> <<>>]
        /\ UNCHANGED <<clock, srp_exitFlag, inbox, left>>
    BY <1>7 DEF Sends, boundVars
  <2>2. /\ buffer.items \in Seq(Payload) /\ Len(buffer.items) \in Nat \ {0}
        /\ Head(buffer.items) = buffer.items[1]
    BY <1>5, <2>1 DEF BufferState
  <2>3. sent' \in Payload /\ buffer' \in BufferState /\ buffer'.items = <<>>
    BY <2>1, <2>2 DEF BufferState
  <2>4. Shapes'
    BY <1>1, <1>2, <2>1, <2>3 DEF Shapes, DaemonKeeps, memoryVars
  <2>5. BoundsOK'
    BY <1>1, <1>2, <2>1 DEF BoundsOK, DaemonKeeps
  <2>6. Before(sent') /\ tx.pc # "push"
    BY <1>1, <2>1, <2>2 DEF OwnDataOK, WritesOK, PayloadsOK, TestOK
  <2>7. OwnDataOK'
    BY <1>1, <1>2, <2>1, <2>3, <2>6 DEF OwnDataOK, WritesOK, PayloadsOK, TestOK, DaemonKeeps, memoryVars, Before
  <2>. QED  BY <1>3, <2>4, <2>5, <2>7 DEF DaemonInv
<1>8. CASE Tick \/ signalHandler
  <2>1. UNCHANGED <<inbox, buffer, sent, left>>
    BY <1>8 DEF Tick, signalHandler, bpVars, boundVars
  <2>2. clock' \in 0 .. scenario.time /\ clock' >= clock
    BY <1>1, <1>5, <1>8, ScenarioFacts DEF Tick, signalHandler
  <2>3. srp_exitFlag' \in BOOLEAN
    BY <1>5, <1>8 DEF Tick, signalHandler
  <2>4. Shapes'
    BY <1>1, <1>2, <2>1, <2>2, <2>3 DEF Shapes, DaemonKeeps, memoryVars
  <2>5. BoundsOK'
    BY <1>1, <1>2, <2>1 DEF BoundsOK, DaemonKeeps
  <2>6. own.last_own_sd_write \in Nat /\ clock \in Nat /\ clock' \in Nat /\ tx.tested \in Nat
    BY <1>1, <2>2, ScenarioFacts DEF Shapes, OwnState, TxState
  <2>7. OwnDataOK'
    BY <1>1, <1>2, <2>1, <2>2, <2>6 DEF OwnDataOK, WritesOK, PayloadsOK, TestOK, DaemonKeeps, memoryVars,
                                        Before, GeneratesCurrentData
  <2>. QED  BY <1>3, <2>4, <2>5, <2>7 DEF DaemonInv
<1>. QED  BY <1>6, <1>7, <1>8


\* All steps.
LEMMA DaemonStep ==
    ASSUME DaemonInv, [Next]_vars
    PROVE  DaemonInv'
<1>1. CASE UNCHANGED vars
  <2>1. Shapes' /\ Holders' /\ BoundsOK'
    BY <1>1 DEF DaemonInv, Shapes, Holders, BoundsOK, vars, memoryVars, bpVars, boundVars
  <2>2. OwnDataOK'
    BY <1>1, OwnDataKept DEF DaemonInv, vars, memoryVars, bpVars, ownDataVars
  <2>. QED  BY <2>1, <2>2 DEF DaemonInv
<1>. QED  BY <1>1, ReceiverStep, ScrubberStep, TransmitterStep, WritingStep, ListingStep,
          EnvironmentStep
          DEF Next

(***************************************************************************)
(* The neighbour table of the daemon.  What waits to be inserted is what   *)
(* the scenario lets be heard; who waits to be removed, under the mutex,   *)
(* has an entry, and has been silent.                                      *)
(***************************************************************************)
HeardOK ==
    /\ inbox \in Seq(HeardSet) /\ left.payloads \in Seq(SUBSET HeardSet)
    /\ rx.pc = "insert" => Record(rx.esd)

SilentIn(E, n, now) == \E e \in E : e[1] = n /\ now - e[2].last_esd_received >= ScrubbingTimeout

\* A list of neighbours, each of them once.
AllSilent(nodes, E, now) ==
    /\ nodes \in Seq(NodeId) /\ nodes # <<>>
    /\ \A a, b \in 1 .. Len(nodes) : nodes[a] = nodes[b] => a = b
    /\ \A a \in 1 .. Len(nodes) : SilentIn(E, nodes[a], now)

ScrubOK(E) ==
    /\ scrub.pc = "find" => scrub.now \in Nat /\ scrub.now <= clock
    /\ scrub.pc = "remove" => AllSilent(scrub.nodes, E, clock)

TableOK == \E E : TableIs(table, scenario.room, clock, E) /\ ScrubOK(E)

TableInv == HeardOK /\ TableOK

\* A step of the map, or none.
MapStep == [Map!MapNext]_<<NodeInformation, clock, scenario.room>>

\* What the assumptions say of what is heard.
LEMMA HeardFacts ==
    ASSUME BoundsOK
    PROVE  scenario.heard \in Seq(SUBSET HeardSet)
<1>1. scenario \in Scenarios /\ scenario.heard \in Seq(SUBSET Received)
  BY ScenarioFacts DEF BoundsOK
<1>2. PICK q, l : q = scenario.heard /\ l = Len(q)
  OBVIOUS
<1>3. q \in [1 .. l -> SUBSET Received] /\ l \in Nat
  BY <1>1, <1>2, LenProperties
<1>4. \A a \in 1 .. l : q[a] \in SUBSET HeardSet
  <2>1. \A a \in 1 .. l : q[a] \in Range(q)
    BY <1>3 DEF Range
  <2>2. UNION Range(q) \subseteq HeardSet
    BY <1>1, <1>2 DEF HeardSet
  <2>. QED  BY <2>1, <2>2
<1>5. q \in [1 .. l -> SUBSET HeardSet]
  BY <1>3, <1>4
<1>6. q \in Seq(SUBSET HeardSet)
  BY <1>3, <1>5
<1>. QED  BY <1>2, <1>6

\* The start.
LEMMA TableInit ==
    ASSUME Init, DaemonInv
    PROVE  TableInv /\ Information(table) = [n \in {} |-> 0]
<1>1. BoundsOK /\ scenario.room \in Nat
  BY ScenarioFacts DEF DaemonInv
<1>2. table = Table(Empty(scenario.room, OwnNodeId, NeighbourState(0)),
                    [i \in 0 .. scenario.room - 1 |-> WrongLength],
                    [i \in 1 .. scenario.room |-> i - 1])
  BY DEF Init, initialize_srp_store, Table
<1>3. TableIs(table, scenario.room, clock, {})
  <2>1. OwnNodeId \in Int
    BY NodesAreNumbers
  <2>. QED  BY <1>1, <1>2, <2>1, TableStart
<1>4. HeardOK
  <2>1. inbox = <<>> /\ left.payloads = scenario.heard /\ rx.pc = "loop"
    BY DEF Init
  <2>2. <<>> \in Seq(HeardSet)
    OBVIOUS
  <2>. QED  BY <1>1, <2>1, <2>2, HeardFacts DEF HeardOK
<1>5. TableOK
  <2>1. scrub.pc = "loop"
    BY DEF Init
  <2>2. ScrubOK({})
    BY <2>1 DEF ScrubOK
  <2>. QED  BY <1>3, <2>2 DEF TableOK
<1>6. Informs(Information(table), table, {})
  BY <1>1, <1>3, InformationIs
<1>7. Information(table) = [n \in {} |-> Information(table)[n]]
  BY <1>6 DEF Informs, Keys
<1>. QED  BY <1>4, <1>5, <1>7 DEF TableInv

\* The variables that the table is about.
tableVars == <<clock, table, scrub, rx, inbox, scenario>>

\* Steps that leave them alone.
LEMMA TableKept ==
    ASSUME TableInv, UNCHANGED tableVars, left'.payloads = left.payloads
    PROVE  TableInv' /\ MapStep
<1>1. TableInv'
  BY DEF TableInv, HeardOK, TableOK, ScrubOK, tableVars
<1>2. UNCHANGED <<NodeInformation, clock, scenario.room>>
  BY DEF NodeInformation, tableVars
<1>. QED  BY <1>1, <1>2 DEF MapStep

\* The receiver takes a payload from the inbox.
LEMMA ReceivingStep ==
    ASSUME DaemonInv, TableInv, RxLoop \/ RxTimedOut \/ RxReceive
    PROVE  TableInv' /\ MapStep
<1>1. RxKeeps /\ table' = table
  BY DEF RxLoop, RxTimedOut, RxReceive
<1>2. UNCHANGED <<clock, table, scrub, left, scenario>>
  BY <1>1 DEF RxKeeps, boundVars
<1>3. rx \in RxState /\ inbox \in Seq(Received) /\ HeardOK /\ TableOK
  BY DEF DaemonInv, Shapes, TableInv
<1>4. TableOK'
  BY <1>2, <1>3 DEF TableOK, ScrubOK
<1>5. inbox' \in Seq(HeardSet) /\ (rx'.pc = "insert" => Record(rx'.esd))
  <2>1. CASE RxLoop \/ RxTimedOut
    <3>1. inbox' = inbox /\ rx' \in {[rx EXCEPT !.pc = "ended"], [rx EXCEPT !.pc = "wait"], [rx EXCEPT !.pc = "loop"]}
      BY <2>1 DEF RxLoop, RxTimedOut
    <3>2. rx'.pc # "insert"
      BY <1>3, <3>1 DEF RxState
    <3>. QED  BY <1>3, <3>1, <3>2 DEF HeardOK
  <2>2. CASE RxReceive
    <3>1. inbox # <<>> /\ inbox' = Tail(inbox)
      BY <2>2 DEF RxReceive
    <3>2. Head(inbox) \in HeardSet /\ Head(inbox) \in Received /\ inbox' \in Seq(HeardSet)
      BY <1>3, <3>1 DEF HeardOK
    <3>3. \E more \in BOOLEAN :
              rx' = IF Head(inbox) = WrongLength \/ Head(inbox).nodeId = OwnNodeId
                    THEN [rx EXCEPT !.pc = NextPayload(more)]
                    ELSE [pc |-> "insert", esd |-> Head(inbox), more |-> more]
      BY <2>2 DEF RxReceive
    <3>4. PICK more, p : /\ more \in BOOLEAN /\ p = Head(inbox)
                         /\ rx' = IF p = WrongLength \/ p.nodeId = OwnNodeId
                                  THEN [rx EXCEPT !.pc = NextPayload(more)]
                                  ELSE [pc |-> "insert", esd |-> p, more |-> more]
      BY <3>3
    <3>5. CASE p = WrongLength \/ p.nodeId = OwnNodeId
      <4>1. rx' = [rx EXCEPT !.pc = NextPayload(more)]
        BY <3>4, <3>5
      <4>2. rx'.pc # "insert"
        BY <1>3, <4>1 DEF RxState, NextPayload
      <4>. QED  BY <3>2, <4>2
    <3>6. CASE ~ (p = WrongLength \/ p.nodeId = OwnNodeId)
      <4>1. rx'.esd = p /\ p \in HeardSet /\ p \in ESD /\ p.nodeId # OwnNodeId
        BY <3>2, <3>4, <3>6 DEF Received
      <4>. QED  BY <3>2, <4>1 DEF Record, ESD
    <3>. QED  BY <3>5, <3>6
  <2>. QED  BY <2>1, <2>2
<1>6. HeardOK'
  BY <1>2, <1>3, <1>5 DEF HeardOK
<1>7. UNCHANGED <<NodeInformation, clock, scenario.room>>
  BY <1>2 DEF NodeInformation
<1>. QED  BY <1>4, <1>6, <1>7 DEF TableInv, MapStep

\* Who is known has an entry.
LEMMA KnownHasEntry ==
    ASSUME NEW N \in Nat, NEW now, NEW E, TableIs(table, N, now, E), NEW n \in NodeId
    PROVE  /\ Known(n) <=> HasEntry(E, n)
           /\ \A e \in E : e[1] = n => State(n) = e[2]
<1>1. Holds(table.neighbour_table, N, E) /\ n \in Int
  BY NodesAreNumbers DEF TableIs
<1>2. /\ IsMember(table.neighbour_table, n) <=> HasEntry(E, n)
      /\ \A e \in E : e[1] = n => LookupData(table.neighbour_table, n) = e[2]
  BY <1>1, HoldsLookup
<1>. QED  BY <1>2 DEF Known, State

\* The map hears of a record.
LEMMA MapHears ==
    ASSUME NEW esd, Record(esd), NEW n, n = esd.nodeId, UNCHANGED <<clock, scenario>>,
           NEW I, I = Information(table),
           n \in DOMAIN I \/ Cardinality(DOMAIN I) < scenario.room,
           Information(table') = [m \in DOMAIN I \cup {n} |->
                                     IF m = n THEN [esd |-> esd, heard |-> clock] ELSE I[m]]
    PROVE  MapStep
<1>1. n \in NodeId \ {OwnNodeId} /\ esd \in HeardSet /\ esd.nodeId = n
  BY DEF Record
<1>2. NodeInformation = I /\ NodeInformation' = Information(table')
  BY DEF NodeInformation
<1>3. Information(table') = Map!Heard(I, n, esd)
  BY DEF Map!Heard
<1>4. NodeInformation' \in {Map!Heard(I, n, r) : r \in {x \in HeardSet : x.nodeId = n}}
  BY <1>1, <1>2, <1>3
<1>6. \A S : Map!Cardinality(S) = Cardinality(S)
  BY Zenon DEF Map!Cardinality, Cardinality
<1>7. n \in DOMAIN I \/ Map!Cardinality(DOMAIN I) < scenario.room
  BY <1>6
<1>5. Map!Hear
  BY <1>1, <1>2, <1>4, <1>7 DEF Map!Hear
<1>. QED  BY <1>5 DEF MapStep, Map!MapNext

\* The receiver puts a record into the table.
LEMMA InsertingStep ==
    ASSUME DaemonInv, TableInv, RxInsert
    PROVE  TableInv' /\ MapStep
<1>1. /\ rx.pc = "insert" /\ table_mutex = "free" /\ RxKeeps /\ inbox' = inbox
      /\ rx' = IF InsertThrows(rx.esd) THEN [rx EXCEPT !.pc = "ended"]
               ELSE [rx EXCEPT !.pc = NextPayload(rx.more), !.esd = WrongLength]
      /\ \/ ~ InsertThrows(rx.esd) /\ insert_esd_entry(rx.esd)
         \/ InsertThrows(rx.esd) /\ table' = table
  BY DEF RxInsert, Inserted, MayLock
<1>2. UNCHANGED <<clock, scrub, left, scenario>>
  BY <1>1 DEF RxKeeps, boundVars
<1>3. /\ rx \in RxState /\ scrub.pc # "remove" /\ HeardOK /\ TableOK
      /\ clock \in Nat /\ scenario.room \in Nat
  BY <1>1, ScenarioFacts DEF DaemonInv, Shapes, Holders, TableInv
<1>4. rx'.pc # "insert"
  BY <1>1, <1>3 DEF RxState, NextPayload
<1>5. HeardOK'
  BY <1>1, <1>2, <1>3, <1>4 DEF HeardOK
<1>6. CASE table' = table
  <2>1. TableOK'
    BY <1>2, <1>3, <1>6 DEF TableOK, ScrubOK
  <2>2. UNCHANGED <<NodeInformation, clock, scenario.room>>
    BY <1>2, <1>6 DEF NodeInformation
  <2>. QED  BY <1>5, <2>1, <2>2 DEF TableInv, MapStep
<1>7. CASE ~ InsertThrows(rx.esd) /\ insert_esd_entry(rx.esd)
  <2>1. PICK N, now, esd, n, I : /\ N = scenario.room /\ now = clock /\ esd = rx.esd /\ n = esd.nodeId
                                 /\ I = Information(table)
    OBVIOUS
  <2>2. PICK E : TableIs(table, N, now, E) /\ ScrubOK(E)
    BY <1>3, <2>1 DEF TableOK
  <2>3. Record(esd) /\ n \in NodeId /\ now \in Nat /\ N \in Nat
    BY <1>1, <1>3, <2>1 DEF HeardOK, Record
  <2>4. PICK known \in BOOLEAN : known <=> Known(n)
    <3>1. Known(n) \in BOOLEAN
      BY DEF Known, IsMember
    <3>. QED  BY <3>1
  <2>5. known <=> HasEntry(E, esd.nodeId)
    BY <2>1, <2>2, <2>3, <2>4, KnownHasEntry
  <2>6. PICK o : o = IF Known(n) THEN State(n).esd_offs ELSE Head(table.freeList)
    OBVIOUS
  <2>7. BufferFor(table, esd, o, known)
    BY <1>7, <2>1, <2>4, <2>6 DEF InsertThrows, BufferFor, State
  <2>8. table' = Put(table, esd, o, now, known)
    BY <1>7, <2>1, <2>4, <2>6 DEF insert_esd_entry, Put, Table, Filled, NeighbourState, StateAt
  <2>9. /\ TableIs(table', N, now, With(E, n, o, now))
        /\ o \in 0 .. N - 1 /\ o \notin Buffers(Others(E, n))
    <3>1. /\ TableIs(table', N, now, With(E, esd.nodeId, o, now))
          /\ o \in 0 .. N - 1 /\ o \notin Buffers(Others(E, esd.nodeId))
      BY <2>2, <2>3, <2>5, <2>7, <2>8, TablePuts
    <3>. QED  BY <2>1, <3>1
  <2>10. TableOK'
    <3>1. ScrubOK(With(E, n, o, now))'
      BY <1>2, <1>3, <2>2 DEF ScrubOK
    <3>. QED  BY <1>2, <2>1, <2>9, <3>1 DEF TableOK
  <2>11. Information(table') = [m \in DOMAIN I \cup {n} |->
                                   IF m = n THEN [esd |-> esd, heard |-> now] ELSE I[m]]
    <3>1. table'.neighbour_ESD = Filled(table.neighbour_ESD, o, esd)
      BY <2>8 DEF Put, Table
    <3>2. TableIs(table, N, now, E) /\ n = esd.nodeId /\ I = Information(table)
      BY <2>1, <2>2
    <3>. QED  BY <2>3, <2>9, <3>1, <3>2, InformationPut
  <2>12. n \in DOMAIN I \/ Cardinality(DOMAIN I) < scenario.room
    <3>1. CASE known
      <4>1. HasEntry(E, n) /\ Informs(I, table, E)
        BY <2>1, <2>2, <2>3, <2>5, <3>1, InformationIs
      <4>. QED  BY <4>1 DEF HasEntry, Informs, Keys
    <3>2. CASE ~ known
      <4>1. table.freeList # <<>>
        BY <2>7, <3>2 DEF BufferFor
      <4>. QED  BY <2>1, <2>2, <2>3, <4>1, RoomLeft
    <3>. QED  BY <3>1, <3>2
  <2>13. MapStep
    BY <1>2, <2>1, <2>3, <2>11, <2>12, MapHears
  <2>. QED  BY <1>5, <2>10, <2>13 DEF TableInv
<1>. QED  BY <1>1, <1>6, <1>7

\* The list of the neighbours that have been silent.
LEMMA SilentFound ==
    ASSUME NEW N \in Nat, NEW E, NEW now \in Nat, TableIs(table, N, clock, E),
           NEW then \in Nat, then <= now,
           NEW found, found = find_nodes_to_scrub(then), found # <<>>
    PROVE  AllSilent(found, E, now)
<1>1. PICK t, n, M, F : /\ t = table.neighbour_table /\ n = t.nodes
                        /\ M = {i \in DOMAIN n : SilentAt(then, n[i])}
                        /\ F = {e \in E : MillisecondsPassed(then, e[2].last_esd_received) >= ScrubbingTimeout}
  OBVIOUS
<1>2. found = KeysOf(n, FindMatchingData(t, M))
  BY <1>1 DEF find_nodes_to_scrub, KeysOf
<1>3. Lists(found, Keys(F))
  <2>1. Holds(t, N, E) /\ F \in SUBSET E
    BY <1>1 DEF TableIs
  <2>2. ASSUME NEW i \in DOMAIN n, <<n[i].key, n[i].data>> \in E
        PROVE  i \in M <=> <<n[i].key, n[i].data>> \in F
    BY <1>1, <2>2 DEF SilentAt
  <2>3. \A i \in DOMAIN t.nodes :
            <<t.nodes[i].key, t.nodes[i].data>> \in E
            => (i \in M <=> <<t.nodes[i].key, t.nodes[i].data>> \in F)
    BY <1>1, <2>2
  <2>4. Lists(KeysOf(t.nodes, FindMatchingData(t, M)), Keys(F))
    BY <2>1, <2>3, HoldsMatches
  <2>. QED  BY <1>1, <1>2, <2>4
<1>4. \A e \in E : e[1] \in NodeId /\ e[2].last_esd_received \in Nat
  BY DEF TableIs, Owned, EntryOK
<1>5. \A e \in F : e \in E /\ now - e[2].last_esd_received >= ScrubbingTimeout
  <2>1. ScrubbingTimeout \in Nat \ {0}
    BY SrpAssumption
  <2>2. ASSUME NEW e \in F PROVE e \in E /\ now - e[2].last_esd_received >= ScrubbingTimeout
    <3>1. PICK l : l = e[2].last_esd_received
      OBVIOUS
    <3>2. e \in E /\ l \in Nat /\ MillisecondsPassed(then, l) >= ScrubbingTimeout
      BY <1>1, <1>4, <3>1
    <3>3. now - l >= ScrubbingTimeout
      BY <2>1, <3>2 DEF MillisecondsPassed
    <3>. QED  BY <3>1, <3>2, <3>3
  <2>. QED  BY <2>2
<1>6. found \in Seq(Keys(F)) /\ Keys(F) \subseteq NodeId
  BY <1>3, <1>4, <1>5 DEF Lists, Keys
<1>7. found \in Seq(NodeId)
  BY <1>6
<1>8. \A a \in 1 .. Len(found) : SilentIn(E, found[a], now)
  <2>1. \A x \in Keys(F) : SilentIn(E, x, now)
    BY <1>5 DEF Keys, SilentIn
  <2>. QED  BY <1>6, <2>1
<1>9. \A a, b \in 1 .. Len(found) : found[a] = found[b] => a = b
  BY <1>3 DEF Lists
<1>. QED  BY <1>7, <1>8, <1>9 DEF AllSilent

\* The scrubber looks for silent neighbours.
LEMMA FindingStep ==
    ASSUME DaemonInv, TableInv, ScrubLoop \/ ScrubFind
    PROVE  TableInv' /\ MapStep
<1>1. ScrubKeeps /\ table' = table
  BY DEF ScrubLoop, ScrubFind
<1>2. UNCHANGED <<clock, table, rx, inbox, left, scenario>>
  BY <1>1 DEF ScrubKeeps, bpVars, boundVars
<1>3. DOMAIN scrub = {"pc", "now", "nodes"} /\ HeardOK /\ clock \in Nat /\ scenario.room \in Nat
  BY ScenarioFacts DEF DaemonInv, BoundsOK, Shapes, TableInv
<1>4. PICK E : TableIs(table, scenario.room, clock, E) /\ ScrubOK(E)
  BY DEF TableInv, TableOK
<1>5. ScrubOK(E)'
  <2>1. CASE ScrubLoop
    <3>1. scrub' \in {[scrub EXCEPT !.pc = "ended"], [scrub EXCEPT !.pc = "find", !.now = clock]}
      BY <2>1 DEF ScrubLoop
    <3>2. scrub'.pc = "ended" \/ (scrub'.pc = "find" /\ scrub'.now = clock)
      BY <1>3, <3>1
    <3>. QED  BY <1>2, <1>3, <3>2 DEF ScrubOK
  <2>2. CASE ScrubFind
    <3>1. PICK found : found = find_nodes_to_scrub(scrub.now)
      OBVIOUS
    <3>2. scrub.pc = "find" /\ scrub.now \in Nat /\ scrub.now <= clock
      BY <1>4, <2>2 DEF ScrubFind, ScrubOK
    <3>3. CASE found = <<>>
      <4>1. scrub' = [scrub EXCEPT !.pc = "loop", !.now = 0]
        BY <2>2, <3>1, <3>3 DEF ScrubFind
      <4>2. scrub'.pc = "loop"
        BY <1>3, <4>1
      <4>. QED  BY <4>2 DEF ScrubOK
    <3>4. CASE found # <<>>
      <4>1. scrub' = [pc |-> "remove", now |-> 0, nodes |-> found]
        BY <2>2, <3>1, <3>4 DEF ScrubFind
      <4>2. AllSilent(found, E, clock)
        BY <1>3, <1>4, <3>1, <3>2, <3>4, SilentFound
      <4>. QED  BY <1>2, <4>1, <4>2 DEF ScrubOK
    <3>. QED  BY <3>3, <3>4
  <2>. QED  BY <2>1, <2>2
<1>6. TableOK' /\ HeardOK'
  BY <1>2, <1>3, <1>4, <1>5 DEF TableOK, HeardOK
<1>7. UNCHANGED <<NodeInformation, clock, scenario.room>>
  BY <1>2 DEF NodeInformation
<1>. QED  BY <1>6, <1>7 DEF TableInv, MapStep

\* The map forgets a neighbour.
LEMMA MapForgets ==
    ASSUME NEW n, NEW I, I = Information(table), n \in DOMAIN I, UNCHANGED <<clock, scenario>>,
           clock - I[n].heard >= ScrubbingTimeout,
           Information(table') = Restrict(I, DOMAIN I \ {n})
    PROVE  MapStep
<1>1. NodeInformation = I /\ NodeInformation' = Information(table')
  BY DEF NodeInformation
<1>2. Information(table') = Map!Restrict(I, DOMAIN I \ {n})
  BY DEF Map!Restrict, Restrict
<1>3. NodeInformation' \in {Map!Restrict(I, DOMAIN I \ {m}) :
                               m \in {k \in DOMAIN I : clock - I[k].heard >= ScrubbingTimeout}}
  BY <1>1, <1>2
<1>4. Map!Forget
  BY <1>1, <1>3 DEF Map!Forget
<1>. QED  BY <1>4 DEF MapStep, Map!MapNext

\* The scrubber takes a neighbour out of the table.
LEMMA RemovingStep ==
    ASSUME DaemonInv, TableInv, ScrubRemove
    PROVE  TableInv' /\ MapStep
<1>1. /\ scrub.pc = "remove" /\ ScrubKeeps /\ remove_esd_entry(Head(scrub.nodes))
      /\ scrub' = [scrub EXCEPT !.pc = IF Len(scrub.nodes) = 1 THEN "loop" ELSE @, !.nodes = Tail(@)]
  BY DEF ScrubRemove, Removed
<1>2. UNCHANGED <<clock, rx, inbox, left, scenario>>
  BY <1>1 DEF ScrubKeeps, bpVars, boundVars
<1>3. DOMAIN scrub = {"pc", "now", "nodes"} /\ HeardOK /\ clock \in Nat /\ scenario.room \in Nat
  BY ScenarioFacts DEF DaemonInv, BoundsOK, Shapes, TableInv
<1>4. PICK E : TableIs(table, scenario.room, clock, E) /\ ScrubOK(E)
  BY DEF TableInv, TableOK
<1>5. PICK q, n, I, F : q = scrub.nodes /\ n = Head(q) /\ I = Information(table) /\ F = Others(E, n)
  OBVIOUS
<1>6. /\ q \in Seq(NodeId) /\ q # <<>> /\ (\A a, b \in 1 .. Len(q) : q[a] = q[b] => a = b)
      /\ \A a \in 1 .. Len(q) : SilentIn(E, q[a], clock)
  BY <1>1, <1>4, <1>5 DEF ScrubOK, AllSilent
<1>7. /\ n = q[1] /\ n \in NodeId /\ Len(q) \in Nat \ {0}
      /\ Tail(q) \in Seq(NodeId) /\ Len(Tail(q)) = Len(q) - 1
      /\ \A a \in 1 .. Len(q) - 1 : Tail(q)[a] = q[a + 1]
  BY <1>5, <1>6
<1>8. PICK e \in E : e[1] = n /\ clock - e[2].last_esd_received >= ScrubbingTimeout
  <2>1. SilentIn(E, n, clock)
    BY <1>6, <1>7
  <2>. QED  BY <2>1 DEF SilentIn
<1>9. HasEntry(E, n) /\ n \in Int
  BY <1>7, <1>8, NodesAreNumbers DEF HasEntry
<1>10. PICK o : o = State(n).esd_offs
  OBVIOUS
<1>11. table' = Table(Remove(table.neighbour_table, n), table.neighbour_ESD, Append(table.freeList, o))
  <2>1. table' = [table EXCEPT !.freeList = Append(@, o), !.neighbour_table = Remove(@, n)]
    BY <1>1, <1>5, <1>10 DEF remove_esd_entry
  <2>2. PICK t, b, f : t = table.neighbour_table /\ b = table.neighbour_ESD /\ f = table.freeList
    OBVIOUS
  <2>3. table = [neighbour_table |-> t, neighbour_ESD |-> b, freeList |-> f]
    BY <1>4, <2>2 DEF TableIs, Table
  <2>4. table' = [neighbour_table |-> Remove(t, n), neighbour_ESD |-> b, freeList |-> Append(f, o)]
    BY <2>1, <2>3
  <2>. QED  BY <2>2, <2>4 DEF Table
<1>12. TableIs(table', scenario.room, clock, F)
  <2>1. o = LookupData(table.neighbour_table, n).esd_offs
    BY <1>10 DEF State
  <2>2. TableIs(Table(Remove(table.neighbour_table, n), table.neighbour_ESD, Append(table.freeList, o)),
                scenario.room, clock, Others(E, n))
    BY <1>3, <1>4, <1>9, <2>1, TableRemoves
  <2>. QED  BY <1>5, <1>11, <2>2
<1>13. ScrubOK(F)'
  <2>1. CASE Len(q) = 1
    <3>1. scrub'.pc = "loop"
      BY <1>1, <1>3, <1>5, <2>1
    <3>. QED  BY <3>1 DEF ScrubOK
  <2>2. CASE Len(q) # 1
    <3>1. scrub'.pc = "remove" /\ scrub'.nodes = Tail(q)
      BY <1>1, <1>3, <1>5, <2>2
    <3>2. Tail(q) # <<>>
      <4>1. PICK l, r : l = Len(q) /\ r = Tail(q)
        OBVIOUS
      <4>2. l \in Nat \ {0} /\ l # 1 /\ Len(r) = l - 1
        BY <1>7, <2>2, <4>1
      <4>3. Len(r) # 0
        BY <4>2
      <4>. QED  BY <4>1, <4>3
    <3>3. ASSUME NEW a \in 1 .. Len(Tail(q)) PROVE SilentIn(F, Tail(q)[a], clock)
      <4>1. a + 1 \in 1 .. Len(q) /\ Tail(q)[a] = q[a + 1] /\ a + 1 # 1
        BY <1>7
      <4>2. q[a + 1] # n
        BY <1>6, <1>7, <4>1
      <4>3. SilentIn(E, q[a + 1], clock)
        BY <1>6, <4>1
      <4>. QED  BY <1>5, <4>1, <4>2, <4>3 DEF SilentIn, Others
    <3>4. \A a, b \in 1 .. Len(Tail(q)) : Tail(q)[a] = Tail(q)[b] => a = b
      BY <1>6, <1>7
    <3>5. AllSilent(Tail(q), F, clock)
      BY <1>7, <3>2, <3>3, <3>4 DEF AllSilent
    <3>. QED  BY <1>2, <3>1, <3>5 DEF ScrubOK
  <2>. QED  BY <2>1, <2>2
<1>14. TableOK' /\ HeardOK'
  BY <1>2, <1>3, <1>12, <1>13 DEF TableOK, HeardOK
<1>15. MapStep
  <2>1. Informs(I, table, E)
    BY <1>3, <1>4, <1>5, InformationIs
  <2>2. n \in DOMAIN I /\ I[n].heard = e[2].last_esd_received
    <3>1. DOMAIN I = Keys(E) /\ \A d \in E : I[d[1]] = KnownOf(table, d)
      BY <2>1 DEF Informs
    <3>2. e[1] \in Keys(E) /\ I[e[1]] = KnownOf(table, e)
      BY <3>1 DEF Keys
    <3>3. KnownOf(table, e).heard = e[2].last_esd_received
      BY DEF KnownOf
    <3>. QED  BY <1>8, <3>1, <3>2, <3>3
  <2>3. table'.neighbour_ESD = table.neighbour_ESD
    BY <1>11 DEF Table
  <2>4. Information(table') = Restrict(I, DOMAIN I \ {n})
    <3>1. TableIs(table', scenario.room, clock, Others(E, n))
      BY <1>5, <1>12
    <3>. QED  BY <1>3, <1>4, <1>5, <2>3, <3>1, InformationRest
  <2>. QED  BY <1>2, <1>5, <1>8, <2>2, <2>4, MapForgets
<1>. QED  BY <1>14, <1>15 DEF TableInv

\* The other threads leave the table alone.
LEMMA UnrelatedStep ==
    ASSUME DaemonInv, TableInv,
           \/ Transmitter \/ set_own_safety_data \/ EndOfWrite \/ get_neighbours \/ EndOfList \/ Dies
           \/ Sends \/ signalHandler
    PROVE  TableInv' /\ MapStep
<1>1. left \in [payloads : Seq(SUBSET Received), writes : Nat, lists : Nat, sends : Nat]
  BY DEF DaemonInv, BoundsOK
<1>2. /\ UNCHANGED tableVars
      /\ left' \in {left, [left EXCEPT !.sends = @ - 1], [left EXCEPT !.writes = @ - 1],
                    [left EXCEPT !.lists = @ - 1]}
  <2>1. CASE Transmitter
    BY <2>1 DEF Transmitter, TxLoop, TxSilent, TxTest, TxGenerate, TxPush, TxKeeps, tableVars
  <2>2. CASE set_own_safety_data \/ EndOfWrite
    BY <2>2 DEF set_own_safety_data, EndOfWrite, AppKeeps, bpVars, tableVars
  <2>3. CASE get_neighbours \/ EndOfList \/ Dies
    BY <2>3 DEF get_neighbours, EndOfList, Dies, AppKeeps, bpVars, tableVars
  <2>4. CASE Sends \/ signalHandler
    BY <2>4 DEF Sends, signalHandler, DaemonKeeps, memoryVars, bpVars, boundVars, tableVars
  <2>. QED  BY <2>1, <2>2, <2>3, <2>4
<1>3. left'.payloads = left.payloads
  BY <1>1, <1>2
<1>. QED  BY <1>2, <1>3, TableKept

\* BP delivers a payload.
LEMMA DeliveringStep ==
    ASSUME DaemonInv, TableInv, Delivers
    PROVE  TableInv' /\ MapStep
<1>1. UNCHANGED <<clock, table, scrub, rx, scenario>>
  BY DEF Delivers, DaemonKeeps, memoryVars
<1>2. PICK p \in Head(left.payloads) : inbox' = Append(inbox, p)
  BY DEF Delivers
<1>3. left.payloads # <<>> /\ left' = [left EXCEPT !.payloads = Tail(@)]
  BY DEF Delivers
<1>4. PICK q : q = left.payloads
  OBVIOUS
<1>5. inbox \in Seq(HeardSet) /\ q \in Seq(SUBSET HeardSet) /\ (rx.pc = "insert" => Record(rx.esd)) /\ TableOK
  BY <1>4 DEF TableInv, HeardOK
<1>6. Head(q) \in SUBSET HeardSet /\ Tail(q) \in Seq(SUBSET HeardSet)
  BY <1>3, <1>4, <1>5
<1>7. left'.payloads = Tail(q)
  BY <1>3, <1>4 DEF DaemonInv, BoundsOK
<1>8. inbox' \in Seq(HeardSet)
  <2>1. p \in HeardSet
    BY <1>2, <1>4, <1>6
  <2>. QED  BY <1>2, <1>5, <2>1
<1>9. HeardOK'
  BY <1>1, <1>5, <1>6, <1>7, <1>8 DEF HeardOK
<1>10. TableOK'
  BY <1>1, <1>5 DEF TableOK, ScrubOK
<1>11. UNCHANGED <<NodeInformation, clock, scenario.room>>
  BY <1>1 DEF NodeInformation
<1>. QED  BY <1>9, <1>10, <1>11 DEF TableInv, MapStep

\* Time passes.
LEMMA TickingStep ==
    ASSUME DaemonInv, TableInv, Tick
    PROVE  TableInv' /\ MapStep
<1>1. clock' = clock + 1 /\ UNCHANGED <<table, scrub, rx, inbox, left, scenario>>
  BY DEF Tick, DaemonKeeps, memoryVars, bpVars, boundVars
<1>2. HeardOK /\ clock \in Nat /\ scenario.room \in Nat
  BY ScenarioFacts DEF DaemonInv, Shapes, TableInv
<1>3. PICK E : TableIs(table, scenario.room, clock, E) /\ ScrubOK(E)
  BY DEF TableInv, TableOK
<1>4. PICK later : later = clock + 1 /\ later \in Nat /\ clock <= later /\ clock' = later
  BY <1>1, <1>2
<1>5. TableIs(table, scenario.room, later, E)
  BY <1>2, <1>3, <1>4, TableLater
<1>6. ScrubOK(E)'
  <2>1. ASSUME scrub.pc = "find" PROVE scrub.now \in Nat /\ scrub.now <= later
    BY <1>2, <1>3, <1>4, <2>1 DEF ScrubOK
  <2>2. \A e \in E : e[2].last_esd_received \in Nat
    BY <1>3 DEF TableIs, Owned, EntryOK
  <2>3. \A n : SilentIn(E, n, clock) => SilentIn(E, n, later)
    <3>1. ScrubbingTimeout \in Nat
      BY SrpAssumption
    <3>2. \A e \in E : clock - e[2].last_esd_received >= ScrubbingTimeout
                       => later - e[2].last_esd_received >= ScrubbingTimeout
      BY <1>2, <1>4, <2>2, <3>1
    <3>. QED  BY <3>2 DEF SilentIn
  <2>4. ASSUME scrub.pc = "remove" PROVE AllSilent(scrub.nodes, E, later)
    BY <1>3, <2>3, <2>4 DEF ScrubOK, AllSilent
  <2>. QED  BY <1>1, <1>4, <2>1, <2>4 DEF ScrubOK
<1>7. TableOK' /\ HeardOK'
  BY <1>1, <1>2, <1>4, <1>5, <1>6 DEF TableOK, HeardOK
<1>8. Map!Pass /\ UNCHANGED scenario.room
  BY <1>1, <1>2 DEF Map!Pass, NodeInformation
<1>9. MapStep
  BY <1>8 DEF MapStep, Map!MapNext
<1>. QED  BY <1>7, <1>9 DEF TableInv

\* All steps.
LEMMA TableStep ==
    ASSUME DaemonInv, TableInv, [Next]_vars
    PROVE  TableInv' /\ MapStep
<1>1. CASE UNCHANGED vars
  <2>1. UNCHANGED tableVars /\ left'.payloads = left.payloads
    BY <1>1 DEF vars, memoryVars, bpVars, boundVars, tableVars
  <2>. QED  BY <2>1, TableKept
<1>2. CASE Receiver
  BY <1>2, ReceivingStep, InsertingStep DEF Receiver
<1>3. CASE Scrubber
  BY <1>3, FindingStep, RemovingStep DEF Scrubber
<1>4. CASE Delivers \/ Tick
  BY <1>4, DeliveringStep, TickingStep
<1>5. CASE ~ (Receiver \/ Scrubber \/ Delivers \/ Tick \/ UNCHANGED vars)
  BY <1>5, UnrelatedStep DEF Next
<1>. QED  BY <1>1, <1>2, <1>3, <1>4, <1>5

\* The tree of the table is as it should be.
LEMMA TableIsWellFormed ==
    ASSUME DaemonInv, TableInv
    PROVE  TreeIsAvl
<1>1. PICK E : TableIs(table, scenario.room, clock, E)
  BY DEF TableInv, TableOK
<1>2. Holds(table.neighbour_table, scenario.room, E) /\ scenario.room \in Nat
  BY <1>1, ScenarioFacts DEF DaemonInv, TableIs
<1>3. WellFormed(table.neighbour_table)
  BY <1>2, HoldsWellFormed
<1>. QED  BY <1>3 DEF TreeIsAvl

SrpInv == DaemonInv /\ TableInv

\* The invariant.
THEOREM SrpInvariance == Spec => []SrpInv
<1>1. Init => SrpInv
  BY DaemonInit, TableInit DEF SrpInv
<1>2. SrpInv /\ [Next]_vars => SrpInv'
  BY DaemonStep, TableStep DEF SrpInv
<1>. QED  BY <1>1, <1>2, PTL DEF Spec

\* Records keep their shapes, mutexes their holders, and the tree stays ordered and
\* balanced, whatever comes and goes.  (TypeOK)
THEOREM ShapesAreKept == Spec => []TypeOK
<1>1. SrpInv => TypeOK
  BY TableIsWellFormed DEF SrpInv, DaemonInv, TypeOK
<1>. QED  BY <1>1, SrpInvariance, PTL

\* What is generated is current, and newer than what was sent.  (GeneratesCurrentData)
THEOREM GeneratedIsCurrent == Spec => []GeneratesCurrentData
<1>1. SrpInv => GeneratesCurrentData
  BY DEF SrpInv, DaemonInv, OwnDataOK, PayloadsOK, GeneratesCurrentData
<1>. QED  BY <1>1, SrpInvariance, PTL

\* The table implements the map of the neighbours.  (TableIsMap)
THEOREM TableImplementsMap == Spec => TableIsMap
<1>1. Init => Map!MapInit
  <2> SUFFICES ASSUME Init PROVE Map!MapInit
    OBVIOUS
  <2>1. DaemonInv /\ scenario.room \in Nat
    BY DaemonInit, ScenarioFacts DEF DaemonInv
  <2>2. NodeInformation = [n \in {} |-> 0]
    BY <2>1, TableInit DEF NodeInformation
  <2>3. NodeInformation = << >>
    BY <2>2
  <2>. QED  BY <2>1, <2>3 DEF Init, Map!MapInit
<1>2. SrpInv /\ [Next]_vars => [Map!MapNext]_<<NodeInformation, clock, scenario.room>>
  BY TableStep DEF SrpInv, MapStep
<1>. QED  BY <1>1, <1>2, SrpInvariance, PTL DEF Spec, TableIsMap, Map!MapSpec

=============================================================================

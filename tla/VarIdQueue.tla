------------------------------ MODULE VarIdQueue ------------------------------
(***************************************************************************)
(* The queue of variable identifiers that Vardis keeps for each kind of    *)
(* instruction record (class VarIdQueue).  The class pairs a deque with    *)
(* the set of its members; the sequence below is the deque and Members is  *)
(* the set, which insert and remove keep equal to the deque's elements.    *)
(***************************************************************************)
EXTENDS Integers, Sequences

Members(q) == {q[i] : i \in DOMAIN q}

Contains(q, v) == v \in Members(q)

\* The queues over S: sequences in which no identifier occurs twice.
IsVarIdQueue(q, S) ==
    /\ q \in Seq(S)
    /\ \A i, j \in DOMAIN q : q[i] = q[j] => i = j

\* Mutant of Insert: members is not looked at.
InsertAgain(q, v) == Append(q, v)

Insert(q, v) == IF Contains(q, v) THEN q ELSE Append(q, v)

Remove(q, v) ==
    IF ~ Contains(q, v) THEN q
    ELSE LET p == CHOOSE i \in DOMAIN q : q[i] = v
         IN  [i \in 1 .. Len(q) - 1 |-> IF i < p THEN q[i] ELSE q[i + 1]]

PopFront(q) == Remove(q, Head(q))

=============================================================================

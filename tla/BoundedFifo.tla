------------------------------ MODULE BoundedFifo ------------------------------
(***************************************************************************)
(* What the queues in shared memory promise to the processes at both ends: *)
(* first in, first out, never more than Capacity items, each item taken    *)
(* once.  Only a forced put into a full queue loses an item, the oldest.   *)
(***************************************************************************)
EXTENDS Integers, Sequences

CONSTANTS Item, Capacity

VARIABLE contents

Init == contents = <<>>

Put(x) == Len(contents) < Capacity /\ contents' = Append(contents, x)

PutForced(x) == Len(contents) = Capacity /\ contents' = Append(Tail(contents), x)

\* The oldest items go, whether they are taken, dropped or discarded.
Take == \E n \in 1 .. Len(contents) : contents' = SubSeq(contents, n + 1, Len(contents))

Next == (\E x \in Item : Put(x) \/ PutForced(x)) \/ Take

Spec == Init /\ [][Next]_contents

=============================================================================

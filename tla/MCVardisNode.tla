---------------------------- MODULE MCVardisNode ----------------------------
(***************************************************************************)
(* Small instances of VardisNode.  Variable 1 is produced by the node n1,  *)
(* variable 2 by this node, me.  Records and requests are chosen so that   *)
(* they meet: old, equal, newer and incomparable sequence numbers, equal   *)
(* and later creation times, own and foreign identifiers.                  *)
(***************************************************************************)
EXTENDS VardisNode

CONSTANTS me, n1, va

MCValueLen  == [x \in Value |-> 1]
MCFixedSize == [k \in ICType |-> CASE k = "create" -> 3 [] k = "update" -> 2 [] OTHER -> 1]
MCInitial   == [prodId |-> me, repCnt |-> 0, creationTime |-> 0, timeout |-> 0,
                seqno |-> 0, tStamp |-> 0, count |-> OnlyCount("create", 0),
                isDeleted |-> FALSE, descr |-> 0, value |-> va]

\* Payloads of one record, and of two containers.
One(k, S) == {<<[type |-> k, recs |-> <<r>>]>> : r \in S}
Two(k, R, l, S) == {<<[type |-> k, recs |-> <<r>>], [type |-> l, recs |-> <<s>>]>> :
                      r \in R, s \in S}

Created(v, ts, timeout, reps) ==
    {[varId |-> v, prodId |-> n1, repCnt |-> reps, creationTime |-> t,
      timeout |-> timeout, descr |-> 1, seqno |-> 1, value |-> va] : t \in ts}

Updated(v, seqnos) == {[varId |-> v, seqno |-> n, value |-> va] : n \in seqnos}
Known(v, seqnos)   == {[varId |-> v, seqno |-> n] : n \in seqnos}
Named(v)           == {[varId |-> v]}

\* Everything that can be said about the variable of the neighbour.
ForeignPayloads ==
    One("create", Created(1, {1, 2}, 0, 1)) \cup One("delete", Named(1))
    \cup One("update", Updated(1, {0, 2, 3})) \cup One("summary", Known(1, {0, 2}))
    \cup One("reqUpd", Known(1, {0, 1})) \cup One("reqCreate", Named(1))

\* What a neighbour can say about the variable of this node.
OwnPayloads ==
    One("create", Created(2, {1}, 0, 1)) \cup One("delete", Named(2))
    \cup One("update", Updated(2, {1})) \cup One("summary", Known(2, {1}))
    \cup One("reqUpd", Known(2, {0})) \cup One("reqCreate", Named(2))

ForeignAndTwo == ForeignPayloads \cup
    Two("summary", Known(1, {2}), "update", Updated(1, {2})) \cup
    Two("create", Created(1, {1}, 0, 1), "summary", Known(1, {1}))

\* A variable that the scrubber can remove, and what keeps it alive.
TimedPayloads == One("create", Created(1, {1}, 1, 1)) \cup One("update", Updated(1, {2}))

\* Two variables at once, each repeated twice, then news about either of them.
ManyPayloads ==
    {<<[type |-> "create", recs |-> <<r, s>>]>> : r \in Created(1, {1}, 1, 2),
                                                  s \in Created(2, {1}, 0, 2)}
    \cup One("update", Updated(1, {2})) \cup One("reqCreate", Named(2))

ForeignAndMany == ForeignAndTwo \cup ManyPayloads

AllPayloads == ForeignAndTwo \cup OwnPayloads

\* Requests of the local applications.
CreateWith(v, reps, timeouts, descrs) ==
    [varId : {v}, repCnt : reps, timeout : timeouts, descr : descrs, value : Value]

CreateOwn == CreateWith(2, {1}, {0}, {0, 1})
CreateTimed == CreateWith(2, {2}, {0, 1}, {1})
UpdateOwn == [varId : {2}, value : Value]
DeleteOwn == [varId : {2}]

=============================================================================

--------------------------- MODULE MCVardisNetwork ---------------------------
(***************************************************************************)
(* Networks of up to three nodes.  The bytes of the records are those of   *)
(* the transmissible types.                                                *)
(***************************************************************************)
EXTENDS VardisNetwork

CONSTANTS a, b, c

MCFixedSize == [k \in ICType |-> CASE k = "create" -> 22 [] k = "update" -> 3
                                   [] k \in {"summary", "reqUpd"} -> 2 [] OTHER -> 1]
LongValues  == [x \in Value |-> 8]
ShortValues == [x \in Value |-> 1]
MCInitial   == [prodId |-> a, repCnt |-> 0, creationTime |-> 0, timeout |-> 0, seqno |-> 0,
                tStamp |-> 0, count |-> OnlyCount("create", 0), isDeleted |-> FALSE,
                descr |-> 0, value |-> [born |-> 0, n |-> 0]]

\* Links in both directions.
Both(S) == S \cup {<<l[2], l[1]>> : l \in S}
Pair == Both({<<a, b>>})
Line == Both({<<a, b>>, <<b, c>>})
Triangle == Both({<<a, b>>, <<b, c>>, <<a, c>>})

\* Variable 1 is produced by a, variable 2 by b.
Net(nodes, links, variables, updates, deletes, lost, crashing, time) ==
    [nodes |-> nodes, links |-> links, vars |-> variables, producer |-> [v \in VarId |-> IF v = 1 THEN a ELSE b],
     updates |-> updates, deletes |-> deletes, losses |-> lost, crashing |-> crashing,
     time |-> time, repCnt |-> 1]

Hops    == Net({a, b, c}, Line, {1}, 1, FALSE, 2, {b}, 0)
Mesh    == Net({a, b, c}, Triangle, {1}, 2, FALSE, 1, {}, 0)
Forget  == Net({a, b}, Pair, {1}, 2, FALSE, 3, {b}, 0)
Gone    == Net({a, b, c}, Triangle, {1}, 2, TRUE, 0, {}, 0)
Lossy   == Net({a, b, c}, Line, {1}, 1, TRUE, 1, {c}, 0)
Reborn  == Net({a, b}, Pair, {1}, 1, TRUE, 0, {a}, 2)
Two     == Net({a, b}, Pair, {1, 2}, 1, FALSE, 1, {}, 0)
BothGone == Net({a, b, c}, Line, {1, 2}, 0, TRUE, 0, {}, 0)

MCScenarios == {Hops, Mesh, Forget, Gone, Lossy, Reborn, Two, BothGone}

\* Two variables in a medium that loses nothing.
TwoVariables == {Net({a, b}, Pair, {1, 2}, 1, FALSE, 0, {}, 0)}

\* A variable that is deleted and created again, and two ways for what is said of it.
Rebirth == {Net({a, b, c}, Triangle, {1}, 1, TRUE, 0, {}, 1)}

=============================================================================

---------------------------- MODULE MCSwarmNetwork ----------------------------
(* Small networks for SwarmNetwork. *)
EXTENDS SwarmNetwork

Both(l) == l \cup {<<p[2], p[1]>> : p \in l}

Plain ==
    [nodes |-> {1, 2}, links |-> Both({<<1, 2>>}), variable |-> [n \in NodeId |-> n],
     producers |-> {1}, repCnt |-> 2, updates |-> 3, losses |-> 2, srpEnabled |-> FALSE,
     time |-> 0]

\* Two producers whose records do not fit into one beacon.
Two == [Plain EXCEPT !.producers = {1, 2}, !.updates = 1, !.losses = 0]

\* A line of three nodes, and a triangle, where old records come in over two ways.
Line == [Plain EXCEPT !.nodes = {1, 2, 3}, !.links = Both({<<1, 2>>, <<2, 3>>}),
                      !.repCnt = 1, !.updates = 1, !.losses = 1]
Triangle == [Line EXCEPT !.links = Both({<<1, 2>>, <<2, 3>>, <<1, 3>>}), !.updates = 2, !.losses = 0]

\* A repetition count of 0: sent once all the same.
Zero == [Plain EXCEPT !.repCnt = 0, !.updates = 2, !.losses = 1]

\* State reports, and neighbours that become stale.
Reports == [Plain EXCEPT !.srpEnabled = TRUE, !.repCnt = 1, !.updates = 0, !.losses = 1,
                         !.time = 2]

AllScenarios == {Plain, Two, Line, Triangle, Zero, Reports}

NatValue == Nat
=============================================================================

----------------------------- MODULE MCSrpNode -----------------------------
(***************************************************************************)
(* Six nodes, and what happens to the daemon of the one in the middle of  *)
(* the order of their identifiers.                                         *)
(***************************************************************************)
EXTENDS SrpNode

MCNodeId == 1 .. 6

From(nodes, seqnos) == [nodeId : nodes, seqno : seqnos]

Use(room, heard, unread, writing, lists, sends, dies, stops, time) ==
    [room |-> room, heard |-> heard, inbox |-> unread, writes |-> writing, lists |-> lists,
     sends |-> sends, dies |-> dies, stops |-> stops, time |-> time]

\* Five neighbours come in orders that make the tree rotate in all ways.
Arrivals == <<From({1, 6}, {0}), From({2, 5}, {0}), From({1, 4, 5}, {0}),
              From({2, 4}, {0}), From({1, 6}, {0})>>

\* Three neighbours fill the table, then a fourth or one of them is heard.
Fill == <<From({1, 2}, {0}), From({4}, {0}), From({5}, {0}), From({1, 2, 4, 5}, {0}), From({1, 2}, {1})>>

\* Two neighbours, one of them with a newer record, the own node, and a wrong length.
Mixed == From({1}, {0, 1}) \cup From({3, 5}, {0}) \cup {WrongLength}
Noise == <<Mixed, Mixed, From({1}, {1}) \cup From({5}, {0})>>

Crowd   == Use(5, Arrivals, 1, 0, 0, 0, FALSE, FALSE, 1)
Full    == Use(3, Fill, 1, 0, 0, 0, FALSE, FALSE, 1)
Chatter == Use(3, Noise, 2, 0, 1, 0, TRUE, FALSE, 2)
Report  == Use(3, <<>>, 0, 2, 0, 3, TRUE, TRUE, 2)

MCScenarios == {Crowd, Full, Chatter, Report}

=============================================================================

--------------------------- MODULE RealTimeDatabase ---------------------------
(***************************************************************************)
(* What a Vardis entity promises about its variables, whatever records and *)
(* requests arrive in whatever order: a variable is created, takes newer   *)
(* and newer values, is deleted, and its identifier comes back only for    *)
(* another variable, created later.  No step touches two variables.        *)
(* VardisNode implements this specification.                               *)
(***************************************************************************)
EXTENDS VardisSeqno

CONSTANTS Me, NodeId, VarId

VARIABLE rtdb      \* [VarId -> [state, producer, created, seqno]]

Init == \A v \in VarId : rtdb[v].state = "unknown"

Set(v, e) == rtdb' = [rtdb EXCEPT ![v] = e]

Live(producer, created, seqno) ==
    [state |-> "live", producer |-> producer, created |-> created, seqno |-> seqno]

\* Over another variable of the same identifier, dead or alive, a received
\* VarCreate record needs a later creation time.  The local applications can
\* replace what they have created themselves, within the same millisecond even.
Create(v) ==
    LET old == rtdb[v]
        new == rtdb'[v]
    IN  /\ \/ old.state = "unknown"
           \/ new.producer \in NodeId \ {Me} /\ new.created > old.created
           \/ /\ old.producer = Me /\ new.producer = Me
              /\ new.created >= old.created /\ new.seqno = 0
        /\ Set(v, Live(new.producer, new.created, new.seqno))

\* The producer counts its updates, the consumers never step back.
Update(v) ==
    LET old == rtdb[v]
        seqno == rtdb'[v].seqno
    IN  /\ old.state = "live"
        /\ IF old.producer = Me THEN seqno = NextSeqno(old.seqno)
           ELSE seqno # old.seqno /\ ~ more_recent_seqno(old.seqno, seqno)
        /\ Set(v, Live(old.producer, old.created, seqno))

Delete(v) ==
    /\ rtdb[v].state = "live"
    /\ Set(v, [rtdb[v] EXCEPT !.state = "deleted"])

Next == \E v \in VarId : Create(v) \/ Update(v) \/ Delete(v)

Spec == Init /\ [][Next]_rtdb

=============================================================================

------------------------------ MODULE SrpNode ------------------------------
(***************************************************************************)
(* The daemon of the State Reporting Protocol: its receiver, which puts    *)
(* the safety data of neighbours into a table, its scrubber, which takes   *)
(* silent neighbours out again, and its transmitter, which hands the own   *)
(* safety data to the beaconing protocol; and an application, which writes *)
(* the own safety data and lists the neighbours.  Daemon and application   *)
(* share the SRP store in shared memory, under two mutexes.  The flag      *)
(* srp_isActive is TRUE from the start, and nothing changes it.  The       *)
(* estimate of the gap between sequence numbers, which no code reads to    *)
(* decide anything, is left out.                                           *)
(***************************************************************************)
EXTENDS AvlTree, Functions

CONSTANTS
    NodeId,               \* node identifiers, ordered
    OwnNodeId,
    KeepaliveTimeout,     \* srpKeepaliveTimeoutMS
    ScrubbingTimeout,     \* srpScrubbingTimeoutMS
    Scenarios             \* what happens to the daemon, see SrpAssumption

ESD == [nodeId : NodeId, seqno : Nat]

\* A payload BP delivers that is no ExtendedSafetyDataT.
WrongLength == [nodeId |-> Null, seqno |-> 0]

ASSUME SrpAssumption ==
    /\ NodeId \subseteq Nat /\ OwnNodeId \in NodeId
    /\ KeepaliveTimeout \in Nat \ {0} /\ ScrubbingTimeout \in Nat \ {0}
    /\ \A s \in Scenarios :
        /\ s.room \in Nat \ {0}                           \* maxNeighbours
        /\ s.heard \in Seq(SUBSET (ESD \cup {WrongLength}))   \* what the next payload may be
        /\ s.inbox \in Nat                     \* bound on the payloads SRP has not read
        /\ s.writes \in Nat /\ s.lists \in Nat /\ s.sends \in Nat /\ s.time \in Nat  \* bounds
        /\ s.dies \in BOOLEAN /\ s.stops \in BOOLEAN

VARIABLES
    clock,
    own,               \* global_state: the own safety data and what belongs to it
    table,             \* neighbour_table, neighbour_ESD, freeList
    sd_mutex, table_mutex,
    rx, tx, scrub, app,   \* the threads of the daemon and the application
    srp_exitFlag,
    inbox,             \* payloads delivered by BP
    buffer,            \* buffer of BP for the payload to be sent
    sent,              \* the last payload BP has sent
    writes,            \* the times at which the application has written own safety data
    left,              \* what is left of the bounds of the scenario
    scenario           \* constant

memoryVars == <<own, table, sd_mutex, table_mutex>>
bpVars     == <<inbox, buffer, sent>>
boundVars  == <<left, scenario>>
vars == <<clock, memoryVars, rx, tx, scrub, app, srp_exitFlag, bpVars, writes, boundVars>>

(***************************************************************************)
(* The SRP store.                                                          *)
(***************************************************************************)
\* Mutant of MayLock: nobody locks.
MayLockAlways(mutex) == TRUE

\* The daemon locks with ScopedNeighbourTableMutex and ScopedOwnSDMutex.
MayLock(mutex) == mutex = "free"

NeighbourState(offs) == [esd_offs |-> offs, last_esd_received |-> clock]

initialize_srp_store(size) ==
    /\ own = [own_sd |-> 0, last_own_sd_write |-> clock, own_sd_written |-> FALSE, next_seqno |-> 0]
    /\ table = [neighbour_table |-> Empty(size, OwnNodeId, NeighbourState(0)),
                neighbour_ESD   |-> [i \in 0 .. size - 1 |-> WrongLength],
                freeList        |-> [i \in 1 .. size |-> i - 1]]

Known(n) == IsMember(table.neighbour_table, n)
State(n) == LookupData(table.neighbour_table, n)

\* freeList.pop throws when there is no buffer for a new neighbour.
InsertThrows(esd) == ~ Known(esd.nodeId) /\ table.freeList = <<>>

\* Mutant of insert_esd_entry: a known neighbour is inserted again, which a full
\* tree ignores.
InsertAgain(esd) ==
    LET offs == IF Known(esd.nodeId) THEN State(esd.nodeId).esd_offs ELSE Head(table.freeList)
    IN  table' = [neighbour_ESD   |-> [table.neighbour_ESD EXCEPT ![offs] = esd],
                  freeList        |-> IF Known(esd.nodeId) THEN table.freeList ELSE Tail(table.freeList),
                  neighbour_table |-> Insert(table.neighbour_table, esd.nodeId, NeighbourState(offs))]

\* The state of a known neighbour is updated where it is; a new one gets a buffer.
insert_esd_entry(esd) ==
    LET n    == esd.nodeId
        offs == IF Known(n) THEN State(n).esd_offs ELSE Head(table.freeList)
        Put(t, key, data) == IF Known(n) THEN AssignData(t, key, data) ELSE Insert(t, key, data)
    IN  table' = [neighbour_ESD   |-> [table.neighbour_ESD EXCEPT ![offs] = esd],
                  freeList        |-> IF Known(n) THEN table.freeList ELSE Tail(table.freeList),
                  neighbour_table |-> Put(table.neighbour_table, n, NeighbourState(offs))]

remove_esd_entry(n) ==
    table' = [table EXCEPT !.freeList = Append(@, State(n).esd_offs),
                           !.neighbour_table = Remove(@, n)]

MillisecondsPassed(now, past) == IF now < past THEN 0 ELSE now - past

SilentAt(now, node) == MillisecondsPassed(now, node.data.last_esd_received) >= ScrubbingTimeout

find_nodes_to_scrub(now) ==
    LET nodes == table.neighbour_table.nodes
        found == FindMatchingData(table.neighbour_table, {i \in DOMAIN nodes : SilentAt(now, nodes[i])})
    IN  [k \in 1 .. Len(found) |-> nodes[found[k]].key]

\* What an application gets to know of the neighbours in a table.
Information(tb) ==
    LET nodes == tb.neighbour_table.nodes
        found == Range(FindMatchingData(tb.neighbour_table, DOMAIN nodes))
        Of(n) == CHOOSE i \in found : nodes[i].key = n
    IN  [n \in {nodes[i].key : i \in found} |->
            [esd   |-> tb.neighbour_ESD[nodes[Of(n)].data.esd_offs],
             heard |-> nodes[Of(n)].data.last_esd_received]]

NodeInformation == Information(table)

(***************************************************************************)
(* Receiver.  The exit flag is looked at when nothing has been received    *)
(* for a while and after the last payload there is.                        *)
(***************************************************************************)
NextPayload(more) == IF more THEN "wait" ELSE "loop"

RxKeeps == UNCHANGED <<clock, own, sd_mutex, tx, scrub, app, buffer, sent, writes, boundVars>>

RxLoop ==
    /\ rx.pc = "loop"
    /\ rx' = [rx EXCEPT !.pc = IF srp_exitFlag THEN "ended" ELSE "wait"]
    /\ UNCHANGED <<table, table_mutex, srp_exitFlag, inbox>> /\ RxKeeps

RxTimedOut ==
    /\ rx.pc = "wait" /\ inbox = <<>> /\ srp_exitFlag
    /\ rx' = [rx EXCEPT !.pc = "loop"]
    /\ UNCHANGED <<table, table_mutex, srp_exitFlag, inbox>> /\ RxKeeps

\* Payloads of another length and the own ones are passed over.
RxReceive ==
    /\ rx.pc = "wait" /\ inbox # <<>>
    /\ inbox' = Tail(inbox)
    /\ LET more == Tail(inbox) # <<>>
       IN  rx' = IF Head(inbox) = WrongLength \/ Head(inbox).nodeId = OwnNodeId
                 THEN [rx EXCEPT !.pc = NextPayload(more)]
                 ELSE [pc |-> "insert", esd |-> Head(inbox), more |-> more]
    /\ UNCHANGED <<table, table_mutex, srp_exitFlag>> /\ RxKeeps

\* Where the receiver goes on when it gets the mutex.
Inserted ==
    /\ rx.pc = "insert" /\ MayLock(table_mutex)
    /\ rx' = IF InsertThrows(rx.esd) THEN [rx EXCEPT !.pc = "ended"]
             ELSE [rx EXCEPT !.pc = NextPayload(rx.more), !.esd = WrongLength]

RxInsert ==
    /\ Inserted
    /\ \/ ~ InsertThrows(rx.esd) /\ insert_esd_entry(rx.esd) /\ UNCHANGED srp_exitFlag
       \/ InsertThrows(rx.esd) /\ srp_exitFlag' = TRUE /\ UNCHANGED table
    /\ UNCHANGED <<table_mutex, inbox>> /\ RxKeeps

(***************************************************************************)
(* Scrubber.  The time is read before the mutex is acquired.               *)
(***************************************************************************)
ScrubKeeps ==
    UNCHANGED <<clock, own, sd_mutex, rx, tx, app, srp_exitFlag, bpVars, writes, boundVars>>

ScrubLoop ==
    /\ scrub.pc = "loop"
    /\ scrub' = IF srp_exitFlag THEN [scrub EXCEPT !.pc = "ended"]
                ELSE [scrub EXCEPT !.pc = "find", !.now = clock]
    /\ UNCHANGED <<table, table_mutex>> /\ ScrubKeeps

ScrubFind ==
    /\ scrub.pc = "find" /\ MayLock(table_mutex)
    /\ LET found == find_nodes_to_scrub(scrub.now)
       IN  IF found = <<>>
           THEN scrub' = [scrub EXCEPT !.pc = "loop", !.now = 0] /\ UNCHANGED table_mutex
           ELSE scrub' = [pc |-> "remove", now |-> 0, nodes |-> found] /\ table_mutex' = "scrub"
    /\ UNCHANGED table /\ ScrubKeeps

Removed ==
    /\ scrub.pc = "remove"
    /\ scrub' = [scrub EXCEPT !.pc = IF Len(scrub.nodes) = 1 THEN "loop" ELSE @, !.nodes = Tail(@)]

\* Mutant of ScrubRemove: the mutex is kept.
ScrubRemoveLocked == Removed /\ remove_esd_entry(Head(scrub.nodes)) /\ UNCHANGED table_mutex /\ ScrubKeeps

ScrubRemove ==
    /\ Removed
    /\ remove_esd_entry(Head(scrub.nodes))
    /\ table_mutex' = IF Len(scrub.nodes) = 1 THEN "free" ELSE table_mutex
    /\ ScrubKeeps

(***************************************************************************)
(* Transmitter.  It holds the mutex of the own safety data from its look   *)
(* at them until it has handed the payload to BP.  It reads the clock for  *)
(* the keepalive time-out and once more for the time stamp: time may pass  *)
(* in between.  The queueing mode is ONCE: the buffer is reset, which      *)
(* leaves has_data, and push_wait waits while that is set.                 *)
(***************************************************************************)
TxKeeps == UNCHANGED <<clock, table, table_mutex, rx, scrub, app, inbox, sent, writes, scenario>>

\* The exit flag is looked at before the thread sleeps.
TxLoop ==
    /\ tx.pc = "loop"
    /\ tx' = [tx EXCEPT !.pc = IF srp_exitFlag THEN "ended" ELSE "lock"]
    /\ UNCHANGED <<own, sd_mutex, srp_exitFlag, buffer, left>> /\ TxKeeps

Silent == MillisecondsPassed(clock, own.last_own_sd_write) >= KeepaliveTimeout

\* Nothing has been written, or nothing for too long.
TxSilent ==
    /\ tx.pc = "lock" /\ MayLock(sd_mutex)
    /\ own.own_sd_written => Silent
    /\ tx' = [tx EXCEPT !.pc = "loop"]
    /\ own' = [own EXCEPT !.own_sd_written = FALSE]
    /\ UNCHANGED <<sd_mutex, srp_exitFlag, buffer, left>> /\ TxKeeps

TxTest ==
    /\ tx.pc = "lock" /\ MayLock(sd_mutex)
    /\ own.own_sd_written /\ ~ Silent
    /\ left.sends > 0
    /\ tx' = [tx EXCEPT !.pc = "generate", !.tested = clock]
    /\ sd_mutex' = "tx"
    /\ left' = [left EXCEPT !.sends = @ - 1]
    /\ UNCHANGED <<own, srp_exitFlag, buffer>> /\ TxKeeps

TxGenerate ==
    /\ tx.pc = "generate"
    /\ tx' = [tx EXCEPT !.pc = "push",
                        !.payload = [safetyData |-> own.own_sd, seqno |-> own.next_seqno,
                                     timeStamp |-> clock]]
    /\ own' = [own EXCEPT !.next_seqno = @ + 1]
    /\ buffer' = [buffer EXCEPT !.items = <<>>]
    /\ UNCHANGED <<sd_mutex, srp_exitFlag, left>> /\ TxKeeps

\* The push succeeds, or has_data is set and the wait for its end times out.
TxPush ==
    /\ tx.pc = "push"
    /\ sd_mutex' = "free"
    /\ \/ /\ ~ buffer.has_data
          /\ buffer' = [has_data |-> TRUE, items |-> <<tx.payload>>]
          /\ tx' = [tx EXCEPT !.pc = "loop"]
          /\ UNCHANGED srp_exitFlag
       \/ /\ buffer.has_data
          /\ srp_exitFlag' = TRUE
          /\ tx' = [tx EXCEPT !.pc = "ended"]
          /\ UNCHANGED buffer
    /\ UNCHANGED <<own, left>> /\ TxKeeps

(***************************************************************************)
(* The application, with the client library.  It may die while it holds a  *)
(* mutex, and then nobody releases it.                                     *)
(***************************************************************************)
AppKeeps ==
    UNCHANGED <<clock, table, rx, tx, scrub, srp_exitFlag, bpVars, scenario>>

set_own_safety_data ==
    /\ app = "off" /\ MayLock(sd_mutex) /\ left.writes > 0
    /\ app' = "writing" /\ sd_mutex' = "app"
    /\ own' = [own EXCEPT !.own_sd = Len(writes) + 1]
    /\ left' = [left EXCEPT !.writes = @ - 1]
    /\ UNCHANGED <<table_mutex, writes>> /\ AppKeeps

EndOfWrite ==
    /\ app = "writing"
    /\ app' = "off" /\ sd_mutex' = "free"
    /\ own' = [own EXCEPT !.last_own_sd_write = clock, !.own_sd_written = TRUE]
    /\ writes' = Append(writes, clock)
    /\ UNCHANGED <<table_mutex, left>> /\ AppKeeps

get_neighbours ==
    /\ app = "off" /\ MayLock(table_mutex) /\ left.lists > 0
    /\ app' = "listing" /\ table_mutex' = "app"
    /\ left' = [left EXCEPT !.lists = @ - 1]
    /\ UNCHANGED <<own, sd_mutex, writes>> /\ AppKeeps

EndOfList ==
    /\ app = "listing"
    /\ app' = "off" /\ table_mutex' = "free"
    /\ UNCHANGED <<own, sd_mutex, writes, left>> /\ AppKeeps

Dies ==
    /\ scenario.dies /\ app \in {"writing", "listing"}
    /\ app' = "dead"
    /\ UNCHANGED <<own, sd_mutex, table_mutex, writes, left>> /\ AppKeeps

(***************************************************************************)
(* The beaconing protocol, time, and signals.                              *)
(***************************************************************************)
DaemonKeeps == UNCHANGED <<memoryVars, rx, tx, scrub, app, writes>>

Delivers ==
    /\ left.payloads # <<>> /\ Len(inbox) < scenario.inbox
    /\ \E p \in Head(left.payloads) : inbox' = Append(inbox, p)
    /\ left' = [left EXCEPT !.payloads = Tail(@)]
    /\ UNCHANGED <<clock, srp_exitFlag, buffer, sent, scenario>> /\ DaemonKeeps

\* The next beacon takes the payload.  A buffer that has been reset ends BP.
Sends ==
    /\ buffer.has_data /\ buffer.items # <<>>
    /\ sent' = Head(buffer.items)
    /\ buffer' = [has_data |-> FALSE, items |-> <<>>]
    /\ UNCHANGED <<clock, srp_exitFlag, inbox, boundVars>> /\ DaemonKeeps

Tick ==
    /\ clock < scenario.time
    /\ clock' = clock + 1
    /\ UNCHANGED <<srp_exitFlag, bpVars, boundVars>> /\ DaemonKeeps

signalHandler ==
    /\ scenario.stops /\ ~ srp_exitFlag
    /\ srp_exitFlag' = TRUE
    /\ UNCHANGED <<clock, bpVars, boundVars>> /\ DaemonKeeps

Init ==
    /\ clock = 0 /\ scenario \in Scenarios
    /\ initialize_srp_store(scenario.room)
    /\ sd_mutex = "free" /\ table_mutex = "free"
    /\ rx = [pc |-> "loop", esd |-> WrongLength, more |-> FALSE]
    /\ tx = [pc |-> "loop", tested |-> 0,
             payload |-> [safetyData |-> 0, seqno |-> -1, timeStamp |-> 0]]
    /\ scrub = [pc |-> "loop", now |-> 0, nodes |-> <<>>]
    /\ app = "off" /\ srp_exitFlag = FALSE
    /\ inbox = <<>> /\ buffer = [has_data |-> FALSE, items |-> <<>>]
    /\ sent = [safetyData |-> 0, seqno |-> -1, timeStamp |-> 0]
    /\ writes = <<>>
    /\ left = [payloads |-> scenario.heard, writes |-> scenario.writes,
               lists |-> scenario.lists, sends |-> scenario.sends]

Receiver    == RxLoop \/ RxTimedOut \/ RxReceive \/ RxInsert
Scrubber    == ScrubLoop \/ ScrubFind \/ ScrubRemove
Transmitter == TxLoop \/ TxSilent \/ TxTest \/ TxGenerate \/ TxPush

Next ==
    \/ Receiver \/ Scrubber \/ Transmitter
    \/ set_own_safety_data \/ EndOfWrite \/ get_neighbours \/ EndOfList \/ Dies
    \/ Delivers \/ Sends \/ Tick \/ signalHandler

Spec == Init /\ [][Next]_vars

\* Threads run, time passes, and an application that lives ends its calls.  For the
\* receiver and the scrubber it is enough to say where they go on.
Fairness ==
    /\ WF_rx(RxLoop \/ RxTimedOut \/ RxReceive \/ Inserted)
    /\ WF_scrub(ScrubLoop \/ ScrubFind \/ Removed)
    /\ WF_vars(EndOfWrite) /\ WF_vars(EndOfList) /\ WF_vars(Tick)

FairSpec == Spec /\ Fairness

-----------------------------------------------------------------------------

(***************************************************************************)
(* The tree, the buffers and the free lists together are a map of the      *)
(* neighbours: each entry has a buffer of its own, which holds the last    *)
(* record of that neighbour; only scrubbing removes entries, and only of   *)
(* neighbours that have been silent for the timeout, however long a thread *)
(* has waited for the mutex (insert_esd_entry, remove_esd_entry and        *)
(* find_nodes_to_scrub with FixedMemAVLTree).                              *)
(***************************************************************************)
HeardSet == UNION {UNION Range(s.heard) : s \in Scenarios}

Map == INSTANCE NeighbourMap WITH
    Neighbour <- NodeId \ {OwnNodeId}, Record <- HeardSet, Timeout <- ScrubbingTimeout,
    known <- NodeInformation, room <- scenario.room

TableIsMap == Map!MapSpec

(***************************************************************************)
(* A payload is generated from the own safety data the application has     *)
(* completely written last, no later than its time stamp and less than the *)
(* keepalive timeout before the transmitter has tested that, and BP has    *)
(* not sent it, nor a later one, before.  The time stamp itself may be     *)
(* beyond the timeout (transmitter_thread and                              *)
(* SRPClientRuntime::set_own_safety_data).                                 *)
(***************************************************************************)
GeneratesCurrentData ==
    tx.pc = "push" =>
        /\ writes # <<>> /\ tx.payload.safetyData = Len(writes)
        /\ writes[Len(writes)] <= tx.tested /\ tx.tested <= tx.payload.timeStamp
        /\ tx.tested - writes[Len(writes)] < KeepaliveTimeout
        /\ sent.seqno < tx.payload.seqno /\ sent.safetyData <= tx.payload.safetyData

(***************************************************************************)
(* A neighbour that has fallen silent leaves the table, unless the daemon  *)
(* ends or an application has died holding a mutex (scrubber_thread).  The *)
(* time of the model ends before the last ones have expired.               *)
(***************************************************************************)
SilentNeighboursGo ==
    \A n \in NodeId :
        Known(n) ~> \/ ~ Known(n)
                    \/ srp_exitFlag \/ app = "dead"
                    \/ Known(n) /\ State(n).last_esd_received + ScrubbingTimeout > scenario.time

(***************************************************************************)
(* Whatever order neighbours come and go in, the tree keeps its keys       *)
(* ordered, its heights right and its subtrees balanced, and every slot of *)
(* its array is either in the tree or free, and once (insert and remove of *)
(* FixedMemAVLTree, with the rotations).                                   *)
(***************************************************************************)
TreeIsAvl == WellFormed(table.neighbour_table)

(***************************************************************************)
(* The records have their shapes, and a mutex is held by who is in one of  *)
(* its critical sections, or by an application that has died in one.       *)
(***************************************************************************)
Received    == ESD \cup {WrongLength}
Payload     == [safetyData : Nat, seqno : Nat \cup {-1}, timeStamp : Nat]
OwnState    == [own_sd : Nat, last_own_sd_write : Nat, own_sd_written : BOOLEAN, next_seqno : Nat]
BufferState == [has_data : BOOLEAN, items : Seq(Payload)]
RxState     == [pc : {"loop", "wait", "insert", "ended"}, esd : Received, more : BOOLEAN]
TxState     == [pc : {"loop", "lock", "generate", "push", "ended"}, tested : Nat, payload : Payload]

Shapes ==
    /\ clock \in 0 .. scenario.time /\ srp_exitFlag \in BOOLEAN /\ own \in OwnState
    /\ rx \in RxState /\ tx \in TxState /\ scrub.pc \in {"loop", "find", "remove", "ended"}
    /\ inbox \in Seq(Received) /\ writes \in Seq(Nat) /\ sent \in Payload /\ buffer \in BufferState

Holders ==
    /\ sd_mutex \in {"free", "tx", "app"} /\ table_mutex \in {"free", "scrub", "app"}
    /\ sd_mutex = "tx" <=> tx.pc \in {"generate", "push"}
    /\ table_mutex = "scrub" <=> scrub.pc = "remove"
    /\ app \in {"off", "writing", "listing", "dead"}
    /\ app = "writing" => sd_mutex = "app" /\ table_mutex # "app"
    /\ app = "listing" => table_mutex = "app" /\ sd_mutex # "app"
    /\ app = "off" => sd_mutex # "app" /\ table_mutex # "app"

\* Records, mutexes and the tree are as they should be after every step: shapes, holders,
\* and no node of the tree lost, used twice, out of order or out of balance.
TypeOK == Shapes /\ Holders /\ TreeIsAvl

=============================================================================

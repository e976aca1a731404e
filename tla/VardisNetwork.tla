----------------------------- MODULE VardisNetwork -----------------------------
(***************************************************************************)
(* A network of Vardis entities as the simulator runs them: on each node a *)
(* Vardis module and a BP module that exchange messages, a producer        *)
(* application for each variable, and beacons that reach the neighbours or *)
(* are lost.  Vardis works on the same protocol data as in the daemon.     *)
(*                                                                         *)
(* Messages between the modules of a node take no simulated time and are   *)
(* delivered before the next timer runs out, so a timer and what follows   *)
(* from it is one step; the beacon periods being random, no two timers run *)
(* out at the same instant.  Nodes start registered with BP.  The simulator *)
(* neither scrubs nor restarts: Crash is the daemon's, started again.      *)
(***************************************************************************)
EXTENDS VardisProtocolData, FiniteSets

CONSTANTS
    MaxPayloadSize,     \* maxPayloadSize
    MaxEntries,         \* the room for payloads of Vardis in BP, 10
    InitialEntry,       \* any Entry: the content of unused store slots
    Scenarios,          \* the networks and what happens in them
    MaxTime,            \* bound on the clock, in any scenario
    MaxUpdates          \* bound on the updates of a variable in one life, in any scenario

\* The producer writes into a value when the variable was created and how many
\* updates there have been.
ProducedValue == [born : 0 .. MaxTime, n : 0 .. MaxUpdates]

Scenario ==
    [nodes : SUBSET NodeId, links : SUBSET (NodeId \X NodeId), vars : SUBSET VarId,
     producer : [VarId -> NodeId],
     updates : Nat,                 \* how often each variable is updated in one life
     deletes : BOOLEAN,             \* whether it can be deleted
     losses : Nat,                  \* how many receptions of a beacon fail
     crashing : SUBSET NodeId,      \* the nodes that crash, once each
     time : Nat, repCnt : RepCnt]

ASSUME NetworkAssumption ==
    /\ Value = ProducedValue /\ MaxTime \in Nat /\ MaxUpdates \in Nat
    /\ IsFiniteSet(NodeId)
    /\ MaxPayloadSize \in Nat /\ MaxEntries \in Nat \ {0} /\ HeaderSize > 0
    /\ InitialEntry \in Entry
    /\ Scenarios \subseteq Scenario
    /\ \A s \in Scenarios : s.time <= MaxTime /\ s.updates <= MaxUpdates

VARIABLES
    pd,             \* the protocol data of each node
    payloadSent,    \* whether Vardis has handed a payload to BP and not heard of it since
    sendPayload,    \* whether sendPayloadMsg is scheduled, shortly before the next beacon
    queue,          \* the payloads of Vardis that BP of each node has
    generating,     \* isActivelyGenerating of the producer of each variable
    born,           \* when each variable has been created last, or Never
    losses,         \* receptions that have failed
    crashes,        \* nodes that have crashed
    now,            \* the clock, in milliseconds
    scenario        \* constant

vars == <<pd, payloadSent, sendPayload, queue, generating, born, losses, crashes, now, scenario>>

Never == -1

NoProtocolData ==
    [used |-> {}, db |-> [v \in VarId |-> InitialEntry], active |-> {},
     q |-> [k \in ICType |-> <<>>]]

Init ==
    /\ pd = [n \in NodeId |-> NoProtocolData]
    /\ payloadSent = [n \in NodeId |-> FALSE]
    /\ sendPayload = [n \in NodeId |-> FALSE]
    /\ queue = [n \in NodeId |-> <<>>]
    /\ generating = [v \in VarId |-> FALSE]
    /\ born = [v \in VarId |-> Never]
    /\ losses = 0 /\ crashes = {}
    /\ now = 0
    /\ scenario \in Scenarios

Node == scenario.nodes
Var == scenario.vars
Producer(v) == scenario.producer[v]
Neighbours(n) == {m \in Node : <<n, m>> \in scenario.links}

(***************************************************************************)
(* The requests of the producers.  They are confirmed before anything else *)
(* happens; a producer whose request is refused stops the simulation.      *)
(***************************************************************************)
handleRTDBCreateRequest(n, r) ==
    /\ RtdbCreateStatus(pd[n], r, n, TRUE) = "OK"
    /\ pd' = [pd EXCEPT ![n] = handle_rtdb_create_request(@, r, n, now)]

handleRTDBUpdateRequest(n, v, value) ==
    /\ RtdbUpdateStatus(pd[n], v, value, n, TRUE) = "OK"
    /\ pd' = [pd EXCEPT ![n] = handle_rtdb_update_request(@, v, value, now)]

handleRTDBDeleteRequest(n, v) ==
    /\ RtdbModifyStatus(pd[n], v, n, TRUE) = "OK"
    /\ pd' = [pd EXCEPT ![n] = handle_rtdb_delete_request(@, v)]

handleRTDBCreateConfirm(v) == generating' = [generating EXCEPT ![v] = TRUE]

\* A variable that has lived before is created in a later millisecond.
HandleCreateMsg(v) ==
    /\ ~ generating[v] /\ born[v] < now
    /\ handleRTDBCreateRequest(Producer(v),
          [varId |-> v, repCnt |-> scenario.repCnt, timeout |-> 0, descr |-> 1,
           value |-> [born |-> now, n |-> 0]])
    /\ handleRTDBCreateConfirm(v)
    /\ born' = [born EXCEPT ![v] = now]
    /\ UNCHANGED <<payloadSent, sendPayload, queue, losses, crashes, now, scenario>>

HandleUpdateMsg(v) ==
    LET old == pd[Producer(v)].db[v].value
    IN  /\ generating[v] /\ old.n < scenario.updates
        /\ handleRTDBUpdateRequest(Producer(v), v, [old EXCEPT !.n = @ + 1])
        /\ UNCHANGED <<payloadSent, sendPayload, queue, generating, born, losses, crashes, now,
                       scenario>>

HandleDeleteMsg(v) ==
    /\ generating[v] /\ scenario.deletes
    /\ handleRTDBDeleteRequest(Producer(v), v)
    /\ generating' = [generating EXCEPT ![v] = FALSE]
    /\ UNCHANGED <<payloadSent, sendPayload, queue, born, losses, crashes, now, scenario>>

(***************************************************************************)
(* Payloads, on the way to BP.                                             *)
(***************************************************************************)
\* A container under construction: the protocol data after the records in it.
AddRecord(k, c) ==
    [data |-> SendRecord(c.data, k),
     recs |-> Append(c.recs, RecordFor(c.data, k, Head(c.data.q[k])))]

\* A container with n records of type k.
Filled(s, k, n) ==
    LET full[i \in 0 .. n] ==
          IF i = 0 THEN [data |-> s, recs |-> <<>>] ELSE AddRecord(k, full[i - 1])
    IN  full[n]

\* makeICType...: adds a container of type k to the payload p, if there is anything
\* to be put into it and room for it.
AddContainer(p, k) ==
    LET room == MaxPayloadSize - PayloadBytes(p.containers)
        full == Filled(p.data, k, numberFittingRecords(p.data, k, room))
    IN  IF ~ CanAddContainer(p.data, k, room) THEN p
        ELSE [data |-> full.data,
              containers |-> Append(p.containers, [type |-> k, recs |-> full.recs])]

\* The payload made from the protocol data s, and the protocol data that remains.
constructPayload(s) ==
    LET p[i \in 0 .. Len(TxOrder)] ==
          IF i = 0 THEN [data |-> s, containers |-> <<>>] ELSE AddContainer(p[i - 1], TxOrder[i])
    IN  p[Len(TxOrder)]

\* What BP does with a payload, the queueing mode of Vardis being DROPHEAD, and what
\* it answers to a query.
handleTransmitPayloadRequestMsg(n, p) ==
    queue' = [queue EXCEPT ![n] = Append(IF Len(@) >= MaxEntries THEN Tail(@) ELSE @, p)]

NumberBuffered(n) == Len(queue[n])

\* A payload without containers is not handed to BP.
generatePayload(n) ==
    LET p == constructPayload(pd[n])
    IN  /\ pd' = [pd EXCEPT ![n] = p.data]
        /\ IF p.containers = <<>> THEN UNCHANGED <<queue, payloadSent>>
           ELSE /\ handleTransmitPayloadRequestMsg(n, p.containers)
                /\ payloadSent' = [payloadSent EXCEPT ![n] = TRUE]

\* Mutant of MayGenerate: sendPayloadMsg is not looked at.
MayGenerateNow(n) == NumberBuffered(n) = 0 /\ ~ payloadSent[n]

\* The answer of BP to the periodic query for the number of buffered payloads, and
\* what Vardis knows itself.
MayGenerate(n) == NumberBuffered(n) = 0 /\ ~ payloadSent[n] /\ ~ sendPayload[n]

HandleBufferCheckMsg(n) ==
    /\ MayGenerate(n)
    /\ generatePayload(n)
    /\ UNCHANGED <<sendPayload, generating, born, losses, crashes, now, scenario>>

HandleSendPayloadMsg(n) ==
    /\ sendPayload[n]
    /\ generatePayload(n)
    /\ sendPayload' = [sendPayload EXCEPT ![n] = FALSE]
    /\ UNCHANGED <<generating, born, losses, crashes, now, scenario>>

(***************************************************************************)
(* Beacons.                                                                *)
(***************************************************************************)
\* The containers that are taken out of a payload: those that begin before more
\* than half of the payload has been used.
Extracted(p) ==
    LET before(i) == PayloadBytes(SubSeq(p, 1, i - 1))
    IN  SubSeq(p, 1, Cardinality({i \in DOMAIN p : before(i) < PayloadBytes(p) - before(i)}))

\* The records of type k among them.
RecordsOf(p, k) ==
    LET x == Extracted(p)
        recs[i \in 0 .. Len(x)] ==
          IF i = 0 THEN <<>>
          ELSE IF x[i].type = k THEN recs[i - 1] \o x[i].recs ELSE recs[i - 1]
    IN  recs[Len(x)]

\* Node n, whose protocol data is s, processes records of type k, and a payload p.
processVarList(s, k, recs, n) ==
    LET t[i \in 0 .. Len(recs)] ==
          IF i = 0 THEN s ELSE ProcessRecord(t[i - 1], k, recs[i], n, now)
    IN  t[Len(recs)]

handleBPReceivedPayloadIndication(s, p, n) ==
    LET t[i \in 0 .. Len(RxOrder)] ==
          IF i = 0 THEN s
          ELSE processVarList(t[i - 1], RxOrder[i], RecordsOf(p, RxOrder[i]), n)
    IN  t[Len(RxOrder)]

\* Vardis hears when the next beacon is due, and schedules its next payload.
handleBPPayloadTransmittedIndication(n) ==
    /\ payloadSent' = [payloadSent EXCEPT ![n] = FALSE]
    /\ sendPayload' = [sendPayload EXCEPT ![n] = TRUE]

\* BP takes the payload at the head of the queue for a beacon.
addPayload(n) ==
    /\ queue' = [queue EXCEPT ![n] = Tail(@)]
    /\ handleBPPayloadTransmittedIndication(n)

handleReceivedPacket(receivers, p) ==
    pd' = [m \in NodeId |->
             IF m \in receivers THEN handleBPReceivedPayloadIndication(pd[m], p, m) ELSE pd[m]]

\* A beacon is sent, which the nodes in receivers receive.  Vardis has made its
\* payload when a beacon is due.
HandleGenerateBeaconMsg(n, receivers) ==
    /\ queue[n] # <<>> /\ ~ sendPayload[n]
    /\ addPayload(n)
    /\ losses' = losses + Cardinality(Neighbours(n) \ receivers)
    /\ losses' <= scenario.losses
    /\ handleReceivedPacket(receivers, Head(queue[n]))
    /\ UNCHANGED <<generating, born, crashes, now, scenario>>

(***************************************************************************)
(* Time and faults.                                                        *)
(***************************************************************************)
Tick ==
    /\ now < scenario.time
    /\ now' = now + 1
    /\ UNCHANGED <<pd, payloadSent, sendPayload, queue, generating, born, losses, crashes, scenario>>

\* The daemon of node n and its applications start again: with an empty database,
\* and registered with BP anew.
Crash(n) ==
    /\ n \in scenario.crashing \ crashes
    /\ crashes' = crashes \cup {n}
    /\ pd' = [pd EXCEPT ![n] = NoProtocolData]
    /\ payloadSent' = [payloadSent EXCEPT ![n] = FALSE]
    /\ sendPayload' = [sendPayload EXCEPT ![n] = FALSE]
    /\ queue' = [queue EXCEPT ![n] = <<>>]
    /\ generating' = [v \in VarId |-> generating[v] /\ scenario.producer[v] # n]
    /\ UNCHANGED <<born, losses, now, scenario>>

Next ==
    \/ \E v \in Var : HandleCreateMsg(v)
    \/ \E v \in Var : HandleUpdateMsg(v)
    \/ \E v \in Var : HandleDeleteMsg(v)
    \/ \E n \in Node : HandleBufferCheckMsg(n)
    \/ \E n \in Node : HandleSendPayloadMsg(n)
    \/ \E n \in Node : \E receivers \in SUBSET Neighbours(n) :
          HandleGenerateBeaconMsg(n, receivers)
    \/ \E n \in Node : Crash(n)
    \/ Tick

Spec == Init /\ [][Next]_vars

\* What the three timers of node n do when they run out.  Of each step only that is
\* said here which tells it from the others, what TLC then need not compute again.
BufferChecked(n) ==
    /\ MayGenerate(n) /\ \E k \in ICType : CanAddContainer(pd[n], k, MaxPayloadSize)
    /\ payloadSent' = [payloadSent EXCEPT ![n] = TRUE]

PayloadMade(n) == sendPayload[n] /\ sendPayload' = [sendPayload EXCEPT ![n] = FALSE]

BeaconSent(n) ==
    /\ queue[n] # <<>> /\ ~ sendPayload[n]
    /\ sendPayload' = [sendPayload EXCEPT ![n] = TRUE]

\* Timers run out.  Nothing is assumed of the producers, and of the medium only that
\* it loses a bounded number of beacons.
Fairness ==
    \A n \in NodeId : /\ WF_payloadSent(BufferChecked(n))
                      /\ WF_sendPayload(PayloadMade(n))
                      /\ WF_sendPayload(BeaconSent(n))

FairSpec == Spec /\ Fairness

(***************************************************************************)
(* Properties.                                                             *)
(***************************************************************************)
Known(n, v) == v \in pd[n].used
Live(n, v) == Known(n, v) /\ ~ pd[n].db[v].isDeleted
Current(n, v) == Known(n, v) /\ pd[n].db[v].value = pd[Producer(v)].db[v].value

\* The protocol data are of their types, and no payload is put together that does not
\* fit into the queue of BP.
TypeOK ==
    /\ \A n \in NodeId : WellTyped(pd[n])
    /\ \A n \in NodeId : /\ payloadSent[n] \in BOOLEAN /\ sendPayload[n] \in BOOLEAN
                          /\ Len(queue[n]) <= MaxEntries
                          /\ \A i \in DOMAIN queue[n] :
                                PayloadBytes(queue[n][i]) \in 1 .. MaxPayloadSize
    /\ generating \in [VarId -> BOOLEAN] /\ born \in [VarId -> 0 .. MaxTime \cup {Never}]
    /\ losses \in Nat /\ crashes \subseteq NodeId /\ now \in 0 .. MaxTime

\* Vardis has at most one payload in BP, and knows.  Nothing is dropped there, so
\* that every repetition that has been counted is sent.  All variables keep to their types.
OnePayloadBuffered ==
    /\ TypeOK
    /\ \A n \in Node : /\ Len(queue[n]) <= 1
                       /\ payloadSent[n] <=> queue[n] # <<>>
                       /\ sendPayload[n] => ~ payloadSent[n]

\* What a node has of a variable is what the producer has written: the value of that
\* life of the variable and of that sequence number, and never one to come.
NothingInvented ==
    \A n \in Node, v \in Var :
        LET e == pd[n].db[v]
            original == pd[Producer(v)].db[v]
        IN  Known(n, v) =>
              /\ e.value.born = e.creationTime
              /\ e.seqno = e.value.n % SeqnoModulus
              /\ Known(Producer(v), v) =>
                    \/ e.creationTime < original.creationTime
                    \/ e.creationTime = original.creationTime /\ e.value.n <= original.value.n

\* No node steps back: to an earlier life of a variable, to an older value, or to a
\* live variable when it has heard of the deletion; whatever is still on its way.
NeverBackwards ==
    [][\A n \in Node, v \in Var : n \notin crashes' \ crashes /\ Known(n, v) =>
         LET e == pd[n].db[v]
             f == pd'[n].db[v]
         IN  \/ f.creationTime > e.creationTime
             \/ /\ f.creationTime = e.creationTime /\ f.value.n >= e.value.n
                /\ e.isDeleted => f.isDeleted]_vars

\* All nodes get to know a variable that stays, however many beacons are lost and
\* whoever forgets it, over several hops.
EventuallyKnown ==
    \A v \in VarId :
        generating[v] ~>
          \/ ~ generating[v]
          \/ \A n \in Node : /\ Known(n, v)
                             /\ pd[n].db[v].creationTime = pd[Producer(v)].db[v].creationTime

\* When one of the consumers has the newest value, the others get it.
NewsSpreads ==
    \A v \in VarId :
        LET consumers == {n \in Node : generating[v] /\ n # Producer(v) /\ Known(n, v)}
            informed == {n \in consumers : Current(n, v)}
        IN  informed # {} ~> informed = {} \/ informed = consumers

\* A node is about to send a record of the deletion of v that no receiver will read:
\* it stands behind the containers that are taken out of the payload.
DeletionUnread(v) ==
    \E n \in Node : queue[n] # <<>> /\
        LET p == Head(queue[n])
        IN  \E i \in DOMAIN p : /\ p[i].type = "delete"
                                /\ \E j \in DOMAIN p[i].recs : p[i].recs[j].varId = v
                                /\ i > Len(Extracted(p))

\* When no beacon is lost, the deletion of a variable reaches everybody, unless some node
\* once sends it in the second half of a payload, where receivers do not read it.
DeletionSpreads ==
    \A v \in VarId :
        LET deleted == Known(Producer(v), v) /\ ~ Live(Producer(v), v)
        IN  [] (scenario.losses = 0 /\ ~ DeletionUnread(v)) =>
                (deleted ~> ~ deleted \/ \A n \in Node : ~ Live(n, v))

(***************************************************************************)
(* What the documents say and the code does not keep.                      *)
(***************************************************************************)
\* "Any neighbour hearing this update-request will include variable update
\* instructions in future beacons": no beacon being lost, an update reaches everybody.
UpdatesArrive ==
    \A v \in VarId : generating[v] ~> ~ generating[v] \/ \A n \in Node : Current(n, v)

\* "[...] a creation timestamp, which allows to distinguish different invocations of the
\* RTDB-Create.request primitive, so that variables can be re-created at a later time": what
\* a node has of one life of a variable is not a value of another.
LivesDistinguished ==
    \A n \in Node, v \in Var :
        Known(n, v) => pd[n].db[v].value.born = pd[n].db[v].creationTime

=============================================================================

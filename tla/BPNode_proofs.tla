--------------------------- MODULE BPNode_proofs ---------------------------
(***************************************************************************)
(* Theorems about the daemon of the beaconing protocol and its clients,    *)
(* for any protocols, sizes and scenarios.  The inductive invariant is the *)
(* conjunction of what each group of variables keeps to; the properties    *)
(* follow from it.                                                         *)
(***************************************************************************)
EXTENDS BPNode, TLAPS, FiniteSetTheorems, SequenceTheorems, WellFoundedInduction

(***************************************************************************)
(* Types, and what the steps of a thread in a critical section rest on.    *)
(***************************************************************************)
AppStates == {"off", "opening", "asking", "on", "pushing", "closing", "leaving"}
Places == {"loop", "lock", "visit", "listen", "payload", "deliver", "read", "stop", "blocked",
           "ended"}
Beacon == [payloads : Seq(Protocol \X Nat), used : 0 .. MaxBeaconSize]

FlagsOK ==
    /\ scenario \in Scenarios /\ restarts \in Nat
    /\ bp_isActive \in BOOLEAN /\ bp_exitFlag \in BOOLEAN
    /\ killed \in BOOLEAN /\ shutdowns \in BOOLEAN
    /\ threw \subseteq Thread

\* The transmitter goes through the table of protocols with the mutex held, also when an
\* exception has ended it on its way; the receiver waits for a queue with the mutex held.
SectionsOK ==
    /\ mutex \in Thread \cup {NoThread}
    /\ pc \in [Thread -> Places]
    /\ clientProtocols \subseteq Protocol /\ areas \subseteq Protocol
    /\ todo \subseteq clientProtocols
    /\ todo # {} \/ pc["transmitter"] = "visit" => mutex = "transmitter"
    /\ pc["receiver"] = "deliver" => mutex = "receiver"

PacketOK ==
    /\ packet \in scenario.packets \cup {NoPacket}
    /\ parsed \in 0 .. Len(packet.payloads)
    /\ pc["receiver"] = "deliver" => parsed < Len(packet.payloads)
    /\ received \in 0 .. scenario.beacons

\* A payload is counted when it is in the queue.
AppsOK ==
    /\ app \in [Client -> AppStates]
    /\ submitted \in [Protocol -> Nat] /\ sent \in [Protocol -> Nat] /\ got \in [Protocol -> Nat]
    /\ \A p \in Protocol : /\ submitted[p] <= scenario.payloads
                           /\ app[p] = "pushing" => submitted[p] < scenario.payloads

QueuesOK == txq \in [Protocol -> Queue] /\ ind \in [Protocol -> Queue]

(***************************************************************************)
(* The command socket.                                                     *)
(***************************************************************************)
Kinds == {"ShutDown", "Activate", "Deactivate", "GetStatistics", "ListRegisteredProtocols",
          "ClearBuffer", "QueryNumberBufferedPayloads", "RegisterProtocol", "DeregisterProtocol"}
Statuses == {"OK", "UNKNOWN_PROTOCOL", "PROTOCOL_ALREADY_REGISTERED", "ILLEGAL_MAX_PAYLOAD_SIZE",
             "ILLEGAL_DROPPING_QUEUE_SIZE"}

Registration == [s_type : {"RegisterProtocol", "DeregisterProtocol"}, protocolId : Protocol]
Conn == [client : Client, request : {NoRequest} \cup Request \cup Registration,
         response : {NoResponse} \cup [s_type : Kinds, status : Statuses],
         open : SUBSET {"client", "owner"}]

\* What a client asks for: clients ask for their own protocol only.
Asks(s, c) == IF c = Operator THEN s.requests
              ELSE [s_type : {"RegisterProtocol", "DeregisterProtocol"}, protocolId : {c}]

\* A client has one connection at most that it has not closed, its last one.
SocketOK ==
    /\ conns \in Seq(Conn) /\ Len(conns) <= MaxConns
    /\ the_command_socket \in BOOLEAN
    /\ accepted \in 0 .. Len(conns) /\ data_socket \in 0 .. accepted
    /\ \A n \in 1 .. Len(conns) :
        /\ conns[n].request \in {NoRequest} \cup Asks(scenario, conns[n].client)
        /\ conns[n].response # NoResponse => conns[n].request # NoRequest
        /\ \A m \in 1 .. Len(conns) :
            m < n /\ conns[m].client = conns[n].client => "client" \notin conns[m].open

(***************************************************************************)
(* Registrations.                                                          *)
(***************************************************************************)
\* The daemon has yet to deal with the n-th connection.
Unhandled(n) == n > accepted \/ (n = data_socket /\ pc["command"] = "read")

\* No request of p is on its way.
Quiet(p) == \A n \in 1 .. Len(conns) :
                Unhandled(n) /\ conns[n].client = p => conns[n].request = NoRequest

\* The daemon accepts no queue without room.
Roomy(p) == scenario.mode[p] = "QUEUE_DROPHEAD" => scenario.entries[p] # 0

Served(p) == Roomy(p) /\ (restarts = 0 => p \in clientProtocols \cap areas /\ Quiet(p))

Granted(conn) ==
    "client" \in conn.open /\ conn.response = [s_type |-> "RegisterProtocol", status |-> "OK"]

\* Whoever believes to be registered, or is about to read that it is, is; and no request
\* that would end this is under way.
RegistrationsOK ==
    /\ \A p \in Protocol : app[p] \in {"on", "pushing", "closing"} => Served(p)
    /\ \A n \in 1 .. Len(conns) :
        Granted(conns[n]) /\ conns[n].client \in Protocol => Served(conns[n].client)

(***************************************************************************)
(* Order of payloads.                                                      *)
(***************************************************************************)
Increasing(s) == \A i, j \in 1 .. Len(s) : i < j => s[i] < s[j]
NonDecreasing(s) == \A i, j \in 1 .. Len(s) : i < j => s[i] <= s[j]

\* With REPEAT a payload stays in the queue when it goes into a beacon.
Before(mode, x, y) == IF mode = "REPEAT" THEN x <= y ELSE x < y

\* The payloads s come after x, in order, and go up to top at most.
After(mode, x, s, top) ==
    Increasing(s) /\ \A i \in 1 .. Len(s) : Before(mode, x, s[i]) /\ s[i] <= top

\* Along the way of the payloads of a protocol: the last one sent, the one in the beacon,
\* the ones in the queue, the last one submitted.
SendOrder(p) ==
    /\ sent[p] <= submitted[p]
    /\ After(scenario.mode[p], sent[p], txq[p].items, submitted[p])
    /\ \A k \in 1 .. Len(beacon.payloads) :
        beacon.payloads[k][1] = p =>
            /\ p \notin todo
            /\ Before(scenario.mode[p], sent[p], beacon.payloads[k][2])
            /\ beacon.payloads[k][2] <= submitted[p]
            /\ After(scenario.mode[p], beacon.payloads[k][2], txq[p].items, submitted[p])
            /\ \A l \in 1 .. Len(beacon.payloads) : beacon.payloads[l][1] = p => l = k

\* Those received: the last one taken, the ones in the queue, the number of beacons.
ReceiveOrder(p) ==
    /\ got[p] <= received /\ NonDecreasing(ind[p].items)
    /\ \A i \in 1 .. Len(ind[p].items) : got[p] <= ind[p].items[i] /\ ind[p].items[i] <= received

OrderOK == \A p \in Protocol : SendOrder(p) /\ ReceiveOrder(p)

(***************************************************************************)
(* Clean use.                                                              *)
(***************************************************************************)
\* The bytes of a beacon with a payload of each of the first p protocols.
UpToSize(s) ==
    CHOOSE f : f = [p \in 0 .. Cardinality(Protocol) |->
                       IF p = 0 THEN HeaderSize ELSE f[p - 1] + PayloadHeaderSize + s.size[p]]

\* Clients close connections the daemon has closed, or after a request to shut down.
Polite(conn) == "owner" \in conn.open /\ "client" \notin conn.open
                    => conn.request.s_type = "ShutDown"

CleanFlags ==
    /\ ~ killed /\ restarts = 0 /\ bp_isActive /\ areas = clientProtocols
    /\ bp_exitFlag \/ threw # {} => shutdowns

\* The payload management empties queues only at the end.
CleanQueues ==
    /\ \A p \in Protocol : ~ txq[p].locked /\ ~ ind[p].locked
    /\ ~ shutdowns => \A p \in Protocol : txq[p].has_data => txq[p].items # <<>>

\* There is room for the payloads of the protocols not yet visited.
CleanBeacon ==
    pc["transmitter"] = "visit" => \A p \in todo : beacon.used <= UpToSize(scenario)[p - 1]

\* No round of the command thread leaves a connection over, and the daemon has kept its end
\* of those it has yet to deal with.
CleanSocket ==
    /\ pc["command"] = "loop" => data_socket = NoSocket \/ shutdowns
    /\ pc["command"] # "ended" =>
        \A n \in 1 .. Len(conns) : n = data_socket \/ n > accepted => "owner" \in conns[n].open
    /\ \A n \in 1 .. Len(conns) : Polite(conns[n])

CleanOK == Clean(scenario) => CleanFlags /\ CleanQueues /\ CleanBeacon /\ CleanSocket

NodeInv ==
    /\ FlagsOK /\ SectionsOK /\ PacketOK /\ AppsOK /\ QueuesOK /\ SocketOK
    /\ beacon \in Beacon
    /\ RegistrationsOK /\ OrderOK /\ CleanOK

(***************************************************************************)
(* Constants, and the steps.                                               *)
(***************************************************************************)
LEMMA Constants ==
    ASSUME BPAssumption
    PROVE  /\ HeaderSize \in Nat /\ PayloadHeaderSize \in Nat /\ MaxBeaconSize \in Nat
           /\ MaxQueueLength \in Nat /\ MaxPayloads \in Nat /\ MaxPackets \in Nat
           /\ MaxConns \in Nat /\ MaxBeaconSize > HeaderSize + PayloadHeaderSize
           /\ Cardinality(Protocol) \in Nat /\ Protocol = 1 .. Cardinality(Protocol)
           /\ Protocol \subseteq Nat /\ Operator \notin Protocol
           /\ Client = Protocol \cup {Operator}
<1>1. Cardinality(Protocol) \in Nat
  BY FS_CardinalityType DEF BPAssumption
<1>2. /\ Protocol = 1 .. Cardinality(Protocol) /\ Client = Protocol \cup {Operator}
      /\ MaxBeaconSize > HeaderSize + PayloadHeaderSize
  BY DEF BPAssumption
<1>3. /\ HeaderSize \in Nat /\ PayloadHeaderSize \in Nat /\ MaxBeaconSize \in Nat
      /\ MaxQueueLength \in Nat
  BY DEF BPAssumption
<1>4. MaxPayloads \in Nat /\ MaxPackets \in Nat /\ MaxConns \in Nat
  BY DEF BPAssumption
<1>5. Protocol \subseteq Nat /\ 0 \notin Protocol
  BY <1>1, <1>2
<1>. QED  BY <1>1, <1>2, <1>3, <1>4, <1>5 DEF Operator

LEMMA ScenarioTypes ==
    ASSUME BPAssumption, NEW s \in Scenarios
    PROVE  /\ s.clients \subseteq Client /\ s.leaving \subseteq s.clients
           /\ s.mode \in [Protocol -> Mode] /\ s.faults \subseteq Fault
           /\ s.requests \subseteq Request /\ s.packets \subseteq Packet
           /\ s.payloads \in 0 .. MaxPayloads /\ s.beacons \in 0 .. MaxPackets
           /\ s.size \in [Protocol -> Nat] /\ s.entries \in [Protocol -> Nat]
BY DEF BPAssumption

Loops ==
    \/ Loop("transmitter", "lock") /\ UNCHANGED socketVars
    \/ Loop("receiver", "listen") /\ UNCHANGED socketVars
    \/ Loop("payload", "lock") /\ UNCHANGED socketVars

TxSteps == TxLock \/ (\E p \in Protocol : attempt_add_payload(p)) \/ generate_beacon

RxSteps == RxPacket \/ RxPayload \/ RxDelivered \/ RxDone

\* A payload that is dealt with: pushed, waited for, passed over, or not to be copied.
RxHandles ==
    LET p == CurrentPayload.protocolId
    IN  \/ /\ pc["receiver"] = "payload"
           /\ parsed' = parsed + 1
           /\ UNCHANGED <<bp_exitFlag, pc, mutex, threw, ind>>
        \/ \E q \in {Push(ind[p], received), TimedOut(ind[p])} : Deliver(p, q)
        \/ /\ ind' = [ind EXCEPT ![p] = Waiting(ind[p])]
           /\ parsed < Len(packet.payloads)
           /\ mutex' = "receiver"
           /\ Goto("receiver", "deliver")
           /\ UNCHANGED <<bp_exitFlag, threw, parsed>>
        \/ /\ CopyThrows \/ Startled(ind[p])
           /\ RxThrow(p)

PayloadSteps == handle_payload_from_client \/ PayloadBlocks

CommandSteps ==
    CommandLoop \/ ReadNothing \/ ShutDown \/ HandleRequest \/ HandlerThrows
    \/ HandlerBlocks \/ CommandStop

\* The steps of clients on the command socket, and those in their queues.
SocketSteps ==
    \/ \E c \in Client : Connect(c) \/ SendRequest(c) \/ ReadResponse(c) \/ GiveUp(c)
    \/ LeaveAfterShutDown

QueueSteps ==
    \E p \in Protocol : TransmitPayload(p) \/ push_wait(p) \/ ReceivePayload(p) \/ DieInQueue(p)

LEMMA NextSteps ==
    ASSUME Next
    PROVE  \/ Loops \/ TxSteps \/ RxSteps \/ PayloadSteps \/ CommandSteps
           \/ Restart \/ SocketSteps \/ QueueSteps
BY DEF Next, Daemon, Transmitter, Receiver, PayloadManagement, Command, ClientStep, Loops, TxSteps,
       RxSteps, PayloadSteps, CommandSteps, SocketSteps, QueueSteps, TxLoop, RxLoop, PayloadLoop

(***************************************************************************)
(* What each thread leaves alone.                                          *)
(***************************************************************************)
LoopKeeps == UNCHANGED <<flagVars, clientProtocols, mutex, todo, threw, killed, beacon, sent, rxVars,
                         areas, queueVars, clientVars, shutdowns, runVars, socketVars>>

TxKeeps == UNCHANGED <<bp_isActive, clientProtocols, killed, rxVars, areas, ind, clientVars,
                       shutdowns, runVars, socketVars>>

LEMMA LoopFrame ==
    ASSUME Loops
    PROVE  /\ LoopKeeps
           /\ \E t \in Thread \ {"command"}, l \in {"ended", "lock", "listen"} :
                pc' = [pc EXCEPT ![t] = l]
<1>1. LoopKeeps
  BY DEF Loops, Loop, LoopKeeps
<1>2. \E t \in Thread \ {"command"}, l \in {"ended", "lock", "listen"} : pc' = [pc EXCEPT ![t] = l]
  BY DEF Loops, Loop, Goto, Thread
<1>. QED  BY <1>1, <1>2

LEMMA TxFrame ==
    ASSUME TxSteps
    PROVE  TxKeeps
<1>1. CASE TxLock
  BY <1>1 DEF TxLock, TxKeeps, flagVars, queueVars
<1>2. CASE \E p \in Protocol : attempt_add_payload(p)
  <2>1. PICK p \in Protocol : attempt_add_payload(p)
    BY <1>2
  <2>2. /\ UNCHANGED <<clientProtocols, killed, sent, rxVars, areas, ind, clientVars, shutdowns,
                       runVars, socketVars>>
        /\ UNCHANGED bp_isActive
    BY <2>1 DEF attempt_add_payload, GoOn, TxTimeout, TxThrow, serialize_payload, flagVars
  <2>. QED  BY <2>2 DEF TxKeeps
<1>3. CASE generate_beacon
  BY <1>3 DEF generate_beacon, TxKeeps, flagVars, queueVars
<1>. QED  BY <1>1, <1>2, <1>3 DEF TxSteps

LEMMA RxFrame ==
    ASSUME RxSteps
    PROVE  RxKeeps
BY DEF RxSteps, RxPacket, RxPayload, RxDelivered, RxDone

LEMMA RxHandling ==
    ASSUME RxPayload \/ RxDelivered
    PROVE  /\ RxHandles
           /\ UNCHANGED <<packet, received>>
           /\ \/ pc["receiver"] = "payload" /\ mutex = NoThread /\ parsed < Len(packet.payloads)
              \/ pc["receiver"] = "deliver"
<1>1. CASE RxPayload
  BY <1>1 DEF RxPayload, HasPayload, PushIndication, RxHandles
<1>2. CASE RxDelivered
  BY <1>2 DEF RxDelivered, PushIndication, RxHandles
<1>. QED  BY <1>1, <1>2

\* Where a step of the receiver takes it, and the mutex.
RxGoes(l) ==
    /\ pc' = pc \/ pc' = [pc EXCEPT !["receiver"] = l]
    /\ \/ mutex' = mutex /\ l # "deliver"
       \/ mutex \in {NoThread, "receiver"} /\ mutex' = "receiver"
       \/ mutex \in {NoThread, "receiver"} /\ mutex' = NoThread /\ l # "deliver"
    /\ pc' = pc => pc["receiver"] # "deliver" \/ mutex' = mutex

LEMMA RxPlaces ==
    ASSUME SectionsOK, RxSteps
    PROVE  \E l \in {"loop", "payload", "deliver", "ended"} : RxGoes(l)
<1>1. CASE RxPacket \/ RxDone
  <2>1. \E l \in {"loop", "payload"} : pc' = [pc EXCEPT !["receiver"] = l] /\ mutex' = mutex
    BY <1>1 DEF RxPacket, RxDone, Goto
  <2>. QED  BY <2>1 DEF RxGoes
<1>2. CASE RxPayload \/ RxDelivered
  <2>1. /\ RxHandles
        /\ mutex = NoThread \/ mutex = "receiver"
    BY <1>2, RxHandling DEF SectionsOK
  <2>3. CASE pc' = pc /\ mutex' = mutex /\ pc["receiver"] = "payload"
    <3>1. RxGoes("payload")
      BY <2>3 DEF RxGoes
    <3>. QED  BY <3>1
  <2>4. CASE \E q : Deliver(CurrentPayload.protocolId, q)
    <3>1. RxGoes("payload")
      BY <2>1, <2>4 DEF RxGoes, Deliver, Goto, SectionsOK, Thread
    <3>. QED  BY <3>1
  <2>5. CASE Goto("receiver", "deliver") /\ mutex' = "receiver"
    <3>1. RxGoes("deliver")
      BY <2>1, <2>5 DEF RxGoes, Goto, SectionsOK, Thread
    <3>. QED  BY <3>1
  <2>6. CASE RxThrow(CurrentPayload.protocolId)
    <3>1. RxGoes("ended")
      BY <2>1, <2>6 DEF RxGoes, RxThrow, Goto, SectionsOK, Thread
    <3>. QED  BY <3>1
  <2>. QED  BY <2>1, <2>3, <2>4, <2>5, <2>6 DEF RxHandles
<1>. QED  BY <1>1, <1>2 DEF RxSteps

LEMMA PayloadFrame ==
    ASSUME PayloadSteps
    PROVE  PayloadKeeps
BY DEF PayloadSteps, handle_payload_from_client, PayloadBlocks

LEMMA CommandFrame ==
    ASSUME CommandSteps
    PROVE  CommandKeeps
BY DEF CommandSteps, CommandLoop, ReadNothing, ShutDown, HandleRequest, HandlerThrows, HandlerBlocks,
       CommandStop

LEMMA ClientFrame ==
    ASSUME SocketSteps \/ QueueSteps
    PROVE  DaemonKeeps
<1>1. CASE SocketSteps
  BY <1>1 DEF SocketSteps, Connect, SendRequest, ReadResponse, GiveUp, LeaveAfterShutDown
<1>2. CASE QueueSteps
  BY <1>2 DEF QueueSteps, TransmitPayload, push_wait, ReceivePayload, DieInQueue, ClientKeeps
<1>. QED  BY <1>1, <1>2

(***************************************************************************)
(* Flags.                                                                  *)
(***************************************************************************)
LEMMA StepFlags ==
    ASSUME FlagsOK, Next
    PROVE  FlagsOK'
<1> USE DEF FlagsOK, flagVars, runVars
<1>1. CASE Loops \/ SocketSteps \/ QueueSteps
  BY <1>1, LoopFrame, ClientFrame DEF LoopKeeps, DaemonKeeps, threadVars
<1>2. CASE TxSteps
  <2>1. bp_exitFlag' \in BOOLEAN /\ threw' \subseteq Thread
    <3>1. CASE TxLock
      BY <3>1 DEF TxLock
    <3>2. ASSUME NEW p \in Protocol, attempt_add_payload(p)
          PROVE  bp_exitFlag' \in BOOLEAN /\ threw' \subseteq Thread
      BY <3>2 DEF attempt_add_payload, GoOn, TxTimeout, TxThrow, serialize_payload, Thread
    <3>3. CASE generate_beacon
      BY <3>3 DEF generate_beacon
    <3>. QED  BY <1>2, <3>1, <3>2, <3>3 DEF TxSteps
  <2>. QED  BY <1>2, <2>1, TxFrame DEF TxKeeps
<1>3. CASE RxSteps
  <2>1. bp_exitFlag' \in BOOLEAN /\ threw' \subseteq Thread
    <3>1. CASE RxPacket \/ RxDone
      BY <3>1 DEF RxPacket, RxDone
    <3>2. CASE RxPayload \/ RxDelivered
      BY <3>2, RxHandling DEF RxHandles, Deliver, RxThrow, Thread
    <3>. QED  BY <1>3, <3>1, <3>2 DEF RxSteps
  <2>. QED  BY <1>3, <2>1, RxFrame DEF RxKeeps
<1>4. CASE PayloadSteps
  BY <1>4, PayloadFrame DEF PayloadKeeps
<1>5. CASE CommandSteps
  <2>1. /\ bp_isActive' \in BOOLEAN /\ bp_exitFlag' \in BOOLEAN
        /\ killed' \in BOOLEAN /\ shutdowns' \in BOOLEAN
    <3>1. CASE CommandLoop \/ ReadNothing \/ ShutDown
      BY <3>1 DEF CommandLoop, ReadNothing, ShutDown
    <3>2. CASE HandleRequest
      BY <3>2 DEF HandleRequest, Effect, RegisterProtocol, DeregisterProtocol, ClearBuffer, SetActive
    <3>3. CASE HandlerThrows \/ HandlerBlocks \/ CommandStop
      BY <3>3 DEF HandlerThrows, HandlerBlocks, CommandStop
    <3>. QED  BY <1>5, <3>1, <3>2, <3>3 DEF CommandSteps
  <2>. QED  BY <1>5, <2>1, CommandFrame DEF CommandKeeps
<1>6. CASE Restart
  <2>1. restarts' \in Nat
    BY <1>6 DEF Restart
  <2>2. scenario' \in Scenarios /\ threw' \subseteq Thread /\ shutdowns' \in BOOLEAN
    BY <1>6 DEF Restart
  <2>3. bp_isActive' \in BOOLEAN /\ bp_exitFlag' \in BOOLEAN /\ killed' \in BOOLEAN
    BY <1>6 DEF Restart
  <2>. QED  BY <2>1, <2>2, <2>3
<1>. QED  BY <1>1, <1>2, <1>3, <1>4, <1>5, <1>6, NextSteps

(***************************************************************************)
(* Sections.                                                               *)
(***************************************************************************)
\* What the command thread does to the table of protocols.
TableChange ==
    \/ UNCHANGED <<clientProtocols, areas>>
    \/ /\ mutex = NoThread
       /\ \E p \in Protocol : \/ clientProtocols' = clientProtocols \cup {p} /\ areas' = areas \cup {p}
                              \/ clientProtocols' = clientProtocols \ {p} /\ areas' = areas \ {p}
                              \/ clientProtocols' = clientProtocols /\ areas' = areas \cup {p}

\* A request for something that the table holds names a protocol.
LEMMA RequestTypes ==
    ASSUME BPAssumption, FlagsOK, SocketOK, HasRequest
    PROVE  /\ data_socket \in 1 .. Len(conns) /\ data_socket <= accepted
           /\ conns[data_socket] \in Conn
           /\ TheRequest \in Asks(scenario, conns[data_socket].client)
           /\ TheRequest \in Request \cup Registration
           /\ TheRequest.s_type \in Kinds
<1>1. data_socket \in 1 .. Len(conns) /\ data_socket <= accepted
  BY DEF HasRequest, SocketInUse, NoSocket, SocketOK
<1>2. conns[data_socket] \in Conn
  BY <1>1, ElementOfSeq DEF SocketOK
<1>3. TheRequest \in Asks(scenario, conns[data_socket].client)
  BY <1>1 DEF SocketOK, HasRequest, TheRequest
<1>4. TheRequest \in Request \cup Registration
  BY <1>2 DEF Conn, HasRequest, TheRequest
<1>5. TheRequest.s_type \in Kinds
  <2>1. CASE TheRequest \in Registration
    BY <2>1 DEF Registration, Kinds
  <2>2. CASE TheRequest \in Request
    BY <2>2 DEF Request, Kinds
  <2>. QED  BY <1>4, <2>1, <2>2
<1>. QED  BY <1>1, <1>2, <1>3, <1>4, <1>5

\* Registrations come from the protocols they name.
LEMMA RegistrationTypes ==
    ASSUME BPAssumption, FlagsOK, SocketOK, HasRequest,
           TheRequest.s_type \in {"RegisterProtocol", "DeregisterProtocol"}
    PROVE  /\ TheRequest \in Registration /\ TheRequest.protocolId \in Protocol
           /\ TheRequest.protocolId = conns[data_socket].client
           /\ NeedsMutex(TheRequest)
<1>1. TheRequest \in Request \cup Registration
  BY RequestTypes
<1>2. TheRequest \notin Request
  BY DEF Request
<1>3. TheRequest \in Registration
  BY <1>1, <1>2
<1>4. TheRequest.protocolId \in Protocol /\ "protocolId" \in DOMAIN TheRequest
  BY <1>3 DEF Registration
<1>5. TheRequest.protocolId = conns[data_socket].client
  <2>1. TheRequest \in Asks(scenario, conns[data_socket].client)
    BY RequestTypes
  <2>2. scenario.requests \subseteq Request
    BY ScenarioTypes DEF FlagsOK
  <2>. QED  BY <1>2, <2>1, <2>2 DEF Asks
<1>. QED  BY <1>3, <1>4, <1>5 DEF NeedsMutex

LEMMA TableStep ==
    ASSUME BPAssumption, FlagsOK, SocketOK, CommandSteps
    PROVE  TableChange
<1>1. CASE CommandLoop \/ ReadNothing \/ ShutDown \/ HandlerBlocks \/ CommandStop
  BY <1>1 DEF CommandLoop, ReadNothing, ShutDown, HandlerBlocks, CommandStop, TableChange
<1>2. CASE HandleRequest
  <2>1. HasRequest /\ Effect(TheRequest) /\ (NeedsMutex(TheRequest) => mutex = NoThread)
    BY <1>2 DEF HandleRequest
  <2>2. CASE TheRequest.s_type \in {"RegisterProtocol", "DeregisterProtocol"}
    <3>1. TheRequest.protocolId \in Protocol /\ mutex = NoThread
      BY <2>1, <2>2, RegistrationTypes
    <3>. QED  BY <2>1, <3>1 DEF Effect, RegisterProtocol, DeregisterProtocol, ClearBuffer, SetActive,
                                TableChange
  <2>3. CASE TheRequest.s_type \notin {"RegisterProtocol", "DeregisterProtocol"}
    BY <2>1, <2>3 DEF Effect, ClearBuffer, SetActive, TableChange
  <2>. QED  BY <2>2, <2>3
<1>3. CASE HandlerThrows
  <2>1. TheRequest.protocolId \in Protocol
    BY <1>3, RegistrationTypes DEF HandlerThrows, RegisterThrows
  <2>. QED  BY <1>3, <2>1 DEF HandlerThrows, TableChange
<1>. QED  BY <1>1, <1>2, <1>3 DEF CommandSteps

\* The places of the threads other than the one that makes a step, and the mutex.
LEMMA CommandPlaces ==
    ASSUME CommandSteps, pc \in [Thread -> Places]
    PROVE  /\ \/ \E l \in {"ended", "loop", "read", "stop", "blocked"} :
                    pc' = [pc EXCEPT !["command"] = l]
              \/ pc' = pc
              \/ pc' = [t \in Thread |-> "ended"]
           /\ mutex' = mutex \/ (mutex = NoThread /\ mutex' = "command")
BY DEF CommandSteps, CommandLoop, ReadNothing, ShutDown, HandleRequest, HandlerThrows, HandlerBlocks,
       CommandStop, Goto

LEMMA StepSections ==
    ASSUME BPAssumption, FlagsOK, SectionsOK, SocketOK, Next
    PROVE  SectionsOK'
<1>1. CASE Loops
  BY <1>1, LoopFrame DEF LoopKeeps, SectionsOK, Thread, Places
<1>2. CASE TxSteps
  <2>1. clientProtocols' = clientProtocols /\ areas' = areas
    BY <1>2, TxFrame DEF TxKeeps
  <2>2. CASE TxLock
    BY <2>1, <2>2 DEF TxLock, Goto, Visited, SectionsOK, Thread, Places, NoThread
  <2>3. ASSUME NEW p \in Protocol, attempt_add_payload(p)
        PROVE  SectionsOK'
    BY <2>1, <2>3 DEF attempt_add_payload, GoOn, TxTimeout, TxThrow, serialize_payload, TxUnlock, Goto,
                      SectionsOK, Thread, Places
  <2>4. CASE generate_beacon
    BY <2>1, <2>4 DEF generate_beacon, TxUnlock, Goto, SectionsOK, Thread, Places
  <2>. QED  BY <1>2, <2>2, <2>3, <2>4 DEF TxSteps
<1>3. CASE RxSteps
  <2>1. UNCHANGED <<clientProtocols, areas, todo>>
    BY <1>3, RxFrame DEF RxKeeps
  <2>. QED  BY <1>3, <2>1, RxPlaces DEF RxGoes, SectionsOK, Thread, Places, NoThread
<1>4. CASE PayloadSteps
  <2>1. /\ pc' = pc \/ \E l \in {"loop", "blocked"} : pc' = [pc EXCEPT !["payload"] = l]
        /\ mutex' = mutex \/ (mutex = NoThread /\ mutex' = "payload")
    BY <1>4 DEF PayloadSteps, handle_payload_from_client, PayloadBlocks, Goto
  <2>2. UNCHANGED <<clientProtocols, areas, todo>>
    BY <1>4, PayloadFrame DEF PayloadKeeps
  <2>3. CASE mutex' = mutex
    BY <2>1, <2>2, <2>3 DEF SectionsOK, Thread, Places
  <2>4. CASE mutex = NoThread /\ mutex' = "payload"
    BY <2>1, <2>2, <2>4 DEF SectionsOK, Thread, Places, NoThread
  <2>. QED  BY <2>1, <2>3, <2>4
<1>5. CASE CommandSteps
  <2>1. TableChange /\ todo' = todo
    BY <1>5, TableStep, CommandFrame DEF CommandKeeps
  <2>2. CASE pc' = pc \/ \E l \in {"ended", "loop", "read", "stop", "blocked"} :
                              pc' = [pc EXCEPT !["command"] = l]
    BY <1>5, <2>1, <2>2, CommandPlaces DEF SectionsOK, Thread, Places, NoThread, TableChange
  <2>3. CASE pc' = [t \in Thread |-> "ended"]
    BY <1>5, <2>1, <2>3, CommandPlaces DEF SectionsOK, Thread, Places, NoThread, TableChange
  <2>. QED  BY <1>5, <2>2, <2>3, CommandPlaces DEF SectionsOK
<1>6. CASE Restart
  BY <1>6 DEF Restart, SectionsOK, Thread, Places
<1>7. CASE SocketSteps \/ QueueSteps
  BY <1>7, ClientFrame DEF DaemonKeeps, threadVars, SectionsOK
<1>. QED  BY <1>1, <1>2, <1>3, <1>4, <1>5, <1>6, <1>7, NextSteps

(***************************************************************************)
(* Operations on queues.                                                   *)
(***************************************************************************)
Item == 0 .. MaxPayloads + MaxPackets

LEMMA QueueType ==
    /\ Queue = [items : Seq(Item), has_data : BOOLEAN, pusher : {"none", "waiting", "woken"},
                locked : BOOLEAN]
    /\ EmptyQueue \in Queue /\ EmptyQueue.items = <<>>
    /\ ~ EmptyQueue.has_data /\ ~ EmptyQueue.locked
BY DEF Queue, Item, EmptyQueue

LEMMA PushQueue ==
    ASSUME NEW q \in Queue, NEW x \in Item
    PROVE  /\ Push(q, x) \in Queue
           /\ Push(q, x).items = Append(q.items, x) /\ Push(q, x).locked = q.locked
<1> DEFINE s == Append(q.items, x)
<1>1. q.items \in Seq(Item) /\ s \in Seq(Item)
  BY QueueType, AppendProperties
<1>2. PICK u : u = [q EXCEPT !.items = s]
  OBVIOUS
<1>3. PICK v : v = [u EXCEPT !.has_data = TRUE]
  OBVIOUS
<1>4. Push(q, x) = [v EXCEPT !.pusher = "none"]
  BY <1>2, <1>3 DEF Push
<1> HIDE DEF s
<1>5. u \in Queue /\ u.items = s /\ u.locked = q.locked
  BY <1>1, <1>2, QueueType
<1>6. v \in Queue /\ v.items = s /\ v.locked = q.locked
  BY <1>3, <1>5, QueueType
<1>7. /\ Push(q, x) \in Queue
      /\ Push(q, x).items = s /\ Push(q, x).locked = q.locked
  BY <1>4, <1>6, QueueType
<1>. QED  BY <1>7 DEF s

LEMMA PopQueue ==
    ASSUME NEW q \in Queue, q.items # <<>>
    PROVE  /\ Pop(q) \in Queue
           /\ Pop(q).items = Tail(q.items) /\ Pop(q).locked = q.locked
           /\ Pop(q).has_data => Pop(q).items # <<>>
<1> DEFINE s == Tail(q.items)
           w == Woken(q)
<1>1. q.items \in Seq(Item) /\ s \in Seq(Item)
  BY QueueType, HeadTailProperties
<1>2. PICK b \in BOOLEAN : b = (s # <<>>)
  OBVIOUS
<1>3. w \in {"none", "waiting", "woken"}
  BY QueueType DEF Woken
<1>4. PICK u : u = [q EXCEPT !.items = s]
  OBVIOUS
<1>5. PICK v : v = [u EXCEPT !.has_data = b]
  OBVIOUS
<1>6. Pop(q) = [v EXCEPT !.pusher = w]
  BY <1>2, <1>4, <1>5, Zenon DEF Pop
<1> HIDE DEF s, w
<1>7. u \in Queue /\ u.items = s /\ u.locked = q.locked
  BY <1>1, <1>4, QueueType
<1>8. v \in Queue /\ v.items = s /\ v.locked = q.locked /\ (v.has_data => b)
  BY <1>5, <1>7, QueueType
<1>9. /\ Pop(q) \in Queue
      /\ Pop(q).items = s /\ Pop(q).locked = q.locked /\ (Pop(q).has_data => b)
  BY <1>3, <1>6, <1>8, QueueType
<1>. QED  BY <1>2, <1>9 DEF s

LEMMA ResetQueue ==
    ASSUME NEW q \in Queue
    PROVE  /\ Reset(q) \in Queue
           /\ Reset(q).items = <<>> /\ Reset(q).locked = q.locked /\ Reset(q).has_data = q.has_data
BY QueueType DEF Reset

LEMMA TakenInVainQueue ==
    ASSUME NEW q \in Queue, q.items # <<>>, NEW t, t = [q EXCEPT !.items = Tail(@)]
    PROVE  /\ t \in Queue
           /\ t.items = Tail(q.items) /\ t.locked = q.locked /\ t.has_data = q.has_data
<1>1. Tail(q.items) \in Seq(Item)
  BY QueueType, HeadTailProperties
<1>. QED  BY <1>1, QueueType

LEMMA PusherQueue ==
    ASSUME NEW q \in Queue, NEW w \in {"none", "waiting", "woken"}, NEW t,
           t = [q EXCEPT !.pusher = w]
    PROVE  /\ t \in Queue
           /\ t.items = q.items /\ t.locked = q.locked /\ t.has_data = q.has_data
BY QueueType

LEMMA WaitingQueue ==
    ASSUME NEW q \in Queue, NEW t, t \in {Waiting(q), TimedOut(q)}
    PROVE  /\ t \in Queue
           /\ t.items = q.items /\ t.locked = q.locked /\ t.has_data = q.has_data
BY PusherQueue DEF Waiting, TimedOut

LEMMA PushForceQueue ==
    ASSUME NEW q \in Queue, NEW x \in Item, NEW n \in Nat \ {0}
    PROVE  /\ PushForce(q, x, n) \in Queue /\ PushForce(q, x, n).locked = q.locked
           /\ PushForce(q, x, n).items = Append(IF Len(q.items) = n THEN Tail(q.items) ELSE q.items, x)
<1> DEFINE s == IF Len(q.items) = n THEN Tail(q.items) ELSE q.items
           t == [q EXCEPT !.items = s]
<1>1. q.items \in Seq(Item)
  BY QueueType
<1>2. s \in Seq(Item)
  <2>1. CASE Len(q.items) = n
    <3>1. q.items # <<>>
      BY <1>1, <2>1
    <3>. QED  BY <1>1, <2>1, <3>1, HeadTailProperties
  <2>. QED  BY <1>1, <2>1
<1>3. t \in Queue /\ t.items = s /\ t.locked = q.locked
  BY <1>2, QueueType
<1>4. PushForce(q, x, n) = Push(t, x)
  BY DEF PushForce
<1> HIDE DEF s, t
<1>5. Push(t, x) \in Queue /\ Push(t, x).items = Append(s, x) /\ Push(t, x).locked = q.locked
  BY <1>3, PushQueue
<1>. QED  BY <1>4, <1>5 DEF s

(***************************************************************************)
(* The beacon assembled and the one received.                              *)
(***************************************************************************)
LEMMA ScenarioKept ==
    ASSUME Next
    PROVE  scenario' = scenario
<1>1. CASE Loops \/ SocketSteps \/ QueueSteps
  BY <1>1, LoopFrame, ClientFrame DEF LoopKeeps, DaemonKeeps, runVars
<1>2. CASE TxSteps \/ RxSteps
  BY <1>2, TxFrame, RxFrame DEF TxKeeps, RxKeeps, runVars
<1>3. CASE PayloadSteps \/ CommandSteps
  BY <1>3, PayloadFrame, CommandFrame DEF PayloadKeeps, CommandKeeps, runVars
<1>4. CASE Restart
  BY <1>4 DEF Restart
<1>. QED  BY <1>1, <1>2, <1>3, <1>4, NextSteps

LEMMA BeaconKept ==
    ASSUME Loops \/ RxSteps \/ PayloadSteps \/ CommandSteps \/ SocketSteps \/ QueueSteps
    PROVE  UNCHANGED <<beacon, sent, todo>>
<1>1. CASE Loops \/ SocketSteps \/ QueueSteps
  BY <1>1, LoopFrame, ClientFrame DEF LoopKeeps, DaemonKeeps, threadVars
<1>2. CASE RxSteps
  BY <1>2, RxFrame DEF RxKeeps
<1>3. CASE PayloadSteps \/ CommandSteps
  BY <1>3, PayloadFrame, CommandFrame DEF PayloadKeeps, CommandKeeps
<1>. QED  BY <1>1, <1>2, <1>3

\* The beacon with a payload of p.
WithPayload(p) == [payloads |-> Append(beacon.payloads, <<p, Head(txq[p].items)>>),
                   used |-> beacon.used + PayloadHeaderSize + scenario.size[p]]

\* What a visit to the queue of p does to the beacon and the queue.
Visits(p) ==
    \/ beacon' = NoBeacon /\ txq' = txq
    \/ beacon' = beacon /\ txq' = txq
    \/ beacon' = NoBeacon /\ txq[p].items # <<>> /\ txq' = [txq EXCEPT ![p] = TakenInVain(p)]
    \/ /\ txq[p].items # <<>> /\ Room(p) /\ txq' = [txq EXCEPT ![p] = Taken(p)]
       /\ beacon' = NoBeacon \/ (beacon' = WithPayload(p) /\ todo' = todo \ {p})

LEMMA VisitStep ==
    ASSUME NEW p \in Protocol, attempt_add_payload(p)
    PROVE  Visits(p) /\ p \in todo /\ todo' \subseteq todo
BY DEF attempt_add_payload, GoOn, TxTimeout, TxThrow, serialize_payload, TxUnlock, Visits, WithPayload

LEMMA WithPayloadType ==
    ASSUME BPAssumption, FlagsOK, beacon \in Beacon, QueuesOK,
           NEW p \in Protocol, txq[p].items # <<>>, Room(p)
    PROVE  WithPayload(p) \in Beacon
<1>1. txq[p].items \in Seq(Item)
  BY QueueType DEF QueuesOK
<1>2. Head(txq[p].items) \in Nat
  <2>1. Head(txq[p].items) \in Item
    BY <1>1, HeadTailProperties
  <2>. QED  BY <2>1, Constants DEF Item
<1>3. Append(beacon.payloads, <<p, Head(txq[p].items)>>) \in Seq(Protocol \X Nat)
  <2>1. <<p, Head(txq[p].items)>> \in Protocol \X Nat
    BY <1>2
  <2>. QED  BY <2>1, AppendProperties DEF Beacon
<1>4. beacon.used + PayloadHeaderSize + scenario.size[p] \in 0 .. MaxBeaconSize
  <2>1. scenario.size[p] \in Nat
    BY ScenarioTypes DEF FlagsOK
  <2>2. beacon.used \in Nat /\ PayloadHeaderSize \in Nat /\ MaxBeaconSize \in Nat
    BY Constants DEF Beacon
  <2>3. beacon.used + PayloadHeaderSize + scenario.size[p] <= MaxBeaconSize
    BY DEF Room
  <2>. QED  BY <2>1, <2>2, <2>3, SMTT(30)
<1>. QED  BY <1>3, <1>4 DEF WithPayload, Beacon

LEMMA NoBeaconType ==
    ASSUME BPAssumption
    PROVE  NoBeacon \in Beacon /\ [payloads |-> <<>>, used |-> HeaderSize] \in Beacon
<1>1. HeaderSize \in 0 .. MaxBeaconSize /\ 0 \in 0 .. MaxBeaconSize
  BY Constants
<1>. QED  BY <1>1 DEF NoBeacon, Beacon

LEMMA StepBeacon ==
    ASSUME BPAssumption, FlagsOK, beacon \in Beacon, QueuesOK, Next
    PROVE  beacon' \in Beacon
<1>1. CASE TxSteps
  <2>1. CASE TxLock
    BY <2>1, NoBeaconType DEF TxLock
  <2>2. ASSUME NEW p \in Protocol, attempt_add_payload(p)
        PROVE  beacon' \in Beacon
    BY <2>2, VisitStep, WithPayloadType, NoBeaconType DEF Visits
  <2>3. CASE generate_beacon
    BY <2>3, NoBeaconType DEF generate_beacon, TxUnlock
  <2>. QED  BY <1>1, <2>1, <2>2, <2>3 DEF TxSteps
<1>2. CASE Restart
  BY <1>2, NoBeaconType DEF Restart
<1>. QED  BY <1>1, <1>2, BeaconKept, NextSteps

LEMMA StepPacket ==
    ASSUME BPAssumption, FlagsOK, SectionsOK, PacketOK, Next
    PROVE  PacketOK'
<1>1. scenario' = scenario /\ scenario.packets \subseteq Packet /\ scenario.beacons \in Nat
  <2>1. scenario.beacons \in 0 .. MaxPackets /\ MaxPackets \in Nat
    BY ScenarioTypes, Constants DEF FlagsOK
  <2>. QED  BY <2>1, ScenarioKept, ScenarioTypes DEF FlagsOK
<1>2. \A f \in Packet \cup {NoPacket} : Len(f.payloads) \in Nat
  <2>1. \A f \in Packet : f.payloads \in Seq([protocolId : Nat, length : Nat])
    BY DEF Packet
  <2>2. Len(NoPacket.payloads) = 0
    BY DEF NoPacket
  <2>. QED  BY <2>1, <2>2, LenProperties
<1>3. CASE Loops \/ TxSteps \/ PayloadSteps \/ SocketSteps \/ QueueSteps
  <2>1. UNCHANGED rxVars
    BY <1>3, LoopFrame, TxFrame, PayloadFrame, ClientFrame
    DEF LoopKeeps, TxKeeps, PayloadKeeps, DaemonKeeps
  <2>2. pc'["receiver"] = "deliver" => pc["receiver"] = "deliver"
    <3>1. CASE Loops
      BY <3>1, LoopFrame DEF SectionsOK, Thread
    <3>2. CASE TxSteps
      BY <3>2 DEF TxSteps, TxLock, attempt_add_payload, GoOn, TxTimeout, TxThrow, serialize_payload,
                  TxUnlock, generate_beacon, Goto, SectionsOK, Thread
    <3>3. CASE PayloadSteps
      BY <3>3 DEF PayloadSteps, handle_payload_from_client, PayloadBlocks, Goto, SectionsOK, Thread
    <3>4. CASE SocketSteps \/ QueueSteps
      BY <3>4, ClientFrame DEF DaemonKeeps, threadVars
    <3>. QED  BY <1>3, <3>1, <3>2, <3>3, <3>4
  <2>. QED  BY <1>1, <2>1, <2>2 DEF PacketOK, rxVars
<1>4. CASE CommandSteps
  <2>1. UNCHANGED rxVars
    BY <1>4, CommandFrame DEF CommandKeeps
  <2>2. pc'["receiver"] = "deliver" => pc["receiver"] = "deliver"
    BY <1>4, CommandPlaces DEF SectionsOK, Thread
  <2>. QED  BY <1>1, <2>1, <2>2 DEF PacketOK, rxVars
<1>5. CASE Restart
  BY <1>1, <1>5 DEF Restart, PacketOK, NoPacket, Thread
<1>6. CASE RxPacket
  BY <1>1, <1>2, <1>6, SMTT(30) DEF RxPacket, PacketOK, Goto, SectionsOK, Thread
<1>7. CASE RxPayload \/ RxDelivered
  <2>1. RxHandles /\ UNCHANGED <<packet, received>>
    BY <1>7, RxHandling
  <2>2. parsed < Len(packet.payloads) /\ parsed \in Nat /\ Len(packet.payloads) \in Nat
    BY <1>1, <1>2, <1>7, RxHandling DEF PacketOK
  <2>3. parsed' \in {parsed, parsed + 1}
        /\ (pc'["receiver"] = "deliver" => parsed' = parsed)
    BY <2>1 DEF RxHandles, Deliver, RxThrow, Goto, SectionsOK, Thread
  <2>. QED  BY <1>1, <2>1, <2>2, <2>3 DEF PacketOK
<1>9. CASE RxDone
  BY <1>1, <1>2, <1>9 DEF RxDone, PacketOK, NoPacket, Goto, SectionsOK, Thread
<1>. QED  BY <1>3, <1>4, <1>5, <1>6, <1>7, <1>9, NextSteps DEF RxSteps

(***************************************************************************)
(* Queues, and the numbers of payloads.                                    *)
(***************************************************************************)
LEMMA Numbers ==
    ASSUME BPAssumption, FlagsOK, PacketOK, AppsOK
    PROVE  /\ received \in Item /\ received + 1 \in Nat
           /\ \A p \in Protocol : /\ submitted[p] \in Item
                                  /\ submitted[p] < scenario.payloads => submitted[p] + 1 \in Item
           /\ Item \subseteq Nat
<1>1. scenario.payloads \in 0 .. MaxPayloads /\ scenario.beacons \in 0 .. MaxPackets
  BY ScenarioTypes DEF FlagsOK
<1>2. MaxPayloads \in Nat /\ MaxPackets \in Nat
  BY Constants
<1>3. received \in 0 .. scenario.beacons
  BY DEF PacketOK
<1>4. ASSUME NEW p \in Protocol
      PROVE  submitted[p] \in Nat /\ submitted[p] <= scenario.payloads
  BY DEF AppsOK
<1>. QED  BY <1>1, <1>2, <1>3, <1>4, SMTT(30) DEF Item

\* What one step of a client may do to the queue q of payloads to be sent of p.
QueueUses(p) ==
    \/ /\ scenario.mode[p] \in {"ONCE", "REPEAT"}
       /\ txq' = [txq EXCEPT ![p] = Reset(txq[p])] /\ submitted' = submitted
    \/ txq' = txq /\ submitted' = submitted
    \/ txq' = txq /\ submitted' = [submitted EXCEPT ![p] = submitted[p] + 1]
    \/ /\ scenario.mode[p] = "QUEUE_DROPHEAD" /\ app[p] = "on"
       /\ txq' = [txq EXCEPT ![p] = PushForce(txq[p], submitted[p] + 1, scenario.entries[p])]
       /\ submitted' = [submitted EXCEPT ![p] = submitted[p] + 1]
    \/ /\ txq' = [txq EXCEPT ![p] = Push(txq[p], submitted[p] + 1)]
       /\ submitted' = [submitted EXCEPT ![p] = submitted[p] + 1]
    \/ txq' = [txq EXCEPT ![p] = Waiting(txq[p])] /\ submitted' = submitted
    \/ /\ txq' = [txq EXCEPT ![p] = TimedOut(txq[p])]
       /\ submitted' = [submitted EXCEPT ![p] = submitted[p] + 1]

LEMMA UseSteps ==
    ASSUME QueuesOK, AppsOK, NEW p \in Protocol, TransmitPayload(p) \/ push_wait(p)
    PROVE  /\ QueueUses(p) /\ UNCHANGED <<ind, got>>
           /\ app[p] \in {"on", "pushing"}
           /\ \E l \in {"on", "pushing"} : \/ app' = [app EXCEPT ![p] = l]
                                           \/ app' = app
           /\ submitted' # submitted =>
                 \/ app[p] = "on" /\ submitted[p] < scenario.payloads /\ app' = app
                 \/ app[p] = "pushing" /\ app' = [app EXCEPT ![p] = "on"]
           /\ app' # app /\ submitted' = submitted => submitted[p] < scenario.payloads
<1>1. CASE TransmitPayload(p)
  <2>1. /\ app[p] = "on" /\ submitted[p] < scenario.payloads
        /\ UNCHANGED <<ind, got>>
    BY <1>1 DEF TransmitPayload, ClientKeeps
  <2>2. QueueUses(p)
    <3>1. [txq EXCEPT ![p] = txq[p]] = txq
      BY DEF QueuesOK
    <3>2. CASE /\ scenario.mode[p] \in {"ONCE", "REPEAT"}
               /\ txq' = [txq EXCEPT ![p] = Reset(@)] /\ submitted' = submitted
      BY <3>2 DEF QueueUses
    <3>3. CASE /\ scenario.mode[p] = "QUEUE_DROPHEAD"
               /\ Submit(p, PushForce(txq[p], submitted[p] + 1, scenario.entries[p]))
      BY <2>1, <3>3 DEF Submit, QueueUses
    <3>4. CASE Submit(p, txq[p])
      BY <3>1, <3>4 DEF Submit, QueueUses
    <3>5. CASE txq' = txq /\ submitted' = submitted
      BY <3>5 DEF QueueUses
    <3>. QED  BY <1>1, <3>2, <3>3, <3>4, <3>5 DEF TransmitPayload
  <2>3. \/ app' = app \/ (app' = [app EXCEPT ![p] = "pushing"] /\ submitted' = submitted)
    BY <1>1 DEF TransmitPayload, AppGoto
  <2>. QED  BY <2>1, <2>2, <2>3
<1>2. CASE push_wait(p)
  <2>1. app[p] = "pushing" /\ UNCHANGED <<ind, got>>
    BY <1>2 DEF push_wait, ClientKeeps
  <2>2. QueueUses(p)
    BY <1>2 DEF push_wait, Submit, QueueUses
  <2>3. \/ app' = app /\ submitted' = submitted
        \/ app' = [app EXCEPT ![p] = "on"] /\ submitted' = [submitted EXCEPT ![p] = @ + 1]
    BY <1>2 DEF push_wait, AppGoto, Submit
  <2>4. CASE app' = app /\ submitted' = submitted
    BY <2>1, <2>2, <2>4
  <2>5. CASE app' = [app EXCEPT ![p] = "on"] /\ submitted' = [submitted EXCEPT ![p] = @ + 1]
    <3>1. submitted[p] \in Nat /\ submitted'[p] = submitted[p] + 1
      BY <2>5 DEF AppsOK
    <3>2. submitted' # submitted
      BY <3>1
    <3>. QED  BY <2>1, <2>2, <2>5, <3>2
  <2>. QED  BY <2>3, <2>4, <2>5
<1>. QED  BY <1>1, <1>2

\* Steps on the socket leave the queues alone, but for a client that gives up.
LEMMA SocketFrame ==
    ASSUME SocketSteps
    PROVE  /\ UNCHANGED <<ind, submitted, got>>
           /\ txq' = txq \/ \E p \in Protocol : txq' = [txq EXCEPT ![p] = TimedOut(@)]
           /\ \E c \in Client, l \in {"off", "opening", "closing", "asking", "leaving", "on"} :
                app' = [app EXCEPT ![c] = l]
<1>1. UNCHANGED <<ind, submitted, got>>
  BY DEF SocketSteps, Connect, SendRequest, ReadResponse, GiveUp, LeaveAfterShutDown, queueVars
<1>2. txq' = txq \/ \E p \in Protocol : txq' = [txq EXCEPT ![p] = TimedOut(@)]
  BY DEF SocketSteps, Connect, SendRequest, ReadResponse, GiveUp, LeaveAfterShutDown, queueVars
<1>3. ASSUME NEW c \in Client, Connect(c) \/ SendRequest(c) \/ ReadResponse(c) \/ GiveUp(c)
      PROVE  \E l \in {"off", "opening", "closing", "asking", "leaving", "on"} :
                app' = [app EXCEPT ![c] = l]
  BY <1>3 DEF Connect, SendRequest, ReadResponse, GiveUp, AppGoto
<1>4. LeaveAfterShutDown => \E c \in Client : app' = [app EXCEPT ![c] = "off"]
  BY BPAssumption DEF LeaveAfterShutDown, AppGoto, BPAssumption
<1>. QED  BY <1>1, <1>2, <1>3, <1>4 DEF SocketSteps

\* The steps of the daemon leave the clients alone.
LEMMA AppsKept ==
    ASSUME Loops \/ TxSteps \/ RxSteps \/ PayloadSteps \/ CommandSteps \/ Restart
    PROVE  UNCHANGED <<app, submitted, got>>
<1>1. CASE Loops \/ TxSteps
  BY <1>1, LoopFrame, TxFrame DEF LoopKeeps, TxKeeps, clientVars
<1>2. CASE RxSteps \/ PayloadSteps
  BY <1>2, RxFrame, PayloadFrame DEF RxKeeps, PayloadKeeps, clientVars
<1>3. CASE CommandSteps \/ Restart
  BY <1>3, CommandFrame DEF CommandKeeps, Restart, clientVars
<1>. QED  BY <1>1, <1>2, <1>3

LEMMA StepSent ==
    ASSUME BPAssumption, beacon \in Beacon, AppsOK, Next
    PROVE  sent' \in [Protocol -> Nat]
<1>1. CASE generate_beacon
  <2>1. ASSUME NEW p \in Protocol
        PROVE  (IF SentNow(p) = {} THEN sent[p]
                ELSE beacon.payloads[CHOOSE x \in SentNow(p) : TRUE][2]) \in Nat
    <3>1. CASE SentNow(p) # {}
      <4>1. PICK x \in SentNow(p) : x = CHOOSE y \in SentNow(p) : TRUE
        BY <3>1
      <4>2. beacon.payloads \in Seq(Protocol \X Nat) /\ x \in 1 .. Len(beacon.payloads)
        BY <4>1 DEF SentNow, Beacon
      <4>3. beacon.payloads[x] \in Protocol \X Nat
        BY <4>2, ElementOfSeq
      <4>. QED  BY <3>1, <4>1, <4>3
    <3>2. CASE SentNow(p) = {}
      BY <3>2 DEF AppsOK
    <3>. QED  BY <3>1, <3>2
  <2>. QED  BY <1>1, <2>1 DEF generate_beacon
<1>2. CASE TxSteps /\ ~ generate_beacon
  BY <1>2 DEF TxSteps, TxLock, attempt_add_payload, AppsOK
<1>3. CASE Restart
  BY <1>3 DEF Restart, AppsOK
<1>. QED  BY <1>1, <1>2, <1>3, BeaconKept, NextSteps DEF AppsOK

LEMMA StepApps ==
    ASSUME BPAssumption, FlagsOK, beacon \in Beacon, PacketOK, AppsOK, QueuesOK, Next
    PROVE  AppsOK'
<1>1. sent' \in [Protocol -> Nat] /\ scenario' = scenario
  BY StepSent, ScenarioKept
<1>2. scenario.payloads \in Nat
  BY ScenarioTypes, Constants DEF FlagsOK
<1>3. CASE Loops \/ TxSteps \/ RxSteps \/ PayloadSteps \/ CommandSteps \/ Restart
  BY <1>1, <1>3, AppsKept DEF AppsOK
<1>4. CASE SocketSteps
  <2>1. PICK c \in Client, l \in {"off", "opening", "closing", "asking", "leaving", "on"} :
            app' = [app EXCEPT ![c] = l]
    BY <1>4, SocketFrame
  <2>2. app' \in [Client -> AppStates]
    BY <2>1 DEF AppsOK, AppStates
  <2>3. \A p \in Protocol : app'[p] = "pushing" => app[p] = "pushing"
    BY <2>1, Constants DEF AppsOK
  <2>. QED  BY <1>1, <1>4, <2>2, <2>3, SocketFrame DEF AppsOK
<1>5. ASSUME NEW p \in Protocol, TransmitPayload(p) \/ push_wait(p)
      PROVE  AppsOK'
  <2>1. got' = got /\ p \in Client
    BY <1>5, UseSteps, Constants
  <2>2. submitted' = submitted \/ submitted' = [submitted EXCEPT ![p] = @ + 1]
    BY <1>5, UseSteps DEF QueueUses
  <2>3. app' \in [Client -> AppStates]
    BY <1>5, UseSteps DEF AppsOK, AppStates
  <2>4. submitted' \in [Protocol -> Nat]
    <3>1. submitted \in [Protocol -> Nat] /\ submitted[p] + 1 \in Nat
      BY DEF AppsOK
    <3>. QED  BY <2>2, <3>1
  <2>5. ASSUME NEW o \in Protocol, submitted' = submitted
        PROVE  submitted'[o] <= scenario.payloads /\
               (app'[o] = "pushing" => submitted'[o] < scenario.payloads)
    <3>1. app'[o] = app[o] \/ (o = p /\ app' # app)
      BY <1>5, UseSteps DEF AppsOK
    <3>. QED  BY <1>5, <2>5, <3>1, UseSteps DEF AppsOK
  <2>6. ASSUME NEW o \in Protocol, submitted' # submitted
        PROVE  submitted'[o] <= scenario.payloads /\
               (app'[o] = "pushing" => submitted'[o] < scenario.payloads)
    <3>1. submitted[p] < scenario.payloads /\ app'[p] = "on"
          /\ (o # p => app'[o] = app[o])
      BY <1>5, <2>1, <2>6, UseSteps, SMTT(30) DEF AppsOK
    <3>2. submitted' = [submitted EXCEPT ![p] = @ + 1]
      BY <2>2, <2>6
    <3>3. CASE o = p
      BY <1>2, <3>1, <3>2, <3>3, SMTT(30) DEF AppsOK
    <3>4. CASE o # p
      BY <3>1, <3>2, <3>4 DEF AppsOK
    <3>. QED  BY <3>3, <3>4
  <2>. QED  BY <1>1, <2>1, <2>3, <2>4, <2>5, <2>6 DEF AppsOK
<1>6. ASSUME NEW p \in Protocol, ReceivePayload(p)
      PROVE  AppsOK'
  <2>1. Head(ind[p].items) \in Nat
    <3>1. ind[p].items \in Seq(Item) /\ ind[p].items # <<>>
      BY <1>6, QueueType DEF QueuesOK, ReceivePayload
    <3>2. Head(ind[p].items) \in Item
      BY <3>1, HeadTailProperties
    <3>. QED  BY <3>2, Numbers
  <2>. QED  BY <1>1, <1>6, <2>1 DEF ReceivePayload, AppsOK
<1>7. ASSUME NEW p \in Protocol, DieInQueue(p)
      PROVE  AppsOK'
  BY <1>1, <1>7, Constants DEF DieInQueue, AppGoto, AppsOK, AppStates
<1>. QED  BY <1>3, <1>4, <1>5, <1>6, <1>7, NextSteps DEF QueueSteps

LEMMA TakenQueue ==
    ASSUME QueuesOK, NEW p \in Protocol, txq[p].items # <<>>
    PROVE  /\ Taken(p) \in Queue /\ Taken(p).locked = txq[p].locked
           /\ Taken(p).items = IF scenario.mode[p] = "REPEAT" THEN txq[p].items ELSE Tail(txq[p].items)
           /\ TakenInVain(p) \in Queue /\ TakenInVain(p).locked = txq[p].locked
           /\ TakenInVain(p).items = Taken(p).items
           /\ scenario.mode[p] # "REPEAT" /\ Taken(p).has_data => Taken(p).items # <<>>
<1>1. txq[p] \in Queue
  BY DEF QueuesOK
<1>2. CASE scenario.mode[p] = "REPEAT"
  BY <1>1, <1>2 DEF Taken, TakenInVain
<1>3. CASE scenario.mode[p] # "REPEAT"
  <2>1. Taken(p) = Pop(txq[p]) /\ TakenInVain(p) = [txq[p] EXCEPT !.items = Tail(@)]
    BY <1>3 DEF Taken, TakenInVain
  <2>2. /\ Taken(p) \in Queue /\ Taken(p).locked = txq[p].locked
        /\ Taken(p).items = Tail(txq[p].items) /\ (Taken(p).has_data => Taken(p).items # <<>>)
    BY <1>1, <2>1, PopQueue
  <2>3. /\ TakenInVain(p) \in Queue /\ TakenInVain(p).locked = txq[p].locked
        /\ TakenInVain(p).items = Tail(txq[p].items)
    BY <1>1, <2>1, TakenInVainQueue
  <2>. QED  BY <1>3, <2>2, <2>3
<1>. QED  BY <1>2, <1>3

\* What a receiver may do to the queues of payloads received, or a client that takes one.
Deliveries ==
    \/ ind' = ind
    \/ \E p \in Protocol :
        \/ ind' = [ind EXCEPT ![p] = Push(ind[p], received)]
        \/ ind' = [ind EXCEPT ![p] = Waiting(ind[p])]
        \/ ind' = [ind EXCEPT ![p] = TimedOut(ind[p])]

LEMMA RxDeliveries ==
    ASSUME QueuesOK, SectionsOK, RxSteps
    PROVE  Deliveries
<1>1. CASE RxPacket \/ RxDone
  BY <1>1 DEF RxPacket, RxDone, Deliveries
<1> DEFINE p == CurrentPayload.protocolId
<1>2. CASE RxPayload \/ RxDelivered
  <2>1. \/ ind' = ind
        \/ ind' = [ind EXCEPT ![p] = Push(ind[p], received)]
        \/ ind' = [ind EXCEPT ![p] = Waiting(ind[p])]
        \/ ind' = [ind EXCEPT ![p] = TimedOut(ind[p])]
    BY <1>2, RxHandling DEF RxHandles, Deliver, RxThrow
  <2> HIDE DEF p
  <2>2. CASE p \in Protocol
    BY <2>1, <2>2 DEF Deliveries
  <2>3. CASE p \notin Protocol
    <3>1. ind' = ind
      BY <2>1, <2>3 DEF QueuesOK
    <3>. QED  BY <3>1 DEF Deliveries
  <2>. QED  BY <2>2, <2>3
<1>. QED  BY <1>1, <1>2 DEF RxSteps

\* What the daemon does to the queues for a request.
Requests ==
    \/ UNCHANGED queueVars
    \/ \E p \in Protocol :
        \/ txq' = [txq EXCEPT ![p] = EmptyQueue] /\ ind' = [ind EXCEPT ![p] = EmptyQueue]
        \/ /\ txq' = [txq EXCEPT ![p] = Reset(txq[p])] /\ ind' = ind
           /\ HasRequest /\ TheRequest.s_type = "ClearBuffer"

LEMMA CommandRequests ==
    ASSUME BPAssumption, FlagsOK, SocketOK, CommandSteps
    PROVE  Requests
<1>1. CASE HandleRequest
  <2>1. HasRequest /\ Effect(TheRequest)
    BY <1>1 DEF HandleRequest
  <2>2. CASE TheRequest.s_type = "RegisterProtocol"
    <3>1. TheRequest.protocolId \in Protocol
      BY <2>1, <2>2, RegistrationTypes
    <3>. QED  BY <2>1, <2>2, <3>1 DEF Effect, RegisterProtocol, queueVars, Requests
  <2>3. CASE TheRequest.s_type = "ClearBuffer"
    <3>1. TheRequest \in Request \cup Registration
      BY <2>1, RequestTypes
    <3>2. TheRequest.protocolId \in Protocol
      BY <2>3, <3>1 DEF Request, Registration
    <3>. QED  BY <2>1, <2>3, <3>2 DEF Effect, ClearBuffer, queueVars, Requests
  <2>4. CASE TheRequest.s_type \notin {"RegisterProtocol", "ClearBuffer"}
    BY <2>1, <2>4 DEF Effect, DeregisterProtocol, SetActive, Requests
  <2>. QED  BY <2>2, <2>3, <2>4
<1>2. CASE CommandSteps /\ ~ HandleRequest
  BY <1>2 DEF CommandSteps, CommandLoop, ReadNothing, ShutDown, HandlerThrows, HandlerBlocks,
              CommandStop, Requests
<1>. QED  BY <1>1, <1>2

\* The payload management, which discards payloads only when the daemon is inactive or ends.
LEMMA PayloadResets ==
    ASSUME PayloadSteps
    PROVE  \/ txq' = txq
           \/ Discards /\ \E ps \in SUBSET Protocol : ResetAll(ps)
<1>1. CASE handle_payload_from_client
  <2>1. \A n : From(n) \cap Protocol \in SUBSET Protocol
    OBVIOUS
  <2>2. \A n : ResetAll(From(n)) <=> ResetAll(From(n) \cap Protocol)
    BY DEF ResetAll
  <2>. QED  BY <1>1, <2>1, <2>2 DEF handle_payload_from_client
<1>2. CASE PayloadBlocks
  <2>1. PICK n \in Protocol : \E p \in From(n) : ResetAll({o \in From(n) : o < p})
    BY <1>2 DEF PayloadBlocks
  <2>2. PICK p \in From(n) : ResetAll({o \in From(n) : o < p})
    BY <2>1
  <2>3. ResetAll({o \in From(n) : o < p} \cap Protocol)
    BY <2>2 DEF ResetAll
  <2>. QED  BY <1>2, <2>3 DEF PayloadBlocks
<1>. QED  BY <1>1, <1>2 DEF PayloadSteps

\* Payloads to be sent: whom the queues meet.
LEMMA QueuesKept ==
    ASSUME Loops \/ TxSteps \/ RxSteps \/ PayloadSteps \/ Restart
    PROVE  /\ Loops \/ Restart => UNCHANGED queueVars
           /\ TxSteps \/ PayloadSteps => ind' = ind
           /\ RxSteps \/ TxLock \/ generate_beacon => txq' = txq
<1>1. Loops \/ Restart => UNCHANGED queueVars
  BY LoopFrame DEF LoopKeeps, Restart
<1>2. TxSteps \/ PayloadSteps => ind' = ind
  BY TxFrame, PayloadFrame DEF TxKeeps, PayloadKeeps
<1>3. RxSteps \/ TxLock \/ generate_beacon => txq' = txq
  BY RxFrame DEF RxKeeps, TxLock, generate_beacon, queueVars
<1>. QED  BY <1>1, <1>2, <1>3

LEMMA UsedQueue ==
    ASSUME BPAssumption, FlagsOK, PacketOK, AppsOK, QueuesOK, RegistrationsOK,
           NEW p \in Protocol, TransmitPayload(p) \/ push_wait(p)
    PROVE  txq' \in [Protocol -> Queue]
<1>1. txq[p] \in Queue /\ QueueUses(p)
  BY UseSteps DEF QueuesOK
<1>2. submitted' = [submitted EXCEPT ![p] = submitted[p] + 1] => submitted[p] + 1 \in Item
  <2>1. ASSUME submitted' = [submitted EXCEPT ![p] = submitted[p] + 1]
        PROVE  submitted[p] + 1 \in Item
    <3>1. submitted[p] \in Nat /\ submitted'[p] = submitted[p] + 1
      BY <2>1 DEF AppsOK
    <3>2. submitted' # submitted
      BY <3>1
    <3>3. submitted[p] < scenario.payloads
      BY <3>2, UseSteps DEF AppsOK
    <3>. QED  BY <3>3, Numbers
  <2>. QED  BY <2>1
<1>3. scenario.mode[p] = "QUEUE_DROPHEAD" /\ app[p] = "on" => scenario.entries[p] \in Nat \ {0}
  BY ScenarioTypes DEF FlagsOK, RegistrationsOK, Served, Roomy
<1>4. CASE txq' = txq \/ txq' = [txq EXCEPT ![p] = Reset(txq[p])]
  BY <1>1, <1>4, ResetQueue DEF QueuesOK
<1>5. CASE \/ txq' = [txq EXCEPT ![p] = Waiting(txq[p])]
           \/ txq' = [txq EXCEPT ![p] = TimedOut(txq[p])]
  BY <1>1, <1>5, WaitingQueue DEF QueuesOK
<1>6. CASE /\ txq' = [txq EXCEPT ![p] = Push(txq[p], submitted[p] + 1)]
           /\ submitted' = [submitted EXCEPT ![p] = submitted[p] + 1]
  BY <1>1, <1>2, <1>6, PushQueue DEF QueuesOK
<1>7. CASE /\ scenario.mode[p] = "QUEUE_DROPHEAD" /\ app[p] = "on"
           /\ txq' = [txq EXCEPT ![p] = PushForce(txq[p], submitted[p] + 1, scenario.entries[p])]
           /\ submitted' = [submitted EXCEPT ![p] = submitted[p] + 1]
  <2>1. PushForce(txq[p], submitted[p] + 1, scenario.entries[p]) \in Queue
    BY <1>1, <1>2, <1>3, <1>7, PushForceQueue
  <2>. QED  BY <1>7, <2>1 DEF QueuesOK
<1>. QED  BY <1>1, <1>4, <1>5, <1>6, <1>7 DEF QueueUses

\* A client that dies leaves the payloads where they are.
LEMMA DeathInQueue ==
    ASSUME QueuesOK, NEW p \in Protocol, DieInQueue(p)
    PROVE  \E t, r \in Queue : /\ txq' = [txq EXCEPT ![p] = t] /\ t.items = txq[p].items
                               /\ ind' = [ind EXCEPT ![p] = r] /\ r.items = ind[p].items
<1> DEFINE q == txq[p]
           i == ind[p]
<1>1. q \in Queue /\ i \in Queue
  BY DEF QueuesOK
<1>2. PICK u : u = [q EXCEPT !.locked = TRUE]
  OBVIOUS
<1>3. PICK v : v = [u EXCEPT !.pusher = "none"]
  OBVIOUS
<1>4. PICK w : w = [q EXCEPT !.pusher = "none"]
  OBVIOUS
<1>5. PICK x : x = [i EXCEPT !.locked = TRUE]
  OBVIOUS
<1>6. u \in Queue /\ u.items = q.items
  BY <1>1, <1>2 DEF Queue
<1>7. v \in Queue /\ v.items = q.items
  BY <1>3, <1>6 DEF Queue
<1>8. w \in Queue /\ w.items = q.items
  BY <1>1, <1>4 DEF Queue
<1>9. x \in Queue /\ x.items = i.items
  BY <1>1, <1>5 DEF Queue
<1>10. [ind EXCEPT ![p] = i] = ind
  BY DEF QueuesOK
<1>11. \/ txq' = [txq EXCEPT ![p] = v] /\ ind' = ind
       \/ txq' = [txq EXCEPT ![p] = w] /\ ind' = [ind EXCEPT ![p] = x]
  BY <1>2, <1>3, <1>4, <1>5 DEF DieInQueue, QueuesOK
<1> HIDE DEF q, i
<1>. QED  BY <1>1, <1>7, <1>8, <1>9, <1>10, <1>11 DEF q, i

LEMMA StepQueues ==
    ASSUME BPAssumption, FlagsOK, SectionsOK, PacketOK, AppsOK, QueuesOK, SocketOK,
           RegistrationsOK, Next
    PROVE  QueuesOK'
<1>1. \A p \in Protocol : txq[p] \in Queue /\ ind[p] \in Queue
  BY DEF QueuesOK
<1>2. CASE Loops \/ Restart \/ TxLock \/ generate_beacon
  BY <1>2, QueuesKept DEF QueuesOK, queueVars, TxSteps
<1>3. ASSUME NEW p \in Protocol, attempt_add_payload(p)
      PROVE  QueuesOK'
  <2>1. Visits(p) /\ ind' = ind
    BY <1>3, VisitStep, QueuesKept DEF TxSteps
  <2>. QED  BY <2>1, TakenQueue, SMTT(30) DEF Visits, QueuesOK
<1>4. CASE RxSteps
  <2>1. Deliveries /\ txq' = txq /\ received \in Item
    BY <1>4, RxDeliveries, QueuesKept, Numbers
  <2>2. \A p \in Protocol : Push(ind[p], received) \in Queue
    BY <1>1, <2>1, PushQueue
  <2>3. \A p \in Protocol : Waiting(ind[p]) \in Queue /\ TimedOut(ind[p]) \in Queue
    BY <1>1, WaitingQueue
  <2>. QED  BY <2>1, <2>2, <2>3 DEF Deliveries, QueuesOK
<1>5. CASE PayloadSteps
  <2>1. \A p \in Protocol : Reset(txq[p]) \in Queue
    BY <1>1, ResetQueue
  <2>2. txq' = txq \/ \E ps \in SUBSET Protocol : ResetAll(ps)
    BY <1>5, PayloadResets
  <2>3. txq' \in [Protocol -> Queue]
    BY <1>1, <2>1, <2>2 DEF ResetAll, QueuesOK
  <2>. QED  BY <1>5, <2>3, QueuesKept DEF QueuesOK
<1>6. CASE CommandSteps
  <2>1. \A p \in Protocol : Reset(txq[p]) \in Queue
    BY <1>1, ResetQueue
  <2>2. EmptyQueue \in Queue /\ Requests
    BY <1>6, CommandRequests, QueueType
  <2>. QED  BY <2>1, <2>2 DEF Requests, queueVars, QueuesOK
<1>7. CASE SocketSteps
  BY <1>1, <1>7, SocketFrame, WaitingQueue DEF QueuesOK
<1>8. ASSUME NEW p \in Protocol, TransmitPayload(p) \/ push_wait(p)
      PROVE  QueuesOK'
  BY <1>8, UsedQueue, UseSteps DEF QueuesOK
<1>9. ASSUME NEW p \in Protocol, ReceivePayload(p)
      PROVE  QueuesOK'
  <2>1. Pop(ind[p]) \in Queue
    BY <1>1, <1>9, PopQueue DEF ReceivePayload
  <2>. QED  BY <1>9, <2>1 DEF ReceivePayload, QueuesOK
<1>10. ASSUME NEW p \in Protocol, DieInQueue(p)
       PROVE  QueuesOK'
  BY <1>10, DeathInQueue DEF QueuesOK
<1>. QED  BY <1>2, <1>3, <1>4, <1>5, <1>6, <1>7, <1>8, <1>9, <1>10, NextSteps DEF TxSteps, QueueSteps

(***************************************************************************)
(* Connections.                                                            *)
(***************************************************************************)
\* A connection of which less is left.
Fades(old, new) ==
    /\ new \in Conn /\ new.client = old.client /\ new.open \subseteq old.open
    /\ \/ new.request = old.request /\ new.response = old.response
       \/ new.request = NoRequest /\ new.response = NoResponse /\ new.open = {}

LEMMA CloseEndFades ==
    ASSUME NEW conn \in Conn, NEW end \in {"client", "owner"}
    PROVE  /\ Fades(conn, CloseEnd(conn, end))
           /\ CloseEnd(conn, end).open = conn.open \ {end}
<1>1. CASE conn.open \subseteq {end}
  <2>1. CloseEnd(conn, end) = Finished(conn.client)
    BY <1>1 DEF CloseEnd
  <2>2. /\ Finished(conn.client) \in Conn /\ Finished(conn.client).client = conn.client
        /\ Finished(conn.client).open = {} /\ Finished(conn.client).request = NoRequest
        /\ Finished(conn.client).response = NoResponse
    BY DEF Finished, Conn
  <2>. QED  BY <1>1, <2>1, <2>2 DEF Fades
<1>2. CASE ~ (conn.open \subseteq {end})
  <2> DEFINE rest == conn.open \ {end}
             new == [conn EXCEPT !.open = rest]
  <2>1. CloseEnd(conn, end) = new
    BY <1>2 DEF CloseEnd
  <2>2. rest \in SUBSET {"client", "owner"}
    BY DEF Conn
  <2> HIDE DEF rest
  <2>3. /\ new \in Conn /\ new.client = conn.client /\ new.open = rest
        /\ new.request = conn.request /\ new.response = conn.response
    BY <2>2 DEF Conn
  <2> HIDE DEF new
  <2>. QED  BY <2>1, <2>3 DEF Fades, rest
<1>. QED  BY <1>1, <1>2

LEMMA StaysFades ==
    ASSUME NEW conn \in Conn
    PROVE  Fades(conn, conn)
BY DEF Fades

\* Only the k-th connection changes.
OneConn(k, new) ==
    /\ conns' \in Seq(Conn) /\ Len(conns') = Len(conns)
    /\ conns'[k] = new
    /\ \A n \in 1 .. Len(conns) : n # k => conns'[n] = conns[n]

LEMMA FunctionIsSeq ==
    ASSUME NEW S, NEW n \in Nat, NEW f \in [1 .. n -> S]
    PROVE  f \in Seq(S) /\ Len(f) = n
OBVIOUS

LEMMA ReplaceConn ==
    ASSUME conns \in Seq(Conn), NEW k \in 1 .. Len(conns), NEW new \in Conn,
           conns' = [conns EXCEPT ![k] = new]
    PROVE  OneConn(k, new)
<1>1. conns \in [1 .. Len(conns) -> Conn] /\ Len(conns) \in Nat
  BY LenProperties, ElementOfSeq
<1>2. conns' \in [1 .. Len(conns) -> Conn]
  BY <1>1
<1>3. conns' \in Seq(Conn) /\ Len(conns') = Len(conns)
  BY <1>1, <1>2, FunctionIsSeq
<1>. QED  BY <1>1, <1>3 DEF OneConn

\* No connection gains anything.
AllFade ==
    /\ conns' \in Seq(Conn) /\ Len(conns') = Len(conns)
    /\ \A n \in 1 .. Len(conns) : Fades(conns[n], conns'[n])

LEMMA OneFades ==
    ASSUME conns \in Seq(Conn), NEW k \in 1 .. Len(conns), NEW new, OneConn(k, new),
           Fades(conns[k], new)
    PROVE  AllFade
<1>1. \A n \in 1 .. Len(conns) : conns[n] \in Conn
  BY ElementOfSeq
<1>. QED  BY <1>1, StaysFades DEF OneConn, AllFade

LEMMA NoneFades ==
    ASSUME conns \in Seq(Conn), conns' = conns
    PROVE  AllFade
<1>1. \A n \in 1 .. Len(conns) : conns[n] \in Conn
  BY ElementOfSeq
<1>. QED  BY <1>1, StaysFades DEF AllFade

LEMMA SomeFade ==
    ASSUME conns \in Seq(Conn), NEW ns,
           conns' = [n \in 1 .. Len(conns) |-> IF n \in ns THEN CloseEnd(conns[n], "owner")
                                               ELSE conns[n]]
    PROVE  /\ AllFade
           /\ \A n \in 1 .. Len(conns) :
                  conns'[n].open = IF n \in ns THEN conns[n].open \ {"owner"} ELSE conns[n].open
<1>1. Len(conns) \in Nat /\ \A n \in 1 .. Len(conns) : conns[n] \in Conn
  BY ElementOfSeq, LenProperties
<1>2. \A n \in 1 .. Len(conns) : Fades(conns[n], conns'[n])
  BY <1>1, CloseEndFades, StaysFades
<1>3. conns' \in [1 .. Len(conns) -> Conn]
  BY <1>2 DEF Fades
<1>4. conns' \in Seq(Conn) /\ Len(conns') = Len(conns)
  BY <1>1, <1>3, FunctionIsSeq
<1>5. \A n \in 1 .. Len(conns) :
          conns'[n].open = IF n \in ns THEN conns[n].open \ {"owner"} ELSE conns[n].open
  BY <1>1, CloseEndFades
<1>. QED  BY <1>2, <1>4, <1>5 DEF AllFade

LEMMA ConnectionOf ==
    ASSUME SocketOK, NEW c, Connected(c) # {}
    PROVE  /\ Connection(c) \in 1 .. Len(conns) /\ conns[Connection(c)] \in Conn
           /\ conns[Connection(c)].client = c /\ "client" \in conns[Connection(c)].open
           /\ \A n \in 1 .. Len(conns) :
                 conns[n].client = c /\ "client" \in conns[n].open => n = Connection(c)
<1>1. Connection(c) \in Connected(c)
  BY DEF Connection
<1>2. /\ Connection(c) \in 1 .. Len(conns)
      /\ conns[Connection(c)].client = c /\ "client" \in conns[Connection(c)].open
  BY <1>1 DEF Connected
<1>3. conns[Connection(c)] \in Conn
  BY <1>2, ElementOfSeq DEF SocketOK
<1>4. ASSUME NEW n \in 1 .. Len(conns), conns[n].client = c, "client" \in conns[n].open,
             n # Connection(c)
      PROVE  FALSE
  <2>1. Len(conns) \in Nat
    BY LenProperties DEF SocketOK
  <2>2. n < Connection(c) \/ Connection(c) < n
    BY <1>2, <1>4, <2>1
  <2>. QED  BY <1>2, <1>4, <2>2 DEF SocketOK
<1>. QED  BY <1>2, <1>3, <1>4

\* A client closes its connection, or has none.
LEMMA ClientCloses ==
    ASSUME SocketOK, NEW c, CloseClient(c)
    PROVE  /\ AllFade /\ UNCHANGED <<the_command_socket, data_socket, accepted>>
           /\ conns'[Connection(c)].open = conns[Connection(c)].open \ {"client"}
           /\ \A n \in 1 .. Len(conns) : n # Connection(c) => conns'[n] = conns[n]
<1> DEFINE k == Connection(c)
           new == CloseEnd(conns[k], "client")
<1>1. k \in 1 .. Len(conns) /\ conns[k] \in Conn
  BY ConnectionOf DEF CloseClient
<1>2. Fades(conns[k], new) /\ new.open = conns[k].open \ {"client"}
  BY <1>1, CloseEndFades
<1>3. conns' = [conns EXCEPT ![k] = new]
  BY DEF CloseClient
<1>4. new \in Conn
  BY <1>2 DEF Fades
<1> HIDE DEF new, k
<1>5. OneConn(k, new)
  BY <1>1, <1>3, <1>4, ReplaceConn DEF SocketOK
<1>6. AllFade
  BY <1>1, <1>2, <1>5, OneFades DEF SocketOK
<1>. QED  BY <1>2, <1>5, <1>6 DEF OneConn, k, CloseClient

LEMMA OwnerCloses ==
    ASSUME SocketOK, data_socket # NoSocket, stop_read_command
    PROVE  /\ AllFade /\ UNCHANGED <<the_command_socket, accepted>> /\ data_socket' = NoSocket
           /\ conns'[data_socket].open = conns[data_socket].open \ {"owner"}
           /\ \A n \in 1 .. Len(conns) : n # data_socket => conns'[n] = conns[n]
<1> DEFINE k == data_socket
           new == CloseEnd(conns[k], "owner")
<1>1. k \in 1 .. Len(conns)
  BY DEF SocketOK, NoSocket
<1>2. conns[k] \in Conn
  BY <1>1, ElementOfSeq DEF SocketOK
<1>3. Fades(conns[k], new) /\ new.open = conns[k].open \ {"owner"}
  BY <1>2, CloseEndFades
<1>4. conns' = [conns EXCEPT ![k] = new]
  BY DEF stop_read_command
<1>5. new \in Conn
  BY <1>3 DEF Fades
<1> HIDE DEF new
<1>6. OneConn(k, new)
  BY <1>1, <1>4, <1>5, ReplaceConn DEF SocketOK
<1>7. AllFade
  BY <1>1, <1>3, <1>6, OneFades DEF SocketOK
<1>. QED  BY <1>3, <1>6, <1>7 DEF OneConn, stop_read_command

\* The daemon no longer listens: what has not been accepted is closed.
LEMMA ListenerCloses ==
    ASSUME SocketOK, close_owner
    PROVE  /\ AllFade /\ the_command_socket' = FALSE /\ UNCHANGED <<data_socket, accepted>>
           /\ \A n \in 1 .. Len(conns) : n <= accepted => conns'[n] = conns[n]
<1>1. conns \in Seq(Conn) /\ Len(conns) \in Nat /\ accepted \in Nat
  BY LenProperties DEF SocketOK
<1>2. conns' = [n \in 1 .. Len(conns) |->
                    IF n \in {m \in 1 .. Len(conns) : m > accepted}
                    THEN CloseEnd(conns[n], "owner") ELSE conns[n]]
  BY DEF close_owner
<1>3. AllFade
  BY <1>1, <1>2, SomeFade
<1>4. \A n \in 1 .. Len(conns) : n <= accepted => conns'[n] = conns[n]
  BY <1>1, <1>2
<1>. QED  BY <1>3, <1>4 DEF close_owner

\* The process of the daemon ends, or starts anew: it has no connections.
LEMMA OwnerEnds ==
    ASSUME SocketOK, OwnerGone \/ open_owner
    PROVE  /\ AllFade /\ the_command_socket' \in BOOLEAN /\ data_socket' = NoSocket
           /\ accepted' \in {accepted, Len(conns)}
           /\ \A n \in 1 .. Len(conns) : "owner" \notin conns'[n].open
<1>1. conns \in Seq(Conn) /\ Len(conns) \in Nat
  BY LenProperties DEF SocketOK
<1>2. conns' = [n \in 1 .. Len(conns) |-> IF n \in Nat THEN CloseEnd(conns[n], "owner")
                                         ELSE conns[n]]
  BY <1>1 DEF OwnerGone, open_owner
<1>3. /\ AllFade
      /\ \A n \in 1 .. Len(conns) :
             conns'[n].open = IF n \in Nat THEN conns[n].open \ {"owner"} ELSE conns[n].open
  BY <1>1, <1>2, SomeFade
<1>4. \A n \in 1 .. Len(conns) : "owner" \notin conns'[n].open
  <2>1. \A n \in 1 .. Len(conns) : n \in Nat
    BY <1>1
  <2>2. \A n \in 1 .. Len(conns) : conns'[n].open = conns[n].open \ {"owner"}
    BY <1>3, <2>1
  <2>. QED  BY <2>2
<1>5. /\ the_command_socket' \in BOOLEAN /\ data_socket' = NoSocket
      /\ accepted' \in {accepted, Len(conns)}
  BY DEF OwnerGone, open_owner
<1>. QED  BY <1>3, <1>4, <1>5

\* What a step does to the connections, by who makes it.
LEMMA FadingOK ==
    ASSUME SocketOK, FlagsOK, scenario' = scenario, AllFade, the_command_socket' \in BOOLEAN,
           accepted' \in 0 .. Len(conns), data_socket' \in 0 .. accepted'
    PROVE  SocketOK'
<1>1. Len(conns') = Len(conns) /\ conns' \in Seq(Conn)
  BY DEF AllFade
<1>2. scenario' = scenario
  OBVIOUS
<1>3. ASSUME NEW n \in 1 .. Len(conns)
      PROVE  /\ conns'[n].request \in {NoRequest} \cup Asks(scenario, conns'[n].client)
             /\ conns'[n].response # NoResponse => conns'[n].request # NoRequest
  <2>1. Fades(conns[n], conns'[n])
    BY DEF AllFade
  <2>2. /\ conns[n].request \in {NoRequest} \cup Asks(scenario, conns[n].client)
        /\ conns[n].response # NoResponse => conns[n].request # NoRequest
    BY DEF SocketOK
  <2>. QED  BY <1>2, <2>1, <2>2 DEF Fades
<1>4. ASSUME NEW n \in 1 .. Len(conns), NEW m \in 1 .. Len(conns),
             m < n, conns'[m].client = conns'[n].client
      PROVE  "client" \notin conns'[m].open
  <2>1. Fades(conns[n], conns'[n]) /\ Fades(conns[m], conns'[m])
    BY DEF AllFade
  <2>2. conns[m].client = conns[n].client
    BY <1>4, <2>1 DEF Fades
  <2>3. "client" \notin conns[m].open
    BY <1>4, <2>2 DEF SocketOK
  <2>. QED  BY <2>1, <2>3 DEF Fades
<1>5. Len(conns) <= MaxConns
  BY DEF SocketOK
<1>. QED  BY <1>1, <1>3, <1>4, <1>5 DEF SocketOK

\* One connection gets a request from its client, or an answer.
LEMMA FillingOK ==
    ASSUME SocketOK, FlagsOK, scenario' = scenario, NEW k \in 1 .. Len(conns),
           NEW new, OneConn(k, new), new \in Conn,
           new.client = conns[k].client, new.open = conns[k].open,
           new.request \in {NoRequest} \cup Asks(scenario, new.client),
           new.response # NoResponse => new.request # NoRequest,
           UNCHANGED <<the_command_socket, data_socket, accepted>>
    PROVE  SocketOK'
<1>1. Len(conns') = Len(conns) /\ conns' \in Seq(Conn)
  BY DEF OneConn
<1>2. scenario' = scenario
  OBVIOUS
<1>3. ASSUME NEW n \in 1 .. Len(conns)
      PROVE  /\ conns'[n].request \in {NoRequest} \cup Asks(scenario, conns'[n].client)
             /\ conns'[n].response # NoResponse => conns'[n].request # NoRequest
             /\ conns'[n].client = conns[n].client /\ conns'[n].open = conns[n].open
  <2>1. CASE n = k
    BY <1>2, <2>1 DEF OneConn
  <2>2. CASE n # k
    <3>1. conns'[n] = conns[n]
      BY <2>2 DEF OneConn
    <3>. QED  BY <1>2, <3>1 DEF SocketOK
  <2>. QED  BY <2>1, <2>2
<1>4. ASSUME NEW n \in 1 .. Len(conns), NEW m \in 1 .. Len(conns),
             m < n, conns'[m].client = conns'[n].client
      PROVE  "client" \notin conns'[m].open
  <2>1. "client" \notin conns[m].open
    BY <1>3, <1>4 DEF SocketOK
  <2>. QED  BY <1>3, <2>1
<1>5. /\ Len(conns) <= MaxConns /\ the_command_socket \in BOOLEAN
      /\ accepted \in 0 .. Len(conns) /\ data_socket \in 0 .. accepted
  BY DEF SocketOK
<1>. QED  BY <1>1, <1>3, <1>4, <1>5 DEF SocketOK

\* A request of a client, and the answer to one.
Asked(c, new) ==
    /\ new \in Conn /\ new.client = c /\ new.open = conns[Connection(c)].open
    /\ new.request \in Asks(scenario, c) /\ new.request # NoRequest
    /\ new.response = conns[Connection(c)].response

Answered(new) ==
    /\ new \in Conn /\ new.client = conns[data_socket].client
    /\ new.open = conns[data_socket].open /\ new.request = TheRequest
    /\ new.response = [s_type |-> TheRequest.s_type, status |-> Status(TheRequest)]

LEMMA AskStep ==
    ASSUME BPAssumption, FlagsOK, SocketOK, NEW c \in Client, SendRequest(c)
    PROVE  /\ Connected(c) # {} /\ UNCHANGED <<the_command_socket, data_socket, accepted>>
           /\ conns[Connection(c)].request = NoRequest
           /\ \E new : OneConn(Connection(c), new) /\ Asked(c, new)
<1> DEFINE k == Connection(c)
<1>1. PICK r \in ClientRequest(c) : sendRequest(c, r)
  BY DEF SendRequest
<1>2. /\ Connected(c) # {} /\ conns[k].request = NoRequest
      /\ UNCHANGED <<the_command_socket, data_socket, accepted>>
      /\ conns' = [conns EXCEPT ![k].request = r]
  BY <1>1 DEF sendRequest
<1>3. k \in 1 .. Len(conns) /\ conns[k] \in Conn /\ conns[k].client = c
  BY <1>2, ConnectionOf
<1>4. r \in Asks(scenario, c) /\ r \in Request \cup Registration
  <2>1. CASE c = Operator
    BY <1>1, <2>1, ScenarioTypes DEF ClientRequest, Asks, FlagsOK
  <2>2. CASE c # Operator
    <3>1. c \in Protocol
      BY <2>2, Constants
    <3>2. r = [s_type |-> IF app[c] = "opening" THEN "RegisterProtocol" ELSE "DeregisterProtocol",
               protocolId |-> c]
      BY <1>1, <2>2 DEF ClientRequest
    <3>. QED  BY <2>2, <3>1, <3>2 DEF Asks, Registration
  <2>. QED  BY <2>1, <2>2
<1>5. r # NoRequest
  <2>1. r.s_type # "none"
    <3>1. CASE r \in Registration
      BY <3>1 DEF Registration
    <3>2. CASE r \in Request
      BY <3>2 DEF Request
    <3>. QED  BY <1>4, <3>1, <3>2
  <2>. QED  BY <2>1 DEF NoRequest
<1>6. PICK new : new = [conns[k] EXCEPT !.request = r]
  OBVIOUS
<1>7. conns' = [conns EXCEPT ![k] = new]
  BY <1>2, <1>6
<1>8. /\ new \in Conn /\ new.client = c /\ new.open = conns[k].open /\ new.request = r
      /\ new.response = conns[k].response
  BY <1>3, <1>4, <1>6 DEF Conn
<1>9. OneConn(k, new)
  <2> HIDE DEF k
  <2>1. conns \in Seq(Conn) /\ k \in 1 .. Len(conns) /\ new \in Conn
    BY <1>3, <1>8 DEF SocketOK
  <2>. QED  BY <1>7, <2>1, ReplaceConn
<1>10. Asked(c, new)
  BY <1>4, <1>5, <1>8 DEF Asked
<1>. QED  BY <1>2, <1>9, <1>10

LEMMA StatusType ==
    ASSUME NEW r
    PROVE  Status(r) \in Statuses
BY DEF Status, Statuses, RegisterStatus, KnownStatus

LEMMA AnswerStep ==
    ASSUME BPAssumption, FlagsOK, SocketOK, HasRequest,
           send_confirmation([s_type |-> TheRequest.s_type, status |-> Status(TheRequest)])
    PROVE  /\ UNCHANGED <<the_command_socket, data_socket, accepted>>
           /\ \E new : OneConn(data_socket, new) /\ Answered(new)
<1> DEFINE k == data_socket
           a == [s_type |-> TheRequest.s_type, status |-> Status(TheRequest)]
<1>1. k \in 1 .. Len(conns) /\ conns[k] \in Conn /\ TheRequest.s_type \in Kinds
  BY RequestTypes
<1>2. a \in [s_type : Kinds, status : Statuses]
  <2>1. Status(TheRequest) \in Statuses
    BY StatusType
  <2>. QED  BY <1>1, <2>1
<1>3. PICK new : new = [conns[k] EXCEPT !.response = a]
  OBVIOUS
<1>4. conns' = [conns EXCEPT ![k] = new]
  BY <1>3 DEF send_confirmation
<1> HIDE DEF a
<1>5. /\ new \in Conn /\ new.client = conns[k].client /\ new.open = conns[k].open
      /\ new.request = conns[k].request /\ new.response = a
  BY <1>1, <1>2, <1>3 DEF Conn
<1>6. OneConn(k, new)
  BY <1>1, <1>4, <1>5, ReplaceConn DEF SocketOK
<1>7. Answered(new)
  BY <1>5 DEF Answered, a, TheRequest
<1>. QED  BY <1>6, <1>7 DEF send_confirmation

LEMMA SocketKept ==
    ASSUME Loops \/ TxSteps \/ RxSteps \/ PayloadSteps \/ QueueSteps
           \/ ReadNothing \/ ShutDown \/ HandlerBlocks
    PROVE  UNCHANGED <<the_command_socket, data_socket, accepted, conns>>
<1>1. CASE Loops \/ TxSteps
  BY <1>1, LoopFrame, TxFrame DEF LoopKeeps, TxKeeps, socketVars
<1>2. CASE RxSteps \/ PayloadSteps
  BY <1>2, RxFrame, PayloadFrame DEF RxKeeps, PayloadKeeps, socketVars
<1>3. CASE QueueSteps
  BY <1>3 DEF QueueSteps, TransmitPayload, push_wait, ReceivePayload, DieInQueue, ClientKeeps, socketVars
<1>4. CASE ReadNothing \/ ShutDown \/ HandlerBlocks
  BY <1>4 DEF ReadNothing, ShutDown, HandlerBlocks, socketVars
<1>. QED  BY <1>1, <1>2, <1>3, <1>4

\* A new connection.
Opened(c) ==
    /\ conns' \in Seq(Conn) /\ Len(conns') = Len(conns) + 1
    /\ UNCHANGED <<the_command_socket, data_socket, accepted>>
    /\ conns'[Len(conns) + 1] = [client |-> c, request |-> NoRequest, response |-> NoResponse,
                                 open |-> {"client", "owner"}]
    /\ \A n \in 1 .. Len(conns) : conns'[n] = conns[n]

LEMMA OpenStep ==
    ASSUME SocketOK, NEW c \in Client, open_client(c)
    PROVE  Opened(c)
<1> DEFINE new == [client |-> c, request |-> NoRequest, response |-> NoResponse,
                   open |-> {"client", "owner"}]
<1>1. new \in Conn
  BY DEF Conn
<1>2. conns' = Append(conns, new) /\ UNCHANGED <<the_command_socket, data_socket, accepted>>
  BY DEF open_client
<1> HIDE DEF new
<1>3. conns \in Seq(Conn)
  BY DEF SocketOK
<1>4. /\ conns' \in Seq(Conn) /\ Len(conns') = Len(conns) + 1 /\ conns'[Len(conns) + 1] = new
      /\ \A n \in 1 .. Len(conns) : conns'[n] = conns[n]
  BY <1>1, <1>2, <1>3, AppendProperties
<1>. QED  BY <1>2, <1>4 DEF new, Opened

LEMMA OpeningOK ==
    ASSUME BPAssumption, FlagsOK, SocketOK, scenario' = scenario, NEW c \in Client, open_client(c)
    PROVE  SocketOK'
<1> DEFINE l == Len(conns) + 1
<1>1. Len(conns) \in Nat /\ accepted \in 0 .. Len(conns) /\ data_socket \in 0 .. accepted
  BY LenProperties DEF SocketOK
<1>2. Opened(c)
  BY OpenStep
<1>3. Len(conns') <= MaxConns /\ MaxConns \in Nat
  <2>1. Len(conns') = Len(conns) + 1 /\ Len(conns) < MaxConns
    BY <1>2 DEF Opened, open_client
  <2>. QED  BY <1>1, <2>1, Constants
<1>4. ASSUME NEW n \in 1 .. Len(conns')
      PROVE  /\ conns'[n].request \in {NoRequest} \cup Asks(scenario, conns'[n].client)
             /\ conns'[n].response # NoResponse => conns'[n].request # NoRequest
  <2>1. CASE n = l
    BY <2>1, <1>2 DEF Opened
  <2>2. CASE n # l
    <3>1. n \in 1 .. Len(conns) /\ conns'[n] = conns[n]
      BY <1>1, <1>2, <2>2, SMTT(30) DEF Opened
    <3>. QED  BY <3>1 DEF SocketOK
  <2>. QED  BY <2>1, <2>2
<1>5. ASSUME NEW n \in 1 .. Len(conns'), NEW m \in 1 .. Len(conns'),
             m < n, conns'[m].client = conns'[n].client
      PROVE  "client" \notin conns'[m].open
  <2>1. m \in 1 .. Len(conns) /\ conns'[m] = conns[m]
    BY <1>1, <1>2, <1>5, SMTT(30) DEF Opened
  <2>2. CASE n = l
    <3>1. conns[m].client = c
      BY <1>2, <1>5, <2>1, <2>2, SMTT(30) DEF Opened
    <3>2. Connected(c) = {}
      BY DEF open_client
    <3>. QED  BY <2>1, <3>1, <3>2 DEF Connected
  <2>3. CASE n # l
    <3>1. n \in 1 .. Len(conns) /\ conns'[n] = conns[n]
      BY <1>1, <1>2, <2>3, SMTT(30) DEF Opened
    <3>. QED  BY <1>5, <2>1, <3>1 DEF SocketOK
  <2>. QED  BY <2>2, <2>3
<1>6. /\ conns' \in Seq(Conn) /\ the_command_socket' \in BOOLEAN
      /\ accepted' \in 0 .. Len(conns') /\ data_socket' \in 0 .. accepted'
  <2>1. Len(conns') = Len(conns) + 1 /\ UNCHANGED <<data_socket, accepted>> /\ conns' \in Seq(Conn)
    BY <1>2 DEF Opened
  <2>2. the_command_socket' \in BOOLEAN
    BY <1>2 DEF SocketOK, Opened
  <2>. QED  BY <1>1, <2>1, <2>2
<1>. QED  BY <1>3, <1>4, <1>5, <1>6 DEF SocketOK

\* What the steps on the socket, and those of the command thread, do to it.
SocketCases ==
    \/ UNCHANGED <<the_command_socket, data_socket, accepted, conns>>
    \/ \E c \in Client : Connect(c)
    \/ \E c \in Client : SendRequest(c)
    \/ /\ \E c \in Client : CloseClient(c)
       /\ LeaveAfterShutDown \/ \E c \in Client : ReadResponse(c) \/ GiveUp(c)
    \/ HandleRequest /\ ClientListens
    \/ OwnerGone /\ (HandleRequest \/ HandlerThrows)
    \/ open_owner /\ Restart
    \/ CommandStop \/ (CommandLoop /\ (close_owner \/ accept))

LEMMA StepCases ==
    ASSUME BPAssumption, Next
    PROVE  SocketCases
<1>1. CASE Loops \/ TxSteps \/ RxSteps \/ PayloadSteps \/ QueueSteps
  BY <1>1, SocketKept DEF SocketCases
<1>2. CASE CommandSteps
  <2>1. CASE ReadNothing \/ ShutDown \/ HandlerBlocks
    BY <2>1, SocketKept DEF SocketCases
  <2>2. CASE HandleRequest
    BY <2>2 DEF HandleRequest, SocketCases
  <2>3. CASE HandlerThrows
    BY <2>3 DEF HandlerThrows, SocketCases
  <2>4. CASE CommandStop
    BY <2>4 DEF SocketCases
  <2>5. CASE CommandLoop
    BY <2>5 DEF CommandLoop, socketVars, SocketCases
  <2>. QED  BY <1>2, <2>1, <2>2, <2>3, <2>4, <2>5 DEF CommandSteps
<1>3. CASE Restart
  BY <1>3 DEF Restart, SocketCases
<1>4. CASE SocketSteps
  <2>1. ASSUME NEW c \in Client, ReadResponse(c)
        PROVE  SocketCases
    BY <2>1 DEF ReadResponse, SocketCases
  <2>2. ASSUME NEW c \in Client, GiveUp(c)
        PROVE  SocketCases
    BY <2>2 DEF GiveUp, SocketCases, socketVars
  <2>3. LeaveAfterShutDown => SocketCases
    BY Constants DEF LeaveAfterShutDown, SocketCases
  <2>. QED  BY <1>4, <2>1, <2>2, <2>3 DEF SocketSteps, SocketCases
<1>. QED  BY <1>1, <1>2, <1>3, <1>4, NextSteps

LEMMA StepSocket ==
    ASSUME BPAssumption, FlagsOK, SocketOK, Next
    PROVE  SocketOK'
<1>1. scenario' = scenario
  BY ScenarioKept
<1>2. /\ conns \in Seq(Conn) /\ Len(conns) \in Nat /\ the_command_socket \in BOOLEAN
      /\ accepted \in 0 .. Len(conns) /\ data_socket \in 0 .. accepted
  BY LenProperties DEF SocketOK
<1>3. CASE UNCHANGED <<the_command_socket, data_socket, accepted, conns>>
  BY <1>1, <1>3 DEF SocketOK
<1>4. ASSUME NEW c \in Client, Connect(c)
      PROVE  SocketOK'
  BY <1>1, <1>4, OpeningOK DEF Connect
<1>5. ASSUME NEW c \in Client, SendRequest(c)
      PROVE  SocketOK'
  <2>1. PICK new : OneConn(Connection(c), new) /\ Asked(c, new)
    BY <1>5, AskStep
  <2>2. UNCHANGED <<the_command_socket, data_socket, accepted>> /\ Connected(c) # {}
    BY <1>5, AskStep
  <2>3. Connection(c) \in 1 .. Len(conns) /\ conns[Connection(c)].client = c
    BY <2>2, ConnectionOf
  <2>. QED  BY <1>1, <2>1, <2>2, <2>3, FillingOK DEF Asked
<1>6. ASSUME NEW c \in Client, CloseClient(c)
      PROVE  SocketOK'
  <2>1. AllFade /\ UNCHANGED <<the_command_socket, data_socket, accepted>>
    BY <1>6, ClientCloses
  <2>. QED  BY <1>1, <1>2, <2>1, FadingOK
<1>7. CASE HandleRequest /\ ClientListens
  <2>1. HasRequest /\
        send_confirmation([s_type |-> TheRequest.s_type, status |-> Status(TheRequest)])
    BY <1>7 DEF HandleRequest
  <2>2. PICK new : OneConn(data_socket, new) /\ Answered(new)
    BY <2>1, AnswerStep
  <2>3. UNCHANGED <<the_command_socket, data_socket, accepted>>
    BY <2>1, AnswerStep
  <2>4. data_socket \in 1 .. Len(conns) /\ TheRequest \in Asks(scenario, conns[data_socket].client)
    BY <2>1, RequestTypes
  <2>5. TheRequest # NoRequest
    BY <2>1 DEF HasRequest, TheRequest
  <2>. QED  BY <1>1, <2>2, <2>3, <2>4, <2>5, FillingOK DEF Answered
<1>8. CASE OwnerGone \/ open_owner
  <2>1. /\ AllFade /\ the_command_socket' \in BOOLEAN /\ data_socket' = NoSocket
        /\ accepted' \in {accepted, Len(conns)}
    BY <1>8, OwnerEnds
  <2>2. accepted' \in 0 .. Len(conns) /\ data_socket' \in 0 .. accepted'
    BY <1>2, <2>1 DEF NoSocket
  <2>. QED  BY <1>1, <2>1, <2>2, FadingOK
<1>9. CASE CommandStop
  <2>1. CASE data_socket # NoSocket
    <3>1. AllFade /\ UNCHANGED <<the_command_socket, accepted>> /\ data_socket' = NoSocket
      BY <1>9, <2>1, OwnerCloses DEF CommandStop
    <3>2. accepted' \in 0 .. Len(conns) /\ data_socket' \in 0 .. accepted'
      BY <1>2, <3>1 DEF NoSocket
    <3>. QED  BY <1>1, <1>2, <3>1, <3>2, FadingOK
  <2>2. CASE data_socket = NoSocket
    <3>1. conns \in [1 .. Len(conns) -> Conn]
      BY <1>2, ElementOfSeq
    <3>2. conns' = conns /\ UNCHANGED <<the_command_socket, accepted, data_socket>>
      BY <1>9, <2>2, <3>1 DEF CommandStop, stop_read_command, NoSocket
    <3>. QED  BY <1>1, <3>2 DEF SocketOK
  <2>. QED  BY <2>1, <2>2
<1>10. CASE close_owner
  <2>1. AllFade /\ the_command_socket' = FALSE /\ UNCHANGED <<data_socket, accepted>>
    BY <1>10, ListenerCloses
  <2>. QED  BY <1>1, <1>2, <2>1, FadingOK
<1>11. CASE accept
  <2>1. /\ UNCHANGED <<the_command_socket, conns>>
        /\ accepted' \in 0 .. Len(conns) /\ data_socket' \in 0 .. accepted'
    BY <1>2, <1>11 DEF accept
  <2>. QED  BY <1>1, <2>1 DEF SocketOK
<1>. QED  BY <1>3, <1>4, <1>5, <1>6, <1>7, <1>8, <1>9, <1>10, <1>11, StepCases DEF SocketCases

(***************************************************************************)
(* Registrations.                                                          *)
(***************************************************************************)
Active == {"on", "pushing", "closing"}

\* A connection once dealt with stays so.
LEMMA UnhandledShrinks ==
    ASSUME SectionsOK, SocketOK, Next
    PROVE  \A n \in Nat : Unhandled(n)' => Unhandled(n)
<1>1. Len(conns) \in Nat /\ accepted \in 0 .. Len(conns) /\ data_socket \in 0 .. accepted
  BY LenProperties DEF SocketOK
<1>2. CASE Loops \/ TxSteps \/ RxSteps \/ PayloadSteps \/ QueueSteps
  <2>1. pc'["command"] = pc["command"]
    <3>1. CASE Loops
      BY <3>1, LoopFrame DEF SectionsOK, Thread
    <3>2. CASE TxSteps
      BY <3>2 DEF TxSteps, TxLock, attempt_add_payload, GoOn, TxTimeout, TxThrow, serialize_payload,
                  TxUnlock, generate_beacon, Goto, SectionsOK, Thread
    <3>3. CASE RxSteps \/ PayloadSteps
      BY <3>3, RxPlaces DEF RxGoes, PayloadSteps, handle_payload_from_client, PayloadBlocks, Goto,
                            SectionsOK, Thread
    <3>4. CASE QueueSteps
      BY <3>4, ClientFrame DEF DaemonKeeps, threadVars
    <3>. QED  BY <1>2, <3>1, <3>2, <3>3, <3>4
  <2>. QED  BY <1>2, <2>1, SocketKept DEF Unhandled
<1>3. CASE SocketSteps
  <2>1. pc' = pc
    BY <1>3, ClientFrame DEF DaemonKeeps, threadVars
  <2>2. UNCHANGED <<data_socket, accepted>>
    BY <1>3 DEF SocketSteps, Connect, open_client, SendRequest, sendRequest, ReadResponse, GiveUp,
                LeaveAfterShutDown, CloseClient, socketVars
  <2>. QED  BY <2>1, <2>2 DEF Unhandled
<1>4. CASE CommandSteps /\ ~ CommandLoop
  <2>1. pc'["command"] # "read"
    BY <1>4 DEF CommandSteps, ReadNothing, ShutDown, HandleRequest, HandlerThrows, HandlerBlocks,
                CommandStop, Goto, SectionsOK, Thread
  <2>2. accepted' = accepted
    BY <1>4 DEF CommandSteps, ReadNothing, ShutDown, HandleRequest, HandlerThrows, HandlerBlocks,
                CommandStop, send_confirmation, OwnerGone, stop_read_command, socketVars
  <2>. QED  BY <2>1, <2>2 DEF Unhandled
<1>5. CASE CommandLoop
  <2>1. CASE close_owner
    BY <1>5, <2>1 DEF CommandLoop, close_owner, Goto, accept, SectionsOK, Thread, Unhandled, socketVars
  <2>2. CASE accept
    BY <1>1, <2>2 DEF accept, Unhandled
  <2>3. CASE UNCHANGED <<pc, data_socket, accepted>>
    BY <2>3 DEF Unhandled
  <2>. QED  BY <1>5, <2>1, <2>2, <2>3 DEF CommandLoop, socketVars
<1>6. CASE Restart
  BY <1>1, <1>6 DEF Restart, open_owner, Unhandled, Thread
<1>. QED  BY <1>2, <1>3, <1>4, <1>5, <1>6, NextSteps

\* Only a request, or a restart, takes a protocol out of the table.
LEMMA TableGrows ==
    ASSUME Next, ~ HandleRequest, ~ Restart
    PROVE  clientProtocols \subseteq clientProtocols' /\ areas \subseteq areas'
<1>1. CASE Loops \/ TxSteps
  BY <1>1, LoopFrame, TxFrame DEF LoopKeeps, TxKeeps
<1>2. CASE RxSteps \/ PayloadSteps
  BY <1>2, RxFrame, PayloadFrame DEF RxKeeps, PayloadKeeps
<1>3. CASE CommandSteps
  BY <1>3 DEF CommandSteps, CommandLoop, ReadNothing, ShutDown, HandlerThrows, HandlerBlocks, CommandStop
<1>4. CASE SocketSteps \/ QueueSteps
  BY <1>4, ClientFrame DEF DaemonKeeps
<1>. QED  BY <1>1, <1>2, <1>3, <1>4, NextSteps

LEMMA RestartsKept ==
    ASSUME Next, ~ Restart
    PROVE  restarts' = restarts
<1>1. CASE Loops \/ TxSteps \/ SocketSteps \/ QueueSteps
  BY <1>1, LoopFrame, TxFrame, ClientFrame DEF LoopKeeps, TxKeeps, DaemonKeeps, runVars
<1>2. CASE RxSteps \/ PayloadSteps \/ CommandSteps
  BY <1>2, RxFrame, PayloadFrame, CommandFrame DEF RxKeeps, PayloadKeeps, CommandKeeps, runVars
<1>. QED  BY <1>1, <1>2, NextSteps

\* When a protocol stays in the table and nothing new is on its way, it stays served.
LEMMA ServedKept ==
    ASSUME NEW p, Served(p), scenario' = scenario, restarts' = restarts,
           restarts = 0 => p \in clientProtocols' /\ p \in areas' /\ Quiet(p)'
    PROVE  Served(p)'
<1>1. Roomy(p)' = Roomy(p)
  BY DEF Roomy
<1>. QED  BY <1>1 DEF Served

LEMMA QuietFades ==
    ASSUME SectionsOK, SocketOK, Next, NEW p, Quiet(p), AllFade
    PROVE  Quiet(p)'
<1>1. ASSUME NEW n \in 1 .. Len(conns), Unhandled(n)', conns'[n].client = p
      PROVE  conns'[n].request = NoRequest
  <2>1. Unhandled(n)
    BY <1>1, UnhandledShrinks
  <2>2. Fades(conns[n], conns'[n])
    BY DEF AllFade
  <2>3. conns[n].client = p
    BY <1>1, <2>2 DEF Fades
  <2>4. conns[n].request = NoRequest
    BY <2>1, <2>3 DEF Quiet
  <2>. QED  BY <2>2, <2>4 DEF Fades
<1>2. Len(conns') = Len(conns)
  BY DEF AllFade
<1>. QED  BY <1>1, <1>2 DEF Quiet

LEMMA GrantedFades ==
    ASSUME NEW old, NEW new, Fades(old, new), Granted(new)
    PROVE  Granted(old)
<1>1. new.response # NoResponse
  BY DEF Granted, NoResponse
<1>. QED  BY <1>1 DEF Fades, Granted

\* Connections fade, the table grows, and nobody becomes active unserved.
LEMMA CalmStep ==
    ASSUME SectionsOK, SocketOK, FlagsOK, RegistrationsOK, Next, ~ HandleRequest, ~ Restart, AllFade,
           \A p \in Protocol : app'[p] \in Active => Served(p)
    PROVE  RegistrationsOK'
<1>1. ASSUME NEW p \in Protocol, Served(p)
      PROVE  Served(p)'
  BY <1>1, ServedKept, QuietFades, TableGrows, RestartsKept, ScenarioKept DEF Served
<1>2. ASSUME NEW n \in 1 .. Len(conns), Granted(conns'[n]), conns'[n].client \in Protocol
      PROVE  Served(conns[n].client) /\ conns'[n].client = conns[n].client
  <2>1. Fades(conns[n], conns'[n])
    BY DEF AllFade
  <2>2. conns'[n].client = conns[n].client
    BY <2>1 DEF Fades
  <2>3. Granted(conns[n])
    BY <1>2, <2>1, GrantedFades
  <2>. QED  BY <1>2, <2>2, <2>3 DEF RegistrationsOK
<1>3. ASSUME NEW n \in 1 .. Len(conns), Granted(conns'[n]), conns'[n].client \in Protocol
      PROVE  \E p \in Protocol : p = conns'[n].client /\ Served(p)'
  <2>1. conns[n].client \in Protocol /\ Served(conns[n].client)
    BY <1>2, <1>3
  <2>2. PICK p \in Protocol : p = conns[n].client
    BY <2>1
  <2>. QED  BY <1>1, <1>2, <1>3, <2>1, <2>2
<1>4. Len(conns') = Len(conns)
  BY DEF AllFade
<1>. QED  BY <1>1, <1>3, <1>4 DEF RegistrationsOK, Active

\* A step that is not on the socket makes nobody active.
LEMMA ActiveKept ==
    ASSUME BPAssumption, AppsOK, Next, ~ SocketSteps, NEW p \in Protocol, app'[p] \in Active
    PROVE  app[p] \in Active
<1>1. CASE Loops \/ TxSteps \/ RxSteps \/ PayloadSteps \/ CommandSteps \/ Restart
  BY <1>1, AppsKept
<1>2. ASSUME NEW o \in Protocol, TransmitPayload(o) \/ push_wait(o)
      PROVE  app[p] \in Active
  <2>1. \/ app' = app
        \/ app[o] \in {"on", "pushing"} /\ \E l \in {"on", "pushing"} : app' = [app EXCEPT ![o] = l]
    BY <1>2 DEF TransmitPayload, push_wait, AppGoto, Submit
  <2>2. CASE p = o
    BY <2>1, <2>2 DEF AppsOK, Active
  <2>3. CASE p # o
    <3>1. p \in Client /\ o \in Client
      BY Constants
    <3>. QED  BY <2>1, <2>3, <3>1 DEF AppsOK, Active
  <2>. QED  BY <2>2, <2>3
<1>3. ASSUME NEW o \in Protocol, ReceivePayload(o)
      PROVE  app[p] \in Active
  BY <1>3 DEF ReceivePayload
<1>4. ASSUME NEW o \in Protocol, DieInQueue(o)
      PROVE  app[p] \in Active
  BY <1>4 DEF DieInQueue, AppGoto, AppsOK, Active
<1>. QED  BY <1>1, <1>2, <1>3, <1>4, NextSteps DEF QueueSteps

\* A client that closes its connection becomes active only with what the daemon granted.
LEMMA ClosingServed ==
    ASSUME SocketOK, AppsOK, RegistrationsOK, NEW p \in Protocol, app'[p] \in Active,
           LeaveAfterShutDown \/ \E c \in Client : ReadResponse(c) \/ GiveUp(c)
    PROVE  Served(p)
<1>1. CASE app[p] \in Active
  BY <1>1 DEF RegistrationsOK, Active
<1>2. CASE app[p] \notin Active
  <2>1. ASSUME NEW c \in Client, ReadResponse(c)
        PROVE  Served(p)
    <3>1. c = p /\ Confirmed(p) /\ Connected(p) # {}
      BY <1>2, <2>1 DEF ReadResponse, AppGoto, AppsOK, Active, CloseClient
    <3>2. /\ Connection(p) \in 1 .. Len(conns) /\ conns[Connection(p)].client = p
          /\ "client" \in conns[Connection(p)].open
      BY <3>1, ConnectionOf
    <3>3. Granted(conns[Connection(p)])
      BY <3>1, <3>2 DEF Confirmed, Response, Granted
    <3>. QED  BY <3>2, <3>3 DEF RegistrationsOK
  <2>2. ASSUME NEW c \in Client, GiveUp(c)
        PROVE  Served(p)
    BY <1>2, <2>2 DEF GiveUp, AppGoto, AppsOK, Active
  <2>3. CASE LeaveAfterShutDown
    BY <1>2, <2>3 DEF LeaveAfterShutDown, AppGoto, AppsOK, Active
  <2>. QED  BY <2>1, <2>2, <2>3
<1>. QED  BY <1>1, <1>2

LEMMA ConnectServed ==
    ASSUME BPAssumption, FlagsOK, SectionsOK, SocketOK, AppsOK, RegistrationsOK, Next,
           ~ HandleRequest, ~ Restart, NEW c \in Client, Connect(c)
    PROVE  RegistrationsOK'
<1> DEFINE l == Len(conns) + 1
<1>1. Opened(c) /\ Len(conns) \in Nat
  BY OpenStep, LenProperties DEF Connect, SocketOK
<1>2. ASSUME NEW p \in Protocol, Served(p)
      PROVE  Served(p)'
  <2>1. ASSUME Quiet(p)
        PROVE  Quiet(p)'
    <3>1. ASSUME NEW n \in 1 .. Len(conns'), Unhandled(n)', conns'[n].client = p
          PROVE  conns'[n].request = NoRequest
      <4>1. CASE n = l
        BY <1>1, <4>1 DEF Opened
      <4>2. CASE n # l
        <5>1. n \in 1 .. Len(conns) /\ conns'[n] = conns[n]
          BY <1>1, <4>2 DEF Opened
        <5>2. Unhandled(n)
          BY <3>1, <5>1, UnhandledShrinks
        <5>. QED  BY <2>1, <3>1, <5>1, <5>2 DEF Quiet
      <4>. QED  BY <4>1, <4>2
    <3>. QED  BY <3>1 DEF Quiet
  <2>. QED  BY <1>2, <2>1, ServedKept, TableGrows, RestartsKept, ScenarioKept DEF Served
<1>3. ASSUME NEW p \in Protocol, app'[p] \in Active
      PROVE  Served(p)'
  <2>1. app[p] \in Active
    BY <1>3 DEF Connect, AppGoto, AppsOK, Active
  <2>. QED  BY <1>2, <2>1 DEF RegistrationsOK, Active
<1>4. ASSUME NEW n \in 1 .. Len(conns'), Granted(conns'[n]), conns'[n].client \in Protocol
      PROVE  \E p \in Protocol : p = conns'[n].client /\ Served(p)'
  <2>1. n # l
    <3>1. conns'[l].response = NoResponse
      BY <1>1 DEF Opened
    <3>2. NoResponse.s_type # "RegisterProtocol"
      BY DEF NoResponse
    <3>. QED  BY <1>4, <3>1, <3>2 DEF Granted
  <2>2. n \in 1 .. Len(conns) /\ conns'[n] = conns[n]
    BY <1>1, <2>1 DEF Opened
  <2>3. Served(conns[n].client)
    BY <1>4, <2>2 DEF RegistrationsOK
  <2>. QED  BY <1>2, <1>4, <2>2, <2>3
<1>. QED  BY <1>3, <1>4 DEF RegistrationsOK, Active

LEMMA AskServed ==
    ASSUME BPAssumption, FlagsOK, SectionsOK, SocketOK, AppsOK, RegistrationsOK, Next,
           ~ HandleRequest, ~ Restart, NEW c \in Client, SendRequest(c)
    PROVE  RegistrationsOK'
<1> DEFINE k == Connection(c)
<1>1. PICK new : OneConn(k, new) /\ Asked(c, new)
  BY AskStep
<1>2. Connected(c) # {} /\ conns[k].request = NoRequest
  BY AskStep
<1>3. /\ k \in 1 .. Len(conns) /\ conns[k].client = c
      /\ \A n \in 1 .. Len(conns) : conns[n].client = c /\ "client" \in conns[n].open => n = k
  BY <1>2, ConnectionOf
<1> HIDE DEF k
<1>4. \A n \in 1 .. Len(conns) : n # k => conns'[n] = conns[n]
  BY <1>1 DEF OneConn
<1>5. ~ Granted(conns'[k])
  <2>1. conns[k].response = NoResponse
    BY <1>2, <1>3 DEF SocketOK
  <2>2. conns'[k].response = NoResponse
    BY <1>1, <2>1 DEF OneConn, Asked, k
  <2>3. NoResponse.s_type # "RegisterProtocol"
    BY DEF NoResponse
  <2>. QED  BY <2>2, <2>3 DEF Granted
<1>6. ASSUME NEW p \in Protocol, Served(p), p # c
      PROVE  Served(p)'
  <2>1. ASSUME Quiet(p)
        PROVE  Quiet(p)'
    <3>1. ASSUME NEW n \in 1 .. Len(conns'), Unhandled(n)', conns'[n].client = p
          PROVE  conns'[n].request = NoRequest
      <4>1. n \in 1 .. Len(conns)
        BY <1>1 DEF OneConn
      <4>2. n # k
        BY <1>1, <1>6, <3>1 DEF OneConn, Asked
      <4>3. Unhandled(n)
        BY <3>1, <4>1, UnhandledShrinks
      <4>. QED  BY <1>4, <2>1, <3>1, <4>1, <4>2, <4>3 DEF Quiet
    <3>. QED  BY <3>1 DEF Quiet
  <2>. QED  BY <1>6, <2>1, ServedKept, TableGrows, RestartsKept, ScenarioKept DEF Served
<1>7. ASSUME NEW p \in Protocol, app'[p] \in Active
      PROVE  Served(p)'
  <2>1. p # c /\ app[p] \in Active
    BY <1>7 DEF SendRequest, AppGoto, AppsOK, Active
  <2>. QED  BY <1>6, <2>1 DEF RegistrationsOK, Active
<1>8. ASSUME NEW n \in 1 .. Len(conns'), Granted(conns'[n]), conns'[n].client \in Protocol
      PROVE  \E p \in Protocol : p = conns'[n].client /\ Served(p)'
  <2>1. n # k /\ n \in 1 .. Len(conns)
    BY <1>1, <1>5, <1>8 DEF OneConn
  <2>2. conns'[n] = conns[n]
    BY <1>4, <2>1
  <2>3. Served(conns[n].client)
    BY <1>8, <2>1, <2>2 DEF RegistrationsOK
  <2>4. conns[n].client # c
    BY <1>3, <1>8, <2>1, <2>2 DEF Granted
  <2>. QED  BY <1>6, <1>8, <2>2, <2>3, <2>4
<1>. QED  BY <1>7, <1>8 DEF RegistrationsOK, Active

\* The daemon deals with a request: of p, if the table changes.
LEMMA RequestServed ==
    ASSUME BPAssumption, FlagsOK, SectionsOK, SocketOK, AppsOK, RegistrationsOK, Next,
           ~ Restart, HandleRequest
    PROVE  RegistrationsOK'
<1>1. PICK k : k = data_socket
  OBVIOUS
<1>2. PICK o : o = conns[k].client
  OBVIOUS
<1>3. HasRequest /\ Effect(TheRequest) /\ pc["command"] = "read"
  BY DEF HandleRequest
<1>4. /\ k \in 1 .. Len(conns) /\ conns[k] \in Conn /\ TheRequest = conns[k].request
      /\ TheRequest # NoRequest /\ Len(conns) \in Nat
  BY <1>1, <1>3, RequestTypes, LenProperties DEF HasRequest, TheRequest, SocketOK
<1>5. ~ Quiet(o)
  BY <1>1, <1>2, <1>3, <1>4 DEF Quiet, Unhandled
<1>6. ASSUME NEW p \in clientProtocols \cap areas, p # o
      PROVE  p \in clientProtocols' /\ p \in areas'
  <2>1. CASE TheRequest.s_type \in {"RegisterProtocol", "DeregisterProtocol"}
    <3>1. TheRequest.protocolId = o
      BY <1>1, <1>2, <1>3, <2>1, RegistrationTypes
    <3>. QED  BY <1>3, <1>6, <2>1, <3>1 DEF Effect, RegisterProtocol, DeregisterProtocol, ClearBuffer,
                                            SetActive
  <2>2. CASE TheRequest.s_type \notin {"RegisterProtocol", "DeregisterProtocol"}
    BY <1>3, <1>6, <2>2 DEF Effect, ClearBuffer, SetActive
  <2>. QED  BY <2>1, <2>2
<1>7. CASE ClientListens
  <2>1. PICK new : OneConn(k, new) /\ Answered(new)
    BY <1>1, <1>3, <1>7, AnswerStep DEF HandleRequest
  <2>2. /\ Len(conns') = Len(conns)
        /\ \A n \in 1 .. Len(conns) : /\ conns'[n].client = conns[n].client
                                      /\ conns'[n].request = conns[n].request
                                      /\ conns'[n].open = conns[n].open
                                      /\ n # k => conns'[n] = conns[n]
    BY <1>1, <1>4, <2>1 DEF OneConn, Answered
  <2>3. ASSUME NEW p, Quiet(p)
        PROVE  Quiet(p)'
    BY <2>2, <2>3, UnhandledShrinks, SMTT(30) DEF Quiet
  <2>4. ASSUME NEW p \in Protocol, Served(p)
        PROVE  Served(p)'
    <3>1. restarts = 0 => p \in clientProtocols \cap areas /\ p # o /\ Quiet(p)
      BY <1>5, <2>4 DEF Served
    <3>. QED  BY <1>6, <2>3, <2>4, <3>1, ServedKept, RestartsKept, ScenarioKept
  <2>5. ASSUME Granted(conns'[k]), o \in Protocol
        PROVE  Served(o)'
    <3>1. TheRequest.s_type = "RegisterProtocol" /\ Status(TheRequest) = "OK"
      BY <2>1, <2>5 DEF Granted, OneConn, Answered
    <3>2. TheRequest.protocolId = o /\ RegisterStatus(o) = "OK"
      BY <1>1, <1>2, <1>3, <3>1, RegistrationTypes DEF Status
    <3>3. o \in clientProtocols' /\ o \in areas'
      BY <1>3, <3>1, <3>2 DEF Effect, RegisterProtocol
    <3>4. Roomy(o)
      BY <3>2 DEF RegisterStatus, Roomy
    <3>5. Roomy(o)' = Roomy(o)
      BY ScenarioKept DEF Roomy
    <3>6. Quiet(o)'
      <4>1. ASSUME NEW n \in 1 .. Len(conns), Unhandled(n)', conns'[n].client = o
            PROVE  FALSE
        <5>1. pc'["command"] # "read" /\ accepted' = accepted
          BY DEF HandleRequest, Goto, SectionsOK, Thread, send_confirmation, OwnerGone
        <5>2. n > accepted
          BY <4>1, <5>1 DEF Unhandled
        <5>3. n > k
          BY <1>1, <1>4, <5>2 DEF SocketOK
        <5>4. "client" \notin conns[k].open
          BY <1>2, <1>4, <2>2, <4>1, <5>3 DEF SocketOK
        <5>. QED  BY <1>1, <1>7, <5>4 DEF ClientListens
      <4>. QED  BY <2>2, <4>1 DEF Quiet
    <3>. QED  BY <3>3, <3>4, <3>5, <3>6 DEF Served
  <2>6. ASSUME NEW p \in Protocol, app'[p] \in Active
        PROVE  Served(p)'
    <3>1. app[p] \in Active
      BY <2>6, AppsKept DEF CommandSteps
    <3>. QED  BY <2>4, <3>1 DEF RegistrationsOK, Active
  <2>7. ASSUME NEW n \in 1 .. Len(conns), Granted(conns'[n]), conns'[n].client \in Protocol
        PROVE  \E p \in Protocol : p = conns'[n].client /\ Served(p)'
    <3>1. CASE n = k
      BY <1>2, <1>4, <2>2, <2>5, <2>7, <3>1
    <3>2. CASE n # k
      <4>1. conns'[n] = conns[n] /\ Served(conns[n].client)
        BY <2>2, <2>7, <3>2 DEF RegistrationsOK
      <4>. QED  BY <2>4, <2>7, <4>1
    <3>. QED  BY <3>1, <3>2
  <2>. QED  BY <2>2, <2>6, <2>7 DEF RegistrationsOK, Active
<1>8. CASE ~ ClientListens
  <2>1. AllFade
    BY <1>8, OwnerEnds DEF HandleRequest
  <2>2. ASSUME NEW p \in Protocol, Served(p)
        PROVE  Served(p)'
    <3>1. restarts = 0 => p \in clientProtocols \cap areas /\ p # o /\ Quiet(p)
      BY <1>5, <2>2 DEF Served
    <3>. QED  BY <1>6, <2>1, <2>2, <3>1, ServedKept, QuietFades, RestartsKept, ScenarioKept
  <2>3. ASSUME NEW p \in Protocol, app'[p] \in Active
        PROVE  Served(p)'
    <3>1. app[p] \in Active
      BY <2>3, AppsKept DEF CommandSteps
    <3>. QED  BY <2>2, <3>1 DEF RegistrationsOK, Active
  <2>4. ASSUME NEW n \in 1 .. Len(conns), Granted(conns'[n]), conns'[n].client \in Protocol
        PROVE  \E p \in Protocol : p = conns'[n].client /\ Served(p)'
    <3>1. Fades(conns[n], conns'[n])
      BY <2>1 DEF AllFade
    <3>2. conns'[n].client = conns[n].client /\ Granted(conns[n])
      BY <2>4, <3>1, GrantedFades DEF Fades
    <3>. QED  BY <2>2, <2>4, <3>2 DEF RegistrationsOK
  <2>5. Len(conns') = Len(conns)
    BY <2>1 DEF AllFade
  <2>. QED  BY <2>3, <2>4, <2>5 DEF RegistrationsOK, Active
<1>. QED  BY <1>7, <1>8

LEMMA StepRegistrations ==
    ASSUME BPAssumption, FlagsOK, SectionsOK, SocketOK, AppsOK, RegistrationsOK, Next
    PROVE  RegistrationsOK'
<1>1. \A p \in Protocol : app[p] \in Active => Served(p)
  BY DEF RegistrationsOK, Active
<1>2. CASE HandleRequest /\ ~ Restart
  BY <1>2, RequestServed
<1>3. CASE Restart
  <2>1. AllFade
    BY <1>3, OwnerEnds DEF Restart
  <2>2. restarts' # 0
    BY <1>3 DEF Restart, FlagsOK
  <2>3. \A p : Served(p) => Served(p)'
    BY <2>2, ScenarioKept DEF Served, Roomy
  <2>4. app' = app
    BY <1>3, AppsKept
  <2>5. ASSUME NEW n \in 1 .. Len(conns), Granted(conns'[n]), conns'[n].client \in Protocol
        PROVE  \E p \in Protocol : p = conns'[n].client /\ Served(p)'
    <3>1. Fades(conns[n], conns'[n])
      BY <2>1 DEF AllFade
    <3>2. conns'[n].client = conns[n].client /\ Granted(conns[n])
      BY <2>5, <3>1, GrantedFades DEF Fades
    <3>. QED  BY <2>3, <2>5, <3>2 DEF RegistrationsOK
  <2>6. Len(conns') = Len(conns)
    BY <2>1 DEF AllFade
  <2>. QED  BY <1>1, <2>3, <2>4, <2>5, <2>6 DEF RegistrationsOK, Active
<1>4. CASE ~ HandleRequest /\ ~ Restart
  <2>1. ASSUME NEW c \in Client, Connect(c)
        PROVE  RegistrationsOK'
    BY <1>4, <2>1, ConnectServed
  <2>2. ASSUME NEW c \in Client, SendRequest(c)
        PROVE  RegistrationsOK'
    BY <1>4, <2>2, AskServed
  <2>3. CASE LeaveAfterShutDown \/ \E c \in Client : ReadResponse(c) \/ GiveUp(c)
    <3>1. AllFade
      BY <2>3, ClientCloses, NoneFades, Constants
      DEF LeaveAfterShutDown, ReadResponse, GiveUp, socketVars, SocketOK
    <3>2. \A p \in Protocol : app'[p] \in Active => Served(p)
      BY <2>3, ClosingServed
    <3>. QED  BY <1>4, <3>1, <3>2, CalmStep
  <2>4. CASE ~ SocketSteps
    <3>1. AllFade
      <4>1. CASE UNCHANGED <<the_command_socket, data_socket, accepted, conns>>
        BY <4>1, NoneFades DEF SocketOK
      <4>2. CASE OwnerGone
        BY <4>2, OwnerEnds
      <4>3. CASE close_owner
        BY <4>3, ListenerCloses
      <4>4. CASE accept
        BY <4>4, NoneFades DEF SocketOK, accept
      <4>5. CASE CommandStop
        <5>1. CASE data_socket # NoSocket
          BY <4>5, <5>1, OwnerCloses DEF CommandStop
        <5>2. CASE data_socket = NoSocket
          <6>1. conns \in [1 .. Len(conns) -> Conn]
            BY ElementOfSeq DEF SocketOK
          <6>2. conns' = conns
            BY <4>5, <5>2, <6>1 DEF CommandStop, stop_read_command, NoSocket
          <6>. QED  BY <6>2, NoneFades DEF SocketOK
        <5>. QED  BY <5>1, <5>2
      <4>. QED  BY <1>4, <2>4, <4>1, <4>2, <4>3, <4>4, <4>5, StepCases DEF SocketCases, SocketSteps
    <3>2. \A p \in Protocol : app'[p] \in Active => Served(p)
      BY <1>1, <2>4, ActiveKept
    <3>. QED  BY <1>4, <3>1, <3>2, CalmStep
  <2>. QED  BY <2>1, <2>2, <2>3, <2>4 DEF SocketSteps
<1>. QED  BY <1>2, <1>3, <1>4

(***************************************************************************)
(* Order of payloads.                                                      *)
(***************************************************************************)
LEMMA AfterTail ==
    ASSUME NEW mode, NEW x \in Nat, NEW s \in Seq(Nat), NEW top \in Nat, s # <<>>,
           After(mode, x, s, top)
    PROVE  /\ After(mode, x, Tail(s), top) /\ After(mode, Head(s), Tail(s), top)
           /\ mode = "REPEAT" => After(mode, Head(s), s, top)
           /\ Before(mode, x, Head(s)) /\ Head(s) <= top /\ Head(s) \in Nat
<1>1. /\ Tail(s) \in Seq(Nat) /\ Len(s) \in Nat \ {0} /\ Len(Tail(s)) = Len(s) - 1
      /\ \A i \in 1 .. Len(Tail(s)) : Tail(s)[i] = s[i + 1]
      /\ Head(s) = s[1]
  BY HeadTailProperties, EmptySeq
<1>2. \A i \in 1 .. Len(s) : s[i] \in Nat
  BY ElementOfSeq
<1>3. /\ \A i \in 1 .. Len(s) : Before(mode, x, s[i]) /\ s[i] <= top
      /\ \A i, j \in 1 .. Len(s) : i < j => s[i] < s[j]
  BY DEF After, Increasing
<1>4. ASSUME NEW i \in 1 .. Len(Tail(s))
      PROVE  /\ i + 1 \in 1 .. Len(s) /\ Tail(s)[i] = s[i + 1] /\ s[1] < s[i + 1]
  BY <1>1, <1>3
<1>5. Increasing(Tail(s))
  BY <1>1, <1>3, <1>4 DEF Increasing
<1>6. \A i \in 1 .. Len(Tail(s)) : /\ Before(mode, x, Tail(s)[i]) /\ Tail(s)[i] <= top
                                   /\ Before(mode, Head(s), Tail(s)[i])
  BY <1>1, <1>2, <1>3, <1>4 DEF Before
<1>7. mode = "REPEAT" => \A i \in 1 .. Len(s) : Before(mode, Head(s), s[i])
  BY <1>1, <1>2, <1>3 DEF Before
<1>. QED  BY <1>1, <1>2, <1>3, <1>5, <1>6, <1>7 DEF After

LEMMA AfterEmpty ==
    ASSUME NEW mode, NEW x, NEW top
    PROVE  After(mode, x, <<>>, top)
BY DEF After, Increasing

LEMMA AfterAppend ==
    ASSUME NEW mode, NEW x \in Nat, NEW s \in Seq(Nat), NEW top \in Nat, x <= top,
           After(mode, x, s, top)
    PROVE  After(mode, x, Append(s, top + 1), top + 1)
<1> DEFINE t == Append(s, top + 1)
<1>1. /\ Len(s) \in Nat /\ Len(t) = Len(s) + 1 /\ t[Len(s) + 1] = top + 1
      /\ \A i \in 1 .. Len(s) : t[i] = s[i]
  BY AppendProperties, LenProperties
<1>2. \A i \in 1 .. Len(s) : s[i] \in Nat
  BY ElementOfSeq
<1>3. /\ \A i \in 1 .. Len(s) : Before(mode, x, s[i]) /\ s[i] <= top
      /\ \A i, j \in 1 .. Len(s) : i < j => s[i] < s[j]
  BY DEF After, Increasing
<1> HIDE DEF t
<1>4. Increasing(t)
  BY <1>1, <1>2, <1>3, SMTT(30) DEF Increasing
<1>5. ASSUME NEW i \in 1 .. Len(t)
      PROVE  Before(mode, x, t[i]) /\ t[i] <= top + 1
  <2>1. CASE i = Len(s) + 1
    BY <1>1, <2>1 DEF Before
  <2>2. CASE i # Len(s) + 1
    <3>1. i \in 1 .. Len(s)
      BY <1>1, <2>2
    <3>. QED  BY <1>1, <1>2, <1>3, <3>1
  <2>. QED  BY <2>1, <2>2
<1>6. After(mode, x, t, top + 1)
  BY <1>4, <1>5 DEF After
<1>. QED  BY <1>6 DEF t

LEMMA AfterRaise ==
    ASSUME NEW mode, NEW x, NEW s \in Seq(Nat), NEW top \in Nat, After(mode, x, s, top)
    PROVE  After(mode, x, s, top + 1)
<1>1. \A i \in 1 .. Len(s) : s[i] \in Nat
  BY ElementOfSeq
<1>. QED  BY <1>1 DEF After

LEMMA OrderTypes ==
    ASSUME BPAssumption, FlagsOK, PacketOK, AppsOK, QueuesOK, NEW p \in Protocol
    PROVE  /\ txq[p].items \in Seq(Nat) /\ ind[p].items \in Seq(Nat)
           /\ sent[p] \in Nat /\ submitted[p] \in Nat /\ got[p] \in Nat /\ received \in Nat
<1>1. txq[p].items \in Seq(Item) /\ ind[p].items \in Seq(Item)
  BY QueueType DEF QueuesOK
<1>2. Item \subseteq Nat /\ received \in Nat
  BY Numbers
<1>. QED  BY <1>1, <1>2, SeqMonotonic DEF AppsOK

\* What the steps of others than the transmitter do to the payloads of p to be sent.
ItemsChange(p) ==
    \/ txq'[p].items = txq[p].items /\ submitted'[p] \in {submitted[p], submitted[p] + 1}
    \/ txq'[p].items = <<>> /\ submitted'[p] = submitted[p]
    \/ txq'[p].items = Append(txq[p].items, submitted[p] + 1) /\ submitted'[p] = submitted[p] + 1
    \/ /\ txq[p].items # <<>>
       /\ txq'[p].items = Append(Tail(txq[p].items), submitted[p] + 1)
       /\ submitted'[p] = submitted[p] + 1

\* Whatever comes before the queue stays before it.
LEMMA ItemsAfter ==
    ASSUME BPAssumption, FlagsOK, PacketOK, AppsOK, QueuesOK, NEW p \in Protocol, ItemsChange(p),
           NEW x \in Nat, x <= submitted[p],
           After(scenario.mode[p], x, txq[p].items, submitted[p])
    PROVE  /\ After(scenario.mode[p], x, txq'[p].items, submitted'[p])
           /\ x <= submitted'[p]
<1> DEFINE m == scenario.mode[p]
           s == txq[p].items
           top == submitted[p]
<1>1. s \in Seq(Nat) /\ top \in Nat
  BY OrderTypes
<1>2. CASE txq'[p].items = s /\ submitted'[p] \in {top, top + 1}
  BY <1>1, <1>2, AfterRaise, SMTT(30)
<1>3. CASE txq'[p].items = <<>> /\ submitted'[p] = top
  BY <1>3, AfterEmpty
<1>4. CASE txq'[p].items = Append(s, top + 1) /\ submitted'[p] = top + 1
  BY <1>1, <1>4, AfterAppend, SMTT(30)
<1>5. CASE s # <<>> /\ txq'[p].items = Append(Tail(s), top + 1) /\ submitted'[p] = top + 1
  <2>1. Tail(s) \in Seq(Nat) /\ After(m, x, Tail(s), top)
    BY <1>1, <1>5, AfterTail, HeadTailProperties
  <2>2. After(m, x, Append(Tail(s), top + 1), top + 1)
    BY <1>1, <2>1, AfterAppend
  <2>. QED  BY <1>1, <1>5, <2>2
<1>. QED  BY <1>2, <1>3, <1>4, <1>5 DEF ItemsChange

LEMMA OthersOrder ==
    ASSUME BPAssumption, FlagsOK, PacketOK, AppsOK, QueuesOK, beacon \in Beacon,
           NEW p \in Protocol, SendOrder(p), ItemsChange(p),
           UNCHANGED <<beacon, sent, todo, scenario>>
    PROVE  SendOrder(p)'
<1>1. sent[p] \in Nat /\ sent[p] <= submitted[p]
  BY OrderTypes DEF SendOrder
<1>2. After(scenario.mode[p], sent[p], txq'[p].items, submitted'[p]) /\ sent[p] <= submitted'[p]
  BY <1>1, ItemsAfter DEF SendOrder
<1>3. ASSUME NEW k \in 1 .. Len(beacon.payloads), beacon.payloads[k][1] = p
      PROVE  /\ p \notin todo
             /\ Before(scenario.mode[p], sent[p], beacon.payloads[k][2])
             /\ beacon.payloads[k][2] <= submitted'[p]
             /\ After(scenario.mode[p], beacon.payloads[k][2], txq'[p].items, submitted'[p])
             /\ \A l \in 1 .. Len(beacon.payloads) : beacon.payloads[l][1] = p => l = k
  <2>1. beacon.payloads[k] \in Protocol \X Nat
    BY ElementOfSeq DEF Beacon
  <2>2. beacon.payloads[k][2] \in Nat
    BY <2>1
  <2>3. /\ p \notin todo
        /\ Before(scenario.mode[p], sent[p], beacon.payloads[k][2])
        /\ beacon.payloads[k][2] <= submitted[p]
        /\ After(scenario.mode[p], beacon.payloads[k][2], txq[p].items, submitted[p])
        /\ \A l \in 1 .. Len(beacon.payloads) : beacon.payloads[l][1] = p => l = k
    BY <1>3 DEF SendOrder
  <2>. QED  BY <2>2, <2>3, ItemsAfter
<1>. QED  BY <1>2, <1>3 DEF SendOrder

\* An empty beacon, and a queue that has lost a payload at most.
LEMMA EmptyBeaconOrder ==
    ASSUME BPAssumption, FlagsOK, PacketOK, AppsOK, QueuesOK, NEW p \in Protocol, SendOrder(p),
           UNCHANGED <<sent, submitted, scenario>>, beacon'.payloads = <<>>,
           \/ txq'[p].items = txq[p].items
           \/ txq[p].items # <<>> /\ txq'[p].items = Tail(txq[p].items)
    PROVE  SendOrder(p)'
<1>1. txq[p].items \in Seq(Nat) /\ sent[p] \in Nat /\ submitted[p] \in Nat
  BY OrderTypes
<1>2. sent[p] <= submitted[p] /\ After(scenario.mode[p], sent[p], txq[p].items, submitted[p])
  BY DEF SendOrder
<1>3. After(scenario.mode[p], sent[p], txq'[p].items, submitted[p])
  BY <1>1, <1>2, AfterTail
<1>. QED  BY <1>2, <1>3 DEF SendOrder

\* The transmitter visits the queue of v.
LEMMA VisitOrder ==
    ASSUME BPAssumption, FlagsOK, SectionsOK, PacketOK, AppsOK, QueuesOK, beacon \in Beacon, OrderOK,
           NEW v \in Protocol, attempt_add_payload(v), NEW p \in Protocol
    PROVE  SendOrder(p)'
<1>1. Visits(v) /\ v \in todo /\ todo' \subseteq todo /\ SendOrder(p) /\ SendOrder(v)
  BY VisitStep DEF OrderOK
<1>2. UNCHANGED <<sent, submitted, scenario>>
  BY TxFrame DEF TxSteps, TxKeeps, clientVars, runVars, attempt_add_payload
<1>3. /\ txq[v].items \in Seq(Nat) /\ txq[p].items \in Seq(Nat)
      /\ sent[p] \in Nat /\ submitted[p] \in Nat
  BY OrderTypes
<1>4. \/ txq'[p].items = txq[p].items
      \/ /\ p = v /\ txq[p].items # <<>> /\ scenario.mode[p] # "REPEAT"
         /\ txq'[p].items = Tail(txq[p].items)
  BY <1>1, TakenQueue DEF Visits, QueuesOK
<1>5. CASE beacon' = NoBeacon
  <2>1. beacon'.payloads = <<>>
    BY <1>5 DEF NoBeacon
  <2>. QED  BY <1>1, <1>2, <1>4, <2>1, EmptyBeaconOrder
<1>6. CASE beacon' = beacon /\ txq' = txq
  BY <1>1, <1>2, <1>6 DEF SendOrder
<1>7. CASE /\ txq[v].items # <<>> /\ txq' = [txq EXCEPT ![v] = Taken(v)]
           /\ beacon' = WithPayload(v) /\ todo' = todo \ {v}
  <2> DEFINE b == beacon.payloads
             n == Len(b)
             x == Head(txq[v].items)
  <2>1. /\ b \in Seq(Protocol \X Nat) /\ n \in Nat
        /\ beacon'.payloads = Append(b, <<v, x>>)
    BY <1>7, SMTT(30) DEF Beacon, WithPayload
  <2>2. /\ Len(beacon'.payloads) = n + 1 /\ beacon'.payloads[n + 1] = <<v, x>>
        /\ \A k \in 1 .. n : beacon'.payloads[k] = b[k]
    <3>1. x \in Nat
      BY <1>3, <1>7, HeadTailProperties
    <3>2. <<v, x>> \in Protocol \X Nat
      BY <3>1
    <3>. QED  BY <2>1, <3>2, AppendProperties, SMTT(30)
  <2>3. CASE p # v
    <3>1. txq'[p].items = txq[p].items
      BY <1>4, <2>3
    <3>2. \A k \in 1 .. n + 1 : beacon'.payloads[k][1] = p => k \in 1 .. n /\ beacon'.payloads[k] = b[k]
      BY <2>1, <2>2, <2>3, SMTT(30)
    <3>3. ASSUME NEW k \in 1 .. n + 1, beacon'.payloads[k][1] = p
          PROVE  /\ p \notin todo'
                 /\ Before(scenario.mode[p], sent[p], beacon'.payloads[k][2])
                 /\ beacon'.payloads[k][2] <= submitted[p]
                 /\ After(scenario.mode[p], beacon'.payloads[k][2], txq[p].items, submitted[p])
                 /\ \A l \in 1 .. n + 1 : beacon'.payloads[l][1] = p => l = k
      <4>1. k \in 1 .. n /\ beacon'.payloads[k] = b[k]
        BY <3>2, <3>3
      <4>2. \A l \in 1 .. n + 1 : beacon'.payloads[l][1] = p => l \in 1 .. n /\ b[l][1] = p
        BY <3>2
      <4> HIDE DEF b, n
      <4>. QED  BY <1>1, <3>3, <4>1, <4>2 DEF SendOrder, b, n
    <3> HIDE DEF b, n
    <3>4. sent[p] <= submitted[p] /\ After(scenario.mode[p], sent[p], txq[p].items, submitted[p])
      BY <1>1 DEF SendOrder
    <3>. QED  BY <1>2, <2>2, <3>1, <3>3, <3>4 DEF SendOrder
  <2>4. CASE p = v
    <3>1. \A k \in 1 .. n : b[k][1] # p
      BY <1>1, <2>4 DEF SendOrder
    <3>2. /\ After(scenario.mode[p], sent[p], txq[p].items, submitted[p]) /\ sent[p] <= submitted[p]
      BY <1>1 DEF SendOrder
    <3>3. /\ Before(scenario.mode[p], sent[p], x) /\ x <= submitted[p]
          /\ After(scenario.mode[p], x, Tail(txq[p].items), submitted[p])
          /\ After(scenario.mode[p], sent[p], Tail(txq[p].items), submitted[p])
          /\ scenario.mode[p] = "REPEAT" => After(scenario.mode[p], x, txq[p].items, submitted[p])
      BY <1>3, <1>7, <2>4, <3>2, AfterTail
    <3>4. txq'[p].items = IF scenario.mode[p] = "REPEAT" THEN txq[p].items ELSE Tail(txq[p].items)
      BY <1>7, <2>4, TakenQueue DEF QueuesOK
    <3>5. /\ After(scenario.mode[p], x, txq'[p].items, submitted[p])
          /\ After(scenario.mode[p], sent[p], txq'[p].items, submitted[p])
      BY <3>2, <3>3, <3>4
    <3>6. \A k \in 1 .. n + 1 : beacon'.payloads[k][1] = p => k = n + 1
      BY <2>1, <2>2, <3>1, SMTT(30)
    <3>7. beacon'.payloads[n + 1][2] = x /\ p \notin todo'
      BY <1>7, <2>2, <2>4
    <3> HIDE DEF x, n, b
    <3>. QED  BY <1>2, <2>2, <3>2, <3>3, <3>5, <3>6, <3>7 DEF SendOrder
  <2>. QED  BY <2>3, <2>4
<1>. QED  BY <1>1, <1>5, <1>6, <1>7 DEF Visits

\* What the transmitter has put into the beacon is sent.
LEMMA SendingOrder ==
    ASSUME BPAssumption, FlagsOK, PacketOK, AppsOK, QueuesOK, beacon \in Beacon, OrderOK,
           generate_beacon, NEW p \in Protocol
    PROVE  /\ SendOrder(p)'
           /\ sent'[p] # sent[p] => sent'[p] > sent[p]
           /\ /\ \E k \in 1 .. Len(beacon.payloads) : beacon.payloads[k][1] = p
              /\ scenario.mode[p] # "REPEAT"
              => sent'[p] # sent[p]
<1>1. /\ beacon' = NoBeacon /\ txq' = txq /\ UNCHANGED <<submitted, scenario>>
      /\ sent'[p] = IF SentNow(p) = {} THEN sent[p]
                    ELSE beacon.payloads[CHOOSE x \in SentNow(p) : TRUE][2]
  BY DEF generate_beacon, TxUnlock, queueVars, clientVars, runVars
<1>2. SendOrder(p) /\ sent[p] \in Nat /\ submitted[p] \in Nat /\ Len(beacon'.payloads) = 0
  BY <1>1, OrderTypes DEF OrderOK, NoBeacon
<1>3. CASE SentNow(p) = {}
  BY <1>1, <1>2, <1>3, SMTT(30) DEF SendOrder, SentNow
<1>4. CASE SentNow(p) # {}
  <2>1. PICK x \in SentNow(p) : x = CHOOSE y \in SentNow(p) : TRUE
    BY <1>4
  <2>2. x \in 1 .. Len(beacon.payloads) /\ beacon.payloads[x][1] = p
    BY <2>1 DEF SentNow
  <2>3. sent'[p] = beacon.payloads[x][2]
    BY <1>1, <1>4, <2>1
  <2>4. beacon.payloads[x][2] \in Nat
    <3>1. beacon.payloads[x] \in Protocol \X Nat
      BY <2>2, ElementOfSeq DEF Beacon
    <3>. QED  BY <3>1
  <2>5. /\ Before(scenario.mode[p], sent[p], beacon.payloads[x][2])
        /\ beacon.payloads[x][2] <= submitted[p]
        /\ After(scenario.mode[p], beacon.payloads[x][2], txq[p].items, submitted[p])
    BY <1>2, <2>2 DEF SendOrder
  <2>6. SendOrder(p)'
    BY <1>1, <1>2, <2>3, <2>5, SMTT(30) DEF SendOrder
  <2>. QED  BY <1>2, <2>3, <2>4, <2>5, <2>6, SMTT(30) DEF Before
<1>. QED  BY <1>3, <1>4

\* A client hands over a payload of v.
LEMMA UsedItems ==
    ASSUME BPAssumption, FlagsOK, PacketOK, AppsOK, QueuesOK, RegistrationsOK,
           NEW v \in Protocol, TransmitPayload(v) \/ push_wait(v), NEW p \in Protocol
    PROVE  ItemsChange(p)
<1>1. txq[v] \in Queue /\ txq[p] \in Queue /\ QueueUses(v) /\ submitted \in [Protocol -> Nat]
  BY UseSteps DEF QueuesOK, AppsOK
<1>2. CASE p # v
  <2>1. txq'[p] = txq[p] /\ submitted'[p] = submitted[p]
    BY <1>1, <1>2 DEF QueueUses, QueuesOK
  <2>. QED  BY <2>1 DEF ItemsChange
<1>3. CASE p = v
  <2>1. CASE txq' = [txq EXCEPT ![v] = Reset(txq[v])] /\ submitted' = submitted
    BY <1>1, <1>3, <2>1, ResetQueue DEF ItemsChange, QueuesOK
  <2>2. CASE txq' = txq /\ submitted' \in {submitted, [submitted EXCEPT ![v] = submitted[v] + 1]}
    BY <1>1, <1>3, <2>2 DEF ItemsChange
  <2>3. CASE /\ \/ txq' = [txq EXCEPT ![v] = Waiting(txq[v])]
                \/ txq' = [txq EXCEPT ![v] = TimedOut(txq[v])]
             /\ submitted' \in {submitted, [submitted EXCEPT ![v] = submitted[v] + 1]}
    BY <1>1, <1>3, <2>3, WaitingQueue DEF ItemsChange, QueuesOK
  <2>4. ASSUME submitted' = [submitted EXCEPT ![v] = submitted[v] + 1]
        PROVE  submitted'[v] = submitted[v] + 1 /\ submitted[v] + 1 \in Item
    <3>1. submitted[v] \in Nat /\ submitted'[v] = submitted[v] + 1
      BY <1>1, <2>4
    <3>2. submitted' # submitted
      BY <3>1
    <3>3. submitted[v] < scenario.payloads
      BY <3>2, UseSteps DEF AppsOK
    <3>. QED  BY <3>1, <3>3, Numbers
  <2>5. CASE /\ txq' = [txq EXCEPT ![v] = Push(txq[v], submitted[v] + 1)]
             /\ submitted' = [submitted EXCEPT ![v] = submitted[v] + 1]
    <3>1. Push(txq[v], submitted[v] + 1).items = Append(txq[v].items, submitted[v] + 1)
      BY <1>1, <2>4, <2>5, PushQueue
    <3>. QED  BY <1>3, <2>4, <2>5, <3>1 DEF ItemsChange, QueuesOK
  <2>6. CASE /\ scenario.mode[v] = "QUEUE_DROPHEAD" /\ app[v] = "on"
             /\ txq' = [txq EXCEPT ![v] = PushForce(txq[v], submitted[v] + 1, scenario.entries[v])]
             /\ submitted' = [submitted EXCEPT ![v] = submitted[v] + 1]
    <3> DEFINE n == scenario.entries[v]
               s == txq[v].items
    <3>1. n \in Nat \ {0} /\ s \in Seq(Nat)
      BY <2>6, ScenarioTypes, OrderTypes DEF FlagsOK, RegistrationsOK, Served, Roomy
    <3>2. txq'[v].items = Append(IF Len(s) = n THEN Tail(s) ELSE s, submitted[v] + 1)
      BY <1>1, <2>4, <2>6, <3>1, PushForceQueue DEF QueuesOK
    <3>3. Len(s) = n => s # <<>>
      BY <3>1
    <3> HIDE DEF n, s
    <3>. QED  BY <1>3, <2>4, <2>6, <3>2, <3>3 DEF ItemsChange, s
  <2>. QED  BY <1>1, <2>1, <2>2, <2>3, <2>5, <2>6 DEF QueueUses
<1>. QED  BY <1>2, <1>3

LEMMA ItemsStep ==
    ASSUME BPAssumption, FlagsOK, SectionsOK, PacketOK, AppsOK, QueuesOK, SocketOK, RegistrationsOK,
           Loops \/ RxSteps \/ PayloadSteps \/ CommandSteps \/ SocketSteps \/ QueueSteps,
           NEW p \in Protocol
    PROVE  ItemsChange(p)
<1>1. txq[p] \in Queue
  BY DEF QueuesOK
<1>2. CASE Loops \/ RxSteps
  BY <1>2, QueuesKept, AppsKept DEF ItemsChange, queueVars
<1>3. CASE PayloadSteps
  BY <1>1, <1>3, PayloadResets, ResetQueue, AppsKept DEF ItemsChange, ResetAll
<1>4. CASE CommandSteps
  <2>1. txq'[p] \in {txq[p], EmptyQueue, Reset(txq[p])} /\ submitted' = submitted
    BY <1>4, CommandRequests, AppsKept DEF Requests, queueVars, QueuesOK
  <2>2. EmptyQueue.items = <<>> /\ Reset(txq[p]).items = <<>>
    BY <1>1, ResetQueue, QueueType
  <2>. QED  BY <2>1, <2>2 DEF ItemsChange
<1>5. CASE SocketSteps
  BY <1>1, <1>5, SocketFrame, WaitingQueue DEF ItemsChange, QueuesOK
<1>6. ASSUME NEW v \in Protocol, TransmitPayload(v) \/ push_wait(v)
      PROVE  ItemsChange(p)
  BY <1>6, UsedItems
<1>7. ASSUME NEW v \in Protocol, ReceivePayload(v)
      PROVE  ItemsChange(p)
  BY <1>7 DEF ReceivePayload, ItemsChange
<1>8. ASSUME NEW v \in Protocol, DieInQueue(v)
      PROVE  ItemsChange(p)
  <2>1. txq'[p].items = txq[p].items
    BY <1>8, DeathInQueue DEF QueuesOK
  <2>. QED  BY <1>8, <2>1 DEF DieInQueue, ItemsChange
<1>. QED  BY <1>2, <1>3, <1>4, <1>5, <1>6, <1>7, <1>8 DEF QueueSteps

LEMMA StepSendOrder ==
    ASSUME BPAssumption, FlagsOK, SectionsOK, PacketOK, AppsOK, QueuesOK, SocketOK, RegistrationsOK,
           beacon \in Beacon, OrderOK, Next, NEW p \in Protocol
    PROVE  SendOrder(p)'
<1>1. SendOrder(p) /\ scenario' = scenario
  BY ScenarioKept DEF OrderOK
<1>2. CASE Loops \/ RxSteps \/ PayloadSteps \/ CommandSteps \/ SocketSteps \/ QueueSteps
  <2>1. ItemsChange(p) /\ UNCHANGED <<beacon, sent, todo>>
    BY <1>2, ItemsStep, BeaconKept
  <2>. QED  BY <1>1, <2>1, OthersOrder
<1>3. CASE TxLock
  <2>1. UNCHANGED <<sent, submitted, txq>>
    BY <1>3 DEF TxLock, queueVars, clientVars
  <2>2. CASE beacon' = beacon /\ todo' = todo
    BY <1>1, <2>1, <2>2 DEF SendOrder
  <2>3. CASE beacon'.payloads = <<>>
    BY <1>1, <2>1, <2>3, EmptyBeaconOrder
  <2>. QED  BY <1>3, <2>2, <2>3 DEF TxLock
<1>4. ASSUME NEW v \in Protocol, attempt_add_payload(v)
      PROVE  SendOrder(p)'
  BY <1>4, VisitOrder
<1>5. CASE generate_beacon
  BY <1>5, SendingOrder
<1>6. CASE Restart
  <2>1. UNCHANGED <<sent, submitted, txq>> /\ beacon'.payloads = <<>>
    BY <1>6 DEF Restart, queueVars, clientVars, NoBeacon
  <2>. QED  BY <1>1, <2>1, EmptyBeaconOrder
<1>. QED  BY <1>2, <1>3, <1>4, <1>5, <1>6, NextSteps DEF TxSteps

(***************************************************************************)
(* Order of the payloads received.                                         *)
(***************************************************************************)
\* A payload taken comes after those taken before.
LEMMA TakingOrder ==
    ASSUME BPAssumption, FlagsOK, PacketOK, AppsOK, QueuesOK, OrderOK,
           NEW v \in Protocol, ReceivePayload(v), NEW p \in Protocol
    PROVE  ReceiveOrder(p)' /\ (got'[p] # got[p] => got'[p] > got[p])
<1>1. /\ ind[v].items # <<>> /\ got' = [got EXCEPT ![v] = Head(ind[v].items)]
      /\ ind' = [ind EXCEPT ![v] = Pop(ind[v])] /\ received' = received
  BY DEF ReceivePayload, DaemonKeeps, rxVars
<1>2. ReceiveOrder(p) /\ ReceiveOrder(v)
  BY DEF OrderOK
<1>3. CASE p # v
  <2>1. got'[p] = got[p] /\ ind'[p] = ind[p]
    BY <1>1, <1>3 DEF AppsOK, QueuesOK
  <2>. QED  BY <1>1, <1>2, <2>1 DEF ReceiveOrder
<1>4. CASE p = v
  <2> DEFINE s == ind[p].items
  <2>1. s \in Seq(Nat) /\ got[p] \in Nat /\ received \in Nat
    BY OrderTypes
  <2>2. got'[p] = Head(s) /\ ind'[p].items = Tail(s) /\ s # <<>>
    BY <1>1, <1>4, PopQueue DEF AppsOK, QueuesOK
  <2>3. /\ \A i, j \in 1 .. Len(s) : i < j => s[i] <= s[j]
        /\ \A i \in 1 .. Len(s) : got[p] <= s[i] /\ s[i] <= received
    BY <1>2 DEF ReceiveOrder, NonDecreasing
  <2> HIDE DEF s
  <2>4. /\ Len(s) \in Nat \ {0} /\ Len(Tail(s)) = Len(s) - 1 /\ Head(s) = s[1]
        /\ \A i \in 1 .. Len(Tail(s)) : Tail(s)[i] = s[i + 1]
    BY <2>1, <2>2, HeadTailProperties, EmptySeq
  <2>5. \A i \in 1 .. Len(s) : s[i] \in Nat
    BY <2>1, ElementOfSeq
  <2>6. got[p] <= Head(s) /\ Head(s) <= received /\ Head(s) \in Nat
    BY <2>3, <2>4, <2>5
  <2>7. ASSUME NEW i \in 1 .. Len(Tail(s))
        PROVE  /\ i + 1 \in 1 .. Len(s) /\ Tail(s)[i] = s[i + 1]
               /\ Head(s) <= Tail(s)[i] /\ Tail(s)[i] <= received
    BY <2>3, <2>4
  <2>8. NonDecreasing(Tail(s))
    BY <2>3, <2>7, SMTT(30) DEF NonDecreasing
  <2>9. ReceiveOrder(p)'
    BY <1>1, <2>2, <2>6, <2>7, <2>8 DEF ReceiveOrder
  <2>. QED  BY <2>1, <2>2, <2>6, <2>9, SMTT(30)
<1>. QED  BY <1>3, <1>4

\* The receiver appends what it has received last.
LEMMA DeliveryOrder ==
    ASSUME BPAssumption, FlagsOK, PacketOK, AppsOK, QueuesOK, SectionsOK, OrderOK,
           RxSteps, NEW p \in Protocol
    PROVE  ReceiveOrder(p)'
<1> DEFINE s == ind[p].items
<1>1. /\ s \in Seq(Nat) /\ got[p] \in Nat /\ received \in Nat /\ got' = got
      /\ received \in Item
  BY OrderTypes, AppsKept, Numbers
<1>2. /\ got[p] <= received
      /\ \A i, j \in 1 .. Len(s) : i < j => s[i] <= s[j]
      /\ \A i \in 1 .. Len(s) : got[p] <= s[i] /\ s[i] <= received
  BY DEF OrderOK, ReceiveOrder, NonDecreasing
<1>3. \A i \in 1 .. Len(s) : s[i] \in Nat
  BY <1>1, ElementOfSeq
<1>4. CASE received' = received + 1 /\ ind' = ind
  <2>1. ASSUME NEW i \in 1 .. Len(s)
        PROVE  s[i] <= received + 1
    <3>1. s[i] \in Nat /\ s[i] <= received
      BY <1>2, <1>3
    <3>2. received \in Nat
      BY <1>1
    <3> HIDE DEF s
    <3>. QED  BY <3>1, <3>2, SMTT(30)
  <2>2. got[p] <= received + 1
    BY <1>1, <1>2
  <2>. QED  BY <1>1, <1>2, <1>4, <2>1, <2>2 DEF ReceiveOrder, NonDecreasing
<1>5. CASE received' = received /\ ind'[p].items = s
  BY <1>1, <1>2, <1>5 DEF ReceiveOrder, NonDecreasing
<1>6. CASE received' = received /\ ind'[p].items = Append(s, received)
  <2> DEFINE t == Append(s, received)
  <2>1. /\ Len(s) \in Nat /\ Len(t) = Len(s) + 1 /\ t[Len(s) + 1] = received
        /\ \A i \in 1 .. Len(s) : t[i] = s[i]
    BY <1>1, AppendProperties, LenProperties, SMTT(30)
  <2> HIDE DEF t, s
  <2>2. ASSUME NEW i \in 1 .. Len(t)
        PROVE  i = Len(s) + 1 \/ i \in 1 .. Len(s)
    BY <2>1
  <2>3. NonDecreasing(t)
    BY <1>2, <2>1, <2>2, SMTT(30) DEF NonDecreasing
  <2>4. ASSUME NEW i \in 1 .. Len(t)
        PROVE  got[p] <= t[i] /\ t[i] <= received
    <3>1. CASE i = Len(s) + 1
      BY <1>1, <1>2, <2>1, <3>1, SMTT(30)
    <3>2. CASE i \in 1 .. Len(s)
      BY <1>2, <2>1, <3>2
    <3>. QED  BY <2>2, <3>1, <3>2
  <2>5. ind'[p].items = t
    BY <1>6 DEF t
  <2>. QED  BY <1>1, <1>2, <1>6, <2>3, <2>4, <2>5 DEF ReceiveOrder
<1>7. received' = received \/ (received' = received + 1 /\ ind' = ind)
  BY RxHandling DEF RxSteps, RxPacket, RxDone
<1>8. ind'[p].items \in {s, Append(s, received)}
  <2>1. \A o \in Protocol : ind[o] \in Queue
    BY DEF QueuesOK
  <2>2. Push(ind[p], received).items = Append(s, received)
    BY <1>1, <2>1, PushQueue
  <2>3. Waiting(ind[p]).items = s /\ TimedOut(ind[p]).items = s
    BY <2>1, WaitingQueue
  <2>. QED  BY <2>2, <2>3, RxDeliveries DEF Deliveries, QueuesOK
<1>. QED  BY <1>4, <1>5, <1>6, <1>7, <1>8

LEMMA StepReceiveOrder ==
    ASSUME BPAssumption, FlagsOK, SectionsOK, PacketOK, AppsOK, QueuesOK, SocketOK, RegistrationsOK,
           OrderOK, Next, NEW p \in Protocol
    PROVE  ReceiveOrder(p)'
<1>1. ReceiveOrder(p)
  BY DEF OrderOK
<1>2. CASE RxSteps
  BY <1>2, DeliveryOrder
<1>3. ASSUME NEW v \in Protocol, ReceivePayload(v)
      PROVE  ReceiveOrder(p)'
  BY <1>3, TakingOrder
<1>4. CASE Loops \/ Restart \/ TxSteps \/ PayloadSteps
  <2>1. ind' = ind /\ got' = got /\ received' = received
    BY <1>4, QueuesKept, AppsKept, LoopFrame, TxFrame, PayloadFrame
    DEF queueVars, LoopKeeps, TxKeeps, PayloadKeeps, rxVars, Restart
  <2>. QED  BY <1>1, <2>1 DEF ReceiveOrder
<1>5. CASE CommandSteps
  <2>1. got' = got /\ received' = received
    BY <1>5, AppsKept, CommandFrame DEF CommandKeeps, rxVars
  <2>2. ind'[p] = ind[p] \/ ind'[p] = EmptyQueue
    BY <1>5, CommandRequests DEF Requests, queueVars, QueuesOK
  <2>3. CASE ind'[p] = ind[p]
    BY <1>1, <2>1, <2>3 DEF ReceiveOrder
  <2>4. CASE ind'[p] = EmptyQueue
    BY <1>1, <2>1, <2>4, QueueType DEF ReceiveOrder, NonDecreasing
  <2>. QED  BY <2>2, <2>3, <2>4
<1>6. CASE SocketSteps
  BY <1>1, <1>6, SocketFrame, ClientFrame DEF DaemonKeeps, rxVars, ReceiveOrder
<1>7. ASSUME NEW v \in Protocol, TransmitPayload(v) \/ push_wait(v)
      PROVE  ReceiveOrder(p)'
  <2>1. received' = received
    BY <1>7, ClientFrame DEF QueueSteps, DaemonKeeps, rxVars
  <2>. QED  BY <1>1, <1>7, <2>1, UseSteps DEF ReceiveOrder
<1>8. ASSUME NEW v \in Protocol, DieInQueue(v)
      PROVE  ReceiveOrder(p)'
  <2>1. received' = received /\ got' = got
    BY <1>8, ClientFrame DEF QueueSteps, DaemonKeeps, rxVars, DieInQueue
  <2>2. ind'[p].items = ind[p].items
    BY <1>8, DeathInQueue DEF QueuesOK
  <2>. QED  BY <1>1, <2>1, <2>2 DEF ReceiveOrder
<1>. QED  BY <1>2, <1>3, <1>4, <1>5, <1>6, <1>7, <1>8, NextSteps DEF QueueSteps

LEMMA StepOrder ==
    ASSUME BPAssumption, FlagsOK, SectionsOK, PacketOK, AppsOK, QueuesOK, SocketOK, RegistrationsOK,
           beacon \in Beacon, OrderOK, Next
    PROVE  OrderOK'
<1>1. \A p \in Protocol : SendOrder(p)' /\ ReceiveOrder(p)'
  BY StepSendOrder, StepReceiveOrder
<1>. QED  BY <1>1 DEF OrderOK

\* Who sends, and who takes.
LEMMA StepInOrder ==
    ASSUME BPAssumption, FlagsOK, PacketOK, AppsOK, QueuesOK, beacon \in Beacon, OrderOK, Next,
           NEW p \in Protocol
    PROVE  /\ sent'[p] # sent[p] => sent'[p] > sent[p]
           /\ p \in {beacon.payloads[i][1] : i \in 1 .. Len(beacon.payloads)}
                /\ generate_beacon /\ scenario.mode[p] # "REPEAT" => sent'[p] # sent[p]
           /\ got'[p] # got[p] => got'[p] > got[p]
<1>1. CASE generate_beacon
  <2>1. got' = got
    BY <1>1, AppsKept DEF TxSteps
  <2>. QED  BY <1>1, <2>1, SendingOrder
<1>2. CASE ~ generate_beacon
  <2>1. sent' = sent
    <3>1. TxSteps => sent' = sent
      BY <1>2 DEF TxSteps, TxLock, attempt_add_payload
    <3>2. Restart => sent' = sent
      BY DEF Restart
    <3>. QED  BY <3>1, <3>2, BeaconKept, NextSteps
  <2>2. got'[p] # got[p] => got'[p] > got[p]
    <3>1. CASE Loops \/ TxSteps \/ RxSteps \/ PayloadSteps \/ CommandSteps \/ Restart \/ SocketSteps
      BY <3>1, AppsKept, SocketFrame
    <3>2. ASSUME NEW v \in Protocol, ReceivePayload(v)
          PROVE  got'[p] # got[p] => got'[p] > got[p]
      BY <3>2, TakingOrder
    <3>3. ASSUME NEW v \in Protocol, TransmitPayload(v) \/ push_wait(v) \/ DieInQueue(v)
          PROVE  got' = got
      BY <3>3, UseSteps DEF DieInQueue
    <3>. QED  BY <3>1, <3>2, <3>3, NextSteps DEF QueueSteps
  <2>. QED  BY <1>2, <2>1, <2>2
<1>. QED  BY <1>1, <1>2

(***************************************************************************)
(* Clean use.                                                              *)
(***************************************************************************)
LEMMA CleanUse ==
    ASSUME BPAssumption, FlagsOK, Clean(scenario)
    PROVE  /\ scenario.faults = {}
           /\ \A p \in Protocol : /\ scenario.mode[p] \in {"QUEUE_DROPTAIL", "QUEUE_DROPHEAD"}
                                  /\ scenario.entries[p] \in 1 .. MaxQueueLength
           /\ UpToSize(scenario)[Cardinality(Protocol)] <= MaxBeaconSize
           /\ \A r \in scenario.requests : r.s_type \notin {"Deactivate", "ClearBuffer"}
           /\ \A f \in scenario.packets :
                f.length <= f.data /\ \A i \in 1 .. Len(f.payloads) : f.payloads[i].length # 0
<1>1. UpToSize(scenario)[Cardinality(Protocol)] <= MaxBeaconSize
  BY DEF Clean, UpToSize
<1>2. /\ scenario.faults = {}
      /\ \A p \in Protocol : /\ scenario.mode[p] \in {"QUEUE_DROPTAIL", "QUEUE_DROPHEAD"}
                             /\ scenario.entries[p] \in 1 .. MaxQueueLength
  BY DEF Clean
<1>3. /\ \A r \in scenario.requests : r.s_type \notin {"Deactivate", "ClearBuffer"}
      /\ \A f \in scenario.packets :
            f.length <= f.data /\ \A i \in 1 .. Len(f.payloads) : f.payloads[i].length # 0
  BY DEF Clean
<1>. QED  BY <1>1, <1>2, <1>3

\* Statements about the protocols one after the other.
LEMMA OneByOne ==
    ASSUME NEW n \in Nat, NEW T, 0 \in T, \A i \in 0 .. n : i < n /\ i \in T => i + 1 \in T
    PROVE  \A i \in 0 .. n : i \in T
<1> DEFINE bad == {i \in 0 .. n : i \notin T}
           less == {ss \in Nat \X Nat : ss[1] < ss[2]}
<1>1. IsWellFoundedOn(less, Nat) /\ bad \subseteq Nat
  BY NatLessThanWellFounded DEF OpToRel
<1>2. ASSUME bad # {}
      PROVE  FALSE
  <2>1. PICK k \in bad : \A i \in bad : <<i, k>> \notin less
    <3> HIDE DEF bad, less
    <3>. QED  BY <1>1, <1>2, WFMin
  <2>2. k \in 1 .. n /\ k - 1 \in 0 .. n /\ k - 1 < n /\ (k - 1) + 1 = k
    <3>1. k \in 0 .. n /\ k # 0
      BY <2>1
    <3>. QED  BY <3>1
  <2>3. k - 1 \in bad
    BY <2>1, <2>2
  <2>4. <<k - 1, k>> \in less
    BY <2>2
  <2>. QED  BY <2>1, <2>3, <2>4
<1>. QED  BY <1>2

SizesUpTo(s, f, k) ==
    f = [p \in 0 .. k |-> IF p = 0 THEN HeaderSize ELSE f[p - 1] + PayloadHeaderSize + s.size[p]]

LEMMA UpToSizeExists ==
    ASSUME BPAssumption, NEW s
    PROVE  SizesUpTo(s, UpToSize(s), Cardinality(Protocol))
<1> DEFINE n == Cardinality(Protocol)
           next(f, k) == f[k] + PayloadHeaderSize + s.size[k + 1]
           T == {k \in 0 .. n : \E f : SizesUpTo(s, f, k)}
<1>1. n \in Nat
  BY Constants
<1> HIDE DEF n
<1>2. 0 \in T
  <2>1. \A p \in 0 .. 0 : p = 0
    OBVIOUS
  <2>2. SizesUpTo(s, [p \in 0 .. 0 |-> HeaderSize], 0)
    BY <2>1 DEF SizesUpTo
  <2>. QED  BY <1>1, <2>2
<1>3. ASSUME NEW k \in 0 .. n, k < n, k \in T
      PROVE  k + 1 \in T
  <2>1. PICK f : SizesUpTo(s, f, k)
    BY <1>3
  <2>2. PICK x : x = f[k] + PayloadHeaderSize + s.size[k + 1]
    OBVIOUS
  <2>3. PICK g : g = [p \in 0 .. k + 1 |-> IF p = k + 1 THEN x ELSE f[p]]
    OBVIOUS
  <2>4. ASSUME NEW p \in 0 .. k + 1
        PROVE  g[p] = IF p = 0 THEN HeaderSize ELSE g[p - 1] + PayloadHeaderSize + s.size[p]
    <3>1. CASE p = k + 1
      <4>1. p # 0 /\ p - 1 = k /\ k \in 0 .. k + 1 /\ k # k + 1
        BY <1>1, <1>3, <3>1, SMTT(30)
      <4>2. g[p] = x /\ g[p - 1] = f[k]
        BY <2>3, <3>1, <4>1
      <4>. QED  BY <2>2, <3>1, <4>1, <4>2
    <3>2. CASE p # k + 1
      <4>1. p \in 0 .. k /\ (p # 0 => p - 1 \in 0 .. k + 1 /\ p - 1 # k + 1)
        BY <1>1, <1>3, <3>2, SMTT(30)
      <4>2. g[p] = f[p] /\ (p # 0 => g[p - 1] = f[p - 1])
        BY <2>3, <3>2, <4>1
      <4>3. f[p] = IF p = 0 THEN HeaderSize ELSE f[p - 1] + PayloadHeaderSize + s.size[p]
        BY <2>1, <4>1 DEF SizesUpTo
      <4>. QED  BY <4>2, <4>3
    <3>. QED  BY <3>1, <3>2
  <2>5. SizesUpTo(s, g, k + 1)
    BY <2>3, <2>4 DEF SizesUpTo
  <2>. QED  BY <1>1, <1>3, <2>5
<1>4. n \in T
  <2> HIDE DEF T
  <2>1. \A k \in 0 .. n : k \in T
    BY <1>1, <1>2, <1>3, OneByOne
  <2>. QED  BY <1>1, <2>1
<1>5. \E f : SizesUpTo(s, f, n)
  BY <1>4
<1>. QED  BY <1>5 DEF n, UpToSize, SizesUpTo

\* Payloads of more protocols take more room.
LEMMA UpToSizeGrows ==
    ASSUME BPAssumption, NEW s \in Scenarios
    PROVE  /\ UpToSize(s)[0] = HeaderSize
           /\ \A p \in Protocol : UpToSize(s)[p] = UpToSize(s)[p - 1] + PayloadHeaderSize + s.size[p]
           /\ \A p \in 0 .. Cardinality(Protocol) : UpToSize(s)[p] \in Nat
           /\ \A p, q \in 0 .. Cardinality(Protocol) : q <= p => UpToSize(s)[q] <= UpToSize(s)[p]
<1> DEFINE n == Cardinality(Protocol)
           f == UpToSize(s)
           T == {p \in 0 .. n : f[p] \in Nat /\ \A q \in 0 .. p : f[q] \in Nat /\ f[q] <= f[p]}
<1>1. /\ n \in Nat /\ Protocol = 1 .. n /\ HeaderSize \in Nat /\ PayloadHeaderSize \in Nat
      /\ s.size \in [Protocol -> Nat]
  BY Constants, ScenarioTypes
<1>2. f = [p \in 0 .. n |-> IF p = 0 THEN HeaderSize ELSE f[p - 1] + PayloadHeaderSize + s.size[p]]
  BY UpToSizeExists DEF SizesUpTo
<1> HIDE DEF f, n
<1>3. f[0] = HeaderSize
  BY <1>1, <1>2
<1>4. \A p \in Protocol : f[p] = f[p - 1] + PayloadHeaderSize + s.size[p]
  BY <1>1, <1>2, SMTT(30)
<1>5. 0 \in T
  BY <1>1, <1>3
<1>6. ASSUME NEW p \in 0 .. n, p < n, p \in T
      PROVE  p + 1 \in T
  <2>1. p + 1 \in 1 .. n /\ (p + 1) - 1 = p /\ s.size[p + 1] \in Nat
    BY <1>1, <1>6, SMTT(30)
  <2>2. f[p + 1] = f[p] + PayloadHeaderSize + s.size[p + 1]
    BY <1>1, <1>4, <2>1
  <2>3. f[p] \in Nat /\ f[p + 1] \in Nat /\ f[p] <= f[p + 1]
    <3>1. PICK a \in Nat : a = f[p]
      BY <1>6
    <3>2. PICK b \in Nat : b = s.size[p + 1]
      BY <2>1
    <3>3. PICK c \in Nat : c = PayloadHeaderSize
      BY <1>1
    <3>4. f[p + 1] = a + c + b
      BY <2>2, <3>1, <3>2, <3>3
    <3>5. a + c + b \in Nat /\ a <= a + c + b
      OBVIOUS
    <3>. QED  BY <3>1, <3>4, <3>5
  <2>4. ASSUME NEW q \in 0 .. p + 1
        PROVE  f[q] \in Nat /\ f[q] <= f[p + 1]
    <3>1. CASE q = p + 1
      BY <2>3, <3>1
    <3>2. CASE q # p + 1
      <4>1. q \in 0 .. p
        BY <1>1, <1>6, <3>2
      <4>2. f[q] \in Nat /\ f[q] <= f[p]
        BY <1>6, <4>1
      <4>. QED  BY <2>3, <4>2, SMTT(30)
    <3>. QED  BY <3>1, <3>2
  <2>. QED  BY <1>1, <2>1, <2>3, <2>4
<1>7. \A p \in 0 .. n : p \in T
  <2> HIDE DEF T
  <2>. QED  BY <1>1, <1>5, <1>6, OneByOne
<1>8. ASSUME NEW p \in 0 .. n, NEW q \in 0 .. n, q <= p
      PROVE  f[p] \in Nat /\ f[q] <= f[p]
  <2>1. q \in 0 .. p
    BY <1>1, <1>8
  <2>. QED  BY <1>7, <2>1
<1>9. \A p \in 0 .. n : f[p] \in Nat
  BY <1>7
<1>. QED  BY <1>3, <1>4, <1>8, <1>9 DEF f, n

\* A payload of every protocol fits in.
LEMMA RoomForAll ==
    ASSUME BPAssumption, FlagsOK, SectionsOK, beacon \in Beacon, Clean(scenario), CleanBeacon,
           pc["transmitter"] = "visit", NEW v \in todo
    PROVE  /\ Room(v) /\ v \in Protocol
           /\ beacon.used + PayloadHeaderSize + scenario.size[v] <= UpToSize(scenario)[v]
<1> DEFINE n == Cardinality(Protocol)
           f == UpToSize(scenario)
           x == scenario.size[v]
           u == beacon.used
<1>1. v \in Protocol /\ Protocol = 1 .. n /\ n \in Nat /\ scenario \in Scenarios
  BY Constants DEF SectionsOK, FlagsOK
<1>2. beacon.used \in Nat /\ PayloadHeaderSize \in Nat /\ scenario.size[v] \in Nat
  BY <1>1, Constants, ScenarioTypes, SMTT(30) DEF Beacon
<1>3. MaxBeaconSize \in Nat /\ f[n] <= MaxBeaconSize
  BY Constants, CleanUse
<1>4. beacon.used <= f[v - 1]
  BY DEF CleanBeacon
<1>5. v \in 0 .. n /\ v - 1 \in 0 .. n /\ n \in 0 .. n /\ v <= n
  BY <1>1
<1>6. /\ f[v] = f[v - 1] + PayloadHeaderSize + scenario.size[v]
      /\ f[v - 1] \in Nat /\ f[v] \in Nat /\ f[n] \in Nat /\ f[v] <= f[n]
  BY <1>1, <1>5, UpToSizeGrows
<1> HIDE DEF f, n, x, u
<1>7. u + PayloadHeaderSize + x \in Nat /\ u + PayloadHeaderSize + x <= f[v]
  <2>1. PICK a \in Nat : a = f[v - 1]
    BY <1>6
  <2>2. PICK b \in Nat : b = x
    BY <1>2 DEF x
  <2>3. PICK c \in Nat : c = PayloadHeaderSize
    BY <1>2
  <2>4. PICK d \in Nat : d = u
    BY <1>2 DEF u
  <2>5. d <= a /\ f[v] = a + c + b
    BY <1>4, <1>6, <2>1, <2>2, <2>3, <2>4 DEF u, x
  <2>6. d + c + b \in Nat /\ d + c + b <= a + c + b
    BY <2>5, SMTT(30)
  <2>. QED  BY <2>2, <2>3, <2>4, <2>5, <2>6
<1>8. u + PayloadHeaderSize + x <= MaxBeaconSize
  BY <1>3, <1>6, <1>7
<1>. QED  BY <1>1, <1>7, <1>8 DEF Room, f, x, u

\* The transmitter finds what the flag promises, and room for it.
LEMMA CleanVisit ==
    ASSUME BPAssumption, FlagsOK, SectionsOK, QueuesOK, beacon \in Beacon, Clean(scenario),
           CleanFlags, CleanQueues, CleanBeacon, NEW v \in Protocol, attempt_add_payload(v)
    PROVE  /\ \/ txq' = txq
              \/ txq[v].items # <<>> /\ txq' = [txq EXCEPT ![v] = Taken(v)]
           /\ bp_exitFlag' \/ threw' # {} => shutdowns
           /\ pc'["transmitter"] = "visit" =>
                /\ todo' = todo \ {v}
                /\ beacon'.used \in {beacon.used, beacon.used + PayloadHeaderSize + scenario.size[v]}
<1>1. v \in todo /\ pc["transmitter"] = "visit"
  BY DEF attempt_add_payload
<1>2. Room(v) /\ ~ txq[v].locked
  BY <1>1, RoomForAll DEF CleanQueues
<1>3. bp_exitFlag \/ threw # {} => shutdowns
  BY DEF CleanFlags
<1>4. CASE ~ txq[v].has_data /\ GoOn(v, beacon) /\ UNCHANGED txq
  BY <1>1, <1>3, <1>4 DEF GoOn, TxUnlock, Goto, flagVars, SectionsOK, Thread
<1>5. CASE txq[v].has_data /\ txq[v].items = <<>> /\ TxThrow /\ UNCHANGED txq
  <2>1. shutdowns
    BY <1>5 DEF CleanQueues
  <2>. QED  BY <1>5, <2>1 DEF TxThrow, Goto, SectionsOK, Thread
<1>6. CASE /\ txq[v].items # <<>>
           /\ serialize_payload(v) /\ txq' = [txq EXCEPT ![v] = Taken(v)]
  <2>1. (bp_exitFlag' \/ threw' # {} => shutdowns)
    BY <1>3, <1>6 DEF serialize_payload, GoOn, flagVars
  <2>2. pc'["transmitter"] = "visit" =>
                /\ todo' = todo \ {v}
                /\ beacon'.used = beacon.used + PayloadHeaderSize + scenario.size[v]
    BY <1>6 DEF serialize_payload, GoOn, TxUnlock, Goto, SectionsOK, Thread
  <2>. QED  BY <1>6, <2>1, <2>2
<1>. QED  BY <1>2, <1>4, <1>5, <1>6 DEF attempt_add_payload

\* A client that has closed its end before the daemon has asked to shut down.
LEMMA CleanRequest ==
    ASSUME BPAssumption, FlagsOK, SocketOK, Clean(scenario), CleanFlags, CleanQueues, CleanSocket
    PROVE  /\ ~ ReadNothing /\ ~ HandlerThrows
           /\ HandleRequest => ClientListens
           /\ HasRequest => TheRequest.s_type \notin {"Deactivate", "ClearBuffer"}
<1>1. ASSUME pc["command"] = "read", SocketInUse, "client" \notin conns[data_socket].open
      PROVE  conns[data_socket].request.s_type = "ShutDown"
  <2>1. data_socket \in 1 .. Len(conns)
    BY <1>1 DEF SocketInUse, NoSocket, SocketOK
  <2>. QED  BY <1>1, <2>1 DEF CleanSocket, Polite
<1>2. ~ ReadNothing
  BY <1>1 DEF ReadNothing, HasEnd, HasRequest, NoRequest
<1>3. HandleRequest => ClientListens
  BY <1>1 DEF HandleRequest, HasRequest, TheRequest, ClientListens
<1>4. ~ HandlerThrows
  <2> SUFFICES ASSUME HandlerThrows
               PROVE  FALSE
    OBVIOUS
  <2> DEFINE p == TheRequest.protocolId
  <2>1. HasRequest /\ RegisterThrows(TheRequest)
    BY DEF HandlerThrows
  <2>2. TheRequest.s_type = "RegisterProtocol" /\ RegisterStatus(p) = "OK"
        /\ (p \in areas \/ scenario.entries[p] > MaxQueueLength)
    BY <2>1 DEF RegisterThrows
  <2>3. p \in Protocol
    BY <2>1, <2>2, RegistrationTypes
  <2>4. p \notin clientProtocols
    BY <2>2 DEF RegisterStatus
  <2>5. scenario.entries[p] \in 1 .. MaxQueueLength /\ MaxQueueLength \in Nat
    BY <2>3, CleanUse, Constants
  <2>. QED  BY <2>2, <2>4, <2>5, SMTT(30) DEF CleanFlags
<1>5. HasRequest => TheRequest.s_type \notin {"Deactivate", "ClearBuffer"}
  <2>1. HasRequest => TheRequest \in Asks(scenario, conns[data_socket].client)
    BY RequestTypes
  <2>. QED  BY <2>1, CleanUse DEF Asks
<1>. QED  BY <1>2, <1>3, <1>4, <1>5

\* Every payload has bytes to copy, and a wait ends with a reason.
LEMMA CleanDelivery ==
    ASSUME BPAssumption, FlagsOK, PacketOK, Clean(scenario), RxPayload \/ RxDelivered
    PROVE  UNCHANGED <<bp_exitFlag, threw>>
<1>1. parsed < Len(packet.payloads) /\ parsed \in Nat
  BY RxHandling DEF PacketOK
<1>2. packet \in scenario.packets /\ Len(packet.payloads) \in Nat
  <2>1. packet # NoPacket
    BY <1>1 DEF NoPacket
  <2>2. packet \in scenario.packets /\ scenario.packets \subseteq Packet
    BY <2>1, ScenarioTypes DEF PacketOK, FlagsOK
  <2>. QED  BY <2>2, LenProperties DEF Packet
<1>3. ~ CopyThrows
  <2>1. parsed + 1 \in 1 .. Len(packet.payloads)
    BY <1>1, <1>2
  <2>. QED  BY <1>2, <2>1, CleanUse DEF CopyThrows, CurrentPayload
<1>4. \A q : ~ Startled(q)
  BY CleanUse DEF Startled
<1>. QED  BY <1>3, <1>4, RxHandling DEF RxHandles, Deliver

LEMMA StepCleanFlags ==
    ASSUME BPAssumption, FlagsOK, SectionsOK, PacketOK, QueuesOK, SocketOK, beacon \in Beacon,
           Clean(scenario), CleanFlags, CleanQueues, CleanBeacon, CleanSocket, Next
    PROVE  CleanFlags'
<1> USE DEF CleanFlags
<1> DEFINE Kept == UNCHANGED <<killed, restarts, bp_isActive, areas, clientProtocols, threw, shutdowns>>
<1>0. ASSUME Kept, bp_exitFlag' = bp_exitFlag \/ shutdowns
      PROVE  CleanFlags'
  BY <1>0
<1>1. CASE Loops \/ SocketSteps \/ QueueSteps
  <2>1. Kept /\ bp_exitFlag' = bp_exitFlag
    BY <1>1, LoopFrame, ClientFrame DEF LoopKeeps, DaemonKeeps, threadVars, flagVars, runVars
  <2>. QED  BY <1>0, <2>1
<1>2. CASE TxSteps
  <2>1. UNCHANGED <<killed, restarts, bp_isActive, areas, clientProtocols, shutdowns>>
    BY <1>2, TxFrame DEF TxKeeps, runVars
  <2>2. TxLock \/ generate_beacon => UNCHANGED <<bp_exitFlag, threw>>
    BY DEF TxLock, generate_beacon, flagVars
  <2>3. bp_exitFlag' \/ threw' # {} => shutdowns
    BY <1>2, <2>2, CleanVisit DEF TxSteps
  <2>. QED  BY <2>1, <2>3
<1>3. CASE RxSteps
  <2>1. UNCHANGED <<killed, restarts, bp_isActive, areas, clientProtocols, shutdowns>>
    BY <1>3, RxFrame DEF RxKeeps, runVars
  <2>2. UNCHANGED <<bp_exitFlag, threw>>
    <3>1. CASE RxPacket
      <4>1. /\ threw' = threw
            /\ \/ bp_exitFlag' = bp_exitFlag
               \/ \E f \in scenario.packets : f.length > f.data
        BY <3>1 DEF RxPacket
      <4>2. ASSUME NEW f \in scenario.packets
            PROVE  f.length <= f.data /\ f.length \in Nat /\ f.data \in Nat
        <5>1. f \in Packet
          BY ScenarioTypes DEF FlagsOK
        <5>. QED  BY <5>1, CleanUse DEF Packet
      <4>. QED  BY <4>1, <4>2
    <3>2. CASE RxPayload \/ RxDelivered
      BY <3>2, CleanDelivery
    <3>3. CASE RxDone
      BY <3>3 DEF RxDone
    <3>. QED  BY <1>3, <3>1, <3>2, <3>3 DEF RxSteps
  <2>. QED  BY <2>1, <2>2
<1>4. CASE PayloadSteps
  BY <1>4, PayloadFrame DEF PayloadKeeps, flagVars, runVars
<1>5. CASE CommandSteps
  <2>1. UNCHANGED <<threw, restarts>>
    BY <1>5, CommandFrame DEF CommandKeeps, runVars
  <2>2. CASE CommandLoop
    <3>1. pc["command"] = "loop"
      BY <2>2 DEF CommandLoop
    <3>2. SocketInUse => shutdowns
      BY <3>1 DEF CleanSocket, SocketInUse
    <3>3. Kept /\ (bp_exitFlag' = bp_exitFlag \/ SocketInUse)
      BY <2>1, <2>2 DEF CommandLoop, flagVars
    <3>. QED  BY <1>0, <3>2, <3>3
  <2>3. CASE ShutDown
    BY <2>1, <2>3 DEF ShutDown
  <2>4. CASE HandlerBlocks \/ CommandStop
    <3>1. Kept /\ bp_exitFlag' = bp_exitFlag
      BY <2>1, <2>4 DEF HandlerBlocks, CommandStop, flagVars
    <3>. QED  BY <1>0, <3>1
  <2>5. CASE HandleRequest
    <3>1. /\ HasRequest /\ Effect(TheRequest) /\ killed' = killed
          /\ UNCHANGED <<bp_exitFlag, shutdowns>>
      BY <2>5, CleanRequest DEF HandleRequest
    <3>2. TheRequest.s_type # "Deactivate"
      BY <3>1, CleanRequest
    <3>3. bp_isActive' /\ areas' = clientProtocols'
      BY <3>1, <3>2 DEF Effect, RegisterProtocol, DeregisterProtocol, ClearBuffer, SetActive
    <3>. QED  BY <2>1, <3>1, <3>3
  <2>. QED  BY <1>5, <2>2, <2>3, <2>4, <2>5, CleanRequest DEF CommandSteps
<1>6. ~ Restart
  BY CleanUse DEF Restart
<1>. QED  BY <1>1, <1>2, <1>3, <1>4, <1>5, <1>6, NextSteps

LEMMA ShutdownsStay ==
    ASSUME Next
    PROVE  shutdowns' = shutdowns \/ (ShutDown /\ shutdowns')
<1>1. CASE Loops \/ SocketSteps \/ QueueSteps
  BY <1>1, LoopFrame, ClientFrame DEF LoopKeeps, DaemonKeeps
<1>2. CASE TxSteps \/ RxSteps \/ PayloadSteps
  BY <1>2, TxFrame, RxFrame, PayloadFrame DEF TxKeeps, RxKeeps, PayloadKeeps
<1>3. CASE CommandSteps \/ Restart
  BY <1>3 DEF CommandSteps, CommandLoop, ReadNothing, ShutDown, HandleRequest, HandlerThrows,
              HandlerBlocks, CommandStop, Restart
<1>. QED  BY <1>1, <1>2, <1>3, NextSteps

\* The flag of the queue q does not promise too much.
Promises(q) == ~ q.locked /\ (~ shutdowns => (q.has_data => q.items # <<>>))

LEMMA CleanPush ==
    ASSUME NEW q \in Queue, ~ q.locked, NEW x \in Item, NEW n \in Nat \ {0}
    PROVE  /\ Promises(Push(q, x)) /\ Promises(PushForce(q, x, n))
           /\ ~ Push(q, x).locked /\ ~ PushForce(q, x, n).locked
<1>1. q.items \in Seq(Item)
  BY QueueType
<1>2. Push(q, x).items # <<>> /\ ~ Push(q, x).locked
  <2>1. PICK s \in Seq(Item) : s = q.items
    BY <1>1
  <2>2. Len(Append(s, x)) = Len(s) + 1 /\ Len(s) \in Nat
    BY AppendProperties
  <2>3. Append(s, x) # <<>>
    BY <2>2, EmptySeq
  <2>4. Push(q, x).items = Append(s, x) /\ Push(q, x).locked = q.locked
    BY <2>1, PushQueue
  <2>. QED  BY <2>3, <2>4
<1>3. PushForce(q, x, n).items # <<>> /\ ~ PushForce(q, x, n).locked
  <2>1. PICK s \in Seq(Item) : PushForce(q, x, n).items = Append(s, x)
    <3>1. Len(q.items) = n => Tail(q.items) \in Seq(Item)
      <4>1. Len(q.items) = n => q.items # <<>>
        BY <1>1
      <4>. QED  BY <1>1, <4>1, HeadTailProperties
    <3>. QED  BY <1>1, <3>1, PushForceQueue
  <2>2. Len(Append(s, x)) = Len(s) + 1 /\ Len(s) \in Nat
    BY <2>1, AppendProperties
  <2>3. Append(s, x) # <<>>
    BY <2>2, EmptySeq
  <2>. QED  BY <2>1, <2>3, PushForceQueue
<1>. QED  BY <1>2, <1>3 DEF Promises

\* A client of a cleanly used daemon hands over a payload, or waits to.
LEMMA CleanUses ==
    ASSUME BPAssumption, FlagsOK, PacketOK, AppsOK, QueuesOK, Clean(scenario), CleanQueues,
           NEW v \in Protocol, TransmitPayload(v) \/ push_wait(v), NEW p \in Protocol
    PROVE  Promises(txq'[p])
<1>1. /\ \A o \in Protocol : txq[o] \in Queue /\ Promises(txq[o])
      /\ QueueUses(v) /\ submitted \in [Protocol -> Nat]
  BY UseSteps DEF QueuesOK, AppsOK, CleanQueues, Promises
<1>2. scenario.mode[v] \notin {"ONCE", "REPEAT"} /\ scenario.entries[v] \in Nat \ {0}
  <2>1. scenario.entries[v] \in 1 .. MaxQueueLength /\ MaxQueueLength \in Nat
    BY CleanUse, Constants
  <2>2. scenario.mode[v] \in {"QUEUE_DROPTAIL", "QUEUE_DROPHEAD"}
    BY CleanUse
  <2>. QED  BY <2>1, <2>2, SMTT(30)
<1>3. CASE txq' = txq
  BY <1>1, <1>3
<1>4. CASE \/ txq' = [txq EXCEPT ![v] = Waiting(txq[v])]
           \/ txq' = [txq EXCEPT ![v] = TimedOut(txq[v])]
  <2>1. Promises(Waiting(txq[v])) /\ Promises(TimedOut(txq[v]))
    BY <1>1, WaitingQueue, SMTT(30) DEF Promises
  <2>. QED  BY <1>1, <1>4, <2>1 DEF QueuesOK
<1>5. CASE /\ \/ txq' = [txq EXCEPT ![v] = Push(txq[v], submitted[v] + 1)]
              \/ txq' = [txq EXCEPT ![v] = PushForce(txq[v], submitted[v] + 1, scenario.entries[v])]
           /\ submitted' = [submitted EXCEPT ![v] = submitted[v] + 1]
  <2>1. submitted[v] + 1 \in Item
    <3>1. submitted[v] \in Nat /\ submitted'[v] = submitted[v] + 1
      BY <1>1, <1>5
    <3>2. submitted' # submitted
      BY <3>1
    <3>3. submitted[v] < scenario.payloads
      BY <3>2, UseSteps DEF AppsOK
    <3>. QED  BY <3>3, Numbers
  <2>2. /\ Promises(Push(txq[v], submitted[v] + 1))
        /\ Promises(PushForce(txq[v], submitted[v] + 1, scenario.entries[v]))
    BY <1>1, <1>2, <2>1, CleanPush DEF Promises
  <2>. QED  BY <1>1, <1>5, <2>2 DEF QueuesOK
<1>. QED  BY <1>1, <1>2, <1>3, <1>4, <1>5 DEF QueueUses

LEMMA CleanSending ==
    ASSUME BPAssumption, FlagsOK, SectionsOK, PacketOK, AppsOK, QueuesOK, SocketOK, beacon \in Beacon,
           Clean(scenario), CleanFlags, CleanQueues, CleanBeacon, CleanSocket, Next,
           NEW p \in Protocol
    PROVE  Promises(txq'[p])
<1>1. \A o \in Protocol : txq[o] \in Queue /\ Promises(txq[o])
  BY DEF QueuesOK, CleanQueues, Promises
<1>2. CASE Loops \/ RxSteps \/ TxLock \/ generate_beacon
  BY <1>1, <1>2, QueuesKept DEF queueVars, TxSteps
<1>3. ASSUME NEW v \in Protocol, attempt_add_payload(v)
      PROVE  Promises(txq'[p])
  <2>1. CASE txq' = txq
    BY <1>1, <2>1
  <2>2. CASE txq[v].items # <<>> /\ txq' = [txq EXCEPT ![v] = Taken(v)]
    <3>1. scenario.mode[v] # "REPEAT"
      BY CleanUse
    <3>2. Promises(Taken(v))
      BY <1>1, <2>2, <3>1, TakenQueue DEF Promises
    <3>. QED  BY <1>1, <2>2, <3>2 DEF QueuesOK
  <2>. QED  BY <1>3, <2>1, <2>2, CleanVisit
<1>4. CASE PayloadSteps
  <2>1. CASE txq' = txq
    BY <1>1, <2>1
  <2>2. CASE Discards /\ \E ps \in SUBSET Protocol : ResetAll(ps)
    <3>1. shutdowns
      BY <2>2 DEF Discards, CleanFlags
    <3>2. ~ Reset(txq[p]).locked /\ ~ txq[p].locked
      BY <1>1, ResetQueue DEF Promises
    <3>3. txq'[p] \in {Reset(txq[p]), txq[p]}
      BY <2>2 DEF ResetAll
    <3>. QED  BY <3>1, <3>2, <3>3 DEF Promises
  <2>. QED  BY <1>4, <2>1, <2>2, PayloadResets
<1>5. CASE CommandSteps
  <2>1. txq'[p] \in {txq[p], EmptyQueue}
    BY <1>5, CommandRequests, CleanRequest DEF Requests, queueVars, QueuesOK
  <2>. QED  BY <1>1, <2>1, QueueType DEF Promises
<1>6. CASE SocketSteps
  <2>1. \A o \in Protocol : Promises(TimedOut(txq[o]))
    BY <1>1, WaitingQueue DEF Promises
  <2>2. txq'[p] \in {txq[p], TimedOut(txq[p])}
    BY <1>6, SocketFrame DEF QueuesOK
  <2>. QED  BY <1>1, <2>1, <2>2
<1>7. ASSUME NEW v \in Protocol, TransmitPayload(v) \/ push_wait(v)
      PROVE  Promises(txq'[p])
  BY <1>7, CleanUses
<1>8. ASSUME NEW v \in Protocol, ReceivePayload(v)
      PROVE  Promises(txq'[p])
  BY <1>1, <1>8 DEF ReceivePayload
<1>9. ASSUME NEW v \in Protocol
      PROVE  ~ DieInQueue(v)
  BY CleanUse DEF DieInQueue
<1>10. ~ Restart
  BY CleanUse DEF Restart
<1>. QED  BY <1>2, <1>3, <1>4, <1>5, <1>6, <1>7, <1>8, <1>9, <1>10, NextSteps DEF TxSteps, QueueSteps

LEMMA CleanReceiving ==
    ASSUME BPAssumption, FlagsOK, SectionsOK, PacketOK, AppsOK, QueuesOK, SocketOK,
           Clean(scenario), CleanFlags, CleanQueues, Next, NEW p \in Protocol
    PROVE  ~ ind'[p].locked
<1>1. \A o \in Protocol : ind[o] \in Queue /\ ~ ind[o].locked
  BY DEF QueuesOK, CleanQueues
<1>2. CASE Loops \/ TxSteps \/ PayloadSteps
  BY <1>1, <1>2, QueuesKept DEF queueVars
<1>3. CASE RxSteps
  <2>1. received \in Item
    BY Numbers
  <2>2. ~ Push(ind[p], received).locked
    BY <1>1, <2>1, PushQueue
  <2>3. ~ Waiting(ind[p]).locked /\ ~ TimedOut(ind[p]).locked
    BY <1>1, WaitingQueue
  <2>. QED  BY <1>1, <1>3, <2>2, <2>3, RxDeliveries DEF Deliveries, QueuesOK
<1>4. CASE CommandSteps
  <2>1. ind'[p] \in {ind[p], EmptyQueue}
    BY <1>4, CommandRequests DEF Requests, queueVars, QueuesOK
  <2>. QED  BY <1>1, <2>1, QueueType
<1>5. CASE SocketSteps
  BY <1>1, <1>5, SocketFrame
<1>6. ASSUME NEW v \in Protocol, TransmitPayload(v) \/ push_wait(v)
      PROVE  ~ ind'[p].locked
  BY <1>1, <1>6, UseSteps
<1>7. ASSUME NEW v \in Protocol, ReceivePayload(v)
      PROVE  ~ ind'[p].locked
  <2>1. ind[v].items # <<>> /\ ind' = [ind EXCEPT ![v] = Pop(ind[v])]
    BY <1>7 DEF ReceivePayload
  <2>2. ~ Pop(ind[v]).locked
    BY <1>1, <2>1, PopQueue
  <2>. QED  BY <1>1, <2>1, <2>2 DEF QueuesOK
<1>8. ASSUME NEW v \in Protocol
      PROVE  ~ DieInQueue(v)
  BY CleanUse DEF DieInQueue
<1>9. ~ Restart
  BY CleanUse DEF Restart
<1>. QED  BY <1>2, <1>3, <1>4, <1>5, <1>6, <1>7, <1>8, <1>9, NextSteps DEF QueueSteps

LEMMA StepCleanQueues ==
    ASSUME BPAssumption, FlagsOK, SectionsOK, PacketOK, AppsOK, QueuesOK, SocketOK, beacon \in Beacon,
           Clean(scenario), CleanFlags, CleanQueues, CleanBeacon, CleanSocket, Next
    PROVE  CleanQueues'
<1>1. ~ shutdowns' => ~ shutdowns
  BY ShutdownsStay DEF FlagsOK
<1>2. \A p \in Protocol : Promises(txq'[p]) /\ ~ ind'[p].locked
  BY CleanSending, CleanReceiving
<1>. QED  BY <1>1, <1>2 DEF CleanQueues, Promises

\* A visit leaves room for those after it.
LEMMA StepCleanBeacon ==
    ASSUME BPAssumption, FlagsOK, SectionsOK, QueuesOK, SocketOK, beacon \in Beacon,
           Clean(scenario), CleanFlags, CleanQueues, CleanBeacon, Next
    PROVE  CleanBeacon'
<1> DEFINE n == Cardinality(Protocol)
           f == UpToSize(scenario)
<1>1. scenario' = scenario /\ scenario \in Scenarios
  BY ScenarioKept DEF FlagsOK
<1>2. Protocol = 1 .. n /\ n \in Nat
  BY Constants
<1>3. /\ f[0] = HeaderSize /\ \A p \in 0 .. n : f[p] \in Nat
      /\ \A p, q \in 0 .. n : q <= p => f[q] <= f[p]
  BY <1>1, UpToSizeGrows
<1>4. CASE TxLock
  <2>1. todo' \subseteq Protocol
    BY <1>4 DEF TxLock, Visited, SectionsOK
  <2>2. pc'["transmitter"] = "visit" => beacon'.used = HeaderSize
    BY <1>4 DEF TxLock, Goto, SectionsOK, Thread
  <2>3. \A p \in Protocol : f[0] <= f[p - 1]
    <3>1. \A p \in Protocol : p - 1 \in 0 .. n /\ 0 \in 0 .. n /\ 0 <= p - 1
      BY <1>2
    <3> HIDE DEF f, n
    <3>. QED  BY <1>3, <3>1
  <2> HIDE DEF f
  <2>. QED  BY <1>1, <1>3, <2>1, <2>2, <2>3 DEF CleanBeacon, f
<1>5. ASSUME NEW v \in Protocol, attempt_add_payload(v)
      PROVE  CleanBeacon'
  <2>1. v \in todo /\ pc["transmitter"] = "visit" /\ \A o \in todo : v <= o
    BY <1>5 DEF attempt_add_payload
  <2> SUFFICES ASSUME pc'["transmitter"] = "visit", NEW p \in todo'
               PROVE  beacon'.used <= f[p - 1]
    BY <1>1 DEF CleanBeacon
  <2>2. p \in todo /\ p # v /\
        beacon'.used \in {beacon.used, beacon.used + PayloadHeaderSize + scenario.size[v]}
    BY <1>5, CleanVisit
  <2>3. beacon.used <= f[p - 1]
    BY <2>1, <2>2 DEF CleanBeacon
  <2>4. p \in Protocol /\ v <= p
    BY <2>1, <2>2 DEF SectionsOK
  <2>5. v \in 0 .. n /\ p - 1 \in 0 .. n /\ v <= p - 1
    BY <1>2, <2>2, <2>4
  <2>6. f[v] <= f[p - 1] /\ f[v] \in Nat /\ f[p - 1] \in Nat
    BY <1>3, <2>5
  <2>7. PICK x : x = beacon.used + PayloadHeaderSize + scenario.size[v]
    OBVIOUS
  <2>8. x <= f[v] /\ x \in Nat
    <3>1. x <= f[v]
      BY <2>1, <2>7, RoomForAll
    <3>2. beacon.used \in Nat
      BY <1>1 DEF Beacon
    <3>3. PayloadHeaderSize \in Nat
      BY Constants
    <3>4. scenario.size[v] \in Nat
      <4>1. scenario.size \in [Protocol -> Nat]
        BY <1>1, ScenarioTypes, Zenon
      <4>2. v \in Protocol
        BY <2>1, <2>2 DEF SectionsOK
      <4>. QED  BY <4>1, <4>2
    <3>. QED  BY <2>7, <3>1, <3>2, <3>3, <3>4, SMTT(30)
  <2> HIDE DEF f
  <2>. QED  BY <2>2, <2>3, <2>6, <2>7, <2>8
<1>6. CASE generate_beacon
  BY <1>6 DEF generate_beacon, TxUnlock, Goto, SectionsOK, Thread, CleanBeacon
<1>7. CASE Loops \/ RxSteps \/ PayloadSteps \/ CommandSteps \/ SocketSteps \/ QueueSteps
  <2>1. UNCHANGED <<beacon, todo, scenario>>
    BY <1>1, <1>7, BeaconKept
  <2>2. pc'["transmitter"] = "visit" => pc["transmitter"] = "visit"
    <3>1. CASE Loops
      BY <3>1, LoopFrame DEF SectionsOK, Thread
    <3>2. CASE RxSteps
      BY <3>2, RxPlaces DEF RxGoes, SectionsOK, Thread
    <3>3. CASE PayloadSteps
      BY <3>3 DEF PayloadSteps, handle_payload_from_client, PayloadBlocks, Goto, SectionsOK, Thread
    <3>4. CASE CommandSteps
      BY <3>4, CommandPlaces DEF SectionsOK, Thread
    <3>5. CASE SocketSteps \/ QueueSteps
      BY <3>5, ClientFrame DEF DaemonKeeps, threadVars
    <3>. QED  BY <1>7, <3>1, <3>2, <3>3, <3>4, <3>5
  <2>. QED  BY <2>1, <2>2 DEF CleanBeacon
<1>8. ~ Restart
  BY CleanUse DEF Restart
<1>. QED  BY <1>4, <1>5, <1>6, <1>7, <1>8, NextSteps DEF TxSteps

\* The ends of the daemon.
OwnersOpen ==
    \A n \in 1 .. Len(conns) : n = data_socket \/ n > accepted => "owner" \in conns[n].open

\* One connection changes, but for its ends; or there is a new one.
LEMMA CleanTalk ==
    ASSUME BPAssumption, FlagsOK, SocketOK, CleanSocket, pc' = pc, shutdowns' = shutdowns,
           NEW c \in Client, SendRequest(c) \/ Connect(c)
    PROVE  CleanSocket'
<1>1. Len(conns) \in Nat
  BY LenProperties DEF SocketOK
<1>2. CASE SendRequest(c)
  <2> DEFINE k == Connection(c)
  <2>1. UNCHANGED <<the_command_socket, data_socket, accepted>> /\ Connected(c) # {}
    BY <1>2, AskStep
  <2>2. PICK new : OneConn(k, new) /\ Asked(c, new)
    BY <1>2, AskStep
  <2>3. k \in 1 .. Len(conns) /\ "client" \in conns[k].open
    BY <2>1, ConnectionOf
  <2>4. new.open = conns[k].open /\ Polite(new)
    BY <2>2, <2>3 DEF Asked, Polite
  <2> HIDE DEF k
  <2>5. \A n \in 1 .. Len(conns) : conns'[n].open = conns[n].open
    BY <2>2, <2>4 DEF OneConn
  <2>6. \A n \in 1 .. Len(conns) : Polite(conns'[n])
    BY <2>2, <2>4 DEF OneConn, CleanSocket
  <2>7. Len(conns') = Len(conns)
    BY <2>2 DEF OneConn
  <2>. QED  BY <2>1, <2>5, <2>6, <2>7 DEF CleanSocket
<1>3. CASE Connect(c)
  <2>1. Opened(c)
    BY <1>3, OpenStep DEF Connect
  <2>2. ASSUME NEW n \in 1 .. Len(conns')
        PROVE  /\ Polite(conns'[n])
               /\ n = Len(conns) + 1 => "owner" \in conns'[n].open
               /\ n # Len(conns) + 1 => n \in 1 .. Len(conns) /\ conns'[n] = conns[n]
    <3>1. CASE n = Len(conns) + 1
      BY <2>1, <3>1 DEF Opened, Polite
    <3>2. CASE n # Len(conns) + 1
      <4>1. n \in 1 .. Len(conns) /\ conns'[n] = conns[n]
        BY <1>1, <2>1, <3>2 DEF Opened
      <4>. QED  BY <3>2, <4>1 DEF CleanSocket
    <3>. QED  BY <3>1, <3>2
  <2>3. UNCHANGED <<data_socket, accepted>>
    BY <2>1 DEF Opened
  <2>. QED  BY <2>2, <2>3 DEF CleanSocket
<1>. QED  BY <1>2, <1>3

\* A client closes a connection the daemon has closed, or asks to shut down.
LEMMA CleanClosing ==
    ASSUME BPAssumption, FlagsOK, SocketOK, CleanSocket, pc' = pc, shutdowns' = shutdowns,
           NEW c \in Client, CloseClient(c),
           \/ "owner" \notin conns[Connection(c)].open
           \/ conns[Connection(c)].request.s_type = "ShutDown"
    PROVE  CleanSocket'
<1> DEFINE k == Connection(c)
<1>1. /\ AllFade /\ UNCHANGED <<the_command_socket, data_socket, accepted>>
      /\ conns'[k].open = conns[k].open \ {"client"}
      /\ \A n \in 1 .. Len(conns) : n # k => conns'[n] = conns[n]
  BY ClientCloses
<1>2. k \in 1 .. Len(conns)
  BY ConnectionOf DEF CloseClient
<1>3. Fades(conns[k], conns'[k]) /\ Len(conns') = Len(conns)
  BY <1>1, <1>2 DEF AllFade
<1>4. Polite(conns'[k])
  <2>1. CASE "owner" \notin conns[k].open
    BY <1>1, <2>1 DEF Polite
  <2>2. CASE conns[k].request.s_type = "ShutDown"
    <3>1. CASE conns'[k].open = {}
      BY <3>1 DEF Polite
    <3>2. CASE conns'[k].request = conns[k].request
      BY <2>2, <3>2 DEF Polite
    <3>. QED  BY <1>3, <3>1, <3>2 DEF Fades
  <2>. QED  BY <2>1, <2>2
<1> HIDE DEF k
<1>5. \A n \in 1 .. Len(conns) : "owner" \in conns[n].open => "owner" \in conns'[n].open
  BY <1>1
<1>6. \A n \in 1 .. Len(conns) : Polite(conns'[n])
  BY <1>1, <1>4 DEF CleanSocket
<1>. QED  BY <1>1, <1>3, <1>5, <1>6 DEF CleanSocket

\* A round of the command thread.
LEMMA CleanCommand ==
    ASSUME BPAssumption, FlagsOK, SectionsOK, SocketOK, Clean(scenario), CleanFlags, CleanQueues,
           CleanSocket, CommandSteps
    PROVE  CleanSocket'
<1>1. /\ Len(conns) \in Nat /\ accepted \in 0 .. Len(conns) /\ data_socket \in 0 .. accepted
      /\ pc \in [Thread -> Places] /\ "command" \in Thread
  BY LenProperties DEF SocketOK, SectionsOK, Thread
<1>2. /\ pc["command"] # "ended" => OwnersOpen
      /\ \A n \in 1 .. Len(conns) : Polite(conns[n])
  BY DEF CleanSocket, OwnersOpen
<1>3. CASE CommandLoop
  <2>1. pc["command"] = "loop"
    BY <1>3 DEF CommandLoop
  <2>2. CASE Goto("command", "ended") /\ close_owner
    <3>1. pc'["command"] = "ended"
      BY <1>1, <2>2 DEF Goto
    <3>2. AllFade
      BY <2>2, ListenerCloses
    <3>3. ASSUME NEW n \in 1 .. Len(conns)
          PROVE  Polite(conns'[n])
      <4>1. CASE n <= accepted
        BY <1>2, <2>2, <4>1, ListenerCloses
      <4>2. CASE ~ n <= accepted
        <5>1. n > accepted
          BY <1>1, <4>2
        <5>2. conns'[n] = CloseEnd(conns[n], "owner")
          BY <2>2, <5>1 DEF close_owner
        <5>3. conns[n] \in Conn
          BY ElementOfSeq DEF SocketOK
        <5>4. conns'[n].open = conns[n].open \ {"owner"}
          BY <5>2, <5>3, CloseEndFades
        <5>. QED  BY <5>4 DEF Polite
      <4>. QED  BY <4>1, <4>2
    <3>. QED  BY <3>1, <3>2, <3>3 DEF CleanSocket, AllFade
  <2>3. CASE SocketInUse /\ UNCHANGED <<pc, socketVars>>
    <3>1. shutdowns' = shutdowns
      BY <1>3 DEF CommandLoop
    <3>. QED  BY <2>3, <3>1 DEF CleanSocket, socketVars
  <2>4. CASE Goto("command", "read") /\ accept
    <3>1. pc'["command"] = "read"
      BY <1>1, <2>4 DEF Goto
    <3>2. conns' = conns /\ data_socket' = accepted + 1 /\ accepted' = accepted + 1
      BY <2>4 DEF accept
    <3>3. OwnersOpen
      BY <1>2, <2>1
    <3>4. ASSUME NEW n \in 1 .. Len(conns), n = data_socket' \/ n > accepted'
          PROVE  "owner" \in conns[n].open
      <4>1. n > accepted
        BY <1>1, <3>2, <3>4
      <4>. QED  BY <3>3, <4>1 DEF OwnersOpen
    <3>. QED  BY <1>2, <3>1, <3>2, <3>4 DEF CleanSocket
  <2>. QED  BY <1>3, <2>2, <2>3, <2>4 DEF CommandLoop
<1>4. CASE ShutDown \/ HandlerBlocks
  <2>1. pc["command"] = "read" /\ pc'["command"] \in {"stop", "blocked"}
    BY <1>1, <1>4 DEF ShutDown, HandlerBlocks, Goto
  <2>2. UNCHANGED <<data_socket, accepted, conns>>
    BY <1>4, SocketKept
  <2>. QED  BY <1>2, <2>1, <2>2 DEF CleanSocket, OwnersOpen
<1>5. CASE HandleRequest
  <2>1. ClientListens
    BY <1>5, CleanRequest
  <2>2. /\ HasRequest /\ pc["command"] = "read" /\ pc'["command"] = "stop"
        /\ send_confirmation([s_type |-> TheRequest.s_type, status |-> Status(TheRequest)])
    BY <1>1, <1>5, <2>1 DEF HandleRequest, Goto
  <2>3. PICK new : OneConn(data_socket, new) /\ Answered(new)
    BY <2>2, AnswerStep
  <2>4. UNCHANGED <<data_socket, accepted>> /\ data_socket \in 1 .. Len(conns)
    BY <2>2, AnswerStep, RequestTypes
  <2>5. new.open = conns[data_socket].open /\ Polite(new)
    BY <1>2, <2>3, <2>4 DEF Answered, TheRequest, Polite
  <2>6. \A n \in 1 .. Len(conns) : conns'[n].open = conns[n].open /\ Polite(conns'[n])
    BY <1>2, <2>3, <2>5 DEF OneConn
  <2>7. Len(conns') = Len(conns)
    BY <2>3 DEF OneConn
  <2>. QED  BY <1>2, <2>2, <2>4, <2>6, <2>7 DEF CleanSocket, OwnersOpen
<1>6. CASE CommandStop
  <2>1. pc["command"] = "stop" /\ pc'["command"] = "loop" /\ stop_read_command
    BY <1>1, <1>6 DEF CommandStop, Goto
  <2>2. data_socket' = NoSocket /\ accepted' = accepted /\ OwnersOpen
    BY <1>2, <2>1 DEF stop_read_command
  <2>3. CASE data_socket # NoSocket
    <3>1. /\ AllFade /\ \A n \in 1 .. Len(conns) : n # data_socket => conns'[n] = conns[n]
          /\ conns'[data_socket].open = conns[data_socket].open \ {"owner"}
      BY <2>1, <2>3, OwnerCloses
    <3>2. Polite(conns'[data_socket])
      BY <3>1 DEF Polite
    <3>3. \A n \in 1 .. Len(conns) : Polite(conns'[n])
      BY <1>2, <3>1, <3>2
    <3>4. ASSUME NEW n \in 1 .. Len(conns), n = data_socket' \/ n > accepted'
          PROVE  "owner" \in conns'[n].open
      <4>1. n # data_socket /\ n > accepted
        BY <1>1, <2>2, <3>4 DEF NoSocket
      <4>. QED  BY <2>2, <3>1, <4>1 DEF OwnersOpen
    <3>5. Len(conns') = Len(conns)
      BY <3>1 DEF AllFade
    <3>. QED  BY <2>1, <2>2, <3>3, <3>4, <3>5 DEF CleanSocket
  <2>4. CASE data_socket = NoSocket
    <3>1. conns \in [1 .. Len(conns) -> Conn]
      BY ElementOfSeq DEF SocketOK
    <3>2. conns' = conns
      BY <2>1, <2>4, <3>1 DEF stop_read_command, NoSocket
    <3>. QED  BY <1>2, <2>1, <2>2, <2>4, <3>2 DEF CleanSocket, OwnersOpen
  <2>. QED  BY <2>3, <2>4
<1>. QED  BY <1>3, <1>4, <1>5, <1>6, CleanRequest DEF CommandSteps

LEMMA StepCleanSocket ==
    ASSUME BPAssumption, FlagsOK, SectionsOK, SocketOK, Clean(scenario), CleanFlags, CleanQueues,
           CleanSocket, Next
    PROVE  CleanSocket'
<1>1. CASE Loops \/ TxSteps \/ RxSteps \/ PayloadSteps
  <2>1. UNCHANGED <<data_socket, accepted, conns>>
    BY <1>1, SocketKept
  <2>2. shutdowns' = shutdowns
    BY <1>1, LoopFrame, TxFrame, RxFrame, PayloadFrame DEF LoopKeeps, TxKeeps, RxKeeps, PayloadKeeps
  <2>3. pc'["command"] = pc["command"]
    <3>1. CASE Loops
      BY <3>1, LoopFrame DEF SectionsOK, Thread
    <3>2. CASE TxSteps
      BY <3>2 DEF TxSteps, TxLock, attempt_add_payload, GoOn, TxTimeout, TxThrow, serialize_payload,
                  TxUnlock, generate_beacon, Goto, SectionsOK, Thread
    <3>3. CASE RxSteps
      BY <3>3, RxPlaces DEF RxGoes, SectionsOK, Thread
    <3>4. CASE PayloadSteps
      BY <3>4 DEF PayloadSteps, handle_payload_from_client, PayloadBlocks, Goto, SectionsOK, Thread
    <3>. QED  BY <1>1, <3>1, <3>2, <3>3, <3>4
  <2>. QED  BY <2>1, <2>2, <2>3 DEF CleanSocket
<1>2. CASE CommandSteps
  BY <1>2, CleanCommand
<1>3. CASE SocketSteps
  <2>1. pc' = pc /\ shutdowns' = shutdowns
    BY <1>3, ClientFrame DEF DaemonKeeps, threadVars
  <2>2. ASSUME NEW c \in Client, Connect(c) \/ SendRequest(c)
        PROVE  CleanSocket'
    BY <2>1, <2>2, CleanTalk
  <2>3. ASSUME NEW c \in Client, ReadResponse(c)
        PROVE  CleanSocket'
    <3>1. CloseClient(c) /\ "owner" \notin conns[Connection(c)].open
      BY <2>3 DEF ReadResponse, ResponseRead
    <3>. QED  BY <2>1, <3>1, CleanClosing
  <2>4. ASSUME NEW c \in Client
        PROVE  ~ GiveUp(c)
    BY CleanUse DEF GiveUp
  <2>5. CASE LeaveAfterShutDown
    <3>1. /\ CloseClient(Operator) /\ Operator \in Client
          /\ conns[Connection(Operator)].request.s_type = "ShutDown"
      BY <2>5, Constants DEF LeaveAfterShutDown
    <3>. QED  BY <2>1, <3>1, CleanClosing
  <2>. QED  BY <1>3, <2>2, <2>3, <2>4, <2>5 DEF SocketSteps
<1>4. CASE QueueSteps
  <2>1. UNCHANGED <<data_socket, accepted, conns>>
    BY <1>4, SocketKept
  <2>2. pc' = pc /\ shutdowns' = shutdowns
    BY <1>4, ClientFrame DEF DaemonKeeps, threadVars
  <2>. QED  BY <2>1, <2>2 DEF CleanSocket
<1>5. ~ Restart
  BY CleanUse DEF Restart
<1>. QED  BY <1>1, <1>2, <1>3, <1>4, <1>5, NextSteps

LEMMA StepClean ==
    ASSUME BPAssumption, FlagsOK, SectionsOK, PacketOK, AppsOK, QueuesOK, SocketOK, beacon \in Beacon,
           CleanOK, Next
    PROVE  CleanOK'
<1>1. ASSUME Clean(scenario)
      PROVE  CleanFlags' /\ CleanQueues' /\ CleanBeacon' /\ CleanSocket'
  <2>1. CleanFlags /\ CleanQueues /\ CleanBeacon /\ CleanSocket
    BY <1>1 DEF CleanOK
  <2>. QED  BY <1>1, <2>1, StepCleanFlags, StepCleanQueues, StepCleanBeacon, StepCleanSocket
<1>2. PICK s : s = scenario
  OBVIOUS
<1>3. scenario' = s /\ scenario = s
  BY <1>2, ScenarioKept
<1>4. Clean(scenario)' => Clean(s)
  BY <1>3
<1>. QED  BY <1>1, <1>2, <1>4 DEF CleanOK

(***************************************************************************)
(* The theorems.                                                           *)
(***************************************************************************)
LEMMA InitInv ==
    ASSUME BPAssumption, Init
    PROVE  NodeInv
<1>1. /\ conns = <<>> /\ data_socket = 0 /\ accepted = 0 /\ the_command_socket = TRUE
      /\ Len(conns) = 0
  BY DEF Init, SocketInit, NoSocket
<1>2. FlagsOK /\ SectionsOK
  BY DEF Init, DaemonInit, FlagsOK, SectionsOK, Thread, Places, NoThread
<1>3. /\ scenario.beacons \in Nat /\ scenario.payloads \in Nat
  <2>1. scenario.beacons \in 0 .. MaxPackets /\ scenario.payloads \in 0 .. MaxPayloads
    BY <1>2, ScenarioTypes DEF FlagsOK
  <2>. QED  BY <2>1
<1>4. PacketOK
  <2>1. Len(NoPacket.payloads) = 0
    BY DEF NoPacket
  <2>2. packet = NoPacket /\ parsed = 0 /\ received = 0 /\ pc["receiver"] = "loop"
    BY DEF Init, DaemonInit, Thread
  <2>. QED  BY <1>3, <2>1, <2>2 DEF PacketOK
<1>5. AppsOK
  BY <1>3, Constants, SMTT(30) DEF Init, AppsOK, AppStates
<1>6. QueuesOK
  BY QueueType DEF Init, QueuesOK
<1>7. SocketOK
  <2>1. MaxConns \in Nat
    BY Constants
  <2>. QED  BY <1>1, <2>1 DEF SocketOK
<1>8. beacon \in Beacon /\ beacon.payloads = <<>>
  BY NoBeaconType DEF Init, DaemonInit, NoBeacon
<1>9. RegistrationsOK
  <2>1. \A p \in Protocol : app[p] = "off"
    BY Constants DEF Init
  <2>. QED  BY <1>1, <2>1 DEF RegistrationsOK
<1>10. OrderOK
  <2> SUFFICES ASSUME NEW p \in Protocol
               PROVE  SendOrder(p) /\ ReceiveOrder(p)
    BY DEF OrderOK
  <2>1. /\ txq[p] = EmptyQueue /\ ind[p] = EmptyQueue /\ sent[p] = 0 /\ submitted[p] = 0
        /\ got[p] = 0 /\ received = 0
    BY DEF Init
  <2>2. SendOrder(p)
    BY <1>8, <2>1, QueueType, AfterEmpty DEF SendOrder
  <2>3. ReceiveOrder(p)
    BY <2>1, QueueType DEF ReceiveOrder, NonDecreasing
  <2>. QED  BY <2>2, <2>3
<1>11. CleanOK
  <2>1. CleanFlags
    BY DEF Init, DaemonInit, CleanFlags
  <2>2. CleanQueues
    BY QueueType DEF Init, CleanQueues
  <2>3. CleanBeacon
    BY DEF Init, DaemonInit, CleanBeacon, Thread
  <2>4. CleanSocket
    BY <1>1 DEF CleanSocket, NoSocket
  <2>. QED  BY <2>1, <2>2, <2>3, <2>4 DEF CleanOK
<1>. QED  BY <1>2, <1>4, <1>5, <1>6, <1>7, <1>8, <1>9, <1>10, <1>11 DEF NodeInv

LEMMA StepInv ==
    ASSUME BPAssumption, NodeInv, [Next]_vars
    PROVE  NodeInv'
<1> USE DEF NodeInv
<1>1. CASE Next
  <2>1. FlagsOK' /\ SectionsOK' /\ PacketOK' /\ AppsOK'
    BY <1>1, StepFlags, StepSections, StepPacket, StepApps
  <2>2. QueuesOK' /\ SocketOK' /\ beacon' \in Beacon
    BY <1>1, StepQueues, StepSocket, StepBeacon
  <2>3. RegistrationsOK'
    BY <1>1, StepRegistrations
  <2>4. OrderOK' /\ CleanOK'
    BY <1>1, StepOrder, StepClean
  <2>. QED  BY <2>1, <2>2, <2>3, <2>4
<1>2. CASE UNCHANGED vars
  <2> USE <1>2 DEF vars, flagVars, threadVars, rxVars, queueVars, clientVars, runVars, socketVars
  <2>1. FlagsOK' /\ SectionsOK' /\ PacketOK' /\ AppsOK'
    BY DEF FlagsOK, SectionsOK, PacketOK, AppsOK
  <2>2. QueuesOK' /\ SocketOK' /\ (beacon \in Beacon)'
    BY DEF QueuesOK, SocketOK
  <2>3. RegistrationsOK'
    BY DEF RegistrationsOK, Served, Quiet, Unhandled, Roomy, Granted
  <2>4. OrderOK'
    BY DEF OrderOK, SendOrder, ReceiveOrder
  <2>5. CleanOK'
    BY DEF CleanOK, CleanFlags, CleanQueues, CleanBeacon, CleanSocket, Polite
  <2>. QED  BY <2>1, <2>2, <2>3, <2>4, <2>5
<1>. QED  BY <1>1, <1>2

\* The inductive invariant of the daemon and its clients.
THEOREM NodeInvariance ==
    Spec => []NodeInv
<1>1. Init => NodeInv
  BY BPAssumption, InitInv
<1>2. NodeInv /\ [Next]_vars => NodeInv'
  BY BPAssumption, StepInv
<1>. QED  BY <1>1, <1>2, PTL DEF Spec

\* Queues, connections, beacons and the table of protocols keep to their types: the critical
\* sections of the transmitter and of receiver and command thread exclude each other, so
\* the transmitter visits registered protocols only, and no beacon is longer than allowed.
THEOREM TypesAreKept ==
    Spec => []TypeOK
<1>1. NodeInv => TypeOK
  <2> SUFFICES ASSUME NodeInv
               PROVE  TypeOK
    OBVIOUS
  <2> USE DEF NodeInv
  <2>1. SocketTypeOK
    <3>1. \A n \in 1 .. Len(conns) : conns[n] \in Conn
      BY ElementOfSeq DEF SocketOK
    <3>2. \A n \in 1 .. Len(conns) : conns[n].client \in Client
                                     /\ conns[n].open \subseteq {"client", "owner"}
      BY <3>1 DEF Conn
    <3>. QED  BY <3>2 DEF SocketOK, SocketTypeOK
  <2>2. /\ bp_isActive \in BOOLEAN /\ bp_exitFlag \in BOOLEAN /\ killed \in BOOLEAN
        /\ clientProtocols \subseteq Protocol /\ areas \subseteq Protocol
        /\ mutex \in Thread \cup {NoThread}
        /\ todo \subseteq clientProtocols /\ threw \subseteq Thread
    BY DEF FlagsOK, SectionsOK
  <2>3. pc \in [Thread -> {"loop", "lock", "visit", "listen", "payload", "deliver", "read", "stop",
                           "blocked", "ended"}]
    BY DEF SectionsOK, Places
  <2>4. beacon.used \in 0 .. MaxBeaconSize
    BY DEF Beacon
  <2>5. \A p \in Protocol : txq[p] \in Queue /\ ind[p] \in Queue
    BY DEF QueuesOK
  <2>6. app \in [Client -> {"off", "opening", "asking", "on", "pushing", "closing", "leaving"}]
    BY DEF AppsOK, AppStates
  <2>7. parsed \in 0 .. Len(packet.payloads)
    BY DEF PacketOK
  <2>. QED  BY <2>1, <2>2, <2>3, <2>4, <2>5, <2>6, <2>7 DEF TypeOK
<1>. QED  BY <1>1, NodeInvariance, PTL

\* A client that believes to be registered is in the table, with its shared memory, until the
\* daemon is started anew: whatever requests are under way, given up, answered late or
\* repeated, none that the command thread deals with later undoes a newer registration.
THEOREM RegisteredAreServed ==
    Spec => []RegisteredIsServed
<1>1. NodeInv => RegisteredIsServed
  BY DEF NodeInv, RegistrationsOK, Served, RegisteredIsServed
<1>. QED  BY <1>1, NodeInvariance, PTL

\* Used with queues only, with payloads that fit into one beacon together, and by clients that
\* wait for their answers, the daemon ends when it is asked to and for no other reason.
THEOREM CleanUseLivesOn ==
    Spec => []CleanDaemonLives
<1>1. NodeInv => CleanDaemonLives
  BY DEF NodeInv, CleanOK, CleanFlags, CleanDaemonLives
<1>. QED  BY <1>1, NodeInvariance, PTL

\* Payloads are sent in the order in which they have been handed over, each once but for
\* REPEAT, and clients take those received in the order of their reception.
THEOREM PayloadsKeepTheirOrder ==
    Spec => PayloadsInOrder
<1>1. NodeInv /\ [Next]_vars =>
        [\A p \in Protocol :
            /\ sent'[p] # sent[p] => sent'[p] > sent[p]
            /\ p \in {beacon.payloads[i][1] : i \in 1 .. Len(beacon.payloads)}
                 /\ generate_beacon /\ scenario.mode[p] # "REPEAT" => sent'[p] # sent[p]
            /\ got'[p] # got[p] => got'[p] > got[p]]_vars
  <2> SUFFICES ASSUME NodeInv, Next, NEW p \in Protocol
               PROVE  /\ sent'[p] # sent[p] => sent'[p] > sent[p]
                      /\ p \in {beacon.payloads[i][1] : i \in 1 .. Len(beacon.payloads)}
                           /\ generate_beacon /\ scenario.mode[p] # "REPEAT" => sent'[p] # sent[p]
                      /\ got'[p] # got[p] => got'[p] > got[p]
    OBVIOUS
  <2>. QED  BY BPAssumption, StepInOrder DEF NodeInv
<1>. QED  BY <1>1, NodeInvariance, PTL DEF Spec, PayloadsInOrder


(***************************************************************************)
(* The newest payload.                                                     *)
(***************************************************************************)
\* There is no beacon while none is made, and who drops the oldest payload does not wait.
NewestOK ==
    /\ Clean(scenario) => pc["transmitter"] = "visit" \/ beacon.payloads = <<>>
    /\ \A p \in Protocol : scenario.mode[p] = "QUEUE_DROPHEAD" => app[p] # "pushing"

\* The n-th payload of p has been sent last, is in the beacon, or is in the queue.
Present(p, n) ==
    \/ n = sent[p]
    \/ \E k \in 1 .. Len(beacon.payloads) : beacon.payloads[k][1] = p /\ beacon.payloads[k][2] = n
    \/ \E i \in 1 .. Len(txq[p].items) : txq[p].items[i] = n

LEMMA NewestPresent ==
    ASSUME NEW p \in Protocol
    PROVE  NewestIn(p) <=> Present(p, submitted[p])
BY DEF NewestIn, Present, InBeacon, SentNow, Queued

LEMMA IdleBeacon ==
    ASSUME BPAssumption, FlagsOK, SectionsOK, NewestOK, Clean(scenario), Next, ~ killed'
    PROVE  pc'["transmitter"] = "visit" \/ beacon'.payloads = <<>>
<1>1. /\ pc["transmitter"] = "visit" \/ beacon.payloads = <<>>
      /\ pc \in [Thread -> Places] /\ "transmitter" \in Thread
  BY DEF NewestOK, SectionsOK, Thread
<1>2. CASE Loops
  <2>1. beacon' = beacon
    BY <1>2, BeaconKept
  <2>2. pc["transmitter"] = "visit" => pc'["transmitter"] = "visit"
    BY <1>1, <1>2 DEF Loops, Loop, Goto
  <2>. QED  BY <1>1, <2>1, <2>2
<1>3. CASE TxLock
  BY <1>1, <1>3 DEF TxLock, Goto
<1>4. ASSUME NEW p \in Protocol, attempt_add_payload(p)
      PROVE  pc'["transmitter"] = "visit" \/ beacon'.payloads = <<>>
  BY <1>1, <1>4 DEF attempt_add_payload, GoOn, TxTimeout, TxThrow, serialize_payload, TxUnlock,
                    NoBeacon
<1>5. CASE generate_beacon
  BY <1>5 DEF generate_beacon, TxUnlock, NoBeacon
<1>6. CASE RxSteps
  <2>1. pc["transmitter"] = "visit" => pc'["transmitter"] = "visit"
    BY <1>1, <1>6, RxPlaces DEF RxGoes
  <2>. QED  BY <1>1, <1>6, <2>1, BeaconKept
<1>7. CASE PayloadSteps
  <2>1. pc["transmitter"] = "visit" => pc'["transmitter"] = "visit"
    BY <1>1, <1>7 DEF PayloadSteps, handle_payload_from_client, PayloadBlocks, Goto
  <2>. QED  BY <1>1, <1>7, <2>1, BeaconKept
<1>8. CASE CommandSteps
  <2>1. pc["transmitter"] = "visit" => pc'["transmitter"] = "visit"
    BY <1>1, <1>8 DEF CommandSteps, CommandLoop, ReadNothing, ShutDown, HandleRequest, HandlerThrows,
                      HandlerBlocks, CommandStop, Goto
  <2>. QED  BY <1>1, <1>8, <2>1, BeaconKept
<1>9. CASE SocketSteps \/ QueueSteps
  <2>1. pc' = pc
    BY <1>9, ClientFrame DEF DaemonKeeps, threadVars
  <2>. QED  BY <1>1, <1>9, <2>1, BeaconKept
<1>10. ~ Restart
  BY CleanUse DEF Restart
<1>. QED  BY <1>2, <1>3, <1>4, <1>5, <1>6, <1>7, <1>8, <1>9, <1>10, NextSteps DEF TxSteps

LEMMA NobodyWaits ==
    ASSUME BPAssumption, FlagsOK, AppsOK, QueuesOK, NewestOK, Next,
           NEW p \in Protocol, scenario.mode[p] = "QUEUE_DROPHEAD"
    PROVE  app'[p] # "pushing"
<1>1. app[p] # "pushing" /\ app \in [Client -> AppStates] /\ p \in Client
  BY Constants DEF NewestOK, AppsOK
<1>2. CASE Loops \/ TxSteps \/ RxSteps \/ PayloadSteps \/ CommandSteps \/ Restart
  BY <1>1, <1>2, AppsKept
<1>3. CASE SocketSteps
  <2>1. PICK c \in Client, l \in {"off", "opening", "closing", "asking", "leaving", "on"} :
            app' = [app EXCEPT ![c] = l]
    BY <1>3, SocketFrame
  <2>. QED  BY <1>1, <2>1
<1>4. ASSUME NEW v \in Protocol, TransmitPayload(v)
      PROVE  app'[p] # "pushing"
  <2>1. CASE v = p
    BY <1>1, <1>4, <2>1 DEF TransmitPayload
  <2>2. CASE v # p
    BY <1>1, <1>4, <2>2 DEF TransmitPayload, AppGoto
  <2>. QED  BY <2>1, <2>2
<1>5. ASSUME NEW v \in Protocol, push_wait(v) \/ ReceivePayload(v) \/ DieInQueue(v)
      PROVE  app'[p] # "pushing"
  BY <1>1, <1>5 DEF push_wait, ReceivePayload, DieInQueue, AppGoto
<1>. QED  BY <1>2, <1>3, <1>4, <1>5, NextSteps DEF QueueSteps

LEMMA StepNewest ==
    ASSUME BPAssumption, FlagsOK, SectionsOK, AppsOK, QueuesOK, NewestOK, Next,
           Clean(scenario) => ~ killed'
    PROVE  NewestOK'
<1>1. PICK s : s = scenario
  OBVIOUS
<1>2. scenario' = s /\ scenario = s
  BY <1>1, ScenarioKept
<1>3. Clean(scenario)' => Clean(s)
  BY <1>2
<1>. QED  BY <1>2, <1>3, IdleBeacon, NobodyWaits DEF NewestOK

\* Steps of others than the transmitter.
LEMMA OthersKeepNewest ==
    ASSUME BPAssumption, NodeInv, NewestOK, Clean(scenario), ~ bp_exitFlag, Next,
           Loops \/ RxSteps \/ PayloadSteps \/ CommandSteps \/ SocketSteps \/ QueueSteps,
           NEW p \in clientProtocols, scenario.mode[p] = "QUEUE_DROPHEAD"
    PROVE  \/ submitted'[p] = submitted[p] /\ txq'[p].items = txq[p].items
           \/ \E i \in 1 .. Len(txq'[p].items) : txq'[p].items[i] = submitted'[p]
<1>0. /\ FlagsOK /\ SectionsOK /\ PacketOK /\ AppsOK /\ QueuesOK /\ SocketOK /\ OrderOK
      /\ RegistrationsOK /\ CleanFlags /\ CleanQueues /\ CleanSocket
  BY DEF NodeInv, CleanOK
<1>1. p \in Protocol /\ txq[p] \in Queue
  BY <1>0 DEF SectionsOK, QueuesOK
<1>2. CASE Loops \/ RxSteps
  BY <1>2, QueuesKept, AppsKept DEF queueVars
<1>3. CASE PayloadSteps
  <2>1. ~ Discards
    BY <1>0 DEF Discards, CleanFlags
  <2>. QED  BY <1>3, <2>1, PayloadResets, AppsKept
<1>4. CASE CommandSteps
  <2>1. txq'[p] = txq[p]
    <3>1. CASE HandleRequest
      <4>1. HasRequest /\ Effect(TheRequest) /\ TheRequest.s_type # "ClearBuffer"
        BY <1>0, <3>1, CleanRequest DEF HandleRequest
      <4>2. CASE TheRequest.s_type = "RegisterProtocol" /\ Status(TheRequest) = "OK"
                 /\ RegisterProtocol(TheRequest.protocolId)
        <5>1. TheRequest.protocolId \notin clientProtocols
          BY <4>2 DEF Status, RegisterStatus
        <5>. QED  BY <1>0, <1>1, <4>2, <5>1 DEF RegisterProtocol, QueuesOK
      <4>3. CASE ~ (TheRequest.s_type = "RegisterProtocol" /\ Status(TheRequest) = "OK"
                    /\ RegisterProtocol(TheRequest.protocolId))
        BY <4>1, <4>3 DEF Effect, DeregisterProtocol, SetActive, queueVars
      <4>. QED  BY <4>2, <4>3
    <3>2. CASE CommandSteps /\ ~ HandleRequest
      BY <3>2 DEF CommandSteps, CommandLoop, ReadNothing, ShutDown, HandlerThrows, HandlerBlocks,
                  CommandStop, queueVars
    <3>. QED  BY <1>4, <3>1, <3>2
  <2>. QED  BY <1>4, <2>1, AppsKept
<1>5. CASE SocketSteps
  BY <1>0, <1>1, <1>5, SocketFrame, WaitingQueue DEF QueuesOK
<1>6. ASSUME NEW v \in Protocol, TransmitPayload(v) \/ push_wait(v), v # p
      PROVE  submitted'[p] = submitted[p] /\ txq'[p] = txq[p]
  <2>1. QueueUses(v)
    BY <1>0, <1>6, UseSteps
  <2>. QED  BY <1>0, <1>1, <1>6, <2>1 DEF QueueUses, QueuesOK, AppsOK
<1>7. CASE TransmitPayload(p)
  <2> DEFINE n == scenario.entries[p]
             s == txq[p].items
             x == submitted[p] + 1
  <2>1. /\ txq' = [txq EXCEPT ![p] = PushForce(txq[p], x, n)]
        /\ submitted' = [submitted EXCEPT ![p] = x]
        /\ submitted[p] < scenario.payloads
    BY <1>7 DEF TransmitPayload, Submit
  <2>2. submitted[p] \in Nat /\ x \in Item
    BY <1>0, <1>1, <2>1, Numbers DEF AppsOK
  <2>3. n \in Nat \ {0}
    <3>1. n \in 1 .. MaxQueueLength /\ MaxQueueLength \in Nat
      BY <1>0, <1>1, CleanUse, Constants
    <3>. QED  BY <3>1
  <2>4. txq'[p].items = Append(IF Len(s) = n THEN Tail(s) ELSE s, x)
    BY <1>0, <1>1, <2>1, <2>2, <2>3, PushForceQueue DEF QueuesOK
  <2>5. PICK t \in Seq(Item) : txq'[p].items = Append(t, x)
    <3>1. s \in Seq(Item) /\ (Len(s) = n => s # <<>>)
      BY <1>1, <2>3, QueueType
    <3>2. Len(s) = n => Tail(s) \in Seq(Item)
      BY <3>1, HeadTailProperties
    <3>. QED  BY <2>4, <3>1, <3>2
  <2>6. Len(txq'[p].items) = Len(t) + 1 /\ Len(t) \in Nat /\ txq'[p].items[Len(t) + 1] = x
    BY <2>2, <2>5, AppendProperties, LenProperties
  <2>7. submitted'[p] = x
    BY <1>0, <1>1, <2>1 DEF AppsOK
  <2> HIDE DEF x
  <2>. QED  BY <2>6, <2>7
<1>8. ~ push_wait(p)
  BY <1>1 DEF push_wait, NewestOK
<1>9. ASSUME NEW v \in Protocol, ReceivePayload(v)
      PROVE  submitted' = submitted /\ txq' = txq
  BY <1>9 DEF ReceivePayload
<1>10. \A v \in Protocol : ~ DieInQueue(v)
  BY <1>0, CleanUse DEF DieInQueue
<1>. QED  BY <1>2, <1>3, <1>4, <1>5, <1>6, <1>7, <1>8, <1>9, <1>10, NextSteps DEF QueueSteps

\* What the transmitter does to a payload that is present, while the daemon does not end.
LEMMA TransmitterKeepsNewest ==
    ASSUME BPAssumption, NodeInv, NewestOK, Clean(scenario), TxSteps, ~ bp_exitFlag',
           NEW p \in Protocol, scenario.mode[p] = "QUEUE_DROPHEAD", Present(p, submitted[p])
    PROVE  Present(p, submitted[p])'
<1>0. /\ FlagsOK /\ PacketOK /\ AppsOK /\ QueuesOK /\ OrderOK /\ CleanFlags
      /\ beacon \in Beacon
  BY DEF NodeInv, CleanOK
<1>1. /\ submitted' = submitted /\ submitted[p] \in Nat /\ sent \in [Protocol -> Nat]
      /\ beacon.payloads \in Seq(Protocol \X Nat)
  BY <1>0, AppsKept DEF AppsOK, Beacon
<1>2. CASE TxLock
  <2>1. UNCHANGED <<sent, txq>>
    BY <1>2 DEF TxLock, queueVars
  <2>2. beacon' = beacon \/ beacon.payloads = <<>>
    BY <1>2 DEF TxLock, NewestOK
  <2>3. CASE beacon' = beacon
    BY <1>1, <2>1, <2>3 DEF Present
  <2>4. CASE beacon.payloads = <<>>
    <3>1. \/ submitted[p] = sent[p]
          \/ \E i \in 1 .. Len(txq[p].items) : txq[p].items[i] = submitted[p]
      <4>1. 1 .. Len(beacon.payloads) = {}
        BY <2>4
      <4>. QED  BY <4>1 DEF Present
    <3>. QED  BY <1>1, <2>1, <3>1 DEF Present
  <2>. QED  BY <2>2, <2>3, <2>4
<1>3. ASSUME NEW v \in Protocol, attempt_add_payload(v)
      PROVE  Present(p, submitted[p])'
  <2>1. sent' = sent /\ ~ TxTimeout /\ ~ TxThrow
    BY <1>3 DEF attempt_add_payload, TxTimeout, TxThrow
  <2>2. \A b : GoOn(v, b) => beacon' = b
    BY DEF GoOn, flagVars
  <2>3. CASE GoOn(v, beacon) /\ UNCHANGED txq
    BY <1>1, <2>1, <2>2, <2>3 DEF Present
  <2>4. CASE /\ txq[v].items # <<>> /\ serialize_payload(v)
             /\ txq' = [txq EXCEPT ![v] = Taken(v)]
    <3> DEFINE b == beacon.payloads
               x == Head(txq[v].items)
    <3>1. beacon'.payloads = Append(b, <<v, x>>)
      <4>1. beacon' = WithPayload(v)
        BY <2>2, <2>4 DEF serialize_payload, WithPayload
      <4>. QED  BY <4>1 DEF WithPayload
    <3>2. txq[v].items \in Seq(Nat)
      BY <1>0, OrderTypes
    <3>3. x = txq[v].items[1] /\ x \in Nat
      <4>1. PICK y : y = txq[v].items
        OBVIOUS
      <4>2. y \in Seq(Nat) /\ y # <<>>
        BY <2>4, <3>2, <4>1
      <4>3. Head(y) = y[1] /\ Head(y) \in Nat
        BY <4>2, HeadTailProperties
      <4>. QED  BY <4>1, <4>3
    <3>4. /\ Len(beacon'.payloads) = Len(b) + 1 /\ Len(b) \in Nat
          /\ beacon'.payloads[Len(b) + 1] = <<v, x>>
          /\ \A k \in 1 .. Len(b) : beacon'.payloads[k] = b[k]
      <4>1. <<v, x>> \in Protocol \X Nat
        <5>1. PICK y : y = x
          OBVIOUS
        <5>2. <<v, y>> \in Protocol \X Nat
          BY <3>3, <5>1
        <5>. QED  BY <5>1, <5>2
      <4>2. b \in Seq(Protocol \X Nat)
        BY <1>1
      <4>3. PICK y : y = <<v, x>>
        OBVIOUS
      <4>4. PICK d : d = b
        OBVIOUS
      <4>5. /\ Len(Append(d, y)) = Len(d) + 1 /\ Len(d) \in Nat
            /\ Append(d, y)[Len(d) + 1] = y
            /\ \A k \in 1 .. Len(d) : Append(d, y)[k] = d[k]
        <5>1. d \in Seq(Protocol \X Nat) /\ y \in Protocol \X Nat
          BY <4>1, <4>2, <4>3, <4>4
        <5>. QED  BY <5>1, AppendProperties, LenProperties
      <4>. QED  BY <3>1, <4>3, <4>4, <4>5
    <3>5. CASE v # p
      <4>1. txq'[p] = txq[p]
        BY <1>0, <2>4, <3>5 DEF QueuesOK
      <4>2. \A k \in 1 .. Len(b) : k \in 1 .. Len(beacon'.payloads)
        BY <3>4
      <4>. QED  BY <1>1, <2>1, <3>4, <4>1, <4>2 DEF Present
    <3>6. CASE v = p
      <4>1. txq'[p].items = Tail(txq[p].items)
        BY <1>0, <2>4, <3>6, TakenQueue DEF QueuesOK
      <4>2. /\ Len(Tail(txq[p].items)) = Len(txq[p].items) - 1 /\ Len(txq[p].items) \in Nat
            /\ \A i \in 1 .. Len(txq[p].items) - 1 : Tail(txq[p].items)[i] = txq[p].items[i + 1]
        BY <2>4, <3>2, <3>6, HeadTailProperties, LenProperties
      <4> HIDE DEF b, x
      <4>3. ASSUME NEW k \in 1 .. Len(b), b[k][1] = p, b[k][2] = submitted[p]
            PROVE  Present(p, submitted[p])'
        <5>1. k \in 1 .. Len(beacon'.payloads) /\ beacon'.payloads[k] = b[k]
          BY <3>4
        <5>. QED  BY <1>1, <4>3, <5>1 DEF Present
      <4>4. ASSUME NEW i \in 1 .. Len(txq[p].items), txq[p].items[i] = submitted[p]
            PROVE  Present(p, submitted[p])'
        <5>1. CASE i = 1
          <6>1. Len(b) + 1 \in 1 .. Len(beacon'.payloads)
            BY <3>4
          <6>2. beacon'.payloads[Len(b) + 1][1] = p /\ beacon'.payloads[Len(b) + 1][2] = submitted[p]
            BY <3>3, <3>4, <3>6, <4>4, <5>1
          <6>. QED  BY <1>1, <6>1, <6>2 DEF Present
        <5>2. CASE i # 1
          <6>1. i - 1 \in 1 .. Len(txq'[p].items) /\ txq'[p].items[i - 1] = submitted[p]
            <7>1. i - 1 \in 1 .. Len(txq[p].items) - 1 /\ i - 1 + 1 = i
              BY <4>2, <5>2
            <7>. QED  BY <4>1, <4>2, <4>4, <7>1
          <6>. QED  BY <1>1, <6>1 DEF Present
        <5>. QED  BY <5>1, <5>2
      <4>5. submitted[p] = sent[p] => Present(p, submitted[p])'
        BY <1>1, <2>1 DEF Present
      <4>. QED  BY <4>3, <4>4, <4>5 DEF Present, b
    <3>. QED  BY <3>5, <3>6
  <2>. QED  BY <1>3, <2>1, <2>3, <2>4 DEF attempt_add_payload
<1>4. CASE generate_beacon
  <2>1. txq' = txq
    BY <1>4 DEF generate_beacon, queueVars
  <2>2. CASE SentNow(p) = {}
    <3>1. sent'[p] = sent[p]
      BY <1>4, <2>2 DEF generate_beacon
    <3>. QED  BY <1>1, <2>1, <2>2, <3>1 DEF Present, SentNow
  <2>3. CASE SentNow(p) # {}
    <3>1. PICK k \in SentNow(p) : sent'[p] = beacon.payloads[k][2]
      BY <1>4, <2>3 DEF generate_beacon
    <3>2. k \in 1 .. Len(beacon.payloads) /\ beacon.payloads[k][1] = p
      BY <3>1 DEF SentNow
    <3>3. beacon.payloads[k][2] \in Nat /\ sent[p] \in Nat
      <4>1. beacon.payloads[k] \in Protocol \X Nat
        BY <1>1, <3>2, ElementOfSeq
      <4>. QED  BY <1>1, <4>1
    <3>4. /\ sent[p] < beacon.payloads[k][2] /\ beacon.payloads[k][2] <= submitted[p]
          /\ \A l \in 1 .. Len(beacon.payloads) : beacon.payloads[l][1] = p => l = k
      <4>1. SendOrder(p)
        BY <1>0 DEF OrderOK
      <4>. QED  BY <3>2, <4>1 DEF SendOrder, Before
    <3>5. submitted[p] # sent[p]
      <4>1. PICK x \in Nat : x = beacon.payloads[k][2]
        BY <3>3
      <4>2. PICK y \in Nat : y = sent[p]
        BY <3>3
      <4>3. PICK z \in Nat : z = submitted[p]
        BY <1>1
      <4>4. y < x /\ x <= z
        BY <3>4, <4>1, <4>2, <4>3
      <4>5. z # y
        BY <4>4
      <4>. QED  BY <4>2, <4>3, <4>5
    <3>. QED  BY <1>1, <2>1, <3>1, <3>4, <3>5 DEF Present
  <2>. QED  BY <2>2, <2>3
<1>. QED  BY <1>2, <1>3, <1>4 DEF TxSteps

\* The newest payload stays, and a new one becomes it.
LEMMA NewestStays ==
    ASSUME BPAssumption, NodeInv, NodeInv', NewestOK, Next, Clean(scenario), ~ shutdowns',
           NEW p \in clientProtocols, scenario.mode[p] = "QUEUE_DROPHEAD",
           NewestIn(p) \/ submitted'[p] # submitted[p]
    PROVE  NewestIn(p)'
<1>1. p \in Protocol /\ CleanFlags /\ submitted[p] \in Nat
  BY DEF NodeInv, CleanOK, SectionsOK, AppsOK
<1>2. ~ bp_exitFlag' /\ ~ bp_exitFlag
  <2>1. CleanFlags'
    <3>1. PICK s : s = scenario
      OBVIOUS
    <3>2. scenario' = s /\ scenario = s
      BY <3>1, ScenarioKept
    <3>3. Clean(scenario)'
      BY <3>2
    <3>. QED  BY <3>3 DEF NodeInv, CleanOK
  <2>2. ~ shutdowns
    BY ShutdownsStay
  <2>. QED  BY <1>1, <2>1, <2>2 DEF CleanFlags
<1>3. CASE Loops \/ RxSteps \/ PayloadSteps \/ CommandSteps \/ SocketSteps \/ QueueSteps
  <2>1. UNCHANGED <<beacon, sent>>
    BY <1>3, BeaconKept
  <2>2. \/ submitted'[p] = submitted[p] /\ txq'[p].items = txq[p].items
        \/ \E i \in 1 .. Len(txq'[p].items) : txq'[p].items[i] = submitted'[p]
    BY <1>2, <1>3, OthersKeepNewest
  <2>3. Present(p, submitted[p])'
    BY <1>1, <2>1, <2>2, NewestPresent DEF Present
  <2>. QED  BY <2>3 DEF NewestIn, Present, InBeacon, SentNow, Queued
<1>4. CASE TxSteps
  <2>1. submitted' = submitted
    BY <1>4, AppsKept
  <2>2. Present(p, submitted[p])
    BY <1>1, <2>1, NewestPresent
  <2>3. Present(p, submitted[p])'
    BY <1>1, <1>2, <1>4, <2>2, TransmitterKeepsNewest
  <2>. QED  BY <2>3 DEF NewestIn, Present, InBeacon, SentNow, Queued
<1>5. ~ Restart
  BY CleanUse DEF Restart, NodeInv
<1>. QED  BY <1>3, <1>4, <1>5, NextSteps

\* In clean use, where a queue is full it is the oldest payload that is dropped: from its
\* submission on the newest one is in the queue, in the beacon, or the last one sent, until
\* somebody asks the daemon to end.
THEOREM NewestIsKept ==
    Spec => NewestKept
<1> DEFINE Kept ==
      \A p \in Protocol :
        /\ Clean(scenario) /\ scenario.mode[p] = "QUEUE_DROPHEAD" /\ p \in clientProtocols
        /\ NewestIn(p) \/ submitted'[p] # submitted[p]
        => NewestIn(p)' \/ shutdowns'
<1>1. Init => NewestOK
  BY BPAssumption, Constants DEF Init, DaemonInit, NewestOK, NoBeacon
<1>2. NodeInv /\ NodeInv' /\ NewestOK /\ [Next]_vars => NewestOK'
  <2>1. ASSUME NodeInv, NodeInv', NewestOK, Next
        PROVE  NewestOK'
    <3>1. Clean(scenario) => ~ killed'
      <4>1. PICK s : s = scenario
        OBVIOUS
      <4>2. scenario' = s /\ scenario = s
        BY <2>1, <4>1, ScenarioKept
      <4>3. Clean(scenario) => Clean(scenario)'
        BY <4>2
      <4>. QED  BY <2>1, <4>3 DEF NodeInv, CleanOK, CleanFlags
    <3>. QED  BY <2>1, <3>1, BPAssumption, StepNewest DEF NodeInv
  <2>2. ASSUME NewestOK, UNCHANGED vars
        PROVE  NewestOK'
    <3>1. UNCHANGED <<scenario, pc, beacon, app>>
      BY <2>2 DEF vars, threadVars, runVars, clientVars
    <3>2. PICK s : s = scenario
      OBVIOUS
    <3>3. scenario' = s /\ scenario = s
      BY <3>1, <3>2
    <3>4. Clean(scenario)' => Clean(s)
      BY <3>3
    <3>. QED  BY <2>2, <3>1, <3>3, <3>4 DEF NewestOK
  <2>. QED  BY <2>1, <2>2
<1>3. NodeInv /\ NodeInv' /\ NewestOK /\ [Next]_vars => [Kept]_vars
  <2> SUFFICES ASSUME NodeInv, NodeInv', NewestOK, Next, NEW p \in Protocol,
                      Clean(scenario), scenario.mode[p] = "QUEUE_DROPHEAD", p \in clientProtocols,
                      NewestIn(p) \/ submitted'[p] # submitted[p], ~ shutdowns'
               PROVE  NewestIn(p)'
    OBVIOUS
  <2>. QED  BY BPAssumption, NewestStays
<1>. QED  BY <1>1, <1>2, <1>3, NodeInvariance, PTL DEF Spec, NewestKept
=============================================================================

------------------------------- MODULE BPNode -------------------------------
(***************************************************************************)
(* The daemon of the beaconing protocol: its transmitter, its receiver,    *)
(* its payload management and its command thread, and the client protocols *)
(* that use it through the client library: they register over the command  *)
(* socket, put payloads into a queue in shared memory and take received    *)
(* ones out of another.  The threads of the daemon share the table of      *)
(* client protocols, under one mutex; a client takes no part in that mutex *)
(* and meets the daemon in the queues only.  A queue is the sequence of    *)
(* its payloads with the flag has_data (ShmFiniteQueue has the details).   *)
(* Statistics and the sequence number of beacons, which no code reads, are *)
(* left out.                                                               *)
(***************************************************************************)
EXTENDS CommandSocket, FiniteSets

CONSTANTS
    Protocol,         \* protocol identifiers 1 .. n, of the clients; 0 is the operator
    MaxQueueLength,   \* room in a queue in shared memory
    HeaderSize, PayloadHeaderSize, MaxBeaconSize,
    Scenarios,        \* what the daemon is used for, see Scenario
    MaxPayloads,      \* bound on the payloads of a client, in any scenario
    MaxPackets,       \* bound on the beacons received, in any scenario
    MaxRestarts       \* bound on restarts of the daemon

Mode == {"QUEUE_DROPTAIL", "QUEUE_DROPHEAD", "ONCE", "REPEAT"}
Fault == {"client_gives_up", "client_dies_in_queue", "daemon_restarts", "early_wakeups"}
Operator == 0
Thread == {"transmitter", "receiver", "payload", "command"}
NoThread == "none"

\* A request to the daemon that is no (de)registration.
Request ==
    {[s_type |-> t] : t \in {"ShutDown", "Activate", "Deactivate", "GetStatistics",
                             "ListRegisteredProtocols"}}
        \cup [s_type : {"ClearBuffer", "QueryNumberBufferedPayloads"}, protocolId : Protocol]

\* A frame with a beacon: what its header is, the length the header gives, the bytes
\* that follow the header, and the payloads.
Packet ==
    [header : {"short", "malformed", "good"}, length : Nat, data : Nat,
     payloads : Seq([protocolId : Nat, length : Nat])]

\* Protocols are numbered.  The configuration is refused when a beacon has no room for
\* both headers.
ASSUME BPAssumption ==
    /\ IsFiniteSet(Protocol) /\ Protocol = 1 .. Cardinality(Protocol)
    /\ Client = Protocol \cup {Operator}
    /\ {HeaderSize, PayloadHeaderSize, MaxBeaconSize, MaxQueueLength} \subseteq Nat
    /\ MaxBeaconSize > HeaderSize + PayloadHeaderSize
    /\ {MaxPayloads, MaxPackets, MaxRestarts, MaxConns} \subseteq Nat
    /\ \A s \in Scenarios :
        /\ s.clients \subseteq Client /\ s.leaving \subseteq s.clients
        /\ s.mode \in [Protocol -> Mode] /\ s.faults \subseteq Fault
        /\ s.requests \subseteq Request /\ s.packets \subseteq Packet
        /\ s.payloads \in 0 .. MaxPayloads /\ s.beacons \in 0 .. MaxPackets
        /\ s.size \in [Protocol -> Nat] /\ s.entries \in [Protocol -> Nat]

VARIABLES
    bp_isActive, bp_exitFlag,
    clientProtocols,   \* the protocols registered
    mutex,             \* the thread that holds clientProtocols_mutex, or NoThread
    pc,                \* where each thread is
    todo,              \* the protocols the transmitter has yet to visit
    threw,             \* the threads that an exception has ended
    killed,            \* whether a signal or an exception nobody catches ended the process
    beacon,            \* the beacon being assembled: payloads (with their protocols), used bytes
    packet, parsed,    \* the beacon being processed, and how many payloads of it have been
    areas,             \* the shared memory areas that exist, each named by its protocol
    txq,               \* queue, or buffer, of each protocol: payloads to be sent
    ind,               \* pqReceivePayloadIndication of each protocol
    app,               \* what each client does with the daemon
    submitted,         \* payloads each client has handed over, which are numbered
    received,          \* beacons received, which are numbered
    sent, got,         \* the last payload of each protocol sent, and received by its client
    shutdowns,         \* whether a shutdown has been asked for
    restarts,
    scenario           \* constant

flagVars   == <<bp_isActive, bp_exitFlag>>
threadVars == <<pc, mutex, todo, threw, killed>>
rxVars     == <<packet, parsed, received>>
queueVars  == <<txq, ind>>
clientVars == <<app, submitted, got>>
runVars    == <<restarts, scenario>>
vars == <<flagVars, clientProtocols, threadVars, beacon, sent, rxVars, areas, queueVars,
          clientVars, shutdowns, runVars, socketVars>>

NoPacket == [header |-> "none", length |-> 0, data |-> 0, payloads |-> <<>>]
NoBeacon == [payloads |-> <<>>, used |-> 0]
EmptyQueue == [items |-> <<>>, has_data |-> FALSE, pusher |-> "none", locked |-> FALSE]

DaemonInit ==
    /\ bp_isActive = TRUE /\ bp_exitFlag = FALSE
    /\ clientProtocols = {}
    /\ mutex = NoThread
    /\ pc = [t \in Thread |-> "loop"]
    /\ todo = {}
    /\ threw = {} /\ killed = FALSE
    /\ beacon = NoBeacon
    /\ packet = NoPacket /\ parsed = 0

Init ==
    /\ SocketInit /\ DaemonInit
    /\ areas = {}
    /\ txq = [p \in Protocol |-> EmptyQueue]
    /\ ind = [p \in Protocol |-> EmptyQueue]
    /\ app = [c \in Client |-> "off"]
    /\ submitted = [p \in Protocol |-> 0]
    /\ received = 0
    /\ sent = [p \in Protocol |-> 0]
    /\ got = [p \in Protocol |-> 0]
    /\ shutdowns = FALSE /\ restarts = 0
    /\ scenario \in Scenarios

(***************************************************************************)
(* Queues in shared memory: one process pushes, one pops.  A process that  *)
(* ends in the midst of an operation leaves the queue locked.              *)
(***************************************************************************)
Push(q, x) == [q EXCEPT !.items = Append(@, x), !.has_data = TRUE, !.pusher = "none"]

\* Mutant of PushForce: a full queue loses its newest payload.
PushForceTail(q, x, capacity) ==
    IF Len(q.items) = capacity THEN q ELSE Push(q, x)

\* A full queue loses its oldest payload.
PushForce(q, x, capacity) ==
    Push([q EXCEPT !.items = IF Len(@) = capacity THEN Tail(@) ELSE @], x)

Woken(q) == IF q.pusher = "waiting" THEN "woken" ELSE q.pusher

Pop(q) == [q EXCEPT !.items = Tail(@), !.has_data = Tail(q.items) # <<>>, !.pusher = Woken(q)]

\* The flag is left as it is.
Reset(q) == [q EXCEPT !.items = <<>>]

\* A push_wait waits while the flag is set.  It does not look at it again.
MustWait(q) == q.pusher = "none" /\ q.has_data
MayPush(q) == q.pusher = "woken" \/ (q.pusher = "none" /\ ~ q.has_data)

\* Mutant of TimesOut: a process waits until the queue is empty.
TimesOutNever(q) == FALSE

TimesOut(q) == q.pusher = "waiting"
Waiting(q) == [q EXCEPT !.pusher = "waiting"]

\* A wait on a condition variable may end for no reason.
Startled(q) == "early_wakeups" \in scenario.faults /\ q.pusher = "waiting"
TimedOut(q) == [q EXCEPT !.pusher = "none"]

(***************************************************************************)
(* The threads of the daemon.                                              *)
(***************************************************************************)
Alive == \E t \in Thread : pc[t] # "ended"

Goto(t, where) == pc' = [pc EXCEPT ![t] = where]

\* Mutant of Loop: the flag is not looked at.
LoopForEver(t, next) ==
    /\ pc[t] = "loop" /\ Goto(t, next)
    /\ UNCHANGED <<flagVars, clientProtocols, mutex, todo, threw, killed, beacon, sent, rxVars,
                   areas, queueVars, clientVars, shutdowns, runVars>>

\* The test at the head of the loop of a thread.
Loop(t, next) ==
    /\ pc[t] = "loop"
    /\ Goto(t, IF bp_exitFlag THEN "ended" ELSE next)
    /\ UNCHANGED <<flagVars, clientProtocols, mutex, todo, threw, killed, beacon, sent, rxVars,
                   areas, queueVars, clientVars, shutdowns, runVars>>

(***************************************************************************)
(* Transmitter.  A payload is taken out of the queue before it is known    *)
(* whether the beacon has room for it, and the flag of the queue is        *)
(* believed: both can end the thread, with the mutex held.                 *)
(***************************************************************************)
TxLoop == Loop("transmitter", "lock") /\ UNCHANGED socketVars

Visited == clientProtocols

\* generate_beacon returns at once when inactive; else it goes through the table.
TxLock ==
    /\ pc["transmitter"] = "lock" /\ mutex = NoThread
    /\ IF bp_isActive
       THEN /\ mutex' = "transmitter"
            /\ Goto("transmitter", "visit")
            /\ todo' = Visited
            /\ beacon' = [payloads |-> <<>>, used |-> HeaderSize]
       ELSE Goto("transmitter", "loop") /\ UNCHANGED <<mutex, todo, beacon>>
    /\ UNCHANGED <<flagVars, clientProtocols, threw, killed, sent, rxVars, areas, queueVars,
                   clientVars, shutdowns, runVars, socketVars>>

TxUnlock ==
    /\ mutex' = NoThread
    /\ Goto("transmitter", "loop")
    /\ todo' = {}
    /\ beacon' = NoBeacon

TxThrow ==
    /\ threw' = threw \cup {"transmitter"}
    /\ bp_exitFlag' = TRUE
    /\ Goto("transmitter", "ended")
    /\ beacon' = NoBeacon
    /\ UNCHANGED <<bp_isActive, mutex, todo>>

\* Mutant of Room.
RoomAlways(p) == TRUE

Room(p) == beacon.used + PayloadHeaderSize + scenario.size[p] <= MaxBeaconSize

\* Mutant of Taken: a payload sent once stays in the buffer.
TakenNever(p) == txq[p]

Taken(p) == IF scenario.mode[p] = "REPEAT" THEN txq[p] ELSE Pop(txq[p])

\* The exception of the handler leaves the flag as it is, and nobody is notified.
TakenInVain(p) == IF scenario.mode[p] = "REPEAT" THEN txq[p]
                  ELSE [txq[p] EXCEPT !.items = Tail(@)]

\* Goes on with the beacon b, unless the daemon is to end.
GoOn(p, b) ==
    /\ IF bp_exitFlag
       THEN TxUnlock
       ELSE /\ todo' = todo \ {p}
            /\ beacon' = b
            /\ UNCHANGED <<mutex, pc>>
    /\ UNCHANGED <<flagVars, threw>>

serialize_payload(p) ==
    GoOn(p, [payloads |-> Append(beacon.payloads, <<p, Head(txq[p].items)>>),
             used |-> beacon.used + PayloadHeaderSize + scenario.size[p]])

\* The queue stays locked for too long.
TxTimeout ==
    /\ bp_exitFlag' = TRUE
    /\ TxUnlock
    /\ UNCHANGED <<bp_isActive, threw, txq>>

attempt_add_payload(p) ==
    /\ pc["transmitter"] = "visit" /\ p \in todo /\ \A o \in todo : p <= o
    /\ \/ txq[p].locked /\ TxTimeout
       \/ ~ txq[p].locked /\ ~ txq[p].has_data /\ GoOn(p, beacon) /\ UNCHANGED txq
       \/ ~ txq[p].locked /\ txq[p].has_data /\ txq[p].items = <<>> /\ TxThrow /\ UNCHANGED txq
       \/ /\ ~ txq[p].locked /\ txq[p].items # <<>> /\ ~ Room(p)
          /\ TxThrow /\ txq' = [txq EXCEPT ![p] = TakenInVain(p)]
       \/ /\ ~ txq[p].locked /\ txq[p].items # <<>> /\ Room(p)
          /\ serialize_payload(p) /\ txq' = [txq EXCEPT ![p] = Taken(p)]
    /\ UNCHANGED <<clientProtocols, killed, sent, rxVars, areas, ind, clientVars, shutdowns,
                   runVars, socketVars>>

SentNow(p) == {x \in 1 .. Len(beacon.payloads) : beacon.payloads[x][1] = p}

generate_beacon ==
    /\ pc["transmitter"] = "visit" /\ todo = {}
    /\ sent' = [p \in Protocol |-> IF SentNow(p) = {} THEN sent[p]
                                   ELSE beacon.payloads[CHOOSE x \in SentNow(p) : TRUE][2]]
    /\ TxUnlock
    /\ UNCHANGED <<flagVars, clientProtocols, threw, killed, rxVars, areas, queueVars,
                   clientVars, shutdowns, runVars, socketVars>>

(***************************************************************************)
(* Receiver.                                                               *)
(***************************************************************************)
RxLoop == Loop("receiver", "listen") /\ UNCHANGED socketVars

RxKeeps == UNCHANGED <<bp_isActive, clientProtocols, todo, killed, beacon, sent, areas, txq,
                       clientVars, shutdowns, runVars, socketVars>>

\* next_packet, and process_received_payload up to its loop.
RxPacket ==
    /\ pc["receiver"] = "listen"
    /\ received < scenario.beacons /\ received' = received + 1
    /\ \E f \in scenario.packets :
        \/ /\ bp_isActive /\ f.header = "good" /\ f.length <= f.data
           /\ packet' = f
           /\ Goto("receiver", "payload") /\ UNCHANGED bp_exitFlag
        \/ /\ bp_isActive /\ f.header = "good" /\ f.length > f.data
           /\ bp_exitFlag' = TRUE
           /\ Goto("receiver", "loop") /\ UNCHANGED packet
        \/ /\ ~ bp_isActive \/ f.header # "good"
           /\ Goto("receiver", "loop") /\ UNCHANGED <<bp_exitFlag, packet>>
    /\ parsed' = 0
    /\ UNCHANGED <<mutex, threw, ind>> /\ RxKeeps

\* Bytes of the beacon that n payloads take.
SizeOf(payloads) ==
    LET upto[n \in 0 .. Len(payloads)] ==
          IF n = 0 THEN 0 ELSE upto[n - 1] + PayloadHeaderSize + payloads[n].length
    IN  upto[Len(payloads)]

CurrentPayload == packet.payloads[parsed + 1]

\* The header of the beacon gives the length, and the payloads must fit.
HasPayload ==
    /\ parsed < Len(packet.payloads)
    /\ SizeOf(SubSeq(packet.payloads, 1, parsed + 1)) <= packet.length

RxDone ==
    /\ pc["receiver"] = "payload" /\ ~ HasPayload
    /\ packet' = NoPacket /\ parsed' = 0
    /\ Goto("receiver", "loop")
    /\ UNCHANGED <<bp_exitFlag, received, mutex, threw, ind>> /\ RxKeeps

\* The current payload is dealt with, and the queue for it has become q.
Deliver(p, q) ==
    /\ ind' = [ind EXCEPT ![p] = q]
    /\ parsed' = parsed + 1
    /\ mutex' = NoThread
    /\ Goto("receiver", "payload")
    /\ UNCHANGED <<bp_exitFlag, threw>>

\* An exception passes the unlock: it ends the thread, with the mutex held, and the daemon.
\* The queue has its payloads as before, and its own lock is released.
RxThrow(p) ==
    /\ ind' = [ind EXCEPT ![p] = TimedOut(@)]
    /\ threw' = threw \cup {"receiver"}
    /\ bp_exitFlag' = TRUE
    /\ mutex' = "receiver"
    /\ Goto("receiver", "ended")
    /\ UNCHANGED parsed

\* The handler of the queue cannot copy a payload without bytes.
CopyThrows == CurrentPayload.length = 0

PushIndication(p) == IF CopyThrows THEN RxThrow(p) ELSE Deliver(p, Push(ind[p], received))

\* deliver_payload, under the mutex: a payload for an unknown protocol is skipped, so is one
\* for a queue that stays locked, one for a queue with data waits for a short time.
RxPayload ==
    /\ pc["receiver"] = "payload" /\ HasPayload
    /\ mutex = NoThread
    /\ LET p == CurrentPayload.protocolId
       IN  \/ /\ p \in clientProtocols => ind[p].locked
              /\ parsed' = parsed + 1
              /\ UNCHANGED <<bp_exitFlag, pc, mutex, threw, ind>>
           \/ /\ p \in clientProtocols /\ ~ ind[p].locked /\ MayPush(ind[p])
              /\ PushIndication(p)
           \/ /\ p \in clientProtocols /\ ~ ind[p].locked /\ MustWait(ind[p])
              /\ ind' = [ind EXCEPT ![p] = Waiting(@)]
              /\ mutex' = "receiver"
              /\ Goto("receiver", "deliver")
              /\ UNCHANGED <<bp_exitFlag, threw, parsed>>
    /\ UNCHANGED <<packet, received>> /\ RxKeeps

\* The end of the wait: the queue has been emptied, it has been too long, or neither.  The
\* thread needs the lock of the queue again, for as long as it takes, but does not look at
\* the queue again; one without a free buffer throws.
RxDelivered ==
    /\ pc["receiver"] = "deliver"
    /\ LET p == CurrentPayload.protocolId
       IN  /\ ~ ind[p].locked
           /\ \/ ind[p].pusher = "woken" /\ PushIndication(p)
              \/ Startled(ind[p]) /\ Len(ind[p].items) = MaxQueueLength /\ RxThrow(p)
              \/ Startled(ind[p]) /\ Len(ind[p].items) < MaxQueueLength /\ PushIndication(p)
              \/ TimesOut(ind[p]) /\ Deliver(p, TimedOut(ind[p]))
    /\ UNCHANGED <<packet, received>> /\ RxKeeps

(***************************************************************************)
(* Payload management: it empties the queues of an inactive daemon, or of  *)
(* one that ends.  The flags are looked at for every queue, in the order   *)
(* of the protocols, so they may have changed after some of them.  Nothing *)
(* else changes under the mutex, and resetting one queue is independent of *)
(* what clients do to the others: one step.                                *)
(***************************************************************************)
PayloadLoop == Loop("payload", "lock") /\ UNCHANGED socketVars

PayloadKeeps == UNCHANGED <<flagVars, clientProtocols, todo, threw, killed, beacon, sent, rxVars,
                            areas, ind, clientVars, shutdowns, runVars, socketVars>>

Discards == ~ bp_isActive \/ bp_exitFlag

ResetAll(ps) == txq' = [p \in Protocol |-> IF p \in ps THEN Reset(txq[p]) ELSE txq[p]]

From(n) == {p \in clientProtocols : p >= n}

handle_payload_from_client ==
    /\ pc["payload"] = "lock" /\ mutex = NoThread
    /\ \/ \E n \in Protocol : /\ Discards /\ \A p \in From(n) : ~ txq[p].locked
                             /\ ResetAll(From(n))
       \/ UNCHANGED txq
    /\ Goto("payload", "loop")
    /\ UNCHANGED mutex /\ PayloadKeeps

\* To reset a queue the thread waits for its lock for as long as it takes.
PayloadBlocks ==
    /\ pc["payload"] = "lock" /\ mutex = NoThread
    /\ Discards
    /\ \E n \in Protocol : \E p \in From(n) :
        txq[p].locked /\ ResetAll({o \in From(n) : o < p})
    /\ mutex' = "payload"
    /\ Goto("payload", "blocked")
    /\ PayloadKeeps

(***************************************************************************)
(* Command thread.                                                         *)
(***************************************************************************)
CommandKeeps == UNCHANGED <<todo, threw, beacon, sent, rxVars, clientVars, runVars>>

\* The test of the loop; close_owner at its end.  A data socket left open by the last
\* round ends the daemon.
CommandLoop ==
    /\ pc["command"] = "loop"
    /\ \/ bp_exitFlag /\ Goto("command", "ended") /\ close_owner /\ UNCHANGED flagVars
       \/ /\ ~ bp_exitFlag /\ SocketInUse
          /\ bp_exitFlag' = TRUE
          /\ UNCHANGED <<bp_isActive, pc, socketVars>>
       \/ ~ bp_exitFlag /\ Goto("command", "read") /\ accept /\ UNCHANGED flagVars
    /\ UNCHANGED <<mutex, killed, clientProtocols, areas, queueVars, shutdowns>> /\ CommandKeeps

\* The client has gone without a request: nothing has been read, and nothing is closed.
ReadNothing ==
    /\ pc["command"] = "read" /\ HasEnd
    /\ Goto("command", "loop")
    /\ UNCHANGED <<flagVars, mutex, killed, clientProtocols, areas, queueVars, shutdowns,
                   socketVars>>
    /\ CommandKeeps

TheRequest == conns[data_socket].request

\* The status with which a registration is answered.
RegisterStatus(p) ==
    IF p \in clientProtocols THEN "PROTOCOL_ALREADY_REGISTERED"
    ELSE IF \/ scenario.size[p] = 0
            \/ scenario.size[p] + HeaderSize + PayloadHeaderSize > MaxBeaconSize
         THEN "ILLEGAL_MAX_PAYLOAD_SIZE"
    ELSE IF /\ scenario.mode[p] \in {"QUEUE_DROPTAIL", "QUEUE_DROPHEAD"}
            /\ scenario.entries[p] = 0
         THEN "ILLEGAL_DROPPING_QUEUE_SIZE"
    ELSE "OK"

\* A protocol has to be registered for these.
KnownStatus(p) == IF p \in clientProtocols THEN "OK" ELSE "UNKNOWN_PROTOCOL"

Status(r) ==
    IF r.s_type = "RegisterProtocol" THEN RegisterStatus(r.protocolId)
    ELSE IF "protocolId" \in DOMAIN r THEN KnownStatus(r.protocolId) ELSE "OK"

NeedsMutex(r) == "protocolId" \in DOMAIN r \/ r.s_type = "ListRegisteredProtocols"

\* The name of the shared memory area is taken, or the queue would be too long: an
\* exception that nothing catches.
RegisterThrows(r) ==
    /\ r.s_type = "RegisterProtocol" /\ RegisterStatus(r.protocolId) = "OK"
    /\ r.protocolId \in areas \/ scenario.entries[r.protocolId] > MaxQueueLength

\* The handler waits for the lock of a queue for as long as it takes.
Blocks(r) ==
    /\ r.s_type \in {"ClearBuffer", "QueryNumberBufferedPayloads"} /\ Status(r) = "OK"
    /\ txq[r.protocolId].locked

RegisterProtocol(p) ==
    /\ clientProtocols' = clientProtocols \cup {p}
    /\ areas' = areas \cup {p}
    /\ txq' = [txq EXCEPT ![p] = EmptyQueue]
    /\ ind' = [ind EXCEPT ![p] = EmptyQueue]
    /\ UNCHANGED bp_isActive

DeregisterProtocol(p) ==
    /\ clientProtocols' = clientProtocols \ {p}
    /\ areas' = areas \ {p}
    /\ UNCHANGED <<bp_isActive, queueVars>>

ClearBuffer(p) ==
    /\ txq' = [txq EXCEPT ![p] = Reset(@)]
    /\ UNCHANGED <<bp_isActive, clientProtocols, areas, ind>>

SetActive(b) == bp_isActive' = b /\ UNCHANGED <<clientProtocols, areas, queueVars>>

\* What the handler of the request r does to the daemon.
Effect(r) ==
    \/ r.s_type = "RegisterProtocol" /\ Status(r) = "OK" /\ RegisterProtocol(r.protocolId)
    \/ r.s_type = "DeregisterProtocol" /\ Status(r) = "OK" /\ DeregisterProtocol(r.protocolId)
    \/ r.s_type = "ClearBuffer" /\ Status(r) = "OK" /\ ClearBuffer(r.protocolId)
    \/ r.s_type = "Activate" /\ SetActive(TRUE)
    \/ r.s_type = "Deactivate" /\ SetActive(FALSE)
    \/ /\ r.s_type \in {"GetStatistics", "ListRegisteredProtocols", "QueryNumberBufferedPayloads"}
          \/ Status(r) # "OK"
       /\ UNCHANGED <<bp_isActive, clientProtocols, areas, queueVars>>

\* A shutdown is not confirmed.
ShutDown ==
    /\ pc["command"] = "read" /\ HasRequest /\ TheRequest.s_type = "ShutDown"
    /\ bp_exitFlag' = TRUE /\ shutdowns' = TRUE
    /\ Goto("command", "stop")
    /\ UNCHANGED <<bp_isActive, mutex, killed, clientProtocols, areas, queueVars, socketVars>>
    /\ CommandKeeps

HandleRequest ==
    /\ pc["command"] = "read" /\ HasRequest /\ TheRequest.s_type # "ShutDown"
    /\ NeedsMutex(TheRequest) => mutex = NoThread
    /\ ~ RegisterThrows(TheRequest) /\ ~ Blocks(TheRequest)
    /\ Effect(TheRequest)
    /\ IF ClientListens
       THEN /\ send_confirmation([s_type |-> TheRequest.s_type, status |-> Status(TheRequest)])
            /\ Goto("command", "stop") /\ UNCHANGED killed
       ELSE \* SIGPIPE
            OwnerGone /\ pc' = [t \in Thread |-> "ended"] /\ killed' = TRUE
    /\ UNCHANGED <<bp_exitFlag, mutex, shutdowns>> /\ CommandKeeps

\* std::terminate
HandlerThrows ==
    /\ pc["command"] = "read" /\ HasRequest /\ RegisterThrows(TheRequest)
    /\ mutex = NoThread
    /\ OwnerGone /\ pc' = [t \in Thread |-> "ended"] /\ killed' = TRUE
    /\ areas' = areas \cup {TheRequest.protocolId}
    /\ UNCHANGED <<flagVars, mutex, clientProtocols, queueVars, shutdowns>>
    /\ CommandKeeps

HandlerBlocks ==
    /\ pc["command"] = "read" /\ HasRequest /\ Blocks(TheRequest)
    /\ mutex = NoThread /\ mutex' = "command"
    /\ Goto("command", "blocked")
    /\ UNCHANGED <<flagVars, killed, clientProtocols, areas, queueVars, shutdowns, socketVars>>
    /\ CommandKeeps

CommandStop ==
    /\ pc["command"] = "stop"
    /\ stop_read_command
    /\ Goto("command", "loop")
    /\ UNCHANGED <<flagVars, mutex, killed, clientProtocols, areas, queueVars, shutdowns>>
    /\ CommandKeeps

(***************************************************************************)
(* The process is started anew.  Shared memory outlives it, also after an  *)
(* orderly end.                                                            *)
(***************************************************************************)
Restart ==
    /\ ~ Alive
    /\ "daemon_restarts" \in scenario.faults /\ restarts < MaxRestarts
    /\ restarts' = restarts + 1
    /\ bp_isActive' = TRUE /\ bp_exitFlag' = FALSE
    /\ clientProtocols' = {} /\ mutex' = NoThread
    /\ pc' = [t \in Thread |-> "loop"] /\ todo' = {}
    /\ threw' = {} /\ killed' = FALSE
    /\ beacon' = NoBeacon /\ packet' = NoPacket /\ parsed' = 0
    /\ open_owner
    /\ UNCHANGED <<sent, received, areas, queueVars, clientVars, shutdowns, scenario>>

(***************************************************************************)
(* Clients, with the client library.                                       *)
(***************************************************************************)
AppGoto(c, where) == app' = [app EXCEPT ![c] = where]

DaemonKeeps == UNCHANGED <<flagVars, clientProtocols, threadVars, beacon, sent, rxVars, areas,
                           shutdowns, runVars>>

\* The socket is opened, to register, to deregister or to send a request.
Connect(c) ==
    /\ c \in scenario.clients /\ open_client(c)
    /\ \/ app[c] = "off" /\ AppGoto(c, "opening")
       \/ app[c] = "on" /\ c \in scenario.leaving /\ txq[c].pusher = "none" /\ AppGoto(c, "closing")
    /\ UNCHANGED <<queueVars, submitted, got>> /\ DaemonKeeps

ClientRequest(c) ==
    IF c = Operator THEN scenario.requests
    ELSE {[s_type |-> IF app[c] = "opening" THEN "RegisterProtocol" ELSE "DeregisterProtocol",
           protocolId |-> c]}

SendRequest(c) ==
    /\ app[c] \in {"opening", "closing"}
    /\ \E r \in ClientRequest(c) : sendRequest(c, r)
    /\ AppGoto(c, IF app[c] = "opening" THEN "asking" ELSE "leaving")
    /\ UNCHANGED <<queueVars, submitted, got>> /\ DaemonKeeps

\* Mutant of Confirmed: the status is not looked at.
ConfirmedAnyway(c) == Response(c) # NoResponse

Confirmed(c) == Response(c) = [s_type |-> "RegisterProtocol", status |-> "OK"]

\* The socket is at its end: a response, or nothing when the daemon is gone.
ReadResponse(c) ==
    /\ app[c] # "off" /\ ResponseRead(c)
    /\ AppGoto(c, IF c # Operator /\ app[c] = "asking" /\ Confirmed(c) THEN "on" ELSE "off")
    /\ CloseClient(c)
    /\ UNCHANGED <<queueVars, submitted, got>> /\ DaemonKeeps

\* shutdown_bp does not wait for a response.
LeaveAfterShutDown ==
    /\ app[Operator] = "asking" /\ Connected(Operator) # {}
    /\ conns[Connection(Operator)].request.s_type = "ShutDown"
    /\ AppGoto(Operator, "off")
    /\ CloseClient(Operator)
    /\ UNCHANGED <<queueVars, submitted, got>> /\ DaemonKeeps

\* A client waits too long, or its process ends, whatever it is about.
GiveUp(c) ==
    /\ "client_gives_up" \in scenario.faults
    /\ app[c] # "off"
    /\ AppGoto(c, "off")
    /\ IF Connected(c) # {} THEN CloseClient(c) ELSE UNCHANGED socketVars
    /\ txq' = IF c \in Protocol THEN [txq EXCEPT ![c] = TimedOut(@)] ELSE txq
    /\ UNCHANGED <<ind, submitted, got>> /\ DaemonKeeps

\* A client ends in the midst of an operation on one of its queues.
DieInQueue(p) ==
    /\ "client_dies_in_queue" \in scenario.faults
    /\ app[p] \in {"on", "pushing"}
    /\ AppGoto(p, "off")
    /\ \/ txq' = [txq EXCEPT ![p].locked = TRUE, ![p].pusher = "none"] /\ UNCHANGED ind
       \/ /\ ind' = [ind EXCEPT ![p].locked = TRUE]
          /\ txq' = [txq EXCEPT ![p].pusher = "none"]
    /\ UNCHANGED <<submitted, got, socketVars>> /\ DaemonKeeps

ClientKeeps == UNCHANGED <<ind, got, socketVars>> /\ DaemonKeeps

Submit(p, q) ==
    /\ submitted' = [submitted EXCEPT ![p] = @ + 1]
    /\ txq' = [txq EXCEPT ![p] = q]

\* transmit_payload, up to push_wait where there is one.
TransmitPayload(p) ==
    /\ app[p] = "on" /\ submitted[p] < scenario.payloads
    /\ \/ /\ scenario.mode[p] \in {"ONCE", "REPEAT"}
          /\ txq' = [txq EXCEPT ![p] = Reset(@)]
          /\ AppGoto(p, "pushing") /\ UNCHANGED submitted
       \/ /\ scenario.mode[p] = "QUEUE_DROPHEAD"
          /\ Submit(p, PushForce(txq[p], submitted[p] + 1, scenario.entries[p]))
          /\ UNCHANGED app
       \/ /\ scenario.mode[p] = "QUEUE_DROPTAIL" /\ Len(txq[p].items) >= scenario.entries[p]
          /\ Submit(p, txq[p]) /\ UNCHANGED app
       \/ /\ scenario.mode[p] = "QUEUE_DROPTAIL" /\ Len(txq[p].items) < scenario.entries[p]
          /\ AppGoto(p, "pushing") /\ UNCHANGED <<txq, submitted>>
    /\ ClientKeeps

push_wait(p) ==
    /\ app[p] = "pushing"
    /\ \/ /\ MayPush(txq[p]) \/ Startled(txq[p])
          /\ Submit(p, Push(txq[p], submitted[p] + 1))
          /\ AppGoto(p, "on")
       \/ /\ MustWait(txq[p])
          /\ txq' = [txq EXCEPT ![p] = Waiting(@)]
          /\ UNCHANGED <<app, submitted>>
       \/ \* BP_STATUS_INTERNAL_SHARED_MEMORY_ERROR
          /\ TimesOut(txq[p])
          /\ Submit(p, TimedOut(txq[p]))
          /\ AppGoto(p, "on")
    /\ ClientKeeps

\* receive_payload_nowait or receive_payload_wait; to wait changes nothing.
ReceivePayload(p) ==
    /\ app[p] \in {"on", "pushing"}
    /\ ind[p].items # <<>>
    /\ got' = [got EXCEPT ![p] = Head(ind[p].items)]
    /\ ind' = [ind EXCEPT ![p] = Pop(@)]
    /\ UNCHANGED <<txq, app, submitted, socketVars>> /\ DaemonKeeps

(***************************************************************************)
(* The specification.                                                      *)
(***************************************************************************)
Transmitter == TxLoop \/ TxLock \/ (\E p \in Protocol : attempt_add_payload(p)) \/ generate_beacon
Receiver == RxLoop \/ RxPacket \/ RxPayload \/ RxDelivered \/ RxDone
PayloadManagement == PayloadLoop \/ handle_payload_from_client \/ PayloadBlocks
Command == CommandLoop \/ ReadNothing \/ ShutDown \/ HandleRequest \/ HandlerThrows
           \/ HandlerBlocks \/ CommandStop

ClientStep(c) == SendRequest(c) \/ ReadResponse(c)
Daemon == Transmitter \/ Receiver \/ PayloadManagement \/ Command

Next ==
    \/ Daemon \/ Restart
    \/ \E c \in Client : Connect(c) \/ ClientStep(c) \/ GiveUp(c)
    \/ LeaveAfterShutDown
    \/ \E p \in Protocol : TransmitPayload(p) \/ push_wait(p) \/ ReceivePayload(p) \/ DieInQueue(p)

Spec == Init /\ [][Next]_vars

\* A thread that asks for the mutex gets it in the end; clients go on with what they do.
FairSpec ==
    /\ Spec
    /\ SF_vars(Transmitter) /\ SF_vars(Receiver) /\ SF_vars(PayloadManagement) /\ SF_vars(Command)
    /\ \A c \in Client : WF_vars(ClientStep(c))

(***************************************************************************)
(* Properties.                                                             *)
(***************************************************************************)
Queue == [items : Seq(0 .. MaxPayloads + MaxPackets), has_data : BOOLEAN,
          pusher : {"none", "waiting", "woken"}, locked : BOOLEAN]

TypeOK ==
    /\ SocketTypeOK
    /\ bp_isActive \in BOOLEAN /\ bp_exitFlag \in BOOLEAN /\ killed \in BOOLEAN
    /\ clientProtocols \subseteq Protocol /\ areas \subseteq Protocol
    /\ mutex \in Thread \cup {NoThread}
    /\ pc \in [Thread -> {"loop", "lock", "visit", "listen", "payload", "deliver", "read", "stop",
                          "blocked", "ended"}]
    /\ todo \subseteq clientProtocols /\ threw \subseteq Thread
    /\ beacon.used \in 0 .. MaxBeaconSize
    /\ \A p \in Protocol : txq[p] \in Queue /\ ind[p] \in Queue
    /\ app \in [Client -> {"off", "opening", "asking", "on", "pushing", "closing", "leaving"}]
    /\ parsed \in 0 .. Len(packet.payloads)

\* Used the way the daemon can stand: queues only, never reset, with payloads that fit into
\* one beacon together, clients that wait for every answer, neighbours that send no payload
\* without bytes (no client of this code does), and waits that end with a reason.
Clean(s) ==
    /\ s.faults = {}
    /\ \A p \in Protocol : /\ s.mode[p] \in {"QUEUE_DROPTAIL", "QUEUE_DROPHEAD"}
                           /\ s.entries[p] \in 1 .. MaxQueueLength
    /\ LET upto[p \in 0 .. Cardinality(Protocol)] ==
             IF p = 0 THEN HeaderSize ELSE upto[p - 1] + PayloadHeaderSize + s.size[p]
       IN  upto[Cardinality(Protocol)] <= MaxBeaconSize
    /\ \A r \in s.requests : r.s_type \notin {"Deactivate", "ClearBuffer"}
    /\ \A f \in s.packets :
        f.length <= f.data /\ \A i \in 1 .. Len(f.payloads) : f.payloads[i].length # 0

\* Used like that, the daemon ends when it is asked to and for no other reason: no
\* signal, no connection left over, and no exception in a thread before its end, however
\* registrations, payloads and beacons interleave.
CleanDaemonLives ==
    Clean(scenario) => ~ killed /\ (bp_exitFlag \/ threw # {} => shutdowns)

\* A client that believes to be registered is: a registration or deregistration it has
\* given up on, and that the daemon comes to later, never undoes a newer one.
RegisteredIsServed ==
    \A p \in Protocol : app[p] \in {"on", "pushing", "closing"} /\ restarts = 0
                        => p \in clientProtocols \cap areas

\* A payload is sent at most once and never after a newer one (with REPEAT, again and
\* again until there is a newer one), and received ones are taken in the order received.
PayloadsInOrder ==
    [][\A p \in Protocol :
        /\ sent'[p] # sent[p] => sent'[p] > sent[p]
        /\ p \in {beacon.payloads[i][1] : i \in 1 .. Len(beacon.payloads)}
             /\ generate_beacon /\ scenario.mode[p] # "REPEAT" => sent'[p] # sent[p]
        /\ got'[p] # got[p] => got'[p] > got[p]]_vars

InBeacon(p) == {beacon.payloads[i][2] : i \in SentNow(p)}
Queued(p) == {txq[p].items[i] : i \in 1 .. Len(txq[p].items)}
NewestIn(p) == submitted[p] \in {sent[p]} \cup InBeacon(p) \cup Queued(p)

\* With a queue that drops its head the newest payload is never the one that is lost.
NewestKept ==
    [][\A p \in Protocol :
        /\ Clean(scenario) /\ scenario.mode[p] = "QUEUE_DROPHEAD" /\ p \in clientProtocols
        /\ NewestIn(p) \/ submitted'[p] # submitted[p]
        => NewestIn(p)' \/ shutdowns']_vars

\* Unless a client has ended within a queue operation, or an exception has ended the thread
\* that holds it, the mutex always comes back: also from a receiver that waits for a client.
MutexComesBack ==
    "client_dies_in_queue" \notin scenario.faults =>
        (mutex # NoThread) ~> (mutex \in {NoThread} \cup threw \/ killed)

\* A shutdown ends the threads of a daemon used cleanly, but for the receiver: it looks at
\* the flag when it gets a beacon, and when the payload management has emptied a queue
\* that the transmitter looks at once more, the mutex it wants does not come back.
ShutsDown ==
    Clean(scenario) => shutdowns ~> \A t \in Thread \ {"receiver"} : pc[t] = "ended"

=============================================================================

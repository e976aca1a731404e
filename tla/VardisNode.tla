------------------------------ MODULE VardisNode ------------------------------
(***************************************************************************)
(* The Vardis daemon of one node: the receiver, transmitter, scrubbing and *)
(* RTDB management threads and the commands that activate, deactivate and  *)
(* shut it down, all working on one protocol data record under the mutex   *)
(* of the variable store.  The network and the local applications are the  *)
(* environment: any payload of the set Payloads may arrive at any time, any *)
(* request of the sets below may be made at any time.                      *)
(***************************************************************************)
EXTENDS VardisProtocolData, FiniteSets

CONSTANTS
    Me,                 \* ownNodeIdentifier
    MaxPayloadSize,     \* vardis_maxPayloadSize
    LockIndividually,   \* lockingForIndividualContainers
    BatchSize,          \* batch_size of the scrubber, 50
    InitialEntry,       \* any Entry: the content of unused store slots
    Payloads,           \* the payloads that can arrive
    CreateRequests,     \* the RTDB-Create requests the applications can make
    UpdateRequests,     \* the RTDB-Update requests, [varId, value]
    DeleteRequests,     \* the RTDB-Delete requests, [varId]
    Threads,            \* the threads that run, all four in the daemon
    MaxTime,            \* bound on the clock
    MaxInputs           \* bound on the payloads, requests and commands

Container == {c \in [type : ICType, recs : Seq(AnyRecord)] : c.recs \in Seq(Record(c.type)) \ {<<>>}}

ASSUME NodeAssumption ==
    /\ IsFiniteSet(VarId)
    /\ Me \in NodeId
    /\ MaxPayloadSize \in Nat
    /\ LockIndividually \in BOOLEAN
    /\ BatchSize \in Nat \ {0}
    /\ InitialEntry \in Entry
    /\ Payloads \subseteq Seq(Container) \ {<<>>}
    /\ CreateRequests \subseteq CreateRequest
    /\ UpdateRequests \subseteq [varId : VarId, value : Value]
    /\ DeleteRequests \subseteq [varId : VarId]
    /\ MaxTime \in Nat /\ MaxInputs \in Nat

EndIt == -1      \* active_variables.end()

NoTodo == [k \in ICType |-> <<>>]

VARIABLES
    pd,         \* the protocol data
    isActive,   \* vardis_isActive
    now,        \* the system clock
    mutex,      \* the thread in a section of the variable store mutex, or "free"
    rx,         \* receiver thread: where it is
    rxPayload,  \* the containers of the received payload not yet extracted
    rxArea,     \* the DisassemblyArea: bytes used and bytes in total
    rxTodo,     \* the extracted records not yet processed, by type
    tx,         \* transmitter thread: where it is
    txPhase,    \* the container it is at, an index of TxOrder
    txLeft,     \* records still to be added to the open container
    txUsed,     \* bytes used in the AssemblyArea
    txPayload,  \* the containers written to it
    scrub,      \* scrubbing thread: its iterator and counters
    mgmt,       \* RTDB management thread: the client request queue it serves
    exitFlag,   \* vardis_exitFlag
    faults,     \* the threads that met an exception or undefined behaviour
    inputs      \* number of payloads, requests and commands so far

rxVars == <<rx, rxPayload, rxArea, rxTodo>>
txVars == <<tx, txPhase, txLeft, txUsed, txPayload>>

vars == <<pd, isActive, now, mutex, rxVars, txVars, scrub, mgmt, exitFlag, faults,
          inputs>>

Init ==
    /\ pd = [used |-> {}, db |-> [v \in VarId |-> InitialEntry], active |-> {},
             q |-> [k \in ICType |-> <<>>]]
    /\ isActive = TRUE
    /\ now = 0
    /\ mutex = "free"
    /\ rx = "idle" /\ rxPayload = <<>> /\ rxArea = [used |-> 0, total |-> 0]
    /\ rxTodo = NoTodo
    /\ tx = "idle" /\ txPhase = 1 /\ txLeft = 0 /\ txUsed = 0 /\ txPayload = <<>>
    /\ scrub = [pc |-> "idle", curr |-> 0, it |-> EndIt, num |-> 0, i |-> 0]
    /\ mgmt = "idle"
    /\ exitFlag = FALSE
    /\ faults = {}
    /\ inputs = 0

\* An input of the environment, of which there are at most MaxInputs.
Input == inputs < MaxInputs /\ inputs' = inputs + 1

(***************************************************************************)
(* Receiver thread.                                                        *)
(***************************************************************************)
\* The loop of the thread checks exitFlag and isActive, then blocks in
\* receive_payload_wait, in which isActive is not looked at again.
RxCheckActive ==
    /\ "rx" \in Threads /\ rx = "idle" /\ ~ exitFlag /\ isActive
    /\ rx' = "waiting"
    /\ UNCHANGED <<pd, isActive, now, mutex, rxPayload, rxArea, rxTodo, txVars, scrub,
                   mgmt, exitFlag, faults, inputs>>

RxReceive(p) ==
    /\ rx = "waiting" /\ ~ exitFlag
    /\ Input
    /\ rx' = "parse"
    /\ rxPayload' = p
    /\ rxArea' = [used |-> 0, total |-> PayloadBytes(p)]
    /\ UNCHANGED <<pd, isActive, now, mutex, rxTodo, txVars, scrub, mgmt, exitFlag, faults>>

\* receive_payload_wait gives up when exitFlag is set.
RxGiveUp ==
    /\ rx = "waiting" /\ exitFlag
    /\ rx' = "idle"
    /\ UNCHANGED <<pd, isActive, now, mutex, rxPayload, rxArea, rxTodo, txVars, scrub,
                   mgmt, exitFlag, faults, inputs>>

\* The loop over the containers runs while area.used () < area.available (), the
\* latter being the number of bytes that remain.  Containers are left then, too.
MoreContainers == rxPayload # <<>> /\ rxArea.used < rxArea.total - rxArea.used

RxExtract ==
    /\ rx = "parse" /\ MoreContainers
    /\ LET c == Head(rxPayload)
       IN  /\ rxArea' = [rxArea EXCEPT !.used = @ + ContainerBytes(c)]
           /\ rxTodo' = [rxTodo EXCEPT ![c.type] = @ \o c.recs]
    /\ rxPayload' = Tail(rxPayload)
    /\ UNCHANGED <<pd, isActive, now, mutex, rx, txVars, scrub, mgmt, exitFlag, faults, inputs>>

\* What the loop has left behind goes with the area.
RxParsed ==
    /\ rx = "parse" /\ ~ MoreContainers
    /\ rx' = "process"
    /\ rxPayload' = <<>>
    /\ rxArea' = [used |-> 0, total |-> 0]
    /\ UNCHANGED <<pd, isActive, now, mutex, rxTodo, txVars, scrub, mgmt, exitFlag, faults, inputs>>

\* The type of the next record to process.
CurrentType ==
    RxOrder[CHOOSE i \in DOMAIN RxOrder :
              /\ rxTodo[RxOrder[i]] # <<>>
              /\ \A j \in 1 .. i - 1 : rxTodo[RxOrder[j]] = <<>>]

\* Processes one record inside the critical section, which spans the records of
\* one type or all records.
RxRecord ==
    /\ rx = "process" /\ rxTodo # NoTodo /\ mutex \in {"free", "rx"}
    /\ LET k == CurrentType
           todo == [rxTodo EXCEPT ![k] = Tail(@)]
       IN  /\ pd' = ProcessRecord(pd, k, Head(rxTodo[k]), Me, now)
           /\ mutex' = IF todo = NoTodo \/ (LockIndividually /\ todo[k] = <<>>)
                       THEN "free" ELSE "rx"
           /\ rxTodo' = todo
    /\ UNCHANGED <<isActive, now, rx, rxPayload, rxArea, txVars, scrub, mgmt, exitFlag, faults, inputs>>

\* The thread waits for the next payload at once when BP has more of them.
RxDone ==
    /\ rx = "process" /\ rxTodo = NoTodo
    /\ rx' \in {"idle", "waiting"}
    /\ UNCHANGED <<pd, isActive, now, mutex, rxPayload, rxArea, rxTodo, txVars, scrub,
                   mgmt, exitFlag, faults, inputs>>

(***************************************************************************)
(* Transmitter thread.                                                     *)
(***************************************************************************)
TxCheckActive ==
    /\ "tx" \in Threads /\ tx = "idle" /\ ~ exitFlag /\ isActive
    /\ tx' = "waiting"
    /\ UNCHANGED <<pd, isActive, now, mutex, rxVars, txPhase, txLeft, txUsed, txPayload,
                   scrub, mgmt, exitFlag, faults, inputs>>

\* BP has taken the previous payload: push_wait calls the handler.
TxPush ==
    /\ tx = "waiting"
    /\ tx' = "build" /\ txPhase' = 1 /\ txLeft' = 0 /\ txUsed' = 0 /\ txPayload' = <<>>
    /\ UNCHANGED <<pd, isActive, now, mutex, rxVars, scrub, mgmt, exitFlag, faults, inputs>>

\* BP has not taken it for SHM timeout: the daemon exits.
TxTimeout ==
    /\ tx = "waiting"
    /\ tx' = "idle"
    /\ exitFlag' = TRUE
    /\ UNCHANGED <<pd, isActive, now, mutex, rxVars, txPhase, txLeft, txUsed, txPayload,
                   scrub, mgmt, faults, inputs>>

TxRemaining == MaxPayloadSize - txUsed

AfterContainer == IF LockIndividually \/ txPhase = Len(TxOrder) THEN "free" ELSE "tx"

TxAtContainer ==
    /\ tx = "build" /\ txLeft = 0 /\ txPhase <= Len(TxOrder)
    /\ mutex \in {"free", "tx"}

TxSkipContainer ==
    /\ TxAtContainer
    /\ ~ CanAddContainer(pd, TxOrder[txPhase], TxRemaining)
    /\ txPhase' = txPhase + 1
    /\ mutex' = AfterContainer
    /\ UNCHANGED <<pd, isActive, now, rxVars, tx, txLeft, txUsed, txPayload, scrub, mgmt,
                   exitFlag, faults, inputs>>

\* Writes the header with the number of records that follow.
TxOpen ==
    /\ TxAtContainer
    /\ LET k == TxOrder[txPhase]
       IN  /\ CanAddContainer(pd, k, TxRemaining)
           /\ txLeft' = numberFittingRecords(pd, k, TxRemaining)
           /\ txPayload' = Append(txPayload, [type |-> k, recs |-> <<>>])
    /\ txUsed' = txUsed + HeaderSize
    /\ UNCHANGED <<pd, isActive, now, rxVars, tx, txPhase, scrub, mgmt, exitFlag, faults,
                   inputs>>

\* Mutant of TxOpenContainer: the records are counted in a section of their own.
TxOpenContainerUnlocked == TxOpen /\ mutex' = "free"

TxOpenContainer == TxOpen /\ mutex' = "tx"

TxAddRecord ==
    /\ tx = "build" /\ txLeft > 0
    /\ LET k == TxOrder[txPhase]
           r == RecordFor(pd, k, Head(pd.q[k]))
       IN  /\ ~ SendThrows(pd, k)
           /\ pd' = SendRecord(pd, k)
           /\ txUsed' = txUsed + RecordSize(k, r)
           /\ txPayload' = [txPayload EXCEPT ![Len(txPayload)].recs = Append(@, r)]
    /\ txLeft' = txLeft - 1
    /\ txPhase' = IF txLeft = 1 THEN txPhase + 1 ELSE txPhase
    /\ mutex' = IF txLeft = 1 THEN AfterContainer ELSE mutex
    /\ UNCHANGED <<isActive, now, rxVars, tx, scrub, mgmt, exitFlag, faults, inputs>>

\* An exception inside makeICType...: the record is popped, the payload dropped.
TxThrow ==
    /\ tx = "build" /\ txLeft > 0
    /\ LET k == TxOrder[txPhase]
       IN  /\ SendThrows(pd, k)
           /\ pd' = AfterThrow(pd, k)
    /\ tx' = "idle" /\ txLeft' = 0 /\ txPayload' = <<>>
    /\ mutex' = "free"
    /\ exitFlag' = TRUE
    /\ faults' = faults \cup {"tx"}
    /\ UNCHANGED <<isActive, now, rxVars, txPhase, txUsed, scrub, mgmt, inputs>>

\* The payload, if it has a container, is in the queue to BP.
TxSend ==
    /\ tx = "build" /\ txPhase > Len(TxOrder)
    /\ tx' = "idle"
    /\ UNCHANGED <<pd, isActive, now, mutex, rxVars, txPhase, txLeft, txUsed, txPayload,
                   scrub, mgmt, exitFlag, faults, inputs>>

(***************************************************************************)
(* Scrubbing thread.  begin () and size () of active_variables are read    *)
(* one after the other and outside of the critical section.                *)
(***************************************************************************)
Least(S) == IF S = {} THEN EndIt ELSE CHOOSE v \in S : \A w \in S : v <= w

\* The thread sleeps for scrubbingPeriodMS between two rounds; how long that is is
\* left open, a round may start at any time.
ScrubWake ==
    /\ "scrub" \in Threads /\ scrub.pc = "idle" /\ ~ exitFlag /\ isActive
    /\ scrub' = [scrub EXCEPT !.pc = "begin", !.curr = now]
    /\ UNCHANGED <<pd, isActive, now, mutex, rxVars, txVars, mgmt, exitFlag, faults, inputs>>

ScrubBegin ==
    /\ scrub.pc = "begin"
    /\ scrub' = [scrub EXCEPT !.pc = "size", !.it = Least(pd.active)]
    /\ UNCHANGED <<pd, isActive, now, mutex, rxVars, txVars, mgmt, exitFlag, faults, inputs>>

\* Mutant of ScrubSize: numvars is one too small.
ScrubSizeShort ==
    /\ scrub.pc = "size"
    /\ scrub' = [scrub EXCEPT !.pc = IF Cardinality(pd.active) < 2 THEN "idle" ELSE "loop",
                              !.num = Cardinality(pd.active) - 1]
    /\ UNCHANGED <<pd, isActive, now, mutex, rxVars, txVars, mgmt, exitFlag, faults, inputs>>

ScrubSize ==
    /\ scrub.pc = "size"
    /\ scrub' = [scrub EXCEPT !.pc = IF pd.active = {} THEN "idle" ELSE "loop",
                              !.num = Cardinality(pd.active)]
    /\ UNCHANGED <<pd, isActive, now, mutex, rxVars, txVars, mgmt, exitFlag, faults, inputs>>

ScrubLock ==
    /\ scrub.pc = "loop" /\ mutex = "free"
    /\ mutex' = "scrub"
    /\ scrub' = [scrub EXCEPT !.pc = "batch", !.i = 0]
    /\ UNCHANGED <<pd, isActive, now, rxVars, txVars, mgmt, exitFlag, faults, inputs>>

\* Mutant of Expired: an unsigned difference, large when tStamp is the later one.
ExpiredUnsigned(e) == /\ e.timeout > 0
                      /\ scrub.curr < e.tStamp \/ scrub.curr - e.tStamp > e.timeout

\* milliseconds_passed_since returns 0 when tStamp is later than curr.
Expired(e) == e.timeout > 0 /\ scrub.curr - e.tStamp > e.timeout

\* One turn of the inner loop.  numvars is decremented in it, so a section ends
\* after about half of the variables that are left, or after BatchSize of them.
VisitVariable(v, next) ==
    LET goOn == scrub.i + 1 < scrub.num - 1 /\ scrub.i + 1 < BatchSize
        expires == ~ pd.db[v].isDeleted /\ Expired(pd.db[v])
    IN  /\ pd' = IF expires THEN MarkDeleted(pd, v) ELSE pd
        /\ scrub' = [scrub EXCEPT !.num = @ - 1, !.i = @ + 1, !.it = next,
                                  !.pc = IF goOn THEN "batch"
                                         ELSE IF scrub.num = 1 THEN "idle" ELSE "loop"]
        /\ mutex' = IF goOn THEN "scrub" ELSE "free"
        /\ UNCHANGED exitFlag

ScrubVisit ==
    /\ scrub.pc = "batch" /\ scrub.it # EndIt
    /\ VisitVariable(scrub.it, Least({w \in pd.active : w > scrub.it}))
    /\ UNCHANGED <<isActive, now, rxVars, txVars, mgmt, faults, inputs>>

\* numvars says that there is another variable, but the iterator is at the end.
\* Dereferencing and incrementing it is undefined behaviour: the identifier read
\* is an arbitrary one, with which get_db_entry_ref throws unless it is in use.
ScrubPastEnd ==
    /\ scrub.pc = "batch" /\ scrub.it = EndIt
    /\ \/ \E v \in pd.used, next \in pd.active \cup {EndIt} : VisitVariable(v, next)
       \/ /\ scrub' = [scrub EXCEPT !.pc = "idle"]
          /\ mutex' = "free"
          /\ exitFlag' = TRUE
          /\ UNCHANGED pd
    /\ faults' = faults \cup {"scrub"}
    /\ UNCHANGED <<isActive, now, rxVars, txVars, mgmt, inputs>>

(***************************************************************************)
(* RTDB management thread: serves the three request queues of a client, one *)
(* critical section for the requests found in each of them.  isActive is   *)
(* checked before the first and by every handler.                          *)
(***************************************************************************)
MgmtStart ==
    /\ "mgmt" \in Threads /\ mgmt = "idle" /\ ~ exitFlag /\ isActive
    /\ mgmt' = "create"
    /\ UNCHANGED <<pd, isActive, now, mutex, rxVars, txVars, scrub, exitFlag, faults, inputs>>

MgmtLock ==
    /\ mgmt # "idle" /\ mutex = "free"
    /\ mutex' = "mgmt"
    /\ UNCHANGED <<pd, isActive, now, rxVars, txVars, scrub, mgmt, exitFlag, faults, inputs>>

MgmtNextQueue ==
    /\ mutex = "mgmt"
    /\ mutex' = "free"
    /\ mgmt' = CASE mgmt = "create" -> "delete"
                 [] mgmt = "delete" -> "update"
                 [] mgmt = "update" -> "idle"
    /\ UNCHANGED <<pd, isActive, now, rxVars, txVars, scrub, exitFlag, faults, inputs>>

\* An exception ends the thread, and the critical section with it.
RtdbCreate(r) ==
    /\ mutex = "mgmt" /\ mgmt = "create"
    /\ Input
    /\ LET ok == RtdbCreateStatus(pd, r, Me, isActive) = "OK"
           throws == ok /\ RtdbCreateThrows(r)
       IN  /\ pd' = IF ok THEN handle_rtdb_create_request(pd, r, Me, now) ELSE pd
           /\ mgmt' = IF throws THEN "idle" ELSE mgmt
           /\ mutex' = IF throws THEN "free" ELSE mutex
           /\ exitFlag' = (exitFlag \/ throws)
           /\ faults' = IF throws THEN faults \cup {"rtdb"} ELSE faults
    /\ UNCHANGED <<isActive, now, rxVars, txVars, scrub>>

RtdbUpdate(r) ==
    /\ mutex = "mgmt" /\ mgmt = "update"
    /\ Input
    /\ pd' = IF RtdbUpdateStatus(pd, r.varId, r.value, Me, isActive) = "OK"
             THEN handle_rtdb_update_request(pd, r.varId, r.value, now) ELSE pd
    /\ UNCHANGED <<isActive, now, mutex, rxVars, txVars, scrub, mgmt, exitFlag, faults>>

RtdbDelete(r) ==
    /\ mutex = "mgmt" /\ mgmt = "delete"
    /\ Input
    /\ pd' = IF RtdbModifyStatus(pd, r.varId, Me, isActive) = "OK"
             THEN handle_rtdb_delete_request(pd, r.varId) ELSE pd
    /\ UNCHANGED <<isActive, now, mutex, rxVars, txVars, scrub, mgmt, exitFlag, faults>>

(***************************************************************************)
(* Management commands, the clock, and the daemon that has exited.         *)
(***************************************************************************)
Activate ==
    /\ ~ exitFlag /\ ~ isActive
    /\ Input
    /\ isActive' = TRUE
    /\ UNCHANGED <<pd, now, mutex, rxVars, txVars, scrub, mgmt, exitFlag, faults>>

Deactivate ==
    /\ ~ exitFlag /\ isActive
    /\ Input
    /\ isActive' = FALSE
    /\ UNCHANGED <<pd, now, mutex, rxVars, txVars, scrub, mgmt, exitFlag, faults>>

Shutdown ==
    /\ ~ exitFlag
    /\ Input
    /\ exitFlag' = TRUE
    /\ UNCHANGED <<pd, isActive, now, mutex, rxVars, txVars, scrub, mgmt, faults>>

Tick ==
    /\ now < MaxTime
    /\ now' = now + 1
    /\ UNCHANGED <<pd, isActive, mutex, rxVars, txVars, scrub, mgmt, exitFlag, faults, inputs>>

\* The threads of an inactive daemon sleep, its receiver perhaps still blocked on
\* BP; those of a daemon with exitFlag end.
Quiet ==
    /\ tx = "idle" /\ scrub.pc = "idle" /\ mgmt = "idle"
    /\ IF exitFlag THEN rx = "idle" ELSE ~ isActive /\ rx \in {"idle", "waiting"}
    /\ UNCHANGED vars

RxInternal == RxCheckActive \/ RxGiveUp \/ RxExtract \/ RxParsed \/ RxRecord \/ RxDone
TxInternal == \/ TxCheckActive \/ TxPush \/ TxSkipContainer \/ TxOpenContainer
              \/ TxAddRecord \/ TxThrow \/ TxSend
ScrubStep  == \/ ScrubWake \/ ScrubBegin \/ ScrubSize \/ ScrubLock \/ ScrubVisit
              \/ ScrubPastEnd
MgmtStep   == \/ MgmtStart \/ MgmtLock \/ MgmtNextQueue
              \/ \E r \in CreateRequests : RtdbCreate(r)
              \/ \E r \in UpdateRequests : RtdbUpdate(r)
              \/ \E r \in DeleteRequests : RtdbDelete(r)

Next ==
    \/ RxInternal
    \/ \E p \in Payloads : RxReceive(p)
    \/ TxInternal \/ TxTimeout
    \/ ScrubStep
    \/ MgmtStep
    \/ Activate \/ Deactivate \/ Shutdown
    \/ Tick
    \/ Quiet

Spec == Init /\ [][Next]_vars

(***************************************************************************)
(* Each thread runs again and again, and each gets the mutex in the end:   *)
(* the others hold it for one bounded section and sleep for milliseconds   *)
(* before they ask for it again.  The requests found in a queue are        *)
(* finitely many, so the management thread leaves it.  Of the environment  *)
(* only one thing is assumed, that BP goes on taking payloads (TxPush).    *)
(***************************************************************************)
Fairness == /\ SF_vars(RxInternal) /\ SF_vars(TxInternal) /\ SF_vars(ScrubStep)
            /\ WF_vars(mutex = "mgmt" /\ MgmtNextQueue)

FairSpec == Spec /\ Fairness

(***************************************************************************)
(* Properties.                                                             *)
(***************************************************************************)
RxDataTypeOK ==
    /\ rxPayload \in Seq(Container)
    /\ rxTodo \in [ICType -> Seq(AnyRecord)]
    /\ \A k \in ICType : rxTodo[k] \in Seq(Record(k))

ScrubTypeOK ==
    scrub \in [pc : {"idle", "begin", "size", "loop", "batch"}, curr : Nat,
               it : VarId \cup {EndIt}, num : Nat, i : Nat]

\* Every variable keeps to its range; in the code the ranges are those of the
\* fields of DBEntry, of the queues and of the local variables of the threads.
TypeOK ==
    /\ WellTyped(pd)
    /\ isActive \in BOOLEAN /\ exitFlag \in BOOLEAN
    /\ now \in Nat /\ inputs \in Nat
    /\ mutex \in {"free", "rx", "tx", "scrub", "mgmt"}
    /\ rx \in {"idle", "waiting", "parse", "process"}
    /\ RxDataTypeOK
    /\ tx \in {"idle", "waiting", "build"}
    /\ txPhase \in 1 .. Len(TxOrder) + 1 /\ txLeft \in Nat
    /\ ScrubTypeOK
    /\ mgmt \in {"idle", "create", "delete", "update"}
    /\ faults \in SUBSET {"tx", "rtdb", "scrub"}

\* The six queues, the counters and the flags of the entries agree at all times,
\* whatever records, requests and scrubbing rounds interleave, until an exception
\* has cut a create request short.
QueueConsistency == "rtdb" \notin faults => Consistent(pd)

\* The checks of the makeICType... functions, which throw and end the daemon when
\* a queued identifier has no entry or no repetitions left, never fail.
TxNeverThrows == "rtdb" \notin faults => "tx" \notin faults

\* A payload under construction keeps to the size limit, the bytes accounted for
\* are the bytes written, no type has two containers and no container has two
\* records of one variable or, once it is complete, none.
PayloadWellFormed ==
    LET p == txPayload
        VarIds(c) == {c.recs[i].varId : i \in DOMAIN c.recs}
    IN  tx = "build" =>
          /\ txUsed <= MaxPayloadSize /\ txUsed = PayloadBytes(p)
          /\ \A i, j \in DOMAIN p : p[i].type = p[j].type => i = j
          /\ \A i \in DOMAIN p : /\ Cardinality(VarIds(p[i])) = Len(p[i].recs)
                                 /\ Len(p[i].recs) <= MaxRecords
                                 /\ p[i].recs = <<>> => i = Len(p) /\ txLeft > 0

\* The number of records announced in the header of an open container can still
\* be taken from the front of its queue: nobody else gets at the queue meanwhile.
HeaderHonoured ==
    tx = "build" /\ txLeft > 0 =>
        /\ mutex = "tx" /\ txPhase <= Len(TxOrder)
        /\ txLeft <= Len(pd.q[TxOrder[txPhase]])

\* What comes in from the network never deletes or changes a variable of this
\* node: it only restarts repetitions, unless another node has created a newer
\* variable of the same identifier.
OwnVariableProtected ==
    [][rx = "process" => \A v \in pd.used :
         LET old == pd.db[v]
             new == pd'.db[v]
         IN  rxTodo' # rxTodo /\ old.prodId = Me =>
               \/ new = [old EXCEPT !.count = new.count]
               \/ new.prodId # Me /\ new.creationTime > old.creationTime
      ]_vars

\* While the scrubber is in its section, a variable is deleted only when nothing
\* has refreshed its value for longer than its timeout.
ScrubSound ==
    [][scrub.pc = "batch" => \A v \in pd.used :
         pd'.db[v].isDeleted /\ ~ pd.db[v].isDeleted =>
           pd.db[v].timeout > 0 /\ now - pd.db[v].tStamp > pd.db[v].timeout]_vars

\* The entries of the database, seen as variables that come and go: the node
\* implements the specification of the real-time database.
Database ==
    [v \in VarId |->
       [state    |-> IF v \notin pd.used THEN "unknown"
                     ELSE IF pd.db[v].isDeleted THEN "deleted" ELSE "live",
        producer |-> pd.db[v].prodId,
        created  |-> pd.db[v].creationTime,
        seqno    |-> pd.db[v].seqno]]

Abstract == INSTANCE RealTimeDatabase WITH rtdb <- Database

ImplementsDatabase == Abstract!Spec

\* A daemon that stays active gets rid of everything it wants to send once: all
\* queues but the cyclic one of the summaries are empty again and again, provided
\* any record fits into a payload.
Drained ==
    []<>(\/ ~ isActive \/ exitFlag
         \/ \A k \in ICType \ {"summary"} : pd.q[k] = <<>>)

\* A variable of an active daemon whose timeout has passed does not stay: it is
\* deleted in the end, if it is not refreshed.
ScrubComplete ==
    \A v \in VarId :
        LET overdue == /\ isActive /\ ~ exitFlag /\ v \in pd.used
                       /\ ~ pd.db[v].isDeleted /\ pd.db[v].timeout > 0
                       /\ now - pd.db[v].tStamp > pd.db[v].timeout
        IN  overdue ~> ~ overdue

=============================================================================

---------------------------- MODULE VardisClient ----------------------------
(***************************************************************************)
(* The applications of a Vardis node, with the Vardis client library, and  *)
(* the two management threads of the Vardis daemon that serve them.  An    *)
(* application registers over the command socket, under the name of a      *)
(* segment of shared memory in which the daemon then makes three pairs of  *)
(* queues, for requests and confirms to create, delete and update          *)
(* variables.  The application reads variables without the daemon, in the  *)
(* variable store, which is shared memory under a mutex too.  The other    *)
(* threads of the daemon appear as what they do to the store.              *)
(***************************************************************************)
EXTENDS CommandSocket, VariableStore, FiniteSets, FiniteSetsExt

CONSTANTS
    Name,              \* names of segments 1 .. n, in the order of std::map
    Scenarios,         \* what the applications do, see Scenario
    MaxRequests,       \* bound on the requests for variables and on reads
    MaxSegments,       \* bound on the segments made
    MaxLives           \* bound on the runs of an application

Service == <<"Create", "Delete", "Update">>
Services == {Service[i] : i \in 1 .. Len(Service)}
Fault == {"client_gives_up", "client_dies_in_queue", "client_dies_reading", "timeouts"}

\* A request to the daemon that is no (de)registration.
Request ==
    {[s_type |-> t] : t \in {"Shutdown", "Activate", "Deactivate", "GetStatistics",
                             "DescribeDatabase"}}
        \cup [s_type : {"DescribeVariable"}, varId : VarId]

\* A call of the library about a variable: description and value given, of size 0 perhaps.
Call == [op : Services \cup {"Read"}, varId : VarId, descr : {0, 1}, size : {0, 1}]

ASSUME ClientAssumption ==
    /\ IsFiniteSet(VarId) /\ VarId = 1 .. Cardinality(VarId)
    /\ IsFiniteSet(Name) /\ Name = 1 .. Cardinality(Name)
    /\ Client \subseteq Nat /\ MaxRequests \in Nat
    /\ \A s \in Scenarios :
        /\ s.clients \subseteq Client /\ s.leaving \subseteq s.clients
        /\ s.name \in [Client -> Name \cup {0}]    \* 0: do_register is FALSE
        /\ s.delete_old \subseteq s.clients
        /\ s.calls \in [Client -> SUBSET Call]
        /\ s.requests \in [Client -> SUBSET Request]
        /\ s.faults \subseteq Fault /\ s.lives \in 1 .. MaxLives
        /\ s.number \in 0 .. MaxRequests
        /\ s.others \subseteq VarId               \* the variables other threads touch

VARIABLES
    vardis_isActive, vardis_exitFlag,
    variable_store,        \* the store
    store_mutex,           \* the thread or the client that holds its mutex
    clientApplications,    \* the segment of each name, or none
    ca_mutex,              \* the same of clientApplications_mutex
    pc,                    \* where the two threads are
    todo,                  \* the names the rtdb thread has yet to visit
    service,               \* the queue it is at: the first name of todo, this service
    shm,                   \* the segment that can be opened under each name, or none
    segments,              \* the segments made, of which some are gone but still in use
    app,                   \* the applications
    issued,                \* calls made about variables, which are numbered
    carried,               \* how often each has been carried out
    scenario               \* constant

daemonVars == <<vardis_isActive, vardis_exitFlag, clientApplications, shm>>
threadVars == <<pc, ca_mutex, todo, service>>
storeVars  == <<variable_store, store_mutex>>
callVars   == <<issued, carried>>
vars == <<daemonVars, threadVars, storeVars, segments, app, callVars, scenario, socketVars>>

NoOne == -1
TheDaemon == -2        \* a thread of it, as the one that holds a mutex
NoSegment == 0
NoCall == [op |-> "none", varId |-> 0, descr |-> 0, size |-> 0, id |-> 0]
NoAnswer == [id |-> 0, status |-> "none"]
EmptyQueue == [items |-> <<>>, has_data |-> FALSE, locked |-> FALSE]

\* VardisShmControlSegment, made for a registration of c.  In a segment that is disturbed
\* a call has timed out, or it has been opened by another application.
NewSegment(c) ==
    [maker |-> c, disturbed |-> FALSE,
     req |-> [s \in Services |-> EmptyQueue], conf |-> [s \in Services |-> EmptyQueue]]

NewApp(lives) ==
    [pc |-> "off", registered |-> FALSE, segment |-> NoSegment, call |-> NoCall,
     value |-> Empty, answer |-> NoAnswer, lives |-> lives]

Init ==
    /\ SocketInit
    /\ vardis_isActive = TRUE /\ vardis_exitFlag = FALSE
    /\ scenario \in Scenarios
    /\ variable_store = initialize_array_store /\ store_mutex = NoOne
    /\ clientApplications = [n \in Name |-> NoSegment]
    /\ shm = [n \in Name |-> NoSegment]
    /\ ca_mutex = NoOne
    /\ pc = [t \in {"rtdb", "command"} |-> "loop"]
    /\ todo = {} /\ service = 1
    /\ segments = <<>>
    /\ app = [c \in Client |-> NewApp(0)]
    /\ issued = 0 /\ carried = [i \in 1 .. MaxRequests |-> 0]

Goto(t, where) == pc' = [pc EXCEPT ![t] = where]

(***************************************************************************)
(* Queues in shared memory.                                                *)
(***************************************************************************)
Push(q, x) == [q EXCEPT !.items = Append(@, x), !.has_data = TRUE]

\* Mutant of Pop: the flag stays set.
PopOnly(q) == [q EXCEPT !.items = Tail(@)]

Pop(q) == [q EXCEPT !.items = Tail(@), !.has_data = Tail(q.items) # <<>>]

\* The flag is left as it is.
Reset(q) == [q EXCEPT !.items = <<>>]

\* The applications that wait at a queue of the segment s go on.
Wake(a, s, svc, from, to) ==
    [c \in Client |-> IF a[c].segment = s /\ a[c].call.op = svc /\ a[c].pc = from
                      THEN [a[c] EXCEPT !.pc = to] ELSE a[c]]

(***************************************************************************)
(* The rtdb thread: handle_client_shared_memory for each client under the  *)
(* mutex of the clients, and in it each queue under that of the store.     *)
(***************************************************************************)
Registered == {n \in Name : clientApplications[n] # NoSegment}

TheName == Min(todo)
TheSegment == clientApplications[TheName]
TheService == Service[service]
TheRequests == segments[TheSegment].req[TheService]
TheConfirms == segments[TheSegment].conf[TheService]

RtdbKeeps == UNCHANGED <<vardis_isActive, clientApplications, shm, issued, scenario, socketVars>>

RtdbLoop ==
    /\ pc["rtdb"] = "loop"
    /\ \/ /\ vardis_exitFlag /\ Goto("rtdb", "ended")
          /\ UNCHANGED <<ca_mutex, todo>>
       \/ /\ ~ vardis_exitFlag /\ ca_mutex = NoOne
          /\ ca_mutex' = TheDaemon /\ todo' = Registered
          /\ Goto("rtdb", "client")
    /\ service' = 1
    /\ UNCHANGED <<vardis_exitFlag, storeVars, segments, app, carried>> /\ RtdbKeeps

\* An inactive daemon leaves the queues alone, and so does one that ends.
RtdbClient ==
    /\ pc["rtdb"] = "client"
    /\ \/ todo = {} /\ ca_mutex' = NoOne /\ Goto("rtdb", "loop") /\ UNCHANGED todo
       \/ /\ todo # {} /\ (~ vardis_isActive \/ vardis_exitFlag)
          /\ todo' = todo \ {TheName} /\ UNCHANGED <<ca_mutex, pc>>
       \/ /\ todo # {} /\ vardis_isActive /\ ~ vardis_exitFlag
          /\ Goto("rtdb", "queue") /\ UNCHANGED <<ca_mutex, todo>>
    /\ service' = 1
    /\ UNCHANGED <<vardis_exitFlag, storeVars, segments, app, carried>> /\ RtdbKeeps

NextQueue ==
    IF service = Len(Service)
    THEN todo' = todo \ {TheName} /\ service' = 1 /\ Goto("rtdb", "client")
    ELSE service' = service + 1 /\ Goto("rtdb", "queue") /\ UNCHANGED todo

\* handle_request_queue, up to the first request: the store is locked, and popall_nowait
\* gets the lock of the queue in time or ends the daemon.
RtdbQueue ==
    /\ pc["rtdb"] = "queue" /\ store_mutex = NoOne
    /\ \/ /\ TheRequests.locked
          /\ vardis_exitFlag' = TRUE /\ NextQueue /\ UNCHANGED store_mutex
       \/ /\ ~ TheRequests.locked /\ ~ TheRequests.has_data
          /\ NextQueue /\ UNCHANGED <<vardis_exitFlag, store_mutex>>
       \/ /\ ~ TheRequests.locked /\ TheRequests.has_data
          /\ store_mutex' = TheDaemon /\ Goto("rtdb", "drain")
          /\ UNCHANGED <<vardis_exitFlag, todo, service>>
    /\ UNCHANGED <<ca_mutex, variable_store, segments, app, carried>> /\ RtdbKeeps

\* The status a request is answered with, by the handlers of VardisProtocolData.  A
\* producer replaces its own variable, dead or alive.
HandlerStatus(r) ==
    LET entry  == get_db_entry(variable_store, r.varId)
        exists == identifier_is_allocated(variable_store, r.varId)
    IN  IF ~ vardis_isActive THEN "INACTIVE"
        ELSE IF r.op = "Create"
             THEN IF exists /\ ~ entry.own THEN "VARIABLE_EXISTS"
                  ELSE IF r.size = 0 THEN "EMPTY_VALUE" ELSE "OK"
        ELSE IF ~ exists THEN "VARIABLE_DOES_NOT_EXIST"
        ELSE IF ~ entry.own THEN "NOT_PRODUCER"
        ELSE IF entry.isDeleted THEN "VARIABLE_IS_DELETED"
        ELSE IF r.op = "Update" /\ r.size = 0 THEN "EMPTY_VALUE"
        ELSE "OK"

ValueOf(r) == [size |-> r.size, data |-> <<r.varId, r.id>>]

\* The store when the entry of a new variable has been made.
WithEntry(r) ==
    set_db_entry(IF identifier_is_allocated(variable_store, r.varId) THEN variable_store
                 ELSE allocate_identifier(variable_store, r.varId),
                 r.varId, [own |-> TRUE, tStamp |-> r.id, isDeleted |-> FALSE])

DescriptionOf(r) == [size |-> r.descr, data |-> r.varId]

\* A description of size 0 passes the checks, and the store does not take it.
HandlerThrows(r) ==
    /\ r.op = "Create" /\ HandlerStatus(r) = "OK"
    /\ UpdateThrows(WithEntry(r), r.varId, DescriptionOf(r))

\* The store when the handler of the request r has returned.
HandlerEffect(r) ==
    LET entry == get_db_entry(variable_store, r.varId)
    IN  IF HandlerStatus(r) # "OK" THEN variable_store
        ELSE IF r.op = "Create"
             THEN update_value(update_description(WithEntry(r), r.varId, DescriptionOf(r)),
                               r.varId, ValueOf(r))
        ELSE IF r.op = "Update"
             THEN update_value(set_db_entry(variable_store, r.varId, [entry EXCEPT !.tStamp = r.id]),
                               r.varId, ValueOf(r))
        ELSE set_db_entry(variable_store, r.varId, [entry EXCEPT !.isDeleted = TRUE])

WithRequests(q) == [segments EXCEPT ![TheSegment].req[TheService] = q]

\* The handler of popall_nowait: it carries a request out and confirms it.  Whether the
\* confirm has gone into its queue or not, the request is gone.
RtdbRequest ==
    /\ pc["rtdb"] = "drain" /\ TheRequests.items # <<>>
    /\ LET r == Head(TheRequests.items)
           rest == WithRequests([TheRequests EXCEPT !.items = Tail(@)])
           confirm == [id |-> r.id, status |-> HandlerStatus(r)]
       IN  /\ ~ HandlerThrows(r)
           /\ variable_store' = HandlerEffect(r)
           /\ carried' = [carried EXCEPT ![r.id] = @ + 1]
           /\ IF TheConfirms.locked
              THEN segments' = rest /\ vardis_exitFlag' = TRUE /\ UNCHANGED app
              ELSE /\ segments' = [rest EXCEPT ![TheSegment].conf[TheService] = Push(@, confirm)]
                   /\ app' = Wake(app, TheSegment, TheService, "pop_waiting", "pop_woken")
                   /\ UNCHANGED vardis_exitFlag
    /\ UNCHANGED <<threadVars, store_mutex>> /\ RtdbKeeps

\* The exception ends the thread, which gives up all it has locked.
RtdbThrows ==
    /\ pc["rtdb"] = "drain" /\ TheRequests.items # <<>>
    /\ LET r == Head(TheRequests.items)
       IN  /\ HandlerThrows(r)
           /\ variable_store' = WithEntry(r)
           /\ segments' = WithRequests([TheRequests EXCEPT !.items = Tail(@)])
    /\ vardis_exitFlag' = TRUE
    /\ store_mutex' = NoOne /\ ca_mutex' = NoOne
    /\ Goto("rtdb", "ended")
    /\ UNCHANGED <<todo, service, app, carried>> /\ RtdbKeeps

RtdbDrained ==
    /\ pc["rtdb"] = "drain" /\ TheRequests.items = <<>>
    /\ segments' = WithRequests([TheRequests EXCEPT !.has_data = FALSE])
    /\ app' = Wake(app, TheSegment, TheService, "push_waiting", "push_woken")
    /\ store_mutex' = NoOne
    /\ NextQueue
    /\ UNCHANGED <<vardis_exitFlag, ca_mutex, variable_store, carried>> /\ RtdbKeeps

(***************************************************************************)
(* What the other threads do to the store: the receiver creates a variable *)
(* of another node, maybe in the place of one of this node, and marks it   *)
(* as deleted; the scrubber marks any variable.                            *)
(***************************************************************************)
OthersKeep == UNCHANGED <<daemonVars, threadVars, store_mutex, segments, app, callVars, scenario,
                          socketVars>>

CreateOther(v) ==
    /\ store_mutex = NoOne /\ ~ vardis_exitFlag
    /\ LET st == IF identifier_is_allocated(variable_store, v) THEN variable_store
                 ELSE allocate_identifier(variable_store, v)
       IN  variable_store' = update_value(set_db_entry(st, v, NoEntry), v,
                                          [size |-> 1, data |-> <<v, NoEntry.tStamp>>])
    /\ OthersKeep

MarkDeleted(v) ==
    /\ store_mutex = NoOne /\ ~ vardis_exitFlag
    /\ identifier_is_allocated(variable_store, v) /\ ~ get_db_entry(variable_store, v).isDeleted
    /\ variable_store' = set_db_entry(variable_store, v,
                                      [get_db_entry(variable_store, v) EXCEPT !.isDeleted = TRUE])
    /\ OthersKeep

(***************************************************************************)
(* The command thread.                                                     *)
(***************************************************************************)
CommandKeeps == UNCHANGED <<ca_mutex, todo, service, storeVars, app, callVars, scenario>>

\* The test of the loop; close_owner at its end.  A data socket left open by the last
\* round ends the daemon.
CommandLoop ==
    /\ pc["command"] = "loop"
    /\ \/ vardis_exitFlag /\ Goto("command", "ended") /\ close_owner /\ UNCHANGED vardis_exitFlag
       \/ /\ ~ vardis_exitFlag /\ SocketInUse
          /\ vardis_exitFlag' = TRUE /\ UNCHANGED <<pc, socketVars>>
       \/ ~ vardis_exitFlag /\ Goto("command", "read") /\ accept /\ UNCHANGED vardis_exitFlag
    /\ UNCHANGED <<vardis_isActive, clientApplications, shm, segments>> /\ CommandKeeps

\* The application has gone without a request: nothing is closed.
ReadNothing ==
    /\ pc["command"] = "read" /\ HasEnd
    /\ Goto("command", "loop")
    /\ UNCHANGED <<daemonVars, segments, socketVars>> /\ CommandKeeps

TheRequest == conns[data_socket].request
TheSender == conns[data_socket].client

\* The name is the only thing an application is known by.
Status(r) ==
    IF r.s_type = "Register" /\ r.name \in Registered /\ ~ r.delete_old
    THEN "APPLICATION_ALREADY_REGISTERED"
    ELSE IF r.s_type = "Deregister" /\ r.name \notin Registered THEN "UNKNOWN_APPLICATION"
    ELSE IF r.s_type = "DescribeVariable" /\ ~ identifier_is_allocated(variable_store, r.varId)
         THEN "VARIABLE_DOES_NOT_EXIST"
    ELSE "OK"

\* The segment of an old registration goes with it; those who have it open keep it.
Register(r) ==
    /\ segments' = Append(segments, NewSegment(TheSender))
    /\ clientApplications' = [clientApplications EXCEPT ![r.name] = Len(segments')]
    /\ shm' = [shm EXCEPT ![r.name] = Len(segments')]
    /\ UNCHANGED vardis_isActive

Deregister(r) ==
    /\ clientApplications' = [clientApplications EXCEPT ![r.name] = NoSegment]
    /\ shm' = [shm EXCEPT ![r.name] = NoSegment]
    /\ UNCHANGED <<segments, vardis_isActive>>

SetActive(b) == vardis_isActive' = b /\ UNCHANGED <<clientApplications, shm, segments>>

Effect(r) ==
    \/ r.s_type = "Register" /\ Status(r) = "OK" /\ Len(segments) < MaxSegments /\ Register(r)
    \/ r.s_type = "Deregister" /\ Status(r) = "OK" /\ Deregister(r)
    \/ r.s_type = "Activate" /\ SetActive(TRUE)
    \/ r.s_type = "Deactivate" /\ SetActive(FALSE)
    \/ /\ r.s_type \in {"GetStatistics", "DescribeDatabase", "DescribeVariable"} \/ Status(r) # "OK"
       /\ UNCHANGED <<vardis_isActive, clientApplications, shm, segments>>

\* The mutex a request is handled under.
MayHandle(r) ==
    /\ r.s_type \in {"Register", "Deregister"} => ca_mutex = NoOne
    /\ r.s_type \in {"GetStatistics", "DescribeDatabase", "DescribeVariable"} => store_mutex = NoOne

\* The variables a confirm describes.
Described(r) ==
    IF r.s_type = "DescribeDatabase" THEN InUse(variable_store)
    ELSE IF r.s_type = "DescribeVariable" THEN InUse(variable_store) \cap {r.varId} ELSE {}

Confirm(r) ==
    [s_type |-> r.s_type, status |-> Status(r),
     described |-> {read_description(variable_store, v) : v \in Described(r)}]

\* A confirm nobody listens to any more is SIGPIPE: the process ends.
HandleRequest ==
    /\ pc["command"] = "read" /\ HasRequest /\ TheRequest.s_type # "Shutdown"
    /\ MayHandle(TheRequest)
    /\ Effect(TheRequest)
    /\ IF ClientListens
       THEN /\ send_confirmation(Confirm(TheRequest))
            /\ Goto("command", "stop") /\ UNCHANGED vardis_exitFlag
       ELSE OwnerGone /\ pc' = [t \in DOMAIN pc |-> "killed"] /\ vardis_exitFlag' = TRUE
    /\ CommandKeeps

Shutdown ==
    /\ pc["command"] = "read" /\ HasRequest /\ TheRequest.s_type = "Shutdown"
    /\ vardis_exitFlag' = TRUE
    /\ Goto("command", "stop")
    /\ UNCHANGED <<vardis_isActive, clientApplications, shm, segments, socketVars>>
    /\ CommandKeeps

CommandStop ==
    /\ pc["command"] = "stop"
    /\ stop_read_command
    /\ Goto("command", "loop")
    /\ UNCHANGED <<daemonVars, segments>> /\ CommandKeeps

\* All threads have ended: the segments are removed, and stay where they are in use.
DaemonExit ==
    /\ \A t \in DOMAIN pc : pc[t] = "ended"
    /\ pc' = [t \in DOMAIN pc |-> "gone"]
    /\ clientApplications' = [n \in Name |-> NoSegment]
    /\ shm' = [n \in Name |-> NoSegment]
    /\ OwnerGone
    /\ UNCHANGED <<vardis_isActive, vardis_exitFlag, segments>> /\ CommandKeeps

(***************************************************************************)
(* The applications: VardisClientRuntime, made and destroyed, and calls.   *)
(***************************************************************************)
DaemonKeeps == UNCHANGED <<daemonVars, threadVars, scenario>>
SocketCallKeeps == UNCHANGED <<storeVars, segments, callVars>> /\ DaemonKeeps
QueueCallKeeps == UNCHANGED <<storeVars, callVars, socketVars>> /\ DaemonKeeps

Update(c, record) == app' = [app EXCEPT ![c] = record]
AppGoto(c, where) == Update(c, [app[c] EXCEPT !.pc = where])

Registers(c) == scenario.name[c] \in Name

\* For an application that registers, to register and to deregister; else for a request.
Connect(c) ==
    /\ c \in scenario.clients /\ open_client(c)
    /\ \/ /\ app[c].pc = "off" /\ app[c].lives < scenario.lives
          /\ Update(c, [NewApp(app[c].lives + 1) EXCEPT !.pc = "opening"])
       \/ app[c].pc = "on" /\ c \in scenario.leaving /\ AppGoto(c, "closing")
    /\ SocketCallKeeps

ClientRequest(c) ==
    IF ~ Registers(c) THEN scenario.requests[c]
    ELSE IF app[c].pc = "opening"
         THEN {[s_type |-> "Register", name |-> scenario.name[c],
                delete_old |-> c \in scenario.delete_old]}
    ELSE {[s_type |-> "Deregister", name |-> scenario.name[c]]}

SendRequest(c) ==
    /\ app[c].pc \in {"opening", "closing"}
    /\ \E r \in ClientRequest(c) : sendRequest(c, r)
    /\ AppGoto(c, IF app[c].pc = "opening" THEN "asking" ELSE "leaving")
    /\ SocketCallKeeps

Confirmed(c) == Response(c) # NoResponse /\ Response(c).status = "OK"

\* The socket is at its end: a response, or nothing when the daemon is gone.
ReadResponse(c) ==
    /\ app[c].pc \in {"opening", "closing", "asking", "leaving"} /\ ResponseRead(c)
    /\ IF app[c].pc = "asking" /\ Registers(c) /\ Confirmed(c)
       THEN Update(c, [app[c] EXCEPT !.pc = "attaching", !.registered = TRUE])
       ELSE AppGoto(c, "off")
    /\ CloseClient(c)
    /\ SocketCallKeeps

\* shutdown_vardis does not wait for a response.
LeaveAfterShutdown(c) ==
    /\ app[c].pc = "asking" /\ Connected(c) # {}
    /\ conns[Connection(c)].request.s_type = "Shutdown"
    /\ AppGoto(c, "off")
    /\ CloseClient(c)
    /\ SocketCallKeeps

\* The segment is opened by its name, which may by now be that of another segment, or of
\* none: an exception, after which nothing deregisters.
Attach(c) ==
    /\ app[c].pc = "attaching"
    /\ LET s == shm[scenario.name[c]]
       IN  IF s = NoSegment THEN AppGoto(c, "off") /\ UNCHANGED segments
           ELSE /\ Update(c, [app[c] EXCEPT !.pc = "on", !.segment = s])
                /\ segments' = [segments EXCEPT ![s].disturbed = @ \/ segments[s].maker # c]
    /\ QueueCallKeeps

\* An application waits too long at the socket, or its process ends.
GiveUp(c) ==
    /\ "client_gives_up" \in scenario.faults
    /\ app[c].pc \in {"opening", "asking", "attaching", "on", "pop_waiting"}
    /\ AppGoto(c, "off")
    /\ IF Connected(c) # {} THEN CloseClient(c) ELSE UNCHANGED socketVars
    /\ SocketCallKeeps

TheCall(c) == app[c].call
ConfirmsOf(c) == segments[app[c].segment].conf[TheCall(c).op]
RequestsOf(c) == segments[app[c].segment].req[TheCall(c).op]
WithConfirms(c, q) == [segments EXCEPT ![app[c].segment].conf[TheCall(c).op] = q]

Numbered(call) == [op |-> call.op, varId |-> call.varId, descr |-> call.descr,
                   size |-> call.size, id |-> issued + 1]

\* rtdb_create, rtdb_delete and rtdb_update, up to the reset of the confirm queue.
RtdbCall(c) ==
    /\ app[c].pc = "on" /\ issued < scenario.number
    /\ \E call \in scenario.calls[c] :
        /\ call.op \in Services
        /\ segments' = [segments EXCEPT ![app[c].segment].conf[call.op] = Reset(@)]
        /\ Update(c, [app[c] EXCEPT !.pc = "push", !.call = Numbered(call), !.answer = NoAnswer])
    /\ issued' = issued + 1
    /\ UNCHANGED <<carried, storeVars, socketVars>> /\ DaemonKeeps

\* The daemon has the lock of the queue while it empties it.
Drained(c) ==
    /\ pc["rtdb"] = "drain" /\ TheSegment = app[c].segment /\ TheService = TheCall(c).op

\* push_wait waits, once, while the flag is set.
PushRequest(c) ==
    /\ ~ Drained(c)
    /\ \/ app[c].pc = "push" /\ ~ RequestsOf(c).has_data
       \/ app[c].pc = "push_woken"
    /\ segments' = [segments EXCEPT ![app[c].segment].req[TheCall(c).op] = Push(@, TheCall(c))]
    /\ AppGoto(c, "pop")
    /\ QueueCallKeeps

WaitToPush(c) ==
    /\ app[c].pc = "push" /\ ~ Drained(c) /\ RequestsOf(c).has_data
    /\ AppGoto(c, "push_waiting")
    /\ UNCHANGED segments /\ QueueCallKeeps

Answer(c, answer) == [app[c] EXCEPT !.pc = "on", !.answer = answer]

\* pop_wait looks at the flag only, and throws when there is nothing to take.
PopConfirm(c) ==
    /\ \/ app[c].pc = "pop" /\ ConfirmsOf(c).has_data
       \/ app[c].pc = "pop_woken"
    /\ LET q == ConfirmsOf(c)
       IN  IF q.items = <<>>
           THEN /\ Update(c, Answer(c, [id |-> TheCall(c).id, status |-> "exception"]))
                /\ UNCHANGED segments
           ELSE /\ segments' = WithConfirms(c, Pop(q))
                /\ Update(c, Answer(c, IF Tail(q.items) # <<>>
                                       THEN [id |-> TheCall(c).id, status |-> "INTERNAL_ERROR"]
                                       ELSE Head(q.items)))
    /\ QueueCallKeeps

WaitToPop(c) ==
    /\ app[c].pc = "pop" /\ ~ ConfirmsOf(c).has_data
    /\ AppGoto(c, "pop_waiting")
    /\ UNCHANGED segments /\ QueueCallKeeps

\* One second has passed: VARDIS_STATUS_INTERNAL_SHARED_MEMORY_ERROR.
Timeout(c) ==
    /\ "timeouts" \in scenario.faults
    /\ app[c].pc \in {"push_waiting", "pop_waiting"}
    /\ Update(c, Answer(c, [id |-> TheCall(c).id, status |-> "SHARED_MEMORY_ERROR"]))
    /\ segments' = [segments EXCEPT ![app[c].segment].disturbed = TRUE]
    /\ QueueCallKeeps

\* An application ends within an operation on one of its queues.
DieInQueue(c) ==
    /\ "client_dies_in_queue" \in scenario.faults
    /\ app[c].pc \in {"push", "pop"} /\ ~ Drained(c)
    /\ segments' = IF app[c].pc = "push"
                   THEN [segments EXCEPT ![app[c].segment].req[TheCall(c).op].locked = TRUE]
                   ELSE [segments EXCEPT ![app[c].segment].conf[TheCall(c).op].locked = TRUE]
    /\ AppGoto(c, "off")
    /\ QueueCallKeeps

ReadStatus(v) ==
    IF ~ identifier_is_allocated(variable_store, v) THEN "VARIABLE_DOES_NOT_EXIST"
    ELSE IF get_db_entry(variable_store, v).isDeleted THEN "VARIABLE_IS_DELETED"
    ELSE "OK"

\* rtdb_read, under the mutex of the store: the value is copied first.
ReadValue(c) ==
    /\ app[c].pc = "on" /\ issued < scenario.number /\ store_mutex = NoOne
    /\ \E call \in scenario.calls[c] :
        /\ call.op = "Read"
        /\ Update(c, [app[c] EXCEPT
              !.pc = "reading", !.call = Numbered(call), !.answer = NoAnswer,
              !.value = IF identifier_is_allocated(variable_store, call.varId)
                        THEN read_value(variable_store, call.varId) ELSE Empty])
    /\ store_mutex' = c
    /\ issued' = issued + 1
    /\ UNCHANGED <<variable_store, segments, carried, socketVars>> /\ DaemonKeeps

\* Mutant of Unlock: what is not found is not unlocked either.
UnlockFound(c) ==
    store_mutex' = IF ReadStatus(TheCall(c).varId) = "OK" THEN NoOne ELSE store_mutex

Unlock(c) == store_mutex' = NoOne

\* And then its time stamp.
ReadEntry(c) ==
    /\ app[c].pc = "reading"
    /\ Update(c, Answer(c, [id |-> TheCall(c).id, status |-> ReadStatus(TheCall(c).varId),
                            value |-> app[c].value,
                            tStamp |-> get_db_entry(variable_store, TheCall(c).varId).tStamp]))
    /\ Unlock(c)
    /\ UNCHANGED <<variable_store, segments, callVars, socketVars>> /\ DaemonKeeps

DieReading(c) ==
    /\ "client_dies_reading" \in scenario.faults
    /\ app[c].pc = "reading"
    /\ AppGoto(c, "dead")
    /\ UNCHANGED <<storeVars, segments, callVars, socketVars>> /\ DaemonKeeps

(***************************************************************************)
(* The specification.                                                      *)
(***************************************************************************)
Rtdb == RtdbLoop \/ RtdbClient \/ RtdbQueue \/ RtdbRequest \/ RtdbThrows \/ RtdbDrained
Others == \E v \in scenario.others : CreateOther(v) \/ MarkDeleted(v)
Command == CommandLoop \/ ReadNothing \/ HandleRequest \/ Shutdown \/ CommandStop
Application(c) ==
    \/ Connect(c) \/ SendRequest(c) \/ ReadResponse(c) \/ LeaveAfterShutdown(c) \/ Attach(c)
    \/ GiveUp(c) \/ RtdbCall(c) \/ PushRequest(c) \/ WaitToPush(c) \/ PopConfirm(c)
    \/ WaitToPop(c) \/ Timeout(c) \/ DieInQueue(c) \/ ReadValue(c) \/ ReadEntry(c)
    \/ DieReading(c)

Next == Rtdb \/ Others \/ Command \/ DaemonExit \/ \E c \in Client : Application(c)

Spec == Init /\ [][Next]_vars

\* The two threads run, and an application that has locked the store goes on.
FairSpec ==
    /\ Spec /\ WF_vars(Rtdb) /\ WF_vars(Command)
    /\ \A c \in Client : WF_vars(ReadEntry(c))

(***************************************************************************)
(* Properties.                                                             *)
(***************************************************************************)
\* The applications that have asked for a variable and have the answer of the daemon.
HasStatus(c) ==
    /\ app[c].pc = "on" /\ app[c].answer # NoAnswer /\ TheCall(c).op \in Services
    /\ ~ segments[app[c].segment].disturbed

HasValue(c) == app[c].pc = "on" /\ TheCall(c).op = "Read" /\ app[c].answer.status = "OK"

\* The request with which an entry was written has been cut short by an exception.
CutShort(tStamp) == tStamp \in 1 .. MaxRequests /\ carried[tStamp] = 0

\* What an application is told is about what it has asked.  As long as no call at its
\* segment has timed out, each of its calls gets the confirm of the very request, which has
\* been carried out once, whatever other applications do, register or fail; no request is
\* ever carried out twice; a read gives a value with the time at which it was written, to
\* that variable, until an exception has cut the writing short; and the store has a buffer
\* for every identifier that is not in use
\* (vardisclient_lib_rtdb.cc, vardis_management_rtdb.cc, vardis_store_array.h).
AnswersFit ==
    /\ \A v \in VarId \ InUse(variable_store) : ~ AllocateThrows(variable_store, v)
    /\ \A i \in 1 .. MaxRequests : carried[i] <= 1
    /\ \A c \in Client : HasStatus(c) =>
          /\ app[c].answer.id = TheCall(c).id
          /\ app[c].answer.status \notin {"exception", "INTERNAL_ERROR"}
          /\ carried[TheCall(c).id] = 1
    /\ \A c \in Client : HasValue(c) =>
          \/ app[c].answer.value.data = <<TheCall(c).varId, app[c].answer.tStamp>>
          \/ CutShort(app[c].answer.tStamp)

\* A client whose call waits in the segment of a registration.
Asked(c) ==
    \E n \in Registered, s \in Services :
        LET q == segments[clientApplications[n]].req[s].items
        IN  /\ c = segments[clientApplications[n]].maker
            /\ \E k \in 1 .. Len(q) : q[k].id = TheCall(c).id

\* An application ended while it read the store.
StoreStuck == store_mutex \in Client /\ app[store_mutex].pc = "dead"

\* What a registered application has asked for is carried out, unless the daemon is not
\* active or ends, or an application has ended with the store locked (the polling of
\* management_thread_rtdb; nothing the command thread or readers lock stays locked).
RequestsServed ==
    \A c \in Client : Asked(c) ~> (~ Asked(c) \/ ~ vardis_isActive \/ vardis_exitFlag \/ StoreStuck)

=============================================================================

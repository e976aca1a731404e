# Verification of DCP: Vardis, BP, SRP

TLA+ modules, TLC configurations and TLAPS proofs about the C++ implementation of the drone
coordination protocol stack in `src/dcp-vardis-project/dcpimplementation/src/dcp` (called
`D/` below), about its simulator (`src/dcp-vardis-project/dcpsimulation/src/dcpsim`, `S/`)
and about the earlier implementation with which the published simulations were made
(`src/simulation-code-paper/srp_vardis/src`, `P/`). The modules are translated from that
code. The specification document (`src/dcp-vardis-project/specification/dcp-vardis.md`) is
only used for what the code is claimed to do.

## 1. The system

DCP nodes (drones) exchange beacons by local broadcast. Three daemons run on a node.

* **BP**, the beaconing protocol (`D/bp`), sends a beacon about every beacon period. A
  beacon carries one payload for each registered client protocol; BP hands received payloads
  to the client protocols.
* **Vardis** (`D/vardis`) is a client protocol of BP. It replicates a real-time database of
  variables over several hops: applications create, update, delete and read variables;
  records about them travel in the payloads; each node repeats them a configured number of
  times, summarises what it has and asks for what it lacks.
* **SRP** (`D/srp`) is another client protocol: each node announces its position and speed,
  and keeps a table of its neighbours.

Applications talk to the daemons through client libraries, over shared-memory queues
(`D/common`) and UNIX command sockets.

The simulator runs the protocol data of the Vardis daemon on the nodes of an OMNeT++
network, with modules of its own for everything around them. The published simulations have
an implementation that shares no code with the rest.

### 1.1 Components

| component | state | operations | interacts with |
|---|---|---|---|
| sequence numbers (`D/vardis/vardis_transmissible_types.h`) | one byte, circular | next number, `more_recent_seqno` | database handlers |
| protocol data (`vardis_protocol_data.h/.cc`) | identifiers in use, database entries with three repetition counters, `active_variables`, six queues | six handlers of received records, create / update / delete / read requests, construction of six container types | called by all threads of the Vardis daemon |
| Vardis receiver (`vardis_receiver.cc`) | payload being taken apart, extracted records | wait for a payload, extract containers, process records type by type | BP through a shared-memory queue; protocol data under the mutex |
| Vardis transmitter (`vardis_transmitter.cc`) | payload being assembled | wait until BP takes a payload, add containers, push | BP; protocol data under the mutex |
| Vardis scrubber (`vardis_scrubber.cc`) | an iterator into `active_variables`, counters | delete variables whose timeout has passed, in batches | protocol data under the mutex |
| Vardis RTDB management (`vardis_management_rtdb.cc`) | the queue it serves | serve create, delete and update requests of each client | client libraries through shared memory; protocol data under the mutex |
| Vardis command thread (`vardis_management_command.cc`) | list of clients, `isActive`, exit flag | register, deregister, activate, deactivate, shut down, describe | client libraries through a socket |
| variable store (`vardis_store_array.h`) | fixed arrays of slots, values, descriptions, a process-shared mutex | allocate, deallocate, read and write an entry | protocol data; reading clients |
| record formats (`vardis_transmissible_types.*`, `D/common/area.h`) | assembly and disassembly areas | serialise and deserialise, with bounds checks | receiver, transmitter |
| Vardis client library (`vardisclient_lib*.cc`) | request and confirm queues | request, then wait for the confirm | management threads |
| shared-memory queue (`sharedmem_finite_queue.h`, `fixedmem_ring_buffer.h`) | free and filled buffers, `has_data`, two condition variables | push and pop, waiting, not waiting, forcing, with timeouts; reset | every pair of processes |
| BP daemon (`D/bp/bp_*.cc`) | per client protocol: a queue or a buffer of outgoing payloads, a queue of incoming ones, statistics | generate beacons, take beacons apart, register and deregister client protocols | network socket, clients |
| BP client library (`bpclient_lib*.cc`) | shared-memory segment | register, transmit and receive payloads | BP daemon |
| SRP daemon (`D/srp`) | own safety data, table of neighbours | send own data when it is recent enough, store those of neighbours, scrub | BP, applications |
| SRP store (`D/srp/srp_store*`) | own safety data, the table of neighbours with its buffers, two process-shared mutexes | write, read, insert, remove, find what to scrub | SRP daemon and applications |
| AVL tree (`fixedmem_avl_tree.h`) | nodes in a fixed array | insert, remove, look up | SRP store |
| command sockets (`command_socket.cc`) | a socket | request and confirm with timeouts | daemons and client libraries |
| simulator (`S/vardis`, `S/bp`, `S/applications`) | per node: protocol data, whether a payload is with BP, queues of BP | timers for payloads and beacons, messages between modules, producers | the protocol data of the daemon; a medium |
| published simulations (`P/rtdb`, `P/SRP.cc`, `P/SRPVarDisBeaconing.cc`, `P/applications/BasicApplication.cc`, `src/simulation-code-paper/SwarmStack/src/lbp`) | per node: database, queues of records with the repetitions left, neighbours | create and update, process and assemble beacons | a MAC with a queue; a medium |

Not modelled: configuration and logging, the test applications, the wrappers around Boost
shared-memory segments, the consumers of the simulations, which record what they see, and
two other protocols among the published simulations.

### 1.2 What is hard about it, and what makes it correct

*Protocol data.* Ten operations move a variable between six queues and set three counters.
Correct means: a variable is in the queue of a counted record exactly when its counter is
not zero (the transmitter throws and the daemon ends otherwise), a deleted variable is in no
queue but the one of deletions, live ones are in the queue of summaries, and requests are
only queued for what can be asked for.

*Sequence numbers.* One byte wraps around. Records are lost, duplicated, delayed. Correct
means: an old value never replaces a newer one and a newer one is never refused, within a
window that has to be stated.

*Daemon threads.* Four threads share one mutex, with sections of two different lengths
(`lockingForIndividualContainers`). Things are read outside of a section and used inside
(the scrubber), or checked before the thread blocks (the receiver). Correct means: headers
announce what containers contain, the network cannot touch the variables a node produces, a
variable that is still fresh is not scrubbed and one that is overdue is, every payload is
processed, every burst of repetitions ends.

*Network.* Nodes must end up with the same database when records stop being lost; a node
that restarts, or an identifier that is used again, must not revive old values.

*BP.* Four threads and the clients meet in queues with waits that time out; an exception may
leave a mutex locked; payloads of several clients must fit into one beacon. Correct means:
payloads keep their order, the newest one is not the one dropped where the mode says so, the
mutex comes back, and a daemon whose clients and neighbours behave does not end by itself.

*Client libraries.* An answer may come after the client has given up, an application may end
while it holds a mutex, two may use one name. Correct means: an answer is about the request
it is taken for, and a request is carried out once.

*SRP.* The table is a balanced tree of indexes into an array of buffers, and both are full
at times. Correct means: it is a map of the neighbours that are not silent.

The full list, by source line, is `hazards` in `PROJECT.json`.

## 2. Modules

| module | models |
|---|---|
| `VardisSeqno` | `VarSeqnoT`, `more_recent_seqno` |
| `SeqnoWindow` | one producer and one consumer of one variable, records of bounded age in any order |
| `VarIdQueue` | class `VarIdQueue`: a queue without duplicates |
| `VardisProtocolData` | class `VardisProtocolData`: state, all handlers, RTDB requests, container construction; its consistency |
| `RealTimeDatabase` | abstract specification: what a Vardis entity promises about its variables |
| `VardisNode` | the threads of the Vardis daemon, composed on one protocol data record |
| `MCVardisNode` | values for the constants of `VardisNode` |
| `RingBuffer` | class `FixedMemRingBuffer`, and the sequence one stands for |
| `ShmFiniteQueue` | class `ShmFiniteQueue`, and the processes that use one queue |
| `BoundedFifo` | abstract specification: what such a queue promises |
| `MCShmFiniteQueue` | the ways in which the daemons and the clients use the queues |
| `CommandSocket` | classes `CommandSocket` and `ScopedClientSocket`: connections, and either side closing early |
| `BPNode` | the four threads of the BP daemon, and client protocols with the client library; EXTENDS `CommandSocket` |
| `VariableStore` | class `ArrayVariableStoreBase`: identifiers, buffers and free lists |
| `VardisClient` | applications with the Vardis client library, and the command and RTDB management threads that serve them; EXTENDS `CommandSocket`, `VariableStore` |
| `AvlTree` | class `FixedMemAVLTree` |
| `NeighbourMap` | abstract specification: what a table of neighbours promises |
| `SrpNode` | the three threads of the SRP daemon and an application around the SRP store; EXTENDS `AvlTree` |
| `VardisNetwork` | Vardis, BP and producers of the simulator on several nodes; EXTENDS `VardisProtocolData` |
| `RTDB` | class `RTDB` of the published simulations |
| `SwarmNetwork` | their networks; EXTENDS `RTDB` |
| `MCBPNode`, `MCVardisClient`, `MCSrpNode`, `MCVardisNetwork`, `MCSwarmNetwork` | the scenarios the five modules above are checked with |
| `VardisProtocolData_proofs`, `VardisNode_proofs`, `VardisNetwork_proofs`, `ShmFiniteQueue_proofs`, `BPNode_proofs`, `VardisClient_proofs`, `SrpNode_proofs`, `SwarmNetwork_proofs` | theorems about the modules they are named for, `VardisProtocolData_proofs` also about `VarIdQueue`, `VardisNetwork_proofs` also about `VardisSeqno` and `SeqnoWindow` |

### 2.1 Correspondence with the code

`VardisProtocolData` has operators, not actions: `process_var_update(s, r, me, now)` is the
protocol data after the method of that name has been called on the protocol data `s`. A
record `s` has the identifiers in use (`used`), the entries (`db`, `DBEntry` together with
the value and the length of the description that the store keeps separately),
`active_variables` (`active`) and the six queues (`q`, one for each container type). The
three counters are the function `count`. Values are abstract, with a length; descriptions
are represented by their length; bytes are counted (`RecordSize`, `ContainerSize`) and never
written.

`VardisNode` has one action for each step of a thread between two points at which another
thread can interfere.

* The receiver: `RxCheckActive` (the loop tests `exitFlag` and `isActive`), `RxReceive` /
  `RxGiveUp` (`receive_payload_wait` returns), `RxExtract` (a turn of the extraction loop,
  with its byte accounting), `RxParsed`, `RxRecord` (one record inside the section),
  `RxDone`.
* The transmitter: `TxCheckActive`, `TxPush` / `TxTimeout` (BP has taken the previous
  payload, or has not), `TxSkipContainer`, `TxOpenContainer` (a `makeICType...` function
  returns early, or writes its header), `TxAddRecord` (a turn of its serialisation loop),
  `TxThrow` (its exception), `TxSend`.
* The scrubber: `ScrubWake`, `ScrubBegin`, `ScrubSize` (reads of clock, `begin ()` and `size
  ()`, each a step, outside of the section), `ScrubLock`, `ScrubVisit` (a turn of the inner
  loop), `ScrubPastEnd` (the iterator is at the end: undefined behaviour, modelled by an
  arbitrary identifier and by the exception that reading the entry of an identifier not in
  use gives).
* RTDB management: `MgmtStart`, `MgmtLock`, `RtdbCreate`, `RtdbDelete`, `RtdbUpdate`,
  `MgmtNextQueue`.
* Commands `Activate`, `Deactivate`, `Shutdown`; the clock, `Tick`; `Quiet`, the daemon that
  sleeps or has ended.

The variable `mutex` says which thread is in a section. A section that spans several actions
is held between them; one that is a single action needs it to be free. The clock is read in
one place per handler, as in the code. `MaxInputs` (payloads, requests and commands) and
`MaxTime` bound the environment, nothing else is bounded.

Where the code goes wrong, the model does: an empty description makes `update_description`
throw in the middle of a create request (`RtdbCreate`, `RtdbCreateThrows`), and the payload
loop stops early (`MoreContainers`). The variable `faults` remembers which threads met an
exception or undefined behaviour.

Left out of `VardisNode`: registration of clients, the describe commands and `RTDB-Read`,
which are in `VardisClient`; statistics; payloads that cannot be deserialised (an exception
ends the processing of the payload before anything is applied); the allocation of slots in
the store (`VariableStore`; there are as many as identifiers).

`ShmFiniteQueue` has a record for each of the two ring buffers (`queue`, `freeList`), with
the indexes `in` and `out` of the code, the contents of the buffers (`buffer_space`) and
`has_data`. Every operation holds the queue's mutex from begin to end and gives it up in the
wait only, so an operation is one action, and one that waits is two: `pop_wait` takes an
item or starts to wait, `pop_wait_woken` goes on after a notification (without looking at
`has_data` again, as in the code), `Timeout` ends the wait, and `Startle` ends it for no
reason, which POSIX permits: a startled process goes on as a notified one does. Processes in a wait are told
apart by the condition variable they wait for (`WaitsForSpace`, `WaitsForData`); `Notify`
wakes those of a set. Handlers of pushes have an item or return zero; the handlers of a
process whose usage contains "fail" may throw, at any of their calls. `Throw` is an
exception that leaves an operation: buffers that are in neither ring at that moment are
lost. `faults` has the places the processes were in that have met one. What the processes do
is chosen in `Init` from `Usages`. Left out: a process that dies with the mutex.

`CommandSocket` numbers connections in the order in which they are made and accepted. A
connection has the request, the response and the ends that are still open (`open`). The
owner handles one at a time (`data_socket`). A client that gives up closes its end, which
the owner notices when it reads nothing or writes in vain: the signal the latter raises ends
a daemon that does not ignore it.

`BPNode` has an action for each step of a thread between two uses of `clientProtocols_mutex`
or of a queue. The transmitter takes the mutex (`TxLock`), visits the client protocols in
order (`attempt_add_payload`, `TxTimeout`, `TxThrow`) and gives it back (`TxUnlock`,
`generate_beacon`). The receiver takes a beacon (`RxPacket`) and hands out its payloads one
by one (`RxPayload`, `RxDelivered`, `RxDone`), holding the mutex, which it still has when a
payload that cannot be pushed ends it (`RxThrow`). The payload management
looks for indications (`handle_payload_from_client`) and resets the queues of an inactive
daemon (`ResetAll`). `HandleRequest` is each command with its status (`Status`, `Effect`),
`HandlerThrows` and `HandlerBlocks` the ways in which one does not end. Clients make the
calls of the library: `Connect`, `SendRequest`, `ReadResponse`, `GiveUp`, `TransmitPayload`,
`push_wait`, `ReceivePayload`, `DieInQueue`. A queue is here the sequence of its payloads
with `has_data`, a lock and a pusher that waits: what `ShmFiniteQueue` shows of one queue,
in a form that six of them can be composed of. A wait ends by a notification or a time-out,
and in the scenario with early wakeups for no reason at all (`Startled`). `Restart` starts a daemon that has ended
again; the segments the first one made are still there. Payloads are numbered; lengths are
small numbers.

`VardisClient` has the polling of `management_thread_rtdb` (`RtdbLoop`, `RtdbClient`,
`RtdbQueue`, `RtdbRequest`, `RtdbDrained`), the commands (`HandleRequest`), and the calls of
the library in their steps: `PushRequest`, `PopConfirm`, `Timeout` for the three requests
over queues, `ReadEntry`, `ReadStatus`, `ReadValue`, `Unlock` for a read in the store,
`Attach` between the confirm of a registration and the opening of the segment. A segment is
a record of three pairs of queues; the name it can be opened by (`shm`) is apart from it,
for segments that are replaced go on being used by those who have them. Waits end by a
notification or a time-out; what happens when they end for no reason is left to
`ShmFiniteQueue`. Its flag `disturbed`
says that a call at it has timed out, or that another application than the one it was made
for has opened it. Other threads of the daemon are what they do to the store (`CreateOther`,
`MarkDeleted`).

`AvlTree` keeps the array of nodes with its free list. A method that calls itself is a function
of the index it is called with; `HeightFrom`, `InsertFrom`, `RemoveFrom` ... are its body, given
the function for the calls it makes, and `Recursion` goes as deep as there are nodes. Data of a
key in the tree are assigned to in place (`AssignData`), as `lookup_data_ref` allows;
a rotation moves contents between nodes, as the code does, so the index of the root of a
subtree stays. `SrpNode` has the tree, the buffers `neighbour_ESD` and their free list in
`table`; `NodeInformation` is the map they stand for. An operation under one of the two
mutexes is one action, but for those another process may see the begin of (`RxReceive` and
`RxInsert`, `ScrubFind` and `ScrubRemove`, `TxTest`, `TxGenerate` and `TxPush`,
`set_own_safety_data` and `EndOfWrite`). Time may pass between the two readings of the clock in
`TxTest` and `TxGenerate`.

`VardisNetwork` applies the operators of `VardisProtocolData` to the data of several nodes.
Messages between the modules of a node take no simulated time, so a timer is one action with
all that follows from it: `HandleBufferCheckMsg`, `HandleSendPayloadMsg`,
`HandleGenerateBeaconMsg` with the reception at every neighbour that is not among the
losses. `HandleCreateMsg`, `HandleUpdateMsg`, `HandleDeleteMsg` are the producer; `Crash`
takes the memory of a node. `Extracted` is the loop over the containers, which stops early.
A value says in which life of the variable it was written and as which update, so that
properties can tell lives apart the records of which look the same.

`RTDB` has queues of copies of records, each with the repetitions left, and the construction
and processing of beacons; `SwarmNetwork` has the applications (`CreateVariable`,
`UpdateVariable`), SRP (`SamplePosition`, `CollectGarbage`, `ReportReceived`), the beacon
timer (`HandleGenerateBeacon`) and the queue of the MAC with a lossy medium (`Transmit`).

## 3. Runs

Identifiers, nodes, values and sequence numbers are few. In the runs of `VardisNode`,
variable 1 is produced by the neighbour `n1`, variable 2 by the node `me`; the modulus of
the sequence numbers is 4, the smallest with older, newer and incomparable numbers. All
handlers treat identifiers independently of each other; two suffice to have records of
different variables in one queue and one container, and a payload that is too large for
both.

| run | instance | question |
|---|---|---|
| `node_records` | rx, tx, management; one section for a whole payload | three inputs (payloads, requests, commands) of every kind: types, `QueueConsistency`, `TxNeverThrows`, `OwnVariableProtected`, and the node implements `RealTimeDatabase` |
| `node_transmit` | rx, tx, management; a section per container, two repetitions, payloads limited to 7 bytes so that two records of a type just fit or just do not | `PayloadWellFormed`, `HeaderHonoured`, `Drained` (repetitions end) |
| `node_scrub` | rx, scrubber, management, the clock up to 2, timeouts 0 and 1 | `ScrubSound` (nothing fresh is deleted though the clock was read earlier), `ScrubComplete` (what is overdue goes) |
| `seqno_window` | modulus 64, every age up to the window | `NewestWins` |
| `shm_queue` | three processes on a queue of two buffers, in twelve usages: requests, confirms and indications, the four queueing modes of BP, handlers that throw, several readers, several writers, forced pushes with resets; any wait may end for no reason | `BuffersDistinct` (with the types), `NoLostWakeup`, `OnlyStartledThrow`, the queue implements `BoundedFifo`, `EveryItemTaken` |
| `bp_node` | thirteen scenarios, see below | `CleanDaemonLives`, `RegisteredIsServed`, `PayloadsInOrder`, `NewestKept`, `MutexComesBack`, `ShutsDown`, types |
| `vardis_client` | ten scenarios | `AnswersFit`, `RequestsServed` |
| `srp_node` | four scenarios | the table implements `NeighbourMap` (`TableIsMap`), `GeneratesCurrentData`, `SilentNeighboursGo`, the tree is ordered and balanced and the mutexes have their holders (`TypeOK`) |
| `vardis_network` | eight networks | `OnePayloadBuffered` (with the types), `NothingInvented`, `NeverBackwards`, `EventuallyKnown`, `NewsSpreads`, `DeletionSpreads` |
| `swarm_network` | six networks | `NeverThrows`, `DatabasesCoherent`, `NeverBackwards`, `EveryoneInformed` |
| `net_updates` | two nodes, nothing lost | ends with a counterexample, see 3.2 |
| `net_rebirth` | three nodes, a variable deleted and created again | `LivesDistinguished` ends with a counterexample, see 3.2 |

Three inputs are enough for a record to meet whatever another record, a request or a
deletion has left (create, then delete, then create again or update). The clock needs 0, 1,
2: created, timeout, overdue. Properties that hold for one input sequence length and fail
for a longer one are excluded by the proofs of section 4 where there is one.

`seqno_window`: the window is an assumption about the environment. `Publish` is guarded by
`behind < MaxAge`: no node is more than half of the modulus minus one behind. The code does
not ensure this; the run and the theorem say that it is sufficient.

In `shm_queue`, rings of three slots wrap around with the three pushes, two buffers allow a
full, a half-full and an empty queue, and three processes are what a queue has in the
daemons (two ends, and the management thread that resets) as well as what is needed for one
process to come between a notification and the process it wakes. `MaxPushes` bounds the
items; pops, peeks, resets and waits are not bounded. `OnlyStartledThrow` is about the
usages with one process at either end, where the missing second look at the condition does
no harm to a process that has been notified, even after one whose wait ended for no reason
has thrown; in the others notified processes throw as well, which is in the model.

`bp_node` has two client protocols and an operator, queues of at most two payloads, at most
two payloads and two beacons, three connections, one restart. A payload is one byte in most
scenarios, and two of them fill a beacon of five. Two payloads and a queue of one are enough
for one to be dropped, or to be sent before the other. The scenarios (`MCBPNode`):

* `Send`, `End`, `Receive`: queues with two payloads each; the same with a shutdown and a
  client that leaves; beacons that are good, unknown to anybody, truncated and malformed.
  These are clean: what `CleanDaemonLives` calls so.
* `Once`, `Repeat`: buffers, with activation, deactivation and clearing.
* `TooMuch`, `TooLong`, `Refused`: payloads that do not fit into a beacon together, or have
  no bytes, queues longer than there is room for, and registrations with wrong parameters.
* `Gone`, `Stuck`, `Held`, `Again`: a client that gives up on its request; one that dies in
  a queue operation, towards the transmitter or the receiver; the daemon started again.
* `Early`: waits that end for no reason, in the client and in the receiver, which push into
  a queue that still has payloads, or is full.

`vardis_client` has two applications and an operator, two variables, at most three requests,
two segments and four connections. `Share` and `Other`: a variable of the other application
and of another node. `Wrong`: requests with an empty value or description, one of which
ends the daemon, and an application that reads what it leaves. `Operate`,
`Describe`: the commands, with time-outs. `Take`, `Taken`: two applications with one name,
of which the second insists or not. `Again`: an application that ends and starts once more.
`Stuck`, `Held`: one that dies in a queue operation or while reading.

`srp_node`: in `Crowd` five neighbours come in orders that make the tree rotate in every
way, while the scrubber takes some out again; in `Full` there is room for three, and
then either a known one is renewed in the full table or a fourth ends the daemon; `Chatter` has records that replace each other, payloads of a wrong
length and applications that die with the mutex; `Report` is the transmitter and the
application that writes. The time-outs are 2 and 1, the clock goes to 2, so that a write at 0
can be tested at 1 and stamped at 2. `AvlTree` alone was
also explored with five nodes and six keys, without bounds.

`vardis_network`: sequence numbers modulo 8, each record sent once, payloads of 60 bytes
with the sizes of the real records. A line and a triangle of three nodes with lost beacons
and a node in the middle that forgets (`Hops`, `Mesh`), two nodes of which the consumer
forgets (`Forget`), deletions without and with losses (`Gone`, `Lossy`), a producer that
crashes and creates its variable again (`Reborn`), two variables (`Two`), two variables of
different producers that are deleted, over two hops (`BothGone`). Three nodes are
the fewest with two hops or two ways for one record; the losses (up to three) exceed the
repetitions. In `Reborn` there are two nodes and no losses, and lives begin in different
milliseconds: with more, records of an earlier life are accepted (3.2).

`swarm_network`: sequence numbers modulo 8. Two nodes with three updates, repeated twice,
and two losses (`Plain`); a repetition count of zero (`Zero`); two producers and beacons of
54 bytes, which hold one record but not both (`Two`); a line and a triangle; state reports,
of which those of a lost neighbour become stale (`Reports`). `MaxHeard` = 2 is what the code
gives: a beacon period varies by ten percent, so a node cannot make three beacons between
two of another.

The runs of `VardisNode`, `seqno_window`, `shm_queue` and `swarm_network` check for
deadlock. In `VardisNode`, `Quiet` is the only state in which nothing needs to happen; a
process that uses `ShmFiniteQueue` can always get nothing done (`GivesUp`), so there it is
`NoLostWakeup` and `EveryItemTaken` that say nobody is stuck. `bp_node`, `vardis_client`,
`srp_node` and the runs of `VardisNetwork` do not: their systems really stop, when the
daemon has ended or the clients have done all the scenario lets them; that nobody is stuck
is `MutexComesBack` and `ShutsDown`, `RequestsServed`, `SilentNeighboursGo`,
`EventuallyKnown`.

### 3.1 Fairness

`FairSpec` assumes strong fairness of receiver, transmitter and scrubber. They are loops of
a process of their own thread; an action of theirs is disabled again and again only because
another thread has the mutex, for one bounded section, after which that thread sleeps for
milliseconds. The management thread only has to leave a section it is in (weak fairness of
`MgmtNextQueue`). Nothing is assumed of the environment other than that BP goes on taking
payloads. Neither requests nor commands nor the clock are fair. A process that pops from a
queue in shared memory does so in a loop, and one that waits is woken or times out:
`ShmFiniteQueue!FairSpec` assumes strong fairness of both, for they compete for a mutex that
is held no longer than a handler runs, and a call that does not get it in time is repeated
by the loop. Pushes and resets are not fair. In `BPNode` the threads of the daemon are
strongly fair, for the same reason as those of Vardis, and clients finish what they have
begun (weak fairness of `ClientStep`) but need not begin anything: payloads, commands,
beacons and time-outs are the environment's. In `VardisClient` the two threads are weakly
fair, for nothing takes turns with them, and a reader goes on reading. In `SrpNode` the
receiver and the scrubber are weakly fair, the clock goes on, and an application ends the
section it is in unless it dies. In `VardisNetwork` and `SwarmNetwork` it is the periodic
timers that are weakly fair (and in the latter the MAC, which sends what it has). Losses are
bounded in each scenario, which says that in the end a beacon gets through; it is the
weakest form of what the protocol rests on. Producers are not fair. `Drained` is conditional
on the daemon staying active, and on a payload limit at which each record fits.

### 3.2 Where documents and code differ

Two are runs that TLC ends with a counterexample. `net_updates`: the loop that extracts the
containers of a payload compares the bytes used with those that remain, not with the length
(`D/vardis/vardis_receiver.cc:71`), so a container that begins in the second half is
dropped. The other consequence is for deletions, which come after creations: a node that
announces one variable and the deletion of another in one payload has its deletion dropped,
no beacon being lost, and when its repetitions are used up the other variable stays for
ever. `DeletionSpreads` excepts the variables whose deletion is ever sent like that
(`DeletionUnread`); in `BothGone` some are and some are not.
Updates come after summaries in a payload, and requests after both: in a network of
two nodes with variables of one byte, in which nothing is lost, a consumer asks for an
update for ever and the producer never finds the question. dcp-vardis.md:95 promises that
neighbours who hear it send the update.

`net_rebirth`: a producer creates a variable, updates it, deletes it and creates it again.
The update of the first life, which a neighbour still repeats, is received by a node that
knows the second life, and is applied to it, for its sequence number is the larger one.
The node then has the new creation time with a value from before it, and takes a `VarUpdate`
of the new life with the same number for old. dcp-changelog.md:27 says that creation times
were introduced so that the lives of a variable could be told apart; of the records, only
`VarCreate` has one.

The others are in the models, as what the code does. The properties are stated so as to hold
beside them (their conditions name them), and each is a hazard in `PROJECT.json` or a
consequence of one.

*Vardis daemon.* An inactive node is to discard payloads (dcp-vardis.md:1365); a receiver
that was blocked when Vardis was deactivated processes the next one. With an empty
description a create request ends in an exception that ends the daemon, without a confirm. A
variable created between the reads of `begin ()` and `size ()` sends the scrubber past the
end of the set (vardis_scrubber.cc:59). `process_var_requpdate` answers a request for a
sequence number equal to its own (a strictly larger one in dcp-vardis.md:1632). A
`VarCreate` of another node with a later creation time replaces a live variable and its
producer, the own variable included (dcp-vardis.md:21; `OwnVariableProtected` names the
exception). `active_variables` keeps variables that have been deleted, against its comment.

*Queue.* `reset` leaves `has_data` set, and the next `peek_nowait` or `pop_nowait` throws on
the empty queue. `push_wait` waits while the queue holds anything, not while it is full
(sharedmem_finite_queue.h:265). No wait is followed by a second look at its condition: a
process whose wait ends for no reason pops from an empty queue, or pushes into a full one,
and throws; so does one that was notified when another has come in between
(sharedmem_finite_queue.h:304, 492, 614, 734).

*BP.* `transmit_payload` resets the buffer before it pushes in the modes ONCE and REPEAT: a
payload that is overwritten (dcp-bp.md:64 says it may be) leaves `has_data` set on an empty
buffer; a push then waits for a notification, and the transmitter, if it comes first, throws
and ends with `clientProtocols_mutex` locked (bp_transmitter.cc:222), as it does when a
shutdown empties the queues before it has looked. A beacon longer than the frame, payloads
that do not fit together, and a client that closes its connection without a request
(command_socket.cc:209) each end the daemon. So does a neighbour's payload of no bytes for
a registered protocol: to copy it throws (area.h:130), within the section of
`deliver_payload` (bp_receiver.cc:186), so that the receiver ends with
`clientProtocols_mutex` locked. The clients of this code refuse such payloads
(bpclient_lib_payload.cc:44), the receiver does not. `CleanDaemonLives` excludes them, and
`MutexComesBack` a mutex whose holder has ended with an exception. Segments stay when BP ends: a restarted daemon
throws at the first registration. A client that dies registered keeps its protocol
registered.

*Client library.* After a time-out, a late confirm is taken by the next call, or makes it
throw (vardisclient_lib_rtdb.cc:45); `AnswersFit` is about segments without one. Of two
applications with one name, the deregistration of the old one erases the registration of the
new one. When an exception has cut the writing of a variable short, applications can still
read it, and get the old value, or none, with the new time (vardis_protocol_data.cc:875);
`AnswersFit` excepts this (`CutShort`). An application that ends while it reads has the
mutex of the store for ever, and blocks the daemon (vardisclient_lib_rtdb.cc:147). No code
gives identifiers back (`deallocate_identifier` has no caller).

*SRP.* A full table makes the free list throw, and the daemon ends
(srp_store_fixedmem.h:301). SRP uses the mode ONCE with the period of the beacons, so the
exceptions of overwritten buffers are its ordinary case. The transmitter reads
the clock once to test the keepalive time-out and again for the time stamp
(srp_transmitter.cc:59, 80): a payload may be stamped beyond the time-out, and
`GeneratesCurrentData` bounds the time that was tested.

*Network.* `VarDelete`, `VarUpdate` and `VarSummary` carry no creation time: among three
nodes, or with losses, what is left of an earlier life of a variable is applied to the later
one. A deletion all records of which are lost, or stand where no receiver reads them (see
`net_updates`), is never repaired. A producer that is the only
one with the newest value does not repeat it when it is lost, if it was sent as often as
configured. A payload that holds both the creation of a variable by a new life and its
deletion by the old one loses the deletion.

*Published simulations.* The flag `stop` is not reset between the loop over updates and that
over summaries (`P/rtdb/RTDB.cc:283`, `:341`), so no summaries are sent while updates remain
queued; likewise for the requests. A state report is discarded together with a beacon when
RTDB has nothing to send. The queues of requests collect duplicates.

## 4. Proofs

All with TLAPS, for every value of the constants that satisfies the assumptions
`SeqnoAssumption` (an even modulus of at least 4), `ProtocolDataAssumption`,
`NodeAssumption` (finitely many identifiers, payloads and requests of their types),
`WindowAssumption`, `RingAssumption` and `QueueAssumption` (at least two slots, one more
than there are buffers), `BPAssumption` (finitely many protocols; a beacon has room for a
payload, as the configuration demands, bp_configuration.cc:75) and `ClientAssumption`
(finitely many variables and names, and what a scenario is). `NetworkAssumption` (of either network
module) and `SrpAssumption` say of what kind the parts of a scenario are.

**Vardis daemon**

* **`VardisProtocolData_proofs`**, about one node's data, used for the daemon and for the
  network: what insertion, removal and popping do to the members of
  a queue, and that none introduces a duplicate; each handler, each request and each step of
  container construction keeps protocol data well typed, and consistent if they were
  (`ProcessRecordOK`, `RtdbCreateOK`, `RtdbUpdateOK`, `MarkDeletedOK`, `SendRecordOK`);
  consistent data never make the transmitter throw (`SendDoesNotThrow`). Most handlers are
  instances of two lemmas: replacing the entry of one variable together with its place in
  the queues (`ChangeEntryOK`), and changing a single queue (`OneQueueOK`).
* **`VardisNode_proofs`**: `Invariance`, `Spec => []NodeInv`, and from it `TypeCorrect`,
  `QueuesStayConsistent`, `TransmitterNeverThrows`, `HeadersAreHonoured`. `NodeInv` is
  `TypeOK /\ QueueConsistency /\ TxNeverThrows /\ HeaderHonoured /\ Sections`. `Sections` is
  the strengthening: which thread can be where while `mutex` has a given value, and that the
  iterator of the scrubber points into `active_variables`, which only grows. It is needed
  because consistency in the middle of a section rests on nobody else being in one, and
  because a scrubber whose iterator left the set would mark an identifier that has no entry.
  The proof has a lemma for each group of actions. The theorems hold for both locking modes,
  any number of inputs and any set of threads.
* **`VardisNode_proofs`, the variables**: two action properties and a refinement.
  `OwnVariablesAreProtected` (what comes from the network restarts the repetitions of a
  variable of this node, or replaces it by a newer one of another node, and nothing else),
  `ScrubbingIsSound` (the scrubber deletes only what is older than its timeout) and
  `NodeImplementsDatabase` (`VardisNode` implements `RealTimeDatabase` under the mapping of
  `VardisNode`). Every operation is first reduced to
  the one entry it changes and how (`Replaced`, `Updated`, `Deleted`, `Kept`); a step of the
  node is then one of these at one identifier, which is a step of the abstract database, or
  leaves all entries alone. `ScrubbingIsSound` needs the invariant `Clocks` besides
  `NodeInv`: the time the scrubber has read is not in the future, for it reads the clock
  once in a round and judges entries by it later. The refinement needs it too: own variables
  are not created in the future, so a new one is never older than the one it replaces.
* **`VardisNode_proofs`, the payloads**: `PayloadsAreWellFormed`, `Spec => []PayloadWellFormed`. How
  many records fit into a container is counted beforehand, and the records are written one
  by one later, maybe after other containers; that the bytes written are those that were
  counted is what has to be shown. The invariant `BuildInv` says of the transmitter, while
  it builds a payload: what is written is well formed and comes to `txUsed` bytes, the
  containers are in the order of their types (`PayloadOK`), and the records still missing in
  the open container are at the front of its queue, are about other variables than those in
  it, and fit, each on top of the ones before (`Opened`, `Levels`). It rests on `NodeInv`:
  the queue is without duplicates, and nobody else changes it while records are missing.
  Sizes are sums of record sizes, in the model recursive functions of a length; such sums
  exist, agree and grow (`SumsExist`, `SumsAgree`, `SumsGrow`), by induction over the
  indexes done (`OneByOne`).
* At the end of **`VardisNetwork_proofs`**: `ComparisonOrders`, that `more_recent_seqno` orders
  any two numbers less than half of the modulus apart; and `NewestAlwaysWins`,
  the invariant of `SeqnoWindow` for every modulus and window.

Consistency is stated "until an exception has cut a create request short" (`"rtdb" \notin
faults`), for the code does break it then; the daemon ends.

**Queues in shared memory: `ShmFiniteQueue_proofs`**

The first part is about rings. `IsRing` says that the indexes of a ring agree with its
counter; a ring stands for the sequence of its elements (`Elements`), and pushing, popping
and clearing are then `Append`, `Tail` and the empty sequence. The loops of the code over
all buffers are recursive functions; that they end in what they should is shown by
induction over the set of steps done (`UpTo`).

The second part is `QueueInvariant`, `Spec => []QueueInv`: both rings are rings, the buffers
in the queue and in the free list are disjoint, none is there twice (`Rings`), the flag
`has_data` is not false while there are items, a process waits only in an operation that its
use has, and no wakeup is lost. `BuffersStayDistinct` and `NoWakeupIsLost` are parts of it.
They are proved together, for whether a waiter's condition holds is a matter of the lengths
of the rings, and that neither overflows rests on the disjointness of the buffers. In the
middle of an operation that may throw, the buffer it holds is in neither ring (`Spare`). Each
step is classified by what it does to the two sequences (`Puts`, `Takes`, `Throws`,
`Returns`, `Sleeps`, `Startle`). From this follow `QueueImplementsFifo`, that the queue implements
`BoundedFifo` for any use of it, and `NotifiedNeverThrow`, that between one process at either
end nobody throws but those whose wait has ended for no reason. The latter needs `BetweenTwo`
besides: who has been notified finds what it waited for, since nobody else takes it. A
startled pusher that throws may lose a buffer, but only when the queue is full, so what is
left, `queue.n + freeList.n >= Capacity`, is enough for every push that finds the queue not
full.

**BP daemon and its clients: `BPNode_proofs`**

`NodeInvariance` is `Spec => []NodeInv`, for any set of protocols, any sizes, any scenarios
(which threads are cut short, which clients die, how often the daemon is started again).
`NodeInv` is the conjunction of what each group of variables keeps to:

* `SectionsOK`: the transmitter is in its loop over the protocols only with the mutex, also
  after an exception; the receiver likewise while it waits for a queue;
* `PacketOK`, `\in Beacon`: a packet is one that neighbours send, and is read no further
  than it goes, a beacon never overfull;
* `FlagsOK`, `AppsOK`, `QueuesOK`: types, and a client that pushes has a payload left to
  count;
* `SocketOK`: a client has not closed one connection at most, its last one, and asks for its
  own protocol only;
* `RegistrationsOK`: a client that believes to be registered, or whose connection holds that
  answer, is in the table, and no request of its that the daemon has yet to deal with would
  end this;
* `OrderOK`: along the way from client to network and back, the numbers of the payloads are
  in order;
* `CleanOK`: in a scenario of clean use (`Clean`), nothing has thrown unless a shutdown was
  asked for, no queue is locked or empty with its flag set, the beacon has room for the
  protocols not yet visited, and no connection is left over when the command thread goes
  round.

From it: `TypesAreKept`, `RegisteredAreServed`, `CleanUseLivesOn` (used like that, the daemon
ends when it is asked to and for no other reason: in particular every payload received has
bytes, and no wait ends without a reason), `PayloadsKeepTheirOrder`, and, with
`NewestOK` besides, `NewestIsKept` (a queue that drops its head keeps the newest payload).
The parts are needed together: that nothing throws in clean use rests on the sections and on
the connections, and a registration is safe only because requests arrive in the order of the
connections. The proof has one lemma for each group of actions and part of
the invariant. Sums over the payloads of a beacon are recursive functions; that they exist
and grow is proved by induction over a set of indexes (`OneByOne`).

**Applications and the threads that serve them: `VardisClient_proofs`**

`AnswersAreRight` is `Spec => []AnswersFit`, for any number of applications, variables, names
and segments, and for any scenarios: who calls what, who takes whose name over, who gives
up, ends in a queue or while it reads, and what the other threads of the daemon do to the
store. It follows from `ClientInvariance`, `Spec => []IInv`. `AnswersFit` is far from being
inductive, for an answer is right because of what has been in the queues since the call, and
that depends on who can have the segment open. `IInv` is the conjunction of

* `ThreadsOK`, `SegmentsOK`: where the two threads are, what they have locked, types;
* `IdsOK`, `CallsOK`: a request is in one queue at most, once, and has not been carried out
  while it is there; one that is about to be put into a queue is in none;
* `UseOK`: in a segment that nobody has disturbed there is nothing but what belongs to the
  call of the application it was made for: nothing, its request, or its answer. The daemon
  never waits between taking a request and answering it, so these exclude each other;
* `AppsOK`, `SocketOK`: an application has one open connection at most, and its request is
  the one of where it is in its life. Once it has been confirmed, the name it has asked for
  stands for a segment that is idle, for one that is disturbed or made for another, or for
  none (`MayAttach`), whoever registers under that name before it attaches;
* `StoreOK`, `ValuesOK`, `ReadersOK`: no buffer is used twice, and each identifier that is
  not in use leaves one free; a value is that of its entry, unless an exception has cut the
  writing short; an application that reads has the store to itself;
* `ToldOK`: what an application has been told stays right.

There is a lemma for what each action does to the variables of others (`PushRequestOK`,
`HandledOK`, ...), then one for each conjunct (`IdsStep`, `UseStep`, `SocketStep`, ...). The
rtdb thread is gone once something has been cut short (`BrokenKept`), which is why the
exception in `AnswersFit` does not spread to other variables. That there is a free buffer for
each identifier that is not in use is a matter of counting (`SomeFree`).

**Networks of Vardis: `VardisNetwork_proofs`**

For any number of nodes and variables, any links, losses, crashes, deletions and payload
sizes that a scenario may have. `NetworkInvariants` is `Spec => [](NetInv /\ TruthInv)`.

* `NetInv`: each node's data are well typed and consistent, and Vardis and BP agree on the
  payload that is under way (`Handshake`): BP has one exactly when Vardis believes so, and
  none is scheduled while there is one. `NoPayloadIsDropped` (`OnePayloadBuffered`) follows.
* `TruthInv`: every value, wherever it is (in an entry, in a payload that BP holds or that is
  being received), is one the producer has written. What the producers have written is a
  record (`History`) made of the scenario, of `born`, and of what each producer has now; a
  history only goes on (`Continues`), and what agreed with the former one agrees with the
  next (`GenuineGoesOn`). The records of a payload are those of the sender,
  so the receiver's data agree with the history if the sender's did.

The lemmas on handlers and container construction are those of `VardisProtocolData_proofs`;
what is added is where the records of a payload come from (`PayloadConstructed`,
`MadeFromData`) and which value they leave at the receiver (`RecordReaches`). Three
results follow.

* `ValuesAreTheProducers`, without a condition: a node has the value of an update, with the
  sequence number of that update, of a life that has begun. Neither repeated nor lost records
  make an entry out of two.
* `NothingIsInvented`: `NothingInvented` in each state of a scenario in which every variable
  has one life (`SingleLife`: nothing is deleted and no producer crashes, or there is no later
  millisecond to create anything in). The condition is needed, which is what `net_rebirth`
  shows: with two lives an entry may have the creation time of one and the value of another.
* `NobodyStepsBack`: `NeverBackwards`, if a life of a variable has fewer updates than half of
  the sequence numbers, in which case numbers order updates however old a record is. The
  condition is on all the updates of a life because nothing bounds how long a record stays in
  a queue; `seqno_window` and `NewestAlwaysWins` are about the window.

**Networks of the published simulations: `SwarmNetwork_proofs`**

For any number of nodes, variables and losses, any links, and any lengths of variables,
descriptions and beacons. `InvHolds` is `Spec => []Inv`. `Inv` has the shape of the invariant
above: what the producers have written is a history (`HistoryOf`), the data of each node are
`Sound` with respect to it, and every beacon in a queue of the MAC is one of `Beacons`, that
is, made of records that were written. `Sound` is what the processing of a record relies on
and leaves behind: each queue has at most one record of a variable, updates and update
requests are of the value in the database, creations not of a later one, and the summaries go
round all variables. The queues hold copies that go round and are counted down, so most of the
work is about sequences: what a round takes out and puts back (`RoundOK`), what is left after
a removal (`RemoveIDOK`), the summaries moved to the end (`RotatedIsRound`), and the length of
a beacon put together from five queues (`AddQueueOK`, `AddSummariesOK`). The loops of the code
are recursive functions; that they exist, and keep what each turn keeps, is proved once
(`Iterated`, `StaysWithin`).

* `NothingThrows`: `NeverThrows`. The hypothesis `Room` says that what the other protocols put
  into a beacon leaves it the size it may have. The code does not check that; without it the
  very first beacon ends the simulation, even an empty one.
* `ValuesAreTheProducers`, for any number of updates: a node has a value of the producer's,
  not later than the one the producer has, with its sequence number.
* `DatabasesAgree` and `NobodyGoesBack`: `DatabasesCoherent` and `NeverBackwards`, if a variable
  is updated at most half as often as there are sequence numbers (`FewUpdates`). As in
  `VardisNetwork`, the condition is on all updates because a record may wait in a queue for
  any time, and beyond it `seqNoMoreRecent` takes old records for new ones.

**SRP: `SrpNode_proofs`**

For any neighbours, timeouts, keepalives and sizes of the table.

The first part is about `AvlTree`, for any number of nodes. `Tree(n, i, S)` says that the nodes
`S` of the array hang below `i` and are a search tree of heights that are right and differ by
one at most; that a shape with this property exists only if the nodes really form a tree is
why it is stated with the set of nodes (`Spans`). Each rotation is described by the four
subtrees it regroups (`RotatedRight`, `RotatedLeft`), then by what it does to heights (`SingleRight`,
`DoubleRight`, ...), and both rebalancings are cases of these (`InsertionRebalanced`,
`RemovalRebalanced`). That a recursive call returns what it should (`PutIn`, `TakenOut`) is shown by
going from the subtrees that are less high to the higher ones (`TreeInduction`). What remains for
the users of a tree is one operator, `Holds(t, N, E)`: the tree with `N` nodes holds the pairs
`E` of a key and its data, every key once, and each node that is not in use is in the free
list once. `HoldsInsert`, `HoldsRemove`, `HoldsAssign`, `HoldsFound` and `HoldsMatches` say what the
operations do to `E`; `HoldsWellFormed` is that `WellFormed` holds, which is what `is_consistent`
of the code tests.

The second part is `SrpInvariance`, `Spec => []SrpInv`, of which `TypeOK` (`ShapesAreKept`) and
`GeneratesCurrentData` (`GeneratedIsCurrent`) are consequences. `SrpInv` is the conjunction of

* `DaemonInv`: beside shapes and holders of the mutexes, whoever holds the mutex of the own
  safety data has the write counted last in it (`WritesOK`), and what is in the buffer of BP,
  or was sent, is older than what can be generated next (`PayloadsOK`), also when an
  application has died with the mutex; between test and generation, the last write was
  within the time-out when it was tested (`TestOK`);
* `TableInv`: there are entries that the table stands for (`TableIs`): the tree holds them, each
  has a buffer of its own with what that neighbour sent, and the second free list has the
  other buffers. The neighbours the scrubber is about to remove are among them, and still
  silent (`ScrubOK`), for the mutex of the table is the scrubber's until it has removed them;
  the receiver is kept from the table meanwhile.

`TableImplementsMap` is the refinement `TableIsMap`: `Information` of such a table is the map of
the entries (`InformationIs`), so what a step does to the entries is a step of `NeighbourMap`
(`MapHears`, `MapForgets`) or leaves the map alone. The map has room for a neighbour when there
is a free buffer, because the free list and the tree count the same entries (`RoomLeft`).

**Only model-checked**

* The liveness properties: liveness under fairness and ENABLED are beyond the prover.

## 5. Not modelled, and what is left

Not modelled: reading options, logging and formatting; signal handling and detaching of the
main programs; the calls into Boost; the command-line tools, which do nothing but call the
libraries, whose calls `VardisClient`, `BPNode` and `SrpNode` make in any order; the
consumers and the other protocols of the simulations.

Modelled in part. Record formats: types and sizes, not the bytes. Shared-memory segments:
which exist, and what creating and opening one does. SRP: not the average gap of sequence
numbers, a floating-point estimate nothing acts upon (srp_store_fixedmem.h:287). Simulator:
not the registration (nodes start registered) nor its SRP.

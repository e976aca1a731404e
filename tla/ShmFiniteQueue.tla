--------------------------- MODULE ShmFiniteQueue ---------------------------
(***************************************************************************)
(* A finite queue in shared memory (class ShmFiniteQueue) and the processes *)
(* that push into it, pop from it, peek at it and reset it.  The buffers of *)
(* the queue go round between two ring buffers, the queue proper and the   *)
(* list of free buffers; a mutex guards every operation from begin to end, *)
(* two condition variables, given up by the mutex, let an operation wait.  *)
(* A wait may end for no reason, as POSIX permits, and counts as a         *)
(* notification.                                                           *)
(* So an action is one operation, or the part of it before or after its    *)
(* wait.  An operation that cannot get the mutex in time changes nothing.  *)
(***************************************************************************)
EXTENDS RingBuffer, FiniteSets

CONSTANTS
    Proc,             \* the processes
    NumberBuffers,    \* numberBuffers
    Capacity,         \* maxcap, the number of elements the queue may hold
    Usages,           \* what the processes do: functions from Proc to sets of operations,
                      \* with "fail" for a process whose handlers may throw
    MaxPushes         \* bound on the items pushed

Op == {"push_wait", "push_nowait", "push_wait_force", "pop_wait", "pop_nowait",
       "popall_wait", "popall_nowait", "peek_wait", "peek_nowait", "reset"}

ASSUME QueueAssumption ==
    /\ NumberBuffers \in Nat \ {0} /\ RingSize = NumberBuffers + 1
    /\ Capacity \in 1 .. NumberBuffers
    /\ Usages \subseteq [Proc -> SUBSET (Op \cup {"fail"})]
    /\ MaxPushes \in Nat

Buffer == 0 .. NumberBuffers - 1
Item == 1 .. MaxPushes
Popping == {"pop_wait", "pop_nowait", "popall_wait", "popall_nowait"}
Nothing == 0             \* a buffer never written to

VARIABLES
    queue,         \* the ring buffer of the filled buffers
    freeList,      \* the ring buffer of the free buffers
    buffer_space,  \* the item in each buffer
    has_data,      \* the flag of that name
    at,            \* where a process is: idle, waiting for a condition, woken by a
                   \* notification, or startled: awake without one
    op,            \* the operation a process is waiting in
    pushed,        \* the number of items pushed, which are numbered
    faults,        \* where the processes were that met an exception
    usage          \* the operations of each process, constant

vars == <<queue, freeList, buffer_space, has_data, at, op, pushed, faults, usage>>

\* initialize_queue_and_freelist
AllFree(r) ==
    LET put[i \in 0 .. NumberBuffers] ==
          IF i = 0 THEN ResetRing(r) ELSE PushRing(put[i - 1], i - 1)
    IN  put[NumberBuffers]

EmptyRing == [in |-> 0, out |-> 0, n |-> 0, ring |-> [i \in Slot |-> 0]]

Init ==
    /\ queue = EmptyRing
    /\ freeList = AllFree(EmptyRing)
    /\ buffer_space = [b \in Buffer |-> Nothing]
    /\ has_data = FALSE
    /\ at = [p \in Proc |-> "idle"]
    /\ op = [p \in Proc |-> "none"]
    /\ pushed = 0
    /\ faults = {}
    /\ usage \in Usages

Calls(p, o) == at[p] = "idle" /\ o \in usage[p]

WaitsForSpace == {p \in Proc : at[p] = "waiting" /\ op[p] = "push_wait"}
WaitsForData  == {p \in Proc : at[p] = "waiting" /\ op[p] # "push_wait"}

\* Mutant of Notify: notify_one in the place of notify_all.
NotifyOne(p, woken) ==
    /\ at' = [x \in Proc |-> IF x = p THEN "idle"
                             ELSE IF woken # {} /\ x = CHOOSE y \in woken : TRUE THEN "woken"
                             ELSE at[x]]
    /\ op' = [op EXCEPT ![p] = "none"]

\* p goes on, and the processes of the set woken have been notified.
Notify(p, woken) ==
    /\ at' = [x \in Proc |-> IF x = p THEN "idle"
                             ELSE IF x \in woken THEN "woken" ELSE at[x]]
    /\ op' = [op EXCEPT ![p] = "none"]

Wait(p, o) ==
    /\ at' = [at EXCEPT ![p] = "waiting"]
    /\ op' = [op EXCEPT ![p] = o]
    /\ UNCHANGED <<queue, freeList, buffer_space, has_data, pushed, faults, usage>>

\* The wait of p has been too long.
Timeout(p) ==
    /\ at[p] = "waiting"
    /\ Notify(p, {})
    /\ UNCHANGED <<queue, freeList, buffer_space, has_data, pushed, faults, usage>>

\* The wait of p ends for no reason.
Startle(p) ==
    /\ at[p] = "waiting"
    /\ at' = [at EXCEPT ![p] = "startled"]
    /\ UNCHANGED <<queue, freeList, buffer_space, has_data, op, pushed, faults, usage>>

\* An exception leaves the operation of p, in the state given by q and f.  A buffer
\* that is in neither of them is lost.
Throw(p, q, f) ==
    /\ queue' = q /\ freeList' = f
    /\ faults' = faults \cup {at[p]}
    /\ Notify(p, {})
    /\ UNCHANGED <<has_data, usage>>

(***************************************************************************)
(* Pushing.  The handler has something to push, or returns zero.           *)
(***************************************************************************)
\* Mutant of FillBuffer: has_data is not set.
FillBufferSilently(p, b, q, f) ==
    /\ pushed < MaxPushes
    /\ pushed' = pushed + 1
    /\ buffer_space' = [buffer_space EXCEPT ![b] = pushed']
    /\ IF IsFull(q, Capacity) THEN Throw(p, q, f)
       ELSE /\ queue' = PushRing(q, b)
            /\ freeList' = f
            /\ Notify(p, WaitsForData)
            /\ UNCHANGED <<has_data, faults, usage>>

\* Writes the next item to buffer b, taken out of one of the rings; q and f are
\* the rings without it.
FillBuffer(p, b, q, f) ==
    /\ pushed < MaxPushes
    /\ pushed' = pushed + 1
    /\ buffer_space' = [buffer_space EXCEPT ![b] = pushed']
    /\ IF IsFull(q, Capacity) THEN Throw(p, q, f)
       ELSE /\ queue' = PushRing(q, b)
            /\ freeList' = f
            /\ has_data' = TRUE
            /\ Notify(p, WaitsForData)
            /\ UNCHANGED <<faults, usage>>

\* Mutant of HasNothing: the buffer goes into the queue, written to or not.
HasNothingQueued(p, b, q, f) ==
    /\ queue' = PushRing(q, b)
    /\ freeList' = f
    /\ Notify(p, {})
    /\ UNCHANGED <<buffer_space, has_data, pushed, faults, usage>>

HasNothing(p, b, q, f) ==
    /\ queue' = q
    /\ freeList' = PushRing(f, b)
    /\ Notify(p, {})
    /\ UNCHANGED <<buffer_space, has_data, pushed, faults, usage>>

HandlerFails(p, q, f) ==
    "fail" \in usage[p] /\ Throw(p, q, f) /\ UNCHANGED <<buffer_space, pushed>>

CallPushHandler(p, b, q, f) ==
    FillBuffer(p, b, q, f) \/ HasNothing(p, b, q, f) \/ HandlerFails(p, q, f)

PushFree(p) ==
    IF IsEmpty(freeList)
    THEN Throw(p, queue, freeList) /\ UNCHANGED <<buffer_space, pushed>>
    ELSE CallPushHandler(p, Front(freeList), queue, PopRing(freeList))

push_wait(p) ==
    /\ Calls(p, "push_wait")
    /\ IF has_data THEN Wait(p, "push_wait") ELSE PushFree(p)

\* The wait is over: a notification has come, or seems to have come.
Awake(p) == at[p] \in {"woken", "startled"}

\* The condition is not looked at again after the wait.
push_wait_woken(p) == Awake(p) /\ op[p] = "push_wait" /\ PushFree(p)

push_nowait(p) ==
    /\ Calls(p, "push_nowait")
    /\ ~ IsFull(queue, Capacity)
    /\ PushFree(p)

push_wait_force(p) ==
    /\ Calls(p, "push_wait_force")
    /\ IF IsFull(queue, Capacity)
       THEN CallPushHandler(p, Front(queue), PopRing(queue), freeList)
       ELSE PushFree(p)

(***************************************************************************)
(* Popping and peeking.                                                    *)
(***************************************************************************)
\* Mutant of PopOne: has_data is not reset.
PopOneLeavesFlag(p) ==
    IF IsEmpty(queue)
    THEN Throw(p, queue, freeList) /\ UNCHANGED <<buffer_space, pushed>>
    ELSE /\ queue' = PopRing(queue)
         /\ freeList' = PushRing(freeList, Front(queue))
         /\ Notify(p, WaitsForSpace)
         /\ UNCHANGED <<buffer_space, has_data, pushed, faults, usage>>

PopOne(p) ==
    IF IsEmpty(queue)
    THEN Throw(p, queue, freeList) /\ UNCHANGED <<buffer_space, pushed>>
    ELSE \/ /\ queue' = PopRing(queue)
            /\ freeList' = PushRing(freeList, Front(queue))
            /\ has_data' = ~ IsEmpty(PopRing(queue))
            /\ Notify(p, WaitsForSpace)
            /\ UNCHANGED <<buffer_space, pushed, faults, usage>>
         \/ HandlerFails(p, PopRing(queue), freeList)

\* The loop that pops until the queue is empty.
PopAll(p) ==
    LET rings[i \in 0 .. queue.n] ==
          IF i = 0 THEN <<queue, freeList>>
          ELSE LET q == rings[i - 1][1]
                   f == rings[i - 1][2]
               IN  <<PopRing(q), PushRing(f, Front(q))>>
    IN  \/ /\ queue' = rings[queue.n][1]
           /\ freeList' = rings[queue.n][2]
           /\ has_data' = FALSE
           /\ Notify(p, WaitsForSpace)
           /\ UNCHANGED <<buffer_space, pushed, faults, usage>>
        \/ \E i \in 1 .. queue.n : HandlerFails(p, rings[i][1], rings[i - 1][2])

Peek(p) ==
    IF IsEmpty(queue)
    THEN Throw(p, queue, freeList) /\ UNCHANGED <<buffer_space, pushed>>
    ELSE \/ Notify(p, {}) /\ UNCHANGED <<queue, freeList, buffer_space, has_data, pushed,
                                         faults, usage>>
         \/ HandlerFails(p, queue, freeList)

pop_wait(p) ==
    /\ Calls(p, "pop_wait")
    /\ IF has_data THEN PopOne(p) ELSE Wait(p, "pop_wait")

popall_wait(p) ==
    /\ Calls(p, "popall_wait")
    /\ IF has_data THEN PopAll(p) ELSE Wait(p, "popall_wait")

peek_wait(p) ==
    /\ Calls(p, "peek_wait")
    /\ IF has_data THEN Peek(p) ELSE Wait(p, "peek_wait")

\* Again, the condition is not looked at after the wait.
pop_wait_woken(p)    == Awake(p) /\ op[p] = "pop_wait" /\ PopOne(p)
popall_wait_woken(p) == Awake(p) /\ op[p] = "popall_wait" /\ PopAll(p)
peek_wait_woken(p)   == Awake(p) /\ op[p] = "peek_wait" /\ Peek(p)

pop_nowait(p)    == Calls(p, "pop_nowait") /\ has_data /\ PopOne(p)
popall_nowait(p) == Calls(p, "popall_nowait") /\ has_data /\ PopAll(p)
peek_nowait(p)   == Calls(p, "peek_nowait") /\ has_data /\ Peek(p)

(***************************************************************************)
(* Empties the queue; the flag and those who wait are left as they are.    *)
(***************************************************************************)
reset(p) ==
    /\ Calls(p, "reset")
    /\ queue' = ResetRing(queue)
    /\ freeList' = AllFree(freeList)
    /\ UNCHANGED <<buffer_space, has_data, at, op, pushed, faults, usage>>

Push(p) == push_wait(p) \/ push_wait_woken(p) \/ push_nowait(p) \/ push_wait_force(p)

Pop(p) ==
    \/ pop_wait(p) \/ pop_wait_woken(p) \/ pop_nowait(p)
    \/ popall_wait(p) \/ popall_wait_woken(p) \/ popall_nowait(p)

PeekAt(p) == peek_wait(p) \/ peek_wait_woken(p) \/ peek_nowait(p)

\* A process that finds the queue full or empty, or the mutex taken for too long,
\* returns with nothing changed.
GivesUp(p) == at[p] = "idle" /\ UNCHANGED vars

Next == \E p \in Proc : Push(p) \/ Pop(p) \/ PeekAt(p) \/ reset(p) \/ Timeout(p)
                        \/ Startle(p) \/ GivesUp(p)

Spec == Init /\ [][Next]_vars

\* A process that pops does so again and again, one that waits goes on at the latest
\* after its timeout, and both get the mutex in the end: it is held for the time a
\* handler needs, and asked for again at once when it has not been given in time.
Resumes(p) == at[p] # "idle" /\ (Push(p) \/ Pop(p) \/ PeekAt(p) \/ Timeout(p))

FairSpec == Spec /\ \A p \in Proc : SF_vars(Pop(p)) /\ SF_vars(Resumes(p))

(***************************************************************************)
(* Properties.                                                             *)
(***************************************************************************)
TypeOK ==
    /\ queue \in Ring(Buffer, Capacity)
    /\ freeList \in Ring(Buffer, NumberBuffers)
    /\ buffer_space \in [Buffer -> Item \cup {Nothing}]
    /\ has_data \in BOOLEAN
    /\ at \in [Proc -> {"idle", "waiting", "woken", "startled"}]
    /\ op \in [Proc -> Op \cup {"none"}]
    /\ pushed \in 0 .. MaxPushes /\ faults \subseteq {"idle", "woken", "startled"}

Filled == {Elements(queue)[i] : i \in 1 .. queue.n}
Free   == {Elements(freeList)[i] : i \in 1 .. freeList.n}

\* A buffer is in one place only: what waits in the queue is never handed out to
\* another push, and no buffer is handed out to two of them.  The indexes of the rings
\* and all variables keep to their types.
BuffersDistinct ==
    /\ TypeOK
    /\ Filled \cap Free = {}
    /\ Cardinality(Filled) = queue.n /\ Cardinality(Free) = freeList.n

\* No wakeup is lost: no process sleeps in a pop or peek while there is an item
\* to take, nor in a push after the queue has been found empty by a pop.
NoLostWakeup ==
    /\ WaitsForData # {} => IsEmpty(queue) /\ ~ has_data
    /\ WaitsForSpace # {} => has_data

\* One process pushes, one pops or peeks, and nobody resets or forces an item into the queue.
OneToOne(u) ==
    \E w, r \in Proc :
        /\ w # r /\ \A p \in Proc \ {w, r} : u[p] = {}
        /\ u[w] \subseteq {"push_wait", "push_nowait"}
        /\ u[r] \subseteq Popping \cup {"peek_wait", "peek_nowait"}

\* Although nothing is checked again after a wait, in a queue between two processes only
\* an operation whose wait ended for no reason raises an exception: a process that has been
\* notified finds what it waited for, whatever a startled one did in between.  Until that
\* happens no buffer is lost.
OnlyStartledThrow ==
    OneToOne(usage) => /\ faults \subseteq {"startled"}
                       /\ faults = {} => queue.n + freeList.n = NumberBuffers

\* The items the queue stands for.
Contents == [i \in 1 .. queue.n |-> buffer_space[Elements(queue)[i]]]

Fifo == INSTANCE BoundedFifo WITH contents <- Contents

ImplementsFifo == Fifo!Spec

\* When some process pops, every item is taken out of the queue in the end, whatever
\* the others push, peek at or reset.
EveryItemTaken ==
    \A i \in Item : (\E p \in Proc : usage[p] \cap Popping # {}) =>
        (\E b \in Filled : buffer_space[b] = i) ~> (\A b \in Filled : buffer_space[b] # i)

=============================================================================

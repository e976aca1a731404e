-------------------------- MODULE VardisProtocolData --------------------------
(***************************************************************************)
(* The real-time database of one Vardis entity and its six queues, and the *)
(* operations on them (class VardisProtocolData).  As in the code, nothing *)
(* here concerns mutual exclusion: an operator takes the protocol data s   *)
(* and returns the protocol data after the operation.  VardisNode calls    *)
(* the operators from the threads of one daemon, VardisNetwork composes    *)
(* several entities.                                                       *)
(***************************************************************************)
EXTENDS VardisSeqno, VarIdQueue

CONSTANTS
    VarId,              \* variable identifiers, numbers: active_variables is sorted
    NodeId,             \* node identifiers
    Value,              \* variable values
    ValueLen,           \* [Value -> Nat], the length of a value
    MaxValueLength,     \* vardis_maxValueLength
    MaxDescrLength,     \* vardis_maxDescriptionLength
    MaxRepetitions,     \* vardis_maxRepetitions
    MaxSummaries,       \* vardis_maxSummaries
    MaxRecords,         \* ICHeaderT::max_records(), 255
    HeaderSize,         \* ICHeaderT::fixed_size(), 2
    FixedSize           \* bytes of a record without its value and description

\* The instruction container types; each has the queue of the same name.
ICType == {"create", "delete", "update", "summary", "reqUpd", "reqCreate"}

\* The types whose records are repeated, with a counter in the database entry.
Counted == {"create", "delete", "update"}

ASSUME ProtocolDataAssumption ==
    /\ VarId \subseteq Nat
    /\ ValueLen \in [Value -> Nat]
    /\ MaxRepetitions \in Nat /\ MaxSummaries \in Nat /\ MaxRecords \in Nat \ {0}
    /\ HeaderSize \in Nat
    /\ FixedSize \in [ICType -> Nat]

\* The counter values, and the DBEntry together with the value and the length
\* of the description that the variable store keeps beside it.
RepCnt == 0 .. MaxRepetitions
Entry == [prodId : NodeId, repCnt : RepCnt, creationTime : Nat, timeout : Nat,
          seqno : Seqno, tStamp : Nat, count : [Counted -> RepCnt],
          isDeleted : BOOLEAN, descr : Nat, value : Value]

\* Only the counter of the records of type k runs.
OnlyCount(k, n) == [c \in Counted |-> IF c = k THEN n ELSE 0]

\* The protocol data: the identifiers in use in the variable store, their
\* entries, the set active_variables and the queues.
ProtocolData == [used : SUBSET VarId, db : [VarId -> Entry],
                 active : SUBSET VarId, q : [ICType -> Seq(VarId)]]

variableExists(s, v) == v \in s.used
producerIsMe(s, v, me) == s.db[v].prodId = me

(***************************************************************************)
(* The instruction records.  A description is represented by its length.   *)
(***************************************************************************)
CreateRecord == [varId : VarId, prodId : NodeId, repCnt : Nat,
                 creationTime : Nat, timeout : Nat, descr : Nat,
                 seqno : Seqno, value : Value]
UpdateRecord == [varId : VarId, seqno : Seqno, value : Value]
SeqnoRecord  == [varId : VarId, seqno : Seqno]
VarIdRecord  == [varId : VarId]

Record(k) ==
    CASE k = "create" -> CreateRecord
      [] k = "update" -> UpdateRecord
      [] k \in {"summary", "reqUpd"} -> SeqnoRecord
      [] k \in {"delete", "reqCreate"} -> VarIdRecord

AnyRecord == CreateRecord \cup UpdateRecord \cup SeqnoRecord \cup VarIdRecord

RecordSize(k, r) ==
    CASE k = "create" -> FixedSize[k] + ValueLen[r.value] + r.descr
      [] k = "update" -> FixedSize[k] + ValueLen[r.value]
      [] OTHER -> FixedSize[k]

\* addVarCreate, addVarUpdate, ...: the record sent for a variable.
RecordFor(s, k, v) ==
    LET e == s.db[v]
    IN CASE k = "create" ->
              [varId |-> v, prodId |-> e.prodId, repCnt |-> e.repCnt,
               creationTime |-> e.creationTime, timeout |-> e.timeout,
               descr |-> e.descr, seqno |-> e.seqno, value |-> e.value]
         [] k = "update" -> [varId |-> v, seqno |-> e.seqno, value |-> e.value]
         [] k \in {"summary", "reqUpd"} -> [varId |-> v, seqno |-> e.seqno]
         [] OTHER -> [varId |-> v]

(***************************************************************************)
(* Steps shared by the handlers.                                           *)
(***************************************************************************)
Enqueue(s, k, v) == [s EXCEPT !.q[k] = Insert(@, v)]

\* Changes the entry of v to e and the queues to q.
ChangeEntry(s, v, e, q) ==
    [used |-> s.used, db |-> [s.db EXCEPT ![v] = e], active |-> s.active, q |-> q]

\* Mutant of MoveToQueues: the other queues keep v.
MoveToQueuesOnly(s, v, ks) ==
    [k \in ICType |-> IF k \in ks THEN Insert(s.q[k], v) ELSE s.q[k]]

\* Takes v out of all six queues, then puts it into those of the set ks.
MoveToQueues(s, v, ks) ==
    [k \in ICType |-> IF k \in ks THEN Insert(Remove(s.q[k], v), v)
                                  ELSE Remove(s.q[k], v)]

InstallEntry(s, v, e) ==
    [used |-> s.used \cup {v}, db |-> [s.db EXCEPT ![v] = e],
     active |-> s.active \cup {v}, q |-> MoveToQueues(s, v, {"create", "summary"})]

\* An entry as process_var_create and handle_rtdb_create_request set it up.
NewEntry(spec, prodId, created, seqno, value, now) ==
    [prodId |-> prodId, repCnt |-> spec.repCnt, creationTime |-> created,
     timeout |-> spec.timeout, seqno |-> seqno, tStamp |-> now,
     count |-> OnlyCount("create", spec.repCnt),
     isDeleted |-> FALSE, descr |-> spec.descr, value |-> value]

\* Mutant of MarkDeleted: the counters of the other records are not reset.
MarkDeletedKeepsCounters(s, v) ==
    LET e == [s.db[v] EXCEPT !.isDeleted = TRUE, !.count["delete"] = s.db[v].repCnt]
    IN  ChangeEntry(s, v, e, MoveToQueues(s, v, {"delete"}))

\* Mutant of MarkDeleted: nobody is told.
MarkDeletedQuietly(s, v) ==
    LET e == [s.db[v] EXCEPT !.isDeleted = TRUE, !.count = OnlyCount("delete", 0)]
    IN  ChangeEntry(s, v, e, MoveToQueues(s, v, {}))

MarkDeleted(s, v) ==
    LET e == [s.db[v] EXCEPT !.isDeleted = TRUE,
                             !.count = OnlyCount("delete", s.db[v].repCnt)]
    IN  ChangeEntry(s, v, e, MoveToQueues(s, v, {"delete"}))

\* Start (again) to repeat the records of type k for v, whose entry becomes e.
RepeatWith(s, k, v, e) ==
    ChangeEntry(s, v, [e EXCEPT !.count = [@ EXCEPT ![k] = e.repCnt]],
                [s.q EXCEPT ![k] = Insert(@, v)])

Repeat(s, k, v) == RepeatWith(s, k, v, s.db[v])

\* Mutant of NewValue: the sequence number is not taken over.
NewValueOnly(e, seqno, value, now) == [e EXCEPT !.tStamp = now, !.value = value]

\* An entry with a newer value.
NewValue(e, seqno, value, now) ==
    [e EXCEPT !.seqno = seqno, !.tStamp = now, !.value = value]

\* Mutant of EducateSender: nobody but the producer answers.
EducateSenderNever(s, v) == s

\* A neighbour is behind: send it updates, unless they are under way already.
EducateSender(s, v) == IF Contains(s.q["update"], v) THEN s ELSE Repeat(s, "update", v)

LegalValue(value) == ValueLen[value] \in 1 .. MaxValueLength
LegalRepCnt(n) == n \in 1 .. MaxRepetitions

(***************************************************************************)
(* Received instruction records.                                           *)
(***************************************************************************)
\* Mutant of process_var_create: > instead of >= between the creation times.
process_var_create_again(s, r, me, now) ==
    IF \/ variableExists(s, r.varId) /\ s.db[r.varId].creationTime > r.creationTime
       \/ r.prodId = me
       \/ r.descr \notin 1 .. MaxDescrLength
       \/ ~ LegalValue(r.value)
       \/ ~ LegalRepCnt(r.repCnt)
    THEN s
    ELSE InstallEntry(s, r.varId,
                      NewEntry(r, r.prodId, r.creationTime, r.seqno, r.value, now))

process_var_create(s, r, me, now) ==
    IF \/ variableExists(s, r.varId) /\ s.db[r.varId].creationTime >= r.creationTime
       \/ r.prodId = me
       \/ r.descr \notin 1 .. MaxDescrLength
       \/ ~ LegalValue(r.value)
       \/ ~ LegalRepCnt(r.repCnt)
    THEN s
    ELSE InstallEntry(s, r.varId,
                      NewEntry(r, r.prodId, r.creationTime, r.seqno, r.value, now))

\* Mutant of process_var_delete: the producer obeys as well.
process_var_delete_own(s, r, me) ==
    IF ~ variableExists(s, r.varId) \/ s.db[r.varId].isDeleted THEN s
    ELSE MarkDeleted(s, r.varId)

process_var_delete(s, r, me) ==
    IF \/ ~ variableExists(s, r.varId)
       \/ s.db[r.varId].isDeleted
       \/ producerIsMe(s, r.varId, me)
    THEN s
    ELSE MarkDeleted(s, r.varId)

process_var_update(s, r, me, now) ==
    LET v == r.varId
        e == s.db[v]
    IN  IF ~ variableExists(s, v) THEN Enqueue(s, "reqCreate", v)
        ELSE IF \/ e.isDeleted \/ producerIsMe(s, v, me)
                \/ ~ LegalValue(r.value) \/ e.seqno = r.seqno THEN s
        ELSE IF more_recent_seqno(e.seqno, r.seqno) THEN EducateSender(s, v)
        ELSE LET t == RepeatWith(s, "update", v, NewValue(e, r.seqno, r.value, now))
             IN  [t EXCEPT !.q["reqUpd"] = Remove(@, v)]

\* Mutant of process_var_summary: an unknown variable is not asked for.
process_var_summary_known(s, r, me) ==
    LET v == r.varId
        e == s.db[v]
    IN  IF ~ variableExists(s, v) THEN s
        ELSE IF e.isDeleted \/ producerIsMe(s, v, me) \/ e.seqno = r.seqno THEN s
        ELSE IF more_recent_seqno(e.seqno, r.seqno) THEN EducateSender(s, v)
        ELSE Enqueue(s, "reqUpd", v)

process_var_summary(s, r, me) ==
    LET v == r.varId
        e == s.db[v]
    IN  IF ~ variableExists(s, v) THEN Enqueue(s, "reqCreate", v)
        ELSE IF e.isDeleted \/ producerIsMe(s, v, me) \/ e.seqno = r.seqno THEN s
        ELSE IF more_recent_seqno(e.seqno, r.seqno) THEN EducateSender(s, v)
        ELSE Enqueue(s, "reqUpd", v)

process_var_requpdate(s, r) ==
    LET v == r.varId
        e == s.db[v]
    IN  IF ~ variableExists(s, v) THEN Enqueue(s, "reqCreate", v)
        ELSE IF e.isDeleted \/ more_recent_seqno(r.seqno, e.seqno) THEN s
        ELSE Repeat(s, "update", v)

process_var_reqcreate(s, r) ==
    LET v == r.varId
    IN  IF ~ variableExists(s, v) THEN Enqueue(s, "reqCreate", v)
        ELSE IF s.db[v].isDeleted THEN s
        ELSE Repeat(s, "create", v)

\* The handler process_received_payload calls for a record of type k.
ProcessRecord(s, k, r, me, now) ==
    CASE k = "create"    -> process_var_create(s, r, me, now)
      [] k = "delete"    -> process_var_delete(s, r, me)
      [] k = "update"    -> process_var_update(s, r, me, now)
      [] k = "summary"   -> process_var_summary(s, r, me)
      [] k = "reqUpd"    -> process_var_requpdate(s, r)
      [] k = "reqCreate" -> process_var_reqcreate(s, r)

(***************************************************************************)
(* RTDB service requests of the local applications.  The status operators  *)
(* give the code of the confirm; only OK changes the protocol data.        *)
(***************************************************************************)
CreateRequest == [varId : VarId, repCnt : Nat, timeout : Nat, descr : Nat,
                  value : Value]

RtdbCreateStatus(s, r, me, isActive) ==
    IF ~ isActive THEN "INACTIVE"
    ELSE IF variableExists(s, r.varId) /\ ~ producerIsMe(s, r.varId, me)
         THEN "VARIABLE_EXISTS"
    ELSE IF r.descr > MaxDescrLength THEN "VARIABLE_DESCRIPTION_TOO_LONG"
    ELSE IF ValueLen[r.value] > MaxValueLength THEN "VALUE_TOO_LONG"
    ELSE IF ValueLen[r.value] = 0 THEN "EMPTY_VALUE"
    ELSE IF ~ LegalRepCnt(r.repCnt) THEN "ILLEGAL_REPCOUNT"
    ELSE "OK"

\* With an empty description update_description throws after the entry has been
\* stored and before active_variables and the queues are touched.
RtdbCreateThrows(r) == r.descr = 0

handle_rtdb_create_request(s, r, me, now) ==
    LET e == NewEntry(r, me, now, 0, r.value, now)
    IN  IF RtdbCreateThrows(r)
        THEN [s EXCEPT !.used = @ \cup {r.varId}, !.db = [@ EXCEPT ![r.varId] =
                [e EXCEPT !.descr = s.db[r.varId].descr, !.value = s.db[r.varId].value]]]
        ELSE InstallEntry(s, r.varId, e)

\* The checks that update and delete have in common, in the order of update.
RtdbModifyStatus(s, v, me, isActive) ==
    IF ~ isActive THEN "INACTIVE"
    ELSE IF ~ variableExists(s, v) THEN "VARIABLE_DOES_NOT_EXIST"
    ELSE IF ~ producerIsMe(s, v, me) THEN "NOT_PRODUCER"
    ELSE IF s.db[v].isDeleted THEN "VARIABLE_IS_DELETED"
    ELSE "OK"

RtdbUpdateStatus(s, v, value, me, isActive) ==
    LET common == RtdbModifyStatus(s, v, me, isActive)
    IN  IF common # "OK" THEN common
        ELSE IF ValueLen[value] > MaxValueLength THEN "VALUE_TOO_LONG"
        ELSE IF ValueLen[value] = 0 THEN "EMPTY_VALUE"
        ELSE "OK"

handle_rtdb_update_request(s, v, value, now) ==
    RepeatWith(s, "update", v, NewValue(s.db[v], NextSeqno(s.db[v].seqno), value, now))

handle_rtdb_delete_request(s, v) == MarkDeleted(s, v)

(***************************************************************************)
(* Building instruction containers.                                        *)
(***************************************************************************)
\* Mutant of ContainerSize: the header is forgotten.
ContainerSizeNoHeader(s, k, n) ==
    LET size[i \in 0 .. n] ==
          IF i = 0 THEN 0
          ELSE size[i - 1] + RecordSize(k, RecordFor(s, k, s.q[k][i]))
    IN  size[n]

\* The bytes of a container with the first n records of queue k.
ContainerSize(s, k, n) ==
    LET size[i \in 0 .. n] ==
          IF i = 0 THEN HeaderSize
          ELSE size[i - 1] + RecordSize(k, RecordFor(s, k, s.q[k][i]))
    IN  size[n]

FittingNumbers(s, k, available) ==
    {n \in 1 .. Len(s.q[k]) : n <= MaxRecords /\ ContainerSize(s, k, n) <= available}

\* The early return of the makeICType... functions.
CanAddContainer(s, k, available) ==
    /\ s.q[k] # <<>>
    /\ ContainerSize(s, k, 1) <= available
    /\ k = "summary" => MaxSummaries > 0

numberFittingRecords(s, k, available) ==
    LET fitting == FittingNumbers(s, k, available)
        most == CHOOSE n \in fitting : \A m \in fitting : m <= n
    IN  IF k = "summary" /\ MaxSummaries < most THEN MaxSummaries ELSE most

\* The checks made, after the pop, on the front of queue k.
SendThrows(s, k) ==
    LET v == Head(s.q[k])
    IN  \/ k # "reqCreate" /\ ~ variableExists(s, v)
        \/ k \in Counted /\ s.db[v].count[k] = 0

\* What an exception leaves behind: the front has been popped, and a summary has
\* been put back already.
AfterThrow(s, k) ==
    LET popped == PopFront(s.q[k])
    IN  [s EXCEPT !.q[k] = IF k = "summary" THEN Insert(popped, Head(s.q[k])) ELSE popped]

\* Mutant of SendRecord: the counter is not decremented.
SendRecordForever(s, k) ==
    LET v == Head(s.q[k])
        popped == PopFront(s.q[k])
        again == k = "summary" \/ k \in Counted
    IN  [s EXCEPT !.q[k] = IF again THEN Insert(popped, v) ELSE popped]

\* One turn of the serialisation loop for the front v of queue k: a counted
\* record leaves the queue with its last repetition, a summary never, a request
\* at once.
SendRecord(s, k) ==
    LET v == Head(s.q[k])
        popped == PopFront(s.q[k])
        again == \/ k = "summary"
                 \/ k \in Counted /\ s.db[v].count[k] > 1
        e == s.db[v]
        left == IF k \in Counted THEN [e.count EXCEPT ![k] = @ - 1] ELSE e.count
    IN  ChangeEntry(s, v, [e EXCEPT !.count = left],
                    [s.q EXCEPT ![k] = IF again THEN Insert(popped, v) ELSE popped])

(***************************************************************************)
(* Payloads: sequences of containers [type, recs].                         *)
(***************************************************************************)
\* The order in which the transmitter adds containers to a payload, and the one
\* in which the receiver applies them to the database.
TxOrder == <<"create", "delete", "reqCreate", "summary", "update", "reqUpd">>
RxOrder == <<"create", "delete", "update", "summary", "reqUpd", "reqCreate">>

ContainerBytes(c) ==
    LET size[i \in 0 .. Len(c.recs)] ==
          IF i = 0 THEN HeaderSize ELSE size[i - 1] + RecordSize(c.type, c.recs[i])
    IN  size[Len(c.recs)]

PayloadBytes(p) ==
    LET size[i \in 0 .. Len(p)] == IF i = 0 THEN 0 ELSE size[i - 1] + ContainerBytes(p[i])
    IN  size[Len(p)]

(***************************************************************************)
(* What the operations above keep true of the protocol data.               *)
(***************************************************************************)
\* A queue whose records are counted holds exactly the variables whose counter is
\* not zero.  The makeICType... functions throw otherwise.
CountersMatchQueues(s) ==
    \A k \in Counted, v \in VarId :
        v \in Members(s.q[k]) <=> v \in s.used /\ s.db[v].count[k] > 0

\* A deleted variable is on its way out: it waits in deleteQ or nowhere.
DeletedOnlyInDeleteQ(s) ==
    \A v \in s.used : s.db[v].isDeleted =>
        \A k \in ICType \ {"delete"} : v \notin Members(s.q[k])

\* Summaries are sent of exactly the live variables, deleteQ holds only deleted
\* ones, the request queues hold only what they can ask for.
QueuesHoldTheRightVariables(s) ==
    /\ Members(s.q["summary"]) = {v \in s.used : ~ s.db[v].isDeleted}
    /\ \A v \in Members(s.q["delete"]) : s.db[v].isDeleted
    /\ Members(s.q["reqUpd"]) \subseteq s.used
    /\ Members(s.q["reqCreate"]) \cap s.used = {}

ActiveAreUsed(s) == s.active = s.used /\ \A v \in s.used : s.db[v].repCnt > 0

Consistent(s) ==
    /\ ActiveAreUsed(s) /\ CountersMatchQueues(s)
    /\ DeletedOnlyInDeleteQ(s) /\ QueuesHoldTheRightVariables(s)

\* The data are of their types and no queue holds an identifier twice.
AreQueues(q) ==
    q \in [ICType -> Seq(VarId)] /\ \A k \in ICType : IsVarIdQueue(q[k], VarId)

WellTyped(s) == s \in ProtocolData /\ AreQueues(s.q)

=============================================================================

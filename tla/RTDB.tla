--------------------------------- MODULE RTDB ---------------------------------
(***************************************************************************)
(* The first implementation of Vardis, that of the published simulations   *)
(* (src/simulation-code-paper/srp_vardis/src/rtdb): class RTDB as          *)
(* operators on its data.  Unlike the daemon's, its queues hold copies of  *)
(* records, each with the repetitions that are left, and a beacon is made  *)
(* by going round each queue at most once.                                 *)
(*                                                                         *)
(* Variables cannot be deleted: nothing calls markForDeletion.  All        *)
(* variables have the same length and description, as those of             *)
(* BasicApplication have.                                                  *)
(***************************************************************************)
EXTENDS Integers, Sequences, FiniteSets

CONSTANTS
    VarId, NodeId, Value,
    SeqnoModulus,       \* of seqNo_t, 256
    VarLen, DescrLen,   \* bytes of a variable and of its description
    MaxVariableLen, MaxDescriptionLen, MaxRepetitions, MaxNumSummaries,
    MaxPacketSize

ASSUME RTDBAssumption ==
    /\ SeqnoModulus \in Nat /\ SeqnoModulus > 3 /\ SeqnoModulus % 2 = 0
    /\ VarLen \in 0 .. MaxVariableLen /\ DescrLen \in 0 .. MaxDescriptionLen
    /\ MaxRepetitions \in Nat /\ MaxNumSummaries \in Nat /\ MaxPacketSize \in Nat

Seqno == 0 .. SeqnoModulus - 1
RepCnt == 0 .. MaxRepetitions

RTDBVariable == [producer : NodeId, repCnt : RepCnt, seqNo : Seqno, val : Value]

RTDBVarCreate == [id : VarId, producer : NodeId, repCnt : RepCnt, seqNo : Seqno, val : Value,
                  left : Nat]
RTDBVarUpdate == [id : VarId, seqNo : Seqno, val : Value, left : Nat]
RTDBVarReqUpdate == [id : VarId, seqNo : Seqno, left : Nat]
RTDBVarReqCreate == [id : VarId, left : Nat]

NoData == [db |-> [v \in {} |-> {}], createQ |-> <<>>, updateQ |-> <<>>, summaryQ |-> <<>>,
           reqCreateQ |-> <<>>, reqUpdateQ |-> <<>>]

Known(s, v) == v \in DOMAIN s.db

With(db, v, x) == [w \in DOMAIN db \cup {v} |-> IF w = v THEN x ELSE db[w]]

\* What the records are made of the entry of v.
VarCreate(s, v) ==
    [id |-> v, producer |-> s.db[v].producer, repCnt |-> s.db[v].repCnt,
     seqNo |-> s.db[v].seqNo, val |-> s.db[v].val, left |-> s.db[v].repCnt]

VarUpdate(s, v) ==
    [id |-> v, seqNo |-> s.db[v].seqNo, val |-> s.db[v].val, left |-> s.db[v].repCnt]

VarReqUpdate(s, v) == [id |-> v, seqNo |-> s.db[v].seqNo, left |-> s.db[v].repCnt]

VarReqCreate(v) == [id |-> v, left |-> 1]

\* updateQRemoveID and its like
RemoveID(q, v) ==
    LET kept[i \in 0 .. Len(q)] ==
            IF i = 0 THEN <<>>
            ELSE IF q[i].id = v THEN kept[i - 1] ELSE Append(kept[i - 1], q[i])
    IN  kept[Len(q)]

(***************************************************************************)
(* Sequence numbers: 0 is skipped.                                         *)
(***************************************************************************)
seqNoMoreRecent(our, new) ==
    our # new /\ (new - our) % SeqnoModulus < (our - new) % SeqnoModulus

NextSeqno(n) == IF n = SeqnoModulus - 1 THEN 1 ELSE n + 1

(***************************************************************************)
(* Requests of the application.                                            *)
(***************************************************************************)
CreateCode(s, v, repCnt) ==
    CASE Known(s, v) -> "RC_VARIABLE_EXISTS"
      [] repCnt > MaxRepetitions -> "RC_WRONG_REPETITION_NUMBER"
      [] OTHER -> "RC_OK"

\* The data with a new variable, to be announced from now on.
Create(s, v, x) ==
    LET t == [s EXCEPT !.db = With(@, v, x), !.summaryQ = Append(@, v)]
    IN  [t EXCEPT !.createQ = Append(@, VarCreate(t, v))]

handleAPICreateReq(s, me, v, repCnt, val) ==
    IF CreateCode(s, v, repCnt) # "RC_OK" THEN s
    ELSE Create(s, v, [producer |-> me, repCnt |-> repCnt, seqNo |-> 1, val |-> val])

UpdateCode(s, me, v) ==
    CASE ~ Known(s, v) -> "RC_VARIABLE_DOES_NOT_EXIST"
      [] s.db[v].producer # me -> "RC_VARIABLE_IS_NOT_PRODUCER"
      [] OTHER -> "RC_OK"

\* The entry of v with a new value, and its sequence number.
Updated(s, v, seqNo, val) ==
    [s EXCEPT !.db = With(@, v, [@[v] EXCEPT !.seqNo = seqNo, !.val = val])]

\* The data with an update of v to be sent, of the value v has now.
SendUpdate(s, v) == [s EXCEPT !.updateQ = Append(RemoveID(@, v), VarUpdate(s, v))]

\* Mutant of handleAPIUpdateReq: earlier updates are left in the queue.
UpdateKeepingOld(s, me, v, val) ==
    LET t == Updated(s, v, NextSeqno(s.db[v].seqNo), val)
    IN  IF UpdateCode(s, me, v) # "RC_OK" THEN s
        ELSE [t EXCEPT !.updateQ = Append(@, VarUpdate(t, v))]

handleAPIUpdateReq(s, me, v, val) ==
    IF UpdateCode(s, me, v) # "RC_OK" THEN s
    ELSE SendUpdate(Updated(s, v, NextSeqno(s.db[v].seqNo), val), v)

(***************************************************************************)
(* Beacons.  A beacon has five containers, empty ones of which are left    *)
(* out; while it is made, each is counted with its header.                 *)
(***************************************************************************)
HeaderLen == 3
SummaryLen == 2 + 1
UpdateLen == 2 + 1 + 2 + VarLen
CreateLen == (2 + 6 + 2 + DescrLen + 1) + UpdateLen
ReqUpdateLen == 2 + 1
ReqCreateLen == 2

ElementLen ==
    [createQ |-> CreateLen, updateQ |-> UpdateLen, summaryQ |-> SummaryLen,
     reqCreateQ |-> ReqCreateLen, reqUpdateQ |-> ReqUpdateLen]

ContainerLen(k, recs) == IF recs = <<>> THEN 0 ELSE HeaderLen + Len(recs) * ElementLen[k]

BeaconLen(b) ==
    ContainerLen("createQ", b.createQ) + ContainerLen("updateQ", b.updateQ)
      + ContainerLen("summaryQ", b.summaryQ) + ContainerLen("reqCreateQ", b.reqCreateQ)
      + ContainerLen("reqUpdateQ", b.reqUpdateQ)

\* The element of a packet that a record of a queue becomes.
PacketElement(r) == [f \in DOMAIN r \ {"left"} |-> r[f]]

\* Records that are no longer wanted: of a variable that is not known, or a request
\* for the creation of one that is.
Dropped(s, k, r) == IF k = "reqCreateQ" THEN Known(s, r.id) ELSE ~ Known(s, r.id)

\* Records between which the round makes no difference.
SameRecord(k, r, first) ==
    r.id = first.id /\ (k \in {"createQ", "updateQ"} => r.seqNo = first.seqNo)

\* Mutant of Fits: the header is not counted.
FitsWithoutHeader(k, n, used) == used + n * ElementLen[k] <= MaxPacketSize

\* Whether n records of the queue k fit into a beacon of which some bytes are used.
Fits(k, n, used) == used + HeaderLen + n * ElementLen[k] <= MaxPacketSize

\* One turn of the loop that takes records from a queue: recs are in the beacon,
\* again those of them that come back to the queue, and once there is a record
\* that does not fit or has been met before, the loop stops and all others are kept.
TakeRecord(s, k, used, c, r) ==
    LET met == c.again # <<>> /\ SameRecord(k, r, Head(c.again))
    IN  CASE c.stop -> [c EXCEPT !.kept = Append(@, r)]
          [] ~ c.stop /\ Dropped(s, k, r) -> c
          [] ~ c.stop /\ ~ Dropped(s, k, r) /\ (met \/ ~ Fits(k, Len(c.recs) + 1, used)) ->
                [c EXCEPT !.stop = TRUE, !.kept = Append(@, r)]
          [] OTHER ->
                [c EXCEPT !.recs = Append(@, PacketElement(r)),
                          !.again = IF r.left > 1 THEN Append(@, [r EXCEPT !.left = @ - 1])
                                    ELSE @]

\* The loop is not entered when the beacon is full, and that of the update requests
\* not when that of the creation requests has stopped.
Closed(s, k, used) ==
    CASE k \in {"createQ", "updateQ"} -> used >= MaxPacketSize
      [] k = "reqCreateQ" -> FALSE
      [] k = "reqUpdateQ" -> s.reqCreateQ # <<>>

\* The records taken from queue k, and what is in it then.
Round(s, k, used) ==
    LET start == [recs |-> <<>>, again |-> <<>>, kept |-> <<>>, stop |-> Closed(s, k, used)]
        turn[i \in 0 .. Len(s[k])] ==
            IF i = 0 THEN start ELSE TakeRecord(s, k, used, turn[i - 1], s[k][i])
    IN  turn[Len(s[k])]

\* The number of summaries.  The loop of the updates has left "stop" behind if there are
\* updates that stay in their queue, and then there are none.
NumSummaries(s, used) ==
    IF s.updateQ # <<>> THEN 0
    ELSE Cardinality({n \in 1 .. Len(s.summaryQ) :
                         /\ n <= MaxNumSummaries
                         /\ used + HeaderLen + n * SummaryLen < MaxPacketSize})

\* A beacon under construction: the data that remain, what is in the beacon, its bytes.
AddQueue(c, k) ==
    LET round == Round(c.data, k, c.used)
    IN  [data |-> [c.data EXCEPT ![k] = round.kept \o round.again],
         beacon |-> [c.beacon EXCEPT ![k] = round.recs],
         used |-> c.used + HeaderLen + Len(round.recs) * ElementLen[k]]

AddSummaries(c) ==
    LET n == NumSummaries(c.data, c.used)
        q == c.data.summaryQ
        summary(i) == [id |-> q[i], seqNo |-> c.data.db[q[i]].seqNo]
    IN  [data |-> [c.data EXCEPT !.summaryQ = SubSeq(q, n + 1, Len(q)) \o SubSeq(q, 1, n)],
         beacon |-> [c.beacon EXCEPT !.summaryQ = [i \in 1 .. n |-> summary(i)]],
         used |-> c.used + HeaderLen + n * SummaryLen]

EmptyBeacon == [createQ |-> <<>>, updateQ |-> <<>>, summaryQ |-> <<>>, reqCreateQ |-> <<>>,
                reqUpdateQ |-> <<>>]

constructBeacon(s, initBeaconLen) ==
    LET start == [data |-> s, beacon |-> EmptyBeacon, used |-> initBeaconLen]
        updates == AddQueue(AddQueue(start, "createQ"), "updateQ")
    IN  AddQueue(AddQueue(AddSummaries(updates), "reqCreateQ"), "reqUpdateQ")

(***************************************************************************)
(* Received beacons, whose records are processed in this order.            *)
(***************************************************************************)
processCreate(s, r) ==
    IF Known(s, r.id) THEN s
    ELSE LET t == Create(s, r.id, [producer |-> r.producer, repCnt |-> r.repCnt,
                                   seqNo |-> r.seqNo, val |-> r.val])
         IN  [t EXCEPT !.reqCreateQ = RemoveID(@, r.id)]

AskForCreate(s, v) == [s EXCEPT !.reqCreateQ = Append(@, VarReqCreate(v))]

\* Mutant of processUpdate: whatever differs is taken over.
processUpdateAny(s, me, r) ==
    CASE ~ Known(s, r.id) -> AskForCreate(s, r.id)
      [] Known(s, r.id) /\ s.db[r.id].producer # me /\ s.db[r.id].seqNo # r.seqNo ->
            SendUpdate([Updated(s, r.id, r.seqNo, r.val) EXCEPT
                          !.reqUpdateQ = RemoveID(@, r.id)], r.id)
      [] OTHER -> s

processUpdate(s, me, r) ==
    CASE ~ Known(s, r.id) -> AskForCreate(s, r.id)
      [] Known(s, r.id) /\ s.db[r.id].producer # me
           /\ seqNoMoreRecent(s.db[r.id].seqNo, r.seqNo) ->
            SendUpdate([Updated(s, r.id, r.seqNo, r.val) EXCEPT
                          !.reqUpdateQ = RemoveID(@, r.id)], r.id)
      [] OTHER -> s

\* Mutant of processSummary: newer values are not asked for.
processSummaryQuietly(s, me, r) ==
    CASE ~ Known(s, r.id) -> AskForCreate(s, r.id)
      [] Known(s, r.id) /\ s.db[r.id].producer # me
           /\ seqNoMoreRecent(r.seqNo, s.db[r.id].seqNo) -> SendUpdate(s, r.id)
      [] OTHER -> s

processSummary(s, me, r) ==
    CASE ~ Known(s, r.id) -> AskForCreate(s, r.id)
      [] Known(s, r.id) /\ s.db[r.id].producer # me /\ r.seqNo # s.db[r.id].seqNo ->
            IF seqNoMoreRecent(s.db[r.id].seqNo, r.seqNo)
            THEN [s EXCEPT !.reqUpdateQ = Append(@, VarReqUpdate(s, r.id))]
            ELSE SendUpdate(s, r.id)
      [] OTHER -> s

processReqCreate(s, r) ==
    IF ~ Known(s, r.id) THEN s
    ELSE [s EXCEPT !.createQ = Append(RemoveID(@, r.id), VarCreate(s, r.id))]

processReqUpdate(s, r) == IF Known(s, r.id) THEN SendUpdate(s, r.id) ELSE s

\* Node me processes a record r that is in the container k of a beacon.
processRecord(s, me, k, r) ==
    CASE k = "createQ" -> processCreate(s, r)
      [] k = "updateQ" -> processUpdate(s, me, r)
      [] k = "summaryQ" -> processSummary(s, me, r)
      [] k = "reqCreateQ" -> processReqCreate(s, r)
      [] k = "reqUpdateQ" -> processReqUpdate(s, r)

processContainer(s, me, k, recs) ==
    LET after[i \in 0 .. Len(recs)] ==
            IF i = 0 THEN s ELSE processRecord(after[i - 1], me, k, recs[i])
    IN  after[Len(recs)]

\* Node me processes the beacon b.
processVarDisBeacon(s, me, b) ==
    LET s1 == processContainer(s, me, "createQ", b.createQ)
        s2 == processContainer(s1, me, "updateQ", b.updateQ)
        s3 == processContainer(s2, me, "summaryQ", b.summaryQ)
        s4 == processContainer(s3, me, "reqCreateQ", b.reqCreateQ)
    IN  processContainer(s4, me, "reqUpdateQ", b.reqUpdateQ)

(***************************************************************************)
(* What the data are at any time.                                          *)
(***************************************************************************)
WellTyped(s) ==
    /\ DOMAIN s.db \subseteq VarId
    /\ \A v \in DOMAIN s.db : s.db[v] \in RTDBVariable
    /\ \A i \in DOMAIN s.createQ : s.createQ[i] \in RTDBVarCreate
    /\ \A i \in DOMAIN s.updateQ : s.updateQ[i] \in RTDBVarUpdate
    /\ \A i \in DOMAIN s.reqCreateQ : s.reqCreateQ[i] \in RTDBVarReqCreate
    /\ \A i \in DOMAIN s.reqUpdateQ : s.reqUpdateQ[i] \in RTDBVarReqUpdate

\* At most one record of each variable.
Unique(q) == \A i, j \in DOMAIN q : q[i].id = q[j].id => i = j

\* Every variable is in the round of the summaries, once; the updates waiting to be sent
\* are of the values in the database, the creations not later than those.
Coherent(s) ==
    /\ DOMAIN s.db = {s.summaryQ[i] : i \in DOMAIN s.summaryQ}
    /\ Len(s.summaryQ) = Cardinality(DOMAIN s.db)
    /\ Unique(s.createQ) /\ Unique(s.updateQ)
    /\ \A i \in DOMAIN s.updateQ :
          LET r == s.updateQ[i]
          IN  Known(s, r.id) /\ r.seqNo = s.db[r.id].seqNo /\ r.val = s.db[r.id].val
    /\ \A i \in DOMAIN s.createQ :
          LET r == s.createQ[i]
          IN  Known(s, r.id) /\ ~ seqNoMoreRecent(s.db[r.id].seqNo, r.seqNo)
    /\ \A i \in DOMAIN s.reqUpdateQ :
          LET r == s.reqUpdateQ[i]
          IN  Known(s, r.id) /\ r.seqNo = s.db[r.id].seqNo

=============================================================================

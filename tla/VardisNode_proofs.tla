--------------------------- MODULE VardisNode_proofs ---------------------------
(***************************************************************************)
(* Type correctness and the consistency of queues, counters and entries,   *)
(* for every number of variables, every configuration and every payload    *)
(* and request.  The proof combines what VardisProtocolData_proofs shows   *)
(* of the single operations with an invariant about the critical sections. *)
(* Then what happens to the variables, which is what the abstract database *)
(* of RealTimeDatabase does, and the payloads that the transmitter builds. *)
(***************************************************************************)
EXTENDS VardisNode, VardisProtocolData_proofs

\* Where the threads are when they hold the mutex, and what the scrubber knows.
Sections ==
    /\ mutex = "rx" => rx = "process" /\ rxTodo # NoTodo
    /\ mutex = "tx" => tx = "build" /\ txPhase <= Len(TxOrder)
    /\ mutex = "scrub" <=> scrub.pc = "batch"
    /\ mutex = "mgmt" => mgmt # "idle"
    /\ scrub.pc \in {"loop", "batch"} => scrub.num > 0
    /\ scrub.it # EndIt => scrub.it \in pd.active
    /\ pd.active \subseteq pd.used

\* The inductive invariant.
NodeInv == TypeOK /\ QueueConsistency /\ TxNeverThrows /\ HeaderHonoured /\ Sections

(***************************************************************************)
(* Steps that leave the protocol data alone.                               *)
(***************************************************************************)
\* The receiver between two payloads.
LEMMA RxOutsideOK ==
    ASSUME NodeInv, RxCheckActive \/ RxGiveUp \/ RxDone \/ RxParsed
    PROVE  NodeInv'
<1> USE DEF NodeInv, RxCheckActive, RxGiveUp, RxDone, RxParsed, txVars
<1>1. TypeOK'
  <2>1. RxDataTypeOK'
    <3>1. rxTodo' = rxTodo /\ (rxPayload' = rxPayload \/ rxPayload' = <<>>)
      OBVIOUS
    <3>2. <<>> \in Seq(Container)
      OBVIOUS
    <3>. QED  BY <3>1, <3>2 DEF TypeOK, RxDataTypeOK
  <2>2. ScrubTypeOK'
    BY DEF TypeOK, ScrubTypeOK
  <2>. QED  BY <2>1, <2>2 DEF TypeOK
<1>2. QueueConsistency' /\ TxNeverThrows' /\ HeaderHonoured'
  BY DEF QueueConsistency, TxNeverThrows, HeaderHonoured
<1>3. Sections'
  BY DEF Sections
<1>. QED  BY <1>1, <1>2, <1>3

\* The transmitter between two records.
LEMMA TxOutsideOK ==
    ASSUME NodeInv, \/ TxCheckActive \/ TxPush \/ TxTimeout \/ TxSkipContainer \/ TxSend
    PROVE  NodeInv'
<1> USE DEF NodeInv, TxCheckActive, TxPush, TxTimeout, TxSkipContainer, TxSend,
            TxAtContainer, AfterContainer, rxVars
<1>1. TypeOK'
  <2>1. RxDataTypeOK'
    BY DEF TypeOK, RxDataTypeOK
  <2>2. ScrubTypeOK'
    BY DEF TypeOK, ScrubTypeOK
  <2>3. txPhase' \in 1 .. Len(TxOrder) + 1 /\ txLeft' \in Nat
    BY SixContainers DEF TypeOK
  <2>4. /\ pd' = pd /\ now' = now /\ inputs' = inputs /\ isActive' = isActive
        /\ rx' = rx /\ mgmt' = mgmt /\ faults' = faults
        /\ exitFlag' \in {exitFlag, TRUE} /\ mutex' \in {mutex, "free", "tx"}
        /\ tx' \in {tx, "idle", "waiting", "build"}
    OBVIOUS
  <2>. QED  BY <2>1, <2>2, <2>3, <2>4, ZenonT(30) DEF TypeOK
<1>2. QueueConsistency' /\ TxNeverThrows' /\ HeaderHonoured'
  BY SixContainers DEF TypeOK, QueueConsistency, TxNeverThrows, HeaderHonoured
<1>3. Sections'
  BY SixContainers DEF TypeOK, Sections
<1>. QED  BY <1>1, <1>2, <1>3

\* Commands, the clock and the management thread between two requests.
LEMMA CommandsOK ==
    ASSUME NodeInv, \/ MgmtStart \/ MgmtLock \/ MgmtNextQueue \/ Activate \/ Deactivate
                    \/ Shutdown \/ Tick \/ UNCHANGED vars
    PROVE  NodeInv'
<1> USE DEF NodeInv, MgmtStart, MgmtLock, MgmtNextQueue, Activate, Deactivate, Shutdown,
            Tick, Input, rxVars, txVars, vars
<1>1. TypeOK'
  <2>1. RxDataTypeOK'
    BY DEF TypeOK, RxDataTypeOK
  <2>2. ScrubTypeOK'
    BY DEF TypeOK, ScrubTypeOK
  <2>3. mgmt' \in {"idle", "create", "delete", "update"}
    BY DEF TypeOK, Sections
  <2>4. now' \in Nat /\ inputs' \in Nat
    BY DEF TypeOK
  <2>6. isActive' \in {isActive, TRUE, FALSE}
    OBVIOUS
  <2>5. /\ pd' = pd /\ rx' = rx /\ tx' = tx /\ faults' = faults
        /\ txPhase' = txPhase /\ txLeft' = txLeft
        /\ exitFlag' \in {exitFlag, TRUE} /\ mutex' \in {mutex, "free", "mgmt"}
    OBVIOUS
  <2>. QED  BY <2>1, <2>2, <2>3, <2>4, <2>5, <2>6, ZenonT(30) DEF TypeOK
<1>2. QueueConsistency' /\ TxNeverThrows' /\ HeaderHonoured'
  BY DEF QueueConsistency, TxNeverThrows, HeaderHonoured
<1>3. Sections'
  BY DEF TypeOK, Sections
<1>. QED  BY <1>1, <1>2, <1>3

(***************************************************************************)
(* Steps of the receiver that look at records.                             *)
(***************************************************************************)
\* The containers that arrive hold records of their type.
LEMMA ContainersHoldRecords ==
    \A c \in Container : c.type \in ICType /\ c.recs \in Seq(Record(c.type))
                        /\ c.recs \in Seq(AnyRecord)
BY DEF Record, AnyRecord, ICType, Container

\* Receiving a payload and taking the containers out of it.
LEMMA RxExtractOK ==
    ASSUME NodeInv, RxExtract \/ \E p \in Payloads : RxReceive(p), NodeAssumption
    PROVE  NodeInv'
<1>1. CASE \E p \in Payloads : RxReceive(p)
  <2>1. RxDataTypeOK'
    BY <1>1 DEF NodeInv, TypeOK, RxDataTypeOK, RxReceive, NodeAssumption
  <2>2. ScrubTypeOK'
    BY <1>1 DEF NodeInv, TypeOK, ScrubTypeOK, RxReceive
  <2>3. TypeOK'
    BY <1>1, <2>1, <2>2 DEF NodeInv, TypeOK, RxReceive, Input, txVars
  <2>4. QueueConsistency' /\ TxNeverThrows' /\ HeaderHonoured' /\ Sections'
    BY <1>1 DEF NodeInv, QueueConsistency, TxNeverThrows, HeaderHonoured, Sections,
                RxReceive, txVars
  <2>. QED  BY <2>3, <2>4 DEF NodeInv
<1>2. CASE RxExtract
  <2> DEFINE c == Head(rxPayload)
  <2>1. rxPayload # <<>> /\ rxPayload \in Seq(Container)
    BY <1>2 DEF RxExtract, MoreContainers, NodeInv, TypeOK, RxDataTypeOK
  <2>2. c \in Container /\ Tail(rxPayload) \in Seq(Container)
    BY <2>1, HeadTailProperties
  <2>3. /\ c.type \in ICType /\ c.recs \in Seq(Record(c.type))
        /\ c.recs \in Seq(AnyRecord)
    BY <2>2, ContainersHoldRecords
  <2>4. rxPayload' = Tail(rxPayload) /\ rxTodo' = [rxTodo EXCEPT ![c.type] = @ \o c.recs]
    BY <1>2 DEF RxExtract
  <2> HIDE DEF c
  <2>5. RxDataTypeOK'
    <3>1. /\ rxTodo[c.type] \o c.recs \in Seq(Record(c.type))
          /\ rxTodo[c.type] \o c.recs \in Seq(AnyRecord)
      BY <2>3, ConcatProperties DEF NodeInv, TypeOK, RxDataTypeOK
    <3>. QED  BY <2>2, <2>3, <2>4, <3>1 DEF NodeInv, TypeOK, RxDataTypeOK
  <2>6. ScrubTypeOK'
    BY <1>2 DEF NodeInv, TypeOK, ScrubTypeOK, RxExtract
  <2>7. TypeOK'
    BY <1>2, <2>5, <2>6 DEF NodeInv, TypeOK, RxExtract, txVars
  <2>8. QueueConsistency' /\ TxNeverThrows' /\ HeaderHonoured' /\ Sections'
    BY <1>2 DEF NodeInv, QueueConsistency, TxNeverThrows, HeaderHonoured, Sections,
                RxExtract, txVars
  <2>. QED  BY <2>7, <2>8 DEF NodeInv
<1>. QED  BY <1>1, <1>2

\* There is a type to continue with as long as a record is left.
LEMMA CurrentTypeOK ==
    ASSUME RxDataTypeOK, rxTodo # NoTodo
    PROVE  CurrentType \in ICType /\ rxTodo[CurrentType] # <<>>
<1> DEFINE Left(i) == rxTodo[RxOrder[i]] # <<>>
           First(i) == Left(i) /\ \A j \in 1 .. i - 1 : ~ Left(j)
<1>1. DOMAIN RxOrder = 1 .. 6 /\ \A i \in 1 .. 6 : RxOrder[i] \in ICType
  BY DEF RxOrder, ICType
<1>2. \A k \in ICType : \E i \in 1 .. 6 : k = RxOrder[i]
  BY DEF RxOrder, ICType
<1>3. \E i \in 1 .. 6 : Left(i)
  <2>1. PICK k \in ICType : rxTodo[k] # <<>>
    BY DEF NoTodo, RxDataTypeOK
  <2>. QED  BY <1>2, <2>1
<1>4. \E i \in 1 .. 6 : First(i)
  <2> HIDE DEF Left
  <2>. QED  BY <1>3
<1>5. (CHOOSE i \in DOMAIN RxOrder : First(i)) \in 1 .. 6
      /\ First(CHOOSE i \in DOMAIN RxOrder : First(i))
  <2> HIDE DEF First
  <2>. QED  BY <1>1, <1>4
<1>. QED  BY <1>1, <1>5 DEF CurrentType

\* What is left of the mutex conditions when a step of another thread changes the
\* protocol data in a section of its own.
LEMMA NotBuilding ==
    ASSUME NodeInv, mutex # "tx"
    PROVE  ~ (tx = "build" /\ txLeft > 0)
BY DEF NodeInv, HeaderHonoured

\* Processing one record.
LEMMA RxRecordOK ==
    ASSUME NodeInv, RxRecord, ProtocolDataAssumption, NodeAssumption
    PROVE  NodeInv'
<1> DEFINE k == CurrentType
           r == Head(rxTodo[k])
           todo == [rxTodo EXCEPT ![k] = Tail(@)]
<1>1. k \in ICType /\ rxTodo[k] # <<>>
  BY CurrentTypeOK DEF NodeInv, TypeOK, RxRecord
<1>2. /\ pd' = ProcessRecord(pd, k, r, Me, now)
      /\ mutex' = IF todo = NoTodo \/ (LockIndividually /\ todo[k] = <<>>)
                  THEN "free" ELSE "rx"
      /\ rxTodo' = todo
      /\ rx = "process" /\ mutex \in {"free", "rx"}
      /\ UNCHANGED <<isActive, now, rx, rxPayload, rxArea, txVars, scrub, mgmt, exitFlag,
                     faults, inputs>>
  BY DEF RxRecord
<1> HIDE DEF k
<1>3. WellTyped(pd) /\ now \in Nat /\ RxDataTypeOK
  BY DEF NodeInv, TypeOK
<1>4. /\ r \in Record(k) /\ Tail(rxTodo[k]) \in Seq(Record(k))
      /\ Tail(rxTodo[k]) \in Seq(AnyRecord)
  <2>1. rxTodo[k] \in Seq(Record(k)) /\ rxTodo[k] \in Seq(AnyRecord)
    BY <1>1, <1>3 DEF RxDataTypeOK
  <2>. QED  BY <1>1, <2>1, HeadTailProperties
<1> HIDE DEF r
<1>5. /\ WellTyped(pd') /\ (Consistent(pd) => Consistent(pd'))
  BY <1>1, <1>2, <1>3, <1>4, ProcessRecordOK
<1>6. pd.active \subseteq pd'.active /\ (pd.active \subseteq pd.used => pd'.active \subseteq pd'.used)
  BY <1>1, <1>2, <1>3, ProcessRecordGrows DEF Grows
<1>7. RxDataTypeOK'
  BY <1>1, <1>2, <1>3, <1>4 DEF RxDataTypeOK
<1> HIDE DEF todo
<1>8. TypeOK'
  <2>1. ScrubTypeOK'
    BY <1>2 DEF NodeInv, TypeOK, ScrubTypeOK
  <2>2. WellTyped(pd)' /\ mutex' \in {"free", "rx"}
    BY <1>2, <1>5
  <2>. QED  BY <1>2, <1>7, <2>1, <2>2 DEF NodeInv, TypeOK, txVars
<1>9. QueueConsistency' /\ TxNeverThrows'
  BY <1>2, <1>5 DEF NodeInv, QueueConsistency, TxNeverThrows
<1>10. HeaderHonoured'
  BY <1>2, NotBuilding DEF HeaderHonoured, txVars
<1>11. Sections'
  <2>1. mutex' = "rx" => rxTodo' # NoTodo
    BY <1>2
  <2>2. scrub.pc # "batch"
    BY <1>2 DEF NodeInv, Sections
  <2>. QED  BY <1>2, <1>6, <2>1, <2>2 DEF NodeInv, Sections
<1>. QED  BY <1>8, <1>9, <1>10, <1>11 DEF NodeInv

(***************************************************************************)
(* Steps of the transmitter that look at records.                          *)
(***************************************************************************)
\* Announcing the records of a container.
LEMMA TxOpenContainerOK ==
    ASSUME NodeInv, TxOpenContainer, ProtocolDataAssumption
    PROVE  NodeInv'
<1> DEFINE k == TxOrder[txPhase]
<1>1. /\ CanAddContainer(pd, k, TxRemaining)
      /\ txLeft' = numberFittingRecords(pd, k, TxRemaining)
      /\ tx = "build" /\ txPhase <= Len(TxOrder)
      /\ mutex \in {"free", "tx"} /\ mutex' = "tx"
      /\ UNCHANGED <<pd, isActive, now, rxVars, tx, txPhase, scrub, mgmt, exitFlag, faults,
                     inputs>>
  BY DEF TxOpenContainer, TxOpen, TxAtContainer
<1>2. k \in ICType /\ WellTyped(pd) /\ txPhase \in 1 .. Len(TxOrder) + 1
  BY <1>1, SixContainers DEF NodeInv, TypeOK
<1> HIDE DEF k
<1>3. txLeft' \in 1 .. Len(pd.q[k])
  BY <1>1, <1>2, FittingOK
<1>4. TypeOK'
  <2>1. ScrubTypeOK'
    BY <1>1 DEF NodeInv, TypeOK, ScrubTypeOK
  <2>2. RxDataTypeOK'
    BY <1>1 DEF NodeInv, TypeOK, RxDataTypeOK, rxVars
  <2>3. txLeft' \in Nat
    BY <1>3
  <2>. QED  BY <1>1, <2>1, <2>2, <2>3 DEF NodeInv, TypeOK, rxVars
<1>5. QueueConsistency' /\ TxNeverThrows'
  BY <1>1 DEF NodeInv, QueueConsistency, TxNeverThrows
<1>6. HeaderHonoured'
  BY <1>1, <1>3 DEF HeaderHonoured, k
<1>7. Sections'
  BY <1>1 DEF NodeInv, Sections
<1>. QED  BY <1>4, <1>5, <1>6, <1>7 DEF NodeInv

\* While records are missing in the container, its queue has them.
LEMMA RecordThere ==
    ASSUME NodeInv, tx = "build", txLeft > 0
    PROVE  /\ txPhase \in 1 .. 6 /\ TxOrder[txPhase] \in ICType /\ mutex = "tx"
           /\ txLeft <= Len(pd.q[TxOrder[txPhase]])
           /\ pd.q[TxOrder[txPhase]] # <<>>
           /\ WellTyped(pd) /\ txLeft \in Nat
<1>1. txLeft <= Len(pd.q[TxOrder[txPhase]]) /\ mutex = "tx"
  BY DEF NodeInv, HeaderHonoured
<1>2. txPhase \in 1 .. 6 /\ TxOrder[txPhase] \in ICType
  BY SixContainers DEF NodeInv, TypeOK, HeaderHonoured
<1>3. WellTyped(pd) /\ txLeft \in Nat
  BY DEF NodeInv, TypeOK
<1>4. pd.q[TxOrder[txPhase]] # <<>>
  BY <1>1, <1>3
<1>. QED  BY <1>1, <1>2, <1>3, <1>4

\* Adding a record.
LEMMA TxAddRecordOK ==
    ASSUME NodeInv, TxAddRecord, ProtocolDataAssumption
    PROVE  NodeInv'
<1> DEFINE k == TxOrder[txPhase]
<1>1. /\ tx = "build" /\ txLeft > 0
      /\ ~ SendThrows(pd, k) /\ pd' = SendRecord(pd, k)
      /\ txLeft' = txLeft - 1
      /\ txPhase' = IF txLeft = 1 THEN txPhase + 1 ELSE txPhase
      /\ mutex' = IF txLeft = 1 THEN AfterContainer ELSE mutex
      /\ UNCHANGED <<isActive, now, rxVars, tx, scrub, mgmt, exitFlag, faults, inputs>>
  BY DEF TxAddRecord
<1>2. /\ txPhase \in 1 .. 6 /\ k \in ICType /\ mutex = "tx"
      /\ txLeft <= Len(pd.q[k]) /\ pd.q[k] # <<>> /\ WellTyped(pd) /\ txLeft \in Nat
  BY <1>1, RecordThere
<1> HIDE DEF k
<1>3. WellTyped(pd') /\ (Consistent(pd) => Consistent(pd')) /\ Len(pd'.q[k]) >= Len(pd.q[k]) - 1
  BY <1>1, <1>2, SendRecordOK
<1>4. pd'.active = pd.active /\ pd'.used = pd.used
  BY <1>1 DEF SendRecord, ChangeEntry
<1>5. mutex' \in {"free", "tx"} /\ (mutex' = "tx" /\ txLeft = 1 => txPhase # 6)
  BY <1>1, <1>2, SixContainers DEF AfterContainer
<1>6. TypeOK'
  <2>1. ScrubTypeOK'
    BY <1>1 DEF NodeInv, TypeOK, ScrubTypeOK
  <2>2. RxDataTypeOK'
    BY <1>1 DEF NodeInv, TypeOK, RxDataTypeOK, rxVars
  <2>3. txLeft' \in Nat /\ txPhase' \in 1 .. Len(TxOrder) + 1
    BY <1>1, <1>2, SixContainers
  <2>. QED  BY <1>1, <1>3, <1>5, <2>1, <2>2, <2>3 DEF NodeInv, TypeOK, rxVars
<1>7. QueueConsistency' /\ TxNeverThrows'
  BY <1>1, <1>3 DEF NodeInv, QueueConsistency, TxNeverThrows
<1>8. HeaderHonoured'
  <2> SUFFICES ASSUME txLeft' > 0
               PROVE  /\ mutex' = "tx" /\ txPhase' <= Len(TxOrder)
                      /\ txLeft' <= Len(pd'.q[TxOrder[txPhase']])
    BY <1>1 DEF HeaderHonoured
  <2>1. txLeft # 1
    BY <1>1, <1>2
  <2>2. txPhase' = txPhase /\ mutex' = "tx"
    BY <1>1, <1>2, <2>1
  <2>3. Len(pd'.q[k]) \in Nat /\ Len(pd.q[k]) \in Nat
    BY <1>2, <1>3 DEF WellTyped, AreQueues
  <2>4. txLeft' <= Len(pd'.q[k])
    BY <1>1, <1>2, <1>3, <2>3
  <2>5. TxOrder[txPhase'] = k /\ txPhase' <= Len(TxOrder)
    BY <1>2, <2>2, SixContainers DEF k
  <2>. QED  BY <2>2, <2>4, <2>5
<1>9. Sections'
  <2>1. mutex' = "tx" => txPhase' <= Len(TxOrder)
    BY <1>1, <1>2, <1>5, SixContainers
  <2>2. scrub.pc # "batch"
    BY <1>2 DEF NodeInv, Sections
  <2>. QED  BY <1>1, <1>4, <1>5, <2>1, <2>2 DEF NodeInv, Sections
<1>. QED  BY <1>6, <1>7, <1>8, <1>9 DEF NodeInv

\* An exception in the transmitter is possible only after one in a create request.
LEMMA TxThrowOK ==
    ASSUME NodeInv, TxThrow
    PROVE  NodeInv'
<1> DEFINE k == TxOrder[txPhase]
<1>1. /\ tx = "build" /\ txLeft > 0
      /\ SendThrows(pd, k) /\ pd' = AfterThrow(pd, k)
      /\ tx' = "idle" /\ txLeft' = 0 /\ mutex' = "free" /\ exitFlag' = TRUE
      /\ faults' = faults \cup {"tx"}
      /\ UNCHANGED <<isActive, now, rxVars, txPhase, scrub, mgmt, inputs>>
  BY DEF TxThrow
<1>2. k \in ICType /\ mutex = "tx" /\ pd.q[k] # <<>> /\ WellTyped(pd)
  BY <1>1, RecordThere
<1> HIDE DEF k
<1>3. "rtdb" \in faults
  BY <1>1, <1>2, SendDoesNotThrow DEF NodeInv, QueueConsistency
<1>4. WellTyped(pd')
  BY <1>1, <1>2, ThrowOK
<1>5. pd'.active = pd.active /\ pd'.used = pd.used
  BY <1>1, <1>2, ThrowOK
<1>6. TypeOK'
  <2>1. ScrubTypeOK'
    BY <1>1 DEF NodeInv, TypeOK, ScrubTypeOK
  <2>2. RxDataTypeOK'
    BY <1>1 DEF NodeInv, TypeOK, RxDataTypeOK, rxVars
  <2>3. faults' \in SUBSET {"tx", "rtdb", "scrub"} /\ exitFlag' \in BOOLEAN
    BY <1>1 DEF NodeInv, TypeOK
  <2>. QED  BY <1>1, <1>4, <2>1, <2>2, <2>3 DEF NodeInv, TypeOK, rxVars
<1>7. QueueConsistency' /\ TxNeverThrows' /\ HeaderHonoured'
  BY <1>1, <1>3 DEF QueueConsistency, TxNeverThrows, HeaderHonoured
<1>8. Sections'
  <2>1. scrub.pc # "batch"
    BY <1>2 DEF NodeInv, Sections
  <2>. QED  BY <1>1, <1>5, <2>1 DEF NodeInv, Sections
<1>. QED  BY <1>6, <1>7, <1>8 DEF NodeInv

(***************************************************************************)
(* Steps of the scrubber.                                                  *)
(***************************************************************************)
\* The iterator points into the set or to its end.
LEMMA LeastOK ==
    ASSUME NEW S \in SUBSET VarId, ProtocolDataAssumption
    PROVE  Least(S) \in S \cup {EndIt}
<1>1. CASE S = {}
  BY <1>1 DEF Least
<1>2. CASE S # {}
  <2>1. S \in SUBSET Nat
    BY DEF ProtocolDataAssumption
  <2>2. \E v \in S : \A w \in S : v <= w
    BY <1>2, <2>1, LeastExists
  <2>. QED  BY <1>2, <2>2 DEF Least
<1>. QED  BY <1>1, <1>2

\* Waking up, reading begin and size, entering a section.
LEMMA ScrubOutsideOK ==
    ASSUME NodeInv, ScrubWake \/ ScrubBegin \/ ScrubSize \/ ScrubLock,
           ProtocolDataAssumption, NodeAssumption
    PROVE  NodeInv'
<1>1. /\ UNCHANGED <<pd, isActive, now, rxVars, txVars, mgmt, exitFlag, faults, inputs>>
      /\ scrub.pc # "batch"
      /\ \/ scrub'.pc # "batch" /\ mutex' = mutex
         \/ scrub'.pc = "batch" /\ mutex = "free" /\ mutex' = "scrub"
  BY DEF NodeInv, TypeOK, ScrubTypeOK, ScrubWake, ScrubBegin, ScrubSize, ScrubLock
<1>2. Cardinality(pd.active) \in Nat /\ (pd.active # {} => Cardinality(pd.active) > 0)
  <2>1. pd.active \in SUBSET VarId
    BY Parts DEF NodeInv, TypeOK
  <2>2. IsFiniteSet(pd.active)
    BY <2>1, FS_Subset DEF NodeAssumption
  <2>3. Cardinality(pd.active) \in Nat /\ (Cardinality(pd.active) = 0 <=> pd.active = {})
    BY <2>2, FS_CardinalityType, FS_EmptySet
  <2>. QED  BY <2>3
<1>3. Least(pd.active) \in pd.active \cup {EndIt} /\ pd.active \in SUBSET VarId
  BY LeastOK, Parts DEF NodeInv, TypeOK
<1>4. /\ ScrubTypeOK'
      /\ scrub'.pc \in {"loop", "batch"} => scrub'.num > 0
      /\ scrub'.it # EndIt => scrub'.it \in pd.active
  <2>1. CASE ScrubWake
    BY <2>1 DEF NodeInv, TypeOK, Sections, ScrubTypeOK, ScrubWake
  <2>2. CASE ScrubBegin
    BY <2>2, <1>3 DEF NodeInv, TypeOK, Sections, ScrubTypeOK, ScrubBegin
  <2>3. CASE ScrubSize
    BY <2>3, <1>2 DEF NodeInv, TypeOK, Sections, ScrubTypeOK, ScrubSize
  <2>4. CASE ScrubLock
    BY <2>4 DEF NodeInv, TypeOK, Sections, ScrubTypeOK, ScrubLock
  <2>. QED  BY <2>1, <2>2, <2>3, <2>4
<1>5. RxDataTypeOK'
  BY <1>1 DEF NodeInv, TypeOK, RxDataTypeOK, rxVars
<1>6. TypeOK'
  BY <1>1, <1>4, <1>5 DEF NodeInv, TypeOK, rxVars, txVars
<1>7. QueueConsistency' /\ TxNeverThrows' /\ HeaderHonoured'
  BY <1>1 DEF NodeInv, QueueConsistency, TxNeverThrows, HeaderHonoured, txVars
<1>8. Sections'
  BY <1>1, <1>4 DEF NodeInv, Sections, rxVars, txVars
<1>. QED  BY <1>6, <1>7, <1>8 DEF NodeInv

\* Looking at a variable in use, whichever it is.
LEMMA VisitOK ==
    ASSUME NodeInv, scrub.pc = "batch", NEW v \in pd.used,
           NEW next \in pd.active \cup {EndIt}, VisitVariable(v, next),
           faults' \in {faults, faults \cup {"scrub"}},
           UNCHANGED <<isActive, now, rxVars, txVars, mgmt, inputs>>,
           ProtocolDataAssumption, NodeAssumption
    PROVE  NodeInv'
<1>1. /\ pd' \in {pd, MarkDeleted(pd, v)} /\ exitFlag' = exitFlag
      /\ scrub' = [scrub EXCEPT !.num = @ - 1, !.i = @ + 1, !.it = next, !.pc = scrub'.pc]
      /\ \/ scrub'.pc = "batch" /\ mutex' = "scrub" /\ scrub.i + 1 < scrub.num - 1
         \/ scrub'.pc = "loop" /\ mutex' = "free" /\ scrub.num # 1
         \/ scrub'.pc = "idle" /\ mutex' = "free"
  BY DEF VisitVariable, NodeInv, TypeOK, ScrubTypeOK
<1>2. scrub.num \in Nat /\ scrub.num > 0 /\ scrub.i \in Nat /\ mutex = "scrub"
  BY DEF NodeInv, TypeOK, ScrubTypeOK, Sections
<1>3. WellTyped(pd) /\ pd.active \in SUBSET VarId /\ v \in VarId
  BY Parts DEF NodeInv, TypeOK
<1>4. /\ WellTyped(pd') /\ (Consistent(pd) => Consistent(pd'))
      /\ pd'.active = pd.active /\ pd'.used = pd.used
  <2>1. MarkDeleted(pd, v).active = pd.active /\ MarkDeleted(pd, v).used = pd.used
    BY DEF MarkDeleted, ChangeEntry
  <2>2. /\ WellTyped(MarkDeleted(pd, v))
        /\ Consistent(pd) => Consistent(MarkDeleted(pd, v))
    BY <1>3, MarkDeletedOK
  <2>. QED  BY <1>1, <1>3, <2>1, <2>2
<1>5. /\ ScrubTypeOK'
      /\ scrub'.pc \in {"loop", "batch"} => scrub'.num > 0
      /\ scrub'.it # EndIt => scrub'.it \in pd.active
  <2>1. scrub \in [pc : {"idle", "begin", "size", "loop", "batch"}, curr : Nat,
                   it : VarId \cup {EndIt}, num : Nat, i : Nat]
    BY DEF NodeInv, TypeOK, ScrubTypeOK
  <2>2. /\ scrub'.num = scrub.num - 1 /\ scrub'.i = scrub.i + 1 /\ scrub'.it = next
        /\ scrub' \in [pc : {"idle", "begin", "size", "loop", "batch"}, curr : Nat,
                       it : VarId \cup {EndIt}, num : Nat, i : Nat]
    <3>1. /\ scrub.num - 1 \in Nat /\ scrub.i + 1 \in Nat
          /\ next \in VarId \cup {EndIt}
          /\ scrub'.pc \in {"idle", "begin", "size", "loop", "batch"}
      <4>1. scrub.num - 1 \in Nat /\ scrub.i + 1 \in Nat
        BY <1>2
      <4>2. next \in VarId \cup {EndIt}
        BY <1>3
      <4>3. scrub'.pc \in {"idle", "begin", "size", "loop", "batch"}
        BY <1>1
      <4>. QED  BY <4>1, <4>2, <4>3
    <3> DEFINE c == scrub'.pc
    <3>2. scrub' = [scrub EXCEPT !.num = @ - 1, !.i = @ + 1, !.it = next, !.pc = c]
      BY <1>1
    <3> HIDE DEF c
    <3>. QED  BY <2>1, <3>1, <3>2 DEF c
  <2>3. scrub'.pc \in {"loop", "batch"} => scrub'.num > 0
    BY <1>1, <1>2, <2>2
  <2>. QED  BY <2>2, <2>3 DEF ScrubTypeOK
<1>6. RxDataTypeOK'
  BY DEF NodeInv, TypeOK, RxDataTypeOK, rxVars
<1>7. TypeOK'
  <2>1. faults' \in SUBSET {"tx", "rtdb", "scrub"} /\ mutex' \in {"free", "scrub"}
    BY <1>1 DEF NodeInv, TypeOK
  <2>. QED  BY <1>1, <1>4, <1>5, <1>6, <2>1 DEF NodeInv, TypeOK, rxVars, txVars
<1>8. QueueConsistency' /\ TxNeverThrows' /\ HeaderHonoured'
  BY <1>2, <1>4, NotBuilding
     DEF NodeInv, QueueConsistency, TxNeverThrows, HeaderHonoured, txVars
<1>9. Sections'
  BY <1>1, <1>2, <1>4, <1>5 DEF NodeInv, Sections, rxVars, txVars
<1>. QED  BY <1>7, <1>8, <1>9 DEF NodeInv

\* The next variable, or the undefined behaviour at the end of the set.
LEMMA ScrubInsideOK ==
    ASSUME NodeInv, ScrubVisit \/ ScrubPastEnd, ProtocolDataAssumption, NodeAssumption
    PROVE  NodeInv'
<1>1. CASE ScrubVisit
  <2> DEFINE next == Least({w \in pd.active : w > scrub.it})
  <2>1. next \in pd.active \cup {EndIt}
    <3>1. {w \in pd.active : w > scrub.it} \in SUBSET VarId
      BY Parts DEF NodeInv, TypeOK
    <3>. QED  BY <3>1, LeastOK
  <2> HIDE DEF next
  <2>2. scrub.pc = "batch" /\ scrub.it \in pd.used /\ VisitVariable(scrub.it, next)
    BY <1>1 DEF ScrubVisit, NodeInv, Sections, next
  <2>3. faults' = faults /\ UNCHANGED <<isActive, now, rxVars, txVars, mgmt, inputs>>
    BY <1>1 DEF ScrubVisit
  <2>. QED  BY <2>1, <2>2, <2>3, VisitOK
<1>2. CASE ScrubPastEnd
  <2>1. /\ scrub.pc = "batch" /\ faults' = faults \cup {"scrub"}
        /\ UNCHANGED <<isActive, now, rxVars, txVars, mgmt, inputs>>
    BY <1>2 DEF ScrubPastEnd
  <2>2. CASE \E v \in pd.used, next \in pd.active \cup {EndIt} : VisitVariable(v, next)
    BY <2>1, <2>2, VisitOK
  <2>3. CASE /\ scrub' = [scrub EXCEPT !.pc = "idle"] /\ mutex' = "free"
             /\ exitFlag' = TRUE /\ UNCHANGED pd
    <3>1. mutex = "scrub"
      BY <2>1 DEF NodeInv, Sections
    <3>2. ScrubTypeOK' /\ scrub'.pc = "idle" /\ scrub'.it = scrub.it
      BY <2>3 DEF NodeInv, TypeOK, ScrubTypeOK
    <3>3. RxDataTypeOK'
      BY <2>1 DEF NodeInv, TypeOK, RxDataTypeOK, rxVars
    <3>4. faults' \in SUBSET {"tx", "rtdb", "scrub"}
      BY <2>1 DEF NodeInv, TypeOK
    <3>5. TypeOK'
      BY <2>1, <2>3, <3>2, <3>3, <3>4 DEF NodeInv, TypeOK, rxVars, txVars
    <3>6. QueueConsistency' /\ TxNeverThrows' /\ HeaderHonoured'
      BY <2>1, <2>3, <3>1, NotBuilding
         DEF NodeInv, QueueConsistency, TxNeverThrows, HeaderHonoured, txVars
    <3>7. Sections'
      BY <2>1, <2>3, <3>2 DEF NodeInv, Sections, rxVars, txVars
    <3>. QED  BY <3>5, <3>6, <3>7 DEF NodeInv
  <2>. QED  BY <1>2, <2>2, <2>3 DEF ScrubPastEnd
<1>. QED  BY <1>1, <1>2

(***************************************************************************)
(* Steps of the RTDB management thread.                                    *)
(***************************************************************************)
\* A request whose checks have failed or passed: the new protocol data.
LEMMA RequestsOK ==
    ASSUME NodeInv, ProtocolDataAssumption, SeqnoAssumption, NodeAssumption,
           \/ \E r \in CreateRequests : RtdbCreate(r)
           \/ \E r \in UpdateRequests : RtdbUpdate(r)
           \/ \E r \in DeleteRequests : RtdbDelete(r)
    PROVE  /\ WellTyped(pd') /\ Grows(pd, pd')
           /\ Consistent(pd) => Consistent(pd') \/ "rtdb" \in faults'
<1>1. WellTyped(pd) /\ now \in Nat /\ Grows(pd, pd)
  BY DEF NodeInv, TypeOK, Grows
<1>2. CASE \E r \in CreateRequests : RtdbCreate(r)
  <2>1. PICK r \in CreateRequests : RtdbCreate(r)
    BY <1>2
  <2> DEFINE ok == RtdbCreateStatus(pd, r, Me, isActive) = "OK"
             t == handle_rtdb_create_request(pd, r, Me, now)
  <2>2. /\ pd' = IF ok THEN t ELSE pd
        /\ ok /\ RtdbCreateThrows(r) => "rtdb" \in faults'
    BY <2>1 DEF RtdbCreate
  <2>3. CASE ok
    <3>1. LegalRepCnt(r.repCnt)
      BY <2>3 DEF RtdbCreateStatus
    <3>2. WellTyped(t) /\ (Consistent(pd) /\ ~ RtdbCreateThrows(r) => Consistent(t))
      BY <1>1, <3>1, RtdbCreateOK DEF NodeAssumption
    <3>3. Grows(pd, t)
      BY <1>1, RtdbGrows
    <3>. QED  BY <2>2, <2>3, <3>2, <3>3
  <2>. QED  BY <1>1, <2>2, <2>3
<1>3. CASE \E r \in UpdateRequests : RtdbUpdate(r)
  <2>1. PICK r \in UpdateRequests : RtdbUpdate(r)
    BY <1>3
  <2> DEFINE ok == RtdbUpdateStatus(pd, r.varId, r.value, Me, isActive) = "OK"
             t == handle_rtdb_update_request(pd, r.varId, r.value, now)
  <2>2. pd' = IF ok THEN t ELSE pd
    BY <2>1 DEF RtdbUpdate
  <2>3. CASE ok
    <3>1. r.varId \in pd.used /\ ~ pd.db[r.varId].isDeleted
      BY <2>3 DEF RtdbUpdateStatus, RtdbModifyStatus, variableExists
    <3>2. r.varId \in VarId /\ r.value \in Value
      BY DEF NodeAssumption
    <3>3. WellTyped(t) /\ (Consistent(pd) => Consistent(t))
      BY <1>1, <3>1, <3>2, RtdbUpdateOK
    <3>4. Grows(pd, t)
      BY <1>1, RtdbGrows
    <3>. QED  BY <2>2, <2>3, <3>3, <3>4
  <2>. QED  BY <1>1, <2>2, <2>3
<1>4. CASE \E r \in DeleteRequests : RtdbDelete(r)
  <2>1. PICK r \in DeleteRequests : RtdbDelete(r)
    BY <1>4
  <2> DEFINE ok == RtdbModifyStatus(pd, r.varId, Me, isActive) = "OK"
             t == handle_rtdb_delete_request(pd, r.varId)
  <2>2. pd' = IF ok THEN t ELSE pd
    BY <2>1 DEF RtdbDelete
  <2>3. CASE ok
    <3>1. r.varId \in pd.used
      BY <2>3 DEF RtdbModifyStatus, variableExists
    <3>2. r.varId \in VarId
      BY DEF NodeAssumption
    <3>3. WellTyped(t) /\ (Consistent(pd) => Consistent(t))
      BY <1>1, <3>1, <3>2, MarkDeletedOK DEF handle_rtdb_delete_request
    <3>4. Grows(pd, t)
      BY <1>1, RtdbGrows
    <3>. QED  BY <2>2, <2>3, <3>3, <3>4
  <2>. QED  BY <1>1, <2>2, <2>3
<1>. QED  BY <1>2, <1>3, <1>4

\* Serving a request.
LEMMA RtdbOK ==
    ASSUME NodeInv, ProtocolDataAssumption, SeqnoAssumption, NodeAssumption,
           \/ \E r \in CreateRequests : RtdbCreate(r)
           \/ \E r \in UpdateRequests : RtdbUpdate(r)
           \/ \E r \in DeleteRequests : RtdbDelete(r)
    PROVE  NodeInv'
<1>1. /\ mutex = "mgmt" /\ mutex' \in {"mgmt", "free"} /\ inputs' = inputs + 1
      /\ mgmt' \in {mgmt, "idle"} /\ (mutex' = "mgmt" => mgmt' = mgmt)
      /\ faults' \in {faults, faults \cup {"rtdb"}} /\ exitFlag' \in {exitFlag, TRUE, FALSE}
      /\ UNCHANGED <<isActive, now, rxVars, txVars, scrub>>
  BY DEF RtdbCreate, RtdbUpdate, RtdbDelete, Input
<1>2. /\ WellTyped(pd')
      /\ pd.active \subseteq pd'.active
      /\ pd.active \subseteq pd.used => pd'.active \subseteq pd'.used
      /\ Consistent(pd) => Consistent(pd') \/ "rtdb" \in faults'
  BY RequestsOK DEF Grows
<1>3. TypeOK'
  <2>1. ScrubTypeOK'
    BY <1>1 DEF NodeInv, TypeOK, ScrubTypeOK
  <2>2. RxDataTypeOK'
    BY <1>1 DEF NodeInv, TypeOK, RxDataTypeOK, rxVars
  <2>3. faults' \in SUBSET {"tx", "rtdb", "scrub"} /\ exitFlag' \in BOOLEAN
    BY <1>1 DEF NodeInv, TypeOK
  <2>. QED  BY <1>1, <1>2, <2>1, <2>2, <2>3 DEF NodeInv, TypeOK, rxVars, txVars
<1>4. QueueConsistency' /\ TxNeverThrows' /\ HeaderHonoured'
  BY <1>1, <1>2, NotBuilding
     DEF NodeInv, QueueConsistency, TxNeverThrows, HeaderHonoured, txVars
<1>5. Sections'
  <2>1. scrub.pc # "batch"
    BY <1>1 DEF NodeInv, Sections
  <2>. QED  BY <1>1, <1>2, <2>1 DEF NodeInv, Sections, rxVars, txVars
<1>. QED  BY <1>3, <1>4, <1>5 DEF NodeInv

(***************************************************************************)
(* The theorems.                                                           *)
(***************************************************************************)
\* The daemon starts with an empty database and empty queues.
LEMMA InitOK ==
    ASSUME Init, ProtocolDataAssumption, NodeAssumption
    PROVE  NodeInv
<1>1. AreQueues(pd.q) /\ \A k \in ICType : Members(pd.q[k]) = {}
  <2>1. pd.q = [k \in ICType |-> <<>>]
    BY DEF Init
  <2>2. \A S : IsVarIdQueue(<<>>, S) /\ Members(<<>>) = {} /\ <<>> \in Seq(S)
    BY EmptyQueue DEF IsVarIdQueue
  <2>3. \A k \in ICType : /\ IsVarIdQueue(pd.q[k], VarId)
                          /\ Members(pd.q[k]) = {} /\ pd.q[k] \in Seq(VarId)
    BY <2>1, <2>2
  <2>4. pd.q \in [ICType -> Seq(VarId)]
    BY <2>1, <2>3
  <2>. QED  BY <2>3, <2>4 DEF AreQueues
<1>2. WellTyped(pd)
  BY <1>1, Whole DEF Init, NodeAssumption
<1>3. Consistent(pd)
  <2>1. pd.used = {} /\ pd.active = {}
    BY DEF Init
  <2>. QED  BY <1>1, <2>1 DEF Consistent, CountersMatchQueues, DeletedOnlyInDeleteQ,
               QueuesHoldTheRightVariables, ActiveAreUsed, Counted, ICType
<1>4. RxDataTypeOK
  <2>1. \A S : <<>> \in Seq(S)
    OBVIOUS
  <2>. QED  BY <2>1 DEF Init, RxDataTypeOK, NoTodo
<1>5. ScrubTypeOK
  BY DEF Init, ScrubTypeOK
<1>6. TypeOK
  <2>1. isActive \in BOOLEAN /\ exitFlag \in BOOLEAN
    BY DEF Init
  <2>2. txPhase \in 1 .. Len(TxOrder) + 1 /\ txLeft \in Nat /\ now \in Nat /\ inputs \in Nat
    BY SixContainers DEF Init
  <2>3. faults \in SUBSET {"tx", "rtdb", "scrub"}
    BY DEF Init
  <2>4. /\ mutex \in {"free", "rx", "tx", "scrub", "mgmt"}
        /\ rx \in {"idle", "waiting", "parse", "process"}
        /\ tx \in {"idle", "waiting", "build"}
        /\ mgmt \in {"idle", "create", "delete", "update"}
    BY DEF Init
  <2>. QED  BY <1>2, <1>4, <1>5, <2>1, <2>2, <2>3, <2>4 DEF TypeOK
<1>7. QueueConsistency /\ TxNeverThrows /\ HeaderHonoured
  BY <1>3 DEF Init, QueueConsistency, TxNeverThrows, HeaderHonoured
<1>8. Sections
  BY DEF Init, Sections
<1>. QED  BY <1>6, <1>7, <1>8 DEF NodeInv

\* Every step of every thread keeps the invariant.
LEMMA StepOK ==
    ASSUME NodeInv, [Next]_vars, ProtocolDataAssumption, SeqnoAssumption, NodeAssumption
    PROVE  NodeInv'
<1>1. CASE RxInternal \/ \E p \in Payloads : RxReceive(p)
  BY <1>1, RxOutsideOK, RxExtractOK, RxRecordOK DEF RxInternal
<1>2. CASE TxInternal \/ TxTimeout
  BY <1>2, TxOutsideOK, TxOpenContainerOK, TxAddRecordOK, TxThrowOK DEF TxInternal
<1>3. CASE ScrubStep
  BY <1>3, ScrubOutsideOK, ScrubInsideOK DEF ScrubStep
<1>4. CASE MgmtStep
  BY <1>4, CommandsOK, RtdbOK DEF MgmtStep
<1>5. CASE Activate \/ Deactivate \/ Shutdown \/ Tick \/ Quiet \/ UNCHANGED vars
  BY <1>5, CommandsOK DEF Quiet
<1>. QED  BY <1>1, <1>2, <1>3, <1>4, <1>5 DEF Next

\* The invariant of the daemon.
THEOREM Invariance == Spec => []NodeInv
<1>1. Init => NodeInv
  BY InitOK, ProtocolDataAssumption, NodeAssumption
<1>2. NodeInv /\ [Next]_vars => NodeInv'
  BY StepOK, ProtocolDataAssumption, SeqnoAssumption, NodeAssumption
<1>. QED  BY <1>1, <1>2, PTL DEF Spec

\* Every variable keeps to its type.
THEOREM TypeCorrect == Spec => []TypeOK
<1>1. NodeInv => TypeOK
  BY DEF NodeInv
<1>. QED  BY <1>1, Invariance, PTL

\* Queues, counters and entries agree whatever the threads do, for any number of
\* variables: nothing is queued that cannot be sent, nothing that has to be sent
\* is forgotten.
THEOREM QueuesStayConsistent == Spec => []QueueConsistency
<1>1. NodeInv => QueueConsistency
  BY DEF NodeInv
<1>. QED  BY <1>1, Invariance, PTL

\* No exception ends the transmitter thread, unless a create request has been cut
\* short before.
THEOREM TransmitterNeverThrows == Spec => []TxNeverThrows
<1>1. NodeInv => TxNeverThrows
  BY DEF NodeInv
<1>. QED  BY <1>1, Invariance, PTL

\* An announced number of records is a number of records that can be sent, with
\* either way of locking.
THEOREM HeadersAreHonoured == Spec => []HeaderHonoured
<1>1. NodeInv => HeaderHonoured
  BY DEF NodeInv
<1>. QED  BY <1>1, Invariance, PTL

(***************************************************************************)
(* The steps of the daemon.                                                *)
(***************************************************************************)
\* The clock of the scrubber and the creation times of this node's variables are
\* never ahead of the system clock.
Clocks ==
    /\ scrub.curr <= now
    /\ \A v \in pd.used : pd.db[v].prodId = Me => pd.db[v].creationTime <= now

NoEntryStep == \A w \in VarId : Same(pd, pd', w)

ReceiverStep ==
    /\ rx = "process" /\ rxTodo' # rxTodo /\ scrub.pc # "batch"
    /\ UNCHANGED <<now, scrub>>
    /\ \E v \in VarId : FromOutside(pd, pd', v, Me)

RequestStep ==
    /\ UNCHANGED <<rxTodo, now, scrub>> /\ scrub.pc # "batch"
    /\ \E v \in VarId : FromInside(pd, pd', v, Me, now)

\* A variable is taken for expired, and deleted.
ExpiryStep ==
    /\ UNCHANGED <<rxTodo, now>> /\ scrub.pc = "batch" /\ scrub'.curr = scrub.curr
    /\ \E v \in pd.used : /\ ~ pd.db[v].isDeleted /\ Expired(pd.db[v])
                          /\ pd' = MarkDeleted(pd, v)

\* The entries change in three ways only, each in a section of its own.
EntriesChange == NoEntryStep \/ ReceiverStep \/ RequestStep \/ ExpiryStep

\* Received records.
LEMMA RxRecordChanges ==
    ASSUME NodeInv, RxRecord, NodeAssumption
    PROVE  ReceiverStep
<1> DEFINE k == CurrentType
           r == Head(rxTodo[k])
<1>1. k \in ICType /\ rxTodo[k] # <<>>
  BY CurrentTypeOK DEF NodeInv, TypeOK, RxRecord
<1>2. /\ pd' = ProcessRecord(pd, k, r, Me, now)
      /\ rxTodo' = [rxTodo EXCEPT ![k] = Tail(@)]
      /\ rx = "process" /\ mutex \in {"free", "rx"} /\ UNCHANGED <<now, scrub>>
  BY DEF RxRecord
<1> HIDE DEF k
<1>3. WellTyped(pd) /\ now \in Nat /\ RxDataTypeOK
  BY DEF NodeInv, TypeOK
<1>4. rxTodo[k] \in Seq(Record(k)) /\ rxTodo \in [ICType -> Seq(AnyRecord)]
  BY <1>1, <1>3 DEF RxDataTypeOK
<1>5. r \in Record(k) /\ Tail(rxTodo[k]) # rxTodo[k]
  <2>1. r \in Record(k) /\ Len(Tail(rxTodo[k])) = Len(rxTodo[k]) - 1
    BY <1>1, <1>4, HeadTailProperties
  <2>2. Len(rxTodo[k]) \in Nat
    BY <1>4
  <2> DEFINE rest == Tail(rxTodo[k])
  <2>3. Len(rest) = Len(rxTodo[k]) - 1
    BY <2>1
  <2> HIDE DEF rest
  <2>4. rest # rxTodo[k]
    BY <2>2, <2>3
  <2>. QED  BY <2>1, <2>4 DEF rest
<1>6. rxTodo'[k] # rxTodo[k]
  BY <1>1, <1>2, <1>4, <1>5
<1> HIDE DEF r
<1>7. \E v \in VarId : FromOutside(pd, pd', v, Me)
  BY <1>1, <1>2, <1>3, <1>5, RecordFromOutside, RecordIsOutside
<1>8. scrub.pc # "batch"
  BY <1>2 DEF NodeInv, Sections
<1>. QED  BY <1>2, <1>6, <1>7, <1>8 DEF ReceiverStep

\* Sending, or failing to.
LEMMA TxChanges ==
    ASSUME NodeInv, TxAddRecord \/ TxThrow
    PROVE  NoEntryStep /\ UNCHANGED <<now, scrub>>
<1> DEFINE k == TxOrder[txPhase]
<1>1. /\ tx = "build" /\ txLeft > 0 /\ UNCHANGED <<now, scrub>>
      /\ pd' \in {SendRecord(pd, k), AfterThrow(pd, k)}
  BY DEF TxAddRecord, TxThrow
<1>2. k \in ICType /\ pd.q[k] # <<>> /\ WellTyped(pd)
  BY <1>1, RecordThere
<1> HIDE DEF k
<1>. QED  BY <1>1, <1>2, SendSame DEF NoEntryStep

\* The scrubber in its section.
LEMMA ScrubChanges ==
    ASSUME NodeInv, ScrubVisit \/ ScrubPastEnd
    PROVE  (NoEntryStep \/ ExpiryStep) /\ now' = now /\ scrub'.curr = scrub.curr
<1>0. WellTyped(pd) /\ ScrubTypeOK
  BY DEF NodeInv, TypeOK
<1>1. scrub.pc = "batch" /\ UNCHANGED <<rxTodo, now>>
  BY DEF ScrubVisit, ScrubPastEnd, rxVars
<1>2. scrub'.curr = scrub.curr
  BY <1>0 DEF ScrubVisit, ScrubPastEnd, VisitVariable, ScrubTypeOK
<1>3. \/ pd' = pd
      \/ \E v \in pd.used : /\ ~ pd.db[v].isDeleted /\ Expired(pd.db[v])
                            /\ pd' = MarkDeleted(pd, v)
  <2>1. CASE ScrubVisit
    BY <2>1 DEF ScrubVisit, VisitVariable, NodeInv, Sections
  <2>2. CASE ScrubPastEnd
    BY <2>2 DEF ScrubPastEnd, VisitVariable
  <2>. QED  BY <2>1, <2>2
<1>4. pd' = pd => NoEntryStep
  BY <1>0, QueueStepSame DEF NoEntryStep
<1>. QED  BY <1>1, <1>2, <1>3, <1>4 DEF ExpiryStep

\* Requests, granted or not.
LEMMA RequestChanges ==
    ASSUME NodeInv, NodeAssumption,
           \/ \E r \in CreateRequests : RtdbCreate(r)
           \/ \E r \in UpdateRequests : RtdbUpdate(r)
           \/ \E r \in DeleteRequests : RtdbDelete(r)
    PROVE  (NoEntryStep \/ RequestStep) /\ UNCHANGED <<now, scrub>>
<1>1. WellTyped(pd) /\ (pd' = pd => NoEntryStep)
  BY QueueStepSame DEF NodeInv, TypeOK, NoEntryStep
<1>2. /\ mutex = "mgmt" /\ UNCHANGED <<rxTodo, now, scrub>>
  BY DEF RtdbCreate, RtdbUpdate, RtdbDelete, rxVars
<1>3. scrub.pc # "batch"
  BY <1>2 DEF NodeInv, Sections
<1>4. pd' = pd \/ \E v \in VarId : FromInside(pd, pd', v, Me, now)
  <2>1. CASE \E r \in CreateRequests : RtdbCreate(r)
    <3>1. PICK r \in CreateRequests : RtdbCreate(r)
      BY <2>1
    <3>2. r \in CreateRequest /\ r.varId \in VarId
      BY DEF NodeAssumption, CreateRequest
    <3>3. \/ pd' = pd
          \/ /\ RtdbCreateStatus(pd, r, Me, isActive) = "OK"
             /\ pd' = handle_rtdb_create_request(pd, r, Me, now)
      BY <3>1 DEF RtdbCreate
    <3>. QED  BY <1>1, <3>2, <3>3, RtdbCreateMakes
  <2>2. CASE \E r \in UpdateRequests : RtdbUpdate(r)
    <3>1. PICK r \in UpdateRequests : RtdbUpdate(r)
      BY <2>2
    <3>2. r.varId \in VarId
      BY DEF NodeAssumption
    <3>3. \/ pd' = pd
          \/ /\ RtdbUpdateStatus(pd, r.varId, r.value, Me, isActive) = "OK"
             /\ pd' = handle_rtdb_update_request(pd, r.varId, r.value, now)
      BY <3>1 DEF RtdbUpdate
    <3>. QED  BY <1>1, <3>2, <3>3, RtdbUpdateCounts
  <2>3. CASE \E r \in DeleteRequests : RtdbDelete(r)
    <3>1. PICK r \in DeleteRequests : RtdbDelete(r)
      BY <2>3
    <3>2. r.varId \in VarId
      BY DEF NodeAssumption
    <3>3. \/ pd' = pd
          \/ /\ RtdbModifyStatus(pd, r.varId, Me, isActive) = "OK"
             /\ pd' = handle_rtdb_delete_request(pd, r.varId)
      BY <3>1 DEF RtdbDelete
    <3>. QED  BY <1>1, <3>2, <3>3, RtdbDeleteDeletes
  <2>. QED  BY <2>1, <2>2, <2>3
<1>. QED  BY <1>1, <1>2, <1>3, <1>4 DEF RequestStep

\* Every step of the daemon.
LEMMA StepChanges ==
    ASSUME NodeInv, [Next]_vars, NodeAssumption
    PROVE  /\ EntriesChange
           /\ now' \in {now, now + 1} /\ scrub'.curr \in {scrub.curr, now}
<1>0. WellTyped(pd) /\ ScrubTypeOK /\ (pd' = pd => NoEntryStep)
  BY QueueStepSame DEF NodeInv, TypeOK, NoEntryStep
<1>1. CASE RxRecord
  BY <1>1, RxRecordChanges DEF EntriesChange, ReceiverStep
<1>2. CASE TxAddRecord \/ TxThrow
  BY <1>2, TxChanges DEF EntriesChange
<1>3. CASE ScrubVisit \/ ScrubPastEnd
  BY <1>3, ScrubChanges DEF EntriesChange
<1>4. CASE \/ \E r \in CreateRequests : RtdbCreate(r)
           \/ \E r \in UpdateRequests : RtdbUpdate(r)
           \/ \E r \in DeleteRequests : RtdbDelete(r)
  BY <1>4, RequestChanges DEF EntriesChange
<1>5. CASE RxCheckActive \/ RxGiveUp \/ RxExtract \/ RxParsed \/ RxDone
           \/ \E p \in Payloads : RxReceive(p)
  <2>1. UNCHANGED <<pd, now, scrub>>
    BY <1>5 DEF RxCheckActive, RxGiveUp, RxExtract, RxParsed, RxDone, RxReceive
  <2>. QED  BY <1>0, <2>1 DEF EntriesChange
<1>6. CASE TxCheckActive \/ TxPush \/ TxSkipContainer \/ TxOpenContainer \/ TxSend
           \/ TxTimeout
  <2>1. UNCHANGED <<pd, now, scrub>>
    BY <1>6 DEF TxCheckActive, TxPush, TxSkipContainer, TxOpenContainer, TxOpen, TxSend,
                TxTimeout
  <2>. QED  BY <1>0, <2>1 DEF EntriesChange
<1>7. CASE ScrubWake \/ ScrubBegin \/ ScrubSize \/ ScrubLock
  <2>1. UNCHANGED <<pd, now>> /\ scrub'.curr \in {scrub.curr, now}
    BY <1>0, <1>7 DEF ScrubWake, ScrubBegin, ScrubSize, ScrubLock, ScrubTypeOK
  <2>. QED  BY <1>0, <2>1 DEF EntriesChange
<1>8. CASE MgmtStart \/ MgmtLock \/ MgmtNextQueue \/ Activate \/ Deactivate \/ Shutdown
           \/ Tick \/ Quiet \/ UNCHANGED vars
  <2>1. UNCHANGED <<pd, scrub>> /\ now' \in {now, now + 1}
    BY <1>8 DEF MgmtStart, MgmtLock, MgmtNextQueue, Activate, Deactivate, Shutdown, Tick,
                Quiet, vars
  <2>. QED  BY <1>0, <2>1 DEF EntriesChange
<1>. QED  BY <1>1, <1>2, <1>3, <1>4, <1>5, <1>6, <1>7, <1>8
          DEF Next, RxInternal, TxInternal, ScrubStep, MgmtStep

(***************************************************************************)
(* The clocks.                                                             *)
(***************************************************************************)
LEMMA InitClocks ==
    ASSUME Init
    PROVE  Clocks
BY DEF Init, Clocks

\* Variables in use have creation times.
LEMMA ClockTypes ==
    ASSUME NodeInv
    PROVE  /\ WellTyped(pd) /\ now \in Nat /\ scrub.curr \in Nat
           /\ \A w \in VarId : pd.db[w] \in Entry /\ pd.db[w].creationTime \in Nat
BY Parts DEF NodeInv, TypeOK, ScrubTypeOK, Entry

\* No step of the daemon puts a clock ahead.
LEMMA StepClocks ==
    ASSUME NodeInv, Clocks, [Next]_vars, NodeAssumption
    PROVE  Clocks'
<1>1. EntriesChange /\ now' \in {now, now + 1} /\ scrub'.curr \in {scrub.curr, now}
  BY StepChanges
<1>2. /\ WellTyped(pd) /\ now \in Nat /\ scrub.curr \in Nat
      /\ \A w \in VarId : pd.db[w].creationTime \in Nat
  BY ClockTypes
<1>3. scrub'.curr <= now' /\ now <= now'
  BY <1>1, <1>2 DEF Clocks
<1>0. ASSUME NEW w \in VarId, w \in pd.used, pd.db[w].prodId = Me
      PROVE  pd.db[w].creationTime <= now'
  <2>1. pd.db[w].creationTime <= now /\ pd.db[w].creationTime \in Nat
    BY <1>0, <1>2 DEF Clocks
  <2>2. now \in Nat /\ now' \in Nat /\ now <= now'
    BY <1>1, <1>2
  <2>. QED  BY <2>1, <2>2
<1>4. ASSUME NEW w \in VarId, w \in pd'.used, pd'.db[w].prodId = Me
      PROVE  pd'.db[w].creationTime <= now'
  <2>1. CASE Same(pd, pd', w)
    BY <1>0, <1>2, <1>4, <2>1, SameFields
  <2>2. CASE ~ Same(pd, pd', w) /\ ReceiverStep
    <3>1. PICK v \in VarId : FromOutside(pd, pd', v, Me)
      BY <2>2 DEF ReceiverStep
    <3>2. v = w
      BY <2>2, <3>1 DEF FromOutside, OnlyTouches
    <3>3. pd'.db[w].prodId = pd.db[w].prodId => pd.db[w].prodId = Me
      BY <1>4
    <3>. QED  BY <1>4, <2>2, <3>1, <3>2 DEF FromOutside, Replaced, Deleted, Updated, Kept
  <2>3. CASE ~ Same(pd, pd', w) /\ RequestStep
    <3>1. PICK v \in VarId : FromInside(pd, pd', v, Me, now)
      BY <2>3 DEF RequestStep
    <3>2. v = w
      BY <2>3, <3>1 DEF FromInside, OnlyTouches
    <3>3. CASE Made(pd, pd', w, Me, now)
      BY <1>2, <1>3, <3>3 DEF Made
    <3>4. CASE Kept(pd, pd', w)
      BY <1>0, <1>4, <3>4 DEF Kept
    <3>. QED  BY <3>1, <3>2, <3>3, <3>4 DEF FromInside, Deleted, CountedUp
  <2>4. CASE ~ Same(pd, pd', w) /\ ExpiryStep
    <3>1. PICK v \in pd.used : ~ pd.db[v].isDeleted /\ pd' = MarkDeleted(pd, v)
      BY <2>4 DEF ExpiryStep
    <3>2. OnlyTouches(pd, pd', v) /\ Kept(pd, pd', v)
      BY <1>2, <3>1, MarkDeletedDeletes DEF Deleted
    <3>3. v = w
      BY <2>4, <3>2 DEF OnlyTouches
    <3>. QED  BY <1>0, <1>4, <3>2, <3>3 DEF Kept
  <2>. QED  BY <1>1, <2>1, <2>2, <2>3, <2>4 DEF EntriesChange, NoEntryStep
<1>5. pd'.used \subseteq VarId
  <2>1. NodeInv'
    BY StepOK, ProtocolDataAssumption, SeqnoAssumption
  <2>. QED  BY <2>1, Parts DEF NodeInv, TypeOK
<1>. QED  BY <1>3, <1>4, <1>5 DEF Clocks

\* The clocks stay in order.
THEOREM ClocksInOrder == Spec => []Clocks
<1>1. Init => Clocks
  BY InitClocks
<1>2. NodeInv /\ Clocks /\ [Next]_vars => Clocks'
  BY StepClocks, NodeAssumption
<1>. QED  BY <1>1, <1>2, Invariance, PTL DEF Spec

(***************************************************************************)
(* Properties of single variables.                                         *)
(***************************************************************************)
\* What comes in from the network leaves the value, the sequence number, the
\* producer and the life of this node's variables alone.
THEOREM OwnVariablesAreProtected == Spec => OwnVariableProtected
<1> DEFINE Protected ==
      rx = "process" => \A v \in pd.used :
         LET old == pd.db[v]
             new == pd'.db[v]
         IN  rxTodo' # rxTodo /\ old.prodId = Me =>
               \/ new = [old EXCEPT !.count = new.count]
               \/ new.prodId # Me /\ new.creationTime > old.creationTime
<1>1. ASSUME NodeInv, [Next]_vars
      PROVE  Protected
  <2>1. SUFFICES ASSUME NEW w \in pd.used, rxTodo' # rxTodo, pd.db[w].prodId = Me
                 PROVE  \/ pd'.db[w] = [pd.db[w] EXCEPT !.count = pd'.db[w].count]
                        \/ /\ pd'.db[w].prodId # Me
                           /\ pd'.db[w].creationTime > pd.db[w].creationTime
    OBVIOUS
  <2>2. w \in VarId
    BY <1>1, ClockTypes, Parts
  <2>3. CASE NoEntryStep
    BY <2>2, <2>3 DEF NoEntryStep, Same
  <2>4. CASE ReceiverStep
    <3>1. PICK v \in VarId : FromOutside(pd, pd', v, Me)
      BY <2>4 DEF ReceiverStep
    <3>2. Same(pd, pd', w) \/ Replaced(pd, pd', w, Me)
      BY <2>1, <2>2, <3>1 DEF FromOutside, OnlyTouches
    <3>. QED  BY <2>1, <3>2 DEF Same, Replaced
  <2>5. EntriesChange
    BY <1>1, StepChanges, NodeAssumption
  <2>. QED  BY <2>1, <2>3, <2>4, <2>5 DEF EntriesChange, RequestStep, ExpiryStep
<1>2. NodeInv /\ [Next]_vars => [Protected]_vars
  BY <1>1
<1>. QED  BY <1>2, Invariance, PTL DEF Spec, OwnVariableProtected

\* In the section of the scrubber a variable is deleted only when its value is
\* older than its timeout, although the scrubber reads the clock once in a round.
THEOREM ScrubbingIsSound == Spec => ScrubSound
<1> DEFINE Sound ==
      scrub.pc = "batch" => \A v \in pd.used :
         pd'.db[v].isDeleted /\ ~ pd.db[v].isDeleted =>
           pd.db[v].timeout > 0 /\ now - pd.db[v].tStamp > pd.db[v].timeout
<1>1. ASSUME NodeInv, Clocks, [Next]_vars
      PROVE  Sound
  <2>1. SUFFICES ASSUME scrub.pc = "batch", NEW w \in pd.used,
                        pd'.db[w].isDeleted, ~ pd.db[w].isDeleted
                 PROVE  pd.db[w].timeout > 0 /\ now - pd.db[w].tStamp > pd.db[w].timeout
    OBVIOUS
  <2>2. w \in VarId /\ WellTyped(pd)
    BY <1>1, ClockTypes, Parts
  <2>3. ~ Same(pd, pd', w)
    BY <2>1, <2>2, SameFields
  <2>4. ExpiryStep
    <3>1. EntriesChange
      BY <1>1, StepChanges, NodeAssumption
    <3>. QED  BY <2>1, <2>2, <2>3, <3>1
              DEF EntriesChange, NoEntryStep, ReceiverStep, RequestStep
  <2>5. PICK v \in pd.used : /\ ~ pd.db[v].isDeleted /\ Expired(pd.db[v])
                             /\ pd' = MarkDeleted(pd, v)
    BY <2>4 DEF ExpiryStep
  <2>6. v = w
    BY <2>2, <2>3, <2>5, MarkDeletedDeletes DEF OnlyTouches
  <2>7. pd.db[w] \in Entry /\ now \in Nat /\ scrub.curr \in Nat /\ scrub.curr <= now
    BY <1>1, <2>2, ClockTypes DEF Clocks
  <2>8. pd.db[w].tStamp \in Nat /\ pd.db[w].timeout \in Nat
    BY <2>7 DEF Entry
  <2>. QED  BY <2>5, <2>6, <2>7, <2>8 DEF Expired
<1>2. NodeInv /\ Clocks /\ [Next]_vars => [Sound]_vars
  BY <1>1
<1>. QED  BY <1>2, Invariance, ClocksInOrder, PTL DEF Spec, ScrubSound

(***************************************************************************)
(* The refinement.                                                         *)
(***************************************************************************)
\* The variable v of the database.
Variable(s, v) ==
    [state    |-> IF v \notin s.used THEN "unknown"
                  ELSE IF s.db[v].isDeleted THEN "deleted" ELSE "live",
     producer |-> s.db[v].prodId,
     created  |-> s.db[v].creationTime,
     seqno    |-> s.db[v].seqno]

\* A variable that only repeats is the same variable.
LEMMA SameVariable ==
    ASSUME NEW s, WellTyped(s), NEW t, NEW w \in VarId, Same(s, t, w)
    PROVE  Variable(t, w) = Variable(s, w)
BY SameFields DEF Variable

\* A step of the database that concerns v alone.
LEMMA OneVariableSet ==
    ASSUME WellTyped(pd), NEW v \in VarId, OnlyTouches(pd, pd', v)
    PROVE  /\ Database' = [Database EXCEPT ![v] = Database'[v]]
           /\ Database[v] = Variable(pd, v) /\ Database'[v] = Variable(pd', v)
<1>1. \A w \in VarId : w # v => Variable(pd', w) = Variable(pd, w)
  BY SameVariable DEF OnlyTouches
<1>2. /\ Database = [w \in VarId |-> Variable(pd, w)]
      /\ Database' = [w \in VarId |-> Variable(pd', w)]
  BY DEF Database, Variable
<1> HIDE DEF Database
<1>. QED  BY <1>1, <1>2

\* A received record is a step of the database, or none.
LEMMA ReceiverRefines ==
    ASSUME NodeInv, NEW v \in VarId, FromOutside(pd, pd', v, Me), ~ Same(pd, pd', v)
    PROVE  Abstract!Create(v) \/ Abstract!Update(v) \/ Abstract!Delete(v)
<1>1. /\ Database' = [Database EXCEPT ![v] = Database'[v]]
      /\ Database[v] = Variable(pd, v) /\ Database'[v] = Variable(pd', v)
  BY OneVariableSet DEF FromOutside, NodeInv, TypeOK
<1>2. CASE Replaced(pd, pd', v, Me)
  <2>1. /\ Variable(pd', v) = [state |-> "live", producer |-> pd'.db[v].prodId,
                  created |-> pd'.db[v].creationTime, seqno |-> pd'.db[v].seqno]
        /\ pd'.db[v].prodId \in NodeId \ {Me}
        /\ v \notin pd.used \/ pd'.db[v].creationTime > pd.db[v].creationTime
    BY <1>2 DEF Replaced, Variable
  <2>2. /\ Variable(pd, v).state = "unknown" <=> v \notin pd.used
        /\ Variable(pd, v).created = pd.db[v].creationTime
    BY DEF Variable
  <2> HIDE DEF Database
  <2>. QED  BY <1>1, <2>1, <2>2 DEF Abstract!Create, Abstract!Set, Abstract!Live
<1>3. CASE pd.db[v].prodId # Me /\ Deleted(pd, pd', v)
  <2>1. /\ Variable(pd, v).state = "live"
        /\ Variable(pd', v) = [Variable(pd, v) EXCEPT !.state = "deleted"]
    BY <1>3 DEF Deleted, Kept, Variable
  <2> HIDE DEF Database
  <2>. QED  BY <1>1, <2>1 DEF Abstract!Delete, Abstract!Set
<1>4. CASE pd.db[v].prodId # Me /\ Updated(pd, pd', v)
  <2>1. /\ Variable(pd, v).state = "live" /\ Variable(pd, v).producer # Me
        /\ Variable(pd', v) = [state |-> "live", producer |-> Variable(pd, v).producer,
                               created |-> Variable(pd, v).created,
                               seqno |-> Variable(pd', v).seqno]
        /\ Variable(pd', v).seqno # Variable(pd, v).seqno
        /\ ~ more_recent_seqno(Variable(pd, v).seqno, Variable(pd', v).seqno)
    BY <1>4 DEF Updated, Kept, Variable
  <2>2. \A a, b : Abstract!more_recent_seqno(a, b) <=> more_recent_seqno(a, b)
    BY DEF Abstract!more_recent_seqno, more_recent_seqno, Abstract!HalfSeqno, HalfSeqno
  <2> HIDE DEF Database
  <2>. QED  BY <1>1, <2>1, <2>2 DEF Abstract!Update, Abstract!Set, Abstract!Live
<1>. QED  BY <1>2, <1>3, <1>4 DEF FromOutside

\* So is a request.
LEMMA RequestRefines ==
    ASSUME NodeInv, Clocks, NEW v \in VarId, FromInside(pd, pd', v, Me, now)
    PROVE  Abstract!Create(v) \/ Abstract!Update(v) \/ Abstract!Delete(v)
<1>1. /\ Database' = [Database EXCEPT ![v] = Database'[v]]
      /\ Database[v] = Variable(pd, v) /\ Database'[v] = Variable(pd', v)
  BY OneVariableSet DEF FromInside, NodeInv, TypeOK
<1>2. CASE Made(pd, pd', v, Me, now)
  <2>1. /\ Variable(pd', v) = [state |-> "live", producer |-> Me, created |-> now, seqno |-> 0]
        /\ v \in pd.used => Variable(pd, v).producer = Me
    BY <1>2 DEF Made, Variable
  <2>2. /\ Variable(pd, v).state = "unknown" <=> v \notin pd.used
        /\ Variable(pd, v).created = pd.db[v].creationTime
    BY DEF Variable
  <2>3. v \in pd.used => now >= Variable(pd, v).created
    <3>1. v \in pd.used => pd.db[v].creationTime <= now
      BY <1>2 DEF Made, Clocks
    <3>2. pd.db[v].creationTime \in Nat /\ now \in Nat
      BY ClockTypes
    <3>. QED  BY <2>2, <3>1, <3>2
  <2> HIDE DEF Database
  <2>. QED  BY <1>1, <2>1, <2>2, <2>3 DEF Abstract!Create, Abstract!Set, Abstract!Live
<1>3. CASE pd.db[v].prodId = Me /\ Deleted(pd, pd', v)
  <2>1. /\ Variable(pd, v).state = "live"
        /\ Variable(pd', v) = [Variable(pd, v) EXCEPT !.state = "deleted"]
    BY <1>3 DEF Deleted, Kept, Variable
  <2> HIDE DEF Database
  <2>. QED  BY <1>1, <2>1 DEF Abstract!Delete, Abstract!Set
<1>4. CASE pd.db[v].prodId = Me /\ CountedUp(pd, pd', v)
  <2>1. /\ Variable(pd, v).state = "live" /\ Variable(pd, v).producer = Me
        /\ Variable(pd', v) = [state |-> "live", producer |-> Variable(pd, v).producer,
                               created |-> Variable(pd, v).created,
                               seqno |-> Variable(pd', v).seqno]
        /\ Variable(pd', v).seqno = NextSeqno(Variable(pd, v).seqno)
    BY <1>4 DEF CountedUp, Kept, Variable
  <2> HIDE DEF Database
  <2>. QED  BY <1>1, <2>1 DEF Abstract!Update, Abstract!Set, Abstract!Live,
                              Abstract!NextSeqno, NextSeqno
<1>. QED  BY <1>2, <1>3, <1>4 DEF FromInside

\* And the expiry of a variable.
LEMMA ExpiryRefines ==
    ASSUME NodeInv, NEW v \in pd.used, ~ pd.db[v].isDeleted, pd' = MarkDeleted(pd, v)
    PROVE  v \in VarId /\ Abstract!Delete(v)
<1>1. WellTyped(pd) /\ v \in VarId
  BY Parts DEF NodeInv, TypeOK
<1>2. OnlyTouches(pd, pd', v) /\ Deleted(pd, pd', v)
  BY <1>1, MarkDeletedDeletes
<1>3. /\ Database' = [Database EXCEPT ![v] = Database'[v]]
      /\ Database[v] = Variable(pd, v) /\ Database'[v] = Variable(pd', v)
  BY <1>1, <1>2, OneVariableSet
<1>4. /\ Variable(pd, v).state = "live"
      /\ Variable(pd', v) = [Variable(pd, v) EXCEPT !.state = "deleted"]
  BY <1>2 DEF Deleted, Kept, Variable
<1> HIDE DEF Database
<1>. QED  BY <1>1, <1>3, <1>4 DEF Abstract!Delete, Abstract!Set

\* A step that leaves all variables the same leaves the database as it is.
LEMMA NoEntryStepStutters ==
    ASSUME NodeInv, NoEntryStep
    PROVE  Database' = Database
<1>1. \A w \in VarId : Variable(pd', w) = Variable(pd, w)
  BY SameVariable DEF NoEntryStep, NodeInv, TypeOK
<1>2. /\ Database = [w \in VarId |-> Variable(pd, w)]
      /\ Database' = [w \in VarId |-> Variable(pd', w)]
  BY DEF Database, Variable
<1> HIDE DEF Database
<1>. QED  BY <1>1, <1>2

\* The daemon implements the real-time database: whatever the four threads, the
\* network and the applications do, every change of an entry is the creation, an
\* update or the deletion of one variable, and the database knows no others.
THEOREM NodeImplementsDatabase == Spec => ImplementsDatabase
<1>1. Init => Abstract!Init
  <2>1. Init => pd.used = {}
    BY DEF Init
  <2>. QED  BY <2>1 DEF Abstract!Init, Database
<1>2. NodeInv /\ Clocks /\ [Next]_vars => [Abstract!Next]_Database
  <2> SUFFICES ASSUME NodeInv, Clocks, [Next]_vars
               PROVE  Abstract!Next \/ Database' = Database
    OBVIOUS
  <2>1. EntriesChange
    BY StepChanges, NodeAssumption
  <2>2. CASE NoEntryStep
    BY <2>2, NoEntryStepStutters
  <2>3. CASE ReceiverStep
    <3>1. PICK v \in VarId : FromOutside(pd, pd', v, Me)
      BY <2>3 DEF ReceiverStep
    <3>2. CASE Same(pd, pd', v)
      <4>1. NoEntryStep
        BY <3>1, <3>2 DEF NoEntryStep, FromOutside, OnlyTouches
      <4>. QED  BY <4>1, NoEntryStepStutters
    <3>. QED  BY <3>1, <3>2, ReceiverRefines DEF Abstract!Next
  <2>4. CASE RequestStep
    BY <2>4, RequestRefines DEF RequestStep, Abstract!Next
  <2>5. CASE ExpiryStep
    BY <2>5, ExpiryRefines DEF ExpiryStep, Abstract!Next
  <2>. QED  BY <2>1, <2>2, <2>3, <2>4, <2>5 DEF EntriesChange
<1>. QED  BY <1>1, <1>2, Invariance, ClocksInOrder, PTL DEF Spec, ImplementsDatabase, Abstract!Spec

BuildInv ==
    tx = "build" =>
        /\ PayloadOK(MaxPayloadSize, txPayload, txPhase, txLeft, txUsed)
        /\ txLeft > 0 => /\ txPayload # <<>>
                         /\ Opened(MaxPayloadSize, pd, txPayload[Len(txPayload)], TxOrder[txPhase], txUsed, txLeft)

\* What other threads do leaves the payload alone, and the queues while they are needed.
LEMMA OthersKeepPayload ==
    ASSUME NodeInv, BuildInv, UNCHANGED txVars, pd' = pd \/ mutex # "tx"
    PROVE  BuildInv'
<1>1. UNCHANGED <<tx, txPhase, txLeft, txUsed, txPayload>>
  BY DEF txVars
<1>2. CASE pd' = pd
  BY <1>1, <1>2 DEF BuildInv
<1>3. CASE mutex # "tx"
  BY <1>1, <1>3, NotBuilding DEF BuildInv
<1>. QED  BY <1>2, <1>3

LEMMA OthersStep ==
    ASSUME NodeInv, BuildInv, Next, ~ TxInternal, ~ TxTimeout
    PROVE  BuildInv'
<1>1. UNCHANGED txVars /\ (pd' = pd \/ mutex # "tx")
  <2>1. CASE RxInternal \/ \E p \in Payloads : RxReceive(p)
    BY <2>1 DEF RxInternal, RxReceive, RxCheckActive, RxGiveUp, RxExtract, RxParsed, RxRecord,
                RxDone
  <2>2. CASE ScrubStep
    <3>1. scrub.pc = "batch" => mutex # "tx"
      BY DEF NodeInv, Sections
    <3>2. CASE ScrubVisit \/ ScrubPastEnd
      BY <3>1, <3>2 DEF ScrubVisit, ScrubPastEnd
    <3>3. CASE ScrubWake \/ ScrubBegin \/ ScrubSize \/ ScrubLock
      BY <3>3 DEF ScrubWake, ScrubBegin, ScrubSize, ScrubLock
    <3>. QED  BY <2>2, <3>2, <3>3 DEF ScrubStep
  <2>3. CASE MgmtStep
    BY <2>3 DEF MgmtStep, MgmtStart, MgmtLock, MgmtNextQueue, RtdbCreate, RtdbUpdate, RtdbDelete
  <2>4. CASE Activate \/ Deactivate \/ Shutdown \/ Tick \/ Quiet
    BY <2>4 DEF Activate, Deactivate, Shutdown, Tick, Quiet, vars
  <2>. QED  BY <2>1, <2>2, <2>3, <2>4, SMTT(30) DEF Next
<1>. QED  BY <1>1, OthersKeepPayload


(***************************************************************************)
(* The steps of the transmitter.                                           *)
(***************************************************************************)
LEMMA StartsAndEnds ==
    ASSUME NodeInv, BuildInv, ProtocolDataAssumption, NodeAssumption,
           \/ TxCheckActive \/ TxPush \/ TxTimeout \/ TxSend \/ TxThrow
    PROVE  BuildInv'
<1>1. CASE TxCheckActive \/ TxTimeout \/ TxSend \/ TxThrow
  <2>1. tx' # "build"
    BY <1>1 DEF TxCheckActive, TxTimeout, TxSend, TxThrow
  <2>. QED  BY <2>1 DEF BuildInv
<1>2. CASE TxPush
  <2>1. txPayload' = <<>> /\ txPhase' = 1 /\ txLeft' = 0 /\ txUsed' = 0
    BY <1>2 DEF TxPush
  <2>2. PayloadOK(MaxPayloadSize, txPayload', txPhase', txLeft', txUsed')
    BY <2>1, EmptyPayload
  <2>3. ~ (txLeft' > 0)
    BY <2>1
  <2>. QED  BY <2>2, <2>3 DEF BuildInv
<1>. QED  BY <1>1, <1>2

LEMMA TxSkipKeepsPayload ==
    ASSUME NodeInv, BuildInv, TxSkipContainer
    PROVE  BuildInv'
<1>1. /\ tx = "build" /\ txLeft = 0 /\ txPhase' = txPhase + 1
      /\ UNCHANGED <<txLeft, txUsed, txPayload>>
  BY DEF TxSkipContainer, TxAtContainer
<1>2. PayloadOK(MaxPayloadSize, txPayload, txPhase, 0, txUsed) /\ txPhase \in Nat
  BY <1>1 DEF BuildInv, NodeInv, TypeOK, TxOrder
<1>3. PayloadOK(MaxPayloadSize, txPayload, txPhase + 1, 0, txUsed)
  BY <1>2, SkippedContainer
<1>4. PayloadOK(MaxPayloadSize, txPayload', txPhase', txLeft', txUsed')
  BY <1>1, <1>3
<1>5. ~ (txLeft' > 0)
  BY <1>1
<1>. QED  BY <1>4, <1>5 DEF BuildInv

LEMMA TxOpenKeepsPayload ==
    ASSUME NodeInv, BuildInv, TxOpenContainer, ProtocolDataAssumption, NodeAssumption
    PROVE  BuildInv'
<1> DEFINE k == TxOrder[txPhase]
           c == [type |-> k, recs |-> <<>>]
           n == numberFittingRecords(pd, k, MaxPayloadSize - txUsed)
<1>1. /\ tx = "build" /\ txLeft = 0 /\ txPhase <= Len(TxOrder)
      /\ CanAddContainer(pd, k, MaxPayloadSize - txUsed) /\ txLeft' = n
      /\ txPayload' = Append(txPayload, c) /\ txUsed' = txUsed + HeaderSize
      /\ pd' = pd /\ txPhase' = txPhase
  BY DEF TxOpenContainer, TxOpen, TxAtContainer, TxRemaining
<1>2. PayloadOK(MaxPayloadSize, txPayload, txPhase, 0, txUsed)
  BY <1>1 DEF BuildInv
<1>3. txPhase \in 1 .. 6 /\ WellTyped(pd)
  BY <1>1, SixContainers DEF NodeInv, TypeOK
<1>4. /\ PayloadOK(MaxPayloadSize, Append(txPayload, c), txPhase, n, txUsed + HeaderSize)
      /\ Append(txPayload, c) # <<>> /\ Append(txPayload, c)[Len(Append(txPayload, c))] = c
      /\ Opened(MaxPayloadSize, pd, c, k, txUsed + HeaderSize, n)
  BY <1>1, <1>2, <1>3, OpenedContainer
<1> HIDE DEF c, n
<1>5. PayloadOK(MaxPayloadSize, txPayload', txPhase', txLeft', txUsed')
  BY <1>1, <1>4
<1>6. txPayload' # <<>> /\ Opened(MaxPayloadSize, pd', txPayload'[Len(txPayload')], k, txUsed', txLeft')
  BY <1>1, <1>4
<1>. QED  BY <1>1, <1>5, <1>6 DEF BuildInv

LEMMA TxAddKeepsPayload ==
    ASSUME NodeInv, BuildInv, TxAddRecord, ProtocolDataAssumption, NodeAssumption
    PROVE  BuildInv'
<1> DEFINE k == TxOrder[txPhase]
           r == RecordFor(pd, k, Head(pd.q[k]))
           b == txUsed + RecordSize(k, r)
           q == [txPayload EXCEPT ![Len(txPayload)].recs = Append(@, r)]
<1>1. /\ tx = "build" /\ txLeft > 0 /\ txLeft' = txLeft - 1
      /\ txPhase' = IF txLeft = 1 THEN txPhase + 1 ELSE txPhase
      /\ pd' = SendRecord(pd, k) /\ txUsed' = b /\ txPayload' = q
  BY DEF TxAddRecord
<1>2. /\ txPhase \in 1 .. 6 /\ txLeft \in Nat /\ txLeft <= Len(pd.q[k]) /\ WellTyped(pd)
  BY <1>1, RecordThere
<1>3. /\ PayloadOK(MaxPayloadSize, txPayload, txPhase, txLeft, txUsed) /\ txPayload # <<>>
      /\ Opened(MaxPayloadSize, pd, txPayload[Len(txPayload)], k, txUsed, txLeft)
  BY <1>1, SMTT(30) DEF BuildInv
<1>4. /\ PayloadOK(MaxPayloadSize, q, IF txLeft = 1 THEN txPhase + 1 ELSE txPhase, txLeft - 1, b)
      /\ txLeft - 1 > 0 => q # <<>> /\ Opened(MaxPayloadSize, SendRecord(pd, k), q[Len(q)], k, b, txLeft - 1)
  BY <1>1, <1>2, <1>3, RecordAdded
<1> HIDE DEF r, b, q
<1>5. PayloadOK(MaxPayloadSize, txPayload', txPhase', txLeft', txUsed')
  BY <1>1, <1>4
<1>6. ASSUME txLeft' > 0
      PROVE  /\ txPayload' # <<>>
             /\ Opened(MaxPayloadSize, pd', txPayload'[Len(txPayload')], TxOrder[txPhase'], txUsed', txLeft')
  <2>1. txLeft - 1 > 0 /\ txPhase' = txPhase
    BY <1>1, <1>2, <1>6
  <2>. QED  BY <1>1, <1>4, <2>1
<1>. QED  BY <1>5, <1>6 DEF BuildInv

LEMMA StepKeepsPayload ==
    ASSUME NodeInv, BuildInv, [Next]_vars, ProtocolDataAssumption, NodeAssumption
    PROVE  BuildInv'
<1>1. CASE Next /\ ~ TxInternal /\ ~ TxTimeout
  BY <1>1, OthersStep
<1>2. CASE TxInternal \/ TxTimeout
  BY <1>2, StartsAndEnds, TxSkipKeepsPayload, TxOpenKeepsPayload, TxAddKeepsPayload
     DEF TxInternal
<1>3. CASE UNCHANGED vars
  BY <1>3, OthersKeepPayload DEF vars
<1>. QED  BY <1>1, <1>2, <1>3


(***************************************************************************)
(* Results.                                                                *)
(***************************************************************************)
\* What has been written of the payload, the container that is being filled and the front
\* of its queue fit together in every reachable state.
THEOREM PayloadInvariance == Spec => []BuildInv
<1>1. Init => BuildInv
  BY DEF Init, BuildInv
<1>2. NodeInv /\ BuildInv /\ [Next]_vars => BuildInv'
  BY StepKeepsPayload, ProtocolDataAssumption, NodeAssumption
<1>. QED  BY <1>1, <1>2, Invariance, PTL DEF Spec

\* A payload never outgrows the size limit whatever is queued and however long the records
\* are, the bytes accounted for are those written, and containers and records are not
\* repeated, with either way of locking and whatever happens in between two containers.
THEOREM PayloadsAreWellFormed == Spec => []PayloadWellFormed
<1>1. ASSUME BuildInv
      PROVE  PayloadWellFormed
  <2>1. SUFFICES ASSUME tx = "build"
                 PROVE  PayloadWellFormed
    BY DEF PayloadWellFormed
  <2>2. PayloadOK(MaxPayloadSize, txPayload, txPhase, txLeft, txUsed)
    BY <1>1, <2>1 DEF BuildInv
  <2>3. \A i : i \in DOMAIN txPayload => i \in 1 .. Len(txPayload)
    BY <2>2, LenProperties DEF PayloadOK
  <2>4. txUsed <= MaxPayloadSize /\ txUsed = PayloadBytes(txPayload)
    BY <2>2 DEF PayloadOK
  <2>5. ASSUME NEW i \in DOMAIN txPayload, NEW j \in DOMAIN txPayload,
               txPayload[i].type = txPayload[j].type
        PROVE  i = j
    <3>1. i \in 1 .. Len(txPayload) /\ j \in 1 .. Len(txPayload)
      BY <2>3
    <3>. QED  BY <2>2, <2>5, <3>1, Zenon DEF PayloadOK
  <2>6. ASSUME NEW i \in DOMAIN txPayload
        PROVE  /\ Cardinality({txPayload[i].recs[j].varId : j \in DOMAIN txPayload[i].recs})
                    = Len(txPayload[i].recs)
               /\ Len(txPayload[i].recs) <= MaxRecords
               /\ txPayload[i].recs = <<>> => i = Len(txPayload) /\ txLeft > 0
    <3>1. Proper(txPayload[i]) /\ (txPayload[i].recs = <<>> => i = Len(txPayload) /\ txLeft > 0)
      <4>1. i \in 1 .. Len(txPayload)
        BY <2>3
      <4>. QED  BY <2>2, <4>1, Zenon DEF PayloadOK
    <3>. QED  BY <3>1, Zenon DEF Proper, Ids
  <2>. QED  BY <2>4, <2>5, <2>6, Zenon DEF PayloadWellFormed
<1>. QED  BY <1>1, PayloadInvariance, PTL

=============================================================================

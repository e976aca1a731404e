----------------------- MODULE VardisProtocolData_proofs -----------------------
(***************************************************************************)
(* Every operation on the protocol data keeps them well typed and          *)
(* consistent.  The lemmas about the shared steps come first; they reduce  *)
(* each operation to what it does to the members of the queues.            *)
(***************************************************************************)
EXTENDS VardisProtocolData, FiniteSets, TLAPS, WellFoundedInduction, FiniteSetTheorems,
        SequenceTheorems

(***************************************************************************)
(* What insert, remove and pop_front of a VarIdQueue do to the queue and   *)
(* to the set of its members.                                              *)
(***************************************************************************)
\* The empty queue is a queue and has no members.
LEMMA EmptyQueue ==
    ASSUME NEW S
    PROVE  IsVarIdQueue(<<>>, S) /\ Members(<<>>) = {}
BY DEF IsVarIdQueue, Members

\* insert keeps the queue free of duplicates and adds exactly one member.
LEMMA InsertMembers ==
    ASSUME NEW S, NEW q, IsVarIdQueue(q, S), NEW v \in S
    PROVE  /\ IsVarIdQueue(Insert(q, v), S)
           /\ Members(Insert(q, v)) = Members(q) \cup {v}
<1>1. CASE Contains(q, v)
  BY <1>1 DEF Insert, Contains
<1>2. CASE ~ Contains(q, v)
  <2>1. Insert(q, v) = Append(q, v) /\ q \in Seq(S)
    BY <1>2 DEF Insert, IsVarIdQueue
  <2>2. /\ Append(q, v) \in Seq(S)
        /\ DOMAIN Append(q, v) = 1 .. Len(q) + 1
        /\ DOMAIN q = 1 .. Len(q)
        /\ \A i \in 1 .. Len(q) : Append(q, v)[i] = q[i]
        /\ Append(q, v)[Len(q) + 1] = v
        /\ Len(q) \in Nat
    BY <2>1
  <2>3. \A i \in DOMAIN q : q[i] # v
    BY <1>2 DEF Contains, Members
  <2>4. \A i, j \in DOMAIN q : q[i] = q[j] => i = j
    BY DEF IsVarIdQueue
  <2>5. IsVarIdQueue(Append(q, v), S)
    BY <2>2, <2>3, <2>4 DEF IsVarIdQueue
  <2>6. Members(Append(q, v)) = Members(q) \cup {v}
    BY <2>2 DEF Members
  <2>. QED  BY <2>1, <2>5, <2>6
<1>. QED  BY <1>1, <1>2

\* remove keeps the queue free of duplicates and takes exactly one member out;
\* on a queue that does not hold the identifier it changes nothing.
LEMMA RemoveMembers ==
    ASSUME NEW S, NEW q, IsVarIdQueue(q, S), NEW v
    PROVE  /\ IsVarIdQueue(Remove(q, v), S)
           /\ Members(Remove(q, v)) = Members(q) \ {v}
           /\ Len(Remove(q, v)) = IF v \in Members(q) THEN Len(q) - 1 ELSE Len(q)
<1>1. CASE ~ Contains(q, v)
  BY <1>1 DEF Remove, Contains
<1>2. CASE Contains(q, v)
  <2> DEFINE p == CHOOSE i \in DOMAIN q : q[i] = v
             r == [i \in 1 .. Len(q) - 1 |-> IF i < p THEN q[i] ELSE q[i + 1]]
  <2>1. /\ q \in Seq(S)
        /\ DOMAIN q = 1 .. Len(q)
        /\ Len(q) \in Nat
        /\ \A i \in 1 .. Len(q) : q[i] \in S
        /\ \A i, j \in 1 .. Len(q) : q[i] = q[j] => i = j
    BY DEF IsVarIdQueue
  <2>2. p \in 1 .. Len(q) /\ q[p] = v
    BY <1>2, <2>1 DEF Contains, Members
  <2>3. Remove(q, v) = r
    BY <1>2 DEF Remove
  <2> HIDE DEF p
  <2>4. Len(q) - 1 \in Nat
    BY <2>1, <2>2
  <2>5. r \in Seq(S) /\ Len(r) = Len(q) - 1 /\ DOMAIN r = 1 .. Len(q) - 1
    <3>1. \A i \in 1 .. Len(q) - 1 : r[i] \in S
      BY <2>1, <2>2
    <3>. QED  BY <2>4, <3>1
  <2>6. \A i \in 1 .. Len(q) - 1 : r[i] = IF i < p THEN q[i] ELSE q[i + 1]
    OBVIOUS
  <2> HIDE DEF r
  <2>7. \A i, j \in DOMAIN r : r[i] = r[j] => i = j
    BY <2>1, <2>2, <2>5, <2>6
  <2>8. Members(r) = Members(q) \ {v}
    <3>1. ASSUME NEW i \in DOMAIN r  PROVE r[i] \in Members(q) /\ r[i] # v
      BY <2>1, <2>2, <2>5, <2>6 DEF Members
    <3>2. ASSUME NEW i \in DOMAIN q, q[i] # v  PROVE q[i] \in Members(r)
      <4>1. CASE i < p
        <5>1. i \in DOMAIN r /\ r[i] = q[i]
          BY <4>1, <2>1, <2>2, <2>5, <2>6
        <5>. QED  BY <5>1 DEF Members
      <4>2. CASE i > p
        <5>1. i - 1 \in DOMAIN r /\ r[i - 1] = q[i]
          BY <4>2, <2>1, <2>2, <2>5, <2>6
        <5>. QED  BY <5>1 DEF Members
      <4>. QED  BY <3>2, <4>1, <4>2, <2>1, <2>2
    <3>. QED  BY <3>1, <3>2 DEF Members
  <2>. QED  BY <1>2, <2>3, <2>5, <2>7, <2>8 DEF IsVarIdQueue, Contains
<1>. QED  BY <1>1, <1>2

\* pop_front of a queue that is not empty takes out its front and nothing else.
LEMMA PopFrontMembers ==
    ASSUME NEW S, NEW q, IsVarIdQueue(q, S), q # <<>>
    PROVE  /\ Head(q) \in Members(q)
           /\ Head(q) \in S
           /\ IsVarIdQueue(PopFront(q), S)
           /\ Members(PopFront(q)) = Members(q) \ {Head(q)}
           /\ Len(PopFront(q)) = Len(q) - 1
<1>1. q \in Seq(S) /\ Len(q) > 0 /\ Head(q) = q[1] /\ 1 \in DOMAIN q
  BY DEF IsVarIdQueue
<1>2. Head(q) \in Members(q) /\ Head(q) \in S
  BY <1>1 DEF Members
<1>. QED  BY <1>2, RemoveMembers DEF PopFront

(***************************************************************************)
(* Protocol data.                                                          *)
(***************************************************************************)
\* The parts of well-typed protocol data.
LEMMA Parts ==
    ASSUME NEW s, WellTyped(s)
    PROVE  /\ s.used \in SUBSET VarId /\ s.active \in SUBSET VarId
           /\ s.db \in [VarId -> Entry] /\ AreQueues(s.q)
           /\ s = [used |-> s.used, db |-> s.db, active |-> s.active, q |-> s.q]
BY DEF WellTyped, ProtocolData

\* Queues hold variable identifiers.
LEMMA QueueElements ==
    ASSUME NEW q, AreQueues(q), NEW k \in ICType
    PROVE  IsVarIdQueue(q[k], VarId) /\ Members(q[k]) \subseteq VarId
BY DEF AreQueues, IsVarIdQueue, Members

\* Protocol data put together from parts of their types.
LEMMA Whole ==
    ASSUME NEW U \in SUBSET VarId, NEW A \in SUBSET VarId,
           NEW D \in [VarId -> Entry], NEW q, AreQueues(q)
    PROVE  WellTyped([used |-> U, db |-> D, active |-> A, q |-> q])
BY DEF WellTyped, ProtocolData, AreQueues

\* Queues with one of them replaced.
LEMMA ReplaceQueue ==
    ASSUME NEW q, AreQueues(q), NEW k \in ICType, NEW x, IsVarIdQueue(x, VarId)
    PROVE  AreQueues([q EXCEPT ![k] = x])
BY DEF AreQueues, IsVarIdQueue

\* Taking v out of all queues and putting it into those of ks.
LEMMA MoveToQueuesMembers ==
    ASSUME NEW s, WellTyped(s), NEW v \in VarId, NEW ks
    PROVE  /\ AreQueues(MoveToQueues(s, v, ks))
           /\ \A k \in ICType : \A w : w \in Members(MoveToQueues(s, v, ks)[k]) <=>
                \/ w \in Members(s.q[k]) /\ w # v
                \/ k \in ks /\ w = v
<1>1. ASSUME NEW k \in ICType
      PROVE  /\ IsVarIdQueue(MoveToQueues(s, v, ks)[k], VarId)
             /\ \A w : w \in Members(MoveToQueues(s, v, ks)[k]) <=>
                  \/ w \in Members(s.q[k]) /\ w # v
                  \/ k \in ks /\ w = v
  <2>1. /\ IsVarIdQueue(Remove(s.q[k], v), VarId)
        /\ Members(Remove(s.q[k], v)) = Members(s.q[k]) \ {v}
    BY RemoveMembers DEF WellTyped, AreQueues
  <2>2. /\ IsVarIdQueue(Insert(Remove(s.q[k], v), v), VarId)
        /\ Members(Insert(Remove(s.q[k], v), v)) = Members(Remove(s.q[k], v)) \cup {v}
    BY <2>1, InsertMembers
  <2>3. MoveToQueues(s, v, ks)[k] = IF k \in ks THEN Insert(Remove(s.q[k], v), v)
                                                ELSE Remove(s.q[k], v)
    BY DEF MoveToQueues
  <2>4. CASE k \in ks
    BY <2>1, <2>2, <2>3, <2>4
  <2>5. CASE k \notin ks
    BY <2>1, <2>3, <2>5
  <2>. QED  BY <2>4, <2>5
<1>2. MoveToQueues(s, v, ks) \in [ICType -> Seq(VarId)]
  BY <1>1 DEF MoveToQueues, IsVarIdQueue
<1>. QED  BY <1>1, <1>2 DEF AreQueues

\* The two uses of it: a new entry, and a deleted one.
LEMMA MoveToCreateAndSummary ==
    ASSUME NEW s, WellTyped(s), NEW v \in VarId
    PROVE  /\ AreQueues(MoveToQueues(s, v, {"create", "summary"}))
           /\ \A k \in ICType : \A w :
                w \in Members(MoveToQueues(s, v, {"create", "summary"})[k]) <=>
                  \/ w \in Members(s.q[k]) /\ w # v
                  \/ k \in {"create", "summary"} /\ w = v
<1> DEFINE ks == {"create", "summary"}
<1>1. \A k : k \in ks <=> k \in {"create", "summary"}
  OBVIOUS
<1>2. MoveToQueues(s, v, {"create", "summary"}) = MoveToQueues(s, v, ks)
  OBVIOUS
<1> HIDE DEF ks
<1>3. AreQueues(MoveToQueues(s, v, ks))
  BY MoveToQueuesMembers
<1>4. \A k \in ICType : \A w : w \in Members(MoveToQueues(s, v, ks)[k]) <=>
        \/ w \in Members(s.q[k]) /\ w # v
        \/ k \in ks /\ w = v
  BY MoveToQueuesMembers
<1>. QED  BY <1>1, <1>2, <1>3, <1>4

\* A variable that is deleted stays in deleteQ alone.
LEMMA MoveToDelete ==
    ASSUME NEW s, WellTyped(s), NEW v \in VarId
    PROVE  /\ AreQueues(MoveToQueues(s, v, {"delete"}))
           /\ \A k \in ICType : \A w : w \in Members(MoveToQueues(s, v, {"delete"})[k]) <=>
                \/ w \in Members(s.q[k]) /\ w # v
                \/ k = "delete" /\ w = v
<1> DEFINE ks == {"delete"}
<1>1. \A k : k \in ks <=> k = "delete"
  OBVIOUS
<1>2. MoveToQueues(s, v, {"delete"}) = MoveToQueues(s, v, ks)
  OBVIOUS
<1> HIDE DEF ks
<1>3. AreQueues(MoveToQueues(s, v, ks))
  BY MoveToQueuesMembers
<1>4. \A k \in ICType : \A w : w \in Members(MoveToQueues(s, v, ks)[k]) <=>
        \/ w \in Members(s.q[k]) /\ w # v
        \/ k \in ks /\ w = v
  BY MoveToQueuesMembers
<1>. QED  BY <1>1, <1>2, <1>3, <1>4

\* Installing a new entry of which the create counter alone is running.
LEMMA InstallEntryOK ==
    ASSUME NEW s, WellTyped(s), NEW v \in VarId, NEW e \in Entry
    PROVE  /\ WellTyped(InstallEntry(s, v, e))
           /\ (/\ Consistent(s) /\ ~ e.isDeleted /\ e.repCnt > 0
               /\ \A k \in Counted : e.count[k] > 0 <=> k = "create")
              => Consistent(InstallEntry(s, v, e))
<1> DEFINE t == InstallEntry(s, v, e)
           q == MoveToQueues(s, v, {"create", "summary"})
<1>1. AreQueues(q)
  BY MoveToCreateAndSummary
<1>2. \A k \in ICType : \A w : w \in Members(q[k]) <=>
        \/ w \in Members(s.q[k]) /\ w # v
        \/ k \in {"create", "summary"} /\ w = v
  BY MoveToCreateAndSummary
<1>3. /\ s.used \in SUBSET VarId /\ s.active \in SUBSET VarId
      /\ s.db \in [VarId -> Entry]
  BY Parts
<1>4. \A k \in ICType : Members(s.q[k]) \subseteq VarId
  BY QueueElements, Parts
<1>5. t = [used |-> s.used \cup {v}, db |-> [s.db EXCEPT ![v] = e],
           active |-> s.active \cup {v}, q |-> q]
  BY DEF InstallEntry
<1> HIDE DEF q
<1>6. /\ t.used = s.used \cup {v} /\ t.active = s.active \cup {v}
      /\ t.db = [s.db EXCEPT ![v] = e] /\ t.q = q
  BY <1>5
<1>7. WellTyped(t)
  <2>1. s.used \cup {v} \in SUBSET VarId /\ s.active \cup {v} \in SUBSET VarId
    BY <1>3
  <2>2. [s.db EXCEPT ![v] = e] \in [VarId -> Entry]
    BY <1>3
  <2>. QED  BY <1>1, <1>5, <2>1, <2>2, Whole
<1> HIDE DEF t
<1>8. /\ t.db[v] = e
      /\ \A w \in VarId : w # v => t.db[w] = s.db[w] /\ (w \in t.used <=> w \in s.used)
  BY <1>3, <1>6
<1>9. ASSUME Consistent(s), ~ e.isDeleted, e.repCnt > 0,
             \A k \in Counted : e.count[k] > 0 <=> k = "create"
      PROVE  Consistent(t)
  <2>1. ActiveAreUsed(t)
    BY <1>3, <1>6, <1>8, <1>9 DEF Consistent, ActiveAreUsed
  <2>2. CountersMatchQueues(t)
    <3> SUFFICES ASSUME NEW k \in Counted, NEW w \in VarId
                 PROVE  w \in Members(t.q[k]) <=> w \in t.used /\ t.db[w].count[k] > 0
      BY DEF CountersMatchQueues
    <3>1. k \in ICType /\ (k \in {"create", "summary"} <=> k = "create")
      BY DEF Counted, ICType
    <3>2. w \in Members(s.q[k]) <=> w \in s.used /\ s.db[w].count[k] > 0
      BY <1>9 DEF Consistent, CountersMatchQueues
    <3>3. w \in Members(t.q[k]) <=> (w \in Members(s.q[k]) /\ w # v) \/ (k = "create" /\ w = v)
      BY <3>1, <1>2, <1>6
    <3>. QED  BY <3>2, <3>3, <1>6, <1>8, <1>9
  <2>3. DeletedOnlyInDeleteQ(t)
    BY <1>2, <1>3, <1>6, <1>8, <1>9 DEF Consistent, DeletedOnlyInDeleteQ
  <2>4. Members(t.q["summary"]) = {w \in t.used : ~ t.db[w].isDeleted}
    <3>1. \A w : w \in Members(t.q["summary"]) <=> w \in Members(s.q["summary"]) \/ w = v
      BY <1>2, <1>6 DEF ICType
    <3>2. Members(s.q["summary"]) = {w \in s.used : ~ s.db[w].isDeleted}
      BY <1>9 DEF Consistent, QueuesHoldTheRightVariables
    <3>. QED  BY <3>1, <3>2, <1>3, <1>6, <1>8, <1>9
  <2>5. \A w \in Members(t.q["delete"]) : t.db[w].isDeleted
    <3>1. \A w \in Members(t.q["delete"]) : w \in Members(s.q["delete"]) /\ w # v
      BY <1>2, <1>6 DEF ICType
    <3>. QED  BY <3>1, <1>4, <1>8, <1>9
              DEF Consistent, QueuesHoldTheRightVariables, ICType
  <2>6. /\ Members(t.q["reqUpd"]) \subseteq t.used
        /\ Members(t.q["reqCreate"]) \cap t.used = {}
    <3>1. \A w : /\ w \in Members(t.q["reqUpd"]) => w \in Members(s.q["reqUpd"])
                 /\ w \in Members(t.q["reqCreate"]) => w \in Members(s.q["reqCreate"]) /\ w # v
      BY <1>2, <1>6 DEF ICType
    <3>. QED  BY <3>1, <1>6, <1>9 DEF Consistent, QueuesHoldTheRightVariables
  <2>. QED
    BY <2>1, <2>2, <2>3, <2>4, <2>5, <2>6 DEF Consistent, QueuesHoldTheRightVariables
<1>. QED  BY <1>7, <1>9 DEF t

\* Changing the entry of v, and its place in the queues but no other variable's.
LEMMA ChangeEntryOK ==
    ASSUME NEW s, WellTyped(s), NEW v \in VarId, NEW e \in Entry, NEW q, AreQueues(q)
    PROVE  /\ WellTyped(ChangeEntry(s, v, e, q))
           /\ (/\ Consistent(s)
               /\ e.repCnt = s.db[v].repCnt
               /\ \A k \in ICType : \A w : w # v => (w \in Members(q[k]) <=> w \in Members(s.q[k]))
               /\ \A k \in Counted : v \in Members(q[k]) <=> v \in s.used /\ e.count[k] > 0
               /\ v \in Members(q["summary"]) <=> v \in s.used /\ ~ e.isDeleted
               /\ v \in s.used /\ e.isDeleted =>
                    \A k \in ICType \ {"delete"} : v \notin Members(q[k])
               /\ v \in Members(q["delete"]) => e.isDeleted
               /\ v \in Members(q["reqUpd"]) => v \in s.used
               /\ v \in Members(q["reqCreate"]) => v \notin s.used)
              => Consistent(ChangeEntry(s, v, e, q))
<1> DEFINE t == ChangeEntry(s, v, e, q)
<1>1. /\ s.used \in SUBSET VarId /\ s.active \in SUBSET VarId
      /\ s.db \in [VarId -> Entry]
  BY Parts
<1>2. t = [used |-> s.used, db |-> [s.db EXCEPT ![v] = e], active |-> s.active, q |-> q]
  BY DEF ChangeEntry
<1>3. /\ t.used = s.used /\ t.active = s.active
      /\ t.db = [s.db EXCEPT ![v] = e] /\ t.q = q
  BY <1>2
<1>4. WellTyped(t)
  <2>1. [s.db EXCEPT ![v] = e] \in [VarId -> Entry]
    BY <1>1
  <2>. QED  BY <1>1, <1>2, <2>1, Whole
<1> HIDE DEF t
<1>5. t.db[v] = e /\ \A w \in VarId : w # v => t.db[w] = s.db[w]
  BY <1>1, <1>3
<1>6. \A k \in ICType : Members(s.q[k]) \subseteq VarId /\ Members(q[k]) \subseteq VarId
  BY QueueElements, Parts
<1>7. ASSUME Consistent(s),
             e.repCnt = s.db[v].repCnt,
             \A k \in ICType : \A w : w # v => (w \in Members(q[k]) <=> w \in Members(s.q[k])),
             \A k \in Counted : v \in Members(q[k]) <=> v \in s.used /\ e.count[k] > 0,
             v \in Members(q["summary"]) <=> v \in s.used /\ ~ e.isDeleted,
             v \in s.used /\ e.isDeleted =>
               \A k \in ICType \ {"delete"} : v \notin Members(q[k]),
             v \in Members(q["delete"]) => e.isDeleted,
             v \in Members(q["reqUpd"]) => v \in s.used,
             v \in Members(q["reqCreate"]) => v \notin s.used
      PROVE  Consistent(t)
  <2>1. ActiveAreUsed(t)
    BY <1>1, <1>3, <1>5, <1>7 DEF Consistent, ActiveAreUsed
  <2>2. CountersMatchQueues(t)
    <3> SUFFICES ASSUME NEW k \in Counted, NEW w \in VarId
                 PROVE  w \in Members(t.q[k]) <=> w \in t.used /\ t.db[w].count[k] > 0
      BY DEF CountersMatchQueues
    <3>1. w \in Members(s.q[k]) <=> w \in s.used /\ s.db[w].count[k] > 0
      BY <1>7 DEF Consistent, CountersMatchQueues
    <3>2. w # v => (w \in Members(q[k]) <=> w \in Members(s.q[k]))
      BY <1>7 DEF Counted, ICType
    <3>. QED  BY <3>1, <3>2, <1>3, <1>5, <1>7
  <2>3. DeletedOnlyInDeleteQ(t)
    BY <1>1, <1>3, <1>5, <1>7 DEF Consistent, DeletedOnlyInDeleteQ
  <2>4. Members(t.q["summary"]) = {w \in t.used : ~ t.db[w].isDeleted}
    <3>1. Members(s.q["summary"]) = {w \in s.used : ~ s.db[w].isDeleted}
      BY <1>7 DEF Consistent, QueuesHoldTheRightVariables
    <3>2. \A w : w # v => (w \in Members(q["summary"]) <=> w \in Members(s.q["summary"]))
      BY <1>7 DEF ICType
    <3>. QED  BY <3>1, <3>2, <1>1, <1>3, <1>5, <1>7
  <2>5. \A w \in Members(t.q["delete"]) : t.db[w].isDeleted
    <3>1. \A w \in Members(q["delete"]) : w \in VarId /\ (w # v => w \in Members(s.q["delete"]))
      BY <1>6, <1>7 DEF ICType
    <3>. QED  BY <3>1, <1>3, <1>5, <1>7 DEF Consistent, QueuesHoldTheRightVariables
  <2>6. /\ Members(t.q["reqUpd"]) \subseteq t.used
        /\ Members(t.q["reqCreate"]) \cap t.used = {}
    <3>1. \A w : w # v => /\ w \in Members(q["reqUpd"]) => w \in Members(s.q["reqUpd"])
                          /\ w \in Members(q["reqCreate"]) => w \in Members(s.q["reqCreate"])
      BY <1>7 DEF ICType
    <3>. QED  BY <3>1, <1>3, <1>7 DEF Consistent, QueuesHoldTheRightVariables
  <2>. QED
    BY <2>1, <2>2, <2>3, <2>4, <2>5, <2>6 DEF Consistent, QueuesHoldTheRightVariables
<1>. QED  BY <1>4, <1>7 DEF t

\* What consistency says of one variable.
LEMMA OfOneVariable ==
    ASSUME NEW s, WellTyped(s), Consistent(s), NEW v \in VarId
    PROVE  /\ \A k \in Counted : v \in Members(s.q[k]) <=> v \in s.used /\ s.db[v].count[k] > 0
           /\ v \in Members(s.q["summary"]) <=> v \in s.used /\ ~ s.db[v].isDeleted
           /\ v \in s.used /\ s.db[v].isDeleted =>
                \A k \in ICType \ {"delete"} : v \notin Members(s.q[k])
           /\ v \in Members(s.q["delete"]) => s.db[v].isDeleted
           /\ v \in Members(s.q["reqUpd"]) => v \in s.used
           /\ v \in Members(s.q["reqCreate"]) => v \notin s.used
           /\ v \in s.used => s.db[v].repCnt > 0
BY DEF Consistent, CountersMatchQueues, DeletedOnlyInDeleteQ, ActiveAreUsed,
       QueuesHoldTheRightVariables

\* Marking a variable as deleted, by a record, a request or the scrubber.
LEMMA MarkDeletedOK ==
    ASSUME NEW s, WellTyped(s), NEW v \in VarId, ProtocolDataAssumption
    PROVE  /\ WellTyped(MarkDeleted(s, v))
           /\ Consistent(s) /\ v \in s.used => Consistent(MarkDeleted(s, v))
<1> DEFINE q == MoveToQueues(s, v, {"delete"})
           n == OnlyCount("delete", s.db[v].repCnt)
           e == [s.db[v] EXCEPT !.isDeleted = TRUE, !.count = n]
<1>1. AreQueues(q)
  BY MoveToDelete
<1>2. \A k \in ICType : \A w : w \in Members(q[k]) <=>
        (w \in Members(s.q[k]) /\ w # v) \/ (k = "delete" /\ w = v)
  BY MoveToDelete
<1>3. s.db \in [VarId -> Entry]
  BY Parts
<1>4. /\ n \in [Counted -> RepCnt]
      /\ \A k \in Counted : n[k] = IF k = "delete" THEN s.db[v].repCnt ELSE 0
      /\ s.db[v] \in Entry /\ s.db[v].repCnt \in Nat
  BY <1>3 DEF Entry, OnlyCount, RepCnt, ProtocolDataAssumption
<1>5. MarkDeleted(s, v) = ChangeEntry(s, v, e, q)
  BY DEF MarkDeleted
<1> HIDE DEF q, n
<1>6. e \in Entry /\ e.isDeleted /\ e.repCnt = s.db[v].repCnt /\ e.count = n
  BY <1>4 DEF Entry
<1> HIDE DEF e
<1>7. WellTyped(ChangeEntry(s, v, e, q))
  BY <1>1, <1>6, ChangeEntryOK
<1>8. ASSUME Consistent(s), v \in s.used
      PROVE  Consistent(ChangeEntry(s, v, e, q))
  <2>1. \A k \in ICType : \A w : w # v => (w \in Members(q[k]) <=> w \in Members(s.q[k]))
    BY <1>2
  <2>2. \A k \in ICType : v \in Members(q[k]) <=> k = "delete"
    BY <1>2
  <2>3. \A k \in Counted : v \in Members(q[k]) <=> v \in s.used /\ e.count[k] > 0
    BY <1>4, <1>6, <1>8, <2>2, OfOneVariable DEF Counted, ICType
  <2>. QED  BY <1>1, <1>6, <1>8, <2>1, <2>2, <2>3, ChangeEntryOK DEF ICType
<1>. QED  BY <1>5, <1>7, <1>8

\* Repeating the records of type k for a live variable, whose entry becomes e.
LEMMA RepeatWithOK ==
    ASSUME NEW s, WellTyped(s), NEW v \in VarId, NEW k \in {"create", "update"},
           NEW e \in Entry, ProtocolDataAssumption
    PROVE  /\ WellTyped(RepeatWith(s, k, v, e))
           /\ (/\ Consistent(s) /\ v \in s.used /\ ~ s.db[v].isDeleted
               /\ e.repCnt = s.db[v].repCnt /\ ~ e.isDeleted /\ e.count = s.db[v].count)
              => Consistent(RepeatWith(s, k, v, e))
<1> DEFINE x == Insert(s.q[k], v)
           q == [s.q EXCEPT ![k] = x]
           n == [e.count EXCEPT ![k] = e.repCnt]
           f == [e EXCEPT !.count = n]
<1>1. k \in ICType /\ k \in Counted /\ k # "delete"
  BY DEF ICType, Counted
<1>2. AreQueues(s.q) /\ s.db \in [VarId -> Entry]
  BY Parts
<1>3. IsVarIdQueue(x, VarId) /\ Members(x) = Members(s.q[k]) \cup {v}
  BY <1>1, <1>2, QueueElements, InsertMembers
<1>4. RepeatWith(s, k, v, e) = ChangeEntry(s, v, f, q)
  BY DEF RepeatWith
<1> HIDE DEF x
<1>5. AreQueues(q)
  BY <1>1, <1>2, <1>3, ReplaceQueue
<1>6. \A c \in ICType : q[c] = IF c = k THEN x ELSE s.q[c]
  BY <1>2 DEF AreQueues
<1>7. \A c \in ICType : \A w : w \in Members(q[c]) <=>
        w \in Members(s.q[c]) \/ (c = k /\ w = v)
  BY <1>3, <1>6
<1> HIDE DEF q
<1>8. /\ n \in [Counted -> RepCnt] /\ e.repCnt \in Nat
      /\ \A c \in Counted : n[c] = IF c = k THEN e.repCnt ELSE e.count[c]
  BY <1>1 DEF Entry, RepCnt, ProtocolDataAssumption
<1> HIDE DEF n
<1>9. f \in Entry /\ f.repCnt = e.repCnt /\ f.isDeleted = e.isDeleted /\ f.count = n
  BY <1>8 DEF Entry
<1> HIDE DEF f
<1>10. WellTyped(ChangeEntry(s, v, f, q))
  BY <1>5, <1>9, ChangeEntryOK
<1>11. ASSUME Consistent(s), v \in s.used, ~ s.db[v].isDeleted,
              e.repCnt = s.db[v].repCnt, ~ e.isDeleted, e.count = s.db[v].count
       PROVE  Consistent(ChangeEntry(s, v, f, q))
  <2>1. \A c \in ICType : \A w : w # v => (w \in Members(q[c]) <=> w \in Members(s.q[c]))
    BY <1>7
  <2>2. \A c \in ICType : v \in Members(q[c]) <=> v \in Members(s.q[c]) \/ c = k
    BY <1>7
  <2>3. \A c \in Counted : v \in Members(q[c]) <=> v \in s.used /\ f.count[c] > 0
    BY <1>8, <1>9, <1>11, <2>2, OfOneVariable DEF Counted, ICType
  <2>4. /\ v \in Members(q["summary"]) <=> v \in s.used /\ ~ f.isDeleted
        /\ v \in Members(q["delete"]) => f.isDeleted
        /\ v \in Members(q["reqUpd"]) => v \in s.used
        /\ v \in Members(q["reqCreate"]) => v \notin s.used
    BY <1>1, <1>9, <1>11, <2>2, OfOneVariable DEF ICType
  <2>. QED  BY <1>5, <1>9, <1>11, <2>1, <2>3, <2>4, ChangeEntryOK
<1>. QED  BY <1>4, <1>10, <1>11

\* Replacing one queue: a request for an unknown variable or for an update of a
\* live one comes in, or a request leaves.
LEMMA OneQueueOK ==
    ASSUME NEW s, WellTyped(s), NEW v \in VarId, NEW k \in {"reqUpd", "reqCreate"},
           NEW x, IsVarIdQueue(x, VarId)
    PROVE  /\ WellTyped([s EXCEPT !.q[k] = x])
           /\ (/\ Consistent(s)
               /\ \A w : w # v => (w \in Members(x) => w \in Members(s.q[k]))
               /\ v \in Members(x) => IF k = "reqUpd" THEN v \in s.used /\ ~ s.db[v].isDeleted
                                                      ELSE v \notin s.used)
              => Consistent([s EXCEPT !.q[k] = x])
<1> DEFINE q == [s.q EXCEPT ![k] = x]
           t == [s EXCEPT !.q[k] = x]
<1>1. k \in ICType /\ k \notin Counted /\ k # "summary" /\ k # "delete"
  BY DEF ICType, Counted
<1>2. /\ s.used \in SUBSET VarId /\ s.active \in SUBSET VarId
      /\ s.db \in [VarId -> Entry] /\ AreQueues(s.q)
      /\ s = [used |-> s.used, db |-> s.db, active |-> s.active, q |-> s.q]
  BY Parts
<1>3. t = [used |-> s.used, db |-> s.db, active |-> s.active, q |-> q]
  BY <1>2
<1>4. t.used = s.used /\ t.active = s.active /\ t.db = s.db /\ t.q = q
  BY <1>3
<1>5. AreQueues(q)
  BY <1>1, <1>2, ReplaceQueue
<1>6. \A c \in ICType : q[c] = IF c = k THEN x ELSE s.q[c]
  BY <1>2 DEF AreQueues
<1> HIDE DEF q
<1>7. WellTyped(t)
  BY <1>2, <1>3, <1>5, Whole
<1> HIDE DEF t
<1>8. ASSUME Consistent(s),
             \A w : w # v => (w \in Members(x) => w \in Members(s.q[k])),
             v \in Members(x) => IF k = "reqUpd" THEN v \in s.used /\ ~ s.db[v].isDeleted
                                                 ELSE v \notin s.used
      PROVE  Consistent(t)
  <2>1. ActiveAreUsed(t) /\ CountersMatchQueues(t)
    BY <1>1, <1>4, <1>6, <1>8
       DEF Consistent, ActiveAreUsed, CountersMatchQueues, Counted, ICType
  <2>2. DeletedOnlyInDeleteQ(t)
    BY <1>1, <1>4, <1>6, <1>8 DEF Consistent, DeletedOnlyInDeleteQ, ICType
  <2>3. QueuesHoldTheRightVariables(t)
    BY <1>1, <1>4, <1>6, <1>8 DEF Consistent, QueuesHoldTheRightVariables, ICType
  <2>. QED  BY <2>1, <2>2, <2>3 DEF Consistent
<1>. QED  BY <1>7, <1>8 DEF t

\* An identifier put into a request queue leaves the data consistent, provided it
\* is one that the queue may hold.
LEMMA EnqueueOK ==
    ASSUME NEW s, WellTyped(s), NEW v \in VarId, NEW k \in {"reqUpd", "reqCreate"}
    PROVE  /\ WellTyped(Enqueue(s, k, v))
           /\ Consistent(s) /\ (IF k = "reqUpd" THEN v \in s.used /\ ~ s.db[v].isDeleted
                                                ELSE v \notin s.used)
              => Consistent(Enqueue(s, k, v))
<1> DEFINE x == Insert(s.q[k], v)
<1>1. IsVarIdQueue(x, VarId) /\ Members(x) = Members(s.q[k]) \cup {v}
  BY Parts, QueueElements, InsertMembers DEF ICType
<1>2. AreQueues(s.q) /\ k \in ICType
  BY Parts DEF ICType
<1>3. Enqueue(s, k, v) = [s EXCEPT !.q[k] = x]
  BY DEF Enqueue
<1> HIDE DEF x
<1>4. \A w : w # v => (w \in Members(x) => w \in Members(s.q[k]))
  BY <1>1
<1>5. WellTyped([s EXCEPT !.q[k] = x])
  BY <1>1, OneQueueOK
<1>. QED  BY <1>1, <1>3, <1>4, <1>5, OneQueueOK

\* So does taking one out of reqUpdQ.
LEMMA DropRequestOK ==
    ASSUME NEW s, WellTyped(s), NEW v \in VarId
    PROVE  LET t == [s EXCEPT !.q["reqUpd"] = Remove(@, v)]
           IN  WellTyped(t) /\ (Consistent(s) => Consistent(t))
<1> DEFINE k == "reqUpd"
           x == Remove(s.q[k], v)
<1>1. IsVarIdQueue(x, VarId) /\ Members(x) = Members(s.q[k]) \ {v}
  BY Parts, QueueElements, RemoveMembers DEF ICType
<1>2. AreQueues(s.q) /\ k \in ICType /\ k \in {"reqUpd", "reqCreate"}
  BY Parts DEF ICType
<1>3. [s EXCEPT !.q["reqUpd"] = Remove(@, v)]
        = [s EXCEPT !.q[k] = x]
  OBVIOUS
<1> HIDE DEF x, k
<1>4. /\ \A w : w # v => (w \in Members(x) => w \in Members(s.q[k]))
      /\ v \notin Members(x)
  BY <1>1
<1>5. WellTyped([s EXCEPT !.q[k] = x])
  BY <1>1, <1>2, OneQueueOK
<1>6. Consistent(s) => Consistent([s EXCEPT !.q[k] = x])
  BY <1>1, <1>2, <1>4, OneQueueOK
<1>. QED  BY <1>3, <1>5, <1>6

(***************************************************************************)
(* The handlers of received records.                                       *)
(***************************************************************************)
LEMMA EntryOfNewEntry ==
    ASSUME NEW spec, NEW prodId \in NodeId, NEW created \in Nat, NEW seqno \in Seqno,
           NEW value \in Value, NEW now \in Nat, spec.repCnt \in 1 .. MaxRepetitions,
           spec.timeout \in Nat, spec.descr \in Nat, ProtocolDataAssumption
    PROVE  LET e == NewEntry(spec, prodId, created, seqno, value, now)
           IN  /\ e \in Entry /\ ~ e.isDeleted /\ e.repCnt > 0
               /\ \A k \in Counted : e.count[k] > 0 <=> k = "create"
<1>1. OnlyCount("create", spec.repCnt) \in [Counted -> RepCnt]
  BY DEF OnlyCount, Counted, RepCnt, ProtocolDataAssumption
<1>2. \A k \in Counted : OnlyCount("create", spec.repCnt)[k] > 0 <=> k = "create"
  BY DEF OnlyCount, Counted, ProtocolDataAssumption
<1>3. spec.repCnt \in RepCnt /\ spec.repCnt > 0
  BY DEF RepCnt, ProtocolDataAssumption
<1>. QED  BY <1>1, <1>2, <1>3 DEF NewEntry, Entry

\* process_var_create keeps the data well typed and consistent.
LEMMA CreateOK ==
    ASSUME NEW s, WellTyped(s), NEW r \in CreateRecord, NEW me, NEW now \in Nat,
           ProtocolDataAssumption
    PROVE  LET t == process_var_create(s, r, me, now)
           IN  WellTyped(t) /\ (Consistent(s) => Consistent(t))
<1> DEFINE e == NewEntry(r, r.prodId, r.creationTime, r.seqno, r.value, now)
<1>1. /\ r.varId \in VarId /\ r.prodId \in NodeId /\ r.creationTime \in Nat
      /\ r.seqno \in Seqno /\ r.value \in Value /\ r.timeout \in Nat /\ r.descr \in Nat
  BY DEF CreateRecord
<1>2. CASE process_var_create(s, r, me, now) = s
  BY <1>2
<1>3. CASE process_var_create(s, r, me, now) # s
  <2>1. /\ process_var_create(s, r, me, now) = InstallEntry(s, r.varId, e)
        /\ LegalRepCnt(r.repCnt)
    BY <1>3 DEF process_var_create
  <2>2. /\ e \in Entry /\ ~ e.isDeleted /\ e.repCnt > 0
        /\ \A k \in Counted : e.count[k] > 0 <=> k = "create"
    BY <1>1, <2>1, EntryOfNewEntry DEF LegalRepCnt
  <2> HIDE DEF e
  <2>3. WellTyped(InstallEntry(s, r.varId, e))
    BY <1>1, <2>2, InstallEntryOK
  <2>4. Consistent(s) => Consistent(InstallEntry(s, r.varId, e))
    BY <1>1, <2>2, InstallEntryOK
  <2>. QED  BY <2>1, <2>3, <2>4
<1>. QED  BY <1>2, <1>3

\* So does process_var_delete.
LEMMA DeleteOK ==
    ASSUME NEW s, WellTyped(s), NEW r \in VarIdRecord, NEW me, ProtocolDataAssumption
    PROVE  LET t == process_var_delete(s, r, me)
           IN  WellTyped(t) /\ (Consistent(s) => Consistent(t))
BY MarkDeletedOK DEF process_var_delete, variableExists, VarIdRecord

\* A newer value leaves the rest of the entry alone.
LEMMA EntryOfNewValue ==
    ASSUME NEW e \in Entry, NEW seqno \in Seqno, NEW value \in Value, NEW now \in Nat
    PROVE  LET f == NewValue(e, seqno, value, now)
           IN  /\ f \in Entry /\ f.repCnt = e.repCnt /\ f.count = e.count
               /\ f.isDeleted = e.isDeleted
BY DEF NewValue, Entry

\* Repeating the records of a live variable keeps the data consistent.
LEMMA RepeatOK ==
    ASSUME NEW s, WellTyped(s), NEW v \in VarId, NEW k \in {"create", "update"},
           ProtocolDataAssumption
    PROVE  /\ WellTyped(Repeat(s, k, v))
           /\ Consistent(s) /\ v \in s.used /\ ~ s.db[v].isDeleted
              => Consistent(Repeat(s, k, v))
<1>1. s.db[v] \in Entry
  BY Parts
<1>. QED  BY <1>1, RepeatWithOK DEF Repeat

\* So does repeating its updates for a neighbour that is behind.
LEMMA EducateOK ==
    ASSUME NEW s, WellTyped(s), NEW v \in VarId, ProtocolDataAssumption
    PROVE  /\ WellTyped(EducateSender(s, v))
           /\ Consistent(s) /\ v \in s.used /\ ~ s.db[v].isDeleted
              => Consistent(EducateSender(s, v))
BY RepeatOK DEF EducateSender

\* process_var_update keeps the data well typed and consistent.
LEMMA UpdateOK ==
    ASSUME NEW s, WellTyped(s), NEW r \in UpdateRecord, NEW me, NEW now \in Nat,
           ProtocolDataAssumption
    PROVE  LET t == process_var_update(s, r, me, now)
           IN  WellTyped(t) /\ (Consistent(s) => Consistent(t))
<1> DEFINE v == r.varId
           f == NewValue(s.db[v], r.seqno, r.value, now)
           u == RepeatWith(s, "update", v, f)
           w == [u EXCEPT !.q["reqUpd"] = Remove(@, v)]
           t == process_var_update(s, r, me, now)
<1>1. v \in VarId /\ r.seqno \in Seqno /\ r.value \in Value /\ s.db[v] \in Entry
  BY Parts DEF UpdateRecord
<1>2. f \in Entry /\ f.repCnt = s.db[v].repCnt /\ f.count = s.db[v].count
      /\ f.isDeleted = s.db[v].isDeleted
  BY <1>1, EntryOfNewValue
<1>3. \/ v \notin s.used /\ t = Enqueue(s, "reqCreate", v)
      \/ t = s
      \/ v \in s.used /\ ~ s.db[v].isDeleted /\ t \in {EducateSender(s, v), w}
  BY DEF process_var_update, variableExists
<1> HIDE DEF t, f
<1>4. CASE v \notin s.used /\ t = Enqueue(s, "reqCreate", v)
  BY <1>1, <1>4, EnqueueOK DEF t
<1>5. CASE t = s
  BY <1>5 DEF t
<1>6. CASE v \in s.used /\ ~ s.db[v].isDeleted /\ t = EducateSender(s, v)
  BY <1>1, <1>6, EducateOK DEF t
<1>7. CASE v \in s.used /\ ~ s.db[v].isDeleted /\ t = w
  <2>1. WellTyped(u) /\ (Consistent(s) => Consistent(u))
    BY <1>1, <1>2, <1>7, RepeatWithOK
  <2> HIDE DEF u, v
  <2>2. WellTyped(w) /\ (Consistent(u) => Consistent(w))
    BY <1>1, <2>1, DropRequestOK
  <2>. QED  BY <1>7, <2>1, <2>2 DEF t
<1>. QED  BY <1>3, <1>4, <1>5, <1>6, <1>7

\* So does process_var_summary.
LEMMA SummaryOK ==
    ASSUME NEW s, WellTyped(s), NEW r \in SeqnoRecord, NEW me, ProtocolDataAssumption
    PROVE  LET t == process_var_summary(s, r, me)
           IN  WellTyped(t) /\ (Consistent(s) => Consistent(t))
<1> DEFINE v == r.varId
           t == process_var_summary(s, r, me)
<1>1. v \in VarId
  BY DEF SeqnoRecord
<1>2. \/ v \notin s.used /\ t = Enqueue(s, "reqCreate", v)
      \/ t = s
      \/ v \in s.used /\ ~ s.db[v].isDeleted
         /\ t \in {EducateSender(s, v), Enqueue(s, "reqUpd", v)}
  BY DEF process_var_summary, variableExists
<1> HIDE DEF t, v
<1>3. CASE v \notin s.used /\ t = Enqueue(s, "reqCreate", v)
  BY <1>1, <1>3, EnqueueOK DEF t
<1>4. CASE t = s
  BY <1>4 DEF t
<1>5. CASE v \in s.used /\ ~ s.db[v].isDeleted /\ t = EducateSender(s, v)
  BY <1>1, <1>5, EducateOK DEF t
<1>6. CASE v \in s.used /\ ~ s.db[v].isDeleted /\ t = Enqueue(s, "reqUpd", v)
  BY <1>1, <1>6, EnqueueOK DEF t
<1>. QED  BY <1>2, <1>3, <1>4, <1>5, <1>6

\* So does process_var_requpdate.
LEMMA ReqUpdateOK ==
    ASSUME NEW s, WellTyped(s), NEW r \in SeqnoRecord, ProtocolDataAssumption
    PROVE  LET t == process_var_requpdate(s, r)
           IN  WellTyped(t) /\ (Consistent(s) => Consistent(t))
<1> DEFINE v == r.varId
           t == process_var_requpdate(s, r)
<1>1. v \in VarId
  BY DEF SeqnoRecord
<1>2. \/ v \notin s.used /\ t = Enqueue(s, "reqCreate", v)
      \/ t = s
      \/ v \in s.used /\ ~ s.db[v].isDeleted /\ t = Repeat(s, "update", v)
  BY DEF process_var_requpdate, variableExists
<1> HIDE DEF t, v
<1>3. CASE v \notin s.used /\ t = Enqueue(s, "reqCreate", v)
  BY <1>1, <1>3, EnqueueOK DEF t
<1>4. CASE t = s
  BY <1>4 DEF t
<1>5. CASE v \in s.used /\ ~ s.db[v].isDeleted /\ t = Repeat(s, "update", v)
  BY <1>1, <1>5, RepeatOK DEF t
<1>. QED  BY <1>2, <1>3, <1>4, <1>5

\* So does process_var_reqcreate.
LEMMA ReqCreateOK ==
    ASSUME NEW s, WellTyped(s), NEW r \in VarIdRecord, ProtocolDataAssumption
    PROVE  LET t == process_var_reqcreate(s, r)
           IN  WellTyped(t) /\ (Consistent(s) => Consistent(t))
<1> DEFINE v == r.varId
           t == process_var_reqcreate(s, r)
<1>1. v \in VarId
  BY DEF VarIdRecord
<1>2. \/ v \notin s.used /\ t = Enqueue(s, "reqCreate", v)
      \/ t = s
      \/ v \in s.used /\ ~ s.db[v].isDeleted /\ t = Repeat(s, "create", v)
  BY DEF process_var_reqcreate, variableExists
<1> HIDE DEF t, v
<1>3. CASE v \notin s.used /\ t = Enqueue(s, "reqCreate", v)
  BY <1>1, <1>3, EnqueueOK DEF t
<1>4. CASE t = s
  BY <1>4 DEF t
<1>5. CASE v \in s.used /\ ~ s.db[v].isDeleted /\ t = Repeat(s, "create", v)
  BY <1>1, <1>5, RepeatOK DEF t
<1>. QED  BY <1>2, <1>3, <1>4, <1>5

\* Whatever record of whatever type is processed, well typed and consistent
\* protocol data stay so.
THEOREM ProcessRecordOK ==
    ASSUME NEW s, WellTyped(s), NEW k \in ICType, NEW r \in Record(k), NEW me,
           NEW now \in Nat, ProtocolDataAssumption
    PROVE  /\ WellTyped(ProcessRecord(s, k, r, me, now))
           /\ Consistent(s) => Consistent(ProcessRecord(s, k, r, me, now))
<1>1. CASE k = "create"
  <2>1. r \in CreateRecord  BY <1>1 DEF Record
  <2>. QED  BY <1>1, <2>1, CreateOK DEF ProcessRecord
<1>2. CASE k = "delete"
  <2>1. r \in VarIdRecord  BY <1>2 DEF Record
  <2>. QED  BY <1>2, <2>1, DeleteOK DEF ProcessRecord
<1>3. CASE k = "update"
  <2>1. r \in UpdateRecord  BY <1>3 DEF Record
  <2>. QED  BY <1>3, <2>1, UpdateOK DEF ProcessRecord
<1>4. CASE k = "summary"
  <2>1. r \in SeqnoRecord  BY <1>4 DEF Record
  <2>. QED  BY <1>4, <2>1, SummaryOK DEF ProcessRecord
<1>5. CASE k = "reqUpd"
  <2>1. r \in SeqnoRecord  BY <1>5 DEF Record
  <2>. QED  BY <1>5, <2>1, ReqUpdateOK DEF ProcessRecord
<1>6. CASE k = "reqCreate"
  <2>1. r \in VarIdRecord  BY <1>6 DEF Record
  <2>. QED  BY <1>6, <2>1, ReqCreateOK DEF ProcessRecord
<1>. QED  BY <1>1, <1>2, <1>3, <1>4, <1>5, <1>6 DEF ICType

(***************************************************************************)
(* The requests of the applications, once their checks have passed.        *)
(***************************************************************************)
LEMMA RtdbCreateOK ==
    ASSUME NEW s, WellTyped(s), NEW r \in CreateRequest, NEW me \in NodeId,
           NEW now \in Nat, LegalRepCnt(r.repCnt), ProtocolDataAssumption, SeqnoAssumption
    PROVE  LET t == handle_rtdb_create_request(s, r, me, now)
           IN  WellTyped(t) /\ (Consistent(s) /\ ~ RtdbCreateThrows(r) => Consistent(t))
<1> DEFINE e == NewEntry(r, me, now, 0, r.value, now)
           d == s.db[r.varId]
           f == [e EXCEPT !.descr = d.descr, !.value = d.value]
<1>1. /\ r.varId \in VarId /\ r.value \in Value /\ r.timeout \in Nat /\ r.descr \in Nat
  BY DEF CreateRequest
<1>2. /\ e \in Entry /\ ~ e.isDeleted /\ e.repCnt > 0
      /\ \A k \in Counted : e.count[k] > 0 <=> k = "create"
  <2>1. 0 \in Seqno
    BY DEF Seqno, SeqnoAssumption
  <2>. QED  BY <1>1, <2>1, EntryOfNewEntry DEF LegalRepCnt
<1> HIDE DEF e
<1>3. CASE ~ RtdbCreateThrows(r)
  <2>1. handle_rtdb_create_request(s, r, me, now) = InstallEntry(s, r.varId, e)
    BY <1>3 DEF handle_rtdb_create_request, e
  <2>2. WellTyped(InstallEntry(s, r.varId, e))
    BY <1>1, <1>2, InstallEntryOK
  <2>3. Consistent(s) => Consistent(InstallEntry(s, r.varId, e))
    BY <1>1, <1>2, InstallEntryOK
  <2>. QED  BY <2>1, <2>2, <2>3
<1>4. CASE RtdbCreateThrows(r)
  <2>1. /\ s.used \in SUBSET VarId /\ s.active \in SUBSET VarId
        /\ s.db \in [VarId -> Entry] /\ AreQueues(s.q)
        /\ s = [used |-> s.used, db |-> s.db, active |-> s.active, q |-> s.q]
    BY Parts
  <2>2. d \in Entry
    BY <1>1, <2>1
  <2> HIDE DEF d
  <2>3. f \in Entry
    BY <1>2, <2>2 DEF Entry
  <2>4. handle_rtdb_create_request(s, r, me, now)
          = [s EXCEPT !.used = @ \cup {r.varId}, !.db = [@ EXCEPT ![r.varId] = f]]
    BY <1>4 DEF handle_rtdb_create_request, e, d
  <2> HIDE DEF f
  <2>5. handle_rtdb_create_request(s, r, me, now)
          = [used |-> s.used \cup {r.varId}, db |-> [s.db EXCEPT ![r.varId] = f],
             active |-> s.active, q |-> s.q]
    BY <2>1, <2>4
  <2>6. s.used \cup {r.varId} \in SUBSET VarId /\ [s.db EXCEPT ![r.varId] = f] \in [VarId -> Entry]
    BY <1>1, <2>1, <2>3
  <2>7. WellTyped(handle_rtdb_create_request(s, r, me, now))
    BY <2>1, <2>5, <2>6, Whole
  <2>. QED  BY <1>4, <2>7
<1>. QED  BY <1>3, <1>4

\* An accepted RTDB-Update request keeps the data well typed and consistent.
LEMMA RtdbUpdateOK ==
    ASSUME NEW s, WellTyped(s), NEW v \in VarId, NEW value \in Value, NEW now \in Nat,
           v \in s.used, ~ s.db[v].isDeleted, ProtocolDataAssumption, SeqnoAssumption
    PROVE  LET t == handle_rtdb_update_request(s, v, value, now)
           IN  WellTyped(t) /\ (Consistent(s) => Consistent(t))
<1> DEFINE n == NextSeqno(s.db[v].seqno)
           f == NewValue(s.db[v], n, value, now)
<1>1. s.db[v] \in Entry
  BY Parts
<1>2. n \in Seqno
  <2>1. s.db[v].seqno \in Nat
    BY <1>1 DEF Entry, Seqno, SeqnoAssumption
  <2>2. \A a \in Nat, m \in Nat \ {0} : (a + 1) % m \in 0 .. m - 1
    OBVIOUS
  <2>. QED  BY <2>1, <2>2 DEF NextSeqno, Seqno, SeqnoAssumption
<1> HIDE DEF n
<1>3. f \in Entry /\ f.repCnt = s.db[v].repCnt /\ f.count = s.db[v].count
      /\ f.isDeleted = s.db[v].isDeleted
  BY <1>1, <1>2, EntryOfNewValue
<1>4. handle_rtdb_update_request(s, v, value, now) = RepeatWith(s, "update", v, f)
  BY DEF handle_rtdb_update_request, n
<1> HIDE DEF f
<1>. QED  BY <1>3, <1>4, RepeatWithOK

(***************************************************************************)
(* Building containers.                                                    *)
(***************************************************************************)
\* A non-empty set of numbers has a least element.
LEMMA LeastExists ==
    ASSUME NEW S \in SUBSET Nat, S # {}
    PROVE  \E n \in S : \A m \in S : n <= m
<1> DEFINE less == {ss \in Nat \X Nat : ss[1] < ss[2]}
<1>1. PICK n \in S : \A m \in S : <<m, n>> \notin less
  <2>1. IsWellFoundedOn(less, Nat)
    BY NatLessThanWellFounded DEF OpToRel
  <2> HIDE DEF less
  <2>. QED  BY <2>1, WFMin
<1>2. ASSUME NEW m \in S  PROVE n <= m
  <2>1. m \in Nat /\ n \in Nat /\ <<m, n>> \notin less
    BY <1>1
  <2>2. <<m, n>> \in less <=> m < n
    BY <2>1
  <2>. QED  BY <2>1, <2>2
<1>. QED  BY <1>2

\* A container that can be added takes at least one record and no more than the
\* queue holds, so the loop that fills it never finds the queue empty.
LEMMA FittingOK ==
    ASSUME NEW s, WellTyped(s), NEW k \in ICType, NEW available,
           CanAddContainer(s, k, available), ProtocolDataAssumption
    PROVE  /\ numberFittingRecords(s, k, available) \in 1 .. Len(s.q[k])
           /\ k = "summary" => numberFittingRecords(s, k, available) <= MaxSummaries
           /\ \E m \in FittingNumbers(s, k, available) :
                numberFittingRecords(s, k, available) <= m
<1> DEFINE F == FittingNumbers(s, k, available)
           L == Len(s.q[k])
           most == CHOOSE n \in F : \A m \in F : m <= n
<1>1. L \in Nat /\ L >= 1
  BY QueueElements, Parts DEF CanAddContainer, IsVarIdQueue
<1>2. F \subseteq 1 .. L /\ 1 \in F
  BY <1>1 DEF FittingNumbers, CanAddContainer, ProtocolDataAssumption
<1> HIDE DEF F, L
<1>3. \E n \in F : \A m \in F : m <= n
  <2> DEFINE T == {L - n : n \in F}
  <2>1. T \subseteq Nat /\ T # {}
    BY <1>1, <1>2
  <2>2. PICK t \in T : \A u \in T : t <= u
    <3> HIDE DEF T
    <3>. QED  BY <2>1, LeastExists
  <2>3. PICK n \in F : t = L - n
    OBVIOUS
  <2>4. ASSUME NEW m \in F  PROVE m <= n
    <3>1. L - n <= L - m
      BY <2>2, <2>3
    <3>. QED  BY <3>1, <1>1, <1>2
  <2>. QED  BY <2>4
<1>4. most \in F
  BY <1>3
<1>5. numberFittingRecords(s, k, available)
        = IF k = "summary" /\ MaxSummaries < most THEN MaxSummaries ELSE most
  BY DEF numberFittingRecords, F
<1> HIDE DEF most
<1>6. k = "summary" => MaxSummaries > 0
  BY DEF CanAddContainer
<1>7. numberFittingRecords(s, k, available) <= most
  BY <1>1, <1>2, <1>4, <1>5 DEF ProtocolDataAssumption
<1>8. \E m \in FittingNumbers(s, k, available) : numberFittingRecords(s, k, available) <= m
  BY <1>4, <1>7 DEF F
<1>9. /\ numberFittingRecords(s, k, available) \in 1 .. Len(s.q[k])
      /\ k = "summary" => numberFittingRecords(s, k, available) <= MaxSummaries
  BY <1>1, <1>2, <1>4, <1>5, <1>6 DEF ProtocolDataAssumption, L
<1>. QED  BY <1>8, <1>9

\* Sending a record whose checks pass: the front leaves the queue or goes to its
\* end, so the queue gets shorter by one at most and the others stay.
LEMMA SendRecordOK ==
    ASSUME NEW s, WellTyped(s), NEW k \in ICType, s.q[k] # <<>>, ~ SendThrows(s, k),
           ProtocolDataAssumption
    PROVE  /\ WellTyped(SendRecord(s, k))
           /\ Consistent(s) => Consistent(SendRecord(s, k))
           /\ Len(SendRecord(s, k).q[k]) >= Len(s.q[k]) - 1
<1> DEFINE v == Head(s.q[k])
           e == s.db[v]
           popped == PopFront(s.q[k])
           again == k = "summary" \/ (k \in Counted /\ e.count[k] > 1)
           x == IF again THEN Insert(popped, v) ELSE popped
           n == IF k \in Counted THEN [e.count EXCEPT ![k] = @ - 1] ELSE e.count
           f == [e EXCEPT !.count = n]
           q == [s.q EXCEPT ![k] = x]
<1>1. AreQueues(s.q) /\ s.db \in [VarId -> Entry]
  BY Parts
<1>2. IsVarIdQueue(s.q[k], VarId)
  BY <1>1, QueueElements
<1>3. /\ v \in Members(s.q[k]) /\ v \in VarId
      /\ IsVarIdQueue(popped, VarId) /\ Members(popped) = Members(s.q[k]) \ {v}
      /\ Len(popped) = Len(s.q[k]) - 1
  BY <1>2, PopFrontMembers
<1>4. SendRecord(s, k) = ChangeEntry(s, v, f, q)
  BY DEF SendRecord
<1>5. /\ e \in Entry
      /\ k \in Counted => e.count[k] # 0
  BY <1>1, <1>3 DEF SendThrows
<1> HIDE DEF v, e, popped
<1>6. /\ IsVarIdQueue(x, VarId)
      /\ \A w : w \in Members(x) <=> w \in Members(s.q[k]) /\ (w # v \/ again)
      /\ Len(x) >= Len(s.q[k]) - 1
  <2>1. CASE ~ again
    BY <1>2, <1>3, <2>1 DEF IsVarIdQueue
  <2>2. CASE again
    <3>1. /\ IsVarIdQueue(Insert(popped, v), VarId)
          /\ Members(Insert(popped, v)) = Members(popped) \cup {v}
      BY <1>3, InsertMembers
    <3>2. Len(Insert(popped, v)) >= Len(popped) /\ Len(popped) \in Nat
      BY <1>3 DEF Insert, IsVarIdQueue
    <3>3. Len(s.q[k]) \in Nat /\ Len(Insert(popped, v)) \in Nat
      BY <1>2, <3>1 DEF IsVarIdQueue
    <3>. QED  BY <1>3, <2>2, <3>1, <3>2, <3>3
  <2>. QED  BY <2>1, <2>2
<1> HIDE DEF x
<1>7. AreQueues(q)
  BY <1>1, <1>6, ReplaceQueue
<1>8. \A c \in ICType : q[c] = IF c = k THEN x ELSE s.q[c]
  BY <1>1 DEF AreQueues
<1> HIDE DEF q
<1>9. /\ n \in [Counted -> RepCnt]
      /\ \A c \in Counted : /\ e.count[c] \in Nat
                            /\ n[c] = IF c = k THEN e.count[c] - 1 ELSE e.count[c]
  BY <1>5 DEF Entry, RepCnt, ProtocolDataAssumption
<1> HIDE DEF n
<1>10. f \in Entry /\ f.repCnt = e.repCnt /\ f.isDeleted = e.isDeleted /\ f.count = n
  BY <1>5, <1>9 DEF Entry
<1> HIDE DEF f
<1>11. WellTyped(ChangeEntry(s, v, f, q))
  BY <1>3, <1>7, <1>10, ChangeEntryOK
<1>12. ASSUME Consistent(s)
       PROVE  Consistent(ChangeEntry(s, v, f, q))
  <2>1. \A c \in ICType : \A w : w # v => (w \in Members(q[c]) <=> w \in Members(s.q[c]))
    BY <1>6, <1>8
  <2>2. \A c \in ICType : v \in Members(q[c]) <=> v \in Members(s.q[c]) /\ (c = k => again)
    BY <1>6, <1>8
  <2>3. \A c \in Counted : v \in Members(s.q[c]) <=> v \in s.used /\ e.count[c] > 0
    BY <1>3, <1>12, OfOneVariable DEF e
  <2>4. \A c \in Counted : v \in Members(q[c]) <=> v \in s.used /\ f.count[c] > 0
    <3> SUFFICES ASSUME NEW c \in Counted
                 PROVE  v \in Members(q[c]) <=> v \in s.used /\ f.count[c] > 0
      OBVIOUS
    <3>1. c \in ICType /\ c # "summary"
      BY DEF Counted, ICType
    <3>2. CASE c = k
      BY <3>1, <3>2, <1>3, <1>9, <1>10, <2>2, <2>3
    <3>3. CASE c # k
      BY <3>1, <3>3, <1>9, <1>10, <2>2, <2>3
    <3>. QED  BY <3>2, <3>3
  <2>5. v \in Members(q["summary"]) <=> v \in s.used /\ ~ f.isDeleted
    BY <1>3, <1>10, <1>12, <2>2, OfOneVariable DEF e, ICType
  <2>6. /\ v \in s.used /\ f.isDeleted => \A c \in ICType \ {"delete"} : v \notin Members(q[c])
        /\ v \in Members(q["delete"]) => f.isDeleted
        /\ v \in Members(q["reqUpd"]) => v \in s.used
        /\ v \in Members(q["reqCreate"]) => v \notin s.used
    BY <1>3, <1>10, <1>12, <2>2, OfOneVariable DEF e, ICType
  <2>7. f.repCnt = s.db[v].repCnt
    BY <1>10 DEF e
  <2>. QED  BY <1>3, <1>7, <1>10, <1>12, <2>1, <2>4, <2>5, <2>6, <2>7, ChangeEntryOK
<1>13. ChangeEntry(s, v, f, q).q[k] = x
  BY <1>8 DEF ChangeEntry
<1>. QED  BY <1>4, <1>6, <1>11, <1>12, <1>13

\* With consistent protocol data the checks of the makeICType... functions pass.
LEMMA SendDoesNotThrow ==
    ASSUME NEW s, WellTyped(s), Consistent(s), NEW k \in ICType, s.q[k] # <<>>
    PROVE  ~ SendThrows(s, k)
<1> DEFINE v == Head(s.q[k])
<1>1. v \in Members(s.q[k]) /\ v \in VarId
  BY Parts, QueueElements, PopFrontMembers
<1>2. k \in Counted => v \in s.used /\ s.db[v].count[k] > 0
  BY <1>1, OfOneVariable
<1>3. k \in {"summary", "reqUpd"} => v \in s.used
  BY <1>1, OfOneVariable
<1>4. k \in Counted \/ k \in {"summary", "reqUpd"} \/ k = "reqCreate"
  BY DEF ICType, Counted
<1>5. k = "reqCreate" => k \notin Counted
  BY DEF Counted
<1>6. s.db[v].count[k] > 0 => s.db[v].count[k] # 0
  OBVIOUS
<1>. QED  BY <1>2, <1>3, <1>4, <1>5, <1>6 DEF SendThrows, variableExists

\* Dropping the front of a queue, as an exception does.
LEMMA ThrowOK ==
    ASSUME NEW s, WellTyped(s), NEW k \in ICType, s.q[k] # <<>>
    PROVE  /\ WellTyped(AfterThrow(s, k))
           /\ AfterThrow(s, k).active = s.active /\ AfterThrow(s, k).used = s.used
<1> DEFINE popped == PopFront(s.q[k])
           x == IF k = "summary" THEN Insert(popped, Head(s.q[k])) ELSE popped
           q == [s.q EXCEPT ![k] = x]
<1>1. /\ s.used \in SUBSET VarId /\ s.active \in SUBSET VarId
      /\ s.db \in [VarId -> Entry] /\ AreQueues(s.q)
      /\ s = [used |-> s.used, db |-> s.db, active |-> s.active, q |-> s.q]
  BY Parts
<1>2. IsVarIdQueue(popped, VarId) /\ Head(s.q[k]) \in VarId
  BY <1>1, QueueElements, PopFrontMembers
<1> HIDE DEF popped
<1>3. IsVarIdQueue(x, VarId)
  BY <1>2, InsertMembers
<1>4. AfterThrow(s, k) = [used |-> s.used, db |-> s.db, active |-> s.active, q |-> q]
  <2> HIDE DEF x
  <2>1. AfterThrow(s, k) = [s EXCEPT !.q[k] = x]
    BY DEF AfterThrow, x, popped
  <2>. QED  BY <1>1, <2>1
<1> HIDE DEF x
<1>5. AreQueues(q)
  BY <1>1, <1>3, ReplaceQueue
<1> HIDE DEF q
<1>. QED  BY <1>1, <1>4, <1>5, Whole

(***************************************************************************)
(* Nothing leaves active_variables, and whatever enters it is in use.      *)
(***************************************************************************)
Grows(s, t) == s.active \subseteq t.active /\ (s.active \subseteq s.used => t.active \subseteq t.used)

\* The shared steps.
LEMMA StepsGrow ==
    ASSUME NEW s, NEW v, NEW e, NEW q
    PROVE  Grows(s, ChangeEntry(s, v, e, q)) /\ Grows(s, InstallEntry(s, v, e))
BY DEF Grows, ChangeEntry, InstallEntry

\* Replacing one of the queues.
LEMMA QueueStepGrows ==
    ASSUME NEW s, WellTyped(s), NEW k, NEW x
    PROVE  Grows(s, [s EXCEPT !.q[k] = x])
BY Parts DEF Grows

\* Any record processed.
LEMMA ProcessRecordGrows ==
    ASSUME NEW s, WellTyped(s), NEW k \in ICType, NEW r, NEW me, NEW now
    PROVE  Grows(s, ProcessRecord(s, k, r, me, now))
<1> DEFINE t == ProcessRecord(s, k, r, me, now)
<1>0. Grows(s, s)
  BY DEF Grows
<1>1. \A c, v : Grows(s, Enqueue(s, c, v))
  BY QueueStepGrows DEF Enqueue
<1>2. \A c, v, e : Grows(s, RepeatWith(s, c, v, e))
  BY StepsGrow DEF RepeatWith
<1>3. \A v : Grows(s, MarkDeleted(s, v))
  BY StepsGrow DEF MarkDeleted
<1>4. \A v : Grows(s, EducateSender(s, v))
  BY <1>0, <1>2 DEF EducateSender, Repeat
<1>5. CASE k = "create"
  BY <1>0, <1>5, StepsGrow DEF ProcessRecord, process_var_create
<1>6. CASE k = "delete"
  BY <1>0, <1>3, <1>6 DEF ProcessRecord, process_var_delete
<1>7. CASE k = "update"
  <2>1. \A v, e, x : Grows(s, [RepeatWith(s, "update", v, e) EXCEPT !.q["reqUpd"] = x])
    BY DEF Grows, RepeatWith, ChangeEntry
  <2>. QED  BY <1>0, <1>1, <1>4, <1>7, <2>1 DEF ProcessRecord, process_var_update
<1>8. CASE k = "summary"
  BY <1>0, <1>1, <1>4, <1>8 DEF ProcessRecord, process_var_summary
<1>9. CASE k = "reqUpd"
  BY <1>0, <1>1, <1>2, <1>9 DEF ProcessRecord, process_var_requpdate, Repeat
<1>10. CASE k = "reqCreate"
  BY <1>0, <1>1, <1>2, <1>10 DEF ProcessRecord, process_var_reqcreate, Repeat
<1>. QED  BY <1>5, <1>6, <1>7, <1>8, <1>9, <1>10 DEF ICType

\* The requests of the applications.
LEMMA RtdbGrows ==
    ASSUME NEW s, WellTyped(s), NEW r, NEW me, NEW now, NEW v, NEW value
    PROVE  /\ Grows(s, handle_rtdb_create_request(s, r, me, now))
           /\ Grows(s, handle_rtdb_update_request(s, v, value, now))
           /\ Grows(s, handle_rtdb_delete_request(s, v))
<1>1. \A U, D : Grows(s, [s EXCEPT !.used = s.used \cup U, !.db = D])
  BY Parts DEF Grows
<1>2. \A e : Grows(s, InstallEntry(s, r.varId, e))
  BY StepsGrow
<1>. QED  BY <1>1, <1>2, StepsGrow
          DEF handle_rtdb_create_request, handle_rtdb_update_request,
              handle_rtdb_delete_request, RepeatWith, MarkDeleted

(***************************************************************************)
(* Payloads: their sizes, their containers and their records.  Sizes are   *)
(* sums over recursive functions; that the sums exist, agree and grow is   *)
(* shown by going from 0 to n one by one.                                  *)
(***************************************************************************)
\* There are six containers to a payload.
LEMMA SixContainers == Len(TxOrder) = 6 /\ \A i \in 1 .. 6 : TxOrder[i] \in ICType
BY DEF TxOrder, ICType

\* Records of any type are records.
LEMMA RecordsAreRecords == \A k \in ICType : Record(k) \subseteq AnyRecord
BY DEF Record, AnyRecord, ICType


(***************************************************************************)
(* Sums.                                                                   *)
(***************************************************************************)
\* A set that contains 0, and with each number below n the next one, has all up to n.
LEMMA OneByOne ==
    ASSUME NEW n \in Nat, NEW T, 0 \in T, \A i \in 0 .. n : i < n /\ i \in T => i + 1 \in T
    PROVE  \A i \in 0 .. n : i \in T
<1> DEFINE bad == {i \in 0 .. n : i \notin T}
<1>1. ASSUME bad # {}
      PROVE  FALSE
  <2>1. bad \in SUBSET Nat
    OBVIOUS
  <2>2. PICK k \in bad : \A i \in bad : k <= i
    BY <1>1, <2>1, LeastExists
  <2>3. k \in 0 .. n /\ k # 0 /\ k \notin T
    BY <2>2
  <2>4. k - 1 \in 0 .. n /\ k - 1 < n /\ (k - 1) + 1 = k /\ ~ (k <= k - 1)
    BY <2>3
  <2>5. k - 1 \in T
    BY <2>2, <2>4
  <2>. QED  BY <2>3, <2>4, <2>5
<1>. QED  BY <1>1

\* f adds the first n of the weights w to a.
Adds(f, a, w, n) == f[0] = a /\ \A i \in 1 .. n : f[i] = f[i - 1] + w[i]

Sums(f, a, w, n) == f \in [0 .. n -> Nat] /\ Adds(f, a, w, n)

LEMMA SumsExist ==
    ASSUME NEW n \in Nat, NEW a \in Nat, NEW w \in [1 .. n -> Nat]
    PROVE  \E f : Sums(f, a, w, n)
<1> DEFINE T == {m \in 0 .. n : \E f : Sums(f, a, w, m)}
<1>1. 0 \in T
  <2>1. Sums([i \in 0 .. 0 |-> a], a, w, 0)
    BY DEF Sums, Adds
  <2>. QED  BY <2>1
<1>2. ASSUME NEW m \in 0 .. n, m < n, m \in T
      PROVE  m + 1 \in T
  <2>1. PICK f : Sums(f, a, w, m)
    BY <1>2
  <2>2. m \in Nat /\ m + 1 \in 1 .. n
    BY <1>2
  <2>3. PICK x \in Nat : x = f[m]
    BY <2>1, <2>2 DEF Sums
  <2>4. PICK y \in Nat : y = w[m + 1]
    BY <2>2
  <2>5. PICK z \in Nat : z = x + y
    OBVIOUS
  <2>6. PICK g : g = [i \in 0 .. m + 1 |-> IF i = m + 1 THEN z ELSE f[i]]
    OBVIOUS
  <2>7. g \in [0 .. m + 1 -> Nat]
    BY <2>1, <2>2, <2>6 DEF Sums
  <2>8. g[0] = a
    BY <2>1, <2>2, <2>6 DEF Sums, Adds
  <2>9. ASSUME NEW i \in 1 .. m + 1
        PROVE  g[i] = g[i - 1] + w[i]
    <3>1. CASE i = m + 1
      <4>1. g[i] = z /\ g[i - 1] = x /\ w[i] = y
        BY <2>2, <2>3, <2>4, <2>6, <3>1
      <4>. QED  BY <2>5, <4>1
    <3>2. CASE i # m + 1
      <4>1. i \in 1 .. m /\ i - 1 \in 0 .. m + 1 /\ i - 1 # m + 1
        BY <2>2, <2>9, <3>2
      <4>2. g[i] = f[i] /\ g[i - 1] = f[i - 1] /\ f[i] = f[i - 1] + w[i]
        BY <2>1, <2>6, <3>2, <4>1 DEF Sums, Adds
      <4>. QED  BY <4>2
    <3>. QED  BY <3>1, <3>2
  <2>10. Sums(g, a, w, m + 1)
    BY <2>7, <2>8, <2>9 DEF Sums, Adds
  <2>. QED  BY <2>2, <2>10
<1> HIDE DEF T
<1>3. \A m \in 0 .. n : m \in T
  BY <1>1, <1>2, OneByOne
<1>. QED  BY <1>3 DEF T

\* There is one sum only.
LEMMA SumsAgree ==
    ASSUME NEW n \in Nat, NEW a, NEW w, NEW v, NEW f, NEW g,
           Adds(f, a, w, n), Adds(g, a, v, n), \A i \in 1 .. n : w[i] = v[i]
    PROVE  \A i \in 0 .. n : f[i] = g[i]
<1> DEFINE T == {m \in 0 .. n : f[m] = g[m]}
<1>1. 0 \in T
  BY DEF Adds
<1>2. ASSUME NEW m \in 0 .. n, m < n, m \in T
      PROVE  m + 1 \in T
  <2>1. m + 1 \in 1 .. n /\ (m + 1) - 1 = m /\ f[m] = g[m]
    BY <1>2
  <2>2. f[m + 1] = f[m] + w[m + 1] /\ g[m + 1] = g[m] + v[m + 1]
    BY <2>1 DEF Adds
  <2>. QED  BY <2>1, <2>2
<1> HIDE DEF T
<1>3. \A m \in 0 .. n : m \in T
  BY <1>1, <1>2, OneByOne
<1>. QED  BY <1>3 DEF T

LEMMA SumsGrow ==
    ASSUME NEW n \in Nat, NEW a, NEW w \in [1 .. n -> Nat], NEW f, Sums(f, a, w, n)
    PROVE  \A i \in 0 .. n : f[i] <= f[n]
<1> DEFINE T == {m \in 0 .. n : f[n - m] <= f[n]}
<1>1. 0 \in T
  <2>1. n - 0 = n /\ f[n] \in Nat
    BY DEF Sums
  <2>2. f[n - 0] <= f[n]
    BY <2>1
  <2>. QED  BY <2>2
<1>2. ASSUME NEW m \in 0 .. n, m < n, m \in T
      PROVE  m + 1 \in T
  <2>1. PICK j : j = n - m
    OBVIOUS
  <2>2. j \in 1 .. n /\ j - 1 = n - (m + 1) /\ j - 1 \in 0 .. n /\ j \in 0 .. n
    BY <1>2, <2>1
  <2>3. PICK x \in Nat : x = f[j]
    BY <2>2 DEF Sums
  <2>4. PICK y \in Nat : y = f[j - 1]
    BY <2>2 DEF Sums
  <2>5. PICK z \in Nat : z = w[j]
    BY <2>2
  <2>6. PICK t \in Nat : t = f[n]
    BY DEF Sums
  <2>7. x = y + z
    BY <2>2, <2>3, <2>4, <2>5 DEF Sums, Adds
  <2>8. x <= t
    BY <1>2, <2>1, <2>3, <2>6
  <2>9. y <= t
    BY <2>7, <2>8
  <2>. QED  BY <1>2, <2>2, <2>4, <2>6, <2>9
<1> HIDE DEF T
<1>3. \A m \in 0 .. n : m \in T
  BY <1>1, <1>2, OneByOne
<1>4. ASSUME NEW i \in 0 .. n
      PROVE  f[i] <= f[n]
  <2>1. n - i \in 0 .. n /\ n - (n - i) = i
    BY <1>4
  <2>2. n - i \in T
    BY <1>3, <2>1
  <2>. QED  BY <2>1, <2>2 DEF T
<1>. QED  BY <1>4

(***************************************************************************)
(* Records and containers.                                                 *)
(***************************************************************************)
\* The containers of a payload under construction.
Written == {c \in [type : ICType, recs : Seq(AnyRecord)] : c.recs \in Seq(Record(c.type))}

Weights(c) == [i \in 1 .. Len(c.recs) |-> RecordSize(c.type, c.recs[i])]

LEMMA RecordSizes ==
    ASSUME ProtocolDataAssumption, NEW k \in ICType, NEW r \in Record(k)
    PROVE  RecordSize(k, r) \in Nat
<1>1. FixedSize[k] \in Nat
  BY DEF ProtocolDataAssumption
<1>2. CASE k = "create"
  <2>1. r.value \in Value /\ r.descr \in Nat
    BY <1>2 DEF Record, CreateRecord
  <2>2. ValueLen[r.value] \in Nat
    BY <2>1 DEF ProtocolDataAssumption
  <2>. QED  BY <1>1, <1>2, <2>1, <2>2 DEF RecordSize
<1>3. CASE k = "update"
  <2>1. r.value \in Value
    BY <1>3 DEF Record, UpdateRecord
  <2>2. ValueLen[r.value] \in Nat
    BY <2>1 DEF ProtocolDataAssumption
  <2>. QED  BY <1>1, <1>3, <2>1, <2>2 DEF RecordSize
<1>4. CASE k \notin {"create", "update"}
  BY <1>1, <1>4 DEF RecordSize
<1>. QED  BY <1>2, <1>3, <1>4

LEMMA RecordForTyped ==
    ASSUME NEW s, WellTyped(s), NEW k \in ICType, NEW v \in VarId
    PROVE  RecordFor(s, k, v) \in Record(k) /\ RecordFor(s, k, v).varId = v
<1> DEFINE e == s.db[v]
<1>1. e \in Entry
  BY Parts
<1> HIDE DEF e
<1>2. /\ e.prodId \in NodeId /\ e.repCnt \in Nat /\ e.creationTime \in Nat
      /\ e.timeout \in Nat /\ e.descr \in Nat /\ e.seqno \in Seqno /\ e.value \in Value
  BY <1>1, ProtocolDataAssumption DEF Entry, RepCnt, ProtocolDataAssumption
<1>3. CASE k = "create"
  BY <1>2, <1>3 DEF RecordFor, Record, CreateRecord, e
<1>4. CASE k = "update"
  BY <1>2, <1>4 DEF RecordFor, Record, UpdateRecord, e
<1>5. CASE k \in {"summary", "reqUpd"}
  BY <1>2, <1>5 DEF RecordFor, Record, SeqnoRecord, e
<1>6. CASE k \in {"delete", "reqCreate"}
  BY <1>2, <1>6 DEF RecordFor, Record, VarIdRecord
<1>. QED  BY <1>3, <1>4, <1>5, <1>6 DEF ICType

\* The bytes of a container are the sum of the sizes of its records and the header.
LEMMA ContainerBytesIs ==
    ASSUME ProtocolDataAssumption, NEW c \in Written
    PROVE  /\ Len(c.recs) \in Nat
           /\ Weights(c) \in [1 .. Len(c.recs) -> Nat]
           /\ \E f : Sums(f, HeaderSize, Weights(c), Len(c.recs))
           /\ \A f : Sums(f, HeaderSize, Weights(c), Len(c.recs))
                        => ContainerBytes(c) = f[Len(c.recs)]
           /\ ContainerBytes(c) \in Nat
<1> DEFINE n == Len(c.recs)
           w == Weights(c)
           size == CHOOSE f : f = [i \in 0 .. n |-> IF i = 0 THEN HeaderSize
                                    ELSE f[i - 1] + RecordSize(c.type, c.recs[i])]
<1>1. c.type \in ICType /\ c.recs \in Seq(Record(c.type))
  BY DEF Written
<1>2. n \in Nat /\ \A i \in 1 .. n : c.recs[i] \in Record(c.type)
  BY <1>1, ElementOfSeq
<1>3. w = [i \in 1 .. n |-> RecordSize(c.type, c.recs[i])]
  BY DEF Weights
<1>4. w \in [1 .. n -> Nat]
  BY <1>1, <1>2, <1>3, RecordSizes
<1>5. ContainerBytes(c) = size[n]
  BY DEF ContainerBytes
<1> HIDE DEF n, w
<1>6. HeaderSize \in Nat
  BY DEF ProtocolDataAssumption
<1>7. \E f : Sums(f, HeaderSize, w, n)
  BY <1>2, <1>4, <1>6, SumsExist
<1>8. ASSUME NEW f, Sums(f, HeaderSize, w, n)
      PROVE  size[n] = f[n]
  <2>1. f = [i \in 0 .. n |-> IF i = 0 THEN HeaderSize
                              ELSE f[i - 1] + RecordSize(c.type, c.recs[i])]
    <3>1. \A i \in 0 .. n : i # 0 => i \in 1 .. n
      BY <1>2
    <3>. QED  BY <1>3, <1>8, <3>1 DEF Sums, Adds
  <2>2. size = [i \in 0 .. n |-> IF i = 0 THEN HeaderSize
                                 ELSE size[i - 1] + RecordSize(c.type, c.recs[i])]
    BY <2>1
  <2> HIDE DEF size
  <2>3. Adds(size, HeaderSize, w, n)
    <3>1. \A i \in 1 .. n : i \in 0 .. n /\ i # 0
      BY <1>2
    <3>2. 0 \in 0 .. n
      BY <1>2
    <3>. QED  BY <1>3, <2>2, <3>1, <3>2 DEF Adds
  <2>4. \A i \in 0 .. n : size[i] = f[i]
    BY <1>2, <1>8, <2>3, SumsAgree DEF Sums
  <2>. QED  BY <1>2, <2>4
<1>9. size[n] \in Nat
  <2>1. PICK f : Sums(f, HeaderSize, w, n)
    BY <1>7
  <2> HIDE DEF size
  <2>2. f[n] \in Nat
    BY <1>2, <2>1 DEF Sums
  <2>. QED  BY <1>8, <2>1, <2>2
<1> HIDE DEF size
<1>. QED  BY <1>2, <1>4, <1>5, <1>7, <1>8, <1>9 DEF n, w

\* A container without records, and one with a record more.
LEMMA EmptyContainer ==
    ASSUME ProtocolDataAssumption, NEW k \in ICType
    PROVE  LET c == [type |-> k, recs |-> <<>>]
           IN  c \in Written /\ ContainerBytes(c) = HeaderSize
<1> DEFINE c == [type |-> k, recs |-> <<>>]
<1>1. c \in Written /\ Len(c.recs) = 0
  <2>1. \A S : <<>> \in Seq(S)
    OBVIOUS
  <2>2. c \in [type : ICType, recs : Seq(AnyRecord)] /\ c.recs = <<>> /\ c.type = k
    BY <2>1
  <2>. QED  BY <2>1, <2>2 DEF Written
<1>2. PICK f : Sums(f, HeaderSize, Weights(c), 0)
  BY <1>1, ContainerBytesIs
<1>3. ContainerBytes(c) = f[0]
  BY <1>1, <1>2, ContainerBytesIs
<1>. QED  BY <1>1, <1>2, <1>3 DEF Sums, Adds

\* The sum goes on with the weight of what is appended.
LEMMA SumsGoOn ==
    ASSUME NEW n \in Nat, NEW a, NEW v, NEW w, NEW f, NEW g,
           Adds(f, a, v, n), Adds(g, a, w, n + 1), \A i \in 1 .. n : v[i] = w[i]
    PROVE  g[n + 1] = f[n] + w[n + 1]
<1>1. Adds(g, a, w, n)
  BY DEF Adds
<1>2. f[n] = g[n]
  BY <1>1, SumsAgree
<1>3. n + 1 \in 1 .. n + 1 /\ (n + 1) - 1 = n
  OBVIOUS
<1>. QED  BY <1>2, <1>3 DEF Adds

LEMMA AnotherRecord ==
    ASSUME ProtocolDataAssumption, NEW c \in Written, NEW r \in Record(c.type),
           NEW d \in Written, d.type = c.type, d.recs = Append(c.recs, r)
    PROVE  ContainerBytes(d) = ContainerBytes(c) + RecordSize(c.type, r)
<1>1. c.recs \in Seq(Record(c.type))
  BY DEF Written
<1>2. PICK n \in Nat : n = Len(c.recs)
  BY <1>1, LenProperties
<1>3. PICK v, w : v = Weights(c) /\ w = Weights(d)
  OBVIOUS
<1>4. /\ Len(d.recs) = n + 1 /\ d.recs[n + 1] = r
      /\ \A i \in 1 .. n : d.recs[i] = c.recs[i]
  BY <1>1, <1>2, AppendProperties
<1>5. (\A i \in 1 .. n : v[i] = w[i]) /\ w[n + 1] = RecordSize(c.type, r)
  BY <1>2, <1>3, <1>4 DEF Weights
<1>6. PICK f : Sums(f, HeaderSize, v, n) /\ ContainerBytes(c) = f[n]
  BY <1>2, <1>3, ContainerBytesIs
<1>7. PICK g : Sums(g, HeaderSize, w, n + 1) /\ ContainerBytes(d) = g[n + 1]
  BY <1>3, <1>4, ContainerBytesIs
<1>8. g[n + 1] = f[n] + w[n + 1]
  <2>1. Adds(f, HeaderSize, v, n) /\ Adds(g, HeaderSize, w, n + 1)
    BY <1>6, <1>7 DEF Sums
  <2>. QED  BY <1>5, <2>1, SumsGoOn
<1>. QED  BY <1>5, <1>6, <1>7, <1>8

\* The container that is written to.
LEMMA WrittenTo ==
    ASSUME NEW c \in Written, NEW r \in Record(c.type)
    PROVE  LET d == [c EXCEPT !.recs = Append(@, r)]
           IN  d \in Written /\ d.type = c.type /\ d.recs = Append(c.recs, r)
<1>1. c.type \in ICType /\ c.recs \in Seq(Record(c.type)) /\ c.recs \in Seq(AnyRecord)
      /\ c \in [type : ICType, recs : Seq(AnyRecord)]
  BY DEF Written
<1>2. r \in AnyRecord
  BY <1>1, RecordsAreRecords
<1>3. Append(c.recs, r) \in Seq(Record(c.type)) /\ Append(c.recs, r) \in Seq(AnyRecord)
  BY <1>1, <1>2, AppendProperties
<1>. QED  BY <1>1, <1>3 DEF Written

(***************************************************************************)
(* Payloads.                                                               *)
(***************************************************************************)
Lengths(p) == [i \in 1 .. Len(p) |-> ContainerBytes(p[i])]

LEMMA PayloadBytesIs ==
    ASSUME ProtocolDataAssumption, NEW p \in Seq(Written)
    PROVE  /\ \E f : Sums(f, 0, Lengths(p), Len(p))
           /\ \A f : Sums(f, 0, Lengths(p), Len(p)) => PayloadBytes(p) = f[Len(p)]
           /\ PayloadBytes(p) \in Nat
<1> DEFINE n == Len(p)
           w == Lengths(p)
           size == CHOOSE f : f = [i \in 0 .. n |-> IF i = 0 THEN 0
                                    ELSE f[i - 1] + ContainerBytes(p[i])]
<1>2. n \in Nat /\ \A i \in 1 .. n : p[i] \in Written
  BY ElementOfSeq
<1>3. w = [i \in 1 .. n |-> ContainerBytes(p[i])]
  BY DEF Lengths
<1>4. w \in [1 .. n -> Nat]
  BY <1>2, <1>3, ContainerBytesIs
<1>5. PayloadBytes(p) = size[n]
  BY DEF PayloadBytes
<1> HIDE DEF n, w
<1>7. \E f : Sums(f, 0, w, n)
  BY <1>2, <1>4, SumsExist
<1>8. ASSUME NEW f, Sums(f, 0, w, n)
      PROVE  size[n] = f[n]
  <2>1. f = [i \in 0 .. n |-> IF i = 0 THEN 0 ELSE f[i - 1] + ContainerBytes(p[i])]
    <3>1. \A i \in 0 .. n : i # 0 => i \in 1 .. n
      BY <1>2
    <3>. QED  BY <1>3, <1>8, <3>1 DEF Sums, Adds
  <2>2. size = [i \in 0 .. n |-> IF i = 0 THEN 0 ELSE size[i - 1] + ContainerBytes(p[i])]
    BY <2>1
  <2> HIDE DEF size
  <2>3. Adds(size, 0, w, n)
    <3>1. \A i \in 1 .. n : i \in 0 .. n /\ i # 0
      BY <1>2
    <3>2. 0 \in 0 .. n
      BY <1>2
    <3>. QED  BY <1>3, <2>2, <3>1, <3>2 DEF Adds
  <2>4. \A i \in 0 .. n : size[i] = f[i]
    BY <1>2, <1>8, <2>3, SumsAgree DEF Sums
  <2>. QED  BY <1>2, <2>4
<1>9. size[n] \in Nat
  <2>1. PICK f : Sums(f, 0, w, n)
    BY <1>7
  <2> HIDE DEF size
  <2>2. f[n] \in Nat
    BY <1>2, <2>1 DEF Sums
  <2>. QED  BY <1>8, <2>1, <2>2
<1> HIDE DEF size
<1>. QED  BY <1>5, <1>7, <1>8, <1>9 DEF n, w

LEMMA AnotherContainer ==
    ASSUME ProtocolDataAssumption, NEW p \in Seq(Written), NEW c \in Written
    PROVE  PayloadBytes(Append(p, c)) = PayloadBytes(p) + ContainerBytes(c)
<1> DEFINE n == Len(p)
           q == Append(p, c)
<1>1. /\ q \in Seq(Written) /\ Len(q) = n + 1 /\ q[n + 1] = c /\ n \in Nat
      /\ \A i \in 1 .. n : q[i] = p[i]
  BY AppendProperties
<1> HIDE DEF q
<1>2. PICK f : Sums(f, 0, Lengths(p), n) /\ PayloadBytes(p) = f[n]
  BY PayloadBytesIs
<1>3. PICK g : Sums(g, 0, Lengths(q), n + 1) /\ PayloadBytes(q) = g[n + 1]
  BY <1>1, PayloadBytesIs
<1>4. /\ \A i \in 1 .. n : Lengths(p)[i] = Lengths(q)[i]
      /\ Lengths(q)[n + 1] = ContainerBytes(c)
  BY <1>1 DEF Lengths
<1>5. g[n + 1] = f[n] + Lengths(q)[n + 1]
  <2>1. Adds(f, 0, Lengths(p), n) /\ Adds(g, 0, Lengths(q), n + 1)
    BY <1>2, <1>3 DEF Sums
  <2>. QED  BY <1>1, <1>4, <2>1, SumsGoOn, SMTT(30)
<1>. QED  BY <1>2, <1>3, <1>4, <1>5 DEF q

LEMMA LastContainer ==
    ASSUME ProtocolDataAssumption, NEW p \in Seq(Written), p # <<>>, NEW c \in Written,
           NEW b \in Nat, ContainerBytes(c) = ContainerBytes(p[Len(p)]) + b,
           NEW q \in Seq(Written), Len(q) = Len(p), q[Len(p)] = c,
           \A i \in 1 .. Len(p) - 1 : q[i] = p[i]
    PROVE  PayloadBytes(q) = PayloadBytes(p) + b
<1>1. PICK n \in Nat : Len(p) = n + 1
  <2>1. Len(p) \in Nat /\ Len(p) # 0
    BY LenProperties, EmptySeq
  <2>2. Len(p) - 1 \in Nat /\ Len(p) = (Len(p) - 1) + 1
    BY <2>1
  <2>. QED  BY <2>2
<1>2. /\ n + 1 \in 1 .. n + 1 /\ (n + 1) - 1 = n /\ n \in 0 .. n + 1
      /\ \A i \in 1 .. n : q[i] = p[i] /\ i \in 1 .. n + 1
  BY <1>1
<1>3. PICK f : Sums(f, 0, Lengths(p), n + 1) /\ PayloadBytes(p) = f[n + 1]
  BY <1>1, PayloadBytesIs
<1>4. PICK g : Sums(g, 0, Lengths(q), n + 1) /\ PayloadBytes(q) = g[n + 1]
  BY <1>1, PayloadBytesIs
<1>5. /\ \A i \in 1 .. n : Lengths(p)[i] = Lengths(q)[i]
      /\ Lengths(p)[n + 1] = ContainerBytes(p[n + 1]) /\ Lengths(q)[n + 1] = ContainerBytes(c)
  BY <1>1, <1>2 DEF Lengths
<1>6. Adds(f, 0, Lengths(p), n) /\ Adds(g, 0, Lengths(q), n)
  BY <1>2, <1>3, <1>4 DEF Sums, Adds
<1>7. n \in 0 .. n
  OBVIOUS
<1>8. f[n] = g[n]
  BY <1>5, <1>6, <1>7, SumsAgree, SMTT(30)
<1>9. f[n + 1] = f[n] + Lengths(p)[n + 1] /\ g[n + 1] = g[n] + Lengths(q)[n + 1]
  BY <1>2, <1>3, <1>4 DEF Sums, Adds
<1>10. PICK x \in Nat : x = f[n]
  BY <1>2, <1>3 DEF Sums
<1>11. PICK y \in Nat : y = ContainerBytes(p[n + 1])
  <2>1. p[n + 1] \in Written
    BY <1>1, <1>2, ElementOfSeq
  <2>. QED  BY <2>1, ContainerBytesIs
<1>12. f[n + 1] = x + y /\ g[n + 1] = x + (y + b)
  BY <1>1, <1>5, <1>8, <1>9, <1>10, <1>11
<1>13. x + (y + b) = (x + y) + b
  OBVIOUS
<1>. QED  BY <1>3, <1>4, <1>12, <1>13


(***************************************************************************)
(* The queue that a container is filled from.                              *)
(***************************************************************************)
QueueWeights(s, k, n) == [i \in 1 .. n |-> RecordSize(k, RecordFor(s, k, s.q[k][i]))]

\* The fill levels of the payload while the next n records of queue k are added.
Levels(limit, g, s, k, used, n) ==
    Sums(g, used, QueueWeights(s, k, n), n) /\ \A i \in 0 .. n : g[i] <= limit

LEMMA QueueWeightsOK ==
    ASSUME ProtocolDataAssumption, NEW s, WellTyped(s), NEW k \in ICType,
           NEW n \in 0 .. Len(s.q[k])
    PROVE  /\ QueueWeights(s, k, n) \in [1 .. n -> Nat]
           /\ \A i \in 1 .. Len(s.q[k]) : s.q[k][i] \in VarId
<1>1. s.q[k] \in Seq(VarId)
  BY Parts, QueueElements DEF IsVarIdQueue
<1>2. \A i \in 1 .. Len(s.q[k]) : s.q[k][i] \in VarId
  BY <1>1, ElementOfSeq
<1>3. \A i \in 1 .. n : i \in 1 .. Len(s.q[k])
  BY <1>1, LenProperties
<1>4. \A i \in 1 .. n : RecordSize(k, RecordFor(s, k, s.q[k][i])) \in Nat
  BY <1>2, <1>3, RecordForTyped, RecordSizes
<1>. QED  BY <1>2, <1>4 DEF QueueWeights

LEMMA ContainerSizeIs ==
    ASSUME ProtocolDataAssumption, NEW s, WellTyped(s), NEW k \in ICType,
           NEW n \in 0 .. Len(s.q[k])
    PROVE  \E f : Sums(f, HeaderSize, QueueWeights(s, k, n), n) /\ ContainerSize(s, k, n) = f[n]
<1> DEFINE w == QueueWeights(s, k, n)
           size == CHOOSE f : f = [i \in 0 .. n |-> IF i = 0 THEN HeaderSize
                                ELSE f[i - 1] + RecordSize(k, RecordFor(s, k, s.q[k][i]))]
<1>1. n \in Nat
  BY Parts, QueueElements, LenProperties DEF IsVarIdQueue
<1>3. w = [i \in 1 .. n |-> RecordSize(k, RecordFor(s, k, s.q[k][i]))]
  BY DEF QueueWeights
<1>4. w \in [1 .. n -> Nat]
  BY QueueWeightsOK
<1>5. ContainerSize(s, k, n) = size[n]
  BY DEF ContainerSize
<1> HIDE DEF w
<1>6. HeaderSize \in Nat
  BY DEF ProtocolDataAssumption
<1>7. PICK f : Sums(f, HeaderSize, w, n)
  BY <1>1, <1>4, <1>6, SumsExist
<1>8. f = [i \in 0 .. n |-> IF i = 0 THEN HeaderSize
                            ELSE f[i - 1] + RecordSize(k, RecordFor(s, k, s.q[k][i]))]
  <2>1. \A i \in 0 .. n : i # 0 => i \in 1 .. n
    BY <1>1
  <2>. QED  BY <1>3, <1>7, <2>1 DEF Sums, Adds
<1>9. size = [i \in 0 .. n |-> IF i = 0 THEN HeaderSize
                               ELSE size[i - 1] + RecordSize(k, RecordFor(s, k, s.q[k][i]))]
  BY <1>8
<1> HIDE DEF size
<1>10. Adds(size, HeaderSize, w, n)
  <2>1. (\A i \in 1 .. n : i \in 0 .. n /\ i # 0) /\ 0 \in 0 .. n
    BY <1>1
  <2>. QED  BY <1>3, <1>9, <2>1 DEF Adds
<1>11. \A i \in 0 .. n : size[i] = f[i]
  BY <1>1, <1>7, <1>10, SumsAgree DEF Sums
<1>12. size[n] = f[n]
  BY <1>1, <1>11
<1>. QED  BY <1>5, <1>7, <1>12 DEF w

\* A container is opened for as many records as there is room for.
LEMMA RoomForAll ==
    ASSUME ProtocolDataAssumption, NEW limit \in Nat, NEW s, WellTyped(s), NEW k \in ICType,
           NEW used \in Nat, used <= limit,
           CanAddContainer(s, k, limit - used)
    PROVE  LET n == numberFittingRecords(s, k, limit - used)
           IN  /\ n \in 1 .. Len(s.q[k]) /\ n <= MaxRecords
               /\ \E g : Levels(limit, g, s, k, used + HeaderSize, n)
<1> DEFINE available == limit - used
           L == Len(s.q[k])
<1>0. PICK n : n = numberFittingRecords(s, k, available)
  OBVIOUS
<1>1. n \in 1 .. L /\ \E m \in FittingNumbers(s, k, available) : n <= m
  BY <1>0, FittingOK
<1>2. PICK m \in 1 .. L : n <= m /\ m <= MaxRecords /\ ContainerSize(s, k, m) <= available
  BY <1>1 DEF FittingNumbers
<1>3. /\ L \in Nat /\ m \in 0 .. L /\ n \in Nat /\ m \in Nat /\ HeaderSize \in Nat
      /\ MaxRecords \in Nat
  <2>1. L \in Nat
    BY Parts, QueueElements, LenProperties DEF IsVarIdQueue
  <2>. QED  BY <1>1, <1>2, <2>1 DEF ProtocolDataAssumption
<1>4. PICK f : Sums(f, HeaderSize, QueueWeights(s, k, m), m) /\ ContainerSize(s, k, m) = f[m]
  BY <1>3, ContainerSizeIs
<1>5. QueueWeights(s, k, m) \in [1 .. m -> Nat]
  BY <1>3, QueueWeightsOK
<1>6. \A i \in 0 .. m : f[i] <= f[m]
  BY <1>3, <1>4, <1>5, SumsGrow
<1>7. PICK g : g = [i \in 0 .. n |-> used + f[i]]
  OBVIOUS
<1>8. ASSUME NEW i \in 0 .. n
      PROVE  g[i] = used + f[i] /\ g[i] \in Nat /\ g[i] <= limit
  <2>1. i \in 0 .. m /\ m \in 0 .. m
    BY <1>2, <1>3
  <2>2. PICK x \in Nat : x = f[i]
    BY <1>4, <2>1 DEF Sums
  <2>3. PICK y \in Nat : y = f[m]
    BY <1>4, <2>1 DEF Sums
  <2>4. x <= y
    BY <1>6, <2>1, <2>2, <2>3
  <2>5. y <= limit - used
    BY <1>2, <1>4, <2>3
  <2>6. used + x <= limit
    BY <1>3, <2>4, <2>5
  <2>. QED  BY <1>7, <2>2, <2>6
<1>9. ASSUME NEW i \in 1 .. n
      PROVE  g[i] = g[i - 1] + QueueWeights(s, k, n)[i]
  <2>1. i \in 1 .. m /\ i \in 0 .. n /\ i - 1 \in 0 .. n /\ i \in 0 .. m /\ i - 1 \in 0 .. m
    BY <1>2, <1>3
  <2>2. PICK x \in Nat : x = f[i]
    BY <1>4, <2>1 DEF Sums
  <2>3. PICK y \in Nat : y = f[i - 1]
    BY <1>4, <2>1 DEF Sums
  <2>4. PICK z \in Nat : z = QueueWeights(s, k, m)[i]
    BY <1>5, <2>1
  <2>5. x = y + z
    BY <1>4, <2>1, <2>2, <2>3, <2>4 DEF Sums, Adds
  <2>6. QueueWeights(s, k, n)[i] = z
    BY <2>1, <2>4 DEF QueueWeights
  <2>7. g[i] = used + x /\ g[i - 1] = used + y
    BY <1>8, <2>1, <2>2, <2>3
  <2>8. used + x = (used + y) + z
    BY <2>5
  <2>. QED  BY <2>6, <2>7, <2>8
<1>10. g[0] = used + HeaderSize /\ g \in [0 .. n -> Nat]
  <2>1. 0 \in 0 .. n /\ f[0] = HeaderSize
    BY <1>3, <1>4 DEF Sums, Adds
  <2>. QED  BY <1>7, <1>8, <2>1
<1>11. Levels(limit, g, s, k, used + HeaderSize, n)
  BY <1>8, <1>9, <1>10 DEF Levels, Sums, Adds
<1>12. n <= MaxRecords
  BY <1>2, <1>3
<1>. QED  BY <1>0, <1>1, <1>11, <1>12


\* Sending the front of a queue moves the others up, and what they will be sent as stays.
LEMMA SendShifts ==
    ASSUME NEW s, WellTyped(s), NEW k \in ICType, s.q[k] # <<>>
    PROVE  /\ \A i \in 1 .. Len(s.q[k]) - 1 : SendRecord(s, k).q[k][i] = s.q[k][i + 1]
           /\ \A w \in VarId : RecordFor(SendRecord(s, k), k, w) = RecordFor(s, k, w)
<1> DEFINE q == s.q[k]
           v == Head(q)
           popped == PopFront(q)
           again == k = "summary" \/ (k \in Counted /\ s.db[v].count[k] > 1)
           x == IF again THEN Insert(popped, v) ELSE popped
           t == SendRecord(s, k)
<1>1. s.q \in [ICType -> Seq(VarId)] /\ IsVarIdQueue(q, VarId) /\ s.db \in [VarId -> Entry]
  BY Parts, QueueElements DEF AreQueues
<1>2. /\ q \in Seq(VarId) /\ Len(q) \in Nat /\ Len(q) > 0 /\ v = q[1] /\ v \in VarId
      /\ DOMAIN q = 1 .. Len(q) /\ \A i, j \in DOMAIN q : q[i] = q[j] => i = j
  BY <1>1 DEF IsVarIdQueue
<1>3. t.q[k] = x
  BY <1>1 DEF SendRecord, ChangeEntry
<1>4. t.db = [s.db EXCEPT ![v] = [s.db[v] EXCEPT !.count = t.db[v].count]]
  <2>1. PICK n : t.db = [s.db EXCEPT ![v] = [s.db[v] EXCEPT !.count = n]]
    BY DEF SendRecord, ChangeEntry
  <2>2. s.db[v] \in Entry
    BY <1>1, <1>2
  <2>3. t.db[v].count = n
    <3>1. PICK e : e = s.db[v]
      OBVIOUS
    <3>2. [e EXCEPT !.count = n].count = n
      BY <2>2, <3>1 DEF Entry
    <3>3. t.db[v] = [e EXCEPT !.count = n]
      BY <1>1, <1>2, <2>1, <3>1
    <3>. QED  BY <3>2, <3>3
  <2>. QED  BY <2>1, <2>3, SMTT(30)
<1> HIDE DEF t, q, v
<1>5. popped = [i \in 1 .. Len(q) - 1 |-> q[i + 1]]
  <2>1. Contains(q, Head(q))
    BY <1>2 DEF Contains, Members, v
  <2>2. PICK p : p = CHOOSE i \in DOMAIN q : q[i] = Head(q)
    OBVIOUS
  <2>3. p = 1
    <3>1. 1 \in DOMAIN q /\ q[1] = Head(q)
      BY <1>2 DEF v
    <3>2. p \in DOMAIN q /\ q[p] = Head(q)
      BY <2>2, <3>1
    <3>. QED  BY <1>2, <3>1, <3>2
  <2>4. popped = [i \in 1 .. Len(q) - 1 |-> IF i < p THEN q[i] ELSE q[i + 1]]
    BY <2>1, <2>2 DEF PopFront, Remove
  <2>5. \A i \in 1 .. Len(q) - 1 : ~ (i < p)
    BY <1>2, <2>3
  <2>. QED  BY <2>4, <2>5
<1>6. popped \in Seq(VarId) /\ Len(popped) = Len(q) - 1
  <2>1. q # <<>>
    BY <1>2
  <2>2. IsVarIdQueue(popped, VarId) /\ Len(popped) = Len(q) - 1
    BY <1>1, <2>1, PopFrontMembers
  <2>. QED  BY <2>2 DEF IsVarIdQueue
<1> HIDE DEF popped, again
<1>7. ASSUME NEW i \in 1 .. Len(q) - 1
      PROVE  x[i] = q[i + 1]
  <2>1. popped[i] = q[i + 1] /\ i \in 1 .. Len(popped)
    BY <1>5, <1>6
  <2>2. Append(popped, v)[i] = popped[i]
    BY <1>2, <1>6, <2>1, AppendProperties
  <2>. QED  BY <2>1, <2>2 DEF Insert
<1>8. ASSUME NEW w \in VarId
      PROVE  RecordFor(t, k, w) = RecordFor(s, k, w)
  <2>1. s.db[w] \in Entry
    BY <1>1
  <2>2. /\ t.db[w].prodId = s.db[w].prodId /\ t.db[w].repCnt = s.db[w].repCnt
        /\ t.db[w].creationTime = s.db[w].creationTime /\ t.db[w].timeout = s.db[w].timeout
        /\ t.db[w].descr = s.db[w].descr /\ t.db[w].seqno = s.db[w].seqno
        /\ t.db[w].value = s.db[w].value
    <3>1. CASE w = v
      <4>1. PICK n : n = t.db[v].count
        OBVIOUS
      <4>2. t.db[w] = [s.db[w] EXCEPT !.count = n]
        BY <1>1, <1>4, <3>1, <4>1
      <4>. QED  BY <2>1, <4>2 DEF Entry
    <3>2. CASE w # v
      BY <1>1, <1>4, <3>2
    <3>. QED  BY <3>1, <3>2
  <2>. QED  BY <2>2 DEF RecordFor
<1>. QED  BY <1>3, <1>7, <1>8 DEF t, q

\* The fill levels once the next record has been added.
LEMMA LevelsGoOn ==
    ASSUME ProtocolDataAssumption, NEW limit \in Nat, NEW s, WellTyped(s), NEW k \in ICType,
           NEW used \in Nat, NEW n \in Nat, n > 0, n <= Len(s.q[k]),
           NEW g, Levels(limit, g, s, k, used, n)
    PROVE  LET size == RecordSize(k, RecordFor(s, k, Head(s.q[k])))
           IN  \E h : Levels(limit, h, SendRecord(s, k), k, used + size, n - 1)
<1> DEFINE q == s.q[k]
           t == SendRecord(s, k)
           size == RecordSize(k, RecordFor(s, k, Head(q)))
<1>1. q \in Seq(VarId) /\ Len(q) \in Nat /\ q # <<>> /\ Head(q) = q[1]
  BY Parts, QueueElements, SMTT(30) DEF IsVarIdQueue
<1>2. PICK h : h = [i \in 0 .. n - 1 |-> g[i + 1]]
  OBVIOUS
<1>3. ASSUME NEW i \in 1 .. n - 1
      PROVE  QueueWeights(t, k, n - 1)[i] = QueueWeights(s, k, n)[i + 1]
  <2>1. i \in 1 .. Len(q) - 1 /\ i + 1 \in 1 .. n /\ i + 1 \in 1 .. Len(q)
    BY <1>1, SMTT(30)
  <2>2. q[i + 1] \in VarId
    BY <1>1, <2>1, ElementOfSeq
  <2>3. t.q[k][i] = q[i + 1]
    BY <1>1, <2>1, SendShifts
  <2>4. RecordFor(t, k, q[i + 1]) = RecordFor(s, k, q[i + 1])
    BY <1>1, <2>2, SendShifts
  <2> HIDE DEF t
  <2>5. QueueWeights(t, k, n - 1)[i] = RecordSize(k, RecordFor(t, k, t.q[k][i]))
    BY DEF QueueWeights
  <2>6. QueueWeights(s, k, n)[i + 1] = RecordSize(k, RecordFor(s, k, q[i + 1]))
    BY <2>1 DEF QueueWeights
  <2>. QED  BY <2>3, <2>4, <2>5, <2>6
<1> HIDE DEF t, size
<1>4. h \in [0 .. n - 1 -> Nat] /\ \A i \in 0 .. n - 1 : h[i] = g[i + 1] /\ h[i] <= limit
  <2>1. \A i \in 0 .. n - 1 : i + 1 \in 0 .. n
    OBVIOUS
  <2>. QED  BY <1>2, <2>1 DEF Levels, Sums
<1>5. h[0] = used + size
  <2>1. 1 \in 1 .. n /\ 1 - 1 = 0 /\ 0 \in 0 .. n - 1 /\ 0 + 1 = 1
    OBVIOUS
  <2>2. QueueWeights(s, k, n)[1] = size
    BY <1>1, <2>1 DEF QueueWeights, size
  <2>3. g[1] = g[0] + QueueWeights(s, k, n)[1] /\ g[0] = used
    BY <2>1 DEF Levels, Sums, Adds
  <2>4. h[0] = g[1]
    BY <1>4, <2>1
  <2>. QED  BY <2>2, <2>3, <2>4
<1>6. ASSUME NEW i \in 1 .. n - 1
      PROVE  h[i] = h[i - 1] + QueueWeights(t, k, n - 1)[i]
  <2>1. i \in 0 .. n - 1 /\ i - 1 \in 0 .. n - 1 /\ (i - 1) + 1 = i /\ i + 1 \in 1 .. n
        /\ (i + 1) - 1 = i
    OBVIOUS
  <2>2. h[i] = g[i + 1] /\ h[i - 1] = g[i]
    BY <1>4, <2>1
  <2>3. g[i + 1] = g[i] + QueueWeights(s, k, n)[i + 1]
    BY <2>1 DEF Levels, Sums, Adds
  <2>. QED  BY <1>3, <2>2, <2>3
<1>7. Levels(limit, h, t, k, used + size, n - 1)
  BY <1>4, <1>5, <1>6 DEF Levels, Sums, Adds
<1>. QED  BY <1>7 DEF t, size


(***************************************************************************)
(* The invariant of the payload.                                           *)
(***************************************************************************)
Ids(c) == {c.recs[i].varId : i \in DOMAIN c.recs}

\* A container with no more records than its header can count, no two of a variable.
Proper(c) ==
    IsFiniteSet(Ids(c)) /\ Cardinality(Ids(c)) = Len(c.recs) /\ Len(c.recs) <= MaxRecords

\* A payload up to a container of which left records are missing.
PayloadOK(limit, p, phase, left, used) ==
    /\ p \in Seq(Written)
    /\ used \in Nat /\ used <= limit /\ used = PayloadBytes(p)
    /\ \A i, j \in 1 .. Len(p) : p[i].type = p[j].type => i = j
    /\ \A i \in 1 .. Len(p) :
        /\ \E j \in 1 .. phase : p[i].type = TxOrder[j]
                                 /\ (j = phase => i = Len(p) /\ left > 0)
        /\ Proper(p[i])
        /\ p[i].recs = <<>> => i = Len(p) /\ left > 0

\* The records that are missing in the container c are in front of queue k, are about other
\* variables than those in it, and there is room for them.
Opened(limit, s, c, k, used, left) ==
    /\ c.type = k /\ Len(c.recs) + left <= MaxRecords
    /\ \A j \in 1 .. left : s.q[k][j] \notin Ids(c)
    /\ \E g : Levels(limit, g, s, k, used, left)

LEMMA OrderIsOneToOne ==
    \A i, j \in 1 .. 6 : TxOrder[i] = TxOrder[j] => i = j
BY DEF TxOrder

\* The empty payload.
LEMMA EmptyPayload ==
    ASSUME ProtocolDataAssumption, NEW limit \in Nat
    PROVE  PayloadOK(limit, <<>>, 1, 0, 0)
<1>1. <<>> \in Seq(Written) /\ Len(<<>>) = 0
  OBVIOUS
<1>2. PICK f : Sums(f, 0, Lengths(<<>>), 0)
  BY <1>1, PayloadBytesIs
<1>3. PayloadBytes(<<>>) = f[0]
  BY <1>1, <1>2, PayloadBytesIs
<1>4. PayloadBytes(<<>>) = 0
  BY <1>2, <1>3 DEF Sums, Adds
<1>. QED  BY <1>1, <1>4 DEF PayloadOK

\* A container that is skipped.
LEMMA SkippedContainer ==
    ASSUME NEW limit, NEW p, NEW phase \in Nat, NEW used, PayloadOK(limit, p, phase, 0, used)
    PROVE  PayloadOK(limit, p, phase + 1, 0, used)
<1>1. ASSUME NEW i \in 1 .. Len(p)
      PROVE  \E j \in 1 .. phase + 1 : p[i].type = TxOrder[j]
                                       /\ (j = phase + 1 => i = Len(p) /\ 0 > 0)
  <2>1. PICK j \in 1 .. phase : p[i].type = TxOrder[j]
    BY DEF PayloadOK
  <2>2. j \in 1 .. phase + 1 /\ j # phase + 1
    BY <2>1
  <2>. QED  BY <2>1, <2>2
<1>. QED  BY <1>1 DEF PayloadOK

\* A container that is opened for n records.
LEMMA OpenedContainer ==
    ASSUME ProtocolDataAssumption, NEW limit \in Nat, NEW s, WellTyped(s),
           NEW phase \in 1 .. 6, NEW p, NEW used, PayloadOK(limit, p, phase, 0, used),
           CanAddContainer(s, TxOrder[phase], limit - used)
    PROVE  LET k == TxOrder[phase]
               c == [type |-> k, recs |-> <<>>]
               n == numberFittingRecords(s, k, limit - used)
           IN  /\ PayloadOK(limit, Append(p, c), phase, n, used + HeaderSize)
               /\ Append(p, c) # <<>> /\ Append(p, c)[Len(Append(p, c))] = c
               /\ Opened(limit, s, c, k, used + HeaderSize, n)
<1> DEFINE k == TxOrder[phase]
           c == [type |-> k, recs |-> <<>>]
           q == Append(p, c)
<1>1. PICK n : n = numberFittingRecords(s, k, limit - used)
  OBVIOUS
<1>2. k \in ICType
  BY SixContainers
<1>3. p \in Seq(Written) /\ used \in Nat /\ used <= limit /\ used = PayloadBytes(p)
  BY DEF PayloadOK
<1>4. c \in Written /\ ContainerBytes(c) = HeaderSize /\ c.type = k /\ c.recs = <<>>
  BY <1>2, EmptyContainer
<1> HIDE DEF k
<1>5. CanAddContainer(s, k, limit - used)
  BY DEF k
<1>6. n \in 1 .. Len(s.q[k]) /\ n <= MaxRecords /\ \E g : Levels(limit, g, s, k, used + HeaderSize, n)
  BY <1>1, <1>2, <1>3, <1>5, RoomForAll
<1>7. n \in Nat /\ n > 0
  BY <1>6
<1> HIDE DEF c
<1>8. /\ q \in Seq(Written) /\ Len(q) = Len(p) + 1 /\ q[Len(p) + 1] = c /\ Len(p) \in Nat
      /\ \A i \in 1 .. Len(p) : q[i] = p[i]
  BY <1>3, <1>4, AppendProperties, LenProperties
<1>9. PayloadBytes(q) = used + HeaderSize
  BY <1>3, <1>4, AnotherContainer
<1> HIDE DEF q
<1>10. Ids(c) = {} /\ Len(c.recs) = 0
  BY <1>4 DEF Ids
<1>11. Opened(limit, s, c, k, used + HeaderSize, n)
  BY <1>4, <1>6, <1>7, <1>10 DEF Opened
<1>12. used + HeaderSize \in Nat /\ used + HeaderSize <= limit
  <2>1. PICK g : Levels(limit, g, s, k, used + HeaderSize, n)
    BY <1>6
  <2>2. g[0] = used + HeaderSize /\ g[0] \in Nat /\ g[0] <= limit
    BY <1>7, <2>1 DEF Levels, Sums, Adds
  <2>. QED  BY <2>2
<1>13. Proper(c)
  BY <1>6, <1>10, FS_EmptySet DEF Proper, ProtocolDataAssumption
<1>14. \A i \in 1 .. Len(p) : \E j \in 1 .. phase : p[i].type = TxOrder[j] /\ j # phase
  BY DEF PayloadOK
<1>15. \A i \in 1 .. Len(p) : p[i].type # k
  BY <1>14, OrderIsOneToOne DEF k
<1>16. ASSUME NEW i \in 1 .. Len(q), NEW j \in 1 .. Len(q), q[i].type = q[j].type
       PROVE  i = j
  <2>1. (i \in 1 .. Len(p) \/ i = Len(p) + 1) /\ (j \in 1 .. Len(p) \/ j = Len(p) + 1)
    BY <1>8
  <2>2. CASE i \in 1 .. Len(p) /\ j \in 1 .. Len(p)
    BY <1>8, <1>16, <2>2 DEF PayloadOK
  <2>3. CASE i \in 1 .. Len(p) /\ j = Len(p) + 1
    BY <1>4, <1>8, <1>15, <1>16, <2>3
  <2>4. CASE i = Len(p) + 1 /\ j \in 1 .. Len(p)
    BY <1>4, <1>8, <1>15, <1>16, <2>4
  <2>. QED  BY <2>1, <2>2, <2>3, <2>4
<1>17. ASSUME NEW i \in 1 .. Len(q)
       PROVE  /\ \E j \in 1 .. phase : q[i].type = TxOrder[j]
                                       /\ (j = phase => i = Len(q) /\ n > 0)
              /\ Proper(q[i])
              /\ q[i].recs = <<>> => i = Len(q) /\ n > 0
  <2>1. CASE i \in 1 .. Len(p)
    <3>1. q[i] = p[i]
      BY <1>8, <2>1
    <3>2. Proper(p[i]) /\ p[i].recs # <<>>
      BY <2>1 DEF PayloadOK
    <3>. QED  BY <1>14, <2>1, <3>1, <3>2
  <2>2. CASE i = Len(q)
    <3>1. phase \in 1 .. phase /\ q[i].type = TxOrder[phase]
      BY <1>4, <1>8, <2>2 DEF k
    <3>. QED  BY <1>7, <1>8, <1>13, <2>2, <3>1
  <2>. QED  BY <1>8, <2>1, <2>2
<1>18. PayloadOK(limit, q, phase, n, used + HeaderSize)
  BY <1>8, <1>9, <1>12, <1>16, <1>17 DEF PayloadOK
<1>19. q # <<>> /\ q[Len(q)] = c
  BY <1>8
<1>. QED  BY <1>1, <1>11, <1>18, <1>19 DEF k, c, q


\* The front of the queue is another variable than those in the container.
LEMMA ProperGrows ==
    ASSUME NEW c \in Written, Proper(c), Len(c.recs) + 1 <= MaxRecords,
           NEW r \in Record(c.type), r.varId \notin Ids(c),
           NEW d, d.recs = Append(c.recs, r)
    PROVE  Proper(d) /\ Ids(d) = Ids(c) \cup {r.varId} /\ Len(d.recs) = Len(c.recs) + 1
<1>1. c.recs \in Seq(Record(c.type))
  BY DEF Written
<1>2. PICK n \in Nat : n = Len(c.recs)
  BY <1>1, LenProperties
<1>3. /\ Len(d.recs) = n + 1 /\ DOMAIN d.recs = 1 .. n + 1 /\ DOMAIN c.recs = 1 .. n
      /\ d.recs[n + 1] = r /\ \A i \in 1 .. n : d.recs[i] = c.recs[i]
  BY <1>1, <1>2, AppendProperties
<1>4. Ids(d) = Ids(c) \cup {r.varId}
  <2>1. \A x : x \in Ids(d) <=> \E i \in 1 .. n + 1 : x = d.recs[i].varId
    BY <1>3 DEF Ids
  <2>2. \A x : x \in Ids(c) <=> \E i \in 1 .. n : x = c.recs[i].varId
    BY <1>3 DEF Ids
  <2>3. \A i : i \in 1 .. n + 1 <=> i \in 1 .. n \/ i = n + 1
    BY <1>2
  <2>4. \A x : x \in Ids(d) <=> x \in Ids(c) \/ x = r.varId
    BY <1>3, <2>1, <2>2, <2>3
  <2>. QED  BY <2>4
<1>5. IsFiniteSet(Ids(d)) /\ Cardinality(Ids(d)) = Cardinality(Ids(c)) + 1
  BY <1>4, FS_AddElement DEF Proper
<1>. QED  BY <1>2, <1>3, <1>4, <1>5 DEF Proper

\* A record that is added.
LEMMA RecordAdded ==
    ASSUME ProtocolDataAssumption, NEW limit \in Nat, NEW s, WellTyped(s),
           NEW phase \in 1 .. 6, NEW left \in Nat, left > 0,
           left <= Len(s.q[TxOrder[phase]]),
           NEW p, NEW used, PayloadOK(limit, p, phase, left, used), p # <<>>,
           Opened(limit, s, p[Len(p)], TxOrder[phase], used, left)
    PROVE  LET k == TxOrder[phase]
               r == RecordFor(s, k, Head(s.q[k]))
               b == used + RecordSize(k, r)
               q == [p EXCEPT ![Len(p)].recs = Append(@, r)]
           IN  /\ PayloadOK(limit, q, IF left = 1 THEN phase + 1 ELSE phase, left - 1, b)
               /\ left - 1 > 0 => q # <<>> /\ Opened(limit, SendRecord(s, k), q[Len(q)], k, b, left - 1)
<1> DEFINE k == TxOrder[phase]
           v == Head(s.q[k])
           r == RecordFor(s, k, v)
           z == RecordSize(k, r)
           c == p[Len(p)]
           d == [c EXCEPT !.recs = Append(@, r)]
           q == [p EXCEPT ![Len(p)].recs = Append(@, r)]
           next == IF left = 1 THEN phase + 1 ELSE phase
<1>1. k \in ICType
  BY SixContainers
<1>2. p \in Seq(Written) /\ used \in Nat /\ used = PayloadBytes(p)
  BY DEF PayloadOK
<1>3. PICK m \in Nat : Len(p) = m /\ m > 0
  BY <1>2, EmptySeq
<1>4. c \in Written /\ c.type = k /\ \A i \in 1 .. m : p[i] \in Written
  BY <1>2, <1>3, ElementOfSeq DEF Opened
<1>5. /\ s.q[k] \in Seq(VarId) /\ Len(s.q[k]) \in Nat /\ s.q[k] # <<>> /\ v = s.q[k][1]
      /\ IsVarIdQueue(s.q[k], VarId) /\ DOMAIN s.q[k] = 1 .. Len(s.q[k])
  <2>1. AreQueues(s.q)
    BY Parts
  <2>2. IsVarIdQueue(s.q[k], VarId)
    BY <1>1, <2>1, QueueElements
  <2>3. PICK y : y = s.q[k]
    OBVIOUS
  <2>4. y \in Seq(VarId) /\ IsVarIdQueue(y, VarId)
    BY <2>2, <2>3 DEF IsVarIdQueue
  <2>5. Len(y) > 0
    BY <2>3
  <2>6. Len(y) \in Nat /\ y # <<>> /\ DOMAIN y = 1 .. Len(y) /\ Head(y) = y[1]
    BY <2>4, <2>5, HeadTailProperties, LenProperties, EmptySeq
  <2>. QED  BY <2>3, <2>4, <2>6
<1>6. v \in VarId
  BY <1>5, ElementOfSeq
<1>7. r \in Record(c.type) /\ r.varId = v
  BY <1>1, <1>4, <1>6, RecordForTyped
<1>8. z \in Nat
  BY <1>1, <1>4, <1>7, RecordSizes
<1>9. d \in Written /\ d.type = c.type /\ d.recs = Append(c.recs, r)
  BY <1>4, <1>7, WrittenTo
<1>10. q = [p EXCEPT ![m] = d]
  BY <1>2, <1>3
<1> HIDE DEF k, r, q, d
<1>11. /\ q \in Seq(Written) /\ Len(q) = m /\ q[m] = d /\ \A i \in 1 .. m - 1 : q[i] = p[i]
  BY <1>2, <1>3, <1>9, <1>10, ExceptSeq, SMTT(30)
<1>12. ContainerBytes(d) = ContainerBytes(c) + z
  BY <1>4, <1>7, <1>9, AnotherRecord
<1> HIDE DEF z
<1>13. PayloadBytes(q) = used + z
  <2>1. /\ p \in Seq(Written) /\ p # <<>> /\ q \in Seq(Written) /\ Len(q) = Len(p)
        /\ q[Len(p)] = d /\ \A i \in 1 .. Len(p) - 1 : q[i] = p[i]
    BY <1>2, <1>3, <1>11
  <2>2. ContainerBytes(d) = ContainerBytes(p[Len(p)]) + z
    BY <1>12
  <2>3. d \in Written
    BY <1>9
  <2> HIDE DEF c
  <2>4. PayloadBytes(q) = PayloadBytes(p) + z
    BY <1>8, <2>1, <2>2, <2>3, LastContainer
  <2>. QED  BY <1>2, <2>4
<1>14. PICK g : Levels(limit, g, s, k, used, left)
  BY DEF Opened, k
<1>15. PICK h : Levels(limit, h, SendRecord(s, k), k, used + z, left - 1)
  BY <1>1, <1>2, <1>14, LevelsGoOn DEF k, z, r
<1>16. used + z \in Nat /\ used + z <= limit
  <2>1. h[0] = used + z /\ h[0] <= limit
    BY <1>15 DEF Levels, Sums, Adds
  <2>. QED  BY <1>2, <1>8, <2>1
<1>17. PICK n \in Nat : n = Len(c.recs)
  BY <1>4, LenProperties DEF Written
<1>18. n + left <= MaxRecords /\ \A j \in 1 .. left : s.q[k][j] \notin Ids(c)
  BY <1>17 DEF Opened, k
<1>19. v \notin Ids(c)
  BY <1>5, <1>18
<1> HIDE DEF v, c
<1>20. Proper(d) /\ Ids(d) = Ids(c) \cup {v} /\ Len(d.recs) = n + 1
  <2>1. Proper(c)
    BY <1>3 DEF PayloadOK, c
  <2>2. n + 1 <= MaxRecords
    BY <1>18, ProtocolDataAssumption DEF ProtocolDataAssumption
  <2>. QED  BY <1>4, <1>7, <1>9, <1>17, <1>19, <2>1, <2>2, ProperGrows
<1>21. d.recs # <<>>
  BY <1>20
<1>22. \A i \in 1 .. m : q[i].type = p[i].type
  <2>1. \A i \in 1 .. m : i = m \/ i \in 1 .. m - 1
    OBVIOUS
  <2>. QED  BY <1>3, <1>9, <1>11, <2>1 DEF c
<1>23. \A i, j \in 1 .. Len(q) : q[i].type = q[j].type => i = j
  BY <1>3, <1>11, <1>22 DEF PayloadOK
<1>24. ASSUME NEW i \in 1 .. Len(q)
       PROVE  /\ \E j \in 1 .. next : q[i].type = TxOrder[j]
                                      /\ (j = next => i = Len(q) /\ left - 1 > 0)
              /\ Proper(q[i])
              /\ q[i].recs = <<>> => i = Len(q) /\ left - 1 > 0
  <2>1. i \in 1 .. m /\ (i = m \/ i \in 1 .. m - 1)
    BY <1>11
  <2>2. Proper(q[i]) /\ q[i].recs # <<>>
    <3>1. CASE i = m
      BY <1>11, <1>20, <1>21, <3>1
    <3>2. CASE i \in 1 .. m - 1
      <4>1. i \in 1 .. Len(p) /\ i # Len(p)
        BY <1>3, <3>2
      <4>. QED  BY <1>11, <3>2, <4>1 DEF PayloadOK
    <3>. QED  BY <2>1, <3>1, <3>2
  <2>3. PICK j \in 1 .. phase : p[i].type = TxOrder[j] /\ (j = phase => i = Len(p) /\ left > 0)
    BY <1>3, <2>1 DEF PayloadOK
  <2>4. j \in 1 .. next /\ (j = next => left # 1 /\ j = phase)
    BY <2>3
  <2>5. q[i].type = TxOrder[j]
    BY <1>22, <2>1, <2>3
  <2>6. j = next => i = Len(q) /\ left - 1 > 0
    BY <1>3, <1>11, <2>3, <2>4
  <2>. QED  BY <2>2, <2>4, <2>5, <2>6
<1>25. PayloadOK(limit, q, next, left - 1, used + z)
  BY <1>11, <1>13, <1>16, <1>23, <1>24 DEF PayloadOK
<1>26. ASSUME left - 1 > 0
       PROVE  q # <<>> /\ Opened(limit, SendRecord(s, k), q[Len(q)], k, used + z, left - 1)
  <2>1. q # <<>> /\ q[Len(q)] = d /\ d.type = k
    BY <1>3, <1>4, <1>9, <1>11
  <2>2. Len(d.recs) + (left - 1) <= MaxRecords
    BY <1>18, <1>20, ProtocolDataAssumption DEF ProtocolDataAssumption
  <2>3. ASSUME NEW j \in 1 .. left - 1
        PROVE  SendRecord(s, k).q[k][j] \notin Ids(d)
    <3>1. j \in 1 .. Len(s.q[k]) - 1 /\ j + 1 \in 1 .. left /\ j + 1 \in 1 .. Len(s.q[k])
          /\ 1 \in 1 .. Len(s.q[k]) /\ j + 1 # 1
      BY <1>5, SMTT(30) DEF k
    <3>2. SendRecord(s, k).q[k][j] = s.q[k][j + 1]
      BY <1>1, <1>5, <3>1, SendShifts
    <3>3. s.q[k][j + 1] # s.q[k][1]
      BY <1>5, <3>1 DEF IsVarIdQueue
    <3>. QED  BY <1>5, <1>18, <1>20, <3>1, <3>2, <3>3
  <2>. QED  BY <1>15, <2>1, <2>2, <2>3 DEF Opened
<1>. QED  BY <1>25, <1>26 DEF k, r, z, q, v, c

(***************************************************************************)
(* What the operations do to the entries of the variables: each is reduced *)
(* to the one entry it changes and to how it changes it.                   *)
(***************************************************************************)
\* Nothing but the repetitions of w has changed.
Same(s, t, w) ==
    /\ w \in t.used <=> w \in s.used
    /\ t.db[w] = [s.db[w] EXCEPT !.count = t.db[w].count]

\* Every variable except v is the same.
OnlyTouches(s, t, v) == \A w \in VarId : w # v => Same(s, t, w)

\* v is live, with a variable in it that is not mine and newer than the old one.
Replaced(s, t, v, me) ==
    /\ v \in t.used /\ ~ t.db[v].isDeleted /\ t.db[v].prodId \in NodeId \ {me}
    /\ v \in s.used => t.db[v].creationTime > s.db[v].creationTime

\* v was live and keeps its identity.
Kept(s, t, v) ==
    /\ v \in s.used /\ v \in t.used /\ ~ s.db[v].isDeleted
    /\ t.db[v].prodId = s.db[v].prodId /\ t.db[v].creationTime = s.db[v].creationTime

Deleted(s, t, v) ==
    /\ Kept(s, t, v) /\ t.db[v].isDeleted
    /\ t.db[v].seqno = s.db[v].seqno /\ t.db[v].value = s.db[v].value

Updated(s, t, v) ==
    /\ Kept(s, t, v) /\ ~ t.db[v].isDeleted
    /\ t.db[v].seqno # s.db[v].seqno
    /\ ~ more_recent_seqno(s.db[v].seqno, t.db[v].seqno)

\* What a received record may do to the variable it is about.
FromOutside(s, t, v, me) ==
    /\ OnlyTouches(s, t, v)
    /\ \/ Same(s, t, v)
       \/ Replaced(s, t, v, me)
       \/ s.db[v].prodId # me /\ (Deleted(s, t, v) \/ Updated(s, t, v))

\* The same for a record r of type k, from which a new variable and a new value come.
FromRecord(s, t, k, r, me) ==
    LET v == r.varId
        f == t.db[v]
    IN  /\ OnlyTouches(s, t, v)
        /\ \/ Same(s, t, v)
           \/ /\ k = "create" /\ Replaced(s, t, v, me)
              /\ f.prodId = r.prodId /\ f.creationTime = r.creationTime
              /\ f.seqno = r.seqno /\ f.value = r.value
           \/ s.db[v].prodId # me /\ Deleted(s, t, v)
           \/ /\ k = "update" /\ s.db[v].prodId # me /\ Updated(s, t, v)
              /\ f.seqno = r.seqno /\ f.value = r.value

LEMMA RecordIsOutside ==
    ASSUME NEW s, NEW t, NEW k, NEW r, NEW me, FromRecord(s, t, k, r, me)
    PROVE  FromOutside(s, t, r.varId, me)
BY DEF FromRecord, FromOutside

(***************************************************************************)
(* The shared steps.                                                       *)
(***************************************************************************)
\* An entry is what it is with its counters put in again.
LEMMA SameEntry ==
    ASSUME NEW s, WellTyped(s), NEW w \in VarId
    PROVE  s.db[w] = [s.db[w] EXCEPT !.count = s.db[w].count]
<1>1. s.db[w] \in Entry
  BY Parts
<1> DEFINE e == s.db[w]
<1> HIDE DEF e
<1>2. e \in Entry => e = [e EXCEPT !.count = e.count]
  BY DEF Entry
<1>. QED  BY <1>1, <1>2 DEF e

\* Changes of the queues.
LEMMA QueueStepSame ==
    ASSUME NEW s, WellTyped(s), NEW t, t.used = s.used, t.db = s.db
    PROVE  \A w \in VarId : Same(s, t, w)
BY SameEntry DEF Same

\* A step that stores an entry for v.
LEMMA EntryStepTouches ==
    ASSUME NEW s, WellTyped(s), NEW v \in VarId, NEW e, NEW t,
           t.used \in {s.used, s.used \cup {v}}, t.db = [s.db EXCEPT ![v] = e]
    PROVE  /\ OnlyTouches(s, t, v) /\ t.db[v] = e
           /\ v \in s.used => v \in t.used
<1>1. s.db \in [VarId -> Entry]
  BY Parts
<1>2. \A w \in VarId : t.db[w] = IF w = v THEN e ELSE s.db[w]
  BY <1>1
<1>3. \A w \in VarId : w # v => (w \in t.used <=> w \in s.used)
  OBVIOUS
<1>. QED  BY <1>2, <1>3, SameEntry DEF OnlyTouches, Same

\* Marking a live variable as deleted.
LEMMA MarkDeletedDeletes ==
    ASSUME NEW s, WellTyped(s), NEW v \in s.used, ~ s.db[v].isDeleted
    PROVE  OnlyTouches(s, MarkDeleted(s, v), v) /\ Deleted(s, MarkDeleted(s, v), v)
<1> DEFINE t == MarkDeleted(s, v)
           e == [s.db[v] EXCEPT !.isDeleted = TRUE,
                                !.count = OnlyCount("delete", s.db[v].repCnt)]
<1>1. v \in VarId /\ s.db[v] \in Entry
  BY Parts
<1>2. /\ e.isDeleted /\ e.prodId = s.db[v].prodId /\ e.value = s.db[v].value
      /\ e.creationTime = s.db[v].creationTime /\ e.seqno = s.db[v].seqno
  BY <1>1 DEF Entry
<1>3. t.used = s.used /\ t.db = [s.db EXCEPT ![v] = e]
  BY DEF MarkDeleted, ChangeEntry
<1> HIDE DEF t, e
<1>4. OnlyTouches(s, t, v) /\ t.db[v] = e /\ (v \in s.used => v \in t.used)
  BY <1>1, <1>3, EntryStepTouches
<1>. QED  BY <1>2, <1>4 DEF Deleted, Kept, t

\* Repeating the records of a variable leaves the rest of its entry alone.
LEMMA RepeatSame ==
    ASSUME NEW s, WellTyped(s), NEW k, NEW v \in VarId
    PROVE  \A w \in VarId : Same(s, Repeat(s, k, v), w)
<1> DEFINE t == Repeat(s, k, v)
           n == [s.db[v].count EXCEPT ![k] = s.db[v].repCnt]
           e == [s.db[v] EXCEPT !.count = n]
<1>1. t.used = s.used /\ t.db = [s.db EXCEPT ![v] = e]
  BY DEF Repeat, RepeatWith, ChangeEntry
<1>2. s.db[v] \in Entry
  BY Parts
<1>3. e = [s.db[v] EXCEPT !.count = e.count]
  <2> HIDE DEF n
  <2> DEFINE d == s.db[v]
  <2>1. d \in Entry
    BY <1>2
  <2> HIDE DEF d
  <2>2. [d EXCEPT !.count = n] = [d EXCEPT !.count = [d EXCEPT !.count = n].count]
    BY <2>1 DEF Entry
  <2>. QED  BY <2>2 DEF d
<1> HIDE DEF t, e
<1>4. OnlyTouches(s, t, v) /\ t.db[v] = e
  <2>1. t.used \in {s.used, s.used \cup {v}} /\ t.db = [s.db EXCEPT ![v] = e]
    BY <1>1
  <2>2. OnlyTouches(s, t, v)
    BY <2>1, EntryStepTouches
  <2>3. t.db[v] = e
    BY <2>1, Parts
  <2>. QED  BY <2>2, <2>3
<1>. QED  BY <1>1, <1>3, <1>4 DEF OnlyTouches, Same, t

\* So does answering a neighbour that is behind.
LEMMA EducateSame ==
    ASSUME NEW s, WellTyped(s), NEW v \in VarId
    PROVE  \A w \in VarId : Same(s, EducateSender(s, v), w)
BY RepeatSame, QueueStepSame DEF EducateSender

\* And asking for a variable or for an update.
LEMMA EnqueueSame ==
    ASSUME NEW s, WellTyped(s), NEW k, NEW v
    PROVE  \A w \in VarId : Same(s, Enqueue(s, k, v), w)
<1>1. Enqueue(s, k, v).used = s.used /\ Enqueue(s, k, v).db = s.db
  BY Parts DEF Enqueue
<1>. QED  BY <1>1, QueueStepSame

\* Sending a record changes counters only.
LEMMA SendSame ==
    ASSUME NEW s, WellTyped(s), NEW k \in ICType, s.q[k] # <<>>
    PROVE  \A w \in VarId : Same(s, SendRecord(s, k), w) /\ Same(s, AfterThrow(s, k), w)
<1> DEFINE v == Head(s.q[k])
           n == IF k \in Counted THEN [s.db[v].count EXCEPT ![k] = @ - 1] ELSE s.db[v].count
           e == [s.db[v] EXCEPT !.count = n]
           t == SendRecord(s, k)
<1>1. v \in VarId
  BY Parts, QueueElements, PopFrontMembers
<1>2. s.db[v] \in Entry
  BY <1>1, Parts
<1>3. t.used = s.used /\ t.db = [s.db EXCEPT ![v] = e]
  BY DEF SendRecord, ChangeEntry
<1> HIDE DEF n, v, t
<1>4. e = [s.db[v] EXCEPT !.count = e.count]
  <2> DEFINE d == s.db[v]
  <2>1. d \in Entry
    BY <1>2
  <2> HIDE DEF d
  <2>2. [d EXCEPT !.count = n] = [d EXCEPT !.count = [d EXCEPT !.count = n].count]
    BY <2>1 DEF Entry
  <2>. QED  BY <2>2 DEF d
<1> HIDE DEF e
<1>5. OnlyTouches(s, t, v) /\ t.db[v] = e
  <2>1. t.used \in {s.used, s.used \cup {v}} /\ t.db = [s.db EXCEPT ![v] = e]
    BY <1>3
  <2>2. OnlyTouches(s, t, v)
    BY <1>1, <2>1, EntryStepTouches
  <2>3. t.db[v] = e
    BY <1>1, <2>1, Parts
  <2>. QED  BY <2>2, <2>3
<1>6. \A w \in VarId : Same(s, t, w)
  BY <1>1, <1>3, <1>4, <1>5 DEF OnlyTouches, Same
<1>7. AfterThrow(s, k).used = s.used /\ AfterThrow(s, k).db = s.db
  BY Parts DEF AfterThrow
<1>. QED  BY <1>6, <1>7, QueueStepSame DEF t

(***************************************************************************)
(* Received records.                                                       *)
(***************************************************************************)
\* A step that changes no entry is one that may come from outside.
LEMMA SameIsOutside ==
    ASSUME NEW s, NEW t, NEW k, NEW r, r.varId \in VarId, NEW me,
           \A w \in VarId : Same(s, t, w)
    PROVE  FromRecord(s, t, k, r, me)
BY DEF FromRecord, OnlyTouches

\* process_var_create replaces an older variable of another node's making.
LEMMA CreateFromOutside ==
    ASSUME NEW s, WellTyped(s), NEW r \in CreateRecord, NEW me, NEW clock \in Nat
    PROVE  FromRecord(s, process_var_create(s, r, me, clock), "create", r, me)
<1> DEFINE v == r.varId
           t == process_var_create(s, r, me, clock)
           e == NewEntry(r, r.prodId, r.creationTime, r.seqno, r.value, clock)
<1>1. v \in VarId /\ r.prodId \in NodeId /\ r.creationTime \in Nat
  BY DEF CreateRecord
<1>2. s.db[v] \in Entry
  BY <1>1, Parts
<1>3. \/ t = s
      \/ /\ t = InstallEntry(s, v, e) /\ r.prodId # me
         /\ v \in s.used => ~ (s.db[v].creationTime >= r.creationTime)
  BY DEF process_var_create, variableExists
<1>4. /\ e.prodId = r.prodId /\ e.creationTime = r.creationTime /\ ~ e.isDeleted
      /\ e.seqno = r.seqno /\ e.value = r.value
  BY DEF NewEntry
<1>5. s.db[v].creationTime \in Nat
  BY <1>2 DEF Entry
<1> HIDE DEF t, e, v
<1>6. CASE t = s
  BY <1>1, <1>6, QueueStepSame, SameIsOutside DEF t, v
<1>7. CASE /\ t = InstallEntry(s, v, e) /\ r.prodId # me
           /\ v \in s.used => ~ (s.db[v].creationTime >= r.creationTime)
  <2>1. t.used = s.used \cup {v} /\ t.db = [s.db EXCEPT ![v] = e]
    BY <1>7 DEF InstallEntry
  <2>2. OnlyTouches(s, t, v)
    BY <1>1, <2>1, EntryStepTouches
  <2>3. t.db[v] = e
    BY <1>1, <2>1, Parts
  <2>4. Replaced(s, t, v, me)
    BY <1>1, <1>4, <1>5, <1>7, <2>1, <2>3 DEF Replaced
  <2>. QED  BY <1>4, <2>2, <2>3, <2>4 DEF FromRecord, t, v
<1>. QED  BY <1>3, <1>6, <1>7

\* process_var_delete deletes what is live and another node's.
LEMMA DeleteFromOutside ==
    ASSUME NEW s, WellTyped(s), NEW r \in VarIdRecord, NEW me
    PROVE  FromRecord(s, process_var_delete(s, r, me), "delete", r, me)
<1> DEFINE v == r.varId
           t == process_var_delete(s, r, me)
<1>1. v \in VarId
  BY DEF VarIdRecord
<1>2. \/ t = s
      \/ /\ t = MarkDeleted(s, v) /\ v \in s.used /\ ~ s.db[v].isDeleted
         /\ s.db[v].prodId # me
  BY DEF process_var_delete, variableExists, producerIsMe
<1> HIDE DEF t, v
<1>3. CASE t = s
  BY <1>1, <1>3, QueueStepSame, SameIsOutside DEF t, v
<1>4. CASE /\ t = MarkDeleted(s, v) /\ v \in s.used /\ ~ s.db[v].isDeleted
           /\ s.db[v].prodId # me
  BY <1>4, MarkDeletedDeletes DEF FromRecord, t, v
<1>. QED  BY <1>2, <1>3, <1>4

\* process_var_update takes over what is not older than the value it has.
LEMMA UpdateFromOutside ==
    ASSUME NEW s, WellTyped(s), NEW r \in UpdateRecord, NEW me, NEW clock \in Nat
    PROVE  FromRecord(s, process_var_update(s, r, me, clock), "update", r, me)
<1> DEFINE v == r.varId
           t == process_var_update(s, r, me, clock)
           n == NewValue(s.db[v], r.seqno, r.value, clock)
           u == RepeatWith(s, "update", v, n)
           c == [n.count EXCEPT !["update"] = n.repCnt]
           e == [n EXCEPT !.count = c]
<1>1. v \in VarId
  BY DEF UpdateRecord
<1>2. s.db[v] \in Entry
  BY <1>1, Parts
<1>3. \/ t = s
      \/ t = Enqueue(s, "reqCreate", v)
      \/ t = EducateSender(s, v)
      \/ /\ t = [u EXCEPT !.q["reqUpd"] = Remove(@, v)]
         /\ v \in s.used /\ ~ s.db[v].isDeleted /\ s.db[v].prodId # me
         /\ s.db[v].seqno # r.seqno /\ ~ more_recent_seqno(s.db[v].seqno, r.seqno)
  BY DEF process_var_update, variableExists, producerIsMe
<1>4. /\ e.prodId = s.db[v].prodId /\ e.creationTime = s.db[v].creationTime
      /\ e.isDeleted = s.db[v].isDeleted /\ e.seqno = r.seqno /\ e.value = r.value
  <2> HIDE DEF c
  <2>. QED  BY <1>2 DEF NewValue, Entry
<1>5. [u EXCEPT !.q["reqUpd"] = Remove(@, v)].used = s.used
      /\ [u EXCEPT !.q["reqUpd"] = Remove(@, v)].db = [s.db EXCEPT ![v] = e]
  BY DEF RepeatWith, ChangeEntry
<1> HIDE DEF t, v, n, u, c, e
<1>6. CASE t = s \/ t = Enqueue(s, "reqCreate", v) \/ t = EducateSender(s, v)
  <2>1. \A w \in VarId : Same(s, t, w)
    BY <1>1, <1>6, QueueStepSame, EnqueueSame, EducateSame
  <2>. QED  BY <1>1, <2>1, SameIsOutside DEF t, v
<1>7. CASE /\ t = [u EXCEPT !.q["reqUpd"] = Remove(@, v)]
           /\ v \in s.used /\ ~ s.db[v].isDeleted /\ s.db[v].prodId # me
           /\ s.db[v].seqno # r.seqno /\ ~ more_recent_seqno(s.db[v].seqno, r.seqno)
  <2>1. t.used = s.used /\ t.db = [s.db EXCEPT ![v] = e]
    BY <1>5, <1>7
  <2>2. OnlyTouches(s, t, v)
    BY <1>1, <2>1, EntryStepTouches
  <2>3. t.db[v] = e
    BY <1>1, <2>1, Parts
  <2>4. Updated(s, t, v)
    BY <1>4, <1>7, <2>1, <2>3 DEF Updated, Kept
  <2>. QED  BY <1>4, <1>7, <2>2, <2>3, <2>4 DEF FromRecord, t, v
<1>. QED  BY <1>3, <1>6, <1>7

\* Summaries and requests change no entry but for its counters.
LEMMA QuestionsFromOutside ==
    ASSUME NEW s, WellTyped(s), NEW k, NEW r, r.varId \in VarId, NEW me
    PROVE  /\ FromRecord(s, process_var_summary(s, r, me), k, r, me)
           /\ FromRecord(s, process_var_requpdate(s, r), k, r, me)
           /\ FromRecord(s, process_var_reqcreate(s, r), k, r, me)
<1> DEFINE v == r.varId
<1>1. \A w \in VarId : /\ Same(s, s, w)
                       /\ Same(s, EducateSender(s, v), w)
                       /\ Same(s, Repeat(s, "update", v), w)
                       /\ Same(s, Repeat(s, "create", v), w)
                       /\ Same(s, Enqueue(s, "reqCreate", v), w)
                       /\ Same(s, Enqueue(s, "reqUpd", v), w)
  BY QueueStepSame, EducateSame, RepeatSame, EnqueueSame
<1>2. process_var_summary(s, r, me)
        \in {s, EducateSender(s, v), Enqueue(s, "reqCreate", v), Enqueue(s, "reqUpd", v)}
  BY DEF process_var_summary
<1>3. /\ process_var_requpdate(s, r)
           \in {s, Repeat(s, "update", v), Enqueue(s, "reqCreate", v)}
      /\ process_var_reqcreate(s, r)
           \in {s, Repeat(s, "create", v), Enqueue(s, "reqCreate", v)}
  BY DEF process_var_requpdate, process_var_reqcreate
<1> HIDE DEF v
<1>4. \A w \in VarId : /\ Same(s, process_var_summary(s, r, me), w)
                       /\ Same(s, process_var_requpdate(s, r), w)
                       /\ Same(s, process_var_reqcreate(s, r), w)
  BY <1>1, <1>2, <1>3
<1>. QED  BY <1>4, SameIsOutside

\* So a record concerns one variable, and of that it is not the producer's
\* business what happens to it elsewhere.
LEMMA RecordFromOutside ==
    ASSUME NEW s, WellTyped(s), NEW k \in ICType, NEW r \in Record(k), NEW me,
           NEW clock \in Nat
    PROVE  r.varId \in VarId /\ FromRecord(s, ProcessRecord(s, k, r, me, clock), k, r, me)
<1>1. CASE k = "create"
  <2>1. r \in CreateRecord  BY <1>1 DEF Record
  <2>. QED  BY <1>1, <2>1, CreateFromOutside DEF ProcessRecord, CreateRecord
<1>2. CASE k = "delete"
  <2>1. r \in VarIdRecord  BY <1>2 DEF Record
  <2>. QED  BY <1>2, <2>1, DeleteFromOutside DEF ProcessRecord, VarIdRecord
<1>3. CASE k = "update"
  <2>1. r \in UpdateRecord  BY <1>3 DEF Record
  <2>. QED  BY <1>3, <2>1, UpdateFromOutside DEF ProcessRecord, UpdateRecord
<1>4. CASE k \in {"summary", "reqUpd"}
  <2>1. r \in SeqnoRecord  BY <1>4 DEF Record
  <2>2. r.varId \in VarId  BY <2>1 DEF SeqnoRecord
  <2>. QED  BY <1>4, <2>2, QuestionsFromOutside DEF ProcessRecord
<1>5. CASE k = "reqCreate"
  <2>1. r \in VarIdRecord  BY <1>5 DEF Record
  <2>2. r.varId \in VarId  BY <2>1 DEF VarIdRecord
  <2>. QED  BY <1>5, <2>2, QuestionsFromOutside DEF ProcessRecord
<1>. QED  BY <1>1, <1>2, <1>3, <1>4, <1>5 DEF ICType

(***************************************************************************)
(* Requests of the applications.                                           *)
(***************************************************************************)
\* v is a new variable of mine, in place of nothing or of another one of mine.
Made(s, t, v, me, clock) ==
    /\ v \in t.used /\ ~ t.db[v].isDeleted /\ t.db[v].prodId = me
    /\ t.db[v].creationTime = clock /\ t.db[v].seqno = 0
    /\ v \in s.used => s.db[v].prodId = me

\* v has the value after the last one.
CountedUp(s, t, v) ==
    Kept(s, t, v) /\ ~ t.db[v].isDeleted /\ t.db[v].seqno = NextSeqno(s.db[v].seqno)

\* What a request may do to the variable it is about.
FromInside(s, t, v, me, clock) ==
    /\ OnlyTouches(s, t, v)
    /\ \/ Made(s, t, v, me, clock)
       \/ s.db[v].prodId = me /\ (Deleted(s, t, v) \/ CountedUp(s, t, v))

\* A create request, whether or not it throws.
LEMMA RtdbCreateMakes ==
    ASSUME NEW s, WellTyped(s), NEW r \in CreateRequest, NEW me, NEW clock,
           NEW active, RtdbCreateStatus(s, r, me, active) = "OK"
    PROVE  LET t == handle_rtdb_create_request(s, r, me, clock)
           IN  /\ FromInside(s, t, r.varId, me, clock) /\ Made(s, t, r.varId, me, clock)
               /\ ~ RtdbCreateThrows(r) => t.db[r.varId].value = r.value
<1> DEFINE v == r.varId
           t == handle_rtdb_create_request(s, r, me, clock)
           e == NewEntry(r, me, clock, 0, r.value, clock)
           f == [e EXCEPT !.descr = s.db[v].descr, !.value = s.db[v].value]
           d == t.db[v]
<1>1. v \in VarId
  BY DEF CreateRequest
<1>2. v \in s.used => s.db[v].prodId = me
  BY DEF RtdbCreateStatus, variableExists, producerIsMe
<1>3. /\ e.prodId = me /\ e.creationTime = clock /\ e.seqno = 0 /\ ~ e.isDeleted
      /\ f.prodId = me /\ f.creationTime = clock /\ f.seqno = 0 /\ ~ f.isDeleted
  BY DEF NewEntry
<1>4. t.used = s.used \cup {v} /\ t.db \in {[s.db EXCEPT ![v] = e], [s.db EXCEPT ![v] = f]}
  <2>1. CASE RtdbCreateThrows(r)
    <3>1. t = [s EXCEPT !.used = @ \cup {v}, !.db = [@ EXCEPT ![v] = f]]
      BY <2>1 DEF handle_rtdb_create_request
    <3> HIDE DEF t, e, f, v
    <3>2. \A U, D : LET u == [s EXCEPT !.used = @ \cup U, !.db = [@ EXCEPT ![v] = D]]
                    IN  u.used = s.used \cup U /\ u.db = [s.db EXCEPT ![v] = D]
      BY Parts
    <3>. QED  BY <3>1, <3>2
  <2>2. CASE ~ RtdbCreateThrows(r)
    <3>1. t = InstallEntry(s, v, e)
      BY <2>2 DEF handle_rtdb_create_request
    <3>. QED  BY <3>1 DEF InstallEntry
  <2>. QED  BY <2>1, <2>2
<1> HIDE DEF t, e, f, v
<1>5. OnlyTouches(s, t, v)
  BY <1>1, <1>4, EntryStepTouches
<1>6. d \in {e, f}
  BY <1>1, <1>4, Parts
<1>7. v \in t.used
  BY <1>4
<1> HIDE DEF d
<1>8. ~ d.isDeleted /\ d.prodId = me /\ d.creationTime = clock /\ d.seqno = 0
  BY <1>3, <1>6
<1>9. ASSUME ~ RtdbCreateThrows(r)
      PROVE  d.value = r.value
  <2>1. t = InstallEntry(s, v, e) /\ e.value = r.value
    BY <1>9 DEF handle_rtdb_create_request, NewEntry, t, e, v
  <2>2. t.db = [s.db EXCEPT ![v] = e]
    BY <2>1 DEF InstallEntry
  <2>. QED  BY <1>1, <2>1, <2>2, Parts DEF d
<1>. QED  BY <1>2, <1>5, <1>7, <1>8, <1>9 DEF FromInside, Made, t, v, d

\* An update request.
LEMMA RtdbUpdateCounts ==
    ASSUME NEW s, WellTyped(s), NEW v \in VarId, NEW value, NEW me, NEW clock, NEW active,
           RtdbUpdateStatus(s, v, value, me, active) = "OK"
    PROVE  LET t == handle_rtdb_update_request(s, v, value, clock)
           IN  /\ FromInside(s, t, v, me, clock) /\ CountedUp(s, t, v)
               /\ t.db[v].value = value
<1> DEFINE t == handle_rtdb_update_request(s, v, value, clock)
           n == NewValue(s.db[v], NextSeqno(s.db[v].seqno), value, clock)
           c == [n.count EXCEPT !["update"] = n.repCnt]
           e == [n EXCEPT !.count = c]
<1>1. s.db[v] \in Entry
  BY Parts
<1>2. v \in s.used /\ ~ s.db[v].isDeleted /\ s.db[v].prodId = me
  BY DEF RtdbUpdateStatus, RtdbModifyStatus, variableExists, producerIsMe
<1>3. /\ e.prodId = s.db[v].prodId /\ e.creationTime = s.db[v].creationTime
      /\ e.isDeleted = s.db[v].isDeleted /\ e.seqno = NextSeqno(s.db[v].seqno)
      /\ e.value = value
  <2> HIDE DEF c
  <2>. QED  BY <1>1 DEF NewValue, Entry
<1>4. t.used = s.used /\ t.db = [s.db EXCEPT ![v] = e]
  BY DEF handle_rtdb_update_request, RepeatWith, ChangeEntry
<1> HIDE DEF t, n, c, e
<1>5. OnlyTouches(s, t, v)
  BY <1>4, EntryStepTouches
<1>6. t.db[v] = e
  BY <1>4, Parts
<1>7. CountedUp(s, t, v)
  BY <1>2, <1>3, <1>4, <1>6 DEF CountedUp, Kept
<1>. QED  BY <1>2, <1>3, <1>5, <1>6, <1>7 DEF FromInside, t

\* A delete request.
LEMMA RtdbDeleteDeletes ==
    ASSUME NEW s, WellTyped(s), NEW v, NEW me, NEW clock, NEW active,
           RtdbModifyStatus(s, v, me, active) = "OK"
    PROVE  FromInside(s, handle_rtdb_delete_request(s, v), v, me, clock)
<1>1. v \in s.used /\ ~ s.db[v].isDeleted /\ s.db[v].prodId = me
  BY DEF RtdbModifyStatus, variableExists, producerIsMe
<1>. QED  BY <1>1, MarkDeletedDeletes DEF FromInside, handle_rtdb_delete_request

\* The entry of a variable that only repeats.
LEMMA SameFields ==
    ASSUME NEW s, WellTyped(s), NEW t, NEW w \in VarId, Same(s, t, w)
    PROVE  /\ t.db[w].prodId = s.db[w].prodId
           /\ t.db[w].creationTime = s.db[w].creationTime
           /\ t.db[w].seqno = s.db[w].seqno
           /\ t.db[w].isDeleted = s.db[w].isDeleted
           /\ t.db[w].value = s.db[w].value
           /\ w \in t.used <=> w \in s.used
<1> DEFINE d == s.db[w]
           n == t.db[w].count
<1>1. d \in Entry
  BY Parts
<1>2. t.db[w] = [d EXCEPT !.count = n]
  BY DEF Same
<1> HIDE DEF d, n
<1>3. LET e == [d EXCEPT !.count = n]
      IN  /\ e.prodId = d.prodId /\ e.creationTime = d.creationTime
          /\ e.seqno = d.seqno /\ e.isDeleted = d.isDeleted /\ e.value = d.value
  BY <1>1 DEF Entry
<1>. QED  BY <1>2, <1>3 DEF Same, d

=============================================================================

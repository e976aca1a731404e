------------------------- MODULE VardisClient_proofs -------------------------
(***************************************************************************)
(* What the applications of a node are told is right, for any number of    *)
(* applications, whatever they do, whichever of them fail, and for any     *)
(* number of variables.                                                    *)
(***************************************************************************)
EXTENDS VardisClient, TLAPS, FiniteSetTheorems, SequenceTheorems, WellFoundedInduction

(***************************************************************************)
(* The inductive invariant.                                                *)
(***************************************************************************)
\* Where the rtdb thread works, and where an application is that uses its segment: it asks,
\* its request is in the queue, or it waits for the answer.
Working == {"loop", "client", "queue", "drain"}
Pushing == {"push", "push_waiting", "push_woken"}
Popping == {"pop", "pop_waiting", "pop_woken"}
Using(c) == app[c].pc \in {"on", "reading"} \cup Pushing \cup Popping

\* Types of what is in the queues, and of the segments.
Question == [op : Services, varId : VarId, descr : {0, 1}, size : {0, 1}, id : 1 .. MaxRequests]
StatusCode == {"OK", "INACTIVE", "VARIABLE_EXISTS", "EMPTY_VALUE", "VARIABLE_DOES_NOT_EXIST",
               "NOT_PRODUCER", "VARIABLE_IS_DELETED"}
Reply == [id : 1 .. MaxRequests, status : StatusCode]
QueueOf(S) == [items : Seq(S), has_data : BOOLEAN, locked : BOOLEAN]
Segment == [maker : Client, disturbed : BOOLEAN, req : [Services -> QueueOf(Question)],
            conf : [Services -> QueueOf(Reply)]]

AppFields == {"pc", "registered", "segment", "call", "value", "answer", "lives"}
ConnFields == {"client", "request", "response", "open"}
StoreFields == {"id_states", "freeList", "number_current_variables", "value_buffer",
                "description_buffer"}

\* The two threads: what they have locked, and where they are in the table of the clients.
ThreadsOK ==
    /\ DOMAIN pc = {"rtdb", "command"}
    /\ pc["rtdb"] \in Working \cup {"ended", "killed", "gone"}
    /\ pc["rtdb"] \notin Working => vardis_exitFlag
    /\ vardis_exitFlag \in BOOLEAN
    /\ pc["rtdb"] = "drain" => store_mutex = TheDaemon
    /\ pc["rtdb"] \in {"client", "queue", "drain"} =>
          ca_mutex = TheDaemon /\ todo \subseteq Registered
    /\ pc["rtdb"] \in {"queue", "drain"} => todo # {}
    /\ service \in 1 .. 3
    /\ clientApplications \in [Name -> 0 .. Len(segments)]
    /\ shm \in [Name -> 0 .. Len(segments)]

SegmentsOK == segments \in Seq(Segment)

\* The request k in the queue svc of the segment s.
Slot(s, svc, k) ==
    s \in 1 .. Len(segments) /\ svc \in Services /\ k \in 1 .. Len(segments[s].req[svc].items)
At(s, svc, k) == segments[s].req[svc].items[k].id

\* Requests are in one place, and have not been carried out as long as they are there.
IdsOK ==
    /\ issued \in 0 .. MaxRequests
    /\ carried \in [1 .. MaxRequests -> {0, 1}]
    /\ \A i \in 1 .. MaxRequests : i > issued => carried[i] = 0
    /\ \A s, t, svc, other, k, l :
          Slot(s, svc, k) /\ Slot(t, other, l) /\ At(s, svc, k) = At(t, other, l) =>
             s = t /\ svc = other /\ k = l
    /\ \A s, svc, k : Slot(s, svc, k) =>
          At(s, svc, k) \in 1 .. issued /\ carried[At(s, svc, k)] = 0

\* A call that is about to be put into a queue is in none.
CallsOK ==
    /\ \A c \in Client : app[c].pc \in Pushing \cup Popping => TheCall(c) \in Question
    /\ \A c \in Client : app[c].pc \in Pushing =>
          /\ TheCall(c).id <= issued /\ carried[TheCall(c).id] = 0
          /\ \A s, svc, k : Slot(s, svc, k) => At(s, svc, k) # TheCall(c).id
          /\ \A d \in Client : app[d].pc \in Pushing /\ TheCall(d).id = TheCall(c).id => c = d

\* Nothing is under way in a queue.
Idle(s, svc) ==
    /\ segments[s].req[svc].items = <<>>
    /\ segments[s].conf[svc].items = <<>> /\ ~ segments[s].conf[svc].has_data

\* The request of the call q is in its queue, or the answer is in its.
Waiting(s, q) ==
    /\ segments[s].req[q.op].items = <<q>>
    /\ segments[s].conf[q.op].items = <<>> /\ ~ segments[s].conf[q.op].has_data

Answered(s, q) ==
    /\ segments[s].req[q.op].items = <<>>
    /\ Len(segments[s].conf[q.op].items) = 1 /\ segments[s].conf[q.op].has_data
    /\ Head(segments[s].conf[q.op].items).id = q.id
    /\ carried[q.id] = 1

\* What there is in a segment that only the application uses for which it was made.
SegmentUse(c) ==
    LET s == app[c].segment
    IN  /\ app[c].pc \notin Popping => \A svc \in Services : Idle(s, svc)
        /\ app[c].pc \in Popping =>
              /\ \A svc \in Services \ {TheCall(c).op} : Idle(s, svc)
              /\ \/ Idle(s, TheCall(c).op) /\ app[c].pc # "pop_woken"
                 \/ Waiting(s, TheCall(c)) /\ app[c].pc # "pop_woken"
                 \/ Answered(s, TheCall(c))

UseOK ==
    \A c \in Client : Using(c) =>
        /\ app[c].segment \in 1 .. Len(segments)
        /\ ~ segments[app[c].segment].disturbed =>
              segments[app[c].segment].maker = c /\ SegmentUse(c)

\* The application may open the segment under its name.
MayAttach(c) ==
    LET s == shm[scenario.name[c]]
    IN  \/ s = NoSegment \/ segments[s].disturbed \/ segments[s].maker # c
        \/ \A svc \in Services : Idle(s, svc)

AppsOK ==
    /\ DOMAIN app = Client /\ \A c \in Client : DOMAIN app[c] = AppFields
    /\ scenario \in Scenarios
    /\ \A c \in Client : app[c].pc = "attaching" => Registers(c) /\ MayAttach(c)
    /\ \A c \in Client : app[c].pc \in {"opening", "asking", "attaching"} =>
          app[c].call = NoCall /\ app[c].answer = NoAnswer

\* What the n-th connection of an application is for, which is not over.
ConnectionOK(n, c) ==
    /\ app[c].pc \in {"opening", "asking", "closing", "leaving"}
    /\ app[c].pc = "opening" => conns[n].request = NoRequest /\ conns[n].response = NoResponse
    /\ app[c].pc = "asking" /\ Registers(c) =>
          /\ conns[n].request = [s_type |-> "Register", name |-> scenario.name[c],
                                 delete_old |-> c \in scenario.delete_old]
          /\ conns[n].response # NoResponse /\ conns[n].response.status = "OK" => MayAttach(c)

IsSequence(q) == q \in Seq({q[i] : i \in 1 .. Len(q)})

SocketOK ==
    /\ IsSequence(conns)
    /\ data_socket \in 0 .. Len(conns)
    /\ accepted \in 0 .. Len(conns)
    /\ \A n \in 1 .. Len(conns) : DOMAIN conns[n] = ConnFields /\ conns[n].client \in Client
                                  /\ conns[n].open \subseteq {"client", "owner"}
    /\ \A n, m \in 1 .. Len(conns) :
          conns[n].client = conns[m].client /\ "client" \in conns[n].open
             /\ "client" \in conns[m].open => n = m
    /\ \A n \in 1 .. Len(conns) : "client" \in conns[n].open => ConnectionOK(n, conns[n].client)

\* The store.
DBEntry == [own : BOOLEAN, tStamp : Nat, isDeleted : BOOLEAN]
IdState == [used : BOOLEAN, offs : Nat, db_entry : DBEntry, val_size : Nat, descr_size : Nat]

StoreOK(st) ==
    /\ DOMAIN st = StoreFields
    /\ st.id_states \in [VarId -> IdState]
    /\ DOMAIN st.value_buffer = Buffer /\ DOMAIN st.description_buffer = Buffer
    /\ st.freeList \in Seq(Buffer)
    /\ \A i, j \in 1 .. Len(st.freeList) : st.freeList[i] = st.freeList[j] => i = j
    /\ \A v \in InUse(st) :
          /\ st.id_states[v].offs \in Buffer
          /\ \A i \in 1 .. Len(st.freeList) : st.freeList[i] # st.id_states[v].offs
          /\ \A w \in InUse(st) : st.id_states[w].offs = st.id_states[v].offs => w = v
    /\ Len(st.freeList) + Cardinality(InUse(st)) = Cardinality(VarId)

TStamp(v) == get_db_entry(variable_store, v).tStamp

\* The writing of an entry has been cut short, and with it the rtdb thread.
Broken(tStamp) == pc["rtdb"] \notin Working /\ CutShort(tStamp)

\* The value of a variable is that of its entry.
ValuesOK ==
    \A v \in InUse(variable_store) :
        read_value(variable_store, v).data = <<v, TStamp(v)>> \/ Broken(TStamp(v))

\* A reader has the value of the entry that it is about to read.
ReadersOK ==
    \A c \in Client : app[c].pc = "reading" =>
        /\ store_mutex = c /\ TheCall(c).varId \in VarId /\ TheCall(c).op = "Read"
        /\ TheCall(c).varId \in InUse(variable_store) =>
              \/ app[c].value.data = <<TheCall(c).varId, TStamp(TheCall(c).varId)>>
              \/ Broken(TStamp(TheCall(c).varId))

\* What an application has been told.
ToldOK ==
    /\ \A c \in Client : HasStatus(c) =>
          /\ app[c].answer.id = TheCall(c).id
          /\ app[c].answer.status \notin {"exception", "INTERNAL_ERROR"}
          /\ TheCall(c).id \in 1 .. MaxRequests /\ carried[TheCall(c).id] = 1
    /\ \A c \in Client : HasValue(c) =>
          \/ app[c].answer.value.data = <<TheCall(c).varId, app[c].answer.tStamp>>
          \/ Broken(app[c].answer.tStamp)

IInv ==
    /\ ThreadsOK /\ SegmentsOK /\ IdsOK /\ CallsOK /\ UseOK /\ AppsOK /\ SocketOK
    /\ StoreOK(variable_store) /\ ValuesOK /\ ReadersOK /\ ToldOK

(***************************************************************************)
(* The store.                                                              *)
(***************************************************************************)
Data(st, v) == st.value_buffer[st.id_states[v].offs]
Stamp(st, v) == st.id_states[v].db_entry.tStamp

\* A sequence that is not empty, and what is left without its head.
LEMMA TailOf ==
    ASSUME NEW S, NEW q \in Seq(S), q # <<>>
    PROVE  \E n \in Nat : /\ Len(q) = n + 1 /\ Len(Tail(q)) = n
                          /\ Head(q) \in S /\ Head(q) = q[1] /\ Tail(q) \in Seq(S)
                          /\ \A i \in 1 .. n : Tail(q)[i] = q[i + 1]
<1>1. Len(q) \in Nat /\ Len(q) # 0
  BY LenProperties, EmptySeq, SMTT(30)
<1>2. PICK n \in Nat : Len(q) = n + 1
  <2>1. Len(q) - 1 \in Nat /\ Len(q) = (Len(q) - 1) + 1
    BY <1>1
  <2>. QED  BY <2>1
<1>3. Len(Tail(q)) = n
  BY <1>2, HeadTailProperties
<1>4. Head(q) \in S /\ Tail(q) \in Seq(S) /\ \A i \in 1 .. n : Tail(q)[i] = q[i + 1]
  BY <1>3, HeadTailProperties
<1>5. Head(q) = q[1]
  OBVIOUS
<1>. QED  BY <1>2, <1>3, <1>4, <1>5

LEMMA Constants ==
    ASSUME ClientAssumption
    PROVE  /\ IsFiniteSet(VarId) /\ VarId \subseteq Nat \ {0} /\ Cardinality(VarId) \in Nat
           /\ IsFiniteSet(Name) /\ Name \subseteq Nat \ {0}
           /\ Client \subseteq Nat /\ MaxRequests \in Nat
<1>1. IsFiniteSet(VarId) /\ IsFiniteSet(Name) /\ Client \subseteq Nat /\ MaxRequests \in Nat
  BY DEF ClientAssumption
<1>2. Cardinality(VarId) \in Nat /\ Cardinality(Name) \in Nat
  BY <1>1, FS_CardinalityType
<1>3. PICK n \in Nat : n = Cardinality(VarId)
  BY <1>2
<1>4. PICK m \in Nat : m = Cardinality(Name)
  BY <1>2
<1>5. VarId = 1 .. n /\ Name = 1 .. m
  BY <1>3, <1>4 DEF ClientAssumption
<1>6. VarId \subseteq Nat \ {0} /\ Name \subseteq Nat \ {0}
  BY <1>5
<1>. QED  BY <1>1, <1>2, <1>6

LEMMA SomeFree ==
    ASSUME ClientAssumption, NEW st, StoreOK(st), NEW v \in VarId, v \notin InUse(st)
    PROVE  st.freeList # <<>>
<1>1. InUse(st) \subseteq VarId /\ IsFiniteSet(VarId)
  BY DEF InUse, ClientAssumption
<1>2. InUse(st) # VarId
  OBVIOUS
<1>3. /\ Cardinality(InUse(st)) \in Nat /\ Cardinality(VarId) \in Nat
      /\ Cardinality(InUse(st)) < Cardinality(VarId)
  BY <1>1, <1>2, FS_Subset, FS_CardinalityType
<1>4. Len(st.freeList) # 0
  BY <1>3 DEF StoreOK
<1>. QED  BY <1>4, EmptySeq DEF StoreOK

LEMMA AllocateOK ==
    ASSUME ClientAssumption, NEW st, StoreOK(st), NEW v \in VarId, v \notin InUse(st)
    PROVE  LET t == allocate_identifier(st, v)
           IN  /\ StoreOK(t) /\ InUse(t) = InUse(st) \cup {v}
               /\ \A w \in InUse(st) : Data(t, w) = Data(st, w) /\ Stamp(t, w) = Stamp(st, w)
<1> DEFINE t == allocate_identifier(st, v)
           q == st.freeList
           b == Head(q)
<1>1. q # <<>> /\ q \in Seq(Buffer)
  BY SomeFree DEF StoreOK
<1>2. PICK n \in Nat : /\ Len(q) = n + 1 /\ Len(Tail(q)) = n
                       /\ b \in Buffer /\ b = q[1] /\ Tail(q) \in Seq(Buffer)
                       /\ \A i \in 1 .. n : Tail(q)[i] = q[i + 1]
  BY <1>1, TailOf
<1>3. /\ Tail(q) \in Seq(Buffer) /\ b \in Buffer /\ b = q[1]
      /\ \A i \in 1 .. n : Tail(q)[i] = q[i + 1]
  BY <1>2
<1>4. PICK x : x = [[st.id_states[v] EXCEPT !.used = TRUE] EXCEPT !.offs = b]
  OBVIOUS
<1>5. st.id_states[v] \in IdState /\ b \in Nat
  BY <1>3, Constants DEF StoreOK, Buffer
<1>6. x \in IdState /\ x.used /\ x.offs = b /\ x.db_entry = st.id_states[v].db_entry
  <2>1. PICK y : y = [st.id_states[v] EXCEPT !.used = TRUE]
    OBVIOUS
  <2>2. y \in IdState /\ y.used /\ y.db_entry = st.id_states[v].db_entry
    BY <1>5, <2>1 DEF IdState
  <2>3. x = [y EXCEPT !.offs = b]
    BY <1>4, <2>1
  <2>. QED  BY <1>5, <2>2, <2>3 DEF IdState
<1>7. DOMAIN st = StoreFields /\ st.id_states \in [VarId -> IdState]
  BY DEF StoreOK
<1>8. /\ DOMAIN t = StoreFields /\ t.freeList = Tail(q)
      /\ t.id_states = [st.id_states EXCEPT ![v] = x]
      /\ t.value_buffer = st.value_buffer /\ t.description_buffer = st.description_buffer
  BY <1>4, <1>7 DEF StoreFields, allocate_identifier
<1> HIDE DEF t
<1>9. t.id_states \in [VarId -> IdState] /\ t.id_states[v] = x
      /\ \A w \in VarId : w # v => t.id_states[w] = st.id_states[w]
  BY <1>6, <1>7, <1>8
<1>10. InUse(t) = InUse(st) \cup {v}
  BY <1>6, <1>9 DEF InUse
<1>11. \A i, j \in 1 .. n : Tail(q)[i] = Tail(q)[j] => i = j
  <2>1. ASSUME NEW i \in 1 .. n, NEW j \in 1 .. n, Tail(q)[i] = Tail(q)[j]
        PROVE  i = j
    <3>1. i + 1 \in 1 .. Len(q) /\ j + 1 \in 1 .. Len(q) /\ q[i + 1] = q[j + 1]
      BY <1>2, <1>3, <2>1
    <3>2. i + 1 = j + 1
      BY <3>1 DEF StoreOK
    <3>. QED  BY <3>2
  <2>. QED  BY <2>1
<1>12. \A i \in 1 .. n : Tail(q)[i] # b
  <2>1. ASSUME NEW i \in 1 .. n, Tail(q)[i] = b
        PROVE  FALSE
    <3>1. i + 1 \in 1 .. Len(q) /\ 1 \in 1 .. Len(q) /\ q[i + 1] = q[1]
      BY <1>2, <1>3, <2>1
    <3>2. i + 1 = 1
      BY <3>1 DEF StoreOK
    <3>. QED  BY <3>2
  <2>. QED  BY <2>1
<1>13. ASSUME NEW w \in InUse(t)
       PROVE  /\ t.id_states[w].offs \in Buffer
              /\ \A i \in 1 .. n : Tail(q)[i] # t.id_states[w].offs
              /\ \A u \in InUse(t) : t.id_states[u].offs = t.id_states[w].offs => u = w
  <2>1. \A u \in InUse(st) : /\ u \in VarId /\ u # v /\ st.id_states[u].offs \in Buffer
                             /\ \A i \in 1 .. n + 1 : q[i] # st.id_states[u].offs
    BY <1>2 DEF StoreOK, InUse
  <2>2. 1 \in 1 .. n + 1 /\ \A i \in 1 .. n : i + 1 \in 1 .. n + 1
    BY <1>2
  <2>3. \A u \in InUse(st) : st.id_states[u].offs # b
    BY <1>3, <2>1, <2>2
  <2>4. CASE w = v
    BY <1>3, <1>6, <1>9, <1>10, <1>12, <2>1, <2>3, <2>4
  <2>5. CASE w \in InUse(st)
    <3>1. t.id_states[w] = st.id_states[w]
      BY <1>9, <2>1, <2>5
    <3>2. \A i \in 1 .. n : Tail(q)[i] # st.id_states[w].offs
      BY <1>3, <2>1, <2>2, <2>5, ZenonT(40)
    <3>3. \A u \in InUse(st) : st.id_states[u].offs = st.id_states[w].offs => u = w
      BY <2>5 DEF StoreOK
    <3>. QED  BY <1>6, <1>9, <1>10, <2>1, <2>3, <2>5, <3>1, <3>2, <3>3
  <2>. QED  BY <1>10, <2>4, <2>5
<1>14. n + Cardinality(InUse(t)) = Cardinality(VarId)
  <2>1. InUse(st) \subseteq VarId /\ IsFiniteSet(VarId)
    BY DEF InUse, ClientAssumption
  <2>2. IsFiniteSet(InUse(st))
    BY <2>1, FS_Subset
  <2>3. Cardinality(InUse(t)) = Cardinality(InUse(st)) + 1 /\ Cardinality(InUse(st)) \in Nat
    BY <1>10, <2>2, FS_AddElement, FS_CardinalityType
  <2>4. (n + 1) + Cardinality(InUse(st)) = Cardinality(VarId)
    BY <1>2 DEF StoreOK
  <2>. QED  BY <2>3, <2>4
<1>15. StoreOK(t)
  <2>1. DOMAIN t.value_buffer = Buffer /\ DOMAIN t.description_buffer = Buffer
    BY <1>8 DEF StoreOK
  <2>2. Len(t.freeList) = n
    BY <1>2, <1>8
  <2>. QED  BY <1>3, <1>8, <1>9, <1>11, <1>13, <1>14, <2>1, <2>2, SMTT(30) DEF StoreOK
<1>16. \A w \in InUse(st) : t.id_states[w] = st.id_states[w]
  BY <1>9 DEF InUse
<1>. QED  BY <1>8, <1>10, <1>15, <1>16 DEF Data, Stamp, t

\* What changes neither identifiers nor the places of their values.
LEMMA PlacesKept ==
    ASSUME NEW st, StoreOK(st), NEW t, DOMAIN t = StoreFields, t.freeList = st.freeList,
           t.id_states \in [VarId -> IdState],
           \A w \in VarId : (t.id_states[w].used <=> st.id_states[w].used)
                            /\ t.id_states[w].offs = st.id_states[w].offs,
           DOMAIN t.value_buffer = Buffer, DOMAIN t.description_buffer = Buffer
    PROVE  StoreOK(t) /\ InUse(t) = InUse(st)
<1>1. InUse(t) = InUse(st)
  BY DEF InUse
<1>2. \A w \in InUse(st) : t.id_states[w].offs = st.id_states[w].offs
  BY DEF InUse
<1>3. /\ t.freeList \in Seq(Buffer)
      /\ \A i, j \in 1 .. Len(t.freeList) : t.freeList[i] = t.freeList[j] => i = j
      /\ Len(t.freeList) + Cardinality(InUse(t)) = Cardinality(VarId)
  BY <1>1 DEF StoreOK
<1>4. ASSUME NEW v \in InUse(t)
      PROVE  /\ t.id_states[v].offs \in Buffer
             /\ \A i \in 1 .. Len(t.freeList) : t.freeList[i] # t.id_states[v].offs
             /\ \A w \in InUse(t) : t.id_states[w].offs = t.id_states[v].offs => w = v
  BY <1>1, <1>2 DEF StoreOK
<1>. QED  BY <1>1, <1>3, <1>4 DEF StoreOK

LEMMA SetEntryOK ==
    ASSUME NEW st, StoreOK(st), NEW v \in VarId, NEW e \in DBEntry
    PROVE  LET t == set_db_entry(st, v, e)
           IN  /\ StoreOK(t) /\ InUse(t) = InUse(st)
               /\ Stamp(t, v) = e.tStamp
               /\ \A w \in VarId : Data(t, w) = Data(st, w)
               /\ \A w \in VarId : w # v => Stamp(t, w) = Stamp(st, w)
<1> DEFINE t == set_db_entry(st, v, e)
<1>1. DOMAIN st = StoreFields /\ st.id_states \in [VarId -> IdState]
  BY DEF StoreOK
<1>2. PICK x : x = [st.id_states[v] EXCEPT !.db_entry = e]
  OBVIOUS
<1>3. /\ x \in IdState /\ (x.used <=> st.id_states[v].used) /\ x.offs = st.id_states[v].offs
      /\ x.db_entry = e
  BY <1>1, <1>2 DEF IdState
<1>4. /\ DOMAIN t = StoreFields /\ t.freeList = st.freeList
      /\ t.id_states = [st.id_states EXCEPT ![v] = x]
      /\ t.value_buffer = st.value_buffer /\ t.description_buffer = st.description_buffer
  BY <1>1, <1>2 DEF StoreFields, set_db_entry
<1> HIDE DEF t
<1>5. t.id_states \in [VarId -> IdState] /\ t.id_states[v] = x
      /\ \A w \in VarId : w # v => t.id_states[w] = st.id_states[w]
  BY <1>1, <1>3, <1>4
<1>6. \A w \in VarId : (t.id_states[w].used <=> st.id_states[w].used)
                       /\ t.id_states[w].offs = st.id_states[w].offs
  BY <1>3, <1>5
<1>7. DOMAIN t.value_buffer = Buffer /\ DOMAIN t.description_buffer = Buffer
  BY <1>4 DEF StoreOK
<1>8. StoreOK(t) /\ InUse(t) = InUse(st)
  BY <1>4, <1>5, <1>6, <1>7, PlacesKept
<1>. QED  BY <1>3, <1>4, <1>5, <1>6, <1>8 DEF Data, Stamp, t

LEMMA UpdateValueOK ==
    ASSUME NEW st, StoreOK(st), NEW v \in InUse(st), NEW new, new.size \in Nat
    PROVE  LET t == update_value(st, v, new)
           IN  /\ StoreOK(t) /\ InUse(t) = InUse(st)
               /\ Data(t, v) = new.data
               /\ \A w \in VarId : Stamp(t, w) = Stamp(st, w)
               /\ \A w \in InUse(st) : w # v => Data(t, w) = Data(st, w)
<1> DEFINE t == update_value(st, v, new)
           b == st.id_states[v].offs
<1>1. DOMAIN st = StoreFields /\ st.id_states \in [VarId -> IdState] /\ v \in VarId
      /\ DOMAIN st.value_buffer = Buffer
  BY DEF StoreOK, InUse
<1>2. b \in Buffer /\ \A w \in InUse(st) : w # v => st.id_states[w].offs # b
  BY DEF StoreOK
<1>3. PICK x : x = [st.id_states[v] EXCEPT !.val_size = new.size]
  OBVIOUS
<1>4. /\ x \in IdState /\ (x.used <=> st.id_states[v].used) /\ x.offs = st.id_states[v].offs
      /\ x.db_entry = st.id_states[v].db_entry
  BY <1>1, <1>3 DEF IdState
<1>5. PICK y : y = [st EXCEPT !.value_buffer[st.id_states[v].offs] = new.data]
  OBVIOUS
<1>6. /\ DOMAIN y = StoreFields /\ y.freeList = st.freeList /\ y.id_states = st.id_states
      /\ y.value_buffer = [st.value_buffer EXCEPT ![b] = new.data]
      /\ y.description_buffer = st.description_buffer
  BY <1>1, <1>5 DEF StoreFields
<1>7. t = [y EXCEPT !.id_states[v].val_size = new.size]
  BY <1>5 DEF update_value
<1>8. /\ DOMAIN t = StoreFields /\ t.freeList = st.freeList
      /\ t.id_states = [st.id_states EXCEPT ![v] = x]
      /\ t.value_buffer = [st.value_buffer EXCEPT ![b] = new.data]
      /\ t.description_buffer = st.description_buffer
  BY <1>1, <1>3, <1>6, <1>7 DEF StoreFields
<1> HIDE DEF t
<1>9. t.id_states \in [VarId -> IdState] /\ t.id_states[v] = x
      /\ \A w \in VarId : w # v => t.id_states[w] = st.id_states[w]
  BY <1>1, <1>4, <1>8
<1>10. \A w \in VarId : /\ t.id_states[w].used <=> st.id_states[w].used
                        /\ t.id_states[w].offs = st.id_states[w].offs
                        /\ t.id_states[w].db_entry = st.id_states[w].db_entry
  BY <1>4, <1>9
<1>11. /\ DOMAIN t.value_buffer = Buffer /\ DOMAIN t.description_buffer = Buffer
       /\ t.value_buffer[b] = new.data
       /\ \A c \in Buffer : c # b => t.value_buffer[c] = st.value_buffer[c]
  BY <1>1, <1>2, <1>8 DEF StoreOK
<1>12. StoreOK(t) /\ InUse(t) = InUse(st)
  BY <1>8, <1>9, <1>10, <1>11, PlacesKept
<1>13. \A w \in InUse(st) : w \in VarId /\ st.id_states[w].offs \in Buffer
  BY DEF StoreOK, InUse
<1>. QED  BY <1>1, <1>2, <1>10, <1>11, <1>12, <1>13 DEF Data, Stamp, t

LEMMA UpdateDescriptionOK ==
    ASSUME NEW st, StoreOK(st), NEW v \in InUse(st), NEW new, new.size \in Nat
    PROVE  LET t == update_description(st, v, new)
           IN  /\ StoreOK(t) /\ InUse(t) = InUse(st)
               /\ \A w \in VarId : Stamp(t, w) = Stamp(st, w) /\ Data(t, w) = Data(st, w)
<1> DEFINE t == update_description(st, v, new)
<1>1. DOMAIN st = StoreFields /\ st.id_states \in [VarId -> IdState] /\ v \in VarId
      /\ DOMAIN st.description_buffer = Buffer
  BY DEF StoreOK, InUse
<1>2. PICK x : x = [st.id_states[v] EXCEPT !.descr_size = new.size]
  OBVIOUS
<1>3. /\ x \in IdState /\ (x.used <=> st.id_states[v].used) /\ x.offs = st.id_states[v].offs
      /\ x.db_entry = st.id_states[v].db_entry
  BY <1>1, <1>2 DEF IdState
<1>4. PICK y : y = [st EXCEPT !.description_buffer[st.id_states[v].offs] = new.data]
  OBVIOUS
<1>5. /\ DOMAIN y = StoreFields /\ y.freeList = st.freeList /\ y.id_states = st.id_states
      /\ y.value_buffer = st.value_buffer
      /\ y.description_buffer = [st.description_buffer EXCEPT ![st.id_states[v].offs] = new.data]
  BY <1>1, <1>4 DEF StoreFields
<1>6. t = [y EXCEPT !.id_states[v].descr_size = new.size]
  BY <1>4 DEF update_description
<1>7. /\ DOMAIN t = StoreFields /\ t.freeList = st.freeList
      /\ t.id_states = [st.id_states EXCEPT ![v] = x]
      /\ t.value_buffer = st.value_buffer
      /\ DOMAIN t.description_buffer = Buffer
  BY <1>1, <1>2, <1>5, <1>6 DEF StoreFields
<1> HIDE DEF t
<1>8. t.id_states \in [VarId -> IdState] /\ t.id_states[v] = x
      /\ \A w \in VarId : w # v => t.id_states[w] = st.id_states[w]
  BY <1>1, <1>3, <1>7
<1>9. \A w \in VarId : /\ t.id_states[w].used <=> st.id_states[w].used
                       /\ t.id_states[w].offs = st.id_states[w].offs
                       /\ t.id_states[w].db_entry = st.id_states[w].db_entry
  BY <1>3, <1>8
<1>10. DOMAIN t.value_buffer = Buffer
  BY <1>7 DEF StoreOK
<1>11. StoreOK(t) /\ InUse(t) = InUse(st)
  BY <1>7, <1>8, <1>9, <1>10, PlacesKept
<1>. QED  BY <1>7, <1>9, <1>11 DEF Data, Stamp, t


(***************************************************************************)
(* What the threads do to the store.                                       *)
(***************************************************************************)
Fits(st, v) == Data(st, v) = <<v, Stamp(st, v)>>

LEMMA EntryTypes ==
    ASSUME StoreOK(variable_store), NEW v \in VarId, NEW i \in Nat
    PROVE  /\ get_db_entry(variable_store, v) \in DBEntry
           /\ [own |-> TRUE, tStamp |-> i, isDeleted |-> FALSE] \in DBEntry
           /\ NoEntry \in DBEntry
           /\ [get_db_entry(variable_store, v) EXCEPT !.tStamp = i] \in DBEntry
           /\ [get_db_entry(variable_store, v) EXCEPT !.tStamp = i].tStamp = i
           /\ [get_db_entry(variable_store, v) EXCEPT !.isDeleted = TRUE] \in DBEntry
           /\ [get_db_entry(variable_store, v) EXCEPT !.isDeleted = TRUE].tStamp
                = Stamp(variable_store, v)
<1>1. variable_store.id_states[v].db_entry \in DBEntry
  BY DEF StoreOK, IdState
<1>2. PICK e \in DBEntry : e = variable_store.id_states[v].db_entry
  BY <1>1
<1>3. /\ [e EXCEPT !.tStamp = i] \in DBEntry /\ [e EXCEPT !.tStamp = i].tStamp = i
      /\ [e EXCEPT !.isDeleted = TRUE] \in DBEntry
      /\ [e EXCEPT !.isDeleted = TRUE].tStamp = e.tStamp
  BY DEF DBEntry
<1>. QED  BY <1>2, <1>3 DEF get_db_entry, Stamp, NoEntry, DBEntry

\* An identifier, allocated if it was not, with a new entry.
LEMMA NewEntry ==
    ASSUME ClientAssumption, StoreOK(variable_store), NEW v \in VarId, NEW e \in DBEntry
    PROVE  LET st == IF identifier_is_allocated(variable_store, v) THEN variable_store
                     ELSE allocate_identifier(variable_store, v)
               t == set_db_entry(st, v, e)
           IN  /\ StoreOK(t) /\ InUse(t) = InUse(variable_store) \cup {v}
               /\ Stamp(t, v) = e.tStamp
               /\ \A w \in InUse(variable_store) : w # v =>
                     Data(t, w) = Data(variable_store, w)
                     /\ Stamp(t, w) = Stamp(variable_store, w)
<1> DEFINE st == IF identifier_is_allocated(variable_store, v) THEN variable_store
                 ELSE allocate_identifier(variable_store, v)
           t == set_db_entry(st, v, e)
<1>1. /\ StoreOK(st) /\ InUse(st) = InUse(variable_store) \cup {v}
      /\ \A w \in InUse(variable_store) : Data(st, w) = Data(variable_store, w)
                                          /\ Stamp(st, w) = Stamp(variable_store, w)
  <2>1. CASE identifier_is_allocated(variable_store, v)
    BY <2>1 DEF identifier_is_allocated, InUse
  <2>2. CASE ~ identifier_is_allocated(variable_store, v)
    <3>1. v \notin InUse(variable_store)
      BY <2>2 DEF identifier_is_allocated, InUse
    <3>. QED  BY <2>2, <3>1, AllocateOK
  <2>. QED  BY <2>1, <2>2
<1>2. \A w \in InUse(variable_store) : w \in VarId
  BY DEF InUse
<1> HIDE DEF st
<1>3. /\ StoreOK(t) /\ InUse(t) = InUse(st) /\ Stamp(t, v) = e.tStamp
      /\ \A w \in VarId : Data(t, w) = Data(st, w)
      /\ \A w \in VarId : w # v => Stamp(t, w) = Stamp(st, w)
  BY <1>1, SetEntryOK
<1>. QED  BY <1>1, <1>2, <1>3 DEF st, t

LEMMA WithEntryOK ==
    ASSUME ClientAssumption, StoreOK(variable_store), NEW r \in Question
    PROVE  /\ StoreOK(WithEntry(r)) /\ InUse(WithEntry(r)) = InUse(variable_store) \cup {r.varId}
           /\ Stamp(WithEntry(r), r.varId) = r.id
           /\ \A w \in InUse(variable_store) : w # r.varId =>
                 Data(WithEntry(r), w) = Data(variable_store, w)
                 /\ Stamp(WithEntry(r), w) = Stamp(variable_store, w)
<1>1. r.varId \in VarId /\ r.id \in Nat
  BY Constants DEF Question
<1>2. PICK e \in DBEntry : e = [own |-> TRUE, tStamp |-> r.id, isDeleted |-> FALSE]
  BY <1>1, EntryTypes
<1>3. e.tStamp = r.id
  BY <1>2
<1>. QED  BY <1>1, <1>2, <1>3, NewEntry DEF WithEntry

\* A value is written with the time of its entry.
LEMMA WrittenOK ==
    ASSUME NEW st, StoreOK(st), NEW v \in InUse(st), NEW i, Stamp(st, v) = i,
           NEW n \in Nat, \A w \in InUse(st) : w # v => Fits(st, w)
    PROVE  LET t == update_value(st, v, [size |-> n, data |-> <<v, i>>])
           IN  StoreOK(t) /\ \A w \in InUse(t) : Fits(t, w)
<1>1. PICK new : new = [size |-> n, data |-> <<v, i>>]
  OBVIOUS
<1>2. new.size \in Nat /\ new.data = <<v, i>>
  BY <1>1
<1>3. \A w \in InUse(st) : w \in VarId
  BY DEF InUse
<1>4. PICK t : t = update_value(st, v, new)
  OBVIOUS
<1>5. /\ StoreOK(t) /\ InUse(t) = InUse(st) /\ Data(t, v) = new.data
      /\ \A w \in VarId : Stamp(t, w) = Stamp(st, w)
      /\ \A w \in InUse(st) : w # v => Data(t, w) = Data(st, w)
  BY <1>2, <1>4, UpdateValueOK, ZenonT(40)
<1>6. \A w \in InUse(t) : Fits(t, w)
  BY <1>2, <1>3, <1>5 DEF Fits
<1>. QED  BY <1>1, <1>4, <1>5, <1>6

LEMMA HandlerOK ==
    ASSUME ClientAssumption, StoreOK(variable_store), NEW r \in Question,
           \A v \in InUse(variable_store) : Fits(variable_store, v)
    PROVE  StoreOK(HandlerEffect(r)) /\ \A v \in InUse(HandlerEffect(r)) : Fits(HandlerEffect(r), v)
<1> DEFINE v == r.varId
           entry == get_db_entry(variable_store, v)
<1>1. v \in VarId /\ r.id \in Nat /\ r.size \in Nat /\ r.descr \in Nat /\ r.op \in Services
  BY Constants DEF Question
<1>2. ValueOf(r) = [size |-> r.size, data |-> <<v, r.id>>]
  BY DEF ValueOf
<1>3. CASE HandlerStatus(r) # "OK"
  BY <1>3 DEF HandlerEffect
<1>4. CASE HandlerStatus(r) = "OK" /\ r.op = "Create"
  <2>1. PICK st : st = WithEntry(r)
    OBVIOUS
  <2>2. /\ StoreOK(st) /\ InUse(st) = InUse(variable_store) \cup {v} /\ Stamp(st, v) = r.id
        /\ \A w \in InUse(variable_store) : w # v =>
              Data(st, w) = Data(variable_store, w) /\ Stamp(st, w) = Stamp(variable_store, w)
    BY <2>1, WithEntryOK
  <2>3. PICK d : d = DescriptionOf(r)
    OBVIOUS
  <2>4. d.size \in Nat
    BY <1>1, <2>3 DEF DescriptionOf
  <2>5. PICK t : t = update_description(st, v, d)
    OBVIOUS
  <2>6. v \in InUse(st)
    BY <2>2
  <2>7. /\ StoreOK(t) /\ InUse(t) = InUse(st)
        /\ \A w \in VarId : Stamp(t, w) = Stamp(st, w) /\ Data(t, w) = Data(st, w)
    BY <2>2, <2>4, <2>5, <2>6, UpdateDescriptionOK
  <2>8. \A w \in InUse(t) : w # v => w \in VarId /\ w \in InUse(variable_store)
    BY <2>2, <2>7 DEF InUse
  <2>9. \A w \in InUse(t) : w # v => Fits(t, w)
    BY <2>2, <2>7, <2>8 DEF Fits
  <2>10. v \in InUse(t) /\ Stamp(t, v) = r.id
    BY <1>1, <2>2, <2>6, <2>7
  <2>11. HandlerEffect(r) = update_value(t, v, [size |-> r.size, data |-> <<v, r.id>>])
    BY <1>2, <1>4, <2>1, <2>3, <2>5 DEF HandlerEffect
  <2>. QED  BY <1>1, <2>7, <2>9, <2>10, <2>11, WrittenOK
<1>5. CASE HandlerStatus(r) = "OK" /\ r.op # "Create"
  <2>1. v \in InUse(variable_store)
    BY <1>1, <1>5 DEF HandlerStatus, identifier_is_allocated, InUse
  <2>2. CASE r.op = "Update"
    <3>1. PICK e \in DBEntry : e = [entry EXCEPT !.tStamp = r.id]
      BY <1>1, EntryTypes
    <3>2. e.tStamp = r.id
      BY <1>1, <3>1, EntryTypes
    <3>3. PICK st : st = set_db_entry(variable_store, v, e)
      OBVIOUS
    <3>4. /\ StoreOK(st) /\ InUse(st) = InUse(variable_store) /\ Stamp(st, v) = e.tStamp
          /\ \A w \in VarId : Data(st, w) = Data(variable_store, w)
          /\ \A w \in VarId : w # v => Stamp(st, w) = Stamp(variable_store, w)
      BY <1>1, <3>3, SetEntryOK
    <3>5. \A w \in InUse(st) : w # v => Fits(st, w)
      BY <3>4 DEF Fits, InUse
    <3>6. HandlerEffect(r) = update_value(st, v, [size |-> r.size, data |-> <<v, r.id>>])
      BY <1>2, <1>5, <2>2, <3>1, <3>3 DEF HandlerEffect
    <3>7. v \in InUse(st) /\ Stamp(st, v) = r.id
      BY <2>1, <3>2, <3>4
    <3>. QED  BY <1>1, <3>4, <3>5, <3>6, <3>7, WrittenOK
  <2>3. CASE r.op # "Update"
    <3>1. PICK e \in DBEntry : e = [entry EXCEPT !.isDeleted = TRUE]
      BY <1>1, EntryTypes
    <3>2. e.tStamp = Stamp(variable_store, v)
      BY <1>1, <3>1, EntryTypes
    <3>3. PICK st : st = set_db_entry(variable_store, v, e)
      OBVIOUS
    <3>4. /\ StoreOK(st) /\ InUse(st) = InUse(variable_store) /\ Stamp(st, v) = e.tStamp
          /\ \A w \in VarId : Data(st, w) = Data(variable_store, w)
          /\ \A w \in VarId : w # v => Stamp(st, w) = Stamp(variable_store, w)
      BY <1>1, <3>3, SetEntryOK
    <3>5. \A w \in InUse(st) : Fits(st, w)
      BY <3>2, <3>4 DEF Fits, InUse
    <3>6. HandlerEffect(r) = st
      BY <1>5, <2>3, <3>1, <3>3 DEF HandlerEffect
    <3>. QED  BY <3>4, <3>5, <3>6
  <2>. QED  BY <2>2, <2>3
<1>. QED  BY <1>3, <1>4, <1>5

LEMMA OtherThreadsOK ==
    ASSUME ClientAssumption, StoreOK(variable_store), NEW v \in VarId,
           CreateOther(v) \/ MarkDeleted(v),
           \A w \in InUse(variable_store) : Fits(variable_store, w)
    PROVE  StoreOK(variable_store') /\ \A w \in InUse(variable_store') : Fits(variable_store', w)
<1>1. CASE CreateOther(v)
  <2>1. NoEntry \in DBEntry /\ NoEntry.tStamp = 0
    <3>1. 0 \in Nat
      OBVIOUS
    <3>. QED  BY <3>1, EntryTypes DEF NoEntry
  <2>2. PICK st : st = IF identifier_is_allocated(variable_store, v) THEN variable_store
                       ELSE allocate_identifier(variable_store, v)
    OBVIOUS
  <2>3. PICK t : t = set_db_entry(st, v, NoEntry)
    OBVIOUS
  <2>4. /\ StoreOK(t) /\ InUse(t) = InUse(variable_store) \cup {v}
        /\ Stamp(t, v) = NoEntry.tStamp
        /\ \A w \in InUse(variable_store) : w # v =>
              Data(t, w) = Data(variable_store, w) /\ Stamp(t, w) = Stamp(variable_store, w)
    BY <2>1, <2>2, <2>3, NewEntry
  <2>5. \A w \in InUse(t) : w # v => Fits(t, w)
    BY <2>4 DEF Fits
  <2>6. variable_store' = update_value(t, v, [size |-> 1, data |-> <<v, NoEntry.tStamp>>])
    BY <1>1, <2>2, <2>3 DEF CreateOther
  <2>7. v \in InUse(t) /\ 1 \in Nat
    BY <2>4
  <2>. QED  BY <2>4, <2>5, <2>6, <2>7, WrittenOK
<1>2. CASE MarkDeleted(v)
  <2>1. PICK e \in DBEntry : e = [get_db_entry(variable_store, v) EXCEPT !.isDeleted = TRUE]
    <3>1. 0 \in Nat
      OBVIOUS
    <3>. QED  BY <3>1, EntryTypes
  <2>2. e.tStamp = Stamp(variable_store, v)
    <3>1. 0 \in Nat
      OBVIOUS
    <3>. QED  BY <2>1, <3>1, EntryTypes
  <2>3. PICK st : st = set_db_entry(variable_store, v, e)
    OBVIOUS
  <2>4. /\ StoreOK(st) /\ InUse(st) = InUse(variable_store) /\ Stamp(st, v) = e.tStamp
        /\ \A w \in VarId : Data(st, w) = Data(variable_store, w)
        /\ \A w \in VarId : w # v => Stamp(st, w) = Stamp(variable_store, w)
    BY <2>3, SetEntryOK
  <2>5. \A w \in InUse(st) : Fits(st, w)
    BY <2>2, <2>4 DEF Fits, InUse
  <2>6. variable_store' = st
    BY <1>2, <2>1, <2>3 DEF MarkDeleted
  <2>. QED  BY <2>4, <2>5, <2>6
<1>. QED  BY <1>1, <1>2


(***************************************************************************)
(* Sequences, queues and segments.                                         *)
(***************************************************************************)
\* The first of the names that the rtdb thread has yet to visit is one of them.
LEMMA MinIsIn ==
    ASSUME NEW S, S \subseteq Nat, S # {}
    PROVE  Min(S) \in S
<1> DEFINE less == {p \in Nat \X Nat : p[1] < p[2]}
<1>1. \E x \in S : \A y \in S : ~ (<<y, x>> \in less)
  <2>1. IsWellFoundedOn(less, Nat)
    BY NatLessThanWellFounded DEF OpToRel
  <2>2. S \subseteq Nat /\ S # {}
    OBVIOUS
  <2> HIDE DEF less
  <2>. QED  BY <2>1, <2>2, WFMin
<1>2. PICK n \in S : \A y \in S : ~ (<<y, n>> \in less)
  BY <1>1
<1>3. \A y \in S : n <= y
  <2>1. ASSUME NEW y \in S  PROVE n <= y
    <3>1. y \in Nat /\ n \in Nat /\ <<y, n>> \notin less
      BY <1>2
    <3>2. <<y, n>> \in less <=> y < n
      BY <3>1
    <3>. QED  BY <3>1, <3>2
  <2>. QED  BY <2>1
<1>. QED  BY <1>3 DEF Min

\* A sequence, made of the parts of another one.
LEMMA SequenceOf ==
    ASSUME NEW n \in Nat, NEW q, DOMAIN q = 1 .. n, q = [i \in 1 .. n |-> q[i]]
    PROVE  IsSequence(q) /\ Len(q) = n
<1> DEFINE T == {q[i] : i \in 1 .. n}
<1>1. q \in [1 .. n -> T]
  OBVIOUS
<1>2. q \in Seq(T)
  BY <1>1, SeqDef
<1>3. Len(q) = n
  BY <1>1
<1>. QED  BY <1>2, <1>3 DEF IsSequence

LEMMA SequenceIs ==
    ASSUME NEW q, IsSequence(q)
    PROVE  Len(q) \in Nat /\ DOMAIN q = 1 .. Len(q) /\ q = [i \in 1 .. Len(q) |-> q[i]]
<1> DEFINE T == {q[i] : i \in 1 .. Len(q)}
<1>1. q \in Seq(T)
  BY DEF IsSequence
<1> HIDE DEF T
<1>2. Len(q) \in Nat /\ q \in [1 .. Len(q) -> T] /\ DOMAIN q = 1 .. Len(q)
  BY <1>1, LenProperties
<1>. QED  BY <1>2

Replaced(q, i, x, t) == t = [q EXCEPT ![i] = x]

LEMMA SequenceReplaced ==
    ASSUME NEW q, NEW i, NEW x, NEW t, IsSequence(q), i \in 1 .. Len(q), Replaced(q, i, x, t)
    PROVE  /\ IsSequence(t) /\ Len(t) = Len(q) /\ t[i] = x
           /\ \A j \in 1 .. Len(q) : j # i => t[j] = q[j]
<1>1. Len(q) \in Nat /\ DOMAIN q = 1 .. Len(q) /\ q = [k \in 1 .. Len(q) |-> q[k]]
  BY SequenceIs
<1>2. t = [q EXCEPT ![i] = x]
  BY DEF Replaced
<1>3. /\ DOMAIN t = 1 .. Len(q) /\ t = [k \in 1 .. Len(q) |-> t[k]] /\ t[i] = x
      /\ \A j \in 1 .. Len(q) : j # i => t[j] = q[j]
  BY <1>1, <1>2
<1>4. IsSequence(t) /\ Len(t) = Len(q)
  BY <1>1, <1>3, SequenceOf
<1>. QED  BY <1>3, <1>4

LEMMA SequenceAppend ==
    ASSUME NEW q, IsSequence(q), NEW x
    PROVE  /\ IsSequence(Append(q, x)) /\ Len(Append(q, x)) = Len(q) + 1
           /\ Append(q, x)[Len(q) + 1] = x
           /\ \A j \in 1 .. Len(q) : Append(q, x)[j] = q[j]
<1> DEFINE T == {q[i] : i \in 1 .. Len(q)} \cup {x}
           t == Append(q, x)
<1>1. q \in Seq(T) /\ x \in T
  <2>1. q \in Seq({q[i] : i \in 1 .. Len(q)})
    BY DEF IsSequence
  <2>. QED  BY <2>1, SeqMonotonic
<1> HIDE DEF T
<1>2. /\ t \in Seq(T) /\ Len(t) = Len(q) + 1 /\ t[Len(q) + 1] = x
      /\ \A j \in 1 .. Len(q) : t[j] = q[j]
  BY <1>1, AppendProperties
<1> HIDE DEF t
<1>3. Len(t) \in Nat /\ DOMAIN t = 1 .. Len(t) /\ t = [i \in 1 .. Len(t) |-> t[i]]
  BY <1>2, LenProperties
<1>4. IsSequence(t)
  BY <1>3, SequenceOf
<1>. QED  BY <1>2, <1>4 DEF t


\* One queue of a segment has changed, or what is said about the segment.
ReqSet(segs, t, s, svc, q) ==
    /\ t \in Seq(Segment) /\ Len(t) = Len(segs)
    /\ \A r \in 1 .. Len(segs) : r # s => t[r] = segs[r]
    /\ t[s].maker = segs[s].maker /\ t[s].disturbed = segs[s].disturbed
    /\ t[s].conf = segs[s].conf /\ t[s].req[svc] = q
    /\ \A other \in Services : other # svc => t[s].req[other] = segs[s].req[other]

ConfSet(segs, t, s, svc, q) ==
    /\ t \in Seq(Segment) /\ Len(t) = Len(segs)
    /\ \A r \in 1 .. Len(segs) : r # s => t[r] = segs[r]
    /\ t[s].maker = segs[s].maker /\ t[s].disturbed = segs[s].disturbed
    /\ t[s].req = segs[s].req /\ t[s].conf[svc] = q
    /\ \A other \in Services : other # svc => t[s].conf[other] = segs[s].conf[other]

DisturbedSet(segs, t, s, b) ==
    /\ t \in Seq(Segment) /\ Len(t) = Len(segs)
    /\ \A r \in 1 .. Len(segs) : r # s => t[r] = segs[r]
    /\ t[s].maker = segs[s].maker /\ t[s].disturbed = b
    /\ t[s].req = segs[s].req /\ t[s].conf = segs[s].conf

LEMMA ReqSetOK ==
    ASSUME NEW segs \in Seq(Segment), NEW s \in 1 .. Len(segs), NEW svc \in Services,
           NEW q \in QueueOf(Question)
    PROVE  ReqSet(segs, [segs EXCEPT ![s].req[svc] = q], s, svc, q)
<1>1. segs[s] \in Segment
  BY ElementOfSeq
<1>2. PICK x : x = [segs[s] EXCEPT !.req[svc] = q]
  OBVIOUS
<1>3. /\ x \in Segment /\ x.maker = segs[s].maker /\ x.disturbed = segs[s].disturbed
      /\ x.conf = segs[s].conf /\ x.req[svc] = q
      /\ \A other \in Services : other # svc => x.req[other] = segs[s].req[other]
  BY <1>1, <1>2 DEF Segment
<1>4. [segs EXCEPT ![s].req[svc] = q] = [segs EXCEPT ![s] = x]
  BY <1>2
<1>5. PICK t : t = [segs EXCEPT ![s] = x]
  OBVIOUS
<1>6. /\ t \in Seq(Segment) /\ Len(t) = Len(segs)
      /\ \A j \in 1 .. Len(segs) : t[j] = IF j = s THEN x ELSE segs[j]
  BY <1>3, <1>5, ExceptSeq
<1>7. t[s] = x /\ \A r \in 1 .. Len(segs) : r # s => t[r] = segs[r]
  BY <1>6
<1>. QED  BY <1>3, <1>4, <1>5, <1>6, <1>7, ZenonT(40) DEF ReqSet

LEMMA ConfSetOK ==
    ASSUME NEW segs \in Seq(Segment), NEW s \in 1 .. Len(segs), NEW svc \in Services,
           NEW q \in QueueOf(Reply)
    PROVE  ConfSet(segs, [segs EXCEPT ![s].conf[svc] = q], s, svc, q)
<1>1. segs[s] \in Segment
  BY ElementOfSeq
<1>2. PICK x : x = [segs[s] EXCEPT !.conf[svc] = q]
  OBVIOUS
<1>3. /\ x \in Segment /\ x.maker = segs[s].maker /\ x.disturbed = segs[s].disturbed
      /\ x.req = segs[s].req /\ x.conf[svc] = q
      /\ \A other \in Services : other # svc => x.conf[other] = segs[s].conf[other]
  BY <1>1, <1>2 DEF Segment
<1>4. [segs EXCEPT ![s].conf[svc] = q] = [segs EXCEPT ![s] = x]
  BY <1>2
<1>5. PICK t : t = [segs EXCEPT ![s] = x]
  OBVIOUS
<1>6. /\ t \in Seq(Segment) /\ Len(t) = Len(segs)
      /\ \A j \in 1 .. Len(segs) : t[j] = IF j = s THEN x ELSE segs[j]
  BY <1>3, <1>5, ExceptSeq
<1>7. t[s] = x /\ \A r \in 1 .. Len(segs) : r # s => t[r] = segs[r]
  BY <1>6
<1>. QED  BY <1>3, <1>4, <1>5, <1>6, <1>7, ZenonT(40) DEF ConfSet

LEMMA DisturbedSetOK ==
    ASSUME NEW segs \in Seq(Segment), NEW s \in 1 .. Len(segs), NEW b \in BOOLEAN
    PROVE  DisturbedSet(segs, [segs EXCEPT ![s].disturbed = b], s, b)
<1>1. segs[s] \in Segment
  BY ElementOfSeq
<1>2. PICK x : x = [segs[s] EXCEPT !.disturbed = b]
  OBVIOUS
<1>3. /\ x \in Segment /\ x.maker = segs[s].maker /\ x.disturbed = b
      /\ x.req = segs[s].req /\ x.conf = segs[s].conf
  BY <1>1, <1>2 DEF Segment
<1>4. [segs EXCEPT ![s].disturbed = b] = [segs EXCEPT ![s] = x]
  BY <1>2
<1>5. PICK t : t = [segs EXCEPT ![s] = x]
  OBVIOUS
<1>6. /\ t \in Seq(Segment) /\ Len(t) = Len(segs)
      /\ \A j \in 1 .. Len(segs) : t[j] = IF j = s THEN x ELSE segs[j]
  BY <1>3, <1>5, ExceptSeq
<1>7. t[s] = x /\ \A r \in 1 .. Len(segs) : r # s => t[r] = segs[r]
  BY <1>6
<1>. QED  BY <1>3, <1>4, <1>5, <1>6, <1>7 DEF DisturbedSet

\* What the operations on a queue give.
LEMMA PushOK ==
    ASSUME NEW S, NEW q \in QueueOf(S), NEW x \in S
    PROVE  /\ Push(q, x) \in QueueOf(S) /\ Push(q, x).items = Append(q.items, x)
           /\ Push(q, x).has_data /\ q.items \in Seq(S)
<1>1. q.items \in Seq(S) /\ Append(q.items, x) \in Seq(S)
  BY AppendProperties DEF QueueOf
<1>2. PICK y : y = [q EXCEPT !.items = Append(q.items, x)]
  OBVIOUS
<1>3. y \in QueueOf(S) /\ y.items = Append(q.items, x)
  BY <1>1, <1>2 DEF QueueOf
<1>4. Push(q, x) = [y EXCEPT !.has_data = TRUE]
  BY <1>2 DEF Push
<1>. QED  BY <1>1, <1>3, <1>4 DEF QueueOf

LEMMA TakeOK ==
    ASSUME NEW S, NEW q \in QueueOf(S), q.items # <<>>
    PROVE  LET t == [q EXCEPT !.items = Tail(@)]
           IN  t \in QueueOf(S) /\ t.items = Tail(q.items) /\ Head(q.items) \in S
<1>1. q.items \in Seq(S) /\ Tail(q.items) \in Seq(S) /\ Head(q.items) \in S
  BY HeadTailProperties DEF QueueOf
<1>. QED  BY <1>1 DEF QueueOf

LEMMA PopOK ==
    ASSUME NEW S, NEW q \in QueueOf(S), q.items # <<>>
    PROVE  /\ Pop(q) \in QueueOf(S) /\ Pop(q).items = Tail(q.items) /\ Head(q.items) \in S
           /\ Tail(q.items) = <<>> => ~ Pop(q).has_data
<1>1. PICK y : y = [q EXCEPT !.items = Tail(@)]
  OBVIOUS
<1>2. y \in QueueOf(S) /\ y.items = Tail(q.items) /\ Head(q.items) \in S
  BY <1>1, TakeOK
<1>3. PICK b \in BOOLEAN : b = (Tail(q.items) # <<>>)
  OBVIOUS
<1>4. Pop(q) = [y EXCEPT !.has_data = b]
  BY <1>1, <1>3 DEF Pop
<1>. QED  BY <1>2, <1>3, <1>4 DEF QueueOf

LEMMA ResetOK ==
    ASSUME NEW S, NEW q \in QueueOf(S)
    PROVE  Reset(q) \in QueueOf(S) /\ Reset(q).items = <<>> /\ Reset(q).has_data = q.has_data
<1>1. PICK e : e = <<>>
  OBVIOUS
<1>2. e \in Seq(S)
  BY <1>1, EmptySeq
<1>3. Reset(q) = [q EXCEPT !.items = e]
  BY <1>1 DEF Reset
<1>. QED  BY <1>1, <1>2, <1>3 DEF QueueOf

LEMMA FlagsOK ==
    ASSUME NEW S, NEW q \in QueueOf(S)
    PROVE  /\ [q EXCEPT !.has_data = FALSE] \in QueueOf(S)
           /\ [q EXCEPT !.has_data = FALSE].items = q.items
           /\ [q EXCEPT !.locked = TRUE] \in QueueOf(S)
           /\ [q EXCEPT !.locked = TRUE].items = q.items
           /\ [q EXCEPT !.locked = TRUE].has_data = q.has_data
BY DEF QueueOf


(***************************************************************************)
(* Where the rtdb thread is, and what becomes of an application.           *)
(***************************************************************************)
LEMMA ServiceNames == Services = {"Create", "Delete", "Update"} /\ Len(Service) = 3
<1>1. Len(Service) = 3
  BY DEF Service
<1>2. Services = {Service[i] : i \in {1, 2, 3}}
  BY <1>1 DEF Services
<1>. QED  BY <1>1, <1>2 DEF Service

LEMMA TheQueues ==
    ASSUME ClientAssumption, ThreadsOK, SegmentsOK, pc["rtdb"] \in {"queue", "drain"}
    PROVE  /\ TheName \in todo /\ TheName \in Name /\ TheSegment \in 1 .. Len(segments)
           /\ TheService \in Services
           /\ TheRequests \in QueueOf(Question) /\ TheConfirms \in QueueOf(Reply)
<1>1. todo # {} /\ todo \subseteq Registered
  BY DEF ThreadsOK
<1>2. todo \subseteq Nat
  BY <1>1, Constants DEF Registered
<1>3. TheName \in todo
  BY <1>1, <1>2, MinIsIn DEF TheName
<1>4. TheName \in Name /\ clientApplications[TheName] # NoSegment
  BY <1>1, <1>3 DEF Registered
<1>5. TheSegment \in 1 .. Len(segments)
  <2>1. TheSegment \in 0 .. Len(segments) /\ TheSegment # 0
    BY <1>4 DEF ThreadsOK, TheSegment, NoSegment
  <2>2. Len(segments) \in Nat
    BY LenProperties DEF SegmentsOK
  <2>. QED  BY <2>1, <2>2
<1>6. TheService \in Services
  <2>1. service \in 1 .. Len(Service)
    BY ServiceNames DEF ThreadsOK
  <2>. QED  BY <2>1 DEF TheService, Services
<1>7. segments[TheSegment] \in Segment
  BY <1>5, ElementOfSeq DEF SegmentsOK
<1>. QED  BY <1>3, <1>4, <1>5, <1>6, <1>7 DEF Segment, TheRequests, TheConfirms

\* Of the applications only c has changed.
OnlyOne(c) ==
    DOMAIN app' = Client /\ DOMAIN app'[c] = AppFields /\ \A d \in Client : d # c => app'[d] = app[d]

Same(c) ==
    /\ app'[c].segment = app[c].segment /\ app'[c].call = app[c].call
    /\ app'[c].value = app[c].value /\ app'[c].answer = app[c].answer

LEMMA UpdateOK ==
    ASSUME AppsOK, NEW c \in Client, NEW x, DOMAIN x = AppFields, Update(c, x)
    PROVE  OnlyOne(c) /\ app'[c] = x
<1>1. app' = [app EXCEPT ![c] = x] /\ DOMAIN app = Client
  BY DEF Update, AppsOK
<1>. QED  BY <1>1 DEF OnlyOne

LEMMA GotoOK ==
    ASSUME AppsOK, NEW c \in Client, NEW w, AppGoto(c, w)
    PROVE  OnlyOne(c) /\ app'[c].pc = w /\ Same(c)
<1>1. PICK x : x = [app[c] EXCEPT !.pc = w]
  OBVIOUS
<1>2. DOMAIN x = AppFields /\ x.pc = w /\ x.segment = app[c].segment /\ x.call = app[c].call
      /\ x.value = app[c].value /\ x.answer = app[c].answer
  BY <1>1 DEF AppsOK, AppFields
<1>3. Update(c, x)
  BY <1>1 DEF AppGoto
<1>4. OnlyOne(c) /\ app'[c] = x
  BY <1>2, <1>3, UpdateOK
<1>. QED  BY <1>2, <1>4 DEF Same

LEMMA AnswerOK ==
    ASSUME AppsOK, NEW c \in Client, NEW x, Update(c, Answer(c, x))
    PROVE  /\ OnlyOne(c) /\ app'[c].pc = "on" /\ app'[c].answer = x
           /\ app'[c].segment = app[c].segment /\ app'[c].call = app[c].call
<1>1. PICK y : y = [app[c] EXCEPT !.pc = "on"]
  OBVIOUS
<1>2. DOMAIN y = AppFields /\ y.pc = "on" /\ y.segment = app[c].segment /\ y.call = app[c].call
  BY <1>1 DEF AppsOK, AppFields
<1>3. PICK z : z = [y EXCEPT !.answer = x]
  OBVIOUS
<1>4. DOMAIN z = AppFields /\ z.pc = "on" /\ z.segment = app[c].segment /\ z.call = app[c].call
      /\ z.answer = x
  BY <1>2, <1>3 DEF AppFields
<1>5. Update(c, z)
  BY <1>1, <1>3 DEF Answer
<1>6. OnlyOne(c) /\ app'[c] = z
  BY <1>4, <1>5, UpdateOK
<1>. QED  BY <1>4, <1>6

\* What an application does that asks for a variable, or begins to read one.
LEMMA AskingOK ==
    ASSUME AppsOK, NEW c \in Client, NEW w, NEW x,
           Update(c, [app[c] EXCEPT !.pc = w, !.call = x, !.answer = NoAnswer])
    PROVE  /\ OnlyOne(c) /\ app'[c].pc = w /\ app'[c].answer = NoAnswer
           /\ app'[c].segment = app[c].segment /\ app'[c].call = x
<1>1. PICK y : y = [app[c] EXCEPT !.pc = w]
  OBVIOUS
<1>2. DOMAIN y = AppFields /\ y.pc = w /\ y.segment = app[c].segment
  BY <1>1 DEF AppsOK, AppFields
<1>3. PICK z : z = [y EXCEPT !.call = x]
  OBVIOUS
<1>4. DOMAIN z = AppFields /\ z.pc = w /\ z.segment = app[c].segment /\ z.call = x
  BY <1>2, <1>3 DEF AppFields
<1>5. PICK a : a = [z EXCEPT !.answer = NoAnswer]
  OBVIOUS
<1>6. DOMAIN a = AppFields /\ a.pc = w /\ a.segment = app[c].segment /\ a.call = x
      /\ a.answer = NoAnswer
  BY <1>4, <1>5 DEF AppFields
<1>7. Update(c, a)
  BY <1>1, <1>3, <1>5
<1>8. OnlyOne(c) /\ app'[c] = a
  BY <1>6, <1>7, UpdateOK
<1>. QED  BY <1>6, <1>8

LEMMA ReadingOK ==
    ASSUME AppsOK, NEW c \in Client, NEW w, NEW x, NEW v,
           Update(c, [app[c] EXCEPT !.pc = w, !.call = x, !.answer = NoAnswer, !.value = v])
    PROVE  /\ OnlyOne(c) /\ app'[c].pc = w /\ app'[c].answer = NoAnswer
           /\ app'[c].segment = app[c].segment /\ app'[c].call = x /\ app'[c].value = v
<1>1. PICK y : y = [app[c] EXCEPT !.pc = w]
  OBVIOUS
<1>2. DOMAIN y = AppFields /\ y.pc = w /\ y.segment = app[c].segment
  BY <1>1 DEF AppsOK, AppFields
<1>3. PICK z : z = [y EXCEPT !.call = x]
  OBVIOUS
<1>4. DOMAIN z = AppFields /\ z.pc = w /\ z.segment = app[c].segment /\ z.call = x
  BY <1>2, <1>3 DEF AppFields
<1>5. PICK a : a = [z EXCEPT !.answer = NoAnswer]
  OBVIOUS
<1>6. DOMAIN a = AppFields /\ a.pc = w /\ a.segment = app[c].segment /\ a.call = x
      /\ a.answer = NoAnswer
  BY <1>4, <1>5 DEF AppFields
<1>7. PICK b : b = [a EXCEPT !.value = v]
  OBVIOUS
<1>8. DOMAIN b = AppFields /\ b.pc = w /\ b.segment = app[c].segment /\ b.call = x
      /\ b.answer = NoAnswer /\ b.value = v
  BY <1>6, <1>7 DEF AppFields
<1>9. Update(c, b)
  BY <1>1, <1>3, <1>5, <1>7
<1>10. OnlyOne(c) /\ app'[c] = b
  BY <1>8, <1>9, UpdateOK
<1>. QED  BY <1>8, <1>10


(***************************************************************************)
(* What the actions of an application do.                                  *)
(***************************************************************************)
LEMMA ApplicationKeeps ==
    ASSUME NEW c \in Client, Application(c)
    PROVE  UNCHANGED <<vardis_exitFlag, clientApplications, shm, pc, ca_mutex, todo, service,
                       variable_store, carried, scenario>>
<1>. USE DEF SocketCallKeeps, QueueCallKeeps, DaemonKeeps, daemonVars, threadVars, storeVars,
             callVars
<1>1. CASE Connect(c) \/ SendRequest(c) \/ ReadResponse(c) \/ LeaveAfterShutdown(c)
  BY <1>1 DEF Connect, SendRequest, ReadResponse, LeaveAfterShutdown
<1>2. CASE Attach(c) \/ GiveUp(c) \/ WaitToPush(c) \/ WaitToPop(c)
  BY <1>2 DEF Attach, GiveUp, WaitToPush, WaitToPop
<1>3. CASE RtdbCall(c)
  BY <1>3 DEF RtdbCall
<1>4. CASE PushRequest(c)
  BY <1>4 DEF PushRequest
<1>5. CASE PopConfirm(c)
  BY <1>5, SMTT(30) DEF PopConfirm
<1>6. CASE Timeout(c) \/ DieInQueue(c)
  BY <1>6 DEF Timeout, DieInQueue
<1>7. CASE ReadValue(c)
  BY <1>7 DEF ReadValue
<1>8. CASE ReadEntry(c)
  BY <1>8 DEF ReadEntry
<1>9. CASE DieReading(c)
  BY <1>9 DEF DieReading
<1>. QED  BY <1>1, <1>2, <1>3, <1>4, <1>5, <1>6, <1>7, <1>8, <1>9 DEF Application

\* At the socket.
Asking == {"opening", "asking", "closing", "leaving"}

SocketMove(c) == Connect(c) \/ SendRequest(c) \/ ReadResponse(c) \/ LeaveAfterShutdown(c) \/ GiveUp(c)

LEMMA SocketMoveOK ==
    ASSUME AppsOK, NEW c \in Client, SocketMove(c)
    PROVE  /\ OnlyOne(c) /\ UNCHANGED <<segments, issued, store_mutex>>
           /\ app[c].pc \in {"off", "on", "attaching", "pop_waiting"} \cup Asking
           /\ app'[c].pc \in {"off", "attaching"} \cup Asking
           /\ app'[c].pc \in {"opening", "asking", "attaching"} =>
                 app'[c].call = NoCall /\ app'[c].answer = NoAnswer
<1>1. /\ UNCHANGED <<segments, issued, store_mutex>>
      /\ app[c].pc \in {"off", "on", "attaching", "pop_waiting"} \cup Asking
  BY DEF SocketMove, Connect, SendRequest, ReadResponse, LeaveAfterShutdown, GiveUp,
         SocketCallKeeps, storeVars, callVars, Asking
<1>2. ASSUME NEW w, AppGoto(c, w), w \in {"off"} \cup Asking,
             w \in {"opening", "asking"} => app[c].pc \in {"opening", "asking", "attaching"}
      PROVE  /\ OnlyOne(c) /\ app'[c].pc \in {"off", "attaching"} \cup Asking
             /\ app'[c].pc \in {"opening", "asking", "attaching"} =>
                   app'[c].call = NoCall /\ app'[c].answer = NoAnswer
  <2>1. OnlyOne(c) /\ app'[c].pc = w /\ Same(c)
    BY <1>2, GotoOK
  <2>2. CASE w \in {"opening", "asking"}
    <3>1. app[c].call = NoCall /\ app[c].answer = NoAnswer
      BY <1>2, <2>2 DEF AppsOK
    <3>. QED  BY <1>2, <2>1, <3>1 DEF Same
  <2>3. CASE w \notin {"opening", "asking"}
    BY <1>2, <2>1, <2>3 DEF Asking
  <2>. QED  BY <2>2, <2>3
<1>3. CASE Connect(c)
  <2>1. CASE Update(c, [NewApp(app[c].lives + 1) EXCEPT !.pc = "opening"])
    <3>1. PICK x : x = [NewApp(app[c].lives + 1) EXCEPT !.pc = "opening"]
      OBVIOUS
    <3>2. DOMAIN x = AppFields /\ x.pc = "opening" /\ x.call = NoCall /\ x.answer = NoAnswer
      BY <3>1 DEF NewApp, AppFields
    <3>3. OnlyOne(c) /\ app'[c] = x
      BY <2>1, <3>1, <3>2, UpdateOK
    <3>. QED  BY <1>1, <3>2, <3>3 DEF Asking
  <2>2. CASE AppGoto(c, "closing")
    BY <1>1, <1>2, <2>2 DEF Asking
  <2>. QED  BY <1>3, <2>1, <2>2 DEF Connect
<1>4. CASE SendRequest(c)
  <2>1. CASE app[c].pc = "opening" /\ AppGoto(c, "asking")
    BY <1>1, <1>2, <2>1 DEF Asking
  <2>2. CASE AppGoto(c, "leaving")
    BY <1>1, <1>2, <2>2 DEF Asking
  <2>. QED  BY <1>4, <2>1, <2>2 DEF SendRequest
<1>5. CASE ReadResponse(c)
  <2>1. CASE app[c].pc = "asking" /\ Update(c, [app[c] EXCEPT !.pc = "attaching", !.registered = TRUE])
    <3>1. PICK y : y = [app[c] EXCEPT !.pc = "attaching"]
      OBVIOUS
    <3>2. PICK x : x = [y EXCEPT !.registered = TRUE]
      OBVIOUS
    <3>3. DOMAIN y = AppFields /\ y.pc = "attaching" /\ y.call = app[c].call
          /\ y.answer = app[c].answer
      BY <3>1 DEF AppsOK, AppFields
    <3>4. DOMAIN x = AppFields /\ x.pc = "attaching" /\ x.call = app[c].call
          /\ x.answer = app[c].answer
      BY <3>2, <3>3 DEF AppFields
    <3>5. Update(c, x)
      BY <2>1, <3>1, <3>2
    <3>6. OnlyOne(c) /\ app'[c] = x
      BY <3>4, <3>5, UpdateOK
    <3>7. app[c].call = NoCall /\ app[c].answer = NoAnswer
      BY <2>1 DEF AppsOK
    <3>. QED  BY <1>1, <3>4, <3>6, <3>7
  <2>2. CASE AppGoto(c, "off")
    BY <1>1, <1>2, <2>2
  <2>. QED  BY <1>5, <2>1, <2>2 DEF ReadResponse
<1>6. CASE LeaveAfterShutdown(c) \/ GiveUp(c)
  <2>1. AppGoto(c, "off")
    BY <1>6 DEF LeaveAfterShutdown, GiveUp
  <2>. QED  BY <1>1, <1>2, <2>1
<1>. QED  BY <1>3, <1>4, <1>5, <1>6 DEF SocketMove


\* At its segment.
LEMMA ItsSegment ==
    ASSUME SegmentsOK, UseOK, NEW c \in Client, Using(c)
    PROVE  /\ app[c].segment \in 1 .. Len(segments) /\ segments[app[c].segment] \in Segment
           /\ \A svc \in Services : /\ segments[app[c].segment].req[svc] \in QueueOf(Question)
                                    /\ segments[app[c].segment].conf[svc] \in QueueOf(Reply)
<1>1. app[c].segment \in 1 .. Len(segments)
  BY DEF UseOK
<1>2. segments[app[c].segment] \in Segment
  BY <1>1, ElementOfSeq DEF SegmentsOK
<1>. QED  BY <1>1, <1>2 DEF Segment

LEMMA ItsQueues ==
    ASSUME SegmentsOK, UseOK, CallsOK, NEW c \in Client, app[c].pc \in Pushing \cup Popping
    PROVE  /\ TheCall(c) \in Question /\ TheCall(c).op \in Services
           /\ RequestsOf(c) \in QueueOf(Question) /\ ConfirmsOf(c) \in QueueOf(Reply)
<1>1. TheCall(c) \in Question /\ TheCall(c).op \in Services
  BY DEF CallsOK, Question
<1>2. Using(c)
  BY DEF Using
<1>. QED  BY <1>1, <1>2, ItsSegment DEF RequestsOf, ConfirmsOf

LEMMA AttachOK ==
    ASSUME ClientAssumption, ThreadsOK, SegmentsOK, AppsOK, NEW c \in Client, Attach(c)
    PROVE  /\ OnlyOne(c) /\ UNCHANGED <<issued, store_mutex>> /\ app[c].pc = "attaching"
           /\ app'[c].call = NoCall /\ app'[c].answer = NoAnswer
           /\ \/ app'[c].pc = "off" /\ UNCHANGED segments
              \/ LET s == shm[scenario.name[c]]
                 IN  /\ s \in 1 .. Len(segments) /\ app'[c].pc = "on" /\ app'[c].segment = s
                     /\ DisturbedSet(segments, segments', s,
                                     segments[s].disturbed \/ segments[s].maker # c)
<1>1. app[c].pc = "attaching" /\ UNCHANGED <<issued, store_mutex>>
  BY DEF Attach, QueueCallKeeps, callVars, storeVars
<1>2. app[c].call = NoCall /\ app[c].answer = NoAnswer /\ scenario.name[c] \in Name
  BY <1>1 DEF AppsOK, Registers
<1>3. PICK s : s = shm[scenario.name[c]]
  OBVIOUS
<1>4. s \in 0 .. Len(segments)
  BY <1>2, <1>3 DEF ThreadsOK
<1>5. CASE s = NoSegment
  <2>1. AppGoto(c, "off") /\ UNCHANGED segments
    BY <1>3, <1>5 DEF Attach
  <2>2. OnlyOne(c) /\ app'[c].pc = "off" /\ Same(c)
    BY <2>1, GotoOK
  <2>. QED  BY <1>1, <1>2, <2>1, <2>2 DEF Same
<1>6. CASE s # NoSegment
  <2>1. /\ Update(c, [app[c] EXCEPT !.pc = "on", !.segment = s])
        /\ segments' = [segments EXCEPT ![s].disturbed = @ \/ segments[s].maker # c]
    BY <1>3, <1>6 DEF Attach
  <2>2. PICK y : y = [app[c] EXCEPT !.pc = "on"]
    OBVIOUS
  <2>3. DOMAIN y = AppFields /\ y.pc = "on" /\ y.call = NoCall /\ y.answer = NoAnswer
    BY <1>2, <2>2 DEF AppsOK, AppFields
  <2>4. PICK x : x = [y EXCEPT !.segment = s]
    OBVIOUS
  <2>5. DOMAIN x = AppFields /\ x.pc = "on" /\ x.call = NoCall /\ x.answer = NoAnswer
        /\ x.segment = s
    BY <2>3, <2>4 DEF AppFields
  <2>6. Update(c, x)
    BY <2>1, <2>2, <2>4
  <2>7. OnlyOne(c) /\ app'[c] = x
    BY <2>5, <2>6, UpdateOK
  <2>8. s \in 1 .. Len(segments)
    <3>1. Len(segments) \in Nat
      BY LenProperties DEF SegmentsOK
    <3>. QED  BY <1>4, <1>6, <3>1 DEF NoSegment
  <2>9. DisturbedSet(segments, segments', s, segments[s].disturbed \/ segments[s].maker # c)
    <3>1. PICK b \in BOOLEAN : b = (segments[s].disturbed \/ segments[s].maker # c)
      OBVIOUS
    <3>2. segments' = [segments EXCEPT ![s].disturbed = b]
      BY <2>1, <3>1
    <3>. QED  BY <2>8, <3>1, <3>2, DisturbedSetOK DEF SegmentsOK
  <2>. QED  BY <1>1, <1>3, <2>5, <2>7, <2>8, <2>9
<1>. QED  BY <1>5, <1>6

\* A call, with its number.
LEMMA NumberedOK ==
    ASSUME ClientAssumption, IdsOK, AppsOK, issued < scenario.number, NEW c \in Client,
           NEW call \in scenario.calls[c]
    PROVE  /\ issued \in Nat /\ issued + 1 <= MaxRequests /\ call \in Call
           /\ Numbered(call).id = issued + 1 /\ Numbered(call).op = call.op
           /\ Numbered(call).varId = call.varId /\ call.varId \in VarId
           /\ call.op \in Services => Numbered(call) \in Question
<1>1. scenario.calls \in [Client -> SUBSET Call] /\ scenario.number \in 0 .. MaxRequests
  BY DEF ClientAssumption, AppsOK
<1>2. call \in Call /\ MaxRequests \in Nat
  BY <1>1, Constants
<1>3. issued \in Nat /\ issued + 1 <= MaxRequests
  BY <1>1, <1>2 DEF IdsOK
<1>. QED  BY <1>2, <1>3 DEF Numbered, Call, Question

LEMMA RtdbCallOK ==
    ASSUME ClientAssumption, SegmentsOK, IdsOK, UseOK, AppsOK, NEW c \in Client, RtdbCall(c)
    PROVE  /\ OnlyOne(c) /\ issued' = issued + 1 /\ issued' \in 1 .. MaxRequests
           /\ UNCHANGED store_mutex
           /\ app[c].pc = "on" /\ app'[c].pc = "push" /\ app'[c].segment = app[c].segment
           /\ app'[c].answer = NoAnswer /\ app'[c].call \in Question
           /\ app'[c].call.id = issued'
           /\ \E svc \in Services :
                 ConfSet(segments, segments', app[c].segment, svc,
                         Reset(segments[app[c].segment].conf[svc]))
<1>1. /\ app[c].pc = "on" /\ issued < scenario.number /\ issued' = issued + 1
      /\ UNCHANGED store_mutex
  BY DEF RtdbCall, storeVars
<1>2. PICK call \in scenario.calls[c] :
        /\ call.op \in Services
        /\ segments' = [segments EXCEPT ![app[c].segment].conf[call.op] = Reset(@)]
        /\ Update(c, [app[c] EXCEPT !.pc = "push", !.call = Numbered(call), !.answer = NoAnswer])
  BY Zenon DEF RtdbCall
<1>3. /\ Numbered(call) \in Question /\ Numbered(call).id = issued + 1
      /\ issued \in Nat /\ issued + 1 <= MaxRequests
  BY <1>1, <1>2, NumberedOK
<1>4. /\ OnlyOne(c) /\ app'[c].pc = "push" /\ app'[c].answer = NoAnswer
      /\ app'[c].segment = app[c].segment /\ app'[c].call = Numbered(call)
  BY <1>2, AskingOK, Zenon
<1>5. PICK s \in 1 .. Len(segments) : s = app[c].segment
  BY <1>1, ItsSegment DEF Using
<1>6. PICK svc \in Services : svc = call.op
  BY <1>2
<1>7. segments[s].conf[svc] \in QueueOf(Reply)
  BY <1>1, <1>5, ItsSegment DEF Using
<1>8. PICK q \in QueueOf(Reply) : q = Reset(segments[s].conf[svc])
  BY <1>7, ResetOK
<1>9. segments' = [segments EXCEPT ![s].conf[svc] = q]
  BY <1>2, <1>5, <1>6, <1>8
<1>10. ConfSet(segments, segments', s, svc, q)
  BY <1>9, ConfSetOK DEF SegmentsOK
<1>11. issued' \in 1 .. MaxRequests
  BY <1>1, <1>3, Constants
<1>. QED  BY <1>1, <1>3, <1>4, <1>5, <1>8, <1>10, <1>11


LEMMA PushRequestOK ==
    ASSUME SegmentsOK, CallsOK, UseOK, AppsOK, NEW c \in Client, PushRequest(c)
    PROVE  /\ OnlyOne(c) /\ Same(c) /\ UNCHANGED <<issued, store_mutex>>
           /\ app[c].pc \in {"push", "push_woken"} /\ app'[c].pc = "pop"
           /\ ReqSet(segments, segments', app[c].segment, TheCall(c).op,
                     Push(RequestsOf(c), TheCall(c)))
<1>1. /\ app[c].pc \in {"push", "push_woken"} /\ AppGoto(c, "pop")
      /\ UNCHANGED <<issued, store_mutex>>
      /\ segments' = [segments EXCEPT ![app[c].segment].req[TheCall(c).op] = Push(@, TheCall(c))]
  BY DEF PushRequest, QueueCallKeeps, callVars, storeVars
<1>2. OnlyOne(c) /\ Same(c) /\ app'[c].pc = "pop"
  BY <1>1, GotoOK
<1>3. PICK s \in 1 .. Len(segments) : s = app[c].segment
  BY <1>1, ItsSegment DEF Using, Pushing
<1>4. PICK svc \in Services : svc = TheCall(c).op
  BY <1>1, ItsQueues DEF Pushing
<1>5. TheCall(c) \in Question /\ RequestsOf(c) \in QueueOf(Question)
  BY <1>1, ItsQueues DEF Pushing
<1>6. PICK q \in QueueOf(Question) : q = Push(RequestsOf(c), TheCall(c))
  BY <1>5, PushOK
<1>7. segments' = [segments EXCEPT ![s].req[svc] = q]
  BY <1>1, <1>3, <1>4, <1>6 DEF RequestsOf
<1>8. ReqSet(segments, segments', s, svc, q)
  BY <1>7, ReqSetOK DEF SegmentsOK
<1>. QED  BY <1>1, <1>2, <1>3, <1>4, <1>6, <1>8

\* It waits for the queue or for the answer.
LEMMA WaitOK ==
    ASSUME AppsOK, NEW c \in Client, WaitToPush(c) \/ WaitToPop(c)
    PROVE  /\ OnlyOne(c) /\ Same(c) /\ UNCHANGED <<segments, issued, store_mutex>>
           /\ \/ app[c].pc = "push" /\ app'[c].pc = "push_waiting"
              \/ app[c].pc = "pop" /\ app'[c].pc = "pop_waiting"
<1>1. UNCHANGED <<segments, issued, store_mutex>>
  BY DEF WaitToPush, WaitToPop, QueueCallKeeps, callVars, storeVars
<1>2. CASE WaitToPush(c)
  <2>1. app[c].pc = "push" /\ AppGoto(c, "push_waiting")
    BY <1>2 DEF WaitToPush
  <2>. QED  BY <1>1, <2>1, GotoOK
<1>3. CASE WaitToPop(c)
  <2>1. app[c].pc = "pop" /\ AppGoto(c, "pop_waiting")
    BY <1>3 DEF WaitToPop
  <2>. QED  BY <1>1, <2>1, GotoOK
<1>. QED  BY <1>2, <1>3

LEMMA PopConfirmOK ==
    ASSUME SegmentsOK, CallsOK, UseOK, AppsOK, NEW c \in Client, PopConfirm(c)
    PROVE  /\ OnlyOne(c) /\ UNCHANGED <<issued, store_mutex>>
           /\ (app[c].pc = "pop" /\ ConfirmsOf(c).has_data) \/ app[c].pc = "pop_woken"
           /\ app'[c].pc = "on" /\ app'[c].segment = app[c].segment
           /\ app'[c].call = app[c].call
           /\ \/ ConfirmsOf(c).items = <<>> /\ UNCHANGED segments
              \/ /\ ConfirmsOf(c).items # <<>>
                 /\ Tail(ConfirmsOf(c).items) = <<>> =>
                       app'[c].answer = Head(ConfirmsOf(c).items)
                 /\ ConfSet(segments, segments', app[c].segment, TheCall(c).op,
                            Pop(ConfirmsOf(c)))
<1>1. /\ (app[c].pc = "pop" /\ ConfirmsOf(c).has_data) \/ app[c].pc = "pop_woken"
      /\ UNCHANGED <<issued, store_mutex>>
  BY DEF PopConfirm, QueueCallKeeps, callVars, storeVars
<1>2. CASE ConfirmsOf(c).items = <<>>
  <2>1. /\ Update(c, Answer(c, [id |-> TheCall(c).id, status |-> "exception"]))
        /\ UNCHANGED segments
    BY <1>2 DEF PopConfirm
  <2>2. PICK x : x = [id |-> TheCall(c).id, status |-> "exception"]
    OBVIOUS
  <2>. QED  BY <1>1, <1>2, <2>1, <2>2, AnswerOK
<1>3. CASE ConfirmsOf(c).items # <<>>
  <2>1. PICK x : x = IF Tail(ConfirmsOf(c).items) # <<>>
                     THEN [id |-> TheCall(c).id, status |-> "INTERNAL_ERROR"]
                     ELSE Head(ConfirmsOf(c).items)
    OBVIOUS
  <2>2. segments' = WithConfirms(c, Pop(ConfirmsOf(c))) /\ Update(c, Answer(c, x))
    BY <1>3, <2>1 DEF PopConfirm
  <2>3. /\ OnlyOne(c) /\ app'[c].pc = "on" /\ app'[c].answer = x
        /\ app'[c].segment = app[c].segment /\ app'[c].call = app[c].call
    BY <2>2, AnswerOK
  <2>4. PICK s \in 1 .. Len(segments) : s = app[c].segment
    BY <1>1, ItsSegment DEF Using, Popping
  <2>5. PICK svc \in Services : svc = TheCall(c).op
    BY <1>1, ItsQueues DEF Popping
  <2>6. ConfirmsOf(c) \in QueueOf(Reply)
    BY <1>1, ItsQueues DEF Popping
  <2>7. PICK q \in QueueOf(Reply) : q = Pop(ConfirmsOf(c))
    BY <1>3, <2>6, PopOK
  <2>8. segments' = [segments EXCEPT ![s].conf[svc] = q]
    BY <2>2, <2>4, <2>5, <2>7 DEF WithConfirms
  <2>9. ConfSet(segments, segments', s, svc, q)
    BY <2>8, ConfSetOK DEF SegmentsOK
  <2>. QED  BY <1>1, <1>3, <2>1, <2>3, <2>4, <2>5, <2>7, <2>9
<1>. QED  BY <1>2, <1>3

LEMMA TimeoutOK ==
    ASSUME SegmentsOK, CallsOK, UseOK, AppsOK, NEW c \in Client, Timeout(c)
    PROVE  /\ OnlyOne(c) /\ UNCHANGED <<issued, store_mutex>>
           /\ app[c].pc \in {"push_waiting", "pop_waiting"}
           /\ app'[c].pc = "on" /\ app'[c].segment = app[c].segment
           /\ app'[c].call = app[c].call
           /\ DisturbedSet(segments, segments', app[c].segment, TRUE)
<1>1. /\ app[c].pc \in {"push_waiting", "pop_waiting"}
      /\ UNCHANGED <<issued, store_mutex>>
      /\ segments' = [segments EXCEPT ![app[c].segment].disturbed = TRUE]
      /\ Update(c, Answer(c, [id |-> TheCall(c).id, status |-> "SHARED_MEMORY_ERROR"]))
  BY DEF Timeout, QueueCallKeeps, callVars, storeVars
<1>2. PICK x : x = [id |-> TheCall(c).id, status |-> "SHARED_MEMORY_ERROR"]
  OBVIOUS
<1>3. /\ OnlyOne(c) /\ app'[c].pc = "on"
      /\ app'[c].segment = app[c].segment /\ app'[c].call = app[c].call
  BY <1>1, <1>2, AnswerOK
<1>4. PICK s \in 1 .. Len(segments) : s = app[c].segment
  BY <1>1, ItsSegment DEF Using, Pushing, Popping
<1>5. PICK b \in BOOLEAN : b = TRUE
  OBVIOUS
<1>6. segments' = [segments EXCEPT ![s].disturbed = b]
  BY <1>1, <1>4, <1>5
<1>7. segments \in Seq(Segment) /\ s \in 1 .. Len(segments) /\ b \in BOOLEAN
  BY DEF SegmentsOK
<1>8. DisturbedSet(segments, [segments EXCEPT ![s].disturbed = b], s, b)
  BY <1>7, DisturbedSetOK
<1>9. DisturbedSet(segments, segments', s, b)
  BY <1>6, <1>8
<1>. QED  BY <1>1, <1>3, <1>4, <1>5, <1>9

LEMMA DieInQueueOK ==
    ASSUME SegmentsOK, CallsOK, UseOK, AppsOK, NEW c \in Client, DieInQueue(c)
    PROVE  /\ OnlyOne(c) /\ UNCHANGED <<issued, store_mutex>>
           /\ app[c].pc \in {"push", "pop"} /\ app'[c].pc = "off"
           /\ \E svc \in Services :
                 LET s == app[c].segment
                 IN  \/ ReqSet(segments, segments', s, svc,
                               [segments[s].req[svc] EXCEPT !.locked = TRUE])
                     \/ ConfSet(segments, segments', s, svc,
                                [segments[s].conf[svc] EXCEPT !.locked = TRUE])
<1>1. /\ app[c].pc \in {"push", "pop"} /\ AppGoto(c, "off")
      /\ UNCHANGED <<issued, store_mutex>>
  BY DEF DieInQueue, QueueCallKeeps, callVars, storeVars
<1>2. OnlyOne(c) /\ app'[c].pc = "off"
  BY <1>1, GotoOK
<1>3. PICK s \in 1 .. Len(segments) : s = app[c].segment
  BY <1>1, ItsSegment DEF Using, Pushing, Popping
<1>4. PICK svc \in Services : svc = TheCall(c).op
  BY <1>1, ItsQueues DEF Pushing, Popping
<1>5. /\ segments[s].req[svc] \in QueueOf(Question)
      /\ segments[s].conf[svc] \in QueueOf(Reply)
  BY <1>1, <1>3, ItsSegment, SMTT(30) DEF Using, Pushing, Popping
<1>6. CASE segments' = [segments EXCEPT ![app[c].segment].req[TheCall(c).op].locked = TRUE]
  <2>1. PICK q \in QueueOf(Question) : q = [segments[s].req[svc] EXCEPT !.locked = TRUE]
    BY <1>5, FlagsOK, ZenonT(40)
  <2>2. segments' = [segments EXCEPT ![s].req[svc] = q]
    BY <1>3, <1>4, <1>6, <2>1
  <2>3. ReqSet(segments, segments', s, svc, q)
    BY <2>2, ReqSetOK DEF SegmentsOK
  <2>. QED  BY <1>1, <1>2, <1>3, <2>1, <2>3
<1>7. CASE segments' = [segments EXCEPT ![app[c].segment].conf[TheCall(c).op].locked = TRUE]
  <2>1. PICK q \in QueueOf(Reply) : q = [segments[s].conf[svc] EXCEPT !.locked = TRUE]
    BY <1>5, FlagsOK
  <2>2. segments' = [segments EXCEPT ![s].conf[svc] = q]
    BY <1>3, <1>4, <1>7, <2>1
  <2>3. ConfSet(segments, segments', s, svc, q)
    BY <2>2, ConfSetOK DEF SegmentsOK
  <2>. QED  BY <1>1, <1>2, <1>3, <2>1, <2>3
<1>8. \/ segments' = [segments EXCEPT ![app[c].segment].req[TheCall(c).op].locked = TRUE]
      \/ segments' = [segments EXCEPT ![app[c].segment].conf[TheCall(c).op].locked = TRUE]
  BY Zenon DEF DieInQueue
<1>. QED  BY <1>6, <1>7, <1>8, ZenonT(40)

\* At the store.
LEMMA ReadValueOK ==
    ASSUME ClientAssumption, IdsOK, AppsOK, NEW c \in Client, ReadValue(c)
    PROVE  /\ OnlyOne(c) /\ UNCHANGED segments
           /\ issued' = issued + 1 /\ issued' \in 1 .. MaxRequests
           /\ store_mutex = NoOne /\ store_mutex' = c
           /\ app[c].pc = "on" /\ app'[c].pc = "reading" /\ app'[c].segment = app[c].segment
           /\ app'[c].call.op = "Read" /\ app'[c].call.varId \in VarId
           /\ app'[c].call.varId \in InUse(variable_store) =>
                 app'[c].value = read_value(variable_store, app'[c].call.varId)
<1>1. /\ app[c].pc = "on" /\ issued < scenario.number /\ issued' = issued + 1
      /\ store_mutex = NoOne /\ store_mutex' = c /\ UNCHANGED segments
  BY DEF ReadValue
<1>2. PICK call \in scenario.calls[c] :
        /\ call.op = "Read"
        /\ Update(c, [app[c] EXCEPT
              !.pc = "reading", !.call = Numbered(call), !.answer = NoAnswer,
              !.value = IF identifier_is_allocated(variable_store, call.varId)
                        THEN read_value(variable_store, call.varId) ELSE Empty])
  BY Zenon DEF ReadValue
<1>3. PICK v : v = IF identifier_is_allocated(variable_store, call.varId)
                   THEN read_value(variable_store, call.varId) ELSE Empty
  OBVIOUS
<1>4. /\ Numbered(call).op = "Read" /\ Numbered(call).varId = call.varId
      /\ issued \in Nat /\ issued + 1 <= MaxRequests /\ call.varId \in VarId
  BY <1>1, <1>2, NumberedOK
<1>5. Update(c, [app[c] EXCEPT !.pc = "reading", !.call = Numbered(call), !.answer = NoAnswer,
                               !.value = v])
  BY <1>2, <1>3, Zenon
<1>6. /\ OnlyOne(c) /\ app'[c].pc = "reading" /\ app'[c].segment = app[c].segment
      /\ app'[c].call = Numbered(call) /\ app'[c].value = v
  BY <1>5, ReadingOK, ZenonT(40)
<1>7. issued' \in 1 .. MaxRequests
  BY <1>1, <1>4, Constants
<1>8. call.varId \in InUse(variable_store) => v = read_value(variable_store, call.varId)
  BY <1>3 DEF InUse, identifier_is_allocated
<1>. QED  BY <1>1, <1>4, <1>6, <1>7, <1>8

LEMMA ReadEntryOK ==
    ASSUME AppsOK, NEW c \in Client, ReadEntry(c)
    PROVE  /\ OnlyOne(c) /\ UNCHANGED <<segments, issued>> /\ store_mutex' = NoOne
           /\ app[c].pc = "reading" /\ app'[c].pc = "on" /\ app'[c].segment = app[c].segment
           /\ app'[c].call = app[c].call
           /\ app'[c].answer.value = app[c].value
           /\ app'[c].answer.status = ReadStatus(TheCall(c).varId)
           /\ app'[c].answer.tStamp = TStamp(TheCall(c).varId)
<1>1. PICK x : x = [id |-> TheCall(c).id, status |-> ReadStatus(TheCall(c).varId),
                    value |-> app[c].value,
                    tStamp |-> get_db_entry(variable_store, TheCall(c).varId).tStamp]
  OBVIOUS
<1>2. /\ app[c].pc = "reading" /\ Update(c, Answer(c, x))
      /\ UNCHANGED <<segments, issued>> /\ store_mutex' = NoOne
  BY <1>1 DEF ReadEntry, callVars, Unlock
<1>. QED  BY <1>1, <1>2, AnswerOK DEF TStamp

LEMMA DieReadingOK ==
    ASSUME AppsOK, NEW c \in Client, DieReading(c)
    PROVE  /\ OnlyOne(c) /\ Same(c) /\ UNCHANGED <<segments, issued, store_mutex>>
           /\ app[c].pc = "reading" /\ app'[c].pc = "dead"
<1>1. app[c].pc = "reading" /\ AppGoto(c, "dead") /\ UNCHANGED <<segments, issued, store_mutex>>
  BY DEF DieReading, storeVars, callVars
<1>. QED  BY <1>1, GotoOK


(***************************************************************************)
(* What the rtdb thread does.                                              *)
(***************************************************************************)
\* Those who wait at a queue go on.
Woken(s, svc, from, to) ==
    /\ DOMAIN app' = Client
    /\ \A c \in Client : DOMAIN app'[c] = AppFields /\ Same(c)
    /\ \A c \in Client :
          IF app[c].segment = s /\ app[c].call.op = svc /\ app[c].pc = from
          THEN app'[c].pc = to ELSE app'[c].pc = app[c].pc

LEMMA WakeOK ==
    ASSUME AppsOK, NEW s, NEW svc, NEW from, NEW to, app' = Wake(app, s, svc, from, to)
    PROVE  Woken(s, svc, from, to)
<1>1. DOMAIN app' = Client
  BY DEF Wake
<1>2. ASSUME NEW c \in Client
      PROVE  /\ DOMAIN app'[c] = AppFields /\ Same(c)
             /\ IF app[c].segment = s /\ app[c].call.op = svc /\ app[c].pc = from
                THEN app'[c].pc = to ELSE app'[c].pc = app[c].pc
  <2>1. CASE app[c].segment = s /\ app[c].call.op = svc /\ app[c].pc = from
    <3>1. PICK x : x = [app[c] EXCEPT !.pc = to]
      OBVIOUS
    <3>2. app'[c] = x
      BY <2>1, <3>1 DEF Wake
    <3>3. DOMAIN x = AppFields /\ x.pc = to /\ x.segment = app[c].segment /\ x.call = app[c].call
          /\ x.value = app[c].value /\ x.answer = app[c].answer
      BY <3>1 DEF AppsOK, AppFields
    <3>. QED  BY <2>1, <3>2, <3>3 DEF Same
  <2>2. CASE ~ (app[c].segment = s /\ app[c].call.op = svc /\ app[c].pc = from)
    <3>1. app'[c] = app[c]
      BY <2>2 DEF Wake
    <3>. QED  BY <2>2, <3>1 DEF Same, AppsOK
  <2>. QED  BY <2>1, <2>2
<1>. QED  BY <1>1, <1>2 DEF Woken

LEMMA RtdbRequestOK ==
    ASSUME ClientAssumption, ThreadsOK, SegmentsOK, AppsOK, RtdbRequest
    PROVE  /\ pc["rtdb"] = "drain"
           /\ UNCHANGED <<pc, ca_mutex, todo, service, store_mutex, clientApplications, shm,
                          issued, scenario, socketVars>>
           /\ vardis_exitFlag' \in {vardis_exitFlag, TRUE}
           /\ \E s \in 1 .. Len(segments), svc \in Services, t \in Seq(Segment) :
                 LET q == segments[s].req[svc]
                     r == Head(q.items)
                 IN  /\ q.items # <<>> /\ r \in Question /\ r.id \in 1 .. MaxRequests
                     /\ variable_store' = HandlerEffect(r)
                     /\ carried' = [carried EXCEPT ![r.id] = @ + 1]
                     /\ ReqSet(segments, t, s, svc, [q EXCEPT !.items = Tail(@)])
                     /\ \/ segments' = t /\ UNCHANGED app
                        \/ /\ Woken(s, svc, "pop_waiting", "pop_woken")
                           /\ \E reply \in Reply :
                                 /\ reply.id = r.id
                                 /\ ConfSet(t, segments', s, svc,
                                            Push(segments[s].conf[svc], reply))
<1>1. /\ pc["rtdb"] = "drain" /\ TheRequests.items # <<>>
      /\ UNCHANGED <<pc, ca_mutex, todo, service, store_mutex, clientApplications, shm,
                     issued, scenario, socketVars>>
  BY DEF RtdbRequest, RtdbKeeps, threadVars
<1>2. /\ TheSegment \in 1 .. Len(segments) /\ TheService \in Services
      /\ TheRequests \in QueueOf(Question) /\ TheConfirms \in QueueOf(Reply)
  BY <1>1, TheQueues
<1>3. PICK s \in 1 .. Len(segments) : s = TheSegment
  BY <1>2
<1>4. PICK svc \in Services : svc = TheService
  BY <1>2
<1>5. PICK q \in QueueOf(Question) : q = segments[s].req[svc]
  BY <1>2, <1>3, <1>4 DEF TheRequests
<1>6. PICK p \in QueueOf(Reply) : p = segments[s].conf[svc]
  BY <1>2, <1>3, <1>4 DEF TheConfirms
<1>7. TheRequests = q /\ TheConfirms = p
  BY <1>3, <1>4, <1>5, <1>6 DEF TheRequests, TheConfirms
<1>8. PICK r : r = Head(q.items)
  OBVIOUS
<1>9. PICK rest : rest = [q EXCEPT !.items = Tail(@)]
  OBVIOUS
<1>10. q.items # <<>> /\ r \in Question /\ rest \in QueueOf(Question)
  BY <1>1, <1>7, <1>8, <1>9, TakeOK
<1>11. PICK t : t = [segments EXCEPT ![s].req[svc] = rest]
  OBVIOUS
<1>12. ReqSet(segments, t, s, svc, rest)
  BY <1>10, <1>11, ReqSetOK DEF SegmentsOK
<1>13. t \in Seq(Segment)
  BY <1>12 DEF ReqSet
<1>14. r.id \in 1 .. MaxRequests
  BY <1>10 DEF Question
<1>15. PICK reply : reply = [id |-> r.id, status |-> HandlerStatus(r)]
  OBVIOUS
<1>16. reply \in Reply /\ reply.id = r.id
  <2>1. HandlerStatus(r) \in StatusCode
    BY DEF HandlerStatus, StatusCode
  <2>. QED  BY <1>14, <1>15, <2>1 DEF Reply
<1>17. WithRequests([TheRequests EXCEPT !.items = Tail(@)]) = t
  BY <1>3, <1>4, <1>7, <1>9, <1>11 DEF WithRequests
<1>18. /\ variable_store' = HandlerEffect(r)
       /\ carried' = [carried EXCEPT ![r.id] = @ + 1]
  BY <1>7, <1>8 DEF RtdbRequest
<1>19. \/ segments' = t /\ vardis_exitFlag' = TRUE /\ UNCHANGED app
       \/ /\ segments' = [t EXCEPT ![s].conf[svc] = Push(@, reply)]
          /\ app' = Wake(app, s, svc, "pop_waiting", "pop_woken")
          /\ UNCHANGED vardis_exitFlag
  <2>1. LET all == WithRequests([TheRequests EXCEPT !.items = Tail(@)])
            h == Head(TheRequests.items)
        IN  \/ segments' = all /\ vardis_exitFlag' = TRUE /\ UNCHANGED app
            \/ /\ segments' = [all EXCEPT ![TheSegment].conf[TheService]
                                  = Push(@, [id |-> h.id, status |-> HandlerStatus(h)])]
               /\ app' = Wake(app, TheSegment, TheService, "pop_waiting", "pop_woken")
               /\ UNCHANGED vardis_exitFlag
    BY Zenon DEF RtdbRequest
  <2>. QED  BY <2>1, <1>3, <1>4, <1>7, <1>8, <1>15, <1>17, Zenon
<1>20. CASE segments' = t /\ vardis_exitFlag' = TRUE /\ UNCHANGED app
  <2>1. vardis_exitFlag' \in {vardis_exitFlag, TRUE}
    BY <1>20
  <2>. QED  BY <1>1, <1>5, <1>8, <1>9, <1>10, <1>12, <1>14, <1>18, <1>20, <1>13, <2>1, Zenon
<1>21. CASE /\ segments' = [t EXCEPT ![s].conf[svc] = Push(@, reply)]
            /\ app' = Wake(app, s, svc, "pop_waiting", "pop_woken")
            /\ UNCHANGED vardis_exitFlag
  <2>1. Woken(s, svc, "pop_waiting", "pop_woken")
    BY <1>21, WakeOK
  <2>2. t \in Seq(Segment) /\ Len(t) = Len(segments) /\ t[s].conf = segments[s].conf
    BY <1>12 DEF ReqSet
  <2>3. t[s].conf[svc] = p
    BY <1>6, <2>2
  <2>4. PICK u \in QueueOf(Reply) : u = Push(p, reply)
    BY <1>16, PushOK
  <2>5. segments' = [t EXCEPT ![s].conf[svc] = u]
    BY <1>21, <2>3, <2>4
  <2>6. s \in 1 .. Len(t)
    BY <2>2
  <2>7. ConfSet(t, [t EXCEPT ![s].conf[svc] = u], s, svc, u)
    BY <2>2, <2>6, ConfSetOK
  <2>8. ConfSet(t, segments', s, svc, Push(segments[s].conf[svc], reply))
    BY <1>6, <2>4, <2>5, <2>7
  <2>9. vardis_exitFlag' \in {vardis_exitFlag, TRUE}
    BY <1>21, SMTT(30)
  <2>. QED  BY <1>1, <1>5, <1>8, <1>9, <1>10, <1>12, <1>14, <1>16, <1>18, <1>13, <2>1, <2>8, <2>9, Zenon
<1>. QED  BY <1>19, <1>20, <1>21

LEMMA RtdbThrowsOK ==
    ASSUME ClientAssumption, ThreadsOK, SegmentsOK, RtdbThrows
    PROVE  /\ pc["rtdb"] = "drain" /\ pc' = [pc EXCEPT !["rtdb"] = "ended"]
           /\ UNCHANGED <<todo, service, app, carried, clientApplications, shm, issued, scenario,
                          socketVars>>
           /\ vardis_exitFlag' = TRUE /\ store_mutex' = NoOne /\ ca_mutex' = NoOne
           /\ \E s \in 1 .. Len(segments), svc \in Services :
                 LET q == segments[s].req[svc]
                     r == Head(q.items)
                 IN  /\ q.items # <<>> /\ r \in Question /\ r.id \in 1 .. MaxRequests
                     /\ variable_store' = WithEntry(r)
                     /\ ReqSet(segments, segments', s, svc, [q EXCEPT !.items = Tail(@)])
<1>1. /\ pc["rtdb"] = "drain" /\ TheRequests.items # <<>>
      /\ pc' = [pc EXCEPT !["rtdb"] = "ended"]
      /\ UNCHANGED <<todo, service, app, carried, clientApplications, shm, issued, scenario,
                     socketVars>>
      /\ vardis_exitFlag' = TRUE /\ store_mutex' = NoOne /\ ca_mutex' = NoOne
  BY DEF RtdbThrows, RtdbKeeps, Goto
<1>2. /\ TheSegment \in 1 .. Len(segments) /\ TheService \in Services
      /\ TheRequests \in QueueOf(Question)
  BY <1>1, TheQueues
<1>3. PICK s \in 1 .. Len(segments) : s = TheSegment
  BY <1>2
<1>4. PICK svc \in Services : svc = TheService
  BY <1>2
<1>5. PICK q \in QueueOf(Question) : q = segments[s].req[svc]
  BY <1>2, <1>3, <1>4 DEF TheRequests
<1>6. TheRequests = q
  BY <1>3, <1>4, <1>5 DEF TheRequests
<1>7. PICK r : r = Head(q.items)
  OBVIOUS
<1>8. PICK rest : rest = [q EXCEPT !.items = Tail(@)]
  OBVIOUS
<1>9. q.items # <<>> /\ r \in Question /\ rest \in QueueOf(Question)
  BY <1>1, <1>6, <1>7, <1>8, TakeOK
<1>10. r.id \in 1 .. MaxRequests
  BY <1>9 DEF Question
<1>11. WithRequests([TheRequests EXCEPT !.items = Tail(@)]) = [segments EXCEPT ![s].req[svc] = rest]
  BY <1>3, <1>4, <1>6, <1>8 DEF WithRequests
<1>12. variable_store' = WithEntry(r) /\ segments' = [segments EXCEPT ![s].req[svc] = rest]
  BY <1>6, <1>7, <1>11 DEF RtdbThrows
<1>13. ReqSet(segments, segments', s, svc, rest)
  BY <1>9, <1>12, ReqSetOK DEF SegmentsOK
<1>. QED  BY <1>1, <1>5, <1>7, <1>8, <1>9, <1>10, <1>12, <1>13

LEMMA RtdbDrainedOK ==
    ASSUME ClientAssumption, ThreadsOK, SegmentsOK, AppsOK, RtdbDrained
    PROVE  /\ pc["rtdb"] = "drain" /\ NextQueue
           /\ UNCHANGED <<vardis_exitFlag, ca_mutex, variable_store, carried, clientApplications,
                          shm, issued, scenario, socketVars>>
           /\ store_mutex' = NoOne
           /\ \E s \in 1 .. Len(segments), svc \in Services :
                 /\ ReqSet(segments, segments', s, svc,
                           [segments[s].req[svc] EXCEPT !.has_data = FALSE])
                 /\ Woken(s, svc, "push_waiting", "push_woken")
<1>1. /\ pc["rtdb"] = "drain" /\ NextQueue
      /\ UNCHANGED <<vardis_exitFlag, ca_mutex, variable_store, carried, clientApplications,
                     shm, issued, scenario, socketVars>>
      /\ store_mutex' = NoOne
      /\ segments' = WithRequests([TheRequests EXCEPT !.has_data = FALSE])
      /\ app' = Wake(app, TheSegment, TheService, "push_waiting", "push_woken")
  BY DEF RtdbDrained, RtdbKeeps
<1>2. /\ TheSegment \in 1 .. Len(segments) /\ TheService \in Services
      /\ TheRequests \in QueueOf(Question)
  BY <1>1, TheQueues
<1>3. PICK s \in 1 .. Len(segments) : s = TheSegment
  BY <1>2
<1>4. PICK svc \in Services : svc = TheService
  BY <1>2
<1>5. PICK q \in QueueOf(Question) : q = segments[s].req[svc]
  BY <1>2, <1>3, <1>4 DEF TheRequests
<1>6. PICK u \in QueueOf(Question) : u = [q EXCEPT !.has_data = FALSE]
  BY FlagsOK
<1>7. segments' = [segments EXCEPT ![s].req[svc] = u]
  BY <1>1, <1>3, <1>4, <1>5, <1>6 DEF WithRequests, TheRequests
<1>8. ReqSet(segments, segments', s, svc, u)
  BY <1>7, ReqSetOK DEF SegmentsOK
<1>9. Woken(s, svc, "push_waiting", "push_woken")
  BY <1>1, <1>3, <1>4, WakeOK
<1>. QED  BY <1>1, <1>5, <1>6, <1>8, <1>9


(***************************************************************************)
(* What else happens.                                                      *)
(***************************************************************************)
\* The segments and the applications stay as they are.
Quiet ==
    RtdbLoop \/ RtdbClient \/ RtdbQueue \/ Others \/ CommandLoop \/ ReadNothing \/ Shutdown
        \/ CommandStop \/ DaemonExit \/ UNCHANGED vars

LEMMA QuietKeeps ==
    ASSUME Quiet
    PROVE  UNCHANGED <<segments, app, issued, carried, scenario>>
<1>. USE DEF RtdbKeeps, OthersKeep, CommandKeeps, callVars
<1>1. CASE RtdbLoop \/ RtdbClient \/ RtdbQueue
  BY <1>1 DEF RtdbLoop, RtdbClient, RtdbQueue
<1>2. CASE Others
  <2>1. PICK v \in scenario.others : CreateOther(v) \/ MarkDeleted(v)
    BY <1>2 DEF Others
  <2>. QED  BY <2>1 DEF CreateOther, MarkDeleted
<1>3. CASE CommandLoop \/ ReadNothing \/ Shutdown \/ CommandStop
  BY <1>3 DEF CommandLoop, ReadNothing, Shutdown, CommandStop
<1>4. CASE DaemonExit
  BY <1>4 DEF DaemonExit
<1>5. CASE UNCHANGED vars
  BY <1>5 DEF vars
<1>. QED  BY <1>1, <1>2, <1>3, <1>4, <1>5 DEF Quiet

\* A segment that has just been made.
LEMMA FreshSegment ==
    ASSUME SegmentsOK, NEW m \in Client, segments' = Append(segments, NewSegment(m))
    PROVE  /\ SegmentsOK' /\ Len(segments') = Len(segments) + 1
           /\ \A s \in 1 .. Len(segments) : segments'[s] = segments[s]
           /\ LET x == segments'[Len(segments) + 1]
              IN  /\ x.maker = m
                  /\ \A svc \in Services : /\ x.req[svc].items = <<>>
                                           /\ x.conf[svc].items = <<>> /\ ~ x.conf[svc].has_data
<1>1. PICK e : e = EmptyQueue
  OBVIOUS
<1>2. e.items = <<>> /\ e.has_data = FALSE
  BY <1>1 DEF EmptyQueue
<1>3. e \in QueueOf(Question) /\ e \in QueueOf(Reply)
  <2>1. <<>> \in Seq(Question) /\ <<>> \in Seq(Reply)
    BY EmptySeq
  <2>. QED  BY <1>1, <2>1 DEF EmptyQueue, QueueOf
<1>4. PICK x : x = NewSegment(m)
  OBVIOUS
<1>5. /\ x \in Segment /\ x.maker = m
      /\ \A svc \in Services : x.req[svc] = e /\ x.conf[svc] = e
  BY <1>1, <1>3, <1>4 DEF NewSegment, Segment
<1>6. /\ segments' \in Seq(Segment) /\ Len(segments') = Len(segments) + 1
      /\ \A s \in 1 .. Len(segments) : segments'[s] = segments[s]
      /\ segments'[Len(segments) + 1] = x
  BY <1>4, <1>5, AppendProperties DEF SegmentsOK
<1>7. \A svc \in Services : /\ x.req[svc].items = <<>>
                            /\ x.conf[svc].items = <<>> /\ ~ x.conf[svc].has_data
  BY <1>2, <1>5
<1>. QED  BY <1>5, <1>6, <1>7 DEF SegmentsOK

LEMMA HandledOK ==
    ASSUME SegmentsOK, SocketOK, HandleRequest
    PROVE  /\ data_socket \in 1 .. Len(conns) /\ conns[data_socket].client \in Client
           /\ UNCHANGED <<ca_mutex, todo, service, variable_store, store_mutex, app, issued,
                          carried, scenario>>
           /\ \/ /\ TheRequest.s_type = "Register" /\ ca_mutex = NoOne
                 /\ segments' = Append(segments, NewSegment(TheSender))
                 /\ clientApplications' = [clientApplications EXCEPT
                                              ![TheRequest.name] = Len(segments) + 1]
                 /\ shm' = [shm EXCEPT ![TheRequest.name] = Len(segments) + 1]
              \/ /\ Status(TheRequest) # "OK" \/ TheRequest.s_type # "Register"
                 /\ UNCHANGED segments
                 /\ \/ /\ ca_mutex = NoOne
                       /\ clientApplications' = [clientApplications EXCEPT
                                                    ![TheRequest.name] = NoSegment]
                       /\ shm' = [shm EXCEPT ![TheRequest.name] = NoSegment]
                    \/ UNCHANGED <<clientApplications, shm>>
<1>1. data_socket \in 1 .. Len(conns) /\ conns[data_socket].client \in Client
  <2>1. data_socket # 0 /\ data_socket \in 0 .. Len(conns) /\ IsSequence(conns)
    BY DEF HandleRequest, HasRequest, SocketInUse, NoSocket, SocketOK
  <2>2. Len(conns) \in Nat
    BY <2>1, SequenceIs
  <2>3. data_socket \in 1 .. Len(conns)
    BY <2>1, <2>2
  <2>. QED  BY <2>3 DEF SocketOK
<1>2. UNCHANGED <<ca_mutex, todo, service, variable_store, store_mutex, app, issued,
                  carried, scenario>>
  BY DEF HandleRequest, CommandKeeps, storeVars, callVars
<1>3. Effect(TheRequest) /\ MayHandle(TheRequest)
  BY DEF HandleRequest
<1>4. CASE /\ TheRequest.s_type = "Register" /\ Register(TheRequest)
  <2>1. TheSender \in Client
    BY <1>1 DEF TheSender
  <2>2. segments' = Append(segments, NewSegment(TheSender))
    BY <1>4 DEF Register
  <2>3. Len(segments') = Len(segments) + 1
    BY <2>1, <2>2, FreshSegment
  <2>4. ca_mutex = NoOne
    BY <1>3, <1>4 DEF MayHandle
  <2>. QED  BY <1>1, <1>2, <1>4, <2>2, <2>3, <2>4 DEF Register
<1>5. CASE TheRequest.s_type = "Deregister" /\ Deregister(TheRequest)
  <2>1. ca_mutex = NoOne
    BY <1>3, <1>5 DEF MayHandle
  <2>. QED  BY <1>1, <1>2, <1>5, <2>1 DEF Deregister
<1>6. CASE \/ TheRequest.s_type = "Activate" /\ SetActive(TRUE)
           \/ TheRequest.s_type = "Deactivate" /\ SetActive(FALSE)
  BY <1>1, <1>2, <1>6 DEF SetActive
<1>7. CASE /\ \/ TheRequest.s_type \in {"GetStatistics", "DescribeDatabase", "DescribeVariable"}
              \/ Status(TheRequest) # "OK"
           /\ UNCHANGED <<vardis_isActive, clientApplications, shm, segments>>
  BY <1>1, <1>2, <1>7
<1>. QED  BY <1>3, <1>4, <1>5, <1>6, <1>7 DEF Effect


LEMMA StepCases ==
    ASSUME [Next]_vars
    PROVE  \/ Quiet \/ RtdbRequest \/ RtdbThrows \/ RtdbDrained \/ HandleRequest
           \/ \E c \in Client :
                 \/ SocketMove(c) \/ Attach(c) \/ RtdbCall(c) \/ PushRequest(c) \/ WaitToPush(c)
                 \/ WaitToPop(c) \/ PopConfirm(c) \/ Timeout(c) \/ DieInQueue(c)
                 \/ ReadValue(c) \/ ReadEntry(c) \/ DieReading(c)
<1>1. CASE Next
  BY <1>1 DEF Next, Rtdb, Command, Application, Quiet, SocketMove
<1>2. CASE UNCHANGED vars
  BY <1>2 DEF Quiet
<1>. QED  BY <1>1, <1>2

LEMMA CasesAreActions ==
    ASSUME NEW c \in Client,
           \/ SocketMove(c) \/ Attach(c) \/ RtdbCall(c) \/ PushRequest(c) \/ WaitToPush(c)
           \/ WaitToPop(c) \/ PopConfirm(c) \/ Timeout(c) \/ DieInQueue(c)
           \/ ReadValue(c) \/ ReadEntry(c) \/ DieReading(c)
    PROVE  Application(c)
BY DEF Application, SocketMove

\* Segments only get older.
LEMMA SegmentsStep ==
    ASSUME ClientAssumption, IInv, [Next]_vars
    PROVE  /\ SegmentsOK' /\ Len(segments) \in Nat
           /\ Len(segments') \in {Len(segments), Len(segments) + 1}
           /\ \A s \in 1 .. Len(segments) :
                 /\ segments'[s].maker = segments[s].maker
                 /\ segments[s].disturbed => segments'[s].disturbed
<1> DEFINE Goal == /\ SegmentsOK' /\ Len(segments') \in {Len(segments), Len(segments) + 1}
                   /\ \A s \in 1 .. Len(segments) :
                         /\ segments'[s].maker = segments[s].maker
                         /\ segments[s].disturbed => segments'[s].disturbed
<1>1. ThreadsOK /\ SegmentsOK /\ IdsOK /\ CallsOK /\ UseOK /\ AppsOK /\ SocketOK
  BY DEF IInv
<1>2. Len(segments) \in Nat
  BY <1>1, LenProperties DEF SegmentsOK
<1>3. CASE UNCHANGED segments
  BY <1>1, <1>3 DEF SegmentsOK
<1>4. ASSUME NEW s \in 1 .. Len(segments), NEW svc, NEW q, ReqSet(segments, segments', s, svc, q)
      PROVE  Goal
  BY <1>4 DEF ReqSet, SegmentsOK
<1>5. ASSUME NEW s \in 1 .. Len(segments), NEW svc, NEW q, ConfSet(segments, segments', s, svc, q)
      PROVE  Goal
  BY <1>5 DEF ConfSet, SegmentsOK
<1>6. ASSUME NEW s \in 1 .. Len(segments), NEW b, segments[s].disturbed => b,
             DisturbedSet(segments, segments', s, b)
      PROVE  Goal
  BY <1>6 DEF DisturbedSet, SegmentsOK
<1>7. CASE Quiet
  BY <1>3, <1>7, QuietKeeps
<1>8. CASE RtdbRequest
  <2>1. PICK s \in 1 .. Len(segments), svc \in Services, t \in Seq(Segment) :
            /\ ReqSet(segments, t, s, svc, [segments[s].req[svc] EXCEPT !.items = Tail(@)])
            /\ \/ segments' = t
               \/ \E p : ConfSet(t, segments', s, svc, p)
    BY <1>1, <1>8, RtdbRequestOK, ZenonT(40)
  <2>2. CASE segments' = t
    BY <1>4, <2>1, <2>2
  <2>3. CASE \E p : ConfSet(t, segments', s, svc, p)
    <3>1. PICK p : ConfSet(t, segments', s, svc, p)
      BY <2>3
    <3>. QED  BY <2>1, <3>1, SMTT(30) DEF ReqSet, ConfSet, SegmentsOK
  <2>. QED  BY <1>2, <2>1, <2>2, <2>3
<1>9. CASE RtdbThrows
  BY <1>1, <1>2, <1>4, <1>9, RtdbThrowsOK
<1>10. CASE RtdbDrained
  BY <1>1, <1>2, <1>4, <1>10, RtdbDrainedOK
<1>11. CASE HandleRequest
  <2>1. CASE UNCHANGED segments
    BY <1>2, <1>3, <2>1
  <2>2. CASE segments' = Append(segments, NewSegment(TheSender))
    <3>1. PICK m \in Client : m = TheSender
      BY <1>1, <1>11, HandledOK DEF TheSender
    <3>. QED  BY <1>1, <1>2, <2>2, <3>1, FreshSegment
  <2>. QED  BY <1>1, <1>11, <2>1, <2>2, HandledOK
<1>12. ASSUME NEW c \in Client,
              \/ SocketMove(c) \/ Attach(c) \/ RtdbCall(c) \/ PushRequest(c) \/ WaitToPush(c)
              \/ WaitToPop(c) \/ PopConfirm(c) \/ Timeout(c) \/ DieInQueue(c)
              \/ ReadValue(c) \/ ReadEntry(c) \/ DieReading(c)
       PROVE  Goal
  <2>1. CASE SocketMove(c) \/ WaitToPush(c) \/ WaitToPop(c)
    BY <1>1, <1>3, <2>1, SocketMoveOK, WaitOK
  <2>2. CASE ReadValue(c) \/ ReadEntry(c) \/ DieReading(c)
    BY <1>1, <1>3, <2>2, ReadValueOK, ReadEntryOK, DieReadingOK
  <2>3. CASE Attach(c)
    BY <1>1, <1>3, <1>6, <2>3, AttachOK
  <2>4. Using(c) => app[c].segment \in 1 .. Len(segments)
    BY <1>1 DEF UseOK
  <2>5. CASE RtdbCall(c)
    BY <1>1, <1>5, <2>4, <2>5, RtdbCallOK DEF Using
  <2>6. CASE PushRequest(c)
    BY <1>1, <1>4, <2>4, <2>6, PushRequestOK DEF Using, Pushing
  <2>7. CASE PopConfirm(c)
    BY <1>1, <1>3, <1>5, <2>4, <2>7, PopConfirmOK DEF Using, Popping
  <2>8. CASE Timeout(c)
    BY <1>1, <1>6, <2>4, <2>8, TimeoutOK DEF Using, Pushing, Popping
  <2>9. CASE DieInQueue(c)
    BY <1>1, <1>4, <1>5, <2>4, <2>9, DieInQueueOK DEF Using, Pushing, Popping
  <2>. QED  BY <1>12, <2>1, <2>2, <2>3, <2>5, <2>6, <2>7, <2>8, <2>9
<1>13. Goal
  BY <1>7, <1>8, <1>9, <1>10, <1>11, <1>12, StepCases
<1>. QED  BY <1>2, <1>13


(***************************************************************************)
(* The invariant is kept, part by part.                                    *)
(***************************************************************************)
LEMMA ThreadsStep ==
    ASSUME ClientAssumption, IInv, [Next]_vars
    PROVE  ThreadsOK'
<1>1. ThreadsOK /\ SegmentsOK /\ IdsOK /\ CallsOK /\ UseOK /\ AppsOK /\ SocketOK /\ ReadersOK
  BY DEF IInv
<1>2. Len(segments) \in Nat /\ Len(segments') \in {Len(segments), Len(segments) + 1}
  BY SegmentsStep
<1>3. DOMAIN pc = {"rtdb", "command"} /\ service \in 1 .. 3 /\ vardis_exitFlag \in BOOLEAN
  BY <1>1 DEF ThreadsOK
<1>4. /\ clientApplications \in [Name -> 0 .. Len(segments')]
      /\ shm \in [Name -> 0 .. Len(segments')]
  <2>1. 0 .. Len(segments) \subseteq 0 .. Len(segments')
    BY <1>2
  <2>. QED  BY <1>1, <2>1 DEF ThreadsOK
\* The table of the clients is as it was.
<1>5. ASSUME UNCHANGED <<clientApplications, shm>>,
             DOMAIN pc' = {"rtdb", "command"},
             pc'["rtdb"] \in Working \cup {"ended", "killed", "gone"},
             pc'["rtdb"] \notin Working => vardis_exitFlag', vardis_exitFlag' \in BOOLEAN,
             pc'["rtdb"] = "drain" => store_mutex' = TheDaemon,
             pc'["rtdb"] \in {"client", "queue", "drain"} =>
                ca_mutex' = TheDaemon /\ todo' \subseteq Registered,
             pc'["rtdb"] \in {"queue", "drain"} => todo' # {},
             service' \in 1 .. 3
      PROVE  ThreadsOK'
  <2>1. Registered' = Registered
    BY <1>5 DEF Registered
  <2>. QED  BY <1>4, <1>5, <2>1 DEF ThreadsOK
<1>6. CASE RtdbLoop
  <2>1. UNCHANGED <<clientApplications, shm, store_mutex, vardis_exitFlag>> /\ service' = 1
    BY <1>6 DEF RtdbLoop, RtdbKeeps, storeVars
  <2>2. CASE Goto("rtdb", "ended") /\ vardis_exitFlag
    BY <1>3, <1>5, <2>1, <2>2 DEF Goto, Working
  <2>3. CASE Goto("rtdb", "client") /\ ca_mutex' = TheDaemon /\ todo' = Registered
    BY <1>3, <1>5, <2>1, <2>3 DEF Goto, Working
  <2>. QED  BY <1>6, <2>2, <2>3 DEF RtdbLoop
<1>7. CASE RtdbClient
  <2>1. /\ UNCHANGED <<clientApplications, shm, store_mutex, vardis_exitFlag>> /\ service' = 1
        /\ pc["rtdb"] = "client"
    BY <1>7 DEF RtdbClient, RtdbKeeps, storeVars
  <2>2. ca_mutex = TheDaemon /\ todo \subseteq Registered
    BY <1>1, <2>1 DEF ThreadsOK
  <2>3. CASE Goto("rtdb", "loop")
    BY <1>3, <1>5, <2>1, <2>3 DEF Goto, Working
  <2>4. CASE todo' = todo \ {TheName} /\ UNCHANGED <<ca_mutex, pc>>
    BY <1>3, <1>5, <2>1, <2>2, <2>4 DEF Working
  <2>5. CASE todo # {} /\ Goto("rtdb", "queue") /\ UNCHANGED <<ca_mutex, todo>>
    BY <1>3, <1>5, <2>1, <2>2, <2>5 DEF Goto, Working
  <2>. QED  BY <1>7, <2>3, <2>4, <2>5 DEF RtdbClient
\* On to the next queue.
<1>8. ASSUME NextQueue, ca_mutex = TheDaemon, todo \subseteq Registered, todo # {},
             UNCHANGED <<clientApplications, shm, ca_mutex>>, vardis_exitFlag' \in BOOLEAN
      PROVE  ThreadsOK'
  <2>1. CASE todo' = todo \ {TheName} /\ service' = 1 /\ Goto("rtdb", "client")
    BY <1>3, <1>5, <1>8, <2>1 DEF Goto, Working
  <2>2. CASE service # 3 /\ service' = service + 1 /\ Goto("rtdb", "queue") /\ UNCHANGED todo
    <3>1. service' \in 1 .. 3
      BY <1>3, <2>2
    <3>. QED  BY <1>3, <1>5, <1>8, <2>2, <3>1 DEF Goto, Working
  <2>. QED  BY <1>8, <2>1, <2>2, ServiceNames DEF NextQueue
<1>9. CASE RtdbQueue
  <2>1. /\ UNCHANGED <<clientApplications, shm, ca_mutex>> /\ pc["rtdb"] = "queue"
    BY <1>9 DEF RtdbQueue, RtdbKeeps
  <2>2. ca_mutex = TheDaemon /\ todo \subseteq Registered /\ todo # {}
    BY <1>1, <2>1 DEF ThreadsOK
  <2>3. CASE NextQueue /\ vardis_exitFlag' \in {vardis_exitFlag, TRUE}
    BY <1>3, <1>8, <2>1, <2>2, <2>3
  <2>4. CASE /\ store_mutex' = TheDaemon /\ Goto("rtdb", "drain")
             /\ UNCHANGED <<vardis_exitFlag, todo, service>>
    BY <1>3, <1>5, <2>1, <2>2, <2>4 DEF Goto, Working
  <2>. QED  BY <1>9, <2>3, <2>4 DEF RtdbQueue
<1>10. CASE RtdbRequest
  <2>1. /\ pc["rtdb"] = "drain" /\ vardis_exitFlag' \in BOOLEAN
        /\ UNCHANGED <<pc, ca_mutex, todo, service, store_mutex, clientApplications, shm>>
    BY <1>1, <1>3, <1>10, RtdbRequestOK
  <2>2. ca_mutex = TheDaemon /\ todo \subseteq Registered /\ todo # {} /\ store_mutex = TheDaemon
    BY <1>1, <2>1 DEF ThreadsOK
  <2>. QED  BY <1>3, <1>5, <2>1, <2>2 DEF Working
<1>11. CASE RtdbThrows
  <2>1. /\ pc' = [pc EXCEPT !["rtdb"] = "ended"] /\ vardis_exitFlag' = TRUE
        /\ UNCHANGED <<clientApplications, shm, service>>
    BY <1>1, <1>11, RtdbThrowsOK
  <2>. QED  BY <1>3, <1>5, <2>1 DEF Working
<1>12. CASE RtdbDrained
  <2>1. /\ pc["rtdb"] = "drain" /\ NextQueue
        /\ UNCHANGED <<vardis_exitFlag, ca_mutex, clientApplications, shm>>
    BY <1>1, <1>12, RtdbDrainedOK
  <2>2. ca_mutex = TheDaemon /\ todo \subseteq Registered /\ todo # {}
    BY <1>1, <2>1 DEF ThreadsOK
  <2>. QED  BY <1>3, <1>8, <2>1, <2>2
\* The rtdb thread is where it was.
<1>13. ASSUME UNCHANGED <<clientApplications, shm, ca_mutex, todo, service>>,
              DOMAIN pc' = {"rtdb", "command"}, pc'["rtdb"] = pc["rtdb"],
              vardis_exitFlag' \in {vardis_exitFlag, TRUE},
              pc["rtdb"] = "drain" => store_mutex' = store_mutex
       PROVE  ThreadsOK'
  <2>1. vardis_exitFlag' \in BOOLEAN /\ (vardis_exitFlag => vardis_exitFlag')
    <3>1. CASE vardis_exitFlag' = TRUE
      BY <3>1
    <3>2. CASE vardis_exitFlag' = vardis_exitFlag
      BY <1>3, <3>2
    <3>. QED  BY <1>13, <3>1, <3>2
  <2>2. /\ pc["rtdb"] \in Working \cup {"ended", "killed", "gone"}
        /\ pc["rtdb"] \notin Working => vardis_exitFlag
        /\ pc["rtdb"] = "drain" => store_mutex = TheDaemon
        /\ pc["rtdb"] \in {"client", "queue", "drain"} =>
              ca_mutex = TheDaemon /\ todo \subseteq Registered
        /\ pc["rtdb"] \in {"queue", "drain"} => todo # {}
    BY <1>1 DEF ThreadsOK
  <2>. QED  BY <1>3, <1>5, <1>13, <2>1, <2>2
<1>14. CASE Others \/ UNCHANGED vars
  <2>1. UNCHANGED <<clientApplications, shm, ca_mutex, todo, service, pc, vardis_exitFlag,
                    store_mutex>>
    <3>1. CASE Others
      <4>1. PICK v \in scenario.others : CreateOther(v) \/ MarkDeleted(v)
        BY <3>1 DEF Others
      <4>. QED  BY <4>1 DEF CreateOther, MarkDeleted, OthersKeep, daemonVars, threadVars
    <3>2. CASE UNCHANGED vars
      BY <3>2 DEF vars, daemonVars, threadVars, storeVars
    <3>. QED  BY <1>14, <3>1, <3>2
  <2>. QED  BY <1>3, <1>13, <2>1
<1>15. CASE CommandLoop \/ ReadNothing \/ Shutdown \/ CommandStop
  <2>1. UNCHANGED <<clientApplications, shm, ca_mutex, todo, service, store_mutex>>
    BY <1>15 DEF CommandLoop, ReadNothing, Shutdown, CommandStop, CommandKeeps, daemonVars, storeVars
  <2>2. /\ vardis_exitFlag' \in {vardis_exitFlag, TRUE}
        /\ DOMAIN pc' = {"rtdb", "command"} /\ pc'["rtdb"] = pc["rtdb"]
    <3>1. CASE CommandLoop
      BY <1>3, <3>1 DEF CommandLoop, Goto
    <3>2. CASE ReadNothing \/ Shutdown \/ CommandStop
      BY <1>3, <3>2 DEF ReadNothing, Shutdown, CommandStop, Goto, daemonVars
    <3>. QED  BY <1>15, <3>1, <3>2
  <2>. QED  BY <1>13, <2>1, <2>2
<1>16. CASE DaemonExit
  <2>1. /\ pc' = [t \in DOMAIN pc |-> "gone"] /\ pc["rtdb"] = "ended" /\ UNCHANGED vardis_exitFlag
        /\ clientApplications' = [n \in Name |-> NoSegment]
        /\ shm' = [n \in Name |-> NoSegment] /\ UNCHANGED service
    BY <1>3, <1>16 DEF DaemonExit, CommandKeeps
  <2>2. vardis_exitFlag
    BY <1>1, <2>1 DEF ThreadsOK, Working
  <2>3. 0 \in 0 .. Len(segments')
    BY <1>2
  <2>4. /\ clientApplications' \in [Name -> 0 .. Len(segments')]
        /\ shm' \in [Name -> 0 .. Len(segments')]
    BY <2>1, <2>3 DEF NoSegment
  <2>5. DOMAIN pc' = {"rtdb", "command"} /\ pc'["rtdb"] = "gone"
    BY <1>3, <2>1
  <2>. QED  BY <1>3, <2>1, <2>2, <2>4, <2>5 DEF ThreadsOK, Working
<1>17. CASE HandleRequest
  <2>1. UNCHANGED <<ca_mutex, todo, service, store_mutex>>
    BY <1>1, <1>17, HandledOK
  <2>2. /\ DOMAIN pc' = {"rtdb", "command"} /\ vardis_exitFlag' \in {vardis_exitFlag, TRUE}
        /\ \/ pc'["rtdb"] = pc["rtdb"]
           \/ pc'["rtdb"] = "killed" /\ vardis_exitFlag'
    BY <1>3, <1>17 DEF HandleRequest, Goto
  <2>3. CASE UNCHANGED <<clientApplications, shm>>
    <3>1. CASE pc'["rtdb"] = pc["rtdb"]
      BY <1>13, <2>1, <2>2, <2>3, <3>1
    <3>2. CASE pc'["rtdb"] = "killed" /\ vardis_exitFlag'
      BY <1>3, <1>5, <2>1, <2>2, <2>3, <3>2 DEF Working
    <3>. QED  BY <2>2, <3>1, <3>2
  <2>4. ASSUME NEW x \in 0 .. Len(segments'), NEW n, ca_mutex = NoOne,
               clientApplications' = [clientApplications EXCEPT ![n] = x],
               shm' = [shm EXCEPT ![n] = x]
        PROVE  ThreadsOK'
    <3>1. /\ clientApplications' \in [Name -> 0 .. Len(segments')]
          /\ shm' \in [Name -> 0 .. Len(segments')]
      BY <1>4, <2>4
    <3>2. /\ pc["rtdb"] \notin {"client", "queue", "drain"}
          /\ pc["rtdb"] \in Working \cup {"ended", "killed", "gone"}
          /\ pc["rtdb"] \notin Working => vardis_exitFlag
      BY <1>1, <2>4 DEF ThreadsOK, TheDaemon, NoOne
    <3>3. vardis_exitFlag' \in BOOLEAN /\ (vardis_exitFlag => vardis_exitFlag')
      <4>1. CASE vardis_exitFlag' = TRUE
        BY <4>1
      <4>2. CASE vardis_exitFlag' = vardis_exitFlag
        BY <1>3, <4>2
      <4>. QED  BY <2>2, <4>1, <4>2
    <3>. QED  BY <1>3, <2>1, <2>2, <3>1, <3>2, <3>3 DEF ThreadsOK, Working
  <2>5. CASE /\ ca_mutex = NoOne /\ segments' = Append(segments, NewSegment(TheSender))
             /\ clientApplications' = [clientApplications EXCEPT
                                          ![TheRequest.name] = Len(segments) + 1]
             /\ shm' = [shm EXCEPT ![TheRequest.name] = Len(segments) + 1]
    <3>1. PICK m \in Client : m = TheSender
      BY <1>1, <1>17, HandledOK DEF TheSender
    <3>2. Len(segments') = Len(segments) + 1
      BY <1>1, <2>5, <3>1, FreshSegment
    <3>3. PICK x \in 0 .. Len(segments') : x = Len(segments) + 1
      BY <1>2, <3>2
    <3>4. PICK n : n = TheRequest.name
      OBVIOUS
    <3>. QED  BY <2>4, <2>5, <3>3, <3>4
  <2>6. CASE /\ ca_mutex = NoOne
             /\ clientApplications' = [clientApplications EXCEPT
                                          ![TheRequest.name] = NoSegment]
             /\ shm' = [shm EXCEPT ![TheRequest.name] = NoSegment]
    <3>1. PICK x \in 0 .. Len(segments') : x = NoSegment
      BY <1>2 DEF NoSegment
    <3>2. PICK n : n = TheRequest.name
      OBVIOUS
    <3>. QED  BY <2>4, <2>6, <3>1, <3>2
  <2>. QED  BY <1>1, <1>17, <2>3, <2>5, <2>6, HandledOK
<1>18. ASSUME NEW c \in Client, Application(c), pc["rtdb"] = "drain" => store_mutex' = store_mutex
       PROVE  ThreadsOK'
  BY <1>3, <1>13, <1>18, ApplicationKeeps
<1>19. ASSUME NEW c \in Client,
              \/ SocketMove(c) \/ Attach(c) \/ RtdbCall(c) \/ PushRequest(c) \/ WaitToPush(c)
              \/ WaitToPop(c) \/ PopConfirm(c) \/ Timeout(c) \/ DieInQueue(c)
              \/ ReadValue(c) \/ ReadEntry(c) \/ DieReading(c)
       PROVE  ThreadsOK'
  <2>1. Application(c)
    BY <1>19, CasesAreActions
  <2>2. CASE SocketMove(c) \/ Attach(c) \/ RtdbCall(c) \/ PushRequest(c) \/ WaitToPush(c)
    BY <1>1, <1>18, <2>1, <2>2, SocketMoveOK, AttachOK, RtdbCallOK, PushRequestOK, WaitOK
  <2>3. CASE WaitToPop(c) \/ PopConfirm(c) \/ Timeout(c) \/ DieInQueue(c) \/ DieReading(c)
    BY <1>1, <1>18, <2>1, <2>3, WaitOK, PopConfirmOK, TimeoutOK, DieInQueueOK, DieReadingOK
  <2>4. pc["rtdb"] = "drain" => store_mutex = TheDaemon
    BY <1>1 DEF ThreadsOK
  <2>5. CASE ReadValue(c)
    <3>1. store_mutex = NoOne
      BY <1>1, <2>5, ReadValueOK
    <3>. QED  BY <1>18, <2>1, <2>4, <3>1 DEF NoOne, TheDaemon
  <2>6. CASE ReadEntry(c)
    <3>1. store_mutex = c /\ c \in Nat
      BY <1>1, <2>6, ReadEntryOK, Constants DEF ReadersOK
    <3>. QED  BY <1>18, <2>1, <2>4, <3>1 DEF TheDaemon
  <2>. QED  BY <1>19, <2>2, <2>3, <2>5, <2>6
<1>. QED  BY <1>6, <1>7, <1>9, <1>10, <1>11, <1>12, <1>14, <1>15, <1>16, <1>17, <1>19, StepCases
          DEF Quiet


\* What has been cut short stays so: the rtdb thread does not run again.
LEMMA BrokenKept ==
    ASSUME ThreadsOK, [Next]_vars, pc["rtdb"] \notin Working
    PROVE  pc'["rtdb"] \notin Working /\ carried' = carried
<1>1. DOMAIN pc = {"rtdb", "command"}
  BY DEF ThreadsOK
<1>2. CASE RtdbLoop \/ RtdbClient \/ RtdbQueue \/ RtdbRequest \/ RtdbThrows \/ RtdbDrained
  BY <1>2 DEF RtdbLoop, RtdbClient, RtdbQueue, RtdbRequest, RtdbThrows, RtdbDrained, Working
<1>3. CASE Others
  <2>1. PICK v \in scenario.others : CreateOther(v) \/ MarkDeleted(v)
    BY <1>3 DEF Others
  <2>. QED  BY <2>1 DEF CreateOther, MarkDeleted, OthersKeep, threadVars, callVars
<1>4. CASE CommandLoop
  BY <1>1, <1>4 DEF CommandLoop, CommandKeeps, callVars, Goto
<1>5. CASE ReadNothing \/ Shutdown \/ CommandStop
  BY <1>1, <1>5 DEF ReadNothing, Shutdown, CommandStop, CommandKeeps, callVars, Goto
<1>6. CASE DaemonExit
  BY <1>1, <1>6 DEF DaemonExit, CommandKeeps, callVars, Working
<1>7. CASE HandleRequest
  BY <1>1, <1>7 DEF HandleRequest, CommandKeeps, callVars, Goto, Working
<1>8. CASE UNCHANGED vars
  BY <1>8 DEF vars, threadVars, callVars
<1>9. ASSUME NEW c \in Client, Application(c)
      PROVE  pc'["rtdb"] \notin Working /\ carried' = carried
  BY <1>9, ApplicationKeeps
<1>. QED  BY <1>2, <1>3, <1>4, <1>5, <1>6, <1>7, <1>8, <1>9 DEF Next, Rtdb, Command

\* Only three actions write to the store.
LEMMA StoreKept ==
    ASSUME [Next]_vars, ~ RtdbRequest, ~ RtdbThrows, ~ Others
    PROVE  UNCHANGED variable_store
<1>1. CASE RtdbLoop \/ RtdbClient \/ RtdbQueue \/ RtdbDrained
  BY <1>1 DEF RtdbLoop, RtdbClient, RtdbQueue, RtdbDrained, storeVars
<1>2. CASE Command \/ DaemonExit
  BY <1>2 DEF Command, CommandLoop, ReadNothing, HandleRequest, Shutdown, CommandStop, DaemonExit,
              CommandKeeps, storeVars
<1>3. CASE UNCHANGED vars
  BY <1>3 DEF vars, storeVars
<1>4. ASSUME NEW c \in Client, Application(c)
      PROVE  UNCHANGED variable_store
  BY <1>4, ApplicationKeeps
<1>. QED  BY <1>1, <1>2, <1>3, <1>4 DEF Next, Rtdb

\* The first request in a queue has a number of its own, and has not been carried out.
LEMMA HeadIsSlot ==
    ASSUME ClientAssumption, SegmentsOK, IdsOK, NEW s \in 1 .. Len(segments), NEW svc \in Services,
           segments[s].req[svc].items # <<>>
    PROVE  /\ Slot(s, svc, 1) /\ Head(segments[s].req[svc].items) = segments[s].req[svc].items[1]
           /\ At(s, svc, 1) \in 1 .. MaxRequests /\ carried[At(s, svc, 1)] = 0
<1>1. segments[s].req[svc].items \in Seq(Question)
  <2>1. segments[s] \in Segment
    BY ElementOfSeq DEF SegmentsOK
  <2>. QED  BY <2>1 DEF Segment, QueueOf
<1>2. PICK q \in Seq(Question) : q = segments[s].req[svc].items
  BY <1>1
<1>3. PICK n \in Nat : Len(q) = n + 1 /\ Head(q) = q[1]
  BY <1>2, TailOf
<1>4. 1 \in 1 .. Len(q)
  BY <1>3
<1>5. Slot(s, svc, 1)
  BY <1>2, <1>4 DEF Slot
<1>6. At(s, svc, 1) \in 1 .. issued /\ carried[At(s, svc, 1)] = 0
  BY <1>5 DEF IdsOK
<1>7. issued \in 0 .. MaxRequests /\ MaxRequests \in Nat
  BY Constants DEF IdsOK
<1>. QED  BY <1>2, <1>3, <1>5, <1>6, <1>7

\* Nobody reads while the store is locked by a thread of the daemon, or by nobody.
LEMMA NobodyReads ==
    ASSUME ClientAssumption, ReadersOK, store_mutex \in {NoOne, TheDaemon}, NEW c \in Client
    PROVE  app[c].pc # "reading"
<1>1. c \in Nat
  BY Constants
<1>2. c # NoOne /\ c # TheDaemon
  BY <1>1 DEF NoOne, TheDaemon
<1>. QED  BY <1>2 DEF ReadersOK

LEMMA StoreStep ==
    ASSUME ClientAssumption, IInv, [Next]_vars
    PROVE  StoreOK(variable_store)' /\ ValuesOK'
<1>1. /\ ThreadsOK /\ SegmentsOK /\ IdsOK /\ AppsOK /\ StoreOK(variable_store) /\ ValuesOK
  BY DEF IInv
<1>2. \A v \in InUse(variable_store) : Fits(variable_store, v) \/ Broken(Stamp(variable_store, v))
  BY <1>1 DEF ValuesOK, Fits, Data, Stamp, read_value, TStamp, get_db_entry
<1>3. ASSUME \A v \in InUse(variable_store') :
                Fits(variable_store', v) \/ Broken(TStamp(v))'
      PROVE  ValuesOK'
  BY <1>3 DEF ValuesOK, Fits, Data, Stamp, read_value, TStamp, get_db_entry
<1>4. pc["rtdb"] \in Working => \A v \in InUse(variable_store) : Fits(variable_store, v)
  BY <1>2 DEF Broken
<1>5. CASE UNCHANGED variable_store
  <2>1. ASSUME NEW t, Broken(t)
        PROVE  Broken(t)'
    BY <1>1, <2>1, BrokenKept DEF Broken, CutShort
  <2>2. ASSUME NEW v \in InUse(variable_store')
        PROVE  Fits(variable_store', v) \/ Broken(TStamp(v))'
    <3>1. PICK t : t = Stamp(variable_store, v)
      OBVIOUS
    <3>2. Fits(variable_store, v) \/ Broken(t)
      BY <1>2, <1>5, <2>2, <3>1
    <3>3. Fits(variable_store', v) \/ Broken(t)'
      BY <1>5, <2>1, <3>2
    <3>4. TStamp(v)' = t
      BY <1>5, <3>1 DEF TStamp, get_db_entry, Stamp
    <3>. QED  BY <3>3, <3>4 DEF Broken, CutShort
  <2>. QED  BY <1>1, <1>3, <1>5, <2>2
<1>6. CASE RtdbRequest
  <2>1. PICK r \in Question : variable_store' = HandlerEffect(r)
    BY <1>1, <1>6, RtdbRequestOK
  <2>2. pc["rtdb"] \in Working
    BY <1>6 DEF RtdbRequest, Working
  <2>3. StoreOK(variable_store') /\ \A v \in InUse(variable_store') : Fits(variable_store', v)
    BY <1>1, <1>4, <2>1, <2>2, HandlerOK
  <2>. QED  BY <1>3, <2>3, SMTT(30)
<1>7. CASE RtdbThrows
  <2>1. PICK s \in 1 .. Len(segments), svc \in Services :
            /\ segments[s].req[svc].items # <<>>
            /\ Head(segments[s].req[svc].items) \in Question
            /\ variable_store' = WithEntry(Head(segments[s].req[svc].items))
    BY <1>1, <1>7, RtdbThrowsOK
  <2>2. PICK r \in Question : r = Head(segments[s].req[svc].items)
    BY <2>1
  <2>3. /\ StoreOK(variable_store')
        /\ InUse(variable_store') = InUse(variable_store) \cup {r.varId}
        /\ Stamp(variable_store', r.varId) = r.id
        /\ \A w \in InUse(variable_store) : w # r.varId =>
              Data(variable_store', w) = Data(variable_store, w)
              /\ Stamp(variable_store', w) = Stamp(variable_store, w)
    BY <1>1, <2>1, <2>2, WithEntryOK
  <2>4. pc["rtdb"] \in Working /\ pc'["rtdb"] \notin Working /\ carried' = carried
    BY <1>1, <1>7, SMTT(30) DEF RtdbThrows, Working, Goto, ThreadsOK
  <2>5. r.id \in 1 .. MaxRequests /\ carried[r.id] = 0
    BY <1>1, <2>1, <2>2, HeadIsSlot DEF At
  <2>6. Broken(r.id)'
    BY <2>4, <2>5 DEF Broken, CutShort
  <2>7. ASSUME NEW v \in InUse(variable_store')
        PROVE  Fits(variable_store', v) \/ Broken(TStamp(v))'
    <3>1. CASE v = r.varId
      <4>1. TStamp(v)' = r.id
        BY <2>3, <3>1 DEF TStamp, get_db_entry, Stamp
      <4>. QED  BY <2>6, <4>1 DEF Broken, CutShort
    <3>2. CASE v # r.varId
      BY <1>4, <2>3, <2>4, <2>7, <3>2 DEF Fits
    <3>. QED  BY <3>1, <3>2
  <2>. QED  BY <1>3, <2>3, <2>7
<1>8. CASE Others
  <2>1. PICK v \in scenario.others : CreateOther(v) \/ MarkDeleted(v)
    BY <1>8 DEF Others
  <2>2. v \in VarId
    BY <1>1, <2>1 DEF AppsOK, ClientAssumption
  <2>3. pc["rtdb"] \in Working
    BY <1>1, <2>1 DEF ThreadsOK, CreateOther, MarkDeleted
  <2>4. StoreOK(variable_store') /\ \A w \in InUse(variable_store') : Fits(variable_store', w)
    BY <1>1, <1>4, <2>1, <2>2, <2>3, OtherThreadsOK
  <2>. QED  BY <1>3, <2>4
<1>. QED  BY <1>5, <1>6, <1>7, <1>8, StoreKept


LEMMA ReadersStep ==
    ASSUME ClientAssumption, IInv, [Next]_vars
    PROVE  ReadersOK'
<1>1. /\ ThreadsOK /\ SegmentsOK /\ IdsOK /\ CallsOK /\ UseOK /\ AppsOK /\ SocketOK
      /\ StoreOK(variable_store) /\ ValuesOK /\ ReadersOK
  BY DEF IInv
<1>2. ASSUME NEW t, Broken(t)
      PROVE  Broken(t)'
  BY <1>1, <1>2, BrokenKept DEF Broken, CutShort
\* One goes on to read.
<1>3. ASSUME UNCHANGED <<variable_store, store_mutex>>, NEW d \in Client, app[d].pc = "reading",
             app'[d].call = app[d].call, app'[d].value = app[d].value
      PROVE  /\ store_mutex' = d /\ TheCall(d)'.varId \in VarId /\ TheCall(d)'.op = "Read"
             /\ TheCall(d)'.varId \in InUse(variable_store') =>
                   \/ app'[d].value.data = <<TheCall(d)'.varId, TStamp(TheCall(d).varId)'>>
                   \/ Broken(TStamp(TheCall(d).varId))'
  <2>1. TheCall(d)' = TheCall(d)
    BY <1>3 DEF TheCall
  <2>2. PICK v : v = TheCall(d).varId
    OBVIOUS
  <2>3. PICK t : t = TStamp(v)
    OBVIOUS
  <2>4. TStamp(TheCall(d).varId)' = t
    BY <1>3, <2>1, <2>2, <2>3 DEF TStamp
  <2>5. /\ store_mutex = d /\ v \in VarId /\ TheCall(d).op = "Read"
        /\ v \in InUse(variable_store) => app[d].value.data = <<v, t>> \/ Broken(t)
    BY <1>1, <1>3, <2>2, <2>3 DEF ReadersOK
  <2>6. Broken(t) => Broken(TStamp(TheCall(d).varId))'
    BY <1>2, <2>4 DEF Broken, CutShort
  <2>. QED  BY <1>3, <2>1, <2>2, <2>4, <2>5, <2>6
<1>4. ASSUME UNCHANGED <<variable_store, store_mutex>>,
             \A d \in Client : app'[d].pc = "reading" =>
                app[d].pc = "reading" /\ app'[d].call = app[d].call /\ app'[d].value = app[d].value
      PROVE  ReadersOK'
  BY <1>3, <1>4 DEF ReadersOK
<1>5. ASSUME \A d \in Client : app'[d].pc # "reading"
      PROVE  ReadersOK'
  BY <1>5 DEF ReadersOK
<1>6. store_mutex \in {NoOne, TheDaemon} => \A d \in Client : app[d].pc # "reading"
  BY <1>1, NobodyReads
<1>7. CASE Quiet
  <2>1. UNCHANGED app
    BY <1>7, QuietKeeps
  <2>2. CASE RtdbQueue
    <3>1. store_mutex = NoOne
      BY <2>2 DEF RtdbQueue
    <3>. QED  BY <1>5, <1>6, <2>1, <3>1
  <2>3. CASE Others
    <3>1. store_mutex = NoOne
      BY <2>3 DEF Others, CreateOther, MarkDeleted
    <3>. QED  BY <1>5, <1>6, <2>1, <3>1
  <2>4. CASE ~ RtdbQueue /\ ~ Others
    <3>1. UNCHANGED <<variable_store, store_mutex>>
      BY <1>7, <2>4 DEF Quiet, RtdbLoop, RtdbClient, CommandLoop, ReadNothing, Shutdown, CommandStop,
                        DaemonExit, CommandKeeps, storeVars, vars
    <3>. QED  BY <1>4, <2>1, <3>1
  <2>. QED  BY <2>2, <2>3, <2>4
\* The rtdb thread has the store.
<1>8. ASSUME pc["rtdb"] = "drain"
      PROVE  \A d \in Client : app[d].pc # "reading"
  BY <1>1, <1>6, <1>8 DEF ThreadsOK
<1>9. CASE RtdbRequest
  <2>1. /\ pc["rtdb"] = "drain"
        /\ UNCHANGED app \/ \E s, svc : Woken(s, svc, "pop_waiting", "pop_woken")
    BY <1>1, <1>9, RtdbRequestOK, Zenon
  <2>2. \A d \in Client : app'[d].pc \in {app[d].pc, "pop_woken"}
    BY <2>1 DEF Woken
  <2>. QED  BY <1>5, <1>8, <2>1, <2>2
<1>10. CASE RtdbThrows
  BY <1>1, <1>5, <1>8, <1>10, RtdbThrowsOK
<1>11. CASE RtdbDrained
  <2>1. pc["rtdb"] = "drain" /\ \E s, svc : Woken(s, svc, "push_waiting", "push_woken")
    BY <1>1, <1>11, RtdbDrainedOK, Zenon
  <2>2. \A d \in Client : app'[d].pc \in {app[d].pc, "push_woken"}
    BY <2>1 DEF Woken
  <2>. QED  BY <1>5, <1>8, <2>1, <2>2
<1>12. CASE HandleRequest
  BY <1>1, <1>4, <1>12, HandledOK
<1>13. ASSUME NEW c \in Client,
              \/ SocketMove(c) \/ Attach(c) \/ RtdbCall(c) \/ PushRequest(c) \/ WaitToPush(c)
              \/ WaitToPop(c) \/ PopConfirm(c) \/ Timeout(c) \/ DieInQueue(c)
              \/ ReadValue(c) \/ ReadEntry(c) \/ DieReading(c)
       PROVE  ReadersOK'
  <2>1. UNCHANGED <<variable_store, pc, carried>>
    BY <1>13, CasesAreActions, ApplicationKeeps
  <2>2. ASSUME OnlyOne(c), app'[c].pc # "reading", UNCHANGED store_mutex
        PROVE  ReadersOK'
    <3>1. \A d \in Client : app'[d].pc = "reading" => app'[d] = app[d]
      BY <2>2 DEF OnlyOne
    <3>. QED  BY <1>4, <2>1, <2>2, <3>1
  <2>3. CASE SocketMove(c) \/ Attach(c) \/ RtdbCall(c) \/ PushRequest(c)
    BY <1>1, <2>2, <2>3, SocketMoveOK, AttachOK, RtdbCallOK, PushRequestOK DEF Asking
  <2>4. CASE WaitToPush(c) \/ WaitToPop(c) \/ PopConfirm(c) \/ Timeout(c)
    BY <1>1, <2>2, <2>4, WaitOK, PopConfirmOK, TimeoutOK
  <2>5. CASE DieInQueue(c) \/ DieReading(c)
    BY <1>1, <2>2, <2>5, DieInQueueOK, DieReadingOK
  <2>6. CASE ReadEntry(c)
    <3>1. OnlyOne(c) /\ app[c].pc = "reading" /\ app'[c].pc = "on"
      BY <1>1, <2>6, ReadEntryOK
    <3>2. \A d \in Client : app[d].pc = "reading" => d = c
      BY <1>1, <3>1 DEF ReadersOK
    <3>. QED  BY <1>5, <3>1, <3>2 DEF OnlyOne
  <2>7. CASE ReadValue(c)
    <3>1. /\ OnlyOne(c) /\ store_mutex = NoOne /\ store_mutex' = c
          /\ app'[c].call.op = "Read" /\ app'[c].call.varId \in VarId
          /\ app'[c].call.varId \in InUse(variable_store) =>
                app'[c].value = read_value(variable_store, app'[c].call.varId)
      BY <1>1, <2>7, ReadValueOK
    <3>2. \A d \in Client : app'[d].pc = "reading" => d = c
      BY <1>6, <3>1 DEF OnlyOne
    <3>3. PICK v \in VarId : v = app'[c].call.varId
      BY <3>1
    <3>4. TheCall(c)'.op = "Read" /\ TheCall(c)'.varId = v
      BY <3>1, <3>3 DEF TheCall
    <3>5. PICK t : t = TStamp(v)
      OBVIOUS
    <3>6. TStamp(TheCall(c).varId)' = t
      BY <2>1, <3>4, <3>5 DEF TStamp
    <3>7. v \in InUse(variable_store) => app'[c].value.data = <<v, t>> \/ Broken(t)
      BY <1>1, <3>1, <3>3, <3>5 DEF ValuesOK
    <3>8. Broken(t) => Broken(TStamp(TheCall(c).varId))'
      BY <2>1, <3>6 DEF Broken, CutShort
    <3>. QED  BY <2>1, <3>1, <3>2, <3>4, <3>6, <3>7, <3>8 DEF ReadersOK
  <2>. QED  BY <1>13, <2>3, <2>4, <2>5, <2>6, <2>7
<1>. QED  BY <1>7, <1>9, <1>10, <1>11, <1>12, <1>13, StepCases


\* The requests that are in the queues are where they were, or some are gone.
SlotsKept == \A s, svc, k : Slot(s, svc, k)' => Slot(s, svc, k) /\ At(s, svc, k)' = At(s, svc, k)

LEMMA KeptSlots ==
    ASSUME NEW s, NEW svc, NEW q, Len(segments) \in Nat,
           \/ UNCHANGED segments
           \/ ReqSet(segments, segments', s, svc, q) /\ q.items = segments[s].req[svc].items
           \/ ConfSet(segments, segments', s, svc, q)
           \/ \E b : DisturbedSet(segments, segments', s, b)
           \/ /\ Len(segments') = Len(segments) + 1
              /\ \A r \in 1 .. Len(segments) : segments'[r] = segments[r]
              /\ \A v \in Services : segments'[Len(segments) + 1].req[v].items = <<>>
    PROVE  SlotsKept
<1>1. CASE UNCHANGED segments
  BY <1>1 DEF SlotsKept, Slot, At
<1>2. ASSUME Len(segments') = Len(segments),
             \A r \in 1 .. Len(segments), v \in Services :
                segments'[r].req[v].items = segments[r].req[v].items
      PROVE  SlotsKept
  BY <1>2 DEF SlotsKept, Slot, At
<1>3. CASE ReqSet(segments, segments', s, svc, q) /\ q.items = segments[s].req[svc].items
  <2>1. ASSUME NEW r \in 1 .. Len(segments), NEW v \in Services
        PROVE  segments'[r].req[v].items = segments[r].req[v].items
    BY <1>3 DEF ReqSet
  <2>. QED  BY <1>2, <1>3, <2>1 DEF ReqSet
<1>4. CASE ConfSet(segments, segments', s, svc, q)
  <2>1. ASSUME NEW r \in 1 .. Len(segments), NEW v \in Services
        PROVE  segments'[r].req[v].items = segments[r].req[v].items
    BY <1>4 DEF ConfSet
  <2>. QED  BY <1>2, <1>4, <2>1 DEF ConfSet
<1>5. CASE \E b : DisturbedSet(segments, segments', s, b)
  <2>1. ASSUME NEW r \in 1 .. Len(segments), NEW v \in Services
        PROVE  segments'[r].req[v].items = segments[r].req[v].items
    BY <1>5 DEF DisturbedSet
  <2>. QED  BY <1>2, <1>5, <2>1 DEF DisturbedSet
<1>6. CASE /\ Len(segments') = Len(segments) + 1
           /\ \A r \in 1 .. Len(segments) : segments'[r] = segments[r]
           /\ \A v \in Services : segments'[Len(segments) + 1].req[v].items = <<>>
  <2>1. ASSUME NEW r, NEW v, NEW k, Slot(r, v, k)'
        PROVE  Slot(r, v, k) /\ At(r, v, k)' = At(r, v, k)
    <3>1. r \in 1 .. Len(segments) + 1 /\ v \in Services
          /\ k \in 1 .. Len(segments'[r].req[v].items)
      BY <1>6, <2>1 DEF Slot
    <3>2. CASE r = Len(segments) + 1
      <4>1. Len(segments'[r].req[v].items) = 0
        BY <1>6, <3>1, <3>2, EmptySeq
      <4>. QED  BY <3>1, <4>1
    <3>3. CASE r # Len(segments) + 1
      <4>1. r \in 1 .. Len(segments)
        BY <3>1, <3>3
      <4>. QED  BY <1>6, <3>1, <4>1 DEF Slot, At
    <3>. QED  BY <3>2, <3>3
  <2>. QED  BY <2>1 DEF SlotsKept
<1>. QED  BY <1>1, <1>3, <1>4, <1>5, <1>6

\* The first request has been taken from the queue svc of s, or one has been put there.
SlotsTaken(s, svc) ==
    \A r, v, k : Slot(r, v, k)' =>
        IF r = s /\ v = svc THEN Slot(r, v, k + 1) /\ At(r, v, k)' = At(r, v, k + 1) /\ k \in Nat \ {0}
        ELSE Slot(r, v, k) /\ At(r, v, k)' = At(r, v, k)

SlotsPut(s, svc, id) ==
    \A r, v, k : Slot(r, v, k)' =>
        \/ Slot(r, v, k) /\ At(r, v, k)' = At(r, v, k)
        \/ /\ At(r, v, k)' = id
           /\ r = s /\ v = svc /\ k = Len(segments'[s].req[svc].items)

LEMMA TakenSlots ==
    ASSUME SegmentsOK, NEW s \in 1 .. Len(segments), NEW svc \in Services, NEW t, NEW q, NEW p,
           segments[s].req[svc].items # <<>>, q.items = Tail(segments[s].req[svc].items),
           ReqSet(segments, t, s, svc, q), segments' = t \/ ConfSet(t, segments', s, svc, p)
    PROVE  SlotsTaken(s, svc)
<1>1. PICK items \in Seq(Question) : items = segments[s].req[svc].items
  <2>1. segments[s] \in Segment
    BY ElementOfSeq DEF SegmentsOK
  <2>. QED  BY <2>1 DEF Segment, QueueOf
<1>2. PICK n \in Nat : /\ Len(items) = n + 1 /\ Len(Tail(items)) = n
                       /\ \A i \in 1 .. n : Tail(items)[i] = items[i + 1]
  BY <1>1, TailOf
<1>3. /\ Len(segments') = Len(segments) /\ segments'[s].req[svc].items = Tail(items)
      /\ \A r \in 1 .. Len(segments), v \in Services : ~ (r = s /\ v = svc) =>
            segments'[r].req[v].items = segments[r].req[v].items
  <2>1. /\ Len(t) = Len(segments) /\ t[s].req[svc].items = Tail(items)
        /\ \A r \in 1 .. Len(segments), v \in Services : ~ (r = s /\ v = svc) =>
              t[r].req[v].items = segments[r].req[v].items
    BY <1>1 DEF ReqSet
  <2>2. CASE segments' = t
    BY <2>1, <2>2
  <2>3. CASE ConfSet(t, segments', s, svc, p)
    <3>1. Len(segments') = Len(t) /\ \A r \in 1 .. Len(segments) : segments'[r].req = t[r].req
      BY <2>1, <2>3 DEF ConfSet
    <3>. QED  BY <2>1, <3>1
  <2>. QED  BY <2>2, <2>3
<1>4. ASSUME NEW r, NEW v, NEW k, Slot(r, v, k)'
      PROVE  IF r = s /\ v = svc
             THEN Slot(r, v, k + 1) /\ At(r, v, k)' = At(r, v, k + 1) /\ k \in Nat \ {0}
             ELSE Slot(r, v, k) /\ At(r, v, k)' = At(r, v, k)
  <2>1. r \in 1 .. Len(segments) /\ v \in Services /\ k \in 1 .. Len(segments'[r].req[v].items)
    BY <1>3, <1>4 DEF Slot
  <2>2. CASE r = s /\ v = svc
    <3>1. k \in 1 .. n /\ k + 1 \in 1 .. n + 1 /\ k \in Nat \ {0}
      BY <1>2, <1>3, <2>1, <2>2, SMTT(30)
    <3>2. segments'[s].req[svc].items[k] = items[k + 1]
      BY <1>2, <1>3, <3>1
    <3>. QED  BY <1>1, <1>2, <2>1, <2>2, <3>1, <3>2 DEF Slot, At
  <2>3. CASE ~ (r = s /\ v = svc)
    BY <1>3, <2>1, <2>3 DEF Slot, At
  <2>. QED  BY <2>2, <2>3
<1>. QED  BY <1>4 DEF SlotsTaken

LEMMA PutSlots ==
    ASSUME SegmentsOK, NEW s \in 1 .. Len(segments), NEW svc \in Services, NEW x \in Question,
           ReqSet(segments, segments', s, svc, Push(segments[s].req[svc], x))
    PROVE  SlotsPut(s, svc, x.id)
<1>1. PICK q \in QueueOf(Question) : q = segments[s].req[svc]
  <2>1. segments[s] \in Segment
    BY ElementOfSeq DEF SegmentsOK
  <2>. QED  BY <2>1 DEF Segment
<1>2. Push(q, x).items = Append(q.items, x) /\ q.items \in Seq(Question)
  BY PushOK
<1>3. PICK n \in Nat : n = Len(q.items)
  BY <1>2, LenProperties
<1>4. PICK items : items = Push(q, x).items
  OBVIOUS
<1>5. Len(items) = n + 1 /\ items[n + 1] = x /\ \A i \in 1 .. n : items[i] = q.items[i]
  BY <1>2, <1>3, <1>4, AppendProperties
<1>6. /\ Len(segments') = Len(segments) /\ segments'[s].req[svc].items = items
      /\ \A r \in 1 .. Len(segments), v \in Services : ~ (r = s /\ v = svc) =>
            segments'[r].req[v].items = segments[r].req[v].items
  BY <1>1, <1>4 DEF ReqSet
<1>7. ASSUME NEW r, NEW v, NEW k, Slot(r, v, k)'
      PROVE  \/ Slot(r, v, k) /\ At(r, v, k)' = At(r, v, k)
             \/ /\ At(r, v, k)' = x.id
                /\ r = s /\ v = svc /\ k = Len(segments'[s].req[svc].items)
  <2>1. r \in 1 .. Len(segments) /\ v \in Services /\ k \in 1 .. Len(segments'[r].req[v].items)
    BY <1>6, <1>7 DEF Slot
  <2>2. CASE r = s /\ v = svc /\ k = n + 1
    BY <1>5, <1>6, <2>2 DEF At
  <2>3. CASE r = s /\ v = svc /\ k # n + 1
    <3>1. k \in 1 .. n
      BY <1>5, <1>6, <2>1, <2>3
    <3>. QED  BY <1>1, <1>3, <1>5, <1>6, <2>1, <2>3, <3>1 DEF Slot, At
  <2>4. CASE ~ (r = s /\ v = svc)
    BY <1>6, <2>1, <2>4 DEF Slot, At
  <2>. QED  BY <2>2, <2>3, <2>4
<1>. QED  BY <1>7 DEF SlotsPut


\* Which slots there are in the end, in each of the steps.
LEMMA SlotsStep ==
    ASSUME ClientAssumption, IInv, [Next]_vars
    PROVE  \/ /\ SlotsKept /\ carried' = carried /\ issued' \in {issued, issued + 1}
              /\ issued' \in 0 .. MaxRequests
           \/ \E s \in 1 .. Len(segments), svc \in Services :
                 /\ segments[s].req[svc].items # <<>> /\ SlotsTaken(s, svc) /\ issued' = issued
                 /\ carried' \in {carried, [carried EXCEPT ![At(s, svc, 1)] = @ + 1]}
           \/ \E c \in Client, s \in 1 .. Len(segments), svc \in Services :
                 /\ app[c].pc \in Pushing /\ app'[c].pc \notin Pushing
                 /\ SlotsPut(s, svc, TheCall(c).id) /\ issued' = issued /\ carried' = carried
<1>1. ThreadsOK /\ SegmentsOK /\ IdsOK /\ CallsOK /\ UseOK /\ AppsOK /\ SocketOK
  BY DEF IInv
<1>2. Len(segments) \in Nat /\ issued \in 0 .. MaxRequests
  BY <1>1, SegmentsStep DEF IdsOK
<1> DEFINE Old == /\ SlotsKept /\ carried' = carried /\ issued' \in {issued, issued + 1}
                  /\ issued' \in 0 .. MaxRequests
<1>3. ASSUME SlotsKept, UNCHANGED <<carried, issued>>
      PROVE  Old
  BY <1>2, <1>3
<1>4. CASE Quiet
  BY <1>2, <1>3, <1>4, QuietKeeps, KeptSlots, SMTT(30)
<1>5. CASE RtdbRequest
  <2>1. PICK s \in 1 .. Len(segments), svc \in Services, t \in Seq(Segment) :
            /\ segments[s].req[svc].items # <<>> /\ issued' = issued
            /\ Head(segments[s].req[svc].items) \in Question
            /\ carried' = [carried EXCEPT ![Head(segments[s].req[svc].items).id] = @ + 1]
            /\ ReqSet(segments, t, s, svc, [segments[s].req[svc] EXCEPT !.items = Tail(@)])
            /\ segments' = t \/ \E p : ConfSet(t, segments', s, svc, p)
    BY <1>1, <1>5, RtdbRequestOK, ZenonT(40)
  <2>2. carried' = [carried EXCEPT ![At(s, svc, 1)] = @ + 1]
    BY <1>1, <2>1, HeadIsSlot DEF At
  <2>3. PICK q : q = [segments[s].req[svc] EXCEPT !.items = Tail(@)]
    OBVIOUS
  <2>4. q.items = Tail(segments[s].req[svc].items)
    <3>1. segments[s].req[svc] \in QueueOf(Question)
      <4>1. segments[s] \in Segment
        BY <1>1, ElementOfSeq DEF SegmentsOK
      <4>. QED  BY <4>1 DEF Segment
    <3>. QED  BY <2>1, <2>3, <3>1, TakeOK
  <2>5. SlotsTaken(s, svc)
    BY <1>1, <2>1, <2>3, <2>4, TakenSlots
  <2>. QED  BY <2>1, <2>2, <2>5
<1>6. CASE RtdbThrows
  <2>1. PICK s \in 1 .. Len(segments), svc \in Services :
            /\ segments[s].req[svc].items # <<>> /\ issued' = issued /\ carried' = carried
            /\ ReqSet(segments, segments', s, svc, [segments[s].req[svc] EXCEPT !.items = Tail(@)])
    BY <1>1, <1>6, RtdbThrowsOK, Zenon
  <2>2. PICK q : q = [segments[s].req[svc] EXCEPT !.items = Tail(@)]
    OBVIOUS
  <2>3. q.items = Tail(segments[s].req[svc].items)
    <3>1. segments[s].req[svc] \in QueueOf(Question)
      <4>1. segments[s] \in Segment
        BY <1>1, ElementOfSeq DEF SegmentsOK
      <4>. QED  BY <4>1 DEF Segment
    <3>. QED  BY <2>1, <2>2, <3>1, TakeOK
  <2>4. SlotsTaken(s, svc)
    BY <1>1, <2>1, <2>2, <2>3, TakenSlots
  <2>. QED  BY <2>1, <2>4
<1>7. CASE RtdbDrained
  <2>1. PICK s \in 1 .. Len(segments), svc \in Services :
            ReqSet(segments, segments', s, svc, [segments[s].req[svc] EXCEPT !.has_data = FALSE])
    BY <1>1, <1>7, RtdbDrainedOK
  <2>2. PICK q : q = [segments[s].req[svc] EXCEPT !.has_data = FALSE]
    OBVIOUS
  <2>3. q.items = segments[s].req[svc].items
    <3>1. segments[s].req[svc] \in QueueOf(Question)
      <4>1. segments[s] \in Segment
        BY <1>1, ElementOfSeq DEF SegmentsOK
      <4>. QED  BY <4>1 DEF Segment
    <3>. QED  BY <2>2, <3>1, FlagsOK
  <2>4. SlotsKept
    BY <1>2, <2>1, <2>2, <2>3, KeptSlots
  <2>. QED  BY <1>1, <1>3, <1>7, <2>4, RtdbDrainedOK
<1>8. CASE HandleRequest
  <2>1. UNCHANGED <<issued, carried>>
    BY <1>1, <1>8, HandledOK
  <2>2. CASE UNCHANGED segments
    BY <1>2, <1>3, <2>1, <2>2, KeptSlots
  <2>3. CASE segments' = Append(segments, NewSegment(TheSender))
    <3>1. PICK m \in Client : m = TheSender
      BY <1>1, <1>8, HandledOK DEF TheSender
    <3>2. /\ Len(segments') = Len(segments) + 1
          /\ \A r \in 1 .. Len(segments) : segments'[r] = segments[r]
          /\ \A v \in Services : segments'[Len(segments) + 1].req[v].items = <<>>
      BY <1>1, <2>3, <3>1, FreshSegment
    <3>. QED  BY <1>2, <1>3, <2>1, <3>2, KeptSlots
  <2>. QED  BY <1>1, <1>8, <2>2, <2>3, HandledOK
<1>9. ASSUME NEW c \in Client,
             \/ SocketMove(c) \/ Attach(c) \/ RtdbCall(c) \/ WaitToPush(c)
             \/ WaitToPop(c) \/ PopConfirm(c) \/ Timeout(c) \/ DieInQueue(c)
             \/ ReadValue(c) \/ ReadEntry(c) \/ DieReading(c)
      PROVE  Old
  <2>1. carried' = carried
    BY <1>9, CasesAreActions, ApplicationKeeps
  <2>2. CASE SocketMove(c) \/ WaitToPush(c) \/ WaitToPop(c)
    BY <1>1, <1>2, <1>3, <2>1, <2>2, SocketMoveOK, WaitOK, KeptSlots
  <2>3. CASE ReadEntry(c) \/ DieReading(c)
    BY <1>1, <1>2, <1>3, <2>1, <2>3, ReadEntryOK, DieReadingOK, KeptSlots
  <2>4. CASE ReadValue(c)
    <3>1. UNCHANGED segments /\ issued' = issued + 1 /\ issued' \in 1 .. MaxRequests
      BY <1>1, <2>4, ReadValueOK
    <3>2. SlotsKept
      BY <1>2, <3>1, KeptSlots
    <3>. QED  BY <2>1, <3>1, <3>2
  <2>5. CASE Attach(c)
    BY <1>1, <1>2, <1>3, <2>1, <2>5, AttachOK, KeptSlots
  <2>6. CASE RtdbCall(c)
    <3>1. /\ issued' = issued + 1 /\ issued' \in 1 .. MaxRequests
          /\ \E s, svc, q : ConfSet(segments, segments', s, svc, q)
      BY <1>1, <2>6, RtdbCallOK, Zenon
    <3>2. SlotsKept
      BY <1>2, <3>1, KeptSlots
    <3>. QED  BY <2>1, <3>1, <3>2
  <2>7. CASE PopConfirm(c)
    <3>1. /\ UNCHANGED issued
          /\ UNCHANGED segments \/ \E s, svc, q : ConfSet(segments, segments', s, svc, q)
      BY <1>1, <2>7, PopConfirmOK, Zenon
    <3>2. SlotsKept
      BY <1>2, <3>1, KeptSlots
    <3>. QED  BY <1>3, <2>1, <3>1, <3>2
  <2>8. CASE Timeout(c)
    BY <1>1, <1>2, <1>3, <2>1, <2>8, TimeoutOK, KeptSlots
  <2>9. CASE DieInQueue(c)
    <3>0. PICK s : s = app[c].segment
      OBVIOUS
    <3>1. PICK svc \in Services :
              \/ ReqSet(segments, segments', s, svc, [segments[s].req[svc] EXCEPT !.locked = TRUE])
              \/ ConfSet(segments, segments', s, svc, [segments[s].conf[svc] EXCEPT !.locked = TRUE])
      BY <1>1, <2>9, <3>0, DieInQueueOK, Zenon
    <3>2. segments[s].req[svc] \in QueueOf(Question)
      BY <1>1, <2>9, <3>0, <3>1, ItsSegment, DieInQueueOK DEF Using, Pushing, Popping
    <3>3. PICK q : q = [segments[s].req[svc] EXCEPT !.locked = TRUE]
      OBVIOUS
    <3>4. q.items = segments[s].req[svc].items
      BY <3>2, <3>3, FlagsOK
    <3>5. SlotsKept
      BY <1>2, <3>1, <3>3, <3>4, KeptSlots
    <3>6. UNCHANGED issued
      BY <1>1, <2>9, DieInQueueOK
    <3>. QED  BY <1>3, <2>1, <3>5, <3>6
  <2>. QED  BY <1>9, <2>2, <2>3, <2>4, <2>5, <2>6, <2>7, <2>8, <2>9
<1>10. ASSUME NEW c \in Client, PushRequest(c)
       PROVE  \E s \in 1 .. Len(segments), svc \in Services :
                 /\ app[c].pc \in Pushing /\ app'[c].pc \notin Pushing
                 /\ SlotsPut(s, svc, TheCall(c).id) /\ issued' = issued /\ carried' = carried
  <2>1. carried' = carried
    BY <1>10, CasesAreActions, ApplicationKeeps
  <2>2. /\ app[c].pc \in Pushing /\ app'[c].pc \notin Pushing /\ issued' = issued
        /\ ReqSet(segments, segments', app[c].segment, TheCall(c).op,
                  Push(RequestsOf(c), TheCall(c)))
    BY <1>1, <1>10, PushRequestOK DEF Pushing
  <2>3. PICK s \in 1 .. Len(segments) : s = app[c].segment
    BY <1>1, <2>2, ItsSegment DEF Using
  <2>4. PICK svc \in Services : svc = TheCall(c).op
    BY <1>1, <2>2, ItsQueues
  <2>5. PICK x \in Question : x = TheCall(c)
    BY <1>1, <2>2, ItsQueues
  <2>6. ReqSet(segments, segments', s, svc, Push(segments[s].req[svc], x))
    BY <2>2, <2>3, <2>4, <2>5 DEF RequestsOf
  <2>7. SlotsPut(s, svc, TheCall(c).id)
    BY <1>1, <2>5, <2>6, PutSlots
  <2>. QED  BY <2>1, <2>2, <2>7
<1> HIDE DEF Old
<1>11. CASE \E c \in Client : PushRequest(c)
  BY <1>10, <1>11
<1>12. \/ Quiet \/ RtdbRequest \/ RtdbThrows \/ RtdbDrained \/ HandleRequest
       \/ \E c \in Client : PushRequest(c) \/ Old
  BY <1>9, StepCases
<1>. QED  BY <1>4, <1>5, <1>6, <1>7, <1>8, <1>11, <1>12 DEF Old



\* Requests stay in one place, and what is carried out is gone.
LEMMA IdsStep ==
    ASSUME ClientAssumption, IInv, [Next]_vars
    PROVE  IdsOK'
<1>1. SegmentsOK /\ IdsOK /\ CallsOK /\ issued \in 0 .. MaxRequests /\ MaxRequests \in Nat
  BY Constants DEF IInv, IdsOK
<1>2. carried \in [1 .. MaxRequests -> {0, 1}] /\ \A i \in 1 .. MaxRequests : i > issued => carried[i] = 0
  BY <1>1 DEF IdsOK
<1>3. /\ \A s, t, svc, other, k, l :
            Slot(s, svc, k) /\ Slot(t, other, l) /\ At(s, svc, k) = At(t, other, l) =>
               s = t /\ svc = other /\ k = l
      /\ \A s, svc, k : Slot(s, svc, k) =>
            At(s, svc, k) \in 1 .. issued /\ carried[At(s, svc, k)] = 0
  BY <1>1 DEF IdsOK
<1>4. CASE /\ SlotsKept /\ carried' = carried /\ issued' \in {issued, issued + 1}
           /\ issued' \in 0 .. MaxRequests
  <2>1. \A i \in 1 .. MaxRequests : i > issued' => carried'[i] = 0
    BY <1>1, <1>2, <1>4
  <2>2. \A s, t, svc, other, k, l :
            Slot(s, svc, k)' /\ Slot(t, other, l)' /\ At(s, svc, k)' = At(t, other, l)' =>
               s = t /\ svc = other /\ k = l
    BY <1>3, <1>4 DEF SlotsKept
  <2>3. ASSUME NEW s, NEW svc, NEW k, Slot(s, svc, k)'
        PROVE  At(s, svc, k)' \in 1 .. issued' /\ carried'[At(s, svc, k)'] = 0
    <3>1. At(s, svc, k)' = At(s, svc, k) /\ At(s, svc, k) \in 1 .. issued
          /\ carried[At(s, svc, k)] = 0
      BY <1>3, <1>4, <2>3 DEF SlotsKept
    <3>. QED  BY <1>1, <1>4, <3>1
  <2>. QED  BY <1>2, <1>4, <2>1, <2>2, <2>3 DEF IdsOK
<1>5. ASSUME NEW s \in 1 .. Len(segments), NEW svc \in Services,
             segments[s].req[svc].items # <<>>, SlotsTaken(s, svc), issued' = issued,
             carried' \in {carried, [carried EXCEPT ![At(s, svc, 1)] = @ + 1]}
      PROVE  IdsOK'
  <2>1. Slot(s, svc, 1) /\ At(s, svc, 1) \in 1 .. MaxRequests /\ carried[At(s, svc, 1)] = 0
    BY <1>1, <1>5, HeadIsSlot
  <2>2. At(s, svc, 1) \in 1 .. issued
    BY <1>3, <2>1
  <2>3. PICK a \in 1 .. issued : a = At(s, svc, 1)
    BY <2>2
  <2>4. /\ carried' \in [1 .. MaxRequests -> {0, 1}]
        /\ \A i \in 1 .. MaxRequests : i # a => carried'[i] = carried[i]
    BY <1>2, <1>5, <2>1, <2>3
  <2>5. \A i \in 1 .. MaxRequests : i > issued' => carried'[i] = 0
    BY <1>1, <1>2, <1>5, <2>3, <2>4
  <2>6. ASSUME NEW r, NEW v, NEW k, Slot(r, v, k)'
        PROVE  At(r, v, k)' \in 1 .. issued' /\ carried'[At(r, v, k)'] = 0
    <3>1. CASE r = s /\ v = svc
      <4>1. Slot(s, svc, k + 1) /\ At(r, v, k)' = At(s, svc, k + 1) /\ k \in Nat \ {0}
        BY <1>5, <2>6, <3>1 DEF SlotsTaken
      <4>2. k + 1 # 1
        BY <4>1
      <4>3. At(s, svc, k + 1) # a /\ At(s, svc, k + 1) \in 1 .. issued /\ carried[At(s, svc, k + 1)] = 0
        BY <1>3, <2>1, <2>3, <4>1, <4>2
      <4>. QED  BY <1>1, <1>5, <2>4, <4>1, <4>3
    <3>2. CASE ~ (r = s /\ v = svc)
      <4>1. Slot(r, v, k) /\ At(r, v, k)' = At(r, v, k)
        BY <1>5, <2>6, <3>2 DEF SlotsTaken
      <4>2. At(r, v, k) # a /\ At(r, v, k) \in 1 .. issued /\ carried[At(r, v, k)] = 0
        BY <1>3, <2>1, <2>3, <3>2, <4>1
      <4>. QED  BY <1>1, <1>5, <2>4, <4>1, <4>2
    <3>. QED  BY <3>1, <3>2
  <2>7. ASSUME NEW r, NEW v, NEW k, NEW t, NEW o, NEW l,
               Slot(r, v, k)', Slot(t, o, l)', At(r, v, k)' = At(t, o, l)'
        PROVE  r = t /\ v = o /\ k = l
    <3>1. CASE (r = s /\ v = svc) /\ (t = s /\ o = svc)
      <4>1. /\ Slot(s, svc, k + 1) /\ At(r, v, k)' = At(s, svc, k + 1) /\ k \in Nat
            /\ Slot(s, svc, l + 1) /\ At(t, o, l)' = At(s, svc, l + 1) /\ l \in Nat
        BY <1>5, <2>7, <3>1 DEF SlotsTaken
      <4>2. k + 1 = l + 1
        BY <1>3, <2>7, <4>1
      <4>. QED  BY <3>1, <4>1, <4>2
    <3>2. CASE (r = s /\ v = svc) /\ ~ (t = s /\ o = svc)
      <4>1. /\ Slot(s, svc, k + 1) /\ At(r, v, k)' = At(s, svc, k + 1)
            /\ Slot(t, o, l) /\ At(t, o, l)' = At(t, o, l)
        BY <1>5, <2>7, <3>2 DEF SlotsTaken
      <4>. QED  BY <1>3, <2>7, <3>2, <4>1
    <3>3. CASE ~ (r = s /\ v = svc) /\ (t = s /\ o = svc)
      <4>1. /\ Slot(s, svc, l + 1) /\ At(t, o, l)' = At(s, svc, l + 1)
            /\ Slot(r, v, k) /\ At(r, v, k)' = At(r, v, k)
        BY <1>5, <2>7, <3>3 DEF SlotsTaken
      <4>. QED  BY <1>3, <2>7, <3>3, <4>1
    <3>4. CASE ~ (r = s /\ v = svc) /\ ~ (t = s /\ o = svc)
      <4>1. /\ Slot(r, v, k) /\ At(r, v, k)' = At(r, v, k)
            /\ Slot(t, o, l) /\ At(t, o, l)' = At(t, o, l)
        BY <1>5, <2>7, <3>4 DEF SlotsTaken
      <4>. QED  BY <1>3, <2>7, <4>1
    <3>. QED  BY <3>1, <3>2, <3>3, <3>4
  <2>8. issued' \in 0 .. MaxRequests
    BY <1>1, <1>5
  <2>. QED  BY <2>4, <2>5, <2>6, <2>7, <2>8 DEF IdsOK
<1>6. ASSUME NEW c \in Client, NEW s \in 1 .. Len(segments), NEW svc \in Services,
             app[c].pc \in Pushing, SlotsPut(s, svc, TheCall(c).id), issued' = issued,
             carried' = carried
      PROVE  IdsOK'
  <2>1. /\ TheCall(c).id \in 1 .. issued /\ carried[TheCall(c).id] = 0
        /\ \A r, v, k : Slot(r, v, k) => At(r, v, k) # TheCall(c).id
    <3>1. TheCall(c) \in Question
      BY <1>1, <1>6 DEF CallsOK
    <3>2. TheCall(c).id \in 1 .. MaxRequests
      BY <3>1 DEF Question
    <3>. QED  BY <1>1, <1>6, <3>2 DEF CallsOK
  <2>2. PICK i \in 1 .. issued : i = TheCall(c).id
    BY <2>1
  <2>3. \A r, v, k : Slot(r, v, k)' =>
            \/ Slot(r, v, k) /\ At(r, v, k)' = At(r, v, k)
            \/ At(r, v, k)' = i /\ r = s /\ v = svc /\ k = Len(segments'[s].req[svc].items)
    BY <1>6, <2>2 DEF SlotsPut
  <2>4. \A r, v, k : Slot(r, v, k)' => At(r, v, k)' \in 1 .. issued' /\ carried'[At(r, v, k)'] = 0
    BY <1>3, <1>6, <2>1, <2>2, <2>3
  <2>5. ASSUME NEW r, NEW v, NEW k, NEW t, NEW o, NEW l,
               Slot(r, v, k)', Slot(t, o, l)', At(r, v, k)' = At(t, o, l)'
        PROVE  r = t /\ v = o /\ k = l
    BY <1>3, <2>1, <2>2, <2>3, <2>5
  <2>. QED  BY <1>1, <1>2, <1>6, <2>4, <2>5 DEF IdsOK
<1>. QED  BY <1>4, <1>5, <1>6, SlotsStep


\* Who waits for an answer, or to ask, has done so before, except where a call begins.
LEMMA CallersStep ==
    ASSUME ClientAssumption, IInv, [Next]_vars, \A c \in Client : ~ RtdbCall(c)
    PROVE  \A c \in Client : app'[c].pc \in Pushing \cup Popping =>
              /\ app'[c].call = app[c].call /\ app[c].pc \in Pushing \cup Popping
              /\ app'[c].pc \in Pushing => app[c].pc \in Pushing
<1>1. ThreadsOK /\ SegmentsOK /\ IdsOK /\ CallsOK /\ UseOK /\ AppsOK /\ SocketOK
  BY DEF IInv
<1>2. ASSUME UNCHANGED app
      PROVE  \A c \in Client : app'[c].call = app[c].call /\ app'[c].pc = app[c].pc
  BY <1>2
<1>3. ASSUME NEW s, NEW svc, NEW from, NEW to, Woken(s, svc, from, to),
             \/ from \in Pushing /\ to \in Pushing
             \/ from \in Popping /\ to \in Popping
      PROVE  \A c \in Client : app'[c].pc \in Pushing \cup Popping =>
              /\ app'[c].call = app[c].call /\ app[c].pc \in Pushing \cup Popping
              /\ app'[c].pc \in Pushing => app[c].pc \in Pushing
  <2>1. \A c \in Client : app'[c].call = app[c].call
                          /\ (app'[c].pc = app[c].pc \/ (app[c].pc = from /\ app'[c].pc = to))
    <3>1. \A c \in Client : app'[c].call = app[c].call
      BY <1>3 DEF Woken, Same
    <3>2. \A c \in Client : app'[c].pc = app[c].pc \/ (app[c].pc = from /\ app'[c].pc = to)
      BY <1>3 DEF Woken
    <3>. QED  BY <3>1, <3>2
  <2>2. Pushing \cap Popping = {}
    BY DEF Pushing, Popping
  <2>. QED  BY <1>3, <2>1, <2>2
<1>4. CASE Quiet \/ RtdbThrows \/ HandleRequest
  <2>1. UNCHANGED app
    BY <1>1, <1>4, QuietKeeps, RtdbThrowsOK, HandledOK
  <2>. QED  BY <1>2, <2>1
<1>5. CASE RtdbRequest
  <2>1. UNCHANGED app \/ \E s, svc : Woken(s, svc, "pop_waiting", "pop_woken")
    BY <1>1, <1>5, RtdbRequestOK, ZenonT(40)
  <2>2. "pop_waiting" \in Popping /\ "pop_woken" \in Popping
    BY DEF Popping
  <2>. QED  BY <1>2, <1>3, <2>1, <2>2
<1>6. CASE RtdbDrained
  <2>1. PICK s, svc : Woken(s, svc, "push_waiting", "push_woken")
    BY <1>1, <1>6, RtdbDrainedOK, Zenon
  <2>2. "push_waiting" \in Pushing /\ "push_woken" \in Pushing
    BY DEF Pushing
  <2>. QED  BY <1>3, <2>1, <2>2
<1>7. ASSUME NEW d \in Client,
             \/ SocketMove(d) \/ Attach(d) \/ PopConfirm(d) \/ Timeout(d) \/ DieInQueue(d)
             \/ ReadValue(d) \/ ReadEntry(d) \/ DieReading(d)
      PROVE  OnlyOne(d) /\ app'[d].pc \notin Pushing \cup Popping
  <2>1. CASE SocketMove(d)
    BY <1>1, <2>1, SocketMoveOK DEF Asking, Pushing, Popping
  <2>2. CASE Attach(d)
    BY <1>1, <2>2, AttachOK DEF Pushing, Popping
  <2>3. CASE PopConfirm(d) \/ Timeout(d) \/ DieInQueue(d)
    BY <1>1, <2>3, PopConfirmOK, TimeoutOK, DieInQueueOK DEF Pushing, Popping
  <2>4. CASE ReadValue(d) \/ ReadEntry(d) \/ DieReading(d)
    BY <1>1, <2>4, ReadValueOK, ReadEntryOK, DieReadingOK DEF Pushing, Popping
  <2>. QED  BY <1>7, <2>1, <2>2, <2>3, <2>4
<1>8. ASSUME NEW d \in Client, PushRequest(d) \/ WaitToPush(d) \/ WaitToPop(d)
      PROVE  /\ OnlyOne(d) /\ app'[d].call = app[d].call /\ app[d].pc \in Pushing \cup Popping
             /\ app'[d].pc \in Pushing => app[d].pc \in Pushing
  <2>1. OnlyOne(d) /\ app'[d].call = app[d].call
    BY <1>1, <1>8, PushRequestOK, WaitOK DEF Same
  <2>2. \/ app[d].pc \in {"push", "push_woken"} /\ app'[d].pc = "pop"
        \/ app[d].pc = "push" /\ app'[d].pc = "push_waiting"
        \/ app[d].pc = "pop" /\ app'[d].pc = "pop_waiting"
    BY <1>1, <1>8, PushRequestOK, WaitOK
  <2>. QED  BY <2>1, <2>2 DEF Pushing, Popping
<1>9. ASSUME NEW d \in Client, OnlyOne(d), NEW c \in Client, c # d
      PROVE  app'[c] = app[c]
  BY <1>9 DEF OnlyOne
<1>. QED  BY <1>4, <1>5, <1>6, <1>7, <1>8, <1>9, StepCases

\* A call that is about to be put into a queue stays in none.
LEMMA CallsStep ==
    ASSUME ClientAssumption, IInv, [Next]_vars
    PROVE  CallsOK'
<1>1. /\ SegmentsOK /\ IdsOK /\ CallsOK /\ UseOK /\ AppsOK
      /\ issued \in 0 .. MaxRequests /\ MaxRequests \in Nat
      /\ carried \in [1 .. MaxRequests -> {0, 1}]
      /\ \A i \in 1 .. MaxRequests : i > issued => carried[i] = 0
  BY Constants DEF IInv, IdsOK
<1>2. \A c \in Client : app[c].pc \in Pushing \cup Popping => TheCall(c) \in Question
  BY <1>1 DEF CallsOK
<1>3. \A c \in Client : app[c].pc \in Pushing =>
          /\ TheCall(c).id \in 1 .. issued /\ carried[TheCall(c).id] = 0
          /\ \A s, svc, k : Slot(s, svc, k) => At(s, svc, k) # TheCall(c).id
          /\ \A d \in Client : app[d].pc \in Pushing /\ TheCall(d).id = TheCall(c).id => c = d
  <2>1. \A q \in Question : q.id \in 1 .. MaxRequests
    BY DEF Question
  <2>. QED  BY <1>1, <1>2, <2>1 DEF CallsOK
<1>4. CASE \A c \in Client : ~ RtdbCall(c)
  <2>1. \A c \in Client : app'[c].pc \in Pushing \cup Popping =>
              /\ TheCall(c)' = TheCall(c) /\ app[c].pc \in Pushing \cup Popping
              /\ app'[c].pc \in Pushing => app[c].pc \in Pushing
    BY <1>4, CallersStep DEF TheCall
  <2>2. \A c \in Client : app'[c].pc \in Pushing \cup Popping => TheCall(c)' \in Question
    BY <1>2, <2>1
  <2>3. \A c \in Client : app'[c].pc \in Pushing =>
            \A d \in Client : app'[d].pc \in Pushing /\ TheCall(d)'.id = TheCall(c)'.id => c = d
    BY <1>3, <2>1
  <2>4. ASSUME NEW c \in Client, app'[c].pc \in Pushing
        PROVE  /\ TheCall(c).id <= issued' /\ carried'[TheCall(c).id] = 0
               /\ \A s, svc, k : Slot(s, svc, k)' => At(s, svc, k)' # TheCall(c).id
    <3>1. PICK i \in 1 .. issued : i = TheCall(c).id
      BY <1>3, <2>1, <2>4
    <3>2. carried[i] = 0 /\ \A s, svc, k : Slot(s, svc, k) => At(s, svc, k) # i
      BY <1>3, <2>1, <2>4, <3>1
    <3>3. CASE SlotsKept /\ carried' = carried /\ issued' \in {issued, issued + 1}
      BY <1>1, <3>1, <3>2, <3>3 DEF SlotsKept
    <3>4. ASSUME NEW s \in 1 .. Len(segments), NEW svc \in Services,
                 segments[s].req[svc].items # <<>>, SlotsTaken(s, svc), issued' = issued,
                 carried' \in {carried, [carried EXCEPT ![At(s, svc, 1)] = @ + 1]}
          PROVE  /\ i <= issued' /\ carried'[i] = 0
                 /\ \A r, v, k : Slot(r, v, k)' => At(r, v, k)' # i
      <4>1. At(s, svc, 1) # i
        BY <1>1, <3>2, <3>4, HeadIsSlot, SMTT(30)
      <4>2. carried'[i] = 0
        BY <1>1, <3>1, <3>2, <3>4, <4>1
      <4>3. \A r, v, k : Slot(r, v, k)' => At(r, v, k)' # i
        BY <3>2, <3>4 DEF SlotsTaken
      <4>. QED  BY <1>1, <3>1, <3>4, <4>2, <4>3
    <3>5. ASSUME NEW d \in Client, NEW s, NEW svc, app[d].pc \in Pushing, app'[d].pc \notin Pushing,
                 SlotsPut(s, svc, TheCall(d).id), issued' = issued, carried' = carried
          PROVE  /\ i <= issued' /\ carried'[i] = 0
                 /\ \A r, v, k : Slot(r, v, k)' => At(r, v, k)' # i
      <4>1. c # d
        BY <2>4, <3>5
      <4>2. TheCall(d).id # i
        BY <1>3, <2>1, <2>4, <3>1, <3>5, <4>1
      <4>3. \A r, v, k : Slot(r, v, k)' => At(r, v, k)' # i
        BY <3>2, <3>5, <4>2 DEF SlotsPut
      <4>. QED  BY <1>1, <3>1, <3>2, <3>5, <4>3
    <3>. QED  BY <3>1, <3>3, <3>4, <3>5, SlotsStep
  <2>. QED  BY <2>1, <2>2, <2>3, <2>4 DEF CallsOK
<1>5. ASSUME NEW c \in Client, RtdbCall(c)
      PROVE  CallsOK'
  <2>1. /\ OnlyOne(c) /\ issued' = issued + 1 /\ app'[c].pc = "push"
        /\ TheCall(c)' \in Question /\ TheCall(c)'.id = issued + 1
    BY <1>1, <1>5, RtdbCallOK DEF TheCall
  <2>2. SlotsKept /\ carried' = carried /\ issued' \in 0 .. MaxRequests
    BY <1>1, <2>1, SlotsStep
  <2>3. \A d \in Client : d # c => app'[d].pc = app[d].pc /\ TheCall(d)' = TheCall(d)
    BY <2>1 DEF OnlyOne, TheCall
  <2>4. \A d \in Client : app'[d].pc \in Pushing \cup Popping => TheCall(d)' \in Question
    BY <1>2, <2>1, <2>3
  <2>5. ASSUME NEW d \in Client, app'[d].pc \in Pushing
        PROVE  /\ TheCall(d)'.id <= issued' /\ carried'[TheCall(d)'.id] = 0
               /\ \A s, svc, k : Slot(s, svc, k)' => At(s, svc, k)' # TheCall(d)'.id
               /\ \A e \in Client : app'[e].pc \in Pushing /\ TheCall(e)'.id = TheCall(d)'.id => d = e
    <3>1. \A e \in Client : e # c /\ app'[e].pc \in Pushing => TheCall(e)'.id \in 1 .. issued
      BY <1>3, <2>3
    <3>2. \A s, svc, k : Slot(s, svc, k)' => Slot(s, svc, k) /\ At(s, svc, k)' = At(s, svc, k)
                                             /\ At(s, svc, k) \in 1 .. issued
      BY <1>1, <2>2 DEF SlotsKept, IdsOK
    <3>3. CASE d = c
      <4>1. TheCall(d)'.id = issued + 1
        BY <2>1, <3>3
      <4>2. issued + 1 \in 1 .. MaxRequests /\ carried[issued + 1] = 0
        BY <1>1, <2>1, <2>2
      <4>3. \A s, svc, k : Slot(s, svc, k)' => At(s, svc, k)' # issued + 1
        BY <1>1, <3>2
      <4>4. \A e \in Client : app'[e].pc \in Pushing /\ TheCall(e)'.id = issued + 1 => d = e
        BY <1>1, <3>1, <3>3
      <4>. QED  BY <1>1, <2>1, <2>2, <4>1, <4>2, <4>3, <4>4
    <3>4. CASE d # c
      <4>1. /\ app[d].pc \in Pushing /\ TheCall(d)'.id = TheCall(d).id /\ TheCall(d).id \in 1 .. issued
            /\ carried[TheCall(d).id] = 0
            /\ \A s, svc, k : Slot(s, svc, k) => At(s, svc, k) # TheCall(d).id
        BY <1>3, <2>3, <2>5, <3>4
      <4>2. \A s, svc, k : Slot(s, svc, k)' => At(s, svc, k)' # TheCall(d).id
        BY <3>2, <4>1
      <4>3. ASSUME NEW e \in Client, app'[e].pc \in Pushing, TheCall(e)'.id = TheCall(d).id
            PROVE  d = e
        <5>1. e # c
          BY <1>1, <2>1, <4>1, <4>3
        <5>2. app[e].pc \in Pushing /\ TheCall(e).id = TheCall(d).id
          BY <2>3, <4>3, <5>1
        <5>. QED  BY <1>3, <4>1, <5>2
      <4>4. PICK j \in 1 .. issued : j = TheCall(d).id
        BY <4>1
      <4>5. j <= issued'
        BY <1>1, <2>1
      <4>. QED  BY <2>2, <4>1, <4>2, <4>3, <4>4, <4>5
    <3>. QED  BY <3>3, <3>4
  <2>. QED  BY <2>4, <2>5 DEF CallsOK
<1>. QED  BY <1>4, <1>5


\* How an application uses its segment.
UseAt(c) ==
    /\ app[c].segment \in 1 .. Len(segments)
    /\ ~ segments[app[c].segment].disturbed =>
          segments[app[c].segment].maker = c /\ SegmentUse(c)

\* What is under way in the segment has not changed.
SameUse(s) ==
    /\ segments'[s].maker = segments[s].maker
    /\ segments'[s].disturbed <=> segments[s].disturbed
    /\ \A svc \in Services :
          /\ segments'[s].req[svc].items = segments[s].req[svc].items
          /\ segments'[s].conf[svc].items = segments[s].conf[svc].items
          /\ segments'[s].conf[svc].has_data <=> segments[s].conf[svc].has_data

LEMMA SameIdle ==
    ASSUME NEW s, SameUse(s), NEW svc \in Services, Idle(s, svc)
    PROVE  Idle(s, svc)'
BY DEF SameUse, Idle

LEMMA UseFrame ==
    ASSUME NEW c \in Client, UseAt(c), app'[c].segment = app[c].segment,
           1 .. Len(segments) \subseteq 1 .. Len(segments'),
           segments'[app[c].segment].disturbed \/ SameUse(app[c].segment),
           app'[c].pc \in Popping <=> app[c].pc \in Popping,
           app'[c].pc = "pop_woken" => app[c].pc = "pop_woken",
           app[c].pc \in Popping => /\ app'[c].call = app[c].call /\ app[c].call.op \in Services
                                    /\ carried[app[c].call.id] = 1 => carried'[app[c].call.id] = 1
    PROVE  UseAt(c)'
<1>1. PICK s : s = app[c].segment
  OBVIOUS
<1>2. s \in 1 .. Len(segments') /\ app'[c].segment = s
  BY <1>1 DEF UseAt
<1>3. CASE segments'[s].disturbed
  BY <1>2, <1>3 DEF UseAt
<1>4. CASE ~ segments'[s].disturbed
  <2>1. SameUse(s) /\ segments'[s].maker = c /\ SegmentUse(c)
    <3>1. SameUse(s)
      BY <1>1, <1>4
    <3>2. ~ segments[s].disturbed
      BY <1>4, <3>1, Zenon DEF SameUse
    <3>3. segments[s].maker = c /\ SegmentUse(c)
      BY <1>1, <3>2, Zenon DEF UseAt
    <3>. QED  BY <3>1, <3>3, Zenon DEF SameUse
  <2>2. ASSUME app[c].pc \notin Popping
        PROVE  SegmentUse(c)'
    <3>1. \A svc \in Services : Idle(s, svc)
      BY <1>1, <2>1, <2>2 DEF SegmentUse
    <3>2. \A svc \in Services : Idle(s, svc)'
      BY <2>1, <3>1, SameIdle, SMTT(30)
    <3>. QED  BY <1>2, <2>2, <3>2 DEF SegmentUse, Idle
  <2>3. ASSUME app[c].pc \in Popping
        PROVE  SegmentUse(c)'
    <3>1. PICK q : q = app[c].call
      OBVIOUS
    <3>2. TheCall(c) = q /\ TheCall(c)' = q /\ q.op \in Services
      BY <2>3, <3>1 DEF TheCall
    <3>3. \A svc \in Services \ {q.op} : Idle(s, svc)'
      BY <1>1, <2>1, <2>3, <3>2, SameIdle DEF SegmentUse
    <3>4. Idle(s, q.op) => Idle(s, q.op)'
      BY <2>1, <3>2, SameIdle
    <3>5. Waiting(s, q) => Waiting(s, q)'
      <4>1. ASSUME Waiting(s, q)
            PROVE  Waiting(s, q)'
        BY <2>1, <3>2, <4>1, Zenon DEF Waiting, SameUse
      <4>. QED  BY <4>1
    <3>6. Answered(s, q) => Answered(s, q)'
      <4>1. ASSUME Answered(s, q)
            PROVE  Answered(s, q)'
        BY <2>1, <2>3, <3>1, <3>2, <4>1, ZenonT(40) DEF Answered, SameUse
      <4>. QED  BY <4>1
    <3>7. \/ Idle(s, q.op) /\ app[c].pc # "pop_woken"
          \/ Waiting(s, q) /\ app[c].pc # "pop_woken"
          \/ Answered(s, q)
      BY <1>1, <2>1, <2>3, <3>2 DEF SegmentUse
    <3>. QED
      BY <1>2, <2>3, <3>2, <3>3, <3>4, <3>5, <3>6, <3>7
         DEF SegmentUse, Idle, Waiting, Answered
  <2>. QED  BY <1>2, <2>1, <2>2, <2>3 DEF UseAt
<1>. QED  BY <1>3, <1>4

\* A segment that is not disturbed has one user.
LEMMA OneUser ==
    ASSUME UseOK, NEW c \in Client, NEW d \in Client, Using(c), Using(d),
           app[c].segment = app[d].segment, ~ segments[app[c].segment].disturbed
    PROVE  c = d
BY DEF UseOK


\* What has been carried out stays so.
LEMMA CarriedStays ==
    ASSUME ClientAssumption, IInv, [Next]_vars, NEW i \in 1 .. MaxRequests, carried[i] = 1
    PROVE  carried'[i] = 1
<1>1. SegmentsOK /\ IdsOK /\ carried \in [1 .. MaxRequests -> {0, 1}]
  BY DEF IInv, IdsOK
<1>2. CASE carried' = carried
  BY <1>2
<1>3. ASSUME NEW s \in 1 .. Len(segments), NEW svc \in Services,
             segments[s].req[svc].items # <<>>,
             carried' = [carried EXCEPT ![At(s, svc, 1)] = @ + 1]
      PROVE  carried'[i] = 1
  <2>1. carried[At(s, svc, 1)] = 0
    BY <1>1, <1>3, HeadIsSlot
  <2>. QED  BY <1>1, <1>3, <2>1
<1>. QED  BY <1>2, <1>3, SlotsStep

LEMMA UseKept ==
    ASSUME ClientAssumption, IInv, [Next]_vars, NEW d \in Client, Using(d),
           app'[d].segment = app[d].segment,
           app'[d].pc \in Popping <=> app[d].pc \in Popping,
           app'[d].pc = "pop_woken" => app[d].pc = "pop_woken",
           app[d].pc \in Popping => app'[d].call = app[d].call,
           segments'[app[d].segment].disturbed \/ SameUse(app[d].segment)
    PROVE  UseAt(d)'
<1>1. UseAt(d)
  BY DEF IInv, UseOK, UseAt
<1>2. 1 .. Len(segments) \subseteq 1 .. Len(segments')
  <2>1. Len(segments) \in Nat /\ Len(segments') \in {Len(segments), Len(segments) + 1}
    BY SegmentsStep
  <2>. QED  BY <2>1
<1>3. ASSUME app[d].pc \in Popping
      PROVE  /\ app'[d].call = app[d].call /\ app[d].call.op \in Services
             /\ carried[app[d].call.id] = 1 => carried'[app[d].call.id] = 1
  <2>1. app[d].call \in Question
    BY <1>3 DEF IInv, CallsOK, TheCall
  <2>2. app[d].call.op \in Services /\ app[d].call.id \in 1 .. MaxRequests
    BY <2>1 DEF Question
  <2>. QED  BY <1>3, <2>2, CarriedStays
<1>. QED  BY <1>1, <1>2, <1>3, UseFrame

\* What the user of a segment does there is nothing to the users of other segments.
LEMMA OtherUsers ==
    ASSUME ClientAssumption, IInv, [Next]_vars, NEW c \in Client, Using(c), OnlyOne(c),
           \A r \in 1 .. Len(segments) : r # app[c].segment => segments'[r] = segments[r],
           NEW d \in Client, d # c, Using(d)'
    PROVE  UseAt(d)'
<1>1. app'[d] = app[d]
  BY DEF OnlyOne
<1>2. Using(d)
  BY <1>1 DEF Using
<1>3. UseOK /\ app[d].segment \in 1 .. Len(segments)
  BY <1>2 DEF IInv, UseOK
<1>4. CASE app[d].segment # app[c].segment
  <2>1. SameUse(app[d].segment)
    BY <1>3, <1>4 DEF SameUse
  <2>. QED  BY <1>1, <1>2, <2>1, UseKept
<1>5. CASE app[d].segment = app[c].segment
  <2>1. segments[app[d].segment].disturbed
    BY <1>2, <1>3, <1>5, OneUser
  <2>2. segments'[app[d].segment].disturbed
    BY <1>3, <2>1, SegmentsStep
  <2>. QED  BY <1>1, <1>2, <2>2, UseKept
<1>. QED  BY <1>4, <1>5


\* A queue that has another flag, or the same requests and confirms as before.
LEMMA SetSameUse ==
    ASSUME NEW s, NEW svc, NEW q,
           \/ ReqSet(segments, segments', s, svc, q) /\ q.items = segments[s].req[svc].items
           \/ /\ ConfSet(segments, segments', s, svc, q)
              /\ q.items = segments[s].conf[svc].items
              /\ q.has_data <=> segments[s].conf[svc].has_data
    PROVE  \A r \in 1 .. Len(segments) : SameUse(r)
<1>1. \A r \in 1 .. Len(segments) : r # s => SameUse(r)
  BY Zenon DEF ReqSet, ConfSet, SameUse
<1>2. CASE ReqSet(segments, segments', s, svc, q) /\ q.items = segments[s].req[svc].items
  <2>1. /\ segments'[s].maker = segments[s].maker
        /\ segments'[s].disturbed <=> segments[s].disturbed
        /\ segments'[s].conf = segments[s].conf
    BY <1>2, Zenon DEF ReqSet
  <2>2. \A v \in Services : segments'[s].req[v].items = segments[s].req[v].items
    BY <1>2, Zenon DEF ReqSet
  <2>3. SameUse(s)
    BY <2>1, <2>2, Zenon DEF SameUse
  <2>. QED  BY <1>1, <2>3, Zenon
<1>3. CASE /\ ConfSet(segments, segments', s, svc, q)
           /\ q.items = segments[s].conf[svc].items
           /\ q.has_data <=> segments[s].conf[svc].has_data
  <2>1. /\ segments'[s].maker = segments[s].maker
        /\ segments'[s].disturbed <=> segments[s].disturbed
        /\ segments'[s].req = segments[s].req
    BY <1>3, Zenon DEF ConfSet
  <2>2. \A v \in Services : /\ segments'[s].conf[v].items = segments[s].conf[v].items
                            /\ segments'[s].conf[v].has_data <=> segments[s].conf[v].has_data
    <3>1. segments'[s].conf[svc] = q
          /\ \A v \in Services : v # svc => segments'[s].conf[v] = segments[s].conf[v]
      BY <1>3, Zenon DEF ConfSet
    <3>2. ASSUME NEW v \in Services
          PROVE  /\ segments'[s].conf[v].items = segments[s].conf[v].items
                 /\ segments'[s].conf[v].has_data <=> segments[s].conf[v].has_data
      <4>1. CASE v = svc
        BY <1>3, <3>1, <4>1, Zenon
      <4>2. CASE v # svc
        BY <3>1, <4>2, Zenon
      <4>. QED  BY <4>1, <4>2, Zenon
    <3>. QED  BY <3>2, Zenon
  <2>3. SameUse(s)
    BY <2>1, <2>2, Zenon DEF SameUse
  <2>. QED  BY <1>1, <2>3, Zenon
<1>. QED  BY <1>2, <1>3

\* Where the queues stay as they are, an application may wait, or go on.
LEMMA UsersKept ==
    ASSUME ClientAssumption, IInv, [Next]_vars,
           \A s \in 1 .. Len(segments) : segments'[s].disturbed \/ SameUse(s),
           \A c \in Client : Using(c)' =>
              /\ Using(c) /\ app'[c].segment = app[c].segment
              /\ app'[c].pc \in Popping <=> app[c].pc \in Popping
              /\ app'[c].pc = "pop_woken" => app[c].pc = "pop_woken"
              /\ app[c].pc \in Popping => app'[c].call = app[c].call
    PROVE  \A c \in Client : Using(c)' => UseAt(c)'
<1>1. ASSUME NEW c \in Client, Using(c)'
      PROVE  UseAt(c)'
  <2>1. Using(c) /\ app[c].segment \in 1 .. Len(segments)
    BY <1>1 DEF IInv, UseOK
  <2>. QED  BY <1>1, <2>1, UseKept
<1>. QED  BY <1>1

\* A call begins with its own queues empty.
LEMMA IdleAtCall ==
    ASSUME UseOK, NEW c \in Client, Using(c), app[c].pc \notin Popping,
           ~ segments[app[c].segment].disturbed
    PROVE  segments[app[c].segment].maker = c /\ \A svc \in Services : Idle(app[c].segment, svc)
BY DEF UseOK, SegmentUse

\* A call ends with its own answer.
LEMMA AnsweredAtPop ==
    ASSUME UseOK, CallsOK, NEW c \in Client, app[c].pc \in Popping,
           (app[c].pc = "pop" /\ ConfirmsOf(c).has_data) \/ app[c].pc = "pop_woken",
           ~ segments[app[c].segment].disturbed
    PROVE  /\ segments[app[c].segment].maker = c /\ Answered(app[c].segment, TheCall(c))
           /\ \A svc \in Services \ {TheCall(c).op} : Idle(app[c].segment, svc)
<1>1. Using(c)
  BY DEF Using
<1>2. segments[app[c].segment].maker = c /\ SegmentUse(c)
  BY <1>1 DEF UseOK
<1>3. \A svc \in Services \ {TheCall(c).op} : Idle(app[c].segment, svc)
  BY <1>2 DEF SegmentUse
<1>4. Answered(app[c].segment, TheCall(c))
  <2>1. \/ Idle(app[c].segment, TheCall(c).op) /\ app[c].pc # "pop_woken"
        \/ Waiting(app[c].segment, TheCall(c)) /\ app[c].pc # "pop_woken"
        \/ Answered(app[c].segment, TheCall(c))
    BY <1>2 DEF SegmentUse
  <2>2. Idle(app[c].segment, TheCall(c).op) => ~ ConfirmsOf(c).has_data
    BY Zenon DEF Idle, ConfirmsOf
  <2>3. Waiting(app[c].segment, TheCall(c)) => ~ ConfirmsOf(c).has_data
    BY Zenon DEF Waiting, ConfirmsOf
  <2>. QED  BY <2>1, <2>2, <2>3
<1>. QED  BY <1>2, <1>3, <1>4


\* An application that attaches finds its queues empty, or is not the only one there.
LEMMA UseAtAttach ==
    ASSUME ClientAssumption, IInv, [Next]_vars, NEW c \in Client, Attach(c)
    PROVE  \A d \in Client : Using(d)' => UseAt(d)'
<1>1. ThreadsOK /\ SegmentsOK /\ UseOK /\ AppsOK /\ Len(segments) \in Nat
  BY SegmentsStep DEF IInv
<1>2. OnlyOne(c) /\ app[c].pc = "attaching"
  BY <1>1, AttachOK
<1>3. CASE app'[c].pc = "off" /\ UNCHANGED segments
  <2>1. \A s \in 1 .. Len(segments) : SameUse(s)
    BY <1>3 DEF SameUse
  <2>2. \A d \in Client : Using(d)' => d # c
    BY <1>3 DEF Using, Pushing, Popping
  <2>3. \A d \in Client : d # c => app'[d] = app[d]
    BY <1>2 DEF OnlyOne
  <2>. QED  BY <2>1, <2>2, <2>3, UsersKept DEF Using
<1>4. ASSUME NEW s \in 1 .. Len(segments), s = shm[scenario.name[c]],
             app'[c].pc = "on", app'[c].segment = s,
             DisturbedSet(segments, segments', s, segments[s].disturbed \/ segments[s].maker # c)
      PROVE  \A d \in Client : Using(d)' => UseAt(d)'
  <2>1. /\ Len(segments') = Len(segments)
        /\ \A r \in 1 .. Len(segments) : r # s => segments'[r] = segments[r]
        /\ segments'[s].maker = segments[s].maker
        /\ segments'[s].disturbed <=> (segments[s].disturbed \/ segments[s].maker # c)
        /\ segments'[s].req = segments[s].req /\ segments'[s].conf = segments[s].conf
    BY <1>4, Zenon DEF DisturbedSet
  <2>2. UseAt(c)'
    <3>1. CASE segments'[s].disturbed
      BY <1>4, <2>1, <3>1 DEF UseAt
    <3>2. CASE ~ segments'[s].disturbed
      <4>1. ~ segments[s].disturbed /\ segments[s].maker = c
        BY <2>1, <3>2, Zenon
      <4>2. s # NoSegment
        BY <1>1 DEF NoSegment
      <4>3. MayAttach(c)
        BY <1>1, <1>2 DEF AppsOK
      <4>4. \A svc \in Services : Idle(s, svc)
        BY <1>4, <4>1, <4>2, <4>3, Zenon DEF MayAttach
      <4>5. \A svc \in Services : Idle(s, svc)'
        BY <2>1, <4>4, Zenon DEF Idle
      <4>6. app'[c].pc \notin Popping /\ app'[c].segment = s
        BY <1>4 DEF Popping
      <4>7. SegmentUse(c)'
        BY <4>5, <4>6, SMTT(30) DEF SegmentUse, Idle
      <4>8. app'[c].segment \in 1 .. Len(segments') /\ segments'[app'[c].segment].maker = c
        BY <1>4, <2>1, <4>1
      <4>. QED  BY <4>7, <4>8 DEF UseAt
    <3>. QED  BY <3>1, <3>2
  <2>3. ASSUME NEW d \in Client, d # c, Using(d)'
        PROVE  UseAt(d)'
    <3>1. app'[d] = app[d] /\ Using(d)
      BY <1>2, <2>3 DEF OnlyOne, Using
    <3>2. /\ app[d].segment \in 1 .. Len(segments)
          /\ ~ segments[app[d].segment].disturbed => segments[app[d].segment].maker = d
      BY <1>1, <3>1 DEF UseOK
    <3>3. CASE app[d].segment # s
      <4>1. SameUse(app[d].segment)
        BY <2>1, <3>2, <3>3 DEF SameUse
      <4>. QED  BY <3>1, <4>1, UseKept, SMTT(30)
    <3>4. CASE app[d].segment = s
      <4>1. segments'[s].disturbed
        BY <2>1, <2>3, <3>2, <3>4, Zenon
      <4>. QED  BY <3>1, <3>4, <4>1, UseKept
    <3>. QED  BY <3>3, <3>4
  <2>. QED  BY <2>2, <2>3
<1>. QED  BY <1>1, <1>3, <1>4, AttachOK

\* An application that uses its segment.
LEMMA UseAtCall ==
    ASSUME ClientAssumption, IInv, [Next]_vars, NEW c \in Client,
           RtdbCall(c) \/ PushRequest(c) \/ PopConfirm(c) \/ Timeout(c) \/ DieInQueue(c)
    PROVE  \A d \in Client : Using(d)' => UseAt(d)'
<1>1. /\ ThreadsOK /\ SegmentsOK /\ IdsOK /\ CallsOK /\ UseOK /\ AppsOK
      /\ Len(segments) \in Nat
  BY SegmentsStep DEF IInv
<1>2. OnlyOne(c) /\ Using(c)
  BY <1>1, RtdbCallOK, PushRequestOK, PopConfirmOK, TimeoutOK, DieInQueueOK
     DEF Using, Pushing, Popping
<1>3. PICK s \in 1 .. Len(segments) : s = app[c].segment
  BY <1>1, <1>2, ItsSegment
<1>4. \A svc \in Services : /\ segments[s].req[svc] \in QueueOf(Question)
                            /\ segments[s].conf[svc] \in QueueOf(Reply)
  BY <1>1, <1>2, <1>3, ItsSegment
<1>5. CASE RtdbCall(c)
  <2>1. /\ app[c].pc = "on" /\ app'[c].pc = "push" /\ app'[c].segment = s
        /\ \E svc \in Services :
              ConfSet(segments, segments', s, svc, Reset(segments[s].conf[svc]))
    BY <1>1, <1>3, <1>5, RtdbCallOK
  <2>2. PICK svc \in Services : ConfSet(segments, segments', s, svc, Reset(segments[s].conf[svc]))
    BY <2>1
  <2>3. \A r \in 1 .. Len(segments) : r # s => segments'[r] = segments[r]
    BY <2>2 DEF ConfSet
  <2>4. segments'[s].disturbed \/ SameUse(s)
    <3>1. CASE segments[s].disturbed
      BY <3>1, SegmentsStep
    <3>2. CASE ~ segments[s].disturbed
      <4>1. Idle(s, svc)
        BY <1>1, <1>2, <1>3, <2>1, <3>2, IdleAtCall DEF Popping
      <4>2. PICK q : q = Reset(segments[s].conf[svc])
        OBVIOUS
      <4>3. q.items = segments[s].conf[svc].items /\ q.has_data = segments[s].conf[svc].has_data
        BY <1>4, <4>1, <4>2, ResetOK DEF Idle
      <4>. QED  BY <2>2, <4>2, <4>3, SetSameUse
    <3>. QED  BY <3>1, <3>2
  <2>5. UseAt(c)'
    BY <1>2, <1>3, <2>1, <2>4, UseKept DEF Popping
  <2>. QED  BY <1>2, <1>3, <2>3, <2>5, OtherUsers
<1>6. CASE PushRequest(c)
  <2>1. /\ app[c].pc \in {"push", "push_woken"} /\ app'[c].pc = "pop" /\ Same(c)
        /\ ReqSet(segments, segments', s, TheCall(c).op, Push(RequestsOf(c), TheCall(c)))
    BY <1>1, <1>3, <1>6, PushRequestOK
  <2>2. /\ TheCall(c) \in Question /\ TheCall(c).op \in Services
        /\ RequestsOf(c) \in QueueOf(Question)
    BY <1>1, <2>1, ItsQueues DEF Pushing
  <2>3. PICK q \in Question : q = TheCall(c)
    BY <2>2
  <2>4. PICK svc \in Services : svc = q.op
    BY <2>2, <2>3
  <2>5. PICK p : p = Push(RequestsOf(c), q)
    BY SMTT(30)
  <2>6. ReqSet(segments, segments', s, svc, p) /\ p.items = Append(segments[s].req[svc].items, q)
    <3>1. RequestsOf(c) = segments[s].req[svc]
      BY <1>3, <2>3, <2>4 DEF RequestsOf
    <3>2. PICK u \in QueueOf(Question) : u = RequestsOf(c)
      BY <2>2
    <3>3. Push(u, q).items = Append(u.items, q)
      BY PushOK
    <3>. QED  BY <2>1, <2>3, <2>4, <2>5, <3>1, <3>2, <3>3
  <2>7. /\ Len(segments') = Len(segments)
        /\ \A r \in 1 .. Len(segments) : r # s => segments'[r] = segments[r]
        /\ segments'[s].maker = segments[s].maker
        /\ segments'[s].disturbed = segments[s].disturbed
        /\ segments'[s].conf = segments[s].conf /\ segments'[s].req[svc] = p
        /\ \A v \in Services : v # svc => segments'[s].req[v] = segments[s].req[v]
    BY <2>6 DEF ReqSet
  <2>8. app'[c].segment = s /\ TheCall(c)' = q
    BY <1>3, <2>1, <2>3 DEF Same, TheCall
  <2>9. UseAt(c)'
    <3>1. CASE segments'[s].disturbed
      BY <2>7, <2>8, <3>1 DEF UseAt
    <3>2. CASE ~ segments'[s].disturbed
      <4>1. segments[s].maker = c /\ \A v \in Services : Idle(s, v)
        BY <1>1, <1>2, <1>3, <2>1, <2>7, <3>2, IdleAtCall DEF Popping
      <4>2. \A v \in Services \ {svc} : Idle(s, v)'
        BY <2>7, <4>1, Zenon DEF Idle
      <4>3. Waiting(s, q)'
        <5>1. segments'[s].req[svc].items = <<q>>
          <6>1. segments[s].req[svc].items = <<>>
            BY <4>1 DEF Idle
          <6>2. Append(<<>>, q) = <<q>>
            OBVIOUS
          <6>. QED  BY <2>6, <2>7, <6>1, <6>2
        <5>2. segments'[s].conf[svc].items = <<>> /\ ~ segments'[s].conf[svc].has_data
          BY <2>7, <4>1, Zenon DEF Idle
        <5>. QED  BY <2>4, <5>1, <5>2 DEF Waiting
      <4>4. app'[c].pc \in Popping /\ app'[c].pc # "pop_woken"
        BY <2>1 DEF Popping
      <4>5. SegmentUse(c)'
        BY <2>4, <2>8, <4>2, <4>3, <4>4 DEF SegmentUse, Idle, Waiting
      <4>6. s \in 1 .. Len(segments') /\ segments'[s].maker = c
        BY <2>7, <4>1
      <4>. QED  BY <2>8, <4>5, <4>6 DEF UseAt
    <3>. QED  BY <3>1, <3>2
  <2>. QED  BY <1>2, <1>3, <2>7, <2>9, OtherUsers
<1>7. CASE PopConfirm(c)
  <2>1. /\ (app[c].pc = "pop" /\ ConfirmsOf(c).has_data) \/ app[c].pc = "pop_woken"
        /\ app'[c].pc = "on" /\ app'[c].segment = s
        /\ \/ ConfirmsOf(c).items = <<>> /\ UNCHANGED segments
           \/ /\ ConfirmsOf(c).items # <<>>
              /\ ConfSet(segments, segments', s, TheCall(c).op, Pop(ConfirmsOf(c)))
    BY <1>1, <1>3, <1>7, PopConfirmOK
  <2>2. TheCall(c).op \in Services /\ ConfirmsOf(c) \in QueueOf(Reply) /\ app[c].pc \in Popping
    BY <1>1, <2>1, ItsQueues DEF Popping
  <2>3. PICK svc \in Services : svc = TheCall(c).op
    BY <2>2
  <2>4. PICK q \in QueueOf(Reply) : q = ConfirmsOf(c)
    BY <2>2
  <2>5. PICK p : p = Pop(q)
    OBVIOUS
  <2>6. \/ q.items = <<>> /\ UNCHANGED segments
        \/ q.items # <<>> /\ ConfSet(segments, segments', s, svc, p)
    BY <2>1, <2>3, <2>4, <2>5
  <2>7. /\ Len(segments') = Len(segments)
        /\ \A r \in 1 .. Len(segments) : r # s => segments'[r] = segments[r]
        /\ segments'[s].disturbed = segments[s].disturbed
        /\ segments'[s].maker = segments[s].maker
    BY <2>6 DEF ConfSet
  <2>8. UseAt(c)'
    <3>1. CASE segments'[s].disturbed
      BY <2>1, <2>7, <3>1 DEF UseAt
    <3>2. CASE ~ segments'[s].disturbed
      <4>1. /\ segments[s].maker = c /\ Answered(s, TheCall(c))
            /\ \A v \in Services \ {svc} : Idle(s, v)
        BY <1>1, <1>3, <2>1, <2>2, <2>3, <2>7, <3>2, AnsweredAtPop
      <4>2. segments[s].req[svc].items = <<>> /\ Len(q.items) = 1
        BY <1>3, <2>3, <2>4, <4>1 DEF Answered, ConfirmsOf
      <4>3. q.items \in Seq(Reply) /\ q.items # <<>>
        <5>1. q.items \in Seq(Reply)
          BY DEF QueueOf
        <5>2. q.items # <<>>
          BY <4>2
        <5>. QED  BY <5>1, <5>2
      <4>4. Tail(q.items) = <<>>
        <5>1. PICK n \in Nat : Len(q.items) = n + 1 /\ Len(Tail(q.items)) = n /\ Tail(q.items) \in Seq(Reply)
          BY <4>3, TailOf
        <5>2. Len(Tail(q.items)) = 0
          BY <4>2, <5>1
        <5>. QED  BY <5>1, <5>2, EmptySeq
      <4>5. p.items = <<>> /\ ~ p.has_data
        BY <2>5, <4>3, <4>4, PopOK
      <4>6. ConfSet(segments, segments', s, svc, p)
        BY <2>6, <4>3
      <4>7. /\ segments'[s].req = segments[s].req /\ segments'[s].conf[svc] = p
            /\ \A v \in Services : v # svc => segments'[s].conf[v] = segments[s].conf[v]
        BY <4>6 DEF ConfSet
      <4>8. Idle(s, svc)'
        BY <4>2, <4>5, <4>7 DEF Idle
      <4>9. \A v \in Services \ {svc} : Idle(s, v)'
        BY <4>1, <4>7, Zenon DEF Idle
      <4>10. app'[c].pc \notin Popping
        BY <2>1 DEF Popping
      <4>11. \A v \in Services : Idle(s, v)'
        BY <4>8, <4>9
      <4>12. SegmentUse(c)'
        BY <2>1, <4>10, <4>11 DEF SegmentUse, Idle
      <4>13. s \in 1 .. Len(segments') /\ segments'[s].maker = c
        BY <2>7, <4>1
      <4>. QED  BY <2>1, <4>12, <4>13 DEF UseAt
    <3>. QED  BY <3>1, <3>2
  <2>. QED  BY <1>2, <1>3, <2>7, <2>8, OtherUsers
<1>8. CASE Timeout(c)
  <2>1. app'[c].segment = s /\ DisturbedSet(segments, segments', s, TRUE)
    BY <1>1, <1>3, <1>8, TimeoutOK
  <2>2. /\ Len(segments') = Len(segments) /\ segments'[s].disturbed
        /\ \A r \in 1 .. Len(segments) : r # s => segments'[r] = segments[r]
    BY <2>1 DEF DisturbedSet
  <2>3. UseAt(c)'
    BY <2>1, <2>2 DEF UseAt
  <2>. QED  BY <1>2, <1>3, <2>2, <2>3, OtherUsers
<1>9. CASE DieInQueue(c)
  <2>1. app'[c].pc = "off"
    BY <1>1, <1>9, DieInQueueOK
  <2>2. PICK svc \in Services :
            \/ ReqSet(segments, segments', s, svc, [segments[s].req[svc] EXCEPT !.locked = TRUE])
            \/ ConfSet(segments, segments', s, svc, [segments[s].conf[svc] EXCEPT !.locked = TRUE])
    BY <1>1, <1>3, <1>9, DieInQueueOK, Zenon
  <2>3. \A r \in 1 .. Len(segments) : r # s => segments'[r] = segments[r]
    BY <2>2 DEF ReqSet, ConfSet
  <2>4. ~ Using(c)'
    BY <2>1 DEF Using, Pushing, Popping
  <2>. QED  BY <1>2, <1>3, <2>3, <2>4, OtherUsers
<1>. QED  BY <1>5, <1>6, <1>7, <1>8, <1>9


\* The request queued for svc in segment s is that of application c, and the only one.
AskedBy(c, s, svc) ==
    /\ app[c].pc \in Popping /\ app[c].pc # "pop_woken" /\ svc = TheCall(c).op
    /\ segments[s].maker = c /\ Waiting(s, TheCall(c))
    /\ \A v \in Services \ {svc} : Idle(s, v)

\* A request in a segment that is not disturbed is the call its maker waits for.
LEMMA WaitingAtTake ==
    ASSUME UseOK, NEW c \in Client, Using(c), NEW s, s = app[c].segment,
           ~ segments[s].disturbed, NEW svc \in Services, segments[s].req[svc].items # <<>>
    PROVE  AskedBy(c, s, svc)
<1>1. segments[s].maker = c /\ SegmentUse(c)
  BY DEF UseOK
<1>2. ~ Idle(s, svc)
  BY DEF Idle
<1>3. app[c].pc \in Popping
  BY <1>1, <1>2 DEF SegmentUse
<1>4. \A v \in Services \ {TheCall(c).op} : Idle(s, v)
  BY <1>1, <1>3 DEF SegmentUse
<1>5. svc = TheCall(c).op
  BY <1>2, <1>4, SMTT(30)
<1>6. ~ Answered(s, TheCall(c))
  BY <1>5 DEF Answered
<1>7. Waiting(s, TheCall(c)) /\ app[c].pc # "pop_woken"
  BY <1>1, <1>2, <1>3, <1>5, <1>6 DEF SegmentUse
<1>. QED  BY <1>1, <1>3, <1>4, <1>5, <1>7 DEF AskedBy

\* The rtdb thread takes a request, and confirms it or does not.
RequestGone(t) == segments' = t /\ UNCHANGED app

ConfirmPut(s, svc, t) ==
    LET r == Head(segments[s].req[svc].items)
    IN  /\ Woken(s, svc, "pop_waiting", "pop_woken")
        /\ carried' = [carried EXCEPT ![r.id] = @ + 1]
        /\ \E reply \in Reply :
              /\ reply.id = r.id
              /\ ConfSet(t, segments', s, svc, Push(segments[s].conf[svc], reply))

LEMMA UseAtTake ==
    ASSUME ClientAssumption, IInv, [Next]_vars,
           NEW s \in 1 .. Len(segments), NEW svc \in Services, NEW t \in Seq(Segment), NEW q,
           segments[s].req[svc].items # <<>>, q.items = Tail(segments[s].req[svc].items),
           ReqSet(segments, t, s, svc, q),
           RequestGone(t) \/ ConfirmPut(s, svc, t)
    PROVE  \A c \in Client : Using(c)' => UseAt(c)'
<1>1. SegmentsOK /\ IdsOK /\ CallsOK /\ UseOK /\ AppsOK /\ Len(segments) \in Nat
  BY SegmentsStep, SMTT(30) DEF IInv
<1>2. /\ Len(segments') = Len(segments)
      /\ \A r \in 1 .. Len(segments) : r # s => segments'[r] = segments[r]
      /\ segments'[s].maker = segments[s].maker
      /\ segments'[s].req[svc].items = Tail(segments[s].req[svc].items)
      /\ \A v \in Services : v # svc => segments'[s].req[v] = segments[s].req[v]
                                        /\ segments'[s].conf[v] = segments[s].conf[v]
  BY ZenonT(40) DEF ReqSet, ConfSet, RequestGone, ConfirmPut
<1>3. ASSUME NEW c \in Client
      PROVE  /\ app'[c].segment = app[c].segment /\ app'[c].call = app[c].call
             /\ \/ app'[c].pc = app[c].pc
                \/ /\ app[c].segment = s /\ app[c].call.op = svc
                   /\ app[c].pc = "pop_waiting" /\ app'[c].pc = "pop_woken"
  <2>1. CASE RequestGone(t)
    BY <2>1 DEF RequestGone
  <2>2. CASE ConfirmPut(s, svc, t)
    BY <2>2 DEF ConfirmPut, Woken, Same
  <2>. QED  BY <2>1, <2>2
<1>4. ASSUME NEW c \in Client, Using(c)'
      PROVE  UseAt(c)'
  <2>1. Using(c) /\ (app'[c].pc \in Popping <=> app[c].pc \in Popping)
    BY <1>3, <1>4 DEF Using, Popping
  <2>2. app[c].segment \in 1 .. Len(segments)
    BY <1>1, <2>1 DEF UseOK
  <2>3. CASE app[c].segment # s
    <3>1. SameUse(app[c].segment)
      BY <1>2, <2>2, <2>3 DEF SameUse
    <3>2. /\ Using(c) /\ app'[c].segment = app[c].segment /\ app'[c].call = app[c].call
          /\ app'[c].pc \in Popping <=> app[c].pc \in Popping
          /\ app'[c].pc = "pop_woken" => app[c].pc = "pop_woken"
      BY <1>3, <2>1, <2>3
    <3>. QED  BY <3>1, <3>2, UseKept, ZenonT(40)
  <2>4. CASE app[c].segment = s /\ segments[s].disturbed
    <3>1. segments'[s].disturbed
      BY <2>4, SegmentsStep
    <3>. QED  BY <1>2, <1>3, <2>4, <3>1 DEF UseAt
  <2>5. CASE app[c].segment = s /\ ~ segments[s].disturbed
    <3>1. PICK w : w = TheCall(c)
      OBVIOUS
    <3>2. /\ app[c].pc \in Popping /\ app[c].pc # "pop_woken" /\ svc = w.op
          /\ segments[s].maker = c /\ Waiting(s, w)
          /\ \A v \in Services \ {svc} : Idle(s, v)
      <4>1. UseOK /\ Using(c) /\ s = app[c].segment /\ ~ segments[s].disturbed
        BY <1>1, <2>1, <2>5
      <4>2. AskedBy(c, s, svc)
        BY <4>1, WaitingAtTake, ZenonT(40)
      <4>. QED  BY <3>1, <4>2, Zenon DEF AskedBy
    <3>3. segments[s].req[svc].items = <<w>>
          /\ segments[s].conf[svc].items = <<>> /\ ~ segments[s].conf[svc].has_data
      BY <3>2 DEF Waiting
    <3>4. Tail(<<w>>) = <<>> /\ Head(<<w>>) = w
      OBVIOUS
    <3>5. segments'[s].req[svc].items = <<>>
      BY <1>2, <3>3, <3>4
    <3>6. \A v \in Services \ {svc} : Idle(s, v)'
      BY <1>2, <3>2, Zenon DEF Idle
    <3>7. app'[c].segment = s /\ TheCall(c)' = w /\ app'[c].pc \in Popping
      BY <1>3, <2>1, <2>5, <3>1, <3>2 DEF TheCall
    <3>8. CASE RequestGone(t)
      <4>1. segments'[s].conf = segments[s].conf
        BY <3>8 DEF ReqSet, RequestGone
      <4>2. Idle(s, svc)'
        BY <3>3, <3>5, <4>1 DEF Idle
      <4>3. app'[c].pc # "pop_woken"
        BY <3>2, <3>8 DEF RequestGone
      <4>4. SegmentUse(c)'
        BY <3>2, <3>6, <3>7, <4>2, <4>3 DEF SegmentUse, Idle
      <4>. QED  BY <1>2, <3>2, <3>7, <4>4 DEF UseAt
    <3>9. CASE ConfirmPut(s, svc, t)
      <4>1. carried' = [carried EXCEPT ![w.id] = @ + 1]
        BY <3>3, <3>4, <3>9 DEF ConfirmPut
      <4>2. carried'[w.id] = 1
        <5>1. carried[w.id] = 0 /\ w.id \in 1 .. MaxRequests
          BY <1>1, <3>3, <3>4, HeadIsSlot, ZenonT(40) DEF At
        <5>2. carried \in [1 .. MaxRequests -> {0, 1}]
          BY <1>1 DEF IdsOK
        <5>. QED  BY <4>1, <5>1, <5>2
      <4>3. PICK p \in QueueOf(Reply) : p = segments[s].conf[svc]
        BY <1>1, <2>1, <2>5, ItsSegment
      <4>11. PICK reply \in Reply : reply.id = w.id /\ ConfSet(t, segments', s, svc, Push(p, reply))
        BY <3>3, <3>4, <3>9, <4>3 DEF ConfirmPut
      <4>4. PICK u : u = Push(p, reply)
        OBVIOUS
      <4>5. u.items = Append(p.items, reply) /\ u.has_data
        <5>1. Push(p, reply).items = Append(p.items, reply) /\ Push(p, reply).has_data
          <6>1. \A x \in QueueOf(Reply), y \in Reply :
                    Push(x, y).items = Append(x.items, y) /\ Push(x, y).has_data
            BY PushOK
          <6>. QED  BY <6>1, Zenon
        <5>. QED  BY <4>4, <5>1
      <4>6. Append(<<>>, reply) = <<reply>> /\ Len(<<reply>>) = 1 /\ Head(<<reply>>) = reply
        OBVIOUS
      <4>7. u.items = <<reply>>
        BY <3>3, <4>3, <4>5, <4>6
      <4>8. segments'[s].conf[svc] = u
        BY <4>11, <4>4 DEF ConfSet
      <4>9. Answered(s, w)'
        BY <3>2, <3>5, <4>2, <4>5, <4>6, <4>7, <4>8, <4>11 DEF Answered
      <4>10. SegmentUse(c)'
        BY <3>2, <3>6, <3>7, <4>9 DEF SegmentUse, Idle, Answered
      <4>. QED  BY <1>2, <3>2, <3>7, <4>10 DEF UseAt
    <3>. QED  BY <3>8, <3>9
  <2>. QED  BY <2>3, <2>4, <2>5
<1>. QED  BY <1>4


\* What the rtdb thread does with the first request of a queue.
LEMMA RtdbTakes ==
    ASSUME ClientAssumption, IInv, RtdbRequest \/ RtdbThrows
    PROVE  \E s \in 1 .. Len(segments), svc \in Services, t \in Seq(Segment) : \E q :
              /\ segments[s].req[svc].items # <<>> /\ q.items = Tail(segments[s].req[svc].items)
              /\ ReqSet(segments, t, s, svc, q)
              /\ RequestGone(t) \/ ConfirmPut(s, svc, t)
<1>1. ThreadsOK /\ SegmentsOK /\ AppsOK
  BY DEF IInv
<1>2. ASSUME NEW s \in 1 .. Len(segments), NEW svc \in Services, segments[s].req[svc].items # <<>>,
             NEW q, q = [segments[s].req[svc] EXCEPT !.items = Tail(@)]
      PROVE  q.items = Tail(segments[s].req[svc].items)
  <2>1. segments[s].req[svc] \in QueueOf(Question)
    <3>1. segments[s] \in Segment
      BY <1>1, ElementOfSeq DEF SegmentsOK
    <3>. QED  BY <3>1 DEF Segment
  <2>. QED  BY <1>2, <2>1, TakeOK
<1>3. CASE RtdbRequest
  <2>1. PICK s \in 1 .. Len(segments), svc \in Services, t \in Seq(Segment) :
            /\ segments[s].req[svc].items # <<>>
            /\ ReqSet(segments, t, s, svc, [segments[s].req[svc] EXCEPT !.items = Tail(@)])
            /\ RequestGone(t) \/ ConfirmPut(s, svc, t)
    BY <1>1, <1>3, RtdbRequestOK, ZenonT(40) DEF RequestGone, ConfirmPut
  <2>2. PICK q : q = [segments[s].req[svc] EXCEPT !.items = Tail(@)]
    OBVIOUS
  <2>. QED  BY <1>2, <2>1, <2>2
<1>4. CASE RtdbThrows
  <2>1. PICK s \in 1 .. Len(segments), svc \in Services :
            /\ segments[s].req[svc].items # <<>> /\ UNCHANGED app
            /\ ReqSet(segments, segments', s, svc, [segments[s].req[svc] EXCEPT !.items = Tail(@)])
    BY <1>1, <1>4, RtdbThrowsOK, Zenon
  <2>2. PICK q : q = [segments[s].req[svc] EXCEPT !.items = Tail(@)]
    OBVIOUS
  <2>3. PICK t \in Seq(Segment) : t = segments'
    BY <2>1 DEF ReqSet
  <2>4. RequestGone(t) /\ ReqSet(segments, t, s, svc, q)
    BY <2>1, <2>2, <2>3 DEF RequestGone
  <2>. QED  BY <1>2, <2>1, <2>2, <2>4
<1>. QED  BY <1>3, <1>4

\* Applications use their segments as they should.
LEMMA UseStep ==
    ASSUME ClientAssumption, IInv, [Next]_vars
    PROVE  UseOK'
<1>1. /\ ThreadsOK /\ SegmentsOK /\ IdsOK /\ CallsOK /\ UseOK /\ AppsOK /\ SocketOK /\ ReadersOK
      /\ Len(segments) \in Nat
  BY SegmentsStep DEF IInv
<1>2. ASSUME UNCHANGED segments
      PROVE  \A s \in 1 .. Len(segments) : SameUse(s)
  BY <1>2 DEF SameUse
<1>3. ASSUME UNCHANGED app
      PROVE  \A c \in Client : Using(c)' =>
              /\ Using(c) /\ app'[c].segment = app[c].segment
              /\ app'[c].pc \in Popping <=> app[c].pc \in Popping
              /\ app'[c].pc = "pop_woken" => app[c].pc = "pop_woken"
              /\ app[c].pc \in Popping => app'[c].call = app[c].call
  BY <1>3 DEF Using
<1>4. CASE Quiet
  <2>1. UNCHANGED <<segments, app>>
    BY <1>4, QuietKeeps
  <2>. QED  BY <1>2, <1>3, <2>1, UsersKept DEF UseOK, UseAt
<1>5. CASE RtdbRequest \/ RtdbThrows
  <2>1. \A c \in Client : Using(c)' => UseAt(c)'
    BY <1>5, RtdbTakes, UseAtTake
  <2>. QED  BY <2>1 DEF UseOK, UseAt
<1>6. CASE RtdbDrained
  <2>1. PICK s \in 1 .. Len(segments), svc \in Services :
            /\ ReqSet(segments, segments', s, svc, [segments[s].req[svc] EXCEPT !.has_data = FALSE])
            /\ Woken(s, svc, "push_waiting", "push_woken")
    BY <1>1, <1>6, RtdbDrainedOK
  <2>2. PICK q : q = [segments[s].req[svc] EXCEPT !.has_data = FALSE]
    OBVIOUS
  <2>3. q.items = segments[s].req[svc].items
    <3>1. segments[s].req[svc] \in QueueOf(Question)
      <4>1. segments[s] \in Segment
        BY <1>1, ElementOfSeq DEF SegmentsOK
      <4>. QED  BY <4>1 DEF Segment
    <3>. QED  BY <2>2, <3>1, FlagsOK
  <2>4. \A r \in 1 .. Len(segments) : SameUse(r)
    BY <2>1, <2>2, <2>3, SetSameUse
  <2>5. \A c \in Client : /\ app'[c].segment = app[c].segment /\ app'[c].call = app[c].call
                          /\ \/ app'[c].pc = app[c].pc
                             \/ app[c].pc = "push_waiting" /\ app'[c].pc = "push_woken"
    BY <2>1 DEF Woken, Same
  <2>6. \A c \in Client : Using(c)' =>
              /\ Using(c) /\ app'[c].segment = app[c].segment
              /\ app'[c].pc \in Popping <=> app[c].pc \in Popping
              /\ app'[c].pc = "pop_woken" => app[c].pc = "pop_woken"
              /\ app[c].pc \in Popping => app'[c].call = app[c].call
    BY <2>5 DEF Using, Pushing, Popping
  <2>. QED  BY <2>4, <2>6, UsersKept DEF UseOK, UseAt
<1>7. CASE HandleRequest
  <2>1. UNCHANGED app
    BY <1>1, <1>7, HandledOK
  <2>2. CASE UNCHANGED segments
    BY <1>2, <1>3, <2>1, <2>2, UsersKept DEF UseOK, UseAt
  <2>3. CASE segments' = Append(segments, NewSegment(TheSender))
    <3>1. PICK m \in Client : m = TheSender
      BY <1>1, <1>7, HandledOK DEF TheSender
    <3>2. \A r \in 1 .. Len(segments) : segments'[r] = segments[r]
      BY <1>1, <2>3, <3>1, FreshSegment
    <3>3. \A s \in 1 .. Len(segments) : SameUse(s)
      BY <3>2 DEF SameUse
    <3>. QED  BY <1>3, <2>1, <3>3, UsersKept DEF UseOK, UseAt
  <2>. QED  BY <1>1, <1>7, <2>2, <2>3, HandledOK
<1>8. ASSUME NEW d \in Client, Attach(d) \/ RtdbCall(d) \/ PushRequest(d) \/ PopConfirm(d)
                               \/ Timeout(d) \/ DieInQueue(d)
      PROVE  UseOK'
  <2>1. \A c \in Client : Using(c)' => UseAt(c)'
    BY <1>8, UseAtAttach, UseAtCall
  <2>. QED  BY <2>1 DEF UseOK, UseAt
<1>9. ASSUME NEW d \in Client, SocketMove(d) \/ WaitToPush(d) \/ WaitToPop(d) \/ ReadValue(d)
                               \/ ReadEntry(d) \/ DieReading(d)
      PROVE  UseOK'
  <2>1. OnlyOne(d) /\ UNCHANGED segments
    BY <1>1, <1>9, SocketMoveOK, WaitOK, ReadValueOK, ReadEntryOK, DieReadingOK
  <2>2. Using(d)' => /\ Using(d) /\ app'[d].segment = app[d].segment
                     /\ app'[d].pc \in Popping <=> app[d].pc \in Popping
                     /\ app'[d].pc = "pop_woken" => app[d].pc = "pop_woken"
                     /\ app[d].pc \in Popping => app'[d].call = app[d].call
    <3>1. CASE SocketMove(d)
      BY <1>1, <3>1, SocketMoveOK DEF Using, Asking, Pushing, Popping
    <3>2. CASE WaitToPush(d) \/ WaitToPop(d)
      BY <1>1, <3>2, WaitOK DEF Using, Pushing, Popping, Same
    <3>3. CASE ReadValue(d) \/ ReadEntry(d)
      BY <1>1, <3>3, ReadValueOK, ReadEntryOK DEF Using, Pushing, Popping
    <3>4. CASE DieReading(d)
      BY <1>1, <3>4, DieReadingOK DEF Using, Pushing, Popping
    <3>. QED  BY <1>9, <3>1, <3>2, <3>3, <3>4
  <2>3. \A c \in Client : c # d => app'[c] = app[c]
    BY <2>1 DEF OnlyOne
  <2>4. \A c \in Client : Using(c)' =>
              /\ Using(c) /\ app'[c].segment = app[c].segment
              /\ app'[c].pc \in Popping <=> app[c].pc \in Popping
              /\ app'[c].pc = "pop_woken" => app[c].pc = "pop_woken"
              /\ app[c].pc \in Popping => app'[c].call = app[c].call
    <3>1. ASSUME NEW c \in Client, c # d, Using(c)'
          PROVE  Using(c) /\ app'[c] = app[c]
      BY <2>3, <3>1 DEF Using
    <3>. QED  BY <2>2, <3>1
  <2>. QED  BY <1>2, <2>1, <2>4, UsersKept DEF UseOK, UseAt
<1>. QED  BY <1>4, <1>5, <1>6, <1>7, <1>8, <1>9, StepCases


(***************************************************************************)
(* Registrations.                                                          *)
(***************************************************************************)
\* What an application does.
Acts(c) ==
    \/ SocketMove(c) \/ Attach(c) \/ RtdbCall(c) \/ PushRequest(c) \/ WaitToPush(c)
    \/ WaitToPop(c) \/ PopConfirm(c) \/ Timeout(c) \/ DieInQueue(c)
    \/ ReadValue(c) \/ ReadEntry(c) \/ DieReading(c)

LEMMA ActsAlone ==
    ASSUME ClientAssumption, IInv, NEW c \in Client, Acts(c)
    PROVE  OnlyOne(c)
<1>1. ThreadsOK /\ SegmentsOK /\ IdsOK /\ CallsOK /\ UseOK /\ AppsOK
  BY DEF IInv
<1>2. CASE SocketMove(c) \/ Attach(c)
  BY <1>1, <1>2, SocketMoveOK, AttachOK
<1>3. CASE RtdbCall(c) \/ PushRequest(c) \/ WaitToPush(c) \/ WaitToPop(c)
  BY <1>1, <1>3, RtdbCallOK, PushRequestOK, WaitOK
<1>4. CASE PopConfirm(c) \/ Timeout(c) \/ DieInQueue(c)
  BY <1>1, <1>4, PopConfirmOK, TimeoutOK, DieInQueueOK
<1>5. CASE ReadValue(c) \/ ReadEntry(c) \/ DieReading(c)
  BY <1>1, <1>5, ReadValueOK, ReadEntryOK, DieReadingOK
<1>. QED  BY <1>2, <1>3, <1>4, <1>5 DEF Acts

\* An application acts itself, or stays where it is, or is woken.
Stays(c) ==
    /\ DOMAIN app' = Client /\ DOMAIN app'[c] = AppFields /\ Same(c)
    /\ \/ app'[c].pc = app[c].pc
       \/ app[c].pc = "push_waiting" /\ app'[c].pc = "push_woken"
       \/ app[c].pc = "pop_waiting" /\ app'[c].pc = "pop_woken"

LEMMA DaemonStep ==
    ASSUME ClientAssumption, IInv,
           Quiet \/ RtdbRequest \/ RtdbThrows \/ RtdbDrained \/ HandleRequest,
           NEW c \in Client
    PROVE  Stays(c)
<1>1. ThreadsOK /\ SegmentsOK /\ AppsOK /\ SocketOK
  BY DEF IInv
<1>2. ASSUME UNCHANGED app
      PROVE  Stays(c)
  BY <1>1, <1>2 DEF Stays, Same, AppsOK
<1>3. ASSUME NEW s, NEW svc, Woken(s, svc, "push_waiting", "push_woken")
                             \/ Woken(s, svc, "pop_waiting", "pop_woken")
      PROVE  Stays(c)
  BY <1>3 DEF Stays, Woken
<1>4. CASE Quiet \/ RtdbThrows \/ HandleRequest
  <2>1. UNCHANGED app
    BY <1>1, <1>4, QuietKeeps, RtdbThrowsOK, HandledOK
  <2>. QED  BY <1>2, <2>1
<1>5. CASE RtdbRequest
  <2>1. UNCHANGED app \/ \E s, svc : Woken(s, svc, "pop_waiting", "pop_woken")
    BY <1>1, <1>5, RtdbRequestOK, ZenonT(40)
  <2>. QED  BY <1>2, <1>3, <2>1
<1>6. CASE RtdbDrained
  <2>1. \E s, svc : Woken(s, svc, "push_waiting", "push_woken")
    BY <1>1, <1>6, RtdbDrainedOK, Zenon
  <2>. QED  BY <1>3, <2>1
<1>. QED  BY <1>4, <1>5, <1>6

LEMMA OthersStay ==
    ASSUME ClientAssumption, IInv, NEW c \in Client, NEW d \in Client, Acts(d), c # d
    PROVE  Stays(c)
<1>1. OnlyOne(d)
  BY ActsAlone
<1>2. DOMAIN app' = Client /\ app'[c] = app[c]
  BY <1>1 DEF OnlyOne
<1>3. AppsOK
  BY DEF IInv
<1>. QED  BY <1>2, <1>3 DEF Stays, Same, AppsOK

LEMMA ActorStep ==
    ASSUME ClientAssumption, IInv, [Next]_vars, NEW c \in Client
    PROVE  Acts(c) \/ Stays(c)
<1>1. \/ Quiet \/ RtdbRequest \/ RtdbThrows \/ RtdbDrained \/ HandleRequest
      \/ \E d \in Client : Acts(d)
  BY StepCases, Zenon DEF Acts
<1>2. ASSUME NEW d \in Client, Acts(d), c # d
      PROVE  Stays(c)
  BY <1>2, OthersStay
<1>. QED  BY <1>1, <1>2, DaemonStep

\* Only a request that its user puts there ends the silence in a segment.
LEMMA IdleKept ==
    ASSUME ClientAssumption, IInv, [Next]_vars, NEW s \in 1 .. Len(segments), NEW svc \in Services,
           Idle(s, svc), \A c \in Client : PushRequest(c) => app[c].segment # s
    PROVE  Idle(s, svc)'
<1>1. /\ ThreadsOK /\ SegmentsOK /\ IdsOK /\ CallsOK /\ UseOK /\ AppsOK /\ SocketOK
      /\ Len(segments) \in Nat
  BY SegmentsStep DEF IInv
<1>2. ASSUME segments'[s] = segments[s]
      PROVE  Idle(s, svc)'
  BY <1>2, Zenon DEF Idle
<1>3. CASE Quiet
  <2>1. UNCHANGED segments
    BY <1>3, QuietKeeps
  <2>. QED  BY <1>2, <2>1
<1>4. CASE RtdbRequest \/ RtdbThrows
  <2>1. PICK r \in 1 .. Len(segments), v \in Services, t \in Seq(Segment) : \E q :
            /\ segments[r].req[v].items # <<>> /\ q.items = Tail(segments[r].req[v].items)
            /\ ReqSet(segments, t, r, v, q)
            /\ RequestGone(t) \/ ConfirmPut(r, v, t)
    BY <1>4, RtdbTakes
  <2>2. CASE r # s
    <3>1. segments'[s] = segments[s]
      BY <2>1, <2>2 DEF ReqSet, ConfSet, RequestGone, ConfirmPut
    <3>. QED  BY <1>2, <3>1, SMTT(30)
  <2>3. CASE r = s
    <3>1. v # svc
      BY <2>1, <2>3 DEF Idle
    <3>2. t[s].req[svc] = segments[s].req[svc] /\ t[s].conf[svc] = segments[s].conf[svc]
      BY <2>1, <2>3, <3>1 DEF ReqSet
    <3>3. CASE RequestGone(t)
      BY <2>3, <3>2, <3>3, Zenon DEF RequestGone, Idle
    <3>4. CASE ConfirmPut(r, v, t)
      <4>1. segments'[s].req[svc] = t[s].req[svc] /\ segments'[s].conf[svc] = t[s].conf[svc]
        BY <2>3, <3>1, <3>4 DEF ConfSet, ConfirmPut
      <4>. QED  BY <3>2, <4>1, Zenon DEF Idle
    <3>. QED  BY <2>1, <3>3, <3>4
  <2>. QED  BY <2>2, <2>3
<1>5. CASE RtdbDrained
  <2>1. PICK r \in 1 .. Len(segments), v \in Services :
            ReqSet(segments, segments', r, v, [segments[r].req[v] EXCEPT !.has_data = FALSE])
    BY <1>1, <1>5, RtdbDrainedOK
  <2>2. PICK q : q = [segments[r].req[v] EXCEPT !.has_data = FALSE]
    OBVIOUS
  <2>3. q.items = segments[r].req[v].items
    <3>1. segments[r].req[v] \in QueueOf(Question)
      <4>1. segments[r] \in Segment
        BY <1>1, ElementOfSeq DEF SegmentsOK
      <4>. QED  BY <4>1 DEF Segment
    <3>. QED  BY <2>2, <3>1, FlagsOK
  <2>4. SameUse(s)
    BY <2>1, <2>2, <2>3, SetSameUse
  <2>. QED  BY <2>4, SameIdle
<1>6. CASE HandleRequest
  <2>1. CASE UNCHANGED segments
    BY <1>2, <2>1
  <2>2. CASE segments' = Append(segments, NewSegment(TheSender))
    <3>1. PICK m \in Client : m = TheSender
      BY <1>1, <1>6, HandledOK DEF TheSender
    <3>2. segments'[s] = segments[s]
      BY <1>1, <2>2, <3>1, FreshSegment
    <3>. QED  BY <1>2, <3>2
  <2>. QED  BY <1>1, <1>6, <2>1, <2>2, HandledOK
<1>7. ASSUME NEW c \in Client, SocketMove(c) \/ WaitToPush(c) \/ WaitToPop(c) \/ ReadValue(c)
                               \/ ReadEntry(c) \/ DieReading(c)
      PROVE  Idle(s, svc)'
  <2>1. UNCHANGED segments
    BY <1>1, <1>7, SocketMoveOK, WaitOK, ReadValueOK, ReadEntryOK, DieReadingOK
  <2>. QED  BY <1>2, <2>1
<1>8. ASSUME NEW c \in Client, PushRequest(c)
      PROVE  Idle(s, svc)'
  <2>1. segments'[s] = segments[s]
    <3>1. ReqSet(segments, segments', app[c].segment, TheCall(c).op, Push(RequestsOf(c), TheCall(c)))
      BY <1>1, <1>8, PushRequestOK
    <3>. QED  BY <1>8, <3>1 DEF ReqSet
  <2>. QED  BY <1>2, <2>1
<1>9. ASSUME NEW c \in Client, Attach(c) \/ Timeout(c)
      PROVE  Idle(s, svc)'
  <2>1. UNCHANGED segments \/ \E r, b : DisturbedSet(segments, segments', r, b)
    BY <1>1, <1>9, AttachOK, TimeoutOK
  <2>2. segments'[s].req = segments[s].req /\ segments'[s].conf = segments[s].conf
    BY <2>1 DEF DisturbedSet
  <2>. QED  BY <2>2, Zenon DEF Idle
<1>10. ASSUME NEW c \in Client, RtdbCall(c) \/ PopConfirm(c) \/ DieInQueue(c)
       PROVE  Idle(s, svc)'
  <2>1. Using(c)
    BY <1>1, <1>10, RtdbCallOK, PopConfirmOK, DieInQueueOK DEF Using, Pushing, Popping
  <2>2. PICK r \in 1 .. Len(segments) : r = app[c].segment
    BY <1>1, <2>1, ItsSegment
  <2>3. \A v \in Services : /\ segments[r].req[v] \in QueueOf(Question)
                            /\ segments[r].conf[v] \in QueueOf(Reply)
    BY <1>1, <2>1, <2>2, ItsSegment
  <2>4. CASE RtdbCall(c)
    <3>1. PICK v \in Services : ConfSet(segments, segments', r, v, Reset(segments[r].conf[v]))
      BY <1>1, <2>2, <2>4, RtdbCallOK
    <3>2. CASE r # s
      BY <1>2, <3>1, <3>2 DEF ConfSet
    <3>3. CASE r = s /\ v # svc
      <4>1. segments'[s].req = segments[s].req /\ segments'[s].conf[svc] = segments[s].conf[svc]
        BY <3>1, <3>3 DEF ConfSet
      <4>. QED  BY <4>1, Zenon DEF Idle
    <3>4. CASE r = s /\ v = svc
      <4>1. PICK p \in QueueOf(Reply) : p = segments[s].conf[svc]
        BY <2>3, <3>4
      <4>2. PICK q : q = Reset(p)
        OBVIOUS
      <4>3. q.items = <<>> /\ q.has_data = p.has_data
        BY <4>2, ResetOK
      <4>4. segments'[s].req = segments[s].req /\ segments'[s].conf[svc] = q
        BY <3>1, <3>4, <4>1, <4>2 DEF ConfSet
      <4>. QED  BY <4>1, <4>3, <4>4, Zenon DEF Idle
    <3>. QED  BY <3>2, <3>3, <3>4
  <2>5. CASE DieInQueue(c)
    <3>1. PICK v \in Services :
              \/ ReqSet(segments, segments', r, v, [segments[r].req[v] EXCEPT !.locked = TRUE])
              \/ ConfSet(segments, segments', r, v, [segments[r].conf[v] EXCEPT !.locked = TRUE])
      BY <1>1, <2>2, <2>5, DieInQueueOK, Zenon
    <3>2. PICK p : p = [segments[r].req[v] EXCEPT !.locked = TRUE]
      OBVIOUS
    <3>3. PICK q : q = [segments[r].conf[v] EXCEPT !.locked = TRUE]
      OBVIOUS
    <3>4. p.items = segments[r].req[v].items /\ q.items = segments[r].conf[v].items
          /\ q.has_data = segments[r].conf[v].has_data
      BY <2>3, <3>2, <3>3, FlagsOK
    <3>5. \/ ReqSet(segments, segments', r, v, p) \/ ConfSet(segments, segments', r, v, q)
      BY <3>1, <3>2, <3>3, Zenon
    <3>6. q.has_data <=> segments[r].conf[v].has_data
      BY <3>4
    <3>7. SameUse(s)
      BY <3>4, <3>5, <3>6, SetSameUse
    <3>. QED  BY <3>7, SameIdle
  <2>6. CASE PopConfirm(c)
    <3>1. \/ UNCHANGED segments
          \/ /\ ConfirmsOf(c).items # <<>>
             /\ ConfSet(segments, segments', r, TheCall(c).op, Pop(ConfirmsOf(c)))
      BY <1>1, <2>2, <2>6, PopConfirmOK
    <3>2. CASE UNCHANGED segments
      BY <1>2, <3>2
    <3>3. CASE ConfirmsOf(c).items # <<>> /\ ConfSet(segments, segments', r, TheCall(c).op, Pop(ConfirmsOf(c)))
      <4>1. CASE r # s
        BY <1>2, <3>3, <4>1 DEF ConfSet
      <4>2. CASE r = s
        <5>1. TheCall(c).op \in Services
          BY <1>1, <2>6, ItsQueues, PopConfirmOK DEF Popping
        <5>2. TheCall(c).op # svc
          BY <2>2, <3>3, <4>2 DEF Idle, ConfirmsOf
        <5>3. segments'[s].req = segments[s].req /\ segments'[s].conf[svc] = segments[s].conf[svc]
          BY <3>3, <4>2, <5>2 DEF ConfSet
        <5>. QED  BY <5>3, Zenon DEF Idle
      <4>. QED  BY <4>1, <4>2
    <3>. QED  BY <3>1, <3>2, <3>3
  <2>. QED  BY <1>10, <2>4, <2>5, <2>6
<1>. QED  BY <1>3, <1>4, <1>5, <1>6, <1>7, <1>8, <1>9, <1>10, StepCases


\* What an application is to do does not change.
LEMMA ScenarioKept ==
    ASSUME ClientAssumption, IInv, [Next]_vars
    PROVE  scenario' = scenario
<1>1. ThreadsOK /\ SegmentsOK /\ AppsOK /\ SocketOK
  BY SMTT(30) DEF IInv
<1>2. CASE Quiet \/ RtdbRequest \/ RtdbThrows \/ RtdbDrained \/ HandleRequest
  BY <1>1, <1>2, QuietKeeps, RtdbRequestOK, RtdbThrowsOK, RtdbDrainedOK, HandledOK
<1>3. ASSUME NEW c \in Client, Acts(c)
      PROVE  scenario' = scenario
  BY <1>3, CasesAreActions, ApplicationKeeps DEF Acts
<1>. QED  BY <1>2, <1>3, StepCases DEF Acts

\* A name stands for the same segment as before, for none, or for one that has been made now.
LEMMA ShmStep ==
    ASSUME ClientAssumption, IInv, [Next]_vars, NEW n \in Name
    PROVE  \/ shm'[n] \in {shm[n], NoSegment}
           \/ /\ shm'[n] = Len(segments) + 1
              /\ \A svc \in Services :
                    LET x == segments'[Len(segments) + 1]
                    IN  x.req[svc].items = <<>> /\ x.conf[svc].items = <<>> /\ ~ x.conf[svc].has_data
<1>1. ThreadsOK /\ SegmentsOK /\ AppsOK /\ SocketOK /\ shm \in [Name -> 0 .. Len(segments)]
  BY DEF IInv, ThreadsOK
<1>2. CASE Quiet
  <2>1. UNCHANGED shm \/ shm' = [m \in Name |-> NoSegment]
    <3>1. CASE RtdbLoop \/ RtdbClient \/ RtdbQueue
      BY <3>1 DEF RtdbLoop, RtdbClient, RtdbQueue, RtdbKeeps
    <3>2. CASE Others
      <4>1. PICK v \in scenario.others : CreateOther(v) \/ MarkDeleted(v)
        BY <3>2 DEF Others
      <4>. QED  BY <4>1 DEF CreateOther, MarkDeleted, OthersKeep, daemonVars
    <3>3. CASE CommandLoop \/ ReadNothing \/ Shutdown \/ CommandStop
      BY <3>3 DEF CommandLoop, ReadNothing, Shutdown, CommandStop, daemonVars
    <3>4. CASE DaemonExit
      BY <3>4 DEF DaemonExit
    <3>5. CASE UNCHANGED vars
      BY <3>5 DEF vars, daemonVars
    <3>. QED  BY <1>2, <3>1, <3>2, <3>3, <3>4, <3>5 DEF Quiet
  <2>. QED  BY <2>1
<1>3. CASE RtdbRequest \/ RtdbThrows \/ RtdbDrained
  <2>1. UNCHANGED shm
    BY <1>1, <1>3, RtdbRequestOK, RtdbThrowsOK, RtdbDrainedOK
  <2>. QED  BY <2>1, SMTT(30)
<1>4. ASSUME NEW c \in Client, Acts(c)
      PROVE  UNCHANGED shm
  BY <1>4, CasesAreActions, ApplicationKeeps DEF Acts
<1>5. CASE HandleRequest
  <2>1. CASE /\ segments' = Append(segments, NewSegment(TheSender))
             /\ shm' = [shm EXCEPT ![TheRequest.name] = Len(segments) + 1]
    <3>1. PICK m \in Client : m = TheSender
      BY <1>1, <1>5, HandledOK DEF TheSender
    <3>2. \A svc \in Services :
              LET x == segments'[Len(segments) + 1]
              IN  x.req[svc].items = <<>> /\ x.conf[svc].items = <<>> /\ ~ x.conf[svc].has_data
      BY <1>1, <2>1, <3>1, FreshSegment
    <3>3. shm'[n] \in {shm[n], Len(segments) + 1}
      BY <1>1, <2>1
    <3>. QED  BY <3>2, <3>3
  <2>2. CASE shm' = [shm EXCEPT ![TheRequest.name] = NoSegment] \/ UNCHANGED shm
    BY <1>1, <2>2
  <2>. QED  BY <1>1, <1>5, <2>1, <2>2, HandledOK
<1>. QED  BY <1>2, <1>3, <1>4, <1>5, StepCases DEF Acts

\* Who may open a segment under its name may do so later, unless it has.
LEMMA MayAttachStep ==
    ASSUME ClientAssumption, IInv, [Next]_vars, NEW c \in Client, Registers(c), ~ Using(c),
           MayAttach(c)
    PROVE  MayAttach(c)'
<1>1. ThreadsOK /\ SegmentsOK /\ CallsOK /\ UseOK /\ AppsOK /\ Len(segments) \in Nat
  BY SegmentsStep DEF IInv
<1>2. PICK n \in Name : n = scenario.name[c]
  BY DEF Registers
<1>3. scenario'.name[c] = n
  BY <1>2, ScenarioKept
<1>4. CASE shm'[n] = NoSegment
  BY <1>3, <1>4 DEF MayAttach
<1>5. CASE shm'[n] = shm[n] /\ shm[n] # NoSegment
  <2>1. PICK s : s = shm[n]
    OBVIOUS
  <2>2. s \in 1 .. Len(segments)
    BY <1>1, <1>5, <2>1 DEF ThreadsOK, NoSegment
  <2>3. segments[s].disturbed \/ segments[s].maker # c \/ \A svc \in Services : Idle(s, svc)
    BY <1>2, <1>5, <2>1, Zenon DEF MayAttach
  <2>4. CASE segments[s].disturbed
    <3>1. segments'[s].disturbed
      BY <2>2, <2>4, SegmentsStep
    <3>. QED  BY <1>3, <1>5, <2>1, <3>1 DEF MayAttach
  <2>5. CASE segments[s].maker # c
    <3>1. segments'[s].maker # c
      BY <2>2, <2>5, SegmentsStep
    <3>. QED  BY <1>3, <1>5, <2>1, <3>1 DEF MayAttach
  <2>6. CASE /\ ~ segments[s].disturbed /\ segments[s].maker = c
             /\ \A svc \in Services : Idle(s, svc)
    <3>1. \A d \in Client : PushRequest(d) => app[d].segment # s
      <4>1. ASSUME NEW d \in Client, PushRequest(d), app[d].segment = s
            PROVE  FALSE
        <5>1. Using(d)
          BY <1>1, <4>1, PushRequestOK DEF Using, Pushing
        <5>2. segments[s].maker = d
          BY <1>1, <2>6, <4>1, <5>1 DEF UseOK
        <5>. QED  BY <2>6, <5>1, <5>2
      <4>. QED  BY <4>1
    <3>2. \A svc \in Services : Idle(s, svc)'
      BY <2>2, <2>6, <3>1, IdleKept
    <3>3. shm'[scenario'.name[c]] = s
      BY <1>3, <1>5, <2>1
    <3>. QED  BY <3>2, <3>3, Zenon DEF MayAttach, Idle
  <2>. QED  BY <2>3, <2>4, <2>5, <2>6
<1>6. CASE /\ shm'[n] = Len(segments) + 1
           /\ \A svc \in Services :
                 LET x == segments'[Len(segments) + 1]
                 IN  x.req[svc].items = <<>> /\ x.conf[svc].items = <<>> /\ ~ x.conf[svc].has_data
  <2>1. PICK s : s = Len(segments) + 1
    OBVIOUS
  <2>2. \A svc \in Services : Idle(s, svc)'
    BY <1>6, <2>1 DEF Idle
  <2>3. shm'[scenario'.name[c]] = s
    BY <1>3, <1>6, <2>1
  <2>. QED  BY <2>2, <2>3, Zenon DEF MayAttach, Idle
<1>. QED  BY <1>4, <1>5, <1>6, ShmStep


(***************************************************************************)
(* The command socket.                                                     *)
(***************************************************************************)
\* An end of a connection is closed.
LEMMA CloseEndOK ==
    ASSUME NEW x, DOMAIN x = ConnFields, NEW end
    PROVE  LET y == CloseEnd(x, end)
           IN  /\ DOMAIN y = ConnFields /\ y.client = x.client
               /\ y.open = x.open \ {end}
               /\ y.open # {} => y.request = x.request /\ y.response = x.response
<1>1. PICK y : y = CloseEnd(x, end)
  OBVIOUS
<1>2. CASE x.open \subseteq {end}
  <2>1. y = Finished(x.client)
    BY <1>1, <1>2 DEF CloseEnd
  <2>2. DOMAIN y = ConnFields /\ y.client = x.client /\ y.open = {}
    BY <2>1 DEF Finished, ConnFields
  <2>. QED  BY <1>1, <1>2, <2>2
<1>3. CASE ~ (x.open \subseteq {end})
  <2>1. y = [x EXCEPT !.open = @ \ {end}]
    BY <1>1, <1>3 DEF CloseEnd
  <2>2. /\ DOMAIN y = ConnFields /\ y.client = x.client /\ y.open = x.open \ {end}
        /\ y.request = x.request /\ y.response = x.response
    BY <2>1 DEF ConnFields
  <2>. QED  BY <1>1, <2>2
<1>. QED  BY <1>2, <1>3

\* A connection is as it was, or an end of it has been closed.
ConnKept(n) ==
    /\ DOMAIN conns'[n] = ConnFields /\ conns'[n].client = conns[n].client
    /\ conns'[n].open \subseteq conns[n].open
    /\ "client" \in conns'[n].open =>
          conns'[n].request = conns[n].request /\ conns'[n].response = conns[n].response

LEMMA ConnectionFrame ==
    ASSUME ClientAssumption, IInv, [Next]_vars, NEW n \in 1 .. Len(conns),
           ConnKept(n), "client" \in conns'[n].open, Stays(conns[n].client)
    PROVE  ConnectionOK(n, conns[n].client)'
<1>1. SocketOK /\ AppsOK
  BY DEF IInv
<1>2. PICK c \in Client : c = conns[n].client
  BY <1>1 DEF SocketOK
<1>3. /\ "client" \in conns[n].open /\ conns'[n].client = c
      /\ conns'[n].request = conns[n].request /\ conns'[n].response = conns[n].response
  BY <1>2 DEF ConnKept
<1>4. ConnectionOK(n, c)
  BY <1>1, <1>2, <1>3 DEF SocketOK
<1>5. app[c].pc \in Asking
  BY <1>4 DEF ConnectionOK, Asking
<1>6. app'[c].pc = app[c].pc
  BY <1>2, <1>5 DEF Stays, Asking
<1>7. scenario' = scenario
  BY ScenarioKept
<1>8. ASSUME app[c].pc = "asking", Registers(c), conns[n].response # NoResponse,
             conns[n].response.status = "OK"
      PROVE  MayAttach(c)'
  <2>1. MayAttach(c)
    BY <1>4, <1>8 DEF ConnectionOK
  <2>2. ~ Using(c)
    BY <1>8 DEF Using, Pushing, Popping
  <2>. QED  BY <1>8, <2>1, <2>2, MayAttachStep
<1>9. Registers(c)' <=> Registers(c)
  BY <1>7 DEF Registers
<1>10. /\ app'[c].pc \in {"opening", "asking", "closing", "leaving"}
       /\ app'[c].pc = "opening" => conns'[n].request = NoRequest /\ conns'[n].response = NoResponse
  BY <1>3, <1>4, <1>6 DEF ConnectionOK
<1>11. ASSUME app'[c].pc = "asking", Registers(c)'
       PROVE  /\ conns'[n].request = [s_type |-> "Register", name |-> scenario'.name[c],
                                      delete_old |-> c \in scenario'.delete_old]
              /\ conns'[n].response # NoResponse /\ conns'[n].response.status = "OK" => MayAttach(c)'
  BY <1>3, <1>4, <1>6, <1>7, <1>8, <1>9, <1>11 DEF ConnectionOK
<1>12. ConnectionOK(n, c)'
  BY <1>10, <1>11 DEF ConnectionOK
<1>. QED  BY <1>3, <1>12, Zenon DEF ConnectionOK, MayAttach, Registers, Idle

\* No connection is new, and who has one does nothing.
LEMMA SocketFrame ==
    ASSUME ClientAssumption, IInv, [Next]_vars, IsSequence(conns'), Len(conns') = Len(conns),
           data_socket' \in 0 .. Len(conns'), accepted' \in 0 .. Len(conns'),
           \A n \in 1 .. Len(conns) : ConnKept(n),
           \A n \in 1 .. Len(conns) : "client" \in conns'[n].open => Stays(conns[n].client)
    PROVE  SocketOK'
<1>1. SocketOK
  BY DEF IInv
<1>2. ASSUME NEW n \in 1 .. Len(conns)
      PROVE  /\ DOMAIN conns'[n] = ConnFields /\ conns'[n].client = conns[n].client
             /\ conns'[n].client \in Client /\ conns'[n].open \subseteq {"client", "owner"}
             /\ "client" \in conns'[n].open => "client" \in conns[n].open
  BY <1>1 DEF SocketOK, ConnKept
<1>3. \A n, m \in 1 .. Len(conns') :
          conns'[n].client = conns'[m].client /\ "client" \in conns'[n].open
             /\ "client" \in conns'[m].open => n = m
  BY <1>1, <1>2 DEF SocketOK
<1>4. \A n \in 1 .. Len(conns') : "client" \in conns'[n].open => ConnectionOK(n, conns[n].client)'
  BY ConnectionFrame
<1>. QED  BY <1>2, <1>3, <1>4 DEF SocketOK


\* The connections are as they were, but for ends that are closed.
SocketKept ==
    /\ IsSequence(conns') /\ Len(conns') = Len(conns)
    /\ data_socket' \in 0 .. Len(conns') /\ accepted' \in 0 .. Len(conns')
    /\ \A n \in 1 .. Len(conns) : ConnKept(n)

LEMMA SameSocket ==
    ASSUME SocketOK, UNCHANGED conns, data_socket' \in 0 .. Len(conns'),
           accepted' \in 0 .. Len(conns')
    PROVE  SocketKept
BY DEF SocketOK, SocketKept, ConnKept

LEMMA KeepSocket ==
    ASSUME SocketOK, UNCHANGED socketVars
    PROVE  SocketKept
BY SameSocket DEF SocketOK, socketVars

MayClose(n, end) == conns'[n] = conns[n] \/ conns'[n] = CloseEnd(conns[n], end)

LEMMA ClosedIsKept ==
    ASSUME SocketOK, NEW n, n \in 1 .. Len(conns), NEW end, MayClose(n, end)
    PROVE  ConnKept(n) /\ (conns'[n] # conns[n] => conns'[n].open = conns[n].open \ {end})
<1>1. DOMAIN conns[n] = ConnFields
  BY DEF SocketOK
<1>2. PICK y : y = CloseEnd(conns[n], end)
  OBVIOUS
<1>3. /\ DOMAIN y = ConnFields /\ y.client = conns[n].client
      /\ y.open = conns[n].open \ {end}
      /\ y.open # {} => y.request = conns[n].request /\ y.response = conns[n].response
  BY <1>1, <1>2, CloseEndOK
<1>4. CASE conns'[n] = conns[n]
  BY <1>1, <1>4 DEF ConnKept
<1>5. CASE conns'[n] = y
  BY <1>3, <1>5 DEF ConnKept
<1>. QED  BY <1>2, <1>4, <1>5 DEF MayClose

\* The end of one connection is closed, and that of the owner of some.
ClosesOne(n, end) == conns' = [conns EXCEPT ![n] = CloseEnd(@, end)]
ClosesSome(S) ==
    conns' = [n \in 1 .. Len(conns) |-> IF n \in S THEN CloseEnd(conns[n], "owner") ELSE conns[n]]

LEMMA CloseOneOK ==
    ASSUME SocketOK, NEW n \in 1 .. Len(conns), NEW end, ClosesOne(n, end)
    PROVE  /\ IsSequence(conns') /\ Len(conns') = Len(conns)
           /\ conns'[n].open = conns[n].open \ {end}
           /\ \A m \in 1 .. Len(conns) : ConnKept(m) /\ (m # n => conns'[m] = conns[m])
<1>1. IsSequence(conns) /\ DOMAIN conns[n] = ConnFields
  BY DEF SocketOK
<1>2. PICK y : y = CloseEnd(conns[n], end)
  OBVIOUS
<1>3. conns' = [conns EXCEPT ![n] = y]
  BY <1>2 DEF ClosesOne
<1>4. /\ IsSequence(conns') /\ Len(conns') = Len(conns) /\ conns'[n] = y
      /\ \A m \in 1 .. Len(conns) : m # n => conns'[m] = conns[m]
  <2>1. Replaced(conns, n, y, conns')
    BY <1>3 DEF Replaced
  <2>. QED  BY <1>1, <2>1, SequenceReplaced
<1>5. y.open = conns[n].open \ {end}
  BY <1>1, <1>2, CloseEndOK
<1>6. \A m \in 1 .. Len(conns) : ConnKept(m)
  <2>1. ASSUME NEW m \in 1 .. Len(conns)
        PROVE  ConnKept(m)
    <3>1. MayClose(m, end)
      BY <1>2, <1>4 DEF MayClose
    <3>. QED  BY <3>1, ClosedIsKept
  <2>. QED  BY <2>1, Zenon
<1>. QED  BY <1>4, <1>5, <1>6

LEMMA CloseSomeOK ==
    ASSUME SocketOK, NEW S, ClosesSome(S),
           data_socket' \in {data_socket, NoSocket}, accepted' = accepted
    PROVE  SocketKept
<1>1. Len(conns) \in Nat /\ data_socket \in 0 .. Len(conns) /\ accepted \in 0 .. Len(conns)
  BY SequenceIs DEF SocketOK
<1>2. PICK k \in Nat : k = Len(conns)
  BY <1>1
<1>3. DOMAIN conns' = 1 .. k /\ conns' = [n \in 1 .. k |-> conns'[n]]
  BY <1>2 DEF ClosesSome
<1>4. IsSequence(conns') /\ Len(conns') = k
  BY <1>3, SequenceOf
<1>6. \A n \in 1 .. Len(conns) : ConnKept(n)
  <2>1. ASSUME NEW n \in 1 .. Len(conns)
        PROVE  ConnKept(n)
    <3>1. MayClose(n, "owner")
      BY DEF MayClose, ClosesSome
    <3>. QED  BY <3>1, ClosedIsKept
  <2>. QED  BY <2>1, Zenon
<1>7. data_socket' \in 0 .. Len(conns') /\ accepted' \in 0 .. Len(conns')
  BY <1>1, <1>2, <1>4 DEF NoSocket
<1>. QED  BY <1>2, <1>4, <1>6, <1>7 DEF SocketKept

LEMMA QuietSocket ==
    ASSUME SocketOK, Quiet \/ OwnerGone \/ RtdbRequest \/ RtdbThrows \/ RtdbDrained
    PROVE  SocketKept
<1>1. /\ IsSequence(conns) /\ Len(conns) \in Nat /\ conns = [i \in 1 .. Len(conns) |-> conns[i]]
      /\ data_socket \in 0 .. Len(conns) /\ accepted \in 0 .. Len(conns)
  BY SequenceIs DEF SocketOK
<1>2. CASE UNCHANGED socketVars
  BY <1>2, KeepSocket
<1>3. CASE OwnerGone
  <2>1. PICK S : S = 1 .. Len(conns)
    OBVIOUS
  <2>2. ClosesSome(S)
    BY <1>3, <2>1 DEF OwnerGone, ClosesSome
  <2>3. data_socket' \in {data_socket, NoSocket} /\ accepted' = accepted
    BY <1>3 DEF OwnerGone
  <2>. QED  BY <2>2, <2>3, CloseSomeOK
<1>4. CASE close_owner
  <2>1. PICK S : S = {n \in 1 .. Len(conns) : n > accepted}
    OBVIOUS
  <2>2. ClosesSome(S)
    BY <1>4, <2>1 DEF close_owner, ClosesSome
  <2>3. data_socket' \in {data_socket, NoSocket} /\ accepted' = accepted
    BY <1>4 DEF close_owner
  <2>. QED  BY <2>2, <2>3, CloseSomeOK
<1>5. CASE accept
  <2>1. UNCHANGED conns /\ accepted' = accepted + 1 /\ data_socket' = accepted' /\ accepted < Len(conns)
    BY <1>5 DEF accept
  <2>2. data_socket' \in 0 .. Len(conns') /\ accepted' \in 0 .. Len(conns')
    BY <1>1, <2>1
  <2>. QED  BY <1>1, <2>1, <2>2 DEF SocketKept, ConnKept, SocketOK
<1>6. CASE stop_read_command
  <2>1. /\ conns' = [conns EXCEPT ![data_socket] = CloseEnd(@, "owner")]
        /\ data_socket' = 0 /\ accepted' = accepted
    BY <1>6 DEF stop_read_command, NoSocket
  <2>2. CASE data_socket = 0
    <3>1. PICK y : conns' = [conns EXCEPT ![0] = y]
      BY <2>1, <2>2, Zenon
    <3>2. UNCHANGED conns
      <4>1. PICK q : q = conns
        OBVIOUS
      <4>2. PICK k \in Nat : k = Len(q)
        BY <1>1, <4>1
      <4>3. q = [i \in 1 .. k |-> q[i]]
        BY <1>1, <4>1, <4>2, Zenon
      <4>4. 0 \notin 1 .. k
        BY <4>2
      <4>5. [q EXCEPT ![0] = y] = q
        BY <4>3, <4>4, Zenon
      <4>. QED  BY <3>1, <4>1, <4>5, Zenon
    <3>3. data_socket' \in 0 .. Len(conns') /\ accepted' \in 0 .. Len(conns')
      BY <1>1, <2>1, <3>2
    <3>. QED  BY <3>2, <3>3, SameSocket
  <2>3. CASE data_socket # 0
    <3>1. PICK n \in 1 .. Len(conns) : n = data_socket
      BY <1>1, <2>3
    <3>2. ClosesOne(n, "owner")
      BY <2>1, <3>1, Zenon DEF ClosesOne
    <3>3. IsSequence(conns') /\ Len(conns') = Len(conns) /\ \A m \in 1 .. Len(conns) : ConnKept(m)
      BY <3>2, CloseOneOK
    <3>. QED  BY <1>1, <2>1, <3>3 DEF SocketKept
  <2>. QED  BY <2>2, <2>3
<1>7. CASE RtdbLoop \/ RtdbClient \/ RtdbQueue \/ RtdbRequest \/ RtdbThrows \/ RtdbDrained
  <2>1. UNCHANGED socketVars
    BY <1>7 DEF RtdbLoop, RtdbClient, RtdbQueue, RtdbRequest, RtdbThrows, RtdbDrained, RtdbKeeps
  <2>. QED  BY <1>2, <2>1
<1>8. CASE Others
  <2>1. PICK v \in scenario.others : CreateOther(v) \/ MarkDeleted(v)
    BY <1>8 DEF Others
  <2>2. UNCHANGED socketVars
    BY <2>1 DEF CreateOther, MarkDeleted, OthersKeep
  <2>. QED  BY <1>2, <2>2
<1>9. CASE CommandLoop
  <2>1. close_owner \/ UNCHANGED socketVars \/ accept
    BY <1>9 DEF CommandLoop
  <2>. QED  BY <1>2, <1>4, <1>5, <2>1
<1>10. CASE ReadNothing \/ Shutdown \/ CommandStop \/ DaemonExit
  <2>1. UNCHANGED socketVars \/ stop_read_command \/ OwnerGone
    BY <1>10 DEF ReadNothing, Shutdown, CommandStop, DaemonExit
  <2>. QED  BY <1>2, <1>3, <1>6, <2>1
<1>11. CASE UNCHANGED vars
  <2>1. UNCHANGED socketVars
    BY <1>11 DEF vars
  <2>. QED  BY <1>2, <2>1
<1>. QED  BY <1>3, <1>7, <1>8, <1>9, <1>10, <1>11 DEF Quiet


\* An application that does not use its connection has none.
LEMMA OffSocket ==
    ASSUME NEW d \in Client, Acts(d), ~ SocketMove(d)
    PROVE  UNCHANGED socketVars /\ app[d].pc \notin Asking
<1>1. CASE Attach(d) \/ PushRequest(d)
  BY <1>1 DEF Attach, PushRequest, QueueCallKeeps, Asking
<1>2. CASE WaitToPush(d) \/ PopConfirm(d) \/ WaitToPop(d)
  BY <1>2, SMTT(30) DEF WaitToPush, PopConfirm, WaitToPop, QueueCallKeeps, Asking
<1>3. CASE Timeout(d) \/ DieInQueue(d)
  BY <1>3 DEF Timeout, DieInQueue, QueueCallKeeps, Asking
<1>4. CASE RtdbCall(d)
  BY <1>4 DEF RtdbCall, Asking
<1>5. CASE ReadValue(d)
  BY <1>5 DEF ReadValue, Asking
<1>6. CASE ReadEntry(d)
  BY <1>6 DEF ReadEntry, Asking
<1>7. CASE DieReading(d)
  BY <1>7 DEF DieReading, Asking
<1>. QED  BY <1>1, <1>2, <1>3, <1>4, <1>5, <1>6, <1>7 DEF Acts

\* The others still have their connections, and who has done something has none.
LEMMA SocketOfOthers ==
    ASSUME ClientAssumption, IInv, [Next]_vars, SocketKept, NEW d \in Client, Acts(d),
           \A n \in 1 .. Len(conns) : "client" \in conns'[n].open => conns[n].client # d
    PROVE  SocketOK'
<1>1. SocketOK
  BY DEF IInv
<1>2. ASSUME NEW n \in 1 .. Len(conns), "client" \in conns'[n].open
      PROVE  Stays(conns[n].client)
  <2>1. PICK c \in Client : c = conns[n].client
    BY <1>1 DEF SocketOK
  <2>2. c # d
    BY <1>2, <2>1
  <2>3. Stays(c)
    BY <2>2, OthersStay
  <2>. QED  BY <2>1, <2>3
<1>. QED  BY <1>2, SocketFrame DEF SocketKept

LEMMA OpenIsAsking ==
    ASSUME SocketOK, NEW n \in 1 .. Len(conns), "client" \in conns[n].open
    PROVE  /\ conns[n].client \in Client /\ ConnectionOK(n, conns[n].client)
           /\ app[conns[n].client].pc \in Asking
BY DEF SocketOK, ConnectionOK, Asking

\* One connection is another record, of the same application and with the same ends.
LEMMA SocketOfOne ==
    ASSUME ClientAssumption, IInv, [Next]_vars, NEW n \in 1 .. Len(conns), NEW y,
           Replaced(conns, n, y, conns'), DOMAIN y = ConnFields, y.client = conns[n].client,
           y.open = conns[n].open, data_socket' = data_socket, accepted' = accepted,
           "client" \in y.open => ConnectionOK(n, conns[n].client)',
           \A m \in 1 .. Len(conns) : m # n /\ "client" \in conns[m].open => Stays(conns[m].client)
    PROVE  SocketOK'
<1>1. SocketOK
  BY DEF IInv
<1>2. /\ IsSequence(conns') /\ Len(conns') = Len(conns) /\ conns'[n] = y
      /\ \A m \in 1 .. Len(conns) : m # n => conns'[m] = conns[m]
  BY <1>1, SequenceReplaced DEF SocketOK
<1>3. ASSUME NEW m \in 1 .. Len(conns)
      PROVE  /\ DOMAIN conns'[m] = ConnFields /\ conns'[m].client = conns[m].client
             /\ conns'[m].client \in Client /\ conns'[m].open = conns[m].open
             /\ conns'[m].open \subseteq {"client", "owner"}
  BY <1>1, <1>2 DEF SocketOK
<1>4. \A i, j \in 1 .. Len(conns') :
          conns'[i].client = conns'[j].client /\ "client" \in conns'[i].open
             /\ "client" \in conns'[j].open => i = j
  BY <1>1, <1>2, <1>3 DEF SocketOK
<1>5. ASSUME NEW m \in 1 .. Len(conns), "client" \in conns'[m].open
      PROVE  ConnectionOK(m, conns[m].client)'
  <2>1. CASE m = n
    BY <1>2, <1>5, <2>1
  <2>2. CASE m # n
    <3>1. conns'[m] = conns[m] /\ DOMAIN conns[m] = ConnFields
      BY <1>1, <1>2, <2>2 DEF SocketOK
    <3>2. ConnKept(m)
      BY <3>1 DEF ConnKept
    <3>3. Stays(conns[m].client)
      BY <1>5, <2>2, <3>1
    <3>. QED  BY <1>5, <3>2, <3>3, ConnectionFrame
  <2>. QED  BY <2>1, <2>2
<1>6. data_socket' \in 0 .. Len(conns') /\ accepted' \in 0 .. Len(conns')
  BY <1>1, <1>2 DEF SocketOK
<1>. QED  BY <1>2, <1>3, <1>4, <1>5, <1>6 DEF SocketOK

LEMMA SocketAtConnect ==
    ASSUME ClientAssumption, IInv, [Next]_vars, NEW d \in Client, Connect(d)
    PROVE  SocketOK'
<1>1. SocketOK /\ AppsOK
  BY DEF IInv
<1>2. PICK k, y : /\ k \in Nat /\ k = Len(conns)
                  /\ y = [client |-> d, request |-> NoRequest, response |-> NoResponse,
                          open |-> {"client", "owner"}]
  BY <1>1, SequenceIs DEF SocketOK
<1>3. conns' = Append(conns, y) /\ Connected(d) = {} /\ UNCHANGED <<data_socket, accepted>>
  BY <1>2 DEF Connect, open_client
<1>4. /\ IsSequence(conns') /\ Len(conns') = k + 1 /\ conns'[k + 1] = y
      /\ \A m \in 1 .. k : conns'[m] = conns[m]
  BY <1>1, <1>2, <1>3, SequenceAppend DEF SocketOK
<1>5. /\ DOMAIN y = ConnFields /\ y.client = d /\ y.open = {"client", "owner"}
      /\ y.request = NoRequest /\ y.response = NoResponse
  BY <1>2 DEF ConnFields
<1>6. \A m \in 1 .. k : "client" \in conns[m].open => conns[m].client # d
  BY <1>2, <1>3 DEF Connected
<1>7. \A m \in 1 .. k + 1 : m = k + 1 \/ m \in 1 .. k
  BY <1>2
<1>8. ASSUME NEW m \in 1 .. k, "client" \in conns'[m].open
      PROVE  ConnectionOK(m, conns[m].client)'
  <2>1. conns'[m] = conns[m] /\ DOMAIN conns[m] = ConnFields /\ conns[m].client \in Client
    BY <1>1, <1>2, <1>4 DEF SocketOK
  <2>2. ConnKept(m)
    BY <2>1 DEF ConnKept
  <2>3. Stays(conns[m].client)
    BY <1>6, <1>8, <2>1, OthersStay DEF Acts, SocketMove
  <2>. QED  BY <1>2, <1>8, <2>1, <2>2, <2>3, ConnectionFrame
<1>9. ConnectionOK(k + 1, conns[k + 1].client)'
  <2>1. scenario' = scenario /\ UNCHANGED shm
    BY ScenarioKept DEF Connect, SocketCallKeeps, DaemonKeeps, daemonVars
  <2>2. app'[d].pc \in {"opening", "closing"}
    <3>1. CASE Update(d, [NewApp(app[d].lives + 1) EXCEPT !.pc = "opening"])
      BY <1>1, <3>1 DEF Update, AppsOK, NewApp
    <3>2. CASE AppGoto(d, "closing")
      BY <1>1, <3>2 DEF AppGoto, Update, AppsOK, AppFields
    <3>. QED  BY <3>1, <3>2 DEF Connect
  <2>3. /\ conns'[k + 1].client = d /\ conns'[k + 1].request = NoRequest
        /\ conns'[k + 1].response = NoResponse
    BY <1>4, <1>5
  <2>. QED  BY <2>2, <2>3 DEF ConnectionOK
<1>10. ASSUME NEW m \in 1 .. Len(conns')
       PROVE  /\ DOMAIN conns'[m] = ConnFields /\ conns'[m].client \in Client
              /\ conns'[m].open \subseteq {"client", "owner"}
              /\ "client" \in conns'[m].open => ConnectionOK(m, conns[m].client)'
  <2>1. CASE m = k + 1
    BY <1>4, <1>5, <1>9, <2>1
  <2>2. CASE m \in 1 .. k
    BY <1>1, <1>2, <1>4, <1>8, <2>2 DEF SocketOK
  <2>. QED  BY <1>4, <1>7, <2>1, <2>2
<1>11. ASSUME NEW i \in 1 .. k + 1, NEW j \in 1 .. k + 1, conns'[i].client = conns'[j].client,
              "client" \in conns'[i].open, "client" \in conns'[j].open
       PROVE  i = j
  <2>1. CASE i \in 1 .. k /\ j \in 1 .. k
    BY <1>1, <1>2, <1>4, <1>11, <2>1 DEF SocketOK
  <2>2. CASE i \in 1 .. k /\ j = k + 1
    BY <1>4, <1>5, <1>6, <1>11, <2>2
  <2>3. CASE i = k + 1 /\ j \in 1 .. k
    BY <1>4, <1>5, <1>6, <1>11, <2>3
  <2>. QED  BY <1>7, <2>1, <2>2, <2>3
<1>12. data_socket' \in 0 .. Len(conns') /\ accepted' \in 0 .. Len(conns')
  BY <1>1, <1>2, <1>3, <1>4 DEF SocketOK
<1>. QED  BY <1>4, <1>10, <1>11, <1>12 DEF SocketOK

\* The request of an application that registers is to register.
LEMMA SocketAtRequest ==
    ASSUME ClientAssumption, IInv, [Next]_vars, NEW d \in Client, SendRequest(d)
    PROVE  SocketOK'
<1>1. SocketOK /\ AppsOK
  BY DEF IInv
<1>2. PICK n, r : /\ n = Connection(d) /\ r \in ClientRequest(d)
                  /\ Connected(d) # {} /\ conns' = [conns EXCEPT ![n].request = r]
                  /\ UNCHANGED <<data_socket, accepted>>
  BY Zenon DEF SendRequest, sendRequest
<1>3. n \in 1 .. Len(conns) /\ conns[n].client = d /\ "client" \in conns[n].open
  <2>1. n \in Connected(d)
    BY <1>2 DEF Connection
  <2>. QED  BY <2>1 DEF Connected
<1>4. PICK y : y = [conns[n] EXCEPT !.request = r]
  OBVIOUS
<1>5. Replaced(conns, n, y, conns')
  BY <1>2, <1>4, Zenon DEF Replaced
<1>6. /\ DOMAIN y = ConnFields /\ y.client = d /\ y.open = conns[n].open /\ y.request = r
      /\ y.response = conns[n].response
  BY <1>1, <1>3, <1>4 DEF SocketOK, ConnFields
<1>7. ConnectionOK(n, d) /\ scenario' = scenario
  BY <1>1, <1>3, ScenarioKept DEF SocketOK
<1>8. app'[d].pc = IF app[d].pc = "opening" THEN "asking" ELSE "leaving"
  BY <1>1 DEF SendRequest, AppGoto, Update, AppsOK, AppFields
<1>9. conns'[n] = y
  BY <1>1, <1>3, <1>5, SequenceReplaced DEF SocketOK
<1>10. Registers(d)' <=> Registers(d)
  BY <1>7 DEF Registers
<1>11. ASSUME app'[d].pc = "asking", Registers(d)'
       PROVE  /\ conns'[n].request = [s_type |-> "Register", name |-> scenario'.name[d],
                                       delete_old |-> d \in scenario'.delete_old]
              /\ conns'[n].response = NoResponse
  <2>1. app[d].pc = "opening" /\ Registers(d)
    BY <1>8, <1>10, <1>11
  <2>2. r = [s_type |-> "Register", name |-> scenario.name[d],
             delete_old |-> d \in scenario.delete_old]
    BY <1>2, <2>1 DEF ClientRequest
  <2>. QED  BY <1>6, <1>7, <1>9, <2>1, <2>2 DEF ConnectionOK
<1>12. ConnectionOK(n, d)'
  BY <1>8, <1>11 DEF ConnectionOK
<1>13. ConnectionOK(n, conns[n].client)'
  <2>1. conns'[n].client = d
    BY <1>6, <1>9
  <2>. QED  BY <1>12, <2>1, Zenon DEF ConnectionOK, MayAttach, Registers, Idle
<1>14. ASSUME NEW m \in 1 .. Len(conns), m # n, "client" \in conns[m].open
       PROVE  Stays(conns[m].client)
  <2>1. conns[m].client \in Client /\ conns[m].client # d
    BY <1>1, <1>3, <1>14 DEF SocketOK
  <2>. QED  BY <2>1, OthersStay DEF Acts, SocketMove
<1>. QED  BY <1>2, <1>3, <1>5, <1>6, <1>13, <1>14, SocketOfOne

\* An application that is confirmed may open the segment that has been made for it.
LEMMA SocketAtConfirm ==
    ASSUME ClientAssumption, IInv, [Next]_vars, HandleRequest, ClientListens
    PROVE  SocketOK'
<1>1. SocketOK /\ AppsOK /\ SegmentsOK /\ ThreadsOK /\ Len(segments) \in Nat
  BY SegmentsStep DEF IInv
<1>2. PICK n, r : n = data_socket /\ r = Confirm(TheRequest)
  OBVIOUS
<1>3. /\ n \in 1 .. Len(conns) /\ "client" \in conns[n].open
      /\ conns' = [conns EXCEPT ![n].response = r] /\ UNCHANGED <<data_socket, accepted>>
  BY <1>1, <1>2, HandledOK DEF HandleRequest, ClientListens, send_confirmation
<1>4. PICK c \in Client : c = conns[n].client /\ c = TheSender
  BY <1>1, <1>2, <1>3 DEF SocketOK, TheSender
<1>5. PICK y : y = [conns[n] EXCEPT !.response = r]
  OBVIOUS
<1>6. Replaced(conns, n, y, conns')
  BY <1>3, <1>5, Zenon DEF Replaced
<1>7. /\ DOMAIN y = ConnFields /\ y.client = c /\ y.open = conns[n].open /\ y.response = r
      /\ y.request = conns[n].request
  BY <1>1, <1>3, <1>4, <1>5 DEF SocketOK, ConnFields
<1>8. ConnectionOK(n, c) /\ scenario' = scenario
  BY <1>1, <1>3, <1>4, ScenarioKept DEF SocketOK
<1>9. \A d \in Client : Stays(d)
  BY DaemonStep
<1>10. app'[c].pc = app[c].pc
  BY <1>8, <1>9 DEF ConnectionOK, Stays
<1>11. app[c].pc # "opening"
  BY <1>2, <1>8 DEF HandleRequest, HasRequest, ConnectionOK
<1>12. conns'[n] = y
  BY <1>1, <1>3, <1>6, SequenceReplaced DEF SocketOK
<1>13. Registers(c)' <=> Registers(c)
  BY <1>8 DEF Registers
<1>14. ASSUME app[c].pc = "asking", Registers(c), r.status = "OK"
       PROVE  MayAttach(c)'
  <2>1. TheRequest.s_type = "Register" /\ TheRequest.name = scenario.name[c]
    BY <1>2, <1>8, <1>14 DEF ConnectionOK, TheRequest
  <2>2. Status(TheRequest) = "OK"
    BY <1>2, <1>14 DEF Confirm
  <2>3. /\ segments' = Append(segments, NewSegment(TheSender))
        /\ shm' = [shm EXCEPT ![TheRequest.name] = Len(segments) + 1]
    BY <1>1, <2>1, <2>2, HandledOK
  <2>4. PICK s : s = Len(segments) + 1
    OBVIOUS
  <2>5. shm'[scenario'.name[c]] = s
    BY <1>1, <1>8, <1>14, <2>1, <2>3, <2>4 DEF ThreadsOK, Registers
  <2>6. \A svc \in Services : /\ segments'[s].req[svc].items = <<>>
                               /\ segments'[s].conf[svc].items = <<>>
                               /\ ~ segments'[s].conf[svc].has_data
    BY <1>1, <1>4, <2>3, <2>4, FreshSegment
  <2>. QED  BY <2>5, <2>6, Zenon DEF MayAttach, Idle
<1>15. ConnectionOK(n, c)'
  <2>1. app'[c].pc \in {"opening", "asking", "closing", "leaving"} /\ app'[c].pc # "opening"
    BY <1>8, <1>10, <1>11 DEF ConnectionOK
  <2>2. ASSUME app'[c].pc = "asking", Registers(c)'
        PROVE  /\ conns'[n].request = [s_type |-> "Register", name |-> scenario'.name[c],
                                        delete_old |-> c \in scenario'.delete_old]
               /\ conns'[n].response.status = "OK" => MayAttach(c)'
    BY <1>7, <1>8, <1>10, <1>12, <1>13, <1>14, <2>2 DEF ConnectionOK
  <2>. QED  BY <2>1, <2>2 DEF ConnectionOK
<1>16. ConnectionOK(n, conns[n].client)'
  <2>1. conns'[n].client = c
    BY <1>7, <1>12
  <2>. QED  BY <1>15, <2>1, Zenon DEF ConnectionOK, MayAttach, Registers, Idle
<1>17. \A m \in 1 .. Len(conns) : Stays(conns[m].client)
  BY <1>1, <1>9 DEF SocketOK
<1>. QED  BY <1>3, <1>4, <1>6, <1>7, <1>16, <1>17, SocketOfOne

LEMMA SocketStep ==
    ASSUME ClientAssumption, IInv, [Next]_vars
    PROVE  SocketOK'
<1>1. SocketOK /\ AppsOK
  BY DEF IInv
<1>2. CASE Quiet \/ RtdbRequest \/ RtdbThrows \/ RtdbDrained \/ (HandleRequest /\ ~ ClientListens)
  <2>1. SocketKept
    <3>1. CASE HandleRequest /\ ~ ClientListens
      <4>1. OwnerGone
        BY <3>1 DEF HandleRequest
      <4>. QED  BY <1>1, <4>1, QuietSocket
    <3>. QED  BY <1>1, <1>2, <3>1, QuietSocket
  <2>2. ASSUME NEW n \in 1 .. Len(conns)
        PROVE  Stays(conns[n].client)
    <3>1. PICK c \in Client : c = conns[n].client
      BY <1>1 DEF SocketOK
    <3>2. Stays(c)
      BY <1>2, DaemonStep
    <3>. QED  BY <3>1, <3>2
  <2>. QED  BY <2>1, <2>2, SocketFrame DEF SocketKept
<1>3. CASE HandleRequest /\ ClientListens
  BY <1>3, SocketAtConfirm
<1>4. ASSUME NEW d \in Client, Acts(d), ~ SocketMove(d)
      PROVE  SocketOK'
  <2>1. UNCHANGED socketVars /\ app[d].pc \notin Asking
    BY <1>4, OffSocket
  <2>2. SocketKept
    BY <1>1, <2>1, KeepSocket
  <2>3. conns' = conns
    BY <2>1 DEF socketVars
  <2>4. \A n \in 1 .. Len(conns) : "client" \in conns'[n].open => conns[n].client # d
    BY <1>1, <2>1, <2>3, OpenIsAsking
  <2>. QED  BY <1>4, <2>2, <2>4, SocketOfOthers
<1>5. ASSUME NEW d \in Client, Connect(d) \/ SendRequest(d)
      PROVE  SocketOK'
  BY <1>5, SocketAtConnect, SocketAtRequest
<1>6. ASSUME NEW d \in Client, ReadResponse(d) \/ LeaveAfterShutdown(d) \/ GiveUp(d)
      PROVE  SocketOK'
  <2>1. CloseClient(d) \/ (Connected(d) = {} /\ UNCHANGED socketVars)
    BY <1>6 DEF ReadResponse, LeaveAfterShutdown, GiveUp
  <2>2. Acts(d)
    BY <1>6 DEF Acts, SocketMove
  <2>3. CASE CloseClient(d)
    <3>1. PICK n : n = Connection(d)
      OBVIOUS
    <3>2. n \in Connected(d)
      BY <2>3, <3>1 DEF CloseClient, Connection
    <3>3. n \in 1 .. Len(conns) /\ conns[n].client = d /\ "client" \in conns[n].open
      BY <3>2 DEF Connected
    <3>4. ClosesOne(n, "client") /\ UNCHANGED <<data_socket, accepted>>
      BY <2>3, <3>1, Zenon DEF CloseClient, ClosesOne
    <3>5. /\ IsSequence(conns') /\ Len(conns') = Len(conns)
          /\ conns'[n].open = conns[n].open \ {"client"}
          /\ \A m \in 1 .. Len(conns) : ConnKept(m) /\ (m # n => conns'[m] = conns[m])
      BY <1>1, <3>3, <3>4, CloseOneOK
    <3>6. SocketKept
      BY <1>1, <3>4, <3>5 DEF SocketKept, SocketOK
    <3>7. ASSUME NEW m \in 1 .. Len(conns), "client" \in conns'[m].open
          PROVE  conns[m].client # d
      <4>1. m # n
        BY <3>5, <3>7
      <4>2. "client" \in conns[m].open
        BY <3>5, <3>7, <4>1
      <4>. QED  BY <1>1, <3>3, <4>1, <4>2 DEF SocketOK
    <3>. QED  BY <2>2, <3>6, <3>7, SocketOfOthers
  <2>4. CASE Connected(d) = {} /\ UNCHANGED socketVars
    <3>1. SocketKept
      BY <1>1, <2>4, KeepSocket
    <3>2. conns' = conns
      BY <2>4 DEF socketVars
    <3>3. \A m \in 1 .. Len(conns) : "client" \in conns'[m].open => conns[m].client # d
      BY <2>4, <3>2 DEF Connected
    <3>. QED  BY <2>2, <3>1, <3>3, SocketOfOthers
  <2>. QED  BY <2>1, <2>3, <2>4
<1>7. ASSUME NEW d \in Client, Acts(d)
      PROVE  SocketOK'
  BY <1>4, <1>5, <1>6, <1>7 DEF SocketMove
<1>. QED  BY <1>2, <1>3, <1>7, StepCases DEF Acts


(***************************************************************************)
(* What the applications know.                                             *)
(***************************************************************************)
LEMMA WhoseApps ==
    ASSUME ClientAssumption, IInv, [Next]_vars
    PROVE  DOMAIN app' = Client
<1>1. ThreadsOK /\ SegmentsOK /\ AppsOK /\ SocketOK
  BY DEF IInv
<1>2. ASSUME UNCHANGED app \/ \E s, svc, from, to : Woken(s, svc, from, to)
      PROVE  DOMAIN app' = Client
  BY <1>1, <1>2 DEF AppsOK, Woken
<1>3. CASE Quiet \/ RtdbThrows \/ HandleRequest
  BY <1>1, <1>2, <1>3, QuietKeeps, RtdbThrowsOK, HandledOK
<1>4. CASE RtdbRequest \/ RtdbDrained
  <2>1. UNCHANGED app \/ \E s, svc, from, to : Woken(s, svc, from, to)
    BY <1>1, <1>4, RtdbRequestOK, RtdbDrainedOK, Zenon
  <2>. QED  BY <1>2, <2>1
<1>5. ASSUME NEW c \in Client, Acts(c)
      PROVE  DOMAIN app' = Client
  BY <1>5, ActsAlone DEF OnlyOne
<1>. QED  BY <1>3, <1>4, <1>5, StepCases DEF Acts

\* An application begins to attach when its registration has been confirmed.
LEMMA AttachesNext ==
    ASSUME ClientAssumption, IInv, NEW c \in Client, Acts(c), app'[c].pc = "attaching"
    PROVE  app[c].pc = "asking" /\ Registers(c) /\ MayAttach(c)
<1>1. /\ ThreadsOK /\ SegmentsOK /\ IdsOK /\ CallsOK /\ UseOK /\ AppsOK /\ SocketOK
  BY DEF IInv
<1>2. ~ Attach(c)
  BY <1>1, AttachOK
<1>3. ~ RtdbCall(c) /\ ~ PushRequest(c) /\ ~ WaitToPush(c) /\ ~ WaitToPop(c)
  BY <1>1, RtdbCallOK, PushRequestOK, WaitOK
<1>4. ~ PopConfirm(c) /\ ~ Timeout(c) /\ ~ DieInQueue(c)
  BY <1>1, PopConfirmOK, TimeoutOK, DieInQueueOK
<1>5. ~ ReadValue(c) /\ ~ ReadEntry(c) /\ ~ DieReading(c)
  BY <1>1, ReadValueOK, ReadEntryOK, DieReadingOK
<1>6. SocketMove(c)
  BY <1>2, <1>3, <1>4, <1>5 DEF Acts
<1>7. ASSUME NEW where, AppGoto(c, where)
      PROVE  where = "attaching"
  BY <1>1, <1>7 DEF AppGoto, Update, AppsOK, AppFields
<1>8. ~ Connect(c)
  <2>1. ASSUME Update(c, [NewApp(app[c].lives + 1) EXCEPT !.pc = "opening"])
        PROVE  FALSE
    BY <1>1, <2>1 DEF Update, AppsOK, NewApp
  <2>2. ~ AppGoto(c, "closing")
    BY <1>7
  <2>. QED  BY <2>1, <2>2 DEF Connect
<1>9. ~ SendRequest(c) /\ ~ LeaveAfterShutdown(c) /\ ~ GiveUp(c)
  BY <1>7 DEF SendRequest, LeaveAfterShutdown, GiveUp
<1>10. ReadResponse(c)
  BY <1>6, <1>8, <1>9 DEF SocketMove
<1>11. app[c].pc = "asking" /\ Registers(c) /\ Confirmed(c) /\ Connected(c) # {}
  BY <1>7, <1>10 DEF ReadResponse, ResponseRead
<1>12. PICK n : n = Connection(c)
  OBVIOUS
<1>13. n \in Connected(c)
  BY <1>11, <1>12 DEF Connection
<1>14. ConnectionOK(n, c)
  BY <1>1, <1>13 DEF SocketOK, Connected
<1>15. conns[n].response # NoResponse /\ conns[n].response.status = "OK"
  BY <1>11, <1>12 DEF Confirmed, Response
<1>. QED  BY <1>11, <1>14, <1>15 DEF ConnectionOK

LEMMA AppsStep ==
    ASSUME ClientAssumption, IInv, [Next]_vars
    PROVE  AppsOK'
<1>1. /\ ThreadsOK /\ SegmentsOK /\ IdsOK /\ CallsOK /\ UseOK /\ AppsOK /\ scenario' = scenario
  BY ScenarioKept DEF IInv
<1>2. DOMAIN app' = Client
  BY WhoseApps
<1>3. ASSUME NEW c \in Client
      PROVE  DOMAIN app'[c] = AppFields
  <2>1. CASE Acts(c)
    BY <2>1, ActsAlone DEF OnlyOne
  <2>2. CASE Stays(c)
    BY <2>2 DEF Stays
  <2>. QED  BY <2>1, <2>2, ActorStep
<1>4. ASSUME NEW c \in Client, app'[c].pc = "attaching"
      PROVE  Registers(c)' /\ MayAttach(c)'
  <2>1. Registers(c) /\ MayAttach(c) /\ ~ Using(c)
    <3>1. CASE Acts(c)
      BY <1>4, <3>1, AttachesNext DEF Using, Pushing, Popping
    <3>2. CASE Stays(c)
      <4>1. app[c].pc = "attaching"
        BY <1>4, <3>2 DEF Stays
      <4>. QED  BY <1>1, <4>1 DEF AppsOK, Using, Pushing, Popping
    <3>. QED  BY <3>1, <3>2, ActorStep
  <2>2. Registers(c)'
    BY <1>1, <2>1 DEF Registers
  <2>. QED  BY <2>1, <2>2, MayAttachStep
<1>5. ASSUME NEW c \in Client, app'[c].pc \in {"opening", "asking", "attaching"}
      PROVE  app'[c].call = NoCall /\ app'[c].answer = NoAnswer
  <2>1. CASE Acts(c)
    <3>1. CASE SocketMove(c)
      BY <1>1, <1>5, <3>1, SocketMoveOK
    <3>2. ~ Attach(c) /\ ~ RtdbCall(c) /\ ~ PushRequest(c) /\ ~ WaitToPush(c) /\ ~ WaitToPop(c)
      BY <1>1, <1>5, AttachOK, RtdbCallOK, PushRequestOK, WaitOK
    <3>3. ~ PopConfirm(c) /\ ~ Timeout(c) /\ ~ DieInQueue(c)
      BY <1>1, <1>5, PopConfirmOK, TimeoutOK, DieInQueueOK
    <3>4. ~ ReadValue(c) /\ ~ ReadEntry(c) /\ ~ DieReading(c)
      BY <1>1, <1>5, ReadValueOK, ReadEntryOK, DieReadingOK
    <3>. QED  BY <2>1, <3>1, <3>2, <3>3, <3>4 DEF Acts
  <2>2. CASE Stays(c)
    BY <1>1, <1>5, <2>2 DEF Stays, Same, AppsOK
  <2>. QED  BY <2>1, <2>2, ActorStep
<1>. QED  BY <1>1, <1>2, <1>3, <1>4, <1>5 DEF AppsOK

\* What an application has been told, of its call and of what it has read.
StatusTold(c) ==
    /\ app[c].answer.id = TheCall(c).id
    /\ app[c].answer.status \notin {"exception", "INTERNAL_ERROR"}
    /\ TheCall(c).id \in 1 .. MaxRequests /\ carried[TheCall(c).id] = 1
ValueTold(c) ==
    \/ app[c].answer.value.data = <<TheCall(c).varId, app[c].answer.tStamp>>
    \/ Broken(app[c].answer.tStamp)

LEMMA ToldStays ==
    ASSUME ClientAssumption, IInv, [Next]_vars, NEW c \in Client, Stays(c)
    PROVE  (HasStatus(c)' => StatusTold(c)') /\ (HasValue(c)' => ValueTold(c)')
<1>1. ThreadsOK /\ UseOK /\ ToldOK
  BY DEF IInv
<1>2. app'[c].call = app[c].call /\ app'[c].answer = app[c].answer /\ app'[c].segment = app[c].segment
  BY DEF Stays, Same
<1>3. TheCall(c)' = TheCall(c)
  BY <1>2 DEF TheCall
<1>4. ASSUME app'[c].pc = "on"
      PROVE  app[c].pc = "on"
  BY <1>4 DEF Stays
<1>5. ASSUME HasStatus(c)'
      PROVE  StatusTold(c)'
  <2>1. PICK s : s = app[c].segment
    OBVIOUS
  <2>2. app[c].pc = "on" /\ app[c].answer # NoAnswer /\ TheCall(c).op \in Services
        /\ ~ segments'[s].disturbed
    BY <1>2, <1>3, <1>4, <1>5, <2>1 DEF HasStatus
  <2>3. s \in 1 .. Len(segments)
    BY <1>1, <2>1, <2>2 DEF UseOK, Using
  <2>4. ~ segments[s].disturbed
    BY <2>2, <2>3, SegmentsStep
  <2>5. HasStatus(c)
    BY <2>1, <2>2, <2>4 DEF HasStatus
  <2>6. PICK i \in 1 .. MaxRequests : /\ i = TheCall(c).id /\ carried[i] = 1
                                      /\ app[c].answer.id = i
                                      /\ app[c].answer.status \notin {"exception", "INTERNAL_ERROR"}
    BY <1>1, <2>5 DEF ToldOK
  <2>7. carried'[i] = 1
    BY <2>6, CarriedStays
  <2>. QED  BY <1>2, <1>3, <2>6, <2>7 DEF StatusTold
<1>6. ASSUME HasValue(c)'
      PROVE  ValueTold(c)'
  <2>1. HasValue(c)
    BY <1>2, <1>3, <1>4, <1>6 DEF HasValue
  <2>2. ValueTold(c)
    BY <1>1, <2>1 DEF ToldOK, ValueTold
  <2>3. CASE app[c].answer.value.data = <<TheCall(c).varId, app[c].answer.tStamp>>
    BY <1>2, <1>3, <2>3 DEF ValueTold
  <2>4. CASE Broken(app[c].answer.tStamp)
    BY <1>1, <1>2, <2>4, BrokenKept DEF ValueTold, Broken, CutShort
  <2>. QED  BY <2>2, <2>3, <2>4 DEF ValueTold
<1>. QED  BY <1>5, <1>6

LEMMA ToldAtPop ==
    ASSUME ClientAssumption, IInv, [Next]_vars, NEW c \in Client, PopConfirm(c)
    PROVE  (HasStatus(c)' => StatusTold(c)') /\ ~ HasValue(c)'
<1>1. SegmentsOK /\ IdsOK /\ CallsOK /\ UseOK /\ AppsOK
  BY DEF IInv
<1>2. PICK s, q : s = app[c].segment /\ q = ConfirmsOf(c).items
  OBVIOUS
<1>3. /\ (app[c].pc = "pop" /\ ConfirmsOf(c).has_data) \/ app[c].pc = "pop_woken"
      /\ app'[c].segment = s /\ app'[c].call = app[c].call
      /\ \/ q = <<>>
         \/ Tail(q) = <<>> => app'[c].answer = Head(q)
  BY <1>1, <1>2, PopConfirmOK
<1>4. app[c].pc \in Popping
  BY <1>3 DEF Popping
<1>5. TheCall(c) \in Question /\ TheCall(c).op \in Services /\ ConfirmsOf(c) \in QueueOf(Reply)
  BY <1>1, <1>4, ItsQueues
<1>6. TheCall(c)' = TheCall(c) /\ TheCall(c).op # "Read" /\ TheCall(c).id \in 1 .. MaxRequests
  BY <1>3, <1>5 DEF TheCall, Services, Service, Question
<1>7. ASSUME HasStatus(c)'
      PROVE  StatusTold(c)'
  <2>1. s \in 1 .. Len(segments)
    BY <1>1, <1>2, <1>4 DEF UseOK, Using
  <2>2. ~ segments'[s].disturbed
    BY <1>3, <1>7 DEF HasStatus
  <2>3. ~ segments[s].disturbed
    BY <2>1, <2>2, SegmentsStep
  <2>4. Answered(s, TheCall(c))
    BY <1>1, <1>2, <1>3, <1>4, <2>3, AnsweredAtPop
  <2>5. q \in Seq(Reply) /\ Len(q) = 1 /\ Head(q).id = TheCall(c).id /\ carried[TheCall(c).id] = 1
    BY <1>2, <1>5, <2>4 DEF Answered, ConfirmsOf, QueueOf
  <2>6. q # <<>>
    <3>1. Len(q) = 1 /\ Len(<<>>) = 0
      BY <2>5, EmptySeq
    <3>. QED  BY <3>1
  <2>7. PICK n \in Nat : /\ Len(q) = n + 1 /\ Len(Tail(q)) = n
                         /\ Head(q) \in Reply /\ Tail(q) \in Seq(Reply)
    BY <2>5, <2>6, TailOf
  <2>8. Tail(q) = <<>>
    BY <2>5, <2>7, EmptySeq
  <2>9. app'[c].answer = Head(q)
    BY <1>3, <2>6, <2>8
  <2>10. Head(q).status \notin {"exception", "INTERNAL_ERROR"}
    BY <2>7 DEF Reply, StatusCode
  <2>11. carried'[TheCall(c).id] = 1
    BY <1>6, <2>5, CarriedStays
  <2>. QED  BY <1>6, <2>5, <2>9, <2>10, <2>11 DEF StatusTold
<1>. QED  BY <1>6, <1>7 DEF HasValue

LEMMA ToldAtRead ==
    ASSUME ClientAssumption, IInv, [Next]_vars, NEW c \in Client, ReadEntry(c)
    PROVE  ~ HasStatus(c)' /\ (HasValue(c)' => ValueTold(c)')
<1>1. ThreadsOK /\ AppsOK /\ ReadersOK
  BY DEF IInv
<1>2. PICK v, t : v = TheCall(c).varId /\ t = TStamp(v)
  OBVIOUS
<1>3. /\ app[c].pc = "reading" /\ app'[c].call = app[c].call
      /\ app'[c].answer.value = app[c].value /\ app'[c].answer.status = ReadStatus(v)
      /\ app'[c].answer.tStamp = t
  BY <1>1, <1>2, ReadEntryOK
<1>4. /\ v \in VarId /\ TheCall(c).op = "Read"
      /\ v \in InUse(variable_store) => app[c].value.data = <<v, t>> \/ Broken(t)
  BY <1>1, <1>2, <1>3 DEF ReadersOK
<1>5. TheCall(c)' = TheCall(c) /\ TheCall(c).op \notin Services
  BY <1>3, <1>4 DEF TheCall, Services, Service
<1>6. ASSUME HasValue(c)'
      PROVE  ValueTold(c)'
  <2>1. ReadStatus(v) = "OK"
    BY <1>3, <1>6 DEF HasValue
  <2>2. v \in InUse(variable_store)
    BY <1>4, <2>1 DEF ReadStatus, InUse, identifier_is_allocated
  <2>3. CASE app[c].value.data = <<v, t>>
    BY <1>2, <1>3, <1>5, <2>3 DEF ValueTold
  <2>4. CASE Broken(t)
    BY <1>1, <1>3, <2>4, BrokenKept DEF ValueTold, Broken, CutShort
  <2>. QED  BY <1>4, <2>2, <2>3, <2>4
<1>. QED  BY <1>5, <1>6 DEF HasStatus

LEMMA ToldStep ==
    ASSUME ClientAssumption, IInv, [Next]_vars
    PROVE  ToldOK'
<1>1. /\ ThreadsOK /\ SegmentsOK /\ IdsOK /\ CallsOK /\ UseOK /\ AppsOK
  BY DEF IInv
<1>2. ASSUME NEW c \in Client
      PROVE  (HasStatus(c)' => StatusTold(c)') /\ (HasValue(c)' => ValueTold(c)')
  <2>1. ASSUME app'[c].pc # "on"
        PROVE  ~ HasStatus(c)' /\ ~ HasValue(c)'
    BY <2>1 DEF HasStatus, HasValue
  <2>2. CASE SocketMove(c)
    BY <1>1, <2>1, <2>2, SocketMoveOK DEF Asking
  <2>3. CASE RtdbCall(c) \/ PushRequest(c) \/ WaitToPush(c) \/ WaitToPop(c)
    BY <1>1, <2>1, <2>3, RtdbCallOK, PushRequestOK, WaitOK
  <2>4. CASE DieInQueue(c) \/ ReadValue(c) \/ DieReading(c)
    BY <1>1, <2>1, <2>4, DieInQueueOK, ReadValueOK, DieReadingOK
  <2>5. CASE Attach(c)
    <3>1. app'[c].answer = NoAnswer
      BY <1>1, <2>5, AttachOK
    <3>. QED  BY <3>1 DEF HasStatus, HasValue, NoAnswer
  <2>6. CASE Timeout(c)
    <3>1. /\ app[c].pc \in Pushing \cup Popping /\ app'[c].segment = app[c].segment
          /\ app'[c].call = app[c].call /\ segments'[app[c].segment].disturbed
      BY <1>1, <2>6, TimeoutOK DEF Popping, Pushing, DisturbedSet
    <3>2. TheCall(c).op \in Services
      BY <1>1, <3>1, ItsQueues
    <3>3. TheCall(c).op # "Read"
      BY <3>2 DEF Services, Service
    <3>. QED  BY <3>1, <3>3 DEF HasStatus, HasValue, TheCall
  <2>7. CASE PopConfirm(c) \/ ReadEntry(c)
    BY <2>7, ToldAtPop, ToldAtRead
  <2>8. CASE Stays(c)
    BY <2>8, ToldStays
  <2>. QED  BY <2>2, <2>3, <2>4, <2>5, <2>6, <2>7, <2>8, ActorStep DEF Acts
<1>. QED  BY <1>2 DEF ToldOK, StatusTold, ValueTold

(***************************************************************************)
(* The theorems.                                                           *)
(***************************************************************************)
LEMMA InitOK ==
    ASSUME ClientAssumption, Init
    PROVE  IInv
<1>1. segments = <<>> /\ segments \in Seq(Segment) /\ Len(segments) = 0
  <2>1. segments = <<>>
    BY DEF Init
  <2>2. <<>> \in Seq(Segment) /\ Len(<<>>) = 0
    BY EmptySeq
  <2>. QED  BY <2>1, <2>2
<1>2. SegmentsOK /\ ~ \E s : s \in 1 .. Len(segments)
  BY <1>1 DEF SegmentsOK
<1>11. ThreadsOK
  <2>1. /\ DOMAIN pc = {"rtdb", "command"} /\ pc["rtdb"] = "loop" /\ vardis_exitFlag = FALSE
        /\ service = 1
    BY DEF Init
  <2>2. clientApplications \in [Name -> 0 .. 0] /\ shm \in [Name -> 0 .. 0]
    BY DEF Init, NoSegment
  <2>3. pc["rtdb"] \in Working /\ pc["rtdb"] \notin {"client", "queue", "drain"}
    BY <2>1 DEF Working
  <2>4. 0 .. Len(segments) = 0 .. 0
    BY <1>1
  <2>5. pc["rtdb"] # "drain" /\ pc["rtdb"] \notin {"queue", "drain"} /\ service \in 1 .. 3
    BY <2>1
  <2>. QED  BY <2>1, <2>2, <2>3, <2>4, <2>5, Zenon DEF ThreadsOK
<1>3. \A c \in Client : app[c].pc = "off" /\ DOMAIN app[c] = AppFields
  <2>1. PICK x : x = NewApp(0)
    OBVIOUS
  <2>2. app = [c \in Client |-> x]
    BY <2>1, Zenon DEF Init
  <2>3. x.pc = "off" /\ DOMAIN x = AppFields
    BY <2>1 DEF NewApp, AppFields
  <2>4. \A c \in Client : app[c] = x
    BY <2>2, Zenon
  <2>. QED  BY <2>3, <2>4, Zenon
<1>4. IdsOK
  BY <1>2, Constants DEF Init, IdsOK, Slot
<1>5. CallsOK /\ UseOK /\ ReadersOK /\ ToldOK
  BY <1>3 DEF CallsOK, UseOK, Using, ReadersOK, ToldOK, HasStatus, HasValue, Pushing, Popping
<1>6. AppsOK
  BY <1>3 DEF AppsOK, Init
<1>7. SocketOK
  <2>1. conns = <<>> /\ data_socket = 0 /\ accepted = 0
    BY DEF Init, SocketInit, NoSocket
  <2>2. IsSequence(conns) /\ Len(conns) = 0
    BY <2>1, EmptySeq DEF IsSequence
  <2>. QED  BY <2>1, <2>2 DEF SocketOK
<1>8. InUse(variable_store) = {}
  BY DEF Init, InUse, initialize_array_store, Unused
<1>9. ValuesOK
  BY <1>8 DEF ValuesOK
<1>10. StoreOK(variable_store)
  <2>1. PICK n, q : n \in Nat /\ n = Cardinality(VarId) /\ q = variable_store.freeList
    BY Constants
  <2>2. Buffer = 1 .. n
    BY <2>1 DEF ClientAssumption, Buffer
  <2>3. q = [b \in 1 .. n |-> b]
    BY <2>1, <2>2 DEF Init, initialize_array_store
  <2>4. q \in [1 .. n -> Buffer]
    BY <2>2, <2>3
  <2>5. q \in Seq(Buffer)
    BY <2>1, <2>4, SeqDef
  <2>6. Len(q) = n
    BY <2>1, <2>3, SequenceOf
  <2>7. \A i, j \in 1 .. Len(q) : q[i] = q[j] => i = j
    BY <2>3, <2>6
  <2>8. /\ DOMAIN variable_store = StoreFields
        /\ variable_store.id_states = [v \in VarId |-> Unused]
        /\ DOMAIN variable_store.value_buffer = Buffer
        /\ DOMAIN variable_store.description_buffer = Buffer
    BY DEF Init, initialize_array_store, StoreFields
  <2>9. Unused \in IdState
    BY DEF Unused, IdState, NoEntry, DBEntry, NoBuffer
  <2>10. Cardinality(InUse(variable_store)) = 0
    BY <1>8, FS_EmptySet
  <2>. QED  BY <1>8, <2>1, <2>5, <2>6, <2>7, <2>8, <2>9, <2>10 DEF StoreOK
<1>. QED  BY <1>11, <1>2, <1>4, <1>5, <1>6, <1>7, <1>9, <1>10 DEF IInv

LEMMA StepOK ==
    ASSUME ClientAssumption, IInv, [Next]_vars
    PROVE  IInv'
<1>1. ThreadsOK' /\ SegmentsOK' /\ IdsOK' /\ CallsOK' /\ UseOK'
  BY ThreadsStep, SegmentsStep, IdsStep, CallsStep, UseStep
<1>2. AppsOK' /\ SocketOK' /\ StoreOK(variable_store)' /\ ValuesOK'
  BY AppsStep, SocketStep, StoreStep
<1>3. ReadersOK' /\ ToldOK'
  BY ReadersStep, ToldStep
<1>. QED  BY <1>1, <1>2, <1>3 DEF IInv

\* The applications, the two threads, the segments, the connections and the store fit
\* together: a request is in one queue at most, and only until it is carried out; the user
\* of a segment that nobody has disturbed finds there nothing but what belongs to its call;
\* who has been confirmed finds under its name a segment that is idle, or not its own, or
\* none; and the value of a variable is that of its entry
\* (vardisclient_lib_rtdb.cc, vardis_management_rtdb.cc, vardis_management_command.cc,
\* vardis_store_array.h).
THEOREM ClientInvariance == Spec => []IInv
<1>1. ClientAssumption
  BY ClientAssumption
<1>2. Init => IInv
  BY <1>1, InitOK
<1>3. IInv /\ [Next]_vars => IInv'
  BY <1>1, StepOK
<1>. QED  BY <1>2, <1>3, PTL DEF Spec

\* What an application is told is about what it has asked, for any number of applications
\* and whatever they do: each call at a segment that nobody has disturbed gets the confirm of
\* the very request, carried out once; no request is carried out twice; a read gives a value
\* with the time at which it was written; and there is always a buffer for one variable more
\* (vardisclient_lib_rtdb.cc, vardis_management_rtdb.cc, vardis_store_array.h).
THEOREM AnswersAreRight == Spec => []AnswersFit
<1>1. ClientAssumption
  BY ClientAssumption
<1>2. ASSUME IInv
      PROVE  AnswersFit
  <2>1. IdsOK /\ ToldOK /\ StoreOK(variable_store) /\ MaxRequests \in Nat
    BY <1>1, <1>2, Constants DEF IInv
  <2>2. ASSUME NEW v \in VarId \ InUse(variable_store)
        PROVE  ~ AllocateThrows(variable_store, v)
    <3>1. variable_store.freeList # <<>>
      BY <1>1, <2>1, SomeFree
    <3>. QED  BY <3>1 DEF AllocateThrows, InUse
  <2>3. \A i \in 1 .. MaxRequests : carried[i] <= 1
    <3>1. \A i \in 1 .. MaxRequests : carried[i] \in {0, 1}
      BY <2>1 DEF IdsOK
    <3>. QED  BY <3>1
  <2>. QED  BY <2>1, <2>2, <2>3 DEF AnswersFit, ToldOK, Broken
<1>. QED  BY <1>2, ClientInvariance, PTL

=============================================================================

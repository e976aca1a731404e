------------------------- MODULE VardisNetwork_proofs -------------------------
(***************************************************************************)
(* What holds in every network of Vardis entities: no payload is dropped   *)
(* between Vardis and BP, whatever a node has of a variable is what the    *)
(* producer has written, and no node steps back.  The lemmas about the     *)
(* single node are those of VardisProtocolData_proofs; here they are       *)
(* carried through payloads, beacons and crashes.  The end of the module   *)
(* is about the comparison of sequence numbers, and about SeqnoWindow.     *)
(***************************************************************************)
EXTENDS VardisNetwork, SeqnoWindow, VardisProtocolData_proofs

(***************************************************************************)
(* The invariants.                                                         *)
(***************************************************************************)
\* Types, and the consistency of every node's protocol data.
NetTypes ==
    /\ pd \in [NodeId -> ProtocolData]
    /\ \A n \in NodeId : WellTyped(pd[n]) /\ Consistent(pd[n])
    /\ payloadSent \in [NodeId -> BOOLEAN] /\ sendPayload \in [NodeId -> BOOLEAN]
    /\ queue \in [NodeId -> Seq(Seq(Written))]
    /\ \A n \in NodeId : \A i \in 1 .. Len(queue[n]) :
          PayloadBytes(queue[n][i]) \in 1 .. MaxPayloadSize
    /\ generating \in [VarId -> BOOLEAN] /\ born \in [VarId -> 0 .. MaxTime \cup {Never}]
    /\ losses \in Nat /\ crashes \subseteq NodeId
    /\ scenario \in Scenarios /\ now \in 0 .. scenario.time

\* Vardis and BP agree on the payload that BP has.
Handshake ==
    \A n \in NodeId : /\ Len(queue[n]) <= 1
                      /\ payloadSent[n] <=> queue[n] # <<>>
                      /\ sendPayload[n] => ~ payloadSent[n]

NetInv == NetTypes /\ Handshake

\* Each variable is created once: there is no later instant to do it again, or no producer
\* ever has a reason to.
SingleLife(s) ==
    \/ s.time = 0
    \/ ~ s.deletes /\ \A v \in s.vars : s.producer[v] \notin s.crashing

\* The number of the newest value in the protocol data s, or all there can be when the
\* producer has forgotten it.
NewestIn(s, v, all) == IF v \in s.used THEN s.db[v].value.n ELSE all

\* What the producers have done: a record h of these fields.
History ==
    [producer |-> scenario.producer, updates |-> scenario.updates,
     single |-> SingleLife(scenario), born |-> born,
     newest |-> [v \in VarId |-> NewestIn(pd[scenario.producer[v]], v, scenario.updates)]]

\* The value x with the sequence number q is one that the producer of v has written.
Truthful(h, v, x, q) ==
    /\ x.n <= h.updates /\ q = x.n % SeqnoModulus /\ x.born <= h.born[v]
    /\ h.single => x.born = h.born[v] /\ x.n <= h.newest[v]

\* So is the variable in c, an entry or a create record.
Genuine(h, v, c) ==
    /\ c.prodId = h.producer[v] /\ c.creationTime <= h.born[v]
    /\ Truthful(h, v, c.value, c.seqno)
    /\ h.single => c.creationTime = h.born[v]

GenuineRecord(h, k, r) ==
    /\ k = "create" => Genuine(h, r.varId, r)
    /\ k = "update" => Truthful(h, r.varId, r.value, r.seqno)

GenuinePayload(h, p) ==
    \A i \in 1 .. Len(p) : \A j \in 1 .. Len(p[i].recs) :
        GenuineRecord(h, p[i].type, p[i].recs[j])

GenuineData(h, s) == \A v \in s.used : Genuine(h, v, s.db[v])

\* A variable that has been created is not created again in its only life.
Lives ==
    \A v \in VarId :
        /\ born[v] <= now
        /\ born[v] # Never =>
             v \in Var /\ (SingleLife(scenario) => scenario.time = 0 \/ generating[v])

TruthInv ==
    /\ \A n \in NodeId : GenuineData(History, pd[n])
    /\ \A n \in NodeId : \A i \in 1 .. Len(queue[n]) : GenuinePayload(History, queue[n][i])
    /\ Lives

(***************************************************************************)
(* Recursive functions: that they exist, and what is true of each value.   *)
(***************************************************************************)
\* A container that is filled record by record.
LEMMA FilledIs ==
    ASSUME NEW s, NEW k, NEW n \in Nat
    PROVE  \E f : /\ Filled(s, k, n) = f[n]
                  /\ f[0] = [data |-> s, recs |-> <<>>]
                  /\ \A i \in 1 .. n : f[i] = AddRecord(k, f[i - 1])
<1> DEFINE a == [data |-> s, recs |-> <<>>]
           Prefix(f, m) == f = [i \in 0 .. m |-> IF i = 0 THEN a ELSE AddRecord(k, f[i - 1])]
           T == {m \in 0 .. n : \E f : Prefix(f, m)}
<1>1. 0 \in T
  <2>1. PICK f : f = [i \in 0 .. 0 |-> a]
    OBVIOUS
  <2>2. \A i \in 0 .. 0 : i = 0
    OBVIOUS
  <2>3. Prefix(f, 0)
    BY <2>1, <2>2, Zenon
  <2>. QED  BY <2>3
<1>2. ASSUME NEW m \in 0 .. n, m < n, m \in T
      PROVE  m + 1 \in T
  <2>1. PICK f : Prefix(f, m)
    BY <1>2
  <2>2. PICK x : x = AddRecord(k, f[m])
    OBVIOUS
  <2>3. PICK g : g = [i \in 0 .. m + 1 |-> IF i = m + 1 THEN x ELSE f[i]]
    OBVIOUS
  <2>4. ASSUME NEW i \in 0 .. m + 1
        PROVE  g[i] = IF i = 0 THEN a ELSE AddRecord(k, g[i - 1])
    <3>1. CASE i = m + 1
      <4>1. g[i] = x /\ i # 0 /\ i - 1 = m /\ i - 1 # m + 1 /\ i - 1 \in 0 .. m + 1
        BY <2>3, <3>1
      <4>2. g[i - 1] = f[m]
        BY <2>3, <4>1
      <4>. QED  BY <2>2, <4>1, <4>2
    <3>2. CASE i # m + 1
      <4>1. i \in 0 .. m /\ (i # 0 => i - 1 \in 0 .. m + 1 /\ i - 1 # m + 1)
        BY <3>2
      <4>2. g[i] = f[i] /\ (i # 0 => g[i - 1] = f[i - 1])
        BY <2>3, <3>2, <4>1
      <4>3. f[i] = IF i = 0 THEN a ELSE AddRecord(k, f[i - 1])
        BY <2>1, <4>1
      <4>. QED  BY <4>2, <4>3
    <3>. QED  BY <3>1, <3>2
  <2>5. Prefix(g, m + 1)
    BY <2>3, <2>4, Zenon
  <2>. QED  BY <1>2, <2>5
<1> HIDE DEF T
<1>3. \A m \in 0 .. n : m \in T
  BY <1>1, <1>2, OneByOne
<1>4. \E f : Prefix(f, n)
  BY <1>3 DEF T
<1>5. PICK f : f = CHOOSE g : Prefix(g, n)
  OBVIOUS
<1>6. Filled(s, k, n) = f[n]
  BY <1>5, Zenon DEF Filled
<1>7. Prefix(f, n)
  BY <1>4, <1>5, Zenon
<1>8. f[0] = a /\ \A i \in 1 .. n : f[i] = AddRecord(k, f[i - 1])
  <2>1. \A i \in 0 .. n : f[i] = IF i = 0 THEN a ELSE AddRecord(k, f[i - 1])
    BY <1>7, Zenon
  <2>2. 0 \in 0 .. n /\ \A i \in 1 .. n : i \in 0 .. n /\ i # 0
    OBVIOUS
  <2>. QED  BY <2>1, <2>2, Zenon
<1>. QED  BY <1>6, <1>8

\* A payload that is made container by container.
LEMMA ConstructedIs ==
    ASSUME NEW s
    PROVE  \E f : /\ constructPayload(s) = f[6]
                  /\ f[0] = [data |-> s, containers |-> <<>>]
                  /\ \A i \in 1 .. 6 : f[i] = AddContainer(f[i - 1], TxOrder[i])
<1>0. PICK n : n = Len(TxOrder) /\ n = 6 /\ n \in Nat
  BY SixContainers
<1> DEFINE a == [data |-> s, containers |-> <<>>]
           Prefix(f, m) == f = [i \in 0 .. m |-> IF i = 0 THEN a ELSE AddContainer(f[i - 1], TxOrder[i])]
           T == {m \in 0 .. n : \E f : Prefix(f, m)}
<1>1. 0 \in T
  <2>1. PICK f : f = [i \in 0 .. 0 |-> a]
    OBVIOUS
  <2>2. \A i \in 0 .. 0 : i = 0
    OBVIOUS
  <2>3. Prefix(f, 0)
    BY <2>1, <2>2, Zenon
  <2>. QED  BY <1>0, <2>3
<1>2. ASSUME NEW m \in 0 .. n, m < n, m \in T
      PROVE  m + 1 \in T
  <2>0. m \in 0 .. n /\ m < n
    BY <1>2
  <2>1. PICK f : Prefix(f, m)
    BY <1>2
  <2>2. PICK x : x = AddContainer(f[m], TxOrder[m + 1])
    OBVIOUS
  <2>3. PICK g : g = [i \in 0 .. m + 1 |-> IF i = m + 1 THEN x ELSE f[i]]
    OBVIOUS
  <2>4. ASSUME NEW i \in 0 .. m + 1
        PROVE  g[i] = IF i = 0 THEN a ELSE AddContainer(g[i - 1], TxOrder[i])
    <3>1. CASE i = m + 1
      <4>1. g[i] = x /\ i # 0 /\ i - 1 = m /\ i - 1 # m + 1 /\ i - 1 \in 0 .. m + 1
        BY <2>3, <3>1
      <4>2. g[i - 1] = f[m]
        BY <2>3, <4>1
      <4>. QED  BY <2>2, <4>1, <4>2
    <3>2. CASE i # m + 1
      <4>1. i \in 0 .. m /\ (i # 0 => i - 1 \in 0 .. m + 1 /\ i - 1 # m + 1)
        BY <3>2
      <4>2. g[i] = f[i] /\ (i # 0 => g[i - 1] = f[i - 1])
        BY <2>3, <3>2, <4>1
      <4>3. f[i] = IF i = 0 THEN a ELSE AddContainer(f[i - 1], TxOrder[i])
        BY <2>1, <4>1
      <4>. QED  BY <4>2, <4>3
    <3>. QED  BY <3>1, <3>2
  <2>5. Prefix(g, m + 1)
    BY <2>3, <2>4, Zenon
  <2>. QED  BY <1>0, <1>2, <2>5
<1> HIDE DEF T
<1>3. \A m \in 0 .. n : m \in T
  BY <1>0, <1>1, <1>2, OneByOne
<1>4. \E f : Prefix(f, n)
  BY <1>0, <1>3 DEF T
<1>5. PICK f : f = CHOOSE g : Prefix(g, n)
  OBVIOUS
<1>6. constructPayload(s) = f[n]
  BY <1>0, <1>5, Zenon DEF constructPayload
<1>7. Prefix(f, n)
  BY <1>4, <1>5, Zenon
<1>8. f[0] = a /\ \A i \in 1 .. n : f[i] = AddContainer(f[i - 1], TxOrder[i])
  <2>1. \A i \in 0 .. n : f[i] = IF i = 0 THEN a ELSE AddContainer(f[i - 1], TxOrder[i])
    BY <1>7, Zenon
  <2>2. 0 \in 0 .. n /\ \A i \in 1 .. n : i \in 0 .. n /\ i # 0
    BY <1>0
  <2>. QED  BY <2>1, <2>2, Zenon
<1>. QED  BY <1>0, <1>6, <1>8

\* The values f that one gets from a by the functions F[1], F[2], ... one after the other.
Steps(f, F, a, n) == f = [i \in 0 .. n |-> IF i = 0 THEN a ELSE F[i][f[i - 1]]]

\* What is computed step by step, each step taking T into T, exists and is in T.
LEMMA Iterated ==
    ASSUME NEW n \in Nat, NEW T, NEW a \in T, NEW F, \A i \in 1 .. n : F[i] \in [T -> T]
    PROVE  \E f : Steps(f, F, a, n) /\ \A i \in 0 .. n : f[i] \in T
<1> DEFINE Prefix(f, m) == /\ f = [i \in 0 .. m |-> IF i = 0 THEN a ELSE F[i][f[i - 1]]]
                           /\ \A i \in 0 .. m : f[i] \in T
           U == {m \in 0 .. n : \E f : Prefix(f, m)}
<1>1. 0 \in U
  <2>1. PICK f : f = [i \in 0 .. 0 |-> a]
    OBVIOUS
  <2>2. \A i \in 0 .. 0 : i = 0
    OBVIOUS
  <2>3. f = [i \in 0 .. 0 |-> IF i = 0 THEN a ELSE F[i][f[i - 1]]]
    BY <2>1, <2>2, Zenon
  <2>4. \A i \in 0 .. 0 : f[i] \in T
    BY <2>1
  <2>. QED  BY <2>3, <2>4
<1>2. ASSUME NEW m \in 0 .. n, m < n, m \in U
      PROVE  m + 1 \in U
  <2>1. PICK f : Prefix(f, m)
    BY <1>2
  <2>2. PICK x : x = F[m + 1][f[m]]
    OBVIOUS
  <2>3. x \in T
    <3>1. m + 1 \in 1 .. n /\ f[m] \in T
      BY <1>2, <2>1
    <3>2. F[m + 1] \in [T -> T]
      BY <3>1
    <3>. QED  BY <2>2, <3>1, <3>2
  <2>4. PICK g : g = [i \in 0 .. m + 1 |-> IF i = m + 1 THEN x ELSE f[i]]
    OBVIOUS
  <2>5. ASSUME NEW i \in 0 .. m + 1
        PROVE  g[i] = (IF i = 0 THEN a ELSE F[i][g[i - 1]]) /\ g[i] \in T
    <3>1. CASE i = m + 1
      <4>1. g[i] = x /\ i # 0 /\ i - 1 = m /\ i - 1 # m + 1 /\ i - 1 \in 0 .. m + 1
        BY <2>4, <3>1
      <4>2. g[i - 1] = f[m]
        BY <2>4, <4>1
      <4>. QED  BY <2>2, <2>3, <3>1, <4>1, <4>2
    <3>2. CASE i # m + 1
      <4>1. i \in 0 .. m /\ (i # 0 => i - 1 \in 0 .. m + 1 /\ i - 1 # m + 1)
        BY <3>2
      <4>2. g[i] = f[i] /\ (i # 0 => g[i - 1] = f[i - 1])
        BY <2>4, <3>2, <4>1
      <4>3. f[i] = (IF i = 0 THEN a ELSE F[i][f[i - 1]]) /\ f[i] \in T
        BY <2>1, <4>1
      <4>. QED  BY <4>2, <4>3
    <3>. QED  BY <3>1, <3>2
  <2>6. g = [i \in 0 .. m + 1 |-> IF i = 0 THEN a ELSE F[i][g[i - 1]]]
    BY <2>4, <2>5, Zenon
  <2>7. \A i \in 0 .. m + 1 : g[i] \in T
    BY <2>5
  <2>. QED  BY <1>2, <2>6, <2>7
<1> HIDE DEF U
<1>3. \A m \in 0 .. n : m \in U
  BY <1>1, <1>2, OneByOne
<1>. QED  BY <1>3 DEF U, Steps

LEMMA StaysWithin ==
    ASSUME NEW n \in Nat, NEW T, NEW f, f[0] \in T,
           \A i \in 1 .. n : f[i - 1] \in T => f[i] \in T
    PROVE  f[n] \in T
<1> DEFINE U == {i \in 0 .. n : f[i] \in T}
<1>1. 0 \in U
  OBVIOUS
<1>2. ASSUME NEW i \in 0 .. n, i < n, i \in U
      PROVE  i + 1 \in U
  <2>1. i + 1 \in 1 .. n /\ i + 1 \in 0 .. n /\ (i + 1) - 1 = i
    BY <1>2
  <2>. QED  BY <1>2, <2>1
<1> HIDE DEF U
<1>3. \A i \in 0 .. n : i \in U
  BY <1>1, <1>2, OneByOne
<1>4. n \in U
  BY <1>3
<1>. QED  BY <1>4 DEF U

(***************************************************************************)
(* Payloads that are received.                                             *)
(***************************************************************************)
\* The records that are taken out of a payload are records of it.
LEMMA ExtractedOK ==
    ASSUME NEW S, NEW p \in Seq(S)
    PROVE  /\ Extracted(p) \in Seq(S) /\ Len(Extracted(p)) <= Len(p)
           /\ \A i \in 1 .. Len(Extracted(p)) : Extracted(p)[i] = p[i]
<1> DEFINE before(i) == PayloadBytes(SubSeq(p, 1, i - 1))
           I == {i \in DOMAIN p : before(i) < PayloadBytes(p) - before(i)}
<1>1. Extracted(p) = SubSeq(p, 1, Cardinality(I))
  BY DEF Extracted
<1> HIDE DEF I
<1>2. I \subseteq 1 .. Len(p)
  BY DEF I
<1>3. IsFiniteSet(1 .. Len(p)) /\ Cardinality(1 .. Len(p)) = Len(p)
  <2>1. Len(p) \in Nat
    OBVIOUS
  <2>2. IsFiniteSet(1 .. Len(p))
        /\ Cardinality(1 .. Len(p)) = IF 1 > Len(p) THEN 0 ELSE Len(p) - 1 + 1
    BY <2>1, FS_Interval
  <2>. QED  BY <2>1, <2>2
<1>4. Cardinality(I) \in Nat /\ Cardinality(I) <= Len(p)
  BY <1>2, <1>3, FS_Subset, FS_CardinalityType
<1>. QED  BY <1>1, <1>4

LEMMA RecordsOfOK ==
    ASSUME NEW p \in Seq(Written), NEW k \in ICType, NEW R,
           \A i \in 1 .. Len(p) : p[i].type = k => p[i].recs \in Seq(R)
    PROVE  RecordsOf(p, k) \in Seq(R)
<1>1. PICK x : x = Extracted(p)
  OBVIOUS
<1>2. x \in Seq(Written) /\ Len(x) <= Len(p) /\ \A i \in 1 .. Len(x) : x[i] = p[i]
  BY <1>1, ExtractedOK
<1> DEFINE F == [i \in 1 .. Len(x) |->
                   [recs \in Seq(R) |-> IF x[i].type = k THEN recs \o x[i].recs ELSE recs]]
<1>3. \A i \in 1 .. Len(x) : F[i] \in [Seq(R) -> Seq(R)]
  <2> SUFFICES ASSUME NEW i \in 1 .. Len(x), NEW recs \in Seq(R)
               PROVE  (IF x[i].type = k THEN recs \o x[i].recs ELSE recs) \in Seq(R)
    OBVIOUS
  <2>1. x[i].type = k => x[i].recs \in Seq(R)
    BY <1>2
  <2>. QED  BY <2>1
<1>4. Len(x) \in Nat /\ <<>> \in Seq(R)
  BY <1>2
<1>5. PICK f : /\ Steps(f, F, <<>>, Len(x))
               /\ \A i \in 0 .. Len(x) : f[i] \in Seq(R)
  <2>1. PICK n : n = Len(x) /\ n \in Nat
    BY <1>4
  <2>2. PICK G : G = F
    OBVIOUS
  <2>3. PICK T : T = Seq(R)
    OBVIOUS
  <2>4. PICK a : a = <<>>
    OBVIOUS
  <2>5. a \in T /\ \A i \in 1 .. n : G[i] \in [T -> T]
    BY <1>3, <1>4, <2>1, <2>2, <2>3, <2>4
  <2>6. PICK f : Steps(f, G, a, n) /\ \A i \in 0 .. n : f[i] \in T
    BY <2>1, <2>5, Iterated
  <2>7. Steps(f, F, <<>>, Len(x)) /\ \A i \in 0 .. Len(x) : f[i] \in Seq(R)
    BY <2>1, <2>2, <2>3, <2>4, <2>6
  <2> HIDE DEF F
  <2>. QED  BY <2>7
<1> DEFINE Loop(g) ==
             g = [i \in 0 .. Len(x) |->
                    IF i = 0 THEN <<>>
                    ELSE IF x[i].type = k THEN g[i - 1] \o x[i].recs ELSE g[i - 1]]
<1>6. Loop(f)
  <2>1. ASSUME NEW i \in 0 .. Len(x)
        PROVE  (IF i = 0 THEN <<>> ELSE F[i][f[i - 1]])
               = IF i = 0 THEN <<>>
                 ELSE IF x[i].type = k THEN f[i - 1] \o x[i].recs ELSE f[i - 1]
    <3>1. CASE i = 0
      BY <3>1
    <3>2. CASE i # 0
      <4>1. i \in 1 .. Len(x) /\ i - 1 \in 0 .. Len(x)
        BY <1>4, <3>2
      <4>2. f[i - 1] \in Seq(R)
        BY <1>5, <4>1
      <4>. QED  BY <3>2, <4>1, <4>2
    <3>. QED  BY <3>1, <3>2
  <2>. QED  BY <1>5, <2>1, Zenon DEF Steps
<1>7. ASSUME NEW g, Loop(g)
      PROVE  g[Len(x)] \in Seq(R)
  <2>1. \A i \in 0 .. Len(x) : g[i] = IF i = 0 THEN <<>>
                                      ELSE IF x[i].type = k THEN g[i - 1] \o x[i].recs ELSE g[i - 1]
    BY <1>7, Zenon
  <2>2. ASSUME NEW i \in 1 .. Len(x), g[i - 1] \in Seq(R)
        PROVE  g[i] \in Seq(R)
    <3>1. g[i] = IF x[i].type = k THEN g[i - 1] \o x[i].recs ELSE g[i - 1]
      BY <1>4, <2>1
    <3>2. x[i].type = k => x[i].recs \in Seq(R)
      BY <1>2
    <3>. QED  BY <2>2, <3>1, <3>2
  <2>3. 0 \in 0 .. Len(x)
    BY <1>4
  <2>4. g[0] \in Seq(R)
    BY <1>4, <2>1, <2>3
  <2>. QED  BY <1>4, <2>2, <2>4, StaysWithin
<1>8. PICK h : h = CHOOSE g : Loop(g)
  OBVIOUS
<1>9. Loop(h)
  BY <1>6, <1>8, Zenon
<1>10. RecordsOf(p, k) = h[Len(x)]
  BY <1>1, <1>8, Zenon DEF RecordsOf
<1>. QED  BY <1>7, <1>9, <1>10

\* Records that are processed one after the other, when each of them leads from T into T.
LEMMA ListWithin ==
    ASSUME NEW T, NEW s \in T, NEW k, NEW me, NEW R, NEW recs \in Seq(R),
           \A t \in T, r \in R : ProcessRecord(t, k, r, me, now) \in T
    PROVE  processVarList(s, k, recs, me) \in T
<1> DEFINE F == [i \in 1 .. Len(recs) |-> [t \in T |-> ProcessRecord(t, k, recs[i], me, now)]]
           Loop(g) == g = [i \in 0 .. Len(recs) |->
                             IF i = 0 THEN s ELSE ProcessRecord(g[i - 1], k, recs[i], me, now)]
<1>1. PICK n : n = Len(recs) /\ n \in Nat
  OBVIOUS
<1>2. PICK f : Steps(f, F, s, n) /\ \A i \in 0 .. n : f[i] \in T
  <2>1. PICK G : G = F
    OBVIOUS
  <2>2. \A i \in 1 .. n : G[i] \in [T -> T]
    <3> SUFFICES ASSUME NEW i \in 1 .. n, NEW t \in T
                 PROVE  ProcessRecord(t, k, recs[i], me, now) \in T
      BY <1>1, <2>1
    <3>1. recs[i] \in R
      BY <1>1
    <3>. QED  BY <3>1
  <2> HIDE DEF F
  <2>3. \E f : Steps(f, G, s, n) /\ \A i \in 0 .. n : f[i] \in T
    BY <1>1, <2>2, Iterated
  <2>. QED  BY <2>1, <2>3
<1>3. Loop(f)
  <2>1. ASSUME NEW i \in 0 .. n
        PROVE  (IF i = 0 THEN s ELSE F[i][f[i - 1]])
               = IF i = 0 THEN s ELSE ProcessRecord(f[i - 1], k, recs[i], me, now)
    <3>1. CASE i = 0
      BY <3>1
    <3>2. CASE i # 0
      <4>1. i \in 1 .. n /\ i - 1 \in 0 .. n
        BY <1>1, <3>2
      <4>2. f[i - 1] \in T
        BY <1>2, <4>1
      <4>. QED  BY <1>1, <3>2, <4>1, <4>2
    <3>. QED  BY <3>1, <3>2
  <2>. QED  BY <1>1, <1>2, <2>1, Zenon DEF Steps
<1>4. ASSUME NEW g, Loop(g)
      PROVE  g[Len(recs)] \in T
  <2>1. \A i \in 0 .. n : g[i] = IF i = 0 THEN s ELSE ProcessRecord(g[i - 1], k, recs[i], me, now)
    BY <1>1, <1>4, Zenon
  <2>2. ASSUME NEW i \in 1 .. n, g[i - 1] \in T
        PROVE  g[i] \in T
    <3>1. g[i] = ProcessRecord(g[i - 1], k, recs[i], me, now) /\ recs[i] \in R
      BY <1>1, <2>1
    <3>. QED  BY <2>2, <3>1
  <2>3. 0 \in 0 .. n
    BY <1>1
  <2>4. g[0] \in T
    BY <2>1, <2>3
  <2>. QED  BY <1>1, <2>2, <2>4, StaysWithin
<1>5. PICK h : h = CHOOSE g : Loop(g)
  OBVIOUS
<1>6. Loop(h)
  BY <1>3, <1>5, Zenon
<1>7. processVarList(s, k, recs, me) = h[Len(recs)]
  BY <1>5, Zenon DEF processVarList
<1>. QED  BY <1>4, <1>6, <1>7

\* So for a payload: nothing but its records is processed.
LEMMA PayloadWithin ==
    ASSUME NEW T, NEW s \in T, NEW me, NEW p \in Seq(Written),
           \A t \in T : \A i \in 1 .. Len(p) : \A j \in 1 .. Len(p[i].recs) :
               ProcessRecord(t, p[i].type, p[i].recs[j], me, now) \in T
    PROVE  handleBPReceivedPayloadIndication(s, p, me) \in T
<1> DEFINE Body(t, i) == processVarList(t, RxOrder[i], RecordsOf(p, RxOrder[i]), me)
           F == [i \in 1 .. 6 |-> [t \in T |-> Body(t, i)]]
           Loop(g) == g = [i \in 0 .. 6 |-> IF i = 0 THEN s ELSE Body(g[i - 1], i)]
<1>1. Len(RxOrder) = 6 /\ \A i \in 1 .. 6 : RxOrder[i] \in ICType
  BY DEF RxOrder, ICType
<1>2. ASSUME NEW i \in 1 .. 6, NEW t \in T
      PROVE  Body(t, i) \in T
  <2>1. PICK k \in ICType : k = RxOrder[i]
    BY <1>1
  <2>2. PICK R : R = {r \in Record(k) : \A u \in T : ProcessRecord(u, k, r, me, now) \in T}
    OBVIOUS
  <2>3. ASSUME NEW m \in 1 .. Len(p), p[m].type = k
        PROVE  p[m].recs \in Seq(R)
    <3>1. PICK q : q = p[m].recs
      OBVIOUS
    <3>2. q \in Seq(Record(k))
      BY <2>3, <3>1 DEF Written
    <3>3. ASSUME NEW j \in 1 .. Len(q)
          PROVE  q[j] \in R
      <4>1. q[j] \in Record(k)
        BY <3>2
      <4>2. \A u \in T : ProcessRecord(u, k, q[j], me, now) \in T
        BY <2>3, <3>1
      <4>. QED  BY <2>2, <4>1, <4>2
    <3>4. q \in Seq(R)
      BY <3>2, <3>3
    <3>. QED  BY <3>1, <3>4
  <2>4. RecordsOf(p, k) \in Seq(R)
    BY <2>3, RecordsOfOK
  <2>5. \A u \in T, r \in R : ProcessRecord(u, k, r, me, now) \in T
    BY <2>2
  <2>6. PICK recs \in Seq(R) : recs = RecordsOf(p, k)
    BY <2>4
  <2>7. processVarList(t, k, recs, me) \in T
    BY <2>5, ListWithin
  <2>. QED  BY <2>1, <2>6, <2>7
<1>3. PICK n : n = 6 /\ n \in Nat
  OBVIOUS
<1> HIDE DEF Body
<1>4. PICK f : Steps(f, F, s, n) /\ \A i \in 0 .. n : f[i] \in T
  <2>1. PICK G : G = F
    OBVIOUS
  <2>2. \A i \in 1 .. n : G[i] \in [T -> T]
    BY <1>2, <1>3, <2>1
  <2> HIDE DEF F
  <2>3. \E f : Steps(f, G, s, n) /\ \A i \in 0 .. n : f[i] \in T
    BY <1>3, <2>2, Iterated
  <2>. QED  BY <2>1, <2>3
<1>5. Loop(f)
  <2>1. ASSUME NEW i \in 0 .. n
        PROVE  (IF i = 0 THEN s ELSE F[i][f[i - 1]])
               = IF i = 0 THEN s ELSE Body(f[i - 1], i)
    <3>1. CASE i = 0
      BY <3>1
    <3>2. CASE i # 0
      <4>1. i \in 1 .. 6 /\ i - 1 \in 0 .. n
        BY <1>3, <3>2
      <4>2. f[i - 1] \in T
        BY <1>4, <4>1
      <4>. QED  BY <3>2, <4>1, <4>2
    <3>. QED  BY <3>1, <3>2
  <2>. QED  BY <1>3, <1>4, <2>1, Zenon DEF Steps
<1>6. ASSUME NEW g, Loop(g)
      PROVE  g[n] \in T
  <2>1. \A i \in 0 .. n : g[i] = IF i = 0 THEN s ELSE Body(g[i - 1], i)
    BY <1>3, <1>6, Zenon
  <2>2. ASSUME NEW i \in 1 .. n, g[i - 1] \in T
        PROVE  g[i] \in T
    <3>1. g[i] = Body(g[i - 1], i) /\ i \in 1 .. 6
      BY <1>3, <2>1
    <3>. QED  BY <1>2, <2>2, <3>1
  <2>3. 0 \in 0 .. n
    BY <1>3
  <2>4. g[0] \in T
    BY <2>1, <2>3
  <2>. QED  BY <1>3, <2>2, <2>4, StaysWithin
<1>7. PICK h : h = CHOOSE g : Loop(g)
  OBVIOUS
<1>8. Loop(h)
  BY <1>5, <1>7, Zenon
<1>9. handleBPReceivedPayloadIndication(s, p, me) = h[n]
  BY <1>1, <1>3, <1>7, Zenon DEF handleBPReceivedPayloadIndication, Body
<1>. QED  BY <1>6, <1>8, <1>9

(***************************************************************************)
(* Payloads that are put together.                                         *)
(***************************************************************************)
LEMMA SameGoesOn ==
    ASSUME NEW s, NEW t, NEW u, WellTyped(s), NEW w \in VarId, Same(s, t, w), Same(t, u, w)
    PROVE  Same(s, u, w)
<1>1. PICK a : a = s.db[w]
  OBVIOUS
<1>2. PICK b, c, x, y : b = t.db[w] /\ c = u.db[w] /\ x = t.db[w].count /\ y = u.db[w].count
  OBVIOUS
<1>3. a \in Entry
  BY <1>1, Parts
<1>4. b = [a EXCEPT !.count = x] /\ c = [b EXCEPT !.count = y]
  BY <1>1, <1>2 DEF Same
<1>5. c = [a EXCEPT !.count = y]
  BY <1>3, <1>4 DEF Entry
<1>. QED  BY <1>1, <1>2, <1>5 DEF Same

LEMMA SameRecord ==
    ASSUME NEW s, NEW t, WellTyped(s), NEW k \in ICType, NEW w \in VarId, Same(s, t, w)
    PROVE  RecordFor(t, k, w) = RecordFor(s, k, w)
<1>1. PICK a : a = s.db[w]
  OBVIOUS
<1>2. PICK b, x : b = t.db[w] /\ x = t.db[w].count
  OBVIOUS
<1>3. a \in Entry
  BY <1>1, Parts
<1>4. b = [a EXCEPT !.count = x]
  BY <1>1, <1>2 DEF Same
<1>5. /\ b.prodId = a.prodId /\ b.repCnt = a.repCnt /\ b.creationTime = a.creationTime
      /\ b.timeout = a.timeout /\ b.descr = a.descr /\ b.seqno = a.seqno /\ b.value = a.value
  BY <1>3, <1>4 DEF Entry
<1>. QED  BY <1>1, <1>2, <1>5 DEF RecordFor

\* What a payload says is what the protocol data s say.
FromRecords(s, k, recs) ==
    \A j \in 1 .. Len(recs) :
        \E w \in VarId : /\ recs[j] = RecordFor(s, k, w)
                         /\ k \in Counted => w \in s.used

FromData(s, p) == \A i \in 1 .. Len(p) : FromRecords(s, p[i].type, p[i].recs)

\* The payload p, left records short of its last container, and the protocol data t that
\* remain of s.
Building(s, t, p, phase, left) ==
    /\ WellTyped(t) /\ Consistent(t) /\ \A w \in VarId : Same(s, t, w)
    /\ FromData(s, p)
    /\ \E used : /\ PayloadOK(MaxPayloadSize, p, phase, left, used)
                 /\ left > 0 =>
                      /\ p # <<>> /\ left <= Len(t.q[TxOrder[phase]])
                      /\ Opened(MaxPayloadSize, t, p[Len(p)], TxOrder[phase], used, left)

LEMMA ContainerOpened ==
    ASSUME ProtocolDataAssumption, MaxPayloadSize \in Nat, NEW s, NEW t, NEW p,
           NEW phase \in 1 .. 6, Building(s, t, p, phase, 0),
           CanAddContainer(t, TxOrder[phase], MaxPayloadSize - PayloadBytes(p))
    PROVE  LET k == TxOrder[phase]
               n == numberFittingRecords(t, k, MaxPayloadSize - PayloadBytes(p))
           IN  n \in Nat \ {0} /\ Building(s, t, Append(p, [type |-> k, recs |-> <<>>]), phase, n)
<1>1. PICK used : PayloadOK(MaxPayloadSize, p, phase, 0, used)
  BY DEF Building
<1>2. used = PayloadBytes(p) /\ used \in Nat /\ used <= MaxPayloadSize /\ p \in Seq(Written)
  BY <1>1 DEF PayloadOK
<1>3. PICK k \in ICType : k = TxOrder[phase]
  BY SixContainers
<1>4. PICK n : n = numberFittingRecords(t, k, MaxPayloadSize - used)
  OBVIOUS
<1>5. CanAddContainer(t, TxOrder[phase], MaxPayloadSize - used)
  BY <1>2
<1>6. WellTyped(t)
  BY DEF Building
<1>7. n \in 1 .. Len(t.q[k])
  BY <1>3, <1>4, <1>5, <1>6, FittingOK
<1>8. t.q[k] \in Seq(VarId)
  BY <1>6 DEF WellTyped, AreQueues
<1>9. n \in Nat \ {0} /\ n <= Len(t.q[k])
  BY <1>7, <1>8
<1>10. PICK c : c = [type |-> k, recs |-> <<>>]
  OBVIOUS
<1>11. PICK q : q = Append(p, c)
  OBVIOUS
<1>12. /\ PayloadOK(MaxPayloadSize, q, phase, n, used + HeaderSize)
       /\ q # <<>> /\ q[Len(q)] = c /\ Opened(MaxPayloadSize, t, c, k, used + HeaderSize, n)
  <2>1. LET j == TxOrder[phase]
            b == [type |-> j, recs |-> <<>>]
            m == numberFittingRecords(t, j, MaxPayloadSize - used)
        IN  /\ PayloadOK(MaxPayloadSize, Append(p, b), phase, m, used + HeaderSize)
            /\ Append(p, b) # <<>> /\ Append(p, b)[Len(Append(p, b))] = b
            /\ Opened(MaxPayloadSize, t, b, j, used + HeaderSize, m)
    BY <1>1, <1>5, <1>6, OpenedContainer, ZenonT(40)
  <2>. QED  BY <1>3, <1>4, <1>10, <1>11, <2>1, Zenon
<1>13. c \in Written
  BY <1>3, <1>10, EmptyContainer
<1>14. FromData(s, q)
  <2>1. FromData(s, p)
    BY DEF Building
  <2>2. Len(q) = Len(p) + 1 /\ (\A i \in 1 .. Len(p) : q[i] = p[i]) /\ q[Len(q)] = c
    BY <1>2, <1>11, <1>13
  <2>3. FromRecords(s, c.type, c.recs)
    BY <1>10 DEF FromRecords
  <2>4. ASSUME NEW i \in 1 .. Len(q)
        PROVE  FromRecords(s, q[i].type, q[i].recs)
    <3>1. i \in 1 .. Len(p) \/ i = Len(q)
      BY <1>2, <2>2
    <3>. QED  BY <2>1, <2>2, <2>3, <3>1 DEF FromData
  <2>. QED  BY <2>4 DEF FromData
<1>15. Building(s, t, q, phase, n)
  BY <1>3, <1>9, <1>12, <1>14 DEF Building
<1>. QED  BY <1>2, <1>3, <1>4, <1>9, <1>10, <1>11, <1>15

LEMMA ContainerGrows ==
    ASSUME ProtocolDataAssumption, MaxPayloadSize \in Nat, NEW s, WellTyped(s), NEW t, NEW p,
           NEW phase \in 1 .. 6, NEW left \in Nat, left > 0, Building(s, t, p, phase, left),
           NEW c, p[Len(p)] = c
    PROVE  LET k == TxOrder[phase]
               d == [type |-> k, recs |-> Append(c.recs, RecordFor(t, k, Head(t.q[k])))]
           IN  Building(s, SendRecord(t, k), [p EXCEPT ![Len(p)] = d],
                        IF left = 1 THEN phase + 1 ELSE phase, left - 1)
<1>1. PICK used : /\ PayloadOK(MaxPayloadSize, p, phase, left, used)
                  /\ p # <<>> /\ left <= Len(t.q[TxOrder[phase]])
                  /\ Opened(MaxPayloadSize, t, p[Len(p)], TxOrder[phase], used, left)
  BY DEF Building
<1>2. PICK k \in ICType : k = TxOrder[phase]
  BY SixContainers
<1>3. WellTyped(t) /\ Consistent(t) /\ t.q[k] \in Seq(VarId) /\ p \in Seq(Written)
  BY <1>1 DEF Building, WellTyped, AreQueues, PayloadOK
<1>4. t.q[k] # <<>> /\ Head(t.q[k]) \in VarId
  BY <1>1, <1>2, <1>3
<1>5. PICK r : r = RecordFor(t, k, Head(t.q[k]))
  OBVIOUS
<1>6. PICK q : q = [p EXCEPT ![Len(p)].recs = Append(@, r)]
  OBVIOUS
<1>7. PICK d : d = [type |-> k, recs |-> Append(c.recs, r)]
  OBVIOUS
<1>8. Len(p) \in 1 .. Len(p) /\ c \in Written /\ c.type = k
  BY <1>1, <1>2, <1>3 DEF Opened
<1>9. q = [p EXCEPT ![Len(p)] = d]
  <2>1. [c EXCEPT !.recs = Append(c.recs, r)] = d
    <3>1. c \in [type : ICType, recs : Seq(AnyRecord)]
      BY <1>8 DEF Written
    <3>2. PICK a, b : c = [type |-> a, recs |-> b]
      BY <3>1, Zenon
    <3>3. PICK x : x = Append(c.recs, r)
      OBVIOUS
    <3>4. [c EXCEPT !.recs = x] = [type |-> k, recs |-> x]
      BY <1>8, <3>2
    <3>. QED  BY <1>7, <3>3, <3>4
  <2>2. q = [p EXCEPT ![Len(p)] = [c EXCEPT !.recs = Append(c.recs, r)]]
    BY <1>6, <1>8
  <2>. QED  BY <2>1, <2>2
<1>10. PICK u : u = SendRecord(t, k)
  OBVIOUS
<1>11. ~ SendThrows(t, k)
  BY <1>3, <1>4, SendDoesNotThrow
<1>12. WellTyped(u) /\ Consistent(u) /\ Len(u.q[k]) >= Len(t.q[k]) - 1
  BY <1>3, <1>4, <1>10, <1>11, SendRecordOK
<1>13. PICK b : b = used + RecordSize(k, r)
  OBVIOUS
<1>14. PICK next : next = IF left = 1 THEN phase + 1 ELSE phase
  OBVIOUS
<1>15. /\ PayloadOK(MaxPayloadSize, q, next, left - 1, b)
       /\ left - 1 > 0 => q # <<>> /\ Opened(MaxPayloadSize, u, q[Len(q)], k, b, left - 1)
  <2>1. /\ WellTyped(t) /\ left <= Len(t.q[TxOrder[phase]])
        /\ PayloadOK(MaxPayloadSize, p, phase, left, used) /\ p # <<>>
        /\ Opened(MaxPayloadSize, t, p[Len(p)], TxOrder[phase], used, left)
    BY <1>1, <1>3
  <2>2. LET j == TxOrder[phase]
            x == RecordFor(t, j, Head(t.q[j]))
            a == used + RecordSize(j, x)
            y == [p EXCEPT ![Len(p)].recs = Append(@, x)]
        IN  /\ PayloadOK(MaxPayloadSize, y, IF left = 1 THEN phase + 1 ELSE phase, left - 1, a)
            /\ left - 1 > 0 =>
                 y # <<>> /\ Opened(MaxPayloadSize, SendRecord(t, j), y[Len(y)], j, a, left - 1)
    BY <2>1, RecordAdded, ZenonT(40)
  <2>. QED  BY <1>2, <1>5, <1>6, <1>10, <1>13, <1>14, <2>2, Zenon
<1>16. left - 1 > 0 => left - 1 <= Len(u.q[k]) /\ TxOrder[next] = k
  <2>1. u.q[k] \in Seq(VarId)
    BY <1>12 DEF WellTyped, AreQueues
  <2>2. Len(u.q[k]) \in Nat /\ Len(t.q[k]) \in Nat /\ left <= Len(t.q[k])
    BY <1>1, <1>2, <1>3, <2>1
  <2>. QED  BY <1>2, <1>12, <1>14, <2>2
<1>17. \A w \in VarId : Same(s, u, w)
  <2> SUFFICES ASSUME NEW w \in VarId  PROVE Same(s, u, w)
    OBVIOUS
  <2>1. Same(s, t, w)
    BY DEF Building
  <2>2. Same(t, u, w)
    BY <1>3, <1>4, <1>10, SendSame
  <2>. QED  BY <2>1, <2>2, SameGoesOn
<1>18. FromData(s, q)
  <2>1. FromRecords(s, k, c.recs)
    BY <1>8 DEF Building, FromData
  <2>2. PICK w \in VarId : w = Head(t.q[k])
    BY <1>4
  <2>3. r = RecordFor(s, k, w)
    <3>1. Same(s, t, w)
      BY DEF Building
    <3>2. RecordFor(t, k, w) = RecordFor(s, k, w)
      BY <3>1, SameRecord
    <3>. QED  BY <1>5, <2>2, <3>2
  <2>4. k \in Counted => w \in s.used
    <3>1. w \in Members(t.q[k])
      BY <1>3, <1>4, <2>2 DEF Members
    <3>2. k \in Counted => w \in t.used
      BY <1>3, <3>1, OfOneVariable
    <3>3. w \in t.used <=> w \in s.used
      BY <2>2 DEF Building, Same
    <3>. QED  BY <3>2, <3>3
  <2>5. c.recs \in Seq(AnyRecord) /\ Len(c.recs) \in Nat
    BY <1>8 DEF Written
  <2>6. PICK recs : recs = Append(c.recs, r)
    OBVIOUS
  <2>7. /\ Len(recs) = Len(c.recs) + 1 /\ recs[Len(recs)] = r
        /\ \A j \in 1 .. Len(c.recs) : recs[j] = c.recs[j]
    BY <2>5, <2>6
  <2>8. FromRecords(s, k, recs)
    <3>1. ASSUME NEW j \in 1 .. Len(recs)
          PROVE  \E v \in VarId : /\ recs[j] = RecordFor(s, k, v)
                                  /\ k \in Counted => v \in s.used
      <4>1. j \in 1 .. Len(c.recs) \/ j = Len(recs)
        BY <2>5, <2>7
      <4>. QED  BY <2>1, <2>3, <2>4, <2>7, <4>1 DEF FromRecords
    <3>. QED  BY <3>1 DEF FromRecords
  <2>9. Len(q) = Len(p) /\ \A i \in 1 .. Len(p) : q[i] = IF i = Len(p) THEN d ELSE p[i]
    BY <1>3, <1>8, <1>9
  <2>10. d.type = k /\ d.recs = recs
    BY <1>7, <2>6
  <2>11. ASSUME NEW i \in 1 .. Len(q)
         PROVE  FromRecords(s, q[i].type, q[i].recs)
    <3>1. CASE i = Len(p)
      BY <2>8, <2>9, <2>10, <3>1
    <3>2. CASE i # Len(p)
      <4>1. q[i] = p[i] /\ i \in 1 .. Len(p)
        BY <2>9, <3>2
      <4>. QED  BY <4>1 DEF Building, FromData
    <3>. QED  BY <3>1, <3>2
  <2>. QED  BY <2>11 DEF FromData
<1>19. Building(s, u, q, next, left - 1)
  BY <1>12, <1>15, <1>16, <1>17, <1>18 DEF Building
<1>. QED  BY <1>2, <1>5, <1>7, <1>9, <1>10, <1>14, <1>19

LEMMA ContainerFilled ==
    ASSUME ProtocolDataAssumption, MaxPayloadSize \in Nat, NEW s, WellTyped(s), NEW t, NEW p,
           NEW phase \in 1 .. 6, Building(s, t, p, phase, 0), NEW k, k = TxOrder[phase],
           CanAddContainer(t, k, MaxPayloadSize - PayloadBytes(p)),
           NEW n, n = numberFittingRecords(t, k, MaxPayloadSize - PayloadBytes(p)),
           NEW c, c = Filled(t, k, n)
    PROVE  Building(s, c.data, Append(p, [type |-> k, recs |-> c.recs]), phase + 1, 0)
<1> DEFINE With(recs) == Append(p, [type |-> k, recs |-> recs])
<1>1. n \in Nat \ {0} /\ Building(s, t, With(<<>>), phase, n)
  BY ContainerOpened
<1>2. PICK f : /\ c = f[n]
               /\ f[0] = [data |-> t, recs |-> <<>>]
               /\ \A i \in 1 .. n : f[i] = AddRecord(k, f[i - 1])
  BY <1>1, FilledIs
<1>3. p \in Seq(Written)
  BY DEF Building, PayloadOK
<1> DEFINE Filling(i) ==
             Building(s, f[i].data, With(f[i].recs), IF i = n THEN phase + 1 ELSE phase, n - i)
           U == {i \in 0 .. n : Filling(i)}
<1>4. 0 \in U
  <2>1. f[0].data = t /\ f[0].recs = <<>>
    BY <1>2
  <2>2. 0 # n /\ n - 0 = n /\ 0 \in 0 .. n
    BY <1>1
  <2>3. (IF 0 = n THEN phase + 1 ELSE phase) = phase
    BY <2>2
  <2>4. Filling(0)
    BY <1>1, <2>1, <2>2, <2>3
  <2>. QED  BY <2>2, <2>4
<1>5. ASSUME NEW i \in 0 .. n, i < n, i \in U
      PROVE  i + 1 \in U
  <2>1. i + 1 \in 1 .. n /\ (i + 1) - 1 = i /\ i # n /\ i + 1 \in 0 .. n
    BY <1>1, <1>5
  <2>2. PICK left \in Nat : left = n - i /\ left > 0 /\ left - 1 = n - (i + 1)
    BY <1>1, <1>5
  <2>3. PICK u, recs : u = f[i].data /\ recs = f[i].recs
    OBVIOUS
  <2>4. PICK b : b = [type |-> k, recs |-> recs]
    OBVIOUS
  <2>5. PICK q : q = Append(p, b)
    OBVIOUS
  <2>6. Building(s, u, q, phase, left)
    <3>1. (IF i = n THEN phase + 1 ELSE phase) = phase
      BY <2>1
    <3>. QED  BY <1>5, <2>2, <2>3, <2>4, <2>5, <3>1
  <2>7. q[Len(q)] = b /\ Len(q) = Len(p) + 1 /\ b.recs = recs
    BY <1>3, <2>4, <2>5
  <2>8. PICK more : more = Append(recs, RecordFor(u, k, Head(u.q[k])))
    OBVIOUS
  <2>9. PICK d : d = [type |-> k, recs |-> more]
    OBVIOUS
  <2>10. PICK next : next = IF left = 1 THEN phase + 1 ELSE phase
    OBVIOUS
  <2>11. Building(s, SendRecord(u, k), [q EXCEPT ![Len(q)] = d], next, left - 1)
    <3>1. LET j == TxOrder[phase]
              e == [type |-> j, recs |-> Append(b.recs, RecordFor(u, j, Head(u.q[j])))]
          IN  Building(s, SendRecord(u, j), [q EXCEPT ![Len(q)] = e],
                       IF left = 1 THEN phase + 1 ELSE phase, left - 1)
      BY <2>2, <2>6, <2>7, ContainerGrows, ZenonT(40)
    <3>. QED  BY <2>7, <2>8, <2>9, <2>10, <3>1, Zenon
  <2>12. [q EXCEPT ![Len(q)] = d] = With(more)
    <3>1. PICK S : S = Written \cup {b, d}
      OBVIOUS
    <3>2. p \in Seq(S) /\ b \in S /\ d \in S
      BY <1>3, <3>1
    <3>3. PICK r, a : r = [q EXCEPT ![Len(q)] = d] /\ a = Append(p, d)
      OBVIOUS
    <3>4. /\ Len(q) = Len(p) + 1 /\ Len(p) \in Nat /\ \A j \in 1 .. Len(p) : q[j] = p[j]
          /\ q \in Seq(S) /\ DOMAIN q = 1 .. Len(p) + 1
      BY <2>5, <3>2
    <3>5. a \in Seq(S) /\ r \in Seq(S) /\ Len(r) = Len(p) + 1 /\ Len(a) = Len(p) + 1
      BY <3>2, <3>3, <3>4
    <3>6. ASSUME NEW j \in 1 .. Len(p) + 1
          PROVE  r[j] = a[j]
      <4>1. r[j] = IF j = Len(q) THEN d ELSE q[j]
        BY <3>3, <3>4
      <4>2. a[j] = IF j = Len(p) + 1 THEN d ELSE p[j]
        BY <3>2, <3>3, <3>4
      <4>3. j = Len(p) + 1 \/ j \in 1 .. Len(p)
        BY <3>4
      <4>. QED  BY <3>4, <4>1, <4>2, <4>3
    <3>7. r = a
      BY <3>5, <3>6, SeqEqual
    <3>. QED  BY <2>9, <3>3, <3>7
  <2>13. f[i + 1].data = SendRecord(u, k) /\ f[i + 1].recs = more
    <3>1. f[i + 1] = AddRecord(k, f[i])
      BY <1>2, <2>1
    <3>. QED  BY <2>3, <2>8, <3>1 DEF AddRecord
  <2>14. next = IF i + 1 = n THEN phase + 1 ELSE phase
    <3>1. left = 1 <=> i + 1 = n
      BY <1>1, <1>5, <2>2
    <3>. QED  BY <2>10, <3>1
  <2>15. Filling(i + 1)
    BY <2>2, <2>11, <2>12, <2>13, <2>14
  <2>. QED  BY <2>1, <2>15
<1>6. \A i \in 0 .. n : i \in U
  <2> HIDE DEF U
  <2>. QED  BY <1>1, <1>4, <1>5, OneByOne
<1>7. Filling(n) /\ n - n = 0
  BY <1>1, <1>6
<1>. QED  BY <1>2, <1>7

\* What the transmitter makes of the protocol data.
LEMMA PayloadConstructed ==
    ASSUME ProtocolDataAssumption, MaxPayloadSize \in Nat, HeaderSize > 0,
           NEW s, WellTyped(s), Consistent(s), NEW t, NEW p,
           t = constructPayload(s).data, p = constructPayload(s).containers
    PROVE  /\ WellTyped(t) /\ Consistent(t) /\ \A w \in VarId : Same(s, t, w)
           /\ p \in Seq(Written) /\ FromData(s, p)
           /\ p # <<>> => PayloadBytes(p) \in 1 .. MaxPayloadSize
<1>1. PICK f : /\ constructPayload(s) = f[6]
               /\ f[0] = [data |-> s, containers |-> <<>>]
               /\ \A i \in 1 .. 6 : f[i] = AddContainer(f[i - 1], TxOrder[i])
  BY ConstructedIs
<1> DEFINE Done(i) == Building(s, f[i].data, f[i].containers, i + 1, 0)
           U == {i \in 0 .. 6 : Done(i)}
<1>2. 0 \in U
  <2>1. Building(s, s, <<>>, 1, 0)
    <3>1. \A w \in VarId : Same(s, s, w)
      BY SameEntry DEF Same
    <3>2. PayloadOK(MaxPayloadSize, <<>>, 1, 0, 0)
      BY EmptyPayload
    <3>3. FromData(s, <<>>)
      BY DEF FromData
    <3>. QED  BY <3>1, <3>2, <3>3 DEF Building
  <2>. QED  BY <1>1, <2>1
<1>3. ASSUME NEW i \in 0 .. 6, i < 6, i \in U
      PROVE  i + 1 \in U
  <2>1. i + 1 \in 1 .. 6 /\ (i + 1) - 1 = i /\ i + 1 \in 0 .. 6
    BY <1>3
  <2>2. PICK phase \in 1 .. 6 : phase = i + 1
    BY <2>1
  <2>3. PICK k : k = TxOrder[phase]
    OBVIOUS
  <2>4. PICK u, q : u = f[i].data /\ q = f[i].containers
    OBVIOUS
  <2>5. Building(s, u, q, phase, 0)
    BY <1>3, <2>2, <2>4
  <2>6. f[i + 1] = AddContainer(f[i], k)
    BY <1>1, <2>1, <2>2, <2>3
  <2>7. CASE ~ CanAddContainer(u, k, MaxPayloadSize - PayloadBytes(q))
    <3>1. f[i + 1] = f[i]
      BY <2>4, <2>6, <2>7 DEF AddContainer
    <3>2. Building(s, u, q, phase + 1, 0)
      <4>1. PICK used : PayloadOK(MaxPayloadSize, q, phase, 0, used)
        BY <2>5 DEF Building
      <4>2. PayloadOK(MaxPayloadSize, q, phase + 1, 0, used)
        BY <4>1, SkippedContainer
      <4>. QED  BY <2>5, <4>2 DEF Building
    <3>. QED  BY <2>1, <2>2, <2>4, <3>1, <3>2
  <2>8. CASE CanAddContainer(u, k, MaxPayloadSize - PayloadBytes(q))
    <3>1. PICK n : n = numberFittingRecords(u, k, MaxPayloadSize - PayloadBytes(q))
      OBVIOUS
    <3>2. PICK c : c = Filled(u, k, n)
      OBVIOUS
    <3>3. Building(s, c.data, Append(q, [type |-> k, recs |-> c.recs]), phase + 1, 0)
      BY <2>3, <2>5, <2>8, <3>1, <3>2, ContainerFilled, ZenonT(40)
    <3>4. f[i + 1] = [data |-> c.data,
                      containers |-> Append(q, [type |-> k, recs |-> c.recs])]
      BY <2>4, <2>6, <2>8, <3>1, <3>2 DEF AddContainer
    <3>5. f[i + 1].data = c.data
          /\ f[i + 1].containers = Append(q, [type |-> k, recs |-> c.recs])
      BY <3>4
    <3>6. Done(i + 1)
      BY <2>2, <3>3, <3>5
    <3>. QED  BY <2>1, <3>6
  <2>. QED  BY <2>7, <2>8
<1>4. \A i \in 0 .. 6 : i \in U
  <2> HIDE DEF U
  <2>. QED  BY <1>2, <1>3, OneByOne
<1>5. Building(s, t, p, 7, 0)
  BY <1>1, <1>4
<1>6. p \in Seq(Written) /\ PayloadBytes(p) \in Nat /\ PayloadBytes(p) <= MaxPayloadSize
  BY <1>5 DEF Building, PayloadOK
<1>7. p # <<>> => PayloadBytes(p) > 0
  <2> SUFFICES ASSUME p # <<>>  PROVE PayloadBytes(p) > 0
    OBVIOUS
  <2>1. PICK n : n = Len(p) /\ n \in Nat /\ n >= 1
    BY <1>6
  <2>2. PICK g : Sums(g, 0, Lengths(p), n) /\ PayloadBytes(p) = g[n]
    BY <1>6, <2>1, PayloadBytesIs
  <2>3. \A i \in 1 .. n : Lengths(p)[i] = ContainerBytes(p[i]) /\ p[i] \in Written
    BY <1>6, <2>1 DEF Lengths
  <2>4. Lengths(p) \in [1 .. n -> Nat]
    <3>1. \A i \in 1 .. n : ContainerBytes(p[i]) \in Nat
      BY <2>3, ContainerBytesIs
    <3>. QED  BY <2>1, <3>1 DEF Lengths
  <2>5. g[1] <= g[n]
    <3>1. \A i \in 0 .. n : g[i] <= g[n]
      BY <2>1, <2>2, <2>4, SumsGrow
    <3>2. 1 \in 0 .. n
      BY <2>1
    <3>. QED  BY <3>1, <3>2
  <2>6. g[1] = ContainerBytes(p[1])
    <3>1. g[0] = 0 /\ 1 \in 1 .. n /\ g[1] = g[1 - 1] + Lengths(p)[1] /\ Lengths(p)[1] \in Nat
      BY <2>1, <2>2, <2>4 DEF Sums, Adds
    <3>. QED  BY <2>3, <3>1
  <2>7. ContainerBytes(p[1]) > 0
    <3>1. PICK c \in Written : c = p[1]
      BY <2>1, <2>3
    <3>2. PICK m : m = Len(c.recs) /\ m \in Nat
      BY <3>1, ContainerBytesIs
    <3>3. PICK h : Sums(h, HeaderSize, Weights(c), m) /\ ContainerBytes(c) = h[m]
      BY <3>2, ContainerBytesIs
    <3>4. HeaderSize \in Nat /\ Weights(c) \in [1 .. m -> Nat]
      BY <3>2, ContainerBytesIs DEF ProtocolDataAssumption
    <3>5. h[0] <= h[m]
      <4>1. \A i \in 0 .. m : h[i] <= h[m]
        BY <3>2, <3>3, <3>4, SumsGrow
      <4>2. 0 \in 0 .. m
        BY <3>2
      <4>. QED  BY <4>1, <4>2
    <3>6. h[0] = HeaderSize /\ h[m] \in Nat
      BY <3>2, <3>3 DEF Sums, Adds
    <3>. QED  BY <3>1, <3>3, <3>4, <3>5, <3>6
  <2>8. g[n] \in Nat /\ g[1] \in Nat
    BY <2>1, <2>2 DEF Sums
  <2>. QED  BY <2>2, <2>5, <2>6, <2>7, <2>8
<1>. QED  BY <1>5, <1>6, <1>7 DEF Building

(***************************************************************************)
(* What a node makes of the records it receives.                           *)
(***************************************************************************)
LEMMA ScenarioFacts ==
    ASSUME NetTypes, NetworkAssumption
    PROVE  /\ scenario.updates \in Nat /\ scenario.updates <= MaxUpdates
           /\ scenario.time \in Nat /\ scenario.time <= MaxTime /\ MaxTime \in Nat
           /\ now \in Nat /\ now <= scenario.time /\ now <= MaxTime
           /\ Node \subseteq NodeId /\ Var \subseteq VarId
           /\ \A v \in VarId : Producer(v) \in NodeId
           /\ scenario.repCnt \in RepCnt /\ scenario.deletes \in BOOLEAN
           /\ Value = [born : 0 .. MaxTime, n : 0 .. MaxUpdates] /\ MaxUpdates \in Nat
<1>1. scenario \in Scenario /\ scenario.time <= MaxTime /\ scenario.updates <= MaxUpdates
  BY DEF NetTypes, NetworkAssumption
<1>2. /\ scenario.updates \in Nat /\ scenario.time \in Nat
      /\ scenario.nodes \subseteq NodeId /\ scenario.vars \subseteq VarId
      /\ scenario.producer \in [VarId -> NodeId]
      /\ scenario.repCnt \in RepCnt /\ scenario.deletes \in BOOLEAN
  BY <1>1 DEF Scenario
<1>3. now \in 0 .. scenario.time /\ MaxTime \in Nat /\ MaxUpdates \in Nat
  BY DEF NetTypes, NetworkAssumption
<1>4. now \in Nat /\ now <= scenario.time /\ now <= MaxTime
  BY <1>1, <1>2, <1>3
<1>. QED  BY <1>1, <1>2, <1>3, <1>4 DEF Node, Var, Producer, NetworkAssumption, ProducedValue

LEMMA EntryFacts ==
    ASSUME NetworkAssumption, NEW e \in Entry
    PROVE  /\ e.creationTime \in Nat /\ e.value \in Value
           /\ e.value.n \in 0 .. MaxUpdates /\ e.value.n \in Nat /\ e.value.born \in 0 .. MaxTime
<1>1. e.creationTime \in Nat /\ e.value \in Value
  BY DEF Entry
<1>2. PICK x : x = e.value
  OBVIOUS
<1>3. x \in [born : 0 .. MaxTime, n : 0 .. MaxUpdates] /\ MaxUpdates \in Nat
  BY <1>1, <1>2 DEF NetworkAssumption, ProducedValue
<1>4. x.n \in 0 .. MaxUpdates /\ x.n \in Nat /\ x.born \in 0 .. MaxTime
  BY <1>3
<1>. QED  BY <1>1, <1>2, <1>4

\* As long as less than half of the sequence numbers are used, the newer value wins.
LEMMA NewerWins ==
    ASSUME SeqnoAssumption, NEW m \in Nat, 2 * m < SeqnoModulus, NEW a \in 0 .. m, NEW b \in 0 .. m,
           ~ more_recent_seqno(a % SeqnoModulus, b % SeqnoModulus)
    PROVE  a <= b
<1>1. /\ SeqnoModulus \in Nat /\ HalfSeqno \in Nat /\ SeqnoModulus = 2 * HalfSeqno + 2
  <2>1. PICK h \in 2 .. SeqnoModulus : SeqnoModulus = 2 * h
    BY DEF SeqnoAssumption
  <2>2. h \in Nat /\ h >= 2 /\ SeqnoModulus \in Nat
    BY <2>1 DEF SeqnoAssumption
  <2>3. (2 * h - 1) \div 2 = h - 1
    BY <2>2
  <2>. QED  BY <2>1, <2>2, <2>3 DEF HalfSeqno
<1>2. a < SeqnoModulus /\ b < SeqnoModulus /\ a \in Nat /\ b \in Nat /\ m <= HalfSeqno
  BY <1>1
<1>3. a % SeqnoModulus = a /\ b % SeqnoModulus = b
  BY <1>1, <1>2
<1>4. ~ (a > b /\ a - b <= HalfSeqno)
  BY <1>3 DEF more_recent_seqno
<1>. QED  BY <1>1, <1>2, <1>4

LEMMA SameGenuine ==
    ASSUME NEW h, NEW v, NEW c, NEW d, Genuine(h, v, c),
           d.prodId = c.prodId, d.creationTime = c.creationTime,
           d.seqno = c.seqno, d.value = c.value
    PROVE  Genuine(h, v, d)
BY DEF Genuine

\* Node m has of its own variable v what it had.
Owned(h, s, t, v, m) ==
    h.producer[v] = m => /\ v \in t.used <=> v \in s.used
                         /\ v \in s.used => t.db[v].value = s.db[v].value

LEMMA SameStaysGenuine ==
    ASSUME NEW h, NEW s, WellTyped(s), NEW t, NEW v \in VarId, Same(s, t, v), GenuineData(h, s)
    PROVE  v \in t.used => Genuine(h, v, t.db[v])
<1>1. /\ t.db[v].prodId = s.db[v].prodId /\ t.db[v].creationTime = s.db[v].creationTime
      /\ t.db[v].seqno = s.db[v].seqno /\ t.db[v].value = s.db[v].value
  BY SameFields
<1>2. v \in t.used <=> v \in s.used
  BY DEF Same
<1>. QED  BY <1>1, <1>2, SameGenuine DEF GenuineData

LEMMA SameOwned ==
    ASSUME NEW h, NEW s, WellTyped(s), NEW t, NEW v \in VarId, Same(s, t, v), NEW m
    PROVE  Owned(h, s, t, v, m)
<1>1. t.db[v].value = s.db[v].value
  BY SameFields
<1>2. v \in t.used <=> v \in s.used
  BY DEF Same
<1>. QED  BY <1>1, <1>2 DEF Owned

\* The variable v has not stepped back from s to t.
NotBehind(s, t, v) ==
    LET e == s.db[v]
        f == t.db[v]
    IN  v \in s.used =>
          /\ v \in t.used
          /\ \/ f.creationTime > e.creationTime
             \/ /\ f.creationTime = e.creationTime /\ f.value.n >= e.value.n
                /\ e.isDeleted => f.isDeleted

LEMMA NotBehindGoesOn ==
    ASSUME NetTypes, NetworkAssumption, NEW s, NEW t, NEW u,
           WellTyped(s), WellTyped(t), WellTyped(u), NEW v \in VarId,
           NotBehind(s, t, v), NotBehind(t, u, v)
    PROVE  NotBehind(s, u, v)
<1>1. PICK a, b, c : a = s.db[v] /\ b = t.db[v] /\ c = u.db[v]
  OBVIOUS
<1>2. a \in Entry /\ b \in Entry /\ c \in Entry
  BY <1>1, Parts
<1>3. /\ a.creationTime \in Nat /\ b.creationTime \in Nat /\ c.creationTime \in Nat
      /\ a.value.n \in Nat /\ b.value.n \in Nat /\ c.value.n \in Nat
  BY <1>2, EntryFacts
<1>. QED  BY <1>1, <1>3 DEF NotBehind

LEMMA SameNotBehind ==
    ASSUME NetTypes, NetworkAssumption, NEW s, NEW t, WellTyped(s), NEW v \in VarId, Same(s, t, v)
    PROVE  NotBehind(s, t, v)
<1>1. PICK e : e = s.db[v] /\ e \in Entry
  BY Parts
<1>2. e.value.n \in Nat
  BY <1>1, EntryFacts
<1>3. /\ t.db[v].creationTime = e.creationTime /\ t.db[v].isDeleted = e.isDeleted
      /\ t.db[v].value = e.value /\ (v \in t.used <=> v \in s.used)
  BY <1>1, SameFields
<1>. QED  BY <1>1, <1>2, <1>3 DEF NotBehind

\* The data t can come about at node m from s, by records that are genuine.
Reached(h, s, t, m) ==
    /\ WellTyped(t) /\ Consistent(t) /\ GenuineData(h, t)
    /\ \A v \in VarId : Owned(h, s, t, v, m)
    /\ 2 * h.updates < SeqnoModulus => \A v \in VarId : NotBehind(s, t, v)

LEMMA ReachedFromStart ==
    ASSUME NetTypes, NetworkAssumption,
           NEW h, NEW s, WellTyped(s), Consistent(s), GenuineData(h, s), NEW m
    PROVE  Reached(h, s, s, m)
<1>1. \A v \in VarId : Same(s, s, v)
  BY SameEntry DEF Same
<1>2. \A v \in VarId : NotBehind(s, s, v)
  BY <1>1, SameNotBehind
<1>3. \A v \in VarId : Owned(h, s, s, v, m)
  BY DEF Owned
<1>. QED  BY <1>2, <1>3 DEF Reached

\* What becomes of the variable that a genuine record names.
LEMMA VariableReached ==
    ASSUME NetTypes, NetworkAssumption, ProtocolDataAssumption, SeqnoAssumption,
           NEW h, h.updates \in Nat,
           NEW t, WellTyped(t), GenuineData(h, t), NEW u, WellTyped(u), NEW m,
           NEW k \in ICType, NEW r \in Record(k), GenuineRecord(h, k, r), r.varId \in VarId,
           FromRecord(t, u, k, r, m), NEW v, v = r.varId
    PROVE  /\ v \in u.used => Genuine(h, v, u.db[v])
           /\ Owned(h, t, u, v, m)
           /\ 2 * h.updates < SeqnoModulus => NotBehind(t, u, v)
<1>0. v \in VarId
  OBVIOUS
<1>1. PICK e, f : e = t.db[v] /\ f = u.db[v]
  OBVIOUS
<1>2. e \in Entry /\ f \in Entry
  BY <1>0, <1>1, Parts
<1>3. v \in t.used => Genuine(h, v, e)
  BY <1>0, <1>1 DEF GenuineData
<1>4. /\ e.creationTime \in Nat /\ f.creationTime \in Nat
      /\ e.value.n \in Nat /\ f.value.n \in Nat
  BY <1>2, EntryFacts
<1>5. CASE Same(t, u, v)
  <2>1. v \in u.used => Genuine(h, v, f)
    BY <1>0, <1>1, <1>5, SameStaysGenuine
  <2>2. Owned(h, t, u, v, m)
    BY <1>0, <1>5, SameOwned
  <2>3. NotBehind(t, u, v)
    BY <1>0, <1>5, SameNotBehind
  <2>. QED  BY <1>1, <2>1, <2>2, <2>3
<1>6. CASE /\ k = "create" /\ Replaced(t, u, v, m)
           /\ f.prodId = r.prodId /\ f.creationTime = r.creationTime
           /\ f.seqno = r.seqno /\ f.value = r.value
  <2>1. Genuine(h, v, r)
    BY <1>6 DEF GenuineRecord
  <2>2. Genuine(h, v, f)
    BY <1>6, <2>1, SameGenuine
  <2>3. h.producer[v] # m
    BY <1>1, <1>6, <2>2 DEF Replaced, Genuine
  <2>4. NotBehind(t, u, v)
    BY <1>1, <1>6 DEF Replaced, NotBehind
  <2>. QED  BY <1>1, <2>2, <2>3, <2>4 DEF Owned
<1>7. CASE e.prodId # m /\ Deleted(t, u, v)
  <2>1. /\ f.prodId = e.prodId /\ f.creationTime = e.creationTime /\ f.seqno = e.seqno
        /\ f.isDeleted /\ f.value = e.value /\ v \in u.used /\ v \in t.used
    BY <1>1, <1>7 DEF Deleted, Kept
  <2>2. Genuine(h, v, f)
    BY <1>3, <2>1, SameGenuine
  <2>3. h.producer[v] # m
    BY <1>3, <1>7, <2>1 DEF Genuine
  <2>4. NotBehind(t, u, v)
    BY <1>1, <1>4, <2>1 DEF NotBehind
  <2>. QED  BY <1>1, <2>2, <2>3, <2>4 DEF Owned
<1>8. CASE /\ k = "update" /\ e.prodId # m /\ Updated(t, u, v)
           /\ f.seqno = r.seqno /\ f.value = r.value
  <2>1. /\ f.prodId = e.prodId /\ f.creationTime = e.creationTime /\ v \in u.used /\ v \in t.used
        /\ ~ e.isDeleted /\ ~ more_recent_seqno(e.seqno, f.seqno)
    BY <1>1, <1>8 DEF Updated, Kept
  <2>2. Truthful(h, v, f.value, f.seqno)
    BY <1>8 DEF GenuineRecord
  <2>3. Genuine(h, v, e)
    BY <1>3, <2>1
  <2>4. Genuine(h, v, f)
    BY <2>1, <2>2, <2>3 DEF Genuine
  <2>5. h.producer[v] # m
    BY <1>8, <2>3 DEF Genuine
  <2>6. ASSUME 2 * h.updates < SeqnoModulus
        PROVE  NotBehind(t, u, v)
    <3>1. /\ e.value.n <= h.updates /\ e.seqno = e.value.n % SeqnoModulus
          /\ f.value.n <= h.updates /\ f.seqno = f.value.n % SeqnoModulus
      BY <2>2, <2>3 DEF Genuine, Truthful
    <3>2. e.value.n \in 0 .. h.updates /\ f.value.n \in 0 .. h.updates
          /\ h.updates \in Nat
      BY <1>4, <3>1
    <3>3. ~ more_recent_seqno(e.value.n % SeqnoModulus, f.value.n % SeqnoModulus)
      BY <2>1, <3>1
    <3>4. e.value.n <= f.value.n
      BY <2>6, <3>2, <3>3, NewerWins
    <3>. QED  BY <1>1, <1>4, <2>1, <3>4 DEF NotBehind
  <2>. QED  BY <1>1, <2>4, <2>5, <2>6 DEF Owned
<1>. QED  BY <1>1, <1>5, <1>6, <1>7, <1>8 DEF FromRecord

LEMMA RecordReaches ==
    ASSUME NetTypes, NetworkAssumption, ProtocolDataAssumption, SeqnoAssumption,
           NEW h, h.updates \in Nat,
           NEW s, WellTyped(s), NEW t, NEW m, Reached(h, s, t, m),
           NEW k \in ICType, NEW r \in Record(k), GenuineRecord(h, k, r),
           NEW u, u = ProcessRecord(t, k, r, m, now)
    PROVE  Reached(h, s, u, m)
<1>1. WellTyped(t) /\ Consistent(t) /\ GenuineData(h, t)
  BY DEF Reached
<1>2. now \in Nat
  BY ScenarioFacts
<1>3. WellTyped(u) /\ Consistent(u)
  BY <1>1, <1>2, ProcessRecordOK
<1>4. r.varId \in VarId /\ FromRecord(t, u, k, r, m)
  BY <1>1, <1>2, RecordFromOutside
<1>5. ASSUME NEW v \in VarId
      PROVE  /\ v \in u.used => Genuine(h, v, u.db[v])
             /\ Owned(h, t, u, v, m)
             /\ 2 * h.updates < SeqnoModulus => NotBehind(t, u, v)
  <2>1. CASE v = r.varId
    BY <1>1, <1>3, <1>4, <2>1, VariableReached
  <2>2. CASE v # r.varId
    <3>1. Same(t, u, v)
      BY <1>4, <2>2 DEF FromRecord, OnlyTouches
    <3>2. v \in u.used => Genuine(h, v, u.db[v])
      BY <1>1, <3>1, SameStaysGenuine
    <3>3. Owned(h, t, u, v, m)
      BY <1>1, <3>1, SameOwned
    <3>4. NotBehind(t, u, v)
      BY <1>1, <3>1, SameNotBehind
    <3>. QED  BY <3>2, <3>3, <3>4
  <2>. QED  BY <2>1, <2>2
<1>6. u.used \subseteq VarId
  BY <1>3, Parts
<1>7. GenuineData(h, u)
  BY <1>5, <1>6 DEF GenuineData
<1>8. ASSUME NEW v \in VarId
      PROVE  Owned(h, s, u, v, m)
  <2>1. Owned(h, s, t, v, m)
    BY DEF Reached
  <2>2. Owned(h, t, u, v, m)
    BY <1>5
  <2>. QED  BY <2>1, <2>2 DEF Owned
<1>9. ASSUME NEW v \in VarId, 2 * h.updates < SeqnoModulus
      PROVE  NotBehind(s, u, v)
  <2>1. NotBehind(s, t, v) /\ NotBehind(t, u, v)
    BY <1>5, <1>9 DEF Reached
  <2>. QED  BY <1>1, <1>3, <2>1, NotBehindGoesOn
<1>. QED  BY <1>3, <1>7, <1>8, <1>9 DEF Reached

\* What a node makes of a genuine payload.
LEMMA PayloadReaches ==
    ASSUME NetTypes, NetworkAssumption, ProtocolDataAssumption, SeqnoAssumption,
           NEW h, h.updates \in Nat,
           NEW s, WellTyped(s), Consistent(s), GenuineData(h, s), NEW m,
           NEW p \in Seq(Written), GenuinePayload(h, p)
    PROVE  Reached(h, s, handleBPReceivedPayloadIndication(s, p, m), m)
<1>1. PICK T : T = {t \in ProtocolData : Reached(h, s, t, m)}
  OBVIOUS
<1>2. s \in T
  BY <1>1, ReachedFromStart DEF WellTyped
<1>3. ASSUME NEW t \in T, NEW i \in 1 .. Len(p), NEW j \in 1 .. Len(p[i].recs)
      PROVE  ProcessRecord(t, p[i].type, p[i].recs[j], m, now) \in T
  <2>1. PICK c \in Written : c = p[i]
    OBVIOUS
  <2>2. PICK k \in ICType : k = c.type /\ c.recs \in Seq(Record(k))
    BY DEF Written
  <2>3. PICK r \in Record(k) : r = c.recs[j]
    BY <2>1, <2>2
  <2>4. GenuineRecord(h, k, r)
    BY <2>1, <2>2, <2>3 DEF GenuinePayload
  <2>5. PICK u : u = ProcessRecord(t, k, r, m, now)
    OBVIOUS
  <2>6. Reached(h, s, t, m)
    BY <1>1
  <2>7. Reached(h, s, u, m)
    BY <2>4, <2>5, <2>6, RecordReaches
  <2>8. u \in T
    BY <1>1, <2>7 DEF Reached, WellTyped
  <2>. QED  BY <2>1, <2>2, <2>3, <2>5, <2>8
<1>4. handleBPReceivedPayloadIndication(s, p, m) \in T
  BY <1>2, <1>3, PayloadWithin
<1>. QED  BY <1>1, <1>4

(***************************************************************************)
(* What is genuine stays so.                                               *)
(***************************************************************************)
\* The history h goes on to be k.
Continues(h, k) ==
    /\ k.producer = h.producer /\ k.updates = h.updates /\ k.single = h.single
    /\ \A v \in VarId :
        /\ h.born[v] \in Int /\ k.born[v] \in Int /\ h.newest[v] \in Int /\ k.newest[v] \in Int
        /\ h.born[v] <= k.born[v]
        /\ h.single /\ h.born[v] # Never =>
             k.born[v] = h.born[v] /\ h.newest[v] <= k.newest[v]

LEMMA TruthGoesOn ==
    ASSUME NetworkAssumption, NEW h, NEW k, Continues(h, k), NEW v \in VarId,
           NEW x \in Value, NEW q, Truthful(h, v, x, q)
    PROVE  Truthful(k, v, x, q)
<1>1. x.born \in Nat /\ x.n \in Int
  <2>1. x \in [born : 0 .. MaxTime, n : 0 .. MaxUpdates] /\ MaxUpdates \in Nat /\ MaxTime \in Nat
    BY DEF NetworkAssumption, ProducedValue
  <2>. QED  BY <2>1
<1>2. PICK a, b, c, d : a = h.born[v] /\ b = k.born[v] /\ c = h.newest[v] /\ d = k.newest[v]
  OBVIOUS
<1>3. /\ k.updates = h.updates /\ k.single = h.single
      /\ a \in Int /\ b \in Int /\ c \in Int /\ d \in Int /\ a <= b
      /\ h.single /\ a # Never => b = a /\ c <= d
  BY <1>2 DEF Continues
<1>4. /\ x.n <= h.updates /\ q = x.n % SeqnoModulus /\ x.born <= a
      /\ h.single => x.born = a /\ x.n <= c
  BY <1>2 DEF Truthful
<1>5. a # Never /\ x.born <= b
  BY <1>1, <1>3, <1>4 DEF Never
<1>6. h.single => x.born = b /\ x.n <= d
  BY <1>1, <1>3, <1>4, <1>5
<1>. QED  BY <1>2, <1>3, <1>4, <1>5, <1>6 DEF Truthful

LEMMA GenuineGoesOn ==
    ASSUME NetworkAssumption, NEW h, NEW k, Continues(h, k), NEW v \in VarId,
           NEW c, c.value \in Value, c.creationTime \in Nat, Genuine(h, v, c)
    PROVE  Genuine(k, v, c)
<1>1. PICK x \in Value : x = c.value
  OBVIOUS
<1>2. Truthful(k, v, c.value, c.seqno)
  BY <1>1, TruthGoesOn DEF Genuine
<1>3. /\ c.prodId = k.producer[v] /\ c.creationTime <= h.born[v]
      /\ k.single => c.creationTime = h.born[v]
  BY DEF Genuine, Continues
<1>4. /\ h.born[v] \in Int /\ k.born[v] \in Int /\ h.born[v] <= k.born[v]
      /\ k.single /\ h.born[v] # Never => k.born[v] = h.born[v]
  BY DEF Continues
<1>5. h.born[v] # Never /\ c.creationTime <= k.born[v]
  BY <1>3, <1>4 DEF Never
<1>. QED  BY <1>2, <1>3, <1>4, <1>5 DEF Genuine

LEMMA DataGoesOn ==
    ASSUME NetworkAssumption, NEW h, NEW k, Continues(h, k), NEW s, WellTyped(s), GenuineData(h, s)
    PROVE  GenuineData(k, s)
<1> SUFFICES ASSUME NEW v \in s.used  PROVE Genuine(k, v, s.db[v])
  BY DEF GenuineData
<1>1. PICK c : c = s.db[v]
  OBVIOUS
<1>2. v \in VarId /\ c \in Entry
  BY <1>1, Parts
<1>3. c.value \in Value /\ c.creationTime \in Nat
  BY <1>2, EntryFacts
<1>4. Genuine(h, v, c)
  BY <1>1 DEF GenuineData
<1>. QED  BY <1>1, <1>2, <1>3, <1>4, GenuineGoesOn

LEMMA RecordGoesOn ==
    ASSUME NetworkAssumption, NEW h, NEW k, Continues(h, k), NEW type \in ICType,
           NEW r \in Record(type), GenuineRecord(h, type, r)
    PROVE  GenuineRecord(k, type, r)
<1>1. CASE type = "create"
  <2>1. r \in CreateRecord
    BY <1>1 DEF Record
  <2>2. r.varId \in VarId /\ r.value \in Value /\ r.creationTime \in Nat
    BY <2>1 DEF CreateRecord
  <2>3. Genuine(h, r.varId, r)
    BY <1>1 DEF GenuineRecord
  <2>4. Genuine(k, r.varId, r)
    BY <2>2, <2>3, GenuineGoesOn
  <2>. QED  BY <1>1, <2>4 DEF GenuineRecord
<1>2. CASE type = "update"
  <2>1. r \in UpdateRecord
    BY <1>2 DEF Record
  <2>2. r.varId \in VarId /\ r.value \in Value
    BY <2>1 DEF UpdateRecord
  <2>3. Truthful(h, r.varId, r.value, r.seqno)
    BY <1>2 DEF GenuineRecord
  <2>4. Truthful(k, r.varId, r.value, r.seqno)
    BY <2>2, <2>3, TruthGoesOn
  <2>. QED  BY <1>2, <2>4 DEF GenuineRecord
<1>. QED  BY <1>1, <1>2 DEF GenuineRecord

LEMMA PayloadGoesOn ==
    ASSUME NetworkAssumption, NEW h, NEW k, Continues(h, k), NEW p \in Seq(Written),
           GenuinePayload(h, p)
    PROVE  GenuinePayload(k, p)
<1> SUFFICES ASSUME NEW i \in 1 .. Len(p), NEW j \in 1 .. Len(p[i].recs)
             PROVE  GenuineRecord(k, p[i].type, p[i].recs[j])
  BY DEF GenuinePayload
<1>1. PICK c \in Written : c = p[i]
  OBVIOUS
<1>2. PICK type \in ICType : type = c.type /\ c.recs \in Seq(Record(type))
  BY DEF Written
<1>3. PICK r \in Record(type) : r = c.recs[j]
  BY <1>1, <1>2
<1>4. GenuineRecord(h, type, r)
  BY <1>1, <1>2, <1>3 DEF GenuinePayload
<1>5. GenuineRecord(k, type, r)
  BY <1>4, RecordGoesOn
<1>. QED  BY <1>1, <1>2, <1>3, <1>5

\* A payload that is made from genuine data is genuine.
LEMMA MadeFromData ==
    ASSUME NEW h, NEW s, WellTyped(s), GenuineData(h, s), NEW p \in Seq(Written), FromData(s, p)
    PROVE  GenuinePayload(h, p)
<1> SUFFICES ASSUME NEW i \in 1 .. Len(p), NEW j \in 1 .. Len(p[i].recs)
             PROVE  GenuineRecord(h, p[i].type, p[i].recs[j])
  BY DEF GenuinePayload
<1>1. PICK type, r : type = p[i].type /\ r = p[i].recs[j]
  OBVIOUS
<1>2. PICK w : w \in VarId /\ r = RecordFor(s, type, w) /\ (type \in Counted => w \in s.used)
  BY <1>1 DEF FromData, FromRecords
<1>3. PICK e : e = s.db[w]
  OBVIOUS
<1>4. CASE type = "create"
  <2>1. Genuine(h, w, e)
    BY <1>2, <1>3, <1>4 DEF GenuineData, Counted
  <2>2. /\ r.varId = w /\ r.prodId = e.prodId /\ r.creationTime = e.creationTime
        /\ r.seqno = e.seqno /\ r.value = e.value
    BY <1>2, <1>3, <1>4 DEF RecordFor
  <2>3. Genuine(h, r.varId, r)
    BY <2>1, <2>2, SameGenuine
  <2>. QED  BY <1>1, <1>4, <2>3 DEF GenuineRecord
<1>5. CASE type = "update"
  <2>1. Genuine(h, w, e)
    BY <1>2, <1>3, <1>5 DEF GenuineData, Counted
  <2>2. r.varId = w /\ r.seqno = e.seqno /\ r.value = e.value
    BY <1>2, <1>3, <1>5 DEF RecordFor
  <2>3. Truthful(h, r.varId, r.value, r.seqno)
    BY <2>1, <2>2 DEF Genuine
  <2>. QED  BY <1>1, <1>5, <2>3 DEF GenuineRecord
<1>. QED  BY <1>1, <1>4, <1>5 DEF GenuineRecord

\* The history of the present state.
LEMMA HistoryIs ==
    ASSUME NetTypes, NetworkAssumption, NEW v \in VarId
    PROVE  /\ History.producer = scenario.producer /\ History.updates = scenario.updates
           /\ History.updates \in Nat /\ History.single = SingleLife(scenario)
           /\ History.born = born /\ born[v] \in Int
           /\ History.newest[v] = NewestIn(pd[Producer(v)], v, scenario.updates)
           /\ History.newest[v] \in Nat
<1>1. PICK s : s = pd[Producer(v)] /\ WellTyped(s)
  BY ScenarioFacts DEF NetTypes
<1>2. s.db[v].value.n \in Nat /\ scenario.updates \in Nat
  BY <1>1, Parts, EntryFacts, ScenarioFacts
<1>3. NewestIn(s, v, scenario.updates) \in Nat
  BY <1>2 DEF NewestIn
<1>4. born[v] \in Int
  BY ScenarioFacts DEF NetTypes, Never
<1>. QED  BY <1>1, <1>2, <1>3, <1>4 DEF History, Producer

(***************************************************************************)
(* The invariants hold at first and are kept by every action.              *)
(***************************************************************************)
LEMMA NothingOK ==
    ASSUME NetworkAssumption, ProtocolDataAssumption
    PROVE  /\ WellTyped(NoProtocolData) /\ Consistent(NoProtocolData)
           /\ NoProtocolData.used = {}
<1>1. PICK s : s = NoProtocolData
  OBVIOUS
<1>2. AreQueues(s.q) /\ \A k \in ICType : Members(s.q[k]) = {}
  <2>1. s.q = [k \in ICType |-> <<>>]
    BY <1>1 DEF NoProtocolData
  <2>2. \A S : IsVarIdQueue(<<>>, S) /\ Members(<<>>) = {} /\ <<>> \in Seq(S)
    BY EmptyQueue DEF IsVarIdQueue
  <2>3. \A k \in ICType : /\ IsVarIdQueue(s.q[k], VarId)
                          /\ Members(s.q[k]) = {} /\ s.q[k] \in Seq(VarId)
    BY <2>1, <2>2
  <2>4. s.q \in [ICType -> Seq(VarId)]
    BY <2>1, <2>3
  <2>. QED  BY <2>3, <2>4 DEF AreQueues
<1>3. s.used = {} /\ s.active = {} /\ s.db = [v \in VarId |-> InitialEntry]
  BY <1>1 DEF NoProtocolData
<1>4. WellTyped(s)
  <2>1. s.db \in [VarId -> Entry]
    BY <1>3 DEF NetworkAssumption
  <2>2. WellTyped([used |-> s.used, db |-> s.db, active |-> s.active, q |-> s.q])
    BY <1>2, <1>3, <2>1, Whole
  <2>3. s = [used |-> s.used, db |-> s.db, active |-> s.active, q |-> s.q]
    BY <1>1 DEF NoProtocolData
  <2>. QED  BY <2>2, <2>3
<1>5. Consistent(s)
  BY <1>2, <1>3 DEF Consistent, CountersMatchQueues, DeletedOnlyInDeleteQ,
               QueuesHoldTheRightVariables, ActiveAreUsed, Counted, ICType
<1>. QED  BY <1>1, <1>3, <1>4, <1>5

LEMMA InitOK ==
    ASSUME Init, NetworkAssumption, ProtocolDataAssumption
    PROVE  NetInv /\ TruthInv
<1>1. scenario \in Scenario /\ scenario \in Scenarios /\ MaxTime \in Nat
  BY DEF Init, NetworkAssumption
<1>2. scenario.time \in Nat
  BY <1>1 DEF Scenario
<1>3. \A n \in NodeId : pd[n] = NoProtocolData /\ queue[n] = <<>>
                        /\ payloadSent[n] = FALSE /\ sendPayload[n] = FALSE
  BY DEF Init
<1>4. \A n \in NodeId : WellTyped(pd[n]) /\ Consistent(pd[n]) /\ pd[n].used = {}
  BY <1>3, NothingOK
<1>5. pd \in [NodeId -> ProtocolData]
  BY NothingOK DEF Init, WellTyped
<1>6. queue \in [NodeId -> Seq(Seq(Written))]
  <2>1. <<>> \in Seq(Seq(Written))
    OBVIOUS
  <2>. QED  BY <2>1 DEF Init
<1>7. \A n \in NodeId : Len(queue[n]) = 0
  BY <1>3
<1>8. NetTypes
  <2>1. generating \in [VarId -> BOOLEAN] /\ born \in [VarId -> 0 .. MaxTime \cup {Never}]
    BY DEF Init
  <2>2. payloadSent \in [NodeId -> BOOLEAN] /\ sendPayload \in [NodeId -> BOOLEAN]
    BY DEF Init
  <2>3. losses \in Nat /\ crashes \subseteq NodeId /\ now \in 0 .. scenario.time
    BY <1>2 DEF Init
  <2>. QED  BY <1>1, <1>4, <1>5, <1>6, <1>7, <2>1, <2>2, <2>3 DEF NetTypes
<1>9. Handshake
  BY <1>3, <1>7 DEF Handshake
<1>10. TruthInv
  <2>1. Lives
    BY DEF Lives, Init, Never
  <2>. QED  BY <1>4, <1>7, <2>1 DEF TruthInv, GenuineData
<1>. QED  BY <1>8, <1>9, <1>10 DEF NetInv

\* The data of the nodes after a step that changes those of n to t.
LEMMA OneNodeChanges ==
    ASSUME NetTypes, NEW n \in NodeId, NEW t, WellTyped(t), Consistent(t),
           pd' = [pd EXCEPT ![n] = t]
    PROVE  /\ pd' \in [NodeId -> ProtocolData]
           /\ \A m \in NodeId : /\ WellTyped(pd'[m]) /\ Consistent(pd'[m])
                                /\ pd'[m] = IF m = n THEN t ELSE pd[m]
<1>1. t \in ProtocolData /\ pd \in [NodeId -> ProtocolData]
  BY DEF NetTypes, WellTyped
<1>2. \A m \in NodeId : pd'[m] = IF m = n THEN t ELSE pd[m]
  BY <1>1
<1>3. pd' \in [NodeId -> ProtocolData]
  BY <1>1
<1>. QED  BY <1>2, <1>3 DEF NetTypes

\* The payloads that are on their way stay genuine, and so does what a node keeps.
LEMMA KeepsTruth ==
    ASSUME NetTypes, TruthInv, NetworkAssumption, Continues(History, History'),
           \A n \in NodeId : \A i \in 1 .. Len(queue'[n]) :
               \/ \E j \in 1 .. Len(queue[n]) : queue'[n][i] = queue[n][j]
               \/ GenuinePayload(History', queue'[n][i]),
           \A m \in NodeId : pd'[m] = pd[m] \/ GenuineData(History', pd'[m]),
           Lives'
    PROVE  TruthInv'
<1>1. ASSUME NEW m \in NodeId
      PROVE  GenuineData(History', pd'[m])
  <2>1. CASE pd'[m] = pd[m]
    <3>1. PICK s, h, k : s = pd[m] /\ h = History /\ k = History'
      OBVIOUS
    <3>2. WellTyped(s) /\ GenuineData(h, s) /\ Continues(h, k)
      BY <3>1 DEF NetTypes, TruthInv
    <3>3. GenuineData(k, s)
      BY <3>2, DataGoesOn
    <3>. QED  BY <2>1, <3>1, <3>3
  <2>. QED  BY <2>1
<1>2. ASSUME NEW n \in NodeId, NEW i \in 1 .. Len(queue'[n])
      PROVE  GenuinePayload(History', queue'[n][i])
  <2>1. CASE \E j \in 1 .. Len(queue[n]) : queue'[n][i] = queue[n][j]
    <3>1. PICK j \in 1 .. Len(queue[n]) : queue'[n][i] = queue[n][j]
      BY <2>1
    <3>2. PICK p, h, k : p = queue[n][j] /\ h = History /\ k = History'
      OBVIOUS
    <3>3. p \in Seq(Written)
      BY <3>2 DEF NetTypes
    <3>4. GenuinePayload(h, p) /\ Continues(h, k)
      BY <3>2 DEF TruthInv
    <3>5. GenuinePayload(k, p)
      BY <3>3, <3>4, PayloadGoesOn
    <3>. QED  BY <3>1, <3>2, <3>5
  <2>. QED  BY <2>1
<1>. QED  BY <1>1, <1>2 DEF TruthInv

\* The history of the next state.
LEMMA HistoryThen ==
    ASSUME scenario' = scenario, NEW v \in VarId
    PROVE  /\ History'.producer = scenario.producer /\ History'.updates = scenario.updates
           /\ History'.single = SingleLife(scenario) /\ History'.born = born'
           /\ History'.newest[v] = NewestIn(pd'[Producer(v)], v, scenario.updates)
<1>1. History' = [producer |-> scenario.producer, updates |-> scenario.updates,
                  single |-> SingleLife(scenario), born |-> born',
                  newest |-> [w \in VarId |->
                                NewestIn(pd'[scenario.producer[w]], w, scenario.updates)]]
  BY Zenon DEF History
<1>. QED  BY <1>1 DEF Producer

\* A history goes on, variable by variable.
LEMMA HistoryContinues ==
    ASSUME NetTypes, NetworkAssumption, scenario' = scenario,
           \A v \in VarId :
               /\ pd'[Producer(v)].db[v] \in Entry
               /\ born'[v] \in Int /\ born[v] <= born'[v]
               /\ SingleLife(scenario) /\ born[v] # Never =>
                    /\ born'[v] = born[v]
                    /\ NewestIn(pd[Producer(v)], v, scenario.updates)
                       <= NewestIn(pd'[Producer(v)], v, scenario.updates)
    PROVE  Continues(History, History')
<1>1. PICK h, k : h = History /\ k = History'
  OBVIOUS
<1>2. /\ h.producer = scenario.producer /\ h.updates = scenario.updates
      /\ h.single = SingleLife(scenario) /\ h.born = born
  BY <1>1 DEF History
<1>3. /\ k.producer = scenario.producer /\ k.updates = scenario.updates
      /\ k.single = SingleLife(scenario) /\ k.born = born'
  <2>1. k = [producer |-> scenario.producer, updates |-> scenario.updates,
             single |-> SingleLife(scenario), born |-> born',
             newest |-> [w \in VarId |->
                           NewestIn(pd'[scenario.producer[w]], w, scenario.updates)]]
    BY <1>1, Zenon DEF History
  <2>. QED  BY <2>1
<1>4. ASSUME NEW v \in VarId
      PROVE  /\ h.born[v] \in Int /\ k.born[v] \in Int
             /\ h.newest[v] \in Int /\ k.newest[v] \in Int
             /\ h.born[v] <= k.born[v]
             /\ h.single /\ h.born[v] # Never =>
                  k.born[v] = h.born[v] /\ h.newest[v] <= k.newest[v]
  <2>1. PICK old, new : /\ old = NewestIn(pd[Producer(v)], v, scenario.updates)
                        /\ new = NewestIn(pd'[Producer(v)], v, scenario.updates)
    OBVIOUS
  <2>2. h.newest[v] = old /\ old \in Nat /\ born[v] \in Int
    BY <1>1, <2>1, HistoryIs
  <2>3. k.newest[v] = new
    BY <1>1, <2>1, HistoryThen
  <2>4. new \in Nat
    <3>1. PICK s : s = pd'[Producer(v)] /\ s.db[v] \in Entry
      OBVIOUS
    <3>2. s.db[v].value.n \in Nat /\ scenario.updates \in Nat
      BY <3>1, EntryFacts, ScenarioFacts
    <3>. QED  BY <2>1, <3>1, <3>2 DEF NewestIn
  <2>. QED  BY <1>2, <1>3, <2>1, <2>2, <2>3, <2>4
<1>5. Continues(h, k)
  BY <1>2, <1>3, <1>4 DEF Continues
<1>. QED  BY <1>1, <1>5

\* A request of the producer of v, whose protocol data become t.
LEMMA RequestTypes ==
    ASSUME NetInv, NetworkAssumption, NEW n \in NodeId, NEW t, WellTyped(t), Consistent(t),
           pd' = [pd EXCEPT ![n] = t],
           UNCHANGED <<payloadSent, sendPayload, queue, losses, crashes, now, scenario>>,
           generating' \in [VarId -> BOOLEAN], born' \in [VarId -> 0 .. MaxTime \cup {Never}]
    PROVE  NetInv'
<1>1. NetTypes /\ Handshake
  BY DEF NetInv
<1>2. /\ pd' \in [NodeId -> ProtocolData]
      /\ \A m \in NodeId : WellTyped(pd'[m]) /\ Consistent(pd'[m])
  BY <1>1, OneNodeChanges
<1>3. NetTypes'
  BY <1>1, <1>2 DEF NetTypes
<1>4. Handshake'
  BY <1>1 DEF Handshake
<1>. QED  BY <1>3, <1>4 DEF NetInv

LEMMA RequestTruth ==
    ASSUME NetInv, TruthInv, NetworkAssumption, NEW v \in VarId, NEW t, WellTyped(t), Consistent(t),
           pd' = [pd EXCEPT ![Producer(v)] = t],
           UNCHANGED <<queue, scenario>>, Lives',
           OnlyTouches(pd[Producer(v)], t, v), v \in t.used => Genuine(History', v, t.db[v]),
           \A w \in VarId : born'[w] \in Int,
           born[v] <= born'[v], \A w \in VarId : w # v => born'[w] = born[w],
           SingleLife(scenario) /\ born[v] # Never =>
               /\ born'[v] = born[v]
               /\ NewestIn(pd[Producer(v)], v, scenario.updates) <= NewestIn(t, v, scenario.updates)
    PROVE  TruthInv'
<1>1. PICK n \in NodeId : n = Producer(v)
  BY ScenarioFacts DEF NetInv
<1>2. PICK s : s = pd[n] /\ WellTyped(s)
  BY DEF NetInv, NetTypes
<1>3. NetTypes
  BY DEF NetInv
<1>4. \A m \in NodeId : WellTyped(pd'[m]) /\ pd'[m] = IF m = n THEN t ELSE pd[m]
  BY <1>1, <1>3, OneNodeChanges
<1>5. OnlyTouches(s, t, v)
  BY <1>1, <1>2
<1>6. Continues(History, History')
  <2>1. ASSUME NEW w \in VarId
        PROVE  /\ pd'[Producer(w)].db[w] \in Entry
               /\ born'[w] \in Int /\ born[w] <= born'[w]
               /\ SingleLife(scenario) /\ born[w] # Never =>
                    /\ born'[w] = born[w]
                    /\ NewestIn(pd[Producer(w)], w, scenario.updates)
                       <= NewestIn(pd'[Producer(w)], w, scenario.updates)
    <3>1. PICK m \in NodeId : m = Producer(w)
      BY <1>3, ScenarioFacts
    <3>2. pd'[m].db[w] \in Entry
      BY <1>4, Parts
    <3>3. PICK all : all = scenario.updates
      OBVIOUS
    <3>4. PICK old, new : old = NewestIn(pd[m], w, all) /\ new = NewestIn(pd'[m], w, all)
      OBVIOUS
    <3>5. old \in Nat /\ born[w] \in Int
      BY <1>3, <3>1, <3>3, <3>4, HistoryIs
    <3>6. CASE w = v
      <4>1. m = n /\ pd'[m] = t /\ pd[m] = s
        BY <1>1, <1>2, <1>4, <3>1, <3>6
      <4>2. SingleLife(scenario) /\ born[w] # Never => born'[w] = born[w] /\ old <= new
        BY <1>1, <1>2, <3>3, <3>4, <3>6, <4>1
      <4>. QED  BY <3>1, <3>2, <3>3, <3>4, <3>6, <4>2
    <3>7. CASE w # v
      <4>1. born'[w] = born[w]
        BY <3>7
      <4>2. new = old
        <5>1. CASE m = n
          <6>1. Same(s, t, w)
            BY <1>5, <3>7 DEF OnlyTouches
          <6>2. t.db[w].value = s.db[w].value
            BY <1>2, <6>1, SameFields
          <6>3. w \in t.used <=> w \in s.used
            BY <6>1 DEF Same
          <6>. QED  BY <1>2, <1>4, <3>4, <5>1, <6>2, <6>3 DEF NewestIn
        <5>2. CASE m # n
          BY <1>4, <3>4, <5>2
        <5>. QED  BY <5>1, <5>2
      <4>. QED  BY <3>1, <3>2, <3>3, <3>4, <3>5, <4>1, <4>2
    <3>. QED  BY <3>6, <3>7
  <2>. QED  BY <1>3, <2>1, HistoryContinues
<1>7. GenuineData(History', t)
  <2>1. PICK h, k : h = History /\ k = History'
    OBVIOUS
  <2>2. GenuineData(h, s) /\ Continues(h, k)
    BY <1>2, <1>6, <2>1 DEF TruthInv
  <2>3. GenuineData(k, s)
    BY <1>2, <2>2, DataGoesOn
  <2>4. ASSUME NEW w \in t.used
        PROVE  Genuine(k, w, t.db[w])
    <3>1. w \in VarId
      BY Parts
    <3>2. CASE w = v
      BY <2>1, <3>2
    <3>3. CASE w # v
      <4>1. Same(s, t, w)
        BY <1>5, <3>1, <3>3 DEF OnlyTouches
      <4>. QED  BY <1>2, <2>3, <3>1, <4>1, SameStaysGenuine
    <3>. QED  BY <3>2, <3>3
  <2>. QED  BY <2>1, <2>4 DEF GenuineData
<1>8. \A m \in NodeId : pd'[m] = pd[m] \/ GenuineData(History', pd'[m])
  BY <1>4, <1>7
<1>9. \A m \in NodeId : \A i \in 1 .. Len(queue'[m]) :
         \/ \E j \in 1 .. Len(queue[m]) : queue'[m][i] = queue[m][j]
         \/ GenuinePayload(History', queue'[m][i])
  OBVIOUS
<1>. QED  BY <1>3, <1>6, <1>8, <1>9, KeepsTruth

\* Nothing but v may step back.
LEMMA RequestForward ==
    ASSUME NetTypes, NEW n \in NodeId, NEW s, s = pd[n], NEW t, pd' = [pd EXCEPT ![n] = t],
           NEW v \in VarId, OnlyTouches(s, t, v), NotBehind(s, t, v)
    PROVE  \A m \in NodeId : \A w \in VarId : NotBehind(pd[m], pd'[m], w)
<1> SUFFICES ASSUME NEW m \in NodeId, NEW w \in VarId
             PROVE  NotBehind(pd[m], pd'[m], w)
  OBVIOUS
<1>1. PICK a, b : a = pd[m] /\ b = pd'[m]
  OBVIOUS
<1>2. b = IF m = n THEN t ELSE a
  BY <1>1 DEF NetTypes
<1>3. WellTyped(a)
  BY <1>1 DEF NetTypes
<1>4. CASE m = n /\ w = v
  BY <1>1, <1>2, <1>4
<1>5. CASE m = n /\ w # v
  <2>1. Same(a, b, w)
    BY <1>1, <1>2, <1>5 DEF OnlyTouches
  <2>2. NotBehind(a, b, w)
    BY <1>3, <2>1, SameNotBehind, NetworkAssumption
  <2>. QED  BY <1>1, <2>2
<1>6. CASE m # n
  <2>1. b = a
    BY <1>2, <1>6
  <2>2. Same(a, a, w)
    BY <1>3, SameEntry DEF Same
  <2>3. NotBehind(a, a, w)
    BY <1>3, <2>2, SameNotBehind, NetworkAssumption
  <2>. QED  BY <1>1, <2>1, <2>3
<1>. QED  BY <1>4, <1>5, <1>6

LEMMA CreateKeeps ==
    ASSUME NetInv, TruthInv, NetworkAssumption, ProtocolDataAssumption, SeqnoAssumption,
           NEW v \in Var, HandleCreateMsg(v)
    PROVE  /\ NetInv' /\ TruthInv'
           /\ \A m \in NodeId : \A w \in VarId : NotBehind(pd[m], pd'[m], w)
<1>1. NetTypes
  BY DEF NetInv
<1>2. v \in VarId /\ Producer(v) \in NodeId
  BY <1>1, ScenarioFacts
<1>3. PICK n \in NodeId : n = Producer(v)
  BY <1>2
<1>4. PICK s : s = pd[n] /\ WellTyped(s) /\ Consistent(s)
  BY <1>1 DEF NetTypes
<1>5. PICK x : x = [born |-> now, n |-> 0]
  OBVIOUS
<1>6. PICK r : r = [varId |-> v, repCnt |-> scenario.repCnt, timeout |-> 0, descr |-> 1, value |-> x]
  OBVIOUS
<1>7. /\ ~ generating[v] /\ born[v] < now
      /\ RtdbCreateStatus(s, r, n, TRUE) = "OK"
      /\ pd' = [pd EXCEPT ![n] = handle_rtdb_create_request(pd[n], r, n, now)]
      /\ generating' = [generating EXCEPT ![v] = TRUE] /\ born' = [born EXCEPT ![v] = now]
      /\ UNCHANGED <<payloadSent, sendPayload, queue, losses, crashes, now, scenario>>
  BY <1>3, <1>4, <1>5, <1>6
     DEF HandleCreateMsg, handleRTDBCreateRequest, handleRTDBCreateConfirm
<1>8. PICK t : t = handle_rtdb_create_request(s, r, n, now)
  OBVIOUS
<1>9. pd' = [pd EXCEPT ![n] = t]
  BY <1>4, <1>7, <1>8
<1>10. now \in 0 .. MaxTime /\ now \in Nat /\ MaxTime \in Nat /\ MaxUpdates \in Nat
  BY <1>1, ScenarioFacts
<1>11. x \in Value /\ x.born = now /\ x.n = 0
  BY <1>5, <1>10 DEF NetworkAssumption, ProducedValue
<1>12. r \in CreateRequest /\ r.varId = v /\ r.value = x /\ ~ RtdbCreateThrows(r)
  <2>1. scenario.repCnt \in Nat
    BY <1>1, ScenarioFacts DEF RepCnt
  <2>. QED  BY <1>2, <1>6, <1>11, <2>1 DEF CreateRequest, RtdbCreateThrows
<1>13. LegalRepCnt(r.repCnt)
  BY <1>7 DEF RtdbCreateStatus
<1>14. WellTyped(t) /\ Consistent(t)
  BY <1>4, <1>8, <1>10, <1>12, <1>13, RtdbCreateOK
<1>15. FromInside(s, t, v, n, now) /\ Made(s, t, v, n, now) /\ t.db[v].value = x
  <2>1. PICK active, clock : active = TRUE /\ clock = now
    OBVIOUS
  <2>2. r \in CreateRequest /\ WellTyped(s) /\ RtdbCreateStatus(s, r, n, active) = "OK"
    BY <1>4, <1>7, <1>12, <2>1
  <2>3. LET u == handle_rtdb_create_request(s, r, n, clock)
        IN  /\ FromInside(s, u, r.varId, n, clock) /\ Made(s, u, r.varId, n, clock)
            /\ ~ RtdbCreateThrows(r) => u.db[r.varId].value = r.value
    BY <2>2, RtdbCreateMakes
  <2>. QED  BY <1>8, <1>12, <2>1, <2>3
<1>16. generating' \in [VarId -> BOOLEAN] /\ born' \in [VarId -> 0 .. MaxTime \cup {Never}]
       /\ born'[v] = now /\ \A w \in VarId : w # v => born'[w] = born[w]
  BY <1>1, <1>2, <1>7, <1>10 DEF NetTypes
<1>17. NetInv'
  BY <1>7, <1>9, <1>14, <1>16, RequestTypes
<1>18. \A w \in VarId : born'[w] \in Int /\ born[w] \in Int
  BY <1>1, <1>10, <1>16 DEF NetTypes, Never
<1>19. SingleLife(scenario) => born[v] = Never
  <2>1. born[v] # Never => (SingleLife(scenario) => scenario.time = 0 \/ generating[v])
    BY <1>2 DEF TruthInv, Lives
  <2>2. ASSUME scenario.time = 0, born[v] # Never
        PROVE  FALSE
    <3>1. now = 0
      BY <1>1, <2>2 DEF NetTypes
    <3>2. born[v] \in 0 .. MaxTime
      BY <1>1, <1>2, <2>2 DEF NetTypes
    <3>. QED  BY <1>7, <1>10, <3>1, <3>2
  <2>. QED  BY <1>7, <2>1, <2>2
<1>20. Lives'
  <2>1. Var' = Var /\ now' = now /\ scenario' = scenario
    BY <1>7 DEF Var
  <2>2. ASSUME NEW w \in VarId
        PROVE  /\ born'[w] <= now
               /\ born'[w] # Never =>
                    w \in Var /\ (SingleLife(scenario) => scenario.time = 0 \/ generating'[w])
    <3>1. CASE w = v
      BY <1>1, <1>2, <1>7, <1>10, <1>16, <3>1 DEF NetTypes
    <3>2. CASE w # v
      <4>1. born'[w] = born[w] /\ generating'[w] = generating[w]
        BY <1>1, <1>7, <1>16, <3>2 DEF NetTypes
      <4>. QED  BY <4>1 DEF TruthInv, Lives
    <3>. QED  BY <3>1, <3>2
  <2>. QED  BY <2>1, <2>2 DEF Lives
<1>21. Genuine(History', v, t.db[v])
  <2>1. PICK e : e = t.db[v]
    OBVIOUS
  <2>2. v \in t.used /\ e.prodId = n /\ e.creationTime = now /\ e.seqno = 0 /\ e.value = x
    BY <1>15, <2>1 DEF Made
  <2>3. /\ History'.producer = scenario.producer /\ History'.updates = scenario.updates
        /\ History'.single = SingleLife(scenario) /\ History'.born = born'
        /\ History'.newest[v] = NewestIn(pd'[n], v, scenario.updates)
    BY <1>2, <1>3, <1>7, HistoryThen
  <2>4. pd'[n] = t
    BY <1>1, <1>9 DEF NetTypes
  <2>5. NewestIn(t, v, scenario.updates) = 0
    BY <1>11, <2>1, <2>2 DEF NewestIn
  <2>6. 0 % SeqnoModulus = 0 /\ 0 <= scenario.updates
    BY <1>1, ScenarioFacts DEF SeqnoAssumption
  <2>7. Truthful(History', v, x, 0)
    BY <1>10, <1>11, <1>16, <2>3, <2>4, <2>5, <2>6 DEF Truthful
  <2>8. Genuine(History', v, e)
    BY <1>3, <1>10, <1>16, <2>2, <2>3, <2>7 DEF Genuine, Producer
  <2>. QED  BY <2>1, <2>8
<1>22. born[v] <= born'[v]
  BY <1>2, <1>7, <1>10, <1>16, <1>18
<1>23. OnlyTouches(pd[Producer(v)], t, v) /\ pd' = [pd EXCEPT ![Producer(v)] = t]
  BY <1>3, <1>4, <1>9, <1>15 DEF FromInside
<1>24. UNCHANGED <<queue, scenario>>
  BY <1>7
<1>25. TruthInv'
  BY <1>2, <1>14, <1>16, <1>18, <1>19, <1>20, <1>21, <1>22, <1>23, <1>24, RequestTruth
<1>26. NotBehind(s, t, v)
  <2>1. PICK e : e = s.db[v] /\ e.creationTime \in Nat
    BY <1>2, <1>4, Parts, EntryFacts
  <2>2. v \in s.used => e.creationTime <= born[v]
    <3>1. PICK h : h = History
      OBVIOUS
    <3>2. h.born = born /\ GenuineData(h, s)
      BY <1>4, <3>1 DEF History, TruthInv
    <3>. QED  BY <2>1, <3>2 DEF GenuineData, Genuine
  <2>3. v \in t.used /\ t.db[v].creationTime = now
    BY <1>15 DEF Made
  <2>4. PICK c : c = born[v] /\ c \in Int /\ c < now
    BY <1>2, <1>7, <1>18
  <2>5. v \in s.used => now > e.creationTime
    BY <1>10, <2>1, <2>2, <2>4
  <2>. QED  BY <2>1, <2>3, <2>5 DEF NotBehind
<1>27. \A m \in NodeId : \A w \in VarId : NotBehind(pd[m], pd'[m], w)
  BY <1>1, <1>2, <1>4, <1>9, <1>15, <1>26, RequestForward DEF FromInside
<1>. QED  BY <1>17, <1>25, <1>27

\* The next sequence number is that of the next value.
LEMMA NextIsNext ==
    ASSUME SeqnoAssumption, NEW n \in Nat
    PROVE  NextSeqno(n % SeqnoModulus) = (n + 1) % SeqnoModulus
<1>1. PICK m : m = SeqnoModulus /\ m \in Nat /\ m > 1
  BY DEF SeqnoAssumption
<1>2. PICK a, b : a = n % m /\ b = n \div m
  OBVIOUS
<1>3. a \in 0 .. m - 1 /\ b \in Int /\ n = b * m + a
  BY <1>1, <1>2
<1>4. CASE a + 1 < m
  <2>1. (a + 1) % m = a + 1
    BY <1>1, <1>3, <1>4
  <2>2. n + 1 = b * m + (a + 1)
    BY <1>1, <1>3
  <2>3. (n + 1) % m = a + 1
    BY <1>1, <1>3, <1>4, <2>2, SMTT(30)
  <2>. QED  BY <1>1, <1>2, <2>1, <2>3 DEF NextSeqno
<1>5. CASE a + 1 = m
  <2>1. (a + 1) % m = 0
    BY <1>1, <1>3, <1>5
  <2>2. n + 1 = (b + 1) * m
    BY <1>1, <1>3, <1>5
  <2>3. (n + 1) % m = 0
    BY <1>1, <1>3, <2>2, SMTT(30)
  <2>. QED  BY <1>1, <1>2, <2>1, <2>3 DEF NextSeqno
<1>. QED  BY <1>1, <1>3, <1>4, <1>5

\* An update that the protocol data of node n take counts up the sequence number.
Accepted(s, v, x, n) == RtdbUpdateStatus(s, v, x, n, TRUE) = "OK"

LEMMA NewValueTaken ==
    ASSUME NEW s, WellTyped(s), NEW v \in VarId, NEW x, NEW n, NEW clock, Accepted(s, v, x, n)
    PROVE  LET t == handle_rtdb_update_request(s, v, x, clock)
           IN  FromInside(s, t, v, n, clock) /\ CountedUp(s, t, v) /\ t.db[v].value = x
<1>1. PICK active : active = TRUE
  OBVIOUS
<1>2. RtdbUpdateStatus(s, v, x, n, active) = "OK"
  BY <1>1 DEF Accepted
<1>3. LET u == handle_rtdb_update_request(s, v, x, clock)
      IN  /\ FromInside(s, u, v, n, clock) /\ CountedUp(s, u, v)
          /\ u.db[v].value = x
  BY <1>2, RtdbUpdateCounts
<1>. QED  BY <1>3

LEMMA UpdateKeeps ==
    ASSUME NetInv, TruthInv, NEW v \in Var, HandleUpdateMsg(v)
    PROVE  /\ NetInv' /\ TruthInv'
           /\ \A m \in NodeId : \A w \in VarId : NotBehind(pd[m], pd'[m], w)
<1>1. NetTypes
  BY DEF NetInv
<1>2. v \in VarId /\ Producer(v) \in NodeId
  BY <1>1, ScenarioFacts, NetworkAssumption
<1>3. PICK n \in NodeId : n = Producer(v)
  BY <1>2
<1>4. PICK s : s = pd[n] /\ WellTyped(s) /\ Consistent(s)
  BY <1>1 DEF NetTypes
<1>5. PICK e : e = s.db[v]
  OBVIOUS
<1>6. PICK x : x = [e.value EXCEPT !.n = @ + 1]
  OBVIOUS
<1>7. /\ e.value.n < scenario.updates
      /\ RtdbUpdateStatus(s, v, x, n, TRUE) = "OK"
      /\ pd' = [pd EXCEPT ![n] = handle_rtdb_update_request(pd[n], v, x, now)]
      /\ UNCHANGED <<payloadSent, sendPayload, queue, generating, born, losses, crashes, now, scenario>>
  BY <1>3, <1>4, <1>5, <1>6 DEF HandleUpdateMsg, handleRTDBUpdateRequest
<1>8. PICK t : t = handle_rtdb_update_request(s, v, x, now)
  OBVIOUS
<1>9. pd' = [pd EXCEPT ![n] = t]
  BY <1>4, <1>7, <1>8
<1>10. now \in Nat /\ scenario.updates \in Nat /\ scenario.updates <= MaxUpdates /\ MaxUpdates \in Nat
  BY <1>1, ScenarioFacts, NetworkAssumption
<1>11. e \in Entry /\ e.value.n \in Nat
  BY <1>2, <1>4, <1>5, Parts, EntryFacts, NetworkAssumption
<1>12. x \in Value /\ x.n = e.value.n + 1 /\ x.born = e.value.born
  <2>1. PICK y : y = e.value /\ y \in [born : 0 .. MaxTime, n : 0 .. MaxUpdates]
    BY <1>11, NetworkAssumption DEF Entry, ProducedValue
  <2>2. x = [y EXCEPT !.n = y.n + 1] /\ y.n + 1 \in 0 .. MaxUpdates
    BY <1>6, <1>7, <1>10, <1>11, <2>1
  <2>3. x \in [born : 0 .. MaxTime, n : 0 .. MaxUpdates]
    BY <2>1, <2>2
  <2>. QED  BY <2>1, <2>2, <2>3, NetworkAssumption DEF ProducedValue
<1>13. v \in s.used /\ ~ s.db[v].isDeleted
  BY <1>7 DEF RtdbUpdateStatus, RtdbModifyStatus, variableExists
<1>14. WellTyped(t) /\ Consistent(t)
  BY <1>2, <1>4, <1>8, <1>10, <1>12, <1>13, RtdbUpdateOK, ProtocolDataAssumption, SeqnoAssumption
<1>15. FromInside(s, t, v, n, now) /\ CountedUp(s, t, v) /\ t.db[v].value = x
  <2>1. WellTyped(s) /\ v \in VarId /\ Accepted(s, v, x, n)
    BY <1>2, <1>4, <1>7 DEF Accepted
  <2>2. LET u == handle_rtdb_update_request(s, v, x, now)
        IN  FromInside(s, u, v, n, now) /\ CountedUp(s, u, v) /\ u.db[v].value = x
    BY <2>1, NewValueTaken
  <2>. QED  BY <1>8, <2>2
<1>16. /\ generating' \in [VarId -> BOOLEAN] /\ born' \in [VarId -> 0 .. MaxTime \cup {Never}]
       /\ generating' = generating /\ born' = born /\ scenario' = scenario /\ now' = now
  BY <1>1, <1>7 DEF NetTypes
<1>17. NetInv'
  BY <1>7, <1>9, <1>14, <1>16, RequestTypes, NetworkAssumption
<1>18. \A w \in VarId : born'[w] \in Int /\ born'[w] = born[w] /\ born[w] <= born'[w]
  BY <1>1, <1>10, <1>16, ScenarioFacts, NetworkAssumption DEF NetTypes, Never
<1>19. Lives'
  BY <1>16 DEF TruthInv, Lives, Var
<1>20. Genuine(History, v, e)
  BY <1>4, <1>5, <1>13 DEF TruthInv, GenuineData
<1>21. PICK all : all = scenario.updates
  OBVIOUS
<1>22. PICK f : f = t.db[v]
  OBVIOUS
<1>23. /\ v \in t.used /\ f.prodId = e.prodId /\ f.creationTime = e.creationTime
       /\ f.seqno = NextSeqno(e.seqno) /\ f.value = x
  BY <1>5, <1>15, <1>22 DEF CountedUp, Kept
<1>24. NewestIn(s, v, all) = e.value.n /\ NewestIn(t, v, all) = e.value.n + 1
  BY <1>5, <1>12, <1>13, <1>22, <1>23 DEF NewestIn
<1>25. Genuine(History', v, f)
  <2>1. /\ History.producer = scenario.producer /\ History.updates = scenario.updates
        /\ History.single = SingleLife(scenario) /\ History.born = born
    BY <1>1, <1>2, HistoryIs, NetworkAssumption
  <2>2. /\ History'.producer = scenario.producer /\ History'.updates = scenario.updates
        /\ History'.single = SingleLife(scenario) /\ History'.born = born'
        /\ History'.newest[v] = NewestIn(pd'[n], v, all)
    BY <1>2, <1>3, <1>16, <1>21, HistoryThen, NetworkAssumption
  <2>3. pd'[n] = t
    BY <1>1, <1>9 DEF NetTypes
  <2>4. /\ e.seqno = e.value.n % SeqnoModulus /\ e.value.born <= born[v]
        /\ SingleLife(scenario) => e.value.born = born[v]
    BY <1>20, <2>1 DEF Genuine, Truthful
  <2>5. f.seqno = x.n % SeqnoModulus
    BY <1>11, <1>12, <1>23, <2>4, NextIsNext, SeqnoAssumption
  <2>6. x.n <= scenario.updates /\ x.born <= born'[v] /\ x.n <= History'.newest[v]
    BY <1>7, <1>10, <1>11, <1>12, <1>16, <1>24, <2>2, <2>3, <2>4
  <2>7. Truthful(History', v, f.value, f.seqno)
    BY <1>12, <1>16, <1>23, <2>2, <2>4, <2>5, <2>6 DEF Truthful
  <2>8. /\ f.prodId = scenario.producer[v] /\ f.creationTime <= born[v]
        /\ SingleLife(scenario) => f.creationTime = born[v]
    BY <1>20, <1>23, <2>1 DEF Genuine
  <2>. QED  BY <1>16, <2>2, <2>7, <2>8 DEF Genuine
<1>26. OnlyTouches(pd[Producer(v)], t, v) /\ pd' = [pd EXCEPT ![Producer(v)] = t]
  BY <1>3, <1>4, <1>9, <1>15 DEF FromInside
<1>27. NewestIn(pd[Producer(v)], v, scenario.updates) <= NewestIn(t, v, scenario.updates)
  BY <1>3, <1>4, <1>11, <1>21, <1>24
<1>28. UNCHANGED <<queue, scenario>>
  BY <1>7
<1>29. v \in t.used => Genuine(History', v, t.db[v])
  BY <1>22, <1>25
<1>30. TruthInv'
  BY <1>2, <1>14, <1>16, <1>18, <1>19, <1>26, <1>27, <1>28, <1>29, RequestTruth, NetworkAssumption
<1>31. NotBehind(s, t, v)
  BY <1>5, <1>11, <1>12, <1>13, <1>22, <1>23 DEF NotBehind
<1>32. \A m \in NodeId : \A w \in VarId : NotBehind(pd[m], pd'[m], w)
  BY <1>1, <1>2, <1>4, <1>9, <1>15, <1>31, RequestForward DEF FromInside
<1>. QED  BY <1>17, <1>30, <1>32

LEMMA DeleteKeeps ==
    ASSUME NetInv, TruthInv, NetworkAssumption, ProtocolDataAssumption, SeqnoAssumption,
           NEW v \in Var, HandleDeleteMsg(v)
    PROVE  /\ NetInv' /\ TruthInv'
           /\ \A m \in NodeId : \A w \in VarId : NotBehind(pd[m], pd'[m], w)
<1>1. NetTypes
  BY DEF NetInv
<1>2. v \in VarId /\ Producer(v) \in NodeId
  BY <1>1, ScenarioFacts
<1>3. PICK n \in NodeId : n = Producer(v)
  BY <1>2
<1>4. PICK s : s = pd[n] /\ WellTyped(s) /\ Consistent(s)
  BY <1>1 DEF NetTypes
<1>5. /\ generating[v] /\ scenario.deletes
      /\ RtdbModifyStatus(s, v, n, TRUE) = "OK"
      /\ pd' = [pd EXCEPT ![n] = handle_rtdb_delete_request(pd[n], v)]
      /\ generating' = [generating EXCEPT ![v] = FALSE]
      /\ UNCHANGED <<payloadSent, sendPayload, queue, born, losses, crashes, now, scenario>>
  BY <1>3, <1>4 DEF HandleDeleteMsg, handleRTDBDeleteRequest
<1>6. PICK t : t = MarkDeleted(s, v)
  OBVIOUS
<1>7. pd' = [pd EXCEPT ![n] = t]
  BY <1>4, <1>5, <1>6 DEF handle_rtdb_delete_request
<1>8. v \in s.used /\ ~ s.db[v].isDeleted
  BY <1>5 DEF RtdbModifyStatus, variableExists
<1>9. WellTyped(t) /\ Consistent(t)
  BY <1>2, <1>4, <1>6, <1>8, MarkDeletedOK
<1>10. OnlyTouches(s, t, v) /\ Deleted(s, t, v)
  BY <1>4, <1>6, <1>8, MarkDeletedDeletes
<1>11. /\ generating' \in [VarId -> BOOLEAN] /\ born' \in [VarId -> 0 .. MaxTime \cup {Never}]
       /\ born' = born /\ scenario' = scenario /\ now' = now
       /\ \A w \in VarId : w # v => generating'[w] = generating[w]
  BY <1>1, <1>5 DEF NetTypes
<1>12. NetInv'
  BY <1>5, <1>7, <1>9, <1>11, RequestTypes
<1>13. \A w \in VarId : born'[w] \in Int /\ born'[w] = born[w] /\ born[w] <= born'[w]
  BY <1>1, <1>11, ScenarioFacts DEF NetTypes, Never
<1>14. Lives'
  <2>1. Var' = Var
    BY <1>11 DEF Var
  <2>2. ASSUME NEW w \in VarId
        PROVE  /\ born[w] <= now
               /\ born[w] # Never =>
                    w \in Var /\ (SingleLife(scenario) => scenario.time = 0 \/ generating'[w])
    <3>1. /\ born[w] <= now
          /\ born[w] # Never =>
               w \in Var /\ (SingleLife(scenario) => scenario.time = 0 \/ generating[w])
      BY DEF TruthInv, Lives
    <3>2. SingleLife(scenario) => scenario.time = 0
      BY <1>5 DEF SingleLife
    <3>. QED  BY <3>1, <3>2
  <2>. QED  BY <1>11, <2>1, <2>2 DEF Lives
<1>15. PICK e, f : e = s.db[v] /\ f = t.db[v]
  OBVIOUS
<1>16. /\ v \in t.used /\ f.prodId = e.prodId /\ f.creationTime = e.creationTime
       /\ f.seqno = e.seqno /\ f.value = e.value
  BY <1>10, <1>15 DEF Deleted, Kept
<1>17. PICK all : all = scenario.updates
  OBVIOUS
<1>18. NewestIn(s, v, all) = e.value.n /\ NewestIn(t, v, all) = e.value.n /\ e.value.n \in Nat
  <2>1. e.value.n \in Nat
    BY <1>2, <1>4, <1>15, Parts, EntryFacts
  <2>. QED  BY <1>8, <1>15, <1>16, <2>1 DEF NewestIn
<1>19. Genuine(History', v, f)
  <2>1. /\ History.producer = scenario.producer /\ History.updates = scenario.updates
        /\ History.single = SingleLife(scenario) /\ History.born = born
        /\ History.newest[v] = NewestIn(s, v, all)
    BY <1>1, <1>2, <1>3, <1>4, <1>17, HistoryIs
  <2>2. /\ History'.producer = scenario.producer /\ History'.updates = scenario.updates
        /\ History'.single = SingleLife(scenario) /\ History'.born = born'
        /\ History'.newest[v] = NewestIn(pd'[n], v, all)
    BY <1>2, <1>3, <1>11, <1>17, HistoryThen
  <2>3. pd'[n] = t
    BY <1>1, <1>7 DEF NetTypes
  <2>4. PICK h, k : h = History /\ k = History'
    OBVIOUS
  <2>5. /\ k.producer = h.producer /\ k.updates = h.updates /\ k.single = h.single
        /\ k.born = h.born /\ k.newest[v] = h.newest[v]
    BY <1>11, <1>18, <2>1, <2>2, <2>3, <2>4
  <2>6. Genuine(h, v, e)
    BY <1>4, <1>8, <1>15, <2>4 DEF TruthInv, GenuineData
  <2>7. Genuine(h, v, f)
    BY <1>16, <2>6, SameGenuine
  <2>8. Genuine(k, v, f)
    BY <2>5, <2>7 DEF Genuine, Truthful
  <2>. QED  BY <2>4, <2>8
<1>20. OnlyTouches(pd[Producer(v)], t, v) /\ pd' = [pd EXCEPT ![Producer(v)] = t]
  BY <1>3, <1>4, <1>7, <1>10
<1>21. NewestIn(pd[Producer(v)], v, scenario.updates) <= NewestIn(t, v, scenario.updates)
  BY <1>3, <1>4, <1>17, <1>18
<1>22. UNCHANGED <<queue, scenario>>
  BY <1>5
<1>23. v \in t.used => Genuine(History', v, t.db[v])
  BY <1>15, <1>19
<1>24. TruthInv'
  BY <1>2, <1>9, <1>11, <1>13, <1>14, <1>20, <1>21, <1>22, <1>23, RequestTruth
<1>25. NotBehind(s, t, v)
  BY <1>8, <1>15, <1>16, <1>18 DEF NotBehind
<1>26. \A m \in NodeId : \A w \in VarId : NotBehind(pd[m], pd'[m], w)
  BY <1>1, <1>2, <1>4, <1>7, <1>10, <1>25, RequestForward
<1>. QED  BY <1>12, <1>24, <1>26

(***************************************************************************)
(* Vardis makes a payload.                                                 *)
(***************************************************************************)
\* The producers having what they had, the history is what it was.
LEMMA OwnedContinues ==
    ASSUME NetTypes, UNCHANGED <<born, scenario>>,
           \A m \in NodeId : WellTyped(pd'[m]),
           \A m \in NodeId : \A v \in VarId : Owned(History, pd[m], pd'[m], v, m)
    PROVE  Continues(History, History')
<1>1. ASSUME NEW v \in VarId
      PROVE  /\ pd'[Producer(v)].db[v] \in Entry
             /\ born'[v] \in Int /\ born[v] <= born'[v] /\ born'[v] = born[v]
             /\ NewestIn(pd[Producer(v)], v, scenario.updates)
                <= NewestIn(pd'[Producer(v)], v, scenario.updates)
  <2>1. PICK m \in NodeId : m = Producer(v)
    BY ScenarioFacts, NetworkAssumption
  <2>2. PICK s, t, all : s = pd[m] /\ t = pd'[m] /\ all = scenario.updates
    OBVIOUS
  <2>3. History.producer[v] = m /\ NewestIn(s, v, all) \in Nat /\ born[v] \in Int
    BY <2>1, <2>2, HistoryIs, NetworkAssumption DEF Producer
  <2>4. PICK h : h = History
    OBVIOUS
  <2>5. Owned(h, s, t, v, m)
    BY <2>2, <2>4
  <2>6. NewestIn(t, v, all) = NewestIn(s, v, all)
    BY <2>3, <2>4, <2>5 DEF Owned, NewestIn
  <2>7. t.db[v] \in Entry
    BY <2>2, Parts
  <2>. QED  BY <2>1, <2>2, <2>3, <2>6, <2>7
<1>. QED  BY <1>1, HistoryContinues, NetworkAssumption

\* What a payload made at node n leaves behind.
LEMMA PayloadMakes ==
    ASSUME NetInv, NEW n \in Node, HandleBufferCheckMsg(n) \/ HandleSendPayloadMsg(n)
    PROVE  /\ n \in NodeId /\ queue[n] = <<>>
           /\ sendPayload' = [sendPayload EXCEPT ![n] = FALSE]
           /\ UNCHANGED <<generating, born, losses, crashes, now, scenario>>
           /\ \E t, p :
                /\ pd' = [pd EXCEPT ![n] = t] /\ WellTyped(t) /\ Consistent(t)
                /\ \A w \in VarId : Same(pd[n], t, w)
                /\ p \in Seq(Written) /\ FromData(pd[n], p)
                /\ \/ p = <<>> /\ UNCHANGED <<queue, payloadSent>>
                   \/ /\ PayloadBytes(p) \in 1 .. MaxPayloadSize
                      /\ queue' = [queue EXCEPT ![n] = <<p>>]
                      /\ payloadSent' = [payloadSent EXCEPT ![n] = TRUE]
<1>1. NetTypes /\ Handshake
  BY DEF NetInv
<1>2. n \in NodeId /\ sendPayload \in [NodeId -> BOOLEAN] /\ queue \in [NodeId -> Seq(Seq(Written))]
  BY <1>1, ScenarioFacts, NetworkAssumption DEF NetTypes
<1>3. generatePayload(n) /\ UNCHANGED <<generating, born, losses, crashes, now, scenario>>
  BY DEF HandleBufferCheckMsg, HandleSendPayloadMsg
<1>4. queue[n] = <<>> /\ sendPayload' = [sendPayload EXCEPT ![n] = FALSE]
  <2>1. CASE HandleBufferCheckMsg(n)
    <3>1. Len(queue[n]) = 0 /\ sendPayload[n] = FALSE /\ sendPayload' = sendPayload
      BY <1>2, <2>1 DEF HandleBufferCheckMsg, MayGenerate, NumberBuffered
    <3>. QED  BY <1>2, <3>1
  <2>2. CASE HandleSendPayloadMsg(n)
    BY <1>1, <1>2, <2>2 DEF HandleSendPayloadMsg, Handshake
  <2>. QED  BY <2>1, <2>2
<1>5. PICK s : s = pd[n] /\ WellTyped(s) /\ Consistent(s)
  BY <1>1, <1>2 DEF NetTypes
<1>6. PICK t, p : t = constructPayload(s).data /\ p = constructPayload(s).containers
  OBVIOUS
<1>7. /\ WellTyped(t) /\ Consistent(t) /\ \A w \in VarId : Same(s, t, w)
      /\ p \in Seq(Written) /\ FromData(s, p)
      /\ p # <<>> => PayloadBytes(p) \in 1 .. MaxPayloadSize
  <2>1. MaxPayloadSize \in Nat /\ HeaderSize > 0
    BY NetworkAssumption
  <2>. QED  BY <1>5, <1>6, <2>1, PayloadConstructed, ProtocolDataAssumption
<1>8. pd' = [pd EXCEPT ![n] = t]
  BY <1>3, <1>5, <1>6 DEF generatePayload
<1>9. CASE p = <<>>
  BY <1>2, <1>3, <1>4, <1>5, <1>6, <1>7, <1>8, <1>9 DEF generatePayload
<1>10. CASE p # <<>>
  <2>1. /\ handleTransmitPayloadRequestMsg(n, p)
        /\ payloadSent' = [payloadSent EXCEPT ![n] = TRUE]
    BY <1>3, <1>5, <1>6, <1>10 DEF generatePayload
  <2>2. PICK old, new : old = queue[n] /\ new = Append(IF Len(old) >= MaxEntries THEN Tail(old) ELSE old, p)
    OBVIOUS
  <2>3. Len(old) = 0 /\ MaxEntries \in Nat \ {0} /\ Append(old, p) = <<p>>
    BY <1>4, <2>2, NetworkAssumption
  <2>4. new = <<p>>
    BY <2>2, <2>3
  <2>5. queue' = [queue EXCEPT ![n] = <<p>>]
    BY <2>1, <2>2, <2>4 DEF handleTransmitPayloadRequestMsg
  <2>. QED  BY <1>2, <1>3, <1>4, <1>5, <1>7, <1>8, <1>10, <2>1, <2>5
<1>. QED  BY <1>9, <1>10

LEMMA PayloadKeeps ==
    ASSUME NetInv, TruthInv, NEW n \in Node, HandleBufferCheckMsg(n) \/ HandleSendPayloadMsg(n)
    PROVE  /\ NetInv' /\ TruthInv'
           /\ \A m \in NodeId : \A v \in VarId : NotBehind(pd[m], pd'[m], v)
<1>1. NetTypes /\ Handshake
  BY DEF NetInv
<1>2. /\ n \in NodeId /\ queue[n] = <<>>
      /\ sendPayload' = [sendPayload EXCEPT ![n] = FALSE]
      /\ UNCHANGED <<generating, born, losses, crashes, now, scenario>>
  BY PayloadMakes
<1>3. PICK t, p :
        /\ pd' = [pd EXCEPT ![n] = t] /\ WellTyped(t) /\ Consistent(t)
        /\ \A w \in VarId : Same(pd[n], t, w)
        /\ p \in Seq(Written) /\ FromData(pd[n], p)
        /\ \/ p = <<>> /\ UNCHANGED <<queue, payloadSent>>
           \/ /\ PayloadBytes(p) \in 1 .. MaxPayloadSize
              /\ queue' = [queue EXCEPT ![n] = <<p>>]
              /\ payloadSent' = [payloadSent EXCEPT ![n] = TRUE]
  BY PayloadMakes
<1>4. PICK s : s = pd[n] /\ WellTyped(s)
  BY <1>1, <1>2 DEF NetTypes
<1>5. /\ pd' \in [NodeId -> ProtocolData]
      /\ \A m \in NodeId : /\ WellTyped(pd'[m]) /\ Consistent(pd'[m])
                           /\ pd'[m] = IF m = n THEN t ELSE pd[m]
  BY <1>1, <1>2, <1>3, OneNodeChanges
<1>6. /\ queue' \in [NodeId -> Seq(Seq(Written))] /\ payloadSent' \in [NodeId -> BOOLEAN]
      /\ sendPayload' \in [NodeId -> BOOLEAN]
  <2>1. /\ queue \in [NodeId -> Seq(Seq(Written))] /\ payloadSent \in [NodeId -> BOOLEAN]
        /\ sendPayload \in [NodeId -> BOOLEAN]
    BY <1>1 DEF NetTypes
  <2>2. PICK q : q = <<p>> /\ q \in Seq(Seq(Written))
    <3>1. PICK S : S = Seq(Written)
      OBVIOUS
    <3>2. p \in S
      BY <1>3, <3>1
    <3>3. <<p>> \in Seq(S)
      BY <3>2
    <3>. QED  BY <3>1, <3>3
  <2>3. queue' = queue \/ queue' = [queue EXCEPT ![n] = q]
    BY <1>3, <2>2
  <2>4. queue' \in [NodeId -> Seq(Seq(Written))]
    BY <2>1, <2>2, <2>3
  <2>5. payloadSent' \in [NodeId -> BOOLEAN] /\ sendPayload' \in [NodeId -> BOOLEAN]
    BY <1>2, <1>3, <2>1
  <2>. QED  BY <2>4, <2>5
<1>7. ASSUME NEW m \in NodeId
      PROVE  \/ queue'[m] = queue[m] /\ payloadSent'[m] = payloadSent[m]
             \/ /\ m = n /\ queue'[m] = <<p>> /\ payloadSent'[m] = TRUE
                /\ PayloadBytes(p) \in 1 .. MaxPayloadSize
  BY <1>1, <1>3 DEF NetTypes
<1>8. ASSUME NEW m \in NodeId
      PROVE  sendPayload'[m] = IF m = n THEN FALSE ELSE sendPayload[m]
  BY <1>1, <1>2 DEF NetTypes
<1>9. ASSUME NEW m \in NodeId
      PROVE  /\ Len(queue'[m]) <= 1
             /\ payloadSent'[m] <=> queue'[m] # <<>>
             /\ sendPayload'[m] => ~ payloadSent'[m]
             /\ \A i \in 1 .. Len(queue'[m]) : PayloadBytes(queue'[m][i]) \in 1 .. MaxPayloadSize
  <2>1. CASE queue'[m] = queue[m] /\ payloadSent'[m] = payloadSent[m]
    BY <1>1, <1>8, <2>1 DEF Handshake, NetTypes
  <2>2. CASE /\ m = n /\ queue'[m] = <<p>> /\ payloadSent'[m] = TRUE
             /\ PayloadBytes(p) \in 1 .. MaxPayloadSize
    <3>1. PICK q : q = queue'[m] /\ q = <<p>>
      BY <2>2
    <3>2. Len(q) = 1 /\ q[1] = p /\ q # <<>>
      BY <3>1
    <3>3. \A i \in 1 .. Len(q) : PayloadBytes(q[i]) \in 1 .. MaxPayloadSize
      BY <2>2, <3>2
    <3>4. sendPayload'[m] = FALSE
      BY <1>8, <2>2
    <3>. QED  BY <2>2, <3>1, <3>2, <3>3, <3>4
  <2>. QED  BY <1>7, <2>1, <2>2
<1>10. NetTypes'
  BY <1>1, <1>2, <1>5, <1>6, <1>9 DEF NetTypes
<1>11. NetInv'
  BY <1>9, <1>10 DEF NetInv, Handshake
<1>12. ASSUME NEW m \in NodeId, NEW v \in VarId
       PROVE  /\ Owned(History, pd[m], pd'[m], v, m)
              /\ NotBehind(pd[m], pd'[m], v)
  <2>1. PICK h, a, b : h = History /\ a = pd[m] /\ b = pd'[m]
    OBVIOUS
  <2>2. WellTyped(a)
    BY <1>1, <2>1 DEF NetTypes
  <2>3. Same(a, b, v)
    BY <1>3, <1>5, <2>1, SameEntry DEF Same
  <2>4. Owned(h, a, b, v, m)
    BY <2>2, <2>3, SameOwned
  <2>5. NotBehind(a, b, v)
    BY <1>1, <2>2, <2>3, SameNotBehind, NetworkAssumption
  <2>. QED  BY <2>1, <2>4, <2>5
<1>13. Continues(History, History')
  BY <1>1, <1>2, <1>5, <1>12, OwnedContinues
<1>14. GenuineData(History', t) /\ GenuinePayload(History', p)
  <2>1. PICK h, k : h = History /\ k = History'
    OBVIOUS
  <2>2. GenuineData(h, s) /\ Continues(h, k)
    BY <1>2, <1>4, <1>13, <2>1 DEF TruthInv
  <2>3. GenuineData(k, s)
    BY <1>4, <2>2, DataGoesOn, NetworkAssumption
  <2>4. \A w \in VarId : Same(s, t, w)
    BY <1>3, <1>4
  <2>5. t.used \subseteq VarId
    BY <1>3, Parts
  <2>6. ASSUME NEW w \in VarId, w \in t.used
        PROVE  Genuine(k, w, t.db[w])
    BY <1>4, <2>3, <2>4, <2>6, SameStaysGenuine
  <2>7. GenuineData(k, t)
    BY <2>5, <2>6 DEF GenuineData
  <2>8. FromData(s, p) /\ p \in Seq(Written)
    BY <1>3, <1>4
  <2>9. GenuinePayload(k, p)
    BY <1>4, <2>3, <2>8, MadeFromData
  <2>. QED  BY <2>1, <2>7, <2>9
<1>15. \A m \in NodeId : pd'[m] = pd[m] \/ GenuineData(History', pd'[m])
  BY <1>5, <1>14
<1>16. ASSUME NEW m \in NodeId, NEW i \in 1 .. Len(queue'[m])
       PROVE  \/ \E j \in 1 .. Len(queue[m]) : queue'[m][i] = queue[m][j]
              \/ GenuinePayload(History', queue'[m][i])
  <2>1. CASE queue'[m] = queue[m]
    BY <2>1
  <2>2. CASE queue'[m] = <<p>>
    <3>1. queue'[m][i] = p
      BY <2>2
    <3>. QED  BY <1>14, <3>1
  <2>. QED  BY <1>7, <2>1, <2>2
<1>17. Lives'
  BY <1>2 DEF TruthInv, Lives, Var
<1>18. TruthInv'
  BY <1>1, <1>13, <1>15, <1>16, <1>17, KeepsTruth, NetworkAssumption
<1>. QED  BY <1>11, <1>12, <1>18

(***************************************************************************)
(* Beacons, crashes and time.                                              *)
(***************************************************************************)
LEMMA BeaconKeeps ==
    ASSUME NetInv, TruthInv, NEW n \in Node, NEW receivers \in SUBSET Neighbours(n),
           HandleGenerateBeaconMsg(n, receivers)
    PROVE  /\ NetInv' /\ TruthInv'
           /\ 2 * scenario.updates < SeqnoModulus =>
                \A m \in NodeId : \A v \in VarId : NotBehind(pd[m], pd'[m], v)
<1>1. NetTypes /\ Handshake
  BY DEF NetInv
<1>2. n \in NodeId /\ Node \subseteq NodeId /\ scenario.updates \in Nat
  BY <1>1, ScenarioFacts, NetworkAssumption
<1>3. /\ queue[n] # <<>> /\ ~ sendPayload[n]
      /\ queue' = [queue EXCEPT ![n] = Tail(@)]
      /\ payloadSent' = [payloadSent EXCEPT ![n] = FALSE]
      /\ sendPayload' = [sendPayload EXCEPT ![n] = TRUE]
      /\ losses' = losses + Cardinality(Neighbours(n) \ receivers)
      /\ UNCHANGED <<generating, born, crashes, now, scenario>>
  BY DEF HandleGenerateBeaconMsg, addPayload, handleBPPayloadTransmittedIndication
<1>4. PICK p : p = Head(queue[n])
  OBVIOUS
<1>5. pd' = [m \in NodeId |->
               IF m \in receivers THEN handleBPReceivedPayloadIndication(pd[m], p, m) ELSE pd[m]]
  BY <1>4 DEF HandleGenerateBeaconMsg, handleReceivedPacket
<1>6. queue \in [NodeId -> Seq(Seq(Written))]
  BY <1>1 DEF NetTypes
<1>7. Len(queue[n]) = 1 /\ p \in Seq(Written) /\ p = queue[n][1] /\ Tail(queue[n]) = <<>>
  <2>1. PICK S, q : S = Seq(Written) /\ q = queue[n]
    OBVIOUS
  <2>2. q \in Seq(S) /\ q # <<>> /\ Len(q) <= 1
    BY <1>1, <1>2, <1>3, <1>6, <2>1 DEF Handshake
  <2>3. Len(q) \in Nat /\ Len(q) # 0
    BY <2>2
  <2>4. Len(q) = 1
    <3>1. PICK l : l = Len(q)
      OBVIOUS
    <3>2. l \in Nat /\ l # 0 /\ l <= 1
      BY <2>2, <2>3, <3>1, Zenon
    <3>3. l = 1
      BY <3>2
    <3>. QED  BY <3>1, <3>3
  <2>5. Head(q) = q[1] /\ q[1] \in S
    BY <2>2, <2>4
  <2>6. Tail(q) \in Seq(S) /\ Len(Tail(q)) = 0
    BY <2>2, <2>4
  <2>7. Tail(q) = <<>>
    <3>1. PICK u \in Seq(S) : u = Tail(q) /\ Len(u) = 0
      BY <2>6
    <3>2. u = <<>>
      BY <3>1, EmptySeq
    <3>. QED  BY <3>1, <3>2
  <2>. QED  BY <1>4, <2>1, <2>4, <2>5, <2>7
<1>8. queue' = [queue EXCEPT ![n] = <<>>]
  BY <1>3, <1>7
<1>9. PICK h : h = History
  OBVIOUS
<1>10. h.updates = scenario.updates
  BY <1>9 DEF History
<1>11. GenuinePayload(h, p)
  <2>1. 1 \in 1 .. Len(queue[n])
    BY <1>7
  <2>2. GenuinePayload(History, queue[n][1])
    BY <1>2, <2>1 DEF TruthInv
  <2>. QED  BY <1>7, <1>9, <2>2
<1>12. ASSUME NEW m \in NodeId
       PROVE  Reached(h, pd[m], pd'[m], m)
  <2>1. PICK s : s = pd[m] /\ WellTyped(s) /\ Consistent(s) /\ GenuineData(h, s)
    BY <1>1, <1>9 DEF NetTypes, TruthInv
  <2>2. CASE m \in receivers
    <3>1. PICK t : t = handleBPReceivedPayloadIndication(s, p, m)
      OBVIOUS
    <3>2. pd'[m] = t
      BY <1>5, <2>1, <2>2, <3>1
    <3>3. h.updates \in Nat
      BY <1>2, <1>10
    <3>4. Reached(h, s, handleBPReceivedPayloadIndication(s, p, m), m)
      BY <1>1, <1>7, <1>11, <2>1, <3>3, PayloadReaches, NetworkAssumption,
         ProtocolDataAssumption, SeqnoAssumption
    <3>. QED  BY <2>1, <3>1, <3>2, <3>4
  <2>3. CASE m \notin receivers
    <3>1. pd'[m] = s
      BY <1>5, <2>1, <2>3
    <3>2. Reached(h, s, s, m)
      BY <1>1, <2>1, ReachedFromStart, NetworkAssumption
    <3>. QED  BY <2>1, <3>1, <3>2
  <2>. QED  BY <2>2, <2>3
<1>13. ASSUME NEW m \in NodeId
       PROVE  /\ WellTyped(pd'[m]) /\ Consistent(pd'[m]) /\ GenuineData(h, pd'[m])
              /\ \A v \in VarId : Owned(h, pd[m], pd'[m], v, m)
              /\ 2 * scenario.updates < SeqnoModulus =>
                    \A v \in VarId : NotBehind(pd[m], pd'[m], v)
  BY <1>10, <1>12 DEF Reached
<1>14. pd' \in [NodeId -> ProtocolData]
  <2>1. PICK f : f = pd'
    OBVIOUS
  <2>2. \A m \in NodeId : f[m] \in ProtocolData
    BY <1>13, <2>1 DEF WellTyped
  <2>3. f = [m \in NodeId |-> f[m]]
    BY <1>5, <2>1
  <2>. QED  BY <2>1, <2>2, <2>3
<1>15. losses' \in Nat
  <2>1. IsFiniteSet(Neighbours(n) \ receivers)
    BY <1>2, NetworkAssumption, FS_Subset DEF Neighbours
  <2>2. Cardinality(Neighbours(n) \ receivers) \in Nat
    BY <2>1, FS_CardinalityType
  <2>. QED  BY <1>1, <1>3, <2>2 DEF NetTypes
<1>16. ASSUME NEW m \in NodeId
       PROVE  /\ queue'[m] = IF m = n THEN <<>> ELSE queue[m]
              /\ payloadSent'[m] = IF m = n THEN FALSE ELSE payloadSent[m]
              /\ sendPayload'[m] = IF m = n THEN TRUE ELSE sendPayload[m]
  BY <1>1, <1>3, <1>6, <1>8 DEF NetTypes
<1>17. ASSUME NEW m \in NodeId
       PROVE  /\ Len(queue'[m]) <= 1
              /\ payloadSent'[m] <=> queue'[m] # <<>>
              /\ sendPayload'[m] => ~ payloadSent'[m]
              /\ \A i \in 1 .. Len(queue'[m]) : PayloadBytes(queue'[m][i]) \in 1 .. MaxPayloadSize
  <2>1. CASE m = n
    <3>1. PICK q : q = queue'[m] /\ q = <<>>
      BY <1>16, <2>1
    <3>2. Len(q) = 0 /\ 1 .. Len(q) = {}
      BY <3>1
    <3>3. payloadSent'[m] = FALSE
      BY <1>16, <2>1
    <3>. QED  BY <3>1, <3>2, <3>3
  <2>2. CASE m # n
    BY <1>1, <1>16, <2>2 DEF Handshake, NetTypes
  <2>. QED  BY <2>1, <2>2
<1>18. /\ queue' \in [NodeId -> Seq(Seq(Written))] /\ payloadSent' \in [NodeId -> BOOLEAN]
       /\ sendPayload' \in [NodeId -> BOOLEAN]
  <2>1. payloadSent \in [NodeId -> BOOLEAN] /\ sendPayload \in [NodeId -> BOOLEAN]
    BY <1>1 DEF NetTypes
  <2>2. <<>> \in Seq(Seq(Written))
    OBVIOUS
  <2>3. queue' \in [NodeId -> Seq(Seq(Written))]
    BY <1>6, <1>8, <2>2
  <2>. QED  BY <1>3, <2>1, <2>3
<1>19. NetTypes'
  BY <1>1, <1>3, <1>13, <1>14, <1>15, <1>17, <1>18 DEF NetTypes
<1>20. NetInv'
  BY <1>17, <1>19 DEF NetInv, Handshake
<1>21. Continues(History, History')
  BY <1>1, <1>3, <1>9, <1>13, OwnedContinues
<1>22. ASSUME NEW m \in NodeId
       PROVE  GenuineData(History', pd'[m])
  <2>1. PICK k, t : k = History' /\ t = pd'[m]
    OBVIOUS
  <2>2. Continues(h, k) /\ WellTyped(t) /\ GenuineData(h, t)
    BY <1>9, <1>13, <1>21, <2>1
  <2>3. GenuineData(k, t)
    BY <2>2, DataGoesOn, NetworkAssumption
  <2>. QED  BY <2>1, <2>3
<1>23. ASSUME NEW m \in NodeId, NEW i \in 1 .. Len(queue'[m])
       PROVE  \E j \in 1 .. Len(queue[m]) : queue'[m][i] = queue[m][j]
  <2>1. CASE m = n
    <3>1. PICK q : q = queue'[m] /\ q = <<>>
      BY <1>16, <2>1
    <3>2. 1 .. Len(q) = {}
      BY <3>1
    <3>. QED  BY <3>1, <3>2
  <2>2. CASE m # n
    BY <1>16, <2>2
  <2>. QED  BY <2>1, <2>2
<1>24. Lives'
  BY <1>3 DEF TruthInv, Lives, Var
<1>25. TruthInv'
  BY <1>1, <1>21, <1>22, <1>23, <1>24, KeepsTruth, NetworkAssumption
<1>. QED  BY <1>13, <1>20, <1>25

LEMMA CrashKeeps ==
    ASSUME NetInv, TruthInv, NEW n \in Node, Crash(n)
    PROVE  /\ NetInv' /\ TruthInv'
           /\ \A m \in NodeId : m \notin crashes' \ crashes => pd'[m] = pd[m]
<1>1. NetTypes /\ Handshake
  BY DEF NetInv
<1>2. n \in NodeId /\ scenario.updates \in Nat
  BY <1>1, ScenarioFacts, NetworkAssumption
<1>3. PICK t : t = NoProtocolData
  OBVIOUS
<1>4. WellTyped(t) /\ Consistent(t) /\ t.used = {}
  BY <1>3, NothingOK, NetworkAssumption, ProtocolDataAssumption
<1>5. /\ n \in scenario.crashing \ crashes /\ crashes' = crashes \cup {n}
      /\ pd' = [pd EXCEPT ![n] = t]
      /\ payloadSent' = [payloadSent EXCEPT ![n] = FALSE]
      /\ sendPayload' = [sendPayload EXCEPT ![n] = FALSE]
      /\ queue' = [queue EXCEPT ![n] = <<>>]
      /\ generating' = [v \in VarId |-> generating[v] /\ scenario.producer[v] # n]
      /\ UNCHANGED <<born, losses, now, scenario>>
  BY <1>3 DEF Crash
<1>6. /\ pd' \in [NodeId -> ProtocolData]
      /\ \A m \in NodeId : /\ WellTyped(pd'[m]) /\ Consistent(pd'[m])
                           /\ pd'[m] = IF m = n THEN t ELSE pd[m]
  BY <1>1, <1>2, <1>4, <1>5, OneNodeChanges
<1>7. ASSUME NEW m \in NodeId
      PROVE  /\ queue'[m] = IF m = n THEN <<>> ELSE queue[m]
             /\ payloadSent'[m] = IF m = n THEN FALSE ELSE payloadSent[m]
             /\ sendPayload'[m] = IF m = n THEN FALSE ELSE sendPayload[m]
  BY <1>1, <1>5 DEF NetTypes
<1>8. /\ queue' \in [NodeId -> Seq(Seq(Written))] /\ payloadSent' \in [NodeId -> BOOLEAN]
      /\ sendPayload' \in [NodeId -> BOOLEAN] /\ generating' \in [VarId -> BOOLEAN]
      /\ crashes' \subseteq NodeId
  <2>1. /\ queue \in [NodeId -> Seq(Seq(Written))] /\ payloadSent \in [NodeId -> BOOLEAN]
        /\ sendPayload \in [NodeId -> BOOLEAN] /\ generating \in [VarId -> BOOLEAN]
        /\ crashes \subseteq NodeId
    BY <1>1 DEF NetTypes
  <2>2. <<>> \in Seq(Seq(Written))
    OBVIOUS
  <2>3. queue' \in [NodeId -> Seq(Seq(Written))]
    BY <1>5, <2>1, <2>2
  <2>4. payloadSent' \in [NodeId -> BOOLEAN] /\ sendPayload' \in [NodeId -> BOOLEAN]
    BY <1>5, <2>1
  <2>5. \A v \in VarId : (generating[v] /\ scenario.producer[v] # n) \in BOOLEAN
    OBVIOUS
  <2>6. generating' \in [VarId -> BOOLEAN]
    BY <1>5, <2>5, Zenon
  <2>7. crashes' \subseteq NodeId
    BY <1>2, <1>5, <2>1
  <2>. QED  BY <2>3, <2>4, <2>6, <2>7
<1>9. ASSUME NEW m \in NodeId
      PROVE  /\ Len(queue'[m]) <= 1
             /\ payloadSent'[m] <=> queue'[m] # <<>>
             /\ sendPayload'[m] => ~ payloadSent'[m]
             /\ \A i \in 1 .. Len(queue'[m]) :
                   /\ PayloadBytes(queue'[m][i]) \in 1 .. MaxPayloadSize
                   /\ \E j \in 1 .. Len(queue[m]) : queue'[m][i] = queue[m][j]
  <2>1. CASE m = n
    <3>1. PICK q : q = queue'[m] /\ q = <<>>
      BY <1>7, <2>1
    <3>2. Len(q) = 0 /\ 1 .. Len(q) = {}
      BY <3>1
    <3>3. payloadSent'[m] = FALSE
      BY <1>7, <2>1
    <3>. QED  BY <3>1, <3>2, <3>3
  <2>2. CASE m # n
    BY <1>1, <1>7, <2>2 DEF Handshake, NetTypes
  <2>. QED  BY <2>1, <2>2
<1>10. NetTypes'
  BY <1>1, <1>5, <1>6, <1>8, <1>9 DEF NetTypes
<1>11. NetInv'
  BY <1>9, <1>10 DEF NetInv, Handshake
<1>12. ASSUME NEW v \in VarId
       PROVE  /\ pd'[Producer(v)].db[v] \in Entry
              /\ born'[v] \in Int /\ born[v] <= born'[v] /\ born'[v] = born[v]
              /\ NewestIn(pd[Producer(v)], v, scenario.updates)
                 <= NewestIn(pd'[Producer(v)], v, scenario.updates)
  <2>1. PICK m \in NodeId : m = Producer(v)
    BY <1>1, ScenarioFacts, NetworkAssumption
  <2>2. PICK s, u, all : s = pd[m] /\ u = pd'[m] /\ all = scenario.updates
    OBVIOUS
  <2>3. born[v] \in Int /\ NewestIn(s, v, all) \in Nat /\ all \in Nat
    BY <1>1, <1>2, <2>1, <2>2, HistoryIs, NetworkAssumption
  <2>4. NewestIn(s, v, all) <= NewestIn(u, v, all)
    <3>1. CASE m = n
      <4>1. NewestIn(u, v, all) = all
        BY <1>4, <1>6, <2>2, <3>1 DEF NewestIn
      <4>2. v \in s.used => s.db[v].value.n <= all
        <5>1. PICK h : h = History
          OBVIOUS
        <5>2. h.updates = all
          BY <2>2, <5>1 DEF History
        <5>3. GenuineData(h, s)
          BY <2>2, <5>1 DEF TruthInv
        <5>. QED  BY <5>2, <5>3 DEF GenuineData, Genuine, Truthful
      <4>. QED  BY <2>3, <4>1, <4>2 DEF NewestIn
    <3>2. CASE m # n
      BY <1>6, <2>2, <2>3, <3>2
    <3>. QED  BY <3>1, <3>2
  <2>5. u.db[v] \in Entry
    BY <1>6, <2>2, Parts
  <2>. QED  BY <1>5, <2>1, <2>2, <2>3, <2>4, <2>5
<1>13. Continues(History, History')
  BY <1>1, <1>5, <1>12, HistoryContinues, NetworkAssumption
<1>14. ASSUME NEW m \in NodeId
       PROVE  pd'[m] = pd[m] \/ GenuineData(History', pd'[m])
  BY <1>4, <1>6 DEF GenuineData
<1>15. Lives'
  <2>1. Var' = Var
    BY <1>5 DEF Var
  <2>2. ASSUME NEW v \in VarId
        PROVE  /\ born[v] <= now
               /\ born[v] # Never =>
                    v \in Var /\ (SingleLife(scenario) => scenario.time = 0 \/ generating'[v])
    <3>1. /\ born[v] <= now
          /\ born[v] # Never =>
               v \in Var /\ (SingleLife(scenario) => scenario.time = 0 \/ generating[v])
      BY DEF TruthInv, Lives
    <3>2. v \in Var /\ SingleLife(scenario) => scenario.time = 0 \/ scenario.producer[v] # n
      BY <1>5 DEF SingleLife, Var
    <3>3. generating'[v] <=> generating[v] /\ scenario.producer[v] # n
      BY <1>5
    <3>. QED  BY <3>1, <3>2, <3>3
  <2>. QED  BY <1>5, <2>1, <2>2 DEF Lives
<1>16. TruthInv'
  BY <1>1, <1>9, <1>13, <1>14, <1>15, KeepsTruth, NetworkAssumption
<1>17. \A m \in NodeId : m \notin crashes' \ crashes => pd'[m] = pd[m]
  BY <1>5, <1>6
<1>. QED  BY <1>11, <1>16, <1>17

\* Time passes, or nothing happens.
LEMMA QuietKeeps ==
    ASSUME NetInv, TruthInv, Tick \/ UNCHANGED vars
    PROVE  NetInv' /\ TruthInv' /\ pd' = pd
<1>1. NetTypes /\ Handshake
  BY DEF NetInv
<1>2. /\ UNCHANGED <<pd, payloadSent, sendPayload, queue, generating, born, losses, crashes,
                     scenario>>
      /\ \/ now' = now
         \/ now < scenario.time /\ now' = now + 1
  <2>1. CASE Tick
    BY <2>1 DEF Tick
  <2>2. CASE UNCHANGED vars
    BY <2>2 DEF vars
  <2>. QED  BY <2>1, <2>2
<1>3. now \in Nat /\ scenario.time \in Nat /\ now <= scenario.time
  BY <1>1, ScenarioFacts, NetworkAssumption
<1>4. now' \in 0 .. scenario.time /\ now <= now'
  BY <1>2, <1>3
<1>5. NetTypes'
  BY <1>1, <1>2, <1>4 DEF NetTypes
<1>6. NetInv'
  BY <1>1, <1>2, <1>5 DEF NetInv, Handshake
<1>7. Lives'
  <2>1. ASSUME NEW v \in VarId
        PROVE  /\ born[v] <= now'
               /\ born[v] # Never =>
                    v \in Var /\ (SingleLife(scenario) => scenario.time = 0 \/ generating[v])
    <3>1. born[v] \in Int /\ born[v] <= now
      BY <1>1, HistoryIs, NetworkAssumption DEF TruthInv, Lives
    <3>2. born[v] <= now'
      BY <1>2, <1>3, <3>1
    <3>. QED  BY <3>2 DEF TruthInv, Lives
  <2>2. Var' = Var
    BY <1>2 DEF Var
  <2>. QED  BY <1>2, <2>1, <2>2 DEF Lives
<1>8. History' = History
  BY <1>2 DEF History
<1>9. TruthInv'
  BY <1>2, <1>7, <1>8 DEF TruthInv
<1>. QED  BY <1>2, <1>6, <1>9

(***************************************************************************)
(* The theorems.                                                           *)
(***************************************************************************)
\* A node whose data stay does not step back.
LEMMA Stays ==
    ASSUME NetTypes, NEW m \in NodeId, NEW v \in VarId, pd'[m] = pd[m]
    PROVE  NotBehind(pd[m], pd'[m], v)
<1>1. PICK a : a = pd[m] /\ WellTyped(a)
  BY DEF NetTypes
<1>2. Same(a, a, v)
  BY <1>1, SameEntry DEF Same
<1>3. NotBehind(a, a, v)
  BY <1>1, <1>2, SameNotBehind, NetworkAssumption
<1>. QED  BY <1>1, <1>3

\* What every step does.
LEMMA StepOK ==
    ASSUME NetInv, TruthInv, [Next]_vars
    PROVE  /\ NetInv' /\ TruthInv'
           /\ 2 * scenario.updates < SeqnoModulus =>
                \A m \in NodeId : m \notin crashes' \ crashes =>
                    \A v \in VarId : NotBehind(pd[m], pd'[m], v)
<1>1. CASE \E v \in Var : HandleCreateMsg(v)
  BY <1>1, CreateKeeps, NetworkAssumption, ProtocolDataAssumption, SeqnoAssumption
<1>2. CASE \E v \in Var : HandleUpdateMsg(v)
  BY <1>2, UpdateKeeps
<1>3. CASE \E v \in Var : HandleDeleteMsg(v)
  BY <1>3, DeleteKeeps, NetworkAssumption, ProtocolDataAssumption, SeqnoAssumption
<1>4. CASE \E n \in Node : HandleBufferCheckMsg(n) \/ HandleSendPayloadMsg(n)
  BY <1>4, PayloadKeeps
<1>5. CASE \E n \in Node : \E receivers \in SUBSET Neighbours(n) :
               HandleGenerateBeaconMsg(n, receivers)
  BY <1>5, BeaconKeeps
<1>0. NetTypes
  BY DEF NetInv
<1>6. ASSUME pd' = pd
      PROVE  \A m \in NodeId : \A v \in VarId : NotBehind(pd[m], pd'[m], v)
  BY <1>0, <1>6, Stays
<1>7. CASE \E n \in Node : Crash(n)
  <2>1. PICK n \in Node : Crash(n)
    BY <1>7
  <2>2. /\ NetInv' /\ TruthInv'
        /\ \A m \in NodeId : m \notin crashes' \ crashes => pd'[m] = pd[m]
    BY <2>1, CrashKeeps
  <2>. QED  BY <1>0, <2>2, Stays
<1>8. CASE Tick \/ UNCHANGED vars
  BY <1>6, <1>8, QuietKeeps
<1>. QED  BY <1>1, <1>2, <1>3, <1>4, <1>5, <1>7, <1>8 DEF Next

\* What Vardis and BP know of each other, and what the data say of the producers' history,
\* is so in every state.
THEOREM NetworkInvariants == Spec => [](NetInv /\ TruthInv)
<1>1. Init => NetInv /\ TruthInv
  BY InitOK, NetworkAssumption, ProtocolDataAssumption
<1>2. NetInv /\ TruthInv /\ [Next]_vars => NetInv' /\ TruthInv'
  BY StepOK
<1>. QED  BY <1>1, <1>2, PTL DEF Spec

\* Vardis and BP agree on the one payload that is on its way, so that BP drops none, whatever
\* the order of timers, crashes and lost beacons.  (OnePayloadBuffered)
THEOREM NoPayloadIsDropped == Spec => []OnePayloadBuffered
<1>1. NetInv => OnePayloadBuffered
  <2> SUFFICES ASSUME NetInv  PROVE OnePayloadBuffered
    OBVIOUS
  <2>1. NetTypes /\ Handshake
    BY DEF NetInv
  <2>2. /\ Node \subseteq NodeId /\ now \in Nat /\ now <= MaxTime /\ MaxTime \in Nat
        /\ MaxEntries \in Nat \ {0}
    BY <2>1, ScenarioFacts, NetworkAssumption
  <2>3. ASSUME NEW n \in NodeId
        PROVE  /\ Len(queue[n]) <= MaxEntries
               /\ \A i \in DOMAIN queue[n] : PayloadBytes(queue[n][i]) \in 1 .. MaxPayloadSize
    <3>1. PICK q : q = queue[n] /\ q \in Seq(Seq(Written))
      BY <2>1 DEF NetTypes
    <3>2. Len(q) \in Nat /\ DOMAIN q = 1 .. Len(q)
      BY <3>1
    <3>3. Len(q) <= 1
      BY <2>1, <3>1 DEF Handshake
    <3>4. Len(q) <= MaxEntries
      BY <2>2, <3>2, <3>3
    <3>. QED  BY <2>1, <3>1, <3>2, <3>4 DEF NetTypes
  <2>4. TypeOK
    BY <2>1, <2>2, <2>3 DEF TypeOK, NetTypes
  <2>. QED  BY <2>1, <2>2, <2>4 DEF OnePayloadBuffered, Handshake
<1>. QED  BY <1>1, NetworkInvariants, PTL

\* What a node has of a variable was written by its producer, with that sequence number, in a
\* life that has begun; in any scenario.
WrittenByProducer ==
    \A n \in Node, v \in Var :
        LET e == pd[n].db[v]
        IN  Known(n, v) => /\ e.prodId = Producer(v) /\ e.seqno = e.value.n % SeqnoModulus
                           /\ e.creationTime <= born[v] /\ e.value.born <= born[v]
                           /\ e.value.n <= scenario.updates

\* Lost beacons, crashes and old payloads never make a value out of two.
THEOREM ValuesAreTheProducers == Spec => []WrittenByProducer
<1>1. NetInv /\ TruthInv => WrittenByProducer
  <2> SUFFICES ASSUME NetInv, TruthInv, NEW n \in Node, NEW v \in Var, Known(n, v)
               PROVE  LET e == pd[n].db[v]
                      IN  /\ e.prodId = Producer(v) /\ e.seqno = e.value.n % SeqnoModulus
                          /\ e.creationTime <= born[v] /\ e.value.born <= born[v]
                          /\ e.value.n <= scenario.updates
    BY DEF WrittenByProducer
  <2>1. n \in NodeId /\ v \in VarId
    BY ScenarioFacts, NetworkAssumption DEF NetInv
  <2>2. PICK h, e : h = History /\ e = pd[n].db[v]
    OBVIOUS
  <2>3. h.producer[v] = Producer(v) /\ h.born = born /\ h.updates = scenario.updates
    BY <2>2 DEF History, Producer
  <2>4. Genuine(h, v, e)
    BY <2>1, <2>2 DEF TruthInv, GenuineData, Known
  <2>. QED  BY <2>2, <2>3, <2>4 DEF Genuine, Truthful
<1>. QED  BY <1>1, NetworkInvariants, PTL

\* Where each variable has one life, its number and its value fit together, and no node is
\* ahead of the producer.  (NothingInvented)
THEOREM NothingIsInvented == Spec => [](SingleLife(scenario) => NothingInvented)
<1>1. NetInv /\ TruthInv => (SingleLife(scenario) => NothingInvented)
  <2> SUFFICES ASSUME NetInv, TruthInv, SingleLife(scenario), NEW n \in Node, NEW v \in Var,
                      Known(n, v)
               PROVE  LET e == pd[n].db[v]
                          original == pd[Producer(v)].db[v]
                      IN  /\ e.value.born = e.creationTime
                          /\ e.seqno = e.value.n % SeqnoModulus
                          /\ Known(Producer(v), v) =>
                                \/ e.creationTime < original.creationTime
                                \/ /\ e.creationTime = original.creationTime
                                   /\ e.value.n <= original.value.n
    BY DEF NothingInvented
  <2>1. NetTypes
    BY DEF NetInv
  <2>2. n \in NodeId /\ v \in VarId /\ Producer(v) \in NodeId
    BY <2>1, ScenarioFacts, NetworkAssumption
  <2>3. PICK h, e, s, o : h = History /\ e = pd[n].db[v] /\ s = pd[Producer(v)] /\ o = s.db[v]
    OBVIOUS
  <2>4. h.born = born /\ h.single /\ h.newest[v] = NewestIn(s, v, scenario.updates)
    BY <2>1, <2>2, <2>3, HistoryIs, NetworkAssumption
  <2>5. Genuine(h, v, e)
    BY <2>2, <2>3 DEF TruthInv, GenuineData, Known
  <2>6. /\ e.value.born = born[v] /\ e.creationTime = born[v]
        /\ e.seqno = e.value.n % SeqnoModulus /\ e.value.n <= h.newest[v]
    BY <2>4, <2>5 DEF Genuine, Truthful
  <2>7. ASSUME v \in s.used
        PROVE  o.creationTime = born[v] /\ e.value.n <= o.value.n
    <3>1. GenuineData(h, s)
      BY <2>2, <2>3 DEF TruthInv
    <3>2. Genuine(h, v, o)
      BY <2>3, <2>7, <3>1 DEF GenuineData
    <3>3. h.newest[v] = o.value.n
      BY <2>3, <2>4, <2>7 DEF NewestIn
    <3>. QED  BY <2>4, <2>6, <3>2, <3>3 DEF Genuine
  <2>. QED  BY <2>3, <2>6, <2>7 DEF Known
<1>. QED  BY <1>1, NetworkInvariants, PTL

\* As long as a life has fewer updates than half of the sequence numbers, no node steps back,
\* whatever beacon reaches it when.  (NeverBackwards)
THEOREM NobodyStepsBack ==
    ASSUME \A s \in Scenarios : 2 * s.updates < SeqnoModulus
    PROVE  Spec => NeverBackwards
<1> DEFINE Forward ==
             \A n \in Node, v \in Var : n \notin crashes' \ crashes /\ Known(n, v) =>
               LET e == pd[n].db[v]
                   f == pd'[n].db[v]
               IN  \/ f.creationTime > e.creationTime
                   \/ /\ f.creationTime = e.creationTime /\ f.value.n >= e.value.n
                      /\ e.isDeleted => f.isDeleted
<1>1. NetInv /\ TruthInv /\ [Next]_vars => Forward
  <2> SUFFICES ASSUME NetInv, TruthInv, [Next]_vars, NEW n \in Node, NEW v \in Var,
                      n \notin crashes' \ crashes, Known(n, v)
               PROVE  LET e == pd[n].db[v]
                          f == pd'[n].db[v]
                      IN  \/ f.creationTime > e.creationTime
                          \/ /\ f.creationTime = e.creationTime /\ f.value.n >= e.value.n
                             /\ e.isDeleted => f.isDeleted
    OBVIOUS
  <2>1. n \in NodeId /\ v \in VarId
    BY ScenarioFacts, NetworkAssumption DEF NetInv
  <2>2. 2 * scenario.updates < SeqnoModulus
    BY DEF NetInv, NetTypes
  <2>3. PICK s, t : s = pd[n] /\ t = pd'[n]
    OBVIOUS
  <2>4. NotBehind(s, t, v)
    BY <2>1, <2>2, <2>3, StepOK
  <2>. QED  BY <2>3, <2>4 DEF NotBehind, Known
<1>2. NetInv /\ TruthInv /\ [Next]_vars => [Forward]_vars
  BY <1>1
<1>3. Spec => [][Forward]_vars
  <2> HIDE DEF Forward
  <2>. QED  BY <1>2, NetworkInvariants, PTL DEF Spec
<1>. QED  BY <1>3 DEF NeverBackwards

(***************************************************************************)
(* The comparison of sequence numbers orders any two that are less than    *)
(* half of the modulus apart, and no others; the consumer of SeqnoWindow   *)
(* therefore always keeps the newest value it has seen.                    *)
(***************************************************************************)
\* Half of the modulus, and the largest distance that can be compared.
LEMMA Halves ==
    ASSUME SeqnoAssumption
    PROVE  /\ SeqnoModulus \in Nat /\ SeqnoModulus >= 4
           /\ HalfSeqno \in Nat \ {0} /\ SeqnoModulus = 2 * HalfSeqno + 2
<1>1. PICK h \in 2 .. SeqnoModulus : SeqnoModulus = 2 * h
  BY DEF SeqnoAssumption
<1>2. (2 * h - 1) \div 2 = h - 1
  BY <1>1
<1>. QED  BY <1>1, <1>2 DEF SeqnoAssumption, HalfSeqno

\* Counting on from a sequence number, at most once around.
LEMMA SumWraps ==
    ASSUME NEW m \in Nat \ {0}, NEW a \in 0 .. m - 1, NEW d \in 0 .. m
    PROVE  (a + d) % m = IF a + d < m THEN a + d ELSE a + d - m
OBVIOUS

\* Counting back from a sequence number, at most once around.
LEMMA DifferenceWraps ==
    ASSUME NEW m \in Nat \ {0}, NEW a \in 0 .. m - 1, NEW d \in 0 .. m
    PROVE  (a - d) % m = IF a < d THEN a - d + m ELSE a - d
OBVIOUS

\* Of two sequence numbers up to half of the modulus apart the one reached by
\* counting on from the other is the more recent one; exactly half of the modulus
\* apart, neither is, and the receiver takes either for news.
THEOREM ComparisonOrders ==
    ASSUME SeqnoAssumption, NEW a \in Seqno, NEW d \in 1 .. HalfSeqno + 1
    PROVE  LET b == (a + d) % SeqnoModulus
           IN  /\ more_recent_seqno(b, a) <=> d <= HalfSeqno
               /\ ~ more_recent_seqno(a, b)
<1> DEFINE b == (a + d) % SeqnoModulus
<1>1. /\ SeqnoModulus \in Nat \ {0} /\ HalfSeqno \in Nat
      /\ SeqnoModulus = 2 * HalfSeqno + 2 /\ a \in 0 .. SeqnoModulus - 1
  BY Halves DEF Seqno
<1>2. b = IF a + d < SeqnoModulus THEN a + d ELSE a + d - SeqnoModulus
  <2>1. d \in 0 .. SeqnoModulus
    BY <1>1
  <2>. QED  BY <1>1, <2>1, SumWraps
<1> HIDE DEF b
<1>. QED  BY <1>1, <1>2 DEF more_recent_seqno, b

\* The sequence number of an old record, without the remainder.
LEMMA SeqnoOfAge ==
    ASSUME SeqnoAssumption, WindowAssumption, produced \in Seqno, NEW age \in Age
    PROVE  /\ SeqnoOf(age) \in Seqno
           /\ SeqnoOf(age) = IF produced >= age THEN produced - age
                             ELSE produced - age + SeqnoModulus
<1>1. /\ SeqnoModulus \in Nat \ {0} /\ HalfSeqno \in Nat
      /\ SeqnoModulus = 2 * HalfSeqno + 2 /\ age \in 0 .. HalfSeqno
      /\ produced \in 0 .. SeqnoModulus - 1
  BY Halves DEF Seqno, Age, WindowAssumption
<1>2. SeqnoOf(age) = IF produced >= age THEN produced - age
                     ELSE produced - age + SeqnoModulus
  <2>1. age \in 0 .. SeqnoModulus
    BY <1>1
  <2>. QED  BY <1>1, <2>1, DifferenceWraps DEF SeqnoOf
<1>. QED  BY <1>1, <1>2 DEF Seqno

\* What the history variable means, which the comparison is proved from.
HistoryMeans ==
    /\ produced \in Seqno /\ behind \in Age
    /\ consumed = SeqnoOf(behind)

\* A record is news to the consumer exactly when it is younger than its value.
LEMMA NewsIsYounger ==
    ASSUME SeqnoAssumption, WindowAssumption, HistoryMeans, NEW age \in Age
    PROVE  IsNews(SeqnoOf(age)) <=> age < behind
<1> DEFINE c == SeqnoOf(behind)
           r == SeqnoOf(age)
<1>1. /\ SeqnoModulus \in Nat \ {0} /\ HalfSeqno \in Nat
      /\ SeqnoModulus = 2 * HalfSeqno + 2
      /\ age \in 0 .. HalfSeqno /\ behind \in 0 .. HalfSeqno
      /\ produced \in 0 .. SeqnoModulus - 1
  BY Halves DEF Seqno, Age, WindowAssumption, HistoryMeans
<1>2. /\ c = IF produced >= behind THEN produced - behind
             ELSE produced - behind + SeqnoModulus
      /\ r = IF produced >= age THEN produced - age
             ELSE produced - age + SeqnoModulus
  BY SeqnoOfAge DEF HistoryMeans
<1> HIDE DEF c, r
<1>3. (c # r /\ ~ more_recent_seqno(c, r)) <=> age < behind
  BY <1>1, <1>2 DEF more_recent_seqno
<1>. QED  BY <1>3 DEF IsNews, HistoryMeans, c, r

\* The history variable is kept up in every step.
LEMMA HistoryIsKept == WindowSpec => []HistoryMeans
<1> USE SeqnoAssumption, WindowAssumption
<1>1. WindowInit => HistoryMeans
  <2>1. 0 \in Seqno /\ 0 \in Age /\ (0 - 0) % SeqnoModulus = 0
    BY Halves DEF Seqno, Age, WindowAssumption
  <2>. QED  BY <2>1 DEF WindowInit, HistoryMeans, SeqnoOf
<1>2. HistoryMeans /\ [WindowNext]_windowVars => HistoryMeans'
  <2> SUFFICES ASSUME HistoryMeans, [WindowNext]_windowVars
               PROVE  HistoryMeans'
    OBVIOUS
  <2>1. /\ SeqnoModulus \in Nat \ {0} /\ HalfSeqno \in Nat
        /\ SeqnoModulus = 2 * HalfSeqno + 2 /\ MaxAge \in 1 .. HalfSeqno
        /\ produced \in 0 .. SeqnoModulus - 1 /\ behind \in 0 .. MaxAge
    BY Halves DEF Seqno, Age, WindowAssumption, HistoryMeans
  <2>2. CASE Publish
    <3>1. /\ produced' = IF produced = SeqnoModulus - 1 THEN 0 ELSE produced + 1
          /\ behind' = behind + 1 /\ behind < MaxAge /\ consumed' = consumed
      <4>1. 1 \in 0 .. SeqnoModulus
        BY <2>1
      <4>2. (produced + 1) % SeqnoModulus
              = IF produced + 1 < SeqnoModulus THEN produced + 1
                ELSE produced + 1 - SeqnoModulus
        BY <2>1, <4>1, SumWraps
      <4>3. NextSeqno(produced) = IF produced = SeqnoModulus - 1 THEN 0 ELSE produced + 1
        BY <2>1, <4>2 DEF NextSeqno
      <4>. QED  BY <2>1, <2>2, <4>3 DEF Publish
    <3>2. produced' \in Seqno /\ behind' \in Age
      BY <2>1, <3>1 DEF Seqno, Age
    <3>3. consumed = IF produced >= behind THEN produced - behind
                     ELSE produced - behind + SeqnoModulus
      BY SeqnoOfAge DEF HistoryMeans
    <3>4. (produced' - behind') % SeqnoModulus
            = IF produced' >= behind' THEN produced' - behind'
              ELSE produced' - behind' + SeqnoModulus
      <4>1. behind' \in 0 .. SeqnoModulus /\ produced' \in 0 .. SeqnoModulus - 1
        BY <2>1, <3>1
      <4>. QED  BY <2>1, <4>1, DifferenceWraps
    <3>. QED  BY <2>1, <3>1, <3>2, <3>3, <3>4 DEF HistoryMeans, SeqnoOf
  <2>3. ASSUME NEW age \in Age, Receive(age)  PROVE HistoryMeans'
    BY <2>3 DEF Receive, HistoryMeans, SeqnoOf
  <2>4. CASE UNCHANGED windowVars
    BY <2>4 DEF windowVars, HistoryMeans, SeqnoOf
  <2>. QED  BY <2>2, <2>3, <2>4 DEF WindowNext
<1>. QED  BY <1>1, <1>2, PTL DEF WindowSpec

\* The newest value wins, whatever the modulus and the age of the records, and across
\* any number of wraparounds.
THEOREM NewestAlwaysWins == WindowSpec => []NewestWins
<1>1. HistoryMeans => NewestWins
  BY NewsIsYounger, SeqnoAssumption, WindowAssumption DEF NewestWins
<1>. QED  BY <1>1, HistoryIsKept, PTL

=============================================================================

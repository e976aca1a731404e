-------------------------- MODULE SwarmNetwork_proofs --------------------------
(***************************************************************************)
(* The network of the published simulations: no check of the program       *)
(* fails, the queues of each node agree with its database, the databases   *)
(* with what the producers have written, and no node goes back.            *)
(***************************************************************************)
EXTENDS SwarmNetwork, TLAPS, FiniteSetTheorems, WellFoundedInduction

(***************************************************************************)
(* Recursive functions and sequences.                                      *)
(***************************************************************************)
\* A non-empty set of numbers has a least element.
LEMMA LeastExists ==
    ASSUME NEW S \in SUBSET Nat, S # {}
    PROVE  \E n \in S : \A m \in S : n <= m
<1> DEFINE less == {ss \in Nat \X Nat : ss[1] < ss[2]}
<1>1. PICK n \in S : \A m \in S : <<m, n>> \notin less
  <2>1. IsWellFoundedOn(less, Nat)
    BY NatLessThanWellFounded DEF OpToRel
  <2> HIDE DEF less
  <2>. QED  BY <2>1, WFMin
<1>2. ASSUME NEW m \in S  PROVE n <= m
  <2>1. m \in Nat /\ n \in Nat /\ <<m, n>> \notin less
    BY <1>1
  <2>2. <<m, n>> \in less <=> m < n
    BY <2>1
  <2>. QED  BY <2>1, <2>2
<1>. QED  BY <1>2

\* What holds of 0, and of a number when it holds of the one before.
LEMMA OneByOne ==
    ASSUME NEW n \in Nat, NEW T, 0 \in T, \A i \in 0 .. n : i < n /\ i \in T => i + 1 \in T
    PROVE  \A i \in 0 .. n : i \in T
<1> DEFINE bad == {i \in 0 .. n : i \notin T}
<1>1. ASSUME bad # {}
      PROVE  FALSE
  <2>1. bad \in SUBSET Nat
    OBVIOUS
  <2>2. PICK k \in bad : \A i \in bad : k <= i
    BY <1>1, <2>1, LeastExists
  <2>3. k \in 0 .. n /\ k # 0 /\ k \notin T
    BY <2>2
  <2>4. k - 1 \in 0 .. n /\ k - 1 < n /\ (k - 1) + 1 = k /\ ~ (k <= k - 1)
    BY <2>3
  <2>5. k - 1 \in T
    BY <2>2, <2>4
  <2>. QED  BY <2>3, <2>4, <2>5
<1>. QED  BY <1>1

\* The values f that one gets from a by the functions F[1], F[2], ... one after the other.
Steps(f, F, a, n) == f = [i \in 0 .. n |-> IF i = 0 THEN a ELSE F[i][f[i - 1]]]

\* What is computed step by step, the step i leading from T[i - 1] to T[i], exists.
LEMMA Iterated ==
    ASSUME NEW n \in Nat, NEW T, NEW a \in T[0], NEW F,
           \A i \in 1 .. n : F[i] \in [T[i - 1] -> T[i]]
    PROVE  \E f : Steps(f, F, a, n) /\ \A i \in 0 .. n : f[i] \in T[i]
<1> DEFINE Prefix(f, m) == /\ f = [i \in 0 .. m |-> IF i = 0 THEN a ELSE F[i][f[i - 1]]]
                           /\ \A i \in 0 .. m : f[i] \in T[i]
           U == {m \in 0 .. n : \E f : Prefix(f, m)}
<1>1. 0 \in U
  <2>1. PICK f : f = [i \in 0 .. 0 |-> a]
    OBVIOUS
  <2>2. \A i \in 0 .. 0 : i = 0
    OBVIOUS
  <2>3. f = [i \in 0 .. 0 |-> IF i = 0 THEN a ELSE F[i][f[i - 1]]]
    BY <2>1, <2>2, Zenon
  <2>4. \A i \in 0 .. 0 : f[i] \in T[i]
    BY <2>1
  <2>. QED  BY <2>3, <2>4
<1>2. ASSUME NEW m \in 0 .. n, m < n, m \in U
      PROVE  m + 1 \in U
  <2>1. PICK f : Prefix(f, m)
    BY <1>2
  <2>2. PICK x : x = F[m + 1][f[m]]
    OBVIOUS
  <2>3. x \in T[m + 1]
    <3>1. m + 1 \in 1 .. n /\ (m + 1) - 1 = m /\ f[m] \in T[m]
      BY <1>2, <2>1
    <3>2. F[m + 1] \in [T[m] -> T[m + 1]]
      BY <3>1
    <3>. QED  BY <2>2, <3>1, <3>2
  <2>4. PICK g : g = [i \in 0 .. m + 1 |-> IF i = m + 1 THEN x ELSE f[i]]
    OBVIOUS
  <2>5. ASSUME NEW i \in 0 .. m + 1
        PROVE  g[i] = (IF i = 0 THEN a ELSE F[i][g[i - 1]]) /\ g[i] \in T[i]
    <3>1. CASE i = m + 1
      <4>1. g[i] = x /\ i # 0 /\ i - 1 = m /\ i - 1 # m + 1 /\ i - 1 \in 0 .. m + 1
        BY <2>4, <3>1
      <4>2. g[i - 1] = f[m]
        BY <2>4, <4>1
      <4>. QED  BY <2>2, <2>3, <3>1, <4>1, <4>2
    <3>2. CASE i # m + 1
      <4>1. i \in 0 .. m /\ (i # 0 => i - 1 \in 0 .. m + 1 /\ i - 1 # m + 1)
        BY <3>2
      <4>2. g[i] = f[i] /\ (i # 0 => g[i - 1] = f[i - 1])
        BY <2>4, <3>2, <4>1
      <4>3. f[i] = (IF i = 0 THEN a ELSE F[i][f[i - 1]]) /\ f[i] \in T[i]
        BY <2>1, <4>1
      <4>. QED  BY <4>2, <4>3
    <3>. QED  BY <3>1, <3>2
  <2>6. g = [i \in 0 .. m + 1 |-> IF i = 0 THEN a ELSE F[i][g[i - 1]]]
    BY <2>4, <2>5, Zenon
  <2>7. \A i \in 0 .. m + 1 : g[i] \in T[i]
    BY <2>5
  <2>8. m + 1 \in 0 .. n
    BY <1>2
  <2>9. \E h : Prefix(h, m + 1)
    BY <2>6, <2>7, Zenon
  <2> HIDE DEF Prefix
  <2>. QED  BY <2>8, <2>9
<1> HIDE DEF U
<1>3. \A m \in 0 .. n : m \in U
  BY <1>1, <1>2, OneByOne
<1>4. n \in U
  BY <1>3
<1>5. \E f : Prefix(f, n)
  <2> HIDE DEF Prefix
  <2>. QED  BY <1>4 DEF U
<1>. QED  BY <1>5, Zenon DEF Steps

\* What is computed in steps that keep a set stays in the set.
LEMMA StaysWithin ==
    ASSUME NEW n \in Nat, NEW T, NEW f, f[0] \in T[0],
           \A i \in 1 .. n : f[i - 1] \in T[i - 1] => f[i] \in T[i]
    PROVE  f[n] \in T[n]
<1> DEFINE U == {i \in 0 .. n : f[i] \in T[i]}
<1>1. 0 \in U
  OBVIOUS
<1>2. ASSUME NEW i \in 0 .. n, i < n, i \in U
      PROVE  i + 1 \in U
  <2>1. i + 1 \in 1 .. n /\ i + 1 \in 0 .. n /\ (i + 1) - 1 = i
    BY <1>2
  <2>. QED  BY <1>2, <2>1
<1> HIDE DEF U
<1>3. \A i \in 0 .. n : i \in U
  BY <1>1, <1>2, OneByOne
<1>4. n \in U
  BY <1>3
<1>. QED  BY <1>4 DEF U

\* A sequence over a set is one over a larger set.
LEMMA SequenceGrows ==
    ASSUME NEW S, NEW R, S \subseteq R, NEW q \in Seq(S)
    PROVE  q \in Seq(R)
OBVIOUS

\* A record of another variable leaves the records of a queue distinct.
LEMMA AppendUnique ==
    ASSUME NEW R, NEW p \in Seq(R), NEW r, Unique(p), \A i \in 1 .. Len(p) : p[i].id # r.id
    PROVE  Unique(Append(p, r))
<1>1. PICK u : u = Append(p, r)
  OBVIOUS
<1>2. /\ DOMAIN p = 1 .. Len(p) /\ DOMAIN u = 1 .. Len(p) + 1 /\ Len(p) \in Nat
      /\ u[Len(p) + 1] = r /\ \A i \in 1 .. Len(p) : u[i] = p[i]
  BY <1>1
<1>3. ASSUME NEW i \in 1 .. Len(p) + 1, NEW j \in 1 .. Len(p) + 1, u[i].id = u[j].id
      PROVE  i = j
  <2>1. CASE i \in 1 .. Len(p) /\ j \in 1 .. Len(p)
    BY <1>2, <1>3, <2>1 DEF Unique
  <2>2. CASE i = Len(p) + 1 /\ j \in 1 .. Len(p)
    BY <1>2, <1>3, <2>2
  <2>3. CASE i \in 1 .. Len(p) /\ j = Len(p) + 1
    BY <1>2, <1>3, <2>3
  <2>. QED  BY <1>2, <2>1, <2>2, <2>3
<1>. QED  BY <1>1, <1>2, <1>3 DEF Unique

\* Queues without a common variable, one after the other, have distinct records.
LEMMA JoinUnique ==
    ASSUME NEW R, NEW p \in Seq(R), NEW q \in Seq(R), Unique(p), Unique(q),
           \A i \in 1 .. Len(p), j \in 1 .. Len(q) : p[i].id # q[j].id
    PROVE  Unique(p \o q)
<1>1. PICK u : u = p \o q
  OBVIOUS
<1>2. PICK m \in Nat, n \in Nat : m = Len(p) /\ n = Len(q)
  OBVIOUS
<1>3. DOMAIN p = 1 .. m /\ DOMAIN q = 1 .. n /\ DOMAIN u = 1 .. m + n
  BY <1>1, <1>2
<1>4. /\ \A i \in 1 .. m : u[i] = p[i]
      /\ \A i \in m + 1 .. m + n : u[i] = q[i - m] /\ i - m \in 1 .. n
  BY <1>1, <1>2
<1>5. ASSUME NEW i \in 1 .. m + n, NEW j \in 1 .. m + n, u[i].id = u[j].id
      PROVE  i = j
  <2>1. CASE i <= m /\ j <= m
    BY <1>3, <1>4, <1>5, <2>1, SMTT(30) DEF Unique
  <2>2. CASE i > m /\ j > m
    <3>1. q[i - m].id = q[j - m].id /\ i - m \in DOMAIN q /\ j - m \in DOMAIN q
      BY <1>3, <1>4, <1>5, <2>2
    <3>2. i - m = j - m
      BY <3>1 DEF Unique
    <3>. QED  BY <3>2
  <2>3. CASE i <= m /\ j > m
    BY <1>2, <1>4, <1>5, <2>3
  <2>4. CASE i > m /\ j <= m
    <3>1. u[i] = q[i - m] /\ i - m \in 1 .. Len(q) /\ u[j] = p[j] /\ j \in 1 .. Len(p)
      BY <1>2, <1>4, <2>4
    <3>2. p[j].id # q[i - m].id
      BY <3>1
    <3>. QED  BY <1>5, <3>1, <3>2
  <2>. QED  BY <2>1, <2>2, <2>3, <2>4
<1>. QED  BY <1>1, <1>3, <1>5 DEF Unique

\* What is left of a queue has other identifiers, and each once if it did before.
LEMMA RemoveIDOK ==
    ASSUME NEW R, NEW q \in Seq(R), NEW v
    PROVE  /\ RemoveID(q, v) \in Seq({r \in R : r.id # v})
           /\ Unique(q) => Unique(RemoveID(q, v))
<1> DEFINE Body(p, i) == IF q[i].id = v THEN p ELSE Append(p, q[i])
           Front(i) == {r \in R : r.id # v /\ \E j \in 1 .. i : r = q[j]}
           T == [i \in 0 .. Len(q) |-> {p \in Seq(Front(i)) : Unique(q) => Unique(p)}]
           F == [i \in 1 .. Len(q) |-> [p \in T[i - 1] |-> Body(p, i)]]
           Loop(g) == g = [i \in 0 .. Len(q) |-> IF i = 0 THEN <<>> ELSE Body(g[i - 1], i)]
<1>0. PICK n : n = Len(q) /\ n \in Nat
  OBVIOUS
<1>1. ASSUME NEW i \in 1 .. n, NEW p \in T[i - 1]
      PROVE  Body(p, i) \in T[i]
  <2>1. i \in 0 .. n /\ i - 1 \in 0 .. n /\ i \in 1 .. Len(q) /\ q[i] \in R
    BY <1>0
  <2>2. p \in Seq(Front(i - 1)) /\ (Unique(q) => Unique(p))
    BY <1>0, <2>1
  <2>3. Front(i - 1) \subseteq Front(i)
    BY <2>1
  <2>4. p \in Seq(Front(i))
    BY <2>2, <2>3, SequenceGrows
  <2>5. CASE q[i].id = v
    BY <1>0, <2>1, <2>2, <2>4, <2>5
  <2>6. CASE q[i].id # v
    <3>1. q[i] \in Front(i)
      BY <2>1, <2>6
    <3>2. PICK u : u = Append(p, q[i])
      OBVIOUS
    <3>3. u \in Seq(Front(i))
      <4> HIDE DEF Front
      <4>. QED  BY <2>4, <3>1, <3>2
    <3>4. Unique(q) => Unique(u)
      <4> SUFFICES ASSUME Unique(q)  PROVE Unique(u)
        OBVIOUS
      <4>1. ASSUME NEW a \in 1 .. Len(p)
            PROVE  p[a].id # q[i].id
        <5>1. p[a] \in Front(i - 1)
          BY <2>2
        <5>2. PICK j \in 1 .. i - 1 : p[a] = q[j]
          BY <5>1
        <5>3. j \in DOMAIN q /\ i \in DOMAIN q /\ i # j
          BY <1>0, <2>1
        <5>. QED  BY <5>2, <5>3 DEF Unique
      <4>2. Unique(p)
        BY <2>2
      <4>. QED  BY <2>2, <3>2, <4>1, <4>2, AppendUnique
    <3>5. u \in T[i]
      <4> HIDE DEF Front
      <4>. QED  BY <1>0, <2>1, <3>3, <3>4
    <3>. QED  BY <2>6, <3>2, <3>5
  <2>. QED  BY <2>5, <2>6
<1>2. <<>> \in T[0]
  BY <1>0 DEF Unique
<1> HIDE DEF Body, T
<1>3. PICK f : Steps(f, F, <<>>, n) /\ \A i \in 0 .. n : f[i] \in T[i]
  <2>1. PICK G : G = F
    OBVIOUS
  <2>2. \A i \in 1 .. n : G[i] \in [T[i - 1] -> T[i]]
    BY <1>0, <1>1, <2>1
  <2> HIDE DEF F
  <2>3. PICK S, a : S = T /\ a = <<>>
    OBVIOUS
  <2>4. a \in S[0] /\ \A i \in 1 .. n : G[i] \in [S[i - 1] -> S[i]]
    BY <1>2, <2>2, <2>3
  <2>5. \E f : Steps(f, G, a, n) /\ \A i \in 0 .. n : f[i] \in S[i]
    BY <1>0, <2>4, Iterated
  <2>. QED  BY <2>1, <2>3, <2>5
<1>4. Loop(f)
  <2>1. ASSUME NEW i \in 0 .. n
        PROVE  (IF i = 0 THEN <<>> ELSE F[i][f[i - 1]])
               = IF i = 0 THEN <<>> ELSE Body(f[i - 1], i)
    <3>1. CASE i = 0
      BY <3>1
    <3>2. CASE i # 0
      <4>1. i \in 1 .. n /\ i - 1 \in 0 .. n /\ i \in 1 .. Len(q)
        BY <1>0, <3>2
      <4>2. f[i - 1] \in T[i - 1]
        BY <1>3, <4>1
      <4>. QED  BY <3>2, <4>1, <4>2
    <3>. QED  BY <3>1, <3>2
  <2>. QED  BY <1>0, <1>3, <2>1, Zenon DEF Steps
<1>5. PICK g : g = CHOOSE h : Loop(h)
  OBVIOUS
<1>6. Loop(g)
  BY <1>4, <1>5, Zenon
<1>7. RemoveID(q, v) = g[n]
  BY <1>0, <1>5, Zenon DEF RemoveID, Body
<1>8. g[n] \in T[n]
  <2>1. \A i \in 0 .. n : g[i] = IF i = 0 THEN <<>> ELSE Body(g[i - 1], i)
    BY <1>0, <1>6, Zenon
  <2>2. ASSUME NEW i \in 1 .. n, g[i - 1] \in T[i - 1]
        PROVE  g[i] \in T[i]
    <3>1. g[i] = Body(g[i - 1], i)
      BY <2>1
    <3>. QED  BY <1>1, <2>2, <3>1
  <2>3. 0 \in 0 .. n
    BY <1>0
  <2>4. g[0] \in T[0]
    BY <1>2, <2>1, <2>3
  <2>5. PICK S : S = T
    OBVIOUS
  <2>6. g[0] \in S[0] /\ \A i \in 1 .. n : g[i - 1] \in S[i - 1] => g[i] \in S[i]
    BY <2>2, <2>4, <2>5
  <2>7. g[n] \in S[n]
    BY <1>0, <2>6, StaysWithin
  <2>. QED  BY <2>5, <2>7
<1>9. g[n] \in Seq(Front(n)) /\ (Unique(q) => Unique(g[n]))
  BY <1>0, <1>8 DEF T
<1>10. Front(n) \subseteq {r \in R : r.id # v}
  OBVIOUS
<1>11. g[n] \in Seq({r \in R : r.id # v})
  BY <1>9, <1>10, SequenceGrows
<1>. QED  BY <1>7, <1>9, <1>11

(***************************************************************************)
(* One round through a queue.                                              *)
(***************************************************************************)
PacketQueue == {"createQ", "updateQ", "reqCreateQ", "reqUpdateQ"}

\* A record that has been sent once more.
Sent(r) == [r EXCEPT !.left = @ - 1]

Resendable(R) == \A r \in R : r.left > 1 => Sent(r) \in R /\ Sent(r).id = r.id

Turn(R) ==
    [recs : Seq({PacketElement(r) : r \in R}), again : Seq(R), kept : Seq(R), stop : BOOLEAN]

\* What becomes of the record r in a turn from c to d.
Turned(k, used, c, r, d) ==
    \/ d.recs = c.recs /\ d.again = c.again /\ d.kept = Append(c.kept, r)
    \/ d.recs = c.recs /\ d.again = c.again /\ d.kept = c.kept
    \/ /\ Fits(k, Len(c.recs) + 1, used)
       /\ d.recs = Append(c.recs, PacketElement(r)) /\ d.kept = c.kept
       /\ \/ d.again = c.again
          \/ r.left > 1 /\ d.again = Append(c.again, Sent(r))

\* In a turn the record is kept, dropped, or sent once.
LEMMA TurnCases ==
    ASSUME NEW s, NEW k, NEW used, NEW R, Resendable(R), NEW c \in Turn(R), NEW r \in R,
           NEW d, d = TakeRecord(s, k, used, c, r)
    PROVE  d \in Turn(R) /\ Turned(k, used, c, r, d)
<1>1. PICK a, e, g : a = Append(c.kept, r) /\ e = PacketElement(r)
                     /\ g = IF r.left > 1 THEN Append(c.again, Sent(r)) ELSE c.again
  OBVIOUS
<1>2. a \in Seq(R) /\ Append(c.recs, e) \in Seq({PacketElement(x) : x \in R}) /\ g \in Seq(R)
  <2>1. c.kept \in Seq(R) /\ c.again \in Seq(R)
        /\ c.recs \in Seq({PacketElement(x) : x \in R})
    BY DEF Turn
  <2>2. g \in Seq(R)
    BY <1>1, <2>1 DEF Resendable
  <2>. QED  BY <1>1, <2>1, <2>2
<1>3. \/ d = [c EXCEPT !.kept = a]
      \/ d = c
      \/ d = [c EXCEPT !.stop = TRUE, !.kept = a]
      \/ /\ Fits(k, Len(c.recs) + 1, used)
         /\ d = [c EXCEPT !.recs = Append(@, e), !.again = g]
  BY <1>1, Zenon DEF TakeRecord, Sent
<1>4. CASE d = [c EXCEPT !.kept = a]
  BY <1>1, <1>2, <1>4 DEF Turn, Turned
<1>5. CASE d = c
  BY <1>5 DEF Turned
<1>6. CASE d = [c EXCEPT !.stop = TRUE, !.kept = a]
  BY <1>1, <1>2, <1>6 DEF Turn, Turned
<1>7. CASE /\ Fits(k, Len(c.recs) + 1, used)
           /\ d = [c EXCEPT !.recs = Append(@, e), !.again = g]
  <2>1. d \in Turn(R) /\ d.recs = Append(c.recs, e) /\ d.kept = c.kept /\ d.again = g
    BY <1>2, <1>7 DEF Turn
  <2>2. g = c.again \/ (r.left > 1 /\ g = Append(c.again, Sent(r)))
    BY <1>1
  <2>. QED  BY <1>1, <1>7, <2>1, <2>2 DEF Turned
<1>. QED  BY <1>3, <1>4, <1>5, <1>6, <1>7

\* The records kept and those sent again are of the first i in q, and distinct.
Apart(c, q, i) ==
    /\ \A a \in 1 .. Len(c.kept) : \E j \in 1 .. i : c.kept[a].id = q[j].id
    /\ \A a \in 1 .. Len(c.again) : \E j \in 1 .. i : c.again[a].id = q[j].id
    /\ Unique(c.kept) /\ Unique(c.again)
    /\ \A a \in 1 .. Len(c.kept), b \in 1 .. Len(c.again) : c.kept[a].id # c.again[b].id

\* One more record, at one of the two ends or nowhere.
LEMMA ApartGoesOn ==
    ASSUME NEW R, NEW q \in Seq(R), Unique(q), NEW i \in 1 .. Len(q),
           NEW c, c.kept \in Seq(R), c.again \in Seq(R), Apart(c, q, i - 1), NEW d,
           \/ d.kept = c.kept /\ d.again = c.again
           \/ /\ \E x \in R : x.id = q[i].id /\ d.kept = Append(c.kept, x)
              /\ d.again = c.again
           \/ /\ \E x \in R : x.id = q[i].id /\ d.again = Append(c.again, x)
              /\ d.kept = c.kept
    PROVE  Apart(d, q, i)
<1>1. ASSUME NEW j \in 1 .. i - 1
      PROVE  q[j].id # q[i].id
  BY <1>1, SMTT(30) DEF Unique
<1>2. /\ \A a \in 1 .. Len(c.kept) :
            c.kept[a].id # q[i].id /\ \E j \in 1 .. i : c.kept[a].id = q[j].id
      /\ \A a \in 1 .. Len(c.again) :
            c.again[a].id # q[i].id /\ \E j \in 1 .. i : c.again[a].id = q[j].id
  <2>1. \A j \in 1 .. i - 1 : j \in 1 .. i
    OBVIOUS
  <2>. QED  BY <1>1, <2>1 DEF Apart
<1>3. CASE d.kept = c.kept /\ d.again = c.again
  BY <1>2, <1>3 DEF Apart
<1>4. ASSUME NEW x \in R, x.id = q[i].id, d.kept = Append(c.kept, x), d.again = c.again
      PROVE  Apart(d, q, i)
  <2>1. PICK n \in Nat : n = Len(c.kept)
    OBVIOUS
  <2>2. /\ Len(d.kept) = n + 1 /\ d.kept[n + 1] = x
        /\ \A a \in 1 .. n : d.kept[a] = c.kept[a]
    BY <1>4, <2>1
  <2>3. Unique(d.kept)
    <3>1. Unique(c.kept) /\ \A a \in 1 .. Len(c.kept) : c.kept[a].id # x.id
      BY <1>2, <1>4 DEF Apart
    <3>. QED  BY <1>4, <3>1, AppendUnique
  <2>4. \A a \in 1 .. n + 1 : \/ a \in 1 .. n /\ d.kept[a] = c.kept[a]
                              \/ d.kept[a].id = q[i].id
    BY <1>4, <2>2
  <2>5. \A a \in 1 .. n + 1 : \E j \in 1 .. i : d.kept[a].id = q[j].id
    BY <1>2, <2>1, <2>4, SMTT(30)
  <2>6. \A a \in 1 .. n + 1, b \in 1 .. Len(d.again) : d.kept[a].id # d.again[b].id
    BY <1>2, <1>4, <2>1, <2>4, SMTT(30) DEF Apart
  <2>7. Unique(d.again) /\ \A a \in 1 .. Len(d.again) : \E j \in 1 .. i : d.again[a].id = q[j].id
    <3>1. Unique(c.again)
      BY DEF Apart
    <3>2. d.again = c.again
      BY <1>4
    <3>3. \A a \in 1 .. Len(c.again) : \E j \in 1 .. i : c.again[a].id = q[j].id
      BY <1>2
    <3>. QED  BY <3>1, <3>2, <3>3, Zenon
  <2>. QED  BY <2>2, <2>3, <2>5, <2>6, <2>7 DEF Apart
<1>5. ASSUME NEW x \in R, x.id = q[i].id, d.again = Append(c.again, x), d.kept = c.kept
      PROVE  Apart(d, q, i)
  <2>1. PICK n \in Nat : n = Len(c.again)
    OBVIOUS
  <2>2. /\ Len(d.again) = n + 1 /\ d.again[n + 1] = x
        /\ \A a \in 1 .. n : d.again[a] = c.again[a]
    BY <1>5, <2>1
  <2>3. Unique(d.again)
    <3>1. Unique(c.again) /\ \A a \in 1 .. Len(c.again) : c.again[a].id # x.id
      BY <1>2, <1>5 DEF Apart
    <3>. QED  BY <1>5, <3>1, AppendUnique
  <2>4. \A a \in 1 .. n + 1 : \/ a \in 1 .. n /\ d.again[a] = c.again[a]
                              \/ d.again[a].id = q[i].id
    BY <1>5, <2>2
  <2>5. \A a \in 1 .. n + 1 : \E j \in 1 .. i : d.again[a].id = q[j].id
    BY <1>2, <2>1, <2>4, SMTT(30)
  <2>6. \A a \in 1 .. Len(d.kept), b \in 1 .. n + 1 : d.kept[a].id # d.again[b].id
    BY <1>2, <1>5, <2>1, <2>4, SMTT(30) DEF Apart
  <2>7. Unique(d.kept) /\ \A a \in 1 .. Len(d.kept) : \E j \in 1 .. i : d.kept[a].id = q[j].id
    <3>1. Unique(c.kept)
      BY DEF Apart
    <3>2. d.kept = c.kept
      BY <1>5
    <3>3. \A a \in 1 .. Len(c.kept) : \E j \in 1 .. i : c.kept[a].id = q[j].id
      BY <1>2
    <3>. QED  BY <3>1, <3>2, <3>3, Zenon
  <2>. QED  BY <2>2, <2>3, <2>5, <2>6, <2>7 DEF Apart
<1>. QED  BY <1>3, <1>4, <1>5

\* What a round takes from a queue and what it leaves are records of the queue; what is taken
\* has room.
LEMMA RoundOK ==
    ASSUME NEW s, NEW k \in PacketQueue, NEW used, NEW R, Resendable(R),
           NEW q \in Seq(R), s[k] = q, NEW c, c = Round(s, k, used)
    PROVE  /\ c.kept \o c.again \in Seq(R)
           /\ Unique(q) => Unique(c.kept \o c.again)
           /\ c.recs \in Seq({PacketElement(r) : r \in R})
           /\ c.recs # <<>> => Fits(k, Len(c.recs), used)
<1> DEFINE start == [recs |-> <<>>, again |-> <<>>, kept |-> <<>>, stop |-> Closed(s, k, used)]
           Body(d, i) == TakeRecord(s, k, used, d, q[i])
           T == [i \in 0 .. Len(q) |->
                   {d \in Turn(R) : /\ Unique(q) => Apart(d, q, i)
                                    /\ d.recs # <<>> => Fits(k, Len(d.recs), used)}]
           F == [i \in 1 .. Len(q) |-> [d \in T[i - 1] |-> Body(d, i)]]
           Loop(g) == g = [i \in 0 .. Len(q) |-> IF i = 0 THEN start ELSE Body(g[i - 1], i)]
<1>0. PICK n : n = Len(q) /\ n \in Nat
  OBVIOUS
<1>1. ASSUME NEW i \in 1 .. n, NEW d \in T[i - 1]
      PROVE  Body(d, i) \in T[i]
  <2>1. i \in 0 .. n /\ i - 1 \in 0 .. n /\ i \in 1 .. Len(q) /\ q[i] \in R
    BY <1>0
  <2>2. /\ d \in Turn(R) /\ (Unique(q) => Apart(d, q, i - 1))
        /\ d.recs # <<>> => Fits(k, Len(d.recs), used)
    BY <1>0, <2>1
  <2>3. PICK e, r : e = Body(d, i) /\ r = q[i]
    OBVIOUS
  <2>4. e = TakeRecord(s, k, used, d, r) /\ r \in R
    BY <2>1, <2>3
  <2> HIDE DEF Body
  <2>5. e \in Turn(R) /\ Turned(k, used, d, r, e)
    <3>1. d \in Turn(R)
      BY <2>2
    <3>. QED  BY <2>4, <3>1, TurnCases
  <2>6. d.kept \in Seq(R) /\ d.again \in Seq(R)
        /\ d.recs \in Seq({PacketElement(x) : x \in R})
    BY <2>2 DEF Turn
  <2>7. ASSUME Unique(q)
        PROVE  Apart(e, q, i)
    <3>1. \/ e.kept = d.kept /\ e.again = d.again
          \/ /\ \E x \in R : x.id = q[i].id /\ e.kept = Append(d.kept, x)
             /\ e.again = d.again
          \/ /\ \E x \in R : x.id = q[i].id /\ e.again = Append(d.again, x)
             /\ e.kept = d.kept
      BY <2>3, <2>4, <2>5 DEF Resendable, Turned
    <3>2. Apart(d, q, i - 1)
      BY <2>2, <2>7
    <3>. QED  BY <2>1, <2>6, <2>7, <3>1, <3>2, ApartGoesOn
  <2>8. ASSUME e.recs # <<>>
        PROVE  Fits(k, Len(e.recs), used)
    <3>1. CASE e.recs = d.recs
      BY <2>2, <2>8, <3>1
    <3>2. CASE Fits(k, Len(d.recs) + 1, used) /\ e.recs = Append(d.recs, PacketElement(r))
      <4>1. Len(e.recs) = Len(d.recs) + 1
        BY <2>6, <3>2
      <4>. QED  BY <3>2, <4>1
    <3>. QED  BY <2>5, <3>1, <3>2 DEF Turned
  <2>9. e \in T[i]
    BY <1>0, <2>1, <2>5, <2>7, <2>8
  <2>. QED  BY <2>3, <2>9
<1>2. start \in T[0]
  <2>1. Closed(s, k, used) \in BOOLEAN
    <3>1. CASE k \in {"createQ", "updateQ"}
      <4>1. Closed(s, k, used) <=> used >= MaxPacketSize
        BY <3>1 DEF Closed
      <4>2. Closed(s, k, used) = (used >= MaxPacketSize)
        BY <3>1 DEF Closed
      <4>. QED  BY <4>2
    <3>2. CASE k = "reqCreateQ"
      BY <3>2 DEF Closed
    <3>3. CASE k = "reqUpdateQ"
      BY <3>3 DEF Closed
    <3>. QED  BY <3>1, <3>2, <3>3 DEF PacketQueue
  <2>2. start \in Turn(R)
    BY <2>1 DEF Turn
  <2>3. Apart(start, q, 0) /\ start.recs = <<>>
    BY DEF Apart, Unique
  <2>. QED  BY <1>0, <2>2, <2>3
<1> HIDE DEF Body, T, start
<1>3. PICK f : Steps(f, F, start, n) /\ \A i \in 0 .. n : f[i] \in T[i]
  <2>1. PICK G : G = F
    OBVIOUS
  <2>2. \A i \in 1 .. n : G[i] \in [T[i - 1] -> T[i]]
    BY <1>0, <1>1, <2>1
  <2> HIDE DEF F
  <2>3. PICK S, a : S = T /\ a = start
    OBVIOUS
  <2>4. a \in S[0] /\ \A i \in 1 .. n : G[i] \in [S[i - 1] -> S[i]]
    BY <1>2, <2>2, <2>3
  <2>5. \E f : Steps(f, G, a, n) /\ \A i \in 0 .. n : f[i] \in S[i]
    BY <1>0, <2>4, Iterated
  <2>. QED  BY <2>1, <2>3, <2>5
<1>4. Loop(f)
  <2>1. ASSUME NEW i \in 0 .. n
        PROVE  (IF i = 0 THEN start ELSE F[i][f[i - 1]])
               = IF i = 0 THEN start ELSE Body(f[i - 1], i)
    <3>1. CASE i = 0
      BY <3>1
    <3>2. CASE i # 0
      <4>1. i \in 1 .. n /\ i - 1 \in 0 .. n /\ i \in 1 .. Len(q)
        BY <1>0, <3>2
      <4>2. f[i - 1] \in T[i - 1]
        BY <1>3, <4>1
      <4>. QED  BY <3>2, <4>1, <4>2
    <3>. QED  BY <3>1, <3>2
  <2>. QED  BY <1>0, <1>3, <2>1, Zenon DEF Steps
<1>5. PICK g : g = CHOOSE h : Loop(h)
  OBVIOUS
<1>6. Loop(g)
  BY <1>4, <1>5, Zenon
<1>7. c = g[n]
  BY <1>0, <1>5, Zenon DEF Round, Body, start
<1>8. g[n] \in T[n]
  <2>1. \A i \in 0 .. n : g[i] = IF i = 0 THEN start ELSE Body(g[i - 1], i)
    BY <1>0, <1>6, Zenon
  <2>2. ASSUME NEW i \in 1 .. n, g[i - 1] \in T[i - 1]
        PROVE  g[i] \in T[i]
    <3>1. g[i] = Body(g[i - 1], i)
      BY <2>1
    <3>. QED  BY <1>1, <2>2, <3>1
  <2>3. 0 \in 0 .. n
    BY <1>0
  <2>4. g[0] \in T[0]
    BY <1>2, <2>1, <2>3
  <2>5. PICK S : S = T
    OBVIOUS
  <2>6. g[0] \in S[0] /\ \A i \in 1 .. n : g[i - 1] \in S[i - 1] => g[i] \in S[i]
    BY <2>2, <2>4, <2>5
  <2>7. g[n] \in S[n]
    BY <1>0, <2>6, StaysWithin
  <2>. QED  BY <2>5, <2>7
<1>9. /\ c \in Turn(R) /\ (Unique(q) => Apart(c, q, n))
      /\ c.recs # <<>> => Fits(k, Len(c.recs), used)
  BY <1>0, <1>7, <1>8 DEF T
<1>10. c.kept \in Seq(R) /\ c.again \in Seq(R)
       /\ c.recs \in Seq({PacketElement(x) : x \in R})
  BY <1>9 DEF Turn
<1>11. ASSUME Unique(q)
       PROVE  Unique(c.kept \o c.again)
  <2>1. /\ Unique(c.kept) /\ Unique(c.again)
        /\ \A a \in 1 .. Len(c.kept), b \in 1 .. Len(c.again) : c.kept[a].id # c.again[b].id
    BY <1>9, <1>11 DEF Apart
  <2>. QED  BY <1>10, <2>1, JoinUnique
<1>. QED  BY <1>9, <1>10, <1>11

(***************************************************************************)
(* What the data of a node are.  The history h says which value of each    *)
(* variable is the newest that its producer has written (-1 when there is  *)
(* none), and how many updates there may be.                               *)
(***************************************************************************)
IsHistory(h) ==
    h.updates \in Nat /\ \A v \in VarId : h.newest[v] \in Int /\ h.newest[v] <= h.updates

\* The history h goes on to be k.
Continues(h, k) ==
    /\ IsHistory(h) /\ IsHistory(k) /\ k.updates = h.updates
    /\ \A v \in VarId : h.newest[v] <= k.newest[v]

\* So few updates that sequence numbers order them.
Few(h) == 2 * h.updates <= SeqnoModulus

\* The producer of v has written the value x, with the number q.
Written(h, v, x, q) == x <= h.newest[v] /\ q = 1 + (x % (SeqnoModulus - 1))

Database == UNION {[D -> RTDBVariable] : D \in SUBSET VarId}

\* The records there can be in the queues of a node with the database db.
GenuineCreates(h) == {r \in RTDBVarCreate : Written(h, r.id, r.val, r.seqNo)}
GenuineUpdates(h) == {r \in RTDBVarUpdate : Written(h, r.id, r.val, r.seqNo)}

Creates(h, db) ==
    {r \in GenuineCreates(h) : r.id \in DOMAIN db /\ (Few(h) => r.val <= db[r.id].val)}
Updates(db) ==
    {r \in RTDBVarUpdate : /\ r.id \in DOMAIN db
                           /\ r.seqNo = db[r.id].seqNo /\ r.val = db[r.id].val}
ReqUpdates(me, db) ==
    {r \in RTDBVarReqUpdate : /\ r.id \in DOMAIN db /\ db[r.id].producer # me
                              /\ r.seqNo = db[r.id].seqNo}

\* Each of D, once.
IsRound(q, D) ==
    /\ q \in Seq(D) /\ \A i, j \in 1 .. Len(q) : q[i] = q[j] => i = j
    /\ \A v \in D : \E i \in 1 .. Len(q) : q[i] = v

Shape ==
    [db : Database, createQ : Seq(RTDBVarCreate), updateQ : Seq(RTDBVarUpdate),
     summaryQ : Seq(VarId), reqCreateQ : Seq(RTDBVarReqCreate),
     reqUpdateQ : Seq(RTDBVarReqUpdate)]

\* The data s of the node me.
Sound(h, me, s) ==
    /\ s \in Shape
    /\ \A v \in DOMAIN s.db : Written(h, v, s.db[v].val, s.db[v].seqNo)
    /\ s.createQ \in Seq(Creates(h, s.db)) /\ Unique(s.createQ)
    /\ s.updateQ \in Seq(Updates(s.db)) /\ Unique(s.updateQ)
    /\ s.reqUpdateQ \in Seq(ReqUpdates(me, s.db))
    /\ IsRound(s.summaryQ, DOMAIN s.db)

\* What node me may do to its data s: no variable is lost, and its own are as they were.
Grown(h, me, s, t) ==
    /\ DOMAIN s.db \subseteq DOMAIN t.db
    /\ \A v \in DOMAIN s.db :
          /\ t.db[v].producer = s.db[v].producer
          /\ s.db[v].producer = me => t.db[v].val = s.db[v].val
          /\ Few(h) => s.db[v].val <= t.db[v].val

(***************************************************************************)
(* Databases and records.                                                  *)
(***************************************************************************)
\* The entries of a database.
LEMMA DatabaseFacts ==
    ASSUME NEW db \in Database
    PROVE  /\ DOMAIN db \subseteq VarId /\ db \in [DOMAIN db -> RTDBVariable]
           /\ \A v \in DOMAIN db :
                 /\ v \in VarId /\ db[v] \in RTDBVariable
                 /\ db[v].producer \in NodeId /\ db[v].repCnt \in RepCnt
                 /\ db[v].seqNo \in Seqno /\ db[v].val \in Value
BY DEF Database, RTDBVariable

\* The database e is db with the entry x of v.
IsWith(e, db, v, x) ==
    /\ e \in Database /\ DOMAIN e = DOMAIN db \cup {v} /\ e[v] = x
    /\ \A w \in DOMAIN db : w # v => e[w] = db[w]

\* With writes one entry.
LEMMA WithOK ==
    ASSUME NEW db \in Database, NEW v \in VarId, NEW x \in RTDBVariable,
           NEW e, e = With(db, v, x)
    PROVE  IsWith(e, db, v, x)
<1>1. DOMAIN db \subseteq VarId /\ db \in [DOMAIN db -> RTDBVariable]
  BY DatabaseFacts
<1>2. PICK D : D = DOMAIN db \cup {v}
  OBVIOUS
<1>3. e = [w \in D |-> IF w = v THEN x ELSE db[w]]
  BY <1>2 DEF With
<1>4. e \in [D -> RTDBVariable] /\ D \in SUBSET VarId
  BY <1>1, <1>2, <1>3
<1>5. e \in Database
  BY <1>4 DEF Database
<1>. QED  BY <1>2, <1>3, <1>5 DEF IsWith

\* The fields of the data.
LEMMA ShapeFacts ==
    ASSUME NEW s \in Shape
    PROVE  /\ s.db \in Database /\ s.createQ \in Seq(RTDBVarCreate)
           /\ s.updateQ \in Seq(RTDBVarUpdate) /\ s.summaryQ \in Seq(VarId)
           /\ s.reqCreateQ \in Seq(RTDBVarReqCreate) /\ s.reqUpdateQ \in Seq(RTDBVarReqUpdate)
BY DEF Shape

\* The records made of an entry.
LEMMA RecordsMade ==
    ASSUME NEW s, s.db \in Database, NEW v \in DOMAIN s.db, NEW e, e = s.db[v]
    PROVE  /\ VarCreate(s, v) \in RTDBVarCreate /\ VarUpdate(s, v) \in RTDBVarUpdate
           /\ VarReqUpdate(s, v) \in RTDBVarReqUpdate
           /\ VarCreate(s, v).id = v /\ VarCreate(s, v).val = e.val
           /\ VarCreate(s, v).seqNo = e.seqNo
           /\ VarUpdate(s, v).id = v /\ VarUpdate(s, v).val = e.val
           /\ VarUpdate(s, v).seqNo = e.seqNo
           /\ VarReqUpdate(s, v).id = v /\ VarReqUpdate(s, v).seqNo = e.seqNo
<1>1. /\ v \in VarId /\ e.producer \in NodeId /\ e.repCnt \in RepCnt
      /\ e.seqNo \in Seqno /\ e.val \in Value
  BY DatabaseFacts
<1>2. e.repCnt \in Nat
  BY <1>1 DEF RepCnt
<1>. QED  BY <1>1, <1>2 DEF VarCreate, VarUpdate, VarReqUpdate, RTDBVarCreate, RTDBVarUpdate,
                            RTDBVarReqUpdate

\* What is sent again is the same but for the repetitions that are left.
LEMMA SentIs ==
    ASSUME NEW r, r.left > 1
    PROVE  /\ r \in RTDBVarCreate => /\ Sent(r) \in RTDBVarCreate /\ Sent(r).id = r.id
                                     /\ Sent(r).seqNo = r.seqNo /\ Sent(r).val = r.val
           /\ r \in RTDBVarUpdate => /\ Sent(r) \in RTDBVarUpdate /\ Sent(r).id = r.id
                                     /\ Sent(r).seqNo = r.seqNo /\ Sent(r).val = r.val
           /\ r \in RTDBVarReqCreate => Sent(r) \in RTDBVarReqCreate /\ Sent(r).id = r.id
           /\ r \in RTDBVarReqUpdate => /\ Sent(r) \in RTDBVarReqUpdate /\ Sent(r).id = r.id
                                        /\ Sent(r).seqNo = r.seqNo
<1>1. CASE r \in RTDBVarCreate
  BY <1>1 DEF Sent, RTDBVarCreate, RTDBVarUpdate, RTDBVarReqCreate, RTDBVarReqUpdate
<1>2. CASE r \in RTDBVarUpdate
  BY <1>2 DEF Sent, RTDBVarCreate, RTDBVarUpdate, RTDBVarReqCreate, RTDBVarReqUpdate
<1>3. CASE r \in RTDBVarReqCreate
  BY <1>3 DEF Sent, RTDBVarCreate, RTDBVarUpdate, RTDBVarReqCreate, RTDBVarReqUpdate
<1>4. CASE r \in RTDBVarReqUpdate
  BY <1>4 DEF Sent, RTDBVarCreate, RTDBVarUpdate, RTDBVarReqCreate, RTDBVarReqUpdate
<1>. QED  BY <1>1, <1>2, <1>3, <1>4

\* The records of each queue can be sent again.
LEMMA AllResendable ==
    ASSUME NEW h, NEW db, NEW me
    PROVE  /\ Resendable(Creates(h, db)) /\ Resendable(Updates(db))
           /\ Resendable(RTDBVarReqCreate) /\ Resendable(ReqUpdates(me, db))
<1>1. Resendable(Creates(h, db))
  BY SentIs DEF Resendable, Creates, GenuineCreates
<1>2. Resendable(Updates(db))
  BY SentIs DEF Resendable, Updates
<1>3. Resendable(RTDBVarReqCreate)
  BY SentIs DEF Resendable
<1>4. Resendable(ReqUpdates(me, db))
  BY SentIs DEF Resendable, ReqUpdates
<1>. QED  BY <1>1, <1>2, <1>3, <1>4

\* The element of a packet has the fields of its record.
LEMMA ElementFields ==
    ASSUME NEW r, NEW e, e = PacketElement(r)
    PROVE  /\ r \in RTDBVarCreate =>
                /\ e.id = r.id /\ e.producer = r.producer /\ e.repCnt = r.repCnt
                /\ e.seqNo = r.seqNo /\ e.val = r.val
           /\ r \in RTDBVarUpdate => e.id = r.id /\ e.seqNo = r.seqNo /\ e.val = r.val
           /\ r \in RTDBVarReqCreate => e.id = r.id
           /\ r \in RTDBVarReqUpdate => e.id = r.id
<1>1. CASE r \in RTDBVarCreate
  BY <1>1 DEF PacketElement, RTDBVarCreate, RTDBVarUpdate, RTDBVarReqCreate, RTDBVarReqUpdate
<1>2. CASE r \in RTDBVarUpdate
  BY <1>2 DEF PacketElement, RTDBVarCreate, RTDBVarUpdate, RTDBVarReqCreate, RTDBVarReqUpdate
<1>3. CASE r \in RTDBVarReqCreate
  BY <1>3 DEF PacketElement, RTDBVarCreate, RTDBVarUpdate, RTDBVarReqCreate, RTDBVarReqUpdate
<1>4. CASE r \in RTDBVarReqUpdate
  BY <1>4 DEF PacketElement, RTDBVarCreate, RTDBVarUpdate, RTDBVarReqCreate, RTDBVarReqUpdate
<1>. QED  BY <1>1, <1>2, <1>3, <1>4

(***************************************************************************)
(* The operations on the data of a node.                                   *)
(***************************************************************************)
\* What was written stays written.
LEMMA WrittenGoesOn ==
    ASSUME NEW h, NEW k, Continues(h, k), Value = Nat, NEW v \in VarId, NEW x \in Nat, NEW q,
           Written(h, v, x, q)
    PROVE  Written(k, v, x, q)
<1>1. PICK a \in Int, b \in Int : a = h.newest[v] /\ b = k.newest[v] /\ a <= b
  BY DEF Continues, IsHistory
<1>. QED  BY <1>1 DEF Written

\* The entry of v is new in the database e, or has changed, but not for an older value.
EntryChanges(h, db, e, v) ==
    /\ DOMAIN e = DOMAIN db \cup {v} /\ \A w \in DOMAIN db : w # v => e[w] = db[w]
    /\ v \in DOMAIN db => /\ e[v].producer = db[v].producer
                          /\ Few(h) => db[v].val <= e[v].val

\* Then the records of other variables stay what they are, and creations of v too.
LEMMA RecordsStay ==
    ASSUME NEW h, NEW k, Continues(h, k), Value = Nat, NEW db \in Database, NEW e \in Database,
           NEW v, EntryChanges(h, db, e, v), NEW me
    PROVE  /\ Creates(h, db) \subseteq Creates(k, e)
           /\ \A r \in Updates(db) : r.id # v => r \in Updates(e)
           /\ \A r \in ReqUpdates(me, db) : r.id # v => r \in ReqUpdates(me, e)
<1>1. ASSUME NEW r \in Creates(h, db)
      PROVE  r \in Creates(k, e)
  <2>1. /\ r \in RTDBVarCreate /\ Written(h, r.id, r.val, r.seqNo) /\ r.id \in DOMAIN db
        /\ Few(h) => r.val <= db[r.id].val
    BY DEF Creates, GenuineCreates
  <2>2. r.id \in VarId /\ r.val \in Nat
    BY <2>1 DEF RTDBVarCreate
  <2>3. Written(k, r.id, r.val, r.seqNo)
    BY <2>1, <2>2, WrittenGoesOn
  <2>4. r.id \in DOMAIN e /\ db[r.id].val \in Nat /\ e[r.id].val \in Nat
    BY <2>1, DatabaseFacts DEF EntryChanges
  <2>5. Few(h) <=> Few(k)
    BY DEF Few, Continues
  <2>6. Few(h) => db[r.id].val <= e[r.id].val
    BY <2>1, <2>4 DEF EntryChanges
  <2>7. Few(k) => r.val <= e[r.id].val
    BY <2>1, <2>2, <2>4, <2>5, <2>6
  <2>. QED  BY <2>1, <2>3, <2>4, <2>7 DEF Creates, GenuineCreates
<1>2. ASSUME NEW r \in Updates(db), r.id # v
      PROVE  r \in Updates(e)
  BY <1>2 DEF Updates, EntryChanges
<1>3. ASSUME NEW r \in ReqUpdates(me, db), r.id # v
      PROVE  r \in ReqUpdates(me, e)
  BY <1>3 DEF ReqUpdates, EntryChanges
<1>. QED  BY <1>1, <1>2, <1>3

\* A database that does not change.
LEMMA NothingChanges ==
    ASSUME NEW h, NEW db \in Database, NEW v \in DOMAIN db, Value = Nat
    PROVE  EntryChanges(h, db, db, v)
<1>1. db[v].val \in Nat
  BY DatabaseFacts
<1>. QED  BY <1>1 DEF EntryChanges

\* A node that changes one entry, not its own, to a later value.
LEMMA GrownBy ==
    ASSUME NEW h, NEW me, NEW s, NEW t, s.db \in Database, t.db \in Database, NEW v,
           EntryChanges(h, s.db, t.db, v), Value = Nat,
           v \in DOMAIN s.db /\ s.db[v].producer = me => t.db[v].val = s.db[v].val
    PROVE  Grown(h, me, s, t)
<1>1. PICK db, e : db = s.db /\ e = t.db
  OBVIOUS
<1>2. \A w \in DOMAIN db : db[w].val \in Nat
  BY <1>1, DatabaseFacts
<1>. QED  BY <1>1, <1>2 DEF Grown, EntryChanges

\* One change after the other.
LEMMA GrownFurther ==
    ASSUME NEW h, NEW me, NEW s, NEW t, NEW u, s.db \in Database, t.db \in Database,
           u.db \in Database, Value = Nat, Grown(h, me, s, t), Grown(h, me, t, u)
    PROVE  Grown(h, me, s, u)
<1>1. PICK a, b, c : a = s.db /\ b = t.db /\ c = u.db
  OBVIOUS
<1>2. /\ \A v \in DOMAIN a : a[v].val \in Nat
      /\ \A v \in DOMAIN b : b[v].val \in Nat
      /\ \A v \in DOMAIN c : c[v].val \in Nat
  BY <1>1, DatabaseFacts
<1>. QED  BY <1>1, <1>2 DEF Grown

\* The round of the summaries with one more variable.
LEMMA RoundWith ==
    ASSUME NEW D, NEW q, IsRound(q, D), NEW v, v \notin D, NEW u, u = Append(q, v)
    PROVE  IsRound(u, D \cup {v})
<1>1. PICK n \in Nat : n = Len(q)
  BY DEF IsRound
<1>2. /\ Len(u) = n + 1 /\ u[n + 1] = v /\ u \in Seq(D \cup {v})
      /\ \A i \in 1 .. n : u[i] = q[i] /\ q[i] \in D /\ i \in 1 .. n + 1
  BY <1>1 DEF IsRound
<1>3. \A w \in D \cup {v} : \E i \in 1 .. n + 1 : u[i] = w
  BY <1>1, <1>2 DEF IsRound
<1>4. ASSUME NEW i \in 1 .. n + 1, NEW j \in 1 .. n + 1, u[i] = u[j]
      PROVE  i = j
  <2>1. CASE i \in 1 .. n /\ j \in 1 .. n
    BY <1>1, <1>2, <1>4, <2>1 DEF IsRound
  <2>2. CASE i = n + 1 /\ j \in 1 .. n
    BY <1>2, <1>4, <2>2
  <2>3. CASE i \in 1 .. n /\ j = n + 1
    BY <1>2, <1>4, <2>3
  <2>. QED  BY <2>1, <2>2, <2>3
<1>. QED  BY <1>2, <1>3, <1>4 DEF IsRound

\* A variable becomes known.
LEMMA CreateFields ==
    ASSUME NEW s \in Shape, NEW v \in VarId, NEW x \in RTDBVariable, NEW t, t = Create(s, v, x)
    PROVE  /\ t \in Shape /\ t.db = With(s.db, v, x) /\ t.summaryQ = Append(s.summaryQ, v)
           /\ t.createQ = Append(s.createQ, VarCreate(t, v))
           /\ t.updateQ = s.updateQ /\ t.reqCreateQ = s.reqCreateQ
           /\ t.reqUpdateQ = s.reqUpdateQ
<1>1. PICK e, q, u : /\ e = With(s.db, v, x) /\ q = Append(s.summaryQ, v)
                     /\ u = [s EXCEPT !.db = e, !.summaryQ = q]
  BY Zenon
<1>2. e \in Database /\ v \in DOMAIN e /\ q \in Seq(VarId)
  <2>1. s.db \in Database /\ s.summaryQ \in Seq(VarId)
    BY ShapeFacts
  <2>2. e \in Database /\ v \in DOMAIN e
    <3>1. PICK db \in Database : db = s.db
      BY <2>1
    <3>2. e = With(db, v, x)
      BY <1>1, <3>1
    <3>3. e \in Database /\ DOMAIN e = DOMAIN db \cup {v}
      BY <3>2, WithOK DEF IsWith
    <3>. QED  BY <3>3
  <2>. QED  BY <1>1, <2>1, <2>2
<1>3. /\ u \in Shape /\ u.db = e /\ u.summaryQ = q /\ u.createQ = s.createQ
      /\ u.updateQ = s.updateQ /\ u.reqCreateQ = s.reqCreateQ /\ u.reqUpdateQ = s.reqUpdateQ
  BY <1>1, <1>2 DEF Shape
<1>4. PICK r : r = VarCreate(u, v)
  OBVIOUS
<1>5. r \in RTDBVarCreate
  BY <1>2, <1>3, <1>4, RecordsMade
<1>6. t = [u EXCEPT !.createQ = Append(@, r)]
  BY <1>1, <1>4 DEF Create
<1>7. PICK p : p = Append(u.createQ, r) /\ p \in Seq(RTDBVarCreate)
  <2>1. u.createQ \in Seq(RTDBVarCreate)
    BY <1>3, ShapeFacts
  <2>2. Append(u.createQ, r) \in Seq(RTDBVarCreate)
    BY <1>5, <2>1
  <2>. QED  BY <2>2
<1>8. /\ t \in Shape /\ t.db = u.db /\ t.summaryQ = u.summaryQ /\ t.createQ = p
      /\ t.updateQ = u.updateQ /\ t.reqCreateQ = u.reqCreateQ /\ t.reqUpdateQ = u.reqUpdateQ
  BY <1>3, <1>6, <1>7 DEF Shape
<1>9. VarCreate(t, v) = r
  BY <1>4, <1>8 DEF VarCreate
<1>. QED  BY <1>1, <1>3, <1>7, <1>8, <1>9

\* With a new variable the data stay sound.
LEMMA CreateOK ==
    ASSUME NEW h, NEW k, Continues(h, k), Value = Nat, NEW me, NEW s, Sound(h, me, s),
           NEW v \in VarId, v \notin DOMAIN s.db, NEW x \in RTDBVariable,
           Written(k, v, x.val, x.seqNo), NEW t, t = Create(s, v, x)
    PROVE  Sound(k, me, t) /\ Grown(h, me, s, t)
<1>1. PICK db, e : db = s.db /\ e = t.db
  OBVIOUS
<1>2. s \in Shape /\ db \in Database /\ v \notin DOMAIN db
  BY <1>1, ShapeFacts DEF Sound
<1>3. /\ t \in Shape /\ e = With(db, v, x) /\ t.summaryQ = Append(s.summaryQ, v)
      /\ t.createQ = Append(s.createQ, VarCreate(t, v))
      /\ t.updateQ = s.updateQ /\ t.reqUpdateQ = s.reqUpdateQ
  BY <1>1, <1>2, CreateFields
<1>4. /\ e \in Database /\ DOMAIN e = DOMAIN db \cup {v} /\ e[v] = x
      /\ \A w \in DOMAIN db : w # v => e[w] = db[w]
  <2>1. db \in Database /\ e = With(db, v, x)
    BY <1>2, <1>3
  <2>2. IsWith(e, db, v, x)
    BY <2>1, WithOK
  <2>. QED  BY <2>2 DEF IsWith
<1>5. EntryChanges(h, db, e, v)
  BY <1>2, <1>4 DEF EntryChanges
<1>6. /\ Creates(h, db) \subseteq Creates(k, e)
      /\ \A r \in Updates(db) : r.id # v => r \in Updates(e)
      /\ \A r \in ReqUpdates(me, db) : r.id # v => r \in ReqUpdates(me, e)
  BY <1>2, <1>4, <1>5, RecordsStay
<1>7. /\ s.createQ \in Seq(Creates(h, db)) /\ Unique(s.createQ)
      /\ s.updateQ \in Seq(Updates(db)) /\ Unique(s.updateQ)
      /\ s.reqUpdateQ \in Seq(ReqUpdates(me, db)) /\ IsRound(s.summaryQ, DOMAIN db)
  BY <1>1 DEF Sound
<1>8. ASSUME NEW w \in DOMAIN e
      PROVE  Written(k, w, e[w].val, e[w].seqNo)
  <2>1. CASE w = v
    BY <1>4, <2>1
  <2>2. CASE w # v
    <3>1. w \in DOMAIN db /\ e[w] = db[w]
      BY <1>4, <2>2
    <3>2. Written(h, w, db[w].val, db[w].seqNo)
      BY <1>1, <3>1 DEF Sound
    <3>3. w \in VarId /\ db[w].val \in Nat
      BY <1>2, <3>1, DatabaseFacts
    <3>. QED  BY <3>1, <3>2, <3>3, WrittenGoesOn
  <2>. QED  BY <2>1, <2>2
<1>9. t.createQ \in Seq(Creates(k, e)) /\ Unique(t.createQ)
  <2>1. PICK r : r = VarCreate(t, v)
    OBVIOUS
  <2>2. v \in DOMAIN e
    BY <1>4
  <2>3. r \in RTDBVarCreate /\ r.id = v /\ r.val = x.val /\ r.seqNo = x.seqNo
    BY <1>1, <1>4, <2>1, <2>2, RecordsMade
  <2>4. x.val \in Nat
    BY DEF RTDBVariable
  <2>5. r \in Creates(k, e)
    BY <1>4, <2>2, <2>3, <2>4 DEF Creates, GenuineCreates
  <2>6. s.createQ \in Seq(Creates(k, e))
    BY <1>6, <1>7, SequenceGrows
  <2>7. ASSUME NEW i \in 1 .. Len(s.createQ)
        PROVE  s.createQ[i].id # r.id
    <3>1. s.createQ[i] \in Creates(h, db)
      BY <1>7
    <3>. QED  BY <1>2, <2>3, <3>1 DEF Creates
  <2>8. Unique(Append(s.createQ, r))
    BY <1>7, <2>7, AppendUnique
  <2>9. Append(s.createQ, r) \in Seq(Creates(k, e))
    BY <2>5, <2>6
  <2>. QED  BY <1>3, <2>1, <2>8, <2>9
<1>10. t.updateQ \in Seq(Updates(e))
  <2>1. Updates(db) \subseteq Updates(e)
    BY <1>2, <1>6 DEF Updates
  <2>. QED  BY <1>3, <1>7, <2>1, SequenceGrows
<1>11. t.reqUpdateQ \in Seq(ReqUpdates(me, e))
  <2>1. ReqUpdates(me, db) \subseteq ReqUpdates(me, e)
    BY <1>2, <1>6 DEF ReqUpdates
  <2>. QED  BY <1>3, <1>7, <2>1, SequenceGrows
<1>12. IsRound(t.summaryQ, DOMAIN e)
  <2>1. PICK q, u, D : q = s.summaryQ /\ u = t.summaryQ /\ D = DOMAIN db
    OBVIOUS
  <2>2. IsRound(q, D) /\ v \notin D /\ u = Append(q, v)
    BY <1>2, <1>3, <1>7, <2>1
  <2>3. IsRound(u, D \cup {v})
    BY <2>2, RoundWith
  <2>. QED  BY <1>4, <2>1, <2>3
<1>13. Grown(h, me, s, t)
  BY <1>1, <1>2, <1>4, <1>5, GrownBy
<1>. QED  BY <1>1, <1>3, <1>7, <1>8, <1>9, <1>10, <1>11, <1>12, <1>13 DEF Sound

\* A new value in an entry.
LEMMA UpdatedFields ==
    ASSUME NEW s \in Shape, NEW v \in DOMAIN s.db, NEW q \in Seqno, NEW x \in Value,
           NEW u, u = Updated(s, v, q, x)
    PROVE  /\ u \in Shape /\ DOMAIN u.db = DOMAIN s.db
           /\ u.db[v].val = x /\ u.db[v].seqNo = q /\ u.db[v].producer = s.db[v].producer
           /\ \A w \in DOMAIN s.db : w # v => u.db[w] = s.db[w]
           /\ u.createQ = s.createQ /\ u.updateQ = s.updateQ /\ u.summaryQ = s.summaryQ
           /\ u.reqCreateQ = s.reqCreateQ /\ u.reqUpdateQ = s.reqUpdateQ
<1>1. PICK db \in Database : db = s.db
  BY ShapeFacts
<1>2. v \in DOMAIN db /\ v \in VarId /\ db[v] \in RTDBVariable
  BY <1>1, DatabaseFacts
<1>3. PICK b : b = [db[v] EXCEPT !.seqNo = q, !.val = x]
  OBVIOUS
<1>4. b \in RTDBVariable /\ b.seqNo = q /\ b.producer = db[v].producer /\ b.val = x
  BY <1>2, <1>3 DEF RTDBVariable
<1>5. PICK e : e = With(db, v, b)
  OBVIOUS
<1>6. /\ e \in Database /\ DOMAIN e = DOMAIN db \cup {v} /\ e[v] = b
      /\ \A w \in DOMAIN db : w # v => e[w] = db[w]
  <2>1. IsWith(e, db, v, b)
    BY <1>2, <1>4, <1>5, WithOK
  <2>. QED  BY <2>1 DEF IsWith
<1>7. DOMAIN e = DOMAIN db
  BY <1>2, <1>6
<1>8. u = [s EXCEPT !.db = e]
  BY <1>1, <1>3, <1>5 DEF Updated
<1>9. /\ u \in Shape /\ u.db = e
      /\ u.createQ = s.createQ /\ u.updateQ = s.updateQ /\ u.summaryQ = s.summaryQ
      /\ u.reqCreateQ = s.reqCreateQ /\ u.reqUpdateQ = s.reqUpdateQ
  BY <1>6, <1>8 DEF Shape
<1>. QED  BY <1>1, <1>4, <1>6, <1>7, <1>9

\* The data u are s but for the entry of v, and updates of v that have been asked for.
Renewed(h, k, me, s, u, v) ==
    /\ u \in Shape /\ v \in DOMAIN s.db /\ EntryChanges(h, s.db, u.db, v)
    /\ Written(k, v, u.db[v].val, u.db[v].seqNo)
    /\ u.createQ = s.createQ /\ u.updateQ = s.updateQ /\ u.summaryQ = s.summaryQ
    /\ u.reqUpdateQ \in Seq(ReqUpdates(me, u.db))

\* With a new value that is sent the data stay sound.
LEMMA SendUpdateOK ==
    ASSUME NEW h, NEW k, Continues(h, k), Value = Nat, NEW me, NEW s, Sound(h, me, s), NEW v,
           NEW u, Renewed(h, k, me, s, u, v), NEW t, t = SendUpdate(u, v)
    PROVE  Sound(k, me, t) /\ t.db = u.db
<1>1. PICK db, e : db = s.db /\ e = u.db
  OBVIOUS
<1>2. /\ s \in Shape /\ db \in Database /\ e \in Database /\ u \in Shape
      /\ v \in DOMAIN db /\ EntryChanges(h, db, e, v)
      /\ Written(k, v, e[v].val, e[v].seqNo)
  BY <1>1, ShapeFacts DEF Sound, Renewed
<1>3. v \in DOMAIN e /\ DOMAIN e = DOMAIN db
  BY <1>2 DEF EntryChanges
<1>4. PICK r : r = VarUpdate(u, v)
  OBVIOUS
<1>5. r \in RTDBVarUpdate /\ r.id = v /\ r.val = e[v].val /\ r.seqNo = e[v].seqNo
  BY <1>1, <1>2, <1>3, <1>4, RecordsMade
<1>6. r \in Updates(e)
  BY <1>3, <1>5 DEF Updates
<1>7. PICK q, p : q = s.updateQ /\ p = RemoveID(q, v)
  OBVIOUS
<1>8. q \in Seq(Updates(db)) /\ Unique(q)
  BY <1>1, <1>7 DEF Sound
<1>9. /\ Creates(h, db) \subseteq Creates(k, e)
      /\ \A x \in Updates(db) : x.id # v => x \in Updates(e)
  BY <1>2, RecordsStay
<1>10. p \in Seq({x \in Updates(db) : x.id # v}) /\ Unique(p)
  BY <1>7, <1>8, RemoveIDOK
<1>11. {x \in Updates(db) : x.id # v} \subseteq {x \in Updates(e) : x.id # v}
  BY <1>9
<1>12. p \in Seq({x \in Updates(e) : x.id # v})
  BY <1>10, <1>11, SequenceGrows
<1>13. PICK a : a = Append(p, r)
  OBVIOUS
<1>14. a \in Seq(Updates(e)) /\ Unique(a)
  <2>1. {x \in Updates(e) : x.id # v} \subseteq Updates(e)
    OBVIOUS
  <2>2. p \in Seq(Updates(e))
    BY <1>12, <2>1, SequenceGrows
  <2>3. \A i \in 1 .. Len(p) : p[i].id # r.id
    BY <1>5, <1>12
  <2>4. Unique(Append(p, r))
    BY <1>10, <2>2, <2>3, AppendUnique
  <2>. QED  BY <1>6, <1>13, <2>2, <2>4
<1>15. t = [u EXCEPT !.updateQ = a]
  <2>1. u.updateQ = q
    BY <1>7 DEF Renewed
  <2>. QED  BY <1>4, <1>7, <1>13, <2>1 DEF SendUpdate
<1>16. a \in Seq(RTDBVarUpdate)
  <2>1. Updates(e) \subseteq RTDBVarUpdate
    BY DEF Updates
  <2>. QED  BY <1>14, <2>1, SequenceGrows
<1>17. /\ t \in Shape /\ t.db = e /\ t.updateQ = a /\ t.createQ = u.createQ
       /\ t.summaryQ = u.summaryQ /\ t.reqUpdateQ = u.reqUpdateQ
  BY <1>1, <1>2, <1>15, <1>16 DEF Shape
<1>18. ASSUME NEW w \in DOMAIN e
       PROVE  Written(k, w, e[w].val, e[w].seqNo)
  <2>1. CASE w = v
    BY <1>2, <2>1
  <2>2. CASE w # v
    <3>1. w \in DOMAIN db /\ e[w] = db[w]
      BY <1>2, <1>3, <2>2 DEF EntryChanges
    <3>2. Written(h, w, db[w].val, db[w].seqNo)
      BY <1>1, <3>1 DEF Sound
    <3>3. w \in VarId /\ db[w].val \in Nat
      BY <1>2, <3>1, DatabaseFacts
    <3>. QED  BY <3>1, <3>2, <3>3, WrittenGoesOn
  <2>. QED  BY <2>1, <2>2
<1>19. t.createQ \in Seq(Creates(k, e)) /\ Unique(t.createQ)
  <2>1. s.createQ \in Seq(Creates(h, db)) /\ Unique(s.createQ) /\ u.createQ = s.createQ
    BY <1>1 DEF Sound, Renewed
  <2>2. s.createQ \in Seq(Creates(k, e))
    BY <1>9, <2>1, SequenceGrows
  <2>. QED  BY <1>17, <2>1, <2>2
<1>20. t.reqUpdateQ \in Seq(ReqUpdates(me, e)) /\ IsRound(t.summaryQ, DOMAIN e)
  BY <1>1, <1>3, <1>17 DEF Renewed, Sound
<1>. QED  BY <1>1, <1>14, <1>17, <1>18, <1>19, <1>20 DEF Sound

\* Data that only differ in what is asked for.
Asks(me, s, t) ==
    /\ t \in Shape /\ t.db = s.db /\ t.createQ = s.createQ /\ t.updateQ = s.updateQ
    /\ t.summaryQ = s.summaryQ /\ t.reqUpdateQ \in Seq(ReqUpdates(me, s.db))

\* Requests change nothing that others see.
LEMMA AsksOK ==
    ASSUME NEW h, NEW me, NEW s, Sound(h, me, s), NEW t, Asks(me, s, t)
    PROVE  Sound(h, me, t)
BY DEF Sound, Asks

\* The same database has not gone back.
LEMMA NotGrown ==
    ASSUME NEW h, NEW me, NEW s, s.db \in Database, Value = Nat, NEW t, t.db = s.db
    PROVE  Grown(h, me, s, t)
<1>1. PICK db : db = s.db /\ db = t.db
  OBVIOUS
<1>2. \A v \in DOMAIN db : db[v].val \in Nat
  BY <1>1, DatabaseFacts
<1>. QED  BY <1>1, <1>2 DEF Grown

\* Histories go on from themselves.
LEMMA SameHistory ==
    ASSUME NEW h, IsHistory(h)
    PROVE  Continues(h, h)
BY DEF Continues, IsHistory

\* The next sequence number is that of the next value.
LEMMA NextIsNext ==
    ASSUME RTDBAssumption, NEW n \in Nat
    PROVE  /\ NextSeqno(1 + (n % (SeqnoModulus - 1))) = 1 + ((n + 1) % (SeqnoModulus - 1))
           /\ 1 + ((n + 1) % (SeqnoModulus - 1)) \in Seqno
<1>1. PICK m : m = SeqnoModulus - 1 /\ m \in Nat /\ m > 1 /\ SeqnoModulus = m + 1
  BY DEF RTDBAssumption
<1>2. PICK a, b : a = n % m /\ b = n \div m
  OBVIOUS
<1>3. a \in 0 .. m - 1 /\ b \in Int /\ n = b * m + a
  <2>1. m \in Nat /\ m > 1
    BY <1>1
  <2>. QED  BY <1>2, <2>1
<1>4. CASE a + 1 < m
  <2>1. n + 1 = b * m + (a + 1)
    BY <1>1, <1>3
  <2>2. (n + 1) % m = a + 1
    BY <1>1, <1>3, <1>4, <2>1, SMTT(30)
  <2>3. 1 + a # SeqnoModulus - 1 /\ 1 + (a + 1) \in 0 .. m
    BY <1>1, <1>3, <1>4
  <2>4. NextSeqno(1 + a) = 1 + (a + 1)
    BY <1>3, <2>3 DEF NextSeqno
  <2>. QED  BY <1>1, <1>2, <2>2, <2>3, <2>4 DEF Seqno
<1>5. CASE a + 1 = m
  <2>1. n + 1 = (b + 1) * m
    BY <1>1, <1>3, <1>5
  <2>2. (n + 1) % m = 0
    BY <1>1, <1>3, <2>1, SMTT(30)
  <2>3. 1 + a = SeqnoModulus - 1 /\ 1 + 0 \in 0 .. m
    BY <1>1, <1>3, <1>5
  <2>4. NextSeqno(1 + a) = 1
    BY <2>3 DEF NextSeqno
  <2>. QED  BY <1>1, <1>2, <2>2, <2>3, <2>4 DEF Seqno
<1>. QED  BY <1>1, <1>3, <1>4, <1>5

\* With few updates a number that is more recent is that of a later value.
LEMMA NewerIsLater ==
    ASSUME RTDBAssumption, NEW h, IsHistory(h), Few(h), NEW v \in VarId, NEW x \in Nat,
           NEW y \in Nat, NEW p, NEW q, Written(h, v, x, p), Written(h, v, y, q),
           seqNoMoreRecent(p, q)
    PROVE  x <= y
<1>1. PICK m \in Nat : m = SeqnoModulus /\ m > 3
  BY DEF RTDBAssumption
<1>2. PICK u \in Nat : u = h.updates /\ 2 * u <= m
  BY <1>1 DEF IsHistory, Few
<1>3. x <= u /\ y <= u
  BY <1>2 DEF IsHistory, Written
<1>4. x \in 0 .. m - 2 /\ y \in 0 .. m - 2
  BY <1>1, <1>2, <1>3
<1>5. x % (m - 1) = x /\ y % (m - 1) = y
  BY <1>1, <1>4
<1>6. p = 1 + x /\ q = 1 + y
  BY <1>1, <1>5 DEF Written
<1>7. (q - p) % m < (p - q) % m
  BY <1>1 DEF seqNoMoreRecent
<1>8. ASSUME y < x
      PROVE  FALSE
  <2>1. PICK d \in Nat : d = x - y /\ d > 0 /\ 2 * d <= m
    BY <1>2, <1>3, <1>8
  <2>2. q - p = - d /\ p - q = d
    BY <1>6, <2>1
  <2>3. d % m = d
    BY <1>1, <2>1
  <2>4. (- d) % m = m - d
    BY <1>1, <2>1
  <2>. QED  BY <1>1, <1>7, <2>1, <2>2, <2>3, <2>4
<1>. QED  BY <1>8

(***************************************************************************)
(* What an application asks for.                                           *)
(***************************************************************************)
\* Only the entry of v is another, and that is now e.
OnlyChanged(s, t, v, e) ==
    /\ DOMAIN t.db = DOMAIN s.db \cup {v} /\ t.db[v] = e
    /\ \A w \in DOMAIN s.db : w # v => t.db[w] = s.db[w]

\* A new variable is created, without an error.
LEMMA CreateReqOK ==
    ASSUME RTDBAssumption, Value = Nat, NEW h, NEW k, Continues(h, k), NEW me \in NodeId, NEW s,
           Sound(h, me, s), NEW v \in VarId, ~ Known(s, v), NEW n \in Nat, n <= MaxRepetitions,
           0 <= k.newest[v], NEW t, t = handleAPICreateReq(s, me, v, n, 0)
    PROVE  /\ CreateCode(s, v, n) = "RC_OK" /\ Sound(k, me, t)
           /\ \E e \in RTDBVariable : /\ e.producer = me /\ e.val = 0
                                      /\ OnlyChanged(s, t, v, e)
<1>1. CreateCode(s, v, n) = "RC_OK"
  <2>1. MaxRepetitions \in Nat
    BY DEF RTDBAssumption
  <2>2. ~ (n > MaxRepetitions)
    BY <2>1
  <2>. QED  BY <2>2, Zenon DEF CreateCode
<1>2. PICK e : e = [producer |-> me, repCnt |-> n, seqNo |-> 1, val |-> 0]
  OBVIOUS
<1>3. e \in RTDBVariable /\ e.producer = me /\ e.val = 0 /\ e.seqNo = 1
  <2>1. n \in RepCnt /\ 1 \in Seqno
    BY DEF RTDBAssumption, RepCnt, Seqno
  <2>. QED  BY <1>2, <2>1 DEF RTDBVariable
<1>4. t = Create(s, v, e)
  BY <1>1, <1>2, Zenon DEF handleAPICreateReq
<1>5. Written(k, v, e.val, e.seqNo)
  <2>1. 0 % (SeqnoModulus - 1) = 0
    BY DEF RTDBAssumption
  <2>. QED  BY <1>3, <2>1 DEF Written
<1>6. v \notin DOMAIN s.db
  BY DEF Known
<1>7. Sound(k, me, t)
  <2>1. Sound(k, me, t) /\ Grown(h, me, s, t)
    BY <1>3, <1>4, <1>5, <1>6, CreateOK
  <2>. QED  BY <2>1
<1>8. OnlyChanged(s, t, v, e)
  <2>1. PICK db, d : db = s.db /\ d = t.db /\ db \in Database
    BY ShapeFacts DEF Sound
  <2>2. d = With(db, v, e)
    BY <1>3, <1>4, <2>1, CreateFields DEF Sound
  <2>3. IsWith(d, db, v, e)
    BY <1>3, <2>1, <2>2, WithOK
  <2>. QED  BY <2>1, <2>3 DEF IsWith, OnlyChanged
<1>. QED  BY <1>1, <1>3, <1>7, <1>8

\* A variable of one's own is updated, without an error.
LEMMA UpdateReqOK ==
    ASSUME RTDBAssumption, Value = Nat, NEW h, NEW k, Continues(h, k), NEW me, NEW s,
           Sound(h, me, s), NEW v, Known(s, v), s.db[v].producer = me, NEW y,
           y = s.db[v].val + 1, y <= k.newest[v], NEW t, t = handleAPIUpdateReq(s, me, v, y)
    PROVE  /\ UpdateCode(s, me, v) = "RC_OK" /\ Sound(k, me, t)
           /\ \E e \in RTDBVariable : e.producer = me /\ e.val = y /\ OnlyChanged(s, t, v, e)
<1>1. UpdateCode(s, me, v) = "RC_OK"
  BY Zenon DEF UpdateCode
<1>2. PICK db \in Database : db = s.db /\ v \in DOMAIN db /\ s \in Shape
  BY ShapeFacts DEF Sound, Known
<1>3. PICK x \in Nat : x = db[v].val /\ v \in VarId
  BY <1>2, DatabaseFacts
<1>4. PICK q : q = NextSeqno(db[v].seqNo) /\ q \in Seqno
               /\ q = 1 + ((x + 1) % (SeqnoModulus - 1))
  <2>1. db[v].seqNo = 1 + (x % (SeqnoModulus - 1))
    BY <1>2, <1>3 DEF Sound, Written
  <2>. QED  BY <1>3, <2>1, NextIsNext
<1>5. y = x + 1 /\ y \in Value
  BY <1>2, <1>3
<1>6. PICK u : u = Updated(s, v, q, y)
  BY Zenon
<1>7. /\ u \in Shape /\ DOMAIN u.db = DOMAIN db
      /\ u.db[v].val = y /\ u.db[v].seqNo = q /\ u.db[v].producer = me
      /\ \A w \in DOMAIN db : w # v => u.db[w] = db[w]
      /\ u.createQ = s.createQ /\ u.updateQ = s.updateQ /\ u.summaryQ = s.summaryQ
      /\ u.reqUpdateQ = s.reqUpdateQ
  <2>1. /\ u \in Shape /\ DOMAIN u.db = DOMAIN s.db
        /\ u.db[v].val = y /\ u.db[v].seqNo = q /\ u.db[v].producer = s.db[v].producer
        /\ \A w \in DOMAIN s.db : w # v => u.db[w] = s.db[w]
        /\ u.createQ = s.createQ /\ u.updateQ = s.updateQ /\ u.summaryQ = s.summaryQ
        /\ u.reqUpdateQ = s.reqUpdateQ
    <3>1. s \in Shape /\ v \in DOMAIN s.db /\ q \in Seqno /\ y \in Value
      BY <1>2, <1>4, <1>5, Zenon
    <3>. QED  BY <1>6, <3>1, UpdatedFields
  <2>. QED  BY <1>2, <2>1, Zenon
<1>8. PICK e \in Database : e = u.db
  BY <1>7, ShapeFacts
<1>9. EntryChanges(h, db, e, v)
  BY <1>2, <1>3, <1>5, <1>7, <1>8 DEF EntryChanges
<1>10. u.reqUpdateQ \in Seq(ReqUpdates(me, e))
  <2>1. \A r \in ReqUpdates(me, db) : r.id # v => r \in ReqUpdates(me, e)
    BY <1>9, RecordsStay
  <2>2. ReqUpdates(me, db) \subseteq ReqUpdates(me, e)
    BY <1>2, <2>1 DEF ReqUpdates
  <2>3. s.reqUpdateQ \in Seq(ReqUpdates(me, db))
    BY <1>2 DEF Sound
  <2>. QED  BY <1>7, <2>2, <2>3, SequenceGrows
<1>11. Renewed(h, k, me, s, u, v)
  BY <1>2, <1>4, <1>5, <1>7, <1>8, <1>9, <1>10 DEF Renewed, Written
<1>12. t = SendUpdate(u, v)
  BY <1>1, <1>2, <1>4, <1>5, <1>6, Zenon DEF handleAPIUpdateReq
<1>13. Sound(k, me, t) /\ t.db = u.db
  BY <1>11, <1>12, SendUpdateOK
<1>14. e[v] \in RTDBVariable
  BY <1>2, <1>7, <1>8, DatabaseFacts
<1>15. OnlyChanged(s, t, v, e[v])
  BY <1>2, <1>7, <1>8, <1>13 DEF OnlyChanged
<1>. QED  BY <1>1, <1>5, <1>7, <1>8, <1>13, <1>14, <1>15

(***************************************************************************)
(* What comes in.                                                          *)
(***************************************************************************)
\* An element of the container k of a beacon is made of a record of its sender.
Genuine(h, k, r) ==
    /\ r.id \in VarId
    /\ k = "createQ" => r.producer \in NodeId /\ r.repCnt \in RepCnt
    /\ k \in {"createQ", "updateQ"} =>
          r.seqNo \in Seqno /\ r.val \in Value /\ Written(h, r.id, r.val, r.seqNo)
    /\ k = "summaryQ" => r.seqNo \in Seqno

\* The data s of the node me may become t when it receives.
Received(h, me, s, t) == Sound(h, me, t) /\ Grown(h, me, s, t)

\* Whoever ignores what comes in stays sound.
LEMMA StaysOK ==
    ASSUME NEW h, NEW me, NEW s, Sound(h, me, s), Value = Nat
    PROVE  Received(h, me, s, s)
BY ShapeFacts, NotGrown DEF Received, Sound

\* An unknown variable is asked for.
LEMMA AskForCreateOK ==
    ASSUME NEW h, NEW me, NEW s, Sound(h, me, s), Value = Nat, NEW v \in VarId,
           NEW t, t = AskForCreate(s, v)
    PROVE  Received(h, me, s, t)
<1>1. s \in Shape /\ s.db \in Database
  BY ShapeFacts DEF Sound
<1>2. VarReqCreate(v) \in RTDBVarReqCreate
  BY DEF VarReqCreate, RTDBVarReqCreate
<1>3. PICK q : q = Append(s.reqCreateQ, VarReqCreate(v)) /\ q \in Seq(RTDBVarReqCreate)
  <2>1. s.reqCreateQ \in Seq(RTDBVarReqCreate)
    BY <1>1, ShapeFacts
  <2>2. Append(s.reqCreateQ, VarReqCreate(v)) \in Seq(RTDBVarReqCreate)
    BY <1>2, <2>1
  <2>. QED  BY <2>2
<1>4. t = [s EXCEPT !.reqCreateQ = q]
  BY <1>3 DEF AskForCreate
<1>5. /\ t \in Shape /\ t.db = s.db /\ t.createQ = s.createQ /\ t.updateQ = s.updateQ
      /\ t.summaryQ = s.summaryQ /\ t.reqUpdateQ = s.reqUpdateQ
  BY <1>1, <1>3, <1>4 DEF Shape
<1>6. Asks(me, s, t)
  BY <1>5 DEF Asks, Sound
<1>. QED  BY <1>1, <1>5, <1>6, AsksOK, NotGrown DEF Received

\* A newer value is asked for.
LEMMA AskForUpdateOK ==
    ASSUME NEW h, NEW me, NEW s, Sound(h, me, s), Value = Nat, NEW v \in DOMAIN s.db,
           s.db[v].producer # me,
           NEW t, t = [s EXCEPT !.reqUpdateQ = Append(@, VarReqUpdate(s, v))]
    PROVE  Received(h, me, s, t)
<1>1. s \in Shape /\ s.db \in Database
  BY ShapeFacts DEF Sound
<1>2. PICK r : r = VarReqUpdate(s, v)
  OBVIOUS
<1>3. r \in RTDBVarReqUpdate /\ r.id = v /\ r.seqNo = s.db[v].seqNo
  BY <1>1, <1>2, RecordsMade
<1>4. r \in ReqUpdates(me, s.db)
  BY <1>3 DEF ReqUpdates
<1>5. PICK q : q = Append(s.reqUpdateQ, r) /\ q \in Seq(ReqUpdates(me, s.db))
  <2>1. PICK S : S = ReqUpdates(me, s.db)
    OBVIOUS
  <2>2. s.reqUpdateQ \in Seq(S) /\ r \in S
    BY <1>4, <2>1 DEF Sound
  <2>3. Append(s.reqUpdateQ, r) \in Seq(S)
    BY <2>2
  <2>. QED  BY <2>1, <2>3
<1>6. q \in Seq(RTDBVarReqUpdate)
  <2>1. ReqUpdates(me, s.db) \subseteq RTDBVarReqUpdate
    BY DEF ReqUpdates
  <2>. QED  BY <1>5, <2>1, SequenceGrows
<1>7. t = [s EXCEPT !.reqUpdateQ = q]
  BY <1>2, <1>5
<1>8. /\ t \in Shape /\ t.db = s.db /\ t.createQ = s.createQ /\ t.updateQ = s.updateQ
      /\ t.summaryQ = s.summaryQ /\ t.reqUpdateQ = q
  BY <1>1, <1>6, <1>7 DEF Shape
<1>9. Asks(me, s, t)
  BY <1>5, <1>8 DEF Asks
<1>. QED  BY <1>1, <1>8, <1>9, AsksOK, NotGrown DEF Received

\* What is known is sent once more.
LEMMA SendAgainOK ==
    ASSUME NEW h, IsHistory(h), NEW me, NEW s, Sound(h, me, s), Value = Nat,
           NEW v \in DOMAIN s.db, NEW t, t = SendUpdate(s, v)
    PROVE  Received(h, me, s, t)
<1>1. s \in Shape /\ s.db \in Database
  BY ShapeFacts DEF Sound
<1>2. EntryChanges(h, s.db, s.db, v)
  BY <1>1, NothingChanges
<1>3. Renewed(h, h, me, s, s, v)
  BY <1>1, <1>2 DEF Renewed, Sound
<1>4. Continues(h, h)
  BY SameHistory
<1>5. Sound(h, me, t) /\ t.db = s.db
  BY <1>3, <1>4, SendUpdateOK
<1>. QED  BY <1>1, <1>5, NotGrown DEF Received

\* A creation makes an unknown variable known.
LEMMA ProcessCreateOK ==
    ASSUME NEW h, IsHistory(h), NEW me, NEW s, Sound(h, me, s), Value = Nat,
           NEW r, Genuine(h, "createQ", r), NEW t, t = processCreate(s, r)
    PROVE  Received(h, me, s, t)
<1>1. CASE Known(s, r.id)
  BY <1>1, StaysOK DEF processCreate
<1>2. CASE ~ Known(s, r.id)
  <2>1. PICK v, e : v = r.id /\ e = [producer |-> r.producer, repCnt |-> r.repCnt,
                                     seqNo |-> r.seqNo, val |-> r.val]
    OBVIOUS
  <2>2. /\ v \in VarId /\ v \notin DOMAIN s.db /\ e \in RTDBVariable
        /\ Written(h, v, e.val, e.seqNo)
    BY <1>2, <2>1 DEF Genuine, RTDBVariable, Known
  <2>3. PICK u : u = Create(s, v, e)
    OBVIOUS
  <2>4. Continues(h, h)
    BY SameHistory
  <2>5. Sound(h, me, u) /\ Grown(h, me, s, u)
    BY <2>2, <2>3, <2>4, CreateOK
  <2>6. t = [u EXCEPT !.reqCreateQ = RemoveID(@, v)]
    BY <1>2, <2>1, <2>3 DEF processCreate
  <2>7. u \in Shape
    BY <2>5 DEF Sound
  <2>8. PICK q : q = RemoveID(u.reqCreateQ, v) /\ q \in Seq(RTDBVarReqCreate)
    <3>1. PICK p \in Seq(RTDBVarReqCreate) : p = u.reqCreateQ
      BY <2>7, ShapeFacts
    <3>2. RemoveID(p, v) \in Seq({x \in RTDBVarReqCreate : x.id # v})
      BY RemoveIDOK
    <3>3. {x \in RTDBVarReqCreate : x.id # v} \subseteq RTDBVarReqCreate
      OBVIOUS
    <3>4. RemoveID(p, v) \in Seq(RTDBVarReqCreate)
      BY <3>2, <3>3, SequenceGrows
    <3>. QED  BY <3>1, <3>4
  <2>9. t = [u EXCEPT !.reqCreateQ = q]
    BY <2>6, <2>8
  <2>10. /\ t \in Shape /\ t.db = u.db /\ t.createQ = u.createQ /\ t.updateQ = u.updateQ
         /\ t.summaryQ = u.summaryQ /\ t.reqUpdateQ = u.reqUpdateQ
    BY <2>7, <2>8, <2>9 DEF Shape
  <2>11. Asks(me, u, t)
    BY <2>5, <2>10 DEF Asks, Sound
  <2>12. Sound(h, me, t)
    BY <2>5, <2>11, AsksOK
  <2>13. Grown(h, me, s, t)
    BY <2>5, <2>10 DEF Grown
  <2>. QED  BY <2>12, <2>13 DEF Received
<1>. QED  BY <1>1, <1>2

\* An update is taken over if it is more recent.
LEMMA ProcessUpdateOK ==
    ASSUME RTDBAssumption, NEW h, IsHistory(h), NEW me, NEW s, Sound(h, me, s), Value = Nat,
           NEW r, Genuine(h, "updateQ", r), NEW t, t = processUpdate(s, me, r)
    PROVE  Received(h, me, s, t)
<1>1. PICK v, x, q : v = r.id /\ x = r.val /\ q = r.seqNo
  OBVIOUS
<1>2. v \in VarId /\ q \in Seqno /\ x \in Value /\ Written(h, v, x, q)
  BY <1>1 DEF Genuine
<1>3. PICK y : y = [Updated(s, v, q, x) EXCEPT !.reqUpdateQ = RemoveID(@, v)]
  OBVIOUS
<1>4. CASE t = AskForCreate(s, v)
  BY <1>2, <1>4, AskForCreateOK
<1>5. CASE t = s
  BY <1>5, StaysOK
<1>6. CASE /\ v \in DOMAIN s.db /\ s.db[v].producer # me
           /\ seqNoMoreRecent(s.db[v].seqNo, q) /\ t = SendUpdate(y, v)
  <2>1. PICK db \in Database : db = s.db /\ s \in Shape /\ v \in DOMAIN db
    BY <1>6, ShapeFacts DEF Sound
  <2>2. PICK u : u = Updated(s, v, q, x)
    OBVIOUS
  <2>3. /\ u \in Shape /\ DOMAIN u.db = DOMAIN db
        /\ u.db[v].val = x /\ u.db[v].seqNo = q /\ u.db[v].producer = db[v].producer
        /\ \A w \in DOMAIN db : w # v => u.db[w] = db[w]
        /\ u.createQ = s.createQ /\ u.updateQ = s.updateQ /\ u.summaryQ = s.summaryQ
        /\ u.reqUpdateQ = s.reqUpdateQ
    BY <1>2, <2>1, <2>2, UpdatedFields
  <2>4. PICK e \in Database : e = u.db
    BY <2>3, ShapeFacts
  <2>5. Few(h) => db[v].val <= x
    <3>1. Written(h, v, db[v].val, db[v].seqNo)
      BY <2>1 DEF Sound
    <3>2. db[v].val \in Nat /\ x \in Nat
      BY <1>2, <2>1, DatabaseFacts
    <3>. QED  BY <1>2, <1>6, <2>1, <3>1, <3>2, NewerIsLater
  <2>6. EntryChanges(h, db, e, v)
    BY <2>1, <2>3, <2>4, <2>5 DEF EntryChanges
  <2>7. PICK p : p = RemoveID(s.reqUpdateQ, v) /\ p \in Seq(ReqUpdates(me, e))
    <3>1. PICK R, g : R = ReqUpdates(me, db) /\ g = s.reqUpdateQ /\ g \in Seq(R)
      BY <2>1 DEF Sound
    <3>2. RemoveID(g, v) \in Seq({a \in R : a.id # v})
      BY <3>1, RemoveIDOK
    <3>3. {a \in R : a.id # v} \subseteq ReqUpdates(me, e)
      <4>1. Continues(h, h)
        BY SameHistory
      <4>2. \A a \in R : a.id # v => a \in ReqUpdates(me, e)
        BY <2>6, <3>1, <4>1, RecordsStay
      <4>. QED  BY <4>2
    <3>4. RemoveID(g, v) \in Seq(ReqUpdates(me, e))
      BY <3>2, <3>3, SequenceGrows
    <3>. QED  BY <3>1, <3>4
  <2>8. p \in Seq(RTDBVarReqUpdate)
    <3>1. ReqUpdates(me, e) \subseteq RTDBVarReqUpdate
      BY DEF ReqUpdates
    <3>. QED  BY <2>7, <3>1, SequenceGrows
  <2>9. y = [u EXCEPT !.reqUpdateQ = p]
    <3>1. y = [u EXCEPT !.reqUpdateQ = RemoveID(@, v)]
      BY <1>3, <2>2
    <3>. QED  BY <2>3, <2>7, <3>1
  <2>10. /\ y \in Shape /\ y.db = e /\ y.createQ = u.createQ /\ y.updateQ = u.updateQ
         /\ y.summaryQ = u.summaryQ /\ y.reqUpdateQ = p
    BY <2>3, <2>4, <2>8, <2>9 DEF Shape
  <2>11. Renewed(h, h, me, s, y, v)
    BY <1>2, <2>1, <2>3, <2>4, <2>6, <2>7, <2>10 DEF Renewed
  <2>12. Sound(h, me, t) /\ t.db = y.db
    <3>1. Continues(h, h)
      BY SameHistory
    <3>. QED  BY <1>6, <2>11, <3>1, SendUpdateOK
  <2>13. Grown(h, me, s, t)
    <3>1. PICK d, f : d = s.db /\ f = t.db
      OBVIOUS
    <3>2. /\ d \in Database /\ f \in Database /\ EntryChanges(h, d, f, v)
          /\ v \in DOMAIN d /\ d[v].producer # me
      BY <1>6, <2>1, <2>4, <2>6, <2>10, <2>12, <3>1
    <3>. QED  BY <3>1, <3>2, GrownBy
  <2>. QED  BY <2>12, <2>13 DEF Received
<1>7. \/ t = AskForCreate(s, v)
      \/ t = s
      \/ /\ v \in DOMAIN s.db /\ s.db[v].producer # me
         /\ seqNoMoreRecent(s.db[v].seqNo, q) /\ t = SendUpdate(y, v)
  BY <1>1, <1>3, Zenon DEF processUpdate, Known
<1>. QED  BY <1>4, <1>5, <1>6, <1>7

\* A summary leads to a request or to an update for the sender.
LEMMA ProcessSummaryOK ==
    ASSUME NEW h, IsHistory(h), NEW me, NEW s, Sound(h, me, s), Value = Nat,
           NEW r, Genuine(h, "summaryQ", r), NEW t, t = processSummary(s, me, r)
    PROVE  Received(h, me, s, t)
<1>1. PICK v, y : v = r.id /\ y = [s EXCEPT !.reqUpdateQ = Append(@, VarReqUpdate(s, v))]
  OBVIOUS
<1>2. v \in VarId
  BY <1>1 DEF Genuine
<1>3. \/ t = AskForCreate(s, v)
      \/ t = s
      \/ v \in DOMAIN s.db /\ s.db[v].producer # me /\ t = y
      \/ v \in DOMAIN s.db /\ t = SendUpdate(s, v)
  BY <1>1, Zenon DEF processSummary, Known
<1>4. CASE t = AskForCreate(s, v)
  BY <1>2, <1>4, AskForCreateOK
<1>5. CASE t = s
  BY <1>5, StaysOK
<1>6. CASE v \in DOMAIN s.db /\ s.db[v].producer # me /\ t = y
  BY <1>1, <1>6, AskForUpdateOK
<1>7. CASE v \in DOMAIN s.db /\ t = SendUpdate(s, v)
  BY <1>7, SendAgainOK
<1>. QED  BY <1>3, <1>4, <1>5, <1>6, <1>7

\* A creation is sent on request.
LEMMA ProcessReqCreateOK ==
    ASSUME NEW h, IsHistory(h), NEW me, NEW s, Sound(h, me, s), Value = Nat,
           NEW r, Genuine(h, "reqCreateQ", r), NEW t, t = processReqCreate(s, r)
    PROVE  Received(h, me, s, t)
<1>1. CASE ~ Known(s, r.id)
  BY <1>1, StaysOK DEF processReqCreate
<1>2. CASE Known(s, r.id)
  <2>1. PICK v, db : v = r.id /\ db = s.db /\ db \in Database /\ v \in DOMAIN db /\ s \in Shape
    BY <1>2, ShapeFacts DEF Sound, Known
  <2>2. PICK x : x = VarCreate(s, v)
    OBVIOUS
  <2>3. x \in RTDBVarCreate /\ x.id = v /\ x.val = db[v].val /\ x.seqNo = db[v].seqNo
    BY <2>1, <2>2, RecordsMade
  <2>4. PICK R : R = Creates(h, db)
    OBVIOUS
  <2>5. x \in R
    <3>1. Written(h, v, db[v].val, db[v].seqNo) /\ db[v].val \in Nat
      BY <2>1, DatabaseFacts DEF Sound
    <3>. QED  BY <2>1, <2>3, <2>4, <3>1 DEF Creates, GenuineCreates
  <2>6. PICK p, q, a : p = s.createQ /\ q = RemoveID(p, v) /\ a = Append(q, x)
    OBVIOUS
  <2>7. p \in Seq(R) /\ Unique(p)
    BY <2>1, <2>4, <2>6 DEF Sound
  <2>8. q \in Seq({y \in R : y.id # v}) /\ Unique(q)
    BY <2>6, <2>7, RemoveIDOK
  <2>9. q \in Seq(R) /\ \A i \in 1 .. Len(q) : q[i].id # x.id
    <3>1. {y \in R : y.id # v} \subseteq R
      OBVIOUS
    <3>2. q \in Seq(R)
      BY <2>8, <3>1, SequenceGrows
    <3>. QED  BY <2>3, <2>8, <3>2
  <2>10. a \in Seq(R) /\ Unique(a)
    <3>1. Unique(Append(q, x))
      BY <2>8, <2>9, AppendUnique
    <3>. QED  BY <2>5, <2>6, <2>9, <3>1
  <2>11. a \in Seq(RTDBVarCreate)
    <3>1. R \subseteq RTDBVarCreate
      BY <2>4 DEF Creates, GenuineCreates
    <3>. QED  BY <2>10, <3>1, SequenceGrows
  <2>12. t = [s EXCEPT !.createQ = a]
    BY <1>2, <2>1, <2>2, <2>6 DEF processReqCreate
  <2>13. /\ t \in Shape /\ t.db = db /\ t.createQ = a /\ t.updateQ = s.updateQ
         /\ t.summaryQ = s.summaryQ /\ t.reqUpdateQ = s.reqUpdateQ
    BY <2>1, <2>11, <2>12 DEF Shape
  <2>14. Sound(h, me, t)
    BY <2>1, <2>4, <2>10, <2>13 DEF Sound
  <2>. QED  BY <2>1, <2>13, <2>14, NotGrown DEF Received
<1>. QED  BY <1>1, <1>2

\* An update is sent on request.
LEMMA ProcessReqUpdateOK ==
    ASSUME NEW h, IsHistory(h), NEW me, NEW s, Sound(h, me, s), Value = Nat,
           NEW r, NEW t, t = processReqUpdate(s, r)
    PROVE  Received(h, me, s, t)
<1>1. CASE ~ Known(s, r.id)
  BY <1>1, StaysOK DEF processReqUpdate
<1>2. CASE Known(s, r.id)
  <2>1. r.id \in DOMAIN s.db /\ t = SendUpdate(s, r.id)
    BY <1>2 DEF processReqUpdate, Known
  <2>. QED  BY <2>1, SendAgainOK
<1>. QED  BY <1>1, <1>2

Containers == {"createQ", "updateQ", "summaryQ", "reqCreateQ", "reqUpdateQ"}

\* Each kind of record.
LEMMA ProcessRecordOK ==
    ASSUME RTDBAssumption, NEW h, IsHistory(h), NEW me, NEW s, Sound(h, me, s), Value = Nat,
           NEW k \in Containers, NEW r, Genuine(h, k, r), NEW t, t = processRecord(s, me, k, r)
    PROVE  Received(h, me, s, t)
<1>1. CASE k = "createQ"
  <2>1. t = processCreate(s, r)
    BY <1>1 DEF processRecord
  <2>. QED  BY <1>1, <2>1, ProcessCreateOK
<1>2. CASE k = "updateQ"
  <2>1. t = processUpdate(s, me, r)
    BY <1>2 DEF processRecord
  <2>. QED  BY <1>2, <2>1, ProcessUpdateOK
<1>3. CASE k = "summaryQ"
  <2>1. t = processSummary(s, me, r)
    BY <1>3 DEF processRecord
  <2>. QED  BY <1>3, <2>1, ProcessSummaryOK
<1>4. CASE k = "reqCreateQ"
  <2>1. t = processReqCreate(s, r)
    BY <1>4 DEF processRecord
  <2>. QED  BY <1>4, <2>1, ProcessReqCreateOK
<1>5. CASE k = "reqUpdateQ"
  <2>1. t = processReqUpdate(s, r)
    BY <1>5 DEF processRecord
  <2>. QED  BY <1>5, <2>1, ProcessReqUpdateOK
<1>. QED  BY <1>1, <1>2, <1>3, <1>4, <1>5 DEF Containers

\* One record after the other.
LEMMA ReceivedFurther ==
    ASSUME NEW h, NEW me, NEW s, NEW t, NEW u, Sound(h, me, s), Value = Nat,
           Received(h, me, s, t), Received(h, me, t, u)
    PROVE  Received(h, me, s, u)
<1>1. s.db \in Database /\ t.db \in Database /\ u.db \in Database
  BY ShapeFacts DEF Received, Sound
<1>2. Grown(h, me, s, t) /\ Grown(h, me, t, u)
  BY DEF Received
<1>3. Grown(h, me, s, u)
  BY <1>1, <1>2, GrownFurther
<1>. QED  BY <1>3 DEF Received

\* A container of genuine elements.
GenuineContainer(h, k, recs) ==
    Len(recs) \in Nat /\ \A i \in 1 .. Len(recs) : Genuine(h, k, recs[i])

\* All records of a container.
LEMMA ProcessContainerOK ==
    ASSUME RTDBAssumption, NEW h, IsHistory(h), NEW me, NEW s, Sound(h, me, s), Value = Nat,
           NEW k \in Containers, NEW recs, GenuineContainer(h, k, recs),
           NEW t, t = processContainer(s, me, k, recs)
    PROVE  Received(h, me, s, t)
<1> DEFINE Body(u, i) == processRecord(u, me, k, recs[i])
           W == {u \in Shape : Received(h, me, s, u)}
           T == [i \in 0 .. Len(recs) |-> W]
           F == [i \in 1 .. Len(recs) |-> [u \in W |-> Body(u, i)]]
           Loop(g) == g = [i \in 0 .. Len(recs) |-> IF i = 0 THEN s ELSE Body(g[i - 1], i)]
<1>0. PICK n : n = Len(recs) /\ n \in Nat
  BY DEF GenuineContainer
<1>1. ASSUME NEW i \in 1 .. n, NEW u \in W
      PROVE  Body(u, i) \in W
  <2>1. PICK x, r : x = Body(u, i) /\ r = recs[i]
    OBVIOUS
  <2>2. Received(h, me, s, u) /\ Sound(h, me, u) /\ Genuine(h, k, r)
    BY <1>0, <2>1 DEF GenuineContainer, Received
  <2>3. x = processRecord(u, me, k, r)
    BY <2>1
  <2>4. Received(h, me, u, x)
    BY <2>2, <2>3, ProcessRecordOK
  <2>5. Received(h, me, s, x)
    BY <2>2, <2>4, ReceivedFurther
  <2>. QED  BY <2>1, <2>5 DEF Received, Sound
<1>2. s \in W
  BY StaysOK DEF Sound
<1> HIDE DEF Body, W
<1>3. PICK f : Steps(f, F, s, n) /\ \A i \in 0 .. n : f[i] \in W
  <2>1. PICK G, S, a : G = F /\ S = T /\ a = s
    OBVIOUS
  <2>2. 0 \in 0 .. n /\ \A i \in 1 .. n : i - 1 \in 0 .. n /\ i \in 0 .. n
    BY <1>0
  <2>3. \A i \in 0 .. n : S[i] = W
    BY <1>0, <2>1
  <2>4. a \in S[0] /\ \A i \in 1 .. n : G[i] \in [S[i - 1] -> S[i]]
    BY <1>0, <1>1, <1>2, <2>1, <2>2, <2>3
  <2>5. \E f : Steps(f, G, a, n) /\ \A i \in 0 .. n : f[i] \in S[i]
    BY <1>0, <2>4, Iterated
  <2> HIDE DEF F
  <2>. QED  BY <2>1, <2>3, <2>5
<1>4. Loop(f)
  <2>1. ASSUME NEW i \in 0 .. n
        PROVE  (IF i = 0 THEN s ELSE F[i][f[i - 1]]) = IF i = 0 THEN s ELSE Body(f[i - 1], i)
    <3>1. CASE i = 0
      BY <3>1
    <3>2. CASE i # 0
      <4>1. i \in 1 .. n /\ i - 1 \in 0 .. n /\ i \in 1 .. Len(recs)
        BY <1>0, <3>2
      <4>2. f[i - 1] \in W
        BY <1>3, <4>1
      <4>. QED  BY <3>2, <4>1, <4>2
    <3>. QED  BY <3>1, <3>2
  <2>. QED  BY <1>0, <1>3, <2>1, Zenon DEF Steps
<1>5. PICK g : g = CHOOSE d : Loop(d)
  OBVIOUS
<1>6. Loop(g)
  BY <1>4, <1>5, Zenon
<1>7. t = g[n]
  BY <1>0, <1>5, Zenon DEF processContainer, Body
<1>8. g[n] \in W
  <2>1. \A i \in 0 .. n : g[i] = IF i = 0 THEN s ELSE Body(g[i - 1], i)
    BY <1>0, <1>6, Zenon
  <2>2. ASSUME NEW i \in 1 .. n, g[i - 1] \in W
        PROVE  g[i] \in W
    <3>1. g[i] = Body(g[i - 1], i)
      BY <2>1
    <3>. QED  BY <1>1, <2>2, <3>1
  <2>3. 0 \in 0 .. n /\ n \in 0 .. n /\ \A i \in 1 .. n : i - 1 \in 0 .. n /\ i \in 0 .. n
    BY <1>0
  <2>4. g[0] \in W
    BY <1>2, <2>1, <2>3
  <2>5. PICK S : S = T
    OBVIOUS
  <2>6. \A i \in 0 .. n : S[i] = W
    BY <1>0, <2>5
  <2>7. g[0] \in S[0] /\ \A i \in 1 .. n : g[i - 1] \in S[i - 1] => g[i] \in S[i]
    BY <2>2, <2>3, <2>4, <2>6
  <2>8. g[n] \in S[n]
    BY <1>0, <2>7, StaysWithin
  <2>. QED  BY <2>3, <2>6, <2>8
<1>. QED  BY <1>7, <1>8 DEF W

GenuineBeacon(h, b) == \A k \in Containers : GenuineContainer(h, k, b[k])

\* All containers of a beacon.
LEMMA ProcessBeaconOK ==
    ASSUME RTDBAssumption, NEW h, IsHistory(h), NEW me, NEW s, Sound(h, me, s), Value = Nat,
           NEW b, GenuineBeacon(h, b), NEW t, t = processVarDisBeacon(s, me, b)
    PROVE  Received(h, me, s, t)
<1>1. PICK s1 : s1 = processContainer(s, me, "createQ", b.createQ)
  OBVIOUS
<1>2. PICK s2 : s2 = processContainer(s1, me, "updateQ", b.updateQ)
  OBVIOUS
<1>3. PICK s3 : s3 = processContainer(s2, me, "summaryQ", b.summaryQ)
  OBVIOUS
<1>4. PICK s4 : s4 = processContainer(s3, me, "reqCreateQ", b.reqCreateQ)
  OBVIOUS
<1>5. t = processContainer(s4, me, "reqUpdateQ", b.reqUpdateQ)
  BY <1>1, <1>2, <1>3, <1>4, Zenon DEF processVarDisBeacon
<1>6. /\ GenuineContainer(h, "createQ", b.createQ) /\ GenuineContainer(h, "updateQ", b.updateQ)
      /\ GenuineContainer(h, "summaryQ", b.summaryQ)
      /\ GenuineContainer(h, "reqCreateQ", b.reqCreateQ)
      /\ GenuineContainer(h, "reqUpdateQ", b.reqUpdateQ)
  BY DEF GenuineBeacon, Containers
<1>7. /\ "createQ" \in Containers /\ "updateQ" \in Containers /\ "summaryQ" \in Containers
      /\ "reqCreateQ" \in Containers /\ "reqUpdateQ" \in Containers
  BY DEF Containers
<1>8. Received(h, me, s, s1) /\ Sound(h, me, s1)
  BY <1>1, <1>6, <1>7, ProcessContainerOK DEF Received
<1>9. Received(h, me, s1, s2) /\ Sound(h, me, s2)
  BY <1>2, <1>6, <1>7, <1>8, ProcessContainerOK DEF Received
<1>10. Received(h, me, s2, s3) /\ Sound(h, me, s3)
  BY <1>3, <1>6, <1>7, <1>9, ProcessContainerOK DEF Received
<1>11. Received(h, me, s3, s4) /\ Sound(h, me, s4)
  BY <1>4, <1>6, <1>7, <1>10, ProcessContainerOK DEF Received
<1>12. Received(h, me, s4, t)
  BY <1>5, <1>6, <1>7, <1>11, ProcessContainerOK
<1>13. Received(h, me, s, s2)
  BY <1>8, <1>9, ReceivedFurther
<1>14. Received(h, me, s, s3)
  BY <1>10, <1>13, ReceivedFurther
<1>15. Received(h, me, s, s4)
  BY <1>11, <1>14, ReceivedFurther
<1>. QED  BY <1>12, <1>15, ReceivedFurther

(***************************************************************************)
(* The beacons that are made.                                              *)
(***************************************************************************)
ElementsOf(R) == {PacketElement(r) : r \in R}

Beacons(h) ==
    [createQ : Seq(ElementsOf(GenuineCreates(h))),
     updateQ : Seq(ElementsOf(GenuineUpdates(h))),
     summaryQ : Seq([id : VarId, seqNo : Seqno]),
     reqCreateQ : Seq(ElementsOf(RTDBVarReqCreate)),
     reqUpdateQ : Seq(ElementsOf(RTDBVarReqUpdate))]

\* What the beacons of a history contain was written.
LEMMA BeaconIsGenuine ==
    ASSUME NEW h, NEW b \in Beacons(h)
    PROVE  GenuineBeacon(h, b)
<1>1. /\ b.createQ \in Seq(ElementsOf(GenuineCreates(h)))
      /\ b.updateQ \in Seq(ElementsOf(GenuineUpdates(h)))
      /\ b.summaryQ \in Seq([id : VarId, seqNo : Seqno])
      /\ b.reqCreateQ \in Seq(ElementsOf(RTDBVarReqCreate))
      /\ b.reqUpdateQ \in Seq(ElementsOf(RTDBVarReqUpdate))
  BY DEF Beacons
<1>2. ASSUME NEW e \in ElementsOf(GenuineCreates(h))
      PROVE  Genuine(h, "createQ", e)
  <2>1. PICK r \in GenuineCreates(h) : e = PacketElement(r)
    BY DEF ElementsOf
  <2>2. r \in RTDBVarCreate /\ Written(h, r.id, r.val, r.seqNo)
    BY DEF GenuineCreates
  <2>3. /\ e.id = r.id /\ e.producer = r.producer /\ e.repCnt = r.repCnt
        /\ e.seqNo = r.seqNo /\ e.val = r.val
    BY <2>1, <2>2, ElementFields
  <2>. QED  BY <2>2, <2>3 DEF Genuine, RTDBVarCreate
<1>3. ASSUME NEW e \in ElementsOf(GenuineUpdates(h))
      PROVE  Genuine(h, "updateQ", e)
  <2>1. PICK r \in GenuineUpdates(h) : e = PacketElement(r)
    BY DEF ElementsOf
  <2>2. r \in RTDBVarUpdate /\ Written(h, r.id, r.val, r.seqNo)
    BY DEF GenuineUpdates
  <2>3. e.id = r.id /\ e.seqNo = r.seqNo /\ e.val = r.val
    BY <2>1, <2>2, ElementFields
  <2>. QED  BY <2>2, <2>3 DEF Genuine, RTDBVarUpdate
<1>4. ASSUME NEW e \in [id : VarId, seqNo : Seqno]
      PROVE  Genuine(h, "summaryQ", e)
  BY DEF Genuine
<1>5. ASSUME NEW e \in ElementsOf(RTDBVarReqCreate)
      PROVE  Genuine(h, "reqCreateQ", e)
  <2>1. PICK r \in RTDBVarReqCreate : e = PacketElement(r)
    BY DEF ElementsOf
  <2>2. e.id = r.id
    BY <2>1, ElementFields
  <2>. QED  BY <2>2 DEF Genuine, RTDBVarReqCreate
<1>6. ASSUME NEW e \in ElementsOf(RTDBVarReqUpdate)
      PROVE  Genuine(h, "reqUpdateQ", e)
  <2>1. PICK r \in RTDBVarReqUpdate : e = PacketElement(r)
    BY DEF ElementsOf
  <2>2. e.id = r.id
    BY <2>1, ElementFields
  <2>. QED  BY <2>2 DEF Genuine, RTDBVarReqUpdate
<1>7. GenuineContainer(h, "createQ", b.createQ)
  BY <1>1, <1>2 DEF GenuineContainer
<1>8. GenuineContainer(h, "updateQ", b.updateQ)
  BY <1>1, <1>3 DEF GenuineContainer
<1>9. GenuineContainer(h, "summaryQ", b.summaryQ)
  <2>1. PICK S : S = [id : VarId, seqNo : Seqno]
    OBVIOUS
  <2>2. b.summaryQ \in Seq(S) /\ \A e \in S : Genuine(h, "summaryQ", e)
    BY <1>1, <1>4, <2>1, Zenon
  <2>. QED  BY <2>2 DEF GenuineContainer
<1>10. GenuineContainer(h, "reqCreateQ", b.reqCreateQ)
  BY <1>1, <1>5 DEF GenuineContainer
<1>11. GenuineContainer(h, "reqUpdateQ", b.reqUpdateQ)
  BY <1>1, <1>6 DEF GenuineContainer
<1>. QED  BY <1>7, <1>8, <1>9, <1>10, <1>11 DEF GenuineBeacon, Containers

\* A beacon stays one in later histories.
LEMMA BeaconGoesOn ==
    ASSUME NEW h, NEW k, Continues(h, k), Value = Nat
    PROVE  Beacons(h) \subseteq Beacons(k)
<1>1. ElementsOf(GenuineCreates(h)) \subseteq ElementsOf(GenuineCreates(k))
  <2>1. ASSUME NEW r \in GenuineCreates(h)
        PROVE  r \in GenuineCreates(k)
    <3>1. r \in RTDBVarCreate /\ Written(h, r.id, r.val, r.seqNo)
      BY DEF GenuineCreates
    <3>2. r.id \in VarId /\ r.val \in Nat
      BY <3>1 DEF RTDBVarCreate
    <3>. QED  BY <3>1, <3>2, WrittenGoesOn DEF GenuineCreates
  <2>. QED  BY <2>1 DEF ElementsOf
<1>2. ElementsOf(GenuineUpdates(h)) \subseteq ElementsOf(GenuineUpdates(k))
  <2>1. ASSUME NEW r \in GenuineUpdates(h)
        PROVE  r \in GenuineUpdates(k)
    <3>1. r \in RTDBVarUpdate /\ Written(h, r.id, r.val, r.seqNo)
      BY DEF GenuineUpdates
    <3>2. r.id \in VarId /\ r.val \in Nat
      BY <3>1 DEF RTDBVarUpdate
    <3>. QED  BY <3>1, <3>2, WrittenGoesOn DEF GenuineUpdates
  <2>. QED  BY <2>1 DEF ElementsOf
<1>3. PICK A, B, C, D : /\ A = ElementsOf(GenuineCreates(h))
                        /\ B = ElementsOf(GenuineCreates(k))
                        /\ C = ElementsOf(GenuineUpdates(h))
                        /\ D = ElementsOf(GenuineUpdates(k))
  OBVIOUS
<1>4. Seq(A) \subseteq Seq(B) /\ Seq(C) \subseteq Seq(D)
  BY <1>1, <1>2, <1>3, SequenceGrows
<1>. QED  BY <1>3, <1>4 DEF Beacons

\* Lengths are numbers.
LEMMA ElementLenOK ==
    ASSUME RTDBAssumption, NEW k \in Containers
    PROVE  ElementLen[k] \in Nat
<1>1. VarLen \in Nat /\ DescrLen \in Nat
  BY DEF RTDBAssumption
<1>2. CreateLen \in Nat /\ UpdateLen \in Nat /\ SummaryLen \in Nat
      /\ ReqCreateLen \in Nat /\ ReqUpdateLen \in Nat
  BY <1>1 DEF CreateLen, UpdateLen, SummaryLen, ReqCreateLen, ReqUpdateLen
<1>. QED  BY <1>2 DEF ElementLen, Containers

\* The length of a container, empty or not.
LEMMA ContainerLenOK ==
    ASSUME RTDBAssumption, NEW k \in Containers, NEW recs, Len(recs) \in Nat
    PROVE  /\ ContainerLen(k, recs) \in Nat /\ Len(recs) * ElementLen[k] \in Nat
           /\ recs = <<>> => ContainerLen(k, recs) = 0
           /\ recs # <<>> => ContainerLen(k, recs) = HeaderLen + Len(recs) * ElementLen[k]
<1>1. PICK n \in Nat, l \in Nat : n = Len(recs) /\ l = ElementLen[k]
  BY ElementLenOK
<1>2. n * l \in Nat
  OBVIOUS
<1>. QED  BY <1>1, <1>2 DEF ContainerLen, HeaderLen

\* The container k of a beacon is filled, by which it grows.
Fills(b, k, recs, e) == e = [b EXCEPT ![k] = recs]

Larger(b, k, recs, e) ==
    /\ BeaconLen(e) = BeaconLen(b) + ContainerLen(k, recs)
    /\ BeaconLen(b) \in Nat
    /\ \A j \in Containers : j # k => e[j] = b[j]

\* One of five lengths was 0 and becomes x.
Sums(a, c, d, f, g, x) ==
    /\ a = 0 => x + c + d + f + g = (a + c + d + f + g) + x
    /\ c = 0 => a + x + d + f + g = (a + c + d + f + g) + x
    /\ d = 0 => a + c + x + f + g = (a + c + d + f + g) + x
    /\ f = 0 => a + c + d + x + g = (a + c + d + f + g) + x
    /\ g = 0 => a + c + d + f + x = (a + c + d + f + g) + x

\* One of five lengths changes.
LEMMA SumsOK ==
    ASSUME NEW a \in Nat, NEW c \in Nat, NEW d \in Nat, NEW f \in Nat, NEW g \in Nat,
           NEW x \in Nat
    PROVE  Sums(a, c, d, f, g, x)
BY DEF Sums

\* A container that was empty is filled.
LEMMA FilledOK ==
    ASSUME RTDBAssumption, NEW h, NEW b \in Beacons(h), NEW k \in Containers, b[k] = <<>>,
           NEW recs, Len(recs) \in Nat, NEW e \in Beacons(h), Fills(b, k, recs, e)
    PROVE  Larger(b, k, recs, e)
<1>1. DOMAIN b = Containers /\ \A f \in Containers : Len(b[f]) \in Nat
  <2>1. GenuineBeacon(h, b)
    BY BeaconIsGenuine
  <2>2. DOMAIN b = Containers
    BY DEF Beacons, Containers
  <2>. QED  BY <2>1, <2>2 DEF GenuineBeacon, GenuineContainer
<1>2. \A j \in Containers : e[j] = IF j = k THEN recs ELSE b[j]
  BY <1>1 DEF Fills
<1>3. PICK a, c, d, f, g : /\ a = ContainerLen("createQ", b.createQ)
                           /\ c = ContainerLen("updateQ", b.updateQ)
                           /\ d = ContainerLen("summaryQ", b.summaryQ)
                           /\ f = ContainerLen("reqCreateQ", b.reqCreateQ)
                           /\ g = ContainerLen("reqUpdateQ", b.reqUpdateQ)
  OBVIOUS
<1>4. a \in Nat /\ c \in Nat /\ d \in Nat /\ f \in Nat /\ g \in Nat
  BY <1>1, <1>3, ContainerLenOK DEF Containers
<1>5. BeaconLen(b) = a + c + d + f + g
  BY <1>3, Zenon DEF BeaconLen
<1>6. PICK x : x = ContainerLen(k, recs) /\ x \in Nat
  BY ContainerLenOK
<1>7. Sums(a, c, d, f, g, x)
  BY <1>4, <1>6, SumsOK
<1>8. ASSUME k = "createQ"
      PROVE  BeaconLen(e) = BeaconLen(b) + x
  <2>1. /\ e.createQ = recs /\ e.updateQ = b.updateQ /\ e.summaryQ = b.summaryQ
        /\ e.reqCreateQ = b.reqCreateQ /\ e.reqUpdateQ = b.reqUpdateQ
    BY <1>2, <1>8 DEF Containers
  <2>2. BeaconLen(e) = x + c + d + f + g
    BY <1>3, <1>6, <1>8, <2>1 DEF BeaconLen
  <2>3. a = 0
    <3>1. b.createQ = <<>>
      BY <1>8
    <3>. QED  BY <1>3, <3>1 DEF ContainerLen
  <2>4. x + c + d + f + g = (a + c + d + f + g) + x
    BY <1>7, <2>3, Zenon DEF Sums
  <2>. QED  BY <1>5, <2>2, <2>4, Zenon
<1>9. ASSUME k = "updateQ"
      PROVE  BeaconLen(e) = BeaconLen(b) + x
  <2>1. /\ e.createQ = b.createQ /\ e.updateQ = recs /\ e.summaryQ = b.summaryQ
        /\ e.reqCreateQ = b.reqCreateQ /\ e.reqUpdateQ = b.reqUpdateQ
    BY <1>2, <1>9 DEF Containers
  <2>2. BeaconLen(e) = a + x + d + f + g
    BY <1>3, <1>6, <1>9, <2>1 DEF BeaconLen
  <2>3. c = 0
    <3>1. b.updateQ = <<>>
      BY <1>9
    <3>. QED  BY <1>3, <3>1 DEF ContainerLen
  <2>4. a + x + d + f + g = (a + c + d + f + g) + x
    BY <1>7, <2>3, Zenon DEF Sums
  <2>. QED  BY <1>5, <2>2, <2>4, Zenon
<1>10. ASSUME k = "summaryQ"
      PROVE  BeaconLen(e) = BeaconLen(b) + x
  <2>1. /\ e.createQ = b.createQ /\ e.updateQ = b.updateQ /\ e.summaryQ = recs
        /\ e.reqCreateQ = b.reqCreateQ /\ e.reqUpdateQ = b.reqUpdateQ
    BY <1>2, <1>10 DEF Containers
  <2>2. BeaconLen(e) = a + c + x + f + g
    BY <1>3, <1>6, <1>10, <2>1 DEF BeaconLen
  <2>3. d = 0
    <3>1. b.summaryQ = <<>>
      BY <1>10
    <3>. QED  BY <1>3, <3>1 DEF ContainerLen
  <2>4. a + c + x + f + g = (a + c + d + f + g) + x
    BY <1>7, <2>3, Zenon DEF Sums
  <2>. QED  BY <1>5, <2>2, <2>4, Zenon
<1>11. ASSUME k = "reqCreateQ"
      PROVE  BeaconLen(e) = BeaconLen(b) + x
  <2>1. /\ e.createQ = b.createQ /\ e.updateQ = b.updateQ /\ e.summaryQ = b.summaryQ
        /\ e.reqCreateQ = recs /\ e.reqUpdateQ = b.reqUpdateQ
    BY <1>2, <1>11 DEF Containers
  <2>2. BeaconLen(e) = a + c + d + x + g
    BY <1>3, <1>6, <1>11, <2>1 DEF BeaconLen
  <2>3. f = 0
    <3>1. b.reqCreateQ = <<>>
      BY <1>11
    <3>. QED  BY <1>3, <3>1 DEF ContainerLen
  <2>4. a + c + d + x + g = (a + c + d + f + g) + x
    BY <1>7, <2>3, Zenon DEF Sums
  <2>. QED  BY <1>5, <2>2, <2>4, Zenon
<1>12. ASSUME k = "reqUpdateQ"
      PROVE  BeaconLen(e) = BeaconLen(b) + x
  <2>1. /\ e.createQ = b.createQ /\ e.updateQ = b.updateQ /\ e.summaryQ = b.summaryQ
        /\ e.reqCreateQ = b.reqCreateQ /\ e.reqUpdateQ = recs
    BY <1>2, <1>12 DEF Containers
  <2>2. BeaconLen(e) = a + c + d + f + x
    BY <1>3, <1>6, <1>12, <2>1 DEF BeaconLen
  <2>3. g = 0
    <3>1. b.reqUpdateQ = <<>>
      BY <1>12
    <3>. QED  BY <1>3, <3>1 DEF ContainerLen
  <2>4. a + c + d + f + x = (a + c + d + f + g) + x
    BY <1>7, <2>3, Zenon DEF Sums
  <2>. QED  BY <1>5, <2>2, <2>4, Zenon
<1>13. BeaconLen(e) = BeaconLen(b) + x
  BY <1>8, <1>9, <1>10, <1>11, <1>12 DEF Containers
<1>. QED  BY <1>2, <1>4, <1>5, <1>6, <1>13 DEF Larger

\* A round, and what it leaves of the data and of the room in the beacon.
Rounded(c, k, R, d) ==
    \E q \in Seq(R), recs \in Seq(ElementsOf(R)) :
       /\ Unique(c.data[k]) => Unique(q)
       /\ recs # <<>> => Fits(k, Len(recs), c.used)
       /\ d.data = [c.data EXCEPT ![k] = q]
       /\ d.beacon = [c.beacon EXCEPT ![k] = recs]
       /\ d.used = c.used + HeaderLen + Len(recs) * ElementLen[k]

\* What a queue adds to a beacon are records of the queue, for which there is room.
LEMMA AddQueueIs ==
    ASSUME NEW c, NEW k \in PacketQueue, NEW R, Resendable(R), c.data[k] \in Seq(R),
           NEW d, d = AddQueue(c, k)
    PROVE  Rounded(c, k, R, d)
<1>1. PICK s, u, r : s = c.data /\ u = c.used /\ r = Round(s, k, u)
  OBVIOUS
<1>2. /\ r.kept \o r.again \in Seq(R)
      /\ Unique(s[k]) => Unique(r.kept \o r.again)
      /\ r.recs \in Seq({PacketElement(x) : x \in R})
      /\ r.recs # <<>> => Fits(k, Len(r.recs), u)
  <2>1. PICK p \in Seq(R) : p = s[k]
    BY <1>1
  <2>2. /\ r.kept \o r.again \in Seq(R)
        /\ Unique(p) => Unique(r.kept \o r.again)
        /\ r.recs \in Seq({PacketElement(x) : x \in R})
        /\ r.recs # <<>> => Fits(k, Len(r.recs), u)
    BY <1>1, <2>1, RoundOK
  <2>. QED  BY <2>1, <2>2
<1>3. d = [data |-> [c.data EXCEPT ![k] = r.kept \o r.again],
           beacon |-> [c.beacon EXCEPT ![k] = r.recs],
           used |-> c.used + HeaderLen + Len(r.recs) * ElementLen[k]]
  BY <1>1, Zenon DEF AddQueue
<1>4. PICK q, recs : q = r.kept \o r.again /\ recs = r.recs
  OBVIOUS
<1>5. q \in Seq(R) /\ recs \in Seq(ElementsOf(R))
  BY <1>2, <1>4, Zenon DEF ElementsOf
<1>6. /\ d.data = [c.data EXCEPT ![k] = q] /\ d.beacon = [c.beacon EXCEPT ![k] = recs]
      /\ d.used = c.used + HeaderLen + Len(recs) * ElementLen[k]
  BY <1>3, <1>4
<1>. QED  BY <1>1, <1>2, <1>4, <1>5, <1>6 DEF Rounded

\* A beacon that is being made of the data s of node me, after init bytes; the containers
\* in K are still empty.
Partial(h, me, s, init, K, c) ==
    /\ Sound(h, me, c.data) /\ c.data.db = s.db
    /\ c.beacon \in Beacons(h) /\ \A k \in K : c.beacon[k] = <<>>
    /\ c.used \in Nat /\ BeaconLen(c.beacon) + init <= c.used
    /\ BeaconLen(c.beacon) + init <= MaxPacketSize

\* The container k is filled, while the data become others.
Adds(h, me, c, k, recs, d) ==
    /\ Len(recs) \in Nat /\ recs # <<>> => Fits(k, Len(recs), c.used)
    /\ Sound(h, me, d.data) /\ d.data.db = c.data.db
    /\ d.beacon \in Beacons(h) /\ d.beacon = [c.beacon EXCEPT ![k] = recs]
    /\ d.used = c.used + HeaderLen + Len(recs) * ElementLen[k]

\* A beacon in construction keeps to the size when a container is filled.
LEMMA PartialGoesOn ==
    ASSUME RTDBAssumption, NEW h, NEW me, NEW s, NEW init \in Nat, NEW K \in SUBSET Containers,
           NEW c, Partial(h, me, s, init, K, c), NEW k \in K, NEW recs, NEW d,
           Adds(h, me, c, k, recs, d)
    PROVE  Partial(h, me, s, init, K \ {k}, d)
<1>1. PICK b, e : b = c.beacon /\ e = d.beacon
  OBVIOUS
<1>2. /\ Len(recs) \in Nat /\ recs # <<>> => Fits(k, Len(recs), c.used)
      /\ Sound(h, me, d.data) /\ d.data.db = c.data.db
      /\ d.used = c.used + HeaderLen + Len(recs) * ElementLen[k]
  BY DEF Adds
<1>3. /\ b \in Beacons(h) /\ e \in Beacons(h) /\ b[k] = <<>> /\ k \in Containers
      /\ e = [b EXCEPT ![k] = recs]
  BY <1>1 DEF Partial, Adds
<1>4. /\ BeaconLen(e) = BeaconLen(b) + ContainerLen(k, recs)
      /\ BeaconLen(b) \in Nat
      /\ \A j \in Containers : j # k => e[j] = b[j]
  <2>1. Larger(b, k, recs, e)
    <3>1. Fills(b, k, recs, e)
      BY <1>3 DEF Fills
    <3>. QED  BY <1>2, <1>3, <3>1, FilledOK
  <2>. QED  BY <2>1 DEF Larger
<1>5. PICK x, y, l, u : /\ x = BeaconLen(b) /\ y = BeaconLen(e) /\ l = Len(recs) * ElementLen[k]
                        /\ u = c.used
  OBVIOUS
<1>6. x \in Nat /\ l \in Nat /\ u \in Nat /\ x + init <= u /\ x + init <= MaxPacketSize
  BY <1>2, <1>1, <1>3, <1>4, <1>5, ContainerLenOK DEF Partial
<1>7. MaxPacketSize \in Nat /\ HeaderLen = 3
  BY DEF RTDBAssumption, HeaderLen
<1>8. CASE recs = <<>>
  <2>1. y = x
    <3>1. ContainerLen(k, recs) = 0
      BY <1>8 DEF ContainerLen
    <3>. QED  BY <1>4, <1>5, <1>6, <3>1
  <2>2. d.used = u + HeaderLen + l
    BY <1>2, <1>5
  <2>3. d.used \in Nat /\ y + init <= d.used /\ y + init <= MaxPacketSize
    BY <1>6, <1>7, <2>1, <2>2
  <2>. QED  BY <1>2, <1>1, <1>3, <1>4, <1>5, <2>3 DEF Partial
<1>9. CASE recs # <<>>
  <2>1. y = x + (HeaderLen + l)
    BY <1>2, <1>3, <1>4, <1>5, <1>9, ContainerLenOK
  <2>2. u + HeaderLen + l <= MaxPacketSize
    BY <1>2, <1>5, <1>9 DEF Fits
  <2>3. d.used = u + HeaderLen + l
    BY <1>2, <1>5
  <2>4. d.used \in Nat /\ y + init <= d.used /\ y + init <= MaxPacketSize
    BY <1>6, <1>7, <2>1, <2>2, <2>3
  <2>. QED  BY <1>2, <1>1, <1>3, <1>4, <1>5, <2>4 DEF Partial
<1>. QED  BY <1>8, <1>9

\* The same of each queue of records.
LEMMA AddQueueOK ==
    ASSUME RTDBAssumption, NEW h, NEW me, NEW s, NEW init \in Nat, NEW K \in SUBSET Containers,
           NEW c, Partial(h, me, s, init, K, c), NEW k \in K, k \in PacketQueue,
           NEW d, d = AddQueue(c, k)
    PROVE  Partial(h, me, s, init, K \ {k}, d)
<1>1. PICK data, db, b : /\ data = c.data /\ db = data.db /\ b = c.beacon
                         /\ data \in Shape /\ Sound(h, me, data) /\ b \in Beacons(h)
  BY DEF Partial, Sound
<1>2. /\ data.createQ \in Seq(Creates(h, db)) /\ Unique(data.createQ)
      /\ data.updateQ \in Seq(Updates(db)) /\ Unique(data.updateQ)
      /\ data.reqUpdateQ \in Seq(ReqUpdates(me, db))
      /\ data.reqCreateQ \in Seq(RTDBVarReqCreate)
  BY <1>1, ShapeFacts DEF Sound
<1>3. PICK R : /\ Resendable(R) /\ data[k] \in Seq(R)
               /\ k = "createQ" => R = Creates(h, db)
               /\ k = "updateQ" => R = Updates(db)
               /\ k = "reqCreateQ" => R = RTDBVarReqCreate
               /\ k = "reqUpdateQ" => R = ReqUpdates(me, db)
  <2>1. CASE k = "createQ"
    BY <1>2, <2>1, AllResendable
  <2>2. CASE k = "updateQ"
    BY <1>2, <2>2, AllResendable
  <2>3. CASE k = "reqCreateQ"
    BY <1>2, <2>3, AllResendable
  <2>4. CASE k = "reqUpdateQ"
    BY <1>2, <2>4, AllResendable
  <2>. QED  BY <2>1, <2>2, <2>3, <2>4 DEF PacketQueue
<1>4. PICK q \in Seq(R), recs \in Seq(ElementsOf(R)) :
          /\ Unique(data[k]) => Unique(q)
          /\ recs # <<>> => Fits(k, Len(recs), c.used)
          /\ d.data = [data EXCEPT ![k] = q]
          /\ d.beacon = [b EXCEPT ![k] = recs]
          /\ d.used = c.used + HeaderLen + Len(recs) * ElementLen[k]
  <2>1. c.data[k] \in Seq(R)
    BY <1>1, <1>3
  <2>2. Rounded(c, k, R, d)
    BY <1>3, <2>1, AddQueueIs
  <2>. QED  BY <1>1, <2>2 DEF Rounded
<1>5. /\ R \subseteq IF k = "createQ" THEN GenuineCreates(h)
                     ELSE IF k = "updateQ" THEN GenuineUpdates(h)
                     ELSE IF k = "reqCreateQ" THEN RTDBVarReqCreate ELSE RTDBVarReqUpdate
      /\ k = "createQ" => GenuineCreates(h) \subseteq RTDBVarCreate
      /\ k = "updateQ" => GenuineUpdates(h) \subseteq RTDBVarUpdate
  <2>1. CASE k = "createQ"
    BY <1>3, <2>1 DEF Creates, GenuineCreates
  <2>2. CASE k = "updateQ"
    <3>1. ASSUME NEW r \in Updates(db)
          PROVE  r \in GenuineUpdates(h)
      <4>1. r \in RTDBVarUpdate /\ r.id \in DOMAIN db /\ r.seqNo = db[r.id].seqNo
            /\ r.val = db[r.id].val
        BY DEF Updates
      <4>2. Written(h, r.id, db[r.id].val, db[r.id].seqNo)
        BY <1>1, <4>1 DEF Sound
      <4>. QED  BY <4>1, <4>2 DEF GenuineUpdates
    <3>2. GenuineUpdates(h) \subseteq RTDBVarUpdate
      BY DEF GenuineUpdates
    <3>. QED  BY <1>3, <2>2, <3>1, <3>2
  <2>3. CASE k = "reqCreateQ"
    BY <1>3, <2>3
  <2>4. CASE k = "reqUpdateQ"
    BY <1>3, <2>4 DEF ReqUpdates
  <2>. QED  BY <2>1, <2>2, <2>3, <2>4 DEF PacketQueue
<1>6. PICK G : /\ R \subseteq G
               /\ k = "createQ" => G = GenuineCreates(h)
               /\ k = "updateQ" => G = GenuineUpdates(h)
               /\ k = "reqCreateQ" => G = RTDBVarReqCreate
               /\ k = "reqUpdateQ" => G = RTDBVarReqUpdate
  BY <1>5 DEF PacketQueue
<1>7. q \in Seq(G) /\ recs \in Seq(ElementsOf(G))
  <2>1. ElementsOf(R) \subseteq ElementsOf(G)
    BY <1>6 DEF ElementsOf
  <2>. QED  BY <1>6, <2>1, SequenceGrows
<1>8. d.beacon \in Beacons(h)
  <2>1. PICK E : E = ElementsOf(G) /\ recs \in Seq(E)
    BY <1>7
  <2>2. CASE k = "createQ"
    <3>1. E = ElementsOf(GenuineCreates(h))
      BY <1>6, <2>1, <2>2
    <3>. QED  BY <1>1, <1>4, <2>1, <2>2, <3>1 DEF Beacons
  <2>3. CASE k = "updateQ"
    <3>1. E = ElementsOf(GenuineUpdates(h))
      BY <1>6, <2>1, <2>3
    <3>. QED  BY <1>1, <1>4, <2>1, <2>3, <3>1 DEF Beacons
  <2>4. CASE k = "reqCreateQ"
    <3>1. E = ElementsOf(RTDBVarReqCreate)
      BY <1>6, <2>1, <2>4
    <3>. QED  BY <1>1, <1>4, <2>1, <2>4, <3>1 DEF Beacons
  <2>5. CASE k = "reqUpdateQ"
    <3>1. E = ElementsOf(RTDBVarReqUpdate)
      BY <1>6, <2>1, <2>5
    <3>. QED  BY <1>1, <1>4, <2>1, <2>5, <3>1 DEF Beacons
  <2>. QED  BY <2>2, <2>3, <2>4, <2>5 DEF PacketQueue
<1>9. Sound(h, me, d.data) /\ d.data.db = db
  <2>1. PICK t : t = d.data /\ t = [data EXCEPT ![k] = q]
    BY <1>4
  <2>2. CASE k = "createQ"
    <3>1. q \in Seq(RTDBVarCreate) /\ q \in Seq(Creates(h, db)) /\ Unique(q)
      <4>1. G \subseteq RTDBVarCreate
        BY <1>5, <1>6, <2>2
      <4>. QED  BY <1>2, <1>3, <1>4, <1>7, <2>2, <4>1, SequenceGrows
    <3>2. /\ t \in Shape /\ t.db = db /\ t.createQ = q /\ t.updateQ = data.updateQ
          /\ t.summaryQ = data.summaryQ /\ t.reqUpdateQ = data.reqUpdateQ
      BY <1>1, <2>1, <2>2, <3>1 DEF Shape
    <3>. QED  BY <1>1, <2>1, <3>1, <3>2 DEF Sound
  <2>3. CASE k = "updateQ"
    <3>1. q \in Seq(RTDBVarUpdate) /\ q \in Seq(Updates(db)) /\ Unique(q)
      <4>1. G \subseteq RTDBVarUpdate
        BY <1>5, <1>6, <2>3
      <4>. QED  BY <1>2, <1>3, <1>4, <1>7, <2>3, <4>1, SequenceGrows
    <3>2. /\ t \in Shape /\ t.db = db /\ t.updateQ = q /\ t.createQ = data.createQ
          /\ t.summaryQ = data.summaryQ /\ t.reqUpdateQ = data.reqUpdateQ
      BY <1>1, <2>1, <2>3, <3>1 DEF Shape
    <3>. QED  BY <1>1, <2>1, <3>1, <3>2 DEF Sound
  <2>4. CASE k = "reqCreateQ"
    <3>1. q \in Seq(RTDBVarReqCreate)
      BY <1>3, <2>4
    <3>2. /\ t \in Shape /\ t.db = db /\ t.updateQ = data.updateQ /\ t.createQ = data.createQ
          /\ t.summaryQ = data.summaryQ /\ t.reqUpdateQ = data.reqUpdateQ
      BY <1>1, <2>1, <2>4, <3>1 DEF Shape
    <3>. QED  BY <1>1, <2>1, <3>1, <3>2 DEF Sound
  <2>5. CASE k = "reqUpdateQ"
    <3>1. q \in Seq(RTDBVarReqUpdate) /\ q \in Seq(ReqUpdates(me, db))
      <4>1. G = RTDBVarReqUpdate
        BY <1>6, <2>5
      <4>. QED  BY <1>3, <1>7, <2>5, <4>1
    <3>2. /\ t \in Shape /\ t.db = db /\ t.updateQ = data.updateQ /\ t.createQ = data.createQ
          /\ t.summaryQ = data.summaryQ /\ t.reqUpdateQ = q
      BY <1>1, <2>1, <2>5, <3>1 DEF Shape
    <3>. QED  BY <1>1, <2>1, <3>1, <3>2 DEF Sound
  <2>. QED  BY <2>2, <2>3, <2>4, <2>5 DEF PacketQueue
<1>10. /\ Len(recs) \in Nat /\ d.data.db = c.data.db
       /\ d.beacon = [c.beacon EXCEPT ![k] = recs]
  BY <1>1, <1>4, <1>9
<1>11. Adds(h, me, c, k, recs, d)
  BY <1>1, <1>4, <1>8, <1>9, <1>10 DEF Adds
<1>. QED  BY <1>11, PartialGoesOn

\* As many summaries as there are, and as there is room for.
LEMMA NumSummariesIs ==
    ASSUME RTDBAssumption, NEW s, NEW l \in Nat, l = Len(s.summaryQ), NEW used \in Nat,
           NEW n, n = NumSummaries(s, used)
    PROVE  n \in 0 .. l /\ (n # 0 => Fits("summaryQ", n, used))
<1>1. PICK S : S = {i \in 1 .. l : /\ i <= MaxNumSummaries
                                   /\ used + HeaderLen + i * SummaryLen < MaxPacketSize}
  OBVIOUS
<1>2. CASE s.updateQ # <<>>
  BY <1>2 DEF NumSummaries
<1>3. CASE s.updateQ = <<>>
  <2>1. n = Cardinality(S)
    BY <1>1, <1>3, Zenon DEF NumSummaries
  <2>2. PICK B : B = {i \in 1 .. l + 1 : i \notin S}
    OBVIOUS
  <2>3. B \in SUBSET Nat /\ l + 1 \in B
    BY <1>1, <2>2
  <2>4. PICK b \in B : \A i \in B : b <= i
    BY <2>3, LeastExists
  <2>5. b \in 1 .. l + 1 /\ b \notin S
    BY <2>2, <2>4
  <2>6. PICK m \in 0 .. l : m = b - 1 /\ b = m + 1
    BY <2>5
  <2>7. ASSUME NEW i \in 1 .. m
        PROVE  i \in S
    <3>1. i \in 1 .. l + 1 /\ ~ (b <= i)
      BY <2>6
    <3>. QED  BY <2>2, <2>4, <3>1
  <2>8. ASSUME NEW i \in S
        PROVE  i \in 1 .. m
    <3>1. /\ i \in 1 .. l /\ i <= MaxNumSummaries
          /\ used + HeaderLen + i * SummaryLen < MaxPacketSize
      BY <1>1
    <3>2. ASSUME b <= i
          PROVE  FALSE
      <4>1. b \in 1 .. l /\ b <= MaxNumSummaries
        BY <2>5, <3>1, <3>2 DEF RTDBAssumption
      <4>2. used + HeaderLen + b * SummaryLen < MaxPacketSize
        BY <2>5, <3>1, <3>2 DEF RTDBAssumption, HeaderLen, SummaryLen
      <4>. QED  BY <1>1, <2>5, <4>1, <4>2
    <3>. QED  BY <2>6, <3>1, <3>2
  <2>9. S = 1 .. m
    BY <2>7, <2>8
  <2>10. Cardinality(1 .. m) = m
    <3>1. 1 \in Int /\ m \in Int
      BY <2>6
    <3>2. Cardinality(1 .. m) = IF 1 > m THEN 0 ELSE m - 1 + 1
      BY <3>1, FS_Interval
    <3>. QED  BY <2>6, <3>2
  <2>11. n = m
    BY <2>1, <2>9, <2>10
  <2>12. ASSUME m # 0
         PROVE  Fits("summaryQ", m, used)
    <3>1. m \in S
      BY <2>6, <2>7, <2>12
    <3>2. used + HeaderLen + m * SummaryLen < MaxPacketSize
      BY <1>1, <3>1
    <3>3. ElementLen["summaryQ"] = SummaryLen
      BY DEF ElementLen
    <3>4. used + HeaderLen + m * SummaryLen <= MaxPacketSize
      BY <2>6, <3>2 DEF RTDBAssumption, HeaderLen, SummaryLen
    <3>. QED  BY <3>3, <3>4 DEF Fits
  <2>. QED  BY <2>6, <2>11, <2>12
<1>. QED  BY <1>2, <1>3

\* p is a and then b.
Joined(a, b, k, m, p) ==
    /\ Len(p) = k + m /\ \A i \in 1 .. k : p[i] = a[i]
    /\ \A i \in 1 .. m : p[k + i] = b[i]

\* The elements of two sequences in one.
LEMMA JoinIs ==
    ASSUME NEW D, NEW a \in Seq(D), NEW b \in Seq(D), NEW k \in Nat, NEW m \in Nat,
           Len(a) = k, Len(b) = m, NEW p, p = a \o b
    PROVE  p \in Seq(D) /\ Joined(a, b, k, m, p)
<1>1. p \in Seq(D) /\ Len(p) = k + m
  OBVIOUS
<1>2. ASSUME NEW i \in 1 .. k  PROVE p[i] = a[i]
  OBVIOUS
<1>3. ASSUME NEW i \in 1 .. m  PROVE p[k + i] = b[i]
  OBVIOUS
<1>. QED  BY <1>1, <1>2, <1>3 DEF Joined

\* The elements at the front.
LEMMA FirstIs ==
    ASSUME NEW D, NEW q \in Seq(D), NEW m \in 0 .. Len(q), NEW a, a = SubSeq(q, 1, m)
    PROVE  a \in Seq(D) /\ Len(a) = m /\ \A i \in 1 .. m : a[i] = q[i]
OBVIOUS

\* The elements at the end.
LEMMA LastIs ==
    ASSUME NEW D, NEW q \in Seq(D), NEW k \in Nat, NEW m \in Nat, Len(q) = k + m,
           NEW a, a = SubSeq(q, m + 1, Len(q))
    PROVE  a \in Seq(D) /\ Len(a) = k /\ \A i \in 1 .. k : a[i] = q[m + i]
<1>1. Len(a) = k
  OBVIOUS
<1>2. ASSUME NEW i \in 1 .. k
      PROVE  a[i] = q[m + i] /\ m + i \in 1 .. Len(q)
  OBVIOUS
<1>3. a \in Seq(D)
  OBVIOUS
<1>. QED  BY <1>1, <1>2, <1>3

\* The last elements come before the first m.
Rotated(q, m, p) == p = SubSeq(q, m + 1, Len(q)) \o SubSeq(q, 1, m)

Exchanged(q, k, m, p) ==
    /\ Len(p) = k + m /\ \A i \in 1 .. k : p[i] = q[m + i]
    /\ \A i \in 1 .. m : p[k + i] = q[i]

\* The first m elements go to the end.
LEMMA RotatedIs ==
    ASSUME NEW D, NEW q \in Seq(D), NEW k \in Nat, NEW m \in Nat, Len(q) = k + m,
           NEW p, Rotated(q, m, p)
    PROVE  p \in Seq(D) /\ Exchanged(q, k, m, p)
<1>1. PICK a, b : a = SubSeq(q, m + 1, Len(q)) /\ b = SubSeq(q, 1, m)
  OBVIOUS
<1>2. a \in Seq(D) /\ Len(a) = k /\ \A i \in 1 .. k : a[i] = q[m + i]
  BY <1>1, LastIs
<1>3. b \in Seq(D) /\ Len(b) = m /\ \A i \in 1 .. m : b[i] = q[i]
  <2>1. m \in 0 .. Len(q)
    OBVIOUS
  <2>. QED  BY <1>1, <2>1, FirstIs
<1>4. p = a \o b
  BY <1>1 DEF Rotated
<1>5. p \in Seq(D) /\ Joined(a, b, k, m, p)
  BY <1>2, <1>3, <1>4, JoinIs
<1>. QED  BY <1>2, <1>3, <1>5 DEF Joined, Exchanged

\* Then each variable is still in the round, once.
LEMMA RotatedIsRound ==
    ASSUME NEW D, NEW q, IsRound(q, D), NEW m \in 0 .. Len(q),
           NEW p, Rotated(q, m, p)
    PROVE  IsRound(p, D)
<1>1. PICK l \in Nat : l = Len(q) /\ m \in 0 .. l /\ q \in Seq(D)
  BY DEF IsRound
<1>2. PICK k \in Nat : l = k + m /\ m \in Nat
  <2>1. l - m \in Nat /\ l = (l - m) + m /\ m \in Nat
    BY <1>1
  <2>. QED  BY <2>1
<1>3. /\ p \in Seq(D) /\ Len(p) = l /\ \A i \in 1 .. k : p[i] = q[m + i]
      /\ \A i \in 1 .. m : p[k + i] = q[i]
  <2>1. Len(q) = k + m
    BY <1>1, <1>2
  <2>2. p \in Seq(D) /\ Exchanged(q, k, m, p)
    BY <1>1, <1>2, <2>1, RotatedIs
  <2>. QED  BY <1>2, <2>2 DEF Exchanged
<1>4. /\ \A x, y \in 1 .. l : q[x] = q[y] => x = y
      /\ \A v \in D : \E x \in 1 .. l : q[x] = v
  BY <1>1 DEF IsRound
\* Where the element i was before.
<1>5. PICK f : f = [i \in 1 .. l |-> IF i <= k THEN m + i ELSE i - k]
  OBVIOUS
<1>6. ASSUME NEW i \in 1 .. l
      PROVE  /\ f[i] \in 1 .. l /\ p[i] = q[f[i]]
             /\ f[i] = IF i <= k THEN m + i ELSE i - k
  <2>1. CASE i <= k
    <3>1. i \in 1 .. k /\ f[i] = m + i /\ m + i \in 1 .. l
      BY <1>2, <1>5, <2>1
    <3>. QED  BY <1>3, <2>1, <3>1
  <2>2. CASE ~ (i <= k)
    <3>1. i - k \in 1 .. m /\ f[i] = i - k /\ i - k \in 1 .. l /\ k + (i - k) = i
      BY <1>2, <1>5, <2>2
    <3>2. p[k + (i - k)] = q[i - k]
      BY <1>3, <3>1
    <3>. QED  BY <2>2, <3>1, <3>2
  <2>. QED  BY <2>1, <2>2
<1>7. ASSUME NEW i \in 1 .. l, NEW j \in 1 .. l, p[i] = p[j]
      PROVE  i = j
  <2>1. f[i] = f[j]
    <3>1. f[i] \in 1 .. l /\ f[j] \in 1 .. l /\ q[f[i]] = q[f[j]]
      BY <1>6, <1>7
    <3>. QED  BY <1>4, <3>1
  <2>2. CASE i <= k /\ j <= k
    BY <1>2, <1>6, <2>1, <2>2
  <2>3. CASE ~ (i <= k) /\ ~ (j <= k)
    BY <1>2, <1>6, <2>1, <2>3
  <2>4. CASE i <= k /\ ~ (j <= k)
    BY <1>2, <1>6, <2>1, <2>4
  <2>5. CASE ~ (i <= k) /\ j <= k
    BY <1>2, <1>6, <2>1, <2>5
  <2>. QED  BY <2>2, <2>3, <2>4, <2>5
<1>8. ASSUME NEW v \in D
      PROVE  \E i \in 1 .. l : p[i] = v
  <2>1. PICK x \in 1 .. l : q[x] = v
    BY <1>4
  <2>2. CASE x > m
    <3>1. PICK i \in 1 .. k : i = x - m /\ x = m + i
      BY <1>2, <2>2
    <3>2. i \in 1 .. l /\ p[i] = q[x]
      BY <1>2, <1>3, <3>1
    <3>. QED  BY <2>1, <3>2
  <2>3. CASE ~ (x > m)
    <3>1. x \in 1 .. m /\ k + x \in 1 .. l
      BY <1>2, <2>3
    <3>2. p[k + x] = q[x]
      BY <1>3, <3>1
    <3>. QED  BY <2>1, <3>1, <3>2
  <2>. QED  BY <2>2, <2>3
<1>. QED  BY <1>3, <1>7, <1>8 DEF IsRound

\* The summaries keep to the size, and the round stays one.
LEMMA AddSummariesOK ==
    ASSUME RTDBAssumption, NEW h, NEW me, NEW s, NEW init \in Nat, NEW K \in SUBSET Containers,
           NEW c, Partial(h, me, s, init, K, c), "summaryQ" \in K, NEW d, d = AddSummaries(c)
    PROVE  Partial(h, me, s, init, K \ {"summaryQ"}, d)
<1>1. PICK data, db, b, used : /\ data = c.data /\ db = data.db /\ b = c.beacon /\ used = c.used
                               /\ data \in Shape /\ Sound(h, me, data) /\ b \in Beacons(h)
                               /\ used \in Nat
  BY DEF Partial, Sound
<1>2. PICK q, l : q = data.summaryQ /\ l = Len(q) /\ q \in Seq(VarId) /\ l \in Nat
  BY <1>1, ShapeFacts
<1>3. db \in Database /\ IsRound(q, DOMAIN db)
  BY <1>1, <1>2, ShapeFacts DEF Sound
<1>4. PICK n : n = NumSummaries(data, used)
  OBVIOUS
<1>5. n \in 0 .. l /\ (n # 0 => Fits("summaryQ", n, used))
  BY <1>1, <1>2, <1>4, NumSummariesIs
<1>6. PICK p, recs : /\ p = SubSeq(q, n + 1, Len(q)) \o SubSeq(q, 1, n)
                     /\ recs = [i \in 1 .. n |-> [id |-> q[i], seqNo |-> db[q[i]].seqNo]]
  OBVIOUS
<1>7. d = [data |-> [data EXCEPT !.summaryQ = p], beacon |-> [b EXCEPT !.summaryQ = recs],
           used |-> used + HeaderLen + n * SummaryLen]
  BY <1>1, <1>2, <1>4, <1>6, Zenon DEF AddSummaries
<1>8. /\ d.data = [data EXCEPT !.summaryQ = p] /\ d.beacon = [b EXCEPT !.summaryQ = recs]
      /\ d.used = used + HeaderLen + n * SummaryLen
  BY <1>7
<1>9. IsRound(p, DOMAIN db)
  <2>1. Rotated(q, n, p) /\ n \in 0 .. Len(q)
    BY <1>2, <1>5, <1>6 DEF Rotated
  <2>. QED  BY <1>3, <2>1, RotatedIsRound
<1>10. p \in Seq(VarId)
  <2>1. p \in Seq(DOMAIN db)
    BY <1>9 DEF IsRound
  <2>2. DOMAIN db \subseteq VarId
    BY <1>3, DatabaseFacts
  <2>. QED  BY <2>1, <2>2, SequenceGrows
<1>11. PICK S : S = [id : VarId, seqNo : Seqno]
  OBVIOUS
<1>12. recs \in Seq(S) /\ Len(recs) = n
  <2>1. ASSUME NEW i \in 1 .. n
        PROVE  [id |-> q[i], seqNo |-> db[q[i]].seqNo] \in S
    <3>1. i \in 1 .. l
      BY <1>2, <1>5
    <3>2. q[i] \in DOMAIN db
      BY <1>2, <1>3, <3>1, SMTT(30) DEF IsRound
    <3>3. q[i] \in VarId /\ db[q[i]].seqNo \in Seqno
      BY <1>3, <3>2, DatabaseFacts
    <3>. QED  BY <1>11, <3>3
  <2>2. PICK f : f = [i \in 1 .. n |-> [id |-> q[i], seqNo |-> db[q[i]].seqNo]]
    OBVIOUS
  <2>3. f \in [1 .. n -> S] /\ n \in Nat
    BY <1>5, <2>1, <2>2
  <2>4. f \in Seq(S) /\ Len(f) = n
    BY <2>3
  <2>. QED  BY <1>6, <2>2, <2>4
<1>13. d.beacon \in Beacons(h)
  <2>1. b \in Beacons(h) /\ recs \in Seq([id : VarId, seqNo : Seqno])
    BY <1>1, <1>11, <1>12
  <2>. QED  BY <1>8, <2>1 DEF Beacons
<1>14. PICK t : t = d.data /\ t \in Shape /\ t.db = db /\ t.summaryQ = p
                /\ t.createQ = data.createQ /\ t.updateQ = data.updateQ
                /\ t.reqUpdateQ = data.reqUpdateQ
  <2>1. PICK t : t = d.data /\ t = [data EXCEPT !.summaryQ = p]
    BY <1>8
  <2>2. /\ t \in Shape /\ t.db = db /\ t.summaryQ = p /\ t.createQ = data.createQ
        /\ t.updateQ = data.updateQ /\ t.reqUpdateQ = data.reqUpdateQ
    BY <1>1, <1>10, <2>1 DEF Shape
  <2>. QED  BY <2>1, <2>2
<1>15. Sound(h, me, t)
  BY <1>1, <1>9, <1>14 DEF Sound
<1>16. Adds(h, me, c, "summaryQ", recs, d)
  <2>1. recs # <<>> => n # 0
    BY <1>12
  <2>2. ElementLen["summaryQ"] = SummaryLen
    BY DEF ElementLen
  <2>3. recs # <<>> => Fits("summaryQ", Len(recs), c.used)
    BY <1>1, <1>5, <1>12, <2>1
  <2>4. Len(recs) \in Nat
    BY <1>5, <1>12
  <2>5. d.used = c.used + HeaderLen + Len(recs) * ElementLen["summaryQ"]
    BY <1>1, <1>8, <1>12, <2>2
  <2>6. d.beacon = [c.beacon EXCEPT !["summaryQ"] = recs]
    BY <1>1, <1>8
  <2>. QED  BY <1>1, <1>13, <1>14, <1>15, <2>3, <2>4, <2>5, <2>6 DEF Adds
<1>. QED  BY <1>16, PartialGoesOn

\* What a beacon is made of, how long it is, and what is left behind.
Made(h, me, s, init, c) ==
    /\ Sound(h, me, c.data) /\ c.data.db = s.db /\ c.beacon \in Beacons(h)
    /\ BeaconLen(c.beacon) + init <= MaxPacketSize

\* A beacon that is made has the size it may have, and its records were written.
LEMMA ConstructBeaconOK ==
    ASSUME RTDBAssumption, NEW h, NEW me, NEW s, Sound(h, me, s), NEW init \in Nat,
           init <= MaxPacketSize, NEW c, c = constructBeacon(s, init)
    PROVE  Made(h, me, s, init, c)
<1>1. PICK c0 : c0 = [data |-> s, beacon |-> EmptyBeacon, used |-> init]
  OBVIOUS
<1>2. PICK c1 : c1 = AddQueue(c0, "createQ")
  OBVIOUS
<1>3. PICK c2 : c2 = AddQueue(c1, "updateQ")
  OBVIOUS
<1>4. PICK c3 : c3 = AddSummaries(c2)
  OBVIOUS
<1>5. PICK c4 : c4 = AddQueue(c3, "reqCreateQ")
  OBVIOUS
<1>6. c = AddQueue(c4, "reqUpdateQ")
  BY <1>1, <1>2, <1>3, <1>4, <1>5, Zenon DEF constructBeacon
<1>7. Partial(h, me, s, init, Containers, c0)
  <2>1. PICK b : b = EmptyBeacon
    OBVIOUS
  <2>2. b \in Beacons(h) /\ \A k \in Containers : b[k] = <<>>
    BY <2>1 DEF EmptyBeacon, Beacons, Containers
  <2>3. BeaconLen(b) = 0
    <3>1. \A k \in Containers : ContainerLen(k, b[k]) = 0
      BY <2>2 DEF ContainerLen
    <3>2. /\ ContainerLen("createQ", b.createQ) = 0 /\ ContainerLen("updateQ", b.updateQ) = 0
          /\ ContainerLen("summaryQ", b.summaryQ) = 0
          /\ ContainerLen("reqCreateQ", b.reqCreateQ) = 0
          /\ ContainerLen("reqUpdateQ", b.reqUpdateQ) = 0
      BY <3>1 DEF Containers
    <3>. QED  BY <3>2 DEF BeaconLen
  <2>4. c0.data = s /\ c0.beacon = b /\ c0.used = init
    BY <1>1, <2>1
  <2>5. BeaconLen(b) + init <= init /\ BeaconLen(b) + init <= MaxPacketSize
    BY <2>3
  <2>. QED  BY <2>2, <2>4, <2>5 DEF Partial
<1>8. PICK K0 : K0 = Containers /\ K0 \in SUBSET Containers
  OBVIOUS
<1>9. PICK K1, K2, K3, K4 :
        /\ K1 = K0 \ {"createQ"} /\ K2 = K1 \ {"updateQ"} /\ K3 = K2 \ {"summaryQ"}
        /\ K4 = K3 \ {"reqCreateQ"}
  OBVIOUS
<1>10. /\ "createQ" \in K0 /\ "updateQ" \in K1 /\ "summaryQ" \in K2 /\ "reqCreateQ" \in K3
       /\ "reqUpdateQ" \in K4
       /\ K1 \in SUBSET Containers /\ K2 \in SUBSET Containers /\ K3 \in SUBSET Containers
       /\ K4 \in SUBSET Containers
  BY <1>8, <1>9 DEF Containers
<1>11. /\ "createQ" \in PacketQueue /\ "updateQ" \in PacketQueue
       /\ "reqCreateQ" \in PacketQueue /\ "reqUpdateQ" \in PacketQueue
  BY DEF PacketQueue
<1>12. Partial(h, me, s, init, K1, c1)
  BY <1>2, <1>7, <1>8, <1>9, <1>10, <1>11, AddQueueOK
<1>13. Partial(h, me, s, init, K2, c2)
  BY <1>3, <1>9, <1>10, <1>11, <1>12, AddQueueOK
<1>14. Partial(h, me, s, init, K3, c3)
  BY <1>4, <1>9, <1>10, <1>13, AddSummariesOK
<1>15. Partial(h, me, s, init, K4, c4)
  BY <1>5, <1>9, <1>10, <1>11, <1>14, AddQueueOK
<1>16. Partial(h, me, s, init, K4 \ {"reqUpdateQ"}, c)
  BY <1>6, <1>10, <1>11, <1>15, AddQueueOK
<1>. QED  BY <1>16 DEF Partial, Made

(***************************************************************************)
(* The network.                                                            *)
(***************************************************************************)
\* What the assumptions say of a scenario.
LEMMA ScenarioFacts ==
    ASSUME NetworkAssumption, RTDBAssumption, NEW sc \in Scenarios
    PROVE  /\ sc.nodes \subseteq NodeId /\ sc.producers \subseteq NodeId
           /\ \A n \in NodeId : sc.variable[n] \in VarId
           /\ \A n, m \in sc.producers : sc.variable[n] = sc.variable[m] => n = m
           /\ sc.updates \in Nat /\ sc.repCnt \in Nat /\ sc.repCnt <= MaxRepetitions
<1>1. sc \in Scenario /\ sc.repCnt <= MaxRepetitions
      /\ \A n, m \in sc.producers : sc.variable[n] = sc.variable[m] => n = m
  BY SMTT(30) DEF NetworkAssumption
<1>. QED  BY <1>1 DEF Scenario, RepCnt, RTDBAssumption

ProducerOf(sc, v) == CHOOSE m \in sc.producers : sc.variable[m] = v

\* What the data say that the producers have written so far.
HistoryOf(sc, data) ==
    [newest |-> [v \in VarId |->
                   IF \E m \in sc.producers : sc.variable[m] = v /\ Known(data[m], v)
                   THEN data[ProducerOf(sc, v)].db[v].val ELSE -1],
     updates |-> sc.updates]

\* The producers have created their variables themselves.
Own(sc, data) ==
    \A m \in sc.producers :
        Known(data[m], sc.variable[m]) =>
          /\ data[m].db[sc.variable[m]].producer = m
          /\ data[m].db[sc.variable[m]].val <= sc.updates

\* Of a variable with a producer, the newest value is his; others have none.
LEMMA NewestIs ==
    ASSUME NetworkAssumption, RTDBAssumption, NEW sc \in Scenarios, NEW data,
           NEW h, h = HistoryOf(sc, data)
    PROVE  /\ h.updates = sc.updates
           /\ \A m \in sc.producers :
                 h.newest[sc.variable[m]] = IF Known(data[m], sc.variable[m])
                                            THEN data[m].db[sc.variable[m]].val ELSE -1
           /\ \A v \in VarId :
                 (\A m \in sc.producers : sc.variable[m] # v) => h.newest[v] = -1
<1>1. /\ h.updates = sc.updates
      /\ h.newest = [v \in VarId |->
                       IF \E m \in sc.producers : sc.variable[m] = v /\ Known(data[m], v)
                       THEN data[ProducerOf(sc, v)].db[v].val ELSE -1]
  BY DEF HistoryOf
<1>2. /\ sc.producers \subseteq NodeId /\ \A n \in NodeId : sc.variable[n] \in VarId
      /\ \A n, m \in sc.producers : sc.variable[n] = sc.variable[m] => n = m
  BY ScenarioFacts
<1>3. ASSUME NEW m \in sc.producers
      PROVE  h.newest[sc.variable[m]] = IF Known(data[m], sc.variable[m])
                                        THEN data[m].db[sc.variable[m]].val ELSE -1
  <2>1. PICK v \in VarId : v = sc.variable[m]
    BY <1>2
  <2>2. ProducerOf(sc, v) = m
    <3>1. ProducerOf(sc, v) \in sc.producers /\ sc.variable[ProducerOf(sc, v)] = v
      BY <2>1, Zenon DEF ProducerOf
    <3>. QED  BY <1>2, <2>1, <3>1
  <2>3. (\E i \in sc.producers : sc.variable[i] = v /\ Known(data[i], v)) <=> Known(data[m], v)
    BY <1>2, <2>1
  <2>4. h.newest[v] = IF \E i \in sc.producers : sc.variable[i] = v /\ Known(data[i], v)
                      THEN data[ProducerOf(sc, v)].db[v].val ELSE -1
    BY <1>1, <2>1, Zenon
  <2>. QED  BY <2>1, <2>2, <2>3, <2>4, Zenon
<1>4. ASSUME NEW v \in VarId, \A m \in sc.producers : sc.variable[m] # v
      PROVE  h.newest[v] = -1
  <2>1. h.newest[v] = IF \E i \in sc.producers : sc.variable[i] = v /\ Known(data[i], v)
                      THEN data[ProducerOf(sc, v)].db[v].val ELSE -1
    BY <1>1, Zenon
  <2>. QED  BY <1>4, <2>1, Zenon
<1>. QED  BY <1>1, <1>3, <1>4

\* The newest value of a variable is that of its producer.
LEMMA NewestOf ==
    ASSUME NetworkAssumption, RTDBAssumption, NEW sc \in Scenarios, NEW data,
           NEW h, h = HistoryOf(sc, data), NEW m \in sc.producers, NEW v, v = sc.variable[m]
    PROVE  h.newest[v] = IF Known(data[m], v) THEN data[m].db[v].val ELSE -1
BY NewestIs

\* When the producers know the same, the history is the same.
SameKnown(sc, data, e) ==
    \A m \in sc.producers :
        LET v == sc.variable[m]
        IN  /\ Known(data[m], v) <=> Known(e[m], v)
            /\ Known(data[m], v) => e[m].db[v].val = data[m].db[v].val

\* What the producers know is all that matters to the history.
LEMMA SameNewest ==
    ASSUME NetworkAssumption, RTDBAssumption, NEW sc \in Scenarios, NEW data, NEW e,
           SameKnown(sc, data, e)
    PROVE  HistoryOf(sc, e) = HistoryOf(sc, data)
<1>1. PICK h, k : h = HistoryOf(sc, data) /\ k = HistoryOf(sc, e)
  OBVIOUS
<1>2. ASSUME NEW v \in VarId
      PROVE  h.newest[v] = k.newest[v]
  <2>1. CASE \E m \in sc.producers : sc.variable[m] = v
    <3>1. PICK m \in sc.producers : sc.variable[m] = v
      BY <2>1
    <3>2. /\ h.newest[v] = IF Known(data[m], v) THEN data[m].db[v].val ELSE -1
          /\ k.newest[v] = IF Known(e[m], v) THEN e[m].db[v].val ELSE -1
      BY <1>1, <3>1, NewestIs
    <3>3. /\ Known(data[m], v) <=> Known(e[m], v)
          /\ Known(data[m], v) => e[m].db[v].val = data[m].db[v].val
      BY <3>1 DEF SameKnown
    <3>. QED  BY <3>2, <3>3
  <2>2. CASE \A m \in sc.producers : sc.variable[m] # v
    BY <1>1, <2>2, NewestIs
  <2>. QED  BY <2>1, <2>2
<1>3. PICK f, g : /\ f = [v \in VarId |->
                            IF \E m \in sc.producers : sc.variable[m] = v /\ Known(data[m], v)
                            THEN data[ProducerOf(sc, v)].db[v].val ELSE -1]
                  /\ g = [v \in VarId |->
                            IF \E m \in sc.producers : sc.variable[m] = v /\ Known(e[m], v)
                            THEN e[ProducerOf(sc, v)].db[v].val ELSE -1]
  OBVIOUS
<1>4. h = [newest |-> f, updates |-> sc.updates] /\ k = [newest |-> g, updates |-> sc.updates]
  BY <1>1, <1>3, Zenon DEF HistoryOf
<1>5. h.newest = f /\ k.newest = g
  BY <1>4
<1>6. DOMAIN f = VarId /\ DOMAIN g = VarId
  BY <1>3
<1>7. f = g
  <2>1. \A v \in VarId : f[v] = g[v]
    BY <1>2, <1>5
  <2>2. f = [v \in VarId |-> f[v]] /\ g = [v \in VarId |-> g[v]]
    BY <1>3
  <2>. QED  BY <2>1, <2>2, Zenon
<1>. QED  BY <1>1, <1>4, <1>7

Holding(sc, data) == \A n \in NodeId : Sound(HistoryOf(sc, data), n, data[n])

\* The data of the nodes make a history.
LEMMA HistoryOK ==
    ASSUME NetworkAssumption, RTDBAssumption, NEW sc \in Scenarios, NEW data,
           \A n \in NodeId : data[n] \in Shape, Own(sc, data)
    PROVE  IsHistory(HistoryOf(sc, data))
<1>1. PICK h : h = HistoryOf(sc, data)
  OBVIOUS
<1>2. Value = Nat
  BY DEF NetworkAssumption
<1>3. sc.updates \in Nat /\ sc.producers \subseteq NodeId /\ h.updates = sc.updates
  BY <1>1, ScenarioFacts, NewestIs
<1>4. ASSUME NEW v \in VarId
      PROVE  h.newest[v] \in Int /\ h.newest[v] <= h.updates
  <2>1. CASE \E m \in sc.producers : sc.variable[m] = v
    <3>1. PICK m \in sc.producers : sc.variable[m] = v
      BY <2>1
    <3>2. h.newest[v] = IF Known(data[m], v) THEN data[m].db[v].val ELSE -1
      BY <1>1, <3>1, NewestIs
    <3>3. CASE Known(data[m], v)
      <4>1. PICK db \in Database : db = data[m].db /\ v \in DOMAIN db
        BY <1>3, <3>3, ShapeFacts DEF Known
      <4>2. db[v].val \in Nat
        BY <1>2, <4>1, DatabaseFacts
      <4>3. db[v].val <= sc.updates
        BY <3>1, <3>3, <4>1 DEF Own
      <4>. QED  BY <1>3, <3>2, <3>3, <4>1, <4>2, <4>3
    <3>4. CASE ~ Known(data[m], v)
      BY <1>3, <3>2, <3>4
    <3>. QED  BY <3>3, <3>4
  <2>2. CASE \A m \in sc.producers : sc.variable[m] # v
    <3>1. h.newest[v] = -1
      BY <1>1, <2>2, NewestIs
    <3>. QED  BY <1>3, <3>1
  <2>. QED  BY <2>1, <2>2
<1>. QED  BY <1>1, <1>3, <1>4 DEF IsHistory

\* Sound data stay so in later histories.
LEMMA SoundGoesOn ==
    ASSUME NEW h, NEW k, Continues(h, k), Value = Nat, NEW me, NEW s, Sound(h, me, s)
    PROVE  Sound(k, me, s)
<1>1. PICK db : db = s.db /\ db \in Database /\ s \in Shape
  BY ShapeFacts DEF Sound
<1>2. ASSUME NEW r \in Creates(h, db)
      PROVE  r \in Creates(k, db)
  <2>1. /\ r \in RTDBVarCreate /\ Written(h, r.id, r.val, r.seqNo) /\ r.id \in DOMAIN db
        /\ Few(h) => r.val <= db[r.id].val
    BY DEF Creates, GenuineCreates
  <2>2. r.id \in VarId /\ r.val \in Nat
    BY <2>1 DEF RTDBVarCreate
  <2>3. Written(k, r.id, r.val, r.seqNo)
    BY <2>1, <2>2, WrittenGoesOn
  <2>4. Few(h) <=> Few(k)
    BY DEF Few, Continues
  <2>. QED  BY <2>1, <2>3, <2>4 DEF Creates, GenuineCreates
<1>3. ASSUME NEW v \in DOMAIN db
      PROVE  Written(k, v, db[v].val, db[v].seqNo)
  <2>1. v \in VarId /\ db[v].val \in Nat
    BY <1>1, DatabaseFacts
  <2>2. Written(h, v, db[v].val, db[v].seqNo)
    BY <1>1 DEF Sound
  <2>. QED  BY <2>1, <2>2, WrittenGoesOn
<1>4. s.createQ \in Seq(Creates(k, db))
  <2>1. s.createQ \in Seq(Creates(h, db))
    BY <1>1 DEF Sound
  <2>. QED  BY <1>2, <2>1, SequenceGrows
<1>. QED  BY <1>1, <1>3, <1>4 DEF Sound

Packet(h) == [beacon : Beacons(h), report : Int]

\* The data of the nodes, and the beacons that are waiting.
Stable(sc, data, queue) ==
    /\ data \in [NodeId -> Shape] /\ Holding(sc, data) /\ Own(sc, data)
    /\ queue \in [NodeId -> Seq(Packet(HistoryOf(sc, data)))]

\* No node goes back.
Forward(data, e) ==
    \A n \in NodeId : \A v \in DOMAIN data[n].db :
        Known(e[n], v) /\ e[n].db[v].val >= data[n].db[v].val

\* There are histories in which the value x of v is written next.
LEMMA LaterHistory ==
    ASSUME NEW h, IsHistory(h), NEW v \in VarId, NEW x \in Nat, h.newest[v] <= x,
           x <= h.updates
    PROVE  \E k : Continues(h, k) /\ k.newest[v] = x
<1>1. PICK k : k = [newest |-> [w \in VarId |-> IF w = v THEN x ELSE h.newest[w]],
                    updates |-> h.updates]
  OBVIOUS
<1>2. k.updates = h.updates /\ \A w \in VarId : k.newest[w] = IF w = v THEN x ELSE h.newest[w]
  BY <1>1
<1>3. h.updates \in Nat /\ \A w \in VarId : h.newest[w] \in Int /\ h.newest[w] <= h.updates
  BY DEF IsHistory
<1>4. \A w \in VarId : /\ k.newest[w] \in Int /\ k.newest[w] <= k.updates
                       /\ h.newest[w] <= k.newest[w]
  BY <1>2, <1>3
<1>5. Continues(h, k)
  BY <1>2, <1>3, <1>4 DEF Continues, IsHistory
<1>. QED  BY <1>2, <1>5

\* The producer me of v has written x, which has made t of its data s.
Writes(h, me, v, x, s, t) ==
    /\ x \in Nat /\ h.newest[v] <= x /\ x <= h.updates
    /\ \A k : Continues(h, k) /\ k.newest[v] = x => Sound(k, me, t)
    /\ \E y \in RTDBVariable : y.producer = me /\ y.val = x /\ OnlyChanged(s, t, v, y)

\* Only the data of the producer n of v have changed, and x is its newest value.
OthersSame(n, data, e) == \A m \in NodeId : m # n => e[m] = data[m]
NowNewest(h, k, v, x) == \A w \in VarId : k.newest[w] = IF w = v THEN x ELSE h.newest[w]

\* A producer that writes changes the history of its variable alone.
LEMMA NewestNow ==
    ASSUME NetworkAssumption, RTDBAssumption, NEW sc \in Scenarios, NEW data, NEW e,
           NEW n \in sc.producers, NEW v, v = sc.variable[n],
           OthersSame(n, data, e), NEW x, Known(e[n], v), e[n].db[v].val = x,
           NEW h, h = HistoryOf(sc, data), NEW k, k = HistoryOf(sc, e)
    PROVE  NowNewest(h, k, v, x)
<1>1. /\ sc.producers \subseteq NodeId
      /\ \A i, m \in sc.producers : sc.variable[i] = sc.variable[m] => i = m
  BY ScenarioFacts
<1>2. SUFFICES ASSUME NEW w \in VarId
               PROVE  k.newest[w] = IF w = v THEN x ELSE h.newest[w]
  BY DEF NowNewest
<1>3. CASE w = v
  <2>1. k.newest[v] = IF Known(e[n], v) THEN e[n].db[v].val ELSE -1
    BY NewestOf
  <2>. QED  BY <1>3, <2>1
<1>4. CASE w # v /\ \E m \in sc.producers : sc.variable[m] = w
  <2>1. PICK m \in sc.producers : sc.variable[m] = w
    BY <1>4
  <2>2. e[m] = data[m]
    BY <1>1, <1>4, <2>1 DEF OthersSame
  <2>3. h.newest[w] = IF Known(data[m], w) THEN data[m].db[w].val ELSE -1
    BY <2>1, NewestOf
  <2>4. k.newest[w] = IF Known(e[m], w) THEN e[m].db[w].val ELSE -1
    BY <2>1, NewestOf
  <2>. QED  BY <1>4, <2>2, <2>3, <2>4
<1>5. CASE w # v /\ \A m \in sc.producers : sc.variable[m] # w
  <2>1. h.newest[w] = -1
    BY <1>5, NewestIs
  <2>2. k.newest[w] = -1
    BY <1>5, NewestIs
  <2>. QED  BY <1>5, <2>1, <2>2
<1>. QED  BY <1>3, <1>4, <1>5

Replaced(data, n, t, e) == e = [data EXCEPT ![n] = t]

\* When a producer writes, all data and beacons fit the new history.
LEMMA WriteOK ==
    ASSUME NetworkAssumption, RTDBAssumption, NEW sc \in Scenarios, NEW data, NEW queue,
           Stable(sc, data, queue), NEW n \in sc.producers, NEW v, v = sc.variable[n],
           NEW x, NEW t, Writes(HistoryOf(sc, data), n, v, x, data[n], t),
           NEW e, Replaced(data, n, t, e)
    PROVE  Stable(sc, e, queue) /\ Forward(data, e)
<1>1. PICK h, k, s : h = HistoryOf(sc, data) /\ k = HistoryOf(sc, e) /\ s = data[n]
  OBVIOUS
<1>2. /\ sc.producers \subseteq NodeId /\ n \in NodeId /\ v \in VarId /\ sc.updates \in Nat
      /\ \A i, m \in sc.producers : sc.variable[i] = sc.variable[m] => i = m
  BY ScenarioFacts
<1>3. /\ data \in [NodeId -> Shape] /\ Own(sc, data) /\ Value = Nat
      /\ \A m \in NodeId : Sound(h, m, data[m])
      /\ queue \in [NodeId -> Seq(Packet(h))]
  BY <1>1 DEF Stable, Holding, NetworkAssumption
<1>4. IsHistory(h)
  BY <1>1, <1>3, HistoryOK
<1>5. /\ x \in Nat /\ h.newest[v] <= x /\ x <= h.updates
      /\ \A c : Continues(h, c) /\ c.newest[v] = x => Sound(c, n, t)
  BY <1>1 DEF Writes
<1>6. PICK y \in RTDBVariable : y.producer = n /\ y.val = x /\ OnlyChanged(s, t, v, y)
  BY <1>1 DEF Writes
<1>7. PICK c : Continues(h, c) /\ c.newest[v] = x /\ Sound(c, n, t)
  <2>1. \E c : Continues(h, c) /\ c.newest[v] = x
    BY <1>2, <1>4, <1>5, LaterHistory
  <2>. QED  BY <1>5, <2>1
<1>8. PICK db, d : db = s.db /\ d = t.db /\ db \in Database /\ d \in Database /\ t \in Shape
  BY <1>1, <1>2, <1>3, <1>7, ShapeFacts DEF Sound
<1>9. /\ DOMAIN d = DOMAIN db \cup {v} /\ d[v] = y
      /\ \A w \in DOMAIN db : w # v => d[w] = db[w]
  BY <1>6, <1>8 DEF OnlyChanged
<1>10. /\ e \in [NodeId -> Shape] /\ e[n] = t
       /\ \A m \in NodeId : m # n => e[m] = data[m]
  BY <1>2, <1>3, <1>8 DEF Replaced
<1>11. h.updates = sc.updates /\ k.updates = sc.updates
  BY <1>1, NewestIs
<1>12. Own(sc, e)
  <2>1. ASSUME NEW m \in sc.producers, Known(e[m], sc.variable[m])
        PROVE  /\ e[m].db[sc.variable[m]].producer = m
               /\ e[m].db[sc.variable[m]].val <= sc.updates
    <3>1. CASE m = n
      BY <1>5, <1>6, <1>8, <1>9, <1>10, <1>11, <3>1
    <3>2. CASE m # n
      <4>1. e[m] = data[m]
        BY <1>2, <1>10, <3>2
      <4>. QED  BY <1>3, <2>1, <4>1 DEF Own
    <3>. QED  BY <3>1, <3>2
  <2>. QED  BY <2>1 DEF Own
<1>13. IsHistory(k)
  BY <1>1, <1>10, <1>12, HistoryOK
<1>14. \A w \in VarId : k.newest[w] = IF w = v THEN x ELSE h.newest[w]
  <2>1. Known(e[n], v) /\ e[n].db[v].val = x
    BY <1>6, <1>8, <1>9, <1>10 DEF Known
  <2>2. OthersSame(n, data, e)
    BY <1>10 DEF OthersSame
  <2>3. NowNewest(h, k, v, x)
    BY <1>1, <2>1, <2>2, NewestNow
  <2>. QED  BY <2>3 DEF NowNewest
<1>15. ASSUME NEW w \in VarId
       PROVE  h.newest[w] \in Int /\ h.newest[w] <= k.newest[w]
  BY <1>4, <1>5, <1>14 DEF IsHistory
<1>16. Continues(h, k)
  BY <1>4, <1>11, <1>13, <1>15 DEF Continues
<1>17. Sound(k, n, t)
  <2>1. k.newest[v] = x
    BY <1>2, <1>14
  <2>. QED  BY <1>5, <1>16, <2>1
<1>18. \A m \in NodeId : Sound(k, m, e[m])
  BY <1>3, <1>10, <1>16, <1>17, SoundGoesOn
<1>19. queue \in [NodeId -> Seq(Packet(k))]
  <2>1. Beacons(h) \subseteq Beacons(k)
    BY <1>3, <1>16, BeaconGoesOn
  <2>2. Packet(h) \subseteq Packet(k)
    BY <2>1 DEF Packet
  <2>3. PICK A, B : A = Packet(h) /\ B = Packet(k)
    OBVIOUS
  <2>4. Seq(A) \subseteq Seq(B)
    BY <2>2, <2>3, SequenceGrows
  <2>. QED  BY <1>3, <2>3, <2>4
<1>20. Stable(sc, e, queue)
  BY <1>1, <1>10, <1>12, <1>18, <1>19 DEF Stable, Holding
<1>21. ASSUME NEW m \in NodeId, NEW w \in DOMAIN data[m].db
       PROVE  Known(e[m], w) /\ e[m].db[w].val >= data[m].db[w].val
  <2>1. PICK f \in Database : f = data[m].db
    BY <1>3, ShapeFacts
  <2>2. f[w].val \in Nat
    BY <1>3, <2>1, DatabaseFacts
  <2>3. CASE m # n
    <3>1. e[m] = data[m]
      BY <1>10, <2>3
    <3>. QED  BY <2>1, <2>2, <3>1 DEF Known
  <2>4. CASE m = n /\ w # v
    <3>1. w \in DOMAIN d /\ d[w] = f[w]
      BY <1>1, <1>8, <1>9, <2>1, <2>4
    <3>. QED  BY <1>8, <1>10, <2>1, <2>2, <2>4, <3>1 DEF Known
  <2>5. CASE m = n /\ w = v
    <3>1. Written(h, v, f[v].val, f[v].seqNo)
      BY <1>3, <2>1, <2>5 DEF Sound
    <3>2. f[v].val <= x
      BY <1>2, <1>5, <1>15, <2>2, <2>5, <3>1 DEF Written
    <3>3. v \in DOMAIN d /\ d[v].val = x
      BY <1>6, <1>9
    <3>. QED  BY <1>5, <1>8, <1>10, <2>1, <2>2, <2>5, <3>2, <3>3 DEF Known
  <2>. QED  BY <2>3, <2>4, <2>5
<1>. QED  BY <1>20, <1>21 DEF Forward

\* Nodes have received, or have done less.
LEMMA ReceiveOK ==
    ASSUME NetworkAssumption, RTDBAssumption, NEW sc \in Scenarios, NEW data, NEW queue,
           Stable(sc, data, queue), NEW e, e = [n \in NodeId |-> e[n]],
           \A n \in NodeId : Received(HistoryOf(sc, data), n, data[n], e[n])
    PROVE  /\ Stable(sc, e, queue) /\ HistoryOf(sc, e) = HistoryOf(sc, data)
           /\ 2 * sc.updates <= SeqnoModulus => Forward(data, e)
<1>1. PICK h : h = HistoryOf(sc, data)
  OBVIOUS
<1>2. /\ sc.producers \subseteq NodeId /\ \A n \in NodeId : sc.variable[n] \in VarId
  BY ScenarioFacts
<1>3. /\ data \in [NodeId -> Shape] /\ Own(sc, data) /\ Value = Nat
      /\ \A m \in NodeId : Sound(h, m, data[m])
      /\ queue \in [NodeId -> Seq(Packet(h))]
  BY <1>1 DEF Stable, Holding, NetworkAssumption
<1>4. \A m \in NodeId : Sound(h, m, e[m]) /\ Grown(h, m, data[m], e[m]) /\ e[m] \in Shape
  BY <1>1 DEF Received, Sound
<1>5. ASSUME NEW m \in sc.producers, NEW v, v = sc.variable[m]
      PROVE  /\ Known(data[m], v) <=> Known(e[m], v)
             /\ Known(data[m], v) => /\ e[m].db[v].val = data[m].db[v].val
                                     /\ e[m].db[v].producer = data[m].db[v].producer
                                     /\ data[m].db[v].producer = m
  <2>1. m \in NodeId /\ v \in VarId
    BY <1>2, <1>5
  <2>2. CASE Known(data[m], v)
    <3>1. data[m].db[v].producer = m
      BY <1>3, <1>5, <2>2 DEF Own
    <3>2. /\ v \in DOMAIN e[m].db /\ e[m].db[v].val = data[m].db[v].val
          /\ e[m].db[v].producer = data[m].db[v].producer
      BY <1>4, <2>1, <2>2, <3>1 DEF Grown, Known
    <3>. QED  BY <2>2, <3>1, <3>2 DEF Known
  <2>3. CASE ~ Known(data[m], v)
    <3>1. h.newest[v] = -1
      BY <1>1, <1>5, <2>3, NewestIs
    <3>2. ASSUME Known(e[m], v)
          PROVE  FALSE
      <4>1. PICK db \in Database : db = e[m].db /\ v \in DOMAIN db
        BY <1>4, <2>1, <3>2, ShapeFacts DEF Known
      <4>2. db[v].val \in Nat
        BY <1>3, <4>1, DatabaseFacts
      <4>3. Written(h, v, db[v].val, db[v].seqNo)
        BY <1>4, <2>1, <4>1 DEF Sound
      <4>. QED  BY <3>1, <4>2, <4>3 DEF Written
    <3>. QED  BY <2>3, <3>2
  <2>. QED  BY <2>2, <2>3
<1>6. HistoryOf(sc, e) = h
  <2>1. SameKnown(sc, data, e)
    BY <1>5 DEF SameKnown
  <2>. QED  BY <1>1, <2>1, SameNewest
<1>7. Own(sc, e)
  BY <1>3, <1>5 DEF Own
<1>8. e \in [NodeId -> Shape]
  BY <1>4
<1>9. Stable(sc, e, queue)
  BY <1>3, <1>4, <1>6, <1>7, <1>8 DEF Stable, Holding
<1>10. ASSUME 2 * sc.updates <= SeqnoModulus
       PROVE  Forward(data, e)
  <2>1. h.updates = sc.updates
    BY <1>1, NewestIs
  <2>2. Few(h)
    BY <1>10, <2>1 DEF Few
  <2>3. ASSUME NEW n \in NodeId, NEW v \in DOMAIN data[n].db
        PROVE  Known(e[n], v) /\ e[n].db[v].val >= data[n].db[v].val
    <3>1. v \in DOMAIN e[n].db /\ data[n].db[v].val <= e[n].db[v].val
      BY <1>4, <2>2 DEF Grown
    <3>. QED  BY <3>1 DEF Known
  <2>. QED  BY <2>3 DEF Forward
<1>. QED  BY <1>1, <1>6, <1>9, <1>10

\* A beacon has room for what others put in it.
Room == InitBeaconLen <= MaxPacketSize

\* In no network are there so many updates that sequence numbers no longer order them.
FewUpdates == \A sc \in Scenarios : 2 * sc.updates <= SeqnoModulus

Inv ==
    /\ scenario \in Scenarios /\ Stable(scenario, rtdb, mac)
    /\ now \in Nat /\ mobInfoTimestamp \in [NodeId -> Int] /\ threw = {}

\* What a step may do.
Advance == Inv' /\ (FewUpdates => Forward(rtdb, rtdb'))

\* What Stable says.
LEMMA StableFacts ==
    ASSUME NetworkAssumption, RTDBAssumption, NEW sc \in Scenarios, NEW data, NEW queue,
           Stable(sc, data, queue), NEW h, h = HistoryOf(sc, data)
    PROVE  /\ data \in [NodeId -> Shape] /\ IsHistory(h) /\ Value = Nat
           /\ \A m \in NodeId : Sound(h, m, data[m]) /\ data[m].db \in Database
           /\ Own(sc, data) /\ queue \in [NodeId -> Seq(Packet(h))]
<1>1. /\ data \in [NodeId -> Shape] /\ Own(sc, data) /\ Value = Nat
      /\ \A m \in NodeId : Sound(h, m, data[m])
      /\ queue \in [NodeId -> Seq(Packet(h))]
  BY DEF Stable, Holding, NetworkAssumption
<1>2. IsHistory(h)
  BY <1>1, HistoryOK
<1>3. \A m \in NodeId : data[m].db \in Database
  BY <1>1, ShapeFacts
<1>. QED  BY <1>1, <1>2, <1>3

\* The creation of a variable is one of the things its producer may write.
LEMMA CreateWrites ==
    ASSUME NetworkAssumption, RTDBAssumption, NEW sc \in Scenarios, NEW data, NEW queue,
           Stable(sc, data, queue), NEW n \in sc.producers, NEW v, v = sc.variable[n],
           ~ Known(data[n], v), NEW t, t = handleAPICreateReq(data[n], n, v, sc.repCnt, 0)
    PROVE  /\ Writes(HistoryOf(sc, data), n, v, 0, data[n], t)
           /\ CreateCode(data[n], v, sc.repCnt) = "RC_OK"
<1>1. PICK h, s, c : h = HistoryOf(sc, data) /\ s = data[n] /\ c = sc.repCnt
  OBVIOUS
<1>2. n \in NodeId /\ v \in VarId /\ sc.updates \in Nat /\ c \in Nat /\ c <= MaxRepetitions
  BY <1>1, ScenarioFacts
<1>3. IsHistory(h) /\ Value = Nat /\ Sound(h, n, s)
  BY <1>1, <1>2, StableFacts
<1>4. h.newest[v] = -1 /\ h.updates = sc.updates
  <2>1. h.newest[v] = IF Known(data[n], v) THEN data[n].db[v].val ELSE -1
    BY <1>1, NewestOf
  <2>2. h.updates = sc.updates
    BY <1>1, NewestIs
  <2>. QED  BY <2>1, <2>2
<1>5. t = handleAPICreateReq(s, n, v, c, 0) /\ ~ Known(s, v)
  BY <1>1
<1>6. ASSUME NEW k, Continues(h, k), k.newest[v] = 0
      PROVE  /\ CreateCode(s, v, c) = "RC_OK" /\ Sound(k, n, t)
             /\ \E y \in RTDBVariable : y.producer = n /\ y.val = 0 /\ OnlyChanged(s, t, v, y)
  <2>1. 0 <= k.newest[v]
    BY <1>6
  <2>. QED  BY <1>2, <1>3, <1>5, <1>6, <2>1, CreateReqOK
<1>7. PICK k : Continues(h, k) /\ k.newest[v] = 0
  <2>1. h.newest[v] <= 0 /\ 0 <= h.updates
    BY <1>2, <1>4
  <2>. QED  BY <1>2, <1>3, <2>1, LaterHistory
<1>8. Writes(h, n, v, 0, s, t)
  BY <1>2, <1>4, <1>6, <1>7 DEF Writes
<1>. QED  BY <1>1, <1>6, <1>7, <1>8

\* The next value of a variable is one of the things its producer may write.
LEMMA NextIsWritten ==
    ASSUME RTDBAssumption, Value = Nat, NEW h, IsHistory(h), NEW n, NEW s, Sound(h, n, s),
           NEW v \in VarId, Known(s, v), s.db[v].producer = n, NEW y \in Nat,
           y = s.db[v].val + 1, h.newest[v] <= y, y <= h.updates,
           NEW t, t = handleAPIUpdateReq(s, n, v, y)
    PROVE  Writes(h, n, v, y, s, t) /\ UpdateCode(s, n, v) = "RC_OK"
<1>1. ASSUME NEW k, Continues(h, k), k.newest[v] = y
      PROVE  /\ UpdateCode(s, n, v) = "RC_OK" /\ Sound(k, n, t)
             /\ \E z \in RTDBVariable : /\ z.producer = n /\ z.val = y
                                        /\ OnlyChanged(s, t, v, z)
  <2>1. y <= k.newest[v]
    BY <1>1
  <2>. QED  BY <1>1, <2>1, UpdateReqOK
<1>2. PICK k : Continues(h, k) /\ k.newest[v] = y
  BY LaterHistory
<1>3. /\ UpdateCode(s, n, v) = "RC_OK"
      /\ \E z \in RTDBVariable : z.producer = n /\ z.val = y /\ OnlyChanged(s, t, v, z)
  BY <1>1, <1>2
<1>4. \A c : Continues(h, c) /\ c.newest[v] = y => Sound(c, n, t)
  BY <1>1
<1>. QED  BY <1>3, <1>4, Zenon DEF Writes

\* The variable v of the node n has the value y next.
IsNext(sc, data, n, v, y) ==
    /\ Known(data[n], v) /\ data[n].db[v].val < sc.updates
    /\ y = data[n].db[v].val + 1

\* The update of a variable in a network.
LEMMA UpdateWrites ==
    ASSUME NetworkAssumption, RTDBAssumption, NEW sc \in Scenarios, NEW data, NEW queue,
           Stable(sc, data, queue), NEW n \in sc.producers, NEW v, v = sc.variable[n],
           NEW y, IsNext(sc, data, n, v, y), NEW t, t = handleAPIUpdateReq(data[n], n, v, y)
    PROVE  /\ Writes(HistoryOf(sc, data), n, v, y, data[n], t)
           /\ UpdateCode(data[n], n, v) = "RC_OK"
<1>1. PICK h, s : h = HistoryOf(sc, data) /\ s = data[n]
  BY Zenon
<1>2. n \in NodeId /\ v \in VarId /\ sc.updates \in Nat
  BY ScenarioFacts
<1>3. IsHistory(h) /\ Value = Nat /\ Sound(h, n, s) /\ s.db \in Database /\ Own(sc, data)
  BY <1>1, <1>2, StableFacts
<1>4. h.newest[v] = s.db[v].val /\ h.updates = sc.updates
  <2>1. h.newest[v] = IF Known(data[n], v) THEN data[n].db[v].val ELSE -1
    BY <1>1, NewestOf
  <2>2. h.updates = sc.updates
    BY <1>1, NewestIs
  <2>3. Known(data[n], v)
    BY ZenonT(40) DEF IsNext
  <2>. QED  BY <1>1, <2>1, <2>2, <2>3
<1>5. Known(s, v) /\ s.db[v].producer = n
  BY <1>1, <1>3 DEF IsNext, Own
<1>6. s.db[v].val \in Nat
  BY <1>3, <1>5, DatabaseFacts, SMTT(30) DEF Known
<1>7. y \in Nat /\ y = s.db[v].val + 1 /\ h.newest[v] <= y /\ y <= h.updates
  <2>1. PICK x \in Nat, u \in Nat : x = s.db[v].val /\ u = sc.updates
    BY <1>2, <1>6, SMTT(30)
  <2>2. x < u /\ y = x + 1
    BY <1>1, <2>1 DEF IsNext
  <2>. QED  BY <1>4, <2>1, <2>2
<1>8. t = handleAPIUpdateReq(s, n, v, y)
  BY <1>1, ZenonT(40)
<1>9. Writes(h, n, v, y, s, t) /\ UpdateCode(s, n, v) = "RC_OK"
  BY <1>2, <1>3, <1>5, <1>7, <1>8, NextIsWritten
<1>. QED  BY <1>1, <1>9, Zenon

(***************************************************************************)
(* Each step.                                                              *)
(***************************************************************************)
\* A node without data.
LEMMA NoDataOK ==
    ASSUME NEW h, NEW me
    PROVE  NoData \in Shape /\ Sound(h, me, NoData) /\ \A v : ~ Known(NoData, v)
<1>1. PICK db : db = [v \in {} |-> {}]
  OBVIOUS
<1>2. PICK s : s = NoData
  OBVIOUS
<1>3. DOMAIN db = {} /\ db \in Database
  <2>1. db \in [{} -> RTDBVariable] /\ {} \in SUBSET VarId
    BY <1>1
  <2>. QED  BY <1>1, <2>1 DEF Database
<1>4. /\ s.db = db /\ s.createQ = <<>> /\ s.updateQ = <<>> /\ s.summaryQ = <<>>
      /\ s.reqCreateQ = <<>> /\ s.reqUpdateQ = <<>>
  BY <1>1, <1>2 DEF NoData
<1>5. s \in Shape
  <2>1. \A S : <<>> \in Seq(S)
    OBVIOUS
  <2>2. <<>> \in Seq(RTDBVarCreate) /\ <<>> \in Seq(RTDBVarUpdate) /\ <<>> \in Seq(VarId)
    BY <2>1
  <2>3. <<>> \in Seq(RTDBVarReqCreate) /\ <<>> \in Seq(RTDBVarReqUpdate)
    BY <2>1
  <2>4. s = [db |-> db, createQ |-> <<>>, updateQ |-> <<>>, summaryQ |-> <<>>,
             reqCreateQ |-> <<>>, reqUpdateQ |-> <<>>]
    BY <1>1, <1>2 DEF NoData
  <2>. QED  BY <1>3, <2>2, <2>3, <2>4, Zenon DEF Shape
<1>6. Sound(h, me, s)
  <2>1. Unique(<<>>)
    BY DEF Unique
  <2>2. IsRound(<<>>, {})
    BY DEF IsRound
  <2>3. /\ <<>> \in Seq(Creates(h, db)) /\ <<>> \in Seq(Updates(db))
        /\ <<>> \in Seq(ReqUpdates(me, db))
    OBVIOUS
  <2>. QED  BY <1>3, <1>4, <1>5, <2>1, <2>2, <2>3 DEF Sound
<1>7. \A v : ~ Known(s, v)
  BY <1>3, <1>4 DEF Known
<1>. QED  BY <1>2, <1>5, <1>6, <1>7

\* In the beginning no node has data.
LEMMA InitOK ==
    ASSUME NetworkAssumption, RTDBAssumption, Init
    PROVE  Inv
<1>1. PICK sc, data, queue : sc = scenario /\ data = rtdb /\ queue = mac /\ sc \in Scenarios
  BY DEF Init
<1>2. \A n \in NodeId : data[n] = NoData /\ queue[n] = <<>>
  BY <1>1 DEF Init
<1>3. data \in [NodeId -> Shape] /\ Own(sc, data) /\ Holding(sc, data)
  <2>1. data \in [NodeId -> Shape]
    BY <1>1, NoDataOK DEF Init
  <2>2. Own(sc, data)
    BY <1>1, <1>2, ScenarioFacts, NoDataOK DEF Own
  <2>. QED  BY <1>2, <2>1, <2>2, NoDataOK DEF Holding
<1>4. PICK P : P = Packet(HistoryOf(sc, data))
  OBVIOUS
<1>5. queue \in [NodeId -> Seq(P)]
  BY <1>1 DEF Init
<1>6. Stable(sc, data, queue)
  BY <1>3, <1>4, <1>5 DEF Stable
<1>7. now \in Nat /\ mobInfoTimestamp \in [NodeId -> Int] /\ threw = {}
  BY DEF Init, NoReport
<1>. QED  BY <1>1, <1>6, <1>7 DEF Inv

\* Where the data and the beacons that are waiting stay as they are.
LEMMA NoStepBack ==
    ASSUME NetworkAssumption, RTDBAssumption, NEW sc \in Scenarios, NEW data, NEW queue,
           Stable(sc, data, queue)
    PROVE  Forward(data, data)
<1>1. ASSUME NEW n \in NodeId, NEW v \in DOMAIN data[n].db
      PROVE  Known(data[n], v) /\ data[n].db[v].val >= data[n].db[v].val
  <2>1. data[n].db \in Database /\ Value = Nat
    BY <1>1, StableFacts
  <2>2. PICK x \in Nat : x = data[n].db[v].val
    BY <1>1, <2>1, DatabaseFacts
  <2>. QED  BY <1>1, <2>2 DEF Known
<1>. QED  BY <1>1 DEF Forward

\* Steps that leave the data and the beacons alone.
LEMMA DataStay ==
    ASSUME NetworkAssumption, RTDBAssumption, Inv, UNCHANGED <<rtdb, mac, threw, scenario>>,
           now' \in Nat, mobInfoTimestamp' \in [NodeId -> Int]
    PROVE  Advance
<1>1. PICK sc, data, queue : sc = scenario /\ data = rtdb /\ queue = mac /\ sc \in Scenarios
  BY DEF Inv
<1>2. Stable(sc, data, queue)
  BY <1>1 DEF Inv
<1>3. Forward(data, data)
  BY <1>1, <1>2, NoStepBack
<1>4. scenario' = sc /\ rtdb' = data /\ mac' = queue /\ threw' = {}
  BY <1>1 DEF Inv
<1>. QED  BY <1>1, <1>2, <1>3, <1>4 DEF Advance, Inv

\* A producer creates its variable.
LEMMA CreateVariableOK ==
    ASSUME NetworkAssumption, RTDBAssumption, Inv, NEW n \in Node, CreateVariable(n)
    PROVE  Advance
<1>1. PICK sc, data, queue : sc = scenario /\ data = rtdb /\ queue = mac /\ sc \in Scenarios
  BY DEF Inv
<1>2. PICK v, t, e : /\ v = sc.variable[n] /\ e = rtdb'
                     /\ t = handleAPICreateReq(data[n], n, v, sc.repCnt, 0)
  OBVIOUS
<1>3. Stable(sc, data, queue) /\ n \in sc.producers /\ ~ Known(data[n], v)
  BY <1>1, <1>2 DEF Inv, CreateVariable, Variable
<1>4. Replaced(data, n, t, e)
  BY <1>1, <1>2 DEF CreateVariable, Variable, Replaced
<1>5. /\ Writes(HistoryOf(sc, data), n, v, 0, data[n], t)
      /\ CreateCode(data[n], v, sc.repCnt) = "RC_OK"
  BY <1>1, <1>2, <1>3, CreateWrites
<1>6. Stable(sc, e, queue) /\ Forward(data, e)
  BY <1>1, <1>2, <1>3, <1>4, <1>5, WriteOK
<1>7. threw' = threw
  BY <1>1, <1>2, <1>5 DEF CreateVariable, HandleResponse, Variable
<1>8. /\ scenario' = sc /\ mac' = queue /\ now' = now
      /\ mobInfoTimestamp' = mobInfoTimestamp
  BY <1>1 DEF CreateVariable
<1>. QED  BY <1>1, <1>2, <1>6, <1>7, <1>8 DEF Advance, Inv

\* A producer updates its variable.
LEMMA UpdateVariableOK ==
    ASSUME NetworkAssumption, RTDBAssumption, Inv, NEW n \in Node, UpdateVariable(n)
    PROVE  Advance
<1>1. PICK sc, data, queue : sc = scenario /\ data = rtdb /\ queue = mac /\ sc \in Scenarios
  BY DEF Inv
<1>2. PICK v, e : v = sc.variable[n] /\ e = rtdb'
  BY Zenon
<1>3. Stable(sc, data, queue) /\ n \in sc.producers
  BY <1>1 DEF Inv, UpdateVariable
<1>4. PICK y, t : /\ IsNext(sc, data, n, v, y) /\ t = handleAPIUpdateReq(data[n], n, v, y)
                  /\ Replaced(data, n, t, e)
  <2>1. /\ Known(data[n], v) /\ data[n].db[v].val < sc.updates
        /\ e = [data EXCEPT ![n] = handleAPIUpdateReq(@, n, v, data[n].db[v].val + 1)]
    BY <1>1, <1>2, Zenon DEF UpdateVariable, Variable
  <2>2. IsNext(sc, data, n, v, data[n].db[v].val + 1)
    BY <2>1, Zenon DEF IsNext
  <2>3. Replaced(data, n, handleAPIUpdateReq(data[n], n, v, data[n].db[v].val + 1), e)
    BY <2>1, Zenon DEF Replaced
  <2>. QED  BY <2>2, <2>3, Zenon
<1>5. /\ Writes(HistoryOf(sc, data), n, v, y, data[n], t)
      /\ UpdateCode(data[n], n, v) = "RC_OK"
  BY <1>1, <1>2, <1>3, <1>4, UpdateWrites
<1>6. Stable(sc, e, queue) /\ Forward(data, e)
  BY <1>1, <1>2, <1>3, <1>4, <1>5, WriteOK
<1>7. threw' = threw
  BY <1>1, <1>2, <1>5 DEF UpdateVariable, HandleResponse, Variable
<1>8. /\ scenario' = sc /\ mac' = queue /\ now' = now
      /\ mobInfoTimestamp' = mobInfoTimestamp
  BY <1>1 DEF UpdateVariable
<1>. QED  BY <1>1, <1>2, <1>6, <1>7, <1>8 DEF Advance, Inv

\* The position does not matter to RTDB.
LEMMA SamplePositionOK ==
    ASSUME NetworkAssumption, RTDBAssumption, Inv, NEW n \in Node, SamplePosition(n)
    PROVE  Advance
<1>1. UNCHANGED <<rtdb, mac, threw, scenario>> /\ now' = now
  BY DEF SamplePosition
<1>2. now \in Nat /\ mobInfoTimestamp \in [NodeId -> Int]
  BY DEF Inv
<1>3. PICK f, x : f = mobInfoTimestamp /\ x = now /\ f \in [NodeId -> Int] /\ x \in Int
  BY <1>2
<1>4. [f EXCEPT ![n] = x] \in [NodeId -> Int]
  BY <1>3
<1>5. now' \in Nat /\ mobInfoTimestamp' \in [NodeId -> Int]
  <2>1. mobInfoTimestamp' = [f EXCEPT ![n] = x]
    BY <1>3 DEF SamplePosition
  <2>. QED  BY <1>1, <1>2, <1>4, <2>1
<1>. QED  BY <1>1, <1>5, DataStay

\* Neither do the neighbours.
LEMMA CollectGarbageOK ==
    ASSUME NetworkAssumption, RTDBAssumption, Inv, NEW n \in Node, CollectGarbage(n)
    PROVE  Advance
<1>1. UNCHANGED <<rtdb, mac, threw, scenario, mobInfoTimestamp, now>>
  BY DEF CollectGarbage
<1>2. now' \in Nat /\ mobInfoTimestamp' \in [NodeId -> Int]
  BY <1>1 DEF Inv
<1>. QED  BY <1>1, <1>2, DataStay

\* Nor does time.
LEMMA TickOK ==
    ASSUME NetworkAssumption, RTDBAssumption, Inv, Tick
    PROVE  Advance
<1>1. UNCHANGED <<rtdb, mac, threw, scenario, mobInfoTimestamp>>
  BY DEF Tick
<1>2. now' \in Nat /\ mobInfoTimestamp' \in [NodeId -> Int]
  BY <1>1 DEF Inv, Tick
<1>. QED  BY <1>1, <1>2, DataStay

\* The length of a beacon is a number.
LEMMA BeaconLenOK ==
    ASSUME RTDBAssumption, NEW h, NEW b \in Beacons(h)
    PROVE  BeaconLen(b) \in Nat
<1>1. GenuineBeacon(h, b)
  BY BeaconIsGenuine
<1>2. ASSUME NEW k \in Containers
      PROVE  ContainerLen(k, b[k]) \in Nat
  <2>1. PICK recs : recs = b[k] /\ Len(recs) \in Nat
    BY <1>1 DEF GenuineBeacon, GenuineContainer
  <2>2. ContainerLen(k, recs) \in Nat
    BY <2>1, ContainerLenOK
  <2>. QED  BY <2>1, <2>2
<1>3. /\ ContainerLen("createQ", b.createQ) \in Nat /\ ContainerLen("updateQ", b.updateQ) \in Nat
      /\ ContainerLen("summaryQ", b.summaryQ) \in Nat
      /\ ContainerLen("reqCreateQ", b.reqCreateQ) \in Nat
      /\ ContainerLen("reqUpdateQ", b.reqUpdateQ) \in Nat
  BY <1>2 DEF Containers
<1>. QED  BY <1>3 DEF BeaconLen

\* A node makes a beacon; it has room for it, and its database is as it was.
LEMMA GenerateOK ==
    ASSUME NetworkAssumption, RTDBAssumption, Room, Inv, NEW n \in Node,
           HandleGenerateBeacon(n)
    PROVE  Advance
<1>1. PICK sc, data, queue : sc = scenario /\ data = rtdb /\ queue = mac /\ sc \in Scenarios
  BY DEF Inv
<1>2. PICK h, c, e, new : /\ h = HistoryOf(sc, data) /\ e = rtdb' /\ new = mac'
                          /\ c = constructBeacon(data[n], InitBeaconLen)
  OBVIOUS
<1>3. Stable(sc, data, queue) /\ n \in NodeId
  BY <1>1, ScenarioFacts DEF Inv, Node
<1>4. /\ data \in [NodeId -> Shape] /\ Value = Nat /\ queue \in [NodeId -> Seq(Packet(h))]
      /\ \A m \in NodeId : Sound(h, m, data[m]) /\ data[m].db \in Database
  BY <1>1, <1>2, <1>3, StableFacts
<1>5. Made(h, n, data[n], InitBeaconLen, c)
  BY <1>2, <1>3, <1>4, ConstructBeaconOK DEF NetworkAssumption, Room
<1>6. /\ Sound(h, n, c.data) /\ c.data.db = data[n].db /\ c.beacon \in Beacons(h)
      /\ BeaconLen(c.beacon) + InitBeaconLen <= MaxPacketSize
  BY <1>5 DEF Made
<1>7. e = [data EXCEPT ![n] = c.data]
  BY <1>1, <1>2 DEF HandleGenerateBeacon
<1>8. e = [m \in NodeId |-> e[m]] /\ \A m \in NodeId : Received(h, m, data[m], e[m])
  <2>1. /\ e = [m \in NodeId |-> e[m]] /\ e[n] = c.data
        /\ \A m \in NodeId : m # n => e[m] = data[m]
    BY <1>3, <1>4, <1>7
  <2>2. ASSUME NEW m \in NodeId
        PROVE  Received(h, m, data[m], e[m])
    <3>1. CASE m = n
      <4>1. Grown(h, n, data[n], c.data)
        BY <1>3, <1>4, <1>6, NotGrown
      <4>. QED  BY <1>6, <2>1, <3>1, <4>1 DEF Received
    <3>2. CASE m # n
      BY <1>4, <2>1, <3>2, StaysOK
    <3>. QED  BY <3>1, <3>2
  <2>. QED  BY <2>1, <2>2
<1>9. /\ Stable(sc, e, queue) /\ HistoryOf(sc, e) = h
      /\ 2 * sc.updates <= SeqnoModulus => Forward(data, e)
  BY <1>1, <1>2, <1>3, <1>8, ReceiveOK
<1>10. threw' = {}
  <2>1. PICK x : x = BeaconLen(c.beacon) + InitBeaconLen /\ x <= MaxPacketSize
    BY <1>6
  <2>2. threw' = IF x > MaxPacketSize THEN threw \cup {n} ELSE threw
    BY <1>1, <1>2, <2>1 DEF HandleGenerateBeacon
  <2>3. ~ (x > MaxPacketSize)
    <3>1. BeaconLen(c.beacon) \in Int /\ InitBeaconLen \in Nat /\ MaxPacketSize \in Nat
      BY <1>6, BeaconLenOK DEF NetworkAssumption, RTDBAssumption
    <3>. QED  BY <2>1, <3>1
  <2>. QED  BY <2>2, <2>3 DEF Inv
<1>11. new \in [NodeId -> Seq(Packet(h))]
  <2>1. PICK P : P = Packet(h)
    OBVIOUS
  <2>2. PICK p : p = [beacon |-> c.beacon, report |-> mobInfoTimestamp[n]]
    OBVIOUS
  <2>3. p \in P
    <3>1. mobInfoTimestamp[n] \in Int
      BY <1>3 DEF Inv
    <3>. QED  BY <1>6, <2>1, <2>2, <3>1 DEF Packet
  <2>4. new = queue \/ new = [queue EXCEPT ![n] = Append(@, p)]
    BY <1>1, <1>2, <2>2 DEF HandleGenerateBeacon
  <2>5. queue \in [NodeId -> Seq(P)]
    BY <1>4, <2>1
  <2>6. Append(queue[n], p) \in Seq(P)
    BY <1>3, <2>3, <2>5
  <2>7. new \in [NodeId -> Seq(P)]
    BY <2>4, <2>5, <2>6
  <2>. QED  BY <2>1, <2>7
<1>12. Stable(sc, e, new)
  BY <1>9, <1>11 DEF Stable
<1>13. /\ scenario' = sc /\ now' = now /\ mobInfoTimestamp' = mobInfoTimestamp
  BY <1>1 DEF HandleGenerateBeacon
<1>14. FewUpdates => Forward(data, e)
  BY <1>1, <1>9 DEF FewUpdates
<1>. QED  BY <1>1, <1>2, <1>10, <1>12, <1>13, <1>14 DEF Advance, Inv

\* A packet is received, or not, by each node.
LEMMA TransmitOK ==
    ASSUME NetworkAssumption, RTDBAssumption, Inv, NEW n \in Node, NEW receivers,
           Transmit(n, receivers)
    PROVE  Advance
<1>1. PICK sc, data, queue : sc = scenario /\ data = rtdb /\ queue = mac /\ sc \in Scenarios
  BY DEF Inv
<1>2. PICK h, p, e, new : /\ h = HistoryOf(sc, data) /\ e = rtdb' /\ new = mac'
                          /\ p = Head(queue[n])
  OBVIOUS
<1>3. Stable(sc, data, queue) /\ n \in NodeId
  BY <1>1, ScenarioFacts DEF Inv, Node
<1>4. /\ data \in [NodeId -> Shape] /\ Value = Nat /\ queue \in [NodeId -> Seq(Packet(h))]
      /\ IsHistory(h) /\ \A m \in NodeId : Sound(h, m, data[m])
  BY <1>1, <1>2, <1>3, StableFacts
<1>5. PICK P : P = Packet(h) /\ queue \in [NodeId -> Seq(P)]
  BY <1>4
<1>6. p \in P /\ Tail(queue[n]) \in Seq(P)
  <2>1. PICK q \in Seq(P) : q = queue[n] /\ q # <<>>
    BY <1>1, <1>3, <1>5 DEF Transmit
  <2>2. Head(q) \in P /\ Tail(q) \in Seq(P)
    BY <2>1
  <2>. QED  BY <1>2, <2>1, <2>2
<1>7. GenuineBeacon(h, p.beacon)
  <2>1. p.beacon \in Beacons(h)
    BY <1>5, <1>6 DEF Packet
  <2>. QED  BY <2>1, BeaconIsGenuine
<1>8. e = [m \in NodeId |-> e[m]]
      /\ \A m \in NodeId : \/ e[m] = processVarDisBeacon(data[m], m, p.beacon)
                           \/ e[m] = data[m]
  BY <1>1, <1>2 DEF Transmit
<1>9. ASSUME NEW m \in NodeId
      PROVE  Received(h, m, data[m], e[m])
  <2>1. Sound(h, m, data[m])
    BY <1>4
  <2>2. CASE e[m] = processVarDisBeacon(data[m], m, p.beacon)
    BY <1>4, <1>7, <2>1, <2>2, ProcessBeaconOK
  <2>3. CASE e[m] = data[m]
    BY <1>4, <2>1, <2>3, StaysOK
  <2>. QED  BY <1>8, <2>2, <2>3
<1>10. /\ Stable(sc, e, queue) /\ HistoryOf(sc, e) = h
       /\ 2 * sc.updates <= SeqnoModulus => Forward(data, e)
  <2>1. e = [m \in NodeId |-> e[m]]
    BY <1>8
  <2>. QED  BY <1>1, <1>2, <1>3, <1>9, <2>1, ReceiveOK
<1>11. new \in [NodeId -> Seq(P)]
  <2>1. new = [queue EXCEPT ![n] = Tail(queue[n])]
    BY <1>1, <1>2 DEF Transmit
  <2>. QED  BY <1>3, <1>5, <1>6, <2>1
<1>12. Stable(sc, e, new)
  BY <1>5, <1>10, <1>11 DEF Stable
<1>13. /\ scenario' = sc /\ now' = now /\ mobInfoTimestamp' = mobInfoTimestamp
       /\ threw' = threw
  BY <1>1 DEF Transmit
<1>14. FewUpdates => Forward(data, e)
  BY <1>1, <1>10 DEF FewUpdates
<1>. QED  BY <1>1, <1>2, <1>12, <1>13, <1>14 DEF Advance, Inv

\* All steps.
LEMMA StepOK ==
    ASSUME NetworkAssumption, RTDBAssumption, Room, Inv, [Next]_vars
    PROVE  Advance
<1>1. CASE Next
  <2>1. ASSUME NEW n \in Node, CreateVariable(n) PROVE Advance
    BY <2>1, CreateVariableOK
  <2>2. ASSUME NEW n \in Node, UpdateVariable(n) PROVE Advance
    BY <2>2, UpdateVariableOK
  <2>3. ASSUME NEW n \in Node, SamplePosition(n) PROVE Advance
    BY <2>3, SamplePositionOK
  <2>4. ASSUME NEW n \in Node, CollectGarbage(n) PROVE Advance
    BY <2>4, CollectGarbageOK
  <2>5. ASSUME NEW n \in Node, HandleGenerateBeacon(n) PROVE Advance
    BY <2>5, GenerateOK
  <2>6. ASSUME NEW n \in Node, NEW receivers \in SUBSET Neighbours(n), Transmit(n, receivers)
        PROVE  Advance
    BY <2>6, TransmitOK
  <2>7. CASE Tick
    BY <2>7, TickOK
  <2>. QED  BY <1>1, <2>1, <2>2, <2>3, <2>4, <2>5, <2>6, <2>7 DEF Next
<1>2. CASE UNCHANGED vars
  <2>1. UNCHANGED <<rtdb, mac, threw, scenario, mobInfoTimestamp, now>>
    BY <1>2 DEF vars
  <2>2. now' \in Nat /\ mobInfoTimestamp' \in [NodeId -> Int]
    BY <2>1 DEF Inv
  <2>. QED  BY <2>1, <2>2, DataStay
<1>. QED  BY <1>1, <1>2

\* The data of all nodes fit the histories of the variables, and no step breaks that.
THEOREM InvHolds == Room => (Spec => []Inv)
<1>1. Init => Inv
  BY NetworkAssumption, RTDBAssumption, InitOK
<1>2. Room /\ Inv /\ [Next]_vars => Inv'
  BY NetworkAssumption, RTDBAssumption, StepOK DEF Advance
<1>3. SUFFICES ASSUME Room PROVE Spec => []Inv
  OBVIOUS
<1>4. Inv /\ [Next]_vars => Inv'
  BY <1>2, <1>3
<1>. QED  BY <1>1, <1>4, PTL DEF Spec

(***************************************************************************)
(* The properties.                                                         *)
(***************************************************************************)
\* Shape implies the types.
LEMMA ShapeIsWellTyped ==
    ASSUME NEW s \in Shape
    PROVE  WellTyped(s)
<1>1. /\ s.db \in Database /\ s.createQ \in Seq(RTDBVarCreate)
      /\ s.updateQ \in Seq(RTDBVarUpdate) /\ s.reqCreateQ \in Seq(RTDBVarReqCreate)
      /\ s.reqUpdateQ \in Seq(RTDBVarReqUpdate)
  BY ShapeFacts
<1>2. DOMAIN s.db \subseteq VarId /\ \A v \in DOMAIN s.db : s.db[v] \in RTDBVariable
  BY <1>1, DatabaseFacts
<1>3. \A S : \A q \in Seq(S) : \A i \in DOMAIN q : q[i] \in S
  OBVIOUS
<1>4. /\ \A i \in DOMAIN s.createQ : s.createQ[i] \in RTDBVarCreate
      /\ \A i \in DOMAIN s.updateQ : s.updateQ[i] \in RTDBVarUpdate
  BY <1>1, <1>3
<1>5. /\ \A i \in DOMAIN s.reqCreateQ : s.reqCreateQ[i] \in RTDBVarReqCreate
      /\ \A i \in DOMAIN s.reqUpdateQ : s.reqUpdateQ[i] \in RTDBVarReqUpdate
  BY <1>1, <1>3
<1>. QED  BY <1>2, <1>4, <1>5 DEF WellTyped

\* No request of an application is refused and no beacon is too large, where there is room
\* for a part of RTDB at all.  (NeverThrows)
THEOREM NothingThrows == Room => (Spec => []NeverThrows)
<1>1. Inv => NeverThrows
  <2>1. SUFFICES ASSUME Inv, NEW n \in Node PROVE threw = {} /\ WellTyped(rtdb[n])
    BY DEF NeverThrows, Inv
  <2>2. PICK sc, data, queue : sc = scenario /\ data = rtdb /\ queue = mac /\ sc \in Scenarios
    BY <2>1 DEF Inv
  <2>3. Stable(sc, data, queue) /\ n \in NodeId
    BY <2>1, <2>2, NetworkAssumption, RTDBAssumption, ScenarioFacts DEF Inv, Node
  <2>4. data[n] \in Shape
    BY <2>3 DEF Stable
  <2>. QED  BY <2>1, <2>2, <2>4, ShapeIsWellTyped DEF Inv
<1>2. SUFFICES ASSUME Room PROVE Spec => []NeverThrows
  OBVIOUS
<1>3. Spec => []Inv
  BY <1>2, InvHolds
<1>. QED  BY <1>1, <1>3, PTL

\* What goes round once has as many elements as there are.
LEMMA RoundLen ==
    ASSUME NEW D, NEW q, IsRound(q, D)
    PROVE  D = {q[i] : i \in DOMAIN q} /\ Len(q) = Cardinality(D)
<1>1. PICK n \in Nat : n = Len(q) /\ q \in Seq(D) /\ DOMAIN q = 1 .. n
  BY DEF IsRound
<1>2. /\ \A i, j \in 1 .. n : q[i] = q[j] => i = j
      /\ \A v \in D : \E i \in 1 .. n : q[i] = v
      /\ \A i \in 1 .. n : q[i] \in D
  BY <1>1 DEF IsRound
<1>3. D = {q[i] : i \in DOMAIN q}
  BY <1>1, <1>2
<1>4. PICK f : f = [i \in 1 .. n |-> q[i]]
  OBVIOUS
<1>5. f \in Bijection(1 .. n, D)
  <2>1. f \in [1 .. n -> D] /\ \A i \in 1 .. n : f[i] = q[i]
    BY <1>2, <1>4
  <2>2. f \in Injection(1 .. n, D)
    BY <1>2, <2>1 DEF Injection, IsInjective
  <2>3. f \in Surjection(1 .. n, D)
    BY <1>2, <2>1 DEF Surjection
  <2>. QED  BY <2>2, <2>3 DEF Bijection
<1>6. IsFiniteSet(1 .. n) /\ Cardinality(1 .. n) = n
  <2>1. PICK a \in Int, b \in Int : a = 1 /\ b = n
    BY <1>1
  <2>2. IsFiniteSet(a .. b) /\ Cardinality(a .. b) = IF a > b THEN 0 ELSE b - a + 1
    BY FS_Interval
  <2>3. (IF a > b THEN 0 ELSE b - a + 1) = n
    BY <1>1, <2>1
  <2>. QED  BY <2>1, <2>2, <2>3
<1>7. Cardinality(D) = Cardinality(1 .. n)
  BY <1>5, <1>6, FS_Bijection DEF ExistsBijection
<1>. QED  BY <1>1, <1>3, <1>6, <1>7

\* With few updates no creation in the queue is newer than the database.
LEMMA SoundIsCoherent ==
    ASSUME RTDBAssumption, NEW h, IsHistory(h), Few(h), NEW me, NEW s, Sound(h, me, s),
           Value = Nat
    PROVE  Coherent(s)
<1>1. PICK db \in Database : db = s.db
  BY ShapeFacts DEF Sound
<1>2. /\ \A v \in DOMAIN db : Written(h, v, db[v].val, db[v].seqNo)
      /\ s.createQ \in Seq(Creates(h, db)) /\ Unique(s.createQ)
      /\ s.updateQ \in Seq(Updates(db)) /\ Unique(s.updateQ)
      /\ s.reqUpdateQ \in Seq(ReqUpdates(me, db)) /\ IsRound(s.summaryQ, DOMAIN db)
  BY <1>1 DEF Sound
<1>3. /\ DOMAIN db = {s.summaryQ[i] : i \in DOMAIN s.summaryQ}
      /\ Len(s.summaryQ) = Cardinality(DOMAIN db)
  BY <1>2, RoundLen
<1>4. \A S : \A q \in Seq(S) : \A i \in DOMAIN q : q[i] \in S
  OBVIOUS
<1>5. ASSUME NEW i \in DOMAIN s.updateQ, NEW r, r = s.updateQ[i]
      PROVE  Known(s, r.id) /\ r.seqNo = db[r.id].seqNo /\ r.val = db[r.id].val
  <2>1. r \in Updates(db)
    BY <1>2, <1>4, <1>5
  <2>. QED  BY <1>1, <2>1 DEF Updates, Known
<1>6. ASSUME NEW i \in DOMAIN s.reqUpdateQ, NEW r, r = s.reqUpdateQ[i]
      PROVE  Known(s, r.id) /\ r.seqNo = db[r.id].seqNo
  <2>1. r \in ReqUpdates(me, db)
    BY <1>2, <1>4, <1>6
  <2>. QED  BY <1>1, <2>1 DEF ReqUpdates, Known
<1>7. ASSUME NEW i \in DOMAIN s.createQ, NEW r, r = s.createQ[i]
      PROVE  Known(s, r.id) /\ ~ seqNoMoreRecent(db[r.id].seqNo, r.seqNo)
  <2>1. r \in Creates(h, db)
    BY <1>2, <1>4, <1>7
  <2>2. PICK v, x, y, p, q : /\ v = r.id /\ x = db[r.id].val /\ y = r.val
                             /\ p = db[r.id].seqNo /\ q = r.seqNo
    OBVIOUS
  <2>3. v \in DOMAIN db /\ y <= x /\ Written(h, v, y, q) /\ r \in RTDBVarCreate
    BY <2>1, <2>2 DEF Creates, GenuineCreates
  <2>4. v \in VarId /\ x \in Nat /\ y \in Nat /\ Written(h, v, x, p)
    BY <1>2, <2>2, <2>3, DatabaseFacts DEF RTDBVarCreate
  <2>5. ASSUME seqNoMoreRecent(p, q)
        PROVE  FALSE
    <3>1. x <= y
      BY <2>3, <2>4, <2>5, NewerIsLater
    <3>2. x = y
      BY <2>3, <2>4, <3>1
    <3>3. p = q
      BY <2>3, <2>4, <3>2, SMTT(30) DEF Written
    <3>. QED  BY <2>5, <3>3 DEF seqNoMoreRecent
  <2>. QED  BY <1>1, <2>2, <2>3, <2>5 DEF Known
<1>. QED  BY <1>1, <1>2, <1>3, <1>5, <1>6, <1>7 DEF Coherent

\* What the node n knows of the variable of the producer m.
AgreesWith(n, m) ==
    LET v == Variable(m)
    IN  Known(rtdb[n], v) =>
          /\ Known(rtdb[m], v) /\ rtdb[n].db[v].val <= rtdb[m].db[v].val
          /\ rtdb[n].db[v].seqNo = 1 + (rtdb[n].db[v].val % (SeqnoModulus - 1))

\* What a node knows of a variable its producer has written.
LEMMA InvAgrees ==
    ASSUME NetworkAssumption, RTDBAssumption, Inv, NEW n \in Node,
           NEW m \in scenario.producers
    PROVE  AgreesWith(n, m)
<1>1. PICK sc, data, queue : sc = scenario /\ data = rtdb /\ queue = mac /\ sc \in Scenarios
  BY DEF Inv
<1>2. PICK h, s, v : h = HistoryOf(sc, data) /\ s = data[n] /\ v = sc.variable[m]
  OBVIOUS
<1>3. Stable(sc, data, queue) /\ n \in NodeId
  BY <1>1, ScenarioFacts DEF Inv, Node
<1>4. Value = Nat /\ Sound(h, n, s)
  BY <1>1, <1>2, <1>3, StableFacts
<1>5. ASSUME Known(s, v)
      PROVE  /\ Known(data[m], v) /\ s.db[v].val <= data[m].db[v].val
             /\ s.db[v].seqNo = 1 + (s.db[v].val % (SeqnoModulus - 1))
  <2>1. h.newest[v] = IF Known(data[m], v) THEN data[m].db[v].val ELSE -1
    BY <1>1, <1>2, NewestOf
  <2>2. PICK db \in Database : db = s.db /\ v \in DOMAIN db
    BY <1>4, <1>5, ShapeFacts DEF Sound, Known
  <2>3. PICK x \in Nat : x = s.db[v].val
    BY <1>4, <2>2, DatabaseFacts
  <2>4. Written(h, v, x, s.db[v].seqNo)
    BY <1>4, <2>2, <2>3 DEF Sound
  <2>5. x <= h.newest[v] /\ s.db[v].seqNo = 1 + (x % (SeqnoModulus - 1))
    BY <2>4 DEF Written
  <2>. QED  BY <2>1, <2>3, <2>5
<1>. QED  BY <1>1, <1>2, <1>5 DEF AgreesWith, Variable

\* However often a variable is updated, whatever a node knows of it is what the producer has
\* written, with its sequence number.
THEOREM ValuesAreTheProducers ==
    Room => (Spec => [](\A n \in Node : \A m \in scenario.producers : AgreesWith(n, m)))
<1> DEFINE Agreement == \A n \in Node : \A m \in scenario.producers : AgreesWith(n, m)
<1>1. Inv => Agreement
  BY NetworkAssumption, RTDBAssumption, InvAgrees
<1>2. SUFFICES ASSUME Room PROVE Spec => []Agreement
  OBVIOUS
<1>3. Spec => []Inv
  BY <1>2, InvHolds
<1>. QED  BY <1>1, <1>3, PTL

\* With few updates the queues of a node agree with its database, and that with what the
\* producers have written.  (DatabasesCoherent)
THEOREM DatabasesAgree == Room /\ FewUpdates => (Spec => []DatabasesCoherent)
<1>1. FewUpdates /\ Inv => DatabasesCoherent
  <2>1. SUFFICES ASSUME FewUpdates, Inv, NEW n \in Node
                 PROVE  /\ Coherent(rtdb[n])
                        /\ \A m \in scenario.producers : AgreesWith(n, m)
    BY DEF DatabasesCoherent, AgreesWith
  <2>2. PICK sc, data, queue : sc = scenario /\ data = rtdb /\ queue = mac /\ sc \in Scenarios
    BY <2>1 DEF Inv
  <2>3. Stable(sc, data, queue) /\ n \in NodeId
    BY <2>1, <2>2, NetworkAssumption, RTDBAssumption, ScenarioFacts DEF Inv, Node
  <2>4. PICK h, s : h = HistoryOf(sc, data) /\ s = data[n]
    OBVIOUS
  <2>5. IsHistory(h) /\ Value = Nat /\ Sound(h, n, s)
    BY <2>2, <2>3, <2>4, NetworkAssumption, RTDBAssumption, StableFacts
  <2>6. Few(h)
    BY <2>1, <2>2, <2>4, NetworkAssumption, RTDBAssumption, NewestIs DEF Few, FewUpdates
  <2>7. Coherent(s)
    BY <2>5, <2>6, RTDBAssumption, SoundIsCoherent
  <2>8. \A m \in scenario.producers : AgreesWith(n, m)
    BY <2>1, NetworkAssumption, RTDBAssumption, InvAgrees
  <2>. QED  BY <2>2, <2>4, <2>7, <2>8
<1>2. SUFFICES ASSUME Room, FewUpdates PROVE Spec => []DatabasesCoherent
  OBVIOUS
<1>3. Spec => []Inv
  BY <1>2, InvHolds
<1>4. Inv => DatabasesCoherent
  BY <1>1, <1>2
<1>. QED  BY <1>3, <1>4, PTL

\* With few updates no node forgets a variable or goes back to an older value, whatever old
\* records its neighbours repeat.  (NeverBackwards)
THEOREM NobodyGoesBack == Room /\ FewUpdates => (Spec => NeverBackwards)
<1> DEFINE NoneBack ==
             \A n \in Node : \A v \in DOMAIN rtdb[n].db :
                Known(rtdb'[n], v) /\ rtdb'[n].db[v].val >= rtdb[n].db[v].val
<1>1. Room /\ FewUpdates /\ Inv /\ [Next]_vars => NoneBack
  <2>1. SUFFICES ASSUME Room, FewUpdates, Inv, [Next]_vars PROVE NoneBack
    OBVIOUS
  <2>2. PICK data, e : data = rtdb /\ e = rtdb'
    OBVIOUS
  <2>3. Forward(data, e)
    BY <2>1, <2>2, NetworkAssumption, RTDBAssumption, StepOK DEF Advance
  <2>4. Node \subseteq NodeId
    BY <2>1, NetworkAssumption, RTDBAssumption, ScenarioFacts DEF Inv, Node
  <2>. QED  BY <2>2, <2>3, <2>4 DEF Forward
<1>2. SUFFICES ASSUME Room, FewUpdates PROVE Spec => NeverBackwards
  OBVIOUS
<1>3. Spec => []Inv
  BY <1>2, InvHolds
<1>4. Inv /\ [Next]_vars => [NoneBack]_vars
  BY <1>1, <1>2
<1>. QED  BY <1>3, <1>4, PTL DEF Spec, NeverBackwards

=============================================================================

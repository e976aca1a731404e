------------------------- MODULE ShmFiniteQueue_proofs -------------------------
(***************************************************************************)
(* The finite queue in shared memory, for any number of buffers, processes *)
(* and items and any use of the operations.  What the ring buffers do is   *)
(* stated of the sequences they stand for; the queue and the list of free  *)
(* buffers are then two sequences between which buffers are moved.         *)
(***************************************************************************)
EXTENDS ShmFiniteQueue, TLAPS, FiniteSetTheorems, FunctionTheorems, SequenceTheorems,
        WellFoundedInduction

(***************************************************************************)
(* Ring buffers.                                                           *)
(***************************************************************************)
\* The indexes of a ring agree with its counter.  A ring has a slot more than it
\* may hold elements.
IsRing(r, S, cap) ==
    r \in Ring(S, cap) /\ r.in = IF r.out + r.n < RingSize THEN r.out + r.n
                                 ELSE r.out + r.n - RingSize

\* Indexes wrap around once at most.
LEMMA IndexWraps ==
    ASSUME RingAssumption, NEW x \in 0 .. 2 * RingSize - 1
    PROVE  x % RingSize = IF x < RingSize THEN x ELSE x - RingSize
<1>1. RingSize \in Nat \ {0}
  BY DEF RingAssumption
<1>2. \A m \in Nat \ {0} : \A y \in 0 .. m - 1 : y % m = y /\ (y + m) % m = y
  OBVIOUS
<1>3. CASE x < RingSize
  BY <1>1, <1>2, <1>3
<1>4. CASE x >= RingSize
  <2>1. x - RingSize \in 0 .. RingSize - 1 /\ (x - RingSize) + RingSize = x
    BY <1>1, <1>4
  <2>. QED  BY <1>1, <1>2, <1>4, <2>1
<1>. QED  BY <1>1, <1>3, <1>4

\* The slot of the i-th element.
SlotOf(r, i) ==
    IF r.out + i - 1 < RingSize THEN r.out + i - 1 ELSE r.out + i - 1 - RingSize

\* The parts of a ring.
LEMMA RingParts ==
    ASSUME RingAssumption, NEW S, NEW cap \in 0 .. RingSize - 1, NEW r, IsRing(r, S, cap)
    PROVE  /\ RingSize \in Nat /\ RingSize > 1 /\ cap \in Nat /\ cap < RingSize
           /\ r.in \in 0 .. RingSize - 1 /\ r.out \in 0 .. RingSize - 1 /\ r.n \in 0 .. cap
           /\ r.ring \in [Slot -> S]
           /\ r = [in |-> r.in, out |-> r.out, n |-> r.n, ring |-> r.ring]
           /\ r.in = IF r.out + r.n < RingSize THEN r.out + r.n ELSE r.out + r.n - RingSize
BY DEF IsRing, Ring, Slot, RingAssumption

\* Where the elements are.
LEMMA ElementSlot ==
    ASSUME RingAssumption, NEW S, NEW cap \in 0 .. RingSize - 1, NEW r, IsRing(r, S, cap),
           NEW i \in 1 .. r.n
    PROVE  SlotOf(r, i) \in Slot /\ Elements(r)[i] = r.ring[SlotOf(r, i)]
<1>1. r.out \in 0 .. RingSize - 1 /\ r.n \in 0 .. cap /\ RingSize \in Nat
  BY RingParts
<1>2. r.out + i - 1 \in 0 .. 2 * RingSize - 1
  BY <1>1
<1>3. Elements(r)[i] = r.ring[(r.out + i - 1) % RingSize]
  BY DEF Elements
<1>4. (r.out + i - 1) % RingSize = SlotOf(r, i)
  <2>2. (r.out + i - 1) % RingSize
          = IF r.out + i - 1 < RingSize THEN r.out + i - 1 ELSE r.out + i - 1 - RingSize
    BY <1>1, <1>2, IndexWraps
  <2>. QED  BY <2>2, Zenon DEF SlotOf
<1>5. SlotOf(r, i) \in Slot
  BY <1>1 DEF SlotOf, Slot
<1>. QED  BY <1>3, <1>4, <1>5

\* The elements are as many as the counter says.
LEMMA ElementsOK ==
    ASSUME RingAssumption, NEW S, NEW cap \in 0 .. RingSize - 1, NEW r, IsRing(r, S, cap)
    PROVE  /\ r.n \in 0 .. cap
           /\ \A i \in 1 .. r.n : Elements(r)[i] \in S
           /\ Elements(r) \in [1 .. r.n -> S]
           /\ r.n > 0 => Front(r) = Elements(r)[1] /\ Front(r) \in S
<1>1. /\ r.n \in 0 .. cap /\ r.out \in 0 .. RingSize - 1 /\ RingSize \in Nat
      /\ r.ring \in [Slot -> S] /\ cap \in Nat
  BY RingParts
<1>2. ASSUME NEW i \in 1 .. r.n  PROVE Elements(r)[i] \in S
  <2>1. SlotOf(r, i) \in Slot /\ Elements(r)[i] = r.ring[SlotOf(r, i)]
    BY ElementSlot
  <2>. QED  BY <1>1, <2>1
<1>3. Elements(r) \in [1 .. r.n -> S]
  BY <1>2 DEF Elements
<1>4. r.n > 0 => Front(r) = Elements(r)[1] /\ Front(r) \in S
  <2> SUFFICES ASSUME r.n > 0
               PROVE  Front(r) = Elements(r)[1] /\ Front(r) \in S
    OBVIOUS
  <2>1. 1 \in 1 .. r.n
    BY <1>1
  <2>2. Elements(r)[1] = r.ring[SlotOf(r, 1)] /\ Elements(r)[1] \in S
    BY <1>2, <2>1, ElementSlot
  <2>3. SlotOf(r, 1) = r.out
    BY <1>1 DEF SlotOf
  <2>. QED  BY <2>2, <2>3 DEF Front
<1>. QED  BY <1>1, <1>2, <1>3, <1>4

\* Popping takes the oldest element.
LEMMA PopRingOK ==
    ASSUME RingAssumption, NEW S, NEW cap \in 0 .. RingSize - 1, NEW r, IsRing(r, S, cap),
           r.n > 0
    PROVE  /\ IsRing(PopRing(r), S, cap) /\ PopRing(r).n = r.n - 1
           /\ \A i \in 1 .. r.n - 1 : Elements(PopRing(r))[i] = Elements(r)[i + 1]
<1> DEFINE o == (r.out + 1) % RingSize
           t == PopRing(r)
<1>1. /\ RingSize \in Nat /\ RingSize > 1 /\ cap \in Nat /\ cap < RingSize
      /\ r.in \in 0 .. RingSize - 1 /\ r.out \in 0 .. RingSize - 1 /\ r.n \in 0 .. cap
      /\ r.ring \in [Slot -> S]
      /\ r = [in |-> r.in, out |-> r.out, n |-> r.n, ring |-> r.ring]
      /\ r.in = IF r.out + r.n < RingSize THEN r.out + r.n ELSE r.out + r.n - RingSize
  BY RingParts
<1>2. o = IF r.out + 1 < RingSize THEN r.out + 1 ELSE 0
  BY <1>1, IndexWraps
<1>3. t = [r EXCEPT !.out = o, !.n = @ - 1]
  BY DEF PopRing
<1> HIDE DEF t, o
<1>4. t = [in |-> r.in, out |-> o, n |-> r.n - 1, ring |-> r.ring]
  BY <1>1, <1>3
<1>5. /\ t.in = r.in /\ t.out = o /\ t.n = r.n - 1 /\ t.ring = r.ring
  BY <1>4
<1>6. IsRing(t, S, cap)
  <2>1. o \in Slot /\ r.n - 1 \in 0 .. cap /\ r.in \in Slot
    BY <1>1, <1>2 DEF Slot
  <2>2. t \in Ring(S, cap)
    BY <1>1, <1>4, <2>1 DEF Ring
  <2>3. t.in = IF t.out + t.n < RingSize THEN t.out + t.n ELSE t.out + t.n - RingSize
    BY <1>1, <1>2, <1>5
  <2>. QED  BY <2>2, <2>3 DEF IsRing
<1>7. ASSUME NEW i \in 1 .. r.n - 1
      PROVE  Elements(t)[i] = Elements(r)[i + 1]
  <2>1. i \in 1 .. t.n /\ i + 1 \in 1 .. r.n
    BY <1>1, <1>5
  <2>2. Elements(t)[i] = t.ring[SlotOf(t, i)]
    BY <1>6, <2>1, ElementSlot
  <2>3. Elements(r)[i + 1] = r.ring[SlotOf(r, i + 1)]
    BY <2>1, ElementSlot
  <2>4. SlotOf(t, i) = SlotOf(r, i + 1)
    BY <1>1, <1>2, <1>5, <2>1 DEF SlotOf
  <2>. QED  BY <1>5, <2>2, <2>3, <2>4
<1>. QED  BY <1>5, <1>6, <1>7 DEF t

\* Pushing adds an element at the end, and moves none.
Added(t, r, x) ==
    /\ t.n = r.n + 1 /\ Elements(t)[r.n + 1] = x
    /\ \A i \in 1 .. r.n : Elements(t)[i] = Elements(r)[i]

LEMMA PushRingOK ==
    ASSUME RingAssumption, NEW S, NEW cap \in 0 .. RingSize - 1, NEW r, IsRing(r, S, cap),
           NEW x \in S, r.n # cap
    PROVE  IsRing(PushRing(r, x), S, cap) /\ Added(PushRing(r, x), r, x)
<1> DEFINE n == (r.in + 1) % RingSize
           g == [r.ring EXCEPT ![r.in] = x]
           t == PushRing(r, x)
<1>1. /\ RingSize \in Nat /\ RingSize > 1 /\ cap \in Nat /\ cap < RingSize
      /\ r.in \in 0 .. RingSize - 1 /\ r.out \in 0 .. RingSize - 1 /\ r.n \in 0 .. cap
      /\ r.ring \in [Slot -> S]
      /\ r = [in |-> r.in, out |-> r.out, n |-> r.n, ring |-> r.ring]
      /\ r.in = IF r.out + r.n < RingSize THEN r.out + r.n ELSE r.out + r.n - RingSize
      /\ r.n < cap
  <2>1. r.n \in 0 .. cap /\ cap \in Nat
    BY RingParts
  <2>2. r.n < cap
    BY <2>1
  <2>. QED  BY <2>2, RingParts
<1>2. n = IF r.in + 1 < RingSize THEN r.in + 1 ELSE 0
  BY <1>1, IndexWraps
<1>3. t = [r EXCEPT !.ring = g, !.in = n, !.n = @ + 1]
  <2> HIDE DEF t
  <2>. QED  BY <1>1 DEF PushRing, t
<1>4. g \in [Slot -> S] /\ \A s \in Slot : g[s] = IF s = r.in THEN x ELSE r.ring[s]
  BY <1>1 DEF Slot
<1> HIDE DEF t, n, g
<1>5. t = [in |-> n, out |-> r.out, n |-> r.n + 1, ring |-> g]
  BY <1>1, <1>3
<1>6. /\ t.in = n /\ t.out = r.out /\ t.n = r.n + 1 /\ t.ring = g
  BY <1>5
<1>7. IsRing(t, S, cap)
  <2>1. n \in Slot /\ r.n + 1 \in 0 .. cap /\ r.out \in Slot
    BY <1>1, <1>2 DEF Slot
  <2>2. t \in Ring(S, cap)
    BY <1>4, <1>5, <2>1 DEF Ring
  <2>3. t.in = IF t.out + t.n < RingSize THEN t.out + t.n ELSE t.out + t.n - RingSize
    BY <1>1, <1>2, <1>6
  <2>. QED  BY <2>2, <2>3 DEF IsRing
<1>8. ASSUME NEW i \in 1 .. r.n + 1
      PROVE  Elements(t)[i] = g[SlotOf(r, i)] /\ SlotOf(r, i) \in Slot
  <2>1. i \in 1 .. t.n /\ SlotOf(t, i) = SlotOf(r, i)
    BY <1>6 DEF SlotOf
  <2>. QED  BY <1>6, <1>7, <2>1, ElementSlot
<1>9. ASSUME NEW i \in 1 .. r.n
      PROVE  Elements(t)[i] = Elements(r)[i]
  <2>1. SlotOf(r, i) # r.in
    BY <1>1 DEF SlotOf
  <2>2. i \in 1 .. r.n + 1
    BY <1>1
  <2>. QED  BY <1>4, <1>8, <2>1, <2>2, ElementSlot
<1>10. Elements(t)[r.n + 1] = x
  <2>1. SlotOf(r, r.n + 1) = r.in
    BY <1>1 DEF SlotOf
  <2>2. r.n + 1 \in 1 .. r.n + 1
    BY <1>1
  <2>. QED  BY <1>4, <1>8, <2>1, <2>2
<1>. QED  BY <1>6, <1>7, <1>9, <1>10 DEF t, Added

(***************************************************************************)
(* Buffers that move between the two rings.                                *)
(***************************************************************************)
\* No buffer occurs twice in a ring, or in both.
Distinct(r) == \A i, j \in 1 .. r.n : Elements(r)[i] = Elements(r)[j] => i = j
Holds(r, b) == \E i \in 1 .. r.n : Elements(r)[i] = b

Rings(q, f) ==
    /\ IsRing(q, Buffer, Capacity) /\ IsRing(f, Buffer, NumberBuffers)
    /\ Distinct(q) /\ Distinct(f)
    /\ \A i \in 1 .. q.n, j \in 1 .. f.n : Elements(q)[i] # Elements(f)[j]
    /\ q.n + f.n <= NumberBuffers

\* b has been taken out of the rings.
Spare(b, q, f) ==
    /\ Rings(q, f) /\ b \in Buffer /\ ~ Holds(q, b) /\ ~ Holds(f, b)
    /\ q.n + f.n < NumberBuffers

\* The rings have a slot more than there are buffers.
LEMMA Sizes ==
    ASSUME QueueAssumption
    PROVE  /\ NumberBuffers \in 0 .. RingSize - 1 /\ Capacity \in 0 .. RingSize - 1
           /\ NumberBuffers \in Nat /\ NumberBuffers > 0 /\ RingSize = NumberBuffers + 1
           /\ Capacity \in Nat /\ Capacity > 0 /\ Capacity <= NumberBuffers
           /\ RingSize \in Nat
BY DEF QueueAssumption

\* Popping a ring takes an element out of it.
LEMMA PopDistinct ==
    ASSUME RingAssumption, NEW S, NEW cap \in 0 .. RingSize - 1, NEW r, IsRing(r, S, cap),
           r.n > 0, Distinct(r)
    PROVE  /\ Distinct(PopRing(r)) /\ ~ Holds(PopRing(r), Front(r))
           /\ \A b : Holds(PopRing(r), b) => Holds(r, b)
           /\ Holds(r, Front(r))
<1> DEFINE t == PopRing(r)
<1>1. /\ r.n \in Nat /\ r.n >= 1 /\ t.n = r.n - 1
      /\ \A i \in 1 .. r.n - 1 : Elements(t)[i] = Elements(r)[i + 1]
      /\ Front(r) = Elements(r)[1]
  <2>1. /\ t.n = r.n - 1
        /\ \A i \in 1 .. r.n - 1 : Elements(t)[i] = Elements(r)[i + 1]
    BY PopRingOK
  <2>2. r.n \in 0 .. cap /\ Front(r) = Elements(r)[1]
    BY ElementsOK
  <2> HIDE DEF t
  <2>. QED  BY <2>1, <2>2
<1> HIDE DEF t
<1>2. Distinct(t)
  <2> SUFFICES ASSUME NEW i \in 1 .. r.n - 1, NEW j \in 1 .. r.n - 1,
                      Elements(t)[i] = Elements(t)[j]
               PROVE  i = j
    BY <1>1 DEF Distinct
  <2>1. i + 1 \in 1 .. r.n /\ j + 1 \in 1 .. r.n
    BY <1>1
  <2>2. Elements(r)[i + 1] = Elements(r)[j + 1]
    BY <1>1
  <2>3. i + 1 = j + 1
    BY <2>1, <2>2 DEF Distinct
  <2>. QED  BY <2>3
<1>3. ASSUME NEW i \in 1 .. t.n
      PROVE  Elements(t)[i] # Front(r) /\ Holds(r, Elements(t)[i])
  <2>1. i + 1 \in 1 .. r.n /\ 1 \in 1 .. r.n /\ i + 1 # 1
    BY <1>1
  <2>2. Elements(t)[i] = Elements(r)[i + 1]
    BY <1>1
  <2>. QED  BY <1>1, <2>1, <2>2 DEF Distinct, Holds
<1>4. Holds(r, Front(r))
  BY <1>1 DEF Holds
<1>. QED  BY <1>2, <1>3, <1>4 DEF Holds, t

\* Pushing puts an element in.
LEMMA PushDistinct ==
    ASSUME RingAssumption, NEW S, NEW cap \in 0 .. RingSize - 1, NEW r, IsRing(r, S, cap),
           r.n # cap, Distinct(r), NEW x \in S, ~ Holds(r, x)
    PROVE  /\ Distinct(PushRing(r, x))
           /\ \A b : Holds(PushRing(r, x), b) <=> Holds(r, b) \/ b = x
<1> DEFINE t == PushRing(r, x)
<1>1. /\ r.n \in Nat /\ t.n = r.n + 1
      /\ \A i \in 1 .. r.n : Elements(t)[i] = Elements(r)[i]
      /\ Elements(t)[r.n + 1] = x
  <2>1. Added(t, r, x)
    BY PushRingOK
  <2>4. r.n \in 0 .. cap
    BY ElementsOK
  <2> HIDE DEF t
  <2>. QED  BY <2>1, <2>4 DEF Added
<1> HIDE DEF t
<1>2. \A i \in 1 .. t.n : i \in 1 .. r.n \/ i = r.n + 1
  BY <1>1
<1>3. Distinct(t)
  BY <1>1, <1>2 DEF Distinct, Holds
<1>4. \A b : Holds(t, b) <=> Holds(r, b) \/ b = x
  <2>1. r.n + 1 \in 1 .. t.n /\ \A i \in 1 .. r.n : i \in 1 .. t.n
    BY <1>1
  <2>. QED  BY <1>1, <1>2, <2>1 DEF Holds
<1>. QED  BY <1>3, <1>4 DEF t

\* What the rings hold is different.
LEMMA RingsParts ==
    ASSUME RingAssumption, QueueAssumption, NEW q, NEW f
    PROVE  Rings(q, f) <=>
             /\ IsRing(q, Buffer, Capacity) /\ IsRing(f, Buffer, NumberBuffers)
             /\ Distinct(q) /\ Distinct(f)
             /\ \A b : ~ (Holds(q, b) /\ Holds(f, b))
             /\ q.n + f.n <= NumberBuffers
<1>1. (\A i \in 1 .. q.n, j \in 1 .. f.n : Elements(q)[i] # Elements(f)[j])
        <=> \A b : ~ (Holds(q, b) /\ Holds(f, b))
  BY DEF Holds
<1>. QED  BY <1>1 DEF Rings

LEMMA RingsSizes ==
    ASSUME RingAssumption, QueueAssumption, NEW q, NEW f, Rings(q, f)
    PROVE  q.n \in 0 .. Capacity /\ f.n \in 0 .. NumberBuffers
<1>1. IsRing(q, Buffer, Capacity) /\ IsRing(f, Buffer, NumberBuffers)
  BY DEF Rings
<1>2. NumberBuffers \in 0 .. RingSize - 1 /\ Capacity \in 0 .. RingSize - 1
  BY Sizes
<1>3. q.n \in 0 .. Capacity
  BY <1>1, <1>2, ElementsOK
<1>4. f.n \in 0 .. NumberBuffers
  BY <1>1, <1>2, ElementsOK
<1>. QED  BY <1>3, <1>4

\* A buffer is taken from the list of free buffers, or the oldest of the queue.
LEMMA TakeFree ==
    ASSUME RingAssumption, QueueAssumption, NEW q, NEW f, Rings(q, f), f.n > 0
    PROVE  Spare(Front(f), q, PopRing(f)) /\ PopRing(f).n = f.n - 1
<1> DEFINE t == PopRing(f)
<1>1. /\ IsRing(f, Buffer, NumberBuffers) /\ NumberBuffers \in 0 .. RingSize - 1
      /\ Distinct(f) /\ q.n \in 0 .. Capacity /\ f.n \in 0 .. NumberBuffers
  BY Sizes, RingsSizes DEF Rings
<1>2. IsRing(t, Buffer, NumberBuffers) /\ t.n = f.n - 1
  BY <1>1, PopRingOK
<1>3. Front(f) \in Buffer
  BY <1>1, ElementsOK
<1>4. /\ Distinct(t) /\ ~ Holds(t, Front(f)) /\ Holds(f, Front(f))
      /\ \A b : Holds(t, b) => Holds(f, b)
  BY <1>1, PopDistinct
<1> HIDE DEF t
<1>5. /\ IsRing(q, Buffer, Capacity) /\ Distinct(q) /\ q.n + f.n <= NumberBuffers
      /\ \A b : ~ (Holds(q, b) /\ Holds(f, b))
  BY RingsParts
<1>6. NumberBuffers \in Nat /\ Capacity \in Nat
  BY Sizes
<1>7. q.n + t.n < NumberBuffers
  BY <1>1, <1>2, <1>5, <1>6
<1>8. q.n + t.n <= NumberBuffers
  BY <1>1, <1>2, <1>6, <1>7
<1>9. Rings(q, t)
  BY <1>2, <1>4, <1>5, <1>8, RingsParts
<1>. QED  BY <1>2, <1>3, <1>4, <1>5, <1>7, <1>9 DEF Spare, t

LEMMA TakeFilled ==
    ASSUME RingAssumption, QueueAssumption, NEW q, NEW f, Rings(q, f), q.n > 0
    PROVE  Spare(Front(q), PopRing(q), f) /\ PopRing(q).n = q.n - 1
<1> DEFINE t == PopRing(q)
<1>1. /\ IsRing(q, Buffer, Capacity) /\ Capacity \in 0 .. RingSize - 1
      /\ Distinct(q) /\ q.n \in 0 .. Capacity /\ f.n \in 0 .. NumberBuffers
  BY Sizes, RingsSizes DEF Rings
<1>2. IsRing(t, Buffer, Capacity) /\ t.n = q.n - 1
  BY <1>1, PopRingOK
<1>3. Front(q) \in Buffer
  BY <1>1, ElementsOK
<1>4. /\ Distinct(t) /\ ~ Holds(t, Front(q)) /\ Holds(q, Front(q))
      /\ \A b : Holds(t, b) => Holds(q, b)
  BY <1>1, PopDistinct
<1> HIDE DEF t
<1>5. /\ IsRing(f, Buffer, NumberBuffers) /\ Distinct(f) /\ q.n + f.n <= NumberBuffers
      /\ \A b : ~ (Holds(q, b) /\ Holds(f, b))
  BY RingsParts
<1>6. NumberBuffers \in Nat /\ Capacity \in Nat
  BY Sizes
<1>7. t.n + f.n < NumberBuffers
  BY <1>1, <1>2, <1>5, <1>6
<1>8. t.n + f.n <= NumberBuffers
  BY <1>1, <1>2, <1>6, <1>7
<1>9. Rings(t, f)
  BY <1>2, <1>4, <1>5, <1>8, RingsParts
<1>. QED  BY <1>2, <1>3, <1>4, <1>5, <1>7, <1>9 DEF Spare, t

\* It is given back, or goes into the queue.
LEMMA GiveFree ==
    ASSUME RingAssumption, QueueAssumption, NEW q, NEW f, NEW b, Spare(b, q, f)
    PROVE  Rings(q, PushRing(f, b)) /\ PushRing(f, b).n = f.n + 1
<1> DEFINE t == PushRing(f, b)
<1>1. /\ Rings(q, f) /\ b \in Buffer /\ ~ Holds(q, b) /\ ~ Holds(f, b)
      /\ q.n + f.n < NumberBuffers
  BY DEF Spare
<1>2. /\ q.n \in 0 .. Capacity /\ f.n \in 0 .. NumberBuffers
      /\ NumberBuffers \in Nat /\ Capacity \in Nat /\ NumberBuffers \in 0 .. RingSize - 1
  BY <1>1, Sizes, RingsSizes
<1>3. f.n # NumberBuffers
  BY <1>1, <1>2
<1>4. /\ IsRing(q, Buffer, Capacity) /\ IsRing(f, Buffer, NumberBuffers)
      /\ Distinct(q) /\ Distinct(f) /\ \A c : ~ (Holds(q, c) /\ Holds(f, c))
  BY <1>1, RingsParts
<1>5. IsRing(t, Buffer, NumberBuffers) /\ t.n = f.n + 1
  <2>1. IsRing(t, Buffer, NumberBuffers)
    BY <1>1, <1>2, <1>3, <1>4, PushRingOK
  <2>2. Added(t, f, b)
    BY <1>1, <1>2, <1>3, <1>4, PushRingOK
  <2>. QED  BY <2>1, <2>2 DEF Added
<1>6. /\ Distinct(t)
      /\ \A c : Holds(t, c) <=> Holds(f, c) \/ c = b
  BY <1>1, <1>2, <1>3, <1>4, PushDistinct
<1> HIDE DEF t
<1>7. q.n + t.n <= NumberBuffers
  BY <1>1, <1>2, <1>5
<1>8. \A c : ~ (Holds(q, c) /\ Holds(t, c))
  BY <1>1, <1>4, <1>6
<1>. QED  BY <1>4, <1>5, <1>6, <1>7, <1>8, RingsParts DEF t

LEMMA GiveFilled ==
    ASSUME RingAssumption, QueueAssumption, NEW q, NEW f, NEW b, Spare(b, q, f),
           q.n # Capacity
    PROVE  Rings(PushRing(q, b), f) /\ PushRing(q, b).n = q.n + 1
<1> DEFINE t == PushRing(q, b)
<1>1. /\ Rings(q, f) /\ b \in Buffer /\ ~ Holds(q, b) /\ ~ Holds(f, b)
      /\ q.n + f.n < NumberBuffers
  BY DEF Spare
<1>2. /\ q.n \in 0 .. Capacity /\ f.n \in 0 .. NumberBuffers
      /\ NumberBuffers \in Nat /\ Capacity \in Nat /\ Capacity \in 0 .. RingSize - 1
  BY <1>1, Sizes, RingsSizes
<1>3. q.n # Capacity
  BY <1>1, <1>2
<1>4. /\ IsRing(q, Buffer, Capacity) /\ IsRing(f, Buffer, NumberBuffers)
      /\ Distinct(q) /\ Distinct(f) /\ \A c : ~ (Holds(q, c) /\ Holds(f, c))
  BY <1>1, RingsParts
<1>5. IsRing(t, Buffer, Capacity) /\ t.n = q.n + 1
  <2>1. IsRing(t, Buffer, Capacity)
    BY <1>1, <1>2, <1>3, <1>4, PushRingOK
  <2>2. Added(t, q, b)
    BY <1>1, <1>2, <1>3, <1>4, PushRingOK
  <2>. QED  BY <2>1, <2>2 DEF Added
<1>6. /\ Distinct(t)
      /\ \A c : Holds(t, c) <=> Holds(q, c) \/ c = b
  BY <1>1, <1>2, <1>3, <1>4, PushDistinct
<1> HIDE DEF t
<1>7. t.n + f.n <= NumberBuffers
  BY <1>1, <1>2, <1>5
<1>8. \A c : ~ (Holds(t, c) /\ Holds(f, c))
  BY <1>1, <1>4, <1>6
<1>. QED  BY <1>4, <1>5, <1>6, <1>7, <1>8, RingsParts DEF t

(***************************************************************************)
(* The two loops: the one that fills the list of free buffers, and the one *)
(* that empties the queue.  Both are recursive functions on the number of  *)
(* rounds; that there is such a function, and what it yields after each    *)
(* round, is shown by induction over a set of numbers of rounds.           *)
(***************************************************************************)
LEMMA UpTo ==
    ASSUME NEW n \in Nat, NEW T, 0 \in T, \A i \in 0 .. n : i < n /\ i \in T => i + 1 \in T
    PROVE  \A i \in 0 .. n : i \in T
<1> DEFINE D == {i \in 0 .. n : i \notin T}
           less == {ss \in Nat \X Nat : ss[1] < ss[2]}
<1>1. SUFFICES ASSUME D # {}  PROVE FALSE
  OBVIOUS
<1>2. D \in SUBSET Nat
  OBVIOUS
<1>3. IsWellFoundedOn(less, Nat)
  BY NatLessThanWellFounded DEF OpToRel
<1>4. PICK m \in D : \A k \in D : <<k, m>> \notin less
  <2> HIDE DEF D, less
  <2>. QED  BY <1>1, <1>2, <1>3, WFMin
<1>5. m \in Nat /\ m # 0 /\ m - 1 \in 0 .. n /\ m - 1 < n /\ (m - 1) + 1 = m
  OBVIOUS
<1>6. m - 1 \notin T
  BY <1>5
<1>7. m - 1 \in D
  BY <1>5, <1>6
<1>8. <<m - 1, m>> \in less
  BY <1>5
<1>. QED  BY <1>4, <1>7, <1>8

\* The list of free buffers after i rounds of initialize_queue_and_freelist.
FillRound(r, put, k) ==
    put = [i \in 0 .. k |-> IF i = 0 THEN ResetRing(r) ELSE PushRing(put[i - 1], i - 1)]

FillRounds(r) == CHOOSE put : FillRound(r, put, NumberBuffers)

LEMMA FillRoundsOK ==
    ASSUME QueueAssumption, NEW r
    PROVE  /\ FillRound(r, FillRounds(r), NumberBuffers)
           /\ AllFree(r) = FillRounds(r)[NumberBuffers]
<1> DEFINE T == {k \in 0 .. NumberBuffers : \E put : FillRound(r, put, k)}
<1>1. NumberBuffers \in Nat
  BY Sizes
<1>2. 0 \in T
  <2> DEFINE put == [i \in 0 .. 0 |-> ResetRing(r)]
  <2>1. FillRound(r, put, 0)
    <3>1. \A i \in 0 .. 0 : i = 0
      OBVIOUS
    <3>. QED  BY <3>1 DEF FillRound
  <2>. QED  BY <1>1, <2>1
<1>3. ASSUME NEW k \in 0 .. NumberBuffers, k < NumberBuffers, k \in T
      PROVE  k + 1 \in T
  <2>1. PICK put : FillRound(r, put, k)
    BY <1>3
  <2> DEFINE more == [i \in 0 .. k + 1 |-> IF i = k + 1 THEN PushRing(put[k], k) ELSE put[i]]
  <2>2. \A i \in 0 .. k : put[i] = IF i = 0 THEN ResetRing(r) ELSE PushRing(put[i - 1], i - 1)
    BY <2>1 DEF FillRound
  <2>3. ASSUME NEW i \in 0 .. k + 1
        PROVE  more[i] = IF i = 0 THEN ResetRing(r) ELSE PushRing(more[i - 1], i - 1)
    <3>1. CASE i = 0
      <4>1. i \in 0 .. k /\ i # k + 1
        BY <3>1, <1>3
      <4>. QED  BY <2>2, <3>1, <4>1
    <3>2. CASE i = k + 1
      <4>1. /\ i - 1 = k /\ i # 0 /\ k \in 0 .. k + 1 /\ k # k + 1
        BY <3>2, <1>3
      <4>2. more[i - 1] = put[k]
        BY <4>1
      <4>. QED  BY <3>2, <4>1, <4>2
    <3>3. CASE i # 0 /\ i # k + 1
      <4>1. i \in 0 .. k /\ i - 1 \in 0 .. k + 1 /\ i - 1 # k + 1
        BY <3>3, <1>3
      <4>2. more[i] = put[i] /\ more[i - 1] = put[i - 1]
        BY <3>3, <4>1
      <4>. QED  BY <2>2, <3>3, <4>1, <4>2
    <3>. QED  BY <3>1, <3>2, <3>3
  <2>4. more = [i \in 0 .. k + 1 |-> more[i]]
    OBVIOUS
  <2> HIDE DEF more
  <2>5. FillRound(r, more, k + 1)
    BY <2>3, <2>4 DEF FillRound
  <2>6. k + 1 \in 0 .. NumberBuffers
    BY <1>1, <1>3
  <2>. QED  BY <2>5, <2>6
<1>4. NumberBuffers \in T
  <2> HIDE DEF T
  <2>1. \A i \in 0 .. NumberBuffers : i \in T
    BY <1>1, <1>2, <1>3, UpTo
  <2>. QED  BY <1>1, <2>1
<1>5. FillRound(r, FillRounds(r), NumberBuffers)
  BY <1>4 DEF FillRounds
<1>. QED  BY <1>5 DEF AllFree, FillRounds, FillRound

\* Afterwards all buffers are free, once each.
LEMMA AllFreeOK ==
    ASSUME RingAssumption, QueueAssumption, NEW r, IsRing(r, Buffer, NumberBuffers)
    PROVE  /\ IsRing(AllFree(r), Buffer, NumberBuffers) /\ AllFree(r).n = NumberBuffers
           /\ Distinct(AllFree(r))
<1> DEFINE put == FillRounds(r)
           Filling(t, k) == /\ IsRing(t, Buffer, NumberBuffers) /\ t.n = k
                            /\ \A j \in 1 .. k : Elements(t)[j] = j - 1
           T == {k \in 0 .. NumberBuffers : Filling(put[k], k)}
<1>1. NumberBuffers \in Nat /\ NumberBuffers \in 0 .. RingSize - 1 /\ RingSize = NumberBuffers + 1
  BY Sizes
<1>2. \A i \in 0 .. NumberBuffers :
        put[i] = IF i = 0 THEN ResetRing(r) ELSE PushRing(put[i - 1], i - 1)
  BY FillRoundsOK DEF FillRound
<1> HIDE DEF put
<1>3. 0 \in T
  <2>1. /\ r.ring \in [Slot -> Buffer]
        /\ r = [in |-> r.in, out |-> r.out, n |-> r.n, ring |-> r.ring]
    BY <1>1, RingParts, ZenonT(30)
  <2>2. ResetRing(r) = [in |-> 0, out |-> 0, n |-> 0, ring |-> r.ring]
    <3> DEFINE t == ResetRing(r)
    <3>1. t = [r EXCEPT !.in = 0, !.out = 0, !.n = 0]
      BY DEF ResetRing
    <3> HIDE DEF t
    <3>2. t = [in |-> 0, out |-> 0, n |-> 0, ring |-> r.ring]
      BY <2>1, <3>1
    <3>. QED  BY <3>2 DEF t
  <2>3. put[0] = [in |-> 0, out |-> 0, n |-> 0, ring |-> r.ring]
    BY <1>1, <1>2, <2>2
  <2>4. IsRing(put[0], Buffer, NumberBuffers) /\ put[0].n = 0
    BY <1>1, <2>1, <2>3 DEF IsRing, Ring, Slot
  <2>. QED  BY <1>1, <2>4
<1>4. ASSUME NEW k \in 0 .. NumberBuffers, k < NumberBuffers, k \in T
      PROVE  k + 1 \in T
  <2>1. Filling(put[k], k)
    BY <1>4
  <2>2. k + 1 \in 0 .. NumberBuffers /\ k + 1 # 0 /\ (k + 1) - 1 = k /\ k \in Buffer
    BY <1>1, <1>4 DEF Buffer
  <2>3. put[k + 1] = PushRing(put[k], k)
    BY <1>2, <2>2
  <2>4. put[k].n # NumberBuffers /\ IsRing(put[k], Buffer, NumberBuffers)
    BY <1>1, <1>4, <2>1
  <2>5. IsRing(put[k + 1], Buffer, NumberBuffers) /\ Added(put[k + 1], put[k], k)
    BY <1>1, <2>2, <2>3, <2>4, PushRingOK
  <2>6. Filling(put[k + 1], k + 1)
    <3>1. put[k + 1].n = k + 1 /\ Elements(put[k + 1])[k + 1] = k
      BY <2>1, <2>5 DEF Added
    <3>2. ASSUME NEW j \in 1 .. k + 1
          PROVE  Elements(put[k + 1])[j] = j - 1
      <4>1. CASE j = k + 1
        BY <2>2, <3>1, <4>1
      <4>2. CASE j # k + 1
        <5>1. j \in 1 .. k
          BY <1>4, <4>2
        <5>. QED  BY <2>1, <2>5, <5>1 DEF Added
      <4>. QED  BY <4>1, <4>2
    <3>. QED  BY <2>5, <3>1, <3>2
  <2>. QED  BY <2>2, <2>6
<1>5. Filling(put[NumberBuffers], NumberBuffers)
  <2> HIDE DEF Filling
  <2>1. NumberBuffers \in T
    <3> HIDE DEF T
    <3>1. \A i \in 0 .. NumberBuffers : i \in T
      BY <1>1, <1>3, <1>4, UpTo
    <3>. QED  BY <1>1, <3>1
  <2>. QED  BY <2>1
<1>6. AllFree(r) = put[NumberBuffers]
  BY FillRoundsOK DEF put
<1>7. Distinct(put[NumberBuffers])
  <2>1. \A i, j \in 1 .. NumberBuffers : i - 1 = j - 1 => i = j
    BY <1>1
  <2>. QED  BY <1>1, <1>5, <2>1 DEF Distinct
<1>. QED  BY <1>5, <1>6, <1>7

\* Resetting the queue.
LEMMA ResetOK ==
    ASSUME RingAssumption, QueueAssumption, NEW q, NEW f, Rings(q, f)
    PROVE  /\ Rings(ResetRing(q), AllFree(f)) /\ ResetRing(q).n = 0
           /\ AllFree(f).n = NumberBuffers
<1> DEFINE t == ResetRing(q)
           g == AllFree(f)
<1>1. /\ NumberBuffers \in Nat /\ Capacity \in Nat /\ RingSize \in Nat /\ RingSize > 1
      /\ NumberBuffers \in 0 .. RingSize - 1 /\ Capacity \in 0 .. RingSize - 1
  BY Sizes DEF RingAssumption
<1>2. IsRing(q, Buffer, Capacity) /\ IsRing(f, Buffer, NumberBuffers)
  BY DEF Rings
<1>3. IsRing(g, Buffer, NumberBuffers) /\ g.n = NumberBuffers /\ Distinct(g)
  BY <1>2, AllFreeOK
<1>4. /\ q.ring \in [Slot -> Buffer]
      /\ q = [in |-> q.in, out |-> q.out, n |-> q.n, ring |-> q.ring]
  <2>1. IsRing(q, Buffer, Capacity) /\ Capacity \in 0 .. RingSize - 1
    BY <1>1, <1>2
  <2>2. q.ring \in [Slot -> Buffer]
    BY <2>1, RingParts
  <2>3. q = [in |-> q.in, out |-> q.out, n |-> q.n, ring |-> q.ring]
    BY <2>1 DEF IsRing, Ring
  <2>. QED  BY <2>2, <2>3
<1>5. t = [q EXCEPT !.in = 0, !.out = 0, !.n = 0]
  BY DEF ResetRing
<1> HIDE DEF t, g
<1>6. t = [in |-> 0, out |-> 0, n |-> 0, ring |-> q.ring]
  BY <1>4, <1>5
<1>7. IsRing(t, Buffer, Capacity) /\ t.n = 0
  BY <1>1, <1>4, <1>6 DEF IsRing, Ring, Slot
<1>8. Distinct(t) /\ \A b : ~ Holds(t, b)
  BY <1>7 DEF Distinct, Holds
<1>9. t.n + g.n <= NumberBuffers
  BY <1>1, <1>3, <1>7
<1>10. Rings(t, g)
  BY <1>3, <1>7, <1>8, <1>9, RingsParts
<1>. QED  BY <1>3, <1>7, <1>10 DEF t, g

\* The two rings after i rounds of the loop of PopAll.
DrainRound(q, f, rings, k) ==
    rings = [i \in 0 .. k |->
               IF i = 0 THEN <<q, f>>
               ELSE <<PopRing(rings[i - 1][1]),
                      PushRing(rings[i - 1][2], Front(rings[i - 1][1]))>>]

DrainRounds(q, f) == CHOOSE rings : DrainRound(q, f, rings, q.n)

LEMMA DrainRoundsOK ==
    ASSUME NEW q, NEW f, q.n \in Nat
    PROVE  DrainRound(q, f, DrainRounds(q, f), q.n)
<1> DEFINE T == {k \in 0 .. q.n : \E rings : DrainRound(q, f, rings, k)}
<1>1. 0 \in T
  <2> DEFINE rings == [i \in 0 .. 0 |-> <<q, f>>]
  <2>1. DrainRound(q, f, rings, 0)
    <3>1. \A i \in 0 .. 0 : i = 0
      OBVIOUS
    <3>. QED  BY <3>1 DEF DrainRound
  <2>. QED  BY <2>1
<1>2. ASSUME NEW k \in 0 .. q.n, k < q.n, k \in T
      PROVE  k + 1 \in T
  <2> DEFINE Next2(x) == <<PopRing(x[1]), PushRing(x[2], Front(x[1]))>>
  <2>1. PICK rings : DrainRound(q, f, rings, k)
    BY <1>2
  <2> DEFINE more == [i \in 0 .. k + 1 |-> IF i = k + 1 THEN Next2(rings[k]) ELSE rings[i]]
  <2>2. \A i \in 0 .. k : rings[i] = IF i = 0 THEN <<q, f>> ELSE Next2(rings[i - 1])
    BY <2>1 DEF DrainRound
  <2> HIDE DEF Next2
  <2>3. ASSUME NEW i \in 0 .. k + 1
        PROVE  more[i] = IF i = 0 THEN <<q, f>> ELSE Next2(more[i - 1])
    <3>1. CASE i = 0
      <4>1. i \in 0 .. k /\ i # k + 1
        BY <3>1, <1>2
      <4>. QED  BY <2>2, <3>1, <4>1
    <3>2. CASE i = k + 1
      <4>1. /\ i - 1 = k /\ i # 0 /\ k \in 0 .. k + 1 /\ k # k + 1
        BY <3>2, <1>2
      <4>2. more[i - 1] = rings[k]
        BY <4>1
      <4>. QED  BY <3>2, <4>1, <4>2
    <3>3. CASE i # 0 /\ i # k + 1
      <4>1. i \in 0 .. k /\ i - 1 \in 0 .. k + 1 /\ i - 1 # k + 1
        BY <3>3, <1>2
      <4>2. more[i] = rings[i] /\ more[i - 1] = rings[i - 1]
        BY <3>3, <4>1
      <4>. QED  BY <2>2, <3>3, <4>1, <4>2
    <3>. QED  BY <3>1, <3>2, <3>3
  <2>4. more = [i \in 0 .. k + 1 |-> more[i]]
    OBVIOUS
  <2> HIDE DEF more
  <2>5. DrainRound(q, f, more, k + 1)
    BY <2>3, <2>4 DEF DrainRound, Next2
  <2>6. k + 1 \in 0 .. q.n
    BY <1>2
  <2>. QED  BY <2>5, <2>6
<1>3. q.n \in T
  <2> HIDE DEF T
  <2>1. \A i \in 0 .. q.n : i \in T
    BY <1>1, <1>2, UpTo
  <2>. QED  BY <2>1
<1>. QED  BY <1>3 DEF DrainRounds

\* After i rounds the i oldest elements have gone into the list of free buffers.
Drained(x, q, f, i) ==
    /\ Rings(x[1], x[2]) /\ x[1].n = q.n - i /\ x[2].n = f.n + i
    /\ \A j \in 1 .. q.n - i : Elements(x[1])[j] = Elements(q)[j + i]

LEMMA DrainedOK ==
    ASSUME RingAssumption, QueueAssumption, NEW q, NEW f, Rings(q, f)
    PROVE  /\ \A i \in 0 .. q.n : Drained(DrainRounds(q, f)[i], q, f, i)
           /\ \A i \in 1 .. q.n : DrainRounds(q, f)[i][1] = PopRing(DrainRounds(q, f)[i - 1][1])
<1> DEFINE x == DrainRounds(q, f)
           T == {k \in 0 .. q.n : Drained(x[k], q, f, k)}
<1>1. /\ q.n \in Nat /\ f.n \in Nat
  BY RingsSizes, Sizes
<1>2. \A i \in 0 .. q.n :
        x[i] = IF i = 0 THEN <<q, f>>
               ELSE <<PopRing(x[i - 1][1]), PushRing(x[i - 1][2], Front(x[i - 1][1]))>>
  BY <1>1, DrainRoundsOK DEF DrainRound
<1> HIDE DEF x
<1>7. ASSUME NEW i \in 0 .. q.n, i # 0
      PROVE  x[i][1] = PopRing(x[i - 1][1]) /\ x[i][2] = PushRing(x[i - 1][2], Front(x[i - 1][1]))
  <2>1. x[i] = <<PopRing(x[i - 1][1]), PushRing(x[i - 1][2], Front(x[i - 1][1]))>>
    BY <1>2, <1>7, Zenon
  <2>. QED  BY <2>1
<1>3. 0 \in T
  <2>1. 0 \in 0 .. q.n
    BY <1>1
  <2>3. x[0] = <<q, f>>
    BY <1>2, <2>1, Zenon
  <2>2. \A j \in 1 .. q.n : j + 0 = j
    BY <1>1
  <2>4. x[0][1] = q /\ x[0][2] = f
    BY <2>3
  <2>5. q.n - 0 = q.n /\ f.n + 0 = f.n
    BY <1>1
  <2>. QED  BY <2>1, <2>2, <2>4, <2>5 DEF Drained
<1>4. ASSUME NEW k \in 0 .. q.n, k < q.n, k \in T
      PROVE  k + 1 \in T
  <2> DEFINE a == x[k][1]
             b == x[k][2]
             c == x[k + 1][1]
             d == x[k + 1][2]
  <2>1. /\ Rings(a, b) /\ a.n = q.n - k /\ b.n = f.n + k
        /\ \A j \in 1 .. q.n - k : Elements(a)[j] = Elements(q)[j + k]
    BY <1>4 DEF Drained
  <2>2. k + 1 \in 0 .. q.n /\ k + 1 # 0 /\ (k + 1) - 1 = k
    BY <1>1, <1>4
  <2>3. c = PopRing(a) /\ d = PushRing(b, Front(a))
    BY <1>7, <2>2
  <2> HIDE DEF a, b, c, d
  <2>4. a.n > 0 /\ a.n \in Nat
    BY <1>1, <1>4, <2>1
  <2>5. Spare(Front(a), c, b) /\ c.n = a.n - 1
    BY <2>1, <2>3, <2>4, TakeFilled
  <2>6. Rings(c, d) /\ d.n = b.n + 1
    BY <2>3, <2>5, GiveFree
  <2>7. c.n = q.n - (k + 1) /\ d.n = f.n + (k + 1)
    BY <1>1, <1>4, <2>1, <2>5, <2>6
  <2>8. ASSUME NEW j \in 1 .. q.n - (k + 1)
        PROVE  Elements(c)[j] = Elements(q)[j + (k + 1)]
    <3>1. IsRing(a, Buffer, Capacity) /\ Capacity \in 0 .. RingSize - 1
      BY <2>1, Sizes DEF Rings
    <3>2. \A i \in 1 .. a.n - 1 : Elements(c)[i] = Elements(a)[i + 1]
      BY <2>3, <2>4, <3>1, PopRingOK
    <3>3. j \in 1 .. a.n - 1 /\ j + 1 \in 1 .. q.n - k /\ (j + 1) + k = j + (k + 1)
      BY <1>1, <1>4, <2>1
    <3>. QED  BY <2>1, <3>2, <3>3
  <2>9. Drained(x[k + 1], q, f, k + 1)
    BY <2>6, <2>7, <2>8 DEF Drained, c, d
  <2>. QED  BY <2>2, <2>9
<1>5. \A i \in 0 .. q.n : i \in T
  <2> HIDE DEF T
  <2>. QED  BY <1>1, <1>3, <1>4, UpTo
<1>6. ASSUME NEW i \in 1 .. q.n
      PROVE  x[i][1] = PopRing(x[i - 1][1])
  <2>1. i \in 0 .. q.n /\ i # 0
    BY <1>1
  <2>. QED  BY <1>7, <2>1
<1>. QED  BY <1>5, <1>6 DEF x

\* What PopAll does.
LEMMA PopAllOK ==
    ASSUME NEW p, PopAll(p), DrainRound(queue, freeList, DrainRounds(queue, freeList), queue.n)
    PROVE  \/ /\ queue' = DrainRounds(queue, freeList)[queue.n][1]
              /\ freeList' = DrainRounds(queue, freeList)[queue.n][2]
              /\ has_data' = FALSE
              /\ Notify(p, WaitsForSpace)
              /\ UNCHANGED <<buffer_space, pushed, faults, usage>>
           \/ \E i \in 1 .. queue.n :
                HandlerFails(p, DrainRounds(queue, freeList)[i][1],
                                DrainRounds(queue, freeList)[i - 1][2])
BY DEF PopAll, DrainRounds, DrainRound

(***************************************************************************)
(* What the steps do: to the rings, to the items in them, to those who     *)
(* wait.  Every step is one of those below.                                *)
(***************************************************************************)
BuffersOK ==
    buffer_space \in [Buffer -> Item \cup {Nothing}] /\ pushed \in 0 .. MaxPushes

\* The k oldest items have gone, those that remain have not been written over.
Remain(k) ==
    \A i \in 1 .. queue.n - k : buffer_space'[Elements(queue')[i]]
                                  = buffer_space[Elements(queue)[i + k]]

Gone(k) == k \in 0 .. queue.n /\ queue'.n = queue.n - k /\ Remain(k)

\* An item has come, k items have gone before.
Came(k) ==
    /\ (k = 0 /\ queue.n # Capacity) \/ (k = 1 /\ queue.n = Capacity)
    /\ queue'.n = queue.n - k + 1 /\ Remain(k)
    /\ buffer_space'[Elements(queue')[queue'.n]] = pushed' /\ pushed' \in Item

NoneLost == queue'.n + freeList'.n = queue.n + freeList.n

\* An exception, which may lose buffers and items.
Throws(p) ==
    /\ Rings(queue', freeList') /\ BuffersOK' /\ \E k \in 0 .. queue.n : Gone(k)
    /\ has_data' = has_data /\ Notify(p, {}) /\ faults' = faults \cup {at[p]} /\ usage' = usage

\* A return that takes and puts nothing; a forced push may have dropped an item.
Returns(p) ==
    /\ Rings(queue', freeList') /\ BuffersOK' /\ \E k \in 0 .. queue.n : Gone(k)
    /\ has_data' = has_data /\ Notify(p, {}) /\ NoneLost /\ faults' = faults
    /\ usage' = usage

Puts(p) ==
    /\ Rings(queue', freeList') /\ BuffersOK' /\ \E k \in {0, 1} : Came(k)
    /\ has_data' = TRUE /\ Notify(p, WaitsForData) /\ NoneLost /\ faults' = faults
    /\ usage' = usage

Takes(p) ==
    /\ Rings(queue', freeList') /\ BuffersOK' /\ \E k \in 0 .. queue.n : Gone(k)
    /\ has_data' = (queue'.n > 0) /\ (queue.n > 0 => queue'.n < queue.n)
    /\ Notify(p, WaitsForSpace) /\ NoneLost /\ faults' = faults /\ usage' = usage

\* Handing a buffer, b, to the handler of a push.
LEMMA HandlerOK ==
    ASSUME RingAssumption, QueueAssumption, BuffersOK, Rings(queue, freeList),
           NEW p, NEW b, NEW q, NEW f, Spare(b, q, f), CallPushHandler(p, b, q, f),
           NEW k \in {0, 1}, k = 0 \/ queue.n = Capacity, q.n = queue.n - k,
           \A i \in 1 .. queue.n - k : Elements(q)[i] = Elements(queue)[i + k],
           q.n + f.n + 1 = queue.n + freeList.n
    PROVE  \/ Throws(p) /\ ("fail" \in usage[p] \/ (q.n = Capacity /\ queue' = q))
           \/ Returns(p) /\ Gone(k)
           \/ Puts(p)
<1>1. /\ queue.n \in 0 .. Capacity /\ freeList.n \in 0 .. NumberBuffers
      /\ Capacity \in Nat /\ NumberBuffers \in Nat /\ Capacity > 0
      /\ Capacity \in 0 .. RingSize - 1
  BY RingsSizes, Sizes
<1>2. k \in 0 .. queue.n
  BY <1>1
<1>3. Rings(q, f) /\ b \in Buffer /\ ~ Holds(q, b)
  BY DEF Spare
<1>4. q.n \in 0 .. Capacity /\ f.n \in 0 .. NumberBuffers
  BY <1>3, RingsSizes
<1>5. \A i \in 1 .. q.n : Elements(q)[i] \in Buffer /\ Elements(q)[i] # b
  <2>1. IsRing(q, Buffer, Capacity)
    BY <1>3 DEF Rings
  <2>2. \A i \in 1 .. q.n : Elements(q)[i] \in Buffer
    BY <1>1, <2>1, ElementsOK
  <2>. QED  BY <1>3, <2>2 DEF Holds
<1>6. CASE FillBuffer(p, b, q, f)
  <2>1. /\ pushed < MaxPushes /\ pushed' = pushed + 1
        /\ buffer_space' = [buffer_space EXCEPT ![b] = pushed']
    BY <1>6 DEF FillBuffer
  <2>2. MaxPushes \in Nat /\ pushed' \in Item /\ BuffersOK'
    <3>1. MaxPushes \in Nat
      BY DEF QueueAssumption
    <3>2. pushed' \in Item /\ pushed' \in 0 .. MaxPushes
      BY <2>1, <3>1 DEF BuffersOK, Item
    <3>. QED  BY <1>3, <2>1, <3>1, <3>2 DEF BuffersOK
  <2>3. /\ buffer_space'[b] = pushed'
        /\ \A c \in Buffer : c # b => buffer_space'[c] = buffer_space[c]
    BY <1>3, <2>1 DEF BuffersOK
  <2>4. CASE q.n = Capacity
    <3>1. Throw(p, q, f)
      BY <1>6, <2>4 DEF FillBuffer, IsFull
    <3>2. /\ queue' = q /\ freeList' = f /\ faults' = faults \cup {at[p]}
          /\ Notify(p, {}) /\ has_data' = has_data /\ usage' = usage
      BY <3>1 DEF Throw
    <3>3. Gone(k)
      BY <1>2, <1>5, <2>3, <3>2 DEF Gone, Remain
    <3>4. Throws(p)
      BY <1>2, <1>3, <2>2, <3>2, <3>3 DEF Throws
    <3>. QED  BY <2>4, <3>2, <3>4
  <2>5. CASE q.n # Capacity
    <3>1. /\ queue' = PushRing(q, b) /\ freeList' = f /\ has_data' = TRUE
          /\ Notify(p, WaitsForData) /\ faults' = faults /\ usage' = usage
      BY <1>6, <2>5 DEF FillBuffer, IsFull
    <3>2. Rings(queue', freeList') /\ queue'.n = q.n + 1
      BY <2>5, <3>1, GiveFilled
    <3>3. Added(queue', q, b)
      <4>1. IsRing(q, Buffer, Capacity)
        BY <1>3 DEF Rings
      <4>. QED  BY <1>1, <1>3, <2>5, <3>1, <4>1, PushRingOK
    <3>4. Remain(k)
      BY <1>5, <2>3, <3>3 DEF Added, Remain
    <3>5. buffer_space'[Elements(queue')[queue'.n]] = pushed'
      BY <2>3, <3>2, <3>3 DEF Added
    <3>6. (k = 0 /\ queue.n # Capacity) \/ (k = 1 /\ queue.n = Capacity)
      <4>1. CASE k = 0
        <5>1. q.n = queue.n
          BY <1>1, <4>1
        <5>. QED  BY <2>5, <4>1, <5>1
      <4>2. CASE k = 1
        BY <4>2
      <4>. QED  BY <4>1, <4>2
    <3>7. queue'.n = queue.n - k + 1
      BY <3>2
    <3>8. Came(k)
      BY <2>2, <3>4, <3>5, <3>6, <3>7 DEF Came
    <3>9. NoneLost
      BY <1>1, <1>4, <3>1, <3>2 DEF NoneLost
    <3>. QED  BY <2>2, <3>1, <3>2, <3>8, <3>9 DEF Puts
  <2>. QED  BY <2>4, <2>5
<1>7. CASE HasNothing(p, b, q, f)
  <2>1. /\ queue' = q /\ freeList' = PushRing(f, b) /\ Notify(p, {})
        /\ buffer_space' = buffer_space /\ has_data' = has_data /\ pushed' = pushed
        /\ faults' = faults /\ usage' = usage
    BY <1>7 DEF HasNothing
  <2>2. Rings(queue', freeList') /\ freeList'.n = f.n + 1
    BY <2>1, GiveFree
  <2>3. Gone(k)
    BY <1>2, <2>1 DEF Gone, Remain
  <2>4. NoneLost
    BY <1>1, <1>4, <2>1, <2>2 DEF NoneLost
  <2>5. BuffersOK'
    BY <2>1 DEF BuffersOK
  <2>. QED  BY <1>2, <2>1, <2>2, <2>3, <2>4, <2>5 DEF Returns
<1>8. CASE HandlerFails(p, q, f)
  <2>1. /\ queue' = q /\ freeList' = f /\ Notify(p, {})
        /\ buffer_space' = buffer_space /\ has_data' = has_data /\ pushed' = pushed
        /\ faults' = faults \cup {at[p]} /\ usage' = usage /\ "fail" \in usage[p]
    BY <1>8 DEF HandlerFails, Throw
  <2>2. Gone(k)
    BY <1>2, <2>1 DEF Gone, Remain
  <2>3. BuffersOK'
    BY <2>1 DEF BuffersOK
  <2>. QED  BY <1>2, <1>3, <2>1, <2>2, <2>3 DEF Throws
<1>. QED  BY <1>6, <1>7, <1>8 DEF CallPushHandler

\* Nothing has gone.
LEMMA NoneGone ==
    ASSUME RingAssumption, QueueAssumption, Rings(queue, freeList), queue' = queue,
           buffer_space' = buffer_space
    PROVE  Gone(0) /\ 0 \in 0 .. queue.n
<1>1. queue.n \in Nat
  BY RingsSizes, Sizes
<1>2. \A i \in 1 .. queue.n : i + 0 = i
  BY <1>1
<1>3. 0 \in 0 .. queue.n /\ queue.n - 0 = queue.n
  BY <1>1
<1>. QED  BY <1>2, <1>3 DEF Gone, Remain

\* An exception that leaves the rings as they are.
LEMMA ThrowOK ==
    ASSUME RingAssumption, QueueAssumption, BuffersOK, Rings(queue, freeList),
           NEW p, Throw(p, queue, freeList), UNCHANGED <<buffer_space, pushed>>
    PROVE  Throws(p)
<1>1. /\ queue' = queue /\ freeList' = freeList /\ Notify(p, {})
      /\ buffer_space' = buffer_space /\ has_data' = has_data /\ pushed' = pushed
      /\ faults' = faults \cup {at[p]} /\ usage' = usage
  BY DEF Throw
<1>3. Gone(0) /\ 0 \in 0 .. queue.n
  BY <1>1, NoneGone
<1>4. BuffersOK'
  BY <1>1 DEF BuffersOK
<1>. QED  BY <1>1, <1>3, <1>4 DEF Throws

\* A throw that leaves the queue as it is, full, or has found no buffer or no item.
FoundFull == queue' = queue /\ (queue.n = Capacity \/ (freeList.n = 0 /\ freeList' = freeList))
FoundEmpty == queue' = queue /\ freeList' = freeList /\ queue.n = 0

\* Pushing into a free buffer.
LEMMA PushFreeOK ==
    ASSUME RingAssumption, QueueAssumption, BuffersOK, Rings(queue, freeList),
           NEW p, PushFree(p)
    PROVE  \/ Throws(p) /\ ("fail" \in usage[p] \/ FoundFull)
           \/ Returns(p) /\ Gone(0)
           \/ Puts(p)
<1>1. queue.n \in Nat /\ freeList.n \in Nat
  BY RingsSizes, Sizes
<1>2. CASE freeList.n = 0
  <2>1. Throw(p, queue, freeList) /\ UNCHANGED <<buffer_space, pushed>>
    BY <1>2 DEF PushFree, IsEmpty
  <2>2. FoundFull
    BY <1>2, <2>1 DEF FoundFull, Throw
  <2>. QED  BY <2>1, <2>2, ThrowOK
<1>3. CASE freeList.n # 0
  <2>1. CallPushHandler(p, Front(freeList), queue, PopRing(freeList))
    BY <1>3 DEF PushFree, IsEmpty
  <2>2. freeList.n > 0
    BY <1>1, <1>3
  <2>3. Spare(Front(freeList), queue, PopRing(freeList)) /\ PopRing(freeList).n = freeList.n - 1
    BY <2>2, TakeFree
  <2>4. /\ queue.n = queue.n - 0 /\ queue.n + PopRing(freeList).n + 1 = queue.n + freeList.n
        /\ \A i \in 1 .. queue.n - 0 : i + 0 = i
    BY <1>1, <2>3
  <2>5. \A i \in 1 .. queue.n - 0 : Elements(queue)[i] = Elements(queue)[i + 0]
    BY <2>4
  <2>6. \/ Throws(p) /\ ("fail" \in usage[p] \/ (queue.n = Capacity /\ queue' = queue))
        \/ Returns(p) /\ Gone(0)
        \/ Puts(p)
    BY <2>1, <2>3, <2>4, <2>5, HandlerOK
  <2>. QED  BY <2>6, Zenon DEF FoundFull
<1>. QED  BY <1>2, <1>3

\* Forcing an item into a full queue: the oldest goes.
LEMMA PushFullOK ==
    ASSUME RingAssumption, QueueAssumption, BuffersOK, Rings(queue, freeList), NEW p,
           queue.n = Capacity, CallPushHandler(p, Front(queue), PopRing(queue), freeList)
    PROVE  Throws(p) \/ Returns(p) \/ Puts(p)
<1>1. /\ queue.n \in Nat /\ freeList.n \in Nat /\ queue.n > 0 /\ Capacity \in Nat
      /\ Capacity \in 0 .. RingSize - 1
  BY RingsSizes, Sizes
<1>2. Spare(Front(queue), PopRing(queue), freeList) /\ PopRing(queue).n = queue.n - 1
  BY <1>1, TakeFilled
<1>3. \A i \in 1 .. queue.n - 1 : Elements(PopRing(queue))[i] = Elements(queue)[i + 1]
  <2>1. IsRing(queue, Buffer, Capacity)
    BY DEF Rings
  <2>2. queue.n > 0 /\ Capacity \in 0 .. RingSize - 1
    BY <1>1
  <2>. QED  BY <2>1, <2>2, PopRingOK
<1>4. PopRing(queue).n + freeList.n + 1 = queue.n + freeList.n
  BY <1>1, <1>2
<1>. QED  BY <1>2, <1>3, <1>4, HandlerOK

\* Popping one item.
LEMMA PopOneOK ==
    ASSUME RingAssumption, QueueAssumption, BuffersOK, Rings(queue, freeList),
           NEW p, PopOne(p)
    PROVE  (Throws(p) /\ ("fail" \in usage[p] \/ FoundEmpty)) \/ Takes(p)
<1>1. queue.n \in Nat /\ freeList.n \in Nat /\ Capacity \in 0 .. RingSize - 1
  BY RingsSizes, Sizes
<1>2. CASE queue.n = 0
  <2>1. Throw(p, queue, freeList) /\ UNCHANGED <<buffer_space, pushed>>
    BY <1>2 DEF PopOne, IsEmpty
  <2>2. FoundEmpty
    BY <1>2, <2>1 DEF FoundEmpty, Throw
  <2>. QED  BY <2>1, <2>2, ThrowOK
<1>3. CASE queue.n # 0
  <2>1. queue.n > 0 /\ 1 \in 0 .. queue.n
    BY <1>1, <1>3
  <2>2. Spare(Front(queue), PopRing(queue), freeList) /\ PopRing(queue).n = queue.n - 1
    BY <2>1, TakeFilled
  <2>3. \A i \in 1 .. queue.n - 1 : Elements(PopRing(queue))[i] = Elements(queue)[i + 1]
    <3>1. IsRing(queue, Buffer, Capacity)
      BY DEF Rings
    <3>. QED  BY <1>1, <2>1, <3>1, PopRingOK
  <2>4. ASSUME queue' = PopRing(queue), buffer_space' = buffer_space
        PROVE  Gone(1) /\ queue'.n < queue.n /\ queue'.n \in Nat
    <3>1. queue'.n = queue.n - 1
      BY <2>2, <2>4
    <3>2. Remain(1)
      BY <2>3, <2>4 DEF Remain
    <3>. QED  BY <1>1, <2>1, <3>1, <3>2 DEF Gone
  <2>5. CASE /\ queue' = PopRing(queue)
             /\ freeList' = PushRing(freeList, Front(queue))
             /\ has_data' = ~ IsEmpty(PopRing(queue))
             /\ Notify(p, WaitsForSpace)
             /\ UNCHANGED <<buffer_space, pushed, faults, usage>>
    <3>1. Rings(queue', freeList') /\ freeList'.n = freeList.n + 1
      BY <2>2, <2>5, GiveFree
    <3>2. NoneLost
      BY <1>1, <2>2, <2>5, <3>1 DEF NoneLost
    <3>3. has_data' = (queue'.n > 0)
      <4>1. queue'.n \in Nat /\ has_data' = ~ (queue'.n = 0)
        BY <2>4, <2>5 DEF IsEmpty
      <4>2. ~ (queue'.n = 0) <=> queue'.n > 0
        BY <4>1
      <4>. QED  BY <4>1, <4>2
    <3>4. BuffersOK'
      BY <2>5 DEF BuffersOK
    <3>5. Takes(p)
      BY <2>1, <2>4, <2>5, <3>1, <3>2, <3>3, <3>4 DEF Takes
    <3>. QED  BY <3>5
  <2>6. CASE HandlerFails(p, PopRing(queue), freeList)
    <3>1. /\ queue' = PopRing(queue) /\ freeList' = freeList /\ Notify(p, {})
          /\ buffer_space' = buffer_space /\ has_data' = has_data /\ pushed' = pushed
          /\ faults' = faults \cup {at[p]} /\ usage' = usage /\ "fail" \in usage[p]
      BY <2>6 DEF HandlerFails, Throw
    <3>2. Rings(queue', freeList')
      BY <2>2, <3>1 DEF Spare
    <3>3. BuffersOK'
      BY <3>1 DEF BuffersOK
    <3>. QED  BY <2>1, <2>4, <3>1, <3>2, <3>3 DEF Throws
  <2>. QED  BY <1>3, <2>5, <2>6 DEF PopOne, IsEmpty
<1>. QED  BY <1>2, <1>3

\* Peeking.
LEMMA PeekOK ==
    ASSUME RingAssumption, QueueAssumption, BuffersOK, Rings(queue, freeList),
           NEW p, Peek(p)
    PROVE  \/ Throws(p) /\ ("fail" \in usage[p] \/ FoundEmpty)
           \/ Returns(p) /\ Gone(0)
<1>1. CASE queue.n = 0
  <2>1. Throw(p, queue, freeList) /\ UNCHANGED <<buffer_space, pushed>>
    BY <1>1 DEF Peek, IsEmpty
  <2>2. FoundEmpty
    BY <1>1, <2>1 DEF FoundEmpty, Throw
  <2>. QED  BY <2>1, <2>2, ThrowOK
<1>2. CASE HandlerFails(p, queue, freeList)
  <2>1. Throw(p, queue, freeList) /\ UNCHANGED <<buffer_space, pushed>> /\ "fail" \in usage[p]
    BY <1>2 DEF HandlerFails
  <2>. QED  BY <2>1, ThrowOK
<1>3. CASE Notify(p, {}) /\ UNCHANGED <<queue, freeList, buffer_space, has_data, pushed,
                                        faults, usage>>
  <2>1. Gone(0) /\ 0 \in 0 .. queue.n
    BY <1>3, NoneGone
  <2>2. NoneLost /\ BuffersOK'
    BY <1>3 DEF NoneLost, BuffersOK
  <2>. QED  BY <1>3, <2>1, <2>2 DEF Returns
<1>. QED  BY <1>1, <1>2, <1>3 DEF Peek, IsEmpty

\* Popping all.
LEMMA PopAllStep ==
    ASSUME RingAssumption, QueueAssumption, BuffersOK, Rings(queue, freeList),
           NEW p, PopAll(p)
    PROVE  (Throws(p) /\ "fail" \in usage[p]) \/ Takes(p)
<1> DEFINE x == DrainRounds(queue, freeList)
<1>1. queue.n \in Nat /\ freeList.n \in Nat
  BY RingsSizes, Sizes
<1>2. /\ \A i \in 0 .. queue.n : Drained(x[i], queue, freeList, i)
      /\ \A i \in 1 .. queue.n : x[i][1] = PopRing(x[i - 1][1])
  BY DrainedOK
<1>3. \/ /\ queue' = x[queue.n][1] /\ freeList' = x[queue.n][2]
         /\ has_data' = FALSE /\ Notify(p, WaitsForSpace)
         /\ UNCHANGED <<buffer_space, pushed, faults, usage>>
      \/ \E i \in 1 .. queue.n : HandlerFails(p, x[i][1], x[i - 1][2])
  BY <1>1, DrainRoundsOK, PopAllOK
<1> HIDE DEF x
<1>4. CASE /\ queue' = x[queue.n][1] /\ freeList' = x[queue.n][2]
           /\ has_data' = FALSE /\ Notify(p, WaitsForSpace)
           /\ UNCHANGED <<buffer_space, pushed, faults, usage>>
  <2>1. queue.n \in 0 .. queue.n
    BY <1>1
  <2>2. /\ Rings(queue', freeList') /\ queue'.n = queue.n - queue.n
        /\ freeList'.n = freeList.n + queue.n
        /\ \A j \in 1 .. queue.n - queue.n : Elements(queue')[j] = Elements(queue)[j + queue.n]
    BY <1>2, <1>4, <2>1 DEF Drained
  <2>3. Gone(queue.n)
    BY <1>4, <2>1, <2>2 DEF Gone, Remain
  <2>4. NoneLost /\ (queue.n > 0 => queue'.n < queue.n)
    BY <1>1, <2>2 DEF NoneLost
  <2>5. has_data' = (queue'.n > 0)
    <3>1. ~ (queue'.n > 0)
      BY <1>1, <2>2
    <3>2. (queue'.n > 0) = FALSE
      BY <3>1
    <3>. QED  BY <1>4, <3>2, Zenon
  <2>6. BuffersOK'
    BY <1>4 DEF BuffersOK
  <2>. QED  BY <1>4, <2>1, <2>2, <2>3, <2>4, <2>5, <2>6 DEF Takes
<1>5. ASSUME NEW i \in 1 .. queue.n, HandlerFails(p, x[i][1], x[i - 1][2])
      PROVE  Throws(p) /\ "fail" \in usage[p]
  <2>1. /\ queue' = x[i][1] /\ freeList' = x[i - 1][2] /\ Notify(p, {})
        /\ buffer_space' = buffer_space /\ has_data' = has_data /\ pushed' = pushed
        /\ faults' = faults \cup {at[p]} /\ usage' = usage /\ "fail" \in usage[p]
    BY <1>5 DEF HandlerFails, Throw
  <2>2. i \in 0 .. queue.n /\ i - 1 \in 0 .. queue.n /\ queue.n - (i - 1) > 0
    BY <1>1
  <2>3. Rings(x[i - 1][1], x[i - 1][2]) /\ x[i - 1][1].n = queue.n - (i - 1)
    BY <1>2, <2>2 DEF Drained
  <2>4. Spare(Front(x[i - 1][1]), PopRing(x[i - 1][1]), x[i - 1][2])
    BY <2>2, <2>3, TakeFilled
  <2>5. Rings(queue', freeList')
    BY <1>2, <2>1, <2>4 DEF Spare
  <2>6. /\ queue'.n = queue.n - i
        /\ \A j \in 1 .. queue.n - i : Elements(queue')[j] = Elements(queue)[j + i]
    BY <1>2, <2>1, <2>2 DEF Drained
  <2>7. Gone(i)
    BY <2>1, <2>2, <2>6 DEF Gone, Remain
  <2>8. BuffersOK'
    BY <2>1 DEF BuffersOK
  <2>. QED  BY <2>1, <2>2, <2>5, <2>7, <2>8 DEF Throws
<1>. QED  BY <1>3, <1>4, <1>5

(***************************************************************************)
(* The invariant of the queue, whatever the processes do with it.          *)
(***************************************************************************)
Faulty == {"idle", "woken", "startled"}
Blocking == {"push_wait", "pop_wait", "popall_wait", "peek_wait"}

WaitsOK ==
    /\ at \in [Proc -> {"idle", "waiting", "woken", "startled"}]
    /\ op \in [Proc -> Op \cup {"none"}]
    /\ \A p \in Proc : at[p] # "idle" => op[p] \in usage[p] /\ op[p] \in Blocking

QueueInv ==
    /\ Rings(queue, freeList) /\ BuffersOK /\ WaitsOK
    /\ has_data \in BOOLEAN /\ faults \subseteq Faulty /\ usage \in Usages
    /\ ~ has_data => queue.n = 0
    /\ NoLostWakeup

Pushes(p) == \E o \in {"push_wait", "push_nowait", "push_wait_force"} : o \in usage[p]
Pops(p)   == \E o \in Popping \cup {"peek_wait", "peek_nowait"} : o \in usage[p]

\* Why an operation throws.
Cause(p) ==
    \/ "fail" \in usage[p]
    \/ "push_wait_force" \in usage[p]
    \/ Pushes(p) /\ (~ has_data \/ Awake(p) \/ queue.n # Capacity) /\ FoundFull
    \/ Pops(p) /\ (has_data \/ Awake(p)) /\ FoundEmpty

Sleeps(p) ==
    \/ at[p] = "idle" /\ "push_wait" \in usage[p] /\ has_data /\ Wait(p, "push_wait")
    \/ \E o \in Blocking \ {"push_wait"} :
         at[p] = "idle" /\ o \in usage[p] /\ ~ has_data /\ Wait(p, o)

\* The steps, with who makes them.
Step(p) ==
    \/ Throws(p) /\ Cause(p) /\ at[p] # "waiting"
    \/ Returns(p) /\ ("push_wait_force" \in usage[p] \/ Gone(0))
    \/ Puts(p) /\ Pushes(p)
    \/ Takes(p) /\ Pops(p)
    \/ Sleeps(p) \/ Startle(p)
    \/ reset(p)

LEMMA PushSteps ==
    ASSUME RingAssumption, QueueAssumption, QueueInv, NEW p \in Proc, Push(p)
    PROVE  Step(p)
<1>1. BuffersOK /\ Rings(queue, freeList) /\ WaitsOK
  BY DEF QueueInv
<1>2. ASSUME PushFree(p), Pushes(p), ~ has_data \/ Awake(p) \/ queue.n # Capacity,
             at[p] # "waiting"
      PROVE  Step(p)
  <2>1. \/ Throws(p) /\ ("fail" \in usage[p] \/ FoundFull)
        \/ Returns(p) /\ Gone(0)
        \/ Puts(p)
    BY <1>1, <1>2, PushFreeOK
  <2>. QED  BY <1>2, <2>1, Zenon DEF Step, Cause
<1>3. CASE push_wait(p)
  <2>1. at[p] = "idle" /\ "push_wait" \in usage[p]
    BY <1>3 DEF push_wait, Calls
  <2>2. Pushes(p)
    BY <2>1 DEF Pushes
  <2>3. CASE has_data
    <3>1. Wait(p, "push_wait")
      BY <1>3, <2>3, Zenon DEF push_wait
    <3>. QED  BY <2>1, <2>3, <3>1, Zenon DEF Step, Sleeps
  <2>4. CASE ~ has_data
    <3>1. PushFree(p)
      BY <1>3, <2>4, Zenon DEF push_wait
    <3>2. at[p] # "waiting"
      BY <2>1
    <3>. QED  BY <1>2, <2>2, <2>4, <3>1, <3>2, Zenon
  <2>. QED  BY <2>3, <2>4
<1>4. CASE push_wait_woken(p)
  <2>1. PushFree(p) /\ Awake(p) /\ op[p] = "push_wait"
    BY <1>4 DEF push_wait_woken
  <2>2. "push_wait" \in usage[p] /\ at[p] # "waiting"
    BY <1>1, <2>1 DEF WaitsOK, Awake
  <2>3. Pushes(p)
    BY <2>2 DEF Pushes
  <2>. QED  BY <1>2, <2>1, <2>2, <2>3, Zenon
<1>5. CASE push_nowait(p)
  <2>1. /\ PushFree(p) /\ queue.n # Capacity /\ "push_nowait" \in usage[p]
        /\ at[p] # "waiting"
    BY <1>5 DEF push_nowait, Calls, IsFull
  <2>2. Pushes(p)
    BY <2>1 DEF Pushes
  <2>. QED  BY <1>2, <2>1, <2>2, Zenon
<1>6. CASE push_wait_force(p)
  <2>1. "push_wait_force" \in usage[p] /\ at[p] # "waiting"
    BY <1>6 DEF push_wait_force, Calls
  <2>2. Pushes(p)
    BY <2>1 DEF Pushes
  <2>3. Throws(p) \/ Returns(p) \/ Puts(p)
    <3>1. CASE queue.n = Capacity
      <4>1. CallPushHandler(p, Front(queue), PopRing(queue), freeList)
        BY <1>6, <3>1, Zenon DEF push_wait_force, IsFull
      <4>. QED  BY <1>1, <3>1, <4>1, PushFullOK
    <3>2. CASE queue.n # Capacity
      <4>1. PushFree(p)
        BY <1>6, <3>2, Zenon DEF push_wait_force, IsFull
      <4>. QED  BY <1>1, <4>1, PushFreeOK
    <3>. QED  BY <3>1, <3>2
  <2>. QED  BY <2>1, <2>2, <2>3, Zenon DEF Step, Cause
<1>. QED  BY <1>3, <1>4, <1>5, <1>6, Zenon DEF Push

LEMMA PopSteps ==
    ASSUME RingAssumption, QueueAssumption, QueueInv, NEW p \in Proc, Pop(p) \/ PeekAt(p)
    PROVE  Step(p)
<1>1. BuffersOK /\ Rings(queue, freeList) /\ WaitsOK
  BY DEF QueueInv
<1>2. ASSUME Pops(p), has_data \/ Awake(p), PopOne(p) \/ PopAll(p) \/ Peek(p),
             at[p] # "waiting"
      PROVE  Step(p)
  <2>1. \/ Throws(p) /\ ("fail" \in usage[p] \/ FoundEmpty)
        \/ Returns(p) /\ Gone(0)
        \/ Takes(p)
    <3>1. CASE PopOne(p)
      BY <1>1, <3>1, PopOneOK
    <3>2. CASE PopAll(p)
      BY <1>1, <3>2, PopAllStep
    <3>3. CASE Peek(p)
      BY <1>1, <3>3, PeekOK
    <3>. QED  BY <1>2, <3>1, <3>2, <3>3
  <2>. QED  BY <1>2, <2>1, Zenon DEF Step, Cause
<1>3. ASSUME NEW o \in {"pop_wait", "popall_wait", "peek_wait"}, Calls(p, o), ~ has_data,
             Wait(p, o)
      PROVE  Step(p)
  <2>1. o \in Blocking \ {"push_wait"}
    BY DEF Blocking
  <2>2. at[p] = "idle" /\ o \in usage[p]
    BY <1>3 DEF Calls
  <2>. QED  BY <1>3, <2>1, <2>2, Zenon DEF Step, Sleeps
<1>4. ASSUME NEW o, o \in Popping \cup {"peek_wait", "peek_nowait"}, Calls(p, o), has_data,
             PopOne(p) \/ PopAll(p) \/ Peek(p)
      PROVE  Step(p)
  <2>1. Pops(p) /\ at[p] # "waiting"
    BY <1>4 DEF Pops, Calls
  <2>. QED  BY <1>2, <1>4, <2>1, Zenon
<1>5. ASSUME NEW o \in {"pop_wait", "popall_wait", "peek_wait"}, Awake(p), op[p] = o,
             PopOne(p) \/ PopAll(p) \/ Peek(p)
      PROVE  Step(p)
  <2>1. o \in usage[p] /\ at[p] # "waiting"
    BY <1>1, <1>5 DEF WaitsOK, Awake
  <2>2. Pops(p)
    BY <2>1 DEF Pops, Popping
  <2>. QED  BY <1>2, <1>5, <2>1, <2>2, Zenon
<1>6. \A o \in {"pop_wait", "pop_nowait", "popall_wait", "popall_nowait", "peek_wait",
                "peek_nowait"} : o \in Popping \cup {"peek_wait", "peek_nowait"}
  BY DEF Popping
<1>7. CASE pop_wait(p) \/ popall_wait(p) \/ peek_wait(p)
  <2>1. CASE has_data
    <3>1. CASE pop_wait(p)
      <4>1. Calls(p, "pop_wait") /\ PopOne(p)
        BY <2>1, <3>1, Zenon DEF pop_wait
      <4>. QED  BY <1>4, <1>6, <2>1, <4>1
    <3>2. CASE popall_wait(p)
      <4>1. Calls(p, "popall_wait") /\ PopAll(p)
        BY <2>1, <3>2, Zenon DEF popall_wait
      <4>. QED  BY <1>4, <1>6, <2>1, <4>1
    <3>3. CASE peek_wait(p)
      <4>1. Calls(p, "peek_wait") /\ Peek(p)
        BY <2>1, <3>3, Zenon DEF peek_wait
      <4>. QED  BY <1>4, <1>6, <2>1, <4>1
    <3>. QED  BY <1>7, <3>1, <3>2, <3>3
  <2>2. CASE ~ has_data
    <3>1. CASE pop_wait(p)
      <4>1. Calls(p, "pop_wait") /\ Wait(p, "pop_wait")
        BY <2>2, <3>1, Zenon DEF pop_wait
      <4>. QED  BY <1>3, <2>2, <4>1
    <3>2. CASE popall_wait(p)
      <4>1. Calls(p, "popall_wait") /\ Wait(p, "popall_wait")
        BY <2>2, <3>2, Zenon DEF popall_wait
      <4>. QED  BY <1>3, <2>2, <4>1
    <3>3. CASE peek_wait(p)
      <4>1. Calls(p, "peek_wait") /\ Wait(p, "peek_wait")
        BY <2>2, <3>3, Zenon DEF peek_wait
      <4>. QED  BY <1>3, <2>2, <4>1
    <3>. QED  BY <1>7, <3>1, <3>2, <3>3
  <2>. QED  BY <2>1, <2>2
<1>8. CASE pop_wait_woken(p) \/ popall_wait_woken(p) \/ peek_wait_woken(p)
  BY <1>5, <1>8 DEF pop_wait_woken, popall_wait_woken, peek_wait_woken
<1>9. CASE pop_nowait(p) \/ popall_nowait(p) \/ peek_nowait(p)
  <2>1. CASE pop_nowait(p)
    BY <1>4, <1>6, <2>1 DEF pop_nowait
  <2>2. CASE popall_nowait(p)
    BY <1>4, <1>6, <2>2 DEF popall_nowait
  <2>3. CASE peek_nowait(p)
    BY <1>4, <1>6, <2>3 DEF peek_nowait
  <2>. QED  BY <1>9, <2>1, <2>2, <2>3
<1>. QED  BY <1>7, <1>8, <1>9, Zenon DEF Pop, PeekAt

LEMMA NextSteps ==
    ASSUME RingAssumption, QueueAssumption, QueueInv, [Next]_vars
    PROVE  UNCHANGED vars \/ \E p \in Proc : Step(p)
<1>1. ASSUME NEW p \in Proc, Timeout(p)
      PROVE  Step(p)
  <2>1. /\ Notify(p, {})
        /\ UNCHANGED <<queue, freeList, buffer_space, has_data, pushed, faults, usage>>
    BY <1>1 DEF Timeout
  <2>2. Gone(0) /\ 0 \in 0 .. queue.n
    BY <2>1, NoneGone DEF QueueInv
  <2>3. NoneLost /\ BuffersOK' /\ Rings(queue', freeList')
    BY <2>1 DEF NoneLost, BuffersOK, QueueInv
  <2>4. Returns(p)
    BY <2>1, <2>2, <2>3 DEF Returns
  <2>. QED  BY <2>2, <2>4, Zenon DEF Step
<1>2. ASSUME NEW p \in Proc, reset(p)
      PROVE  Step(p)
  BY <1>2, Zenon DEF Step
<1>3. ASSUME NEW p \in Proc, Startle(p)
      PROVE  Step(p)
  BY <1>3, Zenon DEF Step
<1>4. ASSUME NEW p \in Proc, GivesUp(p)
      PROVE  UNCHANGED vars
  BY <1>4 DEF GivesUp
<1>. QED  BY <1>1, <1>2, <1>3, <1>4, PushSteps, PopSteps, Zenon DEF Next

\* Who waits after a step: fewer than before, and nobody who has been notified.
LEMMA NotifyOK ==
    ASSUME WaitsOK, NEW p \in Proc, NEW woken, \A x \in woken : x \in Proc /\ at[x] = "waiting",
           Notify(p, woken), usage' = usage
    PROVE  /\ WaitsOK' /\ at'[p] = "idle"
           /\ WaitsForData' \subseteq WaitsForData \ woken
           /\ WaitsForSpace' \subseteq WaitsForSpace \ woken
           /\ \A x \in Proc : at'[x] = "woken" => x # p /\ (at[x] = "woken" \/ x \in woken)
<1>1. /\ at' = [x \in Proc |-> IF x = p THEN "idle" ELSE IF x \in woken THEN "woken" ELSE at[x]]
      /\ op' = [op EXCEPT ![p] = "none"]
  BY DEF Notify
<1>2. /\ at \in [Proc -> {"idle", "waiting", "woken", "startled"}]
      /\ op \in [Proc -> Op \cup {"none"}]
      /\ \A x \in Proc : at[x] # "idle" => op[x] \in usage[x] /\ op[x] \in Blocking
  BY DEF WaitsOK
<1>3. /\ at' \in [Proc -> {"idle", "waiting", "woken", "startled"}]
      /\ op' \in [Proc -> Op \cup {"none"}]
  BY <1>1, <1>2
<1>4. ASSUME NEW x \in Proc
      PROVE  /\ x = p => at'[x] = "idle"
             /\ x # p => op'[x] = op[x] /\ at'[x] = IF x \in woken THEN "woken" ELSE at[x]
  BY <1>1, <1>2
<1>5. ASSUME NEW x \in Proc, at'[x] # "idle"
      PROVE  op'[x] \in usage'[x] /\ op'[x] \in Blocking
  <2>1. x # p /\ op'[x] = op[x] /\ at[x] # "idle"
    BY <1>4, <1>5
  <2>. QED  BY <1>2, <2>1
<1>6. \A x \in Proc : at'[x] = "waiting" => at[x] = "waiting" /\ op'[x] = op[x] /\ x \notin woken
  BY <1>4
<1>7. /\ WaitsForData' \subseteq WaitsForData \ woken
      /\ WaitsForSpace' \subseteq WaitsForSpace \ woken
  BY <1>6 DEF WaitsForData, WaitsForSpace
<1>8. WaitsOK'
  BY <1>3, <1>5 DEF WaitsOK
<1>. QED  BY <1>4, <1>7, <1>8

LEMMA EmptyIsRing ==
    ASSUME RingAssumption, QueueAssumption
    PROVE  IsRing(EmptyRing, Buffer, Capacity) /\ IsRing(EmptyRing, Buffer, NumberBuffers)
<1>1. /\ RingSize \in Nat /\ RingSize > 1 /\ NumberBuffers \in Nat /\ NumberBuffers > 0
      /\ Capacity \in Nat
  BY Sizes DEF RingAssumption
<1>2. /\ EmptyRing.in = 0 /\ EmptyRing.out = 0 /\ EmptyRing.n = 0
      /\ EmptyRing = [in |-> 0, out |-> 0, n |-> 0, ring |-> [i \in Slot |-> 0]]
  BY DEF EmptyRing
<1>3. [i \in Slot |-> 0] \in [Slot -> Buffer] /\ 0 \in Slot
  BY <1>1 DEF Buffer, Slot
<1>. QED  BY <1>1, <1>2, <1>3 DEF IsRing, Ring

LEMMA InitQueueInv ==
    ASSUME RingAssumption, QueueAssumption, Init
    PROVE  QueueInv
<1>1. /\ queue = EmptyRing /\ freeList = AllFree(EmptyRing)
      /\ buffer_space = [b \in Buffer |-> Nothing] /\ has_data = FALSE
      /\ at = [p \in Proc |-> "idle"] /\ op = [p \in Proc |-> "none"]
      /\ pushed = 0 /\ faults = {} /\ usage \in Usages
  BY DEF Init
<1>2. /\ RingSize \in Nat /\ RingSize > 1 /\ NumberBuffers \in Nat /\ NumberBuffers > 0
      /\ Capacity \in Nat /\ NumberBuffers \in 0 .. RingSize - 1 /\ RingSize = NumberBuffers + 1
  BY Sizes DEF RingAssumption
<1>3. EmptyRing.n = 0
  BY DEF EmptyRing
<1>5. IsRing(EmptyRing, Buffer, Capacity) /\ IsRing(EmptyRing, Buffer, NumberBuffers)
  BY EmptyIsRing
<1>6. /\ IsRing(freeList, Buffer, NumberBuffers) /\ freeList.n = NumberBuffers
      /\ Distinct(freeList)
  BY <1>1, <1>5, AllFreeOK
<1>7. Rings(queue, freeList)
  <2>1. queue.n = 0 /\ \A i \in 1 .. 0 : FALSE
    BY <1>1, <1>3
  <2>2. Distinct(queue) /\ \A b : ~ Holds(queue, b)
    BY <2>1 DEF Distinct, Holds
  <2>3. queue.n + freeList.n <= NumberBuffers
    BY <1>2, <1>6, <2>1
  <2>. QED  BY <1>1, <1>5, <1>6, <2>2, <2>3, RingsParts
<1>8. BuffersOK
  <2>1. MaxPushes \in Nat
    BY DEF QueueAssumption
  <2>. QED  BY <1>1, <2>1 DEF BuffersOK
<1>9. WaitsOK
  BY <1>1 DEF WaitsOK
<1>10. NoLostWakeup
  <2>1. WaitsForData = {} /\ WaitsForSpace = {}
    BY <1>1 DEF WaitsForData, WaitsForSpace
  <2>. QED  BY <2>1 DEF NoLostWakeup
<1>. QED  BY <1>1, <1>3, <1>7, <1>8, <1>9, <1>10 DEF QueueInv

\* The part of the invariant about those who wait, when the items only get fewer and
\* the flag stays.
LEMMA StillAwake ==
    ASSUME QueueInv, has_data' = has_data, queue.n \in Nat, queue'.n \in Nat,
           queue'.n <= queue.n, WaitsForData' \subseteq WaitsForData,
           WaitsForSpace' \subseteq WaitsForSpace
    PROVE  NoLostWakeup' /\ (~ has_data' => queue'.n = 0)
<1>1. /\ WaitsForData # {} => queue.n = 0 /\ ~ has_data
      /\ WaitsForSpace # {} => has_data
      /\ ~ has_data => queue.n = 0
  BY DEF QueueInv, NoLostWakeup, IsEmpty
<1>2. queue.n = 0 => queue'.n = 0
  OBVIOUS
<1>3. WaitsForData' # {} => queue'.n = 0 /\ ~ has_data'
  BY <1>1, <1>2
<1>4. WaitsForSpace' # {} => has_data'
  BY <1>1
<1>5. ~ has_data' => queue'.n = 0
  BY <1>1, <1>2
<1>. QED  BY <1>3, <1>4, <1>5 DEF NoLostWakeup, IsEmpty

LEMMA StepQueueInv ==
    ASSUME RingAssumption, QueueAssumption, QueueInv, NEW p \in Proc, Step(p)
    PROVE  QueueInv'
<1>1. /\ Rings(queue, freeList) /\ BuffersOK /\ WaitsOK
      /\ has_data \in BOOLEAN /\ faults \subseteq Faulty /\ usage \in Usages
  BY DEF QueueInv
<1>2. queue.n \in Nat /\ (Rings(queue', freeList') => queue'.n \in Nat)
  BY <1>1, RingsSizes, Sizes
<1>3. /\ WaitsForData # {} => queue.n = 0 /\ ~ has_data
      /\ WaitsForSpace # {} => has_data
  BY DEF QueueInv, NoLostWakeup, IsEmpty
<1>4. \A x : x \in WaitsForData \/ x \in WaitsForSpace => x \in Proc /\ at[x] = "waiting"
  BY DEF WaitsForData, WaitsForSpace
<1>5. \A k \in 0 .. queue.n : Gone(k) => queue'.n <= queue.n
  BY <1>2 DEF Gone
<1>6. CASE (Throws(p) /\ at[p] # "waiting") \/ Returns(p)
  <2>0. at[p] # "waiting" => at[p] \in Faulty
    BY <1>1 DEF WaitsOK, Faulty
  <2>1. /\ Rings(queue', freeList') /\ BuffersOK' /\ has_data' = has_data
        /\ Notify(p, {}) /\ faults' \subseteq Faulty /\ usage' = usage
        /\ \E k \in 0 .. queue.n : Gone(k)
    BY <1>1, <1>6, <2>0 DEF Throws, Returns
  <2>2. /\ WaitsOK' /\ WaitsForData' \subseteq WaitsForData
        /\ WaitsForSpace' \subseteq WaitsForSpace
    BY <1>1, <2>1, NotifyOK
  <2>3. NoLostWakeup' /\ (~ has_data' => queue'.n = 0)
    BY <1>2, <1>5, <2>1, <2>2, StillAwake
  <2>. QED  BY <1>1, <2>1, <2>2, <2>3 DEF QueueInv
<1>7. CASE Puts(p)
  <2>1. /\ Rings(queue', freeList') /\ BuffersOK' /\ has_data' = TRUE
        /\ Notify(p, WaitsForData) /\ faults' = faults /\ usage' = usage
    BY <1>7 DEF Puts
  <2>2. WaitsOK' /\ WaitsForData' \subseteq WaitsForData \ WaitsForData
    BY <1>1, <1>4, <2>1, NotifyOK
  <2>3. NoLostWakeup'
    BY <2>1, <2>2 DEF NoLostWakeup
  <2>. QED  BY <1>1, <2>1, <2>2, <2>3 DEF QueueInv
<1>8. CASE Takes(p)
  <2>1. /\ Rings(queue', freeList') /\ BuffersOK' /\ has_data' = (queue'.n > 0)
        /\ Notify(p, WaitsForSpace) /\ faults' = faults /\ usage' = usage
        /\ \E k \in 0 .. queue.n : Gone(k)
    BY <1>8 DEF Takes
  <2>2. /\ WaitsOK' /\ WaitsForData' \subseteq WaitsForData
        /\ WaitsForSpace' \subseteq WaitsForSpace \ WaitsForSpace
    BY <1>1, <1>4, <2>1, NotifyOK
  <2>3. queue.n = 0 => queue'.n = 0
    BY <1>2, <1>5, <2>1
  <2>4. queue'.n = 0 => has_data' = FALSE
    <3>1. queue'.n = 0 => (queue'.n > 0) = FALSE
      OBVIOUS
    <3>. QED  BY <2>1, <3>1, Zenon
  <2>5. ~ has_data' => queue'.n = 0
    <3>1. ~ (queue'.n > 0) => queue'.n = 0
      BY <1>2, <2>1
    <3>. QED  BY <2>1, <3>1, Zenon
  <2>6. has_data' \in BOOLEAN
    BY <2>1
  <2>7. WaitsForData' # {} => queue'.n = 0 /\ ~ has_data'
    BY <1>3, <2>2, <2>3, <2>4
  <2>8. NoLostWakeup'
    BY <2>2, <2>7 DEF NoLostWakeup, IsEmpty
  <2>. QED  BY <1>1, <2>1, <2>2, <2>5, <2>6, <2>8 DEF QueueInv
<1>9. CASE Sleeps(p)
  <2>1. PICK o \in Blocking : /\ Wait(p, o) /\ at[p] = "idle" /\ o \in usage[p]
                              /\ IF o = "push_wait" THEN has_data ELSE ~ has_data
    <3>1. "push_wait" \in Blocking
      BY DEF Blocking
    <3>. QED  BY <1>9, <3>1 DEF Sleeps
  <2>2. /\ at' = [at EXCEPT ![p] = "waiting"] /\ op' = [op EXCEPT ![p] = o]
        /\ UNCHANGED <<queue, freeList, buffer_space, has_data, pushed, faults, usage>>
    BY <2>1 DEF Wait
  <2>3. /\ at \in [Proc -> {"idle", "waiting", "woken", "startled"}]
        /\ op \in [Proc -> Op \cup {"none"}]
        /\ \A x \in Proc : at[x] # "idle" => op[x] \in usage[x] /\ op[x] \in Blocking
    BY <1>1 DEF WaitsOK
  <2>4. o \in Op
    BY DEF Blocking, Op
  <2>5. WaitsOK'
    BY <2>1, <2>2, <2>3, <2>4 DEF WaitsOK
  <2>6. /\ o # "push_wait" => WaitsForSpace' = WaitsForSpace
        /\ o = "push_wait" => WaitsForData' = WaitsForData
    BY <2>1, <2>2, <2>3 DEF WaitsForData, WaitsForSpace
  <2>7. ~ has_data => queue.n = 0
    BY DEF QueueInv
  <2>8. WaitsForData' # {} => queue'.n = 0 /\ ~ has_data'
    BY <1>3, <2>1, <2>2, <2>6, <2>7
  <2>9. WaitsForSpace' # {} => has_data'
    BY <1>3, <2>1, <2>2, <2>6
  <2>10. NoLostWakeup'
    BY <2>8, <2>9 DEF NoLostWakeup, IsEmpty
  <2>11. BuffersOK' /\ Rings(queue', freeList')
    BY <1>1, <2>2 DEF BuffersOK
  <2>. QED  BY <1>1, <2>2, <2>5, <2>7, <2>10, <2>11 DEF QueueInv
<1>10. CASE reset(p)
  <2>1. /\ queue' = ResetRing(queue) /\ freeList' = AllFree(freeList)
        /\ UNCHANGED <<buffer_space, has_data, at, op, pushed, faults, usage>>
    BY <1>10 DEF reset
  <2>2. Rings(queue', freeList') /\ queue'.n = 0
    BY <1>1, <2>1, ResetOK
  <2>3. WaitsOK' /\ BuffersOK' /\ WaitsForData' = WaitsForData /\ WaitsForSpace' = WaitsForSpace
    BY <1>1, <2>1 DEF WaitsOK, BuffersOK, WaitsForData, WaitsForSpace
  <2>4. NoLostWakeup' /\ (~ has_data' => queue'.n = 0)
    BY <1>2, <2>1, <2>2, <2>3, StillAwake
  <2>. QED  BY <1>1, <2>1, <2>2, <2>3, <2>4 DEF QueueInv
<1>11. CASE Startle(p)
  <2>1. /\ at[p] = "waiting" /\ at' = [at EXCEPT ![p] = "startled"]
        /\ UNCHANGED <<queue, freeList, buffer_space, has_data, op, pushed, faults, usage>>
    BY <1>11 DEF Startle
  <2>2. /\ WaitsOK' /\ BuffersOK' /\ WaitsForData' \subseteq WaitsForData
        /\ WaitsForSpace' \subseteq WaitsForSpace
    BY <1>1, <2>1 DEF WaitsOK, BuffersOK, WaitsForData, WaitsForSpace
  <2>3. NoLostWakeup' /\ (~ has_data' => queue'.n = 0)
    BY <1>2, <2>1, <2>2, StillAwake
  <2>. QED  BY <1>1, <2>1, <2>2, <2>3 DEF QueueInv
<1>. QED  BY <1>6, <1>7, <1>8, <1>9, <1>10, <1>11, Zenon DEF Step

LEMMA StutterQueueInv ==
    ASSUME QueueInv, UNCHANGED vars
    PROVE  QueueInv'
<1>1. /\ queue' = queue /\ freeList' = freeList /\ buffer_space' = buffer_space
      /\ has_data' = has_data /\ at' = at /\ op' = op /\ pushed' = pushed
      /\ faults' = faults /\ usage' = usage
  BY DEF vars
<1>2. /\ BuffersOK' /\ WaitsOK' /\ WaitsForData' = WaitsForData
      /\ WaitsForSpace' = WaitsForSpace
  BY <1>1 DEF QueueInv, BuffersOK, WaitsOK, WaitsForData, WaitsForSpace
<1>3. NoLostWakeup'
  BY <1>1, <1>2 DEF QueueInv, NoLostWakeup
<1>. QED  BY <1>1, <1>2, <1>3 DEF QueueInv

\* The invariant holds in every state, for any sizes and any use of the queue.
THEOREM QueueInvariant == Spec => []QueueInv
<1>1. Init => QueueInv
  BY InitQueueInv, RingAssumption, QueueAssumption
<1>2. QueueInv /\ [Next]_vars => QueueInv'
  BY NextSteps, StepQueueInv, StutterQueueInv, RingAssumption, QueueAssumption
<1>. QED  BY <1>1, <1>2, PTL DEF Spec

\* The elements of a ring are as many as they should be.
LEMMA CountDistinct ==
    ASSUME RingAssumption, NEW S, NEW cap \in 0 .. RingSize - 1, NEW r, IsRing(r, S, cap),
           Distinct(r)
    PROVE  Cardinality({Elements(r)[i] : i \in 1 .. r.n}) = r.n
<1> DEFINE T == {Elements(r)[i] : i \in 1 .. r.n}
           e == Elements(r)
<1>1. r.n \in Nat /\ e \in [1 .. r.n -> S]
  <2>1. r.n \in 0 .. cap /\ e \in [1 .. r.n -> S]
    BY ElementsOK
  <2>. QED  BY <2>1
<1>2. /\ \A i, j \in 1 .. r.n : e[i] = e[j] => i = j
      /\ T = {e[i] : i \in 1 .. r.n}
  BY DEF Distinct
<1> HIDE DEF e, T
<1>3. e \in [1 .. r.n -> T] /\ \A t \in T : \E i \in 1 .. r.n : e[i] = t
  BY <1>1, <1>2
<1>4. e \in Bijection(1 .. r.n, T)
  BY <1>2, <1>3, Fun_IsBij
<1>5. ExistsBijection(1 .. r.n, T)
  BY <1>4 DEF ExistsBijection
<1>6. Cardinality(T) = r.n
  BY <1>1, <1>5, FS_CountingElements
<1>. QED  BY <1>6 DEF T

\* No buffer is in two places, in any state.
THEOREM BuffersStayDistinct == Spec => []BuffersDistinct
<1>1. QueueInv => BuffersDistinct
  <2> SUFFICES ASSUME QueueInv  PROVE BuffersDistinct
    OBVIOUS
  <2>1. /\ Rings(queue, freeList) /\ BuffersOK /\ WaitsOK
        /\ has_data \in BOOLEAN /\ faults \subseteq Faulty
    BY DEF QueueInv
  <2>2. /\ IsRing(queue, Buffer, Capacity) /\ IsRing(freeList, Buffer, NumberBuffers)
        /\ Distinct(queue) /\ Distinct(freeList)
        /\ \A i \in 1 .. queue.n, j \in 1 .. freeList.n :
             Elements(queue)[i] # Elements(freeList)[j]
    BY <2>1 DEF Rings
  <2>3. NumberBuffers \in 0 .. RingSize - 1 /\ Capacity \in 0 .. RingSize - 1
    BY Sizes, QueueAssumption
  <2>4. TypeOK
    BY <2>1, <2>2 DEF TypeOK, IsRing, BuffersOK, WaitsOK, Faulty
  <2>5. Filled \cap Free = {}
    BY <2>2 DEF Filled, Free
  <2>6. Cardinality(Filled) = queue.n
    BY <2>2, <2>3, CountDistinct, RingAssumption DEF Filled
  <2>7. Cardinality(Free) = freeList.n
    BY <2>2, <2>3, CountDistinct, RingAssumption DEF Free
  <2>. QED  BY <2>4, <2>5, <2>6, <2>7 DEF BuffersDistinct
<1>. QED  BY <1>1, QueueInvariant, PTL

\* A process that waits for items or for space is woken when they come.
THEOREM NoWakeupIsLost == Spec => []NoLostWakeup
<1>1. QueueInv => NoLostWakeup
  BY DEF QueueInv
<1>. QED  BY <1>1, QueueInvariant, PTL

(***************************************************************************)
(* A queue between two processes.                                          *)
(***************************************************************************)
Ends(u, w, r) ==
    /\ w # r /\ \A p \in Proc \ {w, r} : u[p] = {}
    /\ u[w] \subseteq {"push_wait", "push_nowait"}
    /\ u[r] \subseteq Popping \cup {"peek_wait", "peek_nowait"}

\* Who has been notified finds what it waited for, since nobody else takes it, whatever
\* a wait that ended for no reason has done before: who has been startled throws when the
\* queue is empty, or when it is full, and then it loses buffers the queue has no need of.
BetweenTwo(w, r) ==
    /\ faults \subseteq {"startled"} /\ queue.n + freeList.n >= Capacity
    /\ faults = {} => queue.n + freeList.n = NumberBuffers
    /\ has_data => queue.n > 0
    /\ at[w] = "woken" => queue.n < Capacity
    /\ at[r] = "woken" => queue.n > 0

TwoEnds == \A w, r \in Proc : Ends(usage, w, r) => BetweenTwo(w, r)

\* Who does what between the two.
LEMMA EndsSteps ==
    ASSUME NEW w \in Proc, NEW r \in Proc, NEW p \in Proc, Ends(usage, w, r)
    PROVE  /\ "fail" \notin usage[p] /\ "push_wait_force" \notin usage[p] /\ "reset" \notin usage[p]
           /\ Pushes(p) => p = w
           /\ Pops(p) => p = r
BY DEF Ends, Pushes, Pops, Popping

LEMMA TwoEndsStep ==
    ASSUME RingAssumption, QueueAssumption, QueueInv, QueueInv', NEW p \in Proc, Step(p),
           NEW w \in Proc, NEW r \in Proc, Ends(usage, w, r), BetweenTwo(w, r)
    PROVE  BetweenTwo(w, r)'
<1>1. /\ queue.n \in 0 .. Capacity /\ freeList.n \in 0 .. NumberBuffers /\ Capacity \in Nat
      /\ NumberBuffers \in Nat /\ Capacity > 0 /\ Capacity <= NumberBuffers
      /\ queue'.n \in 0 .. Capacity /\ freeList'.n \in 0 .. NumberBuffers
  BY RingsSizes, Sizes DEF QueueInv
<1>2. /\ WaitsOK /\ (~ has_data => queue.n = 0)
  BY DEF QueueInv
<1>3. /\ "fail" \notin usage[p] /\ "push_wait_force" \notin usage[p] /\ "reset" \notin usage[p]
      /\ Pushes(p) => p = w
      /\ Pops(p) => p = r
  BY EndsSteps
<1>4. w # r
  BY DEF Ends
<1>5. /\ faults \subseteq {"startled"} /\ queue.n + freeList.n >= Capacity
      /\ faults = {} => queue.n + freeList.n = NumberBuffers
      /\ has_data => queue.n > 0
      /\ at[w] = "woken" => queue.n < Capacity
      /\ at[r] = "woken" => queue.n > 0
  BY DEF BetweenTwo
<1>6. \A x : x \in WaitsForData \/ x \in WaitsForSpace => x \in Proc /\ at[x] = "waiting"
  BY DEF WaitsForData, WaitsForSpace
<1>7. CASE Throws(p) /\ Cause(p) /\ at[p] # "waiting"
  <2>1. /\ has_data' = has_data /\ Notify(p, {}) /\ faults' = faults \cup {at[p]}
        /\ usage' = usage
    BY <1>7 DEF Throws
  <2>2. \/ Pushes(p) /\ (~ has_data \/ Awake(p) \/ queue.n # Capacity) /\ FoundFull
        \/ Pops(p) /\ (has_data \/ Awake(p)) /\ FoundEmpty
    BY <1>3, <1>7, Zenon DEF Cause
  <2>3. ASSUME Pushes(p), ~ has_data \/ Awake(p) \/ queue.n # Capacity, FoundFull
        PROVE  at[p] = "startled" /\ queue' = queue /\ queue'.n + freeList'.n >= Capacity
    <3>1. queue.n = Capacity
      <4>1. freeList.n = 0 => queue.n = Capacity
        BY <1>1, <1>5
      <4>. QED  BY <2>3, <4>1 DEF FoundFull
    <3>2. at[p] = "startled"
      <4>1. has_data /\ at[w] # "woken"
        BY <1>1, <1>2, <1>5, <3>1
      <4>. QED  BY <1>3, <2>3, <3>1, <4>1 DEF Awake
    <3>3. queue' = queue /\ queue'.n + freeList'.n >= Capacity
      BY <1>1, <2>3, <3>1 DEF FoundFull
    <3>. QED  BY <3>2, <3>3
  <2>4. ASSUME Pops(p), has_data \/ Awake(p), FoundEmpty
        PROVE  at[p] = "startled" /\ queue' = queue /\ queue'.n + freeList'.n >= Capacity
    <3>1. ~ has_data /\ at[r] # "woken"
      BY <1>1, <1>5, <2>4 DEF FoundEmpty
    <3>2. at[p] = "startled"
      BY <1>3, <2>4, <3>1 DEF Awake
    <3>3. queue' = queue /\ queue'.n + freeList'.n >= Capacity
      BY <1>5, <2>4 DEF FoundEmpty
    <3>. QED  BY <3>2, <3>3
  <2>5. at[p] = "startled" /\ queue' = queue /\ queue'.n + freeList'.n >= Capacity
    BY <2>2, <2>3, <2>4
  <2>6. \A x \in Proc : at'[x] = "woken" => at[x] = "woken"
    BY <1>2, <2>1, NotifyOK
  <2>7. faults' \subseteq {"startled"} /\ faults' # {}
    BY <1>5, <2>1, <2>5
  <2>. QED  BY <1>5, <2>1, <2>5, <2>6, <2>7 DEF BetweenTwo
<1>8. CASE Returns(p) /\ Gone(0)
  <2>1. /\ has_data' = has_data /\ Notify(p, {}) /\ NoneLost /\ faults' = faults
        /\ usage' = usage
    BY <1>8 DEF Returns
  <2>2. queue'.n = queue.n /\ queue'.n + freeList'.n = queue.n + freeList.n
    BY <1>1, <1>5, <1>8, <2>1 DEF Gone, NoneLost
  <2>3. \A x \in Proc : at'[x] = "woken" => at[x] = "woken"
    BY <1>2, <2>1, NotifyOK
  <2>. QED  BY <1>5, <2>1, <2>2, <2>3 DEF BetweenTwo
<1>9. CASE Puts(p) /\ Pushes(p)
  <2>1. /\ has_data' = TRUE /\ Notify(p, WaitsForData) /\ NoneLost /\ faults' = faults
        /\ usage' = usage /\ p = w
    BY <1>3, <1>9 DEF Puts
  <2>2. queue'.n > 0
    <3>1. PICK k \in {0, 1} : Came(k)
      BY <1>9 DEF Puts
    <3>2. /\ (k = 0 /\ queue.n # Capacity) \/ (k = 1 /\ queue.n = Capacity)
          /\ queue'.n = queue.n - k + 1
      BY <3>1 DEF Came
    <3>. QED  BY <1>1, <3>2
  <2>3. queue'.n + freeList'.n = queue.n + freeList.n
    BY <2>1 DEF NoneLost
  <2>4. at'[w] = "idle"
    BY <1>2, <1>6, <2>1, NotifyOK
  <2>. QED  BY <1>5, <2>1, <2>2, <2>3, <2>4 DEF BetweenTwo
<1>10. CASE Takes(p) /\ Pops(p)
  <2>1. /\ has_data' = (queue'.n > 0) /\ Notify(p, WaitsForSpace) /\ NoneLost
        /\ faults' = faults /\ usage' = usage /\ p = r /\ (queue.n > 0 => queue'.n < queue.n)
        /\ \E k \in 0 .. queue.n : Gone(k)
    BY <1>3, <1>10 DEF Takes
  <2>2. queue'.n < Capacity
    <3>1. PICK k \in 0 .. queue.n : queue'.n = queue.n - k
      BY <2>1 DEF Gone
    <3>. QED  BY <1>1, <2>1, <3>1
  <2>3. queue'.n + freeList'.n = queue.n + freeList.n
    BY <2>1 DEF NoneLost
  <2>4. at'[r] = "idle"
    BY <1>2, <1>6, <2>1, NotifyOK
  <2>5. has_data' => queue'.n > 0
    BY <2>1, Zenon
  <2>. QED  BY <1>5, <2>1, <2>2, <2>3, <2>4, <2>5 DEF BetweenTwo
<1>11. CASE Sleeps(p)
  <2>1. PICK o \in Blocking : Wait(p, o)
    <3>1. "push_wait" \in Blocking
      BY DEF Blocking
    <3>. QED  BY <1>11, <3>1 DEF Sleeps
  <2>2. /\ at' = [at EXCEPT ![p] = "waiting"]
        /\ UNCHANGED <<queue, freeList, has_data, faults, usage>>
    BY <2>1 DEF Wait
  <2>3. \A x \in Proc : at'[x] = "woken" => at[x] = "woken"
    BY <1>2, <2>2 DEF WaitsOK
  <2>. QED  BY <1>5, <2>2, <2>3 DEF BetweenTwo
<1>12. CASE Startle(p)
  <2>1. /\ at' = [at EXCEPT ![p] = "startled"]
        /\ UNCHANGED <<queue, freeList, has_data, faults, usage>>
    BY <1>12 DEF Startle
  <2>2. \A x \in Proc : at'[x] = "woken" => at[x] = "woken"
    BY <1>2, <2>1 DEF WaitsOK
  <2>. QED  BY <1>5, <2>1, <2>2 DEF BetweenTwo
<1>13. ~ reset(p)
  BY <1>3 DEF reset, Calls
<1>. QED  BY <1>3, <1>7, <1>8, <1>9, <1>10, <1>11, <1>12, <1>13, Zenon DEF Step

LEMMA InitTwoEnds ==
    ASSUME RingAssumption, QueueAssumption, Init
    PROVE  TwoEnds
<1>1. /\ queue = EmptyRing /\ freeList = AllFree(EmptyRing) /\ has_data = FALSE
      /\ at = [p \in Proc |-> "idle"] /\ faults = {}
  BY DEF Init
<1>3. EmptyRing.n = 0 /\ NumberBuffers \in Nat /\ Capacity <= NumberBuffers /\ Capacity > 0
  BY Sizes DEF EmptyRing
<1>4. freeList.n = NumberBuffers
  <2>1. IsRing(EmptyRing, Buffer, NumberBuffers)
    BY EmptyIsRing
  <2>. QED  BY <1>1, <2>1, AllFreeOK
<1>. QED  BY <1>1, <1>3, <1>4 DEF TwoEnds, BetweenTwo

\* Between one process that pushes and one that pops or peeks, the condition that is not
\* looked at again after a wait does no harm but to a process whose wait ended for no
\* reason: the notified ones find an item, or a free buffer, even after such a process has
\* thrown and lost one.
THEOREM NotifiedNeverThrow == Spec => []OnlyStartledThrow
<1>1. Init => TwoEnds
  BY InitTwoEnds, RingAssumption, QueueAssumption
<1>2. TwoEnds /\ QueueInv /\ [Next]_vars => TwoEnds'
  <2> SUFFICES ASSUME TwoEnds, QueueInv, [Next]_vars  PROVE TwoEnds'
    OBVIOUS
  <2>1. UNCHANGED vars \/ \E p \in Proc : Step(p)
    BY NextSteps, RingAssumption, QueueAssumption
  <2>2. CASE UNCHANGED vars
    BY <2>2 DEF TwoEnds, BetweenTwo, vars
  <2>3. ASSUME NEW p \in Proc, Step(p)
        PROVE  TwoEnds'
    <3>1. QueueInv'
      BY <2>3, StepQueueInv, RingAssumption, QueueAssumption
    <3>2. usage' = usage
      <4>1. CASE Sleeps(p)
        BY <4>1 DEF Sleeps, Wait
      <4>2. CASE Startle(p)
        BY <4>2 DEF Startle
      <4>. QED  BY <2>3, <4>1, <4>2 DEF Step, Throws, Returns, Puts, Takes, reset
    <3>3. SUFFICES ASSUME NEW w \in Proc, NEW r \in Proc, Ends(usage, w, r)
                   PROVE  BetweenTwo(w, r)'
      BY <3>2 DEF TwoEnds
    <3>. QED  BY <2>3, <3>1, <3>3, TwoEndsStep, RingAssumption, QueueAssumption DEF TwoEnds
  <2>. QED  BY <2>1, <2>2, <2>3
<1>3. TwoEnds => OnlyStartledThrow
  BY DEF TwoEnds, BetweenTwo, OnlyStartledThrow, OneToOne, Ends
<1>. QED  BY <1>1, <1>2, <1>3, QueueInvariant, PTL DEF Spec

(***************************************************************************)
(* What the queue promises to the processes at both ends.                  *)
(***************************************************************************)
Content == Item \cup {Nothing}
Items(q, b) == [i \in 1 .. q.n |-> b[Elements(q)[i]]]

LEMMA ItemsOK ==
    ASSUME RingAssumption, QueueAssumption, NEW q, NEW f, Rings(q, f),
           NEW b \in [Buffer -> Content]
    PROVE  /\ Items(q, b) \in Seq(Content) /\ Len(Items(q, b)) = q.n /\ q.n \in 0 .. Capacity
           /\ \A i \in 1 .. q.n : Items(q, b)[i] = b[Elements(q)[i]]
<1>1. q.n \in 0 .. Capacity /\ Capacity \in Nat /\ Capacity \in 0 .. RingSize - 1
  BY RingsSizes, Sizes
<1>2. IsRing(q, Buffer, Capacity)
  BY DEF Rings
<1>3. \A i \in 1 .. q.n : Elements(q)[i] \in Buffer
  BY <1>1, <1>2, ElementsOK
<1>4. Items(q, b) \in [1 .. q.n -> Content]
  BY <1>3 DEF Items
<1>5. q.n \in Nat /\ Items(q, b) \in Seq(Content) /\ Len(Items(q, b)) = q.n
  BY <1>1, <1>4
<1>. QED  BY <1>1, <1>5 DEF Items

\* d is what is left of c without its first k elements.
Later(d, c, k) ==
    k \in 0 .. Len(c) /\ Len(d) = Len(c) - k /\ \A i \in 1 .. Len(c) - k : d[i] = c[i + k]

From(c, k) == SubSeq(c, k + 1, Len(c))

\* What remains when the k oldest items have gone.
LEMMA GoneItems ==
    ASSUME NEW c \in Seq(Content), NEW d \in Seq(Content), NEW k, Later(d, c, k)
    PROVE  (k = 0 => d = c) /\ d = From(c, k)
<1> USE DEF Later
<1>1. Len(c) \in Nat /\ k \in Nat
  BY LenProperties
<1> DEFINE e == SubSeq(c, k + 1, Len(c))
<1>2. \A i \in k + 1 .. Len(c) : c[i] \in Content
  <2>1. \A i \in k + 1 .. Len(c) : i \in 1 .. Len(c)
    BY <1>1
  <2>. QED  BY <2>1, ElementOfSeq
<1>3. /\ e \in Seq(Content) /\ Len(e) = IF k + 1 <= Len(c) THEN Len(c) - (k + 1) + 1 ELSE 0
      /\ \A i \in 1 .. Len(c) - (k + 1) + 1 : e[i] = c[(k + 1) + i - 1]
  BY <1>1, <1>2, SubSeqProperties
<1> HIDE DEF e
<1>4. Len(e) = Len(d) /\ \A i \in 1 .. Len(d) : e[i] = d[i]
  <2>1. Len(e) = Len(d)
    BY <1>1, <1>3
  <2>2. ASSUME NEW i \in 1 .. Len(d)
        PROVE  e[i] = d[i]
    <3>1. i \in 1 .. Len(c) - k /\ i \in 1 .. Len(c) - (k + 1) + 1 /\ (k + 1) + i - 1 = i + k
      BY <1>1
    <3>. QED  BY <1>3, <3>1
  <2>. QED  BY <2>1, <2>2
<1>5. d = e
  BY <1>3, <1>4, SeqEqual
<1>6. ASSUME k = 0
      PROVE  d = c
  <2>1. Len(d) = Len(c) /\ \A i \in 1 .. Len(c) : i \in 1 .. Len(c) - k /\ i + k = i
    BY <1>1, <1>6
  <2>2. \A i \in 1 .. Len(d) : d[i] = c[i]
    BY <2>1
  <2>. QED  BY <2>1, <2>2, SeqEqual
<1>. QED  BY <1>5, <1>6, Zenon DEF e, From

\* What there is when an item has come, and none or the oldest has gone.
LEMMA CameItems ==
    ASSUME NEW c \in Seq(Content), NEW d \in Seq(Content), NEW x \in Content,
           NEW k \in {0, 1}, k <= Len(c), Len(d) = Len(c) - k + 1,
           \A i \in 1 .. Len(c) - k : d[i] = c[i + k], d[Len(d)] = x
    PROVE  /\ k = 0 => d = Append(c, x)
           /\ k = 1 => d = Append(Tail(c), x)
<1>1. Len(c) \in Nat
  BY LenProperties
<1>2. ASSUME NEW e \in Seq(Content), Len(e) = Len(c) - k,
             \A i \in 1 .. Len(e) : e[i] = c[i + k]
      PROVE  d = Append(e, x)
  <2>1. /\ Append(e, x) \in Seq(Content) /\ Len(Append(e, x)) = Len(e) + 1
        /\ \A i \in 1 .. Len(e) : Append(e, x)[i] = e[i]
        /\ Append(e, x)[Len(e) + 1] = x
    BY AppendProperties
  <2>2. Len(e) \in Nat /\ Len(d) = Len(e) + 1
    BY <1>1, <1>2
  <2>3. ASSUME NEW i \in 1 .. Len(d)
        PROVE  d[i] = Append(e, x)[i]
    <3>1. CASE i = Len(d)
      BY <2>1, <2>2, <3>1
    <3>2. CASE i # Len(d)
      <4>1. i \in 1 .. Len(e)
        BY <2>2, <3>2
      <4>. QED  BY <1>2, <2>1, <4>1
    <3>. QED  BY <3>1, <3>2
  <2>. QED  BY <2>1, <2>2, <2>3, SeqEqual
<1>3. ASSUME k = 0
      PROVE  d = Append(c, x)
  <2>1. Len(c) = Len(c) - k /\ \A i \in 1 .. Len(c) : i + k = i
    BY <1>1, <1>3
  <2>. QED  BY <1>2, <2>1
<1>4. ASSUME k = 1
      PROVE  d = Append(Tail(c), x)
  <2>1. c # <<>>
    BY <1>1, <1>4, EmptySeq
  <2>2. /\ Tail(c) \in Seq(Content) /\ Len(Tail(c)) = Len(c) - 1
        /\ \A i \in 1 .. Len(Tail(c)) : Tail(c)[i] = c[i + 1]
    BY <2>1, HeadTailProperties
  <2>. QED  BY <1>2, <1>4, <2>2
<1>. QED  BY <1>3, <1>4

LEMMA FifoStep ==
    ASSUME RingAssumption, QueueAssumption, QueueInv, QueueInv', NEW p \in Proc, Step(p)
    PROVE  Fifo!Next \/ Contents' = Contents
<1> DEFINE c == Contents
           d == Contents'
<1>1. c = Items(queue, buffer_space) /\ d = Items(queue', buffer_space')
  BY DEF Contents, Items
<1>2. /\ Rings(queue, freeList) /\ buffer_space \in [Buffer -> Content]
      /\ Rings(queue', freeList') /\ buffer_space' \in [Buffer -> Content]
  BY DEF QueueInv, BuffersOK, Content
<1>3. /\ c \in Seq(Content) /\ Len(c) = queue.n /\ queue.n \in 0 .. Capacity
      /\ \A i \in 1 .. queue.n : c[i] = buffer_space[Elements(queue)[i]]
  BY <1>1, <1>2, ItemsOK
<1>4. /\ d \in Seq(Content) /\ Len(d) = queue'.n /\ queue'.n \in 0 .. Capacity
      /\ \A i \in 1 .. queue'.n : d[i] = buffer_space'[Elements(queue')[i]]
  BY <1>1, <1>2, ItemsOK
<1>5. Capacity \in Nat /\ Capacity > 0 /\ queue.n \in Nat /\ queue'.n \in Nat
  BY <1>3, <1>4, Sizes
<1> HIDE DEF c, d
<1>6. ASSUME NEW k \in 0 .. queue.n, queue'.n = queue.n - k, Remain(k)
      PROVE  d = c \/ \E n \in 1 .. Len(c) : d = SubSeq(c, n + 1, Len(c))
  <2>1. \A i \in 1 .. Len(c) - k : d[i] = c[i + k]
    <3>1. \A i \in 1 .. queue.n - k : i \in 1 .. queue'.n /\ i + k \in 1 .. queue.n
      BY <1>5, <1>6
    <3>. QED  BY <1>3, <1>4, <1>6, <3>1 DEF Remain
  <2>2. (k = 0 => d = c) /\ d = SubSeq(c, k + 1, Len(c))
    <3>1. k \in 0 .. Len(c) /\ Len(d) = Len(c) - k
      BY <1>3, <1>4, <1>6
    <3>2. Later(d, c, k)
      BY <2>1, <3>1 DEF Later
    <3>3. (k = 0 => d = c) /\ d = From(c, k)
      BY <1>3, <1>4, <3>2, GoneItems, Zenon
    <3>. QED  BY <3>3, Zenon DEF From
  <2>3. k # 0 => k \in 1 .. Len(c)
    BY <1>3, <1>5
  <2>. QED  BY <2>2, <2>3
<1>7. (d = c \/ \E n \in 1 .. Len(c) : d = SubSeq(c, n + 1, Len(c)))
        => Fifo!Next \/ Contents' = Contents
  BY DEF c, d, Fifo!Next, Fifo!Take
<1>8. CASE \E k \in 0 .. queue.n : Gone(k)
  BY <1>6, <1>7, <1>8 DEF Gone
<1>9. CASE Puts(p)
  <2>1. PICK k \in {0, 1} : Came(k)
    BY <1>9 DEF Puts
  <2>2. /\ (k = 0 /\ queue.n # Capacity) \/ (k = 1 /\ queue.n = Capacity)
        /\ queue'.n = queue.n - k + 1 /\ Remain(k)
        /\ buffer_space'[Elements(queue')[queue'.n]] = pushed' /\ pushed' \in Item
    BY <2>1 DEF Came
  <2>3. k <= Len(c) /\ Len(d) = Len(c) - k + 1 /\ queue'.n > 0
    BY <1>3, <1>4, <1>5, <2>2
  <2>4. \A i \in 1 .. Len(c) - k : d[i] = c[i + k]
    <3>1. \A i \in 1 .. queue.n - k : i \in 1 .. queue'.n /\ i + k \in 1 .. queue.n
      BY <1>5, <2>2
    <3>. QED  BY <1>3, <1>4, <2>2, <3>1 DEF Remain
  <2>5. d[Len(d)] = pushed' /\ pushed' \in Content
    <3>1. queue'.n \in 1 .. queue'.n
      BY <1>5, <2>3
    <3>. QED  BY <1>4, <2>2, <3>1 DEF Content
  <2>6. (k = 0 => d = Append(c, pushed')) /\ (k = 1 => d = Append(Tail(c), pushed'))
    BY <1>3, <1>4, <2>3, <2>4, <2>5, CameItems
  <2>7. k = 0 => Fifo!Put(pushed')
    <3>1. k = 0 => Len(c) < Capacity
      BY <1>3, <1>5, <2>2
    <3>. QED  BY <2>6, <3>1 DEF Fifo!Put, c, d
  <2>8. k = 1 => Fifo!PutForced(pushed')
    BY <1>3, <2>2, <2>6 DEF Fifo!PutForced, c, d
  <2>. QED  BY <2>2, <2>7, <2>8 DEF Fifo!Next
<1>10. CASE Sleeps(p)
  <2>1. queue' = queue /\ buffer_space' = buffer_space
    BY <1>10 DEF Sleeps, Wait
  <2>. QED  BY <1>1, <2>1 DEF c, d
<1>12. CASE Startle(p)
  <2>1. queue' = queue /\ buffer_space' = buffer_space
    BY <1>12 DEF Startle
  <2>. QED  BY <1>1, <2>1 DEF c, d
<1>11. CASE reset(p)
  <2>1. queue'.n = 0
    BY <1>2, <1>11, ResetOK DEF reset
  <2>2. Remain(queue.n) /\ queue.n \in 0 .. queue.n /\ queue'.n = queue.n - queue.n
    BY <1>5, <2>1 DEF Remain
  <2>. QED  BY <1>6, <1>7, <2>2
<1>. QED  BY <1>8, <1>9, <1>10, <1>11, <1>12 DEF Step, Throws, Returns, Takes

\* Through all waits, exceptions, resets and forced pushes of any number of processes,
\* what the processes get is what a bounded queue would have given them: the items in
\* the order of their pushes, each once, and never more than Capacity of them.
THEOREM QueueImplementsFifo == Spec => ImplementsFifo
<1>1. Init => Fifo!Init
  <2> SUFFICES ASSUME Init  PROVE Fifo!Init
    OBVIOUS
  <2>1. queue.n = 0
    BY DEF Init, EmptyRing
  <2>2. Contents = <<>>
    BY <2>1 DEF Contents
  <2>. QED  BY <2>2 DEF Fifo!Init
<1>2. QueueInv /\ [Next]_vars => [Fifo!Next]_Contents
  <2> SUFFICES ASSUME QueueInv, [Next]_vars  PROVE Fifo!Next \/ Contents' = Contents
    OBVIOUS
  <2>1. UNCHANGED vars \/ \E p \in Proc : Step(p)
    BY NextSteps, RingAssumption, QueueAssumption
  <2>2. CASE UNCHANGED vars
    BY <2>2 DEF Contents, vars
  <2>3. ASSUME NEW p \in Proc, Step(p)
        PROVE  Fifo!Next \/ Contents' = Contents
    <3>1. QueueInv'
      BY <2>3, StepQueueInv, RingAssumption, QueueAssumption
    <3>. QED  BY <2>3, <3>1, FifoStep, RingAssumption, QueueAssumption
  <2>. QED  BY <2>1, <2>2, <2>3
<1>. QED  BY <1>1, <1>2, QueueInvariant, PTL DEF Spec, ImplementsFifo, Fifo!Spec

=============================================================================

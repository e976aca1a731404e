------------------------------ MODULE RingBuffer ------------------------------
(***************************************************************************)
(* Ring buffers in a fixed array (class FixedMemRingBuffer), with the two  *)
(* indexes and the counter of the code, and the sequence one stands for.   *)
(***************************************************************************)
EXTENDS Integers, Sequences

CONSTANT RingSize      \* maxRingBufferElements

ASSUME RingAssumption == RingSize \in Nat \ {0, 1}

Slot == 0 .. RingSize - 1

\* Rings of at most cap elements of the set S.
Ring(S, cap) == [in : Slot, out : Slot, n : 0 .. cap, ring : [Slot -> S]]

IsEmpty(r) == r.n = 0
IsFull(r, cap) == r.n = cap

Front(r) == r.ring[r.out]

PopRing(r) == [r EXCEPT !.out = (@ + 1) % RingSize, !.n = @ - 1]

\* Mutant of PushRing: no wraparound, the last slot is used again.
PushRingLate(r, x) ==
    [r EXCEPT !.ring[r.in] = x, !.in = IF @ = RingSize - 1 THEN @ ELSE @ + 1, !.n = @ + 1]

PushRing(r, x) ==
    [r EXCEPT !.ring[r.in] = x, !.in = (@ + 1) % RingSize, !.n = @ + 1]

ResetRing(r) == [r EXCEPT !.in = 0, !.out = 0, !.n = 0]

\* The elements, oldest first.
Elements(r) == [i \in 1 .. r.n |-> r.ring[(r.out + i - 1) % RingSize]]

=============================================================================

----------------------------- MODULE VardisSeqno -----------------------------
(***************************************************************************)
(* Circular variable sequence numbers (class VarSeqnoT, one byte) and the  *)
(* comparison Vardis uses to decide which of two values of a variable is   *)
(* the newer one (more_recent_seqno).                                      *)
(***************************************************************************)
EXTENDS Integers

CONSTANT SeqnoModulus      \* VarSeqnoT::modulus(), 256 in the code

\* One byte: the modulus is even, so half of it is a distance at which neither
\* of two sequence numbers is the more recent one.
ASSUME SeqnoAssumption ==
    /\ SeqnoModulus \in Nat
    /\ SeqnoModulus >= 4
    /\ \E h \in 2 .. SeqnoModulus : SeqnoModulus = 2 * h

Seqno == 0 .. SeqnoModulus - 1

HalfSeqno == (SeqnoModulus - 1) \div 2      \* max_val() / 2, 127 in the code

\* Mutant of more_recent_seqno: no wraparound.
more_recent_seqno_linear(a, b) == a > b

more_recent_seqno(a, b) ==
    \/ a > b /\ a - b <= HalfSeqno
    \/ a < b /\ b - a > HalfSeqno + 1

NextSeqno(a) == (a + 1) % SeqnoModulus

=============================================================================

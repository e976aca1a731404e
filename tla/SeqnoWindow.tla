----------------------------- MODULE SeqnoWindow -----------------------------
(***************************************************************************)
(* One variable, its producer and a consumer that receives the records of  *)
(* the variable (updates and summaries alike carry the sequence number)    *)
(* lost, duplicated, reordered and delayed by the network.  Sequence       *)
(* numbers are one byte and wrap around, so the consumer can compare them  *)
(* only as long as nothing it meets is too old.  The module states how old *)
(* that is: no record in circulation, and not the value of the consumer    *)
(* either, is more than MaxAge updates behind the producer.                *)
(***************************************************************************)
EXTENDS VardisSeqno

CONSTANT MaxAge

ASSUME WindowAssumption == MaxAge \in 1 .. HalfSeqno

VARIABLES
    produced,   \* the sequence number at the producer
    consumed,   \* the sequence number at the consumer
    behind      \* by how many updates the consumer is behind (history variable)

windowVars == <<produced, consumed, behind>>

Age == 0 .. MaxAge

\* The sequence number of the record that is age updates old.
SeqnoOf(age) == (produced - age) % SeqnoModulus

WindowInit == produced = 0 /\ consumed = 0 /\ behind = 0

\* handle_rtdb_update_request at the producer.
Publish ==
    /\ behind < MaxAge
    /\ produced' = NextSeqno(produced)
    /\ behind' = behind + 1
    /\ UNCHANGED consumed

\* The conditions under which process_var_update takes the value over, and
\* process_var_summary requests it.
IsNews(seqno) == consumed # seqno /\ ~ more_recent_seqno(consumed, seqno)

\* process_var_update at the consumer, for a record of any age.
Receive(age) ==
    LET news == IsNews(SeqnoOf(age))
    IN  /\ consumed' = IF news THEN SeqnoOf(age) ELSE consumed
        /\ behind' = IF news THEN age ELSE behind
        /\ UNCHANGED produced

WindowNext == Publish \/ \E age \in Age : Receive(age)

WindowSpec == WindowInit /\ [][WindowNext]_windowVars

\* A record is news to the consumer exactly when it is younger than the value it
\* has: an old record never overwrites a newer value and a newer one is never
\* refused, across any number of wraparounds.
NewestWins == \A age \in Age : IsNews(SeqnoOf(age)) <=> age < behind

=============================================================================

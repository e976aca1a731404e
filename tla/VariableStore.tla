---------------------------- MODULE VariableStore ----------------------------
(***************************************************************************)
(* The variable store of a Vardis node (class ArrayVariableStoreBase): for *)
(* each variable identifier whether it is in use, its database entry and   *)
(* where its value and its description are; the buffers for those; and the *)
(* list of free buffers.  A store is a record and an operation a function  *)
(* of it; a predicate tells when the operation throws.  The offset of the  *)
(* value and that of the description always go together: one buffer.  Of a *)
(* database entry are kept whether this node is the producer, the time     *)
(* stamp and isDeleted.  No code gives an identifier back once it has been *)
(* allocated (deallocate_identifier has no caller).                        *)
(***************************************************************************)
EXTENDS Integers, Sequences

CONSTANT VarId         \* variable identifiers 1 .. n

Buffer == VarId        \* as many buffers as identifiers
NoBuffer == 0
NoData == <<>>
Empty == [size |-> 0, data |-> NoData]

NoEntry == [own |-> FALSE, tStamp |-> 0, isDeleted |-> FALSE]
Unused == [used |-> FALSE, offs |-> NoBuffer, db_entry |-> NoEntry, val_size |-> 0, descr_size |-> 0]

initialize_array_store ==
    [id_states |-> [v \in VarId |-> Unused],
     freeList |-> [b \in Buffer |-> b],
     number_current_variables |-> 0,
     value_buffer |-> [b \in Buffer |-> NoData],
     description_buffer |-> [b \in Buffer |-> NoData]]

identifier_is_allocated(st, v) == st.id_states[v].used

AllocateThrows(st, v) == st.id_states[v].used \/ st.freeList = <<>>

allocate_identifier(st, v) ==
    [st EXCEPT !.freeList = Tail(@),
               !.number_current_variables = @ + 1,
               !.id_states[v].used = TRUE, !.id_states[v].offs = Head(st.freeList)]

set_db_entry(st, v, entry) == [st EXCEPT !.id_states[v].db_entry = entry]

get_db_entry(st, v) == st.id_states[v].db_entry

\* A value or a description is a record of its size and what it consists of.
UpdateThrows(st, v, new) == ~ st.id_states[v].used \/ new.size = 0

update_value(st, v, new) ==
    [st EXCEPT !.value_buffer[st.id_states[v].offs] = new.data,
               !.id_states[v].val_size = new.size]

update_description(st, v, new) ==
    [st EXCEPT !.description_buffer[st.id_states[v].offs] = new.data,
               !.id_states[v].descr_size = new.size]

read_value(st, v) ==
    [size |-> st.id_states[v].val_size, data |-> st.value_buffer[st.id_states[v].offs]]

read_description(st, v) ==
    [size |-> st.id_states[v].descr_size,
     data |-> st.description_buffer[st.id_states[v].offs]]

InUse(st) == {v \in VarId : st.id_states[v].used}

=============================================================================

---------------------------- MODULE CommandSocket ----------------------------
(***************************************************************************)
(* The command socket of a daemon (class CommandSocket) and the client side *)
(* of it (ScopedClientSocket).  Connections are numbered in the order in   *)
(* which they are made, which is the order in which they are accepted.  A  *)
(* client makes one at a time, writes one request and reads until the      *)
(* owner closes; it gives up when that takes too long, or because its      *)
(* process ends, and the owner finds out only when it reads or writes.     *)
(***************************************************************************)
EXTENDS Integers, Sequences

CONSTANTS
    Client,        \* processes that use the socket
    MaxConns       \* bound on the connections made

NoRequest == [s_type |-> "none"]
NoResponse == [s_type |-> "none"]
NoSocket == 0

VARIABLES
    the_command_socket,   \* whether the owner has the socket open
    data_socket,          \* the connection accepted last and not closed, or NoSocket
    accepted,             \* how many connections have been accepted
    conns                 \* the connections

socketVars == <<the_command_socket, data_socket, accepted, conns>>

SocketInit ==
    /\ the_command_socket = TRUE
    /\ data_socket = NoSocket
    /\ accepted = 0
    /\ conns = <<>>

\* What is left of a connection both ends of which are closed.
Finished(c) == [client |-> c, request |-> NoRequest, response |-> NoResponse, open |-> {}]

Connected(c) == {n \in 1 .. Len(conns) : conns[n].client = c /\ "client" \in conns[n].open}
Connection(c) == CHOOSE n \in Connected(c) : TRUE

CloseEnd(conn, end) ==
    IF conn.open \subseteq {end} THEN Finished(conn.client)
    ELSE [conn EXCEPT !.open = @ \ {end}]

(***************************************************************************)
(* The client.                                                             *)
(***************************************************************************)
open_client(c) ==
    /\ the_command_socket
    /\ Connected(c) = {} /\ Len(conns) < MaxConns
    /\ conns' = Append(conns, [client |-> c, request |-> NoRequest, response |-> NoResponse,
                               open |-> {"client", "owner"}])
    /\ UNCHANGED <<the_command_socket, data_socket, accepted>>

\* Only to a connection the owner still has; otherwise the write ends the client.
sendRequest(c, r) ==
    /\ Connected(c) # {} /\ conns[Connection(c)].request = NoRequest
    /\ "owner" \in conns[Connection(c)].open
    /\ conns' = [conns EXCEPT ![Connection(c)].request = r]
    /\ UNCHANGED <<the_command_socket, data_socket, accepted>>

\* The end of the response has been read.
ResponseRead(c) == Connected(c) # {} /\ "owner" \notin conns[Connection(c)].open

Response(c) == conns[Connection(c)].response

CloseClient(c) ==
    /\ Connected(c) # {}
    /\ conns' = [conns EXCEPT ![Connection(c)] = CloseEnd(@, "client")]
    /\ UNCHANGED <<the_command_socket, data_socket, accepted>>

(***************************************************************************)
(* The owner.                                                              *)
(***************************************************************************)
SocketInUse == data_socket # NoSocket

accept ==
    /\ ~ SocketInUse /\ accepted < Len(conns)
    /\ accepted' = accepted + 1
    /\ data_socket' = accepted'
    /\ UNCHANGED <<the_command_socket, conns>>

\* What read returns: a request, or the end when the client has gone without one.
HasRequest == SocketInUse /\ conns[data_socket].request # NoRequest
HasEnd == SocketInUse /\ ~ HasRequest /\ "client" \notin conns[data_socket].open

ClientListens == "client" \in conns[data_socket].open

send_confirmation(r) ==
    /\ conns' = [conns EXCEPT ![data_socket].response = r]
    /\ UNCHANGED <<the_command_socket, data_socket, accepted>>

\* Mutant of stop_read_command: the data socket stays open.
stop_read_command_open ==
    /\ conns' = [conns EXCEPT ![data_socket] = CloseEnd(@, "owner")]
    /\ UNCHANGED <<the_command_socket, data_socket, accepted>>

stop_read_command ==
    /\ conns' = [conns EXCEPT ![data_socket] = CloseEnd(@, "owner")]
    /\ data_socket' = NoSocket
    /\ UNCHANGED <<the_command_socket, accepted>>

\* Connections not yet accepted are gone; one accepted stays open until the process ends.
close_owner ==
    /\ the_command_socket' = FALSE
    /\ conns' = [n \in 1 .. Len(conns) |-> IF n > accepted THEN CloseEnd(conns[n], "owner")
                                           ELSE conns[n]]
    /\ UNCHANGED <<data_socket, accepted>>

\* The process of the owner ends.
OwnerGone ==
    /\ the_command_socket' = FALSE
    /\ data_socket' = NoSocket
    /\ conns' = [n \in 1 .. Len(conns) |-> CloseEnd(conns[n], "owner")]
    /\ UNCHANGED accepted

\* A new process listens at the same name; the old connections are history, and the one
\* the old process has left open has ended with it.
open_owner ==
    /\ the_command_socket' = TRUE
    /\ data_socket' = NoSocket
    /\ accepted' = Len(conns)
    /\ conns' = [n \in 1 .. Len(conns) |-> CloseEnd(conns[n], "owner")]

SocketTypeOK ==
    /\ the_command_socket \in BOOLEAN
    /\ data_socket \in 0 .. accepted
    /\ accepted \in 0 .. Len(conns) /\ Len(conns) <= MaxConns
    /\ \A n \in 1 .. Len(conns) : conns[n].client \in Client
                                  /\ conns[n].open \subseteq {"client", "owner"}

=============================================================================

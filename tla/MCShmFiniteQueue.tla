-------------------------- MODULE MCShmFiniteQueue --------------------------
(***************************************************************************)
(* The ways in which the daemons and the client libraries use the queues,  *)
(* one with handlers that throw, and four that mix the operations, two of  *)
(* them with several processes at one end.                                 *)
(***************************************************************************)
EXTENDS ShmFiniteQueue, TLC

CONSTANTS p1, p2, p3

Use(a, b, c) == (p1 :> a) @@ (p2 :> b) @@ (p3 :> c)

\* Received payloads: receiver of BP, client.  Requests: client, Vardis daemon.
Indications == Use({"push_wait"}, {"pop_wait", "pop_nowait"}, {})
Requests    == Use({"push_wait"}, {"popall_nowait"}, {})

\* The same with every operation of a reader.
Reader == Use({"push_wait", "push_nowait"}, {"pop_wait", "popall_wait", "peek_wait",
                                             "peek_nowait"}, {})

\* Handlers at both ends that may throw.
Failing == Use({"push_wait", "fail"},
               {"popall_nowait", "pop_nowait", "peek_nowait", "fail"}, {})

\* Confirms: Vardis daemon, client, which resets the queue before a request.
Confirms == Use({"push_nowait"}, {"reset", "pop_wait"}, {})

\* Payloads to be sent: client, transmitter of BP, management of BP, for the
\* queueing modes DROPTAIL (and Vardis), DROPHEAD, ONCE and REPEAT.
DropTail == Use({"push_wait"}, {"pop_nowait"}, {"reset"})
DropHead == Use({"push_wait_force"}, {"pop_nowait"}, {"reset"})
Once     == Use({"reset", "push_wait"}, {"pop_nowait"}, {"reset"})
Repeat   == Use({"reset", "push_wait"}, {"peek_nowait"}, {"reset"})

Anything == Use({"push_wait_force"}, {"popall_wait", "peek_wait", "reset"}, {})

ManyReaders == Use({"push_wait"}, {"pop_wait"}, {"peek_wait"})
ManyWriters == Use({"push_wait"}, {"push_wait"}, {"pop_nowait"})

MCUsages == {Indications, Requests, Reader, Failing, Confirms, DropTail, DropHead, Once,
             Repeat, Anything, ManyReaders, ManyWriters}

=============================================================================

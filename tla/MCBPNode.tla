------------------------------ MODULE MCBPNode ------------------------------
(***************************************************************************)
(* Two client protocols, an operator, and what they do with the daemon.    *)
(***************************************************************************)
EXTENDS BPNode, TLC

MCProtocol == {1, 2}
MCClient == {0, 1, 2}

Ask(t) == [s_type |-> t]
About(t, p) == [s_type |-> t, protocolId |-> p]
Payload(p, n) == [protocolId |-> p, length |-> n]
Beacon(h, n, d, pl) == [header |-> h, length |-> n, data |-> d, payloads |-> pl]

\* A beacon for both clients, one for a protocol nobody has registered, one that announces
\* more payloads than it has room for, one with a payload of no bytes, one that makes the
\* receiver wait.
Both      == Beacon("good", 4, 4, <<Payload(1, 1), Payload(2, 1)>>)
Unknown   == Beacon("good", 4, 6, <<Payload(3, 1), Payload(1, 1)>>)
Truncated == Beacon("good", 3, 4, <<Payload(2, 1), Payload(1, 1)>>)
Malformed == Beacon("malformed", 2, 2, <<Payload(1, 1)>>)
Empty     == Beacon("good", 4, 4, <<Payload(1, 1), Payload(1, 0)>>)
Twice     == Beacon("good", 4, 4, <<Payload(1, 1), Payload(1, 1)>>)
Overlong  == Beacon("good", 3, 2, <<Payload(1, 1)>>)

Use(clients, leaving, modes, sizes, entries, payloads, beacons, requests, packets, faults) ==
    [clients |-> clients, leaving |-> leaving, mode |-> modes, size |-> sizes, entries |-> entries,
     payloads |-> payloads, beacons |-> beacons, requests |-> requests, packets |-> packets,
     faults |-> faults]

Queues == <<"QUEUE_DROPHEAD", "QUEUE_DROPTAIL">>

Send    == Use({1, 2}, {}, Queues, <<1, 1>>, <<1, 2>>, 2, 0, {}, {}, {})
End     == Use({0, 1}, {1}, Queues, <<1, 1>>, <<1, 2>>, 2, 0, {Ask("ShutDown")}, {}, {})
Receive == Use({1, 2}, {}, Queues, <<1, 1>>, <<1, 1>>, 0, 2, {}, {Both, Unknown, Truncated, Malformed}, {})
Once    == Use({0, 1}, {}, <<"ONCE", "ONCE">>, <<1, 1>>, <<1, 1>>, 2, 0,
               {Ask("Activate"), Ask("Deactivate"), About("ClearBuffer", 1)}, {}, {})
Repeat  == Use({0, 1}, {}, <<"REPEAT", "ONCE">>, <<1, 1>>, <<1, 1>>, 2, 0,
               {Ask("Activate"), Ask("Deactivate"), About("ClearBuffer", 1)}, {}, {})
TooMuch == Use({1, 2}, {}, <<"QUEUE_DROPHEAD", "ONCE">>, <<2, 2>>, <<1, 0>>, 1, 1, {},
               {Overlong, Empty}, {})
Refused == Use({0, 1, 2}, {}, Queues, <<1, 9>>, <<0, 4>>, 1, 0,
               {Ask("GetStatistics"), Ask("ListRegisteredProtocols")}, {}, {})
TooLong == Use({1, 2}, {}, Queues, <<0, 1>>, <<1, 4>>, 1, 0, {}, {}, {})
Gone    == Use({0, 1}, {1}, <<"QUEUE_DROPHEAD", "ONCE">>, <<1, 1>>, <<1, 1>>, 0, 0,
               {About("QueryNumberBufferedPayloads", 1)}, {}, {"client_gives_up"})
Stuck   == Use({0, 1}, {}, <<"QUEUE_DROPHEAD", "ONCE">>, <<1, 1>>, <<1, 1>>, 1, 0,
               {About("QueryNumberBufferedPayloads", 1)}, {}, {"client_dies_in_queue"})
Held    == Use({1}, {}, <<"ONCE", "ONCE">>, <<1, 1>>, <<1, 1>>, 0, 1,
               {}, {Both}, {"client_dies_in_queue"})
Again   == Use({0, 1}, {}, <<"ONCE", "ONCE">>, <<1, 1>>, <<1, 1>>, 0, 0, {Ask("ShutDown")}, {},
               {"daemon_restarts"})
Early   == Use({1}, {}, <<"QUEUE_DROPTAIL", "ONCE">>, <<1, 1>>, <<2, 1>>, 2, 2, {}, {Twice, Empty},
               {"early_wakeups"})

MCScenarios == {Send, End, Receive, Once, Repeat, TooMuch, Refused, TooLong, Gone, Stuck, Held,
                Again, Early}

=============================================================================

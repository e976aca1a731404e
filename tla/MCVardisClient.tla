--------------------------- MODULE MCVardisClient ---------------------------
(***************************************************************************)
(* Two applications and an operator, and what they do with the daemon.     *)
(***************************************************************************)
EXTENDS VardisClient, TLC

MCClient == {0, 1, 2}
MCVarId == {1, 2}
MCName == {1, 2}

Ask(t) == [s_type |-> t]
AskAbout(v) == [s_type |-> "DescribeVariable", varId |-> v]
Do(op, v, d, n) == [op |-> op, varId |-> v, descr |-> d, size |-> n]
Create(v) == Do("Create", v, 1, 1)
Write(v) == Do("Update", v, 1, 1)
Delete(v) == Do("Delete", v, 1, 1)
Read(v) == Do("Read", v, 1, 1)

Use(clients, leaving, names, old, calls, requests, number, lives, others, faults) ==
    [clients |-> clients, leaving |-> leaving,
     name |-> [c \in MCClient |-> IF c = 0 THEN 0 ELSE names[c]],
     delete_old |-> old,
     calls |-> [c \in MCClient |-> IF c = 0 THEN {} ELSE calls[c]],
     requests |-> [c \in MCClient |-> IF c = 0 THEN requests ELSE {}],
     number |-> number, lives |-> lives, others |-> others, faults |-> faults]

\* Two applications share a variable; a variable of another node is in the way.
Share == Use({1, 2}, {}, <<1, 2>>, {}, <<{Create(1), Write(1)}, {Read(1), Delete(1)}>>, {}, 3, 1,
             {}, {})
Other == Use({1, 2}, {}, <<1, 2>>, {}, <<{Read(2)}, {Create(2), Delete(2), Write(2)}>>,
             {}, 3, 1, {2}, {})
\* Wrong requests, of which one ends the daemon.
Wrong == Use({1, 2}, {}, <<1, 2>>, {}, <<{Do("Create", 1, 1, 0), Do("Create", 1, 0, 1), Create(1),
                                          Do("Update", 1, 1, 0)}, {Read(1)}>>, {}, 3, 1, {}, {})
\* The operator and its requests.
Operate == Use({0, 1}, {1}, <<1, 2>>, {}, <<{Create(1)}, {}>>,
               {Ask("Activate"), Ask("Deactivate"), Ask("Shutdown")}, 2, 1, {}, {"timeouts"})
Describe == Use({0, 1}, {}, <<1, 2>>, {}, <<{Create(1), Read(1)}, {}>>,
                {Ask("GetStatistics"), Ask("DescribeDatabase"), AskAbout(1)}, 2, 1, {}, {})
\* One name for two applications, the second of which takes it, or not.
Take  == Use({1, 2}, {1, 2}, <<1, 1>>, {2}, <<{Create(1)}, {Create(1), Write(1)}>>, {}, 2, 1, {},
             {"timeouts"})
Taken == Use({1, 2}, {1}, <<1, 1>>, {}, <<{Create(1)}, {Create(1)}>>, {}, 2, 1, {}, {})
\* An application ends and is started again.
Again == Use({1}, {1}, <<1, 1>>, {1}, <<{Create(1), Read(1)}, {}>>, {}, 2, 2, {}, {"client_gives_up"})
Stuck == Use({1, 2}, {}, <<1, 2>>, {}, <<{Create(1)}, {Create(2), Write(2)}>>, {}, 2, 1, {},
             {"client_dies_in_queue"})
Held  == Use({1, 2}, {}, <<1, 2>>, {}, <<{Create(1)}, {Read(1)}>>, {}, 2, 1, {}, {"client_dies_reading"})

MCScenarios == {Share, Other, Wrong, Operate, Describe, Take, Taken, Again, Stuck, Held}

=============================================================================

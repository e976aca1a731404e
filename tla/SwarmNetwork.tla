----------------------------- MODULE SwarmNetwork -----------------------------
(***************************************************************************)
(* The network of the published simulations                                *)
(* (src/simulation-code-paper/srp_vardis): on each node a BasicApplication *)
(* that produces one variable, RTDB, SRP, SRPVarDisBeaconing, which puts   *)
(* the beacons of the two together, and LocalBroadcastProtocol.            *)
(*                                                                         *)
(* Messages between the modules of a node take no simulated time: a timer  *)
(* and what follows from it at once is one step.  Between LBP and its      *)
(* counterparts are the queue of the MAC and a medium that loses packets.  *)
(***************************************************************************)
EXTENDS RTDB

CONSTANTS
    Scenarios,          \* the networks and what happens in them
    InitBeaconLen,      \* bytes of a beacon without the part of RTDB
    StaleDataTimeout,   \* staleDataTimeout of SRP, in units of its sampling period
    MaxTime,            \* bound on the clock, in any scenario
    MaxBacklog,         \* bound on the beacons in the queue of the MAC
    MaxHeard            \* bound on the beacons of a node between two of another, 2

Scenario ==
    [nodes : SUBSET NodeId, links : SUBSET (NodeId \X NodeId),
     variable : [NodeId -> VarId],  \* variableID
     producers : SUBSET NodeId,     \* the nodes whose application has one
     repCnt : RepCnt,
     updates : Nat,                 \* how often each variable is updated
     losses : Nat,                  \* how many receptions of a beacon fail
     srpEnabled : BOOLEAN,
     time : Nat]

ASSUME NetworkAssumption ==
    /\ Value = Nat                  \* the number of updates when it was written
    /\ InitBeaconLen \in Nat /\ StaleDataTimeout \in Nat
    /\ MaxTime \in Nat /\ MaxBacklog \in Nat \ {0} /\ MaxHeard \in Nat \ {0}
    /\ Scenarios \subseteq Scenario
    /\ \A s \in Scenarios :
          /\ s.time <= MaxTime /\ s.repCnt <= MaxRepetitions
          /\ \A n, m \in s.producers : s.variable[n] = s.variable[m] => n = m

VARIABLES
    rtdb,               \* the data of RTDB of each node
    mac,                \* the beacons waiting for transmission
    heard,              \* the beacons a node has made since another made its last one
    mobInfoTimestamp,   \* when SRP of a node has sampled its position last
    neighbourData,      \* what SRP knows of the neighbours
    threw,              \* the nodes that have met a cRuntimeError, which ends the simulation
    losses,             \* receptions that have failed
    now,                \* the clock
    scenario            \* constant

vars == <<rtdb, mac, heard, mobInfoTimestamp, neighbourData, threw, losses, now, scenario>>

\* mobInfoTimestamp where there is no SRP.
NoReport == -1

Init ==
    /\ rtdb = [n \in NodeId |-> NoData]
    /\ mac = [n \in NodeId |-> <<>>]
    /\ heard = [n \in NodeId |-> [m \in NodeId |-> 0]]
    /\ scenario \in Scenarios
    /\ mobInfoTimestamp = [n \in NodeId |-> IF scenario.srpEnabled THEN 0 ELSE NoReport]
    /\ neighbourData = [n \in NodeId |-> [m \in {} |-> {}]]
    /\ threw = {} /\ losses = 0 /\ now = 0

Node == scenario.nodes
Neighbours(n) == {m \in Node : <<n, m>> \in scenario.links}
Variable(n) == scenario.variable[n]

(***************************************************************************)
(* The application.  It creates its variable and updates it; if a request  *)
(* is refused, it throws.                                                  *)
(***************************************************************************)
HandleResponse(n, code) == threw' = IF code = "RC_OK" THEN threw ELSE threw \cup {n}

CreateVariable(n) ==
    /\ n \in scenario.producers /\ ~ Known(rtdb[n], Variable(n))
    /\ rtdb' = [rtdb EXCEPT ![n] = handleAPICreateReq(@, n, Variable(n), scenario.repCnt, 0)]
    /\ HandleResponse(n, CreateCode(rtdb[n], Variable(n), scenario.repCnt))
    /\ UNCHANGED <<mac, heard, mobInfoTimestamp, neighbourData, losses, now, scenario>>

UpdateVariable(n) ==
    /\ n \in scenario.producers /\ Known(rtdb[n], Variable(n))
    /\ LET val == rtdb[n].db[Variable(n)].val
       IN  /\ val < scenario.updates
           /\ rtdb' = [rtdb EXCEPT ![n] = handleAPIUpdateReq(@, n, Variable(n), val + 1)]
    /\ HandleResponse(n, UpdateCode(rtdb[n], n, Variable(n)))
    /\ UNCHANGED <<mac, heard, mobInfoTimestamp, neighbourData, losses, now, scenario>>

(***************************************************************************)
(* SRP: own position and table of the neighbours.                          *)
(***************************************************************************)
SamplePosition(n) ==
    /\ scenario.srpEnabled /\ mobInfoTimestamp[n] < now
    /\ mobInfoTimestamp' = [mobInfoTimestamp EXCEPT ![n] = now]
    /\ UNCHANGED <<rtdb, mac, heard, neighbourData, threw, losses, now, scenario>>

CollectGarbage(n) ==
    LET fresh == {m \in DOMAIN neighbourData[n] : now <= neighbourData[n][m].expiration}
    IN  /\ fresh # DOMAIN neighbourData[n]
        /\ neighbourData' = [neighbourData EXCEPT ![n] = [m \in fresh |-> @[m]]]
        /\ UNCHANGED <<rtdb, mac, heard, mobInfoTimestamp, threw, losses, now, scenario>>

\* The table t after a report of node m has come in.
ReportReceived(t, m, timestamp) ==
    With(t, m, [dataTimestamp |-> timestamp, expiration |-> now + StaleDataTimeout])

(***************************************************************************)
(* Beacons.                                                                *)
(***************************************************************************)
\* The period has a jitter of ten per cent: a node makes no third beacon between two of
\* another.
MayGenerate(n) ==
    /\ Len(mac[n]) < MaxBacklog
    /\ \A m \in Node \ {n} : heard[m][n] < MaxHeard

Heard(n) ==
    [m \in NodeId |-> [k \in NodeId |->
        IF m = n \/ m \notin Node THEN 0
        ELSE IF k = n THEN heard[m][n] + 1 ELSE heard[m][k]]]

\* RTDB checks the size of what it has put together.  A beacon without a part of RTDB is not
\* sent, and the report of SRP in it neither.
HandleGenerateBeacon(n) ==
    /\ MayGenerate(n)
    /\ LET made == constructBeacon(rtdb[n], InitBeaconLen)
           empty == made.beacon = EmptyBeacon
       IN  /\ rtdb' = [rtdb EXCEPT ![n] = made.data]
           /\ threw' = IF BeaconLen(made.beacon) + InitBeaconLen > MaxPacketSize
                       THEN threw \cup {n} ELSE threw
           /\ mac' = IF empty THEN mac
                     ELSE [mac EXCEPT ![n] = Append(@, [beacon |-> made.beacon,
                                                        report |-> mobInfoTimestamp[n]])]
    /\ heard' = Heard(n)
    /\ UNCHANGED <<mobInfoTimestamp, neighbourData, losses, now, scenario>>

\* A packet is on the air and reaches the nodes in receivers.  Packets that are too large
\* are ignored.
Transmit(n, receivers) ==
    /\ mac[n] # <<>>
    /\ mac' = [mac EXCEPT ![n] = Tail(@)]
    /\ losses' = losses + Cardinality(Neighbours(n) \ receivers)
    /\ losses' <= scenario.losses
    /\ LET p == Head(mac[n])
           gets(m) == m \in receivers /\ InitBeaconLen + BeaconLen(p.beacon) <= MaxPacketSize
       IN  /\ rtdb' = [m \in NodeId |->
                         IF gets(m) THEN processVarDisBeacon(rtdb[m], m, p.beacon) ELSE rtdb[m]]
           /\ neighbourData' = [m \in NodeId |->
                IF gets(m) /\ scenario.srpEnabled
                THEN ReportReceived(neighbourData[m], n, p.report) ELSE neighbourData[m]]
    /\ UNCHANGED <<heard, mobInfoTimestamp, threw, now, scenario>>

Tick ==
    /\ now < scenario.time
    /\ now' = now + 1
    /\ UNCHANGED <<rtdb, mac, heard, mobInfoTimestamp, neighbourData, threw, losses, scenario>>

Next ==
    \/ \E n \in Node : CreateVariable(n)
    \/ \E n \in Node : UpdateVariable(n)
    \/ \E n \in Node : SamplePosition(n)
    \/ \E n \in Node : CollectGarbage(n)
    \/ \E n \in Node : HandleGenerateBeacon(n)
    \/ \E n \in Node : \E receivers \in SUBSET Neighbours(n) : Transmit(n, receivers)
    \/ Tick

Spec == Init /\ [][Next]_vars

\* What HandleGenerateBeacon and Transmit do, as far as it tells them from other steps.
BeaconMade(n) == MayGenerate(n) /\ n \in Node /\ heard' = Heard(n)
PacketSent(n) == mac[n] # <<>> /\ mac' = [mac EXCEPT ![n] = Tail(@)]

\* The timers of the beacons run out again and again, and the MAC transmits.  Nothing is
\* assumed of the applications.
Fairness == \A n \in NodeId : WF_heard(BeaconMade(n)) /\ WF_mac(PacketSent(n))

FairSpec == Spec /\ Fairness

(***************************************************************************)
(* Properties.                                                             *)
(***************************************************************************)
\* No check fails that would end the simulation: each beacon has the size it may have,
\* no request of an application is refused.  The data keep to their types.
NeverThrows == threw = {} /\ \A n \in Node : WellTyped(rtdb[n])

\* The queues of a node agree with its database, and that with what the producer has
\* written: each value with its sequence number, and none that is still to come.
DatabasesCoherent ==
    \A n \in Node :
        /\ Coherent(rtdb[n])
        /\ \A m \in scenario.producers :
              LET v == Variable(m)
              IN  Known(rtdb[n], v) =>
                    /\ Known(rtdb[m], v) /\ rtdb[n].db[v].val <= rtdb[m].db[v].val
                    /\ rtdb[n].db[v].seqNo = 1 + (rtdb[n].db[v].val % (SeqnoModulus - 1))

\* No node forgets a variable or goes back to an older value, whatever old records
\* neighbours repeat.
NeverBackwards ==
    [][\A n \in Node : \A v \in DOMAIN rtdb[n].db :
         Known(rtdb'[n], v) /\ rtdb'[n].db[v].val >= rtdb[n].db[v].val]_vars

\* All nodes get the value of a variable, and each update of it, however many beacons are
\* lost; and nodes with a variable become known to their neighbours.
EveryoneInformed ==
    /\ \A n \in NodeId :
          (n \in scenario.producers /\ Known(rtdb[n], Variable(n))) ~>
             (\A m \in Node : /\ Known(rtdb[m], Variable(n))
                              /\ rtdb[m].db[Variable(n)].val = rtdb[n].db[Variable(n)].val)
    /\ \A n, m \in NodeId :
          (scenario.srpEnabled /\ DOMAIN rtdb[n].db # {} /\ m \in Neighbours(n)) ~>
             (n \in DOMAIN neighbourData[m])

=============================================================================

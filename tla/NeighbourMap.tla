---------------------------- MODULE NeighbourMap ----------------------------
(***************************************************************************)
(* What the neighbour table of SRP promises: a map from a bounded number   *)
(* of neighbours to the last record heard from each and the time of its    *)
(* reception, from which only neighbours silent for the timeout disappear. *)
(***************************************************************************)
EXTENDS Integers, FiniteSets, Functions

CONSTANTS Neighbour, Record, Timeout

VARIABLES known, clock, room

MapInit == known = << >> /\ clock = 0 /\ room \in Nat

\* A record of a neighbour: it replaces the last one, or takes up room.
Heard(map, n, r) ==
    [m \in DOMAIN map \cup {n} |-> IF m = n THEN [esd |-> r, heard |-> clock] ELSE map[m]]

Hear ==
    \E n \in Neighbour, map \in {known} :
        /\ n \in DOMAIN map \/ Cardinality(DOMAIN map) < room
        /\ known' \in {Heard(map, n, r) : r \in {x \in Record : x.nodeId = n}}

Forget ==
    \E map \in {known} :
        known' \in {Restrict(map, DOMAIN map \ {n}) :
                        n \in {m \in DOMAIN map : clock - map[m].heard >= Timeout}}

Pass == clock' > clock /\ UNCHANGED known

MapNext == UNCHANGED room /\ (Pass \/ (UNCHANGED clock /\ (Hear \/ Forget)))

MapSpec == MapInit /\ [][MapNext]_<<known, clock, room>>

=============================================================================

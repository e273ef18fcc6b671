----------------------------- MODULE MCHandshake -----------------------------
(* Instances of Handshake for TLC: up to three nodes.                        *)
EXTENDS Handshake

CONSTANTS n1, n2, n3, c1, c2, c3, a1, a2, a3, d1, d2, d3, v1, v2

MCNodeOf == [t \in Task |-> IF t \in {c1, c3, a1} THEN n1
                            ELSE IF t \in {c2, a2} THEN n2 ELSE n3]

(* n1 connects to itself and, twice at a time, to n2; n2 to n1 and to n3.   *)
Mixed == [t \in Connectors |-> CASE t = c1 -> {n1, n2}
                                 [] t = c2 -> {n1, n3}
                                 [] t = c3 -> {n2}]
(* n1 connects to n2, twice at a time, and n2 to n1.                        *)
Crossed == [t \in Connectors |-> IF t = c2 THEN {n1} ELSE {n2}]
(* n1 connects to n2.                                                       *)
One == [t \in Connectors |-> {n2}]
(* n1 connects to the others.                                               *)
Star == [t \in Connectors |-> {n2, n3}]

OwnDesignator == [n \in Nodes |-> IF n = n1 THEN d1 ELSE IF n = n2 THEN d2 ELSE d3]
(* Three TCP nodes of which the last two share an IP address.               *)
IpDesignator == [n \in Nodes |-> IF n = n1 THEN d1 ELSE d2]

OneVersion == [n \in Nodes |-> v1]
(* n3 was built with another version.                                       *)
TwoVersions == [n \in Nodes |-> IF n = n3 THEN v2 ELSE v1]
=============================================================================

------------------------------ MODULE MCSession ------------------------------
(* Instances of Session for TLC: one session between the peers a and b.      *)
EXTENDS Session, TLC

CONSTANTS a, b, c1, c3, r1, r2, r3

MCRemote == [p \in Peers |-> IF p = a THEN b ELSE a]
MCPeerOf == [t \in Task |-> IF t \in {c1, r1} THEN a ELSE b]

(* The receivers at b are alike.                                            *)
Alike == Permutations({r2, r3})

(* What each end sends in the runs.                                         *)
AbortMenu == [p \in Peers |-> IF p = a THEN {"abort", "deliver"} ELSE {"abort"}]
LiveMenu ==
    [p \in Peers |-> IF p = a THEN {"fetch_symbol", "unknown", "abort"}
                     ELSE {"deliver", "abort"}]
AskMenu == [p \in Peers |-> IF p = a THEN {"deliver_and", "fetch"} ELSE {}]
=============================================================================

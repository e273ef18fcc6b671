------------------------------ MODULE MCFraming ------------------------------
(* Instances of Framing for TLC.                                             *)
EXTENDS Framing

CONSTANTS w1, w2, short, long, huge

MCLength == [m \in Messages |-> CASE m = short -> 1 [] m = long -> 2 [] m = huge -> 4]
MCMenu == [w \in Writers |-> IF w = w1 THEN {short, long} ELSE {short, huge}]
=============================================================================

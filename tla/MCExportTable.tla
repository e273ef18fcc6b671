---------------------------- MODULE MCExportTable ----------------------------
(* Instances of ExportTable for TLC.                                        *)
EXTENDS ExportTable

CONSTANTS e1, e2, r1, r2, o1, o2, s1, s2

(* Neighbouring keys hash to different shards, every second key collides.   *)
MCShardOf == [k \in Keys |-> IF k % 2 = 0 THEN s1 ELSE s2]
=============================================================================

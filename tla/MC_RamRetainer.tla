---------------------------- MODULE MC_RamRetainer ----------------------------
EXTENDS RamRetainer, TLC

CONSTANTS w1, w2, t1, t2, t3, t4, v1, v2, v3

\* v1 and v3 (exactly at the limit) fit max_payload_size 2; v2 does not.
MCPayloadLen == (v1 :> 1) @@ (v2 :> 3) @@ (v3 :> 2)
=============================================================================

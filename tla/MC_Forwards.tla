----------------------------- MODULE MC_Forwards -----------------------------
EXTENDS Forwards, TLC

CONSTANTS n1, n2, s1, s2, s3, p1, p2

MCNode == {n1, n2}
MCSub == {s1, s2, s3}
MCSubNode == (s1 :> n1) @@ (s2 :> n2) @@ (s3 :> n2)
MCPub == {p1, p2}
MCOrigin == (p1 :> n1) @@ (p2 :> n2)
MCMatched == (p1 :> {s1, s2, s3}) @@ (p2 :> {s1})
=============================================================================

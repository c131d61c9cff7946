------------------------- MODULE MC_ClusterSession --------------------------
(* TLC instance: two nodes, three connection attempts of one client id,   *)
(* two accepted by node n1 and one by node n2.                            *)
EXTENDS ClusterSession, TLC

CONSTANTS n1, n2, c1, c2, c3

MCNode == {n1, n2}
MCConn == {c1, c2, c3}
MCNodeOf == (c1 :> n1) @@ (c2 :> n2) @@ (c3 :> n1)

=============================================================================

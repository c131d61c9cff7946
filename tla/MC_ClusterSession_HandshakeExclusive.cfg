\* Best case for the protocol: every Kick RPC is answered and no
\* handshaking mark expires; TLC still finds HandshakeExclusive violated.
CONSTANTS
    n1 = n1  n2 = n2  c1 = c1  c2 = c2  c3 = c3  None = None
    Node <- MCNode
    Conn <- MCConn
    NodeOf <- MCNodeOf
    Leader = n1
    RpcTimeouts = FALSE
    LockExpires = FALSE
SPECIFICATION Spec
INVARIANT HandshakeExclusive

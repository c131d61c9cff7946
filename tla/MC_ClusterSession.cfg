\* Ownership protocol with every failure the code meets: Kick RPCs may time
\* out (and be handled late), and handshaking marks may outlive
\* try_lock_timeout.
CONSTANTS
    n1 = n1  n2 = n2  c1 = c1  c2 = c2  c3 = c3  None = None
    Node <- MCNode
    Conn <- MCConn
    NodeOf <- MCNodeOf
    Leader = n1
    RpcTimeouts = TRUE
    LockExpires = TRUE
SPECIFICATION Spec
INVARIANT TypeOK
INVARIANT LiveOwnerOnline
INVARIANT LockHeldByHandshake
INVARIANT SlotConnectedLive

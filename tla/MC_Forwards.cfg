CONSTANTS
    n1 = n1
    n2 = n2
    s1 = s1
    s2 = s2
    s3 = s3
    p1 = p1
    p2 = p2
    Node <- MCNode
    Sub <- MCSub
    SubNode <- MCSubNode
    Pub <- MCPub
    Origin <- MCOrigin
    Matched <- MCMatched
    Lossy = FALSE
    RouterFails = FALSE
SPECIFICATION Spec
INVARIANT TypeOK
PROPERTY Forwarded

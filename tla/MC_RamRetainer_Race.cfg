\* Two tasks publishing retained messages at once.
CONSTANTS
    w1 = w1
    w2 = w2
    t1 = t1
    t2 = t2
    t3 = t3
    t4 = t4
    v1 = v1
    v2 = v2
    v3 = v3
    None = None
    Setter = {w1, w2}
    Topic = {t1, t2, t3, t4}
    Val = {v1, v2, v3}
    PayloadLen <- MCPayloadLen
    MaxRetained = 2
    MaxPayload = 2
    RetainEnable = TRUE
SPECIFICATION Spec
INVARIANT CountWithinLimit

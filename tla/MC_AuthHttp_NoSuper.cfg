CONSTANTS
    c1 = c1
    c2 = c2
    c3 = c3
    t1 = t1
    t2 = t2
    Conn = {c1, c2, c3}
    Topic = {t1, t2}
    Configs <- MCAllConfigs
    SuperDecision <- MCNoSuperDecision
    AuthDecision <- MCAuthDecision
    AclDecision <- MCAclDecision
SPECIFICATION Spec
INVARIANT AuthChecked

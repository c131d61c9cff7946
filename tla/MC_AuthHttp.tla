---------------------------- MODULE MC_AuthHttp ----------------------------
EXTENDS AuthHttp, TLC

CONSTANTS c1, c2, c3, t1, t2

\* c1 is no super and has good credentials; c2 is a super with bad ones;
\* c3 is neither.
MCSuperDecision == (c1 :> "deny") @@ (c2 :> "ignore") @@ (c3 :> "deny")
\* Neither c1 nor c2 is a super.
MCNoSuperDecision == [c \in {c1, c2, c3} |-> "deny"]
MCAuthDecision == (c1 :> "allow") @@ (c2 :> "deny") @@ (c3 :> "deny")

\* c1 may publish to t1 (cached) and subscribe to t1 and t2, not publish to t2.
MCAclDecision ==
    (c1 :> [k \in Key |-> IF k = <<"pub", t2>> THEN "deny"
                          ELSE IF k[2] = t1 THEN "ignore" ELSE "allow"])
    @@ [c \in {c2, c3} |-> [k \in Key |-> "deny"]]

\* http_super_req set, with all requests or with the super request alone.
MCSuperConfigs == {[super |-> TRUE, auth |-> b, acl |-> b] : b \in BOOLEAN}

\* Every configuration.
MCAllConfigs == Config
=============================================================================

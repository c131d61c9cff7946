--------------------------- MODULE AuthHttpProofs ---------------------------
(***************************************************************************)
(* Proofs about the HTTP auth/ACL plugin for every set of connections and  *)
(* topics and every answer of the HTTP servers: the type invariant, that   *)
(* the cache never allows an ACL check the server did not (AclSound), and  *)
(* that a configured auth request is never skipped while http_super_req   *)
(* is configured (AuthChecked).                                            *)
(***************************************************************************)
EXTENDS AuthHttp, TLAPS

USE AuthHttpAssumption

-----------------------------------------------------------------------------
(* Type correctness.                                                       *)

\* The entry of c after or_default() and an update is still an entry.
LEMMA UpsertType ==
    ASSUME TypeOK, NEW c \in Conn, NEW e \in Entry
    PROVE  /\ DOMAIN Upsert(c, e) \subseteq Conn
           /\ \A x \in DOMAIN Upsert(c, e) : Upsert(c, e)[x] \in Entry
BY DEF Upsert, TypeOK

\* What or_default() returns is an entry, and so are its two updates.
LEMMA OrDefaultType ==
    ASSUME TypeOK, NEW c \in Conn
    PROVE  /\ OrDefault(c) \in Entry
           /\ [OrDefault(c) EXCEPT !.isSuper = TRUE] \in Entry
           /\ \A k \in Key : [OrDefault(c) EXCEPT !.ignores = @ \cup {k}] \in Entry
BY DEF OrDefault, EmptyEntry, Entry, TypeOK

LEMMA InitTypeOK == Init => TypeOK
BY DEF Init, TypeOK, State

LEMMA NextTypeOK == TypeOK /\ [Next]_vars => TypeOK'
<1> SUFFICES ASSUME TypeOK, [Next]_vars PROVE TypeOK'
    OBVIOUS
<1>1. ASSUME NEW c \in Conn, Authenticate(c) PROVE TypeOK'
    <2>1. cfg.auth \in BOOLEAN
        BY DEF TypeOK, Config
    <2>2. st' \in [Conn -> State]
        BY <1>1 DEF Authenticate, TypeOK, State
    <2>3. authOK' \subseteq Conn \X BOOLEAN
        BY <1>1, <2>1 DEF Authenticate, TypeOK
    <2>. QED
        BY <1>1, <2>2, <2>3 DEF Authenticate, TypeOK
<1>2. ASSUME NEW c \in Conn, NEW a \in Answer, SuperReply(c, a) PROVE TypeOK'
    <2>1. cfg.auth \in BOOLEAN
        BY DEF TypeOK, Config
    <2>2. st' \in [Conn -> State]
        BY <1>2 DEF SuperReply, TypeOK, State
    <2>3. authOK' \subseteq Conn \X BOOLEAN
        BY <1>2, <2>1 DEF SuperReply, TypeOK
    <2>4. DOMAIN cache' \subseteq Conn /\ \A x \in DOMAIN cache' : cache'[x] \in Entry
        <3>1. CASE a = "ignore"
            <4>1. [OrDefault(c) EXCEPT !.isSuper = TRUE] \in Entry
                BY OrDefaultType
            <4>2. cache' = Upsert(c, [OrDefault(c) EXCEPT !.isSuper = TRUE])
                BY <1>2, <3>1 DEF SuperReply
            <4>. QED
                BY <4>1, <4>2, UpsertType
        <3>2. CASE a # "ignore"
            BY <1>2, <3>2 DEF SuperReply, TypeOK
        <3>. QED
            BY <3>1, <3>2
    <2>. QED
        BY <1>2, <2>2, <2>3, <2>4 DEF SuperReply, TypeOK
<1>3. ASSUME NEW c \in Conn, NEW a \in Answer, AuthReply(c, a) PROVE TypeOK'
    <2>2. st' \in [Conn -> State]
        BY <1>3 DEF AuthReply, TypeOK, State
    <2>3. authOK' \subseteq Conn \X BOOLEAN
        <3>1. authOK' = authOK \/ authOK' = authOK \cup {<<c, TRUE>>}
            BY <1>3 DEF AuthReply
        <3>2. <<c, TRUE>> \in Conn \X BOOLEAN
            OBVIOUS
        <3>. QED
            BY <3>1, <3>2 DEF TypeOK
    <2>4. DOMAIN cache' \subseteq Conn /\ \A x \in DOMAIN cache' : cache'[x] \in Entry
        <3>1. CASE a = "ignore"
            <4>1. OrDefault(c) \in Entry
                BY OrDefaultType
            <4>2. cache' = Upsert(c, OrDefault(c))
                BY <1>3, <3>1 DEF AuthReply
            <4>. QED
                BY <4>1, <4>2, UpsertType
        <3>2. CASE a # "ignore"
            BY <1>3, <3>2 DEF AuthReply, TypeOK
        <3>. QED
            BY <3>1, <3>2
    <2>. QED
        BY <1>3, <2>2, <2>3, <2>4 DEF AuthReply, TypeOK
<1>4. ASSUME NEW c \in Conn, HandshakeEnd(c) PROVE TypeOK'
    BY <1>4 DEF HandshakeEnd, TypeOK, State
<1>5. ASSUME NEW c \in Conn, NEW k \in Key, AclCheck(c, k) PROVE TypeOK'
    BY <1>5 DEF AclCheck, TypeOK
<1>6. ASSUME NEW c \in Conn, NEW k \in Key, NEW a \in Answer, AclReply(c, k, a)
      PROVE TypeOK'
    <2>4. DOMAIN cache' \subseteq Conn /\ \A x \in DOMAIN cache' : cache'[x] \in Entry
        <3>1. CASE a = "ignore"
            <4>1. [OrDefault(c) EXCEPT !.ignores = @ \cup {k}] \in Entry
                BY OrDefaultType
            <4>2. cache' = Upsert(c, [OrDefault(c) EXCEPT !.ignores = @ \cup {k}])
                BY <1>6, <3>1 DEF AclReply
            <4>. QED
                BY <4>1, <4>2, UpsertType
        <3>2. CASE a # "ignore"
            BY <1>6, <3>2 DEF AclReply, TypeOK
        <3>. QED
            BY <3>1, <3>2
    <2>. QED
        BY <1>6, <2>4 DEF AclReply, TypeOK
<1>7. ASSUME NEW c \in Conn, Disconnected(c) PROVE TypeOK'
    BY <1>7 DEF Disconnected, Evict, TypeOK, State
<1>8. CASE LoadConfig
    BY <1>8 DEF LoadConfig, TypeOK
<1>9. CASE UNCHANGED vars
    BY <1>9 DEF vars, TypeOK
<1>10. ASSUME NEW p \in pending, NEW a \in Answer, AclReply(p[1], p[2], a)
       PROVE TypeOK'
    <2>1. p[1] \in Conn /\ p[2] \in Key
        BY DEF TypeOK
    <2>. QED
        BY <1>6, <1>10, <2>1
<1>. QED
    <2>1. \A c \in Conn : {SuperDecision[c], "deny"} \subseteq Answer
                          /\ {AuthDecision[c], "deny"} \subseteq Answer
        BY DEF Answer
    <2>2. \A p \in pending : {AclDecision[p[1]][p[2]], "deny"} \subseteq Answer
        BY DEF TypeOK, Answer
    <2>. QED
        BY <1>1, <1>2, <1>3, <1>4, <1>5, <1>7, <1>8, <1>9, <1>10, <2>1, <2>2
        DEF Next, Finished

(***************************************************************************)
(* Every reachable state of the plugin is well typed: cache_map only ever  *)
(* holds entries of CacheValue's shape, for connections.                   *)
(***************************************************************************)
THEOREM AuthTypeCorrect == Spec => []TypeOK
<1>1. Init => TypeOK
    BY InitTypeOK
<1>2. TypeOK /\ [Next]_vars => TypeOK'
    BY NextTypeOK
<1>. QED
    BY <1>1, <1>2, PTL DEF Spec

-----------------------------------------------------------------------------
(* The cache only repeats what the servers said.                           *)

\* Entry e of connection c says no more than the servers said of c.
EntryFromServer(c, e) ==
    /\ e.isSuper => SuperDecision[c] = "ignore"
    /\ \A k \in e.ignores : AclDecision[c][k] = "ignore"

\* Every entry's super flag and ignored keys came from an "ignore" answer.
CacheFromServer == \A c \in DOMAIN cache : EntryFromServer(c, cache[c])

AclInv == TypeOK /\ CacheFromServer /\ AclSound

\* or_default() returns an entry that says no more than the servers did.
LEMMA OrDefaultFromServer ==
    ASSUME CacheFromServer, NEW c
    PROVE  EntryFromServer(c, OrDefault(c))
BY DEF CacheFromServer, EntryFromServer, OrDefault, EmptyEntry

\* Setting an entry that says no more than the servers keeps the cache so.
LEMMA UpsertFromServer ==
    ASSUME CacheFromServer, NEW c, NEW e, EntryFromServer(c, e)
    PROVE  \A x \in DOMAIN Upsert(c, e) : EntryFromServer(x, Upsert(c, e)[x])
BY DEF CacheFromServer, Upsert

LEMMA InitAclInv == Init => AclInv
BY InitTypeOK DEF Init, AclInv, CacheFromServer, AclSound

LEMMA NextAclInv == AclInv /\ [Next]_vars => AclInv'
<1> SUFFICES ASSUME AclInv, [Next]_vars PROVE AclInv'
    OBVIOUS
<1>0. TypeOK /\ TypeOK' /\ CacheFromServer
    BY NextTypeOK DEF AclInv
<1> USE DEF AclInv
<1>1. ASSUME NEW c \in Conn, Authenticate(c) PROVE AclInv'
    BY <1>0, <1>1 DEF Authenticate, CacheFromServer, AclSound
<1>2. ASSUME NEW c \in Conn, NEW a \in {SuperDecision[c], "deny"}, SuperReply(c, a)
      PROVE AclInv'
    <2>1. CacheFromServer'
        <3>1. CASE a = "ignore"
            <4>1. SuperDecision[c] = "ignore"
                BY <3>1
            <4>2. EntryFromServer(c, [OrDefault(c) EXCEPT !.isSuper = TRUE])
                BY <1>0, <4>1, OrDefaultFromServer DEF EntryFromServer, OrDefault, EmptyEntry
            <4>3. cache' = Upsert(c, [OrDefault(c) EXCEPT !.isSuper = TRUE])
                BY <1>2, <3>1 DEF SuperReply
            <4>. QED
                BY <1>0, <4>2, <4>3, UpsertFromServer DEF CacheFromServer
        <3>2. CASE a # "ignore"
            BY <1>0, <1>2, <3>2 DEF SuperReply, CacheFromServer
        <3>. QED
            BY <3>1, <3>2
    <2>. QED
        BY <1>0, <1>2, <2>1 DEF SuperReply, AclSound
<1>3. ASSUME NEW c \in Conn, NEW a \in {AuthDecision[c], "deny"}, AuthReply(c, a)
      PROVE AclInv'
    <2>1. CacheFromServer'
        <3>1. CASE a = "ignore"
            <4>1. cache' = Upsert(c, OrDefault(c))
                BY <1>3, <3>1 DEF AuthReply
            <4>. QED
                BY <1>0, <4>1, OrDefaultFromServer, UpsertFromServer DEF CacheFromServer
        <3>2. CASE a # "ignore"
            BY <1>0, <1>3, <3>2 DEF AuthReply, CacheFromServer
        <3>. QED
            BY <3>1, <3>2
    <2>. QED
        BY <1>0, <1>3, <2>1 DEF AuthReply, AclSound
<1>4. ASSUME NEW c \in Conn, HandshakeEnd(c) PROVE AclInv'
    BY <1>0, <1>4 DEF HandshakeEnd, CacheFromServer, AclSound
<1>5. ASSUME NEW c \in Conn, NEW k \in Key, AclCheck(c, k) PROVE AclInv'
    <2>1. Cached(c, k) => Allows(AclDecision[c][k]) \/ SuperDecision[c] = "ignore"
        BY <1>0 DEF Cached, CacheFromServer, EntryFromServer, Allows
    <2>2. granted' = granted \/ (granted' = granted \cup {<<c, k>>} /\ Cached(c, k))
        BY <1>5 DEF AclCheck
    <2>. QED
        BY <1>0, <1>5, <2>1, <2>2 DEF AclCheck, CacheFromServer, AclSound
<1>6. ASSUME NEW p \in pending, NEW a \in {AclDecision[p[1]][p[2]], "deny"},
             AclReply(p[1], p[2], a)
      PROVE AclInv'
    <2> DEFINE c == p[1]
               k == p[2]
    <2>0. c \in Conn /\ k \in Key
        BY <1>0 DEF TypeOK
    <2>1. CacheFromServer'
        <3>1. CASE a = "ignore"
            <4>1. AclDecision[c][k] = "ignore"
                BY <3>1
            <4>2. EntryFromServer(c, [OrDefault(c) EXCEPT !.ignores = @ \cup {k}])
                BY <1>0, <2>0, <4>1, OrDefaultFromServer DEF EntryFromServer, OrDefault, EmptyEntry, TypeOK, Entry
            <4>3. cache' = Upsert(c, [OrDefault(c) EXCEPT !.ignores = @ \cup {k}])
                BY <1>6, <3>1 DEF AclReply
            <4>. QED
                BY <1>0, <4>2, <4>3, UpsertFromServer DEF CacheFromServer
        <3>2. CASE a # "ignore"
            BY <1>0, <1>6, <3>2 DEF AclReply, CacheFromServer
        <3>. QED
            BY <3>1, <3>2
    <2>2. AclSound'
        <3>1. Allows(a) => Allows(AclDecision[c][k])
            BY DEF Allows
        <3>2. granted' = granted \/ (granted' = granted \cup {<<c, k>>} /\ Allows(a))
            BY <1>6 DEF AclReply
        <3>. QED
            BY <3>1, <3>2 DEF AclSound
    <2>. QED
        BY <1>0, <2>1, <2>2
<1>7. ASSUME NEW c \in Conn, Disconnected(c) PROVE AclInv'
    BY <1>0, <1>7 DEF Disconnected, Evict, CacheFromServer, AclSound
<1>8. CASE LoadConfig
    BY <1>0, <1>8 DEF LoadConfig, CacheFromServer, AclSound
<1>9. CASE UNCHANGED vars
    BY <1>0, <1>9 DEF vars, CacheFromServer, AclSound
<1>. QED
    BY <1>1, <1>2, <1>3, <1>4, <1>5, <1>6, <1>7, <1>8, <1>9 DEF Next, Finished

(***************************************************************************)
(* Every SUBSCRIBE or PUBLISH the plugin allowed under http_acl_req was    *)
(* allowed by the ACL server, or its connection was declared super, for    *)
(* every set of connections and topics and every answer of the servers:    *)
(* the cache filled after an await (AclReply) and read by later checks     *)
(* (AclCheck) only repeats "ignore" answers of the same connection and     *)
(* key.  Needs CacheFromServer, which says exactly that of cache_map.      *)
(***************************************************************************)
THEOREM AclSafety == Spec => []AclSound
<1>1. Init => AclInv
    BY InitAclInv
<1>2. AclInv /\ [Next]_vars => AclInv'
    BY NextAclInv
<1>3. AclInv => AclSound
    BY DEF AclInv
<1>. QED
    BY <1>1, <1>2, <1>3, PTL DEF Spec

-----------------------------------------------------------------------------
(* Authentication with http_super_req configured.                          *)

\* Every configuration load_config may install has http_super_req set.
SuperConfigured == \A x \in Configs : x.super

AuthInv == TypeOK /\ AuthChecked

LEMMA InitAuthInv == Init => AuthInv
BY InitTypeOK DEF Init, AuthInv, AuthChecked

LEMMA NextAuthInv ==
    ASSUME SuperConfigured
    PROVE  AuthInv /\ [Next]_vars => AuthInv'
<1> SUFFICES ASSUME AuthInv, [Next]_vars PROVE AuthInv'
    OBVIOUS
<1>0. TypeOK /\ TypeOK' /\ cfg.super
    BY NextTypeOK DEF AuthInv, TypeOK, SuperConfigured
<1> USE DEF AuthInv
<1>1. ASSUME NEW c \in Conn, Authenticate(c) PROVE AuthInv'
    <2>1. authOK' = authOK
        BY <1>0, <1>1 DEF Authenticate
    <2>. QED
        BY <1>0, <2>1 DEF AuthChecked
<1>2. ASSUME NEW c \in Conn, NEW a \in {SuperDecision[c], "deny"}, SuperReply(c, a)
      PROVE AuthInv'
    <2>1. \/ authOK' = authOK
          \/ authOK' = authOK \cup {<<c, cfg.auth>>} /\ Allows(SuperDecision[c])
          \/ authOK' = authOK \cup {<<c, cfg.auth>>} /\ ~cfg.auth
        BY <1>2 DEF SuperReply, Allows
    <2>. QED
        BY <1>0, <2>1 DEF AuthChecked
<1>3. ASSUME NEW c \in Conn, NEW a \in {AuthDecision[c], "deny"}, AuthReply(c, a)
      PROVE AuthInv'
    <2>1. \/ authOK' = authOK
          \/ authOK' = authOK \cup {<<c, TRUE>>} /\ Allows(AuthDecision[c])
        BY <1>3 DEF AuthReply, Allows
    <2>2. CASE authOK' = authOK
        BY <1>0, <2>2 DEF AuthChecked
    <2>3. CASE authOK' = authOK \cup {<<c, TRUE>>} /\ Allows(AuthDecision[c])
        <3> SUFFICES ASSUME NEW q \in authOK', q[2]
                     PROVE  Allows(SuperDecision[q[1]]) \/ Allows(AuthDecision[q[1]])
            BY <1>0 DEF AuthChecked
        <3>1. CASE q \in authOK
            BY <1>0, <3>1 DEF AuthChecked
        <3>2. CASE q = <<c, TRUE>>
            <4>1. q[1] = c
                BY <3>2
            <4>. QED
                BY <2>3, <4>1
        <3>. QED
            BY <2>3, <3>1, <3>2
    <2>. QED
        BY <2>1, <2>2, <2>3
<1>4. ASSUME NEW c \in Conn, HandshakeEnd(c) PROVE AuthInv'
    BY <1>0, <1>4 DEF HandshakeEnd, AuthChecked
<1>5. ASSUME NEW c \in Conn, NEW k \in Key, AclCheck(c, k) PROVE AuthInv'
    BY <1>0, <1>5 DEF AclCheck, AuthChecked
<1>6. ASSUME NEW p \in pending, NEW a \in {AclDecision[p[1]][p[2]], "deny"},
             AclReply(p[1], p[2], a)
      PROVE AuthInv'
    BY <1>0, <1>6 DEF AclReply, AuthChecked
<1>7. ASSUME NEW c \in Conn, Disconnected(c) PROVE AuthInv'
    BY <1>0, <1>7 DEF Disconnected, AuthChecked
<1>8. CASE LoadConfig
    BY <1>0, <1>8 DEF LoadConfig, AuthChecked
<1>9. CASE UNCHANGED vars
    BY <1>0, <1>9 DEF vars, AuthChecked
<1>. QED
    BY <1>1, <1>2, <1>3, <1>4, <1>5, <1>6, <1>7, <1>8, <1>9 DEF Next, Finished

(***************************************************************************)
(* While every configuration has http_super_req set, ClientAuthenticate    *)
(* allows a connection with http_auth_req configured only if the super    *)
(* server or the auth server allowed it.  The hypothesis is needed: with   *)
(* http_super_req unset, is_super returns true and the auth request is     *)
(* skipped (run auth_super_unset).                                         *)
(***************************************************************************)
THEOREM AuthSafety ==
    ASSUME SuperConfigured
    PROVE  Spec => []AuthChecked
<1>1. Init => AuthInv
    BY InitAuthInv
<1>2. AuthInv /\ [Next]_vars => AuthInv'
    BY NextAuthInv
<1>3. AuthInv => AuthChecked
    BY DEF AuthInv
<1>. QED
    BY <1>1, <1>2, <1>3, PTL DEF Spec
=============================================================================

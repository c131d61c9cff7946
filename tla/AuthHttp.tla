------------------------------ MODULE AuthHttp ------------------------------
(***************************************************************************)
(* The HTTP authentication / ACL plugin (rmqtt-auth-http/src/lib.rs).      *)
(*                                                                         *)
(* AuthHandler answers the ClientAuthenticate, ClientSubscribeCheckAcl and *)
(* MessagePublishCheckAcl hooks by asking an HTTP server, and keeps a      *)
(* per-connection cache (cache_map, keyed by the connection Id): a server  *)
(* answer "ignore" to an allowed super request marks the connection super, *)
(* to an allowed ACL request it stores the (type, topic) key, and later    *)
(* checks that hit the cache skip the server.  ClientDisconnected removes  *)
(* the connection's entry.  Each HTTP request is an await: the cache is    *)
(* read before it (lib.rs:294) and written after it (lib.rs:346), so other *)
(* hooks of the connection run in between.  The configuration can be      *)
(* reloaded at any time (load_config) and is read at each request.         *)
(***************************************************************************)
EXTENDS FiniteSets

CONSTANTS
    Conn,          \* connections (distinct Ids)
    Topic,         \* topics of subscribes and publishes
    Configs,       \* the configurations load_config may install
    SuperDecision, \* the super server's answer for each connection
    AuthDecision,  \* the auth server's answer for each connection
    AclDecision    \* the ACL server's answer for each connection and key

\* ACLType: Sub = 1, Pub = 2; a cache key is CacheItem's (type, topic).
ACLType == {"sub", "pub"}
Key == ACLType \X Topic

\* What the HTTP server answers: 2xx with body "ignore", 2xx, or an error status.
Answer == {"ignore", "allow", "deny"}
Allows(a) == a \in {"ignore", "allow"}

\* Which of http_super_req, http_auth_req and http_acl_req are configured.
Config == [super : BOOLEAN, auth : BOOLEAN, acl : BOOLEAN]

ASSUME AuthHttpAssumption ==
    /\ Configs \subseteq Config /\ Configs # {}
    /\ SuperDecision \in [Conn -> Answer]
    /\ AuthDecision \in [Conn -> Answer]
    /\ AclDecision \in [Conn -> [Key -> Answer]]

\* CacheValue: is_super and the ignored keys.
Entry == [isSuper : BOOLEAN, ignores : SUBSET Key]
EmptyEntry == [isSuper |-> FALSE, ignores |-> {}]

\* Where each connection's handshake or session is.
State == {"new", "super", "auth", "authed", "online", "refused", "gone"}

VARIABLES
    cfg,       \* the plugin configuration
    st,        \* st[c]: connection c's progress
    cache,     \* cache_map: a function on the Ids that have an entry
    pending,   \* ACL requests awaiting the server: <<c, key>>
    authOK,    \* <<c, a>>: ClientAuthenticate allowed c; a: http_auth_req was set
    granted    \* the <<c, key>> ACL checks the plugin allowed

vars == <<cfg, st, cache, pending, authOK, granted>>

TypeOK ==
    /\ cfg \in Configs
    /\ st \in [Conn -> State]
    /\ DOMAIN cache \subseteq Conn /\ \A c \in DOMAIN cache : cache[c] \in Entry
    /\ pending \subseteq Conn \X Key
    /\ authOK \subseteq Conn \X BOOLEAN
    /\ granted \subseteq Conn \X Key

Init ==
    /\ cfg \in Configs
    /\ st = [c \in Conn |-> "new"]
    /\ cache = [c \in {} |-> EmptyEntry]
    /\ pending = {}
    /\ authOK = {}
    /\ granted = {}

\* cache_map.entry(c).or_default(): c's entry, or a new empty one.
OrDefault(c) == IF c \in DOMAIN cache THEN cache[c] ELSE EmptyEntry

\* The cache after c's entry is set to e.
Upsert(c, e) == [x \in DOMAIN cache \cup {c} |-> IF x = c THEN e ELSE cache[x]]

\* cache_map.remove(c).
Evict(c) == [x \in DOMAIN cache \ {c} |-> cache[x]]

\* Bug variant: the cache lookup compares the ACL type and not the topic.
CachedNoTopic(c, k) ==
    /\ c \in DOMAIN cache
    /\ \/ cache[c].isSuper
       \/ \E i \in cache[c].ignores : i[1] = k[1]

\* request(): the early returns on a cache hit (is_super, or the key ignored).
Cached(c, k) ==
    /\ c \in DOMAIN cache
    /\ \/ cache[c].isSuper
       \/ k \in cache[c].ignores

(***************************************************************************)
(* ClientAuthenticate.  An earlier handler's BadUsernameOrPassword or       *)
(* NotAuthorized is passed on.  Otherwise is_super(): with http_super_req   *)
(* configured a request goes out; without it is_super returns true.        *)
(***************************************************************************)
Authenticate(c) ==
    /\ st[c] = "new"
    /\ \/ st' = [st EXCEPT ![c] = "refused"] /\ UNCHANGED authOK
       \/ cfg.super /\ st' = [st EXCEPT ![c] = "super"] /\ UNCHANGED authOK
       \/ ~cfg.super /\ st' = [st EXCEPT ![c] = "authed"] /\ authOK' = authOK \cup {<<c, cfg.auth>>}
    /\ UNCHANGED <<cfg, cache, pending, granted>>

\* Bug variant: a failed super request counts as super.
SuperReplyErrorAllows(c, ans) ==
    /\ st[c] = "super"
    /\ cache' = IF ans = "ignore" THEN Upsert(c, [OrDefault(c) EXCEPT !.isSuper = TRUE]) ELSE cache
    /\ st' = [st EXCEPT ![c] = "authed"]
    /\ authOK' = authOK \cup {<<c, cfg.auth>>}
    /\ UNCHANGED <<cfg, pending, granted>>

(***************************************************************************)
(* The super request's answer (ans; "deny" also stands for a transport     *)
(* error, which is_super turns into false).  An allowed "ignore" marks the *)
(* entry super.  A super connection is allowed; otherwise auth() runs:     *)
(* without http_auth_req it returns true, with it a request goes out.      *)
(***************************************************************************)
SuperReply(c, ans) ==
    /\ st[c] = "super"
    /\ cache' = IF ans = "ignore" THEN Upsert(c, [OrDefault(c) EXCEPT !.isSuper = TRUE]) ELSE cache
    /\ \/ Allows(ans) /\ st' = [st EXCEPT ![c] = "authed"] /\ authOK' = authOK \cup {<<c, cfg.auth>>}
       \/ ~Allows(ans) /\ ~cfg.auth /\ st' = [st EXCEPT ![c] = "authed"] /\ authOK' = authOK \cup {<<c, cfg.auth>>}
       \/ ~Allows(ans) /\ cfg.auth /\ st' = [st EXCEPT ![c] = "auth"] /\ UNCHANGED authOK
    /\ UNCHANGED <<cfg, pending, granted>>

(***************************************************************************)
(* The auth request's answer: allowed, or BadUsernameOrPassword.  An       *)
(* allowed "ignore" creates the connection's entry (or_default) and adds   *)
(* nothing to it: the request has neither check_super nor a topic.         *)
(***************************************************************************)
AuthReply(c, ans) ==
    /\ st[c] = "auth"
    /\ cache' = IF ans = "ignore" THEN Upsert(c, OrDefault(c)) ELSE cache
    /\ \/ Allows(ans) /\ st' = [st EXCEPT ![c] = "authed"] /\ authOK' = authOK \cup {<<c, TRUE>>}
       \/ ~Allows(ans) /\ st' = [st EXCEPT ![c] = "refused"] /\ UNCHANGED authOK
    /\ UNCHANGED <<cfg, pending, granted>>

(***************************************************************************)
(* The rest of _handshake: the session lock, the kick, the keep-alive      *)
(* check and entry.set may still refuse the connection (ServerUnavailable) *)
(* without ClientDisconnected; otherwise the session goes online.          *)
(***************************************************************************)
HandshakeEnd(c) ==
    /\ st[c] = "authed"
    /\ \E s \in {"online", "refused"} : st' = [st EXCEPT ![c] = s]
    /\ UNCHANGED <<cfg, cache, pending, authOK, granted>>

(***************************************************************************)
(* A SUBSCRIBE or PUBLISH of an online connection reaches acl().  Without  *)
(* http_acl_req it is allowed with no request; a cache hit is allowed;     *)
(* otherwise a request goes out.                                           *)
(***************************************************************************)
AclCheck(c, k) ==
    /\ st[c] = "online"
    /\ \/ ~cfg.acl /\ UNCHANGED <<pending, granted>>
       \/ cfg.acl /\ Cached(c, k) /\ granted' = granted \cup {<<c, k>>} /\ UNCHANGED pending
       \/ cfg.acl /\ ~Cached(c, k) /\ pending' = pending \cup {<<c, k>>} /\ UNCHANGED granted
    /\ UNCHANGED <<cfg, st, cache, authOK>>

(***************************************************************************)
(* The ACL request's answer, whenever it comes: an allowed "ignore" stores *)
(* the key into the connection's entry, created again if it was removed.   *)
(***************************************************************************)
AclReply(c, k, ans) ==
    /\ <<c, k>> \in pending
    /\ pending' = pending \ {<<c, k>>}
    /\ cache' = IF ans = "ignore"
                THEN Upsert(c, [OrDefault(c) EXCEPT !.ignores = @ \cup {k}])
                ELSE cache
    /\ granted' = IF Allows(ans) THEN granted \cup {<<c, k>>} ELSE granted
    /\ UNCHANGED <<cfg, st, authOK>>

\* ClientDisconnected: the entry is removed.
Disconnected(c) ==
    /\ st[c] = "online"
    /\ st' = [st EXCEPT ![c] = "gone"]
    /\ cache' = Evict(c)
    /\ UNCHANGED <<cfg, pending, authOK, granted>>

\* load_config: a new configuration replaces the old one.
LoadConfig ==
    /\ \E new \in Configs \ {cfg} : cfg' = new
    /\ UNCHANGED <<st, cache, pending, authOK, granted>>

\* Every connection ended and every request answered: the run is over.
Finished ==
    /\ \A c \in Conn : st[c] \in {"refused", "gone"}
    /\ pending = {}
    /\ UNCHANGED vars

Next ==
    \/ \E c \in Conn :
          \/ Authenticate(c)
          \/ \E a \in {SuperDecision[c], "deny"} : SuperReply(c, a)
          \/ \E a \in {AuthDecision[c], "deny"} : AuthReply(c, a)
          \/ HandshakeEnd(c)
          \/ \E k \in Key : AclCheck(c, k)
          \/ Disconnected(c)
    \/ \E p \in pending : \E a \in {AclDecision[p[1]][p[2]], "deny"} : AclReply(p[1], p[2], a)
    \/ LoadConfig
    \/ Finished

Spec == Init /\ [][Next]_vars

-----------------------------------------------------------------------------
(***************************************************************************)
(* AclSound: every SUBSCRIBE or PUBLISH the plugin allowed under           *)
(* http_acl_req was allowed by the ACL server for that connection, type    *)
(* and topic, or the connection was declared super: the cache, filled     *)
(* after an await and read by later checks, never allows more than the     *)
(* server did.                                                             *)
(***************************************************************************)
AclSound ==
    \A g \in granted :
        Allows(AclDecision[g[1]][g[2]]) \/ SuperDecision[g[1]] = "ignore"

(***************************************************************************)
(* AuthChecked: while http_auth_req is configured, ClientAuthenticate      *)
(* allows a connection only if the super server or the auth server allowed *)
(* it: a configured auth request is never skipped.                         *)
(***************************************************************************)
AuthChecked ==
    \A p \in authOK : p[2] => Allows(SuperDecision[p[1]]) \/ Allows(AuthDecision[p[1]])

=============================================================================

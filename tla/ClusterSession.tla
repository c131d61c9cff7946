--------------------------- MODULE ClusterSession ---------------------------
(***************************************************************************)
(* Cluster-wide ownership of one MQTT client id in rmqtt's raft cluster    *)
(* mode: the v5 handshake (broker/v5.rs _handshake) driving a              *)
(* ClusterLockEntry (cluster-raft/shared.rs try_lock, kick, set), the      *)
(* remote Kick handler and the disconnect hooks (cluster-raft/handler.rs), *)
(* the node-local session registry (the inner Entry) and the raft-         *)
(* replicated client status that records who owns the id.                  *)
(*                                                                         *)
(* Every connection attempt in Conn carries the same client id; attempts   *)
(* for different client ids touch disjoint registry slots and status       *)
(* records, so one client id is enough to expose every race on ownership.  *)
(***************************************************************************)
EXTENDS Naturals, FiniteSets

CONSTANTS
    Node,          \* cluster node ids
    Conn,          \* connection attempts (one Id each) for the client id
    NodeOf,        \* the node whose listener accepted each attempt
    Leader,        \* the raft leader, whose replica answers proposals
    None,          \* absent value (Option::None)
    RpcTimeouts,   \* may a Kick RPC time out before its reply (500 ms)?
    LockExpires    \* may a handshaking mark outlive try_lock_timeout?

ASSUME ConstAssumption ==
    /\ NodeOf \in [Conn -> Node]
    /\ Leader \in Node
    /\ None \notin Node \cup Conn
    /\ RpcTimeouts \in BOOLEAN
    /\ LockExpires \in BOOLEAN

VARIABLES
    rec,      \* per node, its replica of the raft ClientStatus of the client id
    slot,     \* per node, the inner registry's session for the client id
    lock,     \* per node, the attempt holding the inner entry's try_lock
    pc,       \* per attempt, where its connection task is
    prev,     \* per attempt, prev_node_id returned by HandshakeTryLock
    kickReq,  \* Message::Kick requests in flight: [from, to]
    kickRep,  \* attempts whose Kick reply has arrived
    pending   \* background raft commits of Disconnected/SessionTerminated

vars == <<rec, slot, lock, pc, prev, kickReq, kickRep, pending>>

Status == [id : Conn \cup {None}, online : BOOLEAN, handshaking : BOOLEAN]
NoRecord == [id |-> None, online |-> FALSE, handshaking |-> FALSE]
NoSession == [conn |-> None, connected |-> FALSE]

Phase == {"admit", "trylock", "locallock", "kick", "kickwait", "set",
          "install", "established", "closed", "kicked", "refused"}
Ended == {"closed", "kicked", "refused"}
InHandshake == {"locallock", "kick", "kickwait", "set"}

Commit == [kind : {"Disconnected", "SessionTerminated"}, id : Conn]

TypeOK ==
    /\ rec \in [Node -> Status]
    /\ slot \in [Node -> [conn : Conn \cup {None}, connected : BOOLEAN]]
    /\ lock \in [Node -> Conn \cup {None}]
    /\ pc \in [Conn -> Phase]
    /\ prev \in [Conn -> Node \cup {None}]
    /\ kickReq \subseteq [from : Conn, to : Node]
    /\ kickRep \subseteq Conn
    /\ pending \subseteq Commit

Init ==
    /\ rec = [n \in Node |-> NoRecord]
    /\ slot = [n \in Node |-> NoSession]
    /\ lock = [n \in Node |-> None]
    /\ pc = [c \in Conn |-> "admit"]
    /\ prev = [c \in Conn |-> None]
    /\ kickReq = {}
    /\ kickRep = {}
    /\ pending = {}

-----------------------------------------------------------------------------
(* Raft state machine of the client status (not under src/: from the spec). *)
(* A committed fact is applied by every replica to its own copy; the reply  *)
(* to a proposal is computed on the leader's copy.                          *)

\* The leader's copy: what a proposal's reply is computed from.
Lead == rec[Leader]

\* Is a handshake of the client id already in progress, per the leader?
Handshaking == Lead.id # None /\ Lead.handshaking

\* Message::HandshakeTryLock on one replica: mark handshaking, keep the id.
TryLockStatus(s, c) ==
    IF s.id = None THEN [id |-> c, online |-> FALSE, handshaking |-> TRUE]
    ELSE [s EXCEPT !.handshaking = TRUE]

\* Message::Connected on one replica: c is the recorded, online owner.
ConnectedStatus(s, c) == [id |-> c, online |-> TRUE, handshaking |-> FALSE]

\* Bug variant: a fact about any id applies to the current status.
CommitStatusAnyId(s, p) ==
    IF p.kind = "Disconnected" THEN [s EXCEPT !.online = FALSE] ELSE NoRecord

\* Message::Disconnected / SessionTerminated on one replica, same id only.
CommitStatus(s, p) ==
    IF s.id # p.id THEN s
    ELSE IF p.kind = "Disconnected" THEN [s EXCEPT !.online = FALSE]
    ELSE NoRecord

ApplyHandshakeTryLock(c) == rec' = [n \in Node |-> TryLockStatus(rec[n], c)]
ApplyConnected(c) == rec' = [n \in Node |-> ConnectedStatus(rec[n], c)]
ApplyCommit(p) == rec' = [n \in Node |-> CommitStatus(rec[n], p)]

-----------------------------------------------------------------------------
(* The inner (node-local) Entry.                                           *)

\* Entry::kick on node n: the occupant is evicted, a live one is closed
\* with reason "Kicked"; the result is the new value of pc.
Evict(n, p) ==
    IF slot[n].conn # None /\ p[slot[n].conn] = "established"
      THEN [p EXCEPT ![slot[n].conn] = "kicked"]
      ELSE p

-----------------------------------------------------------------------------
(* The handshake of attempt c (v5.rs handshake/_handshake).                 *)

\* Admission timeout, client id too long, extended auth or failed
\* authentication refuse the attempt before any ownership step.
HandshakeAdmit(c) ==
    /\ pc[c] = "admit"
    /\ \/ pc' = [pc EXCEPT ![c] = "trylock"]
       \/ pc' = [pc EXCEPT ![c] = "refused"]
    /\ UNCHANGED <<rec, slot, lock, prev, kickReq, kickRep, pending>>

\* ClusterLockEntry::try_lock, raft part: HandshakeTryLock returns the
\* recorded owner's node, or an error while another handshake holds the mark.
TryLockRaft(c) ==
    /\ pc[c] = "trylock"
    /\ ~Handshaking
    /\ ApplyHandshakeTryLock(c)
    /\ prev' = [prev EXCEPT ![c] = IF Lead.id = None THEN None ELSE NodeOf[Lead.id]]
    /\ pc' = [pc EXCEPT ![c] = "locallock"]
    /\ UNCHANGED <<slot, lock, kickReq, kickRep, pending>>

\* The raft reply is an Error, or the mailbox send fails: ServerUnavailable.
TryLockRaftFail(c) ==
    /\ pc[c] = "trylock"
    /\ pc' = [pc EXCEPT ![c] = "refused"]
    /\ UNCHANGED <<rec, slot, lock, prev, kickReq, kickRep, pending>>

\* ClusterLockEntry::try_lock, local part: self.inner.try_lock(), which fails
\* rather than waits when another attempt on the node holds the entry.
TryLockLocal(c) ==
    LET n == NodeOf[c] IN
    /\ pc[c] = "locallock"
    /\ \/ /\ lock[n] = None
          /\ lock' = [lock EXCEPT ![n] = c]
          /\ pc' = [pc EXCEPT ![c] = "kick"]
       \/ /\ lock[n] # None
          /\ pc' = [pc EXCEPT ![c] = "refused"]
          /\ UNCHANGED lock
    /\ UNCHANGED <<rec, slot, prev, kickReq, kickRep, pending>>

\* Bug variant: prev_node_id used without unwrap_or(id.node_id).
KickTargetNoDefault(c) == prev[c]

\* The node ClusterLockEntry::kick (is_admin = false) evicts from.
KickTarget(c) == IF prev[c] = None THEN NodeOf[c] ELSE prev[c]

\* ClusterLockEntry::kick on the local node: inner.kick.
KickLocal(c) ==
    LET n == NodeOf[c] IN
    /\ pc[c] = "kick"
    /\ KickTarget(c) = n
    /\ slot' = [slot EXCEPT ![n] = NoSession]
    /\ pc' = [Evict(n, pc) EXCEPT ![c] = "set"]
    /\ UNCHANGED <<rec, lock, prev, kickReq, kickRep, pending>>

\* ClusterLockEntry::kick of another node: send Message::Kick by gRPC.
KickRemote(c) ==
    /\ pc[c] = "kick"
    /\ KickTarget(c) # NodeOf[c]
    /\ kickReq' = kickReq \cup {[from |-> c, to |-> KickTarget(c)]}
    /\ pc' = [pc EXCEPT ![c] = "kickwait"]
    /\ UNCHANGED <<rec, slot, lock, prev, kickRep, pending>>

\* HookHandler on the target node: inner entry kick; when nothing was there
\* (Ok(None)) the node removes the client status from its own replica only.
KickHandle(m) ==
    LET r == m.to IN
    /\ m \in kickReq
    /\ slot' = [slot EXCEPT ![r] = NoSession]
    /\ pc' = Evict(r, pc)
    /\ rec' = IF slot[r].conn = None THEN [rec EXCEPT ![r] = NoRecord] ELSE rec
    /\ kickReq' = kickReq \ {m}
    /\ kickRep' = kickRep \cup {m.from}
    /\ UNCHANGED <<lock, prev, pending>>

\* The Kick reply arrives: Ok(Some(offline)) or Ok(None), handshake goes on.
KickReply(c) ==
    /\ pc[c] = "kickwait"
    /\ c \in kickRep
    /\ kickRep' = kickRep \ {c}
    /\ pc' = [pc EXCEPT ![c] = "set"]
    /\ UNCHANGED <<rec, slot, lock, prev, kickReq, pending>>

\* A send error or timeout is read as "already gone": Ok(None). The request
\* itself may still be delivered and handled later.
KickTimeout(c) ==
    /\ RpcTimeouts
    /\ pc[c] = "kickwait"
    /\ pc' = [pc EXCEPT ![c] = "set"]
    /\ UNCHANGED <<rec, slot, lock, prev, kickReq, kickRep, pending>>

\* Bug variant: the refusal path keeps the locked entry alive.
SetFailKeepsLock(c) ==
    /\ pc[c] = "set"
    /\ pc' = [pc EXCEPT ![c] = "refused"]
    /\ UNCHANGED <<rec, slot, lock, prev, kickReq, kickRep, pending>>

\* fitter.keep_alive fails, or raft rejects/loses Connected: refused after
\* the kick; the entry's lock is dropped with the handshake.
SetFail(c) ==
    /\ pc[c] = "set"
    /\ pc' = [pc EXCEPT ![c] = "refused"]
    /\ lock' = [lock EXCEPT ![NodeOf[c]] = None]
    /\ UNCHANGED <<rec, slot, prev, kickReq, kickRep, pending>>

\* ClusterLockEntry::set, raft part: Message::Connected is committed.
SetCommit(c) ==
    /\ pc[c] = "set"
    /\ ApplyConnected(c)
    /\ pc' = [pc EXCEPT ![c] = "install"]
    /\ UNCHANGED <<slot, lock, prev, kickReq, kickRep, pending>>

\* ClusterLockEntry::set, local part: inner.set installs the session; the
\* handshake returns the ack and drops the locked entry.
SetInstall(c) ==
    LET n == NodeOf[c] IN
    /\ pc[c] = "install"
    /\ slot' = [slot EXCEPT ![n] = [conn |-> c, connected |-> TRUE]]
    /\ lock' = [lock EXCEPT ![n] = None]
    /\ pc' = [pc EXCEPT ![c] = "established"]
    /\ UNCHANGED <<rec, prev, kickReq, kickRep, pending>>

-----------------------------------------------------------------------------
(* After the handshake.                                                    *)

\* Bug variant: the closed session is left marked connected.
DisconnectKeepsConnected(c) ==
    /\ pc[c] = "established"
    /\ pc' = [pc EXCEPT ![c] = "closed"]
    /\ pending' = pending \cup {[kind |-> "Disconnected", id |-> c]}
    /\ UNCHANGED <<rec, slot, lock, prev, kickReq, kickRep>>

\* Disconnect, Closed, Error or ProtocolError close the session's
\* connection; ClientDisconnected (reason not "Kicked") spawns the
\* Disconnected commit; the session stays in the registry, offline.
Disconnect(c) ==
    LET n == NodeOf[c] IN
    /\ pc[c] = "established"
    /\ pc' = [pc EXCEPT ![c] = "closed"]
    /\ slot' = IF slot[n].conn = c
                 THEN [slot EXCEPT ![n] = [conn |-> c, connected |-> FALSE]]
                 ELSE slot
    /\ pending' = pending \cup {[kind |-> "Disconnected", id |-> c]}
    /\ UNCHANGED <<rec, lock, prev, kickReq, kickRep>>

\* An offline session expires: SessionTerminated spawns its commit.
SessionExpire(n) ==
    /\ slot[n].conn # None
    /\ ~slot[n].connected
    /\ slot' = [slot EXCEPT ![n] = NoSession]
    /\ pending' = pending \cup {[kind |-> "SessionTerminated", id |-> slot[n].conn]}
    /\ UNCHANGED <<rec, lock, pc, prev, kickReq, kickRep>>

\* The background task's retry commits the fact ...
CommitApply(p) ==
    /\ p \in pending
    /\ ApplyCommit(p)
    /\ pending' = pending \ {p}
    /\ UNCHANGED <<slot, lock, pc, prev, kickReq, kickRep>>

\* ... or gives up after the 60 s backoff budget and only logs.
CommitGiveUp(p) ==
    /\ p \in pending
    /\ pending' = pending \ {p}
    /\ UNCHANGED <<rec, slot, lock, pc, prev, kickReq, kickRep>>

\* try_lock_timeout passes: the handshaking mark no longer counts anywhere.
HandshakingExpire ==
    /\ LockExpires
    /\ Handshaking
    /\ rec' = [n \in Node |-> [rec[n] EXCEPT !.handshaking = FALSE]]
    /\ UNCHANGED <<slot, lock, pc, prev, kickReq, kickRep, pending>>

\* Every attempt has ended and nothing is in flight: the run is over.
Finished ==
    /\ \A c \in Conn : pc[c] \in Ended \cup {"established"}
    /\ kickReq = {} /\ pending = {}
    /\ UNCHANGED vars

Next ==
    \/ \E c \in Conn :
          \/ HandshakeAdmit(c) \/ TryLockRaft(c) \/ TryLockRaftFail(c)
          \/ TryLockLocal(c) \/ KickLocal(c) \/ KickRemote(c)
          \/ KickReply(c) \/ KickTimeout(c)
          \/ SetFail(c) \/ SetCommit(c) \/ SetInstall(c) \/ Disconnect(c)
    \/ \E m \in kickReq : KickHandle(m)
    \/ \E n \in Node : SessionExpire(n)
    \/ \E p \in pending : CommitApply(p) \/ CommitGiveUp(p)
    \/ HandshakingExpire
    \/ Finished

Spec == Init /\ [][Next]_vars

-----------------------------------------------------------------------------
(* Properties.                                                             *)

\* At most one node holds a connected session for the client id: the
\* ownership protocol of try_lock/kick/set leaves one live session.
ConnectedUnique ==
    \A n1, n2 \in Node :
        (slot[n1].connected /\ slot[n2].connected) => n1 = n2

\* A registry slot marked connected belongs to a live connection accepted
\* on that node: kick and disconnect never leave a dead session "connected".
SlotConnectedLive ==
    \A n \in Node :
        slot[n].connected =>
            /\ slot[n].conn # None
            /\ NodeOf[slot[n].conn] = n
            /\ pc[slot[n].conn] = "established"

\* The leader's status never shows its recorded owner offline while that
\* owner's connection is live: a late Disconnected/SessionTerminated commit
\* of an older connection never demotes a newer owner.
LiveOwnerOnline ==
    \A c \in Conn :
        (Lead.id = c /\ pc[c] = "established") => Lead.online

\* The inner entry lock of a node is held only by a handshake accepted on
\* that node and still between try_lock and set: no exit path leaks it.
LockHeldByHandshake ==
    \A n \in Node :
        lock[n] # None =>
            /\ NodeOf[lock[n]] = n
            /\ pc[lock[n]] \in {"kick", "kickwait", "set", "install"}

\* HandshakeTryLock serialises handshakes: from a successful try_lock until
\* Connected is committed, no second attempt of the client id is in progress.
HandshakeExclusive ==
    \A c1, c2 \in Conn :
        (pc[c1] \in InHandshake /\ pc[c2] \in InHandshake) => c1 = c2

-----------------------------------------------------------------------------
(* Inductive strengthening used by the proofs (ClusterSessionProofs).     *)

\* A handshake between try_lock and set holds its own node's entry lock.
HolderHasLock ==
    \A c \in Conn :
        pc[c] \in {"kick", "kickwait", "set", "install"} => lock[NodeOf[c]] = c

\* A registry slot only ever holds a session accepted on its own node.
SlotOnOwnNode ==
    \A n \in Node : slot[n].conn # None => NodeOf[slot[n].conn] = n

IInv ==
    /\ TypeOK /\ LockHeldByHandshake /\ HolderHasLock
    /\ SlotOnOwnNode /\ SlotConnectedLive

=============================================================================

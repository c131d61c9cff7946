------------------------ MODULE ClusterSessionProofs ------------------------
(***************************************************************************)
(* Proofs about ClusterSession for every set of nodes and connection       *)
(* attempts: the type invariant, and that the inner entry lock taken by    *)
(* ClusterLockEntry::try_lock is held exactly by the handshake between its *)
(* try_lock and its set, and that a registry slot marked connected always  *)
(* belongs to a live connection.                                           *)
(***************************************************************************)
EXTENDS ClusterSession, TLAPS

USE ConstAssumption

Locked == {"kick", "kickwait", "set", "install"}

-----------------------------------------------------------------------------
(* Type correctness.                                                       *)

LEMMA InitTypeOK == Init => TypeOK
BY DEF Init, TypeOK, NoRecord, NoSession, Status, Phase

\* Evict only turns the evicted live connection into "kicked".
LEMMA EvictType ==
    ASSUME TypeOK, NEW n \in Node
    PROVE  Evict(n, pc) \in [Conn -> Phase]
BY DEF Evict, TypeOK, Phase

\* Clearing a flag of a client status keeps it a client status.
LEMMA StatusUpdate ==
    ASSUME NEW s \in Status
    PROVE  /\ [s EXCEPT !.online = FALSE] \in Status
           /\ [s EXCEPT !.handshaking = FALSE] \in Status
BY DEF Status

\* HandshakeTryLock on one replica yields a client status.
LEMMA TryLockStatusType ==
    ASSUME NEW s \in Status, NEW c \in Conn
    PROVE  TryLockStatus(s, c) \in Status
BY DEF Status, TryLockStatus

LEMMA NextTypeOK == TypeOK /\ [Next]_vars => TypeOK'
<1> SUFFICES ASSUME TypeOK, [Next]_vars PROVE TypeOK'
    OBVIOUS
<1> USE DEF TypeOK, Status, Phase, Commit
<1>1. ASSUME NEW c \in Conn, HandshakeAdmit(c) PROVE TypeOK'
    BY <1>1 DEF HandshakeAdmit
<1>2. ASSUME NEW c \in Conn, TryLockRaft(c) PROVE TypeOK'
    <2>1. \A n \in Node : TryLockStatus(rec[n], c) \in Status
        BY TryLockStatusType
    <2>2. rec' \in [Node -> Status]
        BY <1>2, <2>1 DEF TryLockRaft, ApplyHandshakeTryLock
    <2>3. prev' \in [Conn -> Node \cup {None}]
        BY <1>2 DEF TryLockRaft, Lead
    <2>. QED
        BY <1>2, <2>2, <2>3 DEF TryLockRaft
<1>3. ASSUME NEW c \in Conn, TryLockRaftFail(c) PROVE TypeOK'
    BY <1>3 DEF TryLockRaftFail
<1>4. ASSUME NEW c \in Conn, TryLockLocal(c) PROVE TypeOK'
    <2>1. NodeOf[c] \in Node
        OBVIOUS
    <2>2. CASE lock[NodeOf[c]] = None /\ lock' = [lock EXCEPT ![NodeOf[c]] = c]
                /\ pc' = [pc EXCEPT ![c] = "kick"]
        BY <1>4, <2>1, <2>2 DEF TryLockLocal
    <2>3. CASE pc' = [pc EXCEPT ![c] = "refused"] /\ UNCHANGED lock
        BY <1>4, <2>3 DEF TryLockLocal
    <2>4. QED
        BY <1>4, <2>2, <2>3 DEF TryLockLocal
<1>5. ASSUME NEW c \in Conn, KickLocal(c) PROVE TypeOK'
    BY <1>5, EvictType DEF KickLocal, NoSession
<1>6. ASSUME NEW c \in Conn, KickRemote(c) PROVE TypeOK'
    BY <1>6 DEF KickRemote, KickTarget
<1>7. ASSUME NEW c \in Conn, KickReply(c) PROVE TypeOK'
    BY <1>7 DEF KickReply
<1>8. ASSUME NEW c \in Conn, KickTimeout(c) PROVE TypeOK'
    BY <1>8 DEF KickTimeout
<1>9. ASSUME NEW c \in Conn, SetFail(c) PROVE TypeOK'
    BY <1>9 DEF SetFail
<1>10. ASSUME NEW c \in Conn, SetCommit(c) PROVE TypeOK'
    BY <1>10 DEF SetCommit, ApplyConnected, ConnectedStatus
<1>11. ASSUME NEW c \in Conn, SetInstall(c) PROVE TypeOK'
    BY <1>11 DEF SetInstall
<1>12. ASSUME NEW c \in Conn, Disconnect(c) PROVE TypeOK'
    BY <1>12 DEF Disconnect
<1>13. ASSUME NEW m \in kickReq, KickHandle(m) PROVE TypeOK'
    BY <1>13, EvictType DEF KickHandle, NoSession, NoRecord
<1>14. ASSUME NEW n \in Node, SessionExpire(n) PROVE TypeOK'
    BY <1>14 DEF SessionExpire, NoSession
<1>15. ASSUME NEW p \in pending, CommitApply(p) PROVE TypeOK'
    <2>1. \A n \in Node : CommitStatus(rec[n], p) \in Status
        BY StatusUpdate DEF CommitStatus, NoRecord
    <2>2. QED
        BY <1>15, <2>1 DEF CommitApply, ApplyCommit
<1>16. ASSUME NEW p \in pending, CommitGiveUp(p) PROVE TypeOK'
    BY <1>16 DEF CommitGiveUp
<1>17. CASE HandshakingExpire
    BY <1>17, StatusUpdate DEF HandshakingExpire
<1>18. CASE Finished \/ UNCHANGED vars
    BY <1>18 DEF Finished, vars
<1>19. QED
    BY <1>1, <1>2, <1>3, <1>4, <1>5, <1>6, <1>7, <1>8, <1>9, <1>10,
       <1>11, <1>12, <1>13, <1>14, <1>15, <1>16, <1>17, <1>18 DEF Next

\* The type invariant TypeOK holds in every reachable state.
THEOREM TypeCorrect == Spec => []TypeOK
BY InitTypeOK, NextTypeOK, PTL DEF Spec

-----------------------------------------------------------------------------
(* The entry lock and the registry slots.  LockHeldByHandshake is not      *)
(* inductive alone: SetFail and SetInstall release lock[NodeOf[c]], which  *)
(* is only right because c holds it (HolderHasLock).                       *)

LEMMA InitIInv == Init => IInv
BY DEF Init, IInv, TypeOK, NoRecord, NoSession, Status, Phase,
       LockHeldByHandshake, HolderHasLock, SlotOnOwnNode, SlotConnectedLive

\* Evict changes only the evicted slot occupant, from live to "kicked".
LEMMA EvictFacts ==
    ASSUME TypeOK, NEW n \in Node, NEW x \in Conn
    PROVE  /\ Evict(n, pc)[x] = pc[x] \/ (x = slot[n].conn /\ Evict(n, pc)[x] = "kicked")
           /\ pc[x] # "established" => Evict(n, pc)[x] = pc[x]
           /\ x # slot[n].conn => Evict(n, pc)[x] = pc[x]
BY DEF Evict, TypeOK

LEMMA NextIInv == IInv /\ [Next]_vars => IInv'
<1> SUFFICES ASSUME IInv, [Next]_vars PROVE IInv'
    OBVIOUS
<1>0. TypeOK'
    BY NextTypeOK DEF IInv
<1> USE <1>0 DEF IInv, TypeOK, LockHeldByHandshake, HolderHasLock, SlotOnOwnNode, SlotConnectedLive
<1>1. ASSUME NEW c \in Conn, HandshakeAdmit(c) PROVE IInv'
    BY <1>1 DEF HandshakeAdmit
<1>2. ASSUME NEW c \in Conn, TryLockRaft(c) PROVE IInv'
    BY <1>2 DEF TryLockRaft
<1>3. ASSUME NEW c \in Conn, TryLockRaftFail(c) PROVE IInv'
    BY <1>3 DEF TryLockRaftFail
<1>4. ASSUME NEW c \in Conn, TryLockLocal(c) PROVE IInv'
    <2> DEFINE n == NodeOf[c]
    <2>0. n \in Node /\ pc[c] = "locallock"
          /\ UNCHANGED <<rec, slot, prev, kickReq, kickRep, pending>>
        BY <1>4 DEF TryLockLocal
    <2>1. CASE lock[n] = None /\ lock' = [lock EXCEPT ![n] = c]
                /\ pc' = [pc EXCEPT ![c] = "kick"]
        BY <2>0, <2>1
    <2>2. CASE pc' = [pc EXCEPT ![c] = "refused"] /\ UNCHANGED lock
        BY <2>0, <2>2
    <2>3. QED
        BY <1>4, <2>1, <2>2 DEF TryLockLocal
<1>5. ASSUME NEW c \in Conn, KickLocal(c) PROVE IInv'
    <2> DEFINE n == NodeOf[c]
    <2>1. n \in Node /\ pc[c] = "kick" /\ slot' = [slot EXCEPT ![n] = NoSession]
          /\ pc' = [Evict(n, pc) EXCEPT ![c] = "set"] /\ UNCHANGED lock
        BY <1>5 DEF KickLocal
    <2>2. LockHeldByHandshake'
        BY <2>1, EvictFacts
    <2>3. HolderHasLock'
        BY <2>1, EvictFacts
    <2>4. SlotOnOwnNode'
        BY <2>1 DEF NoSession
    <2>5. SlotConnectedLive'
        BY <2>1, EvictFacts DEF NoSession
    <2>6. QED
        BY <2>2, <2>3, <2>4, <2>5
<1>6. ASSUME NEW c \in Conn, KickRemote(c) PROVE IInv'
    BY <1>6 DEF KickRemote
<1>7. ASSUME NEW c \in Conn, KickReply(c) PROVE IInv'
    BY <1>7 DEF KickReply
<1>8. ASSUME NEW c \in Conn, KickTimeout(c) PROVE IInv'
    BY <1>8 DEF KickTimeout
<1>9. ASSUME NEW c \in Conn, SetFail(c) PROVE IInv'
    BY <1>9 DEF SetFail
<1>10. ASSUME NEW c \in Conn, SetCommit(c) PROVE IInv'
    BY <1>10 DEF SetCommit
<1>11. ASSUME NEW c \in Conn, SetInstall(c) PROVE IInv'
    BY <1>11 DEF SetInstall
<1>12. ASSUME NEW c \in Conn, Disconnect(c) PROVE IInv'
    BY <1>12 DEF Disconnect
<1>13. ASSUME NEW m \in kickReq, KickHandle(m) PROVE IInv'
    <2> DEFINE r == m.to
    <2>1. r \in Node /\ slot' = [slot EXCEPT ![r] = NoSession]
          /\ pc' = Evict(r, pc) /\ UNCHANGED lock
        BY <1>13 DEF KickHandle
    <2>2. LockHeldByHandshake'
        BY <2>1, EvictFacts
    <2>3. HolderHasLock'
        BY <2>1, EvictFacts
    <2>4. SlotOnOwnNode'
        BY <2>1 DEF NoSession
    <2>5. SlotConnectedLive'
        BY <2>1, EvictFacts DEF NoSession
    <2>6. QED
        BY <2>2, <2>3, <2>4, <2>5
<1>14. ASSUME NEW n \in Node, SessionExpire(n) PROVE IInv'
    BY <1>14 DEF SessionExpire, NoSession
<1>15. ASSUME NEW p \in pending, CommitApply(p) PROVE IInv'
    BY <1>15 DEF CommitApply
<1>16. ASSUME NEW p \in pending, CommitGiveUp(p) PROVE IInv'
    BY <1>16 DEF CommitGiveUp
<1>17. CASE HandshakingExpire
    BY <1>17 DEF HandshakingExpire
<1>18. CASE Finished \/ UNCHANGED vars
    BY <1>18 DEF Finished, vars
<1>19. QED
    BY <1>1, <1>2, <1>3, <1>4, <1>5, <1>6, <1>7, <1>8, <1>9, <1>10,
       <1>11, <1>12, <1>13, <1>14, <1>15, <1>16, <1>17, <1>18 DEF Next

\* The inner entry lock is held only by a handshake of its own node that is
\* between try_lock and set (LockHeldByHandshake), in every reachable state.
THEOREM LockSafety == Spec => []LockHeldByHandshake
BY InitIInv, NextIInv, PTL DEF Spec, IInv

\* A registry slot marked connected always belongs to a live connection of
\* its node (SlotConnectedLive), in every reachable state.
THEOREM SlotSafety == Spec => []SlotConnectedLive
BY InitIInv, NextIInv, PTL DEF Spec, IInv

-----------------------------------------------------------------------------
(* The recorded owner's online flag.  LiveOwnerOnline is not inductive     *)
(* alone: a Disconnected or SessionTerminated commit waiting in the        *)
(* background task could, for all it says, be about the live owner.  The  *)
(* strengthening says such a commit is always about a closed connection,   *)
(* and so is every offline session a SessionExpire can terminate.          *)

\* Connections past SetCommit: the leader's record, if theirs, is online.
Committed == {"install", "established"}

OwnerOnline ==
    \A c \in Conn : (Lead.id = c /\ pc[c] \in Committed) => Lead.online

\* Every commit in flight is about a closed connection.
PendingClosed == \A p \in pending : pc[p.id] = "closed"

\* Every offline session in the registry is a closed connection's.
OfflineClosed ==
    \A n \in Node : slot[n].conn # None /\ ~slot[n].connected => pc[slot[n].conn] = "closed"

OwnerInv == TypeOK /\ OwnerOnline /\ PendingClosed /\ OfflineClosed

\* A closed connection stays closed: no step reopens it.
LEMMA ClosedStays ==
    ASSUME TypeOK, [Next]_vars
    PROVE  \A x \in Conn : pc[x] = "closed" => pc'[x] = "closed"
<1> SUFFICES ASSUME NEW x \in Conn, pc[x] = "closed" PROVE pc'[x] = "closed"
    OBVIOUS
<1>1. ASSUME NEW c \in Conn, KickLocal(c) PROVE pc'[x] = "closed"
    BY <1>1, EvictFacts DEF KickLocal, TypeOK
<1>2. ASSUME NEW m \in kickReq, KickHandle(m) PROVE pc'[x] = "closed"
    <2>1. m.to \in Node /\ pc' = Evict(m.to, pc)
        BY <1>2 DEF KickHandle, TypeOK
    <2>. QED
        BY <2>1, EvictFacts
<1>3. ASSUME NEW c \in Conn,
             \/ HandshakeAdmit(c) \/ TryLockRaft(c) \/ TryLockRaftFail(c)
             \/ TryLockLocal(c) \/ KickRemote(c) \/ KickReply(c) \/ KickTimeout(c)
             \/ SetFail(c) \/ SetCommit(c) \/ SetInstall(c) \/ Disconnect(c)
      PROVE  pc'[x] = "closed"
    <2>1. pc[c] # "closed" /\ pc' = [pc EXCEPT ![c] = pc'[c]]
        BY <1>3 DEF TypeOK, HandshakeAdmit, TryLockRaft, TryLockRaftFail, TryLockLocal,
                    KickRemote, KickReply, KickTimeout, SetFail, SetCommit, SetInstall,
                    Disconnect
    <2>. QED
        BY <2>1 DEF TypeOK
<1>4. CASE \/ \E n \in Node : SessionExpire(n)
           \/ \E p \in pending : CommitApply(p) \/ CommitGiveUp(p)
           \/ HandshakingExpire \/ Finished \/ UNCHANGED vars
    BY <1>4 DEF SessionExpire, CommitApply, CommitGiveUp, HandshakingExpire, Finished, vars
<1>. QED
    BY <1>1, <1>2, <1>3, <1>4 DEF Next

LEMMA InitOwnerInv == Init => OwnerInv
BY InitTypeOK DEF Init, OwnerInv, OwnerOnline, PendingClosed, OfflineClosed,
                  Lead, NoRecord, NoSession

LEMMA NextOwnerInv == OwnerInv /\ [Next]_vars => OwnerInv'
<1> SUFFICES ASSUME OwnerInv, [Next]_vars PROVE OwnerInv'
    OBVIOUS
<1>0. TypeOK /\ TypeOK'
    BY NextTypeOK DEF OwnerInv
<1>a. \A x \in Conn : pc[x] = "closed" => pc'[x] = "closed"
    BY <1>0, ClosedStays
<1>b. \A p \in pending : pc'[p.id] = "closed"
    BY <1>0, <1>a DEF OwnerInv, PendingClosed, TypeOK, Commit
<1>c. \A n \in Node : slot'[n] = slot[n] /\ slot[n].conn # None /\ ~slot[n].connected
                        => pc'[slot[n].conn] = "closed"
    BY <1>0, <1>a DEF OwnerInv, OfflineClosed, TypeOK
<1> USE <1>0, <1>a DEF OwnerInv
<1> DEFINE Frame(c) == /\ UNCHANGED <<rec, slot, pending>>
                      /\ pc' = [pc EXCEPT ![c] = pc'[c]]
                      /\ pc[c] \notin Committed /\ pc'[c] \notin Committed
\* Steps that move one handshake that has not committed, and touch no
\* record, slot or pending commit.
<1>1. ASSUME NEW c \in Conn, Frame(c) PROVE OwnerInv'
    <2>1. \A x \in Conn : pc'[x] \in Committed => pc[x] \in Committed /\ x # c
        BY <1>1 DEF TypeOK
    <2>2. OwnerOnline'
        BY <1>1, <2>1 DEF OwnerOnline, Lead
    <2>3. PendingClosed'
        BY <1>1, <1>b DEF PendingClosed
    <2>4. OfflineClosed'
        BY <1>1, <1>c DEF OfflineClosed
    <2>. QED
        BY <2>2, <2>3, <2>4
<1>2. ASSUME NEW c \in Conn,
             \/ HandshakeAdmit(c) \/ TryLockRaftFail(c) \/ TryLockLocal(c)
             \/ KickRemote(c) \/ KickReply(c) \/ KickTimeout(c) \/ SetFail(c)
      PROVE  OwnerInv'
    <2>1. Frame(c)
        BY <1>2 DEF TypeOK, Committed, HandshakeAdmit, TryLockRaftFail, TryLockLocal,
                    KickRemote, KickReply, KickTimeout, SetFail
    <2>. QED
        BY <2>1, <1>1
<1>3. ASSUME NEW c \in Conn, TryLockRaft(c) PROVE OwnerInv'
    <2>1. pc[c] = "trylock" /\ pc' = [pc EXCEPT ![c] = "locallock"]
          /\ UNCHANGED <<slot, pending>>
        BY <1>3 DEF TryLockRaft
    <2>2. rec'[Leader] = TryLockStatus(Lead, c)
        BY <1>3 DEF TryLockRaft, ApplyHandshakeTryLock, Lead
    <2>3. OwnerOnline'
        <3>1. CASE Lead.id = None
            BY <2>1, <2>2, <3>1 DEF OwnerOnline, Lead, TryLockStatus, Committed, TypeOK
        <3>2. CASE Lead.id # None
            <4>1. rec'[Leader].id = Lead.id /\ rec'[Leader].online = Lead.online
                BY <2>2, <3>2 DEF TryLockStatus, Lead, TypeOK, Status
            <4>. QED
                BY <2>1, <4>1 DEF OwnerOnline, Lead, Committed, TypeOK
        <3>. QED
            BY <3>1, <3>2
    <2>. QED
        BY <2>1, <2>3 DEF PendingClosed, OfflineClosed
<1>4. ASSUME NEW c \in Conn, KickLocal(c) PROVE OwnerInv'
    <2> DEFINE n == NodeOf[c]
    <2>1. n \in Node /\ pc[c] = "kick" /\ slot' = [slot EXCEPT ![n] = NoSession]
          /\ pc' = [Evict(n, pc) EXCEPT ![c] = "set"] /\ UNCHANGED <<rec, pending>>
        BY <1>4 DEF KickLocal
    <2>2. \A x \in Conn : pc'[x] \in Committed => pc[x] \in Committed
        BY <2>1, EvictFacts DEF Committed, TypeOK
    <2>3. OfflineClosed'
        BY <2>1, <1>c DEF OfflineClosed, NoSession, TypeOK
    <2>4. OwnerOnline'
        BY <2>1, <2>2 DEF OwnerOnline, Lead
    <2>5. PendingClosed'
        BY <2>1, <1>b DEF PendingClosed
    <2>. QED
        BY <2>3, <2>4, <2>5
<1>5. ASSUME NEW m \in kickReq, KickHandle(m) PROVE OwnerInv'
    <2> DEFINE r == m.to
    <2>1. r \in Node /\ slot' = [slot EXCEPT ![r] = NoSession]
          /\ pc' = Evict(r, pc) /\ UNCHANGED pending
          /\ rec' = (IF slot[r].conn = None THEN [rec EXCEPT ![r] = NoRecord] ELSE rec)
        BY <1>5 DEF KickHandle, TypeOK
    <2>2. \A x \in Conn : pc'[x] \in Committed => pc[x] \in Committed
        BY <2>1, EvictFacts DEF Committed, TypeOK
    <2>3. rec'[Leader] = rec[Leader] \/ rec'[Leader].id = None
        BY <2>1 DEF NoRecord, TypeOK
    <2>4. OwnerOnline'
        BY <2>2, <2>3 DEF OwnerOnline, Lead
    <2>5. OfflineClosed'
        BY <2>1, <1>c DEF OfflineClosed, NoSession, TypeOK
    <2>6. PendingClosed'
        BY <2>1, <1>b DEF PendingClosed
    <2>. QED
        BY <2>4, <2>5, <2>6
<1>6. ASSUME NEW c \in Conn, SetCommit(c) PROVE OwnerInv'
    <2>1. pc[c] = "set" /\ pc' = [pc EXCEPT ![c] = "install"] /\ UNCHANGED <<slot, pending>>
        BY <1>6 DEF SetCommit
    <2>2. rec'[Leader] = [id |-> c, online |-> TRUE, handshaking |-> FALSE]
        BY <1>6 DEF SetCommit, ApplyConnected, ConnectedStatus
    <2>. QED
        BY <2>1, <2>2 DEF OwnerOnline, PendingClosed, OfflineClosed, Lead, TypeOK
<1>7. ASSUME NEW c \in Conn, SetInstall(c) PROVE OwnerInv'
    <2>1. pc[c] = "install" /\ pc' = [pc EXCEPT ![c] = "established"]
          /\ slot' = [slot EXCEPT ![NodeOf[c]] = [conn |-> c, connected |-> TRUE]]
          /\ UNCHANGED <<rec, pending>>
        BY <1>7 DEF SetInstall
    <2>. QED
        BY <2>1 DEF OwnerOnline, PendingClosed, OfflineClosed, Lead, Committed, TypeOK
<1>8. ASSUME NEW c \in Conn, Disconnect(c) PROVE OwnerInv'
    <2> DEFINE n == NodeOf[c]
    <2>1. pc[c] = "established" /\ pc' = [pc EXCEPT ![c] = "closed"] /\ UNCHANGED rec
          /\ slot' = (IF slot[n].conn = c
                        THEN [slot EXCEPT ![n] = [conn |-> c, connected |-> FALSE]]
                        ELSE slot)
          /\ pending' = pending \cup {[kind |-> "Disconnected", id |-> c]}
        BY <1>8 DEF Disconnect
    <2>2. OwnerOnline'
        BY <2>1 DEF OwnerOnline, Lead, Committed, TypeOK
    <2>3. PendingClosed'
        BY <2>1, <1>b DEF PendingClosed, TypeOK
    <2>4. OfflineClosed'
        BY <2>1, <1>c DEF OfflineClosed, TypeOK
    <2>. QED
        BY <2>2, <2>3, <2>4
<1>9. ASSUME NEW n \in Node, SessionExpire(n) PROVE OwnerInv'
    <2>1. slot[n].conn # None /\ ~slot[n].connected
          /\ slot' = [slot EXCEPT ![n] = NoSession] /\ UNCHANGED <<rec, pc>>
          /\ pending' = pending \cup {[kind |-> "SessionTerminated", id |-> slot[n].conn]}
        BY <1>9 DEF SessionExpire
    <2>2. pc[slot[n].conn] = "closed"
        BY <2>1 DEF OfflineClosed
    <2>3. PendingClosed'
        BY <2>1, <2>2 DEF PendingClosed, TypeOK
    <2>4. OfflineClosed'
        BY <2>1 DEF OfflineClosed, NoSession, TypeOK
    <2>. QED
        BY <2>1, <2>3, <2>4 DEF OwnerOnline, Lead
<1>10. ASSUME NEW p \in pending, CommitApply(p) PROVE OwnerInv'
    <2>1. rec'[Leader] = CommitStatus(Lead, p) /\ pending' = pending \ {p}
          /\ UNCHANGED <<slot, pc>>
        BY <1>10 DEF CommitApply, ApplyCommit, Lead
    <2>2. pc[p.id] = "closed"
        BY DEF PendingClosed
    <2>3. rec'[Leader] = Lead \/ rec'[Leader].id = p.id \/ rec'[Leader].id = None
        BY <2>1 DEF CommitStatus, NoRecord, Lead, TypeOK, Status
    <2>4. OwnerOnline'
        BY <2>1, <2>2, <2>3 DEF OwnerOnline, Lead, Committed
    <2>. QED
        BY <2>1, <2>4 DEF PendingClosed, OfflineClosed
<1>11. ASSUME NEW p \in pending, CommitGiveUp(p) PROVE OwnerInv'
    BY <1>11 DEF CommitGiveUp, OwnerOnline, PendingClosed, OfflineClosed, Lead
<1>12. CASE HandshakingExpire
    <2>1. rec'[Leader] = [Lead EXCEPT !.handshaking = FALSE] /\ UNCHANGED <<slot, pc, pending>>
        BY <1>12 DEF HandshakingExpire, Lead
    <2>2. rec'[Leader].id = Lead.id /\ rec'[Leader].online = Lead.online
        BY <2>1 DEF Lead, TypeOK, Status
    <2>. QED
        BY <2>1, <2>2 DEF OwnerOnline, PendingClosed, OfflineClosed, Lead
<1>13. CASE Finished \/ UNCHANGED vars
    BY <1>13 DEF Finished, vars, OwnerOnline, PendingClosed, OfflineClosed, Lead
<1>. QED
    BY <1>2, <1>3, <1>4, <1>5, <1>6, <1>7, <1>8, <1>9, <1>10, <1>11, <1>12, <1>13
    DEF Next

(***************************************************************************)
(* LiveOwnerOnline for every set of nodes and attempts: the leader's       *)
(* status never shows its recorded owner offline while that owner is       *)
(* live.  The Disconnected and SessionTerminated commits that the          *)
(* disconnect hooks spawn (handler.rs:42-60) are applied late and only by  *)
(* id; they never demote a live owner because each is about a connection   *)
(* already closed (PendingClosed, OfflineClosed) and a closed connection   *)
(* never becomes live again.                                               *)
(***************************************************************************)
THEOREM OwnerSafety == Spec => []LiveOwnerOnline
<1>1. Init => OwnerInv
    BY InitOwnerInv
<1>2. OwnerInv /\ [Next]_vars => OwnerInv'
    BY NextOwnerInv
<1>3. OwnerInv => LiveOwnerOnline
    BY DEF OwnerInv, OwnerOnline, LiveOwnerOnline, Committed
<1>. QED
    BY <1>1, <1>2, <1>3, PTL DEF Spec
=============================================================================

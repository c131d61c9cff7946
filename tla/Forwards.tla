------------------------------ MODULE Forwards ------------------------------
(***************************************************************************)
(* Cluster-wide delivery of one publish: ClusterShared::forwards in        *)
(* rmqtt-cluster-raft/src/shared.rs and the ForwardsTo arm of              *)
(* HookHandler::hook in handler.rs.                                        *)
(*                                                                         *)
(* The publishing node resolves the matched subscribers, delivers to its   *)
(* own ones synchronously (failures are returned to the caller as the drop *)
(* list), and sends one ForwardsTo RPC per other node from a spawned task, *)
(* each with max_retries 1.  The receiving node delivers to its            *)
(* subscribers and reports its own failures through the message_dropped    *)
(* hook.  Subscriber matching itself is RetainTree's subject: here the     *)
(* router's answer is the constant Matched.                                *)
(***************************************************************************)
EXTENDS Naturals, FiniteSets

CONSTANTS
    Node,       \* cluster nodes
    Sub,        \* subscribers (a client id and its filter)
    SubNode,    \* the node each subscriber's session lives on
    Pub,        \* publishes
    Origin,     \* the node each publish arrives at
    Matched,    \* the router's matches for each publish's topic
    Lossy,      \* whether the network may lose a request or a reply
    RouterFails \* whether Router::matches may return an error

ASSUME ForwardsAssumption ==
    /\ SubNode \in [Sub -> Node]
    /\ Origin \in [Pub -> Node]
    /\ Matched \in [Pub -> SUBSET Sub]
    /\ Lossy \in BOOLEAN
    /\ RouterFails \in BOOLEAN

\* max_retries of the ForwardsTo MessageSender (shared.rs:338).
ForwardsMaxRetries == 1

VARIABLES
    phase,      \* phase[p]: whether forwards(p) has run
    delivered,  \* delivered[p][s]: times s's session got p
    dropped,    \* dropped[p]: subscribers reported dropped for p
    sender,     \* sender[p][n]: the MessageSender of p towards n
    net,        \* ForwardsTo requests in flight
    rep         \* replies in flight

vars == <<phase, delivered, dropped, sender, net, rep>>

Attempt == [p : Pub, n : Node, k : 0..ForwardsMaxRetries]
SenderState == [st : {"none", "wait", "ok", "err"}, try : 0..ForwardsMaxRetries]
NoSender == [st |-> "none", try |-> 0]

\* Subscribers of p whose sessions live on n.
SubsOn(p, n) == {s \in Matched[p] : SubNode[s] = n}

\* The nodes other than the origin that p has subscribers on.
RemoteNodes(p) == {SubNode[s] : s \in Matched[p]} \ {Origin[p]}

TypeOK ==
    /\ phase \in [Pub -> {"init", "done"}]
    /\ delivered \in [Pub -> [Sub -> Nat]]
    /\ dropped \in [Pub -> SUBSET Sub]
    /\ sender \in [Pub -> [Node -> SenderState]]
    /\ net \subseteq Attempt
    /\ rep \subseteq Attempt

Init ==
    /\ phase = [p \in Pub |-> "init"]
    /\ delivered = [p \in Pub |-> [s \in Sub |-> 0]]
    /\ dropped = [p \in Pub |-> {}]
    /\ sender = [p \in Pub |-> [n \in Node |-> NoSender]]
    /\ net = {}
    /\ rep = {}

\* A forwards_to whose error list is thrown away.
DeliverToIgnoreErrs(p, subs, fail) ==
    /\ delivered' = [delivered EXCEPT ![p] =
                        [s \in Sub |-> IF s \in subs \ fail THEN @[s] + 1 ELSE @[s]]]
    /\ UNCHANGED dropped

(***************************************************************************)
(* DefaultShared::forwards_to on one node: every subscriber in subs either *)
(* gets the publish or comes back in the error list (fail).                *)
(***************************************************************************)
DeliverTo(p, subs, fail) ==
    /\ delivered' = [delivered EXCEPT ![p] =
                        [s \in Sub |-> IF s \in subs \ fail THEN @[s] + 1 ELSE @[s]]]
    /\ dropped' = [dropped EXCEPT ![p] = @ \cup fail]

(***************************************************************************)
(* forwards(from, publish): Router::matches failing is logged and treated  *)
(* as no subscribers.  Otherwise local subscribers are served at once and  *)
(* one sender per remote node is started; the spawned task sends them all. *)
(***************************************************************************)
ForwardsRouterError(p) ==
    /\ RouterFails
    /\ phase[p] = "init"
    /\ phase' = [phase EXCEPT ![p] = "done"]
    /\ UNCHANGED <<delivered, dropped, sender, net, rep>>

ForwardsLocal(p) ==
    /\ phase[p] = "init"
    /\ \E fail \in SUBSET SubsOn(p, Origin[p]) :
          DeliverTo(p, SubsOn(p, Origin[p]), fail)
    /\ sender' = [sender EXCEPT ![p] =
                    [n \in Node |-> IF n \in RemoteNodes(p)
                                    THEN [st |-> "wait", try |-> 0] ELSE @[n]]]
    /\ net' = net \cup {[p |-> p, n |-> n, k |-> 0] : n \in RemoteNodes(p)}
    /\ phase' = [phase EXCEPT ![p] = "done"]
    /\ UNCHANGED rep

\* A handler that answers the RPC without awaiting forwards_to.
HandleForwardsToNoAwait(m) ==
    /\ m \in net
    /\ net' = net \ {m}
    /\ rep' = rep \cup {m}
    /\ UNCHANGED <<phase, sender, delivered, dropped>>

(***************************************************************************)
(* The ForwardsTo arm of the hook on the receiving node: forwards_to its   *)
(* subscribers, failures go to hook_message_dropped; the RPC is answered.  *)
(***************************************************************************)
HandleForwardsTo(m) ==
    /\ m \in net
    /\ \E fail \in SUBSET SubsOn(m.p, m.n) : DeliverTo(m.p, SubsOn(m.p, m.n), fail)
    /\ net' = net \ {m}
    /\ rep' = rep \cup {m}
    /\ UNCHANGED <<phase, sender>>

(***************************************************************************)
(* An attempt of the sender fails (transport error or timeout, whether or  *)
(* not the request was delivered): retried while attempts remain, else the *)
(* error is only logged by the spawned task.                               *)
(***************************************************************************)
\* A sender whose retry check counts one attempt too many.
SendFailOffByOne(p, n) ==
    /\ sender[p][n].st = "wait"
    /\ LET k == sender[p][n].try IN
       IF k <= ForwardsMaxRetries
       THEN /\ sender' = [sender EXCEPT ![p][n].try = k + 1]
            /\ net' = net \cup {[p |-> p, n |-> n, k |-> k + 1]}
       ELSE /\ sender' = [sender EXCEPT ![p][n].st = "err"]
            /\ UNCHANGED net
    /\ UNCHANGED <<phase, delivered, dropped, rep>>

SendFail(p, n) ==
    /\ sender[p][n].st = "wait"
    /\ LET k == sender[p][n].try IN
       IF k < ForwardsMaxRetries
       THEN /\ sender' = [sender EXCEPT ![p][n].try = k + 1]
            /\ net' = net \cup {[p |-> p, n |-> n, k |-> k + 1]}
       ELSE /\ sender' = [sender EXCEPT ![p][n].st = "err"]
            /\ UNCHANGED net
    /\ UNCHANGED <<phase, delivered, dropped, rep>>

\* A reply reaches the sender; one to an attempt already given up is ignored.
ReceiveReply(r) ==
    /\ r \in rep
    /\ rep' = rep \ {r}
    /\ sender' = IF sender[r.p][r.n] = [st |-> "wait", try |-> r.k]
                 THEN [sender EXCEPT ![r.p][r.n].st = "ok"]
                 ELSE sender
    /\ UNCHANGED <<phase, delivered, dropped, net>>

\* The network loses a request or a reply.
LoseRequest(m) ==
    /\ Lossy
    /\ m \in net
    /\ net' = net \ {m}
    /\ UNCHANGED <<phase, delivered, dropped, sender, rep>>

LoseReply(r) ==
    /\ Lossy
    /\ r \in rep
    /\ rep' = rep \ {r}
    /\ UNCHANGED <<phase, delivered, dropped, sender, net>>

\* Every publish forwarded and every sender finished: the system is idle.
Finished ==
    /\ \A p \in Pub : phase[p] = "done" /\ \A n \in Node : sender[p][n].st # "wait"
    /\ net = {} /\ rep = {}
    /\ UNCHANGED vars

Next ==
    \/ \E p \in Pub : ForwardsRouterError(p) \/ ForwardsLocal(p)
    \/ \E m \in net : HandleForwardsTo(m) \/ LoseRequest(m)
    \/ \E p \in Pub, n \in Node : SendFail(p, n)
    \/ \E r \in rep : ReceiveReply(r) \/ LoseReply(r)
    \/ Finished

(***************************************************************************)
(* The grpc server handles every request it receives, the spawned task is  *)
(* polled until its senders finish, and an attempt with no answer ends by  *)
(* the client's timeout: all three are weakly fair.  Loss is not.          *)
(***************************************************************************)
Fairness ==
    /\ WF_vars(\E m \in net : HandleForwardsTo(m))
    /\ WF_vars(\E r \in rep : ReceiveReply(r))
    /\ \A p \in Pub, n \in Node : WF_vars(SendFail(p, n))

Spec == Init /\ [][Next]_vars /\ Fairness

-----------------------------------------------------------------------------
(* p's fate at subscriber s is known: s got it, or it is on a drop list.    *)
Accounted(p, s) == delivered[p][s] > 0 \/ s \in dropped[p]

\* Nothing of p is still in flight.
Quiescent(p) ==
    /\ phase[p] = "done"
    /\ \A n \in Node : sender[p][n].st # "wait"
    /\ \A m \in net \cup rep : m.p # p

(***************************************************************************)
(* Spec 4.3 and 7: a publish forwarded to several nodes degrades           *)
(* gracefully; every matched subscriber either receives it or is reported  *)
(* as dropped.  Forwarded: after forwards() returns, every subscriber of   *)
(* the publish is eventually accounted for (forwards, forwards_to and the  *)
(* ForwardsTo handler together).                                           *)
(***************************************************************************)
Forwarded ==
    \A p \in Pub : phase[p] = "done" ~> \A s \in Matched[p] : Accounted(p, s)

(***************************************************************************)
(* NoSilentLoss: once nothing of a publish is in flight any more, every    *)
(* matched subscriber is accounted for, even when RPCs are lost: a remote  *)
(* failure must end on a drop list (spec 4.3), not only in the log.        *)
(***************************************************************************)
NoSilentLoss ==
    \A p \in Pub : Quiescent(p) => \A s \in Matched[p] : Accounted(p, s)

(***************************************************************************)
(* AckedAccounted: when the spawned task's MessageSender to node n ends    *)
(* in Ok, every subscriber of the publish on n got it or is on n's drop    *)
(* list.  The ForwardsTo handler answers only after awaiting forwards_to   *)
(* (handler.rs:92-97), so no reply, whichever attempt it answers and       *)
(* whatever the network lost before, can report a delivery still to come.  *)
(***************************************************************************)
AckedAccounted ==
    \A p \in Pub, n \in Node :
        sender[p][n].st = "ok" => \A s \in SubsOn(p, n) : Accounted(p, s)

(***************************************************************************)
(* DuplicatesBounded: a subscriber gets one publish at most max_retries+1  *)
(* times.  A ForwardsTo attempt that timed out may still be handled, so    *)
(* the retry of shared.rs:338 can deliver the publish again, but each      *)
(* attempt is handled at most once and the spawned task makes at most     *)
(* max_retries + 1 of them per node.                                       *)
(***************************************************************************)
DuplicatesBounded ==
    \A p \in Pub, s \in Sub : delivered[p][s] <= ForwardsMaxRetries + 1
=============================================================================

---------------------------- MODULE ForwardsProofs ----------------------------
(***************************************************************************)
(* Proofs about the cluster-wide forwarding of a publish, for every set of *)
(* nodes, subscribers and publishes, with or without a lossy network: the  *)
(* type invariant, that a ForwardsTo sender ends in Ok only when the       *)
(* receiving node has served or reported every subscriber it was sent,     *)
(* and that retries deliver a publish at most once per attempt.            *)
(***************************************************************************)
EXTENDS Forwards, FiniteSetTheorems, TLAPS

USE ForwardsAssumption

\* The subscribers a publish is sent to on a node are subscribers of it.
LEMMA SubsOnType ==
    ASSUME NEW p \in Pub, NEW n \in Node
    PROVE  SubsOn(p, n) \subseteq Sub
BY DEF SubsOn

\* forwards_to keeps delivered and dropped well typed.
LEMMA DeliverToType ==
    ASSUME TypeOK, NEW p \in Pub, NEW subs \in SUBSET Sub, NEW fail \in SUBSET subs,
           DeliverTo(p, subs, fail)
    PROVE  /\ delivered' \in [Pub -> [Sub -> Nat]]
           /\ dropped' \in [Pub -> SUBSET Sub]
BY DEF DeliverTo, TypeOK

LEMMA InitTypeOK == Init => TypeOK
BY DEF Init, TypeOK, SenderState, NoSender, ForwardsMaxRetries

LEMMA NextTypeOK == TypeOK /\ [Next]_vars => TypeOK'
<1> SUFFICES ASSUME TypeOK, [Next]_vars PROVE TypeOK'
    OBVIOUS
<1>1. ASSUME NEW p \in Pub, ForwardsRouterError(p) PROVE TypeOK'
    BY <1>1 DEF ForwardsRouterError, TypeOK
<1>2. ASSUME NEW p \in Pub, ForwardsLocal(p) PROVE TypeOK'
    <2>1. PICK fail \in SUBSET SubsOn(p, Origin[p]) :
                DeliverTo(p, SubsOn(p, Origin[p]), fail)
        BY <1>2 DEF ForwardsLocal
    <2>2. delivered' \in [Pub -> [Sub -> Nat]] /\ dropped' \in [Pub -> SUBSET Sub]
        BY <2>1, SubsOnType, DeliverToType
    <2>3. sender' \in [Pub -> [Node -> SenderState]]
        BY <1>2 DEF ForwardsLocal, TypeOK, SenderState, ForwardsMaxRetries
    <2>4. net' \subseteq Attempt
        <3>1. RemoteNodes(p) \subseteq Node
            BY DEF RemoteNodes
        <3>. QED
            BY <1>2, <3>1 DEF ForwardsLocal, TypeOK, Attempt, ForwardsMaxRetries
    <2>. QED
        BY <1>2, <2>2, <2>3, <2>4 DEF ForwardsLocal, TypeOK
<1>3. ASSUME NEW m \in net, HandleForwardsTo(m) PROVE TypeOK'
    <2>1. m.p \in Pub /\ m.n \in Node
        BY DEF TypeOK, Attempt
    <2>2. PICK fail \in SUBSET SubsOn(m.p, m.n) : DeliverTo(m.p, SubsOn(m.p, m.n), fail)
        BY <1>3 DEF HandleForwardsTo
    <2>3. SubsOn(m.p, m.n) \subseteq Sub
        BY <2>1, SubsOnType
    <2>4. delivered' \in [Pub -> [Sub -> Nat]] /\ dropped' \in [Pub -> SUBSET Sub]
        BY <2>1, <2>2, <2>3, DeliverToType
    <2>. QED
        BY <1>3, <2>4 DEF HandleForwardsTo, TypeOK
<1>4. ASSUME NEW m \in net, LoseRequest(m) PROVE TypeOK'
    BY <1>4 DEF LoseRequest, TypeOK
<1>5. ASSUME NEW p \in Pub, NEW n \in Node, SendFail(p, n) PROVE TypeOK'
    <2> DEFINE k == sender[p][n].try
    <2>1. k \in 0..ForwardsMaxRetries
        BY DEF TypeOK, SenderState
    <2>2. CASE k < ForwardsMaxRetries
        <3>1. sender' = [sender EXCEPT ![p][n].try = k + 1]
              /\ net' = net \cup {[p |-> p, n |-> n, k |-> k + 1]}
            BY <1>5, <2>2 DEF SendFail
        <3>2. k + 1 \in 0..ForwardsMaxRetries
            BY <2>1, <2>2 DEF ForwardsMaxRetries
        <3>3. [sender[p][n] EXCEPT !.try = k + 1] \in SenderState
            <4>1. sender[p][n] \in SenderState
                BY DEF TypeOK
            <4>2. [sender[p][n] EXCEPT !.try = k + 1] = [st |-> sender[p][n].st, try |-> k + 1]
                BY <4>1 DEF SenderState
            <4>. QED
                BY <4>1, <4>2, <3>2 DEF SenderState
        <3>4. sender' \in [Pub -> [Node -> SenderState]]
            BY <3>1, <3>3 DEF TypeOK
        <3>5. net' \subseteq Attempt
            BY <3>1, <3>2 DEF TypeOK, Attempt
        <3>. QED
            BY <1>5, <3>4, <3>5 DEF SendFail, TypeOK
    <2>3. CASE ~(k < ForwardsMaxRetries)
        <3>1. sender' = [sender EXCEPT ![p][n].st = "err"] /\ net' = net
            BY <1>5, <2>3 DEF SendFail
        <3>2. [sender[p][n] EXCEPT !.st = "err"] \in SenderState
            <4>1. sender[p][n] \in SenderState
                BY DEF TypeOK
            <4>2. [sender[p][n] EXCEPT !.st = "err"] = [st |-> "err", try |-> sender[p][n].try]
                BY <4>1 DEF SenderState
            <4>. QED
                BY <4>1, <4>2 DEF SenderState
        <3>3. sender' \in [Pub -> [Node -> SenderState]]
            BY <3>1, <3>2 DEF TypeOK
        <3>. QED
            BY <1>5, <3>1, <3>3 DEF SendFail, TypeOK
    <2>. QED
        BY <2>2, <2>3
<1>6. ASSUME NEW r \in rep, ReceiveReply(r) PROVE TypeOK'
    <2>1. r.p \in Pub /\ r.n \in Node
        BY DEF TypeOK, Attempt
    <2>. QED
        BY <1>6, <2>1 DEF ReceiveReply, TypeOK, SenderState
<1>7. ASSUME NEW r \in rep, LoseReply(r) PROVE TypeOK'
    BY <1>7 DEF LoseReply, TypeOK
<1>8. CASE Finished \/ UNCHANGED vars
    BY <1>8 DEF Finished, vars, TypeOK
<1>. QED
    BY <1>1, <1>2, <1>3, <1>4, <1>5, <1>6, <1>7, <1>8 DEF Next

(***************************************************************************)
(* Every reachable state of forwarding is well typed: delivery counts are  *)
(* naturals, and every sender stays within its retry budget of            *)
(* max_retries 1 (shared.rs:338).                                          *)
(***************************************************************************)
THEOREM ForwardsTypeCorrect == Spec => []TypeOK
<1>1. Init => TypeOK
    BY InitTypeOK
<1>2. TypeOK /\ [Next]_vars => TypeOK'
    BY NextTypeOK
<1>. QED
    BY <1>1, <1>2, PTL DEF Spec

-----------------------------------------------------------------------------
(* An acknowledged ForwardsTo was served.                                   *)

\* Every reply in flight answers a request whose forwards_to already ran.
RepAccounted ==
    \A r \in rep : \A s \in SubsOn(r.p, r.n) : Accounted(r.p, s)

FwdInv == TypeOK /\ RepAccounted /\ AckedAccounted

\* forwards_to accounts for every subscriber it is given, and forgets none.
LEMMA DeliverToAccounts ==
    ASSUME TypeOK, NEW p \in Pub, NEW subs \in SUBSET Sub, NEW fail \in SUBSET subs,
           DeliverTo(p, subs, fail)
    PROVE  /\ \A s \in subs : Accounted(p, s)'
           /\ \A q \in Pub, s \in Sub : Accounted(q, s) => Accounted(q, s)'
BY DEF DeliverTo, TypeOK, Accounted

\* A step that leaves delivered and dropped alone keeps every account.
LEMMA KeepAccounts ==
    ASSUME UNCHANGED <<delivered, dropped>>
    PROVE  \A q \in Pub, s \in Sub : Accounted(q, s) => Accounted(q, s)'
BY DEF Accounted

LEMMA InitFwdInv == Init => FwdInv
BY InitTypeOK DEF Init, FwdInv, RepAccounted, AckedAccounted, NoSender

LEMMA NextFwdInv == FwdInv /\ [Next]_vars => FwdInv'
<1> SUFFICES ASSUME FwdInv, [Next]_vars PROVE FwdInv'
    OBVIOUS
<1>0. TypeOK /\ TypeOK'
    BY NextTypeOK DEF FwdInv
<1> USE DEF FwdInv
<1>1. ASSUME NEW p \in Pub, ForwardsRouterError(p) PROVE FwdInv'
    BY <1>0, <1>1 DEF ForwardsRouterError, RepAccounted, AckedAccounted, Accounted
<1>2. ASSUME NEW p \in Pub, ForwardsLocal(p) PROVE FwdInv'
    <2>1. PICK fail \in SUBSET SubsOn(p, Origin[p]) :
                DeliverTo(p, SubsOn(p, Origin[p]), fail)
        BY <1>2 DEF ForwardsLocal
    <2>2. \A q \in Pub, s \in Sub : Accounted(q, s) => Accounted(q, s)'
        BY <2>1, SubsOnType, DeliverToAccounts
    <2>3. RepAccounted'
        BY <1>2, <2>2, <1>0 DEF ForwardsLocal, RepAccounted, TypeOK, Attempt, SubsOn
    <2>4. \A q \in Pub, n \in Node : sender'[q][n].st = "ok" => sender[q][n].st = "ok"
        BY <1>2, <1>0 DEF ForwardsLocal, TypeOK
    <2>5. AckedAccounted'
        BY <2>2, <2>4, <1>0 DEF AckedAccounted, SubsOn
    <2>. QED
        BY <1>0, <2>3, <2>5
<1>3. ASSUME NEW m \in net, HandleForwardsTo(m) PROVE FwdInv'
    <2>1. m.p \in Pub /\ m.n \in Node
        BY <1>0 DEF TypeOK, Attempt
    <2>2. PICK fail \in SUBSET SubsOn(m.p, m.n) : DeliverTo(m.p, SubsOn(m.p, m.n), fail)
        BY <1>3 DEF HandleForwardsTo
    <2>3. SubsOn(m.p, m.n) \subseteq Sub
        BY <2>1, SubsOnType
    <2>4. /\ \A s \in SubsOn(m.p, m.n) : Accounted(m.p, s)'
          /\ \A q \in Pub, s \in Sub : Accounted(q, s) => Accounted(q, s)'
        BY <2>1, <2>2, <2>3, <1>0, DeliverToAccounts
    <2>5. RepAccounted'
        <3> SUFFICES ASSUME NEW r \in rep', NEW s \in SubsOn(r.p, r.n)
                     PROVE  Accounted(r.p, s)'
            BY DEF RepAccounted
        <3>1. CASE r = m
            BY <2>4, <3>1
        <3>2. CASE r # m
            <4>1. r \in rep
                BY <1>3, <3>2 DEF HandleForwardsTo
            <4>2. r.p \in Pub /\ s \in Sub
                BY <4>1, <1>0 DEF TypeOK, Attempt, SubsOn
            <4>. QED
                BY <4>1, <4>2, <2>4 DEF RepAccounted
        <3>. QED
            BY <3>1, <3>2
    <2>6. AckedAccounted'
        BY <1>3, <2>4, <1>0 DEF HandleForwardsTo, AckedAccounted, SubsOn
    <2>. QED
        BY <1>0, <2>5, <2>6
<1>4. ASSUME NEW m \in net, LoseRequest(m) PROVE FwdInv'
    BY <1>0, <1>4 DEF LoseRequest, RepAccounted, AckedAccounted, Accounted
<1>5. ASSUME NEW p \in Pub, NEW n \in Node, SendFail(p, n) PROVE FwdInv'
    <2>1. \A q \in Pub, x \in Node : sender'[q][x].st = "ok" => sender[q][x].st = "ok"
        <3> SUFFICES ASSUME NEW q \in Pub, NEW x \in Node, sender'[q][x].st = "ok"
                     PROVE  sender[q][x].st = "ok"
            OBVIOUS
        <3>1. sender[p][n] \in SenderState /\ sender[p][n].st = "wait"
            BY <1>0, <1>5 DEF TypeOK, SendFail
        <3>2. sender'[p][n].st \in {"wait", "err"}
            <4>1. CASE sender[p][n].try < ForwardsMaxRetries
                <5>1. sender' = [sender EXCEPT ![p][n].try = sender[p][n].try + 1]
                    BY <1>5, <4>1 DEF SendFail
                <5>2. sender'[p][n] = [sender[p][n] EXCEPT !.try = sender[p][n].try + 1]
                    BY <5>1, <1>0 DEF TypeOK
                <5>. QED
                    BY <5>2, <3>1 DEF SenderState
            <4>2. CASE ~(sender[p][n].try < ForwardsMaxRetries)
                <5>1. sender' = [sender EXCEPT ![p][n].st = "err"]
                    BY <1>5, <4>2 DEF SendFail
                <5>2. sender'[p][n] = [sender[p][n] EXCEPT !.st = "err"]
                    BY <5>1, <1>0 DEF TypeOK
                <5>. QED
                    BY <5>2, <3>1 DEF SenderState
            <4>. QED
                BY <4>1, <4>2
        <3>3. ~(q = p /\ x = n) => sender'[q][x] = sender[q][x]
            BY <1>5, <1>0 DEF SendFail, TypeOK
        <3>. QED
            BY <3>2, <3>3
    <2>2. AckedAccounted'
        BY <1>5, <2>1 DEF SendFail, AckedAccounted, Accounted
    <2>. QED
        BY <1>0, <1>5, <2>2 DEF SendFail, RepAccounted, Accounted
<1>6. ASSUME NEW r \in rep, ReceiveReply(r) PROVE FwdInv'
    <2>1. r.p \in Pub /\ r.n \in Node
        BY <1>0 DEF TypeOK, Attempt
    <2>2. RepAccounted'
        BY <1>6 DEF ReceiveReply, RepAccounted, Accounted
    <2>3. AckedAccounted'
        <3> SUFFICES ASSUME NEW q \in Pub, NEW x \in Node, sender'[q][x].st = "ok",
                            NEW s \in SubsOn(q, x)
                     PROVE  Accounted(q, s)'
            BY DEF AckedAccounted
        <3>1. CASE q = r.p /\ x = r.n
            BY <1>6, <3>1 DEF ReceiveReply, RepAccounted, Accounted
        <3>2. CASE ~(q = r.p /\ x = r.n)
            <4>1. sender'[q][x] = sender[q][x]
                BY <1>6, <1>0, <2>1, <3>2 DEF ReceiveReply, TypeOK
            <4>. QED
                BY <1>6, <4>1 DEF ReceiveReply, AckedAccounted, Accounted
        <3>. QED
            BY <3>1, <3>2
    <2>. QED
        BY <1>0, <2>2, <2>3
<1>7. ASSUME NEW r \in rep, LoseReply(r) PROVE FwdInv'
    BY <1>0, <1>7 DEF LoseReply, RepAccounted, AckedAccounted, Accounted
<1>8. CASE Finished \/ UNCHANGED vars
    BY <1>0, <1>8 DEF Finished, vars, RepAccounted, AckedAccounted, Accounted
<1>. QED
    BY <1>1, <1>2, <1>3, <1>4, <1>5, <1>6, <1>7, <1>8 DEF Next

(***************************************************************************)
(* For every cluster and every lossy network, a ForwardsTo sender of the   *)
(* spawned task in ClusterShared::forwards ends in Ok only when the        *)
(* receiving node's subscribers of the publish were all served or reported *)
(* dropped.  It rests on RepAccounted: the handler replies only after      *)
(* forwards_to returned, and accounts are never taken back.               *)
(***************************************************************************)
THEOREM AckSafety == Spec => []AckedAccounted
<1>1. Init => FwdInv
    BY InitFwdInv
<1>2. FwdInv /\ [Next]_vars => FwdInv'
    BY NextFwdInv
<1>3. FwdInv => AckedAccounted
    BY DEF FwdInv
<1>. QED
    BY <1>1, <1>2, <1>3, PTL DEF Spec

-----------------------------------------------------------------------------
(* Bounded duplicates.                                                      *)

\* The attempts of p towards n still in the network, by number.
InNet(p, n) == {k \in 0..ForwardsMaxRetries : [p |-> p, n |-> n, k |-> k] \in net}

\* The deliveries p may still make or has made on n: one local delivery on
\* the origin, one per attempt the sender has started elsewhere.
Budget(p, n) ==
    IF sender[p][n].st = "none"
    THEN IF n = Origin[p] /\ phase[p] = "done" THEN 1 ELSE 0
    ELSE sender[p][n].try + 1

\* Before forwards(p) runs nothing of p has happened.
Untouched ==
    \A p \in Pub : phase[p] = "init" =>
        /\ \A s \in Sub : delivered[p][s] = 0
        /\ \A n \in Node : sender[p][n] = NoSender
        /\ \A m \in net : m.p # p

\* Every attempt in flight was started by its sender, and no other sender
\* than the remote ones is ever started.
AttemptsStarted ==
    /\ \A m \in net : sender[m.p][m.n].st # "none" /\ m.k <= sender[m.p][m.n].try
    /\ \A p \in Pub, n \in Node : sender[p][n].st # "none" => n \in RemoteNodes(p)

\* Deliveries already made to s, plus attempts still in flight to its node,
\* fit the budget; s gets nothing of a publish it does not match.
WithinBudgetAt(p, s) ==
    IF s \in Matched[p]
    THEN delivered[p][s] + Cardinality(InNet(p, SubNode[s])) <= Budget(p, SubNode[s])
    ELSE delivered[p][s] = 0

WithinBudget == \A p \in Pub, s \in Sub : WithinBudgetAt(p, s)

DupInv == TypeOK /\ Untouched /\ AttemptsStarted /\ WithinBudget

\* A set of attempt numbers is finite and has at most max_retries+1 members.
LEMMA AttemptNumbers ==
    ASSUME NEW S \in SUBSET (0..ForwardsMaxRetries)
    PROVE  IsFiniteSet(S) /\ Cardinality(S) \in Nat
<1>0. 0 \in Int /\ ForwardsMaxRetries \in Int
    BY DEF ForwardsMaxRetries
<1>1. IsFiniteSet(0..ForwardsMaxRetries)
    BY <1>0, FS_Interval
<1>. QED
    BY <1>1, FS_Subset, FS_CardinalityType

\* A step that leaves s's deliveries, its node's attempts and the budget
\* alone keeps s within budget.
LEMMA BudgetFrame ==
    ASSUME NEW p \in Pub, NEW s \in Sub, WithinBudgetAt(p, s),
           delivered'[p][s] = delivered[p][s],
           InNet(p, SubNode[s])' = InNet(p, SubNode[s]),
           Budget(p, SubNode[s])' = Budget(p, SubNode[s])
    PROVE  WithinBudgetAt(p, s)'
BY DEF WithinBudgetAt

LEMMA InitDupInv == Init => DupInv
<1> SUFFICES ASSUME Init PROVE DupInv
    OBVIOUS
<1>1. \A p \in Pub, n \in Node : InNet(p, n) = {}
    BY DEF Init, InNet
<1>2. WithinBudget
    <2> SUFFICES ASSUME NEW p \in Pub, NEW s \in Sub PROVE WithinBudgetAt(p, s)
        BY DEF WithinBudget
    <2>1. Cardinality(InNet(p, SubNode[s])) = 0
        BY <1>1, FS_EmptySet
    <2>2. Budget(p, SubNode[s]) = 0 /\ delivered[p][s] = 0
        BY DEF Init, Budget, NoSender
    <2>. QED
        BY <2>1, <2>2 DEF WithinBudgetAt
<1>. QED
    BY <1>2, InitTypeOK DEF Init, DupInv, Untouched, AttemptsStarted, NoSender

\* The attempt sets and their sizes, before and after a step.
LEMMA InNetFinite ==
    ASSUME NEW p \in Pub, NEW n \in Node
    PROVE  /\ IsFiniteSet(InNet(p, n)) /\ Cardinality(InNet(p, n)) \in Nat
           /\ IsFiniteSet(InNet(p, n)') /\ Cardinality(InNet(p, n)') \in Nat
<1>1. InNet(p, n) \in SUBSET (0..ForwardsMaxRetries)
      /\ InNet(p, n)' \in SUBSET (0..ForwardsMaxRetries)
    BY DEF InNet
<1>. QED
    BY <1>1, AttemptNumbers

\* Budgets are natural numbers.
LEMMA BudgetType ==
    ASSUME TypeOK, NEW p \in Pub, NEW n \in Node
    PROVE  Budget(p, n) \in Nat
BY DEF TypeOK, Budget, SenderState, ForwardsMaxRetries

\* A step that drops a request or a reply, or changes no sender, delivery
\* or request, keeps every subscriber within budget when its phases only
\* move forward.
LEMMA DupShrink ==
    ASSUME DupInv, TypeOK', net' \subseteq net,
           UNCHANGED <<delivered, sender>>,
           \A p \in Pub : phase'[p] = phase[p] \/ phase'[p] = "done"
    PROVE  DupInv'
<1>1. Untouched'
    BY DEF DupInv, Untouched, TypeOK
<1>2. AttemptsStarted'
    BY DEF DupInv, AttemptsStarted
<1>3. WithinBudget'
    <2> SUFFICES ASSUME NEW p \in Pub, NEW s \in Sub PROVE WithinBudgetAt(p, s)'
        BY DEF WithinBudget
    <2> DEFINE n == SubNode[s]
    <2>0. n \in Node
        OBVIOUS
    <2>1. WithinBudgetAt(p, s)
        BY DEF DupInv, WithinBudget
    <2>2. InNet(p, n)' \subseteq InNet(p, n)
        BY DEF InNet
    <2>3. Cardinality(InNet(p, n)') <= Cardinality(InNet(p, n))
        BY <2>0, <2>2, InNetFinite, FS_Subset
    <2>4. Budget(p, n) <= Budget(p, n)'
        BY <2>0 DEF Budget, DupInv, TypeOK, SenderState, ForwardsMaxRetries
    <2>5. Budget(p, n) \in Nat /\ Budget(p, n)' \in Nat
        <3>1. sender'[p][n] \in SenderState
            BY <2>0 DEF TypeOK
        <3>2. sender'[p][n].try \in 0..ForwardsMaxRetries
            BY <3>1 DEF SenderState
        <3>3. Budget(p, n) \in Nat
            BY <2>0, BudgetType DEF DupInv
        <3>. QED
            BY <3>2, <3>3 DEF Budget, ForwardsMaxRetries
    <2>6. delivered[p][s] \in Nat
        BY DEF DupInv, TypeOK
    <2>. QED
        BY <2>0, <2>1, <2>3, <2>4, <2>5, <2>6, InNetFinite DEF WithinBudgetAt
<1>. QED
    BY <1>1, <1>2, <1>3 DEF DupInv

\* A sender's state has a phase and an attempt number within the budget.
LEMMA SenderFields ==
    ASSUME NEW x \in SenderState
    PROVE  /\ x = [st |-> x.st, try |-> x.try]
           /\ x.try \in 0..ForwardsMaxRetries
BY DEF SenderState

\* forwards(p): the local delivery uses the origin's budget of one, and each
\* remote node gets its first attempt together with a budget of one.
LEMMA DupForwardsLocal ==
    ASSUME DupInv, TypeOK', NEW p \in Pub, ForwardsLocal(p)
    PROVE  DupInv'
<1>0. TypeOK /\ Untouched /\ AttemptsStarted /\ WithinBudget
    BY DEF DupInv
<1>1. /\ phase[p] = "init"
      /\ \A s \in Sub : delivered[p][s] = 0
      /\ \A n \in Node : sender[p][n] = NoSender
      /\ \A m \in net : m.p # p
    BY <1>0 DEF ForwardsLocal, Untouched
<1>2. PICK fail \in SUBSET SubsOn(p, Origin[p]) :
            DeliverTo(p, SubsOn(p, Origin[p]), fail)
    BY DEF ForwardsLocal
<1>3. /\ sender' = [sender EXCEPT ![p] =
                    [n \in Node |-> IF n \in RemoteNodes(p)
                                    THEN [st |-> "wait", try |-> 0] ELSE sender[p][n]]]
      /\ net \subseteq net'
      /\ \A x \in net' : x \in net \/ (x.p = p /\ x.n \in RemoteNodes(p) /\ x.k = 0)
      /\ \A r \in RemoteNodes(p) : [p |-> p, n |-> r, k |-> 0] \in net'
      /\ phase' = [phase EXCEPT ![p] = "done"]
    BY DEF ForwardsLocal
<1>4. delivered' = [delivered EXCEPT ![p] =
                    [s \in Sub |-> IF s \in SubsOn(p, Origin[p]) \ fail
                                   THEN delivered[p][s] + 1 ELSE delivered[p][s]]]
    BY <1>2 DEF DeliverTo
<1>5. Untouched'
    BY <1>0, <1>3, <1>4 DEF Untouched, TypeOK
<1>6. AttemptsStarted'
    <2>1. \A m \in net' : sender'[m.p][m.n].st # "none" /\ m.k <= sender'[m.p][m.n].try
        <3> SUFFICES ASSUME NEW m \in net'
                     PROVE  sender'[m.p][m.n].st # "none" /\ m.k <= sender'[m.p][m.n].try
            OBVIOUS
        <3>1. CASE m.p = p /\ m.n \in RemoteNodes(p) /\ m.k = 0
            BY <3>1, <1>3, <1>0 DEF TypeOK, RemoteNodes
        <3>2. CASE m \in net
            BY <3>2, <1>1, <1>3, <1>0 DEF TypeOK, Attempt, AttemptsStarted
        <3>. QED
            BY <3>1, <3>2, <1>3
    <2>2. \A q \in Pub, n \in Node : sender'[q][n].st # "none" => n \in RemoteNodes(q)
        BY <1>1, <1>3, <1>0 DEF TypeOK, AttemptsStarted, NoSender
    <2>. QED
        BY <2>1, <2>2 DEF AttemptsStarted
<1>7. WithinBudget'
    <2> SUFFICES ASSUME NEW q \in Pub, NEW s \in Sub PROVE WithinBudgetAt(q, s)'
        BY DEF WithinBudget
    <2> DEFINE sn == SubNode[s]
    <2>0. sn \in Node /\ SubsOn(p, Origin[p]) \subseteq Matched[p]
        BY DEF SubsOn
    <2>1. CASE q # p
        <3>1. InNet(q, sn)' = InNet(q, sn)
            BY <2>1, <1>3 DEF InNet
        <3>2. Budget(q, sn)' = Budget(q, sn)
            BY <2>1, <1>3, <2>0, <1>0 DEF Budget, TypeOK
        <3>3. delivered'[q][s] = delivered[q][s]
            BY <2>1, <1>4, <1>0 DEF TypeOK
        <3>. QED
            BY <3>1, <3>2, <3>3, <1>0, BudgetFrame DEF WithinBudget
    <2>2. CASE q = p /\ s \notin Matched[p]
        <3>1. delivered'[p][s] = 0
            BY <2>0, <2>2, <1>1, <1>4, <1>0 DEF TypeOK
        <3>. QED
            BY <2>2, <3>1 DEF WithinBudgetAt
    <2>3. CASE q = p /\ s \in Matched[p] /\ sn = Origin[p]
        <3>1. sn \notin RemoteNodes(p)
            BY <2>3 DEF RemoteNodes
        <3>2. InNet(p, sn)' = {}
            BY <3>1, <1>1, <1>3 DEF InNet
        <3>3. Budget(p, sn)' = 1
            BY <2>0, <2>3, <3>1, <1>1, <1>3, <1>0 DEF Budget, NoSender, TypeOK
        <3>4. delivered'[p][s] <= 1
            BY <1>1, <1>4, <1>0 DEF TypeOK
        <3>5. Cardinality(InNet(p, sn)') = 0 /\ delivered'[p][s] \in Nat
            BY <3>2, FS_EmptySet DEF TypeOK
        <3>. QED
            BY <2>3, <3>3, <3>4, <3>5 DEF WithinBudgetAt
    <2>4. CASE q = p /\ s \in Matched[p] /\ sn # Origin[p]
        <3>1. sn \in RemoteNodes(p)
            BY <2>4 DEF RemoteNodes
        <3>2. InNet(p, sn)' = {0}
            <4>1. [p |-> p, n |-> sn, k |-> 0] \in net'
                BY <3>1, <1>3
            <4>2. [p |-> p, n |-> sn, k |-> 1] \notin net
                BY <1>1
            <4>3. [p |-> p, n |-> sn, k |-> 1] \notin net'
                BY <4>2, <1>3
            <4>. QED
                BY <4>1, <4>3 DEF InNet, ForwardsMaxRetries
        <3>3. Budget(p, sn)' = 1
            BY <2>0, <3>1, <1>3, <1>0 DEF Budget, TypeOK
        <3>4. delivered'[p][s] = 0
            BY <2>4, <1>1, <1>4, <1>0 DEF TypeOK, SubsOn
        <3>5. Cardinality(InNet(p, sn)') = 1
            BY <3>2, FS_Singleton
        <3>. QED
            BY <2>4, <3>3, <3>4, <3>5 DEF WithinBudgetAt
    <2>. QED
        BY <2>1, <2>2, <2>3, <2>4
<1>. QED
    BY <1>5, <1>6, <1>7 DEF DupInv

\* The ForwardsTo handler spends the attempt it consumes: each subscriber
\* it serves gets one more delivery and its node one request fewer.
LEMMA DupHandleForwardsTo ==
    ASSUME DupInv, TypeOK', NEW m \in net, HandleForwardsTo(m)
    PROVE  DupInv'
<1>0. TypeOK /\ Untouched /\ AttemptsStarted /\ WithinBudget
    BY DEF DupInv
<1>1. /\ m = [p |-> m.p, n |-> m.n, k |-> m.k]
      /\ m.p \in Pub /\ m.n \in Node /\ m.k \in 0..ForwardsMaxRetries
    BY <1>0 DEF TypeOK, Attempt
<1>2. PICK fail \in SUBSET SubsOn(m.p, m.n) :
            DeliverTo(m.p, SubsOn(m.p, m.n), fail)
    BY DEF HandleForwardsTo
<1>3. /\ delivered' = [delivered EXCEPT ![m.p] =
                    [s \in Sub |-> IF s \in SubsOn(m.p, m.n) \ fail
                                   THEN delivered[m.p][s] + 1 ELSE delivered[m.p][s]]]
      /\ net' = net \ {m}
      /\ UNCHANGED <<phase, sender>>
    BY <1>2 DEF DeliverTo, HandleForwardsTo
<1>4. phase[m.p] # "init"
    BY <1>0, <1>1 DEF Untouched
<1>5. Untouched'
    BY <1>0, <1>3, <1>4 DEF Untouched, TypeOK
<1>6. AttemptsStarted'
    BY <1>0, <1>3 DEF AttemptsStarted
<1>7. WithinBudget'
    <2> SUFFICES ASSUME NEW q \in Pub, NEW s \in Sub PROVE WithinBudgetAt(q, s)'
        BY DEF WithinBudget
    <2> DEFINE sn == SubNode[s]
    <2>0. sn \in Node /\ delivered[q][s] \in Nat /\ WithinBudgetAt(q, s)
        BY <1>0 DEF TypeOK, WithinBudget
    <2>1. Budget(q, sn)' = Budget(q, sn)
        BY <1>3 DEF Budget
    <2>2. CASE q = m.p /\ s \in Matched[q] /\ sn = m.n
        <3>1. m.k \in InNet(q, sn) /\ InNet(q, sn)' = InNet(q, sn) \ {m.k}
            BY <2>2, <1>1, <1>3 DEF InNet
        <3>0. IsFiniteSet(InNet(q, sn)) /\ Cardinality(InNet(q, sn)) \in Nat
            BY <2>0, InNetFinite
        <3>5. \A S : IsFiniteSet(S) /\ m.k \in S
                     => Cardinality(S \ {m.k}) = Cardinality(S) - 1
            BY FS_RemoveElement
        <3>2. Cardinality(InNet(q, sn)') = Cardinality(InNet(q, sn)) - 1
            BY <3>0, <3>1, <3>5
        <3>3. delivered'[q][s] <= delivered[q][s] + 1
            BY <2>0, <2>2, <1>3, <1>0 DEF TypeOK
        <3>4. Budget(q, sn) \in Nat
            BY <2>0, <1>0, BudgetType
        <3>. QED
            BY <2>0, <2>1, <2>2, <3>0, <3>2, <3>3, <3>4 DEF WithinBudgetAt, TypeOK
    <2>3. CASE ~(q = m.p /\ s \in Matched[q] /\ sn = m.n)
        <3>1. InNet(q, sn)' = InNet(q, sn) \/ s \notin Matched[q]
            BY <2>3, <1>1, <1>3 DEF InNet
        <3>2. delivered'[q][s] = delivered[q][s]
            BY <2>3, <1>3, <1>0 DEF TypeOK, SubsOn
        <3>3. CASE s \notin Matched[q]
            BY <3>3, <3>2, <2>0 DEF WithinBudgetAt
        <3>4. CASE InNet(q, sn)' = InNet(q, sn)
            BY <3>4, <3>2, <2>0, <2>1, BudgetFrame
        <3>. QED
            BY <3>1, <3>3, <3>4
    <2>. QED
        BY <2>2, <2>3
<1>. QED
    BY <1>5, <1>6, <1>7 DEF DupInv

\* A failed attempt of the sender: a retry sends one more request and raises
\* the node's budget by one; giving up changes neither.
LEMMA DupSendFail ==
    ASSUME DupInv, TypeOK', NEW p \in Pub, NEW n \in Node, SendFail(p, n)
    PROVE  DupInv'
<1>0. TypeOK /\ Untouched /\ AttemptsStarted /\ WithinBudget
    BY DEF DupInv
<1> DEFINE k == sender[p][n].try
<1>1. /\ sender[p][n] = [st |-> "wait", try |-> k]
      /\ k \in 0..ForwardsMaxRetries
    BY <1>0, SenderFields DEF SendFail, TypeOK
<1>2. /\ phase[p] # "init"
      /\ n \in RemoteNodes(p)
      /\ \A x \in InNet(p, n) : x <= k
    BY <1>0, <1>1 DEF Untouched, NoSender, AttemptsStarted, InNet
<1>3. UNCHANGED <<phase, delivered>>
    BY DEF SendFail
<1>4. \A q \in Pub, x \in Node : <<q, x>> # <<p, n>> => sender'[q][x] = sender[q][x]
    BY <1>0 DEF SendFail, TypeOK
<1>5. \A q \in Pub, x \in Node : <<q, x>> # <<p, n>> => InNet(q, x)' = InNet(q, x)
    BY <1>0 DEF SendFail, InNet
<1>6. Untouched'
    BY <1>0, <1>2, <1>3, <1>4 DEF Untouched, SendFail
<1>7. \A q \in Pub, s \in Sub :
        SubNode[s] # n \/ q # p => WithinBudgetAt(q, s)'
    <2> SUFFICES ASSUME NEW q \in Pub, NEW s \in Sub, SubNode[s] # n \/ q # p
                 PROVE  WithinBudgetAt(q, s)'
        OBVIOUS
    <2>1. SubNode[s] \in Node
        OBVIOUS
    <2>2. Budget(q, SubNode[s])' = Budget(q, SubNode[s])
        BY <2>1, <1>3, <1>4 DEF Budget
    <2>. QED
        BY <2>1, <2>2, <1>0, <1>3, <1>5, BudgetFrame DEF WithinBudget
<1>8. CASE k < ForwardsMaxRetries
    <2>1. /\ sender'[p][n] = [st |-> "wait", try |-> k + 1]
          /\ net' = net \cup {[p |-> p, n |-> n, k |-> k + 1]}
        <3>1. /\ sender' = [sender EXCEPT ![p][n].try = k + 1]
              /\ net' = net \cup {[p |-> p, n |-> n, k |-> k + 1]}
            BY <1>8 DEF SendFail
        <3>2. sender'[p][n] = [sender[p][n] EXCEPT !.try = k + 1]
            BY <3>1, <1>0 DEF TypeOK
        <3>. QED
            BY <3>1, <3>2, <1>1
    <2>2. InNet(p, n)' = InNet(p, n) \cup {k + 1} /\ k + 1 \notin InNet(p, n)
        BY <2>1, <1>1, <1>2, <1>8 DEF InNet, ForwardsMaxRetries
    <2>3. AttemptsStarted'
        BY <2>1, <1>0, <1>1, <1>2, <1>4 DEF AttemptsStarted, TypeOK, Attempt
    <2>4. \A s \in Sub : SubNode[s] = n => WithinBudgetAt(p, s)'
        <3> SUFFICES ASSUME NEW s \in Sub, SubNode[s] = n PROVE WithinBudgetAt(p, s)'
            OBVIOUS
        <3>0. IsFiniteSet(InNet(p, n)) /\ Cardinality(InNet(p, n)) \in Nat
            BY InNetFinite
        <3>1. \A S : IsFiniteSet(S) /\ k + 1 \notin S
                     => Cardinality(S \cup {k + 1}) = Cardinality(S) + 1
            BY FS_AddElement
        <3>2. Cardinality(InNet(p, n)') = Cardinality(InNet(p, n)) + 1
            BY <3>0, <3>1, <2>2
        <3>3. Budget(p, n)' = Budget(p, n) + 1 /\ Budget(p, n) = k + 1
            BY <2>1, <1>1 DEF Budget
        <3>4. WithinBudgetAt(p, s) /\ delivered'[p][s] = delivered[p][s]
              /\ delivered[p][s] \in Nat
            BY <1>0, <1>3 DEF WithinBudget, TypeOK
        <3>. QED
            BY <3>0, <3>2, <3>3, <3>4, <1>1 DEF WithinBudgetAt
    <2>. QED
        BY <1>6, <1>7, <2>3, <2>4, TypeOK' DEF DupInv, WithinBudget
<1>9. CASE ~(k < ForwardsMaxRetries)
    <2>1. sender'[p][n] = [st |-> "err", try |-> k] /\ net' = net
        BY <1>9, <1>0, <1>1 DEF SendFail, TypeOK
    <2>2. AttemptsStarted'
        <3>1. \A q \in Pub, x \in Node :
                /\ sender'[q][x].st # "none" <=> sender[q][x].st # "none"
                /\ sender'[q][x].try = sender[q][x].try
            BY <2>1, <1>1, <1>4
        <3>. QED
            BY <3>1, <2>1, <1>0 DEF AttemptsStarted, TypeOK, Attempt
    <2>3. \A s \in Sub : SubNode[s] = n => WithinBudgetAt(p, s)'
        <3> SUFFICES ASSUME NEW s \in Sub, SubNode[s] = n PROVE WithinBudgetAt(p, s)'
            OBVIOUS
        <3>1. Budget(p, n)' = Budget(p, n) /\ InNet(p, n)' = InNet(p, n)
            BY <2>1, <1>1 DEF Budget, InNet
        <3>. QED
            BY <3>1, <1>0, <1>3, BudgetFrame DEF WithinBudget
    <2>. QED
        BY <1>6, <1>7, <2>2, <2>3, TypeOK' DEF DupInv, WithinBudget
<1>. QED
    BY <1>8, <1>9

\* A reply only turns a waiting sender into a successful one: its attempt
\* number, and so every budget, stays as it was.
LEMMA DupReceiveReply ==
    ASSUME DupInv, TypeOK', NEW r \in rep, ReceiveReply(r)
    PROVE  DupInv'
<1>0. TypeOK /\ Untouched /\ AttemptsStarted /\ WithinBudget
    BY DEF DupInv
<1>1. r.p \in Pub /\ r.n \in Node
    BY <1>0 DEF TypeOK, Attempt
<1>2. UNCHANGED <<phase, delivered, net>>
    BY DEF ReceiveReply
<1>3. \A q \in Pub, x \in Node :
        \/ sender'[q][x] = sender[q][x]
        \/ sender[q][x] = [st |-> "wait", try |-> r.k]
           /\ sender'[q][x] = [st |-> "ok", try |-> r.k]
    <2> SUFFICES ASSUME NEW q \in Pub, NEW x \in Node,
                        sender'[q][x] # sender[q][x]
                 PROVE  /\ sender[q][x] = [st |-> "wait", try |-> r.k]
                        /\ sender'[q][x] = [st |-> "ok", try |-> r.k]
        OBVIOUS
    <2>1. /\ sender[r.p][r.n] = [st |-> "wait", try |-> r.k]
          /\ sender' = [sender EXCEPT ![r.p][r.n].st = "ok"]
          /\ q = r.p /\ x = r.n
        BY <1>0, <1>1 DEF ReceiveReply, TypeOK
    <2>2. sender'[q][x] = [sender[q][x] EXCEPT !.st = "ok"]
        BY <2>1, <1>0, <1>1 DEF TypeOK
    <2>. QED
        BY <2>1, <2>2
<1>4. \A q \in Pub, x \in Node :
        /\ Budget(q, x)' = Budget(q, x)
        /\ InNet(q, x)' = InNet(q, x)
        /\ (sender'[q][x].st # "none") = (sender[q][x].st # "none")
        /\ sender'[q][x].try = sender[q][x].try
    BY <1>2, <1>3 DEF Budget, InNet
<1>5. Untouched'
    BY <1>0, <1>2, <1>3 DEF Untouched, NoSender
<1>6. AttemptsStarted'
    BY <1>0, <1>2, <1>4 DEF AttemptsStarted, TypeOK, Attempt
<1>7. WithinBudget'
    BY <1>0, <1>2, <1>4, BudgetFrame DEF WithinBudget
<1>. QED
    BY <1>5, <1>6, <1>7 DEF DupInv

\* DupInv is inductive: every step of the spec keeps it.
LEMMA NextDupInv == DupInv /\ [Next]_vars => DupInv'
<1> SUFFICES ASSUME DupInv, [Next]_vars PROVE DupInv'
    OBVIOUS
<1>0. TypeOK'
    BY NextTypeOK DEF DupInv
<1>1. ASSUME NEW p \in Pub, ForwardsRouterError(p) PROVE DupInv'
    BY <1>0, <1>1, DupShrink DEF ForwardsRouterError, DupInv, TypeOK
<1>2. ASSUME NEW p \in Pub, ForwardsLocal(p) PROVE DupInv'
    BY <1>0, <1>2, DupForwardsLocal
<1>3. ASSUME NEW m \in net, HandleForwardsTo(m) PROVE DupInv'
    BY <1>0, <1>3, DupHandleForwardsTo
<1>4. ASSUME NEW m \in net, LoseRequest(m) PROVE DupInv'
    BY <1>0, <1>4, DupShrink DEF LoseRequest
<1>5. ASSUME NEW p \in Pub, NEW n \in Node, SendFail(p, n) PROVE DupInv'
    BY <1>0, <1>5, DupSendFail
<1>6. ASSUME NEW r \in rep, ReceiveReply(r) PROVE DupInv'
    BY <1>0, <1>6, DupReceiveReply
<1>7. ASSUME NEW r \in rep, LoseReply(r) PROVE DupInv'
    BY <1>0, <1>7, DupShrink DEF LoseReply
<1>8. CASE Finished \/ UNCHANGED vars
    BY <1>0, <1>8, DupShrink DEF Finished, vars
<1>. QED
    BY <1>1, <1>2, <1>3, <1>4, <1>5, <1>6, <1>7, <1>8 DEF Next

\* No node's budget exceeds the number of attempts a sender may make.
LEMMA BudgetBound ==
    ASSUME TypeOK, NEW p \in Pub, NEW n \in Node
    PROVE  Budget(p, n) <= ForwardsMaxRetries + 1
BY DEF TypeOK, Budget, SenderState, ForwardsMaxRetries

LEMMA DupInvBounded == DupInv => DuplicatesBounded
<1> SUFFICES ASSUME DupInv, NEW p \in Pub, NEW s \in Sub
             PROVE  delivered[p][s] <= ForwardsMaxRetries + 1
    BY DEF DuplicatesBounded
<1>1. /\ WithinBudgetAt(p, s) /\ delivered[p][s] \in Nat
      /\ SubNode[s] \in Node /\ TypeOK
    BY DEF DupInv, WithinBudget, TypeOK
<1>2. Cardinality(InNet(p, SubNode[s])) \in Nat
    BY <1>1, InNetFinite
<1>3. Budget(p, SubNode[s]) <= ForwardsMaxRetries + 1
    BY <1>1, BudgetBound
<1>4. CASE s \in Matched[p]
    <2>2. Budget(p, SubNode[s]) \in Nat
        BY <1>1, BudgetType
    <2>1. delivered[p][s] <= Budget(p, SubNode[s])
        BY <1>1, <1>2, <1>4, <2>2 DEF WithinBudgetAt
    <2>. QED
        BY <2>1, <2>2, <1>1, <1>3 DEF ForwardsMaxRetries
<1>5. CASE s \notin Matched[p]
    BY <1>1, <1>5 DEF WithinBudgetAt, ForwardsMaxRetries
<1>. QED
    BY <1>4, <1>5

(***************************************************************************)
(* DuplicatesBounded for every set of nodes, subscribers and publishes:    *)
(* MessageSender::send (shared.rs:338) sends the ForwardsTo request again  *)
(* after a timeout or an error even when the first one was handled, so a   *)
(* subscriber may get a publish twice; but never more often than the      *)
(* sender makes attempts, because a delivery on a node consumes a request  *)
(* and each request is paid for by one attempt of that node's sender.      *)
(* The inductive invariant DupInv counts, per subscriber, its deliveries   *)
(* plus the requests still in flight to its node against that budget.     *)
(***************************************************************************)
THEOREM DuplicatesWithinRetries == Spec => []DuplicatesBounded
<1>1. Init => DupInv
    BY InitDupInv
<1>2. DupInv /\ [Next]_vars => DupInv'
    BY NextDupInv
<1>3. DupInv => DuplicatesBounded
    BY DupInvBounded
<1>. QED
    BY <1>1, <1>2, <1>3, PTL DEF Spec
=============================================================================

# TLA+ verification of rmqtt

This directory holds TLA+ models of the parts of rmqtt that decide who owns
an MQTT session in a cluster, of cluster-wide publish delivery, of the
retained-message trie and the RAM retainer, of handshake admission, and of
the HTTP auth/ACL and `$SYS` plugins. For each
model there are TLC configurations that model-check small instances, and
TLAPS proofs that hold for every instance. `PROJECT.json` lists the
components, the runs, the mutants, the source lines every definition models,
the findings, the hazards and the theorems.

## 1. The system and its parts

| Part | Source | State | Operations |
|---|---|---|---|
| Connection state machine | `src/rmqtt/src/broker/v5.rs` | the connection's phase; its inflight window | `handshake`/`_handshake` (admission, auth, `try_lock`, `kick`, `keep_alive`, `set`, CONNACK); `control_message` (close, kick); subscribe, unsubscribe and publish acks |
| Cluster ownership entry | `rmqtt-cluster-raft/src/shared.rs` | the previous owner node (`prev_node_id`) | `try_lock` (raft `HandshakeTryLock`, then the inner lock); `kick` (local, or a `Kick` RPC with a 500 ms timeout and no retry); `set` (raft `Connected`, then the inner `set`); `session_status`; `subscriptions`; `forwards` |
| Cluster hook handler | `rmqtt-cluster-raft/src/handler.rs` | none; it spawns tasks | `ClientDisconnected` and `SessionTerminated` commits retried with backoff for up to 60 s; the `Kick`, `ForwardsTo`, `GetRetains` and `SubscriptionsGet` RPCs |
| Raft client-status machine | not under `src/` | per replica: client id, then `id`, `online` and `handshaking` (with a time) | applies `HandshakeTryLock`, `Connected`, `Disconnected`, `SessionTerminated`; `remove_client_status` (local only) |
| Node-local registry (`DefaultEntry`) | not under `src/` | per node: a lock and a session slot per client id | `try_lock`, `kick`, `set` |
| Retained-message trie | `src/rmqtt/src/broker/retain.rs` | a tree of topic levels holding values | `insert`, `remove` (prunes), `matches` (`+`, `#`, `$`-topics) |
| gRPC layer | `src/rmqtt/src/grpc/mod.rs` | none | the `Message` and `MessageReply` enums; `MessageSender` (timeout, retries); `MessageBroadcaster` |
| RAM retainer limits | `rmqtt-retainer/src/ram.rs` | the store; each task's place in `set` | `set` (checks, then store), expiry |
| HTTP auth/ACL plugin | `rmqtt-auth-http/src/lib.rs` | configuration; per-connection cache | authenticate, ACL check, disconnect, `load_config` |
| Handshake admission | `broker/v5.rs`, `settings/listener.rs` | per-port exec queue; start times | spawn, start with the timeout check, finish |
| `$SYS` publisher plugin | `rmqtt-sys-topic/src/lib.rs` | running flag; spawned tasks; stats loop | hook, `sys_publish`, start/stop, stats round |
| Settings, errors, extension manager, bridges | `error.rs`, `extend.rs`, bridges, build script | configuration | none that the correctness properties depend on |

How the parts interact during a connect, when client id X connects to node N:

1. `_handshake` takes `entry.try_lock()`.
   - In the cluster entry, this first commits `HandshakeTryLock(X)` through raft. The leader refuses it while another handshake of X is marked and not expired.
   - Then it takes N's local lock on X.
   - The previous owner's node is taken from the leader's record.
2. `entry.kick()` evicts the previous session: locally on N, or by a `Kick` RPC to the owner's node. The handler there evicts the session. If it finds none, it calls `remove_client_status`.
3. `entry.set()` commits `Connected(X)`, which ends the handshaking mark and makes N the owner. Then it installs the session in N's registry and releases the local lock.
4. When a session closes or expires, the hook handler commits `Disconnected` or `SessionTerminated` in a background task. Raft applies these only if the record's id still matches.

The hard behaviours:
- Handshakes of one client id on several nodes interleave.
- Raft commits are applied while other steps run.
- Kick RPCs time out and are then handled late.
- The background commits are applied out of order or given up.
- The raft record and the node registries drift apart.

Correctness properties:
- At most one live session per client id.
- The entry lock is held only by a running handshake.
- A session marked connected is a live one on its own node.
- The cluster reports the owner online while it is live.
- At most one handshake of a client id proceeds at a time.
- Retain `matches` equals the MQTT matching rules.
- Removal leaves no empty branches.

## 2. Modules

### ClusterSession.tla: the ownership protocol

- **Constants.**
  - `Node`: the cluster nodes.
  - `Conn`: connection attempts, all with one client id.
  - `NodeOf`: the node each attempt arrives at.
  - `Leader`: a fixed raft leader.
  - `RpcTimeouts`, `LockExpires`: whether Kick RPCs may time out and whether handshaking marks may expire.
- **Variables.**
  - `rec[n]`: node n's replica of the raft ClientStatus.
  - `slot[n]`, `lock[n]`: node n's `DefaultEntry` session slot and lock.
  - `pc[c]`: attempt c's phase in `_handshake`, then its life.
  - `prev[c]`: the owner node read in `try_lock`.
  - `kickReq` and `kickRep`: Kick RPCs and their replies in flight.
  - `pending`: background Disconnected and SessionTerminated commits.
- **Raft.** A committed entry is applied to every replica in one step (`ApplyHandshakeTryLock`, `ApplyConnected`, `ApplyCommit`). Replies come from the leader's replica (`Lead`).
- **Actions.** One action for each step of the code: `HandshakeAdmit`, `TryLockRaft`, `TryLockRaftFail`, `TryLockLocal`, `KickLocal`, `KickRemote`, `KickHandle`, `KickReply`, `KickTimeout`, `SetFail`, `SetCommit`, `SetInstall`, `Disconnect`, `SessionExpire`, `CommitApply`, `CommitGiveUp`, `HandshakingExpire`. Each action's guards and updates follow the lines given in `PROJECT.json`.
  - `KickHandle` is the whole `Kick` arm of the handler. It evicts the session; if there is none, it calls `remove_client_status`, which changes only the handling node's replica.
  - `SetCommit` and `SetInstall` are separate actions because `set()` awaits the raft commit between them. So are the two halves of `try_lock`.
  - `Finished` is the stuttering step of a run where every attempt has ended or is established and nothing is in flight.
- **Abstraction.** Data is abstracted to one client id, since the protocol for different ids is independent. Time is abstracted to the two flags: expiry and timeouts may happen at any time. The model has no raft leader change.
- **Spec-modelled definitions.** The raft apply functions and `Evict` model code that is not under `src/`. They are marked `spec_modelled`.

### RetainTree.tla: the retained-message trie

- `tree` maps each node path (a sequence of levels) to its value or `None`. It is prefix-closed, with the root `<<>>`.
- `InsertPath` and `RemovePath` are `Node::_insert` and `Node::_remove`. `RemovePath` prunes a child left with no value and no branches.
- `MatchAt` is `Node::_matches`, written as a recursive operator returning a bag. A bag is used so that a path reported twice would show.
- `MqttMatch` is the reference: the MQTT filter rules.
  - `+` matches one level and `#` matches the rest, including the parent.
  - At the root, wildcards do not match `$` levels.
- The module uses RECURSIVE operators, so it holds no theorems.

### Forwards.tla: cluster-wide delivery of a publish

- `ClusterShared::forwards` (`shared.rs`) and the `ForwardsTo` arm of the hook handler (`handler.rs`).
- The publishing node delivers to its own subscribers synchronously; their failures form the drop list it returns.
- It sends one `ForwardsTo` per other node from a spawned task, through a `MessageSender` with `max_retries` 1 and a timeout.
- `Lossy` and `RouterFails` switch on lost requests and replies and a failing `Router::matches`.

### RetainStore.tla: what a retained-message store promises

- The abstract specification: a map from topics to the one message retained for each. `Put` replaces a topic's message and `Clear` removes it.
- `RetainTree` implements it. `StoreOf` maps the trie to the map, and `TreeImplementsStore == Abstract!StoreSpec` is checked as a PROPERTY by `retain_matching`.
- `RamRetainer` uses it as its inner storage (`Inner == INSTANCE RetainStore`).

### RamRetainer.tla: the limits of the RAM retainer (`ram.rs`)

- `SetCheck` is `set()` up to its last await: the enable flag, the payload size and `count() >= max_retained_messages`, each with its early return.
- `SetStore` is the store that follows. `Expire` is `remove_expired_messages`.
- Each `Setter` is one connection task. Two setters run the check and the store interleaved.
- `RamConstants` names what the configuration guarantees of the constants. The proofs take it as their hypothesis.

### AuthHttp.tla: the HTTP auth/ACL plugin (`rmqtt-auth-http/src/lib.rs`)

- **State.** `cfg` is the configuration (which of `http_super_req`, `http_auth_req` and `http_acl_req` are set); `load_config` may replace it at any time. `cache` is `cache_map`, and `pending` holds the ACL requests in flight.
- **Actions.** Every HTTP request is split at its await: `Authenticate` sends the super request, then `SuperReply` and `AuthReply` handle the answers, and `AclCheck` is answered by `AclReply`.
- **Cache.** The cache is read before the await and written after it. `Disconnected` evicts the entry.
- **Server answers.** They are constants per connection and key; a reply may also be an error (`"deny"`).

### HandshakeAdmission.tla: admission of v5 handshakes

- `Arrive` reads the start time and spawns the handshake on the port's exec queue.
- The queue runs at most `max_handshaking_limit` handshakes at once. `Start` takes a slot and checks the elapsed time against `Listener::handshake_timeout()`, a u16 of milliseconds that saturates at 65535.
- `Finish` is `_handshake` returning.
- Time is a clock advanced in ticks of 2^14 ms, so that the u16 edge is reached in a few steps.

### SysTopic.tla: the `$SYS` publisher plugin (`rmqtt-sys-topic/src/lib.rs`)

- `Raise(c)` is the broker raising the next event of client c's life: created, connected, subscribed, message dropped, unsubscribed, disconnected, terminated.
- While the plugin runs, the hook spawns one `sys_publish` task per event. `Publish(t)` is such a task completing, in any order.
- `Start` and `Stop` switch the registered hooks and the `running` flag. `LoopWake`, `SendStats` and `SendMetrics` are one round of the stats loop.
- Topics and payloads are abstracted to the event reported.

### Proof modules

- `ClusterSessionProofs.tla` extends ClusterSession and TLAPS.
- `RamRetainerProofs.tla` extends RamRetainer, FiniteSetTheorems and TLAPS.
- `ForwardsProofs.tla` extends Forwards and TLAPS.
- `AuthHttpProofs.tla` extends AuthHttp and TLAPS.
- `HandshakeAdmissionProofs.tla` extends HandshakeAdmission and TLAPS.
- None of them reaches a RECURSIVE operator.

## 3. Runs

| Run | Config | Expect | Checks |
|---|---|---|---|
| `session_safety` | `MC_ClusterSession.cfg` | pass | `TypeOK`, `LiveOwnerOnline`, `LockHeldByHandshake`, `SlotConnectedLive` |
| `handshake_race` | `MC_ClusterSession_ConnectedUnique.cfg` | violation | `ConnectedUnique` |
| `trylock_exclusive` | `MC_ClusterSession_HandshakeExclusive.cfg` | violation | `HandshakeExclusive` |
| `retain_matching` | `MC_RetainTree.cfg` | pass | `TypeOK`, `NoEmptyBranch`, `MatchesCorrect`, `TreeImplementsStore` |
| `forwards_delivery` | `MC_Forwards.cfg` | pass | `TypeOK`, `Forwarded` |
| `forwards_lossy_senders` | `MC_Forwards_Lossy.cfg` | pass | `AckedAccounted`, `DuplicatesBounded` |
| `forwards_silent_loss` | `MC_Forwards_NoSilentLoss.cfg` | violation | `NoSilentLoss` |
| `ram_count_race` | `MC_RamRetainer_Race.cfg` | violation | `CountWithinLimit` |
| `auth_cache_sound` | `MC_AuthHttp.cfg` | pass | `AclSound`, `AuthChecked` |
| `auth_super_unset` | `MC_AuthHttp_NoSuper.cfg` | violation | `AuthChecked` |
| `handshake_timeout_saturates` | `MC_HandshakeAdmission_Saturated.cfg` | violation | `NoEarlyTimeout` |
| `sys_events_reordered` | `MC_SysTopic_Order.cfg` | violation | `EventsInOrder` |

### session_safety

- **Bounds.** Two nodes, and three attempts: c1 and c3 on n1, c2 on n2. Timeouts and expiry are enabled.
- **Why these bounds.** Two attempts on one node exercise the local lock and a local kick. An attempt on the other node exercises the Kick RPC, late kicks, and out-of-order Disconnected commits. Every action fires.
- **Result.** About 270,000 distinct states in seconds.
- **Properties.**
  - `LockHeldByHandshake`: the lock is never leaked on any exit path.
  - `SlotConnectedLive`: a late Kick, a Disconnect and an install never leave a connected slot that belongs to no live session.
  - `LiveOwnerOnline`: a stale Disconnected commit cannot mark the current live owner offline, because raft applies it only when the id matches.

### handshake_race (finding)

- **Setup.** Without timeouts or expiry, c1 on n1 commits `Connected`. That ends the handshaking mark before `inner.set` installs the session.
- **The race.**
  1. c2 on n2 passes `HandshakeTryLock` and reads n1 as the owner.
  2. c2 kicks n1, whose slot is still empty.
  3. c1 installs its session, then c2 installs its session.
- **Result.** Two live sessions of one client id (`shared.rs:85-100`). The spec says consensus ordering leaves one owner.

### trylock_exclusive (finding)

- **The race.**
  1. c2's Kick reaches the leader n1 and finds no session there.
  2. The handler calls `remove_client_status` on the leader replica (`handler.rs:110`). That erases c2's handshaking mark.
  3. c3's `HandshakeTryLock` succeeds while c2 is still in its handshake.
- **Result.** This contradicts spec §8.5, which says only one concurrent `try_lock` proceeds.

### retain_matching

- **Bounds.** Levels `a`, `$s` and blank; depth 2; at most three stored topics.
- **What the run covers.** Every reachable tree, and every filter over those levels with `+` and `#`, including the `$` root rule and blank levels.
- **Why these bounds.** Depth 2 is the least depth at which `#` matching a parent and pruning an intermediate node can happen.

### forwards_delivery and forwards_lossy_senders

- **Bounds.** Two nodes, three subscribers and two publishes.
- **forwards_delivery.** The network delays RPCs but does not lose them. `Forwarded` checks that every matched subscriber of every publish is eventually served or on a drop list, through timeouts and the single retry.
- **forwards_lossy_senders.** Requests and replies may be lost and the router may fail. `AckedAccounted` checks that a sender ending in Ok was answered only after the receiving node served, or reported dropped, every subscriber it was sent. This holds even when an earlier attempt or its reply was lost. `DuplicatesBounded` checks that a subscriber gets a publish at most `max_retries + 1` = 2 times. The retry of `shared.rs:338` can repeat an attempt that was handled but whose reply was lost, so a duplicate does occur; TLC finds a bound of 1 violated.

### forwards_silent_loss (finding)

- A lost `ForwardsTo` is only logged by the sending task (`shared.rs:356`).
- The subscriber is then neither served nor on any drop list, which contradicts the spec's drop-list contract (4.3).

### ram_count_race (finding)

- **Setup.** Two tasks, four topics and `max_retained_messages` = 2.
- **The race.** Both tasks pass the `count()` check at `ram.rs:57` before either stores, so the count reaches 3.
- How far the race can go is proved in section 4: `OvershootWithinSetters`.

### auth_cache_sound

- **Bounds.** Three connections and two topics.
  - c1 is not super, has good credentials and ACL answers of every kind.
  - c2 is super, with bad credentials.
  - c3 is refused by everything.
  - The configuration switches between the two configurations with `http_super_req` set.
- **Properties.**
  - `AclSound`: through concurrent ACL checks, late answers, disconnects and reloads, a cache hit never allows what the server did not.
  - `AuthChecked`: a configured auth request is never skipped.

### auth_super_unset (finding)

- With `http_auth_req` set and `http_super_req` unset, `is_super` returns true (`lib.rs:381`).
- `ClientAuthenticate` then allows a client that the auth server would reject, without asking it.

### handshake_timeout_saturates (finding)

- **Setup.** Three connections, two queue slots, `handshake_timeout` configured to 70 s, and a clock of four ticks of 16384 ms.
- **Trace.** A handshake arrives at 0 ms, waits in the queue until 65536 ms, and is refused as timed out when it starts.
- `Listener::handshake_timeout` (`listener.rs:317`) cuts the 70 s to 65535 ms, and the check at `v5.rs:65` compares against that.
- The spec (handshake step 1) refuses only when the elapsed time exceeds the configured timeout. Any configured value above 65.535 s is silently shortened.

### sys_events_reordered (finding)

- Each `$SYS` event is published by its own spawned task (`lib.rs:376`).
- A subscriber can therefore receive a client's disconnected message before its connected one. The spec says nothing about `$SYS` ordering; this is recorded as a gap.

### Mutants

Every property of a passing run is broken by a mutant of the code it is about (see `mutants` in `PROJECT.json`):

| Property | Mutant |
|---|---|
| `TypeOK` | the kick target without the `unwrap_or` default |
| `LiveOwnerOnline` | the raft apply without the id check |
| `LockHeldByHandshake` | the `set` failure path that keeps the lock |
| `SlotConnectedLive` | a Disconnect that leaves the slot connected |
| `TypeOK` (RetainTree) | an insert that does not create the intermediate nodes |
| `NoEmptyBranch` | a remove without pruning |
| `MatchesCorrect` | matching without the `$` exclusion |
| `TreeImplementsStore` | a remove that prunes a node still holding a value |
| `TypeOK` (Forwards) | a retry counter off by one |
| `Forwarded` | a `forwards_to` whose error list is thrown away |
| `AckedAccounted` | a handler that answers without awaiting `forwards_to` |
| `DuplicatesBounded` | a retry check that allows one attempt too many |
| `AclSound` | a cache lookup that ignores the topic |
| `AuthChecked` | a failed super request counted as super |

### Fairness

Only Forwards has a liveness property (`Forwarded`), and only Forwards states fairness. It is weak fairness of handling a `ForwardsTo`, of receiving a reply, and of a sender's timeout: these are tokio tasks and the sender's timer, which keep running once enabled.

ClusterSession and HandshakeAdmission state no fairness. Their only possible liveness properties would be that a handshaking mark is cleared and that every handshake ends. Each would follow from the fairness of a step that is outside `src/`: the expiry of the mark in the raft state machine, and the return of `_handshake`. They would therefore hold whatever the code under `src/` does, so they are not checked.

## 4. What is proved

`ClusterSessionProofs.tla` proves, for every set of nodes, attempts and leader allowed by `ConstAssumption`:

- **`TypeCorrect`**: `Spec => []TypeOK`.
  - It rests on `EvictType` and `StatusUpdate`.
- **`LockSafety`**: `Spec => []LockHeldByHandshake`.
- **`SlotSafety`**: `Spec => []SlotConnectedLive`.

`LockHeldByHandshake` and `SlotConnectedLive` are not inductive on their own. The inductive invariant `IInv` adds two conjuncts:

- **`HolderHasLock`**: an attempt between try_lock and set holds its node's lock. Without it, a step could take a lock that is already held, because `TryLockLocal`'s guard is about the lock, not about the phase.
- **`SlotOnOwnNode`**: a slot only holds an attempt of its own node. Without it, a kick on one node could evict an attempt in handshake on another.

TLC checked `IInv` as an invariant before the proof. The proof has three lemmas:
- `InitIInv`.
- `NextIInv`: one step per action, with the kick steps split per conjunct and `EvictFacts` describing what `Evict` changes.
- The temporal step, by PTL.

`RamRetainerProofs.tla` proves, for every finite topic set, every value set and every limit that satisfy `RamConstants`:

- **`RamTypeCorrect`**: `Spec => []TypeOK`.
- **`OvershootWithinSetters`**: for every finite set of setters, `MaxRetained > 0 => Count <= MaxRetained + Cardinality(Setter) - 1`.
  - This bounds the check-then-store race of `set()` (`ram.rs:57-67`) by the number of concurrent tasks.
  - The inductive invariant `OvershootInv` says `Count + Cardinality(Checked) <= MaxRetained + Cardinality(Setter) - 1`: each setter past its check still owes at most one store.
  - TLC checked `OvershootInv` with three setters before the proof. It also showed that the bound is reached: `Count = MaxRetained + 2` occurs.
  - The lemmas `PutCount` and `ClearCount` bound the change of the count under a put and a clear. They use `FS_AddElement` and `FS_Subset` from FiniteSetTheorems.
  - `CountWithinLimit` itself is not proved, because it is false: run `ram_count_race` breaks it with two setters.
- No refinement of `RetainStore` is proved. `DefaultRetainStorage` is not under `src/`, so `ram.rs` can only delegate to it, and such a refinement would hold by construction.

`ClusterSessionProofs.tla` also proves **`OwnerSafety`**: `Spec => []LiveOwnerOnline`.
- `LiveOwnerOnline` is not inductive on its own. For all it says, a `Disconnected` or `SessionTerminated` commit waiting in the background task could name the live owner, and applying it would demote that owner.
- The inductive invariant `OwnerInv` adds three conjuncts:
  - `OwnerOnline`: `LiveOwnerOnline` extended to the `install` phase, between `SetCommit` and `SetInstall`.
  - `PendingClosed`: every pending commit is about a closed connection.
  - `OfflineClosed`: every offline session that `SessionExpire` can terminate belongs to a closed connection.
- The lemma `ClosedStays` says a closed connection never becomes live again.
- TLC checked `OwnerInv` on the session_safety instance before the proof.

`ForwardsProofs.tla` proves, for every cluster allowed by `ForwardsAssumption`, with or without loss:
- **`ForwardsTypeCorrect`**: `Spec => []TypeOK`. This includes the retry budget of `max_retries = 1`.
- **`AckSafety`**: `Spec => []AckedAccounted`.
  - The inductive invariant adds `RepAccounted`: every reply in flight answers a request whose `forwards_to` has already run. It holds because the handler awaits `forwards_to` before answering (`handler.rs:92-97`).
  - The lemma `DeliverToAccounts` says a subscriber, once accounted for, stays accounted for.
  - TLC checked the invariant on the lossy instance before the proof.
- **`DuplicatesWithinRetries`**: `Spec => []DuplicatesBounded`. The inductive invariant `DupInv` adds three conjuncts:
  - `Untouched`: a publish that `forwards` has not yet processed has no deliveries, no senders and no requests.
  - `AttemptsStarted`: every request in flight belongs to a started sender, and its attempt number is at most that sender's. Senders run only for remote nodes of the publish.
  - `WithinBudget`: for a matched subscriber, its deliveries plus the requests in flight to its node are at most the node's budget. The budget is the sender's attempts so far, or 1 for the origin node once the local delivery is done. An unmatched subscriber gets nothing.
  - The argument: a handled request moves one unit from "in flight" to "delivered"; a retry adds a request and an attempt together; giving up, losing a message or receiving a reply adds nothing.
  - One lemma per action (`DupForwardsLocal`, `DupHandleForwardsTo`, `DupSendFail`, `DupReceiveReply`, and `DupShrink` for the steps that only drop messages) gives `NextDupInv`.
  - TLC checked `DupInv` on both Forwards instances before the proof.

`AuthHttpProofs.tla` proves, for every client set, topic set and set of server answers allowed by `AuthHttpAssumption`:
- **`AuthTypeCorrect`**: `Spec => []TypeOK`. It rests on the lemmas `UpsertType` and `OrDefaultType` about the cache update.
- **`AclSafety`**: `Spec => []AclSound`.
  - The inductive invariant `AclInv` adds `CacheFromServer`: every superuser flag and every ignored topic in the cache was answered "ignore" by the server for that client.
  - `OrDefaultFromServer` and `UpsertFromServer` show that the cache updates of `lib.rs:345-352` preserve it.
  - TLC checked `AclInv` on the auth_cache_sound instance before the proof.
- **`AuthSafety`**: `SuperConfigured => (Spec => []AuthChecked)`. The hypothesis is that every configuration has `http_super_req`. It is needed: run `auth_super_unset` shows `AuthChecked` violated without it.

`HandshakeAdmissionProofs.tla` proves:
- **`AdmissionTypeCorrect`**: `AdmissionAssumption => (Spec => []TypeOK)`.
- `NoEarlyTimeout` is not proved. Run `handshake_timeout_saturates` shows it false past 65535 ms. Inside that range it would only restate the `>` of `Start`.

What stays with TLC:
- The RetainTree results, `TypeOK`, `NoEmptyBranch`, `MatchesCorrect` and the refinement `TreeImplementsStore`. Its matching and insertion are RECURSIVE operators. A module that reaches one loses the SMT backend, and induction over the trie's data cannot be instantiated by the installed provers.
- The violations. They are counterexamples, found by TLC.
- `Forwarded`. It is a liveness property under fairness, which TLAPS does not handle.
- `NoSilentLoss` and `EventsInOrder` are violated by the code, so there is nothing to prove.

## 5. Not modelled, and why

- **Raft internals** (elections, log replication, snapshots). They are not in `src/`; the model assumes linearizable commits from one leader.
- **Leader change.** The leader is fixed.
- **`subscriptions()` and the `GetRetains` and `SubscriptionsGet` RPCs.**
- **Admin kicks.**
- **Subscribe and publish flows of `v5.rs`.**
- **The rest of the listeners, settings, errors, the extension manager, the bridges and the build script.** They are configuration or I/O.
- **Parts of the plugins.** The HTTP plumbing of auth-http is left out. So are the payloads and topics of sys-topic.
- **Hazards without a property.** They are listed in `PROJECT.json` with a note:
  - The handshaking mark left behind by a refused handshake (`shared.rs:65`). Its expiry is outside `src/`.
  - The admission deadline, checked only when the task starts (`v5.rs:65`). `_handshake` is one step, so a stall after the check is not represented.
  - The given-up Disconnected commit (`handler.rs:53`).
  - auth-http cache entries outliving their connection (`lib.rs:346`, `lib.rs:477`).
  - The stats round after `stop()` (sys-topic `lib.rs:90`).
- **Divergences found while reading, with no run.**
  - `set` does not retry the `Connected` commit.
  - The spec describes `try_lock` as local lock, then raft. The code does raft first (`shared.rs:46-65`).
  - The remote Kick always sends `clear_subscriptions = true` (`shared.rs:144`).

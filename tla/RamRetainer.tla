---------------------------- MODULE RamRetainer ----------------------------
(***************************************************************************)
(* The RAM retainer plugin (rmqtt-retainer/src/ram.rs): RetainStorage::set *)
(* checks the enable flag, the payload size and the message count, then    *)
(* stores into DefaultRetainStorage; remove_expired_messages clears        *)
(* expired ones.  The count check (ram.rs:57) and the store (ram.rs:67)    *)
(* are two awaits, so concurrent publishers run them interleaved: each     *)
(* Setter is one connection task calling set().  The inner storage is the  *)
(* abstract RetainStore, which RetainTree shows the trie implements.       *)
(***************************************************************************)
EXTENDS Naturals, FiniteSets

CONSTANTS
    Setter,       \* connection tasks publishing retained messages
    Topic,        \* concrete topics
    Val,          \* retained messages
    None,
    PayloadLen,   \* PayloadLen[v]: retain.publish.payload.len()
    MaxRetained,  \* cfg.max_retained_messages (0: no limit)
    MaxPayload,   \* cfg.max_payload_size
    RetainEnable  \* retain_enable

\* What the plugin's configuration and the broker guarantee of the constants.
RamConstants ==
    /\ IsFiniteSet(Topic)
    /\ None \notin Val
    /\ PayloadLen \in [Val -> Nat]
    /\ MaxRetained \in Nat
    /\ MaxPayload \in Nat
    /\ RetainEnable \in BOOLEAN

VARIABLES
    store,   \* DefaultRetainStorage: topic -> retained message
    pc,      \* pc[w]: where setter w is in set()
    req      \* req[w]: the (topic, message) setter w is setting

vars == <<store, pc, req>>

Inner == INSTANCE RetainStore

\* DefaultRetainStorage::count.
Count == Cardinality(Inner!Retained)

Request == [t : Topic, v : Val]

\* The outcomes of set(): still checking, past the checks, or returned Ok
\* after one of the early returns (disabled, oversize, over the limit).
Phase == {"idle", "checked", "disabled", "oversize", "refused"}

TypeOK ==
    /\ Inner!StoreTypeOK
    /\ pc \in [Setter -> Phase]
    /\ req \in [Setter -> Request]

Init ==
    /\ Inner!StoreInit
    /\ pc = [w \in Setter |-> "idle"]
    /\ req \in [Setter -> Request]

\* The outcome of the checks of set() for message v at the current count.
CheckOutcome(v) ==
    IF ~RetainEnable THEN "disabled"
    ELSE IF PayloadLen[v] > MaxPayload THEN "oversize"
    ELSE IF MaxRetained > 0 /\ Count >= MaxRetained THEN "refused"
    ELSE "checked"

(***************************************************************************)
(* set(topic, retain), up to its last await: the enable flag, the payload  *)
(* size and the count are read; an early return is the end of the call.    *)
(***************************************************************************)
SetCheck(w) ==
    /\ pc[w] \notin {"checked"}
    /\ \E r \in Request :
          /\ req' = [req EXCEPT ![w] = r]
          /\ pc' = [pc EXCEPT ![w] = CheckOutcome(r.v)]
    /\ UNCHANGED store

\* set_with_timeout: the message is stored; set() returns.
SetStore(w) ==
    /\ pc[w] = "checked"
    /\ Inner!Put(req[w].t, req[w].v)
    /\ pc' = [pc EXCEPT ![w] = "idle"]
    /\ UNCHANGED req

\* remove_expired_messages: a retained message past its expiry is cleared.
Expire(t) ==
    /\ store[t] # None
    /\ Inner!Clear(t)
    /\ UNCHANGED <<pc, req>>

Next ==
    \/ \E w \in Setter : SetCheck(w) \/ SetStore(w)
    \/ \E t \in Topic : Expire(t)

Spec == Init /\ [][Next]_vars

-----------------------------------------------------------------------------
(***************************************************************************)
(* CountWithinLimit: the number of retained messages never exceeds         *)
(* max_retained_messages, the limit set() enforces at ram.rs:57.           *)
(***************************************************************************)
CountWithinLimit == MaxRetained > 0 => Count <= MaxRetained
=============================================================================

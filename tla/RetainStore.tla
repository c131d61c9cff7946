---------------------------- MODULE RetainStore ----------------------------
(***************************************************************************)
(* What a retained-message store promises (RetainStorage in rmqtt, spec    *)
(* 4.1 and 6): a map from concrete topics to the one message retained for  *)
(* each; a set replaces the topic's message, a remove or an expiry clears  *)
(* it, and nothing else changes.  RetainTree (the trie) and RamRetainer    *)
(* (the plugin's limits) are both shown to implement it.                   *)
(***************************************************************************)
EXTENDS FiniteSets

CONSTANTS Topic, Val, None

VARIABLE store

\* The topics that have a retained message.
Retained == {t \in Topic : store[t] # None}

StoreTypeOK == store \in [Topic -> Val \cup {None}]

StoreInit == store = [t \in Topic |-> None]

\* set(topic, retain): the topic's message is replaced.
Put(t, v) == store' = [store EXCEPT ![t] = v]

\* remove(topic) or expiry: the topic has no message any more.
Clear(t) == store' = [store EXCEPT ![t] = None]

StoreNext == \E t \in Topic : Clear(t) \/ \E v \in Val : Put(t, v)

StoreSpec == StoreInit /\ [][StoreNext]_store
=============================================================================

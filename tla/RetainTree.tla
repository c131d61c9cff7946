----------------------------- MODULE RetainTree -----------------------------
(***************************************************************************)
(* The retained-message trie of rmqtt (broker/retain.rs, Node<V>): insert, *)
(* remove with pruning of emptied branches, and matches of a topic filter  *)
(* against the stored concrete topics, with the '+', '#' and '$' rules.    *)
(* The tree is a function from the paths of its existing nodes (the root   *)
(* is <<>>) to the node's value or None.  Only TLC uses this module: the   *)
(* recursive operators stand for the recursive Rust methods.               *)
(***************************************************************************)
EXTENDS Naturals, Sequences, SequencesExt, Bags, FiniteSets

CONSTANTS
    Level,        \* plain topic levels (no wildcards)
    MetaLevels,   \* the levels that start with '$' (Level::is_metadata)
    Blank,        \* the empty level ("a//b", "/a")
    Val,          \* retained values
    None,         \* Option::None
    MaxDepth,     \* longest stored topic, in levels
    MaxStored     \* most topics stored at once (a bound of the model)

Plus == "+"
Hash == "#"

ASSUME RetainAssumption ==
    /\ MetaLevels \subseteq Level /\ Blank \in Level /\ Blank \notin MetaLevels
    /\ {Plus, Hash} \cap Level = {}
    /\ None \notin Val
    /\ MaxDepth \in Nat \ {0} /\ MaxStored \in Nat \ {0}

VARIABLE tree

\* Concrete topics the tree may store.
Topic == BoundedSeq(Level, MaxDepth) \ {<<>>}

\* Valid topic filters: '#' only as the last level.
Filter == {f \in BoundedSeq(Level \cup {Plus, Hash}, MaxDepth + 1) :
              Len(f) > 0 /\ \A i \in 1..(Len(f) - 1) : f[i] # Hash}

\* Node::child / children: the levels under node p of tree tr.
ChildrenIn(tr, p) == {l \in Level : Append(p, l) \in DOMAIN tr}
Children(p) == ChildrenIn(tree, p)

Stored == {p \in DOMAIN tree : tree[p] # None}

TypeOK ==
    /\ <<>> \in DOMAIN tree
    /\ DOMAIN tree \subseteq BoundedSeq(Level, MaxDepth)
    /\ \A p \in DOMAIN tree : Prefixes(p) \subseteq DOMAIN tree
    /\ \A p \in DOMAIN tree : tree[p] \in Val \cup {None}

Init == tree = [p \in {<<>>} |-> None]

-----------------------------------------------------------------------------
(* insert, remove                                                         *)

\* Bug variant: only the leaf node is created, not the missing branches.
InsertPathLeafOnly(tr, t, v) ==
    [q \in DOMAIN tr \cup {t} |-> IF q = t THEN v ELSE tr[q]]

\* Node::insert/_insert: create the missing nodes on the path
\* (entry().or_default()) and replace the value at its end.
InsertPath(tr, t, v) ==
    [q \in DOMAIN tr \cup Prefixes(t) |->
        IF q = t THEN v ELSE IF q \in DOMAIN tr THEN tr[q] ELSE None]

\* The tree without node x (x has no children when this is used).
Drop(tr, x) == [q \in DOMAIN tr \ {x} |-> tr[q]]

\* Bug variant: _remove without pruning the emptied child.
RECURSIVE RemovePathNoPrune(_, _, _)
RemovePathNoPrune(tr, p, rest) ==
    IF rest = <<>> THEN [tr EXCEPT ![p] = None]
    ELSE LET x == Append(p, Head(rest)) IN
         IF x \notin DOMAIN tr THEN tr ELSE RemovePathNoPrune(tr, x, Tail(rest))

\* Bug variant: _remove prunes an emptied-out child even if it holds a value.
RECURSIVE RemovePathPruneValue(_, _, _)
RemovePathPruneValue(tr, p, rest) ==
    IF rest = <<>> THEN [tr EXCEPT ![p] = None]
    ELSE LET x == Append(p, Head(rest)) IN
         IF x \notin DOMAIN tr THEN tr
         ELSE LET t2 == RemovePathPruneValue(tr, x, Tail(rest)) IN
              IF ChildrenIn(t2, x) = {} THEN Drop(t2, x) ELSE t2

\* Node::_remove at node p for the remaining path rest: take the value at
\* the end, then on the way back drop every visited child left with no
\* value and no branches.
RECURSIVE RemovePath(_, _, _)
RemovePath(tr, p, rest) ==
    IF rest = <<>> THEN [tr EXCEPT ![p] = None]
    ELSE LET x == Append(p, Head(rest)) IN
         IF x \notin DOMAIN tr THEN tr
         ELSE LET t2 == RemovePath(tr, x, Tail(rest)) IN
              IF t2[x] = None /\ ChildrenIn(t2, x) = {} THEN Drop(t2, x) ELSE t2

-----------------------------------------------------------------------------
(* matches                                                                *)

\* add_to_out: the node's (topic, value), if it has a value.
Out(q) == IF tree[q] # None THEN SetToBag({<<q, tree[q]>>}) ELSE EmptyBag

\* Bug variant: wildcards at the root also reach '$' topics.
VisibleAll(p) == Children(p)

\* The children a wildcard at node p iterates: at the root, a metadata
\* level ('$...') is skipped unless it is Blank.
Visible(p) == {k \in Children(p) : ~(p = <<>> /\ k # Blank /\ k \in MetaLevels)}

\* Does the filter rest continue with '#' right after its first level?
ThenHash(path) == Len(path) > 1 /\ path[2] = Hash

\* Node::_matches at node p (sub_path is p itself) for the remaining filter
\* levels path; the result is the bag of what is pushed to out.
RECURSIVE MatchAt(_, _)
MatchAt(p, path) ==
    IF Children(p) = {} \/ path = <<>>
      THEN IF path = <<>> THEN Out(p) ELSE EmptyBag
    ELSE IF Append(p, Head(path)) \in DOMAIN tree
      THEN LET r == Append(p, Head(path)) IN
           (IF ThenHash(path) THEN Out(r) ELSE EmptyBag) (+) MatchAt(r, Tail(path))
    ELSE IF Head(path) = Plus
      THEN BagUnion({(IF ThenHash(path) THEN Out(Append(p, k)) ELSE EmptyBag)
                        (+) MatchAt(Append(p, k), Tail(path)) : k \in Visible(p)})
    ELSE IF Head(path) = Hash
      THEN BagUnion({IF Children(Append(p, k)) = {} THEN Out(Append(p, k))
                     ELSE Out(Append(p, k)) (+) MatchAt(Append(p, k), path)
                        : k \in Visible(p)})
    ELSE EmptyBag

\* Node::matches.
Matches(f) == MatchAt(<<>>, f)

-----------------------------------------------------------------------------
(* Reference: MQTT 5 section 4.7 topic matching.                           *)

\* f matches t level by level, '+' any one level, a last '#' any rest
\* (the parent level included); a '$' topic is never reached by a filter
\* that starts with a wildcard.
MqttMatch(f, t) ==
    /\ ~(f[1] \in {Plus, Hash} /\ t[1] \in MetaLevels)
    /\ \/ /\ Len(f) = Len(t)
          /\ \A i \in 1..Len(f) : f[i] = Plus \/ f[i] = t[i]
       \/ /\ f[Len(f)] = Hash
          /\ Len(t) >= Len(f) - 1
          /\ \A i \in 1..(Len(f) - 1) : f[i] = Plus \/ f[i] = t[i]

RefMatches(f) == {<<t, tree[t]>> : t \in {s \in Stored : MqttMatch(f, s)}}

-----------------------------------------------------------------------------

\* RetainStorage set of a concrete topic (DefaultRetainStorage -> insert).
InsertTopic(t, v) ==
    /\ t \in Stored \/ Cardinality(Stored) < MaxStored
    /\ tree' = InsertPath(tree, t, v)

\* Retained message cleared or expired (-> remove).
RemoveTopic(t) == tree' = RemovePath(tree, <<>>, t)

Next ==
    \/ \E t \in Topic, v \in Val : InsertTopic(t, v)
    \/ \E t \in Topic : RemoveTopic(t)

Spec == Init /\ [][Next]_tree

-----------------------------------------------------------------------------
(* The trie implements the abstract store: topic t's message is the value *)
(* of t's node, None when t has no node.                                   *)

StoreOf == [t \in Topic |-> IF t \in DOMAIN tree THEN tree[t] ELSE None]

Abstract == INSTANCE RetainStore WITH store <- StoreOf

(***************************************************************************)
(* TreeImplementsStore: every insert or remove on the trie (Node::insert,  *)
(* Node::remove with its pruning) changes the message of exactly the topic *)
(* it is called for and no other: the trie refines RetainStore.            *)
(***************************************************************************)
TreeImplementsStore == Abstract!StoreSpec

-----------------------------------------------------------------------------

\* Removal prunes: no node but the root is left with no value and no
\* children, whatever sequence of inserts and removes led here.
NoEmptyBranch ==
    \A p \in DOMAIN tree \ {<<>>} : tree[p] # None \/ Children(p) # {}

\* matches(filter) returns exactly the stored (topic, value) pairs that the
\* MQTT rules match, each once.
MatchesCorrect ==
    \A f \in Filter :
        LET b == Matches(f) IN
        /\ BagToSet(b) = RefMatches(f)
        /\ \A e \in BagToSet(b) : CopiesIn(e, b) = 1

=============================================================================

------------------------- MODULE RamRetainerProofs -------------------------
(***************************************************************************)
(* Proofs about the RAM retainer's set(): the type invariant for every     *)
(* configuration, and how far concurrent set() calls can push the count    *)
(* past max_retained_messages: the limit itself is broken by two tasks     *)
(* (run ram_count_race), but never by more than one message per task.      *)
(***************************************************************************)
EXTENDS RamRetainer, FiniteSetTheorems, TLAPS

(* The theorems hold for every value of the constants that satisfies      *)
(* RamConstants; each states it as its hypothesis.                         *)

\* The retained topics are finitely many.
LEMMA RetainedFinite ==
    ASSUME RamConstants, NEW f \in [Topic -> Val \cup {None}]
    PROVE  /\ IsFiniteSet({t \in Topic : f[t] # None})
           /\ Cardinality({t \in Topic : f[t] # None}) \in Nat
<1>1. IsFiniteSet({t \in Topic : f[t] # None})
  BY FS_Subset DEF RamConstants
<1>. QED
  BY <1>1, FS_CardinalityType

\* Storing a message into one topic adds at most one retained topic.
LEMMA PutCount ==
    ASSUME RamConstants, NEW f \in [Topic -> Val \cup {None}], NEW t \in Topic, NEW v \in Val
    PROVE  Cardinality({x \in Topic : [f EXCEPT ![t] = v][x] # None})
             <= Cardinality({x \in Topic : f[x] # None}) + 1
<1> USE DEF RamConstants
<1> DEFINE R == {x \in Topic : f[x] # None}
           R1 == {x \in Topic : [f EXCEPT ![t] = v][x] # None}
<1>1. R1 \subseteq R \cup {t}
  OBVIOUS
<1>2. IsFiniteSet(R) /\ Cardinality(R) \in Nat
  BY RetainedFinite
<1>3. IsFiniteSet(R \cup {t}) /\ Cardinality(R \cup {t}) <= Cardinality(R) + 1
  <2>1. IsFiniteSet(R \cup {t})
        /\ Cardinality(R \cup {t}) = IF t \in R THEN Cardinality(R) ELSE Cardinality(R) + 1
    BY <1>2, FS_AddElement
  <2>. QED
    BY <1>2, <2>1
<1>4. Cardinality(R1) <= Cardinality(R \cup {t})
  BY <1>1, <1>3, FS_Subset
<1>. QED
  BY <1>2, <1>3, <1>4, FS_CardinalityType

\* Clearing a topic adds no retained topic.
LEMMA ClearCount ==
    ASSUME RamConstants, NEW f \in [Topic -> Val \cup {None}], NEW t \in Topic
    PROVE  Cardinality({x \in Topic : [f EXCEPT ![t] = None][x] # None})
             <= Cardinality({x \in Topic : f[x] # None})
<1> DEFINE R == {x \in Topic : f[x] # None}
           R1 == {x \in Topic : [f EXCEPT ![t] = None][x] # None}
<1>1. R1 \subseteq R
  OBVIOUS
<1>2. IsFiniteSet(R)
  BY RetainedFinite
<1>. QED
  BY <1>1, <1>2, FS_Subset

LEMMA InitTypeOK == RamConstants /\ Init => TypeOK
  BY DEF RamConstants, Init, TypeOK, Inner!StoreInit, Inner!StoreTypeOK, Phase

LEMMA NextTypeOK == RamConstants /\ TypeOK /\ [Next]_vars => TypeOK'
<1> SUFFICES ASSUME RamConstants, TypeOK, [Next]_vars PROVE TypeOK'
  OBVIOUS
<1> USE DEF RamConstants
<1>1. ASSUME NEW w \in Setter, SetCheck(w) PROVE TypeOK'
  <2>1. PICK r \in Request : req' = [req EXCEPT ![w] = r]
                             /\ pc' = [pc EXCEPT ![w] = CheckOutcome(r.v)]
    BY <1>1 DEF SetCheck
  <2>2. CheckOutcome(r.v) \in Phase
    BY DEF CheckOutcome, Phase
  <2>. QED
    BY <1>1, <2>1, <2>2 DEF SetCheck, TypeOK, Inner!StoreTypeOK
<1>2. ASSUME NEW w \in Setter, SetStore(w) PROVE TypeOK'
  BY <1>2 DEF SetStore, Inner!Put, TypeOK, Inner!StoreTypeOK, Request, Phase
<1>3. ASSUME NEW t \in Topic, Expire(t) PROVE TypeOK'
  BY <1>3 DEF Expire, Inner!Clear, TypeOK, Inner!StoreTypeOK
<1>4. CASE UNCHANGED vars
  BY <1>4 DEF vars, TypeOK, Inner!StoreTypeOK
<1>. QED
  BY <1>1, <1>2, <1>3, <1>4 DEF Next

(***************************************************************************)
(* Every reachable state of the retainer is well typed: set() only ever    *)
(* stores a message of Val under a topic, and its call ends in one of the  *)
(* outcomes of Phase.                                                      *)
(***************************************************************************)
THEOREM RamTypeCorrect == ASSUME RamConstants PROVE Spec => []TypeOK
<1>1. Init => TypeOK
  BY InitTypeOK
<1>2. TypeOK /\ [Next]_vars => TypeOK'
  BY NextTypeOK
<1>. QED
  BY <1>1, <1>2, PTL DEF Spec

-----------------------------------------------------------------------------
(* The overshoot with concurrent publishers.                               *)

\* The setters between their count check and their store.
Checked == {w \in Setter : pc[w] = "checked"}

(***************************************************************************)
(* OvershootBounded: with n tasks publishing retained messages, the count  *)
(* exceeds max_retained_messages by at most n - 1.  Each task can pass the *)
(* check at ram.rs:57 while the count is one below the limit and then      *)
(* store at ram.rs:67, so the race of run ram_count_race costs at most one *)
(* message per task, and no longer sequence of calls makes it worse.       *)
(***************************************************************************)
OvershootBounded ==
    MaxRetained > 0 => Count <= MaxRetained + Cardinality(Setter) - 1

\* The inductive form: each checked setter still owes one store.
OvershootInv ==
    /\ TypeOK
    /\ MaxRetained > 0 => Count + Cardinality(Checked) <= MaxRetained + Cardinality(Setter) - 1

LEMMA InitOvershootInv ==
    ASSUME RamConstants, IsFiniteSet(Setter)
    PROVE  Init => OvershootInv
<1> SUFFICES ASSUME Init PROVE OvershootInv
  OBVIOUS
<1>1. TypeOK
  BY InitTypeOK
<1>2. Count = 0
  <2>1. Inner!Retained = {}
    BY DEF Init, Inner!StoreInit, Inner!Retained
  <2>. QED
    BY <2>1, FS_EmptySet DEF Count
<1>3. Checked = {}
  BY DEF Init, Checked
<1>4. Cardinality(Setter) \in Nat
  BY FS_CardinalityType
<1>. QED
  BY <1>1, <1>2, <1>3, <1>4, FS_EmptySet DEF OvershootInv, RamConstants

LEMMA NextOvershootInv ==
    ASSUME RamConstants, IsFiniteSet(Setter)
    PROVE  OvershootInv /\ [Next]_vars => OvershootInv'
<1> SUFFICES ASSUME OvershootInv, [Next]_vars PROVE OvershootInv'
  OBVIOUS
<1> USE DEF RamConstants
<1>a. TypeOK /\ TypeOK'
  BY NextTypeOK DEF OvershootInv
<1>b. store \in [Topic -> Val \cup {None}] /\ store' \in [Topic -> Val \cup {None}]
  BY <1>a DEF TypeOK, Inner!StoreTypeOK
<1>c. Count \in Nat /\ Count' \in Nat
  BY <1>b, RetainedFinite DEF Count, Inner!Retained
<1>d. /\ IsFiniteSet(Checked) /\ Cardinality(Checked) \in Nat
      /\ IsFiniteSet(Checked') /\ Cardinality(Checked') \in Nat
      /\ Cardinality(Setter) \in Nat
  BY FS_Subset, FS_CardinalityType DEF Checked
<1> DEFINE Bound == MaxRetained + Cardinality(Setter) - 1
<1>1. ASSUME NEW w \in Setter, SetCheck(w) PROVE OvershootInv'
  <2>1. PICK r \in Request : pc' = [pc EXCEPT ![w] = CheckOutcome(r.v)]
    BY <1>1 DEF SetCheck
  <2>2. Count' = Count
    BY <1>1 DEF SetCheck, Count, Inner!Retained
  <2>3. CASE CheckOutcome(r.v) = "checked"
    <3>1. MaxRetained > 0 => Count < MaxRetained
      BY <2>3, <1>c DEF CheckOutcome
    <3>2. Checked' = Checked \cup {w} /\ w \notin Checked
      BY <1>1, <1>a, <2>1, <2>3 DEF SetCheck, Checked, TypeOK
    <3>3. Cardinality(Checked') = Cardinality(Checked) + 1
      BY <1>d, <3>2, FS_AddElement
    <3>4. Cardinality(Checked') <= Cardinality(Setter)
      BY FS_Subset DEF Checked
    <3>. QED
      BY <1>a, <1>c, <1>d, <2>2, <3>1, <3>4 DEF OvershootInv
  <2>4. CASE CheckOutcome(r.v) # "checked"
    <3>1. Checked' = Checked
      BY <1>1, <1>a, <2>1, <2>4 DEF SetCheck, Checked, TypeOK
    <3>. QED
      BY <1>a, <2>2, <3>1 DEF OvershootInv
  <2>. QED
    BY <2>3, <2>4
<1>2. ASSUME NEW w \in Setter, SetStore(w) PROVE OvershootInv'
  <2>1. Count' <= Count + 1
    <3>1. req[w].t \in Topic /\ req[w].v \in Val
      BY <1>a DEF TypeOK, Request
    <3>2. store' = [store EXCEPT ![req[w].t] = req[w].v]
      BY <1>2 DEF SetStore, Inner!Put
    <3>. QED
      BY <1>b, <3>1, <3>2, PutCount DEF Count, Inner!Retained
  <2>2. Checked' = Checked \ {w} /\ w \in Checked
    BY <1>2, <1>a DEF SetStore, Checked, TypeOK
  <2>3. Cardinality(Checked') = Cardinality(Checked) - 1
    BY <1>d, <2>2, FS_RemoveElement
  <2>. QED
    BY <1>a, <1>c, <1>d, <2>1, <2>3 DEF OvershootInv
<1>3. ASSUME NEW t \in Topic, Expire(t) PROVE OvershootInv'
  <2>1. Count' <= Count
    <3>1. store' = [store EXCEPT ![t] = None]
      BY <1>3 DEF Expire, Inner!Clear
    <3>. QED
      BY <1>b, <3>1, ClearCount DEF Count, Inner!Retained
  <2>2. Checked' = Checked
    BY <1>3 DEF Expire, Checked
  <2>. QED
    BY <1>a, <1>c, <1>d, <2>1, <2>2 DEF OvershootInv
<1>4. CASE UNCHANGED vars
  BY <1>a, <1>4 DEF vars, OvershootInv, Count, Inner!Retained, Checked
<1>. QED
  BY <1>1, <1>2, <1>3, <1>4 DEF Next

(***************************************************************************)
(* For every finite set of publishing tasks, the retained-message count    *)
(* exceeds max_retained_messages by at most one less than the number of    *)
(* tasks: the check-then-store race of set() (ram.rs:57-67) is bounded by  *)
(* the concurrency.  With one task this is SequentialCountWithinLimit.     *)
(***************************************************************************)
THEOREM OvershootWithinSetters ==
    ASSUME RamConstants, IsFiniteSet(Setter)
    PROVE  Spec => []OvershootBounded
<1>1. Init => OvershootInv
  BY InitOvershootInv
<1>2. OvershootInv /\ [Next]_vars => OvershootInv'
  BY NextOvershootInv
<1>3. OvershootInv => OvershootBounded
  <2> SUFFICES ASSUME OvershootInv, MaxRetained > 0
               PROVE  Count <= MaxRetained + Cardinality(Setter) - 1
    BY DEF OvershootBounded
  <2>1. Count \in Nat
    BY RetainedFinite DEF OvershootInv, TypeOK, Inner!StoreTypeOK, Count, Inner!Retained
  <2>2. Cardinality(Checked) \in Nat
    <3>1. Checked \subseteq Setter
      BY DEF Checked
    <3>. QED
      BY <3>1, FS_Subset, FS_CardinalityType
  <2>3. Cardinality(Setter) \in Nat
    BY FS_CardinalityType
  <2>. QED
    BY <2>1, <2>2, <2>3 DEF OvershootInv, RamConstants
<1>. QED
  BY <1>1, <1>2, <1>3, PTL DEF Spec

=============================================================================

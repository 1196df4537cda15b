--------------------------- MODULE TaskWaitProofs ---------------------------
(***************************************************************************)
(* The blocking core keeps its wait queues consistent: every action and    *)
(* every fragment of module TaskWait preserves WaitInv.  The IPC modules   *)
(* cite these lemmas, one per step.                                        *)
(***************************************************************************)
EXTENDS TaskWait, WellFoundedInduction, SequenceTheorems, FiniteSetTheorems, TLAPS

(* The least-number principle, from the library's well-founded minimum.    *)
LEMMA LeastNat ==
    ASSUME NEW S \in SUBSET Nat, S # {}
    PROVE  \E m \in S : \A i \in S : m <= i
<1>1. IsWellFoundedOn(OpToRel(<, Nat), Nat)
  BY NatLessThanWellFounded
<1>2. PICK m \in S : \A y \in S : ~ (<<y, m>> \in OpToRel(<, Nat))
  BY <1>1, WFMin
<1>3. \A y \in S : ~(y < m)
  BY <1>2 DEF OpToRel
<1> QED
  BY <1>3

Once(q) == \A i, j \in 1..Len(q) : q[i] = q[j] => i = j

(* The walk of wait_list_add stops at a position inside or just after the  *)
(* list.                                                                   *)
LEMMA AddPosition ==
    ASSUME NEW q \in Seq(Tasks), NEW t \in Tasks, WaitTypeOK, WaitAssumption
    PROVE  \E i \in 1..(Len(q) + 1) :
              /\ i = Len(q) + 1 \/ prio[q[i]] < prio[t]
              /\ \A j \in 1..(i - 1) : prio[q[j]] >= prio[t]
<1> DEFINE S == {i \in 1..(Len(q) + 1) : i = Len(q) + 1 \/ prio[q[i]] < prio[t]}
<1>1. Len(q) \in Nat /\ \A i \in 1..Len(q) : q[i] \in Tasks
  OBVIOUS
<1>2. S \in SUBSET Nat /\ Len(q) + 1 \in S
  BY <1>1
<1>3. PICK m \in S : \A i \in S : m <= i
  BY <1>2, LeastNat
<1>4. ASSUME NEW j \in 1..(m - 1) PROVE prio[q[j]] >= prio[t]
  <2>1. j \notin S /\ j \in 1..Len(q)
    BY <1>1, <1>3
  <2>2. ~(prio[q[j]] < prio[t])
    BY <1>1, <2>1
  <2>3. prio[q[j]] \in Int /\ prio[t] \in Int
    BY <1>1, <2>1 DEF WaitTypeOK, WaitAssumption
  <2> QED
    BY <2>2, <2>3
<1> QED
  BY <1>3, <1>4

(* What linking a task in does to a list it is not in.                     *)
LEMMA WaitListAddLemma ==
    ASSUME NEW q \in Seq(Tasks), NEW t \in Tasks, WaitTypeOK, WaitAssumption,
           ~InList(q, t), Once(q)
    PROVE  /\ WaitListAdd(q, t) \in Seq(Tasks)
           /\ Once(WaitListAdd(q, t))
           /\ \A u \in Tasks : InList(WaitListAdd(q, t), u) <=> u = t \/ InList(q, u)
<1> DEFINE pos == CHOOSE i \in 1..(Len(q) + 1) :
                    /\ i = Len(q) + 1 \/ prio[q[i]] < prio[t]
                    /\ \A j \in 1..(i - 1) : prio[q[j]] >= prio[t]
           e(i) == IF i < pos THEN q[i] ELSE IF i = pos THEN t ELSE q[i - 1]
           r == [i \in 1..(Len(q) + 1) |-> e(i)]
<1>1. Len(q) \in Nat /\ \A i \in 1..Len(q) : q[i] \in Tasks
  OBVIOUS
<1>2. pos \in 1..(Len(q) + 1)
  BY AddPosition
<1>3. WaitListAdd(q, t) = r
  BY DEF WaitListAdd
<1> HIDE DEF pos
<1>4. \A i \in 1..(Len(q) + 1) : e(i) \in Tasks
  BY <1>1, <1>2
<1>5. r \in Seq(Tasks) /\ Len(r) = Len(q) + 1
  BY <1>1, <1>4
<1>6. Once(r)
  <2> HIDE DEF r
  <2> SUFFICES \A i, j \in 1..Len(r) : r[i] = r[j] => ~(i < j)
    BY <1>1, <1>5 DEF Once
  <2> USE DEF r
  <2> SUFFICES ASSUME NEW i \in 1..Len(r), NEW j \in 1..Len(r), r[i] = r[j], i < j
               PROVE  FALSE
    OBVIOUS
  <2>1. r[i] = e(i) /\ r[j] = e(j) /\ i \in Int /\ j \in Int
    BY <1>5
  <2>2. \A k \in 1..Len(q) : q[k] # t
    BY DEF InList
  <2>3. CASE j = pos
    BY <1>1, <1>2, <1>5, <2>1, <2>2, <2>3
  <2>4. CASE j < pos
    BY <1>1, <1>2, <1>5, <2>1, <2>4 DEF Once
  <2>5. CASE j > pos /\ i = pos
    BY <1>1, <1>2, <1>5, <2>1, <2>2, <2>5
  <2>6. CASE j > pos /\ i < pos
    <3>1. i \in 1..Len(q) /\ j - 1 \in 1..Len(q) /\ q[i] = q[j - 1] /\ i # j - 1
      BY <1>1, <1>2, <1>5, <2>1, <2>6
    <3> QED
      BY <3>1 DEF Once
  <2>7. CASE j > pos /\ i > pos
    <3>1. i - 1 \in 1..Len(q) /\ j - 1 \in 1..Len(q) /\ q[i - 1] = q[j - 1] /\ i - 1 # j - 1
      BY <1>1, <1>2, <1>5, <2>1, <2>7
    <3> QED
      BY <3>1 DEF Once
  <2> QED
    BY <1>2, <2>1, <2>3, <2>4, <2>5, <2>6, <2>7
<1>7. ASSUME NEW u \in Tasks PROVE InList(r, u) <=> u = t \/ InList(q, u)
  <2>1. r[pos] = t
    BY <1>2
  <2>2. \A i \in 1..Len(q) : r[IF i < pos THEN i ELSE i + 1] = q[i]
    BY <1>1, <1>2
  <2>3. \A i \in 1..Len(q) : (IF i < pos THEN i ELSE i + 1) \in 1..(Len(q) + 1)
    BY <1>1, <1>2
  <2>4. u = t \/ InList(q, u) => InList(r, u)
    BY <1>2, <1>5, <2>1, <2>2, <2>3 DEF InList
  <2>5. InList(r, u) => u = t \/ InList(q, u)
    BY <1>1, <1>2, <1>5 DEF InList
  <2> QED
    BY <2>4, <2>5
<1> QED
  BY <1>3, <1>5, <1>6, <1>7

(* Taking a task out of a list it is linked into once.                     *)
LEMMA WaitListRemoveLemma ==
    ASSUME NEW q \in Seq(Tasks), NEW t \in Tasks, Once(q)
    PROVE  /\ WaitListRemove(q, t) \in Seq(Tasks)
           /\ Once(WaitListRemove(q, t))
           /\ \A u \in Tasks : InList(WaitListRemove(q, t), u) <=> u # t /\ InList(q, u)
<1>1. Len(q) \in Nat /\ \A i \in 1..Len(q) : q[i] \in Tasks
  OBVIOUS
<1>2. CASE ~InList(q, t)
  BY <1>2 DEF WaitListRemove, InList
<1>3. CASE InList(q, t)
  <2> DEFINE pos == CHOOSE i \in 1..Len(q) : q[i] = t
             e(i) == IF i < pos THEN q[i] ELSE q[i + 1]
             r == [i \in 1..(Len(q) - 1) |-> e(i)]
  <2>1. pos \in 1..Len(q) /\ q[pos] = t
    BY <1>3 DEF InList
  <2>2. WaitListRemove(q, t) = r
    BY <1>3 DEF WaitListRemove
  <2> HIDE DEF pos
  <2>3. \A i \in 1..(Len(q) - 1) : e(i) \in Tasks
    BY <1>1, <2>1
  <2>4. r \in Seq(Tasks) /\ Len(r) = Len(q) - 1
    BY <1>1, <2>1, <2>3
  <2>5. Once(r)
    BY <1>1, <2>1, <2>4 DEF Once
  <2>6. ASSUME NEW u \in Tasks PROVE InList(r, u) <=> u # t /\ InList(q, u)
    <3>1. ASSUME NEW i \in 1..Len(q), i # pos
          PROVE  \E j \in 1..(Len(q) - 1) : r[j] = q[i]
      <4>1. CASE i < pos
        BY <1>1, <2>1, <4>1
      <4>2. CASE i > pos
        <5>1. i - 1 \in 1..(Len(q) - 1) /\ r[i - 1] = q[i]
          BY <1>1, <2>1, <4>2
        <5> QED
          BY <5>1
      <4> QED
        BY <4>1, <4>2, <3>1, <2>1
    <3>2. u # t /\ InList(q, u) => InList(r, u)
      BY <3>1, <2>1, <2>4 DEF InList
    <3>3. InList(r, u) => u # t /\ InList(q, u)
      BY <1>1, <2>1, <2>4 DEF InList, Once
    <3> QED
      BY <3>2, <3>3
  <2> QED
    BY <2>2, <2>4, <2>5, <2>6
<1> QED
  BY <1>2, <1>3

(* Popping the head.                                                       *)
LEMMA PopLemma ==
    ASSUME NEW q \in Seq(Tasks), q # << >>, Once(q)
    PROVE  /\ Head(q) \in Tasks /\ InList(q, Head(q))
           /\ Tail(q) \in Seq(Tasks)
           /\ Once(Tail(q))
           /\ \A u \in Tasks : InList(Tail(q), u) <=> u # Head(q) /\ InList(q, u)
<1>1. Len(q) \in Nat \ {0} /\ \A i \in 1..Len(q) : q[i] \in Tasks
  BY EmptySeq
<1>2. /\ Head(q) = q[1] /\ Tail(q) \in Seq(Tasks) /\ Len(Tail(q)) = Len(q) - 1
      /\ \A i \in 1..(Len(q) - 1) : Tail(q)[i] = q[i + 1]
  BY HeadTailProperties
<1>3. Once(Tail(q))
  BY <1>1, <1>2 DEF Once
<1>4. ASSUME NEW u \in Tasks, u # q[1], InList(q, u) PROVE InList(Tail(q), u)
  <2>1. PICK i \in 1..Len(q) : q[i] = u
    BY <1>4 DEF InList
  <2>2. i - 1 \in 1..(Len(q) - 1) /\ Tail(q)[i - 1] = u
    BY <1>1, <1>2, <2>1, <1>4
  <2> QED
    BY <2>2, <1>2 DEF InList
<1>5. ASSUME NEW u \in Tasks, InList(Tail(q), u) PROVE u # q[1] /\ InList(q, u)
  BY <1>1, <1>2, <1>5 DEF InList, Once
<1> QED
  BY <1>1, <1>2, <1>3, <1>4, <1>5 DEF InList

(* Taking a set of tasks out.  Position k of the new list holds the k-th    *)
(* of the positions that are kept.                                         *)
LEMMA WaitListWithoutLemma ==
    ASSUME NEW q \in Seq(Tasks), NEW S, Once(q)
    PROVE  /\ WaitListWithout(q, S) \in Seq(Tasks)
           /\ Once(WaitListWithout(q, S))
           /\ \A u \in Tasks : InList(WaitListWithout(q, S), u) <=> u \notin S /\ InList(q, u)
<1> DEFINE kept == {i \in 1..Len(q) : q[i] \notin S}
           upTo(i) == {j \in kept : j <= i}
           Nth(k) == CHOOSE i \in kept : Cardinality({j \in kept : j <= i}) = k
           r == [k \in 1..Cardinality(kept) |-> q[Nth(k)]]
<1>1. Len(q) \in Nat /\ \A i \in 1..Len(q) : q[i] \in Tasks
  OBVIOUS
<1>2. WaitListWithout(q, S) = r
  BY DEF WaitListWithout
<1>3. /\ kept \in SUBSET (1..Len(q)) /\ \A i \in 1..Len(q) : i \in kept <=> q[i] \notin S
      /\ \A i \in kept : i \in Int /\ i \in 1..Len(q) /\ q[i] \in Tasks \ S
  BY <1>1
<1>4. IsFiniteSet(kept) /\ Cardinality(kept) \in Nat
  <2>1. IsFiniteSet(1..Len(q))
    BY <1>1, FS_Interval
  <2> QED
    BY <1>3, <2>1, FS_Subset, FS_CardinalityType
<1> HIDE DEF kept
<1>5. \A i \in Nat : IsFiniteSet(upTo(i)) /\ Cardinality(upTo(i)) \in 0..Cardinality(kept)
  <2> TAKE i \in Nat
  <2>1. upTo(i) \in SUBSET kept
    OBVIOUS
  <2> QED
    BY <1>4, <2>1, FS_Subset, FS_CardinalityType
<1>6. \A i \in Nat : upTo(i + 1) = IF i + 1 \in kept THEN upTo(i) \cup {i + 1} ELSE upTo(i)
  <2> TAKE i \in Nat
  <2>1. \A j \in kept : j <= i + 1 <=> j <= i \/ j = i + 1
    BY <1>3
  <2> QED
    BY <2>1
<1>7. \A i \in Nat : Cardinality(upTo(i + 1)) =
                       IF i + 1 \in kept THEN Cardinality(upTo(i)) + 1 ELSE Cardinality(upTo(i))
  <2> TAKE i \in Nat
  <2>1. i + 1 \notin upTo(i)
    OBVIOUS
  <2> HIDE DEF upTo
  <2> QED
    BY <1>5, <1>6, <2>1, FS_AddElement
<1>8. \A i, j \in kept : i < j => Cardinality(upTo(i)) < Cardinality(upTo(j))
  <2> SUFFICES ASSUME NEW i \in kept, NEW j \in kept, i < j
               PROVE  Cardinality(upTo(i)) < Cardinality(upTo(j))
    OBVIOUS
  <2>1. i \in Nat /\ j - 1 \in Nat /\ (j - 1) + 1 = j
    BY <1>1, <1>3
  <2>2. upTo(i) \in SUBSET upTo(j - 1)
    <3>1. \A n \in kept : n <= i => n <= j - 1
      BY <1>3, <2>1
    <3> QED
      BY <3>1
  <2> HIDE DEF upTo
  <2>3. Cardinality(upTo(i)) <= Cardinality(upTo(j - 1))
    BY <1>5, <2>1, <2>2, FS_Subset
  <2>4. Cardinality(upTo(j)) = Cardinality(upTo(j - 1)) + 1
    BY <1>7, <2>1
  <2> QED
    BY <1>5, <2>1, <2>3, <2>4
<1>9. ASSUME NEW k \in 1..Cardinality(kept)
      PROVE  \E i \in kept : Cardinality(upTo(i)) = k
  <2> DEFINE T == {i \in 0..Len(q) : Cardinality(upTo(i)) >= k}
  <2>1. upTo(0) = {} /\ upTo(Len(q)) = kept
    <3>1. \A i \in kept : ~(i <= 0) /\ i <= Len(q)
      BY <1>1, <1>3
    <3> QED
      BY <3>1
  <2> HIDE DEF upTo
  <2>2. Cardinality(upTo(0)) = 0 /\ Cardinality(upTo(Len(q))) = Cardinality(kept)
    BY <2>1, FS_EmptySet
  <2>3. T \in SUBSET Nat /\ Len(q) \in T
    BY <1>1, <1>4, <2>2
  <2>4. PICK m \in T : \A i \in T : m <= i
    BY <2>3, LeastNat
  <2>5. m \in 1..Len(q) /\ m - 1 \in Nat /\ (m - 1) + 1 = m /\ ~(Cardinality(upTo(m - 1)) >= k)
    BY <1>1, <1>4, <2>2, <2>4
  <2>6. m \in kept /\ Cardinality(upTo(m)) = k
    <3>1. Cardinality(upTo(m)) = IF m \in kept THEN Cardinality(upTo(m - 1)) + 1
                                                ELSE Cardinality(upTo(m - 1))
      BY <1>7, <2>5
    <3>2. Cardinality(upTo(m - 1)) \in Int /\ Cardinality(upTo(m)) >= k
      BY <1>4, <1>5, <2>4, <2>5
    <3> QED
      BY <2>5, <3>1, <3>2
  <2> QED
    BY <2>6
<1>10. \A k \in 1..Cardinality(kept) : Nth(k) \in kept /\ Cardinality(upTo(Nth(k))) = k
  BY <1>9
<1>11. \A i \in kept : Cardinality(upTo(i)) \in 1..Cardinality(kept) /\ Nth(Cardinality(upTo(i))) = i
  <2> TAKE i \in kept
  <2>1. i - 1 \in Nat /\ (i - 1) + 1 = i
    BY <1>1, <1>3
  <2>2. Cardinality(upTo(i)) \in 1..Cardinality(kept)
    <3>1. /\ Cardinality(upTo(i - 1)) \in 0..Cardinality(kept)
          /\ Cardinality(upTo(i)) \in 0..Cardinality(kept)
          /\ Cardinality(upTo(i)) = Cardinality(upTo(i - 1)) + 1
      <4> HIDE DEF upTo
      <4>1. i \in Nat
        BY <2>1
      <4> QED
        BY <1>5, <1>7, <2>1, <4>1
    <3> HIDE DEF upTo
    <3> QED
      BY <1>4, <3>1
  <2>3. \A j \in kept : Cardinality(upTo(j)) = Cardinality(upTo(i)) => j = i
    <3> HIDE DEF upTo
    <3>1. \A j \in kept : j \in Int /\ j \in Nat /\ Cardinality(upTo(j)) \in Int
      BY <1>3, <1>4, <1>5
    <3> QED
      BY <1>8, <3>1
  <2> QED
    BY <1>10, <2>2, <2>3
<1> HIDE DEF upTo, Nth
<1>12. r \in Seq(Tasks) /\ Len(r) = Cardinality(kept)
  <2>1. \A k \in 1..Cardinality(kept) : q[Nth(k)] \in Tasks
    BY <1>3, <1>10
  <2> QED
    BY <1>4, <2>1
<1>13. Once(r)
  <2>1. \A i, j \in 1..Cardinality(kept) : q[Nth(i)] = q[Nth(j)] => i = j
    BY <1>3, <1>10 DEF Once
  <2> QED
    BY <1>12, <2>1 DEF Once
<1>14. ASSUME NEW u \in Tasks PROVE InList(r, u) <=> u \notin S /\ InList(q, u)
  <2>1. ASSUME InList(r, u) PROVE u \notin S /\ InList(q, u)
    BY <1>3, <1>10, <1>12, <2>1 DEF InList
  <2>2. ASSUME u \notin S, InList(q, u) PROVE InList(r, u)
    <3>1. PICK i \in 1..Len(q) : q[i] = u
      BY <2>2 DEF InList
    <3>2. i \in kept
      BY <1>3, <2>2, <3>1
    <3>3. r[Cardinality(upTo(i))] = u
      BY <1>11, <3>1, <3>2
    <3> QED
      BY <1>11, <1>12, <3>2, <3>3 DEF InList
  <2> QED
    BY <2>1, <2>2
<1> QED
  BY <1>2, <1>12, <1>13, <1>14

-----------------------------------------------------------------------------
(* Every fragment and action preserves WaitInv.                            *)
LEMMA WaitUnchanged ==
    ASSUME WaitInv, UNCHANGED <<state, oncpu, stage, arg, blockObj, timed, wakeOk, waitq>>,
           UNCHANGED <<prio, basePrio>>
    PROVE  WaitInv'
  BY DEF WaitInv, WaitTypeOK, QueueMembership, LinkedOnce, DelayedIsBlocked, BlockedInCall, InCall

(* The priorities are priorities; most steps leave them alone.             *)
PrioOK == prio \in [Tasks -> 0..MaxPrio] /\ basePrio \in [Tasks -> 0..MaxPrio]

LEMMA SamePrio == ASSUME WaitInv, UNCHANGED prioVars PROVE PrioOK'
  BY DEF WaitInv, WaitTypeOK, PrioOK, prioVars

LEMMA BlockPreserves ==
    ASSUME WaitAssumption, WaitInv,
           NEW t \in Tasks, NEW q \in Queues, NEW d \in Timeouts,
           Executing(t), Block(t, q, d), PrioOK'
    PROVE  WaitInv'
<1> USE DEF WaitInv
<1>1. state[t] # "BLOCKED" /\ ~InList(waitq[q], t)
  BY DEF BlockedInCall, InCall, Executing, QueueMembership
<1>2. waitq[q] \in Seq(Tasks) /\ Once(waitq[q])
  BY DEF WaitTypeOK, LinkedOnce, Once
<1>3. /\ WaitListAdd(waitq[q], t) \in Seq(Tasks)
      /\ Once(WaitListAdd(waitq[q], t))
      /\ \A u \in Tasks : InList(WaitListAdd(waitq[q], t), u) <=> u = t \/ InList(waitq[q], u)
  BY <1>1, <1>2, WaitListAddLemma
<1>4. waitq' = [waitq EXCEPT ![q] = WaitListAdd(waitq[q], t)]
  BY DEF Block
<1>5. WaitTypeOK'
  BY <1>3, <1>4 DEF WaitTypeOK, Block, PrioOK, TaskStates, Stages
<1>6. QueueMembership'
  <2> SUFFICES ASSUME NEW u \in Tasks, NEW p \in Queues
               PROVE  InList(waitq'[p], u) <=> state'[u] = "BLOCKED" /\ blockObj'[u] = p
    BY DEF QueueMembership
  <2>1. InList(waitq[p], u) <=> state[u] = "BLOCKED" /\ blockObj[u] = p
    BY DEF QueueMembership
  <2>2. CASE p = q
    BY <1>1, <1>3, <1>4, <2>1, <2>2 DEF Block, WaitTypeOK
  <2>3. CASE p # q
    <3>1. waitq'[p] = waitq[p]
      BY <1>4, <2>3 DEF WaitTypeOK
    <3> QED
      BY <1>1, <2>1, <2>3, <3>1 DEF Block, WaitTypeOK
  <2> QED
    BY <2>2, <2>3
<1>7. LinkedOnce'
  BY <1>3, <1>4 DEF LinkedOnce, Once, WaitTypeOK
<1>8. DelayedIsBlocked' /\ BlockedInCall'
  BY DEF DelayedIsBlocked, BlockedInCall, InCall, Block, WaitTypeOK
<1> QED
  BY <1>5, <1>6, <1>7, <1>8

(* A set of blocked tasks leaves the queues and becomes READY, while who   *)
(* wakes them stays in its section or leaves its own call: the common part *)
(* of a hand-off, an expiry and the deletion of an object.                 *)
LEMMA WakePreserves ==
    ASSUME WaitAssumption, WaitInv,
           NEW S \in SUBSET Tasks,
           NEW ok \in BOOLEAN, Wake(S, ok), PrioOK', UNCHANGED oncpu,
           UNCHANGED <<stage, arg>> \/ \E t \in Tasks : Resumes(t) /\ Leave(t),
           waitq' \in [Queues -> Seq(Tasks)],
           \A q \in Queues : Once(waitq'[q]),
           \A q \in Queues, u \in Tasks :
              InList(waitq'[q], u) <=> u \notin S /\ InList(waitq[q], u)
    PROVE  WaitInv'
<1> USE DEF WaitInv
<1>1. stage' \in [Tasks -> Stages] /\ arg' \in [Tasks -> Queues \cup {NoQueue}]
  BY DEF WaitTypeOK, Leave, Stages
<1>2. WaitTypeOK'
  BY <1>1 DEF WaitTypeOK, Wake, PrioOK, TaskStates
<1>3. ASSUME NEW u \in Tasks
      PROVE  state'[u] = "BLOCKED" <=> u \notin S /\ state[u] = "BLOCKED"
  BY DEF Wake
<1>4. ASSUME NEW u \in Tasks, state'[u] = "BLOCKED"
      PROVE  blockObj'[u] = blockObj[u] /\ stage'[u] = stage[u]
  <2>1. ASSUME NEW t \in Tasks, Resumes(t), Leave(t)
        PROVE  stage'[u] = stage[u]
    BY <1>3, <1>4, <2>1 DEF Leave, Resumes, BlockedInCall, WaitTypeOK
  <2> QED
    BY <1>3, <1>4, <2>1 DEF Wake
<1>5. QueueMembership'
  BY <1>3, <1>4 DEF QueueMembership
<1>6. LinkedOnce'
  BY DEF LinkedOnce, Once
<1>7. DelayedIsBlocked'
  BY <1>3 DEF DelayedIsBlocked, Wake
<1>8. BlockedInCall'
  BY <1>3, <1>4 DEF BlockedInCall, InCall
<1> QED
  BY <1>2, <1>5, <1>6, <1>7, <1>8

LEMMA UnblockPreserves ==
    ASSUME WaitAssumption, WaitInv,
           NEW S \in SUBSET Tasks,
           NEW ok \in BOOLEAN, Unblock(S, ok), PrioOK',
           waitq' \in [Queues -> Seq(Tasks)],
           \A q \in Queues : Once(waitq'[q]),
           \A q \in Queues, u \in Tasks :
              InList(waitq'[q], u) <=> u \notin S /\ InList(waitq[q], u)
    PROVE  WaitInv'
BY WakePreserves DEF Unblock

(* A task goes to sleep for no object.                                     *)
LEMMA SleepPreserves ==
    ASSUME WaitAssumption, WaitInv,
           NEW t \in Tasks, NEW d \in Timeouts,
           Executing(t), Sleep(t, d), PrioOK'
    PROVE  WaitInv'
<1> USE DEF WaitInv
<1>1. WaitTypeOK'
  BY DEF WaitTypeOK, Sleep, PrioOK, TaskStates, Stages
<1>2. state[t] # "BLOCKED"
  BY DEF BlockedInCall, InCall, Executing
<1>3. QueueMembership'
  BY <1>2 DEF QueueMembership, Sleep, WaitTypeOK, WaitAssumption
<1>4. LinkedOnce' /\ DelayedIsBlocked' /\ BlockedInCall'
  BY DEF LinkedOnce, DelayedIsBlocked, BlockedInCall, InCall, Sleep, WaitTypeOK
<1> QED
  BY <1>1, <1>3, <1>4

(* Queues are emptied, and all that were in them wake.                     *)
LEMMA EmptiedQueues ==
    ASSUME WaitInv, NEW W \in SUBSET Queues,
           waitq' = [q \in Queues |-> IF q \in W THEN << >> ELSE waitq[q]]
    PROVE  /\ waitq' \in [Queues -> Seq(Tasks)]
           /\ \A q \in Queues : Once(waitq'[q])
           /\ \A q \in Queues, u \in Tasks :
                 InList(waitq'[q], u) <=>
                    u \notin {t \in Tasks : \E p \in W : InList(waitq[p], t)} /\ InList(waitq[q], u)
<1>1. \A q \in Queues : waitq[q] \in Seq(Tasks) /\ Once(waitq[q])
  BY DEF WaitInv, WaitTypeOK, LinkedOnce, Once
<1>2. \A q, p \in Queues, u \in Tasks : InList(waitq[q], u) /\ InList(waitq[p], u) => q = p
  BY DEF WaitInv, QueueMembership
<1>3. Once(<< >>) /\ \A u \in Tasks : ~InList(<< >>, u)
  BY DEF Once, InList
<1> QED
  BY <1>1, <1>2, <1>3

LEMMA PopHighestPreserves ==
    ASSUME WaitAssumption, WaitInv, NEW q \in Queues, waitq[q] # << >>,
           PopHighest(q), PrioOK'
    PROVE  WaitInv' /\ state[Head(waitq[q])] = "BLOCKED" /\ Head(waitq[q]) \in Tasks
<1> DEFINE h == Head(waitq[q])
<1>1. waitq[q] \in Seq(Tasks) /\ Once(waitq[q])
  BY DEF WaitInv, WaitTypeOK, LinkedOnce, Once
<1>2. /\ h \in Tasks /\ InList(waitq[q], h)
      /\ Tail(waitq[q]) \in Seq(Tasks)
      /\ Once(Tail(waitq[q]))
      /\ \A u \in Tasks : InList(Tail(waitq[q]), u) <=> u # h /\ InList(waitq[q], u)
  BY <1>1, PopLemma
<1>3. state[h] = "BLOCKED" /\ blockObj[h] = q
  BY <1>2 DEF WaitInv, QueueMembership
<1> HIDE DEF h
<1>4. waitq' = [waitq EXCEPT ![q] = Tail(waitq[q])] /\ Unblock({h}, TRUE)
  BY DEF PopHighest, h
<1>5. ASSUME NEW p \in Queues
      PROVE  /\ waitq'[p] \in Seq(Tasks) /\ Once(waitq'[p])
             /\ \A u \in Tasks : InList(waitq'[p], u) <=> u \notin {h} /\ InList(waitq[p], u)
  <2>1. CASE p = q
    BY <1>2, <1>4, <2>1 DEF WaitInv, WaitTypeOK
  <2>2. CASE p # q
    <3>1. waitq'[p] = waitq[p] /\ ~InList(waitq[p], h)
      BY <1>2, <1>3, <1>4, <2>2 DEF WaitInv, WaitTypeOK, QueueMembership
    <3>2. waitq[p] \in Seq(Tasks) /\ Once(waitq[p])
      BY DEF WaitInv, WaitTypeOK, LinkedOnce, Once
    <3> QED
      BY <3>1, <3>2
  <2> QED
    BY <2>1, <2>2
<1>6. waitq' \in [Queues -> Seq(Tasks)]
  BY <1>4, <1>5, <1>2 DEF WaitInv, WaitTypeOK
<1>7. \E ok \in BOOLEAN : Unblock({h}, ok)
  BY <1>4
<1>8. WaitInv'
  BY <1>2, <1>5, <1>6, <1>7, UnblockPreserves
<1> QED
  BY <1>8, <1>3, <1>2 DEF h

LEMMA WakeAllPreserves ==
    ASSUME WaitAssumption, WaitInv, NEW q \in Queues, WakeAll(q), PrioOK'
    PROVE  WaitInv'
<1> DEFINE S == {t \in Tasks : InList(waitq[q], t)}
<1>1. Unblock(S, FALSE) /\ waitq' = [waitq EXCEPT ![q] = << >>]
  BY DEF WakeAll
<1>2. ASSUME NEW p \in Queues
      PROVE  /\ waitq'[p] \in Seq(Tasks) /\ Once(waitq'[p])
             /\ \A u \in Tasks : InList(waitq'[p], u) <=> u \notin S /\ InList(waitq[p], u)
  <2>1. CASE p = q
    BY <1>1, <2>1 DEF WaitInv, WaitTypeOK, Once, InList
  <2>2. CASE p # q
    <3>1. waitq'[p] = waitq[p] /\ \A u \in Tasks : InList(waitq[p], u) => u \notin S
      BY <1>1, <2>2 DEF WaitInv, WaitTypeOK, QueueMembership
    <3>2. waitq[p] \in Seq(Tasks) /\ Once(waitq[p])
      BY DEF WaitInv, WaitTypeOK, LinkedOnce, Once
    <3> QED
      BY <3>1, <3>2
  <2> QED
    BY <2>1, <2>2
<1>3. waitq' \in [Queues -> Seq(Tasks)]
  BY <1>1 DEF WaitInv, WaitTypeOK
<1>4. S \in SUBSET Tasks
  OBVIOUS
<1> HIDE DEF S
<1> QED
  BY <1>1, <1>2, <1>3, <1>4, UnblockPreserves

LEMMA LeaveCallPreserves ==
    ASSUME WaitAssumption, WaitInv, NEW t \in Tasks, Resumes(t), LeaveCall(t), PrioOK'
    PROVE  WaitInv'
<1> USE DEF WaitInv
<1>1. WaitTypeOK'
  BY DEF WaitTypeOK, LeaveCall, Leave, PrioOK, Stages
<1>2. QueueMembership' /\ LinkedOnce' /\ DelayedIsBlocked'
  BY DEF QueueMembership, LinkedOnce, DelayedIsBlocked, LeaveCall, Leave
<1>3. BlockedInCall'
  BY DEF BlockedInCall, InCall, LeaveCall, Leave, Resumes, WaitTypeOK
<1> QED
  BY <1>1, <1>2, <1>3

(* What purge_waits leaves in the queues when t is about to leave BLOCKED. *)
LEMMA PurgeLemma ==
    ASSUME WaitAssumption, WaitInv, NEW t \in Tasks
    PROVE  /\ PurgeWaits(t) \in [Queues -> Seq(Tasks)]
           /\ \A q \in Queues : Once(PurgeWaits(t)[q])
           /\ \A q \in Queues, u \in Tasks :
                 InList(PurgeWaits(t)[q], u) <=> u # t /\ InList(waitq[q], u)
<1>1. \A q \in Queues : waitq[q] \in Seq(Tasks) /\ Once(waitq[q])
  BY DEF WaitInv, WaitTypeOK, LinkedOnce, Once
<1>2. \A q \in Queues : InList(waitq[q], t) <=> state[t] = "BLOCKED" /\ blockObj[t] = q
  BY DEF WaitInv, QueueMembership
<1>3. CASE state[t] = "BLOCKED" /\ blockObj[t] # NoQueue
  <2> DEFINE b == blockObj[t]
  <2>1. b \in Queues
    BY <1>3 DEF WaitInv, WaitTypeOK
  <2>2. PurgeWaits(t) = [waitq EXCEPT ![b] = WaitListRemove(waitq[b], t)]
    BY <1>3 DEF PurgeWaits
  <2>3. /\ WaitListRemove(waitq[b], t) \in Seq(Tasks)
        /\ Once(WaitListRemove(waitq[b], t))
        /\ \A u \in Tasks : InList(WaitListRemove(waitq[b], t), u) <=> u # t /\ InList(waitq[b], u)
    BY <1>1, <2>1, WaitListRemoveLemma
  <2> HIDE DEF b
  <2>4. ASSUME NEW q \in Queues
        PROVE  /\ Once(PurgeWaits(t)[q])
               /\ \A u \in Tasks : InList(PurgeWaits(t)[q], u) <=> u # t /\ InList(waitq[q], u)
    <3>1. CASE q = b
      BY <2>1, <2>2, <2>3, <3>1 DEF WaitInv, WaitTypeOK
    <3>2. CASE q # b
      <4>1. PurgeWaits(t)[q] = waitq[q] /\ ~InList(waitq[q], t)
        BY <1>2, <2>2, <3>2 DEF WaitInv, WaitTypeOK, b
      <4> QED
        BY <1>1, <4>1
    <3> QED
      BY <3>1, <3>2
  <2> QED
    BY <2>1, <2>2, <2>3, <2>4 DEF WaitInv, WaitTypeOK
<1>4. CASE ~(state[t] = "BLOCKED" /\ blockObj[t] # NoQueue)
  <2>1. PurgeWaits(t) = waitq
    BY <1>4 DEF PurgeWaits
  <2>2. \A q \in Queues : ~InList(waitq[q], t)
    BY <1>2, <1>4 DEF WaitAssumption
  <2> QED
    BY <1>1, <2>1, <2>2 DEF WaitInv, WaitTypeOK
<1> QED
  BY <1>3, <1>4

LEMMA ExpirePreserves ==
    ASSUME WaitAssumption, WaitInv, NEW t \in Tasks, Expire(t)
    PROVE  WaitInv'
<1>1. Unblock({t}, FALSE) /\ PrioOK' /\ waitq' = PurgeWaits(t)
  BY SamePrio DEF Expire
<1>2. /\ waitq' \in [Queues -> Seq(Tasks)] /\ \A q \in Queues : Once(waitq'[q])
      /\ \A q \in Queues, u \in Tasks : InList(waitq'[q], u) <=> u \notin {t} /\ InList(waitq[q], u)
  BY <1>1, PurgeLemma
<1> QED
  BY <1>1, <1>2, UnblockPreserves

(* A task leaves BLOCKED for a state in which it waits for nothing.        *)
LEMMA LeaveBlockedPreserves ==
    ASSUME WaitAssumption, WaitInv, NEW t \in Tasks, NEW s \in TaskStates \ {"BLOCKED"},
           state' = [state EXCEPT ![t] = s],
           timed' = [timed EXCEPT ![t] = FALSE],
           waitq' = PurgeWaits(t),
           UNCHANGED <<oncpu, stage, arg, blockObj, wakeOk>>,
           PrioOK'
    PROVE  WaitInv'
<1>1. /\ waitq' \in [Queues -> Seq(Tasks)] /\ \A q \in Queues : Once(waitq'[q])
      /\ \A q \in Queues, u \in Tasks : InList(waitq'[q], u) <=> u # t /\ InList(waitq[q], u)
  BY PurgeLemma
<1>2. ASSUME NEW u \in Tasks
      PROVE  state'[u] = "BLOCKED" <=> u # t /\ state[u] = "BLOCKED"
  BY DEF WaitInv, WaitTypeOK
<1>3. WaitTypeOK'
  BY <1>1 DEF WaitInv, WaitTypeOK, PrioOK
<1>4. QueueMembership'
  BY <1>1, <1>2 DEF WaitInv, QueueMembership
<1>5. LinkedOnce'
  BY <1>1 DEF LinkedOnce, Once
<1>6. DelayedIsBlocked' /\ BlockedInCall'
  BY <1>2 DEF WaitInv, WaitTypeOK, DelayedIsBlocked, BlockedInCall, InCall
<1> QED
  BY <1>3, <1>4, <1>5, <1>6 DEF WaitInv

LEMMA SuspendPreserves ==
    ASSUME WaitAssumption, WaitInv, NEW t \in Tasks, Suspend(t)
    PROVE  WaitInv'
  BY LeaveBlockedPreserves, SamePrio DEF Suspend, TaskStates

LEMMA DeletePreserves ==
    ASSUME WaitAssumption, WaitInv, NEW t \in Tasks, Delete(t), PrioOK'
    PROVE  WaitInv'
<1> DEFINE s == IF t \in oncpu THEN "DELETED" ELSE "FREE"
<1>1. s \in TaskStates \ {"BLOCKED"}
  BY DEF TaskStates
<1>2. state' = [state EXCEPT ![t] = s]
  BY DEF Delete
<1> HIDE DEF s
<1> QED
  BY <1>1, <1>2, LeaveBlockedPreserves DEF Delete

LEMMA ResumePreserves ==
    ASSUME WaitAssumption, WaitInv, NEW t \in Tasks, Resume(t)
    PROVE  WaitInv'
<1> USE DEF WaitInv
<1>1. \A u \in Tasks : state'[u] = "BLOCKED" <=> state[u] = "BLOCKED"
  BY DEF Resume, WaitTypeOK
<1>2. WaitTypeOK'
  BY DEF Resume, WaitTypeOK, prioVars, TaskStates
<1>3. QueueMembership' /\ LinkedOnce' /\ DelayedIsBlocked' /\ BlockedInCall'
  BY <1>1 DEF QueueMembership, LinkedOnce, DelayedIsBlocked, BlockedInCall, InCall, Resume
<1> QED
  BY <1>2, <1>3

LEMMA CreatePreserves ==
    ASSUME WaitAssumption, WaitInv, NEW t \in Tasks, Create(t)
    PROVE  WaitInv'
<1> USE DEF WaitInv
<1>1. \A u \in Tasks : /\ state'[u] = "BLOCKED" <=> state[u] = "BLOCKED"
                       /\ state[u] = "BLOCKED" => u # t
  BY DEF Create, WaitTypeOK
<1>2. WaitTypeOK'
  BY DEF Create, WaitTypeOK, prioVars, TaskStates, Stages, WaitAssumption
<1>3. QueueMembership' /\ LinkedOnce' /\ DelayedIsBlocked' /\ BlockedInCall'
  BY <1>1 DEF QueueMembership, LinkedOnce, DelayedIsBlocked, BlockedInCall, InCall, Create, WaitTypeOK
<1> QED
  BY <1>2, <1>3

LEMMA ExitPreserves ==
    ASSUME WaitAssumption, WaitInv, NEW t \in Tasks, Exit(t)
    PROVE  WaitInv'
<1> USE DEF WaitInv
<1>1. state[t] # "BLOCKED"
  BY DEF Exit, Executing, BlockedInCall, InCall
<1>2. \A u \in Tasks : state'[u] = "BLOCKED" <=> state[u] = "BLOCKED" /\ u # t
  BY <1>1 DEF Exit, WaitTypeOK
<1>3. WaitTypeOK'
  BY DEF Exit, WaitTypeOK, prioVars, TaskStates, Stages
<1>4. QueueMembership' /\ LinkedOnce' /\ DelayedIsBlocked'
  BY <1>1, <1>2 DEF QueueMembership, LinkedOnce, DelayedIsBlocked, Exit
<1>5. BlockedInCall'
  BY <1>2 DEF BlockedInCall, InCall, Exit, WaitTypeOK
<1> QED
  BY <1>3, <1>4, <1>5

LEMMA SetPriorityPreserves ==
    ASSUME WaitAssumption, WaitInv, NEW t \in Tasks, NEW p \in 0..MaxPrio, SetPriority(t, p)
    PROVE  WaitInv'
  BY DEF WaitInv, WaitTypeOK, QueueMembership, LinkedOnce, DelayedIsBlocked, BlockedInCall, InCall,
         SetPriority, blockVars

LEMMA SwitchPreserves ==
    ASSUME WaitAssumption, WaitInv,
           NEW old \in Tasks \cup {NoTask}, NEW new \in Tasks \cup {NoTask}, Switch(old, new)
    PROVE  WaitInv'
<1> USE DEF WaitInv
<1>1. ASSUME NEW u \in Tasks
      PROVE  /\ state'[u] = "BLOCKED" <=> state[u] = "BLOCKED"
             /\ state'[u] \in TaskStates
             /\ state[u] = "BLOCKED" => u # new
  BY DEF Switch, WaitTypeOK, TaskStates
<1>2. WaitTypeOK'
  <2>1. state' \in [Tasks -> TaskStates]
    BY <1>1 DEF Switch
  <2>2. stage' \in [Tasks -> Stages]
    BY DEF Switch, WaitTypeOK, Stages
  <2>3. oncpu' \in SUBSET Tasks
    BY DEF Switch, WaitTypeOK
  <2> QED
    BY <2>1, <2>2, <2>3 DEF Switch, WaitTypeOK, prioVars
<1>3. QueueMembership' /\ LinkedOnce' /\ DelayedIsBlocked'
  BY <1>1 DEF QueueMembership, LinkedOnce, DelayedIsBlocked, Switch
<1>4. BlockedInCall'
  <2> SUFFICES ASSUME NEW u \in Tasks, state'[u] = "BLOCKED"
               PROVE  InCall(u)' /\ (u \in oncpu' => stage'[u] = "yield")
    BY DEF BlockedInCall, InCall
  <2>1. state[u] = "BLOCKED" /\ u # new /\ InCall(u)
    BY <1>1 DEF BlockedInCall, InCall
  <2>2. u \in oncpu' => u \in oncpu /\ u # old
    BY <2>1 DEF Switch
  <2> QED
    BY <2>1, <2>2 DEF BlockedInCall, InCall, Switch, WaitTypeOK
<1> QED
  BY <1>2, <1>3, <1>4

LEMMA InitEstablishes == ASSUME WaitAssumption, WaitInit PROVE WaitInv
  BY DEF WaitInit, WaitInv, WaitTypeOK, QueueMembership, LinkedOnce, DelayedIsBlocked,
         BlockedInCall, InCall, InList, WaitAssumption, TaskStates, Stages

-----------------------------------------------------------------------------
(* The order of the waiters.  A task that waits while nobody changes its   *)
(* priority has the one it was created with, by which lists are compared.  *)

Ordered(q) == \A i, j \in 1..Len(q) : i < j => CreationPrio[q[i]] >= CreationPrio[q[j]]

LEMMA CreationPrioIsInt == ASSUME WaitAssumption PROVE \A t \in Tasks : CreationPrio[t] \in Int
BY DEF WaitAssumption

LEMMA AddKeepsOrder ==
    ASSUME WaitAssumption, WaitTypeOK, NEW q \in Seq(Tasks), NEW t \in Tasks, Ordered(q),
           prio[t] = CreationPrio[t], \A i \in 1..Len(q) : prio[q[i]] = CreationPrio[q[i]]
    PROVE  Ordered(WaitListAdd(q, t))
<1> DEFINE pos == CHOOSE i \in 1..(Len(q) + 1) :
                    /\ i = Len(q) + 1 \/ prio[q[i]] < prio[t]
                    /\ \A j \in 1..(i - 1) : prio[q[j]] >= prio[t]
           r == [i \in 1..(Len(q) + 1) |-> IF i < pos THEN q[i] ELSE IF i = pos THEN t ELSE q[i - 1]]
<1>1. Len(q) \in Nat /\ \A i \in 1..Len(q) : q[i] \in Tasks /\ CreationPrio[q[i]] \in Int
  BY CreationPrioIsInt
<1>2. /\ pos \in 1..(Len(q) + 1)
      /\ pos = Len(q) + 1 \/ CreationPrio[q[pos]] < CreationPrio[t]
      /\ \A j \in 1..(pos - 1) : CreationPrio[q[j]] >= CreationPrio[t]
  <2>1. /\ pos \in 1..(Len(q) + 1) /\ (pos = Len(q) + 1 \/ prio[q[pos]] < prio[t])
        /\ \A j \in 1..(pos - 1) : prio[q[j]] >= prio[t]
    BY AddPosition
  <2> HIDE DEF pos
  <2>2. (pos # Len(q) + 1 => pos \in 1..Len(q)) /\ \A j \in 1..(pos - 1) : j \in 1..Len(q)
    BY <1>1, <2>1
  <2> QED
    BY <2>1, <2>2
<1>3. WaitListAdd(q, t) = r /\ Len(r) = Len(q) + 1
  BY <1>1 DEF WaitListAdd
<1>4. CreationPrio[t] \in Int
  BY CreationPrioIsInt
<1> HIDE DEF pos
<1>5. ASSUME NEW j \in 1..Len(q), j >= pos PROVE CreationPrio[q[j]] <= CreationPrio[t]
  <2>1. pos \in 1..Len(q) /\ CreationPrio[q[pos]] < CreationPrio[t]
    BY <1>1, <1>2, <1>5
  <2>2. pos = j \/ CreationPrio[q[pos]] >= CreationPrio[q[j]]
    BY <1>1, <1>5, <2>1 DEF Ordered
  <2> QED
    BY <1>1, <1>4, <2>1, <2>2
<1>6. ASSUME NEW i \in 1..(Len(q) + 1), NEW j \in 1..(Len(q) + 1), i < j
      PROVE  CreationPrio[r[i]] >= CreationPrio[r[j]]
  <2>1. /\ r[i] = IF i < pos THEN q[i] ELSE IF i = pos THEN t ELSE q[i - 1]
        /\ r[j] = IF j < pos THEN q[j] ELSE IF j = pos THEN t ELSE q[j - 1]
    OBVIOUS
  <2> HIDE DEF r
  <2>2. CASE j < pos
    <3>1. i \in 1..Len(q) /\ j \in 1..Len(q) /\ r[i] = q[i] /\ r[j] = q[j]
      BY <1>1, <1>2, <1>6, <2>1, <2>2
    <3> QED
      BY <1>6, <3>1 DEF Ordered
  <2>3. CASE j = pos
    <3>1. i \in 1..(pos - 1) /\ r[i] = q[i] /\ r[j] = t
      BY <1>1, <1>2, <1>6, <2>1, <2>3
    <3> QED
      BY <1>2, <3>1
  <2>4. CASE j > pos /\ i = pos
    <3>1. j - 1 \in 1..Len(q) /\ j - 1 >= pos /\ r[i] = t /\ r[j] = q[j - 1]
      BY <1>1, <1>2, <1>6, <2>1, <2>4
    <3>2. CreationPrio[q[j - 1]] <= CreationPrio[t]
      BY <1>5, <3>1
    <3> QED
      BY <1>1, <1>4, <3>1, <3>2
  <2>5. CASE j > pos /\ i < pos
    <3>1. i \in 1..Len(q) /\ j - 1 \in 1..Len(q) /\ i <= j - 1 /\ r[i] = q[i] /\ r[j] = q[j - 1]
      BY <1>1, <1>2, <1>6, <2>1, <2>5
    <3>2. CASE i < j - 1
      BY <3>1, <3>2 DEF Ordered
    <3>3. CASE i = j - 1
      BY <1>1, <3>1, <3>3
    <3> QED
      BY <3>1, <3>2, <3>3
  <2>6. CASE j > pos /\ i > pos
    <3>1. i - 1 \in 1..Len(q) /\ j - 1 \in 1..Len(q) /\ i - 1 < j - 1 /\ r[i] = q[i - 1] /\ r[j] = q[j - 1]
      BY <1>1, <1>2, <1>6, <2>1, <2>6
    <3> QED
      BY <3>1 DEF Ordered
  <2> QED
    BY <1>2, <2>2, <2>3, <2>4, <2>5, <2>6
<1> QED
  BY <1>3, <1>6 DEF Ordered

LEMMA RemoveKeepsOrder ==
    ASSUME NEW q \in Seq(Tasks), NEW t \in Tasks, Ordered(q)
    PROVE  Ordered(WaitListRemove(q, t))
<1>1. CASE ~InList(q, t)
  BY <1>1 DEF WaitListRemove
<1>2. CASE InList(q, t)
  <2> DEFINE pos == CHOOSE i \in 1..Len(q) : q[i] = t
             r == [i \in 1..(Len(q) - 1) |-> IF i < pos THEN q[i] ELSE q[i + 1]]
  <2>1. pos \in 1..Len(q) /\ Len(q) \in Nat
    BY <1>2 DEF InList
  <2>2. WaitListRemove(q, t) = r /\ Len(r) = Len(q) - 1
    BY <1>2, <2>1 DEF WaitListRemove
  <2> HIDE DEF pos
  <2>3. ASSUME NEW i \in 1..(Len(q) - 1), NEW j \in 1..(Len(q) - 1), i < j
        PROVE  CreationPrio[r[i]] >= CreationPrio[r[j]]
    <3>1. PICK a \in 1..Len(q) : a = (IF i < pos THEN i ELSE i + 1) /\ r[i] = q[a]
      BY <2>1
    <3>2. PICK b \in 1..Len(q) : b = (IF j < pos THEN j ELSE j + 1) /\ r[j] = q[b]
      BY <2>1
    <3>3. a < b
      BY <2>1, <2>3, <3>1, <3>2
    <3> QED
      BY <3>1, <3>2, <3>3 DEF Ordered
  <2> QED
    BY <2>2, <2>3 DEF Ordered
<1> QED
  BY <1>1, <1>2

LEMMA PopKeepsOrder ==
    ASSUME NEW q \in Seq(Tasks), q # << >>, Ordered(q)
    PROVE  /\ Ordered(Tail(q))
           /\ \A u \in Tasks : InList(Tail(q), u) => CreationPrio[u] <= CreationPrio[Head(q)]
<1>1. /\ Len(q) \in Nat \ {0} /\ Head(q) = q[1] /\ Len(Tail(q)) = Len(q) - 1
      /\ \A i \in 1..(Len(q) - 1) : Tail(q)[i] = q[i + 1]
  OBVIOUS
<1>2. \A i \in 1..(Len(q) - 1) : i + 1 \in 1..Len(q) /\ 1 < i + 1
  BY <1>1
<1>3. Ordered(Tail(q))
  BY <1>1, <1>2 DEF Ordered
<1>4. ASSUME NEW u \in Tasks, InList(Tail(q), u) PROVE CreationPrio[q[1]] >= CreationPrio[u]
  <2>1. PICK i \in 1..(Len(q) - 1) : q[i + 1] = u
    BY <1>1, <1>4 DEF InList
  <2>2. 1 \in 1..Len(q)
    BY <1>1
  <2> QED
    BY <1>2, <2>1, <2>2 DEF Ordered
<1> QED
  BY <1>1, <1>3, <1>4

LEMMA EmptyIsOrdered == Ordered(<< >>)
BY DEF Ordered

(* Purging one task keeps every list in order.                             *)
LEMMA PurgeKeepsOrder ==
    ASSUME WaitTypeOK, NEW t \in Tasks, waitq' = PurgeWaits(t), \A s \in Queues : Ordered(waitq[s])
    PROVE  \A s \in Queues : Ordered(waitq'[s])
<1>1. CASE state[t] = "BLOCKED" /\ blockObj[t] # NoQueue
  <2>1. waitq' = [waitq EXCEPT ![blockObj[t]] = WaitListRemove(@, t)]
    BY <1>1 DEF PurgeWaits
  <2>2. \A s \in Queues : waitq'[s] = IF s = blockObj[t] THEN WaitListRemove(waitq[s], t) ELSE waitq[s]
    BY <2>1 DEF WaitTypeOK
  <2>3. \A s \in Queues : waitq[s] \in Seq(Tasks)
    BY DEF WaitTypeOK
  <2> QED
    BY <2>2, <2>3, RemoveKeepsOrder
<1>2. CASE ~(state[t] = "BLOCKED" /\ blockObj[t] # NoQueue)
  BY <1>2 DEF PurgeWaits
<1> QED
  BY <1>1, <1>2
=============================================================================

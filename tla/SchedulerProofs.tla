--------------------------- MODULE SchedulerProofs ---------------------------
(***************************************************************************)
(* Scheduler: the ready lists hold exactly the READY tasks, each once and  *)
(* in its own list, for every set of tasks, policies, cores, priorities    *)
(* and affinities.                                                         *)
(***************************************************************************)
EXTENDS Scheduler, FiniteSetTheorems, SequenceTheorems, TLAPS

Once(q) == \A i, j \in 1..Len(q) : q[i] = q[j] => i = j

-----------------------------------------------------------------------------
(* Sequences.                                                              *)

(* The least and the greatest of some natural numbers.                     *)
LEMMA LeastOf ==
    ASSUME NEW S \in SUBSET Nat, S # {}
    PROVE  \E m \in S : \A i \in S : m <= i
<1>1. IsWellFoundedOn(OpToRel(<, Nat), Nat)
  BY NatLessThanWellFounded
<1>2. PICK m \in S : \A y \in S : ~ (<<y, m>> \in OpToRel(<, Nat))
  BY <1>1, WFMin
<1>3. \A y \in S : ~(y < m)
  BY <1>2 DEF OpToRel
<1> QED
  BY <1>3

LEMMA GreatestOf ==
    ASSUME NEW n \in Nat, NEW S \in SUBSET (0..n), S # {}
    PROVE  \E m \in S : \A i \in S : i <= m
<1> DEFINE T == {n - i : i \in S}
<1>1. T \in SUBSET Nat /\ T # {}
  <2>1. \A i \in S : n - i \in Nat
    OBVIOUS
  <2> QED
    BY <2>1
<1>2. PICK k \in T : \A j \in T : k <= j
  BY <1>1, LeastOf
<1>3. PICK m \in S : k = n - m
  BY <1>2
<1>4. ASSUME NEW i \in S PROVE i <= m
  <2>1. n - i \in T /\ i \in 0..n /\ m \in 0..n
    OBVIOUS
  <2>2. k <= n - i
    BY <1>2, <2>1
  <2> HIDE DEF T
  <2> QED
    BY <1>3, <2>1, <2>2
<1> QED
  BY <1>3, <1>4

LEMMA RemoveAtOnce ==
    ASSUME NEW q \in Seq(Tasks), Once(q), NEW p \in 1..Len(q)
    PROVE  /\ RemoveAt(q, p) \in Seq(Tasks) /\ Once(RemoveAt(q, p))
           /\ \A u \in Tasks : Contains(RemoveAt(q, p), u) <=> u # q[p] /\ Contains(q, u)
<1> DEFINE r == RemoveAt(q, p)
<1>1. /\ r \in Seq(Tasks) /\ Len(r) = Len(q) - 1
      /\ \A i \in 1..Len(r) : r[i] = IF i < p THEN q[i] ELSE q[i + 1]
  <2> DEFINE a == SubSeq(q, 1, p - 1)
             b == SubSeq(q, p + 1, Len(q))
  <2>0. \A i \in 1..Len(q) : q[i] \in Tasks
    BY ElementOfSeq
  <2>1. /\ a \in Seq(Tasks) /\ Len(a) = p - 1
        /\ \A i \in 1..(p - 1) : a[i] = q[i]
    <3>1. \A i \in 1..(p - 1) : q[i] \in Tasks
      BY <2>0
    <3>2. /\ SubSeq(q, 1, p - 1) \in Seq(Tasks)
          /\ Len(SubSeq(q, 1, p - 1)) = IF 1 <= p - 1 THEN p - 1 - 1 + 1 ELSE 0
          /\ \A i \in 1..(p - 1 - 1 + 1) : SubSeq(q, 1, p - 1)[i] = q[1 + i - 1]
      BY <3>1, SubSeqProperties
    <3> QED
      BY <3>2
  <2>2. /\ b \in Seq(Tasks) /\ Len(b) = Len(q) - p
        /\ \A i \in 1..(Len(q) - p) : b[i] = q[p + i]
    <3>1. \A i \in (p + 1)..Len(q) : q[i] \in Tasks
      BY <2>0
    <3>2. /\ SubSeq(q, p + 1, Len(q)) \in Seq(Tasks)
          /\ Len(SubSeq(q, p + 1, Len(q))) =
                 IF p + 1 <= Len(q) THEN Len(q) - (p + 1) + 1 ELSE 0
          /\ \A i \in 1..(Len(q) - (p + 1) + 1) :
                 SubSeq(q, p + 1, Len(q))[i] = q[p + 1 + i - 1]
      BY <3>1, SubSeqProperties
    <3> QED
      BY <3>2
  <2>3. r = a \o b
    BY DEF RemoveAt
  <2> HIDE DEF a, b, r
  <2>4. /\ r \in Seq(Tasks) /\ Len(r) = Len(a) + Len(b)
        /\ \A i \in 1..Len(a) + Len(b) :
              r[i] = IF i <= Len(a) THEN a[i] ELSE b[i - Len(a)]
    BY <2>1, <2>2, <2>3, ConcatProperties
  <2>5. /\ r \in Seq(Tasks) /\ Len(r) = Len(q) - 1
        /\ \A i \in 1..Len(r) : r[i] = IF i < p THEN a[i] ELSE b[i - p + 1]
    BY <2>1, <2>2, <2>4
  <2>6. ASSUME NEW i \in 1..Len(r)
        PROVE  r[i] = IF i < p THEN q[i] ELSE q[i + 1]
    <3>1. CASE i < p
      <4>1. i \in 1..(p - 1)
        BY <2>5, <3>1
      <4> QED
        BY <2>1, <2>5, <3>1, <4>1
    <3>2. CASE i >= p
      <4>1. i - p + 1 \in 1..(Len(q) - p) /\ p + (i - p + 1) = i + 1
        BY <2>5, <3>2
      <4>2. b[i - p + 1] = q[i + 1]
        BY <2>2, <4>1
      <4> QED
        BY <2>5, <3>2, <4>2
    <3> QED
      BY <2>5, <3>1, <3>2
  <2> QED
    BY <2>5, <2>6
<1> HIDE DEF r
<1>2. Once(r)
  <2> DEFINE pos(k) == IF k < p THEN k ELSE k + 1
  <2>1. ASSUME NEW k \in 1..Len(r)
        PROVE  pos(k) \in 1..Len(q) /\ r[k] = q[pos(k)]
    BY <1>1
  <2> SUFFICES ASSUME NEW i \in 1..Len(r), NEW j \in 1..Len(r), r[i] = r[j]
               PROVE  i = j
    BY DEF Once
  <2>2. pos(i) \in 1..Len(q) /\ pos(j) \in 1..Len(q) /\ q[pos(i)] = q[pos(j)]
    BY <2>1
  <2> HIDE DEF pos
  <2>3. pos(i) = pos(j)
    BY <2>2 DEF Once
  <2> QED
    BY <1>1, <2>3 DEF pos
<1>3. ASSUME NEW u \in Tasks PROVE Contains(r, u) <=> u # q[p] /\ Contains(q, u)
  <2>1. ASSUME Contains(r, u) PROVE u # q[p] /\ Contains(q, u)
    <3>1. PICK i \in 1..Len(r) : r[i] = u
      BY <2>1 DEF Contains
    <3>2. PICK j \in 1..Len(q) : j # p /\ q[j] = u
      <4>1. CASE i < p
        BY <1>1, <3>1, <4>1
      <4>2. CASE i >= p
        BY <1>1, <3>1, <4>2
      <4> QED
        BY <1>1, <4>1, <4>2
    <3> QED
      BY <3>2 DEF Contains, Once
  <2>2. ASSUME u # q[p], Contains(q, u) PROVE Contains(r, u)
    <3>1. PICK i \in 1..Len(q) : q[i] = u /\ i # p
      BY <2>2 DEF Contains
    <3>2. CASE i < p
      <4>1. i \in 1..Len(r) /\ r[i] = u
        BY <1>1, <3>1, <3>2
      <4> QED
        BY <4>1 DEF Contains
    <3>3. CASE i > p
      <4>1. i - 1 \in 1..Len(r) /\ r[i - 1] = u
        BY <1>1, <3>1, <3>3
      <4> QED
        BY <4>1 DEF Contains
    <3> QED
      BY <3>1, <3>2, <3>3
  <2> QED
    BY <2>1, <2>2
<1> QED
  BY <1>1, <1>2, <1>3 DEF r

LEMMA InsertAtOnce ==
    ASSUME NEW q \in Seq(Tasks), Once(q), NEW t \in Tasks, ~Contains(q, t),
           NEW p \in 1..(Len(q) + 1)
    PROVE  /\ InsertAt(q, p, t) \in Seq(Tasks) /\ Once(InsertAt(q, p, t))
           /\ \A u \in Tasks : Contains(InsertAt(q, p, t), u) <=> u = t \/ Contains(q, u)
<1> DEFINE r == InsertAt(q, p, t)
<1>1. /\ r \in Seq(Tasks) /\ Len(r) = Len(q) + 1
      /\ \A i \in 1..Len(r) : r[i] = IF i < p THEN q[i] ELSE IF i = p THEN t ELSE q[i - 1]
  <2> DEFINE a == SubSeq(q, 1, p - 1)
             b == SubSeq(q, p, Len(q))
             at == a \o <<t>>
  <2>0. \A i \in 1..Len(q) : q[i] \in Tasks
    BY ElementOfSeq
  <2>1. /\ a \in Seq(Tasks) /\ Len(a) = p - 1
        /\ \A i \in 1..(p - 1) : a[i] = q[i]
    <3>1. \A i \in 1..(p - 1) : q[i] \in Tasks
      BY <2>0
    <3>2. /\ SubSeq(q, 1, p - 1) \in Seq(Tasks)
          /\ Len(SubSeq(q, 1, p - 1)) = IF 1 <= p - 1 THEN p - 1 - 1 + 1 ELSE 0
          /\ \A i \in 1..(p - 1 - 1 + 1) : SubSeq(q, 1, p - 1)[i] = q[1 + i - 1]
      BY <3>1, SubSeqProperties
    <3> QED
      BY <3>2
  <2>2. /\ b \in Seq(Tasks) /\ Len(b) = Len(q) - p + 1
        /\ \A i \in 1..(Len(q) - p + 1) : b[i] = q[p + i - 1]
    <3>1. \A i \in p..Len(q) : q[i] \in Tasks
      BY <2>0
    <3>2. /\ SubSeq(q, p, Len(q)) \in Seq(Tasks)
          /\ Len(SubSeq(q, p, Len(q))) = IF p <= Len(q) THEN Len(q) - p + 1 ELSE 0
          /\ \A i \in 1..(Len(q) - p + 1) : SubSeq(q, p, Len(q))[i] = q[p + i - 1]
      BY <3>1, SubSeqProperties
    <3> QED
      BY <3>2
  <2>3. r = at \o b /\ <<t>> \in Seq(Tasks) /\ Len(<<t>>) = 1 /\ <<t>>[1] = t
    BY DEF InsertAt
  <2> HIDE DEF a, b, r
  <2>4. /\ at \in Seq(Tasks) /\ Len(at) = p
        /\ \A i \in 1..p : at[i] = IF i < p THEN q[i] ELSE t
    <3>1. /\ at \in Seq(Tasks) /\ Len(at) = Len(a) + Len(<<t>>)
          /\ \A i \in 1..Len(a) + Len(<<t>>) :
                at[i] = IF i <= Len(a) THEN a[i] ELSE <<t>>[i - Len(a)]
      BY <2>1, <2>3, ConcatProperties
    <3> QED
      BY <2>1, <2>3, <3>1
  <2> HIDE DEF at
  <2>5. /\ r \in Seq(Tasks) /\ Len(r) = Len(at) + Len(b)
        /\ \A i \in 1..Len(at) + Len(b) :
              r[i] = IF i <= Len(at) THEN at[i] ELSE b[i - Len(at)]
    BY <2>2, <2>3, <2>4, ConcatProperties
  <2>6. /\ r \in Seq(Tasks) /\ Len(r) = Len(q) + 1
        /\ \A i \in 1..Len(r) : r[i] = IF i <= p THEN at[i] ELSE b[i - p]
    BY <2>2, <2>4, <2>5
  <2>7. ASSUME NEW i \in 1..Len(r)
        PROVE  r[i] = IF i < p THEN q[i] ELSE IF i = p THEN t ELSE q[i - 1]
    <3>1. CASE i <= p
      BY <2>4, <2>6, <3>1
    <3>2. CASE i > p
      <4>1. i - p \in 1..(Len(q) - p + 1) /\ p + (i - p) - 1 = i - 1
        BY <2>6, <3>2
      <4>2. b[i - p] = q[i - 1]
        BY <2>2, <4>1
      <4> QED
        BY <2>6, <3>2, <4>2
    <3> QED
      BY <2>6, <3>1, <3>2
  <2> QED
    BY <2>6, <2>7
<1> HIDE DEF r
<1>2. Once(r)
  <2> DEFINE pos(k) == IF k < p THEN k ELSE k - 1
  <2>1. \A k \in 1..Len(q) : q[k] # t
    BY DEF Contains
  <2>2. ASSUME NEW k \in 1..Len(r), k # p
        PROVE  pos(k) \in 1..Len(q) /\ r[k] = q[pos(k)] /\ r[k] # t
    BY <1>1, <2>1, <2>2
  <2>3. r[p] = t
    BY <1>1
  <2> SUFFICES ASSUME NEW i \in 1..Len(r), NEW j \in 1..Len(r), r[i] = r[j]
               PROVE  i = j
    BY DEF Once
  <2>4. CASE i = p \/ j = p
    BY <2>2, <2>3, <2>4
  <2>5. CASE i # p /\ j # p
    <3>1. pos(i) \in 1..Len(q) /\ pos(j) \in 1..Len(q) /\ q[pos(i)] = q[pos(j)]
      BY <2>2, <2>5
    <3> HIDE DEF pos
    <3>2. pos(i) = pos(j)
      BY <3>1 DEF Once
    <3> QED
      BY <2>5, <3>2 DEF pos
  <2> QED
    BY <2>4, <2>5
<1>3. ASSUME NEW u \in Tasks PROVE Contains(r, u) <=> u = t \/ Contains(q, u)
  <2>1. ASSUME Contains(r, u) PROVE u = t \/ Contains(q, u)
    <3>1. PICK i \in 1..Len(r) : r[i] = u
      BY <2>1 DEF Contains
    <3>2. i < p => i \in 1..Len(q) /\ q[i] = u
      BY <1>1, <3>1
    <3>3. i > p => i - 1 \in 1..Len(q) /\ q[i - 1] = u
      BY <1>1, <3>1
    <3> QED
      BY <1>1, <3>1, <3>2, <3>3 DEF Contains
  <2>2. ASSUME u = t PROVE Contains(r, u)
    BY <1>1, <2>2 DEF Contains
  <2>3. ASSUME Contains(q, u) PROVE Contains(r, u)
    <3>1. PICK i \in 1..Len(q) : q[i] = u
      BY <2>3 DEF Contains
    <3>2. i < p => i \in 1..Len(r) /\ r[i] = u
      BY <1>1, <3>1
    <3>3. i >= p => i + 1 \in 1..Len(r) /\ r[i + 1] = u
      BY <1>1, <3>1
    <3> QED
      BY <3>1, <3>2, <3>3 DEF Contains
  <2> QED
    BY <2>1, <2>2, <2>3
<1> QED
  BY <1>1, <1>2, <1>3 DEF r

LEMMA AppendOnce ==
    ASSUME NEW q \in Seq(Tasks), Once(q), NEW t \in Tasks, ~Contains(q, t)
    PROVE  /\ Append(q, t) \in Seq(Tasks) /\ Once(Append(q, t))
           /\ \A u \in Tasks : Contains(Append(q, t), u) <=> u = t \/ Contains(q, u)
<1>1. Append(q, t) = InsertAt(q, Len(q) + 1, t)
  BY DEF InsertAt
<1>2. Len(q) + 1 \in 1..(Len(q) + 1)
  OBVIOUS
<1> QED
  BY <1>1, <1>2, InsertAtOnce

(* A task that is in its list is taken out of it, by its links.            *)
LEMMA UnlinkedOnce ==
    ASSUME NEW q \in Seq(Tasks), Once(q), NEW t \in Tasks, Contains(q, t), NEW l
    PROVE  /\ Unlinked(l, q, t) \in Seq(Tasks) /\ Once(Unlinked(l, q, t))
           /\ \A u \in Tasks : Contains(Unlinked(l, q, t), u) <=> u # t /\ Contains(q, u)
<1> DEFINE I == {i \in 1..Len(q) : q[i] = t}
           p == Min(I)
<1>1. I \in SUBSET Nat /\ I # {}
  BY DEF Contains
<1>2. p \in I
  <2>1. \E m \in I : \A i \in I : m <= i
    BY <1>1, LeastOf
  <2> QED
    BY <2>1 DEF Min
<1>3. Unlinked(l, q, t) = RemoveAt(q, p)
  BY <1>1 DEF Unlinked, RemoveFirst, SelectInSeq, Contains
<1> HIDE DEF p
<1> QED
  BY <1>2, <1>3, RemoveAtOnce

-----------------------------------------------------------------------------
(* The ready lists as a whole.                                             *)

(* Each task is in the lists that at gives it, once in each.               *)
Placed(lists, at) ==
    /\ lists \in [Lists -> Seq(Tasks)]
    /\ \A l \in Lists : Once(lists[l])
    /\ \A l \in Lists, t \in Tasks : Contains(lists[l], t) <=> l \in at[t]

LEMMA ListAtIsList ==
    ASSUME NEW t \in Tasks, NEW c \in Cores, NEW p \in 0..MaxPrio
    PROVE  ListAt(t, c, p) \in Lists
<1>1. CASE UsesEdf(t)
  BY <1>1 DEF ListAt, Lists
<1>2. CASE ~UsesEdf(t) /\ UsesCfs(t, p)
  BY <1>2 DEF ListAt, Lists
<1>3. CASE ~UsesEdf(t) /\ ~UsesCfs(t, p)
  BY <1>3 DEF ListAt, Lists
<1> QED
  BY <1>1, <1>2, <1>3

LEMMA AddPlaced ==
    ASSUME NEW lists, NEW at \in [Tasks -> SUBSET Lists], Placed(lists, at),
           NEW t \in Tasks, at[t] = {}, NEW l \in Lists, NEW new \in AddTo(lists, l, t)
    PROVE  Placed(new, [at EXCEPT ![t] = {l}])
<1>1. /\ lists[l] \in Seq(Tasks) /\ Once(lists[l]) /\ ~Contains(lists[l], t)
      /\ lists \in [Lists -> Seq(Tasks)]
  BY DEF Placed
<1>2. PICK q : /\ new = [lists EXCEPT ![l] = q] /\ q \in Seq(Tasks) /\ Once(q)
               /\ \A u \in Tasks : Contains(q, u) <=> u = t \/ Contains(lists[l], u)
  <2>1. CASE l[1] = "prio"
    <3>1. new = [lists EXCEPT ![l] = Append(lists[l], t)]
      BY <2>1 DEF AddTo, AddPriorityReady
    <3>2. /\ Append(lists[l], t) \in Seq(Tasks) /\ Once(Append(lists[l], t))
          /\ \A u \in Tasks : Contains(Append(lists[l], t), u) <=> u = t \/ Contains(lists[l], u)
      BY <1>1, AppendOnce
    <3> QED
      BY <3>1, <3>2
  <2>2. CASE l[1] # "prio"
    <3>1. PICK i \in 1..(Len(lists[l]) + 1) : new = [lists EXCEPT ![l] = InsertAt(lists[l], i, t)]
      BY <2>2 DEF AddTo, AddSortedReady
    <3> DEFINE q == InsertAt(lists[l], i, t)
    <3>2. /\ q \in Seq(Tasks) /\ Once(q)
          /\ \A u \in Tasks : Contains(q, u) <=> u = t \/ Contains(lists[l], u)
      BY <1>1, InsertAtOnce
    <3> HIDE DEF q
    <3>3. new = [lists EXCEPT ![l] = q]
      BY <3>1 DEF q
    <3> QED
      BY <3>2, <3>3
  <2> QED
    BY <2>1, <2>2
<1>3. new \in [Lists -> Seq(Tasks)] /\ \A k \in Lists : new[k] = IF k = l THEN q ELSE lists[k]
  BY <1>1, <1>2
<1>4. ASSUME NEW k \in Lists PROVE Once(new[k])
  BY <1>2, <1>3 DEF Placed
<1>5. ASSUME NEW k \in Lists, NEW u \in Tasks
      PROVE  Contains(new[k], u) <=> k \in [at EXCEPT ![t] = {l}][u]
  <2>1. Contains(lists[k], u) <=> k \in at[u]
    BY DEF Placed
  <2>2. CASE k = l
    BY <1>2, <1>3, <2>1, <2>2
  <2>3. CASE k # l
    BY <1>3, <2>1, <2>3
  <2> QED
    BY <2>2, <2>3
<1> QED
  BY <1>3, <1>4, <1>5 DEF Placed

LEMMA RemovePlaced ==
    ASSUME NEW lists, NEW at \in [Tasks -> SUBSET Lists], Placed(lists, at),
           NEW t \in Tasks, NEW l \in Lists, at[t] = {l}
    PROVE  Placed([lists EXCEPT ![l] = Unlinked(l, @, t)], [at EXCEPT ![t] = {}])
<1> DEFINE q == Unlinked(l, lists[l], t)
           new == [lists EXCEPT ![l] = q]
<1>1. /\ lists[l] \in Seq(Tasks) /\ Once(lists[l]) /\ Contains(lists[l], t)
      /\ lists \in [Lists -> Seq(Tasks)]
  BY DEF Placed
<1>2. /\ q \in Seq(Tasks) /\ Once(q)
      /\ \A u \in Tasks : Contains(q, u) <=> u # t /\ Contains(lists[l], u)
  BY <1>1, UnlinkedOnce
<1> HIDE DEF q
<1>3. new \in [Lists -> Seq(Tasks)] /\ \A k \in Lists : new[k] = IF k = l THEN q ELSE lists[k]
  BY <1>1, <1>2
<1> HIDE DEF new
<1>4. ASSUME NEW k \in Lists PROVE Once(new[k])
  BY <1>2, <1>3 DEF Placed
<1>5. ASSUME NEW k \in Lists, NEW u \in Tasks
      PROVE  Contains(new[k], u) <=> k \in [at EXCEPT ![t] = {}][u]
  <2>1. Contains(lists[k], u) <=> k \in at[u]
    BY DEF Placed
  <2>2. CASE k = l
    BY <1>2, <1>3, <2>1, <2>2
  <2>3. CASE k # l
    BY <1>3, <2>1, <2>3
  <2> QED
    BY <2>2, <2>3
<1>6. Placed(new, [at EXCEPT ![t] = {}])
  BY <1>3, <1>4, <1>5 DEF Placed
<1> QED
  BY <1>6 DEF new, q

(* Filling the lists with the members of a set in some order.              *)
LEMMA FilledOnce ==
    ASSUME NEW S \in SUBSET Tasks
    PROVE  /\ SetToSeq(S) \in Seq(Tasks) /\ Once(SetToSeq(S))
           /\ \A t \in Tasks : Contains(SetToSeq(S), t) <=> t \in S
<1> DEFINE n == Cardinality(S)
           q == SetToSeq(S)
<1>1. n \in Nat /\ ExistsBijection(1..n, S)
  <2>1. IsFiniteSet(S)
    BY SchedAssumption, FS_Subset
  <2> QED
    BY <2>1, FS_CardinalityType
<1> HIDE DEF n
<1>2. \E f \in [1..n -> S] : IsInjective(f)
  BY <1>1 DEF ExistsBijection, Bijection, Injection
<1>3. q \in [1..n -> S] /\ IsInjective(q)
  BY <1>2 DEF SetToSeq, n
<1> HIDE DEF q
<1>4. q \in Seq(S) /\ Len(q) = n
  BY <1>1, <1>3
<1>5. q \in Seq(Tasks)
  BY <1>1, <1>3
<1>6. Once(q)
  BY <1>3, <1>4 DEF Once, IsInjective
<1>7. \A t \in Tasks : Contains(q, t) => t \in S
  BY <1>3, <1>4 DEF Contains
<1>8. ASSUME NEW t \in S PROVE Contains(q, t)
  <2>1. q \in Injection(1..n, S) /\ IsFiniteSet(1..n) /\ Cardinality(1..n) = n
    BY <1>1, <1>3, FS_Interval DEF Injection
  <2>2. IsFiniteSet(S) /\ Cardinality(S) = n
    BY SchedAssumption, FS_Subset DEF n
  <2>3. q \in Surjection(1..n, S)
    BY <2>1, <2>2, FS_Injection
  <2> QED
    BY <1>4, <2>3 DEF Surjection, Contains
<1> QED
  BY <1>5, <1>6, <1>7, <1>8 DEF q

-----------------------------------------------------------------------------
(* The invariant of the ready lists.                                       *)

(* Other tasks manage tasks only where they do not run, and the balancer,  *)
(* which takes no notice of g_klock, is left out; or no task is managed.   *)
Undisturbed == Managed = {} \/ (~Remote /\ ~Balance)

FieldsOK ==
    /\ state \in [Tasks -> {"READY", "RUNNING", "BLOCKED", "SUSPENDED", "DELETED", "FREE"}]
    /\ prio \in [Tasks -> 0..MaxPrio]
    /\ aff \in [Tasks -> Cores \cup {AnyCore}]
    /\ runCpu \in [Tasks -> Cores]
    /\ current \in [Cores -> Tasks \cup {NoTask}]

(* What the call that holds g_klock has been asked, and that the task it   *)
(* has in hand does not run on another core.                               *)
CallOK ==
    /\ klock \in [call : {"none", "prio", "aff", "suspend", "delete", "requeue"},
                  core : Nat, task : Tasks \cup {NoTask}, arg : Nat]
    /\ klock.call # "none" =>
        /\ klock.core \in Cores /\ klock.task \in Managed /\ ~Remote /\ ~Balance
        /\ \A k \in Cores \ {klock.core} : current[k] # klock.task
    /\ klock.call = "prio" => klock.arg \in 0..MaxPrio
    /\ klock.call = "aff" => klock.arg \in Cores \cup {AnyCore}

Held(t) == klock.call # "none" /\ klock.task = t

(* Where each task is to be found.                                         *)
Where == [t \in Tasks |-> IF state[t] = "READY" /\ ~Held(t) THEN {ListOf(t)} ELSE {}]

QueueInv == FieldsOK /\ CallOK /\ Placed(ready, Where)

LEMMA Targets ==
    ASSUME FieldsOK, NEW t \in Tasks
    PROVE  /\ TargetCore(t) \in Cores /\ ListOf(t) \in Lists
           /\ \A c \in Cores, p \in 0..MaxPrio : ListAt(t, c, p) \in Lists
<1>1. TargetCore(t) \in Cores
  BY DEF FieldsOK, TargetCore
<1>2. prio[t] \in 0..MaxPrio
  BY DEF FieldsOK
<1> QED
  BY <1>1, <1>2, ListAtIsList DEF ListOf

LEMMA WhereOK ==
    ASSUME FieldsOK
    PROVE  Where \in [Tasks -> SUBSET Lists]
BY Targets DEF Where

(* The priority pick and the CFS pick take from the lists of the core.     *)
LEMMA PriorityListed ==
    ASSUME NEW c \in Cores, PickPriority(c) # NoTask
    PROVE  \E p \in 0..MaxPrio : \E i \in 1..Len(ready[<<"prio", c, p>>]) :
              PickPriority(c) = ready[<<"prio", c, p>>][i]
<1> DEFINE top   == HighestReadyPrio(c)
           list  == IF top = -1 THEN << >> ELSE ready[<<"prio", c, top>>]
           mayGo == {i \in 1..Len(list) : AffinityOk(list[i], c)}
           i     == CHOOSE i \in mayGo : \A j \in mayGo : i <= j
<1>1. mayGo # {} /\ PickPriority(c) = list[i]
  BY DEF PickPriority
<1>2. i \in mayGo
  <2>1. mayGo \in SUBSET Nat
    OBVIOUS
  <2> HIDE DEF mayGo
  <2>2. \E m \in mayGo : \A j \in mayGo : m <= j
    BY <1>1, <2>1, LeastOf
  <2> QED
    BY <2>2
<1>3. i \in 1..Len(list)
  BY <1>2
<1> HIDE DEF mayGo, i
<1>4. top # -1
  <2>1. CASE top = -1
    BY <1>3, <2>1
  <2> QED
    BY <2>1
<1>5. top \in 0..MaxPrio
  <2> DEFINE filled == {p \in 0..MaxPrio : ready[<<"prio", c, p>>] # << >>}
  <2>1. filled # {} /\ top = CHOOSE p \in filled : \A r \in filled : r <= p
    BY <1>4 DEF HighestReadyPrio
  <2>2. filled \in SUBSET (0..MaxPrio) /\ MaxPrio \in Nat
    BY SchedAssumption
  <2> HIDE DEF filled, top
  <2>3. \E m \in filled : \A r \in filled : r <= m
    BY <2>1, <2>2, GreatestOf
  <2> QED
    BY <2>1, <2>2, <2>3
<1> HIDE DEF top
<1>6. list = ready[<<"prio", c, top>>]
  BY <1>4
<1> QED
  BY <1>1, <1>3, <1>5, <1>6

LEMMA CfsListed ==
    ASSUME QueueInv, NEW c \in Cores, PickCfs(c) # NoTask
    PROVE  \E i \in 1..Len(ready[<<"cfs", c, 0>>]) : PickCfs(c) = ready[<<"cfs", c, 0>>][i]
<1> DEFINE q == ready[<<"cfs", c, 0>>]
<1>1. <<"cfs", c, 0>> \in Lists
  BY DEF Lists
<1>2. q # << >> /\ PickCfs(c) = Head(q)
  BY DEF PickCfs
<1>3. q \in Seq(Tasks)
  BY <1>1 DEF QueueInv, Placed
<1>4. 1 \in 1..Len(q) /\ Head(q) = q[1]
  BY <1>2, <1>3
<1> QED
  BY <1>1, <1>2, <1>4

(* A pick names a task that is in a list.                                  *)
LEMMA PickedIsListed ==
    ASSUME QueueInv, NEW c \in Cores, NEW urgent \in BOOLEAN, PickNext(c, urgent) # NoTask
    PROVE  /\ PickNext(c, urgent) \in Tasks
           /\ state[PickNext(c, urgent)] = "READY" /\ ~Held(PickNext(c, urgent))
<1> DEFINE t == PickNext(c, urgent)
<1> DEFINE Listed(u) == \E l \in Lists : \E i \in 1..Len(ready[l]) : u = ready[l][i]
<1>1. PickEdf(c) # NoTask => Listed(PickEdf(c))
  <2> DEFINE edf == ready[<<"edf", 0, 0>>]
             seat[i \in 1..Len(edf)] ==
                 LET free == Cores \ {seat[j] : j \in 1..(i - 1)}
                     u    == edf[i]
                 IN  IF TargetCore(u) \in free THEN TargetCore(u)
                     ELSE IF aff[u] # AnyCore \/ free = {} THEN AnyCore
                     ELSE CHOOSE k \in free : \A j \in free : k <= j
             mine == {i \in 1..Len(edf) : seat[i] = c}
  <2>1. PickEdf(c) = IF mine = {} THEN NoTask ELSE edf[CHOOSE i \in mine : TRUE]
    BY DEF PickEdf
  <2>2. mine # {} => (CHOOSE i \in mine : TRUE) \in mine
    OBVIOUS
  <2>3. mine \subseteq 1..Len(edf)
    OBVIOUS
  <2> HIDE DEF mine
  <2>4. <<"edf", 0, 0>> \in Lists
    BY DEF Lists
  <2> QED
    BY <2>1, <2>2, <2>3, <2>4
<1>2. PickPriority(c) # NoTask => Listed(PickPriority(c))
  <2> SUFFICES ASSUME PickPriority(c) # NoTask PROVE Listed(PickPriority(c))
    OBVIOUS
  <2>1. PICK p \in 0..MaxPrio : \E i \in 1..Len(ready[<<"prio", c, p>>]) :
          PickPriority(c) = ready[<<"prio", c, p>>][i]
    BY PriorityListed
  <2>2. <<"prio", c, p>> \in Lists
    BY DEF Lists
  <2> QED
    BY <2>1, <2>2
<1>3. PickCfs(c) # NoTask => Listed(PickCfs(c))
  <2> SUFFICES ASSUME PickCfs(c) # NoTask PROVE Listed(PickCfs(c))
    OBVIOUS
  <2>1. PICK i \in 1..Len(ready[<<"cfs", c, 0>>]) : PickCfs(c) = ready[<<"cfs", c, 0>>][i]
    BY CfsListed
  <2>2. <<"cfs", c, 0>> \in Lists
    BY DEF Lists
  <2> QED
    BY <2>1, <2>2
<1>4. Listed(t)
  BY <1>1, <1>2, <1>3 DEF PickNext
<1>5. PICK l \in Lists : \E i \in 1..Len(ready[l]) : t = ready[l][i]
  BY <1>4
<1>6. PICK i \in 1..Len(ready[l]) : t = ready[l][i]
  BY <1>5
<1>7. ready[l] \in Seq(Tasks)
  BY DEF QueueInv, Placed
<1> HIDE DEF t, Listed
<1>8. t \in Tasks /\ Contains(ready[l], t)
  BY <1>6, <1>7, ElementOfSeq DEF Contains
<1>9. l \in Where[t]
  BY <1>8 DEF QueueInv, Placed
<1>10. state[t] = "READY" /\ ~Held(t)
  BY <1>8, <1>9 DEF Where
<1> QED
  BY <1>8, <1>10 DEF t

LEMMA EdfIsListed ==
    ASSUME QueueInv, NEW c \in Cores, PickEdf(c) # NoTask
    PROVE  state[PickEdf(c)] = "READY"
<1>1. PickNext(c, TRUE) = PickEdf(c)
  BY DEF PickNext
<1> QED
  BY <1>1, PickedIsListed

-----------------------------------------------------------------------------
(* Each step keeps it.                                                     *)

LEMMA NotQueued ==
    ASSUME NEW t \in Tasks, state[t] # "READY" \/ Held(t)
    PROVE  Where[t] = {}
BY DEF Where

LEMMA Alike ==
    ASSUME NEW t \in Tasks,
           \A u \in Tasks \ {t} : /\ state'[u] = state[u] /\ prio'[u] = prio[u]
                                  /\ aff'[u] = aff[u] /\ runCpu'[u] = runCpu[u]
                                  /\ Held(u)' <=> Held(u)
    PROVE  Where' = [Where EXCEPT ![t] =
                        IF state'[t] = "READY" /\ ~Held(t)' THEN {ListOf(t)'} ELSE {}]
<1> DEFINE x == IF state'[t] = "READY" /\ ~Held(t)' THEN {ListOf(t)'} ELSE {}
<1>1. ASSUME NEW u \in Tasks
      PROVE  (IF state'[u] = "READY" /\ ~Held(u)' THEN {ListOf(u)'} ELSE {})
               = [Where EXCEPT ![t] = x][u]
  <2>1. CASE u = t
    BY <2>1 DEF Where
  <2>2. CASE u # t
    <3>1. ListOf(u)' = ListOf(u)
      BY <2>2 DEF ListOf, ListAt, TargetCore, UsesCfs
    <3> QED
      BY <2>2, <3>1 DEF Where
  <2> QED
    BY <2>1, <2>2
<1>2. Where' = [u \in Tasks |-> IF state'[u] = "READY" /\ ~Held(u)' THEN {ListOf(u)'} ELSE {}]
  BY DEF Where
<1>3. [Where EXCEPT ![t] = x] = [u \in Tasks |-> [Where EXCEPT ![t] = x][u]]
  BY DEF Where
<1> HIDE DEF x
<1> QED
  BY <1>1, <1>2, <1>3 DEF x

(* A step that enters in l, where it belongs from then on, a task that was *)
(* in no list.                                                             *)
LEMMA Entered ==
    ASSUME QueueInv, NEW t \in Tasks, state[t] # "READY" \/ Held(t),
           NEW l \in Lists, ready' \in AddTo(ready, l, t),
           Where' = [Where EXCEPT ![t] = {l}]
    PROVE  Placed(ready', Where')
<1>1. Where \in [Tasks -> SUBSET Lists] /\ Where[t] = {} /\ Placed(ready, Where)
  BY WhereOK, NotQueued DEF QueueInv
<1>2. Placed(ready', [Where EXCEPT ![t] = {l}])
  BY <1>1, AddPlaced
<1> QED
  BY <1>2

LEMMA RemovedReady ==
    ASSUME QueueInv, NEW t \in Tasks, ~Held(t)
    PROVE  Placed(RemoveReady(ready, t), [Where EXCEPT ![t] = {}])
<1>1. Where \in [Tasks -> SUBSET Lists] /\ Placed(ready, Where) /\ ListOf(t) \in Lists
  BY WhereOK, Targets DEF QueueInv
<1>2. CASE state[t] = "READY"
  <2>1. Where[t] = {ListOf(t)}
    BY <1>2 DEF Where
  <2>2. Placed([ready EXCEPT ![ListOf(t)] = Unlinked(ListOf(t), @, t)], [Where EXCEPT ![t] = {}])
    BY <1>1, <2>1, RemovePlaced
  <2> QED
    BY <1>2, <2>2 DEF RemoveReady
<1>3. CASE state[t] # "READY"
  <2>1. Where[t] = {}
    BY <1>3, NotQueued
  <2>2. [Where EXCEPT ![t] = {}] = Where
    BY <1>1, <2>1
  <2> QED
    BY <1>1, <1>3, <2>2 DEF RemoveReady
<1> QED
  BY <1>2, <1>3

(* Steps that leave all of it alone.                                       *)
queueVars == <<state, prio, aff, runCpu, current, ready, klock>>

LEMMA AsideKeeps ==
    ASSUME QueueInv, UNCHANGED queueVars
    PROVE  QueueInv'
<1>1. FieldsOK' /\ CallOK'
  BY DEF QueueInv, FieldsOK, CallOK, queueVars
<1>2. Where' = Where
  BY DEF Where, Held, ListOf, ListAt, TargetCore, UsesCfs, queueVars
<1>3. Placed(ready', Where')
  BY <1>2 DEF QueueInv, queueVars
<1> QED
  BY <1>1, <1>3 DEF QueueInv

LEMMA CallsTyped == Cores \subseteq Nat /\ AnyCore \in Nat /\ 0..MaxPrio \subseteq Nat
BY SchedAssumption DEF Cores, AnyCore

LEMMA BlockKeeps ==
    ASSUME QueueInv, NEW c \in Cores, NEW t \in Tasks, Block(c, t)
    PROVE  QueueInv'
<1>1. klock.call = "none" /\ ~Held(t)
  BY DEF Block, Acts, Held
<1>2. FieldsOK'
  BY DEF Block, QueueInv, FieldsOK, coreVars
<1>3. CallOK'
  BY DEF Block, QueueInv, CallOK, coreVars
<1>4. state' = [state EXCEPT ![t] = "BLOCKED"] /\ UNCHANGED <<prio, aff, runCpu, klock>>
  BY DEF Block
<1>5. Where' = [Where EXCEPT ![t] = {}]
  <2>1. state'[t] # "READY"
    BY <1>4 DEF QueueInv, FieldsOK
  <2>2. \A u \in Tasks \ {t} : /\ state'[u] = state[u] /\ prio'[u] = prio[u]
                               /\ aff'[u] = aff[u] /\ runCpu'[u] = runCpu[u]
                               /\ Held(u)' <=> Held(u)
    BY <1>4 DEF QueueInv, FieldsOK, Held
  <2> QED
    BY <2>1, <2>2, Alike
<1>6. ready' = RemoveReady(ready, t)
  BY DEF Block
<1>7. Placed(ready', Where')
  BY <1>1, <1>5, <1>6, RemovedReady
<1> QED
  BY <1>2, <1>3, <1>7 DEF QueueInv

LEMMA UnblockKeeps ==
    ASSUME QueueInv, NEW c \in Cores, NEW t \in Tasks, Unblock(c, t) \/ Resume(c, t)
    PROVE  QueueInv'
<1>1. /\ klock.call = "none" /\ state[t] # "READY"
      /\ state' = [state EXCEPT ![t] = "READY"]
      /\ ready' \in AddTo(ready, ListOf(t), t)
      /\ UNCHANGED <<prio, aff, runCpu, current, klock>>
  BY DEF Unblock, Resume, Acts, AddReady
<1>2. FieldsOK' /\ CallOK'
  BY <1>1 DEF QueueInv, FieldsOK, CallOK
<1>3. ListOf(t)' = ListOf(t) /\ ListOf(t) \in Lists
  BY <1>1, Targets DEF ListOf, ListAt, TargetCore, UsesCfs, QueueInv
<1>4. Where' = [Where EXCEPT ![t] = {ListOf(t)}]
  <2>1. state'[t] = "READY" /\ ~Held(t)'
    BY <1>1 DEF QueueInv, FieldsOK, Held
  <2>2. \A u \in Tasks \ {t} : /\ state'[u] = state[u] /\ prio'[u] = prio[u]
                               /\ aff'[u] = aff[u] /\ runCpu'[u] = runCpu[u]
                               /\ Held(u)' <=> Held(u)
    BY <1>1 DEF QueueInv, FieldsOK, Held
  <2> QED
    BY <1>3, <2>1, <2>2, Alike
<1>5. Placed(ready', Where')
  BY <1>1, <1>3, <1>4, Entered
<1> QED
  BY <1>2, <1>5 DEF QueueInv

LEMMA CreateKeeps ==
    ASSUME QueueInv, NEW c \in Cores, NEW t \in Tasks, NEW k \in Cores, Create(c, t, k)
    PROVE  QueueInv'
<1> DEFINE l == ListAt(t, k, CreationPrio[t])
<1>1. /\ klock.call = "none" /\ state[t] # "READY"
      /\ state' = [state EXCEPT ![t] = "READY"]
      /\ prio' = [prio EXCEPT ![t] = CreationPrio[t]]
      /\ aff' = [aff EXCEPT ![t] = AnyCore]
      /\ runCpu' = [runCpu EXCEPT ![t] = k]
      /\ ready' \in AddTo(ready, l, t)
      /\ UNCHANGED <<current, klock>>
  BY DEF Create, Acts, SlotFree
<1>2. CreationPrio[t] \in 0..MaxPrio
  BY SchedAssumption
<1>3. FieldsOK' /\ CallOK'
  BY <1>1, <1>2 DEF QueueInv, FieldsOK, CallOK
<1>4. l \in Lists
  BY <1>2, ListAtIsList
<1>5. prio'[t] = CreationPrio[t] /\ aff'[t] = AnyCore /\ runCpu'[t] = k /\ state'[t] = "READY"
  BY <1>1 DEF QueueInv, FieldsOK
<1>6. ListOf(t)' = l
  <2>1. TargetCore(t)' = k
    BY <1>5 DEF TargetCore
  <2> QED
    BY <1>5, <2>1 DEF ListOf, ListAt, UsesCfs
<1> HIDE DEF l
<1>7. Where' = [Where EXCEPT ![t] = {l}]
  <2>1. ~Held(t)'
    BY <1>1 DEF Held
  <2>2. \A u \in Tasks \ {t} : /\ state'[u] = state[u] /\ prio'[u] = prio[u]
                               /\ aff'[u] = aff[u] /\ runCpu'[u] = runCpu[u]
                               /\ Held(u)' <=> Held(u)
    BY <1>1 DEF QueueInv, FieldsOK, Held
  <2> QED
    BY <1>5, <1>6, <2>1, <2>2, Alike
<1>8. Placed(ready', Where')
  BY <1>1, <1>4, <1>7, Entered
<1> QED
  BY <1>3, <1>8 DEF QueueInv

LEMMA MigrateKeeps ==
    ASSUME QueueInv, NEW t \in Tasks, NEW k \in Cores, Migrate(t, k)
    PROVE  QueueInv'
<1> DEFINE l == ListAt(t, k, prio[t])
<1>1. /\ klock.call = "none" /\ state[t] = "READY" /\ aff[t] = AnyCore
      /\ runCpu' = [runCpu EXCEPT ![t] = k]
      /\ ready' \in AddTo(RemoveReady(ready, t), l, t)
      /\ UNCHANGED <<state, prio, aff, current, klock>>
  BY DEF Migrate, QueueInv, CallOK
<1>2. FieldsOK' /\ CallOK'
  BY <1>1 DEF QueueInv, FieldsOK, CallOK
<1>3. l \in Lists
  <2>1. prio[t] \in 0..MaxPrio
    BY DEF QueueInv, FieldsOK
  <2> QED
    BY <2>1, ListAtIsList
<1>4. ListOf(t)' = l
  <2>1. TargetCore(t)' = k
    BY <1>1 DEF TargetCore, QueueInv, FieldsOK
  <2> QED
    BY <1>1, <2>1 DEF ListOf, ListAt, UsesCfs
<1> HIDE DEF l
<1>5. Where' = [Where EXCEPT ![t] = {l}]
  <2>1. state'[t] = "READY" /\ ~Held(t)'
    BY <1>1 DEF Held
  <2>2. \A u \in Tasks \ {t} : /\ state'[u] = state[u] /\ prio'[u] = prio[u]
                               /\ aff'[u] = aff[u] /\ runCpu'[u] = runCpu[u]
                               /\ Held(u)' <=> Held(u)
    BY <1>1 DEF QueueInv, FieldsOK, Held
  <2> QED
    BY <1>4, <2>1, <2>2, Alike
<1>6. Placed(RemoveReady(ready, t), [Where EXCEPT ![t] = {}])
  BY <1>1, RemovedReady DEF Held
<1>7. Where \in [Tasks -> SUBSET Lists]
  BY WhereOK DEF QueueInv
<1>8. [Where EXCEPT ![t] = {}] \in [Tasks -> SUBSET Lists] /\ [Where EXCEPT ![t] = {}][t] = {}
  BY <1>7
<1>9. Placed(ready', [[Where EXCEPT ![t] = {}] EXCEPT ![t] = {l}])
  BY <1>1, <1>3, <1>6, <1>8, AddPlaced
<1>10. [[Where EXCEPT ![t] = {}] EXCEPT ![t] = {l}] = [Where EXCEPT ![t] = {l}]
  BY <1>7
<1> QED
  BY <1>2, <1>5, <1>9, <1>10 DEF QueueInv

LEMMA BeginCallKeeps ==
    ASSUME Undisturbed, QueueInv, NEW c \in Cores, NEW t \in Tasks, NEW call, NEW x,
           BeginCall(c, call, t, x),
           \/ call = "prio" /\ x \in 0..MaxPrio
           \/ call = "aff" /\ x \in Affinities
           \/ call \in {"suspend", "delete"} /\ x = 0
    PROVE  QueueInv'
<1>1. /\ klock.call = "none" /\ Names(c, t)
      /\ ready' = RemoveReady(ready, t)
      /\ klock' = [call |-> call, core |-> c, task |-> t, arg |-> x]
      /\ UNCHANGED <<state, prio, aff, runCpu, current>>
  BY DEF BeginCall, Acts, taskVars, coreVars
<1>2. FieldsOK'
  BY <1>1 DEF QueueInv, FieldsOK
<1>3. t \in Managed /\ ~Remote /\ ~Balance
  BY <1>1 DEF Names, Undisturbed
<1>4. c \in Nat /\ x \in Nat
  <2>1. Affinities \subseteq Nat
    BY CallsTyped, SchedAssumption
  <2>2. 0 \in Nat
    OBVIOUS
  <2> QED
    BY <2>1, <2>2, CallsTyped
<1>5. CallOK'
  <2>1. \A k \in Cores \ {c} : current[k] # t
    BY <1>1, <1>3 DEF Names
  <2>2. /\ klock'.call = call /\ klock'.core = c /\ klock'.task = t /\ klock'.arg = x
        /\ klock' \in [call : {"none", "prio", "aff", "suspend", "delete", "requeue"},
                       core : Nat, task : Tasks \cup {NoTask}, arg : Nat]
    BY <1>1, <1>4
  <2> QED
    BY <1>1, <1>3, <2>1, <2>2, SchedAssumption DEF CallOK
<1>6. Where' = [Where EXCEPT ![t] = {}]
  <2>1. Held(t)'
    BY <1>1 DEF Held
  <2>2. \A u \in Tasks \ {t} : /\ state'[u] = state[u] /\ prio'[u] = prio[u]
                               /\ aff'[u] = aff[u] /\ runCpu'[u] = runCpu[u]
                               /\ Held(u)' <=> Held(u)
    BY <1>1 DEF Held
  <2> QED
    BY <2>1, <2>2, Alike
<1>7. Placed(ready', Where')
  BY <1>1, <1>6, RemovedReady DEF Held
<1> QED
  BY <1>2, <1>5, <1>7 DEF QueueInv

(* What a call writes of the task that it has in hand concerns no list.    *)
LEMMA WriteKeeps ==
    ASSUME QueueInv, WritePriority \/ WriteAffinity \/ WriteSuspended \/ WriteDeleted
    PROVE  QueueInv'
<1>0. PICK t \in Tasks : t = klock.task
  BY SchedAssumption DEF WritePriority, WriteAffinity, WriteSuspended, WriteDeleted,
     QueueInv, CallOK
<1>1. klock.call # "none" /\ UNCHANGED <<runCpu, current, ready>>
  BY SchedAssumption DEF WritePriority, WriteAffinity, WriteSuspended, WriteDeleted,
     QueueInv, CallOK, coreVars, Kick
<1>2. FieldsOK' /\ \A u \in Tasks \ {t} : /\ state'[u] = state[u] /\ prio'[u] = prio[u]
                                          /\ aff'[u] = aff[u] /\ runCpu'[u] = runCpu[u]
  <2>1. CASE WritePriority
    <3>1. klock.arg \in 0..MaxPrio
      BY <2>1 DEF WritePriority, QueueInv, CallOK
    <3> QED
      BY <1>0, <1>1, <2>1, <3>1 DEF WritePriority, QueueInv, FieldsOK
  <2>2. CASE WriteAffinity
    <3>1. klock.arg \in Cores \cup {AnyCore}
      BY <2>2 DEF WriteAffinity, QueueInv, CallOK
    <3> QED
      BY <1>0, <1>1, <2>2, <3>1 DEF WriteAffinity, QueueInv, FieldsOK
  <2>3. CASE WriteSuspended
    BY <1>0, <1>1, <2>3 DEF WriteSuspended, QueueInv, FieldsOK
  <2>4. CASE WriteDeleted
    BY <1>0, <1>1, <2>4 DEF WriteDeleted, QueueInv, FieldsOK
  <2> QED
    BY <2>1, <2>2, <2>3, <2>4
<1>3. CASE WritePriority \/ WriteAffinity
  <2>1. klock' = [klock EXCEPT !.call = "requeue"]
    BY <1>3 DEF WritePriority, WriteAffinity
  <2>2. /\ klock'.call = "requeue" /\ klock'.task = t /\ klock'.core = klock.core
        /\ klock' \in [call : {"none", "prio", "aff", "suspend", "delete", "requeue"},
                       core : Nat, task : Tasks \cup {NoTask}, arg : Nat]
    BY <1>0, <2>1 DEF QueueInv, CallOK
  <2>3. CallOK'
    BY <1>0, <1>1, <2>2 DEF QueueInv, CallOK
  <2>4. Held(t) /\ Held(t)' /\ \A u \in Tasks \ {t} : Held(u)' <=> Held(u)
    BY <1>0, <1>1, <2>2 DEF Held
  <2>5. Where' = [Where EXCEPT ![t] = {}]
    BY <1>0, <1>1, <1>2, <2>4, Alike
  <2>6. Where' = Where
    BY <1>0, <1>1, <2>4, <2>5, NotQueued DEF Where
  <2> QED
    BY <1>0, <1>1, <1>2, <2>3, <2>6 DEF QueueInv
<1>4. CASE WriteSuspended \/ WriteDeleted
  <2>1. klock' = FreeLock /\ state'[t] # "READY"
    BY <1>0, <1>1, <1>4 DEF WriteSuspended, WriteDeleted, EndCall, QueueInv, FieldsOK
  <2>2. CallOK'
    BY <2>1 DEF CallOK, FreeLock
  <2>3. Held(t) /\ \A u \in Tasks \ {t} : Held(u)' <=> Held(u)
    BY <1>0, <1>1, <2>1 DEF Held, FreeLock
  <2>5. Where' = [Where EXCEPT ![t] = {}]
    BY <1>0, <1>1, <1>2, <2>1, <2>3, Alike
  <2>6. Where' = Where
    BY <1>0, <1>1, <2>3, <2>5, NotQueued DEF Where
  <2> QED
    BY <1>0, <1>1, <1>2, <2>2, <2>6 DEF QueueInv
<1> QED
  BY <1>3, <1>4

LEMMA RequeueKeeps ==
    ASSUME QueueInv, Requeue
    PROVE  QueueInv'
<1>0. PICK t \in Tasks : t = klock.task
  BY SchedAssumption DEF Requeue, QueueInv, CallOK
<1>1. /\ klock.call = "requeue" /\ klock' = FreeLock
      /\ UNCHANGED <<state, prio, aff, runCpu, current>>
  BY SchedAssumption DEF Requeue, EndCall, QueueInv, CallOK, taskVars, coreVars
<1>2. FieldsOK' /\ CallOK'
  BY <1>1 DEF QueueInv, FieldsOK, CallOK, FreeLock
<1>3. Held(t) /\ ~Held(t)' /\ \A u \in Tasks \ {t} : Held(u)' <=> Held(u)
  BY <1>0, <1>1 DEF Held, FreeLock
<1>4. ListOf(t)' = ListOf(t) /\ ListOf(t) \in Lists
  BY <1>0, <1>1, Targets DEF ListOf, ListAt, TargetCore, UsesCfs, QueueInv
<1>5. Where' = [Where EXCEPT ![t] = IF state[t] = "READY" THEN {ListOf(t)} ELSE {}]
  BY <1>0, <1>1, <1>3, <1>4, Alike
<1>6. CASE state[t] = "READY"
  <2>1. ready' \in AddTo(ready, ListOf(t), t)
    BY <1>0, <1>6 DEF Requeue, AddReady
  <2>2. Placed(ready', Where')
    BY <1>0, <1>1, <1>3, <1>4, <1>5, <1>6, <2>1, Entered
  <2> QED
    BY <1>2, <2>2 DEF QueueInv
<1>7. CASE state[t] # "READY"
  <2>1. ready' = ready
    BY <1>0, <1>7 DEF Requeue
  <2>2. Where' = Where
    BY <1>0, <1>1, <1>3, <1>5, <1>7, NotQueued DEF Where
  <2> QED
    BY <1>2, <2>1, <2>2 DEF QueueInv
<1> QED
  BY <1>6, <1>7

(* A switch: what stops running goes back to its list, and what runs next  *)
(* leaves the one it was picked from.                                      *)
LEMMA TrapKeeps ==
    ASSUME QueueInv, NEW c \in Cores, Trap(c)
    PROVE  QueueInv'
<1>1. UNCHANGED <<prio, aff, klock>>
  BY DEF Trap, taskVars
<1>2. klock.call # "none" => klock.core # c
  BY DEF Trap, Interruptible
<1>3. CASE UNCHANGED <<state, runCpu, current, ready>>
  BY <1>1, <1>3, AsideKeeps DEF queueVars
<1>4. CASE ~UNCHANGED <<state, runCpu, current, ready>>
  <2>1. PICK urgent \in BOOLEAN :
          LET cur     == current[c]
              next    == PickNext(c, urgent)
              running == cur # NoTask /\ state[cur] = "RUNNING"
          IN  \E lists \in (IF running THEN AddReady(ready, cur) ELSE {ready}) :
                 SwitchTo(c, cur, next, lists)
    BY <1>4 DEF Trap, taskVars
  <2>2. PICK cur \in Tasks \cup {NoTask} : cur = current[c]
    BY DEF QueueInv, FieldsOK
  <2>3. PICK next \in Tasks \cup {NoTask} :
          /\ next = PickNext(c, urgent)
          /\ next # NoTask => state[next] = "READY" /\ ~Held(next)
    BY PickedIsListed
  <2> DEFINE running == cur # NoTask /\ state[cur] = "RUNNING"
             out     == IF running THEN [Where EXCEPT ![cur] = {ListOf(cur)}] ELSE Where
  <2>4. PICK lists \in (IF running THEN AddReady(ready, cur) ELSE {ready}) :
          SwitchTo(c, cur, next, lists)
    BY <2>1, <2>2, <2>3
  <2>5. NoTask \notin Tasks
    BY SchedAssumption
  <2>6. Where \in [Tasks -> SUBSET Lists] /\ Placed(ready, Where)
    BY WhereOK DEF QueueInv
  <2>7. out \in [Tasks -> SUBSET Lists] /\ Placed(lists, out)
    <3>1. CASE running
      <4>1. cur \in Tasks /\ state[cur] # "READY" /\ ListOf(cur) \in Lists
        BY <3>1, Targets DEF QueueInv
      <4>2. lists \in AddTo(ready, ListOf(cur), cur) /\ Where[cur] = {}
        BY <2>4, <3>1, <4>1, NotQueued DEF AddReady
      <4>3. Placed(lists, [Where EXCEPT ![cur] = {ListOf(cur)}])
        BY <2>6, <4>1, <4>2, AddPlaced
      <4> QED
        BY <2>6, <3>1, <4>1, <4>3
    <3>2. CASE ~running
      BY <2>4, <2>6, <3>2
    <3> QED
      BY <3>1, <3>2
  <2>8. cur # NoTask => ~Held(cur)
    BY <1>2, <2>2 DEF QueueInv, CallOK, Held
  <2>9. /\ current' = [current EXCEPT ![c] = next]
        /\ ready' = IF next = NoTask \/ (next # cur /\ state[next] # "READY") THEN lists
                    ELSE [lists EXCEPT ![ListOf(next)] = Unlinked(ListOf(next), @, next)]
        /\ state' = [t \in Tasks |->
                        CASE t = next -> "RUNNING"
                          [] t = cur /\ t # next /\ state[t] = "RUNNING" -> "READY"
                          [] t = cur /\ t # next /\ state[t] = "DELETED" -> Reclaimed(t, c)
                          [] OTHER -> state[t]]
        /\ runCpu' = [t \in Tasks |-> IF t = next /\ next # cur THEN c ELSE runCpu[t]]
    BY <2>4 DEF SwitchTo
  <2>10. \A t \in Tasks :
            /\ t = next => state'[t] = "RUNNING"
            /\ t = cur /\ t # next /\ state[t] = "RUNNING" => state'[t] = "READY"
            /\ t = cur /\ t # next /\ state[t] = "DELETED" => state'[t] \in {"DELETED", "FREE"}
            /\ t # next /\ (t # cur \/ state[t] \notin {"RUNNING", "DELETED"}) =>
                  state'[t] = state[t]
    BY <2>9 DEF Reclaimed
  <2>11. FieldsOK'
    <3>1. state' \in [Tasks -> {"READY", "RUNNING", "BLOCKED", "SUSPENDED", "DELETED", "FREE"}]
      <4>1. state' = [t \in Tasks |-> state'[t]]
        BY <2>9
      <4>2. \A t \in Tasks :
              state'[t] \in {"READY", "RUNNING", "BLOCKED", "SUSPENDED", "DELETED", "FREE"}
        BY <2>10 DEF QueueInv, FieldsOK
      <4> QED
        BY <4>1, <4>2
    <3>2. runCpu' \in [Tasks -> Cores] /\ current' \in [Cores -> Tasks \cup {NoTask}]
      BY <2>9 DEF QueueInv, FieldsOK
    <3> QED
      BY <1>1, <3>1, <3>2 DEF QueueInv, FieldsOK
  <2>12. CallOK'
    <3>1. klock.call # "none" => \A k \in Cores \ {klock.core} : current'[k] # klock.task
      <4> SUFFICES ASSUME klock.call # "none", NEW k \in Cores, k # klock.core
                   PROVE  current'[k] # klock.task
        OBVIOUS
      <4>1. CASE k = c
        <5>1. current'[k] = next
          BY <2>9, <4>1 DEF QueueInv, FieldsOK
        <5>2. klock.task \in Tasks
          BY SchedAssumption DEF QueueInv, CallOK
        <5> QED
          BY <2>3, <2>5, <5>1, <5>2 DEF Held
      <4>2. CASE k # c
        BY <2>9, <4>2 DEF QueueInv, FieldsOK, CallOK
      <4> QED
        BY <4>1, <4>2
    <3> QED
      BY <1>1, <3>1 DEF QueueInv, CallOK
  <2>13. ASSUME NEW t \in Tasks
         PROVE  (IF state'[t] = "READY" /\ ~Held(t)' THEN {ListOf(t)'} ELSE {})
                   = IF t = next THEN {} ELSE out[t]
    <3>1. Held(t)' <=> Held(t)
      BY <1>1 DEF Held
    <3>2. CASE t = next
      BY <2>10, <3>2
    <3>3. CASE t # next
      <4>1. ListOf(t)' = ListOf(t)
        BY <1>1, <2>9, <3>3 DEF ListOf, ListAt, TargetCore, UsesCfs
      <4>2. CASE t = cur /\ state[t] = "RUNNING"
        <5>1. running /\ out[t] = {ListOf(t)} /\ state'[t] = "READY" /\ ~Held(t)
          BY <2>5, <2>6, <2>8, <2>10, <3>3, <4>2
        <5> QED
          BY <3>1, <3>3, <4>1, <5>1
      <4>3. CASE ~(t = cur /\ state[t] = "RUNNING")
        <5>1. out[t] = Where[t] /\ (state'[t] = "READY" <=> state[t] = "READY")
          BY <2>6, <2>10, <3>3, <4>3
        <5> QED
          BY <3>1, <3>3, <4>1, <5>1 DEF Where
      <4> QED
        BY <4>2, <4>3
    <3> QED
      BY <3>2, <3>3
  <2>14. Where' = [t \in Tasks |-> IF t = next THEN {} ELSE out[t]]
    <3>1. Where' = [t \in Tasks |-> IF state'[t] = "READY" /\ ~Held(t)' THEN {ListOf(t)'} ELSE {}]
      BY DEF Where
    <3> QED
      BY <2>13, <3>1
  <2>15. Placed(ready', Where')
    <3>1. CASE next = NoTask
      <4>1. ready' = lists
        BY <2>9, <3>1
      <4>2. Where' = out
        BY <2>5, <2>7, <2>14, <3>1
      <4> QED
        BY <2>7, <4>1, <4>2
    <3>2. CASE next # NoTask
      <4>1. next \in Tasks /\ state[next] = "READY" /\ ListOf(next) \in Lists
        BY <2>3, <3>2, Targets DEF QueueInv
      <4>2. ready' = [lists EXCEPT ![ListOf(next)] = Unlinked(ListOf(next), @, next)]
        BY <2>9, <3>2, <4>1
      <4>3. out[next] = {ListOf(next)}
        <5>1. Where[next] = {ListOf(next)}
          BY <2>3, <3>2, <4>1 DEF Where
        <5> QED
          BY <2>6, <4>1, <5>1
      <4> HIDE DEF out
      <4>4. Placed([lists EXCEPT ![ListOf(next)] = Unlinked(ListOf(next), @, next)],
                   [out EXCEPT ![next] = {}])
        BY <2>7, <4>1, <4>3, RemovePlaced
      <4>5. Where' = [out EXCEPT ![next] = {}]
        BY <2>7, <2>14
      <4> QED
        BY <4>2, <4>4, <4>5
    <3> QED
      BY <3>1, <3>2
  <2> QED
    BY <2>11, <2>12, <2>15 DEF QueueInv
<1> QED
  BY <1>3, <1>4

LEMMA InitQueued == Init => QueueInv
<1> SUFFICES ASSUME Init PROVE QueueInv
  OBVIOUS
<1>1. 0 \in Cores /\ 0 \in Nat
  BY SchedAssumption DEF Cores
<1>2. FieldsOK
  <2>1. runCpu \in [Tasks -> Cores]
    BY <1>1, SchedAssumption DEF Init
  <2> QED
    BY <2>1, SchedAssumption DEF Init, FieldsOK
<1>3. CallOK
  BY <1>1 DEF Init, CallOK, FreeLock
<1>4. Where = [t \in Tasks |-> {ListOf(t)}]
  BY DEF Init, Where, Held, FreeLock
<1>5. ASSUME NEW l \in Lists
      PROVE  /\ ready[l] \in Seq(Tasks) /\ Once(ready[l])
             /\ \A t \in Tasks : Contains(ready[l], t) <=> l \in Where[t]
  <2> DEFINE S == {t \in Tasks : ListOf(t) = l}
  <2>1. ready[l] = SetToSeq(S)
    BY DEF Init
  <2>2. S \in SUBSET Tasks
    OBVIOUS
  <2>3. \A t \in Tasks : t \in S <=> l \in Where[t]
    BY <1>4
  <2> HIDE DEF S
  <2> QED
    BY <2>1, <2>2, <2>3, FilledOnce
<1>6. ready = [l \in Lists |-> ready[l]]
  BY DEF Init
<1>7. ready \in [Lists -> Seq(Tasks)]
  BY <1>5, <1>6
<1> QED
  BY <1>2, <1>3, <1>5, <1>7 DEF QueueInv, Placed

LEMMA NextQueued ==
    ASSUME Undisturbed, QueueInv, [Next]_vars
    PROVE  QueueInv'
<1>1. CASE UNCHANGED vars
  BY <1>1, AsideKeeps DEF vars, taskVars, coreVars, queueVars
<1>2. CASE CoreStep
  <2>1. PICK c \in Cores :
          \/ Tick(c) \/ Trap(c) \/ Yield(c) \/ SuspendScheduler(c) \/ ResumeScheduler(c)
          \/ \E t \in Tasks : Block(c, t) \/ Unblock(c, t) \/ Resume(c, t) \/ Migrate(t, c)
          \/ \E t \in Tasks, k \in Cores : Create(c, t, k)
          \/ \E t \in Tasks, p \in 0..MaxPrio : SetThreshold(c, t, p)
    BY <1>2 DEF CoreStep
  <2>2. CASE Trap(c)
    BY <2>2, TrapKeeps
  <2>3. CASE \/ Tick(c) \/ Yield(c) \/ SuspendScheduler(c) \/ ResumeScheduler(c)
             \/ \E t \in Tasks, p \in 0..MaxPrio : SetThreshold(c, t, p)
    <3>1. UNCHANGED queueVars
      BY <2>3 DEF Tick, Yield, SuspendScheduler, ResumeScheduler, SetThreshold,
         taskVars, coreVars, queueVars
    <3> QED
      BY <3>1, AsideKeeps
  <2>4. CASE \E t \in Tasks : Block(c, t) \/ Unblock(c, t) \/ Resume(c, t) \/ Migrate(t, c)
    BY <2>4, BlockKeeps, UnblockKeeps, MigrateKeeps
  <2>5. CASE \E t \in Tasks, k \in Cores : Create(c, t, k)
    BY <2>5, CreateKeeps
  <2> QED
    BY <2>1, <2>2, <2>3, <2>4, <2>5
<1>3. CASE CallStep
  <2>1. CASE \E c \in Cores, t \in Tasks, p \in 0..MaxPrio : BeginCall(c, "prio", t, p)
    BY <2>1, BeginCallKeeps
  <2>2. CASE \E c \in Cores, t \in Tasks, a \in Affinities : BeginCall(c, "aff", t, a)
    BY <2>2, BeginCallKeeps
  <2>3. CASE \E c \in Cores, t \in Tasks, call \in {"suspend", "delete"} : BeginCall(c, call, t, 0)
    BY <2>3, BeginCallKeeps
  <2>4. CASE WritePriority \/ WriteAffinity \/ WriteSuspended \/ WriteDeleted
    BY <2>4, WriteKeeps
  <2>5. CASE Requeue
    BY <2>5, RequeueKeeps
  <2> QED
    BY <1>3, <2>1, <2>2, <2>3, <2>4, <2>5 DEF CallStep
<1> QED
  BY <1>1, <1>2, <1>3 DEF Next

LEMMA QueuedFollows == QueueInv => QueuedIffReady
<1> SUFFICES ASSUME QueueInv, NEW t \in Tasks, ~Held(t)
             PROVE  /\ Queued(t) = IF state[t] = "READY" THEN {ListOf(t)} ELSE {}
                    /\ \A l \in Queued(t) :
                          Cardinality({i \in 1..Len(ready[l]) : ready[l][i] = t}) = 1
  BY DEF QueuedIffReady, Held
<1>1. Queued(t) = Where[t]
  <2>1. \A l \in Lists : Contains(ready[l], t) <=> l \in Where[t]
    BY DEF QueueInv, Placed
  <2>2. Where[t] \subseteq Lists
    BY WhereOK DEF QueueInv
  <2> QED
    BY <2>1, <2>2 DEF Queued
<1>2. ASSUME NEW l \in Queued(t)
      PROVE  Cardinality({i \in 1..Len(ready[l]) : ready[l][i] = t}) = 1
  <2>1. Once(ready[l]) /\ Contains(ready[l], t)
    BY DEF Queued, QueueInv, Placed
  <2>2. PICK i \in 1..Len(ready[l]) : ready[l][i] = t
    BY <2>1 DEF Contains
  <2>3. {j \in 1..Len(ready[l]) : ready[l][j] = t} = {i}
    BY <2>1, <2>2 DEF Once
  <2> QED
    BY <2>3, FS_Singleton
<1> QED
  BY <1>1, <1>2 DEF Where

(* A task is in a ready list exactly when it is READY: in one list, once,  *)
(* and in the list that sched_pick_next and sched_remove_ready_locked will *)
(* look for it in.  A switch, a wake-up, a creation, a new priority or     *)
(* affinity and a migration of kernel/scheduler.c and kernel/task.c keep   *)
(* the lists right.                                                        *)
THEOREM ListsMatchStates ==
    ASSUME Undisturbed
    PROVE  Spec => []QueuedIffReady
<1>1. QueueInv /\ [Next]_vars => QueueInv'
  BY NextQueued
<1> QED
  BY InitQueued, <1>1, QueuedFollows, PTL DEF Spec
-----------------------------------------------------------------------------
(* The seats of sched_pick_edf.                                            *)

Seat(free, t) ==
    IF TargetCore(t) \in free THEN TargetCore(t)
    ELSE IF aff[t] # AnyCore \/ free = {} THEN AnyCore
    ELSE CHOOSE k \in free : \A j \in free : k <= j

SeatAt(edf, f, i) == Seat(Cores \ {f[j] : j \in 1..(i - 1)}, edf[i])

(* They can be given out along a list of any length.                       *)
LEMMA SeatsExist ==
    ASSUME NEW edf, NEW n \in Nat
    PROVE  \E f : f = [i \in 1..n |-> SeatAt(edf, f, i)]
<1> DEFINE Given(m) == \E f : f = [i \in 1..m |-> SeatAt(edf, f, i)]
           Bad == {m \in Nat : ~Given(m)}
<1>1. Bad = {}
  <2> SUFFICES ASSUME Bad # {} PROVE FALSE
    OBVIOUS
  <2>1. Bad \in SUBSET Nat
    OBVIOUS
  <2> HIDE DEF Bad
  <2>2. PICK m \in Bad : \A k \in Bad : m <= k
    BY <2>1, LeastOf
  <2>3. m \in Nat /\ ~Given(m)
    BY <2>1 DEF Bad
  <2>4. m # 0
    <3>1. << >> = [i \in 1..0 |-> SeatAt(edf, << >>, i)]
      OBVIOUS
    <3> QED
      BY <2>3, <3>1
  <2>5. Given(m - 1)
    <3>1. m - 1 \in Nat /\ ~(m <= m - 1)
      BY <2>3, <2>4
    <3>2. m - 1 \notin Bad
      BY <2>2, <3>1
    <3> QED
      BY <3>1, <3>2 DEF Bad
  <2>6. PICK f : f = [i \in 1..(m - 1) |-> SeatAt(edf, f, i)]
    BY <2>5
  <2> DEFINE g == [i \in 1..m |-> IF i = m THEN SeatAt(edf, f, m) ELSE f[i]]
  <2>7. ASSUME NEW i \in 1..m PROVE g[i] = SeatAt(edf, g, i)
    <3>1. \A j \in 1..(i - 1) : g[j] = f[j]
      BY <2>3
    <3>2. {g[j] : j \in 1..(i - 1)} = {f[j] : j \in 1..(i - 1)}
      BY <3>1
    <3>3. SeatAt(edf, g, i) = SeatAt(edf, f, i)
      BY <3>2 DEF SeatAt
    <3>4. CASE i = m
      BY <3>3, <3>4
    <3>5. CASE i # m
      <4>1. i \in 1..(m - 1)
        BY <2>3, <3>5
      <4>2. f[i] = SeatAt(edf, f, i)
        BY <2>6, <4>1
      <4> QED
        BY <3>3, <3>5, <4>2
    <3> QED
      BY <3>4, <3>5
  <2>8. g = [i \in 1..m |-> SeatAt(edf, g, i)]
    BY <2>7
  <2> HIDE DEF g
  <2> QED
    BY <2>3, <2>8
<1>2. n \notin Bad
  BY <1>1
<1> QED
  BY <1>2

(* A core is given a task of the EDF list that is at home there, if no     *)
(* task of the list may go anywhere or the list has one task at most.      *)
LEMMA EdfAtHome ==
    ASSUME NEW c \in Cores, ready[<<"edf", 0, 0>>] \in Seq(Tasks), PickEdf(c) # NoTask,
           \/ \A i \in 1..Len(ready[<<"edf", 0, 0>>]) : aff[ready[<<"edf", 0, 0>>][i]] # AnyCore
           \/ /\ Len(ready[<<"edf", 0, 0>>]) <= 1
              /\ \A t \in Tasks : TargetCore(t) \in Cores
    PROVE  TargetCore(PickEdf(c)) = c
<1> DEFINE edf == ready[<<"edf", 0, 0>>]
           seat[i \in 1..Len(edf)] ==
               LET free == Cores \ {seat[j] : j \in 1..(i - 1)}
                   t    == edf[i]
               IN  IF TargetCore(t) \in free THEN TargetCore(t)
                   ELSE IF aff[t] # AnyCore \/ free = {} THEN AnyCore
                   ELSE CHOOSE k \in free : \A j \in free : k <= j
           mine == {i \in 1..Len(edf) : seat[i] = c}
<1>1. PickEdf(c) = IF mine = {} THEN NoTask ELSE edf[CHOOSE i \in mine : TRUE]
  BY DEF PickEdf
<1>2. PICK i \in mine : PickEdf(c) = edf[i]
  BY <1>1
<1>3. i \in 1..Len(edf) /\ seat[i] = c
  BY <1>2
<1>4. Len(edf) \in Nat
  OBVIOUS
<1>5. \E f : f = [k \in 1..Len(edf) |-> SeatAt(edf, f, k)]
  BY <1>4, SeatsExist
<1>6. seat = [k \in 1..Len(edf) |-> SeatAt(edf, seat, k)]
  BY <1>5 DEF SeatAt, Seat
<1> HIDE DEF seat, mine
<1>7. SeatAt(edf, seat, i) = c
  BY <1>3, <1>6
<1>8. c # AnyCore
  BY SchedAssumption DEF Cores, AnyCore
<1>9. CASE \A k \in 1..Len(edf) : aff[edf[k]] # AnyCore
  BY <1>2, <1>3, <1>7, <1>8, <1>9 DEF SeatAt, Seat
<1>10. CASE Len(edf) <= 1 /\ \A t \in Tasks : TargetCore(t) \in Cores
  <2>1. i = 1 /\ edf[i] \in Tasks
    BY <1>3, <1>4, <1>10
  <2>2. Cores \ {seat[j] : j \in 1..(i - 1)} = Cores
    BY <2>1
  <2>3. SeatAt(edf, seat, i) = TargetCore(edf[i])
    BY <1>10, <2>1, <2>2 DEF SeatAt, Seat
  <2> QED
    BY <1>2, <1>7, <2>3
<1> QED
  BY <1>9, <1>10

-----------------------------------------------------------------------------
(* The invariant of the places where tasks execute.                        *)

(* Managing is left to the core a task runs on, nothing migrates, the      *)
(* scheduler is not suspended, and no core picks from the EDF list a task  *)
(* that is at home elsewhere: its tasks are pinned for good, or it has one *)
(* task at most.                                                           *)
EdfPinned == \A t \in Tasks : UsesEdf(t) => CreationAff[t] # AnyCore /\ t \notin Managed
OneEdf    == \A t, u \in Tasks : UsesEdf(t) /\ UsesEdf(u) => t = u
Settled   == ~Remote /\ ~Balance /\ MaxSuspend = 0 /\ (EdfPinned \/ OneEdf)

(* A forced switch is due on c as soon as interrupts are enabled.          *)
Due(c) == pending[c] /\ force[c]

FlagsOK ==
    /\ pending \in [Cores -> BOOLEAN] /\ force \in [Cores -> BOOLEAN]
    /\ suspended = 0

CurrentRuns == \A c \in Cores : current[c] # NoTask => runCpu[current[c]] = c

RunningIsCurrent == \A t \in Tasks : state[t] = "RUNNING" => current[runCpu[t]] = t

SlotsKept ==
    \A t \in Tasks :
        /\ state[t] = "FREE" => \A c \in Cores : current[c] # t
        /\ state[t] = "DELETED" => \E c \in Cores : current[c] = t

(* The current task of a core that is not RUNNING is on its way to a yield.*)
StoppedLeaves ==
    \A c \in Cores : current[c] # NoTask =>
        state[current[c]] = "RUNNING" \/ current[c] \in owes \/ Due(c)

(* So is, though RUNNING, one that may not stay where it is.               *)
StrayLeaves ==
    \A c \in Cores : (current[c] # NoTask /\ ~AffinityOk(current[c], c)) =>
        /\ state[current[c]] = "RUNNING"
        /\ \/ current[c] \in owes \/ Due(c)
           \/ klock.call = "requeue" /\ klock.task = current[c]

CallerRuns ==
    klock.call # "none" =>
        /\ current[klock.core] # NoTask /\ state[current[klock.core]] = "RUNNING"
        /\ klock.call # "requeue" => AffinityOk(current[klock.core], klock.core)

EdfStays ==
    EdfPinned => \A t \in Tasks : UsesEdf(t) => aff[t] # AnyCore /\ state[t] \notin {"FREE", "DELETED"}

PlaceInv ==
    /\ FlagsOK /\ CurrentRuns /\ RunningIsCurrent /\ SlotsKept
    /\ StoppedLeaves /\ StrayLeaves /\ CallerRuns /\ EdfStays

LEMMA CurrentOnce ==
    ASSUME PlaceInv, NEW c \in Cores, NEW k \in Cores, current[c] = current[k], current[c] # NoTask
    PROVE  c = k
BY DEF PlaceInv, CurrentRuns

LEMMA EdfPickedAtHome ==
    ASSUME Settled, QueueInv, PlaceInv, NEW c \in Cores, PickEdf(c) # NoTask
    PROVE  TargetCore(PickEdf(c)) = c
<1> DEFINE l   == <<"edf", 0, 0>>
           edf == ready[l]
<1>1. l \in Lists
  BY DEF Lists
<1>2. edf \in Seq(Tasks) /\ Once(edf)
  BY <1>1 DEF QueueInv, Placed
<1>3. ASSUME NEW i \in 1..Len(edf) PROVE edf[i] \in Tasks /\ UsesEdf(edf[i])
  <2>1. edf[i] \in Tasks /\ Contains(ready[l], edf[i])
    BY <1>2, ElementOfSeq DEF Contains
  <2>2. PICK t \in Tasks : t = edf[i]
    BY <2>1
  <2>3. l \in Where[t]
    BY <1>1, <2>1, <2>2 DEF QueueInv, Placed
  <2>4. l = ListOf(t)
    BY <2>3 DEF Where
  <2>5. UsesEdf(t)
    BY <2>4 DEF ListOf, ListAt
  <2> QED
    BY <2>2, <2>5
<1>4. CASE EdfPinned
  <2>1. \A i \in 1..Len(edf) : aff[edf[i]] # AnyCore
    BY <1>3, <1>4 DEF PlaceInv, EdfStays
  <2> QED
    BY <1>2, <2>1, EdfAtHome
<1>5. CASE OneEdf
  <2>1. Len(edf) <= 1
    <3> SUFFICES ASSUME Len(edf) >= 2 PROVE FALSE
      BY <1>2
    <3>1. 1 \in 1..Len(edf) /\ 2 \in 1..Len(edf)
      BY <1>2
    <3>2. edf[1] = edf[2]
      BY <1>3, <1>5, <3>1 DEF OneEdf
    <3> QED
      BY <1>2, <3>1, <3>2 DEF Once
  <2>2. \A t \in Tasks : TargetCore(t) \in Cores
    BY Targets DEF QueueInv
  <2> QED
    BY <1>2, <2>1, <2>2, EdfAtHome
<1> QED
  BY <1>4, <1>5 DEF Settled

(* The whole pick takes only tasks that are at home on its core.           *)
LEMMA PickedAtHome ==
    ASSUME Settled, QueueInv, PlaceInv, NEW c \in Cores, NEW urgent \in BOOLEAN,
           PickNext(c, urgent) # NoTask
    PROVE  TargetCore(PickNext(c, urgent)) = c
<1>1. ASSUME NEW l \in Lists, l[1] # "edf", NEW i \in 1..Len(ready[l])
      PROVE  TargetCore(ready[l][i]) = l[2]
  <2>1. ready[l] \in Seq(Tasks)
    BY DEF QueueInv, Placed
  <2>2. PICK t \in Tasks : t = ready[l][i]
    BY <2>1, ElementOfSeq
  <2>3. Contains(ready[l], t)
    BY <2>2 DEF Contains
  <2>4. l \in Where[t]
    BY <2>3 DEF QueueInv, Placed
  <2>5. l = ListOf(t)
    BY <2>4 DEF Where
  <2>6. ListOf(t)[1] = "edf" \/ ListOf(t)[2] = TargetCore(t)
    BY DEF ListOf, ListAt
  <2> QED
    BY <1>1, <2>2, <2>5, <2>6
<1>2. PickPriority(c) # NoTask => TargetCore(PickPriority(c)) = c
  <2> SUFFICES ASSUME PickPriority(c) # NoTask PROVE TargetCore(PickPriority(c)) = c
    OBVIOUS
  <2>1. PICK p \in 0..MaxPrio : \E i \in 1..Len(ready[<<"prio", c, p>>]) :
          PickPriority(c) = ready[<<"prio", c, p>>][i]
    BY PriorityListed
  <2>2. <<"prio", c, p>> \in Lists /\ <<"prio", c, p>>[1] # "edf" /\ <<"prio", c, p>>[2] = c
    BY DEF Lists
  <2> QED
    BY <1>1, <2>1, <2>2
<1>3. PickCfs(c) # NoTask => TargetCore(PickCfs(c)) = c
  <2> SUFFICES ASSUME PickCfs(c) # NoTask PROVE TargetCore(PickCfs(c)) = c
    OBVIOUS
  <2>1. PICK i \in 1..Len(ready[<<"cfs", c, 0>>]) : PickCfs(c) = ready[<<"cfs", c, 0>>][i]
    BY CfsListed
  <2>2. <<"cfs", c, 0>> \in Lists /\ <<"cfs", c, 0>>[1] # "edf" /\ <<"cfs", c, 0>>[2] = c
    BY DEF Lists
  <2> QED
    BY <1>1, <2>1, <2>2
<1> QED
  BY <1>2, <1>3, EdfPickedAtHome DEF PickNext

-----------------------------------------------------------------------------
(* Each step keeps it.                                                     *)

(* Steps that leave the tasks alone, wake cores and make tasks yield.      *)
LEMMA FlagsKeep ==
    ASSUME Settled, QueueInv, PlaceInv, NEW c \in Cores,
           \/ Tick(c) \/ Yield(c) \/ SuspendScheduler(c) \/ ResumeScheduler(c)
           \/ \E t \in Tasks, p \in 0..MaxPrio : SetThreshold(c, t, p)
    PROVE  PlaceInv'
<1>1. UNCHANGED <<state, aff, runCpu, current, klock>>
  BY DEF Tick, Yield, SuspendScheduler, ResumeScheduler, SetThreshold, taskVars, coreVars
<1>2. FlagsOK'
  <2>1. CASE Tick(c)
    BY <2>1 DEF Tick, PlaceInv, FlagsOK
  <2>2. CASE Yield(c)
    BY <2>2 DEF Yield, PlaceInv, FlagsOK
  <2>3. CASE SuspendScheduler(c)
    BY <2>3 DEF SuspendScheduler, PlaceInv, FlagsOK, Settled
  <2>4. CASE ResumeScheduler(c)
    BY <2>4 DEF ResumeScheduler, PlaceInv, FlagsOK, coreVars
  <2>5. CASE \E t \in Tasks, p \in 0..MaxPrio : SetThreshold(c, t, p)
    BY <2>5 DEF SetThreshold, PlaceInv, FlagsOK, coreVars
  <2> QED
    BY <2>1, <2>2, <2>3, <2>4, <2>5
<1>3. ASSUME NEW k \in Cores, current[k] # NoTask, current[k] \in owes \/ Due(k)
      PROVE  current[k] \in owes' \/ Due(k)'
  <2>1. CASE Tick(c)
    BY <1>3, <2>1 DEF Tick, PlaceInv, FlagsOK, Due
  <2>2. CASE Yield(c)
    <3>1. suspended = 0
      BY DEF PlaceInv, FlagsOK
    <3>2. CASE k = c
      BY <2>2, <3>1, <3>2 DEF Yield, PlaceInv, FlagsOK, Due
    <3>3. CASE k # c
      <4>1. current[k] # current[c]
        BY <1>3, <3>3, CurrentOnce
      <4> QED
        BY <1>3, <2>2, <3>1, <3>3, <4>1 DEF Yield, PlaceInv, FlagsOK, Due
    <3> QED
      BY <3>2, <3>3
  <2>3. CASE SuspendScheduler(c)
    BY <1>3, <2>3 DEF SuspendScheduler, Due, coreVars
  <2>4. CASE ResumeScheduler(c)
    BY <1>3, <2>4 DEF ResumeScheduler, Due, coreVars
  <2>5. CASE \E t \in Tasks, p \in 0..MaxPrio : SetThreshold(c, t, p)
    BY <1>3, <2>5 DEF SetThreshold, Due, coreVars
  <2> QED
    BY <2>1, <2>2, <2>3, <2>4, <2>5
<1>4. StoppedLeaves' /\ StrayLeaves'
  <2>1. StoppedLeaves'
    BY <1>1, <1>3 DEF PlaceInv, StoppedLeaves
  <2>2. StrayLeaves'
    BY <1>1, <1>3 DEF PlaceInv, StrayLeaves, AffinityOk
  <2> QED
    BY <2>1, <2>2
<1>5. CurrentRuns' /\ RunningIsCurrent' /\ SlotsKept' /\ CallerRuns' /\ EdfStays'
  BY <1>1 DEF PlaceInv, CurrentRuns, RunningIsCurrent, SlotsKept, CallerRuns, AffinityOk, EdfStays
<1> QED
  BY <1>2, <1>4, <1>5 DEF PlaceInv

(* A step that changes the state of one task and leaves the cores what     *)
(* they run and owe, or more.                                              *)
LEMMA OneMoves ==
    ASSUME QueueInv, PlaceInv, NEW t \in Tasks, NEW s, s # "RUNNING",
           state' = [state EXCEPT ![t] = s],
           UNCHANGED <<aff, current, force, suspended>>,
           \A u \in Tasks \ {t} : runCpu'[u] = runCpu[u],
           pending' \in [Cores -> BOOLEAN], \A c \in Cores : pending[c] => pending'[c],
           owes \subseteq owes',
           \A c \in Cores : current[c] = t =>
               runCpu'[t] = runCpu[t] /\ AffinityOk(t, c) /\ (t \in owes' \/ Due(c)'),
           s = "FREE" => \A c \in Cores : current[c] # t,
           s = "DELETED" => \E c \in Cores : current[c] = t,
           UsesEdf(t) /\ EdfPinned => s \notin {"FREE", "DELETED"}
    PROVE  /\ FlagsOK' /\ CurrentRuns' /\ RunningIsCurrent' /\ SlotsKept'
           /\ StoppedLeaves' /\ EdfStays'
           /\ \A c \in Cores : (current[c] # NoTask /\ ~AffinityOk(current[c], c)) =>
                 /\ state'[current[c]] = "RUNNING"
                 /\ \/ current[c] \in owes' \/ Due(c)'
                    \/ klock.call = "requeue" /\ klock.task = current[c]
<1>0. state'[t] = s /\ \A u \in Tasks \ {t} : state'[u] = state[u]
  BY DEF QueueInv, FieldsOK
<1>1. FlagsOK'
  BY DEF PlaceInv, FlagsOK
<1>2. ASSUME NEW c \in Cores, current[c] # NoTask
      PROVE  current[c] \in Tasks /\ (Due(c) => Due(c)')
  BY <1>2 DEF QueueInv, FieldsOK, PlaceInv, FlagsOK, Due
<1>3. CurrentRuns'
  BY <1>2 DEF PlaceInv, CurrentRuns
<1>4. RunningIsCurrent'
  BY <1>0 DEF PlaceInv, RunningIsCurrent
<1>5. SlotsKept'
  BY <1>0 DEF PlaceInv, SlotsKept
<1>6. StoppedLeaves'
  BY <1>0, <1>2 DEF PlaceInv, StoppedLeaves
<1>7. EdfStays'
  BY <1>0 DEF PlaceInv, EdfStays
<1>8. ASSUME NEW c \in Cores, current[c] # NoTask, ~AffinityOk(current[c], c)
      PROVE  /\ state'[current[c]] = "RUNNING"
             /\ \/ current[c] \in owes' \/ Due(c)'
                \/ klock.call = "requeue" /\ klock.task = current[c]
  <2>1. current[c] # t
    BY <1>8
  <2>2. state'[current[c]] = state[current[c]]
    BY <1>0, <1>2, <1>8, <2>1
  <2> QED
    BY <1>2, <1>8, <2>2 DEF PlaceInv, StrayLeaves
<1> QED
  BY <1>1, <1>3, <1>4, <1>5, <1>6, <1>7, <1>8

(* The task that acts is RUNNING and where it may be.                      *)
LEMMA ActorRuns ==
    ASSUME PlaceInv, NEW c \in Cores, NEW t \in Tasks, Acts(c, t)
    PROVE  state[t] = "RUNNING" /\ AffinityOk(t, c)
BY DEF PlaceInv, StoppedLeaves, StrayLeaves, Acts, Due

LEMMA BlockPlaces ==
    ASSUME QueueInv, PlaceInv, NEW c \in Cores, NEW t \in Tasks, Block(c, t)
    PROVE  PlaceInv'
<1>1. state[t] = "RUNNING" /\ AffinityOk(t, c)
  BY ActorRuns DEF Block
<1>2. /\ state' = [state EXCEPT ![t] = "BLOCKED"] /\ owes' = owes \cup {t}
      /\ UNCHANGED <<aff, runCpu, current, pending, force, suspended, klock>>
      /\ klock.call = "none" /\ current[c] = t /\ t # NoTask
  BY DEF Block, Acts, coreVars
<1>3. \A k \in Cores : current[k] = t => AffinityOk(t, k)
  BY <1>1, <1>2, CurrentOnce
<1>4. pending' \in [Cores -> BOOLEAN] /\ \A k \in Cores : pending[k] => pending'[k]
  BY <1>2 DEF PlaceInv, FlagsOK
<1>5. /\ FlagsOK' /\ CurrentRuns' /\ RunningIsCurrent' /\ SlotsKept'
      /\ StoppedLeaves' /\ EdfStays'
      /\ \A k \in Cores : (current[k] # NoTask /\ ~AffinityOk(current[k], k)) =>
            /\ state'[current[k]] = "RUNNING"
            /\ \/ current[k] \in owes' \/ Due(k)'
               \/ klock.call = "requeue" /\ klock.task = current[k]
  BY <1>2, <1>3, <1>4, OneMoves
<1>6. StrayLeaves'
  BY <1>2, <1>5 DEF StrayLeaves, AffinityOk
<1>7. CallerRuns'
  BY <1>2 DEF CallerRuns
<1> QED
  BY <1>5, <1>6, <1>7 DEF PlaceInv

LEMMA UnblockPlaces ==
    ASSUME QueueInv, PlaceInv, NEW c \in Cores, NEW t \in Tasks, Unblock(c, t) \/ Resume(c, t)
    PROVE  PlaceInv'
<1>1. /\ klock.call = "none" /\ state[t] \in {"BLOCKED", "SUSPENDED"}
      /\ state' = [state EXCEPT ![t] = "READY"] /\ owes \subseteq owes'
      /\ UNCHANGED <<aff, runCpu, current, force, suspended, klock>>
      /\ \E S : Kick(S)
  BY DEF Unblock, Resume, Acts
<1>2. pending' \in [Cores -> BOOLEAN] /\ \A k \in Cores : pending[k] => pending'[k]
  BY <1>1 DEF Kick, PlaceInv, FlagsOK
<1>3. \A k \in Cores : current[k] = t => AffinityOk(t, k) /\ (t \in owes' \/ Due(k)')
  <2> SUFFICES ASSUME NEW k \in Cores, current[k] = t
               PROVE  AffinityOk(t, k) /\ (t \in owes' \/ Due(k)')
    OBVIOUS
  <2>1. t # NoTask
    BY SchedAssumption
  <2>2. AffinityOk(t, k) /\ (t \in owes \/ Due(k))
    BY <1>1, <2>1 DEF PlaceInv, StoppedLeaves, StrayLeaves
  <2> QED
    BY <1>1, <1>2, <2>2 DEF Due
<1>4. /\ FlagsOK' /\ CurrentRuns' /\ RunningIsCurrent' /\ SlotsKept'
      /\ StoppedLeaves' /\ EdfStays'
      /\ \A k \in Cores : (current[k] # NoTask /\ ~AffinityOk(current[k], k)) =>
            /\ state'[current[k]] = "RUNNING"
            /\ \/ current[k] \in owes' \/ Due(k)'
               \/ klock.call = "requeue" /\ klock.task = current[k]
  BY <1>1, <1>2, <1>3, OneMoves
<1>5. StrayLeaves'
  BY <1>1, <1>4 DEF StrayLeaves, AffinityOk
<1>6. CallerRuns'
  BY <1>1 DEF CallerRuns
<1> QED
  BY <1>4, <1>5, <1>6 DEF PlaceInv

LEMMA CreatePlaces ==
    ASSUME QueueInv, PlaceInv, NEW c \in Cores, NEW t \in Tasks, NEW n \in Cores, Create(c, t, n)
    PROVE  PlaceInv'
<1>1. /\ klock.call = "none" /\ state[t] \in {"FREE", "DELETED"}
      /\ \A k \in Cores : current[k] # t
      /\ state' = [state EXCEPT ![t] = "READY"]
      /\ aff' = [aff EXCEPT ![t] = AnyCore] /\ runCpu' = [runCpu EXCEPT ![t] = n]
      /\ UNCHANGED <<current, force, suspended, owes, klock>>
      /\ \E S : Kick(S)
  BY DEF Create, SlotFree, Acts
<1>2. pending' \in [Cores -> BOOLEAN] /\ \A k \in Cores : pending[k] => pending'[k]
  BY <1>1 DEF Kick, PlaceInv, FlagsOK
<1>3. /\ state'[t] = "READY"
      /\ \A u \in Tasks \ {t} : state'[u] = state[u] /\ aff'[u] = aff[u] /\ runCpu'[u] = runCpu[u]
  BY <1>1 DEF QueueInv, FieldsOK
<1>4. \A k \in Cores : current[k] # NoTask => current[k] \in Tasks \ {t}
  BY <1>1 DEF QueueInv, FieldsOK
<1>5. FlagsOK' /\ \A k \in Cores : Due(k) => Due(k)'
  BY <1>1, <1>2 DEF PlaceInv, FlagsOK, Due
<1>6. CurrentRuns' /\ RunningIsCurrent' /\ SlotsKept'
  BY <1>1, <1>3, <1>4 DEF PlaceInv, CurrentRuns, RunningIsCurrent, SlotsKept
<1>7. StoppedLeaves'
  BY <1>1, <1>3, <1>4, <1>5 DEF PlaceInv, StoppedLeaves
<1>8. StrayLeaves'
  BY <1>1, <1>3, <1>4, <1>5 DEF PlaceInv, StrayLeaves, AffinityOk
<1>9. CallerRuns'
  BY <1>1 DEF CallerRuns
<1>10. EdfStays'
  BY <1>1, <1>3 DEF PlaceInv, EdfStays
<1> QED
  BY <1>5, <1>6, <1>7, <1>8, <1>9, <1>10 DEF PlaceInv

LEMMA BeginCallPlaces ==
    ASSUME QueueInv, PlaceInv, NEW c \in Cores, NEW t \in Tasks, NEW call, NEW x,
           BeginCall(c, call, t, x)
    PROVE  PlaceInv'
<1>1. /\ klock.call = "none"
      /\ klock' = [call |-> call, core |-> c, task |-> t, arg |-> x]
      /\ UNCHANGED <<state, aff, runCpu, current, pending, force, suspended, owes>>
  BY DEF BeginCall, Acts, taskVars, coreVars
<1>2. PICK u \in Tasks : Acts(c, u)
  BY DEF BeginCall
<1>3. current[c] = u /\ u # NoTask /\ state[u] = "RUNNING" /\ AffinityOk(u, c)
  BY <1>2, ActorRuns DEF Acts
<1>4. CallerRuns'
  BY <1>1, <1>3 DEF CallerRuns, AffinityOk
<1>5. StoppedLeaves' /\ StrayLeaves'
  <2>1. StoppedLeaves'
    BY <1>1 DEF PlaceInv, StoppedLeaves, Due
  <2>2. StrayLeaves'
    BY <1>1 DEF PlaceInv, StrayLeaves, AffinityOk, Due
  <2> QED
    BY <2>1, <2>2
<1>6. FlagsOK' /\ CurrentRuns' /\ RunningIsCurrent' /\ SlotsKept' /\ EdfStays'
  BY <1>1 DEF PlaceInv, FlagsOK, CurrentRuns, RunningIsCurrent, SlotsKept, EdfStays
<1> QED
  BY <1>4, <1>5, <1>6 DEF PlaceInv

(* The task a call has in hand may be current only on the core that called,*)
(* and is the caller then.                                                 *)
LEMMA TaskInHand ==
    ASSUME QueueInv, PlaceInv, klock.call # "none", NEW t \in Tasks, t = klock.task,
           NEW c \in Cores, current[c] = t
    PROVE  /\ c = klock.core /\ state[t] = "RUNNING"
           /\ klock.call # "requeue" => AffinityOk(t, c)
BY DEF QueueInv, CallOK, PlaceInv, CallerRuns

LEMMA RewritePlaces ==
    ASSUME QueueInv, PlaceInv, WritePriority \/ WriteAffinity
    PROVE  PlaceInv'
<1>1. PICK t \in Tasks : t = klock.task /\ t \in Managed
  BY SchedAssumption DEF WritePriority, WriteAffinity, QueueInv, CallOK
<1>2. /\ klock.call \notin {"none", "requeue"}
      /\ klock'.call = "requeue" /\ klock'.task = t /\ klock'.core = klock.core
      /\ UNCHANGED <<state, runCpu, current, force, suspended, owes>>
      /\ \A u \in Tasks \ {t} : aff'[u] = aff[u]
  BY <1>1 DEF WritePriority, WriteAffinity, QueueInv, CallOK, FieldsOK, coreVars
<1>3. pending' \in [Cores -> BOOLEAN] /\ \A k \in Cores : pending[k] => pending'[k]
  BY DEF WritePriority, WriteAffinity, coreVars, Kick, PlaceInv, FlagsOK
<1>4. FlagsOK' /\ \A k \in Cores : Due(k) => Due(k)'
  BY <1>2, <1>3 DEF PlaceInv, FlagsOK, Due
<1>5. CurrentRuns' /\ RunningIsCurrent' /\ SlotsKept'
  BY <1>2 DEF PlaceInv, CurrentRuns, RunningIsCurrent, SlotsKept
<1>6. StoppedLeaves'
  BY <1>2, <1>4 DEF PlaceInv, StoppedLeaves
<1>7. StrayLeaves'
  <2> SUFFICES ASSUME NEW c \in Cores, current[c] # NoTask, ~AffinityOk(current[c], c)'
               PROVE  /\ state[current[c]] = "RUNNING"
                      /\ \/ current[c] \in owes \/ Due(c)'
                         \/ klock'.call = "requeue" /\ klock'.task = current[c]
    BY <1>2 DEF StrayLeaves
  <2>1. CASE current[c] = t
    BY <1>1, <1>2, <2>1, TaskInHand
  <2>2. CASE current[c] # t
    <3>1. current[c] \in Tasks \ {t}
      BY <2>2 DEF QueueInv, FieldsOK
    <3>2. ~AffinityOk(current[c], c)
      BY <1>2, <3>1 DEF AffinityOk
    <3> QED
      BY <1>2, <1>4, <3>2 DEF PlaceInv, StrayLeaves
  <2> QED
    BY <2>1, <2>2
<1>8. CallerRuns'
  BY <1>2 DEF PlaceInv, CallerRuns
<1>9. EdfStays'
  BY <1>1, <1>2 DEF PlaceInv, EdfStays, EdfPinned
<1> QED
  BY <1>4, <1>5, <1>6, <1>7, <1>8, <1>9 DEF PlaceInv

LEMMA RequeuePlaces ==
    ASSUME QueueInv, PlaceInv, Requeue
    PROVE  PlaceInv'
<1>1. PICK t \in Tasks : t = klock.task
  BY SchedAssumption DEF Requeue, QueueInv, CallOK
<1>2. /\ klock.call = "requeue" /\ klock' = FreeLock
      /\ owes' = owes \cup ({current[klock.core]} \ {NoTask})
      /\ UNCHANGED <<state, aff, runCpu, current, pending, force, suspended>>
  BY DEF Requeue, EndCall, taskVars, coreVars
<1>3. FlagsOK' /\ CurrentRuns' /\ RunningIsCurrent' /\ SlotsKept' /\ EdfStays'
  BY <1>2 DEF PlaceInv, FlagsOK, CurrentRuns, RunningIsCurrent, SlotsKept, EdfStays
<1>4. StoppedLeaves'
  BY <1>2 DEF PlaceInv, StoppedLeaves, Due
<1>5. StrayLeaves'
  <2> SUFFICES ASSUME NEW c \in Cores, current[c] # NoTask, ~AffinityOk(current[c], c)
               PROVE  state[current[c]] = "RUNNING" /\ (current[c] \in owes' \/ Due(c))
    BY <1>2 DEF StrayLeaves, AffinityOk, Due
  <2>1. CASE current[c] = t
    <3>1. c = klock.core
      BY <1>1, <1>2, <2>1, TaskInHand
    <3> QED
      BY <1>2, <3>1 DEF PlaceInv, StrayLeaves
  <2>2. CASE current[c] # t
    BY <1>1, <1>2, <2>2 DEF PlaceInv, StrayLeaves
  <2> QED
    BY <2>1, <2>2
<1>6. CallerRuns'
  BY <1>2 DEF CallerRuns, FreeLock
<1> QED
  BY <1>3, <1>4, <1>5, <1>6 DEF PlaceInv

LEMMA StopPlaces ==
    ASSUME QueueInv, PlaceInv, WriteSuspended \/ WriteDeleted
    PROVE  PlaceInv'
<1>1. PICK t \in Tasks : t = klock.task /\ t \in Managed
  BY SchedAssumption DEF WriteSuspended, WriteDeleted, QueueInv, CallOK
<1>2. /\ klock.call \in {"suspend", "delete"} /\ klock' = FreeLock
      /\ owes' = owes \cup ({current[klock.core]} \ {NoTask})
      /\ UNCHANGED <<aff, runCpu, current, force, suspended>>
  BY DEF WriteSuspended, WriteDeleted, EndCall, coreVars
<1>3. PICK s \in {"SUSPENDED", "FREE", "DELETED"} :
        /\ state' = [state EXCEPT ![t] = s]
        /\ s = "FREE" => \A c \in Cores : current[c] # t
        /\ s = "DELETED" => \E c \in Cores : current[c] = t
  <2>1. CASE WriteSuspended
    BY <1>1, <2>1 DEF WriteSuspended
  <2>2. CASE WriteDeleted
    <3> DEFINE running == {c \in Cores : current[c] = t}
    <3>1. state' = [state EXCEPT ![t] = IF running = {} THEN "FREE" ELSE "DELETED"]
      BY <1>1, <2>2 DEF WriteDeleted
    <3>2. CASE running = {}
      BY <3>1, <3>2
    <3>3. CASE running # {}
      BY <3>1, <3>3
    <3> QED
      BY <3>2, <3>3
  <2> QED
    BY <2>1, <2>2
<1>4. pending' \in [Cores -> BOOLEAN] /\ \A k \in Cores : pending[k] => pending'[k]
  BY DEF WriteSuspended, WriteDeleted, coreVars, Kick, PlaceInv, FlagsOK
<1>5. \A c \in Cores : current[c] = t =>
          runCpu'[t] = runCpu[t] /\ AffinityOk(t, c) /\ (t \in owes' \/ Due(c)')
  <2> SUFFICES ASSUME NEW c \in Cores, current[c] = t
               PROVE  runCpu'[t] = runCpu[t] /\ AffinityOk(t, c) /\ t \in owes'
    OBVIOUS
  <2>1. c = klock.core /\ AffinityOk(t, c)
    BY <1>1, <1>2, TaskInHand
  <2>2. t # NoTask
    BY SchedAssumption
  <2> QED
    BY <1>2, <2>1, <2>2
<1>6. UsesEdf(t) /\ EdfPinned => s \notin {"FREE", "DELETED"}
  BY <1>1 DEF EdfPinned
<1>7. /\ FlagsOK' /\ CurrentRuns' /\ RunningIsCurrent' /\ SlotsKept'
      /\ StoppedLeaves' /\ EdfStays'
      /\ \A k \in Cores : (current[k] # NoTask /\ ~AffinityOk(current[k], k)) =>
            /\ state'[current[k]] = "RUNNING"
            /\ \/ current[k] \in owes' \/ Due(k)'
               \/ klock.call = "requeue" /\ klock.task = current[k]
  <2>1. s # "RUNNING" /\ owes \subseteq owes' /\ \A u \in Tasks \ {t} : runCpu'[u] = runCpu[u]
    BY <1>2, <1>3
  <2> QED
    BY <1>2, <1>3, <1>4, <1>5, <1>6, <2>1, OneMoves
<1>8. StrayLeaves'
  BY <1>2, <1>7 DEF StrayLeaves, AffinityOk
<1>9. CallerRuns'
  BY <1>2 DEF CallerRuns, FreeLock
<1> QED
  BY <1>7, <1>8, <1>9 DEF PlaceInv

(* The switch: what it takes is READY, at home on the core and nowhere     *)
(* else current; what it leaves is current nowhere any more.               *)
LEMMA TrapPlaces ==
    ASSUME Settled, QueueInv, PlaceInv, NEW c \in Cores, Trap(c)
    PROVE  PlaceInv'
<1>1. /\ UNCHANGED <<aff, suspended, owes, klock>> /\ suspended = 0
      /\ pending' = [pending EXCEPT ![c] = FALSE]
      /\ klock.call # "none" => klock.core # c
  BY DEF Trap, taskVars, Interruptible, PlaceInv, FlagsOK
<1>2. PICK urgent \in BOOLEAN :
        LET cur     == current[c]
            next    == PickNext(c, urgent)
            running == cur # NoTask /\ state[cur] = "RUNNING"
        IN  /\ force' = [force EXCEPT ![c] = @ /\ ~running]
            /\ IF running /\ ~force[c] /\ Sticks(cur, next, urgent)
               THEN UNCHANGED <<state, current, ready, runCpu, yielded>>
               ELSE \E lists \in (IF running THEN AddReady(ready, cur) ELSE {ready}) :
                      SwitchTo(c, cur, next, lists)
  BY <1>1 DEF Trap
<1>3. PICK cur \in Tasks \cup {NoTask} : cur = current[c]
  BY DEF QueueInv, FieldsOK
<1>4. PICK next \in Tasks \cup {NoTask} :
        /\ next = PickNext(c, urgent)
        /\ next # NoTask => state[next] = "READY" /\ TargetCore(next) = c
  BY PickedIsListed, PickedAtHome
<1>5. NoTask \notin Tasks
  BY SchedAssumption
<1>6. FlagsOK'
  BY <1>1, <1>2 DEF PlaceInv, FlagsOK
<1>7. \A k \in Cores \ {c} : Due(k)' <=> Due(k)
  BY <1>1, <1>2 DEF PlaceInv, FlagsOK, Due
<1>8. ASSUME NEW k \in Cores, k # c, current[k] # NoTask
      PROVE  current[k] \in Tasks /\ current[k] # cur /\ current[k] # next
  <2>1. current[k] \in Tasks
    BY <1>8 DEF QueueInv, FieldsOK
  <2>2. current[k] # cur
    BY <1>3, <1>8, CurrentOnce
  <2>3. current[k] # next
    <3> SUFFICES ASSUME current[k] = next PROVE FALSE
      OBVIOUS
    <3>1. state[next] = "READY" /\ TargetCore(next) = c /\ runCpu[next] = k
      BY <1>4, <1>8 DEF PlaceInv, CurrentRuns
    <3>2. AffinityOk(next, k)
      BY <1>8, <3>1 DEF PlaceInv, StrayLeaves
    <3> QED
      BY <1>8, <3>1, <3>2 DEF AffinityOk, TargetCore
  <2> QED
    BY <2>1, <2>2, <2>3
<1>9. CASE UNCHANGED <<state, current, runCpu>> /\ cur # NoTask /\ state[cur] = "RUNNING" /\ ~force[c]
  <2>1. CurrentRuns' /\ RunningIsCurrent' /\ SlotsKept' /\ CallerRuns' /\ EdfStays'
    BY <1>1, <1>9 DEF PlaceInv, CurrentRuns, RunningIsCurrent, SlotsKept, CallerRuns,
       AffinityOk, EdfStays
  <2>2. StoppedLeaves'
    BY <1>1, <1>3, <1>7, <1>9 DEF PlaceInv, StoppedLeaves
  <2>3. StrayLeaves'
    <3> SUFFICES ASSUME NEW k \in Cores, current[k] # NoTask, ~AffinityOk(current[k], k)
                 PROVE  /\ state[current[k]] = "RUNNING"
                        /\ \/ current[k] \in owes \/ Due(k)'
                           \/ klock.call = "requeue" /\ klock.task = current[k]
      BY <1>1, <1>9 DEF StrayLeaves, AffinityOk
    <3>1. CASE k = c
      BY <1>9, <3>1 DEF PlaceInv, StrayLeaves, Due
    <3>2. CASE k # c
      BY <1>7, <3>2 DEF PlaceInv, StrayLeaves
    <3> QED
      BY <3>1, <3>2
  <2> QED
    BY <1>6, <2>1, <2>2, <2>3 DEF PlaceInv
<1>10. CASE \E lists : SwitchTo(c, cur, next, lists)
  <2>1. /\ current' = [current EXCEPT ![c] = next]
        /\ state' = [t \in Tasks |->
                        CASE t = next -> "RUNNING"
                          [] t = cur /\ t # next /\ state[t] = "RUNNING" -> "READY"
                          [] t = cur /\ t # next /\ state[t] = "DELETED" -> Reclaimed(t, c)
                          [] OTHER -> state[t]]
        /\ runCpu' = [t \in Tasks |-> IF t = next /\ next # cur THEN c ELSE runCpu[t]]
    BY <1>10 DEF SwitchTo
  <2>2. current'[c] = next /\ \A k \in Cores \ {c} : current'[k] = current[k]
    BY <2>1 DEF QueueInv, FieldsOK
  <2>3. cur # NoTask => cur \in Tasks /\ runCpu[cur] = c
    BY <1>3 DEF PlaceInv, CurrentRuns
  <2>4. ASSUME NEW t \in Tasks
        PROVE  /\ t = next => state'[t] = "RUNNING" /\ runCpu'[t] = c
               /\ t = cur /\ t # next =>
                     state'[t] \notin {"RUNNING", "DELETED"} /\ runCpu'[t] = runCpu[t]
               /\ t # cur /\ t # next => state'[t] = state[t] /\ runCpu'[t] = runCpu[t]
    <3>1. CASE t = next
      BY <1>5, <2>1, <2>3, <3>1
    <3>2. CASE t = cur /\ t # next
      <4>1. ~\E k \in Cores \ {c} : current[k] = t
        BY <1>5, <1>8, <3>2
      <4>2. Reclaimed(t, c) = "FREE"
        BY <4>1 DEF Reclaimed
      <4>3. CASE state[t] = "RUNNING"
        BY <2>1, <3>2, <4>3
      <4>4. CASE state[t] = "DELETED"
        BY <2>1, <3>2, <4>2, <4>4
      <4>5. CASE state[t] \notin {"RUNNING", "DELETED"}
        BY <2>1, <3>2, <4>5
      <4>6. runCpu'[t] = runCpu[t]
        BY <2>1, <3>2
      <4> QED
        BY <3>2, <4>3, <4>4, <4>5, <4>6
    <3>3. CASE t # cur /\ t # next
      BY <2>1, <3>3
    <3> QED
      BY <3>1, <3>2, <3>3
  <2>5. CurrentRuns'
    <3> SUFFICES ASSUME NEW k \in Cores, current'[k] # NoTask PROVE runCpu'[current'[k]] = k
      BY DEF CurrentRuns
    <3>1. CASE k = c
      BY <2>2, <2>4, <3>1
    <3>2. CASE k # c
      BY <1>8, <2>2, <2>4, <3>2 DEF PlaceInv, CurrentRuns
    <3> QED
      BY <3>1, <3>2
  <2>6. RunningIsCurrent'
    <3> SUFFICES ASSUME NEW t \in Tasks, state'[t] = "RUNNING" PROVE current'[runCpu'[t]] = t
      BY DEF RunningIsCurrent
    <3>1. CASE t = next
      BY <2>2, <2>4, <3>1
    <3>2. CASE t # next
      <4>1. t # cur /\ state[t] = "RUNNING" /\ runCpu'[t] = runCpu[t]
        BY <2>4, <3>2
      <4>2. current[runCpu[t]] = t /\ runCpu[t] \in Cores /\ runCpu[t] # c
        BY <1>3, <4>1 DEF PlaceInv, RunningIsCurrent, QueueInv, FieldsOK
      <4> QED
        BY <2>2, <4>1, <4>2
    <3> QED
      BY <3>1, <3>2
  <2>7. SlotsKept'
    <3> SUFFICES ASSUME NEW t \in Tasks
                 PROVE  /\ state'[t] = "FREE" => \A k \in Cores : current'[k] # t
                        /\ state'[t] = "DELETED" => \E k \in Cores : current'[k] = t
      BY DEF SlotsKept
    <3>1. CASE t = next
      BY <2>4, <3>1
    <3>2. CASE t = cur /\ t # next
      BY <1>5, <1>8, <2>2, <2>4, <3>2
    <3>3. CASE t # cur /\ t # next
      <4>1. state'[t] = state[t] /\ \A k \in Cores : current'[k] = t <=> current[k] = t
        BY <1>3, <2>2, <2>4, <3>3
      <4> QED
        BY <4>1 DEF PlaceInv, SlotsKept
    <3> QED
      BY <3>1, <3>2, <3>3
  <2>8. StoppedLeaves' /\ StrayLeaves'
    <3>1. ASSUME NEW k \in Cores, current'[k] # NoTask
          PROVE  /\ state'[current'[k]] = "RUNNING" \/ current'[k] \in owes \/ Due(k)'
                 /\ ~AffinityOk(current'[k], k) =>
                       /\ state'[current'[k]] = "RUNNING"
                       /\ \/ current'[k] \in owes \/ Due(k)'
                          \/ klock.call = "requeue" /\ klock.task = current'[k]
      <4>1. CASE k = c
        <5>1. next # NoTask /\ current'[k] = next /\ state'[next] = "RUNNING"
          BY <2>2, <2>4, <3>1, <4>1
        <5>2. AffinityOk(next, c)
          BY <1>4, <5>1 DEF AffinityOk, TargetCore
        <5> QED
          BY <4>1, <5>1, <5>2
      <4>2. CASE k # c
        <5>1. /\ current'[k] = current[k] /\ current[k] # NoTask
              /\ state'[current[k]] = state[current[k]] /\ (Due(k)' <=> Due(k))
          BY <1>7, <1>8, <2>2, <2>4, <3>1, <4>2
        <5> QED
          BY <5>1 DEF PlaceInv, StoppedLeaves, StrayLeaves
      <4> QED
        BY <4>1, <4>2
    <3>2. \A k \in Cores : AffinityOk(current'[k], k) <=> AffinityOk(current[k], k)'
      BY <1>1 DEF AffinityOk
    <3>3. StoppedLeaves'
      BY <1>1, <3>1 DEF StoppedLeaves
    <3>4. StrayLeaves'
      BY <1>1, <3>1, <3>2 DEF StrayLeaves
    <3> QED
      BY <3>3, <3>4
  <2>9. CallerRuns'
    <3> SUFFICES ASSUME klock.call # "none"
                 PROVE  /\ current'[klock.core] # NoTask /\ state'[current'[klock.core]] = "RUNNING"
                        /\ klock.call # "requeue" => AffinityOk(current'[klock.core], klock.core)
      BY <1>1 DEF CallerRuns, AffinityOk
    <3>1. klock.core \in Cores /\ klock.core # c
      BY <1>1 DEF QueueInv, CallOK
    <3>2. current'[klock.core] = current[klock.core] /\ current[klock.core] # NoTask
      BY <2>2, <3>1 DEF PlaceInv, CallerRuns
    <3>3. state'[current[klock.core]] = state[current[klock.core]]
      BY <1>8, <2>4, <3>1, <3>2
    <3> QED
      BY <3>2, <3>3 DEF PlaceInv, CallerRuns
  <2>10. EdfStays'
    <3> SUFFICES ASSUME EdfPinned, NEW t \in Tasks, UsesEdf(t)
                 PROVE  aff[t] # AnyCore /\ state'[t] \notin {"FREE", "DELETED"}
      BY <1>1 DEF EdfStays
    <3>1. aff[t] # AnyCore /\ state[t] \notin {"FREE", "DELETED"}
      BY DEF PlaceInv, EdfStays
    <3>2. state'[t] \notin {"FREE", "DELETED"}
      BY <2>1, <3>1
    <3> QED
      BY <3>1, <3>2
  <2> QED
    BY <1>6, <2>5, <2>6, <2>7, <2>8, <2>9, <2>10 DEF PlaceInv
<1> QED
  BY <1>2, <1>3, <1>4, <1>9, <1>10

LEMMA InitPlaces == Init /\ Settled => PlaceInv
<1> SUFFICES ASSUME Init, Settled PROVE PlaceInv
  OBVIOUS
<1>1. \A c \in Cores : current[c] = NoTask
  BY DEF Init
<1>2. \A t \in Tasks : state[t] = "READY"
  BY DEF Init
<1>3. FlagsOK
  BY DEF Init, FlagsOK
<1>4. CurrentRuns /\ RunningIsCurrent /\ SlotsKept /\ StoppedLeaves /\ StrayLeaves
  BY <1>1, <1>2 DEF CurrentRuns, RunningIsCurrent, SlotsKept, StoppedLeaves, StrayLeaves
<1>5. CallerRuns
  BY DEF Init, CallerRuns, FreeLock
<1>6. EdfStays
  BY <1>2 DEF Init, EdfStays, EdfPinned
<1> QED
  BY <1>3, <1>4, <1>5, <1>6 DEF PlaceInv

LEMMA NextPlaces ==
    ASSUME Settled, QueueInv, PlaceInv, [Next]_vars
    PROVE  PlaceInv'
<1>1. CASE UNCHANGED vars
  BY <1>1 DEF vars, taskVars, coreVars, PlaceInv, FlagsOK, CurrentRuns, RunningIsCurrent,
     SlotsKept, StoppedLeaves, StrayLeaves, CallerRuns, EdfStays, Due, AffinityOk
<1>2. CASE CoreStep
  <2>1. PICK c \in Cores :
          \/ Tick(c) \/ Trap(c) \/ Yield(c) \/ SuspendScheduler(c) \/ ResumeScheduler(c)
          \/ \E t \in Tasks : Block(c, t) \/ Unblock(c, t) \/ Resume(c, t) \/ Migrate(t, c)
          \/ \E t \in Tasks, k \in Cores : Create(c, t, k)
          \/ \E t \in Tasks, p \in 0..MaxPrio : SetThreshold(c, t, p)
    BY <1>2 DEF CoreStep
  <2>2. CASE Trap(c)
    BY <2>2, TrapPlaces
  <2>3. CASE \/ Tick(c) \/ Yield(c) \/ SuspendScheduler(c) \/ ResumeScheduler(c)
             \/ \E t \in Tasks, p \in 0..MaxPrio : SetThreshold(c, t, p)
    BY <2>3, FlagsKeep
  <2>4. CASE \E t \in Tasks : Block(c, t) \/ Unblock(c, t) \/ Resume(c, t)
    BY <2>4, BlockPlaces, UnblockPlaces
  <2>5. CASE \E t \in Tasks, k \in Cores : Create(c, t, k)
    BY <2>5, CreatePlaces
  <2>6. CASE \E t \in Tasks : Migrate(t, c)
    BY <2>6 DEF Migrate, Settled
  <2> QED
    BY <2>1, <2>2, <2>3, <2>4, <2>5, <2>6
<1>3. CASE CallStep
  <2>1. CASE \E c \in Cores, t \in Tasks : \E call, x : BeginCall(c, call, t, x)
    BY <2>1, BeginCallPlaces
  <2>2. CASE WritePriority \/ WriteAffinity
    BY <2>2, RewritePlaces
  <2>3. CASE Requeue
    BY <2>3, RequeuePlaces
  <2>4. CASE WriteSuspended \/ WriteDeleted
    BY <2>4, StopPlaces
  <2> QED
    BY <1>3, <2>1, <2>2, <2>3, <2>4 DEF CallStep
<1> QED
  BY <1>1, <1>2, <1>3 DEF Next

LEMMA OneCoreFollows == Settled /\ QueueInv /\ PlaceInv => OnOneCore
<1> SUFFICES ASSUME Settled, QueueInv, PlaceInv PROVE OnOneCore
  OBVIOUS
<1>1. ASSUME NEW c \in Cores, NEW k \in Cores, c # k, current[c] # NoTask
      PROVE  current[c] \notin {current[k], PickEdf(k)}
  <2>1. current[c] # current[k]
    BY <1>1, CurrentOnce
  <2>2. current[c] # PickEdf(k)
    <3> SUFFICES ASSUME current[c] = PickEdf(k) PROVE FALSE
      OBVIOUS
    <3>1. TargetCore(current[c]) = k
      BY <1>1, EdfPickedAtHome
    <3>2. state[current[c]] = "READY"
      BY <1>1, EdfIsListed
    <3>3. runCpu[current[c]] = c /\ AffinityOk(current[c], c)
      BY <1>1, <3>2 DEF PlaceInv, CurrentRuns, StrayLeaves
    <3> QED
      BY <1>1, <3>1, <3>3 DEF TargetCore, AffinityOk
  <2> QED
    BY <2>1, <2>2
<1>2. ASSUME NEW t \in Tasks, NEW c \in Cores, current[c] = t, state[t] = "READY"
      PROVE  TargetCore(t) = c
  <2>1. t # NoTask
    BY SchedAssumption
  <2>2. runCpu[t] = c /\ AffinityOk(t, c)
    BY <1>2, <2>1 DEF PlaceInv, CurrentRuns, StrayLeaves
  <2> QED
    BY <2>2 DEF TargetCore, AffinityOk
<1> QED
  BY <1>1, <1>2 DEF OnOneCore, PlaceInv, RunningIsCurrent, SlotsKept

(* No task executes on two cores, and none is picked from the EDF list by  *)
(* one core while it is still current on another; a RUNNING task is        *)
(* current where its run_cpu says; a deleted task keeps its slot exactly   *)
(* until the core that executes it has switched (the switch of             *)
(* kernel/scheduler.c and cgrtos_task_delete of kernel/task.c).            *)
THEOREM ExecutesOnce ==
    ASSUME Settled
    PROVE  Spec => []OnOneCore
<1>1. Undisturbed
  BY DEF Settled, Undisturbed
<1>2. Init => QueueInv /\ PlaceInv
  BY InitQueued, InitPlaces
<1>3. QueueInv /\ PlaceInv /\ [Next]_vars => QueueInv' /\ PlaceInv'
  BY <1>1, NextQueued, NextPlaces
<1>4. QueueInv /\ PlaceInv => OnOneCore
  BY OneCoreFollows
<1> QED
  BY <1>2, <1>3, <1>4, PTL DEF Spec

=============================================================================

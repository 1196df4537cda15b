--------------------------- MODULE ServicesProofs ---------------------------
(***************************************************************************)
(* Parts of the system, each for every size: the doubly linked lists of    *)
(* kernel/list.c are the sequences the other modules take them for, the    *)
(* blocks of a pool are lent to one user at a time, delays in mtime end    *)
(* when they should, interrupt handlers nest, the cores start without      *)
(* losing a task, the command line shows what was typed or called back,    *)
(* sleepers, deadlines and periodic releases are kept, and timers count    *)
(* down.                                                                   *)
(***************************************************************************)
EXTENDS Services, KernelProofs

-----------------------------------------------------------------------------
(* Lists by their pointers.  s is the sequence; what follows its last item *)
(* and precedes its first is the null pointer.                             *)

ItemAt(s, k) == IF k \in 1..Len(s) THEN s[k] ELSE NullItem
Inside(s) == {s[k] : k \in 1..Len(s)}
Chain(s, nx, pv) ==
    \A k \in 1..Len(s) : nx[s[k]] = ItemAt(s, k + 1) /\ pv[s[k]] = ItemAt(s, k - 1)
Loose(s, nx, pv) == \A x \in Items \ Inside(s) : nx[x] = NullItem /\ pv[x] = NullItem

Pointers == [Items -> Items \cup {NullItem}]
DescribedBy(s, nx, pv, h, t, n) ==
    /\ s \in Seq(Items) /\ Once(s) /\ nx \in Pointers /\ pv \in Pointers
    /\ Chain(s, nx, pv) /\ Loose(s, nx, pv)
    /\ h = ItemAt(s, 1) /\ t = ItemAt(s, Len(s)) /\ n = Len(s)

ListInv == DescribedBy(order, next, prev, head, tail, count)

LEMMA LinkedIsSequence == ASSUME ListAssumption, ListInv PROVE ListIsSequence
<1> USE DEF ListInv, DescribedBy
<1>1. PICK n \in Nat : n = Len(order)
  OBVIOUS
<1>2. \A k \in 1..n : order[k] \in Items
  BY <1>1
<1>3. ASSUME NEW k \in 1..n
      PROVE  /\ next[order[k]] = IF k = n THEN NullItem ELSE order[k + 1]
             /\ prev[order[k]] = IF k = 1 THEN NullItem ELSE order[k - 1]
  <2>1. k + 1 \in 1..n <=> k # n
    OBVIOUS
  <2>2. k - 1 \in 1..n <=> k # 1
    OBVIOUS
  <2> QED
    BY <1>1, <2>1, <2>2 DEF Chain, ItemAt
<1>4. count = n /\ head = (IF n = 0 THEN NullItem ELSE order[1]) /\ tail = (IF n = 0 THEN NullItem ELSE order[n])
  BY <1>1 DEF ItemAt
<1>5. ASSUME NEW i \in Items PROVE Member(i) <=> Contains(order, i)
  <2>1. ASSUME Contains(order, i) PROVE Member(i)
    <3>1. PICK k \in 1..n : order[k] = i
      BY <1>1, <2>1 DEF Contains
    <3>2. k # 1 => k - 1 \in 1..n
      OBVIOUS
    <3>3. CASE k = 1
      BY <1>4, <3>1, <3>3 DEF Member
    <3>4. CASE k # 1
      <4>1. prev[i] = order[k - 1] /\ order[k - 1] \in Items
        BY <1>2, <1>3, <3>1, <3>2, <3>4
      <4> QED
        BY <4>1 DEF Member, ListAssumption
    <3> QED
      BY <3>3, <3>4
  <2>2. ASSUME ~Contains(order, i) PROVE ~Member(i)
    <3>1. i \notin Inside(order)
      BY <2>2 DEF Contains, Inside
    <3>2. head # i
      BY <1>1, <1>4, <2>2 DEF Contains, ListAssumption
    <3> QED
      BY <3>1, <3>2 DEF Loose, Member
  <2> QED
    BY <2>1, <2>2
<1> HIDE DEF ListInv, DescribedBy
<1> QED
  BY <1>1, <1>3, <1>4, <1>5 DEF ListIsSequence

(* i comes before the p-th item, or after the last.                        *)
PutBefore(s, p, i, r) ==
    /\ r \in Seq(Items) /\ Len(r) = Len(s) + 1
    /\ \A k \in 1..Len(r) : r[k] = IF k < p THEN s[k] ELSE IF k = p THEN i ELSE s[k - 1]

LEMMA LinkedIn ==
    ASSUME ListAssumption, NEW s, NEW nx, NEW pv, NEW h, NEW t, NEW n, DescribedBy(s, nx, pv, h, t, n),
           NEW p \in 1..(n + 1), NEW i \in Items \ Inside(s), NEW r, PutBefore(s, p, i, r),
           NEW nx2, nx2 = [x \in Items |-> IF x = i THEN ItemAt(s, p) ELSE IF x = ItemAt(s, p - 1) THEN i ELSE nx[x]],
           NEW pv2, pv2 = [x \in Items |-> IF x = i THEN ItemAt(s, p - 1) ELSE IF x = ItemAt(s, p) THEN i ELSE pv[x]]
    PROVE  DescribedBy(r, nx2, pv2, IF p = 1 THEN i ELSE h, IF p = n + 1 THEN i ELSE t, n + 1)
<1>1. /\ s \in Seq(Items) /\ Once(s) /\ nx \in Pointers /\ pv \in Pointers
      /\ Chain(s, nx, pv) /\ Loose(s, nx, pv)
      /\ h = ItemAt(s, 1) /\ t = ItemAt(s, n) /\ n = Len(s) /\ n \in Nat
      /\ r \in Seq(Items) /\ Len(r) = n + 1
      /\ \A k \in 1..(n + 1) : r[k] = IF k < p THEN s[k] ELSE IF k = p THEN i ELSE s[k - 1]
  <2>1. /\ s \in Seq(Items) /\ Once(s) /\ nx \in Pointers /\ pv \in Pointers
        /\ Chain(s, nx, pv) /\ Loose(s, nx, pv)
        /\ h = ItemAt(s, 1) /\ t = ItemAt(s, Len(s)) /\ n = Len(s)
    BY Zenon DEF DescribedBy
  <2>2. /\ r \in Seq(Items) /\ Len(r) = Len(s) + 1
        /\ \A k \in 1..Len(r) : r[k] = IF k < p THEN s[k] ELSE IF k = p THEN i ELSE s[k - 1]
    BY Zenon DEF PutBefore
  <2>3. n \in Nat /\ Len(r) = n + 1
    BY <2>1, <2>2
  <2> QED
    BY <2>1, <2>2, <2>3, Zenon
<1>2. \A k \in 1..n : s[k] \in Items /\ s[k] # i /\ s[k] # NullItem
  BY <1>1 DEF Inside, ListAssumption
<1>3. \A k \in 0..(n + 1) : ItemAt(s, k) \in Items \cup {NullItem} /\ ItemAt(s, k) # i
  BY <1>1, <1>2 DEF ItemAt, ListAssumption
<1>4. Once(r)
  <2> DEFINE pos(k) == IF k < p THEN k ELSE k - 1
  <2>1. ASSUME NEW k \in 1..(n + 1), k # p
        PROVE  pos(k) \in 1..n /\ r[k] = s[pos(k)] /\ r[k] # i
    <3>1. pos(k) \in 1..n
      BY <1>1, <2>1
    <3> QED
      BY <1>1, <1>2, <2>1, <3>1
  <2>2. r[p] = i
    BY <1>1
  <2> SUFFICES ASSUME NEW a \in 1..(n + 1), NEW b \in 1..(n + 1), r[a] = r[b]
               PROVE  a = b
    BY <1>1 DEF Once
  <2>3. CASE a = p \/ b = p
    BY <2>1, <2>2, <2>3
  <2>4. CASE a # p /\ b # p
    <3>1. pos(a) \in 1..n /\ pos(b) \in 1..n /\ s[pos(a)] = s[pos(b)]
      BY <2>1, <2>4
    <3> HIDE DEF pos
    <3>2. pos(a) = pos(b)
      BY <1>1, <3>1 DEF Once
    <3> QED
      BY <1>1, <2>4, <3>2 DEF pos
  <2> QED
    BY <2>3, <2>4
<1>5. nx2 \in Pointers /\ pv2 \in Pointers
  <2>1. p - 1 \in 0..(n + 1) /\ p \in 0..(n + 1)
    BY <1>1
  <2>2. ItemAt(s, p) \in Items \cup {NullItem} /\ ItemAt(s, p - 1) \in Items \cup {NullItem}
    BY <1>3, <2>1
  <2> QED
    BY <1>1, <2>2 DEF Pointers
<1>6. \A k \in 0..(n + 2) : ItemAt(r, k) = IF k < p THEN ItemAt(s, k) ELSE IF k = p THEN i ELSE ItemAt(s, k - 1)
  <2> SUFFICES ASSUME NEW k \in 0..(n + 2)
               PROVE  ItemAt(r, k) = IF k < p THEN ItemAt(s, k) ELSE IF k = p THEN i ELSE ItemAt(s, k - 1)
    OBVIOUS
  <2>1. CASE k = 0
    BY <1>1, <2>1 DEF ItemAt
  <2>2. CASE k = n + 2
    BY <1>1, <2>2 DEF ItemAt
  <2>3. CASE k \in 1..(n + 1)
    <3>1. k < p => k \in 1..n
      BY <1>1, <2>3
    <3>2. k > p => k - 1 \in 1..n
      BY <1>1, <2>3
    <3> QED
      BY <1>1, <2>3, <3>1, <3>2 DEF ItemAt
  <2> QED
    BY <1>1, <2>1, <2>2, <2>3
<1>7. ASSUME NEW k \in 1..(n + 1) PROVE nx2[r[k]] = ItemAt(r, k + 1) /\ pv2[r[k]] = ItemAt(r, k - 1)
  <2>1. CASE k = p
    <3>1. r[k] = i /\ nx2[i] = ItemAt(s, p) /\ pv2[i] = ItemAt(s, p - 1)
      BY <1>1, <2>1
    <3>2. ItemAt(r, k + 1) = ItemAt(s, p) /\ ItemAt(r, k - 1) = ItemAt(s, p - 1)
      BY <1>1, <1>6, <2>1
    <3> QED
      BY <3>1, <3>2
  <2>2. CASE k < p
    <3>1. k \in 1..n /\ r[k] = s[k] /\ s[k] \in Items /\ s[k] # i /\ s[k] # NullItem
      BY <1>1, <1>2, <2>2
    <3>2. ItemAt(r, k - 1) = ItemAt(s, k - 1) /\ ItemAt(r, k + 1) = IF k = p - 1 THEN i ELSE ItemAt(s, k + 1)
      BY <1>1, <1>6, <2>2
    <3>3. nx[s[k]] = ItemAt(s, k + 1) /\ pv[s[k]] = ItemAt(s, k - 1)
      BY <1>1, <3>1 DEF Chain
    <3>4. s[k] = ItemAt(s, p - 1) <=> k = p - 1
      BY <1>1, <3>1 DEF ItemAt, Once
    <3>5. s[k] # ItemAt(s, p)
      BY <1>1, <2>2, <3>1 DEF ItemAt, Once
    <3>6. nx2[s[k]] = (IF k = p - 1 THEN i ELSE nx[s[k]]) /\ pv2[s[k]] = pv[s[k]]
      BY <3>1, <3>4, <3>5
    <3> QED
      BY <3>1, <3>2, <3>3, <3>6
  <2>3. CASE k > p
    <3>1. k - 1 \in 1..n /\ r[k] = s[k - 1]
      BY <1>1, <2>3
    <3>0. s[k - 1] \in Items /\ s[k - 1] # i /\ s[k - 1] # NullItem
      BY <1>2, <3>1
    <3>2. ItemAt(r, k + 1) = ItemAt(s, k) /\ ItemAt(r, k - 1) = IF k - 1 = p THEN i ELSE ItemAt(s, k - 2)
      <4>1. k + 1 \in 0..(n + 2) /\ k - 1 \in 0..(n + 2) /\ ~(k + 1 < p) /\ k + 1 # p /\ ~(k - 1 < p)
            /\ (k + 1) - 1 = k /\ (k - 1) - 1 = k - 2
        BY <1>1, <2>3
      <4> QED
        BY <1>6, <4>1
    <3>3. nx[s[k - 1]] = ItemAt(s, k) /\ pv[s[k - 1]] = ItemAt(s, k - 2)
      <4>1. (k - 1) + 1 = k /\ (k - 1) - 1 = k - 2
        OBVIOUS
      <4> QED
        BY <1>1, <3>1, <4>1 DEF Chain
    <3>4. s[k - 1] = ItemAt(s, p) <=> k - 1 = p
      BY <1>1, <3>0, <3>1 DEF ItemAt, Once
    <3>5. s[k - 1] # ItemAt(s, p - 1)
      BY <1>1, <2>3, <3>0, <3>1 DEF ItemAt, Once
    <3>6. nx2[s[k - 1]] = nx[s[k - 1]] /\ pv2[s[k - 1]] = (IF k - 1 = p THEN i ELSE pv[s[k - 1]])
      BY <3>0, <3>4, <3>5
    <3> QED
      BY <3>1, <3>2, <3>3, <3>6
  <2> QED
    BY <1>1, <2>1, <2>2, <2>3
<1>8. Loose(r, nx2, pv2)
  <2> SUFFICES ASSUME NEW x \in Items, \A k \in 1..(n + 1) : r[k] # x
               PROVE  nx2[x] = NullItem /\ pv2[x] = NullItem
    BY <1>1 DEF Loose, Inside
  <2>1. x # i
    BY <1>1
  <2>2. \A k \in 1..n : s[k] # x
    <3> SUFFICES ASSUME NEW k \in 1..n, s[k] = x PROVE FALSE
      OBVIOUS
    <3>1. CASE k < p
      BY <1>1, <3>1
    <3>2. CASE k >= p
      <4>1. k + 1 \in 1..(n + 1) /\ ~(k + 1 < p) /\ k + 1 # p /\ (k + 1) - 1 = k
        BY <1>1, <3>2
      <4>2. r[k + 1] = s[k]
        BY <1>1, <4>1
      <4> QED
        BY <4>1, <4>2
    <3> QED
      BY <1>1, <3>1, <3>2
  <2>3. nx[x] = NullItem /\ pv[x] = NullItem
    BY <1>1, <2>2 DEF Loose, Inside
  <2>4. x # ItemAt(s, p) /\ x # ItemAt(s, p - 1)
    BY <1>1, <2>2 DEF ItemAt, ListAssumption
  <2> QED
    BY <2>1, <2>3, <2>4
<1>9. (IF p = 1 THEN i ELSE h) = ItemAt(r, 1) /\ (IF p = n + 1 THEN i ELSE t) = ItemAt(r, n + 1)
  BY <1>1, <1>6
<1> QED
  BY <1>1, <1>4, <1>5, <1>7, <1>8, <1>9 DEF DescribedBy, Chain

(* The p-th item is taken out.                                             *)
Lacking(s, p, r) ==
    /\ r \in Seq(Items) /\ Len(r) = Len(s) - 1
    /\ \A k \in 1..Len(r) : r[k] = IF k < p THEN s[k] ELSE s[k + 1]

LEMMA LinkedOut ==
    ASSUME ListAssumption, NEW s, NEW nx, NEW pv, NEW h, NEW t, NEW n, DescribedBy(s, nx, pv, h, t, n),
           NEW p \in 1..n, NEW r, Lacking(s, p, r),
           NEW nx2, nx2 = [x \in Items |-> IF x = s[p] THEN NullItem ELSE IF x = ItemAt(s, p - 1) THEN ItemAt(s, p + 1) ELSE nx[x]],
           NEW pv2, pv2 = [x \in Items |-> IF x = s[p] THEN NullItem ELSE IF x = ItemAt(s, p + 1) THEN ItemAt(s, p - 1) ELSE pv[x]]
    PROVE  DescribedBy(r, nx2, pv2, IF p = 1 THEN ItemAt(s, 2) ELSE h, IF p = n THEN ItemAt(s, n - 1) ELSE t, n - 1)
<1>1. /\ s \in Seq(Items) /\ Once(s) /\ nx \in Pointers /\ pv \in Pointers
      /\ Chain(s, nx, pv) /\ Loose(s, nx, pv)
      /\ h = ItemAt(s, 1) /\ t = ItemAt(s, n) /\ n = Len(s) /\ n \in Nat \ {0}
      /\ r \in Seq(Items) /\ Len(r) = n - 1
      /\ \A k \in 1..(n - 1) : r[k] = IF k < p THEN s[k] ELSE s[k + 1]
  BY DEF DescribedBy, Lacking
<1>2. \A k \in 1..n : s[k] \in Items /\ s[k] # NullItem
  BY <1>1 DEF ListAssumption
<1>3. \A k \in 0..(n + 1) : ItemAt(s, k) \in Items \cup {NullItem}
  BY <1>1, <1>2 DEF ItemAt
<1>4. Once(r)
  <2> DEFINE pos(k) == IF k < p THEN k ELSE k + 1
  <2>1. ASSUME NEW k \in 1..(n - 1) PROVE pos(k) \in 1..n /\ r[k] = s[pos(k)]
    BY <1>1
  <2> SUFFICES ASSUME NEW a \in 1..(n - 1), NEW b \in 1..(n - 1), r[a] = r[b]
               PROVE  a = b
    BY <1>1 DEF Once
  <2>2. pos(a) \in 1..n /\ pos(b) \in 1..n /\ s[pos(a)] = s[pos(b)]
    BY <2>1
  <2> HIDE DEF pos
  <2>3. pos(a) = pos(b)
    BY <1>1, <2>2 DEF Once
  <2> QED
    BY <1>1, <2>3 DEF pos
<1>5. nx2 \in Pointers /\ pv2 \in Pointers
  <2>1. p - 1 \in 0..(n + 1) /\ p + 1 \in 0..(n + 1)
    BY <1>1
  <2>2. ItemAt(s, p + 1) \in Items \cup {NullItem} /\ ItemAt(s, p - 1) \in Items \cup {NullItem}
    BY <1>3, <2>1
  <2> QED
    BY <1>1, <2>2 DEF Pointers
<1>6. \A k \in 0..n : ItemAt(r, k) = IF k < p THEN ItemAt(s, k) ELSE ItemAt(s, k + 1)
  <2> SUFFICES ASSUME NEW k \in 0..n PROVE ItemAt(r, k) = IF k < p THEN ItemAt(s, k) ELSE ItemAt(s, k + 1)
    OBVIOUS
  <2>1. CASE k = 0
    BY <1>1, <2>1 DEF ItemAt
  <2>2. CASE k = n
    BY <1>1, <2>2 DEF ItemAt
  <2>3. CASE k \in 1..(n - 1)
    <3>1. k \in 1..n /\ k + 1 \in 1..n
      BY <1>1, <2>3
    <3> QED
      BY <1>1, <2>3, <3>1 DEF ItemAt
  <2> QED
    BY <1>1, <2>1, <2>2, <2>3
<1>7. ASSUME NEW k \in 1..(n - 1) PROVE nx2[r[k]] = ItemAt(r, k + 1) /\ pv2[r[k]] = ItemAt(r, k - 1)
  <2>1. CASE k < p
    <3>1. k \in 1..n /\ r[k] = s[k] /\ s[k] \in Items /\ s[k] # NullItem
      BY <1>1, <1>2, <2>1
    <3>2. ItemAt(r, k - 1) = ItemAt(s, k - 1) /\ ItemAt(r, k + 1) = IF k = p - 1 THEN ItemAt(s, p + 1) ELSE ItemAt(s, k + 1)
      <4>1. k - 1 \in 0..n /\ k - 1 < p /\ k + 1 \in 0..n /\ (k + 1 < p <=> k # p - 1)
            /\ (k = p - 1 => (k + 1) + 1 = p + 1)
        BY <1>1, <2>1
      <4> QED
        BY <1>6, <4>1
    <3>3. nx[s[k]] = ItemAt(s, k + 1) /\ pv[s[k]] = ItemAt(s, k - 1)
      BY <1>1, <3>1 DEF Chain
    <3>4. s[k] = ItemAt(s, p - 1) <=> k = p - 1
      BY <1>1, <3>1 DEF ItemAt, Once
    <3>5. s[k] # ItemAt(s, p + 1) /\ s[k] # s[p]
      BY <1>1, <2>1, <3>1 DEF ItemAt, Once
    <3>6. nx2[s[k]] = (IF k = p - 1 THEN ItemAt(s, p + 1) ELSE nx[s[k]]) /\ pv2[s[k]] = pv[s[k]]
      BY <3>1, <3>4, <3>5
    <3> QED
      BY <3>1, <3>2, <3>3, <3>6
  <2>2. CASE k >= p
    <3>1. k + 1 \in 1..n /\ r[k] = s[k + 1]
      BY <1>1, <2>2
    <3>0. s[k + 1] \in Items /\ s[k + 1] # NullItem
      BY <1>2, <3>1
    <3>2. ItemAt(r, k + 1) = ItemAt(s, k + 2) /\ ItemAt(r, k - 1) = IF k = p THEN ItemAt(s, p - 1) ELSE ItemAt(s, k)
      <4>1. k + 1 \in 0..n /\ ~(k + 1 < p) /\ (k + 1) + 1 = k + 2
            /\ k - 1 \in 0..n /\ (k - 1 < p <=> k = p) /\ (k - 1) + 1 = k
        BY <1>1, <2>2
      <4> QED
        BY <1>6, <4>1
    <3>3. nx[s[k + 1]] = ItemAt(s, k + 2) /\ pv[s[k + 1]] = ItemAt(s, k)
      <4>1. (k + 1) + 1 = k + 2 /\ (k + 1) - 1 = k
        OBVIOUS
      <4> QED
        BY <1>1, <3>1, <4>1 DEF Chain
    <3>4. s[k + 1] = ItemAt(s, p + 1) <=> k = p
      BY <1>1, <3>0, <3>1 DEF ItemAt, Once
    <3>5. s[k + 1] # ItemAt(s, p - 1) /\ s[k + 1] # s[p]
      BY <1>1, <2>2, <3>0, <3>1 DEF ItemAt, Once
    <3>6. nx2[s[k + 1]] = nx[s[k + 1]] /\ pv2[s[k + 1]] = (IF k = p THEN ItemAt(s, p - 1) ELSE pv[s[k + 1]])
      BY <3>0, <3>4, <3>5
    <3> QED
      BY <3>1, <3>2, <3>3, <3>6
  <2> QED
    BY <1>1, <2>1, <2>2
<1>8. Loose(r, nx2, pv2)
  <2> SUFFICES ASSUME NEW x \in Items, x # s[p], \A k \in 1..(n - 1) : r[k] # x
               PROVE  nx2[x] = NullItem /\ pv2[x] = NullItem
    BY <1>1 DEF Loose, Inside
  <2>1. \A k \in 1..n : s[k] # x
    <3> SUFFICES ASSUME NEW k \in 1..n, s[k] = x PROVE FALSE
      OBVIOUS
    <3>1. CASE k < p
      <4>1. k \in 1..(n - 1)
        BY <1>1, <3>1
      <4> QED
        BY <1>1, <3>1, <4>1
    <3>2. CASE k > p
      <4>1. k - 1 \in 1..(n - 1) /\ ~(k - 1 < p) /\ (k - 1) + 1 = k
        BY <1>1, <3>2
      <4>2. r[k - 1] = s[k]
        BY <1>1, <4>1
      <4> QED
        BY <4>1, <4>2
    <3> QED
      BY <1>1, <3>1, <3>2
  <2>2. nx[x] = NullItem /\ pv[x] = NullItem
    BY <1>1, <2>1 DEF Loose, Inside
  <2>3. x # ItemAt(s, p + 1) /\ x # ItemAt(s, p - 1)
    BY <1>1, <2>1 DEF ItemAt, ListAssumption
  <2> QED
    BY <2>2, <2>3
<1>9. (IF p = 1 THEN ItemAt(s, 2) ELSE h) = ItemAt(r, 1) /\ (IF p = n THEN ItemAt(s, n - 1) ELSE t) = ItemAt(r, n - 1)
  <2>1. ItemAt(r, 1) = IF 1 < p THEN ItemAt(s, 1) ELSE ItemAt(s, 2)
    BY <1>1, <1>6
  <2>2. ItemAt(r, n - 1) = IF n - 1 < p THEN ItemAt(s, n - 1) ELSE ItemAt(s, n)
    <3>1. n - 1 \in 0..n /\ (n - 1) + 1 = n
      BY <1>1
    <3> QED
      BY <1>6, <3>1
  <2> QED
    BY <1>1, <2>1, <2>2
<1> QED
  BY <1>1, <1>4, <1>5, <1>7, <1>8, <1>9 DEF DescribedBy, Chain

LEMMA InsertedBefore ==
    ASSUME NEW s \in Seq(Items), NEW p \in 1..(Len(s) + 1), NEW i \in Items
    PROVE  PutBefore(s, p, i, InsertAt(s, p, i))
<1>1. PICK r : r = InsertAt(s, p, i)
  OBVIOUS
<1>2. PlacedAt(Items, s, p, i, r)
  BY <1>1, InsertAtIs
<1>3. PutBefore(s, p, i, r)
  BY <1>2 DEF PlacedAt, PutBefore
<1> QED
  BY <1>1, <1>3

LEMMA AppendedBefore ==
    ASSUME NEW s \in Seq(Items), NEW i \in Items PROVE PutBefore(s, Len(s) + 1, i, Append(s, i))
BY DEF PutBefore

LEMMA FirstOf ==
    ASSUME NEW I \in SUBSET Nat, NEW m \in I, \A k \in I : m <= k
    PROVE  Min(I) = m
<1>1. Min(I) \in I /\ \A k \in I : Min(I) <= k
  BY DEF Min
<1>2. PICK x \in I : x = Min(I)
  BY <1>1
<1>3. x <= m /\ m <= x
  BY <1>1, <1>2
<1> QED
  BY <1>2, <1>3

LEMMA WithoutAt ==
    ASSUME NEW s \in Seq(Items), NEW p \in 1..Len(s) PROVE Lacking(s, p, RemoveAt(s, p))
<1>1. PICK r : r = RemoveAt(s, p)
  OBVIOUS
<1>2. TakenOut(Items, s, p, r)
  BY <1>1, RemoveAtIs
<1>3. Lacking(s, p, r)
  BY <1>2 DEF TakenOut, Lacking
<1> QED
  BY <1>1, <1>3

LEMMA RemovedAt ==
    ASSUME NEW s \in Seq(Items), Once(s), NEW p \in 1..Len(s)
    PROVE  Lacking(s, p, RemoveFirst(s, s[p]))
<1>1. {k \in 1..Len(s) : s[k] = s[p]} = {p}
  BY DEF Once
<1>2. Min({p}) = p
  BY FirstOf
<1>3. SelectInSeq(s, LAMBDA x : x = s[p]) = p
  BY <1>1, <1>2 DEF SelectInSeq
<1> QED
  BY <1>3, WithoutAt DEF RemoveFirst

-----------------------------------------------------------------------------
(* The operations.                                                         *)

LEMMA MemberIs ==
    ASSUME ListAssumption, ListInv, NEW i \in Items PROVE Member(i) <=> i \in Inside(order)
BY LinkedIsSequence DEF ListIsSequence, Contains, Inside

LEMMA LastKeeps ==
    ASSUME ListAssumption, ListInv, NEW i \in Items \ Inside(order), NEW v, LinkLast(i, v),
           PutBefore(order, Len(order) + 1, i, order')
    PROVE  ListInv'
<1>1. DescribedBy(order, next, prev, head, tail, count)
  BY DEF ListInv
<1>2. /\ order \in Seq(Items) /\ next \in Pointers /\ prev \in Pointers /\ count = Len(order) /\ count \in Nat
      /\ head = ItemAt(order, 1) /\ tail = ItemAt(order, count)
  BY <1>1 DEF DescribedBy
<1>3. ItemAt(order, count + 1) = NullItem /\ (count + 1) - 1 = count
  BY <1>2 DEF ItemAt
<1>4. i # tail
  BY <1>2 DEF ItemAt, Inside, ListAssumption
<1>5. next' = [x \in Items |-> IF x = i THEN ItemAt(order, count + 1)
                               ELSE IF x = ItemAt(order, (count + 1) - 1) THEN i ELSE next[x]]
  BY <1>2, <1>3, <1>4 DEF LinkLast
<1>6. prev' = [x \in Items |-> IF x = i THEN ItemAt(order, (count + 1) - 1)
                               ELSE IF x = ItemAt(order, count + 1) THEN i ELSE prev[x]]
  BY <1>2, <1>3 DEF LinkLast, Pointers, ListAssumption
<1>7. DescribedBy(order', next', prev', IF count + 1 = 1 THEN i ELSE head, IF count + 1 = count + 1 THEN i ELSE tail, count + 1)
  <2>1. count + 1 \in 1..(count + 1) /\ PutBefore(order, count + 1, i, order')
    BY <1>2
  <2> QED
    BY <1>1, <1>5, <1>6, <2>1, LinkedIn
<1>8. head' = (IF count + 1 = 1 THEN i ELSE head) /\ tail' = i /\ count' = count + 1
  <2>1. tail = NullItem <=> count = 0
    BY <1>2 DEF ItemAt, ListAssumption
  <2> QED
    BY <1>2, <2>1 DEF LinkLast
<1> QED
  BY <1>7, <1>8 DEF ListInv

LEMMA BeforeKeeps ==
    ASSUME ListAssumption, ListInv, NEW i \in Items \ Inside(order), NEW v, NEW p \in 1..Len(order),
           LinkBefore(order[p], i, v), PutBefore(order, p, i, order')
    PROVE  ListInv'
<1>1. DescribedBy(order, next, prev, head, tail, count)
  BY DEF ListInv
<1>2. /\ order \in Seq(Items) /\ next \in Pointers /\ prev \in Pointers /\ count = Len(order) /\ count \in Nat
      /\ head = ItemAt(order, 1) /\ tail = ItemAt(order, count) /\ Chain(order, next, prev)
  BY <1>1 DEF DescribedBy
<1>3. order[p] \in Items /\ order[p] = ItemAt(order, p) /\ prev[order[p]] = ItemAt(order, p - 1) /\ order[p] # i
  BY <1>2 DEF ItemAt, Chain, Inside
<1>4. ItemAt(order, p - 1) # i /\ (ItemAt(order, p - 1) = NullItem <=> p = 1)
  <2>1. p = 1 \/ p - 1 \in 1..Len(order)
    BY <1>2
  <2>2. p - 1 \in 1..Len(order) => order[p - 1] \in Items /\ order[p - 1] # i
    BY <1>2 DEF Inside
  <2> QED
    BY <2>1, <2>2 DEF ItemAt, ListAssumption
<1>5. next' = [x \in Items |-> IF x = i THEN ItemAt(order, p) ELSE IF x = ItemAt(order, p - 1) THEN i ELSE next[x]]
  BY <1>3 DEF LinkBefore
<1>6. prev' = [x \in Items |-> IF x = i THEN ItemAt(order, p - 1) ELSE IF x = ItemAt(order, p) THEN i ELSE prev[x]]
  BY <1>2, <1>3 DEF LinkBefore, Pointers
<1>7. DescribedBy(order', next', prev', IF p = 1 THEN i ELSE head, IF p = count + 1 THEN i ELSE tail, count + 1)
  <2>1. p \in 1..(count + 1)
    BY <1>2
  <2> QED
    BY <1>1, <1>5, <1>6, <2>1, LinkedIn
<1>8. head' = (IF p = 1 THEN i ELSE head) /\ tail' = tail /\ p # count + 1 /\ count' = count + 1
  BY <1>2, <1>3, <1>4 DEF LinkBefore
<1> QED
  BY <1>7, <1>8 DEF ListInv

LEMMA UnlinkKeeps ==
    ASSUME ListAssumption, ListInv, NEW i \in Items, Unlink(i)
    PROVE  ListInv'
<1>1. DescribedBy(order, next, prev, head, tail, count)
  BY DEF ListInv
<1>2. /\ order \in Seq(Items) /\ next \in Pointers /\ prev \in Pointers /\ count = Len(order) /\ count \in Nat
      /\ head = ItemAt(order, 1) /\ tail = ItemAt(order, count) /\ Chain(order, next, prev) /\ Once(order)
  BY <1>1 DEF DescribedBy
<1>3. PICK p \in 1..count : i = order[p]
  BY <1>2, MemberIs DEF Inside, Unlink
<1>4. next[i] = ItemAt(order, p + 1) /\ prev[i] = ItemAt(order, p - 1)
  BY <1>2, <1>3 DEF Chain
<1>5. /\ next' = [x \in Items |-> IF x = order[p] THEN NullItem ELSE IF x = ItemAt(order, p - 1) THEN ItemAt(order, p + 1) ELSE next[x]]
      /\ prev' = [x \in Items |-> IF x = order[p] THEN NullItem ELSE IF x = ItemAt(order, p + 1) THEN ItemAt(order, p - 1) ELSE prev[x]]
  BY <1>3, <1>4 DEF Unlink
<1>6. Lacking(order, p, order')
  BY <1>2, <1>3, RemovedAt DEF Unlink
<1>7. DescribedBy(order', next', prev', IF p = 1 THEN ItemAt(order, 2) ELSE head, IF p = count THEN ItemAt(order, count - 1) ELSE tail, count - 1)
  BY <1>1, <1>3, <1>5, <1>6, LinkedOut
<1>8. (head = i <=> p = 1) /\ (tail = i <=> p = count)
  BY <1>2, <1>3 DEF ItemAt, Once
<1>9. /\ head' = (IF p = 1 THEN ItemAt(order, 2) ELSE head)
      /\ tail' = (IF p = count THEN ItemAt(order, count - 1) ELSE tail) /\ count' = count - 1
  BY <1>2, <1>3, <1>4, <1>8 DEF Unlink
<1> QED
  BY <1>7, <1>9 DEF ListInv

(* The walk of a sorted insertion: past the items with smaller values,     *)
(* and, unless the order is strict, past equals.                           *)
Passable(x, v, strict) == IF strict THEN val[x] < v ELSE val[x] <= v
ScanAt(f, n, v, strict) ==
    IF n = 0 THEN head
    ELSE IF f[n - 1] = NullItem \/ ~Passable(f[n - 1], v, strict) THEN f[n - 1]
    ELSE next[f[n - 1]]
IsScan(f, v, strict) == f = [n \in 0..count |-> ScanAt(f, n, v, strict)]

(* m is the first place it does not pass                                   *)
Stops(m, v, strict) ==
    /\ m \in 1..(count + 1) /\ \A k \in 1..(m - 1) : Passable(order[k], v, strict)
    /\ m \in 1..count => ~Passable(order[m], v, strict)

LEMMA StopExists == ASSUME count \in Nat, NEW v, NEW strict PROVE \E m : Stops(m, v, strict)
<1> DEFINE S == {m \in 1..(count + 1) : m \in 1..count => ~Passable(order[m], v, strict)}
<1>1. S \in SUBSET Nat /\ count + 1 \in S
  OBVIOUS
<1> HIDE DEF S
<1>2. PICK m \in S : \A k \in S : m <= k
  BY <1>1, LeastNat
<1>3. m \in 1..(count + 1) /\ (m \in 1..count => ~Passable(order[m], v, strict))
  BY DEF S
<1>4. ASSUME NEW k \in 1..(m - 1) PROVE Passable(order[k], v, strict)
  <2>1. k \in 1..count /\ ~(m <= k)
    BY <1>3
  <2>2. k \notin S
    BY <1>2, <2>1
  <2> QED
    BY <2>1, <2>2 DEF S
<1> QED
  BY <1>3, <1>4 DEF Stops

LEMMA ScanExists ==
    ASSUME ListAssumption, ListInv, NEW v, NEW strict, NEW m, Stops(m, v, strict)
    PROVE  \E f : IsScan(f, v, strict)
<1> DEFINE g == [n \in 0..count |-> ItemAt(order, IF n + 1 <= m THEN n + 1 ELSE m)]
<1>1. /\ order \in Seq(Items) /\ count = Len(order) /\ count \in Nat
      /\ head = ItemAt(order, 1) /\ Chain(order, next, prev)
  BY DEF ListInv, DescribedBy
<1>2. m \in 1..(count + 1)
  BY DEF Stops
<1>3. ASSUME NEW n \in 0..count PROVE g[n] = ScanAt(g, n, v, strict)
  <2>1. CASE n = 0
    BY <1>1, <1>2, <2>1 DEF ScanAt
  <2>2. CASE n # 0 /\ n + 1 <= m
    <3>1. n \in 1..count /\ n - 1 \in 0..count /\ n \in 1..(m - 1) /\ (n - 1) + 1 = n /\ n <= m
      BY <1>1, <1>2, <2>2
    <3>2. g[n - 1] = order[n] /\ order[n] \in Items
      BY <1>1, <3>1 DEF ItemAt
    <3>3. Passable(order[n], v, strict) /\ order[n] # NullItem
      BY <3>1, <3>2 DEF Stops, ListAssumption
    <3>4. next[order[n]] = ItemAt(order, n + 1)
      BY <1>1, <3>1 DEF Chain
    <3>5. g[n] = ItemAt(order, n + 1)
      BY <2>2
    <3> HIDE DEF g
    <3> QED
      BY <2>2, <3>2, <3>3, <3>4, <3>5 DEF ScanAt
  <2>3. CASE n # 0 /\ ~(n + 1 <= m)
    <3>1. n - 1 \in 0..count /\ (n - 1) + 1 = n /\ (n <= m => n = m)
      BY <1>1, <1>2, <2>3
    <3>2. g[n - 1] = ItemAt(order, m) /\ g[n] = ItemAt(order, m)
      BY <2>3, <3>1
    <3>3. ItemAt(order, m) = NullItem \/ ~Passable(ItemAt(order, m), v, strict)
      BY <1>1, <1>2 DEF ItemAt, Stops
    <3> HIDE DEF g
    <3> QED
      BY <2>3, <3>2, <3>3 DEF ScanAt
  <2> QED
    BY <2>1, <2>2, <2>3
<1>4. g = [n \in 0..count |-> ScanAt(g, n, v, strict)]
  BY <1>3
<1> HIDE DEF g
<1> QED
  BY <1>4 DEF IsScan

LEMMA ScanIs ==
    ASSUME ListAssumption, ListInv, NEW v, NEW strict, NEW m, Stops(m, v, strict),
           NEW f, IsScan(f, v, strict)
    PROVE  f[count] = ItemAt(order, m)
<1>1. /\ order \in Seq(Items) /\ count = Len(order) /\ count \in Nat
      /\ head = ItemAt(order, 1) /\ Chain(order, next, prev)
  BY DEF ListInv, DescribedBy
<1>2. m \in 1..(count + 1)
  BY DEF Stops
<1>3. \A n \in 0..count : f[n] = ScanAt(f, n, v, strict)
  BY DEF IsScan
<1> DEFINE Good(n) == f[n] = ItemAt(order, IF n + 1 <= m THEN n + 1 ELSE m)
           Wrong == {n \in 0..count : ~Good(n)}
<1>4. Wrong = {}
  <2> SUFFICES ASSUME Wrong # {} PROVE FALSE
    OBVIOUS
  <2>1. Wrong \in SUBSET Nat
    OBVIOUS
  <2> HIDE DEF Wrong
  <2>2. PICK n \in Wrong : \A k \in Wrong : n <= k
    BY <2>1, LeastNat
  <2>3. n \in 0..count /\ ~Good(n)
    BY DEF Wrong
  <2>4. n # 0
    <3>1. f[0] = head
      BY <1>1, <1>3 DEF ScanAt
    <3> QED
      BY <1>1, <1>2, <2>3, <3>1
  <2>5. Good(n - 1)
    <3>0. n \in 0..count
      BY <2>3
    <3>1. n - 1 \in 0..count /\ ~(n <= n - 1)
      BY <1>1, <3>0, <2>4
    <3>2. n - 1 \notin Wrong
      BY <2>2, <3>1
    <3> QED
      BY <3>1, <3>2 DEF Wrong
  <2>6. CASE n + 1 <= m
    <3>1. n \in 1..count /\ n \in 1..(m - 1) /\ (n - 1) + 1 = n /\ n <= m
      BY <1>1, <1>2, <2>3, <2>4, <2>6
    <3>2. f[n - 1] = order[n] /\ order[n] \in Items
      BY <1>1, <2>5, <3>1 DEF ItemAt
    <3>3. Passable(order[n], v, strict) /\ order[n] # NullItem
      BY <3>1, <3>2 DEF Stops, ListAssumption
    <3>4. next[order[n]] = ItemAt(order, n + 1)
      BY <1>1, <3>1 DEF Chain
    <3>5. f[n] = next[f[n - 1]]
      BY <1>3, <2>3, <2>4, <3>2, <3>3 DEF ScanAt
    <3> QED
      BY <2>3, <2>6, <3>2, <3>4, <3>5
  <2>7. CASE ~(n + 1 <= m)
    <3>1. (n - 1) + 1 = n /\ (n <= m => n = m)
      BY <1>1, <1>2, <2>3, <2>7
    <3>2. f[n - 1] = ItemAt(order, m)
      BY <2>5, <3>1
    <3>3. ItemAt(order, m) = NullItem \/ ~Passable(ItemAt(order, m), v, strict)
      BY <1>1, <1>2 DEF ItemAt, Stops
    <3>4. f[n] = ItemAt(order, m)
      BY <1>3, <2>3, <2>4, <3>2, <3>3 DEF ScanAt
    <3> QED
      BY <2>3, <2>7, <3>4
  <2> QED
    BY <2>6, <2>7
<1>5. Good(count)
  BY <1>1, <1>4
<1> QED
  BY <1>1, <1>2, <1>5

LEMMA FirstNotIs ==
    ASSUME ListAssumption, ListInv, NEW v, NEW m
    PROVE  /\ Stops(m, v, FALSE) => FirstNot(LAMBDA w : w <= v) = ItemAt(order, m)
           /\ Stops(m, v, TRUE) => FirstNot(LAMBDA w : w < v) = ItemAt(order, m)
<1>1. ASSUME Stops(m, v, FALSE) PROVE FirstNot(LAMBDA w : w <= v) = ItemAt(order, m)
  <2> DEFINE from[n \in 0..count] ==
               IF n = 0 THEN head
               ELSE IF from[n - 1] = NullItem \/ ~(val[from[n - 1]] <= v) THEN from[n - 1]
               ELSE next[from[n - 1]]
  <2>1. \E f : IsScan(f, v, FALSE)
    BY <1>1, ScanExists
  <2>4. \E f : f = [n \in 0..count |->
                       IF n = 0 THEN head
                       ELSE IF f[n - 1] = NullItem \/ ~(val[f[n - 1]] <= v) THEN f[n - 1]
                       ELSE next[f[n - 1]]]
    BY <2>1, Zenon DEF IsScan, ScanAt, Passable
  <2>5. from = [n \in 0..count |->
                  IF n = 0 THEN head
                  ELSE IF from[n - 1] = NullItem \/ ~(val[from[n - 1]] <= v) THEN from[n - 1]
                  ELSE next[from[n - 1]]]
    BY <2>4, Zenon
  <2>3. FirstNot(LAMBDA w : w <= v) = from[count]
    BY DEF FirstNot
  <2> HIDE DEF from
  <2>2. IsScan(from, v, FALSE)
    BY <2>5, Zenon DEF IsScan, ScanAt, Passable
  <2> QED
    BY <1>1, <2>2, <2>3, ScanIs
<1>2. ASSUME Stops(m, v, TRUE) PROVE FirstNot(LAMBDA w : w < v) = ItemAt(order, m)
  <2> DEFINE from[n \in 0..count] ==
               IF n = 0 THEN head
               ELSE IF from[n - 1] = NullItem \/ ~(val[from[n - 1]] < v) THEN from[n - 1]
               ELSE next[from[n - 1]]
  <2>1. \E f : IsScan(f, v, TRUE)
    BY <1>2, ScanExists
  <2>4. \E f : f = [n \in 0..count |->
                       IF n = 0 THEN head
                       ELSE IF f[n - 1] = NullItem \/ ~(val[f[n - 1]] < v) THEN f[n - 1]
                       ELSE next[f[n - 1]]]
    BY <2>1, Zenon DEF IsScan, ScanAt, Passable
  <2>5. from = [n \in 0..count |->
                  IF n = 0 THEN head
                  ELSE IF from[n - 1] = NullItem \/ ~(val[from[n - 1]] < v) THEN from[n - 1]
                  ELSE next[from[n - 1]]]
    BY <2>4, Zenon
  <2>3. FirstNot(LAMBDA w : w < v) = from[count]
    BY DEF FirstNot
  <2> HIDE DEF from
  <2>2. IsScan(from, v, TRUE)
    BY <2>5, Zenon DEF IsScan, ScanAt, Passable
  <2> QED
    BY <1>2, <2>2, <2>3, ScanIs
<1> QED
  BY <1>1, <1>2

LEMMA SelectedIs ==
    ASSUME ListAssumption, ListInv, NEW v, NEW m
    PROVE  /\ Stops(m, v, FALSE) =>
                 SelectInSeq(order, LAMBDA x : ~(val[x] <= v)) = IF m = count + 1 THEN 0 ELSE m
           /\ Stops(m, v, TRUE) =>
                 SelectInSeq(order, LAMBDA x : ~(val[x] < v)) = IF m = count + 1 THEN 0 ELSE m
<1>1. count = Len(order) /\ count \in Nat
  BY DEF ListInv, DescribedBy
<1>2. ASSUME NEW strict, Stops(m, v, strict), NEW I, I = {k \in 1..count : ~Passable(order[k], v, strict)}
      PROVE  (m = count + 1 => I = {}) /\ (m # count + 1 => m \in I /\ Min(I) = m)
  <2>1. m \in 1..(count + 1)
    BY <1>2 DEF Stops
  <2>2. ASSUME NEW k \in I PROVE m <= k
    <3>1. k \in 1..count /\ ~Passable(order[k], v, strict)
      BY <1>2
    <3>2. k \notin 1..(m - 1)
      BY <1>2, <3>1 DEF Stops
    <3> QED
      BY <2>1, <3>1, <3>2
  <2>3. CASE m = count + 1
    <3>1. I = {}
      BY <1>1, <1>2, <2>2, <2>3
    <3> QED
      BY <2>3, <3>1
  <2>4. CASE m # count + 1
    <3>1. m \in 1..count
      BY <1>1, <2>1, <2>4
    <3>2. m \in I /\ I \in SUBSET Nat
      BY <1>2, <3>1 DEF Stops
    <3>3. Min(I) = m
      BY <2>2, <3>2, FirstOf
    <3> QED
      BY <2>4, <3>2, <3>3
  <2> QED
    BY <2>3, <2>4
<1>3. ASSUME Stops(m, v, FALSE)
      PROVE  SelectInSeq(order, LAMBDA x : ~(val[x] <= v)) = IF m = count + 1 THEN 0 ELSE m
  <2> DEFINE I == {k \in 1..count : ~(val[order[k]] <= v)}
  <2>1. I = {k \in 1..count : ~Passable(order[k], v, FALSE)}
    BY DEF Passable
  <2>2. SelectInSeq(order, LAMBDA x : ~(val[x] <= v)) = IF I # {} THEN Min(I) ELSE 0
    BY <1>1 DEF SelectInSeq
  <2> HIDE DEF I
  <2> QED
    BY <1>2, <1>3, <2>1, <2>2
<1>4. ASSUME Stops(m, v, TRUE)
      PROVE  SelectInSeq(order, LAMBDA x : ~(val[x] < v)) = IF m = count + 1 THEN 0 ELSE m
  <2> DEFINE I == {k \in 1..count : ~(val[order[k]] < v)}
  <2>1. I = {k \in 1..count : ~Passable(order[k], v, TRUE)}
    BY DEF Passable
  <2>2. SelectInSeq(order, LAMBDA x : ~(val[x] < v)) = IF I # {} THEN Min(I) ELSE 0
    BY <1>1 DEF SelectInSeq
  <2> HIDE DEF I
  <2> QED
    BY <1>2, <1>4, <2>1, <2>2
<1> QED
  BY <1>3, <1>4

(* What the walk has found is where the item goes.                         *)
Goes(i, v, c, n) ==
    /\ IF c = NullItem THEN LinkLast(i, v) ELSE LinkBefore(c, i, v)
    /\ order' = IF n = 0 THEN Append(order, i) ELSE InsertAt(order, n, i)

LEMMA GoesKeeps ==
    ASSUME ListAssumption, ListInv, NEW i \in Items \ Inside(order), NEW v, NEW m \in 1..(count + 1),
           Goes(i, v, ItemAt(order, m), IF m = count + 1 THEN 0 ELSE m)
    PROVE  ListInv'
<1>1. order \in Seq(Items) /\ count = Len(order) /\ count \in Nat
  BY DEF ListInv, DescribedBy
<1>2. CASE m = count + 1
  <2>1. ItemAt(order, m) = NullItem
    BY <1>1, <1>2 DEF ItemAt
  <2>2. LinkLast(i, v) /\ order' = Append(order, i)
    BY <1>2, <2>1 DEF Goes
  <2> QED
    BY <1>1, <2>2, AppendedBefore, LastKeeps
<1>3. CASE m # count + 1
  <2>1. m \in 1..Len(order) /\ m # 0 /\ m \in 1..(Len(order) + 1)
    BY <1>1, <1>3
  <2>2. ItemAt(order, m) = order[m] /\ order[m] # NullItem
    BY <1>1, <2>1 DEF ItemAt, ListAssumption
  <2>3. LinkBefore(order[m], i, v) /\ order' = InsertAt(order, m, i)
    BY <1>3, <2>1, <2>2 DEF Goes
  <2>4. PutBefore(order, m, i, order')
    BY <1>1, <2>1, <2>3, InsertedBefore
  <2> QED
    BY <2>1, <2>3, <2>4, BeforeKeeps
<1> QED
  BY <1>2, <1>3

LEMMA ListStepKeeps == ASSUME ListAssumption, ListInv, ListStep PROVE ListInv'
<1>1. order \in Seq(Items) /\ count = Len(order) /\ count \in Nat
  BY DEF ListInv, DescribedBy
<1>2. ASSUME NEW i \in Items, InsertEnd(i) PROVE ListInv'
  <2>1. i \in Items \ Inside(order)
    BY <1>2, MemberIs DEF InsertEnd
  <2> QED
    BY <1>1, <1>2, <2>1, AppendedBefore, LastKeeps DEF InsertEnd
<1>3. ASSUME NEW i \in Items, Unlink(i) PROVE ListInv'
  BY <1>3, UnlinkKeeps
<1>4. ASSUME NEW i \in Items, NEW v \in Keys, InsertSorted(i, v) PROVE ListInv'
  <2>1. i \in Items \ Inside(order)
    BY <1>4, MemberIs DEF InsertSorted
  <2>2. PICK m : Stops(m, v, FALSE)
    BY <1>1, StopExists
  <2>3. Goes(i, v, FirstNot(LAMBDA w : w <= v), SelectInSeq(order, LAMBDA x : ~(val[x] <= v)))
    BY <1>4 DEF InsertSorted, LinkSorted, Goes
  <2>4. Goes(i, v, ItemAt(order, m), IF m = count + 1 THEN 0 ELSE m)
    BY <2>2, <2>3, FirstNotIs, SelectedIs
  <2> QED
    BY <2>1, <2>2, <2>4, GoesKeeps DEF Stops
<1>5. ASSUME NEW i \in Items, NEW v \in Keys, InsertSortedAsc(i, v) PROVE ListInv'
  <2>1. i \in Items \ Inside(order)
    BY <1>5, MemberIs DEF InsertSortedAsc
  <2>2. PICK m : Stops(m, v, TRUE)
    BY <1>1, StopExists
  <2>3. Goes(i, v, FirstNot(LAMBDA w : w < v), SelectInSeq(order, LAMBDA x : ~(val[x] < v)))
    BY <1>5 DEF InsertSortedAsc, LinkSorted, Goes
  <2>4. Goes(i, v, ItemAt(order, m), IF m = count + 1 THEN 0 ELSE m)
    BY <2>2, <2>3, FirstNotIs, SelectedIs
  <2> QED
    BY <2>1, <2>2, <2>4, GoesKeeps DEF Stops
<1> QED
  BY <1>2, <1>3, <1>4, <1>5 DEF ListStep

LEMMA ListInvInit == ASSUME ListAssumption, ListInit PROVE ListInv
BY DEF ListInit, ListInv, DescribedBy, Once, Pointers, Chain, Loose, ItemAt, Inside

LEMMA ListInvStep == ASSUME ListAssumption, ListInv, [ServicesNext]_servicesVars PROVE ListInv'
<1>1. CASE UNCHANGED listPtrs
  BY <1>1 DEF listPtrs, ListInv, DescribedBy, Chain, Loose, Once, ItemAt, Inside, Pointers
<1>2. CASE ListStep
  BY <1>2, ListStepKeeps
<1>3. UNCHANGED listPtrs \/ ListStep
  BY DEF ServicesNext, servicesVars
<1> QED
  BY <1>1, <1>2, <1>3

(* The pointers of a list describe a sequence, whatever is inserted at the *)
(* end or in order and removed, however long the list is (list_insert_end, *)
(* list_insert_sorted, list_insert_sorted_asc, list_remove).               *)
THEOREM PointersAreSequence == ServicesSpec => []ListIsSequence
<1>1. ListAssumption
  BY ListAssumption
<1>2. ServicesInit => ListInv
  BY <1>1, ListInvInit DEF ServicesInit
<1>3. ListInv /\ [ServicesNext]_servicesVars => ListInv'
  BY <1>1, ListInvStep
<1>4. ListInv => ListIsSequence
  BY <1>1, LinkedIsSequence
<1> QED
  BY <1>2, <1>3, <1>4, PTL DEF ServicesSpec

-----------------------------------------------------------------------------
(* Pools of blocks.                                                        *)

Shared(b, f, c, l) ==
    /\ b \in Nat /\ f \in Seq(Nat) /\ IsInjective(f) /\ ToSet(f) \cap l = {}
    /\ ToSet(f) \cup l = 0..(b - 1) /\ c = Len(f)
PoolInv ==
    /\ blocks = [p \in Pools |-> blocks[p]] /\ freeStack = [p \in Pools |-> freeStack[p]]
    /\ freeCount = [p \in Pools |-> freeCount[p]] /\ lent = [p \in Pools |-> lent[p]]
    /\ \A p \in Pools : Shared(blocks[p], freeStack[p], freeCount[p], lent[p])

LEMMA OnePool ==
    ASSUME PoolInv, NEW p \in Pools, NEW b, NEW f, NEW c, NEW l, Shared(b, f, c, l),
           blocks' = [blocks EXCEPT ![p] = b], freeStack' = [freeStack EXCEPT ![p] = f],
           freeCount' = [freeCount EXCEPT ![p] = c], lent' = [lent EXCEPT ![p] = l]
    PROVE  PoolInv'
<1>1. /\ blocks = [x \in Pools |-> blocks[x]] /\ freeStack = [x \in Pools |-> freeStack[x]]
      /\ freeCount = [x \in Pools |-> freeCount[x]] /\ lent = [x \in Pools |-> lent[x]]
  BY DEF PoolInv
<1>2. /\ blocks' = [x \in Pools |-> blocks'[x]] /\ freeStack' = [x \in Pools |-> freeStack'[x]]
      /\ freeCount' = [x \in Pools |-> freeCount'[x]] /\ lent' = [x \in Pools |-> lent'[x]]
  BY <1>1
<1>3. ASSUME NEW x \in Pools PROVE Shared(blocks[x], freeStack[x], freeCount[x], lent[x])'
  <2>1. CASE x = p
    <3>1. blocks'[x] = b /\ freeStack'[x] = f /\ freeCount'[x] = c /\ lent'[x] = l
      BY <1>1, <2>1
    <3> QED
      BY <3>1
  <2>2. CASE x # p
    <3>1. /\ blocks'[x] = blocks[x] /\ freeStack'[x] = freeStack[x]
          /\ freeCount'[x] = freeCount[x] /\ lent'[x] = lent[x]
      BY <1>1, <2>2
    <3> QED
      BY <3>1 DEF PoolInv
  <2> QED
    BY <2>1, <2>2
<1> QED
  BY <1>2, <1>3 DEF PoolInv

(* The stack without its top, and with one more on it.                     *)
StackPops(f, g, x) ==
    /\ g \in Seq(Nat) /\ IsInjective(g) /\ Len(g) = Len(f) - 1
    /\ ToSet(g) = ToSet(f) \ {x} /\ x \in ToSet(f) /\ x \in Nat

LEMMA StackPopped ==
    ASSUME NEW f \in Seq(Nat), IsInjective(f), f # << >>,
           NEW g, g = Front(f), NEW x, x = Last(f)
    PROVE  StackPops(f, g, x)
<1>1. PICK n \in Nat \ {0} : n = Len(f)
  BY EmptySeq
<1>2. /\ Front(f) \in Seq(Nat) /\ Len(Front(f)) = n - 1
      /\ \A k \in 1..(n - 1) : Front(f)[k] = f[k]
  <2>1. \A k \in 1..(n - 1) : f[k] \in Nat
    BY <1>1
  <2>2. /\ SubSeq(f, 1, n - 1) \in Seq(Nat)
        /\ Len(SubSeq(f, 1, n - 1)) = IF 1 <= n - 1 THEN n - 1 - 1 + 1 ELSE 0
        /\ \A k \in 1..(n - 1 - 1 + 1) : SubSeq(f, 1, n - 1)[k] = f[1 + k - 1]
    BY <2>1, SubSeqProperties
  <2> QED
    BY <1>1, <2>2 DEF Front
<1>3. DOMAIN f = 1..n /\ DOMAIN Front(f) = 1..(n - 1) /\ Last(f) = f[n]
  BY <1>1, <1>2 DEF Last
<1>4. \A j, k \in 1..n : f[j] = f[k] => j = k
  BY <1>3 DEF IsInjective
<1>5. IsInjective(Front(f))
  BY <1>2, <1>3, <1>4 DEF IsInjective
<1>6. ToSet(Front(f)) = ToSet(f) \ {f[n]}
  BY <1>2, <1>3, <1>4 DEF ToSet
<1>7. f[n] \in ToSet(f) /\ f[n] \in Nat
  BY <1>1, <1>3 DEF ToSet
<1>8. Front(f) \in Seq(Nat) /\ Len(Front(f)) = Len(f) - 1
  BY <1>1, <1>2, Zenon
<1>9. g \in Seq(Nat) /\ Len(g) = Len(f) - 1 /\ IsInjective(g)
  BY <1>5, <1>8, Zenon
<1>10. ToSet(g) = ToSet(f) \ {x} /\ x \in ToSet(f) /\ x \in Nat
  BY <1>3, <1>6, <1>7, Zenon
<1> QED
  BY <1>9, <1>10, Zenon DEF StackPops

LEMMA Pushed ==
    ASSUME NEW f \in Seq(Nat), IsInjective(f), NEW i \in Nat \ ToSet(f)
    PROVE  /\ Append(f, i) \in Seq(Nat) /\ IsInjective(Append(f, i)) /\ Len(Append(f, i)) = Len(f) + 1
           /\ ToSet(Append(f, i)) = ToSet(f) \cup {i}
<1>1. PICK n \in Nat : n = Len(f)
  OBVIOUS
<1>2. DOMAIN f = 1..n /\ \A k \in 1..n : f[k] # i
  BY <1>1 DEF ToSet
<1>3. PICK r \in Seq(Nat) : r = Append(f, i) /\ Len(r) = n + 1
  <2>1. Append(f, i) \in Seq(Nat) /\ Len(Append(f, i)) = n + 1
    BY <1>1
  <2> QED
    BY <2>1, Zenon
<1>4. DOMAIN r = 1..(n + 1) /\ r[n + 1] = i /\ \A k \in 1..n : r[k] = f[k]
  BY <1>1, <1>3
<1>5. IsInjective(r)
  BY <1>2, <1>4 DEF IsInjective
<1>6. ToSet(r) = ToSet(f) \cup {i}
  BY <1>2, <1>4 DEF ToSet
<1> QED
  BY <1>1, <1>3, <1>5, <1>6

LEMMA PoolStepKeeps == ASSUME PoolAssumption, PoolInv, PoolStep PROVE PoolInv'
<1> PICK p \in Pools : \/ PoolAlloc(p) \/ PoolDelete(p)
                       \/ \E n \in BlockCounts : PoolCreate(p, n)
                       \/ \E i \in lent[p] : PoolFree(p, i)
  BY DEF PoolStep
<1>1. Shared(blocks[p], freeStack[p], freeCount[p], lent[p])
  BY DEF PoolInv
<1>2. CASE PoolAlloc(p)
  <2> DEFINE l == lent[p] \cup {Last(freeStack[p])}
  <2>1. /\ blocks' = [blocks EXCEPT ![p] = blocks[p]] /\ freeStack' = [freeStack EXCEPT ![p] = Front(freeStack[p])]
        /\ freeCount' = [freeCount EXCEPT ![p] = freeCount[p] - 1] /\ lent' = [lent EXCEPT ![p] = l]
    BY <1>2 DEF PoolAlloc, PoolInv
  <2>2. Shared(blocks[p], Front(freeStack[p]), freeCount[p] - 1, l)
    <3>1. PICK f \in Seq(Nat) : f = freeStack[p] /\ IsInjective(f) /\ f # << >>
      BY <1>1, <1>2 DEF Shared, PoolAlloc
    <3>2. PICK g, x : g = Front(f) /\ x = Last(f) /\ StackPops(f, g, x)
      BY <3>1, StackPopped, Zenon
    <3>3. Shared(blocks[p], f, freeCount[p], lent[p]) /\ l = lent[p] \cup {x}
      BY <1>1, <3>1, <3>2
    <3> HIDE DEF l
    <3>4. Shared(blocks[p], g, freeCount[p] - 1, l)
      BY <3>2, <3>3 DEF Shared, StackPops
    <3> QED
      BY <3>1, <3>2, <3>4
  <2> HIDE DEF l
  <2> QED
    BY <2>1, <2>2, OnePool
<1>3. CASE PoolDelete(p)
  <2>1. Shared(0, << >>, 0, {})
    <3>1. 0..(0 - 1) = {}
      OBVIOUS
    <3> QED
      BY <3>1 DEF Shared, IsInjective, ToSet
  <2> QED
    BY <1>3, <2>1, OnePool DEF PoolDelete
<1>4. ASSUME NEW n \in BlockCounts, PoolCreate(p, n) PROVE PoolInv'
  <2>1. n \in Nat \ {0}
    BY DEF PoolAssumption
  <2> DEFINE f == [i \in 1..n |-> i - 1]
  <2>2. f \in Seq(Nat) /\ Len(f) = n /\ DOMAIN f = 1..n /\ \A i \in 1..n : f[i] = i - 1
    BY <2>1
  <2>3. freeStack' = [freeStack EXCEPT ![p] = f]
    BY <1>4 DEF PoolCreate
  <2> HIDE DEF f
  <2>4. ToSet(f) = 0..(n - 1)
    <3>1. \A x \in 0..(n - 1) : x + 1 \in 1..n /\ (x + 1) - 1 = x
      BY <2>1
    <3>2. \A i \in 1..n : i - 1 \in 0..(n - 1)
      BY <2>1
    <3>3. ToSet(f) = {f[i] : i \in 1..n}
      BY <2>2 DEF ToSet
    <3>4. ASSUME NEW x \in 0..(n - 1) PROVE x \in {f[i] : i \in 1..n}
      <4>1. x + 1 \in 1..n /\ f[x + 1] = x
        BY <2>2, <3>1
      <4> QED
        BY <4>1, Zenon
    <3>5. ASSUME NEW i \in 1..n PROVE f[i] \in 0..(n - 1)
      BY <2>2, <3>2
    <3> QED
      BY <3>3, <3>4, <3>5, Zenon
  <2>5. IsInjective(f)
    BY <2>1, <2>2 DEF IsInjective
  <2>6. Shared(n, f, n, {})
    BY <2>1, <2>2, <2>4, <2>5 DEF Shared
  <2> QED
    BY <1>4, <2>3, <2>6, OnePool DEF PoolCreate
<1>5. ASSUME NEW i \in lent[p], PoolFree(p, i) PROVE PoolInv'
  <2>1. i \in Nat \ ToSet(freeStack[p])
    BY <1>1 DEF Shared
  <2>2. Shared(blocks[p], Append(freeStack[p], i), freeCount[p] + 1, lent[p] \ {i})
    BY <1>1, <2>1, Pushed DEF Shared
  <2>3. /\ blocks' = [blocks EXCEPT ![p] = blocks[p]] /\ freeStack' = [freeStack EXCEPT ![p] = Append(freeStack[p], i)]
        /\ freeCount' = [freeCount EXCEPT ![p] = freeCount[p] + 1] /\ lent' = [lent EXCEPT ![p] = lent[p] \ {i}]
    BY <1>5 DEF PoolFree, PoolInv
  <2> QED
    BY <2>2, <2>3, OnePool
<1> QED
  BY <1>2, <1>3, <1>4, <1>5

LEMMA PoolInvInit == ASSUME PoolInit PROVE PoolInv
<1>1. 0..(0 - 1) = {}
  OBVIOUS
<1>2. Shared(0, << >>, 0, {})
  BY <1>1 DEF Shared, IsInjective, ToSet
<1> QED
  BY <1>2 DEF PoolInit, PoolInv

(* Of each pool the blocks lent out and those in its stack are all blocks, *)
(* each once, in whatever order blocks come back (mempool_alloc, _free).   *)
THEOREM BlocksLentOnce == ServicesSpec => []BlocksShared
<1>1. PoolAssumption
  BY PoolAssumption
<1>2. ServicesInit => PoolInv
  BY PoolInvInit DEF ServicesInit
<1>3. PoolInv /\ [ServicesNext]_servicesVars => PoolInv'
  <2> SUFFICES ASSUME PoolInv, [ServicesNext]_servicesVars PROVE PoolInv'
    OBVIOUS
  <2>1. UNCHANGED poolVars \/ PoolStep
    BY DEF ServicesNext, servicesVars
  <2>2. CASE UNCHANGED poolVars
    BY <2>2 DEF poolVars, PoolInv
  <2> QED
    BY <1>1, <2>1, <2>2, PoolStepKeeps
<1>4. PoolInv => BlocksShared
  BY DEF PoolInv, Shared, BlocksShared
<1> QED
  BY <1>2, <1>3, <1>4, PTL DEF ServicesSpec

-----------------------------------------------------------------------------
(* Delays measured by the clock.                                           *)

LEMMA QuotientBounds ==
    ASSUME NEW n \in Nat, NEW q \in Nat \ {0}
    PROVE  /\ n \div q \in Nat /\ q * (n \div q) <= n /\ n < q * (n \div q) + q
OBVIOUS

LEMMA OneTickLess ==
    ASSUME NEW a \in Int, NEW q \in Int
    PROVE  (a - 1) * q = a * q - q /\ (a + 1) * q = a * q + q /\ q * a = a * q /\ a * q \in Int
OBVIOUS

LEMMA AtLeastOne ==
    ASSUME NEW a \in Nat \ {0}, NEW q \in Nat
    PROVE  a * q >= q
OBVIOUS

ClockTypeOK ==
    /\ mtime \in Nat /\ mtimecmp \in Nat /\ tickNo \in Nat /\ tickMasked \in BOOLEAN /\ alarmSet \in Nat
    /\ sleeper \in {"idle", "looping", "spinning", "counted", "asleep", "woken", "dozing"}
    /\ until \in Nat /\ wakeTick \in Nat /\ prevWake \in Nat /\ lost \in Nat

(* When the tick that the sleeper waits for last will come if nothing holds it up further. *)
NextTick == IF mtime > mtimecmp THEN mtime ELSE mtimecmp
Ahead == wakeTick - tickNo

InTime ==
    /\ mtimecmp <= mtime + MtimePerTick
    /\ sleeper = "spinning" => until < mtime + 2 * MtimePerTick
    /\ sleeper = "counted" =>
         wakeTick >= 1 /\ mtime + (wakeTick * MtimePerTick) + MtimePerTick <= until + lost
    /\ sleeper = "asleep" =>
         /\ Ahead >= 1
         /\ (IF alarmSet = 0 THEN NextTick ELSE mtime) + (Ahead * MtimePerTick) <= until + lost
    /\ sleeper = "woken" => mtime + MtimePerTick <= until + lost

ClockInv == ClockTypeOK /\ InTime

LEMMA InTimeIsExact == ASSUME ClockAssumption, ClockInv PROVE DelayExact
<1>1. ASSUME sleeper \in {"asleep", "woken"} PROVE mtime + MtimePerTick <= until + lost
  <2>1. CASE sleeper = "woken"
    BY <2>1 DEF ClockInv, InTime
  <2>2. CASE sleeper = "asleep"
    <3>1. Ahead \in Nat \ {0} /\ MtimePerTick \in Nat
      BY <2>2 DEF ClockInv, InTime, ClockTypeOK, Ahead, ClockAssumption
    <3>2. Ahead * MtimePerTick >= MtimePerTick /\ Ahead * MtimePerTick \in Int
      BY <3>1, AtLeastOne, OneTickLess
    <3> QED
      BY <2>2, <3>1, <3>2 DEF ClockInv, InTime, ClockTypeOK, NextTick
  <2> QED
    BY <1>1, <2>1, <2>2
<1> QED
  BY <1>1 DEF DelayExact, ClockInv, InTime, ClockTypeOK, ClockAssumption

LEMMA ClockInvInit == ASSUME ClockAssumption, ClockInit PROVE ClockInv
<1>1. ClockTypeOK
  BY DEF ClockAssumption, ClockInit, ClockTypeOK
<1>2. InTime
  BY DEF ClockAssumption, ClockInit, InTime
<1> QED
  BY <1>1, <1>2 DEF ClockInv

LEMMA ClockSteps == ASSUME ClockAssumption, ClockInv, ClockStep PROVE ClockInv'
<1> USE DEF ClockInv
<1> DEFINE M == MtimePerTick
<1>1. M \in Nat \ {0} /\ DelaySpans \subseteq Nat /\ Increments \subseteq Nat \ {0}
  BY DEF ClockAssumption
<1>2. ASSUME TimePasses PROVE ClockInv'
  <2>1. ClockTypeOK'
    BY <1>2 DEF TimePasses, ClockTypeOK
  <2>2. ASSUME sleeper = "counted" PROVE wakeTick * M \in Int
    BY <1>1, <2>2, OneTickLess DEF ClockTypeOK
  <2>3. ASSUME sleeper = "asleep" PROVE Ahead * M \in Int /\ Ahead \in Int
    BY <1>1, <2>3, OneTickLess DEF ClockTypeOK, Ahead
  <2>4. Ahead' = Ahead
    BY <1>2 DEF TimePasses, Ahead
  <2>5. InTime'
    <3>1. CASE sleeper = "counted"
      BY <1>1, <1>2, <2>2, <3>1 DEF TimePasses, InTime, ClockTypeOK
    <3>2. CASE sleeper = "asleep"
      BY <1>1, <1>2, <2>3, <2>4, <3>2 DEF TimePasses, InTime, ClockTypeOK, NextTick, Ringing
    <3>3. CASE sleeper \notin {"counted", "asleep"}
      BY <1>1, <1>2, <3>3 DEF TimePasses, InTime, ClockTypeOK
    <3> QED
      BY <3>1, <3>2, <3>3
  <2> QED
    BY <2>1, <2>5
<1>3. ASSUME Mask PROVE ClockInv'
  BY <1>3 DEF Mask, ClockTypeOK, InTime, NextTick, Ahead
<1>4. ASSUME SetAlarm PROVE ClockInv'
  <2>1. ClockTypeOK' /\ alarmSet' # 0
    BY <1>1, <1>4 DEF SetAlarm, ClockTypeOK
  <2>2. ASSUME sleeper = "asleep" PROVE Ahead * M \in Int /\ NextTick = mtime
    BY <1>1, <1>4, <2>2, OneTickLess DEF ClockTypeOK, Ahead, SetAlarm, Ringing, NextTick
  <2>3. Ahead' = Ahead
    BY <1>4 DEF SetAlarm, Ahead
  <2>4. InTime'
    <3>1. CASE sleeper = "asleep"
      BY <1>1, <1>4, <2>1, <2>2, <2>3, <3>1 DEF SetAlarm, InTime, ClockTypeOK
    <3>2. CASE sleeper # "asleep"
      BY <1>1, <1>4, <3>2 DEF SetAlarm, InTime, ClockTypeOK
    <3> QED
      BY <3>1, <3>2
  <2> QED
    BY <2>1, <2>4
<1>5. ASSUME CountTick PROVE ClockInv'
  <2>1. ClockTypeOK'
    BY <1>1, <1>5 DEF CountTick, ClockTypeOK
  <2>3. ASSUME sleeper = "asleep", sleeper' = "asleep" PROVE InTime'
    <3>1. Ahead \in Int /\ Ahead' = Ahead - 1 /\ Ahead' >= 1
      BY <1>5, <2>3 DEF CountTick, ClockTypeOK, Ahead
    <3>2. Ahead' * M = Ahead * M - M /\ Ahead * M \in Int
      BY <1>1, <3>1, OneTickLess
    <3>3. mtime + (Ahead * M) <= until + lost
      BY <1>5, <2>3 DEF CountTick, InTime
    <3>4. NextTick' <= mtime + M
      BY <1>1, <1>5 DEF CountTick, InTime, ClockTypeOK, NextTick
    <3>5. NextTick' + (Ahead' * M) <= until' + lost' /\ alarmSet' = 0
      BY <1>1, <1>5, <2>1, <3>2, <3>3, <3>4 DEF CountTick, ClockTypeOK, NextTick
    <3> QED
      BY <1>1, <1>5, <2>3, <3>1, <3>5 DEF CountTick, InTime, ClockTypeOK
  <2>4. ASSUME sleeper = "asleep", sleeper' # "asleep" PROVE InTime'
    <3>1. Ahead = 1 /\ sleeper' = "woken"
      BY <1>5, <2>4 DEF CountTick, ClockTypeOK, InTime, Ahead
    <3>2. mtime + M <= until + lost
      BY <1>1, <1>5, <2>4, <3>1 DEF CountTick, InTime
    <3> QED
      BY <1>1, <1>5, <2>4, <3>1, <3>2 DEF CountTick, InTime, ClockTypeOK
  <2>5. ASSUME sleeper # "asleep" PROVE InTime'
    BY <1>1, <1>5, <2>5 DEF CountTick, InTime, ClockTypeOK
  <2> QED
    BY <2>1, <2>3, <2>4, <2>5
<1>6. ASSUME LoopAgain PROVE ClockInv'
  <2> DEFINE remain == IF until > mtime THEN until - mtime ELSE 0
  <2>1. remain \in Nat /\ (remain # 0 => until = mtime + remain)
    BY DEF ClockTypeOK
  <2>2. PICK n \in Nat : n = Coarse(remain)
    <3>1. remain \div M \in Nat /\ (remain >= 2 * M => remain \div M >= 1)
      BY <1>1, <2>1, QuotientBounds
    <3> QED
      BY <1>1, <2>1, <3>1 DEF Coarse
  <2>3. /\ sleeper' = IF remain = 0 THEN "idle" ELSE IF n = 0 THEN "spinning" ELSE "counted"
        /\ wakeTick' = n /\ until' = (IF remain = 0 THEN 0 ELSE until)
        /\ lost' = 0 /\ UNCHANGED <<hartVars, prevWake>>
    BY <1>6, <2>2 DEF LoopAgain
  <2>4. (n = 0 => remain < 2 * M) /\ (n # 0 => n * M + M <= remain)
    <3>1. PICK q \in Nat : q = remain \div M /\ M * q <= remain /\ remain < M * q + M
      BY <1>1, <2>1, QuotientBounds
    <3>2. CASE remain < 2 * M
      BY <2>2, <3>2 DEF Coarse
    <3>3. CASE ~(remain < 2 * M)
      <4>1. n = q - 1
        BY <2>2, <3>1, <3>3 DEF Coarse
      <4>2. n * M = q * M - M /\ M * q = q * M /\ q * M \in Int
        BY <1>1, <3>1, <4>1, OneTickLess
      <4>3. n = 0 => FALSE \/ remain < 2 * M
        BY <1>1, <3>1, <4>1, <4>2
      <4> QED
        BY <1>1, <2>1, <3>1, <4>2, <4>3
    <3> QED
      BY <3>2, <3>3
  <2> HIDE DEF remain
  <2>5. ClockTypeOK'
    BY <2>1, <2>2, <2>3 DEF ClockTypeOK, hartVars
  <2>6. n * M \in Int
    BY <1>1, <2>2, OneTickLess
  <2>7. InTime'
    BY <1>1, <2>1, <2>2, <2>3, <2>4, <2>6 DEF InTime, ClockTypeOK, hartVars
  <2> QED
    BY <2>5, <2>7
<1>7. ASSUME FallAsleep PROVE ClockInv'
  <2>1. ClockTypeOK'
    BY <1>7 DEF FallAsleep, Runs, ClockTypeOK, hartVars
  <2>2. Ahead' = wakeTick /\ sleeper = "counted" /\ alarmSet = 0 /\ ~Ringing
    BY <1>7 DEF FallAsleep, Runs, ClockTypeOK, Ahead, hartVars
  <2>3. wakeTick * M \in Int
    BY <1>1, OneTickLess DEF ClockTypeOK
  <2>4. NextTick' <= mtime + M
    BY <1>1, <1>7, <2>2 DEF FallAsleep, Ringing, ClockTypeOK, InTime, NextTick, hartVars
  <2>5. InTime'
    BY <1>1, <1>7, <2>1, <2>2, <2>3, <2>4 DEF FallAsleep, InTime, ClockTypeOK, hartVars, NextTick
  <2> QED
    BY <2>1, <2>5
<1>8. ASSUME WakesUp \/ SpinEnds PROVE ClockInv'
  BY <1>1, <1>8 DEF WakesUp, SpinEnds, Runs, ClockTypeOK, InTime, hartVars
<1>9. ASSUME NEW d \in DelaySpans, DelayUs(d) PROVE ClockInv'
  BY <1>1, <1>9 DEF DelayUs, Runs, ClockTypeOK, InTime, hartVars
<1>10. ASSUME NEW d \in DelaySpans, DelayMs(d) PROVE ClockInv'
  <2>1. CASE DelayUs(d)
    BY <1>9, <2>1
  <2>2. CASE ~DelayUs(d)
    <3>1. (2 * d + M) \div (2 * M) \in Nat
      BY <1>1, QuotientBounds
    <3>2. \E n \in Nat : Runs("idle") /\ Doze(tickNo + n) /\ UNCHANGED <<hartVars, until, prevWake, lost>>
      BY <1>10, <2>2, <3>1 DEF DelayMs
    <3> QED
      BY <1>1, <3>2 DEF Runs, Doze, ClockTypeOK, InTime, hartVars
  <2> QED
    BY <2>1, <2>2
<1>11. ASSUME NEW n \in Increments, DelayUntilNext(n) PROVE ClockInv'
  BY <1>1, <1>11 DEF DelayUntilNext, Doze, Runs, ClockTypeOK, InTime, hartVars
<1> QED
  BY <1>2, <1>3, <1>4, <1>5, <1>6, <1>7, <1>8, <1>9, <1>10, <1>11 DEF ClockStep

(* For every tick length and every delay, a delay in microseconds never    *)
(* sleeps past its end unless it was held up for longer than the tick it   *)
(* keeps back, it spins for less than two ticks, and the next clock        *)
(* interrupt is never further off than a tick (cgrtos_delay_us, the clock  *)
(* interrupt and the idle sleep).                                          *)
THEOREM DelaysEndInTime == ServicesSpec => []DelayExact
<1>1. ClockAssumption
  BY ClockAssumption
<1>2. ServicesInit => ClockInv
  BY <1>1, ClockInvInit DEF ServicesInit
<1>3. ClockInv /\ [ServicesNext]_servicesVars => ClockInv'
  <2> SUFFICES ASSUME ClockInv, [ServicesNext]_servicesVars PROVE ClockInv'
    OBVIOUS
  <2>1. UNCHANGED clockVars \/ ClockStep
    BY DEF ServicesNext, servicesVars
  <2>2. CASE UNCHANGED clockVars
    BY <2>2 DEF clockVars, hartVars, ClockInv, ClockTypeOK, InTime, NextTick, Ahead
  <2> QED
    BY <1>1, <2>1, <2>2, ClockSteps
<1>4. ClockInv => DelayExact
  BY <1>1, InTimeIsExact
<1> QED
  BY <1>2, <1>3, <1>4, PTL DEF ServicesSpec

-----------------------------------------------------------------------------
(* The registry of devices.  d is the first of ds in class k.              *)
FirstOfClass(ds, k, d) ==
    \E j \in 1..Len(ds) : ds[j] = d /\ DevClass[d] = k /\ \A i \in 1..(j - 1) : DevClass[ds[i]] # k

Statuses == {"OK", "STATE", "NODEV", "IO"}
Tables == [devs : Seq(Devs), byClass : [DevClasses -> Devs \cup {NoDev}],
           reg : SUBSET Devs, ready : SUBSET Devs, st : Statuses]

TableOK(tab) ==
    /\ tab \in Tables
    /\ \A i, j \in 1..Len(tab.devs) : SameName(tab.devs[i], tab.devs[j]) => i = j
    /\ tab.reg = ToSet(tab.devs) /\ tab.ready \subseteq tab.reg
    /\ \A i \in 1..Len(tab.devs) : tab.byClass[DevClass[tab.devs[i]]] # NoDev
    /\ \A k \in DevClasses : tab.byClass[k] # NoDev => FirstOfClass(tab.devs, k, tab.byClass[k])

(* What a step of the start may do to the table.                           *)
TableGrown(tab, new) ==
    /\ \A k \in DevClasses : tab.byClass[k] # NoDev => new.byClass[k] = tab.byClass[k]
    /\ tab.ready \subseteq new.ready /\ (new.st = "OK" => tab.st = "OK")

LEMMA TableGrownTwice ==
    ASSUME NEW a, NEW b, NEW c, TableGrown(a, b), TableGrown(b, c) PROVE TableGrown(a, c)
BY DEF TableGrown

LEMMA FindIs ==
    ASSUME DeviceAssumption, NEW tab, TableOK(tab), NEW k \in DevClasses
    PROVE  FindIn(tab, k) = tab.byClass[k]
<1> DEFINE I == {i \in 1..Len(tab.devs) : DevClass[tab.devs[i]] = k}
           firstAt == IF I # {} THEN Min(I) ELSE 0
<1>1. FindIn(tab, k) = IF tab.byClass[k] # NoDev THEN tab.byClass[k]
                       ELSE IF firstAt = 0 THEN NoDev ELSE tab.devs[firstAt]
  BY DEF FindIn, SelectInSeq
<1>2. I \in SUBSET (Nat \ {0})
  OBVIOUS
<1>3. tab.byClass[k] = NoDev => I = {}
  BY DEF TableOK
<1> HIDE DEF I
<1>4. (firstAt = 0 <=> I = {})
  BY <1>2, FoundFirst
<1> QED
  BY <1>1, <1>3, <1>4

LEMMA FailingKeeps ==
    ASSUME NEW tab, TableOK(tab), NEW st \in Statuses, st # "OK"
    PROVE  TableOK(Failing(tab, st)) /\ TableGrown(tab, Failing(tab, st)) /\ Failing(tab, st).st # "OK"
<1> DEFINE new == Failing(tab, st)
<1>1. tab \in Tables
  BY DEF TableOK
<1>2. /\ new \in Tables /\ new.devs = tab.devs /\ new.byClass = tab.byClass /\ new.reg = tab.reg
      /\ new.ready = tab.ready /\ new.st = IF tab.st = "OK" THEN st ELSE tab.st
  BY <1>1 DEF Failing, Tables
<1> HIDE DEF new
<1>3. TableOK(new)
  BY <1>2, Zenon DEF TableOK
<1>4. TableGrown(tab, new) /\ new.st # "OK"
  BY <1>2 DEF TableGrown
<1> QED
  BY <1>3, <1>4 DEF new

(* A board gives devices of two classes two names: otherwise a start may   *)
(* report success without the second, which counted as registered.         *)
NamesTellClass == \A d, e \in Devs : SameName(d, e) => DevClass[d] = DevClass[e]

LEMMA RegisteredKeeps ==
    ASSUME DeviceAssumption, NamesTellClass, NEW tab, TableOK(tab), NEW d \in Devs
    PROVE  LET new == Registered(tab, d) IN
           /\ TableOK(new) /\ TableGrown(tab, new) /\ new.ready = tab.ready
           /\ new.st = "OK" => new.byClass[DevClass[d]] # NoDev
           /\ frozen => new.devs = tab.devs /\ new.byClass = tab.byClass
<1> DEFINE I == {i \in 1..Len(tab.devs) : SameName(d, tab.devs[i])}
           twin == IF I # {} THEN Min(I) ELSE 0
           new == Registered(tab, d)
           of == DevClass[d]
           Goal == /\ TableOK(new) /\ TableGrown(tab, new) /\ new.ready = tab.ready
                   /\ new.st = "OK" => new.byClass[DevClass[d]] # NoDev
                   /\ frozen => new.devs = tab.devs /\ new.byClass = tab.byClass
<1>1. new =
         CASE frozen -> Failing(tab, "STATE")
           [] ~frozen /\ twin # 0 -> [tab EXCEPT !.byClass = Cached(@, tab.devs[twin])]
           [] ~frozen /\ twin = 0 /\ Len(tab.devs) >= MaxDevs -> Failing(tab, "STATE")
           [] OTHER -> [tab EXCEPT !.devs = Append(@, d), !.reg = @ \cup {d}, !.byClass = Cached(@, d)]
  BY DEF Registered, SelectInSeq
<1>2. I \in SUBSET (Nat \ {0})
  OBVIOUS
<1>3. /\ tab \in Tables /\ Len(tab.devs) \in Nat /\ tab.devs \in Seq(Devs) /\ DevClass[d] \in DevClasses
      /\ tab.byClass \in [DevClasses -> Devs \cup {NoDev}]
      /\ \A i \in 1..Len(tab.devs) : tab.devs[i] \in Devs /\ DevClass[tab.devs[i]] \in DevClasses
  BY DEF TableOK, Tables, DeviceAssumption
<1>4. (twin = 0 <=> I = {}) /\ (twin # 0 => twin \in I)
  <2> HIDE DEF I
  <2> QED
    BY <1>2, FoundFirst
<1> HIDE DEF twin
<1>5. CASE frozen \/ (twin = 0 /\ Len(tab.devs) >= MaxDevs)
  <2>1. new = Failing(tab, "STATE")
    BY <1>1, <1>5
  <2>2. new.devs = tab.devs /\ new.byClass = tab.byClass /\ new.ready = tab.ready
    BY <1>3, <2>1 DEF Failing, Tables
  <2> HIDE DEF new
  <2>3. "STATE" \in Statuses /\ "STATE" # "OK"
    BY DEF Statuses
  <2>4. TableOK(new) /\ TableGrown(tab, new) /\ new.st # "OK"
    BY <2>1, <2>3, FailingKeeps
  <2> QED
    BY <2>2, <2>4 DEF new
<1>6. CASE ~frozen /\ twin # 0
  <2>1. /\ twin \in 1..Len(tab.devs) /\ SameName(d, tab.devs[twin])
        /\ DevClass[tab.devs[twin]] = of
    BY <1>3, <1>4, <1>6 DEF NamesTellClass
  <2>2. tab.byClass[of] # NoDev
    BY <2>1 DEF TableOK
  <2>3. new = [tab EXCEPT !.byClass = tab.byClass]
    BY <1>1, <1>6, <2>1, <2>2 DEF Cached
  <2>4. new = tab
    BY <1>3, <2>3 DEF Tables
  <2> QED
    BY <1>6, <2>2, <2>4 DEF TableGrown
<1>7. CASE ~frozen /\ twin = 0 /\ ~(Len(tab.devs) >= MaxDevs)
  <2> DEFINE n == Len(tab.devs)
             ds == Append(tab.devs, d)
             by == Cached(tab.byClass, d)
  <2>1. new = [tab EXCEPT !.devs = ds, !.reg = tab.reg \cup {d}, !.byClass = by]
    BY <1>1, <1>7
  <2>2. /\ ds \in Seq(Devs) /\ Len(ds) = n + 1 /\ ds[n + 1] = d
        /\ \A i \in 1..n : ds[i] = tab.devs[i]
    BY <1>3
  <2>3. /\ by \in [DevClasses -> Devs \cup {NoDev}] /\ by[of] # NoDev
        /\ \A k \in DevClasses : by[k] = IF k = of /\ tab.byClass[of] = NoDev THEN d ELSE tab.byClass[k]
    BY <1>3 DEF Cached, DeviceAssumption
  <2> HIDE DEF ds, by
  <2>4. /\ new \in Tables /\ new.devs = ds /\ new.byClass = by /\ new.reg = tab.reg \cup {d}
        /\ new.ready = tab.ready /\ new.st = tab.st
    <3>1. tab.reg \cup {d} \in SUBSET Devs /\ tab.ready \in SUBSET Devs /\ tab.st \in Statuses
      BY <1>3 DEF Tables
    <3>2. new = [devs |-> ds, byClass |-> by, reg |-> tab.reg \cup {d}, ready |-> tab.ready, st |-> tab.st]
      BY <1>3, <2>1 DEF Tables
    <3> HIDE DEF new
    <3>3. new \in Tables
      BY <2>2, <2>3, <3>1, <3>2 DEF Tables
    <3> QED
      BY <3>2, <3>3
  <2> HIDE DEF new
  <2>5. \A i, j \in 1..Len(ds) : SameName(ds[i], ds[j]) => i = j
    <3>1. \A i \in 1..n : ~SameName(d, ds[i]) /\ ~SameName(ds[i], d)
      BY <1>4, <1>7, <2>2 DEF SameName
    <3>2. \A i, j \in 1..n : SameName(ds[i], ds[j]) => i = j
      BY <2>2 DEF TableOK
    <3>3. \A i \in 1..Len(ds) : i \in 1..n \/ (i = n + 1 /\ ds[i] = d)
      BY <1>3, <2>2
    <3> QED
      BY <3>1, <3>2, <3>3
  <2>6. ToSet(ds) = ToSet(tab.devs) \cup {d}
    <3>1. DOMAIN ds = 1..(n + 1) /\ DOMAIN tab.devs = 1..n
      BY <1>3, <2>2
    <3>2. \A i \in 1..(n + 1) : i \in 1..n \/ (i = n + 1 /\ ds[i] = d)
      BY <1>3, <2>2
    <3>3. n + 1 \in 1..(n + 1) /\ \A i \in 1..n : i \in 1..(n + 1)
      BY <1>3
    <3> QED
      BY <2>2, <3>1, <3>2, <3>3 DEF ToSet
  <2>7. \A i \in 1..Len(ds) : by[DevClass[ds[i]]] # NoDev
    <3>1. ASSUME NEW i \in 1..n PROVE by[DevClass[ds[i]]] # NoDev
      <4>1. tab.byClass[DevClass[ds[i]]] # NoDev /\ DevClass[ds[i]] \in DevClasses
        BY <1>3, <2>2 DEF TableOK
      <4> QED
        BY <2>3, <4>1
    <3> QED
      BY <1>3, <2>2, <2>3, <3>1
  <2>8. ASSUME NEW k \in DevClasses, by[k] # NoDev PROVE FirstOfClass(ds, k, by[k])
    <3>1. CASE k = of /\ tab.byClass[of] = NoDev
      <4>1. \A i \in 1..n : DevClass[ds[i]] # k
        BY <1>3, <2>2, <3>1 DEF TableOK
      <4>2. by[k] = d /\ n + 1 \in 1..Len(ds) /\ (n + 1) - 1 = n
        BY <1>3, <2>2, <2>3, <3>1
      <4> QED
        BY <2>2, <3>1, <4>1, <4>2 DEF FirstOfClass
    <3>2. CASE ~(k = of /\ tab.byClass[of] = NoDev)
      <4>1. by[k] = tab.byClass[k]
        BY <2>3, <3>2
      <4>2. FirstOfClass(tab.devs, k, by[k])
        BY <2>8, <4>1 DEF TableOK
      <4>3. PICK j \in 1..n : tab.devs[j] = by[k] /\ DevClass[by[k]] = k /\ \A i \in 1..(j - 1) : DevClass[tab.devs[i]] # k
        BY <4>2 DEF FirstOfClass
      <4>4. j \in 1..Len(ds) /\ \A i \in 1..(j - 1) : i \in 1..n
        BY <1>3, <2>2, <4>3
      <4> QED
        BY <2>2, <4>3, <4>4 DEF FirstOfClass
    <3> QED
      BY <3>1, <3>2
  <2>9. TableOK(new)
    <3>1. new.reg = ToSet(new.devs) /\ new.ready \subseteq new.reg
      BY <2>4, <2>6 DEF TableOK
    <3> QED
      BY <2>4, <2>5, <2>7, <2>8, <3>1 DEF TableOK
  <2>10. TableGrown(tab, new)
    BY <2>3, <2>4 DEF TableGrown
  <2> QED
    BY <1>7, <2>3, <2>4, <2>9, <2>10 DEF new
<1> QED
  BY <1>5, <1>6, <1>7

(* What a driver's initialisation leaves is what it found, but for the     *)
(* device that is ready now.                                               *)
LEMMA InitialisedKeeps ==
    ASSUME DeviceAssumption, NEW tab, TableOK(tab), NEW k \in DevClasses, NEW worked
    PROVE  LET new == Initialised(tab, k, worked) IN
           /\ TableOK(new) /\ TableGrown(tab, new) /\ new.devs = tab.devs /\ new.byClass = tab.byClass
           /\ new.st = "OK" => new.byClass[k] # NoDev /\ new.byClass[k] \in new.ready
<1> DEFINE new == Initialised(tab, k, worked)
           d == tab.byClass[k]
<1>1. new = CASE d = NoDev -> Failing(tab, "NODEV")
              [] d # NoDev /\ ~worked -> Failing(tab, "IO")
              [] OTHER -> [tab EXCEPT !.ready = @ \cup {d}, !.byClass = Cached(@, d)]
  BY FindIs DEF Initialised
<1>2. tab \in Tables /\ tab.byClass \in [DevClasses -> Devs \cup {NoDev}]
  BY DEF TableOK, Tables
<1>3. CASE d = NoDev \/ ~worked
  <2>1. PICK st \in Statuses : st # "OK" /\ new = Failing(tab, st)
    <3>1. \A st \in {"NODEV", "IO"} : st \in Statuses /\ st # "OK"
      BY DEF Statuses
    <3>2. new \in {Failing(tab, "NODEV"), Failing(tab, "IO")}
      BY <1>1, <1>3
    <3> QED
      BY <3>1, <3>2
  <2>2. new.devs = tab.devs /\ new.byClass = tab.byClass
    BY <1>2, <2>1 DEF Failing, Tables
  <2> HIDE DEF new
  <2>3. TableOK(new) /\ TableGrown(tab, new) /\ new.st # "OK"
    BY <2>1, FailingKeeps
  <2> QED
    BY <2>2, <2>3 DEF new
<1>4. CASE d # NoDev /\ worked
  <2>1. FirstOfClass(tab.devs, k, d)
    BY <1>4 DEF TableOK
  <2>2. d \in ToSet(tab.devs) /\ DevClass[d] = k
    BY <2>1 DEF FirstOfClass, ToSet
  <2>3. new = [tab EXCEPT !.ready = tab.ready \cup {d}, !.byClass = tab.byClass]
    BY <1>1, <1>4, <2>2 DEF Cached
  <2>4. /\ new \in Tables /\ new.devs = tab.devs /\ new.byClass = tab.byClass /\ new.reg = tab.reg
        /\ new.ready = tab.ready \cup {d} /\ new.st = tab.st
    <3>1. tab.reg \in SUBSET Devs /\ tab.ready \cup {d} \in SUBSET Devs /\ tab.st \in Statuses
      BY <1>2, <1>4 DEF Tables
    <3>2. new = [devs |-> tab.devs, byClass |-> tab.byClass, reg |-> tab.reg,
                 ready |-> tab.ready \cup {d}, st |-> tab.st]
      BY <1>2, <2>3 DEF Tables
    <3> HIDE DEF new
    <3>3. tab.devs \in Seq(Devs)
      BY <1>2 DEF Tables
    <3>4. new \in Tables
      BY <1>2, <3>1, <3>2, <3>3 DEF Tables
    <3> QED
      BY <3>2, <3>4
  <2> HIDE DEF new
  <2>5. TableOK(new)
    <3>1. new.ready \subseteq new.reg
      BY <2>2, <2>4 DEF TableOK
    <3> QED
      BY <2>4, <3>1 DEF TableOK
  <2>6. TableGrown(tab, new) /\ new.byClass[k] # NoDev /\ new.byClass[k] \in new.ready
    BY <1>4, <2>4 DEF TableGrown
  <2> QED
    BY <2>4, <2>5, <2>6 DEF new
<1> QED
  BY <1>3, <1>4

(* The table as the descriptors of the board are registered one by one.    *)
ListedAt(f, i) == IF i = 0 THEN Table ELSE Registered(f[i - 1], BoardDevs[i])
IsListing(f, n) == f = [i \in 0..n |-> ListedAt(f, i)]

LEMMA ListingExists == ASSUME NEW n \in Nat PROVE \E f : IsListing(f, n)
<1> DEFINE Failed == {m \in Nat : ~\E f : IsListing(f, m)}
<1>1. Failed = {}
  <2> SUFFICES ASSUME Failed # {} PROVE FALSE
    OBVIOUS
  <2>1. Failed \in SUBSET Nat
    OBVIOUS
  <2>2. PICK m \in Failed : \A k \in Failed : m <= k
    BY <2>1, LeastNat
  <2>3. m \in Nat /\ ~\E f : IsListing(f, m)
    BY <2>1
  <2>4. CASE m = 0
    <3> DEFINE g == [i \in 0..0 |-> Table]
    <3>1. g = [i \in 0..0 |-> ListedAt(g, i)]
      BY DEF ListedAt
    <3> HIDE DEF g
    <3>2. IsListing(g, 0)
      BY <3>1 DEF IsListing
    <3> QED
      BY <2>3, <2>4, <3>2
  <2>5. CASE m # 0
    <3>1. m - 1 \in Nat /\ ~(m <= m - 1)
      BY <2>3, <2>5
    <3>2. m - 1 \notin Failed
      BY <2>2, <3>1
    <3>3. PICK f : IsListing(f, m - 1)
      BY <3>1, <3>2
    <3> DEFINE g == [i \in 0..m |-> IF i = m THEN Registered(f[m - 1], BoardDevs[m]) ELSE f[i]]
    <3>4. ASSUME NEW i \in 0..m PROVE g[i] = ListedAt(g, i)
      <4>1. CASE i = m
        <5>1. g[m - 1] = f[m - 1]
          BY <2>3, <2>5
        <5> QED
          BY <2>5, <4>1, <5>1 DEF ListedAt
      <4>2. CASE i # m
        <5>1. i \in 0..(m - 1) /\ (i # 0 => i - 1 \in 0..(m - 1))
          BY <2>3, <4>2
        <5>2. g[i] = f[i] /\ (i # 0 => g[i - 1] = f[i - 1])
          BY <2>3, <5>1
        <5> HIDE DEF g
        <5>3. f[i] = ListedAt(f, i)
          BY <3>3, <5>1 DEF IsListing
        <5> QED
          BY <5>2, <5>3 DEF ListedAt
      <4> QED
        BY <4>1, <4>2
    <3>5. g = [i \in 0..m |-> ListedAt(g, i)]
      BY <3>4
    <3> HIDE DEF g
    <3>6. IsListing(g, m)
      BY <3>5 DEF IsListing
    <3> QED
      BY <2>3, <3>6
  <2> QED
    BY <2>4, <2>5
<1> QED
  BY <1>1

(* what the first i descriptors have come to                               *)
ListedOK(tab, i) ==
    /\ TableOK(tab) /\ tab.ready = ready
    /\ tab.st = "OK" => \A j \in 1..i : tab.byClass[DevClass[BoardDevs[j]]] # NoDev

LEMMA ListingOK ==
    ASSUME DeviceAssumption, NamesTellClass, TableOK(Table), NEW f, IsListing(f, Len(BoardDevs)),
           NEW i \in 0..Len(BoardDevs)
    PROVE  ListedOK(f[i], i)
<1> DEFINE n == Len(BoardDevs)
           Failed == {m \in 0..n : ~ListedOK(f[m], m)}
<1>1. n \in Nat /\ \A m \in 1..n : BoardDevs[m] \in Devs
  BY DEF DeviceAssumption
<1> HIDE DEF n
<1>2. Failed = {}
  <2> SUFFICES ASSUME Failed # {} PROVE FALSE
    OBVIOUS
  <2>1. Failed \in SUBSET Nat
    BY <1>1
  <2>2. PICK m \in Failed : \A k \in Failed : m <= k
    BY <2>1, LeastNat
  <2>3. m \in 0..n /\ ~ListedOK(f[m], m)
    BY <2>1
  <2>4. f[m] = ListedAt(f, m)
    BY <2>3 DEF IsListing, n
  <2>5. CASE m = 0
    <3>1. f[m] = Table
      BY <2>4, <2>5 DEF ListedAt
    <3>2. Table.ready = ready /\ \A j \in 1..m : FALSE
      BY <2>5 DEF Table
    <3> QED
      BY <2>3, <3>1, <3>2 DEF ListedOK
  <2>6. CASE m # 0
    <3>1. m - 1 \in 0..n /\ ~(m <= m - 1) /\ m \in 1..n
      BY <1>1, <2>3, <2>6
    <3>2. ListedOK(f[m - 1], m - 1)
      BY <2>2, <3>1
    <3> DEFINE tab == f[m - 1]
               new == Registered(tab, BoardDevs[m])
    <3>3. f[m] = new
      BY <2>4, <2>6 DEF ListedAt
    <3>4. BoardDevs[m] \in Devs /\ TableOK(tab)
      BY <1>1, <3>1, <3>2 DEF ListedOK
    <3> HIDE DEF tab
    <3>5. /\ TableOK(new) /\ TableGrown(tab, new) /\ new.ready = tab.ready
          /\ new.st = "OK" => new.byClass[DevClass[BoardDevs[m]]] # NoDev
      BY <3>4, RegisteredKeeps
    <3> HIDE DEF new
    <3>6. ASSUME new.st = "OK", NEW j \in 1..m PROVE new.byClass[DevClass[BoardDevs[j]]] # NoDev
      <4>1. CASE j = m
        BY <3>5, <3>6, <4>1
      <4>2. CASE j # m
        <5>1. j \in 1..(m - 1) /\ j \in 1..n
          BY <1>1, <2>3, <4>2
        <5>2. tab.byClass[DevClass[BoardDevs[j]]] # NoDev
          BY <3>2, <3>5, <3>6, <5>1 DEF ListedOK, TableGrown, tab
        <5>3. DevClass[BoardDevs[j]] \in DevClasses
          BY <1>1, <5>1 DEF DeviceAssumption
        <5> QED
          BY <3>5, <5>2, <5>3 DEF TableGrown
      <4> QED
        BY <4>1, <4>2
    <3>7. new.ready = ready
      BY <3>2, <3>5 DEF ListedOK, tab
    <3> QED
      BY <2>3, <3>3, <3>5, <3>6, <3>7 DEF ListedOK
  <2> QED
    BY <2>5, <2>6
<1>3. i \in 0..n
  BY DEF n
<1> QED
  BY <1>2, <1>3

-----------------------------------------------------------------------------
DevInv ==
    /\ TableOK(Table) /\ (~frozen => ready = {} /\ bootResult = "none")
    /\ bootResult = "OK" => \A j \in 1..Len(BoardDevs) : byClass[DevClass[BoardDevs[j]]] \in ready

LEMMA DevInvFinds == ASSUME DeviceAssumption, DevInv PROVE DevicesFound
<1>1. \A k \in DevClasses : FindDevice(k) = byClass[k]
  BY FindIs DEF FindDevice, DevInv, Table
<1>2. /\ devs \in Seq(Devs) /\ DOMAIN devs = 1..Len(devs)
      /\ \A i, j \in 1..Len(devs) : SameName(devs[i], devs[j]) => i = j
      /\ regFlag = ToSet(devs) /\ ready \subseteq regFlag
      /\ \A i \in 1..Len(devs) : byClass[DevClass[devs[i]]] # NoDev
      /\ \A k \in DevClasses : byClass[k] # NoDev => FirstOfClass(devs, k, byClass[k])
  BY DEF DevInv, TableOK, Table, Tables
<1>3. ASSUME NEW k \in DevClasses, NEW i \in 1..Len(devs), DevClass[devs[i]] = k
      PROVE  \E j \in 1..i : FindDevice(k) = devs[j] /\ DevClass[devs[j]] = k
  <2>1. FirstOfClass(devs, k, byClass[k])
    BY <1>2, <1>3
  <2>2. PICK j \in 1..Len(devs) : devs[j] = byClass[k] /\ DevClass[byClass[k]] = k
                                 /\ \A a \in 1..(j - 1) : DevClass[devs[a]] # k
    BY <2>1 DEF FirstOfClass
  <2>3. j <= i
    <3>1. i \notin 1..(j - 1) /\ i \in Nat /\ j \in Nat /\ i >= 1
      BY <1>2, <1>3, <2>2
    <3> QED
      BY <3>1
  <2> QED
    BY <1>1, <1>2, <2>2, <2>3
<1>4. ASSUME bootResult = "OK", NEW d \in ToSet(BoardDevs) PROVE FindDevice(DevClass[d]) \in ready
  <2>1. PICK j \in 1..Len(BoardDevs) : d = BoardDevs[j]
    BY DEF ToSet, DeviceAssumption
  <2>2. DevClass[d] \in DevClasses
    BY <2>1 DEF DeviceAssumption
  <2> QED
    BY <1>1, <1>4, <2>1, <2>2 DEF DevInv
<1> QED
  BY <1>2, <1>3, <1>4 DEF DevicesFound

LEMMA DevInvInit == ASSUME DeviceAssumption, DeviceInit PROVE DevInv
<1>1. Table = [devs |-> << >>, byClass |-> [k \in DevClasses |-> NoDev], reg |-> {}, ready |-> {}, st |-> "OK"]
  BY DEF DeviceInit, Table
<1>2. Table \in Tables
  BY <1>1 DEF Tables, Statuses
<1>3. TableOK(Table)
  BY <1>1, <1>2 DEF TableOK, ToSet
<1> QED
  BY <1>3 DEF DevInv, DeviceInit

(* A table that a step has made the current one.                           *)
LEMMA BecomesOK ==
    ASSUME NEW tab, TableOK(tab), Becomes(tab)
    PROVE  TableOK(Table')
<1>1. tab \in Tables
  BY DEF TableOK
<1>2. Table' = [devs |-> tab.devs, byClass |-> tab.byClass, reg |-> tab.reg, ready |-> tab.ready, st |-> "OK"]
  BY DEF Table, Becomes
<1>3. Table' \in Tables
  BY <1>1, <1>2 DEF Tables, Statuses
<1>4. /\ Table'.devs = tab.devs /\ Table'.byClass = tab.byClass /\ Table'.reg = tab.reg
      /\ Table'.ready = tab.ready
  BY <1>2
<1> QED
  BY <1>3, <1>4, Zenon DEF TableOK

LEMMA RegisterKeeps ==
    ASSUME DeviceAssumption, NamesTellClass, DevInv, NEW d \in Devs, Register(d)
    PROVE  DevInv' /\ ready' = ready
<1> DEFINE new == Registered(Table, d)
<1>1. /\ TableOK(new) /\ TableGrown(Table, new) /\ new.ready = Table.ready
      /\ frozen => new.devs = Table.devs /\ new.byClass = Table.byClass
  BY RegisteredKeeps DEF DevInv
<1>2. /\ devs' = new.devs /\ byClass' = new.byClass /\ regFlag' = new.reg /\ ready' = new.ready
      /\ UNCHANGED <<frozen, bootResult>>
  BY DEF Register, Becomes
<1> HIDE DEF new
<1>3. ready' = ready
  BY <1>1, <1>2 DEF Table
<1>4. TableOK(Table')
  <2>1. Becomes(new)
    BY <1>2 DEF Becomes
  <2> QED
    BY <1>1, <2>1, BecomesOK
<1>5. bootResult = "OK" => byClass' = byClass
  BY <1>1, <1>2 DEF DevInv, Table
<1> QED
  BY <1>2, <1>3, <1>4, <1>5 DEF DevInv

LEMMA BoardInitKeeps ==
    ASSUME DeviceAssumption, NamesTellClass, DevInv, NEW worked, BoardInit(worked)
    PROVE  DevInv'
<1> DEFINE n == Len(BoardDevs)
           listed[i \in 0..n] == IF i = 0 THEN Table ELSE Registered(listed[i - 1], BoardDevs[i])
           a == listed[n]
           b == CpuInit(a, worked["CPU"])
           c == ConsoleInit(b, worked["CONSOLE"])
           d == IrqcInit(c, worked["IRQC"])
           e == TimerInit(d, worked["TIMER"])
           z == IpiInit(e, worked["IPI"])
<1>1. n \in Nat /\ \A j \in 1..n : DevClass[BoardDevs[j]] \in DevClasses
  BY DEF DeviceAssumption
<1>2. Becomes(z) /\ bootResult' = z.st /\ frozen' = TRUE
  BY DEF BoardInit
<1>3. IsListing(listed, n)
  <2>1. \E f : f = [i \in 0..n |-> IF i = 0 THEN Table ELSE Registered(f[i - 1], BoardDevs[i])]
    <3> HIDE DEF n
    <3>1. PICK f : IsListing(f, n)
      BY <1>1, ListingExists
    <3> QED
      BY <3>1, Zenon DEF IsListing, ListedAt
  <2>2. listed = [i \in 0..n |-> IF i = 0 THEN Table ELSE Registered(listed[i - 1], BoardDevs[i])]
    BY <2>1, Zenon
  <2> HIDE DEF listed
  <2> QED
    BY <2>2, Zenon DEF IsListing, ListedAt
<1> HIDE DEF listed
<1>4. ListedOK(a, n)
  BY <1>1, <1>3, ListingOK DEF DevInv
<1> HIDE DEF n, a
<1>5. /\ TableOK(b) /\ TableGrown(a, b) /\ b.byClass = a.byClass
      /\ b.st = "OK" => b.byClass["CPU"] \in b.ready
  BY <1>4, InitialisedKeeps DEF ListedOK, CpuInit, DevClasses
<1> HIDE DEF b
<1>6. /\ TableOK(c) /\ TableGrown(b, c) /\ c.byClass = a.byClass
      /\ c.st = "OK" => c.byClass["CONSOLE"] \in c.ready
  BY <1>5, InitialisedKeeps DEF ConsoleInit, DevClasses
<1> HIDE DEF c
<1>7. /\ TableOK(d) /\ TableGrown(c, d) /\ d.byClass = a.byClass
      /\ d.st = "OK" => d.byClass["IRQC"] \in d.ready
  BY <1>6, InitialisedKeeps DEF IrqcInit, DevClasses
<1> HIDE DEF d
<1>8. /\ TableOK(e) /\ TableGrown(d, e) /\ e.byClass = a.byClass
      /\ e.st = "OK" => e.byClass["TIMER"] \in e.ready
  BY <1>7, InitialisedKeeps DEF TimerInit, DevClasses
<1> HIDE DEF e
<1>9. /\ TableOK(z) /\ TableGrown(e, z) /\ z.byClass = a.byClass
      /\ z.st = "OK" /\ a.byClass["IPI"] # NoDev => z.byClass["IPI"] \in z.ready
  <2>1. FindIn(e, "IPI") = a.byClass["IPI"]
    BY <1>8, FindIs DEF DevClasses
  <2>2. CASE a.byClass["IPI"] = NoDev
    <3>1. z = e
      BY <2>1, <2>2 DEF IpiInit
    <3> QED
      BY <1>8, <2>2, <3>1 DEF TableGrown
  <2>3. CASE a.byClass["IPI"] # NoDev
    <3>1. z = Initialised(e, "IPI", worked["IPI"])
      BY <2>1, <2>3 DEF IpiInit
    <3> HIDE DEF z
    <3> QED
      BY <1>8, <3>1, InitialisedKeeps DEF DevClasses
  <2> QED
    BY <2>2, <2>3
<1> HIDE DEF z
<1>10. ASSUME z.st = "OK", NEW j \in 1..n PROVE z.byClass[DevClass[BoardDevs[j]]] \in z.ready
  <2>1. b.st = "OK" /\ c.st = "OK" /\ d.st = "OK" /\ e.st = "OK" /\ a.st = "OK"
    BY <1>5, <1>6, <1>7, <1>8, <1>9, <1>10 DEF TableGrown
  <2>2. b.ready \subseteq z.ready /\ c.ready \subseteq z.ready /\ d.ready \subseteq z.ready /\ e.ready \subseteq z.ready
    BY <1>6, <1>7, <1>8, <1>9 DEF TableGrown
  <2>3. a.byClass[DevClass[BoardDevs[j]]] # NoDev
    BY <1>4, <2>1 DEF ListedOK
  <2>4. DevClass[BoardDevs[j]] \in {"CPU", "CONSOLE", "TIMER", "IRQC", "IPI"}
    BY <1>1 DEF DevClasses
  <2> QED
    BY <1>5, <1>6, <1>7, <1>8, <1>9, <1>10, <2>1, <2>2, <2>3, <2>4
<1>11. TableOK(Table')
  BY <1>2, <1>9, BecomesOK
<1> QED
  BY <1>2, <1>10, <1>11 DEF DevInv, Becomes, n

-----------------------------------------------------------------------------
(* Handlers on each other: fs are the entries under way, sm the maximum of *)
(* the group that may call the kernel, th the threshold, in the            *)
(* controller's service serv.                                              *)
Frames == [irq : Sources, saved : Nat, level : Nat \ {0}, section : Nat \cup {None}, woken : BOOLEAN]
HeldIn(fs, sm, n) == IF n = 0 THEN 0 ELSE IF fs[n].section # None THEN sm ELSE fs[n].level

FramesOK(fs, sm, th, serv) ==
    /\ fs \in Seq(Frames)
    /\ \A i, j \in 1..Len(fs) : i < j => fs[i].level < fs[j].level
    /\ th = HeldIn(fs, sm, Len(fs))
    /\ \A i \in 1..Len(fs) : fs[i].saved = HeldIn(fs, sm, i - 1)
    /\ serv = {fs[i].irq : i \in 1..Len(fs)}
    /\ \A i, j \in 1..Len(fs) : fs[i].irq = fs[j].irq => i = j
    /\ \A i \in 1..Len(fs) : fs[i].section # None =>
          /\ fs[i].section = fs[i].level /\ fs[i].level <= sm
          /\ \A j \in i + 1..Len(fs) : fs[j].level > sm

LEMMA FramesIntro ==
    ASSUME NEW fs, NEW sm, NEW th, NEW serv, NEW m, Len(fs) = m,
           fs \in Seq(Frames),
           \A i, j \in 1..m : i < j => fs[i].level < fs[j].level,
           th = HeldIn(fs, sm, m),
           \A i \in 1..m : fs[i].saved = HeldIn(fs, sm, i - 1),
           serv = {fs[i].irq : i \in 1..m},
           \A i, j \in 1..m : fs[i].irq = fs[j].irq => i = j,
           \A i \in 1..m : fs[i].section # None =>
              /\ fs[i].section = fs[i].level /\ fs[i].level <= sm
              /\ \A j \in i + 1..m : fs[j].level > sm
    PROVE  FramesOK(fs, sm, th, serv)
BY Zenon DEF FramesOK

LEMMA HandlerEntered ==
    ASSUME NEW fs, NEW sm \in Nat, NEW th, NEW serv, FramesOK(fs, sm, th, serv),
           NEW s \in Sources \ serv, NEW v \in Nat \ {0}, v > th,
           NEW f, f = [irq |-> s, saved |-> th, level |-> v, section |-> None, woken |-> FALSE],
           NEW new, new = Append(fs, f)
    PROVE  FramesOK(new, sm, v, serv \cup {s})
<1>1. /\ fs \in Seq(Frames)
      /\ \A i, j \in 1..Len(fs) : i < j => fs[i].level < fs[j].level
      /\ th = HeldIn(fs, sm, Len(fs))
      /\ \A i \in 1..Len(fs) : fs[i].saved = HeldIn(fs, sm, i - 1)
      /\ serv = {fs[i].irq : i \in 1..Len(fs)}
      /\ \A i, j \in 1..Len(fs) : fs[i].irq = fs[j].irq => i = j
      /\ \A i \in 1..Len(fs) : fs[i].section # None =>
            /\ fs[i].section = fs[i].level /\ fs[i].level <= sm
            /\ \A j \in i + 1..Len(fs) : fs[j].level > sm
  BY Zenon DEF FramesOK
<1>2. PICK n \in Nat : n = Len(fs)
  BY <1>1
<1>3. \A i \in 1..n : fs[i] \in Frames /\ fs[i].level \in Nat
  <2>1. \A i \in 1..n : fs[i] \in Frames
    BY <1>1, <1>2
  <2>2. \A f0 \in Frames : f0.level \in Nat
    BY DEF Frames
  <2> QED
    BY <2>1, <2>2
<1>4. th \in Nat
  BY <1>1, <1>2, <1>3 DEF HeldIn
<1>5. f \in Frames /\ f.section = None /\ f.level = v /\ f.saved = th /\ f.irq = s
  BY <1>4 DEF Frames
<1>6. /\ new \in Seq(Frames) /\ Len(new) = n + 1 /\ new[n + 1] = f
      /\ \A i \in 1..n : new[i] = fs[i]
  BY <1>1, <1>2, <1>5
<1>7. \A i \in 1..(n + 1) : i \in 1..n \/ i = n + 1
  BY <1>2
<1>8. \A i \in 1..n : fs[i].level < v
  <2>1. CASE n = 0
    BY <2>1
  <2>2. CASE n # 0
    <3>1. n \in 1..n /\ fs[n].level < v
      BY <1>1, <1>2, <1>3, <1>4, <2>2 DEF HeldIn
    <3>2. ASSUME NEW i \in 1..n PROVE fs[i].level <= fs[n].level
      <4>1. i = n \/ i < n
        OBVIOUS
      <4>2. i < n => fs[i].level < fs[n].level
        BY <1>1, <1>2, <3>1
      <4> QED
        BY <1>3, <3>1, <4>1, <4>2
    <3> QED
      BY <1>3, <3>1, <3>2
  <2> QED
    BY <2>1, <2>2
<1>9. \A i, j \in 1..(n + 1) : i < j => new[i].level < new[j].level
  <2> SUFFICES ASSUME NEW i \in 1..(n + 1), NEW j \in 1..(n + 1), i < j PROVE new[i].level < new[j].level
    OBVIOUS
  <2>1. i \in 1..n
    BY <1>2
  <2> QED
    BY <1>1, <1>2, <1>5, <1>6, <1>7, <1>8, <2>1
<1>10. \A i \in 0..n : HeldIn(new, sm, i) = HeldIn(fs, sm, i)
  BY <1>2, <1>6 DEF HeldIn
<1>11. v = HeldIn(new, sm, n + 1)
  BY <1>2, <1>5, <1>6 DEF HeldIn
<1>12. \A i \in 1..(n + 1) : new[i].saved = HeldIn(new, sm, i - 1)
  <2> SUFFICES ASSUME NEW i \in 1..(n + 1) PROVE new[i].saved = HeldIn(new, sm, i - 1)
    OBVIOUS
  <2>1. i - 1 \in 0..n
    BY <1>2
  <2>2. HeldIn(new, sm, i - 1) = HeldIn(fs, sm, i - 1)
    BY <1>10, <2>1
  <2>3. CASE i \in 1..n
    BY <1>1, <1>2, <1>6, <2>2, <2>3
  <2>4. CASE i = n + 1
    BY <1>1, <1>2, <1>5, <1>6, <2>2, <2>4
  <2> QED
    BY <1>7, <2>3, <2>4
<1>13. serv \cup {s} = {new[i].irq : i \in 1..(n + 1)}
  <2>1. \A i \in 1..n : i \in 1..(n + 1)
    BY <1>2
  <2>2. n + 1 \in 1..(n + 1)
    BY <1>2
  <2> QED
    BY <1>1, <1>2, <1>5, <1>6, <1>7, <2>1, <2>2
<1>14. \A i, j \in 1..(n + 1) : new[i].irq = new[j].irq => i = j
  <2>1. \A i \in 1..n : new[i].irq = fs[i].irq /\ fs[i].irq # s
    BY <1>1, <1>2, <1>6
  <2>2. new[n + 1].irq = s
    BY <1>5, <1>6
  <2> QED
    BY <1>1, <1>2, <1>7, <2>1, <2>2
<1>15. ASSUME NEW i \in 1..(n + 1), new[i].section # None
       PROVE  /\ new[i].section = new[i].level /\ new[i].level <= sm
              /\ \A j \in i + 1..(n + 1) : new[j].level > sm
  <2>1. i \in 1..n /\ fs[i].section # None
    BY <1>5, <1>6, <1>7, <1>15
  <2>2. fs[i].section = fs[i].level /\ fs[i].level <= sm /\ \A j \in i + 1..n : fs[j].level > sm
    BY <1>1, <1>2, <2>1
  <2>3. v > sm
    <3>1. CASE i = n
      BY <1>1, <1>2, <1>4, <2>1, <3>1 DEF HeldIn
    <3>2. CASE i # n
      <4>1. n \in i + 1..n /\ n \in 1..n
        BY <1>2, <2>1, <3>2
      <4>2. fs[n].level > sm
        BY <2>2, <4>1
      <4> QED
        BY <1>3, <1>8, <4>1, <4>2
    <3> QED
      BY <3>1, <3>2
  <2>4. \A j \in i + 1..(n + 1) : (j \in i + 1..n /\ j \in 1..n) \/ j = n + 1
    BY <1>2, <2>1
  <2> QED
    BY <1>5, <1>6, <2>1, <2>2, <2>3, <2>4
<1>16. \A i \in 1..(n + 1) : new[i].section # None =>
          /\ new[i].section = new[i].level /\ new[i].level <= sm
          /\ \A j \in i + 1..(n + 1) : new[j].level > sm
  BY <1>15
<1>17. new \in Seq(Frames) /\ Len(new) = n + 1
  BY <1>6
<1>18. PICK g : g = new
  OBVIOUS
<1>19. FramesOK(g, sm, v, serv \cup {s})
  <2>1. /\ g \in Seq(Frames) /\ Len(g) = n + 1
        /\ \A i, j \in 1..(n + 1) : i < j => g[i].level < g[j].level
        /\ v = HeldIn(g, sm, n + 1)
    BY <1>9, <1>11, <1>17, <1>18
  <2>2. /\ \A i \in 1..(n + 1) : g[i].saved = HeldIn(g, sm, i - 1)
    BY <1>12, <1>18
  <2>3. serv \cup {s} = {g[i].irq : i \in 1..(n + 1)}
    BY <1>13, <1>18, Zenon
  <2>4. \A i, j \in 1..(n + 1) : g[i].irq = g[j].irq => i = j
    BY <1>14, <1>18
  <2>5. \A i \in 1..(n + 1) : g[i].section # None =>
              /\ g[i].section = g[i].level /\ g[i].level <= sm
              /\ \A j \in i + 1..(n + 1) : g[j].level > sm
    BY <1>16, <1>18, Zenon
  <2> QED
    BY <2>1, <2>2, <2>3, <2>4, <2>5, FramesIntro, Zenon
<1> QED
  BY <1>18, <1>19, Zenon

LEMMA HandlerLeft ==
    ASSUME NEW fs, NEW sm \in Nat, NEW th, NEW serv, FramesOK(fs, sm, th, serv), fs # << >>
    PROVE  FramesOK(Front(fs), sm, Last(fs).saved, serv \ {Last(fs).irq})
<1> DEFINE new == Front(fs)
<1>1. /\ fs \in Seq(Frames)
      /\ \A i, j \in 1..Len(fs) : i < j => fs[i].level < fs[j].level
      /\ th = HeldIn(fs, sm, Len(fs))
      /\ \A i \in 1..Len(fs) : fs[i].saved = HeldIn(fs, sm, i - 1)
      /\ serv = {fs[i].irq : i \in 1..Len(fs)}
      /\ \A i, j \in 1..Len(fs) : fs[i].irq = fs[j].irq => i = j
      /\ \A i \in 1..Len(fs) : fs[i].section # None =>
            /\ fs[i].section = fs[i].level /\ fs[i].level <= sm
            /\ \A j \in i + 1..Len(fs) : fs[j].level > sm
  BY Zenon DEF FramesOK
<1>2. PICK n \in Nat : n + 1 = Len(fs)
  <2>1. Len(fs) \in Nat /\ Len(fs) # 0
    BY <1>1
  <2> QED
    BY <2>1
<1>3. /\ new \in Seq(Frames) /\ Len(new) = n /\ Last(fs) = fs[n + 1]
      /\ \A i \in 1..n : new[i] = fs[i] /\ i \in 1..(n + 1)
  BY <1>1, <1>2 DEF Front, Last
<1> HIDE DEF new
<1>4. n + 1 \in 1..(n + 1) /\ (n + 1) - 1 = n /\ \A i \in 1..(n + 1) : i \in 1..n \/ i = n + 1
  BY <1>2
<1>5. \A i \in 0..n : HeldIn(new, sm, i) = HeldIn(fs, sm, i)
  BY <1>2, <1>3 DEF HeldIn
<1>6. Last(fs).saved = HeldIn(new, sm, n)
  <2>1. n \in 0..n
    BY <1>2
  <2>2. fs[n + 1].saved = HeldIn(fs, sm, n)
    BY <1>1, <1>2, <1>4
  <2> QED
    BY <1>3, <1>5, <2>1, <2>2
<1>7. \A i \in 1..n : new[i].saved = HeldIn(new, sm, i - 1)
  <2> SUFFICES ASSUME NEW i \in 1..n PROVE new[i].saved = HeldIn(new, sm, i - 1)
    OBVIOUS
  <2>1. i - 1 \in 0..n
    BY <1>2
  <2> QED
    BY <1>1, <1>2, <1>3, <1>5, <2>1
<1>8. serv \ {fs[n + 1].irq} = {new[i].irq : i \in 1..n}
  <2>1. \A i \in 1..n : fs[i].irq # fs[n + 1].irq
    <3> SUFFICES ASSUME NEW i \in 1..n, fs[i].irq = fs[n + 1].irq PROVE FALSE
      OBVIOUS
    <3>1. i = n + 1
      BY <1>1, <1>2, <1>3, <1>4
    <3> QED
      BY <1>2, <3>1
  <2> QED
    BY <1>1, <1>2, <1>3, <1>4, <2>1
<1>9. ASSUME NEW i \in 1..n, new[i].section # None
      PROVE  /\ new[i].section = new[i].level /\ new[i].level <= sm
             /\ \A j \in i + 1..n : new[j].level > sm
  <2>1. \A j \in i + 1..n : j \in i + 1..(n + 1) /\ j \in 1..n
    BY <1>2
  <2> QED
    BY <1>1, <1>2, <1>3, <1>9, <2>1
<1>10. \A i, j \in 1..n : i < j => new[i].level < new[j].level
  BY <1>1, <1>2, <1>3
<1>11. \A i, j \in 1..n : new[i].irq = new[j].irq => i = j
  BY <1>1, <1>2, <1>3
<1> QED
  BY <1>3, <1>6, <1>7, <1>8, <1>9, <1>10, <1>11 DEF FramesOK, new

(* The innermost entry takes, or gives back, a section of the kernel, or    *)
(* notes that it woke a task.                                              *)
LEMMA HandlerChanged ==
    ASSUME NEW fs, NEW sm \in Nat, NEW th, NEW serv, FramesOK(fs, sm, th, serv), fs # << >>,
           NEW f \in Frames, f.irq = Last(fs).irq, f.saved = Last(fs).saved, f.level = Last(fs).level,
           f.section # None => f.section = f.level /\ f.level <= sm
    PROVE  FramesOK(Append(Front(fs), f), sm, IF f.section # None THEN sm ELSE f.level, serv)
<1> DEFINE new == Append(Front(fs), f)
           t == IF f.section # None THEN sm ELSE f.level
<1>1. /\ fs \in Seq(Frames)
      /\ \A i, j \in 1..Len(fs) : i < j => fs[i].level < fs[j].level
      /\ th = HeldIn(fs, sm, Len(fs))
      /\ \A i \in 1..Len(fs) : fs[i].saved = HeldIn(fs, sm, i - 1)
      /\ serv = {fs[i].irq : i \in 1..Len(fs)}
      /\ \A i, j \in 1..Len(fs) : fs[i].irq = fs[j].irq => i = j
      /\ \A i \in 1..Len(fs) : fs[i].section # None =>
            /\ fs[i].section = fs[i].level /\ fs[i].level <= sm
            /\ \A j \in i + 1..Len(fs) : fs[j].level > sm
  BY Zenon DEF FramesOK
<1>2. PICK n \in Nat : n + 1 = Len(fs)
  <2>1. Len(fs) \in Nat /\ Len(fs) # 0
    BY <1>1
  <2>2. Len(fs) - 1 \in Nat /\ (Len(fs) - 1) + 1 = Len(fs)
    BY <2>1
  <2> QED
    BY <2>2, Zenon
<1>3. /\ new \in Seq(Frames) /\ Len(new) = n + 1 /\ new[n + 1] = f /\ Last(fs) = fs[n + 1]
      /\ \A i \in 1..n : new[i] = fs[i] /\ i \in 1..(n + 1)
  <2>1. /\ Front(fs) \in Seq(Frames) /\ Len(Front(fs)) = n /\ Last(fs) = fs[n + 1]
        /\ \A i \in 1..n : Front(fs)[i] = fs[i] /\ i \in 1..(n + 1)
    BY <1>1, <1>2 DEF Front, Last
  <2>2. PICK g : g = Front(fs)
    OBVIOUS
  <2>3. /\ Append(g, f) \in Seq(Frames) /\ Len(Append(g, f)) = n + 1 /\ Append(g, f)[n + 1] = f
        /\ \A i \in 1..n : Append(g, f)[i] = g[i]
    BY <1>2, <2>1, <2>2
  <2> QED
    BY <2>1, <2>2, <2>3
<1> HIDE DEF new
<1>4. n + 1 \in 1..(n + 1) /\ (n + 1) - 1 = n /\ \A i \in 1..(n + 1) : i \in 1..n \/ i = n + 1
  BY <1>2
<1>5. \A i \in 0..n : HeldIn(new, sm, i) = HeldIn(fs, sm, i)
  BY <1>2, <1>3 DEF HeldIn
<1>6. \A i \in 1..(n + 1) : new[i].irq = fs[i].irq /\ new[i].level = fs[i].level /\ new[i].saved = fs[i].saved
  BY <1>3, <1>4
<1>7. \A i \in 1..(n + 1) : new[i].saved = HeldIn(new, sm, i - 1)
  <2> SUFFICES ASSUME NEW i \in 1..(n + 1) PROVE new[i].saved = HeldIn(new, sm, i - 1)
    OBVIOUS
  <2>1. i - 1 \in 0..n
    BY <1>2
  <2> QED
    BY <1>1, <1>2, <1>5, <1>6, <2>1
<1>8. serv = {new[i].irq : i \in 1..(n + 1)}
  <2>1. serv = {fs[i].irq : i \in 1..(n + 1)}
    BY <1>1, <1>2
  <2> QED
    BY <1>6, <2>1
<1>9. ASSUME NEW i \in 1..(n + 1), new[i].section # None
      PROVE  /\ new[i].section = new[i].level /\ new[i].level <= sm
             /\ \A j \in i + 1..(n + 1) : new[j].level > sm
  <2>1. \A j \in i + 1..(n + 1) : j \in 1..(n + 1)
    BY <1>2
  <2>2. CASE i = n + 1
    <3>1. i + 1..(n + 1) = {}
      BY <1>2, <2>2
    <3> QED
      BY <1>3, <1>9, <2>2, <3>1
  <2>3. CASE i \in 1..n
    <3>1. fs[i].section # None /\ new[i] = fs[i] /\ i \in 1..(n + 1)
      BY <1>3, <1>9, <2>3
    <3>2. fs[i].section = fs[i].level /\ fs[i].level <= sm /\ \A j \in i + 1..(n + 1) : fs[j].level > sm
      BY <1>1, <1>2, <3>1
    <3> QED
      BY <1>6, <2>1, <3>1, <3>2
  <2> QED
    BY <1>4, <2>2, <2>3
<1>10. \A i, j \in 1..(n + 1) : i < j => new[i].level < new[j].level
  BY <1>1, <1>2, <1>6
<1>11. \A i, j \in 1..(n + 1) : new[i].irq = new[j].irq => i = j
  BY <1>1, <1>2, <1>6
<1>12. t = HeldIn(new, sm, n + 1)
  BY <1>2, <1>3 DEF HeldIn
<1> HIDE DEF t
<1>13. FramesOK(new, sm, t, serv)
  <2>1. new \in Seq(Frames) /\ Len(new) = n + 1
    BY <1>3
  <2>2. \A i \in 1..(n + 1) : new[i].section # None =>
              /\ new[i].section = new[i].level /\ new[i].level <= sm
              /\ \A j \in i + 1..(n + 1) : new[j].level > sm
    BY <1>9
  <2> QED
    BY <1>7, <1>8, <1>10, <1>11, <1>12, <2>1, <2>2, FramesIntro, Zenon
<1> QED
  BY <1>13, Zenon DEF new, t

(* The controller delivers one of the sources it may deliver.              *)
LEMMA PlicClaimIs ==
    ASSUME Sources \subseteq Nat, MaxIrqPrio \in Nat, sourcePrio \in [Sources -> 0..MaxIrqPrio],
           sourcePending \subseteq Sources, Delivered # {}
    PROVE  PlicClaim \in Delivered
<1>1. /\ Delivered \subseteq Sources /\ Delivered \subseteq Nat
      /\ \A s \in Delivered : sourcePrio[s] \in Nat /\ MaxIrqPrio - sourcePrio[s] \in Nat
  <2>1. Delivered \subseteq Sources
    BY DEF Delivered
  <2>2. \A s \in Sources : sourcePrio[s] \in 0..MaxIrqPrio
    OBVIOUS
  <2>3. \A p \in 0..MaxIrqPrio : p \in Nat /\ MaxIrqPrio - p \in Nat
    OBVIOUS
  <2> QED
    BY <2>1, <2>2, <2>3
<1>2. PICK top \in {MaxIrqPrio - sourcePrio[s] : s \in Delivered} :
         \A m \in {MaxIrqPrio - sourcePrio[s] : s \in Delivered} : top <= m
  <2>1. {MaxIrqPrio - sourcePrio[s] : s \in Delivered} \in SUBSET Nat
    BY <1>1
  <2>2. {MaxIrqPrio - sourcePrio[s] : s \in Delivered} # {}
    OBVIOUS
  <2> QED
    BY <2>1, <2>2, LeastNat
<1>3. PICK x \in Delivered : top = MaxIrqPrio - sourcePrio[x]
  BY <1>2
<1>4. \A r \in Delivered : sourcePrio[r] <= sourcePrio[x]
  <2> SUFFICES ASSUME NEW r \in Delivered PROVE sourcePrio[r] <= sourcePrio[x]
    OBVIOUS
  <2>1. MaxIrqPrio - sourcePrio[x] <= MaxIrqPrio - sourcePrio[r]
    BY <1>2, <1>3
  <2> QED
    BY <1>1, <2>1
<1>5. PICK s \in {r \in Delivered : sourcePrio[r] = sourcePrio[x]} :
         \A r \in {r \in Delivered : sourcePrio[r] = sourcePrio[x]} : s <= r
  BY <1>1, LeastNat
<1>6. s \in Delivered /\ \A r \in Delivered :
         sourcePrio[r] < sourcePrio[s] \/ (sourcePrio[r] = sourcePrio[s] /\ s <= r)
  BY <1>1, <1>4, <1>5
<1> QED
  BY <1>6 DEF PlicClaim

IrqInv ==
    /\ DevInv /\ (frozen \/ frames = << >>)
    /\ sourcePrio \in [Sources -> 0..MaxIrqPrio] /\ sourcePending \subseteq Sources
    /\ sysMax \in Nat /\ marked \in BOOLEAN /\ parked = [t \in IrqTasks |-> << >>]
    /\ FramesOK(frames, sysMax, threshold, inService) /\ sourcePending \cap inService = {}
    /\ nesting => ~marked /\ \A i \in 1..Len(frames) : ~frames[i].woken
    /\ ~nesting => Len(frames) <= 1

LEMMA IrqInvNests == ASSUME DeviceAssumption, IrqInv PROVE InterruptsNest
<1>1. DevicesFound
  BY DevInvFinds DEF IrqInv
<1>2. HandlersFinish
  BY DEF HandlersFinish, IrqInv
<1>3. /\ frames \in Seq(Frames)
      /\ \A i, j \in 1..Len(frames) : i < j => frames[i].level < frames[j].level
      /\ threshold = HeldIn(frames, sysMax, Len(frames))
      /\ \A i \in 1..Len(frames) : frames[i].saved = HeldIn(frames, sysMax, i - 1)
      /\ inService = {frames[i].irq : i \in 1..Len(frames)}
      /\ \A i \in 1..Len(frames) : frames[i].section # None =>
            \A j \in i + 1..Len(frames) : frames[j].level > sysMax
  BY DEF IrqInv, FramesOK
<1>4. PICK n \in Nat : n = Len(frames)
  BY <1>3
<1>5. \A i \in 0..n : HeldIn(frames, sysMax, i) = Held(i)
  BY <1>4 DEF HeldIn, Held
<1>6. DOMAIN frames = 1..n /\ \A i \in 1..n : i - 1 \in 0..n
  BY <1>3, <1>4
<1>7. \A i \in 2..n : i - 1 \in 1..n /\ i \in 1..n /\ i - 1 < i
  BY <1>4
<1>8. \A i \in 2..Len(frames) : frames[i - 1].level < frames[i].level
  BY <1>3, <1>4, <1>7
<1>9. threshold = Held(Len(frames))
  BY <1>3, <1>4, <1>5
<1>10. \A i \in DOMAIN frames : frames[i].saved = Held(i - 1)
  BY <1>3, <1>4, <1>5, <1>6
<1>11. inService = {frames[i].irq : i \in DOMAIN frames}
  BY <1>3, <1>4, <1>6
<1>12. \A i \in DOMAIN frames : frames[i].section # None =>
          \A j \in i + 1..Len(frames) : frames[j].level > sysMax
  BY <1>3, <1>4, <1>6
<1> QED
  BY <1>1, <1>2, <1>8, <1>9, <1>10, <1>11, <1>12, Zenon DEF InterruptsNest

LEMMA FramesNone == ASSUME NEW sm, NEW th, th = 0 PROVE FramesOK(<< >>, sm, th, {})
<1>1. << >> \in Seq(Frames) /\ Len(<< >>) = 0 /\ 1..0 = {}
  OBVIOUS
<1> QED
  BY <1>1 DEF FramesOK, HeldIn

LEMMA FramesNoneOnly == ASSUME NEW sm, NEW th, NEW serv, FramesOK(<< >>, sm, th, serv) PROVE th = 0 /\ serv = {}
<1>1. Len(<< >>) = 0 /\ 1..0 = {}
  OBVIOUS
<1> QED
  BY <1>1 DEF FramesOK, HeldIn

LEMMA IrqInvInit == ASSUME InterruptAssumption, DeviceAssumption, InterruptInit PROVE IrqInv
<1>1. DevInv
  BY DevInvInit DEF InterruptInit
<1>2. FramesOK(frames, sysMax, threshold, inService)
  BY FramesNone, Zenon DEF InterruptInit
<1>3. /\ sourcePrio \in [Sources -> 0..MaxIrqPrio] /\ sourcePending = {} /\ frames = << >>
      /\ sysMax \in Nat /\ marked = FALSE /\ parked = [t \in IrqTasks |-> << >>] /\ Len(frames) = 0
  BY DEF InterruptInit, InterruptAssumption
<1>4. /\ nesting => ~marked /\ \A i \in 1..Len(frames) : ~frames[i].woken
      /\ ~nesting => Len(frames) <= 1 
      /\ sourcePending \cap inService = {}
  <2>1. 1..Len(frames) = {}
    BY <1>3
  <2> QED
    BY <1>3, <2>1
<1> QED
  BY <1>1, <1>2, <1>3, <1>4 DEF IrqInv

(* The registry and the sources change, the entries do not.                *)
LEMMA FramesStay ==
    ASSUME IrqInv, DevInv', frozen => frozen', sourcePrio' \in [Sources -> 0..MaxIrqPrio],
           sourcePending' \subseteq Sources, sourcePending' \cap inService = {},
           UNCHANGED <<sysMax, frames, threshold, inService, marked, parked, nesting>>
    PROVE  IrqInv'
<1>1. FramesOK(frames', sysMax', threshold', inService')
  <2>1. FramesOK(frames, sysMax, threshold, inService)
    BY Zenon DEF IrqInv
  <2> QED
    BY <2>1, Zenon
<1>2. /\ frozen' \/ frames' = << >>
      /\ sysMax' \in Nat /\ marked' \in BOOLEAN /\ parked' = [t \in IrqTasks |-> << >>]
      /\ sourcePending' \cap inService' = {}
      /\ nesting' => ~marked' /\ \A i \in 1..Len(frames') : ~frames'[i].woken
      /\ ~nesting' => Len(frames') <= 1
  BY DEF IrqInv
<1> QED
  BY <1>1, <1>2 DEF IrqInv

LEMMA BootKeeps ==
    ASSUME InterruptAssumption, DeviceAssumption, NamesTellClass, IrqInv, NEW worked, Boot(worked)
    PROVE  IrqInv'
<1>1. DevInv'
  BY BoardInitKeeps DEF Boot, IrqInv
<1>2. ~frozen /\ frozen'
  BY DEF Boot, BoardInit
<1>3. frames = << >> /\ threshold = 0 /\ inService = {}
  <2>1. frames = << >> /\ FramesOK(frames, sysMax, threshold, inService)
    BY <1>2 DEF IrqInv
  <2> QED
    BY <2>1, FramesNoneOnly, Zenon
<1>4. /\ threshold' = 0 \/ threshold' = threshold
      /\ sysMax' = SyscallMax \/ sysMax' = sysMax
      /\ UNCHANGED <<sourcePrio, sourceOn, sourcePending, inService, frames, marked, current, parked, nesting>>
  BY DEF Boot, PlicInit, IrqInit, taskVars
<1>5. FramesOK(frames', sysMax', threshold', inService')
  <2>1. threshold' = 0 /\ frames' = << >> /\ inService' = {}
    BY <1>3, <1>4
  <2> QED
    BY <2>1, FramesNone, Zenon
<1>6. sysMax' \in Nat
  BY <1>4 DEF IrqInv, InterruptAssumption
<1> QED
  BY <1>1, <1>2, <1>4, <1>5, <1>6 DEF IrqInv

LEMMA RegisterNests ==
    ASSUME DeviceAssumption, InterruptAssumption, NamesTellClass, IrqInv, NEW d \in Extras, Register(d),
           UNCHANGED <<plicVars, handlers, sysMax, frames, taskVars, nesting>>
    PROVE  IrqInv'
<1>1. d \in Devs /\ DevInv
  BY DEF InterruptAssumption, IrqInv
<1>2. DevInv' /\ UNCHANGED frozen
  BY <1>1, RegisterKeeps DEF Register
<1> QED
  BY <1>2, FramesStay DEF IrqInv, plicVars, taskVars

LEMMA DevInvSame == ASSUME DevInv, UNCHANGED deviceVars PROVE DevInv'
BY DEF DevInv, deviceVars, Table

LEMMA SourcesNest ==
    ASSUME InterruptAssumption, IrqInv, NEW s \in Sources,
           \/ \E p \in 0..MaxIrqPrio, enable \in BOOLEAN : Configure(s, p, enable)
           \/ RegisterHandler(s) \/ UnregisterHandler(s) \/ RaiseLine(s)
    PROVE  IrqInv'
<1>1. CASE \E p \in 0..MaxIrqPrio, enable \in BOOLEAN : Configure(s, p, enable)
  <2>1. PICK p \in 0..MaxIrqPrio : /\ sourcePrio' = [sourcePrio EXCEPT ![s] = p]
            /\ UNCHANGED <<deviceVars, sourcePending, inService, threshold, handlers, sysMax, frames,
                   taskVars, nesting>>
    BY <1>1 DEF Configure, IrqcSetPriority, PlicSetPriority
  <2>2. DevInv' /\ frozen' = frozen
    BY <2>1, DevInvSame DEF IrqInv, deviceVars
  <2>3. sourcePrio' \in [Sources -> 0..MaxIrqPrio]
    BY <2>1 DEF IrqInv
  <2> QED
    BY <2>1, <2>2, <2>3, FramesStay DEF IrqInv, taskVars
<1>2. CASE RegisterHandler(s) \/ UnregisterHandler(s)
  <2>1. UNCHANGED <<deviceVars, plicVars, sysMax, frames, taskVars, nesting>>
    BY <1>2 DEF RegisterHandler, UnregisterHandler
  <2>2. DevInv' /\ frozen' = frozen
    BY <2>1, DevInvSame DEF IrqInv, deviceVars
  <2> QED
    BY <2>1, <2>2, FramesStay DEF IrqInv, taskVars, plicVars
<1>3. CASE RaiseLine(s)
  <2>1. /\ s \notin inService /\ sourcePending' = sourcePending \cup {s}
        /\ UNCHANGED <<deviceVars, sourcePrio, sourceOn, inService, threshold, handlers, sysMax,
                   frames, taskVars, nesting>>
    BY <1>3 DEF RaiseLine
  <2>2. DevInv' /\ frozen' = frozen
    BY <2>1, DevInvSame DEF IrqInv, deviceVars
  <2>3. sourcePending' \subseteq Sources /\ sourcePending' \cap inService = {}
    BY <2>1 DEF IrqInv
  <2> QED
    BY <2>1, <2>2, <2>3, FramesStay DEF IrqInv, taskVars
<1> QED
  BY <1>1, <1>2, <1>3

LEMMA SetSyscallMaxNests ==
    ASSUME InterruptAssumption, IrqInv, NEW p \in SyscallMaxes, SetSyscallMax(p)
    PROVE  IrqInv'
<1>1. /\ frames = << >> /\ sysMax' = IF p > MaxIrqPrio THEN MaxIrqPrio ELSE p
      /\ UNCHANGED <<deviceVars, plicVars, handlers, frames, taskVars, nesting>>
  BY DEF SetSyscallMax
<1>2. sysMax' \in Nat
  BY <1>1 DEF InterruptAssumption
<1>3. FramesOK(frames', sysMax', threshold', inService')
  <2>1. threshold = 0 /\ inService = {}
    <3>1. FramesOK(frames, sysMax, threshold, inService)
      BY Zenon DEF IrqInv
    <3> QED
      BY <1>1, <3>1, FramesNoneOnly, Zenon
  <2>2. threshold' = 0 /\ frames' = << >> /\ inService' = {}
    BY <1>1, <2>1 DEF plicVars
  <2> QED
    BY <2>2, FramesNone, Zenon
<1>4. DevInv' /\ frozen' = frozen
  BY <1>1, DevInvSame DEF IrqInv, deviceVars
<1> QED
  BY <1>1, <1>2, <1>3, <1>4 DEF IrqInv, plicVars, taskVars

LEMMA EnterExternalNests ==
    ASSUME InterruptAssumption, IrqInv, EnterExternal
    PROVE  IrqInv'
<1> DEFINE s == PlicClaim
           f == [irq |-> s, saved |-> threshold, level |-> Level(s), section |-> None, woken |-> FALSE]
<1>1. /\ s \in Delivered /\ FindDevice("IRQC") \in ready
      /\ nesting \/ frames = << >>
      /\ sourcePending' = sourcePending \ {s} /\ inService' = inService \cup {s}
      /\ frames' = Append(frames, f) /\ threshold' = Level(s)
      /\ UNCHANGED <<deviceVars, sourcePrio, sourceOn, handlers, sysMax, taskVars, nesting>>
  <2>1. s \in Delivered
    BY PlicClaimIs DEF EnterExternal, IrqInv, InterruptAssumption
  <2> QED
    BY <2>1 DEF EnterExternal, PlicSetThreshold
<1> HIDE DEF s, f
<1>2. s \in Sources \ inService /\ Level(s) \in Nat \ {0} /\ Level(s) > threshold
  <2>1. s \in sourcePending /\ sourcePrio[s] > threshold
    BY <1>1 DEF Delivered
  <2>2. s \in Sources \ inService
    BY <2>1 DEF IrqInv
  <2>3. sourcePrio[s] \in 0..MaxIrqPrio /\ MaxIrqPrio \in Nat
    BY <2>2 DEF IrqInv, InterruptAssumption
  <2>4. threshold \in Nat
    <3>1. threshold = HeldIn(frames, sysMax, Len(frames)) /\ frames \in Seq(Frames) /\ sysMax \in Nat
      BY DEF IrqInv, FramesOK
    <3>2. PICK n \in Nat : n = Len(frames)
      BY <3>1
    <3>3. CASE n = 0
      BY <3>1, <3>2, <3>3 DEF HeldIn
    <3>4. CASE n # 0
      <4>1. frames[n] \in Frames
        BY <3>1, <3>2, <3>4
      <4> QED
        BY <3>1, <3>2, <3>4, <4>1 DEF HeldIn, Frames
    <3> QED
      BY <3>3, <3>4
  <2>5. sourcePrio[s] # 0
    BY <2>1, <2>3, <2>4
  <2> QED
    BY <2>1, <2>2, <2>3, <2>5 DEF Level
<1>3. FramesOK(frames', sysMax', threshold', inService')
  <2>1. FramesOK(frames, sysMax, threshold, inService) /\ sysMax \in Nat
    BY DEF IrqInv
  <2>2. FramesOK(Append(frames, f), sysMax, Level(s), inService \cup {s})
    <3> DEFINE new == Append(frames, f)
               lev == Level(s)
    <3>1. f = [irq |-> s, saved |-> threshold, level |-> lev, section |-> None, woken |-> FALSE]
      BY DEF f
    <3>2. lev \in Nat \ {0} /\ lev > threshold
      BY <1>2
    <3> HIDE DEF lev
    <3>3. FramesOK(new, sysMax, lev, inService \cup {s})
      BY <1>2, <2>1, <3>1, <3>2, HandlerEntered
    <3> QED
      BY <3>3 DEF lev
  <2> QED
    BY <1>1, <2>2
<1>4. DevInv' /\ frozen' = frozen
  BY <1>1, DevInvSame DEF IrqInv, deviceVars
<1>5. frozen
  BY <1>1 DEF IrqInv, DevInv
<1>6. nesting' => ~marked' /\ \A i \in 1..Len(frames') : ~frames'[i].woken
  <2> SUFFICES ASSUME nesting PROVE ~marked /\ \A i \in 1..Len(frames') : ~frames'[i].woken
    BY <1>1 DEF taskVars
  <2>1. frames \in Seq(Frames) /\ ~marked /\ \A i \in 1..Len(frames) : ~frames[i].woken
    BY DEF IrqInv, FramesOK
  <2>2. ~f.woken
    BY DEF f
  <2>3. PICK n \in Nat : n = Len(frames)
    BY <2>1
  <2>4. /\ Len(frames') = n + 1 /\ frames'[n + 1] = f /\ \A i \in 1..n : frames'[i] = frames[i]
    BY <1>1, <2>1, <2>3
  <2>5. \A i \in 1..(n + 1) : i \in 1..n \/ i = n + 1
    BY <2>3
  <2> QED
    BY <2>1, <2>2, <2>3, <2>4, <2>5
<1>7. ~nesting' => Len(frames') <= 1
  <2> SUFFICES ASSUME ~nesting PROVE Len(frames') <= 1
    BY <1>1
  <2>1. frames = << >>
    BY <1>1
  <2>2. Len(Append(<< >>, f)) = 1
    OBVIOUS
  <2> QED
    BY <1>1, <2>1, <2>2
<1>8. sourcePending' \subseteq Sources /\ sourcePending' \cap inService' = {}
  BY <1>1 DEF IrqInv
<1> QED
  BY <1>1, <1>3, <1>4, <1>5, <1>6, <1>7, <1>8 DEF IrqInv, taskVars

(* The innermost entry becomes f.                                          *)
LEMMA TopChanged ==
    ASSUME IrqInv, frames # << >>, NEW f \in Frames, TopBecomes(f),
           f.irq = Inner.irq, f.saved = Inner.saved, f.level = Inner.level,
           f.section # None => f.section = f.level /\ f.level <= sysMax,
           threshold' = (IF f.section # None THEN sysMax ELSE f.level),
           nesting => ~f.woken /\ ~marked', marked' \in BOOLEAN,
           UNCHANGED <<deviceVars, sourcePrio, sourcePending, inService, sysMax, parked, nesting>>
    PROVE  IrqInv'
<1>1. FramesOK(frames', sysMax', threshold', inService')
  <2>1. FramesOK(frames, sysMax, threshold, inService) /\ sysMax \in Nat
    BY DEF IrqInv
  <2>2. FramesOK(Append(Front(frames), f), sysMax, IF f.section # None THEN sysMax ELSE f.level, inService)
    BY <2>1, HandlerChanged DEF Inner
  <2> QED
    BY <2>2 DEF TopBecomes, Outer
<1>2. DevInv' /\ frozen' = frozen
  BY DevInvSame DEF IrqInv, deviceVars
<1>3. frames \in Seq(Frames)
  BY DEF IrqInv, FramesOK
<1>4. PICK n \in Nat : n + 1 = Len(frames)
  <2>1. Len(frames) \in Nat /\ Len(frames) # 0
    BY <1>3
  <2>2. Len(frames) - 1 \in Nat /\ (Len(frames) - 1) + 1 = Len(frames)
    BY <2>1
  <2> QED
    BY <2>2, Zenon
<1>5. Len(frames') = n + 1 /\ frames'[n + 1] = f /\ \A i \in 1..n : frames'[i] = frames[i] /\ i \in 1..(n + 1)
  <2>1. Outer \in Seq(Frames) /\ Len(Outer) = n /\ \A i \in 1..n : Outer[i] = frames[i] /\ i \in 1..(n + 1)
    BY <1>3, <1>4 DEF Front, Outer
  <2>2. PICK g : g = Outer
    OBVIOUS
  <2>3. frames' = Append(g, f)
    BY <2>2 DEF TopBecomes
  <2> QED
    BY <1>4, <2>1, <2>2, <2>3
<1>6. nesting' => ~marked' /\ \A i \in 1..Len(frames') : ~frames'[i].woken
  <2>1. \A i \in 1..(n + 1) : i \in 1..n \/ i = n + 1
    BY <1>4
  <2>2. nesting => \A i \in 1..(n + 1) : ~frames[i].woken
    BY <1>4 DEF IrqInv
  <2> QED
    BY <1>5, <2>1, <2>2
<1>7. ~nesting' => Len(frames') <= 1
  BY <1>4, <1>5 DEF IrqInv
<1>8. frozen' \/ frames' = << >>
  BY <1>2 DEF IrqInv
<1>9. /\ sourcePrio' \in [Sources -> 0..MaxIrqPrio] /\ sourcePending' \subseteq Sources
      /\ sysMax' \in Nat /\ marked' \in BOOLEAN /\ parked' = [t \in IrqTasks |-> << >>]
      /\ sourcePending' \cap inService' = {}
  BY DEF IrqInv
<1> QED
  BY <1>1, <1>2, <1>6, <1>7, <1>8, <1>9, Zenon DEF IrqInv

LEMMA InnerIs ==
    ASSUME IrqInv, frames # << >>
    PROVE  /\ Inner \in Frames /\ threshold = (IF Inner.section # None THEN sysMax ELSE Inner.level)
           /\ Inner.section # None => Inner.section = Inner.level /\ Inner.level <= sysMax
           /\ nesting => ~Inner.woken
           /\ frozen
<1>1. /\ frames \in Seq(Frames) /\ threshold = HeldIn(frames, sysMax, Len(frames))
      /\ \A i \in 1..Len(frames) : frames[i].section # None =>
            frames[i].section = frames[i].level /\ frames[i].level <= sysMax
      /\ nesting => \A i \in 1..Len(frames) : ~frames[i].woken
      /\ frozen
  BY DEF IrqInv, FramesOK
<1>2. Len(frames) \in 1..Len(frames) /\ Len(frames) # 0 /\ Inner = frames[Len(frames)] /\ Inner \in Frames
  BY <1>1 DEF Inner, Last
<1> QED
  BY <1>1, <1>2 DEF HeldIn

LEMMA EnterFromIsrNests == ASSUME IrqInv, EnterFromIsr PROVE IrqInv'
<1> DEFINE f == [Inner EXCEPT !.section = threshold]
<1>1. /\ frames # << >> /\ Inner.level <= sysMax /\ Inner.section = None
      /\ TopBecomes(f) /\ threshold' = sysMax
      /\ UNCHANGED <<deviceVars, sourcePrio, sourceOn, sourcePending, inService, handlers, sysMax,
                   taskVars, nesting>>
  BY DEF EnterFromIsr, MayCallKernel, InHandler, IrqcSetThreshold, PlicSetThreshold
<1>2. Inner \in Frames /\ threshold = Inner.level /\ (nesting => ~Inner.woken)
  BY <1>1, InnerIs
<1>3. f = [irq |-> Inner.irq, saved |-> Inner.saved, level |-> Inner.level, section |-> Inner.level,
           woken |-> Inner.woken]
  BY <1>2 DEF Frames
<1> HIDE DEF f
<1>4. Inner.level \in Nat \ {0} /\ Inner.irq \in Sources /\ Inner.saved \in Nat /\ Inner.woken \in BOOLEAN
  BY <1>2 DEF Frames
<1>5. f \in Frames
  BY <1>3, <1>4 DEF Frames
<1>6. f.section # None /\ f.section = f.level /\ f.level <= sysMax
  BY <1>1, <1>3, <1>4 DEF None
<1>7. marked' = marked /\ marked \in BOOLEAN /\ (nesting => ~marked)
  BY <1>1 DEF IrqInv, taskVars
<1> QED
  BY <1>1, <1>2, <1>3, <1>5, <1>6, <1>7, TopChanged DEF taskVars

LEMMA ExitFromIsrNests == ASSUME IrqInv, ExitFromIsr PROVE IrqInv'
<1> DEFINE f == [Inner EXCEPT !.section = None]
<1>1. /\ frames # << >> /\ Inner.section # None
      /\ TopBecomes(f) /\ threshold' = Inner.section
      /\ UNCHANGED <<deviceVars, sourcePrio, sourceOn, sourcePending, inService, handlers, sysMax,
                   taskVars, nesting>>
  BY DEF ExitFromIsr, IrqcSetThreshold, PlicSetThreshold
<1>2. Inner \in Frames /\ Inner.section = Inner.level /\ (nesting => ~Inner.woken)
  BY <1>1, InnerIs
<1>3. f = [irq |-> Inner.irq, saved |-> Inner.saved, level |-> Inner.level, section |-> None,
           woken |-> Inner.woken]
  BY <1>2 DEF Frames
<1> HIDE DEF f
<1>4. Inner.level \in Nat \ {0} /\ Inner.irq \in Sources /\ Inner.saved \in Nat /\ Inner.woken \in BOOLEAN
  BY <1>2 DEF Frames
<1>5. f \in Frames
  BY <1>3, <1>4 DEF Frames
<1>6. f.section = None
  BY <1>3
<1>7. marked' = marked /\ marked \in BOOLEAN /\ (nesting => ~marked)
  BY <1>1 DEF IrqInv, taskVars
<1>8. threshold' = f.level /\ f.irq = Inner.irq /\ f.saved = Inner.saved /\ f.level = Inner.level /\ f.woken = Inner.woken
  BY <1>1, <1>2, <1>3
<1> QED
  BY <1>1, <1>2, <1>5, <1>6, <1>7, <1>8, TopChanged DEF taskVars

LEMMA WokenBecomes ==
    ASSUME NEW r \in Frames, NEW w
    PROVE  [r EXCEPT !.woken = w]
           = [irq |-> r.irq, saved |-> r.saved, level |-> r.level, section |-> r.section, woken |-> w]
BY DEF Frames

LEMMA NotifyWokenNests ==
    ASSUME ~WakeWhileNesting, IrqInv, NEW deferred \in BOOLEAN, NotifyWoken(deferred)
    PROVE  IrqInv'
<1> DEFINE f == [Inner EXCEPT !.woken = TRUE]
<1>1. /\ frames # << >> /\ ~nesting
      /\ UNCHANGED <<deviceVars, plicVars, handlers, sysMax, current, parked, nesting>>
  BY DEF NotifyWoken, MayCallKernel, InHandler
<1>2. CASE deferred
  <2>1. TopBecomes(f) /\ UNCHANGED marked
    BY <1>2 DEF NotifyWoken
  <2>2. /\ Inner \in Frames /\ threshold = (IF Inner.section # None THEN sysMax ELSE Inner.level)
        /\ Inner.section # None => Inner.section = Inner.level /\ Inner.level <= sysMax
    BY <1>1, InnerIs
  <2>3. f = [irq |-> Inner.irq, saved |-> Inner.saved, level |-> Inner.level, section |-> Inner.section,
             woken |-> TRUE]
    BY <2>2, WokenBecomes
  <2> HIDE DEF f
  <2>4. /\ Inner.level \in Nat \ {0} /\ Inner.irq \in Sources /\ Inner.saved \in Nat
        /\ Inner.section \in Nat \cup {None}
    BY <2>2 DEF Frames
  <2>5. f \in Frames
    BY <2>3, <2>4 DEF Frames
  <2>6. /\ f.section = Inner.section /\ f.irq = Inner.irq /\ f.saved = Inner.saved /\ f.level = Inner.level
    BY <2>3
  <2>7. marked' = marked /\ marked \in BOOLEAN /\ (nesting => ~marked)
    BY <2>1 DEF IrqInv
  <2> QED
    BY <1>1, <2>1, <2>2, <2>5, <2>6, <2>7, TopChanged DEF plicVars
<1>3. CASE ~deferred
  <2>1. marked' = TRUE /\ UNCHANGED frames
    BY <1>3 DEF NotifyWoken
  <2>2. DevInv' /\ frozen' = frozen
    BY <1>1, DevInvSame DEF IrqInv, deviceVars
  <2>3. FramesOK(frames', sysMax', threshold', inService')
    <3>1. FramesOK(frames, sysMax, threshold, inService)
      BY Zenon DEF IrqInv
    <3> QED
      BY <1>1, <2>1, <3>1 DEF plicVars
  <2> QED
    BY <1>1, <2>1, <2>2, <2>3 DEF IrqInv, plicVars
<1> QED
  BY <1>2, <1>3

LEMMA YieldFromIsrNests == ASSUME IrqInv, YieldFromIsr PROVE IrqInv'
<1> DEFINE f == [Inner EXCEPT !.woken = FALSE]
<1>1. /\ frames # << >> /\ Inner.woken
      /\ marked' = TRUE /\ TopBecomes(f)
      /\ UNCHANGED <<deviceVars, plicVars, handlers, sysMax, current, parked, nesting>>
  BY DEF YieldFromIsr
<1>2. /\ Inner \in Frames /\ threshold = (IF Inner.section # None THEN sysMax ELSE Inner.level)
      /\ Inner.section # None => Inner.section = Inner.level /\ Inner.level <= sysMax
      /\ ~nesting
  BY <1>1, InnerIs
<1>3. f = [irq |-> Inner.irq, saved |-> Inner.saved, level |-> Inner.level, section |-> Inner.section,
           woken |-> FALSE]
  BY <1>2, WokenBecomes
<1> HIDE DEF f
<1>4. /\ Inner.level \in Nat \ {0} /\ Inner.irq \in Sources /\ Inner.saved \in Nat
      /\ Inner.section \in Nat \cup {None}
  BY <1>2 DEF Frames
<1>5. f \in Frames
  BY <1>3, <1>4 DEF Frames
<1>6. /\ f.section = Inner.section /\ f.irq = Inner.irq /\ f.saved = Inner.saved /\ f.level = Inner.level
  BY <1>3
<1> QED
  BY <1>1, <1>2, <1>5, <1>6, TopChanged DEF plicVars

LEMMA LeaveExternalNests == ASSUME IrqInv, LeaveExternal PROVE IrqInv'
<1>1. /\ frames # << >>
      /\ threshold' = Inner.saved /\ inService' = inService \ {Inner.irq}
      /\ TrapTail(Outer)
      /\ UNCHANGED <<deviceVars, sourcePrio, sourceOn, sourcePending, handlers, sysMax, nesting>>
  BY DEF LeaveExternal, PlicSetThreshold, PlicComplete
<1>2. FramesOK(Outer, sysMax, threshold', inService') /\ sysMax \in Nat
  <2>1. FramesOK(frames, sysMax, threshold, inService) /\ sysMax \in Nat
    BY DEF IrqInv
  <2> QED
    BY <1>1, <2>1, HandlerLeft DEF Outer, Inner
<1>3. frames \in Seq(Frames)
  BY DEF IrqInv, FramesOK
<1>4. PICK n \in Nat : n + 1 = Len(frames)
  <2>1. Len(frames) \in Nat /\ Len(frames) # 0
    BY <1>1, <1>3
  <2>2. Len(frames) - 1 \in Nat /\ (Len(frames) - 1) + 1 = Len(frames)
    BY <2>1
  <2> QED
    BY <2>2, Zenon
<1>5. Outer \in Seq(Frames) /\ Len(Outer) = n /\ \A i \in 1..n : Outer[i] = frames[i] /\ i \in 1..(n + 1)
  BY <1>3, <1>4 DEF Front, Outer
<1>6. ~nesting => Outer = << >>
  <2>1. ~nesting => n = 0
    BY <1>4 DEF IrqInv
  <2> QED
    BY <1>5, <2>1
<1>7. frames' = Outer /\ parked' = parked /\ (marked' = marked \/ marked' = FALSE)
  <2>1. CASE ~marked
    BY <1>1, <2>1 DEF TrapTail, taskVars
  <2>2. CASE marked
    <3>1. Outer = << >>
      BY <1>6, <2>2 DEF IrqInv
    <3>2. parked = [t \in IrqTasks |-> << >>]
      BY DEF IrqInv
    <3>3. [parked EXCEPT ![current] = Outer] = parked
      BY <3>1, <3>2
    <3>4. PICK t \in IrqTasks : /\ marked' = FALSE /\ frames' = parked[t]
                                /\ parked' = [parked EXCEPT ![t] = << >>]
      BY <1>1, <2>2, <3>3 DEF TrapTail
    <3> QED
      BY <3>1, <3>2, <3>4
  <2> QED
    BY <2>1, <2>2
<1>8. FramesOK(frames', sysMax', threshold', inService')
  BY <1>1, <1>2, <1>7
<1>9. DevInv' /\ frozen'
  BY <1>1, DevInvSame, InnerIs DEF IrqInv, deviceVars
<1>10. nesting' => ~marked' /\ \A i \in 1..Len(frames') : ~frames'[i].woken
  <2>1. nesting => ~marked /\ \A i \in 1..(n + 1) : ~frames[i].woken
    BY <1>4 DEF IrqInv
  <2> QED
    BY <1>1, <1>5, <1>7, <2>1
<1>11. ~nesting' => Len(frames') <= 1
  BY <1>1, <1>4, <1>5, <1>7 DEF IrqInv
<1>12. /\ sourcePrio' \in [Sources -> 0..MaxIrqPrio] /\ sourcePending' \subseteq Sources
       /\ sysMax' \in Nat /\ marked' \in BOOLEAN /\ parked' = [t \in IrqTasks |-> << >>]
       /\ sourcePending' \cap inService' = {}
  BY <1>1, <1>7 DEF IrqInv
<1> QED
  BY <1>8, <1>9, <1>10, <1>11, <1>12 DEF IrqInv

LEMMA YieldTrapNests == ASSUME IrqInv, YieldTrap PROVE IrqInv'
<1>1. PICK t \in IrqTasks : frames' = parked[t] /\ parked' = [parked EXCEPT ![t] = << >>]
  BY DEF YieldTrap
<1>2. frames = << >> /\ UNCHANGED <<deviceVars, plicVars, handlers, sysMax, marked, nesting>>
  BY DEF YieldTrap
<1>3. frames' = frames /\ parked' = parked
  BY <1>1, <1>2 DEF IrqInv
<1>4. DevInv' /\ frozen' = frozen
  BY <1>2, DevInvSame DEF IrqInv, deviceVars
<1> QED
  BY <1>2, <1>3, <1>4, FramesStay DEF IrqInv, plicVars

LEMMA InterruptStepNests ==
    ASSUME InterruptAssumption, DeviceAssumption, NamesTellClass, ~WakeWhileNesting, IrqInv, InterruptStep
    PROVE  IrqInv'
<1>1. CASE \E worked \in Outcomes : Boot(worked)
  BY <1>1, BootKeeps
<1>2. CASE \E d \in Extras : Register(d) /\ UNCHANGED <<plicVars, handlers, sysMax, frames, taskVars, nesting>>
  BY <1>2, RegisterNests
<1>3. CASE \E s \in Sources :
            \/ \E p \in 0..MaxIrqPrio, enable \in BOOLEAN : Configure(s, p, enable)
            \/ RegisterHandler(s) \/ UnregisterHandler(s) \/ RaiseLine(s)
  BY <1>3, SourcesNest
<1>4. CASE \E p \in SyscallMaxes : SetSyscallMax(p)
  BY <1>4, SetSyscallMaxNests
<1>5. CASE \E deferred \in BOOLEAN : NotifyWoken(deferred)
  BY <1>5, NotifyWokenNests
<1>6. CASE EnterExternal \/ EnterFromIsr \/ ExitFromIsr
  BY <1>6, EnterExternalNests, EnterFromIsrNests, ExitFromIsrNests
<1>7. CASE YieldFromIsr \/ LeaveExternal \/ YieldTrap
  BY <1>7, YieldFromIsrNests, LeaveExternalNests, YieldTrapNests
<1> QED
  BY <1>1, <1>2, <1>3, <1>4, <1>5, <1>6, <1>7 DEF InterruptStep

(* Where handlers wake no task while handlers nest, and devices of one     *)
(* name are of one class, interrupts nest as they should for every set of  *)
(* sources, priorities and devices: handlers interrupt each other upwards  *)
(* only, each gives back the threshold it found, a section keeps out every *)
(* handler that may call the kernel, and the registry finds what is listed *)
(* (arch_handle_external in plic.c, kernel/irq.c, hal_core.c).             *)
THEOREM HandlersNest ==
    ASSUME NamesTellClass, ~WakeWhileNesting
    PROVE  ServicesSpec => []InterruptsNest
<1>1. InterruptAssumption /\ DeviceAssumption
  BY InterruptAssumption, DeviceAssumption
<1>2. ServicesInit => IrqInv
  BY <1>1, IrqInvInit DEF ServicesInit
<1>3. IrqInv /\ [ServicesNext]_servicesVars => IrqInv'
  <2> SUFFICES ASSUME IrqInv, [ServicesNext]_servicesVars PROVE IrqInv'
    OBVIOUS
  <2>1. UNCHANGED irqVars \/ InterruptStep
    BY DEF ServicesNext, servicesVars
  <2>2. CASE UNCHANGED irqVars
    <3>1. DevInv'
      BY <2>2, DevInvSame DEF IrqInv, irqVars
    <3> QED
      BY <2>2, <3>1, FramesStay DEF IrqInv, irqVars, plicVars, deviceVars
  <2> QED
    BY <1>1, <2>1, <2>2, InterruptStepNests
<1>4. IrqInv => InterruptsNest
  BY <1>1, IrqInvNests
<1> QED
  BY <1>2, <1>3, <1>4, PTL DEF ServicesSpec

-----------------------------------------------------------------------------
(* The start of the cores.                                                 *)

(* The task the kernel starts with is bound to core 0.                     *)
FirstIsPinned == Head(BootTasks) \in BootPinned
(* Only one other core can take what is in the lists of core 0.            *)
TwoCores == \A c, d \in BuiltCores \ {0} : c = d

BootPoints == {"reset", "wiping", "clean", "main", "creating", "daemon", "publishing", "choosing",
               "taking", "up", "delaying", "dead", "polling", "inC"}
Made == point[0] \in {"daemon", "publishing", "choosing", "taking", "up"}

BootTypes ==
    /\ point \in [Harts -> BootPoints]
    /\ bootSync \in BOOLEAN /\ schedRun \in BOOLEAN /\ bssClean \in BOOLEAN /\ idlesMade \in BOOLEAN
    /\ bootCurrent \in [BuiltCores -> AllTasks \cup {Idle, NoneYet}]
    /\ stolen \in [BuiltCores -> AllTasks \cup {NoneYet}]
    /\ bootState \in [AllTasks -> {"FREE", "READY", "RUNNING"}]
    /\ listedOn \in [AllTasks -> BuiltCores \cup {NoList}]

(* What a hart can be sure of from how far it and hart 0 have come.        *)
FlagsOK ==
    /\ point[0] \notin {"delaying", "dead", "polling", "inC"}
    /\ bssClean <=> point[0] \notin {"reset", "wiping"}
    /\ idlesMade <=> Made
    /\ point[0] \in {"wiping", "clean"} => ~bootSync
    /\ bssClean /\ schedRun => point[0] \in {"choosing", "taking", "up"}
    /\ \A h \in Harts \ {0} :
         /\ point[h] = "up" => h \in BuiltCores /\ idlesMade
         /\ point[h] \in {"inC", "up"} => bssClean
         /\ point[0] = "reset" => point[h] \notin {"polling", "inC", "up"}

Nowhere(t) == \A c \in BuiltCores : bootCurrent[c] # t
OnlyOn(t, c) == bootCurrent[c] = t /\ \A d \in BuiltCores : bootCurrent[d] = t => d = c
TaskPlaced(t) ==
    /\ bootState[t] = "FREE" => listedOn[t] = NoList /\ Nowhere(t)
    /\ bootState[t] = "READY" => listedOn[t] \in BuiltCores /\ Nowhere(t)
    /\ bootState[t] = "RUNNING" => listedOn[t] = NoList /\ \E c \in BuiltCores : OnlyOn(t, c)

Seated == \A c \in BuiltCores : point[c] # "up" => bootCurrent[c] \notin AllTasks
AllMade == Made => \A t \in AllTasks : bootState[t] = "FREE" => t = Daemon
PinnedStay ==
    point[0] # "up" =>
        \A t \in BootPinned : bootState[t] # "FREE" => bootState[t] = "READY" /\ listedOn[t] = 0
StolenWait ==
    \A c \in BuiltCores : stolen[c] # NoneYet =>
        /\ c # 0 /\ stolen[c] \in AllTasks \ BootPinned
        /\ bootState[stolen[c]] = "READY" /\ listedOn[stolen[c]] = 0
FirstFound == point[0] = "taking" => first = Head(BootTasks)

BootInv ==
    /\ BootTypes /\ FlagsOK /\ (\A t \in AllTasks : TaskPlaced(t))
    /\ Seated /\ AllMade /\ PinnedStay /\ StolenWait /\ FirstFound

LEMMA BootConstants ==
    ASSUME BootAssumption
    PROVE  /\ 0 \in BuiltCores /\ BuiltCores \subseteq Harts /\ BuiltCores \subseteq Nat /\ 0 \in Harts
           /\ NoList \notin BuiltCores /\ Idle \notin AllTasks /\ NoneYet \notin AllTasks
           /\ BootPinned \subseteq AllTasks /\ Daemon \in AllTasks /\ Daemon \notin BootPinned
           /\ BootTasks \in Seq(AllTasks) /\ BootTasks # << >>
           /\ Len(BootTasks) \in Nat \ {0} /\ Head(BootTasks) = BootTasks[1] /\ Head(BootTasks) \in AllTasks
<1>1. BootTasks # << >>
  BY DEF BootAssumption, ToSet
<1>2. BootTasks \in Seq(AllTasks)
  BY DEF BootAssumption, AllTasks
<1>3. /\ Len(BootTasks) \in Nat \ {0} /\ Head(BootTasks) = BootTasks[1] /\ Head(BootTasks) \in AllTasks
  BY <1>1, <1>2
<1> QED
  BY <1>1, <1>2, <1>3 DEF BootAssumption, AllTasks, NoList

LEMMA BootInvIsSound == ASSUME BootAssumption, BootInv PROVE BootSound
<1>1. \A h \in Harts : point[h] \in {"inC", "up"} => bssClean
  BY DEF BootInv, FlagsOK
<1>2. \A h \in Harts : point[h] = "up" => h \in BuiltCores /\ idlesMade
  BY BootConstants DEF BootInv, FlagsOK, Made
<1>3. ASSUME NEW t \in AllTasks
      PROVE  /\ Cardinality({c \in BuiltCores : bootCurrent[c] = t}) = IF bootState[t] = "RUNNING" THEN 1 ELSE 0
             /\ bootState[t] = "READY" <=> listedOn[t] # NoList
  <2>1. TaskPlaced(t) /\ bootState[t] \in {"FREE", "READY", "RUNNING"} /\ NoList \notin BuiltCores
    BY BootConstants DEF BootInv, BootTypes
  <2>2. bootState[t] = "READY" <=> listedOn[t] # NoList
    BY <2>1 DEF TaskPlaced
  <2>3. CASE bootState[t] = "RUNNING"
    <3>1. PICK c \in BuiltCores : OnlyOn(t, c)
      BY <2>1, <2>3 DEF TaskPlaced
    <3>2. {d \in BuiltCores : bootCurrent[d] = t} = {c}
      BY <3>1 DEF OnlyOn
    <3> QED
      BY <2>2, <2>3, <3>2, FS_Singleton
  <2>4. CASE bootState[t] # "RUNNING"
    <3>1. {d \in BuiltCores : bootCurrent[d] = t} = {}
      BY <2>1, <2>4 DEF TaskPlaced, Nowhere
    <3> QED
      BY <2>2, <2>4, <3>1, FS_EmptySet
  <2> QED
    BY <2>3, <2>4
<1> QED
  BY <1>1, <1>2, <1>3 DEF BootSound

LEMMA BootInvInit == ASSUME BootAssumption, BootInit PROVE BootInv
<1>1. BootTypes
  BY DEF BootInit, BootTypes, BootPoints
<1>2. FlagsOK /\ AllMade /\ PinnedStay /\ StolenWait /\ FirstFound
  BY BootConstants DEF BootInit, FlagsOK, Made, AllMade, PinnedStay, StolenWait, FirstFound
<1>3. Seated /\ \A t \in AllTasks : TaskPlaced(t)
  BY BootConstants DEF BootInit, Seated, TaskPlaced, Nowhere
<1> QED
  BY <1>1, <1>2, <1>3 DEF BootInv

(* The flags, for every step of hart 0 and of the others.                  *)
PointOK == point \in [Harts -> BootPoints] /\ FlagsOK

LEMMA FlagStep0 ==
    ASSUME BootAssumption, PointOK,
           InvalidateMagic \/ WipeBss \/ ReleaseSecondaries \/ KernelInit \/ Publish
    PROVE  /\ PointOK' /\ UNCHANGED taskParts /\ (Made' <=> Made) /\ (point'[0] = "up" <=> point[0] = "up")
           /\ \A h \in Harts : point[h] = "up" => point'[h] = "up"
           /\ point'[0] = "taking" => point[0] = "taking"
<1>0. 0 \in Harts /\ point \in [Harts -> BootPoints] /\ FlagsOK
  BY BootConstants DEF PointOK
<1>1. CASE InvalidateMagic
  BY <1>0, <1>1 DEF InvalidateMagic, Passes, PointOK, FlagsOK, Made, BootPoints, taskParts
<1>2. CASE WipeBss
  BY <1>0, <1>2 DEF WipeBss, Passes, PointOK, FlagsOK, Made, BootPoints, taskParts
<1>3. CASE ReleaseSecondaries
  BY <1>0, <1>3 DEF ReleaseSecondaries, Passes, PointOK, FlagsOK, Made, BootPoints, taskParts
<1>4. CASE KernelInit
  BY <1>0, <1>4 DEF KernelInit, KickSecondaries, Passes, PointOK, FlagsOK, Made, BootPoints, taskParts
<1>5. CASE Publish
  BY <1>0, <1>5 DEF Publish, Passes, PointOK, FlagsOK, Made, BootPoints, taskParts
<1> QED
  BY <1>1, <1>2, <1>3, <1>4, <1>5

LEMMA FlagStepH ==
    ASSUME BootAssumption, PointOK, NEW h \in Harts \ {0}, HartStarts(h) \/ DelayEnds(h) \/ SeesMagic(h)
    PROVE  /\ PointOK' /\ UNCHANGED taskParts /\ (Made' <=> Made) /\ point'[0] = point[0]
           /\ \A g \in Harts : point[g] = "up" => point'[g] = "up"
<1>0. 0 \in Harts /\ h # 0 /\ point \in [Harts -> BootPoints] /\ FlagsOK
  BY BootConstants DEF PointOK
<1>1. CASE HartStarts(h)
  BY <1>0, <1>1 DEF HartStarts, Passes, PointOK, FlagsOK, Made, BootPoints, taskParts, bootFlags
<1>2. CASE DelayEnds(h)
  BY <1>0, <1>2 DEF DelayEnds, Passes, PointOK, FlagsOK, Made, BootPoints, taskParts, bootFlags
<1>3. CASE SeesMagic(h)
  BY <1>0, <1>3 DEF SeesMagic, Passes, PointOK, FlagsOK, Made, BootPoints, taskParts, bootFlags
<1> QED
  BY <1>1, <1>2, <1>3

LEMMA FlagsBoolean ==
    ASSUME BootTypes, BootStep
    PROVE  bootSync' \in BOOLEAN /\ schedRun' \in BOOLEAN /\ bssClean' \in BOOLEAN /\ idlesMade' \in BOOLEAN
BY DEF BootTypes, BootStep, InvalidateMagic, WipeBss, ReleaseSecondaries, KernelInit, KickSecondaries,
       InitIdleTasks, Publish, ChooseFirst, StartFirst, CreateAtBoot, HartStarts, DelayEnds, SeesMagic,
       StartSecondary, StealAtIdle, MigrateHere, HandleIpi, SliceEnds, Switched, bootFlags

(* A hart moves on and no task does.                                       *)
LEMMA HartMoves ==
    ASSUME BootAssumption, BootInv, BootTypes', FlagsOK', UNCHANGED taskParts,
           \A h \in Harts : point[h] = "up" => point'[h] = "up",
           Made' => Made, point'[0] = "up" <=> point[0] = "up", point'[0] = "taking" => point[0] = "taking"
    PROVE  BootInv'
<1>1. ASSUME NEW t \in AllTasks PROVE TaskPlaced(t)'
  <2>1. TaskPlaced(t) /\ UNCHANGED <<bootCurrent, bootState, listedOn>>
    BY DEF BootInv, taskParts
  <2> QED
    BY <2>1 DEF TaskPlaced, Nowhere, OnlyOn
<1>2. Seated'
  BY BootConstants DEF BootInv, Seated, taskParts
<1>3. AllMade' /\ PinnedStay' /\ StolenWait' /\ FirstFound'
  BY DEF BootInv, AllMade, PinnedStay, StolenWait, FirstFound, taskParts
<1> QED
  BY <1>1, <1>2, <1>3 DEF BootInv

LEMMA FlagStepsKeep ==
    ASSUME BootAssumption, BootInv, BootStep,
           \/ InvalidateMagic \/ WipeBss \/ ReleaseSecondaries \/ KernelInit \/ Publish
           \/ \E h \in Harts \ {0} : HartStarts(h) \/ DelayEnds(h) \/ SeesMagic(h)
    PROVE  BootInv'
<1>1. PointOK
  BY DEF BootInv, BootTypes, PointOK
<1>2. /\ PointOK' /\ UNCHANGED taskParts /\ (Made' <=> Made) /\ (point'[0] = "up" <=> point[0] = "up")
      /\ \A h \in Harts : point[h] = "up" => point'[h] = "up"
      /\ point'[0] = "taking" => point[0] = "taking"
  <2>1. CASE InvalidateMagic \/ WipeBss \/ ReleaseSecondaries \/ KernelInit \/ Publish
    BY <1>1, <2>1, FlagStep0
  <2>2. ASSUME NEW h \in Harts \ {0}, HartStarts(h) \/ DelayEnds(h) \/ SeesMagic(h)
        PROVE  /\ PointOK' /\ UNCHANGED taskParts /\ (Made' <=> Made) /\ point'[0] = point[0]
               /\ \A g \in Harts : point[g] = "up" => point'[g] = "up"
    BY <1>1, <2>2, FlagStepH
  <2> QED
    BY <2>1, <2>2
<1>3. BootTypes'
  BY <1>2, FlagsBoolean DEF BootInv, BootTypes, PointOK, taskParts
<1> QED
  BY <1>2, <1>3, HartMoves DEF PointOK

(* A task comes to the list of core 0.                                     *)
LEMMA CreateAtBootKeeps ==
    ASSUME BootAssumption, BootInv, BootStep, NEW t \in AllTasks, CreateAtBoot(t)
    PROVE  BootInv'
<1>0. BootTypes /\ FlagsOK
  BY DEF BootInv
<1>1. PICK i : /\ i = SelectInSeq(BootTasks, LAMBDA u : bootState[u] = "FREE" /\ (u = Daemon <=> t = Daemon))
               /\ i # 0 /\ t = BootTasks[i]
  BY DEF CreateAtBoot
<1>2. bootState[t] = "FREE"
  <2> DEFINE I == {k \in 1..Len(BootTasks) : /\ bootState[BootTasks[k]] = "FREE"
                                             /\ BootTasks[k] = Daemon <=> t = Daemon}
  <2>1. i = IF I # {} THEN Min(I) ELSE 0
    BY <1>1 DEF SelectInSeq
  <2>2. I \in SUBSET (Nat \ {0})
    OBVIOUS
  <2> HIDE DEF I
  <2>3. i \in I
    BY <1>1, <2>1, <2>2, FoundFirst
  <2> QED
    BY <1>1, <2>3 DEF I
<1>3. /\ bootState' = [bootState EXCEPT ![t] = "READY"] /\ listedOn' = [listedOn EXCEPT ![t] = 0]
      /\ UNCHANGED <<bootFlags, bootCurrent, first, stolen>>
      /\ point' = point \/ (t = Daemon /\ point[0] = "daemon" /\ point' = [point EXCEPT ![0] = "publishing"])
  <2>1. point[0] = "creating" \/ point[0] = "daemon"
    BY DEF CreateAtBoot
  <2>2. point' = [point EXCEPT ![0] = IF t = Daemon THEN "publishing" ELSE @]
    BY DEF CreateAtBoot
  <2> QED
    BY <1>0, <2>2 DEF CreateAtBoot, BootTypes
<1>4. /\ point' \in [Harts -> BootPoints] /\ (Made' <=> Made)
      /\ point'[0] # "up" /\ point[0] # "up" /\ point'[0] # "taking"
      /\ \A h \in Harts : point'[h] = "up" <=> point[h] = "up"
  <2>1. point[0] \in {"creating", "daemon"} /\ 0 \in Harts
    BY BootConstants DEF CreateAtBoot
  <2> QED
    BY <1>0, <1>3, <2>1 DEF BootTypes, BootPoints, Made
<1>5. BootTypes'
  BY <1>0, <1>3, <1>4, FlagsBoolean, BootConstants DEF BootTypes
<1>6. FlagsOK'
  <2>1. CASE point' = point
    BY <1>0, <1>3, <2>1 DEF FlagsOK, Made, bootFlags
  <2>2. CASE point' # point
    BY <1>0, <1>3, <2>2, BootConstants DEF FlagsOK, Made, bootFlags, BootTypes
  <2> QED
    BY <2>1, <2>2
<1>7. \A u \in AllTasks : TaskPlaced(u)'
  <2>1. TaskPlaced(t)'
    BY <1>0, <1>2, <1>3, BootConstants DEF BootInv, TaskPlaced, Nowhere, BootTypes
  <2>2. ASSUME NEW u \in AllTasks, u # t PROVE TaskPlaced(u)'
    BY <1>0, <1>3, <2>2 DEF BootInv, TaskPlaced, Nowhere, OnlyOn, BootTypes
  <2> QED
    BY <2>1, <2>2
<1>8. Seated'
  BY <1>3, <1>4, BootConstants DEF BootInv, Seated
<1>9. AllMade' /\ PinnedStay' /\ FirstFound'
  BY <1>0, <1>3, <1>4, BootConstants DEF BootInv, AllMade, PinnedStay, FirstFound, BootTypes
<1>10. StolenWait'
  BY <1>0, <1>3 DEF BootInv, StolenWait, BootTypes
<1> QED
  BY <1>5, <1>6, <1>7, <1>8, <1>9, <1>10 DEF BootInv

(* Until the idle tasks are made nobody is up.                             *)
LEMMA InitIdleKeeps ==
    ASSUME BootAssumption, BootInv, BootStep, InitIdleTasks
    PROVE  BootInv'
<1>0. BootTypes /\ FlagsOK /\ 0 \in Harts
  BY BootConstants DEF BootInv
<1>1. /\ point[0] = "creating" /\ point' = [point EXCEPT ![0] = "daemon"] /\ idlesMade'
      /\ bootCurrent' = [c \in BuiltCores |-> Idle]
      /\ UNCHANGED <<bootSync, schedRun, bssClean, first, stolen, bootState, listedOn>>
      /\ \A t \in AllTasks \ {Daemon} : bootState[t] # "FREE"
  BY DEF InitIdleTasks, Passes
<1>2. \A c \in BuiltCores : bootCurrent[c] \notin AllTasks
  <2>1. \A c \in BuiltCores : point[c] # "up"
    BY <1>0, <1>1, BootConstants DEF FlagsOK, Made
  <2> QED
    BY <2>1 DEF BootInv, Seated
<1>3. BootTypes'
  BY <1>0, <1>1, FlagsBoolean DEF BootTypes, BootPoints
<1>4. FlagsOK'
  BY <1>0, <1>1 DEF FlagsOK, Made, BootTypes
<1>5. \A t \in AllTasks : TaskPlaced(t)'
  BY <1>1, <1>2, BootConstants DEF BootInv, TaskPlaced, Nowhere, OnlyOn
<1>6. Seated'
  BY <1>1, BootConstants DEF Seated
<1>7. AllMade' /\ PinnedStay' /\ StolenWait' /\ FirstFound'
  BY <1>0, <1>1 DEF BootInv, AllMade, PinnedStay, StolenWait, FirstFound, BootTypes
<1> QED
  BY <1>3, <1>4, <1>5, <1>6, <1>7 DEF BootInv

(* The first READY task of the table is the first task of all.             *)
LEMMA ChooseFirstKeeps ==
    ASSUME BootAssumption, FirstIsPinned, BootInv, BootStep, ChooseFirst
    PROVE  BootInv'
<1>0. BootTypes /\ FlagsOK /\ 0 \in Harts
  BY BootConstants DEF BootInv
<1>1. /\ point[0] = "choosing" /\ point' = [point EXCEPT ![0] = "taking"]
      /\ UNCHANGED <<bootFlags, bootCurrent, stolen, bootState, listedOn>>
  BY DEF ChooseFirst, Passes
<1>2. first' = Head(BootTasks)
  <2> DEFINE I == {k \in 1..Len(BootTasks) : bootState[BootTasks[k]] = "READY"}
             found == SelectInSeq(BootTasks, LAMBDA t : bootState[t] = "READY")
  <2>1. found = IF I # {} THEN Min(I) ELSE 0
    BY DEF SelectInSeq
  <2>2. I \in SUBSET (Nat \ {0})
    OBVIOUS
  <2>3. bootState[BootTasks[1]] = "READY"
    <3>1. BootTasks[1] \in BootPinned /\ BootTasks[1] \in AllTasks /\ BootTasks[1] # Daemon
      BY BootConstants DEF FirstIsPinned
    <3>2. bootState[BootTasks[1]] # "FREE"
      BY <1>1, <3>1 DEF BootInv, AllMade, Made
    <3> QED
      BY <1>1, <3>1, <3>2 DEF BootInv, PinnedStay
  <2>4. 1 \in I
    BY <2>3, BootConstants
  <2>5. first' = IF found = 0 THEN Idle ELSE BootTasks[found]
    BY DEF ChooseFirst
  <2> HIDE DEF I, found
  <2>6. found # 0 /\ found \in I /\ found <= 1 /\ found \in Nat
    BY <2>1, <2>2, <2>4, FoundFirst
  <2>7. found = 1
    BY <2>6
  <2> QED
    BY <2>5, <2>7, BootConstants
<1>3. BootTypes'
  BY <1>0, <1>1, FlagsBoolean DEF BootTypes, BootPoints
<1>4. FlagsOK'
  BY <1>0, <1>1 DEF FlagsOK, Made, BootTypes, bootFlags
<1>5. \A t \in AllTasks : TaskPlaced(t)'
  BY <1>1 DEF BootInv, TaskPlaced, Nowhere, OnlyOn
<1>6. Seated'
  BY <1>0, <1>1, BootConstants DEF BootInv, Seated, BootTypes
<1>7. AllMade' /\ PinnedStay' /\ StolenWait' /\ FirstFound'
  BY <1>0, <1>1, <1>2 DEF BootInv, AllMade, PinnedStay, StolenWait, FirstFound, BootTypes, Made
<1> QED
  BY <1>3, <1>4, <1>5, <1>6, <1>7 DEF BootInv

LEMMA StartFirstKeeps ==
    ASSUME BootAssumption, FirstIsPinned, BootInv, BootStep, StartFirst
    PROVE  BootInv'
<1>0. BootTypes /\ FlagsOK /\ 0 \in Harts /\ 0 \in BuiltCores
  BY BootConstants DEF BootInv
<1>1. /\ point[0] = "taking" /\ point' = [point EXCEPT ![0] = "up"]
      /\ bootCurrent' = [bootCurrent EXCEPT ![0] = first]
      /\ bootState' = [t \in AllTasks |-> IF t = first THEN "RUNNING" ELSE bootState[t]]
      /\ listedOn' = [t \in AllTasks |-> IF t = first /\ bootState[t] = "READY" THEN NoList ELSE listedOn[t]]
      /\ UNCHANGED <<bootFlags, first, stolen>>
  BY DEF StartFirst, Passes
<1>2. /\ first \in BootPinned /\ first \in AllTasks /\ first # Daemon
      /\ bootState[first] = "READY" /\ bootCurrent[0] \notin AllTasks
  <2>1. first \in BootPinned /\ first \in AllTasks /\ first # Daemon
    BY <1>1, BootConstants DEF BootInv, FirstFound, FirstIsPinned
  <2>2. bootState[first] # "FREE"
    BY <1>1, <2>1 DEF BootInv, AllMade, Made
  <2>3. bootState[first] = "READY"
    BY <1>1, <2>1, <2>2 DEF BootInv, PinnedStay
  <2>4. bootCurrent[0] \notin AllTasks
    BY <1>0, <1>1 DEF BootInv, Seated
  <2> QED
    BY <2>1, <2>3, <2>4
<1>3. BootTypes'
  BY <1>0, <1>1, <1>2, FlagsBoolean DEF BootTypes, BootPoints
<1>4. FlagsOK'
  BY <1>0, <1>1 DEF FlagsOK, Made, BootTypes, bootFlags
<1>5. ASSUME NEW t \in AllTasks PROVE TaskPlaced(t)'
  <2>0. TaskPlaced(t) /\ TaskPlaced(first) /\ bootState[t] \in {"FREE", "READY", "RUNNING"}
    BY <1>0, <1>2 DEF BootInv, BootTypes
  <2>1. CASE t = first
    <3>1. bootState'[t] = "RUNNING" /\ listedOn'[t] = NoList /\ Nowhere(t)
      BY <1>1, <1>2, <2>0, <2>1 DEF TaskPlaced
    <3>2. OnlyOn(t, 0)'
      BY <1>0, <1>1, <2>1, <3>1 DEF OnlyOn, Nowhere, BootTypes
    <3> QED
      BY <1>0, <3>1, <3>2 DEF TaskPlaced
  <2>2. CASE t # first
    <3>1. bootState'[t] = bootState[t] /\ listedOn'[t] = listedOn[t]
      BY <1>1, <2>2
    <3>2. Nowhere(t) => Nowhere(t)'
      BY <1>0, <1>1, <2>2 DEF Nowhere, BootTypes
    <3>3. ASSUME NEW c \in BuiltCores, OnlyOn(t, c) PROVE OnlyOn(t, c)'
      <4>1. c # 0
        BY <1>2, <3>3 DEF OnlyOn
      <4> QED
        BY <1>0, <1>1, <2>2, <3>3, <4>1 DEF OnlyOn, BootTypes
    <3> QED
      BY <2>0, <3>1, <3>2, <3>3 DEF TaskPlaced
  <2> QED
    BY <2>1, <2>2
<1>6. Seated'
  BY <1>0, <1>1, BootConstants DEF BootInv, Seated, BootTypes
<1>7. AllMade' /\ PinnedStay' /\ FirstFound'
  BY <1>0, <1>1 DEF BootInv, AllMade, PinnedStay, FirstFound, BootTypes, Made
<1>8. StolenWait'
  BY <1>1, <1>2 DEF BootInv, StolenWait
<1> QED
  BY <1>3, <1>4, <1>5, <1>6, <1>7, <1>8 DEF BootInv

LEMMA StartSecondaryKeeps ==
    ASSUME BootAssumption, BootInv, BootStep, NEW h \in Harts, StartSecondary(h)
    PROVE  BootInv'
<1>0. BootTypes /\ FlagsOK /\ 0 \in Harts /\ h \in BuiltCores /\ h # 0
  BY BootConstants DEF BootInv, StartSecondary
<1>1. /\ schedRun /\ point[h] = "inC" /\ point' = [point EXCEPT ![h] = "up"]
      /\ bootCurrent' = [bootCurrent EXCEPT ![h] = Idle]
      /\ UNCHANGED <<bootSync, schedRun, bssClean, idlesMade, first, stolen, bootState, listedOn>>
  BY DEF StartSecondary, Passes
<1>2. bootCurrent[h] \notin AllTasks /\ Idle \notin AllTasks
  BY <1>0, <1>1, BootConstants DEF BootInv, Seated
<1>3. BootTypes'
  BY <1>0, <1>1, FlagsBoolean DEF BootTypes, BootPoints
<1>4. FlagsOK'
  <2>1. bssClean /\ point[0] \in {"choosing", "taking", "up"} /\ idlesMade
    BY <1>0, <1>1 DEF FlagsOK, Made
  <2> QED
    BY <1>0, <1>1, <2>1 DEF FlagsOK, Made, BootTypes
<1>5. ASSUME NEW t \in AllTasks PROVE TaskPlaced(t)'
  <2>1. Nowhere(t) => Nowhere(t)'
    BY <1>0, <1>1, <1>2 DEF Nowhere, BootTypes
  <2>2. ASSUME NEW c \in BuiltCores, OnlyOn(t, c) PROVE OnlyOn(t, c)'
    <3>1. c # h
      BY <1>2, <2>2 DEF OnlyOn
    <3> QED
      BY <1>0, <1>1, <1>2, <2>2, <3>1 DEF OnlyOn, BootTypes
  <2> QED
    BY <1>1, <2>1, <2>2 DEF BootInv, TaskPlaced
<1>6. Seated'
  BY <1>0, <1>1, <1>2, BootConstants DEF BootInv, Seated, BootTypes
<1>7. AllMade' /\ PinnedStay' /\ StolenWait' /\ FirstFound'
  BY <1>0, <1>1 DEF BootInv, AllMade, PinnedStay, StolenWait, FirstFound, BootTypes, Made
<1> QED
  BY <1>3, <1>4, <1>5, <1>6, <1>7 DEF BootInv

(* What the other core does while hart 0 is on its way: the harts stay,    *)
(* and what is bound to core 0 stays with it.                              *)
LEMMA WhileBootingKeeps ==
    ASSUME BootAssumption, BootInv, UNCHANGED <<point, bootFlags, first>>, point[0] # "up",
           bootState' \in [AllTasks -> {"FREE", "READY", "RUNNING"}],
           listedOn' \in [AllTasks -> BuiltCores \cup {NoList}],
           bootCurrent' \in [BuiltCores -> AllTasks \cup {Idle, NoneYet}],
           stolen' \in [BuiltCores -> AllTasks \cup {NoneYet}],
           \A t \in AllTasks : TaskPlaced(t)', StolenWait',
           \A c \in BuiltCores : point[c] # "up" => bootCurrent'[c] = bootCurrent[c],
           \A t \in AllTasks : bootState'[t] = "FREE" <=> bootState[t] = "FREE",
           \A t \in BootPinned : bootState'[t] = bootState[t] /\ listedOn'[t] = listedOn[t]
    PROVE  BootInv'
<1>1. BootTypes' /\ FlagsOK'
  BY DEF BootInv, BootTypes, FlagsOK, Made, bootFlags
<1>2. Seated' /\ AllMade' /\ PinnedStay' /\ FirstFound'
  BY DEF BootInv, Seated, AllMade, PinnedStay, FirstFound, Made
<1> QED
  BY <1>1, <1>2 DEF BootInv

LEMMA StealKeeps ==
    ASSUME BootAssumption, BootInv, NEW c \in BuiltCores, StealAtIdle(c)
    PROVE  BootInv'
<1>0. BootTypes
  BY DEF BootInv
<1>1. /\ c # 0 /\ point[0] # "up"
      /\ UNCHANGED <<point, bootFlags, bootCurrent, first, bootState, listedOn>>
  BY DEF StealAtIdle, WhileBooting
<1>2. PICK t \in Listed(0) \ BootPinned : stolen' = [stolen EXCEPT ![c] = t]
  BY DEF StealAtIdle
<1>3. t \in AllTasks /\ t \notin BootPinned /\ bootState[t] = "READY"
  <2>1. t \in AllTasks /\ listedOn[t] = 0 /\ 0 # NoList
    BY <1>2 DEF Listed, NoList
  <2> QED
    BY <1>0, <1>2, <2>1 DEF BootInv, TaskPlaced, BootTypes
<1>4. stolen' \in [BuiltCores -> AllTasks \cup {NoneYet}] /\ StolenWait'
  <2>1. listedOn[t] = 0 /\ StolenWait /\ stolen \in [BuiltCores -> AllTasks \cup {NoneYet}]
    BY <1>0, <1>2 DEF Listed, BootInv, BootTypes
  <2>2. \A d \in BuiltCores : stolen'[d] = IF d = c THEN t ELSE stolen[d]
    BY <1>2, <2>1
  <2>3. stolen' \in [BuiltCores -> AllTasks \cup {NoneYet}]
    BY <1>2, <1>3, <2>1
  <2>4. ASSUME NEW d \in BuiltCores, stolen'[d] # NoneYet
        PROVE  /\ d # 0 /\ stolen'[d] \in AllTasks \ BootPinned
               /\ bootState[stolen'[d]] = "READY" /\ listedOn[stolen'[d]] = 0
    <3>1. CASE d = c
      BY <1>1, <1>3, <2>1, <2>2, <3>1
    <3>2. CASE d # c
      BY <2>1, <2>2, <2>4, <3>2 DEF StolenWait
    <3> QED
      BY <3>1, <3>2
  <2> QED
    BY <1>1, <2>3, <2>4 DEF StolenWait
<1>5. \A u \in AllTasks : TaskPlaced(u)'
  BY <1>1 DEF BootInv, TaskPlaced, Nowhere, OnlyOn
<1> QED
  BY <1>0, <1>1, <1>4, <1>5, WhileBootingKeeps DEF BootTypes

LEMMA MigrateKeeps ==
    ASSUME BootAssumption, TwoCores, BootInv, NEW c \in BuiltCores, MigrateHere(c)
    PROVE  BootInv'
<1>0. BootTypes /\ StolenWait /\ NoneYet \notin AllTasks
  BY BootConstants DEF BootInv
<1> DEFINE t == stolen[c]
<1>1. /\ c # 0 /\ point[0] # "up" /\ t # NoneYet
      /\ bootState' = [bootState EXCEPT ![t] = "READY"] /\ listedOn' = [listedOn EXCEPT ![t] = c]
      /\ stolen' = [stolen EXCEPT ![c] = NoneYet]
      /\ UNCHANGED <<point, bootFlags, bootCurrent, first>>
  BY DEF MigrateHere, WhileBooting
<1>2. t \in AllTasks /\ t \notin BootPinned /\ bootState[t] = "READY"
  BY <1>0, <1>1 DEF StolenWait
<1> HIDE DEF t
<1>3. bootState' = bootState
  BY <1>0, <1>1, <1>2 DEF BootTypes
<1>4. listedOn' \in [AllTasks -> BuiltCores \cup {NoList}] /\ stolen' \in [BuiltCores -> AllTasks \cup {NoneYet}]
  BY <1>0, <1>1, <1>2 DEF BootTypes
<1>5. StolenWait'
  <2>1. \A d \in BuiltCores : stolen'[d] = NoneYet
    BY <1>0, <1>1 DEF StolenWait, BootTypes, TwoCores
  <2> QED
    BY <2>1 DEF StolenWait
<1>6. ASSUME NEW u \in AllTasks PROVE TaskPlaced(u)'
  <2>1. TaskPlaced(u) /\ TaskPlaced(t)
    BY <1>2 DEF BootInv
  <2>2. (Nowhere(u)' <=> Nowhere(u)) /\ \A d \in BuiltCores : OnlyOn(u, d)' <=> OnlyOn(u, d)
    BY <1>1 DEF Nowhere, OnlyOn
  <2>3. CASE u = t
    BY <1>0, <1>1, <1>2, <1>3, <2>1, <2>2, <2>3 DEF TaskPlaced, BootTypes
  <2>4. CASE u # t
    BY <1>0, <1>1, <1>3, <2>1, <2>2, <2>4 DEF TaskPlaced, BootTypes
  <2> QED
    BY <2>3, <2>4
<1>7. \A u \in BootPinned : listedOn'[u] = listedOn[u]
  BY <1>0, <1>1, <1>2, BootConstants DEF BootTypes
<1> QED
  BY <1>0, <1>1, <1>3, <1>4, <1>5, <1>6, <1>7, WhileBootingKeeps DEF BootTypes

(* A trap of the other core seats a task of its own list.                  *)
LEMMA SwitchedKeeps ==
    ASSUME BootAssumption, TwoCores, BootInv, NEW c \in BuiltCores, WhileBooting(c), Switched(c)
    PROVE  BootInv'
<1> DEFINE cur == bootCurrent[c]
<1>0. /\ BootTypes /\ StolenWait /\ NoneYet \notin AllTasks /\ Idle \notin AllTasks /\ c # NoList
      /\ c # 0 /\ point[0] # "up" /\ point[c] = "up" /\ cur \in AllTasks \cup {Idle, NoneYet}
  BY BootConstants DEF BootInv, WhileBooting, BootTypes
<1>1. PICK new : new = IF Listed(c) = {} THEN cur ELSE CHOOSE t \in Listed(c) : TRUE
  OBVIOUS
<1>2. /\ bootCurrent' = [bootCurrent EXCEPT ![c] = new]
      /\ bootState' = [t \in AllTasks |-> IF t = new THEN "RUNNING"
                                          ELSE IF t = cur THEN "READY" ELSE bootState[t]]
      /\ listedOn' = [t \in AllTasks |-> IF t = new THEN NoList ELSE IF t = cur THEN c ELSE listedOn[t]]
      /\ UNCHANGED <<point, bootFlags, first, stolen>>
  BY <1>1 DEF Switched
<1>3. \/ new = cur
      \/ new \in AllTasks /\ listedOn[new] = c /\ bootState[new] = "READY" /\ Nowhere(new)
  <2>1. CASE Listed(c) = {}
    BY <1>1, <2>1
  <2>2. CASE Listed(c) # {}
    <3>1. new \in AllTasks /\ listedOn[new] = c
      BY <1>1, <2>2 DEF Listed
    <3> QED
      BY <1>0, <3>1 DEF BootInv, TaskPlaced, BootTypes
  <2> QED
    BY <2>1, <2>2
<1> HIDE DEF cur
<1>4. cur = bootCurrent[c]
  BY DEF cur
<1>5. cur \in AllTasks => bootState[cur] = "RUNNING" /\ listedOn[cur] = NoList /\ OnlyOn(cur, c)
  BY <1>0, <1>4 DEF BootInv, TaskPlaced, Nowhere, OnlyOn, BootTypes
<1>6. new \in AllTasks \cup {Idle, NoneYet}
  BY <1>0, <1>3
<1>7. \A u \in BootPinned : u # cur /\ u # new
  <2>1. ASSUME NEW u \in BootPinned PROVE bootState[u] # "FREE" => bootState[u] = "READY" /\ listedOn[u] = 0
    BY <1>0 DEF BootInv, PinnedStay
  <2> QED
    BY <1>0, <1>3, <1>5, <2>1, BootConstants
<1>8. /\ bootState' \in [AllTasks -> {"FREE", "READY", "RUNNING"}]
      /\ listedOn' \in [AllTasks -> BuiltCores \cup {NoList}]
      /\ bootCurrent' \in [BuiltCores -> AllTasks \cup {Idle, NoneYet}]
  BY <1>0, <1>2, <1>6 DEF BootTypes
<1>9. ASSUME NEW t \in AllTasks PROVE TaskPlaced(t)'
  <2>0. TaskPlaced(t)
    BY DEF BootInv
  <2>1. \A d \in BuiltCores : bootCurrent'[d] = IF d = c THEN new ELSE bootCurrent[d]
    BY <1>0, <1>2 DEF BootTypes
  <2>2. CASE t = new
    <3>1. \A d \in BuiltCores : d # c => bootCurrent[d] # t
      BY <1>3, <1>5, <2>2 DEF Nowhere, OnlyOn
    <3>2. OnlyOn(t, c)'
      BY <2>1, <2>2, <3>1 DEF OnlyOn
    <3> QED
      BY <1>2, <2>2, <3>2 DEF TaskPlaced
  <2>3. CASE t # new /\ t = cur
    <3>1. Nowhere(t)'
      BY <1>5, <2>1, <2>3 DEF Nowhere, OnlyOn
    <3>2. bootState'[t] = "READY" /\ listedOn'[t] = c
      BY <1>2, <2>3
    <3> QED
      BY <3>1, <3>2 DEF TaskPlaced
  <2>4. CASE t # new /\ t # cur
    <3>1. bootState'[t] = bootState[t] /\ listedOn'[t] = listedOn[t]
      BY <1>2, <2>4
    <3>2. Nowhere(t) => Nowhere(t)'
      BY <2>1, <2>4 DEF Nowhere
    <3>3. ASSUME NEW d \in BuiltCores, OnlyOn(t, d) PROVE OnlyOn(t, d)'
      BY <1>4, <2>1, <2>4, <3>3 DEF OnlyOn
    <3> QED
      BY <2>0, <3>1, <3>2, <3>3 DEF TaskPlaced
  <2> QED
    BY <2>2, <2>3, <2>4
<1> QED
  <2>0. \A t \in AllTasks : bootState'[t] = "FREE" <=> bootState[t] = "FREE"
    BY <1>0, <1>2, <1>3, <1>5
  <2>1. \A d \in BuiltCores : point[d] # "up" => bootCurrent'[d] = bootCurrent[d]
    BY <1>0, <1>2 DEF BootTypes
  <2>2. \A u \in BootPinned : bootState'[u] = bootState[u] /\ listedOn'[u] = listedOn[u]
    BY <1>2, <1>7, BootConstants
  <2>3. StolenWait'
    <3> SUFFICES ASSUME NEW d \in BuiltCores, stolen[d] # NoneYet,
                        bootState[stolen[d]] = "READY", listedOn[stolen[d]] = 0
                 PROVE  bootState'[stolen[d]] = "READY" /\ listedOn'[stolen[d]] = 0
      <4>1. stolen' = stolen
        BY <1>2
      <4> QED
        BY <1>0, <4>1 DEF StolenWait
    <3>1. stolen[d] \in AllTasks /\ 0 # NoList
      BY <1>0 DEF StolenWait, NoList
    <3>2. d = c
      BY <1>0 DEF StolenWait, TwoCores
    <3>3. stolen[d] # cur
      BY <1>5, <3>1
    <3>4. stolen[d] # new
      BY <1>0, <1>3, <3>3
    <3> QED
      BY <1>2, <3>1, <3>3, <3>4
  <2> QED
    BY <1>0, <1>2, <1>8, <1>9, <2>0, <2>1, <2>2, <2>3, WhileBootingKeeps DEF BootTypes

LEMMA BootStepKeeps ==
    ASSUME BootAssumption, FirstIsPinned, TwoCores, BootInv, BootStep
    PROVE  BootInv'
<1>1. CASE InvalidateMagic \/ WipeBss \/ ReleaseSecondaries \/ KernelInit \/ Publish
  BY <1>1, FlagStepsKeep
<1>2. CASE InitIdleTasks \/ ChooseFirst \/ StartFirst
  BY <1>2, InitIdleKeeps, ChooseFirstKeeps, StartFirstKeeps
<1>3. ASSUME NEW t \in AllTasks, CreateAtBoot(t) PROVE BootInv'
  BY <1>3, CreateAtBootKeeps
<1>4. ASSUME NEW h \in Harts, HartStarts(h) \/ DelayEnds(h) \/ SeesMagic(h) \/ StartSecondary(h)
      PROVE  BootInv'
  <2>1. CASE StartSecondary(h)
    BY <2>1, StartSecondaryKeeps
  <2>2. CASE HartStarts(h) \/ DelayEnds(h) \/ SeesMagic(h)
    <3>1. h # 0
      BY <2>2 DEF HartStarts, DelayEnds, SeesMagic, Passes, BootInv, FlagsOK
    <3> QED
      BY <2>2, <3>1, FlagStepsKeep
  <2> QED
    BY <1>4, <2>1, <2>2
<1>5. ASSUME NEW c \in BuiltCores, StealAtIdle(c) \/ MigrateHere(c) \/ HandleIpi(c) \/ SliceEnds(c)
      PROVE  BootInv'
  BY <1>5, StealKeeps, MigrateKeeps, SwitchedKeeps DEF HandleIpi, SliceEnds
<1> QED
  BY <1>1, <1>2, <1>3, <1>4, <1>5 DEF BootStep

LEMMA BootStutters == ASSUME BootInv, UNCHANGED bootVars PROVE BootInv'
<1> USE DEF bootVars
<1>1. BootTypes' /\ FlagsOK'
  BY DEF BootInv, BootTypes, FlagsOK, Made
<1>2. (\A t \in AllTasks : TaskPlaced(t)') /\ Seated'
  BY DEF BootInv, TaskPlaced, Nowhere, OnlyOn, Seated
<1>3. AllMade' /\ PinnedStay' /\ StolenWait' /\ FirstFound'
  BY DEF BootInv, AllMade, PinnedStay, StolenWait, FirstFound, Made
<1> QED
  BY <1>1, <1>2, <1>3 DEF BootInv

(* However the cores come up, and whatever memory a warm reset leaves, no  *)
(* hart runs C before .bss is wiped, none comes up before the idle tasks   *)
(* are made, and every task has one place: on a core, in a list, or not    *)
(* made yet (startup.S, cgrtos_start, cgrtos_start_secondary).             *)
THEOREM CoresStartSoundly == ASSUME FirstIsPinned, TwoCores PROVE ServicesSpec => []BootSound
<1>1. ServicesInit => BootInv
  BY BootAssumption, BootInvInit DEF ServicesInit
<1>2. BootInv /\ [ServicesNext]_servicesVars => BootInv'
  <2>1. [ServicesNext]_servicesVars => UNCHANGED bootVars \/ BootStep
    BY DEF ServicesNext, servicesVars
  <2>2. BootInv /\ UNCHANGED bootVars => BootInv'
    BY BootStutters
  <2> QED
    BY <2>1, <2>2, BootAssumption, BootStepKeeps
<1>3. BootInv => BootSound
  BY BootAssumption, BootInvIsSound
<1> QED
  BY <1>1, <1>2, <1>3, PTL DEF ServicesSpec
-----------------------------------------------------------------------------
(* The command line.                                                       *)

(* What is typed or completed.                                             *)
Chars == Typed \cup {"/"} \cup
         UNION {UNION {UNION {ToSet(e.name) : e \in L[d]} : d \in DOMAIN L} : L \in Listings}
LineStates == [text : Seq(Chars), cursor : Nat, view : Int, draft : Seq(Chars),
               tabbed : BOOLEAN, cut : BOOLEAN]

HistTypes ==
    /\ hist \in [ring : [0..(HistMax - 1) -> Seq(Chars)], head : 0..(HistMax - 1), len : 0..HistMax]
    /\ entered \in Seq(Seq(Chars)) /\ hist.len <= Len(entered)
    /\ \A k \in 0..(HistMax - 1) : Len(hist.ring[k]) < LineCap
HistHolds == \A v \in 0..(hist.len - 1) : HistGet(v) = entered[Len(entered) - v]
LineFits ==
    /\ edit \in LineStates
    /\ Len(edit.text) < LineCap /\ Len(edit.draft) < LineCap /\ edit.cursor <= Len(edit.text)
    /\ edit.view \in -1..(hist.len - 1)
    /\ edit.view >= 0 /\ ~edit.cut => edit.text = HistGet(edit.view)
    /\ shown # Message => shown = [text |-> edit.text, col |-> edit.cursor]
LineInv == HistTypes /\ HistHolds /\ LineFits

LEMMA LineInvInit == ASSUME LineAssumption, LineInit PROVE LineInv
BY DEF LineAssumption, LineInit, LineInv, HistTypes, HistHolds, LineFits, LineStates, NewLine, Message

LEMMA LineInvKept == ASSUME LineInv PROVE LineKept
<1>1. /\ edit.cursor \in Nat /\ edit.view \in Int /\ edit.text \in Seq(Chars) /\ hist.len \in Nat
      /\ hist.len <= Len(entered) /\ Len(entered) \in Nat
  BY DEF LineInv, LineFits, LineStates, HistTypes
<1>2. ASSUME edit.view >= 0, ~edit.cut
      PROVE  Len(entered) > edit.view /\ edit.text = entered[Len(entered) - edit.view]
  <2>1. edit.view \in 0..(hist.len - 1) /\ edit.text = HistGet(edit.view)
    BY <1>1, <1>2 DEF LineInv, LineFits
  <2> QED
    BY <1>1, <2>1 DEF LineInv, HistHolds
<1> QED
  BY <1>1, <1>2 DEF LineInv, LineFits, LineKept

LEMMA PartOf ==
    ASSUME NEW S, NEW s \in Seq(S), NEW a \in Nat, NEW b \in 0..Len(s)
    PROVE  /\ SubSeq(s, a + 1, b) \in Seq(S)
           /\ Len(SubSeq(s, a + 1, b)) = IF a <= b THEN b - a ELSE 0
<1>1. \A i \in (a + 1)..b : s[i] \in S
  OBVIOUS
<1>2. /\ SubSeq(s, a + 1, b) \in Seq(S)
      /\ Len(SubSeq(s, a + 1, b)) = IF a + 1 <= b THEN b - (a + 1) + 1 ELSE 0
  BY <1>1, SubSeqProperties
<1> QED
  BY <1>2

LEMMA FirstPart ==
    ASSUME NEW S, NEW s \in Seq(S), NEW b \in 0..Len(s)
    PROVE  SubSeq(s, 1, b) \in Seq(S) /\ Len(SubSeq(s, 1, b)) = b
<1>1. 0 \in Nat /\ 0 + 1 = 1
  OBVIOUS
<1>2. SubSeq(s, 0 + 1, b) \in Seq(S) /\ Len(SubSeq(s, 0 + 1, b)) = IF 0 <= b THEN b - 0 ELSE 0
  BY <1>1, PartOf
<1> QED
  BY <1>1, <1>2

LEMMA GreatestUpTo ==
    ASSUME NEW n \in Nat, NEW I \in SUBSET (0..n), I # {}
    PROVE  \E m \in I : \A i \in I : i <= m
<1> DEFINE D == {n - i : i \in I}
<1>1. D \in SUBSET Nat /\ D # {}
  OBVIOUS
<1>2. PICK d \in D : \A k \in D : d <= k
  BY <1>1, LeastNat
<1>3. PICK m \in I : d = n - m
  OBVIOUS
<1>4. ASSUME NEW i \in I PROVE i <= m
  <2>1. n - m <= n - i
    BY <1>2, <1>3
  <2> QED
    BY <2>1
<1> QED
  BY <1>4

(* The history.                                                            *)
HistIndex(v) == (hist.head - 1 - v) % HistMax

LEMMA HistIndexIs ==
    ASSUME LineAssumption, NEW h \in 0..(HistMax - 1), NEW v \in 0..(HistMax - 1)
    PROVE  /\ (h - 1 - v) % HistMax = IF h > v THEN h - v - 1 ELSE h - v - 1 + HistMax
           /\ (h - 1 - v) % HistMax \in 0..(HistMax - 1)
<1>1. HistMax \in Nat \ {0} /\ h - 1 - v = h - v - 1
  BY DEF LineAssumption
<1>2. (h - v - 1) % HistMax = IF h > v THEN h - v - 1 ELSE h - v - 1 + HistMax
  BY <1>1, Distance
<1>3. (IF h > v THEN h - v - 1 ELSE h - v - 1 + HistMax) \in 0..(HistMax - 1)
  BY <1>1
<1> QED
  BY <1>1, <1>2, <1>3

LEMMA HistGetIs ==
    ASSUME LineAssumption, HistTypes, NEW v \in 0..(hist.len - 1)
    PROVE  HistGet(v) \in Seq(Chars) /\ Len(HistGet(v)) < LineCap
<1>1. v \in 0..(HistMax - 1) /\ hist.head \in 0..(HistMax - 1)
  BY DEF HistTypes, LineAssumption
<1>2. HistIndex(v) \in 0..(HistMax - 1)
  BY <1>1, HistIndexIs DEF HistIndex
<1>3. HistGet(v) = hist.ring[HistIndex(v)]
  BY DEF HistGet, HistIndex
<1> HIDE DEF HistIndex
<1> QED
  BY <1>2, <1>3 DEF HistTypes

LEMMA PushKeeps ==
    ASSUME LineAssumption, HistTypes, HistHolds, NEW text \in Seq(Chars), Len(text) < LineCap, HistPush(text),
           entered' = IF text = << >> THEN entered ELSE Append(entered, text)
    PROVE  HistTypes' /\ HistHolds'
<1>1. CASE text = << >>
  BY <1>1 DEF HistPush, HistTypes, HistHolds, HistGet
<1>2. CASE text # << >>
  <2>1. PICK h \in 0..(HistMax - 1) : h = hist.head
    BY DEF HistTypes
  <2>2. PICK n \in 0..HistMax : n = hist.len
    BY DEF HistTypes
  <2>3. PICK succ : succ = (h + 1) % HistMax
    OBVIOUS
  <2>4. HistMax \in Nat \ {0} /\ succ = (IF h = HistMax - 1 THEN 0 ELSE h + 1) /\ succ \in 0..(HistMax - 1)
    <3>1. HistMax \in Nat \ {0}
      BY DEF LineAssumption
    <3>2. (h + 1) % HistMax = IF h = HistMax - 1 THEN 0 ELSE h + 1
      BY <3>1, NextSlot
    <3> QED
      BY <2>3, <3>1, <3>2
  <2>5. /\ hist'.head = succ /\ hist'.len = (IF n < HistMax THEN n + 1 ELSE n)
        /\ hist'.ring = [hist.ring EXCEPT ![h] = text]
        /\ hist' = [ring |-> hist'.ring, head |-> hist'.head, len |-> hist'.len]
    BY <1>2, <2>1, <2>2, <2>3 DEF HistPush
  <2>6. /\ entered' = Append(entered, text) /\ entered \in Seq(Seq(Chars)) /\ n <= Len(entered)
        /\ entered' \in Seq(Seq(Chars)) /\ Len(entered') = Len(entered) + 1
    BY <1>2, <2>2 DEF HistTypes
  <2>7. /\ hist.ring \in [0..(HistMax - 1) -> Seq(Chars)]
        /\ \A k \in 0..(HistMax - 1) : Len(hist.ring[k]) < LineCap
    BY DEF HistTypes
  <2>8. HistTypes'
    <3>1. hist'.ring \in [0..(HistMax - 1) -> Seq(Chars)] /\ \A k \in 0..(HistMax - 1) : Len(hist'.ring[k]) < LineCap
      BY <2>1, <2>5, <2>7
    <3>2. hist'.len \in 0..HistMax /\ hist'.len <= Len(entered')
      BY <2>2, <2>4, <2>5, <2>6
    <3> QED
      BY <2>4, <2>5, <2>6, <3>1, <3>2 DEF HistTypes
  <2>9. ASSUME NEW v \in 0..(hist'.len - 1) PROVE HistGet(v)' = entered'[Len(entered') - v]
    <3>1. v \in 0..(HistMax - 1) /\ v <= n
      BY <2>2, <2>4, <2>5
    <3>2. PICK at1 : at1 = (succ - 1 - v) % HistMax
      OBVIOUS
    <3>3. /\ at1 = IF succ > v THEN succ - v - 1 ELSE succ - v - 1 + HistMax
          /\ HistGet(v)' = hist'.ring[at1]
      BY <2>4, <2>5, <3>1, <3>2, HistIndexIs DEF HistGet
    <3>4. CASE v = 0
      <4>1. at1 = h
        BY <2>1, <2>4, <3>3, <3>4
      <4>2. hist'.ring[at1] = text
        BY <2>1, <2>5, <2>7, <4>1
      <4>3. entered'[Len(entered') - v] = text
        BY <2>6, <3>4
      <4> QED
        BY <3>3, <4>2, <4>3
    <3>5. CASE v # 0
      <4>1. v - 1 \in 0..(n - 1) /\ v - 1 \in 0..(HistMax - 1)
        BY <2>2, <3>1, <3>5
      <4>2. PICK at0 : at0 = (h - 1 - (v - 1)) % HistMax
        OBVIOUS
      <4>3. /\ at0 = IF h > v - 1 THEN h - (v - 1) - 1 ELSE h - (v - 1) - 1 + HistMax
            /\ at0 \in 0..(HistMax - 1)
            /\ HistGet(v - 1) = hist.ring[at0]
        BY <2>1, <4>1, <4>2, HistIndexIs DEF HistGet
      <4>4. at1 = at0 /\ at0 # h
        <5>1. HistMax \in Nat /\ v \in Nat /\ v # 0 /\ v < HistMax /\ h \in Nat /\ h < HistMax
          BY <2>1, <2>4, <3>1, <3>5
        <5>2. at0 = IF h > v - 1 THEN h - v ELSE h - v + HistMax
          BY <4>3, <5>1
        <5>3. CASE h = HistMax - 1
          BY <2>4, <3>3, <5>1, <5>2, <5>3
        <5>4. CASE h # HistMax - 1
          BY <2>4, <3>3, <5>1, <5>2, <5>4
        <5> QED
          BY <5>3, <5>4
      <4>5. hist'.ring[at1] = hist.ring[at0]
        BY <2>5, <2>7, <4>3, <4>4
      <4>6. HistGet(v - 1) = entered[Len(entered) - (v - 1)]
        BY <2>2, <4>1 DEF HistHolds
      <4>7. entered'[Len(entered') - v] = entered[Len(entered) - (v - 1)]
        <5>1. PICK m \in Nat : m = Len(entered)
          BY <2>6
        <5>2. m + 1 - v \in 1..m /\ m + 1 - v = m - (v - 1)
          <6>1. n <= m
            BY <2>6, <5>1
          <6> QED
            BY <3>1, <3>5, <6>1
        <5>3. \A i \in 1..m : Append(entered, text)[i] = entered[i]
          BY <2>6, <5>1
        <5>4. Append(entered, text)[m + 1 - v] = entered[m - (v - 1)]
          BY <5>2, <5>3
        <5>5. entered' = Append(entered, text) /\ Len(entered') = m + 1
          BY <2>6, <5>1
        <5>6. Len(entered') - v = m + 1 - v
          BY <5>5
        <5>7. Len(entered) - (v - 1) = m - (v - 1)
          BY <5>1
        <5> QED
          BY <5>4, <5>5, <5>6, <5>7, Zenon
      <4> QED
        BY <3>3, <4>3, <4>5, <4>6, <4>7
    <3> QED
      BY <3>4, <3>5
  <2> QED
    BY <2>8, <2>9 DEF HistHolds
<1> QED
  BY <1>1, <1>2

(* A key that changes neither the history nor what was entered.            *)
LEMMA KeyKeeps ==
    ASSUME LineInv, UNCHANGED <<hist, entered>>, edit' \in LineStates,
           Len(edit'.text) < LineCap /\ Len(edit'.draft) < LineCap /\ edit'.cursor <= Len(edit'.text),
           edit'.view \in -1..(hist.len - 1),
           edit'.view >= 0 /\ ~edit'.cut => edit'.text = HistGet(edit'.view),
           shown' # Message => shown' = [text |-> edit'.text, col |-> edit'.cursor]
    PROVE  LineInv'
BY DEF LineInv, HistTypes, HistHolds, LineFits, HistGet, Message

LineWhole ==
    edit = [text |-> edit.text, cursor |-> edit.cursor, view |-> edit.view, draft |-> edit.draft,
            tabbed |-> edit.tabbed, cut |-> edit.cut]
LineField ==
    /\ edit.text \in Seq(Chars) /\ edit.cursor \in Nat /\ Len(edit.text) \in Nat
    /\ edit.cursor <= Len(edit.text) /\ Len(edit.draft) \in Nat
    /\ edit.draft \in Seq(Chars) /\ edit.tabbed \in BOOLEAN /\ edit.cut \in BOOLEAN
    /\ Len(edit.text) < LineCap /\ Len(edit.draft) < LineCap
    /\ edit.view \in -1..(hist.len - 1) /\ edit.view \in Int /\ hist.len \in Nat /\ LineCap \in Nat /\ LineCap >= 2
LEMMA LineFieldHolds == ASSUME LineAssumption, LineInv PROVE LineField /\ LineWhole
BY DEF LineAssumption, LineInv, LineFits, HistTypes, LineStates, LineField, LineWhole

(* The cursor and the length, as numbers.                                  *)
LEMMA LineNumbers ==
    ASSUME LineField
    PROVE  \E c, n \in Nat : c = edit.cursor /\ n = Len(edit.text) /\ c <= n /\ n < LineCap
BY DEF LineField

LEMMA EditedKeeps ==
    ASSUME LineAssumption, LineInv, NEW before \in Seq(Chars), NEW after \in Seq(Chars),
           NEW view \in -1..(hist.len - 1), Len(before) + Len(after) < LineCap,
           view >= 0 => before \o after = HistGet(view),
           Edited(before, after, view), UNCHANGED <<hist, entered>>
    PROVE  LineInv'
<1>1. LineField /\ LineWhole
  BY LineFieldHolds
<1>2. before \o after \in Seq(Chars) /\ Len(before \o after) = Len(before) + Len(after) /\ Len(before) \in Nat /\ Len(after) \in Nat
  OBVIOUS
<1>3. /\ edit'.text = before \o after /\ edit'.cursor = Len(before) /\ edit'.view = view /\ edit'.cut = FALSE
      /\ edit'.tabbed = FALSE /\ edit'.draft = IF view < 0 THEN << >> ELSE edit.draft
      /\ edit' = [text |-> edit'.text, cursor |-> edit'.cursor, view |-> edit'.view, draft |-> edit'.draft,
                  tabbed |-> edit'.tabbed, cut |-> edit'.cut]
  BY <1>1 DEF Edited, LineWhole
<1>4. shown' = [text |-> edit'.text, col |-> edit'.cursor]
  BY DEF Edited, Redraw
<1>5. edit'.draft \in Seq(Chars) /\ Len(edit'.draft) < LineCap
  <2>1. edit.draft \in Seq(Chars) /\ Len(edit.draft) < LineCap /\ LineCap >= 2 /\ LineCap \in Nat
    BY <1>1 DEF LineField
  <2>2. << >> \in Seq(Chars) /\ Len(<< >>) = 0
    OBVIOUS
  <2> QED
    BY <1>3, <2>1, <2>2
<1>6. view \in Int
  BY <1>1 DEF LineField
<1>7. edit' \in LineStates
  BY <1>2, <1>3, <1>5, <1>6 DEF LineStates
<1>8. Len(edit'.text) < LineCap /\ edit'.cursor <= Len(edit'.text)
  BY <1>1, <1>2, <1>3 DEF LineField
<1> QED
  BY <1>3, <1>4, <1>5, <1>7, <1>8, KeyKeeps

LEMMA NoEditKeeps == ASSUME LineInv, NoEdit, UNCHANGED <<hist, entered>> PROVE LineInv'
<1>1. /\ edit' \in LineStates /\ edit'.text = edit.text /\ edit'.cursor = edit.cursor /\ edit'.view = edit.view
      /\ edit'.draft = edit.draft /\ edit'.cut = edit.cut /\ shown' = shown
  BY DEF NoEdit, LineInv, LineFits, LineStates
<1>2. /\ Len(edit.text) < LineCap /\ Len(edit.draft) < LineCap /\ edit.cursor <= Len(edit.text)
      /\ edit.view \in -1..(hist.len - 1)
      /\ edit.view >= 0 /\ ~edit.cut => edit.text = HistGet(edit.view)
      /\ shown # Message => shown = [text |-> edit.text, col |-> edit.cursor]
  BY DEF LineInv, LineFits
<1> QED
  BY <1>1, <1>2, KeyKeeps

LEMMA Halves ==
    ASSUME LineField
    PROVE  /\ Before \in Seq(Chars) /\ Len(Before) = edit.cursor
           /\ After \in Seq(Chars) /\ Len(After) = Len(edit.text) - edit.cursor
<1>1. /\ edit.text \in Seq(Chars) /\ edit.cursor \in 0..Len(edit.text) /\ edit.cursor \in Nat
      /\ Len(edit.text) \in 0..Len(edit.text)
  BY DEF LineField
<1>2. SubSeq(edit.text, 1, edit.cursor) \in Seq(Chars) /\ Len(SubSeq(edit.text, 1, edit.cursor)) = edit.cursor
  BY <1>1, FirstPart
<1>3. /\ SubSeq(edit.text, edit.cursor + 1, Len(edit.text)) \in Seq(Chars)
      /\ Len(SubSeq(edit.text, edit.cursor + 1, Len(edit.text)))
           = IF edit.cursor <= Len(edit.text) THEN Len(edit.text) - edit.cursor ELSE 0
  BY <1>1, PartOf
<1> QED
  BY <1>1, <1>2, <1>3 DEF Before, After

LEMMA TypingKeeps ==
    ASSUME LineAssumption, LineInv, UNCHANGED <<hist, entered>>,
           (\E ch \in Typed : KeyChar(ch)) \/ KeyBackspace \/ KeyDelete
    PROVE  LineInv'
<1>0. LineField /\ LineWhole /\ -1 \in -1..(hist.len - 1)
  BY LineFieldHolds DEF LineField
<1>a. PICK c, n \in Nat : c = edit.cursor /\ n = Len(edit.text) /\ c <= n /\ n < LineCap
  BY <1>0, LineNumbers
<1>d. c <= n /\ n < LineCap
  BY <1>a
<1>b. LineCap \in Nat
  BY DEF LineAssumption
<1>c. -1 \in -1..(hist.len - 1) /\ ~(-1 >= 0)
  BY <1>0
<1>1. Before \in Seq(Chars) /\ Len(Before) = c /\ After \in Seq(Chars) /\ Len(After) = n - c
  BY <1>0, <1>a, Halves
<1>2. ASSUME NEW ch \in Typed, KeyChar(ch) PROVE LineInv'
  <2>1. CASE Len(edit.text) < LineCap - 1
    <3>0. ch \in Chars
      BY DEF Chars
    <3>1a. n < LineCap - 1
      BY <1>a, <2>1
    <3>1. Append(Before, ch) \in Seq(Chars) /\ Len(Append(Before, ch)) = c + 1
      BY <1>1, <3>0
    <3>2. Len(Append(Before, ch)) + Len(After) < LineCap
      BY <1>b, <1>d, <1>1, <3>1, <3>1a
    <3>3. Edited(Append(Before, ch), After, -1)
      BY <1>2, <2>1 DEF KeyChar
    <3> QED
      BY <1>c, <1>1, <3>1, <3>2, <3>3, EditedKeeps
  <2>2. CASE ~(Len(edit.text) < LineCap - 1)
    BY <1>2, <2>2, NoEditKeeps DEF KeyChar
  <2> QED
    BY <2>1, <2>2
<1>3. CASE KeyBackspace
  <2>1. CASE edit.cursor > 0
    <3>1. Front(Before) \in Seq(Chars) /\ Len(Front(Before)) = c - 1
      <4>1. Len(Before) - 1 \in 0..Len(Before)
        <5>1. c > 0
          BY <1>a, <2>1
        <5> QED
          BY <1>1, <5>1
      <4> QED
        BY <1>1, <4>1, FirstPart DEF Front
    <3>2. Len(Front(Before)) + Len(After) < LineCap
      BY <1>b, <1>d, <1>1, <3>1
    <3>3. Edited(Front(Before), After, -1)
      BY <1>3, <2>1 DEF KeyBackspace
    <3> QED
      BY <1>c, <1>1, <3>1, <3>2, <3>3, EditedKeeps
  <2>2. CASE ~(edit.cursor > 0)
    <3>1. edit' = [edit EXCEPT !.tabbed = FALSE, !.view = -1, !.draft = << >>, !.cut = FALSE] /\ shown' = shown
      BY <1>3, <2>2 DEF KeyBackspace
    <3>2. /\ edit' = [text |-> edit.text, cursor |-> edit.cursor, view |-> -1, draft |-> << >>,
                       tabbed |-> FALSE, cut |-> FALSE]
          /\ edit'.text = edit.text /\ edit'.cursor = edit.cursor /\ edit'.view = -1 /\ edit'.draft = << >>
      BY <1>0, <3>1 DEF LineWhole
    <3>4. edit' \in LineStates
      BY <1>0, <3>2 DEF LineField, LineStates
    <3>3. shown # Message => shown = [text |-> edit.text, col |-> edit.cursor]
      BY DEF LineInv, LineFits
    <3> QED
      BY <1>0, <1>a, <1>c, <3>1, <3>2, <3>3, <3>4, KeyKeeps DEF LineField
  <2> QED
    BY <2>1, <2>2
<1>4. CASE KeyDelete
  <2>1. CASE After # << >> /\ edit' = [edit EXCEPT !.text = Before \o Tail(After), !.tabbed = FALSE,
                                                   !.cut = edit.view >= 0] /\ Redraw
    <3>1. Tail(After) \in Seq(Chars) /\ Len(Tail(After)) = Len(After) - 1
      BY <1>1, <2>1, HeadTailProperties
    <3>2. Before \o Tail(After) \in Seq(Chars) /\ Len(Before \o Tail(After)) = Len(Before) + Len(Tail(After))
      BY <1>1, <3>1, Concatenated
    <3>3. /\ edit'.text = Before \o Tail(After) /\ edit'.cursor = edit.cursor /\ edit'.view = edit.view
          /\ edit'.draft = edit.draft /\ edit'.cut = (edit.view >= 0) /\ edit'.tabbed = FALSE
          /\ edit' = [text |-> edit'.text, cursor |-> edit'.cursor, view |-> edit'.view, draft |-> edit'.draft,
                      tabbed |-> edit'.tabbed, cut |-> edit'.cut]
      BY <1>0, <2>1 DEF LineWhole
    <3>4. c <= n - 1 /\ Len(Before \o Tail(After)) = n - 1
      <4>1. Len(After) # 0
        BY <1>1, <2>1
      <4> QED
        BY <1>d, <1>1, <3>1, <3>2, <4>1
    <3>5. edit' \in LineStates
      <4>1. edit.cursor \in Nat /\ edit.view \in Int /\ edit.draft \in Seq(Chars) /\ (edit.view >= 0) \in BOOLEAN
        BY <1>0 DEF LineField
      <4> QED
        BY <3>2, <3>3, <4>1 DEF LineStates
    <3>6. Len(edit'.text) < LineCap /\ Len(edit'.draft) < LineCap /\ edit'.cursor <= Len(edit'.text)
      <4>1. Len(edit.draft) < LineCap
        BY <1>0 DEF LineField
      <4> QED
        <5>1. edit'.cursor = c /\ Len(edit'.text) = n - 1 /\ edit'.draft = edit.draft
          BY <1>a, <3>3, <3>4
        <5>2. n - 1 < LineCap /\ c <= n - 1
          BY <1>b, <1>d, <3>4
        <5> QED
          BY <4>1, <5>1, <5>2
    <3>7. shown' = [text |-> edit'.text, col |-> edit'.cursor]
      BY <2>1 DEF Redraw
    <3> QED
      BY <1>0, <3>3, <3>5, <3>6, <3>7, KeyKeeps DEF LineField
  <2>2. CASE After = << >> /\ NoEdit
    BY <2>2, NoEditKeeps
  <2> QED
    BY <1>4, <2>1, <2>2 DEF KeyDelete
<1> QED
  BY <1>2, <1>3, <1>4

Moved(c) ==
    /\ edit' = [edit EXCEPT !.cursor = c, !.tabbed = FALSE]
    /\ IF shown = Message THEN shown' = shown ELSE shown' = [shown EXCEPT !.col = c]

LEMMA MovedKeeps ==
    ASSUME LineAssumption, LineInv, UNCHANGED <<hist, entered>>, NEW c \in Nat, c <= Len(edit.text), Moved(c)
    PROVE  LineInv'
<1>0. LineField /\ LineWhole
  BY LineFieldHolds
<1>1. /\ edit' = [text |-> edit.text, cursor |-> c, view |-> edit.view, draft |-> edit.draft,
                  tabbed |-> FALSE, cut |-> edit.cut]
      /\ edit'.text = edit.text /\ edit'.cursor = c /\ edit'.view = edit.view
      /\ edit'.draft = edit.draft /\ edit'.cut = edit.cut
  BY <1>0 DEF Moved, LineWhole
<1>2. edit' \in LineStates
  <2>1. edit.text \in Seq(Chars) /\ edit.view \in Int /\ edit.draft \in Seq(Chars) /\ edit.cut \in BOOLEAN
    BY <1>0 DEF LineField
  <2> QED
    BY <1>1, <2>1 DEF LineStates
<1>3. /\ edit.view >= 0 /\ ~edit.cut => edit.text = HistGet(edit.view)
      /\ shown # Message => shown = [text |-> edit.text, col |-> edit.cursor]
      /\ Len(edit.text) < LineCap /\ Len(edit.draft) < LineCap /\ edit.view \in -1..(hist.len - 1)
  BY DEF LineInv, LineFits
<1>4. shown' # Message => shown' = [text |-> edit'.text, col |-> edit'.cursor]
  <2>1. CASE shown = Message
    BY <2>1 DEF Moved
  <2>2. CASE shown # Message
    <3>1. shown = [text |-> edit.text, col |-> edit.cursor] /\ shown' = [shown EXCEPT !.col = c]
      BY <1>3, <2>2 DEF Moved
    <3> QED
      BY <1>1, <3>1
  <2> QED
    BY <2>1, <2>2
<1> QED
  BY <1>1, <1>2, <1>3, <1>4, KeyKeeps

LEMMA MovingKeeps ==
    ASSUME LineAssumption, LineInv, UNCHANGED <<hist, entered>>, KeyLeft \/ KeyRight
    PROVE  LineInv'
<1>0. LineField /\ (shown # Message => shown.col = edit.cursor)
  BY LineFieldHolds DEF LineInv, LineFits
<1>a. PICK c, n \in Nat : c = edit.cursor /\ n = Len(edit.text) /\ c <= n /\ n < LineCap
  BY <1>0, LineNumbers
<1>d. c <= n /\ n < LineCap
  BY <1>a
<1>1. CASE KeyRight
  <2>1. CASE After # << >>
    <3>1. c + 1 <= n
      <4>1. After \in Seq(Chars) /\ Len(After) = n - c
        BY <1>0, <1>a, Halves
      <4>2. Len(After) # 0
        BY <2>1, <4>1
      <4> QED
        BY <1>d, <4>1, <4>2
    <3>2. Moved(c + 1)
      BY <1>0, <1>a, <1>1, <2>1 DEF KeyRight, Moved
    <3> QED
      BY <1>a, <3>1, <3>2, MovedKeeps
  <2>2. CASE After = << >>
    BY <1>1, <2>2, NoEditKeeps DEF KeyRight
  <2> QED
    BY <2>1, <2>2
<1>2. CASE KeyLeft
  <2>1. CASE c > 0
    <3>1. c - 1 \in Nat /\ c - 1 <= n
      BY <1>d, <2>1
    <3>2. Moved(c - 1)
      BY <1>0, <1>a, <1>2, <2>1 DEF KeyLeft, Moved
    <3> QED
      BY <1>a, <3>1, <3>2, MovedKeeps
  <2>2. CASE ~(c > 0)
    BY <1>a, <1>2, <2>2, NoEditKeeps DEF KeyLeft
  <2> QED
    BY <2>1, <2>2
<1> QED
  BY <1>1, <1>2

LEMMA BrowsingKeeps ==
    ASSUME LineAssumption, LineInv, UNCHANGED <<hist, entered>>, KeyUp \/ KeyDown
    PROVE  LineInv'
<1>0. LineField /\ LineWhole /\ HistTypes /\ -1 \in -1..(hist.len - 1) /\ << >> \in Seq(Chars) /\ Len(<< >>) = 0
  BY LineFieldHolds DEF LineField, LineInv
<1>1. CASE KeyUp
  <2> DEFINE to == edit.view + 1
  <2>1. CASE to < hist.len
    <3>1. to \in 0..(hist.len - 1) /\ to \in Int
      BY <1>0, <2>1 DEF LineField
    <3>2. HistGet(to) \in Seq(Chars) /\ Len(HistGet(to)) < LineCap /\ Len(HistGet(to)) \in Nat
      BY <1>0, <3>1, HistGetIs
    <3>3. /\ edit' = [edit EXCEPT !.draft = IF edit.view < 0 THEN edit.text ELSE @,
                            !.view = to, !.text = HistGet(to), !.cursor = Len(HistGet(to)),
                            !.tabbed = FALSE, !.cut = FALSE]
          /\ Redraw
      BY <1>1, <2>1 DEF KeyUp
    <3> HIDE DEF to
    <3>4. /\ edit'.text = HistGet(to) /\ edit'.cursor = Len(HistGet(to)) /\ edit'.view = to
          /\ edit'.draft = (IF edit.view < 0 THEN edit.text ELSE edit.draft) /\ edit'.cut = FALSE /\ edit'.tabbed = FALSE
          /\ edit' = [text |-> edit'.text, cursor |-> edit'.cursor, view |-> edit'.view, draft |-> edit'.draft,
                      tabbed |-> edit'.tabbed, cut |-> edit'.cut]
      BY <1>0, <3>3 DEF LineWhole
    <3>5. edit'.draft \in Seq(Chars) /\ Len(edit'.draft) < LineCap
      BY <1>0, <3>4 DEF LineField
    <3>6. edit' \in LineStates
      BY <3>1, <3>2, <3>4, <3>5 DEF LineStates
    <3>7. shown' = [text |-> edit'.text, col |-> edit'.cursor]
      BY <3>3 DEF Redraw
    <3>8. /\ Len(edit'.text) < LineCap /\ edit'.cursor <= Len(edit'.text)
          /\ edit'.view \in -1..(hist.len - 1) /\ edit'.text = HistGet(edit'.view)
      BY <1>0, <3>1, <3>2, <3>4 DEF LineField
    <3> QED
      BY <3>5, <3>6, <3>7, <3>8, KeyKeeps
  <2>2. CASE ~(to < hist.len)
    BY <1>1, <2>2, NoEditKeeps DEF KeyUp
  <2> QED
    BY <2>1, <2>2
<1>2. CASE KeyDown
  <2>1. CASE edit.view < 0
    BY <1>2, <2>1, NoEditKeeps DEF KeyDown
  <2>2. CASE edit.view = 0
    <3>1. Edited(edit.draft, << >>, -1) /\ ~(-1 >= 0)
      BY <1>2, <2>2 DEF KeyDown
    <3>2. edit.draft \in Seq(Chars) /\ Len(edit.draft) + Len(<< >>) < LineCap
      BY <1>0 DEF LineField
    <3> QED
      BY <1>0, <3>1, <3>2, EditedKeeps
  <2>3. CASE edit.view > 0
    <3>0. PICK v, len \in Int : v = edit.view /\ len = hist.len /\ v <= len - 1
      BY <1>0 DEF LineField
    <3>1. Edited(HistGet(edit.view - 1), << >>, edit.view - 1)
      <4>1. ~(v < 0) /\ v # 0
        BY <2>3, <3>0
      <4> QED
        BY <1>2, <3>0, <4>1 DEF KeyDown
    <3>2. edit.view - 1 \in 0..(hist.len - 1) /\ edit.view - 1 \in -1..(hist.len - 1)
      <4>1. v > 0 /\ v <= len - 1
        BY <2>3, <3>0
      <4>2. v - 1 \in 0..(len - 1) /\ v - 1 \in -1..(len - 1)
        BY <4>1
      <4> QED
        BY <3>0, <4>2
    <3>3. HistGet(edit.view - 1) \in Seq(Chars) /\ Len(HistGet(edit.view - 1)) < LineCap
      BY <1>0, <3>2, HistGetIs
    <3>4. HistGet(edit.view - 1) \o << >> = HistGet(edit.view - 1)
      BY <3>3, ConcatEmptySeq
    <3>5. Len(HistGet(edit.view - 1)) + Len(<< >>) < LineCap
      BY <1>0, <3>3
    <3> QED
      BY <1>0, <3>1, <3>2, <3>3, <3>4, <3>5, EditedKeeps
  <2> QED
    BY <1>0, <2>1, <2>2, <2>3 DEF LineField
<1> QED
  BY <1>1, <1>2

(* A new line.                                                             *)
LEMMA FreshLine == ASSUME LineAssumption, HistTypes', HistHolds', edit' = NewLine, Redraw PROVE LineInv'
BY DEF LineAssumption, LineInv, LineFits, HistTypes, LineStates, NewLine, Redraw

LEMMA EnterKeeps ==
    ASSUME LineAssumption, LineInv, KeyEnter
    PROVE  LineInv'
<1>1. HistTypes' /\ HistHolds'
  BY PushKeeps, LineFieldHolds DEF LineInv, LineField, KeyEnter
<1> QED
  BY <1>1, FreshLine DEF KeyEnter

LEMMA CtrlCKeeps ==
    ASSUME LineAssumption, LineInv, UNCHANGED <<hist, entered>>, KeyCtrlC
    PROVE  LineInv'
<1>1. HistTypes' /\ HistHolds'
  BY DEF LineInv, HistTypes, HistHolds, HistGet
<1> QED
  BY <1>1, FreshLine DEF KeyCtrlC

(* Completion.                                                             *)
LEMMA NamesAreText ==
    ASSUME LineAssumption, NEW L \in Listings, NEW d \in DOMAIN L, NEW e \in L[d]
    PROVE  e.name \in Seq(Chars)
<1>1. e.name \in Seq(ToSet(e.name))
  BY DEF LineAssumption
<1>2. ToSet(e.name) \subseteq Chars
  BY DEF Chars
<1> QED
  BY <1>1, <1>2, SeqMonotonic

LEMMA TokenIs ==
    ASSUME LineField
    PROVE  /\ TokenStart \in 0..edit.cursor /\ TokenEnd \in edit.cursor..Len(edit.text)
           /\ Token \in Seq(Chars) /\ Len(Token) = TokenEnd - TokenStart
<1>0. PICK c, n \in Nat : c = edit.cursor /\ n = Len(edit.text) /\ c <= n
  BY LineNumbers
<1>a. PICK blank : blank = " "
  BY Zenon
<1> DEFINE StartsAt(i) == (i = 0 \/ edit.text[i] = blank) /\ \A k \in (i + 1)..c : edit.text[k] # blank
           EndsAt(i) == (i = n \/ edit.text[i + 1] = blank) /\ \A k \in (c + 1)..i : edit.text[k] # blank
<1>1. TokenStart = CHOOSE i \in 0..c : StartsAt(i)
  BY <1>0, <1>a, Zenon DEF TokenStart
<1>2. TokenEnd = CHOOSE i \in c..n : EndsAt(i)
  BY <1>0, <1>a, Zenon DEF TokenEnd
<1>3. \E i \in 0..c : StartsAt(i)
  <2> DEFINE I == {i \in 0..c : i = 0 \/ edit.text[i] = blank}
  <2>1. I \in SUBSET (0..c) /\ 0 \in I
    BY <1>0
  <2>2. PICK m \in I : \A i \in I : i <= m
    BY <1>0, <2>1, GreatestUpTo
  <2>3. ASSUME NEW k \in (m + 1)..c PROVE edit.text[k] # blank
    <3>1. k \in 0..c /\ ~(k <= m)
      BY <1>0, <2>2
    <3>2. k \notin I
      BY <2>2, <3>1
    <3> QED
      BY <3>1, <3>2
  <2> QED
    BY <2>2, <2>3
<1>4. \E i \in c..n : EndsAt(i)
  <2> DEFINE I == {i \in c..n : i = n \/ edit.text[i + 1] = blank}
  <2>1. I \in SUBSET Nat /\ n \in I
    BY <1>0
  <2>2. PICK m \in I : \A i \in I : m <= i
    BY <2>1, LeastNat
  <2>3. ASSUME NEW k \in (c + 1)..m PROVE edit.text[k] # blank
    <3>1. k - 1 \in c..n /\ ~(m <= k - 1) /\ (k - 1) + 1 = k
      BY <1>0, <2>2
    <3>2. k - 1 \notin I
      BY <2>2, <3>1
    <3> QED
      BY <3>1, <3>2
  <2> QED
    BY <2>2, <2>3
<1> HIDE DEF StartsAt, EndsAt
<1>5. TokenStart \in 0..c /\ TokenEnd \in c..n
  BY <1>1, <1>2, <1>3, <1>4
<1>6. SubSeq(edit.text, TokenStart + 1, TokenEnd) \in Seq(Chars) /\ Len(SubSeq(edit.text, TokenStart + 1, TokenEnd)) = TokenEnd - TokenStart
  <2>1. PICK a \in 0..c : a = TokenStart
    BY <1>5
  <2>2. PICK b \in c..n : b = TokenEnd
    BY <1>5
  <2>3. edit.text \in Seq(Chars) /\ a \in Nat /\ b \in 0..Len(edit.text) /\ a <= b /\ a \in Int /\ b \in Int
    BY <1>0 DEF LineField
  <2>4. /\ SubSeq(edit.text, a + 1, b) \in Seq(Chars)
        /\ Len(SubSeq(edit.text, a + 1, b)) = IF a <= b THEN b - a ELSE 0
    BY <2>3, PartOf
  <2> QED
    BY <2>1, <2>2, <2>3, <2>4
<1> QED
  BY <1>0, <1>5, <1>6 DEF Token

LEMMA DirPartIs == ASSUME NEW token \in Seq(Chars) PROVE DirPart(token) \in Seq(Chars)
<1> DEFINE I == {i \in 1..Len(token) : token[i] = "/"}
           last == SelectLastInSeq(token, LAMBDA ch : ch = "/")
<1>1. last = IF I # {} THEN Max(I) ELSE 0
  BY DEF SelectLastInSeq
<1>2. Len(token) \in Nat /\ I \in SUBSET (0..Len(token))
  OBVIOUS
<1>3. DirPart(token) = SubSeq(token, 1, last)
  BY DEF DirPart
<1> HIDE DEF I, last
<1>4. last \in 0..Len(token)
  <2>1. CASE I = {}
    BY <1>1, <1>2, <2>1
  <2>2. CASE I # {}
    <3>1. PICK m \in I : \A i \in I : i <= m
      BY <1>2, <2>2, GreatestUpTo
    <3>2. m \in I /\ \A i \in I : m >= i
      BY <1>2, <3>1
    <3>3. Max(I) \in I
      BY <3>2 DEF Max
    <3> QED
      BY <1>1, <1>2, <2>2, <3>3
  <2> QED
    BY <2>1, <2>2
<1> QED
  BY <1>3, <1>4, FirstPart

LEMMA CommonStartIs ==
    ASSUME NEW names \in SUBSET Seq(Chars), names # {}
    PROVE  CommonStart(names) \in Seq(Chars)
<1>1. PICK any : any = CHOOSE n \in names : TRUE
  OBVIOUS
<1>2. any \in names /\ any \in Seq(Chars)
  BY <1>1
<1> DEFINE ks == {k \in 0..Len(any) : \A n \in names : IsPrefix(SubSeq(any, 1, k), n)}
           longest == CHOOSE k \in ks : \A j \in ks : j <= k
<1>3. CommonStart(names) = SubSeq(any, 1, longest)
  BY <1>1 DEF CommonStart
<1>4. Len(any) \in Nat /\ ks \in SUBSET (0..Len(any))
  BY <1>2
<1>5. 0 \in ks
  <2>1. SubSeq(any, 1, 0) = << >>
    BY <1>2
  <2>2. ASSUME NEW n \in names PROVE IsPrefix(<< >>, n)
    <3>1. Len(<< >>) = 0 /\ Len(n) \in Nat /\ SubSeq(<< >>, 1, 0) = << >> /\ SubSeq(n, 1, 0) = << >>
      OBVIOUS
    <3> QED
      BY <3>1 DEF IsPrefix
  <2>3. 0 \in 0..Len(any)
    BY <1>4
  <2> QED
    BY <2>1, <2>2, <2>3, Zenon
<1> HIDE DEF ks
<1>6. \E k \in ks : \A j \in ks : j <= k
  BY <1>4, <1>5, GreatestUpTo
<1>7. longest \in ks
  BY <1>6
<1> HIDE DEF longest
<1> QED
  BY <1>2, <1>3, <1>4, <1>7, FirstPart

LEMMA CompletedIs ==
    ASSUME LineAssumption, NEW L \in Listings, NEW token \in Seq(Chars), DirPart(token) \in DOMAIN L,
           NEW found \in SUBSET L[DirPart(token)], found # {}
    PROVE  Completed(found, token) \in Seq(Chars)
<1>1. DirPart(token) \in Seq(Chars)
  BY DirPartIs
<1>2. \A e \in found : e.name \in Seq(Chars)
  BY NamesAreText
<1>3. CASE Cardinality(found) = 1
  <2>1. PICK e : e = CHOOSE x \in found : TRUE
    OBVIOUS
  <2>2. e.name \in Seq(Chars)
    BY <1>2, <2>1
  <2>3. PICK end : end = IF e.dir THEN <<"/">> ELSE << >>
    OBVIOUS
  <2>4. end \in Seq(Chars)
    <3>1. PICK slash \in Chars : slash = "/"
      BY Zenon DEF Chars
    <3>2. <<slash>> \in Seq(Chars) /\ << >> \in Seq(Chars)
      OBVIOUS
    <3> QED
      BY <2>3, <3>1, <3>2, Zenon
  <2>5. Completed(found, token) = DirPart(token) \o e.name \o end
    BY <1>3, <2>1, <2>3 DEF Completed
  <2>6. DirPart(token) \o e.name \in Seq(Chars)
    BY <1>1, <2>2, Concatenated
  <2> QED
    BY <2>4, <2>5, <2>6, Concatenated
<1>4. CASE Cardinality(found) # 1
  <2>1. {e.name : e \in found} \in SUBSET Seq(Chars) /\ {e.name : e \in found} # {}
    BY <1>2
  <2>2. CommonStart({e.name : e \in found}) \in Seq(Chars)
    BY <2>1, CommonStartIs
  <2>3. Completed(found, token) = DirPart(token) \o CommonStart({e.name : e \in found})
    BY <1>4 DEF Completed
  <2> QED
    BY <1>1, <2>2, <2>3, Concatenated
<1> QED
  BY <1>3, <1>4

LEMMA TabKeeps ==
    ASSUME LineAssumption, LineInv, UNCHANGED <<hist, entered>>, KeyTab
    PROVE  LineInv'
<1>0. LineField /\ LineWhole /\ -1 \in -1..(hist.len - 1) /\ << >> \in Seq(Chars) /\ Len(<< >>) = 0 /\ ~(-1 >= 0)
  BY LineFieldHolds DEF LineField
<1>1. PICK tab : tab = [edit EXCEPT !.view = -1, !.draft = << >>, !.tabbed = TRUE, !.cut = FALSE]
  OBVIOUS
<1>2. /\ tab = [text |-> edit.text, cursor |-> edit.cursor, view |-> -1, draft |-> << >>, tabbed |-> TRUE, cut |-> FALSE]
  BY <1>0, <1>1 DEF LineWhole
<1>3. ASSUME edit' = tab, shown' \in {shown, Message} \/ Redraw PROVE LineInv'
  <2>1. /\ edit' \in LineStates /\ edit'.text = edit.text /\ edit'.cursor = edit.cursor /\ edit'.view = -1
        /\ edit'.draft = << >>
    BY <1>0, <1>2, <1>3 DEF LineField, LineStates
  <2>2. shown' # Message => shown' = [text |-> edit'.text, col |-> edit'.cursor]
    BY <1>3, <2>1 DEF LineInv, LineFits, Redraw
  <2> QED
    BY <1>0, <2>1, <2>2, KeyKeeps DEF LineField
<1>4. ASSUME NEW L \in Listings, DirPart(Token) \in DOMAIN L, NEW found, found = Matching(L, Token), found # {},
             NEW new, new = Completed(found, Token),
             NEW text, text = SubSeq(edit.text, 1, TokenStart) \o new
                              \o SubSeq(edit.text, TokenEnd + 1, Len(edit.text)),
             Len(text) < LineCap, edit' = [tab EXCEPT !.text = text, !.cursor = TokenStart + Len(new)], Redraw
      PROVE  LineInv'
  <2>1. PICK a \in 0..edit.cursor : a = TokenStart
    BY <1>0, TokenIs
  <2>2. PICK b \in edit.cursor..Len(edit.text) : b = TokenEnd
    BY <1>0, TokenIs
  <2>3. Token \in Seq(Chars)
    BY <1>0, TokenIs
  <2>4. new \in Seq(Chars)
    <3>1. found \in SUBSET L[DirPart(Token)]
      BY <1>4 DEF Matching
    <3> QED
      BY <1>4, <2>3, <3>1, CompletedIs
  <2>5. /\ a \in 0..Len(edit.text) /\ edit.text \in Seq(Chars) /\ b \in Nat /\ b <= Len(edit.text)
        /\ Len(edit.text) \in 0..Len(edit.text) /\ a \in Nat /\ Len(new) \in Nat
    BY <1>0, <2>4 DEF LineField
  <2>6. PICK left : left = SubSeq(edit.text, 1, a)
    OBVIOUS
  <2>7. PICK right : right = SubSeq(edit.text, b + 1, Len(edit.text))
    OBVIOUS
  <2>8. left \in Seq(Chars) /\ Len(left) = a
    BY <2>5, <2>6, FirstPart
  <2>9. right \in Seq(Chars) /\ Len(right) \in Nat
    BY <2>5, <2>7, PartOf
  <2>10. text = left \o new \o right
    BY <1>4, <2>1, <2>2, <2>6, <2>7
  <2>11. left \o new \in Seq(Chars) /\ Len(left \o new) = a + Len(new)
    BY <2>4, <2>8, Concatenated
  <2>12. text \in Seq(Chars) /\ Len(text) = (a + Len(new)) + Len(right)
    BY <2>9, <2>10, <2>11, Concatenated
  <2>13. /\ edit'.text = text /\ edit'.cursor = a + Len(new) /\ edit'.view = -1 /\ edit'.draft = << >>
         /\ edit'.tabbed = TRUE /\ edit'.cut = FALSE
         /\ edit' = [text |-> edit'.text, cursor |-> edit'.cursor, view |-> edit'.view, draft |-> edit'.draft,
                     tabbed |-> edit'.tabbed, cut |-> edit'.cut]
    BY <1>2, <1>4, <2>1
  <2>14. a + Len(new) \in Nat /\ a + Len(new) <= Len(text)
    BY <2>5, <2>9, <2>12
  <2>15. edit' \in LineStates
    <3>1. -1 \in Int
      OBVIOUS
    <3> QED
      BY <1>0, <2>12, <2>13, <2>14, <3>1 DEF LineStates
  <2>16. shown' = [text |-> edit'.text, col |-> edit'.cursor]
    BY <1>4 DEF Redraw
  <2>17. Len(edit'.text) < LineCap /\ Len(edit'.draft) < LineCap /\ edit'.cursor <= Len(edit'.text)
    <3>1. 0 < LineCap
      BY <1>0 DEF LineField
    <3> QED
      BY <1>0, <1>4, <2>13, <2>14, <3>1
  <2> QED
    BY <1>0, <2>13, <2>15, <2>16, <2>17, KeyKeeps
<1> QED
  BY <1>1, <1>3, <1>4, Zenon DEF KeyTab

LEMMA LineStepKeeps == ASSUME LineAssumption, LineInv, LineStep PROVE LineInv'
<1>1. CASE UNCHANGED <<hist, entered>> /\ ((\E ch \in Typed : KeyChar(ch)) \/ KeyBackspace \/ KeyDelete)
  BY <1>1, TypingKeeps
<1>2. CASE UNCHANGED <<hist, entered>> /\ (KeyLeft \/ KeyRight)
  BY <1>2, MovingKeeps
<1>3. CASE UNCHANGED <<hist, entered>> /\ (KeyUp \/ KeyDown)
  BY <1>3, BrowsingKeeps
<1>4. CASE UNCHANGED <<hist, entered>> /\ KeyTab
  BY <1>4, TabKeeps
<1>5. CASE UNCHANGED <<hist, entered>> /\ KeyCtrlC
  BY <1>5, CtrlCKeeps
<1>6. CASE KeyEnter
  BY <1>6, EnterKeeps
<1> QED
  BY <1>1, <1>2, <1>3, <1>4, <1>5, <1>6, Zenon DEF LineStep

LEMMA LineStutters == ASSUME LineInv, UNCHANGED lineVars PROVE LineInv'
BY DEF lineVars, LineInv, HistTypes, HistHolds, LineFits, HistGet, Message

(* Whatever keys come in whatever order, and whatever the directories hold *)
(* when a name is completed, the text fits the buffer and the terminal     *)
(* shows it; the n-th step back in the history is the n-th line before the *)
(* latest, after any number of lines (cli_line_read, hist_get,          *)
(* cli_line_hist_push, cli_path_complete).                                 *)
THEOREM CommandLineKept == ServicesSpec => []LineKept
<1>1. ServicesInit => LineInv
  BY LineAssumption, LineInvInit DEF ServicesInit
<1>2. LineInv /\ [ServicesNext]_servicesVars => LineInv'
  <2>1. [ServicesNext]_servicesVars => UNCHANGED lineVars \/ LineStep
    BY DEF ServicesNext, servicesVars
  <2> QED
    BY <2>1, LineAssumption, LineStepKeeps, LineStutters
<1>3. LineInv => LineKept
  BY LineInvKept
<1> QED
  BY <1>1, <1>2, <1>3, PTL DEF ServicesSpec

-----------------------------------------------------------------------------
(* Sleepers, deadlines and timers.                                        *)

(* Whatever the tasks of other cores call between the sections of a tick   *)
(* and between the steps of a release, and whichever periods and deadlines *)
(* they set: until a release puts back a job that has meanwhile gone       *)
(* somewhere else, the READY jobs under EDF stand in the order of their    *)
(* deadlines, but for those whose period was changed where they stood and  *)
(* the job the release has in hand (sched_add_edf_ready,                   *)
(* sched_edf_release, cgrtos_task_set_period, cgrtos_task_set_deadline).   *)
THEOREM DeadlinesInOrder == ServicesSpec => []EarliestFirst
<1>1. ServicesInit => (~relinked => JobInv)
  BY DeadlineAssumption, JobInvInit DEF ServicesInit
<1>2. (~relinked => JobInv) /\ [ServicesNext]_servicesVars => (~relinked => JobInv)'
  <2>1. [ServicesNext]_servicesVars => UNCHANGED deadlineVars \/ DeadlineStep
    BY DEF ServicesNext, servicesVars
  <2>2. (UNCHANGED deadlineVars => relinked' = relinked) /\ (DeadlineStep => ~relinked)
    BY DEF deadlineVars, DeadlineStep
  <2> QED
    BY <2>1, <2>2, DeadlineAssumption, DeadlineStepKeeps, JobInvStutters
<1>3. (~relinked => JobInv) => EarliestFirst
  BY DeadlineAssumption, JobInvEarliest DEF EarliestFirst
<1> QED
  BY <1>1, <1>2, <1>3, PTL DEF ServicesSpec

(* When there are no more EDF tasks than one tick can release, and until a *)
(* release puts back a job that has meanwhile gone somewhere else, nobody  *)
(* oversleeps or wakes twice, the delayed list holds exactly the sleepers, *)
(* and every periodic job is on the wheel, due, or about to be armed, for  *)
(* the tick it was promised, but for one tick before or a turn after,      *)
(* whatever other cores call between the steps                             *)
(* (sched_process_delayed_tasks, sched_process_edf_releases,               *)
(* sched_edf_release, cgrtos_sched_edf_arm).                               *)
THEOREM SleepersAndReleases == ASSUME RoomForAll PROVE ServicesSpec => []DelaysKept
<1>1. ServicesInit => (~relinked => JobInv /\ PeriodicOK)
  BY DeadlineAssumption, JobInvInit DEF ServicesInit
<1>2. (~relinked => JobInv /\ PeriodicOK) /\ [ServicesNext]_servicesVars
         => (~relinked => JobInv /\ PeriodicOK)'
  <2>1. [ServicesNext]_servicesVars => UNCHANGED deadlineVars \/ DeadlineStep
    BY DEF ServicesNext, servicesVars
  <2>2. (UNCHANGED deadlineVars => relinked' = relinked) /\ (DeadlineStep => ~relinked)
    BY DEF deadlineVars, DeadlineStep
  <2> QED
    BY <2>1, <2>2, DeadlineAssumption, DeadlineStepKeeps, JobInvStutters
<1>3. (~relinked => JobInv /\ PeriodicOK) => DelaysKept
  BY DeadlineAssumption, JobInvKeepsDelays DEF DelaysKept
<1> QED
  BY <1>1, <1>2, <1>3, PTL DEF ServicesSpec

(* Where the pool has a node to spare and no period is a multiple of the   *)
(* wheel, the wheel is a countdown for each timer, whatever is started,    *)
(* stopped, retimed, deleted and created in whatever order by tasks, by    *)
(* interrupts and late by the daemon; no active timer is off the wheel,    *)
(* and a tick reports each expiry once as far as the queue has room        *)
(* (kernel/timer.c).                                                       *)
THEOREM TimersCountDown ==
    ASSUME SpareNode, NoMultiple
    PROVE  ServicesSpec => TimersExact
<1>1. ServicesInit => WheelInv /\ Ideal!CountdownInit
  BY WheelInvInit, WheelAssumption DEF ServicesInit
<1>2. WheelInv /\ [ServicesNext]_servicesVars =>
        /\ WheelInv' /\ [Ideal!CountdownNext]_<<[t \in Timers |-> Left(t)], period, periodic>>
        /\ [TickReport]_timerVars
  <2> SUFFICES ASSUME WheelInv, [ServicesNext]_servicesVars
               PROVE  /\ WheelInv' /\ [Ideal!CountdownNext]_<<[t \in Timers |-> Left(t)], period, periodic>>
                      /\ [TickReport]_timerVars
    OBVIOUS
  <2>1. CASE UNCHANGED timerVars
    <3>1. UNCHANGED <<wheelVars, used, period, periodic, cursor>> /\ UNCHANGED <<cmds, daemon>>
      BY <2>1, Zenon DEF timerVars
    <3>2. QueuesOK'
      BY <3>1 DEF QueuesOK, WheelInv, WheelTypeOK
    <3>3. WheelInv' /\ UNCHANGED <<[t \in Timers |-> Left(t)], period, periodic>>
      BY <3>1, <3>2, WheelAssumption, QueueStepKeeps
    <3> QED
      BY <2>1, <3>3
  <2>2. CASE WheelNext
    BY <2>2, WheelAssumption, WheelStepKeeps
  <2>3. WheelNext \/ UNCHANGED timerVars
    BY Zenon DEF ServicesNext, servicesVars
  <2> QED
    BY <2>1, <2>2, <2>3
<1>3. WheelInv => (part = "timers" => ArmedOnce)
  BY WheelInvArmed, WheelAssumption
<1> QED
  BY <1>1, <1>2, <1>3, PTL DEF ServicesSpec, TimersExact, IsCountdown, Ideal!CountdownSpec, TickReports
=============================================================================

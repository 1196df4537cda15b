--------------------------- MODULE MsgQueueProofs ---------------------------
(***************************************************************************)
(* Message queues and queue sets: the table, the links and the ring of a   *)
(* set agree; nobody sleeps beside a message, a free slot or a ready       *)
(* member; and the ring of a queue implements a bounded FIFO.  For every   *)
(* set of tasks, queues, sets and messages, and every length.              *)
(***************************************************************************)
EXTENDS MsgQueue, TaskWaitProofs

MsgAssumption == WaitAssumption /\ SetAssumption /\ QueueAssumption

-----------------------------------------------------------------------------
(* The table of a set.                                                     *)

SetTypeOK ==
    /\ inUse \in [Sets -> BOOLEAN]
    /\ members \in [Sets -> Seq(Members)]
    /\ ready \in [Sets -> Seq(Nat)]
    /\ qset \in [Members -> Sets \cup {NoSet}]

(* No object is in a table twice, or remove would leave it a member ...    *)
MembersOnce == \A s \in Sets : Once(members[s])
(* ... and a set that does not exist keeps nothing for the next one.       *)
ClosedSetIsEmpty == \A s \in Sets : ~inUse[s] => members[s] = << >> /\ ready[s] = << >>

SetInv == SetTypeOK /\ MembersOnce /\ ClosedSetIsEmpty /\ SetIsSound

(* What the table holds after one entry is taken out of it.                *)
LEMMA RemoveAtLemma ==
    ASSUME NEW S, NEW q \in Seq(S), Once(q), NEW p \in 1..Len(q)
    PROVE  /\ RemoveAt(q, p) \in Seq(S) /\ Once(RemoveAt(q, p))
           /\ \A u : Contains(RemoveAt(q, p), u) <=> u # q[p] /\ Contains(q, u)
<1> DEFINE r == RemoveAt(q, p)
<1>1. /\ r \in Seq(S) /\ Len(r) = Len(q) - 1
      /\ \A i \in 1..Len(r) : r[i] = IF i < p THEN q[i] ELSE q[i + 1]
  <2> DEFINE a == SubSeq(q, 1, p - 1)
             b == SubSeq(q, p + 1, Len(q))
  <2>0. \A i \in 1..Len(q) : q[i] \in S
    BY ElementOfSeq
  <2>1. /\ a \in Seq(S) /\ Len(a) = p - 1
        /\ \A i \in 1..(p - 1) : a[i] = q[i]
    <3>1. \A i \in 1..(p - 1) : q[i] \in S
      BY <2>0
    <3>2. /\ SubSeq(q, 1, p - 1) \in Seq(S)
          /\ Len(SubSeq(q, 1, p - 1)) = IF 1 <= p - 1 THEN p - 1 - 1 + 1 ELSE 0
          /\ \A i \in 1..(p - 1 - 1 + 1) : SubSeq(q, 1, p - 1)[i] = q[1 + i - 1]
      BY <3>1, SubSeqProperties
    <3> QED
      BY <3>2
  <2>2. /\ b \in Seq(S) /\ Len(b) = Len(q) - p
        /\ \A i \in 1..(Len(q) - p) : b[i] = q[p + i]
    <3>1. \A i \in (p + 1)..Len(q) : q[i] \in S
      BY <2>0
    <3>2. /\ SubSeq(q, p + 1, Len(q)) \in Seq(S)
          /\ Len(SubSeq(q, p + 1, Len(q))) =
                 IF p + 1 <= Len(q) THEN Len(q) - (p + 1) + 1 ELSE 0
          /\ \A i \in 1..(Len(q) - (p + 1) + 1) :
                 SubSeq(q, p + 1, Len(q))[i] = q[p + 1 + i - 1]
      BY <3>1, SubSeqProperties
    <3> QED
      BY <3>2
  <2>3. r = a \o b
    BY DEF RemoveAt
  <2> HIDE DEF a, b, r
  <2>4. /\ r \in Seq(S) /\ Len(r) = Len(a) + Len(b)
        /\ \A i \in 1..Len(a) + Len(b) :
              r[i] = IF i <= Len(a) THEN a[i] ELSE b[i - Len(a)]
    BY <2>1, <2>2, <2>3, ConcatProperties
  <2>5. /\ r \in Seq(S) /\ Len(r) = Len(q) - 1
        /\ \A i \in 1..Len(r) : r[i] = IF i < p THEN a[i] ELSE b[i - p + 1]
    BY <2>1, <2>2, <2>4
  <2>6. ASSUME NEW i \in 1..Len(r)
        PROVE  r[i] = IF i < p THEN q[i] ELSE q[i + 1]
    <3>1. CASE i < p
      <4>1. i \in 1..(p - 1)
        BY <2>5, <3>1
      <4> QED
        BY <2>1, <2>5, <3>1, <4>1
    <3>2. CASE i >= p
      <4>1. i - p + 1 \in 1..(Len(q) - p) /\ p + (i - p + 1) = i + 1
        BY <2>5, <3>2
      <4>2. b[i - p + 1] = q[i + 1]
        BY <2>2, <4>1
      <4> QED
        BY <2>5, <3>2, <4>2
    <3> QED
      BY <2>5, <3>1, <3>2
  <2> QED
    BY <2>5, <2>6
<1> HIDE DEF r
<1>2. Once(r)
  <2> DEFINE pos(k) == IF k < p THEN k ELSE k + 1
  <2>1. ASSUME NEW k \in 1..Len(r)
        PROVE  pos(k) \in 1..Len(q) /\ r[k] = q[pos(k)]
    BY <1>1
  <2> SUFFICES ASSUME NEW i \in 1..Len(r), NEW j \in 1..Len(r), r[i] = r[j]
               PROVE  i = j
    BY DEF Once
  <2>2. pos(i) \in 1..Len(q) /\ pos(j) \in 1..Len(q) /\ q[pos(i)] = q[pos(j)]
    BY <2>1
  <2> HIDE DEF pos
  <2>3. pos(i) = pos(j)
    BY <2>2 DEF Once
  <2> QED
    BY <1>1, <2>3 DEF pos
<1>3. ASSUME NEW u PROVE Contains(r, u) <=> u # q[p] /\ Contains(q, u)
  <2>1. ASSUME Contains(r, u) PROVE u # q[p] /\ Contains(q, u)
    <3>1. PICK i \in 1..Len(r) : r[i] = u
      BY <2>1 DEF Contains
    <3>2. PICK j \in 1..Len(q) : j # p /\ q[j] = u
      <4>1. CASE i < p
        BY <1>1, <3>1, <4>1
      <4>2. CASE i >= p
        BY <1>1, <3>1, <4>2
      <4> QED
        BY <1>1, <4>1, <4>2
    <3> QED
      BY <3>2 DEF Contains, Once
  <2>2. ASSUME u # q[p], Contains(q, u) PROVE Contains(r, u)
    <3>1. PICK i \in 1..Len(q) : q[i] = u /\ i # p
      BY <2>2 DEF Contains
    <3>2. CASE i < p
      <4>1. i \in 1..Len(r) /\ r[i] = u
        BY <1>1, <3>1, <3>2
      <4> QED
        BY <4>1 DEF Contains
    <3>3. CASE i > p
      <4>1. i - 1 \in 1..Len(r) /\ r[i - 1] = u
        BY <1>1, <3>1, <3>3
      <4> QED
        BY <4>1 DEF Contains
    <3> QED
      BY <3>1, <3>2, <3>3
  <2> QED
    BY <2>1, <2>2
<1> QED
  BY <1>1, <1>2, <1>3 DEF r

(* What appending an entry does, ...                                       *)
LEMMA AppendLemma ==
    ASSUME NEW S, NEW q \in Seq(S), Once(q), NEW e \in S, ~Contains(q, e)
    PROVE  /\ Append(q, e) \in Seq(S) /\ Once(Append(q, e))
           /\ Len(Append(q, e)) = Len(q) + 1
           /\ \A i \in 1..(Len(q) + 1) : Append(q, e)[i] = IF i <= Len(q) THEN q[i] ELSE e
           /\ \A u : Contains(Append(q, e), u) <=> u = e \/ Contains(q, u)
<1> DEFINE r == Append(q, e)
<1>1. /\ r \in Seq(S) /\ Len(r) = Len(q) + 1 /\ Len(q) \in Nat
      /\ \A i \in 1..Len(q) : r[i] = q[i]
      /\ r[Len(q) + 1] = e
  BY AppendProperties, LenProperties
<1> HIDE DEF r
<1>2. \A i \in 1..(Len(q) + 1) : r[i] = IF i <= Len(q) THEN q[i] ELSE e
  BY <1>1
<1>3. \A i \in 1..Len(q) : q[i] # e
  BY DEF Contains
<1>4. Once(r)
  BY <1>1, <1>2, <1>3 DEF Once
<1>5. ASSUME NEW u PROVE Contains(r, u) <=> u = e \/ Contains(q, u)
  <2>1. ASSUME Contains(r, u) PROVE u = e \/ Contains(q, u)
    BY <1>1, <1>2, <2>1 DEF Contains
  <2>2. ASSUME Contains(q, u) PROVE Contains(r, u)
    BY <1>1, <2>2 DEF Contains
  <2>3. Contains(r, e)
    BY <1>1 DEF Contains
  <2> QED
    BY <2>1, <2>2, <2>3
<1> QED
  BY <1>1, <1>2, <1>4, <1>5 DEF r

(* ... and taking the first one away.                                      *)
LEMMA TailLemma ==
    ASSUME NEW S, NEW q \in Seq(S), q # << >>, Once(q)
    PROVE  /\ Tail(q) \in Seq(S) /\ Once(Tail(q)) /\ Len(Tail(q)) = Len(q) - 1
           /\ \A i \in 1..(Len(q) - 1) : Tail(q)[i] = q[i + 1]
<1>1. /\ Len(q) \in Nat \ {0} /\ Tail(q) \in Seq(S) /\ Len(Tail(q)) = Len(q) - 1
      /\ \A i \in 1..(Len(q) - 1) : Tail(q)[i] = q[i + 1]
  BY HeadTailProperties, EmptySeq, LenProperties
<1>2. Once(Tail(q))
  BY <1>1 DEF Once
<1> QED
  BY <1>1, <1>2

-----------------------------------------------------------------------------
(* The set's own half of every step.                                       *)

RingSound(m, r) == (\A i \in 1..Len(r) : r[i] \in 1..Len(m)) /\ Once(r)

LEMMA SoundIs ==
    SetIsSound <=> \A s \in Sets : /\ \A o \in Members : qset[o] = s <=> IsMember(s, o)
                                   /\ RingSound(members[s], ready[s])
BY DEF SetIsSound, RingSound, Once

(* Only the ring of one set changes.                                       *)
LEMMA RingKeeps ==
    ASSUME SetInv, UNCHANGED <<inUse, members, qset>>, NEW s \in Sets, NEW r \in Seq(Nat),
           ready' = [ready EXCEPT ![s] = r], RingSound(members[s], r),
           inUse[s] \/ r = << >>
    PROVE  SetInv'
<1> USE DEF SetInv
<1>1. SetTypeOK' /\ MembersOnce' /\ ClosedSetIsEmpty'
  BY DEF SetTypeOK, MembersOnce, ClosedSetIsEmpty
<1>2. \A z \in Sets : ready'[z] = IF z = s THEN r ELSE ready[z]
  BY DEF SetTypeOK
<1>3. SetIsSound'
  <2> SUFFICES ASSUME NEW z \in Sets
               PROVE  /\ \A o \in Members : qset'[o] = z <=> Contains(members'[z], o)
                      /\ RingSound(members'[z], ready'[z])
    BY DEF SetIsSound, RingSound, Once, IsMember
  <2>1. /\ \A o \in Members : qset[o] = z <=> Contains(members[z], o)
        /\ RingSound(members[z], ready[z])
    BY SoundIs DEF IsMember
  <2> QED
    BY <1>2, <2>1
<1> QED
  BY <1>1, <1>3

(* cgrtos_queue_set_poke                                                   *)
LEMMA PokeKeeps ==
    ASSUME MsgAssumption, SetInv, NEW o \in Members, ready' = ReadyAfterPoke(o),
           UNCHANGED <<inUse, members, qset>>
    PROVE  SetInv'
<1> DEFINE s == qset[o]
<1>0. ASSUME ready' = ready PROVE SetInv'
  BY <1>0 DEF SetInv, SetTypeOK, MembersOnce, ClosedSetIsEmpty, SetIsSound, IsMember
<1>1. CASE ~(s # NoSet /\ inUse[s])
  BY <1>0, <1>1 DEF ReadyAfterPoke
<1>2. CASE s # NoSet /\ inUse[s]
  <2>1. s \in Sets /\ ready' = [ready EXCEPT ![s] = PushReady(s, o)]
    BY <1>2 DEF ReadyAfterPoke, SetInv, SetTypeOK
  <2> HIDE DEF s
  <2>2. CASE ~(IsMember(s, o) /\ ~IsReady(s, o) /\ Len(ready[s]) < SetLength)
    BY <1>0, <2>1, <2>2 DEF PushReady, SetInv, SetTypeOK
  <2>3. CASE IsMember(s, o) /\ ~IsReady(s, o) /\ Len(ready[s]) < SetLength
    <3> DEFINE k == MemberIndex(s, o)
    <3>1. k \in 1..Len(members[s]) /\ members[s][k] = o
      BY <2>3 DEF MemberIndex, IsMember, Contains
    <3> HIDE DEF k
    <3>2. /\ members[s] \in Seq(Members) /\ ready[s] \in Seq(Nat)
          /\ RingSound(members[s], ready[s])
      BY <2>1, SoundIs DEF SetInv, SetTypeOK
    <3>3. Len(members[s]) \in Nat /\ k \in Nat
      BY <3>1, <3>2
    <3>4. ~Contains(ready[s], k)
      BY <2>3, <3>1, <3>3 DEF IsReady, Contains
    <3>5. Append(ready[s], k) \in Seq(Nat) /\ RingSound(members[s], Append(ready[s], k))
      BY <3>1, <3>2, <3>3, <3>4, AppendLemma DEF RingSound
    <3>6. ready' = [ready EXCEPT ![s] = Append(ready[s], k)]
      BY <2>1, <2>3 DEF PushReady, k
    <3> QED
      BY <1>2, <2>1, <3>5, <3>6, RingKeeps
  <2> QED
    BY <2>2, <2>3
<1> QED
  BY <1>1, <1>2

LEMMA SetUnchanged == ASSUME SetInv, UNCHANGED setVars PROVE SetInv'
BY DEF SetInv, SetTypeOK, MembersOnce, ClosedSetIsEmpty, SetIsSound, IsMember, setVars

(* The first ready member is selected.                                     *)
LEMMA SelectKeeps ==
    ASSUME SetInv, NEW s \in Sets, ready[s] # << >>,
           ready' = [ready EXCEPT ![s] = Tail(ready[s])],
           UNCHANGED <<inUse, members, qset>>
    PROVE  SetInv'
<1>1. ready[s] \in Seq(Nat) /\ RingSound(members[s], ready[s])
  BY SoundIs DEF SetInv, SetTypeOK
<1>2. Len(ready[s]) \in Nat
  BY <1>1
<1>3. Tail(ready[s]) \in Seq(Nat) /\ RingSound(members[s], Tail(ready[s]))
  <2>1. /\ Tail(ready[s]) \in Seq(Nat) /\ Once(Tail(ready[s]))
        /\ Len(Tail(ready[s])) = Len(ready[s]) - 1
        /\ \A i \in 1..(Len(ready[s]) - 1) : Tail(ready[s])[i] = ready[s][i + 1]
    BY <1>1, TailLemma DEF RingSound
  <2>2. \A i \in 1..(Len(ready[s]) - 1) : i + 1 \in 1..Len(ready[s])
    BY <1>2
  <2> QED
    BY <1>1, <2>1, <2>2 DEF RingSound
<1>4. inUse[s] \/ Tail(ready[s]) = << >>
  BY DEF SetInv, ClosedSetIsEmpty
<1> QED
  BY <1>3, <1>4, RingKeeps

(* The parts of SetInv that concern set s alone, after a change of s.      *)
LEMMA OneSetChanges ==
    ASSUME SetInv, NEW s \in Sets, NEW m \in Seq(Members), NEW r \in Seq(Nat), NEW b \in BOOLEAN,
           members' = [members EXCEPT ![s] = m],
           ready' = [ready EXCEPT ![s] = r],
           inUse' = [inUse EXCEPT ![s] = b],
           Once(m), RingSound(m, r), b \/ (m = << >> /\ r = << >>),
           qset' \in [Members -> Sets \cup {NoSet}],
           \A o \in Members : /\ qset'[o] = s <=> Contains(m, o)
                              /\ \A z \in Sets \ {s} : qset'[o] = z <=> qset[o] = z
    PROVE  SetInv'
<1> USE DEF SetInv
<1>1. \A z \in Sets : /\ members'[z] = IF z = s THEN m ELSE members[z]
                      /\ ready'[z] = IF z = s THEN r ELSE ready[z]
                      /\ inUse'[z] = IF z = s THEN b ELSE inUse[z]
  BY DEF SetTypeOK
<1>2. SetTypeOK'
  BY DEF SetTypeOK
<1>3. MembersOnce'
  BY <1>1 DEF MembersOnce
<1>4. ClosedSetIsEmpty'
  BY <1>1 DEF ClosedSetIsEmpty
<1>5. SetIsSound'
  <2> SUFFICES ASSUME NEW z \in Sets
               PROVE  /\ \A o \in Members : qset'[o] = z <=> Contains(members'[z], o)
                      /\ RingSound(members'[z], ready'[z])
    BY DEF SetIsSound, RingSound, Once, IsMember
  <2>1. /\ \A o \in Members : qset[o] = z <=> Contains(members[z], o)
        /\ RingSound(members[z], ready[z])
    BY SoundIs DEF IsMember
  <2> QED
    BY <1>1, <2>1
<1> QED
  BY <1>2, <1>3, <1>4, <1>5

LEMMA NothingRinging ==
    ASSUME NEW m \in Seq(Members)
    PROVE  /\ RingSound(m, << >>) /\ << >> \in Seq(Nat)
           /\ Once(<< >>) /\ << >> \in Seq(Members) /\ \A o : ~Contains(<< >>, o)
BY DEF RingSound, Once, Contains

(* cgrtos_queue_set_create takes a slot nothing belongs to.                *)
LEMMA CreateSetKeeps ==
    ASSUME SetInv, NEW t \in Tasks, NEW s \in Sets, CreateSet(t, s)
    PROVE  SetInv'
<1>1. members[s] = << >> /\ \A o \in Members : qset[o] = s <=> IsMember(s, o)
  BY DEF CreateSet, SetInv, ClosedSetIsEmpty, SetIsSound
<1>2. \A o \in Members : qset[o] # s
  BY <1>1 DEF IsMember, Contains
<1>3. << >> \in Seq(Members) /\ qset' = qset /\ qset \in [Members -> Sets \cup {NoSet}]
  BY DEF CreateSet, SetInv, SetTypeOK
<1> QED
  BY <1>2, <1>3, NothingRinging, OneSetChanges DEF CreateSet

(* cgrtos_queue_set_add                                                    *)
LEMMA AddMemberKeeps ==
    ASSUME MsgAssumption, SetInv, NEW t \in Tasks, NEW s \in Sets, NEW o \in Members,
           NEW filled \in BOOLEAN, qset[o] = NoSet, AddMember(t, s, o, filled)
    PROVE  SetInv'
<1> DEFINE m == Append(members[s], o)
           n == Len(members[s]) + 1
           r == IF filled /\ Len(ready[s]) < SetLength THEN Append(ready[s], n) ELSE ready[s]
<1>1. /\ members[s] \in Seq(Members) /\ Once(members[s]) /\ ~Contains(members[s], o)
      /\ ready[s] \in Seq(Nat) /\ RingSound(members[s], ready[s])
  BY SoundIs DEF SetInv, SetTypeOK, MembersOnce, AddMember, IsMember
<1>2. Len(members[s]) \in Nat /\ n \in Nat
  BY <1>1
<1>3. /\ m \in Seq(Members) /\ Once(m) /\ Len(m) = n
      /\ \A u : Contains(m, u) <=> u = o \/ Contains(members[s], u)
  BY <1>1, AppendLemma
<1> HIDE DEF m
<1>4. ~Contains(ready[s], n)
  BY <1>1, <1>2 DEF RingSound, Contains
<1>5. r \in Seq(Nat) /\ RingSound(m, r)
  <2>1. RingSound(m, ready[s])
    BY <1>1, <1>2, <1>3 DEF RingSound
  <2>2. Append(ready[s], n) \in Seq(Nat) /\ RingSound(m, Append(ready[s], n))
    <3> HIDE DEF n
    <3>1. /\ Append(ready[s], n) \in Seq(Nat) /\ Once(Append(ready[s], n))
          /\ Len(Append(ready[s], n)) = Len(ready[s]) + 1
          /\ \A i \in 1..(Len(ready[s]) + 1) :
                Append(ready[s], n)[i] = IF i <= Len(ready[s]) THEN ready[s][i] ELSE n
      BY <1>1, <1>2, <1>4, AppendLemma DEF RingSound
    <3>2. n \in 1..Len(m) /\ Len(ready[s]) \in Nat
      BY <1>1, <1>2, <1>3 DEF n
    <3> QED
      BY <2>1, <3>1, <3>2 DEF RingSound
  <2> QED
    BY <1>1, <2>1, <2>2
<1>6. /\ members' = [members EXCEPT ![s] = m]
      /\ ready' = [ready EXCEPT ![s] = r]
      /\ inUse' = [inUse EXCEPT ![s] = TRUE]
      /\ qset' = [qset EXCEPT ![o] = s]
  BY DEF AddMember, m, SetInv, SetTypeOK
<1> HIDE DEF r
<1>7. qset' \in [Members -> Sets \cup {NoSet}]
  BY <1>6 DEF SetInv, SetTypeOK
<1>8. \A x \in Members : /\ qset'[x] = s <=> Contains(m, x)
                         /\ \A z \in Sets \ {s} : qset'[x] = z <=> qset[x] = z
  <2> TAKE x \in Members
  <2>1. qset[x] = s <=> Contains(members[s], x)
    BY DEF SetInv, SetIsSound, IsMember
  <2>2. qset'[x] = IF x = o THEN s ELSE qset[x]
    BY <1>6 DEF SetInv, SetTypeOK
  <2> QED
    BY <1>3, <2>1, <2>2 DEF MsgAssumption, SetAssumption
<1> QED
  BY <1>3, <1>5, <1>6, <1>7, <1>8, OneSetChanges

(* cgrtos_queue_set_remove                                                 *)
LEMMA RemoveMemberKeeps ==
    ASSUME MsgAssumption, SetInv, NEW t \in Tasks, NEW s \in Sets, NEW o \in Members,
           RemoveMember(t, s, o)
    PROVE  SetInv'
<1> DEFINE k == MemberIndex(s, o)
           m == RemoveAt(members[s], k)
<1>1. members[s] \in Seq(Members) /\ Once(members[s])
  BY DEF SetInv, SetTypeOK, MembersOnce
<1>2. k \in 1..Len(members[s]) /\ members[s][k] = o /\ members[s] # << >>
  BY <1>1 DEF RemoveMember, MemberIndex, IsMember, Contains
<1> HIDE DEF k
<1>3. /\ m \in Seq(Members) /\ Once(m)
      /\ \A u : Contains(m, u) <=> u # o /\ Contains(members[s], u)
  BY <1>1, <1>2, RemoveAtLemma
<1>4. members' = [members EXCEPT ![s] = m]
  BY DEF RemoveMember, k
<1> HIDE DEF m
<1>5. inUse[s] /\ inUse' = [inUse EXCEPT ![s] = TRUE]
  BY <1>2 DEF RemoveMember, SetInv, SetTypeOK, ClosedSetIsEmpty
<1>6. qset' = [qset EXCEPT ![o] = NoSet] /\ ready' = [ready EXCEPT ![s] = << >>]
  BY DEF RemoveMember
<1>7. qset' \in [Members -> Sets \cup {NoSet}]
  BY <1>6 DEF SetInv, SetTypeOK
<1>8. \A x \in Members : /\ qset'[x] = s <=> Contains(m, x)
                         /\ \A z \in Sets \ {s} : qset'[x] = z <=> qset[x] = z
  <2> TAKE x \in Members
  <2>1. qset[x] = s <=> Contains(members[s], x)
    BY DEF SetInv, SetIsSound, IsMember
  <2>2. qset'[x] = IF x = o THEN NoSet ELSE qset[x]
    BY <1>6 DEF SetInv, SetTypeOK
  <2>3. qset[o] = s
    BY DEF RemoveMember, SetInv, SetIsSound
  <2> QED
    BY <1>3, <2>1, <2>2, <2>3 DEF MsgAssumption, SetAssumption
<1> QED
  BY <1>3, <1>4, <1>5, <1>6, <1>7, <1>8, NothingRinging, OneSetChanges

(* cgrtos_queue_set_delete                                                 *)
LEMMA DeleteSetKeeps ==
    ASSUME MsgAssumption, SetInv, NEW t \in Tasks, NEW s \in Sets, DeleteSet(t, s)
    PROVE  SetInv'
<1>1. qset' = [o \in Members |-> IF IsMember(s, o) THEN NoSet ELSE qset[o]]
  BY DEF DeleteSet
<1>2. \A o \in Members : qset[o] = s <=> IsMember(s, o)
  BY DEF SetInv, SetIsSound
<1>3. qset' \in [Members -> Sets \cup {NoSet}]
  BY <1>1 DEF SetInv, SetTypeOK
<1>4. \A x \in Members : /\ qset'[x] # s
                         /\ \A z \in Sets \ {s} : qset'[x] = z <=> qset[x] = z
  BY <1>1, <1>2 DEF MsgAssumption, SetAssumption
<1>5. << >> \in Seq(Members)
  OBVIOUS
<1>6. /\ members' = [members EXCEPT ![s] = << >>]
      /\ ready' = [ready EXCEPT ![s] = << >>]
      /\ inUse' = [inUse EXCEPT ![s] = FALSE]
  BY DEF DeleteSet
<1>7. /\ RingSound(<< >>, << >>) /\ << >> \in Seq(Nat)
      /\ Once(<< >>) /\ \A o \in Members : ~Contains(<< >>, o)
  BY <1>5, NothingRinging
<1>8. \A o \in Members : /\ qset'[o] = s <=> Contains(<< >>, o)
                         /\ \A z \in Sets \ {s} : qset'[o] = z <=> qset[o] = z
  BY <1>4, <1>7
<1> QED
  BY <1>3, <1>5, <1>6, <1>7, <1>8, OneSetChanges

(* The deletion of a queue that is in no set.                              *)
LEMMA QueueDeleteKeepsSets ==
    ASSUME MsgAssumption, ~DeleteInSet, SetInv, NEW t \in Tasks, NEW q \in MsgQueues,
           QueueDelete(t, q)
    PROVE  SetInv'
<1>1. qset[q] = NoSet /\ qset' = [qset EXCEPT ![q] = NoSet]
  BY DEF QueueDelete
<1>2. qset' = qset
  BY <1>1 DEF SetInv, SetTypeOK
<1> QED
  BY <1>2, SetUnchanged DEF QueueDelete, setVars

LEMMA SetInvInit == ASSUME MsgAssumption, Init PROVE SetInv
<1>1. SetTypeOK /\ MembersOnce /\ ClosedSetIsEmpty
  BY DEF Init, SetInit, SetTypeOK, MembersOnce, Once, ClosedSetIsEmpty
<1>2. SetIsSound
  BY DEF Init, SetInit, SetIsSound, IsMember, Contains, MsgAssumption, SetAssumption
<1> QED
  BY <1>1, <1>2 DEF SetInv

(* A send or a receive, by any caller, touches the sets by its poke only.  *)
LEMMA DeliverOrNot ==
    ASSUME MsgAssumption, SetInv, NEW q \in MsgQueues, NEW p \in Payloads,
           Deliver(q, p) \/ Collect(q) \/ UNCHANGED setVars
    PROVE  SetInv'
<1>1. CASE Deliver(q, p)
  BY <1>1, PokeKeeps DEF Deliver, MsgQueues
<1>2. CASE Collect(q) \/ UNCHANGED setVars
  BY <1>2, SetUnchanged DEF Collect
<1> QED
  BY <1>1, <1>2

LEMMA SetInvStep ==
    ASSUME MsgAssumption, ~DeleteInSet, SetInv, [Next]_vars
    PROVE  SetInv'
<1>1. CASE UNCHANGED setVars
  BY <1>1, SetUnchanged
<1>2. CASE QueueStep
  <2>1. CASE \E c \in Tasks \cup {Isr}, q \in MsgQueues, m \in Payloads : Send(c, q, m)
    BY <2>1, DeliverOrNot DEF Send
  <2>2. CASE \E t \in Tasks, m \in Payloads : SendReturns(t, m)
    BY <2>2, DeliverOrNot DEF SendReturns
  <2>3. CASE \E t \in Tasks, q \in MsgQueues : QueueDelete(t, q)
    BY <2>3, QueueDeleteKeepsSets
  <2>4. CASE UNCHANGED setVars
    BY <2>4, SetUnchanged
  <2>5. QueueStep => \/ \E c \in Tasks \cup {Isr}, q \in MsgQueues, m \in Payloads : Send(c, q, m)
                     \/ \E t \in Tasks, m \in Payloads : SendReturns(t, m)
                     \/ \E t \in Tasks, q \in MsgQueues : QueueDelete(t, q)
                     \/ UNCHANGED setVars
    BY DEF QueueStep, QueueCreate, SendBlocks, Receive, ReceiveBlocks, ReceiveReturns, Collect
  <2> QED
    BY <1>2, <2>1, <2>2, <2>3, <2>4, <2>5
<1>3. CASE SetStep
  <2>1. CASE \E t \in Tasks, s \in Sets : CreateSet(t, s) \/ DeleteSet(t, s) \/ Select(t, s)
    BY <2>1, CreateSetKeeps, DeleteSetKeeps, SelectKeeps DEF Select
  <2>2. CASE \E t \in Tasks, s \in Sets, q \in MsgQueues :
                \/ len[q] > 0 /\ qset[q] = NoSet /\ AddMember(t, s, q, cnt[q] > 0)
                \/ RemoveMember(t, s, q)
    <3>1. PICK t \in Tasks, s \in Sets, q \in MsgQueues :
                \/ len[q] > 0 /\ qset[q] = NoSet /\ AddMember(t, s, q, cnt[q] > 0)
                \/ RemoveMember(t, s, q)
      BY <2>2
    <3>2. CASE RemoveMember(t, s, q)
      BY <3>2, RemoveMemberKeeps DEF MsgQueues
    <3>3. CASE qset[q] = NoSet /\ AddMember(t, s, q, cnt[q] > 0)
      <4>1. (cnt[q] > 0) \in BOOLEAN
        OBVIOUS
      <4> QED
        BY <3>3, <4>1, AddMemberKeeps DEF MsgQueues
    <3> QED
      BY <3>1, <3>2, <3>3
  <2>3. CASE \E t \in Tasks : SelectReturns(t)
    <3>1. PICK t \in Tasks, s \in Sets :
             /\ ready' = IF wakeOk[t] /\ ready[s] # << >>
                         THEN [ready EXCEPT ![s] = Tail(@)] ELSE ready
             /\ UNCHANGED <<inUse, members, qset>>
      BY <2>3 DEF SelectReturns
    <3> QED
      BY <3>1, SelectKeeps, SetUnchanged DEF setVars
  <2>4. CASE \E t \in Tasks, s \in Sets, d \in Timeouts : SelectBlocks(t, s, d)
    BY <2>4, SetUnchanged DEF SelectBlocks
  <2> QED
    BY <1>3, <2>1, <2>2, <2>3, <2>4 DEF SetStep
<1> QED
  BY <1>1, <1>2, <1>3 DEF Next, vars

(* Theorem: the table of a queue set, the link of every object and the ring*)
(* of ready members agree through create, add, poke, select, remove and    *)
(* delete in any order: no poke goes to a set that has gone, no entry of   *)
(* the ring to a member that has left, and the ring never overflows.       *)
THEOREM TableLinksRingAgree == ASSUME ~DeleteInSet PROVE Spec => []SetIsSound
<1>1. MsgAssumption
  BY WaitAssumption, SetAssumption, QueueAssumption DEF MsgAssumption
<1>2. Init => SetInv
  BY <1>1, SetInvInit
<1>3. SetInv /\ [Next]_vars => SetInv'
  BY <1>1, SetInvStep
<1>4. SetInv => SetIsSound
  BY DEF SetInv
<1> QED
  BY <1>2, <1>3, <1>4, PTL DEF Spec

-----------------------------------------------------------------------------
(* The ring.                                                               *)

RingTypeOK ==
    /\ len \in [MsgQueues -> 0..MaxLen]
    /\ cnt \in [MsgQueues -> Nat]
    /\ head \in [MsgQueues -> Nat]
    /\ tail \in [MsgQueues -> Nat]
    /\ buf \in [MsgQueues -> [0..(MaxLen - 1) -> Payloads]]

(* The place a slots on from the start of a ring of n.                     *)
Wrapped(a, n) == IF a < n THEN a ELSE a - n

(* head is cnt slots on from tail; a free slot of g_qs has both at 0.      *)
Indices(q) ==
    /\ cnt[q] <= len[q]
    /\ len[q] = 0 => head[q] = 0 /\ tail[q] = 0
    /\ len[q] > 0 => /\ head[q] < len[q] /\ tail[q] < len[q]
                     /\ head[q] = Wrapped(tail[q] + cnt[q], len[q])

RingInv == RingTypeOK /\ \A q \in MsgQueues : Indices(q)

LEMMA WrapLemma ==
    ASSUME NEW n \in Nat \ {0}, NEW a \in Nat, a < 2 * n
    PROVE  a % n = Wrapped(a, n)
<1>1. CASE a < n
  BY <1>1 DEF Wrapped
<1>2. CASE a >= n
  BY <1>2 DEF Wrapped
<1> QED
  BY <1>1, <1>2

LEMMA PushKeeps ==
    ASSUME MsgAssumption, RingInv, NEW q \in MsgQueues, NEW m \in Payloads,
           cnt[q] < len[q], Push(q, m)
    PROVE  /\ RingInv'
           /\ \A x \in MsgQueues : Contents(x)' = IF x = q THEN Append(Contents(x), m) ELSE Contents(x)
<1> USE DEF RingInv
<1>1. MaxLen \in Nat \ {0}
  BY DEF MsgAssumption, QueueAssumption
<1>2. /\ len[q] \in Nat \ {0} /\ len[q] <= MaxLen /\ cnt[q] \in Nat /\ head[q] \in Nat /\ tail[q] \in Nat
      /\ head[q] < len[q] /\ tail[q] < len[q] /\ head[q] = Wrapped(tail[q] + cnt[q], len[q])
  BY <1>1 DEF RingTypeOK, Indices
<1>3. (head[q] + 1) % len[q] = Wrapped(head[q] + 1, len[q])
  <2>1. head[q] + 1 \in Nat /\ head[q] + 1 < 2 * len[q]
    BY <1>2
  <2> QED
    BY <1>2, <2>1, WrapLemma
<1>4. \A x \in MsgQueues : /\ head'[x] = IF x = q THEN Wrapped(head[q] + 1, len[q]) ELSE head[x]
                           /\ cnt'[x] = IF x = q THEN cnt[q] + 1 ELSE cnt[x]
                           /\ tail'[x] = tail[x] /\ len'[x] = len[x]
  BY <1>3 DEF Push, RingTypeOK
<1>5. Wrapped(head[q] + 1, len[q]) \in Nat
  BY <1>2 DEF Wrapped
<1>6. RingTypeOK'
  <2>1. head[q] \in 0..(MaxLen - 1)
    BY <1>1, <1>2
  <2>2. buf' \in [MsgQueues -> [0..(MaxLen - 1) -> Payloads]]
    BY <2>1 DEF Push, RingTypeOK
  <2>3. head' \in [MsgQueues -> Nat] /\ cnt' \in [MsgQueues -> Nat]
    BY <1>2, <1>3, <1>5 DEF Push, RingTypeOK
  <2> QED
    BY <2>2, <2>3 DEF Push, RingTypeOK
<1>7. ASSUME NEW x \in MsgQueues PROVE Indices(x)'
  <2>1. Indices(x)
    OBVIOUS
  <2>2. CASE x = q
    <3>1. Wrapped(head[q] + 1, len[q]) = Wrapped(tail[q] + (cnt[q] + 1), len[q])
      BY <1>2 DEF Wrapped
    <3>2. Wrapped(head[q] + 1, len[q]) < len[q]
      BY <1>2 DEF Wrapped
    <3> QED
      BY <1>2, <1>4, <2>2, <3>1, <3>2 DEF Indices
  <2>3. CASE x # q
    BY <1>4, <2>1, <2>3 DEF Indices
  <2> QED
    BY <2>2, <2>3
<1>8. ASSUME NEW x \in MsgQueues, x # q PROVE Contents(x)' = Contents(x)
  <2>1. buf'[x] = buf[x]
    BY <1>8 DEF Push, RingTypeOK
  <2> QED
    BY <1>4, <1>8, <2>1 DEF Contents
<1>9. Contents(q)' = Append(Contents(q), m)
  <2> DEFINE slot(i) == (tail[q] + i - 1) % len[q]
  <2>1. \A i \in 1..(cnt[q] + 1) : slot(i) = Wrapped(tail[q] + i - 1, len[q])
    <3> TAKE i \in 1..(cnt[q] + 1)
    <3>1. tail[q] + i - 1 \in Nat /\ tail[q] + i - 1 < 2 * len[q]
      BY <1>2
    <3> QED
      BY <1>2, <3>1, WrapLemma
  <2>2. slot(cnt[q] + 1) = head[q]
    <3>1. slot(cnt[q] + 1) = Wrapped(tail[q] + (cnt[q] + 1) - 1, len[q])
      BY <1>2, <2>1
    <3>2. tail[q] + (cnt[q] + 1) - 1 = tail[q] + cnt[q]
      BY <1>2
    <3> HIDE DEF slot
    <3> QED
      BY <1>2, <3>1, <3>2
  <2>3. \A i \in 1..cnt[q] : slot(i) # head[q] /\ slot(i) \in 0..(MaxLen - 1)
    <3> TAKE i \in 1..cnt[q]
    <3>1. slot(i) = Wrapped(tail[q] + i - 1, len[q])
      BY <1>2, <2>1
    <3> HIDE DEF slot
    <3> QED
      BY <1>1, <1>2, <3>1 DEF Wrapped
  <2>4. buf'[q] = [buf[q] EXCEPT ![head[q]] = m] /\ buf[q] \in [0..(MaxLen - 1) -> Payloads]
    BY DEF Push, RingTypeOK
  <2>5. Contents(q)' = [i \in 1..(cnt[q] + 1) |-> buf'[q][slot(i)]]
    BY <1>4 DEF Contents
  <2>6. Contents(q) = [i \in 1..cnt[q] |-> buf[q][slot(i)]]
    BY DEF Contents
  <2>7. head[q] \in 0..(MaxLen - 1)
    BY <1>1, <1>2
  <2> HIDE DEF slot
  <2>8. \A i \in 1..(cnt[q] + 1) : buf'[q][slot(i)] = IF i <= cnt[q] THEN buf[q][slot(i)] ELSE m
    <3> TAKE i \in 1..(cnt[q] + 1)
    <3>1. CASE i <= cnt[q]
      <4>1. i \in 1..cnt[q]
        BY <1>2, <3>1
      <4> QED
        BY <2>3, <2>4, <3>1, <4>1
    <3>2. CASE ~(i <= cnt[q])
      <4>1. i = cnt[q] + 1
        BY <1>2, <3>2
      <4> QED
        BY <2>2, <2>4, <2>7, <3>2, <4>1
    <3> QED
      BY <3>1, <3>2
  <2>9. Contents(q) \in Seq(Payloads) /\ Len(Contents(q)) = cnt[q]
    <3>1. \A i \in 1..cnt[q] : buf[q][slot(i)] \in Payloads
      BY <2>3, <2>4
    <3> QED
      BY <1>2, <2>6, <3>1
  <2>10. Append(Contents(q), m) = [i \in 1..(cnt[q] + 1) |-> IF i <= cnt[q] THEN buf[q][slot(i)] ELSE m]
    BY <1>2, <2>6, <2>9
  <2> QED
    BY <2>5, <2>8, <2>10
<1> QED
  BY <1>6, <1>7, <1>8, <1>9

LEMMA PopKeeps ==
    ASSUME MsgAssumption, RingInv, NEW q \in MsgQueues, cnt[q] > 0, Pop(q)
    PROVE  /\ RingInv'
           /\ \A x \in MsgQueues : Contents(x)' = IF x = q THEN Tail(Contents(x)) ELSE Contents(x)
           /\ Contents(q) # << >>
<1> USE DEF RingInv
<1>1. MaxLen \in Nat \ {0}
  BY DEF MsgAssumption, QueueAssumption
<1>2. /\ len[q] \in Nat \ {0} /\ len[q] <= MaxLen /\ cnt[q] \in Nat \ {0} /\ head[q] \in Nat /\ tail[q] \in Nat
      /\ head[q] < len[q] /\ tail[q] < len[q] /\ head[q] = Wrapped(tail[q] + cnt[q], len[q])
      /\ cnt[q] <= len[q]
  BY <1>1 DEF RingTypeOK, Indices
<1>3. (tail[q] + 1) % len[q] = Wrapped(tail[q] + 1, len[q])
  <2>1. tail[q] + 1 \in Nat /\ tail[q] + 1 < 2 * len[q]
    BY <1>2
  <2> QED
    BY <1>2, <2>1, WrapLemma
<1>4. \A x \in MsgQueues : /\ tail'[x] = IF x = q THEN Wrapped(tail[q] + 1, len[q]) ELSE tail[x]
                           /\ cnt'[x] = IF x = q THEN cnt[q] - 1 ELSE cnt[x]
                           /\ head'[x] = head[x] /\ len'[x] = len[x] /\ buf'[x] = buf[x]
  BY <1>3 DEF Pop, RingTypeOK
<1>5. Wrapped(tail[q] + 1, len[q]) \in Nat /\ Wrapped(tail[q] + 1, len[q]) < len[q]
  BY <1>2 DEF Wrapped
<1>6. RingTypeOK'
  <2>1. tail' \in [MsgQueues -> Nat] /\ cnt' \in [MsgQueues -> Nat]
    BY <1>2, <1>3, <1>5 DEF Pop, RingTypeOK
  <2> QED
    BY <2>1 DEF Pop, RingTypeOK
<1>7. ASSUME NEW x \in MsgQueues PROVE Indices(x)'
  <2>1. Indices(x)
    OBVIOUS
  <2>2. CASE x = q
    <3>1. head[q] = Wrapped(Wrapped(tail[q] + 1, len[q]) + (cnt[q] - 1), len[q])
      BY <1>2 DEF Wrapped
    <3> QED
      BY <1>2, <1>4, <1>5, <2>2, <3>1 DEF Indices
  <2>3. CASE x # q
    BY <1>4, <2>1, <2>3 DEF Indices
  <2> QED
    BY <2>2, <2>3
<1>8. ASSUME NEW x \in MsgQueues, x # q PROVE Contents(x)' = Contents(x)
  BY <1>4, <1>8 DEF Contents
<1>9. Contents(q)' = Tail(Contents(q)) /\ Contents(q) # << >>
  <2> DEFINE slot(i) == (tail[q] + i - 1) % len[q]
             then(i) == (Wrapped(tail[q] + 1, len[q]) + i - 1) % len[q]
  <2>1. \A i \in 1..cnt[q] : slot(i) = Wrapped(tail[q] + i - 1, len[q])
    <3> TAKE i \in 1..cnt[q]
    <3>1. tail[q] + i - 1 \in Nat /\ tail[q] + i - 1 < 2 * len[q]
      BY <1>2
    <3> QED
      BY <1>2, <3>1, WrapLemma
  <2>2. \A i \in 1..(cnt[q] - 1) : then(i) = slot(i + 1)
    <3> TAKE i \in 1..(cnt[q] - 1)
    <3> DEFINE w == Wrapped(tail[q] + 1, len[q])
    <3>1. w + i - 1 \in Nat /\ w + i - 1 < 2 * len[q]
      BY <1>2, <1>5
    <3>2. then(i) = Wrapped(w + i - 1, len[q])
      <4> HIDE DEF w
      <4>1. (w + i - 1) % len[q] = Wrapped(w + i - 1, len[q])
        BY <1>2, <3>1, WrapLemma
      <4> QED
        BY <4>1 DEF w
    <3>3. i + 1 \in 1..cnt[q] /\ slot(i + 1) = Wrapped(tail[q] + (i + 1) - 1, len[q])
      <4>1. i + 1 \in 1..cnt[q]
        BY <1>2
      <4> QED
        BY <2>1, <4>1
    <3> HIDE DEF slot, then
    <3>4. Wrapped(w + i - 1, len[q]) = Wrapped(tail[q] + (i + 1) - 1, len[q])
      BY <1>2 DEF Wrapped
    <3> QED
      BY <3>2, <3>3, <3>4
  <2>3. \A i \in 1..cnt[q] : slot(i) \in 0..(MaxLen - 1)
    <3> TAKE i \in 1..cnt[q]
    <3>1. slot(i) = Wrapped(tail[q] + i - 1, len[q])
      BY <2>1
    <3> HIDE DEF slot
    <3> QED
      BY <1>1, <1>2, <3>1 DEF Wrapped
  <2>5. Contents(q)' = [i \in 1..(cnt[q] - 1) |-> buf[q][then(i)]]
    BY <1>4 DEF Contents
  <2>6. Contents(q) = [i \in 1..cnt[q] |-> buf[q][slot(i)]]
    BY DEF Contents
  <2> HIDE DEF slot, then
  <2>7. Contents(q) \in Seq(Payloads) /\ Len(Contents(q)) = cnt[q]
    <3>1. \A i \in 1..cnt[q] : buf[q][slot(i)] \in Payloads
      BY <2>3 DEF RingTypeOK
    <3>2. cnt[q] \in Nat
      BY <1>2
    <3>3. Contents(q) \in [1..cnt[q] -> Payloads]
      BY <2>6, <3>1
    <3> QED
      BY <3>2, <3>3
  <2>8. Contents(q) # << >>
    BY <1>2, <2>7
  <2>9. Tail(Contents(q)) = [i \in 1..(cnt[q] - 1) |-> buf[q][slot(i + 1)]]
    <3> DEFINE r == Tail(Contents(q))
    <3>1. /\ r \in Seq(Payloads) /\ Len(r) = cnt[q] - 1
          /\ \A i \in 1..(cnt[q] - 1) : r[i] = Contents(q)[i + 1]
      BY <2>7, <2>8, HeadTailProperties
    <3>2. \A i \in 1..(cnt[q] - 1) : Contents(q)[i + 1] = buf[q][slot(i + 1)]
      BY <1>2, <2>6
    <3> HIDE DEF r
    <3>3. r = [i \in 1..(cnt[q] - 1) |-> r[i]]
      BY <3>1
    <3> QED
      BY <3>1, <3>2, <3>3 DEF r
  <2> QED
    BY <2>2, <2>5, <2>8, <2>9
<1> QED
  BY <1>6, <1>7, <1>8, <1>9

LEMMA RingUnchanged ==
    ASSUME RingInv, UNCHANGED ringVars
    PROVE  RingInv' /\ \A q \in MsgQueues : Contents(q)' = Contents(q)
BY DEF RingInv, RingTypeOK, Indices, Contents, ringVars

(* cgrtos_queue_create, cgrtos_queue_delete                                *)
LEMMA QueueCreateKeeps ==
    ASSUME MsgAssumption, RingInv, NEW t \in Tasks, NEW q \in MsgQueues, NEW n \in 1..MaxLen,
           QueueCreate(t, q, n)
    PROVE  RingInv' /\ \A x \in MsgQueues : Contents(x)' = Contents(x)
<1> USE DEF RingInv
<1>1. MaxLen \in Nat \ {0}
  BY DEF MsgAssumption, QueueAssumption
<1>2. \A x \in MsgQueues : len'[x] = IF x = q THEN n ELSE len[x]
  BY DEF QueueCreate, RingTypeOK
<1>3. len[q] = 0 /\ cnt[q] = 0 /\ head[q] = 0 /\ tail[q] = 0
  BY DEF QueueCreate, RingTypeOK, Indices
<1>4. RingTypeOK'
  BY <1>1 DEF QueueCreate, RingTypeOK
<1>5. ASSUME NEW x \in MsgQueues PROVE Indices(x)' /\ Contents(x)' = Contents(x)
  <2>1. Indices(x) /\ UNCHANGED <<cnt, head, tail, buf>>
    BY DEF QueueCreate
  <2>2. CASE x = q
    BY <1>1, <1>2, <1>3, <2>1, <2>2 DEF Indices, Contents, Wrapped
  <2>3. CASE x # q
    BY <1>2, <2>1, <2>3 DEF Indices, Contents
  <2> QED
    BY <2>2, <2>3
<1> QED
  BY <1>4, <1>5

LEMMA QueueDeleteKeeps ==
    ASSUME MsgAssumption, RingInv, NEW t \in Tasks, NEW q \in MsgQueues, QueueDelete(t, q)
    PROVE  /\ RingInv'
           /\ \A x \in MsgQueues : Contents(x)' = IF x = q THEN << >> ELSE Contents(x)
<1> USE DEF RingInv
<1>1. MaxLen \in Nat \ {0}
  BY DEF MsgAssumption, QueueAssumption
<1>2. \A x \in MsgQueues : /\ len'[x] = IF x = q THEN 0 ELSE len[x]
                           /\ cnt'[x] = IF x = q THEN 0 ELSE cnt[x]
                           /\ head'[x] = IF x = q THEN 0 ELSE head[x]
                           /\ tail'[x] = IF x = q THEN 0 ELSE tail[x]
                           /\ buf'[x] = buf[x]
  BY DEF QueueDelete, RingTypeOK
<1>3. RingTypeOK'
  BY <1>1 DEF QueueDelete, RingTypeOK
<1>4. ASSUME NEW x \in MsgQueues
      PROVE  Indices(x)' /\ Contents(x)' = IF x = q THEN << >> ELSE Contents(x)
  <2>1. Indices(x)
    OBVIOUS
  <2>2. CASE x = q
    BY <1>2, <2>2 DEF Indices, Contents
  <2>3. CASE x # q
    BY <1>2, <2>1, <2>3 DEF Indices, Contents
  <2> QED
    BY <2>2, <2>3
<1> QED
  BY <1>3, <1>4

LEMMA RingInvInit == ASSUME MsgAssumption, Init PROVE RingInv
<1>1. MaxLen \in Nat \ {0}
  BY DEF MsgAssumption, QueueAssumption
<1>2. RingTypeOK
  BY <1>1 DEF Init, RingTypeOK
<1>3. \A q \in MsgQueues : Indices(q)
  BY DEF Init, Indices
<1> QED
  BY <1>2, <1>3 DEF RingInv

-----------------------------------------------------------------------------
(* The refinement: each step of the ring is a step of the bounded FIFO.    *)

Chan == [q \in MsgQueues |-> Contents(q)]
FifoStep == [Fifo!FifoNext]_<<len, Chan>>

LEMMA PutStep ==
    ASSUME MsgAssumption, RingInv, NEW q \in MsgQueues, NEW m \in Payloads,
           cnt[q] < len[q], Deliver(q, m)
    PROVE  RingInv' /\ FifoStep
<1>1. /\ RingInv'
      /\ \A x \in MsgQueues : Contents(x)' = IF x = q THEN Append(Contents(x), m) ELSE Contents(x)
  BY PushKeeps DEF Deliver
<1>2. UNCHANGED len
  BY DEF Deliver, Push
<1>3. Chan' = [Chan EXCEPT ![q] = Append(Contents(q), m)]
  BY <1>1 DEF Chan
<1>4. Len(Contents(q)) = cnt[q] /\ Chan[q] = Contents(q)
  BY DEF Contents, Chan, RingInv, RingTypeOK
<1>5. Fifo!Put(q, m)
  BY <1>2, <1>3, <1>4 DEF Fifo!Put, Chan
<1> QED
  BY <1>1, <1>5 DEF FifoStep, Fifo!FifoNext

LEMMA GetStep ==
    ASSUME MsgAssumption, RingInv, NEW q \in MsgQueues, cnt[q] > 0, Collect(q)
    PROVE  RingInv' /\ FifoStep
<1>1. /\ RingInv' /\ Contents(q) # << >>
      /\ \A x \in MsgQueues : Contents(x)' = IF x = q THEN Tail(Contents(x)) ELSE Contents(x)
  BY PopKeeps DEF Collect
<1>2. UNCHANGED len
  BY DEF Collect, Pop
<1>3. Chan' = [Chan EXCEPT ![q] = Tail(Contents(q))] /\ Chan[q] = Contents(q)
  BY <1>1 DEF Chan
<1>4. Fifo!Get(q)
  BY <1>1, <1>2, <1>3 DEF Fifo!Get, Chan
<1> QED
  BY <1>1, <1>4 DEF FifoStep, Fifo!FifoNext

LEMMA OpenStep ==
    ASSUME MsgAssumption, RingInv, NEW t \in Tasks, NEW q \in MsgQueues, NEW n \in 1..MaxLen,
           QueueCreate(t, q, n)
    PROVE  RingInv' /\ FifoStep
<1>1. RingInv' /\ \A x \in MsgQueues : Contents(x)' = Contents(x)
  BY QueueCreateKeeps
<1>2. Chan' = Chan
  BY <1>1 DEF Chan
<1>3. len[q] = 0 /\ len' = [len EXCEPT ![q] = n] /\ len'[q] = n /\ n \in Nat \ {0}
  BY DEF QueueCreate, RingInv, RingTypeOK, MsgAssumption, QueueAssumption
<1>4. Fifo!Open(q)
  BY <1>2, <1>3 DEF Fifo!Open, Chan
<1> QED
  BY <1>1, <1>4 DEF FifoStep, Fifo!FifoNext

LEMMA CloseStep ==
    ASSUME MsgAssumption, RingInv, NEW t \in Tasks, NEW q \in MsgQueues, QueueDelete(t, q)
    PROVE  RingInv' /\ FifoStep
<1>1. /\ RingInv'
      /\ \A x \in MsgQueues : Contents(x)' = IF x = q THEN << >> ELSE Contents(x)
  BY QueueDeleteKeeps
<1>2. Chan' = [Chan EXCEPT ![q] = << >>]
  BY <1>1 DEF Chan
<1>3. len[q] > 0 /\ len' = [len EXCEPT ![q] = 0]
  BY DEF QueueDelete
<1>4. Fifo!Close(q)
  BY <1>2, <1>3 DEF Fifo!Close, Chan
<1> QED
  BY <1>1, <1>4 DEF FifoStep, Fifo!FifoNext

LEMMA RingStep ==
    ASSUME MsgAssumption, RingInv, [Next]_vars
    PROVE  RingInv' /\ FifoStep
<1>1. CASE UNCHANGED ringVars
  <2>1. RingInv' /\ UNCHANGED len /\ \A q \in MsgQueues : Contents(q)' = Contents(q)
    BY <1>1, RingUnchanged DEF ringVars
  <2>2. Chan' = Chan
    BY <2>1 DEF Chan
  <2> QED
    BY <2>1, <2>2 DEF FifoStep
<1>2. CASE QueueStep
  <2>1. CASE \E t \in Tasks, q \in MsgQueues, n \in 1..MaxLen : QueueCreate(t, q, n)
    BY <2>1, OpenStep
  <2>2. CASE \E c \in Tasks \cup {Isr}, q \in MsgQueues, m \in Payloads : Send(c, q, m)
    BY <2>2, PutStep DEF Send
  <2>3. CASE \E t \in Tasks, m \in Payloads : SendReturns(t, m)
    BY <1>1, <2>3, PutStep DEF SendReturns
  <2>4. CASE \E c \in Tasks \cup {Isr}, q \in MsgQueues : Receive(c, q)
    BY <2>4, GetStep DEF Receive
  <2>5. CASE \E t \in Tasks : ReceiveReturns(t)
    BY <1>1, <2>5, GetStep DEF ReceiveReturns
  <2>6. CASE \E t \in Tasks, q \in MsgQueues : QueueDelete(t, q)
    BY <2>6, CloseStep
  <2>7. CASE \E t \in Tasks, q \in MsgQueues, d \in Timeouts : SendBlocks(t, q, d) \/ ReceiveBlocks(t, q, d)
    BY <1>1, <2>7 DEF SendBlocks, ReceiveBlocks
  <2> QED
    BY <1>2, <2>1, <2>2, <2>3, <2>4, <2>5, <2>6, <2>7 DEF QueueStep
<1> QED
  BY <1>1, <1>2 DEF Next, vars

(* Theorem: the ring, its two indices and its counter implement a bounded  *)
(* FIFO channel: every message is taken once, in the order of the sends,   *)
(* and none is overwritten, whoever sends and receives and whatever happens*)
(* to the tasks between their sections.                                    *)
THEOREM RingImplementsFifo == Spec => IsFifo
<1>1. MsgAssumption
  BY WaitAssumption, SetAssumption, QueueAssumption DEF MsgAssumption
<1>2. Init => RingInv
  BY <1>1, RingInvInit
<1>3. RingInv /\ [Next]_vars => RingInv' /\ FifoStep
  BY <1>1, RingStep
<1>4. Init => Fifo!FifoInit
  <2> SUFFICES ASSUME Init PROVE Fifo!FifoInit
    OBVIOUS
  <2>1. \A q \in MsgQueues : Contents(q) = << >>
    BY DEF Init, Contents
  <2> QED
    BY <2>1 DEF Init, Fifo!FifoInit
<1>5. FifoStep => [Fifo!FifoNext]_<<len, [q \in MsgQueues |-> Contents(q)]>>
  BY DEF FifoStep, Chan
<1> QED
  BY <1>2, <1>3, <1>4, <1>5, PTL DEF Spec, IsFifo, Fifo!FifoSpec

-----------------------------------------------------------------------------
(* Waiters and those on the way, task by task.                             *)

(* u has been woken with a result and has not acted on it yet              *)
Awake(u) == InCall(u) /\ state[u] # "BLOCKED" /\ wakeOk[u]

HasWaiter(x) == \E u \in Tasks : state[u] = "BLOCKED" /\ blockObj[u] = x

(* A waiter knows what it waits for, ...                                   *)
ArgKept == \A u \in Tasks : state[u] = "BLOCKED" => arg[u] = blockObj[u]
(* ... and nobody waits for an object that does not exist: create would    *)
(* forget it.                                                              *)
Unwaited ==
    /\ \A q \in MsgQueues : len[q] = 0 => ~HasWaiter(SendQ(q)) /\ ~HasWaiter(RecvQ(q))
    /\ \A s \in Sets : ~inUse[s] => ~HasWaiter(SetQ(s))

CoreInv == WaitInv /\ RingInv /\ inUse \in [Sets -> BOOLEAN] /\ ArgKept /\ Unwaited

(* A step blocks nobody anew, u not at all ...                             *)
Calm(u)  == state'[u] = "BLOCKED" => /\ state[u] = "BLOCKED"
                                     /\ blockObj'[u] = blockObj[u] /\ arg'[u] = arg[u]
(* ... or leaves u on its way.                                             *)
Stays(u) == Awake(u) => Awake(u)' /\ arg'[u] = arg[u]

(* An object gets no waiters and loses none of those on their way to it.   *)
Kept(x) == (HasWaiter(x)' => HasWaiter(x)) /\ OnTheWay(x) \subseteq OnTheWay(x)'

LEMMA QueueNames ==
    ASSUME MsgAssumption
    PROVE  /\ \A q \in MsgQueues : SendQ(q) \in Queues /\ RecvQ(q) \in Queues
           /\ \A s \in Sets : SetQ(s) \in Queues
           /\ \A q, p : /\ SendQ(q) # RecvQ(p) /\ SendQ(q) # SetQ(p) /\ RecvQ(q) # SetQ(p)
                        /\ SendQ(q) = SendQ(p) => q = p
                        /\ RecvQ(q) = RecvQ(p) => q = p
                        /\ SetQ(q) = SetQ(p) => q = p
BY DEF MsgAssumption, QueueAssumption, SendQ, RecvQ, SetQ

LEMMA WaiterIsQueued ==
    ASSUME WaitInv, NEW x \in Queues
    PROVE  waitq[x] # << >> <=> HasWaiter(x)
<1>1. waitq[x] \in Seq(Tasks) /\ \A u \in Tasks : InList(waitq[x], u) <=> state[u] = "BLOCKED" /\ blockObj[u] = x
  BY DEF WaitInv, WaitTypeOK, QueueMembership
<1>2. ASSUME waitq[x] # << >> PROVE HasWaiter(x)
  <2>1. Head(waitq[x]) \in Tasks /\ InList(waitq[x], Head(waitq[x]))
    BY <1>1, <1>2, EmptySeq DEF InList
  <2> QED
    BY <1>1, <2>1 DEF HasWaiter
<1>3. ASSUME HasWaiter(x) PROVE waitq[x] # << >>
  BY <1>1, <1>3 DEF HasWaiter, InList
<1> QED
  BY <1>2, <1>3

(* All tasks but t are left where they are.                                *)
LEMMA OthersKeep ==
    ASSUME NEW t, \A u \in Tasks \ {t} : Calm(u) /\ Stays(u), NEW x,
           t \in Tasks => ~Awake(t) \/ arg[t] # x,
           t \in Tasks => Calm(t) \/ blockObj'[t] # x
    PROVE  Kept(x)
<1>1. HasWaiter(x)' => HasWaiter(x)
  BY DEF HasWaiter, Calm
<1>2. \A u \in Tasks : arg[u] = x /\ Awake(u) => arg'[u] = x /\ Awake(u)'
  BY DEF Stays
<1>3. OnTheWay(x) \subseteq OnTheWay(x)'
  BY <1>2 DEF OnTheWay, Awake
<1> QED
  BY <1>1, <1>3 DEF Kept

(* Nobody blocks anew.                                                     *)
LEMMA CalmKeeps ==
    ASSUME CoreInv, WaitInv', RingInv', inUse' \in [Sets -> BOOLEAN],
           \A u \in Tasks : Calm(u),
           \A q \in MsgQueues : len'[q] = 0 => \/ len[q] = 0
                                               \/ ~HasWaiter(SendQ(q))' /\ ~HasWaiter(RecvQ(q))',
           \A s \in Sets : ~inUse'[s] => ~inUse[s] \/ ~HasWaiter(SetQ(s))'
    PROVE  CoreInv'
<1> USE DEF CoreInv
<1>1. ArgKept'
  BY DEF ArgKept, Calm
<1>2. \A x : HasWaiter(x)' => HasWaiter(x)
  BY DEF HasWaiter, Calm
<1>3. Unwaited'
  BY <1>2 DEF Unwaited
<1> QED
  BY <1>1, <1>3

(* A task blocks on an object that exists.                                 *)
LEMMA BlockCore ==
    ASSUME MsgAssumption, CoreInv, RingInv', NEW t \in Tasks, NEW x \in Queues, NEW d \in Timeouts,
           Executing(t), Block(t, x, d), UNCHANGED <<prioVars, inUse, len>>,
           \A q \in MsgQueues : len[q] = 0 => x # SendQ(q) /\ x # RecvQ(q),
           \A s \in Sets : ~inUse[s] => x # SetQ(s)
    PROVE  CoreInv' /\ \A y \in Queues \ {x} : Kept(y)
<1> USE DEF CoreInv
<1>1. WaitInv'
  BY BlockPreserves, SamePrio DEF MsgAssumption
<1>2. /\ state'[t] = "BLOCKED" /\ blockObj'[t] = x /\ arg'[t] = x /\ ~Awake(t)
      /\ \A u \in Tasks \ {t} : /\ state'[u] = state[u] /\ blockObj'[u] = blockObj[u]
                                /\ arg'[u] = arg[u] /\ stage'[u] = stage[u] /\ wakeOk'[u] = wakeOk[u]
  BY DEF Block, Executing, InCall, Awake, WaitInv, WaitTypeOK
<1>3. \A u \in Tasks \ {t} : Calm(u) /\ Stays(u)
  BY <1>2 DEF Calm, Stays, Awake, InCall
<1>4. \A y \in Queues \ {x} : Kept(y)
  BY <1>2, <1>3, OthersKeep
<1>5. ArgKept'
  BY <1>2 DEF ArgKept
<1>6. \A y \in Queues \ {x} : HasWaiter(y)' => HasWaiter(y)
  BY <1>4 DEF Kept
<1>7. Unwaited'
  <2>1. \A q \in MsgQueues : len'[q] = 0 => ~HasWaiter(SendQ(q))' /\ ~HasWaiter(RecvQ(q))'
    BY <1>6, QueueNames DEF Unwaited
  <2>2. \A s \in Sets : ~inUse'[s] => ~HasWaiter(SetQ(s))'
    BY <1>6, QueueNames DEF Unwaited
  <2> QED
    BY <2>1, <2>2 DEF Unwaited
<1> QED
  BY <1>1, <1>4, <1>5, <1>7

(* A task comes back from its call, the queues untouched.                  *)
LEMMA ReturnCore ==
    ASSUME MsgAssumption, CoreInv, NEW t \in Tasks, Resumes(t), Leave(t), NobodyWakes,
           UNCHANGED <<oncpu, prioVars>>
    PROVE  /\ WaitInv' /\ \A u \in Tasks : Calm(u)
           /\ \A u \in Tasks \ {t} : Stays(u)
<1> USE DEF CoreInv, NobodyWakes
<1>1. WaitInv'
  BY LeaveCallPreserves, SamePrio DEF LeaveCall, MsgAssumption
<1>2. state[t] # "BLOCKED"
  BY DEF Resumes, WaitInv, BlockedInCall
<1>3. \A u \in Tasks \ {t} : stage'[u] = stage[u] /\ arg'[u] = arg[u]
  BY DEF Leave, WaitInv, WaitTypeOK
<1>4. \A u \in Tasks : Calm(u)
  BY <1>2, <1>3 DEF Calm
<1>5. \A u \in Tasks \ {t} : Stays(u)
  BY <1>3 DEF Stays, Awake, InCall
<1> QED
  BY <1>1, <1>4, <1>5

(* The first waiter of every queue of W is woken: it is on its way now.    *)
LEMMA PopEachCore ==
    ASSUME MsgAssumption, CoreInv, NEW W \in SUBSET Queues, PopEach(W),
           UNCHANGED <<oncpu, prioVars>>,
           UNCHANGED <<stage, arg>> \/ \E t \in Tasks : Resumes(t) /\ Leave(t)
    PROVE  /\ WaitInv' /\ \A u \in Tasks : Calm(u)
           /\ \A u \in Tasks : stage'[u] = stage[u] /\ arg'[u] = arg[u] => Stays(u)
           /\ \A x \in W : HasWaiter(x) =>
                 \E h \in Tasks : /\ state[h] = "BLOCKED" /\ arg[h] = x
                                  /\ Awake(h)' /\ arg'[h] = x
<1> DEFINE filled == {q \in W : waitq[q] # << >>}
           S == {Head(waitq[q]) : q \in filled}
<1> USE DEF CoreInv
<1>1. Wake(S, TRUE) /\ waitq' = [q \in Queues |-> IF q \in filled THEN Tail(waitq[q]) ELSE waitq[q]]
  BY DEF PopEach
<1>2. \A q \in Queues : waitq[q] \in Seq(Tasks) /\ Once(waitq[q])
  BY DEF WaitInv, WaitTypeOK, LinkedOnce, Once
<1>3. \A q \in filled : /\ q \in Queues /\ Head(waitq[q]) \in Tasks /\ InList(waitq[q], Head(waitq[q]))
                        /\ Tail(waitq[q]) \in Seq(Tasks) /\ Once(Tail(waitq[q]))
                        /\ \A u \in Tasks : InList(Tail(waitq[q]), u) <=>
                                                u # Head(waitq[q]) /\ InList(waitq[q], u)
  BY <1>2, PopLemma
<1>4. \A q \in filled : state[Head(waitq[q])] = "BLOCKED" /\ blockObj[Head(waitq[q])] = q
  BY <1>3 DEF WaitInv, QueueMembership
<1>5. S \in SUBSET Tasks /\ \A u \in S : state[u] = "BLOCKED"
  BY <1>3, <1>4
<1>6. \A q \in Queues, u \in Tasks : u \in S /\ InList(waitq[q], u) => q \in filled /\ u = Head(waitq[q])
  <2> SUFFICES ASSUME NEW q \in Queues, NEW u \in Tasks, u \in S, InList(waitq[q], u)
               PROVE  q \in filled /\ u = Head(waitq[q])
    OBVIOUS
  <2>1. PICK p \in filled : u = Head(waitq[p])
    OBVIOUS
  <2>2. blockObj[u] = p /\ blockObj[u] = q
    BY <1>4, <2>1 DEF WaitInv, QueueMembership
  <2> QED
    BY <2>1, <2>2
<1>7. \A q \in filled : Head(waitq[q]) \in S
  OBVIOUS
<1> HIDE DEF S, filled
<1>8. ASSUME NEW q \in Queues
      PROVE  /\ waitq'[q] \in Seq(Tasks) /\ Once(waitq'[q])
             /\ \A u \in Tasks : InList(waitq'[q], u) <=> u \notin S /\ InList(waitq[q], u)
  <2>1. CASE q \in filled
    <3>1. waitq'[q] = Tail(waitq[q])
      BY <1>1, <2>1
    <3> QED
      BY <1>3, <1>6, <1>7, <2>1, <3>1
  <2>2. CASE q \notin filled
    <3>1. waitq'[q] = waitq[q]
      BY <1>1, <2>2
    <3> QED
      BY <1>2, <1>6, <2>2, <3>1
  <2> QED
    BY <2>1, <2>2
<1>9. waitq' \in [Queues -> Seq(Tasks)]
  BY <1>1, <1>8
<1>10. WaitInv'
  BY <1>1, <1>5, <1>8, <1>9, WakePreserves, SamePrio DEF MsgAssumption
<1>11. \A u \in Tasks : state[u] = "BLOCKED" => stage'[u] = stage[u] /\ arg'[u] = arg[u]
  <2>1. ASSUME NEW t \in Tasks, Resumes(t), Leave(t), NEW u \in Tasks, state[u] = "BLOCKED"
        PROVE  stage'[u] = stage[u] /\ arg'[u] = arg[u]
    BY <2>1 DEF Leave, Resumes, WaitInv, WaitTypeOK, BlockedInCall
  <2> QED
    BY <2>1
<1>12. \A u \in Tasks : Calm(u)
  BY <1>1, <1>11 DEF Calm, Wake
<1>13. \A u \in Tasks : stage'[u] = stage[u] /\ arg'[u] = arg[u] => Stays(u)
  BY <1>1, <1>5 DEF Stays, Awake, InCall, Wake
<1>14. ASSUME NEW x \in W, HasWaiter(x)
       PROVE  \E h \in Tasks : state[h] = "BLOCKED" /\ arg[h] = x /\ Awake(h)' /\ arg'[h] = x
  <2>1. x \in filled
    BY <1>14, WaiterIsQueued DEF filled
  <2> DEFINE h == Head(waitq[x])
  <2>2. h \in Tasks /\ h \in S /\ state[h] = "BLOCKED" /\ blockObj[h] = x /\ arg[h] = x
    BY <1>3, <1>4, <1>7, <2>1 DEF ArgKept
  <2> HIDE DEF h
  <2>3. InCall(h) /\ stage'[h] = stage[h] /\ arg'[h] = arg[h]
    BY <1>11, <2>2 DEF WaitInv, BlockedInCall
  <2>4. state'[h] = "READY" /\ wakeOk'[h] = TRUE
    BY <1>1, <2>2 DEF Wake
  <2> QED
    BY <2>2, <2>3, <2>4 DEF Awake, InCall
<1> QED
  BY <1>10, <1>12, <1>13, <1>14

-----------------------------------------------------------------------------
(* Supply and demand: n things to fetch at x before a step, k after it.    *)
Served(x, n) == HasWaiter(x) => n <= Cardinality(OnTheWay(x))

Fed(x, n, k) ==
    HasWaiter(x)' =>
        \/ k <= 0
        \/ HasWaiter(x) /\ k <= n /\ OnTheWay(x) \subseteq OnTheWay(x)'
        \/ HasWaiter(x) /\ k <= n + 1 /\ \E h : h \notin OnTheWay(x) /\ OnTheWay(x) \cup {h} \subseteq OnTheWay(x)'
        \/ HasWaiter(x) /\ k <= n - 1 /\ \E t : OnTheWay(x) \ {t} \subseteq OnTheWay(x)'

LEMMA FedServed ==
    ASSUME WaitAssumption, NEW x
    PROVE  \A n, k \in Int : Served(x, n) /\ Fed(x, n, k) =>
                                (HasWaiter(x)' => k <= Cardinality(OnTheWay(x)'))
<1> DEFINE A == OnTheWay(x)
           B == OnTheWay(x)'
<1>1. IsFiniteSet(Tasks) /\ A \subseteq Tasks /\ B \subseteq Tasks
  BY DEF WaitAssumption, OnTheWay
<1>2. /\ IsFiniteSet(A) /\ Cardinality(A) \in Nat
      /\ IsFiniteSet(B) /\ Cardinality(B) \in Nat
  BY <1>1, FS_Subset, FS_CardinalityType
<1> SUFFICES ASSUME NEW n \in Int, NEW k \in Int, Served(x, n), Fed(x, n, k), HasWaiter(x)'
             PROVE  k <= Cardinality(B)
  OBVIOUS
<1>3. Served(x, n) /\ HasWaiter(x) => n <= Cardinality(A)
  BY DEF Served
<1>4. \/ k <= 0
      \/ HasWaiter(x) /\ k <= n /\ A \subseteq B
      \/ HasWaiter(x) /\ k <= n + 1 /\ \E h : h \notin A /\ A \cup {h} \subseteq B
      \/ HasWaiter(x) /\ k <= n - 1 /\ \E t : A \ {t} \subseteq B
  BY DEF Fed
<1> HIDE DEF A, B
<1>5. CASE k <= 0
  BY <1>2, <1>5
<1>6. CASE HasWaiter(x) /\ k <= n /\ A \subseteq B
  <2>1. Cardinality(A) <= Cardinality(B)
    BY <1>2, <1>6, FS_Subset
  <2> QED
    BY <1>2, <1>3, <1>6, <2>1
<1>7. CASE HasWaiter(x) /\ k <= n + 1 /\ \E h : h \notin A /\ A \cup {h} \subseteq B
  <2>1. PICK h : h \notin A /\ A \cup {h} \subseteq B
    BY <1>7
  <2>2. Cardinality(A \cup {h}) = Cardinality(A) + 1
    BY <1>2, <2>1, FS_AddElement
  <2>3. Cardinality(A \cup {h}) <= Cardinality(B)
    BY <1>2, <2>1, FS_Subset
  <2> QED
    BY <1>2, <1>3, <1>7, <2>2, <2>3
<1>8. CASE HasWaiter(x) /\ k <= n - 1 /\ \E t : A \ {t} \subseteq B
  <2>1. PICK t : A \ {t} \subseteq B
    BY <1>8
  <2>2. Cardinality(A \ {t}) = IF t \in A THEN Cardinality(A) - 1 ELSE Cardinality(A)
    BY <1>2, FS_RemoveElement
  <2>3. Cardinality(A \ {t}) <= Cardinality(B)
    BY <1>2, <2>1, FS_Subset
  <2> QED
    BY <1>2, <1>3, <1>8, <2>2, <2>3
<1> QED
  BY <1>4, <1>5, <1>6, <1>7, <1>8

(* What is kept and has no more to give is fed, ...                        *)
LEMMA KeptFeeds ==
    ASSUME NEW x, Kept(x)
    PROVE  \A n, k \in Int : k <= n => Fed(x, n, k)
BY DEF Kept, Fed

(* ... and so is what has one more and one more on the way.                *)
LEMMA PopFeeds ==
    ASSUME NEW x, Kept(x),
           HasWaiter(x) => \E h \in Tasks : state[h] = "BLOCKED" /\ Awake(h)' /\ arg'[h] = x
    PROVE  \A n, k \in Int : k <= n + 1 => Fed(x, n, k)
<1> SUFFICES ASSUME HasWaiter(x)
             PROVE  \A n, k \in Int : k <= n + 1 => Fed(x, n, k)
  BY DEF Kept, Fed
<1>1. PICK h \in Tasks : state[h] = "BLOCKED" /\ Awake(h)' /\ arg'[h] = x
  OBVIOUS
<1>2. h \notin OnTheWay(x) /\ h \in OnTheWay(x)'
  BY <1>1 DEF OnTheWay, Awake
<1> QED
  BY <1>2 DEF Kept, Fed

(* One that leaves takes what it came for, or finds nothing.               *)
LEMMA LeaverFeeds ==
    ASSUME NEW x, NEW t, \A u \in Tasks : Calm(u), \A u \in Tasks \ {t} : Stays(u)
    PROVE  \A n, k \in Int : k <= n - 1 \/ k <= 0 => Fed(x, n, k)
<1>1. HasWaiter(x)' => HasWaiter(x)
  BY DEF HasWaiter, Calm
<1>2. OnTheWay(x) \ {t} \subseteq OnTheWay(x)'
  BY DEF OnTheWay, Stays, Awake
<1> QED
  BY <1>1, <1>2 DEF Fed

PeersFed ==
    \A q \in MsgQueues : /\ Fed(RecvQ(q), cnt[q], cnt'[q])
                         /\ Fed(SendQ(q), len[q] - cnt[q], len'[q] - cnt'[q])
SelectorsFed == \A s \in Sets : Fed(SetQ(s), Len(ready[s]), Len(ready'[s]))

LEMMA RingNumbers ==
    ASSUME MsgAssumption, RingInv
    PROVE  \A q \in MsgQueues : /\ cnt[q] \in Nat /\ len[q] \in Nat /\ cnt[q] <= len[q]
                                /\ len[q] - cnt[q] \in Nat
<1> TAKE q \in MsgQueues
<1>1. MaxLen \in Nat /\ len[q] \in 0..MaxLen /\ cnt[q] \in Nat /\ cnt[q] <= len[q]
  BY DEF MsgAssumption, QueueAssumption, RingInv, RingTypeOK, Indices
<1> QED
  BY <1>1

LEMMA RingIntegers ==
    ASSUME MsgAssumption, RingInv, RingInv'
    PROVE  \A q \in MsgQueues : /\ cnt[q] \in Int /\ len[q] - cnt[q] \in Int
                                /\ cnt'[q] \in Int /\ len'[q] - cnt'[q] \in Int
<1> TAKE q \in MsgQueues
<1>1. cnt[q] \in Int /\ len[q] - cnt[q] \in Int
  BY RingNumbers
<1>2. MaxLen \in Nat /\ len'[q] \in 0..MaxLen /\ cnt'[q] \in Nat
  BY DEF MsgAssumption, QueueAssumption, RingInv, RingTypeOK
<1> QED
  BY <1>1, <1>2

LEMMA AllKeptFeeds ==
    ASSUME MsgAssumption, CoreInv, RingInv',
           \A x \in Queues : Kept(x),
           \A q \in MsgQueues : cnt'[q] <= cnt[q] /\ len'[q] - cnt'[q] <= len[q] - cnt[q]
    PROVE  PeersFed
<1>1. \A q \in MsgQueues : /\ cnt[q] \in Int /\ len[q] - cnt[q] \in Int
                           /\ cnt'[q] \in Int /\ len'[q] - cnt'[q] \in Int
  BY RingIntegers DEF CoreInv
<1> QED
  BY <1>1, KeptFeeds, QueueNames DEF PeersFed

LEMMA AllKeptSelectors ==
    ASSUME MsgAssumption, SetTypeOK, SetTypeOK',
           \A s \in Sets : Kept(SetQ(s)),
           \A s \in Sets : Len(ready'[s]) <= Len(ready[s])
    PROVE  SelectorsFed
<1>1. \A s \in Sets : Len(ready[s]) \in Int /\ Len(ready'[s]) \in Int
  BY DEF SetTypeOK
<1> QED
  BY <1>1, KeptFeeds DEF SelectorsFed

-----------------------------------------------------------------------------
(* Every operation of a queue and of a set keeps the core and feeds what   *)
(* waits.                                                                  *)
Feeds == CoreInv' /\ PeersFed /\ (SetTypeOK /\ SetTypeOK' /\ ~JoinWhileWaited => SelectorsFed)

LEMMA SendBlocksFeeds ==
    ASSUME MsgAssumption, CoreInv, RingInv', NEW t \in Tasks, NEW q \in MsgQueues, NEW d \in Timeouts,
           SendBlocks(t, q, d)
    PROVE  Feeds
<1>1. CoreInv' /\ \A y \in Queues \ {SendQ(q)} : Kept(y)
  <2> DEFINE x == SendQ(q)
  <2>1. x \in Queues /\ Block(t, x, d) /\ Executing(t) /\ UNCHANGED <<prioVars, inUse, len>>
    BY QueueNames DEF SendBlocks, ringVars, setVars
  <2>2. /\ \A p \in MsgQueues : len[p] = 0 => x # SendQ(p) /\ x # RecvQ(p)
        /\ \A s \in Sets : x # SetQ(s)
    BY QueueNames DEF SendBlocks
  <2> HIDE DEF x
  <2>3. CoreInv' /\ \A y \in Queues \ {x} : Kept(y)
    BY <2>1, <2>2, BlockCore
  <2> QED
    BY <2>3 DEF x
<1>2. UNCHANGED <<cnt, len, ready>> /\ cnt[q] = len[q]
  BY DEF SendBlocks, ringVars, setVars
<1>3. PeersFed
  <2> SUFFICES ASSUME NEW p \in MsgQueues
               PROVE  /\ Fed(RecvQ(p), cnt[p], cnt'[p])
                      /\ Fed(SendQ(p), len[p] - cnt[p], len'[p] - cnt'[p])
    BY DEF PeersFed
  <2>1. cnt[p] \in Int /\ len[p] - cnt[p] \in Int
    BY RingNumbers DEF CoreInv
  <2>2. Fed(RecvQ(p), cnt[p], cnt'[p])
    <3>1. Kept(RecvQ(p))
      BY <1>1, QueueNames
    <3> QED
      BY <1>2, <2>1, <3>1, KeptFeeds
  <2>3. CASE p # q
    <3>1. Kept(SendQ(p))
      BY <1>1, <2>3, QueueNames
    <3> QED
      BY <1>2, <2>1, <2>2, <3>1, KeptFeeds
  <2>4. CASE p = q
    <3>1. len'[q] - cnt'[q] <= 0
      BY <1>2, RingNumbers DEF CoreInv
    <3> QED
      BY <2>2, <2>4, <3>1 DEF Fed
  <2> QED
    BY <2>3, <2>4
<1>4. ASSUME SetTypeOK, SetTypeOK' PROVE SelectorsFed
  <2>1. \A s \in Sets : Kept(SetQ(s))
    BY <1>1, QueueNames
  <2>2. \A s \in Sets : Len(ready'[s]) <= Len(ready[s])
    BY <1>2, <1>4 DEF SetTypeOK
  <2> QED
    BY <1>4, <2>1, <2>2, AllKeptSelectors
<1> QED
  BY <1>1, <1>3, <1>4 DEF Feeds

LEMMA ReceiveBlocksFeeds ==
    ASSUME MsgAssumption, CoreInv, RingInv', NEW t \in Tasks, NEW q \in MsgQueues, NEW d \in Timeouts,
           ReceiveBlocks(t, q, d)
    PROVE  Feeds
<1>1. CoreInv' /\ \A y \in Queues \ {RecvQ(q)} : Kept(y)
  <2> DEFINE x == RecvQ(q)
  <2>1. x \in Queues /\ Block(t, x, d) /\ Executing(t) /\ UNCHANGED <<prioVars, inUse, len>>
    BY QueueNames DEF ReceiveBlocks, ringVars, setVars
  <2>2. /\ \A p \in MsgQueues : len[p] = 0 => x # SendQ(p) /\ x # RecvQ(p)
        /\ \A s \in Sets : x # SetQ(s)
    BY QueueNames DEF ReceiveBlocks
  <2> HIDE DEF x
  <2>3. CoreInv' /\ \A y \in Queues \ {x} : Kept(y)
    BY <2>1, <2>2, BlockCore
  <2> QED
    BY <2>3 DEF x
<1>2. UNCHANGED <<cnt, len, ready>> /\ cnt[q] = 0
  BY DEF ReceiveBlocks, ringVars, setVars
<1>3. PeersFed
  <2> SUFFICES ASSUME NEW p \in MsgQueues
               PROVE  /\ Fed(RecvQ(p), cnt[p], cnt'[p])
                      /\ Fed(SendQ(p), len[p] - cnt[p], len'[p] - cnt'[p])
    BY DEF PeersFed
  <2>1. cnt[p] \in Int /\ len[p] - cnt[p] \in Int
    BY RingNumbers DEF CoreInv
  <2>2. Fed(SendQ(p), len[p] - cnt[p], len'[p] - cnt'[p])
    <3>1. Kept(SendQ(p))
      BY <1>1, QueueNames
    <3> QED
      BY <1>2, <2>1, <3>1, KeptFeeds
  <2>3. CASE p # q
    <3>1. Kept(RecvQ(p))
      BY <1>1, <2>3, QueueNames
    <3> QED
      BY <1>2, <2>1, <2>2, <3>1, KeptFeeds
  <2>4. CASE p = q
    BY <1>2, <2>2, <2>4 DEF Fed
  <2> QED
    BY <2>3, <2>4
<1>4. ASSUME SetTypeOK, SetTypeOK' PROVE SelectorsFed
  <2>1. \A s \in Sets : Kept(SetQ(s))
    BY <1>1, QueueNames
  <2>2. \A s \in Sets : Len(ready'[s]) <= Len(ready[s])
    BY <1>2, <1>4 DEF SetTypeOK
  <2> QED
    BY <1>4, <2>1, <2>2, AllKeptSelectors
<1> QED
  BY <1>1, <1>3, <1>4 DEF Feeds

LEMMA SelectBlocksFeeds ==
    ASSUME MsgAssumption, CoreInv, RingInv', NEW t \in Tasks, NEW s \in Sets, NEW d \in Timeouts,
           SelectBlocks(t, s, d), UNCHANGED ringVars
    PROVE  Feeds
<1>1. CoreInv' /\ \A y \in Queues \ {SetQ(s)} : Kept(y)
  BY BlockCore, QueueNames DEF SelectBlocks, ringVars, setVars
<1>2. UNCHANGED <<cnt, len, ready>> /\ ready[s] = << >>
  BY DEF SelectBlocks, ringVars, setVars
<1>3. PeersFed
  <2> SUFFICES ASSUME NEW p \in MsgQueues
               PROVE  /\ Fed(RecvQ(p), cnt[p], cnt'[p])
                      /\ Fed(SendQ(p), len[p] - cnt[p], len'[p] - cnt'[p])
    BY DEF PeersFed
  <2>1. cnt[p] \in Int /\ len[p] - cnt[p] \in Int
    BY RingNumbers DEF CoreInv
  <2>2. Kept(RecvQ(p)) /\ Kept(SendQ(p))
    BY <1>1, QueueNames
  <2> QED
    BY <1>2, <2>1, <2>2, KeptFeeds
<1>4. ASSUME SetTypeOK PROVE SelectorsFed
  <2> SUFFICES ASSUME NEW z \in Sets PROVE Fed(SetQ(z), Len(ready[z]), Len(ready'[z]))
    BY DEF SelectorsFed
  <2>1. Len(ready[z]) \in Int
    BY <1>4 DEF SetTypeOK
  <2>2. CASE z = s
    BY <1>2, <2>2 DEF Fed
  <2>3. CASE z # s
    <3>1. Kept(SetQ(z))
      BY <1>1, <2>3, QueueNames
    <3>2. Len(ready'[z]) = Len(ready[z]) /\ Len(ready[z]) <= Len(ready[z])
      BY <1>2, <2>1
    <3> QED
      BY <2>1, <3>1, <3>2, KeptFeeds
  <2> QED
    BY <2>2, <2>3
<1> QED
  BY <1>1, <1>3, <1>4 DEF Feeds

(* A send with room, by an interrupt, a task, or one that blocked before:  *)
(* t is the task that leaves its call.                                     *)
LEMMA DeliverFeeds ==
    ASSUME MsgAssumption, CoreInv, RingInv', NEW q \in MsgQueues, NEW m \in Payloads, NEW t,
           cnt[q] < len[q], Deliver(q, m), UNCHANGED <<oncpu, prioVars>>,
           UNCHANGED <<stage, arg>> \/ \E u \in Tasks : Resumes(u) /\ Leave(u),
           \A u \in Tasks \ {t} : stage'[u] = stage[u] /\ arg'[u] = arg[u],
           t \in Tasks => arg[t] = SendQ(q)
    PROVE  Feeds
<1> DEFINE W == {RecvQ(q)} \cup PokedQueues(q)
<1>1. W \in SUBSET Queues /\ RecvQ(q) \in W /\ SendQ(q) \notin W
  BY QueueNames DEF PokedQueues
<1>2. PopEach(W)
  BY DEF Deliver
<1> HIDE DEF W
<1>3. /\ WaitInv' /\ \A u \in Tasks : Calm(u)
      /\ \A u \in Tasks : stage'[u] = stage[u] /\ arg'[u] = arg[u] => Stays(u)
      /\ \A x \in W : HasWaiter(x) =>
            \E h \in Tasks : state[h] = "BLOCKED" /\ arg[h] = x /\ Awake(h)' /\ arg'[h] = x
  BY <1>1, <1>2, PopEachCore
<1>4. /\ UNCHANGED <<len, inUse>>
      /\ \A p \in MsgQueues : cnt'[p] = IF p = q THEN cnt[p] + 1 ELSE cnt[p]
  BY DEF Deliver, Push, CoreInv, RingInv, RingTypeOK
<1>5. CoreInv'
  BY <1>3, <1>4, CalmKeeps DEF CoreInv
<1>6. \A u \in Tasks \ {t} : Calm(u) /\ Stays(u)
  BY <1>3
<1>7. \A x \in Queues \ {SendQ(q)} : Kept(x)
  BY <1>3, <1>6, OthersKeep
<1>8. \A x \in W : \A n, k \in Int : k <= n + 1 => Fed(x, n, k)
  BY <1>1, <1>3, <1>7, PopFeeds
<1>9. PeersFed
  <2> SUFFICES ASSUME NEW p \in MsgQueues
               PROVE  /\ Fed(RecvQ(p), cnt[p], cnt'[p])
                      /\ Fed(SendQ(p), len[p] - cnt[p], len'[p] - cnt'[p])
    BY DEF PeersFed
  <2>1. cnt[p] \in Int /\ len[p] \in Int /\ len[p] - cnt[p] \in Int
    BY RingNumbers DEF CoreInv
  <2>2. CASE p = q
    <3>1. Fed(RecvQ(q), cnt[q], cnt'[q])
      BY <1>1, <1>4, <1>8, <2>1, <2>2
    <3>2. /\ len'[q] - cnt'[q] <= len[q] - cnt[q] - 1
          /\ len'[q] - cnt'[q] \in Int /\ len[q] - cnt[q] \in Int
      BY <1>4, <2>1, <2>2
    <3>3. Fed(SendQ(q), len[q] - cnt[q], len'[q] - cnt'[q])
      BY <1>3, <1>6, <3>2, LeaverFeeds
    <3> QED
      BY <2>2, <3>1, <3>3
  <2>3. CASE p # q
    <3>1. cnt'[p] = cnt[p] /\ len'[p] = len[p]
      BY <1>4, <2>3
    <3>2. Kept(RecvQ(p)) /\ Kept(SendQ(p))
      BY <1>7, <2>3, QueueNames
    <3> QED
      BY <2>1, <3>1, <3>2, KeptFeeds
  <2> QED
    BY <2>2, <2>3
<1>10. ASSUME SetTypeOK, SetTypeOK' PROVE SelectorsFed
  <2> SUFFICES ASSUME NEW s \in Sets PROVE Fed(SetQ(s), Len(ready[s]), Len(ready'[s]))
    BY DEF SelectorsFed
  <2>1. /\ ready[s] \in Seq(Nat) /\ Len(ready[s]) \in Int /\ Len(ready'[s]) \in Int
        /\ qset[q] \in Sets \cup {NoSet} /\ NoSet \notin Sets
    BY <1>10 DEF SetTypeOK, MsgQueues, MsgAssumption, SetAssumption
  <2>2. CASE s = qset[q] /\ inUse[s]
    <3>1. SetQ(s) \in W
      BY <2>2 DEF W, PokedQueues
    <3>2. ready' = [ready EXCEPT ![s] = PushReady(s, q)]
      BY <2>1, <2>2 DEF Deliver, ReadyAfterPoke
    <3>3. ready'[s] = PushReady(s, q)
      BY <1>10, <3>2 DEF SetTypeOK
    <3>4. \/ ready'[s] = ready[s]
          \/ ready'[s] = Append(ready[s], MemberIndex(s, q))
      BY <3>3 DEF PushReady
    <3>5. Len(ready'[s]) <= Len(ready[s]) + 1
      BY <2>1, <3>4
    <3> QED
      BY <1>8, <2>1, <3>1, <3>5
  <2>3. CASE ~(s = qset[q] /\ inUse[s])
    <3>1. ready'[s] = ready[s]
      BY <1>10, <2>1, <2>3 DEF Deliver, ReadyAfterPoke, SetTypeOK
    <3>2. Kept(SetQ(s))
      BY <1>7, QueueNames
    <3> QED
      BY <2>1, <3>1, <3>2, KeptFeeds
  <2> QED
    BY <2>2, <2>3
<1> QED
  BY <1>5, <1>9, <1>10 DEF Feeds

(* A receive of a message, likewise.                                       *)
LEMMA CollectFeeds ==
    ASSUME MsgAssumption, CoreInv, RingInv', NEW q \in MsgQueues, NEW t,
           cnt[q] > 0, Collect(q), UNCHANGED <<oncpu, prioVars>>,
           UNCHANGED <<stage, arg>> \/ \E u \in Tasks : Resumes(u) /\ Leave(u),
           \A u \in Tasks \ {t} : stage'[u] = stage[u] /\ arg'[u] = arg[u],
           t \in Tasks => arg[t] = RecvQ(q)
    PROVE  Feeds
<1> DEFINE W == {SendQ(q)}
<1>1. W \in SUBSET Queues /\ SendQ(q) \in W /\ RecvQ(q) \notin W
  BY QueueNames
<1>2. PopEach(W)
  BY DEF Collect
<1> HIDE DEF W
<1>3. /\ WaitInv' /\ \A u \in Tasks : Calm(u)
      /\ \A u \in Tasks : stage'[u] = stage[u] /\ arg'[u] = arg[u] => Stays(u)
      /\ \A x \in W : HasWaiter(x) =>
            \E h \in Tasks : state[h] = "BLOCKED" /\ arg[h] = x /\ Awake(h)' /\ arg'[h] = x
  BY <1>1, <1>2, PopEachCore
<1>4. /\ UNCHANGED <<len, inUse, ready>>
      /\ \A p \in MsgQueues : cnt'[p] = IF p = q THEN cnt[p] - 1 ELSE cnt[p]
  BY DEF Collect, Pop, CoreInv, RingInv, RingTypeOK, setVars
<1>5. CoreInv'
  BY <1>3, <1>4, CalmKeeps DEF CoreInv
<1>6. \A u \in Tasks \ {t} : Calm(u) /\ Stays(u)
  BY <1>3
<1>7. \A x \in Queues \ {RecvQ(q)} : Kept(x)
  BY <1>3, <1>6, OthersKeep
<1>8. \A x \in W : \A n, k \in Int : k <= n + 1 => Fed(x, n, k)
  BY <1>1, <1>3, <1>7, PopFeeds
<1>9. PeersFed
  <2> SUFFICES ASSUME NEW p \in MsgQueues
               PROVE  /\ Fed(RecvQ(p), cnt[p], cnt'[p])
                      /\ Fed(SendQ(p), len[p] - cnt[p], len'[p] - cnt'[p])
    BY DEF PeersFed
  <2>1. cnt[p] \in Int /\ len[p] \in Int /\ len[p] - cnt[p] \in Int
    BY RingNumbers DEF CoreInv
  <2>2. CASE p = q
    <3>1. cnt'[q] <= cnt[q] - 1 /\ cnt'[q] \in Int /\ cnt[q] \in Int
      BY <1>4, <2>1, <2>2
    <3>2. Fed(RecvQ(q), cnt[q], cnt'[q])
      BY <1>3, <1>6, <3>1, LeaverFeeds
    <3>3. /\ len'[q] - cnt'[q] <= len[q] - cnt[q] + 1
          /\ len'[q] - cnt'[q] \in Int /\ len[q] - cnt[q] \in Int
      BY <1>4, <2>1, <2>2
    <3>4. Fed(SendQ(q), len[q] - cnt[q], len'[q] - cnt'[q])
      BY <1>1, <1>8, <3>3
    <3> QED
      BY <2>2, <3>2, <3>4
  <2>3. CASE p # q
    <3>1. cnt'[p] = cnt[p] /\ len'[p] = len[p]
      BY <1>4, <2>3
    <3>2. Kept(RecvQ(p)) /\ Kept(SendQ(p))
      BY <1>7, <2>3, QueueNames
    <3> QED
      BY <2>1, <3>1, <3>2, KeptFeeds
  <2> QED
    BY <2>2, <2>3
<1>10. ASSUME SetTypeOK, SetTypeOK' PROVE SelectorsFed
  <2>1. \A s \in Sets : Kept(SetQ(s))
    BY <1>7, QueueNames
  <2>2. \A s \in Sets : Len(ready'[s]) <= Len(ready[s])
    BY <1>4, <1>10 DEF SetTypeOK
  <2> QED
    BY <1>10, <2>1, <2>2, AllKeptSelectors
<1> QED
  BY <1>5, <1>9, <1>10 DEF Feeds

(* A task comes back from its call and finds nothing to fetch, or was not  *)
(* woken.                                                                  *)
LEMMA ReturnFeeds ==
    ASSUME MsgAssumption, CoreInv, RingInv', NEW t \in Tasks, Resumes(t), Leave(t), NobodyWakes,
           UNCHANGED <<oncpu, prioVars, setVars, cnt, len>>,
           wakeOk[t] => \/ \E q \in MsgQueues : arg[t] = SendQ(q) /\ cnt[q] = len[q]
                        \/ \E q \in MsgQueues : arg[t] = RecvQ(q) /\ cnt[q] = 0
                        \/ \E s \in Sets : arg[t] = SetQ(s) /\ ready[s] = << >>
    PROVE  Feeds
<1>1. /\ WaitInv' /\ \A u \in Tasks : Calm(u)
      /\ \A u \in Tasks \ {t} : Calm(u) /\ Stays(u)
  BY ReturnCore
<1>2. CoreInv'
  BY <1>1, CalmKeeps DEF CoreInv, setVars
<1>3. \A x \in Queues : (wakeOk[t] /\ arg[t] = x) \/ Kept(x)
  BY <1>1, OthersKeep DEF Awake
<1>4. PeersFed
  <2> SUFFICES ASSUME NEW p \in MsgQueues
               PROVE  /\ Fed(RecvQ(p), cnt[p], cnt'[p])
                      /\ Fed(SendQ(p), len[p] - cnt[p], len'[p] - cnt'[p])
    BY DEF PeersFed
  <2>1. cnt[p] \in Int /\ len[p] \in Int /\ len[p] - cnt[p] \in Int /\ UNCHANGED <<cnt, len>>
    BY RingNumbers DEF CoreInv
  <2>2. Fed(RecvQ(p), cnt[p], cnt'[p])
    <3>1. CASE wakeOk[t] /\ arg[t] = RecvQ(p)
      <4>1. cnt[p] = 0
        BY <3>1, QueueNames
      <4> QED
        BY <2>1, <4>1 DEF Fed
    <3>2. CASE ~(wakeOk[t] /\ arg[t] = RecvQ(p))
      <4>1. Kept(RecvQ(p))
        BY <1>3, <3>2, QueueNames
      <4> QED
        BY <2>1, <4>1, KeptFeeds
    <3> QED
      BY <3>1, <3>2
  <2>3. Fed(SendQ(p), len[p] - cnt[p], len'[p] - cnt'[p])
    <3>1. CASE wakeOk[t] /\ arg[t] = SendQ(p)
      <4>1. cnt[p] = len[p]
        BY <3>1, QueueNames
      <4>2. len'[p] - cnt'[p] <= 0
        BY <2>1, <4>1
      <4> QED
        BY <4>2 DEF Fed
    <3>2. CASE ~(wakeOk[t] /\ arg[t] = SendQ(p))
      <4>1. Kept(SendQ(p))
        BY <1>3, <3>2, QueueNames
      <4> QED
        BY <2>1, <4>1, KeptFeeds
    <3> QED
      BY <3>1, <3>2
  <2> QED
    BY <2>2, <2>3
<1>5. ASSUME SetTypeOK PROVE SelectorsFed
  <2> SUFFICES ASSUME NEW z \in Sets PROVE Fed(SetQ(z), Len(ready[z]), Len(ready'[z]))
    BY DEF SelectorsFed
  <2>1. Len(ready[z]) \in Int /\ Len(ready'[z]) = Len(ready[z]) /\ Len(ready[z]) <= Len(ready[z])
    BY <1>5 DEF SetTypeOK, setVars
  <2>2. CASE wakeOk[t] /\ arg[t] = SetQ(z)
    <3>1. ready[z] = << >>
      BY <2>2, QueueNames
    <3> QED
      BY <2>1, <3>1 DEF Fed
  <2>3. CASE ~(wakeOk[t] /\ arg[t] = SetQ(z))
    <3>1. Kept(SetQ(z))
      BY <1>3, <2>3, QueueNames
    <3> QED
      BY <2>1, <3>1, KeptFeeds
  <2> QED
    BY <2>2, <2>3
<1> QED
  BY <1>2, <1>4, <1>5 DEF Feeds

(* A selector that was poked takes the first ready member.                 *)
LEMMA SelectReturnsFeeds ==
    ASSUME MsgAssumption, CoreInv, RingInv', NEW t \in Tasks, SelectReturns(t), UNCHANGED ringVars
    PROVE  Feeds
<1>1. PICK s \in Sets : /\ arg[t] = SetQ(s)
                        /\ ready' = IF wakeOk[t] /\ ready[s] # << >>
                                    THEN [ready EXCEPT ![s] = Tail(ready[s])] ELSE ready
  BY DEF SelectReturns
<1>2. /\ Resumes(t) /\ Leave(t) /\ NobodyWakes
      /\ UNCHANGED <<oncpu, prioVars, inUse, members, qset, cnt, len>>
  BY DEF SelectReturns, LeaveCall, NobodyWakes, ringVars
<1>3. CASE ~(wakeOk[t] /\ ready[s] # << >>)
  <2>1. ready' = ready
    BY <1>1, <1>3
  <2> QED
    BY <1>1, <1>2, <1>3, <2>1, ReturnFeeds DEF setVars
<1>4. CASE wakeOk[t] /\ ready[s] # << >>
  <2>1. /\ WaitInv' /\ \A u \in Tasks : Calm(u)
        /\ \A u \in Tasks \ {t} : Calm(u) /\ Stays(u)
    BY <1>2, ReturnCore
  <2>2. CoreInv'
    BY <1>2, <2>1, CalmKeeps DEF CoreInv
  <2>3. \A x \in Queues \ {SetQ(s)} : Kept(x)
    BY <1>1, <2>1, OthersKeep
  <2>4. PeersFed
    <3> SUFFICES ASSUME NEW p \in MsgQueues
                 PROVE  /\ Fed(RecvQ(p), cnt[p], cnt'[p])
                        /\ Fed(SendQ(p), len[p] - cnt[p], len'[p] - cnt'[p])
      BY DEF PeersFed
    <3>1. /\ cnt[p] \in Int /\ len[p] - cnt[p] \in Int
          /\ cnt'[p] = cnt[p] /\ len'[p] - cnt'[p] = len[p] - cnt[p]
      BY <1>2, RingNumbers DEF CoreInv
    <3>2. Kept(RecvQ(p)) /\ Kept(SendQ(p))
      BY <2>3, QueueNames
    <3> QED
      BY <3>1, <3>2, KeptFeeds
  <2>5. ASSUME SetTypeOK PROVE SelectorsFed
    <3> SUFFICES ASSUME NEW z \in Sets PROVE Fed(SetQ(z), Len(ready[z]), Len(ready'[z]))
      BY DEF SelectorsFed
    <3>1. Len(ready[z]) \in Int /\ ready[z] \in Seq(Nat)
      BY <2>5 DEF SetTypeOK
    <3>2. CASE z = s
      <4>1. ready'[z] = Tail(ready[z]) /\ ready[z] # << >>
        BY <1>1, <1>4, <2>5, <3>2 DEF SetTypeOK
      <4>2. Len(ready'[z]) \in Int /\ Len(ready'[z]) <= Len(ready[z]) - 1
        BY <3>1, <4>1
      <4> QED
        BY <2>1, <3>1, <4>2, LeaverFeeds
    <3>3. CASE z # s
      <4>1. Kept(SetQ(z))
        BY <2>3, <3>3, QueueNames
      <4>2. Len(ready'[z]) = Len(ready[z]) /\ Len(ready[z]) <= Len(ready[z])
        BY <1>1, <2>5, <3>1, <3>3 DEF SetTypeOK
      <4> QED
        BY <3>1, <4>1, <4>2, KeptFeeds
    <3> QED
      BY <3>2, <3>3
  <2> QED
    BY <2>2, <2>4, <2>5 DEF Feeds
<1> QED
  BY <1>3, <1>4

(* Nobody blocks, and nobody on its way is turned back.                    *)
LEMMA AllStay ==
    ASSUME MsgAssumption, \A u \in Tasks : Calm(u) /\ Stays(u)
    PROVE  \A x \in Queues : Kept(x)
<1>1. NoTask \notin Tasks
  BY DEF MsgAssumption, WaitAssumption
<1> QED
  BY <1>1, OthersKeep

(* An object is deleted: all that wait for it are woken with no result.    *)
LEMMA WakeFailedCore ==
    ASSUME MsgAssumption, CoreInv, NEW W \in SUBSET Queues,
           Unblock({u \in Tasks : \E x \in W : InList(waitq[x], u)}, FALSE),
           waitq' = [q \in Queues |-> IF q \in W THEN << >> ELSE waitq[q]],
           UNCHANGED prioVars
    PROVE  /\ WaitInv' /\ \A u \in Tasks : Calm(u) /\ Stays(u)
           /\ \A x \in W : ~HasWaiter(x)'
<1> DEFINE S == {u \in Tasks : \E x \in W : InList(waitq[x], u)}
<1> USE DEF CoreInv
<1>1. /\ waitq' \in [Queues -> Seq(Tasks)] /\ \A q \in Queues : Once(waitq'[q])
      /\ \A q \in Queues, u \in Tasks : InList(waitq'[q], u) <=> u \notin S /\ InList(waitq[q], u)
  BY EmptiedQueues
<1>2. Unblock(S, FALSE) /\ S \in SUBSET Tasks
  OBVIOUS
<1>3. \A u \in Tasks : u \in S <=> state[u] = "BLOCKED" /\ blockObj[u] \in W
  BY DEF WaitInv, QueueMembership
<1> HIDE DEF S
<1>4. WaitInv'
  BY <1>1, <1>2, UnblockPreserves, SamePrio DEF MsgAssumption
<1>5. ASSUME NEW u \in Tasks
      PROVE  /\ stage'[u] = stage[u] /\ arg'[u] = arg[u]
             /\ u \in S => state'[u] = "READY"
             /\ u \notin S => /\ state'[u] = state[u] /\ wakeOk'[u] = wakeOk[u]
                              /\ blockObj'[u] = blockObj[u]
  <2>1. /\ stage' = stage /\ arg' = arg
        /\ state' = [v \in Tasks |-> IF v \in {w \in S : state[w] = "BLOCKED"}
                                     THEN "READY" ELSE state[v]]
        /\ blockObj' = [v \in Tasks |-> IF v \in {w \in S : state[w] = "BLOCKED"}
                                        THEN NoQueue ELSE blockObj[v]]
        /\ wakeOk' = [v \in Tasks |-> IF v \in S THEN FALSE ELSE wakeOk[v]]
    BY <1>2, Zenon DEF Unblock, Wake
  <2>2. u \in S => state[u] = "BLOCKED"
    BY <1>3
  <2> QED
    BY <2>1, <2>2
<1>6. \A u \in Tasks : Calm(u)
  BY <1>5 DEF Calm
<1>7. \A u \in Tasks : Stays(u)
  BY <1>3, <1>5 DEF Stays, Awake, InCall
<1>8. \A x \in W : ~HasWaiter(x)'
  BY <1>3, <1>5 DEF HasWaiter
<1> QED
  BY <1>4, <1>6, <1>7, <1>8

LEMMA QueueDeleteFeeds ==
    ASSUME MsgAssumption, CoreInv, RingInv', NEW t \in Tasks, NEW q \in MsgQueues, QueueDelete(t, q)
    PROVE  Feeds
<1> DEFINE W == {RecvQ(q), SendQ(q)}
<1>1. W \in SUBSET Queues
  BY QueueNames
<1>2. waitq' = [x \in Queues |-> IF x \in W THEN << >> ELSE waitq[x]]
  <2>1. waitq' = [waitq EXCEPT ![RecvQ(q)] = << >>, ![SendQ(q)] = << >>]
    BY DEF QueueDelete
  <2>2. waitq \in [Queues -> Seq(Tasks)]
    BY DEF CoreInv, WaitInv, WaitTypeOK
  <2> QED
    BY <1>1, <2>1, <2>2
<1>3. Unblock({u \in Tasks : \E x \in W : InList(waitq[x], u)}, FALSE) /\ UNCHANGED prioVars
  BY DEF QueueDelete
<1>4. RecvQ(q) \in W /\ SendQ(q) \in W
  OBVIOUS
<1> HIDE DEF W
<1>5. /\ WaitInv' /\ \A u \in Tasks : Calm(u) /\ Stays(u)
      /\ ~HasWaiter(RecvQ(q))' /\ ~HasWaiter(SendQ(q))'
  BY <1>1, <1>2, <1>3, <1>4, WakeFailedCore
<1>6. /\ UNCHANGED <<inUse, ready>>
      /\ \A p \in MsgQueues : p # q => len'[p] = len[p] /\ cnt'[p] = cnt[p]
  BY DEF QueueDelete, CoreInv, RingInv, RingTypeOK
<1>7. CoreInv'
  BY <1>5, <1>6, CalmKeeps DEF CoreInv
<1>8. \A x \in Queues : Kept(x)
  BY <1>5, AllStay
<1>9. PeersFed
  <2> SUFFICES ASSUME NEW p \in MsgQueues
               PROVE  /\ Fed(RecvQ(p), cnt[p], cnt'[p])
                      /\ Fed(SendQ(p), len[p] - cnt[p], len'[p] - cnt'[p])
    BY DEF PeersFed
  <2>1. CASE p = q
    BY <1>5, <2>1 DEF Fed
  <2>2. CASE p # q
    <3>1. /\ cnt[p] \in Int /\ len[p] - cnt[p] \in Int
          /\ cnt'[p] = cnt[p] /\ len'[p] - cnt'[p] = len[p] - cnt[p]
      BY <1>6, <2>2, RingNumbers DEF CoreInv
    <3>2. Kept(RecvQ(p)) /\ Kept(SendQ(p))
      BY <1>8, QueueNames
    <3> QED
      BY <3>1, <3>2, KeptFeeds
  <2> QED
    BY <2>1, <2>2
<1>10. ASSUME SetTypeOK, SetTypeOK' PROVE SelectorsFed
  <2>1. \A s \in Sets : Kept(SetQ(s))
    BY <1>8, QueueNames
  <2>2. \A s \in Sets : Len(ready'[s]) <= Len(ready[s])
    BY <1>6, <1>10 DEF SetTypeOK
  <2> QED
    BY <1>10, <2>1, <2>2, AllKeptSelectors
<1> QED
  BY <1>7, <1>9, <1>10 DEF Feeds

LEMMA NobodyMoves ==
    ASSUME MsgAssumption, CoreInv, UNCHANGED waitVars
    PROVE  /\ WaitInv' /\ \A u \in Tasks : Calm(u)
           /\ \A x \in Queues : Kept(x)
<1>1. WaitInv'
  <2>1. WaitInv /\ UNCHANGED <<state, oncpu, stage, arg, blockObj, timed, wakeOk, waitq>>
        /\ UNCHANGED prioVars
    BY DEF CoreInv, waitVars, blockVars
  <2> QED
    BY <2>1, WaitUnchanged DEF prioVars
<1>2. \A u \in Tasks : Calm(u)
  BY DEF Calm, waitVars, blockVars
<1>3. \A u \in Tasks : Stays(u)
  BY DEF Stays, Awake, InCall, waitVars, blockVars
<1> QED
  BY <1>1, <1>2, <1>3, AllStay

LEMMA QueueCreateFeeds ==
    ASSUME MsgAssumption, CoreInv, RingInv', NEW t \in Tasks, NEW q \in MsgQueues, NEW n \in 1..MaxLen,
           QueueCreate(t, q, n)
    PROVE  Feeds
<1>1. WaitInv' /\ (\A u \in Tasks : Calm(u)) /\ \A x \in Queues : Kept(x)
  BY NobodyMoves DEF QueueCreate
<1>2. /\ UNCHANGED <<cnt, inUse, ready>> /\ len[q] = 0
      /\ \A p \in MsgQueues : len'[p] = IF p = q THEN n ELSE len[p]
  BY DEF QueueCreate, CoreInv, RingInv, RingTypeOK, setVars
<1>3. CoreInv'
  BY <1>1, <1>2, CalmKeeps DEF CoreInv
<1>4. PeersFed
  <2> SUFFICES ASSUME NEW p \in MsgQueues
               PROVE  /\ Fed(RecvQ(p), cnt[p], cnt'[p])
                      /\ Fed(SendQ(p), len[p] - cnt[p], len'[p] - cnt'[p])
    BY DEF PeersFed
  <2>1. cnt[p] \in Int /\ len[p] - cnt[p] \in Int
    BY RingNumbers DEF CoreInv
  <2>2. Fed(RecvQ(p), cnt[p], cnt'[p])
    <3>1. Kept(RecvQ(p)) /\ cnt'[p] = cnt[p]
      BY <1>1, <1>2, QueueNames
    <3> QED
      BY <2>1, <3>1, KeptFeeds
  <2>3. Fed(SendQ(p), len[p] - cnt[p], len'[p] - cnt'[p])
    <3>1. Kept(SendQ(p))
      BY <1>1, QueueNames
    <3>2. CASE p = q
      <4>1. ~HasWaiter(SendQ(p))
        BY <1>2, <3>2 DEF CoreInv, Unwaited
      <4> QED
        BY <3>1, <4>1 DEF Kept, Fed
    <3>3. CASE p # q
      BY <1>2, <2>1, <3>1, <3>3, KeptFeeds
    <3> QED
      BY <3>2, <3>3
  <2> QED
    BY <2>2, <2>3
<1>5. ASSUME SetTypeOK, SetTypeOK' PROVE SelectorsFed
  <2>1. \A s \in Sets : Kept(SetQ(s))
    BY <1>1, QueueNames
  <2>2. \A s \in Sets : Len(ready'[s]) <= Len(ready[s])
    BY <1>2, <1>5 DEF SetTypeOK
  <2> QED
    BY <1>5, <2>1, <2>2, AllKeptSelectors
<1> QED
  BY <1>3, <1>4, <1>5 DEF Feeds

(* A step of a set that turns nobody back and fills no ring.               *)
LEMMA NoMoreReady ==
    ASSUME MsgAssumption, CoreInv, CoreInv', UNCHANGED ringVars,
           \A x \in Queues : Kept(x),
           SetTypeOK /\ SetTypeOK' => \A s \in Sets : Len(ready'[s]) <= Len(ready[s])
    PROVE  Feeds
<1>1. PeersFed
  <2>1. \A q \in MsgQueues : cnt'[q] <= cnt[q] /\ len'[q] - cnt'[q] <= len[q] - cnt[q]
    <3>1. UNCHANGED <<cnt, len>>
      BY DEF ringVars
    <3>2. \A q \in MsgQueues : cnt[q] <= cnt[q] /\ len[q] - cnt[q] <= len[q] - cnt[q]
      BY RingNumbers DEF CoreInv
    <3> QED
      BY <3>1, <3>2
  <2> QED
    BY <2>1, AllKeptFeeds DEF CoreInv
<1>2. ASSUME SetTypeOK, SetTypeOK' PROVE SelectorsFed
  <2>1. \A s \in Sets : Kept(SetQ(s))
    BY QueueNames
  <2> QED
    BY <1>2, <2>1, AllKeptSelectors
<1> QED
  BY <1>1, <1>2 DEF Feeds

LEMMA CreateSetFeeds ==
    ASSUME MsgAssumption, CoreInv, RingInv', NEW t \in Tasks, NEW s \in Sets, CreateSet(t, s),
           UNCHANGED ringVars
    PROVE  Feeds
<1>1. waitq' = waitq
  <2>1. SetQ(s) \in Queues /\ ~HasWaiter(SetQ(s))
    BY QueueNames DEF CreateSet, CoreInv, Unwaited
  <2>2. waitq[SetQ(s)] = << >>
    BY <2>1, WaiterIsQueued DEF CoreInv
  <2> QED
    BY <2>1, <2>2 DEF CreateSet, CoreInv, WaitInv, WaitTypeOK
<1>2. UNCHANGED waitVars /\ UNCHANGED len
  BY <1>1 DEF CreateSet, waitVars, blockVars, ringVars
<1>3. WaitInv' /\ (\A u \in Tasks : Calm(u)) /\ \A x \in Queues : Kept(x)
  BY <1>2, NobodyMoves
<1>4. /\ inUse' \in [Sets -> BOOLEAN]
      /\ \A z \in Sets : ~inUse'[z] => ~inUse[z]
  BY DEF CreateSet, CoreInv
<1>5. CoreInv'
  BY <1>2, <1>3, <1>4, CalmKeeps
<1>6. ASSUME SetTypeOK PROVE \A z \in Sets : Len(ready'[z]) <= Len(ready[z])
  <2> TAKE z \in Sets
  <2>1. ready[z] \in Seq(Nat) /\ (ready'[z] = ready[z] \/ ready'[z] = << >>)
    BY <1>6 DEF CreateSet, SetTypeOK
  <2> QED
    BY <2>1
<1> QED
  BY <1>3, <1>5, <1>6, NoMoreReady

LEMMA RemoveMemberFeeds ==
    ASSUME MsgAssumption, CoreInv, RingInv', NEW t \in Tasks, NEW s \in Sets, NEW q \in MsgQueues,
           RemoveMember(t, s, q), UNCHANGED ringVars
    PROVE  Feeds
<1>1. UNCHANGED <<waitVars, inUse, len>>
  BY DEF RemoveMember, ringVars
<1>2. WaitInv' /\ (\A u \in Tasks : Calm(u)) /\ \A x \in Queues : Kept(x)
  BY <1>1, NobodyMoves
<1>3. CoreInv'
  BY <1>1, <1>2, CalmKeeps DEF CoreInv
<1>4. ASSUME SetTypeOK PROVE \A z \in Sets : Len(ready'[z]) <= Len(ready[z])
  <2> TAKE z \in Sets
  <2>1. ready[z] \in Seq(Nat) /\ (ready'[z] = ready[z] \/ ready'[z] = << >>)
    BY <1>4 DEF RemoveMember, SetTypeOK
  <2> QED
    BY <2>1
<1> QED
  BY <1>2, <1>3, <1>4, NoMoreReady

LEMMA SelectFeeds ==
    ASSUME MsgAssumption, CoreInv, RingInv', NEW t \in Tasks, NEW s \in Sets,
           Select(t, s), UNCHANGED ringVars
    PROVE  Feeds
<1>1. UNCHANGED <<waitVars, inUse, len>>
  BY DEF Select, ringVars
<1>2. WaitInv' /\ (\A u \in Tasks : Calm(u)) /\ \A x \in Queues : Kept(x)
  BY <1>1, NobodyMoves
<1>3. CoreInv'
  BY <1>1, <1>2, CalmKeeps DEF CoreInv
<1>4. ASSUME SetTypeOK PROVE \A z \in Sets : Len(ready'[z]) <= Len(ready[z])
  <2> TAKE z \in Sets
  <2>1. ready[z] \in Seq(Nat) /\ (ready'[z] = ready[z] \/ (ready[z] # << >> /\ ready'[z] = Tail(ready[z])))
    BY <1>4 DEF Select, SetTypeOK
  <2>2. CASE ready'[z] = ready[z]
    BY <2>1, <2>2
  <2>3. CASE ready[z] # << >> /\ ready'[z] = Tail(ready[z])
    <3>1. Len(Tail(ready[z])) = Len(ready[z]) - 1 /\ Len(ready[z]) \in Nat
      BY <2>1, <2>3
    <3> QED
      BY <2>3, <3>1
  <2> QED
    BY <2>1, <2>2, <2>3
<1> QED
  BY <1>2, <1>3, <1>4, NoMoreReady

LEMMA DeleteSetFeeds ==
    ASSUME MsgAssumption, CoreInv, RingInv', NEW t \in Tasks, NEW s \in Sets,
           DeleteSet(t, s), UNCHANGED ringVars
    PROVE  Feeds
<1> DEFINE W == {SetQ(s)}
<1>1. W \in SUBSET Queues
  BY QueueNames
<1>2. waitq' = [x \in Queues |-> IF x \in W THEN << >> ELSE waitq[x]]
  <2>1. waitq' = [waitq EXCEPT ![SetQ(s)] = << >>] /\ waitq \in [Queues -> Seq(Tasks)]
    BY DEF DeleteSet, WakeAll, CoreInv, WaitInv, WaitTypeOK
  <2> QED
    BY <1>1, <2>1
<1>3. Unblock({u \in Tasks : \E x \in W : InList(waitq[x], u)}, FALSE) /\ UNCHANGED prioVars
  BY DEF DeleteSet, WakeAll
<1>4. SetQ(s) \in W
  OBVIOUS
<1> HIDE DEF W
<1>5. /\ WaitInv' /\ \A u \in Tasks : Calm(u) /\ Stays(u)
      /\ ~HasWaiter(SetQ(s))'
  BY <1>1, <1>2, <1>3, <1>4, WakeFailedCore
<1>6. \A x \in Queues : Kept(x)
  BY <1>5, AllStay
<1>7. /\ UNCHANGED len /\ inUse' \in [Sets -> BOOLEAN]
      /\ \A z \in Sets : ~inUse'[z] => ~inUse[z] \/ z = s
  BY DEF DeleteSet, CoreInv, ringVars
<1>8. CoreInv'
  BY <1>5, <1>7, CalmKeeps
<1>9. ASSUME SetTypeOK PROVE \A z \in Sets : Len(ready'[z]) <= Len(ready[z])
  <2> TAKE z \in Sets
  <2>1. ready[z] \in Seq(Nat) /\ (ready'[z] = ready[z] \/ ready'[z] = << >>)
    BY <1>9 DEF DeleteSet, SetTypeOK
  <2> QED
    BY <2>1
<1> QED
  BY <1>6, <1>8, <1>9, NoMoreReady

(* An object with something in it joins: nobody waits for the set, unless  *)
(* the application lets it.                                                *)
LEMMA AddMemberFeeds ==
    ASSUME MsgAssumption, CoreInv, RingInv', NEW t \in Tasks, NEW s \in Sets, NEW q \in MsgQueues,
           NEW filled \in BOOLEAN, AddMember(t, s, q, filled), UNCHANGED ringVars
    PROVE  Feeds
<1>1. UNCHANGED <<waitVars, inUse, len, cnt>>
  BY DEF AddMember, ringVars
<1>2. WaitInv' /\ (\A u \in Tasks : Calm(u)) /\ \A x \in Queues : Kept(x)
  BY <1>1, NobodyMoves
<1>3. CoreInv'
  BY <1>1, <1>2, CalmKeeps DEF CoreInv
<1>4. PeersFed
  <2>1. \A p \in MsgQueues : cnt'[p] <= cnt[p] /\ len'[p] - cnt'[p] <= len[p] - cnt[p]
    BY <1>1, RingNumbers DEF CoreInv
  <2> QED
    BY <1>2, <2>1, AllKeptFeeds DEF CoreInv
<1>5. ASSUME SetTypeOK, ~JoinWhileWaited PROVE SelectorsFed
  <2> SUFFICES ASSUME NEW z \in Sets PROVE Fed(SetQ(z), Len(ready[z]), Len(ready'[z]))
    BY DEF SelectorsFed
  <2>1. SetQ(z) \in Queues /\ Kept(SetQ(z))
    BY <1>2, QueueNames
  <2>2. CASE z = s
    <3>1. ~HasWaiter(SetQ(z))
      BY <1>5, <2>1, <2>2, WaiterIsQueued DEF AddMember, CoreInv
    <3> QED
      BY <2>1, <3>1 DEF Kept, Fed
  <2>3. CASE z # s
    <3>1. ready'[z] = ready[z] /\ Len(ready[z]) \in Int /\ Len(ready[z]) <= Len(ready[z])
      BY <1>5, <2>3 DEF AddMember, SetTypeOK
    <3> QED
      BY <2>1, <3>1, KeptFeeds
  <2> QED
    BY <2>2, <2>3
<1> QED
  BY <1>3, <1>4, <1>5 DEF Feeds

-----------------------------------------------------------------------------
(* Every step.                                                             *)

(* Nobody is deleted, so no one dies on the way to what it was woken for.  *)
Alive == \A u \in Tasks : state[u] \notin {"FREE", "TERMINATED", "DELETED"}

LEMMA QueueStepFeeds ==
    ASSUME MsgAssumption, CoreInv, RingInv', QueueStep
    PROVE  Feeds
<1> USE DEF MsgQueues
<1>0. NoTask \notin Tasks
  BY DEF MsgAssumption, WaitAssumption
<1>1. CASE \E t \in Tasks, q \in MsgQueues, n \in 1..MaxLen : QueueCreate(t, q, n)
  BY <1>1, QueueCreateFeeds
<1>2. ASSUME NEW c \in Tasks \cup {Isr}, NEW q \in MsgQueues, NEW m \in Payloads, Send(c, q, m)
      PROVE  Feeds
  <2>1. /\ cnt[q] < len[q] /\ Deliver(q, m) /\ UNCHANGED <<oncpu, prioVars>>
        /\ UNCHANGED <<stage, arg>>
    BY <1>2 DEF Send
  <2> QED
    BY <1>0, <2>1, DeliverFeeds
<1>3. CASE \E t \in Tasks, q \in MsgQueues, d \in Timeouts : SendBlocks(t, q, d)
  BY <1>3, SendBlocksFeeds
<1>4. ASSUME NEW t \in Tasks, NEW m \in Payloads, SendReturns(t, m)
      PROVE  Feeds
  <2>1. PICK q \in MsgQueues :
           /\ arg[t] = SendQ(q)
           /\ IF wakeOk[t] /\ cnt[q] < len[q]
              THEN Deliver(q, m)
              ELSE NobodyWakes /\ UNCHANGED <<setVars, ringVars>>
    BY <1>4 DEF SendReturns
  <2>2. Resumes(t) /\ Leave(t) /\ UNCHANGED <<oncpu, prioVars>>
    BY <1>4 DEF SendReturns
  <2>3. \A u \in Tasks \ {t} : stage'[u] = stage[u] /\ arg'[u] = arg[u]
    BY <2>2 DEF Leave, CoreInv, WaitInv, WaitTypeOK
  <2>4. CASE wakeOk[t] /\ cnt[q] < len[q]
    <3>1. Deliver(q, m)
      BY <2>1, <2>4
    <3> QED
      BY <2>1, <2>2, <2>3, <2>4, <3>1, DeliverFeeds
  <2>5. CASE ~(wakeOk[t] /\ cnt[q] < len[q])
    <3>1. NobodyWakes /\ UNCHANGED <<setVars, cnt, len>>
      BY <2>1, <2>5 DEF ringVars
    <3>2. wakeOk[t] => cnt[q] = len[q]
      <4>1. cnt[q] \in Nat /\ len[q] \in Nat /\ cnt[q] <= len[q]
        BY RingNumbers DEF CoreInv
      <4> QED
        BY <2>5, <4>1
    <3> QED
      BY <2>1, <2>2, <3>1, <3>2, ReturnFeeds
  <2> QED
    BY <2>4, <2>5
<1>5. ASSUME NEW c \in Tasks \cup {Isr}, NEW q \in MsgQueues, Receive(c, q)
      PROVE  Feeds
  <2>1. /\ cnt[q] > 0 /\ Collect(q) /\ UNCHANGED <<oncpu, prioVars>>
        /\ UNCHANGED <<stage, arg>>
    BY <1>5 DEF Receive
  <2> QED
    BY <1>0, <2>1, CollectFeeds
<1>6. CASE \E t \in Tasks, q \in MsgQueues, d \in Timeouts : ReceiveBlocks(t, q, d)
  BY <1>6, ReceiveBlocksFeeds
<1>7. ASSUME NEW t \in Tasks, ReceiveReturns(t)
      PROVE  Feeds
  <2>1. PICK q \in MsgQueues :
           /\ arg[t] = RecvQ(q)
           /\ IF wakeOk[t] /\ cnt[q] > 0
              THEN Collect(q)
              ELSE NobodyWakes /\ UNCHANGED <<setVars, ringVars>>
    BY <1>7 DEF ReceiveReturns
  <2>2. Resumes(t) /\ Leave(t) /\ UNCHANGED <<oncpu, prioVars>>
    BY <1>7 DEF ReceiveReturns
  <2>3. \A u \in Tasks \ {t} : stage'[u] = stage[u] /\ arg'[u] = arg[u]
    BY <2>2 DEF Leave, CoreInv, WaitInv, WaitTypeOK
  <2>4. CASE wakeOk[t] /\ cnt[q] > 0
    <3>1. Collect(q)
      BY <2>1, <2>4
    <3> QED
      BY <2>1, <2>2, <2>3, <2>4, <3>1, CollectFeeds
  <2>5. CASE ~(wakeOk[t] /\ cnt[q] > 0)
    <3>1. NobodyWakes /\ UNCHANGED <<setVars, cnt, len>>
      BY <2>1, <2>5 DEF ringVars
    <3>2. wakeOk[t] => cnt[q] = 0
      <4>1. cnt[q] \in Nat
        BY RingNumbers DEF CoreInv
      <4> QED
        BY <2>5, <4>1
    <3> QED
      BY <2>1, <2>2, <3>1, <3>2, ReturnFeeds
  <2> QED
    BY <2>4, <2>5
<1>8. CASE \E t \in Tasks, q \in MsgQueues : QueueDelete(t, q)
  BY <1>8, QueueDeleteFeeds
<1> QED
  BY <1>1, <1>2, <1>3, <1>4, <1>5, <1>6, <1>7, <1>8 DEF QueueStep

LEMMA SetStepFeeds ==
    ASSUME MsgAssumption, CoreInv, RingInv', SetStep, UNCHANGED ringVars
    PROVE  Feeds
<1>1. CASE \E t \in Tasks, s \in Sets : CreateSet(t, s) \/ DeleteSet(t, s) \/ Select(t, s)
  BY <1>1, CreateSetFeeds, DeleteSetFeeds, SelectFeeds
<1>2. ASSUME NEW t \in Tasks, NEW s \in Sets, NEW q \in MsgQueues,
             AddMember(t, s, q, cnt[q] > 0) \/ RemoveMember(t, s, q)
      PROVE  Feeds
  <2>1. (cnt[q] > 0) \in BOOLEAN
    OBVIOUS
  <2> QED
    BY <1>2, <2>1, AddMemberFeeds, RemoveMemberFeeds
<1>3. CASE \E t \in Tasks, s \in Sets, d \in Timeouts : SelectBlocks(t, s, d)
  BY <1>3, SelectBlocksFeeds
<1>4. CASE \E t \in Tasks : SelectReturns(t)
  BY <1>4, SelectReturnsFeeds
<1> QED
  BY <1>1, <1>2, <1>3, <1>4 DEF SetStep

(* The steps of the blocking core block nobody on a queue; without         *)
(* deletion they turn nobody back either.                                  *)
LEMMA TaskStepFeeds ==
    ASSUME MsgAssumption, CoreInv, Deletable = {}, Alive, RingInv',
           TaskStep, UNCHANGED <<setVars, ringVars>>
    PROVE  Feeds /\ Alive'
<1> DEFINE Fine == /\ WaitInv'
                   /\ \A u \in Tasks : Calm(u) /\ Stays(u)
                   /\ Alive'
<1> USE DEF CoreInv
<1>0. WaitAssumption /\ WaitInv /\ WaitTypeOK
  BY DEF MsgAssumption, WaitInv
<1>1. ASSUME NEW old \in Tasks \cup {NoTask}, NEW new \in Tasks \cup {NoTask}, Switch(old, new)
      PROVE  Fine
  <2>1. WaitInv'
    BY <1>0, <1>1, SwitchPreserves
  <2>2. ASSUME NEW u \in Tasks
        PROVE  /\ arg'[u] = arg[u] /\ blockObj'[u] = blockObj[u] /\ wakeOk'[u] = wakeOk[u]
               /\ state'[u] = state[u] \/ state'[u] \in {"RUNNING", "READY"}
               /\ InCall(u) => stage'[u] \in {"yield", "wait"}
    BY <1>1 DEF Switch, Alive, InCall
  <2>3. \A u \in Tasks : Calm(u)
    BY <2>2 DEF Calm
  <2>4. \A u \in Tasks : Stays(u)
    BY <2>2 DEF Stays, Awake, InCall
  <2>5. Alive'
    BY <2>2 DEF Alive
  <2> QED
    BY <2>1, <2>3, <2>4, <2>5
<1>2. ASSUME NEW t \in Tasks, Expire(t) \/ Suspend(t) \/ Resume(t)
      PROVE  Fine
  <2>1. WaitInv'
    BY <1>0, <1>2, ExpirePreserves, SuspendPreserves, ResumePreserves
  <2>2. /\ UNCHANGED <<stage, arg>>
        /\ state'[t] \in {"READY", "SUSPENDED"}
        /\ state[t] = "BLOCKED" \/ wakeOk'[t] = wakeOk[t]
        /\ \A u \in Tasks \ {t} : /\ state'[u] = state[u] /\ blockObj'[u] = blockObj[u]
                                  /\ wakeOk'[u] = wakeOk[u]
    <3>1. CASE Expire(t)
      BY <3>1 DEF Expire, Unblock, Wake
    <3>2. CASE Suspend(t) \/ Resume(t)
      BY <1>0, <3>2 DEF Suspend, Resume, WaitTypeOK
    <3> QED
      BY <1>2, <3>1, <3>2
  <2>3. \A u \in Tasks : Calm(u)
    BY <2>2 DEF Calm
  <2>4. \A u \in Tasks : Stays(u)
    BY <2>2 DEF Stays, Awake, InCall
  <2>5. Alive'
    BY <2>2 DEF Alive
  <2> QED
    BY <2>1, <2>3, <2>4, <2>5
<1>3. ASSUME NEW t \in Tasks, Create(t) \/ Exit(t) \/ Delete(t)
      PROVE  FALSE
  BY <1>3 DEF Create, Exit, Delete, Alive
<1>4. ASSUME NEW t \in Tasks, NEW p \in 0..MaxPrio, SetPriority(t, p)
      PROVE  Fine
  <2>1. WaitInv'
    BY <1>0, <1>4, SetPriorityPreserves
  <2>2. UNCHANGED <<state, stage, arg, blockObj, wakeOk>>
    BY <1>4 DEF SetPriority, blockVars
  <2>3. \A u \in Tasks : Calm(u) /\ Stays(u)
    BY <2>2 DEF Calm, Stays, Awake, InCall
  <2>4. Alive'
    BY <2>2 DEF Alive
  <2> QED
    BY <2>1, <2>3, <2>4
<1>5. Fine
  BY <1>1, <1>2, <1>3, <1>4 DEF TaskStep
<1>6. \A x \in Queues : Kept(x)
  BY <1>5, AllStay
<1>7. UNCHANGED <<inUse, len, ready>>
  BY DEF setVars, ringVars
<1>8. CoreInv'
  BY <1>5, <1>7, CalmKeeps
<1>9. SetTypeOK => \A s \in Sets : Len(ready'[s]) <= Len(ready[s])
  BY <1>7 DEF SetTypeOK
<1>10. Feeds
  BY <1>6, <1>8, <1>9, NoMoreReady
<1> QED
  BY <1>5, <1>10

LEMMA QueuesLeaveAlive ==
    ASSUME MsgAssumption, WaitTypeOK, Alive, QueueStep \/ SetStep
    PROVE  Alive'
<1>1. CASE UNCHANGED state
  BY <1>1 DEF Alive
<1>2. ASSUME NEW S, NEW ok, Wake(S, ok) PROVE Alive'
  BY <1>2 DEF Wake, Alive
<1>3. ASSUME NEW t \in Tasks, NEW x, NEW d, Block(t, x, d) PROVE Alive'
  BY <1>3 DEF Block, Alive, WaitTypeOK
<1>4. ASSUME NEW q, NEW m, Deliver(q, m) \/ Collect(q) \/ NobodyWakes PROVE Alive'
  <2>1. CASE Deliver(q, m) \/ Collect(q)
    BY <1>2, <2>1 DEF Deliver, Collect, PopEach
  <2>2. CASE NobodyWakes
    BY <1>1, <2>2 DEF NobodyWakes
  <2> QED
    BY <1>4, <2>1, <2>2
<1>5. CASE QueueStep
  <2>1. ASSUME NEW t, NEW q, NEW n, QueueCreate(t, q, n) PROVE Alive'
    BY <1>1, <2>1 DEF QueueCreate, waitVars, blockVars
  <2>2. ASSUME NEW c, NEW q, NEW m, Send(c, q, m) \/ Receive(c, q) PROVE Alive'
    BY <1>4, <2>2 DEF Send, Receive
  <2>3. ASSUME NEW t \in Tasks, NEW q, NEW d, SendBlocks(t, q, d) \/ ReceiveBlocks(t, q, d) PROVE Alive'
    BY <1>3, <2>3 DEF SendBlocks, ReceiveBlocks
  <2>4. ASSUME NEW t, NEW m, SendReturns(t, m) \/ ReceiveReturns(t) PROVE Alive'
    <3>1. \E q : Deliver(q, m) \/ Collect(q) \/ NobodyWakes
      BY <2>4 DEF SendReturns, ReceiveReturns
    <3> QED
      BY <1>4, <3>1
  <2>5. ASSUME NEW t, NEW q, QueueDelete(t, q) PROVE Alive'
    BY <1>2, <2>5 DEF QueueDelete, Unblock
  <2> QED
    BY <1>5, <2>1, <2>2, <2>3, <2>4, <2>5 DEF QueueStep
<1>6. CASE SetStep
  <2>1. ASSUME NEW t \in Tasks, NEW s, CreateSet(t, s) \/ DeleteSet(t, s) \/ Select(t, s) PROVE Alive'
    BY <1>1, <1>2, <2>1 DEF CreateSet, DeleteSet, Select, WakeAll, Unblock, waitVars, blockVars
  <2>2. ASSUME NEW t, NEW s, NEW q, NEW f, AddMember(t, s, q, f) \/ RemoveMember(t, s, q) PROVE Alive'
    BY <1>1, <2>2 DEF AddMember, RemoveMember, waitVars, blockVars
  <2>3. ASSUME NEW t \in Tasks, NEW s, NEW d, SelectBlocks(t, s, d) PROVE Alive'
    BY <1>3, <2>3 DEF SelectBlocks
  <2>4. ASSUME NEW t, SelectReturns(t) PROVE Alive'
    BY <1>1, <2>4 DEF SelectReturns, LeaveCall
  <2> QED
    BY <1>6, <2>1, <2>2, <2>3, <2>4 DEF SetStep
<1> QED
  BY <1>5, <1>6

-----------------------------------------------------------------------------
(* The theorems.                                                           *)

PeersServed == \A q \in MsgQueues : /\ Served(RecvQ(q), cnt[q])
                                    /\ Served(SendQ(q), len[q] - cnt[q])
SelectorsServed == \A s \in Sets : Served(SetQ(s), Len(ready[s]))

LEMMA CoreInvInit == ASSUME MsgAssumption, Init PROVE CoreInv /\ Alive /\ PeersServed /\ SelectorsServed
<1>1. WaitInv /\ RingInv
  BY InitEstablishes, RingInvInit DEF MsgAssumption, Init
<1>2. Alive /\ \A u \in Tasks : state[u] = "READY"
  BY DEF Init, WaitInit, Alive
<1>3. \A x : ~HasWaiter(x)
  BY <1>2 DEF HasWaiter
<1>4. inUse \in [Sets -> BOOLEAN]
  BY DEF Init, SetInit
<1> QED
  BY <1>1, <1>2, <1>3, <1>4 DEF CoreInv, ArgKept, Unwaited, PeersServed, SelectorsServed, Served

LEMMA FeedsStep ==
    ASSUME MsgAssumption, Deletable = {}, CoreInv, Alive, [Next]_vars
    PROVE  Feeds /\ Alive'
<1>1. RingInv'
  BY RingStep DEF CoreInv
<1>2. CASE QueueStep
  BY <1>1, <1>2, QueueStepFeeds, QueuesLeaveAlive DEF CoreInv, WaitInv
<1>3. CASE SetStep /\ UNCHANGED ringVars
  BY <1>1, <1>3, SetStepFeeds, QueuesLeaveAlive DEF CoreInv, WaitInv
<1>4. CASE TaskStep /\ UNCHANGED <<setVars, ringVars>>
  BY <1>1, <1>4, TaskStepFeeds
<1>5. CASE UNCHANGED vars
  <2>1. UNCHANGED waitVars /\ UNCHANGED ringVars /\ UNCHANGED <<inUse, len, ready>> /\ UNCHANGED state
    BY <1>5 DEF vars, ringVars, setVars, waitVars, blockVars
  <2>2. WaitInv' /\ (\A u \in Tasks : Calm(u)) /\ \A x \in Queues : Kept(x)
    BY <2>1, NobodyMoves
  <2>3. CoreInv'
    BY <1>1, <2>1, <2>2, CalmKeeps DEF CoreInv
  <2>4. SetTypeOK => \A s \in Sets : Len(ready'[s]) <= Len(ready[s])
    BY <2>1 DEF SetTypeOK
  <2> QED
    BY <2>1, <2>2, <2>3, <2>4, NoMoreReady DEF Alive
<1> QED
  BY <1>2, <1>3, <1>4, <1>5 DEF Next

LEMMA FedKeepsServed ==
    ASSUME MsgAssumption, CoreInv, Feeds
    PROVE  /\ PeersServed => PeersServed'
           /\ SetTypeOK /\ SetTypeOK' /\ ~JoinWhileWaited /\ SelectorsServed => SelectorsServed'
<1>0. WaitAssumption
  BY DEF MsgAssumption
<1>1. ASSUME PeersServed PROVE PeersServed'
  <2> SUFFICES ASSUME NEW q \in MsgQueues
               PROVE  /\ HasWaiter(RecvQ(q))' => cnt'[q] <= Cardinality(OnTheWay(RecvQ(q))')
                      /\ HasWaiter(SendQ(q))' => len'[q] - cnt'[q] <= Cardinality(OnTheWay(SendQ(q))')
    BY DEF PeersServed, Served, RecvQ, SendQ
  <2>1. /\ cnt[q] \in Int /\ len[q] - cnt[q] \in Int
        /\ cnt'[q] \in Int /\ len'[q] - cnt'[q] \in Int
    BY RingIntegers DEF CoreInv, Feeds
  <2>2. /\ Served(RecvQ(q), cnt[q]) /\ Served(SendQ(q), len[q] - cnt[q])
        /\ Fed(RecvQ(q), cnt[q], cnt'[q]) /\ Fed(SendQ(q), len[q] - cnt[q], len'[q] - cnt'[q])
    BY <1>1 DEF PeersServed, Feeds, PeersFed
  <2> QED
    BY <1>0, <2>1, <2>2, FedServed
<1>2. ASSUME SetTypeOK, SetTypeOK', ~JoinWhileWaited, SelectorsServed PROVE SelectorsServed'
  <2> SUFFICES ASSUME NEW s \in Sets
               PROVE  HasWaiter(SetQ(s))' => Len(ready'[s]) <= Cardinality(OnTheWay(SetQ(s))')
    BY DEF SelectorsServed, Served, SetQ
  <2>1. Len(ready[s]) \in Int /\ Len(ready'[s]) \in Int
    BY <1>2 DEF SetTypeOK
  <2>2. Served(SetQ(s), Len(ready[s])) /\ Fed(SetQ(s), Len(ready[s]), Len(ready'[s]))
    BY <1>2 DEF SelectorsServed, Feeds, SelectorsFed
  <2> QED
    BY <1>0, <2>1, <2>2, FedServed
<1> QED
  BY <1>1, <1>2

(* Theorem: a receiver does not sleep beside a message, nor a sender beside*)
(* a free slot, unless enough tasks have been woken for all of them, in any*)
(* interleaving of sends, receives, interrupts, expiries, suspensions and  *)
(* deletions of queues.  Tasks are not deleted: one that is deleted on its *)
(* way to a message takes its wake-up with it.                             *)
THEOREM NoPeerIdles == ASSUME Deletable = {} PROVE Spec => []NoIdlePeer
<1>1. MsgAssumption
  BY WaitAssumption, SetAssumption, QueueAssumption DEF MsgAssumption
<1> DEFINE PInv == CoreInv /\ Alive /\ PeersServed
<1>2. Init => PInv
  BY <1>1, CoreInvInit
<1>3. PInv /\ [Next]_vars => PInv'
  BY <1>1, FeedsStep, FedKeepsServed DEF Feeds
<1>4. PInv => NoIdlePeer
  <2> SUFFICES ASSUME CoreInv, PeersServed, NEW q \in MsgQueues
               PROVE  /\ waitq[RecvQ(q)] # << >> => cnt[q] <= Cardinality(OnTheWay(RecvQ(q)))
                      /\ waitq[SendQ(q)] # << >> => len[q] - cnt[q] <= Cardinality(OnTheWay(SendQ(q)))
    BY DEF NoIdlePeer
  <2>1. RecvQ(q) \in Queues /\ SendQ(q) \in Queues
    BY <1>1, QueueNames
  <2>2. Served(RecvQ(q), cnt[q]) /\ Served(SendQ(q), len[q] - cnt[q])
    BY DEF PeersServed
  <2> QED
    BY <2>1, <2>2, WaiterIsQueued DEF CoreInv, Served
<1> HIDE DEF PInv
<1> QED
  BY <1>2, <1>3, <1>4, PTL DEF Spec

(* Theorem: a task does not sleep in a select while its set holds more     *)
(* ready members than tasks were poked awake for, when objects join only   *)
(* sets that nobody waits on and leave their set before they are deleted.  *)
THEOREM NoSelectorIdles ==
    ASSUME Deletable = {}, ~JoinWhileWaited, ~DeleteInSet
    PROVE  Spec => []NoIdleSelector
<1>1. MsgAssumption
  BY WaitAssumption, SetAssumption, QueueAssumption DEF MsgAssumption
<1> DEFINE SInv == CoreInv /\ Alive /\ SetInv /\ SelectorsServed
<1>2. Init => SInv
  BY <1>1, CoreInvInit, SetInvInit
<1>3. SInv /\ [Next]_vars => SInv'
  <2> SUFFICES ASSUME SInv, [Next]_vars PROVE SInv'
    OBVIOUS
  <2>1. SetInv' /\ Feeds /\ Alive'
    BY <1>1, SetInvStep, FeedsStep
  <2>2. SetTypeOK /\ SetTypeOK' /\ CoreInv'
    BY <2>1 DEF SetInv, Feeds
  <2>3. SelectorsServed'
    BY <1>1, <2>1, <2>2, FedKeepsServed
  <2> QED
    BY <2>1, <2>2, <2>3
<1>4. SInv => NoIdleSelector
  <2> SUFFICES ASSUME CoreInv, SelectorsServed, NEW s \in Sets
               PROVE  waitq[SetQ(s)] # << >> => Len(ready[s]) <= Cardinality(OnTheWay(SetQ(s)))
    BY DEF NoIdleSelector
  <2>1. SetQ(s) \in Queues
    BY <1>1, QueueNames
  <2>2. Served(SetQ(s), Len(ready[s]))
    BY DEF SelectorsServed
  <2> QED
    BY <2>1, <2>2, WaiterIsQueued DEF CoreInv, Served
<1> HIDE DEF SInv
<1> QED
  BY <1>2, <1>3, <1>4, PTL DEF Spec
=============================================================================

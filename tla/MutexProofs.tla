----------------------------- MODULE MutexProofs -----------------------------
(***************************************************************************)
(* Mutex: for any number of tasks, cores and mutexes, any depth of the     *)
(* cycle check, and any set of tasks that are suspended, deleted or        *)
(* re-prioritised.                                                         *)
(***************************************************************************)
EXTENDS Mutex, TaskWaitProofs

(* A blocked task waits for a mutex that somebody owns.                    *)
FreeUnwaited ==
    \A t \in Tasks, m \in Mutexes :
        state[t] = "BLOCKED" /\ blockObj[t] = m => owner[m] # NoTask

FreeIsFlat == \A m \in Mutexes : owner[m] = NoTask => recursive[m] = 0

VictimsDeletable == \A c \in Tasks : victim[c] # NoTask => victim[c] \in Deletable

(* Only a task that may be deleted is ever gone.                           *)
GoneDeletable ==
    \A t \in Tasks : state[t] \in {"DELETED", "FREE", "TERMINATED"} => t \in Deletable

(* A call still has, in a local variable, the object it blocked on.        *)
ArgIsObject == \A t \in Tasks : state[t] = "BLOCKED" => arg[t] = blockObj[t]

(* A lock that blocked is about to report pdPASS.                          *)
AboutToPass(t) == InCall(t) /\ state[t] # "BLOCKED" /\ wakeOk[t]

PassMeansOwner ==
    \A t \in Undisturbed :
        AboutToPass(t) => /\ arg[t] \in Mutexes
                          /\ owner[arg[t]] = t
                          /\ recursive[arg[t]] = 0

(* Conversely an owner knows it, or is about to be told.                   *)
OwnerKnows ==
    \A t \in Undisturbed, m \in Mutexes :
        owner[m] = t => held[m][t] > 0 \/ (AboutToPass(t) /\ arg[t] = m)

Agreement == ~DeleteHeld => HoldersAgree /\ PassMeansOwner /\ OwnerKnows

MutexInv ==
    /\ WaitInv
    /\ MutexTypeOK
    /\ FreeUnwaited
    /\ FreeIsFlat
    /\ VictimsDeletable
    /\ GoneDeletable
    /\ ArgIsObject
    /\ Agreement

(* The steps that leave the locks alone, whatever they do to the tasks.    *)
LEMMA QuietStep ==
    ASSUME MutexInv, WaitInv', MutexTypeOK', VictimsDeletable', GoneDeletable',
           UNCHANGED <<owner, recursive>>,
           \A t \in Undisturbed, m \in Mutexes : held'[m][t] = held[m][t],
           \A t \in Tasks : state'[t] = "BLOCKED" =>
               state[t] = "BLOCKED" /\ blockObj'[t] = blockObj[t] /\ arg'[t] = arg[t],
           \A t \in Undisturbed : AboutToPass(t)' <=> AboutToPass(t),
           \A t \in Undisturbed : AboutToPass(t) => arg'[t] = arg[t]
    PROVE  MutexInv'
<1>1. FreeUnwaited' /\ FreeIsFlat' /\ ArgIsObject'
  BY DEF MutexInv, FreeUnwaited, FreeIsFlat, ArgIsObject
<1>2. Agreement'
  BY DEF MutexInv, Agreement, HoldersAgree, PassMeansOwner, OwnerKnows
<1> QED
  BY <1>1, <1>2 DEF MutexInv

LEMMA RaiseType ==
    ASSUME WaitAssumption, NEW pr \in [Tasks -> 0..MaxPrio], NEW t, NEW p \in 0..MaxPrio
    PROVE  Raise(pr, t, p) \in [Tasks -> 0..MaxPrio]
  BY DEF Raise

LEMMA LocksOnlyPreserves ==
    ASSUME MutexInv, UNCHANGED waitVars, UNCHANGED <<owner, recursive, held, deleteVars>>,
           MutexTypeOK'
    PROVE  MutexInv'
<1>1. WaitInv'
  BY WaitUnchanged DEF MutexInv, waitVars, blockVars, prioVars
<1>2. VictimsDeletable'
  BY DEF MutexInv, VictimsDeletable, deleteVars
<1>3. GoneDeletable'
  BY DEF MutexInv, GoneDeletable, waitVars, blockVars
<1> QED
  BY <1>1, <1>2, <1>3, QuietStep DEF waitVars, blockVars, AboutToPass, InCall

LEMMA CreatePreservesLocks ==
    ASSUME MutexAssumption, MutexInv, NEW m \in Mutexes, MutexCreate(m)
    PROVE  MutexInv'
<1>1. MutexTypeOK'
  BY DEF MutexInv, MutexTypeOK, MutexCreate, WaitTypeOK, waitVars, blockVars, prioVars, deleteVars
<1> QED
  BY <1>1, LocksOnlyPreserves DEF MutexCreate, deleteVars

LEMMA SetCeilingPreserves ==
    ASSUME MutexAssumption, MutexInv, NEW m \in Mutexes, NEW p \in Ceilings, SetCeiling(m, p)
    PROVE  MutexInv'
<1>1. MutexTypeOK'
  BY DEF MutexInv, MutexTypeOK, SetCeiling, WaitTypeOK, waitVars, blockVars, prioVars,
         deleteVars, MutexAssumption
<1> QED
  BY <1>1, LocksOnlyPreserves DEF SetCeiling, deleteVars

(* a step that changes nothing of the blocking core but priorities         *)
LEMMA OnlyPrioChanges ==
    ASSUME MutexInv, UNCHANGED blockVars, PrioOK'
    PROVE  WaitInv'
  BY DEF MutexInv, WaitInv, WaitTypeOK, PrioOK, QueueMembership, LinkedOnce, DelayedIsBlocked,
         BlockedInCall, InCall, blockVars

LEMMA LockFreePreserves ==
    ASSUME WaitAssumption, MutexAssumption, MutexInv,
           NEW t \in Tasks, NEW m \in Mutexes, LockFree(t, m)
    PROVE  MutexInv'
<1> USE DEF MutexInv
<1>1. PrioOK' /\ saved' \in [Mutexes -> 0..MaxPrio] /\ applied' \in [Mutexes -> BOOLEAN]
  <2>1. CASE kind[m] = "dpcp" /\ ~applied[m]
    <3>1. ceiling[m] \in 0..MaxPrio /\ prio \in [Tasks -> 0..MaxPrio]
      BY DEF MutexTypeOK, WaitTypeOK
    <3>2. ApplyCeiling(m, t, prio) /\ basePrio' = basePrio
      BY <2>1 DEF LockFree
    <3> QED
      BY <3>1, <3>2, RaiseType DEF ApplyCeiling, PrioOK, MutexTypeOK, WaitTypeOK
  <2>2. CASE ~(kind[m] = "dpcp" /\ ~applied[m])
    BY <2>2 DEF LockFree, PrioOK, MutexTypeOK, WaitTypeOK
  <2> QED
    BY <2>1, <2>2
<1>2. WaitInv'
  BY <1>1, OnlyPrioChanges DEF LockFree
<1>3. MutexTypeOK'
  BY <1>1, <1>2 DEF WaitInv, MutexTypeOK, LockFree, deleteVars
<1>4. FreeUnwaited' /\ FreeIsFlat' /\ VictimsDeletable' /\ GoneDeletable' /\ ArgIsObject'
  BY DEF LockFree, blockVars, deleteVars, FreeUnwaited, FreeIsFlat, VictimsDeletable, ArgIsObject,
         GoneDeletable,
         MutexTypeOK, WaitAssumption
<1>5. Agreement'
  <2> SUFFICES ASSUME ~DeleteHeld PROVE HoldersAgree' /\ PassMeansOwner' /\ OwnerKnows'
    BY DEF Agreement
  <2>1. HoldersAgree /\ PassMeansOwner /\ OwnerKnows /\ recursive[m] = 0 /\ owner[m] = NoTask
    BY DEF Agreement, LockFree, FreeIsFlat
  <2>2. NoTask \notin Tasks /\ Undisturbed \subseteq Tasks
    BY DEF WaitAssumption, Undisturbed
  <2>3. HoldersAgree'
    BY <2>1, <2>2 DEF HoldersAgree, LockFree, MutexTypeOK
  <2>4. PassMeansOwner'
    BY <2>1, <2>2 DEF PassMeansOwner, AboutToPass, InCall, LockFree, blockVars, MutexTypeOK
  <2>5. OwnerKnows'
    BY <2>1, <2>2 DEF OwnerKnows, AboutToPass, InCall, LockFree, blockVars, MutexTypeOK
  <2> QED
    BY <2>3, <2>4, <2>5
<1> QED
  BY <1>2, <1>3, <1>4, <1>5

(* One level more or less of a lock that t owns.                           *)
LEMMA LevelChangePreserves ==
    ASSUME WaitAssumption, MutexInv, NEW t \in Tasks, NEW m \in Mutexes, NEW d \in {0 - 1, 1},
           Calls(t), owner[m] = t,
           recursive' \in [Mutexes -> 0..MaxRecursive],
           recursive'[m] = recursive[m] + d,
           \A k \in Mutexes : k # m => recursive'[k] = recursive[k],
           held' \in [Mutexes -> [Tasks -> Nat]],
           \A u \in Tasks, k \in Mutexes : <<k, u>> # <<m, t>> => held'[k][u] = held[k][u],
           held[m][t] > 0 => held'[m][t] = held[m][t] + d,
           UNCHANGED <<waitVars, kind, owner, ceiling, saved, applied, deleteVars>>
    PROVE  MutexInv'
<1> USE DEF MutexInv
<1>1. WaitInv'
  BY WaitUnchanged DEF waitVars, blockVars, prioVars
<1>2. MutexTypeOK'
  BY <1>1 DEF WaitInv, MutexTypeOK, deleteVars
<1>3. FreeUnwaited' /\ FreeIsFlat' /\ VictimsDeletable' /\ GoneDeletable' /\ ArgIsObject'
  BY DEF GoneDeletable, waitVars, blockVars, deleteVars, FreeUnwaited, FreeIsFlat, VictimsDeletable, ArgIsObject,
         MutexTypeOK, WaitAssumption
<1>4. Agreement'
  <2> SUFFICES ASSUME ~DeleteHeld PROVE HoldersAgree' /\ PassMeansOwner' /\ OwnerKnows'
    BY DEF Agreement
  <2>1. HoldersAgree /\ PassMeansOwner /\ OwnerKnows /\ Undisturbed \subseteq Tasks
    BY DEF Agreement, Undisturbed
  <2>2. ~InCall(t)
    BY DEF Calls, Executing, InCall
  <2>5. t \in Undisturbed => held[m][t] > 0 /\ recursive[m] = held[m][t] - 1
    BY <2>1, <2>2 DEF OwnerKnows, AboutToPass, HoldersAgree
  <2>3. HoldersAgree'
    <3> SUFFICES ASSUME NEW u \in Undisturbed, NEW k \in Mutexes, held'[k][u] > 0
                 PROVE  owner'[k] = u /\ recursive'[k] = held'[k][u] - 1
      BY DEF HoldersAgree
    <3>1. CASE u = t /\ k = m
      <4>1. held[m][t] > 0
        BY <3>1, <2>5
      <4> QED
        BY <4>1, <3>1, <2>1 DEF HoldersAgree, MutexTypeOK
    <3>2. CASE k = m /\ u # t
      BY <3>2, <2>1 DEF HoldersAgree
    <3>3. CASE k # m
      BY <3>3, <2>1 DEF HoldersAgree, MutexTypeOK
    <3> QED
      BY <3>1, <3>2, <3>3
  <2>4. PassMeansOwner'
    BY <2>1, <2>2 DEF PassMeansOwner, AboutToPass, InCall, waitVars, blockVars, MutexTypeOK
  <2>6. OwnerKnows'
    <3> SUFFICES ASSUME NEW u \in Undisturbed, NEW k \in Mutexes, owner'[k] = u
                 PROVE  held'[k][u] > 0 \/ (AboutToPass(u)' /\ arg'[u] = k)
      BY DEF OwnerKnows
    <3>1. CASE u = t /\ k = m
      BY <3>1, <2>5, d \in {0 - 1, 1} DEF MutexTypeOK
    <3>2. CASE ~(u = t /\ k = m)
      BY <3>2, <2>1 DEF OwnerKnows, AboutToPass, InCall, waitVars, blockVars
    <3> QED
      BY <3>1, <3>2
  <2> QED
    BY <2>3, <2>4, <2>6
<1> QED
  BY <1>1, <1>2, <1>3, <1>4

LEMMA LockAgainPreserves ==
    ASSUME WaitAssumption, MutexAssumption, MutexInv, NEW t \in Tasks, NEW m \in Mutexes, LockAgain(t, m)
    PROVE  MutexInv'
<1> USE DEF MutexInv
<1>1. /\ recursive' \in [Mutexes -> 0..MaxRecursive]
      /\ recursive'[m] = recursive[m] + 1
      /\ \A k \in Mutexes : k # m => recursive'[k] = recursive[k]
  BY DEF LockAgain, MutexTypeOK, MutexAssumption
<1>2. /\ held' \in [Mutexes -> [Tasks -> Nat]]
      /\ \A u \in Tasks, k \in Mutexes : <<k, u>> # <<m, t>> => held'[k][u] = held[k][u]
      /\ held'[m][t] = held[m][t] + 1
  BY DEF LockAgain, MutexTypeOK
<1> QED
  BY <1>1, <1>2, LevelChangePreserves DEF LockAgain

LEMMA UnlockOncePreserves ==
    ASSUME WaitAssumption, MutexAssumption, MutexInv, NEW t \in Tasks, NEW m \in Mutexes, UnlockOnce(t, m)
    PROVE  MutexInv'
<1> USE DEF MutexInv
<1>1. /\ recursive' \in [Mutexes -> 0..MaxRecursive]
      /\ recursive'[m] = recursive[m] + (0 - 1)
      /\ \A k \in Mutexes : k # m => recursive'[k] = recursive[k]
  BY DEF UnlockOnce, MutexTypeOK, MutexAssumption
<1>2. /\ held' \in [Mutexes -> [Tasks -> Nat]]
      /\ \A u \in Tasks, k \in Mutexes : <<k, u>> # <<m, t>> => held'[k][u] = held[k][u]
      /\ held[m][t] > 0 => held'[m][t] = held[m][t] + (0 - 1)
  BY DEF UnlockOnce, MutexTypeOK
<1> QED
  BY <1>1, <1>2, LevelChangePreserves DEF UnlockOnce

LEMMA LockBlocksPreserves ==
    ASSUME WaitAssumption, MutexInv, NEW t \in Tasks, NEW m \in Mutexes, NEW d \in Timeouts,
           LockBlocks(t, m, d)
    PROVE  MutexInv'
<1> USE DEF MutexInv
<1>1. prio \in [Tasks -> 0..MaxPrio] /\ owner[m] \in Tasks
  BY DEF WaitInv, WaitTypeOK, LockBlocks, MutexTypeOK
<1>2. PrioOK'
  <2>1. prio' = Inherit(m, prio[t]) /\ basePrio' = basePrio
    BY DEF LockBlocks
  <2>2. Raise(prio, owner[m], prio[t]) \in [Tasks -> 0..MaxPrio]
    BY <1>1, RaiseType
  <2> QED
    BY <1>1, <2>1, <2>2 DEF Inherit, PrioOK, WaitInv, WaitTypeOK
<1>3. WaitInv'
  BY <1>2, BlockPreserves DEF LockBlocks, Calls, Mutexes
<1>4. MutexTypeOK'
  BY <1>3 DEF WaitInv, MutexTypeOK, LockBlocks, mutexVars, lockVars, deleteVars
<1>5. UNCHANGED <<owner, recursive, held, victim>>
  BY DEF LockBlocks, mutexVars, lockVars, deleteVars
<1>6. FreeUnwaited' /\ ArgIsObject'
  BY <1>5 DEF LockBlocks, Block, FreeUnwaited, ArgIsObject, WaitInv, WaitTypeOK
<1>7. FreeIsFlat' /\ VictimsDeletable' /\ GoneDeletable'
  BY <1>5 DEF FreeIsFlat, VictimsDeletable, GoneDeletable, LockBlocks, Block, WaitInv, WaitTypeOK
<1>8. Agreement'
  <2> SUFFICES ASSUME ~DeleteHeld PROVE HoldersAgree' /\ PassMeansOwner' /\ OwnerKnows'
    BY DEF Agreement
  <2>1. HoldersAgree /\ PassMeansOwner /\ OwnerKnows /\ Undisturbed \subseteq Tasks
    BY DEF Agreement, Undisturbed
  <2>2. \A u \in Tasks : u # t => (AboutToPass(u)' <=> AboutToPass(u)) /\ arg'[u] = arg[u]
    BY DEF LockBlocks, Block, AboutToPass, InCall, WaitInv, WaitTypeOK
  <2>3. ~AboutToPass(t) /\ ~AboutToPass(t)'
    BY DEF LockBlocks, Calls, Executing, Block, AboutToPass, InCall, WaitInv, WaitTypeOK
  <2> QED
    BY <1>5, <2>1, <2>2, <2>3 DEF HoldersAgree, PassMeansOwner, OwnerKnows
<1> QED
  BY <1>3, <1>4, <1>6, <1>7, <1>8

LEMMA LockReturnsPreserves ==
    ASSUME WaitAssumption, MutexInv, NEW t \in Tasks, LockReturns(t)
    PROVE  MutexInv'
<1> USE DEF MutexInv
<1>1. WaitInv'
  BY LeaveCallPreserves, SamePrio DEF LockReturns
<1>2. MutexTypeOK'
  BY <1>1 DEF WaitInv, MutexTypeOK, LockReturns, lockVars, deleteVars
<1>3. UNCHANGED <<owner, recursive, victim>>
  BY DEF LockReturns, lockVars, deleteVars
<1>4. state[t] # "BLOCKED"
  BY DEF LockReturns, Resumes, WaitInv, BlockedInCall
<1>5. FreeUnwaited' /\ FreeIsFlat' /\ VictimsDeletable' /\ GoneDeletable' /\ ArgIsObject'
  BY <1>3, <1>4 DEF GoneDeletable, LockReturns, LeaveCall, Leave, FreeUnwaited, FreeIsFlat, VictimsDeletable,
                    ArgIsObject, WaitInv, WaitTypeOK
<1>6. Agreement'
  <2> SUFFICES ASSUME ~DeleteHeld PROVE HoldersAgree' /\ PassMeansOwner' /\ OwnerKnows'
    BY DEF Agreement
  <2>1. HoldersAgree /\ PassMeansOwner /\ OwnerKnows /\ Undisturbed \subseteq Tasks
    BY DEF Agreement, Undisturbed
  <2>2. \A u \in Tasks : u # t => (AboutToPass(u)' <=> AboutToPass(u)) /\ arg'[u] = arg[u]
    BY DEF LockReturns, LeaveCall, Leave, AboutToPass, InCall, WaitInv, WaitTypeOK
  <2>3. ~AboutToPass(t)' /\ (AboutToPass(t) <=> wakeOk[t])
    BY <1>4 DEF LockReturns, Resumes, LeaveCall, Leave, AboutToPass, InCall, WaitInv, WaitTypeOK
  <2>4. PassMeansOwner'
    BY <1>3, <2>1, <2>2, <2>3 DEF PassMeansOwner
  <2>5. CASE wakeOk[t] /\ t \in Undisturbed
    <3>1. arg[t] \in Mutexes /\ owner[arg[t]] = t /\ recursive[arg[t]] = 0
      BY <2>1, <2>3, <2>5 DEF PassMeansOwner
    <3>2. held' = [held EXCEPT ![arg[t]][t] = 1]
      BY <2>5 DEF LockReturns
    <3>3. HoldersAgree'
      BY <1>3, <2>1, <3>1, <3>2 DEF HoldersAgree, MutexTypeOK
    <3>4. OwnerKnows'
      BY <1>3, <2>1, <2>2, <2>3, <3>1, <3>2 DEF OwnerKnows, MutexTypeOK
    <3> QED
      BY <2>4, <3>3, <3>4
  <2>6. CASE ~(wakeOk[t] /\ t \in Undisturbed)
    <3>1. \A u \in Undisturbed, m \in Mutexes : held'[m][u] = held[m][u]
      BY <2>1, <2>6 DEF LockReturns, MutexTypeOK
    <3> QED
      BY <1>3, <2>1, <2>2, <2>3, <2>4, <2>6, <3>1 DEF HoldersAgree, OwnerKnows
  <2> QED
    BY <2>5, <2>6
<1> QED
  BY <1>1, <1>2, <1>5, <1>6

Heirs(F) == {Heir(m) : m \in F} \ {NoTask}

(* The first waiter of a mutex is blocked on it.                           *)
LEMMA HeirIsBlocked ==
    ASSUME WaitAssumption, WaitInv, NEW m \in Mutexes
    PROVE  /\ waitq[m] \in Seq(Tasks) /\ Once(waitq[m])
           /\ waitq[m] # << >> =>
                 /\ Heir(m) \in Tasks /\ state[Heir(m)] = "BLOCKED" /\ blockObj[Heir(m)] = m
                 /\ Tail(waitq[m]) \in Seq(Tasks) /\ Once(Tail(waitq[m]))
                 /\ \A u \in Tasks :
                      InList(Tail(waitq[m]), u) <=> u # Heir(m) /\ InList(waitq[m], u)
           /\ waitq[m] = << >> <=> Heir(m) = NoTask
<1>1. waitq[m] \in Seq(Tasks) /\ Once(waitq[m])
  BY DEF WaitInv, WaitTypeOK, LinkedOnce, Once, Mutexes
<1>2. CASE waitq[m] = << >>
  BY <1>1, <1>2 DEF Heir
<1>3. CASE waitq[m] # << >>
  <2>1. Heir(m) = Head(waitq[m])
    BY <1>3 DEF Heir
  <2>2. /\ Heir(m) \in Tasks /\ InList(waitq[m], Heir(m))
        /\ Tail(waitq[m]) \in Seq(Tasks) /\ Once(Tail(waitq[m]))
        /\ \A u \in Tasks : InList(Tail(waitq[m]), u) <=> u # Heir(m) /\ InList(waitq[m], u)
    BY <1>1, <1>3, <2>1, PopLemma
  <2>3. state[Heir(m)] = "BLOCKED" /\ blockObj[Heir(m)] = m
    BY <2>2 DEF WaitInv, QueueMembership, Mutexes
  <2>4. Heir(m) # NoTask
    BY <2>2 DEF WaitAssumption
  <2> QED
    BY <1>1, <1>3, <2>2, <2>3, <2>4
<1> QED
  BY <1>2, <1>3

(* Handing over the mutexes of F at once: the heirs are distinct, and each *)
(* leaves the queue of the one mutex it was blocked on.                    *)
LEMMA HandOverWait ==
    ASSUME WaitAssumption, WaitInv, MutexTypeOK, FreeUnwaited, ArgIsObject,
           NEW F \in SUBSET Mutexes, HandOver(F), PrioOK'
    PROVE  /\ WaitInv' /\ FreeUnwaited' /\ ArgIsObject'
           /\ owner' \in [Mutexes -> Tasks \cup {NoTask}]
           /\ Heirs(F) \subseteq Tasks
           /\ \A u \in Heirs(F) : /\ state[u] = "BLOCKED" /\ blockObj[u] \in F
                                  /\ u = Heir(blockObj[u])
<1> DEFINE H == Heirs(F)
<1>1. \A m \in Mutexes :
         /\ waitq[m] \in Seq(Tasks) /\ Once(waitq[m])
         /\ waitq[m] # << >> =>
               /\ Heir(m) \in Tasks /\ state[Heir(m)] = "BLOCKED" /\ blockObj[Heir(m)] = m
               /\ Tail(waitq[m]) \in Seq(Tasks) /\ Once(Tail(waitq[m]))
               /\ \A u \in Tasks :
                    InList(Tail(waitq[m]), u) <=> u # Heir(m) /\ InList(waitq[m], u)
         /\ waitq[m] = << >> <=> Heir(m) = NoTask
  BY HeirIsBlocked
<1>2. \A u \in H : /\ u \in Tasks /\ state[u] = "BLOCKED" /\ blockObj[u] \in F
                   /\ u = Heir(blockObj[u])
  BY <1>1 DEF Heirs
<1>3. \A m \in F : waitq[m] # << >> => Heir(m) \in H
  BY <1>1 DEF Heirs
<1>4. /\ Unblock(H, TRUE)
      /\ waitq' = [m \in Mutexes |-> IF m \in F /\ waitq[m] # << >>
                                     THEN Tail(waitq[m]) ELSE waitq[m]]
      /\ owner' = [m \in Mutexes |-> IF m \in F THEN Heir(m) ELSE owner[m]]
  BY DEF HandOver, Heirs
<1> HIDE DEF H
<1>5. waitq' \in [Queues -> Seq(Tasks)] /\ \A q \in Queues : Once(waitq'[q])
  BY <1>1, <1>4 DEF Mutexes
<1>6. ASSUME NEW q \in Queues, NEW u \in Tasks
      PROVE  InList(waitq'[q], u) <=> u \notin H /\ InList(waitq[q], u)
  <2>1. InList(waitq[q], u) /\ u \in H => q \in F /\ u = Heir(q)
    BY <1>2 DEF WaitInv, QueueMembership
  <2>2. InList(waitq[q], u) => waitq[q] # << >>
    BY DEF InList
  <2>3. CASE q \in F /\ waitq[q] # << >>
    <3>1. waitq'[q] = Tail(waitq[q]) /\ Heir(q) \in H
      BY <1>3, <1>4, <2>3
    <3> QED
      BY <1>1, <2>1, <2>3, <3>1
  <2>4. CASE ~(q \in F /\ waitq[q] # << >>)
    <3>1. waitq'[q] = waitq[q]
      BY <1>4, <2>4 DEF Mutexes
    <3> QED
      BY <2>1, <2>2, <2>4, <3>1
  <2> QED
    BY <2>3, <2>4
<1>7. H \in SUBSET Tasks /\ \E ok \in BOOLEAN : Unblock(H, ok)
  BY <1>2, <1>4
<1>8. WaitInv'
  BY <1>5, <1>6, <1>7, UnblockPreserves
<1>9. owner' \in [Mutexes -> Tasks \cup {NoTask}]
  <2>1. \A m \in Mutexes : Heir(m) \in Tasks \cup {NoTask}
    BY <1>1
  <2>2. \A m \in Mutexes : owner[m] \in Tasks \cup {NoTask}
    BY DEF MutexTypeOK
  <2> QED
    BY <1>4, <2>1, <2>2
<1>10. \A u \in Tasks : state'[u] = "BLOCKED" =>
           state[u] = "BLOCKED" /\ u \notin H /\ blockObj'[u] = blockObj[u] /\ arg'[u] = arg[u]
  BY <1>2, <1>4 DEF Unblock, Wake
<1>11. ArgIsObject'
  BY <1>10 DEF ArgIsObject
<1>12. FreeUnwaited'
  <2> SUFFICES ASSUME NEW u \in Tasks, NEW m \in Mutexes, state'[u] = "BLOCKED", blockObj'[u] = m
               PROVE  owner'[m] # NoTask
    BY DEF FreeUnwaited
  <2>1. state[u] = "BLOCKED" /\ blockObj[u] = m
    BY <1>10
  <2>2. InList(waitq[m], u) /\ owner[m] # NoTask
    BY <2>1 DEF WaitInv, QueueMembership, FreeUnwaited, Mutexes
  <2>3. waitq[m] # << >>
    BY <2>2 DEF InList
  <2> QED
    BY <1>1, <1>4, <2>2, <2>3
<1> QED
  BY <1>2, <1>7, <1>8, <1>9, <1>11, <1>12 DEF H

LEMMA HandOverPreserves ==
    ASSUME WaitAssumption, MutexInv, NEW F \in SUBSET Mutexes, HandOver(F), PrioOK',
           MutexTypeOK', VictimsDeletable',
           \A m \in Mutexes : recursive'[m] = IF m \in F THEN 0 ELSE recursive[m],
           ~DeleteHeld => \A u \in Undisturbed, m \in Mutexes :
                             held'[m][u] = IF m \in F THEN 0 ELSE held[m][u],
           \A m \in F : owner[m] \in Undisturbed => ~InCall(owner[m])
    PROVE  MutexInv'
<1> USE DEF MutexInv
<1>1. /\ WaitInv' /\ FreeUnwaited' /\ ArgIsObject' /\ Heirs(F) \subseteq Tasks
      /\ \A u \in Heirs(F) : /\ state[u] = "BLOCKED" /\ blockObj[u] \in F
                             /\ u = Heir(blockObj[u])
  BY HandOverWait
<1>2. /\ Unblock(Heirs(F), TRUE)
      /\ owner' = [m \in Mutexes |-> IF m \in F THEN Heir(m) ELSE owner[m]]
  BY DEF HandOver, Heirs
<1>3. FreeIsFlat' /\ GoneDeletable'
  BY <1>1, <1>2 DEF FreeIsFlat, GoneDeletable, Unblock, Wake
<1>4. Agreement'
  <2> SUFFICES ASSUME ~DeleteHeld PROVE HoldersAgree' /\ PassMeansOwner' /\ OwnerKnows'
    BY DEF Agreement
  <2>1. HoldersAgree /\ PassMeansOwner /\ OwnerKnows /\ Undisturbed \subseteq Tasks
    BY DEF Agreement, Undisturbed
  <2>2. ASSUME NEW u \in Heirs(F)
        PROVE  AboutToPass(u)' /\ arg'[u] = blockObj[u] /\ arg[u] = blockObj[u] /\ ~AboutToPass(u)
    BY <1>1, <1>2 DEF Unblock, Wake, AboutToPass, InCall, WaitInv, BlockedInCall, ArgIsObject
  <2>3. ASSUME NEW u \in Tasks, u \notin Heirs(F)
        PROVE  (AboutToPass(u)' <=> AboutToPass(u)) /\ arg'[u] = arg[u]
    BY <1>2, <2>3 DEF Unblock, Wake, AboutToPass, InCall
  <2>4. HoldersAgree'
    BY <1>2, <2>1 DEF HoldersAgree
  <2>5. PassMeansOwner'
    <3> SUFFICES ASSUME NEW u \in Undisturbed, AboutToPass(u)'
                 PROVE  arg'[u] \in Mutexes /\ owner'[arg'[u]] = u /\ recursive'[arg'[u]] = 0
      BY DEF PassMeansOwner
    <3>1. CASE u \in Heirs(F)
      BY <1>1, <1>2, <2>2, <3>1
    <3>2. CASE u \notin Heirs(F)
      <4>1. /\ AboutToPass(u) /\ arg'[u] = arg[u] /\ arg[u] \in Mutexes
            /\ owner[arg[u]] = u /\ recursive[arg[u]] = 0
        BY <2>1, <2>3, <3>2 DEF PassMeansOwner
      <4>2. arg[u] \notin F
        BY <4>1 DEF AboutToPass
      <4> QED
        BY <1>2, <4>1, <4>2
    <3> QED
      BY <3>1, <3>2
  <2>6. OwnerKnows'
    <3> SUFFICES ASSUME NEW u \in Undisturbed, NEW m \in Mutexes, owner'[m] = u
                 PROVE  held'[m][u] > 0 \/ (AboutToPass(u)' /\ arg'[u] = m)
      BY DEF OwnerKnows
    <3>1. CASE m \in F
      <4>1. u = Heir(m) /\ u # NoTask
        BY <1>2, <2>1, <3>1 DEF WaitAssumption
      <4>2. u \in Heirs(F) /\ blockObj[u] = m
        <5>1. waitq[m] # << >>
          BY <4>1 DEF Heir
        <5> QED
          BY <3>1, <4>1, <5>1, HeirIsBlocked DEF Heirs
      <4> QED
        BY <2>2, <4>2
    <3>2. CASE m \notin F
      <4>1. owner[m] = u
        BY <1>2, <3>2
      <4>2. held[m][u] > 0 \/ (AboutToPass(u) /\ arg[u] = m)
        BY <4>1, <2>1 DEF OwnerKnows
      <4> QED
        BY <2>1, <2>2, <2>3, <3>2, <4>2
    <3> QED
      BY <3>1, <3>2
  <2> QED
    BY <2>4, <2>5, <2>6
<1> QED
  BY <1>1, <1>3, <1>4

(* No unlock, deletion or hand-over takes a priority out of its range.     *)
LEMMA RestoredType ==
    ASSUME WaitAssumption, WaitInv, MutexTypeOK, NEW m \in Mutexes, owner[m] \in Tasks
    PROVE  Restored(m) \in [Tasks -> 0..MaxPrio]
  BY DEF Restored, WaitInv, WaitTypeOK, MutexTypeOK

LEMMA BoostType ==
    ASSUME WaitAssumption, WaitInv, NEW m \in Mutexes, NEW pr \in [Tasks -> 0..MaxPrio]
    PROVE  BoostHeir(m, pr) \in [Tasks -> 0..MaxPrio]
<1>1. CASE kind[m] = "pi" /\ Len(waitq[m]) > 1
  <2>1. waitq[m] \in Seq(Tasks)
    BY DEF WaitInv, WaitTypeOK, Mutexes
  <2>2. waitq[m][2] \in Tasks
    BY <1>1, <2>1
  <2>3. Raise(pr, Heir(m), pr[waitq[m][2]]) \in [Tasks -> 0..MaxPrio]
    BY <2>2, RaiseType
  <2> QED
    BY <1>1, <2>3 DEF BoostHeir
<1>2. CASE ~(kind[m] = "pi" /\ Len(waitq[m]) > 1)
  BY <1>2 DEF BoostHeir
<1> QED
  BY <1>1, <1>2

LEMMA UnlockPreserves ==
    ASSUME WaitAssumption, MutexAssumption, MutexInv,
           NEW t \in Tasks, NEW m \in Mutexes, Unlock(t, m)
    PROVE  MutexInv'
<1> USE DEF MutexInv
<1>1. Restored(m) \in [Tasks -> 0..MaxPrio]
  BY RestoredType DEF Unlock
<1>2. /\ prio' \in [Tasks -> 0..MaxPrio] /\ saved' \in [Mutexes -> 0..MaxPrio]
      /\ applied' \in [Mutexes -> BOOLEAN]
  <2>1. CASE kind[m] = "dpcp" /\ Heir(m) # NoTask
    <3>1. Heir(m) \in Tasks /\ ceiling[m] \in 0..MaxPrio
      <4>1. waitq[m] # << >>
        BY <2>1 DEF Heir
      <4>2. Heir(m) \in Tasks
        BY <4>1, HeirIsBlocked
      <4> QED
        BY <4>2 DEF MutexTypeOK
    <3>2. ApplyCeiling(m, Heir(m), Restored(m))
      BY <2>1 DEF Unlock
    <3>3. Raise(Restored(m), Heir(m), ceiling[m]) \in [Tasks -> 0..MaxPrio]
      BY <1>1, <3>1, RaiseType
    <3> QED
      BY <1>1, <3>1, <3>2, <3>3 DEF ApplyCeiling, MutexTypeOK
  <2>2. CASE ~(kind[m] = "dpcp" /\ Heir(m) # NoTask)
    <3>1. /\ prio' = BoostHeir(m, Restored(m)) /\ saved' = saved
          /\ applied' = [applied EXCEPT ![m] = FALSE]
      BY <2>2 DEF Unlock
    <3> QED
      BY <1>1, <3>1, BoostType DEF MutexTypeOK
  <2> QED
    BY <2>1, <2>2
<1>3. PrioOK' /\ HandOver({m}) /\ {m} \in SUBSET Mutexes
  BY <1>2 DEF PrioOK, Unlock, WaitInv, WaitTypeOK
<1>4. WaitInv' /\ owner' \in [Mutexes -> Tasks \cup {NoTask}]
  BY <1>3, HandOverWait
<1>5. MutexTypeOK'
  BY <1>2, <1>4 DEF WaitInv, MutexTypeOK, Unlock, deleteVars
<1>6. VictimsDeletable'
  BY DEF Unlock, deleteVars, VictimsDeletable
<1>7. \A k \in Mutexes : recursive'[k] = IF k \in {m} THEN 0 ELSE recursive[k]
  BY DEF Unlock
<1>8. ~DeleteHeld => \A u \in Undisturbed, k \in Mutexes :
                        held'[k][u] = IF k \in {m} THEN 0 ELSE held[k][u]
  <2> SUFFICES ASSUME ~DeleteHeld, NEW u \in Undisturbed, NEW k \in Mutexes
               PROVE  held'[k][u] = IF k \in {m} THEN 0 ELSE held[k][u]
    OBVIOUS
  <2>1. u \in Tasks /\ held[k][u] \in Nat /\ (held[k][u] > 0 => owner[k] = u)
    BY DEF Undisturbed, Agreement, HoldersAgree, MutexTypeOK
  <2> QED
    BY <2>1 DEF Unlock, MutexTypeOK
<1>9. \A k \in {m} : owner[k] \in Undisturbed => ~InCall(owner[k])
  BY DEF Unlock, Calls, Executing, InCall
<1> QED
  BY <1>3, <1>5, <1>6, <1>7, <1>8, <1>9, HandOverPreserves

(* cgrtos_mutex_delete of a free mutex: nobody waits for it.               *)
LEMMA MutexDeletePreserves ==
    ASSUME WaitAssumption, MutexAssumption, MutexInv,
           NEW t \in Tasks, NEW m \in Mutexes, MutexDelete(t, m)
    PROVE  MutexInv'
<1> USE DEF MutexInv
<1>1. PrioOK' /\ WakeAll(m)
  BY SamePrio DEF MutexDelete
<1>2. WaitInv'
  BY <1>1, WakeAllPreserves DEF Mutexes
<1>3. MutexTypeOK'
  BY <1>2 DEF WaitInv, MutexTypeOK, MutexDelete, deleteVars, MutexAssumption, WaitAssumption
<1>4. /\ \A u \in Tasks : state'[u] = "BLOCKED" =>
             /\ state[u] = "BLOCKED" /\ blockObj[u] # m
             /\ blockObj'[u] = blockObj[u] /\ arg'[u] = arg[u]
  <2>1. \A u \in Tasks : InList(waitq[m], u) <=> state[u] = "BLOCKED" /\ blockObj[u] = m
    BY DEF WaitInv, QueueMembership, Mutexes
  <2> QED
    BY <1>1, <2>1 DEF WakeAll, Unblock, Wake
<1>5. FreeUnwaited' /\ ArgIsObject'
  <2>1. \A k \in Mutexes : k # m => owner'[k] = owner[k]
    BY DEF MutexDelete, MutexTypeOK
  <2>2. FreeUnwaited'
    BY <1>4, <2>1 DEF FreeUnwaited
  <2> QED
    BY <1>4, <2>2 DEF ArgIsObject
<1>6. FreeIsFlat' /\ VictimsDeletable'
  BY DEF FreeIsFlat, VictimsDeletable, MutexDelete, MutexTypeOK, deleteVars
<1>8. GoneDeletable'
  BY <1>1 DEF GoneDeletable, WakeAll, Unblock, Wake
<1>7. Agreement'
  <2> SUFFICES ASSUME ~DeleteHeld PROVE HoldersAgree' /\ PassMeansOwner' /\ OwnerKnows'
    BY DEF Agreement
  <2>1. /\ HoldersAgree /\ PassMeansOwner /\ OwnerKnows /\ Undisturbed \subseteq Tasks
        /\ owner[m] = NoTask /\ owner' = owner /\ recursive[m] = 0 /\ NoTask \notin Tasks
    BY DEF Agreement, Undisturbed, MutexDelete, MutexTypeOK, FreeIsFlat, WaitAssumption
  <2>2. \A u \in Tasks : ~InList(waitq[m], u)
    BY <2>1 DEF FreeUnwaited, WaitInv, QueueMembership, Mutexes
  <2>3. \A u \in Tasks : (AboutToPass(u)' <=> AboutToPass(u)) /\ arg'[u] = arg[u]
    BY <1>1, <2>2 DEF WakeAll, Unblock, Wake, AboutToPass, InCall
  <2>4. \A k \in Mutexes : recursive'[k] = recursive[k]
    BY <2>1 DEF MutexDelete, MutexTypeOK
  <2>5. \A u \in Undisturbed, k \in Mutexes : held'[k][u] = held[k][u]
    BY <2>1 DEF MutexDelete, MutexTypeOK, HoldersAgree
  <2> QED
    BY <2>1, <2>3, <2>4, <2>5 DEF HoldersAgree, PassMeansOwner, OwnerKnows
<1> QED
  BY <1>2, <1>3, <1>5, <1>6, <1>7, <1>8

(* The second section of cgrtos_task_delete, by caller c.                  *)
LEMMA DeleteReleasePreserves ==
    ASSUME WaitAssumption, MutexAssumption, MutexInv, NEW c \in Tasks, DeleteRelease(c)
    PROVE  MutexInv'
<1> USE DEF MutexInv
<1> DEFINE v == victim[c]
           F == Owned(v)
<1>1. v \in Deletable /\ v \in Tasks /\ v \notin Undisturbed
  BY DEF DeleteRelease, VictimsDeletable, MutexTypeOK, Undisturbed
<1>2. F \in SUBSET Mutexes /\ \A m \in F : owner[m] = v
  BY DEF Owned, MutexAssumption
<1>3. /\ HandOver(F) /\ prio' = AfterRelease(F, v)
      /\ recursive' = [m \in Mutexes |-> IF m \in F THEN 0 ELSE recursive[m]]
      /\ UNCHANGED <<basePrio, kind, ceiling, saved, applied, victim, stale, held>>
      /\ section' = [section EXCEPT ![c] = "finish"]
  BY DEF DeleteRelease
<1> HIDE DEF v, F
<1>4. PrioOK'
  <2>1. prio \in [Tasks -> 0..MaxPrio] /\ basePrio \in [Tasks -> 0..MaxPrio]
    BY DEF WaitInv, WaitTypeOK
  <2>2. ASSUME NEW u \in Tasks, \E m \in F : Heir(m) = u
        PROVE  BoostHeir(CHOOSE m \in F : Heir(m) = u, prio)[u] \in 0..MaxPrio
    <3>1. (CHOOSE m \in F : Heir(m) = u) \in Mutexes
      BY <1>2, <2>2
    <3> QED
      BY <2>1, <3>1, BoostType
  <2>3. AfterRelease(F, v) \in [Tasks -> 0..MaxPrio]
    BY <1>1, <2>1, <2>2 DEF AfterRelease
  <2> QED
    BY <1>3, <2>1, <2>3 DEF PrioOK
<1>5. WaitInv' /\ owner' \in [Mutexes -> Tasks \cup {NoTask}]
  BY <1>2, <1>3, <1>4, HandOverWait
<1>6. MutexTypeOK'
  BY <1>3, <1>5 DEF WaitInv, MutexTypeOK, MutexAssumption
<1>7. VictimsDeletable'
  BY <1>3 DEF VictimsDeletable
<1>8. ~DeleteHeld => \A u \in Undisturbed, m \in Mutexes :
                        held'[m][u] = IF m \in F THEN 0 ELSE held[m][u]
  <2> SUFFICES ASSUME ~DeleteHeld, NEW u \in Undisturbed, NEW m \in F
               PROVE  held[m][u] = 0
    BY <1>3
  <2>1. u \in Tasks /\ held[m][u] \in Nat /\ (held[m][u] > 0 => owner[m] = u)
    BY <1>2 DEF Undisturbed, Agreement, HoldersAgree, MutexTypeOK
  <2> QED
    BY <1>1, <1>2, <2>1
<1> QED
  BY <1>1, <1>2, <1>3, <1>4, <1>6, <1>7, <1>8, HandOverPreserves

(* The steps that change nothing of the locks.                             *)
LEMMA DeleteFinishPreserves ==
    ASSUME WaitAssumption, MutexInv, NEW c \in Tasks, DeleteFinish(c)
    PROVE  MutexInv'
<1> USE DEF MutexInv
<1> DEFINE v == victim[c]
<1>1. v \in Deletable /\ v \in Tasks /\ v \notin Undisturbed
  BY DEF DeleteFinish, VictimsDeletable, MutexTypeOK, Undisturbed
<1>2. /\ UNCHANGED blockVars \/ Delete(v)
      /\ UNCHANGED <<prioVars, lockVars, held>>
      /\ victim' = [victim EXCEPT ![c] = NoTask]
      /\ section' = [section EXCEPT ![c] = "release"]
      /\ stale' = stale \ {c}
  BY DEF DeleteFinish
<1> HIDE DEF v
<1>3. WaitInv'
  <2>1. CASE UNCHANGED blockVars
    BY <1>2, <2>1, WaitUnchanged DEF blockVars, prioVars
  <2>2. CASE Delete(v)
    BY <1>1, <1>2, <2>2, DeletePreserves, SamePrio
  <2> QED
    BY <1>2, <2>1, <2>2
<1>4. MutexTypeOK'
  BY <1>2, <1>3 DEF WaitInv, MutexTypeOK, lockVars
<1>5. VictimsDeletable'
  BY <1>2 DEF VictimsDeletable, MutexTypeOK
<1>6. \A u \in Tasks : /\ stage'[u] = stage[u] /\ arg'[u] = arg[u]
                       /\ blockObj'[u] = blockObj[u] /\ wakeOk'[u] = wakeOk[u]
                       /\ state'[u] = "BLOCKED" => state[u] = "BLOCKED"
                       /\ u # v => state'[u] = state[u]
  BY <1>1, <1>2 DEF Delete, blockVars, WaitInv, WaitTypeOK
<1>7. \A u \in Undisturbed : AboutToPass(u)' <=> AboutToPass(u)
  BY <1>1, <1>6 DEF AboutToPass, InCall, Undisturbed
<1>8. UNCHANGED <<owner, recursive, held>>
  BY <1>2 DEF lockVars
<1>9. GoneDeletable'
  BY <1>1, <1>6 DEF GoneDeletable
<1> QED
  BY <1>3, <1>4, <1>5, <1>6, <1>7, <1>8, <1>9, QuietStep DEF Undisturbed

LEMMA DeleteCallPreserves ==
    ASSUME WaitAssumption, MutexInv, NEW c \in Tasks, NEW v \in Tasks, DeleteCall(c, v)
    PROVE  MutexInv'
<1> USE DEF MutexInv
<1>1. stage' = [stage EXCEPT ![c] = IF c = v THEN "exit" ELSE @]
  BY DEF DeleteCall
<1>2. ~InCall(c) /\ ~InCall(c)'
  BY DEF DeleteCall, Calls, Executing, InCall, WaitInv, WaitTypeOK
<1>3. state[c] # "BLOCKED"
  BY <1>2 DEF WaitInv, BlockedInCall
<1>4. WaitInv'
  <2>1. WaitTypeOK'
    BY DEF DeleteCall, WaitInv, WaitTypeOK, prioVars, Stages
  <2>2. QueueMembership' /\ LinkedOnce' /\ DelayedIsBlocked'
    BY DEF DeleteCall, WaitInv, QueueMembership, LinkedOnce, DelayedIsBlocked
  <2>3. BlockedInCall'
    BY <1>3 DEF DeleteCall, WaitInv, BlockedInCall, InCall, WaitTypeOK
  <2> QED
    BY <2>1, <2>2, <2>3 DEF WaitInv
<1>5. MutexTypeOK'
  BY <1>4 DEF WaitInv, MutexTypeOK, DeleteCall, lockVars
<1>6. VictimsDeletable'
  BY DEF VictimsDeletable, MutexTypeOK, DeleteCall
<1>7. \A u \in Tasks : u # c => (AboutToPass(u)' <=> AboutToPass(u))
  BY DEF AboutToPass, InCall, DeleteCall, WaitInv, WaitTypeOK
<1>8. ~AboutToPass(c)' /\ ~AboutToPass(c)
  BY <1>2 DEF AboutToPass, InCall
<1>9. /\ UNCHANGED <<owner, recursive, held>>
      /\ \A u \in Tasks : state'[u] = "BLOCKED" =>
             state[u] = "BLOCKED" /\ blockObj'[u] = blockObj[u] /\ arg'[u] = arg[u]
      /\ \A u \in Tasks : arg'[u] = arg[u]
  BY DEF DeleteCall, lockVars
<1>10. GoneDeletable'
  BY DEF GoneDeletable, DeleteCall
<1> QED
  BY <1>4, <1>5, <1>6, <1>7, <1>8, <1>9, <1>10, QuietStep DEF Undisturbed

LEMMA CreateTaskPreserves ==
    ASSUME WaitAssumption, MutexInv, NEW t \in Tasks, CreateTask(t)
    PROVE  MutexInv'
<1> USE DEF MutexInv
<1>1. t \in Deletable /\ t \notin Undisturbed
  BY DEF CreateTask, Create, GoneDeletable, Undisturbed
<1>2. WaitInv'
  BY CreatePreserves DEF CreateTask
<1>3. /\ UNCHANGED lockVars
      /\ victim' = [victim EXCEPT ![t] = NoTask] /\ section' = [section EXCEPT ![t] = "release"]
      /\ stale' \in SUBSET Tasks
      /\ held' = [m \in Mutexes |-> [held[m] EXCEPT ![t] = 0]]
  BY DEF CreateTask, MutexTypeOK
<1>4. MutexTypeOK'
  BY <1>2, <1>3 DEF WaitInv, MutexTypeOK, lockVars
<1>5. VictimsDeletable' /\ GoneDeletable'
  BY <1>1, <1>3 DEF VictimsDeletable, GoneDeletable, CreateTask, Create, WaitInv, WaitTypeOK,
                    MutexTypeOK
<1>6. \A u \in Tasks : u # t => /\ state'[u] = state[u] /\ stage'[u] = stage[u]
                                /\ arg'[u] = arg[u] /\ blockObj'[u] = blockObj[u]
                                /\ wakeOk'[u] = wakeOk[u]
  BY DEF CreateTask, Create, WaitInv, WaitTypeOK
<1>7. state'[t] # "BLOCKED"
  BY DEF CreateTask, Create, WaitInv, WaitTypeOK
<1>8. UNCHANGED <<owner, recursive>>
  BY <1>3 DEF lockVars
<1>9. \A u \in Undisturbed, m \in Mutexes : held'[m][u] = held[m][u]
  BY <1>1, <1>3 DEF MutexTypeOK
<1>10. \A u \in Undisturbed : /\ AboutToPass(u)' <=> AboutToPass(u)
                              /\ arg'[u] = arg[u]
  BY <1>1, <1>6 DEF AboutToPass, InCall, Undisturbed
<1> QED
  BY <1>2, <1>4, <1>5, <1>6, <1>7, <1>8, <1>9, <1>10, QuietStep

(* A kernel step: the blocking core moves, the mutexes do not.             *)
LEMMA KernelQuiet ==
    ASSUME MutexInv, WaitInv', UNCHANGED mutexVars, GoneDeletable',
           \A u \in Tasks : state'[u] = "BLOCKED" =>
               state[u] = "BLOCKED" /\ blockObj'[u] = blockObj[u],
           arg' = arg,
           \A u \in Undisturbed : AboutToPass(u)' <=> AboutToPass(u)
    PROVE  MutexInv'
<1>1. MutexTypeOK' /\ VictimsDeletable'
  BY DEF MutexInv, WaitInv, MutexTypeOK, VictimsDeletable, mutexVars, lockVars, deleteVars
<1> QED
  BY <1>1, QuietStep DEF mutexVars, lockVars

LEMMA MutexInvInit == ASSUME WaitAssumption, MutexAssumption, Init PROVE MutexInv
<1>1. WaitInv
  BY InitEstablishes DEF Init
<1>2. MutexTypeOK
  BY <1>1 DEF Init, MutexTypeOK, WaitInv, MutexAssumption, WaitAssumption
<1>3. /\ FreeUnwaited /\ FreeIsFlat /\ VictimsDeletable /\ GoneDeletable /\ ArgIsObject
  BY DEF Init, WaitInit, FreeUnwaited, FreeIsFlat, VictimsDeletable, GoneDeletable, ArgIsObject
<1>4. Agreement
  BY DEF Init, WaitInit, Agreement, HoldersAgree, PassMeansOwner, OwnerKnows, AboutToPass, InCall,
         Undisturbed, WaitAssumption
<1> QED
  BY <1>1, <1>2, <1>3, <1>4 DEF MutexInv

LEMMA KernelStepPreserves ==
    ASSUME WaitAssumption, MutexInv, KernelStep
    PROVE  MutexInv'
<1> USE DEF MutexInv
<1>1. ASSUME NEW old \in Tasks \cup {NoTask}, NEW new \in Tasks \cup {NoTask},
             Switch(old, new), UNCHANGED mutexVars
      PROVE  MutexInv'
  <2>1. WaitInv'
    BY <1>1, SwitchPreserves
  <2>2. \A u \in Tasks : /\ state'[u] = "BLOCKED" <=> state[u] = "BLOCKED"
                         /\ InCall(u)' <=> InCall(u)
                         /\ blockObj'[u] = blockObj[u] /\ wakeOk'[u] = wakeOk[u]
                         /\ state'[u] \in {"DELETED", "FREE", "TERMINATED"} =>
                                state[u] \in {"DELETED", "FREE", "TERMINATED"}
    BY <1>1 DEF Switch, WaitInv, WaitTypeOK, InCall
  <2>3. GoneDeletable' /\ arg' = arg
    BY <1>1, <2>2 DEF GoneDeletable, Switch
  <2> QED
    BY <1>1, <2>1, <2>2, <2>3, KernelQuiet DEF AboutToPass, Undisturbed
<1>2. ASSUME NEW t \in Tasks, Expire(t), UNCHANGED mutexVars PROVE MutexInv'
  <2>1. WaitInv'
    BY <1>2, ExpirePreserves
  <2>2. /\ Unblock({t}, FALSE) /\ state[t] = "BLOCKED"
        /\ \A u \in Tasks : u # t => state'[u] = state[u] /\ wakeOk'[u] = wakeOk[u]
                                     /\ blockObj'[u] = blockObj[u]
    BY <1>2 DEF Expire, Unblock, Wake
  <2>3. state'[t] = "READY" /\ ~wakeOk'[t] /\ arg' = arg /\ stage' = stage
    BY <2>2 DEF Unblock, Wake
  <2>4. GoneDeletable'
    BY <2>2, <2>3 DEF GoneDeletable
  <2> QED
    BY <1>2, <2>1, <2>2, <2>3, <2>4, KernelQuiet DEF AboutToPass, InCall, Undisturbed
<1>3. ASSUME NEW t \in Tasks, Suspend(t), UNCHANGED mutexVars PROVE MutexInv'
  <2>1. WaitInv'
    BY <1>3, SuspendPreserves
  <2>2. /\ t \notin Undisturbed /\ state'[t] = "SUSPENDED"
        /\ \A u \in Tasks : u # t => state'[u] = state[u]
        /\ UNCHANGED <<stage, arg, blockObj, wakeOk>>
    BY <1>3 DEF Suspend, Undisturbed, WaitInv, WaitTypeOK
  <2>3. GoneDeletable'
    BY <2>2 DEF GoneDeletable
  <2> QED
    BY <1>3, <2>1, <2>2, <2>3, KernelQuiet DEF AboutToPass, InCall, Undisturbed
<1>4. ASSUME NEW t \in Tasks, Resume(t), UNCHANGED mutexVars PROVE MutexInv'
  <2>1. WaitInv'
    BY <1>4, ResumePreserves
  <2>2. /\ state[t] = "SUSPENDED" /\ state'[t] = "READY"
        /\ \A u \in Tasks : u # t => state'[u] = state[u]
        /\ UNCHANGED <<stage, arg, blockObj, wakeOk>>
    BY <1>4 DEF Resume, WaitInv, WaitTypeOK
  <2>3. GoneDeletable'
    BY <2>2 DEF GoneDeletable
  <2> QED
    BY <1>4, <2>1, <2>2, <2>3, KernelQuiet DEF AboutToPass, InCall, Undisturbed
<1>5. ASSUME NEW t \in Tasks, NEW p \in 0..MaxPrio, SetPriority(t, p), UNCHANGED mutexVars
      PROVE  MutexInv'
  <2>1. WaitInv'
    BY <1>5, SetPriorityPreserves
  <2>2. UNCHANGED <<state, stage, arg, blockObj, wakeOk>>
    BY <1>5 DEF SetPriority, blockVars
  <2> QED
    BY <1>5, <2>1, <2>2, KernelQuiet DEF AboutToPass, InCall, GoneDeletable
<1> QED
  BY <1>1, <1>2, <1>3, <1>4, <1>5 DEF KernelStep

LEMMA ExitStepPreserves ==
    ASSUME WaitAssumption, MutexInv, NEW t \in Tasks, Exit(t), UNCHANGED mutexVars
    PROVE  MutexInv'
<1> USE DEF MutexInv
<1>1. WaitInv'
  BY ExitPreserves
<1>2. /\ t \in Deletable /\ t \notin Undisturbed /\ state'[t] = "TERMINATED"
      /\ \A u \in Tasks : u # t => state'[u] = state[u] /\ stage'[u] = stage[u]
      /\ UNCHANGED <<arg, blockObj, wakeOk>>
  BY DEF Exit, Undisturbed, WaitInv, WaitTypeOK
<1>3. GoneDeletable'
  BY <1>2 DEF GoneDeletable
<1> QED
  BY <1>1, <1>2, <1>3, KernelQuiet DEF AboutToPass, InCall, Undisturbed

LEMMA MutexInvStep ==
    ASSUME WaitAssumption, MutexAssumption, MutexInv, [Next]_vars
    PROVE  MutexInv'
<1>1. CASE LockStep
  BY <1>1, CreatePreservesLocks, SetCeilingPreserves, LockFreePreserves, LockAgainPreserves,
     LockBlocksPreserves, LockReturnsPreserves, UnlockOncePreserves, UnlockPreserves,
     MutexDeletePreserves DEF LockStep
<1>2. CASE DeleteStep
  BY <1>2, DeleteCallPreserves, DeleteReleasePreserves, DeleteFinishPreserves,
     CreateTaskPreserves, ExitStepPreserves DEF DeleteStep
<1>3. CASE KernelStep
  BY <1>3, KernelStepPreserves
<1>4. CASE UNCHANGED vars
  <2>1. WaitInv'
    BY <1>4, WaitUnchanged DEF MutexInv, vars, waitVars, blockVars, prioVars
  <2>2. UNCHANGED <<state, stage, arg, blockObj, wakeOk>> /\ UNCHANGED mutexVars
    BY <1>4 DEF vars, waitVars, blockVars
  <2>3. GoneDeletable'
    BY <2>2 DEF MutexInv, GoneDeletable
  <2> QED
    BY <2>1, <2>2, <2>3, KernelQuiet DEF AboutToPass, InCall
<1> QED
  BY <1>1, <1>2, <1>3, <1>4 DEF Next

LEMMA MutexInvariant == ASSUME WaitAssumption, MutexAssumption PROVE Spec => []MutexInv
<1>1. Init => MutexInv
  BY MutexInvInit
<1>2. MutexInv /\ [Next]_vars => MutexInv'
  BY MutexInvStep
<1> QED
  BY <1>1, <1>2, PTL DEF Spec

-----------------------------------------------------------------------------
(* The state of the mutexes and of the blocking core is well formed.       *)
THEOREM MutexTypeCorrect == Spec => []MutexTypeOK
<1>1. MutexInv => MutexTypeOK
  BY DEF MutexInv
<1> QED
  BY <1>1, MutexInvariant, WaitAssumption, MutexAssumption, PTL

(* Nobody waits for a mutex that nobody owns, whatever unlocks, expiries,  *)
(* suspensions and three-section deletions race for it.                    *)
THEOREM NoWaiterForgotten == Spec => []FreeHasNoWaiters
<1>1. MutexInv => FreeHasNoWaiters
  <2> SUFFICES ASSUME MutexInv, NEW m \in Mutexes, owner[m] = NoTask, waitq[m] # << >>
               PROVE  FALSE
    BY DEF FreeHasNoWaiters
  <2>1. Heir(m) \in Tasks /\ state[Heir(m)] = "BLOCKED" /\ blockObj[Heir(m)] = m
    BY WaitAssumption, HeirIsBlocked DEF MutexInv
  <2> QED
    BY <2>1 DEF MutexInv, FreeUnwaited
<1> QED
  BY <1>1, MutexInvariant, WaitAssumption, MutexAssumption, PTL

(* As long as the application deletes no mutex that is held, a task that   *)
(* nobody suspends or deletes, and whose calls told it that it holds a     *)
(* mutex, is the owner of it, at the depth it counts.                      *)
THEOREM HoldersAreOwners == ASSUME ~DeleteHeld PROVE Spec => []HoldersAgree
<1>1. MutexInv => HoldersAgree
  BY DEF MutexInv, Agreement
<1> QED
  BY <1>1, MutexInvariant, WaitAssumption, MutexAssumption, PTL

(* So no two of them believe they hold the same mutex.                     *)
MutualExclusion ==
    \A m \in Mutexes, t, u \in Undisturbed : held[m][t] > 0 /\ held[m][u] > 0 => t = u

THEOREM LockIsExclusive == ASSUME ~DeleteHeld PROVE Spec => []MutualExclusion
<1>1. HoldersAgree => MutualExclusion
  BY DEF HoldersAgree, MutualExclusion
<1> QED
  BY <1>1, HoldersAreOwners, PTL

-----------------------------------------------------------------------------
(* Chains of owners.  The edges of the waiting: each blocked task points   *)
(* to the owner of the mutex it waits for.                                 *)

Edges == [u \in Tasks |-> WaitsFor(u)]

(* Every group of tasks has one that waits for nobody of the group.        *)
Loopless(W) == \A S \in SUBSET Tasks : S # {} => \E u \in S : W[u] \notin S

Along(W, x) == IF x \in Tasks THEN W[x] ELSE NoTask

LEMMA EdgesType ==
    ASSUME WaitAssumption, MutexTypeOK
    PROVE  /\ Edges \in [Tasks -> Tasks \cup {NoTask}]
           /\ \A x \in Tasks \cup {NoTask} : WaitsFor(x) = Along(Edges, x)
<1>1. ASSUME NEW u \in Tasks PROVE WaitsFor(u) \in Tasks \cup {NoTask}
  BY DEF WaitsFor, MutexTypeOK, WaitTypeOK, Mutexes
<1> QED
  BY <1>1 DEF Edges, Along, WaitsFor, WaitAssumption

(* The recursive function the walks are written with exists.               *)
OwnerAt(f, s, i) == IF i = 0 THEN s ELSE WaitsFor(f[i - 1])
IsWalk(f, n, s) == f = [i \in 0..n |-> OwnerAt(f, s, i)]

LEMMA WalkExists ==
    ASSUME NEW n \in Nat, NEW s
    PROVE  \E f : IsWalk(f, n, s)
<1> DEFINE Given(m) == \E f : IsWalk(f, m, s)
           Bad == {m \in Nat : ~Given(m)}
<1>1. Bad = {}
  <2> SUFFICES ASSUME Bad # {} PROVE FALSE
    OBVIOUS
  <2>1. Bad \in SUBSET Nat
    OBVIOUS
  <2> HIDE DEF Bad
  <2>2. PICK m \in Bad : \A k \in Bad : m <= k
    BY <2>1, LeastNat
  <2>3. m \in Nat /\ ~Given(m)
    BY <2>1 DEF Bad
  <2>4. m # 0
    <3> DEFINE g == [i \in 0..0 |-> s]
    <3>1. IsWalk(g, 0, s)
      BY DEF OwnerAt, IsWalk
    <3> QED
      BY <2>3, <3>1
  <2>5. Given(m - 1)
    <3>1. m - 1 \in Nat /\ ~(m <= m - 1)
      BY <2>3, <2>4
    <3>2. m - 1 \notin Bad
      BY <2>2, <3>1
    <3> QED
      BY <3>1, <3>2 DEF Bad
  <2>6. PICK f : IsWalk(f, m - 1, s)
    BY <2>5
  <2> DEFINE g == [i \in 0..m |-> IF i = m THEN WaitsFor(f[m - 1]) ELSE f[i]]
  <2>7. ASSUME NEW i \in 0..m PROVE g[i] = OwnerAt(g, s, i)
    <3>1. CASE i = m
      BY <2>3, <2>4, <3>1 DEF OwnerAt
    <3>2. CASE i # m
      <4>1. i \in 0..(m - 1) /\ g[i] = f[i] /\ (i # 0 => g[i - 1] = f[i - 1])
        BY <2>3, <3>2
      <4>2. f[i] = OwnerAt(f, s, i)
        BY <2>6, <4>1 DEF IsWalk
      <4> QED
        BY <4>1, <4>2 DEF OwnerAt
    <3> QED
      BY <3>1, <3>2
  <2>8. IsWalk(g, m, s)
    BY <2>7 DEF IsWalk
  <2> HIDE DEF g
  <2> QED
    BY <2>3, <2>8
<1>2. n \notin Bad
  BY <1>1
<1> QED
  BY <1>2

(* A walk that comes back to a task would be a group in which everybody    *)
(* waits for another of it.                                                *)
LEMMA NoRepeat ==
    ASSUME NoTask \notin Tasks, NEW W \in [Tasks -> Tasks \cup {NoTask}], Loopless(W),
           NEW f, NEW a \in Nat, NEW b \in Nat, a < b, f[a] = f[b], f[b] \in Tasks,
           \A i \in (a + 1)..b : f[i] = Along(W, f[i - 1])
    PROVE  FALSE
<1>1. ASSUME NEW i \in a..b PROVE f[i] \in Tasks
  <2> DEFINE Bad == {k \in 0..(b - a) : f[b - k] \notin Tasks}
  <2> SUFFICES ASSUME Bad # {} PROVE FALSE
    <3>1. b - i \in 0..(b - a) /\ b - (b - i) = i
      OBVIOUS
    <3> QED
      BY <3>1
  <2>1. PICK k \in Bad : \A j \in Bad : k <= j
    <3>1. Bad \in SUBSET Nat
      OBVIOUS
    <3> QED
      BY <3>1, LeastNat
  <2>2. k \in 0..(b - a) /\ f[b - k] \notin Tasks
    BY <2>1
  <2>3. k # 0
    <3>1. b - 0 = b
      OBVIOUS
    <3> QED
      BY <2>2, <3>1
  <2>4. k - 1 \in 0..(b - a) /\ ~(k <= k - 1) /\ b - k + 1 \in (a + 1)..b
        /\ b - (k - 1) = b - k + 1 /\ (b - k + 1) - 1 = b - k
    BY <2>2, <2>3
  <2>5. f[b - k + 1] \in Tasks
    BY <2>1, <2>4
  <2>6. f[b - k + 1] = Along(W, f[b - k])
    BY <2>4
  <2> QED
    BY <2>2, <2>5, <2>6 DEF Along
<1> DEFINE C == {f[i] : i \in a..(b - 1)}
<1>2. C \in SUBSET Tasks /\ f[a] \in C
  <2>1. a \in a..(b - 1) /\ \A i \in a..(b - 1) : i \in a..b
    OBVIOUS
  <2> QED
    BY <1>1, <2>1
<1>3. PICK u \in C : W[u] \notin C
  BY <1>2 DEF Loopless
<1>4. PICK i \in a..(b - 1) : u = f[i]
  BY <1>3
<1>5. i + 1 \in (a + 1)..b /\ (i + 1) - 1 = i /\ (i + 1 = b \/ i + 1 \in a..(b - 1))
  BY <1>4
<1>6. f[i + 1] = Along(W, f[i])
  BY <1>5
<1>7. f[i + 1] = W[u]
  BY <1>2, <1>3, <1>4, <1>6 DEF Along
<1>8. f[i + 1] \in C
  BY <1>2, <1>5
<1> QED
  BY <1>3, <1>7, <1>8

LEMMA FewerEdges ==
    ASSUME NoTask \notin Tasks, NEW V, NEW W, Loopless(V),
           \A u \in Tasks : W[u] \in {V[u], NoTask}
    PROVE  Loopless(W)
BY DEF Loopless

(* The mutexes of F pass to heirs, who wait for nobody.                    *)
LEMMA PassedEdges ==
    ASSUME NoTask \notin Tasks, NEW V, NEW W, Loopless(V),
           \A u \in Tasks : W[u] \in {V[u], NoTask} \/ (W[u] \in Tasks /\ W[W[u]] = NoTask)
    PROVE  Loopless(W)
<1> SUFFICES ASSUME NEW S \in SUBSET Tasks, S # {}, \A u \in S : W[u] \in S PROVE FALSE
  BY DEF Loopless
<1>1. ASSUME NEW u \in S PROVE V[u] \in S
  BY <1>1
<1> QED
  BY <1>1 DEF Loopless

(* A task that may block adds one edge; the walk from its owner met every  *)
(* task that could have led back.                                          *)
LEMMA CheckedEdge ==
    ASSUME WaitAssumption, MutexAssumption, MutexTypeOK, Cardinality(Tasks) <= DetectDepth,
           Loopless(Edges), NEW t \in Tasks, NEW m \in Mutexes,
           owner[m] # t, ~WouldDeadlock(m, t),
           NEW W, \A u \in Tasks : W[u] = IF u = t THEN owner[m] ELSE Edges[u]
    PROVE  Loopless(W)
<1> SUFFICES ASSUME NEW S \in SUBSET Tasks, S # {}, \A u \in S : W[u] \in S PROVE FALSE
  BY DEF Loopless
<1>1. t \in S
  BY DEF Loopless
<1>2. owner[m] \in S \ {t}
  BY <1>1
<1>3. DetectDepth - 1 \in Nat /\ DetectDepth \in Nat \ {0}
  BY DEF MutexAssumption
<1>0. \E f : f = [i \in 0..(DetectDepth - 1) |-> OwnerAt(f, owner[m], i)]
  <2>1. PICK first : first = owner[m]
    OBVIOUS
  <2>2. PICK last \in Nat : last = DetectDepth - 1
    BY <1>3
  <2>3. \E f : IsWalk(f, last, first)
    BY WalkExists
  <2> QED
    BY <2>1, <2>2, <2>3 DEF IsWalk
<1> DEFINE walk[i \in 0..(DetectDepth - 1)] == IF i = 0 THEN owner[m] ELSE WaitsFor(walk[i - 1])
<1>4. walk = [i \in 0..(DetectDepth - 1) |-> OwnerAt(walk, owner[m], i)]
  BY <1>0 DEF OwnerAt
<1>5. \A i \in 0..(DetectDepth - 1) : walk[i] # t
  BY DEF WouldDeadlock
<1> HIDE DEF walk
<1>6. ASSUME NEW i \in 0..(DetectDepth - 1) PROVE walk[i] = IF i = 0 THEN owner[m] ELSE WaitsFor(walk[i - 1])
  BY <1>4 DEF OwnerAt
<1>7. ASSUME NEW i \in 0..(DetectDepth - 1) PROVE walk[i] \in S \ {t}
  <2> DEFINE Bad == {k \in 0..(DetectDepth - 1) : walk[k] \notin S \ {t}}
  <2> SUFFICES ASSUME Bad # {} PROVE FALSE
    OBVIOUS
  <2>1. PICK k \in Bad : \A j \in Bad : k <= j
    <3>1. Bad \in SUBSET Nat
      OBVIOUS
    <3> QED
      BY <3>1, LeastNat
  <2>2. k \in 0..(DetectDepth - 1) /\ walk[k] \notin S \ {t}
    BY <2>1
  <2>3. k # 0
    BY <1>2, <1>6, <2>2
  <2>4. k - 1 \in 0..(DetectDepth - 1) /\ ~(k <= k - 1)
    BY <1>3, <2>2, <2>3
  <2>5. walk[k - 1] \in S \ {t}
    BY <2>1, <2>4
  <2>6. walk[k] = WaitsFor(walk[k - 1])
    BY <1>6, <2>2, <2>3
  <2>7. walk[k] = W[walk[k - 1]]
    BY <2>5, <2>6 DEF Edges
  <2> QED
    BY <1>5, <2>2, <2>5, <2>7
<1>8. IsFiniteSet(S \ {t}) /\ Cardinality(S \ {t}) < DetectDepth
  <2>1. IsFiniteSet(S) /\ Cardinality(S) <= Cardinality(Tasks)
    BY FS_Subset DEF WaitAssumption
  <2>2. IsFiniteSet(S \ {t}) /\ Cardinality(S \ {t}) = Cardinality(S) - 1
    BY <1>1, <2>1, FS_RemoveElement
  <2>3. Cardinality(S) \in Nat /\ Cardinality(Tasks) \in Nat
    BY <2>1, FS_CardinalityType DEF WaitAssumption
  <2> QED
    BY <1>3, <2>1, <2>2, <2>3
<1>9. IsFiniteSet(0..(DetectDepth - 1)) /\ Cardinality(0..(DetectDepth - 1)) = DetectDepth
  <2>1. 0 \in Int /\ DetectDepth - 1 \in Int /\ ~(0 > DetectDepth - 1)
    BY <1>3
  <2>2. /\ IsFiniteSet(0..(DetectDepth - 1))
        /\ Cardinality(0..(DetectDepth - 1)) = IF 0 > DetectDepth - 1 THEN 0 ELSE (DetectDepth - 1) - 0 + 1
    BY <2>1, FS_Interval
  <2> QED
    BY <1>3, <2>1, <2>2
<1>10. walk \in [0..(DetectDepth - 1) -> S \ {t}]
  BY <1>4, <1>7
<1>11. PICK x, y \in 0..(DetectDepth - 1) : x # y /\ walk[x] = walk[y]
  BY <1>8, <1>9, <1>10, FS_PigeonHole
<1>12. ASSUME NEW a \in 0..(DetectDepth - 1), NEW b \in 0..(DetectDepth - 1), a < b, walk[a] = walk[b]
       PROVE  FALSE
  <2>1. ASSUME NEW i \in (a + 1)..b PROVE walk[i] = Along(Edges, walk[i - 1])
    <3>1. i \in 0..(DetectDepth - 1) /\ i # 0 /\ i - 1 \in 0..(DetectDepth - 1)
      BY <1>3
    <3>2. walk[i] = WaitsFor(walk[i - 1]) /\ walk[i - 1] \in Tasks
      BY <1>6, <1>7, <3>1
    <3> QED
      BY <3>2, EdgesType
  <2>2. walk[b] \in Tasks /\ a \in Nat /\ b \in Nat
    BY <1>7
  <2>3. Edges \in [Tasks -> Tasks \cup {NoTask}] /\ NoTask \notin Tasks
    BY EdgesType DEF WaitAssumption
  <2> QED
    BY <1>12, <2>1, <2>2, <2>3, NoRepeat
<1>13. x < y \/ y < x
  BY <1>11
<1> QED
  BY <1>11, <1>12, <1>13

(* The invariant gives what mutex_would_deadlock promises.                 *)
LEMMA LooplessMeansNoCycle ==
    ASSUME WaitAssumption, MutexTypeOK, Loopless(Edges)
    PROVE  NoWaitCycle
<1> SUFFICES ASSUME NEW t \in Tasks
             PROVE  LET walk[i \in 0..Cardinality(Tasks)] ==
                            IF i = 0 THEN t ELSE WaitsFor(walk[i - 1])
                    IN  \A i \in 1..Cardinality(Tasks) : walk[i] # t
  BY DEF NoWaitCycle
<1> DEFINE n == Cardinality(Tasks)
           walk[i \in 0..n] == IF i = 0 THEN t ELSE WaitsFor(walk[i - 1])
<1>1. n \in Nat
  BY FS_CardinalityType DEF WaitAssumption
<1>2. walk = [i \in 0..n |-> OwnerAt(walk, t, i)]
  <2>1. \E f : f = [i \in 0..n |-> OwnerAt(f, t, i)]
    BY <1>1, WalkExists DEF IsWalk
  <2> QED
    BY <2>1 DEF OwnerAt
<1> SUFFICES ASSUME NEW b \in 1..n, walk[b] = t PROVE FALSE
  OBVIOUS
<1> HIDE DEF walk, n
<1>3. ASSUME NEW i \in 0..n PROVE walk[i] = IF i = 0 THEN t ELSE WaitsFor(walk[i - 1])
  BY <1>2 DEF OwnerAt
<1>4. ASSUME NEW i \in 0..n PROVE walk[i] \in Tasks \cup {NoTask}
  <2> DEFINE Bad == {k \in 0..n : walk[k] \notin Tasks \cup {NoTask}}
  <2> SUFFICES ASSUME Bad # {} PROVE FALSE
    OBVIOUS
  <2>1. PICK k \in Bad : \A j \in Bad : k <= j
    <3>1. Bad \in SUBSET Nat
      OBVIOUS
    <3> QED
      BY <3>1, LeastNat
  <2>2. k \in 0..n /\ walk[k] \notin Tasks \cup {NoTask}
    BY <2>1
  <2>3. k # 0
    BY <1>3, <2>2
  <2>4. k - 1 \in 0..n /\ ~(k <= k - 1)
    BY <1>1, <2>2, <2>3
  <2>5. walk[k - 1] \in Tasks \cup {NoTask}
    BY <2>1, <2>4
  <2>6. walk[k] = WaitsFor(walk[k - 1])
    BY <1>3, <2>2, <2>3
  <2>7. Along(Edges, walk[k - 1]) \in Tasks \cup {NoTask}
    BY <2>5, EdgesType DEF Along
  <2> QED
    BY <2>2, <2>5, <2>6, <2>7, EdgesType
<1>5. ASSUME NEW i \in (0 + 1)..b PROVE walk[i] = Along(Edges, walk[i - 1])
  <2>1. i \in 0..n /\ i # 0 /\ i - 1 \in 0..n
    BY <1>1
  <2>2. walk[i] = WaitsFor(walk[i - 1]) /\ walk[i - 1] \in Tasks \cup {NoTask}
    BY <1>3, <1>4, <2>1
  <2> QED
    BY <2>2, EdgesType
<1>6. 0 \in Nat /\ b \in Nat /\ 0 < b /\ walk[0] = walk[b] /\ walk[b] \in Tasks
  BY <1>1, <1>3
<1>7. Edges \in [Tasks -> Tasks \cup {NoTask}] /\ NoTask \notin Tasks
  BY EdgesType DEF WaitAssumption
<1> QED
  BY <1>5, <1>6, <1>7, NoRepeat

-----------------------------------------------------------------------------
(* What each step does to the edges.                                       *)

LEMMA EdgesAre ==
    ASSUME WaitAssumption
    PROVE  /\ \A u \in Tasks : Edges[u] =
                  IF state[u] = "BLOCKED" /\ blockObj[u] # NoQueue THEN owner[blockObj[u]] ELSE NoTask
           /\ \A u \in Tasks : Edges'[u] =
                  IF state'[u] = "BLOCKED" /\ blockObj'[u] # NoQueue THEN owner'[blockObj'[u]] ELSE NoTask
BY DEF Edges, WaitsFor, WaitAssumption

(* A step after which nobody waits who did not wait before.                *)
LEMMA QuietEdges ==
    ASSUME WaitAssumption, Loopless(Edges),
           \A u \in Tasks : state'[u] = "BLOCKED" =>
              /\ state[u] = "BLOCKED" /\ blockObj'[u] = blockObj[u]
              /\ blockObj[u] # NoQueue => owner'[blockObj[u]] \in {owner[blockObj[u]], NoTask}
    PROVE  Loopless(Edges)'
<1>1. PICK V : V = Edges
  OBVIOUS
<1>2. PICK W : W = Edges'
  OBVIOUS
<1>3. \A u \in Tasks : W[u] \in {V[u], NoTask}
  BY <1>1, <1>2, EdgesAre
<1>4. Loopless(V)
  BY <1>1
<1>5. Loopless(W)
  BY <1>3, <1>4, FewerEdges DEF WaitAssumption
<1> QED
  BY <1>2, <1>5 DEF Loopless

LEMMA BlockEdges ==
    ASSUME WaitAssumption, MutexAssumption, Cardinality(Tasks) <= DetectDepth,
           MutexInv, Loopless(Edges),
           NEW t \in Tasks, NEW m \in Mutexes, NEW d \in Timeouts, LockBlocks(t, m, d)
    PROVE  Loopless(Edges)'
<1>1. PICK W : W = Edges'
  OBVIOUS
<1>2. /\ state' = [state EXCEPT ![t] = "BLOCKED"] /\ blockObj' = [blockObj EXCEPT ![t] = m]
      /\ owner' = owner /\ owner[m] # t /\ ~WouldDeadlock(m, t) /\ m # NoQueue
  BY DEF LockBlocks, Block, mutexVars, lockVars, Mutexes, WaitAssumption
<1>3. MutexTypeOK /\ state \in [Tasks -> TaskStates] /\ blockObj \in [Tasks -> Queues \cup {NoQueue}]
  BY DEF MutexInv, MutexTypeOK, WaitTypeOK
<1>4. \A u \in Tasks : W[u] = IF u = t THEN owner[m] ELSE Edges[u]
  BY <1>1, <1>2, <1>3, EdgesAre
<1>5. Loopless(W)
  BY <1>2, <1>3, <1>4, CheckedEdge
<1> QED
  BY <1>1, <1>5 DEF Loopless

LEMMA HandOverEdges ==
    ASSUME WaitAssumption, MutexInv, Loopless(Edges),
           NEW F \in SUBSET Mutexes, HandOver(F)
    PROVE  Loopless(Edges)'
<1>1. PICK V : V = Edges
  OBVIOUS
<1>2. PICK W : W = Edges'
  OBVIOUS
<1>3. \A m \in Mutexes : Heir(m) = NoTask \/ (Heir(m) \in Tasks /\ state[Heir(m)] = "BLOCKED")
  BY HeirIsBlocked DEF MutexInv
<1>4. ASSUME NEW u \in Tasks
      PROVE  /\ state'[u] = "BLOCKED" => state[u] = "BLOCKED" /\ blockObj'[u] = blockObj[u]
             /\ u \in Heirs(F) => state'[u] # "BLOCKED"
  BY <1>3 DEF HandOver, Unblock, Wake, Heirs
<1>5. \A m \in Mutexes : owner'[m] = IF m \in F THEN Heir(m) ELSE owner[m]
  BY DEF HandOver
<1>6. \A u \in Tasks : blockObj[u] = NoQueue \/ blockObj[u] \in Mutexes
  BY DEF MutexInv, MutexTypeOK, WaitTypeOK, Mutexes
<1>7. ASSUME NEW u \in Tasks
      PROVE  W[u] \in {V[u], NoTask} \/ (W[u] \in Tasks /\ W[W[u]] = NoTask)
  <2>1. CASE state'[u] # "BLOCKED" \/ blockObj'[u] = NoQueue
    BY <1>2, <2>1, EdgesAre
  <2>2. CASE state'[u] = "BLOCKED" /\ blockObj'[u] # NoQueue
    <3>1. /\ state[u] = "BLOCKED" /\ blockObj'[u] = blockObj[u] /\ blockObj[u] \in Mutexes
      BY <1>4, <1>6, <2>2
    <3>2. W[u] = owner'[blockObj[u]] /\ V[u] = owner[blockObj[u]]
      BY <1>1, <1>2, <2>2, <3>1, EdgesAre
    <3>3. CASE blockObj[u] \notin F
      BY <1>5, <3>1, <3>2, <3>3
    <3>4. CASE blockObj[u] \in F /\ Heir(blockObj[u]) = NoTask
      BY <1>5, <3>1, <3>2, <3>4
    <3>5. CASE blockObj[u] \in F /\ Heir(blockObj[u]) # NoTask
      <4>1. W[u] = Heir(blockObj[u]) /\ W[u] \in Tasks
        BY <1>3, <1>5, <3>1, <3>2, <3>5
      <4>2. W[u] \in Heirs(F)
        BY <3>5, <4>1 DEF Heirs
      <4>3. state'[W[u]] # "BLOCKED"
        BY <1>4, <4>1, <4>2
      <4> QED
        BY <1>2, <4>1, <4>3, EdgesAre
    <3> QED
      BY <3>3, <3>4, <3>5
  <2> QED
    BY <2>1, <2>2
<1>8. Loopless(V)
  BY <1>1
<1>9. Loopless(W)
  BY <1>7, <1>8, PassedEdges DEF WaitAssumption
<1> QED
  BY <1>2, <1>9 DEF Loopless

LEMMA LockStepEdges ==
    ASSUME WaitAssumption, MutexAssumption, Cardinality(Tasks) <= DetectDepth,
           MutexInv, Loopless(Edges), LockStep
    PROVE  Loopless(Edges)'
<1>0. owner \in [Mutexes -> Tasks \cup {NoTask}] /\ \A u \in Tasks : blockObj[u] = NoQueue \/ blockObj[u] \in Mutexes
  BY DEF MutexInv, MutexTypeOK, WaitTypeOK, Mutexes
<1>1. CASE UNCHANGED <<state, blockObj, owner>>
  BY <1>1, QuietEdges
<1>2. ASSUME NEW t \in Tasks, NEW m \in Mutexes, LockFree(t, m) PROVE Loopless(Edges)'
  <2>1. UNCHANGED <<state, blockObj>> /\ owner' = [owner EXCEPT ![m] = t] /\ owner[m] = NoTask
    BY <1>2 DEF LockFree, blockVars
  <2>2. \A u \in Tasks : state[u] = "BLOCKED" => blockObj[u] # m
    BY <2>1 DEF MutexInv, FreeUnwaited
  <2> QED
    BY <1>0, <2>1, <2>2, QuietEdges
<1>3. ASSUME NEW t \in Tasks, NEW m \in Mutexes, MutexDelete(t, m) PROVE Loopless(Edges)'
  <2>1. owner' = [owner EXCEPT ![m] = NoTask]
    BY <1>3 DEF MutexDelete
  <2>2. \A u \in Tasks : state'[u] = "BLOCKED" => state[u] = "BLOCKED" /\ blockObj'[u] = blockObj[u]
    BY <1>3 DEF MutexDelete, WakeAll, Unblock, Wake
  <2> QED
    BY <1>0, <2>1, <2>2, QuietEdges
<1>4. ASSUME NEW t \in Tasks, NEW m \in Mutexes, Unlock(t, m) PROVE Loopless(Edges)'
  <2>1. HandOver({m}) /\ {m} \in SUBSET Mutexes
    BY <1>4 DEF Unlock
  <2> QED
    BY <2>1, HandOverEdges
<1>5. ASSUME NEW m \in Mutexes, MutexCreate(m) \/ \E p \in Ceilings : SetCeiling(m, p)
      PROVE  Loopless(Edges)'
  BY <1>1, <1>5 DEF MutexCreate, SetCeiling, waitVars, blockVars
<1>6. ASSUME NEW t \in Tasks, NEW m \in Mutexes, LockAgain(t, m) \/ UnlockOnce(t, m)
      PROVE  Loopless(Edges)'
  BY <1>1, <1>6 DEF LockAgain, UnlockOnce, waitVars, blockVars
<1>7. ASSUME NEW t \in Tasks, LockReturns(t) PROVE Loopless(Edges)'
  BY <1>1, <1>7 DEF LockReturns, LeaveCall, lockVars
<1> QED
  BY <1>2, <1>3, <1>4, <1>5, <1>6, <1>7, BlockEdges DEF LockStep

LEMMA OtherStepEdges ==
    ASSUME WaitAssumption, MutexAssumption, MutexInv, Loopless(Edges), DeleteStep \/ KernelStep
    PROVE  Loopless(Edges)'
<1>1. ASSUME UNCHANGED owner,
             \A u \in Tasks : state'[u] = "BLOCKED" => state[u] = "BLOCKED" /\ blockObj'[u] = blockObj[u]
      PROVE  Loopless(Edges)'
  BY <1>1, QuietEdges
<1>2. state \in [Tasks -> TaskStates] /\ blockObj \in [Tasks -> Queues \cup {NoQueue}]
  BY DEF MutexInv, MutexTypeOK, WaitTypeOK
<1>3. ASSUME NEW c \in Tasks, DeleteRelease(c) PROVE Loopless(Edges)'
  <2>1. PICK F \in SUBSET Mutexes : HandOver(F)
    BY <1>3 DEF DeleteRelease, Owned, MutexAssumption
  <2> QED
    BY <2>1, HandOverEdges
<1>4. ASSUME NEW c \in Tasks, DeleteFinish(c) PROVE Loopless(Edges)'
  <2>1. UNCHANGED owner /\ (UNCHANGED blockVars \/ Delete(victim[c]))
    BY <1>4 DEF DeleteFinish, lockVars
  <2> QED
    BY <1>1, <1>2, <2>1 DEF Delete, blockVars
<1>5. ASSUME NEW t \in Tasks, CreateTask(t) \/ (Exit(t) /\ UNCHANGED mutexVars) PROVE Loopless(Edges)'
  BY <1>1, <1>2, <1>5 DEF CreateTask, Create, Exit, lockVars, mutexVars
<1>6. ASSUME NEW c \in Tasks, NEW v \in Tasks, DeleteCall(c, v) PROVE Loopless(Edges)'
  BY <1>1, <1>6 DEF DeleteCall, lockVars
<1>7. CASE KernelStep
  <2>1. UNCHANGED owner
    BY <1>7 DEF KernelStep, mutexVars, lockVars
  <2>2. ASSUME NEW old \in Tasks \cup {NoTask}, NEW new \in Tasks \cup {NoTask}, Switch(old, new)
        PROVE  Loopless(Edges)'
    BY <1>1, <1>2, <2>1, <2>2 DEF Switch
  <2>3. ASSUME NEW t \in Tasks, Expire(t) PROVE Loopless(Edges)'
    BY <1>1, <2>1, <2>3 DEF Expire, Unblock, Wake
  <2>4. ASSUME NEW t \in Tasks, Suspend(t) \/ Resume(t) PROVE Loopless(Edges)'
    BY <1>1, <1>2, <2>1, <2>4 DEF Suspend, Resume
  <2>5. ASSUME NEW t \in Tasks, NEW p \in 0..MaxPrio, SetPriority(t, p) PROVE Loopless(Edges)'
    BY <1>1, <2>1, <2>5 DEF SetPriority, blockVars
  <2> QED
    BY <1>7, <2>2, <2>3, <2>4, <2>5 DEF KernelStep
<1> QED
  BY <1>3, <1>4, <1>5, <1>6, <1>7 DEF DeleteStep

(* If mutex_would_deadlock looks at as many owners as there are tasks, no  *)
(* tasks ever wait for each other in a cycle, however locks, hand-overs,   *)
(* expiries, suspensions and forced releases interleave.  (The walk of the *)
(* code ends after 16; its comment says that longer chains may be missed.) *)
THEOREM OwnersNeverLoop ==
    ASSUME Cardinality(Tasks) <= DetectDepth PROVE Spec => []NoWaitCycle
<1> DEFINE ChainInv == MutexInv /\ Loopless(Edges)
<1>1. Init => ChainInv
  <2> SUFFICES ASSUME Init PROVE ChainInv
    OBVIOUS
  <2>1. MutexInv
    BY MutexInvInit, WaitAssumption, MutexAssumption
  <2>2. \A u \in Tasks : Edges[u] = NoTask
    BY EdgesAre, WaitAssumption DEF Init, WaitInit
  <2>3. Loopless(Edges)
    BY <2>2, WaitAssumption DEF Loopless, WaitAssumption
  <2> QED
    BY <2>1, <2>3
<1>2. ChainInv /\ [Next]_vars => ChainInv'
  <2> SUFFICES ASSUME MutexInv, Loopless(Edges), [Next]_vars PROVE MutexInv' /\ Loopless(Edges)'
    OBVIOUS
  <2>1. MutexInv'
    BY MutexInvStep, WaitAssumption, MutexAssumption
  <2>2. CASE LockStep
    BY <2>1, <2>2, LockStepEdges, WaitAssumption, MutexAssumption
  <2>3. CASE DeleteStep \/ KernelStep
    BY <2>1, <2>3, OtherStepEdges, WaitAssumption, MutexAssumption
  <2>4. CASE UNCHANGED vars
    <3>1. UNCHANGED <<state, blockObj, owner>>
      BY <2>4 DEF vars, waitVars, blockVars, mutexVars, lockVars
    <3> QED
      BY <2>1, <3>1, QuietEdges, WaitAssumption
  <2> QED
    BY <2>2, <2>3, <2>4 DEF Next
<1>3. ChainInv => NoWaitCycle
  BY LooplessMeansNoCycle, WaitAssumption DEF MutexInv
<1> QED
  BY <1>1, <1>2, <1>3, PTL DEF Spec

-----------------------------------------------------------------------------
(* Priorities.  A single mutex, whose owner keeps no second boost; tasks   *)
(* are suspended and time out, but nobody else changes their priority.     *)
OneLock == /\ \A m, n \in Mutexes : m = n
           /\ Reprioritized = {} /\ Deletable = {} /\ ~DeleteHeld

Covers(m) ==
    owner[m] # NoTask =>
        /\ kind[m] = "pi" => \A t \in Tasks : InList(waitq[m], t) => prio[owner[m]] >= prio[t]
        /\ kind[m] = "dpcp" => prio[owner[m]] >= ceiling[m]

(* What is known of a mutex: who owns it does not wait for it, a ceiling   *)
(* is applied while it is owned, and the priority to go back to is kept.   *)
LockKnows(m) ==
    /\ owner[m] # NoTask => kind[m] # "none" /\ ~InList(waitq[m], owner[m])
    /\ applied[m] <=> kind[m] = "dpcp" /\ owner[m] # NoTask
    /\ applied[m] => saved[m] = CreationPrio[owner[m]]

Unboosted == \A t \in Tasks : (\A m \in Mutexes : owner[m] # t) => prio[t] = CreationPrio[t]

PrioInv ==
    /\ MutexInv /\ basePrio = CreationPrio /\ Unboosted
    /\ \A m \in Mutexes : Ordered(waitq[m]) /\ LockKnows(m) /\ Covers(m)

LEMMA PrioInvGives == ASSUME PrioInv PROVE OwnerCovers /\ BoostEnds
<1>1. OwnerCovers
  BY DEF PrioInv, OwnerCovers, Covers
<1>2. BoostEnds
  BY DEF PrioInv, BoostEnds, Unboosted, Undisturbed
<1> QED
  BY <1>1, <1>2

LEMMA PrioTypes ==
    ASSUME WaitAssumption, MutexInv
    PROVE  /\ prio \in [Tasks -> 0..MaxPrio] /\ owner \in [Mutexes -> Tasks \cup {NoTask}]
           /\ saved \in [Mutexes -> 0..MaxPrio] /\ ceiling \in [Mutexes -> 0..MaxPrio]
           /\ applied \in [Mutexes -> BOOLEAN] /\ kind \in [Mutexes -> {"none", "pi", "dpcp"}]
           /\ \A m \in Mutexes : waitq[m] \in Seq(Tasks) /\ Once(waitq[m])
           /\ waitq \in [Mutexes -> Seq(Tasks)]
           /\ \A t \in Tasks : CreationPrio[t] \in 0..MaxPrio
           /\ NoTask \notin Tasks /\ MaxPrio \in Nat /\ 0..MaxPrio \subseteq Int
BY DEF MutexInv, MutexTypeOK, WaitInv, WaitTypeOK, LinkedOnce, Once, Mutexes, WaitAssumption

(* Who waits for the mutex has the priority he was created with.           *)
LEMMA WaitersUnboosted ==
    ASSUME WaitAssumption, OneLock, PrioInv, NEW m \in Mutexes
    PROVE  /\ \A t \in Tasks : InList(waitq[m], t) => t # owner[m] /\ prio[t] = CreationPrio[t]
           /\ \A i \in 1..Len(waitq[m]) : prio[waitq[m][i]] = CreationPrio[waitq[m][i]]
<1>1. ASSUME NEW t \in Tasks, InList(waitq[m], t) PROVE t # owner[m] /\ prio[t] = CreationPrio[t]
  <2>1. t # owner[m]
    BY <1>1 DEF PrioInv, LockKnows, WaitAssumption
  <2>2. \A n \in Mutexes : owner[n] # t
    BY <2>1 DEF OneLock
  <2> QED
    BY <2>1, <2>2 DEF PrioInv, Unboosted
<1>2. \A i \in 1..Len(waitq[m]) : waitq[m][i] \in Tasks /\ InList(waitq[m], waitq[m][i])
  <2>1. waitq[m] \in Seq(Tasks)
    BY PrioTypes DEF PrioInv
  <2> QED
    BY <2>1 DEF InList
<1> QED
  BY <1>1, <1>2

(* Waiters may leave, and nothing else happens.                            *)
LEMMA QuietPrio ==
    ASSUME PrioInv, MutexInv', UNCHANGED <<prio, basePrio, kind, owner, ceiling, saved, applied>>,
           \A m \in Mutexes : Ordered(waitq'[m]),
           \A m \in Mutexes, t \in Tasks : InList(waitq'[m], t) => InList(waitq[m], t)
    PROVE  PrioInv'
<1>1. Unboosted'
  BY DEF PrioInv, Unboosted
<1>2. \A m \in Mutexes : owner[m] # NoTask => owner[m] \in Tasks
  BY DEF PrioInv, MutexInv, MutexTypeOK
<1>3. ASSUME NEW m \in Mutexes PROVE LockKnows(m)'
  BY <1>2 DEF PrioInv, LockKnows
<1>4. ASSUME NEW m \in Mutexes PROVE Covers(m)'
  BY DEF PrioInv, Covers
<1> QED
  BY <1>1, <1>3, <1>4 DEF PrioInv, Ordered

(* A free mutex is created, given a ceiling or deleted.                    *)
LEMMA FreeLockPrio ==
    ASSUME WaitAssumption, OneLock, PrioInv, MutexInv', NEW m \in Mutexes,
           MutexCreate(m) \/ (\E p \in Ceilings : SetCeiling(m, p))
                          \/ (\E t \in Tasks : MutexDelete(t, m))
    PROVE  PrioInv'
<1>0. \A n \in Mutexes : n = m
  BY DEF OneLock
<1>1. owner[m] = NoTask
  <2>1. CASE MutexCreate(m)
    BY <2>1 DEF MutexCreate, PrioInv, LockKnows
  <2>2. CASE \E p \in Ceilings : SetCeiling(m, p)
    BY <2>2 DEF SetCeiling
  <2>3. CASE \E t \in Tasks : MutexDelete(t, m)
    BY <2>3 DEF MutexDelete, OneLock
  <2> QED
    BY <2>1, <2>2, <2>3
<1>2. /\ owner'[m] = NoTask /\ ~applied'[m] /\ Ordered(waitq'[m])
      /\ prio' = prio /\ basePrio' = basePrio
  <2>0. /\ owner \in [Mutexes -> Tasks \cup {NoTask}] /\ applied \in [Mutexes -> BOOLEAN]
        /\ waitq \in [Mutexes -> Seq(Tasks)] /\ Ordered(waitq[m]) /\ Ordered(<< >>) /\ ~applied[m]
    BY <1>1, PrioTypes, EmptyIsOrdered DEF PrioInv, LockKnows
  <2>1. CASE MutexCreate(m)
    BY <1>1, <2>0, <2>1 DEF MutexCreate, waitVars, blockVars, prioVars
  <2>2. CASE \E p \in Ceilings : SetCeiling(m, p)
    BY <1>1, <2>0, <2>2 DEF SetCeiling, waitVars, blockVars, prioVars
  <2>3. CASE \E t \in Tasks : MutexDelete(t, m)
    BY <2>0, <2>3 DEF MutexDelete, WakeAll, prioVars
  <2> QED
    BY <2>1, <2>2, <2>3
<1>3. Unboosted'
  BY <1>0, <1>1, <1>2 DEF PrioInv, Unboosted
<1>4. LockKnows(m)' /\ Covers(m)'
  BY <1>2 DEF LockKnows, Covers
<1> QED
  BY <1>0, <1>2, <1>3, <1>4 DEF PrioInv, Ordered

LEMMA LockFreePrio ==
    ASSUME WaitAssumption, OneLock, PrioInv, MutexInv', NEW t \in Tasks, NEW m \in Mutexes, LockFree(t, m)
    PROVE  PrioInv'
<1>0. (\A n \in Mutexes : n = m) /\ MutexInv
  BY DEF OneLock, PrioInv
<1>1. /\ owner[m] = NoTask /\ kind[m] # "none" /\ ~applied[m] /\ prio[t] = CreationPrio[t]
      /\ \A u \in Tasks : ~InList(waitq[m], u)
  <2>1. owner[m] = NoTask /\ kind[m] # "none"
    BY DEF LockFree
  <2>2. ~applied[m]
    BY <2>1 DEF PrioInv, LockKnows
  <2>3. prio[t] = CreationPrio[t]
    BY <1>0, <2>1 DEF PrioInv, Unboosted, WaitAssumption
  <2>4. \A u \in Tasks : ~InList(waitq[m], u)
    BY <2>1 DEF PrioInv, MutexInv, FreeUnwaited, WaitInv, QueueMembership, Mutexes
  <2> QED
    BY <2>1, <2>2, <2>3, <2>4
<1>2. /\ prio \in [Tasks -> 0..MaxPrio] /\ CreationPrio[t] \in 0..MaxPrio /\ t # NoTask
      /\ saved \in [Mutexes -> 0..MaxPrio] /\ ceiling[m] \in 0..MaxPrio /\ 0..MaxPrio \subseteq Int
      /\ applied \in [Mutexes -> BOOLEAN] /\ owner \in [Mutexes -> Tasks \cup {NoTask}]
  BY <1>0, PrioTypes
<1>3. /\ owner'[m] = t /\ waitq' = waitq /\ basePrio' = basePrio /\ kind' = kind /\ ceiling' = ceiling
  BY <1>2 DEF LockFree, blockVars
<1>4. /\ \A u \in Tasks \ {t} : prio'[u] = prio[u]
      /\ kind[m] = "dpcp" => applied'[m] /\ saved'[m] = prio[t] /\ prio'[t] >= ceiling[m]
      /\ kind[m] # "dpcp" => ~applied'[m] /\ prio' = prio
  <2>1. CASE kind[m] = "dpcp"
    <3>1. ApplyCeiling(m, t, prio)
      BY <1>1, <2>1 DEF LockFree
    <3> QED
      BY <1>2, <2>1, <3>1 DEF ApplyCeiling, Raise
  <2>2. CASE kind[m] # "dpcp"
    BY <1>1, <2>2 DEF LockFree
  <2> QED
    BY <2>1, <2>2
<1>5. Unboosted'
  <2> SUFFICES ASSUME NEW u \in Tasks, owner'[m] # u PROVE prio'[u] = CreationPrio[u]
    BY DEF Unboosted
  <2>1. \A n \in Mutexes : owner[n] # u
    BY <1>0, <1>1 DEF WaitAssumption
  <2> QED
    BY <1>3, <1>4, <2>1 DEF PrioInv, Unboosted
<1>6. LockKnows(m)' /\ Covers(m)'
  BY <1>1, <1>2, <1>3, <1>4 DEF LockKnows, Covers
<1> QED
  BY <1>0, <1>3, <1>5, <1>6 DEF PrioInv, Ordered

(* Who makes a call is in no queue.                                        *)
LEMMA BlockedIsNotCalling ==
    ASSUME MutexInv, NEW t \in Tasks, NEW m \in Mutexes, Calls(t) PROVE ~InList(waitq[m], t)
BY DEF MutexInv, WaitInv, QueueMembership, BlockedInCall, InCall, Calls, Executing, Mutexes

(* The newcomer's priority is inherited before he is queued.               *)
LEMMA LockBlocksPrio ==
    ASSUME WaitAssumption, OneLock, PrioInv, MutexInv', NEW t \in Tasks, NEW m \in Mutexes,
           NEW d \in Timeouts, LockBlocks(t, m, d)
    PROVE  PrioInv'
<1>0. (\A n \in Mutexes : n = m) /\ MutexInv
  BY DEF OneLock, PrioInv
<1>1. /\ prio \in [Tasks -> 0..MaxPrio] /\ owner[m] \in Tasks \cup {NoTask} /\ NoTask \notin Tasks
      /\ 0..MaxPrio \subseteq Int /\ waitq[m] \in Seq(Tasks) /\ ceiling[m] \in 0..MaxPrio
      /\ waitq \in [Mutexes -> Seq(Tasks)] /\ Once(waitq[m])
  BY <1>0, PrioTypes
<1>2. /\ owner[m] \in Tasks /\ owner[m] # t /\ prio' = Inherit(m, prio[t]) /\ basePrio' = basePrio
      /\ UNCHANGED <<kind, owner, ceiling, saved, applied>>
  BY <1>1 DEF LockBlocks, mutexVars, lockVars
<1>3. waitq'[m] = WaitListAdd(waitq[m], t)
  BY <1>1 DEF LockBlocks, Block, Mutexes
<1>4. prio[t] = CreationPrio[t]
  BY <1>0, <1>2 DEF PrioInv, Unboosted
<1>5. Ordered(waitq'[m])
  <2>1. WaitTypeOK
    BY <1>0 DEF MutexInv, WaitInv
  <2>2. \A i \in 1..Len(waitq[m]) : prio[waitq[m][i]] = CreationPrio[waitq[m][i]]
    BY WaitersUnboosted
  <2> QED
    BY <1>1, <1>3, <1>4, <2>1, <2>2, AddKeepsOrder DEF PrioInv
<1>6. \A u \in Tasks : InList(waitq'[m], u) <=> u = t \/ InList(waitq[m], u)
  <2>1. ~InList(waitq[m], t)
    BY <1>0, BlockedIsNotCalling DEF LockBlocks
  <2>2. WaitTypeOK
    BY <1>0 DEF MutexInv, WaitInv
  <2>3. \A u \in Tasks : InList(WaitListAdd(waitq[m], t), u) <=> u = t \/ InList(waitq[m], u)
    BY <1>1, <2>1, <2>2, WaitListAddLemma
  <2> QED
    BY <1>3, <2>3
<1>7. /\ \A u \in Tasks \ {owner[m]} : prio'[u] = prio[u]
      /\ prio'[owner[m]] \in Int /\ prio'[owner[m]] >= prio[owner[m]]
      /\ kind[m] = "pi" => prio'[owner[m]] >= prio[t]
  BY <1>1, <1>2 DEF Inherit, Raise
<1>8. Unboosted'
  <2> SUFFICES ASSUME NEW u \in Tasks, owner[m] # u PROVE prio'[u] = CreationPrio[u]
    BY <1>2 DEF Unboosted
  <2> QED
    BY <1>0, <1>7 DEF PrioInv, Unboosted
<1>9. LockKnows(m)'
  <2>1. ~InList(waitq'[m], owner[m])
    BY <1>1, <1>2, <1>6 DEF PrioInv, LockKnows
  <2> QED
    BY <1>2, <2>1 DEF PrioInv, LockKnows
<1>10. Covers(m)'
  <2>1. ASSUME kind[m] = "pi", NEW u \in Tasks, InList(waitq'[m], u) PROVE prio'[owner[m]] >= prio'[u]
    <3>1. u # owner[m] /\ prio'[u] = prio[u] /\ prio[u] \in Int /\ prio[owner[m]] \in Int
      <4>1. u # owner[m]
        BY <1>2, <1>6, <2>1, WaitersUnboosted
      <4> QED
        BY <1>1, <1>2, <1>7, <4>1
    <3>2. CASE u = t
      BY <1>7, <2>1, <3>1, <3>2
    <3>3. CASE u # t
      <4>1. prio[owner[m]] >= prio[u]
        BY <1>1, <1>2, <1>6, <2>1, <3>3 DEF PrioInv, Covers
      <4> QED
        BY <1>7, <3>1, <4>1
    <3> QED
      BY <3>2, <3>3
  <2>2. ASSUME kind[m] = "dpcp" PROVE prio'[owner[m]] >= ceiling[m]
    <3>1. prio[owner[m]] >= ceiling[m] /\ prio[owner[m]] \in Int /\ ceiling[m] \in Int
      BY <1>1, <1>2, <2>2 DEF PrioInv, Covers
    <3> QED
      BY <1>7, <3>1
  <2> QED
    BY <1>2, <2>1, <2>2 DEF Covers
<1> QED
  BY <1>0, <1>2, <1>5, <1>8, <1>9, <1>10 DEF PrioInv, Ordered

(* Unlock: the owner is back where it was, and the heir, the first of the  *)
(* waiters, is at least as urgent as those behind it.                      *)
LEMMA UnlockPrio ==
    ASSUME WaitAssumption, OneLock, PrioInv, MutexInv', NEW t \in Tasks, NEW m \in Mutexes, Unlock(t, m)
    PROVE  PrioInv'
<1>0. (\A n \in Mutexes : n = m) /\ MutexInv /\ owner[m] = t
  BY DEF OneLock, PrioInv, Unlock
<1>1. /\ prio \in [Tasks -> 0..MaxPrio] /\ NoTask \notin Tasks /\ 0..MaxPrio \subseteq Int
      /\ waitq[m] \in Seq(Tasks) /\ ceiling[m] \in 0..MaxPrio /\ waitq \in [Mutexes -> Seq(Tasks)]
      /\ \A u \in Tasks : CreationPrio[u] \in 0..MaxPrio
      /\ applied \in [Mutexes -> BOOLEAN] /\ saved \in [Mutexes -> 0..MaxPrio]
      /\ kind \in [Mutexes -> {"none", "pi", "dpcp"}]
  BY <1>0, PrioTypes
<1> DEFINE h == Heir(m)
<1>2. PICK back : back = Restored(m)
  OBVIOUS
<1>3. /\ back \in [Tasks -> 0..MaxPrio] /\ back[t] = CreationPrio[t]
      /\ \A u \in Tasks \ {t} : back[u] = prio[u]
  <2>1. CASE kind[m] = "pi"
    BY <1>0, <1>1, <1>2, <2>1 DEF Restored, PrioInv
  <2>2. CASE kind[m] # "pi"
    <3>1. kind[m] = "dpcp" /\ applied[m] /\ saved[m] = CreationPrio[t]
      BY <1>0, <1>1, <2>2 DEF PrioInv, LockKnows
    <3> QED
      BY <1>0, <1>1, <1>2, <2>2, <3>1 DEF Restored
  <2> QED
    BY <2>1, <2>2
<1>4. \A u \in Tasks : back[u] = CreationPrio[u]
  BY <1>0, <1>3 DEF PrioInv, Unboosted
<1>5. /\ owner'[m] = h /\ basePrio' = basePrio /\ kind' = kind /\ ceiling' = ceiling
      /\ waitq'[m] = IF waitq[m] = << >> THEN << >> ELSE Tail(waitq[m])
  BY <1>0, <1>1 DEF Unlock, HandOver, Mutexes
<1>6. CASE waitq[m] = << >>
  <2>1. h = NoTask
    BY <1>6 DEF Heir
  <2>2. prio' = back /\ ~applied'[m] /\ waitq'[m] = << >> /\ owner'[m] = NoTask
    BY <1>1, <1>2, <1>5, <1>6, <2>1 DEF Unlock, BoostHeir
  <2>3. Unboosted'
    BY <1>4, <2>2 DEF Unboosted
  <2>4. LockKnows(m)' /\ Covers(m)' /\ Ordered(waitq'[m])
    BY <2>2, EmptyIsOrdered DEF LockKnows, Covers
  <2> QED
    BY <1>0, <1>5, <2>3, <2>4 DEF PrioInv, Ordered
<1>7. CASE waitq[m] # << >>
  <2>1. /\ h \in Tasks /\ h = Head(waitq[m]) /\ h # NoTask
        /\ \A u \in Tasks : InList(Tail(waitq[m]), u) <=> u # h /\ InList(waitq[m], u)
    BY <1>0, <1>1, <1>7, HeirIsBlocked DEF MutexInv, Heir
  <2>2. /\ Ordered(Tail(waitq[m]))
        /\ \A u \in Tasks : InList(Tail(waitq[m]), u) => CreationPrio[u] <= CreationPrio[h]
    BY <1>1, <1>7, <2>1, PopKeepsOrder DEF PrioInv
  <2> HIDE DEF h
  <2>3. /\ \A u \in Tasks \ {h} : prio'[u] = CreationPrio[u]
        /\ prio'[h] \in Int /\ prio'[h] >= CreationPrio[h]
        /\ kind[m] = "dpcp" => applied'[m] /\ saved'[m] = CreationPrio[h] /\ prio'[h] >= ceiling[m]
        /\ kind[m] # "dpcp" => ~applied'[m]
    <3>1. CASE kind[m] = "dpcp"
      <4>1. ApplyCeiling(m, h, back)
        BY <1>2, <2>1, <3>1 DEF Unlock, h
      <4> QED
        BY <1>1, <1>3, <1>4, <2>1, <3>1, <4>1 DEF ApplyCeiling, Raise
    <3>2. CASE kind[m] # "dpcp"
      <4>1. prio' = BoostHeir(m, back) /\ applied' = [applied EXCEPT ![m] = FALSE]
        BY <1>2, <3>2 DEF Unlock
      <4>2. prio' = back \/ (prio' = Raise(back, h, back[waitq[m][2]]) /\ waitq[m][2] \in Tasks)
        BY <1>1, <4>1 DEF BoostHeir, h
      <4> QED
        BY <1>1, <1>3, <1>4, <2>1, <3>2, <4>1, <4>2 DEF Raise
    <3> QED
      BY <3>1, <3>2
  <2>4. owner'[m] = h /\ waitq'[m] = Tail(waitq[m])
    BY <1>5, <1>7 DEF h
  <2>5. Unboosted'
    BY <2>3, <2>4 DEF Unboosted
  <2>6. LockKnows(m)'
    BY <1>1, <1>5, <2>1, <2>3, <2>4, <1>0 DEF LockKnows, PrioInv
  <2>7. Covers(m)'
    <3>1. ASSUME NEW u \in Tasks, InList(waitq'[m], u) PROVE prio'[h] >= prio'[u]
      <4>1. u # h /\ CreationPrio[u] <= CreationPrio[h] /\ prio'[u] = CreationPrio[u]
        BY <2>1, <2>2, <2>3, <2>4, <3>1
      <4> QED
        BY <1>1, <2>1, <2>3, <4>1
    <3> QED
      BY <1>5, <2>3, <2>4, <3>1 DEF Covers
  <2> QED
    BY <1>0, <1>5, <2>2, <2>4, <2>5, <2>6, <2>7 DEF PrioInv, Ordered
<1> QED
  BY <1>6, <1>7

(* Whoever leaves a queue leaves it in order.                              *)
LEMMA PurgePrio ==
    ASSUME WaitAssumption, PrioInv, MutexInv', NEW t \in Tasks, waitq' = PurgeWaits(t),
           UNCHANGED prioVars, UNCHANGED mutexVars
    PROVE  PrioInv'
<1>1. WaitInv /\ WaitTypeOK
  BY DEF PrioInv, MutexInv, WaitInv
<1>2. \A m \in Mutexes : Ordered(waitq'[m])
  BY <1>1, PurgeKeepsOrder DEF PrioInv, Mutexes
<1>3. \A m \in Mutexes, u \in Tasks : InList(waitq'[m], u) => InList(waitq[m], u)
  BY <1>1, PurgeLemma DEF Mutexes
<1> QED
  BY <1>2, <1>3, QuietPrio DEF prioVars, mutexVars, lockVars

LEMMA SamePrioInv ==
    ASSUME PrioInv, MutexInv', UNCHANGED <<waitq, prio, basePrio, kind, owner, ceiling, saved, applied>>
    PROVE  PrioInv'
<1>1. \A m \in Mutexes : Ordered(waitq'[m])
  BY DEF PrioInv, Ordered
<1> QED
  BY <1>1, QuietPrio

LEMMA PrioInvStep ==
    ASSUME WaitAssumption, MutexAssumption, OneLock, PrioInv, [Next]_vars
    PROVE  PrioInv'
<1>0. MutexInv /\ MutexInv'
  BY MutexInvStep DEF PrioInv
<1>1. CASE LockStep
  <2>1. ASSUME NEW t \in Tasks, NEW m \in Mutexes, LockAgain(t, m) \/ UnlockOnce(t, m) PROVE PrioInv'
    BY <1>0, <2>1, SamePrioInv DEF LockAgain, UnlockOnce, waitVars, blockVars, prioVars
  <2>2. ASSUME NEW t \in Tasks, LockReturns(t) PROVE PrioInv'
    BY <1>0, <2>2, SamePrioInv DEF LockReturns, LeaveCall, prioVars, lockVars
  <2> QED
    BY <1>0, <1>1, <2>1, <2>2, FreeLockPrio, LockFreePrio, LockBlocksPrio, UnlockPrio DEF LockStep
<1>2. CASE DeleteStep
  <2>1. \A c \in Tasks : victim[c] = NoTask
    BY <1>0 DEF MutexInv, VictimsDeletable, OneLock
  <2>2. \A t \in Tasks : state[t] \notin {"FREE", "TERMINATED"}
    BY <1>0 DEF MutexInv, GoneDeletable, OneLock
  <2> QED
    BY <1>2, <2>1, <2>2 DEF DeleteStep, DeleteCall, DeleteRelease, DeleteFinish, CreateTask, Create,
       Exit, OneLock
<1>3. CASE KernelStep
  <2>1. ASSUME NEW old \in Tasks \cup {NoTask}, NEW new \in Tasks \cup {NoTask},
               Switch(old, new), UNCHANGED mutexVars
        PROVE  PrioInv'
    BY <1>0, <2>1, SamePrioInv DEF Switch, prioVars, mutexVars, lockVars
  <2>2. ASSUME NEW t \in Tasks, Expire(t), UNCHANGED mutexVars PROVE PrioInv'
    BY <1>0, <2>2, PurgePrio DEF Expire
  <2>3. ASSUME NEW t \in Tasks, Suspend(t), UNCHANGED mutexVars PROVE PrioInv'
    BY <1>0, <2>3, PurgePrio DEF Suspend
  <2>4. ASSUME NEW t \in Tasks, Resume(t), UNCHANGED mutexVars PROVE PrioInv'
    BY <1>0, <2>4, SamePrioInv DEF Resume, prioVars, mutexVars, lockVars
  <2>5. ASSUME NEW t \in Tasks, NEW p \in 0..MaxPrio, SetPriority(t, p) PROVE FALSE
    BY <2>5 DEF SetPriority, OneLock
  <2> QED
    BY <1>3, <2>1, <2>2, <2>3, <2>4, <2>5 DEF KernelStep
<1>4. CASE UNCHANGED vars
  BY <1>0, <1>4, SamePrioInv DEF vars, waitVars, blockVars, prioVars, mutexVars, lockVars
<1> QED
  BY <1>1, <1>2, <1>3, <1>4 DEF Next

LEMMA PrioInvInit == ASSUME WaitAssumption, MutexAssumption, Init PROVE PrioInv
<1>1. MutexInv
  BY MutexInvInit
<1>2. \A m \in Mutexes : Ordered(waitq[m]) /\ LockKnows(m) /\ Covers(m)
  BY EmptyIsOrdered DEF Init, WaitInit, Mutexes, LockKnows, Covers
<1> QED
  BY <1>1, <1>2 DEF PrioInv, Unboosted, Init, WaitInit

(* With one mutex, while tasks are suspended and time out but not deleted  *)
(* and their priorities not set: its owner is at least as urgent as every  *)
(* waiter under inheritance, and at the ceiling under the ceiling protocol *)
(* (mutex_apply_inheritance, mutex_boost_from_waiters, mutex_apply_dpcp).  *)
THEOREM OwnerIsBoosted == ASSUME OneLock PROVE Spec => []OwnerCovers
<1>1. Init => PrioInv
  BY PrioInvInit, WaitAssumption, MutexAssumption
<1>2. PrioInv /\ [Next]_vars => PrioInv'
  BY PrioInvStep, WaitAssumption, MutexAssumption
<1>3. PrioInv => OwnerCovers
  BY PrioInvGives
<1> QED
  BY <1>1, <1>2, <1>3, PTL DEF Spec

(* Under the same condition no boost outlives the ownership it was for:    *)
(* a task that owns nothing runs at its own priority again                 *)
(* (mutex_restore_inheritance, mutex_restore_dpcp).                        *)
THEOREM BoostIsUndone == ASSUME OneLock PROVE Spec => []BoostEnds
<1>1. Init => PrioInv
  BY PrioInvInit, WaitAssumption, MutexAssumption
<1>2. PrioInv /\ [Next]_vars => PrioInv'
  BY PrioInvStep, WaitAssumption, MutexAssumption
<1>3. PrioInv => BoostEnds
  BY PrioInvGives
<1> QED
  BY <1>1, <1>2, <1>3, PTL DEF Spec
==============================================================================

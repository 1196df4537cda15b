-------------------------- MODULE SemaphoreProofs ---------------------------
(***************************************************************************)
(* Semaphore: for any number of tasks, cores and semaphores, and any set   *)
(* of tasks that are suspended, deleted or re-prioritised.                 *)
(***************************************************************************)
EXTENDS Semaphore, TaskWaitProofs

(* A slot of g_sems that is free has no waiter and no token.               *)
FreeSlotIsIdle ==
    \A s \in Sems : max[s] = 0 =>
        /\ count[s] = 0
        /\ \A t \in Tasks : ~(state[t] = "BLOCKED" /\ blockObj[t] = s)

(* A blocked task has not been handed a token yet.                         *)
BlockedNotGranted == \A t \in Tasks : state[t] = "BLOCKED" => t \notin granted

SemInv ==
    /\ WaitInv
    /\ SemTypeOK
    /\ NoIdleToken
    /\ FreeSlotIsIdle
    /\ BlockedNotGranted
    /\ PassMeansTokenUndisturbed

(* What each step of the blocking core does to the tasks, as SemInv sees   *)
(* it: nobody becomes BLOCKED, and a task that nobody disturbs is neither  *)
(* woken nor given a result.                                               *)
Calm(t) ==
    AwaitsResult(t)' => AwaitsResult(t) /\ wakeOk'[t] = wakeOk[t]

LEMMA QuietStep ==
    ASSUME SemInv, WaitInv', UNCHANGED semVars,
           \A t \in Tasks : state'[t] = "BLOCKED" => state[t] = "BLOCKED" /\ blockObj'[t] = blockObj[t],
           \A t \in Tasks \ (Suspendable \cup Deletable) : Calm(t)
    PROVE  SemInv'
<1> USE DEF SemInv, semVars
<1>1. SemTypeOK'
  BY DEF SemTypeOK, WaitInv
<1>2. NoIdleToken' /\ FreeSlotIsIdle'
  BY DEF NoIdleToken, FreeSlotIsIdle
<1>3. BlockedNotGranted'
  BY DEF BlockedNotGranted
<1>4. PassMeansTokenUndisturbed'
  BY DEF PassMeansTokenUndisturbed, AwaitsResult, InCall, Calm
<1> QED
  BY <1>1, <1>2, <1>3, <1>4

LEMMA SemCreatePreserves ==
    ASSUME WaitAssumption, SemAssumption, SemInv,
           NEW s \in Sems, NEW init \in 0..MaxCount, NEW limit \in 1..MaxCount,
           SemCreate(s, init, limit)
    PROVE  SemInv'
<1> USE DEF SemInv
<1>1. waitq' = waitq
  <2>1. waitq[s] \in Seq(Tasks) /\ \A t \in Tasks : ~InList(waitq[s], t)
    BY DEF SemCreate, FreeSlotIsIdle, WaitInv, WaitTypeOK, QueueMembership, Sems
  <2>2. waitq[s] = << >>
    BY <2>1, EmptySeq DEF InList
  <2> QED
    BY <2>2 DEF SemCreate, SemTypeOK, WaitTypeOK
<1>2. WaitInv'
  BY <1>1, WaitUnchanged DEF SemCreate, prioVars
<1>3. SemTypeOK'
  BY <1>2 DEF SemCreate, SemTypeOK, WaitInv, Sems, SemAssumption
<1>4. NoIdleToken' /\ FreeSlotIsIdle' /\ BlockedNotGranted' /\ PassMeansTokenUndisturbed'
  BY DEF SemCreate, NoIdleToken, FreeSlotIsIdle, BlockedNotGranted, PassMeansTokenUndisturbed,
         AwaitsResult, InCall, SemTypeOK
<1> QED
  BY <1>2, <1>3, <1>4

LEMMA TakePreserves ==
    ASSUME WaitAssumption, SemAssumption, SemInv,
           NEW c \in Tasks \cup {Isr}, NEW s \in Sems, Take(c, s)
    PROVE  SemInv'
<1> USE DEF SemInv
<1>1. WaitInv'
  BY WaitUnchanged DEF Take, waitVars, blockVars, prioVars
<1>2. SemTypeOK'
  BY <1>1 DEF Take, SemTypeOK, WaitInv
<1>3. NoIdleToken' /\ FreeSlotIsIdle' /\ BlockedNotGranted' /\ PassMeansTokenUndisturbed'
  BY DEF Take, waitVars, blockVars, NoIdleToken, FreeSlotIsIdle, BlockedNotGranted,
         PassMeansTokenUndisturbed, AwaitsResult, InCall, SemTypeOK
<1> QED
  BY <1>1, <1>2, <1>3

LEMMA TakeBlocksPreserves ==
    ASSUME WaitAssumption, SemAssumption, SemInv,
           NEW t \in Tasks, NEW s \in Sems, NEW d \in Timeouts, TakeBlocks(t, s, d)
    PROVE  SemInv'
<1> USE DEF SemInv
<1>1. WaitInv'
  BY BlockPreserves, SamePrio DEF TakeBlocks, Sems, SemInv
<1>2. SemTypeOK'
  BY <1>1 DEF TakeBlocks, SemTypeOK, WaitInv
<1>3. NoIdleToken' /\ FreeSlotIsIdle'
  BY DEF TakeBlocks, Block, NoIdleToken, FreeSlotIsIdle, SemTypeOK, WaitTypeOK
<1>4. BlockedNotGranted' /\ PassMeansTokenUndisturbed'
  BY DEF TakeBlocks, Block, BlockedNotGranted, PassMeansTokenUndisturbed, AwaitsResult, InCall,
         SemTypeOK, WaitTypeOK
<1> QED
  BY <1>1, <1>2, <1>3, <1>4

LEMMA TakeReturnsPreserves ==
    ASSUME WaitAssumption, SemAssumption, SemInv, NEW t \in Tasks, TakeReturns(t)
    PROVE  SemInv'
<1> USE DEF SemInv
<1>1. WaitInv'
  BY LeaveCallPreserves, SamePrio DEF TakeReturns, SemInv
<1>2. SemTypeOK'
  <2>1. outstanding' \in [Sems -> Int]
    <3>1. CASE arg[t] \in Sems
      BY <3>1 DEF TakeReturns, SemTypeOK
    <3>2. CASE arg[t] \notin Sems
      BY <3>2 DEF TakeReturns, SemTypeOK
    <3> QED
      BY <3>1, <3>2
  <2> QED
    BY <1>1, <2>1 DEF TakeReturns, SemTypeOK, WaitInv
<1>3. NoIdleToken' /\ FreeSlotIsIdle' /\ BlockedNotGranted' /\ PassMeansTokenUndisturbed'
  BY DEF TakeReturns, LeaveCall, Leave, NoIdleToken, FreeSlotIsIdle, BlockedNotGranted,
         PassMeansTokenUndisturbed, AwaitsResult, InCall, SemTypeOK, WaitTypeOK
<1> QED
  BY <1>1, <1>2, <1>3

LEMMA GivePreserves ==
    ASSUME WaitAssumption, SemAssumption, SemInv,
           NEW c \in Tasks \cup {Isr}, NEW s \in Sems, Give(c, s)
    PROVE  SemInv'
<1> USE DEF SemInv
<1>1. CASE waitq[s] # << >>
  <2> DEFINE h == Head(waitq[s])
  <2>1. /\ PopHighest(s) /\ granted' = granted \cup {h}
        /\ UNCHANGED <<prioVars, count, max>>
        /\ outstanding' = [outstanding EXCEPT ![s] = @ + 1]
    BY <1>1 DEF Give
  <2>2. WaitInv' /\ state[h] = "BLOCKED" /\ h \in Tasks
    BY <1>1, <2>1, PopHighestPreserves, SamePrio DEF Sems, SemInv
  <2>3. Unblock({h}, TRUE)
    BY <2>1 DEF PopHighest
  <2> HIDE DEF h
  <2>4. SemTypeOK'
    BY <2>1, <2>2 DEF SemTypeOK, WaitInv
  <2>5. ASSUME NEW u \in Tasks
        PROVE  /\ state'[u] = IF u = h THEN "READY" ELSE state[u]
               /\ wakeOk'[u] = IF u = h THEN TRUE ELSE wakeOk[u]
               /\ u # h => blockObj'[u] = blockObj[u]
               /\ stage'[u] = stage[u]
    BY <2>2, <2>3 DEF Unblock, Wake
  <2>6. \A u \in Tasks : state'[u] = "BLOCKED" =>
            u # h /\ state[u] = "BLOCKED" /\ blockObj'[u] = blockObj[u]
    BY <2>5
  <2>8. NoIdleToken' /\ FreeSlotIsIdle' /\ BlockedNotGranted'
    <3>1. NoIdleToken'
      BY <2>1, <2>6 DEF NoIdleToken
    <3>2. FreeSlotIsIdle'
      BY <2>1, <2>6 DEF FreeSlotIsIdle
    <3>3. BlockedNotGranted'
      BY <2>1, <2>6 DEF BlockedNotGranted
    <3> QED
      BY <3>1, <3>2, <3>3
  <2>7. PassMeansTokenUndisturbed'
    BY <2>1, <2>5 DEF PassMeansTokenUndisturbed, AwaitsResult, InCall
  <2> QED
    BY <2>2, <2>4, <2>7, <2>8
<1>2. CASE waitq[s] = << >>
  <2>1. /\ count[s] < max[s] /\ count' = [count EXCEPT ![s] = @ + 1]
        /\ UNCHANGED <<waitVars, granted, max>>
        /\ outstanding' = [outstanding EXCEPT ![s] = @ + 1]
    BY <1>2 DEF Give
  <2>2. \A t \in Tasks : ~(state[t] = "BLOCKED" /\ blockObj[t] = s)
    BY <1>2 DEF WaitInv, QueueMembership, InList, Sems
  <2>3. WaitInv'
    BY <2>1, WaitUnchanged DEF waitVars, blockVars, prioVars
  <2>4. SemTypeOK'
    BY <2>1, <2>3 DEF SemTypeOK, WaitInv, SemAssumption
  <2>5. NoIdleToken' /\ FreeSlotIsIdle'
    BY <2>1, <2>2 DEF waitVars, blockVars, NoIdleToken, FreeSlotIsIdle, SemTypeOK
  <2>6. BlockedNotGranted' /\ PassMeansTokenUndisturbed'
    BY <2>1 DEF waitVars, blockVars, BlockedNotGranted, PassMeansTokenUndisturbed, AwaitsResult, InCall
  <2> QED
    BY <2>3, <2>4, <2>5, <2>6
<1> QED
  BY <1>1, <1>2

LEMMA SemDeletePreserves ==
    ASSUME WaitAssumption, SemAssumption, SemInv, NEW t \in Tasks, NEW s \in Sems, SemDelete(t, s)
    PROVE  SemInv'
<1> USE DEF SemInv
<1> DEFINE S == {u \in Tasks : InList(waitq[s], u)}
<1>1. WakeAll(s) /\ UNCHANGED prioVars /\ Unblock(S, FALSE)
  BY DEF SemDelete, WakeAll
<1>2. WaitInv'
  BY <1>1, WakeAllPreserves, SamePrio DEF Sems, SemInv
<1>3. SemTypeOK'
  BY <1>2 DEF SemDelete, SemTypeOK, WaitInv, SemAssumption
<1>4. \A u \in Tasks : u \in S <=> state[u] = "BLOCKED" /\ blockObj[u] = s
  BY DEF WaitInv, QueueMembership, Sems
<1> HIDE DEF S
<1>5. ASSUME NEW u \in Tasks
      PROVE  /\ state'[u] = IF u \in S THEN "READY" ELSE state[u]
             /\ wakeOk'[u] = IF u \in S THEN FALSE ELSE wakeOk[u]
             /\ u \notin S => blockObj'[u] = blockObj[u]
             /\ stage'[u] = stage[u]
  BY <1>1, <1>4 DEF Unblock, Wake
<1>6. NoIdleToken' /\ FreeSlotIsIdle' /\ BlockedNotGranted'
  <2>1. \A u \in Tasks : state'[u] = "BLOCKED" =>
            /\ state[u] = "BLOCKED" /\ blockObj'[u] = blockObj[u]
            /\ blockObj[u] # s
    BY <1>4, <1>5
  <2>2. /\ \A z \in Sems : count'[z] = IF z = s THEN 0 ELSE count[z]
        /\ \A z \in Sems : max'[z] = IF z = s THEN 0 ELSE max[z]
        /\ granted' = granted
    BY DEF SemDelete, SemTypeOK
  <2>3. NoIdleToken'
    BY <2>1, <2>2 DEF NoIdleToken
  <2>4. FreeSlotIsIdle'
    BY <2>1, <2>2 DEF FreeSlotIsIdle
  <2>5. BlockedNotGranted'
    BY <2>1, <2>2 DEF BlockedNotGranted
  <2> QED
    BY <2>3, <2>4, <2>5
<1>7. PassMeansTokenUndisturbed'
  BY <1>4, <1>5 DEF SemDelete, PassMeansTokenUndisturbed, BlockedNotGranted, AwaitsResult, InCall
<1> QED
  BY <1>2, <1>3, <1>6, <1>7

LEMMA ExpireStepPreserves ==
    ASSUME WaitAssumption, SemInv, NEW t \in Tasks, Expire(t), UNCHANGED semVars
    PROVE  SemInv'
<1> USE DEF SemInv, semVars
<1>1. WaitInv'
  BY ExpirePreserves
<1>2. Unblock({t}, FALSE) /\ state[t] = "BLOCKED"
  BY DEF Expire
<1>3. ASSUME NEW u \in Tasks
      PROVE  /\ state'[u] = IF u = t THEN "READY" ELSE state[u]
             /\ wakeOk'[u] = IF u = t THEN FALSE ELSE wakeOk[u]
             /\ u # t => blockObj'[u] = blockObj[u]
             /\ stage'[u] = stage[u]
  BY <1>2 DEF Unblock, Wake
<1>4. SemTypeOK'
  BY <1>1 DEF SemTypeOK, WaitInv
<1>5. NoIdleToken' /\ FreeSlotIsIdle' /\ BlockedNotGranted'
  <2>1. \A u \in Tasks : state'[u] = "BLOCKED" =>
            state[u] = "BLOCKED" /\ blockObj'[u] = blockObj[u]
    BY <1>3
  <2>2. NoIdleToken'
    BY <2>1 DEF NoIdleToken
  <2>3. FreeSlotIsIdle'
    BY <2>1 DEF FreeSlotIsIdle
  <2>4. BlockedNotGranted'
    BY <2>1 DEF BlockedNotGranted
  <2> QED
    BY <2>2, <2>3, <2>4
<1>6. PassMeansTokenUndisturbed'
  BY <1>2, <1>3 DEF PassMeansTokenUndisturbed, BlockedNotGranted, AwaitsResult, InCall
<1> QED
  BY <1>1, <1>4, <1>5, <1>6

LEMMA DeleteTaskPreserves ==
    ASSUME WaitAssumption, SemInv, NEW t \in Tasks, Delete(t), granted' = granted \ {t},
           outstanding' = IF t \in granted THEN [outstanding EXCEPT ![arg[t]] = @ - 1]
                                           ELSE outstanding,
           UNCHANGED prioVars, UNCHANGED count, UNCHANGED max
    PROVE  SemInv'
<1> USE DEF SemInv
<1>1. WaitInv'
  BY DeletePreserves, SamePrio
<1>2. SemTypeOK'
  <2>1. outstanding' \in [Sems -> Int]
    <3>1. CASE arg[t] \in Sems
      BY <3>1 DEF SemTypeOK
    <3>2. CASE arg[t] \notin Sems
      BY <3>2 DEF SemTypeOK
    <3> QED
      BY <3>1, <3>2
  <2> QED
    BY <1>1, <2>1 DEF SemTypeOK, WaitInv
<1>3. ASSUME NEW u \in Tasks
      PROVE  /\ state'[u] = "BLOCKED" => u # t /\ state[u] = "BLOCKED"
             /\ u # t => state'[u] = state[u]
             /\ blockObj'[u] = blockObj[u] /\ wakeOk'[u] = wakeOk[u] /\ stage'[u] = stage[u]
  BY DEF Delete, WaitInv, WaitTypeOK
<1>4. NoIdleToken' /\ FreeSlotIsIdle'
  BY <1>3 DEF NoIdleToken, FreeSlotIsIdle
<1>5. BlockedNotGranted'
  BY <1>3 DEF BlockedNotGranted
<1>6. PassMeansTokenUndisturbed'
  BY <1>3 DEF PassMeansTokenUndisturbed, AwaitsResult, InCall, Delete
<1> QED
  BY <1>1, <1>2, <1>4, <1>5, <1>6

LEMMA SemInvInit == ASSUME WaitAssumption, SemAssumption, Init PROVE SemInv
<1>1. WaitInv
  BY InitEstablishes DEF Init
<1>2. SemTypeOK
  BY <1>1 DEF Init, SemTypeOK, WaitInv, SemAssumption
<1>3. NoIdleToken /\ FreeSlotIsIdle /\ BlockedNotGranted /\ PassMeansTokenUndisturbed
  BY DEF Init, WaitInit, NoIdleToken, FreeSlotIsIdle, BlockedNotGranted,
         PassMeansTokenUndisturbed, AwaitsResult, InCall
<1> QED
  BY <1>1, <1>2, <1>3 DEF SemInv

LEMMA SemInvStep == ASSUME WaitAssumption, SemAssumption, SemInv, [Next]_vars PROVE SemInv'
<1>1. CASE SemStep
  BY <1>1, SemCreatePreserves, TakePreserves, TakeBlocksPreserves, TakeReturnsPreserves,
     GivePreserves, SemDeletePreserves DEF SemStep
<1>2. CASE SwitchStep
  <2>1. PICK old \in Tasks \cup {NoTask}, new \in Tasks \cup {NoTask} :
            Switch(old, new) /\ UNCHANGED semVars
    BY <1>2 DEF SwitchStep
  <2>2. WaitInv'
    BY <2>1, SwitchPreserves DEF SemInv
  <2>3. \A t \in Tasks : /\ state'[t] = "BLOCKED" <=> state[t] = "BLOCKED"
                         /\ InCall(t)' <=> InCall(t)
                         /\ blockObj'[t] = blockObj[t] /\ wakeOk'[t] = wakeOk[t]
    BY <2>1 DEF Switch, SemInv, WaitInv, WaitTypeOK, InCall
  <2>4. \A t \in Tasks : Calm(t)
    BY <2>3 DEF Calm, AwaitsResult, InCall
  <2> QED
    BY <2>1, <2>2, <2>3, <2>4, QuietStep
<1>3. CASE ExpireStep
  BY <1>3, ExpireStepPreserves DEF ExpireStep
<1>4. CASE SuspendStep
  <2>1. PICK t \in Tasks : Suspend(t) /\ UNCHANGED semVars
    BY <1>4 DEF SuspendStep
  <2>2. WaitInv'
    BY <2>1, SuspendPreserves DEF SemInv
  <2>3. \A u \in Tasks : /\ state'[u] = "BLOCKED" => state[u] = "BLOCKED"
                         /\ u # t => state'[u] = state[u]
                         /\ stage'[u] = stage[u]
                         /\ blockObj'[u] = blockObj[u] /\ wakeOk'[u] = wakeOk[u]
    BY <2>1 DEF Suspend, SemInv, WaitInv, WaitTypeOK
  <2>4. \A u \in Tasks \ (Suspendable \cup Deletable) : Calm(u)
    BY <2>1, <2>3 DEF Suspend, Calm, AwaitsResult, InCall
  <2> QED
    BY <2>1, <2>2, <2>3, <2>4, QuietStep
<1>5. CASE ResumeStep
  <2>1. PICK t \in Tasks : Resume(t) /\ UNCHANGED semVars
    BY <1>5 DEF ResumeStep
  <2>2. WaitInv'
    BY <2>1, ResumePreserves DEF SemInv
  <2>3. \A u \in Tasks : /\ state'[u] = "BLOCKED" <=> state[u] = "BLOCKED"
                         /\ stage'[u] = stage[u]
                         /\ blockObj'[u] = blockObj[u] /\ wakeOk'[u] = wakeOk[u]
    BY <2>1 DEF Resume, SemInv, WaitInv, WaitTypeOK
  <2>4. \A u \in Tasks : Calm(u)
    BY <2>3 DEF Calm, AwaitsResult, InCall
  <2> QED
    BY <2>1, <2>2, <2>3, <2>4, QuietStep
<1>6. CASE DeleteStep
  <2>1. PICK t \in Tasks :
           /\ Delete(t) /\ granted' = granted \ {t}
           /\ outstanding' = IF t \in granted THEN [outstanding EXCEPT ![arg[t]] = @ - 1]
                                              ELSE outstanding
           /\ UNCHANGED <<prioVars, count, max>>
    BY <1>6 DEF DeleteStep
  <2> QED
    BY <2>1, DeleteTaskPreserves
<1>7. CASE CreateStep
  <2>1. PICK t \in Tasks : Create(t) /\ UNCHANGED semVars
    BY <1>7 DEF CreateStep
  <2>2. WaitInv'
    BY <2>1, CreatePreserves DEF SemInv
  <2>3. \A u \in Tasks : /\ state'[u] = "BLOCKED" => state[u] = "BLOCKED" /\ u # t
                         /\ u # t => /\ state'[u] = state[u] /\ stage'[u] = stage[u]
                                     /\ blockObj'[u] = blockObj[u] /\ wakeOk'[u] = wakeOk[u]
                         /\ u = t => stage'[u] = "run"
    BY <2>1 DEF Create, SemInv, WaitInv, WaitTypeOK
  <2>4. \A u \in Tasks : Calm(u)
    BY <2>3 DEF Calm, AwaitsResult, InCall
  <2> QED
    BY <2>1, <2>2, <2>3, <2>4, QuietStep
<1>10. CASE ExitStep
  <2>1. PICK t \in Tasks : Exit(t) /\ UNCHANGED semVars
    BY <1>10 DEF ExitStep
  <2>2. WaitInv'
    BY <2>1, ExitPreserves DEF SemInv
  <2>3. \A u \in Tasks : /\ state'[u] = "BLOCKED" => state[u] = "BLOCKED"
                         /\ u # t => state'[u] = state[u] /\ stage'[u] = stage[u]
                         /\ u = t => stage'[u] = "exit"
                         /\ blockObj'[u] = blockObj[u] /\ wakeOk'[u] = wakeOk[u]
    BY <2>1 DEF Exit, SemInv, WaitInv, WaitTypeOK
  <2>4. \A u \in Tasks : Calm(u)
    BY <2>3 DEF Calm, AwaitsResult, InCall
  <2> QED
    BY <2>1, <2>2, <2>3, <2>4, QuietStep
<1>8. CASE PriorityStep
  <2>1. PICK t \in Tasks, p \in 0..MaxPrio : SetPriority(t, p) /\ UNCHANGED semVars
    BY <1>8 DEF PriorityStep, SemAssumption
  <2>2. WaitInv'
    BY <2>1, SetPriorityPreserves DEF SemInv
  <2> QED
    BY <2>1, <2>2, QuietStep DEF Calm, AwaitsResult, InCall, SetPriority, blockVars
<1>9. CASE UNCHANGED vars
  <2>1. WaitInv'
    BY <1>9, WaitUnchanged DEF vars, waitVars, blockVars, prioVars, SemInv
  <2> QED
    BY <1>9, <2>1, QuietStep DEF vars, waitVars, blockVars, Calm, AwaitsResult, InCall
<1> QED
  BY <1>1, <1>2, <1>3, <1>4, <1>5, <1>6, <1>7, <1>8, <1>9, <1>10 DEF Next

LEMMA SemInvariant == ASSUME WaitAssumption, SemAssumption PROVE Spec => []SemInv
<1>1. Init => SemInv
  BY SemInvInit
<1>2. SemInv /\ [Next]_vars => SemInv'
  BY SemInvStep
<1> QED
  BY <1>1, <1>2, PTL DEF Spec

-----------------------------------------------------------------------------
(* Where the tokens are: a task with one in its hands is still inside the  *)
(* call that blocked it and is not gone, and the object of that call is    *)
(* the one it was blocked on.                                              *)
GrantedInCall ==
    \A t \in granted : InCall(t) /\ state[t] \notin {"FREE", "TERMINATED", "DELETED"}
ArgIsObject == \A t \in Tasks : state[t] = "BLOCKED" => arg[t] = blockObj[t]

TokenInv == SemInv /\ TokenConservation /\ GrantedInCall /\ ArgIsObject

LEMMA InFlightFinite ==
    ASSUME WaitAssumption, NEW s
    PROVE  IsFiniteSet(InFlight(s)) /\ Cardinality(InFlight(s)) \in Nat
<1>1. InFlight(s) \subseteq Tasks
  BY DEF InFlight
<1> QED
  BY <1>1, FS_Subset, FS_CardinalityType DEF WaitAssumption

(* A step that moves no token.                                             *)
LEMMA TokensStay ==
    ASSUME WaitAssumption, TokenInv, SemInv', UNCHANGED <<granted, outstanding, count>>,
           \A t \in Tasks :
              /\ t \in granted => /\ arg'[t] = arg[t] /\ InCall(t)'
                                  /\ state'[t] \notin {"FREE", "TERMINATED", "DELETED"}
              /\ state'[t] = "BLOCKED" => arg'[t] = blockObj'[t]
    PROVE  TokenInv'
<1>1. granted \in SUBSET Tasks
  BY DEF TokenInv, SemInv, SemTypeOK
<1>2. \A s \in Sems : InFlight(s)' = InFlight(s)
  BY DEF InFlight
<1>3. TokenConservation'
  BY <1>2 DEF TokenInv, TokenConservation
<1>4. GrantedInCall' /\ ArgIsObject'
  BY <1>1 DEF GrantedInCall, ArgIsObject
<1> QED
  BY <1>3, <1>4 DEF TokenInv

(* A step at a semaphore that moves k tokens into count or out of it.      *)
LEMMA TokensCounted ==
    ASSUME WaitAssumption, TokenInv, SemInv', NEW s \in Sems, NEW k \in Int,
           UNCHANGED <<granted, arg, stage>>,
           count' = [count EXCEPT ![s] = count[s] + k],
           outstanding' = [outstanding EXCEPT ![s] = outstanding[s] + k],
           \A t \in Tasks : \/ state'[t] = state[t] /\ blockObj'[t] = blockObj[t]
                            \/ state'[t] = "READY"
    PROVE  TokenInv'
<1> USE DEF TokenInv
<1>1. count \in [Sems -> Int] /\ outstanding \in [Sems -> Int] /\ granted \in SUBSET Tasks
  BY DEF SemInv, SemTypeOK
<1>2. \A z \in Sems : InFlight(z)' = InFlight(z) /\ Cardinality(InFlight(z)) \in Nat
  BY InFlightFinite DEF InFlight
<1>3. TokenConservation'
  <2> SUFFICES ASSUME NEW z \in Sems PROVE outstanding'[z] = count'[z] + Cardinality(InFlight(z)')
    BY DEF TokenConservation
  <2>1. outstanding[z] = count[z] + Cardinality(InFlight(z)) /\ Cardinality(InFlight(z)) \in Nat
    BY <1>2 DEF TokenConservation
  <2>2. count[z] \in Int
    BY <1>1
  <2>3. CASE z = s
    BY <1>1, <1>2, <2>1, <2>2, <2>3
  <2>4. CASE z # s
    BY <1>1, <1>2, <2>1, <2>4
  <2> QED
    BY <2>3, <2>4
<1>4. GrantedInCall' /\ ArgIsObject'
  BY <1>1 DEF GrantedInCall, ArgIsObject, InCall
<1> QED
  BY <1>3, <1>4

(* A task gives up what it has in its hands: a take that returns, or a     *)
(* task that is deleted.                                                   *)
LEMMA TokenLeaves ==
    ASSUME WaitAssumption, TokenInv, SemInv', NEW t \in Tasks, UNCHANGED count,
           granted' = granted \ {t},
           outstanding' = IF t \in granted THEN [outstanding EXCEPT ![arg[t]] = @ - 1]
                                           ELSE outstanding,
           \A u \in Tasks :
              /\ u # t => arg'[u] = arg[u] /\ stage'[u] = stage[u] /\ state'[u] = state[u]
              /\ state'[u] = "BLOCKED" => arg'[u] = blockObj'[u]
    PROVE  TokenInv'
<1> USE DEF TokenInv
<1>1. count \in [Sems -> Int] /\ outstanding \in [Sems -> Int] /\ granted \in SUBSET Tasks
  BY DEF SemInv, SemTypeOK
<1>2. TokenConservation'
  <2> SUFFICES ASSUME NEW z \in Sems PROVE outstanding'[z] = count'[z] + Cardinality(InFlight(z)')
    BY DEF TokenConservation
  <2>1. /\ outstanding[z] = count[z] + Cardinality(InFlight(z)) /\ Cardinality(InFlight(z)) \in Nat
        /\ IsFiniteSet(InFlight(z))
    BY InFlightFinite DEF TokenConservation
  <2>2. InFlight(z)' = InFlight(z) \ {t}
    BY <1>1 DEF InFlight
  <2>3. Cardinality(InFlight(z) \ {t}) =
           IF t \in InFlight(z) THEN Cardinality(InFlight(z)) - 1 ELSE Cardinality(InFlight(z))
    BY <2>1, FS_RemoveElement
  <2>4. t \in InFlight(z) <=> t \in granted /\ arg[t] = z
    BY DEF InFlight
  <2>5. outstanding'[z] = IF t \in granted /\ arg[t] = z THEN outstanding[z] - 1 ELSE outstanding[z]
    BY <1>1
  <2>6. count[z] \in Int /\ count'[z] = count[z]
    BY <1>1
  <2> QED
    BY <2>1, <2>2, <2>3, <2>4, <2>5, <2>6
<1>3. GrantedInCall' /\ ArgIsObject'
  BY <1>1 DEF GrantedInCall, ArgIsObject, InCall
<1> QED
  BY <1>2, <1>3

(* A give with a waiter: the token goes into its hands.                    *)
LEMMA TokenHandedOver ==
    ASSUME WaitAssumption, TokenInv, SemInv', NEW s \in Sems, waitq[s] # << >>, PopHighest(s),
           granted' = granted \cup {Head(waitq[s])}, UNCHANGED <<prioVars, count>>,
           outstanding' = [outstanding EXCEPT ![s] = @ + 1]
    PROVE  TokenInv'
<1> DEFINE h == Head(waitq[s])
<1> USE DEF TokenInv
<1>1. count \in [Sems -> Int] /\ outstanding \in [Sems -> Int] /\ granted \in SUBSET Tasks
  BY DEF SemInv, SemTypeOK
<1>2. h \in Tasks /\ InList(waitq[s], h)
  <2>1. waitq[s] \in Seq(Tasks)
    BY DEF SemInv, WaitInv, WaitTypeOK, Sems
  <2> QED
    BY <2>1, PopLemma DEF SemInv, WaitInv, LinkedOnce, Once, Sems
<1>3. state[h] = "BLOCKED" /\ blockObj[h] = s /\ h \notin granted /\ arg[h] = s
  BY <1>2 DEF SemInv, WaitInv, QueueMembership, BlockedNotGranted, ArgIsObject, Sems
<1>4. Unblock({h}, TRUE) /\ granted' = granted \cup {h}
  BY DEF PopHighest
<1> HIDE DEF h
<1>5. /\ UNCHANGED <<stage, arg>>
      /\ \A u \in Tasks : /\ state'[u] = IF u = h THEN "READY" ELSE state[u]
                          /\ u # h => blockObj'[u] = blockObj[u]
  <2>1. \A u \in Tasks : u \in {v \in {h} : state[v] = "BLOCKED"} <=> u = h
    BY <1>3
  <2> QED
    BY <1>4, <2>1 DEF Unblock, Wake
<1>6. TokenConservation'
  <2> SUFFICES ASSUME NEW z \in Sems PROVE outstanding'[z] = count'[z] + Cardinality(InFlight(z)')
    BY DEF TokenConservation
  <2>1. /\ outstanding[z] = count[z] + Cardinality(InFlight(z)) /\ Cardinality(InFlight(z)) \in Nat
        /\ IsFiniteSet(InFlight(z)) /\ count[z] \in Int
    BY <1>1, InFlightFinite DEF TokenConservation
  <2>2. CASE z = s
    <3>1. InFlight(z)' = InFlight(z) \cup {h} /\ h \notin InFlight(z)
      BY <1>2, <1>3, <1>4, <1>5, <2>2 DEF InFlight
    <3>2. Cardinality(InFlight(z) \cup {h}) = Cardinality(InFlight(z)) + 1
      BY <2>1, <3>1, FS_AddElement
    <3> QED
      BY <1>1, <2>1, <2>2, <3>1, <3>2
  <2>3. CASE z # s
    <3>1. InFlight(z)' = InFlight(z)
      BY <1>3, <1>4, <1>5, <2>3 DEF InFlight
    <3> QED
      BY <1>1, <2>1, <2>3, <3>1
  <2> QED
    BY <2>2, <2>3
<1>7. GrantedInCall'
  <2>1. InCall(h)
    BY <1>2, <1>3 DEF SemInv, WaitInv, BlockedInCall
  <2> SUFFICES ASSUME NEW u \in granted'
               PROVE  InCall(u)' /\ state'[u] \notin {"FREE", "TERMINATED", "DELETED"}
    BY DEF GrantedInCall
  <2>2. CASE u = h
    BY <1>2, <1>5, <2>1, <2>2 DEF InCall
  <2>3. CASE u # h
    BY <1>1, <1>4, <1>5, <2>3 DEF GrantedInCall, InCall
  <2> QED
    BY <2>2, <2>3
<1>8. ArgIsObject'
  <2> SUFFICES ASSUME NEW u \in Tasks, state'[u] = "BLOCKED" PROVE arg'[u] = blockObj'[u]
    BY DEF ArgIsObject
  <2>1. u # h /\ state[u] = "BLOCKED" /\ blockObj'[u] = blockObj[u] /\ arg'[u] = arg[u]
    BY <1>5
  <2> QED
    BY <2>1 DEF ArgIsObject
<1> QED
  BY <1>6, <1>7, <1>8

LEMMA TokenSemStep ==
    ASSUME WaitAssumption, SemAssumption, TokenInv, SemInv', SemStep
    PROVE  TokenInv'
<1>1. ASSUME NEW s \in Sems, NEW init \in 0..MaxCount, NEW limit \in 1..MaxCount,
             SemCreate(s, init, limit)
      PROVE  TokenInv'
  <2>1. count[s] = 0 /\ init \in Int
    BY <1>1 DEF SemCreate, TokenInv, SemInv, FreeSlotIsIdle
  <2>2. /\ count' = [count EXCEPT ![s] = count[s] + init]
        /\ outstanding' = [outstanding EXCEPT ![s] = outstanding[s] + init]
        /\ UNCHANGED <<granted, arg, stage, state, blockObj>>
    BY <1>1, <2>1 DEF SemCreate
  <2> QED
    BY <2>1, <2>2, TokensCounted
<1>2. ASSUME NEW c \in Tasks \cup {Isr}, NEW s \in Sems, Take(c, s)
      PROVE  TokenInv'
  <2>1. count[s] \in Int /\ outstanding[s] \in Int
    BY DEF TokenInv, SemInv, SemTypeOK
  <2>2. /\ count' = [count EXCEPT ![s] = count[s] + (-1)]
        /\ outstanding' = [outstanding EXCEPT ![s] = outstanding[s] + (-1)]
        /\ UNCHANGED <<granted, arg, stage, state, blockObj>>
    BY <1>2, <2>1 DEF Take, waitVars, blockVars
  <2>3. -1 \in Int
    OBVIOUS
  <2> QED
    BY <2>2, <2>3, TokensCounted
<1>3. ASSUME NEW t \in Tasks, NEW s \in Sems, NEW d \in Timeouts, TakeBlocks(t, s, d)
      PROVE  TokenInv'
  <2>1. t \notin granted
    BY <1>3 DEF TakeBlocks, Executing, TokenInv, GrantedInCall, InCall
  <2>2. UNCHANGED <<granted, outstanding, count>>
    BY <1>3, <2>1 DEF TakeBlocks
  <2>3. \A u \in Tasks : /\ u # t => /\ state'[u] = state[u] /\ arg'[u] = arg[u]
                                     /\ stage'[u] = stage[u] /\ blockObj'[u] = blockObj[u]
                         /\ u = t => arg'[u] = s /\ blockObj'[u] = s
    BY <1>3 DEF TakeBlocks, Block, TokenInv, SemInv, WaitInv, WaitTypeOK
  <2> QED
    BY <2>1, <2>2, <2>3, TokensStay DEF TokenInv, GrantedInCall, ArgIsObject, InCall
<1>4. ASSUME NEW t \in Tasks, TakeReturns(t)
      PROVE  TokenInv'
  <2>1. state[t] # "BLOCKED" /\ UNCHANGED <<state, blockObj>>
    BY <1>4 DEF TakeReturns, LeaveCall, Resumes, TokenInv, SemInv, WaitInv, BlockedInCall
  <2>2. \A u \in Tasks : u # t => arg'[u] = arg[u] /\ stage'[u] = stage[u]
    BY <1>4 DEF TakeReturns, LeaveCall, Leave, TokenInv, SemInv, WaitInv, WaitTypeOK
  <2> QED
    BY <1>4, <2>1, <2>2, TokenLeaves DEF TakeReturns, TokenInv, ArgIsObject
<1>5. ASSUME NEW c \in Tasks \cup {Isr}, NEW s \in Sems, Give(c, s)
      PROVE  TokenInv'
  <2>1. CASE waitq[s] # << >>
    BY <1>5, <2>1, TokenHandedOver DEF Give
  <2>2. CASE waitq[s] = << >>
    BY <1>5, <2>2, TokensCounted DEF Give, waitVars, blockVars
  <2> QED
    BY <2>1, <2>2
<1>6. ASSUME NEW t \in Tasks, NEW s \in Sems, SemDelete(t, s)
      PROVE  TokenInv'
  <2>1. count[s] \in Int /\ outstanding[s] \in Int
    BY DEF TokenInv, SemInv, SemTypeOK
  <2>2. /\ count' = [count EXCEPT ![s] = count[s] + (-count[s])]
        /\ outstanding' = [outstanding EXCEPT ![s] = outstanding[s] + (-count[s])]
        /\ UNCHANGED <<granted, arg, stage>>
    <3>1. count[s] + (-count[s]) = 0 /\ outstanding[s] + (-count[s]) = outstanding[s] - count[s]
      BY <2>1
    <3> QED
      BY <1>6, <3>1 DEF SemDelete, WakeAll, Unblock
  <2>3. \A u \in Tasks : \/ state'[u] = state[u] /\ blockObj'[u] = blockObj[u]
                         \/ state'[u] = "READY"
    BY <1>6 DEF SemDelete, WakeAll, Unblock, Wake
  <2> QED
    <3>1. -count[s] \in Int
      BY <2>1
    <3> QED
      BY <2>2, <2>3, <3>1, TokensCounted
<1> QED
  BY <1>1, <1>2, <1>3, <1>4, <1>5, <1>6 DEF SemStep

LEMMA TokenInvStep ==
    ASSUME WaitAssumption, SemAssumption, TokenInv, [Next]_vars
    PROVE  TokenInv'
<1> DEFINE Gone == {"FREE", "TERMINATED", "DELETED"}
<1>0. SemInv'
  BY SemInvStep DEF TokenInv
<1>1. CASE SemStep
  BY <1>0, <1>1, TokenSemStep
<1>2. CASE SwitchStep \/ ExpireStep \/ SuspendStep \/ ResumeStep \/ PriorityStep \/ UNCHANGED vars
  <2>1. UNCHANGED <<granted, outstanding, count, arg>>
    BY <1>2 DEF SwitchStep, ExpireStep, SuspendStep, ResumeStep, PriorityStep, vars, semVars,
       Switch, Expire, Unblock, Suspend, Resume, SetPriority, waitVars, blockVars
  <2>2. ASSUME NEW u \in Tasks
        PROVE  /\ InCall(u) => InCall(u)'
               /\ state[u] \notin Gone => state'[u] \notin Gone
               /\ state'[u] = "BLOCKED" => state[u] = "BLOCKED" /\ blockObj'[u] = blockObj[u]
    <3>1. CASE SwitchStep
      BY <3>1 DEF SwitchStep, Switch, InCall
    <3>2. CASE ExpireStep
      BY <3>2 DEF ExpireStep, Expire, Unblock, Wake, InCall
    <3>3. CASE SuspendStep \/ ResumeStep
      BY <3>3 DEF SuspendStep, ResumeStep, Suspend, Resume, InCall, TokenInv, SemInv, WaitInv, WaitTypeOK
    <3>4. CASE PriorityStep \/ UNCHANGED vars
      BY <3>4 DEF PriorityStep, SetPriority, vars, waitVars, blockVars, InCall
    <3> QED
      BY <1>2, <3>1, <3>2, <3>3, <3>4
  <2> QED
    BY <1>0, <2>1, <2>2, TokensStay DEF TokenInv, GrantedInCall, ArgIsObject
<1>3. CASE ExitStep \/ CreateStep
  <2>1. UNCHANGED <<granted, outstanding, count>>
    BY <1>3 DEF ExitStep, CreateStep, semVars
  <2>2. PICK t \in Tasks : Exit(t) \/ Create(t)
    BY <1>3 DEF ExitStep, CreateStep
  <2>3. t \notin granted
    BY <2>2 DEF Exit, Create, Executing, InCall, TokenInv, GrantedInCall
  <2>4. \A u \in Tasks : /\ u # t => /\ arg'[u] = arg[u] /\ stage'[u] = stage[u]
                                     /\ state'[u] = state[u] /\ blockObj'[u] = blockObj[u]
                         /\ u = t => state'[u] # "BLOCKED"
    BY <2>2 DEF Exit, Create, TokenInv, SemInv, WaitInv, WaitTypeOK
  <2> QED
    BY <1>0, <2>1, <2>3, <2>4, TokensStay DEF TokenInv, GrantedInCall, ArgIsObject, InCall
<1>4. CASE DeleteStep
  <2>1. PICK t \in Tasks :
           /\ Delete(t) /\ granted' = granted \ {t}
           /\ outstanding' = IF t \in granted THEN [outstanding EXCEPT ![arg[t]] = @ - 1]
                                              ELSE outstanding
           /\ UNCHANGED count
    BY <1>4 DEF DeleteStep
  <2>2. \A u \in Tasks : /\ u # t => state'[u] = state[u]
                         /\ arg'[u] = arg[u] /\ stage'[u] = stage[u] /\ blockObj'[u] = blockObj[u]
                         /\ u = t => state'[u] # "BLOCKED"
    BY <2>1 DEF Delete, TokenInv, SemInv, WaitInv, WaitTypeOK
  <2> QED
    BY <1>0, <2>1, <2>2, TokenLeaves DEF TokenInv, ArgIsObject
<1> QED
  BY <1>1, <1>2, <1>3, <1>4 DEF Next

LEMMA TokenInvInit == ASSUME WaitAssumption, SemAssumption, Init PROVE TokenInv
<1>1. SemInv
  BY SemInvInit
<1>2. \A s \in Sems : InFlight(s) = {}
  BY DEF Init, InFlight
<1>3. TokenConservation
  <2>1. Cardinality({}) = 0
    BY FS_EmptySet
  <2>2. \A s \in Sems : outstanding[s] = 0 /\ count[s] = 0
    BY DEF Init
  <2>3. \A s \in Sems : Cardinality(InFlight(s)) = 0
    BY <1>2, <2>1
  <2> QED
    BY <2>2, <2>3 DEF TokenConservation
<1>4. GrantedInCall /\ ArgIsObject
  BY DEF Init, WaitInit, GrantedInCall, ArgIsObject
<1> QED
  BY <1>1, <1>3, <1>4 DEF TokenInv

-----------------------------------------------------------------------------
(* The state of the semaphores and of the blocking core is well formed.    *)
THEOREM SemTypeCorrect == Spec => []SemTypeOK
<1>1. SemInv => SemTypeOK
  BY DEF SemInv
<1> QED
  BY <1>1, SemInvariant, WaitAssumption, SemAssumption, PTL

(* A task is in a semaphore's queue exactly when it is BLOCKED on it, and  *)
(* it is linked in only once, whatever gives, expiries, suspensions and    *)
(* deletions race for it.                                                  *)
THEOREM WaitersConsistent == Spec => [](QueueMembership /\ LinkedOnce)
<1>1. SemInv => QueueMembership /\ LinkedOnce
  BY DEF SemInv, WaitInv
<1> QED
  BY <1>1, SemInvariant, WaitAssumption, SemAssumption, PTL

(* No task sleeps on a semaphore that has a token.                         *)
THEOREM TokensDoNotIdle == Spec => []NoIdleToken
<1>1. SemInv => NoIdleToken
  BY DEF SemInv
<1> QED
  BY <1>1, SemInvariant, WaitAssumption, SemAssumption, PTL

(* For a task that nobody suspends or deletes, a take that blocked reports *)
(* pdPASS exactly when a give handed it a token.                           *)
THEOREM PassIsHonest == Spec => []PassMeansTokenUndisturbed
<1>1. SemInv => PassMeansTokenUndisturbed
  BY DEF SemInv
<1> QED
  BY <1>1, SemInvariant, WaitAssumption, SemAssumption, PTL

(* No token is lost or made up: what was put in and not obtained by a take *)
(* is in count or in the hands of a woken task, whatever gives, expiries,  *)
(* suspensions and deletions come between the hand-off and the return.     *)
THEOREM TokensConserved == Spec => []TokenConservation
<1>1. Init => TokenInv
  BY TokenInvInit, WaitAssumption, SemAssumption
<1>2. TokenInv /\ [Next]_vars => TokenInv'
  BY TokenInvStep, WaitAssumption, SemAssumption
<1>3. TokenInv => TokenConservation
  BY DEF TokenInv
<1> QED
  BY <1>1, <1>2, <1>3, PTL DEF Spec

-----------------------------------------------------------------------------
(* The order of the waiters.  While nobody calls set_priority a task keeps *)
(* the priority it was created with, so that the lists are compared by it. *)

OrderInv == SemInv /\ prio = CreationPrio /\ \A s \in Sems : Ordered(waitq[s])

(* One step: the lists stay in order, and what a give wakes is the head.   *)
LEMMA OrderStep ==
    ASSUME WaitAssumption, SemAssumption, Reprioritized = {}, OrderInv, [Next]_vars
    PROVE  prio' = prio /\ \A s \in Sems : Ordered(waitq'[s])
<1> USE DEF OrderInv
<1>0. WaitTypeOK /\ \A s \in Sems : waitq[s] \in Seq(Tasks)
  BY DEF SemInv, WaitInv, WaitTypeOK, Sems
<1>1. CASE UNCHANGED <<prioVars, waitq>>
  BY <1>1 DEF prioVars
<1>2. ASSUME NEW s \in Sems, NEW init \in 0..MaxCount, NEW limit \in 1..MaxCount, SemCreate(s, init, limit)
      PROVE  prio' = prio /\ \A u \in Sems : Ordered(waitq'[u])
  BY <1>0, <1>2, EmptyIsOrdered DEF SemCreate, prioVars, WaitTypeOK, Sems
<1>3. ASSUME NEW t \in Tasks, NEW s \in Sems, NEW d \in Timeouts, TakeBlocks(t, s, d)
      PROVE  prio' = prio /\ \A u \in Sems : Ordered(waitq'[u])
  <2>1. Ordered(WaitListAdd(waitq[s], t))
    BY <1>0, AddKeepsOrder
  <2> QED
    BY <1>0, <1>3, <2>1 DEF TakeBlocks, Block, prioVars, WaitTypeOK, Sems
<1>4. ASSUME NEW c \in Tasks \cup {Isr}, NEW s \in Sems, Give(c, s)
      PROVE  prio' = prio /\ \A u \in Sems : Ordered(waitq'[u])
  <2>1. CASE waitq[s] # << >>
    <3>1. Ordered(Tail(waitq[s]))
      BY <1>0, <2>1, PopKeepsOrder
    <3>2. prio' = prio /\ waitq' = [waitq EXCEPT ![s] = Tail(@)]
      BY <1>4, <2>1 DEF Give, PopHighest, prioVars
    <3> QED
      BY <1>0, <3>1, <3>2 DEF WaitTypeOK, Sems
  <2>2. CASE waitq[s] = << >>
    BY <1>4, <2>2 DEF Give, waitVars, blockVars, prioVars
  <2> QED
    BY <2>1, <2>2
<1>5. ASSUME NEW t \in Tasks, NEW s \in Sems, SemDelete(t, s)
      PROVE  prio' = prio /\ \A u \in Sems : Ordered(waitq'[u])
  BY <1>0, <1>5, EmptyIsOrdered DEF SemDelete, WakeAll, prioVars, WaitTypeOK, Sems
<1>6. ASSUME SemStep PROVE prio' = prio /\ \A u \in Sems : Ordered(waitq'[u])
  <2>1. ASSUME NEW c \in Tasks \cup {Isr}, NEW s \in Sems, Take(c, s)
        PROVE  prio' = prio /\ \A u \in Sems : Ordered(waitq'[u])
    BY <2>1 DEF Take, waitVars, blockVars, prioVars
  <2>2. ASSUME NEW t \in Tasks, TakeReturns(t)
        PROVE  prio' = prio /\ \A u \in Sems : Ordered(waitq'[u])
    BY <2>2 DEF TakeReturns, LeaveCall, prioVars
  <2> QED
    BY <1>2, <1>3, <1>4, <1>5, <1>6, <2>1, <2>2 DEF SemStep
<1>7. ASSUME NEW t \in Tasks, waitq' = PurgeWaits(t), UNCHANGED prioVars
      PROVE  prio' = prio /\ \A u \in Sems : Ordered(waitq'[u])
  <2>1. \A u \in Sems : Ordered(waitq'[u])
    BY <1>0, <1>7, PurgeKeepsOrder DEF Sems
  <2> QED
    BY <1>7, <2>1 DEF prioVars
<1>8. CASE SwitchStep
  BY <1>1, <1>8 DEF SwitchStep, Switch
<1>9. CASE ExpireStep
  BY <1>7, <1>9 DEF ExpireStep, Expire
<1>10. CASE SuspendStep
  BY <1>7, <1>10 DEF SuspendStep, Suspend
<1>11. CASE ResumeStep
  BY <1>1, <1>11 DEF ResumeStep, Resume
<1>12. CASE ExitStep
  BY <1>1, <1>12 DEF ExitStep, Exit
<1>13. CASE DeleteStep
  BY <1>7, <1>13 DEF DeleteStep, Delete
<1>14. CASE CreateStep
  <2>1. PICK t \in Tasks : prio' = [prio EXCEPT ![t] = CreationPrio[t]] /\ waitq' = waitq
    BY <1>14 DEF CreateStep, Create
  <2>2. prio' = prio
    BY <1>0, <2>1 DEF WaitTypeOK
  <2> QED
    BY <2>1, <2>2
<1>15. CASE PriorityStep
  BY <1>15 DEF PriorityStep, SetPriority
<1>16. CASE UNCHANGED vars
  BY <1>1, <1>16 DEF vars, waitVars, blockVars, prioVars
<1> QED
  BY <1>6, <1>8, <1>9, <1>10, <1>11, <1>12, <1>13, <1>14, <1>15, <1>16 DEF Next

LEMMA OrderInvStep ==
    ASSUME WaitAssumption, SemAssumption, Reprioritized = {}, OrderInv, [Next]_vars
    PROVE  OrderInv'
<1>1. prio' = prio /\ \A s \in Sems : Ordered(waitq'[s])
  BY OrderStep
<1>2. SemInv'
  BY SemInvStep DEF OrderInv
<1> QED
  BY <1>1, <1>2 DEF OrderInv, Ordered

(* Only a give that finds a waiter hands out a token.                      *)
LEMMA OnlyGiveGrants ==
    ASSUME [Next]_vars, NEW t \in Tasks, t \in granted' \ granted
    PROVE  \E c \in Tasks \cup {Isr}, s \in Sems :
              Give(c, s) /\ waitq[s] # << >> /\ t = Head(waitq[s])
<1>1. CASE SemStep
  <2>1. PICK c \in Tasks \cup {Isr}, s \in Sems : Give(c, s)
    BY <1>1 DEF SemStep, SemCreate, Take, TakeBlocks, TakeReturns, SemDelete
  <2>2. waitq[s] # << >> /\ t = Head(waitq[s])
    BY <2>1 DEF Give
  <2> QED
    BY <2>1, <2>2
<1>2. CASE UNCHANGED semVars \/ DeleteStep
  BY <1>2 DEF semVars, DeleteStep
<1> QED
  BY <1>1, <1>2 DEF Next, vars, SwitchStep, ExpireStep, SuspendStep, ResumeStep, ExitStep,
                    CreateStep, PriorityStep

LEMMA GiveTakesHighest ==
    ASSUME WaitAssumption, SemAssumption, Reprioritized = {}, OrderInv, [Next]_vars,
           NEW t \in Tasks, NEW s \in Sems,
           InList(waitq[s], t), ~InList(waitq'[s], t), t \in granted' \ granted,
           NEW u \in Tasks, InList(waitq'[s], u)
    PROVE  prio[u] <= prio[t]
<1> USE DEF OrderInv
<1>1. PICK c \in Tasks \cup {Isr}, g \in Sems : Give(c, g) /\ waitq[g] # << >> /\ t = Head(waitq[g])
  BY OnlyGiveGrants
<1>2. waitq[g] \in Seq(Tasks) /\ waitq[s] \in Seq(Tasks) /\ waitq \in [Queues -> Seq(Tasks)]
  BY DEF SemInv, WaitInv, WaitTypeOK, Sems
<1>3. InList(waitq[g], t)
  BY <1>1, <1>2 DEF InList
<1>4. g = s
  BY <1>3 DEF SemInv, WaitInv, QueueMembership, Sems
<1>5. waitq'[s] = Tail(waitq[s])
  BY <1>1, <1>2, <1>4 DEF Give, PopHighest, Sems
<1> QED
  BY <1>1, <1>2, <1>4, <1>5, PopKeepsOrder

(* While nobody calls cgrtos_task_set_priority, cgrtos_sem_give wakes a    *)
(* waiter of the highest priority there is: the wait lists stay ordered    *)
(* through every insertion, removal and pop.                               *)
THEOREM GiveIsByPriority == ASSUME Reprioritized = {} PROVE Spec => GiveWakesHighest
<1>1. Init => OrderInv
  <2>1. ASSUME Init PROVE \A s \in Sems : Ordered(waitq[s])
    BY <2>1, EmptyIsOrdered DEF Init, WaitInit, Sems
  <2>2. Init => SemInv
    BY SemInvInit, WaitAssumption, SemAssumption
  <2> QED
    BY <2>1, <2>2 DEF OrderInv, Init, WaitInit
<1>2. OrderInv /\ [Next]_vars => OrderInv'
  BY OrderInvStep, WaitAssumption, SemAssumption
<1>3. OrderInv /\ [Next]_vars =>
        [\A t \in Tasks, s \in Sems :
           (InList(waitq[s], t) /\ ~InList(waitq'[s], t) /\ wakeOk'[t] /\ t \in granted' \ granted)
             => \A u \in Tasks : InList(waitq'[s], u) => prio[u] <= prio[t]]_vars
  BY GiveTakesHighest, WaitAssumption, SemAssumption
<1> QED
  BY <1>1, <1>2, <1>3, PTL DEF Spec, GiveWakesHighest
=============================================================================

-------------------------------- MODULE Mutex --------------------------------
(***************************************************************************)
(* The recursive mutex of kernel/ipc.c with priority inheritance (PI) or   *)
(* with a priority ceiling (DPCP), its wait-cycle detection, and the       *)
(* release of what a task owns when the task is deleted, which             *)
(* cgrtos_task_delete does in three critical sections.                     *)
(* The EDF half of the ceiling (ceiling_rel, saved_deadline) is left out.  *)
(***************************************************************************)
EXTENDS TaskWait

CONSTANTS
    Pool,           (* the mutexes of g_mtxs; the others are static        *)
    Ceilings,       (* the ceiling_prio arguments                          *)
    MaxRecursive,   (* CONFIG_MUTEX_MAX_RECURSIVE                          *)
    DetectDepth,    (* the owners mutex_would_deadlock looks at: 16        *)
    DeleteHeld      (* whether the application deletes mutexes in use,     *)
                    (* against the warning at cgrtos_mutex_delete          *)

Mutexes == Queues

ASSUME MutexAssumption ==
    /\ Pool \subseteq Mutexes
    /\ Ceilings \subseteq 0..MaxPrio
    /\ MaxRecursive \in Nat
    /\ DetectDepth \in Nat \ {0}
    /\ DeleteHeld \in BOOLEAN

VARIABLES
    kind,       (* "none": not in_use; "pi": inherit; "dpcp"               *)
    owner,      (* mutex->owner                                            *)
    recursive,  (* mutex->recursive: the locks beyond the first            *)
    ceiling,    (* mutex->ceiling_prio                                     *)
    saved,      (* mutex->saved_prio                                       *)
    applied,    (* mutex->ceiling_applied                                  *)
    victim,     (* the task a caller is inside cgrtos_task_delete for      *)
    section,    (* the section of cgrtos_task_delete the caller is before  *)
    stale,      (* callers whose victim's id has been given up             *)
    held        (* history: the locks a task has obtained and not undone   *)

lockVars   == <<kind, owner, recursive, ceiling, saved, applied>>
deleteVars == <<victim, section, stale>>
mutexVars  == <<lockVars, deleteVars, held>>
vars       == <<waitVars, mutexVars>>

MutexTypeOK ==
    /\ WaitTypeOK
    /\ kind \in [Mutexes -> {"none", "pi", "dpcp"}]
    /\ owner \in [Mutexes -> Tasks \cup {NoTask}]
    /\ recursive \in [Mutexes -> 0..MaxRecursive]
    /\ ceiling \in [Mutexes -> 0..MaxPrio]
    /\ saved \in [Mutexes -> 0..MaxPrio]
    /\ applied \in [Mutexes -> BOOLEAN]
    /\ victim \in [Tasks -> Tasks \cup {NoTask}]
    /\ section \in [Tasks -> {"release", "finish"}]
    /\ stale \in SUBSET Tasks
    /\ held \in [Mutexes -> [Tasks -> Nat]]

Init ==
    /\ WaitInit
    /\ kind = [m \in Mutexes |-> "none"]
    /\ owner = [m \in Mutexes |-> NoTask]
    /\ recursive = [m \in Mutexes |-> 0]
    /\ ceiling = [m \in Mutexes |-> 0]
    /\ saved = [m \in Mutexes |-> 0]
    /\ applied = [m \in Mutexes |-> FALSE]
    /\ victim = [t \in Tasks |-> NoTask]
    /\ section = [t \in Tasks |-> "release"]
    /\ stale = {}
    /\ held = [m \in Mutexes |-> [t \in Tasks |-> 0]]

(* t's code is at liberty to make a call                                   *)
Calls(t) == Executing(t) /\ victim[t] = NoTask

-----------------------------------------------------------------------------
(* cgrtos_mutex_create, cgrtos_mutex_create_static                         *)
MutexCreate(m) ==
    /\ kind[m] = "none"
    /\ kind' = [kind EXCEPT ![m] = "pi"]
    /\ UNCHANGED <<waitVars, owner, recursive, ceiling, saved, applied, deleteVars, held>>

(* cgrtos_mutex_create_dpcp, cgrtos_mutex_set_ceiling                      *)
SetCeiling(m, p) ==
    /\ kind[m] # "none" \/ m \in Pool
    /\ owner[m] = NoTask
    /\ kind' = [kind EXCEPT ![m] = "dpcp"]
    /\ ceiling' = [ceiling EXCEPT ![m] = p]
    /\ applied' = [applied EXCEPT ![m] = FALSE]
    /\ UNCHANGED <<waitVars, owner, recursive, saved, deleteVars, held>>

(* the effective priority of t becomes at least p                          *)
Raise(pr, t, p) == [pr EXCEPT ![t] = IF p > @ THEN p ELSE @]

(* mutex_apply_dpcp for a new owner t, whose priority is pr[t]             *)
ApplyCeiling(m, t, pr) ==
    /\ prio' = Raise(pr, t, ceiling[m])
    /\ saved' = [saved EXCEPT ![m] = pr[t]]
    /\ applied' = [applied EXCEPT ![m] = TRUE]

(* cgrtos_mutex_lock of a free mutex                                       *)
LockFree(t, m) ==
    /\ Calls(t)
    /\ kind[m] # "none" /\ owner[m] = NoTask
    /\ owner' = [owner EXCEPT ![m] = t]
    /\ held' = [held EXCEPT ![m][t] = 1]
    /\ IF kind[m] = "dpcp" /\ ~applied[m]
       THEN ApplyCeiling(m, t, prio)
       ELSE UNCHANGED <<prio, saved, applied>>
    /\ UNCHANGED <<blockVars, basePrio, kind, recursive, ceiling, deleteVars>>

(* Bug form: the limit is not looked at                                    *)
LockAgainUnlimited(t, m) ==
    /\ Calls(t)
    /\ owner[m] = t /\ held[m][t] < MaxRecursive + 3
    /\ recursive' = [recursive EXCEPT ![m] = @ + 1]
    /\ held' = [held EXCEPT ![m][t] = @ + 1]
    /\ UNCHANGED <<waitVars, kind, owner, ceiling, saved, applied, deleteVars>>

(* cgrtos_mutex_lock of a mutex the caller owns                            *)
LockAgain(t, m) ==
    /\ Calls(t)
    /\ owner[m] = t /\ recursive[m] < MaxRecursive
    /\ recursive' = [recursive EXCEPT ![m] = @ + 1]
    /\ held' = [held EXCEPT ![m][t] = @ + 1]
    /\ UNCHANGED <<waitVars, kind, owner, ceiling, saved, applied, deleteVars>>

(* the owner of the mutex t is blocked on                                  *)
WaitsFor(t) ==
    IF t # NoTask /\ state[t] = "BLOCKED" /\ blockObj[t] # NoQueue
    THEN owner[blockObj[t]] ELSE NoTask

(* Bug form: only the owner itself is compared with the caller             *)
WouldDeadlockNoWalk(m, self) == owner[m] = self

(* mutex_would_deadlock                                                    *)
WouldDeadlock(m, self) ==
    LET walk[i \in 0..(DetectDepth - 1)] ==
            IF i = 0 THEN owner[m] ELSE WaitsFor(walk[i - 1])
    IN  \E i \in 0..(DetectDepth - 1) : walk[i] = self

(* Bug form: no inheritance                                                *)
InheritNothing(m, p) == prio

(* mutex_apply_inheritance for a waiter of priority p                      *)
Inherit(m, p) == IF kind[m] = "pi" THEN Raise(prio, owner[m], p) ELSE prio

(* cgrtos_mutex_lock of a mutex another task owns, with a timeout          *)
LockBlocks(t, m, timeout) ==
    /\ Calls(t)
    /\ owner[m] \notin {NoTask, t}
    /\ ~WouldDeadlock(m, t)
    /\ prio' = Inherit(m, prio[t])
    /\ Block(t, m, timeout)
    /\ UNCHANGED <<basePrio, mutexVars>>

(* the rest of a lock that blocked: wait_result                            *)
LockReturns(t) ==
    /\ Resumes(t)
    /\ LeaveCall(t)
    /\ held' = IF wakeOk[t] THEN [held EXCEPT ![arg[t]][t] = 1] ELSE held
    /\ UNCHANGED <<prioVars, lockVars, deleteVars>>

-----------------------------------------------------------------------------
(* the waiter that is handed m, if there is one                            *)
Heir(m) == IF waitq[m] = << >> THEN NoTask ELSE Head(waitq[m])

(* Bug form: the mutexes are left free for the woken waiters to take       *)
HandOverNothing(F) ==
    /\ owner' = [m \in Mutexes |-> IF m \in F THEN NoTask ELSE owner[m]]
    /\ Unblock({Heir(m) : m \in F} \ {NoTask}, TRUE)
    /\ waitq' = [m \in Mutexes |-> IF m \in F /\ waitq[m] # << >>
                                   THEN Tail(waitq[m]) ELSE waitq[m]]

(* Bug form: the mutexes are freed and nobody is woken                     *)
HandOverNoWake(F) ==
    /\ owner' = [m \in Mutexes |-> IF m \in F THEN NoTask ELSE owner[m]]
    /\ UNCHANGED <<state, oncpu, stage, arg, blockObj, timed, wakeOk, waitq>>

(* the mutexes of F pass to their first waiters                            *)
HandOver(F) ==
    /\ owner' = [m \in Mutexes |-> IF m \in F THEN Heir(m) ELSE owner[m]]
    /\ Unblock({Heir(m) : m \in F} \ {NoTask}, TRUE)
    /\ waitq' = [m \in Mutexes |-> IF m \in F /\ waitq[m] # << >>
                                   THEN Tail(waitq[m]) ELSE waitq[m]]

(* Bug form: the owner keeps what it inherited                             *)
RestoredNot(m) == prio

(* mutex_restore_dpcp, mutex_restore_inheritance                           *)
Restored(m) ==
    IF kind[m] = "pi" THEN [prio EXCEPT ![owner[m]] = basePrio[owner[m]]]
    ELSE IF applied[m] THEN [prio EXCEPT ![owner[m]] = saved[m]] ELSE prio

(* mutex_boost_from_waiters: the heir of m inherits from the next waiter   *)
BoostHeir(m, pr) ==
    IF kind[m] = "pi" /\ Len(waitq[m]) > 1
    THEN Raise(pr, Heir(m), pr[waitq[m][2]]) ELSE pr

(* cgrtos_mutex_unlock of a mutex the caller locked more than once         *)
UnlockOnce(t, m) ==
    /\ Calls(t)
    /\ owner[m] = t /\ recursive[m] > 0
    /\ recursive' = [recursive EXCEPT ![m] = @ - 1]
    /\ held' = [held EXCEPT ![m][t] = IF @ > 0 THEN @ - 1 ELSE 0]
    /\ UNCHANGED <<waitVars, kind, owner, ceiling, saved, applied, deleteVars>>

(* cgrtos_mutex_unlock that gives the mutex up                             *)
Unlock(t, m) ==
    /\ Calls(t)
    /\ owner[m] = t /\ recursive[m] = 0
    /\ HandOver({m})
    /\ IF kind[m] = "dpcp" /\ Heir(m) # NoTask
       THEN ApplyCeiling(m, Heir(m), Restored(m))
       ELSE /\ prio' = BoostHeir(m, Restored(m))
            /\ applied' = [applied EXCEPT ![m] = FALSE]
            /\ UNCHANGED saved
    /\ held' = [held EXCEPT ![m][t] = 0]
    /\ UNCHANGED <<basePrio, kind, recursive, ceiling, deleteVars>>

(* cgrtos_mutex_delete                                                     *)
MutexDelete(t, m) ==
    /\ Calls(t)
    /\ kind[m] # "none"
    /\ owner[m] = NoTask \/ DeleteHeld
    /\ WakeAll(m)
    /\ kind' = [kind EXCEPT ![m] = "none"]
    /\ owner' = [owner EXCEPT ![m] = NoTask]
    /\ recursive' = [recursive EXCEPT ![m] = 0]
    /\ ceiling' = [ceiling EXCEPT ![m] = 0]
    /\ saved' = [saved EXCEPT ![m] = 0]
    /\ applied' = [applied EXCEPT ![m] = FALSE]
    /\ held' = [held EXCEPT ![m] = [u \in Tasks |-> 0]]
    /\ UNCHANGED <<prioVars, deleteVars>>

-----------------------------------------------------------------------------
(* cgrtos_task_delete, section by section: find the task by its id; let go *)
(* of its mutexes; check the id again and delete.                          *)

DeleteCall(c, v) ==
    /\ \/ Calls(c)
       \/ c = v /\ c \in oncpu /\ stage[c] = "exit" /\ victim[c] = NoTask /\ state[c] # "DELETED"
    /\ v \in Deletable /\ state[v] # "FREE"
    /\ victim' = [victim EXCEPT ![c] = v]
    /\ stage' = [stage EXCEPT ![c] = IF c = v THEN "exit" ELSE @]
    /\ UNCHANGED <<state, oncpu, arg, blockObj, timed, wakeOk, waitq, prioVars,
                   lockVars, section, stale, held>>

(* cgrtos_mutex_force_release_owned; a ceiling is not undone               *)
Owned(v) == {m \in Pool : kind[m] # "none" /\ owner[m] = v}

(* the priorities once the mutexes of F have been taken from v             *)
AfterRelease(F, v) ==
    [t \in Tasks |->
        CASE t = v -> IF \E m \in F : kind[m] = "pi" THEN basePrio[v] ELSE prio[v]
          [] t # v /\ (\E m \in F : Heir(m) = t) ->
                 BoostHeir(CHOOSE m \in F : Heir(m) = t, prio)[t]
          [] OTHER -> prio[t]]

DeleteRelease(c) ==
    LET v == victim[c]
        F == Owned(v)
    IN  /\ c \in oncpu /\ v # NoTask /\ section[c] = "release"
        /\ HandOver(F)
        /\ prio' = AfterRelease(F, v)
        /\ recursive' = [m \in Mutexes |-> IF m \in F THEN 0 ELSE recursive[m]]
        /\ section' = [section EXCEPT ![c] = "finish"]
        /\ UNCHANGED <<basePrio, kind, ceiling, saved, applied, victim, stale, held>>

DeleteFinish(c) ==
    LET v == victim[c]
    IN  /\ c \in oncpu /\ v # NoTask /\ section[c] = "finish"
        /\ IF state[v] = "FREE" \/ c \in stale THEN UNCHANGED blockVars ELSE Delete(v)
        /\ victim' = [victim EXCEPT ![c] = NoTask]
        /\ section' = [section EXCEPT ![c] = "release"]
        /\ stale' = stale \ {c}
        /\ UNCHANGED <<prioVars, lockVars, held>>

(* cgrtos_task_create: the slot gets a new id                              *)
CreateTask(t) ==
    /\ Create(t)
    /\ victim' = [victim EXCEPT ![t] = NoTask]
    /\ section' = [section EXCEPT ![t] = "release"]
    /\ stale' = (stale \cup {c \in Tasks : victim[c] = t}) \ {t}
    /\ held' = [m \in Mutexes |-> [held[m] EXCEPT ![t] = 0]]
    /\ UNCHANGED lockVars

-----------------------------------------------------------------------------
LockStep ==
    \/ \E m \in Mutexes : MutexCreate(m)
    \/ \E m \in Mutexes, p \in Ceilings : SetCeiling(m, p)
    \/ \E t \in Tasks, m \in Mutexes : LockFree(t, m)
    \/ \E t \in Tasks, m \in Mutexes : LockAgain(t, m)
    \/ \E t \in Tasks, m \in Mutexes, d \in Timeouts : LockBlocks(t, m, d)
    \/ \E t \in Tasks : LockReturns(t)
    \/ \E t \in Tasks, m \in Mutexes : UnlockOnce(t, m)
    \/ \E t \in Tasks, m \in Mutexes : Unlock(t, m)
    \/ \E t \in Tasks, m \in Mutexes : MutexDelete(t, m)

DeleteStep ==
    \/ \E c, v \in Tasks : DeleteCall(c, v)
    \/ \E c \in Tasks : DeleteRelease(c)
    \/ \E c \in Tasks : DeleteFinish(c)
    \/ \E t \in Tasks : CreateTask(t)
    \/ \E t \in Tasks : victim[t] = NoTask /\ Exit(t) /\ UNCHANGED mutexVars

KernelStep ==
    \/ \E old, new \in Tasks \cup {NoTask} : Switch(old, new) /\ UNCHANGED mutexVars
    \/ \E t \in Tasks : Expire(t) /\ UNCHANGED mutexVars
    \/ \E t \in Tasks : Suspend(t) /\ UNCHANGED mutexVars
    \/ \E t \in Tasks : Resume(t) /\ UNCHANGED mutexVars
    \/ \E t \in Tasks, p \in 0..MaxPrio : SetPriority(t, p) /\ UNCHANGED mutexVars

Next == LockStep \/ DeleteStep \/ KernelStep

Spec == Init /\ [][Next]_vars
-----------------------------------------------------------------------------
Undisturbed == Tasks \ (Suspendable \cup Deletable)

(* A task that believes it holds a mutex, because its lock calls said so   *)
(* and it has not unlocked as often, is the owner at that depth.  So no    *)
(* two tasks believe they hold it, whatever hand-overs, expiries and       *)
(* forced releases there were.                                             *)
HoldersAgree ==
    \A t \in Undisturbed, m \in Mutexes :
        held[m][t] > 0 => owner[m] = t /\ recursive[m] = held[m][t] - 1

(* Nobody waits for a mutex that nobody owns: no wake-up is lost when an   *)
(* unlock, a forced release and an expiry race.                            *)
FreeHasNoWaiters ==
    \A m \in Mutexes : owner[m] = NoTask => waitq[m] = << >>

(* mutex_would_deadlock: tasks never wait for each other in a cycle.       *)
NoWaitCycle ==
    \A t \in Tasks :
        LET walk[i \in 0..Cardinality(Tasks)] ==
                IF i = 0 THEN t ELSE WaitsFor(walk[i - 1])
        IN  \A i \in 1..Cardinality(Tasks) : walk[i] # t

(* Priority inheritance: the owner of a mutex runs at no lower a priority  *)
(* than any task that waits for it.  Priority ceiling: it runs at the      *)
(* ceiling or above.                                                       *)
OwnerCovers ==
    \A m \in Mutexes : owner[m] # NoTask =>
        /\ kind[m] = "pi" => \A t \in Tasks : InList(waitq[m], t) => prio[owner[m]] >= prio[t]
        /\ kind[m] = "dpcp" => prio[owner[m]] >= ceiling[m]

(* A boost ends with the last unlock: a task that owns nothing is back at  *)
(* the priority it was given (base_prio, "before PI/DPCP", cgrtos.h).      *)
BoostEnds ==
    \A t \in Undisturbed :
        (\A m \in Mutexes : owner[m] # t) => prio[t] = basePrio[t]

(* A deleted task leaves no mutex behind that others wait for in vain.     *)
(* The code does not keep this: between its sections the victim of a       *)
(* delete may lock again on another core (no run checks it).               *)
DeadOwnNothing == \A m \in Pool : owner[m] # NoTask => state[owner[m]] # "FREE"

(* A task that has left through cgrtos_task_exit gets reclaimed: it is     *)
(* TERMINATED only as long as it is still on a core to delete itself.      *)
ExitGetsThere == \A t \in Tasks : state[t] = "TERMINATED" => t \in oncpu
=============================================================================

------------------------------ MODULE TaskWait ------------------------------
(***************************************************************************)
(* The blocking core of the kernel (kernel/scheduler.c, kernel/task.c):    *)
(* task states, the per-object wait queues ordered by priority, the list   *)
(* of delayed tasks, the wake_ok flag, suspend / resume / delete / create, *)
(* and the context switch seen from the IPC objects.  Semaphore, Mutex,    *)
(* MsgQueue, EventGroup and the other IPC modules extend this one: each of *)
(* their actions is one critical section under g_klock.                    *)
(*                                                                         *)
(* A blocking call is two sections with a trap between them: the section   *)
(* that blocks (stage "yield" until the trap), the switch away, and, once  *)
(* the task is switched to again (stage "wait"), the rest of the call.     *)
(* Which READY task a core picks is the subject of module Scheduler; here  *)
(* it is any of them.                                                      *)
(***************************************************************************)
EXTENDS Integers, Sequences, FiniteSets

CONSTANTS
    Tasks,          (* the task control blocks (g_tasks, idle excluded)    *)
    Queues,         (* the wait queues of the IPC objects                  *)
    NoQueue,        (* block_obj = NULL                                    *)
    NoTask,         (* the idle task of a core                             *)
    NumCores,       (* CONFIG_NUM_CORES                                    *)
    MaxPrio,        (* CONFIG_MAX_PRIORITY                                 *)
    CreationPrio,   (* the prio argument of each cgrtos_task_create        *)
    Suspendable,    (* tasks the application suspends and resumes          *)
    Deletable,      (* tasks the application deletes and creates again     *)
    Reprioritized   (* tasks the application calls set_priority on         *)

ASSUME WaitAssumption ==
    /\ NoQueue \notin Queues
    /\ NoTask \notin Tasks /\ IsFiniteSet(Tasks)
    /\ NumCores \in Nat \ {0}
    /\ MaxPrio \in Nat
    /\ CreationPrio \in [Tasks -> 0..MaxPrio]
    /\ Suspendable \subseteq Tasks
    /\ Deletable \subseteq Tasks
    /\ Reprioritized \subseteq Tasks

VARIABLES
    state,      (* task->state; "FREE" is a slot with id = 0               *)
    prio,       (* task->prio, the effective priority                      *)
    basePrio,   (* task->base_prio                                         *)
    oncpu,      (* the tasks that are g_current of some core               *)
    stage,      (* where the task's code is inside a blocking call, or     *)
                (* inside cgrtos_task_exit                                 *)
    arg,        (* the object the pending call was made on (its local)     *)
    blockObj,   (* task->block_obj                                         *)
    timed,      (* task->delayed_item is in g_delayed_list                 *)
    wakeOk,     (* task->wake_ok: 1 signalled, 0 timed out                 *)
    waitq       (* the wait_q of each object, head first                   *)

blockVars == <<state, oncpu, stage, arg, blockObj, timed, wakeOk, waitq>>
prioVars  == <<prio, basePrio>>
waitVars  == <<blockVars, prioVars>>

TaskStates == {"FREE", "READY", "RUNNING", "BLOCKED", "SUSPENDED", "TERMINATED", "DELETED"}
Stages     == {"run", "yield", "wait", "exit"}
Timeouts   == {"finite", "forever"}

WaitTypeOK ==
    /\ state \in [Tasks -> TaskStates]
    /\ prio \in [Tasks -> 0..MaxPrio]
    /\ basePrio \in [Tasks -> 0..MaxPrio]
    /\ oncpu \in SUBSET Tasks
    /\ stage \in [Tasks -> Stages]
    /\ arg \in [Tasks -> Queues \cup {NoQueue}]
    /\ blockObj \in [Tasks -> Queues \cup {NoQueue}]
    /\ timed \in [Tasks -> BOOLEAN]
    /\ wakeOk \in [Tasks -> BOOLEAN]
    /\ waitq \in [Queues -> Seq(Tasks)]

WaitInit ==
    /\ state = [t \in Tasks |-> "READY"]
    /\ prio = CreationPrio
    /\ basePrio = CreationPrio
    /\ oncpu = {}
    /\ stage = [t \in Tasks |-> "run"]
    /\ arg = [t \in Tasks |-> NoQueue]
    /\ blockObj = [t \in Tasks |-> NoQueue]
    /\ timed = [t \in Tasks |-> FALSE]
    /\ wakeOk = [t \in Tasks |-> FALSE]
    /\ waitq = [q \in Queues |-> << >>]

-----------------------------------------------------------------------------
(* The wait list: a doubly linked list through the tasks, kept as a        *)
(* sequence.  add walks past every entry of priority >= the new one.       *)

InList(q, t) == \E i \in 1..Len(q) : q[i] = t

(* Bug form: no walk, the newcomer is linked in at the head                *)
WaitListAddAtHead(q, t) == <<t>> \o q

(* Bug form: the walk stops at an equal priority                           *)
WaitListAddBeforeEquals(q, t) ==
    LET pos == CHOOSE i \in 1..(Len(q) + 1) :
                 /\ i = Len(q) + 1 \/ prio[q[i]] <= prio[t]
                 /\ \A j \in 1..(i - 1) : prio[q[j]] > prio[t]
    IN  [i \in 1..(Len(q) + 1) |->
            IF i < pos THEN q[i] ELSE IF i = pos THEN t ELSE q[i - 1]]

(* cgrtos_wait_list_add_priority                                           *)
WaitListAdd(q, t) ==
    LET pos == CHOOSE i \in 1..(Len(q) + 1) :
                 /\ i = Len(q) + 1 \/ prio[q[i]] < prio[t]
                 /\ \A j \in 1..(i - 1) : prio[q[j]] >= prio[t]
    IN  [i \in 1..(Len(q) + 1) |->
            IF i < pos THEN q[i] ELSE IF i = pos THEN t ELSE q[i - 1]]

(* cgrtos_wait_list_remove; the entry is looked for by its links           *)
WaitListRemove(q, t) ==
    IF InList(q, t)
    THEN LET pos == CHOOSE i \in 1..Len(q) : q[i] = t
         IN  [i \in 1..(Len(q) - 1) |-> IF i < pos THEN q[i] ELSE q[i + 1]]
    ELSE q

(* the same for every task of S, in one walk                               *)
WaitListWithout(q, S) ==
    LET kept == {i \in 1..Len(q) : q[i] \notin S}
        Nth(k) == CHOOSE i \in kept : Cardinality({j \in kept : j <= i}) = k
    IN  [k \in 1..Cardinality(kept) |-> q[Nth(k)]]

(* cgrtos_task_purge_waits: out of the queue it is blocked on              *)
PurgeWaits(t) ==
    IF state[t] = "BLOCKED" /\ blockObj[t] # NoQueue
    THEN [waitq EXCEPT ![blockObj[t]] = WaitListRemove(@, t)]
    ELSE waitq

-----------------------------------------------------------------------------
(* Fragments the IPC actions are built from.                               *)

(* t's code is executing and may call the kernel.  A task another core has *)
(* just suspended or deleted still executes until its own core switches.   *)
Executing(t) == t \in oncpu /\ stage[t] = "run"

(* t is inside a call that blocked it                                      *)
InCall(t) == stage[t] \in {"yield", "wait"}

(* block_current_on_waitq: cgrtos_sched_block then cgrtos_wait_list_add    *)
Block(t, q, timeout) ==
    /\ state' = [state EXCEPT ![t] = "BLOCKED"]
    /\ blockObj' = [blockObj EXCEPT ![t] = q]
    /\ arg' = [arg EXCEPT ![t] = q]
    /\ timed' = [timed EXCEPT ![t] = (timeout = "finite")]
    /\ stage' = [stage EXCEPT ![t] = "yield"]
    /\ waitq' = [waitq EXCEPT ![q] = WaitListAdd(@, t)]
    /\ UNCHANGED <<oncpu, wakeOk>>

(* cgrtos_sched_block of a task that waits for no object and is in no      *)
(* queue: a notification or a delay                                        *)
Sleep(t, timeout) ==
    /\ state' = [state EXCEPT ![t] = "BLOCKED"]
    /\ blockObj' = [blockObj EXCEPT ![t] = NoQueue]
    /\ timed' = [timed EXCEPT ![t] = (timeout = "finite")]
    /\ stage' = [stage EXCEPT ![t] = "yield"]
    /\ UNCHANGED <<oncpu, arg, wakeOk, waitq>>

(* wake_ok = ok and cgrtos_sched_unblock for every task of S, which the    *)
(* caller has popped from its queue                                        *)
Wake(S, ok) ==
    LET woken == {t \in S : state[t] = "BLOCKED"}
    IN  /\ state' = [t \in Tasks |-> IF t \in woken THEN "READY" ELSE state[t]]
        /\ blockObj' = [t \in Tasks |-> IF t \in woken THEN NoQueue ELSE blockObj[t]]
        /\ timed' = [t \in Tasks |-> timed[t] /\ t \notin woken]
        /\ wakeOk' = [t \in Tasks |-> IF t \in S THEN ok ELSE wakeOk[t]]

Unblock(S, ok) == Wake(S, ok) /\ UNCHANGED <<oncpu, stage, arg>>

(* the head of q is popped and signalled                                   *)
PopHighest(q) ==
    /\ Unblock({Head(waitq[q])}, TRUE)
    /\ waitq' = [waitq EXCEPT ![q] = Tail(@)]

(* an object is deleted: its waiters wake with wake_ok = 0                 *)
WakeAll(q) ==
    /\ Unblock({t \in Tasks : InList(waitq[q], t)}, FALSE)
    /\ waitq' = [waitq EXCEPT ![q] = << >>]

(* the call t was blocked in comes back from its yield                     *)
Resumes(t) == t \in oncpu /\ stage[t] = "wait"

Leave(t) ==
    /\ stage' = [stage EXCEPT ![t] = "run"]
    /\ arg' = [arg EXCEPT ![t] = NoQueue]

LeaveCall(t) ==
    /\ Leave(t)
    /\ UNCHANGED <<state, oncpu, blockObj, timed, wakeOk, waitq>>

-----------------------------------------------------------------------------
(* The actions of the core.                                                *)

(* cgrtos_sched_switch_from_trap on one core: old leaves it, new enters    *)
Switch(old, new) ==
    /\ old # NoTask \/ new # NoTask
    /\ IF old = NoTask THEN Cardinality(oncpu) < NumCores ELSE old \in oncpu
    /\ new # NoTask => state[new] = "READY" /\ new \notin oncpu \ {old}
    /\ oncpu' = (oncpu \ {old}) \cup ({new} \ {NoTask})
    /\ state' = [t \in Tasks |->
                    CASE t = new -> "RUNNING"
                      [] t = old /\ t # new /\ state[t] = "RUNNING" -> "READY"
                      [] t = old /\ t # new /\ state[t] = "DELETED" -> "FREE"
                      [] OTHER -> state[t]]
    /\ stage' = [t \in Tasks |-> IF t = old /\ stage[t] = "yield"
                                 THEN "wait" ELSE stage[t]]
    /\ UNCHANGED <<arg, blockObj, timed, wakeOk, waitq, prioVars>>

(* Bug form: the expired task stays in the wait queue                      *)
ExpireWithoutPurge(t) ==
    /\ state[t] = "BLOCKED" /\ timed[t]
    /\ Unblock({t}, FALSE)
    /\ UNCHANGED <<waitq, prioVars>>

(* Bug form: wake_ok is not reset by the expiry                            *)
ExpireWithoutResult(t) ==
    /\ state[t] = "BLOCKED" /\ timed[t]
    /\ Unblock({t}, wakeOk[t])
    /\ waitq' = PurgeWaits(t)
    /\ UNCHANGED prioVars

(* sched_process_delayed_tasks: the delay of t is over                     *)
Expire(t) ==
    /\ state[t] = "BLOCKED" /\ timed[t]
    /\ Unblock({t}, FALSE)
    /\ waitq' = PurgeWaits(t)
    /\ UNCHANGED prioVars

(* cgrtos_task_suspend: wake_ok is left as the last wake-up set it         *)
Suspend(t) ==
    /\ t \in Suspendable /\ state[t] # "FREE"
    /\ state' = [state EXCEPT ![t] = "SUSPENDED"]
    /\ timed' = [timed EXCEPT ![t] = FALSE]
    /\ waitq' = PurgeWaits(t)
    /\ UNCHANGED <<oncpu, stage, arg, blockObj, wakeOk, prioVars>>

(* cgrtos_task_resume                                                      *)
Resume(t) ==
    /\ state[t] = "SUSPENDED"
    /\ state' = [state EXCEPT ![t] = "READY"]
    /\ UNCHANGED <<oncpu, stage, arg, blockObj, timed, wakeOk, waitq, prioVars>>

(* cgrtos_task_delete, of another task or of itself                        *)
Delete(t) ==
    /\ t \in Deletable /\ state[t] # "FREE"
    /\ state' = [state EXCEPT ![t] = IF t \in oncpu THEN "DELETED" ELSE "FREE"]
    /\ timed' = [timed EXCEPT ![t] = FALSE]
    /\ waitq' = PurgeWaits(t)
    /\ UNCHANGED <<oncpu, stage, arg, blockObj, wakeOk>>

(* cgrtos_task_exit up to the call of cgrtos_task_delete on itself, which   *)
(* is all the task does from here on                                       *)
Exit(t) ==
    /\ Executing(t) /\ t \in Deletable
    /\ state' = [state EXCEPT ![t] = "TERMINATED"]
    /\ stage' = [stage EXCEPT ![t] = "exit"]
    /\ UNCHANGED <<oncpu, arg, blockObj, timed, wakeOk, waitq, prioVars>>

(* cgrtos_task_create in a slot that is free and current on no core        *)
Create(t) ==
    /\ state[t] \in {"FREE", "TERMINATED"} /\ t \notin oncpu
    /\ state' = [state EXCEPT ![t] = "READY"]
    /\ prio' = [prio EXCEPT ![t] = CreationPrio[t]]
    /\ basePrio' = [basePrio EXCEPT ![t] = CreationPrio[t]]
    /\ stage' = [stage EXCEPT ![t] = "run"]
    /\ arg' = [arg EXCEPT ![t] = NoQueue]
    /\ blockObj' = [blockObj EXCEPT ![t] = NoQueue]
    /\ wakeOk' = [wakeOk EXCEPT ![t] = FALSE]
    /\ UNCHANGED <<oncpu, timed, waitq>>

(* cgrtos_task_set_priority: a wait queue the task is in keeps its order   *)
SetPriority(t, p) ==
    /\ t \in Reprioritized /\ state[t] # "FREE"
    /\ prio' = [prio EXCEPT ![t] = p]
    /\ basePrio' = [basePrio EXCEPT ![t] = p]
    /\ UNCHANGED blockVars

-----------------------------------------------------------------------------
(* What every IPC object relies on.                                        *)

(* A task is in a wait queue exactly when it is BLOCKED on that object, so *)
(* a give, an expiry, a suspension and a deletion that race for the same   *)
(* waiter act on it once.                                                  *)
QueueMembership ==
    \A t \in Tasks, q \in Queues :
        InList(waitq[q], t) <=> state[t] = "BLOCKED" /\ blockObj[t] = q

(* No task is linked twice into a wait queue: a second link of the same    *)
(* list node would close the list into a cycle.                            *)
LinkedOnce ==
    \A q \in Queues : \A i, j \in 1..Len(waitq[q]) :
        waitq[q][i] = waitq[q][j] => i = j

(* Only a BLOCKED task is in the delayed list.                             *)
DelayedIsBlocked == \A t \in Tasks : timed[t] => state[t] = "BLOCKED"

(* A blocked task is inside the call that blocked it, and its core has not *)
(* been through the trap yet if it is still current there.                 *)
BlockedInCall ==
    \A t \in Tasks : state[t] = "BLOCKED" =>
        /\ InCall(t)
        /\ t \in oncpu => stage[t] = "yield"

(* A suspended task comes back only through resume, a deleted one only     *)
(* through create ("no longer takes part in scheduling", task.c).  The     *)
(* code does not keep this for a task that is executing on another core    *)
(* and blocks before its core traps (no run checks it).                    *)
SuspensionHolds ==
    [][\A t \in Tasks : state[t] = "SUSPENDED" /\ state'[t] # "SUSPENDED"
                            => state'[t] \in {"READY", "DELETED", "FREE"}]_waitVars
DeletionHolds ==
    [][\A t \in Tasks : state[t] = "DELETED" => state'[t] \in {"DELETED", "FREE"}]_waitVars

(* What the actions above preserve together, for every IPC object.         *)
WaitInv ==
    /\ WaitTypeOK
    /\ QueueMembership
    /\ LinkedOnce
    /\ DelayedIsBlocked
    /\ BlockedInCall
=============================================================================

----------------------------- MODULE Scheduler ------------------------------
(***************************************************************************)
(* The multi-core scheduler of kernel/scheduler.c with the calls of        *)
(* kernel/task.c that move tasks about: the ready lists of each core, the  *)
(* pick, the switch at the end of a trap with its stickiness and forced    *)
(* yields, wake-ups across cores, and load balancing.                      *)
(*                                                                         *)
(* There are two locks.  The calls hold g_klock from end to end, with the  *)
(* interrupts of their core off; the lists are changed under g_ready_lock, *)
(* which is all a switch or the balancer takes.  So a call that touches a  *)
(* list and the task's fields is several steps here (klock), and a switch  *)
(* of another core may come between any two.                               *)
(*                                                                         *)
(* vruntime and deadlines are data: a task enters the CFS and the EDF list *)
(* at any place, and a deadline is urgent or not as it pleases.  EDF       *)
(* releases are the subject of Deadlines.                                  *)
(***************************************************************************)
EXTENDS Integers, Sequences, FiniteSets, SequencesExt

CONSTANTS
    Tasks,      (* the task control blocks, idle excluded                  *)
    NoTask,     (* the idle task of a core                                 *)
    NumCores,   (* CONFIG_NUM_CORES, all online                            *)
    MaxPrio, RtPrio,    (* CONFIG_MAX_PRIORITY, CONFIG_RT_PRIO_THRESHOLD   *)
    Policy,     (* task->policy                                            *)
    CreationPrio,   (* the prio argument of each cgrtos_task_create        *)
    CreationAff,    (* the affinity each task is given before it runs      *)
    Blocking,   (* tasks that make blocking calls                          *)
    Managed,    (* tasks whose priority, threshold, affinity and life      *)
                (* other tasks change                                      *)
    Remote,     (* whether they do it while the task runs elsewhere        *)
    Affinities, (* the arguments of cgrtos_task_set_affinity               *)
    Balance,    (* whether load balancing is compiled in                   *)
    MaxSuspend  (* bound on g_sched_suspend_count                          *)

Cores == 0..(NumCores - 1)
AnyCore == NumCores     (* cpu_aff = 0xFF                                  *)

ASSUME SchedAssumption ==
    /\ NoTask \notin Tasks /\ IsFiniteSet(Tasks)
    /\ NumCores \in Nat \ {0} /\ MaxPrio \in Nat /\ RtPrio \in Nat /\ MaxSuspend \in Nat
    /\ Policy \in [Tasks -> {"PRIORITY", "RR", "CFS", "EDF", "HYBRID"}]
    /\ CreationPrio \in [Tasks -> 0..MaxPrio]
    /\ CreationAff \in [Tasks -> Cores \cup {AnyCore}]
    /\ Blocking \subseteq Tasks /\ Managed \subseteq Tasks
    /\ Affinities \subseteq Cores \cup {AnyCore}
    /\ Remote \in BOOLEAN /\ Balance \in BOOLEAN

VARIABLES
    state,      (* task->state; "FREE" is a slot with id = 0               *)
    prio,       (* task->prio                                              *)
    thresh,     (* task->preempt_thresh                                    *)
    aff,        (* task->cpu_aff                                           *)
    runCpu,     (* task->run_cpu                                           *)
    current,    (* g_current                                               *)
    ready,      (* g_ready, g_cfs_ready and g_edf_global, head first       *)
    pending,    (* g_yield_pending: the next trap exit switches            *)
    force,      (* g_force_yield                                           *)
    suspended,  (* g_sched_suspend_count                                   *)
    owes,       (* tasks between the section that blocked them and the     *)
                (* yield that follows it                                   *)
    klock,      (* the call that holds g_klock, between two of its steps   *)
    yielded     (* history: the current task of the core has yielded since *)
                (* it was switched to                                      *)

taskVars == <<state, prio, thresh, aff, runCpu>>
coreVars == <<current, pending, force, yielded>>
vars     == <<taskVars, coreVars, ready, suspended, owes, klock>>

FreeLock == [call |-> "none", core |-> 0, task |-> NoTask, arg |-> 0]

-----------------------------------------------------------------------------
(* The ready lists.                                                        *)

Lists ==
    ({"prio"} \X Cores \X (0..MaxPrio)) \cup ({"cfs"} \X Cores \X {0}) \cup {<<"edf", 0, 0>>}

(* cgrtos_sched_target_core                                                *)
TargetCore(t) == IF aff[t] # AnyCore THEN aff[t] ELSE runCpu[t]

(* The class of a task that has priority p, and where it may run.          *)
UsesPriority(t, p) == Policy[t] \in {"PRIORITY", "RR"} \/ (Policy[t] = "HYBRID" /\ p >= RtPrio)
UsesCfs(t, p) == Policy[t] = "CFS" \/ (Policy[t] = "HYBRID" /\ p < RtPrio)
UsesEdf(t) == Policy[t] = "EDF"
AffinityOk(t, c) == aff[t] \in {AnyCore, c}

(* sched_add_ready_locked: the list by class, on the target core           *)
ListAt(t, c, p) ==
    CASE UsesEdf(t)    -> <<"edf", 0, 0>>
      [] UsesCfs(t, p) -> <<"cfs", c, 0>>
      [] OTHER         -> <<"prio", c, p>>

ListOf(t) == ListAt(t, TargetCore(t), prio[t])

(* what the lists may become when t is added to l: at its end, or by its   *)
(* vruntime or deadline                                                    *)
AddPriorityReady(lists, l, t) == [lists EXCEPT ![l] = Append(@, t)]
AddSortedReady(lists, l, t) == {[lists EXCEPT ![l] = InsertAt(@, i, t)] : i \in 1..(Len(lists[l]) + 1)}

AddTo(lists, l, t) ==
    IF l[1] = "prio" THEN {AddPriorityReady(lists, l, t)} ELSE AddSortedReady(lists, l, t)

AddReady(lists, t) == AddTo(lists, ListOf(t), t)

(* unlinking a task that is in no list empties the fixed-priority list it  *)
(* is looked for in: its prev is null, and so is its next                  *)
Unlinked(l, q, t) ==
    IF Contains(q, t) THEN RemoveFirst(q, t) ELSE IF l[1] = "prio" THEN << >> ELSE q

(* sched_remove_ready_locked                                               *)
RemoveReady(lists, t) ==
    IF state[t] = "READY" THEN [lists EXCEPT ![ListOf(t)] = Unlinked(ListOf(t), @, t)] ELSE lists

Queued(t) == {l \in Lists : Contains(ready[l], t)}

(* sched_highest_ready_prio of the bitmap of core c                        *)
HighestReadyPrio(c) ==
    LET filled == {p \in 0..MaxPrio : ready[<<"prio", c, p>>] # << >>}
    IN  IF filled = {} THEN -1 ELSE CHOOSE p \in filled : \A r \in filled : r <= p

(* sched_pick_priority                                                     *)
PickPriority(c) ==
    LET top   == HighestReadyPrio(c)
        list  == IF top = -1 THEN << >> ELSE ready[<<"prio", c, top>>]
        mayGo == {i \in 1..Len(list) : AffinityOk(list[i], c)}
    IN  IF mayGo = {} THEN NoTask ELSE list[CHOOSE i \in mayGo : \A j \in mayGo : i <= j]

(* sched_pick_cfs                                                          *)
PickCfs(c) == IF ready[<<"cfs", c, 0>>] = << >> THEN NoTask ELSE Head(ready[<<"cfs", c, 0>>])

(* Bug form: every core takes the head of the list                         *)
PickEdfHead(c) == IF ready[<<"edf", 0, 0>>] = << >> THEN NoTask ELSE Head(ready[<<"edf", 0, 0>>])

(* sched_pick_edf: the cores are given out along the global list; AnyCore  *)
(* is the seat of a task that gets none                                    *)
PickEdf(c) ==
    LET edf == ready[<<"edf", 0, 0>>]
        seat[i \in 1..Len(edf)] ==
            LET free == Cores \ {seat[j] : j \in 1..(i - 1)}
                t    == edf[i]
            IN  IF TargetCore(t) \in free THEN TargetCore(t)
                ELSE IF aff[t] # AnyCore \/ free = {} THEN AnyCore
                ELSE CHOOSE k \in free : \A j \in free : k <= j
        mine == {i \in 1..Len(edf) : seat[i] = c}
    IN  IF mine = {} THEN NoTask ELSE edf[CHOOSE i \in mine : TRUE]

(* sched_pick_next                                                         *)
PickNext(c, urgent) ==
    LET edf == PickEdf(c)
        pri == PickPriority(c)
    IN  IF edf # NoTask /\ (pri = NoTask \/ urgent) THEN edf
        ELSE IF pri # NoTask THEN pri
        ELSE PickCfs(c)

-----------------------------------------------------------------------------
(* The tasks have been created and placed, and each core runs its idle     *)
(* task, as cgrtos_start_secondary leaves it.                              *)
Init ==
    /\ state = [t \in Tasks |-> "READY"]
    /\ prio = CreationPrio /\ thresh = CreationPrio
    /\ aff = CreationAff
    /\ runCpu = [t \in Tasks |-> IF CreationAff[t] = AnyCore THEN 0 ELSE CreationAff[t]]
    /\ current = [c \in Cores |-> NoTask]
    /\ ready = [l \in Lists |-> SetToSeq({t \in Tasks : ListOf(t) = l})]
    /\ pending = [c \in Cores |-> FALSE] /\ force = [c \in Cores |-> FALSE]
    /\ yielded = [c \in Cores |-> FALSE]
    /\ suspended = 0
    /\ owes = {}
    /\ klock = FreeLock

-----------------------------------------------------------------------------
(* The switch.                                                             *)

(* interrupts of c are off while a call on c holds g_klock                 *)
Interruptible(c) == klock.call = "none" \/ klock.core # c

(* Bug form: the candidate is held against its own threshold               *)
SticksToOwn(cur, next, urgent) ==
    /\ Policy[cur] # "RR" /\ UsesPriority(cur, prio[cur])
    /\ next = NoTask \/ UsesCfs(next, prio[next]) \/ prio[next] <= thresh[next]

(* the running PRIORITY task, or HYBRID one of the priority class, keeps   *)
(* its core from next                                                      *)
Sticks(cur, next, urgent) ==
    /\ Policy[cur] # "RR" /\ UsesPriority(cur, prio[cur])
    /\ \/ next = NoTask
       \/ UsesCfs(next, prio[next])
       \/ UsesPriority(next, prio[next]) /\ prio[next] <= thresh[cur]
       \/ UsesEdf(next) /\ ~urgent

(* cgrtos_task_reclaim_deleted, of the task that core c has just left      *)
Reclaimed(t, c) == IF \E k \in Cores \ {c} : current[k] = t THEN "DELETED" ELSE "FREE"

(* current of c goes from cur to next (both may be idle); lists holds cur  *)
(* again if it may go on                                                   *)
SwitchTo(c, cur, next, lists) ==
    /\ current' = [current EXCEPT ![c] = next]
    /\ ready' = IF next = NoTask \/ (next # cur /\ state[next] # "READY") THEN lists
                ELSE [lists EXCEPT ![ListOf(next)] = Unlinked(ListOf(next), @, next)]
    /\ state' = [t \in Tasks |->
                    CASE t = next -> "RUNNING"
                      [] t = cur /\ t # next /\ state[t] = "RUNNING" -> "READY"
                      [] t = cur /\ t # next /\ state[t] = "DELETED" -> Reclaimed(t, c)
                      [] OTHER -> state[t]]
    /\ runCpu' = [t \in Tasks |-> IF t = next /\ next # cur THEN c ELSE runCpu[t]]
    /\ yielded' = [yielded EXCEPT ![c] = IF next # cur THEN FALSE ELSE @]

(* the end of a trap with g_yield_pending set:                             *)
(* cgrtos_sched_switch_from_trap                                           *)
Trap(c) ==
    /\ Interruptible(c) /\ pending[c]
    /\ pending' = [pending EXCEPT ![c] = FALSE]
    /\ \/ /\ suspended > 0
          /\ UNCHANGED <<taskVars, current, ready, force, yielded>>
       \/ /\ suspended = 0
          /\ \E urgent \in BOOLEAN :
               LET cur     == current[c]
                   next    == PickNext(c, urgent)
                   running == cur # NoTask /\ state[cur] = "RUNNING"
               IN  /\ force' = [force EXCEPT ![c] = @ /\ ~running]
                   /\ IF running /\ ~force[c] /\ Sticks(cur, next, urgent)
                      THEN UNCHANGED <<state, current, ready, runCpu, yielded>>
                      ELSE \E lists \in (IF running THEN AddReady(ready, cur) ELSE {ready}) :
                             SwitchTo(c, cur, next, lists)
          /\ UNCHANGED <<prio, thresh, aff>>
    /\ UNCHANGED <<suspended, owes, klock>>

(* cgrtos_tick_local, which asks for a switch whatever the time slices     *)
(* say unless the scheduler is suspended, when the switch is a no-op       *)
Tick(c) ==
    /\ Interruptible(c)
    /\ pending' = [pending EXCEPT ![c] = TRUE]
    /\ UNCHANGED <<taskVars, current, force, yielded, ready, suspended, owes, klock>>

-----------------------------------------------------------------------------
(* What the running tasks and the interrupts do.                           *)

Kick(S) == pending' = [c \in Cores |-> pending[c] \/ c \in S]

(* the cores told that t is ready, by a call on core c                     *)
KickedBy(c, t, target) == IF UsesEdf(t) THEN Cores ELSE {target} \ {c}

(* t executes on c and is at liberty to make a call that takes g_klock     *)
Acts(c, t) ==
    /\ current[c] = t /\ t # NoTask /\ t \notin owes
    /\ klock.call = "none"
    /\ ~(pending[c] /\ force[c])

(* cgrtos_sched_yield, up to the ecall                                     *)
Yield(c) ==
    /\ Interruptible(c) /\ ~(pending[c] /\ force[c])
    /\ current[c] # NoTask
    /\ owes' = owes \ {current[c]}
    /\ IF suspended > 0
       THEN UNCHANGED <<pending, force, yielded>>
       ELSE /\ pending' = [pending EXCEPT ![c] = TRUE]
            /\ force' = [force EXCEPT ![c] = TRUE]
            /\ yielded' = [yielded EXCEPT ![c] = TRUE]
    /\ UNCHANGED <<taskVars, current, ready, suspended, klock>>

(* the section of a blocking call: cgrtos_sched_block                      *)
Block(c, t) ==
    /\ Acts(c, t) /\ t \in Blocking
    /\ ready' = RemoveReady(ready, t)
    /\ state' = [state EXCEPT ![t] = "BLOCKED"]
    /\ owes' = owes \cup {t}
    /\ UNCHANGED <<prio, thresh, aff, runCpu, coreVars, suspended, klock>>

(* cgrtos_sched_unblock on core c, by a task, an interrupt or the tick     *)
Unblock(c, t) ==
    /\ klock.call = "none" /\ state[t] = "BLOCKED"
    /\ ready' \in AddReady(ready, t)
    /\ state' = [state EXCEPT ![t] = "READY"]
    /\ Kick(KickedBy(c, t, TargetCore(t)))
    /\ UNCHANGED <<prio, thresh, aff, runCpu, current, force, yielded, suspended, owes, klock>>

(* a managed task that the caller on core c may name                       *)
Names(c, t) ==
    /\ t \in Managed /\ state[t] # "FREE"
    /\ Remote \/ \A k \in Cores \ {c} : current[k] # t

(* the first step of cgrtos_task_set_priority, cgrtos_task_set_affinity,   *)
(* cgrtos_task_suspend and cgrtos_task_delete                              *)
BeginCall(c, call, t, x) ==
    /\ \E u \in Tasks : Acts(c, u)
    /\ Names(c, t)
    /\ ready' = RemoveReady(ready, t)
    /\ klock' = [call |-> call, core |-> c, task |-> t, arg |-> x]
    /\ UNCHANGED <<taskVars, coreVars, suspended, owes>>

(* every such call ends in a yield                                         *)
EndCall ==
    /\ klock' = FreeLock
    /\ owes' = owes \cup ({current[klock.core]} \ {NoTask})

WritePriority ==
    /\ klock.call = "prio"
    /\ prio' = [prio EXCEPT ![klock.task] = klock.arg]
    /\ thresh' = [thresh EXCEPT ![klock.task] = IF @ < klock.arg THEN klock.arg ELSE @]
    /\ klock' = [klock EXCEPT !.call = "requeue"]
    /\ UNCHANGED <<state, aff, runCpu, coreVars, ready, suspended, owes>>

WriteAffinity ==
    /\ klock.call = "aff"
    /\ aff' = [aff EXCEPT ![klock.task] = klock.arg]
    /\ klock' = [klock EXCEPT !.call = "requeue"]
    /\ Kick({klock.arg} \ {AnyCore, klock.core})
    /\ UNCHANGED <<state, prio, thresh, runCpu, current, force, yielded, ready, suspended, owes>>

(* Bug form: whatever the state of the task                                *)
RequeueAlways ==
    /\ klock.call = "requeue"
    /\ ready' \in AddReady(ready, klock.task)
    /\ EndCall
    /\ UNCHANGED <<taskVars, coreVars, suspended>>

(* the last step of both: back into the list of its new place              *)
Requeue ==
    /\ klock.call = "requeue"
    /\ IF state[klock.task] = "READY"
       THEN ready' \in AddReady(ready, klock.task)
       ELSE UNCHANGED ready
    /\ EndCall
    /\ UNCHANGED <<taskVars, coreVars, suspended>>

WriteSuspended ==
    /\ klock.call = "suspend"
    /\ state' = [state EXCEPT ![klock.task] = "SUSPENDED"]
    /\ EndCall
    /\ UNCHANGED <<prio, thresh, aff, runCpu, coreVars, ready, suspended>>

WriteDeleted ==
    /\ klock.call = "delete"
    /\ LET t == klock.task
           running == {c \in Cores : current[c] = t}
       IN  /\ state' = [state EXCEPT ![t] = IF running = {} THEN "FREE" ELSE "DELETED"]
           /\ Kick((running \cap {runCpu[t]}) \ {klock.core})
    /\ EndCall
    /\ UNCHANGED <<prio, thresh, aff, runCpu, current, force, yielded, ready, suspended>>

(* cgrtos_task_set_preempt_threshold                                       *)
SetThreshold(c, t, x) ==
    /\ \E u \in Tasks : Acts(c, u)
    /\ Names(c, t) /\ x >= prio[t]
    /\ thresh' = [thresh EXCEPT ![t] = x]
    /\ owes' = owes \cup {current[c]}
    /\ UNCHANGED <<state, prio, aff, runCpu, coreVars, ready, suspended, klock>>

(* cgrtos_task_resume                                                      *)
Resume(c, t) ==
    /\ \E u \in Tasks : Acts(c, u)
    /\ Names(c, t) /\ state[t] = "SUSPENDED"
    /\ ready' \in AddReady(ready, t)
    /\ state' = [state EXCEPT ![t] = "READY"]
    /\ Kick(IF UsesEdf(t) THEN Cores ELSE {})
    /\ owes' = owes \cup {current[c]}
    /\ UNCHANGED <<prio, thresh, aff, runCpu, current, force, yielded, suspended, klock>>

(* task_alloc_slot: no core runs the task that was in it                   *)
SlotFree(t) == state[t] \in {"FREE", "DELETED"} /\ \A c \in Cores : current[c] # t

(* cgrtos_task_create in a free slot, on the core least loaded just now    *)
Create(c, t, k) ==
    /\ \E u \in Tasks : Acts(c, u)
    /\ SlotFree(t)
    /\ state' = [state EXCEPT ![t] = "READY"]
    /\ prio' = [prio EXCEPT ![t] = CreationPrio[t]]
    /\ thresh' = [thresh EXCEPT ![t] = CreationPrio[t]]
    /\ aff' = [aff EXCEPT ![t] = AnyCore]
    /\ runCpu' = [runCpu EXCEPT ![t] = k]
    /\ ready' \in AddTo(ready, ListAt(t, k, CreationPrio[t]), t)
    /\ Kick(KickedBy(c, t, k))
    /\ UNCHANGED <<current, force, yielded, suspended, owes, klock>>

(* sched_migrate_task, in the tick of core 0 and without g_klock           *)
Migrate(t, dst) ==
    /\ Balance /\ suspended = 0 /\ Interruptible(0)
    /\ state[t] = "READY" /\ aff[t] = AnyCore /\ ~UsesEdf(t)
    /\ runCpu[t] # dst
    /\ runCpu' = [runCpu EXCEPT ![t] = dst]
    /\ ready' \in AddTo(RemoveReady(ready, t), ListAt(t, dst, prio[t]), t)
    /\ Kick({dst})
    /\ UNCHANGED <<state, prio, thresh, aff, current, force, yielded, suspended, owes, klock>>

(* cgrtos_sched_suspend, cgrtos_sched_resume                               *)
SuspendScheduler(c) ==
    /\ \E u \in Tasks : Acts(c, u)
    /\ suspended < MaxSuspend
    /\ suspended' = suspended + 1
    /\ UNCHANGED <<taskVars, coreVars, ready, owes, klock>>

ResumeScheduler(c) ==
    /\ \E u \in Tasks : Acts(c, u)
    /\ suspended' = IF suspended > 0 THEN suspended - 1 ELSE 0
    /\ owes' = IF suspended <= 1 THEN owes \cup {current[c]} ELSE owes
    /\ UNCHANGED <<taskVars, coreVars, ready, klock>>

-----------------------------------------------------------------------------
CoreStep ==
    \E c \in Cores :
        \/ Tick(c) \/ Trap(c) \/ Yield(c) \/ SuspendScheduler(c) \/ ResumeScheduler(c)
        \/ \E t \in Tasks : Block(c, t) \/ Unblock(c, t) \/ Resume(c, t) \/ Migrate(t, c)
        \/ \E t \in Tasks, k \in Cores : Create(c, t, k)
        \/ \E t \in Tasks, p \in 0..MaxPrio : SetThreshold(c, t, p)

CallStep ==
    \/ \E c \in Cores, t \in Tasks, p \in 0..MaxPrio : BeginCall(c, "prio", t, p)
    \/ \E c \in Cores, t \in Tasks, a \in Affinities : BeginCall(c, "aff", t, a)
    \/ \E c \in Cores, t \in Tasks, call \in {"suspend", "delete"} : BeginCall(c, call, t, 0)
    \/ WritePriority \/ WriteAffinity \/ Requeue \/ WriteSuspended \/ WriteDeleted

Next == CoreStep \/ CallStep

Spec == Init /\ [][Next]_vars

(* A tick or a trap that waits for interrupts to be enabled is taken as    *)
(* soon as they are, and what a call on a core has begun it ends.          *)
Fairness ==
    /\ \A c \in Cores : SF_vars(Tick(c)) /\ SF_vars(Trap(c))
    /\ WF_vars(WritePriority \/ WriteAffinity \/ Requeue \/ WriteSuspended \/ WriteDeleted)

FairSpec == Spec /\ Fairness

-----------------------------------------------------------------------------
(* A task is in a ready list exactly when it is READY, in one list, once,  *)
(* and in the list it will be looked for in; but for the one a call has    *)
(* taken out and not put back yet.                                         *)
QueuedIffReady ==
    \A t \in Tasks : (klock.call = "none" \/ klock.task # t) =>
        /\ Queued(t) = IF state[t] = "READY" THEN {ListOf(t)} ELSE {}
        /\ \A l \in Queued(t) : Cardinality({i \in 1..Len(ready[l]) : ready[l][i] = t}) = 1

(* No task executes on two cores, nor can be picked by one core while it   *)
(* still executes on another: its saved context would be that of an        *)
(* earlier switch.  A RUNNING task is current on the core its run_cpu says *)
(* and a deleted one keeps its slot as long as it is current somewhere.    *)
OnOneCore ==
    /\ \A c, k \in Cores : c # k =>
         current[c] = NoTask \/ current[c] \notin {current[k], PickEdf(k)}
    /\ \A t \in Tasks, c \in Cores :
         current[c] = t /\ state[t] = "READY" /\ Policy[t] # "EDF" => TargetCore(t) = c
    /\ \A t \in Tasks :
        /\ state[t] = "RUNNING" => current[runCpu[t]] = t
        /\ state[t] = "FREE" => \A c \in Cores : current[c] # t
        /\ state[t] = "DELETED" => \E c \in Cores : current[c] = t

(* A running PRIORITY task that has not yielded since it was switched to   *)
(* goes on unless the task that replaces it is urgent or beats its         *)
(* preemption threshold (docs/MODULE1_SCHED.md, 3.1).                      *)
StickyUnlessYielded ==
    [][\A c \in Cores : LET cur == current[c] next == current'[c] IN
         (next # cur /\ cur # NoTask) =>
            \/ state[cur] # "RUNNING" \/ Policy[cur] # "PRIORITY" \/ yielded[c]
            \/ next # NoTask /\ (Policy[next] = "EDF" \/ prio[next] > thresh[cur])]_vars

(* A task that alone has the highest priority, and that no other task      *)
(* moves about, does not stay READY for ever while switches are allowed:   *)
(* whatever runs on its core is made to give way by the tick.              *)
Topmost(t) ==
    /\ t \notin Managed /\ aff[t] # AnyCore /\ Policy[t] \in {"PRIORITY", "RR"}
    /\ \A u \in Tasks \ {t} : Policy[u] # "EDF" /\ thresh[u] < prio[t]

TopmostRuns ==
    \A t \in Tasks : (state[t] = "READY" /\ Topmost(t)) ~> (state[t] # "READY" \/ suspended > 0)
=============================================================================

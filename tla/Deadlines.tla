----------------------------- MODULE Deadlines ------------------------------
(***************************************************************************)
(* Ticks, delays and deadlines: the delayed list and the EDF release wheel *)
(* of kernel/scheduler.c with the calls of kernel/task.c that use them.    *)
(*                                                                         *)
(* The tick runs on core 0 in sections: it counts, wakes who has slept     *)
(* enough (g_klock), advances the wheel and collects who is due            *)
(* (g_ready_lock), and releases those one after the other, arming each     *)
(* again.  A release takes no lock of its own: it looks at the state of    *)
(* the job, and takes it off a list and puts it on one in sections under   *)
(* g_ready_lock, a step each here.  Tasks of other cores act between any   *)
(* two steps.  A call of a task is one step, though, as its sections under *)
(* g_klock make it for every other call; that a release may fall within    *)
(* one as well, and that it takes a job off the delayed list beside        *)
(* whoever walks it, is left out.  Which READY job runs is for the         *)
(* scheduler: any of them here.                                            *)
(*                                                                         *)
(* A release can be overtaken: its job has a core, is suspended or sleeps  *)
(* again by the time it is made READY.  From then on the state of the job  *)
(* says nothing of where it is, and the model ends (relinked).             *)
(***************************************************************************)
EXTENDS Integers, Sequences, FiniteSets, SequencesExt

CONSTANTS
    Jobs,           (* the task control blocks                             *)
    EdfJobs,        (* those whose policy is EDF                           *)
    ObjectWaiters,  (* those that wait for objects; they have no period,   *)
                    (* because a release would leave them in the queue of  *)
                    (* the object                                          *)
    Retimed,        (* those whose deadline the application sets           *)
    ReleaseSlots,   (* CONFIG_EDF_RELEASE_SLOTS, a power of two            *)
    MaxRelease,     (* how many jobs one tick can release: 16              *)
    JobPeriods,     (* the arguments of set_period                         *)
    Spans,          (* delays, timeouts, and deadlines from now on         *)
    MaxTicks        (* bound on g_ticks                                    *)

ASSUME DeadlineAssumption ==
    /\ EdfJobs \subseteq Jobs /\ ObjectWaiters \subseteq Jobs /\ Retimed \subseteq Jobs
    /\ ReleaseSlots \in Nat \ {0} /\ MaxRelease \in Nat /\ MaxTicks \in Nat
    /\ JobPeriods \subseteq Nat /\ Spans \subseteq Nat

VARIABLES
    ticks,      (* g_ticks                                                 *)
    phase,      (* how far core 0 is in cgrtos_tick_handler                *)
    due,        (* to_release: the jobs it has still to release            *)
    mode,       (* task->state, with the block_reason of a blocked job     *)
    deadline, jobPeriod,    (* task->deadline, task->period                *)
    delayed,    (* g_delayed_list: jobs and wake ticks, from the head on   *)
    edfq,       (* g_edf_global: jobs and the deadlines they were put by   *)
    relWheel,   (* g_edf_rel: for each slot, jobs and rounds               *)
    relCursor,  (* g_edf_rel_cursor                                        *)
    arming,     (* jobs that a call will arm once it has left its section  *)
    when,       (* history: the release each armed job was promised        *)
    staleOrder, (* history: READY jobs whose deadline set_period, or the   *)
                (* beginning of a release, changed                         *)
    relinked    (* history: whether a release was overtaken                *)

listVars     == <<delayed, edfq>>
relVars      == <<relWheel, relCursor, when>>
deadlineVars == <<ticks, phase, due, mode, deadline, jobPeriod, listVars, relVars, arming, staleOrder, relinked>>

Modes == {"free", "ready", "running", "delay", "object", "suspended"}
Slot  == 0..(ReleaseSlots - 1)

DeadlineTypeOK ==
    /\ ticks \in 0..MaxTicks
    /\ phase \in {"idle", "counted", "woken", "release", "unblock", "remove", "add", "rearm"}
    /\ due \in Seq(Jobs) /\ mode \in [Jobs -> Modes]
    /\ deadline \in [Jobs -> Nat] /\ jobPeriod \in [Jobs -> JobPeriods \cup {0}]
    /\ delayed \in Seq([job : Jobs, key : Nat]) /\ edfq \in Seq([job : Jobs, key : Nat])
    /\ relWheel \in [Slot -> Seq([job : Jobs, rounds : Nat])] /\ relCursor \in Slot
    /\ arming \in SUBSET Jobs /\ staleOrder \in SUBSET Jobs /\ when \in [Jobs -> Nat]
    /\ relinked \in BOOLEAN

DeadlineInit ==
    /\ ticks = 0 /\ phase = "idle" /\ due = << >>
    /\ mode = [j \in Jobs |-> "free"]
    /\ deadline = [j \in Jobs |-> 0] /\ jobPeriod = [j \in Jobs |-> 0]
    /\ delayed = << >> /\ edfq = << >>
    /\ relWheel = [s \in Slot |-> << >>] /\ relCursor = 0
    /\ arming = {} /\ staleOrder = {} /\ when = [j \in Jobs |-> 0] /\ relinked = FALSE

-----------------------------------------------------------------------------
(* The lists.                                                              *)

(* a job has one item for each list                                       *)
Without(list, j) == RemoveFirstMatch(list, LAMBDA e : e.job = j)
HasEntry(list, j) == \E e \in ToSet(list) : e.job = j
OnWheel(j) == \E s \in Slot : \E e \in ToSet(relWheel[s]) : e.job = j

(* before the p-th entry, or at the end                                    *)
Placed(list, j, k, p) ==
    LET e == [job |-> j, key |-> k] IN IF p = 0 THEN Append(list, e) ELSE InsertAt(list, p, e)

(* sched_delayed_insert: before the first that wakes later                 *)
DelayedInsert(list, j, k) ==
    LET rest == Without(list, j)
    IN  Placed(rest, j, k, SelectInSeq(rest, LAMBDA e : e.key > k))

(* sched_add_edf_ready: before the first whose deadline is no earlier      *)
EdfInsert(list, j, k) ==
    LET rest == Without(list, j)
    IN  Placed(rest, j, k, SelectInSeq(rest, LAMBDA e : e.key >= k))

(* sched_delayed_remove                                                    *)
DelayedRemove(j) == Without(delayed, j)

(* cgrtos_sched_add_ready, whatever the job was                            *)
AddReadyJob(j, d) ==
    /\ mode' = [mode EXCEPT ![j] = "ready"]
    /\ edfq' = IF j \in EdfJobs THEN EdfInsert(edfq, j, d) ELSE edfq
    /\ staleOrder' = staleOrder \ {j}

(* cgrtos_sched_unblock                                                    *)
UnblockJob(j, d) == AddReadyJob(j, d) /\ delayed' = DelayedRemove(j)

(* edf_wheel_remove                                                        *)
Disarmed(j) == [s \in Slot |-> Without(relWheel[s], j)]

(* Bug form: a turn too many                                               *)
TurnsUp(delta) == (delta \div ReleaseSlots) + 1

(* the rounds of an entry that is due in delta ticks; the timer wheel of   *)
(* timer.c divides delta - 1                                               *)
Turns(delta) == delta \div ReleaseSlots

(* cgrtos_sched_edf_arm, one section under g_ready_lock                    *)
Arm(j) ==
    LET at    == IF deadline[j] < ticks THEN ticks ELSE deadline[j]
        delta == at - ticks
        slot  == (relCursor + delta) % ReleaseSlots
    IN  IF j \in EdfJobs /\ jobPeriod[j] # 0
        THEN /\ relWheel' = [Disarmed(j) EXCEPT ![slot] =
                                Append(@, [job |-> j, rounds |-> Turns(delta)])]
             /\ when' = [when EXCEPT ![j] = at]
        ELSE relWheel' = Disarmed(j) /\ UNCHANGED when

-----------------------------------------------------------------------------
(* cgrtos_tick_handler on core 0.                                          *)

Count ==
    /\ phase = "idle" /\ ticks < MaxTicks
    /\ ticks' = ticks + 1 /\ phase' = "counted"
    /\ UNCHANGED <<due, mode, deadline, jobPeriod, listVars, relVars, arming, staleOrder, relinked>>

(* Bug form: a tick late                                                   *)
OverdueLate(e) == e.key < ticks

Overdue(e) == e.key <= ticks

(* sched_process_delayed_tasks: the head of the list, while it has slept   *)
(* enough, leaves it and is made READY if it is BLOCKED                    *)
WakeSleepers ==
    /\ phase = "counted"
    /\ LET first  == SelectInSeq(delayed, LAMBDA e : ~Overdue(e))
           n      == IF first = 0 THEN Len(delayed) ELSE first - 1
           up     == SubSeq(delayed, 1, n)
           woken  == {e.job : e \in {x \in ToSet(up) : mode[x.job] \in {"delay", "object"}}}
           ready[i \in 0..Len(up)] ==
               IF i = 0 THEN edfq
               ELSE IF up[i].job \in woken \cap EdfJobs
                    THEN EdfInsert(ready[i - 1], up[i].job, deadline[up[i].job])
                    ELSE ready[i - 1]
       IN  /\ delayed' = SubSeq(delayed, n + 1, Len(delayed))
           /\ edfq' = ready[n]
           /\ mode' = [j \in Jobs |-> IF j \in woken THEN "ready" ELSE mode[j]]
           /\ staleOrder' = staleOrder \ woken
    /\ phase' = "woken"
    /\ UNCHANGED <<ticks, due, deadline, jobPeriod, relVars, arming, relinked>>

(* the locked part of sched_process_edf_releases: who cannot be taken      *)
(* along is off the wheel all the same                                     *)
AdvanceWheel ==
    /\ phase = "woken"
    /\ LET slot == (relCursor + 1) % ReleaseSlots
           here == relWheel[slot]
           later[i \in 0..Len(here)] ==
               IF i = 0 THEN << >>
               ELSE IF here[i].rounds = 0 THEN later[i - 1]
                    ELSE Append(later[i - 1], [here[i] EXCEPT !.rounds = @ - 1])
           taken[i \in 0..Len(here)] ==
               IF i = 0 THEN << >>
               ELSE IF here[i].rounds = 0 /\ Len(taken[i - 1]) < MaxRelease
                    THEN Append(taken[i - 1], here[i].job)
                    ELSE taken[i - 1]
       IN  /\ relCursor' = slot
           /\ relWheel' = [relWheel EXCEPT ![slot] = later[Len(here)]]
           /\ due' = taken[Len(here)]
    /\ phase' = "release"
    /\ UNCHANGED <<ticks, mode, deadline, jobPeriod, listVars, when, arming, staleOrder, relinked>>

(* sched_edf_release of the next job: its new deadline, and where its      *)
(* state, read without a lock, leads                                       *)
Branch(m) ==
    CASE m = "delay"  -> "unblock"
      [] m = "ready"  -> "remove"
      [] m = "object" -> "add"
      [] OTHER -> "rearm"

ReleaseBegins ==
    /\ phase = "release" /\ due # << >>
    /\ LET j == Head(due)
       IN  IF j \notin EdfJobs \/ jobPeriod[j] = 0
           THEN due' = Tail(due) /\ UNCHANGED <<phase, deadline, staleOrder>>
           ELSE /\ deadline' = [deadline EXCEPT ![j] = ticks + jobPeriod[j]]
                /\ phase' = Branch(mode[j])
                /\ staleOrder' = IF mode[j] = "ready" THEN staleOrder \cup {j} ELSE staleOrder
                /\ UNCHANGED due
    /\ UNCHANGED <<ticks, mode, jobPeriod, listVars, relVars, arming, relinked>>

(* cgrtos_sched_unblock up to its call of cgrtos_sched_add_ready           *)
ReleaseUnblock ==
    /\ phase = "unblock"
    /\ LET j == Head(due)
       IN  IF mode[j] \in {"delay", "object"}
           THEN delayed' = DelayedRemove(j) /\ phase' = "add"
           ELSE phase' = "rearm" /\ UNCHANGED delayed
    /\ UNCHANGED <<ticks, due, mode, deadline, jobPeriod, edfq, relVars, arming, staleOrder, relinked>>

(* cgrtos_sched_remove_ready                                               *)
ReleaseRemove ==
    /\ phase = "remove" /\ phase' = "add"
    /\ edfq' = IF mode[Head(due)] = "ready" THEN Without(edfq, Head(due)) ELSE edfq
    /\ UNCHANGED <<ticks, due, mode, deadline, jobPeriod, delayed, relVars, arming, staleOrder, relinked>>

(* cgrtos_sched_add_ready, which asks only whether the job is deleted      *)
ReleaseAdd ==
    /\ phase = "add" /\ phase' = "rearm"
    /\ LET j == Head(due)
       IN  IF mode[j] = "free" THEN UNCHANGED <<mode, edfq, staleOrder, relinked>>
           ELSE /\ AddReadyJob(j, deadline[j])
                /\ relinked' = (mode[j] \in {"running", "suspended"} \/ HasEntry(delayed, j))
    /\ UNCHANGED <<ticks, due, deadline, jobPeriod, delayed, relVars, arming>>

Rearm ==
    /\ phase = "rearm"
    /\ Arm(Head(due))
    /\ due' = Tail(due) /\ phase' = "release"
    /\ UNCHANGED <<ticks, mode, deadline, jobPeriod, listVars, relCursor, arming, staleOrder, relinked>>

TickEnds ==
    /\ phase = "release" /\ due = << >>
    /\ phase' = "idle"
    /\ UNCHANGED <<ticks, due, mode, deadline, jobPeriod, listVars, relVars, arming, staleOrder, relinked>>

-----------------------------------------------------------------------------
(* The calls of tasks.                                                     *)

Elsewhere == UNCHANGED <<ticks, phase, due, relinked>>

(* a switch takes a READY job off its list and gives it a core, or takes   *)
(* the core away                                                           *)
Dispatch(j) ==
    /\ mode[j] = "ready" /\ (j \in EdfJobs => HasEntry(edfq, j))
    /\ mode' = [mode EXCEPT ![j] = "running"]
    /\ edfq' = Without(edfq, j) /\ staleOrder' = staleOrder \ {j}
    /\ Elsewhere /\ UNCHANGED <<deadline, jobPeriod, delayed, relVars, arming>>

Preempt(j) ==
    /\ mode[j] = "running"
    /\ AddReadyJob(j, deadline[j])
    /\ Elsewhere /\ UNCHANGED <<deadline, jobPeriod, delayed, relVars, arming>>

(* cgrtos_sched_block with a timeout, cgrtos_sched_block_until: the        *)
(* running job sleeps until tick k                                         *)
SleepUntil(j, m, k) ==
    /\ mode[j] = "running"
    /\ mode' = [mode EXCEPT ![j] = m]
    /\ delayed' = DelayedInsert(delayed, j, k)
    /\ Elsewhere /\ UNCHANGED <<deadline, jobPeriod, edfq, relVars, arming, staleOrder>>

(* cgrtos_delay; of 0 ticks it is a yield                                  *)
Delay(j, n) == n > 0 /\ SleepUntil(j, "delay", ticks + n)

(* cgrtos_delay_until_tick, and cgrtos_delay_until when its tick has not   *)
(* passed; else they return at once                                        *)
DelayUntil(j, k) == k > ticks /\ SleepUntil(j, "delay", k)

(* a blocking call of the IPC objects, with and without a timeout          *)
AwaitObject(j, n) == j \in ObjectWaiters /\ n > 0 /\ SleepUntil(j, "object", ticks + n)
AwaitForever(j) ==
    /\ j \in ObjectWaiters /\ mode[j] = "running"
    /\ mode' = [mode EXCEPT ![j] = "object"]
    /\ delayed' = DelayedRemove(j)
    /\ Elsewhere /\ UNCHANGED <<deadline, jobPeriod, edfq, relVars, arming, staleOrder>>

(* its object wakes it                                                     *)
Signal(j) ==
    /\ mode[j] = "object"
    /\ UnblockJob(j, deadline[j])
    /\ Elsewhere /\ UNCHANGED <<deadline, jobPeriod, relVars, arming>>

(* cgrtos_task_suspend: the wheel is left alone                            *)
SuspendJob(j) ==
    /\ mode[j] \notin {"free", "suspended"}
    /\ mode' = [mode EXCEPT ![j] = "suspended"]
    /\ edfq' = Without(edfq, j) /\ staleOrder' = staleOrder \ {j}
    /\ delayed' = IF mode[j] \in {"delay", "object"} THEN DelayedRemove(j) ELSE delayed
    /\ Elsewhere /\ UNCHANGED <<deadline, jobPeriod, relVars, arming>>

ResumeJob(j) ==
    /\ mode[j] = "suspended"
    /\ AddReadyJob(j, deadline[j])
    /\ Elsewhere /\ UNCHANGED <<deadline, jobPeriod, delayed, relVars, arming>>

(* cgrtos_task_create                                                      *)
CreateJob(j) ==
    /\ mode[j] = "free"
    /\ deadline' = [deadline EXCEPT ![j] = IF j \in EdfJobs THEN ticks ELSE 0]
    /\ jobPeriod' = [jobPeriod EXCEPT ![j] = 0]
    /\ AddReadyJob(j, ticks)
    /\ Elsewhere /\ UNCHANGED <<delayed, relVars, arming>>

(* cgrtos_task_delete: with its period gone, arming takes it off the wheel *)
DeleteJob(j) ==
    /\ mode[j] # "free"
    /\ mode' = [mode EXCEPT ![j] = "free"]
    /\ edfq' = Without(edfq, j) /\ staleOrder' = staleOrder \ {j}
    /\ delayed' = IF mode[j] \in {"delay", "object"} THEN DelayedRemove(j) ELSE delayed
    /\ jobPeriod' = [jobPeriod EXCEPT ![j] = 0]
    /\ relWheel' = Disarmed(j)
    /\ Elsewhere /\ UNCHANGED <<deadline, relCursor, when, arming>>

(* cgrtos_task_set_period, its section: a READY job keeps its place        *)
SetPeriod(j, p) ==
    /\ mode[j] # "free" /\ j \notin ObjectWaiters
    /\ jobPeriod' = [jobPeriod EXCEPT ![j] = p]
    /\ IF j \in EdfJobs /\ p > 0
       THEN /\ deadline' = [deadline EXCEPT ![j] = ticks + p]
            /\ arming' = arming \cup {j}
            /\ staleOrder' = IF mode[j] = "ready" THEN staleOrder \cup {j} ELSE staleOrder
       ELSE UNCHANGED <<deadline, arming, staleOrder>>
    /\ Elsewhere /\ UNCHANGED <<mode, listVars, relVars>>

(* Bug form: a READY job keeps its place here too                          *)
SetDeadlineInPlace(j, d) ==
    /\ mode[j] # "free" /\ j \in Retimed
    /\ deadline' = [deadline EXCEPT ![j] = d]
    /\ arming' = IF j \in EdfJobs /\ jobPeriod[j] > 0 THEN arming \cup {j} ELSE arming
    /\ Elsewhere /\ UNCHANGED <<mode, staleOrder, jobPeriod, listVars, relVars>>

(* cgrtos_task_set_deadline, its section: a READY job moves                *)
SetDeadline(j, d) ==
    /\ mode[j] # "free" /\ j \in Retimed
    /\ deadline' = [deadline EXCEPT ![j] = d]
    /\ IF mode[j] = "ready" THEN AddReadyJob(j, d) ELSE UNCHANGED <<mode, edfq, staleOrder>>
    /\ arming' = IF j \in EdfJobs /\ jobPeriod[j] > 0 THEN arming \cup {j} ELSE arming
    /\ Elsewhere /\ UNCHANGED <<jobPeriod, delayed, relVars>>

(* and then both arm the job, whatever has become of it                    *)
ArmAfterCall(j) ==
    /\ j \in arming
    /\ Arm(j)
    /\ arming' = arming \ {j}
    /\ Elsewhere /\ UNCHANGED <<mode, deadline, jobPeriod, listVars, relCursor, staleOrder>>

DeadlineStep ==
    /\ ~relinked
    /\ \/ Count \/ WakeSleepers \/ AdvanceWheel \/ Rearm \/ TickEnds
       \/ ReleaseBegins \/ ReleaseUnblock \/ ReleaseRemove \/ ReleaseAdd
       \/ \E j \in Jobs : \/ Dispatch(j) \/ Preempt(j) \/ AwaitForever(j) \/ Signal(j)
                          \/ SuspendJob(j) \/ ResumeJob(j) \/ CreateJob(j) \/ DeleteJob(j)
                          \/ ArmAfterCall(j)
       \/ \E j \in Jobs, n \in Spans : \/ Delay(j, n) \/ DelayUntil(j, ticks + n)
                                       \/ AwaitObject(j, n) \/ SetDeadline(j, ticks + n)
       \/ \E j \in Jobs, p \in JobPeriods : SetPeriod(j, p)

-----------------------------------------------------------------------------
Sorted(list) == \A i, k \in 1..Len(list) : i <= k => list[i].key <= list[k].key

(* the tick in which an entry in slot s with r rounds to go is released    *)
ReleaseTick(s, r) ==
    ticks + (r * ReleaseSlots) + ((s - relCursor - 1) % ReleaseSlots)
          + (IF phase \in {"counted", "woken"} THEN 0 ELSE 1)

(* A release has taken its job off a list and not yet put it on one.       *)
InHand == IF phase = "add" THEN {Head(due)} ELSE {}

(* Nobody oversleeps and nothing wakes twice: the delayed list holds, in   *)
(* order, exactly the jobs that sleep with a limit, but for one that is    *)
(* being released, and once a tick has woken its sleepers, none that it    *)
(* should have woken is left.  A periodic job is never forgotten, and its  *)
(* release comes at the tick it was promised; one tick before when it was  *)
(* armed inside a tick, up to a turn after it when that is a multiple of   *)
(* the wheel away.  So it is whatever is called in between, until a        *)
(* release is overtaken.                                                   *)
DelaysKept ==
    ~relinked =>
    /\ DeadlineTypeOK
    /\ Sorted(delayed)
    /\ \A i, k \in 1..Len(delayed) : delayed[i].job = delayed[k].job => i = k
    /\ \A e \in ToSet(delayed) :
         mode[e.job] \in {"delay", "object"} /\ (phase # "counted" => e.key > ticks)
    /\ \A j \in Jobs \ InHand : mode[j] = "delay" => HasEntry(delayed, j)
    /\ \A j \in EdfJobs : (mode[j] # "free" /\ jobPeriod[j] > 0) =>
         OnWheel(j) \/ j \in arming \/ j \in ToSet(due)
    /\ \A s \in Slot : \A e \in ToSet(relWheel[s]) :
         ReleaseTick(s, e.rounds) \in (when[e.job] - 1)..(when[e.job] + ReleaseSlots)

(* The READY jobs under EDF are in their list, but for one that is being   *)
(* released, and nobody else is; they stand in the order of their          *)
(* deadlines, but for those whose period was changed where they stood and  *)
(* the one whose release has begun.  So it is until a release is overtaken.*)
EarliestFirst ==
    ~relinked =>
    /\ \A j \in EdfJobs : HasEntry(edfq, j) => mode[j] = "ready"
    /\ \A j \in EdfJobs \ InHand : mode[j] = "ready" => HasEntry(edfq, j)
    /\ \A i, k \in 1..Len(edfq) : (i < k /\ {edfq[i].job, edfq[k].job} \cap staleOrder = {}) =>
         deadline[edfq[i].job] <= deadline[edfq[k].job]

(* A release makes READY whoever is still where it found him: a job that   *)
(* runs, is suspended or sleeps anew by then is spared.  It is not so.     *)
ReleaseSpares == ~relinked
=============================================================================

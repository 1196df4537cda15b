----------------------------- MODULE Semaphore ------------------------------
(***************************************************************************)
(* The counting semaphore of kernel/ipc.c on top of the blocking core.     *)
(* A give hands its token to the highest waiter directly, without going    *)
(* through count; the waiter learns of it from wake_ok when it runs again. *)
(***************************************************************************)
EXTENDS TaskWait

CONSTANTS
    Isr,        (* the caller of the *_from_isr variants                   *)
    MaxCount,   (* bound on the max argument of cgrtos_sem_create          *)
    NewPrios    (* the prio arguments of cgrtos_task_set_priority          *)

ASSUME SemAssumption ==
    /\ Isr \notin Tasks
    /\ MaxCount \in Nat \ {0}
    /\ NewPrios \subseteq 0..MaxPrio

Sems == Queues

VARIABLES
    count,       (* sem->count                                             *)
    max,         (* sem->max; 0 marks a free slot of g_sems                *)
    granted,     (* history: tasks handed a token since they last blocked  *)
    outstanding  (* history: tokens put in and not yet obtained by a take  *)

semVars == <<count, max, granted, outstanding>>
vars    == <<waitVars, semVars>>

SemTypeOK ==
    /\ WaitTypeOK
    /\ count \in [Sems -> 0..MaxCount]
    /\ max \in [Sems -> 0..MaxCount]
    /\ granted \in SUBSET Tasks
    /\ outstanding \in [Sems -> Int]

Init ==
    /\ WaitInit
    /\ count = [s \in Sems |-> 0]
    /\ max = [s \in Sems |-> 0]
    /\ granted = {}
    /\ outstanding = [s \in Sems |-> 0]

-----------------------------------------------------------------------------
(* cgrtos_sem_create                                                       *)
SemCreate(s, init, limit) ==
    /\ max[s] = 0
    /\ limit > 0 /\ init <= limit
    /\ count' = [count EXCEPT ![s] = init]
    /\ max' = [max EXCEPT ![s] = limit]
    /\ outstanding' = [outstanding EXCEPT ![s] = @ + init]
    /\ waitq' = [waitq EXCEPT ![s] = << >>]
    /\ UNCHANGED <<state, oncpu, stage, arg, blockObj, timed, wakeOk, prioVars, granted>>

(* cgrtos_sem_take and cgrtos_sem_take_from_isr with a token available     *)
Take(caller, s) ==
    /\ caller = Isr \/ Executing(caller)
    /\ max[s] > 0 /\ count[s] > 0
    /\ count' = [count EXCEPT ![s] = @ - 1]
    /\ outstanding' = [outstanding EXCEPT ![s] = @ - 1]
    /\ UNCHANGED <<waitVars, max, granted>>

(* cgrtos_sem_take without a token and with a timeout                      *)
TakeBlocks(t, s, timeout) ==
    /\ Executing(t)
    /\ max[s] > 0 /\ count[s] = 0
    /\ Block(t, s, timeout)
    /\ granted' = granted \ {t}
    /\ UNCHANGED <<prioVars, count, max, outstanding>>

(* the rest of a take that blocked: wait_result                            *)
TakeReturns(t) ==
    /\ Resumes(t)
    /\ LeaveCall(t)
    /\ granted' = granted \ {t}
    /\ outstanding' = IF t \in granted THEN [outstanding EXCEPT ![arg[t]] = @ - 1]
                                      ELSE outstanding
    /\ UNCHANGED <<prioVars, count, max>>

(* Bug form: the waiter is woken and count goes up too                     *)
GiveTwice(caller, s) ==
    /\ caller = Isr \/ Executing(caller)
    /\ max[s] > 0 /\ count[s] < max[s]
    /\ IF waitq[s] # << >>
       THEN PopHighest(s) /\ granted' = granted \cup {Head(waitq[s])}
       ELSE UNCHANGED <<blockVars, granted>>
    /\ count' = [count EXCEPT ![s] = @ + 1]
    /\ outstanding' = [outstanding EXCEPT ![s] = @ + 1]
    /\ UNCHANGED <<prioVars, max>>

(* Bug form: the limit of the semaphore is not looked at                   *)
GiveUnlimited(caller, s) ==
    /\ caller = Isr \/ Executing(caller)
    /\ max[s] > 0 /\ waitq[s] = << >>
    /\ count' = [count EXCEPT ![s] = @ + 1]
    /\ outstanding' = [outstanding EXCEPT ![s] = @ + 1]
    /\ UNCHANGED <<waitVars, granted, max>>

(* cgrtos_sem_give                                                         *)
Give(caller, s) ==
    /\ caller = Isr \/ Executing(caller)
    /\ max[s] > 0
    /\ \/ /\ waitq[s] # << >>
          /\ PopHighest(s)
          /\ granted' = granted \cup {Head(waitq[s])}
          /\ outstanding' = [outstanding EXCEPT ![s] = @ + 1]
          /\ UNCHANGED <<prioVars, count>>
       \/ /\ waitq[s] = << >> /\ count[s] < max[s]
          /\ count' = [count EXCEPT ![s] = @ + 1]
          /\ outstanding' = [outstanding EXCEPT ![s] = @ + 1]
          /\ UNCHANGED <<waitVars, granted>>
    /\ UNCHANGED max

(* the same in a handler                                                   *)
GiveFromIsr(s) == Give(Isr, s)

(* cgrtos_sem_delete: the waiters fail, the tokens in count vanish         *)
SemDelete(t, s) ==
    /\ Executing(t)
    /\ max[s] > 0
    /\ WakeAll(s)
    /\ count' = [count EXCEPT ![s] = 0]
    /\ max' = [max EXCEPT ![s] = 0]
    /\ outstanding' = [outstanding EXCEPT ![s] = @ - count[s]]
    /\ UNCHANGED <<prioVars, granted>>

-----------------------------------------------------------------------------
(* The steps of the kernel around the semaphore.                           *)
SwitchStep == \E old, new \in Tasks \cup {NoTask} : Switch(old, new) /\ UNCHANGED semVars
ExpireStep == \E t \in Tasks : Expire(t) /\ UNCHANGED semVars
SuspendStep == \E t \in Tasks : Suspend(t) /\ UNCHANGED semVars
ResumeStep == \E t \in Tasks : Resume(t) /\ UNCHANGED semVars
ExitStep == \E t \in Tasks : Exit(t) /\ UNCHANGED semVars
CreateStep == \E t \in Tasks : Create(t) /\ UNCHANGED semVars

(* a token on its way to a task that is deleted goes with it               *)
DeleteStep ==
    \E t \in Tasks :
        /\ Delete(t)
        /\ granted' = granted \ {t}
        /\ outstanding' = IF t \in granted THEN [outstanding EXCEPT ![arg[t]] = @ - 1]
                                          ELSE outstanding
        /\ UNCHANGED <<prioVars, count, max>>
PriorityStep == \E t \in Tasks, p \in NewPrios : SetPriority(t, p) /\ UNCHANGED semVars

SemStep ==
    \/ \E s \in Sems, init \in 0..MaxCount, limit \in 1..MaxCount : SemCreate(s, init, limit)
    \/ \E c \in Tasks \cup {Isr}, s \in Sems : Take(c, s)
    \/ \E t \in Tasks, s \in Sems, d \in Timeouts : TakeBlocks(t, s, d)
    \/ \E t \in Tasks : TakeReturns(t)
    \/ \E c \in Tasks \cup {Isr}, s \in Sems : Give(c, s)
    \/ \E t \in Tasks, s \in Sems : SemDelete(t, s)

Next ==
    \/ SemStep
    \/ SwitchStep \/ ExpireStep
    \/ SuspendStep \/ ResumeStep \/ ExitStep \/ DeleteStep \/ CreateStep \/ PriorityStep

Spec == Init /\ [][Next]_vars

(* An interrupt source that keeps giving: its handler is never held off    *)
(* for ever, because every critical section ends.                          *)
FairSpec == Spec /\ \A s \in Sems : WF_vars(GiveFromIsr(s))
-----------------------------------------------------------------------------
(* A waiter and a token never wait for each other: while a task is blocked *)
(* on s, count is 0 (the hand-off in give, and the purge of every waiter   *)
(* that leaves by timeout, suspension or deletion).                        *)
NoIdleToken ==
    \A t \in Tasks, s \in Sems : state[t] = "BLOCKED" /\ blockObj[t] = s => count[s] = 0

(* The result of a take that blocked is the truth: it reports pdPASS       *)
(* exactly when a give handed the task a token ("@retval pdPASS", ipc.c).  *)
AwaitsResult(t) == InCall(t) /\ state[t] # "BLOCKED"
PassMeansToken ==
    \A t \in Tasks : AwaitsResult(t) => (wakeOk[t] <=> t \in granted)

(* The same for the tasks nobody suspends or deletes, in any company.      *)
PassMeansTokenUndisturbed ==
    \A t \in Tasks \ (Suspendable \cup Deletable) :
        AwaitsResult(t) => (wakeOk[t] <=> t \in granted)

(* No token is lost or made up: those put in and not yet obtained are in   *)
(* count or on their way to a task that was woken with one.                *)
InFlight(s) == {t \in Tasks : arg[t] = s /\ t \in granted}
TokenConservation ==
    \A s \in Sems : outstanding[s] = count[s] + Cardinality(InFlight(s))

(* A give wakes a waiter of the highest priority there is.                 *)
GiveWakesHighest ==
    [][\A t \in Tasks, s \in Sems :
         (InList(waitq[s], t) /\ ~InList(waitq'[s], t) /\ wakeOk'[t] /\ t \in granted' \ granted)
             => \A u \in Tasks : InList(waitq'[s], u) => prio[u] <= prio[t]]_vars

(* Equal priorities are served in order of arrival, so a waiter of the top *)
(* priority does not starve behind others that keep coming back.           *)
TopWaiterServed ==
    \A t \in Tasks : (state[t] = "BLOCKED" /\ prio[t] = MaxPrio) ~> state[t] # "BLOCKED"
=============================================================================

----------------------------- MODULE EventGroup -----------------------------
(***************************************************************************)
(* The event groups of kernel/ipc.c: tasks wait for some or for all flags  *)
(* of a mask.  set wakes every waiter whose condition holds and consumes   *)
(* nothing; a waiter that runs again looks at the flags of that moment,    *)
(* and takes its mask out of them if it was told to.                       *)
(***************************************************************************)
EXTENDS TaskWait

CONSTANTS
    Groups,     (* the slots of g_egs: an event group is its wait_q        *)
    Flags       (* the bits the application uses                           *)

ASSUME EventAssumption == Groups \subseteq Queues

VARIABLES
    egInUse,    (* eg->in_use                                              *)
    flags,      (* eg->flags                                               *)
    want        (* event_wait_mask, event_wait_all and the clear_on_exit   *)
                (* of the call each task is in                             *)

eventVars == <<egInUse, flags, want>>

Wants == [mask : SUBSET Flags, all : BOOLEAN, clear : BOOLEAN]
NoWant == [mask |-> {}, all |-> FALSE, clear |-> FALSE]

EventTypeOK ==
    /\ egInUse \in [Groups -> BOOLEAN]
    /\ flags \in [Groups -> SUBSET Flags]
    /\ want \in [Tasks -> Wants]

EventInit ==
    /\ egInUse = [g \in Groups |-> FALSE]
    /\ flags = [g \in Groups |-> {}]
    /\ want = [t \in Tasks |-> NoWant]

(* the condition of wait_bits and of event_match                           *)
Matches(set, w) == IF w.all THEN w.mask \subseteq set ELSE w.mask \cap set # {}

-----------------------------------------------------------------------------
(* cgrtos_event_group_create                                               *)
EventCreate(t, g) ==
    /\ Executing(t) /\ ~egInUse[g]
    /\ egInUse' = [egInUse EXCEPT ![g] = TRUE]
    /\ flags' = [flags EXCEPT ![g] = {}]
    /\ waitq' = [waitq EXCEPT ![g] = << >>]
    /\ UNCHANGED <<state, oncpu, stage, arg, blockObj, timed, wakeOk, prioVars, want>>

(* the waiters of g that set wakes when it makes the flags fs              *)
Matched(g, fs) == {w \in Tasks : InList(waitq[g], w) /\ Matches(fs, want[w])}

(* Bug form: the walk ends at the first waiter it has woken                *)
RaiseForOne(g, m) ==
    /\ egInUse[g]
    /\ flags' = [flags EXCEPT ![g] = @ \cup m]
    /\ LET all == Matched(g, flags'[g])
           one == IF all = {} THEN {} ELSE {CHOOSE w \in all : TRUE}
       IN  /\ Unblock(one, TRUE)
           /\ waitq' = [waitq EXCEPT ![g] = WaitListWithout(@, one)]
    /\ UNCHANGED <<prioVars, egInUse, want>>

(* flags are set, and the whole queue is walked                            *)
Raise(g, m) ==
    /\ egInUse[g]
    /\ flags' = [flags EXCEPT ![g] = @ \cup m]
    /\ LET woken == Matched(g, flags'[g])
       IN  /\ Unblock(woken, TRUE)
           /\ waitq' = [waitq EXCEPT ![g] = WaitListWithout(@, woken)]
    /\ UNCHANGED <<prioVars, egInUse, want>>

(* cgrtos_event_group_set                                                  *)
EventSet(t, g, m) == Executing(t) /\ Raise(g, m)

(* cgrtos_event_group_set_from_isr                                         *)
EventSetFromIsr(g, m) == Raise(g, m)

Lowered(g, m) ==
    /\ egInUse[g]
    /\ flags' = [flags EXCEPT ![g] = @ \ m]
    /\ UNCHANGED <<waitVars, egInUse, want>>

(* cgrtos_event_group_clear                                                *)
EventClear(t, g, m) == Executing(t) /\ Lowered(g, m)

(* cgrtos_event_group_clear_from_isr                                       *)
EventClearFromIsr(g, m) == Lowered(g, m)

(* what a satisfied wait leaves of the flags                               *)
Consume(g, w) ==
    flags' = IF w.clear THEN [flags EXCEPT ![g] = @ \ w.mask] ELSE flags

(* cgrtos_event_group_wait_bits when the condition holds                   *)
EventWait(t, g, w) ==
    /\ Executing(t) /\ egInUse[g]
    /\ Matches(flags[g], w)
    /\ Consume(g, w)
    /\ UNCHANGED <<waitVars, egInUse, want>>

(* the same with a timeout when it does not                                *)
EventWaitBlocks(t, g, w, timeout) ==
    /\ Executing(t) /\ egInUse[g]
    /\ ~Matches(flags[g], w)
    /\ want' = [want EXCEPT ![t] = w]
    /\ Block(t, g, timeout)
    /\ UNCHANGED <<prioVars, egInUse, flags>>

(* the rest of that wait: the flags decide, whatever woke the task         *)
EventWaitReturns(t) ==
    /\ Resumes(t) /\ arg[t] \in Groups
    /\ LeaveCall(t)
    /\ want' = [want EXCEPT ![t] = NoWant]
    /\ IF Matches(flags[arg[t]], want[t])
       THEN Consume(arg[t], want[t])
       ELSE UNCHANGED flags
    /\ UNCHANGED <<prioVars, egInUse>>

(* cgrtos_event_group_delete                                               *)
EventDelete(t, g) ==
    /\ Executing(t) /\ egInUse[g]
    /\ WakeAll(g)
    /\ egInUse' = [egInUse EXCEPT ![g] = FALSE]
    /\ flags' = [flags EXCEPT ![g] = {}]
    /\ UNCHANGED <<prioVars, want>>

-----------------------------------------------------------------------------
EventStep ==
    \/ \E t \in Tasks, g \in Groups : EventCreate(t, g) \/ EventDelete(t, g)
    \/ \E g \in Groups, m \in SUBSET Flags \ {{}} :
         \/ EventSetFromIsr(g, m) \/ EventClearFromIsr(g, m)
         \/ \E t \in Tasks : EventSet(t, g, m) \/ EventClear(t, g, m)
    \/ \E t \in Tasks, g \in Groups, w \in Wants : EventWait(t, g, w)
    \/ \E t \in Tasks, g \in Groups, w \in Wants, d \in Timeouts : EventWaitBlocks(t, g, w, d)
    \/ \E t \in Tasks : EventWaitReturns(t)

-----------------------------------------------------------------------------
(* No task stays asleep on flags that are there: a set wakes every waiter  *)
(* it satisfies, one with several conditions in the queue included, and no *)
(* wait begins with its condition met.  (And tasks, queues and groups keep *)
(* to their types.)                                                        *)
NoIdleFlagWaiter == WaitTypeOK /\ EventTypeOK /\
    \A t \in Tasks, g \in Groups :
        state[t] = "BLOCKED" /\ blockObj[t] = g => ~Matches(flags[g], want[t])
=============================================================================

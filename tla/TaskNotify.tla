----------------------------- MODULE TaskNotify -----------------------------
(***************************************************************************)
(* The notification each task carries (kernel/task.c): a word other tasks  *)
(* and interrupts change and the task waits for.  There is no wait queue:  *)
(* the notifier looks at the state and the block_reason of the target.     *)
(***************************************************************************)
EXTENDS TaskWait

CONSTANTS
    WordBits    (* the width of notify_value; 32 in the code               *)

ASSUME NotifyAssumption == WordBits \in Nat \ {0}

(* A word, as the set of its bits that are 1                               *)
BitNumbers == 0..(WordBits - 1)
Words      == SUBSET BitNumbers
Zero       == {}

VARIABLES
    value,      (* task->notify_value                                      *)
    posted,     (* task->notify_pending                                    *)
    sleeping,   (* the tasks whose block_reason is BLOCK_NOTIFY            *)
    onExit      (* the clear_on_exit argument of the wait a task is in     *)

notifyVars == <<value, posted, sleeping, onExit>>

NotifyTypeOK ==
    /\ value \in [Tasks -> Words]
    /\ posted \in [Tasks -> BOOLEAN]
    /\ sleeping \in SUBSET Tasks
    /\ onExit \in [Tasks -> Words]

NotifyInit ==
    /\ value = [t \in Tasks |-> Zero]
    /\ posted = [t \in Tasks |-> FALSE]
    /\ sleeping = {}
    /\ onExit = [t \in Tasks |-> Zero]

(* old & ~mask                                                             *)
Cleared(old, mask) == old \ mask

(* old + 1, modulo 2^WordBits: the lowest 0 becomes 1, what is below it 0  *)
Increment(old) ==
    IF old = BitNumbers THEN Zero
    ELSE LET low == CHOOSE i \in BitNumbers \ old : \A j \in BitNumbers \ old : i <= j
         IN  {i \in old : i > low} \cup {low}

Actions == {"eSetBits", "eIncrement", "eSetValueWithOverwrite",
            "eSetValueWithoutOverwrite", "eNoAction"}

(* notify_apply                                                            *)
NotifyApply(old, v, action) ==
    CASE action = "eSetBits"                  -> old \cup v
      [] action = "eIncrement"                -> Increment(old)
      [] action = "eSetValueWithOverwrite"    -> v
      [] action = "eSetValueWithoutOverwrite" -> IF old # Zero THEN old ELSE v
      [] action = "eNoAction"                 -> old

-----------------------------------------------------------------------------
(* Bug form: the target is not looked at                                   *)
PostOnly(t, v, action) ==
    /\ value' = [value EXCEPT ![t] = NotifyApply(@, v, action)]
    /\ posted' = [posted EXCEPT ![t] = TRUE]
    /\ UNCHANGED <<waitVars, sleeping, onExit>>

(* the word of t is changed, and t woken if it waits for that              *)
Post(t, v, action) ==
    /\ value' = [value EXCEPT ![t] = NotifyApply(@, v, action)]
    /\ posted' = [posted EXCEPT ![t] = TRUE]
    /\ IF state[t] = "BLOCKED" /\ t \in sleeping
       THEN Unblock({t}, TRUE) /\ UNCHANGED waitq
       ELSE UNCHANGED blockVars
    /\ UNCHANGED <<prioVars, sleeping, onExit>>

(* cgrtos_task_notify                                                      *)
Notify(u, t, v, action) == Executing(u) /\ Post(t, v, action)

(* cgrtos_task_notify_from_isr                                             *)
NotifyFromIsr(t, v, action) == Post(t, v, action)

(* cgrtos_task_notify_wait when something has been posted                  *)
NotifyWait(t, entry, exit) ==
    /\ Executing(t) /\ posted[t]
    /\ value' = [value EXCEPT ![t] = Cleared(Cleared(@, entry), exit)]
    /\ posted' = [posted EXCEPT ![t] = FALSE]
    /\ UNCHANGED <<waitVars, sleeping, onExit>>

(* the same with a timeout when nothing has                                *)
NotifyWaitBlocks(t, entry, exit, timeout) ==
    /\ Executing(t) /\ ~posted[t]
    /\ value' = [value EXCEPT ![t] = Cleared(@, entry)]
    /\ sleeping' = sleeping \cup {t}
    /\ onExit' = [onExit EXCEPT ![t] = exit]
    /\ Sleep(t, timeout)
    /\ UNCHANGED <<prioVars, posted>>

(* and without one                                                         *)
NotifyPoll(t, entry) ==
    /\ Executing(t) /\ ~posted[t]
    /\ value' = [value EXCEPT ![t] = Cleared(@, entry)]
    /\ UNCHANGED <<waitVars, posted, sleeping, onExit>>

(* the rest of a wait that blocked: what was posted meanwhile, if anything *)
NotifyWaitReturns(t) ==
    /\ Resumes(t) /\ t \in sleeping
    /\ LeaveCall(t)
    /\ value' = [value EXCEPT ![t] = IF posted[t] /\ @ # Zero THEN Cleared(@, onExit[t]) ELSE @]
    /\ posted' = [posted EXCEPT ![t] = FALSE]
    /\ sleeping' = sleeping \ {t}
    /\ onExit' = [onExit EXCEPT ![t] = Zero]
    /\ UNCHANGED prioVars

NotifyStep ==
    \/ \E t \in Tasks, v \in Words, a \in Actions :
          NotifyFromIsr(t, v, a) \/ \E u \in Tasks : Notify(u, t, v, a)
    \/ \E t \in Tasks, e, x \in Words : NotifyWait(t, e, x)
    \/ \E t \in Tasks, e, x \in Words, d \in Timeouts : NotifyWaitBlocks(t, e, x, d)
    \/ \E t \in Tasks, e \in Words : NotifyPoll(t, e)
    \/ \E t \in Tasks : NotifyWaitReturns(t)

-----------------------------------------------------------------------------
(* A notification and its target do not miss each other: no task sleeps in *)
(* notify_wait with a notification posted, whether it came before the      *)
(* wait, during it or from an interrupt between the two sections.          *)
NotifiedWakes == NotifyTypeOK /\
    \A t \in Tasks : state[t] = "BLOCKED" /\ t \in sleeping => ~posted[t]
=============================================================================

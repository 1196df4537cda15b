------------------------------ MODULE Signals -------------------------------
(***************************************************************************)
(* Event groups, task notifications and stream buffers on one set of tasks *)
(* and one blocking core.  The application of a behaviour uses one of the  *)
(* three families: they share the tasks and the core, and no data.         *)
(***************************************************************************)
EXTENDS EventGroup, TaskNotify, StreamBuffer

CONSTANTS
    Families,   (* those the application may use                           *)
    Disturbed   (* those in which it also suspends and deletes tasks       *)

ASSUME FamilyAssumption ==
    /\ Disturbed \subseteq Families
    /\ \A g \in Groups, b \in Buffers : g # WriteQ(b) /\ g # ReadQ(b)

VARIABLE family     (* what the application uses: its choice, not state    *)

vars == <<waitVars, eventVars, notifyVars, streamVars, family>>

Init ==
    /\ WaitInit /\ EventInit /\ NotifyInit /\ StreamInit
    /\ family \in Families

(* the task is gone: a new one in its slot starts with an empty block      *)
Forget(t) ==
    /\ want' = [want EXCEPT ![t] = NoWant]
    /\ value' = [value EXCEPT ![t] = Zero]
    /\ posted' = [posted EXCEPT ![t] = FALSE]
    /\ sleeping' = sleeping \ {t}
    /\ onExit' = [onExit EXCEPT ![t] = Zero]
    /\ pend' = [pend EXCEPT ![t] = Nothing]
    /\ UNCHANGED <<egInUse, flags, ringOf>>

TaskStep ==
    \/ \E old, new \in Tasks \cup {NoTask} : Switch(old, new)
    \/ \E t \in Tasks : Expire(t)
    \/ /\ family \in Disturbed
       /\ \E t \in Tasks : Suspend(t) \/ Resume(t) \/ Exit(t) \/ (Delete(t) /\ UNCHANGED prioVars)

Next ==
    /\ \/ family = "events" /\ EventStep /\ UNCHANGED <<notifyVars, streamVars>>
       \/ family = "notify" /\ NotifyStep /\ UNCHANGED <<eventVars, streamVars>>
       \/ family = "stream" /\ StreamStep /\ UNCHANGED <<eventVars, notifyVars>>
       \/ TaskStep /\ UNCHANGED <<eventVars, notifyVars, streamVars>>
       \/ \E t \in Tasks : Create(t) /\ Forget(t)
    /\ UNCHANGED family

Spec == Init /\ [][Next]_vars
=============================================================================

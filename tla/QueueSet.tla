------------------------------ MODULE QueueSet ------------------------------
(***************************************************************************)
(* The queue sets of kernel/queue_set.c: a task selects over several       *)
(* objects at once.  A set keeps a table of members and a ring of indices  *)
(* into that table, the members that were poked and not selected since.    *)
(* The objects call Poke from their own sections; they bring their own     *)
(* modules, which EXTEND this one.                                         *)
(***************************************************************************)
EXTENDS TaskWait, SequencesExt

CONSTANTS
    Sets,           (* the slots of g_qsets; the set's wait_q is SetQ(s)   *)
    NoSet,          (* obj->qset = NULL                                    *)
    Members,        (* the objects that may join a set                     *)
    SetLength,      (* CGRTOS_QUEUE_SET_LENGTH                             *)
    JoinWhileWaited (* whether objects join a set that tasks wait on       *)

SetQ(s) == <<s, "select">>

ASSUME SetAssumption ==
    /\ NoSet \notin Sets
    /\ {SetQ(s) : s \in Sets} \subseteq Queues
    /\ SetLength \in Nat \ {0}
    /\ JoinWhileWaited \in BOOLEAN

VARIABLES
    inUse,      (* set->in_use                                             *)
    members,    (* set->members, in the order of the table                 *)
    ready,      (* set->ready from rq_tail on: indices into members        *)
    qset        (* obj->qset of each object                                *)

setVars == <<inUse, members, ready, qset>>

SetInit ==
    /\ inUse = [s \in Sets |-> FALSE]
    /\ members = [s \in Sets |-> << >>]
    /\ ready = [s \in Sets |-> << >>]
    /\ qset = [o \in Members |-> NoSet]

-----------------------------------------------------------------------------
(* qs_find_member                                                          *)
IsMember(s, o)    == Contains(members[s], o)
MemberIndex(s, o) == CHOOSE i \in 1..Len(members[s]) : members[s][i] = o

(* qs_ready_contains                                                       *)
IsReady(s, o) ==
    \E i \in 1..Len(ready[s]) :
        ready[s][i] <= Len(members[s]) /\ members[s][ready[s][i]] = o

(* qs_push_ready                                                           *)
PushReady(s, o) ==
    IF IsMember(s, o) /\ ~IsReady(s, o) /\ Len(ready[s]) < SetLength
    THEN Append(ready[s], MemberIndex(s, o))
    ELSE ready[s]

(* cgrtos_queue_set_poke by o: the rings afterwards, ...                   *)
ReadyAfterPoke(o) ==
    IF qset[o] # NoSet /\ inUse[qset[o]]
    THEN [ready EXCEPT ![qset[o]] = PushReady(qset[o], o)]
    ELSE ready

(* ... and the wait queue it pops, whether or not it pushed anything       *)
PokedQueues(o) == {SetQ(s) : s \in {s \in Sets : qset[o] = s /\ inUse[s]}}

-----------------------------------------------------------------------------
(* cgrtos_queue_set_create                                                 *)
CreateSet(t, s) ==
    /\ Executing(t) /\ ~inUse[s]
    /\ inUse' = [inUse EXCEPT ![s] = TRUE]
    /\ members' = [members EXCEPT ![s] = << >>]
    /\ ready' = [ready EXCEPT ![s] = << >>]
    /\ waitq' = [waitq EXCEPT ![SetQ(s)] = << >>]
    /\ UNCHANGED <<state, oncpu, stage, arg, blockObj, timed, wakeOk, prioVars, qset>>

(* qs_add; filled says whether o has something to take already.  Nobody    *)
(* is woken.                                                               *)
AddMember(t, s, o, filled) ==
    /\ Executing(t) /\ inUse[s]
    /\ waitq[SetQ(s)] = << >> \/ JoinWhileWaited
    /\ Len(members[s]) < SetLength /\ ~IsMember(s, o)
    /\ members' = [members EXCEPT ![s] = Append(@, o)]
    /\ qset' = [qset EXCEPT ![o] = s]
    /\ ready' = IF filled /\ Len(ready[s]) < SetLength
                THEN [ready EXCEPT ![s] = Append(@, Len(members[s]) + 1)]
                ELSE ready
    /\ UNCHANGED <<waitVars, inUse>>

(* Bug form: the ring keeps the indices of before                          *)
RemoveMemberKeepsRing(t, s, o) ==
    /\ Executing(t) /\ IsMember(s, o)
    /\ qset' = [qset EXCEPT ![o] = NoSet]
    /\ members' = [members EXCEPT ![s] = RemoveAt(@, MemberIndex(s, o))]
    /\ UNCHANGED <<waitVars, inUse, ready>>

(* cgrtos_queue_set_remove: the table moves up, the ring is emptied        *)
RemoveMember(t, s, o) ==
    /\ Executing(t) /\ IsMember(s, o)
    /\ qset' = [qset EXCEPT ![o] = NoSet]
    /\ members' = [members EXCEPT ![s] = RemoveAt(@, MemberIndex(s, o))]
    /\ ready' = [ready EXCEPT ![s] = << >>]
    /\ UNCHANGED <<waitVars, inUse>>

(* cgrtos_queue_set_delete                                                 *)
DeleteSet(t, s) ==
    /\ Executing(t) /\ inUse[s]
    /\ qset' = [o \in Members |-> IF IsMember(s, o) THEN NoSet ELSE qset[o]]
    /\ WakeAll(SetQ(s))
    /\ inUse' = [inUse EXCEPT ![s] = FALSE]
    /\ members' = [members EXCEPT ![s] = << >>]
    /\ ready' = [ready EXCEPT ![s] = << >>]
    /\ UNCHANGED prioVars

(* cgrtos_queue_set_select: something is ready, ...                        *)
Select(t, s) ==
    /\ Executing(t) /\ inUse[s] /\ ready[s] # << >>
    /\ ready' = [ready EXCEPT ![s] = Tail(@)]
    /\ UNCHANGED <<waitVars, inUse, members, qset>>

(* ... or the task blocks, ...                                             *)
SelectBlocks(t, s, timeout) ==
    /\ Executing(t) /\ inUse[s] /\ ready[s] = << >>
    /\ Block(t, SetQ(s), timeout)
    /\ UNCHANGED <<prioVars, setVars>>

(* ... and tries once more when it was poked                               *)
SelectReturns(t) ==
    /\ Resumes(t)
    /\ \E s \in Sets :
         /\ arg[t] = SetQ(s)
         /\ ready' = IF wakeOk[t] /\ ready[s] # << >>
                     THEN [ready EXCEPT ![s] = Tail(@)]
                     ELSE ready
    /\ LeaveCall(t)
    /\ UNCHANGED <<prioVars, inUse, members, qset>>

-----------------------------------------------------------------------------
(* An object and its set agree on who belongs to whom, so that no poke     *)
(* misses the set and none reaches a set that has gone.  Every entry of    *)
(* the ring stands for a member, and no member has two, so the ring never  *)
(* overflows (qs_push_ready would drop the poke silently).                 *)
SetIsSound ==
    \A s \in Sets :
        /\ \A o \in Members : qset[o] = s <=> IsMember(s, o)
        /\ \A i \in 1..Len(ready[s]) : ready[s][i] \in 1..Len(members[s])
        /\ \A i, j \in 1..Len(ready[s]) : ready[s][i] = ready[s][j] => i = j

(* Tasks poked awake that have not looked at the ring yet                  *)
OnTheWay(q) == {t \in Tasks : arg[t] = q /\ InCall(t) /\ state[t] # "BLOCKED" /\ wakeOk[t]}

(* No task sleeps in a select while the set holds more ready members than  *)
(* tasks are on their way to it.                                           *)
NoIdleSelector ==
    \A s \in Sets :
        waitq[SetQ(s)] # << >> => Len(ready[s]) <= Cardinality(OnTheWay(SetQ(s)))
=============================================================================

---------------------------- MODULE SignalsProofs -----------------------------
(***************************************************************************)
(* Event groups, notifications and stream buffers, for every set of tasks, *)
(* groups, flags and buffers: no task sleeps on flags that are there, with *)
(* a notification posted, on data that would do or on space it would use,  *)
(* and every ring holds what was sent and not received.                    *)
(*                                                                         *)
(* SignalsInv is the invariant of the first two families and of the core;  *)
(* StreamInv, proved from it, that of the buffers.  The lemmas before it   *)
(* are about sequences put together from parts, about numbers written to a *)
(* base, about rings of bytes, and about what one buffer holds.            *)
(***************************************************************************)
EXTENDS Signals, TaskWaitProofs

(* No task waits for the flags of a group when they are there, ...         *)
FlagsAwaited ==
    \A t \in Tasks, g \in Groups :
        state[t] = "BLOCKED" /\ blockObj[t] = g => ~Matches(flags[g], want[t])
(* ... nor for a group that does not exist, ...                            *)
FreeGroupIsIdle ==
    \A t \in Tasks, g \in Groups : ~egInUse[g] => ~(state[t] = "BLOCKED" /\ blockObj[t] = g)
(* ... nor for a notification that is there.                               *)
PostAwaited == \A t \in Tasks : state[t] = "BLOCKED" /\ t \in sleeping => ~posted[t]

(* A task outside a call has no object; one in notify_wait has none either,*)
(* is in no queue, and leaves that call through its end.                   *)
RunHasNoArg == \A t \in Tasks : stage[t] = "run" => arg[t] = NoQueue
SleeperInCall ==
    \A t \in sleeping : /\ InCall(t) /\ arg[t] = NoQueue
                        /\ state[t] = "BLOCKED" => blockObj[t] = NoQueue

SignalsInv ==
    /\ WaitInv /\ EventTypeOK /\ NotifyTypeOK
    /\ FlagsAwaited /\ FreeGroupIsIdle /\ PostAwaited /\ RunHasNoArg /\ SleeperInCall

SignalsAssumption ==
    WaitAssumption /\ EventAssumption /\ NotifyAssumption /\ StreamAssumption /\ FamilyAssumption

-----------------------------------------------------------------------------
(* What a step of another family, or of the core, may do to a task: block  *)
(* it for no group, take it into a call or out of one on an object.        *)
Aside(u) ==
    /\ state'[u] = "BLOCKED" =>
          \/ state[u] = "BLOCKED" /\ blockObj'[u] = blockObj[u]
          \/ stage[u] = "run" /\ blockObj'[u] \notin Groups
    /\ \/ arg'[u] = arg[u] /\ (InCall(u) => InCall(u)') /\ (stage'[u] = "run" => stage[u] = "run")
       \/ stage[u] = "run" /\ stage'[u] # "run"
       \/ arg[u] # NoQueue /\ arg'[u] = NoQueue

LEMMA AsideKeeps ==
    ASSUME SignalsInv, WaitInv', UNCHANGED <<eventVars, notifyVars>>, \A u \in Tasks : Aside(u)
    PROVE  SignalsInv'
<1> USE DEF SignalsInv, eventVars, notifyVars
<1>1. EventTypeOK' /\ NotifyTypeOK'
  BY DEF EventTypeOK, NotifyTypeOK
<1>2. FlagsAwaited' /\ FreeGroupIsIdle'
  BY DEF FlagsAwaited, FreeGroupIsIdle, Aside
<1>3. PostAwaited'
  BY DEF PostAwaited, Aside, SleeperInCall, InCall, NotifyTypeOK
<1>4. RunHasNoArg' /\ SleeperInCall'
  BY DEF RunHasNoArg, SleeperInCall, InCall, Aside, NotifyTypeOK
<1> QED
  BY <1>1, <1>2, <1>3, <1>4

(* The queues of the buffers are queues, and none is a group.              *)
LEMMA BufferQueues ==
    ASSUME SignalsAssumption, NEW b \in Buffers
    PROVE  /\ ReadQ(b) \in Queues \ Groups /\ WriteQ(b) \in Queues \ Groups
           /\ ReadQ(b) # WriteQ(b) /\ ReadQ(b) # NoQueue /\ WriteQ(b) # NoQueue
BY DEF SignalsAssumption, StreamAssumption, FamilyAssumption, WaitAssumption, ReadQ, WriteQ

(* sb_wake_recv, sb_wake_send, by a caller that stays in its section or    *)
(* leaves its call on a buffer.                                            *)
LEMMA PopAllAside ==
    ASSUME SignalsAssumption, SignalsInv, NEW W \in SUBSET Queues, PopAll(W),
           UNCHANGED <<oncpu, prioVars>>,
           UNCHANGED <<stage, arg>> \/ \E t \in Tasks : Resumes(t) /\ Leave(t) /\ arg[t] # NoQueue
    PROVE  WaitInv' /\ \A u \in Tasks : Aside(u)
<1> DEFINE S == {t \in Tasks : \E p \in W : InList(waitq[p], t)}
<1> USE DEF SignalsInv
<1>1. Wake(S, TRUE) /\ S \in SUBSET Tasks
  BY DEF PopAll
<1>2. /\ waitq' \in [Queues -> Seq(Tasks)] /\ \A q \in Queues : Once(waitq'[q])
      /\ \A q \in Queues, u \in Tasks : InList(waitq'[q], u) <=> u \notin S /\ InList(waitq[q], u)
  BY EmptiedQueues DEF PopAll
<1> HIDE DEF S
<1>3. WaitInv'
  BY <1>1, <1>2, WakePreserves, SamePrio DEF SignalsAssumption
<1>4. \A u \in Tasks : state'[u] = "BLOCKED" => state[u] = "BLOCKED" /\ blockObj'[u] = blockObj[u]
  BY <1>1 DEF Wake
<1>5. \A u \in Tasks : \/ stage'[u] = stage[u] /\ arg'[u] = arg[u]
                       \/ arg[u] # NoQueue /\ arg'[u] = NoQueue
  BY DEF Leave, WaitInv, WaitTypeOK
<1> QED
  BY <1>3, <1>4, <1>5 DEF Aside, InCall

(* The same when nobody is woken.                                          *)
LEMMA ReturnAside ==
    ASSUME SignalsAssumption, SignalsInv, LeavesQueues, UNCHANGED <<oncpu, prioVars>>,
           NEW t \in Tasks, Resumes(t), Leave(t), arg[t] # NoQueue
    PROVE  WaitInv' /\ \A u \in Tasks : Aside(u)
<1> USE DEF SignalsInv, LeavesQueues
<1>1. WaitInv'
  BY LeaveCallPreserves, SamePrio DEF LeaveCall, SignalsAssumption
<1>2. \A u \in Tasks : \/ stage'[u] = stage[u] /\ arg'[u] = arg[u]
                       \/ arg[u] # NoQueue /\ arg'[u] = NoQueue
  BY DEF Leave, WaitInv, WaitTypeOK
<1> QED
  BY <1>1, <1>2 DEF Aside, InCall

(* A caller goes to sleep on a buffer.                                     *)
LEMMA BlockAside ==
    ASSUME SignalsAssumption, SignalsInv, NEW t \in Tasks, NEW q \in Queues \ Groups,
           NEW d \in Timeouts, Executing(t), Block(t, q, d), UNCHANGED prioVars
    PROVE  WaitInv' /\ \A u \in Tasks : Aside(u)
<1> USE DEF SignalsInv
<1>1. WaitInv'
  BY BlockPreserves, SamePrio DEF SignalsAssumption
<1>2. ASSUME NEW u \in Tasks PROVE Aside(u)
  BY DEF Aside, Block, Executing, InCall, WaitInv, WaitTypeOK
<1> QED
  BY <1>1, <1>2

(* A sender wakes the readers and goes to sleep, in one section.           *)
LEMMA PopAllAndBlockAside ==
    ASSUME SignalsAssumption, SignalsInv, NEW W \in SUBSET Queues,
           NEW t \in Tasks, NEW q \in Queues \ Groups, q \notin W,
           NEW d \in Timeouts, Executing(t), PopAllAndBlock(W, t, q, d), UNCHANGED prioVars
    PROVE  WaitInv' /\ \A u \in Tasks : Aside(u)
<1> DEFINE S == {u \in Tasks : \E x \in W : InList(waitq[x], u)}
<1> USE DEF SignalsInv, WaitInv
<1>1. state[t] # "BLOCKED" /\ (\A p \in Queues : ~InList(waitq[p], t))
  BY DEF BlockedInCall, InCall, Executing, QueueMembership
<1>2. t \notin S
  BY <1>1
<1>3. \A u \in Tasks : u \in S => state[u] = "BLOCKED" /\ blockObj[u] # q
  BY DEF QueueMembership
<1>4. ASSUME NEW u \in Tasks
      PROVE  /\ state'[u] = IF u = t THEN "BLOCKED" ELSE IF u \in S THEN "READY" ELSE state[u]
             /\ blockObj'[u] = IF u = t THEN q ELSE IF u \in S THEN NoQueue ELSE blockObj[u]
             /\ timed'[u] = IF u = t THEN d = "finite" ELSE timed[u] /\ u \notin S
             /\ stage'[u] = IF u = t THEN "yield" ELSE stage[u]
             /\ arg'[u] = IF u = t THEN q ELSE arg[u]
  BY DEF PopAllAndBlock, WaitTypeOK
<1>5. \A x \in Queues : waitq[x] \in Seq(Tasks) /\ Once(waitq[x])
  BY DEF WaitTypeOK, LinkedOnce, Once
<1>6. /\ WaitListAdd(waitq[q], t) \in Seq(Tasks)
      /\ Once(WaitListAdd(waitq[q], t))
      /\ \A u \in Tasks : InList(WaitListAdd(waitq[q], t), u) <=> u = t \/ InList(waitq[q], u)
  BY <1>1, <1>5, WaitListAddLemma DEF SignalsAssumption
<1>7. ASSUME NEW x \in Queues
      PROVE  /\ waitq'[x] \in Seq(Tasks) /\ Once(waitq'[x])
             /\ \A u \in Tasks : InList(waitq'[x], u) <=>
                   IF u = t THEN x = q ELSE u \notin S /\ InList(waitq[x], u)
  <2>1. CASE x = q
    <3>1. waitq'[x] = WaitListAdd(waitq[q], t)
      BY <2>1 DEF PopAllAndBlock
    <3>2. \A u \in Tasks : InList(waitq[q], u) => u \notin S
      BY <1>3 DEF QueueMembership
    <3> QED
      BY <1>6, <2>1, <3>1, <3>2
  <2>2. CASE x \in W
    <3>1. waitq'[x] = << >>
      BY <2>2 DEF PopAllAndBlock
    <3> QED
      BY <2>2, <3>1 DEF Once, InList
  <2>3. CASE x # q /\ x \notin W
    <3>1. waitq'[x] = waitq[x]
      BY <2>3 DEF PopAllAndBlock
    <3>2. \A u \in Tasks : InList(waitq[x], u) => u \notin S
      BY <2>3 DEF QueueMembership
    <3> QED
      BY <1>1, <1>5, <2>3, <3>1, <3>2
  <2> QED
    BY <2>1, <2>2, <2>3
<1> HIDE DEF S
<1>8. WaitTypeOK'
  <2>1. /\ state' \in [Tasks -> TaskStates] /\ stage' \in [Tasks -> Stages]
        /\ arg' \in [Tasks -> Queues \cup {NoQueue}] /\ blockObj' \in [Tasks -> Queues \cup {NoQueue}]
        /\ timed' \in [Tasks -> BOOLEAN] /\ wakeOk' \in [Tasks -> BOOLEAN]
    BY DEF PopAllAndBlock, WaitTypeOK, TaskStates, Stages
  <2>2. waitq' \in [Queues -> Seq(Tasks)]
    BY <1>7 DEF PopAllAndBlock
  <2> QED
    BY <2>1, <2>2 DEF PopAllAndBlock, WaitTypeOK, prioVars
<1>9. QueueMembership'
  BY <1>3, <1>4, <1>7 DEF QueueMembership
<1>10. LinkedOnce'
  BY <1>7 DEF LinkedOnce, Once
<1>11. DelayedIsBlocked' /\ BlockedInCall'
  BY <1>4 DEF DelayedIsBlocked, BlockedInCall, InCall, PopAllAndBlock
<1>12. ASSUME NEW u \in Tasks PROVE Aside(u)
  BY <1>4 DEF Aside, Executing, InCall
<1> QED
  BY <1>8, <1>9, <1>10, <1>11, <1>12

(* What sb_wake_recv and sb_wake_send pop are queues of the buffer.        *)
LEMMA WokenQueues ==
    ASSUME SignalsAssumption, NEW b \in Buffers, NEW n
    PROVE  /\ ReadersWoken(b, n) \in SUBSET Queues /\ WriteQ(b) \notin ReadersWoken(b, n)
           /\ WritersWoken(b, n) \in SUBSET Queues
BY BufferQueues DEF ReadersWoken, WritersWoken

(* A buffer is deleted with its readers and its writers.                   *)
LEMMA StreamDeleteAside ==
    ASSUME SignalsAssumption, SignalsInv, NEW t \in Tasks, NEW b \in Buffers, StreamDelete(t, b)
    PROVE  WaitInv' /\ \A u \in Tasks : Aside(u)
<1> DEFINE W == {ReadQ(b), WriteQ(b)}
           S == {w \in Tasks : \E p \in W : InList(waitq[p], w)}
<1> USE DEF SignalsInv
<1>1. W \in SUBSET Queues
  BY BufferQueues
<1>2. Unblock(S, FALSE) /\ S \in SUBSET Tasks /\ UNCHANGED prioVars
  BY DEF StreamDelete
<1>3. waitq' = [q \in Queues |-> IF q \in W THEN << >> ELSE waitq[q]]
  <2>1. waitq' = [waitq EXCEPT ![ReadQ(b)] = << >>, ![WriteQ(b)] = << >>]
    BY DEF StreamDelete
  <2>2. waitq \in [Queues -> Seq(Tasks)]
    BY DEF WaitInv, WaitTypeOK
  <2> QED
    BY <1>1, <2>1, <2>2
<1> HIDE DEF W
<1>4. /\ waitq' \in [Queues -> Seq(Tasks)] /\ \A q \in Queues : Once(waitq'[q])
      /\ \A q \in Queues, u \in Tasks : InList(waitq'[q], u) <=> u \notin S /\ InList(waitq[q], u)
  BY <1>1, <1>3, EmptiedQueues
<1> HIDE DEF S
<1>5. WaitInv'
  BY <1>2, <1>4, UnblockPreserves, SamePrio DEF SignalsAssumption
<1>6. ASSUME NEW u \in Tasks PROVE Aside(u)
  BY <1>2 DEF Aside, Unblock, Wake, InCall
<1> QED
  BY <1>5, <1>6

(* The core's data are left alone.                                         *)
LEMMA NothingAside ==
    ASSUME SignalsInv, UNCHANGED waitVars
    PROVE  WaitInv' /\ \A u \in Tasks : Aside(u)
<1>1. WaitInv'
  BY WaitUnchanged DEF SignalsInv, waitVars, blockVars, prioVars
<1>2. ASSUME NEW u \in Tasks PROVE Aside(u)
  BY DEF Aside, InCall, waitVars, blockVars
<1> QED
  BY <1>1, <1>2

(* Every operation on a stream or message buffer.                          *)
LEMMA StreamKeeps ==
    ASSUME SignalsAssumption, SignalsInv, StreamStep, UNCHANGED <<eventVars, notifyVars>>
    PROVE  SignalsInv'
<1> SUFFICES WaitInv' /\ \A u \in Tasks : Aside(u)
  BY AsideKeeps
<1>1. ASSUME NEW t \in Tasks, NEW b \in Buffers, StreamReset(t, b) \/ StreamDelete(t, b)
      PROVE  WaitInv' /\ \A u \in Tasks : Aside(u)
  <2>1. CASE StreamReset(t, b)
    <3>1. UNCHANGED waitVars
      BY <2>1 DEF StreamReset
    <3> QED
      BY <3>1, NothingAside
  <2>2. CASE StreamDelete(t, b)
    BY <2>2, StreamDeleteAside
  <2> QED
    BY <1>1, <2>1, <2>2
<1>2. ASSUME NEW t \in Tasks, NEW b \in Buffers, NEW n \in Sizes, NEW g \in Triggers,
             StreamCreate(t, b, n, g)
      PROVE  WaitInv' /\ \A u \in Tasks : Aside(u)
  <2>1. UNCHANGED waitVars
    BY <1>2 DEF StreamCreate
  <2> QED
    BY <2>1, NothingAside
<1>3. ASSUME NEW b \in Buffers, NEW d \in Data, StreamSendFromIsr(b, d) \/ MessageSendFromIsr(b, d)
      PROVE  WaitInv' /\ \A u \in Tasks : Aside(u)
  <2>1. PICK n : PopAll(ReadersWoken(b, n)) /\ NoWait
    BY <1>3 DEF StreamSendFromIsr, MessageSendFromIsr, Deposit, DepositMessage
  <2> QED
    BY <2>1, WokenQueues, PopAllAside DEF NoWait
<1>4. ASSUME NEW b \in Buffers, NEW room \in 1..MaxRoom,
             StreamRecvFromIsr(b, room) \/ MessageRecvFromIsr(b, room)
      PROVE  WaitInv' /\ \A u \in Tasks : Aside(u)
  <2>1. PICK n : PopAll(WritersWoken(b, n)) /\ NoWait
    BY <1>4 DEF StreamRecvFromIsr, MessageRecvFromIsr, Withdraw, WithdrawMessage
  <2> QED
    BY <2>1, WokenQueues, PopAllAside DEF NoWait
<1>5. ASSUME NEW t \in Tasks, NEW b \in Buffers, NEW d \in Data, NEW o \in Timeouts,
             StreamSendBlocks(t, b, d, o) \/ MessageSendBlocks(t, b, d, o)
      PROVE  WaitInv' /\ \A u \in Tasks : Aside(u)
  <2>1. CASE StreamSendBlocks(t, b, d, o)
    <3>1. /\ Executing(t) /\ UNCHANGED prioVars
          /\ PopAllAndBlock(ReadersWoken(b, Spaces(b)), t, WriteQ(b), o)
      BY <2>1 DEF StreamSendBlocks
    <3> QED
      BY <3>1, WokenQueues, BufferQueues, PopAllAndBlockAside
  <2>2. CASE MessageSendBlocks(t, b, d, o)
    <3>1. Executing(t) /\ Block(t, WriteQ(b), o) /\ UNCHANGED prioVars
      BY <2>2 DEF MessageSendBlocks
    <3> QED
      BY <3>1, BufferQueues, BlockAside
  <2> QED
    BY <1>5, <2>1, <2>2
<1>6. ASSUME NEW t \in Tasks, NEW b \in Buffers, NEW room \in 1..MaxRoom, NEW o \in Timeouts,
             StreamRecvBlocks(t, b, room, o) \/ MessageRecvBlocks(t, b, room, o)
      PROVE  WaitInv' /\ \A u \in Tasks : Aside(u)
  <2>1. Executing(t) /\ Block(t, ReadQ(b), o) /\ UNCHANGED prioVars
    BY <1>6 DEF StreamRecvBlocks, MessageRecvBlocks
  <2> QED
    BY <2>1, BufferQueues, BlockAside
<1>7. ASSUME NEW t \in Tasks, StreamSendReturns(t) \/ MessageSendReturns(t)
      PROVE  WaitInv' /\ \A u \in Tasks : Aside(u)
  <2>1. PICK b \in Buffers : /\ arg[t] = WriteQ(b)
                             /\ LeavesQueues \/ \E n : PopAll(ReadersWoken(b, n))
    BY <1>7 DEF StreamSendReturns, MessageSendReturns, Buffers, Deposit, DepositMessage
  <2>2. Resumes(t) /\ Leave(t) /\ UNCHANGED <<oncpu, prioVars>> /\ arg[t] # NoQueue
    BY <1>7, <2>1, BufferQueues DEF StreamSendReturns, MessageSendReturns, CallEnds
  <2> QED
    BY <2>1, <2>2, WokenQueues, PopAllAside, ReturnAside
<1>8. ASSUME NEW t \in Tasks, StreamRecvReturns(t) \/ MessageRecvReturns(t)
      PROVE  WaitInv' /\ \A u \in Tasks : Aside(u)
  <2>1. PICK b \in Buffers : /\ arg[t] = ReadQ(b)
                             /\ LeavesQueues \/ \E n : PopAll(WritersWoken(b, n))
    BY <1>8 DEF StreamRecvReturns, MessageRecvReturns, Buffers, Withdraw, WithdrawMessage
  <2>2. Resumes(t) /\ Leave(t) /\ UNCHANGED <<oncpu, prioVars>> /\ arg[t] # NoQueue
    BY <1>8, <2>1, BufferQueues DEF StreamRecvReturns, MessageRecvReturns, CallEnds
  <2> QED
    BY <2>1, <2>2, WokenQueues, PopAllAside, ReturnAside
<1> QED
  BY <1>1, <1>2, <1>3, <1>4, <1>5, <1>6, <1>7, <1>8
     DEF StreamStep, StreamSend, MessageSend, StreamRecv, MessageRecv

-----------------------------------------------------------------------------
(* The steps of the core: switches, expiries, suspensions, deletions.      *)
LEMMA TaskKeeps ==
    ASSUME SignalsAssumption, SignalsInv, TaskStep, UNCHANGED <<eventVars, notifyVars>>
    PROVE  SignalsInv'
<1> USE DEF SignalsInv, SignalsAssumption
<1> SUFFICES WaitInv' /\ \A u \in Tasks : Aside(u)
  BY AsideKeeps
<1>1. ASSUME NEW old \in Tasks \cup {NoTask}, NEW new \in Tasks \cup {NoTask}, Switch(old, new)
      PROVE  WaitInv' /\ \A u \in Tasks : Aside(u)
  <2>1. ASSUME NEW u \in Tasks PROVE Aside(u)
    BY <1>1 DEF Aside, Switch, InCall
  <2> QED
    BY <1>1, <2>1, SwitchPreserves
<1>2. ASSUME NEW t \in Tasks, Expire(t)
      PROVE  WaitInv' /\ \A u \in Tasks : Aside(u)
  <2>1. ASSUME NEW u \in Tasks PROVE Aside(u)
    BY <1>2 DEF Aside, Expire, Unblock, Wake, InCall
  <2> QED
    BY <1>2, <2>1, ExpirePreserves
<1>3. ASSUME NEW t \in Tasks, Suspend(t) \/ Resume(t) \/ (Delete(t) /\ UNCHANGED prioVars)
      PROVE  WaitInv' /\ \A u \in Tasks : Aside(u)
  <2>1. ASSUME NEW u \in Tasks PROVE Aside(u)
    BY <1>3 DEF Aside, Suspend, Resume, Delete, InCall, WaitInv, WaitTypeOK
  <2> QED
    BY <1>3, <2>1, SuspendPreserves, ResumePreserves, DeletePreserves, SamePrio
<1>4. ASSUME NEW t \in Tasks, Exit(t)
      PROVE  WaitInv' /\ \A u \in Tasks : Aside(u)
  <2>1. ASSUME NEW u \in Tasks PROVE Aside(u)
    BY <1>4 DEF Aside, Exit, Executing, InCall, WaitInv, WaitTypeOK
  <2> QED
    BY <1>4, <2>1, ExitPreserves
<1> QED
  BY <1>1, <1>2, <1>3, <1>4 DEF TaskStep

(* A new task in a slot starts with an empty block.                        *)
LEMMA CreateKeeps ==
    ASSUME SignalsAssumption, SignalsInv, NEW t \in Tasks, Create(t), Forget(t)
    PROVE  SignalsInv'
<1> USE DEF SignalsInv, SignalsAssumption
<1>1. WaitInv'
  BY CreatePreserves
<1>2. EventTypeOK'
  BY DEF EventTypeOK, Forget, Wants, NoWant
<1>3. NotifyTypeOK'
  BY DEF NotifyTypeOK, Forget, Words, Zero
<1>4. ASSUME NEW u \in Tasks
      PROVE  /\ state'[u] = "BLOCKED" => u # t /\ state[u] = "BLOCKED"
             /\ u # t => /\ blockObj'[u] = blockObj[u] /\ want'[u] = want[u]
                         /\ stage'[u] = stage[u] /\ arg'[u] = arg[u] /\ posted'[u] = posted[u]
             /\ stage'[t] = "run" /\ arg'[t] = NoQueue
  BY DEF Create, Forget, WaitInv, WaitTypeOK, EventTypeOK, NotifyTypeOK
<1>5. flags' = flags /\ egInUse' = egInUse /\ sleeping' = sleeping \ {t}
  BY DEF Forget
<1>6. FlagsAwaited' /\ FreeGroupIsIdle'
  <2>1. FlagsAwaited /\ FreeGroupIsIdle
    OBVIOUS
  <2> HIDE DEF SignalsInv, SignalsAssumption
  <2>2. FlagsAwaited'
    BY <1>4, <1>5, <2>1 DEF FlagsAwaited
  <2>3. FreeGroupIsIdle'
    BY <1>4, <1>5, <2>1 DEF FreeGroupIsIdle
  <2> QED
    BY <2>2, <2>3
<1>7. PostAwaited' /\ RunHasNoArg' /\ SleeperInCall'
  BY <1>4, <1>5 DEF PostAwaited, RunHasNoArg, SleeperInCall, InCall, NotifyTypeOK
<1> QED
  BY <1>1, <1>2, <1>3, <1>6, <1>7

-----------------------------------------------------------------------------
(* More flags satisfy whoever fewer satisfied.                             *)
LEMMA MatchesMonotone ==
    ASSUME NEW A, NEW B, A \subseteq B, NEW w, Matches(A, w)
    PROVE  Matches(B, w)
BY DEF Matches

(* A step of the event groups that leaves the notifications alone.         *)
LEMMA SleepersKept ==
    ASSUME SignalsInv, WaitInv', UNCHANGED notifyVars,
           \A u \in Tasks :
              /\ state'[u] = "BLOCKED" => \/ state[u] = "BLOCKED" /\ blockObj'[u] = blockObj[u]
                                          \/ stage[u] = "run"
              /\ \/ stage'[u] = stage[u] /\ arg'[u] = arg[u]
                 \/ stage[u] = "run" /\ stage'[u] # "run"
                 \/ arg[u] # NoQueue /\ arg'[u] = NoQueue
    PROVE  NotifyTypeOK' /\ PostAwaited' /\ RunHasNoArg' /\ SleeperInCall'
<1> USE DEF SignalsInv, notifyVars
<1>1. NotifyTypeOK'
  BY DEF NotifyTypeOK
<1>2. \A u \in sleeping : /\ u \in Tasks /\ stage[u] # "run" /\ arg[u] = NoQueue
                          /\ stage'[u] = stage[u] /\ arg'[u] = arg[u]
  BY DEF SleeperInCall, InCall, NotifyTypeOK
<1>3. PostAwaited'
  BY <1>2 DEF PostAwaited
<1>4. RunHasNoArg' /\ SleeperInCall'
  BY <1>2 DEF RunHasNoArg, SleeperInCall, InCall
<1> QED
  BY <1>1, <1>3, <1>4

LEMMA CreateGroupKeeps ==
    ASSUME SignalsAssumption, SignalsInv, UNCHANGED notifyVars,
           NEW t \in Tasks, NEW g \in Groups, EventCreate(t, g)
    PROVE  SignalsInv'
<1> USE DEF SignalsInv, SignalsAssumption
<1>1. g \in Queues /\ \A u \in Tasks : ~InList(waitq[g], u)
  BY DEF EventCreate, FreeGroupIsIdle, WaitInv, QueueMembership, EventAssumption
<1>2. \A q \in Queues : waitq'[q] = IF q = g THEN << >> ELSE waitq[q]
  BY DEF EventCreate, WaitInv, WaitTypeOK
<1>3. WaitTypeOK'
  BY DEF EventCreate, WaitInv, WaitTypeOK, prioVars
<1>4. QueueMembership' /\ LinkedOnce'
  <2>1. Len(<< >>) = 0 /\ \A u \in Tasks : ~InList(<< >>, u)
    BY DEF InList
  <2>2. QueueMembership'
    BY <1>1, <1>2, <2>1 DEF WaitInv, QueueMembership, EventCreate
  <2>3. LinkedOnce'
    <3>1. LinkedOnce
      BY DEF WaitInv
    <3> HIDE DEF SignalsInv, SignalsAssumption
    <3> QED
      BY <1>2, <2>1, <3>1 DEF LinkedOnce
  <2> QED
    BY <2>2, <2>3
<1>5. DelayedIsBlocked' /\ BlockedInCall'
  BY DEF EventCreate, WaitInv, DelayedIsBlocked, BlockedInCall, InCall
<1>6. EventTypeOK' /\ FlagsAwaited' /\ FreeGroupIsIdle'
  BY DEF EventCreate, EventTypeOK, FlagsAwaited, FreeGroupIsIdle
<1>7. WaitInv'
  BY <1>3, <1>4, <1>5 DEF WaitInv
<1> QED
  BY <1>6, <1>7, SleepersKept DEF EventCreate

(* set: who is still asleep after the walk is not satisfied.               *)
LEMMA RaiseKeeps ==
    ASSUME SignalsAssumption, SignalsInv, UNCHANGED notifyVars,
           NEW g \in Groups, NEW m \in SUBSET Flags, Raise(g, m)
    PROVE  SignalsInv'
<1> DEFINE S == Matched(g, flags'[g])
<1> USE DEF SignalsInv, SignalsAssumption
<1>1. g \in Queues /\ S \in SUBSET Tasks
  BY DEF EventAssumption, Matched
<1>2. Unblock(S, TRUE) /\ waitq' = [waitq EXCEPT ![g] = WaitListWithout(waitq[g], S)]
  BY DEF Raise
<1>3. /\ flags' = [flags EXCEPT ![g] = flags[g] \cup m]
      /\ UNCHANGED <<prioVars, egInUse, want>>
  BY DEF Raise
<1>4. \A u \in Tasks : u \in S => InList(waitq[g], u)
  BY DEF Matched
<1>5. \A u \in Tasks : InList(waitq[g], u) /\ u \notin S => ~Matches(flags'[g], want[u])
  BY DEF Matched
<1> HIDE DEF S
<1>6. \A q \in Queues : waitq[q] \in Seq(Tasks) /\ Once(waitq[q])
  BY DEF WaitInv, WaitTypeOK, LinkedOnce, Once
<1>7. /\ WaitListWithout(waitq[g], S) \in Seq(Tasks) /\ Once(WaitListWithout(waitq[g], S))
      /\ \A u \in Tasks :
            InList(WaitListWithout(waitq[g], S), u) <=> u \notin S /\ InList(waitq[g], u)
  BY <1>1, <1>6, WaitListWithoutLemma
<1>8. ASSUME NEW q \in Queues
      PROVE  /\ waitq'[q] \in Seq(Tasks) /\ Once(waitq'[q])
             /\ \A u \in Tasks : InList(waitq'[q], u) <=> u \notin S /\ InList(waitq[q], u)
  <2>1. CASE q = g
    BY <1>2, <1>7, <2>1 DEF WaitInv, WaitTypeOK
  <2>2. CASE q # g
    <3>1. waitq'[q] = waitq[q] /\ \A u \in Tasks : InList(waitq[q], u) => u \notin S
      BY <1>1, <1>2, <1>4, <2>2 DEF WaitInv, WaitTypeOK, QueueMembership
    <3> QED
      BY <1>6, <3>1
  <2> QED
    BY <2>1, <2>2
<1>9. waitq' \in [Queues -> Seq(Tasks)]
  BY <1>1, <1>2, <1>7 DEF WaitInv, WaitTypeOK
<1>10. WaitInv'
  BY <1>1, <1>2, <1>3, <1>8, <1>9, UnblockPreserves, SamePrio
<1>11. EventTypeOK'
  BY <1>3 DEF EventTypeOK
<1>12. \A u \in Tasks : state'[u] = "BLOCKED" =>
          u \notin S /\ state[u] = "BLOCKED" /\ blockObj'[u] = blockObj[u]
  BY <1>1, <1>2 DEF Unblock, Wake
<1>13. FreeGroupIsIdle'
  BY <1>3, <1>12 DEF FreeGroupIsIdle
<1>14. FlagsAwaited'
  <2> SUFFICES ASSUME NEW u \in Tasks, NEW h \in Groups, state'[u] = "BLOCKED", blockObj'[u] = h
               PROVE  ~Matches(flags'[h], want'[u])
    BY DEF FlagsAwaited
  <2>1. u \notin S /\ state[u] = "BLOCKED" /\ blockObj[u] = h /\ want'[u] = want[u]
    BY <1>3, <1>12
  <2>2. CASE h = g
    BY <1>1, <1>5, <2>1, <2>2 DEF WaitInv, QueueMembership
  <2>3. CASE h # g
    BY <1>3, <2>1, <2>3 DEF FlagsAwaited, EventTypeOK
  <2> QED
    BY <2>2, <2>3
<1> QED
  BY <1>2, <1>10, <1>11, <1>12, <1>13, <1>14, SleepersKept DEF Unblock

(* Flags are taken out of a group, and nobody is looked at.                *)
LEMMA FewerFlags ==
    ASSUME SignalsInv, NEW g \in Groups, NEW m,
           flags' = [flags EXCEPT ![g] = @ \ m] \/ flags' = flags
    PROVE  /\ flags' \in [Groups -> SUBSET Flags]
           /\ \A h \in Groups : flags'[h] \subseteq flags[h]
BY DEF SignalsInv, EventTypeOK

LEMMA LowerKeeps ==
    ASSUME SignalsAssumption, SignalsInv, UNCHANGED <<notifyVars, waitVars, egInUse, want>>,
           NEW g \in Groups, NEW m,
           flags' = [flags EXCEPT ![g] = @ \ m] \/ flags' = flags
    PROVE  SignalsInv'
<1> USE DEF SignalsInv
<1>1. WaitInv'
  BY WaitUnchanged DEF waitVars, blockVars, prioVars
<1>2. EventTypeOK' /\ FlagsAwaited' /\ FreeGroupIsIdle'
  BY FewerFlags, MatchesMonotone
     DEF EventTypeOK, FlagsAwaited, FreeGroupIsIdle, waitVars, blockVars
<1> QED
  BY <1>1, <1>2, SleepersKept DEF waitVars, blockVars

LEMMA FlagWaitKeeps ==
    ASSUME SignalsAssumption, SignalsInv, UNCHANGED notifyVars,
           NEW t \in Tasks, NEW g \in Groups, NEW w \in Wants, NEW d \in Timeouts,
           EventWaitBlocks(t, g, w, d)
    PROVE  SignalsInv'
<1> USE DEF SignalsInv, SignalsAssumption
<1>1. /\ Executing(t) /\ egInUse[g] /\ ~Matches(flags[g], w)
      /\ want' = [want EXCEPT ![t] = w] /\ Block(t, g, d)
      /\ UNCHANGED <<prioVars, egInUse, flags>>
  BY DEF EventWaitBlocks
<1>2. g \in Queues
  BY DEF EventAssumption
<1>3. WaitInv'
  BY <1>1, <1>2, BlockPreserves, SamePrio
<1>4. EventTypeOK'
  BY <1>1 DEF EventTypeOK
<1>5. ASSUME NEW u \in Tasks
      PROVE  /\ state'[u] = IF u = t THEN "BLOCKED" ELSE state[u]
             /\ blockObj'[u] = IF u = t THEN g ELSE blockObj[u]
             /\ want'[u] = IF u = t THEN w ELSE want[u]
             /\ stage'[u] = IF u = t THEN "yield" ELSE stage[u]
             /\ arg'[u] = IF u = t THEN g ELSE arg[u]
  BY <1>1 DEF Block, WaitInv, WaitTypeOK, EventTypeOK
<1>6. FlagsAwaited' /\ FreeGroupIsIdle'
  <2>1. FlagsAwaited'
    <3> SUFFICES ASSUME NEW u \in Tasks, NEW h \in Groups, state'[u] = "BLOCKED", blockObj'[u] = h
                 PROVE  ~Matches(flags'[h], want'[u])
      BY DEF FlagsAwaited
    <3>1. CASE u = t
      BY <1>1, <1>5, <3>1
    <3>2. CASE u # t
      BY <1>1, <1>5, <3>2 DEF FlagsAwaited
    <3> QED
      BY <3>1, <3>2
  <2>2. FreeGroupIsIdle'
    <3> SUFFICES ASSUME NEW u \in Tasks, NEW h \in Groups, state'[u] = "BLOCKED", blockObj'[u] = h
                 PROVE  egInUse[h]
      BY <1>1 DEF FreeGroupIsIdle
    <3>1. CASE u = t
      BY <1>1, <1>5, <3>1
    <3>2. CASE u # t
      BY <1>5, <3>2 DEF FreeGroupIsIdle
    <3> QED
      BY <3>1, <3>2
  <2> QED
    BY <2>1, <2>2
<1>7. stage[t] = "run"
  BY <1>1 DEF Executing
<1> QED
  BY <1>3, <1>4, <1>5, <1>6, <1>7, SleepersKept

LEMMA FlagReturnKeeps ==
    ASSUME SignalsAssumption, SignalsInv, UNCHANGED notifyVars,
           NEW t \in Tasks, EventWaitReturns(t)
    PROVE  SignalsInv'
<1> USE DEF SignalsInv, SignalsAssumption
<1>1. /\ Resumes(t) /\ arg[t] \in Groups /\ LeaveCall(t)
      /\ want' = [want EXCEPT ![t] = NoWant] /\ UNCHANGED <<prioVars, egInUse>>
      /\ \/ flags' = [flags EXCEPT ![arg[t]] = @ \ want[t].mask]
         \/ flags' = flags
  BY DEF EventWaitReturns, Consume
<1>2. WaitInv'
  BY <1>1, LeaveCallPreserves, SamePrio
<1>3. flags' \in [Groups -> SUBSET Flags] /\ \A h \in Groups : flags'[h] \subseteq flags[h]
  BY <1>1, FewerFlags
<1>4. EventTypeOK'
  BY <1>1, <1>3 DEF EventTypeOK, Wants, NoWant
<1>5. state[t] # "BLOCKED" /\ UNCHANGED <<state, blockObj>>
  BY <1>1 DEF Resumes, LeaveCall, WaitInv, BlockedInCall
<1>6. \A u \in Tasks : u # t => want'[u] = want[u]
  BY <1>1 DEF EventTypeOK
<1>7. FlagsAwaited' /\ FreeGroupIsIdle'
  BY <1>1, <1>3, <1>5, <1>6, MatchesMonotone DEF FlagsAwaited, FreeGroupIsIdle
<1>8. \A u \in Tasks : \/ stage'[u] = stage[u] /\ arg'[u] = arg[u]
                       \/ arg[u] # NoQueue /\ arg'[u] = NoQueue
  BY <1>1 DEF LeaveCall, Leave, WaitInv, WaitTypeOK, EventAssumption, WaitAssumption
<1> QED
  BY <1>2, <1>4, <1>5, <1>7, <1>8, SleepersKept

LEMMA DeleteGroupKeeps ==
    ASSUME SignalsAssumption, SignalsInv, UNCHANGED notifyVars,
           NEW t \in Tasks, NEW g \in Groups, EventDelete(t, g)
    PROVE  SignalsInv'
<1> USE DEF SignalsInv, SignalsAssumption
<1>1. /\ WakeAll(g) /\ egInUse' = [egInUse EXCEPT ![g] = FALSE]
      /\ flags' = [flags EXCEPT ![g] = {}] /\ UNCHANGED <<prioVars, want>>
  BY DEF EventDelete
<1>2. g \in Queues
  BY DEF EventAssumption
<1>3. WaitInv'
  BY <1>1, <1>2, WakeAllPreserves, SamePrio
<1>4. EventTypeOK'
  BY <1>1 DEF EventTypeOK
<1>5. ASSUME NEW u \in Tasks, state'[u] = "BLOCKED"
      PROVE  state[u] = "BLOCKED" /\ blockObj'[u] = blockObj[u] /\ blockObj[u] # g
  BY <1>1, <1>2, <1>5 DEF WakeAll, Unblock, Wake, WaitInv, QueueMembership
<1>6. FlagsAwaited' /\ FreeGroupIsIdle'
  BY <1>1, <1>5 DEF FlagsAwaited, FreeGroupIsIdle, EventTypeOK
<1> QED
  BY <1>1, <1>3, <1>4, <1>5, <1>6, SleepersKept DEF WakeAll, Unblock

LEMMA EventKeeps ==
    ASSUME SignalsAssumption, SignalsInv, EventStep, UNCHANGED notifyVars
    PROVE  SignalsInv'
<1>1. ASSUME NEW t \in Tasks, NEW g \in Groups, EventCreate(t, g) \/ EventDelete(t, g)
      PROVE  SignalsInv'
  BY <1>1, CreateGroupKeeps, DeleteGroupKeeps
<1>2. ASSUME NEW g \in Groups, NEW m \in SUBSET Flags, Raise(g, m)
      PROVE  SignalsInv'
  BY <1>2, RaiseKeeps
<1>3. ASSUME NEW g \in Groups, NEW m \in SUBSET Flags, Lowered(g, m)
      PROVE  SignalsInv'
  BY <1>3, LowerKeeps DEF Lowered
<1>4. ASSUME NEW t \in Tasks, NEW g \in Groups, NEW w \in Wants, EventWait(t, g, w)
      PROVE  SignalsInv'
  <2>1. flags' = [flags EXCEPT ![g] = @ \ w.mask] \/ flags' = flags
    BY <1>4 DEF EventWait, Consume
  <2> QED
    BY <1>4, <2>1, LowerKeeps DEF EventWait
<1>5. ASSUME NEW t \in Tasks, NEW g \in Groups, NEW w \in Wants, NEW d \in Timeouts,
             EventWaitBlocks(t, g, w, d)
      PROVE  SignalsInv'
  BY <1>5, FlagWaitKeeps
<1>6. ASSUME NEW t \in Tasks, EventWaitReturns(t)
      PROVE  SignalsInv'
  BY <1>6, FlagReturnKeeps
<1> QED
  BY <1>1, <1>2, <1>3, <1>4, <1>5, <1>6
     DEF EventStep, EventSet, EventSetFromIsr, EventClear, EventClearFromIsr

-----------------------------------------------------------------------------
(* What a word becomes is a word.                                          *)
LEMMA LowestZero ==
    ASSUME SignalsAssumption, NEW old \in Words, old # BitNumbers
    PROVE  \E i \in BitNumbers \ old : \A j \in BitNumbers \ old : i <= j
<1> DEFINE P == BitNumbers \ old
<1>1. P # {} /\ P \subseteq Nat
  <2>1. PICK i \in BitNumbers : i \notin old
    BY DEF Words
  <2>2. BitNumbers \subseteq Nat
    BY DEF BitNumbers, SignalsAssumption, NotifyAssumption
  <2> QED
    BY <2>1, <2>2
<1> HIDE DEF P
<1>2. \E i \in P : \A j \in P : i <= j
  BY <1>1, LeastNat
<1> QED
  BY <1>2 DEF P

LEMMA WordsClosed ==
    ASSUME SignalsAssumption, NEW old \in Words, NEW v \in Words, NEW a \in Actions
    PROVE  /\ Increment(old) \in Words /\ NotifyApply(old, v, a) \in Words
           /\ Cleared(old, v) \in Words
<1>1. Increment(old) \in Words
  <2>1. CASE old = BitNumbers
    BY <2>1 DEF Increment, Zero, Words
  <2>2. CASE old # BitNumbers
    <3> DEFINE low == CHOOSE i \in BitNumbers \ old : \A j \in BitNumbers \ old : i <= j
    <3>1. low \in BitNumbers
      BY <2>2, LowestZero
    <3>2. Increment(old) = {i \in old : i > low} \cup {low}
      BY <2>2 DEF Increment
    <3> HIDE DEF low
    <3> QED
      BY <3>1, <3>2 DEF Words
  <2> QED
    BY <2>1, <2>2
<1>2. NotifyApply(old, v, a) \in Words
  BY <1>1 DEF NotifyApply, Actions, Words
<1> QED
  BY <1>1, <1>2 DEF Cleared, Words

(* A step of the notifications that leaves the event groups alone.         *)
LEMMA GroupsKept ==
    ASSUME SignalsInv, UNCHANGED eventVars,
           \A u \in Tasks : state'[u] = "BLOCKED" =>
              \/ state[u] = "BLOCKED" /\ blockObj'[u] = blockObj[u]
              \/ blockObj'[u] \notin Groups
    PROVE  EventTypeOK' /\ FlagsAwaited' /\ FreeGroupIsIdle'
BY DEF SignalsInv, eventVars, EventTypeOK, FlagsAwaited, FreeGroupIsIdle

(* A notification is posted: a target asleep for it is woken in the same   *)
(* section.                                                                *)
LEMMA PostKeeps ==
    ASSUME SignalsAssumption, SignalsInv, UNCHANGED eventVars,
           NEW t \in Tasks, NEW v \in Words, NEW a \in Actions, Post(t, v, a)
    PROVE  SignalsInv'
<1> USE DEF SignalsInv, SignalsAssumption
<1>1. /\ value' = [value EXCEPT ![t] = NotifyApply(value[t], v, a)]
      /\ posted' = [posted EXCEPT ![t] = TRUE] /\ UNCHANGED <<prioVars, sleeping, onExit>>
  BY DEF Post
<1>2. NotifyTypeOK'
  <2>1. value[t] \in Words
    BY DEF NotifyTypeOK
  <2>2. NotifyApply(value[t], v, a) \in Words
    BY <2>1, WordsClosed
  <2> QED
    BY <1>1, <2>2 DEF NotifyTypeOK
<1>3. CASE state[t] = "BLOCKED" /\ t \in sleeping
  <2>1. Unblock({t}, TRUE) /\ UNCHANGED waitq
    BY <1>3 DEF Post
  <2>2. \A q \in Queues : ~InList(waitq[q], t)
    BY <1>3 DEF WaitInv, QueueMembership, SleeperInCall, WaitAssumption
  <2>3. /\ waitq' \in [Queues -> Seq(Tasks)] /\ \A q \in Queues : Once(waitq'[q])
        /\ \A q \in Queues, u \in Tasks : InList(waitq'[q], u) <=> u \notin {t} /\ InList(waitq[q], u)
    BY <2>1, <2>2 DEF WaitInv, WaitTypeOK, LinkedOnce, Once
  <2>4. WaitInv'
    BY <1>1, <2>1, <2>3, UnblockPreserves, SamePrio
  <2>5. /\ UNCHANGED <<stage, arg>>
        /\ \A u \in Tasks : state'[u] = "BLOCKED" =>
              u # t /\ state[u] = "BLOCKED" /\ blockObj'[u] = blockObj[u]
    BY <1>3, <2>1 DEF Unblock, Wake
  <2>6. PostAwaited' /\ RunHasNoArg' /\ SleeperInCall'
    BY <1>1, <2>5 DEF PostAwaited, RunHasNoArg, SleeperInCall, InCall, NotifyTypeOK
  <2> QED
    BY <1>2, <2>4, <2>5, <2>6, GroupsKept
<1>4. CASE ~(state[t] = "BLOCKED" /\ t \in sleeping)
  <2>1. UNCHANGED blockVars
    BY <1>4 DEF Post
  <2>2. WaitInv'
    BY <1>1, <2>1, WaitUnchanged DEF blockVars, prioVars
  <2>3. PostAwaited' /\ RunHasNoArg' /\ SleeperInCall'
    BY <1>1, <1>4, <2>1
       DEF PostAwaited, RunHasNoArg, SleeperInCall, InCall, NotifyTypeOK, blockVars
  <2> QED
    BY <1>2, <2>1, <2>2, <2>3, GroupsKept DEF blockVars
<1> QED
  BY <1>3, <1>4

(* What is posted is taken, or the word looked at, without going to sleep. *)
LEMMA LookKeeps ==
    ASSUME SignalsAssumption, SignalsInv, UNCHANGED <<eventVars, waitVars, sleeping, onExit>>,
           value' \in [Tasks -> Words], posted' \in [Tasks -> BOOLEAN],
           \A u \in Tasks : posted'[u] => posted[u]
    PROVE  SignalsInv'
<1> USE DEF SignalsInv, waitVars, blockVars
<1>1. WaitInv'
  BY WaitUnchanged DEF prioVars
<1>2. NotifyTypeOK'
  BY DEF NotifyTypeOK
<1>3. PostAwaited' /\ RunHasNoArg' /\ SleeperInCall'
  BY DEF PostAwaited, RunHasNoArg, SleeperInCall, InCall
<1> QED
  BY <1>1, <1>2, <1>3, GroupsKept

LEMMA NotifySleepKeeps ==
    ASSUME SignalsAssumption, SignalsInv, UNCHANGED eventVars,
           NEW t \in Tasks, NEW e \in Words, NEW x \in Words, NEW d \in Timeouts,
           NotifyWaitBlocks(t, e, x, d)
    PROVE  SignalsInv'
<1> USE DEF SignalsInv, SignalsAssumption
<1>1. /\ Executing(t) /\ ~posted[t] /\ value' = [value EXCEPT ![t] = Cleared(value[t], e)]
      /\ sleeping' = sleeping \cup {t} /\ onExit' = [onExit EXCEPT ![t] = x]
      /\ Sleep(t, d) /\ UNCHANGED <<prioVars, posted>>
  BY DEF NotifyWaitBlocks
<1>2. WaitInv'
  BY <1>1, SleepPreserves, SamePrio
<1>3. Cleared(value[t], e) \in Words
  BY DEF Cleared, NotifyTypeOK, Words
<1>4. NotifyTypeOK'
  BY <1>1, <1>3 DEF NotifyTypeOK
<1>5. ASSUME NEW u \in Tasks
      PROVE  /\ state'[u] = IF u = t THEN "BLOCKED" ELSE state[u]
             /\ blockObj'[u] = IF u = t THEN NoQueue ELSE blockObj[u]
             /\ stage'[u] = IF u = t THEN "yield" ELSE stage[u]
             /\ arg'[u] = arg[u]
  BY <1>1 DEF Sleep, WaitInv, WaitTypeOK
<1>6. arg[t] = NoQueue
  BY <1>1 DEF Executing, RunHasNoArg
<1>7. PostAwaited' /\ RunHasNoArg' /\ SleeperInCall'
  <2>1. sleeping \subseteq Tasks /\ PostAwaited /\ RunHasNoArg /\ SleeperInCall
    BY DEF NotifyTypeOK
  <2>2. sleeping' = sleeping \cup {t} /\ posted' = posted /\ ~posted[t]
    BY <1>1
  <2> HIDE DEF SignalsInv, SignalsAssumption
  <2>3. PostAwaited'
    BY <1>5, <2>1, <2>2 DEF PostAwaited
  <2>4. RunHasNoArg'
    BY <1>5, <2>1 DEF RunHasNoArg
  <2>5. SleeperInCall'
    BY <1>5, <1>6, <2>1, <2>2 DEF SleeperInCall, InCall
  <2> QED
    BY <2>3, <2>4, <2>5
<1>8. NoQueue \notin Groups
  BY DEF WaitAssumption, EventAssumption
<1> QED
  BY <1>2, <1>4, <1>5, <1>7, <1>8, GroupsKept

LEMMA NotifyReturnKeeps ==
    ASSUME SignalsAssumption, SignalsInv, UNCHANGED eventVars,
           NEW t \in Tasks, NotifyWaitReturns(t)
    PROVE  SignalsInv'
<1> USE DEF SignalsInv, SignalsAssumption
<1>1. /\ Resumes(t) /\ t \in sleeping /\ LeaveCall(t) /\ UNCHANGED prioVars
      /\ posted' = [posted EXCEPT ![t] = FALSE] /\ sleeping' = sleeping \ {t}
      /\ onExit' = [onExit EXCEPT ![t] = Zero]
  BY DEF NotifyWaitReturns
<1>2. WaitInv'
  BY <1>1, LeaveCallPreserves, SamePrio
<1>3. value' \in [Tasks -> Words]
  BY DEF NotifyWaitReturns, NotifyTypeOK, Cleared, Words
<1>4. NotifyTypeOK'
  BY <1>1, <1>3 DEF NotifyTypeOK, Words, Zero
<1>5. /\ UNCHANGED <<state, blockObj>>
      /\ \A u \in Tasks : stage'[u] = (IF u = t THEN "run" ELSE stage[u])
      /\ \A u \in Tasks : arg'[u] = (IF u = t THEN NoQueue ELSE arg[u])
  BY <1>1 DEF LeaveCall, Leave, WaitInv, WaitTypeOK
<1>6. PostAwaited' /\ RunHasNoArg' /\ SleeperInCall'
  BY <1>1, <1>5 DEF PostAwaited, RunHasNoArg, SleeperInCall, InCall, NotifyTypeOK
<1> QED
  BY <1>2, <1>4, <1>5, <1>6, GroupsKept

LEMMA NotifyKeeps ==
    ASSUME SignalsAssumption, SignalsInv, NotifyStep, UNCHANGED eventVars
    PROVE  SignalsInv'
<1>1. ASSUME NEW t \in Tasks, NEW v \in Words, NEW a \in Actions, Post(t, v, a)
      PROVE  SignalsInv'
  BY <1>1, PostKeeps
<1>2. ASSUME NEW t \in Tasks, NEW e \in Words, NEW x \in Words,
             NotifyWait(t, e, x) \/ NotifyPoll(t, e)
      PROVE  SignalsInv'
  <2>1. /\ UNCHANGED <<waitVars, sleeping, onExit>>
        /\ value' \in [Tasks -> Words] /\ posted' \in [Tasks -> BOOLEAN]
        /\ \A u \in Tasks : posted'[u] => posted[u]
    BY <1>2 DEF NotifyWait, NotifyPoll, SignalsInv, NotifyTypeOK, Cleared, Words
  <2> QED
    BY <2>1, LookKeeps
<1>3. ASSUME NEW t \in Tasks, NEW e \in Words, NEW x \in Words, NEW d \in Timeouts,
             NotifyWaitBlocks(t, e, x, d)
      PROVE  SignalsInv'
  BY <1>3, NotifySleepKeeps
<1>4. ASSUME NEW t \in Tasks, NotifyWaitReturns(t)
      PROVE  SignalsInv'
  BY <1>4, NotifyReturnKeeps
<1> QED
  BY <1>1, <1>2, <1>3, <1>4 DEF NotifyStep, Notify, NotifyFromIsr

-----------------------------------------------------------------------------
LEMMA SignalsInvInit == ASSUME SignalsAssumption, Init PROVE SignalsInv
<1>1. WaitInv
  BY InitEstablishes DEF Init, SignalsAssumption
<1>2. EventTypeOK /\ NotifyTypeOK
  BY DEF Init, EventInit, NotifyInit, EventTypeOK, NotifyTypeOK, Wants, NoWant, Words, Zero
<1>3. FlagsAwaited /\ FreeGroupIsIdle /\ PostAwaited /\ RunHasNoArg /\ SleeperInCall
  BY DEF Init, WaitInit, NotifyInit, FlagsAwaited, FreeGroupIsIdle, PostAwaited,
         RunHasNoArg, SleeperInCall
<1> QED
  BY <1>1, <1>2, <1>3 DEF SignalsInv

LEMMA SignalsInvStep == ASSUME SignalsAssumption, SignalsInv, [Next]_vars PROVE SignalsInv'
<1>1. CASE UNCHANGED vars
  <2>1. UNCHANGED <<waitVars, eventVars, notifyVars>>
    BY <1>1 DEF vars
  <2> QED
    BY <2>1, NothingAside, AsideKeeps
<1>2. CASE Next
  BY <1>2, EventKeeps, NotifyKeeps, StreamKeeps, TaskKeeps, CreateKeeps DEF Next
<1> QED
  BY <1>1, <1>2

THEOREM SignalsInvariant == ASSUME SignalsAssumption PROVE Spec => []SignalsInv
<1>1. Init => SignalsInv
  BY SignalsInvInit
<1>2. SignalsInv /\ [Next]_vars => SignalsInv'
  BY SignalsInvStep
<1> QED
  BY <1>1, <1>2, PTL DEF Spec

(* No task stays asleep on flags that are there: a set wakes every waiter  *)
(* it satisfies (the walk of event_group_set), and wait_bits never goes to *)
(* sleep on a condition that holds.                                        *)
THEOREM FlagWaitersWake == Spec => []NoIdleFlagWaiter
<1>1. SignalsAssumption
  BY WaitAssumption, EventAssumption, NotifyAssumption, StreamAssumption, FamilyAssumption
     DEF SignalsAssumption
<1>2. SignalsInv => NoIdleFlagWaiter
  BY DEF SignalsInv, WaitInv, NoIdleFlagWaiter, FlagsAwaited
<1> QED
  BY <1>1, <1>2, SignalsInvariant, PTL

(* No task sleeps in notify_wait with a notification posted, whichever of  *)
(* a task and an interrupt posts it and wherever the wait is by then.      *)
THEOREM PostedWakes == Spec => []NotifiedWakes
<1>1. SignalsAssumption
  BY WaitAssumption, EventAssumption, NotifyAssumption, StreamAssumption, FamilyAssumption
     DEF SignalsAssumption
<1>2. SignalsInv => NotifiedWakes
  BY DEF SignalsInv, NotifiedWakes, PostAwaited
<1> QED
  BY <1>1, <1>2, SignalsInvariant, PTL

-----------------------------------------------------------------------------
(* Sequences put together.                                                 *)

FlatAt(f, s, i) == IF i = 1 THEN s[i] ELSE f[i - 1] \o s[i]
IsFlat(f, s) == f = [i \in 1..Len(s) |-> FlatAt(f, s, i)]

AgreeTo(s, w, n) == \A i \in 1..n : s[i] = w[i]

(* The recursive function that FlattenSeq is written with exists.          *)
LEMMA FlatExists ==
    ASSUME NEW s, NEW n \in Nat
    PROVE  \E f : f = [i \in 1..n |-> FlatAt(f, s, i)]
<1> DEFINE Given(m) == \E f : f = [i \in 1..m |-> FlatAt(f, s, i)]
           Bad == {m \in Nat : ~Given(m)}
<1>1. Bad = {}
  <2> SUFFICES ASSUME Bad # {} PROVE FALSE
    OBVIOUS
  <2>1. Bad \in SUBSET Nat
    OBVIOUS
  <2> HIDE DEF Bad
  <2>2. PICK m \in Bad : \A k \in Bad : m <= k
    BY <2>1, LeastNat
  <2>3. m \in Nat /\ ~Given(m)
    BY <2>1 DEF Bad
  <2>4. m # 0
    <3>1. << >> = [i \in 1..0 |-> FlatAt(<< >>, s, i)]
      OBVIOUS
    <3> QED
      BY <2>3, <3>1
  <2>5. Given(m - 1)
    <3>1. m - 1 \in Nat /\ ~(m <= m - 1)
      BY <2>3, <2>4
    <3>2. m - 1 \notin Bad
      BY <2>2, <3>1
    <3> QED
      BY <3>1, <3>2 DEF Bad
  <2>6. PICK f : f = [i \in 1..(m - 1) |-> FlatAt(f, s, i)]
    BY <2>5
  <2> DEFINE g == [i \in 1..m |-> IF i = m THEN FlatAt(f, s, m) ELSE f[i]]
  <2>7. ASSUME NEW i \in 1..m PROVE g[i] = FlatAt(g, s, i)
    <3>1. CASE i = m
      BY <2>3, <2>4, <3>1 DEF FlatAt
    <3>2. CASE i # m
      <4>1. i \in 1..(m - 1) /\ g[i] = f[i] /\ (i # 1 => g[i - 1] = f[i - 1])
        BY <2>3, <3>2
      <4>2. f[i] = FlatAt(f, s, i)
        BY <2>6, <4>1
      <4> QED
        BY <4>1, <4>2 DEF FlatAt
    <3> QED
      BY <3>1, <3>2
  <2>8. g = [i \in 1..m |-> FlatAt(g, s, i)]
    BY <2>7
  <2> HIDE DEF g
  <2> QED
    BY <2>3, <2>8
<1>2. n \notin Bad
  BY <1>1
<1> QED
  BY <1>2

LEMMA FlatIs ==
    ASSUME NEW s, Len(s) \in Nat \ {0}
    PROVE  \E f : IsFlat(f, s) /\ FlattenSeq(s) = f[Len(s)]
<1> DEFINE flatten[i \in 1..Len(s)] == IF i = 1 THEN s[i] ELSE flatten[i - 1] \o s[i]
<1>1. \E f : f = [i \in 1..Len(s) |-> FlatAt(f, s, i)]
  BY FlatExists
<1>2. flatten = [i \in 1..Len(s) |-> FlatAt(flatten, s, i)]
  BY <1>1 DEF FlatAt
<1>3. FlattenSeq(s) = flatten[Len(s)]
  BY DEF FlattenSeq
<1> QED
  BY <1>2, <1>3 DEF IsFlat

LEMMA FlatAgrees ==
    ASSUME NEW s, NEW w, NEW f, NEW g, IsFlat(f, s), IsFlat(g, w), Len(s) \in Nat, Len(w) \in Nat,
           NEW n \in Nat, n <= Len(s), n <= Len(w), AgreeTo(s, w, n),
           NEW k \in 1..n
    PROVE  f[k] = g[k]
<1> USE DEF AgreeTo
<1> DEFINE Bad == {i \in 1..n : f[i] # g[i]}
<1> SUFFICES ASSUME Bad # {} PROVE FALSE
  OBVIOUS
<1>1. Bad \in SUBSET Nat
  OBVIOUS
<1>2. PICK m \in Bad : \A i \in Bad : m <= i
  BY <1>1, LeastNat
<1>3. m \in 1..n /\ f[m] # g[m] /\ m \in 1..Len(s) /\ m \in 1..Len(w) /\ s[m] = w[m]
  BY <1>2
<1>4. f[m] = FlatAt(f, s, m) /\ g[m] = FlatAt(g, w, m)
  BY <1>3 DEF IsFlat
<1>5. m # 1
  BY <1>3, <1>4 DEF FlatAt
<1>6. m - 1 \in 1..n /\ ~(m <= m - 1)
  BY <1>3, <1>5
<1>7. f[m - 1] = g[m - 1]
  BY <1>2, <1>6
<1> QED
  BY <1>3, <1>4, <1>5, <1>7 DEF FlatAt

LEMMA FlatAppend ==
    ASSUME NEW X, NEW s \in Seq(Seq(X)), NEW x \in Seq(X)
    PROVE  FlattenSeq(Append(s, x)) = IF s = << >> THEN x ELSE FlattenSeq(s) \o x
<1> DEFINE w == Append(s, x)
<1>1. /\ w \in Seq(Seq(X)) /\ Len(w) = Len(s) + 1 /\ w[Len(s) + 1] = x /\ Len(s) \in Nat
      /\ \A i \in 1..Len(s) : w[i] = s[i]
  OBVIOUS
<1> HIDE DEF w
<1>2. PICK g : IsFlat(g, w) /\ FlattenSeq(w) = g[Len(w)]
  <2>1. Len(w) \in Nat \ {0}
    BY <1>1
  <2> QED
    BY <2>1, FlatIs
<1>3. g[Len(s) + 1] = FlatAt(g, w, Len(s) + 1)
  <2>1. Len(s) + 1 \in 1..Len(w)
    BY <1>1
  <2> QED
    BY <1>2, <2>1 DEF IsFlat
<1>4. CASE s = << >>
  BY <1>1, <1>2, <1>3, <1>4 DEF FlatAt, w
<1>5. CASE s # << >>
  <2>1. Len(s) \in Nat \ {0}
    BY <1>5
  <2>2. PICK f : IsFlat(f, s) /\ FlattenSeq(s) = f[Len(s)]
    BY <2>1, FlatIs
  <2>3. f[Len(s)] = g[Len(s)]
    <3>1. PICK n \in Nat : n = Len(s)
      BY <2>1
    <3>2. n \in 1..n /\ n <= Len(s) /\ n <= Len(w) /\ Len(w) \in Nat /\ Len(s) \in Nat
      BY <1>1, <2>1, <3>1
    <3>3. IsFlat(f, s) /\ IsFlat(g, w) /\ AgreeTo(s, w, n)
      BY <1>1, <1>2, <2>2, <3>1 DEF AgreeTo
    <3>4. f[n] = g[n]
      BY <3>2, <3>3, FlatAgrees
    <3> QED
      BY <3>1, <3>4
  <2>4. FlatAt(g, w, Len(s) + 1) = g[Len(s)] \o x
    BY <1>1, <2>1 DEF FlatAt
  <2> QED
    BY <1>1, <1>2, <1>3, <1>5, <2>2, <2>3, <2>4 DEF w
<1> QED
  BY <1>4, <1>5

LEMMA FlatEmpty == FlattenSeq(<< >>) = << >>
BY DEF FlattenSeq

(* What holds of the empty sequence and of every extension of a sequence   *)
(* of which it holds cannot fail at a shortest one.                        *)
LEMMA ShortestIsExtension ==
    ASSUME NEW X, NEW B \in SUBSET Seq(X), B # {}
    PROVE  \E s \in B : s = << >> \/ \E u \in Seq(X), x \in X : s = Append(u, x) /\ u \notin B
<1>1. {Len(s) : s \in B} \in SUBSET Nat /\ {Len(s) : s \in B} # {}
  <2>1. \A s \in B : Len(s) \in Nat
    OBVIOUS
  <2> QED
    BY <2>1, Zenon
<1>2. PICK n \in {Len(s) : s \in B} : \A k \in {Len(s) : s \in B} : n <= k
  BY <1>1, LeastNat
<1>3. PICK s \in B : Len(s) = n
  BY <1>2
<1>4. CASE s = << >>
  BY <1>4
<1>5. CASE s # << >>
  <2> DEFINE u == [i \in 1..(Len(s) - 1) |-> s[i]]
  <2>1. s \in Seq(X) /\ Len(s) \in Nat \ {0} /\ s[Len(s)] \in X
    BY <1>5
  <2>2. u \in Seq(X) /\ Len(u) = Len(s) - 1
    BY <2>1
  <2>3. s = Append(u, s[Len(s)])
    BY <2>1, <2>2
  <2>4. u \notin B
    BY <1>2, <1>3, <2>1, <2>2
  <2> QED
    BY <2>1, <2>2, <2>3, <2>4
<1> QED
  BY <1>4, <1>5

LEMMA FlatType ==
    ASSUME NEW X, NEW s \in Seq(Seq(X)) PROVE FlattenSeq(s) \in Seq(X)
<1> DEFINE B == {w \in Seq(Seq(X)) : FlattenSeq(w) \notin Seq(X)}
<1> SUFFICES ASSUME B # {} PROVE FALSE
  OBVIOUS
<1>1. PICK w \in B : w = << >> \/ \E u \in Seq(Seq(X)), x \in Seq(X) : w = Append(u, x) /\ u \notin B
  <2>1. B \in SUBSET Seq(Seq(X))
    OBVIOUS
  <2> HIDE DEF B
  <2> QED
    BY <2>1, ShortestIsExtension
<1>2. CASE w = << >>
  <2>1. FlattenSeq(w) \notin Seq(X) /\ << >> \in Seq(X)
    BY <1>1
  <2> QED
    BY <1>2, <2>1, FlatEmpty, Zenon
<1>3. CASE w # << >>
  <2>1. PICK u \in Seq(Seq(X)), x \in Seq(X) : w = Append(u, x) /\ u \notin B
    BY <1>1, <1>3
  <2>2. FlattenSeq(w) = IF u = << >> THEN x ELSE FlattenSeq(u) \o x
    BY <2>1, FlatAppend
  <2>3. FlattenSeq(u) \in Seq(X)
    BY <2>1
  <2>4. FlattenSeq(u) \o x \in Seq(X)
    BY <2>3
  <2>5. FlattenSeq(w) \in Seq(X)
    BY <2>2, <2>4, Zenon
  <2> QED
    BY <1>1, <2>5
<1> QED
  BY <1>2, <1>3

Regrouped(s, t, u) == (s \o t) \o u = s \o (t \o u)

LEMMA Regroup ==
    ASSUME NEW X, NEW s \in Seq(X), NEW t \in Seq(X), NEW u \in Seq(X) PROVE Regrouped(s, t, u)
BY ConcatAssociative DEF Regrouped

(* ... and the other end.                                                  *)
LEMMA FlatCons ==
    ASSUME NEW X, NEW x \in Seq(X), NEW s \in Seq(Seq(X))
    PROVE  FlattenSeq(<<x>> \o s) = x \o FlattenSeq(s)
<1> DEFINE B == {w \in Seq(Seq(X)) : FlattenSeq(<<x>> \o w) # x \o FlattenSeq(w)}
<1> SUFFICES ASSUME B # {} PROVE FALSE
  OBVIOUS
<1>1. PICK w \in B : w = << >> \/ \E u \in Seq(Seq(X)), y \in Seq(X) : w = Append(u, y) /\ u \notin B
  <2>1. B \in SUBSET Seq(Seq(X))
    OBVIOUS
  <2> HIDE DEF B
  <2> QED
    BY <2>1, ShortestIsExtension
<1>2. <<x>> \in Seq(Seq(X)) /\ << >> \in Seq(Seq(X))
  OBVIOUS
<1>3. FlattenSeq(<<x>>) = x
  <2>1. <<x>> = Append(<< >>, x)
    OBVIOUS
  <2> QED
    BY <1>2, <2>1, FlatAppend
<1>4. CASE w = << >>
  <2>1. <<x>> \o w = <<x>> /\ x \o << >> = x
    BY <1>4
  <2> QED
    BY <1>1, <1>3, <1>4, <2>1, FlatEmpty
<1>5. CASE w # << >>
  <2>1. PICK u \in Seq(Seq(X)), y \in Seq(X) : w = Append(u, y) /\ u \notin B
    BY <1>1, <1>5
  <2>2. <<x>> \o w = Append(<<x>> \o u, y) /\ <<x>> \o u \in Seq(Seq(X)) /\ <<x>> \o u # << >>
    <3>1. <<x>> \o u \in Seq(Seq(X)) /\ Len(<<x>> \o u) = Len(u) + 1 /\ Len(u) \in Nat
      BY <1>2
    <3>2. <<x>> \o Append(u, y) = Append(<<x>> \o u, y)
      <4>1. <<y>> \in Seq(Seq(X))
        OBVIOUS
      <4>2. Append(u, y) = u \o <<y>> /\ Append(<<x>> \o u, y) = (<<x>> \o u) \o <<y>>
        BY <3>1, AppendIsConcat
      <4>3. (<<x>> \o u) \o <<y>> = <<x>> \o (u \o <<y>>)
        <5>1. PICK a \in Seq(Seq(X)), c \in Seq(Seq(X)) : a = <<x>> /\ c = <<y>>
          BY <1>2, <4>1
        <5> HIDE DEF B
        <5>2. Regrouped(a, u, c)
          BY Regroup, Zenon
        <5> QED
          BY <5>1, <5>2, Zenon DEF Regrouped
      <4> QED
        BY <4>2, <4>3
    <3>3. <<x>> \o u # << >>
      BY <3>1
    <3> QED
      BY <2>1, <3>1, <3>2, <3>3
  <2>3. FlattenSeq(<<x>> \o w) = FlattenSeq(<<x>> \o u) \o y
    BY <2>2, FlatAppend
  <2>4. FlattenSeq(<<x>> \o u) = x \o FlattenSeq(u)
    BY <2>1
  <2>5. FlattenSeq(w) = IF u = << >> THEN y ELSE FlattenSeq(u) \o y
    BY <2>1, FlatAppend
  <2>6. FlattenSeq(u) \in Seq(X)
    BY FlatType
  <2>7. (x \o FlattenSeq(u)) \o y = x \o (FlattenSeq(u) \o y)
    <3>1. PICK q \in Seq(X) : q = FlattenSeq(u)
      BY <2>6
    <3> HIDE DEF B
    <3>2. Regrouped(x, q, y)
      BY Regroup, Zenon
    <3> QED
      BY <3>1, <3>2, Zenon DEF Regrouped
  <2>10. FlattenSeq(<<x>> \o w) # x \o FlattenSeq(w)
    BY <1>1
  <2>8. CASE u = << >>
    <3>1. FlattenSeq(u) = << >> /\ x \o << >> = x
      BY <2>8, FlatEmpty
    <3> QED
      BY <2>3, <2>4, <2>5, <2>8, <2>10, <3>1, Zenon
  <2>9. CASE u # << >>
    BY <2>3, <2>4, <2>5, <2>7, <2>9, <2>10, Zenon
  <2> QED
    BY <2>8, <2>9
<1> QED
  BY <1>4, <1>5

(* Single elements: the sequence of them.                                  *)
LEMMA FlatSingles ==
    ASSUME NEW X, NEW s \in Seq(Seq(X)), \A i \in 1..Len(s) : Len(s[i]) = 1
    PROVE  FlattenSeq(s) = [i \in 1..Len(s) |-> s[i][1]]
<1> DEFINE Single(w) == \A i \in 1..Len(w) : Len(w[i]) = 1
           Firsts(w) == [i \in 1..Len(w) |-> w[i][1]]
           B == {w \in Seq(Seq(X)) : Single(w) /\ FlattenSeq(w) # Firsts(w)}
<1> SUFFICES ASSUME B # {} PROVE FALSE
  OBVIOUS
<1>1. PICK w \in B : w = << >> \/ \E u \in Seq(Seq(X)), x \in Seq(X) : w = Append(u, x) /\ u \notin B
  <2>1. B \in SUBSET Seq(Seq(X))
    OBVIOUS
  <2> HIDE DEF B
  <2> QED
    BY <2>1, ShortestIsExtension
<1>2. CASE w = << >>
  <2>1. FlattenSeq(w) # Firsts(w)
    BY <1>1
  <2>2. Firsts(w) = << >>
    BY <1>2
  <2> QED
    BY <1>2, <2>1, <2>2, FlatEmpty
<1>3. CASE w # << >>
  <2>1. PICK u \in Seq(Seq(X)), x \in Seq(X) : w = Append(u, x) /\ u \notin B
    BY <1>1, <1>3
  <2>2. Single(w)
    BY <1>1
  <2>3. /\ Len(w) = Len(u) + 1 /\ w[Len(u) + 1] = x /\ Len(u) \in Nat
        /\ \A i \in 1..Len(u) : w[i] = u[i] /\ i \in 1..Len(w)
        /\ Len(u) + 1 \in 1..Len(w)
    BY <2>1
  <2>4. Single(u) /\ Len(x) = 1
    BY <2>2, <2>3
  <2>5. FlattenSeq(u) = Firsts(u)
    BY <2>1, <2>4
  <2>6. FlattenSeq(w) = IF u = << >> THEN x ELSE FlattenSeq(u) \o x
    <3>1. w = Append(u, x)
      BY <2>1
    <3> HIDE DEF B, Single, Firsts
    <3>2. FlattenSeq(Append(u, x)) = IF u = << >> THEN x ELSE FlattenSeq(u) \o x
      BY FlatAppend
    <3> QED
      BY <3>1, <3>2, Zenon
  <2>11. FlattenSeq(w) # Firsts(w)
    BY <1>1
  <2>7. Firsts(u) \in Seq(X) /\ Len(Firsts(u)) = Len(u)
    BY <2>4
  <2>8. x = <<x[1]>>
    BY <2>4
  <2>9. CASE u = << >>
    <3>1. Firsts(w) = <<x[1]>>
      BY <2>3, <2>9
    <3> QED
      BY <2>6, <2>8, <2>9, <2>11, <3>1, Zenon
  <2>10. CASE u # << >>
    <3>1. \A i \in 1..(Len(u) + 1) : (Firsts(u) \o x)[i] = w[i][1]
      BY <2>3, <2>4, <2>7
    <3>2. Firsts(u) \o x = Firsts(w)
      <4>1. x \in Seq(X) /\ Firsts(u) \o x \in Seq(X) /\ Len(Firsts(u) \o x) = Len(w)
        <5> DEFINE a == Firsts(u)
        <5>1. x \in Seq(X) /\ a \in Seq(X) /\ Len(a) = Len(u) /\ Len(u) \in Nat
          BY <2>3, <2>7
        <5> HIDE DEF a
        <5>2. a \o x \in Seq(X) /\ Len(a \o x) = Len(a) + Len(x)
          BY <5>1
        <5>3. Len(a \o x) = Len(w)
          BY <2>3, <2>4, <5>1, <5>2
        <5> QED
          BY <5>1, <5>2, <5>3 DEF a
      <4>2. Firsts(w) \in Seq(X) /\ Len(Firsts(w)) = Len(w)
        BY <2>2
      <4>3. \A i \in 1..Len(w) : Firsts(w)[i] = w[i][1]
        OBVIOUS
      <4> QED
        BY <2>3, <3>1, <4>1, <4>2, <4>3, SeqEqual
    <3> QED
      BY <2>5, <2>6, <2>10, <2>11, <3>2, Zenon
  <2> QED
    BY <2>9, <2>10
<1> QED
  BY <1>2, <1>3

-----------------------------------------------------------------------------
(* Lengths as bytes.                                                       *)

Repeats(f, n, s, H) == \A i \in 0..n : f[i] = IF i = 0 THEN s ELSE H[<<i, f[i - 1]>>]

LEMMA Recursion ==
    ASSUME NEW S, NEW n \in Nat, NEW s \in S, NEW H \in [(1..n) \X S -> S]
    PROVE  \E f \in [0..n -> S] : Repeats(f, n, s, H)
<1> USE DEF Repeats
<1> DEFINE Given(m) == \E f \in [0..m -> S] : \A i \in 0..m : f[i] = IF i = 0 THEN s ELSE H[<<i, f[i - 1]>>]
           Bad == {m \in 0..n : ~Given(m)}
<1> SUFFICES ASSUME Bad # {} PROVE FALSE
  <2>1. n \in 0..n
    OBVIOUS
  <2> QED
    BY <2>1
<1>1. Bad \in SUBSET Nat
  OBVIOUS
<1> HIDE DEF Bad
<1>2. PICK m \in Bad : \A k \in Bad : m <= k
  BY <1>1, LeastNat
<1>3. m \in 0..n /\ ~Given(m)
  BY DEF Bad
<1>4. m # 0
  <2> DEFINE g == [i \in 0..0 |-> s]
  <2>1. g \in [0..0 -> S] /\ \A i \in 0..0 : g[i] = IF i = 0 THEN s ELSE H[<<i, g[i - 1]>>]
    OBVIOUS
  <2> QED
    BY <1>3, <2>1
<1>5. PICK f \in [0..(m - 1) -> S] : \A i \in 0..(m - 1) : f[i] = IF i = 0 THEN s ELSE H[<<i, f[i - 1]>>]
  <2>1. m - 1 \in 0..n /\ ~(m <= m - 1)
    BY <1>3, <1>4
  <2>2. m - 1 \notin Bad
    BY <1>2, <2>1
  <2> QED
    BY <2>1, <2>2 DEF Bad
<1> DEFINE g == [i \in 0..m |-> IF i = m THEN H[<<m, f[m - 1]>>] ELSE f[i]]
<1>6. H[<<m, f[m - 1]>>] \in S
  <2>1. m \in 1..n /\ m - 1 \in 0..(m - 1)
    BY <1>3, <1>4
  <2> QED
    BY <2>1
<1>7. g \in [0..m -> S]
  <2>1. ASSUME NEW i \in 0..m PROVE g[i] \in S
    <3>1. i # m => i \in 0..(m - 1)
      BY <1>3
    <3> QED
      BY <1>6, <3>1
  <2> QED
    BY <2>1
<1>8. ASSUME NEW i \in 0..m PROVE g[i] = IF i = 0 THEN s ELSE H[<<i, g[i - 1]>>]
  <2>1. CASE i = m
    <3>1. m - 1 \in 0..m /\ m - 1 # m
      BY <1>3, <1>4
    <3> QED
      BY <1>4, <2>1, <3>1
  <2>2. CASE i # m
    <3>1. i \in 0..(m - 1) /\ (i # 0 => i - 1 \in 0..m /\ i - 1 # m)
      BY <1>3, <2>2
    <3>2. f[i] = IF i = 0 THEN s ELSE H[<<i, f[i - 1]>>]
      BY <1>5, <3>1
    <3> QED
      BY <2>2, <3>1, <3>2
  <2> QED
    BY <2>1, <2>2
<1> HIDE DEF g
<1> QED
  BY <1>3, <1>7, <1>8

LEMMA PlaceIs ==
    ASSUME StreamAssumption
    PROVE  /\ Place[0] = 1 /\ \A i \in 1..PrefixLen : Place[i] = Base * Place[i - 1]
           /\ \A i \in 0..PrefixLen : Place[i] \in Nat \ {0}
<1>1. PrefixLen \in Nat \ {0} /\ Base \in Nat \ {0}
  BY DEF StreamAssumption
<1>2. \E f : f = [i \in 0..PrefixLen |-> IF i = 0 THEN 1 ELSE Base * f[i - 1]]
  <2> DEFINE H == [p \in (1..PrefixLen) \X Nat |-> Base * p[2]]
  <2>1. H \in [(1..PrefixLen) \X Nat -> Nat]
    BY <1>1
  <2> HIDE DEF H
  <2>2. PICK f \in [0..PrefixLen -> Nat] : \A i \in 0..PrefixLen : f[i] = IF i = 0 THEN 1 ELSE H[<<i, f[i - 1]>>]
    <3>1. PICK n \in Nat : n = PrefixLen
      BY <1>1
    <3>2. PICK h \in [(1..n) \X Nat -> Nat] : h = H
      BY <2>1, <3>1
    <3>3. 1 \in Nat
      OBVIOUS
    <3>4. \E f \in [0..n -> Nat] : Repeats(f, n, 1, h)
      BY <3>3, Recursion, Zenon
    <3>5. PICK f \in [0..n -> Nat] : Repeats(f, n, 1, h)
      BY <3>4
    <3>6. f \in [0..PrefixLen -> Nat]
      BY <3>1
    <3>7. \A i \in 0..PrefixLen : f[i] = IF i = 0 THEN 1 ELSE H[<<i, f[i - 1]>>]
      BY <3>1, <3>2, <3>5, Zenon DEF Repeats
    <3> QED
      BY <3>6, <3>7, Zenon
  <2>3. ASSUME NEW i \in 0..PrefixLen PROVE f[i] = IF i = 0 THEN 1 ELSE Base * f[i - 1]
    <3>1. i # 0 => i \in 1..PrefixLen /\ f[i - 1] \in Nat
      BY <1>1
    <3>2. i # 0 => H[<<i, f[i - 1]>>] = Base * f[i - 1]
      BY <3>1 DEF H
    <3> QED
      BY <2>2, <3>2
  <2>4. f = [i \in 0..PrefixLen |-> IF i = 0 THEN 1 ELSE Base * f[i - 1]]
    BY <2>3
  <2> QED
    BY <2>4
<1>3. Place = [i \in 0..PrefixLen |-> IF i = 0 THEN 1 ELSE Base * Place[i - 1]]
  BY <1>2 DEF Place
<1>4. ASSUME NEW i \in 0..PrefixLen PROVE Place[i] = IF i = 0 THEN 1 ELSE Base * Place[i - 1]
  BY <1>3
<1>5. ASSUME NEW i \in 0..PrefixLen PROVE Place[i] \in Nat \ {0}
  <2> DEFINE Bad == {k \in 0..PrefixLen : Place[k] \notin Nat \ {0}}
  <2> SUFFICES ASSUME Bad # {} PROVE FALSE
    OBVIOUS
  <2>1. PICK k \in Bad : \A j \in Bad : k <= j
    <3>1. Bad \in SUBSET Nat
      OBVIOUS
    <3> QED
      BY <3>1, LeastNat
  <2>2. k \in 0..PrefixLen /\ Place[k] \notin Nat \ {0}
    BY <2>1
  <2>3. k # 0
    BY <1>4, <2>2
  <2>4. k - 1 \in 0..PrefixLen /\ ~(k <= k - 1)
    BY <1>1, <2>2, <2>3
  <2>5. Place[k - 1] \in Nat \ {0}
    BY <2>1, <2>4
  <2>6. Place[k] = Base * Place[k - 1]
    BY <1>4, <2>2, <2>3
  <2> QED
    BY <1>1, <2>2, <2>5, <2>6
<1>6. 0 \in 0..PrefixLen /\ \A i \in 1..PrefixLen : i \in 0..PrefixLen /\ i # 0
  BY <1>1
<1> QED
  BY <1>4, <1>5, <1>6

LEMMA Remains == ASSUME NEW p \in Nat \ {0}, NEW n \in Nat, n < p PROVE n % p = n
OBVIOUS

LEMMA DivModUnique ==
    ASSUME NEW q \in Nat \ {0}, NEW d \in Nat, NEW r \in 0..(q - 1), NEW n, n = q * d + r
    PROVE  n \div q = d /\ n % q = r
OBVIOUS

LEMMA DivMod ==
    ASSUME NEW n \in Nat, NEW q \in Nat \ {0}
    PROVE  /\ n = q * (n \div q) + (n % q)
           /\ n % q \in 0..(q - 1) /\ n \div q \in Nat
<1> DEFINE R == {r \in Nat : \E d \in Nat : n = q * d + r}
<1>1. n \in R
  <2>1. n = q * 0 + n
    OBVIOUS
  <2> QED
    BY <2>1
<1>2. R \in SUBSET Nat
  OBVIOUS
<1>3. PICK r \in R : \A k \in R : r <= k
  BY <1>1, <1>2, LeastNat
<1>4. PICK d \in Nat : n = q * d + r
  BY <1>3
<1>5. r < q
  <2> SUFFICES ASSUME r >= q PROVE FALSE
    BY <1>2
  <2>1. r - q \in Nat /\ ~(r <= r - q)
    OBVIOUS
  <2>2. n = q * (d + 1) + (r - q)
    BY <1>4
  <2>3. r - q \in R
    BY <2>1, <2>2
  <2> QED
    BY <1>3, <2>1, <2>3
<1>6. r \in 0..(q - 1)
  BY <1>2, <1>5
<1> HIDE DEF R
<1>7. n \div q = d /\ n % q = r
  BY <1>4, <1>6, DivModUnique
<1> QED
  BY <1>4, <1>6, <1>7

LEMMA ModProduct ==
    ASSUME NEW n \in Nat, NEW q \in Nat \ {0}, NEW B \in Nat \ {0}
    PROVE  n % (B * q) = (n % q) + (((n \div q) % B) * q)
<1>1. PICK a \in Nat, r \in 0..(q - 1) : a = n \div q /\ r = n % q /\ n = q * a + r
  BY DivMod
<1>2. PICK c \in Nat, d \in 0..(B - 1) : c = a \div B /\ d = a % B /\ a = B * c + d
  BY DivMod
<1>3. B * q \in Nat \ {0} /\ q * d \in Nat /\ q * d + r \in Nat
  OBVIOUS
<1>4. q * d + r < B * q
  <2>1. PICK e \in Nat : d + 1 + e = B
    <3>1. B - 1 - d \in Nat /\ d + 1 + (B - 1 - d) = B
      OBVIOUS
    <3> QED
      BY <3>1
  <2>2. q * (d + 1 + e) = q * d + q + q * e /\ q * e \in Nat
    OBVIOUS
  <2>3. q * B = B * q
    OBVIOUS
  <2> QED
    BY <1>3, <2>1, <2>2, <2>3
<1>5. n = (B * q) * c + (q * d + r)
  <2>1. n = q * (B * c + d) + r
    BY <1>1, <1>2
  <2>2. q * (B * c + d) = (B * q) * c + q * d
    OBVIOUS
  <2> QED
    BY <1>3, <2>1, <2>2
<1>6. PICK p \in Nat \ {0} : p = B * q
  BY <1>3
<1>7. PICK w \in 0..(p - 1) : w = q * d + r
  BY <1>3, <1>4, <1>6
<1>8. n % p = w
  <2>1. n = p * c + w
    BY <1>5, <1>6, <1>7
  <2> QED
    BY <2>1, DivModUnique
<1>9. q * d + r = r + (d * q)
  OBVIOUS
<1>10. (n \div q) % B = d /\ n % q = r
  BY <1>1, <1>2
<1>11. n % (B * q) = r + (d * q)
  BY <1>6, <1>7, <1>8, <1>9, Zenon
<1> QED
  BY <1>10, <1>11, Zenon

(* The length that the first bytes of the ring say is the one they encode. *)
LEMMA LengthDecoded ==
    ASSUME StreamAssumption, NEW b, NEW n \in Nat, n < Place[PrefixLen],
           \A i \in 1..PrefixLen : Cell(b, i) = Prefix(n)[i]
    PROVE  LengthAtTail(b) = n
<1>1. PrefixLen \in Nat \ {0} /\ Base \in Nat \ {0}
  BY DEF StreamAssumption
<1> DEFINE upTo[i \in 0..PrefixLen] == IF i = 0 THEN 0 ELSE upTo[i - 1] + Cell(b, i) * Place[i - 1]
<1>2. LengthAtTail(b) = upTo[PrefixLen]
  BY DEF LengthAtTail
<1>3. \A i \in 1..PrefixLen : Cell(b, i) = (n \div Place[i - 1]) % Base
  BY DEF Prefix
<1>4. \A i \in 1..PrefixLen :
         /\ Place[i - 1] \in Nat \ {0} /\ Place[i] \in Nat \ {0} /\ Place[i] = Base * Place[i - 1]
         /\ n % Place[i] = (n % Place[i - 1]) + (((n \div Place[i - 1]) % Base) * Place[i - 1])
  <2> TAKE i \in 1..PrefixLen
  <2>1. Place[i - 1] \in Nat \ {0} /\ Place[i] \in Nat \ {0} /\ Place[i] = Base * Place[i - 1]
    <3>1. i \in 0..PrefixLen /\ i - 1 \in 0..PrefixLen
      BY <1>1
    <3> QED
      BY <3>1, PlaceIs
  <2> QED
    <3>1. PICK p \in Nat \ {0} : p = Place[i - 1]
      BY <2>1
    <3>2. PICK B \in Nat \ {0} : B = Base
      BY <1>1
    <3>3. n % (B * p) = (n % p) + (((n \div p) % B) * p)
      BY ModProduct
    <3> QED
      BY <2>1, <3>1, <3>2, <3>3
<1> DEFINE f == [i \in 0..PrefixLen |-> n % Place[i]]
<1>5. ASSUME NEW i \in 0..PrefixLen PROVE f[i] = IF i = 0 THEN 0 ELSE f[i - 1] + Cell(b, i) * Place[i - 1]
  <2>1. CASE i = 0
    <3>1. n % 1 = 0
      OBVIOUS
    <3> QED
      BY <2>1, <3>1, PlaceIs
  <2>2. CASE i # 0
    <3>1. i \in 1..PrefixLen /\ i - 1 \in 0..PrefixLen
      BY <1>1, <2>2
    <3> QED
      BY <1>3, <1>4, <2>2, <3>1
  <2> QED
    BY <2>1, <2>2
<1>6. \E g : g = [i \in 0..PrefixLen |-> IF i = 0 THEN 0 ELSE g[i - 1] + Cell(b, i) * Place[i - 1]]
  <2>1. f = [i \in 0..PrefixLen |-> IF i = 0 THEN 0 ELSE f[i - 1] + Cell(b, i) * Place[i - 1]]
    BY <1>5
  <2> HIDE DEF f
  <2> QED
    BY <2>1
<1>7. upTo = [i \in 0..PrefixLen |-> IF i = 0 THEN 0 ELSE upTo[i - 1] + Cell(b, i) * Place[i - 1]]
  BY <1>6
<1> HIDE DEF upTo
<1>8. ASSUME NEW i \in 0..PrefixLen PROVE upTo[i] = f[i]
  <2> DEFINE Bad == {k \in 0..PrefixLen : upTo[k] # f[k]}
  <2> SUFFICES ASSUME Bad # {} PROVE FALSE
    OBVIOUS
  <2>1. PICK k \in Bad : \A j \in Bad : k <= j
    <3>1. Bad \in SUBSET Nat
      OBVIOUS
    <3> QED
      BY <3>1, LeastNat
  <2>2. k \in 0..PrefixLen /\ upTo[k] # f[k]
    BY <2>1
  <2>3. upTo[k] = IF k = 0 THEN 0 ELSE upTo[k - 1] + Cell(b, k) * Place[k - 1]
    BY <1>7, <2>2
  <2>4. f[k] = IF k = 0 THEN 0 ELSE f[k - 1] + Cell(b, k) * Place[k - 1]
    BY <1>5, <2>2
  <2> HIDE DEF f
  <2>5. k # 0
    BY <2>2, <2>3, <2>4
  <2>6. k - 1 \in 0..PrefixLen /\ ~(k <= k - 1)
    BY <1>1, <2>2, <2>5
  <2>7. upTo[k - 1] = f[k - 1]
    BY <2>1, <2>6
  <2> QED
    BY <2>2, <2>3, <2>4, <2>5, <2>7
<1>9. upTo[PrefixLen] = n % Place[PrefixLen]
  BY <1>1, <1>8
<1>10. n % Place[PrefixLen] = n
  <2>1. PICK p \in Nat \ {0} : p = Place[PrefixLen]
    BY <1>1, PlaceIs
  <2>3. n \in Nat /\ n < p
    BY <2>1
  <2>2. n % p = n
    BY <2>3, Remains
  <2> QED
    BY <2>1, <2>2
<1> QED
  BY <1>2, <1>9, <1>10

-----------------------------------------------------------------------------
(* The ring, apart from the buffer it belongs to.                          *)

Bytes == 0..(Base - 1)
RingOf(mem, tail, n, sz) == [i \in 1..n |-> mem[(tail + i - 1) % sz]]

LEMMA Wrapped ==
    ASSUME NEW n \in Nat \ {0}, NEW x \in 0..(2 * n - 1)
    PROVE  x % n = IF x < n THEN x ELSE x - n
OBVIOUS

(* What sb_write_bytes makes of the memory.                                *)
Written(mem, D, head, sz, src) ==
    [k \in D |-> IF \E i \in 1..Len(src) : (head + i - 1) % sz = k
                 THEN src[CHOOSE i \in 1..Len(src) : (head + i - 1) % sz = k]
                 ELSE mem[k]]

(* The indices at which l bytes are written behind n that are there.       *)
Consecutive(sz, tail, n, head, l) ==
    /\ \A i \in 1..(n + l) : (tail + i - 1) % sz \in 0..(sz - 1)
    /\ \A i \in 1..l : (head + i - 1) % sz = (tail + (n + i) - 1) % sz
    /\ \A i, j \in 1..(n + l) : (tail + i - 1) % sz = (tail + j - 1) % sz => i = j
    /\ (head + l) % sz = (tail + (n + l)) % sz /\ (head + l) % sz \in 0..(sz - 1)

LEMMA RingIndices ==
    ASSUME NEW sz \in Nat \ {0}, NEW tail \in 0..(sz - 1), NEW n \in 0..sz, NEW head \in 0..(sz - 1),
           head = (tail + n) % sz, NEW l \in 0..(sz - n)
    PROVE  Consecutive(sz, tail, n, head, l)
<1>1. ASSUME NEW x \in 0..(2 * sz - 1) PROVE x % sz = IF x < sz THEN x ELSE x - sz
  BY Wrapped
<1>2. head = IF tail + n < sz THEN tail + n ELSE tail + n - sz
  <2>1. tail + n \in 0..(2 * sz - 1)
    OBVIOUS
  <2> QED
    BY <1>1, <2>1
<1>3. ASSUME NEW i \in 1..l
      PROVE  (head + i - 1) % sz = IF head + i - 1 < sz THEN head + i - 1 ELSE head + i - 1 - sz
  <2>1. head + i - 1 \in 0..(2 * sz - 1)
    OBVIOUS
  <2> QED
    BY <1>1, <2>1
<1>4. ASSUME NEW i \in 1..(n + l)
      PROVE  (tail + i - 1) % sz = IF tail + i - 1 < sz THEN tail + i - 1 ELSE tail + i - 1 - sz
  <2>1. tail + i - 1 \in 0..(2 * sz - 1)
    OBVIOUS
  <2> QED
    BY <1>1, <2>1
<1>5. (head + l) % sz = IF head + l < sz THEN head + l ELSE head + l - sz
  <2>1. head + l \in 0..(2 * sz - 1)
    OBVIOUS
  <2> QED
    BY <1>1, <2>1
<1>6. (tail + (n + l)) % sz = IF tail + (n + l) < sz THEN tail + (n + l) ELSE tail + (n + l) - sz
  <2>1. tail + (n + l) \in 0..(2 * sz - 1)
    OBVIOUS
  <2> QED
    BY <1>1, <2>1
<1>7. ASSUME NEW i \in 1..(n + l) PROVE (tail + i - 1) % sz \in 0..(sz - 1)
  BY <1>4
<1>8. ASSUME NEW i \in 1..l PROVE (head + i - 1) % sz = (tail + (n + i) - 1) % sz
  <2>1. n + i \in 1..(n + l)
    OBVIOUS
  <2>2. (tail + (n + i) - 1) % sz =
           IF tail + (n + i) - 1 < sz THEN tail + (n + i) - 1 ELSE tail + (n + i) - 1 - sz
    BY <1>4, <2>1
  <2> QED
    BY <1>2, <1>3, <2>2
<1>9. ASSUME NEW i \in 1..(n + l), NEW j \in 1..(n + l), (tail + i - 1) % sz = (tail + j - 1) % sz
      PROVE  i = j
  BY <1>4, <1>9
<1>10. (head + l) % sz = (tail + (n + l)) % sz /\ (head + l) % sz \in 0..(sz - 1)
  BY <1>2, <1>5, <1>6
<1> QED
  BY <1>7, <1>8, <1>9, <1>10, Zenon DEF Consecutive

(* What is written at the head is read behind what was there.              *)
LongerRing(mem, D, X, head, sz, src, tail, n) ==
    /\ Written(mem, D, head, sz, src) \in [D -> X]
    /\ RingOf(Written(mem, D, head, sz, src), tail, n + Len(src), sz) = RingOf(mem, tail, n, sz) \o src

LEMMA RingWritten ==
    ASSUME NEW sz \in Nat \ {0}, NEW D, 0..(sz - 1) \subseteq D, NEW X, NEW mem \in [D -> X],
           NEW tail \in 0..(sz - 1), NEW n \in 0..sz, NEW head \in 0..(sz - 1), head = (tail + n) % sz,
           NEW src \in Seq(X), n + Len(src) <= sz
    PROVE  LongerRing(mem, D, X, head, sz, src, tail, n)
<1> DEFINE at(i) == (head + i - 1) % sz
           cell(i) == (tail + i - 1) % sz
           new == Written(mem, D, head, sz, src)
<1>1. PICK l \in 0..(sz - n) : l = Len(src)
  OBVIOUS
<1>2. /\ \A i \in 1..(n + l) : cell(i) \in D
      /\ \A i \in 1..l : at(i) = cell(n + i)
      /\ \A i, j \in 1..(n + l) : cell(i) = cell(j) => i = j
  <2>1. Consecutive(sz, tail, n, head, l)
    BY RingIndices
  <2> QED
    BY <2>1, Zenon DEF Consecutive
<1>3. ASSUME NEW k \in D
      PROVE  new[k] = IF \E i \in 1..l : at(i) = k THEN src[CHOOSE i \in 1..l : at(i) = k] ELSE mem[k]
  BY <1>1 DEF Written
<1>4. new = [k \in D |-> new[k]]
  BY DEF Written
<1> HIDE DEF at, cell, new
<1>5. ASSUME NEW i \in 1..l
      PROVE  n + i \in 1..(n + l) /\ at(i) \in D /\ \A j \in 1..l : at(j) = at(i) => j = i
  <2>1. \A j \in 1..l : n + j \in 1..(n + l)
    OBVIOUS
  <2>2. ASSUME NEW j \in 1..l, at(j) = at(i) PROVE j = i
    <3>1. n + j = n + i
      BY <1>2, <2>1, <2>2
    <3> QED
      BY <3>1
  <2> QED
    BY <1>2, <2>1, <2>2
<1>6. ASSUME NEW i \in 1..l PROVE new[at(i)] = src[i]
  <2>1. (CHOOSE j \in 1..l : at(j) = at(i)) = i
    BY <1>5
  <2> QED
    BY <1>3, <1>5, <2>1
<1>7. ASSUME NEW i \in 1..n PROVE i \in 1..(n + l) /\ new[cell(i)] = mem[cell(i)]
  <2>1. i \in 1..(n + l) /\ \A j \in 1..l : n + j \in 1..(n + l) /\ n + j # i
    OBVIOUS
  <2>2. \A j \in 1..l : at(j) # cell(i)
    BY <1>2, <2>1
  <2> QED
    BY <1>2, <1>3, <2>1, <2>2
<1>8. \A i \in 1..l : src[i] \in X
  BY <1>1
<1>9. new \in [D -> X]
  <2>1. ASSUME NEW k \in D PROVE new[k] \in X
    <3>1. CASE \E i \in 1..l : at(i) = k
      <4>1. PICK i \in 1..l : at(i) = k
        BY <3>1
      <4> QED
        BY <1>6, <1>8, <4>1
    <3>2. CASE ~ \E i \in 1..l : at(i) = k
      BY <1>3, <3>2
    <3> QED
      BY <3>1, <3>2
  <2> QED
    BY <1>4, <2>1
<1>10. /\ RingOf(new, tail, n + l, sz) = [i \in 1..(n + l) |-> new[cell(i)]]
       /\ RingOf(mem, tail, n, sz) = [i \in 1..n |-> mem[cell(i)]]
  BY DEF RingOf, cell
<1>11. [i \in 1..(n + l) |-> new[cell(i)]] = [i \in 1..n |-> mem[cell(i)]] \o src
  <2> DEFINE r == [i \in 1..n |-> mem[cell(i)]]
             w == [i \in 1..(n + l) |-> new[cell(i)]]
  <2>1. r \in Seq(X) /\ Len(r) = n /\ \A i \in 1..n : r[i] = new[cell(i)]
    BY <1>2, <1>7
  <2>2. /\ w \in Seq(X) /\ Len(w) = n + l /\ \A i \in 1..n : w[i] = new[cell(i)]
        /\ \A i \in 1..l : w[n + i] = src[i]
    <3>1. \A i \in 1..(n + l) : new[cell(i)] \in X
      BY <1>2, <1>9
    <3>2. \A i \in 1..l : w[n + i] = src[i]
      BY <1>2, <1>5, <1>6
    <3> QED
      BY <1>7, <3>1, <3>2
  <2> HIDE DEF r, w
  <2>3. r \o src \in Seq(X) /\ Len(r \o src) = n + l
    BY <1>1, <2>1, ConcatProperties
  <2>4. ASSUME NEW i \in 1..(n + l) PROVE w[i] = (r \o src)[i]
    <3>1. CASE i \in 1..n
      <4>1. (r \o src)[i] = r[i] /\ r[i] = new[cell(i)]
        BY <2>1, <3>1, ConcatProperties
      <4>2. w[i] = new[cell(i)]
        BY <2>2, <3>1, Zenon
      <4> QED
        BY <4>1, <4>2, Zenon
    <3>2. CASE i \notin 1..n
      <4>1. PICK j \in 1..l : i = n + j
        <5>1. i - n \in 1..l /\ i = n + (i - n)
          BY <3>2
        <5> QED
          BY <5>1
      <4>2. (r \o src)[n + j] = src[j]
        <5>3. n \in Nat /\ l \in Nat /\ Len(r) = n /\ Len(src) = l
          BY <1>1, <2>1
        <5>1. ~(n + j <= n) /\ n + j - n = j /\ n + j \in 1..(Len(r) + Len(src))
          BY <5>3
        <5>2. \A k \in 1..(Len(r) + Len(src)) :
                 (r \o src)[k] = IF k <= Len(r) THEN r[k] ELSE src[k - Len(r)]
          BY <2>1, ConcatProperties
        <5> QED
          BY <5>1, <5>2, <5>3
      <4> QED
        BY <2>2, <4>1, <4>2
    <3> QED
      BY <3>1, <3>2
  <2>5. w = r \o src
    BY <2>2, <2>3, <2>4, SeqEqual
  <2> QED
    BY <2>5 DEF r, w
<1> QED
  BY <1>1, <1>9, <1>10, <1>11, Zenon DEF new, LongerRing

(* What is taken at the tail leaves the rest as it was.                    *)
RestOfRing(mem, tail, n, sz, k) ==
    /\ RingOf(mem, (tail + k) % sz, n - k, sz) = [i \in 1..(n - k) |-> RingOf(mem, tail, n, sz)[k + i]]
    /\ (tail + k) % sz \in 0..(sz - 1)
    /\ (((tail + k) % sz) + (n - k)) % sz = (tail + n) % sz

LEMMA RingTaken ==
    ASSUME NEW sz \in Nat \ {0}, NEW mem, NEW tail \in 0..(sz - 1), NEW n \in 0..sz, NEW k \in 0..n
    PROVE  RestOfRing(mem, tail, n, sz, k)
<1>1. ASSUME NEW x \in 0..(2 * sz - 1) PROVE x % sz = IF x < sz THEN x ELSE x - sz
  BY Wrapped
<1>2. PICK new \in 0..(sz - 1) : /\ new = (tail + k) % sz
                                 /\ new = IF tail + k < sz THEN tail + k ELSE tail + k - sz
  <2>1. tail + k \in 0..(2 * sz - 1)
    OBVIOUS
  <2>2. (tail + k) % sz = IF tail + k < sz THEN tail + k ELSE tail + k - sz
    BY <1>1, <2>1
  <2> QED
    BY <2>2
<1>3. ASSUME NEW i \in 1..(n - k) PROVE (new + i - 1) % sz = (tail + (k + i) - 1) % sz
  <2>1. new + i - 1 \in 0..(2 * sz - 1) /\ tail + (k + i) - 1 \in 0..(2 * sz - 1)
    OBVIOUS
  <2>2. (new + i - 1) % sz = IF new + i - 1 < sz THEN new + i - 1 ELSE new + i - 1 - sz
    BY <1>1, <2>1
  <2>3. (tail + (k + i) - 1) % sz =
           IF tail + (k + i) - 1 < sz THEN tail + (k + i) - 1 ELSE tail + (k + i) - 1 - sz
    BY <1>1, <2>1
  <2> QED
    BY <1>2, <2>2, <2>3
<1>4. (new + (n - k)) % sz = (tail + n) % sz
  <2>1. new + (n - k) \in 0..(2 * sz - 1) /\ tail + n \in 0..(2 * sz - 1)
    OBVIOUS
  <2>2. (new + (n - k)) % sz = IF new + (n - k) < sz THEN new + (n - k) ELSE new + (n - k) - sz
    BY <1>1, <2>1
  <2>3. (tail + n) % sz = IF tail + n < sz THEN tail + n ELSE tail + n - sz
    BY <1>1, <2>1
  <2> QED
    BY <1>2, <2>2, <2>3
<1>5. RingOf(mem, new, n - k, sz) = [i \in 1..(n - k) |-> RingOf(mem, tail, n, sz)[k + i]]
  <2>1. ASSUME NEW i \in 1..(n - k) PROVE mem[(new + i - 1) % sz] = RingOf(mem, tail, n, sz)[k + i]
    <3>1. k + i \in 1..n
      OBVIOUS
    <3>2. RingOf(mem, tail, n, sz)[k + i] = mem[(tail + (k + i) - 1) % sz]
      BY <3>1 DEF RingOf
    <3> QED
      BY <1>3, <3>2
  <2> QED
    BY <2>1 DEF RingOf
<1>6. (tail + k) % sz \in 0..(sz - 1)
  BY <1>2
<1> QED
  BY <1>2, <1>4, <1>5, <1>6, Zenon DEF RestOfRing

-----------------------------------------------------------------------------
(* What a ring holds of the data sent and not received.                    *)

Framed(s) == [i \in 1..Len(s) |-> Frame(s[i])]
Holds(b, ring, s) ==
    IF b \in Streams
    THEN Len(s) = Len(ring) /\ \A i \in 1..Len(s) : s[i] = <<ring[i]>>
    ELSE /\ \A i \in 1..Len(s) : Len(s[i]) < Place[PrefixLen]
         /\ ring = FlattenSeq(Framed(s))

LEMMA AppendAt ==
    ASSUME NEW X, NEW s \in Seq(X), NEW x \in X
    PROVE  /\ Append(s, x) \in Seq(X) /\ Len(s) \in Nat /\ Len(Append(s, x)) = Len(s) + 1
           /\ \A i \in 1..Len(s) : Append(s, x)[i] = s[i]
           /\ Append(s, x)[Len(s) + 1] = x
           /\ \A i \in 1..(Len(s) + 1) : i # Len(s) + 1 => i \in 1..Len(s)
OBVIOUS

LEMMA FrameIs ==
    ASSUME StreamAssumption, NEW m \in Seq(Bytes)
    PROVE  /\ Frame(m) \in Seq(Bytes) /\ Len(Frame(m)) = PrefixLen + Len(m)
           /\ \A i \in 1..PrefixLen : Frame(m)[i] = Prefix(Len(m))[i]
<1>1. PrefixLen \in Nat \ {0} /\ Base \in Nat \ {0}
  BY DEF StreamAssumption
<1> DEFINE p == Prefix(Len(m))
<1>2. ASSUME NEW i \in 1..PrefixLen PROVE (Len(m) \div Place[i - 1]) % Base \in Bytes
  <2>1. i - 1 \in 0..PrefixLen
    BY <1>1
  <2>2. PICK q \in Nat \ {0} : q = Place[i - 1]
    BY <2>1, PlaceIs
  <2>3. PICK n \in Nat : n = Len(m) \div q
    <3>1. PICK l \in Nat : l = Len(m)
      OBVIOUS
    <3> QED
      BY <3>1, DivMod
  <2>4. PICK B \in Nat \ {0} : B = Base
    BY <1>1
  <2>5. n % B \in 0..(B - 1)
    BY DivMod
  <2> QED
    BY <2>2, <2>3, <2>4, <2>5 DEF Bytes
<1>3. p \in Seq(Bytes) /\ Len(p) = PrefixLen
  BY <1>1, <1>2 DEF Prefix
<1>4. Frame(m) = p \o m
  BY DEF Frame
<1> HIDE DEF p
<1>5. /\ p \o m \in Seq(Bytes) /\ Len(p \o m) = Len(p) + Len(m)
      /\ \A i \in 1..(Len(p) + Len(m)) : (p \o m)[i] = IF i <= Len(p) THEN p[i] ELSE m[i - Len(p)]
  BY <1>3, ConcatProperties
<1>6. \A i \in 1..PrefixLen : i \in 1..(Len(p) + Len(m)) /\ i <= Len(p)
  BY <1>1, <1>3
<1>7. \A i \in 1..PrefixLen : Frame(m)[i] = p[i]
  BY <1>4, <1>5, <1>6
<1> QED
  BY <1>3, <1>4, <1>5, <1>7 DEF p

LEMMA FramedIs ==
    ASSUME StreamAssumption, NEW s \in Seq(Seq(Bytes))
    PROVE  /\ Framed(s) \in Seq(Seq(Bytes)) /\ Len(Framed(s)) = Len(s)
           /\ \A i \in 1..Len(s) : Framed(s)[i] = Frame(s[i])
<1>1. ASSUME NEW i \in 1..Len(s) PROVE Frame(s[i]) \in Seq(Bytes)
  <2>1. PICK m \in Seq(Bytes) : m = s[i]
    OBVIOUS
  <2> QED
    BY <2>1, FrameIs
<1> QED
  BY <1>1 DEF Framed

LEMMA FramedAppend ==
    ASSUME StreamAssumption, NEW s \in Seq(Seq(Bytes)), NEW m \in Seq(Bytes)
    PROVE  Framed(Append(s, m)) = Append(Framed(s), Frame(m))
<1>1. Append(s, m) \in Seq(Seq(Bytes)) /\ Len(Append(s, m)) = Len(s) + 1 /\ Len(s) \in Nat
  OBVIOUS
<1>2. Frame(m) \in Seq(Bytes)
  BY FrameIs
<1>3. PICK f \in Seq(Seq(Bytes)) : f = Framed(s) /\ Len(f) = Len(s) /\ \A i \in 1..Len(s) : f[i] = Frame(s[i])
  BY FramedIs
<1>4. PICK g \in Seq(Seq(Bytes)) : /\ g = Framed(Append(s, m)) /\ Len(g) = Len(s) + 1
                                   /\ \A i \in 1..(Len(s) + 1) : g[i] = Frame(Append(s, m)[i])
  BY <1>1, FramedIs
<1>5. /\ \A i \in 1..Len(s) : Append(s, m)[i] = s[i]
      /\ Append(s, m)[Len(s) + 1] = m
      /\ \A i \in 1..(Len(s) + 1) : i # Len(s) + 1 => i \in 1..Len(s)
  BY AppendAt
<1>6. PICK x \in Seq(Bytes) : x = Frame(m)
  BY <1>2
<1>7. /\ Append(f, x) \in Seq(Seq(Bytes)) /\ Len(Append(f, x)) = Len(f) + 1
      /\ \A i \in 1..Len(f) : Append(f, x)[i] = f[i]
      /\ Append(f, x)[Len(f) + 1] = x
  BY AppendAt
<1>8. PICK h \in Seq(Seq(Bytes)) : h = Append(f, x)
  BY <1>7
<1>9. ASSUME NEW i \in 1..Len(g) PROVE g[i] = h[i]
  <2>1. i \in 1..(Len(s) + 1)
    BY <1>4
  <2>2. CASE i = Len(s) + 1
    BY <1>3, <1>4, <1>5, <1>6, <1>7, <1>8, <2>1, <2>2, Zenon
  <2>3. CASE i # Len(s) + 1
    <3>1. i \in 1..Len(s) /\ i \in 1..Len(f)
      BY <1>3, <1>5, <2>1, <2>3, Zenon
    <3> QED
      BY <1>3, <1>4, <1>5, <1>7, <1>8, <2>1, <3>1, Zenon
  <2> QED
    BY <2>2, <2>3
<1>10. Len(g) = Len(h)
  BY <1>3, <1>4, <1>7, <1>8
<1>11. g = h
  BY <1>9, <1>10, SeqEqual
<1> QED
  BY <1>3, <1>4, <1>6, <1>8, <1>11, Zenon

LEMMA HoldsSent ==
    ASSUME StreamAssumption, NEW b, b \notin Streams, NEW ring \in Seq(Bytes),
           NEW s \in Seq(Seq(Bytes)), Holds(b, ring, s),
           NEW m \in Seq(Bytes), Len(m) < Place[PrefixLen]
    PROVE  Holds(b, ring \o Frame(m), s \o <<m>>)
<1>1. s \o <<m>> = Append(s, m)
  BY AppendIsConcat
<1>2. Framed(s) \in Seq(Seq(Bytes)) /\ Frame(m) \in Seq(Bytes)
  BY FramedIs, FrameIs
<1>3. FlattenSeq(Append(Framed(s), Frame(m))) =
         IF Framed(s) = << >> THEN Frame(m) ELSE FlattenSeq(Framed(s)) \o Frame(m)
  BY <1>2, FlatAppend
<1>4. ring = FlattenSeq(Framed(s))
  BY DEF Holds
<1>5. ring \o Frame(m) = FlattenSeq(Framed(Append(s, m)))
  <2>1. CASE Framed(s) = << >>
    <3>1. ring = << >>
      BY <1>4, <2>1, FlatEmpty, Zenon
    <3>2. << >> \o Frame(m) = Frame(m)
      BY <1>2
    <3> QED
      BY <1>3, <2>1, <3>1, <3>2, FramedAppend, Zenon
  <2>2. CASE Framed(s) # << >>
    BY <1>3, <1>4, <2>2, FramedAppend, Zenon
  <2> QED
    BY <2>1, <2>2
<1>6. \A i \in 1..Len(Append(s, m)) : Len(Append(s, m)[i]) < Place[PrefixLen]
  <2>1. \A i \in 1..Len(s) : Len(s[i]) < Place[PrefixLen]
    BY DEF Holds
  <2>2. /\ Len(Append(s, m)) = Len(s) + 1
        /\ \A i \in 1..Len(s) : Append(s, m)[i] = s[i]
        /\ Append(s, m)[Len(s) + 1] = m
        /\ \A i \in 1..(Len(s) + 1) : i # Len(s) + 1 => i \in 1..Len(s)
    BY AppendAt
  <2> QED
    BY <2>1, <2>2, Zenon
<1> QED
  BY <1>1, <1>5, <1>6 DEF Holds

LEMMA HoldsPut ==
    ASSUME NEW b \in Streams, NEW ring \in Seq(Bytes), NEW s \in Seq(Seq(Bytes)), Holds(b, ring, s),
           NEW src \in Seq(Bytes)
    PROVE  Holds(b, ring \o src, s \o AsFrames(src))
<1>1. Len(s) = Len(ring) /\ \A i \in 1..Len(s) : s[i] = <<ring[i]>>
  BY DEF Holds
<1>2. PICK f \in Seq(Seq(Bytes)) :
         f = AsFrames(src) /\ Len(f) = Len(src) /\ \A i \in 1..Len(src) : f[i] = <<src[i]>>
  <2>1. \A i \in 1..Len(src) : <<src[i]>> \in Seq(Bytes)
    OBVIOUS
  <2>2. [i \in 1..Len(src) |-> <<src[i]>>] \in Seq(Seq(Bytes))
    BY <2>1
  <2>3. PICK f \in Seq(Seq(Bytes)) : f = [i \in 1..Len(src) |-> <<src[i]>>]
    BY <2>2
  <2>4. Len(f) = Len(src) /\ \A i \in 1..Len(src) : f[i] = <<src[i]>>
    BY <2>3
  <2> QED
    BY <2>3, <2>4 DEF AsFrames
<1>3. /\ Len(s \o f) = Len(s) + Len(f)
      /\ \A i \in 1..(Len(s) + Len(f)) : (s \o f)[i] = IF i <= Len(s) THEN s[i] ELSE f[i - Len(s)]
  BY ConcatProperties
<1>4. /\ Len(ring \o src) = Len(ring) + Len(src)
      /\ \A i \in 1..(Len(ring) + Len(src)) :
            (ring \o src)[i] = IF i <= Len(ring) THEN ring[i] ELSE src[i - Len(ring)]
  BY ConcatProperties
<1>5. Len(s \o f) = Len(ring \o src)
  BY <1>1, <1>2, <1>3, <1>4
<1>6. ASSUME NEW i \in 1..Len(s \o f) PROVE (s \o f)[i] = <<(ring \o src)[i]>>
  <2>1. PICK k \in Nat, l \in Nat : k = Len(s) /\ l = Len(f) /\ k = Len(ring) /\ l = Len(src)
    BY <1>1, <1>2
  <2>2. i \in 1..(k + l)
    BY <1>3, <2>1
  <2>3. CASE i <= k
    <3>1. i \in 1..k
      BY <2>2, <2>3
    <3> QED
      BY <1>1, <1>3, <1>4, <2>1, <2>2, <3>1
  <2>4. CASE ~(i <= k)
    <3>1. i - k \in 1..l
      BY <2>2, <2>4
    <3> QED
      <4>1. (s \o f)[i] = f[i - k] /\ (ring \o src)[i] = src[i - k]
        BY <1>3, <1>4, <2>1, <2>2, <2>4
      <4> QED
        BY <1>2, <2>1, <3>1, <4>1
  <2> QED
    BY <2>3, <2>4
<1> QED
  BY <1>2, <1>5, <1>6 DEF Holds

Without(ring, k) == [i \in 1..(Len(ring) - k) |-> ring[k + i]]

LEMMA HoldsTaken ==
    ASSUME NEW b \in Streams, NEW ring \in Seq(Bytes), NEW s \in Seq(Seq(Bytes)), Holds(b, ring, s),
           NEW k \in 0..Len(ring)
    PROVE  Holds(b, Without(ring, k), SubSeq(s, k + 1, Len(s)))
<1>1. Len(s) = Len(ring) /\ \A i \in 1..Len(s) : s[i] = <<ring[i]>>
  BY DEF Holds
<1>2. PICK n \in Nat : n = Len(ring) /\ n = Len(s)
  BY <1>1
<1>3. k \in 0..n /\ k + 1 \in Int /\ n \in Int
  BY <1>2
<1> DEFINE r == Without(ring, k)
           t == SubSeq(s, k + 1, n)
<1>4. Len(r) = n - k /\ \A i \in 1..(n - k) : r[i] = ring[k + i]
  BY <1>2, <1>3 DEF Without
<1>5. Len(t) = n - k /\ \A i \in 1..(n - k) : t[i] = s[k + i]
  BY <1>2, <1>3
<1>6. ASSUME NEW i \in 1..(n - k) PROVE t[i] = <<r[i]>>
  <2>1. k + i \in 1..Len(s)
    BY <1>2, <1>3
  <2> QED
    BY <1>1, <1>4, <1>5, <2>1
<1> HIDE DEF r, t
<1>7. Holds(b, r, t)
  BY <1>4, <1>5, <1>6 DEF Holds
<1> QED
  BY <1>2, <1>7 DEF r, t

BeginsWith(b, ring, s) ==
    /\ s # << >> /\ Len(s[1]) \in Nat /\ Len(s[1]) < Place[PrefixLen]
    /\ PrefixLen + Len(s[1]) <= Len(ring)
    /\ \A i \in 1..PrefixLen : ring[i] = Prefix(Len(s[1]))[i]
    /\ Holds(b, Without(ring, PrefixLen + Len(s[1])), SubSeq(s, 2, Len(s)))

(* A ring of messages that is not empty begins with a whole message.       *)
LEMMA Previous == ASSUME NEW l \in Nat, NEW i \in 1..(l + 1), i # 1 PROVE i - 1 \in 1..l
OBVIOUS

LEMMA FirstMessage ==
    ASSUME StreamAssumption, NEW b, b \notin Streams, NEW ring \in Seq(Bytes),
           NEW s \in Seq(Seq(Bytes)), Holds(b, ring, s), ring # << >>
    PROVE  BeginsWith(b, ring, s)
<1> USE DEF BeginsWith
<1>1. ring = FlattenSeq(Framed(s)) /\ \A i \in 1..Len(s) : Len(s[i]) < Place[PrefixLen]
  BY DEF Holds
<1>2. s # << >>
  <2>1. s = << >> => Framed(s) = << >>
    BY DEF Framed
  <2> QED
    BY <1>1, <2>1, FlatEmpty, Zenon
<1>3. PICK m \in Seq(Bytes) : m = s[1] /\ Len(m) \in Nat /\ Len(m) < Place[PrefixLen]
  <2>1. 1 \in 1..Len(s) /\ s[1] \in Seq(Bytes)
    BY <1>2
  <2> QED
    BY <1>1, <2>1
<1>4. PICK t \in Seq(Seq(Bytes)) :
         t = SubSeq(s, 2, Len(s)) /\ Len(t) = Len(s) - 1 /\ \A i \in 1..Len(t) : t[i] = s[i + 1]
  <2>1. PICK n \in Nat \ {0} : n = Len(s)
    <3>1. Len(s) \in Nat \ {0}
      BY <1>2
    <3> QED
      BY <3>1
  <2>2. n \in Int /\ 2 \in Int /\ \A i \in 2..n : s[i] \in Seq(Bytes)
    BY <2>1
  <2>3. /\ SubSeq(s, 2, n) \in Seq(Seq(Bytes))
        /\ Len(SubSeq(s, 2, n)) = IF 2 <= n THEN n - 2 + 1 ELSE 0
        /\ \A i \in 1..(n - 2 + 1) : SubSeq(s, 2, n)[i] = s[2 + i - 1]
    BY <2>2, SubSeqProperties
  <2>4. PICK t \in Seq(Seq(Bytes)) : t = SubSeq(s, 2, n)
    BY <2>3
  <2>5. Len(t) = n - 1
    BY <2>3, <2>4
  <2>6. ASSUME NEW i \in 1..Len(t) PROVE t[i] = s[i + 1]
    <3>1. i \in 1..(n - 2 + 1) /\ 2 + i - 1 = i + 1
      BY <2>5
    <3> QED
      BY <2>3, <2>4, <3>1
  <2> QED
    BY <2>1, <2>4, <2>5, <2>6
<1>5. PICK f \in Seq(Seq(Bytes)) : f = Framed(t)
  BY FramedIs
<1>6. PICK x \in Seq(Bytes) : /\ x = Frame(m) /\ Len(x) = PrefixLen + Len(m)
                              /\ \A i \in 1..PrefixLen : x[i] = Prefix(Len(m))[i]
  BY FrameIs
<1>7. Framed(s) = <<x>> \o f
  <2>1. <<x>> \o f \in Seq(Seq(Bytes)) /\ Len(<<x>> \o f) = Len(f) + 1
    OBVIOUS
  <2>2. \A i \in 1..(Len(f) + 1) : (<<x>> \o f)[i] = IF i = 1 THEN x ELSE f[i - 1]
    OBVIOUS
  <2>3. Len(f) = Len(t) /\ \A i \in 1..Len(t) : f[i] = Frame(t[i])
    BY <1>5, FramedIs
  <2>4. Framed(s) \in Seq(Seq(Bytes)) /\ Len(Framed(s)) = Len(s) /\ \A i \in 1..Len(s) : Framed(s)[i] = Frame(s[i])
    BY FramedIs
  <2>5. Len(s) = Len(t) + 1 /\ Len(t) \in Nat
    BY <1>4
  <2>6. ASSUME NEW i \in 1..Len(s) PROVE Framed(s)[i] = (<<x>> \o f)[i]
    <3>1. CASE i = 1
      BY <1>3, <1>6, <2>2, <2>3, <2>4, <2>5, <3>1
    <3>2. CASE i # 1
      <4>3. PICK l \in Nat : l = Len(t) /\ l = Len(f)
        BY <2>3, <2>5
      <4>5. i \in 1..(l + 1)
        BY <2>5, <4>3
      <4>4. i - 1 \in 1..l
        BY <3>2, <4>5, Previous, Zenon
      <4>1. i - 1 \in 1..Len(t) /\ i \in 1..(Len(f) + 1)
        BY <4>3, <4>4, <4>5, Zenon
      <4>2. s[i] = t[i - 1]
        BY <1>4, <4>1
      <4> QED
        BY <2>2, <2>3, <2>4, <3>2, <4>1, <4>2
    <3> QED
      BY <3>1, <3>2
  <2>7. PICK g \in Seq(Seq(Bytes)), h \in Seq(Seq(Bytes)) :
           /\ g = Framed(s) /\ h = <<x>> \o f /\ Len(g) = Len(h) /\ \A i \in 1..Len(g) : g[i] = h[i]
    <3>1. Len(Framed(s)) = Len(<<x>> \o f)
      BY <2>1, <2>3, <2>4, <2>5
    <3>2. \A i \in 1..Len(Framed(s)) : Framed(s)[i] = (<<x>> \o f)[i]
      BY <2>4, <2>6, Zenon
    <3> QED
      BY <2>1, <2>4, <3>1, <3>2, Zenon
  <2>8. g = h
    BY <2>7, SeqEqual
  <2> QED
    BY <2>7, <2>8
<1>8. PICK r \in Seq(Bytes) : r = FlattenSeq(f)
  BY FlatType
<1>9. ring = x \o r
  <2>1. FlattenSeq(<<x>> \o f) = x \o FlattenSeq(f)
    BY FlatCons
  <2> QED
    BY <1>1, <1>7, <1>8, <2>1, Zenon
<1>10. PICK k \in Nat : k = PrefixLen + Len(m) /\ k = Len(x)
  BY <1>6
<1>11. /\ Len(ring) = k + Len(r) /\ Len(r) \in Nat
       /\ \A i \in 1..(k + Len(r)) : ring[i] = IF i <= k THEN x[i] ELSE r[i - k]
  <2>1. /\ Len(x \o r) = Len(x) + Len(r)
        /\ \A i \in 1..(Len(x) + Len(r)) : (x \o r)[i] = IF i <= Len(x) THEN x[i] ELSE r[i - Len(x)]
    BY ConcatProperties
  <2>2. Len(r) \in Nat
    OBVIOUS
  <2> QED
    BY <1>9, <1>10, <2>1, <2>2, Zenon
<1>12. PrefixLen \in Nat
  BY DEF StreamAssumption
<1>13. ASSUME NEW i \in 1..PrefixLen PROVE ring[i] = Prefix(Len(m))[i]
  <2>1. i <= k /\ i \in 1..(k + Len(r))
    <3>1. PICK a \in Nat, c \in Nat, d \in Nat : a = PrefixLen /\ c = Len(m) /\ d = Len(r)
      BY <1>3, <1>11, <1>12
    <3>2. k = a + c /\ i \in 1..a
      BY <1>10, <3>1
    <3>3. i <= k /\ i \in 1..(k + d)
      BY <3>2
    <3> QED
      BY <3>1, <3>3
  <2> QED
    BY <1>6, <1>11, <2>1
<1>14. Without(ring, k) = r
  <2>1. ASSUME NEW i \in 1..Len(r) PROVE ring[k + i] = r[i]
    <3>1. k + i \in 1..(k + Len(r)) /\ ~(k + i <= k) /\ (k + i) - k = i
      BY <1>11
    <3> QED
      BY <1>11, <3>1
  <2>2. Len(ring) - k = Len(r)
    BY <1>11
  <2>3. r = [i \in 1..Len(r) |-> r[i]]
    OBVIOUS
  <2>4. [i \in 1..Len(r) |-> ring[k + i]] = [i \in 1..Len(r) |-> r[i]]
    BY <2>1
  <2> QED
    BY <2>2, <2>3, <2>4, Zenon DEF Without
<1>15. Holds(b, r, t)
  <2>1. ASSUME NEW i \in 1..Len(t) PROVE Len(t[i]) < Place[PrefixLen]
    BY <1>1, <1>4
  <2> QED
    BY <1>5, <1>8, <2>1 DEF Holds
<1>16. k <= Len(ring)
  BY <1>11
<1> QED
  BY <1>2, <1>3, <1>4, <1>10, <1>13, <1>14, <1>15, <1>16

-----------------------------------------------------------------------------
(* One buffer: its bounds, its indices, and what its ring holds.           *)

Memory == [0..(MaxSize - 1) -> Bytes]

BufferOK(b, sz, trig, head, tail, n, mem, s) ==
    /\ sz \in 0..MaxSize /\ trig \in Nat /\ n \in 0..sz
    /\ sz = 0 => head = 0 /\ tail = 0 /\ s = << >>
    /\ sz > 0 => /\ trig > 0 /\ (b \in Messages => trig = 1)
                 /\ head \in 0..(sz - 1) /\ tail \in 0..(sz - 1) /\ head = (tail + n) % sz
    /\ Holds(b, RingOf(mem, tail, n, sz), s)

LEMMA SizesAre ==
    ASSUME StreamAssumption
    PROVE  MaxSize \in Nat \ {0} /\ \A n \in Sizes : n \in 1..MaxSize
BY DEF StreamAssumption

RingTyped(mem, tail, n, sz) ==
    RingOf(mem, tail, n, sz) \in Seq(Bytes) /\ Len(RingOf(mem, tail, n, sz)) = n
EveryRingTyped ==
    \A sz \in 1..MaxSize : \A mem \in Memory, tail \in 0..(sz - 1), n \in 0..sz :
        RingTyped(mem, tail, n, sz)

LEMMA RingType ==
    ASSUME MaxSize \in Nat
    PROVE  EveryRingTyped
<1> SUFFICES ASSUME NEW sz \in 1..MaxSize, NEW mem \in Memory,
                    NEW tail \in 0..(sz - 1), NEW n \in 0..sz
             PROVE  RingTyped(mem, tail, n, sz)
  BY Zenon DEF EveryRingTyped
<1>1. ASSUME NEW i \in 1..n PROVE mem[(tail + i - 1) % sz] \in Bytes
  <2>1. sz \in Nat \ {0} /\ tail + i - 1 \in 0..(2 * sz - 1)
    OBVIOUS
  <2>2. PICK x \in 0..(2 * sz - 1) : x = tail + i - 1
    BY <2>1
  <2>3. x % sz = IF x < sz THEN x ELSE x - sz
    BY <2>1, Wrapped
  <2>4. (tail + i - 1) % sz \in 0..(MaxSize - 1)
    BY <2>1, <2>2, <2>3
  <2> QED
    BY <2>4 DEF Memory
<1>2. n \in Nat
  OBVIOUS
<1> QED
  BY <1>1, <1>2 DEF RingTyped, RingOf

LEMMA BufferWritten ==
    ASSUME StreamAssumption, NEW b, NEW sz \in Nat \ {0}, NEW trig, NEW head, NEW tail, NEW n,
           NEW mem \in Memory, NEW s, BufferOK(b, sz, trig, head, tail, n, mem, s),
           NEW src \in Seq(Bytes), n + Len(src) <= sz, NEW w,
           Holds(b, RingOf(mem, tail, n, sz) \o src, w)
    PROVE  /\ Written(mem, 0..(MaxSize - 1), head, sz, src) \in Memory
           /\ BufferOK(b, sz, trig, (head + Len(src)) % sz, tail, n + Len(src),
                       Written(mem, 0..(MaxSize - 1), head, sz, src), w)
<1>1. /\ sz \in 1..MaxSize /\ n \in 0..sz /\ trig \in Nat
      /\ trig > 0 /\ (b \in Messages => trig = 1)
      /\ head \in 0..(sz - 1) /\ tail \in 0..(sz - 1) /\ head = (tail + n) % sz
  BY SizesAre DEF BufferOK
<1>2. PICK l \in 0..(sz - n) : l = Len(src)
  BY <1>1
<1>3. Consecutive(sz, tail, n, head, l)
  BY <1>1, RingIndices
<1>4. (head + l) % sz = (tail + (n + l)) % sz /\ (head + l) % sz \in 0..(sz - 1)
  BY <1>3, Zenon DEF Consecutive
<1>5. PICK D : D = 0..(MaxSize - 1)
  OBVIOUS
<1>6. mem \in [D -> Bytes] /\ 0..(sz - 1) \subseteq D
  <2>1. 0..(sz - 1) \subseteq 0..(MaxSize - 1)
    BY <1>1, SizesAre
  <2> QED
    BY <1>5, <2>1, Zenon DEF Memory
<1>7. PICK new : new = Written(mem, D, head, sz, src)
  OBVIOUS
<1>8. new \in [D -> Bytes] /\ RingOf(new, tail, n + l, sz) = RingOf(mem, tail, n, sz) \o src
  <2>1. n + Len(src) <= sz
    OBVIOUS
  <2>2. LongerRing(mem, D, Bytes, head, sz, src, tail, n)
    BY <1>1, <1>6, <2>1, RingWritten
  <2> QED
    BY <1>2, <1>7, <2>2, Zenon DEF LongerRing
<1>9. BufferOK(b, sz, trig, (head + l) % sz, tail, n + l, new, w)
  <2>1. n + l \in 0..sz
    <3>1. n \in 0..sz
      BY <1>1
    <3> QED
      BY <3>1
  <2>2. Holds(b, RingOf(new, tail, n + l, sz), w)
    BY <1>8, Zenon
  <2> QED
    BY <1>1, <1>4, <2>1, <2>2 DEF BufferOK
<1> QED
  BY <1>2, <1>5, <1>7, <1>8, <1>9, Zenon DEF Memory

LEMMA BufferTaken ==
    ASSUME StreamAssumption, NEW b, NEW sz \in Nat \ {0}, NEW trig, NEW head, NEW tail, NEW n,
           NEW mem \in Memory, NEW s, BufferOK(b, sz, trig, head, tail, n, mem, s),
           NEW k \in Nat, k <= n, NEW w, Holds(b, Without(RingOf(mem, tail, n, sz), k), w)
    PROVE  BufferOK(b, sz, trig, head, (tail + k) % sz, n - k, mem, w)
<1>1. /\ sz \in 1..MaxSize /\ n \in 0..sz /\ trig \in Nat
      /\ trig > 0 /\ (b \in Messages => trig = 1)
      /\ head \in 0..(sz - 1) /\ tail \in 0..(sz - 1) /\ head = (tail + n) % sz
  BY SizesAre DEF BufferOK
<1>2. k \in 0..n /\ n - k \in 0..sz
  <2>1. n \in 0..sz
    BY <1>1
  <2> QED
    BY <2>1
<1>3. /\ RingOf(mem, (tail + k) % sz, n - k, sz) =
            [i \in 1..(n - k) |-> RingOf(mem, tail, n, sz)[k + i]]
      /\ (tail + k) % sz \in 0..(sz - 1)
      /\ (((tail + k) % sz) + (n - k)) % sz = (tail + n) % sz
  <2>1. RestOfRing(mem, tail, n, sz, k)
    BY <1>1, <1>2, RingTaken
  <2> QED
    BY <2>1, Zenon DEF RestOfRing
<1>4. Len(RingOf(mem, tail, n, sz)) = n
  <2>1. MaxSize \in Nat
    BY SizesAre
  <2>2. EveryRingTyped
    BY <2>1, RingType, Zenon
  <2>3. RingTyped(mem, tail, n, sz)
    BY <1>1, <2>2, Zenon DEF EveryRingTyped
  <2> QED
    BY <2>3, Zenon DEF RingTyped
<1>5. Holds(b, RingOf(mem, (tail + k) % sz, n - k, sz), w)
  BY <1>3, <1>4, Zenon DEF Without
<1>6. PICK at : at = (tail + k) % sz
  OBVIOUS
<1>7. at \in 0..(sz - 1) /\ head = (at + (n - k)) % sz /\ Holds(b, RingOf(mem, at, n - k, sz), w)
  BY <1>1, <1>3, <1>5, <1>6, Zenon
<1>8. BufferOK(b, sz, trig, head, at, n - k, mem, w)
  BY <1>1, <1>2, <1>7 DEF BufferOK
<1> QED
  BY <1>6, <1>8

(* A buffer with nothing in it.                                            *)
LEMMA BufferEmpty ==
    ASSUME StreamAssumption, NEW b, NEW sz \in 0..MaxSize, NEW trig \in Nat,
           sz > 0 => trig > 0 /\ (b \in Messages => trig = 1), NEW mem
    PROVE  BufferOK(b, sz, trig, 0, 0, 0, mem, << >>)
<1>1. RingOf(mem, 0, 0, sz) = << >>
  BY DEF RingOf
<1>2. Holds(b, << >>, << >>)
  <2>1. Framed(<< >>) = << >>
    BY DEF Framed
  <2> QED
    BY <2>1, FlatEmpty DEF Holds
<1>3. sz > 0 => 0 = (0 + 0) % sz /\ 0 \in 0..(sz - 1)
  BY SizesAre
<1>4. 0 \in 0..sz
  BY SizesAre
<1> QED
  BY <1>1, <1>2, <1>3, <1>4 DEF BufferOK

-----------------------------------------------------------------------------
(* All buffers.                                                            *)

DataTypes ==
    /\ size \in [Buffers -> Nat] /\ trigger \in [Buffers -> Nat]
    /\ sbHead \in [Buffers -> Nat] /\ sbTail \in [Buffers -> Nat] /\ avail \in [Buffers -> Nat]
    /\ bytes \in [Buffers -> Memory]
    /\ sent \in [Buffers -> Seq(Seq(Bytes))]
OK(b) == BufferOK(b, size[b], trigger[b], sbHead[b], sbTail[b], avail[b], bytes[b], sent[b])
DataInv == DataTypes /\ \A b \in Buffers : OK(b)

(* A step that changes one buffer.                                         *)
LEMMA OneBuffer ==
    ASSUME DataInv, NEW b \in Buffers, NEW sz \in Nat, NEW trig \in Nat, NEW head \in Nat,
           NEW tail \in Nat, NEW n \in Nat, NEW mem \in Memory, NEW s \in Seq(Seq(Bytes)),
           size' = [size EXCEPT ![b] = sz], trigger' = [trigger EXCEPT ![b] = trig],
           sbHead' = [sbHead EXCEPT ![b] = head], sbTail' = [sbTail EXCEPT ![b] = tail],
           avail' = [avail EXCEPT ![b] = n], bytes' = [bytes EXCEPT ![b] = mem],
           sent' = [sent EXCEPT ![b] = s], BufferOK(b, sz, trig, head, tail, n, mem, s)
    PROVE  DataInv'
<1> USE DEF DataInv
<1>1. DataTypes'
  BY DEF DataTypes
<1>2. OK(b)'
  BY DEF DataTypes, OK
<1>3. ASSUME NEW x \in Buffers, x # b PROVE OK(x)'
  <2>1. /\ size'[x] = size[x] /\ trigger'[x] = trigger[x] /\ sbHead'[x] = sbHead[x]
        /\ sbTail'[x] = sbTail[x] /\ avail'[x] = avail[x] /\ bytes'[x] = bytes[x] /\ sent'[x] = sent[x]
    BY <1>3 DEF DataTypes
  <2>2. OK(x)
    OBVIOUS
  <2> QED
    BY <2>1, <2>2, Zenon DEF OK
<1> QED
  BY <1>1, <1>2, <1>3

-----------------------------------------------------------------------------
(* What the operations do to the data.                                     *)

Ring(b) == RingOf(bytes[b], sbTail[b], avail[b], size[b])

(* What a buffer's sleepers may rely on in a step that wakes the queues of *)
(* W: readers that it leaves asleep see no more data, or not enough, and   *)
(* writers no more space.                                                  *)
Calm(b, W) ==
    \/ size[b] = 0
    \/ ReadQ(b) \in W /\ WriteQ(b) \in W
    \/ /\ size[b] > 0 /\ size'[b] = size[b] /\ trigger'[b] = trigger[b]
       /\ ReadQ(b) \in W \/ avail'[b] <= avail[b] \/ (b \in Streams /\ avail'[b] < trigger[b])
       /\ WriteQ(b) \in W \/ b \in Resettable \/ avail'[b] >= avail[b]

LEMMA BufferFacts ==
    ASSUME StreamAssumption, DataInv, NEW b \in Buffers
    PROVE  /\ size[b] \in 0..MaxSize /\ size[b] \in Nat /\ trigger[b] \in Nat
           /\ avail[b] \in 0..size[b] /\ avail[b] \in Nat /\ sbHead[b] \in Nat /\ sbTail[b] \in Nat
           /\ bytes[b] \in Memory /\ sent[b] \in Seq(Seq(Bytes))
           /\ size[b] = 0 => avail[b] = 0 /\ sbHead[b] = 0 /\ sbTail[b] = 0 /\ sent[b] = << >>
           /\ size[b] > 0 => /\ trigger[b] > 0 /\ (b \in Messages => trigger[b] = 1)
                             /\ Ring(b) \in Seq(Bytes) /\ Len(Ring(b)) = avail[b]
                             /\ sbHead[b] \in 0..(size[b] - 1) /\ sbTail[b] \in 0..(size[b] - 1)
           /\ Holds(b, Ring(b), sent[b])
<1>1. DataTypes /\ OK(b)
  BY DEF DataInv
<1>2. MaxSize \in Nat
  BY SizesAre
<1>3. /\ size[b] \in 0..MaxSize /\ size[b] \in Nat /\ trigger[b] \in Nat
      /\ avail[b] \in 0..size[b] /\ avail[b] \in Nat /\ sbHead[b] \in Nat /\ sbTail[b] \in Nat
      /\ bytes[b] \in Memory /\ sent[b] \in Seq(Seq(Bytes))
      /\ size[b] = 0 => avail[b] = 0 /\ sbHead[b] = 0 /\ sbTail[b] = 0 /\ sent[b] = << >>
      /\ size[b] > 0 => /\ trigger[b] > 0 /\ (b \in Messages => trigger[b] = 1)
                        /\ sbHead[b] \in 0..(size[b] - 1) /\ sbTail[b] \in 0..(size[b] - 1)
  BY <1>1, <1>2 DEF DataTypes, OK, BufferOK
<1>4. Holds(b, Ring(b), sent[b])
  BY <1>1, Zenon DEF OK, BufferOK, Ring
<1>5. ASSUME size[b] > 0 PROVE Ring(b) \in Seq(Bytes) /\ Len(Ring(b)) = avail[b]
  <2>1. PICK sz, tail, n, mem :
           /\ sz = size[b] /\ tail = sbTail[b] /\ n = avail[b] /\ mem = bytes[b]
           /\ sz \in 1..MaxSize /\ tail \in 0..(sz - 1) /\ n \in 0..sz /\ mem \in Memory
    <3>1. size[b] \in 1..MaxSize
      BY <1>2, <1>3, <1>5
    <3>2. sbTail[b] \in 0..(size[b] - 1) /\ avail[b] \in 0..size[b] /\ bytes[b] \in Memory
      BY <1>3, <1>5, Zenon
    <3> QED
      BY <3>1, <3>2, Zenon
  <2>2. RingOf(mem, tail, n, sz) \in Seq(Bytes) /\ Len(RingOf(mem, tail, n, sz)) = n
    <3>1. EveryRingTyped
      BY <1>2, RingType, Zenon
    <3>2. RingTyped(mem, tail, n, sz)
      BY <2>1, <3>1, Zenon DEF EveryRingTyped
    <3> QED
      BY <3>2, Zenon DEF RingTyped
  <2> QED
    BY <2>1, <2>2, Zenon DEF Ring
<1> QED
  BY <1>3, <1>4, <1>5

(* sb_write_bytes                                                          *)
LEMMA WriteKeeps ==
    ASSUME StreamAssumption, DataInv, NEW b \in Buffers, size[b] > 0,
           NEW src \in Seq(Bytes), Len(src) <= Spaces(b), NEW frames,
           sent[b] \o frames \in Seq(Seq(Bytes)),
           Write(b, src, frames), Holds(b, Ring(b) \o src, sent[b] \o frames)
    PROVE  /\ DataInv' /\ UNCHANGED <<size, trigger>>
           /\ avail'[b] = avail[b] + Len(src) /\ \A x \in Buffers : x # b => avail'[x] = avail[x]
<1>1. PICK sz, trig, head, tail, n, mem, s :
         /\ sz = size[b] /\ trig = trigger[b] /\ head = sbHead[b] /\ tail = sbTail[b] /\ n = avail[b]
         /\ mem = bytes[b] /\ s = sent[b]
  OBVIOUS
<1>2. PICK w : w = s \o frames
  OBVIOUS
<1>3. /\ sz \in Nat \ {0} /\ trig \in Nat /\ head \in Nat /\ tail \in Nat /\ n \in Nat
      /\ mem \in Memory /\ w \in Seq(Seq(Bytes)) /\ n + Len(src) <= sz
  <2>1. PICK l \in Nat : l = Len(src)
    OBVIOUS
  <2>2. /\ sz \in Nat /\ trig \in Nat /\ head \in Nat /\ tail \in Nat /\ n \in Nat /\ mem \in Memory
    BY <1>1, BufferFacts
  <2>3. sz > 0 /\ l <= sz - n
    BY <1>1, <2>1, Zenon DEF Spaces
  <2>4. sz # 0 /\ n + l <= sz
    BY <2>2, <2>3
  <2> QED
    BY <1>1, <1>2, <2>1, <2>2, <2>4, Zenon
<1>4. BufferOK(b, sz, trig, head, tail, n, mem, s)
  BY <1>1, Zenon DEF DataInv, OK
<1>5. Holds(b, RingOf(mem, tail, n, sz) \o src, w)
  BY <1>1, <1>2, Zenon DEF Ring
<1>6. PICK new, at : new = Written(mem, 0..(MaxSize - 1), head, sz, src) /\ at = (head + Len(src)) % sz
  OBVIOUS
<1>7. new \in Memory /\ BufferOK(b, sz, trig, at, tail, n + Len(src), new, w)
  <2>1. /\ Written(mem, 0..(MaxSize - 1), head, sz, src) \in Memory
        /\ BufferOK(b, sz, trig, (head + Len(src)) % sz, tail, n + Len(src),
                    Written(mem, 0..(MaxSize - 1), head, sz, src), w)
    BY <1>3, <1>4, <1>5, BufferWritten
  <2> QED
    BY <1>6, <2>1, Zenon
<1>8. DataTypes
  BY DEF DataInv
<1>9. bytes' = [bytes EXCEPT ![b] = new]
  <2>1. DOMAIN mem = 0..(MaxSize - 1)
    BY <1>3 DEF Memory
  <2>2. new = [k \in DOMAIN mem |->
                 IF \E i \in 1..Len(src) : (head + i - 1) % sz = k
                 THEN src[CHOOSE i \in 1..Len(src) : (head + i - 1) % sz = k] ELSE mem[k]]
    BY <1>6, <2>1 DEF Written
  <2>3. bytes' = [bytes EXCEPT ![b] =
                    [k \in DOMAIN mem |->
                       IF \E i \in 1..Len(src) : (head + i - 1) % sz = k
                       THEN src[CHOOSE i \in 1..Len(src) : (head + i - 1) % sz = k] ELSE mem[k]]]
    BY <1>1, Zenon DEF Write
  <2> QED
    BY <2>2, <2>3, Zenon
<1>10. /\ size' = [size EXCEPT ![b] = sz] /\ trigger' = [trigger EXCEPT ![b] = trig]
       /\ sbTail' = [sbTail EXCEPT ![b] = tail]
  BY <1>1, <1>8 DEF Write, DataTypes
<1>11. /\ sbHead' = [sbHead EXCEPT ![b] = at] /\ avail' = [avail EXCEPT ![b] = n + Len(src)]
       /\ sent' = [sent EXCEPT ![b] = w]
  BY <1>1, <1>2, <1>6, Zenon DEF Write
<1>12. at \in Nat /\ n + Len(src) \in Nat
  <2>1. at \in 0..(sz - 1)
    BY <1>3, <1>7 DEF BufferOK
  <2>2. at \in Nat
    BY <1>3, <2>1
  <2>3. n \in Nat /\ Len(src) \in Nat
    BY <1>3
  <2> QED
    BY <2>2, <2>3
<1>13. DataInv'
  BY <1>3, <1>7, <1>9, <1>10, <1>11, <1>12, OneBuffer
<1>14. UNCHANGED <<size, trigger>>
  BY DEF Write
<1>15. avail'[b] = n + Len(src) /\ \A x \in Buffers : x # b => avail'[x] = avail[x]
  BY <1>8, <1>11 DEF DataTypes
<1> QED
  BY <1>1, <1>13, <1>14, <1>15

(* sb_read_bytes                                                           *)
LEMMA ReadKeeps ==
    ASSUME StreamAssumption, DataInv, NEW b \in Buffers, size[b] > 0,
           NEW k \in Nat, k <= avail[b], NEW j \in Nat, Read(b, k, j),
           Holds(b, Without(Ring(b), k), SubSeq(sent[b], j + 1, Len(sent[b])))
    PROVE  /\ DataInv' /\ UNCHANGED <<size, trigger>>
           /\ avail'[b] = avail[b] - k /\ \A x \in Buffers : x # b => avail'[x] = avail[x]
<1>1. PICK sz, trig, head, tail, n, mem, s :
         /\ sz = size[b] /\ trig = trigger[b] /\ head = sbHead[b] /\ tail = sbTail[b] /\ n = avail[b]
         /\ mem = bytes[b] /\ s = sent[b]
  OBVIOUS
<1>2. PICK w : w = SubSeq(s, j + 1, Len(s))
  OBVIOUS
<1>3. /\ sz \in Nat \ {0} /\ trig \in Nat /\ head \in Nat /\ tail \in Nat /\ n \in Nat
      /\ mem \in Memory /\ s \in Seq(Seq(Bytes)) /\ k <= n
  <2>1. /\ size[b] \in Nat /\ trigger[b] \in Nat /\ sbHead[b] \in Nat /\ sbTail[b] \in Nat
        /\ avail[b] \in Nat /\ bytes[b] \in Memory /\ sent[b] \in Seq(Seq(Bytes))
    BY BufferFacts
  <2>2. size[b] \in Nat \ {0}
    BY <2>1
  <2> QED
    BY <1>1, <2>1, <2>2, Zenon
<1>4. BufferOK(b, sz, trig, head, tail, n, mem, s)
  BY <1>1, Zenon DEF DataInv, OK
<1>5. Holds(b, Without(RingOf(mem, tail, n, sz), k), w)
  BY <1>1, <1>2, Zenon DEF Ring
<1>6. PICK at : at = (tail + k) % sz
  OBVIOUS
<1>7. BufferOK(b, sz, trig, head, at, n - k, mem, w)
  <2>1. BufferOK(b, sz, trig, head, (tail + k) % sz, n - k, mem, w)
    BY <1>3, <1>4, <1>5, BufferTaken
  <2> QED
    BY <1>6, <2>1, Zenon
<1>8. DataTypes
  BY DEF DataInv
<1>9. w \in Seq(Seq(Bytes))
  <2>1. PICK l \in Nat : l = Len(s)
    BY <1>3
  <2>2. j + 1 \in Int /\ l \in Int /\ \A i \in (j + 1)..l : s[i] \in Seq(Bytes)
    BY <1>3, <2>1
  <2>3. SubSeq(s, j + 1, l) \in Seq(Seq(Bytes))
    BY <2>2, SubSeqProperties
  <2> QED
    BY <1>2, <2>1, <2>3
<1>10. /\ size' = [size EXCEPT ![b] = sz] /\ trigger' = [trigger EXCEPT ![b] = trig]
       /\ sbHead' = [sbHead EXCEPT ![b] = head] /\ bytes' = [bytes EXCEPT ![b] = mem]
  BY <1>1, <1>8 DEF Read, DataTypes
<1>11. /\ sbTail' = [sbTail EXCEPT ![b] = at] /\ avail' = [avail EXCEPT ![b] = n - k]
       /\ sent' = [sent EXCEPT ![b] = w]
  BY <1>1, <1>2, <1>6, Zenon DEF Read
<1>12. at \in Nat /\ n - k \in Nat
  <2>1. at \in 0..(sz - 1)
    BY <1>3, <1>7 DEF BufferOK
  <2> QED
    BY <1>3, <2>1
<1>13. DataInv'
  BY <1>3, <1>7, <1>9, <1>10, <1>11, <1>12, OneBuffer
<1>14. UNCHANGED <<size, trigger>>
  BY DEF Read
<1>15. avail'[b] = n - k /\ \A x \in Buffers : x # b => avail'[x] = avail[x]
  BY <1>8, <1>11 DEF DataTypes
<1> QED
  BY <1>1, <1>13, <1>14, <1>15

(* A message buffer that is not empty begins with a whole message, whose   *)
(* length the prefix says.                                                 *)
LEMMA MessageThere ==
    ASSUME StreamAssumption, DataInv, NEW b \in Messages, avail[b] > 0
    PROVE  /\ Complete(b) /\ LengthAtTail(b) \in Nat
           /\ PrefixLen + LengthAtTail(b) <= avail[b] /\ PrefixLen + LengthAtTail(b) \in Nat \ {0}
           /\ Holds(b, Without(Ring(b), PrefixLen + LengthAtTail(b)), SubSeq(sent[b], 2, Len(sent[b])))
<1>1. b \in Buffers /\ b \notin Streams
  BY DEF Buffers, StreamAssumption
<1>2. PICK s : s = sent[b]
  OBVIOUS
<1>3. /\ s \in Seq(Seq(Bytes)) /\ Ring(b) \in Seq(Bytes) /\ Len(Ring(b)) = avail[b]
      /\ Holds(b, Ring(b), s) /\ avail[b] \in Nat /\ size[b] > 0
  BY <1>1, <1>2, BufferFacts
<1>4. PICK ring \in Seq(Bytes) : ring = Ring(b)
  BY <1>3
<1>5. ring # << >> /\ Holds(b, ring, s)
  BY <1>3, <1>4
<1>6. /\ s # << >> /\ Len(s[1]) \in Nat /\ Len(s[1]) < Place[PrefixLen]
      /\ PrefixLen + Len(s[1]) <= Len(ring)
      /\ \A i \in 1..PrefixLen : ring[i] = Prefix(Len(s[1]))[i]
      /\ Holds(b, Without(ring, PrefixLen + Len(s[1])), SubSeq(s, 2, Len(s)))
  <2>1. BeginsWith(b, ring, s)
    <3>1. b \notin Streams /\ s \in Seq(Seq(Bytes)) /\ ring # << >> /\ Holds(b, ring, s)
      BY <1>1, <1>3, <1>5
    <3> QED
      BY <3>1, FirstMessage, Zenon
  <2> QED
    BY <2>1, Zenon DEF BeginsWith
<1>7. PICK n \in Nat : n = Len(s[1])
  BY <1>6
<1>8. PrefixLen \in Nat \ {0}
  BY DEF StreamAssumption
<1>9. ASSUME NEW i \in 1..PrefixLen PROVE Cell(b, i) = Prefix(n)[i]
  <2>1. i \in 1..avail[b]
    <3>1. PICK k \in Nat : k = avail[b] /\ PrefixLen + n <= k
      BY <1>3, <1>4, <1>6, <1>7
    <3>2. i \in 1..k
      BY <1>8, <3>1
    <3> QED
      BY <3>1, <3>2
  <2>2. Ring(b)[i] = Cell(b, i)
    BY <2>1 DEF Ring, RingOf, Cell
  <2> QED
    BY <1>4, <1>6, <1>7, <2>2
<1>10. LengthAtTail(b) = n
  BY <1>6, <1>7, <1>9, LengthDecoded
<1>11. PrefixLen + n <= avail[b] /\ PrefixLen <= avail[b] /\ PrefixLen + n \in Nat \ {0}
  <2>1. PICK k \in Nat : k = avail[b] /\ PrefixLen + n <= k
    BY <1>3, <1>4, <1>6, <1>7
  <2>2. PrefixLen <= k /\ PrefixLen + n \in Nat \ {0}
    BY <1>8, <2>1
  <2> QED
    BY <2>1, <2>2
<1>12. Complete(b)
  BY <1>8, <1>10, <1>11 DEF Complete
<1>13. Holds(b, Without(Ring(b), PrefixLen + n), SubSeq(sent[b], 2, Len(sent[b])))
  BY <1>2, <1>4, <1>6, <1>7, Zenon
<1> QED
  BY <1>7, <1>10, <1>11, <1>12, <1>13, Zenon

LEMMA CompleteIs ==
    ASSUME StreamAssumption, DataInv, NEW b \in Messages
    PROVE  Complete(b) <=> avail[b] > 0
<1>1. avail[b] \in Nat /\ PrefixLen \in Nat \ {0}
  BY BufferFacts DEF Buffers, StreamAssumption
<1>2. Complete(b) => avail[b] > 0
  BY <1>1 DEF Complete
<1> QED
  BY <1>2, MessageThere

(* Nothing happens to the data.                                            *)
LEMMA DataStays ==
    ASSUME StreamAssumption, DataInv, UNCHANGED ringOf
    PROVE  DataInv' /\ \A x \in Buffers : Calm(x, {})
<1>1. /\ size' = size /\ trigger' = trigger /\ sbHead' = sbHead /\ sbTail' = sbTail /\ avail' = avail
      /\ bytes' = bytes /\ sent' = sent
  BY DEF ringOf
<1>2. DataTypes'
  BY <1>1 DEF DataTypes, DataInv
<1>3. ASSUME NEW x \in Buffers PROVE OK(x)'
  BY <1>1, Zenon DEF OK, DataInv
<1>4. ASSUME NEW x \in Buffers PROVE Calm(x, {})
  <2>1. avail[x] \in Nat /\ size[x] \in Nat
    BY BufferFacts
  <2> QED
    BY <1>1, <2>1 DEF Calm
<1> QED
  BY <1>2, <1>3, <1>4 DEF DataInv

(* The others are calm when one buffer is written or read.                 *)
LEMMA OthersCalm ==
    ASSUME StreamAssumption, DataInv, UNCHANGED <<size, trigger>>, NEW b,
           \A x \in Buffers : x # b => avail'[x] = avail[x],
           NEW x \in Buffers, x # b, NEW W
    PROVE  Calm(x, W)
<1>1. avail[x] \in Nat /\ size[x] \in Nat
  BY BufferFacts
<1> QED
  BY <1>1 DEF Calm

(* The first n bytes of data are written.                                  *)
LEMMA BytesIn ==
    ASSUME StreamAssumption, DataInv, NEW b \in Streams, NEW data \in Seq(Bytes),
           NEW n \in 0..Len(data), n <= Spaces(b),
           IF n = 0 THEN UNCHANGED ringOf ELSE Write(b, SubSeq(data, 1, n), AsFrames(SubSeq(data, 1, n)))
    PROVE  /\ DataInv' /\ \A x \in Buffers : Calm(x, ReadersWoken(b, n))
           /\ size' = size /\ avail'[b] = avail[b] + n
<1>1. b \in Buffers
  BY DEF Buffers
<1>2. CASE n = 0
  <2>1. UNCHANGED ringOf /\ ReadersWoken(b, n) = {}
    BY <1>2 DEF ReadersWoken
  <2>2. size' = size /\ avail'[b] = avail[b] + n
    <3>1. avail[b] \in Nat
      BY <1>1, BufferFacts
    <3> QED
      BY <1>2, <2>1, <3>1 DEF ringOf
  <2> QED
    BY <2>1, <2>2, DataStays
<1>3. CASE n # 0
  <2>1. PICK src : src = SubSeq(data, 1, n)
    OBVIOUS
  <2>2. src \in Seq(Bytes) /\ Len(src) = n
    <3>1. 1 \in Int /\ n \in Int /\ \A i \in 1..n : data[i] \in Bytes
      OBVIOUS
    <3>2. /\ SubSeq(data, 1, n) \in Seq(Bytes)
          /\ Len(SubSeq(data, 1, n)) = IF 1 <= n THEN n - 1 + 1 ELSE 0
      BY <3>1, SubSeqProperties
    <3> QED
      BY <1>3, <2>1, <3>2
  <2>3. PICK frames : frames = AsFrames(src)
    OBVIOUS
  <2>4. Write(b, src, frames)
    BY <1>3, <2>1, <2>3
  <2>5. PICK s : s = sent[b]
    OBVIOUS
  <2>6. /\ s \in Seq(Seq(Bytes)) /\ Holds(b, Ring(b), s)
        /\ avail[b] \in Nat /\ size[b] \in Nat /\ trigger[b] \in Nat
    BY <1>1, <2>5, BufferFacts
  <2>14. size[b] > 0
    BY <1>3, <2>6 DEF Spaces
  <2>15. Ring(b) \in Seq(Bytes)
    BY <1>1, <2>14, BufferFacts
  <2>7. PICK ring \in Seq(Bytes) : ring = Ring(b)
    BY <2>15
  <2>8. Holds(b, ring \o src, s \o frames)
    BY <2>2, <2>3, <2>6, <2>7, HoldsPut
  <2>9. s \o frames \in Seq(Seq(Bytes))
    <3>1. \A i \in 1..Len(src) : <<src[i]>> \in Seq(Bytes)
      BY <2>2
    <3>2. frames \in Seq(Seq(Bytes))
      BY <2>2, <2>3, <3>1 DEF AsFrames
    <3> QED
      BY <2>6, <3>2
  <2>10. Holds(b, Ring(b) \o src, sent[b] \o frames) /\ sent[b] \o frames \in Seq(Seq(Bytes))
    BY <2>5, <2>7, <2>8, <2>9, Zenon
  <2>11. Len(src) <= Spaces(b)
    BY <2>2
  <2>12. /\ DataInv' /\ UNCHANGED <<size, trigger>>
         /\ avail'[b] = avail[b] + Len(src) /\ \A x \in Buffers : x # b => avail'[x] = avail[x]
    BY <1>1, <2>2, <2>4, <2>10, <2>11, <2>14, WriteKeeps
  <2>13. Calm(b, ReadersWoken(b, n))
    BY <1>3, <2>2, <2>6, <2>12, <2>14 DEF Calm, ReadersWoken
  <2> QED
    BY <2>2, <2>12, <2>13, OthersCalm
<1> QED
  BY <1>2, <1>3

(* A message is written whole.                                             *)
LEMMA MessageIn ==
    ASSUME StreamAssumption, DataInv, NEW b \in Messages, NEW m \in Seq(Bytes),
           Len(m) < Place[PrefixLen], Fits(b, m), Write(b, Frame(m), <<m>>)
    PROVE  DataInv' /\ \A x \in Buffers : Calm(x, ReadersWoken(b, Need(m)))
<1>1. b \in Buffers /\ b \notin Streams
  BY DEF Buffers, StreamAssumption
<1>2. PICK src \in Seq(Bytes) : src = Frame(m) /\ Len(src) = PrefixLen + Len(m)
  BY FrameIs
<1>3. PICK s : s = sent[b]
  OBVIOUS
<1>4. /\ s \in Seq(Seq(Bytes)) /\ Ring(b) \in Seq(Bytes) /\ Holds(b, Ring(b), s)
      /\ avail[b] \in Nat /\ size[b] \in Nat /\ size[b] > 0 /\ trigger[b] = 1
  BY <1>1, <1>3, BufferFacts DEF Fits
<1>5. PICK ring \in Seq(Bytes) : ring = Ring(b)
  BY <1>4
<1>6. Holds(b, ring \o src, s \o <<m>>)
  BY <1>1, <1>2, <1>4, <1>5, HoldsSent
<1>7. s \o <<m>> \in Seq(Seq(Bytes))
  BY <1>4
<1>8. PICK frames : frames = <<m>>
  OBVIOUS
<1>9. /\ Holds(b, Ring(b) \o src, sent[b] \o frames) /\ sent[b] \o frames \in Seq(Seq(Bytes))
      /\ Write(b, src, frames)
  BY <1>2, <1>3, <1>5, <1>6, <1>7, <1>8, Zenon
<1>10. Len(src) <= Spaces(b) /\ Len(src) = Need(m)
  BY <1>2 DEF Fits, Need
<1>11. /\ DataInv' /\ UNCHANGED <<size, trigger>>
       /\ avail'[b] = avail[b] + Len(src) /\ \A x \in Buffers : x # b => avail'[x] = avail[x]
  BY <1>1, <1>4, <1>9, <1>10, WriteKeeps
<1>12. Need(m) \in Nat \ {0}
  <2>1. PrefixLen \in Nat \ {0} /\ Len(m) \in Nat
    BY DEF StreamAssumption
  <2> QED
    BY <2>1 DEF Need
<1>13. Calm(b, ReadersWoken(b, Need(m)))
  BY <1>4, <1>10, <1>11, <1>12 DEF Calm, ReadersWoken
<1> QED
  BY <1>11, <1>13, OthersCalm

(* The first n bytes are read.                                             *)
LEMMA BytesOut ==
    ASSUME StreamAssumption, DataInv, NEW b \in Streams,
           NEW n \in Nat, n <= avail[b], IF n = 0 THEN UNCHANGED ringOf ELSE Read(b, n, n)
    PROVE  DataInv' /\ \A x \in Buffers : Calm(x, WritersWoken(b, n))
<1>1. b \in Buffers
  BY DEF Buffers
<1>2. CASE n = 0
  <2>1. UNCHANGED ringOf /\ WritersWoken(b, n) = {}
    BY <1>2 DEF WritersWoken
  <2> QED
    BY <2>1, DataStays
<1>3. CASE n # 0
  <2>1. PICK s : s = sent[b]
    OBVIOUS
  <2>8. avail[b] \in Nat /\ avail[b] <= size[b] /\ size[b] \in Nat
    BY <1>1, BufferFacts
  <2>9. size[b] > 0
    BY <1>3, <2>8
  <2>2. /\ s \in Seq(Seq(Bytes)) /\ Ring(b) \in Seq(Bytes) /\ Holds(b, Ring(b), s)
        /\ Len(Ring(b)) = avail[b]
    BY <1>1, <2>1, <2>9, BufferFacts
  <2>3. PICK ring \in Seq(Bytes) : ring = Ring(b) /\ n \in 0..Len(ring)
    BY <2>2, <2>8
  <2>4. Holds(b, Without(ring, n), SubSeq(s, n + 1, Len(s)))
    BY <2>2, <2>3, HoldsTaken
  <2>5. Holds(b, Without(Ring(b), n), SubSeq(sent[b], n + 1, Len(sent[b])))
    BY <2>1, <2>3, <2>4, Zenon
  <2>6. /\ DataInv' /\ UNCHANGED <<size, trigger>>
        /\ avail'[b] = avail[b] - n /\ \A x \in Buffers : x # b => avail'[x] = avail[x]
    BY <1>1, <1>3, <2>5, <2>9, ReadKeeps
  <2>7. Calm(b, WritersWoken(b, n))
    BY <1>3, <2>6, <2>8, <2>9 DEF Calm, WritersWoken, Spaces
  <2> QED
    BY <2>6, <2>7, OthersCalm
<1> QED
  BY <1>2, <1>3

(* A message is read whole.                                                *)
LEMMA MessageOut ==
    ASSUME StreamAssumption, DataInv, NEW b \in Messages, Complete(b),
           Read(b, PrefixLen + LengthAtTail(b), 1)
    PROVE  DataInv' /\ \A x \in Buffers : Calm(x, WritersWoken(b, PrefixLen + LengthAtTail(b)))
<1>1. b \in Buffers /\ avail[b] > 0
  BY CompleteIs DEF Buffers
<1>2. PICK n : n = PrefixLen + LengthAtTail(b)
  OBVIOUS
<1>3. /\ n \in Nat \ {0} /\ n <= avail[b] /\ Read(b, n, 1)
      /\ Holds(b, Without(Ring(b), n), SubSeq(sent[b], 1 + 1, Len(sent[b])))
  BY <1>1, <1>2, MessageThere
<1>4. avail[b] \in Nat /\ avail[b] <= size[b] /\ size[b] \in Nat /\ size[b] > 0
  BY <1>1, BufferFacts
<1>5. /\ DataInv' /\ UNCHANGED <<size, trigger>>
      /\ avail'[b] = avail[b] - n /\ \A x \in Buffers : x # b => avail'[x] = avail[x]
  BY <1>1, <1>3, <1>4, ReadKeeps
<1>6. Calm(b, WritersWoken(b, n))
  BY <1>3, <1>4, <1>5 DEF Calm, WritersWoken, Spaces
<1>7. \A x \in Buffers : Calm(x, WritersWoken(b, n))
  BY <1>5, <1>6, OthersCalm
<1> QED
  BY <1>2, <1>5, <1>7

-----------------------------------------------------------------------------
(* The readers and the writers.                                            *)

Party(u) ==
    \A b \in Buffers : state[u] = "BLOCKED" =>
        /\ size[b] = 0 => blockObj[u] # ReadQ(b) /\ blockObj[u] # WriteQ(b)
        /\ blockObj[u] = ReadQ(b) => IF b \in Streams THEN avail[b] < trigger[b] ELSE avail[b] = 0
        /\ (blockObj[u] = WriteQ(b) /\ b \notin Resettable) =>
              IF b \in Streams THEN Spaces(b) = 0 ELSE ~Fits(b, pend[u].data)
        /\ (blockObj[u] = WriteQ(b) /\ b \notin Streams) => Need(pend[u].data) <= size[b]
PendOK ==
    /\ pend \in [Tasks -> [data : Seq(Bytes), room : 0..MaxRoom]]
    /\ \A t \in Tasks : Len(pend[t].data) < Place[PrefixLen]

StreamInv == DataInv /\ PendOK /\ \A u \in Tasks : Party(u)

(* u sleeps on only if it did, and not on a queue of W.                    *)
SleepsOn(u, W) ==
    state'[u] = "BLOCKED" =>
        /\ state[u] = "BLOCKED" /\ blockObj'[u] = blockObj[u] /\ pend'[u] = pend[u]
        /\ blockObj[u] \notin W

LEMMA PartyKept ==
    ASSUME SignalsAssumption, DataInv, DataInv', PendOK, NEW u \in Tasks, Party(u), NEW W, SleepsOn(u, W),
           \A x \in Buffers : Calm(x, W)
    PROVE  Party(u)'
<1>1. StreamAssumption
  BY DEF SignalsAssumption
<1> SUFFICES ASSUME NEW b \in Buffers, state'[u] = "BLOCKED"
             PROVE  /\ size'[b] = 0 => blockObj'[u] # ReadQ(b) /\ blockObj'[u] # WriteQ(b)
                    /\ blockObj'[u] = ReadQ(b) =>
                          IF b \in Streams THEN avail'[b] < trigger'[b] ELSE avail'[b] = 0
                    /\ (blockObj'[u] = WriteQ(b) /\ b \notin Resettable) =>
                          IF b \in Streams THEN Spaces(b)' = 0 ELSE ~Fits(b, pend[u].data)'
                    /\ (blockObj'[u] = WriteQ(b) /\ b \notin Streams) =>
                          Need(pend[u].data)' <= size'[b]
  BY DEF Party, Fits
<1>2. /\ state[u] = "BLOCKED" /\ blockObj'[u] = blockObj[u] /\ pend'[u] = pend[u]
      /\ blockObj[u] \notin W
  BY DEF SleepsOn
<1>3. /\ size[b] = 0 => blockObj[u] # ReadQ(b) /\ blockObj[u] # WriteQ(b)
      /\ blockObj[u] = ReadQ(b) => IF b \in Streams THEN avail[b] < trigger[b] ELSE avail[b] = 0
      /\ (blockObj[u] = WriteQ(b) /\ b \notin Resettable) =>
            IF b \in Streams THEN Spaces(b) = 0 ELSE ~Fits(b, pend[u].data)
      /\ (blockObj[u] = WriteQ(b) /\ b \notin Streams) => Need(pend[u].data) <= size[b]
  BY <1>2 DEF Party
<1>4. /\ size[b] \in Nat /\ trigger[b] \in Nat /\ avail[b] \in Nat
      /\ size'[b] \in Nat /\ avail'[b] \in Nat /\ avail'[b] <= size'[b]
  <2>1. DataTypes /\ DataTypes' /\ OK(b)'
    BY DEF DataInv
  <2> QED
    BY <2>1 DEF DataTypes, OK, BufferOK
<1>5. CASE size[b] = 0
  BY <1>2, <1>3, <1>5
<1>6. CASE ReadQ(b) \in W /\ WriteQ(b) \in W
  BY <1>2, <1>6
<1>7. CASE /\ size[b] > 0 /\ size'[b] = size[b] /\ trigger'[b] = trigger[b]
           /\ ReadQ(b) \in W \/ avail'[b] <= avail[b] \/ (b \in Streams /\ avail'[b] < trigger[b])
           /\ WriteQ(b) \in W \/ b \in Resettable \/ avail'[b] >= avail[b]
  <2>1. size'[b] # 0
    BY <1>4, <1>7
  <2>2. ASSUME blockObj'[u] = ReadQ(b)
        PROVE  IF b \in Streams THEN avail'[b] < trigger'[b] ELSE avail'[b] = 0
    BY <1>2, <1>3, <1>4, <1>7, <2>2
  <2>3. ASSUME blockObj'[u] = WriteQ(b), b \notin Resettable, b \in Streams PROVE Spaces(b)' = 0
    BY <1>2, <1>3, <1>4, <1>7, <2>3 DEF Spaces
  <2>4. ASSUME blockObj'[u] = WriteQ(b), b \notin Resettable, b \notin Streams
        PROVE  ~Fits(b, pend[u].data)'
    <3>1. ~Fits(b, pend[u].data) /\ avail'[b] >= avail[b]
      BY <1>2, <1>3, <1>7, <2>4
    <3>2. PICK n : n = Need(pend[u].data)
      OBVIOUS
    <3>3. Need(pend'[u].data) = n
      BY <1>2, <3>2, Zenon
    <3>4. ~(size[b] - avail[b] >= n)
      BY <1>7, <3>1, <3>2 DEF Fits, Spaces
    <3>5. n \in Int
      <4>1. pend[u].data \in Seq(Bytes)
        BY DEF PendOK
      <4>2. PrefixLen \in Nat /\ Len(pend[u].data) \in Nat
        BY <1>1, <4>1 DEF StreamAssumption
      <4> QED
        BY <3>2, <4>2 DEF Need
    <3>6. ~(size'[b] - avail'[b] >= n)
      BY <1>4, <1>7, <3>1, <3>4, <3>5
    <3> QED
      BY <3>3, <3>6 DEF Fits, Spaces
  <2>5. ASSUME blockObj'[u] = WriteQ(b), b \notin Streams
        PROVE  Need(pend[u].data)' <= size'[b]
    BY <1>2, <1>3, <1>7, <2>5, Zenon
  <2> QED
    BY <2>1, <2>2, <2>3, <2>4, <2>5
<1>8. Calm(b, W)
  OBVIOUS
<1> QED
  BY <1>5, <1>6, <1>7, <1>8 DEF Calm

LEMMA QueuesDiffer ==
    ASSUME NEW b, NEW x
    PROVE  ReadQ(b) # WriteQ(x) /\ (ReadQ(b) = ReadQ(x) => b = x) /\ (WriteQ(b) = WriteQ(x) => b = x)
BY DEF ReadQ, WriteQ

(* A task that goes to sleep as a reader, ...                              *)
LEMMA ReaderIs ==
    ASSUME NEW t \in Tasks, NEW b, blockObj'[t] = ReadQ(b), size'[b] # 0,
           IF b \in Streams THEN avail'[b] < trigger'[b] ELSE avail'[b] = 0
    PROVE  Party(t)'
BY QueuesDiffer DEF Party

(* ... and as a writer.                                                    *)
LEMMA WriterIs ==
    ASSUME NEW t \in Tasks, NEW b, blockObj'[t] = WriteQ(b), size'[b] # 0,
           IF b \in Streams THEN Spaces(b)' = 0
           ELSE ~Fits(b, pend[t].data)' /\ Need(pend[t].data)' <= size'[b]
    PROVE  Party(t)'
BY QueuesDiffer DEF Party, Fits

(* sb_wake_recv, sb_wake_send                                              *)
LEMMA PopAllKeeps ==
    ASSUME SignalsInv, NEW W \in SUBSET Queues, PopAll(W), NEW u \in Tasks, pend'[u] = pend[u]
    PROVE  SleepsOn(u, W)
<1> DEFINE S == {t \in Tasks : \E q \in W : InList(waitq[q], t)}
<1>1. Wake(S, TRUE)
  BY DEF PopAll
<1>2. state[u] = "BLOCKED" /\ blockObj[u] \in W => u \in S
  BY DEF SignalsInv, WaitInv, QueueMembership
<1> HIDE DEF S
<1>3. state'[u] = "BLOCKED" => state[u] = "BLOCKED" /\ blockObj'[u] = blockObj[u] /\ u \notin S
  BY <1>1 DEF Wake
<1> QED
  BY <1>2, <1>3 DEF SleepsOn

(* The calls that wake tasks and put nobody to sleep.                      *)
LEMMA WakingKeeps ==
    ASSUME SignalsAssumption, SignalsInv, StreamInv, DataInv', NEW W \in SUBSET Queues,
           \A x \in Buffers : Calm(x, W),
           PopAll(W) \/ (LeavesQueues /\ W = {}),
           UNCHANGED pend \/ \E t \in Tasks : Resumes(t) /\ pend' = [pend EXCEPT ![t] = Nothing]
    PROVE  StreamInv'
<1>1. PendOK'
  <2>1. Nothing \in [data : Seq(Bytes), room : 0..MaxRoom] /\ Nothing.data = << >>
    <3>1. MaxRoom \in Nat
      BY DEF SignalsAssumption, StreamAssumption
    <3> QED
      BY <3>1 DEF Nothing
  <2>2. 0 < Place[PrefixLen]
    <3>1. StreamAssumption /\ PrefixLen \in 0..PrefixLen
      BY DEF SignalsAssumption, StreamAssumption
    <3> QED
      BY <3>1, PlaceIs
  <2>3. PICK W0, no : W0 = [data : Seq(Bytes), room : 0..MaxRoom] /\ no = Nothing /\ no \in W0
    BY <2>1
  <2>4. pend \in [Tasks -> W0] /\ \A t \in Tasks : Len(pend[t].data) < Place[PrefixLen]
    BY <2>3 DEF StreamInv, PendOK
  <2>5. pend' \in [Tasks -> W0] /\ \A t \in Tasks : pend'[t] = pend[t] \/ pend'[t] = no
    BY <2>3, <2>4
  <2>6. Len(no.data) < Place[PrefixLen]
    BY <2>1, <2>2, <2>3
  <2> QED
    BY <2>3, <2>4, <2>5, <2>6 DEF PendOK
<1>2. ASSUME NEW u \in Tasks PROVE Party(u)'
  <2>1. CASE pend'[u] = pend[u]
    <3>1. SleepsOn(u, W)
      BY <2>1, PopAllKeeps DEF LeavesQueues, SleepsOn
    <3> QED
      BY <3>1, PartyKept DEF StreamInv
  <2>2. CASE pend'[u] # pend[u]
    <3>1. Resumes(u)
      BY <2>2 DEF StreamInv, PendOK
    <3>2. state[u] # "BLOCKED"
      BY <3>1 DEF Resumes, SignalsInv, WaitInv, BlockedInCall
    <3>3. state'[u] # "BLOCKED"
      BY <3>2 DEF PopAll, Wake, LeavesQueues
    <3> QED
      BY <3>3 DEF Party
  <2> QED
    BY <2>1, <2>2
<1> QED
  BY <1>1, <1>2 DEF StreamInv

(* The calls that put their caller to sleep.                               *)
LEMMA SleepingKeeps ==
    ASSUME SignalsAssumption, SignalsInv, StreamInv, DataInv', NEW W \in SUBSET Queues,
           \A x \in Buffers : Calm(x, W),
           NEW t \in Tasks, Executing(t), NEW q \in Queues, NEW d,
           PopAllAndBlock(W, t, q, d) \/ (Block(t, q, d) /\ W = {}),
           NEW data \in Seq(Bytes), Len(data) < Place[PrefixLen], NEW room \in 0..MaxRoom,
           pend' = [pend EXCEPT ![t] = [data |-> data, room |-> room]],
           blockObj'[t] = q => Party(t)'
    PROVE  StreamInv'
<1>1. PendOK'
  <2>1. PICK P, p : P = [data : Seq(Bytes), room : 0..MaxRoom] /\ p = [data |-> data, room |-> room]
    OBVIOUS
  <2>2. p \in P /\ p.data = data
    BY <2>1
  <2>3. pend \in [Tasks -> P] /\ \A u \in Tasks : Len(pend[u].data) < Place[PrefixLen]
    BY <2>1 DEF StreamInv, PendOK
  <2>4. pend' \in [Tasks -> P] /\ \A u \in Tasks : pend'[u] = pend[u] \/ pend'[u] = p
    BY <2>1, <2>2, <2>3
  <2> QED
    BY <2>1, <2>2, <2>3, <2>4 DEF PendOK
<1>2. blockObj'[t] = q
  BY DEF PopAllAndBlock, Block, SignalsInv, WaitInv, WaitTypeOK
<1>3. ASSUME NEW u \in Tasks, u # t PROVE Party(u)'
  <2>1. pend'[u] = pend[u]
    BY <1>3 DEF StreamInv, PendOK
  <2>2. CASE PopAllAndBlock(W, t, q, d)
    <3> DEFINE S == {x \in Tasks : \E y \in W : InList(waitq[y], x)}
    <3>1. /\ state'[u] = IF u \in S THEN "READY" ELSE state[u]
          /\ blockObj'[u] = IF u \in S THEN NoQueue ELSE blockObj[u]
      BY <1>3, <2>2 DEF PopAllAndBlock
    <3>2. state[u] = "BLOCKED" /\ blockObj[u] \in W => u \in S
      BY DEF SignalsInv, WaitInv, QueueMembership
    <3> HIDE DEF S
    <3>3. SleepsOn(u, W)
      BY <2>1, <3>1, <3>2 DEF SleepsOn
    <3> QED
      BY <3>3, PartyKept DEF StreamInv
  <2>3. CASE Block(t, q, d) /\ W = {}
    <3>1. state'[u] = state[u] /\ blockObj'[u] = blockObj[u]
      BY <1>3, <2>3 DEF Block, SignalsInv, WaitInv, WaitTypeOK
    <3>2. SleepsOn(u, W)
      BY <2>1, <2>3, <3>1 DEF SleepsOn
    <3> QED
      BY <3>2, PartyKept DEF StreamInv
  <2> QED
    BY <2>2, <2>3
<1> QED
  BY <1>1, <1>2, <1>3 DEF StreamInv

(* What the application sends.                                             *)
LEMMA DataAre ==
    ASSUME SignalsAssumption, NEW d \in Data
    PROVE  d \in Seq(Bytes) /\ Len(d) \in Nat /\ Len(d) < Place[PrefixLen]
<1>1. StreamAssumption /\ PrefixLen \in 0..PrefixLen
  <2>1. StreamAssumption
    BY DEF SignalsAssumption
  <2>2. PrefixLen \in Nat
    BY <2>1 DEF StreamAssumption
  <2> QED
    BY <2>1, <2>2
<1>2. Place[PrefixLen] \in Nat
  BY <1>1, PlaceIs
<1>3. d \in Seq(Bytes) /\ Len(d) \in 1..(Place[PrefixLen] - 1)
  BY <1>1 DEF StreamAssumption, Bytes
<1> QED
  BY <1>2, <1>3

LEMMA PendingIs ==
    ASSUME StreamInv, NEW t \in Tasks
    PROVE  pend[t].data \in Seq(Bytes) /\ Len(pend[t].data) < Place[PrefixLen] /\ pend[t].room \in 0..MaxRoom
BY DEF StreamInv, PendOK

(* cgrtos_stream_buffer_create, reset, delete                              *)
LEMMA LifeKeeps ==
    ASSUME SignalsAssumption, SignalsInv, StreamInv, NEW t \in Tasks, NEW b \in Buffers,
           \/ StreamReset(t, b) \/ StreamDelete(t, b)
           \/ \E n \in Sizes, trig \in Triggers : StreamCreate(t, b, n, trig)
    PROVE  StreamInv'
<1>1. StreamAssumption /\ DataInv /\ DataTypes /\ UNCHANGED pend
  BY DEF SignalsAssumption, StreamInv, DataInv, StreamReset, StreamDelete, StreamCreate
<1>2. PendOK'
  BY <1>1 DEF StreamInv, PendOK
<1>3. /\ size[b] \in 0..MaxSize /\ size[b] \in Nat /\ trigger[b] \in Nat
      /\ bytes[b] \in Memory /\ avail[b] \in Nat
      /\ size[b] = 0 => avail[b] = 0 /\ sbHead[b] = 0 /\ sbTail[b] = 0 /\ sent[b] = << >>
      /\ size[b] > 0 => trigger[b] > 0 /\ (b \in Messages => trigger[b] = 1)
  BY <1>1, BufferFacts
<1>4. << >> \in Seq(Seq(Bytes)) /\ 0 \in Nat /\ 0 \in 0..MaxSize /\ ~(0 > 0)
  <2>1. PICK M \in Nat \ {0} : M = MaxSize
    BY <1>1, SizesAre
  <2>2. 0 \in 0..M /\ ~(0 > 0)
    OBVIOUS
  <2>3. << >> \in Seq(Seq(Bytes)) /\ 0 \in Nat
    OBVIOUS
  <2> QED
    BY <2>1, <2>2, <2>3, Zenon
<1>5. [i \in 0..(MaxSize - 1) |-> 0] \in Memory
  <2>1. 0 \in Bytes
    BY <1>1 DEF StreamAssumption, Bytes
  <2> QED
    BY <2>1 DEF Memory
<1>6. CASE StreamReset(t, b)
  <2>1. PICK sz, trig, mem : sz = size[b] /\ trig = trigger[b] /\ mem = bytes[b]
    OBVIOUS
  <2>2. /\ sz \in 0..MaxSize /\ sz \in Nat /\ trig \in Nat /\ mem \in Memory
        /\ sz > 0 => trig > 0 /\ (b \in Messages => trig = 1)
    BY <1>3, <2>1
  <2>3. BufferOK(b, sz, trig, 0, 0, 0, mem, << >>)
    BY <1>1, <2>2, BufferEmpty
  <2>4. /\ size' = [size EXCEPT ![b] = sz] /\ trigger' = [trigger EXCEPT ![b] = trig]
        /\ bytes' = [bytes EXCEPT ![b] = mem]
    BY <1>1, <1>6, <2>1 DEF StreamReset, DataTypes
  <2>5. /\ sbHead' = [sbHead EXCEPT ![b] = 0] /\ sbTail' = [sbTail EXCEPT ![b] = 0]
        /\ avail' = [avail EXCEPT ![b] = 0] /\ sent' = [sent EXCEPT ![b] = << >>]
    BY <1>6 DEF StreamReset
  <2>6. DataInv'
    BY <1>1, <1>4, <2>2, <2>3, <2>4, <2>5, OneBuffer
  <2>7. ASSUME NEW x \in Buffers PROVE Calm(x, {})
    <3>1. avail[x] \in Nat /\ size[x] \in Nat
      BY <1>1, BufferFacts
    <3>2. avail'[x] = IF x = b THEN 0 ELSE avail[x]
      BY <1>1, <2>5 DEF DataTypes
    <3>3. x = b => x \in Resettable
      BY <1>6 DEF StreamReset
    <3>4. UNCHANGED <<size, trigger>>
      BY <1>6 DEF StreamReset
    <3> QED
      BY <3>1, <3>2, <3>3, <3>4 DEF Calm
  <2>8. ASSUME NEW u \in Tasks PROVE SleepsOn(u, {})
    BY <1>6 DEF SleepsOn, StreamReset, waitVars, blockVars
  <2>9. ASSUME NEW u \in Tasks PROVE Party(u)'
    BY <2>6, <2>7, <2>8, PartyKept DEF StreamInv
  <2> QED
    BY <1>2, <2>6, <2>9 DEF StreamInv
<1>7. CASE StreamDelete(t, b)
  <2>1. PICK mem : mem = [i \in 0..(MaxSize - 1) |-> 0]
    OBVIOUS
  <2>2. BufferOK(b, 0, 0, 0, 0, 0, mem, << >>)
    <3>1. PICK z \in 0..MaxSize : z = 0 /\ z \in Nat /\ ~(z > 0)
      BY <1>4
    <3>2. BufferOK(b, z, z, 0, 0, 0, mem, << >>)
      BY <1>1, <3>1, BufferEmpty
    <3> QED
      BY <3>1, <3>2, Zenon
  <2>3. bytes' = [bytes EXCEPT ![b] = mem]
    BY <1>3, <1>7, <2>1 DEF StreamDelete, Memory
  <2>4. /\ size' = [size EXCEPT ![b] = 0] /\ trigger' = [trigger EXCEPT ![b] = 0]
        /\ sbHead' = [sbHead EXCEPT ![b] = 0] /\ sbTail' = [sbTail EXCEPT ![b] = 0]
        /\ avail' = [avail EXCEPT ![b] = 0] /\ sent' = [sent EXCEPT ![b] = << >>]
    BY <1>7 DEF StreamDelete
  <2>5. mem \in Memory
    BY <1>5, <2>1
  <2>6. DataInv'
    BY <1>1, <1>4, <2>2, <2>3, <2>4, <2>5, OneBuffer
  <2> DEFINE W == {ReadQ(b), WriteQ(b)}
  <2>7. ASSUME NEW x \in Buffers PROVE Calm(x, W)
    <3>1. avail[x] \in Nat /\ size[x] \in Nat
      BY <1>1, BufferFacts
    <3>2. x # b => avail'[x] = avail[x] /\ size'[x] = size[x] /\ trigger'[x] = trigger[x]
      BY <1>1, <2>4 DEF DataTypes
    <3> QED
      BY <3>1, <3>2 DEF Calm
  <2>8. ASSUME NEW u \in Tasks PROVE SleepsOn(u, W)
    <3> DEFINE S == {w \in Tasks : \E q \in W : InList(waitq[q], w)}
    <3>1. Unblock(S, FALSE)
      BY <1>7 DEF StreamDelete
    <3>2. W \in SUBSET Queues
      BY BufferQueues
    <3>3. state[u] = "BLOCKED" /\ blockObj[u] \in W => u \in S
      BY <3>2 DEF SignalsInv, WaitInv, QueueMembership
    <3> HIDE DEF S, W
    <3>4. state'[u] = "BLOCKED" => state[u] = "BLOCKED" /\ blockObj'[u] = blockObj[u] /\ u \notin S
      BY <3>1 DEF Unblock, Wake
    <3> QED
      BY <1>1, <3>3, <3>4 DEF SleepsOn
  <2> HIDE DEF W
  <2>9. ASSUME NEW u \in Tasks PROVE Party(u)'
    <3>1. PICK V : V = W
      OBVIOUS
    <3>2. SleepsOn(u, V) /\ \A x \in Buffers : Calm(x, V)
      BY <2>7, <2>8, <3>1
    <3> QED
      BY <2>6, <3>2, PartyKept DEF StreamInv
  <2> QED
    BY <1>2, <2>6, <2>9 DEF StreamInv
<1>8. ASSUME NEW n \in Sizes, NEW g \in Triggers, StreamCreate(t, b, n, g)
      PROVE  StreamInv'
  <2>1. PICK trig, mem : /\ trig = (IF b \in Messages THEN 1 ELSE g)
                         /\ mem = [i \in 0..(MaxSize - 1) |-> 0]
    OBVIOUS
  <2>2. /\ n \in 0..MaxSize /\ n \in Nat /\ trig \in Nat
        /\ n > 0 => trig > 0 /\ (b \in Messages => trig = 1)
    <3>1. n \in 1..MaxSize /\ MaxSize \in Nat
      BY <1>1, SizesAre
    <3>2. g \in Nat \ {0}
      BY <1>1 DEF StreamAssumption
    <3> QED
      BY <1>8, <2>1, <3>1, <3>2
  <2>3. BufferOK(b, n, trig, 0, 0, 0, mem, << >>)
    BY <1>1, <2>2, BufferEmpty
  <2>4. size[b] = 0 /\ size' = [size EXCEPT ![b] = n] /\ trigger' = [trigger EXCEPT ![b] = trig]
    BY <1>8, <2>1 DEF StreamCreate
  <2>5. bytes' = [bytes EXCEPT ![b] = mem] /\ mem \in Memory
    BY <1>3, <1>5, <1>8, <2>1 DEF StreamCreate, Memory
  <2>6. /\ sbHead' = [sbHead EXCEPT ![b] = 0] /\ sbTail' = [sbTail EXCEPT ![b] = 0]
        /\ avail' = [avail EXCEPT ![b] = 0] /\ sent' = [sent EXCEPT ![b] = << >>]
    BY <1>1, <1>3, <1>8, <2>4 DEF StreamCreate, DataTypes
  <2>7. DataInv'
    BY <1>1, <1>4, <2>2, <2>3, <2>4, <2>5, <2>6, OneBuffer
  <2>8. ASSUME NEW x \in Buffers PROVE Calm(x, {})
    <3>1. avail[x] \in Nat /\ size[x] \in Nat
      BY <1>1, BufferFacts
    <3>2. x # b => avail'[x] = avail[x] /\ size'[x] = size[x] /\ trigger'[x] = trigger[x]
      BY <1>1, <2>4, <2>6 DEF DataTypes
    <3> QED
      BY <2>4, <3>1, <3>2 DEF Calm
  <2>9. ASSUME NEW u \in Tasks PROVE SleepsOn(u, {})
    BY <1>1, <1>8 DEF SleepsOn, StreamCreate, waitVars, blockVars
  <2>10. ASSUME NEW u \in Tasks PROVE Party(u)'
    BY <2>7, <2>8, <2>9, PartyKept DEF StreamInv
  <2> QED
    BY <1>2, <2>7, <2>10 DEF StreamInv
<1> QED
  BY <1>6, <1>7, <1>8

-----------------------------------------------------------------------------
(* cgrtos_stream_buffer_send and its form for interrupts, and the rest of  *)
(* a send that slept: as much as fits is written.                          *)
LEMMA DepositKeeps ==
    ASSUME SignalsAssumption, SignalsInv, StreamInv, NEW b \in Streams, NEW data \in Seq(Bytes),
           Deposit(b, data),
           UNCHANGED pend \/ \E t \in Tasks : Resumes(t) /\ pend' = [pend EXCEPT ![t] = Nothing]
    PROVE  StreamInv'
<1>1. StreamAssumption /\ DataInv /\ b \in Buffers
  BY DEF SignalsAssumption, StreamInv, Buffers
<1>2. PICK l \in Nat, s \in Nat : l = Len(data) /\ s = Spaces(b)
  <2>1. size[b] \in Nat /\ avail[b] \in 0..size[b]
    BY <1>1, BufferFacts
  <2>2. Spaces(b) \in Nat
    BY <2>1 DEF Spaces
  <2> QED
    BY <2>2
<1>3. PICK n : n = Lower(Len(data), Spaces(b))
  OBVIOUS
<1>4. n \in 0..Len(data) /\ n <= Spaces(b)
  BY <1>2, <1>3 DEF Lower
<1>5. /\ IF n = 0 THEN UNCHANGED ringOf ELSE Write(b, SubSeq(data, 1, n), AsFrames(SubSeq(data, 1, n)))
      /\ PopAll(ReadersWoken(b, n))
  BY <1>3, Zenon DEF Deposit
<1>6. PICK W : W = ReadersWoken(b, n)
  OBVIOUS
<1>7. DataInv' /\ \A x \in Buffers : Calm(x, W)
  BY <1>1, <1>4, <1>5, <1>6, BytesIn
<1>8. W \in SUBSET Queues /\ PopAll(W)
  BY <1>1, <1>5, <1>6, WokenQueues
<1> QED
  BY <1>7, <1>8, WakingKeeps

(* cgrtos_stream_buffer_recv, its form for interrupts, and the rest of a   *)
(* receive that slept.                                                     *)
LEMMA WithdrawKeeps ==
    ASSUME SignalsAssumption, SignalsInv, StreamInv, NEW b \in Streams, NEW room \in Nat,
           Withdraw(b, room),
           UNCHANGED pend \/ \E t \in Tasks : Resumes(t) /\ pend' = [pend EXCEPT ![t] = Nothing]
    PROVE  StreamInv'
<1>1. StreamAssumption /\ DataInv /\ b \in Buffers
  BY DEF SignalsAssumption, StreamInv, Buffers
<1>2. avail[b] \in Nat
  BY <1>1, BufferFacts
<1>3. PICK n : n = Lower(avail[b], room)
  OBVIOUS
<1>4. n \in Nat /\ n <= avail[b]
  BY <1>2, <1>3 DEF Lower
<1>5. (IF n = 0 THEN UNCHANGED ringOf ELSE Read(b, n, n)) /\ PopAll(WritersWoken(b, n))
  BY <1>3, Zenon DEF Withdraw
<1>6. PICK W : W = WritersWoken(b, n)
  OBVIOUS
<1>7. DataInv' /\ \A x \in Buffers : Calm(x, W)
  BY <1>1, <1>4, <1>5, <1>6, BytesOut
<1>8. W \in SUBSET Queues /\ PopAll(W)
  BY <1>1, <1>5, <1>6, WokenQueues
<1> QED
  BY <1>7, <1>8, WakingKeeps

(* cgrtos_message_buffer_send in its three forms                           *)
LEMMA DepositMessageKeeps ==
    ASSUME SignalsAssumption, SignalsInv, StreamInv, NEW b \in Messages, NEW m \in Seq(Bytes),
           Len(m) < Place[PrefixLen], Fits(b, m), DepositMessage(b, m),
           UNCHANGED pend \/ \E t \in Tasks : Resumes(t) /\ pend' = [pend EXCEPT ![t] = Nothing]
    PROVE  StreamInv'
<1>1. StreamAssumption /\ DataInv /\ b \in Buffers
  BY DEF SignalsAssumption, StreamInv, Buffers
<1>2. Write(b, Frame(m), <<m>>) /\ PopAll(ReadersWoken(b, Need(m)))
  BY DEF DepositMessage
<1>3. PICK W : W = ReadersWoken(b, Need(m))
  OBVIOUS
<1>4. DataInv' /\ \A x \in Buffers : Calm(x, W)
  BY <1>1, <1>2, <1>3, MessageIn
<1>5. W \in SUBSET Queues /\ PopAll(W)
  BY <1>1, <1>2, <1>3, WokenQueues
<1> QED
  BY <1>4, <1>5, WakingKeeps

(* cgrtos_message_buffer_recv in its three forms                           *)
LEMMA WithdrawMessageKeeps ==
    ASSUME SignalsAssumption, SignalsInv, StreamInv, NEW b \in Messages,
           Complete(b), WithdrawMessage(b),
           UNCHANGED pend \/ \E t \in Tasks : Resumes(t) /\ pend' = [pend EXCEPT ![t] = Nothing]
    PROVE  StreamInv'
<1>1. StreamAssumption /\ DataInv /\ b \in Buffers
  BY DEF SignalsAssumption, StreamInv, Buffers
<1>2. Read(b, PrefixLen + LengthAtTail(b), 1) /\ PopAll(WritersWoken(b, PrefixLen + LengthAtTail(b)))
  BY DEF WithdrawMessage
<1>3. PICK W : W = WritersWoken(b, PrefixLen + LengthAtTail(b))
  OBVIOUS
<1>4. DataInv' /\ \A x \in Buffers : Calm(x, W)
  BY <1>1, <1>2, <1>3, MessageOut
<1>5. W \in SUBSET Queues /\ PopAll(W)
  BY <1>1, <1>2, <1>3, WokenQueues
<1> QED
  BY <1>4, <1>5, WakingKeeps

(* A call that slept gives up.                                             *)
LEMMA NothingDone ==
    ASSUME SignalsAssumption, SignalsInv, StreamInv, LeavesQueues, UNCHANGED ringOf,
           NEW t \in Tasks, Resumes(t), pend' = [pend EXCEPT ![t] = Nothing]
    PROVE  StreamInv'
<1>1. StreamAssumption /\ DataInv
  BY DEF SignalsAssumption, StreamInv
<1>2. PICK W \in SUBSET Queues : W = {}
  OBVIOUS
<1>3. DataInv' /\ \A x \in Buffers : Calm(x, W)
  BY <1>1, <1>2, DataStays
<1> QED
  BY <1>2, <1>3, WakingKeeps

(* cgrtos_stream_buffer_send that fills the ring and sleeps                *)
LEMMA StreamSendSleeps ==
    ASSUME SignalsAssumption, SignalsInv, StreamInv, NEW t \in Tasks, NEW b \in Buffers,
           NEW data \in Data, NEW d, StreamSendBlocks(t, b, data, d)
    PROVE  StreamInv'
<1>1. StreamAssumption /\ DataInv
  BY DEF SignalsAssumption, StreamInv
<1>2. /\ Executing(t) /\ b \in Streams /\ size[b] > 0 /\ Len(data) > Spaces(b)
      /\ PopAllAndBlock(ReadersWoken(b, Spaces(b)), t, WriteQ(b), d)
      /\ pend' = [pend EXCEPT ![t] = [data |-> SubSeq(data, Spaces(b) + 1, Len(data)), room |-> 0]]
      /\ IF Spaces(b) = 0 THEN UNCHANGED ringOf
         ELSE Write(b, SubSeq(data, 1, Spaces(b)), AsFrames(SubSeq(data, 1, Spaces(b))))
  BY DEF StreamSendBlocks
<1>3. data \in Seq(Bytes) /\ Len(data) \in Nat /\ Len(data) < Place[PrefixLen]
  BY DataAre
<1>4. size[b] \in Nat /\ avail[b] \in 0..size[b]
  BY <1>1, BufferFacts
<1>5. PICK n : n = Spaces(b)
  OBVIOUS
<1>6. n \in 0..Len(data) /\ n <= Spaces(b) /\ n \in Nat
  BY <1>2, <1>3, <1>4, <1>5 DEF Spaces
<1>7. PICK W, q : W = ReadersWoken(b, n) /\ q = WriteQ(b)
  OBVIOUS
<1>8. /\ DataInv' /\ \A x \in Buffers : Calm(x, W)
      /\ size' = size /\ avail'[b] = avail[b] + n
  <2>1. IF n = 0 THEN UNCHANGED ringOf ELSE Write(b, SubSeq(data, 1, n), AsFrames(SubSeq(data, 1, n)))
    BY <1>2, <1>5, Zenon
  <2> QED
    BY <1>1, <1>2, <1>3, <1>6, <1>7, <2>1, BytesIn
<1>9. W \in SUBSET Queues /\ q \in Queues /\ PopAllAndBlock(W, t, q, d)
  <2>1. ReadersWoken(b, n) \in SUBSET Queues /\ WriteQ(b) \in Queues
    BY WokenQueues, BufferQueues
  <2> QED
    BY <1>2, <1>5, <1>7, <2>1, Zenon
<1>10. PICK rest : rest = SubSeq(data, n + 1, Len(data))
  OBVIOUS
<1>11. rest \in Seq(Bytes) /\ Len(rest) < Place[PrefixLen]
  <2>1. PICK l \in Nat : l = Len(data) /\ l < Place[PrefixLen]
    BY <1>3
  <2>2. n + 1 \in Int /\ l \in Int /\ \A i \in (n + 1)..l : data[i] \in Bytes
    BY <1>3, <1>6, <2>1
  <2>3. /\ SubSeq(data, n + 1, l) \in Seq(Bytes)
        /\ Len(SubSeq(data, n + 1, l)) = IF n + 1 <= l THEN l - (n + 1) + 1 ELSE 0
    BY <2>2, SubSeqProperties
  <2>4. Place[PrefixLen] \in Nat
    BY <1>1, PlaceIs DEF StreamAssumption
  <2>5. Len(rest) <= l /\ Len(rest) \in Nat
    BY <1>6, <1>10, <2>1, <2>3
  <2> QED
    BY <1>10, <2>1, <2>3, <2>4, <2>5
<1>12. pend' = [pend EXCEPT ![t] = [data |-> rest, room |-> 0]]
  BY <1>2, <1>5, <1>10, Zenon
<1>13. blockObj'[t] = q => Party(t)'
  <2>1. Spaces(b)' = 0 /\ size'[b] # 0
    BY <1>2, <1>4, <1>5, <1>8 DEF Spaces
  <2>2. blockObj'[t] = q => blockObj'[t] = WriteQ(b)
    BY <1>7
  <2> QED
    BY <1>2, <2>1, <2>2, WriterIs
<1>14. 0 \in 0..MaxRoom
  BY <1>1 DEF StreamAssumption
<1> QED
  BY <1>2, <1>8, <1>9, <1>11, <1>12, <1>13, <1>14, SleepingKeeps

(* cgrtos_message_buffer_send without room, and the receives without data  *)
LEMMA BlockingKeeps ==
    ASSUME SignalsAssumption, SignalsInv, StreamInv, NEW t \in Tasks, Executing(t),
           NEW q \in Queues, NEW d, Block(t, q, d), UNCHANGED ringOf,
           NEW data \in Seq(Bytes), Len(data) < Place[PrefixLen], NEW room \in 0..MaxRoom,
           pend' = [pend EXCEPT ![t] = [data |-> data, room |-> room]],
           blockObj'[t] = q => Party(t)'
    PROVE  StreamInv'
<1>1. StreamAssumption /\ DataInv
  BY DEF SignalsAssumption, StreamInv
<1>2. PICK W \in SUBSET Queues : W = {}
  OBVIOUS
<1>3. DataInv' /\ \A x \in Buffers : Calm(x, W)
  BY <1>1, <1>2, DataStays
<1> QED
  BY <1>2, <1>3, SleepingKeeps

LEMMA MessageSendSleeps ==
    ASSUME SignalsAssumption, SignalsInv, StreamInv, NEW t \in Tasks, NEW b \in Buffers,
           NEW m \in Data, NEW d, MessageSendBlocks(t, b, m, d)
    PROVE  StreamInv'
<1>1. StreamAssumption /\ DataInv
  BY DEF SignalsAssumption, StreamInv
<1>2. /\ Executing(t) /\ b \in Messages /\ Need(m) <= size[b] /\ ~Fits(b, m)
      /\ Block(t, WriteQ(b), d) /\ UNCHANGED ringOf
      /\ pend' = [pend EXCEPT ![t] = [data |-> m, room |-> 0]]
  BY DEF MessageSendBlocks
<1>3. m \in Seq(Bytes) /\ Len(m) \in Nat /\ Len(m) < Place[PrefixLen]
  BY DataAre
<1>4. PICK q \in Queues : q = WriteQ(b)
  BY BufferQueues
<1>5. blockObj'[t] = q => Party(t)'
  <2>1. size' = size /\ avail' = avail
    BY <1>2 DEF ringOf
  <2>2. pend'[t].data = m
    <3>1. PICK p : p = [data |-> m, room |-> 0]
      OBVIOUS
    <3>2. p.data = m
      BY <3>1
    <3>3. pend'[t] = p
      BY <1>2, <3>1 DEF StreamInv, PendOK
    <3> QED
      BY <3>2, <3>3
  <2>3. ~Fits(b, pend[t].data)'
    BY <1>2, <2>1, <2>2, Zenon DEF Fits, Spaces
  <2>4. size'[b] # 0
    <3>1. Need(m) \in Nat \ {0}
      BY <1>1, <1>3 DEF Need, StreamAssumption
    <3>2. size[b] \in Nat
      BY <1>1, BufferFacts
    <3> QED
      BY <1>2, <2>1, <3>1, <3>2
  <2>5. b \notin Streams
    BY <1>1, <1>2 DEF StreamAssumption
  <2>6. Need(pend[t].data)' <= size'[b]
    BY <1>2, <2>1, <2>2, Zenon
  <2> QED
    BY <1>4, <2>3, <2>4, <2>5, <2>6, WriterIs
<1>6. 0 \in 0..MaxRoom
  BY <1>1 DEF StreamAssumption
<1>7. Block(t, q, d)
  BY <1>2, <1>4
<1> QED
  BY <1>2, <1>3, <1>5, <1>6, <1>7, BlockingKeeps

LEMMA ReceiverSleeps ==
    ASSUME SignalsAssumption, SignalsInv, StreamInv, NEW t \in Tasks, NEW b \in Buffers,
           NEW room \in 1..MaxRoom, NEW d,
           StreamRecvBlocks(t, b, room, d) \/ MessageRecvBlocks(t, b, room, d)
    PROVE  StreamInv'
<1>1. StreamAssumption /\ DataInv
  BY DEF SignalsAssumption, StreamInv
<1>2. /\ Executing(t) /\ size[b] > 0 /\ Block(t, ReadQ(b), d) /\ UNCHANGED ringOf
      /\ pend' = [pend EXCEPT ![t] = [data |-> << >>, room |-> room]]
      /\ \/ b \in Streams /\ avail[b] < trigger[b]
         \/ b \in Messages /\ ~Complete(b)
  BY DEF StreamRecvBlocks, MessageRecvBlocks
<1>3. PICK q \in Queues : q = ReadQ(b)
  BY BufferQueues
<1>4. IF b \in Streams THEN avail'[b] < trigger'[b] ELSE avail'[b] = 0
  <2>1. avail' = avail /\ trigger' = trigger
    BY <1>2 DEF ringOf
  <2>2. avail[b] \in Nat
    BY <1>1, BufferFacts
  <2>3. CASE b \in Streams
    BY <1>1, <1>2, <2>1, <2>3 DEF StreamAssumption
  <2>4. CASE b \notin Streams
    <3>1. b \in Messages /\ ~Complete(b)
      BY <1>2, <2>4
    <3>2. ~(avail[b] > 0)
      BY <1>1, <3>1, CompleteIs
    <3> QED
      BY <2>1, <2>2, <2>4, <3>2
  <2> QED
    BY <2>3, <2>4
<1>5. blockObj'[t] = q => Party(t)'
  <2>1. size'[b] # 0
    BY <1>1, <1>2, BufferFacts DEF ringOf
  <2> QED
    BY <1>3, <1>4, <2>1, ReaderIs
<1>6. << >> \in Seq(Bytes) /\ Len(<< >>) < Place[PrefixLen] /\ room \in 0..MaxRoom
  <2>1. 0 < Place[PrefixLen]
    BY <1>1, PlaceIs DEF StreamAssumption
  <2>2. room \in 0..MaxRoom
    BY <1>1 DEF StreamAssumption
  <2> QED
    BY <2>1, <2>2
<1>7. Block(t, q, d)
  BY <1>2, <1>3
<1>8. PICK no : no = << >>
  OBVIOUS
<1>9. /\ no \in Seq(Bytes) /\ Len(no) < Place[PrefixLen]
      /\ pend' = [pend EXCEPT ![t] = [data |-> no, room |-> room]]
  BY <1>2, <1>6, <1>8, Zenon
<1> QED
  BY <1>2, <1>5, <1>6, <1>7, <1>9, BlockingKeeps

(* Every operation on a stream or message buffer.                          *)
LEMMA SendKeeps ==
    ASSUME SignalsAssumption, SignalsInv, StreamInv, NEW b \in Buffers, NEW data \in Data,
           StreamSendFromIsr(b, data) \/ MessageSendFromIsr(b, data)
    PROVE  StreamInv'
<1>1. data \in Seq(Bytes) /\ Len(data) < Place[PrefixLen]
  BY DataAre
<1>2. CASE StreamSendFromIsr(b, data)
  <2>1. b \in Streams /\ Deposit(b, data) /\ UNCHANGED pend
    BY <1>2 DEF StreamSendFromIsr, NoWait
  <2> QED
    BY <1>1, <2>1, DepositKeeps
<1>3. CASE MessageSendFromIsr(b, data)
  <2>1. b \in Messages /\ Fits(b, data) /\ DepositMessage(b, data) /\ UNCHANGED pend
    BY <1>3 DEF MessageSendFromIsr, NoWait
  <2> QED
    BY <1>1, <2>1, DepositMessageKeeps
<1> QED
  BY <1>2, <1>3

LEMMA RecvKeeps ==
    ASSUME SignalsAssumption, SignalsInv, StreamInv, NEW b \in Buffers, NEW room \in 1..MaxRoom,
           StreamRecvFromIsr(b, room) \/ MessageRecvFromIsr(b, room)
    PROVE  StreamInv'
<1>1. CASE StreamRecvFromIsr(b, room)
  <2>1. b \in Streams /\ Withdraw(b, room) /\ UNCHANGED pend /\ room \in Nat
    BY <1>1 DEF StreamRecvFromIsr, NoWait
  <2> QED
    BY <2>1, WithdrawKeeps
<1>2. CASE MessageRecvFromIsr(b, room)
  <2>1. b \in Messages /\ Complete(b) /\ WithdrawMessage(b) /\ UNCHANGED pend
    BY <1>2 DEF MessageRecvFromIsr, NoWait
  <2> QED
    BY <2>1, WithdrawMessageKeeps
<1> QED
  BY <1>1, <1>2

LEMMA SendReturnKeeps ==
    ASSUME SignalsAssumption, SignalsInv, StreamInv, NEW t \in Tasks,
           StreamSendReturns(t) \/ MessageSendReturns(t)
    PROVE  StreamInv'
<1>1. Resumes(t) /\ pend' = [pend EXCEPT ![t] = Nothing]
  BY DEF StreamSendReturns, MessageSendReturns, CallEnds
<1>2. PICK data : data = pend[t].data
  OBVIOUS
<1>3. data \in Seq(Bytes) /\ Len(data) < Place[PrefixLen]
  BY <1>2, PendingIs
<1>4. CASE LeavesQueues /\ UNCHANGED ringOf
  BY <1>1, <1>4, NothingDone
<1>5. CASE \E b \in Streams : Deposit(b, pend[t].data)
  <2>1. PICK b \in Streams : Deposit(b, data)
    BY <1>2, <1>5
  <2> QED
    BY <1>1, <1>3, <2>1, DepositKeeps
<1>6. CASE \E b \in Messages : Fits(b, pend[t].data) /\ DepositMessage(b, pend[t].data)
  <2>1. PICK b \in Messages : Fits(b, data) /\ DepositMessage(b, data)
    BY <1>2, <1>6
  <2> QED
    BY <1>1, <1>3, <2>1, DepositMessageKeeps
<1> QED
  BY <1>4, <1>5, <1>6 DEF StreamSendReturns, MessageSendReturns

LEMMA RecvReturnKeeps ==
    ASSUME SignalsAssumption, SignalsInv, StreamInv, NEW t \in Tasks,
           StreamRecvReturns(t) \/ MessageRecvReturns(t)
    PROVE  StreamInv'
<1>1. Resumes(t) /\ pend' = [pend EXCEPT ![t] = Nothing]
  BY DEF StreamRecvReturns, MessageRecvReturns, CallEnds
<1>2. PICK room : room = pend[t].room
  OBVIOUS
<1>3. room \in Nat
  BY <1>2, PendingIs
<1>4. CASE LeavesQueues /\ UNCHANGED ringOf
  BY <1>1, <1>4, NothingDone
<1>5. CASE \E b \in Streams : Withdraw(b, pend[t].room)
  <2>1. PICK b \in Streams : Withdraw(b, room)
    BY <1>2, <1>5
  <2> QED
    BY <1>1, <1>3, <2>1, WithdrawKeeps
<1>6. CASE \E b \in Messages : Complete(b) /\ WithdrawMessage(b)
  <2>1. PICK b \in Messages : Complete(b) /\ WithdrawMessage(b)
    BY <1>6
  <2> QED
    BY <1>1, <2>1, WithdrawMessageKeeps
<1> QED
  BY <1>4, <1>5, <1>6 DEF StreamRecvReturns, MessageRecvReturns

LEMMA StreamStepKeeps ==
    ASSUME SignalsAssumption, SignalsInv, StreamInv, StreamStep
    PROVE  StreamInv'
<1>1. ASSUME NEW t \in Tasks, NEW b \in Buffers,
             \/ StreamReset(t, b) \/ StreamDelete(t, b)
             \/ \E n \in Sizes, trig \in Triggers : StreamCreate(t, b, n, trig)
      PROVE  StreamInv'
  BY <1>1, LifeKeeps
<1>2. ASSUME NEW b \in Buffers, NEW d \in Data,
             \/ StreamSendFromIsr(b, d) \/ MessageSendFromIsr(b, d)
             \/ \E t \in Tasks : StreamSend(t, b, d) \/ MessageSend(t, b, d)
      PROVE  StreamInv'
  BY <1>2, SendKeeps DEF StreamSend, MessageSend
<1>3. ASSUME NEW b \in Buffers, NEW room \in 1..MaxRoom,
             \/ StreamRecvFromIsr(b, room) \/ MessageRecvFromIsr(b, room)
             \/ \E t \in Tasks : StreamRecv(t, b, room) \/ MessageRecv(t, b, room)
      PROVE  StreamInv'
  BY <1>3, RecvKeeps DEF StreamRecv, MessageRecv
<1>4. ASSUME NEW t \in Tasks, NEW b \in Buffers, NEW d \in Data, NEW o \in Timeouts,
             StreamSendBlocks(t, b, d, o) \/ MessageSendBlocks(t, b, d, o)
      PROVE  StreamInv'
  BY <1>4, StreamSendSleeps, MessageSendSleeps
<1>5. ASSUME NEW t \in Tasks, NEW b \in Buffers, NEW room \in 1..MaxRoom, NEW o \in Timeouts,
             StreamRecvBlocks(t, b, room, o) \/ MessageRecvBlocks(t, b, room, o)
      PROVE  StreamInv'
  BY <1>5, ReceiverSleeps
<1>6. ASSUME NEW t \in Tasks,
             \/ StreamSendReturns(t) \/ StreamRecvReturns(t)
             \/ MessageSendReturns(t) \/ MessageRecvReturns(t)
      PROVE  StreamInv'
  BY <1>6, SendReturnKeeps, RecvReturnKeeps
<1> QED
  BY <1>1, <1>2, <1>3, <1>4, <1>5, <1>6, Zenon DEF StreamStep

-----------------------------------------------------------------------------
(* The steps of the other families and of the core put nobody to sleep on  *)
(* a buffer and touch no ring.                                             *)
Elsewhere(u) ==
    state'[u] = "BLOCKED" =>
        \/ state[u] = "BLOCKED" /\ blockObj'[u] = blockObj[u] /\ pend'[u] = pend[u]
        \/ \A b \in Buffers : blockObj'[u] # ReadQ(b) /\ blockObj'[u] # WriteQ(b)

LEMMA QuietKeeps ==
    ASSUME SignalsAssumption, StreamInv, UNCHANGED ringOf, PendOK', \A u \in Tasks : Elsewhere(u)
    PROVE  StreamInv'
<1>1. StreamAssumption /\ DataInv /\ PendOK
  BY DEF SignalsAssumption, StreamInv
<1>2. PICK W : W = {}
  OBVIOUS
<1>3. DataInv' /\ \A x \in Buffers : Calm(x, W)
  BY <1>1, <1>2, DataStays
<1>4. ASSUME NEW u \in Tasks PROVE Party(u)'
  <2>1. CASE SleepsOn(u, W)
    BY <1>1, <1>3, <2>1, PartyKept DEF StreamInv
  <2>2. CASE ~SleepsOn(u, W)
    <3>1. \A b \in Buffers : blockObj'[u] # ReadQ(b) /\ blockObj'[u] # WriteQ(b)
      BY <1>2, <2>2 DEF Elsewhere, SleepsOn
    <3> QED
      BY <3>1 DEF Party
  <2> QED
    BY <2>1, <2>2
<1> QED
  BY <1>3, <1>4 DEF StreamInv

LEMMA CalmKeeps ==
    ASSUME SignalsAssumption, StreamInv, UNCHANGED streamVars,
           \A u \in Tasks : state'[u] = "BLOCKED" =>
              \/ state[u] = "BLOCKED" /\ blockObj'[u] = blockObj[u]
              \/ blockObj'[u] \in Groups \cup {NoQueue}
    PROVE  StreamInv'
<1>1. UNCHANGED ringOf /\ pend' = pend
  BY DEF streamVars, ringOf
<1>2. PendOK'
  BY <1>1 DEF StreamInv, PendOK
<1>3. ASSUME NEW u \in Tasks PROVE Elsewhere(u)
  BY <1>1, BufferQueues DEF Elsewhere
<1> QED
  BY <1>1, <1>2, <1>3, QuietKeeps

LEMMA EventCalm ==
    ASSUME SignalsInv, EventStep, NEW u \in Tasks, state'[u] = "BLOCKED"
    PROVE  \/ state[u] = "BLOCKED" /\ blockObj'[u] = blockObj[u]
           \/ blockObj'[u] \in Groups \cup {NoQueue}
<1>1. ASSUME NEW t \in Tasks, NEW g \in Groups, NEW w \in Wants, NEW d \in Timeouts,
             EventWaitBlocks(t, g, w, d)
      PROVE  \/ state[u] = "BLOCKED" /\ blockObj'[u] = blockObj[u]
             \/ blockObj'[u] \in Groups
  BY <1>1 DEF EventWaitBlocks, Block, SignalsInv, WaitInv, WaitTypeOK
<1>2. ASSUME NEW S, NEW ok, Unblock(S, ok) PROVE state[u] = "BLOCKED" /\ blockObj'[u] = blockObj[u]
  BY <1>2 DEF Unblock, Wake
<1>3. ASSUME NEW g, NEW m, Raise(g, m) PROVE state[u] = "BLOCKED" /\ blockObj'[u] = blockObj[u]
  BY <1>2, <1>3 DEF Raise
<1>4. ASSUME NEW t \in Tasks, NEW g \in Groups, EventCreate(t, g) \/ EventDelete(t, g)
      PROVE  state[u] = "BLOCKED" /\ blockObj'[u] = blockObj[u]
  BY <1>2, <1>4 DEF EventCreate, EventDelete, WakeAll
<1>5. ASSUME NEW g, NEW m, Lowered(g, m) PROVE state[u] = "BLOCKED" /\ blockObj'[u] = blockObj[u]
  BY <1>5 DEF Lowered, waitVars, blockVars
<1>6. ASSUME NEW t \in Tasks, NEW g \in Groups, NEW w \in Wants, EventWait(t, g, w)
      PROVE  state[u] = "BLOCKED" /\ blockObj'[u] = blockObj[u]
  BY <1>6 DEF EventWait, waitVars, blockVars
<1>7. ASSUME NEW t \in Tasks, EventWaitReturns(t)
      PROVE  state[u] = "BLOCKED" /\ blockObj'[u] = blockObj[u]
  BY <1>7 DEF EventWaitReturns, LeaveCall
<1> QED
  BY <1>1, <1>3, <1>4, <1>5, <1>6, <1>7
     DEF EventStep, EventSet, EventSetFromIsr, EventClear, EventClearFromIsr

LEMMA NotifyCalm ==
    ASSUME SignalsInv, NotifyStep, NEW u \in Tasks, state'[u] = "BLOCKED"
    PROVE  \/ state[u] = "BLOCKED" /\ blockObj'[u] = blockObj[u]
           \/ blockObj'[u] \in Groups \cup {NoQueue}
<1>1. ASSUME NEW t \in Tasks, NEW e, NEW x, NEW d, NotifyWaitBlocks(t, e, x, d)
      PROVE  \/ state[u] = "BLOCKED" /\ blockObj'[u] = blockObj[u]
             \/ blockObj'[u] = NoQueue
  BY <1>1 DEF NotifyWaitBlocks, Sleep, SignalsInv, WaitInv, WaitTypeOK
<1>2. ASSUME NEW t, NEW v, NEW a, Post(t, v, a)
      PROVE  state[u] = "BLOCKED" /\ blockObj'[u] = blockObj[u]
  BY <1>2 DEF Post, Unblock, Wake, blockVars
<1>3. ASSUME NEW t \in Tasks, NEW e, NEW x, NotifyWait(t, e, x) \/ NotifyPoll(t, e)
      PROVE  state[u] = "BLOCKED" /\ blockObj'[u] = blockObj[u]
  BY <1>3 DEF NotifyWait, NotifyPoll, waitVars, blockVars
<1>4. ASSUME NEW t \in Tasks, NotifyWaitReturns(t)
      PROVE  state[u] = "BLOCKED" /\ blockObj'[u] = blockObj[u]
  BY <1>4 DEF NotifyWaitReturns, LeaveCall
<1> QED
  BY <1>1, <1>2, <1>3, <1>4 DEF NotifyStep, Notify, NotifyFromIsr

LEMMA TaskCalm ==
    ASSUME SignalsInv, TaskStep, NEW u \in Tasks, state'[u] = "BLOCKED"
    PROVE  state[u] = "BLOCKED" /\ blockObj'[u] = blockObj[u]
<1> USE DEF SignalsInv, WaitInv, WaitTypeOK
<1>1. ASSUME NEW old \in Tasks \cup {NoTask}, NEW new \in Tasks \cup {NoTask}, Switch(old, new)
      PROVE  state[u] = "BLOCKED" /\ blockObj'[u] = blockObj[u]
  BY <1>1 DEF Switch
<1>2. ASSUME NEW t \in Tasks, Expire(t) PROVE state[u] = "BLOCKED" /\ blockObj'[u] = blockObj[u]
  BY <1>2 DEF Expire, Unblock, Wake
<1>3. ASSUME NEW t \in Tasks, Suspend(t) \/ Resume(t) \/ Exit(t) \/ Delete(t)
      PROVE  state[u] = "BLOCKED" /\ blockObj'[u] = blockObj[u]
  BY <1>3 DEF Suspend, Resume, Exit, Delete
<1> QED
  BY <1>1, <1>2, <1>3 DEF TaskStep

LEMMA ForgetKeeps ==
    ASSUME SignalsAssumption, SignalsInv, StreamInv, NEW t \in Tasks, Create(t), Forget(t)
    PROVE  StreamInv'
<1>1. UNCHANGED ringOf /\ pend' = [pend EXCEPT ![t] = Nothing]
  BY DEF Forget
<1>2. PICK P, no : P = [data : Seq(Bytes), room : 0..MaxRoom] /\ no = Nothing
  OBVIOUS
<1>3. no \in P /\ no.data = << >> /\ 0 < Place[PrefixLen]
  <2>1. MaxRoom \in Nat /\ StreamAssumption /\ PrefixLen \in 0..PrefixLen
    BY DEF SignalsAssumption, StreamAssumption
  <2>2. 0 < Place[PrefixLen]
    BY <2>1, PlaceIs
  <2> QED
    BY <1>2, <2>1, <2>2 DEF Nothing
<1>4. pend \in [Tasks -> P] /\ \A u \in Tasks : Len(pend[u].data) < Place[PrefixLen]
  BY <1>2 DEF StreamInv, PendOK
<1>5. pend' \in [Tasks -> P] /\ \A u \in Tasks : pend'[u] = IF u = t THEN no ELSE pend[u]
  BY <1>1, <1>2, <1>3, <1>4
<1>6. Len(no.data) < Place[PrefixLen]
  BY <1>3
<1>7. PendOK'
  BY <1>2, <1>4, <1>5, <1>6 DEF PendOK
<1>8. ASSUME NEW u \in Tasks PROVE Elsewhere(u)
  BY <1>5 DEF Elsewhere, Create, SignalsInv, WaitInv, WaitTypeOK
<1> QED
  BY <1>1, <1>7, <1>8, QuietKeeps

-----------------------------------------------------------------------------
LEMMA StreamInvInit == ASSUME SignalsAssumption, Init PROVE StreamInv
<1>1. StreamAssumption /\ StreamInit /\ WaitInit
  BY DEF SignalsAssumption, Init
<1>2. PICK mem : mem = [i \in 0..(MaxSize - 1) |-> 0]
  OBVIOUS
<1>3. PICK z \in 0..MaxSize : z = 0 /\ ~(z > 0)
  <2>1. MaxSize \in Nat
    BY <1>1, SizesAre
  <2> QED
    BY <2>1
<1>4. mem \in Memory
  <2>1. 0 \in Bytes
    BY <1>1 DEF StreamAssumption, Bytes
  <2> QED
    BY <1>2, <2>1 DEF Memory
<1>5. /\ size = [b \in Buffers |-> 0] /\ trigger = [b \in Buffers |-> 0]
      /\ sbHead = [b \in Buffers |-> 0] /\ sbTail = [b \in Buffers |-> 0]
      /\ avail = [b \in Buffers |-> 0] /\ bytes = [b \in Buffers |-> mem]
      /\ sent = [b \in Buffers |-> << >>] /\ pend = [t \in Tasks |-> Nothing]
  BY <1>1, <1>2, Zenon DEF StreamInit
<1>6. DataTypes
  <2>1. << >> \in Seq(Seq(Bytes)) /\ 0 \in Nat
    OBVIOUS
  <2> QED
    BY <1>4, <1>5, <2>1 DEF DataTypes
<1>7. ASSUME NEW b \in Buffers PROVE OK(b)
  <2>1. BufferOK(b, z, z, 0, 0, 0, mem, << >>)
    BY <1>1, <1>3, BufferEmpty
  <2>2. BufferOK(b, 0, 0, 0, 0, 0, mem, << >>)
    BY <1>3, <2>1, Zenon
  <2>3. /\ size[b] = 0 /\ trigger[b] = 0 /\ sbHead[b] = 0 /\ sbTail[b] = 0 /\ avail[b] = 0
        /\ bytes[b] = mem /\ sent[b] = << >>
    BY <1>5
  <2> QED
    BY <2>2, <2>3, Zenon DEF OK
<1>8. PendOK
  <2>1. MaxRoom \in Nat /\ PrefixLen \in 0..PrefixLen
    BY <1>1 DEF StreamAssumption
  <2>2. 0 < Place[PrefixLen]
    BY <1>1, <2>1, PlaceIs
  <2>3. PICK no : no = Nothing
    OBVIOUS
  <2>4. no \in [data : Seq(Bytes), room : 0..MaxRoom] /\ no.data = << >>
    BY <2>1, <2>3 DEF Nothing
  <2>5. Len(no.data) < Place[PrefixLen] /\ pend = [t \in Tasks |-> no]
    BY <1>5, <2>2, <2>3, <2>4
  <2> QED
    BY <2>4, <2>5 DEF PendOK
<1>9. ASSUME NEW u \in Tasks PROVE Party(u)
  BY <1>1 DEF WaitInit, Party
<1> QED
  BY <1>6, <1>7, <1>8, <1>9 DEF StreamInv, DataInv

LEMMA StreamInvStep ==
    ASSUME SignalsAssumption, SignalsInv, StreamInv, [Next]_vars
    PROVE  StreamInv'
<1>1. CASE UNCHANGED vars
  <2>1. UNCHANGED <<waitVars, streamVars>>
    BY <1>1 DEF vars
  <2>2. UNCHANGED streamVars /\ state' = state /\ blockObj' = blockObj
    BY <2>1 DEF waitVars, blockVars
  <2> QED
    BY <2>2, CalmKeeps
<1>2. CASE EventStep /\ UNCHANGED streamVars
  BY <1>2, EventCalm, CalmKeeps
<1>3. CASE NotifyStep /\ UNCHANGED streamVars
  BY <1>3, NotifyCalm, CalmKeeps
<1>4. CASE StreamStep
  BY <1>4, StreamStepKeeps
<1>5. CASE TaskStep /\ UNCHANGED streamVars
  BY <1>5, TaskCalm, CalmKeeps
<1>6. CASE \E t \in Tasks : Create(t) /\ Forget(t)
  BY <1>6, ForgetKeeps
<1>7. CASE Next
  BY <1>2, <1>3, <1>4, <1>5, <1>6, <1>7 DEF Next
<1> QED
  BY <1>1, <1>7

THEOREM StreamInvariant == ASSUME SignalsAssumption PROVE Spec => []StreamInv
<1>1. Init => StreamInv
  BY StreamInvInit
<1>2. SignalsInv /\ StreamInv /\ [Next]_vars => StreamInv'
  BY StreamInvStep
<1>3. Spec => []SignalsInv
  BY SignalsInvariant
<1> QED
  BY <1>1, <1>2, <1>3, PTL DEF Spec

(* What the invariant says of the data of one buffer.                      *)
LEMMA RingIsSent ==
    ASSUME StreamAssumption, DataInv, NEW b \in Buffers
    PROVE  [i \in 1..avail[b] |-> Cell(b, i)] = Encoded(b)
<1>1. [i \in 1..avail[b] |-> Cell(b, i)] = Ring(b)
  BY DEF Ring, RingOf, Cell
<1>2. PICK s : s = sent[b]
  OBVIOUS
<1>3. s \in Seq(Seq(Bytes)) /\ Holds(b, Ring(b), s) /\ avail[b] \in Nat
  BY <1>2, BufferFacts
<1>4. PICK ring, n : ring = Ring(b) /\ n = avail[b]
  OBVIOUS
<1>5. ring = [i \in 1..n |-> Cell(b, i)] /\ n \in Nat
  BY <1>1, <1>3, <1>4
<1>6. CASE b \in Streams
  <2>1. Len(s) = Len(ring) /\ \A i \in 1..Len(s) : s[i] = <<ring[i]>>
    BY <1>3, <1>4, <1>6 DEF Holds
  <2>2. Len(ring) = n
    BY <1>5
  <2>3. ASSUME NEW i \in 1..Len(s) PROVE Len(s[i]) = 1 /\ s[i][1] = ring[i]
    <3>1. PICK x : x = ring[i]
      OBVIOUS
    <3>2. s[i] = <<x>>
      BY <2>1, <3>1
    <3>3. Len(<<x>>) = 1 /\ <<x>>[1] = x
      OBVIOUS
    <3> QED
      BY <3>1, <3>2, <3>3
  <2>4. FlattenSeq(s) = [i \in 1..Len(s) |-> s[i][1]]
    BY <1>3, <2>3, FlatSingles
  <2>5. [i \in 1..Len(s) |-> s[i][1]] = ring
    BY <1>5, <2>1, <2>2, <2>3
  <2>6. Encoded(b) = FlattenSeq(s)
    BY <1>2, <1>6 DEF Encoded
  <2> QED
    BY <1>1, <1>4, <2>4, <2>5, <2>6, Zenon
<1>7. CASE b \notin Streams
  <2>1. ring = FlattenSeq(Framed(s))
    BY <1>3, <1>4, <1>7 DEF Holds
  <2>2. Encoded(b) = FlattenSeq(Framed(s))
    BY <1>2, <1>7 DEF Encoded, Framed
  <2> QED
    BY <1>1, <1>4, <2>1, <2>2, Zenon
<1> QED
  BY <1>6, <1>7

LEMMA StreamTyped ==
    ASSUME SignalsAssumption, StreamInv
    PROVE  StreamTypeOK
<1>1. StreamAssumption /\ DataInv /\ DataTypes /\ PendOK
  BY DEF SignalsAssumption, StreamInv, DataInv
<1>2. MaxSize \in Nat \ {0}
  BY <1>1, SizesAre
<1>3. ASSUME NEW b \in Buffers
      PROVE  /\ size[b] \in 0..MaxSize /\ trigger[b] \in Nat /\ avail[b] \in 0..size[b]
             /\ sbHead[b] \in 0..(MaxSize - 1) /\ sbTail[b] \in 0..(MaxSize - 1)
  <2>1. /\ size[b] \in 0..MaxSize /\ trigger[b] \in Nat /\ avail[b] \in 0..size[b]
        /\ sbHead[b] \in Nat /\ sbTail[b] \in Nat
        /\ size[b] = 0 => sbHead[b] = 0 /\ sbTail[b] = 0
        /\ size[b] > 0 => sbHead[b] \in 0..(size[b] - 1) /\ sbTail[b] \in 0..(size[b] - 1)
    BY <1>1, BufferFacts
  <2> QED
    BY <1>2, <2>1
<1>4. /\ size \in [Buffers -> 0..MaxSize] /\ trigger \in [Buffers -> Nat]
      /\ \A b \in Buffers : avail[b] \in 0..size[b]
      /\ sbHead \in [Buffers -> 0..(MaxSize - 1)] /\ sbTail \in [Buffers -> 0..(MaxSize - 1)]
  <2>1. /\ size \in [Buffers -> Nat] /\ trigger \in [Buffers -> Nat]
        /\ sbHead \in [Buffers -> Nat] /\ sbTail \in [Buffers -> Nat]
    BY <1>1 DEF DataTypes
  <2> QED
    BY <1>3, <2>1
<1>5. bytes \in [Buffers -> [0..(MaxSize - 1) -> 0..(Base - 1)]]
  BY <1>1, Zenon DEF DataTypes, Memory, Bytes
<1>6. \A t \in Tasks : pend[t].data \in Seq(0..(Base - 1)) /\ pend[t].room \in 0..MaxRoom
  BY <1>1, PendingIs DEF Bytes
<1> QED
  BY <1>4, <1>5, <1>6 DEF StreamTypeOK

(* The ring holds what was sent and not received, byte for byte, in every  *)
(* buffer: no message is torn, joined to the next or overwritten, whatever *)
(* the sizes, the lengths, the wrapping of the indices and the sleeps and  *)
(* time-outs in between (sb_write_bytes, sb_read_bytes and their callers). *)
THEOREM BytesKept == Spec => []RingHoldsSent
<1>1. SignalsAssumption /\ StreamAssumption
  BY WaitAssumption, EventAssumption, NotifyAssumption, StreamAssumption, FamilyAssumption
     DEF SignalsAssumption
<1>2. StreamInv => RingHoldsSent
  BY <1>1, RingIsSent, StreamTyped DEF RingHoldsSent, StreamInv
<1> QED
  BY <1>1, <1>2, StreamInvariant, PTL

(* A reader and a writer that both sleep: an empty ring has room for any   *)
(* message that may wait, and a full one holds more than most triggers ask *)
(* for.                                                                    *)
LEMMA BothSides ==
    ASSUME SignalsAssumption, StreamInv, NEW t \in Tasks, NEW u \in Tasks,
           NEW b \in Buffers \ Resettable,
           state[t] = "BLOCKED", blockObj[t] = ReadQ(b), state[u] = "BLOCKED", blockObj[u] = WriteQ(b)
    PROVE  b \in Streams /\ trigger[b] > size[b]
<1>1. StreamAssumption /\ DataInv /\ b \in Buffers /\ b \notin Resettable
  BY DEF SignalsAssumption, StreamInv
<1>2. /\ size[b] \in Nat /\ trigger[b] \in Nat /\ avail[b] \in Nat
  BY <1>1, BufferFacts
<1>3. /\ size[b] # 0
      /\ IF b \in Streams THEN avail[b] < trigger[b] ELSE avail[b] = 0
      /\ IF b \in Streams THEN Spaces(b) = 0 ELSE ~Fits(b, pend[u].data)
      /\ b \notin Streams => Need(pend[u].data) <= size[b]
  BY <1>1 DEF StreamInv, Party
<1>4. CASE b \in Streams
  BY <1>2, <1>3, <1>4 DEF Spaces
<1>5. CASE b \notin Streams
  <2>1. PICK n : n = Need(pend[u].data)
    OBVIOUS
  <2>2. n \in Int
    <3>1. pend[u].data \in Seq(Bytes)
      BY PendingIs
    <3>2. PrefixLen \in Nat /\ Len(pend[u].data) \in Nat
      BY <1>1, <3>1 DEF StreamAssumption
    <3> QED
      BY <2>1, <3>2 DEF Need
  <2>3. ~(size[b] - avail[b] >= n) /\ n <= size[b] /\ avail[b] = 0
    BY <1>2, <1>3, <1>5, <2>1 DEF Fits, Spaces
  <2> QED
    BY <1>2, <2>2, <2>3
<1> QED
  BY <1>4, <1>5

(* No reader sleeps on enough data and no writer on space that its data    *)
(* would use: sb_wake_recv and sb_wake_send are called by everybody who    *)
(* makes such a condition true.  Both sides of a buffer sleep only where   *)
(* cgrtos_stream_buffer_create was given a trigger above the size.         *)
THEOREM PartiesWake == Spec => []NoIdleParty
<1>1. SignalsAssumption
  BY WaitAssumption, EventAssumption, NotifyAssumption, StreamAssumption, FamilyAssumption
     DEF SignalsAssumption
<1>2. StreamInv => NoIdleParty
  <2>1. StreamInv => \A t \in Tasks, b \in Buffers : state[t] = "BLOCKED" =>
          /\ blockObj[t] = ReadQ(b) => IF b \in Streams THEN avail[b] < trigger[b] ELSE avail[b] = 0
          /\ (blockObj[t] = WriteQ(b) /\ b \notin Resettable) =>
                IF b \in Streams THEN Spaces(b) = 0 ELSE ~Fits(b, pend[t].data)
    BY DEF StreamInv, Party
  <2>2. StreamInv => \A t, u \in Tasks, b \in Buffers \ Resettable :
          (/\ state[t] = "BLOCKED" /\ blockObj[t] = ReadQ(b)
           /\ state[u] = "BLOCKED" /\ blockObj[u] = WriteQ(b)) =>
          b \in Streams /\ trigger[b] > size[b]
    BY <1>1, BothSides
  <2> QED
    BY <2>1, <2>2 DEF NoIdleParty
<1> QED
  BY <1>1, <1>2, StreamInvariant, PTL
=============================================================================

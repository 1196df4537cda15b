------------------------------ MODULE MsgQueue ------------------------------
(***************************************************************************)
(* The message queue of kernel/ipc.c, alone or in a queue set: a ring of   *)
(* fixed-size messages, with a wait queue for the senders of a full queue  *)
(* and one for the receivers of an empty one.  A message is never handed   *)
(* to a waiter: the waiter is woken and tries once more, against anyone    *)
(* who comes before it.                                                    *)
(***************************************************************************)
EXTENDS QueueSet

CONSTANTS
    Isr,        (* the caller of the *_from_isr variants                   *)
    MaxLen,     (* bound on the len argument of cgrtos_queue_create        *)
    Payloads,   (* what a message may say                                  *)
    DeleteInSet (* whether the application deletes a queue that is a       *)
                (* member of a set                                         *)

MsgQueues == Members
SendQ(q)  == <<q, "send">>
RecvQ(q)  == <<q, "recv">>

ASSUME QueueAssumption ==
    /\ Isr \notin Tasks
    /\ MaxLen \in Nat \ {0}
    /\ DeleteInSet \in BOOLEAN
    /\ Queues = {SendQ(q) : q \in MsgQueues} \cup {RecvQ(q) : q \in MsgQueues}
                    \cup {SetQ(s) : s \in Sets}

VARIABLES
    len,        (* q->len; 0 marks a free slot of g_qs                     *)
    cnt,        (* q->cnt                                                  *)
    head,       (* q->head, where the next message goes                    *)
    tail,       (* q->tail, where the oldest message is                    *)
    buf         (* q->buf, as slots                                        *)

ringVars == <<len, cnt, head, tail, buf>>
vars     == <<waitVars, setVars, ringVars>>

(* the memory a queue is created in holds anything                         *)
Init ==
    /\ WaitInit /\ SetInit
    /\ len = [q \in MsgQueues |-> 0]
    /\ cnt = [q \in MsgQueues |-> 0]
    /\ head = [q \in MsgQueues |-> 0]
    /\ tail = [q \in MsgQueues |-> 0]
    /\ \E p \in Payloads : buf = [q \in MsgQueues |-> [i \in 0..(MaxLen - 1) |-> p]]

Caller(c) == c = Isr \/ Executing(c)

-----------------------------------------------------------------------------
(* cgrtos_queue_create                                                     *)
QueueCreate(t, q, n) ==
    /\ Executing(t) /\ len[q] = 0
    /\ len' = [len EXCEPT ![q] = n]
    /\ UNCHANGED <<waitVars, setVars, cnt, head, tail, buf>>

(* the first waiter of every queue of W is popped and woken                *)
PopEach(W) ==
    LET filled == {q \in W : waitq[q] # << >>}
    IN  /\ Wake({Head(waitq[q]) : q \in filled}, TRUE)
        /\ waitq' = [q \in Queues |-> IF q \in filled THEN Tail(waitq[q]) ELSE waitq[q]]

NobodyWakes == UNCHANGED <<state, blockObj, timed, wakeOk, waitq>>

(* Bug form: the ring has a slot more than the buffer                      *)
PushPastEnd(q, m) ==
    /\ buf' = [buf EXCEPT ![q][head[q] % MaxLen] = m]
    /\ head' = [head EXCEPT ![q] = (@ + 1) % (len[q] + 1)]
    /\ cnt' = [cnt EXCEPT ![q] = @ + 1]
    /\ UNCHANGED <<len, tail>>

(* queue_push                                                              *)
Push(q, m) ==
    /\ buf' = [buf EXCEPT ![q][head[q]] = m]
    /\ head' = [head EXCEPT ![q] = (@ + 1) % len[q]]
    /\ cnt' = [cnt EXCEPT ![q] = @ + 1]
    /\ UNCHANGED <<len, tail>>

(* queue_pop                                                               *)
Pop(q) ==
    /\ tail' = [tail EXCEPT ![q] = (@ + 1) % len[q]]
    /\ cnt' = [cnt EXCEPT ![q] = @ - 1]
    /\ UNCHANGED <<len, head, buf>>

(* Bug form: a selector that is not poked when a receiver is woken         *)
DeliverToOne(q, m) ==
    /\ Push(q, m)
    /\ ready' = ReadyAfterPoke(q)
    /\ PopEach(IF waitq[RecvQ(q)] # << >> THEN {RecvQ(q)} ELSE {})
    /\ UNCHANGED <<inUse, members, qset>>

(* queue_send_internal with room: a receiver is woken, and so is a         *)
(* selector if q is in a set                                               *)
Deliver(q, m) ==
    /\ Push(q, m)
    /\ ready' = ReadyAfterPoke(q)
    /\ PopEach({RecvQ(q)} \cup PokedQueues(q))
    /\ UNCHANGED <<inUse, members, qset>>

(* Bug form: the pop wakes no sender                                       *)
CollectOnly(q) == Pop(q) /\ NobodyWakes /\ UNCHANGED setVars

(* the pop of a receive, which wakes a sender                              *)
Collect(q) == Pop(q) /\ PopEach({SendQ(q)}) /\ UNCHANGED setVars

(* cgrtos_queue_send and cgrtos_queue_send_from_isr with room              *)
Send(c, q, m) ==
    /\ Caller(c)
    /\ cnt[q] < len[q]
    /\ Deliver(q, m)
    /\ UNCHANGED <<oncpu, stage, arg, prioVars>>

(* cgrtos_queue_send to a full queue, with a timeout                       *)
SendBlocks(t, q, timeout) ==
    /\ Executing(t)
    /\ len[q] > 0 /\ cnt[q] = len[q]
    /\ Block(t, SendQ(q), timeout)
    /\ UNCHANGED <<prioVars, setVars, ringVars>>

(* the rest of that send: another try, without a timeout, if it was woken  *)
SendReturns(t, m) ==
    /\ Resumes(t) /\ Leave(t)
    /\ \E q \in MsgQueues :
         /\ arg[t] = SendQ(q)
         /\ IF wakeOk[t] /\ cnt[q] < len[q]
            THEN Deliver(q, m)
            ELSE NobodyWakes /\ UNCHANGED <<setVars, ringVars>>
    /\ UNCHANGED <<oncpu, prioVars>>

(* cgrtos_queue_receive and cgrtos_queue_receive_from_isr of a message     *)
Receive(c, q) ==
    /\ Caller(c)
    /\ cnt[q] > 0
    /\ Collect(q)
    /\ UNCHANGED <<oncpu, stage, arg, prioVars>>

(* cgrtos_queue_receive of an empty queue, with a timeout                  *)
ReceiveBlocks(t, q, timeout) ==
    /\ Executing(t)
    /\ len[q] > 0 /\ cnt[q] = 0
    /\ Block(t, RecvQ(q), timeout)
    /\ UNCHANGED <<prioVars, setVars, ringVars>>

(* the rest of that receive                                                *)
ReceiveReturns(t) ==
    /\ Resumes(t) /\ Leave(t)
    /\ \E q \in MsgQueues :
         /\ arg[t] = RecvQ(q)
         /\ IF wakeOk[t] /\ cnt[q] > 0
            THEN Collect(q)
            ELSE NobodyWakes /\ UNCHANGED <<setVars, ringVars>>
    /\ UNCHANGED <<oncpu, prioVars>>

(* cgrtos_queue_delete: both wait queues fail, and the object is zeroed,   *)
(* its link to a set included, but the set keeps it as a member            *)
QueueDelete(t, q) ==
    /\ Executing(t) /\ len[q] > 0
    /\ qset[q] = NoSet \/ DeleteInSet
    /\ Unblock({w \in Tasks : \E x \in {RecvQ(q), SendQ(q)} : InList(waitq[x], w)}, FALSE)
    /\ waitq' = [waitq EXCEPT ![RecvQ(q)] = << >>, ![SendQ(q)] = << >>]
    /\ len' = [len EXCEPT ![q] = 0]
    /\ cnt' = [cnt EXCEPT ![q] = 0]
    /\ head' = [head EXCEPT ![q] = 0]
    /\ tail' = [tail EXCEPT ![q] = 0]
    /\ qset' = [qset EXCEPT ![q] = NoSet]
    /\ UNCHANGED <<prioVars, inUse, members, ready, buf>>

-----------------------------------------------------------------------------
QueueStep ==
    \/ \E t \in Tasks, q \in MsgQueues, n \in 1..MaxLen : QueueCreate(t, q, n)
    \/ \E c \in Tasks \cup {Isr}, q \in MsgQueues, m \in Payloads : Send(c, q, m)
    \/ \E t \in Tasks, q \in MsgQueues, d \in Timeouts : SendBlocks(t, q, d)
    \/ \E t \in Tasks, m \in Payloads : SendReturns(t, m)
    \/ \E c \in Tasks \cup {Isr}, q \in MsgQueues : Receive(c, q)
    \/ \E t \in Tasks, q \in MsgQueues, d \in Timeouts : ReceiveBlocks(t, q, d)
    \/ \E t \in Tasks : ReceiveReturns(t)
    \/ \E t \in Tasks, q \in MsgQueues : QueueDelete(t, q)

SetStep ==
    \/ \E t \in Tasks, s \in Sets : CreateSet(t, s) \/ DeleteSet(t, s) \/ Select(t, s)
    \/ \E t \in Tasks, s \in Sets, q \in MsgQueues :
         \/ len[q] > 0 /\ qset[q] = NoSet /\ AddMember(t, s, q, cnt[q] > 0)
         \/ RemoveMember(t, s, q)
    \/ \E t \in Tasks, s \in Sets, d \in Timeouts : SelectBlocks(t, s, d)
    \/ \E t \in Tasks : SelectReturns(t)

TaskStep ==
    \/ \E old, new \in Tasks \cup {NoTask} : Switch(old, new)
    \/ \E t \in Tasks : Expire(t) \/ Suspend(t) \/ Resume(t) \/ Create(t) \/ Exit(t)
    \/ \E t \in Tasks : Delete(t) /\ UNCHANGED prioVars
    \/ \E t \in Tasks, p \in 0..MaxPrio : SetPriority(t, p)

Next ==
    \/ QueueStep
    \/ SetStep /\ UNCHANGED ringVars
    \/ TaskStep /\ UNCHANGED <<setVars, ringVars>>

Spec == Init /\ [][Next]_vars

-----------------------------------------------------------------------------
(* The messages in q, oldest first                                         *)
Contents(q) == [i \in 1..cnt[q] |-> buf[q][(tail[q] + i - 1) % len[q]]]

(* The ring under its two indices is a bounded FIFO: no message is lost,   *)
(* repeated, overtaken or made up, whatever tasks and interrupts do.       *)
Fifo == INSTANCE BoundedFifo WITH
            Channels <- MsgQueues, cap <- len, chan <- [q \in MsgQueues |-> Contents(q)]
IsFifo == Fifo!FifoSpec

(* A message does not lie in a queue with a task asleep in receive, unless *)
(* enough receivers are awake to fetch it, and the same goes for the free  *)
(* slots of a queue and its senders: a wake-up is not lost when another    *)
(* task gets to the message or the slot first.                             *)
NoIdlePeer ==
    \A q \in MsgQueues :
        /\ waitq[RecvQ(q)] # << >> => cnt[q] <= Cardinality(OnTheWay(RecvQ(q)))
        /\ waitq[SendQ(q)] # << >> => len[q] - cnt[q] <= Cardinality(OnTheWay(SendQ(q)))
=============================================================================

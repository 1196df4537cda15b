---------------------------- MODULE StreamBuffer ----------------------------
(***************************************************************************)
(* The stream and message buffers of kernel/stream_buffer.c: a ring of     *)
(* bytes with readers and writers asleep on it.  A stream is read and      *)
(* written in parts; a message is a length prefix and a payload, written   *)
(* and read whole.  Whoever is woken tries once more and does not sleep    *)
(* again.                                                                  *)
(***************************************************************************)
EXTENDS TaskWait, SequencesExt

CONSTANTS
    Streams, Messages,  (* the slots of g_sbs, by what they are created as *)
    PoolSize,       (* CGRTOS_MAX_STREAM_BUFFER                            *)
    Sizes,          (* the size and the trigger arguments the application  *)
    Triggers,       (* creates buffers with                                *)
    Data,           (* what the application sends, as sequences of bytes   *)
    MaxRoom,        (* bound on the size of its receive buffers            *)
    PrefixLen,      (* sizeof(uint32_t)                                    *)
    Base,           (* the values of a byte; 256 in the code               *)
    Resettable      (* the buffers the application resets                  *)

MaxSize   == Max(Sizes)
Buffers   == Streams \cup Messages
WriteQ(b) == <<b, "send">>
ReadQ(b)  == <<b, "recv">>

(* what one more byte of a length counts for                               *)
Place[i \in 0..PrefixLen] == IF i = 0 THEN 1 ELSE Base * Place[i - 1]

ASSUME StreamAssumption ==
    /\ Streams \cap Messages = {}
    /\ {WriteQ(b) : b \in Buffers} \cup {ReadQ(b) : b \in Buffers} \subseteq Queues
    /\ {PoolSize, MaxRoom, PrefixLen, Base} \subseteq Nat \ {0}
    /\ \A d \in Data : d \in Seq(0..(Base - 1)) /\ Len(d) \in 1..(Place[PrefixLen] - 1)
    /\ Sizes \subseteq Nat \ {0, 1} /\ Triggers \subseteq Nat \ {0}
    /\ MaxSize \in Sizes /\ \A n \in Sizes : n <= MaxSize
    /\ Resettable \subseteq Buffers

VARIABLES
    size,       (* sb->size; 0 marks a free slot                           *)
    trigger,    (* sb->trigger                                             *)
    sbHead, sbTail, avail,  (* the ring's indices and what is in it        *)
    bytes,      (* sb->buf                                                 *)
    pend,       (* what the pending call of each task has left to send, or *)
                (* the room of its receive buffer                          *)
    sent        (* history: what was sent and is not received yet, by      *)
                (* single bytes in a stream, by messages otherwise         *)

streamVars == <<size, trigger, sbHead, sbTail, avail, bytes, pend, sent>>
ringOf     == <<size, trigger, sbHead, sbTail, avail, bytes, sent>>

Nothing == [data |-> << >>, room |-> 0]

StreamTypeOK ==
    /\ size \in [Buffers -> 0..MaxSize] /\ trigger \in [Buffers -> Nat]
    /\ \A b \in Buffers : avail[b] \in 0..size[b]
    /\ sbHead \in [Buffers -> 0..(MaxSize - 1)] /\ sbTail \in [Buffers -> 0..(MaxSize - 1)]
    /\ bytes \in [Buffers -> [0..(MaxSize - 1) -> 0..(Base - 1)]]
    /\ \A t \in Tasks : pend[t].data \in Seq(0..(Base - 1)) /\ pend[t].room \in 0..MaxRoom

StreamInit ==
    /\ size = [b \in Buffers |-> 0] /\ trigger = [b \in Buffers |-> 0]
    /\ sbHead = [b \in Buffers |-> 0] /\ sbTail = [b \in Buffers |-> 0]
    /\ avail = [b \in Buffers |-> 0]
    /\ bytes = [b \in Buffers |-> [i \in 0..(MaxSize - 1) |-> 0]]
    /\ pend = [t \in Tasks |-> Nothing]
    /\ sent = [b \in Buffers |-> << >>]

(* a call that does not block leaves its caller where it is                *)
NoWait == UNCHANGED <<oncpu, stage, arg, prioVars, pend>>

-----------------------------------------------------------------------------
(* sb_spaces                                                               *)
Spaces(b) == size[b] - avail[b]

(* the ring from tail on                                                   *)
Cell(b, i) == bytes[b][(sbTail[b] + i - 1) % size[b]]

(* Bug form: the index is cut at the end of the buffer, not wrapped        *)
WriteCutAtEnd(b, src, frames) ==
    LET at(i) == IF sbHead[b] + i - 1 < size[b] THEN sbHead[b] + i - 1 ELSE size[b] - 1
    IN  /\ bytes' = [bytes EXCEPT ![b] = [k \in DOMAIN @ |->
                        IF \E i \in 1..Len(src) : at(i) = k
                        THEN src[CHOOSE i \in 1..Len(src) : at(i) = k] ELSE @[k]]]
        /\ sbHead' = [sbHead EXCEPT ![b] = (@ + Len(src)) % size[b]]
        /\ avail' = [avail EXCEPT ![b] = @ + Len(src)]
        /\ sent' = [sent EXCEPT ![b] = @ \o frames]
        /\ UNCHANGED <<size, trigger, sbTail>>

(* sb_write_bytes of src, which the application sees as frames             *)
Write(b, src, frames) ==
    LET at(i) == (sbHead[b] + i - 1) % size[b]
    IN  /\ bytes' = [bytes EXCEPT ![b] = [k \in DOMAIN @ |->
                        IF \E i \in 1..Len(src) : at(i) = k
                        THEN src[CHOOSE i \in 1..Len(src) : at(i) = k] ELSE @[k]]]
        /\ sbHead' = [sbHead EXCEPT ![b] = (@ + Len(src)) % size[b]]
        /\ avail' = [avail EXCEPT ![b] = @ + Len(src)]
        /\ sent' = [sent EXCEPT ![b] = @ \o frames]
        /\ UNCHANGED <<size, trigger, sbTail>>

(* sb_read_bytes of n bytes, which are the first k frames                  *)
Read(b, n, k) ==
    /\ sbTail' = [sbTail EXCEPT ![b] = (@ + n) % size[b]]
    /\ avail' = [avail EXCEPT ![b] = @ - n]
    /\ sent' = [sent EXCEPT ![b] = SubSeq(@, k + 1, Len(@))]
    /\ UNCHANGED <<size, trigger, sbHead, bytes>>

(* Bug form: readers are woken only when the ring has just left empty      *)
ReadersWokenAtFirst(b, n) ==
    IF avail[b] = 0 /\ n >= trigger[b] THEN {ReadQ(b)} ELSE {}

(* sb_wake_recv after n more bytes: all the readers if there is enough ... *)
ReadersWoken(b, n) == IF n > 0 /\ avail[b] + n >= trigger[b] THEN {ReadQ(b)} ELSE {}

(* ... and sb_wake_send after n bytes less: all the writers                *)
WritersWoken(b, n) == IF n > 0 /\ Spaces(b) + n > 0 THEN {WriteQ(b)} ELSE {}

(* every task in the queues of W is popped and woken                       *)
PopAll(W) ==
    /\ Wake({t \in Tasks : \E q \in W : InList(waitq[q], t)}, TRUE)
    /\ waitq' = [q \in Queues |-> IF q \in W THEN << >> ELSE waitq[q]]

(* the same, in the section in which t goes to sleep on q: sb_block        *)
PopAllAndBlock(W, t, q, timeout) ==
    LET woken == {u \in Tasks : \E x \in W : InList(waitq[x], u)}
    IN  /\ state' = [u \in Tasks |-> IF u = t THEN "BLOCKED"
                                     ELSE IF u \in woken THEN "READY" ELSE state[u]]
        /\ blockObj' = [u \in Tasks |-> IF u = t THEN q
                                        ELSE IF u \in woken THEN NoQueue ELSE blockObj[u]]
        /\ timed' = [u \in Tasks |-> IF u = t THEN timeout = "finite"
                                     ELSE timed[u] /\ u \notin woken]
        /\ wakeOk' = [u \in Tasks |-> wakeOk[u] \/ u \in woken]
        /\ stage' = [stage EXCEPT ![t] = "yield"]
        /\ arg' = [arg EXCEPT ![t] = q]
        /\ waitq' = [x \in Queues |-> IF x = q THEN WaitListAdd(waitq[x], t)
                                      ELSE IF x \in W THEN << >> ELSE waitq[x]]
        /\ UNCHANGED oncpu

LeavesQueues == UNCHANGED <<state, blockObj, timed, wakeOk, waitq>>

-----------------------------------------------------------------------------
(* cgrtos_stream_buffer_create, cgrtos_message_buffer_create: nothing is   *)
(* asked of the trigger, which may be more than the ring can ever hold.    *)
(* What new memory holds is never read; it is 0 here.                      *)
StreamCreate(t, b, n, trig) ==
    /\ Executing(t) /\ size[b] = 0
    /\ Cardinality({x \in Buffers : size[x] > 0}) < PoolSize
    /\ size' = [size EXCEPT ![b] = n]
    /\ trigger' = [trigger EXCEPT ![b] = IF b \in Messages THEN 1 ELSE trig]
    /\ bytes' = [bytes EXCEPT ![b] = [i \in DOMAIN @ |-> 0]]
    /\ UNCHANGED <<waitVars, sbHead, sbTail, avail, pend, sent>>

Lower(m, n) == IF m < n THEN m ELSE n
AsFrames(data) == [i \in 1..Len(data) |-> <<data[i]>>]

(* as much of data as fits goes into the ring                              *)
Deposit(b, data) ==
    LET n == Lower(Len(data), Spaces(b))
    IN  /\ IF n = 0 THEN UNCHANGED ringOf
           ELSE Write(b, SubSeq(data, 1, n), AsFrames(SubSeq(data, 1, n)))
        /\ PopAll(ReadersWoken(b, n))

(* cgrtos_stream_buffer_send_from_isr                                      *)
StreamSendFromIsr(b, data) == b \in Streams /\ size[b] > 0 /\ Deposit(b, data) /\ NoWait

(* cgrtos_stream_buffer_send that is done at once or does not wait         *)
StreamSend(t, b, data) == Executing(t) /\ StreamSendFromIsr(b, data)

(* the same with a timeout and more data than space                        *)
StreamSendBlocks(t, b, data, timeout) ==
    /\ Executing(t) /\ b \in Streams /\ size[b] > 0
    /\ Len(data) > Spaces(b)
    /\ IF Spaces(b) = 0 THEN UNCHANGED ringOf
       ELSE Write(b, SubSeq(data, 1, Spaces(b)), AsFrames(SubSeq(data, 1, Spaces(b))))
    /\ PopAllAndBlock(ReadersWoken(b, Spaces(b)), t, WriteQ(b), timeout)
    /\ pend' = [pend EXCEPT ![t] = [data |-> SubSeq(data, Spaces(b) + 1, Len(data)), room |-> 0]]
    /\ UNCHANGED prioVars

(* the call is over; what it had to remember is forgotten                  *)
CallEnds(t) == Leave(t) /\ pend' = [pend EXCEPT ![t] = Nothing] /\ UNCHANGED <<oncpu, prioVars>>

(* the rest of that send: once more if the task was woken                  *)
StreamSendReturns(t) ==
    /\ Resumes(t) /\ CallEnds(t)
    /\ \E b \in Streams :
         /\ arg[t] = WriteQ(b)
         /\ IF wakeOk[t] THEN Deposit(b, pend[t].data) ELSE LeavesQueues /\ UNCHANGED ringOf

(* up to room bytes of what is there                                       *)
Withdraw(b, room) ==
    LET n == Lower(avail[b], room)
    IN  /\ IF n = 0 THEN UNCHANGED ringOf ELSE Read(b, n, n)
        /\ PopAll(WritersWoken(b, n))

(* cgrtos_stream_buffer_recv_from_isr                                      *)
StreamRecvFromIsr(b, room) == b \in Streams /\ avail[b] > 0 /\ Withdraw(b, room) /\ NoWait

(* cgrtos_stream_buffer_recv that finds enough or does not wait            *)
StreamRecv(t, b, room) == Executing(t) /\ StreamRecvFromIsr(b, room)

(* the same with a timeout below the trigger level                         *)
StreamRecvBlocks(t, b, room, timeout) ==
    /\ Executing(t) /\ b \in Streams /\ size[b] > 0
    /\ avail[b] < trigger[b]
    /\ Block(t, ReadQ(b), timeout)
    /\ pend' = [pend EXCEPT ![t] = [data |-> << >>, room |-> room]]
    /\ UNCHANGED <<prioVars, ringOf>>

(* the rest of that receive: woken or not, it takes what there is          *)
StreamRecvReturns(t) ==
    /\ Resumes(t) /\ CallEnds(t)
    /\ \E b \in Streams : arg[t] = ReadQ(b) /\ Withdraw(b, pend[t].room)

-----------------------------------------------------------------------------
(* the length prefix, its least significant byte first                     *)
Prefix(n) == [i \in 1..PrefixLen |-> (n \div Place[i - 1]) % Base]
Frame(m)  == Prefix(Len(m)) \o m

(* the length that the first PrefixLen bytes of the ring say               *)
LengthAtTail(b) ==
    LET upTo[i \in 0..PrefixLen] == IF i = 0 THEN 0 ELSE upTo[i - 1] + Cell(b, i) * Place[i - 1]
    IN  upTo[PrefixLen]

Need(m) == PrefixLen + Len(m)

Fits(b, m) == size[b] > 0 /\ Spaces(b) >= Need(m)

DepositMessage(b, m) ==
    /\ Write(b, Frame(m), <<m>>)
    /\ PopAll(ReadersWoken(b, Need(m)))

(* cgrtos_message_buffer_send_from_isr with room for all of m              *)
MessageSendFromIsr(b, m) == b \in Messages /\ Fits(b, m) /\ DepositMessage(b, m) /\ NoWait

(* cgrtos_message_buffer_send with room                                    *)
MessageSend(t, b, m) == Executing(t) /\ MessageSendFromIsr(b, m)

(* the same with a timeout when there is not; never for what cannot fit    *)
MessageSendBlocks(t, b, m, timeout) ==
    /\ Executing(t) /\ b \in Messages
    /\ Need(m) <= size[b] /\ ~Fits(b, m)
    /\ Block(t, WriteQ(b), timeout)
    /\ pend' = [pend EXCEPT ![t] = [data |-> m, room |-> 0]]
    /\ UNCHANGED <<prioVars, ringOf>>

MessageSendReturns(t) ==
    /\ Resumes(t) /\ CallEnds(t)
    /\ \E b \in Messages :
         /\ arg[t] = WriteQ(b)
         /\ IF wakeOk[t] /\ Fits(b, pend[t].data)
            THEN DepositMessage(b, pend[t].data)
            ELSE LeavesQueues /\ UNCHANGED ringOf

(* a whole message is there                                                *)
Complete(b) == avail[b] >= PrefixLen /\ avail[b] >= PrefixLen + LengthAtTail(b)

WithdrawMessage(b) ==
    /\ Read(b, PrefixLen + LengthAtTail(b), 1)
    /\ PopAll(WritersWoken(b, PrefixLen + LengthAtTail(b)))

(* cgrtos_message_buffer_recv_from_isr; a message too long for the caller  *)
(* stays                                                                   *)
MessageRecvFromIsr(b, room) ==
    /\ b \in Messages /\ Complete(b) /\ LengthAtTail(b) <= room
    /\ WithdrawMessage(b)
    /\ NoWait

(* cgrtos_message_buffer_recv of a message that is there                   *)
MessageRecv(t, b, room) == Executing(t) /\ MessageRecvFromIsr(b, room)

MessageRecvBlocks(t, b, room, timeout) ==
    /\ Executing(t) /\ b \in Messages /\ size[b] > 0
    /\ ~Complete(b)
    /\ Block(t, ReadQ(b), timeout)
    /\ pend' = [pend EXCEPT ![t] = [data |-> << >>, room |-> room]]
    /\ UNCHANGED <<prioVars, ringOf>>

MessageRecvReturns(t) ==
    /\ Resumes(t) /\ CallEnds(t)
    /\ \E b \in Messages :
         /\ arg[t] = ReadQ(b)
         /\ IF wakeOk[t] /\ Complete(b) /\ LengthAtTail(b) <= pend[t].room
            THEN WithdrawMessage(b)
            ELSE LeavesQueues /\ UNCHANGED ringOf

-----------------------------------------------------------------------------
(* cgrtos_stream_buffer_reset: nobody is woken                             *)
StreamReset(t, b) ==
    /\ Executing(t) /\ b \in Resettable /\ size[b] > 0
    /\ sbHead' = [sbHead EXCEPT ![b] = 0]
    /\ sbTail' = [sbTail EXCEPT ![b] = 0]
    /\ avail' = [avail EXCEPT ![b] = 0]
    /\ sent' = [sent EXCEPT ![b] = << >>]
    /\ UNCHANGED <<waitVars, size, trigger, bytes, pend>>

(* cgrtos_stream_buffer_delete                                             *)
StreamDelete(t, b) ==
    /\ Executing(t) /\ size[b] > 0
    /\ Unblock({w \in Tasks : \E q \in {ReadQ(b), WriteQ(b)} : InList(waitq[q], w)}, FALSE)
    /\ waitq' = [waitq EXCEPT ![ReadQ(b)] = << >>, ![WriteQ(b)] = << >>]
    /\ size' = [size EXCEPT ![b] = 0] /\ trigger' = [trigger EXCEPT ![b] = 0]
    /\ sbHead' = [sbHead EXCEPT ![b] = 0] /\ sbTail' = [sbTail EXCEPT ![b] = 0]
    /\ avail' = [avail EXCEPT ![b] = 0]
    /\ bytes' = [bytes EXCEPT ![b] = [i \in DOMAIN @ |-> 0]]
    /\ sent' = [sent EXCEPT ![b] = << >>]
    /\ UNCHANGED <<prioVars, pend>>

StreamStep ==
    \/ \E t \in Tasks, b \in Buffers :
         \/ StreamReset(t, b) \/ StreamDelete(t, b)
         \/ \E n \in Sizes, trig \in Triggers : StreamCreate(t, b, n, trig)
    \/ \E b \in Buffers, d \in Data :
         \/ StreamSendFromIsr(b, d) \/ MessageSendFromIsr(b, d)
         \/ \E t \in Tasks : StreamSend(t, b, d) \/ MessageSend(t, b, d)
    \/ \E b \in Buffers, room \in 1..MaxRoom :
         \/ StreamRecvFromIsr(b, room) \/ MessageRecvFromIsr(b, room)
         \/ \E t \in Tasks : StreamRecv(t, b, room) \/ MessageRecv(t, b, room)
    \/ \E t \in Tasks, b \in Buffers, d \in Data, timeout \in Timeouts :
         StreamSendBlocks(t, b, d, timeout) \/ MessageSendBlocks(t, b, d, timeout)
    \/ \E t \in Tasks, b \in Buffers, room \in 1..MaxRoom, timeout \in Timeouts :
         StreamRecvBlocks(t, b, room, timeout) \/ MessageRecvBlocks(t, b, room, timeout)
    \/ \E t \in Tasks : \/ StreamSendReturns(t) \/ StreamRecvReturns(t)
                        \/ MessageSendReturns(t) \/ MessageRecvReturns(t)

-----------------------------------------------------------------------------
(* The ring holds what was sent and not received, byte for byte: messages  *)
(* are never torn or joined, whatever mix of tasks and interrupts, partial *)
(* writes, timeouts and wrapping of the indices there is.                  *)
Encoded(b) == IF b \in Streams THEN FlattenSeq(sent[b])
              ELSE FlattenSeq([i \in 1..Len(sent[b]) |-> Frame(sent[b][i])])
RingHoldsSent == StreamTypeOK /\
    \A b \in Buffers : [i \in 1..avail[b] |-> Cell(b, i)] = Encoded(b)

(* No reader sleeps on enough data, and no writer on space its data would  *)
(* use; so the two sides of a buffer are both asleep only where the        *)
(* trigger asks for more than the ring can hold.  reset wakes nobody       *)
(* (stream_buffer.c, its @warning), so it is left out for writers.         *)
NoIdleParty ==
    /\ \A t \in Tasks, b \in Buffers : state[t] = "BLOCKED" =>
        /\ blockObj[t] = ReadQ(b) => IF b \in Streams THEN avail[b] < trigger[b] ELSE avail[b] = 0
        /\ (blockObj[t] = WriteQ(b) /\ b \notin Resettable) =>
              IF b \in Streams THEN Spaces(b) = 0 ELSE ~Fits(b, pend[t].data)
    /\ \A t, u \in Tasks, b \in Buffers \ Resettable :
        (/\ state[t] = "BLOCKED" /\ blockObj[t] = ReadQ(b)
         /\ state[u] = "BLOCKED" /\ blockObj[u] = WriteQ(b)) =>
        b \in Streams /\ trigger[b] > size[b]
=============================================================================

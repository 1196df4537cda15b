CONSTANTS
    t1 = t1
    t2 = t2
    Tasks = {t1, t2}
    Queues <- WaitQueues
    NoQueue = NoQueue
    NoTask = NoTask
    NumCores = 2
    MaxPrio = 2
    CreationPrio <- TwoTasksPrio
    Suspendable = {t1}
    Deletable = {t1}
    Reprioritized = {}
    Sets = {s1}
    NoSet = NoSet
    Members = {q1, q2}
    SetLength = 2
    JoinWhileWaited = FALSE
    Isr = Isr
    MaxLen = 2
    Payloads = {x, y}
    DeleteInSet = FALSE
    q2 = q2
    x = x
SPECIFICATION MCSpec
INVARIANTS NoIdlePeer NoIdleSelector SetIsSound
PROPERTIES IsFifo
CHECK_DEADLOCK FALSE

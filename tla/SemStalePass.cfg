CONSTANTS
    t1 = t1
    t2 = t2
    t3 = t3
    Tasks = {t1, t2}
    Queues = {s1}
    NoQueue = NoQueue
    NoTask = NoTask
    Isr = Isr
    NumCores = 2
    MaxPrio = 2
    CreationPrio <- TwoTasksPrio
    Suspendable = {t1}
    Deletable = {}
    Reprioritized = {}
    MaxCount = 2
    NewPrios = {0, 1, 2}
SPECIFICATION Spec
INVARIANTS PassMeansToken

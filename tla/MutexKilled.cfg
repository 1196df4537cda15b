CONSTANTS
    t1 = t1
    t2 = t2
    t3 = t3
    Tasks = {t1, t2}
    Queues = {m1, m2}
    NoQueue = NoQueue
    NoTask = NoTask
    NumCores = 2
    MaxPrio = 1
    CreationPrio <- TwoPrio
    Suspendable = {t1}
    Deletable = {t1}
    Reprioritized = {t1}
    Pool = {m1}
    Ceilings = {}
    MaxRecursive = 1
    DetectDepth = 16
    DeleteHeld = FALSE
SPECIFICATION MCSpec
INVARIANTS HoldersAgree FreeHasNoWaiters NoWaitCycle

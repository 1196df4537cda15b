CONSTANTS
    t1 = t1
    t2 = t2
    t3 = t3
    Tasks = {t1, t2}
    Queues = {m1}
    NoQueue = NoQueue
    NoTask = NoTask
    NumCores = 2
    MaxPrio = 2
    CreationPrio <- TwoPrio
    Suspendable = {}
    Deletable = {t1}
    Reprioritized = {}
    Pool = {m1}
    Ceilings = {}
    MaxRecursive = 1
    DetectDepth = 16
    DeleteHeld = FALSE
SPECIFICATION Spec
INVARIANTS ExitGetsThere

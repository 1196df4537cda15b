CONSTANTS
    t1 = t1
    t2 = t2
    t3 = t3
    Tasks = {t1, t2, t3}
    Queues = {s1}
    NoQueue = NoQueue
    NoTask = NoTask
    Isr = Isr
    NumCores = 2
    MaxPrio = 2
    CreationPrio <- TopPairPrio
    Suspendable = {t3}
    Deletable = {t3}
    Reprioritized = {t3}
    MaxCount = 2
    NewPrios = {0, 1}
SPECIFICATION FairSpec
INVARIANTS SemTypeOK QueueMembership NoIdleToken PassMeansTokenUndisturbed TokenConservation
PROPERTIES GiveWakesHighest TopWaiterServed

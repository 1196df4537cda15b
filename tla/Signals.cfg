CONSTANTS
    t1 = t1
    t2 = t2
    g1 = g1
    b1 = b1
    b2 = b2
    Tasks = {t1, t2}
    Queues <- WaitQueues
    NoQueue = NoQueue
    NoTask = NoTask
    NumCores = 1
    MaxPrio = 2
    CreationPrio <- TwoTasksPrio
    Suspendable = {t1}
    Deletable = {t1}
    Reprioritized = {}
    Groups = {g1}
    Flags = {"a", "b"}
    WordBits = 1
    Streams = {b1}
    Messages = {b2}
    PoolSize = 1
    Sizes = {3}
    Triggers = {2, 4}
    Data <- TwoTexts
    MaxRoom = 2
    Disturbed = {"events", "notify"}
    Families = {"events", "notify", "stream"}
    PrefixLen = 1
    Base = 3
    Resettable = {b2}
SPECIFICATION Spec
INVARIANTS NoIdleFlagWaiter NotifiedWakes RingHoldsSent NoIdleParty

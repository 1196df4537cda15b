CONSTANTS
    t1 = t1
    t2 = t2
    t3 = t3
    Tasks = {t1, t2, t3}
    NoTask = NoTask
    NumCores = 2
    MaxPrio = 1
    RtPrio = 1
    Policy <- ThreePolicies
    CreationPrio <- OneHigh
    CreationAff <- LastPinned
    Blocking = {t1, t2, t3}
    Managed = {t1}
    Affinities = {0, 1, 2}
    Remote = FALSE
    Balance = FALSE
    MaxSuspend = 0
SPECIFICATION Spec
INVARIANTS QueuedIffReady OnOneCore

CONSTANTS
    t1 = t1
    t2 = t2
    t3 = t3
    Tasks = {t1, t2, t3}
    NoTask = NoTask
    NumCores = 2
    MaxPrio = 1
    RtPrio = 1
    Policy <- NoDeadlines
    CreationPrio <- OneHigh
    CreationAff <- FirstPinned
    Blocking = {t1}
    Managed = {}
    Affinities = {0, 1, 2}
    Remote = FALSE
    Balance = TRUE
    MaxSuspend = 1
SPECIFICATION FairSpec
PROPERTIES TopmostRuns

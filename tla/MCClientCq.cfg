SPECIFICATION FairSpec
CONSTANTS
    t1 = t1
    t2 = t2
    t3 = t3
    o1 = o1
    o2 = o2
    a = a
    b = b
    Worker = Worker
    NoTask = NoTask
    Nested = TRUE
    Tasks <- MCTasks
    EmptyFns <- MCEmptyFns
    Ops <- MCOps
    NullTags <- MCNullTags
    Threads <- MCThreads
INVARIANTS
    TypeOK
    NoLostWakeup
    OneAlarm
    NothingDropped
    AbortOnlyWhileDestroyed
PROPERTIES
    IsDispatcher
    EveryTaskRuns
    DtorReturns

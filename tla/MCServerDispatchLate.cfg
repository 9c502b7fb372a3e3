SPECIFICATION Spec
CONSTANTS
    t1 = t1
    t2 = t2
    t3 = t3
    a = a
    b = b
    w1 = w1
    w2 = w2
    NoTask = NoTask
    NoCq = NoCq
    Nested = TRUE
    LatePush = TRUE
    Tasks <- MCTasks
    EmptyFns <- MCEmptyFns
    Threads <- MCThreads
    Workers <- MCWorkers
INVARIANTS
    PushDefined

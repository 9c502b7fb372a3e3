SPECIFICATION Spec
CONSTANTS
    t1 = t1
    t2 = t2
    Tasks <- MCTasks
    MaxThreads = 3
INVARIANTS
    InitializersRunOnce
    LivesUntilStopped
PROPERTIES
    StartsAndStops

SPECIFICATION FairSpec
CONSTANTS
    Kinds <- MCKinds
    Callers <- MCOrderlyCallers
    IgnoreStart = FALSE
INVARIANTS
    NullStreamNeverUsed
    StartedCallIsActive
    StateOutlivesItsUsers
    StatusNotMasked
    HalfCloseBeforeFinish
PROPERTIES
    IsAwaiter
    CallsEnd

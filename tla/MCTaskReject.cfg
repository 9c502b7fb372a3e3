SPECIFICATION FairSpec
CONSTANTS
    f1 = f1
    f2 = f2
    Frames <- MCFrames
    MaxCalls = 2
    MayReject = TRUE
INVARIANTS
    TypeOK
    OnlyNotificationsDangle
    CancelSignalFaithful
    HooksPaired
    NothingLeaked
    AbortOnlyInRestart
PROPERTIES
    IsAwaiter
    CancelIsSignalled
    StopReturns

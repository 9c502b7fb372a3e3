SPECIFICATION Spec
CONSTANTS
    f1 = f1
    f2 = f2
    Frames <- MCFrames
    MaxCalls = 2
    MayReject = TRUE
INVARIANTS
    CancelSignalExact

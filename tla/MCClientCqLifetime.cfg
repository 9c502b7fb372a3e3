SPECIFICATION Spec
CONSTANTS
    u = u
    s = s
    b = b
    Unary <- MCUnary
    Streaming <- MCStreaming
    Borrowers <- MCBorrowers
INVARIANTS
    OwnedQueueIsOpen
    FaultsOnlyAfterMain
PROPERTIES
    ReleasedAndJoined

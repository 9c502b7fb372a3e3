SPECIFICATION Spec
CONSTANTS
    Kinds <- MCKinds
    Callers <- MCOrderlyCallers
    IgnoreStart = TRUE
INVARIANTS
    NullStreamNeverUsed

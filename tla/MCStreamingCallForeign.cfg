SPECIFICATION Spec
CONSTANTS
    Kinds <- MCKinds
    Callers <- MCForeignCoroutine
    IgnoreStart = FALSE
INVARIANTS
    StartedCallIsActive

SPECIFICATION Spec
CONSTANTS
    IntMax = 31
    SizeMax = 127
INVARIANTS
    OutcomeReported
    NamesInTable

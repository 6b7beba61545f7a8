SPECIFICATION Spec
CONSTANTS
    Bits = 2
    MemSize = 2
    MaxBlocks = 4
    MaxOps = 5
    MaxSteps = 18
    Counts = {1, 2}
    Import <- MCImport
    Uses <- MCUses
    ResultTypes <- MCResultTypes
    Handled <- AlikeOperands
    Repeats <- SameDepth
INVARIANTS
    Isolated
    ResultsDelivered
    ConditionsBoolean
CHECK_DEADLOCK FALSE

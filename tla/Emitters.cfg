SPECIFICATION Spec
CONSTANTS
    Bits = 4
    MemSize = 1
    MaxOps = 1
    Stacks <- AllStacks
    Operations <- AllOperations
    Handled <- HandledOps
INVARIANTS
    ResultsAsPromised
    TrapsAsPromised
CHECK_DEADLOCK FALSE

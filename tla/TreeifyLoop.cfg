SPECIFICATION Spec
CONSTANTS
    MaxBlocks = 24
    Decisions = 4
    Blocks = 8
    Functions <- JoinInLoop
CHECK_DEADLOCK FALSE
INVARIANT
    OriginalsUnreferenced

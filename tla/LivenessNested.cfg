SPECIFICATION Spec
CONSTANTS
    MaxBlocks = 22
    Decisions = 4
    Blocks = 8
    Functions <- LoopInLoop
CHECK_DEADLOCK FALSE
INVARIANT
    LivenessMatchesPaths

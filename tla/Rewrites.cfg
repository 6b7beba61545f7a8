SPECIFICATION Spec
CONSTANTS
    MaxBlocks = 22
    Decisions = 4
    Blocks = 8
    Functions <- MCFunctions
INVARIANTS
    Completes
    GraphCurrent
    AnalysesCurrent
    TreeForm
    SameExecutions
    AnalysesMatchPaths
    LivenessMatchesPaths

SPECIFICATION Spec
CONSTANTS
    MaxAddr <- MCMaxAddr
    Bytes = {"x", "y", "none"}
    NoBytes = "none"
    WordAlign = 32
    Symbol <- MCSymbol
    Type <- MCType
    Data <- MCData
    ModuleName <- MCModuleName
    Stdlib = {"std::mem"}
    FunctionName <- MCFunctionName
    ParamType = {"u32"}
    PtrType <- U32
    Modules <- MCModules
    Entrypoints <- MCEntrypoints
    MaxGlobals = 8
INVARIANTS
    SegmentsDisjoint
    GlobalsLaidOut
    ReferencesResolve
    LinkedProgramClosed
PROPERTY GraphCurrentAtLink
CHECK_DEADLOCK FALSE

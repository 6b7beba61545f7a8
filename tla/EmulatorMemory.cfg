SPECIFICATION Spec
CONSTANTS
    ModuleName = {"a", "b", "c"}
    FunctionName = {"f", "g", "h", "k"}
    Programs <- MCPrograms
    Nifs = {"f"}
    Sizes = {0, 17, 40, 80}
    HeapStart = 2
    LocalsStart = 6
    MemorySize = 8
    U32Range = 64
INVARIANTS FramesOk ImportsAwaited OverlapsOnlyLastWord
CHECK_DEADLOCK FALSE

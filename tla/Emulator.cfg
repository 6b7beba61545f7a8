SPECIFICATION FairSpec
CONSTANTS
    FunctionIdent = {"f", "g", "h"}
    BlockId <- MCBlockId
    Addr = {1, 2}
    Programs <- MCPrograms
    Breakpoints <- MCBreakpoints
    Budgets = {2, 9}
    Invoked = {"f"}
    MaxCycles = 9
    MaxDepth = 2
INVARIANTS TypeOK ActivationsOk StepsCounted ResumeProgresses
PROPERTIES ImplementsStructured CallsReturn

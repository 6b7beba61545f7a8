SPECIFICATION Spec
CONSTANTS
    Reach = 16
    Value = {1, 2, 3}
    WidthOf <- MCWidthOf
    Params <- MCParams
    CallerDepth = 5
    MaxOperands = 4
    Shapes = {}
INVARIANTS StackMirrored ArgumentsDelivered ParametersOnTop LiveRetained
PROPERTIES ShallowNeverPanics
CHECK_DEADLOCK FALSE

SPECIFICATION Spec
CONSTANTS
    Reach = 16
    Value = {1, 2, 3}
    WidthOf <- MCWidthOf
    Params <- MCParams
    CallerDepth = 5
    MaxOperands = 4
    Shapes = {"unordered"}
INVARIANTS ArgumentsDelivered
CHECK_DEADLOCK FALSE

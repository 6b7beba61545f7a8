SPECIFICATION StackifySpec
CONSTANTS
    MaxBlocks = 12
    Decisions = 4
    Blocks = 10
    Reach = 16
    Effectful = {"call", "store"}
    Commutative = {"add"}
    Functions <- MCFunctions
INVARIANTS
    EmissionCompletes
    StacksAgree
    SameBehaviour

SPECIFICATION FairSpec
CONSTANTS
    Thread = {t1, t2, t3}
    String = {"false", "a", "b"}
    Predefined <- MCPredefined
    MaxIndex = 1
INVARIANTS
    TypeOK
    SymbolsUnique
    RoundTrip
PROPERTIES
    PoisonedForGood
    LockReleased
    InternsAtomically

SPECIFICATION FairSpec
CONSTANTS
    Threads = {t1, t2}
    Half = 2
    NoAnswer = NoAnswer
    Nobody = Nobody
    Rivals = {t2}
    RivalOps = {"SetValue", "Increment", "PostDecrement", "FetchXor"}
    Operands = {2}
    Unreliable = {"lockedSet", "lockedAdd", "addThenLoad"}
    AssignAlone = TRUE
PROPERTIES ImplementsAtomicCell SomeoneGetsThrough

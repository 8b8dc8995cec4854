\* Liveness, so no symmetry; the system stops when all threads were begun and ended.
SPECIFICATION FairSpec
CONSTANTS
    Platforms = {"unix", "kettle", "pc", "cpp11"}
    Users = {u1, u2}
    Beginners = {u1}
    MaxThreadDynamicDataCount = 2
    MaxData = 3
    MaxThreads = 2
    None = None
    Careful = TRUE
    Enumerators = {u1}
    StartTimesOut = TRUE

INVARIANTS DataIsKept HandlesAreReleasedOnce EndsAreTrue
PROPERTY WaitsEnd
CHECK_DEADLOCK FALSE

\* Waits time out, but not while the lock changes hands.  Liveness, so no symmetry.
SPECIFICATION LiveSpec
CONSTANTS
    Threads = {t1, t2, t3}
    MaxRecursion = 2
    WaitHonoursTimeout = TRUE
    TimeoutsRace = FALSE
    None = None
    SemaphoreMax = 2
    RecursionModulus = 8

INVARIANTS MutualExclusion OwnerIsRecorded UseCountIsExact OneBaton
PROPERTIES ImplementsRecursiveLock WaitersAreServed

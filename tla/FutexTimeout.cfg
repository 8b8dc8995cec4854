\* A wait times out while Unlock is passing the lock to it.
SPECIFICATION Spec
CONSTANTS
    Threads = {t1, t2}
    MaxRecursion = 2
    WaitHonoursTimeout = TRUE
    TimeoutsRace = TRUE
    None = None
    SemaphoreMax = 2
    RecursionModulus = 8

INVARIANT MutualExclusion

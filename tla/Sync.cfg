\* Liveness, so no symmetry.  The threads may all wait for a semaphore or a
\* condition, and the system stops.
SPECIFICATION FairSpec
CONSTANTS
    Waiters = {t1, t2}
    Posters = {t2, t3}
    None = None
    SemaphoreKinds = {"unixSemaphore", "androidSemaphore", "appleSemaphore", "kettleSemaphore", 
                      "pcFastSemaphore", "pcSharedSemaphore", "synthesizedSemaphore", "unthreadedSemaphore"}
    InitialCounts = {1}
    MaxCount = 2
    MaxPost = 2
    OSMax = 3
    UntimedKinds = {"unthreadedSemaphore"}
    ModestKinds = {"synthesizedSemaphore"}
    ConditionKinds = {"portableCondition", "unixCondition", "kettleCondition"}
    ConditionTimeouts = TRUE
    DoneLimit = 2
    BarrierKinds = {"portableBarrier", "unixBarrier", "kettleBarrier"}
    Height = 3
    CycleModulus = 4
    UnsignedModulus = 4
    BarrierTimeouts = FALSE

INVARIANTS
    SemaphoreIsExact ConditionIsExact BarrierIsExact
PROPERTIES
    ImplementsCountingSemaphore ImplementsCyclicBarrier EveryoneGetsOn
CHECK_DEADLOCK FALSE

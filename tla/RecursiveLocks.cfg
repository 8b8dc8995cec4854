\* Liveness, so no symmetry.
SPECIFICATION FairSpec
CONSTANTS
    Threads = {t1, t2}
    None = None
    MutexKinds = {"unixMutex", "pcMutex", "pcSharedMutex", "kettleMutex", "cpp11Mutex", "unthreadedMutex",
                  "cpp11Futex", "criticalFutex", "kettleFutex", "mutexFutex"}
    MaxRecursion = 2
    SpinCount = 3
    WaitKinds = {"kettleMutex"}
    NoneKinds = {"pcMutex"}
INVARIANT LocksTellTheTruth
PROPERTIES ImplementsRecursiveLock LocksReturn
CHECK_DEADLOCK FALSE

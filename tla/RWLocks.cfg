\* Liveness, so no symmetry.
SPECIFICATION LiveSpec
CONSTANTS
    Threads = {t1, t2, t3}
    None = None
    Kinds = {"SpinLock", "RWSpinLock", "RWSpinLockW", "RWSemaLock", "RWMutex", "RWMutexIP"}
    MaxReads = 2
    TimedLocks = {"read"}
    SemaphoreMax = 6
    ValueUnlocked = 8
    WordModulus = 128

INVARIANT AnyWordIsExact
PROPERTIES ImplementsReadWriteLock FreeLockIsTaken
CHECK_DEADLOCK TRUE

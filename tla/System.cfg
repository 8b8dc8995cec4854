\* Threads exit, time is bounded: the system may stop.
SPECIFICATION Spec
CONSTANTS
    Subjects = {"processors", "priorities", "names", "handles", "selection", "times", "sleep"}
    ProcessorSystems = {"linux", "android", "kettle", "windows", "xboxone", "cpp11"}
    Workers = {w1}
    MainThread = main
    ProcessorCount = 3
    MaxProcessor = 4
    CarefulSetters = TRUE
    PrioritySystems = {"linux", "posix", "posix_down", "kettle", "windows"}
    PriorityThreads = {w1, w2}
    MaxPriority = 5
    NativeMin = 1
    NativeMax = 4
    WindowsHighest = 2
    WindowsCritical = 4
    NameSystems = {"linux", "apple", "bsd", "kettle", "windows"}
    NamedThreads = {w1}
    Namer = main
    CarefulNamers = TRUE
    ExternalThreads = {w1, w2}
    LibraryThreads = {w3}
    MaxHandles = 3
    kMaxThreadDynamicArrayCount = 2
    CarefulEnds = TRUE
    Selectors = {w1, w2}
    MAXIMUM_PROCESSORS = 4
    MaxCounter = 7
    CarefulSelectors = TRUE
    TimeSystems = {"windows32", "windows64", "kettle", "cpp11", "posix"}
    Word = 8
    MillisecondsPerSecond = 2
    NanosecondsPerMillisecond = 2
    MaxTime = 12
    MaxRelative = 5
    CarefulTimes = TRUE
    EAThreads = {w1}
    OtherThreads = {w2, w3}
    GlobalQueue = global
    UnitsPerSecond = 3
    kMinTimeForTimerEvent = 2
    EventIds = 2
    QueueLimit = 4
    MaxSleep = 4
    MaxNow = 4
    CarefulSleepers = TRUE
INVARIANTS
    ProcessorsAreKept PrioritiesAreKept NamesAreKept HandlesAreKept TimesAreKept
PROPERTY SelectionIsFair
CHECK_DEADLOCK FALSE

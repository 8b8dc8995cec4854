\* Liveness, so no symmetry.
SPECIFICATION FairSpec
CONSTANTS
    Structures = {"shared", "list", "storage"}
    Sharers = {t1, t2}
    Owners = {t1}
    SharedSets = {{s1}, {s1, s2}}
    MaxPointers = 2
    MaxCounts = 2
    SwapsInOrder = TRUE
    Items = {a, b}
    MaxItems = 4
    UsesPushFront = FALSE
    NoItem = NoItem
    StorageKinds = {"pthread", "windows", "array", "map"}
    StorageThreads = {t1, t2}
    Storages = {r1, r2}
    Pointees = {a}
    NULL = NULL
    NoEntry = NoEntry
    SystemKeys = 2
    EA_TLS_MAX_COUNT = 2
INVARIANT StructuresAreExact
PROPERTIES
    SharedCallsReturn ImplementsItemSequence ImplementsPerThreadValue

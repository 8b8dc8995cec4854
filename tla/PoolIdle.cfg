\* Threads quit when they are idle, are slow to start, and are added by clients.
SPECIFICATION Spec
CONSTANTS
    Clients = {c1, c2}
    Workers = {w1, w2}
    MinCount = 0
    MaxCount = 1
    InitialCount = 1
    MaxJobs = 2
    MaxPause = 1
    IdleTimeout = TRUE
    WaitTimeout = TRUE
    ShutdownTimeout = FALSE
    ShutdownKinds = {}
    AloneAtShutdown = TRUE
    PromptStart = FALSE
    UserThreads = TRUE
PROPERTY CountsAreKept
CHECK_DEADLOCK FALSE

\* Idle threads quit; one client, one thread.
SPECIFICATION FairSpec
CONSTANTS
    Clients = {c1}
    Workers = {w1}
    MinCount = 0
    MaxCount = 1
    InitialCount = 0
    MaxJobs = 2
    MaxPause = 0
    IdleTimeout = TRUE
    WaitTimeout = FALSE
    ShutdownTimeout = FALSE
    ShutdownKinds = {}
    AloneAtShutdown = TRUE
    PromptStart = FALSE
    UserThreads = FALSE
PROPERTY QueuedJobsAreRun
CHECK_DEADLOCK FALSE

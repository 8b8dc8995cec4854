\* Idle threads stay, pauses end and waits for jobs have timeouts.  Shutdown is
\* called by a client that is alone, while every thread runs; then the pool is
\* destroyed and the system stops.  Liveness, so no symmetry.
SPECIFICATION FairSpec
CONSTANTS
    Clients = {c1, c2}
    Workers = {w1, w2}
    MinCount = 0
    MaxCount = 2
    InitialCount = 0
    MaxJobs = 2
    MaxPause = 1
    IdleTimeout = FALSE
    WaitTimeout = TRUE
    ShutdownTimeout = FALSE
    ShutdownKinds = {"none", "all"}
    AloneAtShutdown = TRUE
    PromptStart = TRUE
    UserThreads = FALSE
INVARIANTS
    ReportedJobsAreOver
    SomeoneWillTakeJobs
    ThreadsAreAccounted
PROPERTIES
    QueuedJobsAreRun
    ShutdownEnds
CHECK_DEADLOCK FALSE

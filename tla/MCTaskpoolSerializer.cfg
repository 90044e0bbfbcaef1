CONSTANTS
    c1 = c1  c2 = c2  p1 = p1  p2 = p2
    t1 = t1  w1 = w1
    Clients <- MCClients
    Threads <- MCThreads
    Tasks <- MCTasks
    Jobs <- MCJobs
    Execute = Execute  Susp = Susp  Empty = Empty  Fail = Fail  None = None
    MaxSuspends = 1
    MayShutDown = TRUE
SPECIFICATION FairSpec
CHECK_DEADLOCK FALSE
INVARIANTS NoLostWakeup SingleExecutor QuietWhenSuspended
PROPERTIES IsSerialExecutor EveryTaskRuns EveryWaitEnds

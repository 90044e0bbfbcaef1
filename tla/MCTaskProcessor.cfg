CONSTANTS
    c1 = c1  c2 = c2
    t1 = t1  t2 = t2  t3 = t3
    Clients <- MCClients
    Tasks <- MCTasks3
    Poll = Poll
    Die = Die
    None = None
SPECIFICATION FairSpec
CHECK_DEADLOCK FALSE
INVARIANTS NoPostToDead NothingLost NoUseAfterFree
PROPERTIES IsSerialExecutor EveryTaskRuns ShutdownCompletes

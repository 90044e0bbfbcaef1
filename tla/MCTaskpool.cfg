SPECIFICATION Spec
CONSTANTS
    c1 = c1
    None = None
    ShrinkThread = ShrinkThread
    ShutdownThread = ShutdownThread
    Clients = {c1}
    MaxWorkers = 3
    RawOptions <- MCOptions
    DefaultThreshold = 2
INVARIANT TypeOK
INVARIANT SizeBound
INVARIANT StopIsLast
INVARIANT PoolRefsExact
INVARIANT DeadlockOnlyIfBusy
INVARIANT ShutdownCompletes
CHECK_DEADLOCK FALSE

SPECIFICATION FairSpec
CONSTANTS
    o1 = o1
    o2 = o2
    s1 = s1
    s2 = s2
    s3 = s3
    None = None
    Owners <- MCOwners
    Structs <- MCTwoStructs
    Timings <- MCFixed
    IdIncrement = 1
    MaxCache = 1
    MaxTries = 2
    MaxScheds = 2
    MaxLate = 1
PROPERTY DeleteReturns
PROPERTY DueRuns
PROPERTY StopCompletes
CHECK_DEADLOCK FALSE

SPECIFICATION Spec
CONSTANTS
    o1 = o1
    o2 = o2
    s1 = s1
    s2 = s2
    s3 = s3
    None = None
    Owners <- MCOwners
    Structs <- MCStructs
    Timings <- MCVariable
    IdIncrement = 1
    MaxCache = 1
    MaxTries = 2
    MaxScheds = 3
    MaxLate = 1
SYMMETRY MCSymmetry
INVARIANT TypeOK
INVARIANT Conserved
INVARIANT NoOversleep
INVARIANT DeletedIsQuiet
INVARIANT RefHeld
PROPERTY RunsInOrder
CHECK_DEADLOCK FALSE

CONSTANTS
    t1 = t1  t2 = t2  t3 = t3  p1 = p1  p2 = p2  p3 = p3  k1 = k1  k2 = k2
    Threads <- MCThreads
    Pairs <- MCPairs
    Keys <- MCKeys
    Unlink = Unlink
    None = None
SPECIFICATION Spec
SYMMETRY MCSymmetry
INVARIANTS SameLock RefsExact ContainerExact NotifiedOnce

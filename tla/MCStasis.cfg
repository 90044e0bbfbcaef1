CONSTANTS
    s1 = s1  ta = ta  tb = tb  tc = tc
    Clients = {c1, c2}
    Subs = {s1}
    Direct = {}
    Topics = {ta, tb, tc}
    home <- HomeC
    Edges <- Triangle
    MaxCalls = 2
    None = None
SYMMETRY ClientSymmetry
SPECIFICATION Spec
INVARIANTS FinalIsLast PathsExact DtorSafe OnlySyncCircular
CHECK_DEADLOCK FALSE

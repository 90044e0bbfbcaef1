CONSTANTS
    s1 = s1  ta = ta  tb = tb  tc = tc
    Clients = {c1}
    Subs = {s1, s2}
    Direct = {s2}
    Topics = {ta, tb}
    home <- HomeLine
    Edges <- Line
    MaxCalls = 1
    None = None
SPECIFICATION Spec
PROPERTY CallsReturn
CHECK_DEADLOCK FALSE

SPECIFICATION Spec
CONSTANTS
    None = None
    p1 = p1
    p2 = p2
    p3 = p3
    Proc = {p1, p2}
    Daemons = {p2}
    Sizes = {1, 2}
    HeaderLen = 1
    MaxTorn = 1
    MaxOps = 2
INVARIANTS
    TypeOK
    ChainLinear
    ViewIsPrefix
    OnlyTheBehindAreRefused
PROPERTY AppendOnly

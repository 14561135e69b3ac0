SPECIFICATION Spec
CONSTANTS
    None = None
    p1 = p1
    p2 = p2
    p3 = p3
    Proc = {p1, p2, p3}
    Daemons = {p2}
    Sizes = {1}
    HeaderLen = 1
    MaxTorn = 0
    MaxOps = 2
INVARIANT AckedDurable
PROPERTY ImplementsOpChain

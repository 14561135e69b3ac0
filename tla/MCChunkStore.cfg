SPECIFICATION Spec
CONSTANTS
    p1 = p1
    p2 = p2
    c1 = c1
    c2 = c2
    x1 = x1
    x2 = x2
    None = None
    Missing = Missing
    Proc = {p1, p2}
    Chunk = {c1, c2}
    Push = {x1, x2}
    SealAt = 3
    MaxDepth = 2
    MaxSeq = 5
INVARIANT IndexedResolves
PROPERTY ImplementsContentStore
SYMMETRY Symmetry

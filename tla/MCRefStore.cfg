SPECIFICATION Spec
CONSTANTS
    p1 = p1
    p2 = p2
    a = a
    b = b
    x = x
    y = y
    None = None
    Absent = Absent
    Proc = {p1, p2}
    Ref = {a, b}
    Target = {x, y}
    Change <- MCChange
    Writable <- MCWritable
    SnapshotEvery = 2
    MaxOps = 3
INVARIANTS
    RefsAreReplay
PROPERTY ImplementsRefHistory

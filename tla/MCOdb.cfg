SPECIFICATION Spec
CONSTANTS
    p1 = p1
    p2 = p2
    o1 = o1
    o2 = o2
    o3 = o3
    None = None
    Proc = {p1, p2}
    Obj = {o1, o2, o3}
    Uses <- MCUses
INVARIANTS
    MappedHasContent
    ViewHasContent
    AckedDurable
PROPERTY FilesOnlyGrow

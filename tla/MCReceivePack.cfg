SPECIFICATION ReceiveSpec
CONSTANTS
    r1 = r1
    r2 = r2
    r3 = r3
    a = a
    b = b
    c1 = c1
    c2 = c2
    c3 = c3
    t1 = t1
    t2 = t2
    Nil = Nil
    Req = {r1, r2, r3}
    RefName = {a, b}
    Tip = {c1, c2, c3}
    Object = {c1, c2, c3, t1, t2}
    Needs <- MCNeeds
    Prismatic = {}
    Push <- MCPush
    MaxRolls = 1
INVARIANTS
    RefsComplete
PROPERTY RewindTakesOwn

SPECIFICATION FairSpec
CONSTANTS
    c1 = c1
    c2 = c2
    d1 = d1
    d2 = d2
    d3 = d3
    None = None
    Client = {c1, c2}
    Keyed = {c1, c2}
    Daemon = {d1, d2}
    SnapshotEvery = 9
    MaxTries = 3
INVARIANTS
    AppliedOnce
    AcksAreTrue
    RunsAreDurable
PROPERTY EveryClientEnds
CHECK_DEADLOCK FALSE

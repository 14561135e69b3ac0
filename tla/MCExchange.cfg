SPECIFICATION Spec
CONSTANTS
    r1 = r1
    r2 = r2
    p1 = p1
    p2 = p2
    p3 = p3
    main = main
    c0 = c0
    c1 = c1
    c2 = c2
    None = None
    Repo = {r1, r2}
    Proc = {p1, p2, p3}
    Home <- MCHome
    Fetchers = {p2, p3}
    Pushers = {p1, p2}
    Forcers = {p2}
    Ref = {main}
    Commit = {c0, c1, c2}
    Parents <- MCParents
    Author <- MCAuthor
    Root = c0
    Clones = {r1}
    Signs = {r1}
    MustSign = {r1}
    NonceCap = 1
    MaxAdverts = 2
    MaxCopies <- MCCopies
    MaxDoubled = 1
INVARIANTS
    SignedOnce
    OnlyTheDoubledIsLost
PROPERTIES
    NoLostUpdate
    TrackingAdvances

SPECIFICATION BindFairSpec
CONSTANTS
    NoServer = NoServer
    Server = {d1, d2, d3}
    Caller = {c1, c2}
PROPERTIES
    ExitDropsNothing
    OrphansEnd
CHECK_DEADLOCK FALSE

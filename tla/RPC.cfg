CONSTANTS
    None = None
    Garbage = Garbage
    Wide = FALSE
    h = h
    g = g
    id = id
    flag = flag
    Keys = {id, flag}
    Services = {h, g}
    Options <- MCOptions
    Via <- MCVia
    Registry <- MCRegistry
    EdgeContexts <- MCEdgeContexts
    Verdicts <- MCVerdicts
    MaxSpans = 4
    MaxEdge = 1
    MaxWrites = 1
    MaxEnds = 1
SPECIFICATION Spec
CHECK_DEADLOCK FALSE
INVARIANTS
    TypeOK
    BaggageFollowsRequests
    SamplerPrecedence
    ReportedAtEnd

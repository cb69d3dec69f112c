CONSTANTS
    None = None
    Garbage = Garbage
    Wide = TRUE
    a = a
    b = b
    Services = {a, b}
    Options <- MCOptions
    Style <- MultiAndSingle
    Damaging = TRUE
    MaxSpans = 4
    MaxRoots = 1
    MaxExtracted = 1
SPECIFICATION Spec
CHECK_DEADLOCK FALSE
INVARIANTS
    TypeOK
    FollowsOrRestarts
    DecisionKept
    NoHoles
    IdsDistinct

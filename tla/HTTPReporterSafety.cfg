CONSTANTS
    s1 = s1
    s2 = s2
    s3 = s3
    s4 = s4
    s5 = s5
    Spans = {s1, s2, s3, s4, s5}
    Malformed = {s5}
    BatchSize = 2
    MaxBacklog = 3
    ValidURL = TRUE
SPECIFICATION Spec
SYMMETRY Symmetry
CHECK_DEADLOCK FALSE
INVARIANTS
    TypeOK
    SliceInBounds
    RetainedIsNewest
    NeverResent
    UnansweredRetained
    NoLostWakeup
    CloseFlushes
PROPERTIES
    ImplementsQueue

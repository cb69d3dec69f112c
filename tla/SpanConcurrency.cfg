CONSTANTS
    p = p
    c1 = c1
    c2 = c2
    c3 = c3
    Spans = {p}
    Calls = {c1, c2, c3}
    None = None
    UnsampledNoop = FALSE
SPECIFICATION FairSpec
CHECK_DEADLOCK FALSE
INVARIANTS
    TypeOK
    FinishedOnce
    DurationsAgree
    UnsampledSilent
PROPERTIES
    FirstErrorKept
    CallsReturn

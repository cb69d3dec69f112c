CONSTANTS
    s1 = s1
    s2 = s2
    s3 = s3
    s4 = s4
    Spans = {s1, s2, s3, s4}
    Malformed = {}
    BatchSize = 1
    MaxBacklog = 2
    ValidURL = TRUE
SPECIFICATION Spec
SYMMETRY Symmetry
CHECK_DEADLOCK FALSE
INVARIANT OnlySentSpansRemoved

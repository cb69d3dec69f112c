CONSTANTS
    s1 = s1
    s2 = s2
    s3 = s3
    Spans = {s1, s2, s3}
    Malformed = {s3}
    BatchSize = 2
    MaxBacklog = 2
    ValidURL = TRUE
SPECIFICATION FairSpec
CHECK_DEADLOCK FALSE
PROPERTIES
    SendReturns
    CloseTerminates
    SpansLeave

CONSTANTS
    None = None
    Calls = {c}
    c = c
    Statuses = {302, 404}
    TagResponseSize = TRUE
    ErrResponseReader = TRUE
    Interfaces = {"Hijacker", "Flusher", "ReaderFrom"}
    MaxExchanges = 2
    Elaborate = {1}
    MaxSize = 2
SPECIFICATION FairSpec
CHECK_DEADLOCK FALSE
INVARIANTS
    TypeOK
    StatusesAgree
    SizesAgree
    ReportedAtExit
    AppSpanCovers
PROPERTY SpansReported

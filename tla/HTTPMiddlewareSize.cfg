CONSTANTS
    None = None
    Calls = {c}
    c = c
    Statuses = {200}
    TagResponseSize = TRUE
    ErrResponseReader = TRUE
    Interfaces = {"Hijacker", "Flusher", "ReaderFrom"}
    MaxExchanges = 1
    Elaborate = {1}
    MaxSize = 1
SPECIFICATION FairSpec
CHECK_DEADLOCK FALSE
INVARIANT ResponseSizeTagged

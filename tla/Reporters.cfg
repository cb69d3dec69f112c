CONSTANTS
    Word = 1024
    Micro = 10
    Second = 30
    ZeroNanos <- MCZeroNanos
    NoTime = NoTime
    Nil = Nil
    Names = {"", "Get", "get"}
    c1 = c1
    c2 = c2
    Calls = {c1, c2}
    SpansOf <- MCSpansOf
SPECIFICATION Spec
CHECK_DEADLOCK FALSE
INVARIANTS
    TypeOK
    NothingSilent
    ReadAsWritten
    Rewritten
PROPERTIES
    CallsEnd

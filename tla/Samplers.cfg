CONSTANTS
    g1 = g1
    g2 = g2
    g3 = g3
    Goroutines = {g1, g2, g3}
    Size = 4
    Parts = 8
    Bits = 4
    Salts <- MCSalts
    Mods = {0, 1, 2, 3}
    NoOne = NoOne
    MaxAsked = 9
SYMMETRY Symmetry
SPECIFICATION Spec
CHECK_DEADLOCK FALSE
INVARIANTS
    TypeOK
    WindowExact
    BoundaryExact

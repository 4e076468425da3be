SPECIFICATION FairSpec
CONSTANTS
    c1 = c1
    c2 = c2
    a = a
    b = b
    Cells = {c1, c2}
    Symbols = {a, b}
    Asks <- CellAndTable
    GiveUp = 1
    MaxFetch = 1
INVARIANTS
    TypeOK
    AsksForThePage
    NeverStranded
PROPERTIES
    EveryCellFills

SPECIFICATION Spec
CONSTANTS
    a = a
    b = b
    Enumerated <- MCEnumerated
    Positions <- MCPositions
    BarCovers <- MCBarCovers
    MenuCovers <- MCMenuCovers
    Batch = 1
    GenMod = 4
    MaxMoves = 6
    None = None
INVARIANTS
    BuildIsDriven
    NothingForgotten
    ChromeStaysVisible
CHECK_DEADLOCK FALSE

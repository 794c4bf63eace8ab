SPECIFICATION MCSpec
CONSTANTS
    a = a
    b = b
    c = c
    w = w
    x = x
    y = y
    Render = {a, b, c}
    Window = {w, x, y}
    MaxInFlight = 1
    MaxWorkers = 2
    Wrap = 8
INVARIANTS
    OneRenderPerWindow
    LedgerSettles
PROPERTIES
    PoolsAreLeased
    CallReturns
CHECK_DEADLOCK FALSE

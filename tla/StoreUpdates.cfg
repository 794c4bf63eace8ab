SPECIFICATION Spec
CONSTANTS
    Writer = {w1, w2, w3}
    Starter = {s1, s2}
    User = User
    None = None
    MaxCrashes = 2
INVARIANTS
    UpdatesSurvive
PROPERTIES
    UnreadIsKept
SYMMETRY Symmetry
CHECK_DEADLOCK FALSE

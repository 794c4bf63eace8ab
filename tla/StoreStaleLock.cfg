SPECIFICATION Spec
CONSTANTS
    Writer = {w1, w2, w3}
    Starter = {}
    User = User
    None = None
    MaxCrashes = 1
INVARIANTS
    OneUpdaterAtATime
CHECK_DEADLOCK FALSE

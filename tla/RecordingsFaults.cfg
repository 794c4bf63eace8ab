SPECIFICATION Spec
CONSTANTS
    r1 = r1
    r2 = r2
    Recording = {r1}
    Ui = {u1, u2}
    Fault = {"post", "file", "window", "thread", "source", "deadline"}
    None = None
INVARIANTS
    OneHolder
    OnlyUnfinishedIsLost
PROPERTIES
    SettledOnce
SYMMETRY Symmetry
CHECK_DEADLOCK FALSE
